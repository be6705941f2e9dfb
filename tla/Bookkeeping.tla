----------------------------- MODULE Bookkeeping -----------------------------
(***************************************************************************)
(* The two records of what was spent, the provider ledgers in Redis and    *)
(* the audit log in the database, written by requests that run at the same *)
(* time and may stop anywhere, and the two scripts an operator runs        *)
(* against them: reconcile, which compares the records, and                *)
(* purge_audit_rows, which deletes the rows of one request id.             *)
(*                                                                         *)
(* Every request runs the default chain with room in every ledger: what    *)
(* refusals do to a ledger is in ProviderBudget and RequestPath.           *)
(***************************************************************************)
EXTENDS Metering, Money

CONSTANTS Requests,
          MaxFaults      \* bound on failures of Redis, database and process

VARIABLES pc,            \* where each request stands
          provider,      \* final_provider
          charge,        \* cost
          outcome,       \* the row it is to write
          claimed,       \* the providers its reservation is in the ledger of
          unsettled,     \* those _settle_providers has still to do
          ledger,
          rows,          \* the audit log: who wrote a row, and with which outcome
          reconcile,     \* the reconcile script
          purge,         \* the purge script
          faults,
          answer,        \* ghost: what the provider made of the request
          overlap,       \* ghost: claims made after reconcile read that ledger
          low,           \* ghost: ledgers it found lower than is explained
          lost           \* ghost: rows that purge deleted without a copy

request == <<pc, provider, charge, outcome, claimed, unsettled, answer>>
scripts == <<reconcile, purge>>
vars == <<request, ledger, rows, scripts, faults, overlap, low, lost>>

\* The completion, the native stream and the OpenAI-shaped stream.
Endpoints == {"chat", "stream", "sse"}
Outcomes == {"success", "error", "aborted"}
Rows == Requests \X Outcomes
Ended == {"done", "gone"}
Points == {"new", "claiming", "claimed", "noting", "settling", "recording"} \cup Ended

Nobody == "nobody"
NoRow == "no row"
Unread == -1
NothingRead == [p \in Hosted |-> Unread]

ASSUME BookkeepingAssumption == /\ IsFiniteSet(Requests) /\ MaxFaults \in Nat
                                /\ Nobody \notin Providers

\* _audit_totals takes the rows that name a provider.
RowProvider(row) == IF row[2] = "error" THEN Nobody ELSE provider[row[1]]
RowCost(row) == IF row[2] = "error" THEN 0 ELSE charge[row[1]]

\* More than any charge or claim.
MostInput == Chars * Attempts + Longest + 1
MostOutput == MaxOutput * (Attempts + Longest) + 1
Most == CharsPerToken * (MostInput * InPrice + MostOutput * OutPrice)

NoAnswer == [prompt |-> 0, tokens |-> 0, span |-> 0]

TypeOK ==
  /\ pc \in [Requests -> Points]
  /\ provider \in [Requests -> Providers \cup {Nobody}]
  /\ charge \in [Requests -> 0..Most]
  /\ outcome \in [Requests -> Outcomes \cup {NoRow}]
  /\ claimed \in [Requests -> SUBSET Hosted]
  /\ \A r \in Requests : unsettled[r] \subseteq claimed[r]
  /\ ledger \in [Hosted -> Nat]
  /\ rows \subseteq {row \in Rows : pc[row[1]] # "new"}
  /\ reconcile \in [at : {"idle", "reading", "ended"}, ledger : [Hosted -> Nat \cup {Unread}],
                    exit : {"none", "agree", "disagree", "unreachable"}, busy : BOOLEAN]
  /\ purge \in [at : {"idle", "selected", "exported", "ended"}, id : SUBSET Requests,
                rows : SUBSET Rows, export : SUBSET Rows, deleted : BOOLEAN]
  /\ faults \in 0..MaxFaults
  /\ answer \in [Requests -> Answers \cup {NoAnswer}]
  /\ overlap \in SUBSET (Requests \X Hosted) /\ low \in SUBSET Hosted
  /\ lost \in SUBSET Rows

Init ==
  /\ pc = [r \in Requests |-> "new"]
  /\ provider = [r \in Requests |-> Nobody]
  /\ charge = [r \in Requests |-> 0]
  /\ outcome = [r \in Requests |-> NoRow]
  /\ claimed = [r \in Requests |-> {}]
  /\ unsettled = [r \in Requests |-> {}]
  /\ ledger = [p \in Hosted |-> 0]
  /\ rows = {}
  /\ reconcile = [at |-> "idle", ledger |-> NothingRead, exit |-> "none", busy |-> FALSE]
  /\ purge = [at |-> "idle", id |-> {}, rows |-> {}, export |-> {}, deleted |-> FALSE]
  /\ faults = 0
  /\ answer = [r \in Requests |-> NoAnswer]
  /\ overlap = {} /\ low = {} /\ lost = {}

Goto(r, point) == pc' = [pc EXCEPT ![r] = point]

Fault == faults < MaxFaults /\ faults' = faults + 1

-----------------------------------------------------------------------------
(* A request reserves *)

\* _reserve_chain, one provider of the chain after the other.
Reserve(r, p) ==
  /\ pc[r] \in {"new", "claiming"}
  /\ p \notin claimed[r]
  /\ p = Anthropic => OpenAI \in claimed[r]
  /\ claimed' = [claimed EXCEPT ![r] = @ \cup {p}]
  /\ ledger' = [ledger EXCEPT ![p] = @ + WorstCase(p)]
  /\ Goto(r, IF claimed'[r] = Hosted THEN "claimed" ELSE "claiming")
  /\ reconcile' = [reconcile EXCEPT !.busy = @ \/ reconcile.at = "reading"]
  /\ overlap' = IF reconcile.ledger[p] # Unread THEN overlap \cup {<<r, p>>} ELSE overlap
  /\ UNCHANGED <<provider, charge, outcome, unsettled, answer,
                 rows, purge, faults, low, lost>>

-----------------------------------------------------------------------------
(* ... is answered, or not ... *)

\* What the handlers know when the router is through with request r, and what
\* they do not: the answer.
End(r, p, cost, row, a) ==
  /\ pc[r] = "claimed"
  /\ provider' = [provider EXCEPT ![r] = p]
  /\ charge' = [charge EXCEPT ![r] = cost]
  /\ outcome' = [outcome EXCEPT ![r] = row]
  /\ answer' = [answer EXCEPT ![r] = a]
  /\ unsettled' = [unsettled EXCEPT ![r] = Hosted]
  /\ UNCHANGED <<claimed, ledger, rows, scripts, faults, overlap, low, lost>>

\* _serve_chat
ChatAnswered(r, p, a) ==
  \E usage \in ChatUsages(p, a) :
    /\ End(r, p, Cost(p, usage), "success", a)
    /\ Goto(r, "settling")

\* _settle_stream_spend
StreamEnds(r, p, a) ==
  \E usage \in StreamUsages(p, a) :
    /\ End(r, p, Cost(p, usage), "success", a)
    /\ Goto(r, "settling")

\* All providers failed before any of them committed.  A chat writes its row
\* after it settled, the native stream before, the other stream none.
NobodyAnswers(r, endpoint) ==
  /\ End(r, Nobody, 0, IF endpoint = "chat" THEN "error" ELSE NoRow, NoAnswer)
  /\ Goto(r, IF endpoint = "stream" THEN "noting" ELSE "settling")

\* _settle_stream_on_abort, for a provider that had committed.  The answer is
\* what was delivered, the least the provider bills.
Abort(r, p, a, input) == End(r, p, AbortCost(p, input, Characters(a)), "aborted", a)

\* The provider breaks off.  The native stream writes a row for the error,
\* then another for the charge.
StreamBreaks(r, endpoint, p, a, input) ==
  /\ endpoint # "chat"
  /\ Abort(r, p, a, input)
  /\ Goto(r, IF endpoint = "stream" THEN "noting" ELSE "settling")

\* The client hangs up.
ClientLeaves(r, p, a, input) ==
  /\ Abort(r, p, a, input)
  /\ Goto(r, "settling")

\* The client hangs up before any provider committed.
ClientLeavesEarly(r) ==
  /\ End(r, Nobody, 0, NoRow, NoAnswer)
  /\ Goto(r, "settling")

-----------------------------------------------------------------------------
(* ... and keeps its books *)

\* record_audit_log: a failure is logged, and the request goes on.
RecordOrLose(row) == \/ rows' = rows \cup {row} /\ UNCHANGED faults
                     \/ Fault /\ UNCHANGED rows

NoteError(r) ==
  /\ pc[r] = "noting"
  /\ RecordOrLose(<<r, "error">>)
  /\ Goto(r, "settling")
  /\ UNCHANGED <<provider, charge, outcome, claimed, unsettled, answer,
                 ledger, scripts, overlap, low, lost>>

\* Faulty version: a reservation nobody used is kept.
SettleServed(r, p) ==
  IF p = provider[r] THEN [ledger EXCEPT ![p] = @ - WorstCase(p) + charge[r]] ELSE ledger

\* Faulty version: refunded in the "finally" as well.
SettleTwice(r, p) ==
  [ledger EXCEPT ![p] = @ - 2 * WorstCase(p) + (IF p = provider[r] THEN charge[r] ELSE 0)]

\* provider_budget.settle: the difference, in one command.
SettleOne(r, p) ==
  [ledger EXCEPT ![p] = @ - WorstCase(p) + (IF p = provider[r] THEN charge[r] ELSE 0)]

\* Faulty version: the refund and the charge are two commands.
SettledHalfway(r, p) == [ledger EXCEPT ![p] = @ - WorstCase(p)]

\* A settlement that fails leaves the claim.
Stranded(r, p) == ledger

\* _settle_providers: every provider in turn, whatever became of the others.
Settle(r, p) ==
  /\ pc[r] = "settling"
  /\ p \in unsettled[r]
  /\ p = Anthropic => OpenAI \notin unsettled[r]
  /\ \/ ledger' = SettleOne(r, p) /\ UNCHANGED faults
     \/ Fault /\ ledger' = Stranded(r, p)
  /\ unsettled' = [unsettled EXCEPT ![r] = @ \ {p}]
  /\ Goto(r, CASE unsettled'[r] # {} -> "settling"
               [] unsettled'[r] = {} /\ outcome[r] # NoRow -> "recording"
               [] OTHER -> "done")
  /\ UNCHANGED <<provider, charge, outcome, claimed, answer,
                 rows, scripts, overlap, low, lost>>

Record(r) ==
  /\ pc[r] = "recording"
  /\ RecordOrLose(<<r, outcome[r]>>)
  /\ Goto(r, "done")
  /\ UNCHANGED <<provider, charge, outcome, claimed, unsettled, answer,
                 ledger, scripts, overlap, low, lost>>

\* The process stops, and what it knew of the request is gone.
Crash(r) ==
  /\ pc[r] \notin Ended \cup {"new"}
  /\ Fault
  /\ Goto(r, "gone")
  /\ provider' = [provider EXCEPT ![r] = Nobody]
  /\ charge' = [charge EXCEPT ![r] = 0]
  /\ outcome' = [outcome EXCEPT ![r] = NoRow]
  /\ claimed' = [claimed EXCEPT ![r] = {}]
  /\ unsettled' = [unsettled EXCEPT ![r] = {}]
  /\ answer' = [answer EXCEPT ![r] = NoAnswer]
  /\ UNCHANGED <<ledger, rows, scripts, overlap, low, lost>>

-----------------------------------------------------------------------------
(* scripts/reconcile.py *)

InFlight == {r \in Requests : pc[r] \notin Ended \cup {"new"}}

\* snapshot: one provider after the other, by name.
ReadLedger(p) ==
  /\ reconcile.at # "ended"
  /\ reconcile.ledger[p] = Unread
  /\ p = OpenAI => reconcile.ledger[Anthropic] # Unread
  /\ reconcile' = [reconcile EXCEPT !.at = "reading", !.ledger[p] = ledger[p],
                                    !.busy = @ \/ InFlight # {}]
  /\ UNCHANGED <<request, ledger, rows, purge, faults, overlap, low, lost>>

AuditTotal(p) == Total([row \in Rows |-> RowCost(row)], {row \in rows : RowProvider(row) = p})

Gap(p) == reconcile.ledger[p] - AuditTotal(p)

Overlapping(p) == {r \in Requests : <<r, p>> \in overlap}

\* What a request is charged above its claim, which its settlement adds to the
\* ledger of p.
Excess(r, p) ==
  IF p = provider[r] /\ charge[r] > WorstCase(p) THEN charge[r] - WorstCase(p) ELSE 0

ExcessAt(p) == [r \in Requests |-> Excess(r, p)]

\* What reconcile may find a ledger short of the log by.
Explained(p) == Total(charge, Overlapping(p)) + Total(ExcessAt(p), Requests \ Overlapping(p))

\* _audit_totals, and the exit code.  (The tolerance is for floats, which the
\* model has not.)
ReadAudit ==
  /\ reconcile.at = "reading"
  /\ \A p \in Hosted : reconcile.ledger[p] # Unread
  /\ reconcile' = [reconcile EXCEPT !.at = "ended", !.ledger = NothingRead,
                     !.exit = IF \A p \in Hosted : Gap(p) = 0 THEN "agree" ELSE "disagree"]
  /\ low' = {p \in Hosted : Gap(p) < - Explained(p)}
  /\ overlap' = {}
  /\ UNCHANGED <<request, ledger, rows, purge, faults, lost>>

CannotRead ==
  /\ reconcile.at # "ended"
  /\ Fault
  /\ reconcile' = [reconcile EXCEPT !.at = "ended", !.ledger = NothingRead,
                                    !.exit = "unreachable"]
  /\ overlap' = {}
  /\ UNCHANGED <<request, ledger, rows, purge, low, lost>>

-----------------------------------------------------------------------------
(* scripts/purge_audit_rows.py *)

\* A correlation id stands for the requests that carry it: the id is the
\* client's, who may send the same one twice.
Carrying(id) == {row \in rows : row[1] \in id}

NoPurge(at) == [purge EXCEPT !.at = at, !.id = {}, !.rows = {}, !.export = {}]

\* Nothing found, or a dry run, ends the script.
SelectRows(id, apply) ==
  /\ purge.at = "idle"
  /\ purge' = IF apply /\ Carrying(id) # {}
              THEN [purge EXCEPT !.at = "selected", !.id = id, !.rows = Carrying(id)]
              ELSE NoPurge("ended")
  /\ UNCHANGED <<request, ledger, rows, reconcile, faults, overlap, low, lost>>

\* Written and read back.
Export ==
  /\ purge.at = "selected"
  /\ purge' = [purge EXCEPT !.at = "exported", !.export = purge.rows]
  /\ UNCHANGED <<request, ledger, rows, reconcile, faults, overlap, low, lost>>

\* The write raises, or the file read back is not the rows.
ExportFails ==
  /\ purge.at = "selected"
  /\ Fault
  /\ purge' = NoPurge("ended")
  /\ UNCHANGED <<request, ledger, rows, reconcile, overlap, low, lost>>

\* By the id once more, not by the rows that were found.
DeleteRows ==
  /\ purge.at = "exported"
  /\ rows' = rows \ Carrying(purge.id)
  /\ lost' = Carrying(purge.id) \ purge.export
  /\ purge' = [NoPurge("ended") EXCEPT !.deleted = TRUE]
  /\ UNCHANGED <<request, ledger, reconcile, faults, overlap, low>>

\* The delete raises, or the database was out of reach from the start.
PurgeFails ==
  /\ purge.at \in {"idle", "exported"}
  /\ Fault
  /\ purge' = NoPurge("ended")
  /\ UNCHANGED <<request, ledger, rows, reconcile, overlap, low, lost>>

-----------------------------------------------------------------------------
Answered(r) ==
  \/ ClientLeavesEarly(r)
  \/ \E endpoint \in Endpoints : NobodyAnswers(r, endpoint)
  \/ \E p \in Providers, a \in Answers :
       \/ ChatAnswered(r, p, a)
       \/ StreamEnds(r, p, a)
       \/ \E input \in {0, a.prompt} :
            \/ \E endpoint \in Endpoints : StreamBreaks(r, endpoint, p, a, input)
            \/ ClientLeaves(r, p, a, input)

Work(r) == \/ \E p \in Hosted : Reserve(r, p) \/ Settle(r, p)
           \/ Answered(r)
           \/ NoteError(r) \/ Record(r) \/ Crash(r)

Reconcile == (\E p \in Hosted : ReadLedger(p)) \/ ReadAudit \/ CannotRead

Purge == \/ \E id \in SUBSET Requests \ {{}}, apply \in BOOLEAN : SelectRows(id, apply)
         \/ Export \/ ExportFails \/ DeleteRows \/ PurgeFails

Next == (\E r \in Requests : Work(r)) \/ Reconcile \/ Purge

Spec == Init /\ [][Next]_vars

-----------------------------------------------------------------------------
(* Properties *)

\* A ledger is found lower than the log by no more than the charges of the
\* requests that reserved after it was read and had their rows in the log when
\* that was read, and what the others were charged above their claims: no
\* failure, no crash, no lost row and no purge makes a ledger smaller than the
\* log (reconcile reads the ledger first; settle comes before the row).
LowIsOnlyOverlap == low = {}

\* With nothing failed, nothing deleted and no request in flight while
\* reconcile reads, the two records agree, whatever the requests did.
QuietBooksAgree ==
  reconcile.at = "ended" /\ ~reconcile.busy /\ faults = 0 /\ ~purge.deleted
    => reconcile.exit = "agree"

\* A text outside what the reservation allows for: a prompt of more tokens
\* than a third of its characters in every attempt, or output tokens of more
\* characters than three for every attempt.
Unusual(a) == \/ CharsPerToken * a.prompt > Attempts * Chars
              \/ a.span > CharsPerToken * Attempts

\* Settling raises a ledger only for such a text: any other request is charged
\* within its claim, whichever way it ended and whoever counted its tokens
\* (worst_case_cost_usd, the adapters' usage, _settle_stream_on_abort).
OverrunsAreUnusual ==
  \A r \in Requests :
    provider[r] \in Hosted /\ charge[r] > WorstCase(provider[r]) => Unusual(answer[r])

Billed(r) == Bill(provider[r], answer[r])

Prompt(r) == Cost(provider[r], [input |-> answer[r].prompt, output |-> 0])

\* A request is charged less than the provider bills only if the provider's usage
\* never came: a stream that was aborted, by at most its prompt unless its tokens
\* are shorter than an estimate takes them for, and an answer of OpenAI's without
\* a usage block (_settle_stream_on_abort, the adapters' usage).
UnderchargesAreUntold ==
  \A r \in Requests : provider[r] \in Hosted /\ charge[r] < Billed(r) =>
    \/ /\ outcome[r] = "aborted"
       /\ answer[r].span >= CharsPerToken => Billed(r) - charge[r] <= Prompt(r)
    \/ outcome[r] = "success" /\ provider[r] = OpenAI

-----------------------------------------------------------------------------
(* What the repository says of itself, and the code does not do *)

\* "Nothing is ever removed without a copy existing somewhere first"
\* (purge_audit_rows).
NothingRemovedWithoutCopy == lost = {}

=============================================================================
