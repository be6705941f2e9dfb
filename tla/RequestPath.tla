------------------------------ MODULE RequestPath ------------------------------
(***************************************************************************)
(* The request path from reserve to settle (app/main.py): concurrent       *)
(* requests of one client key claim their worst case on the lifetime       *)
(* ledger of every billable provider of their chain and on the key's       *)
(* monthly ledger, go through the fallback router, and settle both.        *)
(*                                                                         *)
(* A request is a record: its control point and the locals the code keeps. *)
(* An action is what happens at one await (a Redis command, a provider     *)
(* call, an audit write, a yield to the client) together with the code up  *)
(* to the next await.  A Redis command is executed and answered here in    *)
(* one step; ProviderBudget has the steps in between.                      *)
(***************************************************************************)
EXTENDS Money, Sequences

CONSTANTS Requests,
          Chains,       \* FALLBACK_CHAINS: sequences of providers
          Free,         \* FREE_PROVIDERS
          Unpriced,     \* the sets of providers whose model may have no price
          Kinds,        \* the endpoints in use: "chat", "stream", "openai"
          Worst,        \* bound on the cost of one attempt
          Retries,      \* provider_retry_attempts
          ProviderCap,  \* provider_lifetime_budget_usd
          KeyCap,       \* monthly_budget_usd
          Key,          \* the client key's ledger
          Nobody,       \* no provider
          MaxFaults,    \* bound on Redis, database and unexpected errors
          MaxCancels    \* bound on cancellations

Hops(c) == {c[i] : i \in DOMAIN c}
Providers == UNION {Hops(c) : c \in Chains}
Billable == Providers \ Free
Ledgers == Billable \cup {Key}

\* Faulty version: the claim covers one attempt only.
ClaimOneAttempt == Worst

\* worst_case_cost_usd times the attempts the router may make of one provider.
Claim == Worst * (Retries + 1)
Most == Claim * Cardinality(Billable)

\* No chain names a provider twice (decided by FALLBACK_CHAINS).
ASSUME PathAssumption ==
  /\ IsFiniteSet(Requests) /\ IsFiniteSet(Billable)
  /\ Chains \subseteq Seq(Providers)
  /\ \A c \in Chains : \A i, j \in DOMAIN c : c[i] = c[j] => i = j
  /\ Key \notin Providers /\ Nobody \notin Providers
  /\ Unpriced \subseteq SUBSET Billable
  /\ Kinds \subseteq {"chat", "stream", "openai"}
  /\ Worst \in Nat \ {0}
  /\ {Retries, ProviderCap, KeyCap, MaxFaults, MaxCancels} \subseteq Nat

VARIABLES req,       \* the requests
          ledger,    \* the Redis numbers
          stake,     \* ghost: what each request has put into each ledger
          standing,  \* ghost: what SpendLedger says of each claim
          billed,    \* ghost: what each provider has billed for each request
          faults, cancels

books == <<ledger, stake, standing>>
bounds == <<faults, cancels>>
vars == <<req, books, billed, bounds>>

Points == {"start", "reserving", "handing_back", "key_reserving", "key_handing_back",
           "unwinding", "responding", "calling", "streaming", "auditing_failure",
           "settling", "settling_key", "auditing", "stopping", "done"}

Outcomes == {"none", "refused", "served", "failed", "aborted", "crashed", "unbooked"}

TypeOK ==
  /\ req \in [Requests ->
       [pc : Points, kind : Kinds, chain : Chains, outcome : Outcomes,
        hop : Nat, retry : 0..Retries, skip : SUBSET Billable,
        reserved : [Billable -> 0..Claim],
        served : Providers \cup {Nobody}, actual : 0..Most, estimate : 0..Claim,
        held : BOOLEAN, settles : Nat, counted : Nat]]
  /\ ledger \in [Ledgers -> Nat]
  /\ stake \in [Ledgers -> [Requests -> 0..Most]]
  /\ standing \in [Ledgers -> [Requests ->
                   {"new", "granted", "over", "returned", "settled"}]]
  /\ billed \in [Billable -> [Requests -> 0..Claim]]
  /\ faults \in 0..MaxFaults /\ cancels \in 0..MaxCancels

Arrived(kind, chain, unpriced) ==
  [pc |-> "start", kind |-> kind, chain |-> chain, outcome |-> "none",
   hop |-> 0,                                \* where a loop over the chain stands
   retry |-> 0,
   skip |-> unpriced \cap Hops(chain),       \* skip
   reserved |-> [p \in Billable |-> 0],      \* reservations
   served |-> Nobody,                        \* final_provider / result.provider
   actual |-> 0,                             \* actual_usd
   estimate |-> 0,                           \* what an abort would charge
   held |-> FALSE,                           \* a cancellation is held back
   settles |-> 0,                            \* calls of _settle_chain
   counted |-> 0]                            \* REQUEST_COUNT increments

Init == /\ req \in [Requests -> {Arrived(k, c, u) : k \in Kinds, c \in Chains, u \in Unpriced}]
        /\ ledger = [l \in Ledgers |-> 0]
        /\ stake = [l \in Ledgers |-> [r \in Requests |-> 0]]
        /\ standing = [l \in Ledgers |-> [r \in Requests |-> "new"]]
        /\ billed = [p \in Billable |-> [r \in Requests |-> 0]]
        /\ faults = 0 /\ cancels = 0

-----------------------------------------------------------------------------
(* Local code: from an await to the next, on the record of a request *)

NextHop(q, S) ==
  LET ahead == {i \in q.hop + 1 .. Len(q.chain) : q.chain[i] \in S}
  IN  IF ahead = {} THEN Len(q.chain) + 1
      ELSE CHOOSE i \in ahead : \A j \in ahead : i <= j

Ended(q, S) == NextHop(q, S) > Len(q.chain)

Goto(q, point, S) == [q EXCEPT !.pc = point, !.hop = NextHop(q, S)]

Done(q) == [q EXCEPT !.pc = "done", !.hop = 0]

Count(q) == [q EXCEPT !.counted = @ + 1]

Reserved(q) == Total(q.reserved, Billable)

\* _settle_chain and _settle_providers

Charge(q, p) == IF p = q.served THEN q.actual ELSE 0

\* Faulty version: only the provider that served is settled.
UnsettledServedOnly(q) == {p \in Billable : p = q.served /\ q.reserved[p] # q.actual}

Unsettled(q) == {p \in Billable : q.reserved[p] # Charge(q, p)}

AfterAudit(q) ==
  IF q.outcome \notin {"served", "unbooked"} \/ q.kind = "chat" THEN Done(q)
  ELSE IF q.outcome = "served" /\ q.kind = "openai" THEN [q EXCEPT !.pc = "stopping"]
  ELSE Done(Count(q))

\* A stream that ended badly writes a row only if some provider had started.
AfterSettle(q) ==
  LET c == IF q.kind = "chat" /\ q.outcome = "failed" THEN Count(q) ELSE q
  IN  IF q.held \/ (q.kind # "chat" /\ q.served = Nobody)
      THEN Done(q) ELSE [c EXCEPT !.pc = "auditing"]

SettleKey(q) == IF q.actual = Reserved(q) THEN AfterSettle(q)
                ELSE [q EXCEPT !.pc = "settling_key", !.hop = 0]

SettleOn(q) == IF ~Ended(q, Unsettled(q)) THEN Goto(q, q.pc, Unsettled(q))
               ELSE IF q.pc = "unwinding" THEN Done(q)
               ELSE SettleKey(q)

SettleChain(q, provider, usd) ==
  SettleOn([q EXCEPT !.pc = "settling", !.hop = 0, !.settles = @ + 1,
                     !.served = provider, !.actual = usd])

\* Faulty version: the way out of _reserve_chain settles the key as well.
UnwindSettlesKey(q) == SettleChain([q EXCEPT !.outcome = "refused"], Nobody, 0)

\* The refund on the way out of _reserve_chain.
Unwind(q) == SettleOn([q EXCEPT !.pc = "unwinding", !.hop = 0, !.outcome = "refused"])

SettleOnAbort(q) ==
  SettleChain(q, q.served, IF q.served \in Free \cup {Nobody} THEN 0 ELSE q.estimate)

\* The router

AllFailed(q) ==
  LET f == [q EXCEPT !.outcome = "failed"]
  IN  CASE q.kind = "chat"   -> SettleChain(f, Nobody, 0)
        [] q.kind = "stream" -> [Count(f) EXCEPT !.pc = "auditing_failure"]
        [] q.kind = "openai" -> SettleOnAbort(Count(f))

CallNext(q) == LET usable == Providers \ q.skip
               IN  IF Ended(q, usable) THEN AllFailed(q)
                   ELSE [Goto(q, "calling", usable) EXCEPT !.retry = 0]

\* _reserve_chain, after the key's claim.  A stream's generator is not started
\* before the response headers are out.
Admit(q) == LET s == [q EXCEPT !.hop = 0]
            IN  IF q.kind = "chat" THEN CallNext(s) ELSE [s EXCEPT !.pc = "responding"]

\* The next provider to claim from; after the last, the refusal of a chain with
\* nothing usable, or the key's claim.
ReserveNext(q) ==
  IF ~Ended(q, Billable \ q.skip) THEN Goto(q, "reserving", Billable \ q.skip)
  ELSE IF Hops(q.chain) \subseteq q.skip THEN Unwind(q)
  ELSE IF Reserved(q) > 0 THEN [q EXCEPT !.pc = "key_reserving", !.hop = 0]
  ELSE Admit(q)

-----------------------------------------------------------------------------
(* How an await ends *)

Incr(l, r, delta, after) ==
  /\ ledger' = [ledger EXCEPT ![l] = @ + delta]
  /\ stake' = [stake EXCEPT ![l][r] = @ + delta]
  /\ standing' = [standing EXCEPT ![l][r] = after]

Fault == faults < MaxFaults /\ faults' = faults + 1 /\ UNCHANGED cancels

Cancellation == cancels < MaxCancels /\ cancels' = cancels + 1 /\ UNCHANGED faults

Replied(incr) == incr /\ UNCHANGED bounds

\* An error or a cancellation does not tell whether Redis executed the command.
Maybe(incr) == incr \/ UNCHANGED books

Errored(incr) == Fault /\ Maybe(incr)

Cancelled(incr) == Cancellation /\ Maybe(incr)

At(r, point) == req[r].pc = point

Provider(r) == req[r].chain[req[r].hop]

Continue(r, q) == req' = [req EXCEPT ![r] = q]

-----------------------------------------------------------------------------
(* _reserve_chain: the providers *)

Start(r) == /\ At(r, "start")
            /\ Continue(r, ReserveNext(req[r]))
            /\ UNCHANGED <<books, billed, bounds>>

CapOf(l) == IF l = Key THEN KeyCap ELSE ProviderCap

\* Faulty version: the number before the claim is compared with the cap.
FitsBefore(l, amount) == ledger[l] <= CapOf(l)

Fits(l, amount) == ledger[l] + amount <= CapOf(l)

ClaimOf(r, l, amount) ==
  Incr(l, r, amount, IF Fits(l, amount) THEN "granted" ELSE "over")

HandBackOf(r, l, amount) == Incr(l, r, - amount, "returned")

Granted(r) ==
  LET p == Provider(r) IN
  /\ At(r, "reserving")
  /\ Fits(p, Claim)
  /\ Replied(ClaimOf(r, p, Claim))
  /\ Continue(r, ReserveNext([req[r] EXCEPT !.reserved[p] = @ + Claim]))
  /\ UNCHANGED billed

OverCap(r) ==
  LET p == Provider(r) IN
  /\ At(r, "reserving")
  /\ ~Fits(p, Claim)
  /\ Replied(ClaimOf(r, p, Claim))
  /\ Continue(r, [req[r] EXCEPT !.pc = "handing_back"])
  /\ UNCHANGED billed

ReserveBroken(r) ==
  LET incr == ClaimOf(r, Provider(r), Claim) IN
  /\ At(r, "reserving")
  /\ Errored(incr) \/ Cancelled(incr)
  /\ Continue(r, Unwind(req[r]))
  /\ UNCHANGED billed

\* Refused whether or not the hand-back succeeded: the provider is skipped.
HandedBack(r) ==
  LET p == Provider(r)
      incr == HandBackOf(r, p, Claim) IN
  /\ At(r, "handing_back")
  /\ Replied(incr) \/ Errored(incr)
  /\ Continue(r, ReserveNext([req[r] EXCEPT !.skip = @ \cup {p}]))
  /\ UNCHANGED billed

HandBackCancelled(r) ==
  /\ At(r, "handing_back")
  /\ Cancelled(HandBackOf(r, Provider(r), Claim))
  /\ Continue(r, Unwind(req[r]))
  /\ UNCHANGED billed

(* The key *)

KeyGranted(r) ==
  LET usd == Reserved(req[r]) IN
  /\ At(r, "key_reserving")
  /\ Fits(Key, usd)
  /\ Replied(ClaimOf(r, Key, usd))
  /\ Continue(r, Admit(req[r]))
  /\ UNCHANGED billed

KeyOverCap(r) ==
  LET usd == Reserved(req[r]) IN
  /\ At(r, "key_reserving")
  /\ ~Fits(Key, usd)
  /\ Replied(ClaimOf(r, Key, usd))
  /\ Continue(r, [req[r] EXCEPT !.pc = "key_handing_back"])
  /\ UNCHANGED billed

KeyReserveBroken(r) ==
  LET incr == ClaimOf(r, Key, Reserved(req[r])) IN
  /\ At(r, "key_reserving")
  /\ Errored(incr) \/ Cancelled(incr)
  /\ Continue(r, Unwind(req[r]))
  /\ UNCHANGED billed

KeyHandedBack(r) ==
  LET incr == HandBackOf(r, Key, Reserved(req[r])) IN
  /\ At(r, "key_handing_back")
  /\ Replied(incr) \/ Errored(incr) \/ Cancelled(incr)
  /\ Continue(r, Unwind(req[r]))
  /\ UNCHANGED billed

-----------------------------------------------------------------------------
(* The router, as its callers see it: FallbackRouter.chat and .chat_stream *)

Bill(r, usd) ==
  billed' = IF Provider(r) \in Free THEN billed
            ELSE [billed EXCEPT ![Provider(r)][r] = @ + usd]

Prices(r) == IF Provider(r) \in Free THEN {0} ELSE 0..Worst

\* The headers are out; the generator starts.
Respond(r) == /\ At(r, "responding")
              /\ Continue(r, CallNext(req[r]))
              /\ UNCHANGED <<books, billed, bounds>>

\* The hop's breaker is open.
BreakerOpen(r) == /\ At(r, "calling")
                  /\ req[r].retry = 0
                  /\ Continue(r, CallNext(req[r]))
                  /\ UNCHANGED <<books, billed, bounds>>

\* Faulty version: after the last attempt the count starts again.
RetryForEver(r) ==
  /\ At(r, "calling")
  /\ Continue(r, [req[r] EXCEPT !.retry = (@ + 1) % (Retries + 1)])
  /\ UNCHANGED <<books, billed, bounds>>

\* A retryable failure: a time-out among them, after which the provider may
\* have generated, and billed, an answer.
RetryableFailure(r) ==
  /\ At(r, "calling")
  /\ \E usd \in Prices(r) : Bill(r, usd)
  /\ Continue(r, IF req[r].retry < Retries THEN [req[r] EXCEPT !.retry = @ + 1]
                 ELSE CallNext(req[r]))
  /\ UNCHANGED <<books, bounds>>

\* A client error, not billed: straight to the next hop.
FinalFailure(r) == /\ At(r, "calling")
                   /\ Continue(r, CallNext(req[r]))
                   /\ UNCHANGED <<books, billed, bounds>>

\* _serve_chat counts the success before it settles.
Answer(r) ==
  /\ At(r, "calling") /\ req[r].kind = "chat"
  /\ \E usd \in Prices(r) :
       /\ Bill(r, usd)
       /\ Continue(r, SettleChain([Count(req[r]) EXCEPT !.outcome = "served"],
                                  Provider(r), usd))
  /\ UNCHANGED <<books, bounds>>

\* The router commits to the hop.  The estimate stands for what the characters
\* streamed by the time the stream ends would be charged.  Nothing in the code
\* bounds it: that it is within the claim is assumed, and OverrunsAreUnusual, of
\* Bookkeeping, says of which texts it is not.
FirstChunk(r) ==
  /\ At(r, "calling") /\ req[r].kind # "chat"
  /\ \E usd \in 0..Claim :
       Continue(r, [req[r] EXCEPT !.pc = "streaming", !.served = Provider(r),
                                  !.estimate = usd])
  /\ UNCHANGED <<books, billed, bounds>>

\* Faulty version: the success is counted before the bookkeeping too.
LastChunkCounts(r) ==
  /\ At(r, "streaming")
  /\ \E usd \in Prices(r) :
       /\ Bill(r, usd)
       /\ Continue(r, SettleChain([Count(req[r]) EXCEPT !.outcome = "served"],
                                  Provider(r), usd))
  /\ UNCHANGED <<books, bounds>>

\* The last chunk, with the usage; _settle_stream_spend.
LastChunk(r) ==
  /\ At(r, "streaming")
  /\ \E usd \in Prices(r) :
       /\ Bill(r, usd)
       /\ Continue(r, SettleChain([req[r] EXCEPT !.outcome = "served"],
                                  Provider(r), usd))
  /\ UNCHANGED <<books, bounds>>

MidStreamFailure(r) ==
  /\ At(r, "streaming")
  /\ \E usd \in Prices(r) : Bill(r, usd)
  /\ Continue(r, AllFailed(req[r]))
  /\ UNCHANGED <<books, bounds>>

\* Something that is not a ProviderError: the streams report it in-band, while
\* _serve_chat has no handler for it.
Crash(r) ==
  LET q == [req[r] EXCEPT !.outcome = "crashed"] IN
  /\ At(r, "calling") \/ At(r, "streaming")
  /\ Fault
  /\ Continue(r, IF q.kind = "chat" THEN Done(q) ELSE SettleOnAbort(Count(q)))
  /\ UNCHANGED <<books, billed>>

\* Pricing or the metrics raise after the last chunk.  `settled` is not set, so
\* the handler settles by the estimate, which can fail in the same way, and
\* counts the request then.
TailFails(r) ==
  LET q == [req[r] EXCEPT !.outcome = "unbooked"] IN
  /\ At(r, "streaming")
  /\ Fault
  /\ \E usd \in Prices(r) : Bill(r, usd)
  /\ Continue(r, SettleOnAbort(q)) \/ Continue(r, Done(Count(q)))
  /\ UNCHANGED books

\* CancelledError, or GeneratorExit at a yield.  Nothing handles it before the
\* generator has started, nor in _serve_chat.
CancelCall(r) ==
  LET q == [req[r] EXCEPT !.outcome = "aborted"] IN
  /\ At(r, "responding") \/ At(r, "calling") \/ At(r, "streaming")
  /\ Cancellation
  /\ IF At(r, "streaming") THEN \E usd \in Prices(r) : Bill(r, usd)
     ELSE UNCHANGED billed
  /\ Continue(r, IF q.kind = "chat" \/ At(r, "responding") THEN Done(q)
                 ELSE SettleOnAbort(Count(q)))
  /\ UNCHANGED books

-----------------------------------------------------------------------------
(* Settling *)

SettleOf(r, l, claimed, usd) == Incr(l, r, usd - claimed, "settled")

\* Faulty version: a settlement that failed is tried again.
SettleProviderRetries(r) ==
  LET q == req[r]
      p == Provider(r)
      incr == SettleOf(r, p, q.reserved[p], Charge(q, p)) IN
  /\ At(r, "unwinding") \/ At(r, "settling")
  /\ \/ Replied(incr) /\ Continue(r, SettleOn(q))
     \/ Errored(incr) /\ UNCHANGED req
     \/ Cancelled(incr) /\ Continue(r, SettleOn([q EXCEPT !.held = TRUE]))
  /\ UNCHANGED billed

\* One provider of the loop.  An error leaves its claim and goes on; so does a
\* cancellation, which is raised again after the loop.
SettleProvider(r) ==
  LET q == req[r]
      p == Provider(r)
      incr == SettleOf(r, p, q.reserved[p], Charge(q, p)) IN
  /\ At(r, "unwinding") \/ At(r, "settling")
  /\ \/ (Replied(incr) \/ Errored(incr)) /\ Continue(r, SettleOn(q))
     \/ Cancelled(incr) /\ Continue(r, SettleOn([q EXCEPT !.held = TRUE]))
  /\ UNCHANGED billed

SettleTheKey(r) ==
  LET q == req[r]
      incr == SettleOf(r, Key, Reserved(q), q.actual) IN
  /\ At(r, "settling_key")
  /\ \/ (Replied(incr) \/ Errored(incr)) /\ Continue(r, AfterSettle(q))
     \/ Cancelled(incr) /\ Continue(r, Done(q))
  /\ UNCHANGED billed

-----------------------------------------------------------------------------
(* The audit write, and the last yield *)

\* record_audit_log swallows a database error.  (The rows are in Bookkeeping.)
Audit(r) ==
  /\ At(r, "auditing")
  /\ \/ (UNCHANGED bounds \/ Fault) /\ Continue(r, AfterAudit(req[r]))
     \/ Cancellation /\ Continue(r, Done(req[r]))
  /\ UNCHANGED <<books, billed>>

\* Faulty version: the handler does not look at `settled`.
TailSettlesAgain(r) ==
  /\ At(r, "auditing") /\ req[r].outcome = "served"
  /\ Fault
  /\ Continue(r, IF req[r].kind = "chat" THEN Done(req[r])
                 ELSE SettleOnAbort([req[r] EXCEPT !.outcome = "unbooked"]))
  /\ UNCHANGED <<books, billed>>

\* The audit write raises after all.  `settled` is set: the handler of a stream
\* only counts the request, and _serve_chat, which has none, has counted it.
AuditRaises(r) ==
  /\ At(r, "auditing") /\ req[r].outcome = "served"
  /\ Fault
  /\ Continue(r, Done(IF req[r].kind = "chat" THEN req[r] ELSE Count(req[r])))
  /\ UNCHANGED <<books, billed>>

\* _event_stream audits a failure before it settles.
AuditFailure(r) ==
  /\ At(r, "auditing_failure")
  /\ \/ (UNCHANGED bounds \/ Fault) /\ Continue(r, SettleOnAbort(req[r]))
     \/ Cancellation /\ Continue(r, Done(req[r]))
  /\ UNCHANGED <<books, billed>>

\* _openai_event_stream yields finish_reason before it counts the success.
Stop(r) ==
  /\ At(r, "stopping")
  /\ \/ UNCHANGED bounds /\ Continue(r, Done(Count(req[r])))
     \/ Cancellation /\ Continue(r, Done(req[r]))
  /\ UNCHANGED <<books, billed>>

-----------------------------------------------------------------------------
Reserving(r) == \/ Start(r) \/ Granted(r) \/ OverCap(r) \/ ReserveBroken(r)
                \/ HandedBack(r) \/ HandBackCancelled(r)
                \/ KeyGranted(r) \/ KeyOverCap(r) \/ KeyReserveBroken(r)
                \/ KeyHandedBack(r)

Serving(r) == \/ Respond(r) \/ BreakerOpen(r) \/ RetryableFailure(r) \/ FinalFailure(r)
              \/ Answer(r) \/ FirstChunk(r) \/ LastChunk(r) \/ MidStreamFailure(r)
              \/ Crash(r) \/ TailFails(r) \/ CancelCall(r)

Settling(r) == \/ SettleProvider(r) \/ SettleTheKey(r)
               \/ Audit(r) \/ AuditRaises(r) \/ AuditFailure(r) \/ Stop(r)

Step(r) == Reserving(r) \/ Serving(r) \/ Settling(r)

Next == \E r \in Requests : Step(r)

Spec == Init /\ [][Next]_vars

\* Redis, the database and the providers answer or time out, the client reads
\* or goes away, and the event loop resumes whoever was waiting.
FairSpec == Spec /\ \A r \in Requests : WF_vars(Step(r))

-----------------------------------------------------------------------------
(* Properties *)

Book(l) == INSTANCE SpendLedger
             WITH spent <- ledger[l], stake <- stake[l], standing <- standing[l],
                  Cap <- CapOf(l), MaxClaim <- Most

\* Every ledger, of a provider or of the key, is a SpendLedger: no path settles
\* a claim twice or settles one it does not hold, and none counts a claim that
\* was refused.  (That a charge is within its claim is FirstChunk's assumption.)
\* (\A l \in Ledgers : Book(l)!LedgerSpec, in the form TLC accepts.)
ImplementsSpendLedgers ==
  /\ \A l \in Ledgers : Book(l)!LedgerInit
  /\ [][\A l \in Ledgers : [Book(l)!LedgerNext]_(Book(l)!ledgerVars)]_books

\* A request that nothing disturbed leaves behind its cost on the ledger of the
\* provider that served it and on the key's, and nothing anywhere else.
SettledExactly ==
  \A r \in Requests : At(r, "done") /\ faults = 0 /\ cancels = 0 =>
    \A l \in Ledgers :
      stake[l][r] = IF l \in {Key, req[r].served} THEN req[r].actual ELSE 0

\* Once a cost is known, neither ledger ever holds less than it, whatever fails
\* or is cancelled: the errors of settling are on the side of refusing.
KnownCostIsKept ==
  \A r \in Requests : req[r].served \in Billable /\ req[r].settles > 0 =>
    \A l \in {Key, req[r].served} : stake[l][r] >= req[r].actual

\* The costs the gateway knows of, of all requests together, stay within the cap
\* of the provider that served them and within the key's, however reservations,
\* settlements, errors and cancellations interleave.
CostAt(l, r) ==
  IF req[r].settles > 0 /\ l \in {Key, req[r].served} THEN req[r].actual ELSE 0

CostsStayWithinTheCaps ==
  \A l \in Ledgers : Total([r \in Requests |-> CostAt(l, r)], Requests) <= CapOf(l)

\* While the router is at work, all that any provider has billed for any of its
\* attempts is covered by the request's claims, on both ledgers.
OpenBillsAreClaimed ==
  \A r \in Requests : At(r, "calling") \/ At(r, "streaming") =>
    /\ \A p \in Billable : billed[p][r] <= stake[p][r]
    /\ Total([p \in Billable |-> billed[p][r]], Billable) <= stake[Key][r]

\* What no status counts, by the comments of metrics.py: a refusal, and a chat in
\* which the router raised something unexpected, a 500 with a counter of its own.
Uncounted(q) == q.outcome = "refused" \/ (q.kind = "chat" /\ q.outcome = "crashed")

\* No request is counted under two statuses, and as long as nobody cancels every
\* request but those is counted under one: streams that break off, fail or raise
\* anywhere, before, in or after their bookkeeping, and chats that fail
\* (REQUEST_COUNT in _serve_chat and the two generators).
CountedOnce ==
  \A r \in Requests :
    /\ req[r].counted <= 1
    /\ At(r, "done") /\ cancels = 0 =>
         req[r].counted = IF Uncounted(req[r]) THEN 0 ELSE 1

\* No request is stuck between two hops, two attempts or two settlements.
EveryRequestEnds == \A r \in Requests : <>At(r, "done")

\* What the repository says of this path, and the code does not keep (README):

\* "every reserve reaches exactly one settle, on success and failure alike"
EveryReserveSettles ==
  \A r \in Requests :
    At(r, "done") /\ req[r].outcome # "refused" /\ Reserved(req[r]) > 0
      => req[r].settles = 1

\* "Hard LIFETIME ceiling on what may ever be spent with each hosted provider"
BillsStayWithinTheCeiling ==
  \A p \in Billable : Total(billed[p], Requests) <= ProviderCap

=============================================================================
