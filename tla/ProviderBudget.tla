---------------------------- MODULE ProviderBudget ----------------------------
(***************************************************************************)
(* The lifetime ledger of one billable provider as the code keeps it: one  *)
(* Redis number moved by INCRBYFLOAT, and requests of any gateway process  *)
(* that reserve, are refused, settle, fail and are cancelled around it.    *)
(*                                                                         *)
(* Every Redis command is three steps, because everything may happen in    *)
(* between: the request sends it and waits, Redis executes it (or never    *)
(* gets it), and the request resumes with the reply (or with an error,     *)
(* which does not tell whether the command was executed).  A request       *)
(* cancelled while it waits leaves its command on the wire.                *)
(***************************************************************************)
EXTENDS SpendLedger

CONSTANTS MaxFaults,   \* bound on Redis failures
          MaxCancels   \* bound on cancelled requests

ASSUME BudgetAssumption == MaxFaults \in Nat /\ MaxCancels \in Nat

\* spent is the Redis key provider_budget:<provider>, Cap the setting
\* provider_lifetime_budget_usd, and stake and standing are ghosts.
VARIABLES pc,        \* where each request stands
          worst,     \* worst_case_usd it reserves
          cost,      \* actual_usd it settles with
          wire,      \* its Redis command in flight, or the reply waiting for it
          total,     \* the total INCRBYFLOAT returned to it
          leaked,    \* gateway_budget_reservation_leaked
          faults, cancels

budget == <<ledgerVars, total>>
bounds == <<faults, cancels>>
vars == <<budget, pc, worst, cost, wire, leaked, bounds>>

Waiting == {"reserving", "handing_back", "settling"}
Points == Waiting \cup {"start", "held", "refused", "settled", "unsettled",
                        "failed", "cancelled"}
Commands == {"claim", "handback", "settle"}

TypeOK ==
  /\ spent \in Int
  /\ pc \in [Requests -> Points]
  /\ worst \in [Requests -> 0..MaxClaim]
  /\ cost \in [Requests -> 0..MaxClaim]
  /\ wire \in [Requests -> Commands \cup {"none", "ok", "error"}]
  /\ total \in [Requests -> Int]
  /\ leaked \in Nat
  /\ faults \in 0..MaxFaults /\ cancels \in 0..MaxCancels
  /\ stake \in [Requests -> 0..MaxClaim]
  /\ standing \in [Requests -> Standings]

Init == /\ LedgerInit
        /\ leaked = 0 /\ faults = 0 /\ cancels = 0
        /\ pc = [r \in Requests |-> "start"]
        /\ worst = [r \in Requests |-> 0]
        /\ cost = [r \in Requests |-> 0]
        /\ wire = [r \in Requests |-> "none"]
        /\ total = [r \in Requests |-> 0]

-----------------------------------------------------------------------------
(* Redis *)

Delta(r) == CASE wire[r] = "claim"    -> worst[r]
              [] wire[r] = "handback" -> - worst[r]
              [] wire[r] = "settle"   -> cost[r] - worst[r]

StandingAfter(r) == CASE wire[r] = "claim"    -> IF spent + worst[r] <= Cap
                                                 THEN "granted" ELSE "over"
                      [] wire[r] = "handback" -> "returned"
                      [] wire[r] = "settle"   -> "settled"

\* INCRBYFLOAT: atomic, and it returns the total after the increment.
IncrByFloat(r) ==
  /\ wire[r] \in Commands
  /\ spent' = spent + Delta(r)
  /\ total' = IF wire[r] = "handback" THEN total   \* that reply is not used
              ELSE [total EXCEPT ![r] = spent + Delta(r)]
  /\ stake' = [stake EXCEPT ![r] = @ + Delta(r)]
  /\ standing' = [standing EXCEPT ![r] = StandingAfter(r)]

\* Nobody waits for the reply to a command whose request was cancelled.
Answer(r, answer) ==
  wire' = [wire EXCEPT ![r] = IF pc[r] = "cancelled" THEN "none" ELSE answer]

Execute(r) ==
  /\ IncrByFloat(r)
  /\ Answer(r, "ok")
  /\ UNCHANGED <<pc, worst, cost, leaked, bounds>>

\* Executed, but the reply is lost: a timeout or a dropped connection.
LoseReply(r) ==
  /\ faults < MaxFaults
  /\ faults' = faults + 1
  /\ IncrByFloat(r)
  /\ Answer(r, "error")
  /\ UNCHANGED <<pc, worst, cost, leaked, cancels>>

\* Never executed.
LoseCommand(r) ==
  /\ wire[r] \in Commands
  /\ faults < MaxFaults
  /\ faults' = faults + 1
  /\ Answer(r, "error")
  /\ UNCHANGED <<budget, pc, worst, cost, leaked, cancels>>

-----------------------------------------------------------------------------
(* ProviderBudget.reserve *)

Goto(r, point) == pc' = [pc EXCEPT ![r] = point]

Send(r, command) == wire' = [wire EXCEPT ![r] = command]

Received(r, answer) == /\ wire[r] = answer
                       /\ wire' = [wire EXCEPT ![r] = "none"]

\* A worst case of nothing reserves nothing.
Reserve(r, worst_case_usd) ==
  /\ pc[r] = "start"
  /\ worst' = [worst EXCEPT ![r] = worst_case_usd]
  /\ IF worst_case_usd = 0
     THEN Goto(r, "held") /\ UNCHANGED wire
     ELSE Goto(r, "reserving") /\ Send(r, "claim")
  /\ UNCHANGED <<budget, cost, leaked, bounds>>

\* Faulty version: the cap is compared with the total before the claim.
GrantedOnEarlierTotal(r) ==
  /\ pc[r] = "reserving"
  /\ Received(r, "ok")
  /\ total[r] - worst[r] < Cap
  /\ Goto(r, "held")
  /\ UNCHANGED <<budget, worst, cost, leaked, bounds>>

Granted(r) ==
  /\ pc[r] = "reserving"
  /\ Received(r, "ok")
  /\ total[r] <= Cap
  /\ Goto(r, "held")
  /\ UNCHANGED <<budget, worst, cost, leaked, bounds>>

OverCap(r) ==
  /\ pc[r] = "reserving"
  /\ wire[r] = "ok"
  /\ total[r] > Cap
  /\ Goto(r, "handing_back")
  /\ Send(r, "handback")
  /\ UNCHANGED <<budget, worst, cost, leaked, bounds>>

\* Faulty version: a Redis failure admits the request.
ReserveFailsOpen(r) ==
  /\ pc[r] = "reserving"
  /\ Received(r, "error")
  /\ Goto(r, "held")
  /\ UNCHANGED <<budget, worst, cost, leaked, bounds>>

\* The increment raised: reserve raises too, claiming nothing it knows of.
ReserveFailed(r) ==
  /\ pc[r] = "reserving"
  /\ Received(r, "error")
  /\ Goto(r, "failed")
  /\ UNCHANGED <<budget, worst, cost, leaked, bounds>>

\* Refused, with nothing left behind.
HandedBack(r) ==
  /\ pc[r] = "handing_back"
  /\ Received(r, "ok")
  /\ Goto(r, "refused")
  /\ UNCHANGED <<budget, worst, cost, leaked, bounds>>

\* Faulty version: the stranded claim is not reported.
HandBackFailsSilently(r) ==
  /\ pc[r] = "handing_back"
  /\ Received(r, "error")
  /\ Goto(r, "refused")
  /\ UNCHANGED <<budget, worst, cost, leaked, bounds>>

\* The hand-back raised: refuse all the same, and report the claim as leaked.
HandBackFailed(r) ==
  /\ pc[r] = "handing_back"
  /\ Received(r, "error")
  /\ leaked' = leaked + worst[r]
  /\ Goto(r, "refused")
  /\ UNCHANGED <<budget, worst, cost, bounds>>

-----------------------------------------------------------------------------
(* ProviderBudget.settle, and the callers' view of its failure *)

\* Costs are at most the claim: a reservation is an upper bound (decision
\* 014).  A cost equal to the claim sends nothing.
Settle(r, actual_usd) ==
  /\ pc[r] = "held"
  /\ actual_usd <= worst[r]
  /\ cost' = [cost EXCEPT ![r] = actual_usd]
  /\ IF actual_usd = worst[r]
     THEN Goto(r, "settled") /\ UNCHANGED wire
     ELSE Goto(r, "settling") /\ Send(r, "settle")
  /\ UNCHANGED <<budget, worst, leaked, bounds>>

Settled(r) ==
  /\ pc[r] = "settling"
  /\ Received(r, "ok")
  /\ Goto(r, "settled")
  /\ UNCHANGED <<budget, worst, cost, leaked, bounds>>

\* Faulty version: a settlement that may have been executed is sent again.
SettleIsRetried(r) ==
  /\ pc[r] = "settling"
  /\ wire[r] = "error"
  /\ Send(r, "settle")
  /\ UNCHANGED <<budget, pc, worst, cost, leaked, bounds>>

\* _settle_providers logs the error and leaves the claim as it is.
SettleFailed(r) ==
  /\ pc[r] = "settling"
  /\ Received(r, "error")
  /\ Goto(r, "unsettled")
  /\ UNCHANGED <<budget, worst, cost, leaked, bounds>>

\* Faulty version: a cancelled request hands back a claim it may not have made.
CancelHandsBack(r) ==
  /\ pc[r] \in Waiting
  /\ cancels < MaxCancels
  /\ cancels' = cancels + 1
  /\ Goto(r, "cancelled")
  /\ Send(r, "handback")
  /\ UNCHANGED <<budget, worst, cost, leaked, faults>>

\* CancelledError at the await: no handler of this module catches it.  A
\* command not yet executed stays on the wire; the connection may also close
\* before it gets out.
Cancel(r) ==
  /\ pc[r] \in Waiting
  /\ cancels < MaxCancels
  /\ cancels' = cancels + 1
  /\ Goto(r, "cancelled")
  /\ \/ wire[r] \in Commands /\ UNCHANGED wire
     \/ wire' = [wire EXCEPT ![r] = "none"]
  /\ UNCHANGED <<budget, worst, cost, leaked, faults>>

-----------------------------------------------------------------------------
Redis(r) == Execute(r) \/ LoseReply(r) \/ LoseCommand(r)

Resume(r) == \/ Granted(r) \/ OverCap(r) \/ ReserveFailed(r)
             \/ HandedBack(r) \/ HandBackFailed(r)
             \/ Settled(r) \/ SettleFailed(r)

Call(r) == \/ \E usd \in 0..MaxClaim : Reserve(r, usd)
           \/ \E usd \in 0..MaxClaim : Settle(r, usd)

Next == \E r \in Requests : Call(r) \/ Redis(r) \/ Resume(r) \/ Cancel(r)

Spec == Init /\ [][Next]_vars

-----------------------------------------------------------------------------
(* Properties *)

\* The Redis number with the requests around it is a SpendLedger: claims are
\* compared with the total that includes them, handed back only when over the
\* cap, and settled at most once, for no more than was claimed.
ImplementsSpendLedger == LedgerSpec

\* The requests reserve let through, and what the provider may bill for each:
\* up to its worst case until it settles, its actual cost from then on.
LetThrough == {r \in Requests : \/ pc[r] \in {"held", "settling", "settled", "unsettled"}
                                \/ pc[r] = "cancelled" /\ cost[r] > 0}

Billable == [r \in Requests |-> IF pc[r] = "held" THEN worst[r] ELSE cost[r]]

\* The provider can never bill more than the cap for the requests that were
\* let through, whatever was lost, cancelled or interleaved.
BillWithinCap == Total(Billable, LetThrough) <= Cap

\* The ledger never shows less than what can be billed: a settlement that is
\* lost or cancelled leaves the larger claim behind, never the smaller cost.
NeverUndercounts == Total(Billable, LetThrough) <= spent

\* A request that was refused over the cap leaves nothing in the ledger that
\* the leak counter does not show.
RefusalsLeakOpenly ==
  Total(stake, {r \in Requests : pc[r] = "refused"}) <= leaked

=============================================================================
