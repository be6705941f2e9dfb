------------------------------ MODULE KeyBudget ------------------------------
(***************************************************************************)
(* The monthly ledger of one client key: a Redis number per period of      *)
(* thirty days, and the requests of that key that are checked, reserve,    *)
(* are refused, settle and fail around it.                                 *)
(*                                                                         *)
(* A command names the number of the period in which it is SENT.  Any time *)
(* may pass between two steps of a request, so that a claim made in one    *)
(* month may be settled, or handed back, in the number of the next, and    *)
(* Redis drops a number a period after it was last written.                *)
(***************************************************************************)
EXTENDS Money

CONSTANTS Requests,
          MaxClaim,      \* the largest claim a request can make
          Cap,           \* monthly_budget_usd_per_key
          Month,         \* _SECONDS_PER_MONTH, in ticks
          LastTick,      \* bound on the clock
          MaxFaults      \* bound on Redis failures

ASSUME KeyBudgetAssumption == /\ IsFiniteSet(Requests)
                              /\ MaxClaim \in Nat /\ Cap \in Nat
                              /\ Month \in Nat \ {0} /\ LastTick \in Nat
                              /\ MaxFaults \in Nat

VARIABLES now,
          usd,        \* the number of each period, 0 where there is none
          expires,    \* when Redis drops it; NoKey where there is none
          pc,         \* where each request stands
          worst,      \* worst_case_usd it reserves
          cost,       \* actual_usd it settles with
          wire,       \* its command in flight, or the reply waiting for it
          seen,       \* the number that reply carries
          leaked,     \* gateway_budget_reservation_leaked_usd_total{ledger=key}
          faults,
          put,        \* ghost: what each request has put into each period
          claimedIn   \* ghost: the period whose number its claim went to

redis == <<usd, expires, put, claimedIn>>
request == <<pc, worst, cost>>
vars == <<now, redis, request, wire, seen, leaked, faults>>

Periods == 0 .. LastTick \div Month
Period == now \div Month

NoKey == 0
NoPeriod == -1

Waiting == {"checking", "reserving", "handing_back", "settling"}
Commands == {"get", "claim", "handback", "settle"}
Points == Waiting \cup {"start", "admitted", "held", "turned_away", "refused",
                        "settled", "unsettled", "failed", "cancelled"}

Idle == [what |-> "none", period |-> 0]

TypeOK ==
  /\ now \in 0..LastTick
  /\ usd \in [Periods -> Int]
  /\ expires \in [Periods -> 0..(LastTick + Month)]
  /\ pc \in [Requests -> Points]
  /\ worst \in [Requests -> 0..MaxClaim]
  /\ cost \in [Requests -> 0..MaxClaim]
  /\ wire \in [Requests -> [what : Commands \cup {"none", "ok", "error"}, period : Periods]]
  /\ seen \in [Requests -> Int]
  /\ leaked \in Nat
  /\ faults \in 0..MaxFaults
  /\ put \in [Requests -> [Periods -> (-MaxClaim)..MaxClaim]]
  /\ claimedIn \in [Requests -> Periods \cup {NoPeriod}]

Init == /\ now = 0 /\ leaked = 0 /\ faults = 0
        /\ usd = [p \in Periods |-> 0]
        /\ expires = [p \in Periods |-> NoKey]
        /\ pc = [r \in Requests |-> "start"]
        /\ worst = [r \in Requests |-> 0]
        /\ cost = [r \in Requests |-> 0]
        /\ wire = [r \in Requests |-> Idle]
        /\ seen = [r \in Requests |-> 0]
        /\ put = [r \in Requests |-> [p \in Periods |-> 0]]
        /\ claimedIn = [r \in Requests |-> NoPeriod]

-----------------------------------------------------------------------------
(* Redis *)

Dropped(p) == expires[p] # NoKey /\ expires[p] <= now + 1

\* Time passes, and numbers whose time has come are dropped.
Tick == /\ now < LastTick
        /\ now' = now + 1
        /\ usd' = [p \in Periods |-> IF Dropped(p) THEN 0 ELSE usd[p]]
        /\ expires' = [p \in Periods |-> IF Dropped(p) THEN NoKey ELSE expires[p]]
        /\ UNCHANGED <<request, wire, seen, leaked, faults, put, claimedIn>>

Delta(r) == CASE wire[r].what = "claim"    -> worst[r]
              [] wire[r].what = "handback" -> - worst[r]
              [] wire[r].what = "settle"   -> cost[r] - worst[r]

\* Faulty version: a time to live shorter than the period the number is for.
ExpireEarly(p) == [expires EXCEPT ![p] = now + Month - 1]

Expire(p) == [expires EXCEPT ![p] = now + Month]

\* MULTI, INCRBYFLOAT, EXPIRE, EXEC.
Apply(r) ==
  LET p == wire[r].period IN
  /\ wire[r].what \in Commands \ {"get"}
  /\ usd' = [usd EXCEPT ![p] = @ + Delta(r)]
  /\ expires' = Expire(p)
  /\ seen' = IF wire[r].what = "claim" THEN [seen EXCEPT ![r] = usd[p] + Delta(r)] ELSE seen
  /\ put' = [put EXCEPT ![r][p] = @ + Delta(r)]
  /\ claimedIn' = IF wire[r].what = "claim" THEN [claimedIn EXCEPT ![r] = p] ELSE claimedIn

Get(r) ==
  /\ wire[r].what = "get"
  /\ seen' = [seen EXCEPT ![r] = usd[wire[r].period]]
  /\ UNCHANGED redis

Executed(r) == Apply(r) \/ Get(r)

\* Nobody waits for the reply to a command whose request was cancelled.
Answer(r, answer) ==
  wire' = [wire EXCEPT ![r] = IF pc[r] = "cancelled" THEN Idle ELSE [Idle EXCEPT !.what = answer]]

Execute(r) == /\ Executed(r)
              /\ Answer(r, "ok")
              /\ UNCHANGED <<now, request, leaked, faults>>

\* Executed, but the reply is lost.
LoseReply(r) == /\ faults < MaxFaults
                /\ faults' = faults + 1
                /\ Executed(r)
                /\ Answer(r, "error")
                /\ UNCHANGED <<now, request, leaked>>

\* Never executed.
LoseCommand(r) == /\ wire[r].what \in Commands
                  /\ faults < MaxFaults
                  /\ faults' = faults + 1
                  /\ Answer(r, "error")
                  /\ UNCHANGED <<now, redis, request, seen, leaked>>

-----------------------------------------------------------------------------
(* enforce_budget *)

Goto(r, point) == pc' = [pc EXCEPT ![r] = point]

\* BudgetTracker._key: the period is read off the clock for every command.
Send(r, command) == wire' = [wire EXCEPT ![r] = [what |-> command, period |-> Period]]

Received(r, answer) == /\ wire[r].what = answer
                       /\ wire' = [wire EXCEPT ![r] = Idle]

Forget(r) == seen' = [seen EXCEPT ![r] = 0]

EnforceBudget(r) ==
  /\ pc[r] = "start"
  /\ Goto(r, "checking")
  /\ Send(r, "get")
  /\ UNCHANGED <<now, redis, worst, cost, seen, leaked, faults>>

Admit(r) ==
  /\ pc[r] = "checking"
  /\ Received(r, "ok")
  /\ Goto(r, IF seen[r] >= Cap THEN "turned_away" ELSE "admitted")
  /\ Forget(r)
  /\ UNCHANGED <<now, redis, worst, cost, leaked, faults>>

\* spent_usd raises, and nobody between it and the error handler catches that.
CheckFailed(r) ==
  /\ pc[r] = "checking"
  /\ Received(r, "error")
  /\ Goto(r, "failed")
  /\ Forget(r)
  /\ UNCHANGED <<now, redis, worst, cost, leaked, faults>>

-----------------------------------------------------------------------------
(* BudgetTracker.reserve *)

\* A chain of free providers reserves nothing.
Reserve(r, worst_case_usd) ==
  /\ pc[r] = "admitted"
  /\ worst' = [worst EXCEPT ![r] = worst_case_usd]
  /\ IF worst_case_usd = 0
     THEN Goto(r, "held") /\ UNCHANGED wire
     ELSE Goto(r, "reserving") /\ Send(r, "claim")
  /\ UNCHANGED <<now, redis, cost, seen, leaked, faults>>

\* Faulty version: the check made at admission is the enforcement.
GrantedByTheCheck(r) ==
  /\ pc[r] = "reserving"
  /\ Received(r, "ok")
  /\ Goto(r, "held")
  /\ Forget(r)
  /\ UNCHANGED <<now, redis, worst, cost, leaked, faults>>

Granted(r) ==
  /\ pc[r] = "reserving"
  /\ Received(r, "ok")
  /\ seen[r] <= Cap
  /\ Goto(r, "held")
  /\ Forget(r)
  /\ UNCHANGED <<now, redis, worst, cost, leaked, faults>>

OverCap(r) ==
  /\ pc[r] = "reserving"
  /\ wire[r].what = "ok"
  /\ seen[r] > Cap
  /\ Goto(r, "handing_back")
  /\ Send(r, "handback")
  /\ Forget(r)
  /\ UNCHANGED <<now, redis, worst, cost, leaked, faults>>

ReserveFailed(r) ==
  /\ pc[r] = "reserving"
  /\ Received(r, "error")
  /\ Goto(r, "failed")
  /\ Forget(r)
  /\ UNCHANGED <<now, redis, worst, cost, leaked, faults>>

HandedBack(r) ==
  /\ pc[r] = "handing_back"
  /\ Received(r, "ok")
  /\ Goto(r, "refused")
  /\ UNCHANGED <<now, redis, worst, cost, seen, leaked, faults>>

\* Faulty version: a failed hand-back is not counted.
HandBackFailedQuietly(r) ==
  /\ pc[r] = "handing_back"
  /\ Received(r, "error")
  /\ Goto(r, "refused")
  /\ UNCHANGED <<now, redis, worst, cost, seen, leaked, faults>>

HandBackFailed(r) ==
  /\ pc[r] = "handing_back"
  /\ Received(r, "error")
  /\ leaked' = leaked + worst[r]
  /\ Goto(r, "refused")
  /\ UNCHANGED <<now, redis, worst, cost, seen, faults>>

-----------------------------------------------------------------------------
(* BudgetTracker.settle, best effort *)

\* A cost equal to the claim sends nothing.
Settle(r, actual_usd) ==
  /\ pc[r] = "held"
  /\ actual_usd <= worst[r]
  /\ cost' = [cost EXCEPT ![r] = actual_usd]
  /\ IF actual_usd = worst[r]
     THEN Goto(r, "settled") /\ UNCHANGED wire
     ELSE Goto(r, "settling") /\ Send(r, "settle")
  /\ UNCHANGED <<now, redis, worst, seen, leaked, faults>>

Settled(r) ==
  /\ pc[r] = "settling"
  /\ Received(r, "ok")
  /\ Goto(r, "settled")
  /\ UNCHANGED <<now, redis, worst, cost, seen, leaked, faults>>

\* Faulty version: a failed settlement is sent again, to the current month.
SettleAgain(r) ==
  /\ pc[r] = "settling"
  /\ wire[r].what = "error"
  /\ Send(r, "settle")
  /\ UNCHANGED <<now, redis, request, seen, leaked, faults>>

\* _apply_best_effort swallows the error: the response is already paid for.
SettleFailed(r) ==
  /\ pc[r] = "settling"
  /\ Received(r, "error")
  /\ Goto(r, "unsettled")
  /\ UNCHANGED <<now, redis, worst, cost, seen, leaked, faults>>

\* CancelledError at an await.  What was sent may still be executed.
Cancel(r) ==
  /\ pc[r] \in Waiting
  /\ faults < MaxFaults
  /\ faults' = faults + 1
  /\ Goto(r, "cancelled")
  /\ \/ wire[r].what \in Commands /\ UNCHANGED wire
     \/ wire' = [wire EXCEPT ![r] = Idle]
  /\ UNCHANGED <<now, redis, worst, cost, seen, leaked>>

-----------------------------------------------------------------------------
Redis(r) == Execute(r) \/ LoseReply(r) \/ LoseCommand(r)

Resume(r) == \/ Admit(r) \/ CheckFailed(r)
             \/ Granted(r) \/ OverCap(r) \/ ReserveFailed(r)
             \/ HandedBack(r) \/ HandBackFailed(r)
             \/ Settled(r) \/ SettleFailed(r)

Call(r) == \/ EnforceBudget(r)
           \/ \E usd_ \in 0..MaxClaim : Reserve(r, usd_) \/ Settle(r, usd_)

Next == Tick \/ \E r \in Requests : Call(r) \/ Redis(r) \/ Resume(r) \/ Cancel(r)

Spec == Init /\ [][Next]_vars

-----------------------------------------------------------------------------
(* Properties *)

\* What the requests let through may cost the key: the claim until the cost
\* is known.
LetThrough == {r \in Requests : \/ pc[r] \in {"held", "settling", "settled", "unsettled"}
                                \/ pc[r] = "cancelled" /\ cost[r] > 0}

Billable == [r \in Requests |-> IF pc[r] = "held" THEN worst[r] ELSE cost[r]]

\* What the requests of earlier months have taken out of period p, settling or
\* handing back in it a claim they made before.
CarriedInto(p) ==
  Total([r \in Requests |-> IF claimedIn[r] # p THEN - put[r][p] ELSE 0], Requests)

\* What a request has put into the ledgers of all months together.
Net(r) == Total(put[r], Periods) - Total([p \in Periods |-> - put[r][p]], Periods)

\* As long as a month lasts, the requests admitted in it cost at most the cap
\* and what was refunded into it from the month before, whatever the check at
\* admission read and however the requests interleave (reserve, settle).
MonthWithinCap ==
  Total(Billable, {r \in LetThrough : claimedIn[r] = Period}) <= Cap + CarriedInto(Period)

\* The number of the current month holds everything that was put into it: it
\* is not dropped before its month is over (the expiry sent with every
\* increment).
MonthIsComplete ==
  usd[Period] = Total([r \in Requests |-> put[r][Period]], Requests)
                - Total([r \in Requests |-> - put[r][Period]], Requests)

\* A settled request has put its cost into the ledgers, once, over all months
\* together (settle computes a difference, and the month may turn before it).
PaidOnce == \A r \in Requests : pc[r] = "settled" => Net(r) = cost[r]

\* What refused requests leave in the ledgers is in the leak counter, also
\* when the claim and the hand-back are in different months.
RefusalsLeakOpenly ==
  Total([r \in Requests |-> Net(r)], {r \in Requests : pc[r] = "refused"}) <= leaked

=============================================================================
