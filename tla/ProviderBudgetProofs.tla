------------------------- MODULE ProviderBudgetProofs -------------------------
(***************************************************************************)
(* The ceiling holds of SpendLedger for any finite set of requests, any    *)
(* claims and any cap, and ProviderBudget, which shares its variables,     *)
(* implements SpendLedger, for any number of faults and cancellations.     *)
(***************************************************************************)
EXTENDS ProviderBudget, MoneyTheorems

-----------------------------------------------------------------------------
(* The ledger *)

\* A request that has not claimed holds nothing.  With it, and with the ledger
\* holding exactly the stakes, the ceiling is inductive: a claim is granted
\* when the total INCLUDING it is within the cap, and the total is never less
\* than what the admitted requests hold.
NewHoldNothing == \A r \in Requests : standing[r] = "new" => stake[r] = 0

LedgerInv == LedgerTypeOK /\ NewHoldNothing /\ Conserved /\ Ceiling

\* Every action is a change of one request's stake that the total follows.
Moves(r, amount) == /\ stake' = [stake EXCEPT ![r] = amount]
                    /\ spent' = spent - stake[r] + amount

LEMMA MoveKeepsBooks ==
  ASSUME LedgerTypeOK, Conserved,
         NEW r \in Requests, NEW amount \in 0..MaxClaim, Moves(r, amount)
  PROVE  /\ stake' \in [Requests -> 0..MaxClaim]
         /\ spent' \in Nat
         /\ Conserved'
  <1> USE LedgerAssumption
  <1>1. stake' \in [Requests -> 0..MaxClaim]
    BY DEF LedgerTypeOK, Moves
  <1>2. /\ \A x \in Requests : stake[x] \in 0..MaxClaim
        /\ \A x \in Requests : stake'[x] \in 0..MaxClaim
        /\ \A x \in Requests \ {r} : stake'[x] = stake[x]
        /\ stake'[r] = amount
    BY <1>1 DEF LedgerTypeOK, Moves
  <1>3. Total(stake', Requests) = Total(stake, Requests) - stake[r] + amount
    BY <1>2, TotalChange
  <1>4. Total(stake', Requests) \in Nat
    BY <1>2, UnitsFinite
  <1>5. spent' = Total(stake', Requests)
    BY <1>3 DEF Conserved, Moves
  <1> QED BY <1>1, <1>4, <1>5 DEF Conserved

\* Some of the requests hold part of the total.
LEMMA PartOfTotal ==
  ASSUME NEW st \in [Requests -> 0..MaxClaim], NEW A \in SUBSET Requests
  PROVE  /\ IsFiniteSet(A)
         /\ Total(st, A) \in Nat
         /\ Total(st, A) <= Total(st, Requests)
  <1> USE LedgerAssumption
  <1>1. IsFiniteSet(A)
    BY FS_Subset
  <1>2. \A r \in Requests : st[r] \in 0..MaxClaim
    OBVIOUS
  <1>3. Total(st, A) \in Nat
    BY <1>1, <1>2, UnitsFinite
  <1>4. Total(st, A) <= Total(st, Requests)
    BY <1>2, TotalSubset
  <1> QED BY <1>1, <1>3, <1>4

LEMMA InitLedgerInv == LedgerInit => LedgerInv
  <1> SUFFICES ASSUME LedgerInit PROVE LedgerInv
    OBVIOUS
  <1> USE LedgerAssumption
  <1>1. LedgerTypeOK /\ NewHoldNothing
    BY DEF LedgerInit, LedgerTypeOK, NewHoldNothing, Standings
  <1>2. \A r \in Requests : stake[r] = 0
    BY DEF LedgerInit
  <1>3. Total(stake, Requests) = 0 /\ Total(stake, Admitted) = 0
    BY <1>2, TotalZero DEF Admitted
  <1> QED BY <1>1, <1>3 DEF LedgerInit, LedgerInv, Conserved, Ceiling

LEMMA NextLedgerInv == LedgerInv /\ [LedgerNext]_ledgerVars => LedgerInv'
  <1> SUFFICES ASSUME LedgerInv, [LedgerNext]_ledgerVars
               PROVE  LedgerInv'
    OBVIOUS
  <1> USE LedgerAssumption DEF LedgerInv
  <1>0. \A x \in Requests : stake[x] \in 0..MaxClaim
    BY DEF LedgerTypeOK
  <1>1. ASSUME NEW r \in Requests, NEW amount \in 1..MaxClaim, Claim(r, amount)
        PROVE  LedgerInv'
    <2>1. amount \in 0..MaxClaim /\ stake[r] = 0
      BY <1>1 DEF Claim, NewHoldNothing
    <2>2. Moves(r, amount)
      BY <1>1, <2>1 DEF Claim, Moves, LedgerTypeOK
    <2>3. LedgerTypeOK' /\ NewHoldNothing' /\ Conserved'
      BY <1>1, <2>1, <2>2, MoveKeepsBooks
      DEF Claim, LedgerTypeOK, NewHoldNothing, Standings
    <2>4. CASE spent + amount <= Cap
      <3>1. /\ Total(stake', Admitted') \in Nat
            /\ Total(stake', Admitted') <= Total(stake', Requests)
        <4>1. Admitted' \in SUBSET Requests
          BY DEF Admitted
        <4> QED BY <2>3, <4>1, PartOfTotal DEF LedgerTypeOK
      <3>2. spent' <= Cap
        BY <1>1, <2>4 DEF Claim
      <3> QED
        BY <2>3, <3>1, <3>2 DEF Ceiling, Conserved, LedgerTypeOK
    <2>5. CASE ~(spent + amount <= Cap)
      <3>1. Admitted' = Admitted /\ r \notin Admitted
        BY <1>1, <2>5 DEF Claim, Admitted, LedgerTypeOK
      <3>2. \A x \in Admitted : stake'[x] = stake[x]
        BY <1>1, <3>1 DEF Claim, Admitted, LedgerTypeOK
      <3>3. Total(stake', Admitted') = Total(stake, Admitted)
        BY <3>1, <3>2, TotalLocal
      <3> QED BY <2>3, <3>3 DEF Ceiling
    <2> QED BY <2>4, <2>5
  <1>2. ASSUME NEW r \in Requests, HandBack(r) PROVE LedgerInv'
    <2>1. Moves(r, 0)
      BY <1>0, <1>2 DEF HandBack, Moves, LedgerTypeOK
    <2>2. LedgerTypeOK' /\ NewHoldNothing' /\ Conserved'
      BY <1>2, <2>1, MoveKeepsBooks
      DEF HandBack, LedgerTypeOK, NewHoldNothing, Standings
    <2>3. Admitted' = Admitted /\ r \notin Admitted
      BY <1>2 DEF HandBack, Admitted, LedgerTypeOK
    <2>4. \A x \in Admitted : stake'[x] = stake[x]
      BY <1>2, <2>3 DEF HandBack, Admitted, LedgerTypeOK
    <2>5. Total(stake', Admitted') = Total(stake, Admitted)
      BY <2>3, <2>4, TotalLocal
    <2> QED BY <2>2, <2>5 DEF Ceiling
  <1>3. ASSUME NEW r \in Requests, NEW amount \in 0..MaxClaim, Swap(r, amount)
        PROVE  LedgerInv'
    <2>1. Moves(r, amount)
      BY <1>3 DEF Swap, Moves
    <2>2. LedgerTypeOK' /\ NewHoldNothing' /\ Conserved'
      BY <1>3, <2>1, MoveKeepsBooks
      DEF Swap, LedgerTypeOK, NewHoldNothing, Standings
    <2>3. Admitted' = Admitted
      BY <1>3 DEF Swap, Admitted, LedgerTypeOK
    <2>4. /\ \A x \in Admitted : stake[x] \in 0..MaxClaim
          /\ \A x \in Admitted : stake'[x] \in 0..MaxClaim /\ stake'[x] <= stake[x]
      BY <1>0, <1>3, <2>2 DEF Swap, Admitted, LedgerTypeOK
    <2>5. Admitted \in SUBSET Requests
      BY DEF Admitted
    <2>6. IsFiniteSet(Admitted) /\ Total(stake, Admitted) \in Nat
      BY <2>5, PartOfTotal DEF LedgerTypeOK
    <2>7. Total(stake', Admitted) \in Nat
      BY <2>2, <2>5, PartOfTotal DEF LedgerTypeOK
    <2>8. Total(stake', Admitted) <= Total(stake, Admitted)
      BY <2>4, <2>6, TotalMonotone
    <2> QED BY <2>2, <2>3, <2>6, <2>7, <2>8 DEF Ceiling
  <1>4. CASE UNCHANGED ledgerVars
    BY <1>4 DEF ledgerVars, LedgerTypeOK, NewHoldNothing, Conserved, Ceiling,
                Admitted
  <1> QED BY <1>1, <1>2, <1>3, <1>4 DEF LedgerNext

THEOREM LedgerInvariance == LedgerSpec => []LedgerInv
  BY InitLedgerInv, NextLedgerInv, PTL DEF LedgerSpec

\* The ceiling: however claims, hand-backs and settlements interleave, and
\* whichever of them never happen, admitted requests hold at most the cap.
THEOREM CeilingHolds == LedgerSpec => []Ceiling
  BY LedgerInvariance, PTL DEF LedgerInv

\* The ledger is at all times the sum of the requests' stakes.
THEOREM BooksBalance == LedgerSpec => []Conserved
  BY LedgerInvariance, PTL DEF LedgerInv

-----------------------------------------------------------------------------
(* The budget *)

\* What a request's stake is worth, by the standing of its claim.
StakeFits(r) ==
  /\ standing[r] \in {"new", "returned"} => stake[r] = 0
  /\ standing[r] \in {"granted", "over"} => stake[r] = worst[r]
  /\ standing[r] = "settled" => stake[r] = cost[r]

\* A command on the wire finds the claim as it was when it was sent, even if
\* its request is gone by the time it is executed.
WireFits(r) ==
  /\ wire[r] = "claim" => /\ pc[r] \in {"reserving", "cancelled"}
                          /\ standing[r] = "new" /\ worst[r] > 0
  /\ wire[r] = "handback" => /\ pc[r] \in {"handing_back", "cancelled"}
                             /\ standing[r] = "over"
  /\ wire[r] = "settle" => /\ pc[r] \in {"settling", "cancelled"}
                           /\ standing[r] = "granted" /\ cost[r] < worst[r]
  /\ wire[r] \in {"ok", "error"} => pc[r] \in Waiting

\* Where the request believes it is, against what became of its claim.
PointFits(r) ==
  /\ pc[r] \in {"start", "held", "refused", "settled", "unsettled", "failed"}
       => wire[r] = "none"
  /\ pc[r] = "start" => standing[r] = "new"
  /\ pc[r] = "reserving" /\ wire[r] = "ok" =>
       standing[r] = IF total[r] <= Cap THEN "granted" ELSE "over"
  /\ pc[r] = "handing_back" => standing[r] \in {"over", "returned"}
  /\ pc[r] = "handing_back" /\ wire[r] = "ok" => standing[r] = "returned"
  /\ pc[r] = "refused" => standing[r] \in {"over", "returned"}
  /\ pc[r] = "held" => standing[r] = "granted" \/ worst[r] = 0
  /\ pc[r] \in {"start", "reserving", "handing_back", "held", "refused", "failed"}
       => cost[r] = 0
  /\ cost[r] > 0 => standing[r] \in {"granted", "settled"}
  /\ cost[r] <= worst[r]

Fits == \A r \in Requests : StakeFits(r) /\ WireFits(r) /\ PointFits(r)

BudgetInv == TypeOK /\ Fits

-----------------------------------------------------------------------------
LEMMA InitBudgetInv == Init => BudgetInv
  BY LedgerAssumption, BudgetAssumption
  DEF Init, BudgetInv, TypeOK, Fits, StakeFits, WireFits, PointFits,
      Points, Waiting, Commands, Standings, LedgerInit

\* Redis executes a command: the stake moves as the standing says.
LEMMA IncrKeepsInv ==
  ASSUME BudgetInv, NEW r \in Requests, IncrByFloat(r),
         NEW answer \in {"ok", "error"}, Answer(r, answer),
         UNCHANGED <<pc, worst, cost, leaked>>,
         faults' \in 0..MaxFaults, cancels' = cancels
  PROVE  BudgetInv'
  <1> USE LedgerAssumption, BudgetAssumption DEF BudgetInv, Standings
  <1>1. /\ StakeFits(r) /\ WireFits(r) /\ PointFits(r)
        /\ worst[r] \in 0..MaxClaim /\ cost[r] \in 0..MaxClaim
        /\ stake[r] \in 0..MaxClaim /\ spent \in Int
    BY DEF Fits, TypeOK
  <1>2. stake[r] + Delta(r) \in 0..MaxClaim
    BY <1>1 DEF IncrByFloat, Delta, StakeFits, WireFits, PointFits, Commands
  <1>3. spent + Delta(r) \in Int
    BY <1>1 DEF IncrByFloat, Delta, Commands
  <1>4. StandingAfter(r) \in {"granted", "over", "returned", "settled"}
    BY DEF IncrByFloat, StandingAfter, Commands
  <1>5. TypeOK'
    BY <1>2, <1>3, <1>4 DEF IncrByFloat, TypeOK, Answer
  <1>6. ASSUME NEW x \in Requests, x # r
        PROVE  (StakeFits(x) /\ WireFits(x) /\ PointFits(x))'
    BY <1>6 DEF Fits, StakeFits, WireFits, PointFits, IncrByFloat, Answer, TypeOK
  <1>7. (StakeFits(r) /\ WireFits(r) /\ PointFits(r))'
    <2>1. CASE wire[r] = "claim"
      BY <1>1, <1>3, <2>1
      DEF StakeFits, WireFits, PointFits, IncrByFloat, Answer, TypeOK, Delta,
          StandingAfter, Commands, Waiting
    <2>2. CASE wire[r] = "handback"
      BY <1>1, <2>2
      DEF StakeFits, WireFits, PointFits, IncrByFloat, Answer, TypeOK, Delta,
          StandingAfter, Commands, Waiting
    <2>3. CASE wire[r] = "settle"
      BY <1>1, <2>3
      DEF StakeFits, WireFits, PointFits, IncrByFloat, Answer, TypeOK, Delta,
          StandingAfter, Commands, Waiting
    <2> QED BY <2>1, <2>2, <2>3 DEF IncrByFloat, Commands
  <1> QED BY <1>5, <1>6, <1>7 DEF Fits

\* Every other action of a request leaves its stake and standing alone; what
\* remains is that its new point and wire fit them.
LEMMA LocalKeepsFits ==
  ASSUME BudgetInv, NEW r \in Requests, UNCHANGED <<stake, standing, total>>,
         \A x \in Requests \ {r} : /\ pc'[x] = pc[x] /\ wire'[x] = wire[x]
                                   /\ worst'[x] = worst[x] /\ cost'[x] = cost[x],
         (StakeFits(r) /\ WireFits(r) /\ PointFits(r))'
  PROVE  Fits'
  BY DEF BudgetInv, Fits, StakeFits, WireFits, PointFits

LEMMA ResumeKeepsInv ==
  ASSUME BudgetInv, NEW r \in Requests,
         LoseCommand(r) \/ Resume(r) \/ Cancel(r)
  PROVE  BudgetInv'
  <1> USE LedgerAssumption, BudgetAssumption DEF BudgetInv, Standings
  <1>0. /\ StakeFits(r) /\ WireFits(r) /\ PointFits(r)
        /\ worst[r] \in 0..MaxClaim /\ cost[r] \in 0..MaxClaim
        /\ total[r] \in Int
    BY DEF Fits, TypeOK
  <1> USE DEF Goto, Send, Received, Answer, budget, ledgerVars, bounds
  <1>1. TypeOK'
    <2>1. CASE LoseCommand(r)
      BY <2>1 DEF LoseCommand, TypeOK
    <2>2. CASE Granted(r) \/ OverCap(r) \/ ReserveFailed(r)
      BY <2>2, <1>0
      DEF Granted, OverCap, ReserveFailed, TypeOK, Points, Commands, Waiting
    <2>3. CASE HandedBack(r) \/ HandBackFailed(r)
      BY <2>3, <1>0 DEF HandedBack, HandBackFailed, TypeOK, Points
    <2>4. CASE Settled(r) \/ SettleFailed(r)
      BY <2>4, <1>0 DEF Settled, SettleFailed, TypeOK, Points
    <2>5. CASE Cancel(r)
      BY <2>5 DEF Cancel, TypeOK, Points
    <2> QED BY <2>1, <2>2, <2>3, <2>4, <2>5 DEF Resume
  <1>2. /\ UNCHANGED <<stake, standing, total>>
        /\ \A x \in Requests \ {r} : /\ pc'[x] = pc[x] /\ wire'[x] = wire[x]
                                     /\ worst'[x] = worst[x] /\ cost'[x] = cost[x]
    BY DEF LoseCommand, Resume, Granted, OverCap, ReserveFailed, HandedBack,
           HandBackFailed, Settled, SettleFailed, Cancel, TypeOK
  <1>3. (StakeFits(r) /\ WireFits(r) /\ PointFits(r))'
    <2> USE <1>0 DEF StakeFits, WireFits, PointFits, Waiting, Commands
    <2>1. CASE LoseCommand(r)
      BY <2>1 DEF LoseCommand, TypeOK
    <2>2. CASE Granted(r)
      BY <2>2 DEF Granted, TypeOK
    <2>3. CASE OverCap(r)
      BY <2>3 DEF OverCap, TypeOK
    <2>4. CASE ReserveFailed(r)
      BY <2>4 DEF ReserveFailed, TypeOK
    <2>5. CASE HandedBack(r)
      BY <2>5 DEF HandedBack, TypeOK
    <2>6. CASE HandBackFailed(r)
      BY <2>6 DEF HandBackFailed, TypeOK
    <2>7. CASE Settled(r) \/ SettleFailed(r)
      BY <2>7 DEF Settled, SettleFailed, TypeOK
    <2>8. CASE Cancel(r)
      BY <2>8 DEF Cancel, TypeOK
    <2> QED BY <2>1, <2>2, <2>3, <2>4, <2>5, <2>6, <2>7, <2>8 DEF Resume
  <1> QED BY <1>1, <1>2, <1>3, LocalKeepsFits

LEMMA CallKeepsInv ==
  ASSUME BudgetInv, NEW r \in Requests, Call(r)
  PROVE  BudgetInv'
  <1> USE LedgerAssumption, BudgetAssumption DEF BudgetInv, Standings
  <1>0. /\ StakeFits(r) /\ WireFits(r) /\ PointFits(r)
        /\ worst[r] \in 0..MaxClaim /\ cost[r] \in 0..MaxClaim
    BY DEF Fits, TypeOK
  <1> USE DEF Goto, Send, budget, ledgerVars, bounds
  <1>1. ASSUME NEW usd \in 0..MaxClaim, Reserve(r, usd)
        PROVE  BudgetInv'
    <2>1. TypeOK'
      BY <1>1 DEF Reserve, TypeOK, Points, Waiting, Commands
    <2>2. /\ UNCHANGED <<stake, standing, total>>
          /\ \A x \in Requests \ {r} : /\ pc'[x] = pc[x] /\ wire'[x] = wire[x]
                                       /\ worst'[x] = worst[x] /\ cost'[x] = cost[x]
      BY <1>1 DEF Reserve, TypeOK
    <2>3. (StakeFits(r) /\ WireFits(r) /\ PointFits(r))'
      BY <1>0, <1>1
      DEF Reserve, StakeFits, WireFits, PointFits, Waiting, Commands, TypeOK
    <2> QED BY <2>1, <2>2, <2>3, LocalKeepsFits
  <1>2. ASSUME NEW usd \in 0..MaxClaim, Settle(r, usd)
        PROVE  BudgetInv'
    <2>1. TypeOK'
      BY <1>2 DEF Settle, TypeOK, Points, Waiting, Commands
    <2>2. /\ UNCHANGED <<stake, standing, total>>
          /\ \A x \in Requests \ {r} : /\ pc'[x] = pc[x] /\ wire'[x] = wire[x]
                                       /\ worst'[x] = worst[x] /\ cost'[x] = cost[x]
      BY <1>2 DEF Settle, TypeOK
    <2>3. (StakeFits(r) /\ WireFits(r) /\ PointFits(r))'
      BY <1>0, <1>2
      DEF Settle, StakeFits, WireFits, PointFits, Waiting, Commands, TypeOK
    <2> QED BY <2>1, <2>2, <2>3, LocalKeepsFits
  <1> QED BY <1>1, <1>2 DEF Call

LEMMA NextBudgetInv == BudgetInv /\ [Next]_vars => BudgetInv'
  <1> SUFFICES ASSUME BudgetInv, [Next]_vars PROVE BudgetInv'
    OBVIOUS
  <1> USE LedgerAssumption, BudgetAssumption
  <1>1. ASSUME NEW r \in Requests, Execute(r) PROVE BudgetInv'
    <2>1. faults' \in 0..MaxFaults /\ UNCHANGED <<pc, worst, cost, leaked, cancels>>
      BY <1>1 DEF Execute, BudgetInv, TypeOK, bounds
    <2> QED BY <1>1, <2>1, IncrKeepsInv DEF Execute
  <1>2. ASSUME NEW r \in Requests, LoseReply(r) PROVE BudgetInv'
    <2>1. faults' \in 0..MaxFaults /\ UNCHANGED <<pc, worst, cost, leaked, cancels>>
      BY <1>2 DEF LoseReply, BudgetInv, TypeOK
    <2> QED BY <1>2, <2>1, IncrKeepsInv DEF LoseReply
  <1>3. ASSUME NEW r \in Requests, LoseCommand(r) \/ Resume(r) \/ Cancel(r)
        PROVE  BudgetInv'
    BY <1>3, ResumeKeepsInv
  <1>4. ASSUME NEW r \in Requests, Call(r) PROVE BudgetInv'
    BY <1>4, CallKeepsInv
  <1>5. CASE UNCHANGED vars
    BY <1>5 DEF vars, budget, ledgerVars, bounds, BudgetInv, TypeOK, Fits, StakeFits,
                WireFits, PointFits
  <1> QED
    BY <1>1, <1>2, <1>3, <1>4, <1>5 DEF Next, Redis

THEOREM BudgetInvariance == Spec => []BudgetInv
  BY InitBudgetInv, NextBudgetInv, PTL DEF Spec

-----------------------------------------------------------------------------
(* The refinement *)

\* INCRBYFLOAT is the one step that moves the ledger, and what it does is the
\* claim, the hand-back or the settlement the command on the wire stands for.
LEMMA IncrIsLedgerStep ==
  ASSUME BudgetInv, NEW r \in Requests, IncrByFloat(r)
  PROVE  LedgerNext
  <1> USE LedgerAssumption, BudgetAssumption
  <1>1. /\ StakeFits(r) /\ WireFits(r) /\ PointFits(r)
        /\ worst[r] \in 0..MaxClaim /\ cost[r] \in 0..MaxClaim
        /\ stake[r] \in 0..MaxClaim /\ spent \in Int
        /\ stake \in [Requests -> 0..MaxClaim]
    BY DEF BudgetInv, Fits, TypeOK
  <1>2. CASE wire[r] = "claim"
    <2>1. worst[r] \in 1..MaxClaim /\ standing[r] = "new" /\ stake[r] = 0
      BY <1>1, <1>2 DEF WireFits, StakeFits
    <2>2. stake' = [stake EXCEPT ![r] = worst[r]]
      <3>1. stake[r] + Delta(r) = worst[r]
        BY <1>1, <1>2, <2>1 DEF Delta
      <3> QED BY <3>1 DEF IncrByFloat
    <2>3. Claim(r, worst[r])
      BY <1>2, <2>1, <2>2
      DEF IncrByFloat, Delta, StandingAfter, Claim
    <2> QED BY <2>1, <2>3 DEF LedgerNext
  <1>3. CASE wire[r] = "handback"
    <2>1. standing[r] = "over" /\ stake[r] = worst[r]
      BY <1>1, <1>3 DEF WireFits, StakeFits
    <2>2. stake' = [stake EXCEPT ![r] = 0]
      <3>1. stake[r] + Delta(r) = 0
        BY <1>1, <1>3, <2>1 DEF Delta
      <3> QED BY <3>1 DEF IncrByFloat
    <2>3. HandBack(r)
      BY <1>1, <1>3, <2>1, <2>2
      DEF IncrByFloat, Delta, StandingAfter, HandBack
    <2> QED BY <2>3 DEF LedgerNext
  <1>4. CASE wire[r] = "settle"
    <2>1. standing[r] = "granted" /\ stake[r] = worst[r] /\ cost[r] <= stake[r]
      BY <1>1, <1>4 DEF WireFits, StakeFits
    <2>2. stake' = [stake EXCEPT ![r] = cost[r]]
      <3>1. stake[r] + Delta(r) = cost[r]
        BY <1>1, <1>4, <2>1 DEF Delta
      <3> QED BY <3>1 DEF IncrByFloat
    <2>3. spent' = spent - stake[r] + cost[r]
      BY <1>1, <1>4, <2>1 DEF IncrByFloat, Delta
    <2>4. standing' = [standing EXCEPT ![r] = "settled"]
      BY <1>4 DEF IncrByFloat, StandingAfter
    <2>5. Swap(r, cost[r])
      BY <2>1, <2>2, <2>3, <2>4 DEF Swap
    <2> QED BY <1>1, <2>5 DEF LedgerNext
  <1> QED BY <1>2, <1>3, <1>4 DEF IncrByFloat, Commands

LEMMA NextIsLedgerStep ==
  BudgetInv /\ [Next]_vars => [LedgerNext]_ledgerVars
  <1> SUFFICES ASSUME BudgetInv, [Next]_vars
               PROVE  LedgerNext \/ UNCHANGED <<spent, stake, standing>>
    BY DEF ledgerVars
  <1>1. ASSUME NEW r \in Requests, Execute(r) \/ LoseReply(r)
        PROVE  LedgerNext
    BY <1>1, IncrIsLedgerStep DEF Execute, LoseReply
  <1>2. ASSUME NEW r \in Requests,
               LoseCommand(r) \/ Resume(r) \/ Cancel(r) \/ Call(r)
        PROVE  UNCHANGED <<spent, stake, standing>>
    BY <1>2 DEF LoseCommand, Resume, Granted, OverCap, ReserveFailed, HandedBack,
                HandBackFailed, Settled, SettleFailed, Cancel, Call, Reserve,
                Settle, budget, ledgerVars
  <1>3. CASE UNCHANGED vars
    BY <1>3 DEF vars, budget, ledgerVars
  <1> QED BY <1>1, <1>2, <1>3 DEF Next, Redis

\* However its commands interleave, are lost or are cancelled, the Redis number
\* is a SpendLedger: over-cap claims only are handed back, and a claim is
\* settled at most once, for no more than it was.
THEOREM Refinement == Spec => ImplementsSpendLedger
  BY NextIsLedgerStep, BudgetInvariance, PTL
  DEF Spec, Init, ImplementsSpendLedger, LedgerSpec

-----------------------------------------------------------------------------
(* What the ledger bounds *)

\* A request that was let through holds a granted claim, or claimed nothing.
LEMMA LetThroughIsAdmitted ==
  ASSUME BudgetInv, NEW r \in LetThrough
  PROVE  /\ r \in Requests /\ Billable[r] \in 0..MaxClaim
         /\ \/ Billable[r] = 0
            \/ r \in Admitted /\ Billable[r] <= stake[r]
  BY LedgerAssumption, BudgetAssumption
  DEF BudgetInv, Fits, TypeOK, StakeFits, WireFits, PointFits, LetThrough,
      Billable, Admitted, Waiting

LEMMA BillCovered ==
  ASSUME BudgetInv, LedgerInv
  PROVE  BillWithinCap /\ NeverUndercounts
  <1> USE LedgerAssumption, BudgetAssumption
  <1>1. stake \in [Requests -> 0..MaxClaim]
    BY DEF BudgetInv, TypeOK
  <1>2. /\ Admitted \in SUBSET Requests
        /\ IsFiniteSet(Admitted)
    BY FS_Subset DEF Admitted
  <1>3. /\ \A x \in Admitted : stake[x] \in 0..MaxClaim
        /\ \A x \in Requests : stake[x] \in 0..MaxClaim
    BY <1>1, <1>2
  <1>4. \A x \in LetThrough :
          /\ Billable[x] \in 0..MaxClaim
          /\ \/ Billable[x] = 0
             \/ x \in Admitted /\ Billable[x] <= stake[x]
    BY LetThroughIsAdmitted
  <1>5. Total(Billable, LetThrough) <= Total(stake, Admitted)
    BY <1>2, <1>3, <1>4, TotalCovered
  <1>6. /\ IsFiniteSet(LetThrough) /\ Total(Billable, LetThrough) \in Nat
    <2>1. IsFiniteSet(LetThrough)
      BY FS_Subset DEF LetThrough
    <2> QED BY <1>4, <2>1, UnitsFinite
  <1>7. /\ Total(stake, Admitted) \in Nat
        /\ Total(stake, Requests) \in Nat
        /\ Total(stake, Admitted) <= Total(stake, Requests)
    BY <1>2, <1>3, UnitsFinite, TotalSubset
  <1>8. /\ Total(stake, Admitted) <= Cap
        /\ spent = Total(stake, Requests)
    BY DEF LedgerInv, Ceiling, Conserved
  <1>9. BillWithinCap
    BY <1>5, <1>6, <1>7, <1>8 DEF BillWithinCap
  <1> QED BY <1>5, <1>6, <1>7, <1>8, <1>9 DEF NeverUndercounts

\* Along the refinement, what holds of a SpendLedger holds of
\* the Redis number.
LEMMA BooksHold == Spec => []LedgerInv
  BY Refinement, LedgerInvariance, PTL DEF ImplementsSpendLedger

\* The provider never bills more than the cap for the requests reserve let
\* through, whatever was lost, cancelled or interleaved.
THEOREM BillNeverExceedsCap == Spec => []BillWithinCap
  BY BudgetInvariance, BooksHold, BillCovered, PTL

\* The ledger never shows less than the provider may bill.
THEOREM LedgerNeverUndercounts == Spec => []NeverUndercounts
  BY BudgetInvariance, BooksHold, BillCovered, PTL

-----------------------------------------------------------------------------
(* What a refusal leaves behind *)

Refused == {r \in Requests : pc[r] = "refused"}

\* A step that refuses nobody and touches no refused request's stake.
LEMMA NobodyRefused ==
  ASSUME RefusalsLeakOpenly, Refused' = Refused, leaked' = leaked,
         \A x \in Refused : stake'[x] = stake[x]
  PROVE  RefusalsLeakOpenly'
  <1>1. Total(stake', Refused') = Total(stake, Refused)
    BY TotalLocal
  <1> QED BY <1>1 DEF RefusalsLeakOpenly, Refused

\* A refusal adds the refused request's stake to what refusals left behind:
\* nothing if the hand-back went through, at most the claim if it is unknown.
LEMMA OneRefused ==
  ASSUME BudgetInv, RefusalsLeakOpenly, NEW r \in Requests,
         pc[r] = "handing_back", pc' = [pc EXCEPT ![r] = "refused"],
         stake' = stake, leaked' \in Nat, stake[r] <= leaked' - leaked
  PROVE  RefusalsLeakOpenly'
  <1>1. /\ Refused' = Refused \cup {r} /\ r \notin Refused
        /\ IsFiniteSet(Refused)
    BY LedgerAssumption, FS_Subset DEF Refused, BudgetInv, TypeOK
  <1>2. /\ \A x \in Refused \cup {r} : stake[x] \in 0..MaxClaim
        /\ stake[r] \in Nat /\ leaked \in Nat /\ MaxClaim \in Nat
    BY LedgerAssumption DEF Refused, BudgetInv, TypeOK
  <1>3. Total(stake, Refused \cup {r}) = Total(stake, Refused) + stake[r]
    BY <1>1, <1>2, TotalAdd
  <1>4. Total(stake, Refused) \in Nat
    BY <1>1, <1>2, UnitsFinite
  <1>5. Total(stake, Refused) <= leaked
    BY DEF RefusalsLeakOpenly, Refused
  <1>6. Total(stake', Refused') <= leaked'
    BY <1>1, <1>2, <1>3, <1>4, <1>5
  <1> QED BY <1>6 DEF RefusalsLeakOpenly, Refused

LEMMA NextLeaksOpenly ==
  BudgetInv /\ RefusalsLeakOpenly /\ [Next]_vars => RefusalsLeakOpenly'
  <1> SUFFICES ASSUME BudgetInv, RefusalsLeakOpenly, [Next]_vars
               PROVE  RefusalsLeakOpenly'
    OBVIOUS
  <1> USE DEF budget, ledgerVars, bounds
  <1>1. ASSUME NEW r \in Requests, Execute(r) \/ LoseReply(r)
        PROVE  RefusalsLeakOpenly'
    <2>1. wire[r] \in Commands /\ pc[r] # "refused"
      BY <1>1 DEF Execute, LoseReply, IncrByFloat, BudgetInv, Fits, PointFits,
                  Commands
    <2>2. /\ Refused' = Refused /\ leaked' = leaked
          /\ \A x \in Refused : stake'[x] = stake[x]
      BY <1>1, <2>1 DEF Execute, LoseReply, IncrByFloat, Refused, BudgetInv, TypeOK
    <2> QED BY <2>2, NobodyRefused
  <1>2. ASSUME NEW r \in Requests,
               \/ LoseCommand(r) \/ Call(r) \/ Cancel(r)
               \/ Granted(r) \/ OverCap(r) \/ ReserveFailed(r)
               \/ Settled(r) \/ SettleFailed(r)
        PROVE  RefusalsLeakOpenly'
    <2>1. Refused' = Refused /\ leaked' = leaked /\ stake' = stake
      BY <1>2 DEF LoseCommand, Call, Reserve, Settle, Cancel, Granted, OverCap,
                  ReserveFailed, Settled, SettleFailed, Refused, Goto, Waiting,
                  BudgetInv, TypeOK
    <2> QED BY <2>1, NobodyRefused
  <1>3. ASSUME NEW r \in Requests, HandedBack(r)
        PROVE  RefusalsLeakOpenly'
    <2>1. stake[r] = 0
      BY <1>3 DEF HandedBack, Received, BudgetInv, Fits, PointFits, StakeFits
    <2>2. stake[r] <= leaked' - leaked /\ leaked' \in Nat
      BY <1>3, <2>1 DEF HandedBack, BudgetInv, TypeOK
    <2> QED BY <1>3, <2>2, OneRefused DEF HandedBack, Goto
  <1>4. ASSUME NEW r \in Requests, HandBackFailed(r)
        PROVE  RefusalsLeakOpenly'
    <2>1. stake[r] <= worst[r] /\ worst[r] \in 0..MaxClaim
      BY <1>4, LedgerAssumption
      DEF HandBackFailed, BudgetInv, Fits, PointFits, StakeFits, TypeOK
    <2>2. stake[r] <= leaked' - leaked /\ leaked' \in Nat
      BY <1>4, <2>1, LedgerAssumption DEF HandBackFailed, BudgetInv, TypeOK
    <2> QED BY <1>4, <2>2, OneRefused DEF HandBackFailed, Goto
  <1>5. CASE UNCHANGED vars
    <2>1. Refused' = Refused /\ leaked' = leaked /\ stake' = stake
      BY <1>5 DEF vars, Refused
    <2> QED BY <2>1, NobodyRefused
  <1> QED BY <1>1, <1>2, <1>3, <1>4, <1>5 DEF Next, Redis, Resume

LEMMA InitLeaksOpenly == Init => RefusalsLeakOpenly
  <1> SUFFICES ASSUME Init PROVE RefusalsLeakOpenly
    OBVIOUS
  <1>1. Total(stake, Refused) = 0
    BY TotalZero DEF Init, LedgerInit, Refused
  <1> QED BY <1>1 DEF Init, RefusalsLeakOpenly, Refused

\* Whatever a refused request still has in the ledger, the leak counter shows.
THEOREM LeaksAreReported == Spec => []RefusalsLeakOpenly
  BY BudgetInvariance, InitLeaksOpenly, NextLeaksOpenly, PTL DEF Spec

\* Whatever is executed late, lost or cancelled, stakes stay between nothing and
\* the largest claim, and every variable within its type.
THEOREM BudgetTypes == Spec => []TypeOK
  BY BudgetInvariance, PTL DEF BudgetInv

=============================================================================
