--------------------------- MODULE KeyBudgetProofs ---------------------------
(***************************************************************************)
(* The monthly ledger of a key keeps its cap and its books for any finite  *)
(* set of requests, any claims, any length of the month and any number of  *)
(* faults and cancellations.                                               *)
(***************************************************************************)
EXTENDS KeyBudget, MoneyTheorems

-----------------------------------------------------------------------------
(* The inductive invariant *)

\* What a request has written, by how far its claim has come: nothing; the
\* claim; the claim less what the hand-back or the settlement took out again,
\* from the same number or from that of a later month.
Unwritten(r) == /\ claimedIn[r] = NoPeriod
                /\ Net(r) = 0
                /\ \A p \in Periods : put[r][p] = 0

Claimed(r) == /\ claimedIn[r] \in Periods
              /\ Net(r) = worst[r]
              /\ put[r][claimedIn[r]] = worst[r]
              /\ \A p \in Periods \ {claimedIn[r]} : put[r][p] = 0

Reduced(r, net) == /\ claimedIn[r] \in Periods
                   /\ Net(r) = net
                   /\ put[r][claimedIn[r]] \in net..worst[r]
                   /\ \A p \in Periods \ {claimedIn[r]} : put[r][p] \in (net - worst[r])..0

Returned(r) == Reduced(r, 0)
Paid(r) == Reduced(r, cost[r])

\* A request adds to the month of its claim and takes out of the others.
Signed(r) == \A p \in Periods : /\ claimedIn[r] = p => put[r][p] >= 0
                                /\ claimedIn[r] # p => put[r][p] <= 0

\* A command on the wire finds the claim as it was when it was sent, and the
\* month it names is not a later one.
WireFits(r) ==
  /\ wire[r].what = "get" => Unwritten(r) /\ pc[r] \in {"checking", "cancelled"}
  /\ wire[r].what = "claim" => /\ Unwritten(r) /\ pc[r] \in {"reserving", "cancelled"}
                               /\ worst[r] > 0 /\ cost[r] = 0
  /\ wire[r].what = "handback" => /\ Claimed(r) /\ pc[r] \in {"handing_back", "cancelled"}
                                  /\ cost[r] = 0
  /\ wire[r].what = "settle" => /\ Claimed(r) /\ pc[r] \in {"settling", "cancelled"}
                                /\ cost[r] < worst[r]
  /\ wire[r].what \in {"ok", "error"} => pc[r] \in Waiting
  /\ wire[r].period <= Period

\* Where the request believes it is, against what it has written.
PointFits(r) ==
  /\ wire[r].what # "none" => pc[r] \in Waiting \cup {"cancelled"}
  /\ pc[r] \in {"start", "checking", "admitted", "turned_away"} => Unwritten(r)
  /\ pc[r] = "reserving" /\ wire[r].what = "ok" => Claimed(r)
  /\ pc[r] = "handing_back" => Claimed(r) \/ Returned(r)
  /\ pc[r] = "handing_back" /\ wire[r].what = "ok" => Returned(r)
  /\ pc[r] = "refused" => Claimed(r) \/ Returned(r)
  /\ pc[r] = "held" => Claimed(r) \/ (Unwritten(r) /\ worst[r] = 0)
  /\ pc[r] = "settling" => Claimed(r) \/ Paid(r)
  /\ pc[r] = "settling" /\ wire[r].what = "ok" => Paid(r)
  /\ pc[r] = "settled" =>
       Paid(r) \/ (cost[r] = worst[r] /\ (Claimed(r) \/ (Unwritten(r) /\ worst[r] = 0)))
  /\ pc[r] = "unsettled" => Claimed(r) \/ Paid(r)
  /\ cost[r] > 0 => Claimed(r) \/ Paid(r)
  /\ pc[r] \notin {"settling", "settled", "unsettled", "cancelled"} => cost[r] = 0
  /\ cost[r] <= worst[r]

RequestFits(r) == Signed(r) /\ WireFits(r) /\ PointFits(r)

Fits == \A r \in Requests : RequestFits(r)

MonthEnd(p) == Month * (p + 1)

\* No number is dropped before its month is over.
OutlivesItsMonth == \A p \in Periods : expires[p] # NoKey => MonthEnd(p) <= expires[p]

\* The claims made in a month, and what was carried into it from earlier ones.
ClaimsIn(p) == [r \in Requests |-> IF claimedIn[r] = p THEN put[r][p] ELSE 0]
Carried(p)  == [r \in Requests |-> IF claimedIn[r] # p THEN - put[r][p] ELSE 0]

NumberIsComplete(p) ==
  usd[p] = Total(ClaimsIn(p), Requests) - Total(Carried(p), Requests)

\* Let through, or about to be: the reply that grants the claim is on its way.
Passed(r) == \/ pc[r] \in {"held", "settling", "settled", "unsettled"}
             \/ pc[r] = "cancelled" /\ cost[r] > 0
             \/ pc[r] = "reserving" /\ wire[r].what = "ok" /\ seen[r] <= Cap

CountedIn(p) == {r \in Requests : claimedIn[r] = p /\ Passed(r)}

WithinCap(p) == Total(ClaimsIn(p), CountedIn(p)) <= Cap + Total(Carried(p), Requests)

\* Of the current month and of those to come.
Books == \A p \in Periods : p >= Period => NumberIsComplete(p) /\ WithinCap(p)

KeyInv == TypeOK /\ Fits /\ OutlivesItsMonth /\ Books

-----------------------------------------------------------------------------
(* Arithmetic of months *)

LEMMA Months ==
  ASSUME NEW a \in Nat, NEW m \in Nat \ {0}
  PROVE  /\ a \div m \in Nat
         /\ m * (a \div m) <= a
         /\ a < m * ((a \div m) + 1)
  OBVIOUS

LEMMA Shorter ==
  ASSUME NEW x \in Int, NEW y \in Int, NEW m \in Nat \ {0}, m * x < m * y
  PROVE  x < y
  OBVIOUS

LEMMA NoShorter ==
  ASSUME NEW x \in Int, NEW y \in Int, NEW m \in Nat \ {0}, x <= y
  PROVE  m * x <= m * y
  OBVIOUS

LEMMA MonthsOrdered ==
  ASSUME NEW a \in Nat, NEW b \in Nat, NEW m \in Nat \ {0}, a <= b
  PROVE  a \div m <= b \div m
  <1>1. /\ a \div m \in Nat /\ b \div m \in Nat
        /\ m * (a \div m) <= a /\ b < m * ((b \div m) + 1)
    BY Months
  <1> DEFINE x == a \div m
             y == (b \div m) + 1
  <1>2. x \in Int /\ y \in Int /\ m * x \in Int /\ m * y \in Int
    BY <1>1
  <1>3. m * x < m * y
    BY <1>1, <1>2
  <1>4. x < y
    BY <1>2, <1>3, Shorter
  <1> QED BY <1>1, <1>4

\* A month that ends by t is earlier than one that ends after t.
LEMMA EndsEarlier ==
  ASSUME NEW p \in Nat, NEW q \in Nat, NEW t \in Nat, MonthEnd(p) <= t, t < MonthEnd(q)
  PROVE  p < q
  <1> DEFINE x == p + 1
             y == q + 1
  <1>1. /\ x \in Int /\ y \in Int
        /\ MonthEnd(p) = Month * x /\ MonthEnd(q) = Month * y
    BY DEF MonthEnd
  <1> HIDE DEF x, y
  <1>2. Month * x \in Int /\ Month * y \in Int
    BY <1>1, KeyBudgetAssumption
  <1>3. Month * x < Month * y
    BY <1>1, <1>2
  <1>4. x < y
    BY <1>1, <1>3, Shorter, KeyBudgetAssumption
  <1> QED BY <1>4 DEF x, y

LEMMA PeriodType ==
  ASSUME TypeOK
  PROVE  /\ Period \in Periods /\ Period \in Nat
         /\ Periods \in SUBSET Nat /\ IsFiniteSet(Periods) /\ NoPeriod \notin Periods
         /\ now < MonthEnd(Period)
         /\ \A p \in Periods : p <= Period => MonthEnd(p) <= now + Month
  <1> USE KeyBudgetAssumption
  <1>1. now \in Nat /\ LastTick \in Nat /\ now <= LastTick
    BY DEF TypeOK
  <1>2. /\ now \div Month \in Nat /\ LastTick \div Month \in Nat
        /\ Month * (now \div Month) <= now
        /\ now < Month * ((now \div Month) + 1)
    BY <1>1, Months
  <1>3. now \div Month <= LastTick \div Month
    BY <1>1, MonthsOrdered
  <1>4. /\ Period \in Periods /\ Period \in Nat
        /\ Periods \in SUBSET Nat /\ IsFiniteSet(Periods) /\ NoPeriod \notin Periods
    BY <1>2, <1>3, FS_Interval DEF Period, Periods, NoPeriod
  <1>5. ASSUME NEW p \in Periods, p <= Period
        PROVE  MonthEnd(p) <= now + Month
    <2>1. p \in Nat
      BY <1>4
    <2>2. Month * p <= Month * Period
      BY <1>4, <1>5, <2>1, NoShorter
    <2>3. Month * (p + 1) = Month * p + Month
      BY <2>1
    <2>4. Month * Period <= now
      BY <1>2 DEF Period
    <2>5. Month * p \in Int /\ Month * Period \in Int
      BY <1>4, <2>1
    <2> QED BY <1>1, <2>2, <2>3, <2>4, <2>5 DEF MonthEnd
  <1> QED BY <1>2, <1>4, <1>5 DEF Period, MonthEnd

-----------------------------------------------------------------------------
(* What is in a number, and what may change around it *)

LEMMA BookTypes ==
  ASSUME TypeOK, \A x \in Requests : Signed(x), NEW p \in Periods
  PROVE  \A x \in Requests : ClaimsIn(p)[x] \in 0..MaxClaim /\ Carried(p)[x] \in 0..MaxClaim
  BY KeyBudgetAssumption DEF TypeOK, Signed, ClaimsIn, Carried

LEMMA BookTypesNext ==
  ASSUME TypeOK', \A x \in Requests : Signed(x)', NEW p \in Periods
  PROVE  \A x \in Requests : ClaimsIn(p)'[x] \in 0..MaxClaim /\ Carried(p)'[x] \in 0..MaxClaim
  BY KeyBudgetAssumption DEF TypeOK, Signed, ClaimsIn, Carried

\* The cap of a month holds on while nobody is let through, no claim in it
\* grows, and nothing carried into it shrinks.
LEMMA WithinCapKept ==
  ASSUME TypeOK, \A x \in Requests : Signed(x),
         TypeOK', \A x \in Requests : Signed(x)',
         NEW p \in Periods, WithinCap(p),
         CountedIn(p)' \in SUBSET CountedIn(p),
         \A x \in Requests : /\ ClaimsIn(p)'[x] <= ClaimsIn(p)[x]
                             /\ Carried(p)[x] <= Carried(p)'[x]
  PROVE  WithinCap(p)'
  <1> USE KeyBudgetAssumption
  <1>1. /\ CountedIn(p) \in SUBSET Requests /\ IsFiniteSet(CountedIn(p))
        /\ IsFiniteSet(CountedIn(p)')
    <2>1. CountedIn(p) \in SUBSET Requests
      BY DEF CountedIn
    <2> QED BY <2>1, FS_Subset
  <1>2. \A x \in Requests : /\ ClaimsIn(p)[x] \in 0..MaxClaim /\ Carried(p)[x] \in 0..MaxClaim
                            /\ ClaimsIn(p)'[x] \in 0..MaxClaim /\ Carried(p)'[x] \in 0..MaxClaim
    BY BookTypes, BookTypesNext
  <1>3. Total(ClaimsIn(p)', CountedIn(p)') <= Total(ClaimsIn(p), CountedIn(p))
    BY <1>1, <1>2, TotalCovered
  <1>4. Total(Carried(p), Requests) <= Total(Carried(p)', Requests)
    BY <1>2, TotalMonotone
  <1>5. /\ Total(ClaimsIn(p), CountedIn(p)) \in Nat /\ Total(Carried(p), Requests) \in Nat
        /\ Total(ClaimsIn(p)', CountedIn(p)') \in Nat /\ Total(Carried(p)', Requests) \in Nat
    BY <1>1, <1>2, UnitsFinite
  <1>6. Total(ClaimsIn(p), CountedIn(p)) <= Cap + Total(Carried(p), Requests)
    BY DEF WithinCap
  <1> QED BY <1>3, <1>4, <1>5, <1>6 DEF WithinCap

\* What a request has written and where it stands stay as they are.
LEMMA StagesStay ==
  ASSUME NEW x \in Requests, put'[x] = put[x], claimedIn'[x] = claimedIn[x]
  PROVE  /\ Signed(x)' <=> Signed(x)
         /\ Unwritten(x)' <=> Unwritten(x)
         /\ worst'[x] = worst[x] => (Claimed(x)' <=> Claimed(x))
         /\ worst'[x] = worst[x] => (Returned(x)' <=> Returned(x))
         /\ worst'[x] = worst[x] /\ cost'[x] = cost[x] => (Paid(x)' <=> Paid(x))
  <1>1. Net(x)' = Net(x)
    BY DEF Net
  <1> QED BY <1>1 DEF Signed, Unwritten, Claimed, Returned, Paid, Reduced

LEMMA OthersStay ==
  ASSUME NEW x \in Requests, RequestFits(x),
         put'[x] = put[x], claimedIn'[x] = claimedIn[x], pc'[x] = pc[x],
         wire'[x] = wire[x], worst'[x] = worst[x], cost'[x] = cost[x],
         wire[x].period \in Nat, Period \in Nat, Period' \in Nat, Period <= Period'
  PROVE  RequestFits(x)'
  <1>1. /\ Signed(x)' <=> Signed(x)
        /\ Unwritten(x)' <=> Unwritten(x)
        /\ Claimed(x)' <=> Claimed(x)
        /\ Returned(x)' <=> Returned(x)
        /\ Paid(x)' <=> Paid(x)
    BY StagesStay
  <1>2. WireFits(x)'
    BY <1>1 DEF RequestFits, WireFits
  <1>3. PointFits(x)'
    BY <1>1 DEF RequestFits, PointFits
  <1> QED BY <1>1, <1>2, <1>3 DEF RequestFits

\* A step of one request that writes nothing keeps the invariant, if the
\* request fits in and the step does not let it through.
LEMMA LocalStep ==
  ASSUME KeyInv, NEW r \in Requests, UNCHANGED <<now, usd, expires, put, claimedIn>>,
         TypeOK',
         \A x \in Requests \ {r} : /\ pc'[x] = pc[x] /\ wire'[x] = wire[x]
                                   /\ worst'[x] = worst[x] /\ cost'[x] = cost[x]
                                   /\ seen'[x] = seen[x],
         WireFits(r)', PointFits(r)',
         claimedIn[r] \in Periods /\ Passed(r)' => Passed(r)
  PROVE  KeyInv'
  <1>1. /\ \A x \in Requests : RequestFits(x) /\ Signed(x)
        /\ \A x \in Requests : wire[x].period \in Nat
        /\ Period \in Nat /\ Period' = Period
    <2>1. Period' = Period
      BY DEF Period
    <2> QED BY <2>1, PeriodType DEF KeyInv, Fits, RequestFits, TypeOK
  <1>2. \A x \in Requests : Signed(x)'
    BY <1>1, StagesStay
  <1>3. ASSUME NEW x \in Requests PROVE RequestFits(x)'
    <2>1. CASE x = r
      BY <1>2, <2>1 DEF RequestFits
    <2>2. CASE x # r
      BY <1>1, <2>2, OthersStay
    <2> QED BY <2>1, <2>2
  <1>4. ASSUME NEW p \in Periods, p >= Period
        PROVE  NumberIsComplete(p)' /\ WithinCap(p)'
    <2>1. NumberIsComplete(p) /\ WithinCap(p)
      BY <1>4 DEF KeyInv, Books
    <2>2. ClaimsIn(p)' = ClaimsIn(p) /\ Carried(p)' = Carried(p)
      BY DEF ClaimsIn, Carried
    <2>3. NumberIsComplete(p)'
      BY <2>1, <2>2 DEF NumberIsComplete
    <2>4. CountedIn(p)' \in SUBSET CountedIn(p)
      BY DEF CountedIn, Passed
    <2>5. \A x \in Requests : /\ ClaimsIn(p)'[x] <= ClaimsIn(p)[x]
                              /\ Carried(p)[x] <= Carried(p)'[x]
      BY <1>1, <2>2, BookTypes DEF KeyInv
    <2> QED BY <1>1, <1>2, <2>1, <2>3, <2>4, <2>5, WithinCapKept DEF KeyInv
  <1>5. OutlivesItsMonth'
    BY DEF KeyInv, OutlivesItsMonth
  <1> QED BY <1>1, <1>3, <1>4, <1>5 DEF KeyInv, Fits, Books

-----------------------------------------------------------------------------
(* The steps that write nothing *)

\* What the steps of one request share.
LEMMA OneRequest ==
  ASSUME KeyInv, NEW r \in Requests
  PROVE  /\ WireFits(r) /\ PointFits(r)
         /\ wire[r].what \in Commands \cup {"none", "ok", "error"}
         /\ wire[r].period \in Nat /\ wire[r].period \in Periods /\ Period \in Periods /\ Period \in Nat
         /\ 0 \in Periods
         /\ worst[r] \in 0..MaxClaim /\ cost[r] \in 0..MaxClaim
         /\ seen[r] \in Int /\ leaked \in Nat
  <1>1. Period \in Periods /\ Period \in Nat /\ Periods \in SUBSET Nat
    BY PeriodType DEF KeyInv
  <1>2. 0 \in Periods
    BY <1>1, KeyBudgetAssumption, Months DEF Periods
  <1> QED BY <1>1, <1>2 DEF KeyInv, Fits, RequestFits, TypeOK

LEMMA GetKeepsInv ==
  ASSUME KeyInv, NEW r \in Requests, Get(r),
         NEW answer \in {"ok", "error"}, Answer(r, answer),
         UNCHANGED <<now, request, leaked>>, faults' \in 0..MaxFaults
  PROVE  KeyInv'
  <1> USE DEF request, redis, Get, Answer, Idle
  <1>1. /\ WireFits(r) /\ PointFits(r) /\ 0 \in Periods /\ Period \in Nat
        /\ wire[r].period \in Periods
    BY OneRequest
  <1>2. TypeOK'
    BY <1>1 DEF KeyInv, TypeOK
  <1>3. Unwritten(r)' <=> Unwritten(r)
    BY StagesStay
  <1>4. Unwritten(r) /\ pc[r] \in {"checking", "cancelled"}
    BY <1>1 DEF WireFits
  <1>5. Period' = Period
    BY DEF Period
  <1>6. wire'[r].what \in {"none", "ok", "error"} /\ wire'[r].period = 0
        /\ (pc[r] = "cancelled" => wire'[r].what = "none")
    BY DEF KeyInv, TypeOK
  <1>7. WireFits(r)'
    BY <1>1, <1>4, <1>5, <1>6 DEF WireFits, Waiting
  <1>8. ~ Claimed(r) /\ ~ Paid(r)
    BY <1>4, PeriodType DEF Claimed, Paid, Reduced, Unwritten, KeyInv
  <1>9. PointFits(r)'
    BY <1>1, <1>3, <1>4, <1>6, <1>8 DEF PointFits, Waiting
  <1>10. claimedIn[r] \notin Periods
    BY <1>4, PeriodType DEF Unwritten, KeyInv
  <1> QED BY <1>2, <1>7, <1>9, <1>10, LocalStep DEF KeyInv, TypeOK

LEMMA LocalActionsFit ==
  ASSUME KeyInv, NEW r \in Requests, LoseCommand(r) \/ Resume(r) \/ Cancel(r)
  PROVE  /\ TypeOK' /\ WireFits(r)' /\ PointFits(r)'
         /\ Passed(r)' => Passed(r)
  <1> USE KeyBudgetAssumption
  <1> USE DEF request, redis, Goto, Send, Received, Forget
  <1>1. /\ WireFits(r) /\ PointFits(r)
        /\ wire[r].what \in Commands \cup {"none", "ok", "error"}
        /\ wire[r].period \in Nat /\ wire[r].period \in Periods /\ Period \in Periods /\ Period \in Nat
        /\ 0 \in Periods
        /\ worst[r] \in 0..MaxClaim /\ cost[r] \in 0..MaxClaim
        /\ seen[r] \in Int /\ leaked \in Nat
    BY OneRequest
  <1>i. /\ Idle \in [what : Commands \cup {"none", "ok", "error"}, period : Periods]
        /\ Idle.what = "none" /\ Idle.period = 0
    BY <1>1 DEF Idle
  <1>2. TypeOK'
    <2> USE <1>1, <1>i DEF KeyInv, TypeOK, Points, Waiting
    <2>1. CASE LoseCommand(r)
      BY <2>1 DEF LoseCommand, Answer, Commands, Idle
    <2>2. CASE Admit(r)
      BY <2>2 DEF Admit
    <2>3. CASE CheckFailed(r)
      BY <2>3 DEF CheckFailed
    <2>4. CASE Granted(r)
      BY <2>4 DEF Granted
    <2>5. CASE ReserveFailed(r)
      BY <2>5 DEF ReserveFailed
    <2>6. CASE OverCap(r)
      BY <2>6 DEF OverCap, Commands
    <2>7. CASE HandedBack(r)
      BY <2>7 DEF HandedBack
    <2>8. CASE HandBackFailed(r)
      BY <2>8 DEF HandBackFailed
    <2>9. CASE Settled(r)
      BY <2>9 DEF Settled
    <2>10. CASE SettleFailed(r)
      BY <2>10 DEF SettleFailed
    <2>11. CASE Cancel(r)
      BY <2>11 DEF Cancel
    <2> QED BY <2>1, <2>2, <2>3, <2>4, <2>5, <2>6, <2>7, <2>8, <2>9, <2>10, <2>11 DEF Resume
  <1>3. /\ put'[r] = put[r] /\ claimedIn'[r] = claimedIn[r]
        /\ worst'[r] = worst[r] /\ cost'[r] = cost[r] /\ now' = now
    BY DEF LoseCommand, Resume, Admit, CheckFailed, Granted, OverCap, ReserveFailed,
           HandedBack, HandBackFailed, Settled, SettleFailed, Cancel
  <1>4. /\ Unwritten(r)' <=> Unwritten(r)
        /\ Claimed(r)' <=> Claimed(r)
        /\ Returned(r)' <=> Returned(r)
        /\ Paid(r)' <=> Paid(r)
    BY <1>3, StagesStay
  <1>5. Period' = Period
    BY <1>3 DEF Period
  <1>6. WireFits(r)' /\ PointFits(r)' /\ (Passed(r)' => Passed(r))
    <2> USE <1>1, <1>3, <1>4, <1>5, <1>i
    <2> USE DEF WireFits, PointFits, Passed, Waiting, Commands
    <2>1. CASE LoseCommand(r)
      BY <2>1 DEF LoseCommand, Answer, Idle, KeyInv, TypeOK
    <2>2. CASE Admit(r) \/ CheckFailed(r)
      <3>1. /\ pc[r] = "checking" /\ pc'[r] \in {"turned_away", "admitted", "failed"}
            /\ wire'[r].what = "none" /\ wire'[r].period = 0
        BY <2>2 DEF Admit, CheckFailed, KeyInv, TypeOK
      <3> QED BY <3>1
    <2>3. CASE Granted(r)
      <3>1. /\ pc[r] = "reserving" /\ wire[r].what = "ok" /\ seen[r] <= Cap
            /\ pc'[r] = "held" /\ wire'[r].what = "none" /\ wire'[r].period = 0
        BY <2>3 DEF Granted, KeyInv, TypeOK
      <3> QED BY <3>1
    <2>4. CASE ReserveFailed(r)
      <3>1. /\ pc[r] = "reserving"
            /\ pc'[r] = "failed" /\ wire'[r].what = "none" /\ wire'[r].period = 0
        BY <2>4 DEF ReserveFailed, KeyInv, TypeOK
      <3> QED BY <3>1
    <2>5. CASE OverCap(r)
      BY <2>5 DEF OverCap, KeyInv, TypeOK
    <2>6. CASE HandedBack(r) \/ HandBackFailed(r)
      <3>1. /\ pc[r] = "handing_back" 
            /\ pc'[r] = "refused" /\ wire'[r].what = "none" /\ wire'[r].period = 0
        BY <2>6 DEF HandedBack, HandBackFailed, KeyInv, TypeOK
      <3> QED BY <3>1
    <2>7. CASE Settled(r)
      <3>1. /\ pc[r] = "settling" /\ wire[r].what = "ok"
            /\ pc'[r] = "settled" /\ wire'[r].what = "none" /\ wire'[r].period = 0
        BY <2>7 DEF Settled, KeyInv, TypeOK
      <3> QED BY <3>1
    <2>8. CASE SettleFailed(r)
      <3>1. /\ pc[r] = "settling"
            /\ pc'[r] = "unsettled" /\ wire'[r].what = "none" /\ wire'[r].period = 0
        BY <2>8 DEF SettleFailed, KeyInv, TypeOK
      <3> QED BY <3>1
    <2>9. CASE Cancel(r)
      <3>1. /\ pc[r] \in Waiting /\ pc'[r] = "cancelled"
            /\ \/ wire[r].what \in Commands /\ wire'[r] = wire[r]
               \/ wire'[r].what = "none" /\ wire'[r].period = 0
        BY <2>9 DEF Cancel, KeyInv, TypeOK
      <3> QED BY <3>1
    <2> QED BY <2>1, <2>2, <2>3, <2>4, <2>5, <2>6, <2>7, <2>8, <2>9 DEF Resume
  <1> QED BY <1>2, <1>6

LEMMA CallsFit ==
  ASSUME KeyInv, NEW r \in Requests, Call(r)
  PROVE  /\ TypeOK' /\ WireFits(r)' /\ PointFits(r)'
         /\ claimedIn[r] \in Periods /\ Passed(r)' => Passed(r)
  <1> USE KeyBudgetAssumption
  <1> USE DEF request, redis, Goto, Send
  <1>1. /\ WireFits(r) /\ PointFits(r)
        /\ wire[r].what \in Commands \cup {"none", "ok", "error"}
        /\ wire[r].period \in Nat /\ wire[r].period \in Periods /\ Period \in Periods /\ Period \in Nat
        /\ worst[r] \in 0..MaxClaim /\ cost[r] \in 0..MaxClaim
    BY OneRequest
  <1>2. CASE EnforceBudget(r)
    <2>1. TypeOK'
      BY <1>1, <1>2 DEF EnforceBudget, KeyInv, TypeOK, Points, Waiting, Commands
    <2>2. /\ Unwritten(r)' <=> Unwritten(r)
          /\ Claimed(r)' <=> Claimed(r)
          /\ Paid(r)' <=> Paid(r)
          /\ Period' = Period
      BY <1>2, StagesStay DEF EnforceBudget, Period
    <2>3. /\ pc[r] = "start" /\ pc'[r] = "checking"
          /\ wire'[r].what = "get" /\ wire'[r].period = Period
          /\ worst'[r] = worst[r] /\ cost'[r] = cost[r]
      BY <1>2 DEF EnforceBudget, KeyInv, TypeOK
    <2> QED BY <1>1, <2>1, <2>2, <2>3 DEF WireFits, PointFits, Passed, Waiting, Commands
  <1>3. ASSUME NEW claim \in 0..MaxClaim, Reserve(r, claim)
        PROVE  /\ TypeOK' /\ WireFits(r)' /\ PointFits(r)'
               /\ claimedIn[r] \in Periods /\ Passed(r)' => Passed(r)
    <2>1. TypeOK'
      <3>1. wire' \in [Requests -> [what : Commands \cup {"none", "ok", "error"}, period : Periods]]
        <4>1. CASE claim = 0
          BY <1>3, <4>1 DEF Reserve, KeyInv, TypeOK
        <4>2. CASE claim # 0
          BY <1>1, <1>3, <4>2 DEF Reserve, KeyInv, TypeOK, Commands
        <4> QED BY <4>1, <4>2
      <3>2. pc' \in [Requests -> Points] /\ worst' \in [Requests -> 0..MaxClaim]
        BY <1>3 DEF Reserve, KeyInv, TypeOK, Points, Waiting
      <3> QED BY <1>3, <3>1, <3>2 DEF Reserve, KeyInv, TypeOK
    <2>2. /\ Unwritten(r)' <=> Unwritten(r)
          /\ Period' = Period
      BY <1>3, StagesStay DEF Reserve, Period
    <2>3. /\ pc[r] = "admitted" /\ cost'[r] = cost[r]
          /\ worst'[r] = claim
          /\ \/ claim = 0 /\ pc'[r] = "held" /\ wire'[r] = wire[r]
             \/ /\ claim > 0 /\ pc'[r] = "reserving"
                /\ wire'[r].what = "claim" /\ wire'[r].period = Period
      BY <1>3 DEF Reserve, KeyInv, TypeOK
    <2>4. claimedIn[r] \notin Periods
      BY <1>1, <2>3, PeriodType DEF PointFits, Unwritten, KeyInv
    <2> QED BY <1>1, <2>1, <2>2, <2>3, <2>4 DEF WireFits, PointFits, Waiting, Commands
  <1>4. ASSUME NEW actual \in 0..MaxClaim, Settle(r, actual)
        PROVE  /\ TypeOK' /\ WireFits(r)' /\ PointFits(r)'
               /\ claimedIn[r] \in Periods /\ Passed(r)' => Passed(r)
    <2>1. TypeOK'
      <3>1. wire' \in [Requests -> [what : Commands \cup {"none", "ok", "error"}, period : Periods]]
        BY <1>1, <1>4 DEF Settle, KeyInv, TypeOK, Commands
      <3>2. pc' \in [Requests -> Points] /\ cost' \in [Requests -> 0..MaxClaim]
        BY <1>4 DEF Settle, KeyInv, TypeOK, Points, Waiting
      <3> QED BY <1>4, <3>1, <3>2 DEF Settle, KeyInv, TypeOK
    <2>2. /\ Unwritten(r)' <=> Unwritten(r)
          /\ Claimed(r)' <=> Claimed(r)
          /\ Period' = Period
      BY <1>4, StagesStay DEF Settle, Period
    <2>3. /\ pc[r] = "held" /\ worst'[r] = worst[r] /\ cost'[r] = actual
          /\ \/ actual = worst[r] /\ pc'[r] = "settled" /\ wire'[r] = wire[r]
             \/ /\ actual < worst[r] /\ pc'[r] = "settling"
                /\ wire'[r].what = "settle" /\ wire'[r].period = Period
      <3>1. pc[r] = "held" /\ worst'[r] = worst[r] /\ cost'[r] = actual /\ actual <= worst[r]
        BY <1>4 DEF Settle, KeyInv, TypeOK
      <3>2. CASE actual = worst[r]
        BY <1>4, <3>1, <3>2 DEF Settle, KeyInv, TypeOK
      <3>3. CASE actual # worst[r]
        <4>1. actual < worst[r]
          BY <1>1, <3>1, <3>3
        <4>2. /\ pc'[r] = "settling"
              /\ wire'[r].what = "settle" /\ wire'[r].period = Period
          BY <1>4, <3>3 DEF Settle, KeyInv, TypeOK
        <4> QED BY <3>1, <4>1, <4>2
      <3> QED BY <3>2, <3>3
    <2> QED BY <1>1, <2>1, <2>2, <2>3 DEF WireFits, PointFits, Passed, Waiting, Commands
  <1> QED BY <1>2, <1>3, <1>4, Zenon DEF Call

LEMMA LocalActionsKeepInv ==
  ASSUME KeyInv, NEW r \in Requests, LoseCommand(r) \/ Resume(r) \/ Cancel(r) \/ Call(r)
  PROVE  KeyInv'
  <1>1. UNCHANGED <<now, usd, expires, put, claimedIn>>
    BY DEF LoseCommand, Resume, Admit, CheckFailed, Granted, OverCap, ReserveFailed,
           HandedBack, HandBackFailed, Settled, SettleFailed, Cancel, Call,
           EnforceBudget, Reserve, Settle, redis
  <1>2. \A x \in Requests \ {r} : /\ pc'[x] = pc[x] /\ wire'[x] = wire[x]
                                  /\ worst'[x] = worst[x] /\ cost'[x] = cost[x]
                                  /\ seen'[x] = seen[x]
    BY DEF LoseCommand, Resume, Admit, CheckFailed, Granted, OverCap, ReserveFailed,
           HandedBack, HandBackFailed, Settled, SettleFailed, Cancel, Call,
           EnforceBudget, Reserve, Settle, request, Goto, Send, Received, Forget,
           Answer, KeyInv, TypeOK
  <1>3. /\ TypeOK' /\ WireFits(r)' /\ PointFits(r)'
        /\ claimedIn[r] \in Periods /\ Passed(r)' => Passed(r)
    BY LocalActionsFit, CallsFit
  <1> QED BY <1>1, <1>2, <1>3, LocalStep

-----------------------------------------------------------------------------
(* Time *)

\* A number that is dropped belongs to a month that is over.
LEMMA TickKeepsInv ==
  ASSUME KeyInv, Tick
  PROVE  KeyInv'
  <1> USE KeyBudgetAssumption
  <1>1. /\ now \in Nat /\ now' = now + 1 /\ now' \in 0..LastTick
        /\ UNCHANGED <<pc, worst, cost, wire, seen, leaked, faults, put, claimedIn>>
    BY DEF Tick, KeyInv, TypeOK, request
  <1>2. /\ Period \in Nat /\ Period' \in Nat /\ Period <= Period'
        /\ now' < MonthEnd(Period')
        /\ Periods \in SUBSET Nat
    <2>1. /\ now' \in Nat /\ now <= now'
      BY <1>1
    <2>2. /\ now' \div Month \in Nat /\ now' < Month * ((now' \div Month) + 1)
      BY <2>1, Months
    <2>3. now \div Month <= now' \div Month
      BY <1>1, <2>1, MonthsOrdered
    <2>4. Period \in Nat /\ Periods \in SUBSET Nat
      BY PeriodType DEF KeyInv
    <2> QED BY <2>2, <2>3, <2>4 DEF Period, MonthEnd
  <1>3. TypeOK'
    BY <1>1 DEF Tick, KeyInv, TypeOK, NoKey
  <1>4. ASSUME NEW x \in Requests PROVE RequestFits(x)'
    BY <1>1, <1>2, OthersStay DEF KeyInv, Fits, TypeOK
  <1>5. ASSUME NEW p \in Periods, p >= Period'
        PROVE  ~ Dropped(p)
    <2> SUFFICES ASSUME Dropped(p) PROVE FALSE
      OBVIOUS
    <2>1. /\ p \in Nat /\ MonthEnd(p) <= expires[p] /\ expires[p] <= now'
          /\ expires[p] \in Int
      BY <1>1, <1>2 DEF Dropped, KeyInv, OutlivesItsMonth, TypeOK
    <2>2. MonthEnd(p) <= now' /\ MonthEnd(p) \in Int /\ now' \in Nat
      BY <1>1, <2>1 DEF MonthEnd
    <2>3. p < Period'
      BY <1>1, <1>2, <2>1, <2>2, EndsEarlier
    <2> QED BY <1>2, <1>5, <2>1, <2>3
  <1>6. ASSUME NEW p \in Periods, p >= Period'
        PROVE  NumberIsComplete(p)' /\ WithinCap(p)'
    <2>1. p >= Period /\ NumberIsComplete(p) /\ WithinCap(p)
      BY <1>2, <1>6 DEF KeyInv, Books
    <2>2. /\ ClaimsIn(p)' = ClaimsIn(p) /\ Carried(p)' = Carried(p)
          /\ CountedIn(p)' = CountedIn(p)
      BY <1>1 DEF ClaimsIn, Carried, CountedIn, Passed
    <2>3. usd'[p] = usd[p]
      BY <1>5, <1>6 DEF Tick
    <2> QED BY <2>1, <2>2, <2>3 DEF NumberIsComplete, WithinCap
  <1>7. OutlivesItsMonth'
    BY <1>1 DEF Tick, KeyInv, OutlivesItsMonth, NoKey
  <1> QED BY <1>3, <1>4, <1>6, <1>7 DEF KeyInv, Fits, Books

-----------------------------------------------------------------------------
(* A command is executed *)

\* What the write finds, and what it changes of the request's own amounts.
LEMMA ApplyWrites ==
  ASSUME KeyInv, NEW r \in Requests, Apply(r), UNCHANGED request
  PROVE  /\ wire[r].period \in Periods /\ Delta(r) \in (-MaxClaim)..MaxClaim
         /\ put[r] \in [Periods -> (-MaxClaim)..MaxClaim]
         /\ put'[r] = [put[r] EXCEPT ![wire[r].period] = @ + Delta(r)]
         /\ put'[r] \in [Periods -> (-MaxClaim)..MaxClaim]
         /\ Net(r)' = Net(r) + Delta(r)
  <1> USE KeyBudgetAssumption
  <1> DEFINE q == wire[r].period
  <1>1. /\ WireFits(r) /\ q \in Periods
        /\ worst[r] \in 0..MaxClaim /\ cost[r] \in 0..MaxClaim /\ cost[r] <= worst[r]
        /\ put[r] \in [Periods -> (-MaxClaim)..MaxClaim]
    BY OneRequest DEF KeyInv, TypeOK, PointFits
  <1>2. put'[r] = [put[r] EXCEPT ![q] = @ + Delta(r)]
    BY DEF Apply, KeyInv, TypeOK
  <1>3. /\ Delta(r) \in (-MaxClaim)..MaxClaim
        /\ put[r][q] + Delta(r) \in (-MaxClaim)..MaxClaim
    <2>1. CASE wire[r].what = "claim"
      BY <1>1, <2>1 DEF WireFits, Unwritten, Delta
    <2>2. CASE wire[r].what = "handback"
      <3>1. put[r][q] \in {0, worst[r]}
        BY <1>1, <2>2 DEF WireFits, Claimed
      <3> QED BY <1>1, <2>2, <3>1 DEF Delta
    <2>3. CASE wire[r].what = "settle"
      <3>1. put[r][q] \in {0, worst[r]}
        BY <1>1, <2>3 DEF WireFits, Claimed
      <3> QED BY <1>1, <2>3, <3>1 DEF Delta
    <2> QED BY <2>1, <2>2, <2>3 DEF Apply, Commands
  <1>4. put'[r] \in [Periods -> (-MaxClaim)..MaxClaim]
    BY <1>1, <1>2, <1>3
  <1>5. Net(r)' = Net(r) + Delta(r)
    <2> DEFINE f == put[r]
               g == put'[r]
    <2>1. /\ \A p \in Periods : f[p] \in (-MaxClaim)..MaxClaim
          /\ \A p \in Periods : g[p] \in (-MaxClaim)..MaxClaim
          /\ \A p \in Periods \ {q} : g[p] = f[p]
          /\ g[q] = f[q] + Delta(r)
      BY <1>1, <1>2, <1>3, <1>4
    <2>2. IsFiniteSet(Periods)
      BY PeriodType DEF KeyInv
    <2> HIDE DEF f, g, q
    <2>3. Total(g, Periods) - Total([p \in Periods |-> - g[p]], Periods)
            = Total(f, Periods) - Total([p \in Periods |-> - f[p]], Periods) - f[q] + g[q]
      BY <1>1, <2>1, <2>2, BalanceChange
    <2>4. Net(r)' = Total(g, Periods) - Total([p \in Periods |-> - g[p]], Periods)
      BY DEF Net, g
    <2>5. Net(r) = Total(f, Periods) - Total([p \in Periods |-> - f[p]], Periods)
      BY DEF Net, f
    <2>6. Net(r) \in Int
      BY <2>1, <2>2, <2>5, BalanceType
    <2>7. f[q] \in Int /\ Delta(r) \in Int
      BY <1>1, <1>3, <2>1
    <2> QED BY <2>1, <2>3, <2>4, <2>5, <2>6, <2>7
  <1> QED BY <1>1, <1>2, <1>3, <1>4, <1>5

\* The write takes the request to its next stage.
LEMMA ApplyMoves ==
  ASSUME KeyInv, NEW r \in Requests, Apply(r), UNCHANGED request
  PROVE  /\ wire[r].what = "claim" => Claimed(r)' /\ claimedIn'[r] = wire[r].period
         /\ wire[r].what = "handback" => Returned(r)' /\ claimedIn'[r] = claimedIn[r]
         /\ wire[r].what = "settle" => Paid(r)' /\ claimedIn'[r] = claimedIn[r]
         /\ Signed(r)'
  <1> USE KeyBudgetAssumption
  <1> DEFINE q == wire[r].period
  <1>1. /\ WireFits(r) /\ q \in Periods /\ NoPeriod \notin Periods
        /\ worst[r] \in 0..MaxClaim /\ cost[r] \in 0..MaxClaim
        /\ worst'[r] = worst[r] /\ cost'[r] = cost[r]
    BY OneRequest, PeriodType DEF KeyInv, request
  <1>2. /\ \A p \in Periods \ {q} : put'[r][p] = put[r][p]
        /\ put'[r][q] = put[r][q] + Delta(r)
        /\ Net(r)' = Net(r) + Delta(r)
    <2>1. /\ put[r] \in [Periods -> (-MaxClaim)..MaxClaim]
          /\ put'[r] = [put[r] EXCEPT ![q] = @ + Delta(r)]
          /\ Net(r)' = Net(r) + Delta(r)
      BY ApplyWrites
    <2> QED BY <1>1, <2>1
  <1>3. CASE wire[r].what = "claim"
    <2>1. Unwritten(r) /\ Delta(r) = worst[r] /\ claimedIn'[r] = q
      BY <1>1, <1>3 DEF WireFits, Delta, Apply, KeyInv, TypeOK
    <2>2. Claimed(r)'
      BY <1>1, <1>2, <2>1 DEF Unwritten, Claimed
    <2>3. Signed(r)'
      BY <1>1, <1>2, <2>1 DEF Unwritten, Signed
    <2> QED BY <1>3, <2>1, <2>2, <2>3
  <1>4. CASE wire[r].what = "handback"
    <2>1. Claimed(r) /\ Delta(r) = - worst[r] /\ claimedIn'[r] = claimedIn[r]
      BY <1>1, <1>4 DEF WireFits, Delta, Apply
    <2>2. Returned(r)'
      BY <1>1, <1>2, <2>1 DEF Claimed, Returned, Reduced
    <2>3. Signed(r)'
      BY <1>1, <1>2, <2>1 DEF Claimed, Signed
    <2> QED BY <1>4, <2>1, <2>2, <2>3
  <1>5. CASE wire[r].what = "settle"
    <2>1. /\ Claimed(r) /\ Delta(r) = cost[r] - worst[r] /\ claimedIn'[r] = claimedIn[r]
          /\ cost[r] < worst[r]
      BY <1>1, <1>5 DEF WireFits, Delta, Apply
    <2>2. Paid(r)'
      BY <1>1, <1>2, <2>1 DEF Claimed, Paid, Reduced
    <2>3. Signed(r)'
      BY <1>1, <1>2, <2>1 DEF Claimed, Signed
    <2> QED BY <1>5, <2>1, <2>2, <2>3
  <1> QED BY <1>3, <1>4, <1>5 DEF Apply, Commands

\* What the write changes of the number it goes to, and of no other.
LEMMA ApplyBooks ==
  ASSUME KeyInv, NEW r \in Requests, Apply(r), UNCHANGED <<now, request>>,
         NEW p \in Periods
  PROVE  /\ \A x \in Requests \ {r} : /\ ClaimsIn(p)'[x] = ClaimsIn(p)[x]
                                      /\ Carried(p)'[x] = Carried(p)[x]
         /\ p # wire[r].period =>
              ClaimsIn(p)'[r] = ClaimsIn(p)[r] /\ Carried(p)'[r] = Carried(p)[r]
         /\ p = wire[r].period =>
              ClaimsIn(p)'[r] - Carried(p)'[r] = ClaimsIn(p)[r] - Carried(p)[r] + Delta(r)
         /\ wire[r].what = "claim" => Carried(p)'[r] = Carried(p)[r]
         /\ wire[r].what # "claim" => /\ ClaimsIn(p)'[r] <= ClaimsIn(p)[r]
                                      /\ Carried(p)[r] <= Carried(p)'[r]
  <1> USE KeyBudgetAssumption
  <1> DEFINE q == wire[r].period
  <1>1. /\ q \in Periods /\ WireFits(r) /\ NoPeriod \notin Periods
        /\ worst[r] \in 0..MaxClaim /\ cost[r] \in 0..MaxClaim /\ Delta(r) \in Int
        /\ \A s \in Periods : put[r][s] \in Int
    <2>1. put[r] \in [Periods -> (-MaxClaim)..MaxClaim] /\ Delta(r) \in (-MaxClaim)..MaxClaim
      BY ApplyWrites
    <2>2. /\ q \in Periods /\ WireFits(r) /\ NoPeriod \notin Periods
          /\ worst[r] \in 0..MaxClaim /\ cost[r] \in 0..MaxClaim
      BY OneRequest, PeriodType DEF KeyInv
    <2> QED BY <2>1, <2>2
  <1>2. /\ \A s \in Periods \ {q} : put'[r][s] = put[r][s]
        /\ put'[r][q] = put[r][q] + Delta(r)
    <2>1. /\ put[r] \in [Periods -> (-MaxClaim)..MaxClaim]
          /\ put'[r] = [put[r] EXCEPT ![q] = @ + Delta(r)]
      BY ApplyWrites
    <2> QED BY <1>1, <2>1
  <1>3. \A x \in Requests \ {r} : put'[x] = put[x] /\ claimedIn'[x] = claimedIn[x]
    BY DEF Apply, KeyInv, TypeOK
  <1>4. \A x \in Requests \ {r} : /\ ClaimsIn(p)'[x] = ClaimsIn(p)[x]
                                  /\ Carried(p)'[x] = Carried(p)[x]
    BY <1>3 DEF ClaimsIn, Carried
  <1>5. /\ ClaimsIn(p)[r] = IF claimedIn[r] = p THEN put[r][p] ELSE 0
        /\ Carried(p)[r] = IF claimedIn[r] # p THEN - put[r][p] ELSE 0
        /\ ClaimsIn(p)'[r] = IF claimedIn'[r] = p THEN put'[r][p] ELSE 0
        /\ Carried(p)'[r] = IF claimedIn'[r] # p THEN - put'[r][p] ELSE 0
    BY DEF ClaimsIn, Carried
  <1>6. CASE wire[r].what = "claim"
    <2>1. /\ claimedIn[r] = NoPeriod /\ claimedIn'[r] = q
          /\ \A s \in Periods : put[r][s] = 0
      BY <1>1, <1>6, ApplyMoves DEF WireFits, Unwritten
    <2> QED BY <1>1, <1>2, <1>4, <1>5, <1>6, <2>1
  <1>7. CASE wire[r].what \in {"handback", "settle"}
    <2>1. claimedIn'[r] = claimedIn[r] /\ Delta(r) <= 0
      BY <1>1, <1>7, ApplyMoves DEF WireFits, Delta
    <2> QED BY <1>1, <1>2, <1>4, <1>5, <1>7, <2>1
  <1> QED BY <1>6, <1>7 DEF Apply, Commands

\* The reply says what the number holds: a claim is only granted if all claims
\* of its month are within the cap and what was carried in.
LEMMA ApplyKeepsBooks ==
  ASSUME KeyInv, NEW r \in Requests, Apply(r),
         NEW answer \in {"ok", "error"}, Answer(r, answer),
         UNCHANGED <<now, request>>, TypeOK', \A x \in Requests : Signed(x)'
  PROVE  Books'
  <1> USE KeyBudgetAssumption
  <1> DEFINE q == wire[r].period
  <1> SUFFICES ASSUME NEW p \in Periods, p >= Period
               PROVE  NumberIsComplete(p)' /\ WithinCap(p)'
    <2>1. Period' = Period
      BY DEF Period
    <2> QED BY <2>1 DEF Books
  <1>1. /\ NumberIsComplete(p) /\ WithinCap(p)
        /\ \A x \in Requests : Signed(x)
        /\ q \in Periods /\ Delta(r) \in Int /\ usd \in [Periods -> Int]
        /\ WireFits(r) /\ PointFits(r) /\ NoPeriod \notin Periods
    BY OneRequest, PeriodType, ApplyWrites DEF KeyInv, Books, Fits, RequestFits, TypeOK
  <1>2. /\ \A x \in Requests : ClaimsIn(p)[x] \in 0..MaxClaim /\ Carried(p)[x] \in 0..MaxClaim
        /\ \A x \in Requests : ClaimsIn(p)'[x] \in 0..MaxClaim /\ Carried(p)'[x] \in 0..MaxClaim
    BY <1>1, BookTypes, BookTypesNext DEF KeyInv
  <1>3. /\ \A x \in Requests \ {r} : /\ ClaimsIn(p)'[x] = ClaimsIn(p)[x]
                                     /\ Carried(p)'[x] = Carried(p)[x]
        /\ p # q => ClaimsIn(p)'[r] = ClaimsIn(p)[r] /\ Carried(p)'[r] = Carried(p)[r]
        /\ p = q => ClaimsIn(p)'[r] - Carried(p)'[r] = ClaimsIn(p)[r] - Carried(p)[r] + Delta(r)
        /\ wire[r].what = "claim" => Carried(p)'[r] = Carried(p)[r]
        /\ wire[r].what # "claim" => /\ ClaimsIn(p)'[r] <= ClaimsIn(p)[r]
                                     /\ Carried(p)[r] <= Carried(p)'[r]
    BY ApplyBooks
  <1>4. /\ Total(ClaimsIn(p), Requests) \in Nat /\ Total(Carried(p), Requests) \in Nat
        /\ Total(ClaimsIn(p)', Requests) \in Nat /\ Total(Carried(p)', Requests) \in Nat
    BY <1>2, UnitsFinite
  <1>5. NumberIsComplete(p)'
    <2>1. Total(ClaimsIn(p)', Requests)
            = Total(ClaimsIn(p), Requests) - ClaimsIn(p)[r] + ClaimsIn(p)'[r]
      BY <1>2, <1>3, TotalChange
    <2>2. Total(Carried(p)', Requests)
            = Total(Carried(p), Requests) - Carried(p)[r] + Carried(p)'[r]
      BY <1>2, <1>3, TotalChange
    <2>3. /\ ClaimsIn(p)[r] \in Int /\ ClaimsIn(p)'[r] \in Int
          /\ Carried(p)[r] \in Int /\ Carried(p)'[r] \in Int
      BY <1>2
    <2>4. /\ p # q => usd'[p] = usd[p]
          /\ p = q => usd'[p] = usd[p] + Delta(r)
          /\ usd[p] \in Int
      BY <1>1 DEF Apply
    <2>5. usd[p] = Total(ClaimsIn(p), Requests) - Total(Carried(p), Requests)
      BY <1>1 DEF NumberIsComplete
    <2>6. usd'[p] = Total(ClaimsIn(p)', Requests) - Total(Carried(p)', Requests)
      BY <1>1, <1>3, <1>4, <2>1, <2>2, <2>3, <2>4, <2>5
    <2> QED BY <2>6 DEF NumberIsComplete
  <1>6. CASE wire[r].what = "claim" /\ r \in CountedIn(p)'
    <2>1. p = q /\ seen'[r] <= Cap /\ usd'[p] = seen'[r]
      <3>1. claimedIn'[r] = q /\ cost[r] = 0 /\ pc[r] \in {"reserving", "cancelled"}
        BY <1>1, <1>6, ApplyMoves DEF WireFits
      <3>2. claimedIn'[r] = p /\ pc'[r] = pc[r] /\ cost'[r] = cost[r] /\ Passed(r)'
        BY <1>6 DEF CountedIn, request
      <3>3. p = q /\ seen'[r] <= Cap
        BY <3>1, <3>2 DEF Passed
      <3>4. usd'[p] = seen'[r]
        BY <1>1, <1>6, <3>3 DEF Apply, KeyInv, TypeOK
      <3> QED BY <3>3, <3>4
    <2>2. Total(ClaimsIn(p)', CountedIn(p)') <= Total(ClaimsIn(p)', Requests)
      <3>1. CountedIn(p)' \in SUBSET Requests
        BY DEF CountedIn
      <3> QED BY <1>2, <3>1, TotalSubset
    <2>3. Total(ClaimsIn(p)', CountedIn(p)') \in Nat
      <3>1. CountedIn(p)' \in SUBSET Requests /\ IsFiniteSet(CountedIn(p)')
        BY FS_Subset DEF CountedIn
      <3> QED BY <1>2, <3>1, UnitsFinite
    <2>4. usd'[p] = Total(ClaimsIn(p)', Requests) - Total(Carried(p)', Requests)
      BY <1>5 DEF NumberIsComplete
    <2>5. seen'[r] \in Int
      BY DEF TypeOK
    <2>6. Total(ClaimsIn(p)', CountedIn(p)') <= Cap + Total(Carried(p)', Requests)
      BY <1>4, <2>1, <2>2, <2>3, <2>4, <2>5
    <2> QED BY <1>5, <2>6 DEF WithinCap
  <1>7. CASE wire[r].what = "claim" /\ r \notin CountedIn(p)'
    <2>1. CountedIn(p)' \in SUBSET (CountedIn(p) \ {r})
      BY <1>7 DEF CountedIn, Passed, Apply, Answer, request, KeyInv, TypeOK
    <2>2. r \notin CountedIn(p)
      BY <1>1, <1>7 DEF CountedIn, WireFits, Unwritten
    <2>3. Total(ClaimsIn(p)', CountedIn(p)') <= Total(ClaimsIn(p), CountedIn(p))
      <3>1. CountedIn(p) \in SUBSET Requests /\ IsFiniteSet(CountedIn(p))
        BY FS_Subset DEF CountedIn
      <3>2. \A x \in CountedIn(p)' : x \in CountedIn(p) /\ ClaimsIn(p)'[x] <= ClaimsIn(p)[x]
        BY <1>2, <1>3, <2>1, <3>1
      <3>3. \A x \in CountedIn(p)' : ClaimsIn(p)'[x] \in 0..MaxClaim
        BY <1>2, <2>1, <3>1
      <3>4. \A x \in CountedIn(p) : ClaimsIn(p)[x] \in 0..MaxClaim
        BY <1>2, <3>1
      <3> QED BY <3>1, <3>2, <3>3, <3>4, TotalCovered
    <2>4. Total(Carried(p)', Requests) = Total(Carried(p), Requests)
      <3>1. \A x \in Requests : Carried(p)'[x] = Carried(p)[x]
        BY <1>3, <1>7
      <3> QED BY <3>1, TotalLocal
    <2>5. Total(ClaimsIn(p), CountedIn(p)) \in Nat /\ Total(ClaimsIn(p)', CountedIn(p)') \in Nat
      <3>1. /\ CountedIn(p) \in SUBSET Requests /\ IsFiniteSet(CountedIn(p))
            /\ CountedIn(p)' \in SUBSET Requests /\ IsFiniteSet(CountedIn(p)')
        BY FS_Subset DEF CountedIn
      <3> QED BY <1>2, <3>1, UnitsFinite
    <2>6. Total(ClaimsIn(p)', CountedIn(p)') <= Cap + Total(Carried(p)', Requests)
      BY <1>1, <1>4, <2>3, <2>4, <2>5 DEF WithinCap
    <2> QED BY <1>5, <2>6 DEF WithinCap
  <1>8. CASE wire[r].what \in {"handback", "settle"}
    <2>1. CountedIn(p)' \in SUBSET CountedIn(p)
      <3>1. claimedIn' = claimedIn /\ pc' = pc /\ cost' = cost /\ seen' = seen
        BY <1>8 DEF Apply, request
      <3>2. pc[r] # "reserving" /\ \A x \in Requests \ {r} : wire'[x] = wire[x]
        BY <1>1, <1>8 DEF WireFits, Answer, KeyInv, TypeOK
      <3> QED BY <3>1, <3>2 DEF CountedIn, Passed
    <2>2. \A x \in Requests : /\ ClaimsIn(p)'[x] <= ClaimsIn(p)[x]
                              /\ Carried(p)[x] <= Carried(p)'[x]
      BY <1>2, <1>3, <1>8
    <2>3. WithinCap(p)'
      BY <1>1, <2>1, <2>2, WithinCapKept DEF KeyInv
    <2> QED BY <1>5, <2>3
  <1> QED BY <1>6, <1>7, <1>8 DEF Apply, Commands

LEMMA ApplyKeepsInv ==
  ASSUME KeyInv, NEW r \in Requests, Apply(r),
         NEW answer \in {"ok", "error"}, Answer(r, answer),
         UNCHANGED <<now, request, leaked>>, faults' \in 0..MaxFaults
  PROVE  KeyInv'
  <1> USE KeyBudgetAssumption
  <1> DEFINE q == wire[r].period
  <1>1. /\ WireFits(r) /\ PointFits(r)
        /\ q \in Periods /\ 0 \in Periods /\ Period \in Nat /\ q <= Period
        /\ now \in 0..LastTick /\ Delta(r) \in Int
    <2>1. Delta(r) \in (-MaxClaim)..MaxClaim
      BY ApplyWrites
    <2> QED BY <2>1, OneRequest DEF KeyInv, TypeOK, WireFits
  <1>2. /\ \A x \in Requests \ {r} : /\ put'[x] = put[x] /\ claimedIn'[x] = claimedIn[x]
                                     /\ wire'[x] = wire[x]
        /\ \A x \in Requests : pc'[x] = pc[x] /\ worst'[x] = worst[x] /\ cost'[x] = cost[x]
        /\ Period' = Period
    BY DEF Apply, Answer, request, Period, KeyInv, TypeOK
  <1>3. /\ wire'[r].what \in {"none", "ok", "error"} /\ wire'[r].period = 0
        /\ wire'[r].what # "none" => wire'[r].what = answer /\ pc[r] # "cancelled"
        /\ wire' \in [Requests -> [what : Commands \cup {"none", "ok", "error"}, period : Periods]]
    BY <1>1 DEF Answer, Idle, KeyInv, TypeOK
  <1>4. TypeOK'
    <2>1. usd' \in [Periods -> Int]
      BY <1>1 DEF Apply, KeyInv, TypeOK
    <2>2. expires' \in [Periods -> 0..(LastTick + Month)]
      BY <1>1 DEF Apply, Expire, KeyInv, TypeOK
    <2>3. seen' \in [Requests -> Int]
      BY <1>1 DEF Apply, KeyInv, TypeOK
    <2>4. put' \in [Requests -> [Periods -> (-MaxClaim)..MaxClaim]]
      <3>1. put'[r] \in [Periods -> (-MaxClaim)..MaxClaim]
        BY ApplyWrites
      <3>2. put' = [put EXCEPT ![r] = put'[r]]
        BY DEF Apply, KeyInv, TypeOK
      <3> QED BY <3>1, <3>2 DEF KeyInv, TypeOK
    <2>5. claimedIn' \in [Requests -> Periods \cup {NoPeriod}]
      BY <1>1 DEF Apply, KeyInv, TypeOK
    <2> QED BY <1>3, <2>1, <2>2, <2>3, <2>4, <2>5 DEF KeyInv, TypeOK, request
  <1>5. /\ wire[r].what = "claim" => Claimed(r)'
        /\ wire[r].what = "handback" => Returned(r)'
        /\ wire[r].what = "settle" => Paid(r)'
        /\ Signed(r)'
        /\ wire[r].what \in {"claim", "handback", "settle"}
    BY ApplyMoves DEF Apply, Commands
  <1>6. WireFits(r)'
    BY <1>1, <1>2, <1>3, <1>5 DEF WireFits, Waiting
  <1>7. PointFits(r)'
    <2>1. CASE wire[r].what = "claim"
      BY <1>1, <1>2, <1>3, <1>5, <2>1 DEF WireFits, PointFits, Waiting
    <2>2. CASE wire[r].what = "handback"
      BY <1>1, <1>2, <1>3, <1>5, <2>2 DEF WireFits, PointFits, Waiting
    <2>3. CASE wire[r].what = "settle"
      BY <1>1, <1>2, <1>3, <1>5, <2>3 DEF WireFits, PointFits, Waiting
    <2> QED BY <1>5, <2>1, <2>2, <2>3
  <1>8. ASSUME NEW x \in Requests PROVE RequestFits(x)'
    <2>1. CASE x = r
      BY <1>5, <1>6, <1>7, <2>1 DEF RequestFits
    <2>2. CASE x # r
      <3>1. RequestFits(x) /\ wire[x].period \in Nat /\ Period' \in Nat /\ Period <= Period'
        BY <1>1, <1>2, PeriodType DEF KeyInv, Fits, TypeOK
      <3> QED BY <1>1, <1>2, <2>2, <3>1, OthersStay
    <2> QED BY <2>1, <2>2
  <1>9. OutlivesItsMonth'
    <2>1. MonthEnd(q) <= now + Month
      BY <1>1, PeriodType DEF KeyInv
    <2> QED BY <1>1, <2>1 DEF Apply, Expire, KeyInv, TypeOK, OutlivesItsMonth
  <1>10. Books'
    <2>1. \A x \in Requests : Signed(x)'
      BY <1>8 DEF RequestFits
    <2> QED BY <1>4, <2>1, ApplyKeepsBooks
  <1> QED BY <1>4, <1>8, <1>9, <1>10 DEF KeyInv, Fits

-----------------------------------------------------------------------------
(* Every step *)

LEMMA ExecutedKeepsInv ==
  ASSUME KeyInv, NEW r \in Requests, Execute(r) \/ LoseReply(r)
  PROVE  KeyInv'
  <1>1. /\ UNCHANGED <<now, request, leaked>> /\ faults' \in 0..MaxFaults
        /\ Apply(r) \/ Get(r)
    BY KeyBudgetAssumption DEF Execute, LoseReply, Executed, KeyInv, TypeOK
  <1>2. \E answer \in {"ok", "error"} : Answer(r, answer)
    BY DEF Execute, LoseReply
  <1> QED BY <1>1, <1>2, ApplyKeepsInv, GetKeepsInv

LEMMA NextKeyInv == KeyInv /\ [Next]_vars => KeyInv'
  <1> SUFFICES ASSUME KeyInv, [Next]_vars PROVE KeyInv'
    OBVIOUS
  <1>1. CASE Tick
    BY <1>1, TickKeepsInv
  <1>2. ASSUME NEW r \in Requests, Execute(r) \/ LoseReply(r) PROVE KeyInv'
    BY <1>2, ExecutedKeepsInv
  <1>3. ASSUME NEW r \in Requests, LoseCommand(r) \/ Resume(r) \/ Cancel(r) \/ Call(r)
        PROVE  KeyInv'
    BY <1>3, LocalActionsKeepInv
  <1>4. CASE UNCHANGED vars
    <2>1. /\ UNCHANGED <<now, usd, expires, pc, worst, cost, wire, seen, put, claimedIn>>
          /\ UNCHANGED <<leaked, faults>>
      BY <1>4 DEF vars, redis, request
    <2>2. TypeOK' /\ OutlivesItsMonth' /\ Period' = Period
      BY <2>1 DEF KeyInv, TypeOK, OutlivesItsMonth, Period
    <2>3. Period \in Nat /\ \A x \in Requests : RequestFits(x) /\ wire[x].period \in Nat
      BY PeriodType DEF KeyInv, Fits, TypeOK
    <2>4. Fits'
      BY <2>1, <2>2, <2>3, OthersStay DEF Fits
    <2>5. Books'
      BY <2>1, <2>2 DEF KeyInv, Books, NumberIsComplete, WithinCap, ClaimsIn, Carried,
                        CountedIn, Passed
    <2> QED BY <2>2, <2>4, <2>5 DEF KeyInv
  <1> QED BY <1>1, <1>2, <1>3, <1>4 DEF Next, Redis

LEMMA InitKeyInv == Init => KeyInv
  <1> SUFFICES ASSUME Init PROVE KeyInv
    OBVIOUS
  <1> USE KeyBudgetAssumption
  <1>1. 0 \in Periods /\ Period \in Periods /\ Period = 0 /\ IsFiniteSet(Periods)
    <2>1. LastTick \div Month \in Nat /\ 0 \div Month \in Nat
      BY Months
    <2>2. 0 \div Month <= 0
      BY MonthsOrdered, <2>1
    <2> QED BY <2>1, <2>2, FS_Interval DEF Init, Period, Periods
  <1>2. TypeOK
    BY <1>1 DEF Init, TypeOK, NoKey, NoPeriod, Idle, Points, Commands
  <1>3. ASSUME NEW r \in Requests PROVE RequestFits(r)
    <2>1. Net(r) = 0
      <3>1. \A p \in Periods : put[r][p] = 0 /\ - put[r][p] = 0
        <4>1. \A p \in Periods : put[r][p] = 0
          BY DEF Init
        <4> QED BY <4>1
      <3>2. Total(put[r], Periods) = 0 /\ Total([s \in Periods |-> - put[r][s]], Periods) = 0
        BY <3>1, TotalZero
      <3> QED BY <3>2 DEF Net
    <2>2. Unwritten(r) /\ Signed(r)
      BY <2>1 DEF Init, Unwritten, Signed
    <2>3. WireFits(r)
      BY <1>1, <2>2 DEF Init, WireFits, Idle
    <2>4. PointFits(r)
      BY <2>2 DEF Init, PointFits, Idle
    <2> QED BY <2>2, <2>3, <2>4 DEF RequestFits
  <1>4. OutlivesItsMonth
    BY DEF Init, OutlivesItsMonth
  <1>5. Books
    <2> SUFFICES ASSUME NEW p \in Periods PROVE NumberIsComplete(p) /\ WithinCap(p)
      BY DEF Books
    <2>1. \A x \in Requests : ClaimsIn(p)[x] = 0 /\ Carried(p)[x] = 0
      <3>1. \A x \in Requests : put[x][p] = 0
        BY DEF Init
      <3> QED BY <3>1 DEF ClaimsIn, Carried
    <2>2. CountedIn(p) \in SUBSET Requests
      BY DEF CountedIn
    <2>3. /\ Total(ClaimsIn(p), Requests) = 0 /\ Total(Carried(p), Requests) = 0
          /\ Total(ClaimsIn(p), CountedIn(p)) = 0
      BY <2>1, <2>2, TotalZero
    <2>4. usd[p] = 0
      BY DEF Init
    <2> QED BY <2>3, <2>4 DEF NumberIsComplete, WithinCap
  <1> QED BY <1>2, <1>3, <1>4, <1>5 DEF KeyInv, Fits

THEOREM KeyInvariance == Spec => []KeyInv
  BY InitKeyInv, NextKeyInv, PTL DEF Spec

-----------------------------------------------------------------------------
(* What the ledger promises *)

\* Whatever is executed late, in another month, lost or cancelled, every variable
\* stays within its type: no request puts in or takes out more than a claim.
THEOREM KeyBudgetTypes == Spec => []TypeOK
  BY KeyInvariance, PTL DEF KeyInv

LEMMA InvMonthWithinCap == KeyInv => MonthWithinCap
  <1> SUFFICES ASSUME KeyInv PROVE MonthWithinCap
    OBVIOUS
  <1> USE KeyBudgetAssumption
  <1> DEFINE through == {r \in LetThrough : claimedIn[r] = Period}
             counted == CountedIn(Period)
             claims == ClaimsIn(Period)
  <1>1. /\ Period \in Periods /\ Period >= Period
        /\ \A x \in Requests : Signed(x)
    BY PeriodType DEF KeyInv, Fits, RequestFits
  <1>2. Total(claims, counted) <= Cap + CarriedInto(Period)
    BY <1>1 DEF KeyInv, Books, WithinCap, CarriedInto, Carried
  <1>3. \A x \in Requests : /\ claims[x] \in 0..MaxClaim
                            /\ Carried(Period)[x] \in 0..MaxClaim
    BY <1>1, BookTypes DEF KeyInv
  <1>4. counted \in SUBSET Requests /\ IsFiniteSet(counted)
    BY FS_Subset DEF CountedIn
  <1>5. ASSUME NEW x \in through
        PROVE  /\ x \in counted /\ Billable[x] \in 0..MaxClaim
               /\ Billable[x] <= claims[x]
    <2>1. /\ x \in Requests /\ claimedIn[x] = Period /\ claimedIn[x] # NoPeriod
          /\ \/ pc[x] \in {"held", "settling", "settled", "unsettled"}
             \/ pc[x] = "cancelled" /\ cost[x] > 0
      BY <1>1, <1>5, PeriodType DEF LetThrough, KeyInv
    <2>2. /\ PointFits(x)
          /\ worst[x] \in 0..MaxClaim /\ cost[x] \in 0..MaxClaim
      BY <2>1, OneRequest
    <2>3. x \in counted
      BY <2>1 DEF CountedIn, Passed
    <2>4. claims[x] = put[x][claimedIn[x]]
      BY <2>1 DEF ClaimsIn
    <2>5. Claimed(x) \/ (Paid(x) /\ pc[x] # "held")
      BY <2>1, <2>2 DEF PointFits, Unwritten
    <2>6. Claimed(x) => claims[x] = worst[x]
      BY <2>4 DEF Claimed
    <2>7. Paid(x) => claims[x] \in cost[x]..worst[x]
      BY <2>4 DEF Paid, Reduced
    <2>8. Billable[x] = IF pc[x] = "held" THEN worst[x] ELSE cost[x]
      BY <2>1 DEF Billable
    <2>9. cost[x] <= worst[x]
      BY <2>2 DEF PointFits
    <2> HIDE DEF claims, counted
    <2> QED BY <2>2, <2>3, <2>5, <2>6, <2>7, <2>8, <2>9
  <1>6. /\ \A x \in counted : claims[x] \in 0..MaxClaim
        /\ through \in SUBSET Requests
    BY <1>3, <1>4 DEF LetThrough
  <1> HIDE DEF through, counted, claims
  <1>7. Total(Billable, through) <= Total(claims, counted)
    BY <1>4, <1>5, <1>6, TotalCovered
  <1>8. /\ Total(claims, counted) \in Nat /\ CarriedInto(Period) \in Nat
        /\ Total(Billable, through) \in Nat
    <2>1. Total(Carried(Period), Requests) \in Nat
      BY <1>3, UnitsFinite
    <2>2. IsFiniteSet(through)
      BY <1>6, FS_Subset
    <2> QED BY <1>4, <1>5, <1>6, <2>1, <2>2, UnitsFinite DEF CarriedInto, Carried
  <1> QED BY <1>2, <1>7, <1>8 DEF MonthWithinCap, through

\* The requests admitted in a month cost the key at most its cap and what was
\* refunded into the month, however many requests pass the check together and
\* wherever the month turns among them.
THEOREM CapHoldsEveryMonth == Spec => []MonthWithinCap
  BY KeyInvariance, InvMonthWithinCap, PTL

LEMMA InvMonthIsComplete == KeyInv => MonthIsComplete
  <1> SUFFICES ASSUME KeyInv PROVE MonthIsComplete
    OBVIOUS
  <1> DEFINE all == [r \in Requests |-> put[r][Period]]
             negated == [r \in Requests |-> - put[r][Period]]
  <1>1. /\ Period \in Periods /\ Period >= Period
        /\ \A x \in Requests : Signed(x) /\ put[x][Period] \in Int
    <2>1. Period \in Periods /\ Period >= Period
      BY PeriodType DEF KeyInv
    <2> QED BY <2>1, KeyBudgetAssumption DEF KeyInv, Fits, RequestFits, TypeOK
  <1>2. Total(all, Requests) = Total(ClaimsIn(Period), Requests)
    <2>1. /\ \A x \in Requests : all[x] \in Int /\ ClaimsIn(Period)[x] \in Int
          /\ \A x \in Requests : \/ all[x] = ClaimsIn(Period)[x]
                                 \/ all[x] <= 0 /\ ClaimsIn(Period)[x] <= 0
      BY <1>1 DEF Signed, ClaimsIn
    <2> HIDE DEF all
    <2> QED BY <2>1, TotalClipped
  <1>3. Total(negated, Requests) = Total(Carried(Period), Requests)
    <2>1. /\ \A x \in Requests : negated[x] \in Int /\ Carried(Period)[x] \in Int
          /\ \A x \in Requests : \/ negated[x] = Carried(Period)[x]
                                 \/ negated[x] <= 0 /\ Carried(Period)[x] <= 0
      BY <1>1 DEF Signed, Carried
    <2> HIDE DEF negated
    <2> QED BY <2>1, TotalClipped
  <1>4. usd[Period] = Total(ClaimsIn(Period), Requests) - Total(Carried(Period), Requests)
    BY <1>1 DEF KeyInv, Books, NumberIsComplete
  <1>5. usd[Period] = Total(all, Requests) - Total(negated, Requests)
    BY <1>2, <1>3, <1>4
  <1> QED BY <1>5 DEF MonthIsComplete

\* The number of the current month is never dropped before the month is over,
\* whatever the length of the month and whenever its last increment was.
THEOREM MonthsAreComplete == Spec => []MonthIsComplete
  BY KeyInvariance, InvMonthIsComplete, PTL

LEMMA InvPaidOnce == KeyInv => PaidOnce
  BY DEF KeyInv, Fits, RequestFits, PointFits, PaidOnce, Paid, Reduced, Claimed, Unwritten

\* A settled request has put exactly its cost into the ledgers of all months
\* together, also when its claim and its settlement went to different months.
THEOREM SettledPaidOnce == Spec => []PaidOnce
  BY KeyInvariance, InvPaidOnce, PTL

-----------------------------------------------------------------------------
(* What a refusal leaves behind *)

Refused == {r \in Requests : pc[r] = "refused"}
Nets == [r \in Requests |-> Net(r)]

\* A step that refuses nobody and writes nothing for a refused request.
LEMMA NobodyRefused ==
  ASSUME RefusalsLeakOpenly, Refused' = Refused, leaked' = leaked,
         \A x \in Refused : put'[x] = put[x]
  PROVE  RefusalsLeakOpenly'
  <1>1. \A x \in Refused : Nets'[x] = Nets[x]
    BY DEF Refused, Nets, Net
  <1>2. Total(Nets', Refused') = Total(Nets, Refused)
    BY <1>1, TotalLocal
  <1> QED BY <1>2 DEF RefusalsLeakOpenly, Refused, Nets

\* A refusal adds what the request still has in the ledgers of all months:
\* nothing if the hand-back went through, at most the claim if it is unknown.
LEMMA OneRefused ==
  ASSUME KeyInv, RefusalsLeakOpenly, NEW r \in Requests,
         pc[r] = "handing_back", pc' = [pc EXCEPT ![r] = "refused"],
         put' = put, leaked' \in Nat, Net(r) \in 0..(leaked' - leaked)
  PROVE  RefusalsLeakOpenly'
  <1> USE KeyBudgetAssumption
  <1>1. /\ Refused' = Refused \cup {r} /\ r \notin Refused
        /\ IsFiniteSet(Refused)
    BY FS_Subset DEF Refused, KeyInv, TypeOK
  <1>2. \A x \in Refused \cup {r} : Nets[x] \in 0..MaxClaim
    <2>1. ASSUME NEW x \in Refused \cup {r} PROVE Net(x) \in 0..MaxClaim
      <3>1. PointFits(x) /\ worst[x] \in 0..MaxClaim /\ pc[x] \in {"refused", "handing_back"}
        BY <2>1, OneRequest DEF Refused
      <3> QED BY <3>1 DEF PointFits, Claimed, Returned, Reduced
    <2> QED BY <2>1 DEF Nets, Refused
  <1>3. Total(Nets, Refused \cup {r}) = Total(Nets, Refused) + Nets[r]
    BY <1>1, <1>2, TotalAdd
  <1>4. Total(Nets, Refused) \in Nat
    BY <1>1, <1>2, UnitsFinite
  <1>5. Total(Nets, Refused) <= leaked /\ leaked \in Nat /\ Nets[r] = Net(r)
    BY DEF RefusalsLeakOpenly, Refused, Nets, KeyInv, TypeOK
  <1>6. Nets' = Nets
    BY DEF Nets, Net
  <1>7. Total(Nets', Refused') <= leaked'
    BY <1>1, <1>3, <1>4, <1>5, <1>6
  <1> QED BY <1>7 DEF RefusalsLeakOpenly, Refused, Nets

LEMMA NextLeaksOpenly ==
  KeyInv /\ RefusalsLeakOpenly /\ [Next]_vars => RefusalsLeakOpenly'
  <1> SUFFICES ASSUME KeyInv, RefusalsLeakOpenly, [Next]_vars
               PROVE  RefusalsLeakOpenly'
    OBVIOUS
  <1> USE DEF request, redis
  <1>1. ASSUME NEW r \in Requests, Execute(r) \/ LoseReply(r)
        PROVE  RefusalsLeakOpenly'
    <2>1. wire[r].what \in Commands /\ pc[r] # "refused"
      BY <1>1 DEF Execute, LoseReply, Executed, Apply, Get, KeyInv, Fits, RequestFits,
                  PointFits, Commands, Waiting
    <2>2. /\ Refused' = Refused /\ leaked' = leaked
          /\ \A x \in Requests \ {r} : put'[x] = put[x]
      BY <1>1 DEF Execute, LoseReply, Executed, Apply, Get, Refused, KeyInv, TypeOK
    <2>3. \A x \in Refused : put'[x] = put[x]
      BY <2>1, <2>2 DEF Refused
    <2> QED BY <2>2, <2>3, NobodyRefused
  <1>2. ASSUME NEW r \in Requests,
               \/ LoseCommand(r) \/ Call(r) \/ Cancel(r)
               \/ Admit(r) \/ CheckFailed(r)
               \/ Granted(r) \/ OverCap(r) \/ ReserveFailed(r)
               \/ Settled(r) \/ SettleFailed(r)
        PROVE  RefusalsLeakOpenly'
    <2>1. Refused' = Refused /\ leaked' = leaked /\ put' = put
      BY <1>2 DEF LoseCommand, Call, EnforceBudget, Reserve, Settle, Cancel, Admit,
                  CheckFailed, Granted, OverCap, ReserveFailed, Settled, SettleFailed,
                  Refused, Goto, Waiting, KeyInv, TypeOK
    <2> QED BY <2>1, NobodyRefused
  <1>3. ASSUME NEW r \in Requests, HandedBack(r)
        PROVE  RefusalsLeakOpenly'
    <2>1. Net(r) = 0 /\ leaked' = leaked /\ leaked \in Nat
      BY <1>3 DEF HandedBack, Received, KeyInv, TypeOK, Fits, RequestFits, PointFits,
                  Returned, Reduced
    <2>2. Net(r) \in 0..(leaked' - leaked) /\ leaked' \in Nat
      BY <2>1
    <2> QED BY <1>3, <2>2, OneRefused DEF HandedBack, Goto
  <1>4. ASSUME NEW r \in Requests, HandBackFailed(r)
        PROVE  RefusalsLeakOpenly'
    <2>1. /\ worst[r] \in Nat /\ leaked \in Nat /\ leaked' = leaked + worst[r]
          /\ Net(r) = 0 \/ Net(r) = worst[r]
      BY <1>4 DEF HandBackFailed, KeyInv, TypeOK, Fits, RequestFits, PointFits,
                  Claimed, Returned, Reduced
    <2>2. Net(r) \in 0..(leaked' - leaked) /\ leaked' \in Nat
      BY <2>1
    <2> QED BY <1>4, <2>2, OneRefused DEF HandBackFailed, Goto
  <1>5. CASE Tick \/ UNCHANGED vars
    <2>1. Refused' = Refused /\ leaked' = leaked /\ put' = put
      BY <1>5 DEF vars, Refused, Tick
    <2> QED BY <2>1, NobodyRefused
  <1> QED BY <1>1, <1>2, <1>3, <1>4, <1>5 DEF Next, Redis, Resume

LEMMA InitLeaksOpenly == Init => RefusalsLeakOpenly
  <1> SUFFICES ASSUME Init PROVE RefusalsLeakOpenly
    OBVIOUS
  <1>1. Total(Nets, Refused) = 0
    BY TotalZero DEF Init, Refused
  <1> QED BY <1>1 DEF Init, RefusalsLeakOpenly, Refused, Nets

\* Whatever a refused request still has in the ledgers of all months, the leak
\* counter shows.
THEOREM KeyLeaksAreReported == Spec => []RefusalsLeakOpenly
  BY KeyInvariance, InitLeaksOpenly, NextLeaksOpenly, PTL DEF Spec

=============================================================================
