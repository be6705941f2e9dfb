------------------------- MODULE FallbackRouterProofs -------------------------
(***************************************************************************)
(* Theorems about FallbackRouter, for any number of requests, any chain of *)
(* distinct providers, any sets of providers out of budget, any number of  *)
(* retries, any threshold and any cooldown.                                *)
(*                                                                         *)
(* A request's step touches its own row, its own calls and the breakers it *)
(* asks or reports to.  So the invariant is a conjunct about each request  *)
(* alone (RequestFits), and the work of a step is the walk (MoveOn), which *)
(* the first call and every fallback share.                                *)
(***************************************************************************)
EXTENDS FallbackRouter, FiniteSetTheorems, WellFoundedInduction, TLAPS

\* How often a request that stands at q may have called provider p.  The hops
\* ahead of it have not been called, which is what makes the next call fit.
CallsFit(q, made) ==
  /\ \A i \in DOMAIN Chain : i > q.hop => made[Chain[i]] = 0
  /\ \A i \in DOMAIN Chain : i = q.hop => made[Chain[i]] = q.retry + 1
  /\ \A p \in Providers : made[p] <= IF p \in q.skip THEN 0 ELSE Retries + 1

\* A request in the router is at a hop that is not out of budget, and its
\* caller has heard from nobody before the commitment and from this hop alone
\* after it.
RequestFits(q, made) ==
  /\ q.pc = "idle" => q = Idle /\ made = NoCalls
  /\ q.pc # "idle" => /\ q.hop \in DOMAIN Chain
                      /\ Chain[q.hop] \notin q.skip
                      /\ CallsFit(q, made)
  /\ q.pc = "backoff" => q.retry < Retries
  /\ q.pc = "streaming" => q.heard \subseteq {Chain[q.hop]}
  /\ q.pc # "streaming" => q.heard = {}

RouterInv == TypeOK /\ \A r \in Requests : RequestFits(req[r], calls[r])

-----------------------------------------------------------------------------
(* The breakers' methods, the chain and the walk along it. *)

\* The methods of a breaker, and the clock, keep it a breaker.
LEMMA BreakersStay ==
  ASSUME NEW b \in Breakers
  PROVE  /\ NewBreaker \in Breakers
         /\ UpdateState(AllowRequest(b)) \in Breakers
         /\ UpdateState(RecordSuccess(b)) \in Breakers
         /\ UpdateState(RecordFailure(b)) \in Breakers
         /\ Elapse(b) \in Breakers
  <1>1. \A c \in Breakers : UpdateState(c) \in Breakers
    BY DEF UpdateState, Breakers
  <1>2. AllowRequest(b) \in Breakers
    BY <1>1, BreakerAssumption DEF AllowRequest, Breakers, Ages
  <1>3. NewBreaker \in Breakers /\ RecordSuccess(b) \in Breakers
    BY BreakerAssumption DEF RecordSuccess, NewBreaker, Breakers
  <1>4. RecordFailure(b) \in Breakers
    BY BreakerAssumption DEF RecordFailure, Breakers, Ages
  <1>5. \A a \in Ages \cup {NoTime} : Older(a) \in Ages \cup {NoTime}
    BY BreakerAssumption DEF Older, Ages, NoTime
  <1>6. Elapse(b) \in Breakers
    BY <1>5 DEF Elapse, Breakers
  <1> QED BY <1>1, <1>2, <1>3, <1>4, <1>6

\* A ghost's age stays an age.
LEMMA AgesStay ==
  /\ 0 \in Ages /\ Cooldown \in Ages
  /\ \A a \in Ages : Older(a) \in Ages
  BY BreakerAssumption DEF Older, Ages

\* A hop is a number, and names a provider that no other hop names.
LEMMA ChainType ==
  /\ Len(Chain) \in Nat /\ DOMAIN Chain = 1..Len(Chain)
  /\ \A i \in DOMAIN Chain : Chain[i] \in Providers
  /\ \A i, j \in DOMAIN Chain : Chain[i] = Chain[j] => i = j
  <1>1. Len(Chain) \in Nat /\ DOMAIN Chain = 1..Len(Chain)
    BY RouterAssumption
  <1> QED BY <1>1, RouterAssumption DEF Providers

\* A set of numbers that is not empty has a least member.
LEMMA LeastMember ==
  ASSUME NEW I \in SUBSET Nat, I # {}
  PROVE  \E i \in I : \A j \in I : i <= j
  <1>1. IsWellFoundedOn(OpToRel(<, Nat), Nat)
    BY NatLessThanWellFounded
  <1>2. PICK i \in I : \A j \in I : ~ (<<j, i>> \in OpToRel(<, Nat))
    BY <1>1, WFMin
  <1>3. \A j \in I : ~ (j < i)
    BY <1>2 DEF OpToRel
  <1> QED BY <1>3

Rows == [pc : Points, kind : {"chat", "stream"}, skip : SUBSET Providers,
         hop : 0..Len(Chain), retry : 0..Retries, heard : SUBSET Providers]

\* The walk stops at a hop ahead whose breaker admits, or past the chain, and
\* no hop it has passed admits.
LEMMA WalkStops ==
  ASSUME NEW q \in Rows, NEW bs
  PROVE  /\ Ahead(q) \subseteq DOMAIN Chain
         /\ \A i \in Ahead(q) : i > q.hop /\ Chain[i] \notin q.skip
         /\ Stop(q, bs) \in Nat
         /\ Stop(q, bs) <= Len(Chain)
              => Stop(q, bs) \in Ahead(q) /\ Admits(bs[Chain[Stop(q, bs)]])
         /\ \A j \in Ahead(q) : Admits(bs[Chain[j]]) => Stop(q, bs) <= j
  <1> DEFINE admitting == {i \in Ahead(q) : Admits(bs[Chain[i]])}
             stop == Stop(q, bs)
  <1>1. /\ q.hop \in Nat /\ Len(Chain) \in Nat /\ DOMAIN Chain = 1..Len(Chain)
    BY ChainType DEF Rows
  <1>2. /\ Ahead(q) \subseteq DOMAIN Chain
        /\ \A i \in Ahead(q) : i \in Nat /\ i > q.hop /\ Chain[i] \notin q.skip
    BY <1>1 DEF Ahead
  <1>3. CASE admitting = {}
    <2>1. stop = Len(Chain) + 1
      BY <1>3 DEF Stop
    <2> QED BY <1>1, <1>2, <1>3, <2>1
  <1>4. CASE admitting # {}
    <2>1. stop = CHOOSE i \in admitting : \A j \in admitting : i <= j
      BY <1>4 DEF Stop
    <2>2. \E i \in admitting : \A j \in admitting : i <= j
      <3>1. admitting \in SUBSET Nat
        BY <1>2
      <3> HIDE DEF admitting
      <3> QED BY <1>4, <3>1, LeastMember
    <2>3. stop \in admitting /\ \A j \in admitting : stop <= j
      <3> HIDE DEF admitting, stop
      <3> QED BY <2>1, <2>2
    <2>4. stop \in Ahead(q) /\ Admits(bs[Chain[stop]])
      BY <2>3
    <2>5. \A j \in Ahead(q) : Admits(bs[Chain[j]]) => stop <= j
      BY <2>3
    <2> HIDE DEF admitting, stop
    <2>6. stop \in Nat
      BY <1>2, <2>4
    <2> QED BY <1>2, <2>4, <2>5, <2>6 DEF stop
  <1> QED BY <1>3, <1>4

-----------------------------------------------------------------------------
(* The walk to the next provider: MoveOn. *)

\* What a walk asks of the request it is made for: of the hops ahead none has
\* been called, and nobody has been heard.
MayMove(q, made) ==
  /\ q \in Rows
  /\ made \in [Providers -> Nat]
  /\ \A i \in DOMAIN Chain : i > q.hop => made[Chain[i]] = 0
  /\ \A p \in Providers : made[p] <= IF p \in q.skip THEN 0 ELSE Retries + 1
  /\ q.heard = {}

\* The walk leads a request that may move to a state that fits: a first call of
\* a hop ahead that is not out of budget, or out of the router.
LEMMA MoveFits ==
  ASSUME NEW r \in Requests, NEW q, NEW bs \in [Providers -> Breakers], NEW made,
         TypeOK, MayMove(q, made), MoveOn(r, q, bs, made)
  PROVE  /\ breakers' \in [Providers -> Breakers]
         /\ req' \in [Requests -> Rows]
         /\ calls' \in [Requests -> [Providers -> Nat]]
         /\ sinceProbe' \in [Providers -> Ages]
         /\ \A s \in Requests : s # r => req'[s] = req[s] /\ calls'[s] = calls[s]
         /\ RequestFits(req'[r], calls'[r])
  <1> DEFINE stop == Stop(q, bs)
             to == Chain[stop]
  <1>1. /\ q \in Rows /\ made \in [Providers -> Nat]
        /\ req \in [Requests -> Rows] /\ calls \in [Requests -> [Providers -> Nat]]
        /\ sinceProbe \in [Providers -> Ages]
    BY DEF MayMove, TypeOK, Rows
  <1>2. breakers' \in [Providers -> Breakers]
    <2>1. \A p \in Providers : UpdateState(AllowRequest(bs[p])) \in Breakers
      BY BreakersStay
    <2> QED BY <2>1 DEF MoveOn
  <1>3. CASE stop <= Len(Chain)
    <2> DEFINE u == [q EXCEPT !.pc = "calling", !.hop = stop, !.retry = 0]
               now == [made EXCEPT ![to] = @ + 1]
    <2>1. /\ req' = [req EXCEPT ![r] = u]
          /\ calls' = [calls EXCEPT ![r] = now]
          /\ sinceProbe' \in {sinceProbe, [sinceProbe EXCEPT ![to] = 0]}
      BY <1>3 DEF MoveOn
    <2>2. /\ stop \in DOMAIN Chain /\ stop > q.hop /\ to \notin q.skip
          /\ stop \in Nat
      BY <1>1, <1>3, WalkStops
    <2>3. to \in Providers
      BY <2>2, ChainType
    <2>4. stop \in 0..Len(Chain) /\ 0 \in 0..Retries /\ "calling" \in Points
      <3>1. Len(Chain) \in Nat /\ Retries \in Nat
        BY ChainType, RouterAssumption
      <3> QED BY <1>3, <2>2, <3>1 DEF Points
    <2>5. u \in Rows
      <3> HIDE DEF stop
      <3> QED BY <1>1, <2>4 DEF Rows
    <2>6. /\ u.pc = "calling" /\ u.hop = stop /\ u.retry = 0
          /\ u.skip = q.skip /\ u.heard = {}
      <3> HIDE DEF stop
      <3> QED BY <1>1 DEF Rows, MayMove
    <2>7. made[to] = 0
      BY <2>2 DEF MayMove
    <2>8. /\ now \in [Providers -> Nat] /\ now[to] = 1
          /\ \A p \in Providers : p # to => now[p] = made[p]
      <3> HIDE DEF to
      <3> QED BY <1>1, <2>3, <2>7
    <2>9. RequestFits(u, now)
      <3>1. \A i \in DOMAIN Chain : i > u.hop => now[Chain[i]] = 0
        <4> SUFFICES ASSUME NEW i \in DOMAIN Chain, i > stop PROVE now[Chain[i]] = 0
          BY <2>6
        <4>1. i \in Nat /\ q.hop \in Nat /\ i > q.hop /\ i # stop
          <5>1. i \in Nat /\ q.hop \in Nat
            BY <1>1, ChainType DEF Rows
          <5> HIDE DEF stop
          <5> QED BY <2>2, <5>1
        <4>2. Chain[i] # to /\ Chain[i] \in Providers
          BY <2>2, <4>1, ChainType
        <4> QED BY <2>8, <4>1, <4>2 DEF MayMove
      <3>2. \A i \in DOMAIN Chain : i = u.hop => now[Chain[i]] = u.retry + 1
        BY <2>6, <2>8
      <3>3. \A p \in Providers : now[p] <= IF p \in u.skip THEN 0 ELSE Retries + 1
        <4> SUFFICES ASSUME NEW p \in Providers
                     PROVE  now[p] <= IF p \in q.skip THEN 0 ELSE Retries + 1
          BY <2>6
        <4>1. CASE p = to
          BY <2>2, <2>8, <4>1, RouterAssumption
        <4>2. CASE p # to
          BY <2>8, <4>2 DEF MayMove
        <4> QED BY <4>1, <4>2
      <3>4. CallsFit(u, now)
        <4> HIDE DEF u, now
        <4> QED BY <3>1, <3>2, <3>3 DEF CallsFit
      <3>5. u.hop \in DOMAIN Chain /\ Chain[u.hop] \notin u.skip
        BY <2>2, <2>6
      <3> HIDE DEF u, now
      <3> QED BY <2>6, <3>4, <3>5 DEF RequestFits
    <2>10. sinceProbe' \in [Providers -> Ages]
      BY <1>1, <2>1, AgesStay
    <2> HIDE DEF u, now
    <2> QED BY <1>1, <1>2, <2>1, <2>5, <2>8, <2>9, <2>10
  <1>4. CASE ~ (stop <= Len(Chain))
    <2>1. Leave(r) /\ UNCHANGED sinceProbe
      BY <1>4 DEF MoveOn
    <2>2. Idle \in Rows /\ NoCalls \in [Providers -> Nat] /\ RequestFits(Idle, NoCalls)
      BY ChainType, RouterAssumption DEF Idle, NoCalls, Rows, Points, RequestFits
    <2> QED BY <1>1, <1>2, <2>1, <2>2 DEF Leave
  <1> QED BY <1>3, <1>4


-----------------------------------------------------------------------------
(* The invariant. *)

\* A step of one request that leaves its row and its calls fitting, and the
\* rest of the state within its types, keeps the invariant.
LEMMA OneRequest ==
  ASSUME RouterInv, NEW r \in Requests,
         breakers' \in [Providers -> Breakers],
         req' \in [Requests -> Rows],
         calls' \in [Requests -> [Providers -> Nat]],
         inRow' \in [Providers -> 0..FailureThreshold],
         sinceProbe' \in [Providers -> Ages],
         sinceFailure' \in [Providers -> Ages],
         \A s \in Requests : s # r => req'[s] = req[s] /\ calls'[s] = calls[s],
         RequestFits(req'[r], calls'[r])
  PROVE  RouterInv'
  <1>1. TypeOK'
    BY DEF TypeOK, Rows
  <1>2. \A s \in Requests : RequestFits(req'[s], calls'[s])
    BY DEF RouterInv
  <1> QED BY <1>1, <1>2 DEF RouterInv

\* A request that is given up may move on: the hops ahead are not called yet.
LEMMA MayMoveOn ==
  ASSUME RouterInv, NEW r \in Requests, At(r, "calling")
  PROVE  /\ MayMove(req[r], calls[r])
         /\ req[r].hop \in DOMAIN Chain /\ Provider(r) \in Providers
  <1>1. req[r] \in Rows /\ calls[r] \in [Providers -> Nat] /\ RequestFits(req[r], calls[r])
    BY DEF RouterInv, TypeOK, Rows
  <1> QED BY <1>1, ChainType DEF At, RequestFits, CallsFit, MayMove, Provider

\* Out of the router a request is as it was before it came.
LEMMA OutFits ==
  /\ Idle \in Rows /\ NoCalls \in [Providers -> Nat]
  /\ RequestFits(Idle, NoCalls)
  BY ChainType, RouterAssumption DEF Idle, NoCalls, Rows, Points, RequestFits

\* So may one that begins.
LEMMA MayBegin ==
  ASSUME NEW k \in Kinds, NEW s \in Skips
  PROVE  LET q == [Idle EXCEPT !.kind = k, !.skip = s]
         IN  MayMove(q, NoCalls) /\ q.hop = 0 /\ q.skip = s
  <1> DEFINE q == [Idle EXCEPT !.kind = k, !.skip = s]
  <1>1. k \in {"chat", "stream"} /\ s \in SUBSET Providers
    BY RouterAssumption
  <1>2. q \in Rows
    BY <1>1, OutFits DEF Rows
  <1>3. NoCalls \in [Providers -> Nat] /\ \A p \in Providers : NoCalls[p] = 0
    BY DEF NoCalls
  <1>4. \A i \in DOMAIN Chain : NoCalls[Chain[i]] = 0
    BY <1>3, ChainType
  <1>5. \A p \in Providers : NoCalls[p] <= IF p \in q.skip THEN 0 ELSE Retries + 1
    BY <1>3, RouterAssumption
  <1>6. q.heard = {} /\ q.hop = 0 /\ q.skip = s
    <2>1. Idle.heard = {} /\ Idle.hop = 0
      BY DEF Idle
    <2> QED BY <2>1, OutFits DEF Rows
  <1> HIDE DEF q
  <1> QED BY <1>2, <1>3, <1>4, <1>5, <1>6 DEF MayMove, q

\* What is recorded of a provider's failure, or of a success, stays in its type.
LEMMA RecordsStay ==
  ASSUME TypeOK, NEW p \in Providers
  PROVE  /\ Succeeded(p) \in [Providers -> Breakers]
         /\ AfterFailure(p) \in [Providers -> Breakers]
         /\ Failed(p) => /\ sinceFailure' \in [Providers -> Ages]
                         /\ inRow' \in [Providers -> 0..FailureThreshold]
         /\ [inRow EXCEPT ![p] = 0] \in [Providers -> 0..FailureThreshold]
  <1>1. breakers \in [Providers -> Breakers] /\ breakers[p] \in Breakers
    BY DEF TypeOK
  <1>2. Succeeded(p) \in [Providers -> Breakers]
    BY <1>1, BreakersStay DEF Succeeded
  <1>3. AfterFailure(p) \in [Providers -> Breakers]
    BY <1>1, BreakersStay DEF AfterFailure
  <1>4. ASSUME Failed(p) PROVE sinceFailure' \in [Providers -> Ages]
    BY <1>4, AgesStay DEF Failed, TypeOK
  <1>5. ASSUME Failed(p) PROVE inRow' \in [Providers -> 0..FailureThreshold]
    <2>1. \A n \in 0..FailureThreshold :
            (IF n < FailureThreshold THEN n + 1 ELSE n) \in 0..FailureThreshold
      BY BreakerAssumption
    <2> QED BY <1>5, <2>1 DEF Failed, TypeOK
  <1>6. [inRow EXCEPT ![p] = 0] \in [Providers -> 0..FailureThreshold]
    BY BreakerAssumption DEF TypeOK
  <1> QED BY <1>2, <1>3, <1>4, <1>5, <1>6

\* A provider that is given up: its failure is recorded and the walk goes on.
LEMMA GiveUpKeeps ==
  ASSUME RouterInv, NEW r \in Requests, At(r, "calling"), GiveUp(r)
  PROVE  RouterInv'
  <1> DEFINE p == Provider(r)
  <1>1. MayMove(req[r], calls[r]) /\ p \in Providers
    BY MayMoveOn
  <1>2. TypeOK
    BY DEF RouterInv
  <1>3. /\ AfterFailure(p) \in [Providers -> Breakers]
        /\ sinceFailure' \in [Providers -> Ages]
        /\ inRow' \in [Providers -> 0..FailureThreshold]
    BY <1>1, <1>2, RecordsStay DEF GiveUp
  <1>4. MoveOn(r, req[r], AfterFailure(p), calls[r])
    BY DEF GiveUp
  <1> HIDE DEF p
  <1>5. /\ breakers' \in [Providers -> Breakers]
        /\ req' \in [Requests -> Rows]
        /\ calls' \in [Requests -> [Providers -> Nat]]
        /\ sinceProbe' \in [Providers -> Ages]
        /\ \A s \in Requests : s # r => req'[s] = req[s] /\ calls'[s] = calls[s]
        /\ RequestFits(req'[r], calls'[r])
    BY <1>1, <1>2, <1>3, <1>4, MoveFits
  <1> QED BY <1>3, <1>5, OneRequest

LEMMA BeginKeeps ==
  ASSUME RouterInv, NEW r \in Requests, Begin(r)
  PROVE  RouterInv'
  <1>1. PICK k \in Kinds, s \in Skips :
          MoveOn(r, [Idle EXCEPT !.kind = k, !.skip = s], breakers, NoCalls)
    BY DEF Begin
  <1> DEFINE q == [Idle EXCEPT !.kind = k, !.skip = s]
  <1>2. MayMove(q, NoCalls)
    BY MayBegin
  <1>3. MoveOn(r, q, breakers, NoCalls)
    BY <1>1
  <1>4. /\ TypeOK /\ breakers \in [Providers -> Breakers]
        /\ inRow' = inRow /\ inRow \in [Providers -> 0..FailureThreshold]
        /\ sinceFailure' = sinceFailure /\ sinceFailure \in [Providers -> Ages]
    BY DEF Begin, RouterInv, TypeOK
  <1> HIDE DEF q
  <1>5. /\ breakers' \in [Providers -> Breakers]
        /\ req' \in [Requests -> Rows]
        /\ calls' \in [Requests -> [Providers -> Nat]]
        /\ sinceProbe' \in [Providers -> Ages]
        /\ \A t \in Requests : t # r => req'[t] = req[t] /\ calls'[t] = calls[t]
        /\ RequestFits(req'[r], calls'[r])
    BY <1>2, <1>3, <1>4, MoveFits
  <1> QED BY <1>4, <1>5, OneRequest

\* A request that leaves, whatever it reports.
LEMMA LeaveKeeps ==
  ASSUME RouterInv, NEW r \in Requests, Leave(r),
         breakers' \in [Providers -> Breakers],
         inRow' \in [Providers -> 0..FailureThreshold],
         sinceProbe' = sinceProbe,
         sinceFailure' \in [Providers -> Ages]
  PROVE  RouterInv'
  <1>1. /\ req \in [Requests -> Rows] /\ calls \in [Requests -> [Providers -> Nat]]
        /\ sinceProbe' \in [Providers -> Ages]
    BY DEF RouterInv, TypeOK, Rows
  <1>2. /\ req' \in [Requests -> Rows]
        /\ calls' \in [Requests -> [Providers -> Nat]]
        /\ \A s \in Requests : s # r => req'[s] = req[s] /\ calls'[s] = calls[s]
        /\ req'[r] = Idle /\ calls'[r] = NoCalls
    BY <1>1, OutFits DEF Leave
  <1> QED BY <1>1, <1>2, OutFits, OneRequest


LEMMA InitRouterInv == Init => RouterInv
  <1> SUFFICES ASSUME Init PROVE RouterInv
    OBVIOUS
  <1>1. NewBreaker \in Breakers /\ 0 \in 0..FailureThreshold
    BY BreakerAssumption DEF NewBreaker, Breakers
  <1>2. TypeOK
    BY <1>1, OutFits, AgesStay DEF Init, TypeOK, Rows
  <1> QED BY <1>2, OutFits DEF Init, RouterInv

LEMMA NextRouterInv == RouterInv /\ [Next]_vars => RouterInv'
  <1> SUFFICES ASSUME RouterInv, [Next]_vars PROVE RouterInv'
    OBVIOUS
  <1>0. /\ TypeOK
        /\ breakers \in [Providers -> Breakers]
        /\ req \in [Requests -> Rows]
        /\ calls \in [Requests -> [Providers -> Nat]]
        /\ inRow \in [Providers -> 0..FailureThreshold]
        /\ sinceProbe \in [Providers -> Ages] /\ sinceFailure \in [Providers -> Ages]
        /\ \A r \in Requests : RequestFits(req[r], calls[r])
    BY DEF RouterInv, TypeOK, Rows
  <1>1. ASSUME NEW r \in Requests, Begin(r) PROVE RouterInv'
    BY <1>1, BeginKeeps
  <1>2. ASSUME NEW r \in Requests, Backoff(r) PROVE RouterInv'
    <2> DEFINE u == [req[r] EXCEPT !.pc = "backoff"]
    <2>1. /\ req' = [req EXCEPT ![r] = u]
          /\ UNCHANGED <<breakers, calls, inRow, sinceProbe, sinceFailure>>
      BY <1>2 DEF Backoff, ages
    <2>2. /\ req[r] \in Rows /\ RequestFits(req[r], calls[r])
          /\ req[r].pc = "calling" /\ req[r].retry < Retries
      BY <1>0, <1>2 DEF Backoff, At
    <2>3. /\ u \in Rows /\ u.pc = "backoff"
          /\ u.hop = req[r].hop /\ u.retry = req[r].retry
          /\ u.skip = req[r].skip /\ u.heard = req[r].heard
      BY <2>2 DEF Rows, Points
    <2> HIDE DEF u
    <2>4. CallsFit(u, calls[r]) /\ u.hop \in DOMAIN Chain /\ Chain[u.hop] \notin u.skip
      BY <2>2, <2>3 DEF RequestFits, CallsFit
    <2>5. RequestFits(u, calls[r])
      BY <2>2, <2>3, <2>4 DEF RequestFits
    <2>6. req' \in [Requests -> Rows]
      BY <1>0, <2>1, <2>3
    <2>7. /\ \A s \in Requests : s # r => req'[s] = req[s] /\ calls'[s] = calls[s]
          /\ RequestFits(req'[r], calls'[r])
      BY <1>0, <2>1, <2>5
    <2> QED BY <1>0, <2>1, <2>6, <2>7, OneRequest
  <1>3. ASSUME NEW r \in Requests, Retry(r) PROVE RouterInv'
    <2> DEFINE p == Provider(r)
               u == [req[r] EXCEPT !.pc = "calling", !.retry = @ + 1]
               now == [calls[r] EXCEPT ![p] = @ + 1]
    <2>1. /\ req' = [req EXCEPT ![r] = u]
          /\ calls' = [calls EXCEPT ![r] = now]
          /\ UNCHANGED <<breakers, inRow, sinceProbe, sinceFailure>>
      BY <1>3 DEF Retry, ages
    <2>2. /\ req[r] \in Rows /\ RequestFits(req[r], calls[r])
          /\ calls[r] \in [Providers -> Nat]
          /\ req[r].pc = "backoff"
      BY <1>0, <1>3 DEF Retry, At
    <2>3. /\ req[r].retry < Retries /\ CallsFit(req[r], calls[r])
          /\ req[r].hop \in DOMAIN Chain /\ Chain[req[r].hop] \notin req[r].skip
          /\ p = Chain[req[r].hop] /\ p \in Providers
          /\ req[r].heard = {}
      BY <2>2, ChainType DEF RequestFits, Provider
    <2>4. req[r].retry + 1 \in 0..Retries /\ req[r].retry \in Nat
      BY <2>2, <2>3, RouterAssumption DEF Rows
    <2>5. /\ u \in Rows /\ u.pc = "calling"
          /\ u.hop = req[r].hop /\ u.retry = req[r].retry + 1
          /\ u.skip = req[r].skip /\ u.heard = {}
      BY <2>2, <2>3, <2>4 DEF Rows, Points
    <2>6. calls[r][p] = req[r].retry + 1
      BY <2>3 DEF CallsFit
    <2>7. /\ now \in [Providers -> Nat] /\ now[p] = calls[r][p] + 1
          /\ \A o \in Providers : o # p => now[o] = calls[r][o]
      <3> HIDE DEF p
      <3> QED BY <2>2, <2>3
    <2> HIDE DEF u, now, p
    <2>8. \A i \in DOMAIN Chain : i > u.hop => now[Chain[i]] = 0
      <3> SUFFICES ASSUME NEW i \in DOMAIN Chain, i > u.hop PROVE now[Chain[i]] = 0
        OBVIOUS
      <3>1. i # req[r].hop /\ Chain[i] # p /\ Chain[i] \in Providers
        <4>1. i \in Nat /\ u.hop \in Nat
          BY <2>3, <2>5, ChainType
        <4> QED BY <2>3, <2>5, <4>1, ChainType
      <3> QED BY <2>3, <2>5, <2>7, <3>1 DEF CallsFit
    <2>9. \A i \in DOMAIN Chain : i = u.hop => now[Chain[i]] = u.retry + 1
      BY <2>3, <2>5, <2>6, <2>7
    <2>10. \A o \in Providers : now[o] <= IF o \in u.skip THEN 0 ELSE Retries + 1
      <3> SUFFICES ASSUME NEW o \in Providers
                   PROVE  now[o] <= IF o \in req[r].skip THEN 0 ELSE Retries + 1
        BY <2>5
      <3>1. CASE o = p
        <4>1. now[o] = req[r].retry + 1 + 1 /\ o \notin req[r].skip
          BY <2>3, <2>6, <2>7, <3>1
        <4> QED BY <2>3, <2>4, <4>1, RouterAssumption
      <3>2. CASE o # p
        BY <2>3, <2>7, <3>2 DEF CallsFit
      <3> QED BY <3>1, <3>2
    <2>11. CallsFit(u, now)
      BY <2>8, <2>9, <2>10 DEF CallsFit
    <2>12. RequestFits(u, now)
      BY <2>3, <2>5, <2>11 DEF RequestFits
    <2>13. req' \in [Requests -> Rows] /\ calls' \in [Requests -> [Providers -> Nat]]
      BY <1>0, <2>1, <2>5, <2>7
    <2>14. /\ \A s \in Requests : s # r => req'[s] = req[s] /\ calls'[s] = calls[s]
           /\ RequestFits(req'[r], calls'[r])
      BY <1>0, <2>1, <2>12
    <2> QED BY <1>0, <2>1, <2>13, <2>14, OneRequest
  <1>4. ASSUME NEW r \in Requests, Exhausted(r) PROVE RouterInv'
    BY <1>4, GiveUpKeeps DEF Exhausted
  <1>5. ASSUME NEW r \in Requests, NotRetryable(r) PROVE RouterInv'
    BY <1>5, GiveUpKeeps DEF NotRetryable
  <1>6. ASSUME NEW r \in Requests, Commit(r) PROVE RouterInv'
    <2> DEFINE p == Provider(r)
    <2>1. /\ At(r, "calling") /\ breakers' = Succeeded(p)
          /\ UNCHANGED <<sinceProbe, sinceFailure>>
      BY <1>6 DEF Commit, ages
    <2>2. p \in Providers /\ req[r].hop \in DOMAIN Chain /\ MayMove(req[r], calls[r])
      BY <2>1, MayMoveOn
    <2>3. /\ breakers' \in [Providers -> Breakers]
          /\ [inRow EXCEPT ![p] = 0] \in [Providers -> 0..FailureThreshold]
      BY <1>0, <2>1, <2>2, RecordsStay
    <2>4. CASE req[r].kind = "chat"
      <3>1. Leave(r) /\ inRow' = [inRow EXCEPT ![p] = 0]
        BY <1>6, <2>4 DEF Commit
      <3> QED BY <1>0, <2>1, <2>3, <3>1, LeaveKeeps
    <2>5. CASE req[r].kind # "chat"
      <3> DEFINE u == [req[r] EXCEPT !.pc = "streaming", !.heard = @ \cup {p}]
      <3>1. req' = [req EXCEPT ![r] = u] /\ UNCHANGED <<calls, inRow>>
        BY <1>6, <2>5 DEF Commit
      <3>2. /\ req[r] \in Rows /\ RequestFits(req[r], calls[r])
            /\ req[r].pc = "calling" /\ req[r].heard = {}
        BY <1>0, <2>1, <2>2 DEF At, MayMove
      <3>3. /\ u \in Rows /\ u.pc = "streaming"
            /\ u.hop = req[r].hop /\ u.retry = req[r].retry
            /\ u.skip = req[r].skip /\ u.heard = {p}
        <4> HIDE DEF p
        <4> QED BY <2>2, <3>2 DEF Rows, Points
      <3>4. u.heard \subseteq {Chain[u.hop]}
        BY <3>3 DEF Provider
      <3> HIDE DEF u
      <3>5. CallsFit(u, calls[r]) /\ u.hop \in DOMAIN Chain /\ Chain[u.hop] \notin u.skip
        BY <3>2, <3>3 DEF RequestFits, CallsFit
      <3>6. RequestFits(u, calls[r])
        BY <3>3, <3>4, <3>5 DEF RequestFits
      <3>7. req' \in [Requests -> Rows]
        BY <1>0, <3>1, <3>3
      <3>8. /\ \A s \in Requests : s # r => req'[s] = req[s] /\ calls'[s] = calls[s]
            /\ RequestFits(req'[r], calls'[r])
        BY <1>0, <3>1, <3>6
      <3> QED BY <1>0, <2>1, <2>3, <3>1, <3>7, <3>8, OneRequest
    <2> QED BY <2>4, <2>5
  <1>7. ASSUME NEW r \in Requests, StreamEnds(r) PROVE RouterInv'
    <2>1. Provider(r) \in Providers
      BY <1>0, <1>7, ChainType DEF StreamEnds, At, RequestFits, Provider
    <2>2. inRow' \in [Providers -> 0..FailureThreshold]
      BY <1>0, <1>7, <2>1, RecordsStay DEF StreamEnds
    <2> QED BY <1>0, <1>7, <2>2, LeaveKeeps DEF StreamEnds, ages
  <1>8. ASSUME NEW r \in Requests, MidStreamFailure(r) PROVE RouterInv'
    <2>1. Provider(r) \in Providers
      BY <1>0, <1>8, ChainType DEF MidStreamFailure, At, RequestFits, Provider
    <2>2. /\ breakers' \in [Providers -> Breakers]
          /\ sinceFailure' \in [Providers -> Ages]
          /\ inRow' \in [Providers -> 0..FailureThreshold]
      BY <1>0, <1>8, <2>1, RecordsStay DEF MidStreamFailure
    <2> QED BY <1>8, <2>2, LeaveKeeps DEF MidStreamFailure
  <1>9. ASSUME NEW r \in Requests, Abandon(r) PROVE RouterInv'
    BY <1>0, <1>9, LeaveKeeps DEF Abandon, ages
  <1>10. CASE Tick
    <2>1. /\ breakers' \in [Providers -> Breakers]
          /\ sinceProbe' \in [Providers -> Ages] /\ sinceFailure' \in [Providers -> Ages]
      BY <1>0, <1>10, BreakersStay, AgesStay DEF Tick
    <2>2. UNCHANGED <<req, calls, inRow>>
      BY <1>10 DEF Tick
    <2>3. TypeOK'
      BY <1>0, <2>1, <2>2 DEF TypeOK, Rows
    <2> QED BY <1>0, <2>2, <2>3 DEF RouterInv
  <1>11. CASE UNCHANGED vars
    BY <1>0, <1>11 DEF vars, ages, RouterInv, TypeOK
  <1> QED
    BY <1>1, <1>2, <1>3, <1>4, <1>5, <1>6, <1>7, <1>8, <1>9, <1>10, <1>11 DEF Next, Step

\* Every request that the code of routing/fallback.py walks along the chain
\* stands at a hop within its budget, has called no hop ahead and none more
\* often than its attempts, and has been heard from one hop at most.
THEOREM RouterInvariance == Spec => []RouterInv
  BY InitRouterInv, NextRouterInv, PTL DEF Spec

\* The state of the router stays within its types.
THEOREM RouterTypes == Spec => []TypeOK
  <1>1. RouterInv => TypeOK
    BY DEF RouterInv
  <1> QED BY <1>1, RouterInvariance, PTL

-----------------------------------------------------------------------------
(* The properties. *)

\* A caller never hears from two providers, not even when the first one dies in
\* the middle of its answer (chat_stream raises and does not fall back).
THEOREM CallersHearOneProvider == Spec => []OneVoice
  <1>1. RouterInv => OneVoice
    <2> SUFFICES ASSUME RouterInv, NEW r \in Requests
                 PROVE  Cardinality(req[r].heard) <= 1
      BY DEF OneVoice
    <2>1. req[r].heard \subseteq {Provider(r)}
      BY DEF RouterInv, RequestFits, Provider
    <2>2. CASE req[r].heard = {}
      BY <2>2, FS_EmptySet
    <2>3. CASE req[r].heard = {Provider(r)}
      <3>1. Cardinality({Provider(r)}) = 1
        BY FS_Singleton
      <3> QED BY <2>3, <3>1
    <2> QED BY <2>1, <2>2, <2>3
  <1> QED BY <1>1, RouterInvariance, PTL

\* A provider out of budget is never called, and no provider more often than
\* the attempts for which its claim was reserved.
THEOREM CallsStayWithinTheClaim == Spec => []CallsFitTheClaim
  <1>1. RouterInv => CallsFitTheClaim
    <2> SUFFICES ASSUME RouterInv, NEW r \in Requests, NEW p \in Providers
                 PROVE  calls[r][p] <= IF p \in req[r].skip THEN 0 ELSE Retries + 1
      BY DEF CallsFitTheClaim
    <2>1. RequestFits(req[r], calls[r])
      BY DEF RouterInv
    <2>2. CASE req[r].pc # "idle"
      BY <2>1, <2>2 DEF RequestFits, CallsFit
    <2>3. CASE req[r].pc = "idle"
      BY <2>1, <2>3, RouterAssumption DEF RequestFits, NoCalls
    <2> QED BY <2>2, <2>3
  <1> QED BY <1>1, RouterInvariance, PTL


-----------------------------------------------------------------------------
(* Every breaker is a CircuitBreaker. *)

CircuitStep(p) == [Circuit(p)!Next]_(Circuit(p)!vars)

\* What a request that stands at q is to the breaker of p: CallAt, of a row.
Where(p, q) == IF q.pc = "idle" \/ Chain[q.hop] # p THEN "idle"
               ELSE IF q.pc = "streaming" THEN "streaming" ELSE "calling"

\* One report, question, departure or tick at the breaker of p is a step of its
\* CircuitBreaker, when the other requests are to that breaker what they were.
OthersStay(p, r) ==
  \A s \in Requests : s # r => Where(p, req'[s]) = Where(p, req[s])

LEMMA CallsBefore ==
  ASSUME NEW p, NEW r
  PROVE  CallAt(p, r) = Where(p, req[r]) /\ CallAt(p, r)' = Where(p, req'[r])
  BY DEF CallAt, Where, At, Provider

\* The breaker's operators are those of the circuit's module.
LEMMA SameMethods ==
  ASSUME NEW p, NEW b
  PROVE  /\ Circuit(p)!UpdateState(b) = UpdateState(b)
         /\ Circuit(p)!AllowRequest(b) = AllowRequest(b)
         /\ Circuit(p)!Admits(b) = Admits(b)
         /\ Circuit(p)!RecordSuccess(b) = RecordSuccess(b)
         /\ Circuit(p)!RecordFailure(b) = RecordFailure(b)
         /\ Circuit(p)!Elapse(b) = Elapse(b)
         /\ Circuit(p)!Older(b) = Older(b)
         /\ Circuit(p)!NewBreaker = NewBreaker
  <1>1. Circuit(p)!NoTime = NoTime
    BY DEF Circuit!NoTime, NoTime
  <1>2. \A c : Circuit(p)!UpdateState(c) = UpdateState(c)
    BY <1>1 DEF Circuit!UpdateState, UpdateState
  <1>3. \A c : Circuit(p)!TrialHeld(c) = TrialHeld(c)
    BY <1>1 DEF Circuit!TrialHeld, TrialHeld
  <1>4. \A c : Circuit(p)!Older(c) = Older(c)
    BY DEF Circuit!Older, Older
  <1>5. Circuit(p)!AllowRequest(b) = AllowRequest(b)
    BY <1>2, <1>3 DEF Circuit!AllowRequest, AllowRequest
  <1>6. Circuit(p)!Admits(b) = Admits(b)
    BY <1>2, <1>3 DEF Circuit!Admits, Admits
  <1>7. Circuit(p)!NewBreaker = NewBreaker
    BY <1>1 DEF Circuit!NewBreaker, NewBreaker
  <1>8. Circuit(p)!RecordSuccess(b) = RecordSuccess(b)
    BY <1>7 DEF Circuit!RecordSuccess, RecordSuccess
  <1>9. Circuit(p)!RecordFailure(b) = RecordFailure(b)
    BY <1>1 DEF Circuit!RecordFailure, RecordFailure
  <1>10. Circuit(p)!Elapse(b) = Elapse(b)
    <2>1. /\ Circuit(p)!Older(b.opened) = Older(b.opened)
          /\ Circuit(p)!Older([b EXCEPT !.opened = Older(b.opened)].trial)
               = Older([b EXCEPT !.opened = Older(b.opened)].trial)
      BY <1>4
    <2> QED BY <2>1, Zenon DEF Circuit!Elapse, Elapse
  <1> QED BY <1>2, <1>4, <1>5, <1>6, <1>7, <1>8, <1>9, <1>10

\* What the circuit calls its calls, before and after a step of one request.
LEMMA CallsAfter ==
  ASSUME NEW p, NEW r \in Requests, OthersStay(p, r)
  PROVE  [s \in Requests |-> CallAt(p, s)']
           = [[s \in Requests |-> CallAt(p, s)] EXCEPT ![r] = Where(p, req'[r])]
  <1>1. \A s \in Requests : s # r => CallAt(p, s)' = CallAt(p, s)
    BY CallsBefore DEF OthersStay
  <1>2. CallAt(p, r)' = Where(p, req'[r])
    BY CallsBefore
  <1> QED BY <1>1, <1>2

LEMMA AskIsCircuitStep ==
  ASSUME NEW p \in Providers, NEW r \in Requests, OthersStay(p, r),
         Where(p, req[r]) = "idle",
         breakers'[p] = UpdateState(AllowRequest(breakers[p])),
         IF Admits(breakers[p])
         THEN /\ Where(p, req'[r]) = "calling"
              /\ sinceProbe'[p] = IF breakers'[p].state = "half_open"
                                  THEN 0 ELSE sinceProbe[p]
         ELSE Where(p, req'[r]) = "idle" /\ sinceProbe'[p] = sinceProbe[p],
         sinceFailure'[p] = sinceFailure[p]
  PROVE  CircuitStep(p)
  <1> DEFINE now == [s \in Requests |-> CallAt(p, s)]
  <1>1. /\ now[r] = "idle"
        /\ [s \in Requests |-> CallAt(p, s)'] = [now EXCEPT ![r] = Where(p, req'[r])]
    BY CallsBefore, CallsAfter
  <1>2. ~ Admits(breakers[p]) => [s \in Requests |-> CallAt(p, s)'] = now
    <2>1. \A s \in Requests : ~ Admits(breakers[p]) => CallAt(p, s)' = CallAt(p, s)
      BY CallsBefore DEF OthersStay
    <2> QED BY <2>1
  <1> HIDE DEF now
  <1>3. Circuit(p)!Ask(r)
    BY <1>1, <1>2, SameMethods DEF Circuit!Ask, now
  <1> QED BY <1>3 DEF CircuitStep, Circuit!Next

LEMMA SuccessIsCircuitStep ==
  ASSUME NEW p \in Providers, NEW r \in Requests, OthersStay(p, r),
         Where(p, req[r]) = "calling",
         breakers'[p] = UpdateState(RecordSuccess(breakers[p])),
         Where(p, req'[r]) \in {"idle", "streaming"},
         sinceProbe'[p] = sinceProbe[p], sinceFailure'[p] = sinceFailure[p]
  PROVE  CircuitStep(p)
  <1> DEFINE now == [s \in Requests |-> CallAt(p, s)]
  <1>1. /\ now[r] = "calling"
        /\ \E next \in {"idle", "streaming"} :
             [s \in Requests |-> CallAt(p, s)'] = [now EXCEPT ![r] = next]
    BY CallsBefore, CallsAfter
  <1> HIDE DEF now
  <1>2. Circuit(p)!ReportSuccess(r)
    BY <1>1, SameMethods DEF Circuit!ReportSuccess, now
  <1> QED BY <1>2 DEF CircuitStep, Circuit!Next

LEMMA FailureIsCircuitStep ==
  ASSUME NEW p \in Providers, NEW r \in Requests, OthersStay(p, r),
         Where(p, req[r]) \in {"calling", "streaming"},
         breakers'[p] = UpdateState(RecordFailure(breakers[p])),
         Where(p, req'[r]) = "idle",
         sinceProbe'[p] = sinceProbe[p], sinceFailure'[p] = 0
  PROVE  CircuitStep(p)
  <1>1. Circuit(p)!ReportFailure(r)
    BY CallsBefore, CallsAfter, SameMethods DEF Circuit!ReportFailure
  <1> QED BY <1>1 DEF CircuitStep, Circuit!Next

LEMMA LeaveIsCircuitStep ==
  ASSUME NEW p \in Providers, NEW r \in Requests, OthersStay(p, r),
         Where(p, req[r]) \in {"calling", "streaming"},
         Where(p, req'[r]) = "idle",
         breakers'[p] = breakers[p],
         sinceProbe'[p] = sinceProbe[p], sinceFailure'[p] = sinceFailure[p]
  PROVE  CircuitStep(p)
  <1>1. Circuit(p)!Leave(r)
    BY CallsBefore, CallsAfter DEF Circuit!Leave
  <1> QED BY <1>1 DEF CircuitStep, Circuit!Next

\* A step that leaves a breaker and what the requests are to it is none of its.
LEMMA StutterIsCircuitStep ==
  ASSUME NEW p \in Providers,
         \A s \in Requests : Where(p, req'[s]) = Where(p, req[s]),
         breakers'[p] = breakers[p],
         sinceProbe'[p] = sinceProbe[p], sinceFailure'[p] = sinceFailure[p]
  PROVE  CircuitStep(p)
  <1>1. \A s \in Requests : CallAt(p, s)' = CallAt(p, s)
    BY CallsBefore
  <1> QED BY <1>1 DEF CircuitStep, Circuit!vars


\* What the walk does at the breaker of p: it is not asked and stays as it was
\* in bs, or it is asked, and the request then calls p if and only if it admits.
LEMMA MoveAtBreaker ==
  ASSUME NEW r \in Requests, NEW q, NEW bs \in [Providers -> Breakers], NEW made,
         TypeOK, MayMove(q, made), MoveOn(r, q, bs, made), NEW p \in Providers
  PROVE  /\ \A s \in Requests : s # r => req'[s] = req[s]
         /\ \/ /\ breakers'[p] = bs[p] /\ sinceProbe'[p] = sinceProbe[p]
               /\ Where(p, req'[r]) = "idle"
            \/ /\ \E i \in DOMAIN Chain : i > q.hop /\ Chain[i] = p
               /\ breakers'[p] = UpdateState(AllowRequest(bs[p]))
               /\ IF Admits(bs[p])
                  THEN /\ Where(p, req'[r]) = "calling"
                       /\ sinceProbe'[p] = IF breakers'[p].state = "half_open"
                                           THEN 0 ELSE sinceProbe[p]
                  ELSE /\ Where(p, req'[r]) = "idle"
                       /\ sinceProbe'[p] = sinceProbe[p]
  <1> DEFINE stop == Stop(q, bs)
             to == Chain[stop]
             asked == {Chain[i] : i \in {j \in Ahead(q) : j <= stop}}
             half == breakers'[to].state = "half_open"
  <1>1. /\ q \in Rows /\ req \in [Requests -> Rows] /\ sinceProbe \in [Providers -> Ages]
        /\ Len(Chain) \in Nat /\ DOMAIN Chain = 1..Len(Chain)
        /\ \A i, j \in DOMAIN Chain : Chain[i] = Chain[j] => i = j
    BY ChainType DEF MayMove, TypeOK, Rows
  <1>2. /\ Ahead(q) \subseteq DOMAIN Chain
        /\ \A i \in Ahead(q) : i > q.hop
        /\ stop \in Nat
        /\ stop <= Len(Chain) => stop \in Ahead(q) /\ Admits(bs[to])
        /\ \A j \in Ahead(q) : Admits(bs[Chain[j]]) => stop <= j
    BY <1>1, WalkStops
  <1>3. breakers'[p] = IF p \in asked THEN UpdateState(AllowRequest(bs[p])) ELSE bs[p]
    BY DEF MoveOn
  <1>4. /\ \A s \in Requests : s # r => req'[s] = req[s]
        /\ stop <= Len(Chain) => /\ req'[r].pc = "calling" /\ req'[r].hop = stop
                                 /\ sinceProbe' = IF half
                                                  THEN [sinceProbe EXCEPT ![to] = 0]
                                                  ELSE sinceProbe
        /\ ~ (stop <= Len(Chain)) => req'[r].pc = "idle" /\ sinceProbe' = sinceProbe
    <2>1. CASE stop <= Len(Chain)
      <3> DEFINE u == [q EXCEPT !.pc = "calling", !.hop = stop, !.retry = 0]
      <3>1. /\ req' = [req EXCEPT ![r] = u]
            /\ sinceProbe' = IF half THEN [sinceProbe EXCEPT ![to] = 0] ELSE sinceProbe
        BY <2>1 DEF MoveOn
      <3>2. u.pc = "calling" /\ u.hop = stop
        <4> HIDE DEF stop
        <4> QED BY <1>1 DEF Rows
      <3> HIDE DEF u
      <3> QED BY <1>1, <2>1, <3>1, <3>2
    <2>2. CASE ~ (stop <= Len(Chain))
      <3>1. Leave(r) /\ sinceProbe' = sinceProbe
        BY <2>2 DEF MoveOn
      <3>2. req' = [req EXCEPT ![r] = Idle] /\ Idle.pc = "idle"
        BY <3>1 DEF Leave, Idle
      <3> QED BY <1>1, <2>2, <3>1, <3>2
    <2> QED BY <2>1, <2>2
  <1>5. p \in asked => \E i \in Ahead(q) : i <= stop /\ Chain[i] = p
    OBVIOUS
  <1>6. stop <= Len(Chain) => to \in asked
    BY <1>2
  <1> HIDE DEF asked, stop
  <1>7. CASE p \notin asked
    <2>1. breakers'[p] = bs[p]
      BY <1>3, <1>7
    <2>2. CASE stop <= Len(Chain)
      BY <1>1, <1>4, <1>6, <1>7, <2>1, <2>2 DEF Where
    <2>3. CASE ~ (stop <= Len(Chain))
      BY <1>4, <2>1, <2>3 DEF Where
    <2> QED BY <1>4, <2>2, <2>3
  <1>8. CASE p \in asked
    <2>1. breakers'[p] = UpdateState(AllowRequest(bs[p]))
      BY <1>3, <1>8
    <2>2. PICK i \in Ahead(q) : i <= stop /\ Chain[i] = p
      BY <1>5, <1>8
    <2>3. i \in DOMAIN Chain /\ i > q.hop /\ i \in Nat /\ i <= Len(Chain)
      BY <1>1, <1>2, <2>2
    <2>4. CASE Admits(bs[p])
      <3>1. i = stop /\ stop <= Len(Chain) /\ to = p
        BY <1>2, <2>2, <2>3, <2>4
      <3>2. Where(p, req'[r]) = "calling"
        BY <1>4, <3>1 DEF Where
      <3>3. sinceProbe'[p] = IF breakers'[p].state = "half_open" THEN 0 ELSE sinceProbe[p]
        BY <1>1, <1>4, <3>1
      <3> QED BY <1>4, <2>1, <2>2, <2>3, <2>4, <3>2, <3>3
    <2>5. CASE ~ Admits(bs[p])
      <3>1. stop <= Len(Chain) => to # p
        BY <1>2, <2>5
      <3>2. Where(p, req'[r]) = "idle" /\ sinceProbe'[p] = sinceProbe[p]
        <4>1. CASE stop <= Len(Chain)
          BY <1>1, <1>4, <3>1, <4>1 DEF Where
        <4>2. CASE ~ (stop <= Len(Chain))
          BY <1>4, <4>2 DEF Where
        <4> QED BY <4>1, <4>2
      <3> QED BY <1>4, <2>1, <2>2, <2>3, <2>5, <3>2
    <2> QED BY <2>4, <2>5
  <1> QED BY <1>7, <1>8

\* A request that begins asks some breakers and one may admit it.
LEMMA BeginIsCircuitStep ==
  ASSUME RouterInv, NEW r \in Requests, Begin(r), NEW p \in Providers
  PROVE  CircuitStep(p)
  <1>1. PICK k \in Kinds, s \in Skips :
          MoveOn(r, [Idle EXCEPT !.kind = k, !.skip = s], breakers, NoCalls)
    BY DEF Begin
  <1> DEFINE q == [Idle EXCEPT !.kind = k, !.skip = s]
  <1>2. MayMove(q, NoCalls) /\ MoveOn(r, q, breakers, NoCalls)
    BY <1>1, MayBegin
  <1>3. /\ TypeOK /\ breakers \in [Providers -> Breakers]
        /\ sinceFailure'[p] = sinceFailure[p]
        /\ Where(p, req[r]) = "idle"
    BY DEF Begin, At, Where, RouterInv, TypeOK
  <1> HIDE DEF q
  <1>4. /\ \A t \in Requests : t # r => req'[t] = req[t]
        /\ \/ /\ breakers'[p] = breakers[p] /\ sinceProbe'[p] = sinceProbe[p]
              /\ Where(p, req'[r]) = "idle"
           \/ /\ breakers'[p] = UpdateState(AllowRequest(breakers[p]))
              /\ IF Admits(breakers[p])
                 THEN /\ Where(p, req'[r]) = "calling"
                      /\ sinceProbe'[p] = IF breakers'[p].state = "half_open"
                                          THEN 0 ELSE sinceProbe[p]
                 ELSE /\ Where(p, req'[r]) = "idle"
                      /\ sinceProbe'[p] = sinceProbe[p]
    BY <1>2, <1>3, MoveAtBreaker
  <1>5. OthersStay(p, r)
    BY <1>4 DEF OthersStay
  <1>6. CASE /\ breakers'[p] = breakers[p] /\ sinceProbe'[p] = sinceProbe[p]
             /\ Where(p, req'[r]) = "idle"
    <2>1. \A t \in Requests : Where(p, req'[t]) = Where(p, req[t])
      BY <1>3, <1>5, <1>6 DEF OthersStay
    <2> QED BY <1>3, <1>6, <2>1, StutterIsCircuitStep
  <1> QED BY <1>3, <1>4, <1>5, <1>6, AskIsCircuitStep

\* A provider given up has failed, once, at its own breaker; those behind it
\* may be asked.
LEMMA GiveUpIsCircuitStep ==
  ASSUME RouterInv, NEW r \in Requests, At(r, "calling"), GiveUp(r), NEW p \in Providers
  PROVE  CircuitStep(p)
  <1> DEFINE c == Provider(r)
             bs == AfterFailure(c)
  <1>1. /\ TypeOK /\ breakers \in [Providers -> Breakers]
        /\ sinceFailure \in [Providers -> Ages]
        /\ req[r] \in Rows /\ req[r].pc = "calling"
    BY DEF RouterInv, TypeOK, Rows, At
  <1>2. /\ MayMove(req[r], calls[r]) /\ req[r].hop \in DOMAIN Chain
        /\ c \in Providers /\ c = Chain[req[r].hop]
    BY MayMoveOn DEF Provider
  <1>3. /\ MoveOn(r, req[r], bs, calls[r])
        /\ sinceFailure' = [sinceFailure EXCEPT ![c] = 0]
    BY DEF GiveUp, Failed
  <1>4. /\ bs \in [Providers -> Breakers]
        /\ bs[c] = UpdateState(RecordFailure(breakers[c]))
        /\ \A o \in Providers : o # c => bs[o] = breakers[o]
    <2>1. bs \in [Providers -> Breakers]
      BY <1>1, <1>2, RecordsStay
    <2> QED BY <1>1, <1>2, <2>1 DEF AfterFailure
  <1>5. /\ \A s \in Requests : s # r => req'[s] = req[s]
        /\ \/ /\ breakers'[p] = bs[p] /\ sinceProbe'[p] = sinceProbe[p]
              /\ Where(p, req'[r]) = "idle"
           \/ /\ \E i \in DOMAIN Chain : i > req[r].hop /\ Chain[i] = p
              /\ breakers'[p] = UpdateState(AllowRequest(bs[p]))
              /\ IF Admits(bs[p])
                 THEN /\ Where(p, req'[r]) = "calling"
                      /\ sinceProbe'[p] = IF breakers'[p].state = "half_open"
                                          THEN 0 ELSE sinceProbe[p]
                 ELSE /\ Where(p, req'[r]) = "idle"
                      /\ sinceProbe'[p] = sinceProbe[p]
    <2> HIDE DEF bs, c
    <2> QED BY <1>1, <1>2, <1>3, <1>4, MoveAtBreaker
  <1>6. OthersStay(p, r)
    BY <1>5 DEF OthersStay
  <1> HIDE DEF bs, c
  <1>7. CASE p = c
    <2>1. ~ \E i \in DOMAIN Chain : i > req[r].hop /\ Chain[i] = p
      <3> SUFFICES ASSUME NEW i \in DOMAIN Chain, i > req[r].hop, Chain[i] = p
                   PROVE  FALSE
        OBVIOUS
      <3>1. i = req[r].hop /\ i \in Nat
        BY <1>2, <1>7, ChainType
      <3> QED BY <3>1
    <2>2. /\ breakers'[p] = UpdateState(RecordFailure(breakers[p]))
          /\ sinceProbe'[p] = sinceProbe[p]
          /\ Where(p, req'[r]) = "idle"
      BY <1>4, <1>5, <1>7, <2>1
    <2>3. Where(p, req[r]) = "calling" /\ sinceFailure'[p] = 0
      BY <1>1, <1>2, <1>3, <1>7 DEF Where
    <2> QED BY <1>6, <2>2, <2>3, FailureIsCircuitStep
  <1>8. CASE p # c
    <2>1. /\ bs[p] = breakers[p] /\ sinceFailure'[p] = sinceFailure[p]
          /\ Where(p, req[r]) = "idle"
      BY <1>1, <1>2, <1>3, <1>4, <1>8 DEF Where
    <2>2. CASE /\ breakers'[p] = bs[p] /\ sinceProbe'[p] = sinceProbe[p]
               /\ Where(p, req'[r]) = "idle"
      <3>1. \A t \in Requests : Where(p, req'[t]) = Where(p, req[t])
        BY <1>6, <2>1, <2>2 DEF OthersStay
      <3> QED BY <2>1, <2>2, <3>1, StutterIsCircuitStep
    <2> QED BY <1>5, <1>6, <2>1, <2>2, AskIsCircuitStep
  <1> QED BY <1>7, <1>8


\* A request's step that leaves the router for whatever reason: to the breakers
\* of the other providers it was nothing and is nothing.
LEMMA LeaveAtBreaker ==
  ASSUME RouterInv, NEW r \in Requests, Leave(r), NEW p \in Providers
  PROVE  OthersStay(p, r) /\ Where(p, req'[r]) = "idle"
  <1>1. req \in [Requests -> Rows]
    BY DEF RouterInv, TypeOK, Rows
  <1>2. /\ \A s \in Requests : s # r => req'[s] = req[s]
        /\ req'[r].pc = "idle"
    BY <1>1 DEF Leave, Idle
  <1> QED BY <1>2 DEF OthersStay, Where

\* Every step of a request is, for every breaker, one of its steps or none.
LEMMA StepOfCircuits ==
  ASSUME RouterInv, NEW r \in Requests, Step(r), NEW p \in Providers
  PROVE  CircuitStep(p)
  <1>0. /\ breakers \in [Providers -> Breakers]
        /\ req \in [Requests -> Rows] /\ req[r] \in Rows
        /\ sinceProbe \in [Providers -> Ages] /\ sinceFailure \in [Providers -> Ages]
        /\ req[r].pc # "idle" => /\ Provider(r) \in Providers
                                 /\ Provider(r) = Chain[req[r].hop]
    BY ChainType DEF RouterInv, TypeOK, Rows, RequestFits, Provider
  <1> DEFINE c == Provider(r)
  <1>1. CASE Begin(r)
    BY <1>1, BeginIsCircuitStep
  <1>2. CASE Backoff(r)
    <2>1. /\ req' = [req EXCEPT ![r] = [req[r] EXCEPT !.pc = "backoff"]]
          /\ UNCHANGED <<breakers, sinceProbe, sinceFailure>>
          /\ req[r].pc = "calling"
      BY <1>2 DEF Backoff, At, ages
    <2>2. /\ \A s \in Requests : s # r => req'[s] = req[s]
          /\ req'[r].pc = "backoff" /\ req'[r].hop = req[r].hop
      BY <1>0, <2>1 DEF Rows
    <2>3. \A s \in Requests : Where(p, req'[s]) = Where(p, req[s])
      BY <2>1, <2>2 DEF Where
    <2> QED BY <2>1, <2>3, StutterIsCircuitStep
  <1>3. CASE Retry(r)
    <2> DEFINE u == [req[r] EXCEPT !.pc = "calling", !.retry = @ + 1]
    <2>1. /\ req' = [req EXCEPT ![r] = u]
          /\ UNCHANGED <<breakers, sinceProbe, sinceFailure>>
          /\ req[r].pc = "backoff"
      BY <1>3 DEF Retry, At, ages
    <2>2. u.pc = "calling" /\ u.hop = req[r].hop
      BY <1>0 DEF Rows
    <2> HIDE DEF u
    <2>3. /\ \A s \in Requests : s # r => req'[s] = req[s]
          /\ req'[r].pc = "calling" /\ req'[r].hop = req[r].hop
      BY <1>0, <2>1, <2>2
    <2>4. \A s \in Requests : Where(p, req'[s]) = Where(p, req[s])
      BY <2>1, <2>3 DEF Where
    <2> QED BY <2>1, <2>4, StutterIsCircuitStep
  <1>4. CASE Exhausted(r)
    BY <1>4, GiveUpIsCircuitStep DEF Exhausted
  <1>5. CASE NotRetryable(r)
    BY <1>5, GiveUpIsCircuitStep DEF NotRetryable
  <1>6. CASE Commit(r)
    <2>1. /\ req[r].pc = "calling" /\ breakers' = Succeeded(c)
          /\ sinceProbe' = sinceProbe /\ sinceFailure' = sinceFailure
      BY <1>6 DEF Commit, At, ages
    <2>2. /\ c \in Providers
          /\ Where(p, req[r]) = IF p = c THEN "calling" ELSE "idle"
      BY <1>0, <2>1 DEF Where
    <2>3. /\ OthersStay(p, r)
          /\ Where(p, req'[r]) = "idle" \/ (p = c /\ Where(p, req'[r]) = "streaming")
      <3>1. CASE req[r].kind = "chat"
        BY <1>6, <3>1, LeaveAtBreaker DEF Commit
      <3>2. CASE req[r].kind # "chat"
        <4> DEFINE u == [req[r] EXCEPT !.pc = "streaming", !.heard = @ \cup {c}]
        <4>1. req' = [req EXCEPT ![r] = u]
          BY <1>6, <3>2 DEF Commit
        <4>2. u.pc = "streaming" /\ u.hop = req[r].hop
          <5> HIDE DEF c
          <5> QED BY <1>0 DEF Rows
        <4> HIDE DEF u
        <4>3. /\ \A s \in Requests : s # r => req'[s] = req[s]
              /\ req'[r].pc = "streaming" /\ req'[r].hop = req[r].hop
          BY <1>0, <4>1, <4>2
        <4> QED BY <1>0, <2>1, <4>3 DEF OthersStay, Where
      <3> QED BY <3>1, <3>2
    <2> HIDE DEF c
    <2>4. CASE p = c
      <3>1. breakers'[p] = UpdateState(RecordSuccess(breakers[p]))
        BY <1>0, <2>1, <2>4 DEF Succeeded
      <3> QED BY <2>1, <2>2, <2>3, <2>4, <3>1, SuccessIsCircuitStep
    <2>5. CASE p # c
      <3>1. breakers'[p] = breakers[p]
        BY <1>0, <2>1, <2>5 DEF Succeeded
      <3>2. \A s \in Requests : Where(p, req'[s]) = Where(p, req[s])
        BY <2>2, <2>3, <2>5 DEF OthersStay
      <3> QED BY <2>1, <3>1, <3>2, StutterIsCircuitStep
    <2> QED BY <2>4, <2>5
  <1>7. CASE /\ req[r].pc # "idle" /\ Leave(r)
             /\ UNCHANGED <<breakers, sinceProbe, sinceFailure>>
    <2>1. OthersStay(p, r) /\ Where(p, req'[r]) = "idle"
      BY <1>7, LeaveAtBreaker
    <2>2. CASE p = c
      <3>1. Where(p, req[r]) \in {"calling", "streaming"}
        BY <1>0, <1>7, <2>2 DEF Where
      <3> QED BY <1>7, <2>1, <3>1, LeaveIsCircuitStep
    <2>3. CASE p # c
      <3>1. Where(p, req[r]) = "idle"
        BY <1>0, <1>7, <2>3 DEF Where
      <3>2. \A s \in Requests : Where(p, req'[s]) = Where(p, req[s])
        BY <2>1, <3>1 DEF OthersStay
      <3> QED BY <1>7, <3>2, StutterIsCircuitStep
    <2> QED BY <2>2, <2>3
  <1>8. CASE MidStreamFailure(r)
    <2>1. /\ req[r].pc = "streaming" /\ breakers' = AfterFailure(c)
          /\ sinceProbe' = sinceProbe
          /\ sinceFailure' = [sinceFailure EXCEPT ![c] = 0]
          /\ Leave(r)
      BY <1>8 DEF MidStreamFailure, Failed, At
    <2>2. OthersStay(p, r) /\ Where(p, req'[r]) = "idle"
      BY <2>1, LeaveAtBreaker
    <2>3. CASE p = c
      <3>1. /\ breakers'[p] = UpdateState(RecordFailure(breakers[p]))
            /\ sinceFailure'[p] = 0
            /\ Where(p, req[r]) = "streaming"
        BY <1>0, <2>1, <2>3 DEF AfterFailure, Where
      <3> QED BY <2>1, <2>2, <3>1, FailureIsCircuitStep
    <2>4. CASE p # c
      <3>1. /\ breakers'[p] = breakers[p] /\ sinceFailure'[p] = sinceFailure[p]
            /\ Where(p, req[r]) = "idle"
        BY <1>0, <2>1, <2>4 DEF AfterFailure, Where
      <3>2. \A s \in Requests : Where(p, req'[s]) = Where(p, req[s])
        BY <2>2, <3>1 DEF OthersStay
      <3> QED BY <2>1, <3>1, <3>2, StutterIsCircuitStep
    <2> QED BY <2>3, <2>4
  <1>9. StreamEnds(r) \/ Abandon(r)
          => /\ req[r].pc # "idle" /\ Leave(r)
             /\ UNCHANGED <<breakers, sinceProbe, sinceFailure>>
    BY DEF StreamEnds, Abandon, At, ages
  <1> QED BY <1>1, <1>2, <1>3, <1>4, <1>5, <1>6, <1>7, <1>8, <1>9 DEF Step

LEMMA TickOfCircuits ==
  ASSUME RouterInv, Tick, NEW p \in Providers
  PROVE  CircuitStep(p)
  <1>1. /\ breakers'[p] = Elapse(breakers[p])
        /\ sinceProbe'[p] = Older(sinceProbe[p])
        /\ sinceFailure'[p] = Older(sinceFailure[p])
        /\ req' = req
    BY DEF Tick
  <1>2. [s \in Requests |-> CallAt(p, s)'] = [s \in Requests |-> CallAt(p, s)]
    BY <1>1, CallsBefore
  <1>3. Circuit(p)!Tick
    BY <1>1, <1>2, SameMethods DEF Circuit!Tick
  <1> QED BY <1>3 DEF CircuitStep, Circuit!Next

\* Every breaker of the router is a CircuitBreaker: a provider is called only
\* after its breaker has admitted the request, and hears of all the attempts of
\* one request a single report.
THEOREM RouterImplementsCircuitBreakers == Spec => ImplementsCircuitBreakers
  <1>1. Init => \A p \in Providers : Circuit(p)!Init
    <2> SUFFICES ASSUME Init, NEW p \in Providers PROVE Circuit(p)!Init
      OBVIOUS
    <2>1. \A r \in Requests : CallAt(p, r) = "idle"
      BY DEF Init, CallAt, At, Idle
    <2> QED BY <2>1, SameMethods DEF Init, Circuit!Init
  <1>2. RouterInv /\ [Next]_vars
          => [\A p \in Providers : [Circuit(p)!Next]_(Circuit(p)!vars)]_vars
    <2>1. ASSUME RouterInv, Next
          PROVE  \A p \in Providers : CircuitStep(p)
      BY <2>1, StepOfCircuits, TickOfCircuits DEF Next
    <2> QED BY <2>1 DEF CircuitStep
  <1> QED BY <1>1, <1>2, RouterInvariance, PTL DEF Spec, ImplementsCircuitBreakers

-----------------------------------------------------------------------------
(* Trials are spaced. *)

\* What a breaker's instants say about the ages of the last trial and of the
\* last failure at it.  A breaker does not remember a trial once its claim is
\* cleared; every way out of half-open closes it or starts a new cooldown.
Sound(b, probe, failure) ==
  /\ b.state = "closed" <=> b.failures < FailureThreshold
  /\ (b.opened # NoTime) <=> (b.state # "closed")
  /\ (b.trial # NoTime) => (b.state = "half_open")
  /\ b.state = "open" => failure >= b.opened /\ probe >= b.opened
  /\ b.state = "half_open" =>
       /\ failure >= Cooldown
       /\ probe >= (IF b.trial = NoTime THEN Cooldown ELSE b.trial)

BreakersSound == \A p \in Providers : Sound(breakers[p], sinceProbe[p], sinceFailure[p])

LEMMA UpdateIsSound ==
  ASSUME NEW b \in Breakers, NEW probe \in Ages, NEW failure \in Ages, Sound(b, probe, failure)
  PROVE  /\ UpdateState(b) \in Breakers
         /\ Sound(UpdateState(b), probe, failure)
  <1>1. UpdateState(b) \in Breakers
    BY DEF UpdateState, Breakers
  <1>2. Sound(UpdateState(b), probe, failure)
    BY BreakerAssumption DEF Sound, UpdateState, Breakers, Ages, NoTime
  <1> QED BY <1>1, <1>2

\* Who is let through a breaker that is not closed finds the cooldowns behind it.
LEMMA AskIsSound ==
  ASSUME NEW b \in Breakers, NEW probe \in Ages, NEW failure \in Ages, Sound(b, probe, failure)
  PROVE  LET after == UpdateState(AllowRequest(b)) IN
         /\ Sound(after, IF Admits(b) /\ after.state = "half_open" THEN 0 ELSE probe, failure)
         /\ Admits(b) /\ after.state # "closed" => probe >= Cooldown /\ failure >= Cooldown
  <1> DEFINE u == UpdateState(b)
  <1>1. u \in Breakers /\ Sound(u, probe, failure)
    BY UpdateIsSound
  <1>2. AllowRequest(b) = IF u.state = "half_open" /\ ~TrialHeld(u)
                          THEN [u EXCEPT !.trial = 0] ELSE u
    BY DEF AllowRequest
  <1>3. Admits(b) <=> u.state = "closed" \/ (u.state = "half_open" /\ ~TrialHeld(u))
    BY DEF Admits
  <1>4. u.state = "open" => u.opened < Cooldown
    BY BreakerAssumption DEF UpdateState, Sound, Breakers, Ages, NoTime
  <1> HIDE DEF u
  <1>5. CASE u.state = "half_open" /\ ~TrialHeld(u)
    <2> DEFINE v == [u EXCEPT !.trial = 0]
    <2>1. /\ v.state = "half_open" /\ v.trial = 0 /\ v.opened = u.opened
          /\ v.failures = u.failures
      BY <1>1, <1>5 DEF Breakers
    <2>2. AllowRequest(b) = v
      BY <1>2, <1>5
    <2>3. UpdateState(v) = v
      BY <2>1 DEF UpdateState
    <2>4. probe >= Cooldown /\ failure >= Cooldown
      BY <1>1, <1>5, BreakerAssumption DEF Sound, TrialHeld, Breakers, Ages, NoTime
    <2>5. Sound(v, 0, failure)
      BY <1>1, <1>5, <2>1, BreakerAssumption DEF Sound, Breakers, Ages, NoTime
    <2> HIDE DEF v
    <2> QED BY <1>3, <1>5, <2>1, <2>2, <2>3, <2>4, <2>5
  <1>6. CASE ~(u.state = "half_open" /\ ~TrialHeld(u))
    <2>1. AllowRequest(b) = u
      BY <1>2, <1>6
    <2>2. UpdateState(u) = u
      BY <1>1, <1>4, BreakerAssumption DEF UpdateState, Breakers, Ages
    <2>3. Admits(b) => u.state = "closed"
      BY <1>3, <1>6
    <2> QED BY <1>1, <2>1, <2>2, <2>3
  <1> QED BY <1>5, <1>6

LEMMA ReportsAreSound ==
  ASSUME NEW b \in Breakers, NEW probe \in Ages, NEW failure \in Ages, Sound(b, probe, failure)
  PROVE  /\ Sound(UpdateState(RecordSuccess(b)), probe, failure)
         /\ Sound(UpdateState(RecordFailure(b)), probe, 0)
  <1>1. Sound(UpdateState(RecordSuccess(b)), probe, failure)
    BY BreakerAssumption DEF Sound, RecordSuccess, NewBreaker, UpdateState, NoTime
  <1>2. Sound(UpdateState(RecordFailure(b)), probe, 0)
    BY BreakerAssumption
    DEF Sound, RecordFailure, UpdateState, Breakers, Ages, NoTime
  <1> QED BY <1>1, <1>2

LEMMA TimeIsSound ==
  ASSUME NEW b \in Breakers, NEW probe \in Ages, NEW failure \in Ages, Sound(b, probe, failure)
  PROVE  Sound(Elapse(b), Older(probe), Older(failure))
  <1>1. /\ Elapse(b).state = b.state /\ Elapse(b).failures = b.failures
        /\ Elapse(b).opened = Older(b.opened) /\ Elapse(b).trial = Older(b.trial)
    BY DEF Elapse, Breakers
  <1>2. \A i \in Ages \cup {NoTime} : Older(i) = NoTime <=> i = NoTime
    BY BreakerAssumption DEF Older, Ages, NoTime
  <1>3. \A i, j \in Ages : i >= j => Older(i) >= Older(j)
    BY BreakerAssumption DEF Older, Ages
  <1>4. Older(Cooldown) = Cooldown /\ Cooldown \in Ages
    BY BreakerAssumption DEF Older, Ages
  <1>5. b.opened \in Ages \cup {NoTime} /\ b.trial \in Ages \cup {NoTime}
    BY DEF Breakers
  <1>6. CASE b.state = "open"
    <2>1. b.opened \in Ages /\ failure >= b.opened /\ probe >= b.opened
      BY <1>5, <1>6 DEF Sound
    <2> QED BY <1>1, <1>2, <1>3, <1>5, <1>6, <2>1 DEF Sound
  <1>7. CASE b.state = "half_open"
    <2>1. Older(failure) >= Cooldown
      BY <1>3, <1>4, <1>7 DEF Sound
    <2>2. Older(probe) >= (IF Older(b.trial) = NoTime THEN Cooldown ELSE Older(b.trial))
      BY <1>2, <1>3, <1>4, <1>5, <1>7 DEF Sound
    <2> QED BY <1>1, <1>2, <1>5, <1>7, <2>1, <2>2 DEF Sound
  <1>8. CASE b.state = "closed"
    BY <1>1, <1>2, <1>5, <1>8 DEF Sound
  <1> QED BY <1>6, <1>7, <1>8 DEF Breakers

\* A step at one breaker keeps it sound, and admits to it as it should.
LEMMA CircuitIsSound ==
  ASSUME NEW p \in Providers, CircuitStep(p),
         breakers[p] \in Breakers, sinceProbe[p] \in Ages, sinceFailure[p] \in Ages,
         Sound(breakers[p], sinceProbe[p], sinceFailure[p])
  PROVE  /\ Sound(breakers'[p], sinceProbe'[p], sinceFailure'[p])
         /\ \A r \in Requests :
              CallAt(p, r) = "idle" /\ CallAt(p, r)' = "calling" /\ breakers'[p].state # "closed"
                => sinceProbe[p] >= Cooldown /\ sinceFailure[p] >= Cooldown
  <1> DEFINE now == [s \in Requests |-> CallAt(p, s)]
             next == [s \in Requests |-> CallAt(p, s)']
             spaced == \A r \in Requests :
                         now[r] = "idle" /\ next[r] = "calling" /\ breakers'[p].state # "closed"
                           => sinceProbe[p] >= Cooldown /\ sinceFailure[p] >= Cooldown
             sound == Sound(breakers'[p], sinceProbe'[p], sinceFailure'[p])
  <1>1. \/ \E r \in Requests : \/ Circuit(p)!Ask(r) \/ Circuit(p)!ReportSuccess(r)
                               \/ Circuit(p)!ReportFailure(r) \/ Circuit(p)!Leave(r)
        \/ Circuit(p)!ReadState
        \/ Circuit(p)!Tick
        \/ UNCHANGED Circuit(p)!vars
    BY DEF CircuitStep, Circuit!Next
  <1>2. ASSUME NEW r \in Requests, Circuit(p)!Ask(r) PROVE sound /\ spaced
    <2>1. /\ breakers'[p] = UpdateState(AllowRequest(breakers[p]))
          /\ IF Admits(breakers[p])
             THEN /\ next = [now EXCEPT ![r] = "calling"]
                  /\ sinceProbe'[p] = IF breakers'[p].state = "half_open" THEN 0
                                                                         ELSE sinceProbe[p]
             ELSE next = now /\ sinceProbe'[p] = sinceProbe[p]
          /\ sinceFailure'[p] = sinceFailure[p]
      BY <1>2, SameMethods DEF Circuit!Ask
    <2> HIDE DEF now, next
    <2>2. sound
      BY <2>1, AskIsSound
    <2>3. spaced
      BY <2>1, AskIsSound
    <2> QED BY <2>2, <2>3
  <1>3. ASSUME NEW r \in Requests, Circuit(p)!ReportSuccess(r) PROVE sound /\ spaced
    <2>1. /\ breakers'[p] = UpdateState(RecordSuccess(breakers[p]))
          /\ \E to \in {"idle", "streaming"} : next = [now EXCEPT ![r] = to]
          /\ sinceProbe'[p] = sinceProbe[p] /\ sinceFailure'[p] = sinceFailure[p]
      BY <1>3, SameMethods DEF Circuit!ReportSuccess
    <2>2. \A s \in Requests : now[s] = "idle" => next[s] # "calling"
      <3> HIDE DEF now
      <3> QED BY <2>1 DEF now
    <2> QED BY <2>1, <2>2, ReportsAreSound
  <1>4. ASSUME NEW r \in Requests, Circuit(p)!ReportFailure(r) PROVE sound /\ spaced
    <2>1. /\ breakers'[p] = UpdateState(RecordFailure(breakers[p]))
          /\ next = [now EXCEPT ![r] = "idle"]
          /\ sinceProbe'[p] = sinceProbe[p] /\ sinceFailure'[p] = 0
      BY <1>4, SameMethods DEF Circuit!ReportFailure
    <2>2. \A s \in Requests : now[s] = "idle" => next[s] # "calling"
      BY <2>1
    <2> QED BY <2>1, <2>2, ReportsAreSound
  <1>5. ASSUME NEW r \in Requests, Circuit(p)!Leave(r) PROVE sound /\ spaced
    <2>1. /\ breakers'[p] = breakers[p] /\ next = [now EXCEPT ![r] = "idle"]
          /\ sinceProbe'[p] = sinceProbe[p] /\ sinceFailure'[p] = sinceFailure[p]
      BY <1>5 DEF Circuit!Leave
    <2>2. \A s \in Requests : now[s] = "idle" => next[s] # "calling"
      BY <2>1
    <2> QED BY <2>1, <2>2
  <1>6. ASSUME Circuit(p)!ReadState PROVE sound /\ spaced
    <2>1. /\ breakers'[p] = UpdateState(breakers[p]) /\ next = now
          /\ sinceProbe'[p] = sinceProbe[p] /\ sinceFailure'[p] = sinceFailure[p]
      BY <1>6, SameMethods DEF Circuit!ReadState
    <2>2. \A s \in Requests : now[s] = "idle" => next[s] # "calling"
      BY <2>1
    <2> QED BY <2>1, <2>2, UpdateIsSound
  <1>7. ASSUME Circuit(p)!Tick PROVE sound /\ spaced
    <2>1. /\ breakers'[p] = Elapse(breakers[p]) /\ next = now
          /\ sinceProbe'[p] = Older(sinceProbe[p]) /\ sinceFailure'[p] = Older(sinceFailure[p])
      BY <1>7, SameMethods DEF Circuit!Tick
    <2>2. \A s \in Requests : now[s] = "idle" => next[s] # "calling"
      BY <2>1
    <2> QED BY <2>1, <2>2, TimeIsSound
  <1>8. ASSUME UNCHANGED Circuit(p)!vars PROVE sound /\ spaced
    <2>1. /\ breakers'[p] = breakers[p] /\ next = now
          /\ sinceProbe'[p] = sinceProbe[p] /\ sinceFailure'[p] = sinceFailure[p]
      BY <1>8 DEF Circuit!vars
    <2>2. \A s \in Requests : now[s] = "idle" => next[s] # "calling"
      BY <2>1
    <2> QED BY <2>1, <2>2
  <1>9. sound /\ spaced
    BY <1>1, <1>2, <1>3, <1>4, <1>5, <1>6, <1>7, <1>8
  <1> QED BY <1>9

LEMMA StepIsSound ==
  ASSUME RouterInv, BreakersSound, [Next]_vars
  PROVE  /\ BreakersSound'
         /\ \A p \in Providers, r \in Requests :
              CallAt(p, r) = "idle" /\ CallAt(p, r)' = "calling" /\ breakers'[p].state # "closed"
                => sinceProbe[p] >= Cooldown /\ sinceFailure[p] >= Cooldown
  <1>1. ASSUME NEW p \in Providers PROVE CircuitStep(p)
    <2>1. CASE Next
      BY <2>1, StepOfCircuits, TickOfCircuits DEF Next
    <2>2. CASE UNCHANGED vars
      BY <2>2, StutterIsCircuitStep DEF vars, ages
    <2> QED BY <2>1, <2>2
  <1>2. ASSUME NEW p \in Providers
        PROVE  /\ breakers[p] \in Breakers /\ sinceProbe[p] \in Ages /\ sinceFailure[p] \in Ages
               /\ Sound(breakers[p], sinceProbe[p], sinceFailure[p])
    BY DEF RouterInv, TypeOK, BreakersSound
  <1> QED BY <1>1, <1>2, CircuitIsSound DEF BreakersSound

\* Every provider that is not known to be healthy is tried once in a cooldown
\* and not before a cooldown after its last failure, by whichever request of the
\* process (FallbackRouter.chat, chat_stream, allow_request).
THEOREM TrialsOfEveryProviderAreSpaced == Spec => TrialsAreSpaced
  <1>1. Init => BreakersSound
    BY BreakerAssumption DEF Init, BreakersSound, Sound, NewBreaker, NoTime
  <1>2. RouterInv /\ BreakersSound /\ [Next]_vars => BreakersSound'
    BY StepIsSound
  <1>3. RouterInv /\ BreakersSound /\ [Next]_vars =>
          [\A p \in Providers, r \in Requests :
             CallAt(p, r) = "idle" /\ CallAt(p, r)' = "calling" /\ breakers'[p].state # "closed"
               => sinceProbe[p] >= Cooldown /\ sinceFailure[p] >= Cooldown]_vars
    BY StepIsSound
  <1> QED BY <1>1, <1>2, <1>3, RouterInvariance, PTL DEF Spec, TrialsAreSpaced

=============================================================================
