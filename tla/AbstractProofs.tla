---------------------------- MODULE AbstractProofs ----------------------------
(***************************************************************************)
(* Theorems about the two objects that requests share and that larger      *)
(* modules implement one of each: the breaker of a provider                *)
(* (CircuitBreaker, implemented by FallbackRouter), for any number of      *)
(* requests, any threshold and any cooldown, and the bucket of a key       *)
(* (TokenBucket, implemented by Gate), for any capacity, refill rate,      *)
(* margin and lag.                                                         *)
(***************************************************************************)
EXTENDS CircuitBreaker, TokenBucket, TLAPS

(***************************************************************************)
(* The breaker of a provider                                               *)
(***************************************************************************)

\* What the breaker's instants say about the two ghost ages.  The breaker
\* itself does not remember a probe once its claim is cleared, so the spacing
\* of probes rests on this: every way out of half-open that clears the claim
\* either closes the breaker or starts a new cooldown.
AgesBound ==
  /\ breaker.state = "open" => /\ sinceFailure >= breaker.opened
                               /\ sinceProbe >= breaker.opened
  /\ breaker.state = "half_open" =>
       /\ sinceFailure >= Cooldown
       /\ sinceProbe >= (IF breaker.trial = NoTime THEN Cooldown
                                                   ELSE breaker.trial)

IInv == TypeOK /\ CountDecides /\ InstantsFit /\ AgesBound

-----------------------------------------------------------------------------
(* The methods keep a breaker a breaker. *)

LEMMA OlderIsAge ==
  ASSUME NEW a \in Ages \cup {NoTime}
  PROVE  /\ Older(a) \in Ages \cup {NoTime}
         /\ a \in Ages => Older(a) \in Ages
         /\ a = NoTime <=> Older(a) = NoTime
  BY BreakerAssumption DEF Older, Ages, NoTime

LEMMA OlderIsMonotone ==
  ASSUME NEW a \in Ages, NEW b \in Ages, a >= b
  PROVE  Older(a) >= Older(b)
  BY BreakerAssumption DEF Older, Ages

LEMMA MethodTypes ==
  ASSUME NEW b \in Breakers
  PROVE  /\ UpdateState(b) \in Breakers
         /\ AllowRequest(b) \in Breakers
         /\ RecordSuccess(b) \in Breakers
         /\ RecordFailure(b) \in Breakers
         /\ Elapse(b) \in Breakers
  <1>1. UpdateState(b) \in Breakers
    BY DEF UpdateState, Breakers
  <1>2. AllowRequest(b) \in Breakers
    BY <1>1, BreakerAssumption DEF AllowRequest, Breakers, Ages
  <1>3. RecordSuccess(b) \in Breakers
    BY BreakerAssumption DEF RecordSuccess, NewBreaker, Breakers
  <1>4. RecordFailure(b) \in Breakers
    BY BreakerAssumption DEF RecordFailure, Breakers, Ages
  <1>5. Elapse(b) \in Breakers
    BY OlderIsAge DEF Elapse, Breakers
  <1> QED BY <1>1, <1>2, <1>3, <1>4, <1>5

-----------------------------------------------------------------------------
(* The invariant. *)

LEMMA InitIInv == Init => IInv
  BY BreakerAssumption
  DEF Init, IInv, TypeOK, CountDecides, InstantsFit, AgesBound,
      NewBreaker, Breakers, Ages, NoTime, CallStates

\* Reading the state only moves the breaker from open to half-open, and does
\* so when the opening is a full cooldown old.
LEMMA UpdateKeepsIInv ==
  ASSUME NEW b \in Breakers, NEW probe \in Ages, NEW failure \in Ages,
         b.state = "closed" <=> b.failures < FailureThreshold,
         (b.opened # NoTime) <=> (b.state # "closed"),
         (b.trial # NoTime) => (b.state = "half_open"),
         b.state = "open" => failure >= b.opened /\ probe >= b.opened,
         b.state = "half_open" =>
           /\ failure >= Cooldown
           /\ probe >= (IF b.trial = NoTime THEN Cooldown ELSE b.trial)
  PROVE  LET u == UpdateState(b)
         IN  /\ u.state = "closed" <=> u.failures < FailureThreshold
             /\ (u.opened # NoTime) <=> (u.state # "closed")
             /\ (u.trial # NoTime) => (u.state = "half_open")
             /\ u.state = "open" => failure >= u.opened /\ probe >= u.opened
             /\ u.state = "half_open" =>
                  /\ failure >= Cooldown
                  /\ probe >= (IF u.trial = NoTime THEN Cooldown ELSE u.trial)
  BY BreakerAssumption DEF UpdateState, Breakers, Ages, NoTime

LEMMA NextIInv == IInv /\ [Next]_vars => IInv'
  <1> SUFFICES ASSUME IInv, [Next]_vars PROVE IInv'
    OBVIOUS
  <1> USE DEF IInv
  <1> breaker \in Breakers /\ sinceProbe \in Ages /\ sinceFailure \in Ages
    BY DEF TypeOK
  <1>1. ASSUME NEW r \in Requests, Ask(r) PROVE IInv'
    <2>1. TypeOK'
      <3>1. breaker' \in Breakers
        BY <1>1, MethodTypes DEF Ask
      <3>2. call' \in [Requests -> CallStates]
        BY <1>1 DEF Ask, TypeOK, CallStates
      <3>3. sinceProbe' \in Ages /\ sinceFailure' \in Ages
        BY <1>1, BreakerAssumption DEF Ask, Ages
      <3> QED BY <3>1, <3>2, <3>3 DEF TypeOK
    <2>2. CountDecides' /\ InstantsFit' /\ AgesBound'
      BY <1>1, <2>1, BreakerAssumption
      DEF Ask, TypeOK, Admits, AllowRequest, UpdateState, TrialHeld, CountDecides,
          InstantsFit, AgesBound, Breakers, Ages, NoTime
    <2> QED BY <2>1, <2>2
  <1>2. ASSUME NEW r \in Requests, ReportSuccess(r) PROVE IInv'
    <2>1. TypeOK'
      <3>1. breaker' \in Breakers
        BY <1>2, MethodTypes DEF ReportSuccess
      <3> QED BY <1>2, <3>1 DEF ReportSuccess, TypeOK, CallStates
    <2>2. CountDecides' /\ InstantsFit' /\ AgesBound'
      BY <1>2, <2>1, BreakerAssumption
      DEF ReportSuccess, RecordSuccess, NewBreaker, UpdateState, CountDecides,
          InstantsFit, AgesBound, NoTime
    <2> QED BY <2>1, <2>2
  <1>3. ASSUME NEW r \in Requests, ReportFailure(r) PROVE IInv'
    <2>1. TypeOK'
      <3>1. breaker' \in Breakers
        BY <1>3, MethodTypes DEF ReportFailure
      <3>2. sinceFailure' \in Ages
        BY <1>3, BreakerAssumption DEF ReportFailure, Ages
      <3> QED BY <1>3, <3>1, <3>2 DEF ReportFailure, TypeOK, CallStates
    <2>2. CountDecides' /\ InstantsFit' /\ AgesBound'
      BY <1>3, <2>1, BreakerAssumption
      DEF ReportFailure, RecordFailure, UpdateState, TypeOK, CountDecides, InstantsFit,
          AgesBound, Breakers, Ages, NoTime
    <2> QED BY <2>1, <2>2
  <1>4. ASSUME NEW r \in Requests, Leave(r) PROVE IInv'
    BY <1>4 DEF Leave, TypeOK, CallStates, CountDecides, InstantsFit, AgesBound
  <1>5. CASE ReadState
    <2>1. TypeOK'
      BY <1>5, MethodTypes DEF ReadState, TypeOK
    <2>2. CountDecides' /\ InstantsFit' /\ AgesBound'
      BY <1>5, UpdateKeepsIInv
      DEF ReadState, CountDecides, InstantsFit, AgesBound
    <2> QED BY <2>1, <2>2
  <1>6. CASE Tick
    <2>1. TypeOK'
      BY <1>6, MethodTypes, OlderIsAge DEF Tick, TypeOK
    <2>2. /\ breaker'.state = breaker.state
          /\ breaker'.failures = breaker.failures
          /\ breaker'.opened = Older(breaker.opened)
          /\ breaker'.trial = Older(breaker.trial)
      BY <1>6 DEF Tick, Elapse, Breakers
    <2>3. CountDecides' /\ InstantsFit'
      BY <2>2, OlderIsAge DEF CountDecides, InstantsFit, Breakers
    <2>4. AgesBound'
      <3>1. Older(Cooldown) = Cooldown /\ Cooldown \in Ages
        BY BreakerAssumption DEF Older, Ages
      <3>2. CASE breaker.state = "open"
        BY <1>6, <2>2, <3>2, OlderIsMonotone
        DEF Tick, AgesBound, InstantsFit, Breakers
      <3>3. CASE breaker.state = "half_open"
        <4>1. sinceFailure' >= Cooldown
          BY <1>6, <3>1, <3>3, OlderIsMonotone DEF Tick, AgesBound
        <4>2. CASE breaker.trial = NoTime
          BY <1>6, <2>2, <3>1, <3>3, <4>1, <4>2, OlderIsMonotone, OlderIsAge
          DEF Tick, AgesBound, Breakers
        <4>3. CASE breaker.trial # NoTime
          BY <1>6, <2>2, <3>1, <3>3, <4>1, <4>3, OlderIsMonotone, OlderIsAge
          DEF Tick, AgesBound, Breakers
        <4> QED BY <4>2, <4>3
      <3>4. CASE breaker.state = "closed"
        BY <2>2, <3>4 DEF AgesBound
      <3> QED BY <3>2, <3>3, <3>4 DEF Breakers
    <2> QED BY <2>1, <2>3, <2>4
  <1>7. CASE UNCHANGED vars
    BY <1>7 DEF vars, TypeOK, CountDecides, InstantsFit, AgesBound
  <1> QED BY <1>1, <1>2, <1>3, <1>4, <1>5, <1>6, <1>7 DEF Next

THEOREM Invariance == Spec => []IInv
  BY InitIInv, NextIInv, PTL DEF Spec

-----------------------------------------------------------------------------
(* What a reader should know of. *)

\* The variables keep their types under every interleaving.
THEOREM TypeCorrect == Spec => []TypeOK
  BY Invariance, PTL DEF IInv

\* Whichever requests report, and in whatever order, the breaker is closed
\* exactly while it has counted fewer failures than the threshold, and its
\* opening time and its trial claim are set exactly in the states that read them.
THEOREM FieldsAlwaysAgree == Spec => []FieldsAgree
  BY Invariance, PTL DEF IInv, FieldsAgree

\* Two probes of a provider that is not known to be healthy, and a failure
\* and the next probe, are always a full cooldown apart.
THEOREM ProbeSpacing == Spec => ProbesAreSpaced
  <1>1. IInv /\ [Next]_vars =>
          [\A r \in Requests :
             Admitted(r) /\ breaker'.state # "closed"
               => sinceProbe >= Cooldown /\ sinceFailure >= Cooldown]_vars
    <2> SUFFICES ASSUME IInv, [Next]_vars, NEW r \in Requests,
                        Admitted(r), breaker'.state # "closed"
                 PROVE  sinceProbe >= Cooldown /\ sinceFailure >= Cooldown
      OBVIOUS
    <2>1. Ask(r) /\ Admits(breaker)
      BY DEF Admitted, IInv, TypeOK, Next, vars, Ask, ReportSuccess,
             ReportFailure, Leave, ReadState, Tick, CallStates
    <2> QED
      BY <2>1, BreakerAssumption
      DEF Ask, Admits, AllowRequest, UpdateState, TrialHeld, IInv, TypeOK,
          AgesBound, InstantsFit, Breakers, Ages, NoTime
  <1> QED BY <1>1, Invariance, PTL DEF Spec, ProbesAreSpaced

(***************************************************************************)
(* The bucket of a key                                                     *)
(***************************************************************************)

\* The key remembers the last call, and Redis keeps it at least a time to live
\* after that call's stamp.
StampFits ==
  /\ last <= clock /\ MaxLag <= clock
  /\ bucket.live => /\ bucket.updated_at = last
                    /\ last + TimeToLive(rate) <= bucket.expires
                    /\ clock < bucket.expires

\* A bucket that called before and is not live has expired since.  (One that
\* was never called has no window either.)
ExpiredSince == window.first # NoStamp /\ ~bucket.live => last + TimeToLive(rate) <= clock

\* What a window may have been granted.
Allowance(w, previous) ==
  Capacity * (1 + w.renewed) + rate * (previous - w.first + w.regress)

\* The tokens still in a live bucket are within the allowance too: it is this
\* that a call preserves.
TokensCounted ==
  window.first # NoStamp /\ bucket.live =>
    window.granted + bucket.tokens <= Allowance(window, last)

BucketInv == BucketTypeOK /\ StampFits /\ ExpiredSince /\ TokensCounted /\ RateBound

-----------------------------------------------------------------------------
(* The script. *)

\* A key lives long enough for its bucket to fill, and the lag on top.
LEMMA LivesUntilFull ==
  ASSUME NEW r \in Nat, r > 0
  PROVE  /\ TimeToLive(r) \in Nat
         /\ TimeToLive(r) - MaxLag \in Nat
         /\ Capacity <= r * (TimeToLive(r) - MaxLag)
  <1> DEFINE q == (Capacity + r - 1) \div r
  <1>1. q \in Nat /\ Capacity <= r * q
    BY BucketAssumption
  <1>2. TimeToLive(r) = q + Margin
    BY DEF TimeToLive
  <1>3. TimeToLive(r) - MaxLag \in Nat /\ q <= TimeToLive(r) - MaxLag
    BY <1>1, <1>2, BucketAssumption
  <1> HIDE DEF q
  <1>4. r * q <= r * (TimeToLive(r) - MaxLag)
    BY <1>1, <1>3
  <1> QED BY <1>1, <1>2, <1>3, <1>4, BucketAssumption

LEMMA TimeToLiveIsNat ==
  ASSUME NEW r \in Nat
  PROVE  TimeToLive(r) \in Nat
  BY LivesUntilFull, BucketAssumption DEF TimeToLive

LEMMA RefilledFits ==
  ASSUME NEW b \in Buckets, NEW r \in Nat, NEW stamp \in Int
  PROVE  Refilled(b, r, stamp) \in 0..Capacity
  <1>1. Elapsed(b, stamp) \in Nat
    BY DEF Elapsed, Buckets
  <1>2. Elapsed(b, stamp) * r \in Nat
    BY <1>1
  <1> QED BY <1>1, <1>2, BucketAssumption DEF Refilled, Buckets

-----------------------------------------------------------------------------
(* The invariant. *)

LEMMA InitBucketInv == BucketInit => BucketInv
  BY BucketAssumption
  DEF BucketInit, BucketInv, BucketTypeOK, StampFits, ExpiredSince, TokensCounted,
      RateBound, Granted, NoBucket, Buckets, FreshWindow, Windows, NoStamp

LEMMA PassesKeepsBucketInv ==
  ASSUME BucketInv, Passes
  PROVE  BucketInv'
  <1> USE DEF BucketInv
  <1>1. BucketTypeOK'
    BY BucketAssumption DEF BucketTypeOK, Passes, Aged, NoBucket, Buckets
  <1>2. StampFits' /\ ExpiredSince'
    <2>1. TimeToLive(rate) \in Nat
      BY TimeToLiveIsNat, BucketAssumption DEF BucketTypeOK
    <2>2. CASE bucket.live /\ bucket.expires <= clock + 1
      BY <2>1, <2>2, BucketAssumption
      DEF BucketTypeOK, StampFits, ExpiredSince, Passes, Aged, NoBucket, Buckets
    <2>3. CASE ~(bucket.live /\ bucket.expires <= clock + 1)
      BY <2>1, <2>3, BucketAssumption
      DEF BucketTypeOK, StampFits, ExpiredSince, Passes, Aged, Buckets
    <2> QED BY <2>2, <2>3
  <1>3. TokensCounted' /\ RateBound'
    BY DEF TokensCounted, RateBound, Granted, Allowance, Passes, Aged, NoBucket
  <1> QED BY <1>1, <1>2, <1>3

\* The window after its first call.
LEMMA FirstWatched ==
  ASSUME NEW w, NEW b, NEW stamp \in Nat, NEW previous, NEW granted \in Nat,
         w.first = NoStamp
  PROVE  LET v == Watched(w, b, stamp, previous, granted)
         IN  /\ v \in Windows
             /\ v.first = stamp /\ v.granted = granted
             /\ v.regress = 0 /\ v.renewed = 0
  <1>1. Watched(w, b, stamp, previous, granted)
          = [first |-> stamp, granted |-> granted, regress |-> 0, renewed |-> 0]
    BY DEF Watched, FreshWindow
  <1> QED BY <1>1 DEF Windows

\* By how much a stamp is behind the one before it, and whether a call found
\* its key expired and no refill to explain its tokens.
Behind(stamp, previous) == IF stamp < previous THEN previous - stamp ELSE 0
Renewals(b) == IF rate = 0 /\ ~b.live THEN 1 ELSE 0

\* The window after a later call: stamps that are behind the call before them
\* add to regress, and a key that had expired without refill to renewed.
LEMMA LaterWatched ==
  ASSUME NEW w \in Windows, NEW b, NEW stamp \in Nat, NEW previous \in Nat,
         NEW granted \in Nat, w.first # NoStamp
  PROVE  /\ Watched(w, b, stamp, previous, granted) \in Windows
         /\ Watched(w, b, stamp, previous, granted).first = w.first
         /\ Watched(w, b, stamp, previous, granted).granted = w.granted + granted
         /\ Watched(w, b, stamp, previous, granted).regress
              = w.regress + Behind(stamp, previous)
         /\ Watched(w, b, stamp, previous, granted).renewed = w.renewed + Renewals(b)
  <1> DEFINE back  == Behind(stamp, previous)
             again == Renewals(b)
             v     == [w EXCEPT !.granted = @ + granted, !.regress = @ + back,
                                !.renewed = @ + again]
  <1>1. Watched(w, b, stamp, previous, granted) = v
    BY Zenon DEF Watched, Behind, Renewals
  <1>2. back \in Nat /\ again \in Nat
    BY DEF Behind, Renewals
  <1> HIDE DEF back, again
  <1>3. /\ w.granted + granted \in Nat
        /\ w.regress + back \in Nat /\ w.renewed + again \in Nat
    BY <1>2 DEF Windows
  <1>4. v \in Windows
    BY <1>3 DEF Windows
  <1>5. /\ v.first = w.first /\ v.granted = w.granted + granted
        /\ v.regress = w.regress + back /\ v.renewed = w.renewed + again
    BY <1>3 DEF Windows
  <1> HIDE DEF v
  <1> QED BY <1>1, <1>4, <1>5 DEF back, again

\* The allowance after a later call, at a stamp that is not behind.
LEMMA AllowanceForward ==
  ASSUME NEW r \in Nat, NEW first \in Int, NEW regress \in Nat,
         NEW previous \in Nat, NEW stamp \in Nat
  PROVE  r * (stamp - first + regress)
           = r * (previous - first + regress) + r * (stamp - previous)
  <1>1. \A x, y \in Int : r * (x + y) = r * x + r * y
    OBVIOUS
  <1>2. stamp - first + regress = (previous - first + regress) + (stamp - previous)
    OBVIOUS
  <1>3. previous - first + regress \in Int /\ stamp - previous \in Int
    OBVIOUS
  <1> QED BY <1>1, <1>2, <1>3

\* What the keys that expired without refill are worth.
LEMMA AllowanceRenewed ==
  ASSUME NEW renewed \in Nat
  PROVE  Capacity * (1 + (renewed + 1)) = Capacity * (1 + renewed) + Capacity
  <1>1. \A x, y \in Int : Capacity * (x + y) = Capacity * x + Capacity * y
    BY BucketAssumption
  <1>2. Capacity * ((1 + renewed) + 1) = Capacity * (1 + renewed) + Capacity * 1
    BY <1>1
  <1> QED BY <1>2, BucketAssumption

\* A call leaves the tokens counted: what was granted and what is left are
\* within the allowance at its stamp.
LEMMA CheckKeepsTokensCounted ==
  ASSUME BucketInv, NEW stamp \in (clock - MaxLag)..clock, Check(stamp)
  PROVE  /\ window' \in Windows
         /\ window'.granted + Refilled(bucket, rate, stamp)
                - (IF Allowed(bucket, rate, stamp) THEN 1 ELSE 0)
              <= Capacity * (1 + window'.renewed)
                   + rate * (stamp - window'.first + window'.regress)
  <1> DEFINE full  == Refilled(bucket, rate, stamp)
             taken == IF Allowed(bucket, rate, stamp) THEN 1 ELSE 0
             back  == Behind(stamp, last)
             again == Renewals(bucket)
  <1>1. /\ StampFits /\ ExpiredSince /\ TokensCounted /\ RateBound
        /\ rate \in Nat /\ clock \in Nat /\ last \in Nat /\ stamp \in Nat
        /\ bucket \in Buckets /\ window \in Windows
        /\ TimeToLive(rate) \in Nat
    BY TimeToLiveIsNat, BucketAssumption DEF BucketInv, BucketTypeOK, StampFits
  <1>2. full \in 0..Capacity
    BY <1>1, RefilledFits
  <1>3. taken \in Nat /\ back \in Nat /\ again \in Nat
    BY <1>1 DEF Behind, Renewals
  <1>4. window' = Watched(window, bucket, stamp, last, taken)
    BY DEF Check
  <1>5. back = (IF stamp < last THEN last - stamp ELSE 0)
        /\ again = (IF rate = 0 /\ ~bucket.live THEN 1 ELSE 0)
    BY DEF Behind, Renewals
  <1>6. CASE window.first = NoStamp
    <2>1. /\ window' \in Windows
          /\ window'.first = stamp /\ window'.granted = taken
          /\ window'.regress = 0 /\ window'.renewed = 0
      BY <1>1, <1>3, <1>4, <1>6, FirstWatched
    <2>2. stamp - window'.first + window'.regress = 0 /\ rate * 0 = 0
      BY <1>1, <2>1
    <2>3. Capacity * (1 + window'.renewed) = Capacity
      BY <2>1, BucketAssumption
    <2> HIDE DEF full, taken
    <2>4. window'.granted + full - taken <= Capacity
      BY <1>2, <1>3, <2>1, BucketAssumption
    <2>5. window'.granted + full - taken
            <= Capacity * (1 + window'.renewed)
                 + rate * (stamp - window'.first + window'.regress)
      BY <2>2, <2>3, <2>4, BucketAssumption
    <2> QED BY <2>1, <2>5 DEF full, taken
  <1>7. CASE window.first # NoStamp
    <2>1. /\ window' \in Windows
          /\ window'.first = window.first /\ window'.granted = window.granted + taken
          /\ window'.regress = window.regress + back
          /\ window'.renewed = window.renewed + again
      <3>1. window \in Windows /\ stamp \in Nat /\ last \in Nat /\ taken \in Nat
        BY <1>1, <1>3
      <3> HIDE DEF taken
      <3> QED BY <1>4, <1>7, <3>1, LaterWatched
    <2>2. window.first \in Int /\ window.granted \in Nat
          /\ window.regress \in Nat /\ window.renewed \in Nat
      BY <1>1 DEF Windows
    <2> DEFINE before == rate * (last - window.first + window.regress)
               worth  == Capacity * (1 + window.renewed)
    <2>3. before \in Int /\ worth \in Int
      BY <1>1, <2>2, BucketAssumption
    <2>4. Capacity * (1 + window'.renewed) = worth + (IF again = 1 THEN Capacity ELSE 0)
      BY <1>5, <2>1, <2>2, AllowanceRenewed, BucketAssumption
    <2>5. rate * (stamp - window'.first + window'.regress)
            = before + (IF stamp < last THEN 0 ELSE rate * (stamp - last))
      <3>1. CASE stamp < last
        <4>1. stamp - window'.first + window'.regress = last - window.first + window.regress
          BY <1>1, <1>5, <2>1, <2>2, <3>1
        <4> QED BY <1>1, <2>3, <3>1, <4>1
      <3>2. CASE ~(stamp < last)
        <4>1. window'.regress = window.regress
          BY <1>5, <2>1, <2>2, <3>2
        <4>2. rate * (stamp - window.first + window.regress) = before + rate * (stamp - last)
          BY <1>1, <2>2, AllowanceForward
        <4> QED BY <2>1, <3>2, <4>1, <4>2
      <3> QED BY <3>1, <3>2
    <2>6. window.granted + full
            <= worth + (IF again = 1 THEN Capacity ELSE 0)
                 + before + (IF stamp < last THEN 0 ELSE rate * (stamp - last))
      <3>1. CASE bucket.live
        <4>1. window.granted + bucket.tokens <= worth + before /\ bucket.tokens \in Nat
          BY <1>1, <1>7, <3>1 DEF TokensCounted, Allowance, Buckets
        <4>2. again = 0
          BY <1>5, <3>1
        <4>3. full <= bucket.tokens + (IF stamp < last THEN 0 ELSE rate * (stamp - last))
          <5>1. bucket.updated_at = last
            BY <1>1, <3>1 DEF StampFits
          <5>2. CASE stamp < last
            BY <1>1, <3>1, <4>1, <5>1, <5>2, BucketAssumption DEF Refilled, Elapsed
          <5>3. CASE ~(stamp < last)
            <6>1. Elapsed(bucket, stamp) = stamp - last
              BY <1>1, <5>1, <5>3 DEF Elapsed
            <6>2. (stamp - last) * rate = rate * (stamp - last)
                  /\ rate * (stamp - last) \in Nat
              BY <1>1, <5>3
            <6> QED BY <1>1, <3>1, <4>1, <5>3, <6>1, <6>2, BucketAssumption DEF Refilled
          <5> QED BY <5>2, <5>3
        <4>4. rate * (stamp - last) \in Int
          BY <1>1
        <4> HIDE DEF before, worth, full, again
        <4> QED BY <1>2, <2>2, <2>3, <4>1, <4>2, <4>3, <4>4, BucketAssumption
      <3>2. CASE ~bucket.live
        <4>1. window.granted <= worth + before
          BY <1>1, <1>7 DEF RateBound, Granted
        <4>2. full = Capacity
          BY <3>2 DEF Refilled
        <4>3. CASE rate = 0
          <5>1. again = 1 /\ rate * (stamp - last) = 0
            BY <1>1, <1>5, <3>2, <4>3
          <5> HIDE DEF before, worth, full, again
          <5> QED BY <2>2, <2>3, <4>1, <4>2, <5>1, BucketAssumption
        <4>4. CASE rate # 0
          <5>1. last + TimeToLive(rate) <= stamp + MaxLag
            BY <1>1, <1>7, <3>2, BucketAssumption DEF ExpiredSince
          <5>2. TimeToLive(rate) - MaxLag \in Nat
                /\ Capacity <= rate * (TimeToLive(rate) - MaxLag)
            BY <1>1, <4>4, LivesUntilFull
          <5>3. stamp - last \in Nat /\ TimeToLive(rate) - MaxLag <= stamp - last
            BY <1>1, <5>1, <5>2, BucketAssumption
          <5>4. \A x, y \in Nat : x <= y => rate * x <= rate * y
            BY <1>1
          <5>5. rate * (TimeToLive(rate) - MaxLag) <= rate * (stamp - last)
            BY <5>2, <5>3, <5>4
          <5>6. rate * (TimeToLive(rate) - MaxLag) \in Int /\ rate * (stamp - last) \in Int
            BY <1>1, <5>2, <5>3
          <5>7. again = 0 /\ ~(stamp < last)
            BY <1>1, <1>5, <4>4, <5>3
          <5> HIDE DEF before, worth, full, again
          <5> QED
            BY <2>2, <2>3, <4>1, <4>2, <5>2, <5>5, <5>6, <5>7, BucketAssumption
        <4> QED BY <4>3, <4>4
      <3> QED BY <3>1, <3>2
    <2>7. window'.granted + full - taken = window.granted + full
      <3> HIDE DEF full, taken
      <3> QED BY <1>2, <1>3, <2>1, <2>2, BucketAssumption
    <2>8. (IF stamp < last THEN 0 ELSE rate * (stamp - last)) \in Int
          /\ (IF again = 1 THEN Capacity ELSE 0) \in Int
      BY <1>1, BucketAssumption
    <2>9. Capacity * (1 + window'.renewed)
            + rate * (stamp - window'.first + window'.regress)
          = worth + (IF again = 1 THEN Capacity ELSE 0)
              + before + (IF stamp < last THEN 0 ELSE rate * (stamp - last))
      <3> HIDE DEF before, worth, again
      <3> QED BY <2>3, <2>4, <2>5, <2>8
    <2> HIDE DEF before, worth
    <2> QED BY <2>1, <2>6, <2>7, <2>9
  <1> QED BY <1>6, <1>7

LEMMA CheckKeepsBucketInv ==
  ASSUME BucketInv, NEW stamp \in (clock - MaxLag)..clock, Check(stamp)
  PROVE  BucketInv'
  <1> DEFINE left == Refilled(bucket, rate, stamp)
                       - (IF Allowed(bucket, rate, stamp) THEN 1 ELSE 0)
  <1>1. /\ BucketTypeOK /\ StampFits
        /\ rate \in Rates /\ rate \in Nat /\ clock \in Nat /\ stamp \in Nat
        /\ bucket \in Buckets
        /\ TimeToLive(rate) \in Nat
    BY TimeToLiveIsNat, BucketAssumption DEF BucketInv, BucketTypeOK, StampFits
  <1>2. left \in 0..Capacity
    <2>1. Refilled(bucket, rate, stamp) \in 0..Capacity
      BY <1>1, RefilledFits
    <2> QED BY <2>1, BucketAssumption DEF Allowed
  <1>3. bucket' = [live |-> TRUE, tokens |-> left, updated_at |-> stamp,
                   expires |-> clock + TimeToLive(rate)]
    BY DEF Check, Script, UpdatedAt
  <1>4. UNCHANGED <<clock, rate>> /\ last' = stamp
    BY DEF Check
  <1>5. /\ window' \in Windows
        /\ window'.granted + left
             <= Capacity * (1 + window'.renewed)
                  + rate * (stamp - window'.first + window'.regress)
    <2>1. window'.granted \in Nat /\ window' \in Windows
      BY CheckKeepsTokensCounted DEF Windows
    <2>2. window'.granted + left
            = window'.granted + Refilled(bucket, rate, stamp)
                - (IF Allowed(bucket, rate, stamp) THEN 1 ELSE 0)
      BY <1>1, <2>1, RefilledFits, BucketAssumption
    <2> QED BY <2>1, <2>2, CheckKeepsTokensCounted
  <1> HIDE DEF left
  <1>6. BucketTypeOK'
    <2>1. bucket' \in Buckets
      BY <1>1, <1>2, <1>3 DEF Buckets
    <2> QED BY <1>1, <1>4, <1>5, <2>1 DEF BucketTypeOK
  <1>7. StampFits' /\ ExpiredSince'
    <2>1. 0 < TimeToLive(rate)
      BY <1>1, LivesUntilFull, BucketAssumption DEF TimeToLive
    <2>2. clock < clock + TimeToLive(rate)
      BY <1>1, <2>1
    <2>3. last' + TimeToLive(rate') <= clock + TimeToLive(rate)
      BY <1>1, <1>4, BucketAssumption
    <2>4. StampFits'
      BY <1>1, <1>3, <1>4, <2>2, <2>3, BucketAssumption DEF StampFits
    <2>5. ExpiredSince'
      BY <1>3 DEF ExpiredSince
    <2> QED BY <2>4, <2>5
  <1>8. TokensCounted'
    BY <1>3, <1>4, <1>5 DEF TokensCounted, Allowance
  <1>9. RateBound'
    <2>1. window'.granted \in Nat /\ window'.first \in Int
          /\ window'.regress \in Nat /\ window'.renewed \in Nat
      BY <1>5 DEF Windows
    <2> DEFINE allowed == Capacity * (1 + window'.renewed)
                            + rate * (stamp - window'.first + window'.regress)
    <2>2. allowed \in Int /\ window'.granted + left <= allowed
      BY <1>1, <1>5, <2>1, BucketAssumption
    <2>3. window'.granted <= allowed
      <3> HIDE DEF allowed
      <3> QED BY <1>2, <2>1, <2>2, BucketAssumption
    <2> QED BY <1>4, <2>3 DEF RateBound, Granted
  <1> QED BY <1>6, <1>7, <1>8, <1>9 DEF BucketInv

LEMMA BucketInvIsInductive ==
  ASSUME BucketInv, [BucketNext]_bucketVars
  PROVE  BucketInv'
  <1>1. CASE OpenWindow
    BY <1>1
    DEF BucketInv, BucketTypeOK, StampFits, ExpiredSince, TokensCounted, RateBound, Granted,
        OpenWindow, FreshWindow, Windows, NoStamp
  <1>2. CASE Passes
    BY <1>2, PassesKeepsBucketInv
  <1>3. ASSUME NEW stamp \in (clock - MaxLag)..clock, Check(stamp)
        PROVE  BucketInv'
    BY <1>3, CheckKeepsBucketInv
  <1>4. CASE UNCHANGED bucketVars
    BY <1>4
    DEF BucketInv, BucketTypeOK, StampFits, ExpiredSince, TokensCounted, Allowance,
        RateBound, Granted, bucketVars
  <1> QED BY <1>1, <1>2, <1>3, <1>4 DEF BucketNext

\* The invariant holds of every bucket, whatever its callers' clocks say.
THEOREM BucketInvariant == BucketSpec => []BucketInv
  <1>1. BucketInit => BucketInv
    BY InitBucketInv
  <1>2. BucketInv /\ [BucketNext]_bucketVars => BucketInv'
    BY BucketInvIsInductive
  <1> QED BY <1>1, <1>2, PTL DEF BucketSpec

\* In any window of calls, a bucket grants no more than its capacity and the
\* refill, with the credit for stamps that went back and for keys that expired
\* without refill.
THEOREM BucketsAreRateBound == BucketSpec => []RateBound
  BY BucketInvariant, PTL DEF BucketInv

\* A bucket stays a bucket.
THEOREM BucketTypes == BucketSpec => []BucketTypeOK
  BY BucketInvariant, PTL DEF BucketInv

===============================================================================
