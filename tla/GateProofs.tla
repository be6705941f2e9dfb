------------------------------ MODULE GateProofs ------------------------------
(***************************************************************************)
(* Theorems about Gate, for any requests, keys and buckets, any capacity,  *)
(* refill, margin and lag, and any number of faults.                       *)
(*                                                                         *)
(* The invariant has a conjunct for each bucket (LimiterFits), one for     *)
(* each request (RequestFits) and one for the rows of the keys             *)
(* (TrailMatchesKeys).                                                     *)
(***************************************************************************)
EXTENDS Gate, TLAPS

\* Of a window that has seen no call.
NoStamp == -1

\* What a window whose last call had this stamp may have been granted.
Allowance(w, previous, r) ==
  Capacity * (1 + w.renewed) + r * (previous - w.first + w.regress)

\* A key remembers the last call, and Redis keeps it at least a time to live
\* after that call's stamp; one that is gone has been due for as long.  The
\* tokens still in a live bucket are within the allowance too: it is this that
\* a call preserves.
LimiterFits(b, w, previous, now, r) ==
  /\ previous <= now
  /\ b.live => /\ b.updated_at = previous
               /\ previous + TimeToLive(r) <= b.expires
               /\ now < b.expires
  /\ w.first # NoStamp /\ ~b.live => previous + TimeToLive(r) <= now
  /\ w.first # NoStamp /\ b.live => w.granted + b.tokens <= Allowance(w, previous, r)
  /\ w.first # NoStamp => w.granted <= Allowance(w, previous, r)

\* A row that was issued is there for ever, active or revoked.
Issued(k) == k \in DbKeys /\ row[k] # "absent"

\* A client that takes a token has a key of the environment, or one that was
\* issued; a transaction that is open acts on a row as it was when it read it,
\* or on a row that only it knows of.
RequestFits(r) ==
  /\ pc[r] \in Asking => stamp[r] <= clock
  /\ pc[r] = "client_taking" => key[r] \in ClientKeys /\ (key[r] \in EnvKeys \/ Issued(key[r]))
  /\ pc[r] \in {"revoke_taking", "loading", "revoking"} => key[r] \in DbKeys
  /\ pc[r] = "revoking" => Issued(key[r])
  /\ pc[r] = "flushed" =>
       /\ key[r] \in DbKeys /\ row[key[r]] = "absent"
       /\ \A s \in Requests : pc[s] = "flushed" /\ key[s] = key[r] => s = r
  /\ pc[r] \in {"wrong_key", "issuing", "flushed", "loading", "revoking", "done",
                "not_found", "passed"} => paid[r]
  /\ tooLate[r] => pc[r] \in {"looking_up", "denied", "failed"} /\ Revoked(key[r])

LimitersFit ==
  \A k \in Labels : LimiterFits(bucket[k], window[k], last[k], clock, rate)

GateInv == /\ TypeOK
           /\ LimitersFit
           /\ StrangersLeaveNoBucket
           /\ \A r \in Requests : RequestFits(r)
           /\ TrailMatchesKeys

-----------------------------------------------------------------------------
(* The script. *)

\* A key lives long enough for its bucket to fill, and the lag on top.
LEMMA LivesUntilFull ==
  ASSUME NEW r \in Nat, r > 0
  PROVE  /\ TimeToLive(r) \in Nat
         /\ TimeToLive(r) - MaxLag \in Nat
         /\ Capacity <= r * (TimeToLive(r) - MaxLag)
  <1> DEFINE q == (Capacity + r - 1) \div r
  <1>1. q \in Nat /\ Capacity <= r * q
    BY BucketAssumption
  <1>2. TimeToLive(r) = q + Margin
    BY DEF TimeToLive
  <1>3. TimeToLive(r) - MaxLag \in Nat /\ q <= TimeToLive(r) - MaxLag
    BY <1>1, <1>2, BucketAssumption
  <1> HIDE DEF q
  <1>4. r * q <= r * (TimeToLive(r) - MaxLag)
    BY <1>1, <1>3
  <1> QED BY <1>1, <1>2, <1>3, <1>4, BucketAssumption

LEMMA TimeToLiveIsPositive ==
  ASSUME NEW r \in Nat
  PROVE  TimeToLive(r) \in Nat /\ 0 < TimeToLive(r)
  <1>1. CASE r = 0
    BY <1>1, BucketAssumption DEF TimeToLive
  <1>2. CASE r # 0
    <2>1. /\ TimeToLive(r) \in Nat
          /\ Capacity <= r * (TimeToLive(r) - MaxLag)
      BY <1>2, LivesUntilFull
    <2>2. TimeToLive(r) # 0
      <3> SUFFICES ASSUME TimeToLive(r) = 0 PROVE FALSE
        OBVIOUS
      <3>1. r * (0 - MaxLag) = 0 - r * MaxLag /\ r * MaxLag \in Nat
        BY BucketAssumption
      <3> QED BY <2>1, <3>1, BucketAssumption
    <2> QED BY <2>1, <2>2
  <1> QED BY <1>1, <1>2

LEMMA RefilledFits ==
  ASSUME NEW b \in Buckets, NEW r \in Nat, NEW now \in Int
  PROVE  Refilled(b, r, now) \in 0..Capacity
  <1>1. Elapsed(b, now) \in Nat
    BY DEF Elapsed, Buckets
  <1>2. Elapsed(b, now) * r \in Nat
    BY <1>1
  <1> QED BY <1>1, <1>2, BucketAssumption DEF Refilled, Buckets

\* By how much a stamp is behind the one before it, and whether a call found
\* its key expired and no refill to explain its tokens.
Behind(now, previous) == IF now < previous THEN previous - now ELSE 0
Renewals(b, r) == IF r = 0 /\ ~b.live THEN 1 ELSE 0

\* v is what a window w has become by a call: its first, or one that is counted
\* with the calls before it.
Counts(v, w, b, now, previous, granted, r) ==
  /\ v \in Windows
  /\ w.first = NoStamp => /\ v.first = now /\ v.granted = granted
                          /\ v.regress = 0 /\ v.renewed = 0
  /\ w.first # NoStamp => /\ v.first = w.first
                          /\ v.granted = w.granted + granted
                          /\ v.regress = w.regress + Behind(now, previous)
                          /\ v.renewed = w.renewed + Renewals(b, r)

LEMMA WindowsAre ==
  /\ Windows = [first : Int, granted : Nat, regress : Nat, renewed : Nat]
  /\ FreshWindow \in Windows /\ FreshWindow.first = NoStamp
  BY DEF Windows, FreshWindow, Limiter!Windows, Limiter!FreshWindow, Limiter!NoStamp, NoStamp

LEMMA WatchedCounts ==
  ASSUME NEW w \in Windows, NEW b, NEW now \in Nat, NEW previous \in Nat,
         NEW granted \in Nat
  PROVE  Counts(Watched(w, b, now, previous, granted), w, b, now, previous, granted, rate)
  <1> DEFINE back  == Behind(now, previous)
             again == Renewals(b, rate)
             u == [FreshWindow EXCEPT !.first = now, !.granted = granted]
             v == [w EXCEPT !.granted = @ + granted, !.regress = @ + back,
                            !.renewed = @ + again]
  <1>1. Watched(w, b, now, previous, granted) = IF w.first = NoStamp THEN u ELSE v
    BY Zenon DEF Watched, Limiter!Watched, Limiter!FreshWindow, Limiter!NoStamp, NoStamp,
                 FreshWindow, Behind, Renewals
  <1>2. back \in Nat /\ again \in Nat
    BY DEF Behind, Renewals
  <1>3. u \in Windows /\ u.first = now /\ u.granted = granted /\ u.regress = 0 /\ u.renewed = 0
    <2>1. FreshWindow.regress = 0 /\ FreshWindow.renewed = 0
      BY DEF FreshWindow, Limiter!FreshWindow
    <2>2. /\ FreshWindow \in [first : Int, granted : Nat, regress : Nat, renewed : Nat]
          /\ now \in Int
      BY WindowsAre
    <2>3. u \in [first : Int, granted : Nat, regress : Nat, renewed : Nat]
      BY <2>2
    <2>4. /\ u.first = now /\ u.granted = granted
          /\ u.regress = FreshWindow.regress /\ u.renewed = FreshWindow.renewed
      BY <2>2
    <2> HIDE DEF u
    <2> QED BY <2>1, <2>3, <2>4, WindowsAre
  <1> HIDE DEF back, again
  <1>4. /\ w.granted + granted \in Nat
        /\ w.regress + back \in Nat /\ w.renewed + again \in Nat
    BY <1>2, WindowsAre
  <1>5. /\ v \in Windows
        /\ v.first = w.first /\ v.granted = w.granted + granted
        /\ v.regress = w.regress + back /\ v.renewed = w.renewed + again
    BY <1>4, WindowsAre
  <1> HIDE DEF u, v
  <1> QED BY <1>1, <1>3, <1>5 DEF Counts, back, again

\* The allowance after a later call, at a stamp that is not behind.
LEMMA AllowanceForward ==
  ASSUME NEW r \in Nat, NEW first \in Int, NEW regress \in Nat,
         NEW previous \in Nat, NEW now \in Nat
  PROVE  r * (now - first + regress)
           = r * (previous - first + regress) + r * (now - previous)
  <1>1. \A x, y \in Int : r * (x + y) = r * x + r * y
    OBVIOUS
  <1>2. now - first + regress = (previous - first + regress) + (now - previous)
    OBVIOUS
  <1>3. previous - first + regress \in Int /\ now - previous \in Int
    OBVIOUS
  <1> QED BY <1>1, <1>2, <1>3

\* What the keys that expired without refill are worth.
LEMMA AllowanceRenewed ==
  ASSUME NEW renewed \in Nat
  PROVE  Capacity * (1 + (renewed + 1)) = Capacity * (1 + renewed) + Capacity
  <1>1. \A x, y \in Int : Capacity * (x + y) = Capacity * x + Capacity * y
    BY BucketAssumption
  <1>2. Capacity * ((1 + renewed) + 1) = Capacity * (1 + renewed) + Capacity * 1
    BY <1>1
  <1> QED BY <1>2, BucketAssumption

\* A call leaves the tokens counted: what was granted and what is left are
\* within the allowance at its stamp.
LEMMA CallKeepsTokensCounted ==
  ASSUME NEW b \in Buckets, NEW w \in Windows, NEW v, NEW previous \in Nat,
         NEW clk \in Nat, NEW r \in Nat, NEW now \in Nat, clk <= now + MaxLag,
         NEW taken \in Nat, LimiterFits(b, w, previous, clk, r),
         Counts(v, w, b, now, previous, taken, r)
  PROVE  v.granted + Refilled(b, r, now) - taken <= Allowance(v, now, r)
  <1> DEFINE full  == Refilled(b, r, now)
             back  == Behind(now, previous)
             again == Renewals(b, r)
  <1>1. /\ w.first \in Int /\ w.granted \in Nat /\ w.regress \in Nat /\ w.renewed \in Nat
        /\ v.first \in Int /\ v.granted \in Nat /\ v.regress \in Nat /\ v.renewed \in Nat
    BY WindowsAre DEF Counts
  <1>2. full \in 0..Capacity
    BY RefilledFits
  <1>3. /\ back = (IF now < previous THEN previous - now ELSE 0)
        /\ again = (IF r = 0 /\ ~b.live THEN 1 ELSE 0)
        /\ back \in Nat /\ again \in Nat
    BY DEF Behind, Renewals
  <1>4. CASE w.first = NoStamp
    <2>1. v.first = now /\ v.granted = taken /\ v.regress = 0 /\ v.renewed = 0
      BY <1>4 DEF Counts
    <2>2. Allowance(v, now, r) = Capacity
      <3>1. now - v.first + v.regress = 0 /\ r * 0 = 0 /\ Capacity * (1 + v.renewed) = Capacity
        BY <2>1, BucketAssumption
      <3> QED BY <3>1, BucketAssumption DEF Allowance
    <2> HIDE DEF full
    <2> QED BY <1>2, <2>1, <2>2, BucketAssumption DEF full
  <1>5. CASE w.first # NoStamp
    <2>1. /\ v.first = w.first /\ v.granted = w.granted + taken
          /\ v.regress = w.regress + back /\ v.renewed = w.renewed + again
      BY <1>5 DEF Counts
    <2> DEFINE before == r * (previous - w.first + w.regress)
               worth  == Capacity * (1 + w.renewed)
    <2>2. before \in Int /\ worth \in Int
      BY <1>1, BucketAssumption
    <2>3. Capacity * (1 + v.renewed) = worth + (IF again = 1 THEN Capacity ELSE 0)
      BY <1>1, <1>3, <2>1, AllowanceRenewed, BucketAssumption
    <2>4. r * (now - v.first + v.regress)
            = before + (IF now < previous THEN 0 ELSE r * (now - previous))
      <3>1. CASE now < previous
        <4>1. now - v.first + v.regress = previous - w.first + w.regress
          BY <1>1, <1>3, <2>1, <3>1
        <4> QED BY <2>2, <3>1, <4>1
      <3>2. CASE ~(now < previous)
        <4>1. v.regress = w.regress
          BY <1>1, <1>3, <2>1, <3>2
        <4>2. r * (now - w.first + w.regress) = before + r * (now - previous)
          BY <1>1, AllowanceForward
        <4> QED BY <2>1, <3>2, <4>1, <4>2
      <3> QED BY <3>1, <3>2
    <2>5. w.granted + full
            <= worth + (IF again = 1 THEN Capacity ELSE 0)
                 + before + (IF now < previous THEN 0 ELSE r * (now - previous))
      <3>1. CASE b.live
        <4>1. w.granted + b.tokens <= worth + before /\ b.tokens \in Nat
          BY <1>5, <3>1, BucketAssumption DEF LimiterFits, Allowance, Buckets
        <4>2. again = 0
          BY <1>3, <3>1
        <4>3. full <= b.tokens + (IF now < previous THEN 0 ELSE r * (now - previous))
          <5>1. b.updated_at = previous
            BY <3>1 DEF LimiterFits
          <5>2. CASE now < previous
            BY <3>1, <4>1, <5>1, <5>2, BucketAssumption DEF Refilled, Elapsed
          <5>3. CASE ~(now < previous)
            <6>1. Elapsed(b, now) = now - previous
              BY <5>1, <5>3 DEF Elapsed
            <6>2. /\ (now - previous) * r = r * (now - previous)
                  /\ r * (now - previous) \in Nat
              BY <5>3
            <6> QED BY <3>1, <4>1, <5>3, <6>1, <6>2, BucketAssumption DEF Refilled
          <5> QED BY <5>2, <5>3
        <4>4. r * (now - previous) \in Int
          OBVIOUS
        <4> HIDE DEF before, worth, full, again
        <4> QED BY <1>1, <1>2, <2>2, <4>1, <4>2, <4>3, <4>4, BucketAssumption
      <3>2. CASE ~b.live
        <4>1. w.granted <= worth + before
          BY <1>5 DEF LimiterFits, Allowance
        <4>2. full = Capacity
          BY <3>2 DEF Refilled
        <4>3. CASE r = 0
          <5>1. again = 1 /\ r * (now - previous) = 0
            BY <1>3, <3>2, <4>3
          <5> HIDE DEF before, worth, full, again
          <5> QED BY <1>1, <2>2, <4>1, <4>2, <5>1, BucketAssumption
        <4>4. CASE r # 0
          <5>1. previous + TimeToLive(r) <= clk
            BY <1>5, <3>2 DEF LimiterFits
          <5>2. /\ TimeToLive(r) - MaxLag \in Nat /\ TimeToLive(r) \in Nat
                /\ Capacity <= r * (TimeToLive(r) - MaxLag)
            BY <4>4, LivesUntilFull
          <5>3. now - previous \in Nat /\ TimeToLive(r) - MaxLag <= now - previous
            BY <5>1, <5>2, BucketAssumption
          <5>4. \A x, y \in Nat : x <= y => r * x <= r * y
            OBVIOUS
          <5>5. r * (TimeToLive(r) - MaxLag) <= r * (now - previous)
            BY <5>2, <5>3, <5>4
          <5>6. r * (TimeToLive(r) - MaxLag) \in Int /\ r * (now - previous) \in Int
            BY <5>2, <5>3
          <5>7. again = 0 /\ ~(now < previous)
            BY <1>3, <4>4, <5>3
          <5> HIDE DEF before, worth, full, again
          <5> QED
            BY <1>1, <2>2, <4>1, <4>2, <5>2, <5>5, <5>6, <5>7, BucketAssumption
        <4> QED BY <4>3, <4>4
      <3> QED BY <3>1, <3>2
    <2>6. v.granted + full - taken = w.granted + full
      <3> HIDE DEF full
      <3> QED BY <1>1, <1>2, <2>1, BucketAssumption
    <2>7. (IF now < previous THEN 0 ELSE r * (now - previous)) \in Int
          /\ (IF again = 1 THEN Capacity ELSE 0) \in Int
      BY BucketAssumption
    <2>8. Allowance(v, now, r)
          = worth + (IF again = 1 THEN Capacity ELSE 0)
              + before + (IF now < previous THEN 0 ELSE r * (now - previous))
      <3> HIDE DEF before, worth, again
      <3> QED BY <2>2, <2>3, <2>4, <2>7 DEF Allowance
    <2> HIDE DEF before, worth
    <2> QED BY <2>5, <2>6, <2>8
  <1> QED BY <1>4, <1>5

\* The script leaves a bucket that fits, with the window that has counted it.
LEMMA ScriptFits ==
  ASSUME NEW b \in Buckets, NEW w \in Windows, NEW v, NEW previous \in Nat,
         NEW clk \in Nat, NEW r \in Nat, NEW now \in Nat,
         clk <= now + MaxLag, now <= clk,
         LimiterFits(b, w, previous, clk, r),
         Counts(v, w, b, now, previous, IF Allowed(b, r, now) THEN 1 ELSE 0, r)
  PROVE  /\ Script(b, r, now, clk) \in Buckets
         /\ Script(b, r, now, clk).live
         /\ LimiterFits(Script(b, r, now, clk), v, now, clk, r)
  <1> DEFINE taken == IF Allowed(b, r, now) THEN 1 ELSE 0
             full == Refilled(b, r, now)
             s == Script(b, r, now, clk)
  <1>1. full \in 0..Capacity /\ taken \in Nat /\ full - taken \in 0..Capacity
    <2>1. full \in 0..Capacity
      BY RefilledFits
    <2>2. Allowed(b, r, now) <=> full >= 1
      BY DEF Allowed
    <2> HIDE DEF full
    <2> QED BY <2>1, <2>2, BucketAssumption
  <1>2. TimeToLive(r) \in Nat /\ 0 < TimeToLive(r)
    BY TimeToLiveIsPositive
  <1>3. v.granted + full - taken <= Allowance(v, now, r)
    <2> HIDE DEF taken
    <2> QED BY <1>1, CallKeepsTokensCounted DEF taken
  <1>4. s = [live |-> TRUE, tokens |-> full - taken, updated_at |-> now,
             expires |-> clk + TimeToLive(r)]
    BY DEF Script, UpdatedAt
  <1>5. /\ v \in Windows /\ v.granted \in Nat /\ v.first \in Int
        /\ v.regress \in Nat /\ v.renewed \in Nat
    BY WindowsAre DEF Counts
  <1>6. Allowance(v, now, r) \in Int
    BY <1>5, BucketAssumption DEF Allowance
  <1> HIDE DEF taken, full, s
  <1>7. s \in Buckets /\ s.live /\ s.updated_at = now /\ s.tokens = full - taken
        /\ s.expires = clk + TimeToLive(r)
    BY <1>1, <1>2, <1>4 DEF Buckets
  <1>8. v.granted + s.tokens <= Allowance(v, now, r)
        /\ v.granted <= Allowance(v, now, r)
    BY <1>1, <1>3, <1>5, <1>6, <1>7, BucketAssumption
  <1>9. now + TimeToLive(r) <= s.expires /\ clk < s.expires
    BY <1>2, <1>7
  <1>10. LimiterFits(s, v, now, clk, r)
    BY <1>7, <1>8, <1>9 DEF LimiterFits
  <1> QED BY <1>7, <1>10 DEF s

\* A tick of Redis's clock, which drops the keys that are due.
LEMMA AgedFits ==
  ASSUME NEW b \in Buckets, NEW w, NEW previous \in Nat, NEW clk \in Nat, NEW r \in Nat,
         LimiterFits(b, w, previous, clk, r)
  PROVE  /\ Aged(b, clk + 1) \in Buckets
         /\ Aged(b, clk + 1).live => b.live
         /\ LimiterFits(Aged(b, clk + 1), w, previous, clk + 1, r)
  <1>1. TimeToLive(r) \in Nat /\ NoBucket \in Buckets /\ ~NoBucket.live
    BY TimeToLiveIsPositive, BucketAssumption DEF NoBucket, Buckets
  <1>2. CASE b.live /\ b.expires <= clk + 1
    <2>1. Aged(b, clk + 1) = NoBucket
      BY <1>2 DEF Aged
    <2>2. previous + TimeToLive(r) <= clk + 1 /\ previous <= clk + 1
      BY <1>1, <1>2 DEF LimiterFits, Buckets
    <2>3. w.first # NoStamp => w.granted <= Allowance(w, previous, r)
      BY DEF LimiterFits
    <2> QED BY <1>1, <1>2, <2>1, <2>2, <2>3 DEF LimiterFits
  <1>3. CASE ~(b.live /\ b.expires <= clk + 1)
    <2>1. Aged(b, clk + 1) = b
      BY <1>3 DEF Aged
    <2> QED BY <1>1, <1>3, <2>1 DEF LimiterFits, Buckets
  <1> QED BY <1>2, <1>3

\* A window that has seen no call has nothing to count.
LEMMA FreshFits ==
  ASSUME NEW b, NEW w, NEW previous, NEW clk, NEW r, LimiterFits(b, w, previous, clk, r)
  PROVE  LimiterFits(b, FreshWindow, previous, clk, r)
  BY WindowsAre DEF LimiterFits


-----------------------------------------------------------------------------
(* Which steps keep the invariant. *)

\* All but r are where they were.
OthersStay(r) ==
  \A s \in Requests \ {r} :
    /\ pc'[s] = pc[s] /\ key'[s] = key[s] /\ stamp'[s] = stamp[s]
    /\ tooLate'[s] = tooLate[s] /\ paid'[s] = paid[s]

\* Rows appear and are revoked, and never the other way.
RowsGoOn == \A k \in DbKeys : /\ row[k] # "absent" => row'[k] # "absent"
                              /\ row[k] = "revoked" => row'[k] = "revoked"

\* A row that only another request's transaction knows of stays its own.
FlushedStay(r) ==
  \A s \in Requests \ {r} :
    pc[s] = "flushed" => /\ row'[key[s]] = "absent"
                         /\ pc'[r] = "flushed" => key'[r] # key[s]

\* A step of r that leaves r fitting disturbs no other request.
LEMMA RequestsFit ==
  ASSUME GateInv, NEW r \in Requests, OthersStay(r), RowsGoOn, FlushedStay(r),
         clock' = clock, RequestFits(r)'
  PROVE  \A s \in Requests : RequestFits(s)'
  <1> SUFFICES ASSUME NEW s \in Requests \ {r} PROVE RequestFits(s)'
    OBVIOUS
  <1>1. /\ pc'[s] = pc[s] /\ key'[s] = key[s] /\ stamp'[s] = stamp[s]
        /\ tooLate'[s] = tooLate[s] /\ paid'[s] = paid[s]
    BY DEF OthersStay
  <1>2. RequestFits(s)
    BY DEF GateInv
  <1>3. pc[s] = "client_taking" => key[s] \in EnvKeys \/ Issued(key[s])'
    BY <1>1, <1>2 DEF RequestFits, Issued, RowsGoOn
  <1>4. pc[s] = "revoking" => Issued(key[s])'
    BY <1>1, <1>2 DEF RequestFits, Issued, RowsGoOn
  <1>5. tooLate[s] => pc[s] \in {"looking_up", "denied", "failed"} /\ Revoked(key[s])'
    BY <1>1, <1>2 DEF RequestFits, Revoked, RowsGoOn
  <1>6. pc[s] = "flushed" =>
          /\ key[s] \in DbKeys /\ row'[key[s]] = "absent"
          /\ \A t \in Requests : pc'[t] = "flushed" /\ key'[t] = key[s] => t = s
    <2> SUFFICES ASSUME pc[s] = "flushed"
                 PROVE  /\ key[s] \in DbKeys /\ row'[key[s]] = "absent"
                        /\ \A t \in Requests : pc'[t] = "flushed" /\ key'[t] = key[s] => t = s
      OBVIOUS
    <2>1. /\ key[s] \in DbKeys
          /\ \A t \in Requests : pc[t] = "flushed" /\ key[t] = key[s] => t = s
      BY <1>2 DEF RequestFits
    <2>2. row'[key[s]] = "absent" /\ (pc'[r] = "flushed" => key'[r] # key[s])
      BY DEF FlushedStay
    <2>3. ASSUME NEW t \in Requests, pc'[t] = "flushed", key'[t] = key[s] PROVE t = s
      <3>1. CASE t = r
        BY <2>2, <2>3, <3>1
      <3>2. CASE t # r
        BY <2>1, <2>3, <3>2 DEF OthersStay
      <3> QED BY <3>1, <3>2
    <2> QED BY <2>1, <2>2, <2>3
  <1> QED BY <1>1, <1>2, <1>3, <1>4, <1>5, <1>6 DEF RequestFits, Issued, Revoked

LEMMA Types ==
  ASSUME GateInv
  PROVE  /\ TypeOK /\ clock \in Nat /\ rate \in Nat /\ MaxLag \in Nat
         /\ AdminApi \in Labels /\ DbKeys \subseteq ClientKeys /\ ClientKeys \subseteq Labels
         /\ \A r \in Requests : RequestFits(r)
  BY GateAssumption, BucketAssumption DEF GateInv, TypeOK, Labels, ClientKeys

\* A step that asks no bucket and changes no table.
LEMMA QuietKeeps ==
  ASSUME GateInv, NEW r \in Requests, OthersStay(r),
         UNCHANGED <<clock, rate, limits, tables>>,
         pc' \in [Requests -> Points], key' \in [Requests -> Labels],
         right' \in [Requests -> BOOLEAN], stamp' \in [Requests -> 0..LastTick],
         faults' \in 0..MaxFaults, tooLate' \in [Requests -> BOOLEAN],
         paid' \in [Requests -> BOOLEAN],
         pc'[r] = "flushed" =>
           \A s \in Requests \ {r} : pc[s] = "flushed" => key'[r] # key[s],
         RequestFits(r)'
  PROVE  GateInv'
  <1>1. UNCHANGED <<bucket, last, window, row, trail>>
    BY DEF limits, tables
  <1>2. TypeOK'
    <2>1. TypeOK
      BY DEF GateInv
    <2>2. Windows' = Windows
      BY DEF Windows, Limiter!Windows
    <2> QED BY <1>1, <2>1, <2>2 DEF TypeOK
  <1>3. LimitersFit'
    BY <1>1 DEF GateInv, LimitersFit, LimiterFits, Allowance
  <1>4. StrangersLeaveNoBucket' /\ TrailMatchesKeys'
    BY <1>1 DEF GateInv, StrangersLeaveNoBucket, TrailMatchesKeys
  <1>5. RowsGoOn
    BY <1>1 DEF RowsGoOn
  <1>6. FlushedStay(r)
    <2>1. \A s \in Requests : pc[s] = "flushed" => row[key[s]] = "absent"
      BY DEF GateInv, RequestFits
    <2> QED BY <1>1, <2>1 DEF FlushedStay
  <1>7. \A s \in Requests : RequestFits(s)'
    BY <1>5, <1>6, RequestsFit
  <1> QED BY <1>2, <1>3, <1>4, <1>7 DEF GateInv


\* Which points a request goes on to, and what is asked of it there.
LEMMA GoesOn ==
  ASSUME GateInv, NEW r \in Requests, NEW point \in Points, Goto(r, point)
  PROVE  /\ pc' \in [Requests -> Points] /\ pc'[r] = point
         /\ \A s \in Requests \ {r} : pc'[s] = pc[s]
  BY DEF Goto, GateInv, TypeOK

\* Sending the script, whoever sends it.
LEMMA ScriptSent ==
  ASSUME GateInv, NEW r \in Requests, NEW point \in Asking, SendScript(r, point)
  PROVE  /\ pc' \in [Requests -> Points] /\ pc'[r] = point
         /\ stamp' \in [Requests -> 0..LastTick] /\ stamp'[r] <= clock
         /\ \A s \in Requests \ {r} : pc'[s] = pc[s] /\ stamp'[s] = stamp[s]
  <1>1. /\ point \in Points /\ stamp \in [Requests -> 0..LastTick]
        /\ clock \in MaxLag..LastTick
    BY DEF GateInv, TypeOK, Points
  <1>2. Goto(r, point)
    BY DEF SendScript
  <1>3. PICK now \in (clock - MaxLag)..clock : stamp' = [stamp EXCEPT ![r] = now]
    BY DEF SendScript
  <1>4. now \in 0..LastTick /\ now <= clock
    BY <1>1, BucketAssumption, GateAssumption
  <1> QED BY <1>1, <1>2, <1>3, <1>4, GoesOn

LEMMA ClientArrivesKeeps ==
  ASSUME GateInv, NEW r \in Requests, NEW k \in ClientKeys, ClientArrives(r, k)
  PROVE  GateInv'
  <1>1. /\ TypeOK /\ RequestFits(r) /\ pc[r] = "start" /\ k \in Labels
        /\ UNCHANGED <<clock, rate, limits, tables, right, faults, paid>>
        /\ key' = [key EXCEPT ![r] = k]
        /\ tooLate' = [tooLate EXCEPT ![r] = Revoked(k)]
    BY Types DEF ClientArrives, Presents
  <1>2. /\ key' \in [Requests -> Labels] /\ key'[r] = k
        /\ tooLate' \in [Requests -> BOOLEAN] /\ tooLate'[r] = Revoked(k)
        /\ \A s \in Requests \ {r} : key'[s] = key[s] /\ tooLate'[s] = tooLate[s]
        /\ right' \in [Requests -> BOOLEAN] /\ faults' \in 0..MaxFaults
        /\ paid' \in [Requests -> BOOLEAN]
    BY <1>1 DEF TypeOK, Revoked
  <1>3. CASE k \in EnvKeys
    <2>1. SendScript(r, "client_taking") /\ "client_taking" \in Asking
      BY <1>3 DEF ClientArrives, Asking
    <2>2. /\ pc' \in [Requests -> Points] /\ pc'[r] = "client_taking"
          /\ stamp' \in [Requests -> 0..LastTick] /\ stamp'[r] <= clock
          /\ \A s \in Requests \ {r} : pc'[s] = pc[s] /\ stamp'[s] = stamp[s]
      BY <2>1, ScriptSent
    <2>3. ~ Revoked(k)
      BY <1>3 DEF Revoked
    <2>4. RequestFits(r)'
      BY <1>1, <1>2, <1>3, <2>2, <2>3 DEF RequestFits
    <2> QED BY <1>1, <1>2, <2>2, <2>4, QuietKeeps DEF OthersStay
  <1>4. CASE k \notin EnvKeys
    <2>1. /\ Goto(r, "looking_up") /\ stamp' = stamp /\ "looking_up" \in Points
      BY <1>4 DEF ClientArrives, Points
    <2>2. /\ pc' \in [Requests -> Points] /\ pc'[r] = "looking_up"
          /\ stamp' \in [Requests -> 0..LastTick]
          /\ \A s \in Requests \ {r} : pc'[s] = pc[s] /\ stamp'[s] = stamp[s]
      BY <1>1, <2>1, GoesOn DEF TypeOK
    <2>3. Revoked(k) => Revoked(k)'
      BY <1>1 DEF Revoked, tables
    <2>4. RequestFits(r)'
      BY <1>1, <1>2, <2>2, <2>3 DEF RequestFits, Asking, Revoked, tables
    <2> QED BY <1>1, <1>2, <2>2, <2>4, QuietKeeps DEF OthersStay
  <1> QED BY <1>3, <1>4

LEMMA AdminArrivesKeeps ==
  ASSUME GateInv, NEW r \in Requests, NEW ok \in BOOLEAN,
         NEW k \in Labels, NEW point \in {"issue_taking", "revoke_taking"},
         point = "revoke_taking" => k \in DbKeys,
         AdminArrives(r, k, ok, point)
  PROVE  GateInv'
  <1>1. /\ TypeOK /\ RequestFits(r) /\ pc[r] = "start"
        /\ UNCHANGED <<clock, rate, limits, tables, tooLate, faults, paid>>
        /\ key' = [key EXCEPT ![r] = k] /\ right' = [right EXCEPT ![r] = ok]
        /\ SendScript(r, point) /\ point \in Asking
    BY Types DEF AdminArrives, Asking
  <1>2. /\ key' \in [Requests -> Labels] /\ key'[r] = k
        /\ \A s \in Requests \ {r} : key'[s] = key[s]
        /\ right' \in [Requests -> BOOLEAN] /\ faults' \in 0..MaxFaults
        /\ paid' \in [Requests -> BOOLEAN] /\ tooLate' \in [Requests -> BOOLEAN]
    BY <1>1 DEF TypeOK
  <1>3. /\ pc' \in [Requests -> Points] /\ pc'[r] = point
        /\ stamp' \in [Requests -> 0..LastTick] /\ stamp'[r] <= clock
        /\ \A s \in Requests \ {r} : pc'[s] = pc[s] /\ stamp'[s] = stamp[s]
    BY <1>1, ScriptSent
  <1>4. ~ tooLate[r]
    BY <1>1 DEF RequestFits
  <1>5. RequestFits(r)'
    BY <1>1, <1>2, <1>3, <1>4 DEF RequestFits
  <1> QED BY <1>1, <1>2, <1>3, <1>5, QuietKeeps DEF OthersStay

\* A step that moves r and nothing else, to a point where nothing is asked of it.
LEMMA MoveKeeps ==
  ASSUME GateInv, NEW r \in Requests,
         NEW point \in {"denied", "failed", "not_found", "revoking"}, Goto(r, point),
         UNCHANGED <<clock, rate, limits, tables, key, right, tooLate, paid>>,
         stamp' \in [Requests -> 0..LastTick],
         \A s \in Requests \ {r} : stamp'[s] = stamp[s],
         faults' \in 0..MaxFaults,
         point = "not_found" => paid[r],
         point = "revoking" => paid[r] /\ Issued(key[r]),
         tooLate[r] => point \in {"denied", "failed"}
  PROVE  GateInv'
  <1>1. /\ TypeOK /\ RequestFits(r) /\ point \in Points
        /\ \A s \in Requests \ {r} : pc'[s] = pc[s]
        /\ pc' \in [Requests -> Points] /\ pc'[r] = point
    BY Types, GoesOn DEF Points
  <1>2. /\ key' \in [Requests -> Labels] /\ right' \in [Requests -> BOOLEAN]
        /\ tooLate' \in [Requests -> BOOLEAN] /\ paid' \in [Requests -> BOOLEAN]
    BY <1>1 DEF TypeOK
  <1>3. Issued(key[r]) => Issued(key[r])' /\ key'[r] \in DbKeys
    BY DEF Issued, tables
  <1>4. Revoked(key[r]) => Revoked(key[r])'
    BY DEF Revoked, tables
  <1>5. RequestFits(r)'
    BY <1>1, <1>3, <1>4 DEF RequestFits, Asking
  <1> QED BY <1>1, <1>2, <1>5, QuietKeeps DEF OthersStay

LEMMA LookUpKeeps ==
  ASSUME GateInv, NEW r \in Requests, LookUp(r)
  PROVE  GateInv'
  <1>1. /\ TypeOK /\ RequestFits(r) /\ pc[r] = "looking_up"
        /\ UNCHANGED <<clock, rate, limits, tables, key, right, tooLate, faults, paid>>
    BY Types DEF LookUp
  <1>2. CASE Found(key[r])
    <2>1. SendScript(r, "client_taking") /\ "client_taking" \in Asking
      BY <1>2 DEF LookUp, Asking
    <2>2. /\ pc' \in [Requests -> Points] /\ pc'[r] = "client_taking"
          /\ stamp' \in [Requests -> 0..LastTick] /\ stamp'[r] <= clock
          /\ \A s \in Requests \ {r} : pc'[s] = pc[s] /\ stamp'[s] = stamp[s]
      BY <2>1, ScriptSent
    <2>3. /\ key[r] \in ClientKeys /\ Issued(key[r])' /\ ~ Revoked(key[r])
      BY <1>1, <1>2, Types DEF Found, Issued, Revoked, tables
    <2>4. RequestFits(r)'
      BY <1>1, <2>2, <2>3 DEF RequestFits
    <2>5. /\ key' \in [Requests -> Labels] /\ right' \in [Requests -> BOOLEAN]
          /\ faults' \in 0..MaxFaults
          /\ tooLate' \in [Requests -> BOOLEAN] /\ paid' \in [Requests -> BOOLEAN]
      BY <1>1 DEF TypeOK
    <2> QED BY <1>1, <2>2, <2>4, <2>5, QuietKeeps DEF OthersStay
  <1>3. CASE ~ Found(key[r])
    <2>1. Goto(r, "denied") /\ stamp' = stamp
      BY <1>3 DEF LookUp
    <2>2. stamp' \in [Requests -> 0..LastTick] /\ faults' \in 0..MaxFaults
      BY <1>1, <2>1 DEF TypeOK
    <2> QED BY <1>1, <2>1, <2>2, MoveKeeps
  <1> QED BY <1>2, <1>3

LEMMA FlushKeeps ==
  ASSUME GateInv, NEW r \in Requests, Flush(r)
  PROVE  GateInv'
  <1>1. /\ TypeOK /\ RequestFits(r) /\ pc[r] = "issuing" /\ Goto(r, "flushed")
        /\ "flushed" \in Points
        /\ UNCHANGED <<clock, rate, limits, tables, right, stamp, tooLate, faults, paid>>
    BY Types DEF Flush, Points
  <1>2. PICK k \in DbKeys : /\ row[k] = "absent"
                            /\ \A s \in Requests : pc[s] = "flushed" => key[s] # k
                            /\ key' = [key EXCEPT ![r] = k]
    BY DEF Flush
  <1>3. /\ key' \in [Requests -> Labels] /\ key'[r] = k
        /\ \A s \in Requests \ {r} : key'[s] = key[s]
        /\ right' \in [Requests -> BOOLEAN] /\ faults' \in 0..MaxFaults
        /\ stamp' \in [Requests -> 0..LastTick]
        /\ paid' \in [Requests -> BOOLEAN] /\ tooLate' \in [Requests -> BOOLEAN]
    BY <1>1, <1>2, Types DEF TypeOK
  <1>4. /\ pc' \in [Requests -> Points] /\ pc'[r] = "flushed"
        /\ \A s \in Requests \ {r} : pc'[s] = pc[s]
    BY <1>1, GoesOn
  <1>5. RequestFits(r)'
    <2>1. \A s \in Requests : pc'[s] = "flushed" /\ key'[s] = key'[r] => s = r
      BY <1>2, <1>3, <1>4
    <2>2. row' = row
      BY <1>1 DEF tables
    <2> QED BY <1>1, <1>2, <1>3, <1>4, <2>1, <2>2 DEF RequestFits, Asking
  <1> QED BY <1>1, <1>2, <1>3, <1>4, <1>5, QuietKeeps DEF OthersStay


\* The script has run on the bucket of r with the stamp of r: that bucket and
\* its window fit, and the others are as they were.
LEMMA ScriptRun ==
  ASSUME GateInv, NEW r \in Requests, RunScript(r)
  PROVE  /\ BucketOf(r) \in Labels
         /\ stamp[r] \in (clock - MaxLag)..clock /\ stamp[r] \in 0..LastTick
         /\ bucket' = [bucket EXCEPT ![BucketOf(r)] =
                         Script(bucket[BucketOf(r)], rate, stamp[r], clock)]
         /\ last' = [last EXCEPT ![BucketOf(r)] = stamp[r]]
         /\ window' = [window EXCEPT ![BucketOf(r)] =
                         Watched(window[BucketOf(r)], bucket[BucketOf(r)], stamp[r],
                                 last[BucketOf(r)], IF AllowedNow(r) THEN 1 ELSE 0)]
         /\ bucket' \in [Labels -> Buckets]
         /\ last' \in [Labels -> 0..LastTick]
         /\ window' \in [Labels -> Windows]
         /\ LimitersFit'
         /\ StrangersLeaveNoBucket'
         /\ UNCHANGED <<clock, rate, tables, key, right, tooLate>>
         /\ stamp' \in [Requests -> 0..LastTick]
         /\ paid' \in [Requests -> BOOLEAN] /\ paid'[r] = AllowedNow(r)
         /\ \A s \in Requests \ {r} : stamp'[s] = stamp[s] /\ paid'[s] = paid[s]
  <1> DEFINE k == BucketOf(r)
             b == bucket[k]
             w == window[k]
             taken == IF AllowedNow(r) THEN 1 ELSE 0
             v == Watched(w, b, stamp[r], last[k], taken)
             s == Script(b, rate, stamp[r], clock)
  <1>1. /\ TypeOK /\ LimitersFit /\ RequestFits(r) /\ pc[r] \in Asking
        /\ stamp[r] >= clock - MaxLag
        /\ clock \in Nat /\ clock \in MaxLag..LastTick /\ rate \in Nat /\ MaxLag \in Nat
        /\ UNCHANGED <<clock, rate, tables, key, right, tooLate>>
        /\ row' = row
    BY Types DEF RunScript, GateInv, TypeOK, tables
  <1>2. k \in Labels /\ (k \in ClientKeys => k \in EnvKeys \/ Issued(k))
    <2>1. AdminApi \in Labels /\ AdminApi \notin ClientKeys
      BY GateAssumption DEF Labels, ClientKeys
    <2> QED BY <1>1, <2>1, Types DEF BucketOf, RequestFits
  <1>3. /\ b \in Buckets /\ w \in Windows /\ last[k] \in Nat
        /\ last[k] \in 0..LastTick
    BY <1>1, <1>2, GateAssumption DEF TypeOK
  <1>4. /\ stamp[r] \in 0..LastTick /\ stamp[r] \in Nat /\ stamp[r] <= clock
        /\ clock <= stamp[r] + MaxLag
        /\ stamp[r] \in (clock - MaxLag)..clock
    <2>1. stamp[r] \in 0..LastTick
      BY <1>1 DEF TypeOK
    <2>2. stamp[r] <= clock
      BY <1>1 DEF RequestFits
    <2> QED BY <1>1, <2>1, <2>2, GateAssumption
  <1>5. AllowedNow(r) = Allowed(b, rate, stamp[r])
    BY DEF AllowedNow
  <1>6. LimiterFits(b, w, last[k], clock, rate)
    BY <1>1, <1>2 DEF LimitersFit
  <1>7. taken \in Nat
    OBVIOUS
  <1>8. Counts(v, w, b, stamp[r], last[k], taken, rate)
    <2> HIDE DEF taken, b, w, k
    <2> QED BY <1>3, <1>4, <1>7, WatchedCounts
  <1>9. /\ s \in Buckets /\ s.live
        /\ LimiterFits(s, v, stamp[r], clock, rate)
        /\ v \in Windows
    <2>1. Counts(v, w, b, stamp[r], last[k], IF Allowed(b, rate, stamp[r]) THEN 1 ELSE 0, rate)
      BY <1>5, <1>8
    <2>2. v \in Windows
      BY <1>8 DEF Counts
    <2> HIDE DEF v, b, w, k
    <2> QED BY <1>1, <1>3, <1>4, <1>6, <2>1, <2>2, ScriptFits DEF s
  <1>10. /\ bucket' = [bucket EXCEPT ![k] = s]
         /\ last' = [last EXCEPT ![k] = stamp[r]]
         /\ window' = [window EXCEPT ![k] = v]
    BY DEF RunScript
  <1>11. /\ stamp' = [stamp EXCEPT ![r] = 0]
         /\ paid' = [paid EXCEPT ![r] = AllowedNow(r)]
    BY DEF RunScript
  <1>12. AllowedNow(r) \in BOOLEAN
    BY DEF AllowedNow, Allowed
  <1>13. /\ stamp' \in [Requests -> 0..LastTick]
         /\ paid' \in [Requests -> BOOLEAN] /\ paid'[r] = AllowedNow(r)
         /\ \A t \in Requests \ {r} : stamp'[t] = stamp[t] /\ paid'[t] = paid[t]
    BY <1>1, <1>11, <1>12, GateAssumption DEF TypeOK
  <1> HIDE DEF s, v, k
  <1>14. /\ bucket' \in [Labels -> Buckets]
         /\ last' \in [Labels -> 0..LastTick]
         /\ window' \in [Labels -> Windows]
    BY <1>1, <1>2, <1>4, <1>9, <1>10 DEF TypeOK
  <1>15. LimitersFit'
    <2> SUFFICES ASSUME NEW l \in Labels
                 PROVE  LimiterFits(bucket'[l], window'[l], last'[l], clock, rate)
      BY <1>1 DEF LimitersFit, LimiterFits, Allowance
    <2>1. CASE l = k
      BY <1>1, <1>2, <1>9, <1>10, <2>1 DEF TypeOK
    <2>2. CASE l # k
      BY <1>1, <1>2, <1>10, <2>2 DEF TypeOK, LimitersFit
    <2> QED BY <2>1, <2>2
  <1>16. StrangersLeaveNoBucket'
    <2> SUFFICES ASSUME NEW l \in ClientKeys, bucket'[l].live
                 PROVE  l \in EnvKeys \/ (l \in DbKeys /\ row'[l] # "absent")
      BY DEF StrangersLeaveNoBucket
    <2>1. CASE l = k
      BY <1>1, <1>2, <2>1 DEF Issued
    <2>2. CASE l # k
      <3>1. bucket[l].live
        BY <1>1, <1>2, <1>10, <2>2, Types DEF TypeOK
      <3> QED BY <1>1, <3>1 DEF GateInv, StrangersLeaveNoBucket
    <2> QED BY <2>1, <2>2
  <1> QED
    BY <1>1, <1>2, <1>4, <1>10, <1>13, <1>14, <1>15, <1>16 DEF s, v, k

\* A step that runs the script and moves on to where its answer leads.
LEMMA ScriptKeeps ==
  ASSUME GateInv, NEW r \in Requests, RunScript(r),
         NEW point \in {"passed", "limited", "wrong_key", "issuing", "loading", "failed"},
         Goto(r, point), faults' \in 0..MaxFaults,
         point \in {"passed", "wrong_key", "issuing", "loading"} => AllowedNow(r),
         point = "loading" => pc[r] = "revoke_taking"
  PROVE  GateInv'
  <1>1. /\ TypeOK /\ RequestFits(r) /\ pc[r] \in Asking /\ point \in Points
        /\ \A s \in Requests \ {r} : pc'[s] = pc[s]
        /\ pc' \in [Requests -> Points] /\ pc'[r] = point
    BY Types, GoesOn DEF Points, RunScript
  <1>2. /\ bucket' \in [Labels -> Buckets]
        /\ last' \in [Labels -> 0..LastTick]
        /\ window' \in [Labels -> Windows]
        /\ LimitersFit' /\ StrangersLeaveNoBucket'
        /\ UNCHANGED <<clock, rate, row, trail, key, right, tooLate>>
        /\ stamp' \in [Requests -> 0..LastTick]
        /\ paid' \in [Requests -> BOOLEAN] /\ paid'[r] = AllowedNow(r)
        /\ \A s \in Requests \ {r} : stamp'[s] = stamp[s] /\ paid'[s] = paid[s]
    BY ScriptRun DEF tables
  <1>3. TypeOK'
    <2>1. Windows' = Windows
      BY DEF Windows, Limiter!Windows
    <2> QED BY <1>1, <1>2, <2>1 DEF TypeOK
  <1>4. RequestFits(r)'
    BY <1>1, <1>2 DEF RequestFits, Asking
  <1>5. /\ OthersStay(r) /\ RowsGoOn
    BY <1>1, <1>2 DEF OthersStay, RowsGoOn
  <1>6. FlushedStay(r)
    <2>1. \A s \in Requests : pc[s] = "flushed" => row[key[s]] = "absent"
      BY DEF GateInv, RequestFits
    <2> QED BY <1>1, <1>2, <2>1 DEF FlushedStay
  <1>7. \A s \in Requests : RequestFits(s)'
    BY <1>2, <1>4, <1>5, <1>6, RequestsFit
  <1>8. TrailMatchesKeys'
    BY <1>2 DEF GateInv, TrailMatchesKeys
  <1> QED BY <1>2, <1>3, <1>7, <1>8 DEF GateInv

\* A transaction that commits, whether or not its reply arrives.
LEMMA CommitKeeps ==
  ASSUME GateInv, NEW r \in Requests, Committed(r),
         NEW point \in {"done", "failed"}, Goto(r, point),
         UNCHANGED <<clock, rate, limits, request, paid>>, faults' \in 0..MaxFaults
  PROVE  GateInv'
  <1> DEFINE k == key[r]
  <1>1. /\ TypeOK /\ RequestFits(r) /\ point \in Points
        /\ \A s \in Requests \ {r} : pc'[s] = pc[s]
        /\ pc' \in [Requests -> Points] /\ pc'[r] = point
        /\ UNCHANGED <<clock, rate, bucket, last, window, key, right, stamp, tooLate, paid>>
        /\ pc[r] \in {"flushed", "revoking"}
    BY Types, GoesOn DEF Points, limits, request, Committed
  <1>2. k \in DbKeys /\ (pc[r] = "revoking" => row[k] # "absent")
        /\ (pc[r] = "flushed" => row[k] = "absent")
    BY <1>1 DEF RequestFits, Issued
  <1>3. /\ row \in [DbKeys -> {"absent", "active", "revoked"}]
        /\ trail \in [DbKeys -> [issued : Nat, revoked : Nat]]
    BY <1>1 DEF TypeOK
  <1>4. \A l \in DbKeys : /\ trail[l].issued = IF row[l] = "absent" THEN 0 ELSE 1
                          /\ trail[l].revoked > 0 <=> row[l] = "revoked"
    BY DEF GateInv, TrailMatchesKeys
  <1> DEFINE after == IF pc[r] = "flushed" THEN "active" ELSE "revoked"
  <1>5. /\ row' = [row EXCEPT ![k] = after]
        /\ trail' \in [DbKeys -> [issued : Nat, revoked : Nat]]
        /\ trail'[k].issued = 1
        /\ trail'[k].revoked > 0 <=> after = "revoked"
        /\ \A l \in DbKeys \ {k} : trail'[l] = trail[l]
    <2>1. CASE pc[r] = "flushed"
      <3> DEFINE t == [trail[k] EXCEPT !.issued = @ + 1]
      <3>1. row' = [row EXCEPT ![k] = "active"] /\ trail' = [trail EXCEPT ![k] = t]
        BY <2>1 DEF Committed, IssueCommitted
      <3>2. /\ trail[k] \in [issued : Nat, revoked : Nat]
            /\ trail[k].issued = 0 /\ trail[k].revoked = 0
        BY <1>2, <1>3, <1>4, <2>1
      <3>3. t \in [issued : Nat, revoked : Nat] /\ t.issued = 1 /\ t.revoked = 0
        <4> HIDE DEF k
        <4> QED BY <3>2
      <3> HIDE DEF t
      <3> QED BY <1>2, <1>3, <2>1, <3>1, <3>3
    <2>2. CASE pc[r] # "flushed"
      <3> DEFINE t == [trail[k] EXCEPT !.revoked = @ + 1]
      <3>1. row' = [row EXCEPT ![k] = "revoked"] /\ trail' = [trail EXCEPT ![k] = t]
        BY <2>2 DEF Committed, RevokeCommitted
      <3>2. trail[k] \in [issued : Nat, revoked : Nat] /\ trail[k].issued = 1
        BY <1>1, <1>2, <1>3, <1>4, <2>2
      <3>3. t \in [issued : Nat, revoked : Nat] /\ t.issued = 1 /\ t.revoked > 0
        <4> HIDE DEF k
        <4> QED BY <3>2
      <3> HIDE DEF t
      <3> QED BY <1>2, <1>3, <2>2, <3>1, <3>3
    <2> QED BY <2>1, <2>2
  <1>6. after \in {"active", "revoked"}
    OBVIOUS
  <1>7. row[k] = "revoked" => after = "revoked"
    BY <1>1, <1>2
  <1> HIDE DEF after, k
  <1>8. /\ row' \in [DbKeys -> {"absent", "active", "revoked"}]
        /\ row'[k] = after /\ \A l \in DbKeys \ {k} : row'[l] = row[l]
    BY <1>2, <1>3, <1>5, <1>6
  <1>9. TypeOK'
    <2>1. Windows' = Windows
      BY DEF Windows, Limiter!Windows
    <2> QED BY <1>1, <1>5, <1>8, <2>1 DEF TypeOK
  <1>10. RowsGoOn
    BY <1>6, <1>7, <1>8 DEF RowsGoOn
  <1>11. TrailMatchesKeys'
    <2> SUFFICES ASSUME NEW l \in DbKeys
                 PROVE  /\ trail'[l].issued = IF row'[l] = "absent" THEN 0 ELSE 1
                        /\ trail'[l].revoked > 0 <=> row'[l] = "revoked"
      BY DEF TrailMatchesKeys
    <2>1. CASE l = k
      BY <1>5, <1>6, <1>8, <2>1
    <2>2. CASE l # k
      BY <1>4, <1>5, <1>8, <2>2
    <2> QED BY <2>1, <2>2
  <1>12. LimitersFit'
    BY <1>1 DEF GateInv, LimitersFit, LimiterFits, Allowance
  <1>13. StrangersLeaveNoBucket'
    BY <1>1, <1>10 DEF GateInv, StrangersLeaveNoBucket, RowsGoOn
  <1>14. FlushedStay(r)
    <2> SUFFICES ASSUME NEW s \in Requests \ {r}, pc[s] = "flushed"
                 PROVE  row'[key[s]] = "absent"
      BY <1>1 DEF FlushedStay
    <2>1. /\ key[s] \in DbKeys /\ row[key[s]] = "absent"
          /\ \A t \in Requests : pc[t] = "flushed" /\ key[t] = key[s] => t = s
      BY DEF GateInv, RequestFits
    <2>2. key[s] # k
      BY <1>1, <1>2, <2>1 DEF k
    <2> QED BY <1>8, <2>1, <2>2
  <1>15. RequestFits(r)'
    <2>1. tooLate[r] => FALSE
      BY <1>1 DEF RequestFits
    <2> QED BY <1>1, <2>1 DEF RequestFits, Asking
  <1>16. OthersStay(r)
    BY <1>1 DEF OthersStay
  <1>17. \A s \in Requests : RequestFits(s)'
    BY <1>1, <1>10, <1>14, <1>15, <1>16, RequestsFit
  <1> QED BY <1>9, <1>11, <1>12, <1>13, <1>17 DEF GateInv


-----------------------------------------------------------------------------
(* The invariant. *)

LEMMA InitGateInv == Init => GateInv
  <1> SUFFICES ASSUME Init PROVE GateInv
    OBVIOUS
  <1>1. /\ NoBucket \in Buckets /\ ~NoBucket.live
        /\ rate \in Nat /\ clock \in Nat /\ MaxLag \in Nat
    BY BucketAssumption DEF Init, NoBucket, Buckets
  <1>2. PICK issued \in SUBSET DbKeys :
          /\ row = [k \in DbKeys |-> IF k \in issued THEN "active" ELSE "absent"]
          /\ trail = [k \in DbKeys |->
                       [issued |-> IF k \in issued THEN 1 ELSE 0, revoked |-> 0]]
    BY DEF Init
  <1>3. AdminApi \in Labels /\ "start" \in Points
    BY DEF Labels, Points
  <1>4. TypeOK
    <2>1. /\ row \in [DbKeys -> {"absent", "active", "revoked"}]
          /\ trail \in [DbKeys -> [issued : Nat, revoked : Nat]]
      BY <1>2
    <2>2. clock \in MaxLag..LastTick
      BY GateAssumption, BucketAssumption DEF Init
    <2> QED BY <1>1, <1>3, <2>1, <2>2, WindowsAre, GateAssumption DEF Init, TypeOK
  <1>5. LimitersFit
    <2> SUFFICES ASSUME NEW k \in Labels
                 PROVE  LimiterFits(bucket[k], window[k], last[k], clock, rate)
      BY DEF LimitersFit
    <2>1. bucket[k] = NoBucket /\ window[k] = FreshWindow /\ last[k] = 0
      BY DEF Init
    <2> QED BY <1>1, <2>1, WindowsAre DEF LimiterFits
  <1>6. StrangersLeaveNoBucket
    BY <1>1, Types DEF Init, StrangersLeaveNoBucket, Labels
  <1>7. TrailMatchesKeys
    BY <1>2 DEF TrailMatchesKeys
  <1>8. \A r \in Requests : RequestFits(r)
    BY DEF Init, RequestFits, Asking
  <1> QED BY <1>4, <1>5, <1>6, <1>7, <1>8 DEF GateInv

LEMMA TickKeeps ==
  ASSUME GateInv, Tick
  PROVE  GateInv'
  <1>1. /\ TypeOK /\ LimitersFit
        /\ clock \in Nat /\ rate \in Nat /\ clock < LastTick /\ clock' = clock + 1
        /\ bucket' = [k \in Labels |-> Aged(bucket[k], clock + 1)]
        /\ UNCHANGED <<rate, last, window, row, trail, pc, key, right, stamp, tooLate,
                       faults, paid>>
    BY Types DEF GateInv, Tick, tables, request
  <1>2. \A k \in Labels : /\ bucket[k] \in Buckets /\ last[k] \in Nat
                          /\ LimiterFits(bucket[k], window[k], last[k], clock, rate)
    BY <1>1, GateAssumption DEF TypeOK, LimitersFit
  <1>3. \A k \in Labels : /\ bucket'[k] \in Buckets
                          /\ bucket'[k].live => bucket[k].live
                          /\ LimiterFits(bucket'[k], window[k], last[k], clock + 1, rate)
    BY <1>1, <1>2, AgedFits
  <1>4. TypeOK'
    <2>1. Windows' = Windows
      BY DEF Windows, Limiter!Windows
    <2>2. clock + 1 \in MaxLag..LastTick
      BY <1>1, GateAssumption, BucketAssumption DEF TypeOK
    <2>3. bucket' \in [Labels -> Buckets]
      BY <1>1, <1>3
    <2> QED BY <1>1, <2>1, <2>2, <2>3 DEF TypeOK
  <1>5. LimitersFit'
    BY <1>1, <1>3 DEF LimitersFit, LimiterFits, Allowance
  <1>6. StrangersLeaveNoBucket'
    BY <1>1, <1>3, Types DEF GateInv, StrangersLeaveNoBucket
  <1>7. TrailMatchesKeys'
    BY <1>1 DEF GateInv, TrailMatchesKeys
  <1>8. \A r \in Requests : RequestFits(r)'
    <2> SUFFICES ASSUME NEW r \in Requests PROVE RequestFits(r)'
      OBVIOUS
    <2>1. RequestFits(r) /\ stamp[r] \in Nat
      BY <1>1, Types, GateAssumption DEF TypeOK
    <2>2. stamp[r] <= clock => stamp[r] <= clock + 1
      BY <1>1, <2>1
    <2> QED BY <1>1, <2>1, <2>2 DEF RequestFits, Issued, Revoked
  <1> QED BY <1>4, <1>5, <1>6, <1>7, <1>8 DEF GateInv

LEMMA OpenWindowsKeeps ==
  ASSUME GateInv, OpenWindows
  PROVE  GateInv'
  <1>1. /\ TypeOK /\ LimitersFit
        /\ window' = [k \in Labels |-> FreshWindow]
        /\ UNCHANGED <<clock, rate, bucket, last, row, trail, pc, key, right, stamp,
                       tooLate, faults, paid>>
    BY DEF GateInv, OpenWindows, tables, request
  <1>2. TypeOK'
    <2>1. Windows' = Windows
      BY DEF Windows, Limiter!Windows
    <2> QED BY <1>1, <2>1, WindowsAre DEF TypeOK
  <1>3. LimitersFit'
    <2>1. \A k \in Labels : LimiterFits(bucket[k], FreshWindow, last[k], clock, rate)
      BY <1>1, FreshFits DEF LimitersFit
    <2> QED BY <1>1, <2>1 DEF LimitersFit, LimiterFits, Allowance
  <1>4. StrangersLeaveNoBucket' /\ TrailMatchesKeys'
    BY <1>1 DEF GateInv, StrangersLeaveNoBucket, TrailMatchesKeys
  <1>5. \A r \in Requests : RequestFits(r)'
    BY <1>1, Types DEF RequestFits, Issued, Revoked
  <1> QED BY <1>2, <1>3, <1>4, <1>5 DEF GateInv

LEMMA FaultCounts == GateInv /\ Fault => faults' \in 0..MaxFaults
  BY GateAssumption DEF GateInv, TypeOK, Fault

LEMMA ArriveKeeps ==
  ASSUME GateInv, NEW r \in Requests, Arrive(r)
  PROVE  GateInv'
  <1>1. CASE Anonymous(r)
    <2>1. /\ TypeOK /\ RequestFits(r) /\ pc[r] = "start" /\ Goto(r, "denied")
          /\ UNCHANGED <<clock, rate, limits, tables, key, right, stamp, tooLate, faults, paid>>
      BY <1>1, Types DEF Anonymous, request
    <2>2. ~ tooLate[r] /\ stamp' \in [Requests -> 0..LastTick] /\ faults' \in 0..MaxFaults
      BY <2>1 DEF RequestFits, TypeOK
    <2> QED BY <2>1, <2>2, MoveKeeps
  <1>2. ASSUME NEW k \in ClientKeys, ClientArrives(r, k) PROVE GateInv'
    BY <1>2, ClientArrivesKeeps
  <1>3. ASSUME NEW ok \in BOOLEAN, AdminArrives(r, AdminApi, ok, "issue_taking")
        PROVE  GateInv'
    BY <1>3, Types, AdminArrivesKeeps
  <1>4. ASSUME NEW ok \in BOOLEAN, NEW k \in DbKeys, AdminArrives(r, k, ok, "revoke_taking")
        PROVE  GateInv'
    BY <1>4, Types, AdminArrivesKeeps
  <1> QED BY <1>1, <1>2, <1>3, <1>4 DEF Arrive

LEMMA LimitKeeps ==
  ASSUME GateInv, NEW r \in Requests, Limit(r)
  PROVE  GateInv'
  <1>1. CASE ClientTakes(r)
    <2>1. /\ RunScript(r) /\ pc[r] = "client_taking"
          /\ Goto(r, IF AllowedNow(r) THEN "passed" ELSE "limited")
          /\ faults' \in 0..MaxFaults
      BY <1>1, Types DEF ClientTakes, TypeOK
    <2>2. CASE AllowedNow(r)
      <3>1. Goto(r, "passed")
        BY <2>1, <2>2
      <3> QED BY <2>1, <2>2, <3>1, ScriptKeeps
    <2>3. CASE ~AllowedNow(r)
      <3>1. Goto(r, "limited")
        BY <2>1, <2>3
      <3> QED BY <2>1, <3>1, ScriptKeeps
    <2> QED BY <2>2, <2>3
  <1>2. CASE AdminTakes(r)
    <2>1. /\ RunScript(r) /\ pc[r] \in {"issue_taking", "revoke_taking"}
          /\ faults' \in 0..MaxFaults /\ right[r] \in BOOLEAN
      BY <1>2, Types DEF AdminTakes, TypeOK, Asking
    <2>2. CASE ~AllowedNow(r)
      <3>1. Goto(r, "limited")
        BY <1>2, <2>2 DEF AdminTakes
      <3> QED BY <2>1, <3>1, ScriptKeeps
    <2>3. CASE AllowedNow(r) /\ ~right[r]
      <3>1. Goto(r, "wrong_key")
        BY <1>2, <2>3 DEF AdminTakes
      <3> QED BY <2>1, <2>3, <3>1, ScriptKeeps
    <2>4. CASE AllowedNow(r) /\ right[r] /\ pc[r] = "issue_taking"
      <3>1. Goto(r, "issuing")
        BY <1>2, <2>4 DEF AdminTakes
      <3> QED BY <2>1, <2>4, <3>1, ScriptKeeps
    <2>5. CASE AllowedNow(r) /\ right[r] /\ pc[r] # "issue_taking"
      <3>1. Goto(r, "loading")
        BY <1>2, <2>5 DEF AdminTakes
      <3> QED BY <2>1, <2>5, <3>1, ScriptKeeps
    <2> QED BY <2>1, <2>2, <2>3, <2>4, <2>5
  <1>3. CASE TakeLosesReply(r)
    BY <1>3, FaultCounts, ScriptKeeps DEF TakeLosesReply
  <1>4. CASE TakeFails(r)
    <2>1. /\ TypeOK /\ RequestFits(r) /\ pc[r] \in Asking /\ Goto(r, "failed")
          /\ UNCHANGED <<clock, rate, limits, tables, key, right, tooLate, paid>>
          /\ stamp' = [stamp EXCEPT ![r] = 0]
          /\ UNCHANGED faults \/ Fault
      BY <1>4, Types DEF TakeFails
    <2>2. /\ faults' \in 0..MaxFaults
          /\ stamp' \in [Requests -> 0..LastTick]
          /\ \A s \in Requests \ {r} : stamp'[s] = stamp[s]
      BY <2>1, FaultCounts, GateAssumption DEF TypeOK
    <2> QED BY <2>1, <2>2, MoveKeeps
  <1> QED BY <1>1, <1>2, <1>3, <1>4 DEF Limit

LEMMA QueryKeeps ==
  ASSUME GateInv, NEW r \in Requests, Query(r)
  PROVE  GateInv'
  <1>1. CASE LookUp(r)
    BY <1>1, LookUpKeeps
  <1>2. CASE Flush(r)
    BY <1>2, FlushKeeps
  <1>3. CASE Load(r)
    <2>1. /\ TypeOK /\ RequestFits(r) /\ pc[r] = "loading"
          /\ UNCHANGED <<clock, rate, limits, tables, key, right, stamp, tooLate, faults, paid>>
      BY <1>3, Types DEF Load, request
    <2>2. /\ stamp' \in [Requests -> 0..LastTick] /\ faults' \in 0..MaxFaults
          /\ paid[r] /\ ~tooLate[r] /\ key[r] \in DbKeys
      BY <2>1 DEF TypeOK, RequestFits
    <2>3. CASE row[key[r]] = "absent"
      <3>1. Goto(r, "not_found")
        BY <1>3, <2>3 DEF Load
      <3> QED BY <2>1, <2>2, <3>1, MoveKeeps
    <2>4. CASE row[key[r]] # "absent"
      <3>1. Goto(r, "revoking") /\ Issued(key[r])
        BY <1>3, <2>2, <2>4 DEF Load, Issued
      <3> QED BY <2>1, <2>2, <3>1, MoveKeeps
    <2> QED BY <2>3, <2>4
  <1>4. CASE Commit(r)
    <2>1. faults' \in 0..MaxFaults
      BY <1>4, Types DEF Commit, TypeOK
    <2> QED BY <1>4, <2>1, CommitKeeps DEF Commit
  <1>5. CASE CommitLosesReply(r)
    BY <1>5, FaultCounts, CommitKeeps DEF CommitLosesReply
  <1>6. CASE DatabaseFails(r)
    <2>1. /\ TypeOK /\ Goto(r, "failed") /\ faults' \in 0..MaxFaults
          /\ UNCHANGED <<clock, rate, limits, tables, key, right, stamp, tooLate, paid>>
      BY <1>6, Types, FaultCounts DEF DatabaseFails, request
    <2>2. stamp' \in [Requests -> 0..LastTick]
      BY <2>1 DEF TypeOK
    <2> QED BY <2>1, <2>2, MoveKeeps
  <1> QED BY <1>1, <1>2, <1>3, <1>4, <1>5, <1>6 DEF Query

LEMMA NextGateInv == GateInv /\ [Next]_vars => GateInv'
  <1> SUFFICES ASSUME GateInv, [Next]_vars PROVE GateInv'
    OBVIOUS
  <1>1. CASE Tick
    BY <1>1, TickKeeps
  <1>2. CASE OpenWindows
    BY <1>2, OpenWindowsKeeps
  <1>3. ASSUME NEW r \in Requests, Arrive(r) \/ Limit(r) \/ Query(r) PROVE GateInv'
    BY <1>3, ArriveKeeps, LimitKeeps, QueryKeeps
  <1>4. CASE UNCHANGED vars
    <2>1. UNCHANGED <<clock, rate, bucket, last, window, row, trail, pc, key, right, stamp,
                      tooLate, faults, paid>>
      BY <1>4 DEF vars, limits, tables, request
    <2>2. TypeOK'
      <3>1. Windows' = Windows
        BY DEF Windows, Limiter!Windows
      <3> QED BY <2>1, <3>1 DEF GateInv, TypeOK
    <2>3. LimitersFit' /\ StrangersLeaveNoBucket' /\ TrailMatchesKeys'
      BY <2>1 DEF GateInv, LimitersFit, LimiterFits, Allowance, StrangersLeaveNoBucket,
                  TrailMatchesKeys
    <2>4. \A r \in Requests : RequestFits(r)'
      BY <2>1, Types DEF RequestFits, Issued, Revoked
    <2> QED BY <2>2, <2>3, <2>4 DEF GateInv
  <1> QED BY <1>1, <1>2, <1>3, <1>4 DEF Next

\* Every bucket, every request and every key's rows fit, in every state of the
\* door, whatever fails at it.
THEOREM GateInvariance == Spec => []GateInv
  BY InitGateInv, NextGateInv, PTL DEF Spec


\* The door's state stays within its types, for any keys and any requests.
THEOREM GateTypes == Spec => []TypeOK
  BY GateInvariance, PTL DEF GateInv

-----------------------------------------------------------------------------
(* The properties. *)

\* In any window of calls a key, and the admin API, is granted its capacity and
\* the refill between the stamps, with the credit for stamps that went back and
\* for keys that expired without refill (token_bucket.py).
THEOREM EveryKeyIsRateBound == Spec => []RateBound
  <1>1. GateInv => RateBound
    <2> SUFFICES ASSUME GateInv, NEW k \in Labels PROVE Limiter(k)!RateBound
      BY DEF RateBound
    <2>1. window[k].first # NoStamp => window[k].granted <= Allowance(window[k], last[k], rate)
      BY DEF GateInv, LimitersFit, LimiterFits
    <2> QED
      BY <2>1 DEF Limiter!RateBound, Limiter!Granted, Limiter!NoStamp, NoStamp, Allowance
  <1> QED BY <1>1, GateInvariance, PTL

\* A key that was never valid has no bucket: strangers leave nothing in Redis
\* (require_api_key before enforce_rate_limit).
THEOREM StrangersAreNotCounted == Spec => []StrangersLeaveNoBucket
  BY GateInvariance, PTL DEF GateInv

\* Each guess at the admin key and each request to a provider costs a token
\* (enforce_admin_rate_limit before require_admin_key).
THEOREM EveryAnswerIsPaid == Spec => []AnswersCostTokens
  <1>1. GateInv => AnswersCostTokens
    BY DEF GateInv, RequestFits, AnswersCostTokens
  <1> QED BY <1>1, GateInvariance, PTL

\* A key revoked before a request arrives never lets that request in, and stays
\* revoked (revoke_key, _is_valid_db_key).
THEOREM RevocationHolds == Spec => []RevokedStaysOut
  <1>1. GateInv => RevokedStaysOut
    BY DEF GateInv, RequestFits, RevokedStaysOut
  <1> QED BY <1>1, GateInvariance, PTL

\* Every change of a key has its row in the admin log and every row its change
\* (create_key, revoke_key), also when a commit fails or loses its reply.
THEOREM TrailIsComplete == Spec => []TrailMatchesKeys
  BY GateInvariance, PTL DEF GateInv

\* Who is turned away came before a token was refilled since the last call's
\* stamp: a clock that ran ahead does not lock out the others.
THEOREM WhoWaitsGetsIn == Spec => WaitingPays
  <1> DEFINE Pays(r) ==
        LET k == BucketOf(r) IN
          /\ pc[r] \in Asking /\ pc'[r] = "limited"
          /\ bucket[k].live
          => rate * (stamp[r] - last[k]) < 1
  <1>1. GateInv /\ [Next]_vars => [\A r \in Requests : Pays(r)]_vars
    <2> SUFFICES ASSUME GateInv, Next, NEW r \in Requests PROVE Pays(r)
      OBVIOUS
    <2> DEFINE k == BucketOf(r)
               b == bucket[k]
    <2> SUFFICES ASSUME pc[r] \in Asking, pc'[r] = "limited", b.live
                 PROVE  rate * (stamp[r] - last[k]) < 1
      OBVIOUS
    <2>1. RunScript(r) /\ ~AllowedNow(r)
      <3>1. /\ pc \in [Requests -> Points] /\ pc[r] # "limited"
        BY Types DEF TypeOK, Asking
      <3>2. \A s \in Requests : \A point : Goto(s, point) /\ s # r => pc'[r] = pc[r]
        BY <3>1 DEF Goto
      <3>3. \A point : Goto(r, point) => point = "limited"
        BY <3>1 DEF Goto
      <3>4. PICK s \in Requests : Arrive(s) \/ Limit(s) \/ Query(s)
        BY <3>1 DEF Next, Tick, OpenWindows
      <3>5. s = r
        BY <3>1, <3>2, <3>4
        DEF Arrive, Limit, Query, Anonymous, ClientArrives, Presents, AdminArrives, SendScript,
            ClientTakes, AdminTakes, TakeLosesReply, TakeFails, LookUp, Flush, Load,
            Commit, CommitLosesReply, DatabaseFails
      <3>6. ClientTakes(r) \/ AdminTakes(r)
        BY <3>3, <3>4, <3>5
        DEF Arrive, Limit, Query, Anonymous, ClientArrives, Presents, AdminArrives, SendScript,
            TakeLosesReply, TakeFails, LookUp, Flush, Load, Asking,
            Commit, CommitLosesReply, DatabaseFails
      <3>7. CASE ClientTakes(r)
        BY <3>3, <3>7 DEF ClientTakes
      <3>8. CASE AdminTakes(r)
        <4>1. right[r] \in BOOLEAN
          BY Types DEF TypeOK
        <4> QED BY <3>3, <3>8, <4>1 DEF AdminTakes
      <3> QED BY <3>6, <3>7, <3>8
    <2>2. /\ k \in Labels /\ b \in Buckets /\ rate \in Nat /\ stamp[r] \in Int /\ last[k] \in Int
          /\ LimiterFits(b, window[k], last[k], clock, rate)
      BY <2>1, ScriptRun, Types, GateAssumption DEF GateInv, TypeOK, LimitersFit
    <2>3. b.updated_at = last[k] /\ b.tokens \in Nat
      BY <2>2, BucketAssumption DEF LimiterFits, Buckets
    <2>4. Refilled(b, rate, stamp[r]) < 1
      <3>1. ~Allowed(b, rate, stamp[r])
        BY <2>1 DEF AllowedNow
      <3> HIDE DEF b
      <3>2. Refilled(b, rate, stamp[r]) \in 0..Capacity
        BY <2>2, RefilledFits
      <3> QED BY <3>1, <3>2, BucketAssumption DEF Allowed
    <2>5. Elapsed(b, stamp[r]) * rate < 1
      <3>1. Elapsed(b, stamp[r]) \in Nat
        BY <2>2, <2>3 DEF Elapsed
      <3>2. Elapsed(b, stamp[r]) * rate \in Nat
        BY <2>2, <3>1
      <3> HIDE DEF b
      <3> QED BY <2>3, <2>4, <3>2, BucketAssumption DEF Refilled
    <2>6. CASE stamp[r] > last[k]
      <3>1. Elapsed(b, stamp[r]) = stamp[r] - last[k]
        BY <2>3, <2>6 DEF Elapsed
      <3>2. (stamp[r] - last[k]) * rate = rate * (stamp[r] - last[k])
        BY <2>2
      <3> QED BY <2>5, <3>1, <3>2
    <2>7. CASE ~(stamp[r] > last[k])
      <3> DEFINE d == last[k] - stamp[r]
      <3>1. d \in Nat /\ stamp[r] - last[k] = 0 - d
        BY <2>2, <2>7
      <3> HIDE DEF d
      <3>2. rate * (0 - d) = 0 - rate * d /\ rate * d \in Nat
        BY <2>2, <3>1
      <3> QED BY <3>1, <3>2
    <2> QED BY <2>2, <2>6, <2>7
  <1> QED BY <1>1, GateInvariance, PTL DEF Spec, WaitingPays


-----------------------------------------------------------------------------
(* Every bucket is a TokenBucket. *)

LimiterStep(k) == [Limiter(k)!BucketNext]_(Limiter(k)!bucketVars)

\* The abstract buckets run the script that Gate's buckets run.
LEMMA SameScript ==
  ASSUME NEW k \in Labels
  PROVE  /\ \A b, r, now : Limiter(k)!Allowed(b, r, now) = Allowed(b, r, now)
         /\ \A b, r, now, clk : Limiter(k)!Script(b, r, now, clk) = Script(b, r, now, clk)
         /\ \A b, clk : Limiter(k)!Aged(b, clk) = Aged(b, clk)
         /\ Limiter(k)!NoBucket = NoBucket
         /\ Limiter(k)!FreshWindow = FreshWindow
         /\ \A w, b, now, previous, granted :
              Limiter(k)!Watched(w, b, now, previous, granted)
                = Watched(w, b, now, previous, granted)
  <1>1. Limiter(k)!NoBucket = NoBucket
    BY DEF Limiter!NoBucket, NoBucket
  <1>2. \A b, now : Limiter(k)!Elapsed(b, now) = Elapsed(b, now)
    BY DEF Limiter!Elapsed, Elapsed
  <1>3. \A b, r, now : Limiter(k)!Refilled(b, r, now) = Refilled(b, r, now)
    BY <1>2 DEF Limiter!Refilled, Refilled
  <1>4. \A b, r, now : Limiter(k)!Allowed(b, r, now) = Allowed(b, r, now)
    BY <1>3 DEF Limiter!Allowed, Allowed
  <1>5. \A r : Limiter(k)!TimeToLive(r) = TimeToLive(r)
    BY DEF Limiter!TimeToLive, TimeToLive
  <1>6. \A b, r, now, clk : Limiter(k)!Script(b, r, now, clk) = Script(b, r, now, clk)
    BY <1>3, <1>4, <1>5 DEF Limiter!Script, Script, Limiter!UpdatedAt, UpdatedAt
  <1>7. \A b, clk : Limiter(k)!Aged(b, clk) = Aged(b, clk)
    BY <1>1 DEF Limiter!Aged, Aged
  <1>8. Limiter(k)!FreshWindow = FreshWindow
    BY DEF FreshWindow, Limiter!FreshWindow, Limiter!NoStamp
  <1>9. \A w, b, now, previous, granted :
          Limiter(k)!Watched(w, b, now, previous, granted)
            = Watched(w, b, now, previous, granted)
    BY Zenon DEF Watched, Limiter!Watched, Limiter!FreshWindow, Limiter!NoStamp
  <1> QED BY <1>1, <1>4, <1>6, <1>7, <1>8, <1>9

\* A step that leaves a bucket alone.
LEMMA UntouchedIsLimiterStep ==
  ASSUME NEW k \in Labels, UNCHANGED <<clock, rate>>,
         bucket'[k] = bucket[k], last'[k] = last[k], window'[k] = window[k]
  PROVE  LimiterStep(k)
  <1>1. UNCHANGED Limiter(k)!bucketVars
    BY DEF Limiter!bucketVars
  <1> QED BY <1>1 DEF LimiterStep

LEMMA TickIsLimiterStep ==
  ASSUME GateInv, NEW k \in Labels, Tick
  PROVE  LimiterStep(k)
  <1>1. /\ clock' = clock + 1 /\ bucket'[k] = Aged(bucket[k], clock + 1)
        /\ rate' = rate /\ last' = last /\ window' = window
    BY DEF Tick
  <1>2. Limiter(k)!Passes
    BY <1>1, SameScript DEF Limiter!Passes
  <1> QED BY <1>2 DEF LimiterStep, Limiter!BucketNext

LEMMA OpenWindowsIsLimiterStep ==
  ASSUME GateInv, NEW k \in Labels, OpenWindows
  PROVE  LimiterStep(k)
  <1>1. /\ window'[k] = FreshWindow
        /\ UNCHANGED <<clock, rate, bucket, last>>
    BY DEF OpenWindows
  <1>2. Limiter(k)!OpenWindow
    BY <1>1, SameScript DEF Limiter!OpenWindow
  <1> QED BY <1>2 DEF LimiterStep, Limiter!BucketNext

\* The bucket a request asks is checked with its stamp; the others see nothing.
LEMMA ScriptIsLimiterStep ==
  ASSUME GateInv, NEW k \in Labels, NEW r \in Requests, RunScript(r)
  PROVE  LimiterStep(k)
  <1>1. /\ bucket \in [Labels -> Buckets] /\ last \in [Labels -> 0..LastTick]
        /\ window \in [Labels -> Windows]
    BY DEF GateInv, TypeOK
  <1>2. /\ bucket' = [bucket EXCEPT ![BucketOf(r)] =
                        Script(bucket[BucketOf(r)], rate, stamp[r], clock)]
        /\ last' = [last EXCEPT ![BucketOf(r)] = stamp[r]]
        /\ window' = [window EXCEPT ![BucketOf(r)] =
                        Watched(window[BucketOf(r)], bucket[BucketOf(r)], stamp[r],
                                last[BucketOf(r)], IF AllowedNow(r) THEN 1 ELSE 0)]
        /\ UNCHANGED <<clock, rate>>
        /\ stamp[r] \in (clock - MaxLag)..clock
    BY ScriptRun
  <1>3. CASE k # BucketOf(r)
    <2>1. bucket'[k] = bucket[k] /\ last'[k] = last[k] /\ window'[k] = window[k]
      BY <1>1, <1>2, <1>3
    <2> QED BY <1>2, <2>1, UntouchedIsLimiterStep
  <1>4. CASE k = BucketOf(r)
    <2>1. /\ bucket'[k] = Script(bucket[k], rate, stamp[r], clock)
          /\ last'[k] = stamp[r]
          /\ window'[k] = Watched(window[k], bucket[k], stamp[r], last[k],
                                  IF AllowedNow(r) THEN 1 ELSE 0)
      BY <1>1, <1>2, <1>4
    <2>2. AllowedNow(r) = Allowed(bucket[k], rate, stamp[r])
      BY <1>4 DEF AllowedNow
    <2>3. /\ bucket'[k] = Limiter(k)!Script(bucket[k], rate, stamp[r], clock)
          /\ window'[k] = Limiter(k)!Watched(window[k], bucket[k], stamp[r], last[k],
                            IF Limiter(k)!Allowed(bucket[k], rate, stamp[r]) THEN 1 ELSE 0)
      BY <2>1, <2>2, SameScript
    <2>4. Limiter(k)!Check(stamp[r])
      BY <1>2, <2>1, <2>3 DEF Limiter!Check
    <2> QED BY <1>2, <2>4 DEF LimiterStep, Limiter!BucketNext
  <1> QED BY <1>3, <1>4

LEMMA NextIsLimiterStep ==
  ASSUME GateInv, [Next]_vars
  PROVE  \A k \in Labels : LimiterStep(k)
  <1> SUFFICES ASSUME NEW k \in Labels PROVE LimiterStep(k)
    OBVIOUS
  <1>1. ASSUME UNCHANGED <<clock, rate, limits>> PROVE LimiterStep(k)
    BY <1>1, UntouchedIsLimiterStep DEF limits
  <1>2. CASE Tick
    BY <1>2, TickIsLimiterStep
  <1>3. CASE OpenWindows
    BY <1>3, OpenWindowsIsLimiterStep
  <1>4. ASSUME NEW r \in Requests, Arrive(r) PROVE LimiterStep(k)
    BY <1>1, <1>4 DEF Arrive, Anonymous, ClientArrives, AdminArrives
  <1>5. ASSUME NEW r \in Requests, Limit(r) PROVE LimiterStep(k)
    <2>1. CASE TakeFails(r)
      BY <1>1, <2>1 DEF TakeFails
    <2>2. CASE RunScript(r)
      BY <2>2, ScriptIsLimiterStep
    <2> QED BY <1>5, <2>1, <2>2 DEF Limit, ClientTakes, AdminTakes, TakeLosesReply
  <1>6. ASSUME NEW r \in Requests, Query(r) PROVE LimiterStep(k)
    BY <1>1, <1>6 DEF Query, LookUp, Flush, Load, Commit, CommitLosesReply, DatabaseFails
  <1>7. CASE UNCHANGED vars
    BY <1>1, <1>7 DEF vars
  <1> QED BY <1>2, <1>3, <1>4, <1>5, <1>6, <1>7 DEF Next

\* Every bucket of the gateway is a TokenBucket, whatever the requests around it
\* do and whichever of them fail (token_bucket.py).
THEOREM DoorImplementsTokenBuckets == Spec => ImplementsTokenBuckets
  <1>1. Init => \A k \in Labels : Limiter(k)!BucketInit
    <2> SUFFICES ASSUME Init, NEW k \in Labels PROVE Limiter(k)!BucketInit
      OBVIOUS
    <2>1. /\ clock = MaxLag /\ rate \in Rates /\ bucket[k] = NoBucket /\ last[k] = 0
          /\ window[k] = FreshWindow
      BY DEF Init
    <2> QED BY <2>1, SameScript DEF Limiter!BucketInit
  <1>2. GateInv /\ [Next]_vars => [\A k \in Labels : LimiterStep(k)]_vars
    BY NextIsLimiterStep
  <1>3. Spec => [][\A k \in Labels : LimiterStep(k)]_vars
    BY <1>2, GateInvariance, PTL DEF Spec
  <1> QED BY <1>1, <1>3, PTL DEF Spec, ImplementsTokenBuckets, LimiterStep

=============================================================================
