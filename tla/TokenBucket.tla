----------------------------- MODULE TokenBucket -----------------------------
(***************************************************************************)
(* One bucket with callers whose stamps lag behind Redis's clock, each by  *)
(* a time of its own, and what the callers are granted in any window of    *)
(* time.  A window opens at any moment and watches the calls from then on. *)
(***************************************************************************)
EXTENDS Bucket

VARIABLES clock,      \* Redis's
          rate,       \* rate_limit_refill_per_sec
          bucket,     \* the Redis hash
          last,       \* ghost: the stamp of the last call
          window      \* ghost: what was granted since the window opened

bucketVars == <<clock, rate, bucket, last, window>>

NoStamp == -1

\* Before the first call of a window there is nothing to count.
FreshWindow == [first |-> NoStamp, granted |-> 0, regress |-> 0, renewed |-> 0]

\* first: the stamp of the window's first call.  regress: by how much stamps
\* were behind the one before them, in total.  renewed: how often a key that
\* has no refill expired and came back full.
Windows == [first : Int, granted : Nat, regress : Nat, renewed : Nat]

BucketTypeOK == /\ clock \in Nat
                /\ rate \in Rates
                /\ bucket \in Buckets
                /\ last \in Nat
                /\ window \in Windows

\* The first clock reading leaves room for a stamp that lags.
BucketInit == /\ clock = MaxLag
              /\ rate \in Rates
              /\ bucket = NoBucket
              /\ last = 0
              /\ window = FreshWindow

\* The window after a call with this stamp on bucket b.
Watched(w, b, stamp, previous, granted) ==
  IF w.first = NoStamp
  THEN [FreshWindow EXCEPT !.first = stamp, !.granted = granted]
  ELSE [w EXCEPT !.granted = @ + granted,
                 !.regress = @ + (IF stamp < previous THEN previous - stamp ELSE 0),
                 !.renewed = @ + (IF rate = 0 /\ ~b.live THEN 1 ELSE 0)]

OpenWindow == /\ window' = FreshWindow
              /\ UNCHANGED <<clock, rate, bucket, last>>

Check(stamp) ==
  /\ stamp \in (clock - MaxLag)..clock
  /\ bucket' = Script(bucket, rate, stamp, clock)
  /\ last' = stamp
  /\ window' = Watched(window, bucket, stamp, last,
                       IF Allowed(bucket, rate, stamp) THEN 1 ELSE 0)
  /\ UNCHANGED <<clock, rate>>

Passes == /\ clock' = clock + 1
          /\ bucket' = Aged(bucket, clock + 1)
          /\ UNCHANGED <<rate, last, window>>

BucketNext == \/ OpenWindow
              \/ Passes
              \/ \E stamp \in (clock - MaxLag)..clock : Check(stamp)

BucketSpec == BucketInit /\ [][BucketNext]_bucketVars

-----------------------------------------------------------------------------
(* Property *)

\* From one call to any later one the bucket grants its capacity and the
\* refill of the time between their stamps, plus the refill of the time that
\* stamps went back in between, which is credited again; and when there is no
\* refill, its capacity each time the key expires (the script, token_bucket).
Granted(w, previous) ==
  w.first # NoStamp =>
    w.granted <= Capacity * (1 + w.renewed) + rate * (previous - w.first + w.regress)

RateBound == Granted(window, last)

=============================================================================
