-------------------------------- MODULE Bucket --------------------------------
(***************************************************************************)
(* The token bucket's Lua script as operators on a record.  Redis keeps    *)
(* the tokens and the stamp of the last call; a key that does not exist,   *)
(* or has expired, is a bucket that is not live.  now, in the script, is   *)
(* the stamp the caller took from its own clock before it called.          *)
(***************************************************************************)
EXTENDS Integers

CONSTANTS Capacity,   \* rate_limit_capacity
          Margin,     \* the 60 seconds a key outlives its refill
          IdleTime,   \* the 3600 seconds of a key that has no refill
          MaxLag,     \* how far a stamp is behind Redis's clock, at most
          Rates       \* the values refill_rate may be configured to

\* Stamps lag by the time a command may take and by the skew between hosts.
ASSUME BucketAssumption == /\ Capacity \in Nat \ {0}
                           /\ Margin \in Nat /\ IdleTime \in Nat \ {0}
                           /\ MaxLag \in 0..Margin
                           /\ Rates \subseteq Nat

Buckets == [live : BOOLEAN, tokens : 0..Capacity, updated_at : Int, expires : Int]

NoBucket == [live |-> FALSE, tokens |-> 0, updated_at |-> 0, expires |-> 0]

\* No time passes for a stamp that is behind the last one.
Elapsed(b, stamp) == IF stamp > b.updated_at THEN stamp - b.updated_at ELSE 0

Refilled(b, rate, stamp) ==
  LET refill == b.tokens + Elapsed(b, stamp) * rate
  IN  IF b.live /\ refill < Capacity THEN refill ELSE Capacity

\* Faulty version: an empty bucket still grants.
AllowedWhenEmpty(b, rate, stamp) == Refilled(b, rate, stamp) >= 0

Allowed(b, rate, stamp) == Refilled(b, rate, stamp) >= 1

\* Faulty version: a key lives exactly as long as its refill takes.
TimeToLiveWithoutMargin(rate) ==
  IF rate > 0 THEN (Capacity + rate - 1) \div rate ELSE IdleTime

\* math.ceil(capacity / refill_rate) + 60, or 3600.
TimeToLive(rate) ==
  IF rate > 0 THEN (Capacity + rate - 1) \div rate + Margin ELSE IdleTime

\* Faulty version: the bucket's instant only moves forward.
UpdatedAtForward(b, stamp) ==
  IF b.live /\ stamp < b.updated_at THEN b.updated_at ELSE stamp

\* The caller's stamp, also when that is earlier.
UpdatedAt(b, stamp) == stamp

\* The bucket after the script, run at Redis's time clock.
Script(b, rate, stamp, clock) ==
  [live       |-> TRUE,
   tokens     |-> Refilled(b, rate, stamp) - (IF Allowed(b, rate, stamp) THEN 1 ELSE 0),
   updated_at |-> UpdatedAt(b, stamp),
   expires    |-> clock + TimeToLive(rate)]

\* Redis drops the key when its time has come.
Aged(b, clock) == IF b.live /\ b.expires <= clock THEN NoBucket ELSE b

=============================================================================
