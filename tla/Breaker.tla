------------------------------- MODULE Breaker -------------------------------
(***************************************************************************)
(* The state of one CircuitBreaker object and its methods, as operators    *)
(* that map a breaker to the breaker after the call.                       *)
(*                                                                         *)
(* The code keeps two instants, _opened_at and _trial_started_at, and only *)
(* ever compares "now - instant" with the cooldown.  A breaker here keeps  *)
(* the two AGES instead, in clock ticks, and an age stops growing once it  *)
(* has reached the cooldown: no comparison can tell a larger age apart.    *)
(* The failure count stops at the threshold for the same reason.           *)
(***************************************************************************)
EXTENDS Integers

CONSTANTS FailureThreshold,   \* circuit_breaker_failure_threshold
          Cooldown            \* circuit_breaker_cooldown_seconds, in ticks

ASSUME BreakerAssumption == /\ FailureThreshold \in Nat \ {0}
                            /\ Cooldown \in Nat

\* An instant that is not set: None in the code.
NoTime == -1

Ages == 0..Cooldown

Breakers == [state    : {"closed", "open", "half_open"},
             failures : 0..FailureThreshold,
             opened   : Ages \cup {NoTime},
             trial    : Ages \cup {NoTime}]

NewBreaker == [state |-> "closed", failures |-> 0,
               opened |-> NoTime, trial |-> NoTime]

Older(age) == IF age \in 0..(Cooldown - 1) THEN age + 1 ELSE age

\* One tick of the clock.
Elapse(b) == [b EXCEPT !.opened = Older(@), !.trial = Older(@)]

UpdateState(b) ==
  IF b.state = "open" /\ b.opened # NoTime /\ b.opened >= Cooldown
  THEN [b EXCEPT !.state = "half_open"]
  ELSE b

\* Faulty version: a trial nobody reports on is held for ever.
TrialNeverAgesOut(b) == b.trial # NoTime

\* The half-open trial is taken and has not aged out.
TrialHeld(b) == b.trial # NoTime /\ b.trial < Cooldown

\* What allow_request answers ...
Admits(b) ==
  LET u == UpdateState(b)
  IN  u.state = "closed" \/ (u.state = "half_open" /\ ~TrialHeld(u))

\* ... and what it leaves behind: admission in half-open claims the trial.
AllowRequest(b) ==
  LET u == UpdateState(b)
  IN  IF u.state = "half_open" /\ ~TrialHeld(u)
      THEN [u EXCEPT !.trial = 0]
      ELSE u

\* Faulty version: success takes one failure off the count.
SuccessCountsDown(b) == [NewBreaker EXCEPT !.failures = b.failures - 1]

RecordSuccess(b) == NewBreaker

\* Faulty versions: a failure while the breaker is not closed does not restart
\* the cooldown; a failure leaves the trial claimed.
FailureKeepsOpening(b) ==
  IF b.state = "closed" /\ b.failures + 1 < FailureThreshold
  THEN [b EXCEPT !.failures = @ + 1]
  ELSE [state |-> "open", failures |-> FailureThreshold, trial |-> NoTime,
        opened |-> IF b.opened = NoTime THEN 0 ELSE b.opened]

FailureKeepsTrial(b) ==
  IF b.state = "closed" /\ b.failures + 1 < FailureThreshold
  THEN [b EXCEPT !.failures = @ + 1]
  ELSE [b EXCEPT !.state = "open", !.failures = FailureThreshold, !.opened = 0]

RecordFailure(b) ==
  LET count == IF b.failures < FailureThreshold THEN b.failures + 1
                                                ELSE b.failures
      trips == b.state = "half_open" \/ count >= FailureThreshold
  IN  [state    |-> IF trips THEN "open" ELSE b.state,
       failures |-> count,
       opened   |-> IF trips THEN 0 ELSE b.opened,
       trial    |-> NoTime]

=============================================================================
