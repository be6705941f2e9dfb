---------------------------- MODULE CircuitBreaker ----------------------------
(***************************************************************************)
(* One breaker shared by the requests of one gateway process.  The methods *)
(* are synchronous, so each runs as one step; what interleaves is the time *)
(* BETWEEN a request's allow_request and the moment it reports back, with  *)
(* other requests, with reports from requests admitted before the breaker  *)
(* opened, with requests that never report, and with the clock.            *)
(*                                                                         *)
(* FallbackRouter calls publish_circuit_state after every one of these     *)
(* methods, which reads breaker.state and so applies the open-to-half-open *)
(* transition: each action below ends with it.                             *)
(***************************************************************************)
EXTENDS Breaker

CONSTANT Requests       \* the requests that may be in flight at once

VARIABLES breaker,      \* the CircuitBreaker object
          call,         \* where each request stands with this provider
          sinceProbe,   \* ghost: age of the last admission in half-open
          sinceFailure  \* ghost: age of the last recorded failure

vars == <<breaker, call, sinceProbe, sinceFailure>>

\* idle: not at this provider; calling: admitted, no report yet;
\* streaming: committed to this provider (success reported), still reading.
CallStates == {"idle", "calling", "streaming"}

TypeOK == /\ breaker \in Breakers
          /\ call \in [Requests -> CallStates]
          /\ sinceProbe \in Ages
          /\ sinceFailure \in Ages

Init == /\ breaker = NewBreaker
        /\ call = [r \in Requests |-> "idle"]
        /\ sinceProbe = Cooldown
        /\ sinceFailure = Cooldown

-----------------------------------------------------------------------------
\* allow_request, then publish_circuit_state.  A refused request moves on to
\* the next provider of its chain.
Ask(r) ==
  /\ call[r] = "idle"
  /\ breaker' = UpdateState(AllowRequest(breaker))
  /\ IF Admits(breaker)
     THEN /\ call' = [call EXCEPT ![r] = "calling"]
          /\ sinceProbe' = IF breaker'.state = "half_open" THEN 0
                                                           ELSE sinceProbe
     ELSE UNCHANGED <<call, sinceProbe>>
  /\ UNCHANGED sinceFailure

\* chat returns the provider's answer, or chat_stream commits to the provider
\* on its first chunk: both record the success at that point.
ReportSuccess(r) ==
  /\ call[r] = "calling"
  /\ breaker' = UpdateState(RecordSuccess(breaker))
  /\ \E next \in {"idle", "streaming"} : call' = [call EXCEPT ![r] = next]
  /\ UNCHANGED <<sinceProbe, sinceFailure>>

\* The retries are used up (or the error is not retryable), or a committed
\* stream died on a ProviderError.
ReportFailure(r) ==
  /\ call[r] \in {"calling", "streaming"}
  /\ breaker' = UpdateState(RecordFailure(breaker))
  /\ call' = [call EXCEPT ![r] = "idle"]
  /\ sinceFailure' = 0
  /\ UNCHANGED sinceProbe

\* The call ends without a report: the client disconnected, an exception that
\* is not a ProviderError escaped, or a committed stream came to its end.
Leave(r) ==
  /\ call[r] \in {"calling", "streaming"}
  /\ call' = [call EXCEPT ![r] = "idle"]
  /\ UNCHANGED <<breaker, sinceProbe, sinceFailure>>

\* Anyone who reads breaker.state (the health endpoint, a metrics scrape).
ReadState ==
  /\ breaker' = UpdateState(breaker)
  /\ UNCHANGED <<call, sinceProbe, sinceFailure>>

Tick ==
  /\ breaker' = Elapse(breaker)
  /\ sinceProbe' = Older(sinceProbe)
  /\ sinceFailure' = Older(sinceFailure)
  /\ UNCHANGED call

Next == \/ \E r \in Requests : \/ Ask(r)
                               \/ ReportSuccess(r)
                               \/ ReportFailure(r)
                               \/ Leave(r)
        \/ ReadState
        \/ Tick

Spec == Init /\ [][Next]_vars

\* Time passes, requests keep arriving, and no call lasts for ever: every
\* provider adapter runs its call under an HTTP timeout.
Fairness == /\ WF_vars(Tick)
            /\ WF_vars(\E r \in Requests : Ask(r))
            /\ \A r \in Requests :
                 WF_vars(ReportSuccess(r) \/ ReportFailure(r) \/ Leave(r))

FairSpec == Spec /\ Fairness

-----------------------------------------------------------------------------
(* Properties *)

Admitted(r) == call[r] = "idle" /\ call'[r] = "calling"

\* The count alone decides between closed and not closed, so a stale report
\* that arrives while the breaker is open or half-open can never leave it
\* closed with a full count or open with an empty one.
CountDecides == breaker.state = "closed" <=> breaker.failures < FailureThreshold

\* The two instants are set in exactly the states that read them: an opening
\* time whenever the breaker is not closed (or it could never cool down), a
\* trial claim only while it is half-open (or the next half-open period
\* would begin with its trial already taken).
InstantsFit == /\ (breaker.opened # NoTime) <=> (breaker.state # "closed")
               /\ (breaker.trial # NoTime) => (breaker.state = "half_open")

\* The four fields tell one story, in whatever order the reports come in.
FieldsAgree == CountDecides /\ InstantsFit

\* Half-open sends one probe at a time: whoever is admitted while the breaker
\* is not closed finds a full cooldown behind it since the last probe AND
\* since the last failure anybody reported, however late the reports of
\* earlier requests arrive and whether or not the last probe ever reported.
ProbesAreSpaced ==
  [][\A r \in Requests :
        Admitted(r) /\ breaker'.state # "closed"
           => sinceProbe >= Cooldown /\ sinceFailure >= Cooldown]_vars

\* A breaker that is not closed does not stay shut: either it closes or it
\* sends a (further) probe, even if no probe ever reports back.
NotWedged ==
  breaker.state # "closed" ~> (breaker.state = "closed" \/ breaker.trial = 0)

=============================================================================
