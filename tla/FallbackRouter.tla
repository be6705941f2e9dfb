----------------------------- MODULE FallbackRouter -----------------------------
(***************************************************************************)
(* FallbackRouter.chat and .chat_stream: the requests of one process walk  *)
(* the chain of providers, ask each provider's circuit breaker, retry a    *)
(* provider that failed, fall back to the next one, and commit to one with *)
(* its answer or its first chunk.  The breakers are shared by the requests *)
(* of the process; the operators on them are those of Breaker.             *)
(*                                                                         *)
(* The code between two awaits is one step: a provider call's end, with    *)
(* the walk to the next provider that may be called.                       *)
(***************************************************************************)
EXTENDS Breaker, Sequences, FiniteSets

CONSTANTS Requests,
          Chain,       \* the chain, a sequence of providers
          Skips,       \* the skip_providers a request may come with
          Kinds,       \* "chat" and "stream"
          Retries      \* provider_retry_attempts

Providers == {Chain[i] : i \in DOMAIN Chain}

ASSUME RouterAssumption ==
  /\ Chain \in Seq(Providers)
  /\ \A i, j \in DOMAIN Chain : Chain[i] = Chain[j] => i = j
  /\ Skips \subseteq SUBSET Providers
  /\ Kinds \subseteq {"chat", "stream"}
  /\ Retries \in Nat

VARIABLES breakers,      \* _BREAKERS
          req,           \* where each request stands
          calls,         \* ghost: the calls a request has made of each provider
          inRow,         \* ghost: requests in a row that failed at a provider
          sinceProbe,    \* ghosts of CircuitBreaker, for each breaker
          sinceFailure

ages == <<sinceProbe, sinceFailure>>
vars == <<breakers, req, calls, inRow, ages>>

\* idle: not in the router; calling: the attempt's call is awaited; backoff:
\* asleep before the next attempt; streaming: committed.
Points == {"idle", "calling", "backoff", "streaming"}

TypeOK ==
  /\ breakers \in [Providers -> Breakers]
  /\ req \in [Requests ->
       [pc : Points, kind : {"chat", "stream"}, skip : SUBSET Providers,
        hop : 0..Len(Chain), retry : 0..Retries, heard : SUBSET Providers]]
  /\ calls \in [Requests -> [Providers -> Nat]]
  /\ inRow \in [Providers -> 0..FailureThreshold]
  /\ sinceProbe \in [Providers -> Ages] /\ sinceFailure \in [Providers -> Ages]

NoCalls == [p \in Providers |-> 0]

Idle == [pc |-> "idle", kind |-> "chat", skip |-> {}, hop |-> 0, retry |-> 0,
         heard |-> {}]    \* ghost: providers its caller has heard from

Init ==
  /\ breakers = [p \in Providers |-> NewBreaker]
  /\ req = [r \in Requests |-> Idle]
  /\ calls = [r \in Requests |-> NoCalls]
  /\ inRow = [p \in Providers |-> 0]
  /\ sinceProbe = [p \in Providers |-> Cooldown]
  /\ sinceFailure = [p \in Providers |-> Cooldown]

-----------------------------------------------------------------------------
At(r, point) == req[r].pc = point

Provider(r) == Chain[req[r].hop]

\* Faulty version: the providers out of budget are walked too.
AheadIgnoringBudget(q) == q.hop + 1 .. Len(Chain)

\* The walk: hops out of budget are passed over before their breaker is asked,
\* and every breaker asked may move (and, admitting, hand out its trial).
Ahead(q) == {i \in q.hop + 1 .. Len(Chain) : Chain[i] \notin q.skip}

\* Where it stops: at the first breaker that admits, or past the chain.
Stop(q, bs) ==
  LET admitting == {i \in Ahead(q) : Admits(bs[Chain[i]])}
  IN  IF admitting = {} THEN Len(Chain) + 1
      ELSE CHOOSE i \in admitting : \A j \in admitting : i <= j

\* The request is done with the router; what it was is forgotten.
Leave(r) == /\ req' = [req EXCEPT ![r] = Idle]
            /\ calls' = [calls EXCEPT ![r] = NoCalls]

\* From hop q.hop on, with the breakers as bs: call the next provider, or raise
\* AllProvidersFailedError.
MoveOn(r, q, bs, made) ==
  LET stop == Stop(q, bs)
      asked == {Chain[i] : i \in {j \in Ahead(q) : j <= stop}}
      to == Chain[stop]
      found == stop <= Len(Chain)
      half == breakers'[to].state = "half_open" IN
  /\ breakers' = [p \in Providers |-> IF p \in asked
                                      THEN UpdateState(AllowRequest(bs[p]))
                                      ELSE bs[p]]
  /\ IF found
     THEN /\ req' = [req EXCEPT ![r] = [q EXCEPT !.pc = "calling", !.hop = stop,
                                                 !.retry = 0]]
          /\ calls' = [calls EXCEPT ![r] = [made EXCEPT ![to] = @ + 1]]
          /\ sinceProbe' = IF half THEN [sinceProbe EXCEPT ![to] = 0] ELSE sinceProbe
     ELSE /\ Leave(r)
          /\ UNCHANGED sinceProbe

Begin(r) ==
  /\ At(r, "idle")
  /\ \E k \in Kinds, s \in Skips :
       MoveOn(r, [Idle EXCEPT !.kind = k, !.skip = s], breakers, NoCalls)
  /\ UNCHANGED <<inRow, sinceFailure>>

\* record_success and record_failure, with the publication that follows.
Succeeded(p) == [breakers EXCEPT ![p] = UpdateState(RecordSuccess(@))]

Failed(p) ==
  /\ sinceFailure' = [sinceFailure EXCEPT ![p] = 0]
  /\ inRow' = [inRow EXCEPT ![p] = IF @ < FailureThreshold THEN @ + 1 ELSE @]

AfterFailure(p) == [breakers EXCEPT ![p] = UpdateState(RecordFailure(@))]

\* The provider is given up: one failure for all its attempts.
GiveUp(r) == /\ MoveOn(r, req[r], AfterFailure(Provider(r)), calls[r])
             /\ Failed(Provider(r))

\* Faulty version: one attempt too many (retry <= retry_attempts).
BackoffOnceMore(r) ==
  /\ At(r, "calling")
  /\ req' = [req EXCEPT ![r].pc = "backoff"]
  /\ UNCHANGED <<breakers, calls, inRow, ages>>

\* Faulty version: every failed attempt is reported to the breaker.
BackoffReporting(r) ==
  /\ At(r, "calling")
  /\ req[r].retry < Retries
  /\ req' = [req EXCEPT ![r].pc = "backoff"]
  /\ breakers' = AfterFailure(Provider(r))
  /\ Failed(Provider(r))
  /\ UNCHANGED <<calls, sinceProbe>>

\* A retryable error with attempts left: sleep for the backoff.
Backoff(r) ==
  /\ At(r, "calling")
  /\ req[r].retry < Retries
  /\ req' = [req EXCEPT ![r].pc = "backoff"]
  /\ UNCHANGED <<breakers, calls, inRow, ages>>

\* The next attempt.  The breaker is not asked again.
Retry(r) ==
  /\ At(r, "backoff")
  /\ req' = [req EXCEPT ![r].pc = "calling", ![r].retry = @ + 1]
  /\ calls' = [calls EXCEPT ![r][Provider(r)] = @ + 1]
  /\ UNCHANGED <<breakers, inRow, ages>>

\* A retryable error on the last attempt.
Exhausted(r) == /\ At(r, "calling")
                /\ req[r].retry = Retries
                /\ GiveUp(r)

\* An error that no retry would change.
NotRetryable(r) == /\ At(r, "calling")
                   /\ GiveUp(r)

\* The answer, or the first chunk: success is recorded now.
Commit(r) ==
  /\ At(r, "calling")
  /\ breakers' = Succeeded(Provider(r))
  /\ IF req[r].kind = "chat"
     THEN /\ Leave(r)
          /\ inRow' = [inRow EXCEPT ![Provider(r)] = 0]
     ELSE /\ req' = [req EXCEPT ![r].pc = "streaming", ![r].heard = @ \cup {Provider(r)}]
          /\ UNCHANGED <<calls, inRow>>
  /\ UNCHANGED ages

StreamEnds(r) ==
  /\ At(r, "streaming")
  /\ Leave(r)
  /\ inRow' = [inRow EXCEPT ![Provider(r)] = 0]
  /\ UNCHANGED <<breakers, ages>>

\* Faulty version: the rest of the answer is asked of the next provider.
MidStreamFailureGoesOn(r) == /\ At(r, "streaming")
                             /\ GiveUp(r)

\* No other provider is tried: the client has part of this one's answer.
MidStreamFailure(r) ==
  /\ At(r, "streaming")
  /\ breakers' = AfterFailure(Provider(r))
  /\ Failed(Provider(r))
  /\ Leave(r)
  /\ UNCHANGED sinceProbe

\* Faulty version: a trial that is cancelled is handed back.
AbandonFreesTrial(r) ==
  /\ ~At(r, "idle")
  /\ breakers' = [breakers EXCEPT ![Provider(r)].trial = NoTime]
  /\ Leave(r)
  /\ UNCHANGED <<inRow, ages>>

\* CancelledError, GeneratorExit or an exception that is not a ProviderError:
\* nothing is reported to the breaker.
Abandon(r) ==
  /\ ~At(r, "idle")
  /\ Leave(r)
  /\ UNCHANGED <<breakers, inRow, ages>>

Tick ==
  /\ breakers' = [p \in Providers |-> Elapse(breakers[p])]
  /\ sinceProbe' = [p \in Providers |-> Older(sinceProbe[p])]
  /\ sinceFailure' = [p \in Providers |-> Older(sinceFailure[p])]
  /\ UNCHANGED <<req, calls, inRow>>

Step(r) == \/ Begin(r) \/ Backoff(r) \/ Retry(r) \/ Exhausted(r) \/ NotRetryable(r)
           \/ Commit(r) \/ StreamEnds(r) \/ MidStreamFailure(r) \/ Abandon(r)

Next == Tick \/ \E r \in Requests : Step(r)

Spec == Init /\ [][Next]_vars

-----------------------------------------------------------------------------
(* Properties *)

\* What a request is to one breaker.
CallAt(p, r) == IF At(r, "idle") \/ Provider(r) # p THEN "idle"
                ELSE IF At(r, "streaming") THEN "streaming" ELSE "calling"

Circuit(p) == INSTANCE CircuitBreaker
                WITH breaker <- breakers[p],
                     call <- [r \in Requests |-> CallAt(p, r)],
                     sinceProbe <- sinceProbe[p],
                     sinceFailure <- sinceFailure[p]

\* The router keeps the breakers' protocol: a provider is called only when its
\* breaker has just admitted the request, and of all the attempts of a request
\* the breaker hears once.  (\A p \in Providers : Circuit(p)!Spec, in the form
\* TLC accepts.)
ImplementsCircuitBreakers ==
  /\ \A p \in Providers : Circuit(p)!Init
  /\ [][\A p \in Providers : [Circuit(p)!Next]_(Circuit(p)!vars)]_vars

\* Whoever is sent on to a provider whose breaker is not closed, out of all the
\* requests that walk their chains, finds a full cooldown behind it since the
\* last such trial and since the last failure that anybody reported, also when
\* it comes there because its own attempts at another provider failed.
TrialsAreSpaced ==
  [][\A p \in Providers, r \in Requests :
       CallAt(p, r) = "idle" /\ CallAt(p, r)' = "calling" /\ breakers'[p].state # "closed"
         => sinceProbe[p] >= Cooldown /\ sinceFailure[p] >= Cooldown]_vars

\* A caller never hears from two providers: not even when the first one dies in
\* the middle of its answer.
OneVoice == \A r \in Requests : Cardinality(req[r].heard) <= 1

\* What the reservation relies on: a provider out of budget is never called, not
\* even as a half-open trial, and no other is called more often than the claim
\* of worst case times attempts has paid for.
CallsFitTheClaim ==
  \A r \in Requests : \A p \in Providers :
    calls[r][p] <= IF p \in req[r].skip THEN 0 ELSE Retries + 1

\* "CIRCUIT_BREAKER_FAILURE_THRESHOLD consecutive failures trips it open"
\* (README): when as many requests in a row have failed at a provider, its
\* breaker is not closed.  The code does not keep it for streams.
OutageTripsBreaker ==
  \A p \in Providers : inRow[p] = FailureThreshold => breakers[p].state # "closed"

=============================================================================
