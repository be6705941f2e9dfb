# A TLA+ model of the LLM gateway

The gateway puts one API in front of several LLM providers.  A request is
authenticated, rate-limited, checked against its budget, reserves the worst
case of what it may cost, is sent along a chain of providers until one
answers, and settles the reservation for the real cost.  This directory models
that request path: who gets in, who may be called, when, and what the ledgers
and the audit log say afterwards.  Paths are those of the repository (`app/...`); line numbers of
every definition are in `PROJECT.json` under `map`.

- [The system](#the-system)
- [The modules](#the-modules)
- [The runs](#the-runs)
- [Where the code and its documentation disagree](#where-the-code-and-its-documentation-disagree)
- [The proofs](#the-proofs)
- [What is not modelled](#what-is-not-modelled)
- [The plan](#the-plan)

## The system

| component | state | operations | what makes it correct |
|---|---|---|---|
| **Circuit breaker** `routing/circuit_breaker.py`, one per provider and process | state, failure count, instant it opened, instant of the half-open trial | `allow_request`, `record_success`, `record_failure`, `state` | the fields agree; one probe per cooldown; never shut for ever |
| **Fallback router** `routing/fallback.py` | none of its own; the breakers in `dependencies.py` `_BREAKERS` | `chat`, `chat_stream` | one report per provider and request; no provider out of budget, no more attempts than claimed; no change of provider once the client has heard one |
| **Provider budget** `budget/provider_budget.py` | one Redis number per provider, for ever | `reserve`, `settle`, `record_unreserved`, reads for gauge and `/admin` | bills within the cap; a claim is settled at most once; failures over-count |
| **Key budget** `budget/tracker.py`, `budget/dependency.py` | one Redis number per client key and period of thirty days, with an expiry | `enforce_budget`, `reserve`, `settle` | the requests of a month cost at most the cap; a number lasts as long as its month; a cost is put in once, also across the end of a month |
| **Request path** `main.py` | the locals of a request: reservations, skipped providers, served provider, totals | `_reserve_chain`, `_serve_chat`, `_event_stream`, `_openai_event_stream`, `_settle_chain`, `_settle_stream_on_abort` | both ledgers end with the same cost; every request is settled, counted and audited once |
| **Pricing** `budget/pricing.py` | tables | worst case, cost, estimate of a cut stream | what is reserved covers what may be charged, as far as three characters make a token |
| **Rate limiter** `ratelimit/` | a Redis hash per key | take a token | at most capacity plus refill in any window; who waits long enough gets in |
| **API keys, admin** `security/auth.py`, `admin/` | key rows, admin audit rows | create, revoke, look up | a revoked key is refused; each change has its row; guesses at the admin key cost tokens |
| **Audit log** `db/audit.py` | rows of a request | write | agrees with the ledgers when nothing fails |
| **Scripts** `scripts/reconcile.py`, `scripts/purge_audit_rows.py` | none | compare ledgers and log; delete the rows of a request id | a verdict means what it says; a row is deleted only with a copy of it exported |
| **Adapters** `providers/` | none | one HTTP call each | errors are classified as retryable or final; usage is reported |
| **Observability** `observability/` | gauges and counters | publish | gauges agree with what they show |

How they interact. Requests are asyncio tasks of several worker processes.
Within a process they share the breakers, and each step between two `await`s is
atomic; all processes share Redis, where the unit is one command, one
transaction or one script, and the database, where it is one transaction. A
request is authenticated, takes a token of its key's bucket, and is turned away
if its month is already spent. Then `_reserve_chain` claims from each priced
provider of the chain and then from the key; the router calls providers and
tells the breakers; the end of the request settles each provider's ledger, then
the key's, then writes the audit row. An operator compares ledgers and rows, or
deletes rows, while all this goes on. Three things cut a request short: an
error from Redis or the database, a provider's error, and a cancellation (the
client left: `CancelledError` at any `await`, `GeneratorExit` at a `yield`),
which may land anywhere, the cleanup of an earlier one included. A fourth, the
end of the process, leaves no code running that could clean up.

What is hard in this code: concurrent claims near a cap; clocks that disagree
and months that end between two steps; records read one after the other while
requests write both; replies that are lost after Redis executed the command;
cleanup that is itself interrupted; reports to a breaker that arrive late or
never; attempts that failed but were billed.
`PROJECT.json` lists each under `hazards` with the property that looks for it.

## The modules

```
Breaker <- CircuitBreaker <- AbstractProofs
   ^            ^ is implemented, for every provider, by
   +------ FallbackRouter <- MCFallbackRouter, FallbackRouterProofs

Money <- MoneyTheorems (lemmas on sums, extended by the proofs about money)

Money <- SpendLedger <- ProviderBudget <- MCProviderBudget, ProviderBudgetProofs

SpendLedger is implemented by ProviderBudget, and by every ledger of
RequestPath <- MCRequestPath, RequestPathProofs

Money <- KeyBudget <- MCKeyBudget, KeyBudgetProofs

Bucket <- TokenBucket <- AbstractProofs
   ^          ^ is implemented, for every bucket, by
   +-------- Gate <- MCGate, GateProofs

Metering, Money <- Bookkeeping <- MCBookkeeping, BookkeepingProofs
```

`A <- B`: module B extends A.  `ProviderBudget` extends `SpendLedger` and shares
its variables, which are its ledger and its ghosts; `RequestPath` and
`FallbackRouter` instantiate the abstract modules once per ledger and per
provider, `Gate` once per bucket.

Money is a whole number of units: the properties compare sums, which do not
depend on the unit.  Floating-point rounding is not modelled.

### `Breaker`, `CircuitBreaker`

`Breaker` has the methods of `CircuitBreaker` as operators on a record
`[state, failures, opened, trial]`.  The two instants are kept as ages in
ticks, cut off at `Cooldown`, because the code only asks whether a cooldown
has passed; `NoTime` is `0.0`/`None`, unset.  `UpdateState` is `_update_state`,
which every method and the `state` property run first where the code does.

`CircuitBreaker` is one breaker with the calls around it: `Ask`
(`allow_request` and the publication that follows), `ReportSuccess`,
`ReportFailure`, `Leave` (a request cancelled before it reports, or a stream
that ends), `ReadState` and `Tick`.  A stream reports a success and stays,
because it may report a failure later.  `sinceProbe` and `sinceFailure` are
ghosts: they restate when the last probe was sent and the last failure
reported, independently of the breaker's own fields.

### `SpendLedger`

What both budgets promise, in three actions on one number: a claim is added and
compared with the total that includes it (`Claim`), a claim over the cap is
handed back (`HandBack`), a granted claim is replaced by a cost that is not
larger (`Swap`).  `stake` is what each request has put in, `standing` what
became of its claim.

### `ProviderBudget`

One provider's ledger as `provider_budget.py` and `_settle_providers` keep it.
Each Redis command is three steps: a request sends it (`Reserve`, the second
half of `OverCap`, `Settle`), Redis executes it (`Execute`), loses it
(`LoseCommand`) or loses the reply (`LoseReply`), and the request resumes
(`Granted`, `OverCap`, `HandedBack`, `Settled`, and the `...Failed` actions of
the error paths).  `Cancel` takes a request away and leaves its command on the
wire, where Redis may still execute it.  `leaked` is the counter of hand-backs
that failed.

### `RequestPath`

Whole requests.  A request is a record `req[r]` of the locals of its handler:
`chain`, `skip`, `reserved`, `served`, `actual` carry the code's values, `pc`
is the `await` it stands at and `hop` where its loop over the chain is.  One
action is the code from the end of one `await` to the next: the local part is
an operator on the record (`ReserveNext`, `CallNext`, `SettleChain`, `SettleOn`,
`AfterSettle`...), composed as the functions call each other, so that an
action contains everything its handler does before it waits again.

| actions | code |
|---|---|
| `Start`, `Granted`, `OverCap`, `ReserveBroken`, `HandedBack`, `HandBackCancelled` | the loop of `_reserve_chain` and `ProviderBudget.reserve` |
| `KeyGranted`, `KeyOverCap`, `KeyReserveBroken`, `KeyHandedBack` | the key's claim, `BudgetTracker.reserve` |
| `Respond`, `BreakerOpen`, `RetryableFailure`, `FinalFailure`, `Answer`, `FirstChunk`, `LastChunk`, `MidStreamFailure` | the router, as its callers see it, and the handlers of its outcome |
| `Crash`, `CancelCall` | an exception nobody expects, a cancellation |
| `TailFails`, `AuditRaises` | the handler of the tail after the last chunk, with `settled` false and true |
| `SettleProvider`, `SettleTheKey` | `_settle_providers`, `_settle_chain`, `BudgetTracker.settle` |
| `Audit`, `AuditFailure`, `Stop` | the audit write, and the last `yield` of the OpenAI stream |

A Redis command is one step here (`ProviderBudget` has it in three); an error
or a cancellation leaves open whether it was executed.  `billed` is a ghost:
what each provider has billed for each request, the attempts that failed after
the provider had answered included.  Three endpoints are told apart: `chat`
(`/v1/chat` and non-streaming `/v1/chat/completions`), `stream` and `openai`.

### `FallbackRouter`

The router from the inside, with the breakers of `Breaker` shared by the
requests of a process.  `MoveOn` is the walk along the chain with no `await`
in it: hops out of budget are passed over before their breaker is asked, every
breaker asked may change, and the first to admit is called.  `GiveUp` is the
one report for all the attempts on a provider.  `calls`, `inRow` and
`heard` are ghosts: the calls a request has made of each
provider, the requests in a row that failed at a provider, and the providers a
caller has heard from.

### `KeyBudget`

The ledger of one client key as `tracker.py` keeps it, with the check of
`enforce_budget` in front.  `usd[p]` and `expires[p]` are the Redis number of
period `p` and the instant Redis drops it.  The period is read off the clock
when a command is *sent* (`Send`, `_key`), and the clock (`Tick`) may move
between any two steps: a claim made in one month is settled or handed back in
the next month's number if the month has turned.  Commands are three steps as
in `ProviderBudget`; `Apply` is the transaction of `INCRBYFLOAT` and `EXPIRE`.
`put[r][p]` and `claimedIn[r]` are ghosts: what a request has put into each
number, and which number its claim went to.

### `Bucket`, `TokenBucket`, `Gate`

`Bucket` has the Lua script as operators on `[live, tokens, updated_at,
expires]`; tokens and time are whole, and a check costs one token, as every
caller's does.  `TokenBucket` is one bucket whose callers send stamps up to
`MaxLag` behind Redis's clock, in any order, with a ghost `window` that opens at
any moment and counts what is granted from then on.

`Gate` is the door: clients go through `require_api_key` and then
`enforce_rate_limit`, admins through `enforce_admin_rate_limit` and then
`require_admin_key`.  A request that asks a bucket takes its stamp when it sends
the script (`SendScript`) and is served later (`RunScript`), or not at all
(`TakeFails`), or without learning of it (`TakeLosesReply`).  `Flush` and
`Commit` are the two halves of `create_key`, `Load` and `Commit` of
`revoke_key`; `CommitLosesReply` and `DatabaseFails` are what a database may do
instead.  `row` and `trail` are the two tables.  Each bucket of `Gate` is a
`TokenBucket` (`ImplementsTokenBuckets`).

Stamps are relative to the fastest clock, which Redis's stands for: Redis counts
durations only, so that where its clock stands does not matter.  `MaxLag` covers
skew between hosts and the time a command may take; a script older than that is
one the client has given up.  The code assumes it is below the 60 seconds a key
outlives its refill (`BucketAssumption`).

### `Metering`, `Bookkeeping`

`Metering` is pure: the worst case, the usage each adapter reports for an answer,
the charge made from it and the estimate of `_settle_stream_on_abort`.  Money is
counted in thirds of a price unit, for the three characters of a token.  How many
tokens a prompt of `Chars` characters has, and how many characters a token of an
answer, is up to the provider: `Prompts` and `Spans` are any sets, because the
code ties neither to anything (`MeteringAssumption` only types them).

`Bookkeeping` is what requests leave behind.  A request of the default chain
reserves (`Reserve`), is answered, fails, breaks off or is left by its client
(`ChatAnswered`, `StreamEnds`, `NobodyAnswers`, `StreamBreaks`, `ClientLeaves`,
`ClientLeavesEarly`), settles each provider (`Settle`) and writes its rows
(`NoteError`, `Record`); any of these may fail, and `Crash` ends a process
between any two of them.  The scripts are `ReadLedger` for each provider and
`ReadAudit`; `SelectRows`, `Export`, `DeleteRows` and the failures of each.  A
purge deletes the rows of a set of requests: those that carry the same id, which
clients choose (`X-Request-ID`).  `answer`, `overlap`, `low` and `lost` are
ghosts: what the provider made of a request, which the gateway may never learn;
which claims a reading missed; the ledgers found lower than that and charges
above claims explain; and the rows deleted that no export holds.

## The runs

| run | instance | shows |
|---|---|---|
| `circuit_breaker` | 3 requests, threshold 2, cooldown 3 ticks | `TypeOK`; `FieldsAgree`: the four fields tell one story whatever order reports come in; `ProbesAreSpaced`: an unhealthy provider gets at most one probe per cooldown; `NotWedged`: a trial that never reports does not shut the breaker |
| `provider_budget` | 3 requests, cap 3, 1 fault, 1 cancellation | `BillWithinCap`: what may still be billed for the requests let through is within the cap; `NeverUndercounts`: nor is it more than the ledger shows; `RefusalsLeakOpenly`: what refusals leave behind is in the leak counter; `ImplementsSpendLedger` |
| `request_path` | 2 requests, 2 providers, chat and stream, 1 fault, 1 cancellation, no retry | `SettledExactly`: a request that got its answer undisturbed leaves its cost, once, on the key and on the provider that served it; `CostsStayWithinTheCaps`: the costs the gateway knows of stay, together, within the cap of each provider and of the key; `ImplementsSpendLedgers`: each ledger is a `SpendLedger` however the requests interleave |
| `request_path_alone` | 1 request, every endpoint, both chains, perhaps a provider without a price, 2 faults, 2 cancellations, 1 retry, fair | `OpenBillsAreClaimed`: while a request runs its bills are covered by claims; `CountedOnce`: no request under two statuses, and every one under one that is not refused, cancelled, or a chat in which the router raised; `KnownCostIsKept`: once the cost is known neither ledger holds less, cleanup that is itself interrupted included; `EveryRequestEnds` |
| `fallback_router` | 2 requests, 2 providers, threshold 2, cooldown 1 tick, 1 retry, the first hop perhaps out of budget | `OneVoice`: no change of provider once the client has heard one; `CallsFitTheClaim`: no provider out of budget is called, none more often than the attempts claimed for; `ImplementsCircuitBreakers`: each breaker with its callers is a `CircuitBreaker`; `TrialsAreSpaced`: whoever is sent to a provider whose breaker is not closed finds a cooldown behind it since the last such trial and the last failure |
| `key_budget` | 3 requests, cap 2, claims up to 2, a month of 2 ticks and the turn of one, 1 fault | `MonthWithinCap`: what is let through in a month costs at most the cap and what was refunded into it; `MonthIsComplete`: a number holds all of its month; `PaidOnce`: a settled cost is in the ledgers once, over all months; `RefusalsLeakOpenly` |
| `gate` | 3 requests, 1 client key of each kind, buckets of 1 token, rates 0 and 1, 3 ticks, 1 fault | `RateBound`: grants in any window are at most the capacity and the refill of the time, plus the time stamps went back and plus the capacity for each expiry without refill; `WaitingPays`: who is late enough for a token after the last caller gets in; `StrangersLeaveNoBucket`, `AnswersCostTokens`: the two orders of judging and limiting; `RevokedStaysOut`; `TrailMatchesKeys`; `ImplementsTokenBuckets` |
| `bookkeeping` | 2 requests, 3 providers, every endpoint, answers on both sides of what a reservation allows for, no retry, 1 fault or crash, both scripts | `LowIsOnlyOverlap`: when reconcile finds a ledger low, it is for requests that reserved after it was read or were charged above their claim; `QuietBooksAgree`: without failures and traffic the records agree; `OverrunsAreUnusual`: only a prompt of more tokens than a third of its characters in every attempt, or an answer of more than three characters a token and attempt, is charged above the claim; `UnderchargesAreUntold`: only a stream that was aborted (by its prompt at most, if its tokens have three characters or more) or an answer of OpenAI's without usage is charged below what the provider bills |

The other runs are the counterexamples of the next section.

**Bounds.**  `MaxFaults` and `MaxCancels` bound what the environment does,
`MaxClaim` and `Worst` how much one claim is, and everything else is bounded by the handlers.  Caps are chosen so that one
claim fits and two do not: the second request is refused while the first holds
its claim and let through after a cheap settlement.  Two requests suffice for a
race on a ledger, three for two claims to be over the cap at once
(`provider_budget`).  Three requests around a breaker are a probe, a late
reporter and a newcomer.  One retry makes an attempt that was billed and failed;
two providers make a fallback.  What one request does to its own records needs
no second one, so `request_path_alone` spends its states on endpoints, chains,
faults and cancellations, and `request_path` on the race for the ledgers.  The
chains are those of `model_map.py` (`default` and `smart`), with Ollama as the
free hop.  In `key_budget` three requests are one that is carried over the end
of the month and two that compete in the new one.  In `gate` stamps lag by up
to a tick, so that two requests can be served in the wrong order, and the clock
runs past the expiry of a bucket, which then comes back.  In `bookkeeping` a
prompt of three characters is one token, and a token of an answer has three
characters or six: the first is what a reservation allows for without a retry,
the second can be charged more than was claimed if its stream is cut off.  No step
reads the answers, and each is set for good together with its charge; so the
view of that run (`WithoutGhosts`) has in their place the two properties that
read them.  It leaves out `lost` too, after which `bookkeeping_purge`, a run
without the view, asks.  The constraint `OneScriptAtATime` keeps
reconcile and purge apart in time: an operator runs one of them at once.

**Deadlock** is not checked where the modelled requests are finitely many and
end; it is in the breaker and router runs, where requests come back.

**Fairness.**  `CircuitBreaker`: time passes, some request keeps asking, and
calls end (the HTTP client has a timeout).  `RequestPath`: every request takes a
step when it can; each step waits on something with a timeout or on the client,
whose absence is a cancellation.  Requests never wait for one another, so one
request is enough for liveness.

**Symmetry** is used for the requests in runs without liveness properties.

**Assumption on the charge.**  `RequestPath` takes what a request is charged to
be at most its claim, and the estimate of an aborted stream any amount up to it:
its properties about caps, and `ImplementsSpendLedgers`, are for requests of
which that is true.  The code bounds neither, so where it is true is a question
of its own, asked in `Bookkeeping`, which makes no such assumption.  A reservation allows for a token in
three characters of the prompt in every attempt, and an estimate is within it as
long as a token of the answer has at most three characters for each attempt: six
with one retry, the default, and three with none, which the `request_path` run
has for its size.  `OverrunsAreUnusual` says that any request charged above its
claim has a text outside these limits, and the theorem `DensePromptsOverrun`
that there are requests billed above it.  What an overrun does to the two records is in `LowIsOnlyOverlap`:
settling it raises the ledger past the claim, and reconcile can find the ledger
low by the excess while it happens.

**Cancellations.**  `_settle_providers` notes that a cancellation is delivered
once.  Server frameworks with cancel scopes may deliver it again at the next
`await`; the second cancellation of `request_path_alone` covers that.

## Where the code and its documentation disagree

Each is a run of its own that ends in the counterexample.

| run | the repository says | the code |
|---|---|---|
| `request_path_unsettled` | every reserve reaches exactly one settle (`main.py:4-5`, `616-617`) | `_serve_chat` settles after an answer or `AllProvidersFailedError` only; a cancelled chat request keeps its claims on both ledgers |
| `request_path_overspend` | hard lifetime ceiling on what may ever be spent (`config.py:125`) | attempts that were billed and then failed are refunded, so bills add up past the cap; while a request runs they are covered (`OpenBillsAreClaimed`) |
| `fallback_router_streams` | that many consecutive failures open the breaker (`README.md:221`) | a stream's first chunk resets the count, so failures in mid-stream never add up |
| `bookkeeping_purge` | nothing is ever removed without a copy (`purge_audit_rows.py:11-12`) | the rows are deleted by their id, in a second query: a row written since the first, by the same request or another with its id, goes uncopied |

Also observed while modelling, without a run of their own:

- A reservation is at least what the call can cost, for every input the code
  permits (decision 014:35, `pricing.py:59`); `worst_case_cost_usd` takes three
  characters for a token (`pricing.py:88`), and nothing keeps a prompt from having
  more tokens than that.  `DensePromptsOverrun` is a theorem that such a prompt is
  billed above the claim, `OverrunsAreUnusual` that only unusual texts are charged
  above it.
- The charge of an aborted stream is biased high (`main.py:567-568`, decision
  011:111); before its last chunk the prompt is charged as nothing
  (`main.py:575-581`).  `AbortsAreUndercharged` is a theorem that tokens of up to
  three characters are then charged below the bill; `UnderchargesAreUntold` bounds
  it by the prompt for tokens of three characters or more.
- A response without usage is charged an estimate rather than settled as free
  (`openai_provider.py:5-6`); a completion is, a stream keeps its zeros and is free
  (`openai_provider.py:158-167`).  `UnderchargesAreUntold` allows it for an answer
  of OpenAI's and for no other.
- One audit row per request (`db/models.py:68`); a native stream that fails after
  its first chunk writes `error` (`main.py:998`) and then `aborted`
  (`main.py:592`).  `Bookkeeping` writes both (`NoteError`, `Record`), and the sums
  of the log are still right (`QuietBooksAgree`).
- Nothing claimed may outlive a failure (`main.py:391-393`); but a claim whose
  reply is lost, or whose `await` is cancelled (`provider_budget.py:133`), is
  not in `reservations` yet and is not handed back.
- Publishing what was just read keeps the gauge honest
  (`provider_budget.py:84-87`); a read published after a newer publication
  stays until the next one.
- Retry only within a provider the breaker considers healthy (decision 001);
  the breaker is not asked again between attempts, and half-open trials are
  retried.
- Only one trial in the half-open window (`README.md:223`); the claim of the
  trial ages out after a cooldown, with the first trial perhaps still in flight.
- The key's cap is per month (`config.py:122`), but a request carried over the
  end of a month gives its refund to the new month's number, which starts below
  zero; `MonthWithinCap` counts that as `CarriedInto`.
- A lost expiry would turn the monthly budget into a lifetime one
  (`tracker.py:154-156`); the period is part of the key's name (`tracker.py:59`),
  so that it would only leave keys behind.
- A refill rate of 0 is a fixed allowance (`config.py:117-118`); the bucket's key
  expires after an hour without calls and comes back full (`renewed` in
  `RateBound`).
- Concurrent requests cannot race past the limit (`token_bucket.py:14`); a stamp
  that is behind the last one sets the bucket's instant back, and the time
  between is refilled twice (`regress` in `RateBound`).
- Revoking twice is a no-op (`admin/routes.py:94`); it writes a second row.  A
  revoked key that is also in `GATEWAY_API_KEYS` still gets in, as the order of
  the two sources implies.
- "LEDGER LOW ... check the bill" (`reconcile.py:124`) may be said of requests in
  flight, since the log is read after the ledgers (`LowIsOnlyOverlap`).

## The proofs

TLAPS checks these for every value of the constants, under the named ASSUMEs
of the modules: finite sets of requests, natural numbers, a positive threshold,
and chains that are sequences of distinct providers.  Of what a request costs
nothing is assumed but that prices and lengths are natural numbers;
`RequestPath` assumes what "Assumption on the charge" says.

**`AbstractProofs`** has the two components that others are shown to implement.
Of `CircuitBreaker` the inductive invariant is `TypeOK`, the two parts of
`FieldsAgree` and `AgesBound`, which relates the ghosts to the breaker's fields:
while it is open, the last failure and the last probe are at least as long ago
as the opening; while it is half-open, the last failure is a cooldown ago and
the last probe as long ago as the trial, or a cooldown if no trial is out.  `AgesBound` is what
makes `ProbesAreSpaced` provable: the property speaks of the ghosts, the guard
of the breaker's instants.  `TypeCorrect`, `FieldsAlwaysAgree` and
`ProbeSpacing` follow.

Of `TokenBucket`: `RateBound` says nothing of the tokens still in the
bucket, so a call could break it.  `BucketInv` adds `TokensCounted` (what was
granted *and* what is left are within the allowance), `StampFits` (a live key
holds the stamp of the last call and outlives that stamp by its time to live)
and `ExpiredSince` (a key that is gone has been due for as long).  A refill adds
what the elapsed stamps allow; a full bucket after an expiry is worth the time
since the last call, because by `LivesUntilFull` the key lives as long as its
refill takes, and `Margin`, which is at least the lag: this is where the 60
seconds of the script are needed.  `BucketsAreRateBound` follows.

**`MoneyTheorems`.**  `Total(f, S)` is the cardinality of a set of units, so
that facts on finite cardinalities give what a sum would need induction for:
change of one summand, monotonicity, disjoint addition, splitting the members
in two, and naming them differently (`TotalRenamed`).

**`ProviderBudgetProofs`**, first about `SpendLedger`.  `Ceiling` (admitted requests hold at most the cap) is
not inductive alone.  `LedgerInv` adds the types, `Conserved` (the number is the
sum of the stakes) and `NewHoldNothing` (a request that has not claimed holds
nothing).  A claim is granted only if the total *including* it is within the
cap, and by `Conserved` that total is at least what the admitted requests hold;
every other action lowers a stake or raises one that is not admitted.
`CeilingHolds` and `BooksBalance` follow.  No run checks these two by
themselves: the runs check that the ledgers of the code are `SpendLedger`s, and
the theorems say what that is worth.

Then about `ProviderBudget`.  `BudgetInv` says, for each request, what its stake
is worth by the standing of its claim (`StakeFits`), that a command on the wire
finds the claim as it was when it was sent, even if the request has gone
(`WireFits`), and where the request's program counter can be (`PointFits`).  It
is inductive; with it each step is one of `SpendLedger` or a stutter
(`Refinement`).  `LedgerInv` then holds of the Redis number, and a request that
was let through holds an admitted claim of at least what it may be billed:
`BillNeverExceedsCap` and `LedgerNeverUndercounts`.  `RefusalsLeakOpenly` is
inductive relative to `BudgetInv`: a refusal adds to the refused stakes nothing
if the hand-back is known to have worked, and at most the claim, which goes to
the counter, if it is not (`LeaksAreReported`).

**`GateProofs`.**  `GateInv` has three kinds of conjuncts.  `LimiterFits` says
of each bucket what `AbstractProofs` needs of one, for a state in which every
key has a bucket of its own and requests hold stamps that are older than the
clock; the lemmas on the script are stated here for any bucket.  `RequestFits`
says of each request what it has paid, that a client that takes a token has a
key that was issued, that a row which only an open transaction knows of is
absent and no other transaction's, and that a request whose key was revoked
before it came has not got past the lookup.  `StrangersLeaveNoBucket` and
`TrailMatchesKeys` are inductive with these: a bucket comes to be only for a
request that fits, and the two tables change in one commit whose precondition
`RequestFits` keeps while other requests commit (`RowsGoOn`, `FlushedStay`).
`EveryKeyIsRateBound`, `StrangersAreNotCounted`, `EveryAnswerIsPaid`,
`RevocationHolds` and `TrailIsComplete` follow.  `WhoWaitsGetsIn` is an action
property: a step to `limited` ran the script on a bucket whose instant is the
last stamp, and a refusal means that less than one token was refilled.  For
`DoorImplementsTokenBuckets` a tick is a `Passes` of all buckets at once, a
script the `Check` of one and a stutter of the others, and no other step touches
a bucket or the clock.

**`KeyBudgetProofs`.**  The promises are about months and the state about
requests and numbers, so `KeyInv` says of each request what it has written by
how far its claim has come (`Unwritten`, `Claimed`, `Reduced`), what the command
it has on the wire will find (`WireFits`) and what it may believe where it
stands (`PointFits`); that no number is dropped before its month is over
(`OutlivesItsMonth`); and of the current month and those to come (`Books`) that
the number is the claims made in the month less what was carried into it by
refunds from earlier ones, and that the claims let through are within the cap
and what was carried.  The cap is inductive only with the rest: a claim is let
through on the number its own increment returned, which bounds the claims only
because the number is complete, and the number of a month still to come counts
because the clock may reach it.  A request counts as let through from the
moment the granting reply is on its way (`Passed`), not from when it reads it.
`CapHoldsEveryMonth`, `MonthsAreComplete`, `SettledPaidOnce` and
`KeyLeaksAreReported` follow.

**`RequestPathProofs`.**  Every action is the code between two awaits of one
request, and touches the row of that request, its stakes and its bills, and the
numbers of the ledgers it sends a command to.  So `PathInv` is the types,
`Conserved` and one conjunct per request, `Fit(r)`, which relates the request's
row to its column of the ledgers: what it has put into each ledger and what
became of that claim, by the point it stands at and the hop its loop has
reached.  A hop before the loop's is settled or skipped, the hop itself is in
the state the awaited command expects, and the hops after it are as
`_reserve_chain` left them.  What an error or a cancellation may leave behind is
allowed everywhere; that nothing is left behind without one is a clause of its
own (`QuietFits`).  One lemma per action shows that the row, so changed,
fits again; `OneRequest` lifts this to the state.  `UndisturbedSettlesExactly`,
`CostsAreNeverForgotten`, `BillsAreCovered` and `EachCountedOnce` are read off
`Fit`, which says at each point whether the request is still to be counted there
(`CountsLate`, `CountsAfterSettle`) or never will be (`Uncounted`).  For `PathImplementsSpendLedgers` each command is shown to be a `Claim`,
a `HandBack` or a `Swap` of its ledger, allowed there because `Fit` gives the
standing of the claim and its amount, and a stutter of all the others.
`KnownCostsFitTheCaps` then takes the ceiling of `SpendLedger` end to end.  On
each ledger those that were let through hold at most the cap (`CapHolds`, from
the steps just shown and from `Conserved`), and a cost is known only of a request
that was let through on the ledger, which by `Fit` still holds at least that much
there.  It is what the code keeps of the ceiling that
`request_path_overspend` refutes for the bills.

**`FallbackRouterProofs`.**  `RouterInv` says of each request in the router that
its hop is not out of budget, that it has called the hops ahead never, this one
once more than it has retried, and none more than its attempts, and that its
caller has heard from nobody before the commitment and from this hop after it.
`CallsFitTheClaim` alone is not inductive: the first call of the next hop fits
because that hop has not been called, which rests on the walk going forward and
on the chain naming no provider twice.  `CallersHearOneProvider` and
`CallsStayWithinTheClaim` follow.  `RouterImplementsCircuitBreakers` takes the
walk apart breaker by breaker (`MoveAtBreaker`): each breaker is asked at most
once, the request calls exactly the one that admits, and the provider that was
given up is behind the walk and is not asked again.  `BreakersSound` carries the
invariant of `CircuitBreaker` along these steps to every breaker of the router,
and `TrialsOfEveryProviderAreSpaced` follows: a request that is sent on to a
provider was admitted by its breaker in that very step.

**`BookkeepingProofs`.**  First what a request costs, for any prices, lengths and
attempts.  A charge is a sum of products, so `Products` states the laws needed of
them once; `EstimateBounds` and `CostWithinClaim` compare tokens with characters,
and `ChargeFits` says of every usage a provider, an adapter or an estimate can
come to that it costs at most the claim, or the text is `Unusual`;
`AbortLosesPrompt` that the estimate of an aborted stream is short by the prompt
at most.  `DensePromptsOverrun` and `AbortsAreUndercharged` are the other side:
texts that the documents do not except, and that cost more than was reserved or
than is charged.

Then the records.  `Held(r, p)` is what request r still has in the ledger of
provider p: its claim, then its charge or nothing; `Backed(r, p)` is the part of
it that its claim had put there, all of it unless the charge was above the claim.
`BookInv` compares three numbers with sums of these: a ledger holds at least what
is backed, and exactly what is held as long as nothing failed (`LedgersCover`);
what reconcile read of a ledger is at least what is backed of those who had
reserved by then, since of that a request only ever holds less as it goes on
(`ReadingsCover`); and without traffic it is what is there (`QuietReadings`).
`RowsFit` says a row with a charge is written by a request that has settled
everything, so that the log, read last, is at most the sum for all requests
(`AuditIsCharged`, where rows are renamed to the requests that wrote them), and
hence at most the readings, what overlaps them and what the others were charged
above their claims (`GapBound`, `Explained`).  `RequestFits` carries with each
request that its charge is `Fair`: above the claim only for an unusual text, below
the bill only if the usage never came.  There is one lemma for each
action; `RequestStep`, `ScriptStep` and `PurgeStep` say what of the invariant a
request or a script cannot disturb.  `OnlyUnusualOverruns`,
`OnlyUntoldUndercharges`, `LedgersAreNeverLow`, `QuietBooks` and `LedgersHoldWhatRequestsDo` follow.
`OneScriptAtATime` is not assumed: the theorems hold with both scripts running at
once.

Only model-checked: the liveness properties `NotWedged` and `EveryRequestEnds`
(fairness and ENABLED are out of the prover's reach), and the four
disagreements, which are counterexamples.  Every other property that a run
checks is stated by a theorem.  There is no recursion over data in
the modules proved about.

## What is not modelled

- `record_unreserved`: a provider that serves and bills always has a
  reservation.  `is_exhausted`, `has_budget`, the admin listings: reads.
- The gauge of provider spend: nothing in the gateway acts on it.
- Restarts of a process in `RequestPath` and `FallbackRouter`: breakers are new,
  and the claims of the requests it served stay (`Crash` in `Bookkeeping`).
- Refusals in `Bookkeeping`, where there is room in every ledger: what a refusal
  leaves behind is in `ProviderBudget` and `RequestPath`.
- Fractions of tokens and of seconds in the bucket; costs other than one.
- An operator who resets a ledger or edits a table by hand.
- The client library's own retry of a Redis command, Redis failover, clock
  steps backwards.
- HTTP, parsing, error bodies, logs, traces and the other metrics.
- Deployment, migrations and load-test scripts.

## The plan

All of it is done, in order of importance: breaker, ledgers and their proofs,
the request path, the router, the monthly key, the door, the two records and the
scripts, and a proof of every safety property that a run checks.

What would come next is what the list above leaves out: a process that restarts
in the middle of the request path (`Crash` of `Bookkeeping` says what it leaves
in the records, not what a new process does next), and the months of `KeyBudget`
under the whole requests of `RequestPath`, which has one period.
