--------------------------------- MODULE Gate ---------------------------------
(***************************************************************************)
(* Who gets in: client keys from the environment and from the database,    *)
(* the admin API that issues and revokes the latter, and the token buckets *)
(* in Redis that limit both.  A client is authenticated first and limited  *)
(* by its key afterwards; the admin API limits first, in one bucket for    *)
(* everybody, and looks at the key afterwards.                             *)
(*                                                                         *)
(* A request samples its own clock when it sends the script, and Redis     *)
(* runs it some time later, so that stamps reach a bucket out of order.    *)
(***************************************************************************)
EXTENDS Bucket, FiniteSets

CONSTANTS Requests,
          EnvKeys,     \* GATEWAY_API_KEYS
          DbKeys,      \* keys the admin API can issue
          Strangers,   \* keys nobody ever issued
          AdminApi,    \* the label of the admin API's bucket
          LastTick,    \* bound on Redis's clock
          MaxFaults    \* bound on failures of Redis and of the database

ASSUME GateAssumption ==
  /\ AdminApi \notin EnvKeys \cup DbKeys \cup Strangers
  /\ Strangers \cap (EnvKeys \cup DbKeys) = {}
  /\ LastTick \in Nat /\ MaxLag <= LastTick /\ MaxFaults \in Nat

VARIABLES clock, rate, bucket, last, window,   \* as in TokenBucket, by key
          row,       \* api_keys: absent, active or revoked
          trail,     \* admin_audit_log: how many rows of each kind a key has
          pc,        \* where each request stands
          key,       \* the key it presents, or the key it acts on
          right,     \* whether X-Admin-Key is the configured one
          stamp,     \* time.time() when it sent the script
          faults,
          tooLate,   \* ghost: its key was revoked before it arrived
          paid       \* ghost: it took a token

limits == <<bucket, last, window>>
tables == <<row, trail>>
request == <<key, right, stamp, tooLate>>
vars == <<clock, rate, limits, tables, pc, request, faults, paid>>

ClientKeys == EnvKeys \cup DbKeys \cup Strangers
Labels == ClientKeys \cup {AdminApi}

Limiter(k) == INSTANCE TokenBucket WITH bucket <- bucket[k], last <- last[k],
                                        window <- window[k]

FreshWindow == Limiter(AdminApi)!FreshWindow
Windows == Limiter(AdminApi)!Windows
Watched(w, b, now, previous, granted) == Limiter(AdminApi)!Watched(w, b, now, previous, granted)

Asking == {"client_taking", "issue_taking", "revoke_taking"}
Points == Asking \cup {"start", "looking_up", "passed", "limited", "denied",
                       "wrong_key", "issuing", "flushed", "loading", "revoking", "done",
                       "not_found", "failed"}

TypeOK ==
  /\ clock \in MaxLag..LastTick
  /\ rate \in Rates
  /\ bucket \in [Labels -> Buckets]
  /\ last \in [Labels -> 0..LastTick]
  /\ window \in [Labels -> Windows]
  /\ row \in [DbKeys -> {"absent", "active", "revoked"}]
  /\ trail \in [DbKeys -> [issued : Nat, revoked : Nat]]
  /\ pc \in [Requests -> Points]
  /\ key \in [Requests -> Labels]
  /\ right \in [Requests -> BOOLEAN]
  /\ stamp \in [Requests -> 0..LastTick]
  /\ faults \in 0..MaxFaults
  /\ tooLate \in [Requests -> BOOLEAN]
  /\ paid \in [Requests -> BOOLEAN]

\* The tables hold what was issued before: active keys with their row.
Init == /\ clock = MaxLag
        /\ rate \in Rates
        /\ bucket = [k \in Labels |-> NoBucket]
        /\ last = [k \in Labels |-> 0]
        /\ window = [k \in Labels |-> FreshWindow]
        /\ \E issued \in SUBSET DbKeys :
             /\ row = [k \in DbKeys |-> IF k \in issued THEN "active" ELSE "absent"]
             /\ trail = [k \in DbKeys |->
                          [issued |-> IF k \in issued THEN 1 ELSE 0, revoked |-> 0]]
        /\ pc = [r \in Requests |-> "start"]
        /\ key = [r \in Requests |-> AdminApi]
        /\ right = [r \in Requests |-> FALSE]
        /\ stamp = [r \in Requests |-> 0]
        /\ faults = 0
        /\ tooLate = [r \in Requests |-> FALSE]
        /\ paid = [r \in Requests |-> FALSE]

-----------------------------------------------------------------------------
(* Time *)

Tick == /\ clock < LastTick
        /\ clock' = clock + 1
        /\ bucket' = [k \in Labels |-> Aged(bucket[k], clock + 1)]
        /\ UNCHANGED <<rate, last, window, tables, pc, request, faults, paid>>

\* Where the windows that RateBound speaks of begin.
OpenWindows == /\ window' = [k \in Labels |-> FreshWindow]
               /\ UNCHANGED <<clock, rate, bucket, last, tables, pc, request, faults, paid>>

Fault == faults < MaxFaults /\ faults' = faults + 1

-----------------------------------------------------------------------------
(* TokenBucketLimiter.check *)

Goto(r, point) == pc' = [pc EXCEPT ![r] = point]

\* The stamp is the caller's clock, which may lag behind Redis's.
SendScript(r, point) ==
  /\ Goto(r, point)
  /\ \E now \in (clock - MaxLag)..clock : stamp' = [stamp EXCEPT ![r] = now]

BucketOf(r) == IF pc[r] = "client_taking" THEN key[r] ELSE AdminApi

AllowedNow(r) == Allowed(bucket[BucketOf(r)], rate, stamp[r])

\* Redis runs the script, unless it waited for longer than a command may.
RunScript(r) ==
  LET k == BucketOf(r) IN
  /\ pc[r] \in Asking
  /\ stamp[r] >= clock - MaxLag
  /\ bucket' = [bucket EXCEPT ![k] = Script(@, rate, stamp[r], clock)]
  /\ last' = [last EXCEPT ![k] = stamp[r]]
  /\ window' = [window EXCEPT ![k] = Watched(@, bucket[k], stamp[r], last[k],
                                               IF AllowedNow(r) THEN 1 ELSE 0)]
  /\ paid' = [paid EXCEPT ![r] = AllowedNow(r)]
  /\ stamp' = [stamp EXCEPT ![r] = 0]    \* not used again
  /\ UNCHANGED <<clock, rate, tables, key, right, tooLate>>

\* Faulty version: when the reply is lost, the token is given back.
TakeGivesBack(r) ==
  LET k == BucketOf(r) IN
  /\ pc[r] \in Asking
  /\ bucket[k].live /\ bucket[k].tokens < Capacity
  /\ bucket' = [bucket EXCEPT ![k].tokens = @ + 1]
  /\ Fault
  /\ Goto(r, "failed")
  /\ UNCHANGED <<clock, rate, last, window, tables, request, paid>>

\* The script ran and the reply is lost: the request fails, its token gone.
TakeLosesReply(r) == /\ RunScript(r)
                     /\ Fault
                     /\ Goto(r, "failed")

\* The script never ran.  A limiter that cannot be asked lets nobody in.
TakeFails(r) == /\ pc[r] \in Asking
                /\ IF stamp[r] < clock - MaxLag THEN UNCHANGED faults ELSE Fault
                /\ Goto(r, "failed")
                /\ stamp' = [stamp EXCEPT ![r] = 0]
                /\ UNCHANGED <<clock, rate, limits, tables, key, right, tooLate, paid>>

-----------------------------------------------------------------------------
(* Clients: require_api_key, then enforce_rate_limit *)

Revoked(k) == k \in DbKeys \ EnvKeys /\ row[k] = "revoked"

Presents(r, k) ==
  /\ pc[r] = "start"
  /\ key' = [key EXCEPT ![r] = k]
  /\ tooLate' = [tooLate EXCEPT ![r] = Revoked(k)]

\* Faulty version: the bucket first, as for the admin API.
ClientLimitedFirst(r, k) ==
  /\ Presents(r, k)
  /\ SendScript(r, "client_taking")
  /\ UNCHANGED <<clock, rate, limits, tables, right, faults, paid>>

\* A key from the environment needs no query.
ClientArrives(r, k) ==
  /\ Presents(r, k)
  /\ IF k \in EnvKeys
     THEN SendScript(r, "client_taking")
     ELSE Goto(r, "looking_up") /\ UNCHANGED stamp
  /\ UNCHANGED <<clock, rate, limits, tables, right, faults, paid>>

\* No key at all.
Anonymous(r) ==
  /\ pc[r] = "start"
  /\ Goto(r, "denied")
  /\ UNCHANGED <<clock, rate, limits, tables, request, faults, paid>>

\* Faulty version: any row will do.
FoundEver(k) == k \in DbKeys /\ row[k] # "absent"

\* _is_valid_db_key.
Found(k) == k \in DbKeys /\ row[k] = "active"

\* 401, or 503 where no key is configured.
LookUp(r) ==
  /\ pc[r] = "looking_up"
  /\ IF Found(key[r]) THEN SendScript(r, "client_taking")
                      ELSE Goto(r, "denied") /\ UNCHANGED stamp
  /\ UNCHANGED <<clock, rate, limits, tables, key, right, tooLate, faults, paid>>

\* enforce_rate_limit on the script's answer.
ClientTakes(r) ==
  /\ pc[r] = "client_taking"
  /\ RunScript(r)
  /\ Goto(r, IF AllowedNow(r) THEN "passed" ELSE "limited")
  /\ UNCHANGED faults

-----------------------------------------------------------------------------
(* The admin API: enforce_admin_rate_limit, then require_admin_key *)

\* Faulty version: a wrong key is turned away before it costs a token.
AdminJudgedFirst(r, k, ok, point) ==
  /\ pc[r] = "start"
  /\ key' = [key EXCEPT ![r] = k]
  /\ right' = [right EXCEPT ![r] = ok]
  /\ IF ok THEN SendScript(r, point) ELSE Goto(r, "wrong_key") /\ UNCHANGED stamp
  /\ UNCHANGED <<clock, rate, limits, tables, tooLate, faults, paid>>

AdminArrives(r, k, ok, point) ==
  /\ pc[r] = "start"
  /\ key' = [key EXCEPT ![r] = k]
  /\ right' = [right EXCEPT ![r] = ok]
  /\ SendScript(r, point)
  /\ UNCHANGED <<clock, rate, limits, tables, tooLate, faults, paid>>

\* The key is judged without a wait: 401, or 503 where none is configured.
AdminTakes(r) ==
  /\ pc[r] \in Asking \ {"client_taking"}
  /\ RunScript(r)
  /\ Goto(r, CASE ~AllowedNow(r)           -> "limited"
               [] AllowedNow(r) /\ ~right[r] -> "wrong_key"
               [] AllowedNow(r) /\ right[r]  -> IF pc[r] = "issue_taking" THEN "issuing"
                                                                          ELSE "loading")
  /\ UNCHANGED faults

\* Faulty version: the key's row is committed before its audit row is added.
FlushCommits(r) ==
  /\ pc[r] = "issuing"
  /\ Goto(r, "flushed")
  /\ \E k \in DbKeys : /\ row[k] = "absent"
                       /\ key' = [key EXCEPT ![r] = k]
                       /\ row' = [row EXCEPT ![k] = "active"]
  /\ UNCHANGED <<clock, rate, limits, trail, right, stamp, tooLate, faults, paid>>

\* create_key: the flush gives the row its id inside the open transaction, so
\* nobody else sees it.  Keys are random: two requests never draw the same.
Flush(r) ==
  /\ pc[r] = "issuing"
  /\ Goto(r, "flushed")
  /\ \E k \in DbKeys : /\ row[k] = "absent"
                       /\ \A s \in Requests : pc[s] = "flushed" => key[s] # k
                       /\ key' = [key EXCEPT ![r] = k]
  /\ UNCHANGED <<clock, rate, limits, tables, right, stamp, tooLate, faults, paid>>

IssueCommitted(r) ==
  /\ row' = [row EXCEPT ![key[r]] = "active"]
  /\ trail' = [trail EXCEPT ![key[r]].issued = @ + 1]

\* revoke_key: session.get, then 404 or the change.
Load(r) ==
  /\ pc[r] = "loading"
  /\ Goto(r, IF row[key[r]] = "absent" THEN "not_found" ELSE "revoking")
  /\ UNCHANGED <<clock, rate, limits, tables, request, faults, paid>>

\* A second revocation changes nothing and leaves a row all the same.
RevokeCommitted(r) ==
  /\ row' = [row EXCEPT ![key[r]] = "revoked"]
  /\ trail' = [trail EXCEPT ![key[r]].revoked = @ + 1]

Committed(r) == \/ pc[r] = "flushed" /\ IssueCommitted(r)
                \/ pc[r] = "revoking" /\ RevokeCommitted(r)

Commit(r) == /\ Committed(r)
             /\ Goto(r, "done")
             /\ UNCHANGED <<clock, rate, limits, request, faults, paid>>

CommitLosesReply(r) == /\ Committed(r)
                       /\ Fault
                       /\ Goto(r, "failed")
                       /\ UNCHANGED <<clock, rate, limits, request, paid>>

\* A query or a commit fails: the transaction is rolled back.
DatabaseFails(r) ==
  /\ pc[r] \in {"looking_up", "issuing", "flushed", "loading", "revoking"}
  /\ Fault
  /\ Goto(r, "failed")
  /\ UNCHANGED <<clock, rate, limits, tables, request, paid>>

-----------------------------------------------------------------------------
Arrive(r) ==
  \/ Anonymous(r)
  \/ \E k \in ClientKeys : ClientArrives(r, k)
  \/ \E ok \in BOOLEAN : \/ AdminArrives(r, AdminApi, ok, "issue_taking")
                         \/ \E k \in DbKeys : AdminArrives(r, k, ok, "revoke_taking")

Limit(r) == ClientTakes(r) \/ AdminTakes(r) \/ TakeLosesReply(r) \/ TakeFails(r)

Query(r) == LookUp(r) \/ Flush(r) \/ Load(r) \/ Commit(r)
            \/ CommitLosesReply(r) \/ DatabaseFails(r)

Next == \/ Tick
        \/ OpenWindows
        \/ \E r \in Requests : Arrive(r) \/ Limit(r) \/ Query(r)

Spec == Init /\ [][Next]_vars

-----------------------------------------------------------------------------
(* Properties *)

\* Every bucket is a TokenBucket, whatever the requests around it do and
\* whichever of them fail (token_bucket.py).
ImplementsTokenBuckets ==
  /\ \A k \in Labels : Limiter(k)!BucketInit
  /\ [][\A k \in Labels : [Limiter(k)!BucketNext]_(Limiter(k)!bucketVars)]_vars

\* From one call to any later one, a key is granted its capacity and the
\* refill between their stamps; what stamps went back in between is credited
\* again, and a key without refill is renewed each time it expires.
RateBound == \A k \in Labels : Limiter(k)!RateBound

\* A caller whose stamp is late enough after the last one for a token to have
\* been refilled gets in, also when some other clock was ahead before: a
\* bucket is never ahead of its last caller (updated_at is the stamp).
WaitingPays ==
  [][\A r \in Requests :
       LET k == BucketOf(r) IN
         /\ pc[r] \in Asking /\ pc'[r] = "limited"
         /\ bucket[k].live
         => rate * (stamp[r] - last[k]) < 1]_vars

\* A key that was never valid has no bucket: guessing client keys takes no
\* token from anybody and leaves nothing in Redis (enforce_rate_limit).
StrangersLeaveNoBucket ==
  \A k \in ClientKeys : bucket[k].live => \/ k \in EnvKeys
                                          \/ k \in DbKeys /\ row[k] # "absent"

\* Nobody learns whether an admin key is right without a token of the admin
\* bucket, and nobody gets to a provider without one of its own: what RateBound
\* bounds are the guesses and the requests (enforce_admin_rate_limit).
AnswersCostTokens ==
  \A r \in Requests :
    pc[r] \in {"wrong_key", "issuing", "flushed", "loading", "revoking", "done",
              "not_found", "passed"} => paid[r]

\* A key revoked before a request arrives does not let it in, and no later
\* change brings the key back (revoke_key, _is_valid_db_key).
RevokedStaysOut == \A r \in Requests : tooLate[r] => /\ pc[r] \notin {"client_taking", "passed"}
                                                     /\ Revoked(key[r])

\* No key without the row that says who issued it, none revoked without the
\* row that says so, and no such row without the change: each pair is one
\* transaction, which may fail or lose its reply (create_key, revoke_key).
TrailMatchesKeys ==
  \A k \in DbKeys : /\ trail[k].issued = IF row[k] = "absent" THEN 0 ELSE 1
                    /\ trail[k].revoked > 0 <=> row[k] = "revoked"

=============================================================================
