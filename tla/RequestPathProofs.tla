-------------------------- MODULE RequestPathProofs --------------------------
(***************************************************************************)
(* The request path settles what it claimed, for any chains, any number of *)
(* requests, retries and price bounds, any caps, and any number of faults  *)
(* and cancellations.                                                      *)
(*                                                                         *)
(* What the path promises is said of one request at a time: of its record  *)
(* q, of its row s of the stakes and t of the standings over the ledgers,  *)
(* of what each provider billed for it (b), and of the numbers of faults f *)
(* and of cancellations c so far.                                          *)
(***************************************************************************)
EXTENDS RequestPath, MoneyTheorems, WellFoundedInduction

Records ==
  [pc : Points, kind : Kinds, chain : Chains, outcome : Outcomes,
   hop : Nat, retry : 0..Retries, skip : SUBSET Billable,
   reserved : [Billable -> 0..Claim],
   served : Providers \cup {Nobody}, actual : 0..Most, estimate : 0..Claim,
   held : BOOLEAN, settles : Nat, counted : Nat]

-----------------------------------------------------------------------------
(* What holds of a request wherever it stands *)

\* The standing of its claim on provider p says what it has staked there.
ClaimFits(q, s, t, p) ==
  /\ q.reserved[p] \in {0, Claim}
  /\ t[p] \in {"new", "returned"} => s[p] = 0
  /\ t[p] \in {"granted", "over"} => s[p] = Claim
  /\ t[p] = "settled" => s[p] = Charge(q, p) /\ q.reserved[p] = Claim
  /\ q.reserved[p] = Claim => t[p] \in {"granted", "settled"} /\ p \in Hops(q.chain)

KeyFits(q, s, t) ==
  /\ t[Key] \in {"new", "returned"} => s[Key] = 0
  /\ t[Key] \in {"granted", "over"} => s[Key] = Reserved(q)
  /\ t[Key] = "settled" => s[Key] = q.actual

\* Only the provider that served is charged, and never more than its claim.
ServedFits(q) ==
  /\ q.settles = 0 => q.actual = 0
  /\ q.served # Nobody => q.served \in Hops(q.chain)
  /\ q.served \in Billable => q.reserved[q.served] = Claim
  /\ q.actual <= Claim
  /\ q.actual > 0 => q.served \in Billable

BillFits(q, b) == \A p \in Billable : b[p] > 0 => q.reserved[p] = Claim

CountFits(q, c) ==
  /\ q.counted <= 1
  /\ q.held => c > 0
  /\ q.outcome \in {"none", "refused"} => q.counted = 0

Everywhere(q, s, t, b, c) ==
  /\ \A p \in Billable : ClaimFits(q, s, t, p)
  /\ KeyFits(q, s, t)
  /\ ServedFits(q)
  /\ BillFits(q, b)
  /\ CountFits(q, c)

-----------------------------------------------------------------------------
(* What holds at each point *)

From(chain, i) == {chain[j] : j \in {k \in DOMAIN chain : k >= i}}
UpTo(chain, i) == {chain[j] : j \in {k \in DOMAIN chain : k <= i}}

\* The loops over the chain: nothing claimed from hop i on, everything usable
\* claimed up to hop i, and nothing settled from hop i on.
Untouched(q, i, t) == \A p \in From(q.chain, i) \cap Billable : t[p] = "new"
Reached(q, i) == \A p \in (UpTo(q.chain, i) \cap Billable) \ q.skip : q.reserved[p] = Claim
Holding(q, i, t) == \A p \in From(q.chain, i) \cap Unsettled(q) : t[p] = "granted"

Current(q) == q.chain[q.hop]

NoneSettled(t) == \A p \in Billable : t[p] # "settled"

Fresh(q, t, b) ==
  /\ q.served = Nobody /\ q.settles = 0 /\ q.outcome = "none"
  /\ NoneSettled(t)
  /\ \A p \in Billable : b[p] = 0

\* The key holds a claim of the whole request, or none was needed.
KeyHeld(q, t) == t[Key] = "granted" \/ (t[Key] = "new" /\ Reserved(q) = 0)
KeySettled(q, t) == KeyHeld(q, t) \/ t[Key] = "settled"

Admitted(q, t) == /\ q.settles = 0 /\ NoneSettled(t) /\ KeyHeld(q, t)
                  /\ Reached(q, Len(q.chain))

\* Whether the request is counted before its last audit row or after it.
CountsLate(q) == q.kind # "chat" /\ q.outcome \in {"served", "unbooked"}
CountsAfterSettle(q) == q.kind = "chat" /\ q.outcome = "failed"

Ends(q) == /\ q.settles > 0 /\ q.outcome # "none" /\ ~Uncounted(q)
           /\ q.outcome \in {"served", "unbooked"} => q.served # Nobody
           /\ q.counted = IF CountsLate(q) \/ CountsAfterSettle(q) THEN 0 ELSE 1

ReservingFits(q, t, b) ==
  /\ Fresh(q, t, b) /\ t[Key] = "new"
  /\ q.hop \in DOMAIN q.chain /\ Current(q) \in Billable \ q.skip
  /\ Reached(q, q.hop - 1) /\ Untouched(q, q.hop, t)

HandingBackFits(q, t, b) ==
  /\ Fresh(q, t, b) /\ t[Key] = "new"
  /\ q.hop \in DOMAIN q.chain /\ Current(q) \in Billable \ q.skip
  /\ t[Current(q)] = "over"
  /\ Reached(q, q.hop - 1) /\ Untouched(q, q.hop + 1, t)

KeyReservingFits(q, t, b) ==
  /\ Fresh(q, t, b) /\ Reached(q, Len(q.chain)) /\ Reserved(q) > 0

\* What is billed so far is covered by the attempts made.
RouterFits(q, t, b) ==
  /\ Admitted(q, t) /\ q.outcome = "none"
  /\ q.hop \in DOMAIN q.chain /\ Current(q) \notin q.skip
  /\ Current(q) \in Billable => b[Current(q)] <= Worst * q.retry
  /\ \A p \in From(q.chain, q.hop + 1) \cap Billable : b[p] = 0

LoopFits(q, t) == /\ q.hop \in DOMAIN q.chain /\ Current(q) \in Unsettled(q)
                  /\ Holding(q, q.hop, t)

Unwound(q) == q.served = Nobody /\ q.settles = 0 /\ q.outcome = "refused"

PointFits(q, s, t, b, c) ==
  /\ q.pc = "start" => /\ Fresh(q, t, b) /\ t[Key] = "new"
                       /\ q.hop = 0 /\ Untouched(q, 1, t)
  /\ q.pc = "reserving" => ReservingFits(q, t, b)
  /\ q.pc = "handing_back" => HandingBackFits(q, t, b)
  /\ q.pc = "key_reserving" => KeyReservingFits(q, t, b) /\ t[Key] = "new"
  /\ q.pc = "key_handing_back" => KeyReservingFits(q, t, b) /\ t[Key] = "over"
  /\ q.pc = "responding" => Fresh(q, t, b) /\ Admitted(q, t) /\ q.hop = 0
  /\ q.pc \in {"calling", "streaming"} => RouterFits(q, t, b)
  /\ q.pc = "streaming" => q.kind # "chat" /\ q.served # Nobody
  /\ q.pc = "auditing_failure" => /\ Admitted(q, t) /\ q.counted = 1
                                  /\ q.kind = "stream" /\ q.outcome = "failed"
  /\ q.pc = "unwinding" => Unwound(q) /\ LoopFits(q, t)
  /\ q.pc = "settling" => Ends(q) /\ KeyHeld(q, t) /\ LoopFits(q, t)
  /\ q.pc = "settling_key" => Ends(q) /\ t[Key] = "granted" /\ q.actual # Reserved(q)
  /\ q.pc = "auditing" => /\ q.settles > 0 /\ KeySettled(q, t)
                          /\ q.outcome # "none" /\ ~Uncounted(q)
                          /\ q.counted = IF CountsLate(q) THEN 0 ELSE 1
  /\ q.pc = "stopping" => /\ q.settles > 0 /\ KeySettled(q, t)
                          /\ q.counted = 0 /\ q.outcome = "served"
  /\ q.pc = "done" => /\ q.settles > 0 => KeySettled(q, t)
                      /\ c = 0 => q.counted = IF Uncounted(q) THEN 0 ELSE 1

\* What a request nobody disturbed has staked.
ExceptHandingBack(q, s) ==
  \A p \in Billable : s[p] = q.reserved[p] \/ (q.pc = "handing_back" /\ p = Current(q))

LoopQuiet(q, s, i) ==
  \A p \in Billable : s[p] = IF p \in From(q.chain, i) THEN q.reserved[p] ELSE Charge(q, p)

Charged(q, s) == \A p \in Billable : s[p] = Charge(q, p)

QuietFits(q, s) ==
  /\ q.pc \notin {"unwinding", "settling", "settling_key", "auditing", "stopping", "done"}
       => ExceptHandingBack(q, s)
  /\ q.pc = "unwinding" => LoopQuiet(q, s, q.hop) /\ s[Key] = 0
  /\ q.pc = "settling" => LoopQuiet(q, s, q.hop)
  /\ q.pc = "settling_key" => Charged(q, s)
  /\ q.pc \in {"auditing", "stopping", "done"} => Charged(q, s) /\ s[Key] = q.actual

RequestFits(q, s, t, b, f, c) ==
  /\ q \in Records
  /\ Everywhere(q, s, t, b, c)
  /\ PointFits(q, s, t, b, c)
  /\ f = 0 /\ c = 0 => QuietFits(q, s)

Stakes(r) == [l \in Ledgers |-> stake[l][r]]
Standing(r) == [l \in Ledgers |-> standing[l][r]]
Bills(r) == [p \in Billable |-> billed[p][r]]

Fit(r) == RequestFits(req[r], Stakes(r), Standing(r), Bills(r), faults, cancels)

Conserved == \A l \in Ledgers : ledger[l] = Total(stake[l], Requests)

PathInv == TypeOK /\ Conserved /\ \A r \in Requests : Fit(r)

-----------------------------------------------------------------------------
(* Constants *)

LEMMA ClaimType ==
  /\ Claim \in Nat \ {0} /\ Worst \in Nat /\ Worst <= Claim
  /\ \A k \in 0..Retries : /\ Worst * k \in Nat /\ Worst * k + Worst <= Claim
                           /\ Worst * (k + 1) = Worst * k + Worst
  <1>1. Worst \in Nat \ {0} /\ Retries \in Nat
    BY PathAssumption
  <1>2. \A x, y \in Int : Worst * (x + y) = Worst * x + Worst * y
    BY <1>1
  <1>3. \A x \in Nat : Worst * x \in Nat /\ Worst <= Worst * (x + 1)
    BY <1>1
  <1>4. Claim = Worst * (Retries + 1) /\ Claim \in Nat \ {0} /\ Worst <= Claim
    BY <1>1 DEF Claim
  <1>5. ASSUME NEW k \in 0..Retries
        PROVE  /\ Worst * k \in Nat /\ Worst * k + Worst <= Claim
               /\ Worst * (k + 1) = Worst * k + Worst
    <2>1. /\ k \in Nat /\ Retries - k \in Nat
          /\ Retries + 1 = (k + 1) + (Retries - k)
      BY <1>1
    <2>2. Worst * (k + 1) = Worst * k + Worst
      BY <1>1, <2>1
    <2>3. Worst * ((k + 1) + (Retries - k)) = Worst * (k + 1) + Worst * (Retries - k)
      BY <1>2, <2>1
    <2>4. Worst * k \in Nat /\ Worst * (Retries - k) \in Nat
      BY <1>3, <2>1
    <2> QED BY <1>1, <1>4, <2>1, <2>2, <2>3, <2>4
  <1> QED BY <1>1, <1>4, <1>5

\* A set of numbers that is not empty has a least member.
LEMMA LeastMember ==
  ASSUME NEW I \in SUBSET Nat, I # {}
  PROVE  \E i \in I : \A j \in I : i <= j
  <1>1. IsWellFoundedOn(OpToRel(<, Nat), Nat)
    BY NatLessThanWellFounded
  <1>2. PICK i \in I : \A j \in I : ~ (<<j, i>> \in OpToRel(<, Nat))
    BY <1>1, WFMin
  <1>3. \A j \in I : ~ (j < i)
    BY <1>2 DEF OpToRel
  <1> QED BY <1>3

LEMMA ChainType ==
  ASSUME NEW chain \in Chains
  PROVE  /\ Len(chain) \in Nat /\ DOMAIN chain = 1..Len(chain)
         /\ \A i \in DOMAIN chain : chain[i] \in Providers
         /\ \A i, j \in DOMAIN chain : chain[i] = chain[j] => i = j
         /\ Hops(chain) = From(chain, 1) /\ Hops(chain) = UpTo(chain, Len(chain))
         /\ Hops(chain) \subseteq Providers
  <1>1. chain \in Seq(Providers)
    BY PathAssumption
  <1>2. Len(chain) \in Nat /\ DOMAIN chain = 1..Len(chain)
    BY <1>1
  <1>3. \A i \in DOMAIN chain : chain[i] \in Providers
    BY <1>1
  <1>4. Hops(chain) = From(chain, 1) /\ Hops(chain) = UpTo(chain, Len(chain))
    BY <1>2 DEF Hops, From, UpTo
  <1> QED BY <1>1, <1>2, <1>3, <1>4, PathAssumption DEF Hops

LEMMA Names ==
  /\ Billable \subseteq Providers /\ Key \notin Billable /\ Nobody \notin Billable
  /\ Nobody \notin Providers /\ Ledgers = Billable \cup {Key} /\ IsFiniteSet(Billable)
  BY PathAssumption DEF Billable, Ledgers

\* The next hop in S: the chain has ended, or none in between is in S.
LEMMA NextHopFits ==
  ASSUME NEW q \in Records, NEW S
  PROVE  LET h == NextHop(q, S) IN
         \/ /\ Ended(q, S) /\ h \in Nat
            /\ \A p \in From(q.chain, q.hop + 1) : p \notin S
         \/ /\ ~ Ended(q, S) /\ h \in Nat /\ h \in DOMAIN q.chain /\ h > q.hop
            /\ q.chain[h] \in S
            /\ \A j \in DOMAIN q.chain : q.hop < j /\ j < h => q.chain[j] \notin S
  <1> DEFINE ahead == {i \in q.hop + 1 .. Len(q.chain) : q.chain[i] \in S}
             h == NextHop(q, S)
  <1>1. /\ q.hop \in Nat /\ Len(q.chain) \in Nat /\ DOMAIN q.chain = 1..Len(q.chain)
    BY ChainType DEF Records
  <1>2. CASE ahead = {}
    <2>1. h = Len(q.chain) + 1
      BY <1>2 DEF NextHop
    <2>2. \A p \in From(q.chain, q.hop + 1) : p \notin S
      BY <1>1, <1>2 DEF From
    <2> QED BY <1>1, <2>1, <2>2 DEF Ended
  <1>3. CASE ahead # {}
    <2>1. \E i \in ahead : \A j \in ahead : i <= j
      <3>1. ahead \in SUBSET Nat
        BY <1>1
      <3> HIDE DEF ahead
      <3> QED BY <1>3, <3>1, LeastMember
    <2>2. h = CHOOSE i \in ahead : \A j \in ahead : i <= j
      BY <1>3 DEF NextHop
    <2>3. h \in ahead /\ \A j \in ahead : h <= j
      <3> HIDE DEF ahead, h
      <3> QED BY <2>1, <2>2
    <2>4. /\ h \in q.hop + 1 .. Len(q.chain) /\ q.chain[h] \in S
      BY <2>3
    <2>5. \A j \in DOMAIN q.chain : q.hop < j /\ j < h => q.chain[j] \notin S
      <3> SUFFICES ASSUME NEW j \in DOMAIN q.chain, q.hop < j, j < h, q.chain[j] \in S
                   PROVE  FALSE
        OBVIOUS
      <3>1. j \in ahead
        BY <1>1
      <3>2. h <= j /\ h \in Nat /\ j \in Nat
        BY <1>1, <2>3, <2>4, <3>1
      <3> HIDE DEF h
      <3> QED BY <3>2
    <2>6. h \in Nat /\ h \in DOMAIN q.chain /\ h > q.hop /\ ~ Ended(q, S)
      BY <1>1, <2>4 DEF Ended
    <2> QED BY <2>4, <2>5, <2>6
  <1> QED BY <1>2, <1>3

-----------------------------------------------------------------------------
(* Local code: settling *)

MoveTo(q, point, h) == [q EXCEPT !.pc = point, !.hop = h]

\* A request that only moves on keeps what holds everywhere.
LEMMA MovesOn ==
  ASSUME NEW q \in Records, NEW s, NEW t, NEW b, NEW c, Everywhere(q, s, t, b, c),
         NEW point \in Points, NEW h \in Nat
  PROVE  LET v == MoveTo(q, point, h) IN
         /\ v \in Records /\ Everywhere(v, s, t, b, c)
         /\ v.pc = point /\ v.hop = h /\ v.chain = q.chain /\ v.kind = q.kind
         /\ v.outcome = q.outcome /\ v.skip = q.skip /\ v.reserved = q.reserved
         /\ v.served = q.served /\ v.actual = q.actual /\ v.settles = q.settles
         /\ v.counted = q.counted /\ v.held = q.held /\ v.retry = q.retry
         /\ \A p : Charge(v, p) = Charge(q, p)
         /\ Reserved(v) = Reserved(q) /\ Unsettled(v) = Unsettled(q)
  <1> DEFINE v == MoveTo(q, point, h)
  <1>1. v \in Records
    BY DEF Records, MoveTo
  <1>2. /\ v.pc = point /\ v.hop = h /\ v.chain = q.chain /\ v.kind = q.kind
        /\ v.outcome = q.outcome /\ v.skip = q.skip /\ v.reserved = q.reserved
        /\ v.served = q.served /\ v.actual = q.actual /\ v.settles = q.settles
        /\ v.counted = q.counted /\ v.held = q.held /\ v.retry = q.retry
    BY DEF Records, MoveTo
  <1> HIDE DEF v
  <1>3. /\ \A p : Charge(v, p) = Charge(q, p)
        /\ Reserved(v) = Reserved(q)
    BY <1>2 DEF Charge, Reserved
  <1>4. Unsettled(v) = Unsettled(q)
    BY <1>2, <1>3 DEF Unsettled
  <1>5. Everywhere(v, s, t, b, c)
    BY <1>2, <1>3 DEF Everywhere, ClaimFits, KeyFits, ServedFits, BillFits, CountFits
  <1>6. QED BY <1>1, <1>2, <1>3, <1>4, <1>5 DEF v

\* Counting moves on as well.
LEMMA CountsOn ==
  ASSUME NEW q \in Records, NEW s, NEW t, NEW b, NEW c, Everywhere(q, s, t, b, c),
         q.counted = 0, q.outcome \notin {"none", "refused"}
  PROVE  LET v == Count(q) IN
         /\ v \in Records /\ Everywhere(v, s, t, b, c)
         /\ v.pc = q.pc /\ v.hop = q.hop /\ v.chain = q.chain /\ v.kind = q.kind
         /\ v.outcome = q.outcome /\ v.skip = q.skip /\ v.reserved = q.reserved
         /\ v.served = q.served /\ v.actual = q.actual /\ v.settles = q.settles
         /\ v.counted = 1 /\ v.held = q.held /\ v.retry = q.retry
         /\ \A p : Charge(v, p) = Charge(q, p)
         /\ Reserved(v) = Reserved(q) /\ Unsettled(v) = Unsettled(q)
  <1> DEFINE v == Count(q)
  <1>1. v \in Records
    BY DEF Records, Count
  <1>2. /\ v.pc = q.pc /\ v.hop = q.hop /\ v.chain = q.chain /\ v.kind = q.kind
        /\ v.outcome = q.outcome /\ v.skip = q.skip /\ v.reserved = q.reserved
        /\ v.served = q.served /\ v.actual = q.actual /\ v.settles = q.settles
        /\ v.counted = 1 /\ v.held = q.held /\ v.retry = q.retry
    BY DEF Records, Count
  <1> HIDE DEF v
  <1>3. /\ \A p : Charge(v, p) = Charge(q, p)
        /\ Reserved(v) = Reserved(q)
    BY <1>2 DEF Charge, Reserved
  <1>4. Unsettled(v) = Unsettled(q)
    BY <1>2, <1>3 DEF Unsettled
  <1>5. Everywhere(v, s, t, b, c)
    BY <1>2, <1>3 DEF Everywhere, ClaimFits, KeyFits, ServedFits, BillFits, CountFits
  <1>6. QED BY <1>1, <1>2, <1>3, <1>4, <1>5 DEF v

LEMMA DoneFits ==
  ASSUME NEW q \in Records, NEW s, NEW t, NEW b, NEW f, NEW c, Everywhere(q, s, t, b, c),
         q.settles > 0 => KeySettled(q, t),
         c = 0 => q.counted = IF Uncounted(q) THEN 0 ELSE 1,
         f = 0 /\ c = 0 => Charged(q, s) /\ s[Key] = q.actual
  PROVE  RequestFits(Done(q), s, t, b, f, c)
  <1> DEFINE v == MoveTo(q, "done", 0)
  <1>1. /\ v \in Records /\ Everywhere(v, s, t, b, c)
        /\ v.pc = "done" /\ v.settles = q.settles /\ v.counted = q.counted
        /\ v.actual = q.actual /\ v.kind = q.kind /\ v.outcome = q.outcome
        /\ \A p : Charge(v, p) = Charge(q, p)
        /\ Reserved(v) = Reserved(q)
    <2>1. "done" \in Points /\ 0 \in Nat
      BY DEF Points
    <2> QED BY <2>1, MovesOn
  <1>2. Done(q) = v
    BY DEF Done, MoveTo
  <1> HIDE DEF v
  <1>3. PointFits(v, s, t, b, c)
    BY <1>1 DEF PointFits, KeySettled, KeyHeld, Uncounted
  <1>4. f = 0 /\ c = 0 => QuietFits(v, s)
    BY <1>1 DEF QuietFits, Charged
  <1> QED BY <1>1, <1>2, <1>3, <1>4 DEF RequestFits

LEMMA AfterAuditFits ==
  ASSUME NEW q \in Records, NEW s, NEW t, NEW b, NEW f, NEW c, Everywhere(q, s, t, b, c),
         q.settles > 0, KeySettled(q, t), q.outcome # "none", ~Uncounted(q),
         q.counted = IF CountsLate(q) THEN 0 ELSE 1,
         f = 0 /\ c = 0 => Charged(q, s) /\ s[Key] = q.actual
  PROVE  RequestFits(AfterAudit(q), s, t, b, f, c)
  <1>1. CASE ~ CountsLate(q)
    <2>1. AfterAudit(q) = Done(q)
      BY <1>1 DEF AfterAudit, CountsLate
    <2>2. RequestFits(Done(q), s, t, b, f, c)
      BY <1>1, DoneFits
    <2> QED BY <2>1, <2>2
  <1>2. CASE CountsLate(q) /\ q.outcome = "served" /\ q.kind = "openai"
    <2> DEFINE v == MoveTo(q, "stopping", q.hop)
    <2>1. /\ v \in Records /\ Everywhere(v, s, t, b, c)
          /\ v.pc = "stopping" /\ v.settles = q.settles /\ v.counted = q.counted
          /\ v.actual = q.actual /\ v.outcome = q.outcome
          /\ \A p : Charge(v, p) = Charge(q, p)
          /\ Reserved(v) = Reserved(q)
      <3>1. q.hop \in Nat /\ "stopping" \in Points
        BY DEF Records, Points
      <3> QED BY <3>1, MovesOn
    <2>2. AfterAudit(q) = v
      BY <1>2 DEF AfterAudit, CountsLate, Records, MoveTo
    <2> HIDE DEF v
    <2>3. PointFits(v, s, t, b, c)
      BY <1>2, <2>1 DEF PointFits, KeySettled, KeyHeld, CountsLate
    <2>4. f = 0 /\ c = 0 => QuietFits(v, s)
      BY <2>1 DEF QuietFits, Charged
    <2> QED BY <2>1, <2>2, <2>3, <2>4 DEF RequestFits
  <1>3. CASE CountsLate(q) /\ ~(q.outcome = "served" /\ q.kind = "openai")
    <2> DEFINE v == Count(q)
    <2>1. AfterAudit(q) = Done(v)
      BY <1>3 DEF AfterAudit, CountsLate
    <2>2. /\ v \in Records /\ Everywhere(v, s, t, b, c)
          /\ v.settles = q.settles /\ v.counted = 1 /\ v.actual = q.actual
          /\ v.kind = q.kind /\ v.outcome = q.outcome
          /\ \A p : Charge(v, p) = Charge(q, p)
          /\ Reserved(v) = Reserved(q)
      BY <1>3, CountsOn DEF CountsLate
    <2> HIDE DEF v
    <2>3. /\ KeySettled(v, t) /\ ~Uncounted(v)
          /\ f = 0 /\ c = 0 => Charged(v, s) /\ s[Key] = v.actual
      BY <2>2 DEF KeySettled, KeyHeld, Charged, Uncounted
    <2> QED BY <2>1, <2>2, <2>3, DoneFits
  <1> QED BY <1>1, <1>2, <1>3

LEMMA AfterSettleFits ==
  ASSUME NEW q \in Records, NEW s, NEW t, NEW b, NEW f, NEW c, Everywhere(q, s, t, b, c),
         Ends(q), KeySettled(q, t),
         f = 0 /\ c = 0 => Charged(q, s) /\ s[Key] = q.actual
  PROVE  RequestFits(AfterSettle(q), s, t, b, f, c)
  <1>1. /\ q.settles > 0 /\ q.outcome \notin {"none", "refused"} /\ ~Uncounted(q)
        /\ q.counted = IF CountsLate(q) \/ CountsAfterSettle(q) THEN 0 ELSE 1
        /\ q.held => c > 0
        /\ q.outcome \in {"served", "unbooked"} => q.served # Nobody
    BY DEF Ends, Everywhere, CountFits, Uncounted
  <1>2. CASE q.held \/ (q.kind # "chat" /\ q.served = Nobody)
    <2>1. AfterSettle(q) = Done(q)
      BY <1>2 DEF AfterSettle
    <2>2. c = 0 => q.counted = 1
      BY <1>1, <1>2 DEF CountsLate, CountsAfterSettle
    <2> QED BY <1>1, <2>1, <2>2, DoneFits
  <1>3. CASE ~ (q.held \/ (q.kind # "chat" /\ q.served = Nobody))
    <2> DEFINE u == IF CountsAfterSettle(q) THEN Count(q) ELSE q
               v == MoveTo(u, "auditing", u.hop)
    <2>1. /\ u \in Records /\ Everywhere(u, s, t, b, c)
          /\ u.kind = q.kind /\ u.outcome = q.outcome
          /\ u.settles = q.settles /\ u.actual = q.actual
          /\ u.counted = IF CountsLate(q) THEN 0 ELSE 1
          /\ \A p : Charge(u, p) = Charge(q, p)
          /\ Reserved(u) = Reserved(q)
      <3>1. CASE CountsAfterSettle(q)
        <4>1. ~ CountsLate(q) /\ q.counted = 0
          BY <1>1, <3>1 DEF CountsLate, CountsAfterSettle
        <4> QED BY <1>1, <3>1, <4>1, CountsOn
      <3>2. CASE ~ CountsAfterSettle(q)
        BY <1>1, <3>2
      <3> QED BY <3>1, <3>2
    <2> HIDE DEF u
    <2>2. /\ v \in Records /\ Everywhere(v, s, t, b, c)
          /\ v.pc = "auditing" /\ v.settles = q.settles /\ v.actual = q.actual
          /\ v.kind = q.kind /\ v.outcome = q.outcome
          /\ v.counted = IF CountsLate(q) THEN 0 ELSE 1
          /\ \A p : Charge(v, p) = Charge(q, p)
          /\ Reserved(v) = Reserved(q)
      <3>1. u.hop \in Nat /\ "auditing" \in Points
        BY <2>1 DEF Records, Points
      <3> QED BY <2>1, <3>1, MovesOn
    <2>3. AfterSettle(q) = v
      <3>1. AfterSettle(q) = [u EXCEPT !.pc = "auditing"]
        BY <1>3 DEF AfterSettle, u, CountsAfterSettle
      <3> QED BY <2>1, <3>1 DEF Records, MoveTo
    <2> HIDE DEF v
    <2>4. PointFits(v, s, t, b, c)
      BY <1>1, <2>2 DEF PointFits, KeySettled, KeyHeld, CountsLate, Uncounted
    <2>5. f = 0 /\ c = 0 => QuietFits(v, s)
      BY <2>2 DEF QuietFits, Charged
    <2> QED BY <2>2, <2>3, <2>4, <2>5 DEF RequestFits
  <1> QED BY <1>2, <1>3

\* What a request can be charged is within what it claimed.
LEMMA ReservedCovers ==
  ASSUME NEW q \in Records, NEW s, NEW t, NEW b, NEW c, Everywhere(q, s, t, b, c)
  PROVE  /\ Reserved(q) \in 0..Most /\ q.actual \in 0..Most /\ Most \in Nat
         /\ q.actual <= Reserved(q)
  <1>1. /\ IsFiniteSet(Billable) /\ Claim \in Nat
        /\ \A p \in Billable : q.reserved[p] \in 0..Claim
        /\ q.actual \in 0..Most
    BY Names, ClaimType DEF Records
  <1>2. /\ Reserved(q) \in Nat /\ Reserved(q) <= Most /\ Most \in Nat
    BY <1>1, UnitsFinite, TotalBound DEF Reserved, Most
  <1>3. q.actual <= Reserved(q)
    <2>1. CASE q.actual = 0
      BY <1>2, <2>1
    <2>2. CASE q.actual > 0
      <3>1. q.served \in Billable /\ q.reserved[q.served] = Claim /\ q.actual <= Claim
        BY <2>2 DEF Everywhere, ServedFits
      <3>2. Claim <= Reserved(q)
        BY <1>1, <3>1, TotalMember DEF Reserved
      <3> QED BY <1>1, <1>2, <3>1, <3>2
    <2> QED BY <1>1, <1>2, <2>1, <2>2
  <1> QED BY <1>1, <1>2, <1>3

LEMMA SettleKeyFits ==
  ASSUME NEW q \in Records, NEW s, NEW t, NEW b, NEW f, NEW c, Everywhere(q, s, t, b, c),
         Ends(q), KeyHeld(q, t), f = 0 /\ c = 0 => Charged(q, s)
  PROVE  RequestFits(SettleKey(q), s, t, b, f, c)
  <1>1. /\ Reserved(q) \in Nat /\ q.actual \in Nat /\ q.actual <= Reserved(q)
        /\ s[Key] = Reserved(q)
    <2>1. /\ Reserved(q) \in 0..Most /\ q.actual \in 0..Most /\ Most \in Nat
          /\ q.actual <= Reserved(q)
      BY ReservedCovers
    <2>2. s[Key] = Reserved(q)
      BY DEF KeyHeld, Everywhere, KeyFits
    <2> QED BY <2>1, <2>2
  <1>2. CASE q.actual = Reserved(q)
    BY <1>1, <1>2, AfterSettleFits DEF SettleKey, KeySettled
  <1>3. CASE q.actual # Reserved(q)
    <2> DEFINE v == MoveTo(q, "settling_key", 0)
    <2>1. /\ v \in Records /\ Everywhere(v, s, t, b, c)
          /\ v.pc = "settling_key" /\ v.settles = q.settles /\ v.actual = q.actual
          /\ v.kind = q.kind /\ v.outcome = q.outcome /\ v.counted = q.counted
          /\ v.served = q.served
          /\ \A p : Charge(v, p) = Charge(q, p)
          /\ Reserved(v) = Reserved(q)
      <3>1. "settling_key" \in Points /\ 0 \in Nat
        BY DEF Points
      <3> QED BY <3>1, MovesOn
    <2>2. SettleKey(q) = v
      BY <1>3 DEF SettleKey, MoveTo
    <2> HIDE DEF v
    <2>3. t[Key] = "granted"
      BY <1>1, <1>3 DEF KeyHeld
    <2>4. PointFits(v, s, t, b, c)
      BY <1>3, <2>1, <2>3 DEF PointFits, Ends, CountsLate, CountsAfterSettle, Uncounted
    <2>5. f = 0 /\ c = 0 => QuietFits(v, s)
      BY <2>1 DEF QuietFits, Charged
    <2> QED BY <2>1, <2>2, <2>4, <2>5 DEF RequestFits
  <1> QED BY <1>2, <1>3

\* Going from hop i to a later hop h leaves the providers in between behind.
LEMMA FromLater ==
  ASSUME NEW chain \in Chains, NEW i \in Nat, NEW h \in Nat, i <= h
  PROVE  /\ From(chain, h) \subseteq From(chain, i)
         /\ \A p \in From(chain, i) : p \in From(chain, h)
                \/ \E j \in DOMAIN chain : i <= j /\ j < h /\ p = chain[j]
  BY ChainType DEF From

\* The loop over the claims, from the hop it stands at.
LEMMA SettleOnFits ==
  ASSUME NEW q \in Records, NEW s, NEW t, NEW b, NEW f, NEW c, Everywhere(q, s, t, b, c),
         q.pc \in {"settling", "unwinding"},
         q.pc = "settling" => Ends(q) /\ KeyHeld(q, t),
         q.pc = "unwinding" => Unwound(q),
         Holding(q, q.hop + 1, t),
         f = 0 /\ c = 0 => LoopQuiet(q, s, q.hop + 1) /\ (q.pc = "unwinding" => s[Key] = 0)
  PROVE  RequestFits(SettleOn(q), s, t, b, f, c)
  <1> DEFINE U == Unsettled(q)
             h == NextHop(q, U)
             i == q.hop + 1
  <1>1. q.hop \in Nat /\ i \in Nat /\ q.chain \in Chains
    BY DEF Records
  <1>2. CASE Ended(q, U)
    <2>1. \A p \in From(q.chain, i) : p \notin U
      BY <1>2, NextHopFits
    <2>2. f = 0 /\ c = 0 => Charged(q, s)
      BY <2>1 DEF LoopQuiet, Charged, Unsettled
    <2>3. CASE q.pc = "unwinding"
      <3>1. /\ SettleOn(q) = Done(q)
            /\ q.settles = 0 /\ q.actual = 0
        BY <1>2, <2>3 DEF SettleOn, Unwound, Everywhere, ServedFits
      <3>2. q.counted = IF Uncounted(q) THEN 0 ELSE 1
        BY <2>3 DEF Unwound, Uncounted, Everywhere, CountFits
      <3> QED BY <2>2, <2>3, <3>1, <3>2, DoneFits
    <2>4. CASE q.pc = "settling"
      <3>1. SettleOn(q) = SettleKey(q)
        BY <1>2, <2>4 DEF SettleOn
      <3> QED BY <2>2, <2>4, <3>1, SettleKeyFits
    <2> QED BY <2>3, <2>4
  <1>3. CASE ~ Ended(q, U)
    <2>1. /\ h \in Nat /\ h \in DOMAIN q.chain /\ h > q.hop /\ q.chain[h] \in U
          /\ \A j \in DOMAIN q.chain : q.hop < j /\ j < h => q.chain[j] \notin U
      BY <1>3, NextHopFits
    <2> HIDE DEF h
    <2>2. /\ From(q.chain, h) \subseteq From(q.chain, i)
          /\ \A p \in From(q.chain, i) : p \in From(q.chain, h) \/ p \notin U
      <3>1. i <= h
        BY <1>1, <2>1
      <3>2. /\ From(q.chain, h) \subseteq From(q.chain, i)
            /\ \A p \in From(q.chain, i) : p \in From(q.chain, h)
                  \/ \E j \in DOMAIN q.chain : i <= j /\ j < h /\ p = q.chain[j]
        <4> HIDE DEF i
        <4> QED BY <1>1, <2>1, <3>1, FromLater
      <3>3. \A j \in DOMAIN q.chain : i <= j /\ j < h => q.chain[j] \notin U
        BY <1>1, <2>1, ChainType
      <3> QED BY <3>2, <3>3
    <2> DEFINE v == MoveTo(q, q.pc, h)
    <2>3. /\ v \in Records /\ Everywhere(v, s, t, b, c)
          /\ v.pc = q.pc /\ v.hop = h /\ v.chain = q.chain /\ v.kind = q.kind
          /\ v.outcome = q.outcome /\ v.reserved = q.reserved
          /\ v.served = q.served /\ v.actual = q.actual /\ v.settles = q.settles
          /\ v.counted = q.counted
          /\ \A p : Charge(v, p) = Charge(q, p)
          /\ Reserved(v) = Reserved(q) /\ Unsettled(v) = U
      <3>1. q.pc \in Points
        BY DEF Records
      <3> QED BY <2>1, <3>1, MovesOn
    <2>4. SettleOn(q) = v
      BY <1>3 DEF SettleOn, Goto, MoveTo, h
    <2> HIDE DEF v
    <2>5. LoopFits(v, t)
      BY <2>1, <2>2, <2>3 DEF LoopFits, Current, Holding
    <2>6. PointFits(v, s, t, b, c)
      BY <2>3, <2>5 DEF PointFits, Unwound, Ends, CountsLate, CountsAfterSettle, KeyHeld,
                        Uncounted
    <2>7. f = 0 /\ c = 0 => LoopQuiet(v, s, h)
      BY <2>2, <2>3 DEF LoopQuiet, Unsettled
    <2>8. f = 0 /\ c = 0 => QuietFits(v, s)
      BY <2>3, <2>7 DEF QuietFits
    <2> QED BY <2>3, <2>4, <2>6, <2>8 DEF RequestFits
  <1> QED BY <1>2, <1>3

\* Two updates of the outcome and of the count.
Mark(q, o, n) == [q EXCEPT !.outcome = o, !.counted = n]

LEMMA MarksOn ==
  ASSUME NEW q \in Records, NEW s, NEW t, NEW b, NEW c, Everywhere(q, s, t, b, c),
         NEW o \in Outcomes, NEW n \in 0..1, o \in {"none", "refused"} => n = 0
  PROVE  LET v == Mark(q, o, n) IN
         /\ v \in Records /\ Everywhere(v, s, t, b, c)
         /\ v.pc = q.pc /\ v.hop = q.hop /\ v.chain = q.chain /\ v.kind = q.kind
         /\ v.outcome = o /\ v.skip = q.skip /\ v.reserved = q.reserved
         /\ v.served = q.served /\ v.actual = q.actual /\ v.settles = q.settles
         /\ v.counted = n /\ v.held = q.held /\ v.retry = q.retry
         /\ v.estimate = q.estimate
         /\ \A p : Charge(v, p) = Charge(q, p)
         /\ Reserved(v) = Reserved(q) /\ Unsettled(v) = Unsettled(q)
  <1> DEFINE v == Mark(q, o, n)
  <1>0. n \in Nat
    OBVIOUS
  <1>1. v \in Records
    BY <1>0 DEF Records, Mark
  <1>2. /\ v.pc = q.pc /\ v.hop = q.hop /\ v.chain = q.chain /\ v.kind = q.kind
        /\ v.outcome = o /\ v.skip = q.skip /\ v.reserved = q.reserved
        /\ v.served = q.served /\ v.actual = q.actual /\ v.settles = q.settles
        /\ v.counted = n /\ v.held = q.held /\ v.retry = q.retry
        /\ v.estimate = q.estimate
    BY DEF Records, Mark
  <1> HIDE DEF v
  <1>3. /\ \A p : Charge(v, p) = Charge(q, p)
        /\ Reserved(v) = Reserved(q)
    BY <1>2 DEF Charge, Reserved
  <1>4. Unsettled(v) = Unsettled(q)
    BY <1>2, <1>3 DEF Unsettled
  <1>5. Everywhere(v, s, t, b, c)
    BY <1>2, <1>3 DEF Everywhere, ClaimFits, KeyFits, ServedFits, BillFits, CountFits
  <1>6. QED BY <1>1, <1>2, <1>3, <1>4, <1>5 DEF v

Intact(q, s) == \A p \in Billable : s[p] = q.reserved[p]

\* _settle_chain, called with a provider that claimed and no more than its claim.
LEMMA SettleChainFits ==
  ASSUME NEW q \in Records, NEW s, NEW t, NEW b, NEW f, NEW c, Everywhere(q, s, t, b, c),
         q.settles = 0, NoneSettled(t), KeyHeld(q, t), q.outcome # "none", ~Uncounted(q),
         q.counted = IF CountsLate(q) \/ CountsAfterSettle(q) THEN 0 ELSE 1,
         NEW w \in Hops(q.chain) \cup {Nobody}, NEW usd \in 0..Claim,
         q.outcome \in {"served", "unbooked"} => w # Nobody,
         w \in Billable => q.reserved[w] = Claim, usd > 0 => w \in Billable,
         f = 0 /\ c = 0 => Intact(q, s)
  PROVE  RequestFits(SettleChain(q, w, usd), s, t, b, f, c)
  <1> DEFINE v == [q EXCEPT !.pc = "settling", !.hop = 0, !.settles = @ + 1,
                            !.served = w, !.actual = usd]
  <1>1. usd \in 0..Most /\ usd \in Nat
    <2>1. /\ Claim \in Nat /\ Reserved(q) \in 0..Most /\ Most \in Nat
      BY ClaimType, ReservedCovers
    <2>2. CASE usd = 0
      BY <2>1, <2>2
    <2>3. CASE usd > 0
      <3>1. /\ \A p \in Billable : q.reserved[p] \in 0..Claim
            /\ w \in Billable /\ q.reserved[w] = Claim
        BY <2>3 DEF Records
      <3>2. Claim <= Reserved(q)
        BY <2>1, <3>1, Names, TotalMember DEF Reserved
      <3> QED BY <2>1, <3>2
    <2> QED BY <2>1, <2>2, <2>3
  <1>2. w \in Providers \cup {Nobody}
    BY ChainType DEF Records
  <1>3. v \in Records
    <2>1. q.settles + 1 \in Nat /\ 0 \in Nat /\ "settling" \in Points
      BY DEF Records, Points
    <2> QED BY <1>1, <1>2, <2>1 DEF Records
  <1>4. /\ v.pc = "settling" /\ v.hop = 0 /\ v.chain = q.chain /\ v.kind = q.kind
        /\ v.outcome = q.outcome /\ v.reserved = q.reserved
        /\ v.served = w /\ v.actual = usd /\ v.settles = q.settles + 1
        /\ v.counted = q.counted /\ v.held = q.held
    BY DEF Records
  <1>5. q.settles + 1 > 0 /\ q.settles + 1 # 0
    BY DEF Records
  <1> HIDE DEF v
  <1>6. Reserved(v) = Reserved(q)
    BY <1>4 DEF Reserved
  <1>7. Everywhere(v, s, t, b, c)
    <2>1. \A p \in Billable : ClaimFits(v, s, t, p)
      BY <1>4 DEF Everywhere, ClaimFits, NoneSettled
    <2>2. KeyFits(v, s, t)
      BY <1>4, <1>6 DEF Everywhere, KeyFits, KeyHeld
    <2>3. ServedFits(v)
      BY <1>4, <1>5, ClaimType DEF ServedFits
    <2>4. BillFits(v, b) /\ CountFits(v, c)
      BY <1>4 DEF Everywhere, BillFits, CountFits
    <2> QED BY <2>1, <2>2, <2>3, <2>4 DEF Everywhere
  <1>8. KeyHeld(v, t)
    BY <1>6 DEF KeyHeld
  <1>9. Ends(v)
    BY <1>4, <1>5 DEF Ends, CountsLate, CountsAfterSettle, Uncounted
  <1>10. Claim # 0 /\ q.chain \in Chains /\ From(q.chain, 1) = Hops(q.chain)
    BY ClaimType, ChainType DEF Records
  <1>11. \A p \in Billable : q.reserved[p] \in {0, Claim}
            /\ (q.reserved[p] = Claim => t[p] = "granted" /\ p \in Hops(q.chain))
    BY DEF Everywhere, ClaimFits, NoneSettled
  <1>12. Holding(v, 1, t)
    <2> SUFFICES ASSUME NEW p \in Unsettled(v)
                 PROVE  t[p] = "granted"
      BY DEF Holding
    <2>1. p \in Billable /\ q.reserved[p] # Charge(v, p)
      BY <1>4 DEF Unsettled
    <2>2. q.reserved[p] = Claim
      BY <1>4, <1>11, <2>1 DEF Charge
    <2> QED BY <1>11, <2>1, <2>2
  <1>13. f = 0 /\ c = 0 => LoopQuiet(v, s, 1)
    BY <1>4, <1>10, <1>11, Names DEF LoopQuiet, Intact, Charge
  <1>14. v.hop + 1 = 1
    BY <1>4
  <1>15. RequestFits(SettleOn(v), s, t, b, f, c)
    BY <1>3, <1>4, <1>7, <1>8, <1>9, <1>12, <1>13, <1>14, SettleOnFits
  <1> QED BY <1>15 DEF SettleChain, v

\* The refund on the way out of _reserve_chain.
LEMMA UnwindFits ==
  ASSUME NEW q \in Records, NEW s, NEW t, NEW b, NEW f, NEW c, Everywhere(q, s, t, b, c),
         Fresh(q, t, b),
         f = 0 /\ c = 0 => Intact(q, s) /\ s[Key] = 0
  PROVE  RequestFits(Unwind(q), s, t, b, f, c)
  <1> DEFINE u == Mark(q, "refused", 0)
             v == MoveTo(u, "unwinding", 0)
  <1>1. q.counted = 0 /\ "refused" \in Outcomes /\ "unwinding" \in Points /\ 0 \in Nat
    BY DEF Everywhere, CountFits, Fresh, Outcomes, Points
  <1>2. /\ u \in Records /\ Everywhere(u, s, t, b, c)
        /\ u.chain = q.chain /\ u.outcome = "refused" /\ u.reserved = q.reserved
        /\ u.served = q.served /\ u.settles = q.settles
    BY <1>1, MarksOn
  <1>3. Unwind(q) = SettleOn(v)
    BY <1>1 DEF Unwind, Mark, MoveTo, Records
  <1> HIDE DEF u
  <1>4. /\ v \in Records /\ Everywhere(v, s, t, b, c)
        /\ v.pc = "unwinding" /\ v.hop = 0 /\ v.chain = q.chain
        /\ v.outcome = "refused" /\ v.reserved = q.reserved
        /\ v.served = q.served /\ v.settles = q.settles
    BY <1>1, <1>2, MovesOn
  <1> HIDE DEF v
  <1>5. Unwound(v) /\ v.served = Nobody
    BY <1>4 DEF Unwound, Fresh
  <1>6. \A p \in Billable : Charge(v, p) = 0
    BY <1>5, Names DEF Charge
  <1>7. \A p \in Billable : q.reserved[p] \in {0, Claim}
            /\ (q.reserved[p] = Claim => t[p] = "granted" /\ p \in Hops(q.chain))
    BY DEF Everywhere, ClaimFits, Fresh, NoneSettled
  <1>8. Holding(v, 1, t)
    BY <1>4, <1>6, <1>7 DEF Holding, Unsettled
  <1>9. Claim # 0 /\ From(q.chain, 1) = Hops(q.chain)
    BY ClaimType, ChainType DEF Records
  <1>10. f = 0 /\ c = 0 => LoopQuiet(v, s, 1)
    BY <1>4, <1>6, <1>7, <1>9 DEF LoopQuiet, Intact
  <1>11. v.hop + 1 = 1
    BY <1>4
  <1>12. RequestFits(SettleOn(v), s, t, b, f, c)
    BY <1>4, <1>5, <1>8, <1>10, <1>11, SettleOnFits
  <1> QED BY <1>3, <1>12

LEMMA SettleOnAbortFits ==
  ASSUME NEW q \in Records, NEW s, NEW t, NEW b, NEW f, NEW c, Everywhere(q, s, t, b, c),
         q.settles = 0, NoneSettled(t), KeyHeld(q, t),
         q.outcome \notin {"none", "refused", "served"}, q.kind # "chat",
         q.counted = IF CountsLate(q) THEN 0 ELSE 1,
         q.outcome = "unbooked" => q.served # Nobody,
         f = 0 /\ c = 0 => Intact(q, s)
  PROVE  RequestFits(SettleOnAbort(q), s, t, b, f, c)
  <1> DEFINE usd == IF q.served \in Free \cup {Nobody} THEN 0 ELSE q.estimate
  <1>1. q.served \in Hops(q.chain) \cup {Nobody} /\ q.served \in Providers \cup {Nobody}
    BY DEF Everywhere, ServedFits, Records
  <1>2. q.served \in Billable => q.reserved[q.served] = Claim
    BY DEF Everywhere, ServedFits
  <1>3. usd \in 0..Claim
    BY ClaimType DEF Records
  <1>4. usd > 0 => q.served \in Billable
    BY <1>1 DEF Billable
  <1>5. ~CountsAfterSettle(q) /\ ~Uncounted(q)
    BY DEF CountsAfterSettle, Uncounted
  <1>6. SettleOnAbort(q) = SettleChain(q, q.served, usd)
    BY DEF SettleOnAbort
  <1> HIDE DEF usd
  <1> QED BY <1>1, <1>2, <1>3, <1>4, <1>5, <1>6, SettleChainFits

-----------------------------------------------------------------------------
(* Local code: the router and the claims *)

LEMMA AllFailedFits ==
  ASSUME NEW q \in Records, NEW s, NEW t, NEW b, NEW f, NEW c, Everywhere(q, s, t, b, c),
         Admitted(q, t), q.outcome = "none",
         f = 0 /\ c = 0 => Intact(q, s)
  PROVE  RequestFits(AllFailed(q), s, t, b, f, c)
  <1> DEFINE u(n) == Mark(q, "failed", n)
  <1>1. /\ q.counted = 0 /\ q.kind \in {"chat", "stream", "openai"}
        /\ "failed" \in Outcomes /\ q.settles = 0 /\ NoneSettled(t) /\ KeyHeld(q, t)
    BY PathAssumption DEF Everywhere, CountFits, Outcomes, Records, Admitted
  <1>2. ASSUME NEW n \in 0..1
        PROVE  /\ u(n) \in Records /\ Everywhere(u(n), s, t, b, c)
               /\ u(n).pc = q.pc /\ u(n).hop = q.hop /\ u(n).chain = q.chain
               /\ u(n).kind = q.kind /\ u(n).outcome = "failed" /\ u(n).skip = q.skip
               /\ u(n).reserved = q.reserved /\ u(n).settles = 0 /\ u(n).counted = n
               /\ KeyHeld(u(n), t) /\ Admitted(u(n), t)
               /\ (f = 0 /\ c = 0 => Intact(u(n), s))
    <2> DEFINE v == u(n)
    <2>1. /\ v \in Records /\ Everywhere(v, s, t, b, c)
          /\ v.pc = q.pc /\ v.hop = q.hop /\ v.chain = q.chain
          /\ v.kind = q.kind /\ v.outcome = "failed" /\ v.skip = q.skip
          /\ v.reserved = q.reserved /\ v.settles = q.settles /\ v.counted = n
          /\ Reserved(v) = Reserved(q)
      BY <1>1, MarksOn
    <2> HIDE DEF v
    <2>2. KeyHeld(v, t) /\ Admitted(v, t) /\ (f = 0 /\ c = 0 => Intact(v, s))
      BY <1>1, <2>1 DEF KeyHeld, Admitted, Reached, Intact
    <2> QED BY <1>1, <2>1, <2>2 DEF v
  <1>3. [q EXCEPT !.outcome = "failed"] = u(0) /\ Count(u(0)) = u(1)
    <2>1. [q EXCEPT !.outcome = "failed"] = u(0)
      BY <1>1 DEF Mark, Records
    <2>2. u(0).counted = 0
      BY <1>2
    <2>3. Count(u(0)) = [u(0) EXCEPT !.counted = 1]
      BY <2>2 DEF Count
    <2>4. [u(0) EXCEPT !.counted = 1] = u(1)
      BY DEF Mark, Records
    <2> QED BY <2>1, <2>3, <2>4
  <1>4. CASE q.kind = "chat"
    <2>1. AllFailed(q) = SettleChain(u(0), Nobody, 0)
      BY <1>3, <1>4 DEF AllFailed
    <2> DEFINE v == u(0)
    <2>2. /\ v \in Records /\ Everywhere(v, s, t, b, c)
          /\ v.kind = "chat" /\ v.outcome = "failed" /\ v.settles = 0 /\ v.counted = 0
          /\ KeyHeld(v, t)
          /\ (f = 0 /\ c = 0 => Intact(v, s))
      BY <1>2, <1>4
    <2> HIDE DEF v
    <2>3. /\ Nobody \notin Billable /\ 0 \in 0..Claim
          /\ CountsAfterSettle(v) /\ ~Uncounted(v)
      BY <2>2, Names, ClaimType DEF CountsAfterSettle, Uncounted
    <2>4. RequestFits(SettleChain(v, Nobody, 0), s, t, b, f, c)
      BY <1>1, <2>2, <2>3, SettleChainFits
    <2> QED BY <2>1, <2>4 DEF v
  <1>5. CASE q.kind = "stream"
    <2> DEFINE w == u(1)
               v == MoveTo(w, "auditing_failure", w.hop)
    <2>1. /\ w \in Records /\ Everywhere(w, s, t, b, c)
          /\ w.kind = "stream" /\ w.outcome = "failed" /\ w.settles = 0 /\ w.counted = 1
          /\ Admitted(w, t) /\ (f = 0 /\ c = 0 => Intact(w, s))
      BY <1>2, <1>5
    <2>2. AllFailed(q) = v
      <3>1. AllFailed(q) = [w EXCEPT !.pc = "auditing_failure"]
        BY <1>3, <1>5 DEF AllFailed
      <3> HIDE DEF w
      <3> QED BY <2>1, <3>1 DEF MoveTo, Records
    <2> HIDE DEF w
    <2>3. /\ v \in Records /\ Everywhere(v, s, t, b, c)
          /\ v.pc = "auditing_failure" /\ v.kind = "stream" /\ v.outcome = "failed"
          /\ v.settles = 0 /\ v.counted = 1 /\ v.chain = w.chain /\ v.skip = w.skip
          /\ v.reserved = w.reserved /\ Reserved(v) = Reserved(w)
      <3>1. "auditing_failure" \in Points /\ w.hop \in Nat
        BY <2>1 DEF Points, Records
      <3> QED BY <2>1, <3>1, MovesOn
    <2> HIDE DEF v
    <2>4. Admitted(v, t)
      BY <2>1, <2>3 DEF Admitted, KeyHeld, Reached
    <2>5. PointFits(v, s, t, b, c)
      BY <2>3, <2>4 DEF PointFits
    <2>6. f = 0 /\ c = 0 => QuietFits(v, s)
      BY <2>1, <2>3 DEF QuietFits, ExceptHandingBack, Intact
    <2> QED BY <2>2, <2>3, <2>5, <2>6 DEF RequestFits
  <1>6. CASE q.kind = "openai"
    <2>1. AllFailed(q) = SettleOnAbort(u(1))
      BY <1>3, <1>6 DEF AllFailed
    <2> DEFINE v == u(1)
    <2>2. /\ v \in Records /\ Everywhere(v, s, t, b, c)
          /\ v.kind = "openai" /\ v.outcome = "failed" /\ v.settles = 0 /\ v.counted = 1
          /\ KeyHeld(v, t) /\ (f = 0 /\ c = 0 => Intact(v, s))
      BY <1>2, <1>6
    <2> HIDE DEF v
    <2>3. RequestFits(SettleOnAbort(v), s, t, b, f, c)
      <3>1. ~CountsLate(v)
        BY <2>2 DEF CountsLate
      <3> QED BY <1>1, <2>2, <3>1, SettleOnAbortFits
    <2> QED BY <2>1, <2>3 DEF v
  <1> QED BY <1>1, <1>4, <1>5, <1>6

Unbilled(q, b) == \A p \in From(q.chain, q.hop + 1) \cap Billable : b[p] = 0

CallHop(q, h) == [q EXCEPT !.pc = "calling", !.hop = h, !.retry = 0]

\* The next usable hop, billed for nothing yet; or all have failed.
LEMMA CallNextFits ==
  ASSUME NEW q \in Records, NEW s, NEW t, NEW b, NEW f, NEW c, Everywhere(q, s, t, b, c),
         Admitted(q, t), q.outcome = "none", Unbilled(q, b),
         f = 0 /\ c = 0 => Intact(q, s)
  PROVE  RequestFits(CallNext(q), s, t, b, f, c)
  <1> DEFINE usable == Providers \ q.skip
             h == NextHop(q, usable)
  <1>1. q.hop \in Nat /\ q.hop + 1 \in Nat /\ q.chain \in Chains
    BY DEF Records
  <1>2. CASE Ended(q, usable)
    BY <1>2, AllFailedFits DEF CallNext
  <1>3. CASE ~ Ended(q, usable)
    <2>1. h \in Nat /\ h \in DOMAIN q.chain /\ h > q.hop /\ q.chain[h] \in usable
      BY <1>3, NextHopFits
    <2> HIDE DEF h
    <2> DEFINE u == MoveTo(q, "calling", h)
               v == [u EXCEPT !.retry = 0]
    <2>2. CallNext(q) = v
      BY <1>3 DEF CallNext, Goto, MoveTo, h
    <2>3. /\ u \in Records /\ Everywhere(u, s, t, b, c)
          /\ u.pc = "calling" /\ u.hop = h /\ u.chain = q.chain /\ u.kind = q.kind
          /\ u.outcome = q.outcome /\ u.skip = q.skip /\ u.reserved = q.reserved
          /\ u.served = q.served /\ u.actual = q.actual /\ u.settles = q.settles
          /\ u.counted = q.counted /\ u.held = q.held
      <3>1. "calling" \in Points
        BY DEF Points
      <3> QED BY <2>1, <3>1, MovesOn
    <2> HIDE DEF u
    <2>4. /\ v \in Records
          /\ v.pc = "calling" /\ v.hop = h /\ v.chain = q.chain /\ v.kind = q.kind
          /\ v.outcome = "none" /\ v.skip = q.skip /\ v.reserved = q.reserved
          /\ v.served = q.served /\ v.actual = q.actual /\ v.settles = q.settles
          /\ v.counted = q.counted /\ v.held = q.held /\ v.retry = 0
      <3>1. 0 \in 0..Retries
        BY PathAssumption
      <3> QED BY <2>3, <3>1 DEF Records
    <2> HIDE DEF v
    <2>5. Everywhere(v, s, t, b, c) /\ Reserved(v) = Reserved(q)
      BY <2>4 DEF Everywhere, ClaimFits, KeyFits, ServedFits, BillFits, CountFits,
                  Charge, Reserved
    <2>6. Admitted(v, t)
      BY <2>4, <2>5 DEF Admitted, KeyHeld, Reached
    <2>7. /\ Worst * 0 = 0
          /\ Current(v) \in Billable => b[Current(v)] = 0
      <3>1. Current(v) \in From(q.chain, q.hop + 1)
        BY <1>1, <2>1, <2>4, ChainType DEF Current, From
      <3> QED BY <3>1, ClaimType DEF Unbilled
    <2>8. \A p \in From(v.chain, v.hop + 1) \cap Billable : b[p] = 0
      <3>1. h + 1 \in Nat /\ q.hop + 1 <= h + 1
        BY <1>1, <2>1
      <3>2. From(q.chain, h + 1) \subseteq From(q.chain, q.hop + 1)
        BY <1>1, <3>1, FromLater
      <3> QED BY <2>4, <3>2 DEF Unbilled
    <2>9. RouterFits(v, t, b)
      BY <2>1, <2>4, <2>6, <2>7, <2>8 DEF RouterFits, Current
    <2>10. PointFits(v, s, t, b, c)
      BY <2>4, <2>9 DEF PointFits
    <2>11. f = 0 /\ c = 0 => QuietFits(v, s)
      BY <2>4 DEF QuietFits, ExceptHandingBack, Intact
    <2> QED BY <2>2, <2>4, <2>5, <2>10, <2>11 DEF RequestFits
  <1> QED BY <1>2, <1>3

LEMMA AdmitFits ==
  ASSUME NEW q \in Records, NEW s, NEW t, NEW b, NEW f, NEW c, Everywhere(q, s, t, b, c),
         Fresh(q, t, b), Admitted(q, t),
         f = 0 /\ c = 0 => Intact(q, s)
  PROVE  RequestFits(Admit(q), s, t, b, f, c)
  <1> DEFINE point == IF q.kind = "chat" THEN q.pc ELSE "responding"
             v == MoveTo(q, point, 0)
  <1>1. point \in Points /\ 0 \in Nat
    BY DEF Points, Records
  <1>2. Admit(q) = IF q.kind = "chat" THEN CallNext(v) ELSE v
    BY DEF Admit, MoveTo, Records
  <1>3. q.kind # "chat" => v.pc = "responding"
    BY DEF Records, MoveTo
  <1> HIDE DEF point
  <1>4. /\ v \in Records /\ Everywhere(v, s, t, b, c)
        /\ v.hop = 0 /\ v.chain = q.chain /\ v.kind = q.kind
        /\ v.outcome = q.outcome /\ v.skip = q.skip /\ v.reserved = q.reserved
        /\ v.served = q.served /\ v.settles = q.settles
        /\ Reserved(v) = Reserved(q)
    BY <1>1, MovesOn
  <1> HIDE DEF v
  <1>5. /\ Fresh(v, t, b) /\ Admitted(v, t) /\ Unbilled(v, b) /\ v.outcome = "none"
        /\ (f = 0 /\ c = 0 => Intact(v, s))
    BY <1>4 DEF Fresh, Admitted, KeyHeld, Reached, Unbilled, Intact
  <1>6. CASE q.kind = "chat"
    BY <1>2, <1>4, <1>5, <1>6, CallNextFits
  <1>7. CASE q.kind # "chat"
    <2>1. PointFits(v, s, t, b, c)
      BY <1>3, <1>4, <1>5, <1>7 DEF PointFits
    <2>2. f = 0 /\ c = 0 => QuietFits(v, s)
      BY <1>3, <1>5, <1>7 DEF QuietFits, ExceptHandingBack, Intact
    <2> QED BY <1>2, <1>4, <1>7, <2>1, <2>2 DEF RequestFits
  <1> QED BY <1>6, <1>7

\* The loop over the claims.
LEMMA ReserveNextFits ==
  ASSUME NEW q \in Records, NEW s, NEW t, NEW b, NEW f, NEW c, Everywhere(q, s, t, b, c),
         Fresh(q, t, b), t[Key] = "new", Reached(q, q.hop), Untouched(q, q.hop + 1, t),
         f = 0 /\ c = 0 => Intact(q, s)
  PROVE  RequestFits(ReserveNext(q), s, t, b, f, c)
  <1> DEFINE S == Billable \ q.skip
             h == NextHop(q, S)
  <1>1. /\ q.hop \in Nat /\ q.hop + 1 \in Nat /\ q.chain \in Chains
        /\ DOMAIN q.chain = 1..Len(q.chain) /\ Len(q.chain) \in Nat
    BY ChainType DEF Records
  <1>2. CASE ~ Ended(q, S)
    <2>1. /\ h \in Nat /\ h \in DOMAIN q.chain /\ h > q.hop /\ q.chain[h] \in S
          /\ \A j \in DOMAIN q.chain : q.hop < j /\ j < h => q.chain[j] \notin S
      BY <1>2, NextHopFits
    <2> HIDE DEF h
    <2> DEFINE v == MoveTo(q, "reserving", h)
    <2>2. ReserveNext(q) = v
      BY <1>2 DEF ReserveNext, Goto, MoveTo, h
    <2>3. /\ v \in Records /\ Everywhere(v, s, t, b, c)
          /\ v.pc = "reserving" /\ v.hop = h /\ v.chain = q.chain
          /\ v.outcome = q.outcome /\ v.skip = q.skip /\ v.reserved = q.reserved
          /\ v.served = q.served /\ v.settles = q.settles
      <3>1. "reserving" \in Points
        BY DEF Points
      <3> QED BY <2>1, <3>1, MovesOn
    <2> HIDE DEF v
    <2>4. Reached(v, h - 1)
      <3> SUFFICES ASSUME NEW k \in DOMAIN q.chain, k <= h - 1, q.chain[k] \in S
                   PROVE  q.reserved[q.chain[k]] = Claim
        BY <2>3 DEF Reached, UpTo
      <3>1. k \in Nat /\ k < h
        BY <1>1, <2>1
      <3>2. k <= q.hop
        BY <1>1, <2>1, <3>1
      <3> QED BY <3>2 DEF Reached, UpTo
    <2>5. Untouched(v, h, t)
      <3>1. q.hop + 1 <= h
        BY <1>1, <2>1
      <3>2. From(q.chain, h) \subseteq From(q.chain, q.hop + 1)
        BY <1>1, <2>1, <3>1, FromLater
      <3> QED BY <2>3, <3>2 DEF Untouched
    <2>6. ReservingFits(v, t, b)
      BY <2>1, <2>3, <2>4, <2>5 DEF ReservingFits, Fresh, Current
    <2>7. PointFits(v, s, t, b, c)
      BY <2>3, <2>6 DEF PointFits
    <2>8. f = 0 /\ c = 0 => QuietFits(v, s)
      BY <2>3 DEF QuietFits, ExceptHandingBack, Intact
    <2> QED BY <2>2, <2>3, <2>7, <2>8 DEF RequestFits
  <1>3. CASE Ended(q, S)
    <2>1. Reached(q, Len(q.chain))
      <3>1. \A p \in From(q.chain, q.hop + 1) : p \notin S
        BY <1>3, NextHopFits
      <3> SUFFICES ASSUME NEW k \in DOMAIN q.chain, q.chain[k] \in S
                   PROVE  q.reserved[q.chain[k]] = Claim
        BY DEF Reached, UpTo
      <3>2. k \in Nat /\ ~ (k >= q.hop + 1)
        BY <1>1, <3>1 DEF From
      <3>3. k <= q.hop
        BY <1>1, <3>2
      <3> QED BY <3>3 DEF Reached, UpTo
    <2>2. Reserved(q) \in Nat
      <3>1. Reserved(q) \in 0..Most /\ Most \in Nat
        BY ReservedCovers
      <3> QED BY <3>1
    <2>3. CASE Hops(q.chain) \subseteq q.skip
      <3>1. ReserveNext(q) = Unwind(q)
        BY <1>3, <2>3 DEF ReserveNext
      <3>2. s[Key] = 0
        BY DEF Everywhere, KeyFits
      <3> QED BY <3>1, <3>2, UnwindFits
    <2>4. CASE ~ (Hops(q.chain) \subseteq q.skip) /\ Reserved(q) > 0
      <3> DEFINE v == MoveTo(q, "key_reserving", 0)
      <3>1. ReserveNext(q) = v
        BY <1>3, <2>4 DEF ReserveNext, MoveTo
      <3>2. /\ v \in Records /\ Everywhere(v, s, t, b, c)
            /\ v.pc = "key_reserving" /\ v.chain = q.chain
            /\ v.outcome = q.outcome /\ v.skip = q.skip /\ v.reserved = q.reserved
            /\ v.served = q.served /\ v.settles = q.settles
            /\ Reserved(v) = Reserved(q)
        <4>1. "key_reserving" \in Points /\ 0 \in Nat
          BY DEF Points
        <4> QED BY <4>1, MovesOn
      <3> HIDE DEF v
      <3>3. KeyReservingFits(v, t, b)
        BY <2>1, <2>4, <3>2 DEF KeyReservingFits, Fresh, Reached
      <3>4. PointFits(v, s, t, b, c)
        BY <3>2, <3>3 DEF PointFits
      <3>5. f = 0 /\ c = 0 => QuietFits(v, s)
        BY <3>2 DEF QuietFits, ExceptHandingBack, Intact
      <3> QED BY <3>1, <3>2, <3>4, <3>5 DEF RequestFits
    <2>5. CASE ~ (Hops(q.chain) \subseteq q.skip) /\ ~ (Reserved(q) > 0)
      <3>1. ReserveNext(q) = Admit(q)
        BY <1>3, <2>5 DEF ReserveNext
      <3>2. Reserved(q) = 0
        BY <2>2, <2>5
      <3>3. Admitted(q, t)
        BY <2>1, <3>2 DEF Admitted, Fresh, KeyHeld
      <3> QED BY <3>1, <3>3, AdmitFits
    <2> QED BY <2>3, <2>4, <2>5
  <1> QED BY <1>2, <1>3

-----------------------------------------------------------------------------
(* What one command does to the rows of a request *)

Standings == {"new", "granted", "over", "returned", "settled"}

Rows(s, t, b) == /\ s \in [Ledgers -> 0..Most] /\ t \in [Ledgers -> Standings]
                 /\ b \in [Billable -> 0..Claim]

Added(g, l, d) == [g EXCEPT ![l] = @ + d]
Now(t, l, after) == [t EXCEPT ![l] = after]

\* More faults and cancellations only weaken what is said of a request.
LEMMA Later ==
  ASSUME NEW q, NEW s, NEW t, NEW b, NEW f \in Nat, NEW c \in Nat,
         RequestFits(q, s, t, b, f, c),
         NEW f1 \in Nat, NEW c1 \in Nat, f <= f1, c <= c1
  PROVE  RequestFits(q, s, t, b, f1, c1)
  <1>1. c > 0 => c1 > 0
    OBVIOUS
  <1>2. f1 = 0 /\ c1 = 0 => f = 0 /\ c = 0
    OBVIOUS
  <1>3. Everywhere(q, s, t, b, c1)
    BY <1>1 DEF RequestFits, Everywhere, CountFits
  <1>4. c1 = 0 => c = 0
    OBVIOUS
  <1>5. PointFits(q, s, t, b, c1)
    BY <1>4 DEF RequestFits, PointFits
  <1> QED BY <1>2, <1>3, <1>5 DEF RequestFits

\* The provider of a hop is on no other hop.
LEMMA HopAlone ==
  ASSUME NEW q \in Records, q.hop \in DOMAIN q.chain
  PROVE  /\ Current(q) \in Hops(q.chain) /\ Current(q) \in From(q.chain, q.hop)
         /\ Current(q) \in UpTo(q.chain, q.hop)
         /\ From(q.chain, q.hop) = From(q.chain, q.hop + 1) \cup {Current(q)}
         /\ Current(q) \notin From(q.chain, q.hop + 1)
         /\ UpTo(q.chain, q.hop) = UpTo(q.chain, q.hop - 1) \cup {Current(q)}
  <1>1. /\ q.chain \in Chains /\ q.hop \in Nat
        /\ DOMAIN q.chain = 1..Len(q.chain) /\ Len(q.chain) \in Nat
        /\ \A i, j \in DOMAIN q.chain : q.chain[i] = q.chain[j] => i = j
    BY ChainType DEF Records
  <1>2. /\ Current(q) \in Hops(q.chain) /\ Current(q) \in From(q.chain, q.hop)
        /\ Current(q) \in UpTo(q.chain, q.hop)
    BY <1>1 DEF Current, Hops, From, UpTo
  <1>3. From(q.chain, q.hop) = From(q.chain, q.hop + 1) \cup {Current(q)}
    <2>1. \A k \in DOMAIN q.chain : k >= q.hop <=> k >= q.hop + 1 \/ k = q.hop
      BY <1>1
    <2> QED BY <2>1 DEF Current, From
  <1>4. UpTo(q.chain, q.hop) = UpTo(q.chain, q.hop - 1) \cup {Current(q)}
    <2>1. \A k \in DOMAIN q.chain : k <= q.hop <=> k <= q.hop - 1 \/ k = q.hop
      BY <1>1
    <2> QED BY <2>1 DEF Current, UpTo
  <1>5. Current(q) \notin From(q.chain, q.hop + 1)
    <2>1. \A k \in DOMAIN q.chain : k >= q.hop + 1 => k # q.hop
      BY <1>1
    <2> QED BY <1>1, <2>1 DEF Current, From
  <1> QED BY <1>2, <1>3, <1>4, <1>5

\* The claim that a request is about to make of a provider.
LEMMA AtReserving ==
  ASSUME NEW q, NEW s, NEW t, NEW b, NEW f, NEW c, RequestFits(q, s, t, b, f, c),
         q.pc = "reserving"
  PROVE  /\ q \in Records /\ Everywhere(q, s, t, b, c) /\ Fresh(q, t, b)
         /\ q.hop \in DOMAIN q.chain /\ Current(q) \in Billable \ q.skip
         /\ t[Current(q)] = "new" /\ s[Current(q)] = 0 /\ q.reserved[Current(q)] = 0
         /\ t[Key] = "new" /\ s[Key] = 0
         /\ Reached(q, q.hop - 1) /\ Untouched(q, q.hop + 1, t)
         /\ (f = 0 /\ c = 0 => Intact(q, s))
  <1>1. /\ q \in Records /\ Everywhere(q, s, t, b, c) /\ ReservingFits(q, t, b)
        /\ (f = 0 /\ c = 0 => QuietFits(q, s))
    BY DEF RequestFits, PointFits
  <1>2. /\ Fresh(q, t, b) /\ q.hop \in DOMAIN q.chain /\ Current(q) \in Billable \ q.skip
        /\ t[Key] = "new" /\ Reached(q, q.hop - 1) /\ Untouched(q, q.hop, t)
    BY <1>1 DEF ReservingFits
  <1>3. t[Current(q)] = "new" /\ Untouched(q, q.hop + 1, t)
    BY <1>1, <1>2, HopAlone DEF Untouched
  <1>4. s[Current(q)] = 0 /\ q.reserved[Current(q)] = 0
    BY <1>1, <1>2, <1>3, ClaimType DEF Everywhere, ClaimFits
  <1>5. s[Key] = 0
    BY <1>1, <1>2 DEF Everywhere, KeyFits
  <1>6. f = 0 /\ c = 0 => Intact(q, s)
    BY <1>1 DEF QuietFits, ExceptHandingBack, Intact
  <1> QED BY <1>1, <1>2, <1>3, <1>4, <1>5, <1>6

\* The claim is on the ledger, within the cap or over it.
LEMMA ClaimedFits ==
  ASSUME NEW q, NEW s, NEW t, NEW b, NEW f, NEW c, RequestFits(q, s, t, b, f, c),
         Rows(s, t, b), q.pc = "reserving", NEW after \in {"granted", "over"}
  PROVE  LET p == Current(q)
             s1 == Added(s, p, Claim)
             t1 == Now(t, p, after) IN
         /\ s1[p] = Claim /\ t1[p] = after /\ t1[Key] = "new" /\ s1[Key] = 0
         /\ \A x \in Billable \ {p} : s1[x] = s[x] /\ t1[x] = t[x]
         /\ Everywhere(q, s1, t1, b, c) /\ Fresh(q, t1, b)
         /\ Untouched(q, q.hop + 1, t1)
  <1> DEFINE p == Current(q)
             s1 == Added(s, p, Claim)
             t1 == Now(t, p, after)
  <1>1. /\ q \in Records /\ Everywhere(q, s, t, b, c) /\ Fresh(q, t, b)
        /\ q.hop \in DOMAIN q.chain /\ p \in Billable \ q.skip
        /\ t[p] = "new" /\ s[p] = 0 /\ q.reserved[p] = 0
        /\ t[Key] = "new" /\ s[Key] = 0 /\ Untouched(q, q.hop + 1, t)
    BY AtReserving
  <1>2. p \in Ledgers /\ Key \in Ledgers /\ p # Key /\ Claim \in Nat \ {0}
    BY <1>1, Names, ClaimType
  <1>3. /\ s1[p] = Claim /\ t1[p] = after /\ t1[Key] = t[Key] /\ s1[Key] = s[Key]
        /\ \A x \in Billable \ {p} : s1[x] = s[x] /\ t1[x] = t[x]
    BY <1>1, <1>2 DEF Rows, Added, Now, Ledgers
  <1> HIDE DEF s1, t1
  <1>4. \A x \in Billable : ClaimFits(q, s1, t1, x)
    <2>1. ClaimFits(q, s1, t1, p)
      BY <1>1, <1>2, <1>3 DEF ClaimFits
    <2>2. ASSUME NEW x \in Billable \ {p} PROVE ClaimFits(q, s1, t1, x)
      BY <1>1, <1>3 DEF Everywhere, ClaimFits
    <2> QED BY <2>1, <2>2
  <1>5. KeyFits(q, s1, t1)
    BY <1>1, <1>3 DEF Everywhere, KeyFits
  <1>6. Everywhere(q, s1, t1, b, c)
    BY <1>1, <1>4, <1>5 DEF Everywhere
  <1>7. Fresh(q, t1, b)
    <2>1. t1[p] # "settled"
      BY <1>3
    <2> QED BY <1>1, <1>3, <2>1 DEF Fresh, NoneSettled
  <1>8. Untouched(q, q.hop + 1, t1)
    BY <1>1, <1>3, HopAlone DEF Untouched
  <1> QED BY <1>1, <1>3, <1>6, <1>7, <1>8 DEF s1, t1

WithClaim(q, p) == [q EXCEPT !.reserved[p] = @ + Claim]

LEMMA GrantedFits ==
  ASSUME NEW q, NEW s, NEW t, NEW b, NEW f, NEW c, RequestFits(q, s, t, b, f, c),
         Rows(s, t, b), q.pc = "reserving"
  PROVE  RequestFits(ReserveNext(WithClaim(q, Current(q))), Added(s, Current(q), Claim),
                     Now(t, Current(q), "granted"), b, f, c)
  <1> DEFINE p == Current(q)
             s1 == Added(s, p, Claim)
             t1 == Now(t, p, "granted")
             v == WithClaim(q, p)
  <1>1. /\ q \in Records /\ q.hop \in DOMAIN q.chain /\ p \in Billable \ q.skip
        /\ q.reserved[p] = 0 /\ t[Key] = "new" /\ Reached(q, q.hop - 1)
        /\ (f = 0 /\ c = 0 => Intact(q, s))
    BY AtReserving
  <1>2. /\ s1[p] = Claim /\ t1[p] = "granted" /\ t1[Key] = "new" /\ s1[Key] = 0
        /\ \A x \in Billable \ {p} : s1[x] = s[x] /\ t1[x] = t[x]
        /\ Everywhere(q, s1, t1, b, c) /\ Fresh(q, t1, b) /\ Untouched(q, q.hop + 1, t1)
    BY ClaimedFits
  <1>3. /\ v \in Records /\ v.pc = q.pc /\ v.hop = q.hop /\ v.chain = q.chain
        /\ v.kind = q.kind /\ v.outcome = q.outcome /\ v.skip = q.skip
        /\ v.reserved = [q.reserved EXCEPT ![p] = Claim]
        /\ v.served = q.served /\ v.actual = q.actual /\ v.settles = q.settles
        /\ v.counted = q.counted /\ v.held = q.held
    <2>1. q.reserved[p] + Claim = Claim /\ Claim \in 0..Claim
      BY <1>1, ClaimType
    <2> QED BY <1>1, <2>1 DEF Records, WithClaim
  <1> HIDE DEF v, s1, t1
  <1>4. /\ v.reserved[p] = Claim /\ \A x \in Billable \ {p} : v.reserved[x] = q.reserved[x]
    BY <1>1, <1>3 DEF Records
  <1>5. Everywhere(v, s1, t1, b, c)
    <2>1. \A x \in Billable : ClaimFits(v, s1, t1, x)
      <3>1. ClaimFits(v, s1, t1, p)
        BY <1>1, <1>2, <1>3, <1>4, HopAlone DEF ClaimFits
      <3>2. ASSUME NEW x \in Billable \ {p} PROVE ClaimFits(v, s1, t1, x)
        BY <1>2, <1>3, <1>4 DEF Everywhere, ClaimFits, Charge
      <3> QED BY <3>1, <3>2
    <2>2. KeyFits(v, s1, t1)
      BY <1>2 DEF KeyFits
    <2>3. ServedFits(v)
      BY <1>2, <1>3, Names DEF Everywhere, ServedFits, Fresh
    <2>4. BillFits(v, b) /\ CountFits(v, c)
      BY <1>2, <1>3, <1>4 DEF Everywhere, BillFits, CountFits
    <2> QED BY <2>1, <2>2, <2>3, <2>4 DEF Everywhere
  <1>6. Fresh(v, t1, b) /\ Untouched(v, v.hop + 1, t1)
    BY <1>2, <1>3 DEF Fresh, Untouched
  <1>7. Reached(v, v.hop)
    BY <1>1, <1>3, <1>4, HopAlone DEF Reached
  <1>8. f = 0 /\ c = 0 => Intact(v, s1)
    BY <1>1, <1>2, <1>4 DEF Intact
  <1>9. RequestFits(ReserveNext(v), s1, t1, b, f, c)
    BY <1>2, <1>3, <1>5, <1>6, <1>7, <1>8, ReserveNextFits
  <1> QED BY <1>9 DEF v, s1, t1

LEMMA OverCapFits ==
  ASSUME NEW q, NEW s, NEW t, NEW b, NEW f, NEW c, RequestFits(q, s, t, b, f, c),
         Rows(s, t, b), q.pc = "reserving"
  PROVE  RequestFits([q EXCEPT !.pc = "handing_back"], Added(s, Current(q), Claim),
                     Now(t, Current(q), "over"), b, f, c)
  <1> DEFINE p == Current(q)
             s1 == Added(s, p, Claim)
             t1 == Now(t, p, "over")
             v == MoveTo(q, "handing_back", q.hop)
  <1>1. /\ q \in Records /\ q.hop \in DOMAIN q.chain /\ p \in Billable \ q.skip
        /\ Reached(q, q.hop - 1) /\ (f = 0 /\ c = 0 => Intact(q, s))
    BY AtReserving
  <1>2. /\ t1[p] = "over" /\ t1[Key] = "new"
        /\ \A x \in Billable \ {p} : s1[x] = s[x] /\ t1[x] = t[x]
        /\ Everywhere(q, s1, t1, b, c) /\ Fresh(q, t1, b) /\ Untouched(q, q.hop + 1, t1)
    BY ClaimedFits
  <1>3. [q EXCEPT !.pc = "handing_back"] = v
    BY <1>1 DEF MoveTo, Records
  <1> HIDE DEF s1, t1
  <1>4. /\ v \in Records /\ Everywhere(v, s1, t1, b, c)
        /\ v.pc = "handing_back" /\ v.hop = q.hop /\ v.chain = q.chain
        /\ v.outcome = q.outcome /\ v.skip = q.skip /\ v.reserved = q.reserved
        /\ v.served = q.served /\ v.settles = q.settles
    <2>1. "handing_back" \in Points /\ q.hop \in Nat
      BY <1>1 DEF Points, Records
    <2> QED BY <1>1, <1>2, <2>1, MovesOn
  <1> HIDE DEF v
  <1>5. Current(v) = p
    BY <1>4 DEF Current
  <1>6. HandingBackFits(v, t1, b)
    BY <1>1, <1>2, <1>4, <1>5 DEF HandingBackFits, Fresh, Reached, Untouched
  <1>7. PointFits(v, s1, t1, b, c)
    BY <1>4, <1>6 DEF PointFits
  <1>8. f = 0 /\ c = 0 => QuietFits(v, s1)
    BY <1>1, <1>2, <1>4, <1>5 DEF QuietFits, ExceptHandingBack, Intact
  <1>9. RequestFits(v, s1, t1, b, f, c)
    BY <1>4, <1>7, <1>8 DEF RequestFits
  <1> QED BY <1>3, <1>9 DEF s1, t1

\* Nobody knows whether the claim is on the ledger.
LEMMA ReserveBrokenFits ==
  ASSUME NEW q, NEW s, NEW t, NEW b, NEW f, NEW c, RequestFits(q, s, t, b, f, c),
         Rows(s, t, b), q.pc = "reserving", ~ (f = 0 /\ c = 0)
  PROVE  /\ RequestFits(Unwind(q), s, t, b, f, c)
         /\ \A after \in {"granted", "over"} :
              RequestFits(Unwind(q), Added(s, Current(q), Claim),
                          Now(t, Current(q), after), b, f, c)
  <1>1. q \in Records /\ Everywhere(q, s, t, b, c) /\ Fresh(q, t, b)
    BY AtReserving
  <1>2. RequestFits(Unwind(q), s, t, b, f, c)
    BY <1>1, UnwindFits
  <1>3. ASSUME NEW after \in {"granted", "over"}
        PROVE  RequestFits(Unwind(q), Added(s, Current(q), Claim),
                           Now(t, Current(q), after), b, f, c)
    <2> DEFINE s1 == Added(s, Current(q), Claim)
               t1 == Now(t, Current(q), after)
    <2>1. Everywhere(q, s1, t1, b, c) /\ Fresh(q, t1, b)
      BY ClaimedFits
    <2> HIDE DEF s1, t1
    <2>2. RequestFits(Unwind(q), s1, t1, b, f, c)
      BY <1>1, <2>1, UnwindFits
    <2> QED BY <2>2 DEF s1, t1
  <1> QED BY <1>2, <1>3

\* The claim that a request is about to hand back.
LEMMA AtHandingBack ==
  ASSUME NEW q, NEW s, NEW t, NEW b, NEW f, NEW c, RequestFits(q, s, t, b, f, c),
         q.pc = "handing_back"
  PROVE  /\ q \in Records /\ Everywhere(q, s, t, b, c) /\ Fresh(q, t, b)
         /\ q.hop \in DOMAIN q.chain /\ Current(q) \in Billable \ q.skip
         /\ t[Current(q)] = "over" /\ s[Current(q)] = Claim /\ q.reserved[Current(q)] = 0
         /\ t[Key] = "new" /\ s[Key] = 0
         /\ Reached(q, q.hop - 1) /\ Untouched(q, q.hop + 1, t)
         /\ (f = 0 /\ c = 0 => \A p \in Billable \ {Current(q)} : s[p] = q.reserved[p])
  <1>1. /\ q \in Records /\ Everywhere(q, s, t, b, c) /\ HandingBackFits(q, t, b)
        /\ (f = 0 /\ c = 0 => QuietFits(q, s))
    BY DEF RequestFits, PointFits
  <1>2. /\ Fresh(q, t, b) /\ q.hop \in DOMAIN q.chain /\ Current(q) \in Billable \ q.skip
        /\ t[Current(q)] = "over"
        /\ t[Key] = "new" /\ Reached(q, q.hop - 1) /\ Untouched(q, q.hop + 1, t)
    BY <1>1 DEF HandingBackFits
  <1>3. s[Current(q)] = Claim /\ q.reserved[Current(q)] = 0
    BY <1>1, <1>2, ClaimType DEF Everywhere, ClaimFits
  <1>4. s[Key] = 0
    BY <1>1, <1>2 DEF Everywhere, KeyFits
  <1>5. f = 0 /\ c = 0 => \A p \in Billable \ {Current(q)} : s[p] = q.reserved[p]
    BY <1>1 DEF QuietFits, ExceptHandingBack
  <1> QED BY <1>1, <1>2, <1>3, <1>4, <1>5

LEMMA ReturnedFits ==
  ASSUME NEW q, NEW s, NEW t, NEW b, NEW f, NEW c, RequestFits(q, s, t, b, f, c),
         Rows(s, t, b), q.pc = "handing_back"
  PROVE  LET p == Current(q)
             s1 == Added(s, p, - Claim)
             t1 == Now(t, p, "returned") IN
         /\ s1[p] = 0 /\ t1[Key] = "new" /\ s1[Key] = 0
         /\ \A x \in Billable \ {p} : s1[x] = s[x] /\ t1[x] = t[x]
         /\ Everywhere(q, s1, t1, b, c) /\ Fresh(q, t1, b)
         /\ Untouched(q, q.hop + 1, t1)
  <1> DEFINE p == Current(q)
             s1 == Added(s, p, - Claim)
             t1 == Now(t, p, "returned")
  <1>1. /\ q \in Records /\ Everywhere(q, s, t, b, c) /\ Fresh(q, t, b)
        /\ q.hop \in DOMAIN q.chain /\ p \in Billable \ q.skip
        /\ t[p] = "over" /\ s[p] = Claim /\ q.reserved[p] = 0
        /\ t[Key] = "new" /\ s[Key] = 0 /\ Untouched(q, q.hop + 1, t)
    BY AtHandingBack
  <1>2. p \in Ledgers /\ Key \in Ledgers /\ p # Key /\ Claim \in Nat \ {0}
    BY <1>1, Names, ClaimType
  <1>3. /\ s1[p] = 0 /\ t1[p] = "returned" /\ t1[Key] = t[Key] /\ s1[Key] = s[Key]
        /\ \A x \in Billable \ {p} : s1[x] = s[x] /\ t1[x] = t[x]
    BY <1>1, <1>2 DEF Rows, Added, Now, Ledgers
  <1> HIDE DEF s1, t1
  <1>4. \A x \in Billable : ClaimFits(q, s1, t1, x)
    <2>1. ClaimFits(q, s1, t1, p)
      BY <1>1, <1>2, <1>3 DEF ClaimFits
    <2>2. ASSUME NEW x \in Billable \ {p} PROVE ClaimFits(q, s1, t1, x)
      BY <1>1, <1>3 DEF Everywhere, ClaimFits
    <2> QED BY <2>1, <2>2
  <1>5. KeyFits(q, s1, t1)
    BY <1>1, <1>3 DEF Everywhere, KeyFits
  <1>6. Everywhere(q, s1, t1, b, c)
    BY <1>1, <1>4, <1>5 DEF Everywhere
  <1>7. Fresh(q, t1, b)
    <2>1. t1[p] # "settled"
      BY <1>3
    <2> QED BY <1>1, <1>3, <2>1 DEF Fresh, NoneSettled
  <1>8. Untouched(q, q.hop + 1, t1)
    BY <1>1, <1>3, HopAlone DEF Untouched
  <1> QED BY <1>1, <1>3, <1>6, <1>7, <1>8 DEF s1, t1

Skipping(q, p) == [q EXCEPT !.skip = @ \cup {p}]

\* The provider is skipped from now on.
LEMMA SkipOn ==
  ASSUME NEW q \in Records, NEW s, NEW t, NEW b, NEW f, NEW c, Everywhere(q, s, t, b, c),
         Fresh(q, t, b), t[Key] = "new",
         q.hop \in DOMAIN q.chain, Current(q) \in Billable,
         Reached(q, q.hop - 1), Untouched(q, q.hop + 1, t),
         f = 0 /\ c = 0 => Intact(q, s)
  PROVE  RequestFits(ReserveNext(Skipping(q, Current(q))), s, t, b, f, c)
  <1> DEFINE v == Skipping(q, Current(q))
  <1>1. /\ v \in Records /\ v.pc = q.pc /\ v.hop = q.hop /\ v.chain = q.chain
        /\ v.kind = q.kind /\ v.outcome = q.outcome
        /\ v.skip = q.skip \cup {Current(q)} /\ v.reserved = q.reserved
        /\ v.served = q.served /\ v.actual = q.actual /\ v.settles = q.settles
        /\ v.counted = q.counted /\ v.held = q.held
    BY DEF Records, Skipping
  <1> HIDE DEF v
  <1>2. Everywhere(v, s, t, b, c)
    BY <1>1 DEF Everywhere, ClaimFits, KeyFits, ServedFits, BillFits, CountFits,
                Charge, Reserved
  <1>3. /\ Fresh(v, t, b) /\ Untouched(v, v.hop + 1, t)
        /\ (f = 0 /\ c = 0 => Intact(v, s))
    BY <1>1 DEF Fresh, Untouched, Intact
  <1>4. Reached(v, v.hop)
    BY <1>1, HopAlone DEF Reached
  <1>5. RequestFits(ReserveNext(v), s, t, b, f, c)
    BY <1>1, <1>2, <1>3, <1>4, ReserveNextFits
  <1> QED BY <1>5 DEF v

LEMMA HandedBackFits ==
  ASSUME NEW q, NEW s, NEW t, NEW b, NEW f, NEW c, RequestFits(q, s, t, b, f, c),
         Rows(s, t, b), q.pc = "handing_back"
  PROVE  /\ RequestFits(ReserveNext(Skipping(q, Current(q))), Added(s, Current(q), - Claim),
                        Now(t, Current(q), "returned"), b, f, c)
         /\ ~ (f = 0 /\ c = 0) =>
              RequestFits(ReserveNext(Skipping(q, Current(q))), s, t, b, f, c)
  <1> DEFINE p == Current(q)
             s1 == Added(s, p, - Claim)
             t1 == Now(t, p, "returned")
  <1>1. /\ q \in Records /\ Everywhere(q, s, t, b, c) /\ Fresh(q, t, b)
        /\ q.hop \in DOMAIN q.chain /\ p \in Billable \ q.skip
        /\ q.reserved[p] = 0 /\ t[Key] = "new"
        /\ Reached(q, q.hop - 1) /\ Untouched(q, q.hop + 1, t)
        /\ (f = 0 /\ c = 0 => \A x \in Billable \ {p} : s[x] = q.reserved[x])
    BY AtHandingBack
  <1>2. /\ s1[p] = 0 /\ t1[Key] = "new"
        /\ \A x \in Billable \ {p} : s1[x] = s[x] /\ t1[x] = t[x]
        /\ Everywhere(q, s1, t1, b, c) /\ Fresh(q, t1, b) /\ Untouched(q, q.hop + 1, t1)
    BY ReturnedFits
  <1> HIDE DEF s1, t1
  <1>3. f = 0 /\ c = 0 => Intact(q, s1)
    BY <1>1, <1>2 DEF Intact
  <1>4. RequestFits(ReserveNext(Skipping(q, p)), s1, t1, b, f, c)
    BY <1>1, <1>2, <1>3, SkipOn
  <1>5. ~ (f = 0 /\ c = 0) => RequestFits(ReserveNext(Skipping(q, p)), s, t, b, f, c)
    BY <1>1, SkipOn
  <1> QED BY <1>4, <1>5 DEF s1, t1

LEMMA HandBackCancelledFits ==
  ASSUME NEW q, NEW s, NEW t, NEW b, NEW f, NEW c, RequestFits(q, s, t, b, f, c),
         Rows(s, t, b), q.pc = "handing_back", ~ (f = 0 /\ c = 0)
  PROVE  /\ RequestFits(Unwind(q), s, t, b, f, c)
         /\ RequestFits(Unwind(q), Added(s, Current(q), - Claim),
                        Now(t, Current(q), "returned"), b, f, c)
  <1> DEFINE s1 == Added(s, Current(q), - Claim)
             t1 == Now(t, Current(q), "returned")
  <1>1. q \in Records /\ Everywhere(q, s, t, b, c) /\ Fresh(q, t, b)
    BY AtHandingBack
  <1>2. Everywhere(q, s1, t1, b, c) /\ Fresh(q, t1, b)
    BY ReturnedFits
  <1> HIDE DEF s1, t1
  <1>3. /\ RequestFits(Unwind(q), s, t, b, f, c)
        /\ RequestFits(Unwind(q), s1, t1, b, f, c)
    BY <1>1, <1>2, UnwindFits
  <1> QED BY <1>3 DEF s1, t1

-----------------------------------------------------------------------------
(* The key's claim *)

LEMMA AtKeyClaim ==
  ASSUME NEW q, NEW s, NEW t, NEW b, NEW f, NEW c, RequestFits(q, s, t, b, f, c),
         q.pc \in {"key_reserving", "key_handing_back"}
  PROVE  /\ q \in Records /\ Everywhere(q, s, t, b, c) /\ Fresh(q, t, b)
         /\ Reached(q, Len(q.chain)) /\ Reserved(q) \in Nat /\ Reserved(q) > 0
         /\ Reserved(q) <= Most
         /\ IF q.pc = "key_reserving" THEN t[Key] = "new" /\ s[Key] = 0
            ELSE t[Key] = "over" /\ s[Key] = Reserved(q)
         /\ (f = 0 /\ c = 0 => Intact(q, s))
  <1>1. /\ q \in Records /\ Everywhere(q, s, t, b, c) /\ KeyReservingFits(q, t, b)
        /\ (f = 0 /\ c = 0 => QuietFits(q, s))
        /\ IF q.pc = "key_reserving" THEN t[Key] = "new" ELSE t[Key] = "over"
    BY DEF RequestFits, PointFits
  <1>2. Fresh(q, t, b) /\ Reached(q, Len(q.chain)) /\ Reserved(q) > 0
    BY <1>1 DEF KeyReservingFits
  <1>3. Reserved(q) \in Nat /\ Reserved(q) <= Most
    <2>1. Reserved(q) \in 0..Most /\ Most \in Nat
      BY <1>1, ReservedCovers
    <2> QED BY <2>1
  <1>4. IF q.pc = "key_reserving" THEN t[Key] = "new" /\ s[Key] = 0
        ELSE t[Key] = "over" /\ s[Key] = Reserved(q)
    BY <1>1 DEF Everywhere, KeyFits
  <1>5. f = 0 /\ c = 0 => Intact(q, s)
    BY <1>1 DEF QuietFits, ExceptHandingBack, Intact
  <1> QED BY <1>1, <1>2, <1>3, <1>4, <1>5

\* A command on the key's ledger changes nothing of the providers'.
LEMMA KeyMovesOn ==
  ASSUME NEW q, NEW s, NEW t, NEW b, NEW c, Everywhere(q, s, t, b, c), Rows(s, t, b),
         NEW d, NEW after,
         KeyFits(q, Added(s, Key, d), Now(t, Key, after))
  PROVE  LET s1 == Added(s, Key, d)
             t1 == Now(t, Key, after) IN
         /\ s1[Key] = s[Key] + d /\ t1[Key] = after
         /\ \A p \in Billable : s1[p] = s[p] /\ t1[p] = t[p]
         /\ Everywhere(q, s1, t1, b, c)
         /\ Fresh(q, t, b) => Fresh(q, t1, b)
         /\ NoneSettled(t) => NoneSettled(t1)
         /\ Intact(q, s) => Intact(q, s1)
         /\ Charged(q, s) => Charged(q, s1)
  <1> DEFINE s1 == Added(s, Key, d)
             t1 == Now(t, Key, after)
  <1>1. /\ s1[Key] = s[Key] + d /\ t1[Key] = after
        /\ \A p \in Billable : s1[p] = s[p] /\ t1[p] = t[p]
    BY Names DEF Rows, Added, Now
  <1> HIDE DEF s1, t1
  <1>2. Everywhere(q, s1, t1, b, c)
    BY <1>1 DEF Everywhere, ClaimFits, s1, t1
  <1>3. /\ Fresh(q, t, b) => Fresh(q, t1, b)
        /\ NoneSettled(t) => NoneSettled(t1)
        /\ Intact(q, s) => Intact(q, s1)
        /\ Charged(q, s) => Charged(q, s1)
    BY <1>1 DEF Fresh, NoneSettled, Intact, Charged
  <1> QED BY <1>1, <1>2, <1>3 DEF s1, t1

LEMMA KeyClaimedFits ==
  ASSUME NEW q, NEW s, NEW t, NEW b, NEW f, NEW c, RequestFits(q, s, t, b, f, c),
         Rows(s, t, b), q.pc = "key_reserving", NEW after \in {"granted", "over"}
  PROVE  LET s1 == Added(s, Key, Reserved(q))
             t1 == Now(t, Key, after) IN
         /\ Everywhere(q, s1, t1, b, c) /\ Fresh(q, t1, b) /\ t1[Key] = after
         /\ NoneSettled(t1) /\ (f = 0 /\ c = 0 => Intact(q, s1))
  <1> DEFINE s1 == Added(s, Key, Reserved(q))
             t1 == Now(t, Key, after)
  <1>1. /\ q \in Records /\ Everywhere(q, s, t, b, c) /\ Fresh(q, t, b)
        /\ Reserved(q) \in Nat /\ s[Key] = 0
        /\ (f = 0 /\ c = 0 => Intact(q, s))
    BY AtKeyClaim
  <1>2. KeyFits(q, s1, t1)
    <2>1. s1[Key] = Reserved(q) /\ t1[Key] = after
      BY <1>1, Names DEF Rows, Added, Now
    <2> HIDE DEF s1, t1
    <2> QED BY <2>1 DEF KeyFits
  <1>3. /\ Everywhere(q, s1, t1, b, c) /\ Fresh(q, t1, b) /\ t1[Key] = after
        /\ (f = 0 /\ c = 0 => Intact(q, s1))
    BY <1>1, <1>2, KeyMovesOn
  <1> QED BY <1>3 DEF Fresh

LEMMA KeyGrantedFits ==
  ASSUME NEW q, NEW s, NEW t, NEW b, NEW f, NEW c, RequestFits(q, s, t, b, f, c),
         Rows(s, t, b), q.pc = "key_reserving"
  PROVE  RequestFits(Admit(q), Added(s, Key, Reserved(q)), Now(t, Key, "granted"), b, f, c)
  <1> DEFINE s1 == Added(s, Key, Reserved(q))
             t1 == Now(t, Key, "granted")
  <1>1. q \in Records /\ Reached(q, Len(q.chain))
    BY AtKeyClaim
  <1>2. /\ Everywhere(q, s1, t1, b, c) /\ Fresh(q, t1, b) /\ t1[Key] = "granted"
        /\ NoneSettled(t1) /\ (f = 0 /\ c = 0 => Intact(q, s1))
    BY KeyClaimedFits
  <1> HIDE DEF s1, t1
  <1>3. Admitted(q, t1)
    BY <1>1, <1>2 DEF Admitted, KeyHeld, Fresh
  <1>4. RequestFits(Admit(q), s1, t1, b, f, c)
    BY <1>1, <1>2, <1>3, AdmitFits
  <1> QED BY <1>4 DEF s1, t1

LEMMA KeyOverCapFits ==
  ASSUME NEW q, NEW s, NEW t, NEW b, NEW f, NEW c, RequestFits(q, s, t, b, f, c),
         Rows(s, t, b), q.pc = "key_reserving"
  PROVE  RequestFits([q EXCEPT !.pc = "key_handing_back"],
                     Added(s, Key, Reserved(q)), Now(t, Key, "over"), b, f, c)
  <1> DEFINE s1 == Added(s, Key, Reserved(q))
             t1 == Now(t, Key, "over")
             v == MoveTo(q, "key_handing_back", q.hop)
  <1>1. q \in Records /\ Reached(q, Len(q.chain)) /\ Reserved(q) > 0
    BY AtKeyClaim
  <1>2. /\ Everywhere(q, s1, t1, b, c) /\ Fresh(q, t1, b) /\ t1[Key] = "over"
        /\ (f = 0 /\ c = 0 => Intact(q, s1))
    BY KeyClaimedFits
  <1>3. [q EXCEPT !.pc = "key_handing_back"] = v
    BY <1>1 DEF MoveTo, Records
  <1> HIDE DEF s1, t1
  <1>4. /\ v \in Records /\ Everywhere(v, s1, t1, b, c)
        /\ v.pc = "key_handing_back" /\ v.hop = q.hop /\ v.chain = q.chain
        /\ v.outcome = q.outcome /\ v.skip = q.skip /\ v.reserved = q.reserved
        /\ v.served = q.served /\ v.settles = q.settles /\ Reserved(v) = Reserved(q)
    <2>1. "key_handing_back" \in Points /\ q.hop \in Nat
      BY <1>1 DEF Points, Records
    <2> QED BY <1>1, <1>2, <2>1, MovesOn
  <1> HIDE DEF v
  <1>5. KeyReservingFits(v, t1, b)
    BY <1>1, <1>2, <1>4 DEF KeyReservingFits, Fresh, Reached
  <1>6. PointFits(v, s1, t1, b, c)
    BY <1>2, <1>4, <1>5 DEF PointFits
  <1>7. f = 0 /\ c = 0 => QuietFits(v, s1)
    BY <1>2, <1>4 DEF QuietFits, ExceptHandingBack, Intact
  <1>8. RequestFits(v, s1, t1, b, f, c)
    BY <1>4, <1>6, <1>7 DEF RequestFits
  <1> QED BY <1>3, <1>8 DEF s1, t1

LEMMA KeyReserveBrokenFits ==
  ASSUME NEW q, NEW s, NEW t, NEW b, NEW f, NEW c, RequestFits(q, s, t, b, f, c),
         Rows(s, t, b), q.pc = "key_reserving", ~ (f = 0 /\ c = 0)
  PROVE  /\ RequestFits(Unwind(q), s, t, b, f, c)
         /\ \A after \in {"granted", "over"} :
              RequestFits(Unwind(q), Added(s, Key, Reserved(q)), Now(t, Key, after), b, f, c)
  <1>1. q \in Records /\ Everywhere(q, s, t, b, c) /\ Fresh(q, t, b)
    BY AtKeyClaim
  <1>2. RequestFits(Unwind(q), s, t, b, f, c)
    BY <1>1, UnwindFits
  <1>3. ASSUME NEW after \in {"granted", "over"}
        PROVE  RequestFits(Unwind(q), Added(s, Key, Reserved(q)), Now(t, Key, after), b, f, c)
    <2> DEFINE s1 == Added(s, Key, Reserved(q))
               t1 == Now(t, Key, after)
    <2>1. Everywhere(q, s1, t1, b, c) /\ Fresh(q, t1, b)
      BY KeyClaimedFits
    <2> HIDE DEF s1, t1
    <2>2. RequestFits(Unwind(q), s1, t1, b, f, c)
      BY <1>1, <2>1, UnwindFits
    <2> QED BY <2>2 DEF s1, t1
  <1> QED BY <1>2, <1>3

LEMMA KeyHandedBackFits ==
  ASSUME NEW q, NEW s, NEW t, NEW b, NEW f, NEW c, RequestFits(q, s, t, b, f, c),
         Rows(s, t, b), q.pc = "key_handing_back"
  PROVE  /\ RequestFits(Unwind(q), Added(s, Key, - Reserved(q)),
                        Now(t, Key, "returned"), b, f, c)
         /\ ~ (f = 0 /\ c = 0) => RequestFits(Unwind(q), s, t, b, f, c)
  <1> DEFINE s1 == Added(s, Key, - Reserved(q))
             t1 == Now(t, Key, "returned")
  <1>1. /\ q \in Records /\ Everywhere(q, s, t, b, c) /\ Fresh(q, t, b)
        /\ Reserved(q) \in Nat /\ s[Key] = Reserved(q)
        /\ (f = 0 /\ c = 0 => Intact(q, s))
    BY AtKeyClaim
  <1>2. s1[Key] = 0 /\ t1[Key] = "returned"
    BY <1>1, Names DEF Rows, Added, Now
  <1>3. KeyFits(q, s1, t1)
    <2> HIDE DEF s1, t1
    <2> QED BY <1>2 DEF KeyFits
  <1>4. /\ Everywhere(q, s1, t1, b, c) /\ Fresh(q, t1, b)
        /\ (f = 0 /\ c = 0 => Intact(q, s1))
    BY <1>1, <1>3, KeyMovesOn
  <1> HIDE DEF s1, t1
  <1>5. RequestFits(Unwind(q), s1, t1, b, f, c)
    BY <1>1, <1>2, <1>4, UnwindFits
  <1>6. ~ (f = 0 /\ c = 0) => RequestFits(Unwind(q), s, t, b, f, c)
    BY <1>1, UnwindFits
  <1> QED BY <1>5, <1>6 DEF s1, t1

-----------------------------------------------------------------------------
(* The router's answers *)

LEMMA AtRouter ==
  ASSUME NEW q, NEW s, NEW t, NEW b, NEW f, NEW c, RequestFits(q, s, t, b, f, c),
         Rows(s, t, b), q.pc \in {"calling", "streaming"}
  PROVE  /\ q \in Records /\ Everywhere(q, s, t, b, c) /\ RouterFits(q, t, b)
         /\ Admitted(q, t) /\ q.outcome = "none" /\ q.settles = 0 /\ q.counted = 0
         /\ q.hop \in DOMAIN q.chain /\ Current(q) \in Hops(q.chain)
         /\ Current(q) \in Providers
         /\ Current(q) \in Billable => q.reserved[Current(q)] = Claim
         /\ (q.pc = "streaming" => q.kind # "chat" /\ q.served # Nobody)
         /\ (f = 0 /\ c = 0 => Intact(q, s))
  <1>1. /\ q \in Records /\ Everywhere(q, s, t, b, c) /\ RouterFits(q, t, b)
        /\ (f = 0 /\ c = 0 => QuietFits(q, s))
        /\ (q.pc = "streaming" => q.kind # "chat" /\ q.served # Nobody)
    BY DEF RequestFits, PointFits
  <1>2. /\ Admitted(q, t) /\ q.outcome = "none" /\ q.settles = 0 /\ q.counted = 0
        /\ q.hop \in DOMAIN q.chain /\ Current(q) \notin q.skip
        /\ Reached(q, Len(q.chain))
    BY <1>1 DEF RouterFits, Admitted, Everywhere, CountFits
  <1>3. Current(q) \in Hops(q.chain)
    BY <1>1, <1>2, HopAlone
  <1>4. /\ Hops(q.chain) = UpTo(q.chain, Len(q.chain)) /\ Hops(q.chain) \subseteq Providers
    BY <1>1, ChainType DEF Records
  <1>5. Current(q) \in Billable => q.reserved[Current(q)] = Claim
    BY <1>2, <1>3, <1>4 DEF Reached
  <1>6. f = 0 /\ c = 0 => Intact(q, s)
    BY <1>1 DEF QuietFits, ExceptHandingBack, Intact
  <1> QED BY <1>1, <1>2, <1>3, <1>4, <1>5, <1>6

\* The provider of the hop bills one attempt, or nothing.
BilledOnce(q, b, b1) ==
  b1 = b \/ (Current(q) \in Billable /\ \E usd \in 0..Worst : b1 = Added(b, Current(q), usd))

LEMMA BilledFits ==
  ASSUME NEW q, NEW s, NEW t, NEW b, NEW f, NEW c, RequestFits(q, s, t, b, f, c),
         Rows(s, t, b), q.pc \in {"calling", "streaming"}, NEW b1, BilledOnce(q, b, b1)
  PROVE  /\ b1 \in [Billable -> 0..Claim] /\ Everywhere(q, s, t, b1, c)
         /\ Unbilled(q, b1)
         /\ Current(q) \in Billable => b1[Current(q)] <= Worst * (q.retry + 1)
  <1> DEFINE p == Current(q)
  <1>1. /\ q \in Records /\ Everywhere(q, s, t, b, c) /\ RouterFits(q, t, b)
        /\ q.hop \in DOMAIN q.chain
        /\ p \in Billable => q.reserved[p] = Claim
    BY AtRouter
  <1>2. /\ Worst \in Nat /\ Claim \in Nat /\ q.retry \in 0..Retries
        /\ Worst * q.retry \in Nat
        /\ Worst * q.retry + Worst <= Claim
        /\ Worst * (q.retry + 1) = Worst * q.retry + Worst
    BY <1>1, ClaimType DEF Records
  <1>3. /\ p \in Billable => b[p] <= Worst * q.retry
        /\ Unbilled(q, b)
    BY <1>1 DEF RouterFits, Unbilled
  <1>4. b \in [Billable -> 0..Claim]
    BY DEF Rows
  <1>5. CASE b1 = b
    <2>1. p \in Billable => b[p] \in 0..Claim
      BY <1>4
    <2>2. p \in Billable => b[p] <= Worst * (q.retry + 1)
      <3> HIDE DEF p
      <3> QED BY <1>2, <1>3, <2>1
    <2> QED BY <1>1, <1>3, <1>4, <1>5, <2>2
  <1>6. CASE p \in Billable /\ \E usd \in 0..Worst : b1 = Added(b, p, usd)
    <2>1. PICK usd \in 0..Worst : b1 = Added(b, p, usd)
      BY <1>6
    <2>2. /\ b1[p] = b[p] + usd /\ DOMAIN b1 = Billable
          /\ b1 = [b EXCEPT ![p] = b[p] + usd]
          /\ \A x \in Billable \ {p} : b1[x] = b[x]
      BY <1>4, <1>6, <2>1 DEF Added
    <2>3. b[p] \in 0..Claim
      BY <1>4, <1>6
    <2>4. b[p] + usd \in 0..Claim /\ b[p] + usd <= Worst * (q.retry + 1)
      <3>1. b[p] <= Worst * q.retry
        BY <1>3, <1>6
      <3> QED BY <1>2, <2>3, <3>1
    <2>5. b1 \in [Billable -> 0..Claim]
      BY <1>4, <1>6, <2>2, <2>4
    <2>6. BillFits(q, b1)
      BY <1>1, <1>6, <2>2 DEF Everywhere, BillFits
    <2>7. Unbilled(q, b1)
      BY <1>1, <1>3, <2>2, HopAlone DEF Unbilled
    <2> QED BY <1>1, <2>2, <2>4, <2>5, <2>6, <2>7 DEF Everywhere
  <1> QED BY <1>5, <1>6 DEF BilledOnce

LEMMA RespondFits ==
  ASSUME NEW q, NEW s, NEW t, NEW b, NEW f, NEW c, RequestFits(q, s, t, b, f, c),
         q.pc = "responding"
  PROVE  RequestFits(CallNext(q), s, t, b, f, c)
  <1>1. /\ q \in Records /\ Everywhere(q, s, t, b, c) /\ Fresh(q, t, b) /\ Admitted(q, t)
        /\ (f = 0 /\ c = 0 => QuietFits(q, s))
    BY DEF RequestFits, PointFits
  <1>2. /\ q.outcome = "none" /\ Unbilled(q, b)
        /\ (f = 0 /\ c = 0 => Intact(q, s))
    BY <1>1 DEF Fresh, Unbilled, QuietFits, ExceptHandingBack, Intact
  <1> QED BY <1>1, <1>2, CallNextFits

\* On to the next hop, whatever this one has billed.
LEMMA NextCallFits ==
  ASSUME NEW q, NEW s, NEW t, NEW b, NEW f, NEW c, RequestFits(q, s, t, b, f, c),
         Rows(s, t, b), q.pc \in {"calling", "streaming"}, NEW b1, BilledOnce(q, b, b1)
  PROVE  RequestFits(CallNext(q), s, t, b1, f, c) /\ RequestFits(AllFailed(q), s, t, b1, f, c)
  <1>1. /\ q \in Records /\ Admitted(q, t) /\ q.outcome = "none"
        /\ (f = 0 /\ c = 0 => Intact(q, s))
    BY AtRouter
  <1>2. Everywhere(q, s, t, b1, c) /\ Unbilled(q, b1)
    BY BilledFits
  <1> QED BY <1>1, <1>2, CallNextFits, AllFailedFits

LEMMA RetryFits ==
  ASSUME NEW q, NEW s, NEW t, NEW b, NEW f, NEW c, RequestFits(q, s, t, b, f, c),
         Rows(s, t, b), q.pc = "calling", NEW b1, BilledOnce(q, b, b1), q.retry < Retries
  PROVE  RequestFits([q EXCEPT !.retry = @ + 1], s, t, b1, f, c)
  <1> DEFINE v == [q EXCEPT !.retry = @ + 1]
  <1>1. /\ q \in Records /\ RouterFits(q, t, b) /\ Admitted(q, t) /\ q.outcome = "none"
        /\ q.hop \in DOMAIN q.chain
        /\ (f = 0 /\ c = 0 => Intact(q, s))
    BY AtRouter
  <1>2. /\ Everywhere(q, s, t, b1, c) /\ Unbilled(q, b1)
        /\ Current(q) \in Billable => b1[Current(q)] <= Worst * (q.retry + 1)
    BY BilledFits
  <1>3. q.retry + 1 \in 0..Retries
    BY <1>1, PathAssumption DEF Records
  <1>4. /\ v \in Records /\ v.pc = q.pc /\ v.hop = q.hop /\ v.chain = q.chain
        /\ v.kind = q.kind /\ v.outcome = q.outcome /\ v.skip = q.skip
        /\ v.reserved = q.reserved /\ v.retry = q.retry + 1
        /\ v.served = q.served /\ v.actual = q.actual /\ v.settles = q.settles
        /\ v.counted = q.counted /\ v.held = q.held
    BY <1>1, <1>3 DEF Records
  <1> HIDE DEF v
  <1>5. Everywhere(v, s, t, b1, c) /\ Reserved(v) = Reserved(q) /\ Current(v) = Current(q)
    BY <1>2, <1>4 DEF Everywhere, ClaimFits, KeyFits, ServedFits, BillFits, CountFits,
                Charge, Reserved, Current
  <1>6. Admitted(v, t)
    BY <1>1, <1>4, <1>5 DEF Admitted, KeyHeld, Reached
  <1>7. RouterFits(v, t, b1)
    BY <1>1, <1>2, <1>4, <1>5, <1>6 DEF RouterFits, Unbilled
  <1>8. PointFits(v, s, t, b1, c)
    BY <1>4, <1>7 DEF PointFits
  <1>9. f = 0 /\ c = 0 => QuietFits(v, s)
    BY <1>1, <1>4 DEF QuietFits, ExceptHandingBack, Intact
  <1>10. RequestFits(v, s, t, b1, f, c)
    BY <1>4, <1>5, <1>8, <1>9 DEF RequestFits
  <1> QED BY <1>10 DEF v

LEMMA FirstChunkFits ==
  ASSUME NEW q, NEW s, NEW t, NEW b, NEW f, NEW c, RequestFits(q, s, t, b, f, c),
         Rows(s, t, b), q.pc = "calling", q.kind # "chat", NEW usd \in 0..Claim
  PROVE  RequestFits([q EXCEPT !.pc = "streaming", !.served = Current(q), !.estimate = usd],
                     s, t, b, f, c)
  <1> DEFINE v == [q EXCEPT !.pc = "streaming", !.served = Current(q), !.estimate = usd]
  <1>1. /\ q \in Records /\ Everywhere(q, s, t, b, c) /\ RouterFits(q, t, b)
        /\ Admitted(q, t) /\ q.outcome = "none" /\ q.settles = 0
        /\ Current(q) \in Hops(q.chain) /\ Current(q) \in Providers
        /\ Current(q) \in Billable => q.reserved[Current(q)] = Claim
        /\ (f = 0 /\ c = 0 => Intact(q, s))
    BY AtRouter
  <1>2. /\ v \in Records /\ v.pc = "streaming" /\ v.hop = q.hop /\ v.chain = q.chain
        /\ v.kind = q.kind /\ v.outcome = q.outcome /\ v.skip = q.skip
        /\ v.reserved = q.reserved /\ v.retry = q.retry
        /\ v.served = Current(q) /\ v.actual = q.actual /\ v.settles = q.settles
        /\ v.counted = q.counted /\ v.held = q.held
    <2>1. "streaming" \in Points
      BY DEF Points
    <2> QED BY <1>1, <2>1 DEF Records
  <1> HIDE DEF v
  <1>3. Reserved(v) = Reserved(q) /\ Current(v) = Current(q)
    BY <1>2 DEF Reserved, Current
  <1>4. q.actual = 0
    BY <1>1 DEF Everywhere, ServedFits
  <1>5. Everywhere(v, s, t, b, c)
    <2>1. \A p \in Billable : ClaimFits(v, s, t, p)
      BY <1>1, <1>2 DEF Everywhere, ClaimFits, Admitted, NoneSettled
    <2>2. KeyFits(v, s, t)
      BY <1>1, <1>2, <1>3 DEF Everywhere, KeyFits
    <2>3. ServedFits(v)
      BY <1>1, <1>2, <1>4, ClaimType DEF ServedFits
    <2>4. BillFits(v, b) /\ CountFits(v, c)
      BY <1>1, <1>2 DEF Everywhere, BillFits, CountFits
    <2> QED BY <2>1, <2>2, <2>3, <2>4 DEF Everywhere
  <1>6. Admitted(v, t)
    BY <1>1, <1>2, <1>3 DEF Admitted, KeyHeld, Reached
  <1>7. RouterFits(v, t, b)
    BY <1>1, <1>2, <1>3, <1>6 DEF RouterFits
  <1>8. PointFits(v, s, t, b, c)
    BY <1>1, <1>2, <1>7, Names DEF PointFits
  <1>9. f = 0 /\ c = 0 => QuietFits(v, s)
    BY <1>1, <1>2 DEF QuietFits, ExceptHandingBack, Intact
  <1>10. RequestFits(v, s, t, b, f, c)
    BY <1>2, <1>5, <1>8, <1>9 DEF RequestFits
  <1> QED BY <1>10 DEF v

\* The answer, counted at once or after the bookkeeping, and its cost.
LEMMA AnswerFits ==
  ASSUME NEW q, NEW s, NEW t, NEW b, NEW f, NEW c, RequestFits(q, s, t, b, f, c),
         Rows(s, t, b), q.pc \in {"calling", "streaming"}, NEW b1, BilledOnce(q, b, b1),
         NEW usd \in 0..Worst, usd > 0 => Current(q) \in Billable,
         NEW n \in 0..1, n = IF q.kind = "chat" THEN 1 ELSE 0
  PROVE  RequestFits(SettleChain(Mark(q, "served", n), Current(q), usd), s, t, b1, f, c)
  <1> DEFINE v == Mark(q, "served", n)
  <1>1. /\ q \in Records /\ Admitted(q, t) /\ q.settles = 0
        /\ Current(q) \in Hops(q.chain) /\ Current(q) \in Providers
        /\ Current(q) \in Billable => q.reserved[Current(q)] = Claim
        /\ (f = 0 /\ c = 0 => Intact(q, s))
    BY AtRouter
  <1>2. Everywhere(q, s, t, b1, c)
    BY BilledFits
  <1>3. /\ v \in Records /\ Everywhere(v, s, t, b1, c) /\ v.chain = q.chain
        /\ v.kind = q.kind /\ v.outcome = "served" /\ v.reserved = q.reserved
        /\ v.settles = q.settles /\ v.counted = n /\ Reserved(v) = Reserved(q)
    <2>1. "served" \in Outcomes
      BY DEF Outcomes
    <2> QED BY <1>1, <1>2, <2>1, MarksOn
  <1> HIDE DEF v
  <1>4. /\ NoneSettled(t) /\ KeyHeld(v, t) /\ v.settles = 0
        /\ (f = 0 /\ c = 0 => Intact(v, s))
    BY <1>1, <1>3 DEF Admitted, KeyHeld, Intact
  <1>5. v.counted = IF CountsLate(v) \/ CountsAfterSettle(v) THEN 0 ELSE 1
    BY <1>3 DEF CountsLate, CountsAfterSettle
  <1>6. v.outcome # "none" /\ ~Uncounted(v)
    BY <1>3 DEF Uncounted
  <1>7. /\ usd \in 0..Claim /\ Current(q) # Nobody
        /\ Current(q) \in Hops(v.chain) \cup {Nobody}
        /\ Current(q) \in Billable => v.reserved[Current(q)] = Claim
    BY <1>1, <1>3, Names, ClaimType
  <1>8. RequestFits(SettleChain(v, Current(q), usd), s, t, b1, f, c)
    BY <1>3, <1>4, <1>5, <1>6, <1>7, SettleChainFits
  <1> QED BY <1>8 DEF v

\* An error or a cancellation that ends a request of the router.
LEMMA BrokenFits ==
  ASSUME NEW q, NEW s, NEW t, NEW b, NEW f, NEW c, RequestFits(q, s, t, b, f, c),
         Rows(s, t, b), q.pc \in {"calling", "streaming"}, NEW b1, BilledOnce(q, b, b1),
         ~ (f = 0 /\ c = 0), NEW o \in {"crashed", "aborted"}, o = "aborted" => c # 0
  PROVE  /\ o = "aborted" \/ q.kind = "chat"
              => RequestFits(Done(Mark(q, o, 0)), s, t, b1, f, c)
         /\ q.kind # "chat" => RequestFits(SettleOnAbort(Mark(q, o, 1)), s, t, b1, f, c)
  <1>1. q \in Records /\ Admitted(q, t) /\ q.settles = 0
    BY AtRouter
  <1>2. Everywhere(q, s, t, b1, c)
    BY BilledFits
  <1>3. ASSUME NEW n \in 0..1
        PROVE  LET v == Mark(q, o, n) IN
               /\ v \in Records /\ Everywhere(v, s, t, b1, c)
               /\ v.kind = q.kind /\ v.outcome = o /\ v.settles = 0 /\ v.counted = n
               /\ Reserved(v) = Reserved(q)
    <2>1. o \in Outcomes /\ o \notin {"none", "refused"}
      BY DEF Outcomes
    <2> QED BY <1>1, <1>2, <2>1, MarksOn
  <1>4. ASSUME o = "aborted" \/ q.kind = "chat"
        PROVE  RequestFits(Done(Mark(q, o, 0)), s, t, b1, f, c)
    <2> DEFINE v == Mark(q, o, 0)
    <2>1. /\ v \in Records /\ Everywhere(v, s, t, b1, c)
          /\ v.kind = q.kind /\ v.outcome = o /\ v.settles = 0 /\ v.counted = 0
      BY <1>3
    <2> HIDE DEF v
    <2>2. c = 0 => v.counted = IF Uncounted(v) THEN 0 ELSE 1
      BY <1>4, <2>1 DEF Uncounted
    <2>3. RequestFits(Done(v), s, t, b1, f, c)
      BY <2>1, <2>2, DoneFits
    <2> QED BY <2>3 DEF v
  <1>5. ASSUME q.kind # "chat"
        PROVE  RequestFits(SettleOnAbort(Mark(q, o, 1)), s, t, b1, f, c)
    <2> DEFINE v == Mark(q, o, 1)
    <2>1. /\ v \in Records /\ Everywhere(v, s, t, b1, c) /\ v.kind # "chat"
          /\ v.outcome = o /\ v.settles = 0 /\ v.counted = 1 /\ Reserved(v) = Reserved(q)
      BY <1>3, <1>5
    <2> HIDE DEF v
    <2>2. NoneSettled(t) /\ KeyHeld(v, t) /\ ~CountsLate(v)
      BY <1>1, <2>1 DEF Admitted, KeyHeld, CountsLate
    <2>3. RequestFits(SettleOnAbort(v), s, t, b1, f, c)
      BY <2>1, <2>2, SettleOnAbortFits
    <2> QED BY <2>3 DEF v
  <1> QED BY <1>4, <1>5

\* An error after the last chunk, before the settlement.
LEMMA TailFits ==
  ASSUME NEW q, NEW s, NEW t, NEW b, NEW f, NEW c, RequestFits(q, s, t, b, f, c),
         Rows(s, t, b), q.pc = "streaming", NEW b1, BilledOnce(q, b, b1),
         ~ (f = 0 /\ c = 0)
  PROVE  /\ RequestFits(SettleOnAbort(Mark(q, "unbooked", 0)), s, t, b1, f, c)
         /\ RequestFits(Done(Mark(q, "unbooked", 1)), s, t, b1, f, c)
  <1>1. /\ q \in Records /\ Admitted(q, t) /\ q.settles = 0
        /\ q.kind # "chat" /\ q.served # Nobody
    BY AtRouter
  <1>2. Everywhere(q, s, t, b1, c)
    BY BilledFits
  <1>3. ASSUME NEW n \in 0..1
        PROVE  LET v == Mark(q, "unbooked", n) IN
               /\ v \in Records /\ Everywhere(v, s, t, b1, c)
               /\ v.kind = q.kind /\ v.outcome = "unbooked" /\ v.settles = 0
               /\ v.served = q.served /\ v.counted = n /\ Reserved(v) = Reserved(q)
    <2>1. "unbooked" \in Outcomes
      BY DEF Outcomes
    <2> QED BY <1>1, <1>2, <2>1, MarksOn
  <1>4. RequestFits(SettleOnAbort(Mark(q, "unbooked", 0)), s, t, b1, f, c)
    <2> DEFINE v == Mark(q, "unbooked", 0)
    <2>1. /\ v \in Records /\ Everywhere(v, s, t, b1, c) /\ v.kind # "chat"
          /\ v.outcome = "unbooked" /\ v.settles = 0 /\ v.served # Nobody
          /\ v.counted = 0 /\ Reserved(v) = Reserved(q)
      BY <1>1, <1>3
    <2> HIDE DEF v
    <2>2. NoneSettled(t) /\ KeyHeld(v, t) /\ CountsLate(v)
      BY <1>1, <2>1 DEF Admitted, KeyHeld, CountsLate
    <2>3. RequestFits(SettleOnAbort(v), s, t, b1, f, c)
      BY <2>1, <2>2, SettleOnAbortFits
    <2> QED BY <2>3 DEF v
  <1>5. RequestFits(Done(Mark(q, "unbooked", 1)), s, t, b1, f, c)
    <2> DEFINE v == Mark(q, "unbooked", 1)
    <2>1. /\ v \in Records /\ Everywhere(v, s, t, b1, c)
          /\ v.outcome = "unbooked" /\ v.settles = 0 /\ v.counted = 1
      BY <1>3
    <2> HIDE DEF v
    <2>2. ~Uncounted(v)
      BY <2>1 DEF Uncounted
    <2>3. RequestFits(Done(v), s, t, b1, f, c)
      BY <2>1, <2>2, DoneFits
    <2> QED BY <2>3 DEF v
  <1> QED BY <1>4, <1>5

\* Before its generator has started nothing handles a cancellation.
LEMMA NotStartedFits ==
  ASSUME NEW q, NEW s, NEW t, NEW b, NEW f, NEW c, RequestFits(q, s, t, b, f, c),
         q.pc = "responding", c # 0
  PROVE  RequestFits(Done([q EXCEPT !.outcome = "aborted"]), s, t, b, f, c)
  <1> DEFINE v == Mark(q, "aborted", 0)
  <1>1. /\ q \in Records /\ Everywhere(q, s, t, b, c) /\ Fresh(q, t, b)
    BY DEF RequestFits, PointFits
  <1>2. q.counted = 0 /\ q.settles = 0
    BY <1>1 DEF Everywhere, CountFits, Fresh
  <1>3. v \in Records /\ Everywhere(v, s, t, b, c) /\ v.settles = 0
    <2>1. "aborted" \in Outcomes
      BY DEF Outcomes
    <2> QED BY <1>1, <1>2, <2>1, MarksOn
  <1>4. [q EXCEPT !.outcome = "aborted"] = v
    BY <1>1, <1>2 DEF Mark, Records
  <1> HIDE DEF v
  <1>5. RequestFits(Done(v), s, t, b, f, c)
    BY <1>3, DoneFits
  <1> QED BY <1>4, <1>5

-----------------------------------------------------------------------------
(* Settling one ledger *)

\* The claim that the loop is about to settle is a whole one, and granted.
LEMMA AtLoop ==
  ASSUME NEW q, NEW s, NEW t, NEW b, NEW f, NEW c, RequestFits(q, s, t, b, f, c),
         q.pc \in {"settling", "unwinding"}
  PROVE  /\ q \in Records /\ Everywhere(q, s, t, b, c)
         /\ (q.pc = "settling" => Ends(q) /\ KeyHeld(q, t))
         /\ (q.pc = "unwinding" => Unwound(q))
         /\ q.hop \in DOMAIN q.chain /\ Current(q) \in Billable
         /\ t[Current(q)] = "granted" /\ s[Current(q)] = Claim
         /\ q.reserved[Current(q)] = Claim /\ Charge(q, Current(q)) \in 0..Claim
         /\ Holding(q, q.hop + 1, t)
         /\ (f = 0 /\ c = 0 => /\ LoopQuiet(q, s, q.hop)
                               /\ q.pc = "unwinding" => s[Key] = 0)
  <1>1. /\ q \in Records /\ Everywhere(q, s, t, b, c)
        /\ (q.pc = "settling" => Ends(q) /\ KeyHeld(q, t))
        /\ (q.pc = "unwinding" => Unwound(q))
        /\ LoopFits(q, t)
        /\ (f = 0 /\ c = 0 => QuietFits(q, s))
    BY DEF RequestFits, PointFits
  <1>2. /\ q.hop \in DOMAIN q.chain /\ Current(q) \in Billable
        /\ q.reserved[Current(q)] # Charge(q, Current(q))
        /\ t[Current(q)] = "granted" /\ Holding(q, q.hop + 1, t)
    BY <1>1, HopAlone DEF LoopFits, Holding, Unsettled
  <1>3. s[Current(q)] = Claim
    BY <1>1, <1>2 DEF Everywhere, ClaimFits
  <1>4. Charge(q, Current(q)) \in 0..Claim
    BY <1>1, ClaimType DEF Charge, Everywhere, ServedFits, Records
  <1>5. q.reserved[Current(q)] = Claim
    BY <1>1, <1>2 DEF Charge, Everywhere, ClaimFits, ServedFits
  <1>6. f = 0 /\ c = 0 => /\ LoopQuiet(q, s, q.hop)
                          /\ q.pc = "unwinding" => s[Key] = 0
    BY <1>1 DEF QuietFits
  <1> QED BY <1>1, <1>2, <1>3, <1>4, <1>5, <1>6

HeldBack(q) == [q EXCEPT !.held = TRUE]

LEMMA HeldOn ==
  ASSUME NEW q \in Records, NEW s, NEW t, NEW b, NEW c, Everywhere(q, s, t, b, c), c > 0
  PROVE  LET v == HeldBack(q) IN
         /\ v \in Records /\ Everywhere(v, s, t, b, c)
         /\ v.pc = q.pc /\ v.hop = q.hop /\ v.chain = q.chain /\ v.kind = q.kind
         /\ v.outcome = q.outcome /\ v.reserved = q.reserved
         /\ v.served = q.served /\ v.actual = q.actual /\ v.settles = q.settles
         /\ v.counted = q.counted
         /\ Reserved(v) = Reserved(q) /\ Unsettled(v) = Unsettled(q)
  <1> DEFINE v == HeldBack(q)
  <1>1. /\ v \in Records
        /\ v.pc = q.pc /\ v.hop = q.hop /\ v.chain = q.chain /\ v.kind = q.kind
        /\ v.outcome = q.outcome /\ v.reserved = q.reserved
        /\ v.served = q.served /\ v.actual = q.actual /\ v.settles = q.settles
        /\ v.counted = q.counted
    BY DEF Records, HeldBack
  <1> HIDE DEF v
  <1>2. /\ \A p : Charge(v, p) = Charge(q, p)
        /\ Reserved(v) = Reserved(q)
    BY <1>1 DEF Charge, Reserved
  <1>3. Unsettled(v) = Unsettled(q)
    BY <1>1, <1>2 DEF Unsettled
  <1>4. Everywhere(v, s, t, b, c)
    BY <1>1, <1>2 DEF Everywhere, ClaimFits, KeyFits, ServedFits, BillFits, CountFits
  <1>5. QED BY <1>1, <1>2, <1>3, <1>4 DEF v

\* What the loop does next, with the cancellation held back or not.
LEMMA LoopGoesOn ==
  ASSUME NEW q \in Records, NEW s, NEW t, NEW b, NEW f, NEW c, Everywhere(q, s, t, b, c),
         q.pc \in {"settling", "unwinding"},
         q.pc = "settling" => Ends(q) /\ KeyHeld(q, t),
         q.pc = "unwinding" => Unwound(q),
         Holding(q, q.hop + 1, t),
         f = 0 /\ c = 0 => LoopQuiet(q, s, q.hop + 1) /\ (q.pc = "unwinding" => s[Key] = 0),
         c \in Nat
  PROVE  /\ RequestFits(SettleOn(q), s, t, b, f, c)
         /\ c > 0 => RequestFits(SettleOn(HeldBack(q)), s, t, b, f, c)
  <1>1. RequestFits(SettleOn(q), s, t, b, f, c)
    BY SettleOnFits
  <1>2. ASSUME c > 0
        PROVE  RequestFits(SettleOn(HeldBack(q)), s, t, b, f, c)
    <2> DEFINE v == HeldBack(q)
    <2>1. /\ v \in Records /\ Everywhere(v, s, t, b, c)
          /\ v.pc = q.pc /\ v.hop = q.hop /\ v.chain = q.chain /\ v.kind = q.kind
          /\ v.outcome = q.outcome /\ v.reserved = q.reserved
          /\ v.served = q.served /\ v.actual = q.actual /\ v.settles = q.settles
          /\ v.counted = q.counted
          /\ Reserved(v) = Reserved(q) /\ Unsettled(v) = Unsettled(q)
      BY <1>2, HeldOn
    <2> HIDE DEF v
    <2>2. /\ v.pc = "settling" => Ends(v) /\ KeyHeld(v, t)
          /\ v.pc = "unwinding" => Unwound(v)
          /\ Holding(v, v.hop + 1, t)
      BY <2>1 DEF Ends, KeyHeld, Unwound, Holding, CountsLate, CountsAfterSettle, Uncounted
    <2>3. ~ (f = 0 /\ c = 0)
      BY <1>2
    <2>4. RequestFits(SettleOn(v), s, t, b, f, c)
      BY <2>1, <2>2, <2>3, SettleOnFits
    <2> QED BY <2>4 DEF v
  <1> QED BY <1>1, <1>2

Swapped(q, s) == Added(s, Current(q), Charge(q, Current(q)) - q.reserved[Current(q)])
Settled(q, t) == Now(t, Current(q), "settled")

LEMMA SettledFits ==
  ASSUME NEW q, NEW s, NEW t, NEW b, NEW f, NEW c \in Nat, RequestFits(q, s, t, b, f, c),
         Rows(s, t, b), q.pc \in {"settling", "unwinding"}
  PROVE  /\ RequestFits(SettleOn(q), Swapped(q, s), Settled(q, t), b, f, c)
         /\ c > 0 => RequestFits(SettleOn(HeldBack(q)), Swapped(q, s), Settled(q, t), b, f, c)
         /\ ~ (f = 0 /\ c = 0) => RequestFits(SettleOn(q), s, t, b, f, c)
         /\ c > 0 => RequestFits(SettleOn(HeldBack(q)), s, t, b, f, c)
  <1> DEFINE p == Current(q)
             s1 == Swapped(q, s)
             t1 == Settled(q, t)
  <1>1. /\ q \in Records /\ Everywhere(q, s, t, b, c)
        /\ (q.pc = "settling" => Ends(q) /\ KeyHeld(q, t))
        /\ (q.pc = "unwinding" => Unwound(q))
        /\ q.hop \in DOMAIN q.chain /\ p \in Billable
        /\ t[p] = "granted" /\ s[p] = Claim
        /\ q.reserved[p] = Claim /\ Charge(q, p) \in 0..Claim
        /\ Holding(q, q.hop + 1, t)
        /\ (f = 0 /\ c = 0 => /\ LoopQuiet(q, s, q.hop)
                              /\ q.pc = "unwinding" => s[Key] = 0)
    BY AtLoop
  <1>2. p \in Ledgers /\ Key \in Ledgers /\ p # Key /\ Claim \in Nat \ {0}
    BY <1>1, Names, ClaimType
  <1>3. /\ s1[p] = Charge(q, p) /\ t1[p] = "settled" /\ t1[Key] = t[Key] /\ s1[Key] = s[Key]
        /\ \A x \in Billable \ {p} : s1[x] = s[x] /\ t1[x] = t[x]
    <2>1. Claim + (Charge(q, p) - Claim) = Charge(q, p)
      BY <1>1, <1>2
    <2> QED BY <1>1, <1>2, <2>1 DEF Rows, Added, Now, Ledgers, Swapped, Settled
  <1> HIDE DEF s1, t1
  <1>4. Everywhere(q, s1, t1, b, c)
    <2>1. ClaimFits(q, s1, t1, p)
      BY <1>1, <1>3 DEF Everywhere, ClaimFits
    <2>2. ASSUME NEW x \in Billable \ {p} PROVE ClaimFits(q, s1, t1, x)
      BY <1>1, <1>3 DEF Everywhere, ClaimFits
    <2>3. KeyFits(q, s1, t1)
      BY <1>1, <1>3 DEF Everywhere, KeyFits
    <2> QED BY <1>1, <2>1, <2>2, <2>3 DEF Everywhere
  <1>5. /\ Holding(q, q.hop + 1, t1)
        /\ KeyHeld(q, t) => KeyHeld(q, t1)
    BY <1>1, <1>3, HopAlone DEF Holding, KeyHeld, Unsettled
  <1>6. f = 0 /\ c = 0 => LoopQuiet(q, s1, q.hop + 1) /\ (q.pc = "unwinding" => s1[Key] = 0)
    BY <1>1, <1>3, HopAlone DEF LoopQuiet
  <1>7. /\ RequestFits(SettleOn(q), s1, t1, b, f, c)
        /\ c > 0 => RequestFits(SettleOn(HeldBack(q)), s1, t1, b, f, c)
    BY <1>1, <1>4, <1>5, <1>6, LoopGoesOn
  <1>8. ASSUME ~ (f = 0 /\ c = 0)
        PROVE  /\ RequestFits(SettleOn(q), s, t, b, f, c)
               /\ c > 0 => RequestFits(SettleOn(HeldBack(q)), s, t, b, f, c)
    BY <1>1, <1>8, LoopGoesOn
  <1>9. c > 0 => ~ (f = 0 /\ c = 0)
    OBVIOUS
  <1> QED BY <1>7, <1>8, <1>9 DEF s1, t1

LEMMA AtKeySettle ==
  ASSUME NEW q, NEW s, NEW t, NEW b, NEW f, NEW c, RequestFits(q, s, t, b, f, c),
         q.pc = "settling_key"
  PROVE  /\ q \in Records /\ Everywhere(q, s, t, b, c) /\ Ends(q) /\ t[Key] = "granted"
         /\ s[Key] = Reserved(q) /\ Reserved(q) \in Nat /\ q.actual \in Nat
         /\ q.actual \in 0..Most
         /\ q.actual <= Reserved(q) /\ q.actual # Reserved(q) /\ q.settles > 0
         /\ (f = 0 /\ c = 0 => Charged(q, s))
  <1>1. /\ q \in Records /\ Everywhere(q, s, t, b, c) /\ Ends(q) /\ t[Key] = "granted"
        /\ q.actual # Reserved(q)
        /\ (f = 0 /\ c = 0 => QuietFits(q, s))
    BY DEF RequestFits, PointFits
  <1>2. s[Key] = Reserved(q) /\ q.settles > 0
    BY <1>1 DEF Everywhere, KeyFits, Ends
  <1>3. Reserved(q) \in Nat /\ q.actual \in Nat /\ q.actual <= Reserved(q) /\ q.actual \in 0..Most
    <2>1. Reserved(q) \in 0..Most /\ q.actual \in 0..Most /\ q.actual <= Reserved(q) /\ Most \in Nat
      BY <1>1, ReservedCovers
    <2> QED BY <2>1
  <1>4. f = 0 /\ c = 0 => Charged(q, s)
    BY <1>1 DEF QuietFits
  <1> QED BY <1>1, <1>2, <1>3, <1>4

LEMMA KeySettledFits ==
  ASSUME NEW q, NEW s, NEW t, NEW b, NEW f, NEW c \in Nat, RequestFits(q, s, t, b, f, c),
         Rows(s, t, b), q.pc = "settling_key"
  PROVE  LET s1 == Added(s, Key, q.actual - Reserved(q))
             t1 == Now(t, Key, "settled") IN
         /\ RequestFits(AfterSettle(q), s1, t1, b, f, c)
         /\ c > 0 => RequestFits(Done(q), s1, t1, b, f, c)
         /\ ~ (f = 0 /\ c = 0) => RequestFits(AfterSettle(q), s, t, b, f, c)
         /\ c > 0 => RequestFits(Done(q), s, t, b, f, c)
  <1> DEFINE s1 == Added(s, Key, q.actual - Reserved(q))
             t1 == Now(t, Key, "settled")
  <1>1. /\ q \in Records /\ Everywhere(q, s, t, b, c) /\ Ends(q) /\ t[Key] = "granted"
        /\ s[Key] = Reserved(q) /\ Reserved(q) \in Nat /\ q.actual \in Nat
        /\ q.settles > 0
        /\ (f = 0 /\ c = 0 => Charged(q, s))
    BY AtKeySettle
  <1>2. s1[Key] = q.actual /\ t1[Key] = "settled"
    <2>1. Reserved(q) + (q.actual - Reserved(q)) = q.actual
      BY <1>1
    <2> QED BY <1>1, <2>1, Names DEF Rows, Added, Now
  <1>3. KeyFits(q, s1, t1)
    <2> HIDE DEF s1, t1
    <2> QED BY <1>2 DEF KeyFits
  <1>4. /\ Everywhere(q, s1, t1, b, c)
        /\ (f = 0 /\ c = 0 => Charged(q, s1))
    BY <1>1, <1>3, KeyMovesOn
  <1> HIDE DEF s1, t1
  <1>5. KeySettled(q, t1) /\ KeySettled(q, t)
    BY <1>1, <1>2 DEF KeySettled, KeyHeld
  <1>6. RequestFits(AfterSettle(q), s1, t1, b, f, c)
    BY <1>1, <1>2, <1>4, <1>5, AfterSettleFits
  <1>7. ~ (f = 0 /\ c = 0) => RequestFits(AfterSettle(q), s, t, b, f, c)
    BY <1>1, <1>5, AfterSettleFits
  <1>8. ASSUME c > 0
        PROVE  RequestFits(Done(q), s1, t1, b, f, c) /\ RequestFits(Done(q), s, t, b, f, c)
    <2>1. ~ (c = 0)
      BY <1>8
    <2> QED BY <1>1, <1>4, <1>5, <2>1, DoneFits
  <1> QED BY <1>6, <1>7, <1>8 DEF s1, t1

-----------------------------------------------------------------------------
(* The audit writes *)

LEMMA AuditFits ==
  ASSUME NEW q, NEW s, NEW t, NEW b, NEW f, NEW c \in Nat, RequestFits(q, s, t, b, f, c),
         q.pc = "auditing"
  PROVE  /\ RequestFits(AfterAudit(q), s, t, b, f, c)
         /\ c > 0 => RequestFits(Done(q), s, t, b, f, c)
  <1>1. /\ q \in Records /\ Everywhere(q, s, t, b, c) /\ q.settles > 0 /\ KeySettled(q, t)
        /\ q.counted = (IF CountsLate(q) THEN 0 ELSE 1)
        /\ q.outcome # "none" /\ ~Uncounted(q)
        /\ (f = 0 /\ c = 0 => Charged(q, s) /\ s[Key] = q.actual)
    BY DEF RequestFits, PointFits, QuietFits
  <1>2. RequestFits(AfterAudit(q), s, t, b, f, c)
    BY <1>1, AfterAuditFits
  <1>3. ASSUME c > 0
        PROVE  RequestFits(Done(q), s, t, b, f, c)
    <2>1. ~ (c = 0)
      BY <1>3
    <2> QED BY <1>1, <2>1, DoneFits
  <1> QED BY <1>2, <1>3

\* The handler of a stream counts it, and _serve_chat has done so.
LEMMA AuditRaisesFits ==
  ASSUME NEW q, NEW s, NEW t, NEW b, NEW f, NEW c \in Nat, RequestFits(q, s, t, b, f, c),
         q.pc = "auditing", q.outcome = "served"
  PROVE  RequestFits(Done(IF q.kind = "chat" THEN q ELSE Count(q)), s, t, b, f, c)
  <1> DEFINE v == IF q.kind = "chat" THEN q ELSE Count(q)
  <1>1. /\ q \in Records /\ Everywhere(q, s, t, b, c) /\ q.settles > 0 /\ KeySettled(q, t)
        /\ q.counted = (IF CountsLate(q) THEN 0 ELSE 1)
        /\ (f = 0 /\ c = 0 => Charged(q, s) /\ s[Key] = q.actual)
    BY DEF RequestFits, PointFits, QuietFits
  <1>2. /\ v \in Records /\ Everywhere(v, s, t, b, c) /\ v.outcome = "served"
        /\ v.settles = q.settles /\ v.counted = 1 /\ v.actual = q.actual
        /\ \A p : Charge(v, p) = Charge(q, p)
        /\ Reserved(v) = Reserved(q)
    <2>1. CASE q.kind = "chat"
      BY <1>1, <2>1 DEF CountsLate
    <2>2. CASE q.kind # "chat"
      <3>1. q.counted = 0
        BY <1>1, <2>2 DEF CountsLate
      <3> QED BY <1>1, <2>2, <3>1, CountsOn
    <2> QED BY <2>1, <2>2
  <1> HIDE DEF v
  <1>3. /\ KeySettled(v, t) /\ ~Uncounted(v)
        /\ (f = 0 /\ c = 0 => Charged(v, s) /\ s[Key] = v.actual)
    BY <1>1, <1>2 DEF KeySettled, KeyHeld, Charged, Uncounted
  <1>4. RequestFits(Done(v), s, t, b, f, c)
    BY <1>2, <1>3, DoneFits
  <1> QED BY <1>4 DEF v

LEMMA AuditFailureFits ==
  ASSUME NEW q, NEW s, NEW t, NEW b, NEW f, NEW c \in Nat, RequestFits(q, s, t, b, f, c),
         q.pc = "auditing_failure"
  PROVE  /\ RequestFits(SettleOnAbort(q), s, t, b, f, c)
         /\ c > 0 => RequestFits(Done(q), s, t, b, f, c)
  <1>1. /\ q \in Records /\ Everywhere(q, s, t, b, c) /\ Admitted(q, t) /\ q.counted = 1
        /\ q.kind = "stream" /\ q.outcome = "failed"
        /\ (f = 0 /\ c = 0 => Intact(q, s))
    BY DEF RequestFits, PointFits, QuietFits, ExceptHandingBack, Intact
  <1>2. /\ q.settles = 0 /\ NoneSettled(t) /\ KeyHeld(q, t) /\ ~CountsLate(q)
    BY <1>1 DEF Admitted, CountsLate
  <1>3. RequestFits(SettleOnAbort(q), s, t, b, f, c)
    BY <1>1, <1>2, SettleOnAbortFits
  <1>4. ASSUME c > 0
        PROVE  RequestFits(Done(q), s, t, b, f, c)
    <2>1. ~ (c = 0)
      BY <1>4
    <2> QED BY <1>1, <1>2, <2>1, DoneFits
  <1> QED BY <1>3, <1>4

LEMMA StopFits ==
  ASSUME NEW q, NEW s, NEW t, NEW b, NEW f, NEW c \in Nat, RequestFits(q, s, t, b, f, c),
         q.pc = "stopping"
  PROVE  /\ RequestFits(Done(Count(q)), s, t, b, f, c)
         /\ c > 0 => RequestFits(Done(q), s, t, b, f, c)
  <1>1. /\ q \in Records /\ Everywhere(q, s, t, b, c) /\ q.settles > 0 /\ KeySettled(q, t)
        /\ q.counted = 0 /\ q.outcome = "served"
        /\ (f = 0 /\ c = 0 => Charged(q, s) /\ s[Key] = q.actual)
    BY DEF RequestFits, PointFits, QuietFits
  <1>2. RequestFits(Done(Count(q)), s, t, b, f, c)
    <2> DEFINE v == Count(q)
    <2>1. /\ v \in Records /\ Everywhere(v, s, t, b, c)
          /\ v.settles = q.settles /\ v.counted = 1 /\ v.actual = q.actual
          /\ v.outcome = "served"
          /\ \A p : Charge(v, p) = Charge(q, p)
          /\ Reserved(v) = Reserved(q)
      BY <1>1, CountsOn
    <2> HIDE DEF v
    <2>2. /\ KeySettled(v, t) /\ ~Uncounted(v)
          /\ f = 0 /\ c = 0 => Charged(v, s) /\ s[Key] = v.actual
      BY <1>1, <2>1 DEF KeySettled, KeyHeld, Charged, Uncounted
    <2>3. RequestFits(Done(v), s, t, b, f, c)
      BY <2>1, <2>2, DoneFits
    <2> QED BY <2>3 DEF v
  <1>3. ASSUME c > 0
        PROVE  RequestFits(Done(q), s, t, b, f, c)
    <2>1. ~ (c = 0)
      BY <1>3
    <2> QED BY <1>1, <2>1, DoneFits
  <1> QED BY <1>2, <1>3

-----------------------------------------------------------------------------
(* From the rows of one request to the state *)

RowBecomes(r, s1, t1) ==
  /\ Stakes(r)' = s1 /\ Standing(r)' = t1
  /\ \A x \in Requests \ {r} : Stakes(x)' = Stakes(x) /\ Standing(x)' = Standing(x)
  /\ ledger' \in [Ledgers -> Nat]
  /\ stake' \in [Ledgers -> [Requests -> 0..Most]]
  /\ standing' \in [Ledgers -> [Requests -> Standings]]
  /\ Conserved'

BillBecomes(r, b1) ==
  /\ Bills(r)' = b1
  /\ \A x \in Requests \ {r} : Bills(x)' = Bills(x)
  /\ billed' \in [Billable -> [Requests -> 0..Claim]]

BoundsBecome(f1, c1) == /\ faults' = f1 /\ cancels' = c1
                        /\ faults <= f1 /\ cancels <= c1
                        /\ f1 \in 0..MaxFaults /\ c1 \in 0..MaxCancels

LEMMA MostCovers ==
  /\ Most \in Nat
  /\ \A p \in Billable : 0..Claim \subseteq 0..Most
  <1> DEFINE f == [p \in Billable |-> Claim]
  <1>1. IsFiniteSet(Billable) /\ Claim \in Nat /\ \A p \in Billable : f[p] \in 0..Claim
    BY Names, ClaimType
  <1> HIDE DEF f
  <1>2. Total(f, Billable) <= Most /\ Most \in Nat /\ Total(f, Billable) \in Nat
    BY <1>1, TotalBound, UnitsFinite DEF Most
  <1>3. \A p \in Billable : f[p] <= Total(f, Billable)
    BY <1>1, TotalMember
  <1>4. \A p \in Billable : Claim <= Most
    BY <1>1, <1>2, <1>3 DEF f
  <1> QED BY <1>1, <1>2, <1>4

LEMMA RowTypes ==
  ASSUME TypeOK, NEW r \in Requests
  PROVE  /\ Rows(Stakes(r), Standing(r), Bills(r))
         /\ \A l \in Ledgers : Stakes(r)[l] = stake[l][r] /\ Standing(r)[l] = standing[l][r]
         /\ \A p \in Billable : Bills(r)[p] = billed[p][r]
  <1>1. /\ stake \in [Ledgers -> [Requests -> 0..Most]]
        /\ standing \in [Ledgers -> [Requests -> Standings]]
        /\ billed \in [Billable -> [Requests -> 0..Claim]]
    BY DEF TypeOK, Standings
  <1> QED BY <1>1 DEF Rows, Stakes, Standing, Bills

\* What one command does to the books, to the row of its request alone.
LEMMA IncrRow ==
  ASSUME TypeOK, Conserved, NEW r \in Requests, NEW l \in Ledgers, NEW d \in Int,
         NEW after \in Standings, stake[l][r] + d \in 0..Most, Incr(l, r, d, after)
  PROVE  RowBecomes(r, Added(Stakes(r), l, d), Now(Standing(r), l, after))
  <1>1. /\ ledger \in [Ledgers -> Nat]
        /\ stake \in [Ledgers -> [Requests -> 0..Most]]
        /\ standing \in [Ledgers -> [Requests -> Standings]]
        /\ IsFiniteSet(Requests) /\ Most \in Nat
    BY PathAssumption, MostCovers DEF TypeOK, Standings
  <1>2. /\ ledger' = [ledger EXCEPT ![l] = ledger[l] + d]
        /\ stake' = [stake EXCEPT ![l] = [stake[l] EXCEPT ![r] = stake[l][r] + d]]
        /\ standing' = [standing EXCEPT ![l] = [standing[l] EXCEPT ![r] = after]]
    BY <1>1 DEF Incr
  <1>3. /\ stake' \in [Ledgers -> [Requests -> 0..Most]]
        /\ standing' \in [Ledgers -> [Requests -> Standings]]
    BY <1>1, <1>2
  <1>4. /\ stake'[l][r] = stake[l][r] + d /\ standing'[l][r] = after
        /\ \A x \in Requests \ {r} :
             stake'[l][x] = stake[l][x] /\ standing'[l][x] = standing[l][x]
        /\ \A m \in Ledgers \ {l} : stake'[m] = stake[m] /\ standing'[m] = standing[m]
    BY <1>1, <1>2
  <1>5. Stakes(r)' = Added(Stakes(r), l, d) /\ Standing(r)' = Now(Standing(r), l, after)
    BY <1>1, <1>4 DEF Stakes, Standing, Added, Now
  <1>6. \A x \in Requests \ {r} : Stakes(x)' = Stakes(x) /\ Standing(x)' = Standing(x)
    BY <1>1, <1>4 DEF Stakes, Standing
  <1>7. Total(stake'[l], Requests) = Total(stake[l], Requests) - stake[l][r] + stake'[l][r]
    <2> DEFINE old == stake[l]
               new == stake'[l]
    <2>1. /\ \A y \in Requests : old[y] \in 0..Most
          /\ \A y \in Requests : new[y] \in 0..Most
          /\ \A y \in Requests \ {r} : new[y] = old[y]
      BY <1>1, <1>3, <1>4
    <2>2. IsFiniteSet(Requests) /\ Most \in Nat
      BY <1>1
    <2> HIDE DEF old, new
    <2>3. Total(new, Requests) = Total(old, Requests) - old[r] + new[r]
      BY <2>1, <2>2, TotalChange
    <2> QED BY <2>3 DEF old, new
  <1>8. \A m \in Ledgers : Total(stake'[m], Requests) \in Nat /\ Total(stake[m], Requests) \in Nat
    BY <1>1, <1>3, UnitsFinite
  <1>9. \A m \in Ledgers : ledger'[m] = Total(stake'[m], Requests)
    <2>1. ledger'[l] = ledger[l] + d /\ \A m \in Ledgers \ {l} : ledger'[m] = ledger[m]
      BY <1>1, <1>2
    <2>2. ledger'[l] = Total(stake'[l], Requests)
      <3>1. stake[l][r] \in 0..Most
        BY <1>1
      <3> QED BY <1>4, <1>7, <1>8, <2>1, <3>1 DEF Conserved
    <2>3. \A m \in Ledgers \ {l} : ledger'[m] = Total(stake'[m], Requests)
      BY <1>4, <2>1 DEF Conserved
    <2> QED BY <2>2, <2>3
  <1>10. ledger' \in [Ledgers -> Nat]
    BY <1>1, <1>2, <1>8, <1>9
  <1>11. Conserved'
    BY <1>9 DEF Conserved
  <1> QED BY <1>3, <1>5, <1>6, <1>10, <1>11 DEF RowBecomes

LEMMA SameRow ==
  ASSUME TypeOK, Conserved, NEW r \in Requests, UNCHANGED books
  PROVE  RowBecomes(r, Stakes(r), Standing(r))
  <1>1. ledger' = ledger /\ stake' = stake /\ standing' = standing
    BY DEF books
  <1>2. \A x : Stakes(x)' = Stakes(x) /\ Standing(x)' = Standing(x)
    BY <1>1 DEF Stakes, Standing
  <1>3. Conserved'
    BY <1>1 DEF Conserved
  <1> QED BY <1>1, <1>2, <1>3 DEF RowBecomes, TypeOK, Standings

LEMMA SameBill ==
  ASSUME TypeOK, NEW r \in Requests, UNCHANGED billed
  PROVE  BillBecomes(r, Bills(r))
  BY DEF BillBecomes, Bills, TypeOK

\* How a step begins: the bounds it leaves, and what is known of its request.
LEMMA Begins ==
  ASSUME PathInv, NEW r \in Requests, UNCHANGED bounds \/ Fault \/ Cancellation
  PROVE  \E f1 \in Nat, c1 \in Nat :
            /\ BoundsBecome(f1, c1)
            /\ Fault => ~ (f1 = 0 /\ c1 = 0)
            /\ Cancellation => c1 > 0 /\ ~ (f1 = 0 /\ c1 = 0)
            /\ Rows(Stakes(r), Standing(r), Bills(r))
            /\ RequestFits(req[r], Stakes(r), Standing(r), Bills(r), f1, c1)
  <1>1. /\ faults \in 0..MaxFaults /\ cancels \in 0..MaxCancels
        /\ MaxFaults \in Nat /\ MaxCancels \in Nat
    BY PathAssumption DEF PathInv, TypeOK
  <1>2. /\ Rows(Stakes(r), Standing(r), Bills(r))
        /\ RequestFits(req[r], Stakes(r), Standing(r), Bills(r), faults, cancels)
    BY RowTypes DEF PathInv, Fit
  <1> SUFFICES \E f1 \in Nat, c1 \in Nat :
                  /\ BoundsBecome(f1, c1)
                  /\ Fault => ~ (f1 = 0 /\ c1 = 0)
                  /\ Cancellation => c1 > 0 /\ ~ (f1 = 0 /\ c1 = 0)
    <2>1. ASSUME NEW f1 \in Nat, NEW c1 \in Nat, BoundsBecome(f1, c1)
          PROVE  RequestFits(req[r], Stakes(r), Standing(r), Bills(r), f1, c1)
      <3>1. /\ faults \in Nat /\ cancels \in Nat /\ faults <= f1 /\ cancels <= c1
        BY <1>1, <2>1 DEF BoundsBecome
      <3> QED BY <1>2, <3>1, Later
    <2> QED BY <1>2, <2>1
  <1>3. /\ faults' \in Nat /\ cancels' \in Nat
        /\ BoundsBecome(faults', cancels')
        /\ Fault => faults' > 0
        /\ Cancellation => cancels' > 0
    BY <1>1 DEF BoundsBecome, bounds, Fault, Cancellation
  <1>4. /\ Fault => ~ (faults' = 0 /\ cancels' = 0)
        /\ Cancellation => cancels' > 0 /\ ~ (faults' = 0 /\ cancels' = 0)
    BY <1>3
  <1> QED BY <1>3, <1>4

\* How it ends: what is known of its request again is known of all.
LEMMA OneRequest ==
  ASSUME PathInv, NEW r \in Requests, NEW v, NEW s1, NEW t1, NEW b1,
         NEW f1 \in Nat, NEW c1 \in Nat,
         Continue(r, v), RowBecomes(r, s1, t1), BillBecomes(r, b1), BoundsBecome(f1, c1),
         RequestFits(v, s1, t1, b1, f1, c1)
  PROVE  PathInv'
  <1>1. req \in [Requests -> Records] /\ v \in Records
    BY DEF PathInv, TypeOK, Records, RequestFits
  <1>2. /\ req' = [req EXCEPT ![r] = v] /\ req'[r] = v
        /\ \A x \in Requests \ {r} : req'[x] = req[x]
    BY <1>1 DEF Continue
  <1>3. req' \in [Requests -> Records]
    BY <1>1, <1>2
  <1>4. TypeOK'
    BY <1>3 DEF TypeOK, Records, RowBecomes, BillBecomes, BoundsBecome, Standings
  <1>5. Conserved'
    BY DEF RowBecomes
  <1>6. Fit(r)'
    <2>1. /\ req'[r] = v /\ Stakes(r)' = s1 /\ Standing(r)' = t1 /\ Bills(r)' = b1
          /\ faults' = f1 /\ cancels' = c1
      BY <1>2 DEF RowBecomes, BillBecomes, BoundsBecome
    <2> QED BY <2>1 DEF Fit
  <1>7. ASSUME NEW x \in Requests \ {r}
        PROVE  Fit(x)'
    <2>1. /\ req'[x] = req[x] /\ Stakes(x)' = Stakes(x) /\ Standing(x)' = Standing(x)
          /\ Bills(x)' = Bills(x) /\ faults' = f1 /\ cancels' = c1
      BY <1>2 DEF RowBecomes, BillBecomes, BoundsBecome
    <2>2. RequestFits(req[x], Stakes(x), Standing(x), Bills(x), faults, cancels)
      BY DEF PathInv, Fit
    <2>3. faults \in Nat /\ cancels \in Nat /\ faults <= f1 /\ cancels <= c1
      BY DEF PathInv, TypeOK, BoundsBecome
    <2>4. RequestFits(req[x], Stakes(x), Standing(x), Bills(x), f1, c1)
      BY <2>2, <2>3, Later
    <2> QED BY <2>1, <2>4 DEF Fit
  <1> QED BY <1>4, <1>5, <1>6, <1>7 DEF PathInv

-----------------------------------------------------------------------------
(* The actions: reserving *)

LEMMA StartFits ==
  ASSUME NEW q, NEW s, NEW t, NEW b, NEW f, NEW c, RequestFits(q, s, t, b, f, c),
         q.pc = "start"
  PROVE  RequestFits(ReserveNext(q), s, t, b, f, c)
  <1>1. /\ q \in Records /\ Everywhere(q, s, t, b, c) /\ Fresh(q, t, b) /\ t[Key] = "new"
        /\ q.hop = 0 /\ Untouched(q, 1, t)
        /\ (f = 0 /\ c = 0 => QuietFits(q, s))
    BY DEF RequestFits, PointFits
  <1>2. f = 0 /\ c = 0 => Intact(q, s)
    BY <1>1 DEF QuietFits, ExceptHandingBack, Intact
  <1>3. Reached(q, 0)
    <2>1. DOMAIN q.chain = 1..Len(q.chain) /\ Len(q.chain) \in Nat
      BY <1>1, ChainType DEF Records
    <2> QED BY <2>1 DEF Reached, UpTo
  <1>4. q.hop + 1 = 1
    BY <1>1
  <1> QED BY <1>1, <1>2, <1>3, <1>4, ReserveNextFits

LEMMA StartStep ==
  ASSUME PathInv, NEW r \in Requests, Start(r)
  PROVE  PathInv'
  <1>1. /\ req[r].pc = "start" /\ Continue(r, ReserveNext(req[r]))
        /\ UNCHANGED books /\ UNCHANGED billed /\ UNCHANGED bounds
    BY DEF Start, At
  <1>2. TypeOK /\ Conserved
    BY DEF PathInv
  <1>3. RowBecomes(r, Stakes(r), Standing(r)) /\ BillBecomes(r, Bills(r))
    BY <1>1, <1>2, SameRow, SameBill
  <1>4. PICK f1 \in Nat, c1 \in Nat :
          /\ BoundsBecome(f1, c1)
          /\ RequestFits(req[r], Stakes(r), Standing(r), Bills(r), f1, c1)
    BY <1>1, Begins
  <1>5. RequestFits(ReserveNext(req[r]), Stakes(r), Standing(r), Bills(r), f1, c1)
    BY <1>1, <1>4, StartFits
  <1> QED BY <1>1, <1>3, <1>4, <1>5, OneRequest

\* The rows after the claim of a provider, and that the numbers can hold it.
LEMMA ClaimRow ==
  ASSUME PathInv, NEW r \in Requests, req[r].pc = "reserving",
         ClaimOf(r, Provider(r), Claim)
  PROVE  /\ Fits(Provider(r), Claim) =>
              RowBecomes(r, Added(Stakes(r), Provider(r), Claim),
                         Now(Standing(r), Provider(r), "granted"))
         /\ ~ Fits(Provider(r), Claim) =>
              RowBecomes(r, Added(Stakes(r), Provider(r), Claim),
                         Now(Standing(r), Provider(r), "over"))
  <1> DEFINE p == Provider(r)
  <1>1. /\ p = Current(req[r])
        /\ RequestFits(req[r], Stakes(r), Standing(r), Bills(r), faults, cancels)
        /\ TypeOK /\ Conserved
    BY DEF PathInv, Fit, Provider, Current
  <1>2. p \in Billable /\ Stakes(r)[p] = 0
    BY <1>1, AtReserving
  <1> HIDE DEF p
  <1>3. p \in Ledgers /\ Claim \in Int /\ stake[p][r] + Claim \in 0..Most
    <2>1. p \in Ledgers /\ Claim \in Nat /\ Claim \in 0..Most
      BY <1>2, Names, ClaimType, MostCovers
    <2>2. stake[p][r] = 0
      BY <1>1, <1>2, <2>1, RowTypes
    <2> QED BY <2>1, <2>2
  <1>4. ASSUME Fits(p, Claim)
        PROVE  RowBecomes(r, Added(Stakes(r), p, Claim), Now(Standing(r), p, "granted"))
    <2>1. Incr(p, r, Claim, "granted") /\ "granted" \in Standings
      BY <1>4 DEF ClaimOf, Standings, p
    <2> QED BY <1>1, <1>3, <2>1, IncrRow
  <1>5. ASSUME ~ Fits(p, Claim)
        PROVE  RowBecomes(r, Added(Stakes(r), p, Claim), Now(Standing(r), p, "over"))
    <2>1. Incr(p, r, Claim, "over") /\ "over" \in Standings
      BY <1>5 DEF ClaimOf, Standings, p
    <2> QED BY <1>1, <1>3, <2>1, IncrRow
  <1> QED BY <1>4, <1>5 DEF p

LEMMA GrantedStep ==
  ASSUME PathInv, NEW r \in Requests, Granted(r)
  PROVE  PathInv'
  <1>1. /\ req[r].pc = "reserving" /\ Fits(Provider(r), Claim)
        /\ ClaimOf(r, Provider(r), Claim) /\ UNCHANGED bounds /\ UNCHANGED billed
        /\ Continue(r, ReserveNext(WithClaim(req[r], Provider(r))))
    BY DEF Granted, At, Replied, WithClaim
  <1>2. Provider(r) = Current(req[r])
    BY DEF Provider, Current
  <1>3. /\ RowBecomes(r, Added(Stakes(r), Provider(r), Claim),
                      Now(Standing(r), Provider(r), "granted"))
        /\ BillBecomes(r, Bills(r))
    BY <1>1, ClaimRow, SameBill DEF PathInv
  <1>4. PICK f1 \in Nat, c1 \in Nat :
          /\ BoundsBecome(f1, c1)
          /\ Rows(Stakes(r), Standing(r), Bills(r))
          /\ RequestFits(req[r], Stakes(r), Standing(r), Bills(r), f1, c1)
    BY <1>1, Begins
  <1>5. RequestFits(ReserveNext(WithClaim(req[r], Provider(r))),
                    Added(Stakes(r), Provider(r), Claim),
                    Now(Standing(r), Provider(r), "granted"), Bills(r), f1, c1)
    BY <1>1, <1>2, <1>4, GrantedFits
  <1> QED BY <1>1, <1>3, <1>4, <1>5, OneRequest

LEMMA OverCapStep ==
  ASSUME PathInv, NEW r \in Requests, OverCap(r)
  PROVE  PathInv'
  <1>1. /\ req[r].pc = "reserving" /\ ~ Fits(Provider(r), Claim)
        /\ ClaimOf(r, Provider(r), Claim) /\ UNCHANGED bounds /\ UNCHANGED billed
        /\ Continue(r, [req[r] EXCEPT !.pc = "handing_back"])
    BY DEF OverCap, At, Replied
  <1>2. Provider(r) = Current(req[r])
    BY DEF Provider, Current
  <1>3. /\ RowBecomes(r, Added(Stakes(r), Provider(r), Claim),
                      Now(Standing(r), Provider(r), "over"))
        /\ BillBecomes(r, Bills(r))
    BY <1>1, ClaimRow, SameBill DEF PathInv
  <1>4. PICK f1 \in Nat, c1 \in Nat :
          /\ BoundsBecome(f1, c1)
          /\ Rows(Stakes(r), Standing(r), Bills(r))
          /\ RequestFits(req[r], Stakes(r), Standing(r), Bills(r), f1, c1)
    BY <1>1, Begins
  <1>5. RequestFits([req[r] EXCEPT !.pc = "handing_back"],
                    Added(Stakes(r), Provider(r), Claim),
                    Now(Standing(r), Provider(r), "over"), Bills(r), f1, c1)
    BY <1>1, <1>2, <1>4, OverCapFits
  <1> QED BY <1>1, <1>3, <1>4, <1>5, OneRequest

LEMMA ReserveBrokenStep ==
  ASSUME PathInv, NEW r \in Requests, ReserveBroken(r)
  PROVE  PathInv'
  <1>1. /\ req[r].pc = "reserving" /\ UNCHANGED billed
        /\ Fault \/ Cancellation
        /\ ClaimOf(r, Provider(r), Claim) \/ UNCHANGED books
        /\ Continue(r, Unwind(req[r]))
    BY DEF ReserveBroken, At, Errored, Cancelled, Maybe
  <1>2. Provider(r) = Current(req[r]) /\ BillBecomes(r, Bills(r)) /\ TypeOK /\ Conserved
    BY <1>1, SameBill DEF Provider, Current, PathInv
  <1>3. PICK f1 \in Nat, c1 \in Nat :
          /\ BoundsBecome(f1, c1) /\ ~ (f1 = 0 /\ c1 = 0)
          /\ Rows(Stakes(r), Standing(r), Bills(r))
          /\ RequestFits(req[r], Stakes(r), Standing(r), Bills(r), f1, c1)
    BY <1>1, Begins
  <1>4. /\ RequestFits(Unwind(req[r]), Stakes(r), Standing(r), Bills(r), f1, c1)
        /\ \A after \in {"granted", "over"} :
             RequestFits(Unwind(req[r]), Added(Stakes(r), Provider(r), Claim),
                         Now(Standing(r), Provider(r), after), Bills(r), f1, c1)
    BY <1>1, <1>2, <1>3, ReserveBrokenFits
  <1>5. CASE UNCHANGED books
    <2>1. RowBecomes(r, Stakes(r), Standing(r))
      BY <1>2, <1>5, SameRow
    <2> QED BY <1>1, <1>2, <1>3, <1>4, <2>1, OneRequest
  <1>6. CASE ClaimOf(r, Provider(r), Claim)
    <2>1. \E after \in {"granted", "over"} :
            RowBecomes(r, Added(Stakes(r), Provider(r), Claim),
                       Now(Standing(r), Provider(r), after))
      BY <1>1, <1>6, ClaimRow
    <2>2. PICK after \in {"granted", "over"} :
            RowBecomes(r, Added(Stakes(r), Provider(r), Claim),
                       Now(Standing(r), Provider(r), after))
      BY <2>1
    <2>3. RequestFits(Unwind(req[r]), Added(Stakes(r), Provider(r), Claim),
                      Now(Standing(r), Provider(r), after), Bills(r), f1, c1)
      BY <1>4
    <2> QED BY <1>1, <1>2, <1>3, <2>2, <2>3, OneRequest
  <1> QED BY <1>1, <1>5, <1>6

LEMMA HandBackRow ==
  ASSUME PathInv, NEW r \in Requests, req[r].pc = "handing_back",
         HandBackOf(r, Provider(r), Claim)
  PROVE  RowBecomes(r, Added(Stakes(r), Provider(r), - Claim),
                    Now(Standing(r), Provider(r), "returned"))
  <1> DEFINE p == Provider(r)
  <1>1. /\ p = Current(req[r])
        /\ RequestFits(req[r], Stakes(r), Standing(r), Bills(r), faults, cancels)
        /\ TypeOK /\ Conserved
    BY DEF PathInv, Fit, Provider, Current
  <1>2. p \in Billable /\ Stakes(r)[p] = Claim
    BY <1>1, AtHandingBack
  <1>3. Incr(p, r, - Claim, "returned")
    BY DEF HandBackOf
  <1> HIDE DEF p
  <1>4. p \in Ledgers /\ - Claim \in Int /\ stake[p][r] + (- Claim) \in 0..Most
    <2>1. p \in Ledgers /\ Claim \in Nat /\ 0 \in 0..Most
      BY <1>2, Names, ClaimType, MostCovers
    <2>2. stake[p][r] = Claim
      BY <1>1, <1>2, <2>1, RowTypes
    <2> QED BY <2>1, <2>2
  <1>5. "returned" \in Standings
    BY DEF Standings
  <1>6. RowBecomes(r, Added(Stakes(r), p, - Claim), Now(Standing(r), p, "returned"))
    BY <1>1, <1>3, <1>4, <1>5, IncrRow
  <1> QED BY <1>6 DEF p

LEMMA HandedBackStep ==
  ASSUME PathInv, NEW r \in Requests, HandedBack(r)
  PROVE  PathInv'
  <1>1. /\ req[r].pc = "handing_back" /\ UNCHANGED billed
        /\ UNCHANGED bounds \/ Fault
        /\ HandBackOf(r, Provider(r), Claim) \/ (Fault /\ UNCHANGED books)
        /\ Continue(r, ReserveNext(Skipping(req[r], Provider(r))))
    BY DEF HandedBack, At, Replied, Errored, Maybe, Skipping
  <1>2. Provider(r) = Current(req[r]) /\ BillBecomes(r, Bills(r)) /\ TypeOK /\ Conserved
    BY <1>1, SameBill DEF Provider, Current, PathInv
  <1>3. PICK f1 \in Nat, c1 \in Nat :
          /\ BoundsBecome(f1, c1) /\ (Fault => ~ (f1 = 0 /\ c1 = 0))
          /\ Rows(Stakes(r), Standing(r), Bills(r))
          /\ RequestFits(req[r], Stakes(r), Standing(r), Bills(r), f1, c1)
    BY <1>1, Begins
  <1> DEFINE v == ReserveNext(Skipping(req[r], Provider(r)))
  <1>4. /\ RequestFits(v, Added(Stakes(r), Provider(r), - Claim),
                       Now(Standing(r), Provider(r), "returned"), Bills(r), f1, c1)
        /\ Fault => RequestFits(v, Stakes(r), Standing(r), Bills(r), f1, c1)
    BY <1>1, <1>2, <1>3, HandedBackFits
  <1> HIDE DEF v
  <1>5. CASE Fault /\ UNCHANGED books
    <2>1. RowBecomes(r, Stakes(r), Standing(r))
      BY <1>2, <1>5, SameRow
    <2> QED BY <1>1, <1>2, <1>3, <1>4, <1>5, <2>1, OneRequest DEF v
  <1>6. CASE HandBackOf(r, Provider(r), Claim)
    <2>1. RowBecomes(r, Added(Stakes(r), Provider(r), - Claim),
                     Now(Standing(r), Provider(r), "returned"))
      BY <1>1, <1>6, HandBackRow
    <2> QED BY <1>1, <1>2, <1>3, <1>4, <2>1, OneRequest DEF v
  <1> QED BY <1>1, <1>5, <1>6

LEMMA HandBackCancelledStep ==
  ASSUME PathInv, NEW r \in Requests, HandBackCancelled(r)
  PROVE  PathInv'
  <1>1. /\ req[r].pc = "handing_back" /\ UNCHANGED billed /\ Cancellation
        /\ HandBackOf(r, Provider(r), Claim) \/ UNCHANGED books
        /\ Continue(r, Unwind(req[r]))
    BY DEF HandBackCancelled, At, Cancelled, Maybe
  <1>2. Provider(r) = Current(req[r]) /\ BillBecomes(r, Bills(r)) /\ TypeOK /\ Conserved
    BY <1>1, SameBill DEF Provider, Current, PathInv
  <1>3. PICK f1 \in Nat, c1 \in Nat :
          /\ BoundsBecome(f1, c1) /\ ~ (f1 = 0 /\ c1 = 0)
          /\ Rows(Stakes(r), Standing(r), Bills(r))
          /\ RequestFits(req[r], Stakes(r), Standing(r), Bills(r), f1, c1)
    BY <1>1, Begins
  <1>4. /\ RequestFits(Unwind(req[r]), Added(Stakes(r), Provider(r), - Claim),
                       Now(Standing(r), Provider(r), "returned"), Bills(r), f1, c1)
        /\ RequestFits(Unwind(req[r]), Stakes(r), Standing(r), Bills(r), f1, c1)
    BY <1>1, <1>2, <1>3, HandBackCancelledFits
  <1>5. CASE UNCHANGED books
    <2>1. RowBecomes(r, Stakes(r), Standing(r))
      BY <1>2, <1>5, SameRow
    <2> QED BY <1>1, <1>2, <1>3, <1>4, <2>1, OneRequest
  <1>6. CASE HandBackOf(r, Provider(r), Claim)
    <2>1. RowBecomes(r, Added(Stakes(r), Provider(r), - Claim),
                     Now(Standing(r), Provider(r), "returned"))
      BY <1>1, <1>6, HandBackRow
    <2> QED BY <1>1, <1>2, <1>3, <1>4, <2>1, OneRequest
  <1> QED BY <1>1, <1>5, <1>6

LEMMA KeyClaimRow ==
  ASSUME PathInv, NEW r \in Requests, req[r].pc = "key_reserving",
         ClaimOf(r, Key, Reserved(req[r]))
  PROVE  /\ Fits(Key, Reserved(req[r])) =>
              RowBecomes(r, Added(Stakes(r), Key, Reserved(req[r])),
                         Now(Standing(r), Key, "granted"))
         /\ ~ Fits(Key, Reserved(req[r])) =>
              RowBecomes(r, Added(Stakes(r), Key, Reserved(req[r])),
                         Now(Standing(r), Key, "over"))
  <1> DEFINE usd == Reserved(req[r])
  <1>1. /\ RequestFits(req[r], Stakes(r), Standing(r), Bills(r), faults, cancels)
        /\ TypeOK /\ Conserved
    BY DEF PathInv, Fit
  <1>2. usd \in Nat /\ usd <= Most /\ Stakes(r)[Key] = 0
    BY <1>1, AtKeyClaim
  <1> HIDE DEF usd
  <1>3. Key \in Ledgers /\ usd \in Int /\ stake[Key][r] + usd \in 0..Most
    <2>1. Key \in Ledgers /\ Most \in Nat
      BY Names, MostCovers
    <2>2. stake[Key][r] = 0
      BY <1>1, <1>2, <2>1, RowTypes
    <2> QED BY <1>2, <2>1, <2>2
  <1>4. ASSUME Fits(Key, usd)
        PROVE  RowBecomes(r, Added(Stakes(r), Key, usd), Now(Standing(r), Key, "granted"))
    <2>1. Incr(Key, r, usd, "granted") /\ "granted" \in Standings
      BY <1>4 DEF ClaimOf, Standings, usd
    <2> QED BY <1>1, <1>3, <2>1, IncrRow
  <1>5. ASSUME ~ Fits(Key, usd)
        PROVE  RowBecomes(r, Added(Stakes(r), Key, usd), Now(Standing(r), Key, "over"))
    <2>1. Incr(Key, r, usd, "over") /\ "over" \in Standings
      BY <1>5 DEF ClaimOf, Standings, usd
    <2> QED BY <1>1, <1>3, <2>1, IncrRow
  <1> QED BY <1>4, <1>5 DEF usd

LEMMA KeyGrantedStep ==
  ASSUME PathInv, NEW r \in Requests, KeyGranted(r)
  PROVE  PathInv'
  <1>1. /\ req[r].pc = "key_reserving" /\ Fits(Key, Reserved(req[r]))
        /\ ClaimOf(r, Key, Reserved(req[r])) /\ UNCHANGED bounds /\ UNCHANGED billed
        /\ Continue(r, Admit(req[r]))
    BY DEF KeyGranted, At, Replied
  <1>2. /\ RowBecomes(r, Added(Stakes(r), Key, Reserved(req[r])),
                      Now(Standing(r), Key, "granted"))
        /\ BillBecomes(r, Bills(r))
    BY <1>1, KeyClaimRow, SameBill DEF PathInv
  <1>3. PICK f1 \in Nat, c1 \in Nat :
          /\ BoundsBecome(f1, c1)
          /\ Rows(Stakes(r), Standing(r), Bills(r))
          /\ RequestFits(req[r], Stakes(r), Standing(r), Bills(r), f1, c1)
    BY <1>1, Begins
  <1>4. RequestFits(Admit(req[r]), Added(Stakes(r), Key, Reserved(req[r])),
                    Now(Standing(r), Key, "granted"), Bills(r), f1, c1)
    BY <1>1, <1>3, KeyGrantedFits
  <1> QED BY <1>1, <1>2, <1>3, <1>4, OneRequest

LEMMA KeyOverCapStep ==
  ASSUME PathInv, NEW r \in Requests, KeyOverCap(r)
  PROVE  PathInv'
  <1>1. /\ req[r].pc = "key_reserving" /\ ~ Fits(Key, Reserved(req[r]))
        /\ ClaimOf(r, Key, Reserved(req[r])) /\ UNCHANGED bounds /\ UNCHANGED billed
        /\ Continue(r, [req[r] EXCEPT !.pc = "key_handing_back"])
    BY DEF KeyOverCap, At, Replied
  <1>2. /\ RowBecomes(r, Added(Stakes(r), Key, Reserved(req[r])),
                      Now(Standing(r), Key, "over"))
        /\ BillBecomes(r, Bills(r))
    BY <1>1, KeyClaimRow, SameBill DEF PathInv
  <1>3. PICK f1 \in Nat, c1 \in Nat :
          /\ BoundsBecome(f1, c1)
          /\ Rows(Stakes(r), Standing(r), Bills(r))
          /\ RequestFits(req[r], Stakes(r), Standing(r), Bills(r), f1, c1)
    BY <1>1, Begins
  <1>4. RequestFits([req[r] EXCEPT !.pc = "key_handing_back"],
                    Added(Stakes(r), Key, Reserved(req[r])),
                    Now(Standing(r), Key, "over"), Bills(r), f1, c1)
    BY <1>1, <1>3, KeyOverCapFits
  <1> QED BY <1>1, <1>2, <1>3, <1>4, OneRequest

LEMMA KeyReserveBrokenStep ==
  ASSUME PathInv, NEW r \in Requests, KeyReserveBroken(r)
  PROVE  PathInv'
  <1>1. /\ req[r].pc = "key_reserving" /\ UNCHANGED billed
        /\ Fault \/ Cancellation
        /\ ClaimOf(r, Key, Reserved(req[r])) \/ UNCHANGED books
        /\ Continue(r, Unwind(req[r]))
    BY DEF KeyReserveBroken, At, Errored, Cancelled, Maybe
  <1>2. BillBecomes(r, Bills(r)) /\ TypeOK /\ Conserved
    BY <1>1, SameBill DEF PathInv
  <1>3. PICK f1 \in Nat, c1 \in Nat :
          /\ BoundsBecome(f1, c1) /\ ~ (f1 = 0 /\ c1 = 0)
          /\ Rows(Stakes(r), Standing(r), Bills(r))
          /\ RequestFits(req[r], Stakes(r), Standing(r), Bills(r), f1, c1)
    BY <1>1, Begins
  <1>4. /\ RequestFits(Unwind(req[r]), Stakes(r), Standing(r), Bills(r), f1, c1)
        /\ \A after \in {"granted", "over"} :
             RequestFits(Unwind(req[r]), Added(Stakes(r), Key, Reserved(req[r])),
                         Now(Standing(r), Key, after), Bills(r), f1, c1)
    BY <1>1, <1>3, KeyReserveBrokenFits
  <1>5. CASE UNCHANGED books
    <2>1. RowBecomes(r, Stakes(r), Standing(r))
      BY <1>2, <1>5, SameRow
    <2> QED BY <1>1, <1>2, <1>3, <1>4, <2>1, OneRequest
  <1>6. CASE ClaimOf(r, Key, Reserved(req[r]))
    <2>1. \E after \in {"granted", "over"} :
            RowBecomes(r, Added(Stakes(r), Key, Reserved(req[r])),
                       Now(Standing(r), Key, after))
      BY <1>1, <1>6, KeyClaimRow
    <2>2. PICK after \in {"granted", "over"} :
            RowBecomes(r, Added(Stakes(r), Key, Reserved(req[r])),
                       Now(Standing(r), Key, after))
      BY <2>1
    <2>3. RequestFits(Unwind(req[r]), Added(Stakes(r), Key, Reserved(req[r])),
                      Now(Standing(r), Key, after), Bills(r), f1, c1)
      BY <1>4
    <2> QED BY <1>1, <1>2, <1>3, <2>2, <2>3, OneRequest
  <1> QED BY <1>1, <1>5, <1>6

LEMMA KeyHandedBackStep ==
  ASSUME PathInv, NEW r \in Requests, KeyHandedBack(r)
  PROVE  PathInv'
  <1>1. /\ req[r].pc = "key_handing_back" /\ UNCHANGED billed
        /\ UNCHANGED bounds \/ Fault \/ Cancellation
        /\ \/ HandBackOf(r, Key, Reserved(req[r]))
           \/ (Fault \/ Cancellation) /\ UNCHANGED books
        /\ Continue(r, Unwind(req[r]))
    BY DEF KeyHandedBack, At, Replied, Errored, Cancelled, Maybe
  <1>2. /\ BillBecomes(r, Bills(r)) /\ TypeOK /\ Conserved
        /\ RequestFits(req[r], Stakes(r), Standing(r), Bills(r), faults, cancels)
    BY <1>1, SameBill DEF PathInv, Fit
  <1>3. PICK f1 \in Nat, c1 \in Nat :
          /\ BoundsBecome(f1, c1) /\ (Fault \/ Cancellation => ~ (f1 = 0 /\ c1 = 0))
          /\ Rows(Stakes(r), Standing(r), Bills(r))
          /\ RequestFits(req[r], Stakes(r), Standing(r), Bills(r), f1, c1)
    BY <1>1, Begins
  <1>4. /\ RequestFits(Unwind(req[r]), Added(Stakes(r), Key, - Reserved(req[r])),
                       Now(Standing(r), Key, "returned"), Bills(r), f1, c1)
        /\ Fault \/ Cancellation =>
             RequestFits(Unwind(req[r]), Stakes(r), Standing(r), Bills(r), f1, c1)
    BY <1>1, <1>3, KeyHandedBackFits
  <1>5. CASE (Fault \/ Cancellation) /\ UNCHANGED books
    <2>1. RowBecomes(r, Stakes(r), Standing(r))
      BY <1>2, <1>5, SameRow
    <2> QED BY <1>1, <1>2, <1>3, <1>4, <1>5, <2>1, OneRequest
  <1>6. CASE HandBackOf(r, Key, Reserved(req[r]))
    <2> DEFINE usd == Reserved(req[r])
    <2>1. usd \in Nat /\ Stakes(r)[Key] = usd
      BY <1>1, <1>2, AtKeyClaim
    <2>2. Incr(Key, r, - usd, "returned") /\ "returned" \in Standings
      BY <1>6 DEF HandBackOf, Standings
    <2> HIDE DEF usd
    <2>3. Key \in Ledgers /\ - usd \in Int /\ stake[Key][r] + (- usd) \in 0..Most
      <3>1. Key \in Ledgers /\ Most \in Nat
        BY Names, MostCovers
      <3>2. stake[Key][r] = usd
        BY <1>2, <2>1, <3>1, RowTypes
      <3> QED BY <2>1, <3>1, <3>2
    <2>4. RowBecomes(r, Added(Stakes(r), Key, - usd), Now(Standing(r), Key, "returned"))
      BY <1>2, <2>2, <2>3, IncrRow
    <2> QED BY <1>1, <1>2, <1>3, <1>4, <2>4, OneRequest DEF usd
  <1> QED BY <1>1, <1>5, <1>6

-----------------------------------------------------------------------------
(* The actions: serving *)

\* One attempt, billed or not.
LEMMA BillRow ==
  ASSUME PathInv, NEW r \in Requests, req[r].pc \in {"calling", "streaming"},
         NEW usd \in Prices(r), Bill(r, usd)
  PROVE  \E b1 : BilledOnce(req[r], Bills(r), b1) /\ BillBecomes(r, b1)
  <1> DEFINE p == Provider(r)
  <1>1. /\ p = Current(req[r]) /\ TypeOK
        /\ RequestFits(req[r], Stakes(r), Standing(r), Bills(r), faults, cancels)
        /\ Rows(Stakes(r), Standing(r), Bills(r))
    BY RowTypes DEF PathInv, Fit, Provider, Current
  <1>2. p \in Providers
    BY <1>1, AtRouter
  <1>3. CASE p \in Free
    <2>1. UNCHANGED billed
      BY <1>3 DEF Bill
    <2>2. BillBecomes(r, Bills(r)) /\ BilledOnce(req[r], Bills(r), Bills(r))
      BY <1>1, <2>1, SameBill DEF BilledOnce
    <2> QED BY <2>2
  <1>4. CASE p \notin Free
    <2>1. /\ p \in Billable /\ usd \in 0..Worst
          /\ billed' = [billed EXCEPT ![p] = [billed[p] EXCEPT ![r] = billed[p][r] + usd]]
      BY <1>2, <1>4 DEF Bill, Prices, Billable
    <2>2. /\ billed \in [Billable -> [Requests -> 0..Claim]] /\ usd \in Nat /\ Claim \in Nat
      BY <1>1, <2>1, ClaimType DEF TypeOK
    <2> DEFINE b1 == Added(Bills(r), p, usd)
    <2>3. BilledOnce(req[r], Bills(r), b1)
      BY <1>1, <2>1 DEF BilledOnce
    <2>4. b1 \in [Billable -> 0..Claim]
      BY <1>1, <2>3, BilledFits
    <2>5. billed[p][r] + usd \in 0..Claim
      <3>1. b1[p] = billed[p][r] + usd
        BY <2>1, <2>2 DEF Added, Bills
      <3> QED BY <2>1, <2>4, <3>1
    <2>6. billed' \in [Billable -> [Requests -> 0..Claim]]
      BY <2>1, <2>2, <2>5
    <2>7. /\ billed'[p][r] = billed[p][r] + usd
          /\ \A x \in Requests \ {r} : billed'[p][x] = billed[p][x]
          /\ \A m \in Billable \ {p} : billed'[m] = billed[m]
      BY <2>1, <2>2
    <2>8. Bills(r)' = b1
      BY <2>1, <2>2, <2>7 DEF Bills, Added
    <2>9. \A x \in Requests \ {r} : Bills(x)' = Bills(x)
      BY <2>2, <2>7 DEF Bills
    <2> QED BY <2>3, <2>6, <2>8, <2>9 DEF BillBecomes
  <1> QED BY <1>3, <1>4

LEMMA PriceType ==
  ASSUME PathInv, NEW r \in Requests, req[r].pc \in {"calling", "streaming"},
         NEW usd \in Prices(r)
  PROVE  usd \in 0..Worst /\ (usd > 0 => Current(req[r]) \in Billable)
  <1>1. Provider(r) = Current(req[r]) /\ Provider(r) \in Providers
    BY RowTypes, AtRouter DEF PathInv, Fit, Provider, Current
  <1> QED BY <1>1, ClaimType DEF Prices, Billable

LEMMA RespondStep ==
  ASSUME PathInv, NEW r \in Requests, Respond(r)
  PROVE  PathInv'
  <1>1. /\ req[r].pc = "responding" /\ Continue(r, CallNext(req[r]))
        /\ UNCHANGED books /\ UNCHANGED billed /\ UNCHANGED bounds
    BY DEF Respond, At
  <1>2. RowBecomes(r, Stakes(r), Standing(r)) /\ BillBecomes(r, Bills(r))
    BY <1>1, SameRow, SameBill DEF PathInv
  <1>3. PICK f1 \in Nat, c1 \in Nat :
          /\ BoundsBecome(f1, c1)
          /\ RequestFits(req[r], Stakes(r), Standing(r), Bills(r), f1, c1)
    BY <1>1, Begins
  <1>4. RequestFits(CallNext(req[r]), Stakes(r), Standing(r), Bills(r), f1, c1)
    BY <1>1, <1>3, RespondFits
  <1> QED BY <1>1, <1>2, <1>3, <1>4, OneRequest

LEMMA NotBilledStep ==
  ASSUME PathInv, NEW r \in Requests, BreakerOpen(r) \/ FinalFailure(r)
  PROVE  PathInv'
  <1>1. /\ req[r].pc = "calling" /\ Continue(r, CallNext(req[r]))
        /\ UNCHANGED books /\ UNCHANGED billed /\ UNCHANGED bounds
    BY DEF BreakerOpen, FinalFailure, At
  <1>2. RowBecomes(r, Stakes(r), Standing(r)) /\ BillBecomes(r, Bills(r))
    BY <1>1, SameRow, SameBill DEF PathInv
  <1>3. PICK f1 \in Nat, c1 \in Nat :
          /\ BoundsBecome(f1, c1)
          /\ Rows(Stakes(r), Standing(r), Bills(r))
          /\ RequestFits(req[r], Stakes(r), Standing(r), Bills(r), f1, c1)
    BY <1>1, Begins
  <1>4. BilledOnce(req[r], Bills(r), Bills(r))
    BY DEF BilledOnce
  <1>5. RequestFits(CallNext(req[r]), Stakes(r), Standing(r), Bills(r), f1, c1)
    BY <1>1, <1>3, <1>4, NextCallFits
  <1> QED BY <1>1, <1>2, <1>3, <1>5, OneRequest

LEMMA RetryableFailureStep ==
  ASSUME PathInv, NEW r \in Requests, RetryableFailure(r)
  PROVE  PathInv'
  <1> DEFINE v == IF req[r].retry < Retries THEN [req[r] EXCEPT !.retry = @ + 1]
                  ELSE CallNext(req[r])
  <1>1. /\ req[r].pc = "calling" /\ Continue(r, v)
        /\ UNCHANGED books /\ UNCHANGED bounds
        /\ \E usd \in Prices(r) : Bill(r, usd)
    BY DEF RetryableFailure, At
  <1>2. PICK b1 : BilledOnce(req[r], Bills(r), b1) /\ BillBecomes(r, b1)
    BY <1>1, BillRow
  <1>3. RowBecomes(r, Stakes(r), Standing(r))
    BY <1>1, SameRow DEF PathInv
  <1>4. PICK f1 \in Nat, c1 \in Nat :
          /\ BoundsBecome(f1, c1)
          /\ Rows(Stakes(r), Standing(r), Bills(r))
          /\ RequestFits(req[r], Stakes(r), Standing(r), Bills(r), f1, c1)
    BY <1>1, Begins
  <1>5. RequestFits(v, Stakes(r), Standing(r), b1, f1, c1)
    <2>1. CASE req[r].retry < Retries
      BY <1>1, <1>2, <1>4, <2>1, RetryFits
    <2>2. CASE ~ (req[r].retry < Retries)
      BY <1>1, <1>2, <1>4, <2>2, NextCallFits
    <2> QED BY <2>1, <2>2
  <1> HIDE DEF v
  <1> QED BY <1>1, <1>2, <1>3, <1>4, <1>5, OneRequest

\* The forms in which the code's updates mark an uncounted request.
LEMMA MarkForms ==
  ASSUME NEW q \in Records, q.counted = 0, NEW o
  PROVE  /\ [q EXCEPT !.outcome = o] = Mark(q, o, 0)
         /\ Count([q EXCEPT !.outcome = o]) = Mark(q, o, 1)
         /\ [Count(q) EXCEPT !.outcome = o] = Mark(q, o, 1)
         /\ [q EXCEPT !.outcome = o].kind = q.kind
  <1>1. [q EXCEPT !.outcome = o] = Mark(q, o, 0)
    BY DEF Mark, Records
  <1>2. /\ [q EXCEPT !.outcome = o].counted = 0
        /\ [q EXCEPT !.outcome = o].kind = q.kind
    BY DEF Records
  <1> DEFINE u == [q EXCEPT !.outcome = o]
  <1>3. Count(u) = [u EXCEPT !.counted = 1]
    <2>1. u.counted = 0
      BY <1>2
    <2> HIDE DEF u
    <2> QED BY <2>1 DEF Count
  <1>4. Count([q EXCEPT !.outcome = o]) = Mark(q, o, 1)
    BY <1>3 DEF Mark, Records
  <1>5. Count(q) = [q EXCEPT !.counted = 1]
    BY DEF Count
  <1>6. [Count(q) EXCEPT !.outcome = o] = Mark(q, o, 1)
    BY <1>5 DEF Mark, Records
  <1> QED BY <1>1, <1>2, <1>4, <1>6

\* The last answer of a call, or of a stream.
LEMMA AnswerStep ==
  ASSUME PathInv, NEW r \in Requests, Answer(r) \/ LastChunk(r)
  PROVE  PathInv'
  <1> DEFINE n == IF req[r].kind = "chat" THEN 1 ELSE 0
  <1>1. /\ req[r].pc \in {"calling", "streaming"}
        /\ UNCHANGED books /\ UNCHANGED bounds
    BY DEF Answer, LastChunk, At
  <1>2. PICK f1 \in Nat, c1 \in Nat :
          /\ BoundsBecome(f1, c1)
          /\ Rows(Stakes(r), Standing(r), Bills(r))
          /\ RequestFits(req[r], Stakes(r), Standing(r), Bills(r), f1, c1)
    BY <1>1, Begins
  <1>3. /\ req[r] \in Records /\ req[r].counted = 0
        /\ req[r].pc = "streaming" => req[r].kind # "chat"
    BY <1>1, <1>2, AtRouter
  <1>4. PICK usd \in Prices(r) :
          /\ Bill(r, usd)
          /\ Continue(r, SettleChain(Mark(req[r], "served", n), Provider(r), usd))
    <2>1. CASE Answer(r)
      <3>1. req[r].kind = "chat"
        BY <2>1 DEF Answer
      <3>2. PICK usd \in Prices(r) :
              /\ Bill(r, usd)
              /\ Continue(r, SettleChain([Count(req[r]) EXCEPT !.outcome = "served"],
                                         Provider(r), usd))
        BY <2>1 DEF Answer
      <3>3. [Count(req[r]) EXCEPT !.outcome = "served"] = Mark(req[r], "served", n)
        BY <1>3, <3>1, MarkForms
      <3> QED BY <3>2, <3>3
    <2>2. CASE LastChunk(r)
      <3>1. req[r].kind # "chat"
        BY <1>3, <2>2 DEF LastChunk, At
      <3>2. PICK usd \in Prices(r) :
              /\ Bill(r, usd)
              /\ Continue(r, SettleChain([req[r] EXCEPT !.outcome = "served"],
                                         Provider(r), usd))
        BY <2>2 DEF LastChunk
      <3>3. [req[r] EXCEPT !.outcome = "served"] = Mark(req[r], "served", n)
        BY <1>3, <3>1, MarkForms
      <3> QED BY <3>2, <3>3
    <2> QED BY <2>1, <2>2
  <1>5. /\ n \in 0..1 /\ Provider(r) = Current(req[r])
        /\ n = (IF req[r].kind = "chat" THEN 1 ELSE 0)
    BY DEF Provider, Current
  <1> HIDE DEF n
  <1>6. PICK b1 : BilledOnce(req[r], Bills(r), b1) /\ BillBecomes(r, b1)
    BY <1>1, <1>4, BillRow
  <1>7. RowBecomes(r, Stakes(r), Standing(r))
    BY <1>1, SameRow DEF PathInv
  <1>8. usd \in 0..Worst /\ (usd > 0 => Current(req[r]) \in Billable)
    BY <1>1, PriceType
  <1>9. RequestFits(SettleChain(Mark(req[r], "served", n), Provider(r), usd),
                    Stakes(r), Standing(r), b1, f1, c1)
    BY <1>1, <1>2, <1>5, <1>6, <1>8, AnswerFits
  <1> QED BY <1>2, <1>4, <1>6, <1>7, <1>9, OneRequest

LEMMA FirstChunkStep ==
  ASSUME PathInv, NEW r \in Requests, FirstChunk(r)
  PROVE  PathInv'
  <1>1. /\ req[r].pc = "calling" /\ req[r].kind # "chat"
        /\ UNCHANGED books /\ UNCHANGED billed /\ UNCHANGED bounds
    BY DEF FirstChunk, At
  <1>2. PICK usd \in 0..Claim :
          Continue(r, [req[r] EXCEPT !.pc = "streaming", !.served = Current(req[r]),
                                     !.estimate = usd])
    BY DEF FirstChunk, Provider, Current
  <1>3. RowBecomes(r, Stakes(r), Standing(r)) /\ BillBecomes(r, Bills(r))
    BY <1>1, SameRow, SameBill DEF PathInv
  <1>4. PICK f1 \in Nat, c1 \in Nat :
          /\ BoundsBecome(f1, c1)
          /\ Rows(Stakes(r), Standing(r), Bills(r))
          /\ RequestFits(req[r], Stakes(r), Standing(r), Bills(r), f1, c1)
    BY <1>1, Begins
  <1>5. RequestFits([req[r] EXCEPT !.pc = "streaming", !.served = Current(req[r]),
                                   !.estimate = usd],
                    Stakes(r), Standing(r), Bills(r), f1, c1)
    BY <1>1, <1>4, FirstChunkFits
  <1> QED BY <1>2, <1>3, <1>4, <1>5, OneRequest

LEMMA MidStreamFailureStep ==
  ASSUME PathInv, NEW r \in Requests, MidStreamFailure(r)
  PROVE  PathInv'
  <1>1. /\ req[r].pc = "streaming" /\ Continue(r, AllFailed(req[r]))
        /\ UNCHANGED books /\ UNCHANGED bounds
        /\ \E usd \in Prices(r) : Bill(r, usd)
    BY DEF MidStreamFailure, At
  <1>2. PICK b1 : BilledOnce(req[r], Bills(r), b1) /\ BillBecomes(r, b1)
    BY <1>1, BillRow
  <1>3. RowBecomes(r, Stakes(r), Standing(r))
    BY <1>1, SameRow DEF PathInv
  <1>4. PICK f1 \in Nat, c1 \in Nat :
          /\ BoundsBecome(f1, c1)
          /\ Rows(Stakes(r), Standing(r), Bills(r))
          /\ RequestFits(req[r], Stakes(r), Standing(r), Bills(r), f1, c1)
    BY <1>1, Begins
  <1>5. RequestFits(AllFailed(req[r]), Stakes(r), Standing(r), b1, f1, c1)
    BY <1>1, <1>2, <1>4, NextCallFits
  <1> QED BY <1>1, <1>2, <1>3, <1>4, <1>5, OneRequest

LEMMA CrashStep ==
  ASSUME PathInv, NEW r \in Requests, Crash(r)
  PROVE  PathInv'
  <1> DEFINE q == [req[r] EXCEPT !.outcome = "crashed"]
             v == IF q.kind = "chat" THEN Done(q) ELSE SettleOnAbort(Count(q))
  <1>1. /\ req[r].pc \in {"calling", "streaming"} /\ Fault /\ Continue(r, v)
        /\ UNCHANGED books /\ UNCHANGED billed
    BY DEF Crash, At
  <1>2. RowBecomes(r, Stakes(r), Standing(r)) /\ BillBecomes(r, Bills(r))
    BY <1>1, SameRow, SameBill DEF PathInv
  <1>3. PICK f1 \in Nat, c1 \in Nat :
          /\ BoundsBecome(f1, c1) /\ ~ (f1 = 0 /\ c1 = 0)
          /\ Rows(Stakes(r), Standing(r), Bills(r))
          /\ RequestFits(req[r], Stakes(r), Standing(r), Bills(r), f1, c1)
    BY <1>1, Begins
  <1>4. req[r] \in Records /\ req[r].counted = 0
    BY <1>1, <1>3, AtRouter
  <1>5. /\ q = Mark(req[r], "crashed", 0) /\ Count(q) = Mark(req[r], "crashed", 1)
        /\ q.kind = req[r].kind
    BY <1>4, MarkForms
  <1> HIDE DEF q
  <1>6. BilledOnce(req[r], Bills(r), Bills(r))
    BY DEF BilledOnce
  <1>7. /\ q.kind = "chat" =>
             RequestFits(Done(q), Stakes(r), Standing(r), Bills(r), f1, c1)
        /\ q.kind # "chat" =>
             RequestFits(SettleOnAbort(Count(q)), Stakes(r), Standing(r), Bills(r), f1, c1)
    BY <1>1, <1>3, <1>5, <1>6, BrokenFits
  <1>8. RequestFits(v, Stakes(r), Standing(r), Bills(r), f1, c1)
    BY <1>7
  <1> HIDE DEF v
  <1> QED BY <1>1, <1>2, <1>3, <1>8, OneRequest

LEMMA TailFailsStep ==
  ASSUME PathInv, NEW r \in Requests, TailFails(r)
  PROVE  PathInv'
  <1> DEFINE q == [req[r] EXCEPT !.outcome = "unbooked"]
  <1>1. /\ req[r].pc = "streaming" /\ Fault
        /\ \E usd \in Prices(r) : Bill(r, usd)
        /\ Continue(r, SettleOnAbort(q)) \/ Continue(r, Done(Count(q)))
        /\ UNCHANGED books
    BY DEF TailFails, At
  <1>2. PICK b1 : BilledOnce(req[r], Bills(r), b1) /\ BillBecomes(r, b1)
    BY <1>1, BillRow
  <1>3. RowBecomes(r, Stakes(r), Standing(r))
    BY <1>1, SameRow DEF PathInv
  <1>4. PICK f1 \in Nat, c1 \in Nat :
          /\ BoundsBecome(f1, c1) /\ ~ (f1 = 0 /\ c1 = 0)
          /\ Rows(Stakes(r), Standing(r), Bills(r))
          /\ RequestFits(req[r], Stakes(r), Standing(r), Bills(r), f1, c1)
    BY <1>1, Begins
  <1>5. req[r] \in Records /\ req[r].counted = 0
    BY <1>1, <1>4, AtRouter
  <1>6. q = Mark(req[r], "unbooked", 0) /\ Count(q) = Mark(req[r], "unbooked", 1)
    BY <1>5, MarkForms
  <1> HIDE DEF q
  <1>7. /\ RequestFits(SettleOnAbort(q), Stakes(r), Standing(r), b1, f1, c1)
        /\ RequestFits(Done(Count(q)), Stakes(r), Standing(r), b1, f1, c1)
    BY <1>1, <1>2, <1>4, <1>6, TailFits
  <1> QED BY <1>1, <1>2, <1>3, <1>4, <1>7, OneRequest

LEMMA CancelCallStep ==
  ASSUME PathInv, NEW r \in Requests, CancelCall(r)
  PROVE  PathInv'
  <1> DEFINE q == [req[r] EXCEPT !.outcome = "aborted"]
             v == IF q.kind = "chat" \/ At(r, "responding") THEN Done(q)
                  ELSE SettleOnAbort(Count(q))
  <1>1. /\ req[r].pc \in {"responding", "calling", "streaming"} /\ Cancellation
        /\ Continue(r, v) /\ UNCHANGED books
        /\ IF At(r, "streaming") THEN \E usd \in Prices(r) : Bill(r, usd)
           ELSE UNCHANGED billed
    BY DEF CancelCall, At
  <1>2. RowBecomes(r, Stakes(r), Standing(r))
    BY <1>1, SameRow DEF PathInv
  <1>3. PICK f1 \in Nat, c1 \in Nat :
          /\ BoundsBecome(f1, c1) /\ c1 > 0
          /\ Rows(Stakes(r), Standing(r), Bills(r))
          /\ RequestFits(req[r], Stakes(r), Standing(r), Bills(r), f1, c1)
    BY <1>1, Begins
  <1>4. CASE req[r].pc = "responding"
    <2>1. BillBecomes(r, Bills(r))
      BY <1>1, <1>4, SameBill DEF PathInv, At
    <2>2. v = Done([req[r] EXCEPT !.outcome = "aborted"])
      BY <1>4 DEF At
    <2>3. RequestFits(v, Stakes(r), Standing(r), Bills(r), f1, c1)
      BY <1>3, <1>4, <2>2, NotStartedFits
    <2> HIDE DEF v
    <2> QED BY <1>1, <1>2, <1>3, <2>1, <2>3, OneRequest
  <1>5. CASE req[r].pc \in {"calling", "streaming"}
    <2>1. req[r] \in Records /\ req[r].counted = 0
      BY <1>3, <1>5, AtRouter
    <2>2. /\ q = Mark(req[r], "aborted", 0) /\ Count(q) = Mark(req[r], "aborted", 1)
          /\ q.kind = req[r].kind
      BY <2>1, MarkForms
    <2>3. v = IF q.kind = "chat" THEN Done(q) ELSE SettleOnAbort(Count(q))
      BY <1>5 DEF At
    <2> HIDE DEF q, v
    <2>4. PICK b1 : BilledOnce(req[r], Bills(r), b1) /\ BillBecomes(r, b1)
      <3>1. CASE At(r, "streaming")
        BY <1>1, <1>5, <3>1, BillRow
      <3>2. CASE ~ At(r, "streaming")
        <4>1. BilledOnce(req[r], Bills(r), Bills(r)) /\ BillBecomes(r, Bills(r))
          BY <1>1, <3>2, SameBill DEF PathInv, BilledOnce
        <4> QED BY <4>1
      <3> QED BY <3>1, <3>2
    <2>5. /\ RequestFits(Done(q), Stakes(r), Standing(r), b1, f1, c1)
          /\ q.kind # "chat" =>
               RequestFits(SettleOnAbort(Count(q)), Stakes(r), Standing(r), b1, f1, c1)
      BY <1>3, <1>5, <2>2, <2>4, BrokenFits
    <2>6. RequestFits(v, Stakes(r), Standing(r), b1, f1, c1)
      BY <2>3, <2>5
    <2> QED BY <1>1, <1>2, <1>3, <2>4, <2>6, OneRequest
  <1> QED BY <1>1, <1>4, <1>5

-----------------------------------------------------------------------------
(* The actions: settling *)

LEMMA SettleRow ==
  ASSUME PathInv, NEW r \in Requests, req[r].pc \in {"settling", "unwinding"},
         SettleOf(r, Provider(r), req[r].reserved[Provider(r)], Charge(req[r], Provider(r)))
  PROVE  RowBecomes(r, Swapped(req[r], Stakes(r)), Settled(req[r], Standing(r)))
  <1> DEFINE p == Current(req[r])
             d == Charge(req[r], p) - req[r].reserved[p]
  <1>1. /\ p = Provider(r) /\ TypeOK /\ Conserved
        /\ RequestFits(req[r], Stakes(r), Standing(r), Bills(r), faults, cancels)
    BY DEF PathInv, Fit, Provider, Current
  <1>2. /\ p \in Billable /\ Stakes(r)[p] = Claim
        /\ req[r].reserved[p] = Claim /\ Charge(req[r], p) \in 0..Claim
    BY <1>1, AtLoop
  <1>3. Incr(p, r, d, "settled")
    BY <1>1 DEF SettleOf
  <1>4. /\ Swapped(req[r], Stakes(r)) = Added(Stakes(r), p, d)
        /\ Settled(req[r], Standing(r)) = Now(Standing(r), p, "settled")
    BY DEF Swapped, Settled
  <1> HIDE DEF p
  <1>5. p \in Ledgers /\ d \in Int /\ stake[p][r] + d \in 0..Most
    <2>1. p \in Ledgers /\ Claim \in Nat /\ 0..Claim \subseteq 0..Most
      BY <1>2, Names, ClaimType, MostCovers
    <2>2. stake[p][r] = Claim
      BY <1>1, <1>2, <2>1, RowTypes
    <2>3. d \in Int /\ Claim + d = Charge(req[r], p)
      BY <1>2, <2>1
    <2> HIDE DEF d
    <2> QED BY <1>2, <2>1, <2>2, <2>3
  <1>6. "settled" \in Standings
    BY DEF Standings
  <1> HIDE DEF d
  <1>7. RowBecomes(r, Added(Stakes(r), p, d), Now(Standing(r), p, "settled"))
    BY <1>1, <1>3, <1>5, <1>6, IncrRow
  <1> QED BY <1>4, <1>7

LEMMA SettleProviderStep ==
  ASSUME PathInv, NEW r \in Requests, SettleProvider(r)
  PROVE  PathInv'
  <1> DEFINE incr == SettleOf(r, Provider(r), req[r].reserved[Provider(r)],
                              Charge(req[r], Provider(r)))
  <1>1. /\ req[r].pc \in {"settling", "unwinding"} /\ UNCHANGED billed
        /\ \/ incr /\ UNCHANGED bounds /\ Continue(r, SettleOn(req[r]))
           \/ (incr \/ UNCHANGED books) /\ Fault /\ Continue(r, SettleOn(req[r]))
           \/ /\ incr \/ UNCHANGED books
              /\ Cancellation /\ Continue(r, SettleOn(HeldBack(req[r])))
    BY DEF SettleProvider, At, Replied, Errored, Cancelled, Maybe, HeldBack
  <1> HIDE DEF incr
  <1>2. BillBecomes(r, Bills(r)) /\ TypeOK /\ Conserved
    BY <1>1, SameBill DEF PathInv
  <1>3. PICK f1 \in Nat, c1 \in Nat :
          /\ BoundsBecome(f1, c1) /\ (Fault => ~ (f1 = 0 /\ c1 = 0))
          /\ (Cancellation => c1 > 0)
          /\ Rows(Stakes(r), Standing(r), Bills(r))
          /\ RequestFits(req[r], Stakes(r), Standing(r), Bills(r), f1, c1)
    BY <1>1, Begins
  <1> DEFINE s1 == Swapped(req[r], Stakes(r))
             t1 == Settled(req[r], Standing(r))
  <1>4. /\ RequestFits(SettleOn(req[r]), s1, t1, Bills(r), f1, c1)
        /\ c1 > 0 => RequestFits(SettleOn(HeldBack(req[r])), s1, t1, Bills(r), f1, c1)
        /\ ~ (f1 = 0 /\ c1 = 0) =>
             RequestFits(SettleOn(req[r]), Stakes(r), Standing(r), Bills(r), f1, c1)
        /\ c1 > 0 =>
             RequestFits(SettleOn(HeldBack(req[r])), Stakes(r), Standing(r), Bills(r), f1, c1)
    BY <1>1, <1>3, SettledFits
  <1> HIDE DEF s1, t1
  <1>5. incr => RowBecomes(r, s1, t1)
    BY <1>1, SettleRow DEF incr, s1, t1
  <1>6. UNCHANGED books => RowBecomes(r, Stakes(r), Standing(r))
    BY <1>2, SameRow
  <1>7. CASE Continue(r, SettleOn(req[r])) /\ incr
    BY <1>2, <1>3, <1>4, <1>5, <1>7, OneRequest
  <1>8. CASE Continue(r, SettleOn(req[r])) /\ UNCHANGED books /\ Fault
    BY <1>2, <1>3, <1>4, <1>6, <1>8, OneRequest
  <1>9. CASE Continue(r, SettleOn(HeldBack(req[r]))) /\ incr /\ Cancellation
    BY <1>2, <1>3, <1>4, <1>5, <1>9, OneRequest
  <1>10. CASE Continue(r, SettleOn(HeldBack(req[r]))) /\ UNCHANGED books /\ Cancellation
    BY <1>2, <1>3, <1>4, <1>6, <1>10, OneRequest
  <1> QED BY <1>1, <1>7, <1>8, <1>9, <1>10

LEMMA SettleTheKeyStep ==
  ASSUME PathInv, NEW r \in Requests, SettleTheKey(r)
  PROVE  PathInv'
  <1> DEFINE d == req[r].actual - Reserved(req[r])
             incr == Incr(Key, r, d, "settled")
  <1>1. /\ req[r].pc = "settling_key" /\ UNCHANGED billed
        /\ \/ incr /\ UNCHANGED bounds /\ Continue(r, AfterSettle(req[r]))
           \/ (incr \/ UNCHANGED books) /\ Fault /\ Continue(r, AfterSettle(req[r]))
           \/ (incr \/ UNCHANGED books) /\ Cancellation /\ Continue(r, Done(req[r]))
    BY DEF SettleTheKey, At, Replied, Errored, Cancelled, Maybe, SettleOf
  <1>2. /\ BillBecomes(r, Bills(r)) /\ TypeOK /\ Conserved
        /\ RequestFits(req[r], Stakes(r), Standing(r), Bills(r), faults, cancels)
    BY <1>1, SameBill DEF PathInv, Fit
  <1>3. PICK f1 \in Nat, c1 \in Nat :
          /\ BoundsBecome(f1, c1) /\ (Fault => ~ (f1 = 0 /\ c1 = 0))
          /\ (Cancellation => c1 > 0)
          /\ Rows(Stakes(r), Standing(r), Bills(r))
          /\ RequestFits(req[r], Stakes(r), Standing(r), Bills(r), f1, c1)
    BY <1>1, Begins
  <1> DEFINE s1 == Added(Stakes(r), Key, d)
             t1 == Now(Standing(r), Key, "settled")
  <1>4. /\ RequestFits(AfterSettle(req[r]), s1, t1, Bills(r), f1, c1)
        /\ c1 > 0 => RequestFits(Done(req[r]), s1, t1, Bills(r), f1, c1)
        /\ ~ (f1 = 0 /\ c1 = 0) =>
             RequestFits(AfterSettle(req[r]), Stakes(r), Standing(r), Bills(r), f1, c1)
        /\ c1 > 0 => RequestFits(Done(req[r]), Stakes(r), Standing(r), Bills(r), f1, c1)
    BY <1>1, <1>3, KeySettledFits
  <1>5. incr => RowBecomes(r, s1, t1)
    <2>1. /\ Stakes(r)[Key] = Reserved(req[r]) /\ Reserved(req[r]) \in Nat
          /\ req[r].actual \in 0..Most
      BY <1>1, <1>2, AtKeySettle
    <2>2. Key \in Ledgers /\ Most \in Nat /\ "settled" \in Standings
      BY Names, MostCovers DEF Standings
    <2>3. d \in Int /\ stake[Key][r] + d \in 0..Most
      <3>1. stake[Key][r] = Reserved(req[r])
        BY <1>2, <2>1, <2>2, RowTypes
      <3> QED BY <2>1, <2>2, <3>1
    <2> HIDE DEF d
    <2> QED BY <1>2, <2>2, <2>3, IncrRow
  <1>6. UNCHANGED books => RowBecomes(r, Stakes(r), Standing(r))
    BY <1>2, SameRow
  <1> HIDE DEF incr, s1, t1
  <1>7. CASE Continue(r, AfterSettle(req[r])) /\ incr
    BY <1>2, <1>3, <1>4, <1>5, <1>7, OneRequest
  <1>8. CASE Continue(r, AfterSettle(req[r])) /\ UNCHANGED books /\ Fault
    BY <1>2, <1>3, <1>4, <1>6, <1>8, OneRequest
  <1>9. CASE Continue(r, Done(req[r])) /\ incr /\ Cancellation
    BY <1>2, <1>3, <1>4, <1>5, <1>9, OneRequest
  <1>10. CASE Continue(r, Done(req[r])) /\ UNCHANGED books /\ Cancellation
    BY <1>2, <1>3, <1>4, <1>6, <1>10, OneRequest
  <1> QED BY <1>1, <1>7, <1>8, <1>9, <1>10

\* The writes of the audit log, and the last yield, leave the books alone.
LEMMA RowStep ==
  ASSUME PathInv, NEW r \in Requests,
         Audit(r) \/ AuditRaises(r) \/ AuditFailure(r) \/ Stop(r)
  PROVE  PathInv'
  <1>1. /\ UNCHANGED books /\ UNCHANGED billed
        /\ UNCHANGED bounds \/ Fault \/ Cancellation
    BY DEF Audit, AuditRaises, AuditFailure, Stop
  <1>2. RowBecomes(r, Stakes(r), Standing(r)) /\ BillBecomes(r, Bills(r))
    BY <1>1, SameRow, SameBill DEF PathInv
  <1>3. PICK f1 \in Nat, c1 \in Nat :
          /\ BoundsBecome(f1, c1) /\ (Cancellation => c1 > 0)
          /\ RequestFits(req[r], Stakes(r), Standing(r), Bills(r), f1, c1)
    BY <1>1, Begins
  <1>4. \E v : /\ Continue(r, v)
               /\ RequestFits(v, Stakes(r), Standing(r), Bills(r), f1, c1)
    <2>1. CASE Audit(r)
      <3>1. /\ req[r].pc = "auditing"
            /\ \/ Continue(r, AfterAudit(req[r]))
               \/ Cancellation /\ Continue(r, Done(req[r]))
        BY <2>1 DEF Audit, At
      <3> QED BY <1>3, <3>1, AuditFits
    <2>2. CASE AuditFailure(r)
      <3>1. /\ req[r].pc = "auditing_failure"
            /\ \/ Continue(r, SettleOnAbort(req[r]))
               \/ Cancellation /\ Continue(r, Done(req[r]))
        BY <2>2 DEF AuditFailure, At
      <3> QED BY <1>3, <3>1, AuditFailureFits
    <2>3. CASE Stop(r)
      <3>1. /\ req[r].pc = "stopping"
            /\ \/ Continue(r, Done(Count(req[r])))
               \/ Cancellation /\ Continue(r, Done(req[r]))
        BY <2>3 DEF Stop, At
      <3> QED BY <1>3, <3>1, StopFits
    <2>4. CASE AuditRaises(r)
      <3>1. /\ req[r].pc = "auditing" /\ req[r].outcome = "served"
            /\ Continue(r, Done(IF req[r].kind = "chat" THEN req[r] ELSE Count(req[r])))
        BY <2>4 DEF AuditRaises, At
      <3> QED BY <1>3, <3>1, AuditRaisesFits
    <2> QED BY <2>1, <2>2, <2>3, <2>4
  <1> QED BY <1>2, <1>3, <1>4, OneRequest

-----------------------------------------------------------------------------
(* The invariant *)

LEMMA ArrivedFits ==
  ASSUME NEW k \in Kinds, NEW chain \in Chains, NEW u \in Unpriced,
         NEW s \in [Ledgers -> {0}], NEW t \in [Ledgers -> {"new"}],
         NEW b \in [Billable -> {0}]
  PROVE  RequestFits(Arrived(k, chain, u), s, t, b, 0, 0)
  <1> DEFINE q == Arrived(k, chain, u)
  <1>1. /\ Claim \in Nat \ {0} /\ Retries \in Nat /\ Most \in Nat /\ u \subseteq Billable
        /\ Billable \subseteq Ledgers /\ Key \in Ledgers
    BY PathAssumption, ClaimType, MostCovers, Names
  <1>2. /\ q.pc = "start" /\ q.chain = chain /\ q.outcome = "none" /\ q.hop = 0
        /\ q.reserved = [p \in Billable |-> 0] /\ q.served = Nobody /\ q.actual = 0
        /\ q.held = FALSE /\ q.settles = 0 /\ q.counted = 0
    BY DEF Arrived
  <1>3. q \in Records
    <2>1. /\ "start" \in Points /\ "none" \in Outcomes /\ 0 \in Nat /\ 0 \in 0..Retries
          /\ 0 \in 0..Most /\ 0 \in 0..Claim /\ u \cap Hops(chain) \in SUBSET Billable
          /\ [p \in Billable |-> 0] \in [Billable -> 0..Claim]
      BY <1>1 DEF Points, Outcomes
    <2> QED BY <2>1 DEF Arrived, Records
  <1> HIDE DEF q
  <1>4. Everywhere(q, s, t, b, 0)
    BY <1>1, <1>2, Names
       DEF Everywhere, ClaimFits, KeyFits, ServedFits, BillFits, CountFits
  <1>5. Fresh(q, t, b) /\ Untouched(q, 1, t) /\ t[Key] = "new"
    BY <1>1, <1>2 DEF Fresh, NoneSettled, Untouched
  <1>6. PointFits(q, s, t, b, 0)
    BY <1>2, <1>5 DEF PointFits
  <1>7. QuietFits(q, s)
    BY <1>1, <1>2 DEF QuietFits, ExceptHandingBack
  <1>8. RequestFits(q, s, t, b, 0, 0)
    BY <1>3, <1>4, <1>6, <1>7 DEF RequestFits
  <1> QED BY <1>8 DEF q

LEMMA InitPathInv == Init => PathInv
  <1> SUFFICES ASSUME Init PROVE PathInv
    OBVIOUS
  <1>1. /\ 0 \in 0..Most /\ 0 \in 0..Claim /\ 0 \in 0..MaxFaults /\ 0 \in 0..MaxCancels
    BY PathAssumption, MostCovers, ClaimType
  <1>2. ASSUME NEW r \in Requests
        PROVE  req[r] \in Records /\ Fit(r)
    <2>1. PICK k \in Kinds, chain \in Chains, u \in Unpriced : req[r] = Arrived(k, chain, u)
      BY DEF Init
    <2>2. /\ Stakes(r) \in [Ledgers -> {0}] /\ Standing(r) \in [Ledgers -> {"new"}]
          /\ Bills(r) \in [Billable -> {0}] /\ faults = 0 /\ cancels = 0
      BY DEF Init, Stakes, Standing, Bills
    <2>3. RequestFits(req[r], Stakes(r), Standing(r), Bills(r), 0, 0)
      BY <2>1, <2>2, ArrivedFits
    <2> QED BY <2>2, <2>3 DEF Fit, RequestFits
  <1>3. req \in [Requests -> Records]
    BY <1>2 DEF Init
  <1>4. TypeOK
    BY <1>1, <1>3 DEF Init, TypeOK, Records
  <1>5. Conserved
    <2> SUFFICES ASSUME NEW l \in Ledgers PROVE ledger[l] = Total(stake[l], Requests)
      BY DEF Conserved
    <2>1. ledger[l] = 0 /\ \A r \in Requests : stake[l][r] = 0
      BY DEF Init
    <2> QED BY <2>1, TotalZero
  <1> QED BY <1>2, <1>4, <1>5 DEF PathInv

LEMMA StutterPathInv == PathInv /\ UNCHANGED vars => PathInv'
  <1> SUFFICES ASSUME PathInv, UNCHANGED vars PROVE PathInv'
    OBVIOUS
  <1>1. /\ req' = req /\ ledger' = ledger /\ stake' = stake /\ standing' = standing
        /\ billed' = billed /\ faults' = faults /\ cancels' = cancels
    BY DEF vars, books, bounds
  <1>2. TypeOK' /\ Conserved'
    BY <1>1 DEF PathInv, TypeOK, Conserved
  <1>3. \A r \in Requests : Fit(r)'
    BY <1>1 DEF PathInv, Fit, Stakes, Standing, Bills
  <1> QED BY <1>2, <1>3 DEF PathInv

LEMMA NextPathInv == PathInv /\ [Next]_vars => PathInv'
  <1>1. ASSUME PathInv, NEW r \in Requests, Reserving(r)
        PROVE  PathInv'
    BY <1>1, StartStep, GrantedStep, OverCapStep, ReserveBrokenStep, HandedBackStep,
       HandBackCancelledStep, KeyGrantedStep, KeyOverCapStep, KeyReserveBrokenStep,
       KeyHandedBackStep DEF Reserving
  <1>2. ASSUME PathInv, NEW r \in Requests, Serving(r)
        PROVE  PathInv'
    BY <1>2, RespondStep, NotBilledStep, RetryableFailureStep, AnswerStep,
       FirstChunkStep, MidStreamFailureStep, CrashStep, TailFailsStep, CancelCallStep
       DEF Serving
  <1>3. ASSUME PathInv, NEW r \in Requests, Settling(r)
        PROVE  PathInv'
    BY <1>3, SettleProviderStep, SettleTheKeyStep, RowStep DEF Settling
  <1> QED BY <1>1, <1>2, <1>3, StutterPathInv DEF Next, Step

\* The invariant of the path: what is said of each request by what it claimed,
\* where it stands and what went wrong so far holds at every await.
THEOREM PathInvariance == Spec => []PathInv
  BY InitPathInv, NextPathInv, PTL DEF Spec

\* Every local of a request, every Redis number and every bill keeps its type:
\* no number goes below zero, no stake above what the request could have claimed.
THEOREM PathTypes == Spec => []TypeOK
  <1>1. PathInv => TypeOK
    BY DEF PathInv
  <1> QED BY <1>1, PathInvariance, PTL

\* A request that no error and no cancellation disturbed leaves its cost on the
\* ledger of the provider that served it and on the key's, and nothing anywhere
\* else: whatever it claimed on the way is given back (_settle_chain, the refund
\* of _reserve_chain).
THEOREM UndisturbedSettlesExactly == Spec => []SettledExactly
  <1>1. PathInv => SettledExactly
    <2> SUFFICES ASSUME PathInv, NEW r \in Requests, At(r, "done"), faults = 0, cancels = 0,
                        NEW l \in Ledgers
                 PROVE  stake[l][r] = IF l \in {Key, req[r].served} THEN req[r].actual ELSE 0
      BY DEF SettledExactly
    <2>1. QuietFits(req[r], Stakes(r)) /\ req[r].pc = "done"
      BY DEF PathInv, Fit, RequestFits, At
    <2>2. Charged(req[r], Stakes(r)) /\ Stakes(r)[Key] = req[r].actual
      BY <2>1 DEF QuietFits
    <2>3. Stakes(r)[l] = stake[l][r]
      BY DEF Stakes
    <2>4. CASE l = Key
      BY <2>2, <2>3, <2>4
    <2>5. CASE l \in Billable
      <3>1. l # Key /\ stake[l][r] = Charge(req[r], l)
        BY <2>2, <2>3, <2>5, Names DEF Charged
      <3> QED BY <3>1 DEF Charge
    <2> QED BY <2>4, <2>5, Names
  <1> QED BY <1>1, PathInvariance, PTL

\* A settlement leaves the key's ledger with the whole claim, with the cost, or,
\* if there was nothing to claim, with nothing.
LEMMA SettledKeyFits ==
  ASSUME NEW q, NEW s, NEW t, NEW b, NEW f, NEW c, RequestFits(q, s, t, b, f, c),
         q.settles > 0
  PROVE  KeySettled(q, t)
  <1>1. /\ PointFits(q, s, t, b, c) /\ q.pc \in Points /\ q.settles # 0
    BY DEF RequestFits, Records
  <1>2. CASE q.pc \in {"start", "reserving", "handing_back", "key_reserving",
                       "key_handing_back", "responding"}
    BY <1>1, <1>2 DEF PointFits, ReservingFits, HandingBackFits, KeyReservingFits, Fresh
  <1>3. CASE q.pc \in {"calling", "streaming", "auditing_failure", "unwinding"}
    BY <1>1, <1>3 DEF PointFits, RouterFits, Admitted, Unwound
  <1>4. CASE q.pc \in {"settling", "settling_key", "auditing", "stopping", "done"}
    BY <1>1, <1>4 DEF PointFits, KeySettled, KeyHeld
  <1> QED BY <1>1, <1>2, <1>3, <1>4 DEF Points

\* Once a cost is known, neither ledger ever holds less than it, whatever fails
\* or is cancelled while it is settled: a settlement that Redis did not execute
\* leaves the larger claim.
THEOREM CostsAreNeverForgotten == Spec => []KnownCostIsKept
  <1>1. PathInv => KnownCostIsKept
    <2> SUFFICES ASSUME PathInv, NEW r \in Requests, req[r].served \in Billable,
                        req[r].settles > 0, NEW l \in {Key, req[r].served}
                 PROVE  stake[l][r] >= req[r].actual
      BY DEF KnownCostIsKept
    <2> DEFINE q == req[r]
               s == Stakes(r)
               t == Standing(r)
    <2>1. /\ RequestFits(q, s, t, Bills(r), faults, cancels)
          /\ q \in Records /\ Everywhere(q, s, t, Bills(r), cancels)
      BY DEF PathInv, Fit, RequestFits
    <2>2. KeySettled(q, t)
      BY <2>1, SettledKeyFits
    <2>3. /\ Reserved(q) \in Nat /\ q.actual \in Nat /\ q.actual <= Reserved(q)
      <3>1. /\ Reserved(q) \in 0..Most /\ q.actual \in 0..Most /\ Most \in Nat
            /\ q.actual <= Reserved(q)
        BY <2>1, ReservedCovers
      <3> QED BY <3>1
    <2>4. s[l] = stake[l][r]
      BY Names DEF Stakes
    <2> HIDE DEF q, s, t
    <2>5. CASE l = Key
      BY <2>1, <2>2, <2>3, <2>4, <2>5 DEF KeySettled, KeyHeld, Everywhere, KeyFits, q
    <2>6. CASE l = q.served
      <3>1. /\ l \in Billable /\ q.reserved[l] = Claim /\ q.actual <= Claim
            /\ Charge(q, l) = q.actual
        BY <2>1, <2>6 DEF Everywhere, ServedFits, Charge, q
      <3>2. s[l] = Claim \/ s[l] = q.actual
        BY <2>1, <3>1 DEF Everywhere, ClaimFits
      <3> QED BY <2>3, <2>4, <3>1, <3>2, ClaimType DEF q
    <2> QED BY <2>5, <2>6 DEF q
  <1> QED BY <1>1, PathInvariance, PTL

\* While the router is at work, all that any provider has billed for any attempt,
\* the ones that timed out included, is covered by the request's claims, on the
\* provider's ledger and on the key's.
THEOREM BillsAreCovered == Spec => []OpenBillsAreClaimed
  <1>1. PathInv => OpenBillsAreClaimed
    <2> SUFFICES ASSUME PathInv, NEW r \in Requests, At(r, "calling") \/ At(r, "streaming")
                 PROVE  /\ \A p \in Billable : billed[p][r] <= stake[p][r]
                        /\ Total(Bills(r), Billable) <= stake[Key][r]
      BY DEF OpenBillsAreClaimed, Bills
    <2> DEFINE q == req[r]
               s == Stakes(r)
               t == Standing(r)
               b == Bills(r)
    <2>1. /\ RequestFits(q, s, t, b, faults, cancels) /\ Rows(s, t, b) /\ TypeOK
          /\ q.pc \in {"calling", "streaming"}
      BY RowTypes DEF PathInv, Fit, At
    <2>2. q \in Records /\ Everywhere(q, s, t, b, cancels) /\ Admitted(q, t)
      BY <2>1, AtRouter
    <2>3. /\ \A p \in Billable : b[p] = billed[p][r] /\ s[p] = stake[p][r]
          /\ s[Key] = stake[Key][r]
      BY Names DEF Bills, Stakes
    <2> HIDE DEF q, s, t, b
    <2>4. /\ \A p \in Billable : b[p] \in 0..Claim /\ q.reserved[p] \in 0..Claim
          /\ Claim \in Nat /\ IsFiniteSet(Billable)
      BY <2>1, <2>2, ClaimType, Names DEF Rows, Records
    <2>5. ASSUME NEW p \in Billable
          PROVE  b[p] <= s[p] /\ b[p] <= q.reserved[p]
      <3>1. CASE b[p] = 0
        <4>1. s[p] \in 0..Most
          BY <2>1, Names DEF Rows
        <4> QED BY <2>4, <3>1, <4>1, MostCovers
      <3>2. CASE b[p] > 0
        <4>1. q.reserved[p] = Claim /\ t[p] = "granted" /\ s[p] = Claim
          BY <2>2, <3>2 DEF Everywhere, BillFits, ClaimFits, Admitted, NoneSettled
        <4> QED BY <2>4, <4>1
      <3> QED BY <2>4, <3>1, <3>2
    <2>6. Total(b, Billable) <= Reserved(q)
      <3> DEFINE g == q.reserved
      <3>1. \A p \in Billable : b[p] \in 0..Claim /\ g[p] \in 0..Claim /\ b[p] <= g[p]
        BY <2>4, <2>5
      <3> HIDE DEF g
      <3>2. Total(b, Billable) <= Total(g, Billable)
        BY <2>4, <3>1, TotalMonotone
      <3> QED BY <3>2 DEF Reserved, g
    <2>7. s[Key] = Reserved(q)
      BY <2>2 DEF Admitted, KeyHeld, Everywhere, KeyFits
    <2> QED BY <2>3, <2>5, <2>6, <2>7 DEF b
  <1> QED BY <1>1, PathInvariance, PTL

\* No request is counted under two statuses, and one that nobody cancelled ends
\* counted under one, unless it was refused or is a chat in which something
\* unexpected was raised: those under none (REQUEST_COUNT).
THEOREM EachCountedOnce == Spec => []CountedOnce
  <1>1. PathInv => CountedOnce
    BY DEF PathInv, Fit, RequestFits, PointFits, Everywhere, CountFits, CountedOnce, At
  <1> QED BY <1>1, PathInvariance, PTL

-----------------------------------------------------------------------------
(* Every ledger is a SpendLedger *)

LedgerStep(l) == [Book(l)!LedgerNext]_(Book(l)!ledgerVars)

\* A command on one ledger is a step of that ledger and a stutter of the others.
LEMMA OtherLedgersStay ==
  ASSUME TypeOK, NEW r \in Requests, NEW l \in Ledgers, NEW d, NEW after,
         Incr(l, r, d, after)
  PROVE  /\ ledger'[l] = ledger[l] + d
         /\ stake'[l] = [stake[l] EXCEPT ![r] = stake[l][r] + d]
         /\ standing'[l] = [standing[l] EXCEPT ![r] = after]
         /\ \A m \in Ledgers \ {l} : LedgerStep(m)
  <1>1. /\ ledger \in [Ledgers -> Nat]
        /\ stake \in [Ledgers -> [Requests -> 0..Most]]
        /\ standing \in [Ledgers -> [Requests -> Standings]]
    BY DEF TypeOK, Standings
  <1>2. /\ ledger'[l] = ledger[l] + d
        /\ stake'[l] = [stake[l] EXCEPT ![r] = stake[l][r] + d]
        /\ standing'[l] = [standing[l] EXCEPT ![r] = after]
    BY <1>1 DEF Incr
  <1>3. \A m \in Ledgers \ {l} :
          ledger'[m] = ledger[m] /\ stake'[m] = stake[m] /\ standing'[m] = standing[m]
    BY <1>1 DEF Incr
  <1>4. \A m \in Ledgers \ {l} : LedgerStep(m)
    BY <1>3 DEF LedgerStep, Book!ledgerVars
  <1> QED BY <1>2, <1>4

LEMMA ClaimIsLedgerStep ==
  ASSUME TypeOK, NEW r \in Requests, NEW l \in Ledgers, NEW usd \in 1..Most,
         standing[l][r] = "new", stake[l][r] = 0, ClaimOf(r, l, usd)
  PROVE  \A m \in Ledgers : LedgerStep(m)
  <1> DEFINE after == IF Fits(l, usd) THEN "granted" ELSE "over"
  <1>1. /\ ledger'[l] = ledger[l] + usd
        /\ stake'[l] = [stake[l] EXCEPT ![r] = stake[l][r] + usd]
        /\ standing'[l] = [standing[l] EXCEPT ![r] = after]
        /\ \A m \in Ledgers \ {l} : LedgerStep(m)
    <2>1. Incr(l, r, usd, after)
      BY DEF ClaimOf
    <2> HIDE DEF after
    <2> QED BY <2>1, OtherLedgersStay
  <1>2. stake[l][r] + usd = usd
    BY MostCovers
  <1>3. after = IF ledger[l] + usd <= CapOf(l) THEN "granted" ELSE "over"
    BY DEF Fits
  <1> HIDE DEF after
  <1>4. Book(l)!Claim(r, usd)
    BY <1>1, <1>2, <1>3 DEF Book!Claim
  <1>5. LedgerStep(l)
    BY <1>4 DEF LedgerStep, Book!LedgerNext
  <1> QED BY <1>1, <1>5

LEMMA HandBackIsLedgerStep ==
  ASSUME TypeOK, NEW r \in Requests, NEW l \in Ledgers, NEW usd \in 0..Most,
         standing[l][r] = "over", stake[l][r] = usd, HandBackOf(r, l, usd)
  PROVE  \A m \in Ledgers : LedgerStep(m)
  <1>1. /\ ledger'[l] = ledger[l] + (- usd)
        /\ stake'[l] = [stake[l] EXCEPT ![r] = stake[l][r] + (- usd)]
        /\ standing'[l] = [standing[l] EXCEPT ![r] = "returned"]
        /\ \A m \in Ledgers \ {l} : LedgerStep(m)
    BY OtherLedgersStay DEF HandBackOf
  <1>2. /\ stake[l][r] + (- usd) = 0
        /\ ledger[l] + (- usd) = ledger[l] - stake[l][r]
    BY MostCovers DEF TypeOK
  <1>3. Book(l)!HandBack(r)
    BY <1>1, <1>2 DEF Book!HandBack
  <1>4. LedgerStep(l)
    BY <1>3 DEF LedgerStep, Book!LedgerNext
  <1> QED BY <1>1, <1>4

LEMMA SettleIsLedgerStep ==
  ASSUME TypeOK, NEW r \in Requests, NEW l \in Ledgers,
         NEW claimed \in 0..Most, NEW usd \in 0..Most, usd <= claimed,
         standing[l][r] = "granted", stake[l][r] = claimed, SettleOf(r, l, claimed, usd)
  PROVE  \A m \in Ledgers : LedgerStep(m)
  <1>1. /\ ledger'[l] = ledger[l] + (usd - claimed)
        /\ stake'[l] = [stake[l] EXCEPT ![r] = stake[l][r] + (usd - claimed)]
        /\ standing'[l] = [standing[l] EXCEPT ![r] = "settled"]
        /\ \A m \in Ledgers \ {l} : LedgerStep(m)
    BY OtherLedgersStay DEF SettleOf
  <1>2. /\ stake[l][r] + (usd - claimed) = usd
        /\ ledger[l] + (usd - claimed) = ledger[l] - stake[l][r] + usd
    BY MostCovers DEF TypeOK
  <1>3. Book(l)!Swap(r, usd)
    BY <1>1, <1>2 DEF Book!Swap
  <1>4. LedgerStep(l)
    BY <1>3 DEF LedgerStep, Book!LedgerNext
  <1> QED BY <1>1, <1>4

\* What a step does to the books, and where the request stands when it does.
BooksMove(r) ==
  LET q == req[r]
      p == Provider(r) IN
  \/ UNCHANGED books
  \/ q.pc = "reserving" /\ ClaimOf(r, p, Claim)
  \/ q.pc = "handing_back" /\ HandBackOf(r, p, Claim)
  \/ q.pc = "key_reserving" /\ ClaimOf(r, Key, Reserved(q))
  \/ q.pc = "key_handing_back" /\ HandBackOf(r, Key, Reserved(q))
  \/ q.pc \in {"settling", "unwinding"} /\ SettleOf(r, p, q.reserved[p], Charge(q, p))
  \/ q.pc = "settling_key" /\ SettleOf(r, Key, Reserved(q), q.actual)

LEMMA StepMovesBooks ==
  ASSUME NEW r \in Requests, Step(r)
  PROVE  BooksMove(r)
  <1>1. CASE Serving(r) \/ Start(r) \/ Audit(r) \/ AuditRaises(r) \/ AuditFailure(r) \/ Stop(r)
    <2>1. UNCHANGED books
      BY <1>1 DEF Serving, Start, Respond, BreakerOpen, RetryableFailure, FinalFailure,
                  Answer, FirstChunk, LastChunk, MidStreamFailure, Crash, TailFails,
                  CancelCall, Audit, AuditRaises, AuditFailure, Stop
    <2> QED BY <2>1 DEF BooksMove
  <1>2. CASE Granted(r) \/ OverCap(r) \/ ReserveBroken(r)
    BY <1>2 DEF BooksMove, Granted, OverCap, ReserveBroken, At, Replied, Errored,
                Cancelled, Maybe
  <1>3. CASE HandedBack(r) \/ HandBackCancelled(r)
    BY <1>3 DEF BooksMove, HandedBack, HandBackCancelled, At, Replied, Errored,
                Cancelled, Maybe
  <1>4. CASE KeyGranted(r) \/ KeyOverCap(r) \/ KeyReserveBroken(r)
    BY <1>4 DEF BooksMove, KeyGranted, KeyOverCap, KeyReserveBroken, At, Replied, Errored,
                Cancelled, Maybe
  <1>5. CASE KeyHandedBack(r)
    BY <1>5 DEF BooksMove, KeyHandedBack, At, Replied, Errored, Cancelled, Maybe
  <1>6. CASE SettleProvider(r)
    BY <1>6 DEF BooksMove, SettleProvider, At, Replied, Errored, Cancelled, Maybe
  <1>7. CASE SettleTheKey(r)
    BY <1>7 DEF BooksMove, SettleTheKey, At, Replied, Errored, Cancelled, Maybe
  <1> QED BY <1>1, <1>2, <1>3, <1>4, <1>5, <1>6, <1>7 DEF Step, Reserving, Settling

LEMMA StepOfLedgers ==
  ASSUME PathInv, NEW r \in Requests, Step(r)
  PROVE  \A l \in Ledgers : LedgerStep(l)
  <1> DEFINE q == req[r]
             p == Provider(r)
             s == Stakes(r)
             t == Standing(r)
  <1>1. /\ TypeOK /\ RequestFits(q, s, t, Bills(r), faults, cancels)
        /\ p = Current(q) /\ BooksMove(r)
    BY StepMovesBooks DEF PathInv, Fit, Provider, Current
  <1>2. /\ \A l \in Ledgers : s[l] = stake[l][r] /\ t[l] = standing[l][r]
        /\ Key \in Ledgers /\ Billable \subseteq Ledgers
        /\ Claim \in Nat \ {0} /\ Most \in Nat
        /\ \A x \in Billable : 0..Claim \subseteq 0..Most
    BY <1>1, RowTypes, Names, ClaimType, MostCovers
  <1>3. CASE UNCHANGED books
    BY <1>3 DEF books, LedgerStep, Book!ledgerVars
  <1> HIDE DEF q, p, s, t
  <1>4. CASE q.pc = "reserving" /\ ClaimOf(r, p, Claim)
    <2>1. p \in Billable /\ t[p] = "new" /\ s[p] = 0
      BY <1>1, <1>4, AtReserving
    <2>2. p \in Ledgers /\ Claim \in 1..Most /\ standing[p][r] = "new" /\ stake[p][r] = 0
      BY <1>2, <2>1
    <2> QED BY <1>1, <1>4, <2>2, ClaimIsLedgerStep
  <1>5. CASE q.pc = "handing_back" /\ HandBackOf(r, p, Claim)
    <2>1. p \in Billable /\ t[p] = "over" /\ s[p] = Claim
      BY <1>1, <1>5, AtHandingBack
    <2>2. p \in Ledgers /\ Claim \in 0..Most /\ standing[p][r] = "over" /\ stake[p][r] = Claim
      BY <1>2, <2>1
    <2> QED BY <1>1, <1>5, <2>2, HandBackIsLedgerStep
  <1>6. CASE q.pc = "key_reserving" /\ ClaimOf(r, Key, Reserved(q))
    <2>1. /\ t[Key] = "new" /\ s[Key] = 0
          /\ Reserved(q) \in Nat /\ Reserved(q) > 0 /\ Reserved(q) <= Most
      BY <1>1, <1>6, AtKeyClaim
    <2>2. Reserved(q) \in 1..Most /\ standing[Key][r] = "new" /\ stake[Key][r] = 0
      BY <1>2, <2>1
    <2> QED BY <1>1, <1>2, <1>6, <2>2, ClaimIsLedgerStep
  <1>7. CASE q.pc = "key_handing_back" /\ HandBackOf(r, Key, Reserved(q))
    <2>1. /\ t[Key] = "over" /\ s[Key] = Reserved(q)
          /\ Reserved(q) \in Nat /\ Reserved(q) <= Most
      BY <1>1, <1>7, AtKeyClaim
    <2>2. /\ Reserved(q) \in 0..Most /\ standing[Key][r] = "over"
          /\ stake[Key][r] = Reserved(q)
      BY <1>2, <2>1
    <2> QED BY <1>1, <1>2, <1>7, <2>2, HandBackIsLedgerStep
  <1>8. CASE /\ q.pc \in {"settling", "unwinding"}
             /\ SettleOf(r, p, q.reserved[p], Charge(q, p))
    <2>1. /\ p \in Billable /\ t[p] = "granted" /\ s[p] = Claim
          /\ q.reserved[p] = Claim /\ Charge(q, p) \in 0..Claim
      BY <1>1, <1>8, AtLoop
    <2>2. /\ p \in Ledgers /\ q.reserved[p] \in 0..Most /\ Charge(q, p) \in 0..Most
          /\ Charge(q, p) <= q.reserved[p]
          /\ standing[p][r] = "granted" /\ stake[p][r] = q.reserved[p]
      BY <1>2, <2>1
    <2> QED BY <1>1, <1>8, <2>2, SettleIsLedgerStep
  <1>9. CASE q.pc = "settling_key" /\ SettleOf(r, Key, Reserved(q), q.actual)
    <2>1. /\ t[Key] = "granted" /\ s[Key] = Reserved(q)
          /\ q \in Records /\ Everywhere(q, s, t, Bills(r), cancels)
      BY <1>1, <1>9, AtKeySettle
    <2>2. /\ Reserved(q) \in 0..Most /\ q.actual \in 0..Most /\ q.actual <= Reserved(q)
          /\ standing[Key][r] = "granted" /\ stake[Key][r] = Reserved(q)
      BY <1>2, <2>1, ReservedCovers
    <2> QED BY <1>1, <1>2, <1>9, <2>2, SettleIsLedgerStep
  <1> QED BY <1>1, <1>3, <1>4, <1>5, <1>6, <1>7, <1>8, <1>9 DEF BooksMove, q, p

\* Every ledger, of a provider or of the key, is a SpendLedger: no path through
\* reserve, router and settlement, whatever fails or is cancelled in it, settles
\* a claim twice, settles one it does not hold, hands back one that was granted
\* or charges more than it claimed.
THEOREM PathImplementsSpendLedgers == Spec => ImplementsSpendLedgers
  <1>1. Init => \A l \in Ledgers : Book(l)!LedgerInit
    BY DEF Init, Book!LedgerInit
  <1>2. PathInv /\ [Next]_vars
          => [\A l \in Ledgers : [Book(l)!LedgerNext]_(Book(l)!ledgerVars)]_books
    <2>1. ASSUME PathInv, Next
          PROVE  \A l \in Ledgers : LedgerStep(l)
      BY <2>1, StepOfLedgers DEF Next
    <2>2. UNCHANGED vars => UNCHANGED books
      BY DEF vars
    <2> QED BY <2>1, <2>2 DEF LedgerStep
  <1> QED BY <1>1, <1>2, PathInvariance, PTL DEF Spec, ImplementsSpendLedgers

-----------------------------------------------------------------------------
(* The ceilings *)

\* The requests whose claim on the ledger was within its cap when it was made.
LetThrough(l) == {r \in Requests : standing[l][r] \in {"granted", "settled"}}

\* What they hold on a ledger, as a claim or as a cost, is within its cap.
CapHolds(l) == Total(stake[l], LetThrough(l)) <= CapOf(l)

CapsInv == PathInv /\ \A l \in Ledgers : CapHolds(l)

LEMMA PartOfStakes ==
  ASSUME NEW st \in [Requests -> 0..Most], NEW A \in SUBSET Requests
  PROVE  /\ IsFiniteSet(Requests) /\ IsFiniteSet(A) /\ Most \in Nat
         /\ Total(st, A) \in Nat
         /\ Total(st, A) <= Total(st, Requests)
  <1>1. IsFiniteSet(Requests) /\ IsFiniteSet(A) /\ Most \in Nat
    BY PathAssumption, MostCovers, FS_Subset
  <1>2. \A r \in Requests : st[r] \in 0..Most
    OBVIOUS
  <1>3. Total(st, A) \in Nat
    BY <1>1, <1>2, UnitsFinite
  <1>4. Total(st, A) <= Total(st, Requests)
    BY <1>1, <1>2, TotalSubset
  <1> QED BY <1>1, <1>3, <1>4

LEMMA CapType == \A l \in Ledgers : CapOf(l) \in Nat
  BY PathAssumption DEF CapOf

\* One ledger keeps its cap, because a claim is compared with it as part of a
\* total that is never less than what those let through hold.
LEMMA LedgerKeepsItsCap ==
  ASSUME TypeOK, TypeOK', Conserved', NEW l \in Ledgers, CapHolds(l), LedgerStep(l)
  PROVE  CapHolds(l)'
  <1>1. /\ stake[l] \in [Requests -> 0..Most] /\ stake'[l] \in [Requests -> 0..Most]
        /\ standing[l] \in [Requests -> Standings] /\ ledger'[l] \in Nat
        /\ LetThrough(l) \in SUBSET Requests /\ LetThrough(l)' \in SUBSET Requests
        /\ CapOf(l) \in Nat
    BY CapType DEF TypeOK, Standings, LetThrough
  <1>2. /\ Total(stake'[l], LetThrough(l)') \in Nat
        /\ Total(stake'[l], LetThrough(l)') <= ledger'[l]
    BY <1>1, PartOfStakes DEF Conserved
  <1>3. /\ IsFiniteSet(LetThrough(l)) /\ Most \in Nat
        /\ Total(stake[l], LetThrough(l)) \in Nat
        /\ \A x \in Requests : stake[l][x] \in 0..Most /\ stake'[l][x] \in 0..Most
    BY <1>1, PartOfStakes
  <1>4. ASSUME LetThrough(l)' = LetThrough(l),
               \A x \in LetThrough(l) : stake'[l][x] <= stake[l][x]
        PROVE  CapHolds(l)'
    <2>1. \A x \in LetThrough(l) :
            stake[l][x] \in 0..Most /\ stake'[l][x] \in 0..Most /\ stake'[l][x] <= stake[l][x]
      BY <1>1, <1>3, <1>4
    <2>2. Total(stake'[l], LetThrough(l)) <= Total(stake[l], LetThrough(l))
      BY <1>3, <2>1, TotalMonotone
    <2> QED BY <1>1, <1>2, <1>3, <1>4, <2>2 DEF CapHolds, CapOf
  <1>5. ASSUME NEW r \in Requests, NEW amount \in 1..Most, Book(l)!Claim(r, amount)
        PROVE  CapHolds(l)'
    <2>1. /\ standing[l][r] = "new" /\ ledger'[l] = ledger[l] + amount
          /\ stake'[l] = [stake[l] EXCEPT ![r] = amount]
          /\ standing'[l] = [standing[l] EXCEPT
                ![r] = IF ledger[l] + amount <= CapOf(l) THEN "granted" ELSE "over"]
      BY <1>5 DEF Book!Claim
    <2>2. CASE ledger[l] + amount <= CapOf(l)
      <3>1. ledger'[l] <= CapOf(l)
        BY <2>1, <2>2
      <3> QED BY <1>1, <1>2, <3>1 DEF CapHolds, CapOf
    <2>3. CASE ~(ledger[l] + amount <= CapOf(l))
      <3>1. /\ r \notin LetThrough(l)
            /\ standing'[l] = [standing[l] EXCEPT ![r] = "over"]
        BY <2>1, <2>3 DEF LetThrough
      <3>2. LetThrough(l)' = LetThrough(l)
        BY <1>1, <3>1 DEF LetThrough
      <3>3. \A x \in LetThrough(l) : stake'[l][x] <= stake[l][x]
        BY <1>1, <1>3, <2>1, <3>1
      <3> QED BY <1>4, <3>2, <3>3
    <2> QED BY <2>2, <2>3
  <1>6. ASSUME NEW r \in Requests, Book(l)!HandBack(r) PROVE CapHolds(l)'
    <2>1. /\ standing[l][r] = "over"
          /\ stake'[l] = [stake[l] EXCEPT ![r] = 0]
          /\ standing'[l] = [standing[l] EXCEPT ![r] = "returned"]
      BY <1>6 DEF Book!HandBack
    <2>2. LetThrough(l)' = LetThrough(l)
      BY <1>1, <2>1 DEF LetThrough
    <2>3. \A x \in LetThrough(l) : stake'[l][x] <= stake[l][x]
      BY <1>1, <1>3, <2>1
    <2> QED BY <1>4, <2>2, <2>3
  <1>7. ASSUME NEW r \in Requests, NEW amount \in 0..Most, Book(l)!Swap(r, amount)
        PROVE  CapHolds(l)'
    <2>1. /\ standing[l][r] = "granted" /\ amount <= stake[l][r]
          /\ stake'[l] = [stake[l] EXCEPT ![r] = amount]
          /\ standing'[l] = [standing[l] EXCEPT ![r] = "settled"]
      BY <1>7 DEF Book!Swap
    <2>2. LetThrough(l)' = LetThrough(l)
      BY <1>1, <2>1 DEF LetThrough
    <2>3. \A x \in LetThrough(l) : stake'[l][x] <= stake[l][x]
      BY <1>1, <1>3, <2>1
    <2> QED BY <1>4, <2>2, <2>3
  <1>8. CASE UNCHANGED Book(l)!ledgerVars
    BY <1>8 DEF Book!ledgerVars, CapHolds, LetThrough, CapOf
  <1> QED BY <1>5, <1>6, <1>7, <1>8 DEF LedgerStep, Book!LedgerNext

THEOREM CapsInvariance == Spec => []CapsInv
  <1>1. Init => CapsInv
    <2> SUFFICES ASSUME Init, NEW l \in Ledgers PROVE CapHolds(l)
      BY InitPathInv DEF CapsInv
    <2>1. \A r \in Requests : stake[l][r] = 0
      BY DEF Init
    <2>2. Total(stake[l], LetThrough(l)) = 0
      BY <2>1, TotalZero DEF LetThrough
    <2>3. CapOf(l) \in Nat
      BY CapType
    <2> QED BY <2>2, <2>3 DEF CapHolds
  <1>2. CapsInv /\ [Next]_vars => CapsInv'
    <2> SUFFICES ASSUME CapsInv, [Next]_vars PROVE CapsInv'
      OBVIOUS
    <2>1. /\ PathInv /\ PathInv'
          /\ \A l \in Ledgers : CapHolds(l)
      BY NextPathInv DEF CapsInv
    <2>2. \A l \in Ledgers : LedgerStep(l)
      <3>1. CASE Next
        BY <2>1, <3>1, StepOfLedgers DEF Next
      <3>2. CASE UNCHANGED vars
        BY <3>2 DEF vars, books, LedgerStep, Book!ledgerVars
      <3> QED BY <3>1, <3>2
    <2>3. TypeOK /\ TypeOK' /\ Conserved'
      BY <2>1 DEF PathInv
    <2>4. \A l \in Ledgers : CapHolds(l)'
      BY <2>1, <2>2, <2>3, LedgerKeepsItsCap
    <2> QED BY <2>1, <2>4 DEF CapsInv
  <1> QED BY <1>1, <1>2, PTL DEF Spec

\* A cost that is known is part of what was let through on both its ledgers.
LEMMA CostWasLetThrough ==
  ASSUME PathInv, NEW r \in Requests, NEW l \in Ledgers
  PROVE  /\ CostAt(l, r) \in 0..Most
         /\ CostAt(l, r) = 0 \/ (r \in LetThrough(l) /\ CostAt(l, r) <= stake[l][r])
  <1> DEFINE q == req[r]
             s == Stakes(r)
             t == Standing(r)
  <1>1. /\ RequestFits(q, s, t, Bills(r), faults, cancels)
        /\ q \in Records /\ Everywhere(q, s, t, Bills(r), cancels)
    BY DEF PathInv, Fit, RequestFits
  <1>2. /\ Reserved(q) \in 0..Most /\ q.actual \in 0..Most /\ Most \in Nat
        /\ q.actual <= Reserved(q)
    BY <1>1, ReservedCovers
  <1>3. /\ s[l] = stake[l][r] /\ t[l] = standing[l][r]
        /\ t[l] \in {"granted", "settled"} => r \in LetThrough(l)
    BY DEF Stakes, Standing, LetThrough
  <1>4. CostAt(l, r) = IF q.settles > 0 /\ l \in {Key, q.served} THEN q.actual ELSE 0
    BY DEF CostAt
  <1> HIDE DEF q, s, t
  <1>5. CASE q.settles > 0 /\ l = Key
    <2>1. KeySettled(q, t)
      BY <1>1, <1>5, SettledKeyFits
    <2>2. \/ t[l] = "granted" /\ s[l] = Reserved(q)
          \/ t[l] = "settled" /\ s[l] = q.actual
          \/ Reserved(q) = 0
      BY <1>1, <1>5, <2>1 DEF KeySettled, KeyHeld, Everywhere, KeyFits
    <2> QED BY <1>2, <1>3, <1>4, <1>5, <2>2
  <1>6. CASE q.settles > 0 /\ l # Key /\ l = q.served
    <2>1. /\ l \in Billable /\ q.reserved[l] = Claim /\ q.actual <= Claim
          /\ Charge(q, l) = q.actual
      BY <1>1, <1>6, Names DEF Everywhere, ServedFits, Charge
    <2>2. /\ t[l] \in {"granted", "settled"}
          /\ s[l] = Claim \/ s[l] = q.actual
      BY <1>1, <2>1, ClaimType DEF Everywhere, ClaimFits
    <2> QED BY <1>2, <1>3, <1>4, <1>6, <2>1, <2>2, ClaimType
  <1>7. CASE ~(q.settles > 0 /\ l \in {Key, q.served})
    BY <1>2, <1>4, <1>7
  <1> QED BY <1>5, <1>6, <1>7

\* The ceilings, end to end: the costs that the gateway knows of never exceed
\* the lifetime cap of the provider that served them, nor the cap of the key,
\* for any number of requests in any order of their commands, whatever fails or
\* is cancelled (_reserve_chain and _settle_chain on both kinds of ledger).
THEOREM KnownCostsFitTheCaps == Spec => []CostsStayWithinTheCaps
  <1>1. CapsInv => CostsStayWithinTheCaps
    <2> SUFFICES ASSUME CapsInv, NEW l \in Ledgers
                 PROVE  Total([r \in Requests |-> CostAt(l, r)], Requests) <= CapOf(l)
      BY DEF CostsStayWithinTheCaps
    <2> DEFINE costs == [r \in Requests |-> CostAt(l, r)]
    <2>1. PathInv /\ TypeOK /\ CapHolds(l)
      BY DEF CapsInv, PathInv
    <2>2. /\ IsFiniteSet(Requests) /\ IsFiniteSet(LetThrough(l)) /\ Most \in Nat
          /\ LetThrough(l) \in SUBSET Requests /\ CapOf(l) \in Nat
          /\ \A r \in Requests : stake[l][r] \in 0..Most
          /\ Total(stake[l], LetThrough(l)) \in Nat
      <3>1. stake[l] \in [Requests -> 0..Most] /\ LetThrough(l) \in SUBSET Requests
        BY <2>1 DEF TypeOK, LetThrough
      <3> QED BY <3>1, PartOfStakes, CapType
    <2>3. \A r \in Requests :
            /\ costs[r] \in 0..Most
            /\ costs[r] = 0 \/ (r \in LetThrough(l) /\ costs[r] <= stake[l][r])
      BY <2>1, CostWasLetThrough
    <2>4. \A r \in LetThrough(l) : stake[l][r] \in 0..Most
      BY <2>2
    <2> HIDE DEF costs
    <2>5. Total(costs, Requests) <= Total(stake[l], LetThrough(l))
      BY <2>2, <2>3, <2>4, TotalCovered
    <2>6. Total(costs, Requests) \in Nat
      BY <2>2, <2>3, UnitsFinite
    <2>7. Total(costs, Requests) <= CapOf(l)
      BY <2>1, <2>2, <2>5, <2>6 DEF CapHolds
    <2> QED BY <2>7 DEF costs
  <1> QED BY <1>1, CapsInvariance, PTL

=============================================================================
