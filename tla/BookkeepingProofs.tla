--------------------------- MODULE BookkeepingProofs ---------------------------
(***************************************************************************)
(* Theorems about the two records of what was spent, for any requests,     *)
(* prices, lengths and attempts, any number of failures and crashes, and   *)
(* both scripts at any time.                                               *)
(*                                                                         *)
(* The invariant says what each request still has in each ledger (Held).   *)
(* A ledger holds at least the sum of it, as far as claims back it, what   *)
(* reconcile has read at least the part of those that had reserved by      *)
(* then, and the log at most that and what was charged above claims.       *)
(***************************************************************************)
EXTENDS Bookkeeping, MoneyTheorems

-----------------------------------------------------------------------------
(* The invariant *)

\* A claim that is neither settled nor given up.
Unpaid(r, p) == pc[r] \in {"claiming", "claimed"} \/ p \in unsettled[r]

\* What request r has in the ledger of p, if nothing went wrong: its claim, and
\* once that is settled the charge, if p is the provider that served it.  Of a
\* request that is gone nothing is known any more.
Held(r, p) ==
  IF p \notin claimed[r] THEN 0
  ELSE IF Unpaid(r, p) THEN WorstCase(p)
  ELSE IF provider[r] = p THEN charge[r] ELSE 0

HeldAt(p) == [r \in Requests |-> Held(r, p)]

\* The part of it that the claim had put there: a charge above the claim raises
\* the ledger when it is settled.
Backed(r, p) == IF Held(r, p) <= WorstCase(p) THEN Held(r, p) ELSE WorstCase(p)

BackedAt(p) == [r \in Requests |-> Backed(r, p)]

Booked(p) == Total(HeldAt(p), Requests)

\* What failures leave behind are claims: a ledger is never below what is backed
\* by claims, and without failures it is what the requests hold.
LedgersCover == \A p \in Hosted : /\ Total(BackedAt(p), Requests) <= ledger[p]
                                  /\ faults = 0 => ledger[p] = Booked(p)

\* What was read covers what those requests hold, as far as their claims go, that
\* had reserved when it was read: a request holds less of it as it goes on.
ReadingsCover ==
  \A p \in Hosted :
    reconcile.ledger[p] # Unread =>
      /\ reconcile.at = "reading"
      /\ Total(BackedAt(p), Requests \ Overlapping(p)) <= reconcile.ledger[p]

\* What was read is what is there, if nothing happens meanwhile.
QuietReadings ==
  reconcile.at = "reading" /\ ~reconcile.busy /\ faults = 0 =>
    /\ InFlight = {}
    /\ \A p \in Hosted : reconcile.ledger[p] # Unread => reconcile.ledger[p] = Booked(p)

\* What the charge of an answer may be: above the claim and below the bill only
\* as the two properties of the charge say.
Fair(p, cost, row, a) ==
  p \in Hosted =>
    /\ cost > WorstCase(p) => Unusual(a)
    /\ cost < Bill(p, a) =>
         \/ /\ row = "aborted"
            /\ a.span >= CharsPerToken =>
                 Bill(p, a) - cost <= Cost(p, [input |-> a.prompt, output |-> 0])
         \/ row = "success" /\ p = OpenAI

\* Where the request stands, against what it has reserved and knows.
RequestFits(r) ==
  /\ pc[r] \in {"new", "gone"} => claimed[r] = {}
  /\ pc[r] \in {"new", "claiming", "claimed", "gone"} =>
       unsettled[r] = {} /\ provider[r] = Nobody /\ outcome[r] = NoRow
  /\ pc[r] \in {"claimed", "noting", "settling", "recording", "done"} => claimed[r] = Hosted
  /\ pc[r] \in {"recording", "done"} => unsettled[r] = {}
  /\ pc[r] = "noting" => unsettled[r] = Hosted
  /\ pc[r] = "recording" => outcome[r] # NoRow
  /\ Fair(provider[r], charge[r], outcome[r], answer[r])
  /\ outcome[r] \in {NoRow, "error"} => charge[r] = 0 /\ provider[r] = Nobody

\* A row with a charge is the last thing a request writes, after it settled.
RowsFit(r) ==
  /\ \A o \in Outcomes \ {"error"} : <<r, o>> \in rows => pc[r] = "done" /\ outcome[r] = o
  /\ faults = 0 /\ ~purge.deleted /\ pc[r] = "done" /\ outcome[r] # NoRow
       => <<r, outcome[r]>> \in rows

BookInv == /\ TypeOK /\ unsettled \in [Requests -> SUBSET Hosted]
           /\ \A r \in Requests : RequestFits(r) /\ RowsFit(r)
           /\ LedgersCover /\ ReadingsCover /\ QuietReadings
           /\ low = {} /\ QuietBooksAgree

-----------------------------------------------------------------------------
(* What a request costs. *)

\* Amounts that are products.
LEMMA Products ==
  /\ \A x, y \in Nat : x * y \in Nat /\ x * y = y * x
  /\ \A x, y, z \in Nat : x <= y => x * z <= y * z /\ z * x <= z * y
  /\ \A x, y, z \in Nat : /\ x * (y * z) = (x * y) * z
                          /\ x * (y + z) = x * y + x * z
                          /\ (x + y) * z = x * z + y * z
  OBVIOUS

LEMMA Amounts ==
  /\ InPrice \in Nat /\ OutPrice \in Nat /\ Chars \in Nat /\ Longest \in Nat
  /\ MaxOutput \in Nat /\ 1 <= MaxOutput /\ Attempts \in Nat /\ 1 <= Attempts
  /\ MostInput \in Nat /\ MostOutput \in Nat
  /\ MaxOutput * Attempts \in Nat /\ Attempts * Chars \in Nat
  /\ MaxOutput <= MaxOutput * Attempts /\ Chars <= Attempts * Chars
  /\ MostInput = Attempts * Chars + Longest + 1
  /\ MostOutput = MaxOutput * Attempts + MaxOutput * Longest + 1
  /\ MaxOutput * Longest \in Nat
  <1>1. /\ InPrice \in Nat /\ OutPrice \in Nat /\ Chars \in Nat /\ Longest \in Nat
        /\ MaxOutput \in Nat /\ 1 <= MaxOutput /\ Attempts \in Nat /\ 1 <= Attempts
    BY MeteringAssumption
  <1>2. /\ MaxOutput * Attempts \in Nat /\ Attempts * Chars \in Nat
        /\ MaxOutput * Longest \in Nat /\ Chars * Attempts = Attempts * Chars
        /\ MaxOutput * (Attempts + Longest) = MaxOutput * Attempts + MaxOutput * Longest
    BY <1>1, Products
  <1>3. MaxOutput * 1 <= MaxOutput * Attempts /\ 1 * Chars <= Attempts * Chars
    BY <1>1, Products
  <1>4. MaxOutput * 1 = MaxOutput /\ 1 * Chars = Chars
    BY <1>1
  <1>5. /\ MostInput = Attempts * Chars + Longest + 1
        /\ MostOutput = MaxOutput * Attempts + MaxOutput * Longest + 1
    BY <1>2 DEF MostInput, MostOutput
  <1> QED BY <1>1, <1>2, <1>3, <1>4, <1>5

\* A third of the characters, and at least one.
LEMMA EstimateBounds ==
  ASSUME NEW chars \in Nat, NEW most \in Nat, 1 <= most, chars <= 3 * most
  PROVE  EstimatedTokens(chars) \in Nat /\ EstimatedTokens(chars) <= most
  <1>1. CASE chars < 3
    BY <1>1 DEF EstimatedTokens, CharsPerToken
  <1>2. CASE ~(chars < 3)
    <2>1. chars \div 3 \in Nat /\ 3 * (chars \div 3) <= chars
      OBVIOUS
    <2> QED BY <1>2, <2>1 DEF EstimatedTokens, CharsPerToken
  <1> QED BY <1>1, <1>2

\* More usage costs no less.
LEMMA CostGrows ==
  ASSUME NEW p, NEW input \in Nat, NEW output \in Nat, NEW more \in Nat, NEW longer \in Nat,
         input <= more, output <= longer
  PROVE  /\ Cost(p, [input |-> input, output |-> output]) \in Nat
         /\ Cost(p, [input |-> input, output |-> output])
              <= 3 * (more * InPrice + longer * OutPrice)
  <1>1. /\ input * InPrice \in Nat /\ output * OutPrice \in Nat
        /\ more * InPrice \in Nat /\ longer * OutPrice \in Nat
        /\ input * InPrice <= more * InPrice /\ output * OutPrice <= longer * OutPrice
    BY Amounts, Products
  <1> QED BY <1>1 DEF Cost, CharsPerToken

\* The claim in the terms of the charge.
LEMMA WorstCaseIs ==
  ASSUME NEW p, p # Ollama
  PROVE  /\ WorstCase(p) = (Attempts * Chars) * InPrice + 3 * ((MaxOutput * Attempts) * OutPrice)
         /\ (Attempts * Chars) * InPrice \in Nat
         /\ (MaxOutput * Attempts) * OutPrice \in Nat
  <1> DEFINE c == Chars * InPrice
             d == MaxOutput * OutPrice
  <1>1. c \in Nat /\ d \in Nat /\ 3 * d \in Nat
    BY Amounts, Products
  <1>2. 3 * MaxOutput * OutPrice = 3 * d
    BY Amounts
  <1>3. WorstCase(p) = (c + 3 * d) * Attempts
    BY <1>2 DEF WorstCase, CharsPerToken
  <1>4. (Attempts * Chars) * InPrice = c * Attempts
    BY Amounts
  <1>5. (MaxOutput * Attempts) * OutPrice = d * Attempts
    BY Amounts
  <1> HIDE DEF c, d
  <1>6. (c + 3 * d) * Attempts = c * Attempts + (3 * d) * Attempts
    BY <1>1, Amounts, Products
  <1>7. (3 * d) * Attempts = 3 * (d * Attempts)
    BY <1>1, Amounts, Products
  <1>8. c * Attempts \in Nat /\ d * Attempts \in Nat
    BY <1>1, Amounts, Products
  <1> QED BY <1>3, <1>4, <1>5, <1>6, <1>7, <1>8

\* Usage within the attempts reserved for costs no more than was reserved.
LEMMA CostWithinClaim ==
  ASSUME NEW p \in Hosted, NEW input \in Nat, NEW output \in Nat,
         3 * input <= Attempts * Chars, output <= MaxOutput * Attempts
  PROVE  Cost(p, [input |-> input, output |-> output]) <= WorstCase(p)
  <1>1. CASE p = Ollama
    BY <1>1 DEF Cost, WorstCase
  <1>2. CASE p # Ollama
    <2> DEFINE a == input * InPrice
               b == output * OutPrice
               c == (Attempts * Chars) * InPrice
               d == (MaxOutput * Attempts) * OutPrice
    <2>1. a \in Nat /\ b \in Nat
      BY Amounts, Products
    <2>2. 3 * a <= c
      <3>1. (3 * input) * InPrice <= (Attempts * Chars) * InPrice
        BY Amounts, Products
      <3>2. (3 * input) * InPrice = 3 * a
        BY Amounts
      <3> QED BY <3>1, <3>2
    <2>3. b <= d
      BY Amounts, Products
    <2>4. WorstCase(p) = c + 3 * d /\ c \in Nat /\ d \in Nat
      BY <1>2, WorstCaseIs
    <2>5. Cost(p, [input |-> input, output |-> output]) = 3 * (a + b)
      BY <1>2 DEF Cost, CharsPerToken
    <2> HIDE DEF a, b, c, d
    <2> QED BY <2>1, <2>2, <2>3, <2>4, <2>5
  <1> QED BY <1>1, <1>2

\* No worst case is above the most.
LEMMA WorstCaseBound ==
  ASSUME NEW p
  PROVE  WorstCase(p) \in 0..Most /\ Most \in Nat
  <1> DEFINE c == (Attempts * Chars) * InPrice
             d == (MaxOutput * Attempts) * OutPrice
             e == MostInput * InPrice
             f == MostOutput * OutPrice
  <1>1. /\ c \in Nat /\ d \in Nat /\ e \in Nat /\ f \in Nat
        /\ c <= e /\ d <= f
    BY Amounts, Products
  <1>2. Most = 3 * (e + f)
    BY DEF Most, CharsPerToken
  <1>3. WorstCase(p) = IF p = Ollama THEN 0 ELSE c + 3 * d
    BY WorstCaseIs DEF WorstCase
  <1> HIDE DEF c, d, e, f
  <1> QED BY <1>1, <1>2, <1>3

\* The usages an answer may be charged by: as counted, estimated, none, and
\* the estimate for a stream that is cut off.
Reported(a) ==
  {Usage(a), [input |-> EstimatedTokens(Chars), output |-> EstimatedTokens(Characters(a))],
   [input |-> 0, output |-> 0]}
  \cup {[input |-> input, output |-> EstimatedTokens(Characters(a))] : input \in {0, a.prompt}}

\* No charge is above the most, and one above the claim is for an unusual text.
LEMMA ChargeFits ==
  ASSUME NEW p, NEW a \in Answers, NEW usage \in Reported(a)
  PROVE  /\ Cost(p, usage) \in 0..Most
         /\ p \in Hosted /\ Cost(p, usage) > WorstCase(p) => Unusual(a)
  <1>1. /\ a.prompt \in Nat /\ 1 <= a.prompt /\ a.prompt <= Longest
        /\ a.tokens \in Nat /\ a.tokens <= MaxOutput
        /\ a.span \in Nat /\ a.span <= Longest
    <2>1. a.prompt \in Prompts /\ a.tokens \in 0..MaxOutput /\ a.span \in Spans
      BY DEF Answers
    <2>2. a.prompt \in 1..Longest /\ a.span \in 0..Longest /\ Longest \in Nat /\ MaxOutput \in Nat
      BY <2>1, MeteringAssumption
    <2> QED BY <2>1, <2>2
  <1> DEFINE chars == a.tokens * a.span
             in == EstimatedTokens(Chars)
             out == EstimatedTokens(chars)
  <1>2. chars \in Nat /\ chars <= MaxOutput * Longest
    <2>1. a.tokens * a.span <= MaxOutput * a.span /\ MaxOutput * a.span <= MaxOutput * Longest
      BY <1>1, Amounts, Products
    <2> QED BY <1>1, <2>1, Amounts, Products
  <1>3. Characters(a) = chars
    BY DEF Characters
  <1> HIDE DEF chars
  <1>4. in \in Nat /\ in <= Attempts * Chars + 1
    <2>1. Chars + 1 \in Nat /\ 1 <= Chars + 1 /\ Chars <= 3 * (Chars + 1)
      BY Amounts
    <2>2. in \in Nat /\ in <= Chars + 1
      BY <2>1, Amounts, EstimateBounds
    <2> HIDE DEF in
    <2> QED BY <2>2, Amounts
  <1>5. out \in Nat /\ out <= MaxOutput * Longest + 1
    <2>1. chars + 1 \in Nat /\ 1 <= chars + 1 /\ chars <= 3 * (chars + 1)
      BY <1>2
    <2>2. out \in Nat /\ out <= chars + 1
      BY <1>2, <2>1, EstimateBounds
    <2> HIDE DEF out
    <2> QED BY <1>2, <2>2, Amounts
  <1>6. ASSUME ~Unusual(a)
        PROVE  /\ 3 * a.prompt <= Attempts * Chars /\ 3 * in <= Attempts * Chars
               /\ out <= MaxOutput * Attempts
    <2>1. 3 * a.prompt <= Attempts * Chars /\ a.span <= 3 * Attempts
      BY <1>1, <1>6, Amounts DEF Unusual, CharsPerToken
    <2>2. 3 * in <= Attempts * Chars
      <3>1. CASE Chars < 3
        BY <1>1, <2>1, <3>1, Amounts DEF EstimatedTokens, CharsPerToken
      <3>2. CASE ~(Chars < 3)
        <4>1. Chars \div 3 \in Nat /\ 3 * (Chars \div 3) <= Chars
          BY Amounts
        <4> QED BY <3>2, <4>1, Amounts DEF EstimatedTokens, CharsPerToken
      <3> QED BY <3>1, <3>2
    <2>3. chars <= 3 * (MaxOutput * Attempts)
      <3>1. a.tokens * a.span <= MaxOutput * a.span
        BY <1>1, Amounts, Products
      <3>2. MaxOutput * a.span <= MaxOutput * (3 * Attempts)
        BY <1>1, <2>1, Amounts, Products
      <3>3. MaxOutput * (3 * Attempts) = 3 * (MaxOutput * Attempts)
        BY Amounts
      <3>4. MaxOutput * a.span \in Nat
        BY <1>1, Amounts, Products
      <3> QED BY <1>2, <3>1, <3>2, <3>3, <3>4, Amounts DEF chars
    <2>4. out <= MaxOutput * Attempts
      <3>1. 1 <= MaxOutput * Attempts
        BY Amounts
      <3> QED BY <1>2, <2>3, <3>1, Amounts, EstimateBounds
    <2> QED BY <2>1, <2>2, <2>4
  <1> HIDE DEF in, out
  <1>7. PICK input \in {a.prompt, in, 0}, output \in {a.tokens, out, 0} :
          usage = [input |-> input, output |-> output]
    BY <1>3 DEF Reported, Usage, in, out
  <1>8. /\ input \in Nat /\ output \in Nat /\ input <= MostInput /\ output <= MostOutput
    BY <1>1, <1>4, <1>5, Amounts
  <1>9. Cost(p, usage) \in 0..Most
    <2>1. /\ Cost(p, usage) \in Nat
          /\ Cost(p, usage) <= 3 * (MostInput * InPrice + MostOutput * OutPrice)
      BY <1>7, <1>8, Amounts, CostGrows
    <2>2. Most = 3 * (MostInput * InPrice + MostOutput * OutPrice)
      BY DEF Most, CharsPerToken
    <2>3. Most \in Nat
      BY WorstCaseBound
    <2> QED BY <2>1, <2>2, <2>3
  <1>10. ASSUME p \in Hosted, ~Unusual(a)
         PROVE  Cost(p, usage) <= WorstCase(p)
    <2>1. 3 * input <= Attempts * Chars /\ output <= MaxOutput * Attempts
      <3>1. 3 * 0 <= Attempts * Chars /\ 0 <= MaxOutput * Attempts
            /\ a.tokens <= MaxOutput * Attempts
        BY <1>1, Amounts
      <3> QED BY <1>6, <1>10, <3>1
    <2> QED BY <1>7, <1>8, <1>10, <2>1, CostWithinClaim
  <1>11. Cost(p, usage) \in Nat /\ WorstCase(p) \in Nat
    <2>1. Cost(p, usage) \in 0..Most /\ WorstCase(p) \in 0..Most /\ Most \in Nat
      BY <1>9, WorstCaseBound
    <2> HIDE DEF Most
    <2> QED BY <2>1
  <1> QED BY <1>9, <1>10, <1>11

\* The estimate of a stream that was cut off takes no token for less than the
\* provider does, if tokens have three characters or more.
LEMMA EstimateCovers ==
  ASSUME NEW a \in Answers, a.span >= 3
  PROVE  /\ EstimatedTokens(Characters(a)) \in Nat /\ a.tokens \in Nat
         /\ a.tokens <= EstimatedTokens(Characters(a))
  <1>1. a.tokens \in Nat /\ a.span \in Nat
    <2>1. a.tokens \in 0..MaxOutput /\ a.span \in Spans
      BY DEF Answers
    <2>2. a.span \in 0..Longest /\ Longest \in Nat /\ MaxOutput \in Nat
      BY <2>1, MeteringAssumption
    <2> QED BY <2>1, <2>2
  <1> DEFINE chars == a.tokens * a.span
  <1>2. chars \in Nat /\ 3 * a.tokens <= chars
    <2>1. a.tokens * 3 <= a.tokens * a.span /\ a.tokens * a.span \in Nat
      BY <1>1, Products
    <2> QED BY <1>1, <2>1
  <1>3. Characters(a) = chars
    BY DEF Characters
  <1> HIDE DEF chars
  <1>4. EstimatedTokens(chars) \in Nat /\ a.tokens <= EstimatedTokens(chars)
    <2>1. CASE chars < 3
      BY <1>1, <1>2, <2>1 DEF EstimatedTokens, CharsPerToken
    <2>2. CASE ~(chars < 3)
      BY <1>1, <1>2, <2>2 DEF EstimatedTokens, CharsPerToken
    <2> QED BY <2>1, <2>2
  <1> QED BY <1>1, <1>3, <1>4

\* A stream that was cut off is charged all but its prompt, at the least.
LEMMA AbortLosesPrompt ==
  ASSUME NEW p, NEW a \in Answers, a.span >= 3, NEW input \in {0, a.prompt}
  PROVE  Bill(p, a) - AbortCost(p, input, Characters(a))
           <= Cost(p, [input |-> a.prompt, output |-> 0])
  <1>1. CASE p = Ollama
    BY <1>1 DEF Bill, AbortCost, Cost
  <1>2. CASE p # Ollama
    <2> DEFINE est == EstimatedTokens(Characters(a))
               b == a.prompt * InPrice
               c == input * InPrice
               d == a.tokens * OutPrice
               e == est * OutPrice
    <2>1. est \in Nat /\ a.tokens \in Nat /\ a.tokens <= est
      BY EstimateCovers
    <2>2. a.prompt \in Nat /\ input \in Nat
      <3>1. a.prompt \in Prompts
        BY DEF Answers
      <3>2. a.prompt \in 1..Longest /\ Longest \in Nat
        BY <3>1, MeteringAssumption
      <3> QED BY <3>2
    <2> HIDE DEF est
    <2>3. b \in Nat /\ c \in Nat /\ d \in Nat /\ e \in Nat /\ d <= e
      BY <2>1, <2>2, Amounts, Products
    <2>4. /\ Bill(p, a) = 3 * (b + d)
          /\ AbortCost(p, input, Characters(a)) = 3 * (c + e)
          /\ Cost(p, [input |-> a.prompt, output |-> 0]) = 3 * (b + 0 * OutPrice)
      BY <1>2 DEF Bill, AbortCost, Cost, Usage, CharsPerToken, est
    <2>5. 0 * OutPrice = 0
      BY Amounts
    <2> HIDE DEF b, c, d, e
    <2> QED BY <2>3, <2>4, <2>5
  <1> QED BY <1>1, <1>2

-----------------------------------------------------------------------------
(* What a request holds, and what the ledgers and the readings make of it. *)

LEMMA Types ==
  ASSUME BookInv
  PROVE  /\ TypeOK /\ IsFiniteSet(Requests) /\ Nobody \notin Hosted
         /\ Most \in Nat /\ \A p : WorstCase(p) \in 0..Most
         /\ \A r \in Requests : RequestFits(r) /\ RowsFit(r)
  BY BookkeepingAssumption, WorstCaseBound DEF BookInv, Providers

LEMMA HeldType ==
  ASSUME BookInv, NEW r \in Requests, NEW p
  PROVE  Held(r, p) \in 0..Most
  BY Types DEF TypeOK, Held

LEMMA BackedType ==
  ASSUME BookInv, NEW r \in Requests, NEW p
  PROVE  Backed(r, p) \in 0..Most
  <1>1. Held(r, p) \in 0..Most /\ WorstCase(p) \in 0..Most
    BY Types, HeldType
  <1> HIDE DEF Most
  <1> QED BY <1>1 DEF Backed

\* All but r know and hold what they did.
OthersKeep(r) ==
  \A s \in Requests \ {r} :
    /\ pc'[s] = pc[s] /\ provider'[s] = provider[s] /\ charge'[s] = charge[s]
    /\ outcome'[s] = outcome[s] /\ claimed'[s] = claimed[s] /\ unsettled'[s] = unsettled[s]
    /\ answer'[s] = answer[s]

\* The ledgers and what r has in them change together, or a failure leaves more
\* behind; what of it is backed grows only by a claim that reconcile has not read.
LedgersFollow(r) ==
  \A p \in Hosted :
    /\ Held(r, p)' \in 0..Most
    /\ ledger'[p] \in Int
    /\ ledger[p] - Backed(r, p) + Backed(r, p)' <= ledger'[p]
    /\ faults' = 0 => ledger'[p] = ledger[p] - Held(r, p) + Held(r, p)'
    /\ \/ Backed(r, p)' <= Backed(r, p)
       \/ reconcile.ledger[p] # Unread => <<r, p>> \in overlap'

\* What all hold changes by what r does.
LEMMA OneMoves ==
  ASSUME IsFiniteSet(Requests), NEW r \in Requests, NEW most \in Nat
  PROVE  \A f, g :
           /\ \A s \in Requests : f[s] \in 0..most
           /\ \A s \in Requests : g[s] \in 0..most
           /\ \A s \in Requests \ {r} : g[s] = f[s]
           => Total(g, Requests) = Total(f, Requests) - f[r] + g[r]
  BY TotalChange

LEMMA BooksFollow ==
  ASSUME BookInv, NEW r \in Requests, OthersKeep(r), LedgersFollow(r),
         faults' = 0 => faults = 0, overlap \subseteq overlap',
         reconcile'.at = reconcile.at, reconcile'.ledger = reconcile.ledger
  PROVE  /\ LedgersCover' /\ ReadingsCover'
         /\ ledger' \in [Hosted -> Int] => ledger' \in [Hosted -> Nat]
  <1>1. /\ IsFiniteSet(Requests) /\ Most \in Nat
        /\ \A s \in Requests, p \in Hosted : Held(s, p) \in 0..Most
        /\ \A s \in Requests, p \in Hosted : Held(s, p)' \in 0..Most
        /\ \A s \in Requests \ {r}, p \in Hosted : Held(s, p)' = Held(s, p)
        /\ \A p : WorstCase(p) \in 0..Most
    <2>1. \A s \in Requests \ {r}, p \in Hosted : Held(s, p)' = Held(s, p)
      BY DEF OthersKeep, Held, Unpaid
    <2> QED BY <2>1, Types, HeldType DEF LedgersFollow
  <1>2. ASSUME NEW s \in Requests, NEW p \in Hosted
        PROVE  /\ Backed(s, p) \in 0..Most /\ Backed(s, p)' \in 0..Most
               /\ s # r => Backed(s, p)' = Backed(s, p)
    <2>1. /\ Held(s, p) \in 0..Most /\ Held(s, p)' \in 0..Most /\ WorstCase(p) \in 0..Most
          /\ s # r => Held(s, p)' = Held(s, p)
      BY <1>1
    <2> HIDE DEF Most
    <2> QED BY <1>1, <2>1 DEF Backed
  <1>3. ASSUME NEW p \in Hosted
        PROVE  /\ Total(BackedAt(p)', Requests) <= ledger'[p] /\ ledger'[p] \in Nat
               /\ faults' = 0 => ledger'[p] = Booked(p)'
    <2> DEFINE b == BackedAt(p)
               c == [s \in Requests |-> Backed(s, p)']
               f == HeldAt(p)
               g == [s \in Requests |-> Held(s, p)']
    <2>1. /\ \A s \in Requests : f[s] \in 0..Most
          /\ \A s \in Requests : g[s] \in 0..Most
          /\ \A s \in Requests : b[s] \in 0..Most
          /\ \A s \in Requests : c[s] \in 0..Most
          /\ \A s \in Requests \ {r} : g[s] = f[s]
          /\ \A s \in Requests \ {r} : c[s] = b[s]
          /\ f[r] = Held(r, p) /\ g[r] = Held(r, p)'
          /\ b[r] = Backed(r, p) /\ c[r] = Backed(r, p)'
      BY <1>1, <1>2 DEF HeldAt, BackedAt
    <2>2. /\ Booked(p) = Total(f, Requests) /\ Booked(p)' = Total(g, Requests)
          /\ BackedAt(p)' = c
      BY DEF Booked, HeldAt, BackedAt
    <2>3. /\ ledger[p] \in Nat /\ Total(b, Requests) <= ledger[p]
          /\ faults = 0 => ledger[p] = Total(f, Requests)
      BY <2>2, Types DEF TypeOK, BookInv, LedgersCover
    <2> HIDE DEF b, c, f, g
    <2>4. /\ Total(f, Requests) \in Nat /\ Total(g, Requests) \in Nat
          /\ Total(b, Requests) \in Nat /\ Total(c, Requests) \in Nat
      BY <1>1, <2>1, UnitsFinite
    <2>5. Total(g, Requests) = Total(f, Requests) - f[r] + g[r]
      <3>1. /\ \A y \in Requests : f[y] \in 0..Most
            /\ \A y \in Requests : g[y] \in 0..Most
            /\ \A y \in Requests \ {r} : g[y] = f[y]
        BY <2>1
      <3>2. IsFiniteSet(Requests) /\ Most \in Nat
        BY <1>1
      <3> HIDE DEF Most
      <3> QED BY <3>1, <3>2, OneMoves
    <2>6. Total(c, Requests) = Total(b, Requests) - b[r] + c[r]
      <3>1. /\ \A y \in Requests : b[y] \in 0..Most
            /\ \A y \in Requests : c[y] \in 0..Most
            /\ \A y \in Requests \ {r} : c[y] = b[y]
        BY <2>1
      <3>2. IsFiniteSet(Requests) /\ Most \in Nat
        BY <1>1
      <3> HIDE DEF Most
      <3> QED BY <3>1, <3>2, OneMoves
    <2>7. /\ ledger'[p] \in Int
          /\ ledger[p] - b[r] + c[r] <= ledger'[p]
          /\ faults' = 0 => ledger'[p] = ledger[p] - f[r] + g[r]
      BY <2>1, Zenon DEF LedgersFollow
    <2>8. f[r] \in Int /\ g[r] \in Int /\ b[r] \in Int /\ c[r] \in Int
      <3>1. f[r] \in 0..Most /\ g[r] \in 0..Most /\ b[r] \in 0..Most /\ c[r] \in 0..Most
        BY <2>1
      <3> HIDE DEF Most
      <3> QED BY <1>1, <3>1
    <2>9. Total(c, Requests) <= ledger'[p] /\ ledger'[p] \in Nat
      BY <2>3, <2>4, <2>6, <2>7, <2>8
    <2>10. faults' = 0 => ledger'[p] = Total(g, Requests)
      BY <2>3, <2>4, <2>5, <2>7, <2>8
    <2> QED BY <2>2, <2>9, <2>10
  <1>4. ASSUME NEW p \in Hosted, reconcile.ledger[p] # Unread
        PROVE  /\ reconcile.at = "reading"
               /\ Total(BackedAt(p)', Requests \ Overlapping(p)') <= reconcile.ledger[p]
    <2> DEFINE S == Requests \ Overlapping(p)'
               T == Requests \ Overlapping(p)
               f == [s \in Requests |-> Backed(s, p)']
               g == BackedAt(p)
    <2>1. /\ reconcile.at = "reading"
          /\ Total(g, T) <= reconcile.ledger[p]
      BY <1>4 DEF BookInv, ReadingsCover
    <2>2. S \subseteq T
      BY DEF Overlapping
    <2>3. ASSUME NEW s \in S PROVE Backed(s, p)' <= Backed(s, p)
      <3>1. CASE s = r
        BY <1>4, <3>1 DEF LedgersFollow, Overlapping
      <3>2. CASE s # r
        <4>1. Backed(s, p)' = Backed(s, p) /\ Backed(s, p) \in 0..Most
          BY <1>2, <3>2
        <4> HIDE DEF Most
        <4> QED BY <1>1, <4>1
      <3> QED BY <3>1, <3>2
    <2>4. /\ \A s \in T : g[s] \in 0..Most
          /\ \A s \in S : f[s] \in 0..Most
          /\ \A s \in S : s \in T /\ f[s] <= g[s]
      BY <1>2, <2>2, <2>3 DEF BackedAt
    <2>5. IsFiniteSet(T)
      BY <1>1, FS_Subset
    <2>6. BackedAt(p)' = f
      BY DEF BackedAt
    <2> HIDE DEF S, T, f, g
    <2>7. Total(f, S) <= Total(g, T)
      BY <1>1, <2>4, <2>5, TotalCovered
    <2>8. Total(f, S) \in Int /\ Total(g, T) \in Int
      <3>1. IsFiniteSet(S)
        BY <2>2, <2>5, FS_Subset
      <3> QED BY <1>1, <2>4, <2>5, <3>1, UnitsFinite
    <2>9. reconcile.ledger[p] \in Int
      BY Types DEF TypeOK, Unread
    <2>10. Total(f, S) <= reconcile.ledger[p]
      BY <2>1, <2>7, <2>8, <2>9
    <2> QED BY <2>1, <2>6, <2>10 DEF S
  <1>5. ReadingsCover'
    BY <1>4 DEF ReadingsCover
  <1>6. LedgersCover'
    BY <1>3 DEF LedgersCover
  <1> QED BY <1>3, <1>5, <1>6

-----------------------------------------------------------------------------
(* A step of a request *)

RequestTypes ==
  /\ pc \in [Requests -> Points]
  /\ provider \in [Requests -> Providers \cup {Nobody}]
  /\ charge \in [Requests -> 0..Most]
  /\ outcome \in [Requests -> Outcomes \cup {NoRow}]
  /\ claimed \in [Requests -> SUBSET Hosted]
  /\ unsettled \in [Requests -> SUBSET Hosted]
  /\ answer \in [Requests -> Answers \cup {NoAnswer}]
  /\ \A r \in Requests : unsettled[r] \subseteq claimed[r]

\* What a step of r does to all that is not the request's: it writes rows of its
\* own, and reconcile notices it.
WorkSeen(r) ==
  /\ pc'[r] # "new"
  /\ faults' \in 0..MaxFaults /\ (faults' = 0 => faults = 0)
  /\ ledger' \in [Hosted -> Int]
  /\ rows \subseteq rows' /\ rows' \ rows \subseteq {<<r, o>> : o \in Outcomes}
  /\ overlap \subseteq overlap' /\ overlap' \subseteq Requests \X Hosted
  /\ reconcile' \in [at : {"idle", "reading", "ended"}, ledger : [Hosted -> Nat \cup {Unread}],
                     exit : {"none", "agree", "disagree", "unreachable"}, busy : BOOLEAN]
  /\ reconcile'.at = reconcile.at /\ reconcile'.ledger = reconcile.ledger
  /\ reconcile'.exit = reconcile.exit
  /\ \/ reconcile.at = "reading" /\ reconcile'.busy
     \/ reconcile'.busy = reconcile.busy /\ (reconcile.at = "reading" => r \in InFlight)
  /\ purge' = purge /\ low' = low /\ lost' = lost

LEMMA RequestStep ==
  ASSUME BookInv, NEW r \in Requests, RequestTypes', OthersKeep(r), LedgersFollow(r),
         WorkSeen(r), RequestFits(r)', RowsFit(r)'
  PROVE  BookInv'
  <1>1. /\ TypeOK /\ LedgersCover /\ ReadingsCover /\ QuietReadings
        /\ low = {} /\ QuietBooksAgree
        /\ \A s \in Requests : RequestFits(s) /\ RowsFit(s)
    BY DEF BookInv
  <1>2. LedgersCover' /\ ReadingsCover' /\ ledger' \in [Hosted -> Nat]
    <2>1. /\ faults' = 0 => faults = 0
          /\ overlap \subseteq overlap' /\ ledger' \in [Hosted -> Int]
          /\ reconcile'.at = reconcile.at /\ reconcile'.ledger = reconcile.ledger
      BY DEF WorkSeen
    <2> QED BY <2>1, BooksFollow
  <1>3. TypeOK' /\ (unsettled \in [Requests -> SUBSET Hosted])'
    <2>1. /\ reconcile' \in [at : {"idle", "reading", "ended"},
                             ledger : [Hosted -> Nat \cup {Unread}],
                             exit : {"none", "agree", "disagree", "unreachable"},
                             busy : BOOLEAN]
          /\ purge' = purge /\ faults' \in 0..MaxFaults
          /\ low' = {} /\ lost' \in SUBSET Rows
          /\ overlap' \in SUBSET (Requests \X Hosted)
      BY <1>1 DEF WorkSeen, TypeOK
    <2>2. purge \in [at : {"idle", "selected", "exported", "ended"}, id : SUBSET Requests,
                     rows : SUBSET Rows, export : SUBSET Rows, deleted : BOOLEAN]
      BY <1>1 DEF TypeOK
    <2>3. rows' \subseteq {row \in Rows : pc'[row[1]] # "new"}
      <3>1. /\ rows \subseteq {row \in Rows : pc[row[1]] # "new"}
            /\ rows' \ rows \subseteq {<<r, o>> : o \in Outcomes} /\ pc'[r] # "new"
        BY <1>1 DEF TypeOK, WorkSeen
      <3>2. ASSUME NEW row \in rows' PROVE row \in Rows /\ pc'[row[1]] # "new"
        <4>1. CASE row \in rows
          <5>1. row \in Rows /\ pc[row[1]] # "new" /\ row[1] \in Requests
            BY <3>1, <4>1 DEF Rows
          <5>2. row[1] # r => pc'[row[1]] = pc[row[1]]
            BY <5>1 DEF OthersKeep
          <5> QED BY <3>1, <5>1, <5>2
        <4>2. CASE row \notin rows
          BY <3>1, <4>2 DEF Rows
        <4> QED BY <4>1, <4>2
      <3> QED BY <3>2
    <2>4. RequestTypes'
      OBVIOUS
    <2> QED BY <1>2, <2>1, <2>2, <2>3, <2>4, Zenon DEF TypeOK, RequestTypes, Points
  <1>4. ASSUME NEW s \in Requests PROVE RequestFits(s)' /\ RowsFit(s)'
    <2>1. CASE s = r
      BY <2>1
    <2>2. CASE s # r
      <3>1. /\ pc'[s] = pc[s] /\ provider'[s] = provider[s] /\ charge'[s] = charge[s]
            /\ outcome'[s] = outcome[s] /\ claimed'[s] = claimed[s]
            /\ unsettled'[s] = unsettled[s] /\ answer'[s] = answer[s]
        BY <2>2 DEF OthersKeep
      <3>2. RequestFits(s) /\ RowsFit(s)
        BY <1>1
      <3>3. RequestFits(s)'
        BY <3>1, <3>2 DEF RequestFits
      <3>4. \A o : <<s, o>> \in rows' <=> <<s, o>> \in rows
        BY <2>2 DEF WorkSeen
      <3>5. purge' = purge /\ (faults' = 0 => faults = 0)
        BY DEF WorkSeen
      <3>6. RowsFit(s)'
        BY <3>1, <3>2, <3>4, <3>5 DEF RowsFit
      <3> QED BY <3>3, <3>6
    <2> QED BY <2>1, <2>2
  <1>5. QuietReadings'
    <2> SUFFICES ASSUME reconcile'.at = "reading", ~reconcile'.busy, faults' = 0
                 PROVE  FALSE
      BY DEF QuietReadings
    <2>1. reconcile.at = "reading" /\ ~reconcile.busy /\ faults = 0 /\ r \in InFlight
      BY DEF WorkSeen
    <2> QED BY <1>1, <2>1 DEF QuietReadings
  <1>6. low' = {} /\ QuietBooksAgree'
    BY <1>1 DEF WorkSeen, QuietBooksAgree
  <1> QED BY <1>2, <1>3, <1>4, <1>5, <1>6 DEF BookInv

-----------------------------------------------------------------------------
(* Each action of a request *)

LEMMA ReserveFits ==
  ASSUME BookInv, NEW r \in Requests, NEW p \in Hosted, Reserve(r, p)
  PROVE  BookInv'
  <1>1. /\ TypeOK /\ RequestFits(r) /\ RowsFit(r) /\ Most \in Nat
        /\ \A q : WorstCase(q) \in 0..Most
    BY Types
  <1>2. /\ pc[r] \in {"new", "claiming"} /\ p \notin claimed[r]
        /\ unsettled[r] = {} /\ provider[r] = Nobody /\ outcome[r] = NoRow
        /\ (pc[r] = "new" => claimed[r] = {})
    BY <1>1 DEF Reserve, RequestFits
  <1>3. /\ claimed' = [claimed EXCEPT ![r] = @ \cup {p}]
        /\ pc' = [pc EXCEPT ![r] = IF claimed'[r] = Hosted THEN "claimed" ELSE "claiming"]
        /\ ledger' = [ledger EXCEPT ![p] = @ + WorstCase(p)]
        /\ UNCHANGED <<provider, charge, outcome, unsettled, answer,
                       rows, purge, faults, low, lost>>
    BY DEF Reserve, Goto
  <1>4. /\ claimed'[r] = claimed[r] \cup {p} /\ claimed' \in [Requests -> SUBSET Hosted]
        /\ pc'[r] = (IF claimed'[r] = Hosted THEN "claimed" ELSE "claiming")
        /\ pc' \in [Requests -> Points]
        /\ \A s \in Requests \ {r} : pc'[s] = pc[s] /\ claimed'[s] = claimed[s]
    BY <1>1, <1>3 DEF TypeOK, Points
  <1>5. RequestTypes'
    <2>1. \A s \in Requests : unsettled'[s] \subseteq claimed'[s]
      BY <1>1, <1>3, <1>4 DEF TypeOK
    <2>2. unsettled \in [Requests -> SUBSET Hosted]
      BY DEF BookInv
    <2> QED BY <1>1, <1>3, <1>4, <2>1, <2>2 DEF TypeOK, RequestTypes
  <1>6. OthersKeep(r)
    BY <1>3, <1>4 DEF OthersKeep
  <1>7. LedgersFollow(r)
    <2> SUFFICES ASSUME NEW q \in Hosted
                 PROVE  /\ Held(r, q)' \in 0..Most
                        /\ ledger'[q] \in Int
                        /\ ledger[q] - Backed(r, q) + Backed(r, q)' <= ledger'[q]
                        /\ faults' = 0 => ledger'[q] = ledger[q] - Held(r, q) + Held(r, q)'
                        /\ \/ Backed(r, q)' <= Backed(r, q)
                           \/ reconcile.ledger[q] # Unread => <<r, q>> \in overlap'
      BY DEF LedgersFollow
    <2>1. Held(r, q) = IF q \in claimed[r] THEN WorstCase(q) ELSE 0
      BY <1>2 DEF Held, Unpaid
    <2>2. Held(r, q)' = IF q \in claimed'[r] THEN WorstCase(q) ELSE 0
      BY <1>4 DEF Held, Unpaid
    <2>3. ledger[q] \in Nat /\ ledger'[q] = (IF q = p THEN ledger[p] + WorstCase(p) ELSE ledger[q])
      BY <1>1, <1>3 DEF TypeOK
    <2>4. q = p /\ reconcile.ledger[q] # Unread => <<r, q>> \in overlap'
      BY DEF Reserve
    <2>5. WorstCase(q) \in 0..Most
      BY <1>1
    <2> HIDE DEF Most
    <2>6. CASE q = p
      BY <1>1, <1>2, <1>4, <2>1, <2>2, <2>3, <2>4, <2>5, <2>6 DEF Backed
    <2>7. CASE q # p
      BY <1>1, <1>2, <1>4, <2>1, <2>2, <2>3, <2>5, <2>7 DEF Backed
    <2> QED BY <2>6, <2>7
  <1>8. RequestFits(r)' /\ RowsFit(r)'
    <2>1. \A o \in Outcomes \ {"error"} : <<r, o>> \notin rows
      BY <1>1, <1>2 DEF RowsFit
    <2>2. provider'[r] = Nobody /\ charge'[r] = 0 /\ outcome'[r] = NoRow /\ unsettled'[r] = {}
      BY <1>1, <1>2, <1>3 DEF RequestFits
    <2>3. Nobody \notin Hosted
      BY Types
    <2>4. RequestFits(r)'
      BY <1>4, <2>2, <2>3 DEF RequestFits, Fair
    <2>5. RowsFit(r)'
      BY <1>3, <1>4, <2>1 DEF RowsFit
    <2> QED BY <2>4, <2>5
  <1>9. WorkSeen(r)
    <2>1. ledger' \in [Hosted -> Int]
      <3>1. ledger \in [Hosted -> Nat] /\ WorstCase(p) \in Int
        BY <1>1 DEF TypeOK
      <3> QED BY <1>3, <3>1
    <2>2. reconcile' = [reconcile EXCEPT !.busy = @ \/ reconcile.at = "reading"]
      BY DEF Reserve
    <2>3. reconcile \in [at : {"idle", "reading", "ended"}, ledger : [Hosted -> Nat \cup {Unread}],
                     exit : {"none", "agree", "disagree", "unreachable"}, busy : BOOLEAN]
      BY <1>1 DEF TypeOK
    <2>4. /\ reconcile'.at = reconcile.at /\ reconcile'.ledger = reconcile.ledger
          /\ reconcile'.exit = reconcile.exit
          /\ reconcile'.busy = (reconcile.busy \/ reconcile.at = "reading")
      BY <2>2, <2>3
    <2>5. reconcile' \in [at : {"idle", "reading", "ended"}, ledger : [Hosted -> Nat \cup {Unread}],
                     exit : {"none", "agree", "disagree", "unreachable"}, busy : BOOLEAN]
      BY <2>2, <2>3
    <2>6. overlap \subseteq overlap' /\ overlap' \subseteq Requests \X Hosted
      BY <1>1 DEF TypeOK, Reserve
    <2>7. pc'[r] # "new"
      BY <1>4
    <2>8. rows' \ rows = {} /\ faults' \in 0..MaxFaults
      BY <1>1, <1>3 DEF TypeOK
    <2>9. \/ reconcile.at = "reading" /\ reconcile'.busy
          \/ reconcile'.busy = reconcile.busy /\ reconcile.at # "reading"
      BY <2>3, <2>4
    <2> QED BY <1>3, <2>1, <2>4, <2>5, <2>6, <2>7, <2>8, <2>9 DEF WorkSeen
  <1> QED BY <1>5, <1>6, <1>7, <1>8, <1>9, RequestStep

\* A step of a request in flight that leaves the scripts alone.
LEMMA ScriptsKept ==
  ASSUME BookInv, NEW r \in InFlight, pc'[r] # "new",
         UNCHANGED <<scripts, overlap, low, lost>>,
         ledger' \in [Hosted -> Int],
         UNCHANGED faults \/ Fault,
         rows' = rows \/ \E o \in Outcomes : rows' = rows \cup {<<r, o>>}
  PROVE  WorkSeen(r)
  <1>1. TypeOK
    BY Types
  <1>2. faults' \in 0..MaxFaults /\ (faults' = 0 => faults = 0)
    BY <1>1, BookkeepingAssumption DEF TypeOK, Fault
  <1>3. r \in Requests
    BY DEF InFlight
  <1>4. rows \subseteq rows' /\ rows' \ rows \subseteq {<<r, o>> : o \in Outcomes}
    OBVIOUS
  <1>5. /\ reconcile' = reconcile /\ purge' = purge /\ overlap' = overlap
        /\ low' = low /\ lost' = lost
    BY DEF scripts
  <1>6. /\ reconcile \in [at : {"idle", "reading", "ended"}, ledger : [Hosted -> Nat \cup {Unread}],
                          exit : {"none", "agree", "disagree", "unreachable"}, busy : BOOLEAN]
        /\ overlap \subseteq Requests \X Hosted
    BY <1>1 DEF TypeOK
  <1> QED BY <1>2, <1>4, <1>5, <1>6 DEF WorkSeen

\* The router is through with r, and what r has in the ledgers is its claims.
LEMMA EndFits ==
  ASSUME BookInv, NEW r \in Requests, NEW p \in Providers \cup {Nobody},
         NEW cost \in 0..Most, NEW row \in Outcomes \cup {NoRow},
         NEW a \in Answers \cup {NoAnswer}, End(r, p, cost, row, a),
         Fair(p, cost, row, a),
         row \in {NoRow, "error"} => cost = 0 /\ p = Nobody,
         NEW point \in {"noting", "settling"}, Goto(r, point)
  PROVE  BookInv'
  <1>1. /\ TypeOK /\ RequestFits(r) /\ RowsFit(r) /\ Most \in Nat
        /\ \A q : WorstCase(q) \in 0..Most
    BY Types
  <1>2. /\ pc[r] = "claimed" /\ claimed[r] = Hosted /\ r \in InFlight
    BY <1>1 DEF End, RequestFits, InFlight, Ended
  <1>3. /\ provider' = [provider EXCEPT ![r] = p]
        /\ charge' = [charge EXCEPT ![r] = cost]
        /\ outcome' = [outcome EXCEPT ![r] = row]
        /\ unsettled' = [unsettled EXCEPT ![r] = Hosted]
        /\ pc' = [pc EXCEPT ![r] = point]
        /\ answer' = [answer EXCEPT ![r] = a]
        /\ UNCHANGED <<claimed, ledger, rows, scripts, faults, overlap, low, lost>>
    BY DEF End, Goto
  <1>4. cost \in 0..Most /\ a \in Answers \cup {NoAnswer}
    OBVIOUS
  <1>5. /\ provider'[r] = p /\ charge'[r] = cost /\ outcome'[r] = row
        /\ unsettled'[r] = Hosted /\ pc'[r] = point /\ claimed'[r] = Hosted
        /\ answer'[r] = a
        /\ \A s \in Requests \ {r} :
             /\ provider'[s] = provider[s] /\ charge'[s] = charge[s]
             /\ outcome'[s] = outcome[s] /\ unsettled'[s] = unsettled[s]
             /\ pc'[s] = pc[s] /\ answer'[s] = answer[s]
    <2>1. unsettled \in [Requests -> SUBSET Hosted]
      BY DEF BookInv
    <2> QED BY <1>1, <1>2, <1>3, <2>1 DEF TypeOK
  <1>6. RequestTypes'
    <2>1. \A s \in Requests : unsettled'[s] \subseteq claimed'[s]
      BY <1>1, <1>3, <1>5 DEF TypeOK
    <2>2. unsettled \in [Requests -> SUBSET Hosted]
      BY DEF BookInv
    <2>3. point \in Points
      BY DEF Points
    <2> QED BY <1>1, <1>3, <1>4, <2>1, <2>2, <2>3 DEF TypeOK, RequestTypes
  <1>7. OthersKeep(r)
    BY <1>3, <1>5 DEF OthersKeep
  <1>8. LedgersFollow(r)
    <2> SUFFICES ASSUME NEW q \in Hosted
                 PROVE  /\ Held(r, q)' \in 0..Most
                        /\ ledger'[q] \in Int
                        /\ ledger[q] - Backed(r, q) + Backed(r, q)' <= ledger'[q]
                        /\ faults' = 0 => ledger'[q] = ledger[q] - Held(r, q) + Held(r, q)'
                        /\ \/ Backed(r, q)' <= Backed(r, q)
                           \/ reconcile.ledger[q] # Unread => <<r, q>> \in overlap'
      BY DEF LedgersFollow
    <2>1. Held(r, q) = WorstCase(q)
      BY <1>2 DEF Held, Unpaid
    <2>2. Held(r, q)' = WorstCase(q)
      BY <1>5 DEF Held, Unpaid
    <2>3. ledger[q] \in Nat /\ ledger'[q] = ledger[q]
      BY <1>1, <1>3 DEF TypeOK
    <2>4. WorstCase(q) \in 0..Most
      BY <1>1
    <2> HIDE DEF Most
    <2> QED BY <1>1, <2>1, <2>2, <2>3, <2>4 DEF Backed
  <1>9. RequestFits(r)' /\ RowsFit(r)'
    <2>1. \A o \in Outcomes \ {"error"} : <<r, o>> \notin rows
      BY <1>1, <1>2 DEF RowsFit
    <2>2. RequestFits(r)'
      BY <1>5 DEF RequestFits
    <2>3. RowsFit(r)'
      BY <1>3, <1>5, <2>1 DEF RowsFit
    <2> QED BY <2>2, <2>3
  <1>10. WorkSeen(r)
    <2>1. ledger' \in [Hosted -> Int] /\ pc'[r] # "new"
      BY <1>1, <1>3, <1>5 DEF TypeOK
    <2> QED BY <1>2, <1>3, <2>1, ScriptsKept
  <1> QED BY <1>6, <1>7, <1>8, <1>9, <1>10, RequestStep

LEMMA AnsweredFits ==
  ASSUME BookInv, NEW r \in Requests, Answered(r)
  PROVE  BookInv'
  <1>1. /\ Nobody \in Providers \cup {Nobody} /\ Nobody \notin Hosted
        /\ 0 \in 0..Most /\ NoAnswer \in Answers \cup {NoAnswer}
    <2>1. Most \in Nat /\ Nobody \notin Hosted
      BY Types
    <2> HIDE DEF Most
    <2> QED BY <2>1
  <1>2. ASSUME ClientLeavesEarly(r) PROVE BookInv'
    <2>1. End(r, Nobody, 0, NoRow, NoAnswer) /\ Goto(r, "settling")
      BY <1>2 DEF ClientLeavesEarly
    <2>2. Fair(Nobody, 0, NoRow, NoAnswer)
      BY <1>1 DEF Fair
    <2> HIDE DEF Most, NoAnswer
    <2> QED BY <1>1, <2>1, <2>2, EndFits
  <1>3. ASSUME NEW endpoint \in Endpoints, NobodyAnswers(r, endpoint) PROVE BookInv'
    <2> DEFINE row == IF endpoint = "chat" THEN "error" ELSE NoRow
               point == IF endpoint = "stream" THEN "noting" ELSE "settling"
    <2>1. End(r, Nobody, 0, row, NoAnswer) /\ Goto(r, point)
      BY <1>3 DEF NobodyAnswers
    <2>2. row \in Outcomes \cup {NoRow} /\ point \in {"noting", "settling"}
      BY DEF Outcomes
    <2>3. Fair(Nobody, 0, row, NoAnswer)
      BY <1>1 DEF Fair
    <2> HIDE DEF row, point, Most, NoAnswer
    <2> QED BY <1>1, <2>1, <2>2, <2>3, EndFits
  \* A provider committed: whatever usage it is charged by, the charge fits.
  <1>4. ASSUME NEW p \in Providers, NEW a \in Answers, NEW usage \in Reported(a),
               NEW row \in {"success", "aborted"}, End(r, p, Cost(p, usage), row, a),
               NEW point \in {"noting", "settling"}, Goto(r, point),
               \/ usage = Usage(a)
               \/ row = "success" /\ p = OpenAI
               \/ /\ row = "aborted"
                  /\ \E input \in {0, a.prompt} :
                       Cost(p, usage) = AbortCost(p, input, Characters(a))
        PROVE  BookInv'
    <2>1. /\ Cost(p, usage) \in 0..Most
          /\ p \in Hosted /\ Cost(p, usage) > WorstCase(p) => Unusual(a)
      BY ChargeFits
    <2>2. row \in Outcomes /\ row \notin {NoRow, "error"}
      BY DEF Outcomes, NoRow
    <2>3. Cost(p, usage) \in Nat /\ Bill(p, a) \in Nat
      <3>1. Usage(a) \in Reported(a) /\ Most \in Nat
        BY WorstCaseBound DEF Reported
      <3>2. Cost(p, Usage(a)) \in 0..Most
        BY <3>1, ChargeFits
      <3> HIDE DEF Most
      <3> QED BY <2>1, <3>1, <3>2 DEF Bill
    <2>4. Fair(p, Cost(p, usage), row, a)
      <3>1. ASSUME Cost(p, usage) < Bill(p, a)
            PROVE  \/ /\ row = "aborted"
                      /\ a.span >= 3 => Bill(p, a) - Cost(p, usage)
                                          <= Cost(p, [input |-> a.prompt, output |-> 0])
                   \/ row = "success" /\ p = OpenAI
        <4>1. usage # Usage(a)
          BY <2>3, <3>1 DEF Bill
        <4> QED BY <1>4, <4>1, AbortLosesPrompt
      <3> QED BY <2>1, <3>1 DEF Fair, CharsPerToken
    <2> HIDE DEF Most
    <2> QED BY <1>4, <2>1, <2>2, <2>4, EndFits
  <1>5. ASSUME NEW p \in Providers, NEW a \in Answers, ChatAnswered(r, p, a) PROVE BookInv'
    <2>1. PICK usage \in ChatUsages(p, a) :
            End(r, p, Cost(p, usage), "success", a) /\ Goto(r, "settling")
      BY <1>5 DEF ChatAnswered
    <2>2. usage \in Reported(a) /\ (usage = Usage(a) \/ p = OpenAI)
      BY DEF ChatUsages, Reported
    <2> QED BY <1>4, <2>1, <2>2
  <1>6. ASSUME NEW p \in Providers, NEW a \in Answers, StreamEnds(r, p, a) PROVE BookInv'
    <2>1. PICK usage \in StreamUsages(p, a) :
            End(r, p, Cost(p, usage), "success", a) /\ Goto(r, "settling")
      BY <1>6 DEF StreamEnds
    <2>2. usage \in Reported(a) /\ (usage = Usage(a) \/ p = OpenAI)
      BY DEF StreamUsages, Reported
    <2> QED BY <1>4, <2>1, <2>2
  <1>7. ASSUME NEW p \in Providers, NEW a \in Answers, NEW input \in {0, a.prompt},
               \/ \E endpoint \in Endpoints : StreamBreaks(r, endpoint, p, a, input)
               \/ ClientLeaves(r, p, a, input)
        PROVE  BookInv'
    <2> DEFINE usage == [input |-> input, output |-> EstimatedTokens(Characters(a))]
    <2>1. /\ Abort(r, p, a, input)
          /\ \E point \in {"noting", "settling"} : Goto(r, point)
      BY <1>7 DEF StreamBreaks, ClientLeaves
    <2>2. End(r, p, Cost(p, usage), "aborted", a)
      BY <2>1 DEF Abort, AbortCost
    <2>3. usage \in Reported(a)
      BY DEF Reported
    <2>4. Cost(p, usage) = AbortCost(p, input, Characters(a))
      BY DEF AbortCost
    <2> HIDE DEF usage
    <2> QED BY <1>4, <1>7, <2>1, <2>2, <2>3, <2>4
  <1> QED BY <1>2, <1>3, <1>5, <1>6, <1>7 DEF Answered

LEMMA NoteErrorFits ==
  ASSUME BookInv, NEW r \in Requests, NoteError(r)
  PROVE  BookInv'
  <1>1. /\ TypeOK /\ RequestFits(r) /\ RowsFit(r) /\ Most \in Nat
        /\ \A q : WorstCase(q) \in 0..Most
    BY Types
  <1>2. /\ pc[r] = "noting" /\ claimed[r] = Hosted /\ unsettled[r] = Hosted /\ r \in InFlight
    BY <1>1 DEF NoteError, RequestFits, InFlight, Ended
  <1>3. /\ pc' = [pc EXCEPT ![r] = "settling"]
        /\ RecordOrLose(<<r, "error">>)
        /\ UNCHANGED <<provider, charge, outcome, claimed, unsettled, answer,
                       ledger, scripts, overlap, low, lost>>
    BY DEF NoteError, Goto
  <1>4. /\ pc'[r] = "settling" /\ pc' \in [Requests -> Points]
        /\ \A s \in Requests \ {r} : pc'[s] = pc[s]
    BY <1>1, <1>3 DEF TypeOK, Points
  <1>5. RequestTypes'
    <2>1. unsettled \in [Requests -> SUBSET Hosted]
      BY DEF BookInv
    <2> QED BY <1>1, <1>3, <1>4, <2>1 DEF TypeOK, RequestTypes
  <1>6. OthersKeep(r)
    BY <1>3, <1>4 DEF OthersKeep
  <1>7. LedgersFollow(r)
    <2> SUFFICES ASSUME NEW q \in Hosted
                 PROVE  /\ Held(r, q)' \in 0..Most
                        /\ ledger'[q] \in Int
                        /\ ledger[q] - Backed(r, q) + Backed(r, q)' <= ledger'[q]
                        /\ faults' = 0 => ledger'[q] = ledger[q] - Held(r, q) + Held(r, q)'
                        /\ \/ Backed(r, q)' <= Backed(r, q)
                           \/ reconcile.ledger[q] # Unread => <<r, q>> \in overlap'
      BY DEF LedgersFollow
    <2>1. Held(r, q) = WorstCase(q)
      BY <1>2 DEF Held, Unpaid
    <2>2. Held(r, q)' = WorstCase(q)
      BY <1>2, <1>3 DEF Held, Unpaid
    <2>3. ledger[q] \in Nat /\ ledger'[q] = ledger[q]
      BY <1>1, <1>3 DEF TypeOK
    <2>4. WorstCase(q) \in 0..Most
      BY <1>1
    <2> HIDE DEF Most
    <2> QED BY <1>1, <2>1, <2>2, <2>3, <2>4 DEF Backed
  <1>8. UNCHANGED faults \/ Fault
    BY <1>3 DEF RecordOrLose
  <1>9. rows' = rows \/ \E o \in Outcomes : rows' = rows \cup {<<r, o>>}
    BY <1>3 DEF RecordOrLose, Outcomes
  <1>10. RequestFits(r)' /\ RowsFit(r)'
    <2>1. \A o \in Outcomes \ {"error"} : <<r, o>> \notin rows
      BY <1>1, <1>2 DEF RowsFit
    <2>2. rows' = rows \/ rows' = rows \cup {<<r, "error">>}
      BY <1>3 DEF RecordOrLose
    <2>3. RequestFits(r)'
      BY <1>1, <1>2, <1>3, <1>4 DEF RequestFits
    <2>4. RowsFit(r)'
      BY <1>4, <2>1, <2>2 DEF RowsFit
    <2> QED BY <2>3, <2>4
  <1>11. WorkSeen(r)
    <2>1. ledger' \in [Hosted -> Int] /\ pc'[r] # "new"
      BY <1>1, <1>3, <1>4 DEF TypeOK
    <2> QED BY <1>2, <1>3, <1>8, <1>9, <2>1, ScriptsKept
  <1> QED BY <1>5, <1>6, <1>7, <1>10, <1>11, RequestStep

LEMMA RecordFits ==
  ASSUME BookInv, NEW r \in Requests, Record(r)
  PROVE  BookInv'
  <1>1. /\ TypeOK /\ RequestFits(r) /\ RowsFit(r) /\ Most \in Nat
    BY Types
  <1>2. /\ pc[r] = "recording" /\ claimed[r] = Hosted /\ unsettled[r] = {} /\ r \in InFlight
    BY <1>1 DEF Record, RequestFits, InFlight, Ended
  <1>3. /\ pc' = [pc EXCEPT ![r] = "done"]
        /\ RecordOrLose(<<r, outcome[r]>>)
        /\ UNCHANGED <<provider, charge, outcome, claimed, unsettled, answer,
                       ledger, scripts, overlap, low, lost>>
    BY DEF Record, Goto
  <1>4. /\ pc'[r] = "done" /\ pc' \in [Requests -> Points]
        /\ \A s \in Requests \ {r} : pc'[s] = pc[s]
    BY <1>1, <1>3 DEF TypeOK, Points, Ended
  <1>5. RequestTypes'
    <2>1. unsettled \in [Requests -> SUBSET Hosted]
      BY DEF BookInv
    <2> QED BY <1>1, <1>3, <1>4, <2>1 DEF TypeOK, RequestTypes
  <1>6. OthersKeep(r)
    BY <1>3, <1>4 DEF OthersKeep
  <1>7. LedgersFollow(r)
    <2> SUFFICES ASSUME NEW q \in Hosted
                 PROVE  /\ Held(r, q)' \in 0..Most
                        /\ ledger'[q] \in Int
                        /\ ledger[q] - Backed(r, q) + Backed(r, q)' <= ledger'[q]
                        /\ faults' = 0 => ledger'[q] = ledger[q] - Held(r, q) + Held(r, q)'
                        /\ \/ Backed(r, q)' <= Backed(r, q)
                           \/ reconcile.ledger[q] # Unread => <<r, q>> \in overlap'
      BY DEF LedgersFollow
    <2>1. Held(r, q) \in 0..Most
      BY HeldType
    <2>2. Held(r, q)' = Held(r, q)
      BY <1>2, <1>3, <1>4 DEF Held, Unpaid
    <2>3. /\ ledger[q] \in Nat /\ ledger'[q] = ledger[q] /\ WorstCase(q) \in 0..Most
      BY <1>1, <1>3, Types DEF TypeOK
    <2> HIDE DEF Most
    <2> QED BY <1>1, <2>1, <2>2, <2>3 DEF Backed
  <1>8. UNCHANGED faults \/ Fault
    BY <1>3 DEF RecordOrLose
  <1>9. outcome[r] \in Outcomes /\ outcome'[r] = outcome[r]
    BY <1>1, <1>2, <1>3 DEF RequestFits, TypeOK
  <1>10. rows' = rows \/ \E o \in Outcomes : rows' = rows \cup {<<r, o>>}
    BY <1>3, <1>9 DEF RecordOrLose
  <1>11. RequestFits(r)' /\ RowsFit(r)'
    <2>1. \A o \in Outcomes \ {"error"} : <<r, o>> \notin rows
      BY <1>1, <1>2 DEF RowsFit
    <2>2. \/ rows' = rows /\ faults' # 0
          \/ rows' = rows \cup {<<r, outcome[r]>>}
      <3>1. faults \in Nat
        BY <1>1, BookkeepingAssumption DEF TypeOK
      <3> QED BY <1>3, <3>1 DEF RecordOrLose, Fault
    <2>3. RequestFits(r)'
      BY <1>1, <1>2, <1>3, <1>4 DEF RequestFits
    <2>4. RowsFit(r)'
      BY <1>4, <1>9, <2>1, <2>2 DEF RowsFit
    <2> QED BY <2>3, <2>4
  <1>12. WorkSeen(r)
    <2>1. ledger' \in [Hosted -> Int] /\ pc'[r] # "new"
      BY <1>1, <1>3, <1>4 DEF TypeOK
    <2> QED BY <1>2, <1>3, <1>8, <1>10, <2>1, ScriptsKept
  <1> QED BY <1>5, <1>6, <1>7, <1>11, <1>12, RequestStep

\* A settlement puts the charge in the place of the claim, or a failure leaves
\* the claim.
LEMMA SettleFits ==
  ASSUME BookInv, NEW r \in Requests, NEW p \in Hosted, Settle(r, p)
  PROVE  BookInv'
  <1>1. /\ TypeOK /\ RequestFits(r) /\ RowsFit(r) /\ Most \in Nat /\ Nobody \notin Hosted
        /\ \A q : WorstCase(q) \in 0..Most
    BY Types
  <1>2. /\ pc[r] = "settling" /\ claimed[r] = Hosted /\ r \in InFlight
        /\ p \in unsettled[r] /\ unsettled[r] \subseteq Hosted
        /\ unsettled \in [Requests -> SUBSET Hosted]
    BY <1>1 DEF Settle, RequestFits, InFlight, Ended, BookInv
  <1>3. /\ \/ ledger' = SettleOne(r, p) /\ UNCHANGED faults
           \/ Fault /\ ledger' = ledger
        /\ unsettled' = [unsettled EXCEPT ![r] = @ \ {p}]
        /\ UNCHANGED <<provider, charge, outcome, claimed, answer,
                       rows, scripts, overlap, low, lost>>
    BY DEF Settle, Stranded
  <1>4. /\ unsettled'[r] = unsettled[r] \ {p}
        /\ unsettled' \in [Requests -> SUBSET Hosted]
        /\ \A s \in Requests \ {r} : unsettled'[s] = unsettled[s]
    BY <1>2, <1>3
  <1>5. /\ pc' \in [Requests -> Points]
        /\ \A s \in Requests \ {r} : pc'[s] = pc[s]
        /\ \/ pc'[r] = "settling"
           \/ pc'[r] = "recording" /\ unsettled'[r] = {} /\ outcome[r] # NoRow
           \/ pc'[r] = "done" /\ unsettled'[r] = {} /\ outcome[r] = NoRow
    <2> DEFINE point == CASE unsettled'[r] # {} -> "settling"
                          [] unsettled'[r] = {} /\ outcome[r] # NoRow -> "recording"
                          [] OTHER -> "done"
    <2>1. pc' = [pc EXCEPT ![r] = point]
      BY DEF Settle, Goto
    <2>2. \/ point = "settling"
          \/ point = "recording" /\ unsettled'[r] = {} /\ outcome[r] # NoRow
          \/ point = "done" /\ unsettled'[r] = {} /\ outcome[r] = NoRow
      OBVIOUS
    <2> HIDE DEF point
    <2>3. point \in Points
      BY <2>2 DEF Points, Ended
    <2> QED BY <1>1, <2>1, <2>2, <2>3 DEF TypeOK
  <1>6. RequestTypes'
    <2>1. \A s \in Requests : unsettled'[s] \subseteq claimed'[s]
      BY <1>1, <1>3, <1>4 DEF TypeOK
    <2> QED BY <1>1, <1>3, <1>4, <1>5, <2>1 DEF TypeOK, RequestTypes
  <1>7. OthersKeep(r)
    BY <1>3, <1>4, <1>5 DEF OthersKeep
  <1>8. /\ ledger' \in [Hosted -> Int]
        /\ \/ /\ UNCHANGED faults
              /\ \A q \in Hosted \ {p} : ledger'[q] = ledger[q]
              /\ ledger'[p] = ledger[p] - WorstCase(p)
                                + (IF p = provider[r] THEN charge[r] ELSE 0)
           \/ Fault /\ ledger' = ledger
    <2>1. ledger \in [Hosted -> Nat] /\ charge[r] \in 0..Most /\ WorstCase(p) \in 0..Most
      BY <1>1 DEF TypeOK
    <2>2. ASSUME ledger' = SettleOne(r, p)
          PROVE  /\ ledger' \in [Hosted -> Int]
                 /\ \A q \in Hosted \ {p} : ledger'[q] = ledger[q]
                 /\ ledger'[p] = ledger[p] - WorstCase(p)
                                   + (IF p = provider[r] THEN charge[r] ELSE 0)
      <3> DEFINE new == ledger[p] - WorstCase(p) + (IF p = provider[r] THEN charge[r] ELSE 0)
      <3>1. new \in Int
        <4> HIDE DEF Most
        <4> QED BY <1>1, <2>1
      <3>2. ledger' = [ledger EXCEPT ![p] = new]
        BY <2>2 DEF SettleOne
      <3> HIDE DEF new
      <3>3. /\ ledger' \in [Hosted -> Int] /\ ledger'[p] = new
            /\ \A q \in Hosted \ {p} : ledger'[q] = ledger[q]
        BY <2>1, <3>1, <3>2
      <3> QED BY <3>3 DEF new
    <2> QED BY <1>3, <2>1, <2>2
  <1>9. LedgersFollow(r)
    <2> SUFFICES ASSUME NEW q \in Hosted
                 PROVE  /\ Held(r, q)' \in 0..Most
                        /\ ledger'[q] \in Int
                        /\ ledger[q] - Backed(r, q) + Backed(r, q)' <= ledger'[q]
                        /\ faults' = 0 => ledger'[q] = ledger[q] - Held(r, q) + Held(r, q)'
                        /\ Backed(r, q)' <= Backed(r, q)
      BY DEF LedgersFollow
    <2>1. /\ ledger[q] \in Nat /\ ledger'[q] \in Int /\ charge[r] \in 0..Most
          /\ WorstCase(q) \in 0..Most /\ Most \in Nat /\ faults \in Nat
      BY <1>1, <1>8, BookkeepingAssumption DEF TypeOK
    <2>2. CASE q # p
      <3>1. Held(r, q)' = Held(r, q)
        BY <1>2, <1>3, <1>4, <1>5, <2>2 DEF Held, Unpaid
      <3>2. ledger'[q] = ledger[q]
        BY <1>8, <2>2
      <3>3. Held(r, q) \in 0..Most
        BY HeldType
      <3> HIDE DEF Most
      <3> QED BY <2>1, <3>1, <3>2, <3>3 DEF Backed
    <2>3. CASE q = p
      <3>1. Held(r, q) = WorstCase(p)
        BY <1>2, <2>3 DEF Held, Unpaid
      <3>2. Held(r, q)' = IF p = provider[r] THEN charge[r] ELSE 0
        BY <1>2, <1>3, <1>4, <1>5, <2>3 DEF Held, Unpaid
      <3>3. CASE UNCHANGED faults /\ ledger'[p] = ledger[p] - WorstCase(p)
                                              + (IF p = provider[r] THEN charge[r] ELSE 0)
        <4> HIDE DEF Most
        <4> QED BY <2>1, <2>3, <3>1, <3>2, <3>3 DEF Backed
      <3>4. CASE Fault /\ ledger' = ledger
        <4>1. faults' # 0
          BY <2>1, <3>4 DEF Fault
        <4> HIDE DEF Most
        <4> QED BY <2>1, <2>3, <3>1, <3>2, <3>4, <4>1 DEF Backed
      <3> QED BY <1>8, <3>3, <3>4
    <2> QED BY <2>2, <2>3
  <1>10. RequestFits(r)' /\ RowsFit(r)'
    <2>1. \A o \in Outcomes \ {"error"} : <<r, o>> \notin rows
      BY <1>1, <1>2 DEF RowsFit
    <2>2. RequestFits(r)'
      BY <1>1, <1>2, <1>3, <1>5 DEF RequestFits
    <2>3. RowsFit(r)'
      BY <1>3, <1>5, <2>1 DEF RowsFit
    <2> QED BY <2>2, <2>3
  <1>11. WorkSeen(r)
    BY <1>2, <1>3, <1>5, <1>8, ScriptsKept
  <1> QED BY <1>6, <1>7, <1>9, <1>10, <1>11, RequestStep

\* What r had in the ledgers stays there, and nobody knows of it.
LEMMA CrashFits ==
  ASSUME BookInv, NEW r \in Requests, Crash(r)
  PROVE  BookInv'
  <1>1. /\ TypeOK /\ RequestFits(r) /\ RowsFit(r) /\ Most \in Nat /\ Nobody \notin Hosted
    BY Types
  <1>2. /\ r \in InFlight /\ pc[r] \notin {"new", "done", "gone"} /\ Fault
        /\ pc' = [pc EXCEPT ![r] = "gone"]
        /\ provider' = [provider EXCEPT ![r] = Nobody]
        /\ charge' = [charge EXCEPT ![r] = 0]
        /\ outcome' = [outcome EXCEPT ![r] = NoRow]
        /\ claimed' = [claimed EXCEPT ![r] = {}]
        /\ unsettled' = [unsettled EXCEPT ![r] = {}]
        /\ answer' = [answer EXCEPT ![r] = NoAnswer]
        /\ UNCHANGED <<ledger, rows, scripts, overlap, low, lost>>
    BY DEF Crash, Goto, InFlight, Ended
  <1>3. unsettled \in [Requests -> SUBSET Hosted]
    BY DEF BookInv
  <1>4. /\ pc'[r] = "gone" /\ provider'[r] = Nobody /\ charge'[r] = 0
        /\ outcome'[r] = NoRow /\ claimed'[r] = {} /\ unsettled'[r] = {}
        /\ answer'[r] = NoAnswer
    BY <1>1, <1>2, <1>3 DEF TypeOK
  <1>5. OthersKeep(r)
    BY <1>1, <1>2, <1>3 DEF OthersKeep, TypeOK
  <1>6. RequestTypes'
    <2>1. \A s \in Requests : unsettled'[s] \subseteq claimed'[s]
      BY <1>1, <1>4, <1>5 DEF TypeOK, OthersKeep
    <2>2. 0 \in 0..Most
      <3> HIDE DEF Most
      <3> QED BY <1>1
    <2> QED BY <1>1, <1>2, <1>3, <2>1, <2>2 DEF TypeOK, RequestTypes, Points, Ended
  <1>7. faults' # 0
    BY <1>1, <1>2, BookkeepingAssumption DEF TypeOK, Fault
  <1>8. LedgersFollow(r)
    <2> SUFFICES ASSUME NEW q \in Hosted
                 PROVE  /\ Held(r, q)' \in 0..Most
                        /\ ledger'[q] \in Int
                        /\ ledger[q] - Backed(r, q) + Backed(r, q)' <= ledger'[q]
                        /\ Backed(r, q)' <= Backed(r, q)
      BY <1>7 DEF LedgersFollow
    <2>1. Held(r, q) \in 0..Most
      BY HeldType
    <2>2. Held(r, q)' = 0
      BY <1>4 DEF Held
    <2>3. /\ ledger[q] \in Nat /\ ledger'[q] = ledger[q] /\ WorstCase(q) \in 0..Most
      BY <1>1, <1>2, Types DEF TypeOK
    <2> HIDE DEF Most
    <2> QED BY <1>1, <2>1, <2>2, <2>3 DEF Backed
  <1>9. RequestFits(r)' /\ RowsFit(r)'
    <2>1. \A o \in Outcomes \ {"error"} : <<r, o>> \notin rows
      BY <1>1, <1>2 DEF RowsFit
    <2>2. RequestFits(r)'
      BY <1>1, <1>4 DEF RequestFits, Fair
    <2>3. RowsFit(r)'
      BY <1>2, <1>4, <2>1 DEF RowsFit
    <2> QED BY <2>2, <2>3
  <1>10. WorkSeen(r)
    <2>1. ledger' \in [Hosted -> Int] /\ pc'[r] # "new"
      BY <1>1, <1>2, <1>4 DEF TypeOK
    <2> QED BY <1>2, <2>1, ScriptsKept
  <1> QED BY <1>5, <1>6, <1>8, <1>9, <1>10, RequestStep

-----------------------------------------------------------------------------
(* Each action of a script *)

\* What requests hold, when none of them moves.
LEMMA HeldKept ==
  ASSUME UNCHANGED request
  PROVE  /\ \A p : /\ HeldAt(p)' = HeldAt(p) /\ BackedAt(p)' = BackedAt(p)
                  /\ Booked(p)' = Booked(p)
         /\ InFlight' = InFlight
  BY DEF request, HeldAt, Held, BackedAt, Backed, Unpaid, Booked, InFlight

\* A script reads what the requests did, and deletes rows.
LEMMA ScriptStep ==
  ASSUME BookInv, UNCHANGED <<request, ledger>>,
         faults' \in 0..MaxFaults, faults' = 0 => faults = 0,
         rows' \subseteq rows, ~purge'.deleted => ~purge.deleted /\ rows' = rows,
         reconcile' \in [at : {"idle", "reading", "ended"}, ledger : [Hosted -> Nat \cup {Unread}],
                         exit : {"none", "agree", "disagree", "unreachable"}, busy : BOOLEAN],
         purge' \in [at : {"idle", "selected", "exported", "ended"}, id : SUBSET Requests,
                     rows : SUBSET Rows, export : SUBSET Rows, deleted : BOOLEAN],
         overlap' \subseteq Requests \X Hosted, low' = {}, lost' \subseteq Rows,
         ReadingsCover', QuietReadings', QuietBooksAgree'
  PROVE  BookInv'
  <1>1. /\ TypeOK /\ LedgersCover /\ unsettled \in [Requests -> SUBSET Hosted]
        /\ \A r \in Requests : RequestFits(r) /\ RowsFit(r)
    BY DEF BookInv
  <1>2. /\ pc' = pc /\ provider' = provider /\ charge' = charge /\ outcome' = outcome
        /\ claimed' = claimed /\ unsettled' = unsettled /\ answer' = answer
        /\ ledger' = ledger
    BY DEF request
  <1>3. TypeOK' /\ (unsettled \in [Requests -> SUBSET Hosted])'
    <2>1. rows' \subseteq {row \in Rows : pc'[row[1]] # "new"}
      BY <1>1, <1>2 DEF TypeOK
    <2> QED BY <1>1, <1>2, <2>1 DEF TypeOK
  <1>4. ASSUME NEW r \in Requests PROVE RequestFits(r)' /\ RowsFit(r)'
    <2>1. RequestFits(r) /\ RowsFit(r)
      BY <1>1
    <2>2. RequestFits(r)'
      BY <1>2, <2>1 DEF RequestFits
    <2>3. RowsFit(r)'
      BY <1>2, <2>1 DEF RowsFit
    <2> QED BY <2>2, <2>3
  <1>5. LedgersCover'
    <2>1. \A p : Booked(p)' = Booked(p) /\ BackedAt(p)' = BackedAt(p)
      BY HeldKept
    <2> QED BY <1>1, <1>2, <2>1 DEF LedgersCover
  <1> QED BY <1>1, <1>2, <1>3, <1>4, <1>5 DEF BookInv

LEMMA ReadLedgerFits ==
  ASSUME BookInv, NEW p \in Hosted, ReadLedger(p)
  PROVE  BookInv'
  <1>1. /\ TypeOK /\ LedgersCover /\ ReadingsCover /\ QuietReadings
        /\ low = {} /\ IsFiniteSet(Requests) /\ Most \in Nat
        /\ \A q : WorstCase(q) \in 0..Most
    BY Types DEF BookInv
  <1>2. /\ reconcile' = [reconcile EXCEPT !.at = "reading", !.ledger[p] = ledger[p],
                                          !.busy = @ \/ InFlight # {}]
        /\ UNCHANGED <<request, ledger, rows, purge, faults, overlap, low, lost>>
    BY DEF ReadLedger
  <1>3. reconcile \in [at : {"idle", "reading", "ended"}, ledger : [Hosted -> Nat \cup {Unread}],
                       exit : {"none", "agree", "disagree", "unreachable"}, busy : BOOLEAN]
    BY <1>1 DEF TypeOK
  <1>4. /\ reconcile'.at = "reading" /\ reconcile'.busy = (reconcile.busy \/ InFlight # {})
        /\ reconcile'.exit = reconcile.exit
        /\ reconcile'.ledger[p] = ledger[p]
        /\ \A q \in Hosted \ {p} : reconcile'.ledger[q] = reconcile.ledger[q]
    BY <1>2, <1>3
  <1>5. reconcile' \in [at : {"idle", "reading", "ended"}, ledger : [Hosted -> Nat \cup {Unread}],
                        exit : {"none", "agree", "disagree", "unreachable"}, busy : BOOLEAN]
    <2>1. ledger[p] \in Nat
      BY <1>1 DEF TypeOK
    <2> QED BY <1>2, <1>3, <2>1
  <1>6. ReadingsCover'
    <2> SUFFICES ASSUME NEW q \in Hosted, reconcile'.ledger[q] # Unread
                 PROVE  Total(BackedAt(q)', Requests \ Overlapping(q)') <= reconcile'.ledger[q]
      BY <1>4 DEF ReadingsCover
    <2>1. BackedAt(q)' = BackedAt(q) /\ Overlapping(q)' = Overlapping(q)
      BY <1>2, HeldKept DEF Overlapping
    <2>2. CASE q = p
      <3> DEFINE f == BackedAt(p)
                 S == Requests \ Overlapping(p)
      <3>1. \A r \in Requests : f[r] \in 0..Most
        BY BackedType DEF BackedAt
      <3>2. Total(f, Requests) <= ledger[p] /\ ledger[p] \in Nat
        BY <1>1 DEF LedgersCover, TypeOK
      <3>3. S \in SUBSET Requests /\ IsFiniteSet(S)
        BY <1>1, FS_Subset
      <3> HIDE DEF f, S
      <3>4. Total(f, S) <= Total(f, Requests)
        BY <1>1, <3>1, <3>3, TotalSubset
      <3>5. Total(f, S) \in Nat /\ Total(f, Requests) \in Nat
        BY <1>1, <3>1, <3>3, UnitsFinite
      <3>6. Total(f, S) <= ledger[p]
        BY <3>2, <3>4, <3>5
      <3> QED BY <1>4, <2>1, <2>2, <3>6 DEF f, S
    <2>3. CASE q # p
      BY <1>1, <1>4, <2>1, <2>3 DEF ReadingsCover
    <2> QED BY <2>2, <2>3
  <1>7. QuietReadings'
    <2> SUFFICES ASSUME ~reconcile'.busy, faults' = 0
                 PROVE  /\ InFlight' = {}
                        /\ \A q \in Hosted : reconcile'.ledger[q] # Unread =>
                                               reconcile'.ledger[q] = Booked(q)'
      BY DEF QuietReadings
    <2>1. ~reconcile.busy /\ InFlight = {} /\ faults = 0
      BY <1>2, <1>4
    <2>2. ASSUME NEW q \in Hosted, reconcile'.ledger[q] # Unread
          PROVE  reconcile'.ledger[q] = Booked(q)
      <3>1. CASE q = p
        BY <1>1, <1>4, <2>1, <3>1 DEF LedgersCover
      <3>2. CASE q # p
        BY <1>1, <1>4, <2>1, <2>2, <3>2 DEF ReadingsCover, QuietReadings
      <3> QED BY <3>1, <3>2
    <2> QED BY <1>2, <2>1, <2>2, HeldKept
  <1>8. QuietBooksAgree'
    BY <1>4 DEF QuietBooksAgree
  <1>9. /\ purge \in [at : {"idle", "selected", "exported", "ended"}, id : SUBSET Requests,
                      rows : SUBSET Rows, export : SUBSET Rows, deleted : BOOLEAN]
        /\ faults \in 0..MaxFaults /\ overlap \subseteq Requests \X Hosted /\ lost \subseteq Rows
    BY <1>1 DEF TypeOK
  <1> QED BY <1>1, <1>2, <1>5, <1>6, <1>7, <1>8, <1>9, ScriptStep

\* What the rows that name p charge: each request has at most one of them, and
\* that is the last thing it does.
Charged(p) == {r \in Requests : /\ pc[r] = "done" /\ provider[r] = p
                                /\ <<r, outcome[r]>> \in rows}

LEMMA AuditIsCharged ==
  ASSUME BookInv, NEW p \in Hosted
  PROVE  /\ AuditTotal(p) = Total(charge, Charged(p))
         /\ IsFiniteSet(Charged(p)) /\ Total(charge, Charged(p)) \in Nat
         /\ \A r \in Charged(p) : Held(r, p) = charge[r]
  <1>1. /\ TypeOK /\ IsFiniteSet(Requests) /\ Most \in Nat /\ Nobody \notin Hosted
        /\ \A r \in Requests : RequestFits(r) /\ RowsFit(r)
    BY Types
  <1> DEFINE S == {row \in rows : RowProvider(row) = p}
             f == [row \in Rows |-> RowCost(row)]
             name == [r \in Charged(p) |-> <<r, outcome[r]>>]
  <1>2. IsFiniteSet(Charged(p))
    BY <1>1, FS_Subset DEF Charged
  <1>3. \A r \in Charged(p) : charge[r] \in 0..Most /\ r \in Requests
    BY <1>1 DEF TypeOK, Charged
  <1>4. \A r \in Charged(p) : outcome[r] # "error" /\ outcome[r] # NoRow
    BY <1>1 DEF RequestFits, Charged
  <1>5. ASSUME NEW r \in Charged(p)
        PROVE  /\ <<r, outcome[r]>> \in S /\ f[<<r, outcome[r]>>] = charge[r]
               /\ <<r, outcome[r]>> \in Rows
    <2>1. <<r, outcome[r]>> \in rows /\ <<r, outcome[r]>> \in Rows /\ provider[r] = p
      BY <1>1 DEF Charged, TypeOK
    <2> QED BY <1>4, <2>1 DEF RowProvider, RowCost
  <1>6. ASSUME NEW row \in S
        PROVE  row[1] \in Charged(p) /\ row = <<row[1], outcome[row[1]]>>
    <2>1. /\ row \in rows /\ row \in Requests \X Outcomes /\ row[2] # "error"
          /\ provider[row[1]] = p
      BY <1>1 DEF TypeOK, Rows, RowProvider
    <2>2. row = <<row[1], row[2]>> /\ row[1] \in Requests /\ row[2] \in Outcomes \ {"error"}
      BY <2>1
    <2>3. pc[row[1]] = "done" /\ outcome[row[1]] = row[2]
      <3> DEFINE r == row[1]
                 o == row[2]
      <3>1. /\ r \in Requests /\ o \in Outcomes \ {"error"} /\ <<r, o>> \in rows
        BY <2>1, <2>2
      <3> HIDE DEF r, o
      <3>2. pc[r] = "done" /\ outcome[r] = o
        BY <1>1, <3>1 DEF RowsFit
      <3> QED BY <3>2 DEF r, o
    <2> QED BY <2>1, <2>2, <2>3 DEF Charged
  <1>7. name \in Bijection(Charged(p), S)
    <2>1. name \in [Charged(p) -> S]
      BY <1>5
    <2>2. \A r, s \in Charged(p) : name[r] = name[s] => r = s
      OBVIOUS
    <2>3. \A row \in S : \E r \in Charged(p) : name[r] = row
      BY <1>6
    <2> HIDE DEF name, S
    <2> QED BY <2>1, <2>2, <2>3 DEF Bijection, Injection, Surjection, IsInjective
  <1>8. \A r \in Charged(p) : f[name[r]] = charge[r]
    BY <1>5
  <1>9. AuditTotal(p) = Total(f, S)
    BY DEF AuditTotal
  <1>10. \A r \in Charged(p) : Held(r, p) = charge[r]
    BY <1>1 DEF Held, Unpaid, Charged, RequestFits
  <1> HIDE DEF name, f, S
  <1>11. Total(f, S) = Total(charge, Charged(p))
    BY <1>1, <1>2, <1>3, <1>7, <1>8, TotalRenamed
  <1>12. Total(charge, Charged(p)) \in Nat
    BY <1>1, <1>2, <1>3, UnitsFinite
  <1> QED BY <1>2, <1>9, <1>10, <1>11, <1>12

\* The log has at most what was read, the charges of the overlap, and what the
\* others were charged above their claims.
LEMMA GapBound ==
  ASSUME BookInv, NEW p \in Hosted, reconcile.ledger[p] # Unread
  PROVE  Gap(p) \in Int /\ Explained(p) \in Nat /\ - Explained(p) <= Gap(p)
  <1> DEFINE T == Charged(p)
             O == Overlapping(p)
             f == BackedAt(p)
             e == ExcessAt(p)
             Rest == Requests \ O
  <1>1. TypeOK /\ IsFiniteSet(Requests) /\ Most \in Nat
    BY Types
  <1>2. ASSUME NEW r \in Requests
        PROVE  /\ charge[r] \in 0..Most /\ f[r] \in 0..Most /\ e[r] \in 0..Most
               /\ r \in T => charge[r] = f[r] + e[r]
    <2>1. charge[r] \in 0..Most /\ Held(r, p) \in 0..Most /\ WorstCase(p) \in 0..Most
      BY <1>1, Types, HeldType DEF TypeOK
    <2>2. f[r] = Backed(r, p) /\ e[r] = Excess(r, p)
      BY DEF BackedAt, ExcessAt
    <2>3. r \in T => Held(r, p) = charge[r] /\ provider[r] = p
      BY AuditIsCharged DEF Charged
    <2> HIDE DEF f, e, T, Most
    <2>4. f[r] \in 0..Most /\ e[r] \in 0..Most
      BY <1>1, <2>1, <2>2 DEF Backed, Excess
    <2>5. r \in T => charge[r] = f[r] + e[r]
      BY <1>1, <2>1, <2>2, <2>3 DEF Backed, Excess
    <2> QED BY <2>1, <2>4, <2>5
  <1>3. T \subseteq Requests /\ O \subseteq Requests
    BY DEF Charged, Overlapping
  <1>4. reconcile.ledger[p] \in Nat /\ Total(f, Rest) <= reconcile.ledger[p]
    BY <1>1 DEF TypeOK, BookInv, ReadingsCover
  <1>5. Gap(p) = reconcile.ledger[p] - Total(charge, T)
    BY AuditIsCharged DEF Gap
  <1>6. Explained(p) = Total(charge, O) + Total(e, Rest)
    BY DEF Explained
  <1>7. Rest \subseteq Requests /\ T \ O \subseteq Rest
    BY <1>3
  <1> HIDE DEF T, O, f, e, Rest
  <1>8. /\ IsFiniteSet(O) /\ IsFiniteSet(T \ O) /\ IsFiniteSet(T \cap O)
        /\ IsFiniteSet(Rest)
    BY <1>1, <1>3, <1>7, FS_Subset
  <1>9. Total(charge, T) = Total(charge, T \ O) + Total(charge, T \cap O)
    <2>1. T = (T \ O) \cup (T \cap O) /\ (T \ O) \cap (T \cap O) = {}
      OBVIOUS
    <2>2. \A r \in (T \ O) \cup (T \cap O) : charge[r] \in 0..Most
      BY <1>2, <1>3
    <2>3. Total(charge, (T \ O) \cup (T \cap O))
            = Total(charge, T \ O) + Total(charge, T \cap O)
      BY <1>1, <1>8, <2>1, <2>2, TotalSplit
    <2> QED BY <2>1, <2>3
  <1>10. Total(charge, T \ O) = Total(f, T \ O) + Total(e, T \ O)
    <2>1. /\ \A r \in T \ O : f[r] \in 0..Most
          /\ \A r \in T \ O : e[r] \in 0..Most
          /\ \A r \in T \ O : charge[r] = f[r] + e[r]
      BY <1>2, <1>3
    <2> QED BY <1>1, <1>8, <2>1, TotalSum
  <1>11. Total(f, T \ O) <= Total(f, Rest) /\ Total(e, T \ O) <= Total(e, Rest)
    <2>1. /\ \A r \in Rest : f[r] \in 0..Most
          /\ \A r \in Rest : e[r] \in 0..Most
          /\ T \ O \in SUBSET Rest
      BY <1>2, <1>7
    <2> QED BY <1>1, <1>8, <2>1, TotalSubset
  <1>12. Total(charge, T \cap O) <= Total(charge, O)
    <2>1. T \cap O \in SUBSET O /\ \A r \in O : charge[r] \in 0..Most
      BY <1>2, <1>3
    <2> QED BY <1>1, <1>8, <2>1, TotalSubset
  <1>13. /\ Total(charge, T \ O) \in Nat /\ Total(charge, T \cap O) \in Nat
         /\ Total(charge, O) \in Nat /\ Total(f, Rest) \in Nat /\ Total(e, Rest) \in Nat
         /\ Total(f, T \ O) \in Nat /\ Total(e, T \ O) \in Nat
    <2>1. /\ \A r \in T \ O : charge[r] \in 0..Most
          /\ \A r \in T \ O : f[r] \in 0..Most
          /\ \A r \in T \ O : e[r] \in 0..Most
          /\ \A r \in T \cap O : charge[r] \in 0..Most
          /\ \A r \in O : charge[r] \in 0..Most
          /\ \A r \in Rest : f[r] \in 0..Most
          /\ \A r \in Rest : e[r] \in 0..Most
      BY <1>2, <1>3, <1>7
    <2> QED BY <1>1, <1>8, <2>1, UnitsFinite
  <1> QED BY <1>4, <1>5, <1>6, <1>9, <1>10, <1>11, <1>12, <1>13

\* With no one in flight and nothing failed or deleted, each charge is in the
\* log, and what was read is the sum of the charges.
LEMMA QuietGap ==
  ASSUME BookInv, NEW p \in Hosted, reconcile.ledger[p] # Unread,
         ~reconcile.busy, faults = 0, ~purge.deleted
  PROVE  Gap(p) = 0
  <1> DEFINE T == Charged(p)
             f == HeldAt(p)
  <1>1. /\ TypeOK /\ IsFiniteSet(Requests) /\ Most \in Nat /\ Nobody \notin Hosted
        /\ \A r \in Requests : RequestFits(r) /\ RowsFit(r)
    BY Types
  <1>2. InFlight = {} /\ reconcile.ledger[p] = Total(f, Requests)
    <2>1. reconcile.at = "reading" /\ QuietReadings
      BY DEF BookInv, ReadingsCover
    <2> QED BY <2>1 DEF QuietReadings, Booked
  <1>3. /\ \A r \in Requests : f[r] \in 0..Most
        /\ \A r \in T : f[r] = charge[r]
        /\ T \subseteq Requests /\ IsFiniteSet(T)
    BY HeldType, AuditIsCharged DEF HeldAt, Charged
  <1>4. ASSUME NEW r \in Requests \ T PROVE f[r] = 0
    <2>1. f[r] = Held(r, p)
      BY DEF HeldAt
    <2>2. pc[r] \in {"new", "done", "gone"}
      BY <1>2 DEF InFlight, Ended
    <2>3. CASE pc[r] # "done"
      BY <1>1, <2>1, <2>2, <2>3 DEF RequestFits, Held
    <2>4. CASE pc[r] = "done"
      <3>1. provider[r] # p
        <4> SUFFICES ASSUME provider[r] = p PROVE FALSE
          OBVIOUS
        <4>1. outcome[r] # NoRow
          BY <1>1 DEF RequestFits
        <4>2. <<r, outcome[r]>> \in rows
          BY <1>1, <2>4, <4>1 DEF RowsFit
        <4> QED BY <2>4, <4>2 DEF Charged
      <3>2. unsettled[r] = {}
        BY <1>1, <2>4 DEF RequestFits
      <3> QED BY <2>1, <2>4, <3>1, <3>2 DEF Held, Unpaid
    <2> QED BY <2>3, <2>4
  <1>5. Gap(p) = reconcile.ledger[p] - Total(charge, T) /\ Total(charge, T) \in Nat
    BY AuditIsCharged DEF Gap
  <1> HIDE DEF T, f
  <1>6. Total(f, Requests) = Total(f, T) + Total(f, Requests \ T)
    <2>1. Requests = T \cup (Requests \ T) /\ T \cap (Requests \ T) = {}
      BY <1>3
    <2>2. IsFiniteSet(Requests \ T) /\ \A r \in T \cup (Requests \ T) : f[r] \in 0..Most
      BY <1>1, <1>3, FS_Subset
    <2> QED BY <1>1, <1>3, <2>1, <2>2, TotalSplit
  <1>7. Total(f, Requests \ T) = 0
    BY <1>4, TotalZero
  <1>8. Total(f, T) = Total(charge, T)
    BY <1>3, TotalLocal
  <1> QED BY <1>2, <1>5, <1>6, <1>7, <1>8

LEMMA ReadAuditFits ==
  ASSUME BookInv, ReadAudit
  PROVE  BookInv'
  <1>1. TypeOK
    BY DEF BookInv
  <1>2. /\ \A p \in Hosted : reconcile.ledger[p] # Unread
        /\ reconcile' = [reconcile EXCEPT !.at = "ended", !.ledger = NothingRead,
                           !.exit = IF \A p \in Hosted : Gap(p) = 0 THEN "agree" ELSE "disagree"]
        /\ low' = {p \in Hosted : Gap(p) < - Explained(p)}
        /\ overlap' = {}
        /\ UNCHANGED <<request, ledger, rows, purge, faults, lost>>
    BY DEF ReadAudit
  <1>3. reconcile \in [at : {"idle", "reading", "ended"}, ledger : [Hosted -> Nat \cup {Unread}],
                       exit : {"none", "agree", "disagree", "unreachable"}, busy : BOOLEAN]
    BY <1>1 DEF TypeOK
  <1>4. NothingRead \in [Hosted -> Nat \cup {Unread}] /\ \A p \in Hosted : NothingRead[p] = Unread
    BY DEF NothingRead
  <1>5. /\ reconcile' \in [at : {"idle", "reading", "ended"}, ledger : [Hosted -> Nat \cup {Unread}],
                           exit : {"none", "agree", "disagree", "unreachable"}, busy : BOOLEAN]
        /\ reconcile'.at = "ended" /\ reconcile'.ledger = NothingRead
        /\ reconcile'.busy = reconcile.busy
        /\ (\A p \in Hosted : Gap(p) = 0) => reconcile'.exit = "agree"
    <2> DEFINE exit == IF \A p \in Hosted : Gap(p) = 0 THEN "agree" ELSE "disagree"
    <2>1. /\ exit \in {"agree", "disagree"}
          /\ (\A p \in Hosted : Gap(p) = 0) => exit = "agree"
      OBVIOUS
    <2>2. reconcile' = [reconcile EXCEPT !.at = "ended", !.ledger = NothingRead, !.exit = exit]
      BY <1>2
    <2> HIDE DEF exit
    <2> QED BY <1>3, <1>4, <2>1, <2>2
  <1>6. low' = {}
    <2> SUFFICES ASSUME NEW p \in Hosted
                 PROVE  ~(Gap(p) < - Explained(p))
      BY <1>2
    <2>1. Gap(p) \in Int /\ Explained(p) \in Nat /\ - Explained(p) <= Gap(p)
      BY <1>2, GapBound
    <2> QED BY <2>1
  <1>7. QuietBooksAgree'
    <2> SUFFICES ASSUME ~reconcile.busy, faults = 0, ~purge.deleted
                 PROVE  reconcile'.exit = "agree"
      BY <1>2, <1>5 DEF QuietBooksAgree
    <2>1. \A p \in Hosted : Gap(p) = 0
      BY <1>2, QuietGap
    <2> QED BY <1>5, <2>1
  <1>8. ReadingsCover' /\ QuietReadings'
    BY <1>4, <1>5 DEF ReadingsCover, QuietReadings
  <1>9. /\ purge \in [at : {"idle", "selected", "exported", "ended"}, id : SUBSET Requests,
                      rows : SUBSET Rows, export : SUBSET Rows, deleted : BOOLEAN]
        /\ faults \in 0..MaxFaults /\ lost \subseteq Rows
    BY <1>1 DEF TypeOK
  <1> QED BY <1>1, <1>2, <1>5, <1>6, <1>7, <1>8, <1>9, ScriptStep

LEMMA CannotReadFits ==
  ASSUME BookInv, CannotRead
  PROVE  BookInv'
  <1>1. TypeOK /\ low = {}
    BY DEF BookInv
  <1>2. /\ reconcile' = [reconcile EXCEPT !.at = "ended", !.ledger = NothingRead,
                                          !.exit = "unreachable"]
        /\ overlap' = {} /\ Fault
        /\ UNCHANGED <<request, ledger, rows, purge, low, lost>>
    BY DEF CannotRead
  <1>3. reconcile \in [at : {"idle", "reading", "ended"}, ledger : [Hosted -> Nat \cup {Unread}],
                       exit : {"none", "agree", "disagree", "unreachable"}, busy : BOOLEAN]
    BY <1>1 DEF TypeOK
  <1>4. NothingRead \in [Hosted -> Nat \cup {Unread}] /\ \A p \in Hosted : NothingRead[p] = Unread
    BY DEF NothingRead
  <1>5. /\ reconcile' \in [at : {"idle", "reading", "ended"}, ledger : [Hosted -> Nat \cup {Unread}],
                           exit : {"none", "agree", "disagree", "unreachable"}, busy : BOOLEAN]
        /\ reconcile'.at = "ended" /\ reconcile'.ledger = NothingRead
    BY <1>2, <1>3, <1>4
  <1>6. faults' \in 0..MaxFaults /\ faults' # 0
    BY <1>1, <1>2, BookkeepingAssumption DEF TypeOK, Fault
  <1>7. ReadingsCover' /\ QuietReadings' /\ QuietBooksAgree'
    BY <1>4, <1>5, <1>6 DEF ReadingsCover, QuietReadings, QuietBooksAgree
  <1>8. /\ purge \in [at : {"idle", "selected", "exported", "ended"}, id : SUBSET Requests,
                      rows : SUBSET Rows, export : SUBSET Rows, deleted : BOOLEAN]
        /\ lost \subseteq Rows
    BY <1>1 DEF TypeOK
  <1> QED BY <1>1, <1>2, <1>5, <1>6, <1>7, <1>8, ScriptStep

PurgeTypes == [at : {"idle", "selected", "exported", "ended"}, id : SUBSET Requests,
               rows : SUBSET Rows, export : SUBSET Rows, deleted : BOOLEAN]

\* What the purge does is nothing to the ledgers, the requests and reconcile.
LEMMA PurgeStep ==
  ASSUME BookInv, UNCHANGED <<request, ledger, reconcile, overlap, low>>,
         UNCHANGED faults \/ Fault,
         rows' \subseteq rows, ~purge'.deleted => ~purge.deleted /\ rows' = rows,
         purge' \in PurgeTypes, lost' \subseteq Rows
  PROVE  BookInv'
  <1>1. TypeOK /\ ReadingsCover /\ QuietReadings /\ QuietBooksAgree /\ low = {}
    BY DEF BookInv
  <1>2. faults' \in 0..MaxFaults /\ (faults' = 0 => faults = 0)
    BY <1>1, BookkeepingAssumption DEF TypeOK, Fault
  <1>3. \A p : /\ BackedAt(p)' = BackedAt(p) /\ Booked(p)' = Booked(p)
               /\ Overlapping(p)' = Overlapping(p)
    BY HeldKept DEF Overlapping
  <1>4. InFlight' = InFlight
    BY HeldKept
  <1>5. ReadingsCover'
    BY <1>1, <1>3 DEF ReadingsCover
  <1>6. QuietReadings'
    BY <1>1, <1>2, <1>3, <1>4 DEF QuietReadings
  <1>7. QuietBooksAgree'
    BY <1>1, <1>2 DEF QuietBooksAgree
  <1>8. /\ reconcile' \in [at : {"idle", "reading", "ended"}, ledger : [Hosted -> Nat \cup {Unread}],
                           exit : {"none", "agree", "disagree", "unreachable"}, busy : BOOLEAN]
        /\ overlap' \subseteq Requests \X Hosted /\ low' = {}
    BY <1>1 DEF TypeOK
  <1> QED BY <1>2, <1>5, <1>6, <1>7, <1>8, ScriptStep DEF PurgeTypes

LEMMA PurgeKeeps ==
  ASSUME BookInv, Purge
  PROVE  BookInv'
  <1>1. purge \in PurgeTypes /\ rows \subseteq Rows /\ lost \subseteq Rows
    BY DEF BookInv, TypeOK, PurgeTypes
  <1>2. \A id : Carrying(id) \in SUBSET Rows
    BY <1>1 DEF Carrying
  <1>3. NoPurge("ended") \in PurgeTypes /\ NoPurge("ended").deleted = purge.deleted
    BY <1>1 DEF NoPurge, PurgeTypes
  <1>4. ASSUME NEW id \in SUBSET Requests \ {{}}, NEW apply \in BOOLEAN, SelectRows(id, apply)
        PROVE  BookInv'
    <2>1. UNCHANGED <<request, ledger, rows, reconcile, faults, overlap, low, lost>>
      BY <1>4 DEF SelectRows
    <2>2. purge' \in PurgeTypes /\ purge'.deleted = purge.deleted
      <3>1. CASE purge' = NoPurge("ended")
        BY <1>3, <3>1
      <3>2. CASE purge' = [purge EXCEPT !.at = "selected", !.id = id, !.rows = Carrying(id)]
        BY <1>1, <1>2, <3>2 DEF PurgeTypes
      <3> QED BY <1>4, <3>1, <3>2 DEF SelectRows
    <2> QED BY <1>1, <2>1, <2>2, PurgeStep
  <1>5. ASSUME Export PROVE BookInv'
    <2>1. /\ purge' = [purge EXCEPT !.at = "exported", !.export = purge.rows]
          /\ UNCHANGED <<request, ledger, rows, reconcile, faults, overlap, low, lost>>
      BY <1>5 DEF Export
    <2>2. purge' \in PurgeTypes /\ purge'.deleted = purge.deleted
      BY <1>1, <2>1 DEF PurgeTypes
    <2> QED BY <1>1, <2>1, <2>2, PurgeStep
  <1>6. ASSUME ExportFails \/ PurgeFails PROVE BookInv'
    <2>1. /\ Fault /\ purge' = NoPurge("ended")
          /\ UNCHANGED <<request, ledger, rows, reconcile, overlap, low, lost>>
      BY <1>6 DEF ExportFails, PurgeFails
    <2> QED BY <1>1, <1>3, <2>1, PurgeStep
  <1>7. ASSUME DeleteRows PROVE BookInv'
    <2>1. /\ rows' = rows \ Carrying(purge.id) /\ lost' = Carrying(purge.id) \ purge.export
          /\ purge' = [NoPurge("ended") EXCEPT !.deleted = TRUE]
          /\ UNCHANGED <<request, ledger, reconcile, faults, overlap, low>>
      BY <1>7 DEF DeleteRows
    <2>2. purge' \in PurgeTypes /\ purge'.deleted
      <3> DEFINE none == NoPurge("ended")
      <3>1. none \in PurgeTypes /\ purge' = [none EXCEPT !.deleted = TRUE]
        BY <1>3, <2>1
      <3> HIDE DEF none
      <3> QED BY <3>1 DEF PurgeTypes
    <2>3. lost' \subseteq Rows
      BY <1>2, <2>1
    <2> QED BY <2>1, <2>2, <2>3, PurgeStep
  <1> QED BY <1>4, <1>5, <1>6, <1>7 DEF Purge

-----------------------------------------------------------------------------
(* The theorems *)

LEMMA BookInvInit == Init => BookInv
  <1> SUFFICES ASSUME Init PROVE BookInv
    OBVIOUS
  <1> USE DEF Init
  <1>1. Most \in Nat /\ MaxFaults \in Nat /\ IsFiniteSet(Requests) /\ Nobody \notin Hosted
    BY BookkeepingAssumption, WorstCaseBound DEF Providers
  <1>2. TypeOK /\ unsettled \in [Requests -> SUBSET Hosted]
    <2>1. 0 \in 0..Most /\ 0 \in 0..MaxFaults
      <3> HIDE DEF Most
      <3> QED BY <1>1
    <2>2. reconcile \in [at : {"idle", "reading", "ended"}, ledger : [Hosted -> Nat \cup {Unread}],
                         exit : {"none", "agree", "disagree", "unreachable"}, busy : BOOLEAN]
      BY DEF NothingRead
    <2> QED BY <2>1, <2>2 DEF TypeOK, Points
  <1>3. \A r \in Requests : RequestFits(r) /\ RowsFit(r)
    BY <1>1 DEF RequestFits, RowsFit, Fair
  <1>4. ASSUME NEW p \in Hosted PROVE Booked(p) = 0 /\ Total(BackedAt(p), Requests) = 0
    <2>1. \A r \in Requests : Held(r, p) = 0
      BY DEF Held
    <2>2. WorstCase(p) \in 0..Most
      BY WorstCaseBound
    <2>3. \A r \in Requests : HeldAt(p)[r] = 0 /\ BackedAt(p)[r] = 0
      <3> HIDE DEF Most
      <3> QED BY <1>1, <2>1, <2>2 DEF HeldAt, BackedAt, Backed
    <2> QED BY <2>3, TotalZero DEF Booked
  <1>5. LedgersCover
    BY <1>4 DEF LedgersCover
  <1>6. ReadingsCover /\ QuietReadings /\ QuietBooksAgree
    BY DEF ReadingsCover, QuietReadings, QuietBooksAgree, NothingRead
  <1> QED BY <1>2, <1>3, <1>5, <1>6 DEF BookInv

LEMMA BookInvStep == BookInv /\ [Next]_vars => BookInv'
  <1> SUFFICES ASSUME BookInv, [Next]_vars PROVE BookInv'
    OBVIOUS
  <1>1. ASSUME NEW r \in Requests, Work(r) PROVE BookInv'
    <2>1. ASSUME NEW p \in Hosted, Reserve(r, p) PROVE BookInv'
      BY <2>1, ReserveFits
    <2>2. ASSUME NEW p \in Hosted, Settle(r, p) PROVE BookInv'
      BY <2>2, SettleFits
    <2> QED BY <1>1, <2>1, <2>2, AnsweredFits, NoteErrorFits, RecordFits, CrashFits DEF Work
  <1>2. ASSUME Reconcile PROVE BookInv'
    BY <1>2, ReadLedgerFits, ReadAuditFits, CannotReadFits DEF Reconcile
  <1>3. ASSUME Purge PROVE BookInv'
    BY <1>3, PurgeKeeps
  <1>4. ASSUME UNCHANGED vars PROVE BookInv'
    <2>1. /\ UNCHANGED <<request, ledger, reconcile, overlap, low>> /\ UNCHANGED faults
          /\ rows' = rows /\ purge' = purge /\ lost' = lost
      BY <1>4 DEF vars, scripts
    <2>2. purge \in PurgeTypes /\ lost \subseteq Rows
      BY DEF BookInv, TypeOK, PurgeTypes
    <2> QED BY <2>1, <2>2, PurgeStep
  <1> QED BY <1>1, <1>2, <1>3, <1>4 DEF Next

\* The invariant the others rest on.
THEOREM BookInvariance == Spec => []BookInv
  BY BookInvInit, BookInvStep, PTL DEF Spec

\* Requests, ledgers, log and scripts keep their types.
THEOREM TypeCorrect == Spec => []TypeOK
  <1>1. BookInv => TypeOK
    BY DEF BookInv
  <1> QED BY <1>1, BookInvariance, PTL

\* Whatever ended a request and whoever counted its tokens, it is charged above
\* its claim only for a text outside what the reservation allows for: for any
\* prices, lengths and attempts, and any tokens in a text
\* (worst_case_cost_usd, estimate_cost_usd, _settle_stream_on_abort).
THEOREM OnlyUnusualOverruns == Spec => []OverrunsAreUnusual
  <1>1. BookInv => OverrunsAreUnusual
    BY DEF BookInv, RequestFits, Fair, OverrunsAreUnusual
  <1> QED BY <1>1, BookInvariance, PTL

\* What the provider bills is charged in full wherever it told its usage.  An
\* aborted stream loses its prompt at the most, if its tokens have three
\* characters or more: for any prices, lengths and attempts
\* (_settle_stream_on_abort, the adapters' usage).
THEOREM OnlyUntoldUndercharges == Spec => []UnderchargesAreUntold
  <1>1. BookInv => UnderchargesAreUntold
    BY DEF BookInv, RequestFits, Fair, UnderchargesAreUntold, Billed, Prompt
  <1> QED BY <1>1, BookInvariance, PTL

\* Whatever fails, crashes, overlaps or is purged, reconcile finds no ledger
\* lower than the log but for requests that reserved after it read the ledger,
\* and for charges above their claims (provider_budget.settle,
\* record_audit_log, reconcile's order of reading).
THEOREM LedgersAreNeverLow == Spec => []LowIsOnlyOverlap
  <1>1. BookInv => LowIsOnlyOverlap
    BY DEF BookInv, LowIsOnlyOverlap
  <1> QED BY <1>1, BookInvariance, PTL

\* With nothing failed or deleted and no request in flight, the ledgers and the
\* log are the same to the last unit, whatever the requests were.
THEOREM QuietBooks == Spec => []QuietBooksAgree
  <1>1. BookInv => QuietBooksAgree
    BY DEF BookInv
  <1> QED BY <1>1, BookInvariance, PTL

\* What the ledgers hold is at least what every request has in them, as far as
\* its claim went, and exactly what it has in them as long as nothing failed: a
\* settlement takes the whole claim back, once.
THEOREM LedgersHoldWhatRequestsDo == Spec => []LedgersCover
  <1>1. BookInv => LedgersCover
    BY DEF BookInv
  <1> QED BY <1>1, BookInvariance, PTL


\* The reservation is no upper bound for every input: with one attempt, a prompt
\* of more tokens than a third of its characters and an answer of full length are
\* billed above it, wherever input has a price (worst_case_cost_usd, decision 014).
THEOREM DensePromptsOverrun ==
  ASSUME NEW p \in Hosted, p # Ollama, NEW a \in Answers, 0 < InPrice, Attempts = 1,
         Chars < 3 * a.prompt, a.tokens = MaxOutput
  PROVE  WorstCase(p) < Bill(p, a)
  <1> DEFINE b == a.prompt * InPrice
             c == Chars * InPrice
             d == MaxOutput * OutPrice
  <1>1. a.prompt \in Nat
    <2>1. a.prompt \in Prompts
      BY DEF Answers
    <2>2. a.prompt \in 1..Longest /\ Longest \in Nat
      BY <2>1, MeteringAssumption
    <2> QED BY <2>2
  <1>2. b \in Nat /\ c \in Nat /\ d \in Nat
    BY <1>1, Amounts, Products
  <1>3. c < 3 * b
    <2>1. (Chars + 1) * InPrice <= (3 * a.prompt) * InPrice
      BY <1>1, Amounts, Products
    <2>2. (Chars + 1) * InPrice = c + InPrice /\ (3 * a.prompt) * InPrice = 3 * b
      BY <1>1, Amounts
    <2> HIDE DEF b, c
    <2> QED BY <1>2, <2>1, <2>2, Amounts
  <1>4. WorstCase(p) = c + 3 * d
    <2>1. Attempts * Chars = Chars /\ MaxOutput * Attempts = MaxOutput
      BY Amounts
    <2> QED BY <2>1, WorstCaseIs
  <1>5. Bill(p, a) = 3 * (b + d)
    BY DEF Bill, Cost, Usage, CharsPerToken
  <1> HIDE DEF b, c, d
  <1> QED BY <1>2, <1>3, <1>4, <1>5

\* The estimate of a stream that is cut off is not biased high: before its usage
\* comes, the charge is below the bill for every answer of tokens of up to three
\* characters, wherever input has a price (_settle_stream_on_abort, decision 011).
THEOREM AbortsAreUndercharged ==
  ASSUME NEW p \in Hosted, p # Ollama, NEW a \in Answers, 0 < InPrice,
         0 < a.tokens, a.span <= 3
  PROVE  AbortCost(p, 0, Characters(a)) < Bill(p, a)
  <1> DEFINE est == EstimatedTokens(Characters(a))
             b == a.prompt * InPrice
             d == a.tokens * OutPrice
             e == est * OutPrice
  <1>1. /\ a.prompt \in Nat /\ 1 <= a.prompt /\ a.tokens \in Nat /\ a.span \in Nat
    <2>1. a.prompt \in Prompts /\ a.tokens \in 0..MaxOutput /\ a.span \in Spans
      BY DEF Answers
    <2>2. /\ a.prompt \in 1..Longest /\ a.span \in 0..Longest /\ Longest \in Nat
          /\ MaxOutput \in Nat
      BY <2>1, MeteringAssumption
    <2> QED BY <2>1, <2>2
  <1>2. est \in Nat /\ est <= a.tokens
    <2> DEFINE chars == a.tokens * a.span
    <2>1. chars \in Nat /\ chars <= 3 * a.tokens
      <3>1. a.tokens * a.span <= a.tokens * 3 /\ a.tokens * a.span \in Nat
        BY <1>1, Products
      <3> QED BY <1>1, <3>1
    <2>2. Characters(a) = chars
      BY DEF Characters
    <2> HIDE DEF chars
    <2>3. EstimatedTokens(chars) \in Nat /\ EstimatedTokens(chars) <= a.tokens
      BY <1>1, <2>1, EstimateBounds
    <2> QED BY <2>2, <2>3
  <1> HIDE DEF est
  <1>3. b \in Nat /\ 0 < b /\ d \in Nat /\ e \in Nat /\ e <= d
    <2>1. 1 * InPrice <= a.prompt * InPrice
      BY <1>1, Amounts, Products
    <2>2. 1 * InPrice = InPrice
      BY Amounts
    <2>3. b \in Nat /\ d \in Nat /\ e \in Nat /\ e <= d
      BY <1>1, <1>2, Amounts, Products
    <2> HIDE DEF d, e
    <2> QED BY <2>1, <2>2, <2>3, Amounts
  <1>4. Bill(p, a) = 3 * (b + d) /\ AbortCost(p, 0, Characters(a)) = 3 * (0 * InPrice + e)
    BY DEF Bill, AbortCost, Cost, Usage, CharsPerToken, est
  <1>5. 0 * InPrice = 0
    BY Amounts
  <1> HIDE DEF b, d, e
  <1> QED BY <1>3, <1>4, <1>5

================================================================================
