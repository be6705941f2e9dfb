---------------------------- MODULE MoneyTheorems ----------------------------
(***************************************************************************)
(* Facts about Total: its type, and what adding a member, changing one     *)
(* amount or taking a subset does to it.                                   *)
(***************************************************************************)
EXTENDS Money, FiniteSetTheorems, TLAPS

LEMMA IntervalSize ==
  ASSUME NEW n \in Nat
  PROVE  IsFiniteSet(1..n) /\ Cardinality(1..n) = n
  <1>1. IsFiniteSet(1..n) /\ Cardinality(1..n) = IF 1 > n THEN 0 ELSE n - 1 + 1
    BY FS_Interval
  <1> QED BY <1>1

\* The units held by the members of a finite set are finitely many.
LEMMA UnitsFinite ==
  ASSUME NEW S, IsFiniteSet(S), NEW max \in Nat,
         NEW f, \A x \in S : f[x] \in 0..max
  PROVE  IsFiniteSet(Units(f, S)) /\ Total(f, S) \in Nat
  <1>1. IsFiniteSet(1..max)
    BY FS_Interval
  <1>2. IsFiniteSet(S \X (1..max))
    BY <1>1, FS_Product
  <1>3. Units(f, S) \in SUBSET (S \X (1..max))
    BY DEF Units
  <1> QED
    BY <1>2, <1>3, FS_Subset, FS_CardinalityType DEF Total

\* A new member adds its own amount.
LEMMA TotalAdd ==
  ASSUME NEW S, IsFiniteSet(S), NEW x, x \notin S, NEW max \in Nat,
         NEW f, \A y \in S \cup {x} : f[y] \in 0..max
  PROVE  Total(f, S \cup {x}) = Total(f, S) + f[x]
  <1> DEFINE own == {x} \X (1..f[x])
  <1>1. IsFiniteSet(Units(f, S)) /\ Cardinality(Units(f, S)) \in Nat
    BY UnitsFinite DEF Total
  <1>2. f[x] \in Nat
    OBVIOUS
  <1>3. IsFiniteSet(own) /\ Cardinality(own) = f[x]
    <2>1. IsFiniteSet({x}) /\ Cardinality({x}) = 1
      BY FS_Singleton
    <2>2. IsFiniteSet(1..f[x]) /\ Cardinality(1..f[x]) = f[x]
      BY <1>2, IntervalSize
    <2>3. IsFiniteSet(own) /\ Cardinality(own) = 1 * f[x]
      BY <2>1, <2>2, FS_Product
    <2> QED BY <2>3, <1>2
  <1>4. Units(f, S \cup {x}) = Units(f, S) \cup own
    BY DEF Units
  <1>5. Units(f, S) \cap own = {}
    BY DEF Units
  <1>6. Cardinality(Units(f, S) \cap own) = 0
    BY <1>5, FS_EmptySet
  <1>7. Cardinality(Units(f, S) \cup own)
          = Cardinality(Units(f, S)) + Cardinality(own)
              - Cardinality(Units(f, S) \cap own)
    BY <1>1, <1>3, FS_Union
  <1> HIDE DEF own
  <1>8. Cardinality(Units(f, S) \cup own) = Cardinality(Units(f, S)) + f[x]
    BY <1>1, <1>2, <1>3, <1>6, <1>7
  <1> QED BY <1>4, <1>8 DEF Total

\* Only the amounts of the members count.
LEMMA TotalLocal ==
  ASSUME NEW S, NEW f, NEW g, \A x \in S : f[x] = g[x]
  PROVE  Total(f, S) = Total(g, S)
  <1>1. Units(f, S) = Units(g, S)
    BY DEF Units
  <1> QED BY <1>1 DEF Total

\* Changing one member's amount changes the sum by the difference.
LEMMA TotalChange ==
  ASSUME NEW S, IsFiniteSet(S), NEW x \in S, NEW max \in Nat,
         NEW f, \A y \in S : f[y] \in 0..max,
         NEW g, \A y \in S : g[y] \in 0..max,
         \A y \in S \ {x} : g[y] = f[y]
  PROVE  Total(g, S) = Total(f, S) - f[x] + g[x]
  <1> DEFINE rest == S \ {x}
  <1>1. IsFiniteSet(rest) /\ x \notin rest /\ S = rest \cup {x}
    BY FS_RemoveElement
  <1>2. Total(f, S) = Total(f, rest) + f[x]
    BY <1>1, TotalAdd
  <1>3. Total(g, S) = Total(g, rest) + g[x]
    BY <1>1, TotalAdd
  <1>4. Total(f, rest) = Total(g, rest)
    BY TotalLocal
  <1>5. Total(f, rest) \in Nat
    BY <1>1, UnitsFinite
  <1>6. f[x] \in Nat /\ g[x] \in Nat
    OBVIOUS
  <1> HIDE DEF rest
  <1> QED BY <1>2, <1>3, <1>4, <1>5, <1>6

\* Members of S that hold no more under f than members of T hold under g:
\* the sum over S is no larger than the sum over T.
LEMMA TotalCovered ==
  ASSUME NEW S, NEW T, IsFiniteSet(T), NEW max \in Nat,
         NEW g, \A x \in T : g[x] \in 0..max,
         NEW f, \A x \in S : f[x] \in 0..max,
         \A x \in S : f[x] = 0 \/ (x \in T /\ f[x] <= g[x])
  PROVE  Total(f, S) <= Total(g, T)
  <1>1. IsFiniteSet(Units(g, T))
    BY UnitsFinite
  <1>2. Units(f, S) \in SUBSET Units(g, T)
    <2> SUFFICES ASSUME NEW x \in S, NEW k \in 1..f[x]
                 PROVE  x \in T /\ k \in 1..g[x]
      BY DEF Units
    <2>1. f[x] \in Nat /\ f[x] # 0
      OBVIOUS
    <2>2. x \in T /\ f[x] <= g[x] /\ g[x] \in Nat
      BY <2>1
    <2> QED BY <2>1, <2>2
  <1> QED BY <1>1, <1>2, FS_Subset DEF Total

\* Part of the members hold no more than all of them.
LEMMA TotalSubset ==
  ASSUME NEW S, IsFiniteSet(S), NEW T \in SUBSET S, NEW max \in Nat,
         NEW f, \A x \in S : f[x] \in 0..max
  PROVE  Total(f, T) <= Total(f, S)
  <1>1. IsFiniteSet(Units(f, S))
    BY UnitsFinite
  <1>2. Units(f, T) \in SUBSET Units(f, S)
    BY DEF Units
  <1> QED BY <1>1, <1>2, FS_Subset DEF Total

\* Members that each hold no more under g than under f hold no more in sum.
LEMMA TotalMonotone ==
  ASSUME NEW S, IsFiniteSet(S), NEW max \in Nat,
         NEW f, \A x \in S : f[x] \in 0..max,
         NEW g, \A x \in S : g[x] \in 0..max /\ g[x] <= f[x]
  PROVE  Total(g, S) <= Total(f, S)
  BY TotalCovered

\* Members that hold nothing sum to nothing.
LEMMA TotalZero ==
  ASSUME NEW S, NEW f, \A x \in S : f[x] = 0
  PROVE  Total(f, S) = 0
  <1>1. Units(f, S) = {}
    BY DEF Units
  <1> QED BY <1>1, FS_EmptySet DEF Total

\* No member holds more than all of them.
LEMMA TotalMember ==
  ASSUME NEW S, IsFiniteSet(S), NEW x \in S, NEW max \in Nat,
         NEW f, \A y \in S : f[y] \in 0..max
  PROVE  f[x] <= Total(f, S)
  <1> DEFINE rest == S \ {x}
  <1>1. IsFiniteSet(rest) /\ x \notin rest /\ S = rest \cup {x}
    BY FS_RemoveElement
  <1>2. Total(f, S) = Total(f, rest) + f[x]
    BY <1>1, TotalAdd
  <1>3. Total(f, rest) \in Nat /\ f[x] \in Nat
    BY <1>1, UnitsFinite
  <1> HIDE DEF rest
  <1> QED BY <1>2, <1>3

\* As many members hold at most as many times the largest amount.
LEMMA TotalBound ==
  ASSUME NEW S, IsFiniteSet(S), NEW max \in Nat,
         NEW f, \A x \in S : f[x] \in 0..max
  PROVE  /\ max * Cardinality(S) \in Nat
         /\ Total(f, S) <= max * Cardinality(S)
  <1>1. /\ IsFiniteSet(1..max) /\ Cardinality(1..max) = max
        /\ Cardinality(S) \in Nat
    BY IntervalSize, FS_CardinalityType
  <1>2. /\ IsFiniteSet(S \X (1..max))
        /\ Cardinality(S \X (1..max)) = Cardinality(S) * Cardinality(1..max)
    BY <1>1, FS_Product
  <1>3. Units(f, S) \in SUBSET (S \X (1..max))
    BY DEF Units
  <1>4. Total(f, S) <= Cardinality(S \X (1..max))
    BY <1>2, <1>3, FS_Subset DEF Total
  <1>5. Cardinality(S) * max = max * Cardinality(S) /\ max * Cardinality(S) \in Nat
    BY <1>1
  <1> QED BY <1>1, <1>2, <1>4, <1>5

\* Amounts below nothing count as nothing.
LEMMA TotalClipped ==
  ASSUME NEW S, NEW f, NEW g, \A x \in S : f[x] \in Int /\ g[x] \in Int,
         \A x \in S : f[x] = g[x] \/ (f[x] <= 0 /\ g[x] <= 0)
  PROVE  Total(f, S) = Total(g, S)
  <1>1. \A x \in S : 1..f[x] = 1..g[x]
    OBVIOUS
  <1>2. Units(f, S) = Units(g, S)
    BY <1>1 DEF Units
  <1> QED BY <1>2 DEF Total

\* Amounts of either sign: what is put in, and what is taken out.
LEMMA BalanceType ==
  ASSUME NEW S, IsFiniteSet(S), NEW max \in Nat,
         NEW f, \A x \in S : f[x] \in (-max)..max
  PROVE  Total(f, S) \in Nat /\ Total([x \in S |-> - f[x]], S) \in Nat
  <1> DEFINE in  == [x \in S |-> IF f[x] > 0 THEN f[x] ELSE 0]
             out == [x \in S |-> IF f[x] < 0 THEN - f[x] ELSE 0]
             negated == [x \in S |-> - f[x]]
  <1>1. /\ \A x \in S : in[x] \in 0..max /\ out[x] \in 0..max
        /\ \A x \in S : f[x] \in Int /\ in[x] \in Int /\ out[x] \in Int /\ negated[x] \in Int
        /\ \A x \in S : f[x] = in[x] \/ (f[x] <= 0 /\ in[x] <= 0)
        /\ \A x \in S : negated[x] = out[x] \/ (negated[x] <= 0 /\ out[x] <= 0)
    OBVIOUS
  <1> HIDE DEF in, out, negated
  <1>2. Total(in, S) \in Nat /\ Total(out, S) \in Nat
    BY <1>1, UnitsFinite
  <1>3. Total(f, S) = Total(in, S) /\ Total(negated, S) = Total(out, S)
    BY <1>1, TotalClipped
  <1> QED BY <1>2, <1>3 DEF negated

\* Amounts of either sign: what is put in less what is taken out follows the
\* change of one of them.
LEMMA BalanceChange ==
  ASSUME NEW S, IsFiniteSet(S), NEW x \in S, NEW max \in Nat,
         NEW f, \A y \in S : f[y] \in (-max)..max,
         NEW g, \A y \in S : g[y] \in (-max)..max,
         \A y \in S \ {x} : g[y] = f[y]
  PROVE  Total(g, S) - Total([y \in S |-> - g[y]], S)
           = Total(f, S) - Total([y \in S |-> - f[y]], S) - f[x] + g[x]
  <1> DEFINE In(h)  == [y \in S |-> IF h[y] > 0 THEN h[y] ELSE 0]
             Out(h) == [y \in S |-> IF h[y] < 0 THEN - h[y] ELSE 0]
  <1>1. /\ \A y \in S : In(f)[y] \in 0..max /\ In(g)[y] \in 0..max
        /\ \A y \in S : Out(f)[y] \in 0..max /\ Out(g)[y] \in 0..max
        /\ \A y \in S \ {x} : In(g)[y] = In(f)[y] /\ Out(g)[y] = Out(f)[y]
    OBVIOUS
  <1>2. /\ Total(f, S) = Total(In(f), S) /\ Total(g, S) = Total(In(g), S)
        /\ Total([y \in S |-> - f[y]], S) = Total(Out(f), S)
        /\ Total([y \in S |-> - g[y]], S) = Total(Out(g), S)
    <2>1. \A h : (\A y \in S : h[y] \in (-max)..max) =>
                   /\ Total(h, S) = Total(In(h), S)
                   /\ Total([y \in S |-> - h[y]], S) = Total(Out(h), S)
      <3> SUFFICES ASSUME NEW h, \A y \in S : h[y] \in (-max)..max
                   PROVE  /\ Total(h, S) = Total(In(h), S)
                          /\ Total([y \in S |-> - h[y]], S) = Total(Out(h), S)
        OBVIOUS
      <3> DEFINE negated == [y \in S |-> - h[y]]
      <3>1. /\ \A y \in S : h[y] \in Int /\ In(h)[y] \in Int
            /\ \A y \in S : h[y] = In(h)[y] \/ (h[y] <= 0 /\ In(h)[y] <= 0)
        OBVIOUS
      <3>2. /\ \A y \in S : negated[y] \in Int /\ Out(h)[y] \in Int
            /\ \A y \in S : negated[y] = Out(h)[y] \/ (negated[y] <= 0 /\ Out(h)[y] <= 0)
        OBVIOUS
      <3> HIDE DEF In, Out, negated
      <3>3. Total(h, S) = Total(In(h), S)
        BY <3>1, TotalClipped
      <3>4. Total(negated, S) = Total(Out(h), S)
        BY <3>2, TotalClipped
      <3> QED BY <3>3, <3>4 DEF negated
    <2> HIDE DEF In, Out
    <2> QED BY <2>1
  <1>3. /\ In(f)[x] - Out(f)[x] = f[x]
        /\ In(g)[x] - Out(g)[x] = g[x]
    OBVIOUS
  <1>4. f[x] \in Int /\ g[x] \in Int
    OBVIOUS
  <1> HIDE DEF In, Out
  <1>5. Total(In(g), S) = Total(In(f), S) - In(f)[x] + In(g)[x]
    BY <1>1, TotalChange
  <1>6. Total(Out(g), S) = Total(Out(f), S) - Out(f)[x] + Out(g)[x]
    BY <1>1, TotalChange
  <1>7. /\ Total(In(f), S) \in Nat /\ Total(Out(f), S) \in Nat
        /\ Total(In(g), S) \in Nat /\ Total(Out(g), S) \in Nat
    BY <1>1, UnitsFinite
  <1>8. /\ In(f)[x] \in Int /\ In(g)[x] \in Int
        /\ Out(f)[x] \in Int /\ Out(g)[x] \in Int
    BY <1>1
  <1> QED BY <1>2, <1>3, <1>4, <1>5, <1>6, <1>7, <1>8


\* Two sets with no member in common.
LEMMA TotalSplit ==
  ASSUME NEW S, IsFiniteSet(S), NEW T, IsFiniteSet(T), S \cap T = {}, NEW max \in Nat,
         NEW f, \A x \in S \cup T : f[x] \in 0..max
  PROVE  Total(f, S \cup T) = Total(f, S) + Total(f, T)
  <1>1. /\ IsFiniteSet(Units(f, S)) /\ Cardinality(Units(f, S)) \in Nat
        /\ IsFiniteSet(Units(f, T)) /\ Cardinality(Units(f, T)) \in Nat
    BY UnitsFinite DEF Total
  <1>2. Units(f, S \cup T) = Units(f, S) \cup Units(f, T)
    BY DEF Units
  <1>3. Units(f, S) \cap Units(f, T) = {}
    BY DEF Units
  <1>4. Cardinality(Units(f, S) \cap Units(f, T)) = 0
    BY <1>3, FS_EmptySet
  <1>5. Cardinality(Units(f, S) \cup Units(f, T))
          = Cardinality(Units(f, S)) + Cardinality(Units(f, T))
              - Cardinality(Units(f, S) \cap Units(f, T))
    BY <1>1, FS_Union
  <1>6. Cardinality(Units(f, S) \cup Units(f, T))
          = Cardinality(Units(f, S)) + Cardinality(Units(f, T))
    BY <1>1, <1>4, <1>5
  <1> QED BY <1>2, <1>6 DEF Total

\* The same amounts under other names.
LEMMA TotalRenamed ==
  ASSUME NEW S, IsFiniteSet(S), NEW T, NEW name \in Bijection(S, T), NEW max \in Nat,
         NEW f, \A x \in S : f[x] \in 0..max,
         NEW g, \A x \in S : g[name[x]] = f[x]
  PROVE  Total(g, T) = Total(f, S)
  <1> DEFINE renamed == [u \in Units(f, S) |-> <<name[u[1]], u[2]>>]
  <1>1. /\ name \in [S -> T]
        /\ \A x, y \in S : name[x] = name[y] => x = y
        /\ \A z \in T : \E x \in S : name[x] = z
    BY DEF Bijection, Injection, Surjection, IsInjective
  <1>2. \A u \in Units(f, S) : u = <<u[1], u[2]>> /\ u[1] \in S /\ u[2] \in 1..f[u[1]]
    BY DEF Units
  <1>3. \A x \in S : \A k \in 1..f[x] : <<x, k>> \in Units(f, S)
    BY DEF Units
  <1>4. renamed \in [Units(f, S) -> Units(g, T)]
    <2> SUFFICES ASSUME NEW u \in Units(f, S)
                 PROVE  <<name[u[1]], u[2]>> \in Units(g, T)
      OBVIOUS
    <2>1. name[u[1]] \in T /\ u[2] \in 1..g[name[u[1]]]
      BY <1>1, <1>2
    <2> QED BY <2>1 DEF Units
  <1>5. \A u, v \in Units(f, S) : renamed[u] = renamed[v] => u = v
    BY <1>1, <1>2
  <1>6. \A w \in Units(g, T) : \E u \in Units(f, S) : renamed[u] = w
    <2> SUFFICES ASSUME NEW w \in Units(g, T)
                 PROVE  \E u \in Units(f, S) : renamed[u] = w
      OBVIOUS
    <2>1. w = <<w[1], w[2]>> /\ w[1] \in T /\ w[2] \in 1..g[w[1]]
      BY DEF Units
    <2>2. PICK x \in S : name[x] = w[1]
      BY <1>1, <2>1
    <2>3. <<x, w[2]>> \in Units(f, S)
      BY <1>3, <2>1, <2>2
    <2>4. renamed[<<x, w[2]>>] = w
      BY <2>1, <2>2, <2>3
    <2> QED BY <2>3, <2>4
  <1> HIDE DEF renamed
  <1>7. ExistsBijection(Units(f, S), Units(g, T))
    BY <1>4, <1>5, <1>6 DEF ExistsBijection, Bijection, Injection, Surjection, IsInjective
  <1>8. IsFiniteSet(Units(f, S))
    BY UnitsFinite
  <1> QED BY <1>7, <1>8, FS_Bijection DEF Total


\* Amounts in two parts.
LEMMA TotalSum ==
  ASSUME NEW S, IsFiniteSet(S), NEW max \in Nat,
         NEW f, \A x \in S : f[x] \in 0..max,
         NEW g, \A x \in S : g[x] \in 0..max,
         NEW h, \A x \in S : h[x] = f[x] + g[x]
  PROVE  Total(h, S) = Total(f, S) + Total(g, S)
  <1> DEFINE upper == {w \in Units(h, S) : w[2] > f[w[1]]}
             raised == [u \in Units(g, S) |-> <<u[1], f[u[1]] + u[2]>>]
  <1>1. \A x \in S : f[x] \in Nat /\ g[x] \in Nat /\ h[x] \in Nat /\ h[x] = f[x] + g[x]
    OBVIOUS
  <1>2. /\ \A u \in Units(g, S) : u = <<u[1], u[2]>> /\ u[1] \in S /\ u[2] \in 1..g[u[1]]
        /\ \A w \in Units(h, S) : w = <<w[1], w[2]>> /\ w[1] \in S /\ w[2] \in 1..h[w[1]]
    BY DEF Units
  <1>3. /\ \A x \in S : \A k \in 1..g[x] : <<x, k>> \in Units(g, S)
        /\ \A x \in S : \A k \in 1..h[x] : <<x, k>> \in Units(h, S)
    BY DEF Units
  <1>4. raised \in [Units(g, S) -> upper]
    <2> SUFFICES ASSUME NEW u \in Units(g, S)
                 PROVE  <<u[1], f[u[1]] + u[2]>> \in upper
      OBVIOUS
    <2> DEFINE x == u[1]
               k == u[2]
    <2>1. x \in S /\ k \in 1..g[x]
      BY <1>2
    <2> HIDE DEF x, k
    <2>2. f[x] + k \in 1..h[x] /\ f[x] + k > f[x]
      BY <1>1, <2>1
    <2>3. <<x, f[x] + k>> \in Units(h, S)
      BY <1>3, <2>1, <2>2
    <2>4. <<x, f[x] + k>> \in upper
      BY <2>2, <2>3
    <2> QED BY <2>4 DEF x, k
  <1>5. \A u, v \in Units(g, S) : raised[u] = raised[v] => u = v
    <2> SUFFICES ASSUME NEW u \in Units(g, S), NEW v \in Units(g, S), raised[u] = raised[v]
                 PROVE  u = v
      OBVIOUS
    <2>1. u[1] = v[1] /\ f[u[1]] + u[2] = f[v[1]] + v[2]
      OBVIOUS
    <2>2. f[u[1]] \in Nat /\ u[2] \in Int /\ v[2] \in Int
      BY <1>1, <1>2
    <2>3. u[2] = v[2]
      BY <2>1, <2>2
    <2> QED BY <1>2, <2>1, <2>3
  <1>6. \A w \in upper : \E u \in Units(g, S) : raised[u] = w
    <2> SUFFICES ASSUME NEW w \in upper
                 PROVE  \E u \in Units(g, S) : raised[u] = w
      OBVIOUS
    <2> DEFINE x == w[1]
               k == w[2]
    <2>1. w = <<x, k>> /\ x \in S /\ k \in 1..h[x] /\ k > f[x]
      BY <1>2
    <2>2. w = <<x, k>>
      BY <2>1
    <2> HIDE DEF x, k
    <2>3. k - f[x] \in 1..g[x] /\ f[x] + (k - f[x]) = k
      BY <1>1, <2>1
    <2>4. <<x, k - f[x]>> \in Units(g, S)
      BY <1>3, <2>1, <2>3
    <2>5. raised[<<x, k - f[x]>>] = w
      BY <2>2, <2>3, <2>4
    <2> QED BY <2>4, <2>5
  <1>7. ExistsBijection(Units(g, S), upper)
    <2> HIDE DEF raised, upper
    <2> QED BY <1>4, <1>5, <1>6 DEF ExistsBijection, Bijection, Injection, Surjection, IsInjective
  <1>8. /\ IsFiniteSet(Units(f, S)) /\ Cardinality(Units(f, S)) \in Nat
        /\ IsFiniteSet(Units(g, S)) /\ Cardinality(Units(g, S)) \in Nat
    BY UnitsFinite DEF Total
  <1>9. IsFiniteSet(upper) /\ Cardinality(upper) = Cardinality(Units(g, S))
    BY <1>7, <1>8, FS_Bijection
  <1>10. Units(h, S) = Units(f, S) \cup upper
    <2>1. ASSUME NEW w \in Units(f, S) PROVE w \in Units(h, S)
      <3>1. w = <<w[1], w[2]>> /\ w[1] \in S /\ w[2] \in 1..f[w[1]]
        BY DEF Units
      <3>2. w[2] \in 1..h[w[1]]
        BY <1>1, <3>1
      <3> QED BY <1>3, <3>1, <3>2
    <2>2. ASSUME NEW w \in Units(h, S), w \notin upper PROVE w \in Units(f, S)
      <3>1. w = <<w[1], w[2]>> /\ w[1] \in S /\ w[2] \in 1..h[w[1]] /\ ~(w[2] > f[w[1]])
        BY <1>2, <2>2
      <3>2. w[2] \in 1..f[w[1]]
        BY <1>1, <3>1
      <3>3. \A x \in S : \A k \in 1..f[x] : <<x, k>> \in Units(f, S)
        BY DEF Units
      <3> QED BY <3>1, <3>2, <3>3
    <2> QED BY <2>1, <2>2
  <1>11. Units(f, S) \cap upper = {}
    <2> SUFFICES ASSUME NEW w \in Units(f, S), w \in upper PROVE FALSE
      OBVIOUS
    <2>1. w[1] \in S /\ w[2] \in 1..f[w[1]] /\ w[2] > f[w[1]]
      BY DEF Units
    <2> QED BY <1>1, <2>1
  <1> HIDE DEF upper, raised
  <1>12. Cardinality(Units(f, S) \cap upper) = 0
    BY <1>11, FS_EmptySet
  <1>13. Cardinality(Units(f, S) \cup upper)
           = Cardinality(Units(f, S)) + Cardinality(upper)
               - Cardinality(Units(f, S) \cap upper)
    BY <1>8, <1>9, FS_Union
  <1>14. Cardinality(Units(f, S) \cup upper)
           = Cardinality(Units(f, S)) + Cardinality(Units(g, S))
    BY <1>8, <1>9, <1>12, <1>13
  <1> QED BY <1>10, <1>14 DEF Total

=============================================================================
