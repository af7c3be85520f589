----------------------------- MODULE SumsProofs -----------------------------
(***************************************************************************)
(* The laws of Sum that the ledger proofs cite: its type, the effect of    *)
(* changing one entry, of adding two ledgers entry by entry, how bounds on *)
(* the entries bound the total, and that no entry exceeds it.              *)
(***************************************************************************)
EXTENDS Sums, FiniteSetTheorems, WellFoundedInduction, TLAPS

\* Membership in Units, in the form the other proofs use it.
LEMMA UnitsMember ==
  ASSUME NEW S, NEW f \in [S -> Nat], NEW u
  PROVE  u \in Units(f, S) <=> \E x \in S : \E i \in 1..f[x] : u = <<x, i>>
  BY SMTT(60) DEF Units

\* The units of a finite ledger form a finite set.
LEMMA UnitsFinite ==
  ASSUME NEW S, IsFiniteSet(S), NEW f \in [S -> Nat]
  PROVE  IsFiniteSet(Units(f, S))
<1> DEFINE h == [x \in S |-> {x} \X (1..f[x])]
           T == {{x} \X (1..f[x]) : x \in S}
<1>1. h \in Surjection(S, T)
  BY Zenon DEF Surjection
<1>2. IsFiniteSet(T)
  BY <1>1, FS_Surjection, Zenon
<1>3. ASSUME NEW x \in S PROVE IsFiniteSet({x} \X (1..f[x]))
  <2>1. IsFiniteSet({x}) BY FS_Singleton, Zenon
  <2>2. IsFiniteSet(1..f[x]) BY FS_Interval, SMTT(60)
  <2> QED BY <2>1, <2>2, FS_Product, Zenon
<1>4. \A U \in T : IsFiniteSet(U)
  BY <1>3, Zenon
<1> QED
  BY <1>2, <1>4, FS_UNION, Zenon DEF Units

\* A total is a natural number.
LEMMA SumType ==
  ASSUME NEW S, IsFiniteSet(S), NEW f \in [S -> Nat]
  PROVE  Sum(f, S) \in Nat
BY UnitsFinite, FS_CardinalityType, Zenon DEF Sum

\* The total over one more entry.
LEMMA SumInsert ==
  ASSUME NEW S, IsFiniteSet(S), NEW x, x \notin S,
         NEW f \in [S \cup {x} -> Nat]
  PROVE  Sum(f, S \cup {x}) = Sum([y \in S |-> f[y]], S) + f[x]
<1> DEFINE g == [y \in S |-> f[y]]
           X == {x} \X (1..f[x])
<1>1. Units(f, S \cup {x}) = Units(g, S) \cup X
  BY Zenon DEF Units
<1>2. Units(g, S) \cap X = {}
  BY SMTT(60) DEF Units
<1>3. IsFiniteSet(X) /\ Cardinality(X) = f[x]
  <2>1. IsFiniteSet({x}) /\ Cardinality({x}) = 1 BY FS_Singleton, Zenon
  <2>2. IsFiniteSet(1..f[x]) /\ Cardinality(1..f[x]) = f[x] BY FS_Interval, SMTT(60)
  <2>3. IsFiniteSet(X) /\ Cardinality(X) = Cardinality({x}) * Cardinality(1..f[x])
    BY <2>1, <2>2, FS_Product, Zenon
  <2> QED BY <2>1, <2>2, <2>3, SMTT(60)
<1>4. IsFiniteSet(Units(g, S)) /\ Cardinality(Units(g, S)) \in Nat
  BY UnitsFinite, FS_CardinalityType, Zenon
<1>5. Cardinality(Units(g, S) \cup X) =
        Cardinality(Units(g, S)) + Cardinality(X) - Cardinality(Units(g, S) \cap X)
  BY <1>3, <1>4, FS_Union, Zenon
<1>6. Cardinality(Units(g, S) \cap X) = 0
  BY <1>2, FS_EmptySet, Zenon
<1>7. f[x] \in Nat
  OBVIOUS
<1> HIDE DEF X, g
<1>8. Cardinality(Units(f, S \cup {x})) = Cardinality(Units(g, S)) + f[x]
  <2>1. Cardinality(Units(f, S \cup {x})) = Cardinality(Units(g, S) \cup X)
    BY <1>1, Zenon
  <2>2. @ = Cardinality(Units(g, S)) + Cardinality(X) - 0
    BY <1>5, <1>6, Zenon
  <2>3. @ = Cardinality(Units(g, S)) + f[x]
    BY <1>3, <1>4, <1>7, SMTT(60)
  <2> QED BY <2>1, <2>2, <2>3, Zenon
<1> QED
  BY <1>8, Zenon DEF Sum, g

\* The total when only the entry of x may differ.
LEMMA SumStep ==
  ASSUME NEW S, IsFiniteSet(S), NEW x \in S,
         NEW f \in [S -> Nat], NEW g \in [S -> Nat],
         \A y \in S \ {x} : g[y] = f[y]
  PROVE  Sum(g, S) = Sum(f, S) - f[x] + g[x]
<1> DEFINE R == S \ {x}
           r == [y \in R |-> f[y]]
<1>1. IsFiniteSet(R) /\ x \notin R /\ R \cup {x} = S
  BY FS_RemoveElement, Zenon
<1>2. Sum(f, R \cup {x}) = Sum(r, R) + f[x]
  BY <1>1, SumInsert, Zenon
<1>3. r = [y \in R |-> g[y]]
  OBVIOUS
<1>4. Sum(g, R \cup {x}) = Sum(r, R) + g[x]
  BY <1>1, <1>3, SumInsert, Zenon
<1>5. Sum(r, R) \in Nat
  BY <1>1, SumType, Zenon
<1> QED
  BY <1>1, <1>2, <1>4, <1>5, SMTT(60)

\* No entry exceeds the total.
LEMMA SumBound ==
  ASSUME NEW S, IsFiniteSet(S), NEW x \in S, NEW f \in [S -> Nat]
  PROVE  f[x] <= Sum(f, S)
<1> DEFINE z == [f EXCEPT ![x] = 0]
<1>1. z \in [S -> Nat] /\ z[x] = 0 /\ \A y \in S \ {x} : z[y] = f[y]
  OBVIOUS
<1> HIDE DEF z
<1>2. Sum(z, S) = Sum(f, S) - f[x] + z[x]
  BY <1>1, SumStep, Zenon
<1>3. Sum(z, S) \in Nat /\ Sum(f, S) \in Nat
  BY <1>1, SumType, Zenon
<1> QED
  BY <1>1, <1>2, <1>3, SMTT(60)

\* A ledger of zeros has total zero.
LEMMA SumZero ==
  ASSUME NEW S, NEW f \in [S -> Nat], \A x \in S : f[x] = 0
  PROVE  Sum(f, S) = 0
<1>1. Units(f, S) = {}
  BY SMTT(60) DEF Units
<1> QED
  BY <1>1, FS_EmptySet, Zenon DEF Sum

\* A ledger with one entry.
LEMMA SumSingle ==
  ASSUME NEW S, IsFiniteSet(S), NEW x \in S, NEW v \in Nat
  PROVE  Sum([y \in S |-> IF y = x THEN v ELSE 0], S) = v
<1> DEFINE f == [y \in S |-> 0]
           g == [y \in S |-> IF y = x THEN v ELSE 0]
<1>1. /\ f \in [S -> Nat] /\ g \in [S -> Nat] /\ f[x] = 0 /\ g[x] = v
      /\ \A y \in S \ {x} : g[y] = f[y]
  OBVIOUS
<1>2. Sum(f, S) = 0
  BY <1>1, SumZero, Zenon
<1> HIDE DEF f, g
<1>3. Sum(g, S) = Sum(f, S) - f[x] + g[x]
  BY <1>1, SumStep, Zenon
<1>4. Sum(g, S) = v
  BY <1>1, <1>2, <1>3, SMTT(60)
<1> QED
  BY <1>4, Zenon DEF g

\* Adding two ledgers entry by entry adds their totals.
LEMMA SumPlus ==
  ASSUME NEW S, IsFiniteSet(S), NEW f \in [S -> Nat], NEW g \in [S -> Nat]
  PROVE  Sum([x \in S |-> f[x] + g[x]], S) = Sum(f, S) + Sum(g, S)
<1> DEFINE h == [x \in S |-> f[x] + g[x]]
           Shifted == UNION {{x} \X ((f[x] + 1)..(f[x] + g[x])) : x \in S}
           b == [u \in Units(g, S) |-> <<u[1], f[u[1]] + u[2]>>]
<1>1. h \in [S -> Nat]
  OBVIOUS
<1>2. Units(h, S) = Units(f, S) \cup Shifted
  BY SMTT(60) DEF Units
<1>3. Units(f, S) \cap Shifted = {}
  BY SMTT(60) DEF Units
<1>4. b \in Bijection(Units(g, S), Shifted)
  <2>1. ASSUME NEW u \in Units(g, S) PROVE b[u] \in Shifted
    BY SMTT(60) DEF Units
  <2>2. ASSUME NEW u \in Units(g, S), NEW v \in Units(g, S), b[u] = b[v]
        PROVE u = v
    <3>1. PICK x \in S, i \in Nat : i \in 1..g[x] /\ u = <<x, i>>
      BY SMTT(60) DEF Units
    <3>2. PICK y \in S, j \in Nat : j \in 1..g[y] /\ v = <<y, j>>
      BY SMTT(60) DEF Units
    <3>3. b[u] = <<x, f[x] + i>> /\ b[v] = <<y, f[y] + j>>
      BY <3>1, <3>2, Zenon
    <3>4. x = y /\ i = j
      BY <2>2, <3>3, SMTT(60)
    <3> QED BY <3>1, <3>2, <3>4, Zenon
  <2>3. ASSUME NEW w \in Shifted PROVE \E u \in Units(g, S) : b[u] = w
    <3>1. PICK x \in S : w \in {x} \X ((f[x] + 1)..(f[x] + g[x]))
      OBVIOUS
    <3>2. PICK i \in (f[x] + 1)..(f[x] + g[x]) : w = <<x, i>>
      BY <3>1, SMTT(60)
    <3>3. i - f[x] \in 1..g[x]
      OBVIOUS
    <3>4. <<x, i - f[x]>> \in Units(g, S)
      BY <3>3, SMTT(60) DEF Units
    <3>5. b[<<x, i - f[x]>>] = w
      BY <3>2, <3>4, SMTT(60)
    <3> QED BY <3>4, <3>5, Zenon
  <2> QED BY <2>1, <2>2, <2>3, Zenon DEF Bijection, Injection, Surjection, IsInjective
<1>5. IsFiniteSet(Units(f, S)) /\ IsFiniteSet(Units(g, S))
  BY UnitsFinite, Zenon
<1>6. IsFiniteSet(Shifted) /\ Cardinality(Shifted) = Cardinality(Units(g, S))
  BY <1>4, <1>5, FS_Bijection, Zenon DEF ExistsBijection
<1>7. Cardinality(Units(f, S) \cup Shifted) =
        Cardinality(Units(f, S)) + Cardinality(Shifted)
          - Cardinality(Units(f, S) \cap Shifted)
  BY <1>5, <1>6, FS_Union, Zenon
<1>8. Cardinality(Units(f, S) \cap Shifted) = 0
  BY <1>3, FS_EmptySet, Zenon
<1>9. Cardinality(Units(f, S)) \in Nat /\ Cardinality(Units(g, S)) \in Nat
  BY <1>5, FS_CardinalityType, Zenon
<1> HIDE DEF h, Shifted
<1>10. Cardinality(Units(h, S)) = Cardinality(Units(f, S)) + Cardinality(Units(g, S))
  BY <1>2, <1>6, <1>7, <1>8, <1>9, SMTT(60)
<1> QED
  BY <1>10, Zenon DEF Sum, h

\* A bound on every entry bounds the total: if u * f[x] is at most a * g[x]
\* everywhere, the totals compare the same way.  The proof looks at a minimal
\* subset of S that fails.
LEMMA SumScaled ==
  ASSUME NEW S, IsFiniteSet(S), NEW f \in [S -> Nat], NEW g \in [S -> Nat],
         NEW u \in Nat, NEW a \in Nat, \A x \in S : u * f[x] <= a * g[x]
  PROVE  u * Sum(f, S) <= a * Sum(g, S)
<1> DEFINE F(T) == Sum([x \in T |-> f[x]], T)
           G(T) == Sum([x \in T |-> g[x]], T)
           Bad == {T \in FiniteSubsetsOf(S) : ~(u * F(T) <= a * G(T))}
<1>1. \A T \in FiniteSubsetsOf(S) : T \subseteq S /\ IsFiniteSet(T)
  BY Zenon DEF FiniteSubsetsOf
<1>2. SUFFICES Bad = {}
  <2>1. S \in FiniteSubsetsOf(S)
    BY Zenon DEF FiniteSubsetsOf
  <2>2. F(S) = Sum(f, S) /\ G(S) = Sum(g, S)
    <3>1. [x \in S |-> f[x]] = f /\ [x \in S |-> g[x]] = g
      BY Zenon
    <3> QED BY <3>1, Zenon
  <2>3. u * F(S) <= a * G(S)
    BY <1>2, <2>1, Zenon
  <2> QED BY <2>2, <2>3, Zenon
<1>3. SUFFICES ASSUME Bad # {} PROVE FALSE
  BY Zenon
<1>4. PICK M \in Bad : \A N \in Bad : ~(<<N, M>> \in StrictSubsetOrdering(S))
  <2>1. Bad \subseteq FiniteSubsetsOf(S)
    BY Zenon
  <2> HIDE DEF Bad
  <2> QED BY <1>3, <2>1, FS_StrictSubsetOrderingWellFounded, WFMin, Zenon
<1>5. M \subseteq S /\ IsFiniteSet(M) /\ ~(u * F(M) <= a * G(M))
  BY <1>1, Zenon
<1>6. M # {}
  <2>1. ASSUME M = {} PROVE F(M) = 0 /\ G(M) = 0
    BY <2>1, SumZero, Zenon
  <2> HIDE DEF F, G
  <2> QED BY <1>5, <2>1, SMTT(60)
<1>7. PICK x \in M : TRUE
  BY <1>6, Zenon
<1> DEFINE N == M \ {x}
<1>8. N \subseteq S /\ IsFiniteSet(N) /\ x \notin N /\ M = N \cup {x} /\ x \in S
  BY <1>5, FS_Subset, Zenon
<1>9. u * F(N) <= a * G(N)
  <2>1. <<N, M>> \in StrictSubsetOrdering(S)
    BY <1>5, <1>7, <1>8, Zenon DEF StrictSubsetOrdering
  <2>2. N \in FiniteSubsetsOf(S)
    BY <1>8, Zenon DEF FiniteSubsetsOf
  <2>3. N \notin Bad
    BY <1>4, <2>1, Zenon
  <2> QED BY <2>2, <2>3, Zenon
<1>10. ASSUME NEW h \in [S -> Nat]
       PROVE  /\ Sum([y \in N |-> h[y]], N) \in Nat
              /\ Sum([y \in M |-> h[y]], M) = Sum([y \in N |-> h[y]], N) + h[x]
  <2> DEFINE k == [y \in M |-> h[y]]
  <2>1. k \in [N \cup {x} -> Nat] /\ k[x] = h[x]
    BY <1>8, Zenon
  <2>2. [y \in N |-> k[y]] = [y \in N |-> h[y]] /\ [y \in N |-> h[y]] \in [N -> Nat]
    BY <1>8, Zenon
  <2> HIDE DEF k
  <2>3. Sum(k, N \cup {x}) = Sum([y \in N |-> k[y]], N) + k[x]
    BY <1>8, <2>1, SumInsert, Zenon
  <2>4. Sum([y \in N |-> h[y]], N) \in Nat
    BY <1>8, <2>2, SumType, Zenon
  <2> QED BY <1>8, <2>1, <2>2, <2>3, <2>4, Zenon DEF k
<1>11. /\ F(N) \in Nat /\ G(N) \in Nat
       /\ F(M) = F(N) + f[x] /\ G(M) = G(N) + g[x]
  BY <1>10, Zenon
<1>12. u * f[x] <= a * g[x] /\ f[x] \in Nat /\ g[x] \in Nat
  BY <1>8, Zenon
<1> HIDE DEF F, G, N
<1>13. u * (F(N) + f[x]) = u * F(N) + u * f[x] /\ a * (G(N) + g[x]) = a * G(N) + a * g[x]
  BY <1>11, <1>12, SMTT(60)
<1>14. u * F(M) <= a * G(M)
  BY <1>9, <1>11, <1>12, <1>13, SMTT(60)
<1> QED
  BY <1>5, <1>14, Zenon
=============================================================================
