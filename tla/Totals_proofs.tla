--------------------------- MODULE Totals_proofs ----------------------------
(***************************************************************************)
(* What an update of a column does to its total.                           *)
(***************************************************************************)
EXTENDS Totals, FiniteSetTheorems, TLAPS

\* The units of one row: n of them.
LEMMA RowUnits ==
    ASSUME NEW r, NEW n \in Nat
    PROVE  IsFiniteSet({r} \X (1..n)) /\ Cardinality({r} \X (1..n)) = n
<1>1. IsFiniteSet({r}) /\ Cardinality({r}) = 1
  BY FS_Singleton
<1>2. IsFiniteSet(1..n) /\ Cardinality(1..n) = n
  BY FS_Interval
<1>3. /\ IsFiniteSet({r} \X (1..n))
      /\ Cardinality({r} \X (1..n)) = Cardinality({r}) * Cardinality(1..n)
  BY <1>1, <1>2, FS_Product
<1> QED
  BY <1>1, <1>2, <1>3

\* A column over finitely many rows has finitely many units.
LEMMA UnitsFinite ==
    ASSUME NEW S, IsFiniteSet(S), NEW f \in [S -> Nat]
    PROVE  IsFiniteSet(Units(f))
<1> DEFINE P == {{r} \X (1..f[r]) : r \in S}
           g == [r \in S |-> {r} \X (1..f[r])]
<1>1. g \in Surjection(S, P)
  BY DEF Surjection
<1>2. IsFiniteSet(P)
  BY <1>1, FS_Surjection
<1>3. ASSUME NEW T \in P PROVE IsFiniteSet(T)
  <2>1. PICK r \in S : T = {r} \X (1..f[r])
    OBVIOUS
  <2>2. f[r] \in Nat
    OBVIOUS
  <2> QED
    BY <2>1, <2>2, RowUnits
<1>4. IsFiniteSet(UNION P)
  BY <1>2, <1>3, FS_UNION
<1> QED
  BY <1>4 DEF Units

\* A total is a natural number.
THEOREM TotalType ==
    ASSUME NEW S, IsFiniteSet(S), NEW f \in [S -> Nat]
    PROVE  Total(f) \in Nat
BY UnitsFinite, FS_CardinalityType DEF Total

\* The total of a column is the value of a row and the total of the others,
\* which is the total of the column with that row at zero.
LEMMA TotalSplit ==
    ASSUME NEW S, IsFiniteSet(S), NEW f \in [S -> Nat], NEW x \in S
    PROVE  Total(f) = Total([f EXCEPT ![x] = 0]) + f[x]
<1> DEFINE z == [f EXCEPT ![x] = 0]
           A == Units(z)
           B == {x} \X (1..f[x])
<1>1. z \in [S -> Nat]
  OBVIOUS
<1>2. IsFiniteSet(A) /\ Total(z) = Cardinality(A)
  BY <1>1, UnitsFinite DEF Total
<1>3. IsFiniteSet(B) /\ Cardinality(B) = f[x]
  BY RowUnits
<1>4. ASSUME NEW u
      PROVE  u \in Units(f) <=> u \in A \cup B
  <2>1. u \in Units(f) <=> \E r \in S : u \in {r} \X (1..f[r])
    BY DEF Units
  <2>2. u \in A <=> \E r \in S : u \in {r} \X (1..z[r])
    BY <1>1 DEF Units
  <2>3. \A r \in S : r # x => z[r] = f[r]
    OBVIOUS
  <2>4. z[x] = 0 /\ 1..0 = {}
    OBVIOUS
  <2> QED
    BY <2>1, <2>2, <2>3, <2>4
<1>5. A \cap B = {}
  <2> SUFFICES ASSUME NEW u \in A, u \in B PROVE FALSE
    OBVIOUS
  <2>1. PICK r \in S : u \in {r} \X (1..z[r])
    BY <1>1 DEF Units
  <2>2. r = x
    BY <2>1
  <2>3. z[x] = 0 /\ 1..0 = {}
    OBVIOUS
  <2> QED
    BY <2>1, <2>2, <2>3
<1>6. Units(f) = A \cup B
  BY <1>4
<1>7. Cardinality(A \cup B) = Cardinality(A) + Cardinality(B) - Cardinality(A \cap B)
  BY <1>2, <1>3, FS_Union
<1>8. Cardinality({}) = 0 /\ Cardinality(A) \in Nat /\ f[x] \in Nat
  BY <1>2, FS_EmptySet, FS_CardinalityType
<1>9. Total(f) = Cardinality(A \cup B)
  BY <1>6 DEF Total
<1> HIDE DEF A, B, z
<1>10. Cardinality(A \cup B) = Cardinality(A) + f[x]
  <2>1. Cardinality(A \cap B) = 0
    BY <1>5, <1>8
  <2> QED
    BY <2>1, <1>3, <1>7, <1>8
<1>11. Total(f) = Total(z) + f[x]
  BY <1>2, <1>9, <1>10
<1> QED
  BY <1>11 DEF z

\* Replacing the value of one row changes the total by the difference.
LEMMA TotalUpdate ==
    ASSUME NEW S, IsFiniteSet(S), NEW f \in [S -> Nat], NEW x \in S, NEW v \in Nat
    PROVE  Total([f EXCEPT ![x] = v]) = Total(f) - f[x] + v
<1> DEFINE g == [f EXCEPT ![x] = v]
           z == [f EXCEPT ![x] = 0]
<1>1. g \in [S -> Nat] /\ g[x] = v /\ [g EXCEPT ![x] = 0] = z /\ z \in [S -> Nat]
  OBVIOUS
<1>2. Total(f) = Total(z) + f[x]
  BY TotalSplit
<1>3. Total(g) = Total(z) + v
  BY <1>1, TotalSplit
<1>4. Total(z) \in Nat
  BY <1>1, TotalType
<1> QED
  BY <1>2, <1>3, <1>4

\* A column without values has no units.
THEOREM TotalOfZeros ==
    ASSUME NEW S
    PROVE  Total([r \in S |-> 0]) = 0
<1>1. Units([r \in S |-> 0]) = {}
  BY 1..0 = {} DEF Units
<1> QED
  BY <1>1, FS_EmptySet DEF Total

\* Induction over the subsets of a finite set: a family that holds the empty
\* set and every set one of whose elements can be taken away within the family
\* holds the whole set.
LEMMA SubsetInduction ==
    ASSUME NEW S, IsFiniteSet(S), NEW G,
           {} \in G,
           \A U \in SUBSET S : \A x \in U : U \ {x} \in G => U \in G
    PROVE  S \in G
<1> DEFINE R == StrictSubsetOrdering(S)
           Bad == {U \in SUBSET S : U \notin G}
<1> SUFFICES ASSUME S \notin G PROVE FALSE
  OBVIOUS
<1>1. IsWellFoundedOn(R, SUBSET S)
  BY FS_StrictSubsetOrderingWellFounded, FS_FiniteSubsetsOfFinite
<1>2. Bad \subseteq SUBSET S /\ Bad # {}
  OBVIOUS
<1>3. PICK U \in Bad : \A V \in Bad : <<V, U>> \notin R
  <2> HIDE DEF R, Bad
  <2> QED
    BY <1>1, <1>2, WFMin
<1>4. PICK x \in U : TRUE
  OBVIOUS
<1>5. U \ {x} \notin G
  OBVIOUS
<1>6. U \ {x} \in Bad
  BY <1>5
<1>7. <<U \ {x}, U>> \in R
  BY DEF StrictSubsetOrdering
<1> QED
  BY <1>3, <1>6, <1>7

\* Columns that differ in one row have totals that differ by that row.
LEMMA TotalChange ==
    ASSUME NEW S, IsFiniteSet(S), NEW f \in [S -> Nat], NEW g \in [S -> Nat],
           NEW x \in S, \A r \in S \ {x} : g[r] = f[r]
    PROVE  Total(g) = Total(f) - f[x] + g[x]
<1>1. ASSUME NEW v \in Nat PROVE Total([f EXCEPT ![x] = v]) = Total(f) - f[x] + v
  BY TotalUpdate
<1>2. g = [f EXCEPT ![x] = g[x]] /\ g[x] \in Nat
  OBVIOUS
<1> QED
  BY <1>1, <1>2

\* A column that is nowhere larger has no larger total.
LEMMA TotalMonotone ==
    ASSUME NEW S, IsFiniteSet(S), NEW f \in [S -> Nat], NEW g \in [S -> Nat],
           \A r \in S : f[r] <= g[r]
    PROVE  Total(f) <= Total(g)
<1>1. \A r \in S : 1..f[r] \subseteq 1..g[r]
  OBVIOUS
<1>2. Units(f) \subseteq Units(g)
  BY <1>1 DEF Units
<1>3. IsFiniteSet(Units(g))
  BY UnitsFinite
<1> QED
  BY <1>2, <1>3, FS_Subset DEF Total

\* The total of two columns together.
LEMMA TotalPlus ==
    ASSUME NEW S, IsFiniteSet(S), NEW f \in [S -> Nat], NEW g \in [S -> Nat]
    PROVE  Total([r \in S |-> f[r] + g[r]]) = Total(f) + Total(g)
<1> DEFINE F(U) == [r \in S |-> IF r \in U THEN f[r] ELSE 0]
           H(U) == [r \in S |-> IF r \in U THEN f[r] + g[r] ELSE g[r]]
           G == {U \in SUBSET S : Total(H(U)) = Total(F(U)) + Total(g)}
<1>1. {} \in G
  <2>1. F({}) = [r \in S |-> 0] /\ H({}) = g
    OBVIOUS
  <2>2. Total(F({})) = 0 /\ Total(g) \in Nat
    BY <2>1, TotalOfZeros, TotalType
  <2> QED
    BY <2>1, <2>2
<1>2. ASSUME NEW U \in SUBSET S, NEW x \in U, U \ {x} \in G PROVE U \in G
  <2> DEFINE V == U \ {x}
  <2>1. /\ F(U) \in [S -> Nat] /\ F(V) \in [S -> Nat]
        /\ H(U) \in [S -> Nat] /\ H(V) \in [S -> Nat]
    OBVIOUS
  <2>2. /\ F(V)[x] = 0 /\ F(U)[x] = f[x] /\ H(V)[x] = g[x] /\ H(U)[x] = f[x] + g[x]
        /\ \A r \in S \ {x} : F(U)[r] = F(V)[r] /\ H(U)[r] = H(V)[r]
    OBVIOUS
  <2>3. Total(H(V)) = Total(F(V)) + Total(g)
    BY <1>2
  <2>4. f[x] \in Nat /\ g[x] \in Nat /\ x \in S
    OBVIOUS
  <2> HIDE DEF F, H, V
  <2>5. Total(F(U)) = Total(F(V)) - F(V)[x] + F(U)[x]
    BY <2>1, <2>2, <2>4, TotalChange
  <2>6. Total(H(U)) = Total(H(V)) - H(V)[x] + H(U)[x]
    BY <2>1, <2>2, <2>4, TotalChange
  <2>7. Total(F(V)) \in Nat /\ Total(H(V)) \in Nat /\ Total(g) \in Nat
    BY <2>1, TotalType
  <2>8. Total(H(U)) = Total(F(U)) + Total(g)
    BY <2>2, <2>3, <2>4, <2>5, <2>6, <2>7
  <2> QED
    BY <2>8
<1> HIDE DEF G
<1>3. S \in G
  BY <1>1, <1>2, SubsetInduction
<1> USE DEF G
<1>4. F(S) = f /\ H(S) = [r \in S |-> f[r] + g[r]]
  OBVIOUS
<1> QED
  BY <1>3, <1>4

\* The sizes of disjoint sets add up to the size of their union.
LEMMA TotalOfCounts ==
    ASSUME NEW S, IsFiniteSet(S), NEW T, IsFiniteSet(T), NEW m \in [S -> SUBSET T],
           \A r, s \in S : r # s => m[r] \cap m[s] = {}
    PROVE  Total([r \in S |-> Cardinality(m[r])]) <= Cardinality(T)
<1> DEFINE C(U) == [r \in S |-> IF r \in U THEN Cardinality(m[r]) ELSE 0]
           All(U) == UNION {m[r] : r \in U}
           G == {U \in SUBSET S : Total(C(U)) = Cardinality(All(U))}
<1>0. ASSUME NEW U \in SUBSET S
      PROVE  All(U) \subseteq T /\ IsFiniteSet(All(U)) /\ C(U) \in [S -> Nat]
  <2>1. All(U) \subseteq T
    OBVIOUS
  <2>2. IsFiniteSet(All(U))
    BY <2>1, FS_Subset
  <2>3. \A r \in S : IsFiniteSet(m[r]) /\ Cardinality(m[r]) \in Nat
    BY FS_Subset, FS_CardinalityType
  <2> QED
    BY <2>1, <2>2, <2>3
<1>1. {} \in G
  <2>1. C({}) = [r \in S |-> 0] /\ All({}) = {}
    OBVIOUS
  <2> QED
    BY <2>1, TotalOfZeros, FS_EmptySet
<1>2. ASSUME NEW U \in SUBSET S, NEW x \in U, U \ {x} \in G PROVE U \in G
  <2> DEFINE V == U \ {x}
  <2>1. /\ V \in SUBSET S /\ x \in S /\ C(V)[x] = 0 /\ C(U)[x] = Cardinality(m[x])
        /\ \A r \in S \ {x} : C(U)[r] = C(V)[r]
    OBVIOUS
  <2>2. All(U) = All(V) \cup m[x]
    OBVIOUS
  <2>3. All(V) \cap m[x] = {}
    OBVIOUS
  <2>4. IsFiniteSet(m[x]) /\ Cardinality(m[x]) \in Nat
    BY FS_Subset, FS_CardinalityType
  <2>5. Total(C(V)) = Cardinality(All(V))
    BY <1>2
  <2> HIDE DEF C, All, V
  <2>6. Cardinality(All(U)) = Cardinality(All(V)) + Cardinality(m[x])
    <3>1. IsFiniteSet(All(V))
      BY <1>0, <2>1
    <3>2. Cardinality(All(V) \cup m[x])
            = Cardinality(All(V)) + Cardinality(m[x]) - Cardinality(All(V) \cap m[x])
      BY <3>1, <2>4, FS_Union
    <3>3. Cardinality(All(V)) \in Nat /\ Cardinality({}) = 0
      BY <3>1, FS_CardinalityType, FS_EmptySet
    <3>4. Cardinality(All(V) \cap m[x]) = 0
      BY <2>3, <3>3
    <3> QED
      BY <2>2, <2>4, <3>2, <3>3, <3>4
  <2>7. Total(C(U)) = Total(C(V)) - C(V)[x] + C(U)[x]
    BY <1>0, <2>1, TotalChange
  <2>8. Total(C(V)) \in Nat
    BY <1>0, <2>1, TotalType
  <2>9. Total(C(U)) = Cardinality(All(U))
    BY <2>1, <2>4, <2>5, <2>6, <2>7, <2>8
  <2> QED
    BY <2>9
<1>3. S \in G
  <2> HIDE DEF G
  <2> QED
    BY <1>1, <1>2, SubsetInduction
<1>4. C(S) = [r \in S |-> Cardinality(m[r])]
  OBVIOUS
<1>5. Cardinality(All(S)) <= Cardinality(T)
  BY <1>0, FS_Subset
<1> QED
  BY <1>3, <1>4, <1>5

\* Columns over different rows with the same values, row by row, and nothing
\* in the other rows, have the same total.
LEMMA TotalReindex ==
    ASSUME NEW S, IsFiniteSet(S), NEW T, NEW f \in [S -> Nat], NEW g \in [T -> Nat],
           NEW h \in [S -> T], \A r, s \in S : r # s => h[r] # h[s],
           \A r \in S : g[h[r]] = f[r],
           \A t \in T : (\A r \in S : h[r] # t) => g[t] = 0
    PROVE  Total(f) = Total(g)
<1> DEFINE k == [v \in Units(f) |-> <<h[v[1]], v[2]>>]
<1>1. ASSUME NEW v \in Units(f) PROVE v[1] \in S /\ v[2] \in 1..f[v[1]] /\ v = <<v[1], v[2]>>
  BY DEF Units
<1>2. ASSUME NEW v \in Units(g) PROVE v[1] \in T /\ v[2] \in 1..g[v[1]] /\ v = <<v[1], v[2]>>
  BY DEF Units
<1>3. k \in [Units(f) -> Units(g)]
  <2> SUFFICES ASSUME NEW v \in Units(f) PROVE <<h[v[1]], v[2]>> \in Units(g)
    OBVIOUS
  <2>1. h[v[1]] \in T /\ v[2] \in 1..g[h[v[1]]]
    BY <1>1
  <2> QED
    BY <2>1 DEF Units
<1>4. ASSUME NEW v \in Units(f), NEW w \in Units(f), k[v] = k[w] PROVE v = w
  <2>1. h[v[1]] = h[w[1]] /\ v[2] = w[2]
    BY <1>4
  <2> QED
    BY <1>1, <2>1
<1>5. ASSUME NEW w \in Units(g) PROVE \E v \in Units(f) : k[v] = w
  <2>1. PICK r \in S : h[r] = w[1]
    BY <1>2
  <2>2. <<r, w[2]>> \in Units(f)
    BY <1>2, <2>1 DEF Units
  <2> QED
    BY <1>2, <2>1, <2>2
<1> HIDE DEF k
<1>6. k \in Bijection(Units(f), Units(g))
  <2>1. k \in Injection(Units(f), Units(g))
    BY <1>3, <1>4 DEF Injection, IsInjective
  <2>2. k \in Surjection(Units(f), Units(g))
    BY <1>3, <1>5 DEF Surjection
  <2> QED
    BY <2>1, <2>2 DEF Bijection
<1> QED
  BY <1>6, UnitsFinite, FS_Bijection DEF ExistsBijection, Total

\* A further row adds its value to a total.
LEMMA TotalExtend ==
    ASSUME NEW S, IsFiniteSet(S), NEW f \in [S -> Nat], NEW x, x \notin S,
           NEW g \in [S \cup {x} -> Nat], \A r \in S : g[r] = f[r]
    PROVE  Total(g) = Total(f) + g[x]
<1> DEFINE T == S \cup {x}
           z == [r \in T |-> IF r = x THEN 0 ELSE f[r]]
           h == [r \in S |-> r]
<1>1. IsFiniteSet(T)
  BY FS_AddElement
<1>2. z \in [T -> Nat] /\ z[x] = 0 /\ \A r \in S : z[r] = f[r]
  OBVIOUS
<1>3. h \in [S -> T] /\ \A r \in S : h[r] = r
  OBVIOUS
<1>4. \A t \in T : (\A r \in S : h[r] # t) => t = x
  BY <1>3
<1> HIDE DEF z, h, T
<1>5. Total(f) = Total(z)
  <2>1. \A r, s \in S : r # s => h[r] # h[s]
    BY <1>3
  <2>2. \A r \in S : z[h[r]] = f[r]
    BY <1>2, <1>3
  <2>3. \A t \in T : (\A r \in S : h[r] # t) => z[t] = 0
    BY <1>2, <1>4
  <2> QED
    BY <1>2, <1>3, <2>1, <2>2, <2>3, TotalReindex
<1>6. g \in [T -> Nat] /\ x \in T /\ \A r \in T \ {x} : g[r] = z[r]
  BY <1>2 DEF T
<1>7. Total(g) = Total(z) - z[x] + g[x]
  BY <1>1, <1>2, <1>6, TotalChange
<1>8. Total(z) \in Nat /\ g[x] \in Nat
  BY <1>1, <1>2, <1>6, TotalType
<1> QED
  BY <1>2, <1>5, <1>7, <1>8
=============================================================================
