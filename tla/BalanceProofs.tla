--------------------------- MODULE BalanceProofs ---------------------------
(***************************************************************************)
(* The history of an address and its balance tell the same story: the      *)
(* machine-checked proof, for every index, page size and amounts, with the *)
(* facts about sums over finite sets that it needs.                        *)
(***************************************************************************)
EXTENDS ReadApiProofs

-----------------------------------------------------------------------------
(* Sums over finite sets *)

\* The element MapThenFoldSet takes next.
Pick(s) == CHOOSE x \in s : TRUE

\* g is the function the fold of f over S is computed by.
IsFold(f, S, g) ==
    g = [s \in SUBSET S |-> IF s = {} THEN 0 ELSE f[Pick(s)] + g[s \ {Pick(s)}]]

\* V satisfies the equation of the fold below S.
IsFoldBelow(f, S, V) ==
    \A s \in SUBSET S : s # S =>
        V[s] = IF s = {} THEN 0 ELSE f[Pick(s)] + V[s \ {Pick(s)}]

LEMMA PickIn ==
    ASSUME NEW s, s # {}
    PROVE  Pick(s) \in s
BY DEF Pick

\* A family of finite sets has a member none of the others is smaller than.
LEMMA SmallestSet ==
    ASSUME NEW S, IsFiniteSet(S), NEW F \in SUBSET (SUBSET S), F # {}
    PROVE  \E T \in F : \A U \in SUBSET S : U \subseteq T /\ U # T => U \notin F
<1> DEFINE size == [T \in F |-> Cardinality(T)]
<1>1. ASSUME NEW T \in SUBSET S PROVE IsFiniteSet(T) /\ Cardinality(T) \in Nat
  BY FS_Subset, FS_CardinalityType
<1>2. size \in [F -> Nat]
  BY <1>1
<1> HIDE DEF size
<1>3. PICK T \in F : \A U \in F : size[T] <= size[U]
  BY <1>2, LeastMeasure
<1>4. ASSUME NEW U \in F, U \subseteq T, U # T PROVE FALSE
  <2>1. IsFiniteSet(T) /\ IsFiniteSet(U) /\ Cardinality(T) \in Nat /\ Cardinality(U) \in Nat
    BY <1>1
  <2>2. Cardinality(U) <= Cardinality(T) /\ Cardinality(U) # Cardinality(T)
    BY <1>4, <2>1, FS_Subset
  <2>3. Cardinality(T) <= Cardinality(U)
    BY <1>3 DEF size
  <2> QED BY <2>1, <2>2, <2>3
<1> QED BY <1>4

LEMMA SumIsFold ==
    ASSUME NEW f, NEW S
    PROVE  SumFunctionOnSet(f, S) = (CHOOSE g : IsFold(f, S, g))[S]
BY DEF SumFunctionOnSet, FoldFunctionOnSet, MapThenFoldSet, IsFold, Pick

\* A fold of S has, at every subset of S for which sums satisfy the equation
\* of the fold, the sum over that subset.
LEMMA FoldAgrees ==
    ASSUME NEW f, NEW S, IsFiniteSet(S), NEW V, NEW g, IsFold(f, S, g), IsFoldBelow(f, S, V)
    PROVE  \A s \in SUBSET S : s # S => g[s] = V[s]
<1> DEFINE F == {s \in SUBSET S : s # S /\ g[s] # V[s]}
<1> SUFFICES ASSUME F # {} PROVE FALSE
  OBVIOUS
<1>1. F \in SUBSET (SUBSET S)
  OBVIOUS
<1> HIDE DEF F
<1>2. PICK s \in F : \A u \in SUBSET S : u \subseteq s /\ u # s => u \notin F
  BY <1>1, SmallestSet
<1>3. s \in SUBSET S /\ s # S /\ g[s] # V[s]
  BY DEF F
<1>4. g[s] = IF s = {} THEN 0 ELSE f[Pick(s)] + g[s \ {Pick(s)}]
  BY <1>3, Zenon DEF IsFold
<1>5. V[s] = IF s = {} THEN 0 ELSE f[Pick(s)] + V[s \ {Pick(s)}]
  BY <1>3 DEF IsFoldBelow
<1>6. CASE s = {}
  BY <1>3, <1>4, <1>5, <1>6
<1>7. CASE s # {}
  <2>1. PICK u : u = s \ {Pick(s)}
    OBVIOUS
  <2>2. u \in SUBSET S /\ u \subseteq s /\ u # s /\ u # S
    BY <1>3, <1>7, <2>1, PickIn
  <2>3. u \notin F
    BY <1>2, <2>2
  <2>4. g[u] = V[u]
    BY <2>2, <2>3 DEF F
  <2>5. g[s] = f[Pick(s)] + g[u] /\ V[s] = f[Pick(s)] + V[u]
    BY <1>4, <1>5, <1>7, <2>1, Zenon
  <2> QED BY <1>3, <2>4, <2>5
<1> QED BY <1>6, <1>7

\* The equation of sums over finite sets.
LEMMA SumStep ==
    ASSUME NEW f, NEW S, IsFiniteSet(S)
    PROVE  SumFunctionOnSet(f, S) =
               IF S = {} THEN 0 ELSE f[Pick(S)] + SumFunctionOnSet(f, S \ {Pick(S)})
<1> DEFINE V == [s \in SUBSET S |-> SumFunctionOnSet(f, s)]
           Eq(s) == V[s] = IF s = {} THEN 0 ELSE f[Pick(s)] + V[s \ {Pick(s)}]
           F == {s \in SUBSET S : ~Eq(s)}
<1>1. ASSUME F # {} PROVE FALSE
  <2>1. F \in SUBSET (SUBSET S)
    OBVIOUS
  <2> HIDE DEF F
  <2>2. PICK T \in F : \A u \in SUBSET S : u \subseteq T /\ u # T => u \notin F
    BY <1>1, <2>1, SmallestSet
  <2>3. T \in SUBSET S /\ ~Eq(T) /\ IsFiniteSet(T)
    BY <2>1, FS_Subset DEF F
  <2>4. \A s \in SUBSET T : s # T => Eq(s)
    BY <2>2, <2>3 DEF F
  <2> DEFINE h == [s \in SUBSET T |->
                      IF s = T THEN (IF T = {} THEN 0 ELSE f[Pick(T)] + V[T \ {Pick(T)}])
                      ELSE V[s]]
  <2> HIDE DEF V
  <2>5. ASSUME NEW s \in SUBSET T
        PROVE  h[s] = IF s = {} THEN 0 ELSE f[Pick(s)] + h[s \ {Pick(s)}]
    <3>1. CASE s = {}
      <4>1. CASE T = {}
        BY <3>1, <4>1
      <4>2. CASE T # {}
        <5>1. Eq(s) /\ h[s] = V[s]
          BY <2>4, <3>1, <4>2
        <5> QED BY <3>1, <5>1
      <4> QED BY <4>1, <4>2
    <3>2. CASE s # {}
      <4>1. s \ {Pick(s)} \in SUBSET T /\ s \ {Pick(s)} # T
        BY <3>2, PickIn
      <4>2. h[s \ {Pick(s)}] = V[s \ {Pick(s)}]
        BY <4>1
      <4>3. CASE s = T
        BY <3>2, <4>2, <4>3
      <4>4. CASE s # T
        <5>1. Eq(s) /\ h[s] = V[s]
          BY <2>4, <4>4
        <5> QED BY <3>2, <4>2, <5>1
      <4> QED BY <4>3, <4>4
    <3> QED BY <3>1, <3>2
  <2>6. h = [s \in SUBSET T |-> h[s]]
    OBVIOUS
  <2> HIDE DEF h
  <2>7. h = [s \in SUBSET T |-> IF s = {} THEN 0 ELSE f[Pick(s)] + h[s \ {Pick(s)}]]
    BY <2>5, <2>6
  <2>8. \E g : IsFold(f, T, g)
    BY <2>7 DEF IsFold
  <2>9. PICK g : g = CHOOSE k : IsFold(f, T, k)
    OBVIOUS
  <2>10. IsFold(f, T, g)
    BY <2>8, <2>9
  <2>11. V[T] = g[T]
    BY <2>3, <2>9, SumIsFold DEF V
  <2>12. \A s \in SUBSET T : s # T => g[s] = V[s]
    <3>1. IsFoldBelow(f, T, V)
      BY <2>4 DEF IsFoldBelow
    <3> QED BY <2>3, <2>10, <3>1, FoldAgrees
  <2>13. g[T] = IF T = {} THEN 0 ELSE f[Pick(T)] + g[T \ {Pick(T)}]
    BY <2>10, Zenon DEF IsFold
  <2>14. T # {} => g[T \ {Pick(T)}] = V[T \ {Pick(T)}]
    BY <2>12, PickIn
  <2> QED BY <2>3, <2>11, <2>13, <2>14
<1>2. Eq(S)
  BY <1>1
<1> QED BY <1>2, PickIn

LEMMA SumEmpty ==
    ASSUME NEW f
    PROVE  SumFunctionOnSet(f, {}) = 0
BY SumStep, FS_EmptySet

\* The sum of integers is one.
LEMMA SumType ==
    ASSUME NEW f, NEW S, IsFiniteSet(S), \A x \in S : f[x] \in Int
    PROVE  \A T \in SUBSET S : SumFunctionOnSet(f, T) \in Int
<1> DEFINE F == {T \in SUBSET S : SumFunctionOnSet(f, T) \notin Int}
<1> SUFFICES ASSUME F # {} PROVE FALSE
  OBVIOUS
<1>1. F \in SUBSET (SUBSET S)
  OBVIOUS
<1> HIDE DEF F
<1>2. PICK T \in F : \A U \in SUBSET S : U \subseteq T /\ U # T => U \notin F
  BY <1>1, SmallestSet
<1>3. T \in SUBSET S /\ SumFunctionOnSet(f, T) \notin Int /\ IsFiniteSet(T)
  BY FS_Subset DEF F
<1>4. T # {}
  BY <1>3, SumEmpty
<1>5. PICK p : p = Pick(T)
  OBVIOUS
<1>6. p \in T /\ f[p] \in Int
  BY <1>3, <1>4, <1>5, PickIn
<1>7. T \ {p} \in SUBSET S /\ T \ {p} # T
  BY <1>3, <1>6
<1>8. SumFunctionOnSet(f, T \ {p}) \in Int
  BY <1>2, <1>7 DEF F
<1>9. SumFunctionOnSet(f, T) = f[p] + SumFunctionOnSet(f, T \ {p})
  BY <1>3, <1>4, <1>5, SumStep
<1> QED BY <1>3, <1>6, <1>8, <1>9

\* Any element may be taken out first.
LEMMA SumRemove ==
    ASSUME NEW f, NEW S, IsFiniteSet(S), \A x \in S : f[x] \in Int, NEW x \in S
    PROVE  SumFunctionOnSet(f, S) = f[x] + SumFunctionOnSet(f, S \ {x})
<1> DEFINE Free(T) == \A y \in T : SumFunctionOnSet(f, T) = f[y] + SumFunctionOnSet(f, T \ {y})
           F == {T \in SUBSET S : ~Free(T)}
<1>1. ASSUME F # {} PROVE FALSE
  <2>1. F \in SUBSET (SUBSET S)
    OBVIOUS
  <2> HIDE DEF F
  <2>2. PICK T \in F : \A U \in SUBSET S : U \subseteq T /\ U # T => U \notin F
    BY <1>1, <2>1, SmallestSet
  <2>3. T \in SUBSET S /\ IsFiniteSet(T) /\ ~Free(T)
    BY <2>1, FS_Subset DEF F
  <2>4. PICK y \in T : SumFunctionOnSet(f, T) # f[y] + SumFunctionOnSet(f, T \ {y})
    BY <2>3
  <2>5. PICK p : p = Pick(T)
    OBVIOUS
  <2>6. p \in T /\ SumFunctionOnSet(f, T) = f[p] + SumFunctionOnSet(f, T \ {p})
    BY <2>3, <2>4, <2>5, SumStep, PickIn
  <2>7. y # p
    BY <2>4, <2>6
  <2>8. ASSUME NEW z \in T, NEW w \in T \ {z}
        PROVE  SumFunctionOnSet(f, T \ {z}) = f[w] + SumFunctionOnSet(f, (T \ {z}) \ {w})
    <3>1. PICK U : U = T \ {z}
      OBVIOUS
    <3>2. U \in SUBSET S /\ U \subseteq T /\ U # T /\ w \in U
      BY <2>3, <3>1
    <3>3. Free(U)
      BY <2>2, <3>2 DEF F
    <3> QED BY <3>1, <3>2, <3>3
  <2>9. PICK R : R = (T \ {p}) \ {y}
    OBVIOUS
  <2>10. R = (T \ {y}) \ {p} /\ R \in SUBSET S
    BY <2>3, <2>9
  <2>11. SumFunctionOnSet(f, T \ {p}) = f[y] + SumFunctionOnSet(f, R)
    BY <2>6, <2>7, <2>8, <2>9
  <2>12. SumFunctionOnSet(f, T \ {y}) = f[p] + SumFunctionOnSet(f, R)
    BY <2>6, <2>7, <2>8, <2>10
  <2>13. SumFunctionOnSet(f, R) \in Int /\ f[y] \in Int /\ f[p] \in Int
    BY <2>3, <2>6, <2>10, SumType
  <2> QED BY <2>4, <2>6, <2>11, <2>12, <2>13
<1>2. Free(S)
  BY <1>1
<1> QED BY <1>2

\* The sums over disjoint sets add up.
LEMMA SumUnion ==
    ASSUME NEW f, NEW S, IsFiniteSet(S), \A x \in S : f[x] \in Int,
           NEW A \in SUBSET S, NEW B \in SUBSET S, A \cap B = {}
    PROVE  SumFunctionOnSet(f, A \cup B) = SumFunctionOnSet(f, A) + SumFunctionOnSet(f, B)
<1> DEFINE Adds(T) == SumFunctionOnSet(f, A \cup T) = SumFunctionOnSet(f, A) + SumFunctionOnSet(f, T)
           F == {T \in SUBSET B : ~Adds(T)}
<1>0. IsFiniteSet(B)
  BY FS_Subset
<1>1. ASSUME F # {} PROVE FALSE
  <2>1. F \in SUBSET (SUBSET B)
    OBVIOUS
  <2> HIDE DEF F
  <2>2. PICK T \in F : \A U \in SUBSET B : U \subseteq T /\ U # T => U \notin F
    BY <1>0, <1>1, <2>1, SmallestSet
  <2>3. T \in SUBSET B /\ ~Adds(T)
    BY DEF F
  <2>4. T # {}
    <3>1. SumFunctionOnSet(f, A) \in Int
      BY SumType
    <3>2. A \cup {} = A
      OBVIOUS
    <3> QED BY <2>3, <3>1, <3>2, SumEmpty
  <2>5. PICK x : x \in T
    BY <2>4
  <2>6. PICK U : U = T \ {x}
    OBVIOUS
  <2>7. U \in SUBSET B /\ U \subseteq T /\ U # T
    BY <2>3, <2>5, <2>6
  <2>8. Adds(U)
    BY <2>2, <2>7 DEF F
  <2>9. IsFiniteSet(T) /\ IsFiniteSet(A \cup T) /\ A \cup T \in SUBSET S /\ U \in SUBSET S
    BY <2>3, <2>7, FS_Subset
  <2>10. (A \cup T) \ {x} = A \cup U /\ x \in A \cup T
    BY <2>3, <2>5, <2>6
  <2>11. SumFunctionOnSet(f, T) = f[x] + SumFunctionOnSet(f, U)
    BY <2>3, <2>5, <2>6, <2>9, SumRemove
  <2>12. SumFunctionOnSet(f, A \cup T) = f[x] + SumFunctionOnSet(f, A \cup U)
    <3>1. \A y \in A \cup T : f[y] \in Int
      BY <2>9
    <3> QED BY <2>9, <2>10, <3>1, SumRemove
  <2>13. f[x] \in Int /\ SumFunctionOnSet(f, U) \in Int /\ SumFunctionOnSet(f, A) \in Int
    BY <2>3, <2>5, <2>9, SumType
  <2> QED BY <2>3, <2>8, <2>11, <2>12, <2>13
<1>2. Adds(B)
  BY <1>1
<1> QED BY <1>2

\* What one member of a family adds to its union.
LEMMA UnionStep ==
    ASSUME NEW P, NEW T, NEW x \in T, NEW S, \A e \in T : P[e] \in SUBSET S,
           \A d, e \in T : d # e => P[d] \cap P[e] = {}
    PROVE  LET A == UNION {P[e] : e \in T \ {x}} IN
           /\ A \in SUBSET S /\ A \cap P[x] = {}
           /\ UNION {P[e] : e \in T} = A \cup P[x]
OBVIOUS

\* P and N give every member of E a part of S of its own.
Parts(E, P, N, S) ==
    /\ \A e \in E : P[e] \in SUBSET S /\ N[e] \in SUBSET S
    /\ \A d, e \in E : d # e => P[d] \cap P[e] = {} /\ N[d] \cap N[e] = {}

\* h[e] is what f adds up to over P[e], less what it adds up to over N[e].
IsDelta(h, f, E, P, N) ==
    \A e \in E : h[e] = SumFunctionOnSet(f, P[e]) - SumFunctionOnSet(f, N[e])

\* Differences of sums over disjoint sets add up to the difference of the sums
\* over their unions.
LEMMA SumDeltas ==
    ASSUME NEW S, IsFiniteSet(S), NEW f, \A x \in S : f[x] \in Int,
           NEW E, IsFiniteSet(E), NEW P, NEW N, Parts(E, P, N, S),
           NEW h, IsDelta(h, f, E, P, N)
    PROVE  SumFunctionOnSet(h, E) = SumFunctionOnSet(f, UNION {P[e] : e \in E})
                                    - SumFunctionOnSet(f, UNION {N[e] : e \in E})
<1> DEFINE PS(T) == UNION {P[e] : e \in T}
           NS(T) == UNION {N[e] : e \in T}
           Adds(T) == SumFunctionOnSet(h, T) = SumFunctionOnSet(f, PS(T)) - SumFunctionOnSet(f, NS(T))
           F == {T \in SUBSET E : ~Adds(T)}
<1>p. /\ \A e \in E : P[e] \in SUBSET S /\ N[e] \in SUBSET S
      /\ \A d, e \in E : d # e => P[d] \cap P[e] = {} /\ N[d] \cap N[e] = {}
  BY DEF Parts
<1>h. \A e \in E : h[e] = SumFunctionOnSet(f, P[e]) - SumFunctionOnSet(f, N[e])
  BY DEF IsDelta
<1> USE <1>p, <1>h
<1>0. \A T \in SUBSET S : SumFunctionOnSet(f, T) \in Int
  BY SumType
<1>1. ASSUME F # {} PROVE FALSE
  <2>1. F \in SUBSET (SUBSET E)
    OBVIOUS
  <2> HIDE DEF F
  <2>2. PICK T \in F : \A U \in SUBSET E : U \subseteq T /\ U # T => U \notin F
    BY <1>1, <2>1, SmallestSet
  <2>3. T \in SUBSET E /\ ~Adds(T) /\ IsFiniteSet(T)
    BY <2>1, FS_Subset DEF F
  <2>4. T # {}
    <3>1. PS({}) = {} /\ NS({}) = {}
      OBVIOUS
    <3>2. SumFunctionOnSet(h, {}) = 0 /\ SumFunctionOnSet(f, {}) = 0
      BY SumEmpty
    <3> HIDE DEF PS, NS
    <3>3. SumFunctionOnSet(f, PS({})) = 0 /\ SumFunctionOnSet(f, NS({})) = 0
      BY <3>1, <3>2
    <3>4. Adds({})
      BY <3>2, <3>3
    <3> HIDE DEF Adds
    <3> QED BY <2>3, <3>4
  <2>5. PICK x : x \in T
    BY <2>4
  <2>6. PICK U : U = T \ {x}
    OBVIOUS
  <2>7. U \in SUBSET E /\ U \subseteq T /\ U # T
    BY <2>3, <2>5, <2>6
  <2>8. Adds(U)
    BY <2>2, <2>7 DEF F
  <2>9. \A e \in T : h[e] \in Int
    <3> SUFFICES ASSUME NEW e \in T PROVE h[e] \in Int
      OBVIOUS
    <3>1. e \in E /\ P[e] \in SUBSET S /\ N[e] \in SUBSET S
      BY <2>3
    <3>2. SumFunctionOnSet(f, P[e]) \in Int /\ SumFunctionOnSet(f, N[e]) \in Int
      BY <1>0, <3>1
    <3> QED BY <3>1, <3>2
  <2>10. SumFunctionOnSet(h, T) = h[x] + SumFunctionOnSet(h, U)
    BY <2>3, <2>5, <2>6, <2>9, SumRemove
  <2>11. PICK A, B : A = PS(U) /\ B = NS(U)
    OBVIOUS
  <2>12. A \in SUBSET S /\ A \cap P[x] = {} /\ PS(T) = A \cup P[x] /\ P[x] \in SUBSET S
    BY <2>3, <2>5, <2>6, <2>11, UnionStep
  <2>13. B \in SUBSET S /\ B \cap N[x] = {} /\ NS(T) = B \cup N[x] /\ N[x] \in SUBSET S
    BY <2>3, <2>5, <2>6, <2>11, UnionStep
  <2> HIDE DEF PS, NS
  <2>14. SumFunctionOnSet(f, PS(T)) = SumFunctionOnSet(f, A) + SumFunctionOnSet(f, P[x])
    BY <2>12, SumUnion
  <2>15. SumFunctionOnSet(f, NS(T)) = SumFunctionOnSet(f, B) + SumFunctionOnSet(f, N[x])
    BY <2>13, SumUnion
  <2>16. SumFunctionOnSet(h, U) = SumFunctionOnSet(f, A) - SumFunctionOnSet(f, B)
    BY <2>8, <2>11
  <2>17. h[x] = SumFunctionOnSet(f, P[x]) - SumFunctionOnSet(f, N[x])
    BY <2>3, <2>5
  <2>18. /\ SumFunctionOnSet(f, A) \in Int /\ SumFunctionOnSet(f, B) \in Int
         /\ SumFunctionOnSet(f, P[x]) \in Int /\ SumFunctionOnSet(f, N[x]) \in Int
    BY <1>0, <2>12, <2>13
  <2> QED BY <2>3, <2>10, <2>14, <2>15, <2>16, <2>17, <2>18
<1>2. Adds(E)
  BY <1>1
<1> QED BY <1>2

\* Counting is summing ones.
LEMMA CountIsSum ==
    ASSUME NEW S, IsFiniteSet(S), NEW one, \A x \in S : one[x] = 1
    PROVE  \A T \in SUBSET S : Cardinality(T) = SumFunctionOnSet(one, T)
<1> DEFINE F == {T \in SUBSET S : Cardinality(T) # SumFunctionOnSet(one, T)}
<1> SUFFICES ASSUME F # {} PROVE FALSE
  OBVIOUS
<1>1. F \in SUBSET (SUBSET S)
  OBVIOUS
<1> HIDE DEF F
<1>2. PICK T \in F : \A U \in SUBSET S : U \subseteq T /\ U # T => U \notin F
  BY <1>1, SmallestSet
<1>3. T \in SUBSET S /\ IsFiniteSet(T) /\ Cardinality(T) # SumFunctionOnSet(one, T)
  BY <1>1, FS_Subset DEF F
<1>4. T # {}
  BY <1>3, SumEmpty, FS_EmptySet
<1>5. PICK x : x \in T
  BY <1>4
<1>6. PICK U : U = T \ {x}
  OBVIOUS
<1>7. U \in SUBSET S /\ U \subseteq T /\ U # T
  BY <1>3, <1>5, <1>6
<1>8. Cardinality(U) = SumFunctionOnSet(one, U)
  BY <1>2, <1>7 DEF F
<1>9. \A y \in T : one[y] \in Int
  BY <1>3
<1>10. SumFunctionOnSet(one, T) = 1 + SumFunctionOnSet(one, U)
  BY <1>3, <1>5, <1>6, <1>9, SumRemove
<1>11. Cardinality(U) = Cardinality(T) - 1 /\ Cardinality(T) \in Nat
  BY <1>3, <1>5, <1>6, FS_RemoveElement, FS_CardinalityType
<1> QED BY <1>3, <1>8, <1>10, <1>11

-----------------------------------------------------------------------------
(* What an undisturbed history tells *)

\* An undisturbed history has entries of transitions that touch the address, as
\* they would be made now.
ToldInv ==
    scroll.pc # "idle" /\ scroll.quiet =>
        /\ scroll.pc \in {"cells", "count"} => scroll.page \subseteq Touched(scroll.address)
        /\ \A e \in scroll.entries :
              e.tx \in Touched(scroll.address) /\ e = Entry(scroll.address, e.tx)

LEMMA SameEntries ==
    ASSUME tip' = tip, labelled' = labelled
    PROVE  /\ \A a : Touched(a)' = Touched(a) /\ Owned(a)' = Owned(a)
           /\ \A a, t : Entry(a, t)' = Entry(a, t)
<1>1. (\A t : Indexed(t)' = Indexed(t)) /\ CellRows' = CellRows
  BY DEF Indexed, CellRows
<1>2. \A a : Owned(a)' = Owned(a)
  BY <1>1 DEF Owned
<1>3. \A a, t : Entry(a, t)' = Entry(a, t)
  BY <1>2 DEF Entry
<1>4. \A a : Touched(a)' = Touched(a)
  BY <1>1, <1>2 DEF Touched
<1> QED BY <1>2, <1>3, <1>4

\* A step of the client that only adds entries of its page.
LEMMA ToldKept ==
    ASSUME ToldInv, tip' = tip, labelled' = labelled, scroll.pc # "idle",
           scroll'.address = scroll.address, scroll'.quiet = scroll.quiet,
           scroll.quiet /\ scroll'.pc \in {"cells", "count"} =>
               scroll'.page \subseteq Touched(scroll.address),
           scroll.quiet => \A e \in scroll'.entries :
               \/ e \in scroll.entries
               \/ e.tx \in Touched(scroll.address) /\ e = Entry(scroll.address, e.tx)
    PROVE  ToldInv'
<1>1. PICK b : b = scroll.address
  OBVIOUS
<1>2. Touched(b)' = Touched(b) /\ \A t : Entry(b, t)' = Entry(b, t)
  BY SameEntries
<1>3. SUFFICES ASSUME scroll'.quiet
               PROVE  /\ scroll'.pc \in {"cells", "count"} => scroll'.page \subseteq Touched(b)'
                      /\ \A e \in scroll'.entries : e.tx \in Touched(b)' /\ e = Entry(b, e.tx)'
  BY <1>1 DEF ToldInv, Touched, Owned, Entry
<1>4. \A e \in scroll.entries : e.tx \in Touched(b) /\ e = Entry(b, e.tx)
  BY <1>1, <1>3 DEF ToldInv
<1>5. \A e \in scroll'.entries : e.tx \in Touched(b) /\ e = Entry(b, e.tx)
  BY <1>1, <1>3, <1>4
<1> QED BY <1>1, <1>2, <1>3, <1>5

LEMMA ToldNext ==
    ASSUME TypeInv, ToldInv, [Next]_vars
    PROVE  ToldInv'
<1>1. ASSUME UNCHANGED <<tip, labelled, scroll>> PROVE ToldInv'
  <2>1. CASE scroll.pc = "idle"
    BY <1>1, <2>1 DEF ToldInv
  <2>2. CASE scroll.pc # "idle"
    BY <1>1, <2>2, ToldKept DEF ToldInv
  <2> QED BY <2>1, <2>2
<1>2. ASSUME Disturb PROVE ToldInv'
  <2>1. scroll'.quiet = FALSE
    BY <1>2 DEF Disturb, TypeInv, Scrolls
  <2> QED BY <2>1 DEF ToldInv
<1>3. CASE CommitBlock
  BY <1>2, <1>3 DEF CommitBlock
<1>4. ASSUME NEW s \in Seals, Label(s) \/ Observe(s) PROVE ToldInv'
  BY <1>1, <1>2, <1>4 DEF Label, Observe
<1>5. ASSUME NEW a, NEW n, StartScroll(a, n) PROVE ToldInv'
  <2>1. scroll'.pc = "rows" /\ scroll'.entries = {}
    BY <1>5 DEF StartScroll, Idle
  <2> QED BY <2>1 DEF ToldInv
<1>6. CASE ReadRows
  <2>1. /\ tip' = tip /\ labelled' = labelled /\ scroll.pc # "idle"
        /\ scroll'.entries = scroll.entries /\ scroll'.address = scroll.address
        /\ scroll'.quiet = scroll.quiet
        /\ scroll'.page = ActivityPage(scroll.address, scroll.cursor, scroll.limit)
    BY <1>6 DEF ReadRows, TypeInv, Scrolls
  <2>2. scroll'.page \subseteq Touched(scroll.address)
    BY <2>1 DEF ActivityPage
  <2> QED BY <2>1, <2>2, ToldKept
<1>7. CASE ReadCells
  <2>1. /\ tip' = tip /\ labelled' = labelled /\ scroll.pc = "cells"
        /\ scroll'.address = scroll.address /\ scroll'.quiet = scroll.quiet
        /\ scroll'.page = scroll.page
        /\ scroll'.entries = scroll.entries \cup {Entry(scroll.address, t) : t \in scroll.page}
    BY <1>7 DEF ReadCells, TypeInv, Scrolls
  <2>2. scroll.quiet => scroll.page \subseteq Touched(scroll.address)
    BY <2>1 DEF ToldInv
  <2>3. \A t : Entry(scroll.address, t).tx = t
    BY DEF Entry
  <2> QED BY <2>1, <2>2, <2>3, ToldKept
<1>8. CASE ReadUnresolved
  <2>1. /\ tip' = tip /\ labelled' = labelled /\ scroll.pc = "count"
        /\ scroll'.pc \in {"done", "rows"}
        /\ scroll'.entries = scroll.entries /\ scroll'.address = scroll.address
        /\ scroll'.quiet = scroll.quiet
    BY <1>8 DEF ReadUnresolved, TypeInv, Scrolls
  <2> QED BY <2>1, ToldKept
<1>9. CASE Forget
  <2>1. scroll'.pc = "idle"
    BY <1>9 DEF Forget, Idle
  <2> QED BY <2>1 DEF ToldInv
<1>10. CASE \/ \E k \in {"all", "udt", "dob", "unknown"}, n \in Limits : StartListing(k, n)
            \/ ListRows \/ ListTotal \/ NextAssets \/ ForgetListing
  BY <1>1, <1>10, ListingTypes
<1>11. CASE \/ \E x \in Txids : StartPoll(x)
            \/ ResolveIndexed \/ ResolveSource \/ ResolveLookup
            \/ ReadTransitions \/ ReadTxidCells \/ PollAgain \/ EndPoll
  BY <1>1, <1>11, PollTypes
<1>12. CASE UNCHANGED vars
  BY <1>1, <1>12 DEF vars
<1> QED BY <1>3, <1>4, <1>5, <1>6, <1>7, <1>8, <1>9, <1>10, <1>11, <1>12 DEF Next

LEMMA ToldAlways == Spec => [](ScrollInv /\ StoryInv /\ ToldInv)
<1>1. Init => ToldInv
  BY DEF Init, Idle, ToldInv
<1>2. ScrollInv /\ ToldInv /\ [Next]_vars => ToldInv'
  BY ToldNext DEF ScrollInv
<1> QED BY <1>1, <1>2, StoryAlways, PTL DEF Spec

-----------------------------------------------------------------------------
(* The history and the balance *)

\* A cell whose consumption is indexed was created before the index or has an
\* indexed creation: blocks are indexed in order.
LEMMA CreationIndexed ==
    ASSUME tip \in Int, NEW c \in CellRows, CreatedBy[c] # NoTx
    PROVE  Indexed(CreatedBy[c])
<1>1. c \in Cells /\ (Indexed(CreatedBy[c]) \/ Indexed(ConsumedBy[c]))
  BY DEF CellRows
<1>2. CASE Indexed(ConsumedBy[c])
  <2>1. ConsumedBy[c] # NoTx /\ Pos[ConsumedBy[c]][1] <= tip
    BY <1>2 DEF Indexed
  <2>2. Before(Pos[CreatedBy[c]], Pos[ConsumedBy[c]])
    BY <1>1, <2>1, CausalAssumption
  <2>3. CreatedBy[c] \in Txs /\ ConsumedBy[c] \in Txs
    BY <1>1, <2>1, ReadAssumption
  <2>4. Pos[CreatedBy[c]][1] \in Nat /\ Pos[ConsumedBy[c]][1] \in Nat
    BY <2>3, ReadAssumption
  <2>5. Pos[CreatedBy[c]][1] <= Pos[ConsumedBy[c]][1]
    BY <2>2, <2>4 DEF Before
  <2> QED BY <2>1, <2>4, <2>5 DEF Indexed
<1> QED BY <1>1, <1>2

\* E holds the entries of every transaction that touched the address, and no others.
TellsAll(E, b) ==
    /\ \A e \in E : e.tx \in Touched(b) /\ e = Entry(b, e.tx)
    /\ \A t \in Touched(b) : Entry(b, t) \in E

\* At the end of an undisturbed history there is one entry for each transition
\* that touches the address.
LEMMA ToldAll ==
    ASSUME ScrollInv, StoryInv, ToldInv, scroll.pc = "done", scroll.quiet
    PROVE  TellsAll(scroll.entries, scroll.address) /\ IsFiniteSet(scroll.entries)
<1> DEFINE E == scroll.entries
           b == scroll.address
<1>1. \A e \in E : e.tx \in Touched(b) /\ e = Entry(b, e.tx)
  BY DEF ToldInv
<1>2. \A t \in Touched(b) : Entry(b, t) \in E
  <2> SUFFICES ASSUME NEW t \in Touched(b) PROVE Entry(b, t) \in E
    OBVIOUS
  <2>1. t \in scroll.due
    BY DEF StoryInv
  <2>2. t \in EntryTxs(E)
    BY <2>1 DEF ScrollInv, AheadInv
  <2>3. PICK e \in E : e.tx = t
    BY <2>2 DEF EntryTxs
  <2> QED BY <1>1, <2>3
<1> DEFINE f == [t \in Touched(b) |-> Entry(b, t)]
<1>3. IsFiniteSet(Touched(b))
  BY ReadAssumption, FS_Subset DEF Touched
<1>4. DOMAIN f = Touched(b) /\ f = [t \in Touched(b) |-> f[t]] /\ \A t \in Touched(b) : f[t] = Entry(b, t)
  OBVIOUS
<1> HIDE DEF f
<1>5. IsFiniteSet({f[t] : t \in Touched(b)})
  BY <1>3, <1>4, FiniteImage
<1>6. E = {f[t] : t \in Touched(b)}
  BY <1>1, <1>2, <1>4
<1> QED BY <1>1, <1>2, <1>5, <1>6 DEF TellsAll

\* What the entries in E received and sent of an asset: cells of their own, of
\* the address, and over all entries the created and the consumed ones.
TellsCells(E, b, a) ==
    LET O == OfAsset(Owned(b), a)
        P == [e \in E |-> OfAsset(e.received, a)]
        N == [e \in E |-> OfAsset(e.sent, a)]
    IN  /\ Parts(E, P, N, O)
        /\ UNION {P[e] : e \in E} = {c \in O : CreatedBy[c] # NoTx}
        /\ UNION {N[e] : e \in E} = {c \in O : Consumed(c)}

LEMMA ToldCells ==
    ASSUME TypeInv, NEW E, NEW b, NEW a, TellsAll(E, b)
    PROVE  TellsCells(E, b, a)
<1> USE DEF TellsAll
<1> DEFINE O == OfAsset(Owned(b), a)
           P == [e \in E |-> OfAsset(e.received, a)]
           N == [e \in E |-> OfAsset(e.sent, a)]
<1>1. ASSUME NEW e \in E
      PROVE  /\ P[e] = {c \in O : CreatedBy[c] = e.tx} /\ N[e] = {c \in O : ConsumedBy[c] = e.tx}
             /\ e.tx \in Txs /\ Indexed(e.tx)
  <2>1. PICK t : t = e.tx
    OBVIOUS
  <2>2. e = Entry(b, t) /\ t \in Touched(b)
    BY <2>1
  <2>3. /\ e.received = {c \in Owned(b) : CreatedBy[c] = t}
        /\ e.sent = {c \in Owned(b) : ConsumedBy[c] = t}
    BY <2>2 DEF Entry
  <2>4. P[e] = {c \in O : CreatedBy[c] = t} /\ N[e] = {c \in O : ConsumedBy[c] = t}
    BY <2>3 DEF OfAsset
  <2> QED BY <2>1, <2>2, <2>4 DEF Touched
<1>2. \A e \in E : P[e] \in SUBSET O /\ N[e] \in SUBSET O
  BY <1>1
<1>3. ASSUME NEW d \in E, NEW e \in E, d # e PROVE P[d] \cap P[e] = {} /\ N[d] \cap N[e] = {}
  <2>1. d.tx # e.tx
    BY <1>3
  <2> QED BY <1>1, <2>1
<1>4. O \subseteq Owned(b) /\ Owned(b) \subseteq CellRows /\ CellRows \subseteq Cells
  BY DEF OfAsset, Owned, CellRows
<1>5. tip \in Int
  BY ReadAssumption DEF TypeInv
<1>6. ASSUME NEW c \in O, NEW t, t \in {CreatedBy[c], ConsumedBy[c]}, Indexed(t)
      PROVE  Entry(b, t) \in E /\ Entry(b, t).tx = t
  <2>1. t \in Txs
    BY <1>4, <1>6, ReadAssumption DEF Indexed
  <2>2. t \in Touched(b)
    BY <1>4, <1>6, <2>1 DEF Touched
  <2> QED BY <2>2 DEF Entry
<1> HIDE DEF O, P, N
<1>7. UNION {P[e] : e \in E} = {c \in O : CreatedBy[c] # NoTx}
  <2>1. ASSUME NEW e \in E, NEW c \in P[e] PROVE c \in O /\ CreatedBy[c] # NoTx
    BY <1>1, <2>1, ReadAssumption
  <2>2. ASSUME NEW c \in O, CreatedBy[c] # NoTx PROVE \E e \in E : c \in P[e]
    <3>1. Indexed(CreatedBy[c])
      BY <1>4, <1>5, <2>2, CreationIndexed
    <3>2. PICK e \in E : e.tx = CreatedBy[c]
      BY <1>6, <3>1
    <3> QED BY <1>1, <3>2
  <2> QED BY <2>1, <2>2
<1>8. UNION {N[e] : e \in E} = {c \in O : Consumed(c)}
  <2>1. ASSUME NEW e \in E, NEW c \in N[e] PROVE c \in O /\ Consumed(c)
    BY <1>1, <2>1 DEF Consumed
  <2>2. ASSUME NEW c \in O, Consumed(c) PROVE \E e \in E : c \in N[e]
    <3>1. Indexed(ConsumedBy[c])
      BY <2>2 DEF Consumed
    <3>2. PICK e \in E : e.tx = ConsumedBy[c]
      BY <1>6, <3>1
    <3> QED BY <1>1, <3>2
  <2> QED BY <2>1, <2>2
<1>9. Parts(E, P, N, O)
  BY <1>2, <1>3 DEF Parts
<1> QED BY <1>7, <1>8, <1>9 DEF O, P, N, TellsCells

\* In a set split in two ways, the difference of one part of each is that of the
\* other parts.
LEMMA SplitTwice ==
    ASSUME NEW O, IsFiniteSet(O), NEW f, \A x \in O : f[x] \in Int,
           NEW C \in SUBSET O, NEW K \in SUBSET O
    PROVE  SumFunctionOnSet(f, C) - SumFunctionOnSet(f, K) =
               SumFunctionOnSet(f, O \ K) - SumFunctionOnSet(f, O \ C)
<1>1. ASSUME NEW A \in SUBSET O
      PROVE  /\ SumFunctionOnSet(f, O) = SumFunctionOnSet(f, A) + SumFunctionOnSet(f, O \ A)
             /\ SumFunctionOnSet(f, A) \in Int /\ SumFunctionOnSet(f, O \ A) \in Int
  <2>1. PICK B : B = O \ A
    OBVIOUS
  <2>2. B \in SUBSET O /\ A \cap B = {} /\ A \cup B = O
    BY <2>1
  <2>3. SumFunctionOnSet(f, A \cup B) = SumFunctionOnSet(f, A) + SumFunctionOnSet(f, B)
    BY <2>2, SumUnion
  <2>4. \A T \in SUBSET O : SumFunctionOnSet(f, T) \in Int
    BY SumType
  <2>5. SumFunctionOnSet(f, O) = SumFunctionOnSet(f, A) + SumFunctionOnSet(f, B)
    BY <2>2, <2>3
  <2> QED BY <2>1, <2>2, <2>4, <2>5
<1>2. /\ SumFunctionOnSet(f, O) = SumFunctionOnSet(f, C) + SumFunctionOnSet(f, O \ C)
      /\ SumFunctionOnSet(f, C) \in Int /\ SumFunctionOnSet(f, O \ C) \in Int
  BY <1>1
<1>3. /\ SumFunctionOnSet(f, O) = SumFunctionOnSet(f, K) + SumFunctionOnSet(f, O \ K)
      /\ SumFunctionOnSet(f, K) \in Int /\ SumFunctionOnSet(f, O \ K) \in Int
  BY <1>1
<1> QED BY <1>2, <1>3

\* activity.rs and stats.rs: the deltas of an undisturbed history add up to the
\* balance and to the cells that are left, less what is older than the index,
\* for every index, labelling, page size and amounts.
THEOREM HistoriesMatch == Spec => []HistoryMatchesBalance
<1>1. ScrollInv /\ StoryInv /\ ToldInv => HistoryMatchesBalance
  <2> SUFFICES ASSUME ScrollInv, StoryInv, ToldInv, scroll.pc = "done", scroll.quiet,
                      NEW a \in Assets
               PROVE  LET mine   == {s \in labelled : OwnerOf[s] = scroll.address}
                          held   == OfAsset(AddressCells(mine, FALSE), a)
                          older  == {c \in RowsOf(a) : SealOf[c] \in mine /\ CreatedBy[c] = NoTx}
                          sum    == SumFunction([e \in scroll.entries |-> Delta(e, a).amount])
                          count  == SumFunction([e \in scroll.entries |-> Delta(e, a).cells])
                      IN  /\ sum = AddressBalance(mine, a, TRUE) - Total(older)
                          /\ count = Cardinality(held) - Cardinality(older)
                          /\ Total(held) = AddressBalance(mine, a, TRUE)
    BY DEF HistoryMatchesBalance
  <2> DEFINE mine == {s \in labelled : OwnerOf[s] = scroll.address}
             held == OfAsset(AddressCells(mine, FALSE), a)
             older == {c \in RowsOf(a) : SealOf[c] \in mine /\ CreatedBy[c] = NoTx}
             E == scroll.entries
             O == OfAsset(Owned(scroll.address), a)
             P == [e \in E |-> OfAsset(e.received, a)]
             N == [e \in E |-> OfAsset(e.sent, a)]
             C == {c \in O : CreatedBy[c] # NoTx}
             K == {c \in O : Consumed(c)}
             one == [c \in Cells |-> 1]
             amounts == [e \in E |-> Delta(e, a).amount]
             cells == [e \in E |-> Delta(e, a).cells]
  <2>1. O \in SUBSET Cells /\ IsFiniteSet(O)
    <3>1. O \in SUBSET Cells
      BY DEF OfAsset, Owned, CellRows
    <3> QED BY <3>1, ReadAssumption, FS_Subset
  <2>2. older = O \ C
    BY DEF OfAsset, Owned, RowsOf
  <2>3. held = O \ K
    BY DEF OfAsset, Owned, AddressCells, CellsBySeals
  <2>4. BalanceCells(mine, a, TRUE) = held
    BY DEF BalanceCells, Status, OfAsset, RowsOf, AddressCells, CellsBySeals
  <2>5. TellsAll(scroll.entries, scroll.address) /\ IsFiniteSet(E)
    BY ToldAll
  <2>6. Parts(E, P, N, O) /\ UNION {P[e] : e \in E} = C /\ UNION {N[e] : e \in E} = K
    <3>1. TypeInv
      BY DEF ScrollInv
    <3>2. TellsCells(scroll.entries, scroll.address, a)
      BY <2>5, <3>1, ToldCells
    <3> QED BY <3>2 DEF TellsCells
  <2>7. C \in SUBSET O /\ K \in SUBSET O
    OBVIOUS
  <2>8. /\ \A c \in O : Amount[c] \in Int
        /\ \A c \in O : one[c] = 1 /\ one[c] \in Int
    BY <2>1, ReadAssumption
  <2>9. \A T \in SUBSET O : Cardinality(T) = SumFunctionOnSet(one, T)
    <3> HIDE DEF O, one
    <3> QED BY <2>1, <2>8, CountIsSum
  <2>10. /\ DOMAIN amounts = E /\ DOMAIN cells = E
         /\ \A e \in E : amounts[e] = SumFunctionOnSet(Amount, P[e]) - SumFunctionOnSet(Amount, N[e])
    BY DEF Delta, Total
  <2>11. \A e \in E : cells[e] = SumFunctionOnSet(one, P[e]) - SumFunctionOnSet(one, N[e])
    <3> SUFFICES ASSUME NEW e \in E
                 PROVE  cells[e] = SumFunctionOnSet(one, P[e]) - SumFunctionOnSet(one, N[e])
      OBVIOUS
    <3>1. cells[e] = Cardinality(P[e]) - Cardinality(N[e])
      BY DEF Delta
    <3>2. P[e] \in SUBSET O /\ N[e] \in SUBSET O
      BY <2>6 DEF Parts
    <3> HIDE DEF P, N, O, one, cells
    <3> QED BY <2>9, <3>1, <3>2
  <2> HIDE DEF E, O, P, N, C, K, one, amounts, cells, mine, held, older
  <2>i. IsDelta(amounts, Amount, E, P, N) /\ IsDelta(cells, one, E, P, N)
    BY <2>10, <2>11 DEF IsDelta
  <2>12. SumFunctionOnSet(amounts, E) = SumFunctionOnSet(Amount, C) - SumFunctionOnSet(Amount, K)
    <3>1. SumFunctionOnSet(amounts, E) = SumFunctionOnSet(Amount, UNION {P[e] : e \in E})
                                        - SumFunctionOnSet(Amount, UNION {N[e] : e \in E})
      BY <2>1, <2>5, <2>6, <2>8, <2>i, SumDeltas
    <3> QED BY <2>6, <3>1
  <2>13. SumFunctionOnSet(cells, E) = SumFunctionOnSet(one, C) - SumFunctionOnSet(one, K)
    <3>1. SumFunctionOnSet(cells, E) = SumFunctionOnSet(one, UNION {P[e] : e \in E})
                                      - SumFunctionOnSet(one, UNION {N[e] : e \in E})
      BY <2>1, <2>5, <2>6, <2>8, <2>i, SumDeltas
    <3> QED BY <2>6, <3>1
  <2>14. SumFunctionOnSet(amounts, E) = Total(held) - Total(older)
    BY <2>1, <2>2, <2>3, <2>7, <2>8, <2>12, SplitTwice DEF Total
  <2>15. SumFunctionOnSet(cells, E) = Cardinality(held) - Cardinality(older)
    <3>1. SumFunctionOnSet(cells, E) = SumFunctionOnSet(one, held) - SumFunctionOnSet(one, older)
      BY <2>1, <2>2, <2>3, <2>7, <2>8, <2>13, SplitTwice
    <3>2. held \in SUBSET O /\ older \in SUBSET O
      BY <2>2, <2>3
    <3> QED BY <2>9, <3>1, <3>2
  <2>16. AddressBalance(mine, a, TRUE) = Total(held)
    BY <2>4 DEF AddressBalance
  <2>17. SumFunction(amounts) = SumFunctionOnSet(amounts, E) /\ SumFunction(cells) = SumFunctionOnSet(cells, E)
    BY <2>10 DEF SumFunction
  <2> QED BY <2>14, <2>15, <2>16, <2>17 DEF mine, held, older, amounts, cells, E
<1> QED BY <1>1, ToldAlways, PTL
=============================================================================
