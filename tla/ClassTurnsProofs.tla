-------------------------- MODULE ClassTurnsProofs --------------------------
(***************************************************************************)
(* One admission decision, for every policy: there is exactly one best     *)
(* class, the weights of the active classes have a sum, and the scores     *)
(* stay balanced (SettledBalanced).  Induction over finite sets is by a    *)
(* smallest counterexample (WFMin), because an induction theorem takes an  *)
(* operator.                                                               *)
(***************************************************************************)
EXTENDS ClassTurns, FiniteSetTheorems, TLAPS

\* A family of subsets of a finite set has a smallest member.
LEMMA SmallestSubset ==
    ASSUME NEW S, IsFiniteSet(S), NEW T, T \subseteq SUBSET S, T # {}
    PROVE  \E x \in T : \A y \in T : y \subseteq x => y = x
  <1>1. T \subseteq FiniteSubsetsOf(S)
    BY FS_FiniteSubsetsOfFinite
  <1>2. PICK x \in T : \A y \in T : ~ (<<y, x>> \in StrictSubsetOrdering(S))
    BY <1>1, WFMin, FS_StrictSubsetOrderingWellFounded, Zenon
  <1>3. ASSUME NEW y \in T, y \subseteq x PROVE y = x
    <2>1. x \in SUBSET S /\ y \in SUBSET S
      OBVIOUS
    <2> QED BY <1>2, <1>3, <2>1 DEF StrictSubsetOrdering
  <1> QED BY <1>3

LEMMA LargestSubset ==
    ASSUME NEW S, IsFiniteSet(S), NEW T, T \subseteq SUBSET S, T # {}
    PROVE  \E x \in T : \A y \in T : x \subseteq y => y = x
  <1> DEFINE U == {S \ x : x \in T}
  <1>1. PICK u \in U : \A y \in U : y \subseteq u => y = u
    <2>1. PICK x \in T : TRUE
      OBVIOUS
    <2>2. S \ x \in U
      BY <2>1
    <2>3. U \subseteq SUBSET S
      OBVIOUS
    <2> HIDE DEF U
    <2> QED BY <2>2, <2>3, SmallestSubset
  <1>2. PICK x \in T : u = S \ x
    OBVIOUS
  <1>3. ASSUME NEW y \in T, x \subseteq y PROVE y = x
    <2>1. S \ y \in U /\ S \ y \subseteq u
      BY <1>2, <1>3
    <2>2. S \ y = S \ x
      BY <1>1, <1>2, <2>1
    <2> QED BY <2>2
  <1> QED BY <1>3

\* Induction over the subsets of a finite set, one element at a time.
LEMMA SubsetInduction ==
    ASSUME NEW S, IsFiniteSet(S), NEW P \in SUBSET (SUBSET S), {} \in P,
           \A s \in SUBSET S : s # {} /\ (\A x \in s : s \ {x} \in P) => s \in P
    PROVE  P = SUBSET S
  <1> SUFFICES ASSUME (SUBSET S) \ P # {} PROVE FALSE
    OBVIOUS
  <1> DEFINE Bad == (SUBSET S) \ P
  <1>1. PICK s \in Bad : \A t \in Bad : t \subseteq s => t = s
    <2>1. Bad # {} /\ Bad \subseteq SUBSET S
      OBVIOUS
    <2> HIDE DEF Bad
    <2> QED BY <2>1, SmallestSubset
  <1>2. s # {}
    OBVIOUS
  <1>3. ASSUME NEW x \in s PROVE s \ {x} \in P
    <2>1. s \ {x} \in SUBSET S /\ s \ {x} \subseteq s /\ s \ {x} # s
      BY <1>3
    <2> QED BY <1>1, <2>1
  <1> QED BY <1>2, <1>3
-----------------------------------------------------------------------------
\* The order of max(active, key=...): by score, then by position.
Beats(credited, c, d) ==
    \/ credited[c] > credited[d]
    \/ credited[c] = credited[d] /\ Rank[c] < Rank[d]

LEMMA CreditedTyped ==
    ASSUME NEW scores \in [Classes -> Int], NEW active
    PROVE  Credited(scores, active) \in [Classes -> Int]
  BY ClassesAssumption DEF Credited

\* max() finds an active class, and no other active class beats it.
LEMMA ChosenActive ==
    ASSUME NEW scores \in [Classes -> Int],
           NEW active \in SUBSET Classes, active # {}
    PROVE  /\ Chosen(scores, active) \in active
           /\ \A d \in active \ {Chosen(scores, active)} :
                Beats(Credited(scores, active), Chosen(scores, active), d)
  <1> DEFINE credited == Credited(scores, active)
             Above(c) == {d \in active : Beats(credited, d, c)}
             T == {Above(c) : c \in active}
  <1>1. credited \in [Classes -> Int]
    BY CreditedTyped
  <1>2. IsFiniteSet(active)
    BY ClassesAssumption, FS_Subset
  <1>3. PICK x \in T : \A y \in T : y \subseteq x => y = x
    <2>1. T \subseteq SUBSET active /\ T # {}
      OBVIOUS
    <2> HIDE DEF T
    <2> QED BY <1>2, <2>1, SmallestSubset
  <1>4. PICK c \in active : x = Above(c)
    OBVIOUS
  <1>5. Above(c) = {}
    <2> SUFFICES ASSUME NEW d \in Above(c) PROVE FALSE
      OBVIOUS
    <2>1. d \in active /\ Beats(credited, d, c)
      OBVIOUS
    <2>2. Above(d) \subseteq Above(c)
      BY <1>1, <2>1, ClassesAssumption DEF Beats
    <2>3. d \notin Above(d)
      BY <1>1, <2>1, ClassesAssumption DEF Beats
    <2>4. Above(d) = Above(c)
      BY <1>3, <1>4, <2>1, <2>2
    <2> QED BY <2>3, <2>4
  <1>6. \A d \in active \ {c} : Beats(credited, c, d)
    BY <1>1, <1>5, ClassesAssumption DEF Beats
  <1>7. \E b \in active : \A d \in active \ {b} :
            \/ credited[b] > credited[d]
            \/ credited[b] = credited[d] /\ Rank[b] < Rank[d]
    BY <1>6, Zenon DEF Beats
  <1> QED BY <1>7, Zenon DEF Chosen, Beats
-----------------------------------------------------------------------------
Pick(s) == CHOOSE x \in s : TRUE
Summed(g, w, s) == IF s = {} THEN 0 ELSE w[Pick(s)] + g[s \ {Pick(s)}]

LEMMA PickMember ==
    ASSUME NEW s, s # {}
    PROVE  Pick(s) \in s
  BY DEF Pick

\* The recursive function by which MapThenSumSet adds up exists.
LEMMA SumFunctionExists ==
    ASSUME NEW S, IsFiniteSet(S), NEW w \in [S -> Int]
    PROVE  \E g \in [SUBSET S -> Int] : \A s \in SUBSET S : g[s] = Summed(g, w, s)
  <1> DEFINE Closed(D) == \A s \in D : s # {} => s \ {Pick(s)} \in D
             Sums(D, g) == \A s \in D : g[s] = Summed(g, w, s)
             F == {D \in SUBSET SUBSET S :
                    Closed(D) /\ \E g \in [D -> Int] : Sums(D, g)}
  <1>1. IsFiniteSet(SUBSET S)
    BY FS_SUBSET
  <1>2. F # {}
    <2>1. {} \in SUBSET SUBSET S /\ Closed({})
      OBVIOUS
    <2>2. [x \in {} |-> 0] \in [{} -> Int] /\ Sums({}, [x \in {} |-> 0])
      OBVIOUS
    <2>3. \E g \in [{} -> Int] : Sums({}, g)
      BY <2>2
    <2> QED BY <2>1, <2>3
  <1>3. PICK D \in F : \A E \in F : D \subseteq E => E = D
    <2>1. F \subseteq SUBSET SUBSET S
      OBVIOUS
    <2> HIDE DEF F
    <2> QED BY <1>1, <1>2, <2>1, LargestSubset
  <1>4. PICK g \in [D -> Int] : Sums(D, g)
    OBVIOUS
  <1>5. Closed(D) /\ D \subseteq SUBSET S
    OBVIOUS
  <1>6. ASSUME D # SUBSET S PROVE FALSE
    <2>1. PICK s \in (SUBSET S) \ D : \A t \in (SUBSET S) \ D : t \subseteq s => t = s
      <3> DEFINE Rest == (SUBSET S) \ D
      <3>1. Rest # {} /\ Rest \subseteq SUBSET S
        BY <1>5, <1>6
      <3> HIDE DEF Rest
      <3>2. \E s \in Rest : \A t \in Rest : t \subseteq s => t = s
        BY <3>1, SmallestSubset
      <3> QED BY <3>2 DEF Rest
    <2> DEFINE E == D \cup {s}
               h == [t \in E |-> IF t = s THEN Summed(g, w, s) ELSE g[t]]
    <2>2. s # {} => Pick(s) \in S /\ s \ {Pick(s)} \in D
      <3> SUFFICES ASSUME s # {} PROVE Pick(s) \in S /\ s \ {Pick(s)} \in D
        OBVIOUS
      <3>1. Pick(s) \in s
        BY PickMember
      <3>2. s \ {Pick(s)} \in SUBSET S /\ s \ {Pick(s)} # s /\ s \ {Pick(s)} \subseteq s
        BY <3>1
      <3> QED BY <2>1, <3>1, <3>2
    <2>3. Summed(g, w, s) \in Int
      BY <2>2 DEF Summed
    <2>4. h \in [E -> Int]
      BY <2>3
    <2>5. Closed(E)
      BY <1>5, <2>2
    <2>6. Sums(E, h)
      <3> SUFFICES ASSUME NEW t \in E PROVE h[t] = Summed(h, w, t)
        OBVIOUS
      <3>1. ASSUME NEW u \in D PROVE h[u] = g[u]
        <4>1. u \in E /\ u # s
          BY <2>1, <3>1
        <4> QED BY <4>1
      <3>2. CASE t = s
        <4>1. h[t] = Summed(g, w, s)
          BY <3>2
        <4>2. s # {} => h[s \ {Pick(s)}] = g[s \ {Pick(s)}]
          BY <2>2, <3>1
        <4> HIDE DEF h
        <4> QED BY <3>2, <4>1, <4>2 DEF Summed
      <3>3. CASE t \in D
        <4>1. h[t] = Summed(g, w, t)
          BY <1>4, <3>1, <3>3
        <4>2. t # {} => h[t \ {Pick(t)}] = g[t \ {Pick(t)}]
          BY <1>5, <3>1, <3>3
        <4> HIDE DEF h
        <4> QED BY <4>1, <4>2 DEF Summed
      <3> QED BY <3>2, <3>3
    <2>7. E \in SUBSET SUBSET S
      BY <1>5
    <2>8. E \in F
      <3> HIDE DEF E, h, Closed, Sums
      <3> QED BY <2>4, <2>5, <2>6, <2>7
    <2>9. E = D
      <3>1. D \subseteq E
        OBVIOUS
      <3> HIDE DEF E, F, h
      <3> QED BY <1>3, <2>8, <3>1
    <2> QED BY <2>1, <2>9
  <1>7. g \in [SUBSET S -> Int] /\ \A s \in SUBSET S : g[s] = Summed(g, w, s)
    <2> HIDE DEF F
    <2> QED BY <1>4, <1>6
  <1> QED BY <1>7

\* The sums of f over the sets of classes.
IsSum(g, f) ==
    /\ g \in [SUBSET Classes -> Int]
    /\ g[{}] = 0
    /\ \A s \in SUBSET Classes : \A x \in s : g[s] = f[x] + g[s \ {x}]
Sum(f) == CHOOSE g : IsSum(g, f)

\* Sums exist: the order in which the elements are taken makes no difference.
LEMMA SumExists ==
    ASSUME NEW f \in [Classes -> Int]
    PROVE  IsSum(Sum(f), f)
  <1>0. IsFiniteSet(Classes)
    BY ClassesAssumption
  <1>1. PICK g \in [SUBSET Classes -> Int] : \A s \in SUBSET Classes : g[s] = Summed(g, f, s)
    BY <1>0, SumFunctionExists, ZenonT(30)
  <1>2. g[{}] = 0
    BY <1>1 DEF Summed
  <1> DEFINE P == {s \in SUBSET Classes : \A x \in s : g[s] = f[x] + g[s \ {x}]}
  <1>3. ASSUME NEW s \in SUBSET Classes, s # {}, \A x \in s : s \ {x} \in P
        PROVE  s \in P
    <2> SUFFICES ASSUME NEW x \in s PROVE g[s] = f[x] + g[s \ {x}]
      OBVIOUS
    <2> DEFINE p == Pick(s)
    <2>1. p \in s /\ g[s] = f[p] + g[s \ {p}]
      BY <1>1, <1>3, PickMember DEF Summed
    <2> HIDE DEF p
    <2>2. CASE x = p
      BY <2>1, <2>2
    <2>3. CASE x # p
      <3>1. g[s \ {p}] = f[x] + g[(s \ {p}) \ {x}]
        BY <1>3, <2>1, <2>3
      <3>2. g[s \ {x}] = f[p] + g[(s \ {x}) \ {p}]
        BY <1>3, <2>1, <2>3
      <3> DEFINE rest == (s \ {p}) \ {x}
      <3>3. rest = (s \ {x}) \ {p} /\ rest \in SUBSET Classes
        OBVIOUS
      <3>4. f[x] \in Int /\ f[p] \in Int /\ g[rest] \in Int
        BY <2>1, <3>3
      <3>5. g[s \ {p}] = f[x] + g[rest] /\ g[s \ {x}] = f[p] + g[rest]
        BY <3>1, <3>2, <3>3
      <3> HIDE DEF rest, P
      <3> QED BY <2>1, <3>4, <3>5
    <2> QED BY <2>2, <2>3
  <1>4. P = SUBSET Classes
    <2>1. P \in SUBSET (SUBSET Classes) /\ {} \in P
      OBVIOUS
    <2> HIDE DEF P
    <2>2. \A s \in SUBSET Classes : s # {} /\ (\A x \in s : s \ {x} \in P) => s \in P
      BY <1>3, Zenon
    <2> QED BY <1>0, <2>1, <2>2, SubsetInduction, Zenon
  <1>5. IsSum(g, f)
    BY <1>2, <1>4 DEF IsSum
  <1> QED BY <1>5 DEF Sum

\* ActiveWeight, an operator of the community modules, is such a sum.
LEMMA ActiveWeightSum ==
    ASSUME NEW active \in SUBSET Classes
    PROVE  ActiveWeight(active) = Sum(Weight)[active]
  <1> DEFINE w == [c \in active |-> Weight[c]]
             Is(g) == g = [s \in SUBSET active |->
                            IF s = {} THEN 0
                            ELSE Weight[CHOOSE x \in s : TRUE]
                                    + g[s \ {CHOOSE x \in s : TRUE}]]
             sum == CHOOSE g : Is(g)
             total == [s \in SUBSET active |-> Sum(Weight)[s]]
  <1>1. Weight \in [Classes -> Int] /\ IsFiniteSet(active)
    BY ClassesAssumption, FS_Subset
  <1>2. IsSum(Sum(Weight), Weight)
    BY <1>1, SumExists
  <1>3. Is(total)
    <2> SUFFICES ASSUME NEW s \in SUBSET active
                 PROVE  total[s] = IF s = {} THEN 0
                                   ELSE Weight[Pick(s)] + total[s \ {Pick(s)}]
      BY Zenon DEF Pick
    <2>1. CASE s = {}
      BY <1>2, <2>1 DEF IsSum
    <2>2. CASE s # {}
      BY <1>2, <2>2, PickMember DEF IsSum
    <2> QED BY <2>1, <2>2
  <1>4. Is(sum)
    <2> HIDE DEF Is, total
    <2> QED BY <1>3
  <1>5. ActiveWeight(active) = sum[active]
    BY DEF ActiveWeight, MapThenSumSet, MapThenFoldSet
  <1> HIDE DEF sum
  <1> DEFINE P == {s \in SUBSET active : sum[s] = Sum(Weight)[s]}
  <1>6. ASSUME NEW s \in SUBSET active, s # {}, \A x \in s : s \ {x} \in P
        PROVE  s \in P
    <2>1. Pick(s) \in s
      BY <1>6, PickMember
    <2>2. sum[s] = Weight[Pick(s)] + sum[s \ {Pick(s)}]
      BY <1>4, <1>6 DEF Pick
    <2>3. sum[s \ {Pick(s)}] = Sum(Weight)[s \ {Pick(s)}]
      BY <1>6, <2>1
    <2> QED BY <1>2, <2>1, <2>2, <2>3 DEF IsSum
  <1>7. P = SUBSET active
    <2>1. P \in SUBSET (SUBSET active) /\ {} \in P
      BY <1>2, <1>4 DEF IsSum
    <2> HIDE DEF P
    <2> QED BY <1>1, <1>6, <2>1, SubsetInduction
  <1> QED BY <1>5, <1>7

\* A sum is an integer, and any element may be taken out first.
LEMMA SumTyped ==
    ASSUME NEW f \in [Classes -> Int], NEW s \in SUBSET Classes
    PROVE  Sum(f)[s] \in Int
  BY SumExists DEF IsSum

LEMMA SumTake ==
    ASSUME NEW f \in [Classes -> Int], NEW s \in SUBSET Classes, NEW x \in s
    PROVE  /\ Sum(f)[s] = f[x] + Sum(f)[s \ {x}]
           /\ Sum(f)[s \ {x}] \in Int /\ f[x] \in Int /\ Sum(f)[s] \in Int
  <1>1. IsSum(Sum(f), f)
    BY SumExists
  <1>2. s \ {x} \in SUBSET Classes /\ x \in Classes
    OBVIOUS
  <1> QED BY <1>1, <1>2 DEF IsSum

LEMMA SumEmpty ==
    ASSUME NEW f \in [Classes -> Int]
    PROVE  Sum(f)[{}] = 0
  BY SumExists DEF IsSum

\* A property of subsets of the classes, shown one element at a time.
LEMMA ClassInduction ==
    ASSUME NEW P \in SUBSET (SUBSET Classes), {} \in P,
           \A s \in SUBSET Classes : s # {} /\ (\A x \in s : s \ {x} \in P) => s \in P
    PROVE  P = SUBSET Classes
  BY ClassesAssumption, SubsetInduction, Zenon

\* The weights of the active classes have a sum.
LEMMA WeightSum ==
    ASSUME NEW active \in SUBSET Classes
    PROVE  /\ ActiveWeight(active) \in Nat
           /\ active # {} => ActiveWeight(active) > 0
  <1> DEFINE P == {s \in SUBSET Classes :
                    Sum(Weight)[s] \in Nat /\ (s # {} => Sum(Weight)[s] > 0)}
  <1>1. Weight \in [Classes -> Int]
    BY ClassesAssumption
  <1>2. {} \in P
    BY <1>1, SumEmpty
  <1>3. ASSUME NEW s \in SUBSET Classes, s # {}, \A x \in s : s \ {x} \in P
        PROVE  s \in P
    <2>1. PICK x \in s : TRUE
      BY <1>3
    <2>2. Sum(Weight)[s] = Weight[x] + Sum(Weight)[s \ {x}]
      BY <1>1, <2>1, SumTake
    <2>3. Sum(Weight)[s \ {x}] \in Nat
      BY <1>3, <2>1
    <2>4. Weight[x] \in Nat \ {0}
      BY <2>1, ClassesAssumption
    <2> QED BY <2>2, <2>3, <2>4
  <1>4. P = SUBSET Classes
    <2> HIDE DEF P
    <2>1. P \in SUBSET (SUBSET Classes)
      BY DEF P
    <2>2. \A s \in SUBSET Classes : s # {} /\ (\A x \in s : s \ {x} \in P) => s \in P
      BY <1>3, Zenon
    <2> QED BY <1>2, <2>1, <2>2, ClassInduction, Zenon
  <1> QED BY <1>4, ActiveWeightSum

LEMMA SettledTyped ==
    ASSUME NEW scores \in [Classes -> Int], NEW active \in SUBSET Classes
    PROVE  Settled(scores, active) \in [Classes -> Int]
  <1>1. Credited(scores, active) \in [Classes -> Int] /\ ActiveWeight(active) \in Int
    BY CreditedTyped, WeightSum
  <1> DEFINE credited == Credited(scores, active)
             chosen == Chosen(scores, active)
             weight == ActiveWeight(active)
  <1>2. Settled(scores, active) = [credited EXCEPT ![chosen] = credited[chosen] - weight]
    BY DEF Settled
  <1>3. credited \in [Classes -> Int] /\ weight \in Int
    BY <1>1
  <1> HIDE DEF credited, chosen, weight
  <1>4. [credited EXCEPT ![chosen] = credited[chosen] - weight] \in [Classes -> Int]
    <2>1. CASE chosen \in Classes
      BY <1>3, <2>1
    <2>2. CASE chosen \notin Classes
      <3>1. [credited EXCEPT ![chosen] = credited[chosen] - weight] = credited
        BY <1>3, <2>2
      <3> QED BY <1>3, <3>1
    <2> QED BY <2>1, <2>2
  <1> QED BY <1>2, <1>4
-----------------------------------------------------------------------------
\* A sum of terms of which none is above top.
LEMMA SumAtMost ==
    ASSUME NEW f \in [Classes -> Int], NEW top \in Int, NEW s \in SUBSET Classes,
           \A x \in s : f[x] <= top
    PROVE  Sum(f)[s] <= Cardinality(s) * top
  <1> DEFINE P == {t \in SUBSET Classes : t \subseteq s => Sum(f)[t] <= Cardinality(t) * top}
  <1>1. {} \in P
    BY SumEmpty, FS_EmptySet
  <1>2. ASSUME NEW t \in SUBSET Classes, t # {}, \A x \in t : t \ {x} \in P
        PROVE  t \in P
    <2> SUFFICES ASSUME t \subseteq s PROVE Sum(f)[t] <= Cardinality(t) * top
      OBVIOUS
    <2>1. PICK x \in t : TRUE
      BY <1>2
    <2>2. Sum(f)[t] = f[x] + Sum(f)[t \ {x}] /\ Sum(f)[t \ {x}] \in Int /\ f[x] \in Int
      BY <2>1, SumTake
    <2>3. Sum(f)[t \ {x}] <= Cardinality(t \ {x}) * top
      BY <1>2, <2>1
    <2>4. IsFiniteSet(t)
      BY ClassesAssumption, FS_Subset
    <2>5. Cardinality(t) \in Nat /\ Cardinality(t \ {x}) = Cardinality(t) - 1
      BY <2>1, <2>4, FS_CardinalityType, FS_RemoveElement
    <2>6. f[x] <= top
      BY <2>1
    <2> DEFINE m == Cardinality(t)
    <2>7. (m - 1) * top + top = m * top
      BY <2>5
    <2> QED BY <2>2, <2>3, <2>5, <2>6, <2>7
  <1>3. P = SUBSET Classes
    <2> HIDE DEF P
    <2>1. P \in SUBSET (SUBSET Classes)
      BY DEF P
    <2>2. \A t \in SUBSET Classes : t # {} /\ (\A x \in t : t \ {x} \in P) => t \in P
      BY <1>2, Zenon
    <2> QED BY <1>1, <2>1, <2>2, ClassInduction, Zenon
  <1> QED BY <1>3

\* Sums over disjoint sets add up.
LEMMA SumUnion ==
    ASSUME NEW f \in [Classes -> Int],
           NEW s \in SUBSET Classes, NEW t \in SUBSET Classes, s \cap t = {}
    PROVE  Sum(f)[s \cup t] = Sum(f)[s] + Sum(f)[t]
  <1> DEFINE P == {u \in SUBSET Classes :
                    u \subseteq t => Sum(f)[s \cup u] = Sum(f)[s] + Sum(f)[u]}
  <1>1. {} \in P
    BY SumEmpty, SumTyped
  <1>2. ASSUME NEW u \in SUBSET Classes, u # {}, \A x \in u : u \ {x} \in P
        PROVE  u \in P
    <2> SUFFICES ASSUME u \subseteq t PROVE Sum(f)[s \cup u] = Sum(f)[s] + Sum(f)[u]
      OBVIOUS
    <2>1. PICK x \in u : TRUE
      BY <1>2
    <2>2. Sum(f)[u] = f[x] + Sum(f)[u \ {x}] /\ Sum(f)[u \ {x}] \in Int /\ f[x] \in Int
      BY <2>1, SumTake
    <2>3. Sum(f)[s \cup u] = f[x] + Sum(f)[(s \cup u) \ {x}]
      BY <2>1, SumTake
    <2>4. (s \cup u) \ {x} = s \cup (u \ {x})
      BY <2>1
    <2>5. Sum(f)[s \cup (u \ {x})] = Sum(f)[s] + Sum(f)[u \ {x}]
      BY <1>2, <2>1
    <2>6. Sum(f)[s] \in Int
      BY SumTyped
    <2>7. Sum(f)[s \cup u] = f[x] + (Sum(f)[s] + Sum(f)[u \ {x}])
      BY <2>3, <2>4, <2>5, Zenon
    <2> HIDE DEF P
    <2> QED BY <2>2, <2>6, <2>7
  <1>3. P = SUBSET Classes
    <2> HIDE DEF P
    <2>1. P \in SUBSET (SUBSET Classes)
      BY DEF P
    <2>2. \A u \in SUBSET Classes : u # {} /\ (\A x \in u : u \ {x} \in P) => u \in P
      BY <1>2, Zenon
    <2> QED BY <1>1, <2>1, <2>2, ClassInduction, Zenon
  <1> QED BY <1>3

\* Sums of functions add up too.
LEMMA SumPlus ==
    ASSUME NEW f \in [Classes -> Int], NEW g \in [Classes -> Int],
           NEW h \in [Classes -> Int], NEW s \in SUBSET Classes,
           \A x \in s : h[x] = f[x] + g[x]
    PROVE  Sum(h)[s] = Sum(f)[s] + Sum(g)[s]
  <1> DEFINE P == {t \in SUBSET Classes :
                    t \subseteq s => Sum(h)[t] = Sum(f)[t] + Sum(g)[t]}
  <1>1. {} \in P
    BY SumEmpty
  <1>2. ASSUME NEW t \in SUBSET Classes, t # {}, \A x \in t : t \ {x} \in P
        PROVE  t \in P
    <2> SUFFICES ASSUME t \subseteq s PROVE Sum(h)[t] = Sum(f)[t] + Sum(g)[t]
      OBVIOUS
    <2>1. PICK x \in t : TRUE
      BY <1>2
    <2>2. /\ Sum(f)[t] = f[x] + Sum(f)[t \ {x}] /\ Sum(f)[t \ {x}] \in Int /\ f[x] \in Int
          /\ Sum(g)[t] = g[x] + Sum(g)[t \ {x}] /\ Sum(g)[t \ {x}] \in Int /\ g[x] \in Int
          /\ Sum(h)[t] = h[x] + Sum(h)[t \ {x}]
      BY <2>1, SumTake
    <2>3. Sum(h)[t \ {x}] = Sum(f)[t \ {x}] + Sum(g)[t \ {x}]
      BY <1>2, <2>1
    <2>4. h[x] = f[x] + g[x]
      BY <2>1
    <2> HIDE DEF P
    <2> QED BY <2>2, <2>3, <2>4
  <1>3. P = SUBSET Classes
    <2> HIDE DEF P
    <2>1. P \in SUBSET (SUBSET Classes)
      BY DEF P
    <2>2. \A t \in SUBSET Classes : t # {} /\ (\A x \in t : t \ {x} \in P) => t \in P
      BY <1>2, Zenon
    <2> QED BY <1>1, <2>1, <2>2, ClassInduction, Zenon
  <1> QED BY <1>3

\* The weights of some of the active classes are between none and all of theirs.
LEMMA WeightsWithin ==
    ASSUME NEW s \in SUBSET Classes, NEW t \in SUBSET Classes, s \subseteq t
    PROVE  /\ ActiveWeight(s) \in Nat /\ ActiveWeight(t) \in Nat
           /\ ActiveWeight(s) <= ActiveWeight(t)
  <1>1. ActiveWeight(s) \in Nat /\ ActiveWeight(t) \in Nat /\ ActiveWeight(t \ s) \in Nat
    BY WeightSum
  <1>2. Weight \in [Classes -> Int]
    BY ClassesAssumption
  <1>3. Sum(Weight)[s \cup (t \ s)] = Sum(Weight)[s] + Sum(Weight)[t \ s]
    BY <1>2, SumUnion
  <1>4. s \cup (t \ s) = t
    OBVIOUS
  <1>5. ActiveWeight(t) = ActiveWeight(s) + ActiveWeight(t \ s)
    BY <1>3, <1>4, ActiveWeightSum
  <1> QED BY <1>1, <1>5

\* Zeros add nothing; functions that agree on a set have one sum over it.
LEMMA SumNothing ==
    ASSUME NEW f \in [Classes -> Int], NEW s \in SUBSET Classes, \A x \in s : f[x] = 0
    PROVE  Sum(f)[s] = 0
  <1>1. Sum(f)[s] = Sum(f)[s] + Sum(f)[s]
    <2>1. \A x \in s : f[x] = f[x] + f[x]
      OBVIOUS
    <2> QED BY <2>1, SumPlus
  <1> QED BY <1>1, SumTyped

LEMMA SumAgree ==
    ASSUME NEW f \in [Classes -> Int], NEW g \in [Classes -> Int],
           NEW s \in SUBSET Classes, \A x \in s : f[x] = g[x]
    PROVE  Sum(f)[s] = Sum(g)[s]
  <1> DEFINE rest == [x \in Classes |-> g[x] - f[x]]
  <1>1. rest \in [Classes -> Int]
    OBVIOUS
  <1>2. (\A x \in s : rest[x] = 0) /\ (\A x \in s : g[x] = f[x] + rest[x])
    OBVIOUS
  <1> HIDE DEF rest
  <1>3. Sum(rest)[s] = 0
    BY <1>1, <1>2, SumNothing
  <1>4. Sum(g)[s] = Sum(f)[s] + Sum(rest)[s]
    BY <1>1, <1>2, SumPlus
  <1> QED BY <1>3, <1>4, SumTyped
-----------------------------------------------------------------------------
\* How far from zero, in halves of the weight of all n classes, the scores of k
\* of them together may be.  It grows with k, and its second difference is -2:
\* CapUpper and CapLower are what a decision needs of it.
Cap(n, k) == k * ((2 * n - 1) - k)

LEMMA CapGrows ==
    ASSUME NEW n \in Nat, NEW k \in 0 .. n, NEW j \in 0 .. k
    PROVE  Cap(n, j) \in Nat /\ Cap(n, j) <= Cap(n, k)
  <1>1. Cap(n, k) - Cap(n, j) = (k - j) * ((2 * n - 1) - (k + j))
    BY DEF Cap
  <1>2. CASE j = k
    <2>1. CASE k = 0
      BY <1>2, <2>1 DEF Cap
    <2>2. CASE k > 0
      <3>1. (2 * n - 1) - k \in Nat
        BY <2>2
      <3> DEFINE d == (2 * n - 1) - k
      <3> HIDE DEF d
      <3>2. k * d \in Nat
        BY <3>1 DEF d
      <3> QED BY <1>2, <3>2 DEF Cap, d
    <2> QED BY <2>1, <2>2
  <1>3. CASE j < k
    <2> DEFINE a == k - j
               b == (2 * n - 1) - (k + j)
               d == (2 * n - 1) - j
    <2>1. a \in Nat /\ b \in Nat /\ d \in Nat
      BY <1>3
    <2> HIDE DEF a, b, d
    <2>2. a * b \in Nat /\ j * d \in Nat
      BY <2>1
    <2>3. Cap(n, k) - Cap(n, j) = a * b /\ Cap(n, j) = j * d
      BY <1>1 DEF a, b, d, Cap
    <2>4. Cap(n, j) \in Int /\ Cap(n, k) \in Int
      BY DEF Cap
    <2> HIDE DEF Cap
    <2> QED BY <2>2, <2>3, <2>4
  <1> QED BY <1>2, <1>3

LEMMA CapUpper ==
    ASSUME NEW n \in Nat, NEW k \in Nat, k >= 1
    PROVE  k * (Cap(n, k + 1) + 2) <= (k + 1) * Cap(n, k)
  <1>1. (k + 1) * Cap(n, k) - k * (Cap(n, k + 1) + 2) = k * (k - 1)
    BY DEF Cap
  <1>2. k * (k - 1) \in Nat
    <2>1. k - 1 \in Nat
      OBVIOUS
    <2> DEFINE d == k - 1
    <2> HIDE DEF d
    <2>2. k * d \in Nat
      BY <2>1 DEF d
    <2> QED BY <2>2 DEF d
  <1>3. (k + 1) * Cap(n, k) \in Int /\ k * (Cap(n, k + 1) + 2) \in Int
    BY DEF Cap
  <1> DEFINE x == (k + 1) * Cap(n, k)
             y == k * (Cap(n, k + 1) + 2)
             z == k * (k - 1)
  <1> HIDE DEF x, y, z
  <1>4. x - y = z /\ z \in Nat /\ x \in Int /\ y \in Int
    BY <1>1, <1>2, <1>3 DEF x, y, z
  <1>5. y <= x
    BY <1>4
  <1> QED BY <1>5 DEF x, y

LEMMA CapLower ==
    ASSUME NEW n \in Nat, NEW k \in Nat, NEW m \in Nat, m >= 1
    PROVE  m * Cap(n, k - 1) + Cap(n, k + m) + 2 * m <= (m + 1) * Cap(n, k)
  <1>1. (m + 1) * Cap(n, k) - (m * Cap(n, k - 1) + Cap(n, k + m) + 2 * m) = m * (m - 1)
    BY DEF Cap
  <1>2. m * (m - 1) \in Nat
    <2>1. m - 1 \in Nat
      OBVIOUS
    <2> DEFINE d == m - 1
    <2> HIDE DEF d
    <2>2. m * d \in Nat
      BY <2>1 DEF d
    <2> QED BY <2>2 DEF d
  <1> DEFINE x == (m + 1) * Cap(n, k)
             y == m * Cap(n, k - 1) + Cap(n, k + m) + 2 * m
             z == m * (m - 1)
  <1>3. x \in Int /\ y \in Int
    BY DEF Cap
  <1> HIDE DEF x, y, z
  <1>4. x - y = z /\ z \in Nat /\ x \in Int /\ y \in Int
    BY <1>1, <1>2, <1>3 DEF x, y, z
  <1>5. y <= x
    BY <1>4
  <1> QED BY <1>5 DEF x, y

\* Inequalities between products.
LEMMA Cancel ==
    ASSUME NEW p \in Nat, p >= 1, NEW x \in Int, NEW y \in Int, p * x <= p * y
    PROVE  x <= y
  <1> SUFFICES ASSUME y + 1 <= x PROVE FALSE
    OBVIOUS
  <1> DEFINE d == x - y
  <1>1. p * x = p * y + p * d
    OBVIOUS
  <1>2. d >= 1 /\ d \in Int
    OBVIOUS
  <1> HIDE DEF d
  <1>3. p * d >= 1
    BY <1>2
  <1>4. p * y \in Int /\ p * x \in Int /\ p * d \in Int
    BY <1>2
  <1> QED BY <1>1, <1>3, <1>4

LEMMA Scaled ==
    ASSUME NEW w \in Nat, NEW x \in Int, NEW y \in Int, x <= y
    PROVE  x * w <= y * w
  <1> DEFINE d == y - x
  <1>1. d \in Nat
    OBVIOUS
  <1>2. y * w = x * w + d * w
    OBVIOUS
  <1> HIDE DEF d
  <1>3. d * w \in Nat
    BY <1>1
  <1> DEFINE a == x * w
             b == y * w
             c == d * w
  <1>4. a \in Int /\ b \in Int /\ c \in Nat /\ b = a + c
    BY <1>2, <1>3
  <1> HIDE DEF a, b, c
  <1>5. a <= b
    BY <1>4
  <1> QED BY <1>5 DEF a, b

\* x: the credited sum of k classes, none above z, that of the chosen class.
LEMMA UpperStep ==
    ASSUME NEW n \in Nat, NEW w \in Nat, NEW k \in Nat, k >= 1,
           NEW x \in Int, NEW z \in Int, x <= k * z,
           2 * (x + z) <= Cap(n, k + 1) * w + 2 * w
    PROVE  2 * x <= Cap(n, k) * w
  <1> DEFINE lo == Cap(n, k)
             hi == Cap(n, k + 1)
  <1>1. lo \in Int /\ hi \in Int
    BY DEF Cap
  <1>2. k * (hi + 2) <= (k + 1) * lo
    BY CapUpper
  <1> HIDE DEF lo, hi
  <1>3. (k * (hi + 2)) * w <= ((k + 1) * lo) * w
    BY <1>1, <1>2, Scaled
  <1>4. k * (2 * (x + z)) <= k * (hi * w + 2 * w)
    <2> DEFINE a == 2 * (x + z)
               b == hi * w + 2 * w
    <2>1. a \in Int /\ b \in Int /\ a <= b
      BY <1>1 DEF hi
    <2> HIDE DEF a, b
    <2>2. a * k <= b * k
      BY <2>1, Scaled
    <2>3. k * a <= k * b
      BY <2>1, <2>2
    <2> QED BY <2>3 DEF a, b
  <1>5. (k + 1) * (2 * x) <= (k + 1) * (lo * w)
    <2> DEFINE kx == k * x
               kz == k * z
               khw == (k * hi) * w
               kw == k * w
               klw == (k * lo) * w
               lw == lo * w
    <2>1. kx \in Int /\ kz \in Int /\ khw \in Int /\ kw \in Int /\ klw \in Int /\ lw \in Int
      BY <1>1
    <2>2. khw + 2 * kw <= klw + lw
      BY <1>1, <1>3
    <2>3. 2 * kx + 2 * kz <= khw + 2 * kw
      BY <1>1, <1>4
    <2>4. x <= kz
      OBVIOUS
    <2>5. (k + 1) * (2 * x) = 2 * kx + 2 * x /\ (k + 1) * (lo * w) = klw + lw
      BY <1>1
    <2> HIDE DEF kx, kz, khw, kw, klw, lw
    <2> QED BY <2>1, <2>2, <2>3, <2>4, <2>5
  <1>6. 2 * x \in Int /\ lo * w \in Int /\ k + 1 \in Nat /\ k + 1 >= 1
    BY <1>1
  <1>7. 2 * x <= lo * w
    BY <1>5, <1>6, Cancel
  <1> QED BY <1>7 DEF lo

\* r: the credited sum of the k - 1 other classes, z: that of the chosen one,
\* v: that of m more, none of them above z; a: what the chosen class pays.
LEMMA LowerStep ==
    ASSUME NEW n \in Nat, NEW w \in Nat, NEW a \in Nat, a <= w,
           NEW k \in Nat, k >= 1, NEW m \in Nat, m >= 1,
           NEW r \in Int, NEW z \in Int, NEW v \in Int, v <= m * z,
           -(Cap(n, k - 1) * w) <= 2 * r,
           -(Cap(n, k + m) * w) + 2 * a <= 2 * (r + z + v)
    PROVE  -(Cap(n, k) * w) <= 2 * (r + z - a)
  <1> DEFINE lo == Cap(n, k - 1)
             mid == Cap(n, k)
             hi == Cap(n, k + m)
  <1>1. lo \in Int /\ mid \in Int /\ hi \in Int
    BY DEF Cap
  <1>2. m * lo + hi + 2 * m <= (m + 1) * mid
    BY CapLower
  <1>3. -(lo * w) <= 2 * r /\ -(hi * w) + 2 * a <= 2 * (r + z + v)
    OBVIOUS
  <1> HIDE DEF lo, mid, hi
  <1>4. (m * lo + hi + 2 * m) * w <= ((m + 1) * mid) * w
    <2>1. m * lo + hi + 2 * m \in Int /\ (m + 1) * mid \in Int
      BY <1>1
    <2> QED BY <1>2, <2>1, Scaled
  <1>5. m * (-(lo * w)) <= m * (2 * r)
    <2> DEFINE b == -(lo * w)
               c == 2 * r
    <2>1. b \in Int /\ c \in Int /\ b <= c
      BY <1>1, <1>3
    <2> HIDE DEF b, c
    <2>2. b * m <= c * m
      BY <2>1, Scaled
    <2>3. m * b <= m * c
      BY <2>1, <2>2
    <2> QED BY <2>3 DEF b, c
  <1>6. a * m <= w * m
    BY Scaled
  <1>7. (m + 1) * (-(mid * w)) <= (m + 1) * (2 * (r + z - a))
    <2> DEFINE mlw == (m * lo) * w
               hw == hi * w
               mw == m * w
               mdw == (m * mid) * w
               dw == mid * w
               mr == m * r
               mz == m * z
               ma == m * a
    <2>1. /\ mlw \in Int /\ hw \in Int /\ mw \in Int /\ mdw \in Int /\ dw \in Int
          /\ mr \in Int /\ mz \in Int /\ ma \in Int
      BY <1>1
    <2>2. mlw + hw + 2 * mw <= mdw + dw
      BY <1>1, <1>4
    <2>3. -mlw <= 2 * mr
      BY <1>1, <1>5
    <2>4. ma <= mw
      BY <1>6
    <2>5. v <= mz
      OBVIOUS
    <2>6. -hw + 2 * a <= 2 * (r + z + v)
      BY <1>3
    <2>7. (m + 1) * (-(mid * w)) = -mdw - dw
      BY <1>1
    <2>8. (m + 1) * (2 * (r + z - a)) = 2 * mr + 2 * mz - 2 * ma + 2 * (r + z - a)
      OBVIOUS
    <2> HIDE DEF mlw, hw, mw, mdw, dw, mr, mz, ma
    <2> QED BY <2>1, <2>2, <2>3, <2>4, <2>5, <2>6, <2>7, <2>8
  <1>8. -(mid * w) \in Int /\ 2 * (r + z - a) \in Int /\ m + 1 \in Nat /\ m + 1 >= 1
    BY <1>1
  <1>9. -(mid * w) <= 2 * (r + z - a)
    BY <1>7, <1>8, Cancel
  <1> QED BY <1>9 DEF mid
-----------------------------------------------------------------------------
\* The scores of any k classes together are near zero.  One class alone is not
\* inductive: what the chosen class has left depends on what the others had.
Bound(k) == Cap(Cardinality(Classes), k) * ActiveWeight(Classes)
Balanced(scores) ==
    \A s \in SUBSET Classes :
        /\ -Bound(Cardinality(s)) <= 2 * Sum(scores)[s]
        /\ 2 * Sum(scores)[s] <= Bound(Cardinality(s))

LEMMA Sizes ==
    ASSUME NEW s \in SUBSET Classes
    PROVE  /\ IsFiniteSet(s) /\ Cardinality(s) \in 0 .. Cardinality(Classes)
           /\ Cardinality(Classes) \in Nat
           /\ s # {} => Cardinality(s) >= 1
  <1>1. IsFiniteSet(Classes) /\ IsFiniteSet(s) /\ Cardinality(s) <= Cardinality(Classes)
    BY ClassesAssumption, FS_Subset
  <1>2. Cardinality(s) \in Nat /\ Cardinality(Classes) \in Nat
    BY <1>1, FS_CardinalityType
  <1>3. s # {} => Cardinality(s) # 0
    BY <1>1, FS_EmptySet
  <1> QED BY <1>1, <1>2, <1>3

LEMMA BoundGrows ==
    ASSUME NEW k \in 0 .. Cardinality(Classes), NEW j \in 0 .. k
    PROVE  Bound(j) \in Nat /\ Bound(k) \in Nat /\ Bound(j) <= Bound(k)
  <1> DEFINE n == Cardinality(Classes)
             w == ActiveWeight(Classes)
  <1>1. n \in Nat /\ w \in Nat
    BY Sizes, WeightSum
  <1> HIDE DEF w
  <1> DEFINE a == Cap(n, j)
             b == Cap(n, k)
  <1>2. a \in Nat /\ b \in Nat /\ a <= b
    <2> HIDE DEF n
    <2>1. k \in 0 .. n /\ k \in 0 .. k
      BY <1>1 DEF n
    <2> QED BY <1>1, <2>1, CapGrows
  <1> HIDE DEF a, b
  <1>3. a * w <= b * w
    BY <1>1, <1>2, Scaled
  <1>4. a * w \in Nat /\ b * w \in Nat
    BY <1>1, <1>2
  <1>5. Bound(j) = a * w /\ Bound(k) = b * w
    BY DEF Bound, a, b, w
  <1> QED BY <1>3, <1>4, <1>5

\* What one decision does to the score of each class.
LEMMA SettledScores ==
    ASSUME NEW scores \in [Classes -> Int], NEW active \in SUBSET Classes, active # {},
           NEW credited, credited = Credited(scores, active),
           NEW settled, settled = Settled(scores, active),
           NEW chosen, chosen = Chosen(scores, active)
    PROVE  /\ credited \in [Classes -> Int] /\ settled \in [Classes -> Int]
           /\ chosen \in active
           /\ \A c \in active : /\ credited[c] = scores[c] + Weight[c]
                                /\ credited[c] <= credited[chosen]
           /\ \A c \in Classes \ {chosen} : settled[c] = credited[c]
           /\ \A c \in Classes \ active : settled[c] = 0
           /\ settled[chosen] = credited[chosen] - ActiveWeight(active)
  <1>1. credited \in [Classes -> Int] /\ settled \in [Classes -> Int]
    BY CreditedTyped, SettledTyped
  <1>2. chosen \in active /\ \A d \in active \ {chosen} : Beats(credited, chosen, d)
    BY ChosenActive
  <1>3. settled = [credited EXCEPT ![chosen] = credited[chosen] - ActiveWeight(active)]
    BY DEF Settled
  <1>4. \A c \in active : credited[c] = scores[c] + Weight[c]
    BY DEF Credited
  <1>5. \A c \in Classes \ active : credited[c] = 0
    BY DEF Credited
  <1>6. \A c \in active : credited[c] <= credited[chosen]
    <2> SUFFICES ASSUME NEW c \in active PROVE credited[c] <= credited[chosen]
      OBVIOUS
    <2>1. credited[c] \in Int /\ credited[chosen] \in Int
      BY <1>1, <1>2
    <2>2. c # chosen => credited[chosen] > credited[c] \/ credited[chosen] = credited[c]
      BY <1>2 DEF Beats
    <2> QED BY <2>1, <2>2
  <1>7. \A c \in Classes \ {chosen} : settled[c] = credited[c]
    BY <1>1, <1>3
  <1>8. settled[chosen] = credited[chosen] - ActiveWeight(active)
    BY <1>1, <1>2, <1>3
  <1>9. \A c \in Classes \ active : settled[c] = 0
    BY <1>2, <1>5, <1>7
  <1> QED BY <1>1, <1>2, <1>4, <1>6, <1>7, <1>8, <1>9

\* The classes that are idle add nothing, and the bound grows with the set.
LEMMA ActiveSuffices ==
    ASSUME NEW settled \in [Classes -> Int], NEW active \in SUBSET Classes,
           \A c \in Classes \ active : settled[c] = 0,
           \A u \in SUBSET active :
                /\ -Bound(Cardinality(u)) <= 2 * Sum(settled)[u]
                /\ 2 * Sum(settled)[u] <= Bound(Cardinality(u))
    PROVE  Balanced(settled)
  <1> SUFFICES ASSUME NEW s \in SUBSET Classes
               PROVE  /\ -Bound(Cardinality(s)) <= 2 * Sum(settled)[s]
                      /\ 2 * Sum(settled)[s] <= Bound(Cardinality(s))
    BY DEF Balanced
  <1> DEFINE u == s \cap active
             v == s \ active
  <1>1. u \in SUBSET active /\ u \in SUBSET Classes /\ v \in SUBSET Classes /\ u \cap v = {}
        /\ s = u \cup v /\ u \in SUBSET s
    OBVIOUS
  <1>2. Sum(settled)[v] = 0
    BY SumNothing
  <1> HIDE DEF u, v
  <1>3. Sum(settled)[u \cup v] = Sum(settled)[u] + Sum(settled)[v]
    BY <1>1, SumUnion
  <1>4. Sum(settled)[s] = Sum(settled)[u] /\ Sum(settled)[u] \in Int
    BY <1>1, <1>2, <1>3, SumTyped
  <1>5. Cardinality(u) <= Cardinality(s)
    BY <1>1, Sizes, FS_Subset
  <1>6. Cardinality(s) \in 0 .. Cardinality(Classes) /\ Cardinality(u) \in 0 .. Cardinality(s)
    BY <1>1, <1>5, Sizes
  <1>7. /\ Bound(Cardinality(u)) \in Nat /\ Bound(Cardinality(s)) \in Nat
        /\ Bound(Cardinality(u)) <= Bound(Cardinality(s))
    BY <1>6, BoundGrows
  <1>8. /\ -Bound(Cardinality(u)) <= 2 * Sum(settled)[u]
        /\ 2 * Sum(settled)[u] <= Bound(Cardinality(u))
    BY <1>1
  <1> QED BY <1>4, <1>7, <1>8

\* A decision keeps the scores balanced.  A set of active classes without the
\* chosen one earns; what it then has is at most its part of what it has with
\* the chosen one, which has most.  A set with the chosen one pays more than it
\* earns, unless it is all of the active classes; what it is left with is at
\* least what the chosen one had, which is no less than that of the others.
LEMMA SettledBalanced ==
    ASSUME NEW scores \in [Classes -> Int], Balanced(scores),
           NEW active \in SUBSET Classes, active # {}
    PROVE  Balanced(Settled(scores, active))
  <1> DEFINE n == Cardinality(Classes)
             w == ActiveWeight(Classes)
             a == ActiveWeight(active)
             credited == Credited(scores, active)
             settled == Settled(scores, active)
             d == Chosen(scores, active)
  <1>1. /\ credited \in [Classes -> Int] /\ settled \in [Classes -> Int]
        /\ d \in active
        /\ \A c \in active : /\ credited[c] = scores[c] + Weight[c]
                             /\ credited[c] <= credited[d]
        /\ \A c \in Classes \ {d} : settled[c] = credited[c]
        /\ \A c \in Classes \ active : settled[c] = 0
        /\ settled[d] = credited[d] - a
    BY SettledScores
  <1> HIDE DEF credited, settled, d
  <1>2. n \in Nat /\ w \in Nat /\ a \in Nat /\ a <= w
    BY Sizes, WeightsWithin
  <1>3. ASSUME NEW u \in SUBSET active
        PROVE  /\ Sum(credited)[u] = Sum(scores)[u] + ActiveWeight(u)
               /\ Sum(scores)[u] \in Int /\ Sum(credited)[u] \in Int
               /\ ActiveWeight(u) \in Nat /\ ActiveWeight(u) <= a
               /\ -Bound(Cardinality(u)) <= 2 * Sum(scores)[u]
               /\ 2 * Sum(scores)[u] <= Bound(Cardinality(u))
               /\ Bound(Cardinality(u)) \in Int
               /\ u \in SUBSET Classes
    <2>1. u \in SUBSET Classes /\ Weight \in [Classes -> Int]
      BY ClassesAssumption
    <2>2. Sum(credited)[u] = Sum(scores)[u] + Sum(Weight)[u]
      <3>1. \A c \in u : credited[c] = scores[c] + Weight[c]
        BY <1>1
      <3> QED BY <1>1, <2>1, <3>1, SumPlus
    <2>3. ActiveWeight(u) = Sum(Weight)[u]
      BY <2>1, ActiveWeightSum
    <2>4. ActiveWeight(u) \in Nat /\ ActiveWeight(u) <= a
      BY <2>1, WeightsWithin
    <2>5. Bound(Cardinality(u)) \in Int
      <3>1. Cardinality(u) \in 0 .. Cardinality(Classes) /\ Cardinality(u) \in 0 .. Cardinality(u)
        BY <2>1, Sizes
      <3> QED BY <3>1, BoundGrows
    <2>6. Sum(scores)[u] \in Int /\ Sum(credited)[u] \in Int
      BY <1>1, <2>1, SumTyped
    <2>7. /\ -Bound(Cardinality(u)) <= 2 * Sum(scores)[u]
          /\ 2 * Sum(scores)[u] <= Bound(Cardinality(u))
      BY <2>1 DEF Balanced
    <2> QED BY <2>1, <2>2, <2>3, <2>4, <2>5, <2>6, <2>7
  <1>4. ASSUME NEW u \in SUBSET active
        PROVE  /\ -Bound(Cardinality(u)) <= 2 * Sum(settled)[u]
               /\ 2 * Sum(settled)[u] <= Bound(Cardinality(u))
    <2> DEFINE k == Cardinality(u)
    <2>1. u \in SUBSET Classes /\ k \in 0 .. n
      BY Sizes
    <2>2. k \in Nat /\ IsFiniteSet(u) /\ (u # {} => k >= 1)
      BY <2>1, Sizes
    <2>3. CASE d \notin u
      <3>1. Sum(settled)[u] = Sum(credited)[u]
        <4>1. \A c \in u : settled[c] = credited[c]
          BY <1>1, <2>1, <2>3
        <4> QED BY <1>1, <2>1, <4>1, SumAgree
      <3>2. -Bound(k) <= 2 * Sum(settled)[u]
        BY <1>3, <3>1
      <3>3. 2 * Sum(settled)[u] <= Bound(k)
        <4>1. CASE u = {}
          <5>1. Sum(settled)[u] = 0
            BY <1>1, <4>1, SumEmpty
          <5>2. 0 \in 0 .. k /\ k \in 0 .. Cardinality(Classes)
            BY <2>1, <2>2
          <5>3. Bound(k) \in Nat
            BY <5>2, BoundGrows
          <5> QED BY <5>1, <5>3
        <4>2. CASE u # {}
          <5> DEFINE x == Sum(credited)[u]
                     z == credited[d]
                     both == u \cup {d}
          <5>1. both \in SUBSET active /\ Cardinality(both) = k + 1 /\ both \ {d} = u
            <6>1. Cardinality(both) = k + 1
              BY <2>2, <2>3, FS_AddElement
            <6>2. both \in SUBSET active /\ both \ {d} = u
              BY <1>1, <2>3
            <6> QED BY <6>1, <6>2
          <5>2. Sum(credited)[both] = z + x /\ z \in Int /\ x \in Int
            <6>1. both \in SUBSET Classes /\ d \in both
              BY <5>1
            <6> HIDE DEF both
            <6> QED BY <1>1, <5>1, <6>1, SumTake
          <5>3. x <= k * z
            <6>1. \A c \in u : credited[c] <= z
              BY <1>1
            <6> QED BY <1>1, <2>1, <5>2, <6>1, SumAtMost
          <5>4. 2 * (x + z) <= Cap(n, k + 1) * w + 2 * w
            <6>1. /\ Sum(credited)[both] = Sum(scores)[both] + ActiveWeight(both)
                  /\ Sum(scores)[both] \in Int
                  /\ ActiveWeight(both) \in Nat /\ ActiveWeight(both) <= a
                  /\ 2 * Sum(scores)[both] <= Bound(k + 1)
                  /\ Bound(k + 1) \in Int
              BY <1>3, <5>1
            <6>2. Bound(k + 1) = Cap(n, k + 1) * w
              BY DEF Bound
            <6> DEFINE b == Bound(k + 1)
            <6> HIDE DEF x, z, both, w, a, n, k, b
            <6>3. 2 * (x + z) <= b + 2 * w
              BY <1>2, <5>2, <6>1 DEF b
            <6> QED BY <6>2, <6>3 DEF b
          <5>5. k >= 1
            BY <2>2, <4>2
          <5> HIDE DEF x, z, both, w, a, n, k
          <5>6. 2 * x <= Cap(n, k) * w
            BY <1>2, <2>2, <5>2, <5>3, <5>4, <5>5, UpperStep
          <5>7. 2 * x <= Bound(k)
            BY <5>6 DEF Bound, n, w
          <5> QED BY <3>1, <5>7 DEF x
        <4> QED BY <4>1, <4>2
      <3> QED BY <3>2, <3>3
    <2>4. CASE d \in u
      <3> DEFINE other == u \ {d}
                 r == Sum(credited)[other]
                 z == credited[d]
      <3>1. /\ other \in SUBSET active /\ other \in SUBSET Classes
            /\ Cardinality(other) = k - 1 /\ k >= 1
        BY <2>1, <2>2, <2>4, FS_RemoveElement
      <3>2. Sum(credited)[u] = z + r /\ z \in Int /\ r \in Int
        BY <1>1, <2>1, <2>4, SumTake
      <3>3. Sum(settled)[u] = r + z - a
        <4>1. Sum(settled)[u] = settled[d] + Sum(settled)[other]
          BY <1>1, <2>1, <2>4, SumTake
        <4>2. Sum(settled)[other] = r
          <5>1. \A c \in other : settled[c] = credited[c]
            BY <1>1, <2>1
          <5> HIDE DEF other
          <5> QED BY <1>1, <3>1, <5>1, SumAgree
        <4>3. settled[d] = z - a
          BY <1>1
        <4> HIDE DEF other, r, z, a
        <4> QED BY <1>2, <3>2, <4>1, <4>2, <4>3
      <3>4. /\ Sum(settled)[u] = Sum(scores)[u] + ActiveWeight(u) - a
            /\ Sum(scores)[u] \in Int
            /\ ActiveWeight(u) \in Nat /\ ActiveWeight(u) <= a
            /\ -Bound(k) <= 2 * Sum(scores)[u] /\ 2 * Sum(scores)[u] <= Bound(k)
            /\ Bound(k) \in Int
        <4> HIDE DEF r, z, other, a
        <4>1. /\ Sum(credited)[u] = Sum(scores)[u] + ActiveWeight(u)
              /\ Sum(scores)[u] \in Int
              /\ ActiveWeight(u) \in Nat /\ ActiveWeight(u) <= a
              /\ -Bound(k) <= 2 * Sum(scores)[u] /\ 2 * Sum(scores)[u] <= Bound(k)
              /\ Bound(k) \in Int
          BY <1>3
        <4> HIDE DEF k
        <4> QED BY <1>2, <3>2, <3>3, <4>1
      <3>5. 2 * Sum(settled)[u] <= Bound(k)
        <4> HIDE DEF r, z, other, a, k
        <4> QED BY <1>2, <3>4
      <3>6. -Bound(k) <= 2 * Sum(settled)[u]
        <4>1. CASE u = active
          <5>1. Sum(settled)[u] = Sum(scores)[u]
            BY <1>2, <3>4, <4>1
          <5> HIDE DEF k
          <5> QED BY <3>4, <5>1
        <4>2. CASE u # active
          <5> DEFINE rest == active \ u
                     m == Cardinality(rest)
                     v == Sum(credited)[rest]
          <5>1. /\ rest \in SUBSET active /\ rest \in SUBSET Classes /\ rest # {}
                /\ u \cap rest = {} /\ u \cup rest = active
            BY <4>2
          <5>2. m \in Nat /\ m >= 1 /\ IsFiniteSet(rest)
            <6> HIDE DEF rest
            <6> QED BY <5>1, Sizes
          <5>3. Cardinality(active) = k + m
            <6> HIDE DEF rest
            <6>1. Cardinality(u \cup rest) =
                    Cardinality(u) + Cardinality(rest) - Cardinality(u \cap rest)
              BY <2>2, <5>2, FS_Union
            <6>2. Cardinality(u \cap rest) = 0 /\ u \cup rest = active
              BY <5>1, FS_EmptySet
            <6>3. Cardinality(active) = Cardinality(u) + Cardinality(rest) - 0
              BY <6>1, <6>2, Zenon
            <6> QED BY <2>2, <5>2, <6>3
          <5>4. Sum(credited)[active] = Sum(credited)[u] + v /\ v \in Int
            <6> HIDE DEF rest
            <6>1. Sum(credited)[u \cup rest] = Sum(credited)[u] + Sum(credited)[rest]
              BY <1>1, <2>1, <5>1, SumUnion
            <6> QED BY <1>1, <5>1, <6>1, SumTyped
          <5>5. v <= m * z
            <6>1. \A c \in rest : credited[c] <= z
              BY <1>1
            <6> HIDE DEF rest
            <6> QED BY <1>1, <3>2, <5>1, <6>1, SumAtMost
          <5>6. -(Cap(n, k - 1) * w) <= 2 * r
            <6>1. /\ r = Sum(scores)[other] + ActiveWeight(other)
                  /\ Sum(scores)[other] \in Int /\ ActiveWeight(other) \in Nat
                  /\ -Bound(k - 1) <= 2 * Sum(scores)[other]
                  /\ Bound(k - 1) \in Int
              <7> HIDE DEF other
              <7> QED BY <1>3, <3>1
            <6> DEFINE b == Bound(k - 1)
            <6>2. b = Cap(n, k - 1) * w
              BY DEF Bound
            <6> HIDE DEF b, r, other, n, w, k
            <6>3. -b <= 2 * r
              BY <6>1 DEF b
            <6> QED BY <6>2, <6>3
          <5>7. -(Cap(n, k + m) * w) + 2 * a <= 2 * (r + z + v)
            <6>1. /\ Sum(credited)[active] = Sum(scores)[active] + a
                  /\ Sum(scores)[active] \in Int
                  /\ -Bound(k + m) <= 2 * Sum(scores)[active]
                  /\ Bound(k + m) \in Int
              <7>1. active \in SUBSET active
                OBVIOUS
              <7> HIDE DEF m
              <7> QED BY <1>3, <5>3, <7>1
            <6> DEFINE b == Bound(k + m)
            <6>2. b = Cap(n, k + m) * w
              BY DEF Bound
            <6> HIDE DEF b, r, z, v, other, rest, n, w, a, k, m
            <6>3. -b + 2 * a <= 2 * (r + z + v)
              BY <1>2, <3>2, <5>4, <6>1 DEF b
            <6> QED BY <6>2, <6>3
          <5> HIDE DEF r, z, v, other, rest, n, w, a, k, m
          <5>8. -(Cap(n, k) * w) <= 2 * (r + z - a)
            BY <1>2, <2>2, <3>1, <3>2, <5>2, <5>4, <5>5, <5>6, <5>7, LowerStep
          <5>9. Bound(k) = Cap(n, k) * w
            BY DEF Bound, n, w
          <5> QED BY <3>3, <5>8, <5>9
        <4> QED BY <4>1, <4>2
      <3> QED BY <3>5, <3>6
    <2> QED BY <2>3, <2>4
  <1>5. Balanced(settled)
    BY <1>1, <1>4, ActiveSuffices
  <1> QED BY <1>5 DEF settled
=============================================================================
