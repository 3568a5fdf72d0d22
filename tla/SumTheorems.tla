---------------------------- MODULE SumTheorems ----------------------------
(***************************************************************************)
(* Facts about the sum of a function over a finite set, which the proofs   *)
(* about ledgers, deposits and daily limits use.  They are by induction    *)
(* over sets: a least set without the property would be extended by one    *)
(* element from a set that has it.                                         *)
(***************************************************************************)
EXTENDS Integers, FiniteSets, Functions, TLAPS, FiniteSetTheorems, WellFoundedInduction

(* A set of subsets of a finite set has a least one.                       *)
LEMMA LeastSubset ==
    ASSUME NEW S, IsFiniteSet(S), NEW Q \in SUBSET (SUBSET S), Q # {}
    PROVE  \E T \in Q : \A U \in Q : U \subseteq T => U = T
<1>1. IsWellFoundedOn(StrictSubsetOrdering(S), SUBSET S)
    BY FS_StrictSubsetOrderingWellFounded, FS_FiniteSubsetsOfFinite
<1>2. PICK T \in Q : \A U \in Q : <<U, T>> \notin StrictSubsetOrdering(S)
    BY <1>1, WFMin, Zenon
<1> QED
    BY <1>2 DEF StrictSubsetOrdering

(* F sums v over the subsets of S.                                         *)
Additive(F, v, S) ==
    /\ F[{}] = 0
    /\ \A T \in SUBSET S : \A x \in S \ T : F[T \cup {x}] = F[T] + v[x]

(* Such a function exists.                                                 *)
LEMMA SumsExist ==
    ASSUME NEW S, IsFiniteSet(S), NEW v, \A x \in S : v[x] \in Int
    PROVE  \E F \in [SUBSET S -> Int] : Additive(F, v, S)
<1> DEFINE Q == {T \in SUBSET S : ~ \E F \in [SUBSET T -> Int] : Additive(F, v, T)}
<1> SUFFICES ASSUME Q # {} PROVE FALSE
    OBVIOUS
<1>1. PICK T \in Q : \A U \in Q : U \subseteq T => U = T
  <2>1. Q \in SUBSET (SUBSET S)
      OBVIOUS
  <2> HIDE DEF Q
  <2> QED
      BY <2>1, LeastSubset
<1>2. CASE T = {}
  <2> DEFINE F == [U \in SUBSET T |-> 0]
  <2>1. F \in [SUBSET T -> Int] /\ Additive(F, v, T)
      BY <1>2 DEF Additive
  <2> QED
      BY <2>1
<1>3. ASSUME NEW x \in T PROVE FALSE
  <2> DEFINE U == T \ {x}
  <2>1. PICK F \in [SUBSET U -> Int] : Additive(F, v, U)
    <3>1. U \subseteq T /\ U # T /\ U \in SUBSET S
        BY <1>3
    <3>2. U \notin Q
        BY <3>1, <1>1
    <3> QED
        BY <3>1, <3>2
  <2> DEFINE G == [W \in SUBSET T |-> IF x \in W THEN F[W \ {x}] + v[x] ELSE F[W]]
  <2>2. v[x] \in Int
      BY <1>3
  <2>3. G \in [SUBSET T -> Int]
    <3> SUFFICES ASSUME NEW W \in SUBSET T
                 PROVE  (IF x \in W THEN F[W \ {x}] + v[x] ELSE F[W]) \in Int
        OBVIOUS
    <3>1. CASE x \in W
      <4>1. W \ {x} \in SUBSET U
          OBVIOUS
      <4>2. F[W \ {x}] \in Int
          BY <4>1
      <4> QED
          BY <3>1, <4>2, <2>2
    <3>2. CASE x \notin W
      <4>1. W \in SUBSET U
          BY <3>2
      <4> QED
          BY <3>2, <4>1
    <3> QED
        BY <3>1, <3>2
  <2>4. G[{}] = 0
    <3>1. {} \in SUBSET T
        OBVIOUS
    <3>2. G[{}] = F[{}]
        BY <3>1
    <3> QED
        BY <3>2, <2>1 DEF Additive
  <2>5. ASSUME NEW W \in SUBSET T, NEW y \in T \ W
        PROVE  G[W \cup {y}] = G[W] + v[y]
    <3>0. W \cup {y} \in SUBSET T /\ v[y] \in Int
        OBVIOUS
    <3>1. CASE x \in W
      <4>1. W \ {x} \in SUBSET U /\ y \in U \ (W \ {x})
          BY <3>1
      <4>2. F[(W \ {x}) \cup {y}] = F[W \ {x}] + v[y]
          BY <2>1, <4>1 DEF Additive
      <4>3. (W \cup {y}) \ {x} = (W \ {x}) \cup {y}
          BY <3>1
      <4>4. G[W \cup {y}] = F[(W \ {x}) \cup {y}] + v[x] /\ G[W] = F[W \ {x}] + v[x]
          BY <3>0, <3>1, <4>3
      <4>5. F[W \ {x}] \in Int
          BY <4>1
      <4> QED
          BY <4>2, <4>4, <4>5, <2>2, <3>0
    <3>2. CASE x \notin W /\ y = x
      <4>1. (W \cup {y}) \ {x} = W
          BY <3>2
      <4> QED
          BY <3>0, <3>2, <4>1
    <3>3. CASE x \notin W /\ y # x
      <4>1. W \in SUBSET U /\ y \in U \ W /\ x \notin W \cup {y}
          BY <3>3
      <4>2. F[W \cup {y}] = F[W] + v[y]
          BY <2>1, <4>1 DEF Additive
      <4> QED
          BY <3>0, <3>3, <4>1, <4>2
    <3> QED
        BY <3>1, <3>2, <3>3
  <2>6. Additive(G, v, T)
      BY <2>4, <2>5 DEF Additive
  <2> QED
      BY <2>3, <2>6
<1> QED
    BY <1>2, <1>3

(* SumFunctionOnSet takes the elements in an order that is not specified,  *)
(* but its result is that of every such function.                          *)
LEMMA SumIsUnique ==
    ASSUME NEW S, IsFiniteSet(S), NEW v, \A x \in S : v[x] \in Int,
           NEW F \in [SUBSET S -> Int], Additive(F, v, S)
    PROVE  SumFunctionOnSet(v, S) = F[S]
<1> DEFINE Takes(f) == f = [s \in SUBSET S |->
                               IF s = {} THEN 0
                               ELSE v[CHOOSE x \in s : TRUE] + f[s \ {CHOOSE x \in s : TRUE}]]
           I == CHOOSE f : Takes(f)
<1>1. SumFunctionOnSet(v, S) = I[S]
    BY DEF SumFunctionOnSet, FoldFunctionOnSet, MapThenFoldSet
<1>2. Takes(F)
  <2>1. ASSUME NEW s \in SUBSET S
        PROVE  F[s] = IF s = {} THEN 0
                      ELSE v[CHOOSE x \in s : TRUE] + F[s \ {CHOOSE x \in s : TRUE}]
    <3>1. CASE s = {}
        BY <3>1 DEF Additive
    <3>2. CASE s # {}
      <4> DEFINE x == CHOOSE x \in s : TRUE
      <4>1. x \in s
          BY <3>2
      <4> HIDE DEF x
      <4>2. s \ {x} \in SUBSET S /\ x \in S \ (s \ {x}) /\ (s \ {x}) \cup {x} = s
          BY <4>1
      <4>3. F[s] = F[s \ {x}] + v[x]
          BY <4>2 DEF Additive
      <4>4. F[s] = v[x] + F[s \ {x}]
          BY <4>2, <4>3
      <4> QED
          BY <3>2, <4>4 DEF x
    <3> QED
        BY <3>1, <3>2
  <2> QED
      BY <2>1
<1>3. Takes(I)
    BY <1>2
<1> HIDE DEF I
<1> DEFINE Q == {T \in SUBSET S : I[T] # F[T]}
<1>4. Q = {}
  <2> SUFFICES ASSUME Q # {} PROVE FALSE
      OBVIOUS
  <2>1. PICK T \in Q : \A U \in Q : U \subseteq T => U = T
    <3>1. Q \in SUBSET (SUBSET S)
        OBVIOUS
    <3> HIDE DEF Q
    <3> QED
        BY <3>1, LeastSubset
  <2>2. T # {}
      BY <1>2, <1>3
  <2> DEFINE x == CHOOSE x \in T : TRUE
  <2>3. x \in T
      BY <2>2
  <2>4. I[T] = v[x] + I[T \ {x}] /\ F[T] = v[x] + F[T \ {x}]
      BY <1>2, <1>3, <2>2
  <2> HIDE DEF x
  <2>5. T \ {x} \subseteq T /\ T \ {x} # T /\ T \ {x} \in SUBSET S
      BY <2>3
  <2>6. T \ {x} \notin Q
      BY <2>1, <2>5
  <2>7. I[T] = F[T]
      BY <2>4, <2>5, <2>6
  <2> QED
      BY <2>7
<1> QED
    BY <1>1, <1>4

(* The sum over the subsets of a finite set is such a function.            *)
Totals(F, v, S) ==
    /\ F \in [SUBSET S -> Int]
    /\ Additive(F, v, S)
    /\ \A T \in SUBSET S : SumFunctionOnSet(v, T) = F[T]

LEMMA SumsOfSubsets ==
    ASSUME NEW S, IsFiniteSet(S), NEW v, \A x \in S : v[x] \in Int
    PROVE  \E F : Totals(F, v, S)
<1>1. PICK F \in [SUBSET S -> Int] : Additive(F, v, S)
    BY SumsExist
<1>2. ASSUME NEW T \in SUBSET S PROVE SumFunctionOnSet(v, T) = F[T]
  <2> DEFINE G == [U \in SUBSET T |-> F[U]]
  <2>1. IsFiniteSet(T)
      BY FS_Subset
  <2>2. G \in [SUBSET T -> Int] /\ G[T] = F[T]
      OBVIOUS
  <2>3. Additive(G, v, T)
    <3>1. G[{}] = 0
        BY <1>1 DEF Additive
    <3>2. ASSUME NEW U \in SUBSET T, NEW x \in T \ U PROVE G[U \cup {x}] = G[U] + v[x]
      <4>1. U \in SUBSET S /\ x \in S \ U /\ U \cup {x} \in SUBSET T
          OBVIOUS
      <4>2. F[U \cup {x}] = F[U] + v[x]
          BY <1>1, <4>1 DEF Additive
      <4> QED
          BY <4>1, <4>2
    <3> QED
        BY <3>1, <3>2 DEF Additive
  <2>4. \A x \in T : v[x] \in Int
      OBVIOUS
  <2> HIDE DEF G
  <2>5. SumFunctionOnSet(v, T) = G[T]
      BY <2>1, <2>2, <2>3, <2>4, SumIsUnique
  <2> QED
      BY <2>2, <2>5
<1> QED
    BY <1>1, <1>2 DEF Totals

-----------------------------------------------------------------------------
(* The facts that proofs use.                                              *)

(* A sum of integers is an integer.                                        *)
LEMMA SumType ==
    ASSUME NEW S, IsFiniteSet(S), NEW v, \A x \in S : v[x] \in Int
    PROVE  SumFunctionOnSet(v, S) \in Int
<1>1. PICK F : Totals(F, v, S)
    BY SumsOfSubsets
<1> QED
    BY <1>1 DEF Totals

(* Nothing sums up to 0.                                                   *)
LEMMA SumOfNothing ==
    ASSUME NEW v
    PROVE  SumFunctionOnSet(v, {}) = 0
<1>1. IsFiniteSet({}) /\ \A x \in {} : v[x] \in Int
    BY FS_EmptySet
<1>2. PICK F : Totals(F, v, {})
    BY <1>1, SumsOfSubsets
<1> QED
    BY <1>2 DEF Totals, Additive

(* A new element adds its value.                                           *)
LEMMA SumAdds ==
    ASSUME NEW S, IsFiniteSet(S), NEW x, x \notin S, NEW v, \A y \in S \cup {x} : v[y] \in Int
    PROVE  SumFunctionOnSet(v, S \cup {x}) = SumFunctionOnSet(v, S) + v[x]
<1>1. IsFiniteSet(S \cup {x})
    BY FS_AddElement
<1>2. PICK F : Totals(F, v, S \cup {x})
    BY <1>1, SumsOfSubsets
<1> QED
    BY <1>2 DEF Totals, Additive

(* Only the values on the set matter.                                      *)
LEMMA SumAgrees ==
    ASSUME NEW S, IsFiniteSet(S), NEW v, NEW w, \A x \in S : v[x] \in Int /\ v[x] = w[x]
    PROVE  SumFunctionOnSet(v, S) = SumFunctionOnSet(w, S)
<1>0. \A x \in S : v[x] \in Int
    OBVIOUS
<1>1. PICK F : Totals(F, v, S)
    BY <1>0, SumsOfSubsets
<1>2. Additive(F, w, S)
    BY <1>1 DEF Totals, Additive
<1>3. \A x \in S : w[x] \in Int
    OBVIOUS
<1>4. SumFunctionOnSet(w, S) = F[S]
    BY <1>1, <1>2, <1>3, SumIsUnique DEF Totals
<1> QED
    BY <1>1, <1>4 DEF Totals

(* More elements sum up to no less when no value is negative.              *)
LEMMA SumGrows ==
    ASSUME NEW T, IsFiniteSet(T), NEW S \in SUBSET T, NEW v, \A x \in T : v[x] \in Nat
    PROVE  SumFunctionOnSet(v, S) <= SumFunctionOnSet(v, T)
<1>0. \A x \in T : v[x] \in Int
    OBVIOUS
<1>1. PICK F : Totals(F, v, T)
    BY <1>0, SumsOfSubsets
<1> DEFINE Q == {U \in SUBSET T : S \subseteq U /\ ~ F[S] <= F[U]}
<1>2. Q = {}
  <2> SUFFICES ASSUME Q # {} PROVE FALSE
      OBVIOUS
  <2>1. PICK U \in Q : \A W \in Q : W \subseteq U => W = U
    <3>1. Q \in SUBSET (SUBSET T)
        OBVIOUS
    <3> HIDE DEF Q
    <3> QED
        BY <3>1, LeastSubset
  <2>2. F[S] \in Int /\ F[U] \in Int
      BY <1>1 DEF Totals
  <2>3. S \subseteq U /\ S # U
      BY <2>2
  <2> PICK x \in U : x \notin S
      BY <2>3
  <2>4. /\ U \ {x} \subseteq U /\ U \ {x} # U /\ U \ {x} \in SUBSET T /\ S \subseteq U \ {x}
        /\ x \in T \ (U \ {x}) /\ (U \ {x}) \cup {x} = U
      BY <2>3
  <2>5. F[S] <= F[U \ {x}]
      BY <2>1, <2>4
  <2>6. F[U] = F[U \ {x}] + v[x]
      BY <1>1, <2>4 DEF Totals, Additive
  <2>7. F[U \ {x}] \in Int /\ v[x] \in Nat
      BY <1>1, <2>4 DEF Totals
  <2>8. F[S] <= F[U]
      BY <2>2, <2>5, <2>6, <2>7
  <2> QED
      BY <2>8
<1> QED
    BY <1>1, <1>2 DEF Totals
=============================================================================
