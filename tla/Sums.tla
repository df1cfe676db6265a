--------------------------------- MODULE Sums ---------------------------------
(***************************************************************************)
(* Facts about SumFunctionOnSet(f, S), the sum of f[x] over the members x  *)
(* of a finite set S, for the proofs about stock and orders.               *)
(*                                                                         *)
(* The sum is a recursive definition.  Induction is replaced by the search *)
(* for a smallest set that breaks a claim: among the subsets of a finite   *)
(* set that do, one has no proper subset that does.                        *)
(***************************************************************************)
EXTENDS Integers, FiniteSets, Functions, FiniteSetTheorems, TLAPS

\* A set of subsets of a finite set has a member that contains no other.
LEMMA SmallestSubset ==
    ASSUME NEW S, IsFiniteSet(S), NEW F \in SUBSET (SUBSET S), F # {}
    PROVE  \E T \in F : \A U \in F : U \subseteq T => U = T
<1>1. IsWellFoundedOn(StrictSubsetOrdering(S), SUBSET S)
  BY FS_StrictSubsetOrderingWellFounded, FS_FiniteSubsetsOfFinite
<1>2. PICK T \in F : \A U \in F : <<U, T>> \notin StrictSubsetOrdering(S)
  BY <1>1, WFMin
<1>3. ASSUME NEW U \in F, U \subseteq T, U # T PROVE FALSE
  BY <1>2, <1>3 DEF StrictSubsetOrdering
<1> QED
  BY <1>2, <1>3

(***************************************************************************)
(* Measures                                                                *)
(***************************************************************************)

\* m[T] adds up f over T, for every part T of S, whichever member is taken out.
IsMeasure(m, f, S) ==
    /\ m \in [SUBSET S -> Int]
    /\ m[{}] = 0
    /\ \A T \in SUBSET S : \A x \in T : m[T] = f[x] + m[T \ {x}]

\* The member that the definition of sums takes out.
Taken(T) == CHOOSE x \in T : TRUE

LEMMA TakenIsMember ==
    ASSUME NEW T, T # {}
    PROVE  Taken(T) \in T
BY DEF Taken

\* The equation that defines the sum over the parts of S.
Adds(g, f, S) ==
    g = [T \in SUBSET S |-> IF T = {} THEN 0 ELSE f[Taken(T)] + g[T \ {Taken(T)}]]

LEMMA SumIsChosen ==
    ASSUME NEW S, NEW f
    PROVE  SumFunctionOnSet(f, S) = (CHOOSE g : Adds(g, f, S))[S]
BY DEF SumFunctionOnSet, FoldFunctionOnSet, MapThenFoldSet, Adds, Taken

\* A measure for a set serves its parts.
LEMMA MeasureOfPart ==
    ASSUME NEW S, NEW f, NEW m, IsMeasure(m, f, S), NEW U \in SUBSET S
    PROVE  IsMeasure([T \in SUBSET U |-> m[T]], f, U)
<1>1. SUBSET U \subseteq SUBSET S
  OBVIOUS
<1>2. ASSUME NEW T \in SUBSET U, NEW x \in T
      PROVE  m[T] = f[x] + m[T \ {x}] /\ T \ {x} \in SUBSET U
  BY <1>1 DEF IsMeasure
<1>3. m[{}] = 0 /\ {} \in SUBSET U /\ \A T \in SUBSET U : m[T] \in Int
  BY <1>1 DEF IsMeasure
<1> QED
  BY <1>2, <1>3 DEF IsMeasure

\* Every finite set has a measure: a set without one would leave a smallest one,
\* which takes its measure from what is left without one member.
LEMMA MeasureExists ==
    ASSUME NEW S, IsFiniteSet(S), NEW f, \A x \in S : f[x] \in Int
    PROVE  \E m : IsMeasure(m, f, S)
<1> DEFINE F == {T \in SUBSET S : ~\E m : IsMeasure(m, f, T)}
<1>1. SUFFICES ASSUME F # {} PROVE FALSE
  <2>1. S \in SUBSET S
    OBVIOUS
  <2> QED
    BY <2>1
<1>2. PICK T \in F : \A U \in F : U \subseteq T => U = T
  <2>1. F \in SUBSET (SUBSET S)
    OBVIOUS
  <2> HIDE DEF F
  <2> QED
    BY <1>1, <2>1, SmallestSubset
<1>3. T # {}
  <2>1. SUFFICES ASSUME T = {} PROVE FALSE
    OBVIOUS
  <2>2. IsMeasure([U \in SUBSET {} |-> 0], f, {})
    BY DEF IsMeasure
  <2> QED
    BY <2>1, <2>2
<1>4. PICK x \in T : TRUE
  BY <1>3
<1> DEFINE U == T \ {x}
<1>5. T \in SUBSET S /\ U \in SUBSET S /\ f[x] \in Int
  OBVIOUS
<1>6. PICK m : IsMeasure(m, f, U)
  <2>1. U \subseteq T /\ U # T
    BY <1>4
  <2>2. U \notin F
    BY <1>2, <2>1
  <2> QED
    BY <1>5, <2>2
<1> DEFINE n == [V \in SUBSET T |-> IF x \in V THEN f[x] + m[V \ {x}] ELSE m[V]]
<1>7. \A V \in SUBSET T : V \ {x} \in SUBSET U /\ (x \notin V => V \in SUBSET U)
  OBVIOUS
<1>8. n \in [SUBSET T -> Int] /\ n[{}] = 0
  BY <1>5, <1>6, <1>7 DEF IsMeasure
<1>9. ASSUME NEW V \in SUBSET T, NEW y \in V
      PROVE  n[V] = f[y] + n[V \ {y}]
  <2>1. V \ {y} \in SUBSET T /\ V \ {x} \in SUBSET U
    BY <1>7
  <2>2. CASE x \notin V
    <3>1. n[V] = m[V] /\ n[V \ {y}] = m[V \ {y}] /\ V \in SUBSET U
      BY <2>1, <2>2, <1>7
    <3> QED
      BY <1>6, <3>1 DEF IsMeasure
  <2>3. CASE y = x
    <3>1. n[V] = f[x] + m[V \ {x}] /\ n[V \ {x}] = m[V \ {x}]
      BY <2>1, <2>3
    <3> QED
      BY <2>3, <3>1
  <2>4. CASE x \in V /\ y # x
    <3>1. n[V] = f[x] + m[V \ {x}] /\ n[V \ {y}] = f[x] + m[(V \ {y}) \ {x}]
      BY <2>1, <2>4
    <3>2. y \in V \ {x} /\ (V \ {y}) \ {x} = (V \ {x}) \ {y}
      BY <2>4
    <3>3. m[V \ {x}] = f[y] + m[(V \ {x}) \ {y}]
      BY <1>6, <2>1, <3>2 DEF IsMeasure
    <3>4. m[(V \ {x}) \ {y}] \in Int
      BY <1>6, <2>1 DEF IsMeasure
    <3>5. f[y] \in Int
      BY <1>5
    <3>6. m[(V \ {y}) \ {x}] = m[(V \ {x}) \ {y}]
      BY <3>2
    <3> HIDE DEF n
    <3> QED
      BY <1>5, <3>1, <3>3, <3>4, <3>5, <3>6
  <2> QED
    BY <2>2, <2>3, <2>4
<1>10. IsMeasure(n, f, T)
  <2> HIDE DEF n
  <2> QED
    BY <1>8, <1>9 DEF IsMeasure
<1> QED
  BY <1>2, <1>10

\* The sum is what a measure says: a part of S where they differ would leave a
\* smallest one, but they agree on it without the member taken out.
LEMMA SumIsMeasure ==
    ASSUME NEW S, IsFiniteSet(S), NEW f, NEW m, IsMeasure(m, f, S)
    PROVE  SumFunctionOnSet(f, S) = m[S]
<1> DEFINE g == CHOOSE g : Adds(g, f, S)
<1>1. Adds(g, f, S)
  <2>1. \A T \in SUBSET S : T # {} => Taken(T) \in T
    BY TakenIsMember
  <2>2. \A T \in SUBSET S :
           m[T] = IF T = {} THEN 0 ELSE f[Taken(T)] + m[T \ {Taken(T)}]
    BY <2>1 DEF IsMeasure
  <2>3. m = [T \in SUBSET S |-> IF T = {} THEN 0 ELSE f[Taken(T)] + m[T \ {Taken(T)}]]
    BY <2>2 DEF IsMeasure
  <2>4. Adds(m, f, S)
    BY <2>3 DEF Adds
  <2> QED
    BY <2>4
<1> HIDE DEF g
<1> DEFINE D == {T \in SUBSET S : g[T] # m[T]}
<1>2. D = {}
  <2>1. SUFFICES ASSUME D # {} PROVE FALSE
    OBVIOUS
  <2>2. PICK T \in D : \A U \in D : U \subseteq T => U = T
    <3>1. D \in SUBSET (SUBSET S)
      OBVIOUS
    <3> HIDE DEF D
    <3> QED
      BY <2>1, <3>1, SmallestSubset
  <2>3. g[{}] = 0 /\ m[{}] = 0 /\ {} \in SUBSET S
    BY <1>1 DEF Adds, IsMeasure
  <2>4. T # {} /\ Taken(T) \in T
    BY <2>2, <2>3, TakenIsMember
  <2>5. g[T] = f[Taken(T)] + g[T \ {Taken(T)}]
    BY <1>1, <2>4 DEF Adds
  <2>6. m[T] = f[Taken(T)] + m[T \ {Taken(T)}]
    BY <2>4 DEF IsMeasure
  <2>7. T \ {Taken(T)} \subseteq T /\ T \ {Taken(T)} # T
    BY <2>4
  <2>8. g[T \ {Taken(T)}] = m[T \ {Taken(T)}]
    BY <2>2, <2>7
  <2> QED
    BY <2>2, <2>5, <2>6, <2>8
<1>3. g[S] = m[S]
  BY <1>2
<1> QED
  BY <1>3, SumIsChosen DEF g

(***************************************************************************)
(* Sums                                                                    *)
(***************************************************************************)

\* The sum over no members.
LEMMA SumOfNone == ASSUME NEW f PROVE SumFunctionOnSet(f, {}) = 0
<1>1. IsMeasure([U \in SUBSET {} |-> 0], f, {})
  BY DEF IsMeasure
<1>2. IsFiniteSet({})
  BY FS_EmptySet
<1> QED
  BY <1>1, <1>2, SumIsMeasure

\* A sum of integers is an integer.
LEMMA SumType ==
    ASSUME NEW S, IsFiniteSet(S), NEW f, \A x \in S : f[x] \in Int
    PROVE  SumFunctionOnSet(f, S) \in Int
<1>1. PICK m : IsMeasure(m, f, S)
  BY MeasureExists
<1>2. m[S] \in Int
  BY <1>1 DEF IsMeasure
<1> QED
  BY <1>1, <1>2, SumIsMeasure

\* Each member counts once: taking it out takes away what it adds.
LEMMA SumWithout ==
    ASSUME NEW S, IsFiniteSet(S), NEW f, \A y \in S : f[y] \in Int, NEW x \in S
    PROVE  SumFunctionOnSet(f, S) = f[x] + SumFunctionOnSet(f, S \ {x})
<1>1. PICK m : IsMeasure(m, f, S)
  BY MeasureExists
<1>2. IsFiniteSet(S \ {x}) /\ S \ {x} \in SUBSET S
  BY FS_Subset
<1>3. IsMeasure([T \in SUBSET (S \ {x}) |-> m[T]], f, S \ {x})
  <2> DEFINE U == S \ {x}
  <2>1. U \in SUBSET S
    OBVIOUS
  <2> HIDE DEF U
  <2>2. IsMeasure([T \in SUBSET U |-> m[T]], f, U)
    BY <1>1, <2>1, MeasureOfPart
  <2> QED
    BY <2>2 DEF U
<1>4. SumFunctionOnSet(f, S \ {x}) = m[S \ {x}]
  BY <1>2, <1>3, SumIsMeasure
<1>5. SumFunctionOnSet(f, S) = m[S]
  BY <1>1, SumIsMeasure
<1> QED
  BY <1>1, <1>4, <1>5 DEF IsMeasure

\* Functions that agree on the members have the same sum.
LEMMA SumOfSame ==
    ASSUME NEW S, IsFiniteSet(S), NEW f, NEW g, \A x \in S : f[x] \in Int,
           \A x \in S : f[x] = g[x]
    PROVE  SumFunctionOnSet(f, S) = SumFunctionOnSet(g, S)
<1>1. PICK m : IsMeasure(m, f, S)
  BY MeasureExists
<1>2. IsMeasure(m, g, S)
  BY <1>1 DEF IsMeasure
<1> QED
  BY <1>1, <1>2, SumIsMeasure

\* When f changes at one member, the sum changes by the difference.
LEMMA SumOfChange ==
    ASSUME NEW S, IsFiniteSet(S), NEW f, NEW g, NEW x \in S,
           \A y \in S : f[y] \in Int /\ g[y] \in Int,
           \A y \in S \ {x} : f[y] = g[y]
    PROVE  SumFunctionOnSet(g, S) = SumFunctionOnSet(f, S) - f[x] + g[x]
<1>1. IsFiniteSet(S \ {x}) /\ \A y \in S \ {x} : f[y] \in Int
  BY FS_Subset
<1>2. SumFunctionOnSet(f, S \ {x}) = SumFunctionOnSet(g, S \ {x})
  BY <1>1, SumOfSame
<1>3. SumFunctionOnSet(f, S \ {x}) \in Int
  BY <1>1, SumType
<1>4. /\ SumFunctionOnSet(f, S) = f[x] + SumFunctionOnSet(f, S \ {x})
      /\ SumFunctionOnSet(g, S) = g[x] + SumFunctionOnSet(g, S \ {x})
  BY SumWithout
<1> QED
  BY <1>2, <1>3, <1>4

\* A member that was not there adds what it has.
LEMMA SumWith ==
    ASSUME NEW S, IsFiniteSet(S), NEW f, NEW x, \A y \in S \cup {x} : f[y] \in Int, x \notin S
    PROVE  SumFunctionOnSet(f, S \cup {x}) = SumFunctionOnSet(f, S) + f[x]
<1>1. IsFiniteSet(S \cup {x}) /\ (S \cup {x}) \ {x} = S /\ x \in S \cup {x}
  BY FS_AddElement
<1>2. SumFunctionOnSet(f, S \cup {x}) = f[x] + SumFunctionOnSet(f, (S \cup {x}) \ {x})
  BY <1>1, SumWithout
<1>3. SumFunctionOnSet(f, S) \in Int /\ f[x] \in Int
  BY SumType
<1>4. SumFunctionOnSet(f, (S \cup {x}) \ {x}) = SumFunctionOnSet(f, S)
  BY <1>1, Zenon
<1> QED
  BY <1>2, <1>3, <1>4

\* Members that add nothing may be left out.
LEMMA SumOfSupport ==
    ASSUME NEW S, IsFiniteSet(S), NEW f, \A x \in S : f[x] \in Int, NEW P \in SUBSET S,
           \A x \in S \ P : f[x] = 0
    PROVE  SumFunctionOnSet(f, P) = SumFunctionOnSet(f, S)
<1>1. PICK m : IsMeasure(m, f, S)
  BY MeasureExists
<1> DEFINE D == {T \in SUBSET S : P \subseteq T /\ m[T] # m[P]}
<1>2. D = {}
  <2>1. SUFFICES ASSUME D # {} PROVE FALSE
    OBVIOUS
  <2>2. PICK T \in D : \A U \in D : U \subseteq T => U = T
    <3>1. D \in SUBSET (SUBSET S)
      OBVIOUS
    <3> HIDE DEF D
    <3> QED
      BY <2>1, <3>1, SmallestSubset
  <2>3. PICK x \in T : x \notin P
    <3>1. T # P /\ P \subseteq T
      BY <2>2
    <3> QED
      BY <3>1
  <2>4. T \ {x} \in SUBSET S /\ P \subseteq T \ {x} /\ T \ {x} # T
    BY <2>2, <2>3
  <2>5. m[T \ {x}] = m[P]
    BY <2>2, <2>4
  <2>6. m[T] = f[x] + m[T \ {x}] /\ f[x] = 0 /\ m[P] \in Int
    BY <1>1, <2>2, <2>3 DEF IsMeasure
  <2> QED
    BY <2>2, <2>5, <2>6
<1>3. m[S] = m[P]
  BY <1>2
<1>4. IsFiniteSet(P) /\ P \in SUBSET P
  BY FS_Subset
<1>5. IsMeasure([T \in SUBSET P |-> m[T]], f, P)
  BY <1>1, MeasureOfPart
<1>6. SumFunctionOnSet(f, P) = m[P]
  BY <1>4, <1>5, SumIsMeasure
<1> QED
  BY <1>1, <1>3, <1>6, SumIsMeasure

\* No member adds more than the sum, when none takes anything away.
LEMMA SumBoundsMembers ==
    ASSUME NEW S, IsFiniteSet(S), NEW f, \A x \in S : f[x] \in Nat
    PROVE  /\ SumFunctionOnSet(f, S) \in Nat
           /\ \A x \in S : f[x] <= SumFunctionOnSet(f, S)
<1>1. PICK m : IsMeasure(m, f, S)
  BY MeasureExists
<1> DEFINE D == {T \in SUBSET S : m[T] \notin Nat}
<1>2. D = {}
  <2>1. SUFFICES ASSUME D # {} PROVE FALSE
    OBVIOUS
  <2>2. PICK T \in D : \A U \in D : U \subseteq T => U = T
    <3>1. D \in SUBSET (SUBSET S)
      OBVIOUS
    <3> HIDE DEF D
    <3> QED
      BY <2>1, <3>1, SmallestSubset
  <2>3. T # {}
    <3>1. m[{}] = 0 /\ m[T] \notin Nat
      BY <1>1, <2>2 DEF IsMeasure
    <3> QED
      BY <3>1
  <2>4. PICK x \in T : TRUE
    BY <2>3
  <2>5. T \ {x} \in SUBSET S /\ T \ {x} # T
    BY <2>2, <2>4
  <2>6. m[T \ {x}] \in Nat /\ f[x] \in Nat /\ m[T] = f[x] + m[T \ {x}]
    BY <1>1, <2>2, <2>4, <2>5 DEF IsMeasure
  <2> QED
    BY <2>2, <2>6
<1>3. SumFunctionOnSet(f, S) = m[S] /\ m[S] \in Nat
  BY <1>1, <1>2, SumIsMeasure
<1>4. ASSUME NEW x \in S PROVE f[x] <= m[S]
  <2>1. m[S] = f[x] + m[S \ {x}]
    BY <1>1 DEF IsMeasure
  <2>2. m[S \ {x}] \in Nat /\ f[x] \in Nat
    BY <1>2
  <2> QED
    BY <2>1, <2>2
<1> QED
  BY <1>3, <1>4

\* A sum grows with what its members add.
LEMMA SumOrder ==
    ASSUME NEW S, IsFiniteSet(S), NEW f, NEW g, \A x \in S : f[x] \in Int /\ g[x] \in Int,
           \A x \in S : f[x] <= g[x]
    PROVE  SumFunctionOnSet(f, S) <= SumFunctionOnSet(g, S)
<1>1. PICK m : IsMeasure(m, f, S)
  BY MeasureExists
<1>2. PICK n : IsMeasure(n, g, S)
  BY MeasureExists
<1> DEFINE D == {T \in SUBSET S : ~(m[T] <= n[T])}
<1>3. D = {}
  <2>1. SUFFICES ASSUME D # {} PROVE FALSE
    OBVIOUS
  <2>2. PICK T \in D : \A U \in D : U \subseteq T => U = T
    <3>1. D \in SUBSET (SUBSET S)
      OBVIOUS
    <3> HIDE DEF D
    <3> QED
      BY <2>1, <3>1, SmallestSubset
  <2>3. T # {}
    <3>1. m[{}] = 0 /\ n[{}] = 0 /\ ~(m[T] <= n[T])
      BY <1>1, <1>2, <2>2 DEF IsMeasure
    <3> QED
      BY <3>1
  <2>4. PICK x \in T : TRUE
    BY <2>3
  <2>5. T \ {x} \in SUBSET S /\ T \ {x} # T
    BY <2>2, <2>4
  <2>6. /\ m[T \ {x}] <= n[T \ {x}] /\ f[x] <= g[x] /\ f[x] \in Int /\ g[x] \in Int
        /\ m[T] = f[x] + m[T \ {x}] /\ n[T] = g[x] + n[T \ {x}]
        /\ m[T \ {x}] \in Int /\ n[T \ {x}] \in Int
    BY <1>1, <1>2, <2>2, <2>4, <2>5 DEF IsMeasure
  <2> QED
    BY <2>2, <2>6
<1>4. m[S] <= n[S]
  BY <1>3
<1> QED
  BY <1>1, <1>2, <1>4, SumIsMeasure

=============================================================================
