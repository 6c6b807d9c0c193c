-------------------------------- MODULE Sums --------------------------------
(***************************************************************************)
(* Lemmas about sums over finite sets.                                      *)
(***************************************************************************)
EXTENDS Integers, FiniteSets, FiniteSetsExt, FiniteSetTheorems, WellFoundedInduction, TLAPS

(* The sum of f[x] over x in S, as MapThenSumSet computes it.               *)
SumOf(f, S) == MapThenSumSet(LAMBDA x : f[x], S)

-----------------------------------------------------------------------------
(* A non-empty set of numbers has a least one.                              *)
LEMMA LeastNumber ==
  ASSUME NEW T, T \subseteq Nat, T # {}
  PROVE  \E n \in T : \A m \in T : n <= m
<1> DEFINE R == OpToRel(<, Nat)
<1>1. IsWellFoundedOn(R, Nat)
  BY NatLessThanWellFounded
<1>2. \A m, n \in Nat : <<m, n>> \in R <=> m < n
  BY DEF OpToRel
<1> HIDE DEF R
<1>3. PICK n \in T : \A m \in T : ~(<<m, n>> \in R)
  BY <1>1, WFMin
<1>4. \A m \in T : ~(m < n)
  BY <1>2, <1>3
<1> QED
  BY <1>4

(* The element a sum takes first, and the equation of its partial sums.     *)
First(s) == CHOOSE x \in s : TRUE
PartSum(part, f, s) == IF s = {} THEN 0 ELSE f[First(s)] + part[s \ {First(s)}]
PartialSums(part, f, S) == part = [s \in SUBSET S |-> PartSum(part, f, s)]

(* A sum is the last of its partial sums.                                   *)
LEMMA SumIsPartialSum ==
  ASSUME NEW f, NEW S
  PROVE  SumOf(f, S) = (CHOOSE part : PartialSums(part, f, S))[S]
BY DEF SumOf, MapThenSumSet, MapThenFoldSet, PartialSums, PartSum, First

(* The first element is one.                                                *)
LEMMA FirstIsIn ==
  ASSUME NEW s, s # {}
  PROVE  First(s) \in s
BY DEF First

(* The partial sums of the subsets of a size can be had.                    *)
HasPartialSums(f, S, n) ==
  \E part \in [SUBSET S -> Int] :
    \A s \in SUBSET S : Cardinality(s) <= n => part[s] = PartSum(part, f, s)

(* The partial sums up to a size can be had for every size.                 *)
LEMMA PartialSumsUpTo ==
  ASSUME NEW S, IsFiniteSet(S), NEW f, \A x \in S : f[x] \in Int, NEW n \in Nat
  PROVE  HasPartialSums(f, S, n)
<1> DEFINE Good(m) == HasPartialSums(f, S, m)
           Bad == {m \in Nat : ~Good(m)}
<1>0. \A s \in SUBSET S : IsFiniteSet(s) /\ Cardinality(s) \in Nat
  BY FS_Subset, FS_CardinalityType
<1>1. Good(0)
  <2>1. [s \in SUBSET S |-> 0] \in [SUBSET S -> Int]
    OBVIOUS
  <2>2. \A s \in SUBSET S : Cardinality(s) <= 0 => s = {}
    BY <1>0, FS_EmptySet
  <2> QED
    BY <2>1, <2>2 DEF PartSum, HasPartialSums
<1>2. ASSUME NEW m \in Nat, Good(m)
      PROVE  Good(m + 1)
  <2>1. PICK part \in [SUBSET S -> Int] :
           \A s \in SUBSET S : Cardinality(s) <= m => part[s] = PartSum(part, f, s)
    BY <1>2 DEF HasPartialSums
  <2> DEFINE next == [s \in SUBSET S |-> PartSum(part, f, s)]
  <2>2. \A s \in SUBSET S : s # {} =>
          /\ First(s) \in S
          /\ s \ {First(s)} \in SUBSET S
          /\ Cardinality(s \ {First(s)}) = Cardinality(s) - 1
    BY <1>0, FirstIsIn, FS_RemoveElement
  <2>3. next \in [SUBSET S -> Int]
    BY <2>1, <2>2 DEF PartSum
  <2>4. ASSUME NEW s \in SUBSET S, Cardinality(s) <= m + 1
        PROVE  next[s] = PartSum(next, f, s)
    <3>1. CASE s = {}
      BY <3>1 DEF PartSum
    <3>2. CASE s # {}
      <4>1. Cardinality(s \ {First(s)}) <= m
        BY <2>2, <2>4, <3>2, <1>0
      <4>2. next[s \ {First(s)}] = part[s \ {First(s)}]
        BY <2>1, <2>2, <3>2, <4>1
      <4> QED
        BY <3>2, <4>2 DEF PartSum
    <3> QED
      BY <3>1, <3>2
  <2> HIDE DEF next
  <2> QED
    BY <2>3, <2>4 DEF HasPartialSums
<1>3. Bad = {}
  <2> HIDE DEF Good
  <2>1. SUFFICES ASSUME Bad # {}
                 PROVE  FALSE
    OBVIOUS
  <2>2. PICK m \in Bad : \A k \in Bad : m <= k
    BY <2>1, LeastNumber
  <2>3. m # 0
    BY <1>1, <2>2
  <2>4. m - 1 \in Nat /\ Good(m - 1)
    BY <2>2, <2>3
  <2>5. Good(m - 1 + 1)
    BY <1>2, <2>4
  <2> QED
    BY <2>2, <2>5
<1> QED
  BY <1>3

(* So they can be had for the whole set.                                    *)
LEMMA PartialSumsExist ==
  ASSUME NEW S, IsFiniteSet(S), NEW f, \A x \in S : f[x] \in Int
  PROVE  \E part \in [SUBSET S -> Int] : PartialSums(part, f, S)
<1>1. \A s \in SUBSET S : Cardinality(s) <= Cardinality(S)
  BY FS_Subset
<1>2. Cardinality(S) \in Nat
  BY FS_CardinalityType
<1>3. PICK part \in [SUBSET S -> Int] :
         \A s \in SUBSET S : Cardinality(s) <= Cardinality(S) => part[s] = PartSum(part, f, s)
  <2>1. HasPartialSums(f, S, Cardinality(S))
    BY <1>2, PartialSumsUpTo
  <2> QED
    BY <2>1 DEF HasPartialSums
<1>4. PartialSums(part, f, S)
  <2>1. part = [s \in SUBSET S |-> part[s]]
    OBVIOUS
  <2>2. [s \in SUBSET S |-> part[s]] = [s \in SUBSET S |-> PartSum(part, f, s)]
    BY <1>1, <1>3
  <2> QED
    BY <2>1, <2>2 DEF PartialSums
<1> QED
  BY <1>4

(* Partial sums depend on nothing but the values they add.                  *)
LEMMA PartialSumsAgree ==
  ASSUME NEW S, IsFiniteSet(S), NEW f, NEW g, \A x \in S : f[x] = g[x],
         NEW A, S \subseteq A, NEW p, PartialSums(p, f, A),
         NEW B, S \subseteq B, NEW q, PartialSums(q, g, B)
  PROVE  p[S] = q[S]
<1> DEFINE Bad == {n \in Nat : \E s \in SUBSET S : Cardinality(s) = n /\ p[s] # q[s]}
<1>0. \A s \in SUBSET S : IsFiniteSet(s) /\ Cardinality(s) \in Nat
  BY FS_Subset, FS_CardinalityType
<1>1. \A s \in SUBSET S : p[s] = PartSum(p, f, s) /\ q[s] = PartSum(q, g, s)
  <2>1. \A s \in SUBSET S : s \in SUBSET A /\ s \in SUBSET B
    OBVIOUS
  <2>2. p = [s \in SUBSET A |-> PartSum(p, f, s)] /\ q = [s \in SUBSET B |-> PartSum(q, g, s)]
    BY DEF PartialSums
  <2> QED
    BY <2>1, <2>2
<1>2. Bad = {}
  <2>1. SUFFICES ASSUME Bad # {}
                 PROVE  FALSE
    OBVIOUS
  <2>2. PICK n \in Bad : \A m \in Bad : n <= m
    BY <2>1, LeastNumber
  <2>3. PICK s \in SUBSET S : Cardinality(s) = n /\ p[s] # q[s]
    BY <2>2
  <2>4. s # {}
    BY <1>1, <2>3 DEF PartSum
  <2>5. First(s) \in S /\ s \ {First(s)} \in SUBSET S
        /\ Cardinality(s \ {First(s)}) = Cardinality(s) - 1
    BY <1>0, <2>4, FirstIsIn, FS_RemoveElement
  <2>6. p[s \ {First(s)}] = q[s \ {First(s)}]
    BY <1>0, <2>2, <2>3, <2>5
  <2> QED
    BY <1>1, <2>3, <2>4, <2>5, <2>6 DEF PartSum
<1> QED
  BY <1>0, <1>2

(* The partial sums that the definition of a sum chooses.                   *)
LEMMA ChosenPartialSums ==
  ASSUME NEW S, IsFiniteSet(S), NEW f, \A x \in S : f[x] \in Int
  PROVE  PartialSums(CHOOSE part : PartialSums(part, f, S), f, S)
BY PartialSumsExist, Zenon

(* A sum is the partial sum of any larger set.                              *)
LEMMA SumIsAnyPartialSum ==
  ASSUME NEW S, IsFiniteSet(S), NEW f, \A x \in S : f[x] \in Int,
         NEW g, \A x \in S : f[x] = g[x],
         NEW A, S \subseteq A, NEW p, PartialSums(p, g, A)
  PROVE  SumOf(f, S) = p[S]
<1> DEFINE q == CHOOSE part : PartialSums(part, f, S)
<1>1. PartialSums(q, f, S) /\ SumOf(f, S) = q[S]
  BY ChosenPartialSums, SumIsPartialSum
<1> HIDE DEF q
<1> QED
  BY <1>1, PartialSumsAgree

-----------------------------------------------------------------------------
(* What the sums of the models need.                                        *)

(* A sum over nothing is zero.                                              *)
LEMMA SumOfNothing == \A f : SumOf(f, {}) = 0
<1> SUFFICES ASSUME NEW f
             PROVE  SumOf(f, {}) = 0
  OBVIOUS
<1>1. IsFiniteSet({})
  BY FS_EmptySet
<1> DEFINE p == CHOOSE part : PartialSums(part, f, {})
<1>2. PartialSums(p, f, {}) /\ SumOf(f, {}) = p[{}]
  BY <1>1, ChosenPartialSums, SumIsPartialSum
<1> HIDE DEF p
<1>3. p[{}] = PartSum(p, f, {})
  BY <1>2 DEF PartialSums
<1> QED
  BY <1>2, <1>3 DEF PartSum

(* Sums of the same values are equal.                                       *)
LEMMA SumsAgree ==
  ASSUME NEW S, IsFiniteSet(S), NEW f, NEW g,
         \A x \in S : f[x] \in Int /\ f[x] = g[x]
  PROVE  SumOf(f, S) = SumOf(g, S)
<1> DEFINE p == CHOOSE part : PartialSums(part, g, S)
<1>1. PartialSums(p, g, S) /\ SumOf(g, S) = p[S]
  BY ChosenPartialSums, SumIsPartialSum
<1> HIDE DEF p
<1> QED
  BY <1>1, SumIsAnyPartialSum

(* A sum is its first element and the sum of the others.                    *)
LEMMA SumFromFirst ==
  ASSUME NEW S, IsFiniteSet(S), S # {}, NEW f, \A x \in S : f[x] \in Int
  PROVE  SumOf(f, S) = f[First(S)] + SumOf(f, S \ {First(S)})
<1> DEFINE p == CHOOSE part : PartialSums(part, f, S)
<1>1. PartialSums(p, f, S) /\ SumOf(f, S) = p[S]
  BY ChosenPartialSums, SumIsPartialSum
<1> HIDE DEF p
<1>2. p[S] = PartSum(p, f, S)
  BY <1>1 DEF PartialSums
<1>3. IsFiniteSet(S \ {First(S)})
  BY FS_RemoveElement
<1>4. SumOf(f, S \ {First(S)}) = p[S \ {First(S)}]
  <2> DEFINE R == S \ {First(S)}
  <2>1. R \subseteq S /\ IsFiniteSet(R)
    BY <1>3
  <2> HIDE DEF R
  <2>2. SumOf(f, R) = p[R]
    BY <1>1, <2>1, SumIsAnyPartialSum
  <2> QED
    BY <2>2 DEF R
<1> QED
  BY <1>1, <1>2, <1>4 DEF PartSum

(* The smallest of the sets of which something is false.                    *)
LEMMA SmallestSet ==
  ASSUME NEW F, \A S \in F : IsFiniteSet(S), F # {}
  PROVE  \E S \in F : \A R \in F : Cardinality(S) <= Cardinality(R)
<1> DEFINE T == {n \in Nat : \E S \in F : Cardinality(S) = n}
<1>1. \A S \in F : Cardinality(S) \in T
  BY FS_CardinalityType
<1>2. T # {} /\ T \subseteq Nat
  BY <1>1
<1>3. PICK n \in T : \A m \in T : n <= m
  <2> HIDE DEF T
  <2> QED
    BY <1>2, LeastNumber
<1> QED
  BY <1>1, <1>3

(* A sum is an integer.                                                     *)
LEMMA SumType ==
  ASSUME NEW S, IsFiniteSet(S), NEW f, \A x \in S : f[x] \in Int
  PROVE  SumOf(f, S) \in Int
<1> DEFINE Bad == {R \in SUBSET S : SumOf(f, R) \notin Int}
<1>0. \A R \in SUBSET S : IsFiniteSet(R) /\ Cardinality(R) \in Nat
  BY FS_Subset, FS_CardinalityType
<1>1. SUFFICES ASSUME Bad # {}
               PROVE  FALSE
  OBVIOUS
<1>2. PICK R \in Bad : \A Q \in Bad : Cardinality(R) <= Cardinality(Q)
  BY <1>0, <1>1, SmallestSet
<1>3. R # {}
  BY <1>2, SumOfNothing
<1>4. First(R) \in R /\ R \ {First(R)} \in SUBSET S
      /\ Cardinality(R \ {First(R)}) = Cardinality(R) - 1
  BY <1>0, <1>3, FirstIsIn, FS_RemoveElement
<1>5. SumOf(f, R \ {First(R)}) \in Int
  BY <1>0, <1>2, <1>4
<1>6. SumOf(f, R) = f[First(R)] + SumOf(f, R \ {First(R)})
  BY <1>0, <1>3, SumFromFirst
<1> QED
  BY <1>2, <1>4, <1>5, <1>6

(* Any element may be taken out of a sum.                                   *)
LEMMA SumWithout ==
  ASSUME NEW S, IsFiniteSet(S), NEW f, \A x \in S : f[x] \in Int, NEW e \in S
  PROVE  SumOf(f, S) = f[e] + SumOf(f, S \ {e})
<1> DEFINE Bad == {R \in SUBSET S : \E x \in R : SumOf(f, R) # f[x] + SumOf(f, R \ {x})}
<1>0. \A R \in SUBSET S : /\ IsFiniteSet(R) /\ Cardinality(R) \in Nat
                          /\ SumOf(f, R) \in Int
                          /\ \A x \in R : Cardinality(R \ {x}) = Cardinality(R) - 1
  BY FS_Subset, FS_CardinalityType, FS_RemoveElement, SumType
<1>1. SUFFICES ASSUME Bad # {}
               PROVE  FALSE
  OBVIOUS
<1>2. PICK R \in Bad : \A Q \in Bad : Cardinality(R) <= Cardinality(Q)
  BY <1>0, <1>1, SmallestSet
<1>3. PICK x \in R : SumOf(f, R) # f[x] + SumOf(f, R \ {x})
  BY <1>2
<1> DEFINE y == First(R)
           B == R \ {x}
           C == R \ {y}
<1>4. y \in R /\ SumOf(f, R) = f[y] + SumOf(f, C)
  BY <1>0, <1>2, <1>3, FirstIsIn, SumFromFirst
<1> HIDE DEF y
<1>5. x # y
  BY <1>3, <1>4
<1>6. B \in SUBSET S /\ C \in SUBSET S /\ Cardinality(B) < Cardinality(R)
      /\ Cardinality(C) < Cardinality(R)
  BY <1>0, <1>2, <1>3, <1>4
<1>7. SumOf(f, C) = f[x] + SumOf(f, C \ {x}) /\ SumOf(f, B) = f[y] + SumOf(f, B \ {y})
  <2>1. C \notin Bad /\ B \notin Bad
    <3>1. \A Q \in Bad : Q \in SUBSET S /\ ~(Cardinality(Q) < Cardinality(R))
      BY <1>0, <1>2
    <3> HIDE DEF Bad
    <3> QED
      BY <1>6, <3>1
  <2>2. x \in C /\ y \in B
    BY <1>4, <1>5
  <2> QED
    BY <1>6, <2>1, <2>2
<1>8. C \ {x} = B \ {y} /\ B \ {y} \in SUBSET S
  BY <1>6
<1>9. f[x] \in Int /\ f[y] \in Int /\ SumOf(f, B \ {y}) \in Int
  BY <1>0, <1>2, <1>4, <1>8
<1> HIDE DEF B, C
<1>10. SumOf(f, C \ {x}) = SumOf(f, B \ {y})
  BY <1>8, Zenon
<1>11. SumOf(f, R) = f[x] + SumOf(f, B)
  BY <1>4, <1>7, <1>9, <1>10
<1> QED
  BY <1>3, <1>11 DEF B

(* A value added to a set adds its term.                                    *)
LEMMA SumWith ==
  ASSUME NEW S, IsFiniteSet(S), NEW e, e \notin S,
         NEW f, \A x \in S \cup {e} : f[x] \in Int
  PROVE  SumOf(f, S \cup {e}) = SumOf(f, S) + f[e]
<1> DEFINE T == S \cup {e}
<1>1. IsFiniteSet(T)
  BY FS_AddElement
<1>2. T \ {e} = S /\ e \in T
  OBVIOUS
<1>3. SumOf(f, S) \in Int
  BY SumType
<1> HIDE DEF T
<1>4. SumOf(f, T) = f[e] + SumOf(f, T \ {e})
  BY <1>1, <1>2, SumWithout DEF T
<1>5. SumOf(f, T) = SumOf(f, S) + f[e]
  <2>1. f[e] \in Int
    OBVIOUS
  <2>2. SumOf(f, T) = f[e] + SumOf(f, S)
    BY <1>2, <1>4, Zenon
  <2> QED
    BY <1>3, <2>1, <2>2
<1> QED
  BY <1>5 DEF T

(* A change of one term changes the sum by as much.                         *)
LEMMA SumChanges ==
  ASSUME NEW S, IsFiniteSet(S), NEW e \in S,
         NEW f, \A x \in S : f[x] \in Int, NEW g, g[e] \in Int,
         \A x \in S \ {e} : g[x] = f[x]
  PROVE  SumOf(g, S) = SumOf(f, S) - f[e] + g[e]
<1>1. IsFiniteSet(S \ {e})
  BY FS_RemoveElement
<1>2. SumOf(g, S \ {e}) = SumOf(f, S \ {e}) /\ SumOf(f, S \ {e}) \in Int
  <2> DEFINE R == S \ {e}
  <2>1. IsFiniteSet(R) /\ \A x \in R : f[x] \in Int /\ f[x] = g[x]
    BY <1>1
  <2> HIDE DEF R
  <2>2. SumOf(g, R) = SumOf(f, R) /\ SumOf(f, R) \in Int
    BY <2>1, SumsAgree, SumType
  <2> QED
    BY <2>2 DEF R
<1>3. SumOf(f, S) = f[e] + SumOf(f, S \ {e})
  BY SumWithout
<1>4. SumOf(g, S) = g[e] + SumOf(g, S \ {e})
  <2>1. \A x \in S : g[x] \in Int
    OBVIOUS
  <2> QED
    BY <2>1, SumWithout
<1> QED
  BY <1>2, <1>3, <1>4

(* Part of a sum of numbers is no more than the whole.                      *)
LEMMA PartOfSum ==
  ASSUME NEW T, IsFiniteSet(T), NEW S, S \subseteq T, NEW f, \A x \in T : f[x] \in Nat
  PROVE  SumOf(f, S) <= SumOf(f, T)
<1> DEFINE Bad == {R \in SUBSET T : S \subseteq R /\ ~(SumOf(f, S) <= SumOf(f, R))}
<1>0. \A R \in SUBSET T : /\ IsFiniteSet(R) /\ Cardinality(R) \in Nat
                          /\ SumOf(f, R) \in Int
                          /\ \A x \in R : Cardinality(R \ {x}) = Cardinality(R) - 1
  BY FS_Subset, FS_CardinalityType, FS_RemoveElement, SumType
<1>1. SUFFICES ASSUME Bad # {}
               PROVE  FALSE
  OBVIOUS
<1>2. PICK R \in Bad : \A Q \in Bad : Cardinality(R) <= Cardinality(Q)
  BY <1>0, <1>1, SmallestSet
<1>3. PICK x \in R : x \notin S
  <2>1. R # S
    BY <1>0, <1>2
  <2> QED
    BY <1>2, <2>1
<1>4. R \ {x} \in SUBSET T /\ S \subseteq R \ {x} /\ Cardinality(R \ {x}) = Cardinality(R) - 1
  BY <1>0, <1>2, <1>3
<1>5. SumOf(f, S) <= SumOf(f, R \ {x})
  BY <1>0, <1>2, <1>4
<1>6. SumOf(f, R) = f[x] + SumOf(f, R \ {x}) /\ f[x] \in Nat
  BY <1>0, <1>2, <1>3, SumWithout
<1> QED
  BY <1>0, <1>2, <1>4, <1>5, <1>6

(* A sum of zeros is zero.                                                  *)
LEMMA SumOfZeros ==
  ASSUME NEW S, IsFiniteSet(S), NEW f, \A x \in S : f[x] = 0
  PROVE  SumOf(f, S) = 0
<1> DEFINE Bad == {R \in SUBSET S : SumOf(f, R) # 0}
<1>0. \A R \in SUBSET S : IsFiniteSet(R) /\ Cardinality(R) \in Nat
  BY FS_Subset, FS_CardinalityType
<1>1. SUFFICES ASSUME Bad # {}
               PROVE  FALSE
  OBVIOUS
<1>2. PICK R \in Bad : \A Q \in Bad : Cardinality(R) <= Cardinality(Q)
  BY <1>0, <1>1, SmallestSet
<1>3. R # {}
  BY <1>2, SumOfNothing
<1>4. First(R) \in R /\ R \ {First(R)} \in SUBSET S
      /\ Cardinality(R \ {First(R)}) = Cardinality(R) - 1
  BY <1>0, <1>3, FirstIsIn, FS_RemoveElement
<1>5. SumOf(f, R \ {First(R)}) = 0
  BY <1>0, <1>2, <1>4
<1>6. SumOf(f, R) = f[First(R)] + SumOf(f, R \ {First(R)})
  BY <1>0, <1>2, <1>3, SumFromFirst
<1> QED
  BY <1>2, <1>4, <1>5, <1>6
=============================================================================
