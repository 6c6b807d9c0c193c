-------------------------- MODULE Retrieval_proofs --------------------------
(***************************************************************************)
(* What retrieve and resolve return for every table and every answer.  The  *)
(* loops are folds; a fold goes through the values h[0], h[1], ..., each    *)
(* the step of the one before, and what holds of h[0] and is kept by a step *)
(* holds of the result.                                                     *)
(***************************************************************************)
EXTENDS Retrieval, Sums

(* What holds of 0 and, of i - 1, also of i, holds up to n.                 *)
LEMMA UpTo ==
  ASSUME NEW n \in Nat, NEW good, 0 \in good, \A i \in 1 .. n : i - 1 \in good => i \in good
  PROVE  \A i \in 0 .. n : i \in good
<1> DEFINE bad == (0 .. n) \ good
<1>1. SUFFICES ASSUME bad # {}
               PROVE  FALSE
  OBVIOUS
<1>2. PICK m \in bad : \A k \in bad : m <= k
  BY <1>1, LeastNumber, bad \subseteq Nat
<1>3. m # 0 /\ m \in 1 .. n /\ m - 1 \in 0 .. n
  BY <1>2
<1>4. m - 1 \notin bad
  BY <1>2, <1>3
<1> QED
  BY <1>2, <1>3, <1>4

(* A non-empty set of numbers up to n has a greatest one.                   *)
LEMMA Greatest ==
  ASSUME NEW n \in Nat, NEW s \in SUBSET (1 .. n), s # {}
  PROVE  Max(s) \in s /\ \A x \in s : x <= Max(s)
<1> DEFINE bounds == {b \in Nat : \A x \in s : x <= b}
<1>1. n \in bounds
  OBVIOUS
<1>2. PICK b \in bounds : \A k \in bounds : b <= k
  BY <1>1, LeastNumber, bounds \subseteq Nat
<1>3. b \in s
  <2>1. SUFFICES ASSUME b \notin s
                 PROVE  FALSE
    OBVIOUS
  <2>2. \A x \in s : x <= b - 1
    BY <1>2, <2>1
  <2>3. b - 1 \in bounds
    <3>1. PICK x \in s : TRUE
      OBVIOUS
    <3>2. x >= 1 /\ x <= b
      BY <1>2
    <3> QED
      BY <2>2, <3>2
  <2> QED
    BY <2>3, <1>2
<1>4. \E x \in s : \A y \in s : x >= y
  BY <1>2, <1>3
<1>5. Max(s) \in s /\ \A y \in s : Max(s) >= y
  BY <1>4 DEF Max
<1> QED
  BY <1>5

(* The value of a fold over the indices s, from its value over all of them  *)
(* but the greatest.                                                        *)
Part(it, g, base, s) == IF s = {} THEN base ELSE g[<<it[s \ {Max(s)}], Max(s)>>]

(* g steps from a value in A to a value in A.                               *)
IsStep(g, A, n) == \A a \in A, i \in 1 .. n : g[<<a, i>>] \in A

(* it folds over every set of indices; it does wherever its values are in A.*)
FoldsAll(it, g, base, n) == \A s \in SUBSET (1 .. n) : it[s] = Part(it, g, base, s)
FoldsIn(it, g, base, n, A) ==
  /\ it[{}] = base
  /\ \A s \in SUBSET (1 .. n) :
       s # {} /\ it[s \ {Max(s)}] \in A => it[s] = g[<<it[s \ {Max(s)}], Max(s)>>]

(* h goes from base through n steps.                                        *)
StepsTo(h, g, base, n) == h[0] = base /\ \A i \in 1 .. n : h[i] = g[<<h[i - 1], i>>]

(* There is a function that folds over every set of indices.                *)
LEMMA FoldsExist ==
  ASSUME NEW n \in Nat, NEW A, NEW base \in A, NEW g, IsStep(g, A, n)
  PROVE  \E it \in [SUBSET (1 .. n) -> A] : FoldsAll(it, g, base, n)
<1> DEFINE Has(m) == \E it \in [SUBSET (1 .. m) -> A] : FoldsAll(it, g, base, m)
           good == {m \in 0 .. n : Has(m)}
<1>1. 0 \in good
  <2>1. [s \in SUBSET (1 .. 0) |-> base] \in [SUBSET (1 .. 0) -> A]
    OBVIOUS
  <2>2. \A s \in SUBSET (1 .. 0) : s = {}
    OBVIOUS
  <2>3. Has(0)
    <3> DEFINE it == [s \in SUBSET (1 .. 0) |-> base]
    <3>1. \A s \in SUBSET (1 .. 0) : it[s] = Part(it, g, base, s)
      BY <2>2 DEF Part
    <3> QED
      BY <2>1, <3>1 DEF FoldsAll
  <2> HIDE DEF Has
  <2> QED
    BY <2>3
<1>2. ASSUME NEW m \in 1 .. n, m - 1 \in good
      PROVE  m \in good
  <2>1. PICK it \in [SUBSET (1 .. (m - 1)) -> A] :
               \A s \in SUBSET (1 .. (m - 1)) : it[s] = Part(it, g, base, s)
    BY <1>2 DEF FoldsAll
  <2> DEFINE next == [s \in SUBSET (1 .. m) |->
                        IF m \in s THEN g[<<it[s \ {m}], m>>] ELSE it[s]]
  <2>2. \A s \in SUBSET (1 .. m) : /\ s \ {m} \in SUBSET (1 .. (m - 1))
                                   /\ m \notin s => s \in SUBSET (1 .. (m - 1))
    OBVIOUS
  <2>3. next \in [SUBSET (1 .. m) -> A]
    <3> SUFFICES ASSUME NEW s \in SUBSET (1 .. m)
                 PROVE  next[s] \in A
      OBVIOUS
    <3>1. it[s \ {m}] \in A
      BY <2>2
    <3>2. g[<<it[s \ {m}], m>>] \in A
      BY <3>1 DEF IsStep
    <3> QED
      BY <3>2, <2>2
  <2>4. ASSUME NEW s \in SUBSET (1 .. m)
        PROVE  next[s] = Part(next, g, base, s)
    <3>1. CASE m \in s
      <4>1. Max(s) = m
        <5>1. m \in Nat /\ s # {}
          BY <3>1
        <5>2. Max(s) \in s /\ \A x \in s : x <= Max(s)
          BY <5>1, Greatest
        <5>3. Max(s) \in 1 .. m /\ m <= Max(s)
          BY <3>1, <5>2
        <5> QED
          BY <5>3
      <4>2. next[s \ {m}] = it[s \ {m}]
        BY <2>2, s \ {m} \in SUBSET (1 .. m)
      <4> QED
        BY <3>1, <4>1, <4>2 DEF Part
    <3>2. CASE m \notin s
      <4>1. s \in SUBSET (1 .. (m - 1)) /\ next[s] = it[s] /\ it[s] = Part(it, g, base, s)
        BY <2>1, <2>2, <3>2
      <4>2. next[s \ {Max(s)}] = it[s \ {Max(s)}]
        BY <3>2, <2>2, s \ {Max(s)} \in SUBSET (1 .. m)
      <4> QED
        BY <4>1, <4>2 DEF Part
    <3> QED
      BY <3>1, <3>2
  <2> HIDE DEF next
  <2>5. Has(m)
    BY <2>3, <2>4 DEF FoldsAll
  <2> HIDE DEF Has
  <2> QED
    BY <2>5
<1> HIDE DEF good
<1>3. n \in good
  BY <1>1, <1>2, UpTo
<1> QED
  BY <1>3 DEF good

(* A fold goes through its values over the first i indices.                 *)
LEMMA FoldSteps ==
  ASSUME NEW n \in Nat, NEW A, NEW base \in A, NEW g, IsStep(g, A, n),
         NEW it, FoldsIn(it, g, base, n, A)
  PROVE  \E h \in [0 .. n -> A] : StepsTo(h, g, base, n) /\ h[n] = it[1 .. n]
<1> DEFINE good == {i \in 0 .. n : it[1 .. i] \in A}
           h == [i \in 0 .. n |-> it[1 .. i]]
<1>1. 1 .. 0 = {} /\ it[{}] = base
  BY DEF FoldsIn
<1>2. ASSUME NEW i \in 1 .. n, it[1 .. (i - 1)] \in A
      PROVE  it[1 .. i] = g[<<it[1 .. (i - 1)], i>>]
  <2>1. 1 .. i \in SUBSET (1 .. n) /\ 1 .. i # {}
    OBVIOUS
  <2>2. Max(1 .. i) = i
    <3> DEFINE s == 1 .. i
    <3>1. i \in s /\ s \in SUBSET (1 .. i) /\ i \in Nat
      OBVIOUS
    <3> HIDE DEF s
    <3>2. Max(s) \in s /\ \A x \in s : x <= Max(s)
      BY <3>1, Greatest
    <3>3. Max(s) \in 1 .. i /\ i <= Max(s)
      BY <3>1, <3>2
    <3> QED
      BY <3>3 DEF s
  <2>3. (1 .. i) \ {i} = 1 .. (i - 1)
    OBVIOUS
  <2> QED
    BY <1>2, <2>1, <2>2, <2>3 DEF FoldsIn
<1>3. \A i \in 0 .. n : i \in good
  <2>1. 0 \in good
    BY <1>1
  <2>2. ASSUME NEW i \in 1 .. n, i - 1 \in good
        PROVE  i \in good
    <3>1. it[1 .. (i - 1)] \in A
      BY <2>2
    <3>2. g[<<it[1 .. (i - 1)], i>>] \in A
      BY <3>1 DEF IsStep
    <3> QED
      BY <3>1, <3>2, <1>2
  <2> HIDE DEF good
  <2> QED
    BY <2>1, <2>2, UpTo
<1>4. h \in [0 .. n -> A]
  BY <1>3
<1>5. h[0] = base /\ h[n] = it[1 .. n]
  BY <1>1
<1>6. \A i \in 1 .. n : h[i] = g[<<h[i - 1], i>>]
  <2> SUFFICES ASSUME NEW i \in 1 .. n
               PROVE  h[i] = g[<<h[i - 1], i>>]
    OBVIOUS
  <2>1. i - 1 \in 0 .. n /\ i \in 0 .. n
    OBVIOUS
  <2>2. it[1 .. (i - 1)] \in A
    BY <2>1, <1>3
  <2> QED
    BY <2>1, <2>2, <1>2
<1> HIDE DEF h
<1> QED
  BY <1>4, <1>5, <1>6 DEF StepsTo

-----------------------------------------------------------------------------
(* The four loops.                                                          *)

(* The loop of retrieve passes over a row.                                  *)
Skips(c, chosen, chunk) ==
  Len(chosen) = c.topK \/ Repeats(chosen, chunk) \/ Spent(chosen) + chunk.tokens > c.budget

(* Only keeps or passes over one element after the other.                   *)
OnlyWalk(h, seq, S, B) ==
  /\ h \in [0 .. Len(seq) -> Seq(B)] /\ h[0] = <<>> /\ h[Len(seq)] = Only(seq, S)
  /\ \A i \in 1 .. Len(seq) : h[i] = IF seq[i] \in S THEN Append(h[i - 1], seq[i]) ELSE h[i - 1]

(* Its values can be had.                                                   *)
LEMMA OnlySteps ==
  ASSUME NEW B, NEW seq \in Seq(B), NEW S
  PROVE  \E h : OnlyWalk(h, seq, S, B)
<1> DEFINE n == Len(seq)
           A == Seq(B)
           g == [p \in A \X (1 .. n) |-> IF seq[p[2]] \in S THEN Append(p[1], seq[p[2]]) ELSE p[1]]
           Fold(it) == it = [s \in SUBSET (DOMAIN seq) |->
                               IF s = {} THEN <<>>
                               ELSE IF seq[Max(s)] \in S THEN Append(it[s \ {Max(s)}], seq[Max(s)]) ELSE it[s \ {Max(s)}]]
<1>1. n \in Nat /\ DOMAIN seq = 1 .. n /\ <<>> \in A /\ IsStep(g, A, n)
  <2>1. n \in Nat /\ DOMAIN seq = 1 .. n /\ <<>> \in A
    OBVIOUS
  <2>2. \A a \in A, i \in 1 .. n : (IF seq[i] \in S THEN Append(a, seq[i]) ELSE a) \in A
    OBVIOUS
  <2> QED
    BY <2>1, <2>2 DEF IsStep
<1>2. \A a \in A, i \in 1 .. n : g[<<a, i>>] = IF seq[i] \in S THEN Append(a, seq[i]) ELSE a
  OBVIOUS
<1>3. Only(seq, S) = (CHOOSE it : Fold(it))[DOMAIN seq]
  BY DEF Only, FoldLeft, MapThenFoldSet
<1> HIDE DEF A, g, n
<1>4. \E it : Fold(it)
  <2>1. PICK it \in [SUBSET (1 .. n) -> A] : FoldsAll(it, g, <<>>, n)
    BY <1>1, FoldsExist
  <2>2. ASSUME NEW s \in SUBSET (DOMAIN seq), s # {}
        PROVE  Max(s) \in 1 .. n /\ it[s \ {Max(s)}] \in A
    <3>1. Max(s) \in 1 .. n
      BY <1>1, <2>2, Greatest
    <3> QED
      BY <1>1, <2>1, <3>1
  <2>3. ASSUME NEW s \in SUBSET (DOMAIN seq)
        PROVE  it[s] = IF s = {} THEN <<>>
                       ELSE IF seq[Max(s)] \in S THEN Append(it[s \ {Max(s)}], seq[Max(s)]) ELSE it[s \ {Max(s)}]
    BY <1>1, <1>2, <2>1, <2>2 DEF FoldsAll, Part
  <2>4. DOMAIN it = SUBSET (DOMAIN seq) /\ it = [s \in DOMAIN it |-> it[s]]
    BY <1>1, <2>1
  <2>5. Fold(it)
    BY <2>3, <2>4
  <2> HIDE DEF Fold
  <2> QED
    BY <2>5
<1>5. PICK it : Fold(it) /\ Only(seq, S) = it[1 .. n]
  BY <1>1, <1>3, <1>4
<1>6. FoldsIn(it, g, <<>>, n, A)
  <2>1. it[{}] = <<>>
    BY <1>5
  <2>2. ASSUME NEW s \in SUBSET (1 .. n), s # {}, it[s \ {Max(s)}] \in A
        PROVE  it[s] = g[<<it[s \ {Max(s)}], Max(s)>>]
    <3>1. Max(s) \in 1 .. n
      BY <1>1, <2>2, Greatest
    <3> QED
      BY <1>1, <1>2, <1>5, <2>2, <3>1
  <2> QED
    BY <2>1, <2>2 DEF FoldsIn
<1>7. PICK h \in [0 .. n -> A] : StepsTo(h, g, <<>>, n) /\ h[n] = it[1 .. n]
  BY <1>1, <1>6, FoldSteps
<1>8. \A i \in 1 .. n : h[i] = IF seq[i] \in S THEN Append(h[i - 1], seq[i]) ELSE h[i - 1]
  <2>1. \A i \in 1 .. n : i - 1 \in 0 .. n
    BY <1>1
  <2> QED
    BY <1>2, <1>7, <2>1 DEF StepsTo
<1>9. OnlyWalk(h, seq, S, B)
  BY <1>5, <1>7, <1>8 DEF n, A, StepsTo, OnlyWalk
<1> QED
  BY <1>9

(* Spent adds one after the other.                                          *)
SpentWalk(h, seq) ==
  /\ h \in [0 .. Len(seq) -> Nat] /\ h[0] = 0 /\ h[Len(seq)] = Spent(seq)
  /\ \A i \in 1 .. Len(seq) : h[i] = h[i - 1] + seq[i].tokens

(* Its values can be had.                                                   *)
LEMMA SpentSteps ==
  ASSUME NEW B, \A b \in B : b.tokens \in Nat, NEW seq \in Seq(B)
  PROVE  \E h : SpentWalk(h, seq)
<1> DEFINE n == Len(seq)
           A == Nat
           g == [p \in A \X (1 .. n) |-> p[1] + seq[p[2]].tokens]
           Fold(it) == it = [s \in SUBSET (DOMAIN seq) |->
                               IF s = {} THEN 0
                               ELSE it[s \ {Max(s)}] + seq[Max(s)].tokens]
<1>1. n \in Nat /\ DOMAIN seq = 1 .. n /\ 0 \in A /\ IsStep(g, A, n)
  <2>1. n \in Nat /\ DOMAIN seq = 1 .. n /\ 0 \in A
    OBVIOUS
  <2>2. \A a \in A, i \in 1 .. n : (a + seq[i].tokens) \in A
    OBVIOUS
  <2> QED
    BY <2>1, <2>2 DEF IsStep
<1>2. \A a \in A, i \in 1 .. n : g[<<a, i>>] = a + seq[i].tokens
  OBVIOUS
<1>3. Spent(seq) = (CHOOSE it : Fold(it))[DOMAIN seq]
  BY DEF Spent, FoldLeft, MapThenFoldSet
<1> HIDE DEF A, g, n
<1>4. \E it : Fold(it)
  <2>1. PICK it \in [SUBSET (1 .. n) -> A] : FoldsAll(it, g, 0, n)
    BY <1>1, FoldsExist
  <2>2. ASSUME NEW s \in SUBSET (DOMAIN seq), s # {}
        PROVE  Max(s) \in 1 .. n /\ it[s \ {Max(s)}] \in A
    <3>1. Max(s) \in 1 .. n
      BY <1>1, <2>2, Greatest
    <3> QED
      BY <1>1, <2>1, <3>1
  <2>3. ASSUME NEW s \in SUBSET (DOMAIN seq)
        PROVE  it[s] = IF s = {} THEN 0
                       ELSE it[s \ {Max(s)}] + seq[Max(s)].tokens
    BY <1>1, <1>2, <2>1, <2>2 DEF FoldsAll, Part
  <2>4. DOMAIN it = SUBSET (DOMAIN seq) /\ it = [s \in DOMAIN it |-> it[s]]
    BY <1>1, <2>1
  <2>5. Fold(it)
    BY <2>3, <2>4
  <2> HIDE DEF Fold
  <2> QED
    BY <2>5
<1>5. PICK it : Fold(it) /\ Spent(seq) = it[1 .. n]
  BY <1>1, <1>3, <1>4
<1>6. FoldsIn(it, g, 0, n, A)
  <2>1. it[{}] = 0
    BY <1>5
  <2>2. ASSUME NEW s \in SUBSET (1 .. n), s # {}, it[s \ {Max(s)}] \in A
        PROVE  it[s] = g[<<it[s \ {Max(s)}], Max(s)>>]
    <3>1. Max(s) \in 1 .. n
      BY <1>1, <2>2, Greatest
    <3> QED
      BY <1>1, <1>2, <1>5, <2>2, <3>1
  <2> QED
    BY <2>1, <2>2 DEF FoldsIn
<1>7. PICK h \in [0 .. n -> A] : StepsTo(h, g, 0, n) /\ h[n] = it[1 .. n]
  BY <1>1, <1>6, FoldSteps
<1>8. \A i \in 1 .. n : h[i] = h[i - 1] + seq[i].tokens
  <2>1. \A i \in 1 .. n : i - 1 \in 0 .. n
    BY <1>1
  <2> QED
    BY <1>2, <1>7, <2>1 DEF StepsTo
<1>9. SpentWalk(h, seq)
  BY <1>5, <1>7, <1>8 DEF n, A, StepsTo, SpentWalk
<1> QED
  BY <1>9

(* CitedMarkers takes a number it has not found yet.                        *)
MarkersWalk(h, seq, B) ==
  /\ h \in [0 .. Len(seq) -> Seq(B)] /\ h[0] = <<>> /\ h[Len(seq)] = CitedMarkers(seq)
  /\ \A i \in 1 .. Len(seq) : h[i] = IF Contains(h[i - 1], seq[i]) THEN h[i - 1] ELSE Append(h[i - 1], seq[i])

(* Its values can be had.                                                   *)
LEMMA MarkersSteps ==
  ASSUME NEW B, NEW seq \in Seq(B)
  PROVE  \E h : MarkersWalk(h, seq, B)
<1> DEFINE n == Len(seq)
           A == Seq(B)
           g == [p \in A \X (1 .. n) |-> IF Contains(p[1], seq[p[2]]) THEN p[1] ELSE Append(p[1], seq[p[2]])]
           Fold(it) == it = [s \in SUBSET (DOMAIN seq) |->
                               IF s = {} THEN <<>>
                               ELSE IF Contains(it[s \ {Max(s)}], seq[Max(s)]) THEN it[s \ {Max(s)}] ELSE Append(it[s \ {Max(s)}], seq[Max(s)])]
<1>1. n \in Nat /\ DOMAIN seq = 1 .. n /\ <<>> \in A /\ IsStep(g, A, n)
  <2>1. n \in Nat /\ DOMAIN seq = 1 .. n /\ <<>> \in A
    OBVIOUS
  <2>2. \A a \in A, i \in 1 .. n : (IF Contains(a, seq[i]) THEN a ELSE Append(a, seq[i])) \in A
    OBVIOUS
  <2> QED
    BY <2>1, <2>2 DEF IsStep
<1>2. \A a \in A, i \in 1 .. n : g[<<a, i>>] = IF Contains(a, seq[i]) THEN a ELSE Append(a, seq[i])
  OBVIOUS
<1>3. CitedMarkers(seq) = (CHOOSE it : Fold(it))[DOMAIN seq]
  BY DEF CitedMarkers, FoldLeft, MapThenFoldSet
<1> HIDE DEF A, g, n
<1>4. \E it : Fold(it)
  <2>1. PICK it \in [SUBSET (1 .. n) -> A] : FoldsAll(it, g, <<>>, n)
    BY <1>1, FoldsExist
  <2>2. ASSUME NEW s \in SUBSET (DOMAIN seq), s # {}
        PROVE  Max(s) \in 1 .. n /\ it[s \ {Max(s)}] \in A
    <3>1. Max(s) \in 1 .. n
      BY <1>1, <2>2, Greatest
    <3> QED
      BY <1>1, <2>1, <3>1
  <2>3. ASSUME NEW s \in SUBSET (DOMAIN seq)
        PROVE  it[s] = IF s = {} THEN <<>>
                       ELSE IF Contains(it[s \ {Max(s)}], seq[Max(s)]) THEN it[s \ {Max(s)}] ELSE Append(it[s \ {Max(s)}], seq[Max(s)])
    BY <1>1, <1>2, <2>1, <2>2 DEF FoldsAll, Part
  <2>4. DOMAIN it = SUBSET (DOMAIN seq) /\ it = [s \in DOMAIN it |-> it[s]]
    BY <1>1, <2>1
  <2>5. Fold(it)
    BY <2>3, <2>4
  <2> HIDE DEF Fold
  <2> QED
    BY <2>5
<1>5. PICK it : Fold(it) /\ CitedMarkers(seq) = it[1 .. n]
  BY <1>1, <1>3, <1>4
<1>6. FoldsIn(it, g, <<>>, n, A)
  <2>1. it[{}] = <<>>
    BY <1>5
  <2>2. ASSUME NEW s \in SUBSET (1 .. n), s # {}, it[s \ {Max(s)}] \in A
        PROVE  it[s] = g[<<it[s \ {Max(s)}], Max(s)>>]
    <3>1. Max(s) \in 1 .. n
      BY <1>1, <2>2, Greatest
    <3> QED
      BY <1>1, <1>2, <1>5, <2>2, <3>1
  <2> QED
    BY <2>1, <2>2 DEF FoldsIn
<1>7. PICK h \in [0 .. n -> A] : StepsTo(h, g, <<>>, n) /\ h[n] = it[1 .. n]
  BY <1>1, <1>6, FoldSteps
<1>8. \A i \in 1 .. n : h[i] = IF Contains(h[i - 1], seq[i]) THEN h[i - 1] ELSE Append(h[i - 1], seq[i])
  <2>1. \A i \in 1 .. n : i - 1 \in 0 .. n
    BY <1>1
  <2> QED
    BY <1>2, <1>7, <2>1 DEF StepsTo
<1>9. MarkersWalk(h, seq, B)
  BY <1>5, <1>7, <1>8 DEF n, A, StepsTo, MarkersWalk
<1> QED
  BY <1>9

(* Chosen takes a row unless it is full or the row repeats or is too long.  *)
ChosenWalk(h, c, seq, B) ==
  /\ h \in [0 .. Len(seq) -> Seq(B)] /\ h[0] = <<>> /\ h[Len(seq)] = Chosen(c)
  /\ \A i \in 1 .. Len(seq) : h[i] = IF Skips(c, h[i - 1], seq[i]) THEN h[i - 1] ELSE Append(h[i - 1], seq[i])

(* Its values can be had.                                                   *)
LEMMA ChosenSteps ==
  ASSUME NEW B, NEW c, NEW seq \in Seq(B), seq = Rows(c)
  PROVE  \E h : ChosenWalk(h, c, seq, B)
<1> DEFINE n == Len(seq)
           A == Seq(B)
           g == [p \in A \X (1 .. n) |-> IF Skips(c, p[1], seq[p[2]]) THEN p[1] ELSE Append(p[1], seq[p[2]])]
           Fold(it) == it = [s \in SUBSET (DOMAIN seq) |->
                               IF s = {} THEN <<>>
                               ELSE IF Skips(c, it[s \ {Max(s)}], seq[Max(s)]) THEN it[s \ {Max(s)}] ELSE Append(it[s \ {Max(s)}], seq[Max(s)])]
<1>1. n \in Nat /\ DOMAIN seq = 1 .. n /\ <<>> \in A /\ IsStep(g, A, n)
  <2>1. n \in Nat /\ DOMAIN seq = 1 .. n /\ <<>> \in A
    OBVIOUS
  <2>2. \A a \in A, i \in 1 .. n : (IF Skips(c, a, seq[i]) THEN a ELSE Append(a, seq[i])) \in A
    OBVIOUS
  <2> QED
    BY <2>1, <2>2 DEF IsStep
<1>2. \A a \in A, i \in 1 .. n : g[<<a, i>>] = IF Skips(c, a, seq[i]) THEN a ELSE Append(a, seq[i])
  OBVIOUS
<1>3. Chosen(c) = (CHOOSE it : Fold(it))[DOMAIN seq]
  BY DEF Chosen, Skips, FoldLeft, MapThenFoldSet
<1> HIDE DEF A, g, n
<1>4. \E it : Fold(it)
  <2>1. PICK it \in [SUBSET (1 .. n) -> A] : FoldsAll(it, g, <<>>, n)
    BY <1>1, FoldsExist
  <2>2. ASSUME NEW s \in SUBSET (DOMAIN seq), s # {}
        PROVE  Max(s) \in 1 .. n /\ it[s \ {Max(s)}] \in A
    <3>1. Max(s) \in 1 .. n
      BY <1>1, <2>2, Greatest
    <3> QED
      BY <1>1, <2>1, <3>1
  <2>3. ASSUME NEW s \in SUBSET (DOMAIN seq)
        PROVE  it[s] = IF s = {} THEN <<>>
                       ELSE IF Skips(c, it[s \ {Max(s)}], seq[Max(s)]) THEN it[s \ {Max(s)}] ELSE Append(it[s \ {Max(s)}], seq[Max(s)])
    BY <1>1, <1>2, <2>1, <2>2 DEF FoldsAll, Part
  <2>4. DOMAIN it = SUBSET (DOMAIN seq) /\ it = [s \in DOMAIN it |-> it[s]]
    BY <1>1, <2>1
  <2>5. Fold(it)
    BY <2>3, <2>4
  <2> HIDE DEF Fold
  <2> QED
    BY <2>5
<1>5. PICK it : Fold(it) /\ Chosen(c) = it[1 .. n]
  BY <1>1, <1>3, <1>4
<1>6. FoldsIn(it, g, <<>>, n, A)
  <2>1. it[{}] = <<>>
    BY <1>5
  <2>2. ASSUME NEW s \in SUBSET (1 .. n), s # {}, it[s \ {Max(s)}] \in A
        PROVE  it[s] = g[<<it[s \ {Max(s)}], Max(s)>>]
    <3>1. Max(s) \in 1 .. n
      BY <1>1, <2>2, Greatest
    <3> QED
      BY <1>1, <1>2, <1>5, <2>2, <3>1
  <2> QED
    BY <2>1, <2>2 DEF FoldsIn
<1>7. PICK h \in [0 .. n -> A] : StepsTo(h, g, <<>>, n) /\ h[n] = it[1 .. n]
  BY <1>1, <1>6, FoldSteps
<1>8. \A i \in 1 .. n : h[i] = IF Skips(c, h[i - 1], seq[i]) THEN h[i - 1] ELSE Append(h[i - 1], seq[i])
  <2>1. \A i \in 1 .. n : i - 1 \in 0 .. n
    BY <1>1
  <2> QED
    BY <1>2, <1>7, <2>1 DEF StepsTo
<1>9. ChosenWalk(h, c, seq, B)
  BY <1>5, <1>7, <1>8 DEF n, A, StepsTo, ChosenWalk
<1> QED
  BY <1>9

-----------------------------------------------------------------------------
(* What Only, Spent and CitedMarkers return.                                *)

(* out holds elements of the first i of seq, in their order.                *)
Among(out, seq, i) ==
  /\ \A k \in DOMAIN out : \E p \in 1 .. i : out[k] = seq[p]
  /\ \A k, l \in DOMAIN out :
       k < l => \E p, q \in 1 .. i : p < q /\ out[k] = seq[p] /\ out[l] = seq[q]

(* It still does with one more element, kept or passed over.                *)
LEMMA AmongGrows ==
  ASSUME NEW B, NEW seq \in Seq(B), NEW i \in 1 .. Len(seq), NEW out \in Seq(B),
         Among(out, seq, i - 1)
  PROVE  Among(out, seq, i) /\ Among(Append(out, seq[i]), seq, i)
<1>1. \A p \in 1 .. (i - 1) : p \in 1 .. i /\ p < i
  OBVIOUS
<1>2. Among(out, seq, i)
  BY <1>1 DEF Among
<1> DEFINE more == Append(out, seq[i])
<1>3. /\ seq[i] \in B /\ more \in Seq(B) /\ DOMAIN more = 1 .. (Len(out) + 1)
      /\ more[Len(out) + 1] = seq[i] /\ \A k \in 1 .. Len(out) : more[k] = out[k]
      /\ DOMAIN out = 1 .. Len(out) /\ Len(out) \in Nat
  OBVIOUS
<1> HIDE DEF more
<1>4. ASSUME NEW k \in DOMAIN more
      PROVE  \E p \in 1 .. i : more[k] = seq[p]
  <2>1. CASE k = Len(out) + 1
    BY <1>3, <2>1
  <2>2. CASE k # Len(out) + 1
    <3>1. k \in DOMAIN out /\ more[k] = out[k]
      BY <1>3, <2>2
    <3> QED
      BY <1>2, <3>1 DEF Among
  <2> QED
    BY <2>1, <2>2
<1>5. ASSUME NEW k \in DOMAIN more, NEW l \in DOMAIN more, k < l
      PROVE  \E p, q \in 1 .. i : p < q /\ more[k] = seq[p] /\ more[l] = seq[q]
  <2>1. k \in DOMAIN out /\ more[k] = out[k]
    BY <1>3, <1>5
  <2>2. CASE l = Len(out) + 1
    <3>1. PICK p \in 1 .. (i - 1) : out[k] = seq[p]
      BY <2>1 DEF Among
    <3>2. p \in 1 .. i /\ i \in 1 .. i /\ p < i /\ more[k] = seq[p] /\ more[l] = seq[i]
      BY <1>1, <1>3, <2>1, <2>2, <3>1
    <3> QED
      BY <3>2
  <2>3. CASE l # Len(out) + 1
    <3>1. l \in DOMAIN out /\ more[l] = out[l]
      BY <1>3, <2>3
    <3> QED
      BY <1>2, <1>5, <2>1, <3>1 DEF Among
  <2> QED
    BY <2>2, <2>3
<1>6. Among(more, seq, i)
  BY <1>4, <1>5 DEF Among
<1> QED
  BY <1>2, <1>6 DEF more

(* Only returns the elements that are in S, in their order.                 *)
LEMMA OnlyKeeps ==
  ASSUME NEW B, NEW seq \in Seq(B), NEW S
  PROVE  /\ Only(seq, S) \in Seq(B) /\ Among(Only(seq, S), seq, Len(seq))
         /\ Range(Only(seq, S)) = Range(seq) \cap S
<1> DEFINE n == Len(seq)
<1>0. PICK h : OnlyWalk(h, seq, S, B)
  BY OnlySteps
<1>1. /\ h \in [0 .. n -> Seq(B)] /\ h[0] = <<>> /\ h[n] = Only(seq, S)
      /\ \A i \in 1 .. n : h[i] = IF seq[i] \in S THEN Append(h[i - 1], seq[i]) ELSE h[i - 1]
  BY <1>0 DEF OnlyWalk
<1> DEFINE Sound(i) == /\ Among(h[i], seq, i)
                       /\ \A k \in DOMAIN h[i] : h[i][k] \in S
                       /\ \A p \in 1 .. i : seq[p] \in S => \E k \in DOMAIN h[i] : h[i][k] = seq[p]
           good == {i \in 0 .. n : Sound(i)}
<1>2. n \in Nat /\ DOMAIN seq = 1 .. n
  OBVIOUS
<1> HIDE DEF n
<1>3. 0 \in good
  <2>1. Among(<<>>, seq, 0)
    BY DEF Among
  <2>2. Sound(0)
    BY <1>1, <2>1
  <2> HIDE DEF Sound
  <2> QED
    BY <1>2, <2>2
<1>4. ASSUME NEW i \in 1 .. n, i - 1 \in good
      PROVE  i \in good
  <2> DEFINE a == h[i - 1]
             b == h[i]
  <2>1. Sound(i - 1)
    BY <1>4
  <2>2. a \in Seq(B) /\ b \in Seq(B) /\ b = IF seq[i] \in S THEN Append(a, seq[i]) ELSE a
    <3>1. i \in 0 .. n /\ i - 1 \in 0 .. n
      BY <1>2
    <3> QED
      BY <1>1, <3>1
  <2>3. Among(a, seq, i - 1)
    BY <2>1
  <2>4. \A k \in DOMAIN a : a[k] \in S
    BY <2>1
  <2>5. \A p \in 1 .. (i - 1) : seq[p] \in S => \E k \in DOMAIN a : a[k] = seq[p]
    BY <2>1
  <2> HIDE DEF a, b
  <2>6. Among(b, seq, i)
    BY <2>2, <2>3, AmongGrows DEF n
  <2>7. CASE seq[i] \in S
    <3>1. /\ DOMAIN b = 1 .. (Len(a) + 1) /\ DOMAIN a = 1 .. Len(a) /\ Len(a) \in Nat
          /\ b[Len(a) + 1] = seq[i] /\ \A k \in 1 .. Len(a) : b[k] = a[k]
      BY <2>2, <2>7
    <3>2. \A k \in DOMAIN b : k = Len(a) + 1 \/ k \in DOMAIN a
      BY <3>1
    <3>3. \A k \in DOMAIN b : b[k] \in S
      BY <2>4, <2>7, <3>1, <3>2
    <3>4. \A p \in 1 .. i : seq[p] \in S => \E k \in DOMAIN b : b[k] = seq[p]
      <4> SUFFICES ASSUME NEW p \in 1 .. i, seq[p] \in S
                   PROVE  \E k \in DOMAIN b : b[k] = seq[p]
        OBVIOUS
      <4>1. CASE p = i
        <5>1. Len(a) + 1 \in DOMAIN b
          BY <3>1
        <5> QED
          BY <3>1, <4>1, <5>1
      <4>2. CASE p # i
        <5>1. PICK k \in DOMAIN a : a[k] = seq[p]
          BY <2>5, <4>2
        <5>2. k \in DOMAIN b /\ b[k] = a[k]
          BY <3>1
        <5> QED
          BY <5>1, <5>2
      <4> QED
        BY <4>1, <4>2
    <3> QED
      BY <2>6, <3>3, <3>4 DEF b
  <2>8. CASE seq[i] \notin S
    <3>1. b = a
      BY <2>2, <2>8
    <3>2. \A p \in 1 .. i : seq[p] \in S => p \in 1 .. (i - 1)
      BY <2>8
    <3> QED
      BY <2>4, <2>5, <2>6, <3>1, <3>2 DEF b
  <2> QED
    BY <2>7, <2>8
<1> HIDE DEF good
<1>5. n \in good
  BY <1>2, <1>3, <1>4, UpTo
<1>6. Sound(n)
  BY <1>5 DEF good
<1> DEFINE out == h[n]
<1>7. out \in Seq(B) /\ out = Only(seq, S)
  BY <1>1, <1>2
<1>8. /\ Among(out, seq, n) /\ \A k \in DOMAIN out : out[k] \in S
      /\ \A p \in 1 .. n : seq[p] \in S => \E k \in DOMAIN out : out[k] = seq[p]
  BY <1>6
<1> HIDE DEF out, Sound
<1>9. Range(out) = Range(seq) \cap S
  <2>1. ASSUME NEW x \in Range(out)
        PROVE  x \in Range(seq) \cap S
    <3>1. PICK k \in DOMAIN out : out[k] = x
      BY DEF Range
    <3>2. PICK p \in 1 .. n : out[k] = seq[p]
      BY <1>8 DEF Among
    <3> QED
      BY <1>2, <1>8, <3>1, <3>2 DEF Range
  <2>2. ASSUME NEW x \in Range(seq) \cap S
        PROVE  x \in Range(out)
    <3>1. PICK p \in 1 .. n : seq[p] = x
      BY <1>2 DEF Range
    <3> QED
      BY <1>8, <3>1 DEF Range
  <2> QED
    BY <2>1, <2>2
<1> QED
  BY <1>7, <1>8, <1>9 DEF n

(* Spent adds what a passage has to what there was.                         *)
LEMMA SpentGrows ==
  ASSUME NEW B, \A b \in B : b.tokens \in Nat, NEW seq \in Seq(B), NEW x \in B
  PROVE  /\ Spent(seq) \in Nat /\ Spent(<<>>) = 0
         /\ Spent(Append(seq, x)) = Spent(seq) + x.tokens
<1> DEFINE more == Append(seq, x)
           n == Len(seq)
<1>1. n \in Nat /\ more \in Seq(B) /\ Len(more) = n + 1 /\ more[n + 1] = x
      /\ \A i \in 1 .. n : more[i] = seq[i]
  OBVIOUS
<1>2. PICK h : SpentWalk(h, seq)
  BY SpentSteps
<1>3. PICK m : SpentWalk(m, more)
  <2> HIDE DEF more
  <2> QED
    BY <1>1, SpentSteps
<1>4. /\ h \in [0 .. n -> Nat] /\ h[0] = 0 /\ h[n] = Spent(seq)
      /\ \A i \in 1 .. n : h[i] = h[i - 1] + seq[i].tokens
  BY <1>2 DEF SpentWalk
<1>5. /\ m[0] = 0 /\ m[n + 1] = Spent(more)
      /\ \A i \in 1 .. (n + 1) : m[i] = m[i - 1] + more[i].tokens
  BY <1>1, <1>3 DEF SpentWalk
<1> HIDE DEF more, n
<1> DEFINE good == {i \in 0 .. n : m[i] = h[i]}
<1>6. 0 \in good
  BY <1>1, <1>4, <1>5
<1>7. ASSUME NEW i \in 1 .. n, i - 1 \in good
      PROVE  i \in good
  <2>1. m[i - 1] = h[i - 1] /\ more[i] = seq[i] /\ i \in 1 .. (n + 1) /\ i \in 0 .. n
    BY <1>1, <1>7
  <2> QED
    BY <1>4, <1>5, <2>1
<1> HIDE DEF good
<1>8. n \in good
  <2>1. n \in Nat
    BY <1>1
  <2>2. \A i \in 0 .. n : i \in good
    BY <1>6, <1>7, <2>1, UpTo
  <2> QED
    BY <2>1, <2>2
<1>9. m[n] = h[n]
  BY <1>8 DEF good
<1>10. m[n + 1] = m[n] + x.tokens
  <2>1. n + 1 \in 1 .. (n + 1) /\ (n + 1) - 1 = n
    BY <1>1
  <2> QED
    BY <1>1, <1>5, <2>1
<1>11. Spent(seq) \in Nat
  <2>1. n \in 0 .. n
    BY <1>1
  <2> QED
    BY <1>4, <2>1
<1>12. Spent(<<>>) = 0
  <2>1. <<>> \in Seq(B) /\ Len(<<>>) = 0
    OBVIOUS
  <2>2. PICK e : SpentWalk(e, <<>>)
    BY <2>1, SpentSteps
  <2> QED
    BY <2>1, <2>2 DEF SpentWalk
<1> QED
  BY <1>4, <1>5, <1>9, <1>10, <1>11, <1>12 DEF more

(* CitedMarkers returns every number once.                                  *)
LEMMA MarkersOnce ==
  ASSUME NEW B, NEW seq \in Seq(B)
  PROVE  /\ CitedMarkers(seq) \in Seq(B) /\ Range(CitedMarkers(seq)) = Range(seq)
         /\ \A k, l \in DOMAIN CitedMarkers(seq) :
              CitedMarkers(seq)[k] = CitedMarkers(seq)[l] => k = l
<1> DEFINE n == Len(seq)
<1>1. PICK h : MarkersWalk(h, seq, B)
  BY MarkersSteps
<1>2. /\ h \in [0 .. n -> Seq(B)] /\ h[0] = <<>> /\ h[n] = CitedMarkers(seq)
      /\ \A i \in 1 .. n : h[i] = IF Contains(h[i - 1], seq[i]) THEN h[i - 1] ELSE Append(h[i - 1], seq[i])
  BY <1>1 DEF MarkersWalk
<1>3. n \in Nat /\ DOMAIN seq = 1 .. n
  OBVIOUS
<1> DEFINE Once(i) == /\ \A k \in DOMAIN h[i] : \E p \in 1 .. i : h[i][k] = seq[p]
                      /\ \A p \in 1 .. i : \E k \in DOMAIN h[i] : h[i][k] = seq[p]
                      /\ \A k, l \in DOMAIN h[i] : h[i][k] = h[i][l] => k = l
           good == {i \in 0 .. n : Once(i)}
<1> HIDE DEF n
<1>4. 0 \in good
  <2>1. Once(0)
    BY <1>2
  <2> HIDE DEF Once
  <2> QED
    BY <1>3, <2>1
<1>5. ASSUME NEW i \in 1 .. n, i - 1 \in good
      PROVE  i \in good
  <2> DEFINE a == h[i - 1]
             b == h[i]
  <2>1. /\ \A k \in DOMAIN a : \E p \in 1 .. (i - 1) : a[k] = seq[p]
        /\ \A p \in 1 .. (i - 1) : \E k \in DOMAIN a : a[k] = seq[p]
        /\ \A k, l \in DOMAIN a : a[k] = a[l] => k = l
    BY <1>5
  <2>2. a \in Seq(B) /\ b = IF Contains(a, seq[i]) THEN a ELSE Append(a, seq[i])
    BY <1>2, <1>3
  <2>3. i \in 0 .. n /\ seq[i] \in B /\ \A p \in 1 .. i : p = i \/ p \in 1 .. (i - 1)
    BY <1>3
  <2> HIDE DEF a, b
  <2>4. DOMAIN a = 1 .. Len(a) /\ Len(a) \in Nat
    BY <2>2
  <2>5. /\ \A k \in DOMAIN b : \E p \in 1 .. i : b[k] = seq[p]
        /\ \A p \in 1 .. i : \E k \in DOMAIN b : b[k] = seq[p]
        /\ \A k, l \in DOMAIN b : b[k] = b[l] => k = l
    <3>1. CASE Contains(a, seq[i])
      <4>1. b = a /\ \E k \in DOMAIN a : a[k] = seq[i]
        BY <2>2, <2>4, <3>1 DEF Contains
      <4>2. \A p \in 1 .. (i - 1) : p \in 1 .. i
        OBVIOUS
      <4> QED
        BY <2>1, <2>3, <4>1, <4>2
    <3>2. CASE ~Contains(a, seq[i])
      <4>1. /\ DOMAIN b = 1 .. (Len(a) + 1) /\ b[Len(a) + 1] = seq[i]
            /\ \A k \in DOMAIN a : k \in DOMAIN b /\ b[k] = a[k]
        BY <2>2, <2>3, <2>4, <3>2
      <4>2. \A k \in DOMAIN a : a[k] # seq[i]
        BY <2>4, <3>2 DEF Contains
      <4>3. \A k \in DOMAIN b : k \in DOMAIN a \/ k = Len(a) + 1
        BY <2>4, <4>1
      <4>4. \A k \in DOMAIN b : \E p \in 1 .. i : b[k] = seq[p]
        <5>1. i \in 1 .. i /\ \A p \in 1 .. (i - 1) : p \in 1 .. i
          OBVIOUS
        <5>2. ASSUME NEW k \in DOMAIN a
              PROVE  \E p \in 1 .. i : b[k] = seq[p]
          <6>1. PICK p \in 1 .. (i - 1) : a[k] = seq[p]
            BY <2>1
          <6> QED
            BY <4>1, <5>1, <6>1
        <5> QED
          BY <4>1, <4>3, <5>1, <5>2
      <4>5. \A p \in 1 .. i : \E k \in DOMAIN b : b[k] = seq[p]
        <5>1. Len(a) + 1 \in DOMAIN b
          BY <2>4, <4>1
        <5> QED
          BY <2>1, <2>3, <4>1, <5>1
      <4>6. \A k, l \in DOMAIN b : b[k] = b[l] => k = l
        BY <2>1, <4>1, <4>2, <4>3
      <4> QED
        BY <4>4, <4>5, <4>6
    <3> QED
      BY <3>1, <3>2
  <2>6. Once(i)
    BY <2>5 DEF b
  <2> HIDE DEF Once
  <2> QED
    BY <2>3, <2>6
<1> HIDE DEF good
<1>6. n \in good
  BY <1>3, <1>4, <1>5, UpTo
<1>7. Once(n)
  BY <1>6 DEF good
<1> DEFINE out == h[n]
<1>8. /\ \A k \in DOMAIN out : \E p \in 1 .. n : out[k] = seq[p]
      /\ \A p \in 1 .. n : \E k \in DOMAIN out : out[k] = seq[p]
      /\ \A k, l \in DOMAIN out : out[k] = out[l] => k = l
  BY <1>7
<1>9. out \in Seq(B) /\ out = CitedMarkers(seq)
  BY <1>2, <1>3
<1> HIDE DEF out, Once
<1>10. Range(out) = Range(seq)
  BY <1>3, <1>8 DEF Range
<1> QED
  BY <1>8, <1>9, <1>10

-----------------------------------------------------------------------------
(* What retrieve sends.                                                     *)

(* Nearest first.                                                           *)
Sorted(seq) == \A i, k \in DOMAIN seq : i < k => seq[i].near >= seq[k].near

(* What is among sorted passages in their order is sorted.                  *)
LEMMA AmongSorted ==
  ASSUME NEW B, NEW seq \in Seq(B), NEW out, Among(out, seq, Len(seq)), Sorted(seq)
  PROVE  Sorted(out)
<1> SUFFICES ASSUME NEW k \in DOMAIN out, NEW l \in DOMAIN out, k < l
             PROVE  out[k].near >= out[l].near
  BY DEF Sorted
<1>1. PICK p, q \in 1 .. Len(seq) : p < q /\ out[k] = seq[p] /\ out[l] = seq[q]
  BY DEF Among
<1>2. p \in DOMAIN seq /\ q \in DOMAIN seq
  OBVIOUS
<1> QED
  BY <1>1, <1>2 DEF Sorted

(* The rows of the statement: the workspace's, of the model, above the      *)
(* floor, nearest first.                                                    *)
LEMMA RowsAreMine ==
  ASSUME NEW c \in RetrievalCalls
  PROVE  /\ Rows(c) \in Seq(Range(c.chunks)) /\ Sorted(Rows(c))
         /\ \A i \in DOMAIN Rows(c) : /\ Searched(Rows(c)[i]) /\ Rows(c)[i].model = ProviderModel
                                      /\ Rows(c)[i].near >= c.floor
<1> DEFINE B == Range(c.chunks)
           mine == {chunk \in B : Searched(chunk) /\ chunk.model = ProviderModel}
           here == Only(c.chunks, mine)
           m == Min({Len(here), c.topK * CandidatesPerResult})
           few == SubSeq(here, 1, m)
           near == {chunk \in mine : chunk.near >= c.floor}
<1>1. Rows(c) = Only(few, near)
  BY DEF Rows
<1>2. c.chunks \in Seq(B) /\ Sorted(c.chunks)
  BY RetrievalAssumption DEF Sorted
<1>3. c.topK * CandidatesPerResult \in Nat
  <2>1. c.topK \in Nat /\ CandidatesPerResult \in Nat
    BY RetrievalAssumption
  <2> QED
    BY <2>1
<1> HIDE DEF B, mine, here, m, few, near
<1>4. here \in Seq(B) /\ Among(here, c.chunks, Len(c.chunks))
  BY <1>2, OnlyKeeps DEF here
<1>5. Sorted(here)
  BY <1>2, <1>4, AmongSorted
<1>6. m \in 0 .. Len(here)
  <2> DEFINE a == Len(here)
             b == c.topK * CandidatesPerResult
  <2>1. a \in Nat /\ b \in Nat
    BY <1>3, <1>4
  <2> HIDE DEF a, b
  <2>2. Min({a, b}) \in {a, b} /\ \A y \in {a, b} : Min({a, b}) <= y
    <3>1. \E x \in {a, b} : \A y \in {a, b} : x <= y
      BY <2>1
    <3> QED
      BY <3>1 DEF Min
  <2>3. Min({a, b}) \in 0 .. a
    BY <2>1, <2>2
  <2> QED
    BY <2>3 DEF m, a, b
<1>7. few \in Seq(B) /\ DOMAIN few = 1 .. m /\ \A i \in 1 .. m : few[i] = here[i]
  BY <1>4, <1>6 DEF few
<1>8. Sorted(few)
  <2>1. \A i \in 1 .. m : i \in DOMAIN here
    BY <1>4, <1>6
  <2> QED
    BY <1>5, <1>7, <2>1 DEF Sorted
<1>9. Rows(c) \in Seq(B) /\ Among(Rows(c), few, Len(few)) /\ Range(Rows(c)) = Range(few) \cap near
  BY <1>1, <1>7, OnlyKeeps
<1>10. Sorted(Rows(c))
  BY <1>7, <1>8, <1>9, AmongSorted
<1>11. \A i \in DOMAIN Rows(c) : Rows(c)[i] \in near
  BY <1>9 DEF Range
<1>12. \A chunk \in near : Searched(chunk) /\ chunk.model = ProviderModel /\ chunk.near >= c.floor
  BY DEF near, mine
<1> QED
  BY <1>9, <1>10, <1>11, <1>12 DEF B

(* The passages chosen so far: no more than top_k, within the budget, each  *)
(* from a row looked at and none repeating an earlier one.                  *)
Fits(c, chosen, rows, i) ==
  /\ Len(chosen) <= c.topK /\ Spent(chosen) <= c.budget
  /\ \A k \in DOMAIN chosen : /\ \E p \in 1 .. i : chosen[k] = rows[p]
                              /\ ~Repeats(SubSeq(chosen, 1, k - 1), chosen[k])

(* b begins with a.                                                         *)
Begins(a, b) == Len(a) <= Len(b) /\ \A k \in 1 .. Len(a) : b[k] = a[k]

(* A passage that is taken fits.                                            *)
LEMMA TakenFits ==
  ASSUME NEW c \in RetrievalCalls, NEW B, \A b \in B : b.tokens \in Nat,
         NEW rows \in Seq(B), NEW i \in 1 .. Len(rows), NEW a \in Seq(B),
         Fits(c, a, rows, i - 1), ~Skips(c, a, rows[i])
  PROVE  Fits(c, Append(a, rows[i]), rows, i)
<1> DEFINE x == rows[i]
           b == Append(a, x)
<1>1. /\ x \in B /\ b \in Seq(B) /\ Len(b) = Len(a) + 1 /\ DOMAIN b = 1 .. (Len(a) + 1)
      /\ b[Len(a) + 1] = x /\ DOMAIN a = 1 .. Len(a) /\ Len(a) \in Nat
      /\ \A k \in 1 .. Len(a) : b[k] = a[k]
  OBVIOUS
<1>2. ~Repeats(a, x) /\ Len(a) # c.topK /\ ~(Spent(a) + x.tokens > c.budget)
  BY DEF Skips
<1>3. /\ Len(a) <= c.topK
      /\ \A k \in DOMAIN a : /\ \E p \in 1 .. (i - 1) : a[k] = rows[p]
                             /\ ~Repeats(SubSeq(a, 1, k - 1), a[k])
  BY DEF Fits
<1>4. Spent(a) \in Nat /\ Spent(b) = Spent(a) + x.tokens
  BY <1>1, SpentGrows
<1>5. c.topK \in Nat /\ c.budget \in Nat /\ x.tokens \in Nat
  BY <1>1, RetrievalAssumption
<1>6. \A k \in 1 .. (Len(a) + 1) : SubSeq(b, 1, k - 1) = SubSeq(a, 1, k - 1)
  <2> SUFFICES ASSUME NEW k \in 1 .. (Len(a) + 1)
               PROVE  SubSeq(b, 1, k - 1) = SubSeq(a, 1, k - 1)
    OBVIOUS
  <2>1. k - 1 \in 0 .. Len(a)
    BY <1>1
  <2> HIDE DEF b
  <2>2. /\ SubSeq(a, 1, k - 1) \in Seq(B) /\ Len(SubSeq(a, 1, k - 1)) = k - 1
        /\ \A l \in 1 .. (k - 1) : SubSeq(a, 1, k - 1)[l] = a[l]
    BY <1>1, <2>1
  <2>3. /\ SubSeq(b, 1, k - 1) \in Seq(B) /\ Len(SubSeq(b, 1, k - 1)) = k - 1
        /\ \A l \in 1 .. (k - 1) : SubSeq(b, 1, k - 1)[l] = b[l]
    BY <1>1, <2>1
  <2>4. \A l \in 1 .. (k - 1) : b[l] = a[l]
    BY <1>1, <2>1
  <2> QED
    BY <2>1, <2>2, <2>3, <2>4
<1>7. SubSeq(a, 1, Len(a)) = a
  BY <1>1
<1> HIDE DEF b, x
<1>8. ASSUME NEW k \in DOMAIN b
      PROVE  /\ \E p \in 1 .. i : b[k] = rows[p]
             /\ ~Repeats(SubSeq(b, 1, k - 1), b[k])
  <2>1. CASE k = Len(a) + 1
    <3>1. b[k] = x /\ SubSeq(b, 1, k - 1) = a
      <4>1. k - 1 = Len(a) /\ k \in 1 .. (Len(a) + 1)
        BY <1>1, <2>1
      <4> QED
        BY <1>1, <1>6, <1>7, <2>1, <4>1
    <3>2. i \in 1 .. i
      OBVIOUS
    <3> QED
      BY <1>2, <3>1, <3>2 DEF x
  <2>2. CASE k # Len(a) + 1
    <3>1. k \in DOMAIN a /\ b[k] = a[k] /\ SubSeq(b, 1, k - 1) = SubSeq(a, 1, k - 1)
      BY <1>1, <1>6, <2>2
    <3>2. \A p \in 1 .. (i - 1) : p \in 1 .. i
      OBVIOUS
    <3> QED
      BY <1>3, <3>1, <3>2
  <2> QED
    BY <2>1, <2>2
<1>9. Len(b) <= c.topK /\ Spent(b) <= c.budget
  <2>1. Len(b) <= c.topK
    BY <1>1, <1>2, <1>3, <1>5
  <2>2. Spent(b) <= c.budget
    BY <1>2, <1>4, <1>5
  <2> QED
    BY <2>1, <2>2
<1> QED
  BY <1>8, <1>9 DEF Fits, b, x

(* The loop keeps what it has and what it has fits, row after row.          *)
LEMMA ChosenFits ==
  ASSUME NEW c \in RetrievalCalls, NEW B, NEW rows \in Seq(B), rows = Rows(c),
         \A b \in B : b.tokens \in Nat,
         NEW h, ChosenWalk(h, c, rows, B)
  PROVE  /\ \A i \in 0 .. Len(rows) : h[i] \in Seq(B) /\ Fits(c, h[i], rows, i)
         /\ \A j, i \in 0 .. Len(rows) : j <= i => Begins(h[j], h[i])
<1> DEFINE n == Len(rows)
           fitting == {i \in 0 .. n : Fits(c, h[i], rows, i)}
<1>1. /\ h \in [0 .. n -> Seq(B)] /\ h[0] = <<>>
      /\ \A i \in 1 .. n : h[i] = IF Skips(c, h[i - 1], rows[i]) THEN h[i - 1]
                                  ELSE Append(h[i - 1], rows[i])
  BY DEF ChosenWalk
<1>2. n \in Nat /\ DOMAIN rows = 1 .. n
  OBVIOUS
<1>3. c.topK \in Nat /\ c.budget \in Nat
  BY RetrievalAssumption
<1> HIDE DEF n
<1>4. \A i \in 0 .. n : i \in fitting
  <2>1. 0 \in fitting
    <3>1. Spent(<<>>) = 0
      <4>1. <<>> \in Seq({}) /\ \A b \in {} : b.tokens \in Nat
        OBVIOUS
      <4>2. PICK e : SpentWalk(e, <<>>)
        BY <4>1, SpentSteps
      <4>3. Len(<<>>) = 0
        OBVIOUS
      <4> QED
        BY <4>2, <4>3 DEF SpentWalk
    <3>2. Fits(c, <<>>, rows, 0)
      BY <1>3, <3>1 DEF Fits
    <3> QED
      BY <1>1, <1>2, <3>2
  <2>2. ASSUME NEW i \in 1 .. n, i - 1 \in fitting
        PROVE  i \in fitting
    <3>1. i - 1 \in 0 .. n /\ i \in 0 .. n /\ i \in 1 .. Len(rows)
      BY <1>2 DEF n
    <3>2. h[i - 1] \in Seq(B) /\ Fits(c, h[i - 1], rows, i - 1)
      BY <1>1, <2>2, <3>1
    <3>3. CASE Skips(c, h[i - 1], rows[i])
      <4>1. h[i] = h[i - 1]
        BY <1>1, <3>3
      <4>2. \A p \in 1 .. (i - 1) : p \in 1 .. i
        OBVIOUS
      <4>3. Fits(c, h[i - 1], rows, i)
        BY <3>2, <4>2 DEF Fits
      <4> QED
        BY <3>1, <4>1, <4>3
    <3>4. CASE ~Skips(c, h[i - 1], rows[i])
      <4>1. h[i] = Append(h[i - 1], rows[i])
        BY <1>1, <3>4
      <4>2. Fits(c, Append(h[i - 1], rows[i]), rows, i)
        BY <3>1, <3>2, <3>4, TakenFits
      <4> QED
        BY <3>1, <4>1, <4>2
    <3> QED
      BY <3>3, <3>4
  <2> HIDE DEF fitting
  <2> QED
    BY <1>2, <2>1, <2>2, UpTo
<1>5. ASSUME NEW j \in 0 .. n
      PROVE  \A i \in 0 .. n : j <= i => Begins(h[j], h[i])
  <2> DEFINE good == {i \in 0 .. n : j <= i => Begins(h[j], h[i])}
  <2>1. \A s \in Seq(B) : Begins(s, s)
    BY DEF Begins
  <2>2. h[j] \in Seq(B) /\ Begins(h[j], h[j])
    BY <1>1, <2>1
  <2>3. 0 \in good
    <3>1. j <= 0 => j = 0
      BY <1>2
    <3> QED
      BY <1>2, <2>2, <3>1
  <2>4. ASSUME NEW i \in 1 .. n, i - 1 \in good
        PROVE  i \in good
    <3>1. i - 1 \in 0 .. n /\ i \in 0 .. n
      BY <1>2
    <3>2. CASE j = i
      BY <2>2, <3>1, <3>2
    <3>3. CASE j > i
      BY <1>2, <3>1, <3>3
    <3>4. CASE j < i
      <4>1. Begins(h[j], h[i - 1])
        BY <1>2, <2>4, <3>4
      <4>2. h[i - 1] \in Seq(B) /\ (h[i] = h[i - 1] \/ h[i] = Append(h[i - 1], rows[i]))
        BY <1>1, <3>1
      <4>3. \A a \in Seq(B), b \in Seq(B) : Begins(a, b) => Begins(a, Append(b, rows[i]))
        BY DEF Begins
      <4>4. Begins(h[j], h[i])
        BY <2>2, <4>1, <4>2, <4>3
      <4> QED
        BY <3>1, <4>4
    <3> QED
      BY <1>2, <3>1, <3>2, <3>3, <3>4
  <2> HIDE DEF good
  <2>5. \A i \in 0 .. n : i \in good
    BY <1>2, <2>3, <2>4, UpTo
  <2> QED
    BY <2>5 DEF good
<1>6. \A i \in 0 .. n : h[i] \in Seq(B) /\ Fits(c, h[i], rows, i)
  BY <1>1, <1>4
<1> QED
  BY <1>5, <1>6 DEF n

(* What is sent is allowed and the best there is.                           *)
LEMMA SentIsBest ==
  ASSUME NEW c \in RetrievalCalls
  PROVE  /\ Retrieve(c) \in Seq(Range(c.chunks))
         /\ Allowed(c, Retrieve(c)) /\ BestFirst(c, Retrieve(c))
<1> DEFINE B == Range(c.chunks)
           rows == Rows(c)
           n == Len(rows)
<1>1. c.topK \in Nat /\ c.budget \in Nat /\ c.chunks \in Seq(B) /\ \A b \in B : b.tokens \in Nat /\ b.near \in Int
  BY RetrievalAssumption DEF Range
<1>2. /\ rows \in Seq(B) /\ Sorted(rows)
      /\ \A i \in DOMAIN rows : Searched(rows[i]) /\ rows[i].model = ProviderModel /\ rows[i].near >= c.floor
  BY RowsAreMine
<1>3. n \in Nat /\ DOMAIN rows = 1 .. n
  BY <1>2
<1> HIDE DEF B, rows, n
<1>4. PICK h : ChosenWalk(h, c, rows, B)
  BY <1>2, ChosenSteps DEF rows
<1>5. /\ h[n] = Chosen(c)
      /\ \A i \in 1 .. n : h[i] = IF Skips(c, h[i - 1], rows[i]) THEN h[i - 1]
                                  ELSE Append(h[i - 1], rows[i])
  BY <1>4 DEF ChosenWalk, n
<1>6. /\ \A i \in 0 .. n : h[i] \in Seq(B) /\ Fits(c, h[i], rows, i)
      /\ \A j, i \in 0 .. n : j <= i => Begins(h[j], h[i])
  BY <1>1, <1>2, <1>4, ChosenFits DEF n, rows
<1>7. CASE SearchableModel(c.chunks) # "search"
  <2>1. Retrieve(c) = <<>>
    BY <1>7 DEF Retrieve
  <2>2. Spent(<<>>) = 0
    <3>1. <<>> \in Seq(B) /\ Len(<<>>) = 0
      OBVIOUS
    <3>2. PICK e : SpentWalk(e, <<>>)
      BY <1>1, <3>1, SpentSteps
    <3> QED
      BY <3>1, <3>2 DEF SpentWalk
  <2>3. Allowed(c, <<>>)
    BY <1>1, <2>2 DEF Allowed
  <2>4. BestFirst(c, <<>>)
    BY <1>7 DEF BestFirst
  <2> QED
    BY <2>1, <2>3, <2>4 DEF B
<1>8. CASE SearchableModel(c.chunks) = "search"
  <2> DEFINE sent == h[n]
  <2>1. Retrieve(c) = sent
    BY <1>5, <1>8 DEF Retrieve
  <2>2. n \in 0 .. n
    BY <1>3
  <2>3. sent \in Seq(B) /\ Fits(c, sent, rows, n)
    BY <1>6, <2>2
  <2>4. \A i \in 0 .. n : Begins(h[i], sent)
    BY <1>3, <1>6, <2>2
  <2> HIDE DEF sent
  <2>5. Allowed(c, sent)
    <3>1. ASSUME NEW k \in DOMAIN sent
          PROVE  /\ Searched(sent[k]) /\ sent[k].model = ProviderModel
                 /\ sent[k].near >= c.floor /\ ~Repeats(SubSeq(sent, 1, k - 1), sent[k])
      <4>1. PICK p \in 1 .. n : sent[k] = rows[p]
        BY <2>3 DEF Fits
      <4> QED
        BY <1>2, <1>3, <2>3, <4>1 DEF Fits
    <3> QED
      BY <2>3, <3>1 DEF Allowed, Fits
  <2>6. ASSUME NEW k \in DOMAIN rows
        PROVE  \/ Contains(sent, rows[k])
               \/ \E m \in 0 .. Len(sent) :
                    /\ \A i \in DOMAIN SubSeq(sent, 1, m) : SubSeq(sent, 1, m)[i].near >= rows[k].near
                    /\ \/ Repeats(SubSeq(sent, 1, m), rows[k])
                       \/ Spent(SubSeq(sent, 1, m)) + rows[k].tokens > c.budget
                       \/ Len(SubSeq(sent, 1, m)) = c.topK
    <3> DEFINE better == h[k - 1]
    <3>1. k \in 1 .. n /\ k - 1 \in 0 .. n /\ k \in 0 .. n
      BY <1>3
    <3>2. better \in Seq(B) /\ Fits(c, better, rows, k - 1) /\ Begins(better, sent)
      BY <1>6, <2>4, <3>1
    <3>3. CASE Skips(c, better, rows[k])
      <4> HIDE DEF better
      <4>1. Len(better) \in 0 .. Len(sent) /\ \A i \in 1 .. Len(better) : better[i] = sent[i]
        BY <2>3, <3>2 DEF Begins
      <4>2. SubSeq(sent, 1, Len(better)) = better
        BY <2>3, <3>2, <4>1
      <4>3. \A i \in DOMAIN better : better[i].near >= rows[k].near
        <5> SUFFICES ASSUME NEW i \in DOMAIN better
                     PROVE  better[i].near >= rows[k].near
          OBVIOUS
        <5>1. PICK p \in 1 .. (k - 1) : better[i] = rows[p]
          BY <3>2 DEF Fits
        <5>2. p \in DOMAIN rows /\ p < k
          BY <1>3, <3>1
        <5> QED
          BY <1>2, <5>1, <5>2 DEF Sorted
      <4> QED
        BY <3>3, <4>1, <4>2, <4>3 DEF Skips
    <3>4. CASE ~Skips(c, better, rows[k])
      <4>1. h[k] = Append(better, rows[k])
        BY <1>5, <3>1, <3>4
      <4> HIDE DEF better
      <4>2. Len(better) + 1 \in 1 .. Len(h[k]) /\ h[k][Len(better) + 1] = rows[k]
        BY <3>2, <4>1
      <4>3. Begins(h[k], sent) /\ h[k] \in Seq(B)
        BY <1>6, <2>4, <3>1
      <4>4. Len(better) + 1 \in 1 .. Len(sent) /\ sent[Len(better) + 1] = rows[k]
        BY <2>3, <4>2, <4>3 DEF Begins
      <4> QED
        BY <4>4 DEF Contains
    <3> QED
      BY <3>3, <3>4
  <2>7. BestFirst(c, sent)
    BY <2>6 DEF BestFirst, rows
  <2> QED
    BY <2>1, <2>3, <2>5, <2>7 DEF B
<1> QED
  BY <1>7, <1>8

(* A citation is of a passage that was sent, and no number is lost.         *)
LEMMA CitationsGrounded ==
  ASSUME NEW c \in RetrievalCalls, NEW B, NEW sent \in Seq(B)
  PROVE  Grounded(c, sent, Resolve(c.response, sent))
<1> DEFINE markers == CitedMarkers(c.response)
           known == Only(markers, DOMAIN sent)
           citations == Resolve(c.response, sent)
           shown == Range(c.response) \cap DOMAIN sent
<1>1. citations = [i \in DOMAIN known |-> [marker |-> known[i], chunk |-> sent[known[i]]]]
  BY DEF Resolve
<1>2. c.response \in Seq(Nat)
  BY RetrievalAssumption
<1>3. /\ markers \in Seq(Nat) /\ Range(markers) = Range(c.response)
      /\ \A k, l \in DOMAIN markers : markers[k] = markers[l] => k = l
  BY <1>2, MarkersOnce
<1> HIDE DEF markers, citations
<1>4. /\ known \in Seq(Nat) /\ Among(known, markers, Len(markers))
      /\ Range(known) = Range(markers) \cap DOMAIN sent
  BY <1>3, OnlyKeeps
<1> HIDE DEF known
<1>5. Range(known) = shown
  BY <1>3, <1>4
<1>6. \A k, l \in DOMAIN known : known[k] = known[l] => k = l
  <2>1. ASSUME NEW k \in DOMAIN known, NEW l \in DOMAIN known, k < l
        PROVE  known[k] # known[l]
    <3>1. PICK p, q \in 1 .. Len(markers) : p < q /\ known[k] = markers[p] /\ known[l] = markers[q]
      BY <1>4, <2>1 DEF Among
    <3>2. p \in DOMAIN markers /\ q \in DOMAIN markers /\ p # q
      BY <1>3, <3>1
    <3> QED
      BY <1>3, <3>1, <3>2
  <2>2. \A k, l \in DOMAIN known : k < l \/ k = l \/ l < k
    BY <1>4
  <2> QED
    BY <2>1, <2>2
<1>7. ASSUME NEW i \in DOMAIN citations
      PROVE  /\ citations[i].marker \in DOMAIN sent
             /\ citations[i].chunk = ShownAs(sent)[citations[i].marker]
  <2>1. i \in DOMAIN known /\ citations[i] = [marker |-> known[i], chunk |-> sent[known[i]]]
    BY <1>1
  <2>2. known[i] \in DOMAIN sent
    BY <1>5, <2>1 DEF Range
  <2>3. known[i] \in 1 .. Len(sent)
    BY <2>2
  <2> QED
    BY <2>1, <2>2, <2>3 DEF ShownAs
<1>8. {citations[i].marker : i \in DOMAIN citations} = shown
  <2>1. \A i \in DOMAIN known : i \in DOMAIN citations /\ citations[i].marker = known[i]
    BY <1>1
  <2>2. {citations[i].marker : i \in DOMAIN citations} = {known[i] : i \in DOMAIN known}
    BY <1>1, <2>1
  <2> QED
    BY <1>5, <2>2 DEF Range
<1>9. Len(citations) = Cardinality(shown)
  <2> DEFINE n == Len(known)
  <2>1. n \in Nat /\ DOMAIN known = 1 .. n /\ known = [i \in 1 .. n |-> known[i]]
    BY <1>4
  <2>2. Len(citations) = n
    BY <1>1, <2>1
  <2> HIDE DEF n
  <2>3. ExistsBijection(1 .. n, shown)
    <3>1. known \in [1 .. n -> shown]
      BY <1>5, <2>1 DEF Range
    <3>2. \A x \in shown : \E i \in 1 .. n : known[i] = x
      BY <1>5, <2>1 DEF Range
    <3> QED
      BY <1>6, <2>1, <3>1, <3>2 DEF ExistsBijection, Bijection, Injection, IsInjective, Surjection
  <2>4. IsFiniteSet(1 .. n) /\ Cardinality(1 .. n) = n
    BY <2>1, FS_Interval
  <2>5. Cardinality(1 .. n) = Cardinality(shown)
    BY <2>3, <2>4, FS_Bijection
  <2> QED
    BY <2>2, <2>4, <2>5
<1> HIDE DEF shown
<1> QED
  BY <1>7, <1>8, <1>9 DEF Grounded, citations, shown

-----------------------------------------------------------------------------
(* Whatever the table, the limits and the answer: the passages sent are the *)
(* workspace's and the nearest that fit, and every citation is of the       *)
(* passage the model saw under its number.                                  *)
THEOREM EveryAnswerIsGrounded == AnswerSpec => []AnswersAreGrounded
<1> DEFINE Answered == /\ call \in RetrievalCalls
                       /\ \/ result = Pending
                          \/ result = [op |-> "answer", sent |-> Retrieve(call),
                                       citations |-> Resolve(call.response, Retrieve(call))]
<1>1. AnswerInit => Answered
  BY DEF AnswerInit
<1>2. Answered /\ [Answer]_<<call, result>> => Answered'
  BY DEF Answer
<1>3. Answered => AnswersAreGrounded
  <2> SUFFICES ASSUME Answered, result.op = "answer"
               PROVE  /\ Allowed(call, result.sent) /\ BestFirst(call, result.sent)
                      /\ Grounded(call, result.sent, result.citations)
    BY DEF AnswersAreGrounded
  <2>1. /\ call \in RetrievalCalls /\ result.sent = Retrieve(call)
        /\ result.citations = Resolve(call.response, Retrieve(call))
    BY DEF Pending
  <2> HIDE DEF Answered
  <2>2. /\ Retrieve(call) \in Seq(Range(call.chunks))
        /\ Allowed(call, Retrieve(call)) /\ BestFirst(call, Retrieve(call))
    BY <2>1, SentIsBest
  <2>3. Grounded(call, Retrieve(call), Resolve(call.response, Retrieve(call)))
    BY <2>1, <2>2, CitationsGrounded
  <2> QED
    BY <2>1, <2>2, <2>3
<1> QED
  BY <1>1, <1>2, <1>3, PTL DEF AnswerSpec
=============================================================================
