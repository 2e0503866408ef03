------------------------ MODULE TraitCommitmentProofs -------------------------
(* Theorems of Selection for every width of a word, every number of words in a
   block and every size of the pool; and of TraitCommitment, which extends it, for
   every size of a collection, any leaves and any root.                     *)
EXTENDS TraitCommitment, FiniteSetTheorems, SequenceTheorems, WellFoundedInduction, TLAPS

-----------------------------------------------------------------------------
(* Division with a remainder.                                               *)

LEMMA DivMod ==
  ASSUME NEW a \in Nat, NEW m \in Nat \ {0}
  PROVE  /\ a % m \in 0..(m - 1) /\ a \div m \in Nat
         /\ a = m * (a \div m) + (a % m)
OBVIOUS

LEMMA Monotone ==
  ASSUME NEW m \in Nat \ {0}, NEW i \in Nat, NEW j \in Nat, i < j
  PROVE  m * i + m <= m * j
<1>1. PICK d \in Nat : j = (i + 1) + d
  <2>1. j - (i + 1) \in Nat
    OBVIOUS
  <2> QED BY <2>1
<1>2. m * j = (m * (i + 1)) + m * d
  BY <1>1
<1>3. m * (i + 1) = m * i + m
  OBVIOUS
<1>4. m * d \in Nat /\ m * i \in Nat
  OBVIOUS
<1> QED BY <1>2, <1>3, <1>4

(* Only one quotient and one remainder fit.                                  *)
LEMMA DivModUnique ==
  ASSUME NEW a \in Nat, NEW m \in Nat \ {0}, NEW q \in Nat, NEW r \in 0..(m - 1),
         a = m * q + r
  PROVE  a \div m = q /\ a % m = r
<1> DEFINE p == a \div m
           s == a % m
<1>1. /\ p \in Nat /\ s \in Nat /\ s < m /\ a = m * p + s
  BY DivMod
<1>2. r \in Nat /\ r < m /\ m * q \in Nat
  OBVIOUS
<1> HIDE DEF p, s
<1>3. m * p \in Nat
  BY <1>1
<1>4. ~(p < q)
  <2>1. p < q => m * p + m <= m * q
    BY <1>1, Monotone
  <2> QED BY <1>1, <1>2, <1>3, <2>1
<1>5. ~(q < p)
  <2>1. q < p => m * q + m <= m * p
    BY <1>1, Monotone
  <2> QED BY <1>1, <1>2, <1>3, <2>1
<1>6. p = q
  BY <1>1, <1>4, <1>5
<1>7. s = r
  BY <1>1, <1>2, <1>6
<1> QED BY <1>6, <1>7 DEF p, s

-----------------------------------------------------------------------------
(* What the rejection zone is.                                              *)

(* The accepted words make whole rounds, at least one, and the rejected ones are
   fewer than a round.                                                      *)
LEMMA WholeRounds ==
  ASSUME NEW m \in 1..U64_MAX
  PROVE  /\ zone(m) \in Nat /\ zone(m) <= U64_MAX /\ U64_MAX - zone(m) < m
         /\ Rounds(m) \in Nat \ {0} /\ zone(m) + 1 = m * Rounds(m)
<1> DEFINE k == U64_MAX \div m
           r == U64_MAX % m
<1>1. U64_MAX \in Nat /\ m \in Nat \ {0} /\ m <= U64_MAX
  BY WidthAssumption
<1>2. k \in Nat /\ r \in Nat /\ r < m /\ U64_MAX = m * k + r
  BY <1>1, DivMod
<1>3. k # 0
  <2>1. k = 0 => U64_MAX = r
    BY <1>1, <1>2
  <2> HIDE DEF k, r
  <2> QED BY <1>1, <1>2, <2>1
<1>4. zone(m) = U64_MAX - ((r + 1) % m)
  BY DEF zone
<1> HIDE DEF k, r
<1>5. m * k \in Nat
  BY <1>1, <1>2
<1>6. PICK q \in Nat \ {0} : /\ zone(m) + 1 = m * q
                             /\ zone(m) \in Nat /\ zone(m) <= U64_MAX
                             /\ U64_MAX - zone(m) < m
  <2>1. CASE r + 1 = m
    <3>1. m = m * 1 + 0
      BY <1>1
    <3>2. (r + 1) % m = 0
      BY <1>1, <2>1, <3>1, DivModUnique
    <3>3. zone(m) = U64_MAX
      BY <1>1, <1>4, <3>2
    <3>4. m * (k + 1) = m * k + m
      BY <1>1, <1>2
    <3>5. U64_MAX + 1 = m * (k + 1)
      BY <1>1, <1>2, <1>5, <2>1, <3>4
    <3>6. k + 1 \in Nat \ {0}
      BY <1>2
    <3>7. /\ zone(m) + 1 = m * (k + 1) /\ zone(m) \in Nat
          /\ zone(m) <= U64_MAX /\ U64_MAX - zone(m) < m
      BY <1>1, <3>3, <3>5
    <3> QED BY <3>6, <3>7
  <2>2. CASE r + 1 # m
    <3>1. r + 1 \in 0..(m - 1) /\ r + 1 \in Nat
      BY <1>1, <1>2, <2>2
    <3>2. r + 1 = m * 0 + (r + 1)
      BY <1>1, <3>1
    <3>3. (r + 1) % m = r + 1
      BY <1>1, <3>1, <3>2, DivModUnique
    <3>4. zone(m) + 1 = m * k
      BY <1>1, <1>2, <1>4, <1>5, <3>3
    <3>5. m * k >= m
      <4>1. 0 < k => m * 0 + m <= m * k
        BY <1>1, <1>2, Monotone
      <4>2. m * 0 = 0
        BY <1>1
      <4> QED BY <1>1, <1>2, <1>3, <1>5, <4>1, <4>2
    <3>6. zone(m) = m * k - 1
      BY <1>1, <1>2, <1>4, <1>5, <3>3
    <3>7. zone(m) \in Nat /\ zone(m) <= U64_MAX /\ U64_MAX - zone(m) < m
      BY <1>1, <1>2, <1>5, <2>2, <3>5, <3>6
    <3> QED BY <1>2, <1>3, <3>4, <3>7
  <2> QED BY <2>1, <2>2
<1>7. Rounds(m) = q
  <2>1. zone(m) + 1 \in Nat /\ zone(m) + 1 = m * q + 0 /\ 0 \in 0..(m - 1)
    BY <1>1, <1>6
  <2>2. (zone(m) + 1) \div m = q
    BY <1>1, <1>6, <2>1, DivModUnique
  <2> QED BY <2>2 DEF Rounds
<1> QED BY <1>6, <1>7

(* The words that lead to an index are one per round.                        *)
LEMMA OnePerRound ==
  ASSUME NEW m \in 1..U64_MAX, NEW index \in 0..(m - 1)
  PROVE  WordsFor(m, index) = {index + (j * m) : j \in 0..(Rounds(m) - 1)}
<1>1. U64_MAX \in Nat /\ m \in Nat \ {0} /\ index \in Nat /\ index < m
  BY WidthAssumption
<1>2. PICK q \in Nat \ {0} : q = Rounds(m)
  BY WholeRounds
<1>3. /\ zone(m) \in Nat /\ zone(m) <= U64_MAX /\ zone(m) + 1 = m * q
  BY <1>2, WholeRounds
<1>4. m * q \in Nat
  BY <1>1, <1>2
<1>5. ASSUME NEW x \in 0..U64_MAX, x <= zone(m), x % m = index
      PROVE  \E j \in 0..(q - 1) : x = index + (j * m)
  <2>1. x \in Nat
    BY <1>1
  <2>2. PICK j \in Nat : x = m * j + index
    BY <1>1, <1>5, <2>1, DivMod
  <2>3. m * j \in Nat /\ m * j = j * m
    BY <1>1, <2>2
  <2>4. j < q
    <3>1. q < j => m * q + m <= m * j
      BY <1>1, <1>2, <2>2, Monotone
    <3>2. q = j => m * q = m * j
      OBVIOUS
    <3>3. m * j < m * q
      BY <1>1, <1>3, <1>4, <1>5, <2>1, <2>2, <2>3
    <3> QED BY <1>1, <1>2, <1>4, <2>2, <2>3, <3>1, <3>2, <3>3
  <2>5. j \in 0..(q - 1)
    BY <1>2, <2>2, <2>4
  <2>6. x = index + (j * m)
    BY <1>1, <2>2, <2>3
  <2> QED BY <2>5, <2>6
<1>6. ASSUME NEW j \in 0..(q - 1), NEW x, x = index + (j * m)
      PROVE  x \in 0..U64_MAX /\ x <= zone(m) /\ x % m = index
  <2>1. j \in Nat /\ j < q
    BY <1>2
  <2>2. m * j \in Nat /\ m * j = j * m
    BY <1>1, <2>1
  <2>3. x \in Nat /\ x = m * j + index
    BY <1>1, <1>6, <2>2
  <2>4. m * j + m <= m * q
    BY <1>1, <1>2, <2>1, Monotone
  <2>5. x <= zone(m)
    BY <1>1, <1>3, <1>4, <2>2, <2>3, <2>4
  <2>6. x % m = index
    BY <1>1, <2>1, <2>3, DivModUnique
  <2> QED BY <1>1, <1>3, <2>3, <2>5, <2>6
<1>7. ASSUME NEW x \in WordsFor(m, index)
      PROVE  x \in {index + (j * m) : j \in 0..(Rounds(m) - 1)}
  BY <1>2, <1>5 DEF WordsFor, Accepted
<1>8. ASSUME NEW x \in {index + (j * m) : j \in 0..(Rounds(m) - 1)}
      PROVE  x \in WordsFor(m, index)
  <2>1. PICK j \in 0..(q - 1) : x = index + (j * m)
    BY <1>2
  <2> QED BY <2>1, <1>6 DEF WordsFor, Accepted
<1> QED BY <1>7, <1>8

-----------------------------------------------------------------------------
(* The theorems about the draw.                                             *)

\* The index that a draw ends with is below the size it was asked for.
SizeOK == n \in 1..U64_MAX /\ result \in -1..(n - 1)

LEMMA SizeInductive == Spec => []SizeOK
<1>1. Init => SizeOK
  BY WidthAssumption DEF Init, SizeOK
<1>2. SizeOK /\ [Next]_vars => SizeOK'
  <2>1. SUFFICES ASSUME SizeOK, [Next]_vars
                 PROVE  SizeOK'
    OBVIOUS
  <2>2. ASSUME NEW x \in 0..U64_MAX, Accept(x)
        PROVE  SizeOK'
    <3>1. x \in Nat /\ n \in Nat \ {0}
      BY <2>1, WidthAssumption DEF SizeOK
    <3>2. x % n \in 0..(n - 1)
      BY <3>1, DivMod
    <3> QED BY <2>1, <2>2, <3>1, <3>2 DEF Accept, SizeOK
  <2>3. CASE \/ \E x \in 0..U64_MAX : Reject(x)
             \/ Resample \/ UNCHANGED vars
    BY <2>1, <2>3 DEF Reject, Resample, vars, SizeOK
  <2> QED BY <2>1, <2>2, <2>3 DEF Next
<1> QED BY <1>1, <1>2, PTL DEF Spec

(* The draw of uniform_below is uniform, on 64-bit words as on the small ones that
   the run enumerates: every index has one word in each round of n.          *)
THEOREM DrawIsUniform == Spec => []Unbiased
<1>1. ASSUME SizeOK
      PROVE  Unbiased
  BY <1>1, OnePerRound DEF SizeOK, Unbiased
<1>2. SizeOK => Unbiased
  BY <1>1
<1> QED BY <1>2, SizeInductive, PTL

(* Fewer words than one round, and fewer than half of all, are rejected.      *)
THEOREM DrawEnds == Spec => []FewRejected
<1>1. ASSUME SizeOK
      PROVE  FewRejected
  <2>1. U64_MAX \in Nat /\ n \in Nat \ {0}
    BY <1>1, WidthAssumption DEF SizeOK
  <2>2. PICK q \in Nat \ {0} : /\ zone(n) \in Nat /\ zone(n) <= U64_MAX
                               /\ U64_MAX - zone(n) < n /\ zone(n) + 1 = n * q
    BY <1>1, WholeRounds DEF SizeOK
  <2>3. n * q >= n
    <3>1. n * 0 + n <= n * q
      BY <2>1, <2>2, Monotone
    <3>2. n * 0 = 0 /\ n * q \in Nat
      BY <2>1, <2>2
    <3> QED BY <2>1, <3>1, <3>2
  <2>4. zone(n) + 1 >= n
    BY <2>1, <2>2, <2>3
  <2>5. 2 * (U64_MAX - zone(n)) < U64_MAX + 1
    BY <2>1, <2>2, <2>4
  <2> QED BY <2>2, <2>5 DEF FewRejected
<1>2. SizeOK => FewRejected
  BY <1>1
<1> QED BY <1>2, SizeInductive, PTL

-----------------------------------------------------------------------------
(* The loops: each is a function of the number of its rounds.               *)

(* Counting up to n: a set with 0 and with the successor of each member.      *)
LEMMA CountUp ==
  ASSUME NEW n0 \in Nat, NEW S, 0 \in S, \A k \in 0..(n0 - 1) : k \in S => k + 1 \in S
  PROVE  0..n0 \subseteq S
<1> DEFINE R == OpToRel(<, Nat)
           T == {k \in 0..n0 : k \notin S}
<1> SUFFICES ASSUME T # {} PROVE FALSE
  OBVIOUS
<1>1. IsWellFoundedOn(R, Nat)
  BY NatLessThanWellFounded
<1>2. \A x, y \in Nat : <<x, y>> \in R <=> x < y
  BY DEF OpToRel
<1> HIDE DEF R
<1>3. PICK x \in T : \A y \in T : ~(<<y, x>> \in R)
  <2>1. T \subseteq Nat
    OBVIOUS
  <2> HIDE DEF T
  <2> QED BY <1>1, <2>1, WFMin
<1>4. x \in 0..n0 /\ x \notin S /\ x # 0
  BY <1>3
<1>5. x - 1 \in 0..(n0 - 1) /\ x - 1 \in Nat /\ x \in Nat /\ x - 1 < x
  BY <1>4
<1>6. x - 1 \in S
  <2>1. SUFFICES ASSUME x - 1 \notin S PROVE FALSE
    OBVIOUS
  <2>2. x - 1 \in T
    BY <1>5, <2>1
  <2>3. <<x - 1, x>> \in R
    BY <1>2, <1>5
  <2> QED BY <1>3, <2>2, <2>3
<1>7. x - 1 + 1 = x
  BY <1>5
<1> QED BY <1>4, <1>5, <1>6, <1>7

(* The recursive definitions mean what they say.                              *)
LEMMA AncestorsRec ==
  ASSUME NEW index, NEW m \in Nat
  PROVE  /\ Ancestors(index, m) = [k \in 0..m |->
              IF k = 0 THEN index ELSE Ancestors(index, m)[k - 1] \div 2]
<1> DEFINE Is(f, j) == f = [k \in 0..j |-> IF k = 0 THEN index ELSE f[k - 1] \div 2]
           S == {j \in 0..m : \E f : Is(f, j)}
<1>1. 0 \in S
  <2>1. Is([k \in 0..0 |-> index], 0)
    OBVIOUS
  <2> HIDE DEF Is
  <2> QED BY <2>1
<1>2. ASSUME NEW j \in 0..(m - 1), j \in S PROVE j + 1 \in S
  <2>1. PICK f : Is(f, j)
    BY <1>2
  <2> DEFINE g == [k \in 0..(j + 1) |-> IF k = j + 1 THEN f[j] \div 2 ELSE f[k]]
  <2>2. Is(g, j + 1)
    BY <2>1
  <2> HIDE DEF Is, g
  <2> QED BY <2>2
<1>3. m \in S
  <2> HIDE DEF S
  <2> QED BY <1>1, <1>2, CountUp
<1>4. \E f : Is(f, m)
  BY <1>3
<1> DEFINE a == CHOOSE f : Is(f, m)
<1>5. Is(a, m)
  <2> HIDE DEF Is
  <2> QED BY <1>4
<1> QED BY <1>5 DEF Ancestors

LEMMA ShiftedRec ==
  ASSUME NEW m \in Nat
  PROVE  Shifted(m) = [k \in 0..m |-> IF k = 0 THEN 1 ELSE 2 * Shifted(m)[k - 1]]
<1> DEFINE Is(f, j) == f = [k \in 0..j |-> IF k = 0 THEN 1 ELSE 2 * f[k - 1]]
           S == {j \in 0..m : \E f : Is(f, j)}
<1>1. 0 \in S
  <2>1. Is([k \in 0..0 |-> 1], 0)
    OBVIOUS
  <2> HIDE DEF Is
  <2> QED BY <2>1
<1>2. ASSUME NEW j \in 0..(m - 1), j \in S PROVE j + 1 \in S
  <2>1. PICK f : Is(f, j)
    BY <1>2
  <2> DEFINE g == [k \in 0..(j + 1) |-> IF k = j + 1 THEN 2 * f[j] ELSE f[k]]
  <2>2. Is(g, j + 1)
    BY <2>1
  <2> HIDE DEF Is, g
  <2> QED BY <2>2
<1>3. m \in S
  <2> HIDE DEF S
  <2> QED BY <1>1, <1>2, CountUp
<1>4. \E f : Is(f, m)
  BY <1>3
<1> DEFINE a == CHOOSE f : Is(f, m)
<1>5. Is(a, m)
  <2> HIDE DEF Is
  <2> QED BY <1>4
<1> QED BY <1>5 DEF Shifted

LEMMA PathRec ==
  ASSUME NEW leaf, NEW index, NEW proof, Len(proof) \in Nat
  PROVE  LET i == Ancestors(index, Len(proof))
         IN  Path(leaf, index, proof) =
               [k \in 0..Len(proof) |->
                  IF k = 0 THEN leaf
                  ELSE IF i[k - 1] % 2 = 0
                       THEN node_hash(Path(leaf, index, proof)[k - 1], proof[k])
                       ELSE node_hash(proof[k], Path(leaf, index, proof)[k - 1])]
<1> DEFINE m == Len(proof)
           i == Ancestors(index, m)
           Step(node, k) == IF i[k - 1] % 2 = 0
                            THEN node_hash(node, proof[k])
                            ELSE node_hash(proof[k], node)
           Is(f, j) == f = [k \in 0..j |-> IF k = 0 THEN leaf ELSE Step(f[k - 1], k)]
           S == {j \in 0..m : \E f : Is(f, j)}
<1>0. m \in Nat
  OBVIOUS
<1>6. Path(leaf, index, proof) = CHOOSE f : Is(f, m)
  BY DEF Path
<1> HIDE DEF m, Step
<1>1. 0 \in S
  <2>1. Is([k \in 0..0 |-> leaf], 0)
    OBVIOUS
  <2> HIDE DEF Is
  <2> QED BY <1>0, <2>1
<1>2. ASSUME NEW j \in 0..(m - 1), j \in S PROVE j + 1 \in S
  <2>1. PICK f : Is(f, j)
    BY <1>2
  <2> DEFINE g == [k \in 0..(j + 1) |-> IF k = j + 1 THEN Step(f[j], j + 1) ELSE f[k]]
  <2>2. Is(g, j + 1)
    BY <1>0, <2>1
  <2> HIDE DEF Is, g
  <2> QED BY <1>0, <2>2
<1>3. m \in S
  <2> HIDE DEF S
  <2>1. \A k \in 0..(m - 1) : k \in S => k + 1 \in S
    BY <1>2
  <2>2. 0..m \subseteq S
    BY <1>0, <1>1, <2>1, CountUp
  <2> QED BY <1>0, <2>2
<1>4. \E f : Is(f, m)
  BY <1>3
<1> DEFINE a == CHOOSE f : Is(f, m)
<1>5. Is(a, m)
  <2> HIDE DEF Is
  <2> QED BY <1>4
<1> QED BY <1>5, <1>6 DEF Step, m

LEMMA LevelsRec ==
  ASSUME NEW leaves, Len(leaves) \in Nat
  PROVE  Levels(leaves) = [k \in 0..Len(leaves) |->
           IF k = 0 THEN leaves ELSE Above(Levels(leaves)[k - 1])]
<1> DEFINE m == Len(leaves)
           Is(f, j) == f = [k \in 0..j |-> IF k = 0 THEN leaves ELSE Above(f[k - 1])]
           S == {j \in 0..m : \E f : Is(f, j)}
<1>0. m \in Nat
  OBVIOUS
<1>6. Levels(leaves) = CHOOSE f : Is(f, m)
  BY DEF Levels
<1> HIDE DEF m
<1>1. 0 \in S
  <2>1. Is([k \in 0..0 |-> leaves], 0)
    OBVIOUS
  <2> HIDE DEF Is
  <2> QED BY <1>0, <2>1
<1>2. ASSUME NEW j \in 0..(m - 1), j \in S PROVE j + 1 \in S
  <2>1. PICK f : Is(f, j)
    BY <1>2
  <2> DEFINE g == [k \in 0..(j + 1) |-> IF k = j + 1 THEN Above(f[j]) ELSE f[k]]
  <2>2. Is(g, j + 1)
    BY <1>0, <2>1
  <2> HIDE DEF Is, g
  <2> QED BY <1>0, <2>2
<1>3. m \in S
  <2> HIDE DEF S
  <2>1. \A k \in 0..(m - 1) : k \in S => k + 1 \in S
    BY <1>2
  <2>2. 0..m \subseteq S
    BY <1>0, <1>1, <2>1, CountUp
  <2> QED BY <1>0, <2>2
<1>4. \E f : Is(f, m)
  BY <1>3
<1> DEFINE a == CHOOSE f : Is(f, m)
<1>5. Is(a, m)
  <2> HIDE DEF Is
  <2> QED BY <1>4
<1> QED BY <1>5, <1>6 DEF m

(* ... and so level by level.                                                  *)
LEMMA AncestorsStep ==
  ASSUME NEW index, NEW m \in Nat
  PROVE  /\ Ancestors(index, m)[0] = index
         /\ \A k \in 0..(m - 1) : Ancestors(index, m)[k + 1] = Ancestors(index, m)[k] \div 2
<1> DEFINE i == Ancestors(index, m)
<1>1. i = [k \in 0..m |-> IF k = 0 THEN index ELSE i[k - 1] \div 2]
  BY AncestorsRec
<1> HIDE DEF i
<1>2. 0 \in 0..m /\ i[0] = index
  BY <1>1
<1>3. ASSUME NEW k \in 0..(m - 1) PROVE i[k + 1] = i[k] \div 2
  <2>1. k + 1 \in 0..m /\ k + 1 # 0 /\ (k + 1) - 1 = k
    OBVIOUS
  <2>2. i[k + 1] = i[(k + 1) - 1] \div 2
    BY <1>1, <2>1
  <2> QED BY <2>1, <2>2
<1> QED BY <1>2, <1>3 DEF i

LEMMA PathStep ==
  ASSUME NEW leaf, NEW index, NEW proof, Len(proof) \in Nat
  PROVE  LET node == Path(leaf, index, proof)
         IN  /\ node[0] = leaf
             /\ \A k \in 0..(Len(proof) - 1) :
                  node[k + 1] = IF Ancestors(index, Len(proof))[k] % 2 = 0
                                THEN node_hash(node[k], proof[k + 1])
                                ELSE node_hash(proof[k + 1], node[k])
<1> DEFINE m == Len(proof)
           i == Ancestors(index, m)
           node == Path(leaf, index, proof)
<1>1. node = [k \in 0..m |-> IF k = 0 THEN leaf
                            ELSE IF i[k - 1] % 2 = 0 THEN node_hash(node[k - 1], proof[k])
                                 ELSE node_hash(proof[k], node[k - 1])]
  BY PathRec
<1>0. m \in Nat
  OBVIOUS
<1> HIDE DEF m, i, node
<1>2. 0 \in 0..m /\ node[0] = leaf
  BY <1>0, <1>1
<1>3. ASSUME NEW k \in 0..(m - 1)
      PROVE  node[k + 1] = IF i[k] % 2 = 0 THEN node_hash(node[k], proof[k + 1])
                           ELSE node_hash(proof[k + 1], node[k])
  <2>1. k + 1 \in 0..m /\ k + 1 # 0 /\ (k + 1) - 1 = k
    BY <1>0
  <2>2. node[k + 1] = IF i[(k + 1) - 1] % 2 = 0 THEN node_hash(node[(k + 1) - 1], proof[k + 1])
                      ELSE node_hash(proof[k + 1], node[(k + 1) - 1])
    BY <1>1, <2>1
  <2> QED BY <2>1, <2>2
<1> QED BY <1>2, <1>3 DEF node, i, m

LEMMA LevelsStep ==
  ASSUME NEW leaves, Len(leaves) \in Nat
  PROVE  /\ Levels(leaves)[0] = leaves
         /\ \A k \in 0..(Len(leaves) - 1) : Levels(leaves)[k + 1] = Above(Levels(leaves)[k])
<1> DEFINE m == Len(leaves)
           level == Levels(leaves)
<1>1. level = [k \in 0..m |-> IF k = 0 THEN leaves ELSE Above(level[k - 1])]
  BY LevelsRec
<1>0. m \in Nat
  OBVIOUS
<1> HIDE DEF m, level
<1>2. 0 \in 0..m /\ level[0] = leaves
  BY <1>0, <1>1
<1>3. ASSUME NEW k \in 0..(m - 1) PROVE level[k + 1] = Above(level[k])
  <2>1. k + 1 \in 0..m /\ k + 1 # 0 /\ (k + 1) - 1 = k
    BY <1>0
  <2>2. level[k + 1] = Above(level[(k + 1) - 1])
    BY <1>1, <2>1
  <2> QED BY <2>1, <2>2
<1> QED BY <1>2, <1>3 DEF level, m

(* Distinct proofs of one length lead distinct leaves to distinct hashes.      *)
LEMMA ClimbInjective ==
  ASSUME NEW index \in Nat, NEW leafA, NEW leafB, NEW proofA, NEW proofB,
         Len(proofA) \in Nat, Len(proofA) = Len(proofB),
         Climb(leafA, index, proofA) = Climb(leafB, index, proofB)
  PROVE  leafA = leafB
<1> DEFINE m == Len(proofA)
           i == Ancestors(index, m)
           a == Path(leafA, index, proofA)
           b == Path(leafB, index, proofB)
           S == {j \in 0..m : a[m - j] = b[m - j]}
<1>1. m \in Nat /\ Len(proofB) = m /\ a[m] = b[m]
  BY DEF Climb
<1>2. /\ a[0] = leafA /\ b[0] = leafB
      /\ \A k \in 1..m : /\ a[k] = IF i[k - 1] % 2 = 0 THEN node_hash(a[k - 1], proofA[k])
                                   ELSE node_hash(proofA[k], a[k - 1])
                         /\ b[k] = IF i[k - 1] % 2 = 0 THEN node_hash(b[k - 1], proofB[k])
                                   ELSE node_hash(proofB[k], b[k - 1])
  <2>1. /\ a = [k \in 0..m |-> IF k = 0 THEN leafA
                               ELSE IF i[k - 1] % 2 = 0 THEN node_hash(a[k - 1], proofA[k])
                                    ELSE node_hash(proofA[k], a[k - 1])]
        /\ b = [k \in 0..m |-> IF k = 0 THEN leafB
                               ELSE IF i[k - 1] % 2 = 0 THEN node_hash(b[k - 1], proofB[k])
                                    ELSE node_hash(proofB[k], b[k - 1])]
    BY <1>1, PathRec
  <2> HIDE DEF m, i, a, b
  <2>2. \A k \in 1..m : k \in 0..m /\ k # 0
    BY <1>1
  <2>3. 0 \in 0..m
    BY <1>1
  <2>4. a[0] = leafA /\ b[0] = leafB
    BY <2>1, <2>3
  <2> QED BY <2>1, <2>2, <2>4
<1> HIDE DEF m, i, a, b
<1>3. 0 \in S
  BY <1>1
<1>4. ASSUME NEW j \in 0..(m - 1), j \in S PROVE j + 1 \in S
  <2>1. m - j \in 1..m /\ m - j - 1 = m - (j + 1) /\ j + 1 \in 0..m
    BY <1>1
  <2>2. a[m - j] = b[m - j]
    BY <1>4
  <2>3. PICK k \in 1..m : k = m - j
    BY <2>1
  <2>4. a[k] = b[k]
    BY <2>2, <2>3
  <2>5. \A x, y, u, v : node_hash(x, u) = node_hash(y, v) => x = y /\ u = v
    BY DEF node_hash
  <2>6. a[k - 1] = b[k - 1]
    <3>1. CASE i[k - 1] % 2 = 0
      <4>1. node_hash(a[k - 1], proofA[k]) = node_hash(b[k - 1], proofB[k])
        BY <1>2, <2>4, <3>1
      <4> QED BY <2>5, <4>1
    <3>2. CASE i[k - 1] % 2 # 0
      <4>1. node_hash(proofA[k], a[k - 1]) = node_hash(proofB[k], b[k - 1])
        BY <1>2, <2>4, <3>2
      <4> QED BY <2>5, <4>1
    <3> QED BY <3>1, <3>2
  <2> QED BY <2>1, <2>3, <2>6
<1>5. m \in S
  <2> HIDE DEF S
  <2>1. \A k \in 0..(m - 1) : k \in S => k + 1 \in S
    BY <1>4
  <2>2. 0..m \subseteq S
    BY <1>1, <1>3, <2>1, CountUp
  <2> QED BY <1>1, <2>2
<1>6. a[m - m] = b[m - m] /\ m - m = 0
  BY <1>1, <1>5
<1> QED BY <1>2, <1>6

-----------------------------------------------------------------------------
(* The tree that build makes, and its proofs.                               *)

(* A function on 1..m is a sequence of m members.                              *)
LEMMA LenOfFcn ==
  ASSUME NEW m \in Nat, NEW f, f = [j \in 1..m |-> f[j]]
  PROVE  Len(f) = m
<1> DEFINE S == {f[j] : j \in 1..m}
<1>1. f \in [1..m -> S]
  OBVIOUS
<1> HIDE DEF S
<1>2. f \in Seq(S)
  BY <1>1, SeqDef
<1>3. DOMAIN f = 1..Len(f) /\ Len(f) \in Nat
  BY <1>2, LenProperties
<1>4. DOMAIN f = 1..m
  BY <1>1
<1> QED BY <1>3, <1>4

LEMMA AncestorsNat ==
  ASSUME NEW index \in Nat, NEW m \in Nat
  PROVE  \A k \in 0..m : Ancestors(index, m)[k] \in Nat
<1> DEFINE i == Ancestors(index, m)
           S == {k \in 0..m : i[k] \in Nat}
<1>1. i = [k \in 0..m |-> IF k = 0 THEN index ELSE i[k - 1] \div 2]
  BY AncestorsRec
<1> HIDE DEF i
<1>2. 0 \in S
  BY <1>1
<1>3. ASSUME NEW k \in 0..(m - 1), k \in S PROVE k + 1 \in S
  <2>1. i[k + 1] = i[k] \div 2 /\ i[k] \in Nat /\ k + 1 \in 0..m
    BY <1>1, <1>3
  <2> QED BY <2>1
<1>4. 0..m \subseteq S
  <2> HIDE DEF S
  <2>1. \A k \in 0..(m - 1) : k \in S => k + 1 \in S
    BY <1>3
  <2> QED BY <1>2, <2>1, CountUp
<1> QED BY <1>4 DEF i

(* What one level of the tree is above another.                                *)
LEMMA AboveLen ==
  ASSUME NEW level, Len(level) \in Nat \ {0}
  PROVE  /\ Len(Above(level)) = (Len(level) + 1) \div 2
         /\ Len(Above(level)) \in Nat \ {0}
         /\ \A j \in 1..Len(Above(level)) :
              Above(level)[j] =
                node_hash(level[(2 * j) - 1],
                          IF 2 * j <= Len(level) THEN level[2 * j] ELSE level[(2 * j) - 1])
<1> DEFINE m == (Len(level) + 1) \div 2
           f == Above(level)
<1>1. m \in Nat \ {0}
  OBVIOUS
<1>2. f = [j \in 1..m |-> node_hash(level[(2 * j) - 1],
             IF 2 * j <= Len(level) THEN level[2 * j] ELSE level[(2 * j) - 1])]
  BY DEF Above
<1> HIDE DEF m, f
<1>3. f = [j \in 1..m |-> f[j]]
  BY <1>2
<1>4. Len(f) = m
  BY <1>1, <1>3, LenOfFcn
<1> QED BY <1>1, <1>2, <1>4 DEF m, f

(* Shifted is 1, 2, 4, ... and so beyond its index.                            *)
LEMMA ShiftedGrows ==
  ASSUME NEW m \in Nat
  PROVE  /\ Shifted(m)[0] = 1
         /\ \A k \in 0..(m - 1) : Shifted(m)[k + 1] = 2 * Shifted(m)[k]
         /\ \A k \in 0..m : Shifted(m)[k] \in Nat /\ Shifted(m)[k] > k
<1> DEFINE p == Shifted(m)
           S == {k \in 0..m : p[k] \in Nat /\ p[k] > k}
<1>1. p = [k \in 0..m |-> IF k = 0 THEN 1 ELSE 2 * p[k - 1]]
  BY ShiftedRec
<1> HIDE DEF p
<1>2. p[0] = 1 /\ \A k \in 0..(m - 1) : p[k + 1] = 2 * p[k]
  <2>1. 0 \in 0..m /\ \A k \in 0..(m - 1) : k + 1 \in 0..m /\ k + 1 # 0 /\ k + 1 - 1 = k
    OBVIOUS
  <2>2. p[0] = 1
    BY <1>1, <2>1
  <2>3. ASSUME NEW k \in 0..(m - 1) PROVE p[k + 1] = 2 * p[k]
    BY <1>1, <2>1
  <2> QED BY <2>2, <2>3
<1>3. 0 \in S
  BY <1>2
<1>4. ASSUME NEW k \in 0..(m - 1), k \in S PROVE k + 1 \in S
  BY <1>2, <1>4
<1>5. 0..m \subseteq S
  <2> HIDE DEF S
  <2>1. \A k \in 0..(m - 1) : k \in S => k + 1 \in S
    BY <1>4
  <2> QED BY <1>3, <2>1, CountUp
<1> QED BY <1>2, <1>5 DEF p

(* A non-empty set of numbers has a least one.                                 *)
LEMMA Least ==
  ASSUME NEW S, S \subseteq Nat, S # {}
  PROVE  \E k \in S : \A j \in S : k <= j
<1> DEFINE R == OpToRel(<, Nat)
<1>1. IsWellFoundedOn(R, Nat)
  BY NatLessThanWellFounded
<1>2. \A x, y \in Nat : <<x, y>> \in R <=> x < y
  BY DEF OpToRel
<1> HIDE DEF R
<1>3. PICK x \in S : \A y \in S : ~(<<y, x>> \in R)
  BY <1>1, WFMin
<1>4. ASSUME NEW j \in S PROVE x <= j
  <2>1. j \in Nat /\ x \in Nat /\ ~(j < x)
    BY <1>2, <1>3
  <2> QED BY <2>1
<1> QED BY <1>3, <1>4

IsDepth(m, k) ==
  /\ k \in 0..m /\ Shifted(m)[k] >= m
  /\ \A e \in 0..(k - 1) : Shifted(m)[e] < m

LEMMA DepthIs ==
  ASSUME NEW m \in Nat
  PROVE  /\ IsDepth(m, depth_for(m))
         /\ \A k : IsDepth(m, k) => k = depth_for(m)
<1> DEFINE p == Shifted(m)
           S == {k \in 0..m : p[k] >= m}
<1>1. \A k \in 0..m : p[k] \in Nat /\ p[k] > k
  BY ShiftedGrows
<1> HIDE DEF p
<1>2. m \in S /\ S \subseteq Nat
  BY <1>1
<1>3. PICK k \in S : \A j \in S : k <= j
  <2> HIDE DEF S
  <2> QED BY <1>2, Least
<1>4. k \in 0..m /\ p[k] >= m /\ \A e \in 0..(k - 1) : p[e] < m
  <2>1. k \in 0..m /\ p[k] >= m
    BY <1>3
  <2>2. ASSUME NEW e \in 0..(k - 1) PROVE p[e] < m
    <3>1. e \in 0..m /\ ~(k <= e)
      BY <2>1
    <3>2. e \notin S
      BY <1>3, <3>1
    <3> QED BY <1>1, <3>1, <3>2
  <2> QED BY <2>1, <2>2
<1>5. depth_for(m) = CHOOSE d \in 0..m : p[d] >= m /\ \A e \in 0..(d - 1) : p[e] < m
  BY DEF depth_for, p
<1>6. depth_for(m) \in 0..m /\ p[depth_for(m)] >= m /\ \A e \in 0..(depth_for(m) - 1) : p[e] < m
  BY <1>4, <1>5
<1>7. ASSUME NEW c, NEW d, IsDepth(m, c), IsDepth(m, d) PROVE ~(c < d)
  <2>1. c \in 0..m /\ d \in 0..m /\ p[c] >= m /\ \A e \in 0..(d - 1) : p[e] < m
    BY <1>7 DEF IsDepth, p
  <2>2. SUFFICES ASSUME c < d PROVE FALSE
    OBVIOUS
  <2>3. c \in 0..(d - 1) /\ p[c] \in Nat
    BY <1>1, <2>1, <2>2
  <2> QED BY <2>1, <2>3
<1>8. IsDepth(m, depth_for(m))
  BY <1>6 DEF IsDepth, p
<1>9. ASSUME NEW d, IsDepth(m, d) PROVE d = depth_for(m)
  <2>1. d \in 0..m /\ depth_for(m) \in 0..m
    BY <1>8, <1>9 DEF IsDepth
  <2> HIDE DEF p
  <2> QED BY <1>7, <1>8, <1>9, <2>1
<1> QED BY <1>8, <1>9

(* How long each level of the tree is: the least count of 2^k that covers m.   *)
LEMMA LevelLengths ==
  ASSUME NEW leaves, Len(leaves) \in Nat \ {0}
  PROVE  \A k \in 0..Len(leaves) :
           /\ Len(Levels(leaves)[k]) \in Nat \ {0}
           /\ (Len(Levels(leaves)[k]) - 1) * Shifted(Len(leaves))[k] < Len(leaves)
           /\ Len(leaves) <= Len(Levels(leaves)[k]) * Shifted(Len(leaves))[k]
<1> DEFINE m == Len(leaves)
           p == Shifted(m)
           level == Levels(leaves)
           Fits(k) == /\ Len(level[k]) \in Nat \ {0}
                      /\ (Len(level[k]) - 1) * p[k] < m
                      /\ m <= Len(level[k]) * p[k]
           S == {k \in 0..m : Fits(k)}
<1>1. /\ m \in Nat \ {0}
      /\ p[0] = 1 /\ \A k \in 0..(m - 1) : p[k + 1] = 2 * p[k]
      /\ \A k \in 0..m : p[k] \in Nat /\ p[k] > k
  BY ShiftedGrows
<1>2. level[0] = leaves /\ \A k \in 0..(m - 1) : level[k + 1] = Above(level[k])
  BY <1>1, LevelsStep
<1>3. Len(level[0]) = m
  BY <1>2
<1> HIDE DEF m, p, level
<1>4. 0 \in S
  BY <1>1, <1>3
<1>5. ASSUME NEW k \in 0..(m - 1), k \in S PROVE k + 1 \in S
  <2>0. PICK q \in Nat : q = p[k] /\ p[k + 1] = 2 * q
    BY <1>1
  <2>1. PICK l \in Nat \ {0} : l = Len(level[k]) /\ (l - 1) * q < m /\ m <= l * q
    BY <1>5, <2>0
  <2>2. Len(level[k + 1]) = (l + 1) \div 2 /\ Len(level[k + 1]) \in Nat \ {0}
    BY <1>2, <2>1, AboveLen
  <2>3. PICK h \in Nat \ {0} : h = Len(level[k + 1]) /\ l <= 2 * h /\ 2 * h <= l + 1
    BY <2>2
  <2>5. h * (2 * q) = (2 * h) * q /\ (h - 1) * (2 * q) = (2 * h - 2) * q
    OBVIOUS
  <2>6. l * q <= (2 * h) * q
    <3>1. PICK c \in Nat : 2 * h = l + c
      <4>1. 2 * h - l \in Nat /\ 2 * h = l + (2 * h - l)
        BY <2>3
      <4> QED BY <4>1
    <3>2. (l + c) * q = l * q + c * q /\ c * q \in Nat /\ l * q \in Nat
      OBVIOUS
    <3> QED BY <3>1, <3>2
  <2>7. (2 * h - 2) * q <= (l - 1) * q
    <3>1. PICK c \in Nat : l - 1 = (2 * h - 2) + c
      <4>1. \A a, b \in Nat : 2 * b <= a + 1 =>
              (a + 1) - 2 * b \in Nat /\ a - 1 = (2 * b - 2) + ((a + 1) - 2 * b)
        OBVIOUS
      <4> QED BY <2>3, <4>1
    <3>2. PICK g \in Nat : g = 2 * h - 2
      OBVIOUS
    <3>3. (g + c) * q = g * q + c * q /\ c * q \in Nat /\ g * q \in Nat
      OBVIOUS
    <3> QED BY <3>1, <3>2, <3>3
  <2>8. l * q \in Nat /\ (2 * h) * q \in Nat /\ (l - 1) * q \in Nat /\ (2 * h - 2) * q \in Nat
    <3>1. l - 1 \in Nat /\ 2 * h \in Nat /\ 2 * h - 2 \in Nat
      OBVIOUS
    <3> QED BY <3>1
  <2>9. m <= h * (2 * q) /\ (h - 1) * (2 * q) < m
    <3>1. PICK a \in Nat, b \in Nat : a = l * q /\ b = (2 * h) * q
      BY <2>8
    <3>2. m <= (2 * h) * q
      BY <1>1, <2>1, <2>6, <3>1
    <3>3. PICK c \in Nat, d \in Nat : c = (l - 1) * q /\ d = (2 * h - 2) * q
      BY <2>8
    <3>4. (2 * h - 2) * q < m
      BY <1>1, <2>1, <2>7, <3>3
    <3> QED BY <2>5, <3>2, <3>4
  <2>10. k + 1 \in 0..m
    BY <1>1
  <2> QED BY <2>0, <2>2, <2>3, <2>9, <2>10
<1>6. 0..m \subseteq S
  <2> HIDE DEF S
  <2>1. \A k \in 0..(m - 1) : k \in S => k + 1 \in S
    BY <1>5
  <2> QED BY <1>1, <1>4, <2>1, CountUp
<1> QED BY <1>6 DEF m, p, level

(* The tree is as high as the proofs that verify asks for.                      *)
LEMMA TopIsDepth ==
  ASSUME NEW leaves, Len(leaves) \in Nat \ {0}
  PROVE  /\ Top(leaves) = depth_for(Len(leaves))
         /\ Top(leaves) \in 0..Len(leaves)
         /\ Len(Levels(leaves)[Top(leaves)]) = 1
<1> DEFINE m == Len(leaves)
           p == Shifted(m)
           level == Levels(leaves)
           Q(k) == Len(level[k]) = 1 /\ \A j \in 0..(k - 1) : Len(level[j]) > 1
<1>1. m \in Nat \ {0} /\ \A k \in 0..m : p[k] \in Nat /\ p[k] > k
  BY ShiftedGrows
<1>2. ASSUME NEW k \in 0..m
      PROVE  /\ Len(level[k]) \in Nat \ {0}
             /\ Len(level[k]) = 1 <=> p[k] >= m
  <2>2. PICK q \in Nat \ {0} : q = p[k]
    BY <1>1
  <2>1. PICK l \in Nat \ {0} : l = Len(level[k]) /\ (l - 1) * q < m /\ m <= l * q
    BY <2>2, LevelLengths
  <2>3. CASE l = 1
    <3>1. m <= q
      BY <2>1, <2>2, <2>3
    <3> QED BY <1>1, <2>1, <2>2, <2>3, <3>1
  <2>4. CASE l # 1
    <3>1. PICK c \in Nat : l - 1 = c + 1
      <4>1. l - 2 \in Nat /\ l - 1 = (l - 2) + 1
        BY <2>4
      <4> QED BY <4>1
    <3>2. (c + 1) * q = c * q + q /\ c * q \in Nat
      OBVIOUS
    <3>3. c * q + q < m
      BY <2>1, <3>1, <3>2
    <3>4. q < m
      BY <1>1, <3>2, <3>3
    <3> QED BY <1>1, <2>1, <2>2, <2>4, <3>4
  <2> QED BY <2>3, <2>4
<1> HIDE DEF m, p, level
<1>3. ASSUME NEW k \in 0..m
      PROVE  Q(k) <=> IsDepth(m, k)
  <2>1. \A j \in 0..(k - 1) : j \in 0..m
    BY <1>1
  <2>2. ASSUME NEW j \in 0..m PROVE Len(level[j]) > 1 <=> p[j] < m
    <3>1. /\ Len(level[j]) \in Nat \ {0} /\ p[j] \in Nat /\ m \in Nat
          /\ Len(level[j]) = 1 <=> p[j] >= m
      BY <1>1, <1>2
    <3>2. \A a \in Nat \ {0}, b, c \in Nat : (a = 1 <=> b >= c) => (a > 1 <=> b < c)
      OBVIOUS
    <3> QED BY <3>1, <3>2
  <2> QED BY <1>2, <2>1, <2>2 DEF IsDepth, p
<1>4. IsDepth(m, depth_for(m)) /\ depth_for(m) \in 0..m
  BY <1>1, DepthIs DEF IsDepth
<1>5. Top(leaves) = CHOOSE k \in 0..m : Q(k)
  BY DEF Top, m, level
<1> HIDE DEF Q
<1>6. Top(leaves) \in 0..m /\ Q(Top(leaves))
  BY <1>3, <1>4, <1>5
<1>7. Top(leaves) = depth_for(m)
  BY <1>1, <1>3, <1>6, DepthIs
<1> QED BY <1>6, <1>7 DEF Q, m, level

(* Along the proof that build gives, the path meets the tree level by level.   *)
LEMMA BuiltVerifies ==
  ASSUME NEW leaves, Len(leaves) \in Nat \ {0}, NEW index \in 0..(Len(leaves) - 1)
  PROVE  verify(leaves[index + 1], index, Len(leaves), build_proof(leaves, index), build_root(leaves))
<1> DEFINE m == Len(leaves)
           top == Top(leaves)
           level == Levels(leaves)
           proof == build_proof(leaves, index)
           i == Ancestors(index, top)
           node == Path(leaves[index + 1], index, proof)
           S == {k \in 0..top : i[k] \in 0..(Len(level[k]) - 1) /\ node[k] = level[k][i[k] + 1]}
<1>1. m \in Nat \ {0} /\ top \in 0..m /\ top \in Nat /\ top = depth_for(m) /\ Len(level[top]) = 1
  BY TopIsDepth
<1>2. level[0] = leaves /\ \A k \in 0..(m - 1) : level[k + 1] = Above(level[k])
  BY <1>1, LevelsStep
<1>3. \A k \in 0..m : Len(level[k]) \in Nat \ {0}
  BY LevelLengths
<1>4. proof = [k \in 1..top |-> Sibling(level[k - 1], i[k - 1])]
  BY DEF build_proof
<1>5. index \in Nat /\ index < m
  OBVIOUS
<1> HIDE DEF m, top, level, proof
<1>6. Len(proof) = top
  <2>1. proof = [k \in 1..top |-> proof[k]]
    BY <1>4
  <2> QED BY <1>1, <2>1, LenOfFcn
<1>7. /\ i[0] = index
      /\ \A k \in 0..(top - 1) : i[k + 1] = i[k] \div 2
      /\ \A k \in 0..top : i[k] \in Nat
  BY <1>1, <1>5, AncestorsStep, AncestorsNat
<1>8. /\ node[0] = leaves[index + 1]
      /\ \A k \in 0..(top - 1) :
           node[k + 1] = IF i[k] % 2 = 0 THEN node_hash(node[k], proof[k + 1])
                         ELSE node_hash(proof[k + 1], node[k])
  BY <1>1, <1>6, PathStep
<1>9. build_root(leaves) = level[top][1]
  BY DEF build_root, level, top
<1>10. Climb(leaves[index + 1], index, proof) = node[top]
  BY <1>6 DEF Climb
<1> HIDE DEF i, node
<1>11. 0 \in S
  <2>1. i[0] = index /\ Len(level[0]) = m
    BY <1>2, <1>7 DEF m
  <2>2. node[0] = level[0][i[0] + 1]
    BY <1>2, <1>7, <1>8
  <2>3. i[0] \in 0..(Len(level[0]) - 1) /\ 0 \in 0..top
    BY <1>1, <1>5, <2>1
  <2> QED BY <2>2, <2>3
<1>12. ASSUME NEW k \in 0..(top - 1), k \in S PROVE k + 1 \in S
  <2>1. k \in 0..(m - 1) /\ k \in 0..m /\ k + 1 \in 0..top /\ k + 1 \in 1..top /\ k + 1 - 1 = k
    BY <1>1
  <2>2. PICK l \in Nat \ {0} : l = Len(level[k])
    BY <1>3, <2>1
  <2>3. PICK x \in Nat : x = i[k] /\ x < l /\ node[k] = level[k][x + 1]
    BY <1>12, <2>2
  <2>4. i[k + 1] = x \div 2
    BY <1>7, <2>3
  <2>5. PICK y \in Nat : y = x \div 2 /\ (x = 2 * y \/ x = 2 * y + 1)
    <3>1. x \div 2 \in Nat /\ (x = 2 * (x \div 2) \/ x = 2 * (x \div 2) + 1)
      OBVIOUS
    <3> QED BY <3>1
  <2>6. /\ Len(level[k + 1]) = (l + 1) \div 2
        /\ \A j \in 1..Len(level[k + 1]) :
             level[k + 1][j] =
               node_hash(level[k][(2 * j) - 1],
                         IF 2 * j <= l THEN level[k][2 * j] ELSE level[k][(2 * j) - 1])
    BY <1>2, <2>1, <2>2, AboveLen
  <2>7. y \in 0..(Len(level[k + 1]) - 1) /\ y + 1 \in 1..Len(level[k + 1])
    <3>1. PICK h \in Nat : h = (l + 1) \div 2 /\ l <= 2 * h
      <4>1. (l + 1) \div 2 \in Nat /\ l <= 2 * ((l + 1) \div 2)
        OBVIOUS
      <4> QED BY <4>1
    <3>2. 2 * y < l
      <4>1. x = 2 * y \/ x = 2 * y + 1
        BY <2>5
      <4> QED BY <2>3, <4>1
    <3>3. y < h
      BY <3>1, <3>2
    <3> QED BY <2>6, <3>1, <3>3
  <2>8. proof[k + 1] = Sibling(level[k], x)
    BY <1>4, <2>1, <2>3
  <2>9. level[k + 1][y + 1] =
          node_hash(level[k][2 * y + 1],
                    IF 2 * y + 2 <= l THEN level[k][2 * y + 2] ELSE level[k][2 * y + 1])
    <3>1. 2 * (y + 1) - 1 = 2 * y + 1 /\ 2 * (y + 1) = 2 * y + 2
      OBVIOUS
    <3> QED BY <2>6, <2>7, <3>1
  <2>10. node[k + 1] = level[k + 1][y + 1]
    <3>1. CASE x = 2 * y
      <4>1. x % 2 = 0 /\ x + 1 = 2 * y + 1 /\ x + 1 + 1 = 2 * y + 2 /\ (x + 1 < l <=> 2 * y + 2 <= l)
        BY <3>1
      <4>2. Sibling(level[k], x) = IF 2 * y + 2 <= l THEN level[k][2 * y + 2] ELSE level[k][2 * y + 1]
        BY <2>2, <4>1 DEF Sibling
      <4>3. node[k + 1] = node_hash(level[k][2 * y + 1], Sibling(level[k], x))
        BY <1>8, <2>3, <2>8, <4>1
      <4> QED BY <2>9, <4>2, <4>3
    <3>2. CASE x = 2 * y + 1
      <4>1. x % 2 # 0 /\ x - 1 + 1 = 2 * y + 1 /\ x + 1 = 2 * y + 2 /\ 2 * y + 2 <= l /\ x - 1 < l
        BY <2>3, <3>2
      <4>2. Sibling(level[k], x) = level[k][2 * y + 1]
        BY <2>2, <4>1 DEF Sibling
      <4>3. node[k + 1] = node_hash(Sibling(level[k], x), level[k][2 * y + 2])
        BY <1>8, <2>3, <2>8, <4>1
      <4> QED BY <2>9, <4>1, <4>2, <4>3
    <3> QED BY <2>5, <3>1, <3>2
  <2> QED BY <2>1, <2>4, <2>5, <2>7, <2>10
<1>13. top \in S
  <2> HIDE DEF S
  <2>1. \A k \in 0..(top - 1) : k \in S => k + 1 \in S
    BY <1>12
  <2>2. 0..top \subseteq S
    BY <1>1, <1>11, <2>1, CountUp
  <2> QED BY <1>1, <2>2
<1>14. i[top] = 0 /\ node[top] = level[top][0 + 1]
  <2>1. i[top] \in 0..(1 - 1) /\ node[top] = level[top][i[top] + 1]
    BY <1>1, <1>13
  <2>2. i[top] = 0
    BY <2>1
  <2> QED BY <2>1, <2>2
<1>15. Climb(leaves[index + 1], index, proof) = build_root(leaves)
  BY <1>9, <1>10, <1>14
<1> QED BY <1>1, <1>5, <1>6, <1>15 DEF verify, m, proof

-----------------------------------------------------------------------------
(* The theorems about first mints.                                          *)

mint == <<vars, root, committed, accepted>>

(* A mint draws its index with uniform_below and lets nobody else touch it, so that
   what is proved about the draw holds of first mints.                      *)
THEOREM MintDraws == MintSpec => Spec
<1>1. MintInit => Init
  BY DEF MintInit
<1>2. [MintNext]_mint => [Next]_vars
  BY DEF MintNext, Draw, Submit, mint
<1> QED BY <1>1, <1>2, PTL DEF MintSpec, Spec, mint

(* What build made a root of, and that every leaf accepted had a proof.      *)
Commitment ==
  committed # <<>> =>
    committed \in [1..n -> Payloads] /\ root = build_root(LeavesOf(committed))
Proved == \A payload \in accepted : \E proof : check_leaf(root, n, result, payload, proof)

MintInv ==
  /\ n \in Sizes /\ result \in -1..(n - 1)
  /\ Commitment
  /\ result = -1 => accepted = {}
  /\ Proved

LEMMA MintInductive == MintSpec => []MintInv
<1>1. MintInit => MintInv
  <2> SUFFICES ASSUME MintInit PROVE MintInv
    OBVIOUS
  <2>1. n \in Sizes /\ result = -1 /\ accepted = {} /\ n \in Nat \ {0}
    BY DepthAssumption DEF MintInit, Init
  <2>2. Commitment
    BY DEF MintInit, Commit, Commitment
  <2> QED BY <2>1, <2>2 DEF MintInv, Proved
<1>2. SizeOK /\ SizeOK' /\ MintInv /\ [MintNext]_mint => MintInv'
  <2> SUFFICES ASSUME SizeOK, SizeOK', MintInv, [MintNext]_mint PROVE MintInv'
    OBVIOUS
  <2>1. CASE Draw
    <3>1. UNCHANGED <<root, committed, accepted>> /\ n' = n
      BY <2>1 DEF Draw, Next, Accept, Reject, Resample
    <3>2. n' \in Sizes /\ result' \in -1..(n' - 1)
      BY <3>1 DEF MintInv, SizeOK
    <3>3. Commitment'
      BY <3>1 DEF MintInv, Commitment
    <3>4. CASE result = -1
      <4>1. accepted' = {}
        BY <3>1, <3>4 DEF MintInv
      <4> QED BY <3>2, <3>3, <4>1 DEF MintInv, Proved
    <3>5. CASE result # -1
      <4>1. result' = result
        BY <2>1, <3>5 DEF Draw, Next, Accept, Reject, Resample
      <4> QED BY <3>1, <3>2, <3>3, <3>5, <4>1 DEF MintInv, Proved
    <3> QED BY <3>4, <3>5
  <2>2. ASSUME NEW payload \in Payloads, NEW proof \in Proofs, Submit(payload, proof)
        PROVE  MintInv'
    <3>1. /\ UNCHANGED <<vars, root, committed>> /\ result # -1
          /\ accepted' = accepted \cup {payload}
          /\ check_leaf(root, n, result, payload, proof)
      BY <2>2 DEF Submit
    <3>2. n' = n /\ result' = result
      BY <3>1 DEF vars
    <3>3. Proved'
      BY <3>1, <3>2 DEF MintInv, Proved
    <3>4. Commitment'
      BY <3>1, <3>2 DEF MintInv, Commitment
    <3> QED BY <3>1, <3>2, <3>3, <3>4 DEF MintInv
  <2>3. CASE UNCHANGED mint
    BY <2>3 DEF mint, vars, MintInv, Commitment, Proved
  <2> QED BY <2>1, <2>2, <2>3 DEF MintNext
<1> QED BY <1>1, <1>2, MintDraws, SizeInductive, PTL DEF MintSpec, mint

(* Two leaves with proofs for one index under one root are the same leaf.      *)
LEMMA SameLeaf ==
  ASSUME NEW r, NEW m \in Nat, NEW index \in Nat, NEW payloadA, NEW payloadB,
         NEW proofA, NEW proofB,
         verify(leaf_hash(index, payloadA), index, m, proofA, r),
         verify(leaf_hash(index, payloadB), index, m, proofB, r)
  PROVE  payloadA = payloadB
<1>1. /\ Len(proofA) = depth_for(m) /\ Len(proofB) = depth_for(m)
      /\ Climb(leaf_hash(index, payloadA), index, proofA) = r
      /\ Climb(leaf_hash(index, payloadB), index, proofB) = r
  BY DEF verify
<1>2. depth_for(m) \in Nat
  BY DepthIs DEF IsDepth
<1>3. leaf_hash(index, payloadA) = leaf_hash(index, payloadB)
  BY <1>1, <1>2, ClimbInjective
<1> QED BY <1>3 DEF leaf_hash

(* Whatever root was committed, honest or not, at most one leaf is ever accepted for
   the index that was drawn: in a collection of any size, the URI of an NFT was
   decided when its vault was made.                                         *)
THEOREM TraitsAreFixed == MintSpec => []OneLeafPerIndex
<1>1. ASSUME MintInv
      PROVE  OneLeafPerIndex
  <2>1. n \in Nat /\ result \in Int
    BY <1>1, DepthAssumption DEF MintInv
  <2>2. ASSUME NEW p \in accepted, NEW q \in accepted
        PROVE  p = q
    <3>1. PICK proofA, proofB : /\ check_leaf(root, n, result, p, proofA)
                                /\ check_leaf(root, n, result, q, proofB)
      BY <1>1 DEF MintInv, Proved
    <3>2. result \in Nat
      BY <1>1, <2>1 DEF MintInv
    <3> QED BY <2>1, <3>1, <3>2, SameLeaf DEF check_leaf
  <2>3. CASE accepted = {}
    BY <2>3, FS_EmptySet DEF OneLeafPerIndex
  <2>4. CASE accepted # {}
    <3>1. PICK p : accepted = {p}
      BY <2>2, <2>4
    <3>2. Cardinality({p}) = 1
      BY FS_Singleton
    <3> QED BY <3>1, <3>2 DEF OneLeafPerIndex
  <2> QED BY <2>3, <2>4
<1> QED BY <1>1, MintInductive, PTL

(* If build made the root, the leaf committed for the drawn index has a proof that
   check_leaf accepts, in a collection of any size that a vault can have, exactly
   when its URI is short and content-addressed: such a first mint is never
   impossible, any other always is; and no other leaf is accepted.           *)
THEOREM CommittedMints == MintSpec => []CommittedAccepted
<1>1. ASSUME MintInv, committed # <<>>, result # -1
      PROVE  /\ check_leaf(root, n, result, committed[result + 1],
                           build_proof(LeavesOf(committed), result))
                   <=> committed[result + 1] \in ShortUris \cap AddressedUris
             /\ committed[result + 1] \notin ShortUris \cap AddressedUris => accepted = {}
             /\ accepted \subseteq {committed[result + 1]}
  <2>1. /\ n \in Nat \ {0} /\ result \in 0..(n - 1) /\ result \in Nat /\ result < n
        /\ depth_for(n) <= MAX_MERKLE_DEPTH
    <3>1. n \in Nat \ {0} /\ depth_for(n) <= MAX_MERKLE_DEPTH
      BY <1>1, DepthAssumption DEF MintInv
    <3> QED BY <1>1, <3>1 DEF MintInv
  <2>2. committed \in [1..n -> Payloads] /\ root = build_root(LeavesOf(committed))
    BY <1>1 DEF MintInv, Commitment
  <2> DEFINE leaves == LeavesOf(committed)
  <2>3. Len(committed) = n
    <3>1. committed = [i \in 1..n |-> committed[i]]
      BY <2>2
    <3> QED BY <2>1, <3>1, LenOfFcn
  <2>4. leaves = [i \in 1..n |-> leaf_hash(i - 1, committed[i])]
    BY <2>3 DEF LeavesOf
  <2> HIDE DEF leaves
  <2>5. Len(leaves) = n
    <3>1. leaves = [i \in 1..n |-> leaves[i]]
      BY <2>4
    <3> QED BY <2>1, <3>1, LenOfFcn
  <2>6. leaves[result + 1] = leaf_hash(result, committed[result + 1])
    <3>1. result + 1 \in 1..n /\ (result + 1) - 1 = result
      BY <2>1
    <3>2. leaves[result + 1] = leaf_hash((result + 1) - 1, committed[result + 1])
      BY <2>4, <3>1
    <3> QED BY <3>1, <3>2
  <2>7. verify(leaves[result + 1], result, n, build_proof(leaves, result), root)
    <3>1. root = build_root(leaves)
      BY <2>2 DEF leaves
    <3> QED BY <2>1, <2>5, <3>1, BuiltVerifies
  <2>8. Len(build_proof(leaves, result)) <= MAX_MERKLE_DEPTH
    BY <2>1, <2>7 DEF verify
  <2>9. check_leaf(root, n, result, committed[result + 1], build_proof(leaves, result))
          <=> committed[result + 1] \in ShortUris \cap AddressedUris
    BY <2>1, <2>6, <2>7, <2>8 DEF check_leaf
  <2>10. ASSUME NEW p \in accepted
         PROVE  p = committed[result + 1] /\ p \in ShortUris \cap AddressedUris
    <3>1. PICK proof : check_leaf(root, n, result, p, proof)
      BY <1>1 DEF MintInv, Proved
    <3>2. verify(leaf_hash(result, p), result, n, proof, root)
      BY <3>1 DEF check_leaf
    <3>3. verify(leaf_hash(result, committed[result + 1]), result, n,
                 build_proof(leaves, result), root)
      BY <2>6, <2>7
    <3> QED BY <2>1, <3>1, <3>2, <3>3, SameLeaf DEF check_leaf
  <2> QED BY <2>9, <2>10 DEF leaves
<1>2. MintInv => CommittedAccepted
  BY <1>1 DEF CommittedAccepted
<1> QED BY <1>2, MintInductive, PTL
==============================================================================
