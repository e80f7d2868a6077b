----------------------------- MODULE PunyencProof -----------------------------
(***************************************************************************)
(* Proofs about Punyenc: for every input, no u64 of encode underflows, every *)
(* delta is below its bound, and what is returned decodes to the input.      *)
(*                                                                           *)
(* What a recursive function computes is proved by least counterexample. The *)
(* function exists: the part below its least missing argument extends to it. *)
(* So it satisfies its equation, which At gives for one argument; and of the *)
(* arguments at which a claim fails, there would be a least one.             *)
(***************************************************************************)
EXTENDS Punyenc, FiniteSetTheorems, SequenceTheorems, WellFoundedInduction, TLAPS

USE DEF INITIAL_N

---------------------------------------------------------------------------
(* Positions, values and prefix counts *)

\* Positions and code points are numbers.
LEMMA Numbers ==
  ASSUME NumberInv
  PROVE  /\ MaxCodePoint \in Nat /\ Len(input) \in Nat
         /\ Position = 1..Len(input)
         /\ \A p \in Position : p \in Nat /\ input[p] \in Nat /\ input[p] <= MaxCodePoint
<1>1. MaxCodePoint \in Nat
  BY SMT DEF MaxCodePoint
<1>2. input \in Seq(0..MaxCodePoint)
  BY DEF NumberInv
<1>3. Len(input) \in Nat /\ Position = 1..Len(input)
  BY <1>2 DEF Position
<1>4. \A p \in Position : input[p] \in 0..MaxCodePoint
  <2> DEFINE CodePoint == 0..MaxCodePoint
  <2> HIDE DEF CodePoint
  <2>1. input \in Seq(CodePoint)
    BY <1>2 DEF CodePoint
  <2>2. \A p \in 1..Len(input) : input[p] \in CodePoint
    BY <2>1
  <2> QED
    BY <1>3, <2>2 DEF CodePoint
<1> QED
  BY <1>1, <1>3, <1>4

\* The variables of encode are numbers.
LEMMA Counters ==
  ASSUME NumberInv
  PROVE  /\ n \in Nat /\ delta \in Nat /\ handled \in Nat
         /\ placedBelowM \in Nat /\ prevC \in Nat
  BY DEF NumberInv

\* Every set of numbers that is not empty has a least one.
LEMMA LeastNumber ==
  ASSUME NEW V \in SUBSET Nat, V # {}
  PROVE  \E v \in V : \A w \in V : v <= w
<1> DEFINE R == OpToRel(<, Nat)
<1>1. IsWellFoundedOn(R, Nat)
  BY NatLessThanWellFounded
<1>2. \A x, y \in Nat : x < y => <<x, y>> \in R
  BY DEF OpToRel
<1> HIDE DEF R
<1>3. PICK v \in V : \A w \in V : <<w, v>> \notin R
  BY <1>1, WFMin
<1>4. \A w \in V : v <= w
  <2> SUFFICES ASSUME NEW w \in V PROVE ~(w < v)
    OBVIOUS
  <2> QED
    BY <1>2, <1>3
<1> QED
  BY <1>4

\* What is left has a next pair.
LEMMA FirstExists ==
  ASSUME NumberInv, LeftInv, left # {}
  PROVE  \E s \in left : First(s)
<1>1. \A s \in left : s[1] \in Nat /\ s[2] \in Nat
  BY Numbers DEF LeftInv
<1> DEFINE V == {s[1] : s \in left}
<1>2. V \in SUBSET Nat /\ V # {}
  BY <1>1
<1>3. PICK v \in V : \A w \in V : v <= w
  BY <1>2, LeastNumber
<1> DEFINE P == {s[2] : s \in {r \in left : r[1] = v}}
<1>4. P \in SUBSET Nat /\ P # {}
  BY <1>1
<1>5. PICK p \in P : \A q \in P : p <= q
  BY <1>4, LeastNumber
<1>6. PICK s \in left : s[1] = v /\ s[2] = p
  OBVIOUS
<1>7. ASSUME NEW r \in left PROVE s[1] < r[1] \/ (s[1] = r[1] /\ s[2] <= r[2])
  <2>1. s[1] <= r[1]
    BY <1>3, <1>6
  <2>2. r[1] = v => s[2] <= r[2]
    BY <1>5, <1>6
  <2> QED
    BY <1>1, <1>6, <2>1, <2>2
<1> QED
  BY <1>7 DEF First

\* The positions of a string and every set of them are finite.
LEMMA Finite ==
  ASSUME NumberInv, NEW P \in SUBSET Position
  PROVE  /\ IsFiniteSet(P) /\ Cardinality(P) \in Nat
         /\ Cardinality(P) <= Len(input)
<1>1. IsFiniteSet(1..Len(input)) /\ Cardinality(1..Len(input)) = Len(input)
  <2> DEFINE len == Len(input)
  <2>1. len \in Nat
    BY Numbers
  <2> HIDE DEF len
  <2>2. /\ IsFiniteSet(1..len)
        /\ Cardinality(1..len) = IF 1 > len THEN 0 ELSE len - 1 + 1
    BY <2>1, FS_Interval
  <2> QED
    BY <2>1, <2>2 DEF len
<1>2. IsFiniteSet(Position) /\ Cardinality(Position) = Len(input)
  BY <1>1, Numbers
<1>3. IsFiniteSet(P) /\ Cardinality(P) <= Len(input)
  BY <1>2, FS_Subset
<1> QED
  BY <1>3, FS_CardinalityType

\* A prefix count grows with its position, up to the number of placed positions.
LEMMA PrefixCount ==
  ASSUME NumberInv, placed \subseteq Position, NEW p \in Position, NEW q \in Position,
         p <= q
  PROVE  /\ PrefixSum(p) \in Nat
         /\ PrefixSum(p) <= PrefixSum(q)
         /\ PrefixSum(p) <= Cardinality(placed)
<1> DEFINE Before(x) == {y \in placed : y < x}
<1>1. placed \subseteq Nat /\ p \in Nat /\ q \in Nat
  BY Numbers
<1>2. Before(p) \subseteq Before(q)
  <2> SUFFICES ASSUME NEW y \in placed, y < p PROVE y < q
    OBVIOUS
  <2>1. y \in Nat
    BY <1>1
  <2> QED
    BY <1>1, <2>1
<1>3. IsFiniteSet(Before(p)) /\ IsFiniteSet(Before(q)) /\ IsFiniteSet(placed)
  <2>1. Before(p) \in SUBSET Position /\ Before(q) \in SUBSET Position
    OBVIOUS
  <2> QED
    BY <2>1, Finite
<1>4. Cardinality(Before(p)) <= Cardinality(Before(q))
  BY <1>2, <1>3, FS_Subset
<1>5. Cardinality(Before(p)) <= Cardinality(placed)
  BY <1>3, FS_Subset
<1>6. Cardinality(Before(p)) \in Nat
  BY <1>3, FS_CardinalityType
<1> QED
  BY <1>4, <1>5, <1>6 DEF PrefixSum

---------------------------------------------------------------------------
(* The text at a set of positions *)

\* The rank of a position counts those below it and, if it is in the set, itself.
LEMMA RankStep ==
  ASSUME NumberInv, NEW P \in SUBSET Position, NEW p \in Position
  PROVE  /\ Cardinality({q \in P : q < p}) \in Nat
         /\ Rank(P, p) = Cardinality({q \in P : q < p}) + (IF p \in P THEN 1 ELSE 0)
         /\ Rank(P, p) <= Cardinality(P)
<1> DEFINE Below == {q \in P : q < p}
           UpTo  == {q \in P : q <= p}
<1>1. P \subseteq Nat /\ p \in Nat
  BY Numbers
<1>2. UpTo = IF p \in P THEN Below \cup {p} ELSE Below
  <2>1. \A q \in P : q <= p <=> q < p \/ q = p
    BY <1>1
  <2> QED
    BY <2>1
<1>3. p \notin Below
  BY <1>1
<1>4. Below \in SUBSET Position /\ UpTo \in SUBSET P /\ IsFiniteSet(P)
  BY Finite
<1>5. IsFiniteSet(Below) /\ Cardinality(Below) \in Nat
  BY <1>4, Finite
<1> HIDE DEF Below, UpTo
<1>6. Cardinality(UpTo) = Cardinality(Below) + (IF p \in P THEN 1 ELSE 0)
  <2>1. Cardinality(Below \cup {p}) = Cardinality(Below) + 1
    BY <1>3, <1>5, FS_AddElement
  <2> QED
    BY <1>2, <1>5, <2>1
<1>7. Cardinality(UpTo) <= Cardinality(P)
  BY <1>4, FS_Subset
<1> QED
  BY <1>5, <1>6, <1>7 DEF Rank, Below, UpTo

\* The ranks of the positions of a set are the numbers from 1 to its size, in the
\* order of the positions.
LEMMA RankOrder ==
  ASSUME NumberInv, NEW P \in SUBSET Position, NEW p \in P, NEW q \in Position, p < q
  PROVE  /\ Rank(P, p) <= Cardinality({r \in P : r < q})
         /\ Rank(P, p) < Rank(P, q) \/ q \notin P
<1> DEFINE UpTo == {r \in P : r <= p}
           Below == {r \in P : r < q}
<1>1. P \subseteq Nat /\ q \in Nat /\ p \in Position
  BY Numbers
<1>2. UpTo \in SUBSET Below
  <2>1. \A r \in P : r <= p => r < q
    BY <1>1
  <2> QED
    BY <2>1
<1>3. Below \in SUBSET Position
  OBVIOUS
<1> HIDE DEF UpTo, Below
<1>4. Cardinality(UpTo) <= Cardinality(Below)
  BY <1>2, <1>3, Finite, FS_Subset
<1>5. Rank(P, p) <= Cardinality({r \in P : r < q})
  BY <1>4 DEF Rank, UpTo, Below
<1>6. /\ Cardinality({r \in P : r < q}) \in Nat
      /\ Rank(P, q) = Cardinality({r \in P : r < q}) + (IF q \in P THEN 1 ELSE 0)
      /\ Rank(P, p) \in Nat
  <2>1. /\ Cardinality({r \in P : r < q}) \in Nat
        /\ Rank(P, q) = Cardinality({r \in P : r < q}) + (IF q \in P THEN 1 ELSE 0)
    BY RankStep
  <2>2. Cardinality({r \in P : r < p}) \in Nat
        /\ Rank(P, p) = Cardinality({r \in P : r < p}) + (IF p \in P THEN 1 ELSE 0)
    BY <1>1, RankStep
  <2> QED
    BY <2>1, <2>2
<1> QED
  BY <1>5, <1>6

LEMMA RankBijection ==
  ASSUME NumberInv, NEW P \in SUBSET Position
  PROVE  /\ Cardinality(P) \in Nat
         /\ \A p \in P : Rank(P, p) \in 1..Cardinality(P)
         /\ \A p, q \in P : Rank(P, p) = Rank(P, q) => p = q
         /\ \A k \in 1..Cardinality(P) : \E p \in P : Rank(P, p) = k
<1>1. IsFiniteSet(P) /\ Cardinality(P) \in Nat
  BY Finite
<1>2. ASSUME NEW p \in P PROVE Rank(P, p) \in 1..Cardinality(P)
  <2>1. p \in Position
    OBVIOUS
  <2>2. /\ Cardinality({q \in P : q < p}) \in Nat
        /\ Rank(P, p) = Cardinality({q \in P : q < p}) + (IF p \in P THEN 1 ELSE 0)
        /\ Rank(P, p) <= Cardinality(P)
    BY <2>1, RankStep
  <2> QED
    BY <1>1, <2>2
<1>3. ASSUME NEW p \in P, NEW q \in P, Rank(P, p) = Rank(P, q) PROVE p = q
  <2>1. p \in Nat /\ q \in Nat /\ p \in Position /\ q \in Position
    BY Numbers
  <2>2. Rank(P, p) \in Nat /\ Rank(P, q) \in Nat
    BY <1>1, <1>2
  <2>3. ~(p < q)
    <3> SUFFICES ASSUME p < q PROVE FALSE
      OBVIOUS
    <3>1. Rank(P, p) < Rank(P, q)
      BY <2>1, RankOrder
    <3> QED
      BY <1>3, <2>2, <3>1
  <2>4. ~(q < p)
    <3> SUFFICES ASSUME q < p PROVE FALSE
      OBVIOUS
    <3>1. Rank(P, q) < Rank(P, p)
      BY <2>1, RankOrder
    <3> QED
      BY <1>3, <2>2, <3>1
  <2> QED
    BY <2>1, <2>3, <2>4
<1>4. \A k \in 1..Cardinality(P) : \E p \in P : Rank(P, p) = k
  <2> DEFINE N == Cardinality(P)
             ranks == [p \in P |-> Rank(P, p)]
  <2>1. N \in Nat
    BY <1>1
  <2>2. ranks \in Injection(P, 1..N)
    BY <1>2, <1>3 DEF Injection, IsInjective
  <2>3. IsFiniteSet(1..N) /\ Cardinality(1..N) = N
    <3> HIDE DEF N
    <3>1. IsFiniteSet(1..N) /\ Cardinality(1..N) = IF 1 > N THEN 0 ELSE N - 1 + 1
      BY <2>1, FS_Interval
    <3> QED
      BY <2>1, <3>1
  <2> HIDE DEF ranks
  <2>4. ranks \in Surjection(P, 1..N)
    BY <2>2, <2>3, FS_Injection
  <2> QED
    BY <2>4 DEF Surjection, ranks
<1> QED
  BY <1>1, <1>2, <1>3, <1>4

\* The code point of a position stands at its rank.
LEMMA Spelling ==
  ASSUME NumberInv, NEW P \in SUBSET Position
  PROVE  /\ Restricted(P) \in Seq(Nat) /\ Len(Restricted(P)) = Cardinality(P)
         /\ \A p \in P : Restricted(P)[Rank(P, p)] = input[p]
<1>1. /\ Cardinality(P) \in Nat
      /\ \A p \in P : Rank(P, p) \in 1..Cardinality(P)
      /\ \A p, q \in P : Rank(P, p) = Rank(P, q) => p = q
      /\ \A k \in 1..Cardinality(P) : \E p \in P : Rank(P, p) = k
  BY RankBijection
<1> DEFINE N == Cardinality(P)
           at(k) == CHOOSE p \in P : Rank(P, p) = k
<1>2. Restricted(P) = [k \in 1..N |-> input[at(k)]]
  BY DEF Restricted
<1>3. \A k \in 1..N : at(k) \in P /\ Rank(P, at(k)) = k
  BY <1>1
<1>4. \A p \in P : at(Rank(P, p)) = p
  BY <1>1, <1>3
<1> HIDE DEF at
<1>5. \A k \in 1..N : input[at(k)] \in Nat
  BY <1>3, Numbers
<1>6. Restricted(P) \in Seq(Nat) /\ Len(Restricted(P)) = N
  <2>1. N \in Nat
    BY <1>1
  <2> HIDE DEF N
  <2> QED
    BY <1>2, <1>5, <2>1
<1>7. \A p \in P : Restricted(P)[Rank(P, p)] = input[p]
  BY <1>1, <1>2, <1>4
<1> QED
  BY <1>6, <1>7

\* All positions spell the input.
LEMMA WholeInput ==
  ASSUME NumberInv
  PROVE  Restricted(Position) = input
<1> DEFINE len == Len(input)
<1>1. len \in Nat /\ Position = 1..len
  BY Numbers
<1>2. input \in Seq(0..MaxCodePoint)
  BY DEF NumberInv
<1>3. Cardinality(Position) = len
  <2> HIDE DEF len
  <2>1. Cardinality(1..len) = IF 1 > len THEN 0 ELSE len - 1 + 1
    BY <1>1, FS_Interval
  <2> QED
    BY <1>1, <2>1
<1>4. \A p \in Position : Rank(Position, p) = p
  <2> SUFFICES ASSUME NEW p \in Position PROVE Rank(Position, p) = p
    OBVIOUS
  <2> HIDE DEF len
  <2> DEFINE UpTo == {q \in Position : q <= p}
  <2>1. p \in Nat /\ UpTo = 1..p /\ 1 <= p
    BY <1>1
  <2> HIDE DEF UpTo
  <2>2. Cardinality(1..p) = IF 1 > p THEN 0 ELSE p - 1 + 1
    BY <2>1, FS_Interval
  <2>3. Cardinality(1..p) = p
    BY <2>1, <2>2
  <2>4. Rank(Position, p) = Cardinality(UpTo)
    BY DEF Rank, UpTo
  <2> QED
    BY <2>1, <2>3, <2>4
<1>5. \A p \in 1..len : Restricted(Position)[p] = input[p]
  BY <1>1, <1>4, Spelling
<1>6. Restricted(Position) = [p \in 1..len |-> Restricted(Position)[p]]
  BY <1>3 DEF Restricted
<1>7. input = [p \in 1..len |-> input[p]]
  BY <1>2
<1> QED
  BY <1>5, <1>6, <1>7

\* A sequence with one more element, c, at place j + 1.
Widened(t, j, c) == SubSeq(t, 1, j) \o <<c>> \o SubSeq(t, j + 1, Len(t))

IsWidened(w, t, j, c) ==
  /\ w \in Seq(Nat) /\ Len(w) = Len(t) + 1
  /\ \A k \in 1..(Len(t) + 1) :
       w[k] = IF k <= j THEN t[k] ELSE IF k = j + 1 THEN c ELSE t[k - 1]

LEMMA WidenedElements ==
  ASSUME NEW t \in Seq(Nat), NEW j \in 0..Len(t), NEW c \in Nat
  PROVE  IsWidened(Widened(t, j, c), t, j, c)
<1> DEFINE a == SubSeq(t, 1, j)
           b == SubSeq(t, j + 1, Len(t))
           d == a \o <<c>>
<1>1. /\ j \in Nat /\ Len(t) \in Nat /\ j <= Len(t)
      /\ \A k \in 1..Len(t) : t[k] \in Nat
  OBVIOUS
<1>2. /\ a \in Seq(Nat) /\ Len(a) = j
      /\ \A k \in 1..j : a[k] = t[k]
  <2>1. /\ a \in Seq(Nat) /\ Len(a) = IF 1 <= j THEN j - 1 + 1 ELSE 0
        /\ \A k \in 1..(j - 1 + 1) : a[k] = t[1 + k - 1]
    BY <1>1, SubSeqProperties
  <2> HIDE DEF a
  <2> QED
    BY <1>1, <2>1
<1>3. /\ b \in Seq(Nat) /\ Len(b) = Len(t) - j
      /\ \A k \in 1..(Len(t) - j) : b[k] = t[j + k]
  <2>1. /\ b \in Seq(Nat)
        /\ Len(b) = IF j + 1 <= Len(t) THEN Len(t) - (j + 1) + 1 ELSE 0
        /\ \A k \in 1..(Len(t) - (j + 1) + 1) : b[k] = t[(j + 1) + k - 1]
    BY <1>1, SubSeqProperties
  <2> HIDE DEF b
  <2>2. \A k \in 1..(Len(t) - j) : k \in 1..(Len(t) - (j + 1) + 1) /\ (j + 1) + k - 1 = j + k
    BY <1>1
  <2>3. Len(b) = Len(t) - j
    BY <1>1, <2>1
  <2> QED
    BY <2>1, <2>2, <2>3
<1> HIDE DEF a, b
<1>4. /\ d \in Seq(Nat) /\ Len(d) = j + 1
      /\ \A k \in 1..(j + 1) : d[k] = IF k <= j THEN t[k] ELSE c
  <2> DEFINE o == <<c>>
  <2>1. o \in Seq(Nat) /\ Len(o) = 1 /\ o[1] = c
    OBVIOUS
  <2> HIDE DEF o
  <2>2. /\ a \o o \in Seq(Nat) /\ Len(a \o o) = Len(a) + Len(o)
        /\ \A k \in 1..(Len(a) + Len(o)) :
             (a \o o)[k] = IF k <= Len(a) THEN a[k] ELSE o[k - Len(a)]
    BY <1>2, <2>1, ConcatProperties
  <2>3. d = a \o o
    BY DEF o
  <2> HIDE DEF d
  <2>4. ASSUME NEW k \in 1..(j + 1) PROVE d[k] = IF k <= j THEN t[k] ELSE c
    <3>1. CASE k <= j
      BY <1>1, <1>2, <2>1, <2>2, <2>3, <3>1
    <3>2. CASE k = j + 1
      <4>1. k - Len(a) = 1 /\ ~(k <= Len(a)) /\ k \in 1..(Len(a) + Len(o))
        BY <1>1, <1>2, <2>1, <3>2
      <4>2. (a \o o)[k] = o[1]
        BY <2>2, <4>1
      <4> QED
        BY <1>1, <2>1, <2>3, <3>2, <4>2
    <3> QED
      BY <1>1, <3>1, <3>2
  <2> QED
    BY <1>2, <2>1, <2>2, <2>3, <2>4
<1> HIDE DEF d
<1> DEFINE w == Widened(t, j, c)
<1>5. w = d \o b
  BY DEF Widened, a, b, d
<1> HIDE DEF w
<1>6. /\ w \in Seq(Nat) /\ Len(w) = Len(d) + Len(b)
      /\ \A k \in 1..(Len(d) + Len(b)) :
           w[k] = IF k <= Len(d) THEN d[k] ELSE b[k - Len(d)]
  BY <1>3, <1>4, <1>5, ConcatProperties
<1>7. Len(w) = Len(t) + 1
  BY <1>1, <1>3, <1>4, <1>6
<1>8. ASSUME NEW k \in 1..(Len(t) + 1)
      PROVE  w[k] = IF k <= j THEN t[k] ELSE IF k = j + 1 THEN c ELSE t[k - 1]
  <2>1. w[k] = IF k <= Len(d) THEN d[k] ELSE b[k - Len(d)]
    BY <1>6, <1>7
  <2>2. CASE k <= j + 1
    <3>1. w[k] = d[k] /\ k \in 1..(j + 1)
      BY <1>1, <1>4, <2>1, <2>2
    <3>2. d[k] = IF k <= j THEN t[k] ELSE c
      BY <1>4, <3>1
    <3> QED
      BY <1>1, <2>2, <3>1, <3>2
  <2>3. CASE j + 1 < k
    <3>1. w[k] = b[k - (j + 1)]
      BY <1>1, <1>4, <2>1, <2>3
    <3>2. k - (j + 1) \in 1..(Len(t) - j) /\ j + (k - (j + 1)) = k - 1
      BY <1>1, <2>3
    <3>3. b[k - (j + 1)] = t[k - 1]
      BY <1>3, <3>2
    <3> QED
      BY <1>1, <2>3, <3>1, <3>3
  <2> QED
    BY <1>1, <2>2, <2>3
<1> QED
  BY <1>6, <1>7, <1>8 DEF IsWidened, w

\* One more position puts its code point behind those of the positions below it.
LEMMA OneMore ==
  ASSUME NumberInv, NEW P \in SUBSET Position, NEW x \in Position \ P
  PROVE  /\ Cardinality({q \in P : q < x}) \in 0..Len(Restricted(P))
         /\ Restricted(P \cup {x})
              = Widened(Restricted(P), Cardinality({q \in P : q < x}), input[x])
<1> DEFINE Q == P \cup {x}
           j == Cardinality({q \in P : q < x})
           t == Restricted(P)
           u == Restricted(Q)
           w == Widened(t, j, input[x])
<1>1. P \subseteq Nat /\ x \in Nat /\ input[x] \in Nat /\ Q \in SUBSET Position
  BY Numbers
<1>2. j \in Nat /\ Rank(P, x) = j /\ j <= Cardinality(P) /\ Cardinality(P) \in Nat
  BY RankStep, Finite
<1>3. t \in Seq(Nat) /\ Len(t) = Cardinality(P) /\ \A p \in P : t[Rank(P, p)] = input[p]
  BY Spelling
<1>4. Cardinality(Q) = Cardinality(P) + 1
  BY Finite, FS_AddElement
<1>5. u \in Seq(Nat) /\ Len(u) = Cardinality(Q) /\ \A p \in Q : u[Rank(Q, p)] = input[p]
  BY <1>1, Spelling
<1>6. ASSUME NEW p \in Position
      PROVE  Rank(Q, p) = Rank(P, p) + (IF x <= p THEN 1 ELSE 0) /\ Rank(P, p) \in Nat
  <2> DEFINE UpTo  == {q \in P : q <= p}
             UpToQ == {q \in Q : q <= p}
  <2>1. UpToQ = IF x <= p THEN UpTo \cup {x} ELSE UpTo
    OBVIOUS
  <2>2. UpTo \in SUBSET Position /\ x \notin UpTo
    OBVIOUS
  <2> HIDE DEF UpTo, UpToQ
  <2>3. IsFiniteSet(UpTo) /\ Cardinality(UpTo) \in Nat
    BY <2>2, Finite
  <2>4. Cardinality(UpTo \cup {x}) = Cardinality(UpTo) + 1
    BY <2>2, <2>3, FS_AddElement
  <2>5. Cardinality(UpToQ) = Cardinality(UpTo) + (IF x <= p THEN 1 ELSE 0)
    BY <2>1, <2>3, <2>4
  <2>6. Rank(P, p) = Cardinality(UpTo) /\ Rank(Q, p) = Cardinality(UpToQ)
    BY DEF Rank, UpTo, UpToQ
  <2> QED
    BY <2>3, <2>5, <2>6
<1>7. /\ w \in Seq(Nat) /\ Len(w) = Len(t) + 1
      /\ \A k \in 1..(Len(t) + 1) :
           w[k] = IF k <= j THEN t[k] ELSE IF k = j + 1 THEN input[x] ELSE t[k - 1]
  <2> DEFINE c == input[x]
  <2>1. j \in 0..Len(t) /\ t \in Seq(Nat) /\ c \in Nat
    BY <1>1, <1>2, <1>3
  <2> HIDE DEF j, t, c
  <2>2. IsWidened(Widened(t, j, c), t, j, c)
    BY <2>1, WidenedElements
  <2> QED
    BY <2>2 DEF IsWidened, c
<1>8. ASSUME NEW p \in Q PROVE w[Rank(Q, p)] = input[p]
  <2>1. CASE p = x
    <3>1. Rank(Q, p) = j + 1
      BY <1>1, <1>2, <1>6, <2>1
    <3> HIDE DEF w, j, t
    <3> QED
      BY <1>2, <1>3, <1>7, <2>1, <3>1
  <2>2. CASE p \in P /\ p < x
    <3>1. Rank(P, p) <= j
      BY <2>2, RankOrder
    <3>2. Rank(Q, p) = Rank(P, p)
      BY <1>1, <1>6, <2>2
    <3>3. Rank(P, p) \in 1..Cardinality(P)
      BY <2>2, RankBijection
    <3> HIDE DEF w, j, t
    <3> QED
      BY <1>2, <1>3, <1>7, <2>2, <3>1, <3>2, <3>3
  <2>3. CASE p \in P /\ x < p
    <3>1. p \in Position /\ p \in Nat
      BY <1>1, <2>3
    <3>2. Rank(Q, x) < Rank(Q, p)
      BY <1>1, <2>3, <3>1, RankOrder
    <3>3. Rank(Q, x) = j + 1
      BY <1>1, <1>2, <1>6
    <3>4. Rank(Q, p) = Rank(P, p) + 1
      BY <1>1, <1>6, <2>3, <3>1
    <3>5. Rank(P, p) \in 1..Cardinality(P)
      BY <2>3, RankBijection
    <3> HIDE DEF w, j, t, Q
    <3> QED
      BY <1>2, <1>3, <1>7, <2>3, <3>2, <3>3, <3>4, <3>5
  <2> QED
    BY <1>1, <2>1, <2>2, <2>3
<1>9. \A k \in 1..Cardinality(Q) : \E p \in Q : Rank(Q, p) = k
  BY <1>1, RankBijection
<1>10. u = w
  <2> HIDE DEF u, w, Q, t
  <2>1. \A k \in 1..Cardinality(Q) : u[k] = w[k]
    BY <1>5, <1>8, <1>9
  <2> QED
    BY <1>3, <1>4, <1>5, <1>7, <2>1
<1> QED
  BY <1>2, <1>3, <1>10

\* A decoder that lies m - n values and j places before (m, j) comes to it.
LEMMA Landing ==
  ASSUME NEW size \in Nat \ {0}, NEW a \in Nat, NEW e \in Nat, NEW m \in Nat,
         NEW j \in 0..(size - 1),
         a * size + e = m * size + j
  PROVE  a + e \div size = m /\ e % size = j
<1>1. a <= m
  <2> SUFFICES ASSUME m + 1 <= a PROVE FALSE
    OBVIOUS
  <2>1. (m + 1) * size <= a * size
    OBVIOUS
  <2>2. (m + 1) * size = m * size + size
    OBVIOUS
  <2>3. m * size \in Nat /\ a * size \in Nat
    OBVIOUS
  <2> QED
    BY <2>1, <2>2, <2>3
<1> DEFINE q == m - a
<1>2. q \in Nat /\ m = a + q
  BY <1>1
<1> HIDE DEF q
<1>3. e = size * q + j
  <2>1. m * size = a * size + size * q
    BY <1>2
  <2>2. m * size \in Nat /\ a * size \in Nat /\ size * q \in Nat
    BY <1>2
  <2> QED
    BY <2>1, <2>2
<1>4. e \div size = q /\ e % size = j
  BY <1>2, <1>3
<1> QED
  BY <1>2, <1>4

---------------------------------------------------------------------------
(* The bias *)

\* A quotient is smaller than what is divided.
LEMMA SmallerQuotient ==
  ASSUME NEW x \in Nat, NEW m \in Nat, 2 <= m
  PROVE  /\ x \div m \in Nat /\ x % m \in 0..(m - 1)
         /\ x = m * (x \div m) + (x % m)
         /\ x # 0 => x \div m < x
<1> DEFINE y == x \div m
           z == x % m
<1>1. y \in Nat /\ z \in 0..(m - 1) /\ x = m * y + z
  OBVIOUS
<1> HIDE DEF y, z
<1>2. y # 0 => y < x
  <2> SUFFICES ASSUME y # 0 PROVE y < x
    OBVIOUS
  <2>1. m * y >= 2 * y
    BY <1>1
  <2> QED
    BY <1>1, <2>1
<1> QED
  BY <1>1, <1>2 DEF y, z

\* The two loops that divide the sum down, of the decoder and of encode.
ShrunkAt(f, x) == IF x <= 455 THEN (36 * x) \div (x + 38) ELSE 36 + f[x \div 35]

LEMMA ShrunkExists ==
  ASSUME NEW N \in Nat
  PROVE  \E f : f = [x \in 0..N |-> ShrunkAt(f, x)]
<1> DEFINE Good(m, f) == f = [x \in 0..m |-> ShrunkAt(f, x)]
           V == {m \in Nat : ~ \E f : Good(m, f)}
<1>1. SUFFICES ASSUME V # {} PROVE FALSE
  OBVIOUS
<1>2. PICK v \in V : \A w \in V : v <= w
  BY <1>1, LeastNumber
<1>3. \E f : \A x \in 0..(v - 1) : f[x] = ShrunkAt(f, x)
  <2>1. CASE v = 0
    BY <2>1
  <2>2. CASE v # 0
    <3>1. v - 1 \in Nat /\ v - 1 \notin V
      BY <1>2, <2>2
    <3>2. PICK f : Good(v - 1, f)
      BY <3>1
    <3>3. \A x \in 0..(v - 1) : f[x] = ShrunkAt(f, x)
      <4> DEFINE g == [x \in 0..(v - 1) |-> ShrunkAt(f, x)]
      <4>1. \A x \in 0..(v - 1) : g[x] = ShrunkAt(f, x)
        OBVIOUS
      <4>2. f = g
        BY <3>2
      <4> HIDE DEF g
      <4> QED
        BY <4>1, <4>2
    <3> QED
      BY <3>3
  <2> QED
    BY <2>1, <2>2
<1>4. PICK f : \A x \in 0..(v - 1) : f[x] = ShrunkAt(f, x)
  BY <1>3
<1> DEFINE g == [x \in 0..v |-> ShrunkAt(f, x)]
<1>5. \A x \in 0..(v - 1) : g[x] = f[x]
  BY <1>4
<1>6. \A x \in 0..v : ShrunkAt(g, x) = ShrunkAt(f, x)
  <2> SUFFICES ASSUME NEW x \in 0..v PROVE ShrunkAt(g, x) = ShrunkAt(f, x)
    OBVIOUS
  <2> HIDE DEF g
  <2>1. CASE x <= 455
    BY <2>1 DEF ShrunkAt
  <2>2. CASE ~(x <= 455)
    <3>1. x \div 35 \in 0..(v - 1)
      BY <2>2, SmallerQuotient
    <3>2. g[x \div 35] = f[x \div 35]
      BY <1>5, <3>1
    <3> QED
      BY <2>2, <3>2 DEF ShrunkAt
  <2> QED
    BY <2>1, <2>2
<1>7. Good(v, g)
  BY <1>6
<1> QED
  BY <1>2, <1>7

\* The sum that adapt divides down.
Damped(d, points, first) ==
  LET halved == IF first THEN d \div 700 ELSE d \div 2 IN halved + halved \div points

LEMMA DampedNat ==
  ASSUME NEW d \in Nat, NEW points \in Nat \ {0}, NEW first \in BOOLEAN
  PROVE  Damped(d, points, first) \in Nat
<1> DEFINE h == IF first THEN d \div 700 ELSE d \div 2
<1>1. h \in Nat
  OBVIOUS
<1> HIDE DEF h
<1>2. h + h \div points \in Nat
  BY <1>1
<1> QED
  BY <1>2 DEF Damped, h

\* What NextBias returns.
LEMMA NextBiasIs ==
  ASSUME NEW d \in Nat, NEW points \in Nat \ {0}, NEW first \in BOOLEAN
  PROVE  \E f : /\ RFC!NextBias(d, points, first) = f[Damped(d, points, first)]
                /\ \A x \in 0..Damped(d, points, first) : f[x] = ShrunkAt(f, x)
<1> DEFINE start == Damped(d, points, first)
           f == CHOOSE f : f = [x \in 0..start |-> ShrunkAt(f, x)]
<1>1. f = [x \in 0..start |-> ShrunkAt(f, x)]
  <2>1. start \in Nat
    BY DampedNat
  <2> HIDE DEF start
  <2> QED
    BY <2>1, ShrunkExists
<1>2. RFC!NextBias(d, points, first) = f[start]
  BY Zenon DEF RFC!NextBias, ShrunkAt, Damped
<1>3. \A x \in 0..start : f[x] = ShrunkAt(f, x)
  <2> DEFINE g == [x \in 0..start |-> ShrunkAt(f, x)]
  <2> HIDE DEF f
  <2>1. \A x \in 0..start : g[x] = ShrunkAt(f, x)
    OBVIOUS
  <2>2. f = g
    BY <1>1
  <2> HIDE DEF g
  <2> QED
    BY <2>1, <2>2
<1> QED
  BY <1>2, <1>3

ScaledAt(f, x) ==
  IF x > ((BASE - TMIN) * TMAX) \div 2
  THEN BASE + f[x \div (BASE - TMIN)]
  ELSE ((BASE - TMIN + 1) * x) \div (x + SKEW)

LEMMA ScaledExists ==
  ASSUME NEW N \in Nat
  PROVE  \E f : f = [x \in 0..N |-> ScaledAt(f, x)]
<1> DEFINE Good(m, f) == f = [x \in 0..m |-> ScaledAt(f, x)]
           V == {m \in Nat : ~ \E f : Good(m, f)}
<1>1. SUFFICES ASSUME V # {} PROVE FALSE
  OBVIOUS
<1>2. PICK v \in V : \A w \in V : v <= w
  BY <1>1, LeastNumber
<1>3. \E f : \A x \in 0..(v - 1) : f[x] = ScaledAt(f, x)
  <2>1. CASE v = 0
    BY <2>1
  <2>2. CASE v # 0
    <3>1. v - 1 \in Nat /\ v - 1 \notin V
      BY <1>2, <2>2
    <3>2. PICK f : Good(v - 1, f)
      BY <3>1
    <3>3. \A x \in 0..(v - 1) : f[x] = ScaledAt(f, x)
      <4> DEFINE g == [x \in 0..(v - 1) |-> ScaledAt(f, x)]
      <4>1. \A x \in 0..(v - 1) : g[x] = ScaledAt(f, x)
        OBVIOUS
      <4>2. f = g
        BY <3>2
      <4> HIDE DEF g
      <4> QED
        BY <4>1, <4>2
    <3> QED
      BY <3>3
  <2> QED
    BY <2>1, <2>2
<1>4. PICK f : \A x \in 0..(v - 1) : f[x] = ScaledAt(f, x)
  BY <1>3
<1> DEFINE g == [x \in 0..v |-> ScaledAt(f, x)]
<1>5. \A x \in 0..(v - 1) : g[x] = f[x]
  BY <1>4
<1>6. \A x \in 0..v : ScaledAt(g, x) = ScaledAt(f, x)
  <2> SUFFICES ASSUME NEW x \in 0..v
               PROVE  ScaledAt(g, x) = ScaledAt(f, x)
    OBVIOUS
  <2> HIDE DEF g
  <2>1. CASE x <= 455
    BY <2>1 DEF ScaledAt, BASE, TMIN, TMAX
  <2>2. CASE ~(x <= 455)
    <3>1. x \div 35 \in 0..(v - 1)
      BY <2>2, SmallerQuotient
    <3>2. g[x \div 35] = f[x \div 35]
      BY <1>5, <3>1
    <3> QED
      BY <2>2, <3>2 DEF ScaledAt, BASE, TMIN, TMAX
  <2> QED
    BY <2>1, <2>2
<1>7. Good(v, g)
  BY <1>6
<1> QED
  BY <1>2, <1>7

\* What Adapt returns.
LEMMA AdaptIs ==
  ASSUME NEW d \in Nat, NEW points \in Nat \ {0}, NEW first \in BOOLEAN
  PROVE  \E f : /\ Adapt(d, points, first) = f[Damped(d, points, first)]
                /\ \A x \in 0..Damped(d, points, first) :
                     f[x] = ScaledAt(f, x)
<1> DEFINE start == Damped(d, points, first)
           f == CHOOSE f : f = [x \in 0..start |-> ScaledAt(f, x)]
<1>1. f = [x \in 0..start |-> ScaledAt(f, x)]
  <2>1. start \in Nat
    BY DampedNat
  <2> HIDE DEF start
  <2> QED
    BY <2>1, ScaledExists
<1>2. Adapt(d, points, first) = f[start]
  BY Zenon DEF Adapt, ScaledAt, Damped, DAMP
<1>3. \A x \in 0..start : f[x] = ScaledAt(f, x)
  <2> DEFINE g == [x \in 0..start |-> ScaledAt(f, x)]
  <2> HIDE DEF f
  <2>1. \A x \in 0..start : g[x] = ScaledAt(f, x)
    OBVIOUS
  <2>2. f = g
    BY <1>1
  <2> HIDE DEF g
  <2> QED
    BY <2>1, <2>2
<1> QED
  BY <1>2, <1>3

\* Encoder and decoder adapt the bias alike.
LEMMA SameBias ==
  ASSUME NEW d \in Nat, NEW points \in Nat \ {0}, NEW first \in BOOLEAN
  PROVE  /\ Adapt(d, points, first) = RFC!NextBias(d, points, first)
         /\ Adapt(d, points, first) \in Nat
<1> DEFINE N == Damped(d, points, first)
<1>1. N \in Nat
  BY DampedNat
<1>2. PICK f : /\ RFC!NextBias(d, points, first) = f[N]
               /\ \A x \in 0..N : f[x] = ShrunkAt(f, x)
  BY NextBiasIs
<1>3. PICK g : /\ Adapt(d, points, first) = g[N]
               /\ \A x \in 0..N : g[x] = ScaledAt(g, x)
  BY AdaptIs
<1> HIDE DEF N
<1> DEFINE Same(x) == f[x] \in Nat /\ g[x] = f[x]
           V == {x \in 0..N : ~Same(x)}
<1>4. V = {}
  <2> SUFFICES ASSUME V # {} PROVE FALSE
    OBVIOUS
  <2>1. V \in SUBSET Nat
    OBVIOUS
  <2>2. PICK v \in V : \A w \in V : v <= w
    BY <2>1, LeastNumber
  <2>3. v \in 0..N /\ v \in Nat
    OBVIOUS
  <2>4. CASE v <= 455
    <3> DEFINE e == (36 * v) \div (v + 38)
    <3>1. e \in Nat
      BY <2>3
    <3>2. f[v] = e
      BY <1>2, <2>3, <2>4 DEF ShrunkAt
    <3>3. g[v] = e
      BY <1>3, <2>3, <2>4 DEF ScaledAt, BASE, TMIN, TMAX, SKEW
    <3> HIDE DEF e
    <3>4. Same(v)
      BY <3>1, <3>2, <3>3
    <3> QED
      BY <3>4
  <2>5. CASE ~(v <= 455)
    <3> DEFINE y == v \div 35
    <3>1. y \in 0..N /\ y < v /\ y \in Nat
      <4>1. v \in Nat /\ 35 \in Nat /\ 2 <= 35 /\ v # 0
        BY <2>3, <2>5
      <4>2. v \div 35 \in Nat /\ (v # 0 => v \div 35 < v)
        BY <4>1, SmallerQuotient
      <4> HIDE DEF y
      <4>3. y \in Nat /\ y < v
        BY <4>1, <4>2 DEF y
      <4> QED
        BY <1>1, <2>3, <4>3
    <3>2. f[v] = 36 + f[y]
      BY <1>2, <2>3, <2>5 DEF ShrunkAt
    <3>3. g[v] = 36 + g[y]
      BY <1>3, <2>3, <2>5 DEF ScaledAt, BASE, TMIN, TMAX
    <3> HIDE DEF y
    <3>4. Same(y)
      <4>1. y \notin V
        BY <2>2, <2>3, <3>1
      <4> QED
        BY <3>1, <4>1
    <3>5. Same(v)
      <4>1. f[y] \in Nat /\ g[y] = f[y]
        BY <3>4
      <4> QED
        BY <3>2, <3>3, <4>1
    <3> QED
      BY <3>5
  <2> QED
    BY <2>4, <2>5
<1>5. Same(N)
  <2>1. N \in 0..N
    BY <1>1
  <2> QED
    BY <1>4, <2>1
<1>6. g[N] = f[N] /\ f[N] \in Nat
  BY <1>5
<1> QED
  BY <1>2, <1>3, <1>6

---------------------------------------------------------------------------
(* push_delta *)

LEMMA ThresholdRange ==
  ASSUME NEW k \in Nat, NEW b \in Nat
  PROVE  /\ Threshold(k, b) \in 1..26
         /\ RFC!ThresholdAt(k, b) = Threshold(k, b)
  BY DEF Threshold, RFC!ThresholdAt, TMIN, TMAX

\* Each digit is read as it was written, and none is a hyphen.
LEMMA DigitRead ==
  ASSUME NEW e \in 0..35
  PROVE  /\ DigitToChar(e) \in Nat /\ DigitToChar(e) # 45
         /\ RFC!DigitOf(DigitToChar(e)) = e
  BY DEF DigitToChar, RFC!DigitOf

\* A round of push_delta, f being what the later ones append.
RoundOf(f, q, k, b) ==
  LET t == Threshold(k, b)
  IN IF q < t THEN <<DigitToChar(q)>>
     ELSE <<DigitToChar(t + ((q - t) % (BASE - t)))>> \o f[(q - t) \div (BASE - t)][k + BASE]

\* What a round of the loop of push_delta leaves of q.
LEMMA Rest ==
  ASSUME NEW q \in Nat, NEW t \in 1..26, t <= q
  PROVE  /\ (q - t) \div (36 - t) \in Nat /\ (q - t) \div (36 - t) < q
         /\ t + ((q - t) % (36 - t)) \in t..35
         /\ q = (t + ((q - t) % (36 - t))) + ((q - t) \div (36 - t)) * (36 - t)
<1> DEFINE x == q - t
           m == 36 - t
<1>1. x \in Nat /\ m \in 10..35 /\ x < q /\ q = x + t /\ m + t = 36
  OBVIOUS
<1> HIDE DEF x, m
<1> DEFINE y == x \div m
           z == x % m
<1>2. /\ y \in Nat /\ z \in 0..(m - 1) /\ x = m * y + z
      /\ x # 0 => y < x
  <2>1. m \in Nat /\ 2 <= m
    BY <1>1
  <2>2. /\ x \div m \in Nat /\ x % m \in 0..(m - 1)
        /\ x = m * (x \div m) + (x % m)
        /\ x # 0 => x \div m < x
    BY <1>1, <2>1, SmallerQuotient
  <2> QED
    BY <2>2
<1>3. x = 0 => y = 0
  BY <1>1
<1> HIDE DEF y, z
<1>4. y < q
  BY <1>1, <1>2, <1>3
<1>5. t + z \in t..35
  BY <1>1, <1>2
<1>6. q = (t + z) + y * m
  <2>1. y * m = m * y /\ m * y \in Nat
    BY <1>1, <1>2
  <2> HIDE DEF x, m
  <2> QED
    BY <1>1, <1>2, <2>1
<1> QED
  BY <1>2, <1>4, <1>5, <1>6 DEF x, m, y, z

LEMMA DigitsExists ==
  ASSUME NEW N \in Nat, NEW b \in Nat
  PROVE  \E f : f = [q \in 0..N |-> [k \in Nat |-> RoundOf(f, q, k, b)]]
<1> DEFINE Good(m, f) == f = [q \in 0..m |-> [k \in Nat |-> RoundOf(f, q, k, b)]]
           V == {m \in Nat : ~ \E f : Good(m, f)}
<1>1. SUFFICES ASSUME V # {} PROVE FALSE
  OBVIOUS
<1>2. PICK v \in V : \A w \in V : v <= w
  BY <1>1, LeastNumber
<1>3. \E f : \A q \in 0..(v - 1) : f[q] = [k \in Nat |-> RoundOf(f, q, k, b)]
  <2>1. CASE v = 0
    BY <2>1
  <2>2. CASE v # 0
    <3>1. v - 1 \in Nat /\ v - 1 \notin V
      BY <1>2, <2>2
    <3>2. PICK f : Good(v - 1, f)
      BY <3>1
    <3>3. \A q \in 0..(v - 1) : f[q] = [k \in Nat |-> RoundOf(f, q, k, b)]
      <4> DEFINE g == [q \in 0..(v - 1) |-> [k \in Nat |-> RoundOf(f, q, k, b)]]
      <4>1. \A q \in 0..(v - 1) : g[q] = [k \in Nat |-> RoundOf(f, q, k, b)]
        OBVIOUS
      <4>2. f = g
        BY <3>2
      <4> HIDE DEF g
      <4> QED
        BY <4>1, <4>2
    <3> QED
      BY <3>3
  <2> QED
    BY <2>1, <2>2
<1>4. PICK f : \A q \in 0..(v - 1) : f[q] = [k \in Nat |-> RoundOf(f, q, k, b)]
  BY <1>3
<1> DEFINE g == [q \in 0..v |-> [k \in Nat |-> RoundOf(f, q, k, b)]]
<1>5. \A q \in 0..(v - 1) : g[q] = f[q]
  BY <1>4
<1>6. \A q \in 0..v, k \in Nat : RoundOf(g, q, k, b) = RoundOf(f, q, k, b)
  <2> SUFFICES ASSUME NEW q \in 0..v, NEW k \in Nat
               PROVE  RoundOf(g, q, k, b) = RoundOf(f, q, k, b)
    OBVIOUS
  <2> HIDE DEF g
  <2> DEFINE t == Threshold(k, b)
             y == (q - t) \div (36 - t)
  <2>1. t \in 1..26
    BY ThresholdRange
  <2>2. CASE q < t
    BY <2>2 DEF RoundOf
  <2>3. CASE ~(q < t)
    <3>1. y \in 0..(v - 1)
      <4> HIDE DEF t
      <4> QED
        BY <2>1, <2>3, Rest
    <3>2. g[y] = f[y]
      BY <1>5, <3>1
    <3> QED
      BY <3>2 DEF RoundOf, BASE
  <2> QED
    BY <2>2, <2>3
<1>7. Good(v, g)
  BY <1>6
<1> QED
  BY <1>2, <1>7

\* What push_delta appends.
LEMMA DigitsIs ==
  ASSUME NEW d \in Nat, NEW b \in Nat
  PROVE  \E f : /\ Digits(d, b) = f[d][BASE]
                /\ \A q \in 0..d, k \in Nat : f[q][k] = RoundOf(f, q, k, b)
<1> DEFINE f == CHOOSE f : f = [q \in 0..d |-> [k \in Nat |-> RoundOf(f, q, k, b)]]
<1>1. f = [q \in 0..d |-> [k \in Nat |-> RoundOf(f, q, k, b)]]
  BY DigitsExists
<1>2. Digits(d, b) = f[d][BASE]
  BY Zenon DEF Digits, RoundOf
<1>3. \A q \in 0..d, k \in Nat : f[q][k] = RoundOf(f, q, k, b)
  <2> DEFINE g == [q \in 0..d |-> [k \in Nat |-> RoundOf(f, q, k, b)]]
  <2> HIDE DEF f
  <2>1. \A q \in 0..d, k \in Nat : g[q][k] = RoundOf(f, q, k, b)
    OBVIOUS
  <2>2. f = g
    BY <1>1
  <2> HIDE DEF g
  <2> QED
    BY <2>1, <2>2
<1> QED
  BY <1>2, <1>3

---------------------------------------------------------------------------
(* What the decoder has read *)

\* A text has a last hyphen, or none.
IsLastHyphen(h, s) ==
  /\ h \in 0..Len(s) /\ (h = 0 \/ s[h] = 45)
  /\ \A q \in 1..Len(s) : s[q] = 45 => q <= h

LEMMA LastHyphenIs ==
  ASSUME NEW s \in Seq(Nat)
  PROVE  /\ IsLastHyphen(RFC!LastHyphen(s), s)
         /\ \A h : IsLastHyphen(h, s) => RFC!LastHyphen(s) = h
<1> DEFINE H == {p \in DOMAIN s : s[p] = 45}
           W == H \cup {0}
           N == Len(s)
<1>1. N \in Nat /\ DOMAIN s = 1..N
  OBVIOUS
<1>2. W \in SUBSET (0..N)
  BY <1>1
<1>3. \E p \in W : \A q \in H : q <= p
  <2> DEFINE V == {N - w : w \in W}
  <2>1. V \in SUBSET Nat /\ V # {}
    BY <1>1, <1>2
  <2>2. PICK v \in V : \A u \in V : v <= u
    BY <2>1, LeastNumber
  <2>3. PICK w \in W : v = N - w
    OBVIOUS
  <2>4. ASSUME NEW q \in H PROVE q <= w
    <3>1. N - q \in V /\ q \in 0..N /\ w \in 0..N
      BY <1>2
    <3>2. v <= N - q
      BY <2>2, <3>1
    <3> QED
      BY <1>1, <2>3, <3>1, <3>2
  <2> QED
    BY <2>4
<1> DEFINE h == RFC!LastHyphen(s)
<1>4. h \in W /\ \A q \in H : q <= h
  <2>1. h = CHOOSE p \in W : \A q \in H : q <= p
    BY DEF RFC!LastHyphen, RFC!Hyphen
  <2> HIDE DEF h, W, H
  <2> QED
    BY <1>3, <2>1
<1> HIDE DEF h
<1>5. IsLastHyphen(h, s)
  BY <1>1, <1>4 DEF IsLastHyphen
<1>6. ASSUME NEW g, IsLastHyphen(g, s) PROVE h = g
  BY <1>1, <1>5, <1>6 DEF IsLastHyphen
<1> QED
  BY <1>5, <1>6 DEF h

\* The decoder behind the p-th place of s, f being the decoders before.
AfterAt(f, p, s) ==
  IF p <= RFC!LastHyphen(s) THEN RFC!FirstReader(SubSeq(s, 1, RFC!LastHyphen(s) - 1))
  ELSE RFC!Read(f[p - 1], s[p])

LEMMA AfterExists ==
  ASSUME NEW s \in Seq(Nat), NEW N \in Nat
  PROVE  \E f : f = [p \in 0..N |-> AfterAt(f, p, s)]
<1> DEFINE Good(m, f) == f = [p \in 0..m |-> AfterAt(f, p, s)]
           V == {m \in Nat : ~ \E f : Good(m, f)}
<1>1. SUFFICES ASSUME V # {} PROVE FALSE
  OBVIOUS
<1>2. PICK v \in V : \A w \in V : v <= w
  BY <1>1, LeastNumber
<1>3. \E f : \A p \in 0..(v - 1) : f[p] = AfterAt(f, p, s)
  <2>1. CASE v = 0
    BY <2>1
  <2>2. CASE v # 0
    <3>1. v - 1 \in Nat /\ v - 1 \notin V
      BY <1>2, <2>2
    <3>2. PICK f : Good(v - 1, f)
      BY <3>1
    <3>3. \A p \in 0..(v - 1) : f[p] = AfterAt(f, p, s)
      <4> DEFINE g == [p \in 0..(v - 1) |-> AfterAt(f, p, s)]
      <4>1. \A p \in 0..(v - 1) : g[p] = AfterAt(f, p, s)
        OBVIOUS
      <4>2. f = g
        BY <3>2
      <4> HIDE DEF g
      <4> QED
        BY <4>1, <4>2
    <3> QED
      BY <3>3
  <2> QED
    BY <2>1, <2>2
<1>4. PICK f : \A p \in 0..(v - 1) : f[p] = AfterAt(f, p, s)
  BY <1>3
<1> DEFINE g == [p \in 0..v |-> AfterAt(f, p, s)]
<1>5. \A p \in 0..(v - 1) : g[p] = f[p]
  BY <1>4
<1>6. \A p \in 0..v : AfterAt(g, p, s) = AfterAt(f, p, s)
  <2> SUFFICES ASSUME NEW p \in 0..v PROVE AfterAt(g, p, s) = AfterAt(f, p, s)
    OBVIOUS
  <2> HIDE DEF g
  <2>1. CASE p <= RFC!LastHyphen(s)
    BY <2>1 DEF AfterAt
  <2>2. CASE ~(p <= RFC!LastHyphen(s))
    <3>1. RFC!LastHyphen(s) \in Nat
      BY LastHyphenIs DEF IsLastHyphen
    <3>2. p - 1 \in 0..(v - 1)
      BY <2>2, <3>1
    <3>3. g[p - 1] = f[p - 1]
      BY <1>5, <3>2
    <3> QED
      BY <2>2, <3>3 DEF AfterAt
  <2> QED
    BY <2>1, <2>2
<1>7. Good(v, g)
  BY <1>6
<1> QED
  BY <1>2, <1>7

\* What Reading returns.
LEMMA ReadingIs ==
  ASSUME NEW s \in Seq(Nat)
  PROVE  \E f : /\ RFC!Reading(s) = f[Len(s)]
                /\ \A p \in 0..Len(s) : f[p] = AfterAt(f, p, s)
<1> DEFINE f == CHOOSE f : f = [p \in 0..Len(s) |-> AfterAt(f, p, s)]
<1>1. f = [p \in 0..Len(s) |-> AfterAt(f, p, s)]
  <2>1. Len(s) \in Nat
    OBVIOUS
  <2>2. \E g : g = [p \in 0..Len(s) |-> AfterAt(g, p, s)]
    BY <2>1, AfterExists
  <2> QED
    BY <2>2
<1>2. RFC!Reading(s) = f[Len(s)]
  BY Zenon DEF RFC!Reading, AfterAt
<1>3. \A p \in 0..Len(s) : f[p] = AfterAt(f, p, s)
  <2> DEFINE g == [p \in 0..Len(s) |-> AfterAt(f, p, s)]
  <2> HIDE DEF f
  <2>1. \A p \in 0..Len(s) : g[p] = AfterAt(f, p, s)
    OBVIOUS
  <2>2. f = g
    BY <1>1
  <2> HIDE DEF g
  <2> QED
    BY <2>1, <2>2
<1> QED
  BY <1>2, <1>3

\* A text with one more element.
LEMMA Appended ==
  ASSUME NEW s \in Seq(Nat), NEW c \in Nat
  PROVE  /\ s \o <<c>> \in Seq(Nat) /\ Len(s \o <<c>>) = Len(s) + 1
         /\ Len(s) \in Nat
         /\ \A p \in 1..Len(s) : (s \o <<c>>)[p] = s[p]
         /\ (s \o <<c>>)[Len(s) + 1] = c
         /\ \A h \in 0..Len(s) : SubSeq(s \o <<c>>, 1, h) = SubSeq(s, 1, h)
<1> DEFINE o == <<c>>
           t == s \o o
           N == Len(s)
<1>1. o \in Seq(Nat) /\ Len(o) = 1 /\ o[1] = c
  OBVIOUS
<1>2. N \in Nat
  OBVIOUS
<1> HIDE DEF o
<1>3. /\ t \in Seq(Nat) /\ Len(t) = N + Len(o)
      /\ \A p \in 1..(N + Len(o)) : t[p] = IF p <= N THEN s[p] ELSE o[p - N]
  BY <1>1, ConcatProperties
<1> HIDE DEF t, N
<1>4. Len(t) = N + 1 /\ \A p \in 1..N : t[p] = s[p]
  BY <1>1, <1>2, <1>3
<1>5. t[N + 1] = c
  <2>1. N + 1 \in 1..(N + Len(o)) /\ ~(N + 1 <= N) /\ (N + 1) - N = 1
    BY <1>1, <1>2
  <2> QED
    BY <1>1, <1>3, <2>1
<1>6. ASSUME NEW h \in 0..N PROVE SubSeq(t, 1, h) = SubSeq(s, 1, h)
  <2>1. SubSeq(t, 1, h) = [p \in 1..h |-> t[p]] /\ SubSeq(s, 1, h) = [p \in 1..h |-> s[p]]
    BY <1>2, <1>3
  <2>2. \A p \in 1..h : t[p] = s[p]
    BY <1>2, <1>4
  <2> QED
    BY <2>1, <2>2
<1> QED
  BY <1>2, <1>3, <1>4, <1>5, <1>6 DEF t, o, N

\* A digit more is read after the text before it.
LEMMA ReadNext ==
  ASSUME NEW s \in Seq(Nat), NEW c \in Nat, c # 45
  PROVE  RFC!Reading(s \o <<c>>) = RFC!Read(RFC!Reading(s), c)
<1> DEFINE t == s \o <<c>>
           N == Len(s)
           h == RFC!LastHyphen(s)
           literal == SubSeq(s, 1, h - 1)
<1>1. /\ t \in Seq(Nat) /\ Len(t) = N + 1 /\ N \in Nat
      /\ \A p \in 1..N : t[p] = s[p]
      /\ t[N + 1] = c
      /\ \A p \in 0..N : SubSeq(t, 1, p) = SubSeq(s, 1, p)
  BY Appended
<1>2. IsLastHyphen(h, s)
  BY LastHyphenIs
<1> HIDE DEF t, h
<1>3. RFC!LastHyphen(t) = h
  <2>1. IsLastHyphen(h, t)
    <3>1. h \in 0..N /\ (h = 0 \/ s[h] = 45) /\ \A q \in 1..N : s[q] = 45 => q <= h
      BY <1>2 DEF IsLastHyphen
    <3> HIDE DEF N
    <3>2. h \in 0..(N + 1)
      BY <1>1, <3>1
    <3>3. h = 0 \/ t[h] = 45
      BY <1>1, <3>1
    <3>4. ASSUME NEW q \in 1..(N + 1), t[q] = 45 PROVE q <= h
      <4>1. q # N + 1
        BY <1>1, <3>4
      <4>2. q \in 1..N
        BY <1>1, <4>1
      <4> QED
        BY <1>1, <3>1, <3>4, <4>2
    <3> QED
      BY <1>1, <3>2, <3>3, <3>4 DEF IsLastHyphen
  <2> QED
    BY <1>1, <2>1, LastHyphenIs
<1>4. SubSeq(t, 1, h - 1) = literal
  <2>1. CASE h = 0
    BY <1>1, <2>1
  <2>2. CASE h # 0
    <3>1. h - 1 \in 0..N
      BY <1>1, <1>2, <2>2 DEF IsLastHyphen
    <3> QED
      BY <1>1, <3>1
  <2> QED
    BY <2>1, <2>2
<1>5. PICK f : RFC!Reading(s) = f[N] /\ \A p \in 0..N : f[p] = AfterAt(f, p, s)
  BY ReadingIs
<1>6. PICK g : RFC!Reading(t) = g[N + 1] /\ \A p \in 0..(N + 1) : g[p] = AfterAt(g, p, t)
  <2>1. \E g : RFC!Reading(t) = g[Len(t)] /\ \A p \in 0..Len(t) : g[p] = AfterAt(g, p, t)
    BY <1>1, ReadingIs
  <2> QED
    BY <1>1, <2>1
<1> HIDE DEF N, literal
<1>7. h \in 0..N
  BY <1>2 DEF IsLastHyphen, N
<1> DEFINE V == {p \in 0..N : f[p] # g[p]}
<1>8. V = {}
  <2> SUFFICES ASSUME V # {} PROVE FALSE
    OBVIOUS
  <2>1. V \in SUBSET Nat
    BY <1>1
  <2>2. PICK v \in V : \A w \in V : v <= w
    BY <2>1, LeastNumber
  <2>3. v \in 0..N /\ v \in Nat /\ v \in 0..(N + 1)
    BY <1>1
  <2>4. CASE v <= h
    <3>1. f[v] = RFC!FirstReader(literal)
      BY <1>5, <2>3, <2>4 DEF AfterAt, h, literal
    <3>2. g[v] = RFC!FirstReader(literal)
      BY <1>3, <1>4, <1>6, <2>3, <2>4 DEF AfterAt
    <3> QED
      BY <3>1, <3>2
  <2>5. CASE ~(v <= h)
    <3>1. v - 1 \in 0..N /\ v \in 1..N /\ v - 1 \notin V
      BY <1>1, <1>7, <2>2, <2>3, <2>5
    <3>2. f[v - 1] = g[v - 1] /\ s[v] = t[v]
      BY <1>1, <3>1
    <3>3. f[v] = RFC!Read(f[v - 1], s[v])
      BY <1>5, <2>3, <2>5 DEF AfterAt, h
    <3>4. g[v] = RFC!Read(g[v - 1], t[v])
      BY <1>3, <1>6, <2>3, <2>5 DEF AfterAt
    <3> QED
      BY <3>2, <3>3, <3>4
  <2> QED
    BY <2>4, <2>5
<1>9. f[N] = g[N]
  BY <1>1, <1>8
<1>10. g[N + 1] = RFC!Read(g[N], c)
  <2>1. ~(N + 1 <= h) /\ N + 1 \in 0..(N + 1) /\ (N + 1) - 1 = N
    BY <1>1, <1>7
  <2> QED
    BY <1>1, <1>3, <1>6, <2>1 DEF AfterAt
<1> QED
  BY <1>5, <1>6, <1>9, <1>10 DEF t

\* The text before a hyphen at the end is literal.
LEMMA ReadLiteral ==
  ASSUME NEW s \in Seq(Nat)
  PROVE  RFC!Reading(s \o <<45>>) = RFC!FirstReader(s)
<1> DEFINE t == s \o <<45>>
           N == Len(s)
<1>1. /\ t \in Seq(Nat) /\ Len(t) = N + 1 /\ N \in Nat
      /\ t[N + 1] = 45
      /\ \A p \in 0..N : SubSeq(t, 1, p) = SubSeq(s, 1, p)
  BY Appended
<1> HIDE DEF t
<1>2. RFC!LastHyphen(t) = N + 1
  <2>1. IsLastHyphen(N + 1, t)
    BY <1>1 DEF IsLastHyphen
  <2> QED
    BY <1>1, <2>1, LastHyphenIs
<1>3. SubSeq(t, 1, (N + 1) - 1) = s
  <2>1. (N + 1) - 1 = N /\ N \in 0..N
    BY <1>1
  <2>2. SubSeq(s, 1, N) = s
    OBVIOUS
  <2> QED
    BY <1>1, <2>1, <2>2
<1>4. PICK f : RFC!Reading(t) = f[Len(t)] /\ \A p \in 0..Len(t) : f[p] = AfterAt(f, p, t)
  BY <1>1, ReadingIs
<1>5. N + 1 \in 0..Len(t) /\ N + 1 <= N + 1
  BY <1>1
<1>6. f[N + 1] = RFC!FirstReader(s)
  BY <1>2, <1>3, <1>4, <1>5 DEF AfterAt
<1> QED
  BY <1>1, <1>4, <1>6 DEF t

\* So is the empty text.
LEMMA ReadNothing ==
  ASSUME NEW s \in Seq(Nat), s = <<>>
  PROVE  RFC!Reading(s) = RFC!FirstReader(s)
<1>1. Len(s) = 0
  OBVIOUS
<1>2. PICK f : RFC!Reading(s) = f[0] /\ f[0] = AfterAt(f, 0, s)
  <2>1. PICK f : RFC!Reading(s) = f[Len(s)] /\ \A p \in 0..Len(s) : f[p] = AfterAt(f, p, s)
    BY ReadingIs
  <2> QED
    BY <1>1, <2>1
<1>3. RFC!LastHyphen(s) = 0
  <2>1. RFC!LastHyphen(s) \in 0..Len(s)
    BY LastHyphenIs DEF IsLastHyphen
  <2> QED
    BY <1>1, <2>1
<1>4. SubSeq(s, 1, 0 - 1) = s
  OBVIOUS
<1>5. 0 <= 0
  OBVIOUS
<1> QED
  BY <1>2, <1>3, <1>4, <1>5 DEF AfterAt

\* The value after a digit e and the rest y, each of which weighs m times as much.
LEMMA Accumulated ==
  ASSUME NEW v \in Nat, NEW e \in Nat, NEW y \in Nat, NEW w \in Nat, NEW m \in Nat
  PROVE  /\ v + e * w \in Nat /\ w * m \in Nat
         /\ (v + e * w) + y * (w * m) = v + (e + y * m) * w
<1> DEFINE x == y * m
<1>1. x \in Nat /\ y * (w * m) = x * w
  OBVIOUS
<1> HIDE DEF x
<1>2. (e + x) * w = e * w + x * w /\ e * w \in Nat /\ x * w \in Nat
  BY <1>1
<1>3. w * m \in Nat
  OBVIOUS
<1> DEFINE a == e * w
           b == x * w
<1>4. a \in Nat /\ b \in Nat
  BY <1>2
<1> HIDE DEF a, b
<1>5. v + a \in Nat /\ (v + a) + b = v + (a + b)
  BY <1>4
<1> QED
  BY <1>1, <1>2, <1>3, <1>5 DEF a, b, x

LEMMA Associative ==
  ASSUME NEW s \in Seq(Nat), NEW t \in Seq(Nat), NEW u \in Seq(Nat)
  PROVE  t \o u \in Seq(Nat) /\ (s \o t) \o u = s \o (t \o u)
<1>1. (s \o t) \o u = s \o (t \o u)
  OBVIOUS
<1>2. t \o u \in Seq(Nat)
  OBVIOUS
<1> QED
  BY <1>1, <1>2

\* A digit below the threshold ends the integer, any other adds to it.
LEMMA ReadDigit ==
  ASSUME NEW r \in RFC!Reader, NEW e \in 0..35
  PROVE  LET t == Threshold(r.k, r.bias)
             value == r.value + e * r.weight
         IN /\ e < t => RFC!Read(r, DigitToChar(e)) = RFC!Inserted(r, value)
            /\ ~(e < t) =>
                 RFC!Read(r, DigitToChar(e))
                   = [r EXCEPT !.value = value, !.weight = @ * (36 - t), !.k = @ + 36]
<1>1. RFC!DigitOf(DigitToChar(e)) = e
  BY DigitRead
<1>2. r.k \in Nat /\ r.bias \in Nat
  BY DEF RFC!Reader
<1>3. RFC!ThresholdAt(r.k, r.bias) = Threshold(r.k, r.bias)
  BY <1>2, ThresholdRange
<1> QED
  BY Zenon, <1>1, <1>3 DEF RFC!Read

\* The reader waits for the digit of the round of k under the bias b.
Waits(r, k, b) == r \in RFC!Reader /\ r.k = k /\ r.bias = b

\* After s, the word is read as the rest q of an integer.
ReadsAs(s, word, q) ==
  LET r == RFC!Reading(s)
  IN /\ word \in Seq(Nat)
     /\ RFC!Reading(s \o word) = RFC!Inserted(r, r.value + q * r.weight)

\* A row of push_delta's digits, by k, is read as q wherever a reader waits.
ReadsBack(row, q, b) ==
  \A s \in Seq(Nat), k \in Nat :
    Waits(RFC!Reading(s), k, b) => ReadsAs(s, row[k], q)

\* What is inserted depends on where the reader stands.
LEMMA SamePlace ==
  ASSUME NEW a, NEW b, NEW d, a.n = b.n, a.i = b.i, a.text = b.text
  PROVE  RFC!Inserted(a, d) = RFC!Inserted(b, d)
  BY Zenon DEF RFC!Inserted

\* The last digit.
LEMMA LastDigitReads ==
  ASSUME NEW b \in Nat, NEW q \in Nat, NEW k \in Nat, NEW s \in Seq(Nat),
         Waits(RFC!Reading(s), k, b), q < Threshold(k, b)
  PROVE  ReadsAs(s, <<DigitToChar(q)>>, q)
<1> DEFINE r == RFC!Reading(s)
           c == DigitToChar(q)
<1>1. q \in 0..35
  <2> DEFINE t == Threshold(k, b)
  <2>1. t \in 1..26
    BY ThresholdRange
  <2>2. q < t
    OBVIOUS
  <2> HIDE DEF t
  <2> QED
    BY <2>1, <2>2
<1>2. c \in Nat /\ c # 45
  BY <1>1, DigitRead
<1>3. RFC!Reading(s \o <<c>>) = RFC!Read(r, c)
  <2> HIDE DEF c
  <2> QED
    BY <1>2, ReadNext
<1>4. RFC!Read(r, c) = RFC!Inserted(r, r.value + q * r.weight)
  BY <1>1, ReadDigit DEF Waits
<1>5. <<c>> \in Seq(Nat)
  BY <1>2
<1> QED
  BY <1>3, <1>4, <1>5 DEF ReadsAs

\* Any other digit, with those after it.
LEMMA DigitReads ==
  ASSUME NEW b \in Nat, NEW q \in Nat, NEW k \in Nat, NEW s \in Seq(Nat),
         NEW e \in 0..35, NEW y \in Nat, NEW row,
         Waits(RFC!Reading(s), k, b), Threshold(k, b) <= e,
         q = e + y * (36 - Threshold(k, b)),
         ReadsBack(row, y, b)
  PROVE  ReadsAs(s, <<DigitToChar(e)>> \o row[k + BASE], q)
<1> DEFINE r == RFC!Reading(s)
           c == DigitToChar(e)
           o == <<c>>
           z == row[k + 36]
           t == Threshold(k, b)
           r1 == RFC!Reading(s \o o)
           value == r.value + e * r.weight
<1>1. c \in Nat /\ c # 45 /\ t \in 1..26
  BY DigitRead, ThresholdRange
<1>2. o \in Seq(Nat) /\ s \o o \in Seq(Nat)
  BY <1>1, Appended
<1>3. r1 = RFC!Read(r, c)
  <2> HIDE DEF c
  <2> QED
    BY <1>1, ReadNext
<1>4. r1 = [r EXCEPT !.value = value, !.weight = @ * (36 - t), !.k = @ + 36]
  <2>1. r \in RFC!Reader /\ r.k = k /\ r.bias = b
    BY DEF Waits
  <2>2. ~(e < t)
    <3>1. t <= e
      OBVIOUS
    <3> HIDE DEF t
    <3> QED
      BY <1>1, <3>1
  <2>3. t = Threshold(r.k, r.bias)
    BY <2>1
  <2> HIDE DEF r, r1, t, c
  <2>4. RFC!Read(r, c) = [r EXCEPT !.value = value, !.weight = @ * (36 - t), !.k = @ + 36]
    BY Zenon, <2>1, <2>2, <2>3, ReadDigit DEF c
  <2> QED
    BY <1>3, <2>4
<1> HIDE DEF r, r1, t, c, o, z
<1>5. r \in RFC!Reader /\ r.k = k /\ r.bias = b
  BY DEF Waits, r
<1>6. r.value \in Nat /\ r.weight \in Nat
  BY <1>5 DEF RFC!Reader
<1> DEFINE w == r.weight
           m == 36 - t
<1>7. /\ value \in Nat /\ w * m \in Nat /\ k + 36 \in Nat
      /\ value + y * (w * m) = r.value + q * w
  <2> DEFINE v == r.value
  <2>1. m \in Nat /\ k + 36 \in Nat /\ e \in Nat /\ v \in Nat /\ w \in Nat
    BY <1>1, <1>6
  <2>2. q = e + y * m /\ value = v + e * w
    BY DEF t, value
  <2> HIDE DEF m, v, w
  <2>3. /\ v + e * w \in Nat /\ w * m \in Nat
        /\ (v + e * w) + y * (w * m) = v + (e + y * m) * w
    BY <2>1, Accumulated
  <2>4. /\ value \in Nat /\ w * m \in Nat /\ k + 36 \in Nat
        /\ value + y * (w * m) = v + q * w
    BY <2>1, <2>2, <2>3
  <2> QED
    BY <2>4 DEF v
<1> HIDE DEF value
<1>8. /\ r1.n = r.n /\ r1.i = r.i /\ r1.text = r.text /\ r1.bias = b
      /\ r1.value = value /\ r1.weight = r.weight * (36 - t) /\ r1.k = k + 36
      /\ r1 \in RFC!Reader
  BY <1>4, <1>5, <1>7 DEF RFC!Reader
<1>9. /\ z \in Seq(Nat)
      /\ RFC!Reading((s \o o) \o z) = RFC!Inserted(r1, r1.value + y * r1.weight)
  <2>1. Waits(RFC!Reading(s \o o), k + 36, b)
    BY <1>8 DEF Waits, r1
  <2> QED
    BY <1>2, <1>7, <2>1 DEF ReadsBack, ReadsAs, r1, z
<1>10. (s \o o) \o z = s \o (o \o z) /\ o \o z \in Seq(Nat)
  <2>1. o \in Seq(Nat) /\ z \in Seq(Nat)
    BY <1>2, <1>9
  <2> QED
    BY Zenon, <2>1, Associative
<1>11. r1.value + y * r1.weight = r.value + q * r.weight
  BY <1>7, <1>8
<1>12. RFC!Inserted(r1, r.value + q * r.weight) = RFC!Inserted(r, r.value + q * r.weight)
  BY <1>8, SamePlace
<1> QED
  BY <1>9, <1>10, <1>11, <1>12 DEF ReadsAs, r, o, c, z, BASE

\* So each number is read as it was written: the least that is not would be one
\* digit more than a smaller one.
LEMMA RowsReadBack ==
  ASSUME NEW b \in Nat, NEW d \in Nat, NEW f,
         \A q \in 0..d, k \in Nat : f[q][k] = RoundOf(f, q, k, b)
  PROVE  \A q \in 0..d : ReadsBack(f[q], q, b)
<1> DEFINE V == {q \in 0..d : ~ReadsBack(f[q], q, b)}
<1>1. SUFFICES ASSUME V # {} PROVE FALSE
  OBVIOUS
<1>2. PICK v \in V : \A w \in V : v <= w
  <2>1. V \in SUBSET Nat
    OBVIOUS
  <2> HIDE DEF V
  <2> QED
    BY <1>1, <2>1, LeastNumber
<1>3. v \in 0..d /\ v \in Nat
  OBVIOUS
<1>4. ReadsBack(f[v], v, b)
  <2> SUFFICES ASSUME NEW s \in Seq(Nat), NEW k \in Nat, Waits(RFC!Reading(s), k, b)
               PROVE  ReadsAs(s, f[v][k], v)
    BY DEF ReadsBack
  <2> DEFINE t == Threshold(k, b)
             y == (v - t) \div (36 - t)
             e == t + ((v - t) % (36 - t))
  <2>1. t \in 1..26
    BY ThresholdRange
  <2>2. f[v][k] = RoundOf(f, v, k, b)
    BY <1>3
  <2>3. CASE v < t
    <3>1. f[v][k] = <<DigitToChar(v)>>
      BY <2>2, <2>3 DEF RoundOf
    <3> QED
      BY <1>3, <2>3, <3>1, LastDigitReads
  <2>4. CASE ~(v < t)
    <3>1. y \in Nat /\ y < v /\ e \in t..35 /\ v = e + y * (36 - t)
      <4>1. v \in Nat
        BY <1>3
      <4> HIDE DEF t
      <4>2. t <= v
        BY <2>1, <2>4, <4>1
      <4>3. /\ (v - t) \div (36 - t) \in Nat /\ (v - t) \div (36 - t) < v
            /\ t + ((v - t) % (36 - t)) \in t..35
            /\ v = (t + ((v - t) % (36 - t))) + ((v - t) \div (36 - t)) * (36 - t)
        BY <2>1, <4>1, <4>2, Rest
      <4> QED
        BY <4>3
    <3>2. f[v][k] = <<DigitToChar(e)>> \o f[y][k + BASE]
      BY <2>2, <2>4 DEF RoundOf, BASE
    <3> HIDE DEF e, y
    <3>3. ReadsBack(f[y], y, b)
      <4>1. y \in 0..d /\ y \notin V
        BY <1>2, <1>3, <3>1
      <4> QED
        BY <4>1
    <3>4. e \in 0..35 /\ t <= e
      <4> HIDE DEF t
      <4> QED
        BY <2>1, <3>1
    <3>5. y \in Nat /\ v = e + y * (36 - Threshold(k, b))
      BY <3>1
    <3>6. ReadsAs(s, <<DigitToChar(e)>> \o f[y][k + BASE], v)
      BY <1>3, <3>3, <3>4, <3>5, DigitReads
    <3> QED
      BY <3>2, <3>6
  <2> QED
    BY <2>3, <2>4
<1> QED
  BY <1>4

\* A decoder that waits for an integer under the bias of encode reads the delta
\* that push_delta wrote.
LEMMA DeltaReads ==
  ASSUME NEW s \in Seq(Nat), NEW d \in Nat, NEW b \in Nat,
         Waits(RFC!Reading(s), BASE, b),
         RFC!Reading(s).value = 0, RFC!Reading(s).weight = 1
  PROVE  /\ s \o Digits(d, b) \in Seq(Nat)
         /\ RFC!Reading(s \o Digits(d, b)) = RFC!Inserted(RFC!Reading(s), d)
<1>1. PICK f : /\ Digits(d, b) = f[d][BASE]
               /\ \A q \in 0..d, k \in Nat : f[q][k] = RoundOf(f, q, k, b)
  BY DigitsIs
<1>2. ReadsBack(f[d], d, b)
  <2>1. d \in 0..d
    OBVIOUS
  <2> QED
    BY <1>1, <2>1, RowsReadBack
<1>3. BASE \in Nat
  BY DEF BASE
<1> DEFINE r == RFC!Reading(s)
<1>4. /\ f[d][BASE] \in Seq(Nat)
      /\ RFC!Reading(s \o f[d][BASE]) = RFC!Inserted(r, r.value + d * r.weight)
  BY <1>2, <1>3 DEF ReadsBack, ReadsAs
<1> HIDE DEF r
<1>5. r.value + d * r.weight = d
  BY DEF r
<1> QED
  BY <1>1, <1>4, <1>5 DEF r

---------------------------------------------------------------------------
(* The invariant: what encode counts, and what the decoder makes of it *)

EncoderInv  == NumberInv /\ StartInv /\ LeftInv /\ CountInv
DecodingInv == PrefixDecodes /\ DecoderInv /\ GroupInv

\* The decoder of the output so far.
decoder == RFC!Reading(output)

\* What PrefixDecodes and DecoderInv say of it.
DecoderHolds ==
  pc # "start" => decoder.text = Restricted(placed \cup group)

DecoderWaits ==
  /\ decoder \in RFC!Reader
  /\ decoder.value = 0 /\ decoder.weight = 1 /\ decoder.k = 36 /\ decoder.bias = bias
  /\ handled >= Cardinality(Basic)
  /\ decoder.i = 0 <=> handled = Cardinality(Basic)

DecoderLags ==
  /\ pc = "values" =>
       decoder.n * (handled + 1) + decoder.i + delta = n * (handled + 1)
  /\ pc = "occurrences" =>
       decoder.n * (handled + 1) + decoder.i + delta
         = n * (handled + 1) + prevC + Cardinality(group)

LEMMA PrefixDecodesIs ==
  PrefixDecodes <=> DecoderHolds /\ (pc = "done" => decoder.text = input)
  BY DEF PrefixDecodes, DecoderHolds, RFC!Decode, decoder

LEMMA DecoderInvIs ==
  DecoderInv <=> /\ output \in Seq(Nat) /\ bias \in Nat
                 /\ pc # "start" => DecoderWaits /\ DecoderLags
  BY Zenon DEF DecoderInv, DecoderWaits, DecoderLags, decoder, BASE

\* And after a step.
LEMMA PrefixDecodesNext ==
  PrefixDecodes' <=> DecoderHolds' /\ (pc' = "done" => decoder'.text = input')
  BY DEF PrefixDecodes, DecoderHolds, RFC!Decode, decoder

LEMMA DecoderInvNext ==
  DecoderInv' <=> /\ output' \in Seq(Nat) /\ bias' \in Nat
                  /\ pc' # "start" => DecoderWaits' /\ DecoderLags'
  BY Zenon DEF DecoderInv, DecoderWaits, DecoderLags, decoder, BASE

LEMMA NextDecoder ==
  decoder' = RFC!Reading(output')
  BY DEF decoder

LEMMA SameDecoder ==
  ASSUME UNCHANGED output
  PROVE  decoder' = decoder
  BY DEF decoder

LEMMA InitIInv == Init => IInv
<1> SUFFICES ASSUME Init PROVE IInv
  OBVIOUS
<1>1. NumberInv
  BY InputsAssumption DEF Init, NumberInv
<1>2. StartInv /\ LeftInv /\ CountInv
  BY DEF Init, StartInv, LeftInv, CountInv
<1>3. DecoderInv
  <2>1. output = <<>> /\ bias = 72 /\ pc = "start"
    BY DEF Init, INITIAL_BIAS
  <2>2. <<>> \in Seq(Nat)
    OBVIOUS
  <2> QED
    BY <2>1, <2>2, DecoderInvIs
<1>4. PrefixDecodes /\ GroupInv
  BY DEF Init, PrefixDecodes, GroupInv
<1> QED
  BY <1>1, <1>2, <1>3, <1>4 DEF IInv

\* All basic positions are placed, all others are left.
LEMMA EmitBasicStep ==
  ASSUME IInv, EmitBasic
  PROVE  EncoderInv'
<1>1. /\ left' = {<<input[p], p>> : p \in Position \ Basic}
      /\ placed' = Basic /\ handled' = Cardinality(Basic)
      /\ n = 128 /\ delta = 0 /\ group = {}
      /\ pc' \in {"done", "values"}
      /\ UNCHANGED <<input, group, n, delta, placedBelowM, prevC>>
  BY DEF EmitBasic, IInv, StartInv
<1>2. Basic \in SUBSET Position /\ Position' = Position
  BY <1>1 DEF Basic, Position
<1>3. handled' \in Nat
  BY <1>1, <1>2, Finite DEF IInv
<1>4. NumberInv'
  BY <1>1, <1>3 DEF IInv, NumberInv
<1>5. StartInv'
  BY <1>1 DEF StartInv
<1>6. LeftInv'
  <2>1. ASSUME NEW p \in Position \ Basic PROVE 128 <= input[p]
    <3>1. input[p] \in Nat
      BY Numbers DEF IInv
    <3> QED
      BY <3>1 DEF Basic
  <2>2. pc' = "done" => left' = {}
    BY DEF EmitBasic
  <2>3. Position \ (placed' \cup group') = {s[2] : s \in left'}
    <3>1. \A p : <<input[p], p>>[2] = p
      OBVIOUS
    <3>2. {s[2] : s \in left'} = {<<input[p], p>>[2] : p \in Position \ Basic}
      BY <1>1
    <3> QED
      BY <1>1, <3>1, <3>2
  <2> QED
    BY <1>1, <1>2, <2>1, <2>2, <2>3 DEF LeftInv
<1>7. CountInv'
  BY <1>1, <1>2 DEF CountInv
<1> QED
  BY <1>4, <1>5, <1>6, <1>7 DEF EncoderInv

\* The states skipped are those of the values from the old n to the new one.
LEMMA NextValueStep ==
  ASSUME IInv, NextValue
  PROVE  EncoderInv'
<1>1. PICK s \in left : First(s) /\ delta' = delta + (s[1] - n) * (handled + 1) /\ n' = s[1]
  BY DEF NextValue
<1>2. /\ pc = "values" /\ pc' = "occurrences"
      /\ placedBelowM' = handled /\ prevC' = 0 /\ group' = {}
      /\ UNCHANGED <<input, left, placed, handled>>
  BY DEF NextValue
<1>3. Position' = Position /\ \A p : PrefixSum(p)' = PrefixSum(p)
  BY <1>2 DEF Position, PrefixSum
<1>4. /\ n \in Nat /\ delta \in Nat /\ handled \in Nat /\ 128 <= n
      /\ delta <= (n - 128) * (handled + 1)
  BY DEF IInv, NumberInv
<1>5. s[1] \in Nat /\ n <= s[1]
  <2>1. s[2] \in Position /\ s[1] = input[s[2]] /\ n <= s[1]
    BY DEF IInv, LeftInv
  <2> QED
    BY <2>1, Numbers DEF IInv
<1>6. delta' \in Nat /\ delta' <= (s[1] - 128) * (handled + 1)
  <2> DEFINE h == handled + 1
             a == s[1] - n
             b == n - 128
  <2>1. a \in Nat /\ b \in Nat /\ h \in Nat /\ s[1] - 128 = a + b
    BY <1>4, <1>5
  <2>2. delta' = delta + a * h /\ delta <= b * h
    BY <1>1, <1>4
  <2>3. (s[1] - 128) * h = (a + b) * h
    BY <2>1
  <2> HIDE DEF h, a, b
  <2>4. a * h \in Nat /\ b * h \in Nat /\ (a + b) * h = a * h + b * h
    BY <2>1
  <2>5. delta' \in Nat /\ delta' <= (a + b) * h
    BY <1>4, <2>2, <2>4
  <2> QED
    BY <2>3, <2>5 DEF h
<1>7. NumberInv'
  BY <1>1, <1>2, <1>4, <1>5, <1>6 DEF IInv, NumberInv
<1>8. StartInv'
  BY <1>2 DEF StartInv
<1>9. LeftInv'
  <2> SUFFICES ASSUME NEW r \in left PROVE s[1] <= r[1]
    <3>1. group \subseteq placed
      BY <1>2 DEF IInv, CountInv
    <3> QED
      BY <1>1, <1>2, <1>3, <3>1 DEF IInv, LeftInv
  <2>1. r[2] \in Position /\ r[1] = input[r[2]]
    BY DEF IInv, LeftInv
  <2>2. r[1] \in Nat
    BY <2>1, Numbers DEF IInv
  <2> QED
    BY <1>1, <1>5, <2>2 DEF First
<1>10. CountInv'
  <2>1. placed \subseteq Position /\ handled = Cardinality(placed)
    BY <1>2 DEF IInv, CountInv
  <2>2. \A r \in left : 0 <= PrefixSum(r[2])
    <3> SUFFICES ASSUME NEW r \in left PROVE 0 <= PrefixSum(r[2])
      OBVIOUS
    <3>1. r[2] \in Position
      BY DEF IInv, LeftInv
    <3>2. r[2] <= r[2]
      BY <3>1, Numbers DEF IInv
    <3> QED
      BY <2>1, <3>1, <3>2, PrefixCount DEF IInv
  <2>3. Cardinality({}) = 0
    BY FS_EmptySet
  <2> QED
    BY <1>2, <1>3, <1>4, <2>1, <2>2, <2>3 DEF CountInv
<1> QED
  BY <1>7, <1>8, <1>9, <1>10 DEF EncoderInv

\* What holds of the next occurrence.
LEMMA OccurrenceFacts ==
  ASSUME IInv, pc = "occurrences", NEW s \in left, Occurs(s)
  PROVE  /\ s[2] \in Position \ (placed \cup group)
         /\ n = input[s[2]] /\ s[1] = n
         /\ PrefixSum(s[2]) \in Nat
         /\ prevC <= PrefixSum(s[2])
         /\ PrefixSum(s[2]) <= Cardinality(placed)
         /\ Cardinality(placed) \in Nat /\ Cardinality(placed) <= handled
         /\ handled + 1 <= Len(input)
<1>1. s[2] \in Position \ (placed \cup group) /\ s[1] = n /\ n = input[s[2]]
  BY DEF Occurs, IInv, LeftInv
<1>2. /\ placed \in SUBSET Position /\ group \in SUBSET Position
      /\ placed \cap group = {}
      /\ handled = Cardinality(placed) + Cardinality(group)
      /\ prevC <= PrefixSum(s[2])
  BY <1>1 DEF IInv, CountInv
<1>3. s[2] <= s[2]
  BY <1>1, Numbers DEF IInv
<1>4. PrefixSum(s[2]) \in Nat /\ PrefixSum(s[2]) <= Cardinality(placed)
  BY <1>1, <1>2, <1>3, PrefixCount DEF IInv
<1>5. /\ IsFiniteSet(placed) /\ Cardinality(placed) \in Nat
      /\ IsFiniteSet(group) /\ Cardinality(group) \in Nat
  BY <1>2, Finite DEF IInv
<1>6. IsFiniteSet(placed \cup group) /\ Cardinality(placed \cup group) = handled
  <2>1. Cardinality(placed \cap group) = 0
    BY <1>2, FS_EmptySet
  <2>2. /\ IsFiniteSet(placed \cup group)
        /\ Cardinality(placed \cup group)
             = Cardinality(placed) + Cardinality(group) - Cardinality(placed \cap group)
    BY <1>5, FS_Union
  <2> QED
    BY <1>2, <1>5, <2>1, <2>2
<1>7. Cardinality((placed \cup group) \cup {s[2]}) = handled + 1
  BY <1>1, <1>6, FS_AddElement
<1>8. (placed \cup group) \cup {s[2]} \in SUBSET Position
  BY <1>1, <1>2
<1>9. handled + 1 <= Len(input)
  BY <1>7, <1>8, Finite DEF IInv
<1> QED
  BY <1>1, <1>2, <1>4, <1>5, <1>9

\* Equal values are encoded in the order of their positions, so that prevC stays
\* behind.
LEMMA OccurrenceStep ==
  ASSUME IInv, Occurrence
  PROVE  EncoderInv'
<1>1. PICK s \in left : Occurs(s) /\ Encode(s)
  BY DEF Occurrence
<1>2. /\ pc = "occurrences" /\ delta' = 0 /\ prevC' = PrefixSum(s[2])
      /\ handled' = handled + 1 /\ left' = left \ {s} /\ group' = group \cup {s[2]}
      /\ UNCHANGED <<input, n, placed, placedBelowM, pc>>
  BY <1>1 DEF Occurrence, Encode
<1>3. /\ s[2] \in Position \ (placed \cup group) /\ s[1] = n
      /\ PrefixSum(s[2]) \in Nat /\ PrefixSum(s[2]) <= Cardinality(placed)
  BY <1>1, <1>2, OccurrenceFacts
<1>4. Position' = Position /\ \A p : PrefixSum(p)' = PrefixSum(p)
  BY <1>2 DEF Position, PrefixSum
<1>5. NumberInv'
  <2>1. n - 128 \in Nat /\ handled + 2 \in Nat
    BY DEF IInv, NumberInv
  <2>2. 0 <= (n - 128) * (handled + 2)
    BY <2>1
  <2>3. handled' + 1 = handled + 2
    BY <1>2, Counters DEF IInv
  <2>4. /\ n' \in Nat /\ delta' \in Nat /\ handled' \in Nat
        /\ placedBelowM' \in Nat /\ prevC' \in Nat
    BY <1>2, <1>3, Counters DEF IInv
  <2>5. delta' <= (n' - 128) * (handled' + 1)
    BY <1>2, <2>2, <2>3
  <2>6. input \in Seq(0..MaxCodePoint) /\ 128 <= n
    BY DEF IInv, NumberInv
  <2> QED
    BY <1>2, <2>4, <2>5, <2>6 DEF NumberInv
<1>6. StartInv'
  BY <1>2 DEF StartInv
<1>7. LeftInv'
  <2> SUFFICES ASSUME NEW r \in left, r # s PROVE r[2] # s[2]
    <3>1. \A t \in left : t = <<input[t[2]], t[2]>>
      BY DEF IInv, LeftInv
    <3>2. {t[2] : t \in left'} = {t[2] : t \in left} \ {s[2]}
      BY <1>2, <3>1
    <3>3. Position \ (placed \cup group') = (Position \ (placed \cup group)) \ {s[2]}
      BY <1>2
    <3> QED
      BY <1>2, <1>4, <3>2, <3>3 DEF IInv, LeftInv
  <2> QED
    BY DEF IInv, LeftInv
<1>8. CountInv'
  <2>1. /\ placed \subseteq Position /\ group \in SUBSET Position
        /\ placed \cap group = {}
        /\ handled = Cardinality(placed) + Cardinality(group)
        /\ placedBelowM = Cardinality(placed)
    BY <1>2 DEF IInv, CountInv
  <2>2. /\ IsFiniteSet(group) /\ Cardinality(group) \in Nat
        /\ Cardinality(placed) \in Nat
    BY <2>1, Finite DEF IInv
  <2>3. Cardinality(group \cup {s[2]}) = Cardinality(group) + 1
    BY <1>3, <2>2, FS_AddElement
  <2>4. handled + 1 = Cardinality(placed) + Cardinality(group \cup {s[2]})
    BY <2>1, <2>2, <2>3
  <2>5. \A r \in left \ {s} : r[1] = n => PrefixSum(s[2]) <= PrefixSum(r[2])
    <3> SUFFICES ASSUME NEW r \in left, r[1] = n
                 PROVE  PrefixSum(s[2]) <= PrefixSum(r[2])
      OBVIOUS
    <3>1. r[2] \in Position
      BY DEF IInv, LeftInv
    <3>2. n \in Nat
      BY DEF IInv, NumberInv
    <3>3. s[2] <= r[2]
      BY <1>1, <1>3, <3>2 DEF Occurs, First
    <3> QED
      BY <1>3, <2>1, <3>1, <3>3, PrefixCount DEF IInv
  <2> QED
    BY <1>2, <1>3, <1>4, <2>1, <2>4, <2>5 DEF CountInv
<1> QED
  BY <1>5, <1>6, <1>7, <1>8 DEF EncoderInv

\* The carry is at most the number of decoder states of one value.
LEMMA EndOfValueStep ==
  ASSUME IInv, EndOfValue
  PROVE  EncoderInv'
<1>1. /\ pc = "occurrences" /\ pc' = "values"
      /\ \A s \in left : ~Occurs(s)
      /\ delta' = (placedBelowM - prevC) + 1 /\ n' = n + 1
      /\ placed' = placed \cup group
      /\ UNCHANGED <<input, left, group, handled, placedBelowM, prevC>>
  BY DEF EndOfValue
<1>2. /\ placed \in SUBSET Position /\ group \in SUBSET Position
      /\ placed \cap group = {}
      /\ handled = Cardinality(placed) + Cardinality(group)
      /\ placedBelowM = Cardinality(placed)
      /\ prevC <= placedBelowM
  BY <1>1 DEF IInv, CountInv
<1>3. /\ IsFiniteSet(placed) /\ Cardinality(placed) \in Nat
      /\ IsFiniteSet(group) /\ Cardinality(group) \in Nat
  BY <1>2, Finite DEF IInv
<1>4. Cardinality(placed \cup group) = handled
  <2>1. Cardinality(placed \cap group) = 0
    BY <1>2, FS_EmptySet
  <2>2. /\ IsFiniteSet(placed \cup group)
        /\ Cardinality(placed \cup group)
             = Cardinality(placed) + Cardinality(group) - Cardinality(placed \cap group)
    BY <1>3, FS_Union
  <2> QED
    BY <1>2, <1>3, <2>1, <2>2
<1>5. Position' = Position
  BY <1>1 DEF Position
<1>6. NumberInv'
  <2> DEFINE h == handled + 1
             b == n - 128
  <2>1. /\ n \in Nat /\ prevC \in Nat /\ placedBelowM \in Nat /\ handled \in Nat
        /\ h \in Nat /\ b \in Nat
    BY DEF IInv, NumberInv
  <2>2. delta' \in Nat /\ delta' <= h
    BY <1>1, <1>2, <1>3, <2>1
  <2>3. (n + 1) - 128 = b + 1
    BY <2>1
  <2> HIDE DEF h, b
  <2>4. h <= (b + 1) * h
    <3>1. b * h \in Nat /\ (b + 1) * h = b * h + h
      BY <2>1
    <3> QED
      BY <2>1, <3>1
  <2>5. delta' <= (b + 1) * h
    BY <2>1, <2>2, <2>4
  <2>6. delta' <= (n' - 128) * (handled' + 1)
    BY <1>1, <2>3, <2>5 DEF h
  <2> QED
    BY <1>1, <2>1, <2>2, <2>6 DEF IInv, NumberInv
<1>7. StartInv'
  BY <1>1 DEF StartInv
<1>8. LeftInv'
  <2> SUFFICES ASSUME NEW s \in left PROVE n + 1 <= s[1]
    <3>1. placed' \cup group' = placed \cup group
      BY <1>1
    <3> QED
      BY <1>1, <1>5, <3>1 DEF IInv, LeftInv
  <2>1. n <= s[1] /\ s[1] \in Nat /\ n \in Nat
    <3>1. n \in Nat
      BY DEF IInv, NumberInv
    <3>2. s[1] = input[s[2]] /\ s[2] \in Position /\ n <= s[1]
      BY DEF IInv, LeftInv
    <3>3. input[s[2]] \in Nat
      BY <3>2, Numbers DEF IInv
    <3> QED
      BY <3>1, <3>2, <3>3
  <2>2. PICK f \in left : First(f)
    BY FirstExists DEF IInv
  <2>3. f[1] \in Nat /\ n <= f[1] /\ f[1] # n
    BY <1>1, <2>2, Numbers DEF IInv, LeftInv, Occurs
  <2>4. f[1] <= s[1]
    BY <2>1, <2>2, <2>3 DEF First
  <2> QED
    BY <2>1, <2>3, <2>4
<1>9. CountInv'
  BY <1>1, <1>2, <1>4, <1>5 DEF CountInv
<1> QED
  BY <1>6, <1>7, <1>8, <1>9 DEF EncoderInv

\* The text at a set of positions depends on the input alone.
LEMMA SameTexts ==
  ASSUME UNCHANGED input
  PROVE  /\ Position' = Position /\ Basic' = Basic
         /\ Restricted(placed \cup group)' = Restricted(placed' \cup group')
  BY DEF Position, Basic, Restricted, Rank

\* What the invariant says of the decoder.
LEMMA DecoderFacts ==
  ASSUME IInv, pc # "start"
  PROVE  /\ decoder \in RFC!Reader /\ decoder.text = Restricted(placed \cup group)
         /\ decoder.value = 0 /\ decoder.weight = 1 /\ decoder.k = 36 /\ decoder.bias = bias
         /\ decoder.n \in Nat /\ decoder.i \in Nat
         /\ output \in Seq(Nat) /\ bias \in Nat
         /\ handled >= Cardinality(Basic)
         /\ decoder.i = 0 <=> handled = Cardinality(Basic)
         /\ DecoderLags
<1>1. DecoderHolds /\ DecoderWaits /\ DecoderLags /\ output \in Seq(Nat) /\ bias \in Nat
  BY PrefixDecodesIs, DecoderInvIs DEF IInv
<1>2. decoder.n \in Nat /\ decoder.i \in Nat
  BY <1>1 DEF DecoderWaits, RFC!Reader
<1> QED
  BY Zenon, <1>1, <1>2 DEF DecoderHolds, DecoderWaits

\* Output and text stay the same between the occurrences.
LEMMA SameOutput ==
  ASSUME IInv, pc # "start", pc' # "done",
         UNCHANGED <<input, output, bias, handled>>,
         placed' \cup group' = placed \cup group
  PROVE  /\ PrefixDecodes'
         /\ DecoderLags' => DecoderInv'
<1>1. decoder' = decoder /\ Basic' = Basic
  BY SameDecoder, SameTexts
<1>2. DecoderHolds'
  <2>1. Restricted(placed \cup group)' = Restricted(placed \cup group)
    BY SameTexts
  <2> QED
    BY <1>1, <2>1, DecoderFacts DEF DecoderHolds
<1>3. DecoderWaits' /\ output' \in Seq(Nat) /\ bias' \in Nat
  BY <1>1, DecoderFacts DEF DecoderWaits
<1> QED
  BY <1>2, <1>3, PrefixDecodesNext, DecoderInvNext

LEMMA FirstReaderIs ==
  ASSUME NEW literal \in Seq(Nat)
  PROVE  LET r == RFC!FirstReader(literal)
         IN /\ r \in RFC!Reader
            /\ r.n = 128 /\ r.i = 0 /\ r.text = literal
            /\ r.bias = 72 /\ r.value = 0 /\ r.weight = 1 /\ r.k = 36
  BY DEF RFC!Reader, RFC!FirstReader

\* The decoder starts with the basic code points.
LEMMA EmitBasicReads ==
  ASSUME NumberInv
  PROVE  LET text == Restricted(Basic) \o (IF Basic = {} THEN <<>> ELSE <<RFC!Hyphen>>)
         IN text \in Seq(Nat) /\ RFC!Reading(text) = RFC!FirstReader(Restricted(Basic))
<1> DEFINE R == Restricted(Basic)
<1>1. R \in Seq(Nat) /\ Len(R) = Cardinality(Basic)
  <2>1. Basic \in SUBSET Position
    BY DEF Basic
  <2> QED
    BY <2>1, Spelling
<1>2. CASE Basic = {}
  <2>1. Len(R) = 0
    BY <1>1, <1>2, FS_EmptySet
  <2> HIDE DEF R
  <2>2. R = <<>> /\ R \o <<>> = R
    BY <1>1, <2>1
  <2>3. RFC!Reading(R) = RFC!FirstReader(R)
    BY <1>1, <2>2, ReadNothing
  <2> QED
    BY <1>1, <1>2, <2>2, <2>3 DEF R
<1>3. CASE Basic # {}
  <2> HIDE DEF R
  <2>1. R \o <<45>> \in Seq(Nat)
    BY <1>1, Appended
  <2>2. RFC!Reading(R \o <<45>>) = RFC!FirstReader(R)
    BY <1>1, ReadLiteral
  <2> QED
    BY <1>3, <2>1, <2>2 DEF R, RFC!Hyphen
<1> QED
  BY <1>2, <1>3

LEMMA EmitBasicDecodes ==
  ASSUME IInv, EmitBasic
  PROVE  DecodingInv'
<1>1. /\ output' = Restricted(Basic) \o (IF Basic = {} THEN <<>> ELSE <<RFC!Hyphen>>)
      /\ left' = {<<input[p], p>> : p \in Position \ Basic}
      /\ placed' = Basic /\ handled' = Cardinality(Basic)
      /\ pc' = IF left' = {} THEN "done" ELSE "values"
      /\ pc = "start" /\ UNCHANGED <<input, group, n, delta, bias>>
  BY DEF EmitBasic
<1>2. group = {} /\ n = 128 /\ delta = 0 /\ bias = 72
  BY <1>1 DEF IInv, StartInv, INITIAL_BIAS
<1>3. output' \in Seq(Nat) /\ decoder' = RFC!FirstReader(Restricted(Basic))
  BY <1>1, EmitBasicReads, NextDecoder DEF IInv
<1>4. /\ decoder'.n = 128 /\ decoder'.i = 0 /\ decoder'.text = Restricted(Basic)
      /\ decoder'.bias = 72 /\ decoder'.value = 0 /\ decoder'.weight = 1 /\ decoder'.k = 36
      /\ decoder' \in RFC!Reader
  <2>1. Basic \in SUBSET Position
    BY DEF Basic
  <2>2. Restricted(Basic) \in Seq(Nat)
    BY <2>1, Spelling DEF IInv
  <2> DEFINE R == Restricted(Basic)
             first == RFC!FirstReader(R)
  <2>3. R \in Seq(Nat) /\ decoder' = first
    BY <1>3, <2>2
  <2> HIDE DEF R
  <2>4. /\ first.n = 128 /\ first.i = 0 /\ first.text = R
        /\ first.bias = 72 /\ first.value = 0 /\ first.weight = 1 /\ first.k = 36
        /\ first \in RFC!Reader
    BY Zenon, <2>3, FirstReaderIs
  <2> HIDE DEF first
  <2> QED
    BY <2>3, <2>4 DEF R
<1>5. Basic' = Basic
  BY <1>1, SameTexts
<1>6. PrefixDecodes'
  <2>1. placed' \cup group' = Basic
    BY <1>1, <1>2
  <2>2. decoder'.text = Restricted(placed \cup group)'
    <3>1. Restricted(placed \cup group)' = Restricted(placed' \cup group')
      BY <1>1, SameTexts
    <3>2. Restricted(placed' \cup group') = Restricted(Basic)
      BY <2>1
    <3>3. decoder'.text = Restricted(Basic)
      BY <1>4
    <3> QED
      BY Zenon, <3>1, <3>2, <3>3
  <2>3. ASSUME pc' = "done" PROVE decoder'.text = input'
    <3>1. left' = {}
      BY <1>1, <2>3
    <3>2. Basic = Position
      BY <1>1, <3>1 DEF Basic
    <3> QED
      BY <1>1, <1>4, <3>2, WholeInput DEF IInv
  <2>4. DecoderHolds' /\ (pc' = "done" => decoder'.text = input')
    BY <2>2, <2>3 DEF DecoderHolds
  <2> QED
    BY <2>4, PrefixDecodesNext
<1>7. DecoderInv'
  <2>1. Cardinality(Basic) \in Nat
    BY Finite DEF IInv, Basic
  <2>2. DecoderWaits'
    BY <1>1, <1>2, <1>4, <1>5, <2>1 DEF DecoderWaits
  <2>3. 128 * (handled' + 1) + 0 + 0 = 128 * (handled' + 1)
    BY <1>1, <2>1
  <2>4. DecoderLags'
    BY <1>1, <1>2, <1>4, <2>3 DEF DecoderLags
  <2>5. bias' \in Nat
    BY <1>1, <1>2
  <2> QED
    BY <1>3, <2>2, <2>4, <2>5, DecoderInvNext
<1>8. GroupInv'
  BY <1>1 DEF GroupInv
<1> QED
  BY <1>6, <1>7, <1>8 DEF DecodingInv

\* Each value skipped is one move through all places of the text.
LEMMA NextValueDecodes ==
  ASSUME IInv, NextValue
  PROVE  DecodingInv'
<1>1. PICK s \in left : First(s) /\ delta' = delta + (s[1] - n) * (handled + 1) /\ n' = s[1]
  BY DEF NextValue
<1>2. /\ pc = "values" /\ pc' = "occurrences"
      /\ prevC' = 0 /\ group' = {}
      /\ UNCHANGED <<input, output, left, placed, bias, handled>>
  BY DEF NextValue
<1>3. placed' \cup group' = placed \cup group
  BY <1>2 DEF IInv, CountInv
<1>4. decoder' = decoder
  BY <1>2, SameDecoder
<1>5. DecoderLags'
  <2> DEFINE size == handled + 1
             a == decoder.n
             i == decoder.i
             m == s[1]
  <2>1. a * size + i + delta = n * size /\ a \in Nat /\ i \in Nat
    BY <1>2, DecoderFacts DEF DecoderLags
  <2>2. n \in Nat /\ delta \in Nat /\ size \in Nat
    BY Counters DEF IInv
  <2>3. m \in Nat
    <3>1. s[2] \in Position /\ s[1] = input[s[2]]
      BY DEF IInv, LeftInv
    <3> QED
      BY <3>1, Numbers DEF IInv
  <2>4. a * size + i + (delta + (m - n) * size) = m * size
    <3> HIDE DEF size, a, i, m
    <3>1. (m - n) * size = m * size - n * size
      BY <2>2, <2>3
    <3>2. a * size \in Nat /\ m * size \in Nat /\ n * size \in Nat
      BY <2>1, <2>2, <2>3
    <3> QED
      BY <2>1, <2>2, <3>1, <3>2
  <2>5. decoder'.n * (handled' + 1) + decoder'.i + delta'
          = n' * (handled' + 1) + prevC' + Cardinality(group')
    <3>1. Cardinality({}) = 0
      BY FS_EmptySet
    <3>2. m * size \in Nat
      BY <2>2, <2>3
    <3>3. m * size = m * size + 0 + 0
      BY <3>2
    <3> QED
      BY <1>1, <1>2, <1>4, <2>4, <3>1, <3>3
  <2> QED
    BY <1>2, <2>5 DEF DecoderLags
<1>6. GroupInv'
  <2>1. Occurs(s)'
    BY <1>1, <1>2 DEF Occurs, First
  <2> QED
    BY <1>2, <2>1 DEF GroupInv
<1> QED
  BY <1>2, <1>3, <1>5, <1>6, SameOutput DEF DecodingInv

\* The decoder inserts the code point of the occurrence behind those encoded that
\* are on its left: the smaller ones there, and its whole group.
LEMMA OccurrenceInserts ==
  ASSUME IInv, pc = "occurrences", NEW s \in left, Occurs(s)
  PROVE  /\ RFC!Inserted(decoder, DeltaOf(s))
              = [n |-> n, i |-> PrefixSum(s[2]) + Cardinality(group) + 1,
                 text |-> Restricted(placed \cup group \cup {s[2]}),
                 bias |-> RFC!NextBias(DeltaOf(s), handled + 1, decoder.i = 0),
                 value |-> 0, weight |-> 1, k |-> 36]
         /\ PrefixSum(s[2]) \in Nat /\ Cardinality(group) \in Nat
         /\ DeltaOf(s) \in Nat
<1> DEFINE P == placed \cup group
           x == s[2]
           C == PrefixSum(x)
           G == Cardinality(group)
           size == handled + 1
           a == decoder.n
           d == DeltaOf(s)
           e == decoder.i + d
           j == C + G
<1>1. /\ x \in Position \ P /\ n = input[x] /\ C \in Nat /\ prevC <= C
      /\ C <= Cardinality(placed) /\ Cardinality(placed) \in Nat
  BY OccurrenceFacts
<1>2. /\ placed \in SUBSET Position /\ group \in SUBSET Position
      /\ placed \cap group = {} /\ P \in SUBSET Position
      /\ handled = Cardinality(placed) + G
  BY DEF IInv, CountInv
<1>3. /\ IsFiniteSet(placed) /\ IsFiniteSet(group) /\ G \in Nat
  BY <1>2, Finite DEF IInv
<1>4. Cardinality(P) = handled
  <2>1. Cardinality(placed \cap group) = 0
    BY <1>2, FS_EmptySet
  <2>2. Cardinality(P) = Cardinality(placed) + Cardinality(group)
                          - Cardinality(placed \cap group)
    BY <1>3, FS_Union
  <2> QED
    BY <1>1, <1>2, <1>3, <2>1, <2>2
<1>5. Cardinality({q \in P : q < x}) = j
  <2> DEFINE B == {q \in placed : q < x}
             T == {q \in P : q < x}
  <2>1. s[1] = n
    BY DEF Occurs
  <2>2. \A p \in group : p < x
    BY <2>1 DEF IInv, GroupInv
  <2>3. T = B \cup group /\ B \cap group = {}
    BY <1>2, <2>2
  <2>4. B \in SUBSET Position
    BY <1>2
  <2> HIDE DEF B, T
  <2>5. IsFiniteSet(B) /\ Cardinality(B) \in Nat
    BY <2>4, Finite DEF IInv
  <2>6. Cardinality(B \cap group) = 0
    BY <2>3, FS_EmptySet
  <2>7. Cardinality(B \cup group) = Cardinality(B) + G - Cardinality(B \cap group)
    BY <1>3, <2>5, FS_Union
  <2>8. Cardinality(B) = C
    BY DEF B, PrefixSum
  <2>9. Cardinality(T) = j
    BY <1>3, <2>3, <2>5, <2>6, <2>7, <2>8
  <2> QED
    BY <2>9 DEF T
<1>6. /\ decoder \in RFC!Reader /\ decoder.text = Restricted(P)
      /\ a * size + decoder.i + delta = n * size + prevC + G
      /\ a \in Nat /\ decoder.i \in Nat
  BY DecoderFacts DEF DecoderLags
<1>7. /\ n \in Nat /\ delta \in Nat /\ prevC \in Nat /\ handled \in Nat
      /\ a \in Nat /\ decoder.i \in Nat
  BY <1>6, Counters DEF IInv
<1>8. Len(decoder.text) = handled /\ Len(decoder.text) + 1 = size
  BY <1>2, <1>4, <1>6, Spelling DEF IInv
<1>9. a + e \div size = n /\ e % size = j
  <2>1. d = delta + (C - prevC)
    BY DEF DeltaOf
  <2>2. e \in Nat
    BY <1>1, <1>7, <2>1
  <2>3. size \in Nat \ {0} /\ j \in 0..(size - 1)
    BY <1>1, <1>2, <1>3, <1>7
  <2>4. a * size + e = n * size + j
    <3> HIDE DEF C, G, size, a, d
    <3>1. a * size \in Nat /\ n * size \in Nat
      BY <1>7, <2>3
    <3> QED
      BY <1>1, <1>3, <1>6, <1>7, <2>1, <3>1
  <2> HIDE DEF a, e, size, j
  <2> QED
    BY <1>7, <2>2, <2>3, <2>4, Landing
<1>10. Restricted(P \cup {x}) = Widened(decoder.text, j, n)
  <2>1. Restricted(P \cup {x})
          = Widened(Restricted(P), Cardinality({q \in P : q < x}), input[x])
    BY <1>1, <1>2, OneMore DEF IInv
  <2> QED
    BY <1>1, <1>5, <1>6, <2>1
<1>11. RFC!Inserted(decoder, d)
         = [n |-> n, i |-> j + 1, text |-> Widened(decoder.text, j, n),
            bias |-> RFC!NextBias(d, size, decoder.i = 0), value |-> 0, weight |-> 1, k |-> 36]
  <2> HIDE DEF d, j, size
  <2> QED
    BY Zenon, <1>8, <1>9 DEF RFC!Inserted, Widened
<1>12. d \in Nat
  BY <1>1, <1>7 DEF DeltaOf
<1> QED
  BY Zenon, <1>1, <1>3, <1>10, <1>11, <1>12

\* What push_delta appends, the decoder reads as the delta of the occurrence.
LEMMA OccurrenceReads ==
  ASSUME IInv, pc = "occurrences", NEW s \in left, Occurs(s)
  PROVE  /\ output \o Digits(DeltaOf(s), bias) \in Seq(Nat)
         /\ RFC!Reading(output \o Digits(DeltaOf(s), bias)) = RFC!Inserted(decoder, DeltaOf(s))
<1>1. /\ output \in Seq(Nat) /\ bias \in Nat /\ DeltaOf(s) \in Nat
      /\ decoder \in RFC!Reader /\ decoder.k = 36 /\ decoder.bias = bias
      /\ decoder.value = 0 /\ decoder.weight = 1
  BY DecoderFacts, OccurrenceInserts
<1>2. Waits(RFC!Reading(output), BASE, bias)
  BY <1>1 DEF Waits, BASE, decoder
<1>3. RFC!Reading(output).value = 0 /\ RFC!Reading(output).weight = 1
  BY <1>1 DEF decoder
<1> QED
  BY <1>1, <1>2, <1>3, DeltaReads DEF decoder

LEMMA OccurrenceDecodes ==
  ASSUME IInv, Occurrence
  PROVE  DecodingInv'
<1>1. PICK s \in left : Occurs(s) /\ Encode(s)
  BY DEF Occurrence
<1>2. /\ pc = "occurrences" /\ delta' = 0 /\ prevC' = PrefixSum(s[2])
      /\ output' = output \o Digits(DeltaOf(s), bias)
      /\ bias' = Adapt(DeltaOf(s), handled + 1, handled = Cardinality(Basic))
      /\ handled' = handled + 1 /\ left' = left \ {s} /\ group' = group \cup {s[2]}
      /\ UNCHANGED <<input, n, placed, placedBelowM, pc>>
  BY <1>1 DEF Occurrence, Encode
<1> DEFINE nextBias == RFC!NextBias(DeltaOf(s), handled + 1, decoder.i = 0)
<1>3. /\ decoder' = [n |-> n, i |-> PrefixSum(s[2]) + Cardinality(group) + 1,
                     text |-> Restricted(placed \cup group \cup {s[2]}),
                     bias |-> nextBias, value |-> 0, weight |-> 1, k |-> 36]
      /\ PrefixSum(s[2]) \in Nat /\ Cardinality(group) \in Nat
      /\ output' \in Seq(Nat)
  <2>1. decoder' = RFC!Inserted(decoder, DeltaOf(s)) /\ output' \in Seq(Nat)
    BY <1>1, <1>2, OccurrenceReads, NextDecoder
  <2> QED
    BY Zenon, <1>1, <1>2, <2>1, OccurrenceInserts
<1>4. /\ s[2] \in Position \ (placed \cup group) /\ s[1] = n
      /\ n \in Nat /\ handled \in Nat
  BY <1>1, <1>2, OccurrenceFacts, Counters DEF IInv
<1>5. bias' = nextBias /\ bias' \in Nat
  <2> DEFINE points == handled + 1
             first == handled = Cardinality(Basic)
  <2>1. DeltaOf(s) \in Nat /\ points \in Nat \ {0} /\ first \in BOOLEAN
    <3>1. DeltaOf(s) \in Nat
      BY <1>1, <1>2, OccurrenceInserts
    <3>2. points \in Nat \ {0}
      BY <1>4
    <3>3. first \in BOOLEAN
      OBVIOUS
    <3> QED
      BY <3>1, <3>2, <3>3
  <2>2. decoder.i = 0 <=> first
    BY <1>2, DecoderFacts
  <2>3. (decoder.i = 0) = first
    BY <2>2
  <2> HIDE DEF points, first
  <2>4. /\ Adapt(DeltaOf(s), points, first) = RFC!NextBias(DeltaOf(s), points, first)
        /\ Adapt(DeltaOf(s), points, first) \in Nat
    BY <2>1, SameBias
  <2> QED
    BY <1>2, <2>3, <2>4 DEF points, first
<1> HIDE DEF nextBias
<1>6. PrefixDecodes'
  <2>1. placed' \cup group' = placed \cup group \cup {s[2]}
    BY <1>2
  <2>2. decoder'.text = Restricted(placed \cup group \cup {s[2]})
    BY <1>3
  <2>3. Restricted(placed \cup group)' = Restricted(placed' \cup group')
    BY <1>2, SameTexts
  <2>4. Restricted(placed' \cup group') = Restricted(placed \cup group \cup {s[2]})
    BY <2>1
  <2>5. decoder'.text = Restricted(placed \cup group)'
    BY <2>2, <2>3, <2>4
  <2>6. DecoderHolds' /\ pc' # "done"
    BY <1>2, <2>5 DEF DecoderHolds
  <2> QED
    BY <2>6, PrefixDecodesNext
<1>7. DecoderInv'
  <2>1. placed \in SUBSET Position /\ group \in SUBSET Position
    BY DEF IInv, CountInv
  <2>2. decoder' \in RFC!Reader
    <3> DEFINE P == placed \cup group \cup {s[2]}
    <3>1. P \in SUBSET Position
      BY <1>4, <2>1
    <3> HIDE DEF P
    <3>2. Restricted(P) \in Seq(Nat)
      BY <3>1, Spelling DEF IInv
    <3> QED
      BY <1>3, <1>4, <1>5, <3>2 DEF RFC!Reader, P
  <2>3. Cardinality(group') = Cardinality(group) + 1
    <3>1. IsFiniteSet(group)
      BY <2>1, Finite DEF IInv
    <3> QED
      BY <1>2, <1>4, <3>1, FS_AddElement
  <2>4. DecoderLags'
    <3> DEFINE y == n * (handled' + 1)
    <3>1. y \in Nat
      BY <1>2, <1>4
    <3>2. decoder'.n * (handled' + 1) = y /\ n' * (handled' + 1) = y
      BY <1>2, <1>3
    <3>3. decoder'.i = prevC' + Cardinality(group') /\ delta' = 0
      BY <1>2, <1>3, <2>3
    <3>4. prevC' \in Nat /\ Cardinality(group') \in Nat
      BY <1>2, <1>3, <2>3
    <3> HIDE DEF y
    <3>5. y + decoder'.i + delta' = y + prevC' + Cardinality(group')
      BY <3>1, <3>3, <3>4
    <3> QED
      BY <1>2, <3>2, <3>5 DEF DecoderLags
  <2>5. decoder'.i # 0 /\ handled' >= Cardinality(Basic) /\ handled' # Cardinality(Basic)
    <3>1. handled >= Cardinality(Basic)
      BY <1>2, DecoderFacts
    <3>2. Cardinality(Basic) \in Nat
      BY Finite DEF IInv, Basic
    <3> QED
      BY <1>2, <1>3, <1>4, <3>1, <3>2
  <2>6. Basic' = Basic
    BY <1>2, SameTexts
  <2>7. /\ decoder'.value = 0 /\ decoder'.weight = 1 /\ decoder'.k = 36
        /\ decoder'.bias = bias'
    BY <1>3, <1>5
  <2>8. DecoderWaits'
    BY <2>2, <2>5, <2>6, <2>7 DEF DecoderWaits
  <2> QED
    BY <1>3, <1>5, <2>4, <2>8, DecoderInvNext
<1>8. GroupInv'
  <2>1. \A p \in group : p < s[2]
    BY <1>2, <1>4 DEF IInv, GroupInv
  <2>2. ASSUME NEW r \in left \ {s}, r[1] = n, NEW p \in group \cup {s[2]}
        PROVE  p < r[2]
    <3>1. /\ r[2] \in Position /\ s[2] \in Position
          /\ s = <<input[s[2]], s[2]>> /\ r = <<input[r[2]], r[2]>>
      BY DEF IInv, LeftInv
    <3>2. s[2] \in Nat /\ r[2] \in Nat
      BY <3>1, Numbers DEF IInv
    <3>3. r[2] # s[2]
      BY <3>1
    <3>4. s[2] <= r[2]
      BY <1>1, <1>4, <2>2 DEF Occurs, First
    <3>5. \A q \in group : q < r[2]
      BY <1>2, <2>2 DEF IInv, GroupInv
    <3> QED
      BY <3>2, <3>3, <3>4, <3>5
  <2> QED
    BY <1>2, <2>2 DEF GroupInv
<1> QED
  BY <1>6, <1>7, <1>8 DEF DecodingInv

\* The carry is what the decoder needs to the end of the text, and one value on.
LEMMA EndOfValueDecodes ==
  ASSUME IInv, EndOfValue
  PROVE  DecodingInv'
<1>1. /\ pc = "occurrences" /\ pc' = "values"
      /\ \A s \in left : ~Occurs(s)
      /\ delta' = (placedBelowM - prevC) + 1 /\ n' = n + 1
      /\ placed' = placed \cup group
      /\ UNCHANGED <<input, output, left, group, bias, handled, placedBelowM, prevC>>
  BY DEF EndOfValue
<1>2. placed' \cup group' = placed \cup group
  BY <1>1
<1>3. decoder' = decoder
  BY <1>1, SameDecoder
<1>4. DecoderLags'
  <2> DEFINE size == handled + 1
             a == decoder.n
             i == decoder.i
             G == Cardinality(group)
  <2>1. a * size + i + delta = n * size + prevC + G /\ a \in Nat /\ i \in Nat
    BY <1>1, DecoderFacts DEF DecoderLags
  <2>2. delta = 0
    BY <1>1 DEF IInv, GroupInv
  <2>3. n \in Nat /\ prevC \in Nat /\ placedBelowM \in Nat /\ size \in Nat
    BY Counters DEF IInv
  <2>4. /\ placedBelowM = Cardinality(placed) /\ handled = placedBelowM + G
        /\ group \in SUBSET Position
    BY <1>1 DEF IInv, CountInv
  <2>5. G \in Nat
    BY <2>4, Finite DEF IInv
  <2>6. size = placedBelowM + G + 1
    BY <2>4
  <2>7. a * size + i + ((placedBelowM - prevC) + 1) = (n + 1) * size
    <3> HIDE DEF size, a, i, G
    <3>1. (n + 1) * size = n * size + size
      BY <2>3
    <3>2. a * size \in Nat /\ n * size \in Nat
      BY <2>1, <2>3
    <3> QED
      BY <2>1, <2>2, <2>3, <2>5, <2>6, <3>1, <3>2
  <2> QED
    BY <1>1, <1>3, <2>7 DEF DecoderLags
<1>5. GroupInv'
  BY <1>1 DEF GroupInv
<1> QED
  BY <1>1, <1>2, <1>4, <1>5, SameOutput DEF DecodingInv

\* Nothing is left, so the decoder holds all positions.
LEMMA ReturnStep ==
  ASSUME IInv, Return
  PROVE  IInv'
<1>1. /\ pc = "values" /\ left = {} /\ pc' = "done"
      /\ UNCHANGED <<input, output, left, group, placed, n, delta, bias, handled,
                     placedBelowM, prevC>>
  BY DEF Return
<1>2. /\ Position' = Position /\ Basic' = Basic
      /\ Restricted(placed \cup group)' = Restricted(placed' \cup group')
  BY <1>1, SameTexts
<1>3. EncoderInv'
  BY <1>1, <1>2
     DEF IInv, EncoderInv, NumberInv, StartInv, LeftInv, CountInv
<1>4. decoder' = decoder
  BY <1>1, SameDecoder
<1>5. PrefixDecodes'
  <2>1. decoder.text = Restricted(placed \cup group)
    BY <1>1, DecoderFacts
  <2>2. placed \cup group = Position
    BY <1>1 DEF IInv, LeftInv, CountInv
  <2>3. decoder'.text = input'
    BY <1>1, <1>4, <2>1, <2>2, WholeInput DEF IInv
  <2>4. DecoderHolds'
    BY <1>1, <1>2, <1>4, <2>1 DEF DecoderHolds
  <2> QED
    BY <2>3, <2>4, PrefixDecodesNext
<1>6. DecoderInv'
  <2>1. DecoderWaits'
    BY <1>1, <1>2, <1>4, DecoderFacts DEF DecoderWaits
  <2>2. DecoderLags' /\ output' \in Seq(Nat) /\ bias' \in Nat
    BY <1>1, DecoderFacts DEF DecoderLags
  <2> QED
    BY <2>1, <2>2, DecoderInvNext
<1>7. GroupInv'
  BY <1>1 DEF GroupInv
<1> QED
  BY <1>3, <1>5, <1>6, <1>7 DEF IInv, EncoderInv

LEMMA NextIInv == IInv /\ [Next]_vars => IInv'
<1> SUFFICES ASSUME IInv, [Next]_vars PROVE IInv'
  OBVIOUS
<1>2. CASE EmitBasic
  <2>1. EncoderInv' /\ DecodingInv'
    BY <1>2, EmitBasicStep, EmitBasicDecodes
  <2> QED
    BY <2>1 DEF IInv, EncoderInv, DecodingInv
<1>3. CASE NextValue
  <2>1. EncoderInv' /\ DecodingInv'
    BY <1>3, NextValueStep, NextValueDecodes
  <2> QED
    BY <2>1 DEF IInv, EncoderInv, DecodingInv
<1>4. CASE Occurrence
  <2>1. EncoderInv' /\ DecodingInv'
    BY <1>4, OccurrenceStep, OccurrenceDecodes
  <2> QED
    BY <2>1 DEF IInv, EncoderInv, DecodingInv
<1>5. CASE EndOfValue
  <2>1. EncoderInv' /\ DecodingInv'
    BY <1>5, EndOfValueStep, EndOfValueDecodes
  <2> QED
    BY <2>1 DEF IInv, EncoderInv, DecodingInv
<1>6. CASE UNCHANGED vars
  <2>1. /\ UNCHANGED <<input, output, left, group, placed, n, delta, bias, handled>>
        /\ UNCHANGED <<placedBelowM, prevC, pc>>
    BY <1>6 DEF vars
  <2>2. Position' = Position /\ Basic' = Basic /\ \A p : PrefixSum(p)' = PrefixSum(p)
    BY <2>1 DEF Position, Basic, PrefixSum
  <2>3. NumberInv' /\ StartInv'
    BY <2>1 DEF IInv, NumberInv, StartInv
  <2>4. LeftInv' /\ CountInv'
    BY <2>1, <2>2 DEF IInv, LeftInv, CountInv
  <2>5. PrefixDecodes'
    BY <2>1, SameTexts DEF IInv, PrefixDecodes
  <2>6. DecoderInv' /\ GroupInv'
    BY <2>1, <2>2 DEF IInv, DecoderInv, GroupInv, Occurs, First
  <2> QED
    BY <2>3, <2>4, <2>5, <2>6 DEF IInv
<1> QED
  BY <1>2, <1>3, <1>4, <1>5, <1>6, ReturnStep DEF Next

---------------------------------------------------------------------------
(* The theorems *)

\* Every reachable state of encode satisfies the invariant, for every input.
THEOREM EncoderInvariant == Spec => []IInv
  BY InitIInv, NextIInv, PTL DEF Spec

\* What encode returns is Punycode for its input, whatever the input: a decoder of
\* RFC 3492 that reads the output digit by digit, under the biases it computes
\* itself, holds at every moment what is encoded so far, and at the end the input.
THEOREM OutputDecodes == Spec => []PrefixDecodes
<1>1. IInv => PrefixDecodes
  BY DEF IInv
<1> QED
  BY <1>1, EncoderInvariant, PTL

\* The subtractions s[1] - n, c_p - prev_c and placed_below_m - prev_c of encode
\* are never negative, whatever the input.
THEOREM Unwrapped == Spec => []NoUnderflow
<1>1. IInv => NoUnderflow
  BY DEF IInv, LeftInv, CountInv, NoUnderflow, Occurs
<1> QED
  BY <1>1, EncoderInvariant, PTL

\* Every delta that encode passes to push_delta is less than the number of
\* non-basic code points times the length of the input: below 2^64 for any input
\* of fewer than 2^43 code points.
THEOREM DeltaBounded == Spec => []DeltaFits
<1>1. ASSUME IInv, pc = "occurrences", NEW s \in left, Occurs(s)
      PROVE  DeltaOf(s) < (MaxCodePoint + 1 - INITIAL_N) * Len(input)
  <2> DEFINE h == handled + 1
             b == n - 128
             c == MaxCodePoint - 128
  <2>1. /\ n \in Nat /\ delta \in Nat /\ handled \in Nat /\ prevC \in Nat
        /\ h \in Nat /\ b \in Nat /\ delta <= b * h
    BY <1>1 DEF IInv, NumberInv
  <2>2. n <= MaxCodePoint /\ MaxCodePoint \in Nat /\ Len(input) \in Nat
    BY <1>1, OccurrenceFacts, Numbers DEF IInv
  <2>3. PrefixSum(s[2]) \in Nat /\ PrefixSum(s[2]) <= handled /\ h <= Len(input)
    BY <1>1, <2>1, OccurrenceFacts
  <2>4. DeltaOf(s) < b * h + h
    <3>1. b * h \in Nat
      BY <2>1
    <3> HIDE DEF b
    <3> QED
      BY <2>1, <2>3, <3>1 DEF DeltaOf
  <2>5. c \in Nat /\ b <= c /\ MaxCodePoint + 1 - 128 = c + 1
    BY <2>1, <2>2
  <2> HIDE DEF b, c, h
  <2>6. b * h + h = (b + 1) * h
    BY <2>1
  <2>7. (b + 1) * h <= (c + 1) * h
    BY <2>1, <2>5
  <2>8. (c + 1) * h <= (c + 1) * Len(input)
    BY <2>1, <2>2, <2>3, <2>5
  <2>9. /\ (b + 1) * h \in Nat /\ (c + 1) * h \in Nat /\ (c + 1) * Len(input) \in Nat
    BY <2>1, <2>2, <2>5
  <2>10. DeltaOf(s) \in Int
    BY <2>1, <2>3 DEF DeltaOf
  <2> QED
    BY <2>4, <2>5, <2>6, <2>7, <2>8, <2>9, <2>10
<1>2. IInv => DeltaFits
  BY <1>1 DEF DeltaFits
<1> QED
  BY <1>2, EncoderInvariant, PTL

===============================================================================
