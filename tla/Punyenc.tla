------------------------------- MODULE Punyenc -------------------------------
(***************************************************************************)
(* punyenc: the Punycode encoder that visits (value, position) pairs in       *)
(* sorted order and counts code points already placed with a Fenwick tree.    *)
(*                                                                            *)
(* Code points are numbers.  The sorted vector with its index i is the set of *)
(* the pairs that are left, of which First is the next; the tree is the set   *)
(* of positions that hold a 1.  Positions start at 1.                         *)
(***************************************************************************)
EXTENDS Integers, Sequences, FiniteSets

MaxCodePoint == 1114111

CONSTANT Inputs  \* the strings to encode
ASSUME InputsAssumption == Inputs \subseteq Seq(0..MaxCodePoint)

BASE         == 36
TMIN         == 1
TMAX         == 26
SKEW         == 38
DAMP         == 700
INITIAL_BIAS == 72
INITIAL_N    == 128

VARIABLES
  input, output,
  left,         \* pairs[i..]
  group,        \* the positions in pairs[group_start..i]
  placed,       \* the positions in the Fenwick tree
  n, delta, bias, handled,
  placedBelowM, prevC,
  pc

vars == <<input, output, left, group, placed, n, delta, bias, handled, placedBelowM,
          prevC, pc>>

RFC == INSTANCE Bootstring

DigitToChar(d) == IF d < 26 THEN 97 + d ELSE 48 + (d - 26)

Threshold(k, b) == IF k <= b THEN TMIN ELSE IF k >= b + TMAX THEN TMAX ELSE k - b

\* What push_delta appends: the digits of q from the round of k on.
Digits(d, b) ==
  LET digits[q \in 0..d] ==
        [k \in Nat |->
           LET t == Threshold(k, b)
           IN IF q < t THEN <<DigitToChar(q)>>
              ELSE <<DigitToChar(t + ((q - t) % (BASE - t)))>>
                     \o digits[(q - t) \div (BASE - t)][k + BASE]]
  IN digits[d][BASE]

Adapt(d, points, firstTime) ==
  LET damped == IF firstTime THEN d \div DAMP ELSE d \div 2
      start  == damped + damped \div points
      scale[x \in 0..start] ==
        IF x > ((BASE - TMIN) * TMAX) \div 2
        THEN BASE + scale[x \div (BASE - TMIN)]
        ELSE ((BASE - TMIN + 1) * x) \div (x + SKEW)
  IN scale[start]

Position == DOMAIN input
Basic    == {p \in Position : input[p] < INITIAL_N}

\* The part of the input at the positions in P, in the order of the input: the
\* k-th code point is that of the position with k positions of P up to it.
Rank(P, p)    == Cardinality({q \in P : q <= p})
Restricted(P) == [k \in 1..Cardinality(P) |-> input[CHOOSE p \in P : Rank(P, p) = k]]

\* placed.prefix_sum(p, 0)
PrefixSum(p) == Cardinality({q \in placed : q < p})

\* A wrong order of the pairs: the one of the input.
FirstInInput(s) == \A r \in left : s[2] <= r[2]

\* The pair s is pairs[i].
First(s) == \A r \in left : s[1] < r[1] \/ (s[1] = r[1] /\ s[2] <= r[2])

\* The pair s is pairs[i] and belongs to the group of n.
Occurs(s) == s \in left /\ First(s) /\ s[1] = n

\* The delta of the occurrence s.
DeltaOf(s) == delta + (PrefixSum(s[2]) - prevC)

---------------------------------------------------------------------------
Init ==
  /\ input \in Inputs
  /\ output = <<>> /\ left = {} /\ group = {} /\ placed = {}
  /\ n = INITIAL_N /\ delta = 0 /\ bias = INITIAL_BIAS /\ handled = 0
  /\ placedBelowM = 0 /\ prevC = 0
  /\ pc = "start"

\* The basic prefix, the pairs and the tree.
EmitBasic ==
  /\ pc = "start"
  /\ output'  = Restricted(Basic) \o (IF Basic = {} THEN <<>> ELSE <<RFC!Hyphen>>)
  /\ left'    = {<<input[p], p>> : p \in Position \ Basic}
  /\ placed'  = Basic
  /\ handled' = Cardinality(Basic)
  /\ pc' = IF left' = {} THEN "done" ELSE "values"
  /\ UNCHANGED <<input, group, n, delta, bias, placedBelowM, prevC>>

\* A wrong step to the next value: one decoder state short for each skipped value.
NextValueShort ==
  /\ pc = "values"
  /\ \E s \in left : /\ First(s)
                     /\ delta' = delta + (s[1] - n) * handled
                     /\ n' = s[1]
  /\ placedBelowM' = handled
  /\ prevC' = 0
  /\ group' = {}
  /\ pc' = "occurrences"
  /\ UNCHANGED <<input, output, left, placed, bias, handled>>

\* The outer loop advances n to the next value that is present.
NextValue ==
  /\ pc = "values"
  /\ \E s \in left : /\ First(s)
                     /\ delta' = delta + (s[1] - n) * (handled + 1)
                     /\ n' = s[1]
  /\ placedBelowM' = handled
  /\ prevC' = 0
  /\ group' = {}
  /\ pc' = "occurrences"
  /\ UNCHANGED <<input, output, left, placed, bias, handled>>

\* What an occurrence does, but for the tree.
Encode(s) ==
  /\ output'  = output \o Digits(DeltaOf(s), bias)
  /\ bias'    = Adapt(DeltaOf(s), handled + 1, handled = Cardinality(Basic))
  /\ delta'   = 0
  /\ prevC'   = PrefixSum(s[2])
  /\ handled' = handled + 1
  /\ left'    = left \ {s}
  /\ group'   = group \cup {s[2]}
  /\ UNCHANGED <<input, n, placedBelowM, pc>>

\* A wrong occurrence: it is placed at once, and not with its group.
OccurrencePlacing ==
  /\ pc = "occurrences"
  /\ \E s \in left : Occurs(s) /\ Encode(s) /\ placed' = placed \cup {s[2]}

\* The inner loop encodes the next occurrence of n.
Occurrence ==
  /\ pc = "occurrences"
  /\ \E s \in left : Occurs(s) /\ Encode(s)
  /\ UNCHANGED placed

\* A wrong end of the group: n stays.
EndOfValueKeepingN ==
  /\ pc = "occurrences"
  /\ \A s \in left : ~Occurs(s)
  /\ delta'  = (placedBelowM - prevC) + 1
  /\ placed' = placed \cup group
  /\ pc' = "values"
  /\ UNCHANGED <<input, output, left, group, n, bias, handled, placedBelowM, prevC>>

\* The carry into the next value; the group is placed.
EndOfValue ==
  /\ pc = "occurrences"
  /\ \A s \in left : ~Occurs(s)
  /\ delta'  = (placedBelowM - prevC) + 1
  /\ n'      = n + 1
  /\ placed' = placed \cup group
  /\ pc' = "values"
  /\ UNCHANGED <<input, output, left, group, bias, handled, placedBelowM, prevC>>

\* The outer loop ends.
Return ==
  /\ pc = "values" /\ left = {}
  /\ pc' = "done"
  /\ UNCHANGED <<input, output, left, group, placed, n, delta, bias, handled,
                 placedBelowM, prevC>>

Next == EmitBasic \/ NextValue \/ Occurrence \/ EndOfValue \/ Return

Spec == Init /\ [][Next]_vars

---------------------------------------------------------------------------
(* Properties *)

\* None of the three subtractions in encode underflows when it is reached.
NoUnderflow ==
  /\ pc = "values" => \A s \in left : First(s) => n <= s[1]
  /\ pc = "occurrences" =>
       /\ \A s \in left : Occurs(s) => prevC <= PrefixSum(s[2])
       /\ prevC <= placedBelowM

\* The deltas are within u64 for every input that fits in memory: each is less
\* than the number of non-basic code points times the length of the input.
DeltaFits ==
  pc = "occurrences" =>
    \A s \in left : Occurs(s) =>
      DeltaOf(s) < (MaxCodePoint + 1 - INITIAL_N) * Len(input)

\* At every moment the output so far is Punycode for the code points encoded so
\* far; at the end, for the whole input.
PrefixDecodes ==
  /\ pc # "start" => RFC!Decode(output) = Restricted(placed \cup group)
  /\ pc = "done"  => RFC!Decode(output) = input

---------------------------------------------------------------------------
(* The inductive invariant behind NoUnderflow, DeltaFits and PrefixDecodes *)

\* delta never exceeds the decoder states below n.
NumberInv ==
  /\ input \in Seq(0..MaxCodePoint)
  /\ {n, delta, handled, placedBelowM, prevC} \subseteq Nat
  /\ INITIAL_N <= n
  /\ delta <= (n - INITIAL_N) * (handled + 1)

StartInv ==
  pc = "start" => /\ left = {} /\ group = {} /\ placed = {}
                  /\ n = INITIAL_N /\ delta = 0 /\ bias = INITIAL_BIAS

\* What is left are the positions not yet encoded, none with a value below n.
LeftInv ==
  /\ pc = "done" => left = {}
  /\ pc # "start" => Position \ (placed \cup group) = {s[2] : s \in left}
  /\ \A s \in left : /\ s[2] \in Position \ (placed \cup group)
                     /\ s = <<input[s[2]], s[2]>>
                     /\ n <= s[1]

\* The counters count what the sets hold, and prevC is a prefix count that no
\* later occurrence falls behind.
CountInv ==
  /\ group \subseteq Position /\ placed \subseteq Position
  /\ pc = "values" => group \subseteq placed /\ handled = Cardinality(placed)
  /\ pc = "occurrences" =>
       /\ placed \cap group = {}
       /\ handled = Cardinality(placed) + Cardinality(group)
       /\ placedBelowM = Cardinality(placed)
       /\ prevC <= placedBelowM
       /\ \A s \in left : s[1] = n => prevC <= PrefixSum(s[2])

\* The decoder of the output stands at n once it has moved by delta: between the
\* values, at the first place of its text; within a value, behind the occurrence
\* last inserted.  It waits for an integer under the bias of encode, and the two
\* agree which integer is the first, which adapt treats apart.
DecoderInv ==
  /\ output \in Seq(Nat) /\ bias \in Nat
  /\ pc # "start" =>
       LET decoder == RFC!Reading(output)
       IN /\ decoder \in RFC!Reader
          /\ decoder.value = 0 /\ decoder.weight = 1 /\ decoder.k = BASE
          /\ decoder.bias = bias
          /\ handled >= Cardinality(Basic)
          /\ decoder.i = 0 <=> handled = Cardinality(Basic)
          /\ pc = "values" =>
               decoder.n * (handled + 1) + decoder.i + delta = n * (handled + 1)
          /\ pc = "occurrences" =>
               decoder.n * (handled + 1) + decoder.i + delta
                 = n * (handled + 1) + prevC + Cardinality(group)

\* A value that is entered occurs; its occurrences are taken from left to right.
GroupInv ==
  pc = "occurrences" =>
    /\ (group # {} /\ delta = 0) \/ (\E s \in left : Occurs(s))
    /\ \A s \in left : s[1] = n => \A p \in group : p < s[2]

IInv == NumberInv /\ StartInv /\ LeftInv /\ CountInv
          /\ PrefixDecodes /\ DecoderInv /\ GroupInv

===============================================================================
