------------------------------ MODULE Bootstring ------------------------------
(***************************************************************************)
(* The decoder of RFC 3492 (6.1, 6.2) with the parameters of Punycode: what  *)
(* an encoded string means.  A string is the sequence of its code points.    *)
(***************************************************************************)
EXTENDS Integers, Sequences

Hyphen == 45

\* The digits are a to z, then 0 to 9.
DigitOf(c) == IF c >= 97 THEN c - 97 ELSE c - 48 + 26

ThresholdAt(k, bias) ==
  IF k <= bias + 1 THEN 1 ELSE IF k >= bias + 26 THEN 26 ELSE k - bias

NextBias(d, points, isFirst) ==
  LET halved == IF isFirst THEN d \div 700 ELSE d \div 2
      start  == halved + halved \div points
      shrunk[x \in 0..start] ==
        IF x <= 455 THEN (36 * x) \div (x + 38) ELSE 36 + shrunk[x \div 35]
  IN shrunk[start]

---------------------------------------------------------------------------
(* A decoder reads its text one digit at a time.  It stands at the pair (n, i) *)
(* of a code point and a place in the text; value, weight and k are of the     *)
(* integer it is reading.                                                      *)

Reader == [n : Nat, i : Nat, text : Seq(Nat), bias : Nat,
           value : Nat, weight : Nat, k : Nat]

FirstReader(literal) ==
  [n |-> 128, i |-> 0, text |-> literal, bias |-> 72, value |-> 0, weight |-> 1, k |-> 36]

\* An integer d has been read: move d pairs on, insert the code point come to, and
\* stand behind it.
Inserted(r, d) ==
  LET size == Len(r.text) + 1
      c == r.n + (r.i + d) \div size
      j == (r.i + d) % size
  IN [n |-> c, i |-> j + 1,
      text |-> SubSeq(r.text, 1, j) \o <<c>> \o SubSeq(r.text, j + 1, Len(r.text)),
      bias |-> NextBias(d, size, r.i = 0), value |-> 0, weight |-> 1, k |-> 36]

Read(r, c) ==
  LET d == DigitOf(c)
      t == ThresholdAt(r.k, r.bias)
      value == r.value + d * r.weight
  IN IF d < t THEN Inserted(r, value)
     ELSE [r EXCEPT !.value = value, !.weight = @ * (36 - t), !.k = @ + 36]

\* The text before the last hyphen is literal.
LastHyphen(s) ==
  LET hyphens == {p \in DOMAIN s : s[p] = Hyphen}
  IN CHOOSE p \in hyphens \cup {0} : \A q \in hyphens : q <= p

\* The decoder that has read s.
Reading(s) ==
  LET literal == LastHyphen(s)
      after[p \in 0..Len(s)] ==
        IF p <= literal THEN FirstReader(SubSeq(s, 1, literal - 1))
        ELSE Read(after[p - 1], s[p])
  IN after[Len(s)]

Decode(s) == Reading(s).text

===============================================================================
