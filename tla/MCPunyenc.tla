------------------------------ MODULE MCPunyenc ------------------------------
(* Punyenc for all short strings over a few code points. *)
EXTENDS Punyenc

CONSTANTS Alphabet, MaxLength

Strings == UNION {[1..len -> Alphabet] : len \in 0..MaxLength}

===============================================================================
