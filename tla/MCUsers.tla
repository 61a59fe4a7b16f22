------------------------------ MODULE MCUsers ------------------------------
(* An instance of Users for TLC: a digit has one bit, so a byte has two. *)
EXTENDS Users

CONSTANTS a, b

Chars == {a, b, Percent, Underscore, Backslash}

(* The byte of a number and the number of a byte. *)
Bits(n) == {k \in 0 .. 1 : (n \div 2^k) % 2 = 1}
Number(byte) == CHOOSE n \in 0 .. 3 : Bits(n) = byte

(* Passwords of at most two bytes, some with the same digest. *)
SomePasswords == {<<>>, <<{}>>, <<{0}>>, <<{0, 1}>>, <<{}, {1}>>, <<{0, 1}, {0, 1}>>}

(* A digest of one or two bytes, with collisions. *)
Value(s) == FoldLeft(LAMBDA v, x : 3 * v + Number(x) + 1, 0, s)
Digest(s) == IF Value(s) < 16 THEN <<Bits(Value(s))>>
             ELSE <<Bits(Value(s)), Bits(Value(s) \div 4)>>

(* Names with and without the characters that patterns give a meaning.     *)
SomeNames == {<<a, b>>, <<Percent>>, <<Backslash, b>>}
SomeArguments == UNION {[1 .. n -> Chars] : n \in 0 .. 1}
                     \cup {<<a, b>>, <<Backslash, Percent>>, <<Backslash, b>>, <<b, a>>}

=============================================================================
