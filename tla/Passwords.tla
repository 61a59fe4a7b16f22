----------------------------- MODULE Passwords -----------------------------
(***************************************************************************)
(* PasswordHasher.  A user's row holds the salt and the salted hash as     *)
(* hexadecimal text; a login decodes both, hashes the password it was      *)
(* given and compares the digests.  The hash itself is a parameter.        *)
(***************************************************************************)
EXTENDS Integers, Sequences, FiniteSets, SequencesExt

CONSTANTS
    Width,     \* bits of a hexadecimal digit (4); two digits are a byte
    SaltLen,   \* length of a salt (16)
    Password,  \* the passwords that clients send, as sequences of bytes
    SlowHash(_)  \* PasswordHasher::SlowHash with its number of iterations

(* A byte, or a digit, is the set of its bits that are 1. *)
Digit == SUBSET (0 .. Width - 1)
Byte == SUBSET (0 .. 2 * Width - 1)
Salt == [1 .. SaltLen -> Byte]

ASSUME PasswordAssumption ==
    /\ Width \in Nat /\ SaltLen \in Nat
    /\ Password \subseteq Seq(Byte)
    /\ \A pw \in Password, salt \in Salt : SlowHash(pw \o salt) \in Seq(Byte)

-----------------------------------------------------------------------------
(* The two digits of a byte. *)
High(b) == {k \in 0 .. Width - 1 : k + Width \in b}
Low(b) == b \cap 0 .. Width - 1

(* Mutant: without setw(2) and setfill('0'). *)
DigitsUnpadded(b) == IF High(b) = {} THEN <<Low(b)>> ELSE <<High(b), Low(b)>>

Digits(b) == <<High(b), Low(b)>>

ToHex(data) == FlattenSeq([k \in DOMAIN data |-> Digits(data[k])])

(* FromHex throws for an odd number of digits. *)
IsHex(hex) == Len(hex) % 2 = 0
FromHex(hex) == [k \in 1 .. Len(hex) \div 2 |->
                    {i + Width : i \in hex[2 * k - 1]} \cup hex[2 * k]]

(* Mutant: `result = a[i] ^ b[i]`. *)
DifferenceOfLast(result, x, y) == SymDiff(x, y)

(* The differing bits found so far. *)
Difference(result, x, y) == result \cup SymDiff(x, y)

ConstantTimeCompare(a, b) ==
    LET result[k \in 0 .. Len(a)] ==
            IF k = 0 THEN {} ELSE Difference(result[k - 1], a[k], b[k])
    IN  Len(a) = Len(b) /\ result[Len(a)] = {}

VerifyPassword(pw, salt, hash) == ConstantTimeCompare(SlowHash(pw \o salt), hash)

=============================================================================
