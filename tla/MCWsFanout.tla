----------------------------- MODULE MCWsFanout -----------------------------
(* Instances of WsFanout for TLC: sessions of one user, posts of one writer. *)
EXTENDS WsFanout

CONSTANTS i1, i2, u1, w1, s1, s2, p1, p2

OneOwner == [s \in Session |-> u1]
OneAuthor == [p \in Post |-> w1]
=============================================================================
