---------------------------- MODULE MCAuthCache ----------------------------
(* Instances of AuthCache for TLC. *)
EXTENDS AuthCache, TLC

CONSTANTS i1, i2, u1, u2, l1, l2, t1, t2

OneUserEach == (l1 :> u1) @@ (l2 :> u2)
OneEach     == (l1 :> i1) @@ (l2 :> i2)

=============================================================================
