----------------------------- MODULE TokenTable -----------------------------
(***************************************************************************)
(* What the caches of tokens promise: a token belongs to one user from the *)
(* moment it is issued, and every instance accepts some of the tokens that *)
(* have been issued, each for the user it belongs to.                      *)
(***************************************************************************)
CONSTANTS Instance, User, Token, Nobody

VARIABLES
    issued,   \* the tokens' owners
    accepted  \* accepted[i]: for whom instance i accepts them

Init ==
    /\ issued = [t \in Token |-> Nobody]
    /\ accepted = [i \in Instance |-> issued]

Issue(t, u) ==
    /\ issued[t] = Nobody
    /\ issued' = [issued EXCEPT ![t] = u]
    /\ UNCHANGED accepted

(* The choice of tokens is i's: it may learn of some and forget others.     *)
Choose(i, T) ==
    /\ accepted' = [accepted EXCEPT ![i] = [t \in Token |-> IF t \in T THEN issued[t] ELSE Nobody]]
    /\ UNCHANGED issued

Next ==
    \/ \E t \in Token, u \in User : Issue(t, u)
    \/ \E i \in Instance, T \in SUBSET Token : Choose(i, T)

Spec == Init /\ [][Next]_<<issued, accepted>>

=============================================================================
