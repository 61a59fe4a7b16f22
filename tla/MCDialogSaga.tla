---------------------------- MODULE MCDialogSaga ----------------------------
(* Instances of DialogSaga for TLC: two messages from bob to alice.        *)
EXTENDS DialogSaga, TLC

CONSTANTS alice, bob, m1, m2

MCUser == {alice, bob}
MCMsg  == {m1, m2}
MCMsg1 == {m1}
MCFrom == [m \in MCMsg |-> bob]
MCTo   == [m \in MCMsg |-> alice]
MCFrom1 == [m \in MCMsg1 |-> bob]
MCTo1   == [m \in MCMsg1 |-> alice]

MCOpened == {<<alice, bob>>}

=============================================================================
