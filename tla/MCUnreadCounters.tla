-------------------------- MODULE MCUnreadCounters --------------------------
(* Instances of UnreadCounters for TLC.                                    *)
EXTENDS UnreadCounters, TLC

LOCAL INSTANCE Functions

CONSTANTS alice, bob, m1, m2, m3

MCUser == {alice, bob}
MCMsg2 == {m1, m2}
MCMsg3 == {m1, m2, m3}

(* m1 and m2 go from bob to alice, m3 is a note of alice to herself.       *)
MCFrom == [m \in {m1, m2, m3} |-> IF m = m3 THEN alice ELSE bob]
MCTo   == [m \in {m1, m2, m3} |-> alice]
MCFrom2 == [m \in {m1, m2} |-> bob]
MCTo2   == [m \in {m1, m2} |-> alice]

(* The cardinality of the units is the sum of the fields.                  *)
ASSUME SumIsTheSum ==
    \A f \in [{alice, bob, m1} -> 0 .. 3] :
        Sum(f) = FoldFunction(LAMBDA x, y : x + y, 0, f)
=============================================================================
