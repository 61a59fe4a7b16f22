--------------------------- MODULE Announcements ---------------------------
(***************************************************************************)
(* What PostFeedConsumer promises the exchange ws-fanout: the event of a   *)
(* post is published to it once, and again only after its handling failed  *)
(* or its channel broke.  PostFeed implements this; WsFanout is built on   *)
(* it.                                                                     *)
(***************************************************************************)
EXTENDS Naturals

CONSTANTS
    Post,
    MaxRepeats  \* bound on the repetitions

VARIABLES
    times,   \* times[p]: how often the event of p was published
    repeats  \* publications that were not a post's first

Init ==
    /\ times \in [Post -> {0, 1}]
    /\ repeats = 0

Announce(p) ==
    /\ times' = [times EXCEPT ![p] = @ + 1]
    /\ repeats' = repeats + (IF times[p] = 0 THEN 0 ELSE 1)
    /\ repeats' <= MaxRepeats

Next == \E p \in Post : Announce(p)

Spec == Init /\ [][Next]_<<times, repeats>>

=============================================================================
