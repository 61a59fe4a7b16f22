--------------------------- MODULE Notifications ---------------------------
(***************************************************************************)
(* What live notifications promise, whatever carries them: a connected     *)
(* session whose owner follows the author is told of a post, nobody else   *)
(* is, and a repetition has a mishap to blame.  Readers of the database    *)
(* may be shown older friendships than the latest.                         *)
(***************************************************************************)
EXTENDS Naturals, FiniteSets

CONSTANTS Session, User, Writer, Post, Owner, Author

VARIABLES
    views,     \* the friendships that a reader of the database may be shown
    announced, \* posts whose event was published
    may,       \* <<u, p>>: u may be told of p
    owed,      \* <<s, p>>: s is to be told of p
    told,      \* told[s][p]: how often s was told of p
    mishaps    \* what has gone wrong so far

vars == <<views, announced, may, owed, told, mishaps>>

Follows(f, u, p) == <<u, Author[p]>> \in f

(* Whom some view shows as a follower of an author, for each of the posts.  *)
Followers(v, posts) == {h \in User \X posts : \E f \in v : Follows(f, h[1], h[2])}

Init ==
    /\ \E f \in SUBSET (User \X Writer) : views = {f}
    /\ announced = {} /\ may = {} /\ owed = {}
    /\ told = [s \in Session |-> [p \in Post |-> 0]]
    /\ mishaps = 0

(* Friendships change, or a replica catches up: a session stops being owed  *)
(* a post only if some view shows its owner as no follower.                 *)
Change ==
    /\ views' # {}
    /\ may' = may \cup Followers(views', announced)
    /\ owed' \subseteq owed
    /\ \A d \in owed \ owed' : \E f \in views' : ~ Follows(f, Owner[d[1]], d[2])
    /\ UNCHANGED <<announced, told, mishaps>>

(* A post is owed to sessions whose owners follow its author in every view. *)
Announce(p) ==
    /\ announced' = announced \cup {p}
    /\ may' = may \cup Followers(views, {p})
    /\ owed \subseteq owed'
    /\ \A d \in owed' \ owed : d[2] = p /\ \A f \in views : Follows(f, Owner[d[1]], p)
    /\ mishaps' >= mishaps
    /\ UNCHANGED <<views, told>>

Tell(s, p) ==
    /\ <<Owner[s], p>> \in may
    /\ told[s][p] <= mishaps
    /\ told' = [told EXCEPT ![s][p] = @ + 1]
    /\ owed' = owed \ {<<s, p>>}
    /\ UNCHANGED <<views, announced, may, mishaps>>

(* Sessions end, or something breaks and takes all that they are owed.      *)
Mishap ==
    /\ mishaps' >= mishaps
    /\ \E S \in SUBSET Session : owed' = {d \in owed : d[1] \notin S}
    /\ UNCHANGED <<views, announced, may, told>>

Next ==
    \/ Change
    \/ \E p \in Post : Announce(p)
    \/ \E s \in Session, p \in Post : Tell(s, p)
    \/ Mishap

Spec == Init /\ [][Next]_vars

(* What is owed is told in the end, or ceases to be owed. *)
Kept == \A s \in Session, p \in Post : <<s, p>> \in owed ~> <<s, p>> \notin owed

=============================================================================
