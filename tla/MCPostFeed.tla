----------------------------- MODULE MCPostFeed -----------------------------
(* Instances of PostFeed for TLC: the posts of one writer.                 *)
EXTENDS PostFeed, TLC

CONSTANTS ann, ben, eve, p1, p2, h1, h2, r1, r2

MCWriter  == {eve}
MCAuthor1 == [p \in {p1} |-> eve]
MCAuthor2 == [p \in {p1, p2} |-> eve]
MCOld1    == <<p1>>
MCOld     == <<>>
MCForAnn  == [r \in {r1, r2} |-> ann]
MCForOne  == [r \in {r1} |-> ann]

(* Handlers are interchangeable (for safety only). *)
MCHandlers == Permutations({h1, h2})
=============================================================================
