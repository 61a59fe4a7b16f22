------------------------------ MODULE FeedPage ------------------------------
(***************************************************************************)
(* What GetFeed answers: the page of a feed that `offset` and `limit` ask  *)
(* for, cut out by Redis (LRANGE) if the reader's list exists and by the   *)
(* program itself if it had to load the feed.  Both computations are of    *)
(* machine integers.  Filling the list is in PostFeed; here the list and   *)
(* what the database holds are the same feed.                              *)
(***************************************************************************)
EXTENDS Integers, Sequences

CONSTANTS
    Item,    \* posts
    MaxLen,  \* bound on the length of a feed
    MaxInt,  \* the largest int (2^31 - 1); the smallest is -MaxInt - 1
    SizeT    \* how many values a size_t has (2^64)

ASSUME WidthAssumption ==
    /\ MaxInt \in Nat /\ SizeT \in Nat /\ SizeT >= 2 * (MaxInt + 1)
    /\ MaxLen \in 0 .. MaxInt

VARIABLES
    feed,    \* what the database holds for the reader, newest first
    listed,  \* the reader's list exists
    offset, limit, \* the request, after std::stoi
    at,      \* "new", "hit", "miss", "done" or "failed" (500)
    answer,
    deleted  \* history: the list was deleted between EXISTS and LRANGE

vars == <<feed, listed, offset, limit, at, answer, deleted>>

-----------------------------------------------------------------------------
(* int arithmetic, as two's complement; size_t arithmetic. *)
AsInt(x)  == ((x + MaxInt + 1) % (2 * MaxInt + 2)) - MaxInt - 1
AsSize(x) == x % SizeT

Lesser(a, b)  == IF a < b THEN a ELSE b
Greater(a, b) == IF a < b THEN b ELSE a

(* LRANGE key start stop: a negative index counts from the end. *)
FromEnd(s, k) == IF k < 0 THEN Len(s) + k ELSE k
LRange(s, start, stop) ==
    SubSeq(s, Greater(FromEnd(s, start), 0) + 1, Lesser(FromEnd(s, stop) + 1, Len(s)))

(* Mutant: LRANGE offset offset + limit. *)
StopsOfPageInclusive(o, l) == {o + l, AsInt(o + l)}

(* The index of the last post of a page.  Where the int sum overflows, the  *)
(* compiler may wrap it or compute it with the 64 bits it is converted to.  *)
StopsOfPage(o, l) == {o + l - 1, AsInt(o + l - 1)}

(* Mutant: the end of the page is computed as an int. *)
EndInInt(o, l) == AsInt(o + l)

(* The index behind a page of a loaded feed; the sum may wrap to one before *)
(* the page.                                                                *)
EndOfPage(o, l) == AsSize(AsSize(o) + AsSize(l))

(* Mutant: it is not cut at the end of the feed; whatever is behind the     *)
(* feed in memory is read.                                                  *)
LoadedPageUncut(s, o, l) ==
    [k \in 1 .. Lesser(AsSize(l), MaxLen) |->
        IF AsSize(o) + k <= Len(s) THEN s[AsSize(o) + k] ELSE CHOOSE x \in Item : TRUE]

(* The slice of a feed that was loaded. *)
LoadedPage(s, o, l) == SubSeq(s, AsSize(o) + 1, Lesser(EndOfPage(o, l), Len(s)))

(* assign gets its iterators in reverse, and throws std::length_error.      *)
Reversed(s, o, l) == AsSize(o) < Len(s) /\ EndOfPage(o, l) < AsSize(o)

-----------------------------------------------------------------------------
(* stoi has rejected what is no int. *)
Init ==
    /\ \E n \in 0 .. MaxLen : feed \in [1 .. n -> Item]
    /\ listed \in IF feed = <<>> THEN {FALSE} ELSE BOOLEAN
    /\ offset \in -MaxInt - 1 .. MaxInt /\ limit \in -MaxInt - 1 .. MaxInt
    /\ at = "new" /\ answer = <<>> /\ deleted = FALSE

Exists ==
    /\ at = "new"
    /\ at' = IF listed THEN "hit" ELSE "miss"
    /\ UNCHANGED <<feed, listed, offset, limit, answer, deleted>>

Lrange ==
    /\ at = "hit"
    /\ \E stop \in StopsOfPage(offset, limit) :
           answer' = IF listed THEN LRange(feed, offset, stop) ELSE <<>>
    /\ at' = "done"
    /\ UNCHANGED <<feed, listed, offset, limit, deleted>>

(* A feed that is not empty is stored as the list. *)
AnswerLoaded ==
    /\ at = "miss"
    /\ IF Reversed(feed, offset, limit)
         THEN at' = "failed" /\ UNCHANGED answer
         ELSE at' = "done" /\ answer' = LoadedPage(feed, offset, limit)
    /\ listed' = (listed \/ feed # <<>>)
    /\ UNCHANGED <<feed, offset, limit, deleted>>

(* An invalidation. *)
Invalidate ==
    /\ listed
    /\ listed' = FALSE
    /\ deleted' = (deleted \/ at = "hit")
    /\ UNCHANGED <<feed, offset, limit, at, answer>>

(* Another request fills the list. *)
Fill ==
    /\ ~ listed /\ feed # <<>>
    /\ listed' = TRUE
    /\ UNCHANGED <<feed, offset, limit, at, answer, deleted>>

Next == Exists \/ Lrange \/ AnswerLoaded \/ Invalidate \/ Fill

Spec == Init /\ [][Next]_vars

-----------------------------------------------------------------------------
(* The limit posts after the first offset ones, as far as there are any.    *)
Page(s, o, l) ==
    [k \in 1 .. Greater(Lesser(l, Len(s) - o), 0) |-> s[o + k]]

(* LRANGE and the program cut the same page, the one that was asked for,    *)
(* out of a feed of any length, as long as the offset is not negative, the  *)
(* page is not empty and its last index is an int; only an invalidation     *)
(* after EXISTS makes the answer empty.                                     *)
HitAndMissAgree ==
    at = "done" /\ offset >= 0 /\ limit > 0 /\ offset + limit - 1 <= MaxInt =>
        answer = Page(feed, offset, limit) \/ (deleted /\ answer = <<>>)

(* Where offset + limit overflows, a hit may answer nothing, and for a      *)
(* limit of 0 it may answer the whole list; a negative number counts from   *)
(* the end if the list is hit and makes a large one if it is not.  But      *)
(* neither way of answering invents, repeats or reorders posts.             *)
AnswerIsPartOfFeed ==
    answer = <<>> \/ \E b \in 0 .. Len(feed) :
        /\ b + Len(answer) <= Len(feed)
        /\ \A k \in DOMAIN answer : answer[k] = feed[b + k]

(* However large the numbers of a request, the end of its page is never     *)
(* before its beginning, where the iterators would be in reverse, unless    *)
(* the limit is negative and the list was missed.                           *)
FailsOnlyIfNegative == at = "failed" => limit < 0 /\ offset >= 0

=============================================================================
