--------------------------- MODULE FeedPageProofs ---------------------------
(* Proofs about FeedPage: for feeds, ints and sizes of any width.            *)
EXTENDS FeedPage, TLAPS, SequenceTheorems

IntRange == -MaxInt - 1 .. MaxInt

(* What an answer is: what LRANGE or the program cut out of the feed.        *)
CutByRedis   == \E stop \in StopsOfPage(offset, limit) : answer = LRange(feed, offset, stop)
CutByProgram == ~ Reversed(feed, offset, limit) /\ answer = LoadedPage(feed, offset, limit)

PageInv ==
    /\ feed \in Seq(Item) /\ Len(feed) <= MaxLen
    /\ offset \in IntRange /\ limit \in IntRange
    /\ at \in {"new", "hit", "miss"} => answer = <<>>
    /\ at = "hit" => listed \/ deleted
    /\ at = "done" => CutByRedis \/ CutByProgram \/ (deleted /\ answer = <<>>)
    /\ at = "failed" => answer = <<>> /\ Reversed(feed, offset, limit)
    /\ at \in {"new", "hit", "miss", "done", "failed"}

-----------------------------------------------------------------------------
(* What % does where the numbers of a request are not negative.              *)
LEMMA ModIsNothing ==
    ASSUME NEW n \in Nat, NEW x \in 0 .. n - 1
    PROVE  x % n = x
  OBVIOUS

LEMMA AsIntOfInt ==
    ASSUME NEW x \in IntRange
    PROVE  AsInt(x) = x
<1>1. x + MaxInt + 1 \in 0 .. (2 * MaxInt + 2) - 1 /\ 2 * MaxInt + 2 \in Nat
  BY WidthAssumption DEF IntRange
<1> QED
  BY <1>1, ModIsNothing, WidthAssumption DEF AsInt, IntRange

LEMMA AsSizeOfNat ==
    ASSUME NEW x \in 0 .. 2 * MaxInt + 1
    PROVE  AsSize(x) = x
  BY ModIsNothing, WidthAssumption DEF AsSize

LEMMA AsSizeOfNegative ==
    ASSUME NEW x \in IntRange, x < 0
    PROVE  AsSize(x) > MaxInt
<1>1. x + SizeT \in 0 .. SizeT - 1 /\ x + SizeT > MaxInt
  BY WidthAssumption DEF IntRange
<1>2. x % SizeT = x + SizeT
  BY <1>1, WidthAssumption DEF IntRange
<1> QED
  BY <1>1, <1>2 DEF AsSize

-----------------------------------------------------------------------------
(* A piece of a sequence, by the places of its first and its last element.   *)
LEMMA PieceOfSeq ==
    ASSUME NEW s \in Seq(Item), NEW m \in Int, NEW n \in Int, 1 <= m, n <= Len(s)
    PROVE  /\ SubSeq(s, m, n) \in Seq(Item)
           /\ m <= n => Len(SubSeq(s, m, n)) = n - m + 1
           /\ \A k \in 1 .. n - m + 1 : SubSeq(s, m, n)[k] = s[m + k - 1]
           /\ m > n => SubSeq(s, m, n) = <<>>
<1>1. \A k \in m .. n : s[k] \in Item
  OBVIOUS
<1> QED
  BY <1>1, SubSeqProperties, SubSeqEmpty

(* Every piece is part of the feed; and the piece from o + 1 on, up to the   *)
(* end of the page or of the feed, is the page.                              *)
IsPart(t, s) ==
    t = <<>> \/ \E b \in 0 .. Len(s) :
        b + Len(t) <= Len(s) /\ \A k \in DOMAIN t : t[k] = s[b + k]

LEMMA PieceIsPart ==
    ASSUME NEW s \in Seq(Item), NEW m \in Int, NEW n \in Int, 1 <= m, n <= Len(s)
    PROVE  IsPart(SubSeq(s, m, n), s)
<1>1. CASE m > n
  BY <1>1, PieceOfSeq DEF IsPart
<1>2. CASE m <= n
  <2>1. m - 1 \in 0 .. Len(s) /\ (m - 1) + Len(SubSeq(s, m, n)) <= Len(s)
    BY <1>2, PieceOfSeq
  <2>2. DOMAIN SubSeq(s, m, n) = 1 .. n - m + 1
    BY <1>2, PieceOfSeq
  <2>3. \A k \in DOMAIN SubSeq(s, m, n) : SubSeq(s, m, n)[k] = s[(m - 1) + k]
    <3> TAKE k \in DOMAIN SubSeq(s, m, n)
    <3>1. SubSeq(s, m, n)[k] = s[m + k - 1] /\ k \in Int
      BY <2>2, PieceOfSeq
    <3>2. m + k - 1 = (m - 1) + k
      BY <3>1
    <3> QED
      BY <3>1, <3>2
  <2> QED
    BY <2>1, <2>3 DEF IsPart
<1> QED
  BY <1>1, <1>2

LEMMA PieceIsPage ==
    ASSUME NEW s \in Seq(Item), NEW o \in Nat, NEW l \in Nat, l > 0
    PROVE  SubSeq(s, o + 1, Lesser(o + l, Len(s))) = Page(s, o, l)
<1> DEFINE n == Lesser(o + l, Len(s))
           t == SubSeq(s, o + 1, n)
<1>1. n \in Int /\ n <= Len(s) /\ Len(s) \in Nat
  BY DEF Lesser
<1>2. Greater(Lesser(l, Len(s) - o), 0) = IF o + 1 <= n THEN n - o ELSE 0
  BY DEF Greater, Lesser
<1>3. /\ t \in Seq(Item)
      /\ Len(t) = IF o + 1 <= n THEN n - o ELSE 0
      /\ \A k \in 1 .. n - o : t[k] = s[o + k]
  <2>1. n - (o + 1) + 1 = n - o /\ \A k \in 1 .. n - o : (o + 1) + k - 1 = o + k
    BY <1>1
  <2>2. /\ t \in Seq(Item)
        /\ o + 1 <= n => Len(t) = n - (o + 1) + 1
        /\ \A k \in 1 .. n - (o + 1) + 1 : t[k] = s[(o + 1) + k - 1]
        /\ o + 1 > n => t = <<>>
    BY <1>1, PieceOfSeq
  <2> QED
    BY <1>1, <2>1, <2>2
<1>4. t = [k \in 1 .. Len(t) |-> t[k]]
  BY <1>3
<1>5. \A k \in 1 .. Len(t) : t[k] = s[o + k]
  BY <1>1, <1>3
<1> QED
  BY <1>2, <1>3, <1>4, <1>5 DEF Page

-----------------------------------------------------------------------------
LEMMA InitPage == Init => PageInv
<1> SUFFICES ASSUME Init PROVE PageInv
  OBVIOUS
<1>1. PICK n \in 0 .. MaxLen : feed \in [1 .. n -> Item]
  BY DEF Init
<1>2. feed \in Seq(Item) /\ Len(feed) = n
  BY <1>1, WidthAssumption
<1> QED
  BY <1>1, <1>2, WidthAssumption DEF Init, PageInv, IntRange

LEMMA NextPage == PageInv /\ [Next]_vars => PageInv'
<1> SUFFICES ASSUME PageInv, [Next]_vars PROVE PageInv'
  OBVIOUS
<1> USE DEF PageInv
<1>1. CASE Exists
  BY <1>1 DEF Exists
<1>2. CASE Lrange
  <2>1. PICK stop \in StopsOfPage(offset, limit) :
            answer' = IF listed THEN LRange(feed, offset, stop) ELSE <<>>
    BY <1>2 DEF Lrange
  <2>2. at' = "done" /\ UNCHANGED <<feed, listed, offset, limit, deleted>>
    BY <1>2 DEF Lrange
  <2>3. CutByRedis' \/ (deleted' /\ answer' = <<>>)
    <3>1. CASE listed
      BY <2>1, <2>2, <3>1 DEF CutByRedis
    <3>2. CASE ~ listed
      BY <1>2, <2>1, <2>2, <3>2 DEF Lrange
    <3> QED
      BY <3>1, <3>2
  <2> QED
    BY <2>2, <2>3
<1>3. CASE AnswerLoaded
  <2>1. CASE Reversed(feed, offset, limit)
    BY <1>3, <2>1 DEF AnswerLoaded
  <2>2. CASE ~ Reversed(feed, offset, limit)
    BY <1>3, <2>2 DEF AnswerLoaded, CutByProgram
  <2> QED
    BY <2>1, <2>2
<1>4. CASE Invalidate
  <2>1. CutByRedis => CutByRedis'
    BY <1>4 DEF Invalidate, CutByRedis
  <2>2. CutByProgram => CutByProgram'
    BY <1>4 DEF Invalidate, CutByProgram
  <2> QED
    BY <1>4, <2>1, <2>2 DEF Invalidate
<1>5. CASE Fill
  <2>1. CutByRedis => CutByRedis'
    BY <1>5 DEF Fill, CutByRedis
  <2>2. CutByProgram => CutByProgram'
    BY <1>5 DEF Fill, CutByProgram
  <2> QED
    BY <1>5, <2>1, <2>2 DEF Fill
<1>6. CASE UNCHANGED vars
  BY <1>6 DEF vars, CutByRedis, CutByProgram
<1> QED
  BY <1>1, <1>2, <1>3, <1>4, <1>5, <1>6 DEF Next

(* What requests, commands of Redis and the program come to, always.         *)
THEOREM PageInvariant == Spec => []PageInv
<1>1. Init => PageInv
  BY InitPage
<1>2. PageInv /\ [Next]_vars => PageInv'
  BY NextPage
<1> QED
  BY <1>1, <1>2, PTL DEF Spec

-----------------------------------------------------------------------------
LEMMA StopsAreInts ==
    ASSUME PageInv, NEW stop \in StopsOfPage(offset, limit)
    PROVE  stop \in Int
  BY WidthAssumption DEF PageInv, StopsOfPage, AsInt, IntRange

(* LRANGE begins at 0 at the earliest and ends at the end of the list.       *)
LEMMA RedisCutsAPart ==
    ASSUME PageInv, NEW stop \in Int
    PROVE  IsPart(LRange(feed, offset, stop), feed)
<1> DEFINE m == Greater(FromEnd(feed, offset), 0) + 1
           n == Lesser(FromEnd(feed, stop) + 1, Len(feed))
<1>1. offset \in Int /\ feed \in Seq(Item) /\ Len(feed) \in Nat
  BY WidthAssumption DEF PageInv, IntRange
<1>2. m \in Int /\ n \in Int /\ 1 <= m /\ n <= Len(feed)
  BY <1>1 DEF Greater, Lesser, FromEnd
<1>3. IsPart(SubSeq(feed, m, n), feed)
  BY <1>1, <1>2, PieceIsPart
<1> QED
  BY <1>3 DEF LRange

LEMMA SizesAreNat ==
    ASSUME NEW x \in Int
    PROVE  AsSize(x) \in Nat
  BY WidthAssumption DEF AsSize

LEMMA ProgramCutsAPart ==
    ASSUME PageInv
    PROVE  IsPart(LoadedPage(feed, offset, limit), feed)
<1> DEFINE m == AsSize(offset) + 1
           n == Lesser(EndOfPage(offset, limit), Len(feed))
<1>1. offset \in Int /\ limit \in Int /\ feed \in Seq(Item) /\ Len(feed) \in Nat
  BY WidthAssumption DEF PageInv, IntRange
<1>2. AsSize(offset) \in Nat /\ EndOfPage(offset, limit) \in Nat
  BY <1>1, SizesAreNat DEF EndOfPage
<1>3. m \in Int /\ n \in Int /\ 1 <= m /\ n <= Len(feed)
  BY <1>1, <1>2 DEF Lesser
<1>4. IsPart(SubSeq(feed, m, n), feed)
  BY <1>1, <1>3, PieceIsPart
<1> QED
  BY <1>4 DEF LoadedPage

(* AnswerIsPartOfFeed: no answer invents, repeats or reorders posts, whatever *)
(* the numbers of the request and whether the list is hit or missed.         *)
THEOREM NothingInvented == Spec => []AnswerIsPartOfFeed
<1>1. PageInv => AnswerIsPartOfFeed
  <2> SUFFICES ASSUME PageInv PROVE IsPart(answer, feed)
    BY DEF AnswerIsPartOfFeed, IsPart
  <2>1. CASE answer = <<>>
    BY <2>1 DEF IsPart
  <2>2. CASE CutByRedis
    BY <2>2, StopsAreInts, RedisCutsAPart DEF CutByRedis
  <2>3. CASE CutByProgram
    BY <2>3, ProgramCutsAPart DEF CutByProgram
  <2> QED
    BY <2>1, <2>2, <2>3 DEF PageInv
<1> QED
  BY <1>1, PageInvariant, PTL

-----------------------------------------------------------------------------
(* A request as a user means it.                                             *)
Sensible == offset >= 0 /\ limit > 0 /\ offset + limit - 1 <= MaxInt

LEMMA RedisCutsThePage ==
    ASSUME PageInv, Sensible, CutByRedis
    PROVE  answer = Page(feed, offset, limit)
<1>1. offset \in Nat /\ limit \in Nat /\ limit > 0 /\ feed \in Seq(Item)
  BY WidthAssumption DEF PageInv, Sensible, IntRange
<1>2. offset + limit - 1 \in IntRange
  BY <1>1, WidthAssumption DEF Sensible, IntRange
<1>3. StopsOfPage(offset, limit) = {offset + limit - 1}
  BY <1>2, AsIntOfInt DEF StopsOfPage
<1>4. answer = LRange(feed, offset, offset + limit - 1)
  BY <1>3 DEF CutByRedis
<1>5. /\ Greater(FromEnd(feed, offset), 0) = offset
      /\ FromEnd(feed, offset + limit - 1) + 1 = offset + limit
  BY <1>1 DEF Greater, FromEnd
<1>6. LRange(feed, offset, offset + limit - 1) =
          SubSeq(feed, offset + 1, Lesser(offset + limit, Len(feed)))
  BY <1>5 DEF LRange
<1> QED
  BY <1>1, <1>4, <1>6, PieceIsPage

LEMMA ProgramCutsThePage ==
    ASSUME PageInv, Sensible, CutByProgram
    PROVE  answer = Page(feed, offset, limit)
<1>1. offset \in Nat /\ limit \in Nat /\ limit > 0 /\ feed \in Seq(Item)
  BY WidthAssumption DEF PageInv, Sensible, IntRange
<1>2. /\ offset \in 0 .. 2 * MaxInt + 1 /\ limit \in 0 .. 2 * MaxInt + 1
      /\ offset + limit \in 0 .. 2 * MaxInt + 1
  BY <1>1, WidthAssumption DEF PageInv, Sensible, IntRange
<1>3. AsSize(offset) = offset /\ EndOfPage(offset, limit) = offset + limit
  BY <1>2, AsSizeOfNat DEF EndOfPage
<1>4. answer = SubSeq(feed, offset + 1, Lesser(offset + limit, Len(feed)))
  BY <1>3 DEF CutByProgram, LoadedPage
<1> QED
  BY <1>1, <1>4, PieceIsPage

(* HitAndMissAgree: a request that makes sense gets the page it asks for,    *)
(* from Redis as from the program, unless its list was deleted after EXISTS. *)
THEOREM SamePage == Spec => []HitAndMissAgree
<1>1. PageInv => HitAndMissAgree
  BY RedisCutsThePage, ProgramCutsThePage DEF HitAndMissAgree, PageInv, Sensible
<1> QED
  BY <1>1, PageInvariant, PTL

(* FailsOnlyIfNegative: while neither number is negative their sum does not  *)
(* wrap, so the end of a page is not before its beginning; with a negative   *)
(* offset the page begins behind any feed.                                   *)
THEOREM NoOtherFailure == Spec => []FailsOnlyIfNegative
<1>1. PageInv => FailsOnlyIfNegative
  <2> SUFFICES ASSUME PageInv, at = "failed" PROVE limit < 0 /\ offset >= 0
    BY DEF FailsOnlyIfNegative
  <2>1. /\ offset \in IntRange /\ limit \in IntRange /\ Len(feed) \in Nat
        /\ Len(feed) <= MaxLen /\ AsSize(offset) < Len(feed)
        /\ EndOfPage(offset, limit) < AsSize(offset)
    BY DEF PageInv, Reversed
  <2>2. AsSize(offset) < MaxInt /\ AsSize(offset) \in Nat
    BY <2>1, SizesAreNat, WidthAssumption DEF IntRange
  <2>3. offset >= 0
    BY <2>1, <2>2, AsSizeOfNegative, WidthAssumption DEF IntRange
  <2>4. ~ (limit >= 0)
    <3> SUFFICES ASSUME limit >= 0 PROVE FALSE
      OBVIOUS
    <3>1. limit \in 0 .. 2 * MaxInt + 1 /\ AsSize(offset) + limit \in 0 .. 2 * MaxInt + 1
      BY <2>1, <2>2, WidthAssumption DEF IntRange
    <3>2. EndOfPage(offset, limit) = AsSize(offset) + limit
      BY <3>1, AsSizeOfNat DEF EndOfPage
    <3> QED
      BY <2>1, <2>2, <3>1, <3>2
  <2> QED
    BY <2>1, <2>3, <2>4, WidthAssumption DEF IntRange
<1> QED
  BY <1>1, PageInvariant, PTL

=============================================================================
