--------------------------- MODULE PostFeedProofs ---------------------------
(* Proofs about PostFeed, for any number of readers, posts, handlers,        *)
(* requests and faults, any length of feeds and any replication lag.         *)
EXTENDS PostFeed, TLAPS, SequenceTheorems, FunctionTheorems, FiniteSetTheorems

-----------------------------------------------------------------------------
(* Counting: what FeedOf's Nth finds.                                        *)
UpTo(R, i) == {j \in R : j <= i}

LEMMA LeastNatural ==
    ASSUME NEW T \in SUBSET Nat, T # {}
    PROVE  \E i \in T : \A j \in T : i <= j
<1>1. PICK i \in T : \A j \in T : ~ (<<j, i>> \in OpToRel(<, Nat))
  BY NatLessThanWellFounded, WFMin
<1>2. \A j \in T : ~ (j < i)
  BY <1>1 DEF OpToRel
<1> QED
  BY <1>2

LEMMA UpToFinite ==
    ASSUME NEW n \in Nat, NEW R \in SUBSET (1 .. n), NEW i \in Int
    PROVE  IsFiniteSet(UpTo(R, i)) /\ Cardinality(UpTo(R, i)) \in Nat
<1>1. IsFiniteSet(1 .. n)
  BY FS_Interval
<1>2. UpTo(R, i) \in SUBSET (1 .. n)
  BY DEF UpTo
<1> QED
  BY <1>1, <1>2, FS_Subset, FS_CardinalityType

LEMMA NthExists ==
    ASSUME NEW n \in Nat, NEW R \in SUBSET (1 .. n), NEW k \in 1 .. Cardinality(R)
    PROVE  /\ IsFiniteSet(R) /\ Cardinality(R) \in Nat
           /\ Nth(R, k) \in R
           /\ Cardinality(UpTo(R, Nth(R, k))) = k
<1> DEFINE T == {i \in Nat : Cardinality(UpTo(R, i)) >= k}
<1>1. UpTo(R, n) = R /\ UpTo(R, 0) = {}
  <2>1. \A j \in R : j \in Nat /\ j <= n /\ ~ (j <= 0)
    OBVIOUS
  <2>2. UpTo(R, n) = R
    BY <2>1 DEF UpTo
  <2>3. UpTo(R, 0) = {}
    BY <2>1 DEF UpTo
  <2> QED
    BY <2>2, <2>3
<1>2. IsFiniteSet(R) /\ Cardinality(R) \in Nat
  <2>1. n \in Int
    OBVIOUS
  <2>2. IsFiniteSet(UpTo(R, n)) /\ Cardinality(UpTo(R, n)) \in Nat
    BY <2>1, UpToFinite
  <2> QED
    BY <1>1, <2>2
<1>3. n \in T
  BY <1>1, <1>2
<1>4. PICK i \in T : \A j \in T : i <= j
  BY <1>3, LeastNatural
<1>5. i # 0
  <2>1. Cardinality(UpTo(R, 0)) = 0
    BY <1>1, FS_EmptySet
  <2> QED
    BY <1>4, <2>1
<1>6. i - 1 \in Nat /\ i - 1 \notin T
  BY <1>4, <1>5
<1>7. /\ Cardinality(UpTo(R, i - 1)) < k
      /\ IsFiniteSet(UpTo(R, i - 1)) /\ Cardinality(UpTo(R, i - 1)) \in Nat
      /\ Cardinality(UpTo(R, i)) >= k
      /\ Cardinality(UpTo(R, i)) \in Nat
  <2>1. i \in Int /\ i - 1 \in Int
    BY <1>4
  <2>2. Cardinality(UpTo(R, i - 1)) \in Nat /\ Cardinality(UpTo(R, i)) \in Nat /\ IsFiniteSet(UpTo(R, i - 1))
    BY <2>1, UpToFinite
  <2> QED
    BY <1>4, <1>6, <2>2
<1>8. i \in R /\ UpTo(R, i) = UpTo(R, i - 1) \cup {i}
  <2>1. \A j \in R : j \in Nat /\ (j <= i <=> j <= i - 1 \/ j = i)
    BY <1>4
  <2>2. i \in R
    <3>1. i \notin R => UpTo(R, i) = UpTo(R, i - 1)
      BY <2>1 DEF UpTo
    <3> QED
      BY <3>1, <1>7
  <2>3. UpTo(R, i) = UpTo(R, i - 1) \cup {i}
    <3>1. ~ (i <= i - 1) /\ i <= i
      BY <1>4
    <3> QED
      BY <2>1, <2>2, <3>1 DEF UpTo
  <2> QED
    BY <2>2, <2>3
<1>9. Cardinality(UpTo(R, i)) = Cardinality(UpTo(R, i - 1)) + 1
  <2>1. i \notin UpTo(R, i - 1)
    BY <1>4 DEF UpTo
  <2> QED
    BY <1>7, <1>8, <2>1, FS_AddElement
<1>10. Cardinality(UpTo(R, i)) = k
  BY <1>7, <1>9
<1> QED
  BY <1>2, <1>8, <1>10 DEF Nth, UpTo

-----------------------------------------------------------------------------
(* Sequences of entries.                                                     *)
Once(L) == \A i, j \in DOMAIN L : L[i].post = L[j].post => i = j

LEMMA TakeProperties ==
    ASSUME NEW S, NEW s \in Seq(S), NEW n \in Nat
    PROVE  /\ Take(s, n) \in Seq(S)
           /\ Len(Take(s, n)) = IF Len(s) < n THEN Len(s) ELSE n
           /\ \A i \in 1 .. Len(Take(s, n)) : Take(s, n)[i] = s[i]
           /\ Len(s) <= n => Take(s, n) = s
<1> DEFINE m == IF Len(s) < n THEN Len(s) ELSE n
<1>1. m \in Nat /\ m <= Len(s)
  OBVIOUS
<1>2. \A i \in 1 .. m : s[i] \in S
  BY <1>1
<1>3. /\ SubSeq(s, 1, m) \in Seq(S)
      /\ Len(SubSeq(s, 1, m)) = IF 1 <= m THEN m - 1 + 1 ELSE 0
      /\ \A i \in 1 .. m - 1 + 1 : SubSeq(s, 1, m)[i] = s[1 + i - 1]
  BY <1>1, <1>2, SubSeqProperties
<1>4. Take(s, n) = SubSeq(s, 1, m)
  BY DEF Take
<1>5. Len(s) <= n => SubSeq(s, 1, m) = s
  BY SubSeqFull
<1> QED
  BY <1>1, <1>3, <1>4, <1>5

Databases == [log : Seq(Entries), follows : SUBSET (Reader \X Writer)]

LEMMA FeedOfType ==
    ASSUME NEW d \in Databases, NEW u \in Reader
    PROVE  /\ FeedOf(d, u) \in Seq(Entries)
           /\ Len(FeedOf(d, u)) <= MaxFeed
           /\ Once(d.log) => Once(FeedOf(d, u))
           /\ \A i \in DOMAIN FeedOf(d, u) : \E j \in DOMAIN d.log : FeedOf(d, u)[i] = d.log[j]
<1> DEFINE R == RowsFor(d, u)
           n == Cardinality(R)
           m == IF n < MaxFeed THEN n ELSE MaxFeed
<1>1. d.log \in Seq(Entries) /\ Len(d.log) \in Nat /\ DOMAIN d.log = 1 .. Len(d.log)
  BY DEF Databases
<1>2. R \in SUBSET (1 .. Len(d.log))
  BY <1>1 DEF RowsFor
<1>3. n \in Nat /\ m \in Nat /\ m <= n /\ m <= MaxFeed
  <2>1. IsFiniteSet(1 .. Len(d.log))
    BY <1>1, FS_Interval
  <2>2. n \in Nat
    BY <1>2, <2>1, FS_Subset, FS_CardinalityType
  <2> QED
    BY <2>2, FeedBoundAssumption
<1>4. \A k \in 1 .. m : Nth(R, k) \in R /\ Cardinality(UpTo(R, Nth(R, k))) = k
  <2>1. \A k \in 1 .. m : k \in 1 .. Cardinality(R)
    BY <1>3
  <2> HIDE DEF R
  <2> QED
    BY <1>1, <1>2, <2>1, NthExists
<1>5. \A k \in 1 .. m : d.log[Nth(R, k)] \in Entries /\ Nth(R, k) \in DOMAIN d.log
  BY <1>1, <1>2, <1>4
<1>6. FeedOf(d, u) = [k \in 1 .. m |-> d.log[Nth(R, k)]]
  BY DEF FeedOf
<1>7. FeedOf(d, u) \in Seq(Entries) /\ Len(FeedOf(d, u)) = m /\ DOMAIN FeedOf(d, u) = 1 .. m
  BY <1>3, <1>5, <1>6
<1>8. ASSUME Once(d.log), NEW k \in 1 .. m, NEW l \in 1 .. m,
             FeedOf(d, u)[k].post = FeedOf(d, u)[l].post
      PROVE  k = l
  <2>1. Nth(R, k) = Nth(R, l)
    BY <1>5, <1>6, <1>8 DEF Once
  <2> QED
    BY <1>4, <2>1
<1> QED
  BY <1>3, <1>5, <1>6, <1>7, <1>8 DEF Once

-----------------------------------------------------------------------------
(* The type invariant in parts.  Beyond FeedTypeOK: no state of the database *)
(* holds a post twice, or one that nobody has created; nor do a request's    *)
(* rows repeat a post; a handler is at one follower at a time.               *)
BusyTask ==
    [at : {"start", "loop", "push", "trim"}, post : Post, todo : SUBSET Reader,
     now : SUBSET Reader, own : BOOLEAN]
EditType == [at : {"idle", "written", "read"}, keys : SUBSET Reader]
GetType  == [at : {"idle", "load", "fill", "trim"}, rows : Seq(Entries)]

WalType == wal \in Seq(Databases) /\ Len(wal) \in 1 .. MaxLag + 1
LogInv ==
    \A d \in States :
        Once(d.log) /\ \A i \in DOMAIN d.log : create[d.log[i].post] # "new"
PathType ==
    /\ create \in [Post -> {"new", "inserted", "ok", "error"}]
    /\ queue \subseteq Post /\ times \in [Post -> Nat]
    /\ topology \in {{}, Declared}
TaskInv ==
    /\ task \in [Handler -> {FreeTask} \cup BusyTask]
    /\ \A h \in Handler : Busy(h) =>
        /\ task[h].now \subseteq task[h].todo
        /\ task[h].at \in {"start", "loop"} => task[h].now = {}
        /\ task[h].at \in {"push", "trim"} => \E u \in Reader : task[h].now = {u}
ListType == cache \in [Reader -> Seq(Entries)]
AskInv ==
    /\ edit \in [Post -> EditType]
    /\ link \in [Reader -> {"idle", "written"}]
    /\ get \in [Request -> GetType]
    /\ \A r \in Request :
        /\ Len(get[r].rows) <= MaxFeed /\ Once(get[r].rows)
        /\ get[r].at = "fill" <=> get[r].rows # <<>>
FaultType   == faults \in Nat /\ faults <= MaxFaults
HistoryType == warm \subseteq Reader \X Post /\ raced \subseteq Reader

TypeInv ==
    /\ WalType /\ LogInv /\ PathType /\ TaskInv
    /\ ListType /\ AskInv /\ FaultType /\ HistoryType

-----------------------------------------------------------------------------
(* Which steps change what.                                                  *)
LEMMA WhoWrites ==
    ASSUME Next
    PROVE  \/ UNCHANGED wal
           \/ Replicate
           \/ \E p \in Post : Insert(p) \/ UpdatePost(p) \/ DeletePost(p)
           \/ \E u \in Reader, w \in Writer : Follow(u, w) \/ Unfollow(u, w)
  BY DEF Next, Creating, Handling, Serving, Getting, Editing, Linking, ConstructPublisher,
         Publish, PublishThrows, TakeEvent, ReadFollowers, CheckKey, PushPost, TrimFeed,
         FanOut, HandlerThrows, LoseChannel, BeginGet, LoadFeed, FillFeed, TrimFilled,
         GetThrows, ReadEdited, InvalidateEdited, EditThrows, InvalidateLinked, LinkThrows

LEMMA WhoCreates ==
    ASSUME Next
    PROVE  \/ UNCHANGED create
           \/ \E p \in Post : Insert(p) \/ Publish(p) \/ PublishThrows(p)
  BY DEF Next, Creating, Handling, Serving, Getting, Editing, Linking, ConstructPublisher,
         TakeEvent, ReadFollowers, CheckKey, PushPost, TrimFeed, FanOut, HandlerThrows,
         LoseChannel, BeginGet, LoadFeed, FillFeed, TrimFilled, GetThrows, UpdatePost,
         DeletePost, ReadEdited, InvalidateEdited, EditThrows, Follow, Unfollow, WriteLink,
         InvalidateLinked, LinkThrows, Replicate, pathVars

LEMMA WhoHandles ==
    ASSUME Next
    PROVE  UNCHANGED <<task, times>> \/ Handling
  BY DEF Next, Creating, Getting, Editing, Linking, ConstructPublisher, Insert, Publish,
         PublishThrows, BeginGet, LoadFeed, FillFeed, TrimFilled, GetThrows, UpdatePost,
         DeletePost, ReadEdited, InvalidateEdited, EditThrows, Follow, Unfollow, WriteLink,
         InvalidateLinked, LinkThrows, Replicate, pathVars

LEMMA WhoQueues ==
    ASSUME Next
    PROVE  UNCHANGED queue \/ Handling \/ \E p \in Post : Publish(p) \/ PublishThrows(p)
  BY DEF Next, Creating, Getting, Editing, Linking, ConstructPublisher, Insert,
         BeginGet, LoadFeed, FillFeed, TrimFilled, GetThrows, UpdatePost,
         DeletePost, ReadEdited, InvalidateEdited, EditThrows, Follow, Unfollow, WriteLink,
         InvalidateLinked, LinkThrows, Replicate, pathVars

LEMMA WhoLists ==
    ASSUME Next
    PROVE  \/ UNCHANGED cache
           \/ \E h \in Handler : HandlerThrows(h) \/ \E u \in Reader : PushPost(h, u) \/ TrimFeed(h, u)
           \/ \E r \in Request : FillFeed(r) \/ TrimFilled(r) \/ GetThrows(r)
           \/ \E p \in Post : InvalidateEdited(p) \/ EditThrows(p)
           \/ \E u \in Reader : InvalidateLinked(u) \/ LinkThrows(u)
  BY DEF Next, Creating, Handling, Serving, Getting, Editing, Linking, ConstructPublisher,
         Insert, Publish, PublishThrows, TakeEvent, ReadFollowers, CheckKey, FanOut,
         LoseChannel, BeginGet, LoadFeed, UpdatePost, DeletePost, ReadEdited, Follow,
         Unfollow, WriteLink, Replicate

LEMMA WhoAsks ==
    ASSUME Next
    PROVE  UNCHANGED askVars \/ Getting \/ Editing \/ Linking
  BY DEF Next, Creating, Handling, Serving, ConstructPublisher, Insert, Publish, PublishThrows,
         TakeEvent, ReadFollowers, CheckKey, PushPost, TrimFeed, FanOut, HandlerThrows,
         LoseChannel, Replicate, askVars

LEMMA WhoFails ==
    ASSUME Next
    PROVE  UNCHANGED faults \/ Fault
  BY DEF Next, Creating, Handling, Serving, Getting, Editing, Linking, ConstructPublisher,
         Insert, Publish, PublishThrows, TakeEvent, ReadFollowers, CheckKey, PushPost, TrimFeed,
         FanOut, HandlerThrows, LoseChannel, BeginGet, LoadFeed, FillFeed, TrimFilled,
         GetThrows, UpdatePost, DeletePost, ReadEdited, InvalidateEdited, EditThrows, Follow,
         Unfollow, WriteLink, InvalidateLinked, LinkThrows, Replicate

LEMMA WhoDeclares ==
    ASSUME Next
    PROVE  UNCHANGED topology \/ ConstructPublisher
  BY DEF Next, Creating, Handling, Serving, Getting, Editing, Linking,
         Insert, Publish, PublishThrows, TakeEvent, ReadFollowers, CheckKey, PushPost, TrimFeed,
         FanOut, HandlerThrows, LoseChannel, BeginGet, LoadFeed, FillFeed, TrimFilled,
         GetThrows, UpdatePost, DeletePost, ReadEdited, InvalidateEdited, EditThrows, Follow,
         Unfollow, WriteLink, InvalidateLinked, LinkThrows, Replicate, pathVars

LEMMA WhoWarms ==
    ASSUME Next
    PROVE  \/ warm' \subseteq warm
           \/ \E p \in Post : Insert(p)
  BY DEF Next, Creating, Handling, Serving, Getting, Editing, Linking, ConstructPublisher,
         Publish, PublishThrows, TakeEvent, ReadFollowers, CheckKey, PushPost, TrimFeed,
         FanOut, HandlerThrows, LoseChannel, BeginGet, LoadFeed, FillFeed, TrimFilled,
         GetThrows, UpdatePost, DeletePost, ReadEdited, InvalidateEdited, EditThrows, Follow,
         Unfollow, WriteLink, InvalidateLinked, LinkThrows, Replicate, DeleteLists

-----------------------------------------------------------------------------
(* The database.                                                             *)
LEMMA MasterIsRead == WalType => db \in States /\ db \in Databases /\ States \subseteq Databases
  BY DEF WalType, States, db

LEMMA PostsOfLog ==
    ASSUME NEW d \in Databases, NEW i \in DOMAIN d.log
    PROVE  d.log[i] \in Entries /\ d.log[i].post \in Post
<1>1. d.log \in Seq(Entries)
  BY DEF Databases
<1>2. d.log[i] \in Entries
  BY <1>1
<1> QED
  BY <1>2 DEF Entries

LEMMA WriteEffect ==
    ASSUME WalType, NEW d \in Databases, Write(d)
    PROVE  WalType' /\ States' \subseteq States \cup {d} /\ db' = d
<1>1. CASE Len(wal) <= MaxLag
  <2>1. wal' = Append(wal, d)
    BY <1>1 DEF Write
  <2>2. /\ wal' \in Seq(Databases) /\ Len(wal') = Len(wal) + 1
        /\ \A k \in 1 .. Len(wal) : wal'[k] = wal[k]
        /\ wal'[Len(wal) + 1] = d
    BY <2>1 DEF WalType
  <2> QED
    <3>1. Len(wal) \in Nat /\ MaxLag \in Nat
      BY FeedBoundAssumption DEF WalType
    <3>2. Len(wal') \in 1 .. MaxLag + 1 /\ DOMAIN wal = 1 .. Len(wal)
          /\ DOMAIN wal' = 1 .. Len(wal) + 1
      BY <1>1, <2>2, <3>1 DEF WalType
    <3>3. \A k \in DOMAIN wal' : (k \in DOMAIN wal /\ wal'[k] = wal[k]) \/ wal'[k] = d
      BY <2>2, <3>1, <3>2
    <3>4. States' \subseteq States \cup {d}
      BY <3>3 DEF States
    <3> QED
      BY <2>2, <3>2, <3>4 DEF WalType, db
<1>2. CASE ~ (Len(wal) <= MaxLag)
  <2>1. wal' = Append(Tail(wal), d) /\ wal # <<>>
    BY <1>2, FeedBoundAssumption DEF Write, WalType
  <2>2. /\ Tail(wal) \in Seq(Databases) /\ Len(Tail(wal)) = Len(wal) - 1
        /\ \A k \in 1 .. Len(wal) - 1 : Tail(wal)[k] = wal[k + 1] /\ k + 1 \in DOMAIN wal
    BY <2>1 DEF WalType
  <2>3. /\ wal' \in Seq(Databases) /\ Len(wal') = Len(wal)
        /\ \A k \in 1 .. Len(wal) - 1 : wal'[k] = wal[k + 1] /\ k + 1 \in DOMAIN wal
        /\ wal'[Len(wal)] = d
    BY <2>1, <2>2 DEF WalType
  <2> QED
    <3>1. Len(wal) \in 1 .. MaxLag + 1 /\ MaxLag \in Nat
      BY FeedBoundAssumption DEF WalType
    <3>2. DOMAIN wal = 1 .. Len(wal) /\ DOMAIN wal' = 1 .. Len(wal)
      BY <2>3, <3>1 DEF WalType
    <3>3. \A k \in 1 .. Len(wal) : k = Len(wal) \/ k \in 1 .. Len(wal) - 1
      BY <3>1
    <3>4. \A k \in DOMAIN wal' : (\E j \in DOMAIN wal : wal'[k] = wal[j]) \/ wal'[k] = d
      BY <2>3, <3>2, <3>3
    <3>5. States' \subseteq States \cup {d}
      BY <3>4 DEF States
    <3>6. WalType'
      BY <2>3, <3>1 DEF WalType
    <3>7. db' = d
      BY <2>3 DEF db
    <3> QED
      BY <3>5, <3>6, <3>7
<1> QED
  BY <1>1, <1>2

LEMMA ReplicateEffect ==
    ASSUME WalType, Replicate
    PROVE  WalType' /\ States' \subseteq States
<1>1. wal' = Tail(wal) /\ Len(wal) > 1
  BY DEF Replicate
<1>2. wal' \in Seq(Databases) /\ Len(wal') = Len(wal) - 1
  BY <1>1 DEF WalType
<1>3. \A k \in 1 .. Len(wal') : wal'[k] = wal[k + 1] /\ k + 1 \in DOMAIN wal
  BY <1>1, <1>2 DEF WalType
<1> QED
  BY <1>1, <1>2, <1>3, FeedBoundAssumption DEF WalType, States

(* What an INSERT, an UPDATE and a DELETE make of the posts.                 *)
LEMMA InsertedLog ==
    ASSUME NEW L \in Seq(Entries), Once(L), NEW p \in Post,
           \A i \in DOMAIN L : L[i].post # p
    PROVE  LET M == <<Entry(p, 0)>> \o L
           IN  /\ M \in Seq(Entries) /\ Once(M)
               /\ \A i \in DOMAIN M : M[i].post = p \/ \E j \in DOMAIN L : M[i].post = L[j].post
<1> DEFINE e == Entry(p, 0)
           M == <<e>> \o L
<1>1. e \in Entries /\ e.post = p
  BY DEF Entry, Entries
<1>2. <<e>> \in Seq(Entries) /\ Len(<<e>>) = 1 /\ <<e>>[1] = e
  BY <1>1
<1>3. /\ M \in Seq(Entries) /\ Len(M) = 1 + Len(L)
      /\ \A i \in 1 .. 1 + Len(L) : M[i] = IF i <= 1 THEN e ELSE L[i - 1]
  <2> HIDE DEF e
  <2>1. /\ M \in Seq(Entries) /\ Len(M) = Len(<<e>>) + Len(L)
        /\ \A i \in 1 .. Len(<<e>>) + Len(L) : M[i] = IF i <= Len(<<e>>) THEN <<e>>[i] ELSE L[i - Len(<<e>>)]
    BY <1>2, ConcatProperties
  <2> QED
    BY <1>2, <2>1
<1>4. \A i \in 1 .. 1 + Len(L) : i = 1 \/ (i - 1 \in DOMAIN L /\ ~ (i <= 1))
  OBVIOUS
<1>5. M[1] = e /\ \A i \in DOMAIN M : i = 1 \/ (i - 1 \in DOMAIN L /\ M[i] = L[i - 1])
  <2> HIDE DEF M, e
  <2> QED
    BY <1>3, <1>4
<1>6. Once(M)
  <2> HIDE DEF M, e
  <2>1. \A i \in DOMAIN M : i \in Int
    BY <1>3
  <2> QED
    BY <1>1, <1>5, <2>1 DEF Once
<1>7. \A i \in DOMAIN M : M[i].post = p \/ \E j \in DOMAIN L : M[i].post = L[j].post
  <2> HIDE DEF M, e
  <2> QED
    BY <1>1, <1>5
<1> QED
  BY <1>3, <1>6, <1>7

LEMMA UpdatedLog ==
    ASSUME NEW L \in Seq(Entries), Once(L), NEW p \in Post
    PROVE  LET M == [i \in DOMAIN L |-> IF L[i].post = p THEN Entry(p, 1) ELSE L[i]]
           IN  /\ M \in Seq(Entries) /\ Once(M)
               /\ \A i \in DOMAIN M : \E j \in DOMAIN L : M[i].post = L[j].post
<1> DEFINE M == [i \in DOMAIN L |-> IF L[i].post = p THEN Entry(p, 1) ELSE L[i]]
<1>1. \A i \in DOMAIN L : L[i] \in Entries
  OBVIOUS
<1>2. \A i \in DOMAIN L : M[i] \in Entries /\ M[i].post = L[i].post
  BY <1>1 DEF Entry, Entries
<1>3. M \in Seq(Entries) /\ DOMAIN M = DOMAIN L
  BY <1>2
<1> QED
  BY <1>2, <1>3 DEF Once

LEMMA DeletedLog ==
    ASSUME NEW L \in Seq(Entries), Once(L), NEW k \in DOMAIN L
    PROVE  LET M == SubSeq(L, 1, k - 1) \o SubSeq(L, k + 1, Len(L))
           IN  /\ M \in Seq(Entries) /\ Once(M)
               /\ \A i \in DOMAIN M : \E j \in DOMAIN L : M[i].post = L[j].post
<1> DEFINE A == SubSeq(L, 1, k - 1)
           B == SubSeq(L, k + 1, Len(L))
           M == A \o B
<1>1. k \in 1 .. Len(L) /\ Len(L) \in Nat
  OBVIOUS
<1>2. /\ A \in Seq(Entries) /\ Len(A) = k - 1
      /\ \A i \in 1 .. k - 1 : A[i] = L[i]
  <2>1. \A i \in 1 .. k - 1 : L[i] \in Entries
    BY <1>1
  <2>2. /\ A \in Seq(Entries) /\ Len(A) = IF 1 <= k - 1 THEN k - 1 - 1 + 1 ELSE 0
        /\ \A i \in 1 .. k - 1 - 1 + 1 : A[i] = L[1 + i - 1]
    BY <1>1, <2>1, SubSeqProperties
  <2> QED
    BY <1>1, <2>2
<1>3. /\ B \in Seq(Entries) /\ Len(B) = Len(L) - k
      /\ \A i \in 1 .. Len(L) - k : B[i] = L[k + i]
  <2>1. \A i \in k + 1 .. Len(L) : L[i] \in Entries
    BY <1>1
  <2>2. /\ B \in Seq(Entries) /\ Len(B) = IF k + 1 <= Len(L) THEN Len(L) - (k + 1) + 1 ELSE 0
        /\ \A i \in 1 .. Len(L) - (k + 1) + 1 : B[i] = L[k + 1 + i - 1]
    BY <1>1, <2>1, SubSeqProperties
  <2> QED
    BY <1>1, <2>2
<1> HIDE DEF A, B
<1>4. /\ M \in Seq(Entries) /\ Len(M) = Len(L) - 1
      /\ \A i \in 1 .. Len(L) - 1 : M[i] = IF i <= k - 1 THEN L[i] ELSE L[i + 1]
  <2>1. /\ M \in Seq(Entries) /\ Len(M) = Len(A) + Len(B)
        /\ \A i \in 1 .. Len(A) + Len(B) : M[i] = IF i <= Len(A) THEN A[i] ELSE B[i - Len(A)]
    BY <1>2, <1>3, ConcatProperties
  <2> HIDE DEF M
  <2>2. Len(M) = Len(L) - 1
    BY <1>1, <1>2, <1>3, <2>1
  <2>3. ASSUME NEW i \in 1 .. Len(L) - 1
        PROVE  M[i] = IF i <= k - 1 THEN L[i] ELSE L[i + 1]
    <3>1. M[i] = IF i <= k - 1 THEN A[i] ELSE B[i - (k - 1)]
      <4>1. Len(A) = k - 1 /\ i \in 1 .. Len(A) + Len(B)
        BY <1>1, <1>2, <1>3
      <4> QED
        BY <2>1, <4>1
    <3>2. CASE i <= k - 1
      BY <1>1, <1>2, <3>1, <3>2
    <3>3. CASE ~ (i <= k - 1)
      <4>1. i - (k - 1) \in 1 .. Len(L) - k /\ k + (i - (k - 1)) = i + 1
        BY <1>1, <3>3
      <4> QED
        BY <1>3, <3>1, <3>3, <4>1
    <3> QED
      BY <3>2, <3>3
  <2> QED
    BY <2>1, <2>2, <2>3
<1> HIDE DEF M
<1> DEFINE src(i) == IF i <= k - 1 THEN i ELSE i + 1
<1>5. \A i \in DOMAIN M : src(i) \in DOMAIN L /\ M[i] = L[src(i)]
  BY <1>1, <1>4
<1>6. Once(M)
  <2>1. \A i, j \in DOMAIN M : src(i) = src(j) => i = j
    BY <1>1, <1>4
  <2> QED
    BY <1>5, <2>1 DEF Once
<1>7. \A i \in DOMAIN M : \E j \in DOMAIN L : M[i].post = L[j].post
  BY <1>5
<1> QED
  BY <1>4, <1>6, <1>7 DEF M, A, B

(* A state of the database that follows from the latest one.                 *)
Successor(d) ==
    /\ d \in Databases /\ Once(d.log)
    /\ \A i \in DOMAIN d.log : create'[d.log[i].post] # "new"

LEMMA NextWal ==
    ASSUME TypeInv, Next
    PROVE  WalType' /\ LogInv'
<1> USE DEF TypeInv
<1>0. /\ db \in States /\ db \in Databases /\ db.log \in Seq(Entries) /\ Once(db.log)
      /\ \A i \in DOMAIN db.log : db.log[i].post \in Post /\ create[db.log[i].post] # "new"
  <2>1. db \in States /\ db \in Databases /\ db.log \in Seq(Entries)
    BY MasterIsRead DEF Databases
  <2>2. \A i \in DOMAIN db.log : db.log[i].post \in Post
    BY <2>1, PostsOfLog
  <2> QED
    BY <2>1, <2>2 DEF LogInv
<1>1. \A p \in Post : create[p] # "new" => create'[p] # "new"
  BY WhoCreates DEF Insert, Publish, PublishThrows, PathType
<1>2. ASSUME NEW d, Successor(d), Write(d)
      PROVE  WalType' /\ LogInv'
  <2>1. WalType' /\ States' \subseteq States \cup {d}
    BY <1>2, WriteEffect DEF Successor
  <2>2. \A e \in States : \A i \in DOMAIN e.log : e.log[i].post \in Post
    BY MasterIsRead, PostsOfLog
  <2> QED
    BY <1>1, <1>2, <2>1, <2>2 DEF LogInv, Successor
<1>3. ASSUME NEW p \in Post, Insert(p)
      PROVE  WalType' /\ LogInv'
  <2> DEFINE M == <<Entry(p, 0)>> \o db.log
             d == [db EXCEPT !.log = M]
  <2>1. create[p] = "new" /\ Write(d) /\ create' = [create EXCEPT ![p] = "inserted"]
    BY <1>3 DEF Insert
  <2>2. /\ M \in Seq(Entries) /\ Once(M)
        /\ \A i \in DOMAIN M : M[i].post = p \/ \E j \in DOMAIN db.log : M[i].post = db.log[j].post
    <3>1. \A i \in DOMAIN db.log : db.log[i].post # p
      BY <1>0, <2>1
    <3> QED
      BY <1>0, <3>1, InsertedLog
  <2>3. create'[p] = "inserted"
    BY <2>1 DEF PathType
  <2>4. d \in Databases /\ d.log = M
    <3> HIDE DEF M
    <3> QED
      BY <1>0, <2>2 DEF Databases
  <2>5. Successor(d)
    <3> HIDE DEF M, d
    <3> QED
      BY <1>0, <1>1, <2>2, <2>3, <2>4 DEF Successor
  <2> QED
    BY <1>2, <2>1, <2>5
<1>4. ASSUME NEW p \in Post, UpdatePost(p)
      PROVE  WalType' /\ LogInv'
  <2> DEFINE M == [i \in DOMAIN db.log |-> IF db.log[i].post = p THEN Entry(p, 1) ELSE db.log[i]]
             d == [db EXCEPT !.log = M]
  <2>1. Write(d)
    BY <1>4 DEF UpdatePost
  <2>2. /\ M \in Seq(Entries) /\ Once(M)
        /\ \A i \in DOMAIN M : \E j \in DOMAIN db.log : M[i].post = db.log[j].post
    BY <1>0, UpdatedLog
  <2>3. d \in Databases /\ d.log = M
    <3> HIDE DEF M
    <3> QED
      BY <1>0, <2>2 DEF Databases
  <2>4. Successor(d)
    <3> HIDE DEF M, d
    <3> QED
      BY <1>0, <1>1, <2>2, <2>3 DEF Successor
  <2> QED
    BY <1>2, <2>1, <2>4
<1>5. ASSUME NEW p \in Post, DeletePost(p)
      PROVE  WalType' /\ LogInv'
  <2>1. PICK k \in DOMAIN db.log :
            Write([db EXCEPT !.log = SubSeq(@, 1, k - 1) \o SubSeq(@, k + 1, Len(@))])
    BY <1>5 DEF DeletePost
  <2> DEFINE M == SubSeq(db.log, 1, k - 1) \o SubSeq(db.log, k + 1, Len(db.log))
             d == [db EXCEPT !.log = M]
  <2>2. /\ M \in Seq(Entries) /\ Once(M)
        /\ \A i \in DOMAIN M : \E j \in DOMAIN db.log : M[i].post = db.log[j].post
    BY <1>0, DeletedLog
  <2>3. d \in Databases /\ d.log = M
    <3> HIDE DEF M
    <3> QED
      BY <1>0, <2>2 DEF Databases
  <2>4. Successor(d)
    <3> HIDE DEF M, d
    <3> QED
      BY <1>0, <1>1, <2>2, <2>3 DEF Successor
  <2> QED
    BY <1>2, <2>1, <2>4
<1>6. ASSUME NEW u \in Reader, NEW w \in Writer, Follow(u, w) \/ Unfollow(u, w)
      PROVE  WalType' /\ LogInv'
  <2>1. PICK f \in {db.follows \cup {<<u, w>>}, db.follows \ {<<u, w>>}} : WriteLink(u, f)
    BY <1>6 DEF Follow, Unfollow
  <2>2. CASE UNCHANGED wal
    BY <2>1, <2>2 DEF WriteLink, WalType, LogInv, States, pathVars
  <2>3. CASE Write([db EXCEPT !.follows = f])
    <3>1. f \subseteq Reader \X Writer
      BY <1>0, <2>1 DEF Databases
    <3>2. [db EXCEPT !.follows = f] \in Databases /\ [db EXCEPT !.follows = f].log = db.log
      BY <1>0, <3>1 DEF Databases
    <3>3. Successor([db EXCEPT !.follows = f])
      BY <1>0, <1>1, <3>2 DEF Successor
    <3> QED
      BY <1>2, <2>3, <3>3
  <2> QED
    BY <2>1, <2>2, <2>3 DEF WriteLink
<1>7. CASE Replicate
  <2>1. WalType' /\ States' \subseteq States /\ create' = create
    BY <1>7, ReplicateEffect DEF Replicate, pathVars
  <2> QED
    BY <2>1 DEF LogInv
<1>8. CASE UNCHANGED wal
  <2>1. \A e \in States : \A i \in DOMAIN e.log : e.log[i].post \in Post
    BY MasterIsRead, PostsOfLog
  <2>2. States' = States /\ WalType'
    BY <1>8 DEF States, WalType
  <2> QED
    BY <1>1, <2>1, <2>2 DEF LogInv
<1> QED
  BY <1>3, <1>4, <1>5, <1>6, <1>7, <1>8, WhoWrites

-----------------------------------------------------------------------------
(* The path of an event.                                                     *)
LEMMA BusyType ==
    ASSUME TaskInv, NEW h \in Handler, Busy(h)
    PROVE  /\ task[h] \in BusyTask
           /\ task[h].post \in Post /\ task[h].todo \subseteq Reader
           /\ task[h].now \subseteq task[h].todo
           /\ task[h].at \in {"start", "loop"} => task[h].now = {}
           /\ task[h].at \in {"push", "trim"} => \E u \in Reader : task[h].now = {u}
           /\ task[h].own \in BOOLEAN
           /\ task[h].at \in {"start", "loop", "push", "trim"}
  BY DEF TaskInv, BusyTask, Busy, FreeTask

LEMMA RequeuedType ==
    ASSUME TaskInv, PathType, NEW h \in Handler, Busy(h)
    PROVE  Requeued(h) \subseteq Post
  BY BusyType DEF Requeued, PathType

LEMMA FailureCounted ==
    ASSUME FaultType, Fault
    PROVE  faults' = faults + 1 /\ faults' \in Nat /\ faults' <= MaxFaults
  BY FeedBoundAssumption DEF FaultType, Fault

LEMMA NextPath ==
    ASSUME TypeInv, Next
    PROVE  PathType'
<1> USE DEF TypeInv
<1>1. create' \in [Post -> {"new", "inserted", "ok", "error"}]
  BY WhoCreates DEF PathType, Insert, Publish, PublishThrows
<1>2. topology' \in {{}, Declared}
  BY WhoDeclares DEF PathType, ConstructPublisher, Declared
<1>3. queue' \subseteq Post
  <2>1. ASSUME NEW p \in Post, Publish(p) \/ PublishThrows(p) PROVE queue' \subseteq Post
    BY <2>1 DEF Publish, PublishThrows, Enqueued, PathType
  <2>2. CASE Handling
    <3>1. ASSUME NEW h \in Handler, NEW p \in Post, TakeEvent(h, p) PROVE queue' \subseteq Post
      BY <3>1 DEF TakeEvent, PathType
    <3>2. ASSUME NEW h \in Handler, Serving(h) PROVE queue' \subseteq Post
      BY <3>2 DEF Serving, ReadFollowers, CheckKey, PushPost, TrimFeed, FanOut, Acked, PathType
    <3>3. ASSUME NEW h \in Handler, HandlerThrows(h) PROVE queue' \subseteq Post
      BY <3>3, RequeuedType DEF HandlerThrows
    <3>4. ASSUME NEW h \in Handler, LoseChannel(h) PROVE queue' \subseteq Post
      BY <3>4, BusyType DEF LoseChannel, PathType
    <3> QED
      BY <2>2, <3>1, <3>2, <3>3, <3>4 DEF Handling
  <2> QED
    BY <2>1, <2>2, WhoQueues DEF PathType
<1>4. times' \in [Post -> Nat]
  <2>1. ASSUME NEW h \in Handler, Sends(h) /\ SentOnce(h) PROVE times' \in [Post -> Nat]
    <3>1. task[h].post \in Post
      BY <2>1, BusyType DEF Sends, Busy
    <3> QED
      BY <2>1, <3>1 DEF SentOnce, PathType
  <2>2. CASE Handling
    <3>1. UNCHANGED times \/ \E h \in Handler : Sends(h) /\ SentOnce(h)
      BY <2>2 DEF Handling, TakeEvent, Serving, ReadFollowers, CheckKey, PushPost, TrimFeed,
                  FanOut, HandlerThrows, LastEffect, LoseChannel
    <3> QED
      BY <2>1, <3>1 DEF PathType
  <2> QED
    BY <2>2, WhoHandles DEF PathType
<1> QED
  BY <1>1, <1>2, <1>3, <1>4 DEF PathType

LEMMA NextTask ==
    ASSUME TypeInv, Next
    PROVE  TaskInv'
<1> USE DEF TypeInv
<1>1. CASE UNCHANGED task
  BY <1>1 DEF TaskInv, Busy
<1>2. ASSUME NEW h \in Handler, NEW t \in {FreeTask} \cup BusyTask, task' = [task EXCEPT ![h] = t],
             t.at # "free" =>
                 /\ t.now \subseteq t.todo
                 /\ t.at \in {"start", "loop"} => t.now = {}
                 /\ t.at \in {"push", "trim"} => \E u \in Reader : t.now = {u}
      PROVE  TaskInv'
  <2>1. task'[h] = t /\ \A g \in Handler \ {h} : task'[g] = task[g]
    BY <1>2 DEF TaskInv
  <2>2. task' \in [Handler -> {FreeTask} \cup BusyTask]
    BY <1>2 DEF TaskInv
  <2> QED
    BY <1>2, <2>1, <2>2 DEF TaskInv, Busy
<1>3. ASSUME NEW h \in Handler, NEW p \in Post, TakeEvent(h, p)
      PROVE  TaskInv'
  <2>1. NewTask(p) \in BusyTask /\ NewTask(p).now = {} /\ NewTask(p).at = "start"
    BY DEF NewTask, BusyTask
  <2> QED
    BY <1>2, <1>3, <2>1 DEF TakeEvent
<1>4. ASSUME NEW h \in Handler, Busy(h),
             NEW at \in {"loop", "push", "trim"}, NEW now \in SUBSET Reader, NEW todo \in SUBSET Reader,
             Goto(h, at, now, todo), now \subseteq todo, at = "loop" => now = {},
             at # "loop" => \E u \in Reader : now = {u}
      PROVE  TaskInv'
  <2> DEFINE t == [task[h] EXCEPT !.at = at, !.now = now, !.todo = todo]
  <2>1. task[h] \in BusyTask
    BY <1>4, BusyType
  <2>2. t \in BusyTask /\ t.at = at /\ t.now = now /\ t.todo = todo
    BY <2>1 DEF BusyTask
  <2>3. task' = [task EXCEPT ![h] = t]
    BY <1>4 DEF Goto, TaskInv
  <2> HIDE DEF t
  <2> QED
    BY <1>2, <1>4, <2>2, <2>3
<1>5. ASSUME NEW h \in Handler, Serving(h)
      PROVE  TaskInv'
  <2>1. CASE ReadFollowers(h)
    <3>1. Busy(h)
      BY <2>1 DEF ReadFollowers, Busy
    <3>2. PICK d \in States : Goto(h, "loop", {}, FollowersOf(d, Author[task[h].post]))
      BY <2>1 DEF ReadFollowers
    <3>3. FollowersOf(d, Author[task[h].post]) \in SUBSET Reader
      BY DEF FollowersOf
    <3> QED
      BY <1>4, <3>1, <3>2, <3>3
  <2>2. ASSUME NEW u \in Reader, CheckKey(h, u)
        PROVE  TaskInv'
    <3>1. Busy(h) /\ u \in task[h].todo
      BY <2>2 DEF CheckKey, Busy
    <3>2. task[h].todo \in SUBSET Reader /\ Others(h, u) \in SUBSET Reader
      BY <3>1, BusyType DEF Others
    <3>3. Goto(h, "push", {u}, task[h].todo) \/ Goto(h, "loop", {}, Others(h, u))
      BY <2>2 DEF CheckKey
    <3> QED
      BY <1>4, <3>1, <3>2, <3>3
  <2>3. ASSUME NEW u \in Reader, PushPost(h, u)
        PROVE  TaskInv'
    <3>1. Busy(h) /\ u \in task[h].now
      BY <2>3 DEF PushPost, At, Busy
    <3>2. task[h].todo \in SUBSET Reader /\ u \in task[h].todo
      BY <3>1, BusyType
    <3> QED
      BY <1>4, <2>3, <3>1, <3>2 DEF PushPost
  <2>4. ASSUME NEW u \in Reader, TrimFeed(h, u)
        PROVE  TaskInv'
    <3>1. Busy(h)
      BY <2>4 DEF TrimFeed, At, Busy
    <3>2. task[h].todo \ {u} \in SUBSET Reader
      BY <3>1, BusyType
    <3> QED
      BY <1>4, <2>4, <3>1, <3>2 DEF TrimFeed
  <2>5. CASE FanOut(h)
    BY <1>2, <2>5 DEF FanOut, FreeTask
  <2> QED
    BY <1>5, <2>1, <2>2, <2>3, <2>4, <2>5 DEF Serving
<1>6. ASSUME NEW h \in Handler, HandlerThrows(h)
      PROVE  TaskInv'
  BY <1>2, <1>6 DEF HandlerThrows, FreeTask
<1>7. ASSUME NEW h \in Handler, LoseChannel(h)
      PROVE  TaskInv'
  <2> DEFINE t == [task[h] EXCEPT !.own = FALSE]
  <2>1. Busy(h)
    BY <1>7 DEF LoseChannel
  <2>2. /\ t \in BusyTask
        /\ t.at = task[h].at /\ t.now = task[h].now /\ t.todo = task[h].todo
    BY <2>1, BusyType DEF BusyTask
  <2>3. task' = [task EXCEPT ![h] = t]
    BY <1>7 DEF LoseChannel, TaskInv
  <2> HIDE DEF t
  <2>4. /\ t.now \subseteq t.todo
        /\ t.at \in {"start", "loop"} => t.now = {}
        /\ t.at \in {"push", "trim"} => \E u \in Reader : t.now = {u}
    BY <2>1, <2>2, BusyType
  <2> QED
    BY <1>2, <2>2, <2>3, <2>4
<1> QED
  BY <1>1, <1>3, <1>5, <1>6, <1>7, WhoHandles DEF Handling

-----------------------------------------------------------------------------
(* The lists.                                                                *)
LEMMA ListsType ==
    ASSUME TypeInv
    PROVE  /\ \A h \in Handler, u \in Reader : Busy(h) => Pushed(h, u) \in [Reader -> Seq(Entries)]
           /\ \A r \in Request : Filled(r) \in [Reader -> Seq(Entries)]
           /\ \A u \in Reader :
               /\ Trimmed(cache[u]) \in Seq(Entries)
               /\ [cache EXCEPT ![u] = Trimmed(@)] \in [Reader -> Seq(Entries)]
<1> USE DEF TypeInv, ListType
<1>1. ASSUME NEW h \in Handler, NEW u \in Reader, Busy(h)
      PROVE  Pushed(h, u) \in [Reader -> Seq(Entries)]
  <2>1. <<Entry(task[h].post, 0)>> \in Seq(Entries)
    <3>1. Entry(task[h].post, 0) \in Entries
      BY <1>1, BusyType DEF Entry, Entries
    <3> QED
      BY <3>1
  <2>2. <<Entry(task[h].post, 0)>> \o cache[u] \in Seq(Entries)
    BY <2>1, ConcatProperties
  <2> QED
    BY <2>2 DEF Pushed
<1>2. ASSUME NEW r \in Request
      PROVE  Filled(r) \in [Reader -> Seq(Entries)]
  <2>1. For[r] \in Reader /\ get[r].rows \in Seq(Entries)
    BY PostAssumption DEF AskInv, GetType
  <2>2. cache[For[r]] \o get[r].rows \in Seq(Entries)
    BY <2>1, ConcatProperties
  <2> QED
    BY <2>2 DEF Filled
<1>3. ASSUME NEW u \in Reader
      PROVE  /\ Trimmed(cache[u]) \in Seq(Entries)
             /\ [cache EXCEPT ![u] = Trimmed(@)] \in [Reader -> Seq(Entries)]
  <2>1. Trimmed(cache[u]) \in Seq(Entries)
    BY TakeProperties, FeedBoundAssumption DEF Trimmed
  <2> QED
    BY <2>1
<1> QED
  BY <1>1, <1>2, <1>3

LEMMA NextLists ==
    ASSUME TypeInv, Next
    PROVE  ListType'
<1>1. \A us : (cache' = [u \in Reader |-> IF u \in us THEN Absent ELSE cache[u]]) => ListType'
  BY DEF TypeInv, ListType, Absent
<1>2. \A us : DeleteLists(us) => ListType'
  BY <1>1 DEF DeleteLists
<1>3. UNCHANGED cache => ListType'
  BY DEF TypeInv, ListType
<1>4. ASSUME NEW h \in Handler, HandlerThrows(h) \/ \E u \in Reader : PushPost(h, u) \/ TrimFeed(h, u)
      PROVE  ListType'
  <2>1. \/ UNCHANGED cache
        \/ \E u \in Reader : Busy(h) /\ (cache' = Pushed(h, u) \/ cache' = [cache EXCEPT ![u] = Trimmed(@)])
    BY <1>4 DEF HandlerThrows, LastEffect, PushPost, TrimFeed, At, Busy
  <2>2. \A u \in Reader : Busy(h) => Pushed(h, u) \in [Reader -> Seq(Entries)]
    BY ListsType
  <2>3. \A u \in Reader : [cache EXCEPT ![u] = Trimmed(@)] \in [Reader -> Seq(Entries)]
    BY ListsType
  <2> QED
    BY <1>3, <2>1, <2>2, <2>3 DEF ListType
<1>5. ASSUME NEW r \in Request, FillFeed(r) \/ TrimFilled(r) \/ GetThrows(r)
      PROVE  ListType'
  <2>1. For[r] \in Reader
    BY PostAssumption
  <2>2. UNCHANGED cache \/ cache' = Filled(r) \/ cache' = [cache EXCEPT ![For[r]] = Trimmed(@)]
    BY <1>5 DEF FillFeed, TrimFilled, GetThrows
  <2> QED
    BY <1>3, <2>1, <2>2, ListsType DEF ListType
<1>6. ASSUME NEW p \in Post, InvalidateEdited(p) \/ EditThrows(p)
      PROVE  ListType'
  BY <1>2, <1>3, <1>6 DEF InvalidateEdited, EditThrows
<1>7. ASSUME NEW u \in Reader, InvalidateLinked(u) \/ LinkThrows(u)
      PROVE  ListType'
  BY <1>2, <1>3, <1>7 DEF InvalidateLinked, LinkThrows
<1> QED
  BY <1>3, <1>4, <1>5, <1>6, <1>7, WhoLists

-----------------------------------------------------------------------------
(* The requests.                                                             *)
LEMMA NoGetType == NoGet \in GetType /\ Len(NoGet.rows) <= MaxFeed /\ Once(NoGet.rows) /\ NoGet.rows = <<>>
  BY FeedBoundAssumption DEF NoGet, GetType, Once

LEMMA NextGet ==
    ASSUME TypeInv, NEW r \in Request, NEW g, get' = [get EXCEPT ![r] = g],
           g \in GetType, Len(g.rows) <= MaxFeed, Once(g.rows), g.at = "fill" <=> g.rows # <<>>,
           UNCHANGED <<edit, link>>
    PROVE  AskInv'
<1>1. get'[r] = g /\ \A q \in Request \ {r} : get'[q] = get[q]
  BY DEF TypeInv, AskInv
<1>2. get' \in [Request -> GetType]
  BY DEF TypeInv, AskInv
<1> QED
  BY <1>1, <1>2 DEF TypeInv, AskInv

LEMMA NextAsk ==
    ASSUME TypeInv, Next
    PROVE  AskInv'
<1> USE DEF TypeInv
<1>1. CASE UNCHANGED askVars
  BY <1>1 DEF AskInv, askVars
<1>2. ASSUME NEW r \in Request, BeginGet(r)
      PROVE  AskInv'
  <2> DEFINE g == [get[r] EXCEPT !.at = "load"]
  <2>1. get[r] \in GetType /\ get[r].rows = <<>>
    BY <1>2 DEF BeginGet, AskInv
  <2>2. g \in GetType /\ g.rows = <<>> /\ g.at = "load"
    BY <2>1 DEF GetType
  <2>3. get' = [get EXCEPT ![r] = g]
    BY <1>2 DEF BeginGet, AskInv
  <2>4. Len(g.rows) <= MaxFeed /\ Once(g.rows)
    BY <2>2, FeedBoundAssumption DEF Once
  <2> HIDE DEF g
  <2> QED
    BY <1>2, <2>2, <2>3, <2>4, NextGet DEF BeginGet
<1>3. ASSUME NEW r \in Request, LoadFeed(r)
      PROVE  AskInv'
  <2>1. PICK d \in States : get' = [get EXCEPT ![r] = Fill(FeedOf(d, For[r]))]
    BY <1>3 DEF LoadFeed
  <2> DEFINE rows == FeedOf(d, For[r])
  <2>2. rows \in Seq(Entries) /\ Len(rows) <= MaxFeed /\ Once(rows)
    BY FeedOfType, MasterIsRead, PostAssumption DEF LogInv
  <2>3. get' = [get EXCEPT ![r] = Fill(rows)] /\ UNCHANGED <<edit, link>>
    BY <1>3, <2>1 DEF LoadFeed
  <2> HIDE DEF rows
  <2>4. CASE rows = <<>>
    <3>1. get' = [get EXCEPT ![r] = NoGet]
      BY <2>3, <2>4 DEF Fill
    <3>2. NoGet.at = "fill" <=> NoGet.rows # <<>>
      BY DEF NoGet
    <3> QED
      BY <2>3, <3>1, <3>2, NoGetType, NextGet
  <2>5. CASE rows # <<>>
    <3>1. Fill(rows) = [at |-> "fill", rows |-> rows]
      BY <2>5 DEF Fill
    <3>2. Fill(rows) \in GetType /\ Fill(rows).rows = rows /\ Fill(rows).at = "fill"
      BY <2>2, <3>1 DEF GetType
    <3> QED
      BY <2>2, <2>3, <2>5, <3>2, NextGet
  <2> QED
    BY <2>4, <2>5
<1>4. ASSUME NEW r \in Request, FillFeed(r)
      PROVE  AskInv'
  <2> DEFINE g == [at |-> "trim", rows |-> <<>>]
  <2>1. g \in GetType /\ Len(g.rows) <= MaxFeed /\ Once(g.rows) /\ g.rows = <<>> /\ g.at = "trim"
    BY FeedBoundAssumption DEF GetType, Once
  <2>2. get' = [get EXCEPT ![r] = g] /\ UNCHANGED <<edit, link>>
    BY <1>4 DEF FillFeed
  <2> HIDE DEF g
  <2> QED
    BY <2>1, <2>2, NextGet
<1>5. ASSUME NEW r \in Request, TrimFilled(r) \/ GetThrows(r)
      PROVE  AskInv'
  <2>1. get' = [get EXCEPT ![r] = NoGet] /\ UNCHANGED <<edit, link>>
    BY <1>5 DEF TrimFilled, GetThrows
  <2>2. NoGet \in GetType /\ Len(NoGet.rows) <= MaxFeed /\ Once(NoGet.rows)
    BY NoGetType
  <2>3. NoGet.at = "fill" <=> NoGet.rows # <<>>
    BY DEF NoGet
  <2> QED
    BY <2>1, <2>2, <2>3, NextGet
<1>6. CASE Editing
  <2>1. UNCHANGED <<link, get>>
    BY <1>6 DEF Editing, UpdatePost, DeletePost, ReadEdited, InvalidateEdited, EditThrows
  <2>2. NoEdit \in EditType
    BY DEF NoEdit, EditType
  <2>3. edit' \in [Post -> EditType]
    <3>1. ASSUME NEW p \in Post, UpdatePost(p) \/ DeletePost(p) PROVE edit' \in [Post -> EditType]
      <4>1. [edit[p] EXCEPT !.at = "written"] \in EditType
        BY DEF AskInv, EditType
      <4>2. edit' = [edit EXCEPT ![p] = [edit[p] EXCEPT !.at = "written"]]
        BY <3>1 DEF UpdatePost, DeletePost, AskInv
      <4> QED
        BY <4>1, <4>2 DEF AskInv
    <3>2. ASSUME NEW p \in Post, ReadEdited(p) PROVE edit' \in [Post -> EditType]
      <4>1. PICK d \in States :
                edit' = [edit EXCEPT ![p] = IF FollowersOf(d, Author[p]) = {} THEN NoEdit
                                            ELSE [at |-> "read", keys |-> FollowersOf(d, Author[p])]]
        BY <3>2 DEF ReadEdited
      <4>2. [at |-> "read", keys |-> FollowersOf(d, Author[p])] \in EditType
        BY DEF FollowersOf, EditType
      <4> QED
        BY <2>2, <4>1, <4>2 DEF AskInv
    <3>3. ASSUME NEW p \in Post, InvalidateEdited(p) \/ EditThrows(p) PROVE edit' \in [Post -> EditType]
      BY <2>2, <3>3 DEF InvalidateEdited, EditThrows, AskInv
    <3> QED
      BY <1>6, <3>1, <3>2, <3>3 DEF Editing
  <2> QED
    BY <2>1, <2>3 DEF AskInv
<1>7. CASE Linking
  <2>1. UNCHANGED <<edit, get>> /\ link' \in [Reader -> {"idle", "written"}]
    BY <1>7 DEF Linking, Follow, Unfollow, WriteLink, InvalidateLinked, LinkThrows, AskInv
  <2> QED
    BY <2>1 DEF AskInv
<1> QED
  BY <1>1, <1>2, <1>3, <1>4, <1>5, <1>6, <1>7, WhoAsks DEF Getting

-----------------------------------------------------------------------------
LEMMA NextHistory ==
    ASSUME TypeInv, Next
    PROVE  HistoryType'
<1>1. warm' \subseteq Reader \X Post
  <2>1. ASSUME NEW p \in Post, Insert(p) PROVE warm' \subseteq Reader \X Post
    <3> DEFINE W == {v \in Reader : cache[v] # Absent /\ \A d \in States : v \in FollowersOf(d, Author[p])}
    <3>1. warm' = warm \cup {<<u, p>> : u \in W}
      BY <2>1 DEF Insert
    <3>2. W \subseteq Reader
      OBVIOUS
    <3> HIDE DEF W
    <3> QED
      BY <3>1, <3>2 DEF TypeInv, HistoryType
  <2> QED
    BY <2>1, WhoWarms DEF TypeInv, HistoryType
<1>2. \A off, deleted : off \subseteq Reader /\ Note(off, deleted) => raced' \subseteq Reader
  BY DEF Note, TypeInv, HistoryType
<1>3. \E off, deleted : off \subseteq Reader /\ Note(off, deleted)
  <2>1. \A p : {u \in Reader : Concerns(u, p)} \subseteq Reader
    OBVIOUS
  <2>2. \A d, w : Misread(d, w) \subseteq Reader
    BY DEF Misread
  <2>3. \A r \in Request : For[r] \in Reader
    BY PostAssumption
  <2>4. \A p \in Post : edit[p].keys \subseteq Reader
    BY DEF TypeInv, AskInv, EditType
  <2>5. CASE Creating
    BY <2>1, <2>5 DEF Creating, ConstructPublisher, Insert, Publish, PublishThrows
  <2>6. CASE Handling
    BY <2>1, <2>2, <2>6 DEF Handling, Serving, TakeEvent, ReadFollowers, CheckKey, PushPost,
       TrimFeed, FanOut, HandlerThrows, LoseChannel
  <2>7. CASE Getting
    <3>1. \A r \in Request : \A d : (IF FeedOf(d, For[r]) # FeedOf(db, For[r]) THEN {For[r]} ELSE {}) \subseteq Reader
      BY <2>3
    <3> QED
      BY <2>7, <3>1 DEF Getting, BeginGet, LoadFeed, FillFeed, TrimFilled, GetThrows
  <2>8. CASE Editing
    <3>1. \A p \in Post : {u \in Reader : Concerns(u, p)} \cup edit[p].keys \subseteq Reader
      BY <2>4
    <3> QED
      BY <2>2, <2>8, <3>1 DEF Editing, UpdatePost, DeletePost, ReadEdited, InvalidateEdited, EditThrows
  <2>9. CASE Linking
    BY <2>9 DEF Linking, Follow, Unfollow, WriteLink, InvalidateLinked, LinkThrows
  <2>10. CASE Replicate
    BY <2>10 DEF Replicate
  <2> QED
    BY <2>5, <2>6, <2>7, <2>8, <2>9, <2>10 DEF Next
<1> QED
  BY <1>1, <1>2, <1>3 DEF HistoryType

LEMMA InitType == Init => TypeInv
<1> SUFFICES ASSUME Init PROVE TypeInv
  OBVIOUS
<1> DEFINE L == [i \in DOMAIN Old |-> Entry(Old[i], 0)]
<1>1. PICK f \in SUBSET (Reader \X Writer) : wal = <<[log |-> L, follows |-> f]>>
  BY DEF Init
<1>2. L \in Seq(Entries) /\ Once(L) /\ \A i \in DOMAIN L : L[i].post \in OldPosts /\ L[i].post \in Post
  <2>1. \A i \in DOMAIN Old : Old[i] \in Post
    BY PostAssumption
  <2>2. \A i \in DOMAIN Old : L[i] \in Entries /\ L[i].post = Old[i]
    BY <2>1 DEF Entry, Entries
  <2>3. L \in Seq(Entries) /\ DOMAIN L = DOMAIN Old
    BY <2>2, PostAssumption
  <2> HIDE DEF L
  <2> QED
    BY <2>1, <2>2, <2>3, PostAssumption DEF Once, OldPosts
<1> HIDE DEF L
<1>3. WalType /\ States = {[log |-> L, follows |-> f]}
  BY <1>1, <1>2, FeedBoundAssumption DEF WalType, States, Databases
<1>4. PathType /\ LogInv
  <2>1. \A p \in OldPosts \cap Post : create[p] = "ok"
    BY DEF Init
  <2> QED
    BY <1>2, <1>3, <2>1 DEF Init, PathType, LogInv
<1>5. TaskInv
  BY DEF Init, TaskInv, Busy, FreeTask
<1>6. ListType /\ FaultType /\ HistoryType
  BY FeedBoundAssumption DEF Init, ListType, FaultType, HistoryType, Absent
<1>7. AskInv
  <2>1. NoEdit \in EditType
    BY DEF NoEdit, EditType
  <2>2. NoGet.at # "fill"
    BY DEF NoGet
  <2> QED
    BY <2>1, <2>2, NoGetType DEF Init, AskInv
<1> QED
  BY <1>3, <1>4, <1>5, <1>6, <1>7 DEF TypeInv

LEMMA NextType == TypeInv /\ [Next]_vars => TypeInv'
<1> SUFFICES ASSUME TypeInv, [Next]_vars PROVE TypeInv'
  OBVIOUS
<1>1. CASE UNCHANGED vars
  BY <1>1 DEF vars, TypeInv, WalType, LogInv, States, PathType, TaskInv, Busy, ListType, AskInv,
              FaultType, HistoryType
<1>2. CASE Next
  <2>1. FaultType'
    BY <1>2, WhoFails, FailureCounted DEF TypeInv, FaultType
  <2> QED
    BY <1>2, <2>1, NextWal, NextPath, NextTask, NextLists, NextAsk, NextHistory DEF TypeInv
<1> QED
  BY <1>1, <1>2

LEMMA TypeInvariant == Spec => []TypeInv
  BY InitType, NextType, PTL DEF Spec

(* FeedTypeOK: every variable is of its type; a request never holds more     *)
(* rows than LIMIT, and never pushes none.                                   *)
THEOREM FeedTypeCorrect == Spec => []FeedTypeOK
<1>1. TypeInv => FeedTypeOK
  <2> SUFFICES ASSUME TypeInv PROVE FeedTypeOK
    OBVIOUS
  <2> USE DEF TypeInv
  <2>1. \A s \in Seq(Entries) : Range(s) \subseteq Entries
    BY RangeOfSeq
  <2>2. \A d \in States : Range(d.log) \subseteq Entries /\ d.follows \subseteq Reader \X Writer
    BY <2>1, MasterIsRead DEF Databases
  <2>3. ASSUME NEW h \in Handler
        PROVE  \/ task[h] = FreeTask
               \/ /\ task[h].at \in {"start", "loop", "push", "trim"}
                  /\ task[h].post \in Post /\ task[h].todo \subseteq Reader
                  /\ task[h].now \subseteq task[h].todo
                  /\ task[h].own \in BOOLEAN
    <3>1. task[h] = FreeTask \/ Busy(h)
      BY DEF TaskInv, Busy, BusyTask
    <3> QED
      BY <3>1, BusyType
  <2>4. \A u \in Reader : Range(cache[u]) \subseteq Entries
    BY <2>1 DEF ListType
  <2>5. \A p \in Post : edit[p].at \in {"idle", "written", "read"} /\ edit[p].keys \subseteq Reader
    BY DEF AskInv, EditType
  <2>6. \A r \in Request :
          /\ get[r].at \in {"idle", "load", "fill", "trim"}
          /\ Range(get[r].rows) \subseteq Entries /\ Len(get[r].rows) <= MaxFeed
          /\ get[r].at = "fill" <=> get[r].rows # <<>>
    BY <2>1 DEF AskInv, GetType
  <2> QED
    BY <2>2, <2>3, <2>4, <2>5, <2>6, FeedBoundAssumption DEF FeedTypeOK, WalType, PathType, AskInv, FaultType, HistoryType
<1> QED
  BY <1>1, TypeInvariant, PTL

-----------------------------------------------------------------------------
(* What a push, a fill and a trim do to a list: its length, and how often a  *)
(* post is in it.                                                            *)
Where(s, p) == {i \in DOMAIN s : s[i].post = p}
CopiesIn(s, p) == Cardinality(Where(s, p))

LEMMA WhereFinite ==
    ASSUME NEW s \in Seq(Entries), NEW p
    PROVE  IsFiniteSet(Where(s, p)) /\ CopiesIn(s, p) \in Nat
<1>1. IsFiniteSet(1 .. Len(s)) /\ Where(s, p) \in SUBSET (1 .. Len(s))
  BY FS_Interval DEF Where
<1> QED
  BY <1>1, FS_Subset, FS_CardinalityType DEF CopiesIn

LEMMA PushedOnce ==
    ASSUME NEW s \in Seq(Entries), NEW e \in Entries, NEW p
    PROVE  /\ Len(<<e>> \o s) = Len(s) + 1
           /\ CopiesIn(<<e>> \o s, p) <= CopiesIn(s, p) + (IF e.post = p THEN 1 ELSE 0)
<1> DEFINE r == <<e>> \o s
           K == Where(r, p)
           L == Where(s, p)
           M == K \ {1}
<1>1. <<e>> \in Seq(Entries) /\ Len(<<e>>) = 1 /\ <<e>>[1] = e /\ Len(s) \in Nat
  OBVIOUS
<1>2. /\ r \in Seq(Entries) /\ Len(r) = 1 + Len(s)
      /\ \A k \in 1 .. 1 + Len(s) : r[k] = IF k <= 1 THEN <<e>>[k] ELSE s[k - 1]
  BY <1>1, ConcatProperties
<1> HIDE DEF r
<1>3. DOMAIN r = 1 .. 1 + Len(s) /\ DOMAIN s = 1 .. Len(s) /\ r[1] = e
  BY <1>1, <1>2
<1>4. IsFiniteSet(K) /\ IsFiniteSet(L) /\ Cardinality(K) \in Nat /\ Cardinality(L) \in Nat
  BY <1>2, WhereFinite DEF CopiesIn
<1>5. 1 \in K <=> e.post = p
  BY <1>1, <1>3 DEF Where
<1> DEFINE f == [k \in M |-> k - 1]
<1>6. f \in [M -> L]
  <2> SUFFICES ASSUME NEW k \in M PROVE k - 1 \in L
    OBVIOUS
  <2>1. k \in 1 .. 1 + Len(s) /\ k # 1 /\ r[k].post = p
    BY <1>3 DEF Where
  <2>2. k - 1 \in 1 .. Len(s) /\ ~ (k <= 1)
    BY <1>1, <2>1
  <2>3. s[k - 1].post = p
    BY <1>2, <2>1, <2>2
  <2> QED
    BY <1>3, <2>2, <2>3 DEF Where
<1>7. \A a, b \in M : f[a] = f[b] => a = b
  <2>1. \A a \in M : a \in Int
    BY <1>3 DEF Where
  <2> HIDE DEF M
  <2> QED
    BY <2>1
<1> HIDE DEF f, M, K, L
<1>8. Cardinality(M) <= Cardinality(L)
  BY <1>4, <1>6, <1>7, FS_Injection, Fun_IsInj
<1>9. Cardinality(M) = IF 1 \in K THEN Cardinality(K) - 1 ELSE Cardinality(K)
  BY <1>4, FS_RemoveElement DEF M
<1>10. Cardinality(K) <= Cardinality(L) + (IF e.post = p THEN 1 ELSE 0)
  BY <1>4, <1>5, <1>8, <1>9
<1> QED
  BY <1>1, <1>2, <1>10 DEF CopiesIn, r, K, L

LEMMA FilledOnce ==
    ASSUME NEW s \in Seq(Entries), NEW t \in Seq(Entries), Once(t), NEW p
    PROVE  /\ Len(s \o t) = Len(s) + Len(t)
           /\ CopiesIn(s \o t, p) <= CopiesIn(s, p) + 1
<1> DEFINE r == s \o t
<1>1. /\ r \in Seq(Entries) /\ Len(r) = Len(s) + Len(t)
      /\ \A k \in 1 .. Len(s) + Len(t) : r[k] = IF k <= Len(s) THEN s[k] ELSE t[k - Len(s)]
  BY ConcatProperties
<1> HIDE DEF r
<1>2. /\ Len(s) \in Nat /\ Len(t) \in Nat
      /\ DOMAIN r = 1 .. Len(s) + Len(t) /\ DOMAIN s = 1 .. Len(s) /\ DOMAIN t = 1 .. Len(t)
  BY <1>1
<1>3. \A k \in Where(r, p) : k \in Where(s, p) \/ k - Len(s) \in Where(t, p)
  <2> SUFFICES ASSUME NEW k \in Where(r, p), k \notin Where(s, p)
               PROVE  k - Len(s) \in Where(t, p)
    OBVIOUS
  <2>1. k \in 1 .. Len(s) + Len(t) /\ r[k].post = p
    BY <1>2 DEF Where
  <2>2. CASE k <= Len(s)
    <3>1. k \in 1 .. Len(s) /\ s[k].post = p
      BY <1>1, <1>2, <2>1, <2>2
    <3> QED
      BY <1>2, <3>1 DEF Where
  <2>3. CASE ~ (k <= Len(s))
    <3>1. k - Len(s) \in 1 .. Len(t) /\ t[k - Len(s)].post = p
      BY <1>1, <1>2, <2>1, <2>3
    <3> QED
      BY <1>2, <3>1 DEF Where
  <2> QED
    BY <2>2, <2>3
<1>4. \A j, k \in Where(t, p) : j = k
  BY DEF Where, Once
<1>5. \A k \in Where(r, p) \cup Where(s, p) : k \in Int
  BY <1>2 DEF Where
<1>6. \E x : Where(r, p) \subseteq Where(s, p) \cup {x}
  <2>1. CASE Where(t, p) = {}
    BY <1>3, <2>1
  <2>2. ASSUME NEW j \in Where(t, p) PROVE Where(r, p) \subseteq Where(s, p) \cup {j + Len(s)}
    <3> SUFFICES ASSUME NEW k \in Where(r, p), k \notin Where(s, p) PROVE k = j + Len(s)
      OBVIOUS
    <3>1. k - Len(s) = j
      BY <1>3, <1>4, <2>2
    <3>2. k \in Int /\ j \in Int
      BY <1>2, <1>5 DEF Where
    <3> QED
      BY <1>2, <3>1, <3>2
  <2> QED
    BY <2>1, <2>2
<1>7. PICK x : Where(r, p) \subseteq Where(s, p) \cup {x}
  BY <1>6
<1>8. /\ IsFiniteSet(Where(s, p) \cup {x})
      /\ Cardinality(Where(s, p) \cup {x}) <= CopiesIn(s, p) + 1
  <2>1. IsFiniteSet(Where(s, p)) /\ Cardinality(Where(s, p)) \in Nat
    BY WhereFinite DEF CopiesIn
  <2>2. /\ IsFiniteSet(Where(s, p) \cup {x})
        /\ Cardinality(Where(s, p) \cup {x}) =
               IF x \in Where(s, p) THEN Cardinality(Where(s, p)) ELSE Cardinality(Where(s, p)) + 1
    BY <2>1, FS_AddElement
  <2> QED
    BY <2>1, <2>2 DEF CopiesIn
<1>9. /\ Cardinality(Where(r, p)) <= Cardinality(Where(s, p) \cup {x})
      /\ Cardinality(Where(r, p)) \in Nat /\ Cardinality(Where(s, p) \cup {x}) \in Nat
  BY <1>7, <1>8, FS_Subset, FS_CardinalityType
<1>10. CopiesIn(r, p) <= CopiesIn(s, p) + 1
  BY <1>8, <1>9, WhereFinite DEF CopiesIn
<1> QED
  BY <1>1, <1>10 DEF r

LEMMA TrimmedShorter ==
    ASSUME NEW s \in Seq(Entries), NEW p
    PROVE  /\ Trimmed(s) \in Seq(Entries)
           /\ Len(Trimmed(s)) <= MaxFeed /\ Len(Trimmed(s)) <= Len(s)
           /\ CopiesIn(Trimmed(s), p) <= CopiesIn(s, p)
<1>1. MaxFeed \in Nat
  BY FeedBoundAssumption
<1>2. /\ Trimmed(s) \in Seq(Entries)
      /\ Len(Trimmed(s)) = IF Len(s) < MaxFeed THEN Len(s) ELSE MaxFeed
      /\ \A i \in 1 .. Len(Trimmed(s)) : Trimmed(s)[i] = s[i]
  BY <1>1, TakeProperties DEF Trimmed
<1>3. DOMAIN Trimmed(s) \subseteq DOMAIN s /\ \A i \in DOMAIN Trimmed(s) : Trimmed(s)[i] = s[i]
  BY <1>1, <1>2
<1>4. Where(Trimmed(s), p) \in SUBSET Where(s, p)
  BY <1>3 DEF Where
<1>5. Cardinality(Where(Trimmed(s), p)) <= Cardinality(Where(s, p))
  BY <1>4, WhereFinite, FS_Subset
<1> QED
  BY <1>1, <1>2, <1>5 DEF CopiesIn

LEMMA EmptyList == /\ Absent \in Seq(Entries) /\ Len(Absent) = 0
                   /\ \A p : CopiesIn(Absent, p) = 0
<1>1. \A p : Where(Absent, p) = {}
  BY DEF Where, Absent
<1> QED
  BY <1>1, FS_EmptySet DEF CopiesIn, Absent

(* How the list of u may change in one step.                                 *)
Same(u)      == cache'[u] = cache[u]
Gone(u)      == cache'[u] = Absent
PushedTo(h, u) == cache'[u] = <<Entry(task[h].post, 0)>> \o cache[u]
FilledBy(r, u) == cache'[u] = cache[u] \o get[r].rows
CutAt(u)     == cache'[u] = Trimmed(cache[u])

(* Who does it: a handler h, a request r, or neither.                        *)
HandlerStep(h) == (\E p \in Post : TakeEvent(h, p)) \/ Serving(h) \/ HandlerThrows(h) \/ LoseChannel(h)
RequestStep(r) == BeginGet(r) \/ LoadFeed(r) \/ FillFeed(r) \/ TrimFilled(r) \/ GetThrows(r)
OtherStep      == Creating \/ Editing \/ Linking \/ Replicate

LEMMA WhoSteps ==
    ASSUME Next
    PROVE  \/ \E h \in Handler : HandlerStep(h)
           \/ \E r \in Request : RequestStep(r)
           \/ OtherStep
  BY DEF Next, Handling, Getting, HandlerStep, RequestStep, OtherStep

LEMMA ListsByOthers ==
    ASSUME TypeInv, OtherStep, NEW u \in Reader
    PROVE  UNCHANGED <<task, get, times>> /\ (Same(u) \/ Gone(u))
<1> USE DEF TypeInv, ListType
<1>1. CASE Creating
  BY <1>1 DEF Creating, ConstructPublisher, Insert, Publish, PublishThrows, askVars, Same
<1>2. CASE Editing
  BY <1>2 DEF Editing, UpdatePost, DeletePost, ReadEdited, InvalidateEdited, EditThrows,
              DeleteLists, pathVars, Same, Gone
<1>3. CASE Linking
  BY <1>3 DEF Linking, Follow, Unfollow, WriteLink, InvalidateLinked, LinkThrows, DeleteLists,
              pathVars, Same, Gone
<1>4. CASE Replicate
  BY <1>4 DEF Replicate, pathVars, askVars, Same
<1> QED
  BY <1>1, <1>2, <1>3, <1>4 DEF OtherStep

LEMMA ListsByRequest ==
    ASSUME TypeInv, NEW r \in Request, RequestStep(r), NEW u \in Reader
    PROVE  /\ UNCHANGED pathVars
           /\ \A q \in Request \ {r} : get'[q] = get[q]
           /\ \/ Same(u) /\ (For[r] # u \/ (get[r].at # "trim" /\ UNCHANGED faults))
              \/ Same(u) /\ Fault
              \/ /\ For[r] = u /\ get[r].at = "fill" /\ FilledBy(r, u) /\ get'[r].at \in {"trim", "idle"}
                 /\ get'[r].at = "trim" \/ Fault
              \/ For[r] = u /\ get[r].at = "trim" /\ CutAt(u)
<1> USE DEF TypeInv, ListType
<1>1. For[r] \in Reader
  BY PostAssumption
<1>2. \A q \in Request \ {r} : get'[q] = get[q]
  BY DEF RequestStep, BeginGet, LoadFeed, FillFeed, TrimFilled, GetThrows, AskInv
<1>3. UNCHANGED pathVars
  BY DEF RequestStep, BeginGet, LoadFeed, FillFeed, TrimFilled, GetThrows
<1>4. CASE BeginGet(r) \/ LoadFeed(r)
  BY <1>2, <1>3, <1>4 DEF BeginGet, LoadFeed, Same
<1>5. CASE FillFeed(r)
  <2>1. get'[r].at = "trim" /\ get[r].at = "fill" /\ cache' = Filled(r)
    BY <1>5 DEF FillFeed, AskInv
  <2> QED
    BY <1>1, <1>2, <1>3, <2>1 DEF Filled, FilledBy, Same
<1>6. CASE TrimFilled(r)
  BY <1>1, <1>2, <1>3, <1>6 DEF TrimFilled, CutAt, Same
<1>7. CASE GetThrows(r)
  <2>1. get'[r].at = "idle" /\ Fault
    BY <1>7 DEF GetThrows, AskInv, NoGet
  <2>2. \/ UNCHANGED cache
        \/ get[r].at = "fill" /\ cache' = Filled(r)
        \/ get[r].at = "trim" /\ cache' = [cache EXCEPT ![For[r]] = Trimmed(@)]
    BY <1>7 DEF GetThrows
  <2> QED
    BY <1>1, <1>2, <1>3, <2>1, <2>2 DEF Filled, FilledBy, CutAt, Same
<1> QED
  BY <1>4, <1>5, <1>6, <1>7 DEF RequestStep

LEMMA GotoEffect ==
    ASSUME TaskInv, NEW h \in Handler, Busy(h), NEW at, NEW now, NEW todo, Goto(h, at, now, todo)
    PROVE  /\ task'[h] = [task[h] EXCEPT !.at = at, !.now = now, !.todo = todo]
           /\ task'[h].at = at /\ task'[h].now = now /\ task'[h].todo = todo
           /\ task'[h].post = task[h].post /\ task'[h].own = task[h].own
<1>1. task[h] \in BusyTask
  BY BusyType
<1>2. task'[h] = [task[h] EXCEPT !.at = at, !.now = now, !.todo = todo]
  BY DEF Goto, TaskInv
<1> QED
  BY <1>1, <1>2 DEF BusyTask

LEMMA ListsByHandler ==
    ASSUME TypeInv, NEW h \in Handler, HandlerStep(h), NEW u \in Reader
    PROVE  /\ UNCHANGED askVars
           /\ \A g \in Handler \ {h} : task'[g] = task[g]
           /\ \/ Same(u) /\ (At(h, "trim", u) => At(h, "trim", u)')
              \/ Same(u) /\ Fault
              \/ At(h, "push", u) /\ PushedTo(h, u) /\ (At(h, "trim", u)' \/ Fault)
              \/ At(h, "trim", u) /\ CutAt(u)
<1> USE DEF TypeInv, ListType
<1>1. UNCHANGED askVars
  BY DEF HandlerStep, Serving, TakeEvent, ReadFollowers, CheckKey, PushPost, TrimFeed, FanOut,
         HandlerThrows, LoseChannel
<1>2. \A g \in Handler \ {h} : task'[g] = task[g]
  BY DEF HandlerStep, Serving, TakeEvent, ReadFollowers, CheckKey, PushPost, TrimFeed, FanOut,
         HandlerThrows, LoseChannel, Goto, TaskInv
<1>3. ASSUME NEW p \in Post, TakeEvent(h, p) PROVE Same(u) /\ ~ At(h, "trim", u)
  BY <1>3 DEF TakeEvent, Same, At
<1>4. CASE ReadFollowers(h) \/ FanOut(h)
  BY <1>1, <1>2, <1>4 DEF ReadFollowers, FanOut, Sends, Same, At
<1>5. ASSUME NEW v \in Reader, CheckKey(h, v) PROVE Same(u) /\ ~ At(h, "trim", u)
  BY <1>5 DEF CheckKey, Same, At
<1>6. ASSUME NEW v \in Reader, PushPost(h, v)
      PROVE  \/ Same(u) /\ ~ At(h, "trim", u)
             \/ At(h, "push", u) /\ PushedTo(h, u) /\ At(h, "trim", u)'
  <2>1. At(h, "push", v) /\ cache' = Pushed(h, v) /\ Goto(h, "trim", {v}, task[h].todo)
    BY <1>6 DEF PushPost
  <2>2. Busy(h) /\ task[h].at = "push"
    BY <2>1 DEF At, Busy
  <2>3. task'[h].at = "trim" /\ task'[h].now = {v}
    <3>1. Goto(h, "trim", {v}, task[h].todo)
      BY <2>1
    <3>2. TaskInv
      OBVIOUS
    <3> QED
      BY <2>2, <3>1, <3>2, BusyType DEF Goto, TaskInv, BusyTask
  <2>4. CASE u = v
    BY <2>1, <2>3, <2>4 DEF Pushed, PushedTo, At
  <2>5. CASE u # v
    BY <2>1, <2>2, <2>5 DEF Pushed, Same, At
  <2> QED
    BY <2>4, <2>5
<1>7. ASSUME NEW v \in Reader, TrimFeed(h, v)
      PROVE  \/ Same(u) /\ ~ At(h, "trim", u)
             \/ At(h, "trim", u) /\ CutAt(u)
  <2>1. At(h, "trim", v) /\ cache' = [cache EXCEPT ![v] = Trimmed(@)]
    BY <1>7 DEF TrimFeed
  <2>2. \E w \in Reader : task[h].now = {w}
    BY <2>1, BusyType DEF At, Busy
  <2>3. CASE u = v
    BY <2>1, <2>3 DEF CutAt
  <2>4. CASE u # v
    BY <2>1, <2>2, <2>4 DEF Same, At
  <2> QED
    BY <2>3, <2>4
<1>8. CASE HandlerThrows(h)
  <2>1. Fault /\ LastEffect(h)
    BY <1>8 DEF HandlerThrows
  <2>2. \/ UNCHANGED cache
        \/ \E v \in Reader : \/ At(h, "push", v) /\ cache' = Pushed(h, v)
                             \/ At(h, "trim", v) /\ cache' = [cache EXCEPT ![v] = Trimmed(@)]
    BY <2>1 DEF LastEffect
  <2>3. \/ Same(u)
        \/ At(h, "push", u) /\ PushedTo(h, u)
        \/ At(h, "trim", u) /\ CutAt(u)
    BY <2>2 DEF Pushed, Same, PushedTo, CutAt
  <2> QED
    BY <1>1, <1>2, <2>1, <2>3
<1>9. CASE LoseChannel(h)
  <2>1. UNCHANGED cache /\ task' = [task EXCEPT ![h].own = FALSE] /\ Busy(h)
    BY <1>9 DEF LoseChannel
  <2>2. task'[h].at = task[h].at /\ task'[h].now = task[h].now
    BY <2>1, BusyType DEF TaskInv, BusyTask
  <2> QED
    BY <1>1, <1>2, <2>1, <2>2 DEF Same, At
<1> QED
  BY <1>1, <1>2, <1>3, <1>4, <1>5, <1>6, <1>7, <1>8, <1>9 DEF HandlerStep, Serving

-----------------------------------------------------------------------------
(* How long the lists get.                                                   *)
Trimmers(u)    == {h \in Handler : At(h, "trim", u)}
TrimmingGets(u) == {r \in Request : get[r].at = "trim" /\ For[r] = u}
Extra(u)       == Cardinality(TrimmingGets(u)) + faults

LEMMA OneApart ==
    ASSUME NEW S, NEW T, NEW x, IsFiniteSet(S), IsFiniteSet(T), S \ {x} \subseteq T
    PROVE  /\ Cardinality(S) \in Nat /\ Cardinality(T) \in Nat
           /\ Cardinality(T) >= Cardinality(S) - 1
           /\ x \notin S \/ x \in T => Cardinality(T) >= Cardinality(S)
           /\ x \notin S /\ x \in T => Cardinality(T) >= Cardinality(S) + 1
<1>1. Cardinality(S) \in Nat /\ Cardinality(T) \in Nat
  BY FS_CardinalityType
<1>2. /\ IsFiniteSet(S \ {x})
      /\ Cardinality(S \ {x}) = IF x \in S THEN Cardinality(S) - 1 ELSE Cardinality(S)
  BY FS_RemoveElement
<1>3. Cardinality(S \ {x}) <= Cardinality(T)
  <2>1. S \ {x} \in SUBSET T
    OBVIOUS
  <2> QED
    BY <2>1, FS_Subset
<1>4. ASSUME x \in S, x \in T PROVE Cardinality(T) >= Cardinality(S)
  <2>1. S \in SUBSET T
    BY <1>4
  <2>2. Cardinality(S) <= Cardinality(T)
    BY <2>1, FS_Subset
  <2> QED
    BY <1>1, <2>2
<1>5. ASSUME x \notin S, x \in T PROVE Cardinality(T) >= Cardinality(S) + 1
  <2>1. S \cup {x} \in SUBSET T
    BY <1>5
  <2>2. Cardinality(S \cup {x}) = Cardinality(S) + 1
    BY <1>5, FS_AddElement
  <2>3. Cardinality(S \cup {x}) <= Cardinality(T)
    BY <2>1, FS_Subset
  <2> QED
    BY <1>1, <2>2, <2>3
<1>6. x \notin S => Cardinality(T) >= Cardinality(S)
  BY <1>1, <1>2, <1>3
<1> QED
  BY <1>1, <1>2, <1>3, <1>4, <1>5, <1>6

LEMMA TrimmersFinite ==
    ASSUME NEW u
    PROVE  /\ IsFiniteSet(Trimmers(u)) /\ IsFiniteSet(Trimmers(u)')
           /\ IsFiniteSet(TrimmingGets(u)) /\ IsFiniteSet(TrimmingGets(u)')
<1>1. /\ Trimmers(u) \in SUBSET Handler /\ Trimmers(u)' \in SUBSET Handler
      /\ TrimmingGets(u) \in SUBSET Request /\ TrimmingGets(u)' \in SUBSET Request
  BY DEF Trimmers, TrimmingGets
<1> QED
  BY <1>1, PostAssumption, FS_Subset

(* The bound of FeedsBounded, and when a list stays below it.                *)
BoundedList(u) == Len(cache[u]) <= MaxFeed + Cardinality(Trimmers(u)) + MaxFeed * Extra(u)

LEMMA RoomGrows ==
    ASSUME NEW m \in Nat \ {0}, NEW len \in Nat, NEW len2 \in Nat,
           NEW a \in Nat, NEW a2 \in Nat, NEW c \in Nat, NEW c2 \in Nat,
           len <= m + a + m * c,
           \/ len2 <= m
           \/ a2 >= a /\ c2 >= c /\ len2 <= len
           \/ a2 >= a + 1 /\ c2 >= c /\ len2 <= len + 1
           \/ a2 >= a - 1 /\ c2 >= c + 1 /\ len2 <= len
           \/ a2 >= a /\ c2 >= c + 1 /\ len2 <= len + m
    PROVE  len2 <= m + a2 + m * c2
<1>1. m * c2 \in Nat /\ m * c \in Nat
  OBVIOUS
<1>2. c2 >= c => m * c2 >= m * c
  OBVIOUS
<1>3. c2 >= c + 1 => m * c2 >= m * c + m
  <2>1. m * (c + 1) = m * c + m
    OBVIOUS
  <2>2. c2 >= c + 1 => m * c2 >= m * (c + 1)
    OBVIOUS
  <2> QED
    BY <2>1, <2>2
<1> QED
  BY <1>1, <1>2, <1>3

LEMMA NextBounded ==
    ASSUME TypeInv, Next, NEW u \in Reader, BoundedList(u)
    PROVE  BoundedList(u)'
<1> USE DEF TypeInv
<1>1. /\ IsFiniteSet(Trimmers(u)) /\ IsFiniteSet(Trimmers(u)')
      /\ IsFiniteSet(TrimmingGets(u)) /\ IsFiniteSet(TrimmingGets(u)')
  BY TrimmersFinite
<1>2. /\ Cardinality(Trimmers(u)) \in Nat /\ Cardinality(Trimmers(u)') \in Nat
      /\ Cardinality(TrimmingGets(u)) \in Nat /\ Cardinality(TrimmingGets(u)') \in Nat
  BY <1>1, FS_CardinalityType
<1>3. faults \in Nat /\ faults' \in Nat /\ faults' >= faults /\ (Fault => faults' = faults + 1)
  BY WhoFails, FailureCounted DEF FaultType
<1>4. /\ cache[u] \in Seq(Entries) /\ cache'[u] \in Seq(Entries)
      /\ Len(cache[u]) \in Nat /\ Len(cache'[u]) \in Nat
  BY NextLists DEF ListType
<1>5. MaxFeed \in Nat \ {0}
  BY FeedBoundAssumption
<1> DEFINE a  == Cardinality(Trimmers(u))
           a2 == Cardinality(Trimmers(u)')
           c  == Cardinality(TrimmingGets(u)) + faults
           c2 == Cardinality(TrimmingGets(u)') + faults'
           n  == Len(cache[u])
           n2 == Len(cache'[u])
<1>6. /\ Same(u) => n2 <= n
      /\ Gone(u) => n2 <= n
      /\ CutAt(u) => n2 <= MaxFeed
      /\ \A h \in Handler : At(h, "push", u) /\ PushedTo(h, u) => n2 <= n + 1
      /\ \A r \in Request : FilledBy(r, u) => n2 <= n + MaxFeed
  <2>1. Same(u) => n2 <= n
    BY <1>4 DEF Same
  <2>2. Gone(u) => n2 <= n
    BY <1>4, EmptyList DEF Gone
  <2>3. CutAt(u) => n2 <= MaxFeed
    BY <1>4, TrimmedShorter DEF CutAt
  <2>4. ASSUME NEW h \in Handler, At(h, "push", u), PushedTo(h, u) PROVE n2 <= n + 1
    <3>1. Entry(task[h].post, 0) \in Entries
      BY <2>4, BusyType DEF At, Busy, Entry, Entries
    <3> QED
      BY <1>4, <2>4, <3>1, PushedOnce DEF PushedTo
  <2>5. ASSUME NEW r \in Request, FilledBy(r, u) PROVE n2 <= n + MaxFeed
    <3>1. get[r].rows \in Seq(Entries) /\ Len(get[r].rows) <= MaxFeed /\ Once(get[r].rows)
      BY DEF AskInv, GetType
    <3>2. n2 = n + Len(get[r].rows)
      BY <1>4, <2>5, <3>1, FilledOnce DEF FilledBy
    <3> QED
      BY <1>4, <1>5, <3>1, <3>2
  <2> QED
    BY <2>1, <2>2, <2>3, <2>4, <2>5
<1>7. \/ n2 <= MaxFeed
      \/ a2 >= a /\ c2 >= c /\ n2 <= n
      \/ a2 >= a + 1 /\ c2 >= c /\ n2 <= n + 1
      \/ a2 >= a - 1 /\ c2 >= c + 1 /\ n2 <= n
      \/ a2 >= a /\ c2 >= c + 1 /\ n2 <= n + MaxFeed
  <2>1. ASSUME NEW h \in Handler, HandlerStep(h)
        PROVE  \/ n2 <= MaxFeed
               \/ a2 >= a /\ c2 >= c /\ n2 <= n
               \/ a2 >= a + 1 /\ c2 >= c /\ n2 <= n + 1
               \/ a2 >= a - 1 /\ c2 >= c + 1 /\ n2 <= n
               \/ a2 >= a /\ c2 >= c + 1 /\ n2 <= n + MaxFeed
    <3>1. TrimmingGets(u)' = TrimmingGets(u)
      BY <2>1, ListsByHandler DEF TrimmingGets, askVars
    <3>2. Trimmers(u) \ {h} \subseteq Trimmers(u)'
      BY <2>1, ListsByHandler DEF Trimmers, At
    <3>3. /\ a2 >= a - 1
          /\ h \notin Trimmers(u) \/ h \in Trimmers(u)' => a2 >= a
          /\ h \notin Trimmers(u) /\ h \in Trimmers(u)' => a2 >= a + 1
      BY <1>1, <3>2, OneApart
    <3>4. /\ h \in Trimmers(u) <=> At(h, "trim", u)
          /\ h \in Trimmers(u)' <=> At(h, "trim", u)'
          /\ At(h, "push", u) => ~ At(h, "trim", u)
      BY DEF Trimmers, At
    <3>5. c2 >= c /\ (Fault => c2 >= c + 1)
      BY <1>2, <1>3, <3>1
    <3>6. \/ Same(u) /\ (At(h, "trim", u) => At(h, "trim", u)')
          \/ Same(u) /\ Fault
          \/ At(h, "push", u) /\ PushedTo(h, u) /\ (At(h, "trim", u)' \/ Fault)
          \/ At(h, "trim", u) /\ CutAt(u)
      BY <2>1, ListsByHandler
    <3> HIDE DEF a, a2, c, c2, n, n2
    <3>7. n \in Nat /\ n2 \in Nat
      BY <1>4 DEF n, n2
    <3> QED
      BY <1>5, <1>6, <3>3, <3>4, <3>5, <3>6, <3>7
  <2>2. ASSUME NEW r \in Request, RequestStep(r)
        PROVE  \/ n2 <= MaxFeed
               \/ a2 >= a /\ c2 >= c /\ n2 <= n
               \/ a2 >= a /\ c2 >= c + 1 /\ n2 <= n + MaxFeed
    <3>1. Trimmers(u)' = Trimmers(u)
      BY <2>2, ListsByRequest DEF Trimmers, At, pathVars
    <3>2. TrimmingGets(u) \ {r} \subseteq TrimmingGets(u)'
      BY <2>2, ListsByRequest DEF TrimmingGets
    <3> DEFINE b  == Cardinality(TrimmingGets(u))
               b2 == Cardinality(TrimmingGets(u)')
    <3>3. /\ b2 >= b - 1
          /\ r \notin TrimmingGets(u) \/ r \in TrimmingGets(u)' => b2 >= b
          /\ r \notin TrimmingGets(u) /\ r \in TrimmingGets(u)' => b2 >= b + 1
      BY <1>1, <3>2, OneApart
    <3>4. /\ r \in TrimmingGets(u) <=> get[r].at = "trim" /\ For[r] = u
          /\ r \in TrimmingGets(u)' <=> get'[r].at = "trim" /\ For[r] = u
      BY DEF TrimmingGets
    <3>5. \/ Same(u) /\ (For[r] # u \/ (get[r].at # "trim" /\ UNCHANGED faults))
          \/ Same(u) /\ Fault
          \/ /\ For[r] = u /\ get[r].at = "fill" /\ FilledBy(r, u) /\ get'[r].at \in {"trim", "idle"}
             /\ get'[r].at = "trim" \/ Fault
          \/ For[r] = u /\ get[r].at = "trim" /\ CutAt(u)
      BY <2>2, ListsByRequest
    <3>6. a2 >= a
      BY <1>2, <3>1
    <3>7. CASE Same(u) /\ (For[r] # u \/ (get[r].at # "trim" /\ UNCHANGED faults))
      BY <1>2, <1>3, <1>6, <3>3, <3>4, <3>6, <3>7
    <3>8. CASE Same(u) /\ Fault
      BY <1>2, <1>3, <1>6, <3>3, <3>6, <3>8
    <3>9. CASE /\ For[r] = u /\ get[r].at = "fill" /\ FilledBy(r, u)
               /\ get'[r].at = "trim" \/ Fault
      <4>1. n2 <= n + MaxFeed
        BY <1>6, <3>9
      <4>2. c2 >= c + 1
        BY <1>2, <1>3, <3>3, <3>4, <3>9
      <4> QED
        BY <3>6, <4>1, <4>2
    <3>10. CASE CutAt(u)
      BY <1>6, <3>10
    <3> QED
      BY <3>5, <3>7, <3>8, <3>9, <3>10
  <2>3. CASE OtherStep
    <3>1. Trimmers(u)' = Trimmers(u) /\ TrimmingGets(u)' = TrimmingGets(u) /\ n2 <= n
      BY <1>6, <2>3, ListsByOthers DEF Trimmers, At, TrimmingGets
    <3> QED
      BY <1>2, <1>3, <3>1
  <2> QED
    BY <2>1, <2>2, <2>3, WhoSteps
<1>8. n <= MaxFeed + a + MaxFeed * c
  BY DEF BoundedList, Extra
<1>9. a \in Nat /\ a2 \in Nat /\ c \in Nat /\ c2 \in Nat /\ n \in Nat /\ n2 \in Nat
  BY <1>2, <1>3, <1>4
<1> HIDE DEF a, a2, c, c2, n, n2
<1>10. n2 <= MaxFeed + a2 + MaxFeed * c2
  BY <1>5, <1>7, <1>8, <1>9, RoomGrows
<1> QED
  BY <1>10 DEF BoundedList, Extra, a2, c2, n2

(* FeedsBounded: whatever overlaps, a list is longer than kMaxFeedSize only  *)
(* by what runs between a push and its trim, or was interrupted there.       *)
THEOREM ListsDoNotGrow == Spec => []FeedsBounded
<1> DEFINE Inv == \A u \in Reader : BoundedList(u)
<1>1. Init => Inv
  <2> SUFFICES ASSUME Init, NEW u \in Reader PROVE BoundedList(u)
    OBVIOUS
  <2>1. cache[u] = Absent /\ faults = 0
    BY DEF Init
  <2>2. Cardinality(Trimmers(u)) \in Nat /\ Cardinality(TrimmingGets(u)) \in Nat
    BY TrimmersFinite, FS_CardinalityType
  <2>3. Extra(u) \in Nat
    BY <2>1, <2>2 DEF Extra
  <2>4. MaxFeed * Extra(u) \in Nat /\ MaxFeed \in Nat
    BY <2>3, FeedBoundAssumption
  <2> QED
    BY <2>1, <2>2, <2>4, EmptyList DEF BoundedList
<1>2. TypeInv /\ Inv /\ [Next]_vars => Inv'
  <2> SUFFICES ASSUME TypeInv, Inv, [Next]_vars, NEW u \in Reader PROVE BoundedList(u)'
    OBVIOUS
  <2>1. CASE Next
    BY <2>1, NextBounded
  <2>2. CASE UNCHANGED vars
    <3>1. Trimmers(u)' = Trimmers(u) /\ TrimmingGets(u)' = TrimmingGets(u) /\ UNCHANGED <<cache, faults>>
      BY <2>2 DEF vars, Trimmers, At, TrimmingGets, askVars
    <3> QED
      BY <3>1 DEF BoundedList, Extra
  <2> QED
    BY <2>1, <2>2
<1>3. TypeInv /\ Inv => FeedsBounded
  <2> SUFFICES ASSUME TypeInv, Inv, NEW u \in Reader
               PROVE  Len(cache[u]) <= MaxFeed + Cardinality(Trimmers(u))
                          + MaxFeed * Cardinality(TrimmingGets(u)) + MaxFeed * faults
    BY DEF FeedsBounded, Trimmers, TrimmingGets
  <2> DEFINE b == Cardinality(TrimmingGets(u))
  <2>1. b \in Nat /\ faults \in Nat /\ MaxFeed \in Nat /\ Cardinality(Trimmers(u)) \in Nat
    BY TrimmersFinite, FS_CardinalityType, FeedBoundAssumption DEF TypeInv, FaultType
  <2> HIDE DEF b
  <2>2. MaxFeed * (b + faults) = MaxFeed * b + MaxFeed * faults
    BY <2>1
  <2>3. MaxFeed * b \in Nat /\ MaxFeed * faults \in Nat
    BY <2>1
  <2>4. Len(cache[u]) <= MaxFeed + Cardinality(Trimmers(u)) + MaxFeed * (b + faults)
    BY DEF BoundedList, Extra, b
  <2> QED
    BY <2>1, <2>2, <2>3, <2>4 DEF b
<1> QED
  BY <1>1, <1>2, <1>3, TypeInvariant, PTL DEF Spec

-----------------------------------------------------------------------------
(* Materialization misses nobody.  The event of a post is nowhere before it  *)
(* is published; a reader who is owed one has a list and is followed in every *)
(* state a replica may show, and while the post is not in it, every handler  *)
(* of the post has him yet to serve.                                         *)
NowhereYet ==
    \A p \in Post : create[p] \in {"new", "inserted"} =>
        /\ p \notin queue /\ times[p] = 0
        /\ \A h \in Handler : Busy(h) => task[h].post # p

Served(u, p) ==
    \/ \E i \in DOMAIN cache[u] : cache[u][i].post = p
    \/ Len(cache[u]) >= MaxFeed
Ahead(h, u, p) ==
    Busy(h) /\ task[h].post = p =>
        task[h].at = "start" \/ (u \in task[h].todo /\ ~ At(h, "trim", u))
Followed(u, p) == \A d \in States : u \in FollowersOf(d, Author[p])
Owed(u, p) ==
    /\ cache[u] # Absent /\ Followed(u, p)
    /\ \/ Served(u, p)
       \/ times[p] = 0 /\ \A h \in Handler : Ahead(h, u, p)
OwedInv == \A u \in Reader, p \in Post : <<u, p>> \in warm => Owed(u, p)

LEMMA TaskOfOthers ==
    ASSUME TypeInv, NEW h \in Handler, HandlerStep(h), NEW g \in Handler \ {h}
    PROVE  task'[g] = task[g]
BY DEF HandlerStep, Serving, TakeEvent, ReadFollowers, CheckKey, PushPost, TrimFeed, FanOut,
       HandlerThrows, LoseChannel, Goto, TypeInv, TaskInv

LEMMA TaskOfOne ==
    ASSUME TypeInv, NEW h \in Handler, HandlerStep(h)
    PROVE  \/ task'[h] = FreeTask
           \/ \E q \in Post : TakeEvent(h, q) /\ task'[h] = NewTask(q)
           \/ Busy(h) /\ task'[h].post = task[h].post /\ task'[h].at # "free"
<1> USE DEF TypeInv
<1>1. ASSUME NEW at, NEW now, NEW todo, Busy(h), Goto(h, at, now, todo)
      PROVE  Busy(h) /\ task'[h].post = task[h].post /\ task'[h].at = at
  BY <1>1, BusyType DEF Goto, TaskInv, BusyTask
<1>2. CASE \E q \in Post : TakeEvent(h, q)
  BY <1>2 DEF TakeEvent, TaskInv
<1>3. CASE ReadFollowers(h)
  BY <1>1, <1>3 DEF ReadFollowers, Busy
<1>4. ASSUME NEW u \in Reader, CheckKey(h, u)
      PROVE  Busy(h) /\ task'[h].post = task[h].post /\ task'[h].at # "free"
  <2>1. Busy(h) /\ (Goto(h, "push", {u}, task[h].todo) \/ Goto(h, "loop", {}, Others(h, u)))
    BY <1>4 DEF CheckKey, Busy
  <2> QED
    BY <1>1, <2>1
<1>5. ASSUME NEW u \in Reader, PushPost(h, u) \/ TrimFeed(h, u)
      PROVE  Busy(h) /\ task'[h].post = task[h].post /\ task'[h].at # "free"
  <2>1. Busy(h) /\ (Goto(h, "trim", {u}, task[h].todo) \/ Goto(h, "loop", {}, task[h].todo \ {u}))
    BY <1>5 DEF PushPost, TrimFeed, At, Busy
  <2> QED
    BY <1>1, <2>1
<1>6. CASE FanOut(h) \/ HandlerThrows(h)
  BY <1>6 DEF FanOut, HandlerThrows, TaskInv
<1>7. CASE LoseChannel(h)
  BY <1>7, BusyType DEF LoseChannel, TaskInv, BusyTask, Busy
<1> QED
  BY <1>2, <1>3, <1>4, <1>5, <1>6, <1>7 DEF HandlerStep, Serving

LEMMA NextNowhere ==
    ASSUME TypeInv, NowhereYet, Next
    PROVE  NowhereYet'
<1> USE DEF TypeInv
<1>1. SUFFICES ASSUME NEW p \in Post, create'[p] \in {"new", "inserted"}
               PROVE  /\ p \notin queue' /\ times'[p] = 0
                      /\ \A h \in Handler : task'[h].at # "free" => task'[h].post # p
  BY DEF NowhereYet, Busy
<1>2. create[p] \in {"new", "inserted"}
  BY <1>1, WhoCreates DEF PathType, Insert, Publish, PublishThrows
<1>3. p \notin queue /\ times[p] = 0 /\ \A h \in Handler : Busy(h) => task[h].post # p
  BY <1>2 DEF NowhereYet
<1>4. p \notin queue'
  <2>1. ASSUME NEW q \in Post, Publish(q) \/ PublishThrows(q) PROVE p \notin queue'
    <3>1. p # q
      BY <1>1, <2>1 DEF Publish, PublishThrows, PathType
    <3> QED
      BY <1>3, <2>1, <3>1 DEF Publish, PublishThrows, Enqueued
  <2>2. CASE Handling
    BY <1>3, <2>2 DEF Handling, TakeEvent, Serving, ReadFollowers, CheckKey, PushPost, TrimFeed,
       FanOut, Acked, HandlerThrows, Requeued, LoseChannel
  <2> QED
    BY <1>3, <2>1, <2>2, WhoQueues
<1>5. times'[p] = 0
  <2>1. ASSUME NEW h \in Handler, Sends(h) /\ SentOnce(h) PROVE times'[p] = 0
    <3>1. Busy(h)
      BY <2>1 DEF Sends, Busy
    <3>2. task[h].post # p
      BY <1>3, <3>1
    <3> QED
      BY <1>3, <2>1, <3>2 DEF SentOnce, PathType
  <2>2. CASE Handling
    <3>1. UNCHANGED times \/ \E h \in Handler : Sends(h) /\ SentOnce(h)
      BY <2>2 DEF Handling, TakeEvent, Serving, ReadFollowers, CheckKey, PushPost, TrimFeed,
                  FanOut, HandlerThrows, LastEffect, LoseChannel
    <3> QED
      BY <1>3, <2>1, <3>1
  <2> QED
    BY <1>3, <2>2, WhoHandles
<1>6. ASSUME NEW g \in Handler, task'[g].at # "free" PROVE task'[g].post # p
  <2>1. CASE UNCHANGED task
    BY <1>3, <1>6, <2>1 DEF Busy
  <2>2. ASSUME NEW h \in Handler, HandlerStep(h) PROVE task'[g].post # p
    <3>1. CASE g # h
      <4>1. task'[g] = task[g]
        BY <2>2, <3>1, TaskOfOthers
      <4> QED
        BY <1>3, <1>6, <4>1 DEF Busy
    <3>2. CASE g = h
      <4>1. \/ \E q \in Post : TakeEvent(h, q) /\ task'[h] = NewTask(q)
            \/ Busy(h) /\ task'[h].post = task[h].post
        <5>1. task'[h] # FreeTask
          BY <1>6, <3>2 DEF FreeTask
        <5> QED
          BY <2>2, <5>1, TaskOfOne
      <4>2. ASSUME NEW q \in Post, TakeEvent(h, q), task'[h] = NewTask(q) PROVE task'[g].post # p
        <5>1. q \in queue /\ task'[h].post = q
          BY <4>2 DEF TakeEvent, NewTask
        <5> QED
          BY <1>3, <3>2, <5>1
      <4> QED
        BY <1>3, <3>2, <4>1, <4>2
    <3> QED
      BY <3>1, <3>2
  <2> QED
    BY <2>1, <2>2, WhoHandles DEF Handling, HandlerStep
<1> QED
  BY <1>4, <1>5, <1>6

(* A reader who is followed in every state stays so, and one with a list     *)
(* keeps it, as long as he is in warm.                                       *)
LEMMA NextFollowed ==
    ASSUME TypeInv, Next, NEW u \in Reader, NEW p \in Post, Followed(u, p),
           <<u, p>> \in warm'
    PROVE  Followed(u, p)'
<1> USE DEF TypeInv
<1>0. db \in States /\ db \in Databases /\ States \subseteq Databases
  BY MasterIsRead
<1>1. ASSUME NEW d \in Databases, Write(d), u \in FollowersOf(d, Author[p])
      PROVE  Followed(u, p)'
  <2>1. States' \subseteq States \cup {d}
    BY <1>1, WriteEffect
  <2> QED
    BY <1>1, <2>1 DEF Followed
<1>2. u \in FollowersOf(db, Author[p])
  BY <1>0 DEF Followed
<1>3. \A d : d.follows = db.follows => u \in FollowersOf(d, Author[p])
  BY <1>2 DEF FollowersOf
<1>4. ASSUME NEW q \in Post, Insert(q) PROVE Followed(u, p)'
  <2> DEFINE d == [db EXCEPT !.log = <<Entry(q, 0)>> \o @]
  <2>1. d \in Databases /\ d.follows = db.follows
    <3>1. Entry(q, 0) \in Entries /\ db.log \in Seq(Entries)
      BY <1>0 DEF Entry, Entries, Databases
    <3>2. <<Entry(q, 0)>> \o db.log \in Seq(Entries)
      BY <3>1
    <3> QED
      BY <1>0, <3>2 DEF Databases
  <2>2. Write(d)
    BY <1>4 DEF Insert
  <2> HIDE DEF d
  <2> QED
    BY <1>1, <1>3, <2>1, <2>2
<1>5. ASSUME NEW q \in Post, UpdatePost(q) PROVE Followed(u, p)'
  <2> DEFINE d == [db EXCEPT !.log = [i \in DOMAIN @ |-> IF @[i].post = q THEN Entry(q, 1) ELSE @[i]]]
  <2>1. d \in Databases /\ d.follows = db.follows
    <3>1. db.log \in Seq(Entries) /\ Entry(q, 1) \in Entries
      BY <1>0 DEF Databases, Entry, Entries
    <3>2. [i \in DOMAIN db.log |-> IF db.log[i].post = q THEN Entry(q, 1) ELSE db.log[i]] \in Seq(Entries)
      BY <3>1, UpdatedLog
    <3> QED
      BY <1>0, <3>2 DEF Databases
  <2>2. Write(d)
    BY <1>5 DEF UpdatePost
  <2> HIDE DEF d
  <2> QED
    BY <1>1, <1>3, <2>1, <2>2
<1>6. ASSUME NEW q \in Post, DeletePost(q) PROVE Followed(u, p)'
  <2>1. PICK i \in DOMAIN db.log :
            Write([db EXCEPT !.log = SubSeq(@, 1, i - 1) \o SubSeq(@, i + 1, Len(@))])
    BY <1>6 DEF DeletePost
  <2> DEFINE d == [db EXCEPT !.log = SubSeq(@, 1, i - 1) \o SubSeq(@, i + 1, Len(@))]
  <2>2. d \in Databases /\ d.follows = db.follows
    <3>1. db.log \in Seq(Entries)
      BY <1>0 DEF Databases
    <3>2. SubSeq(db.log, 1, i - 1) \o SubSeq(db.log, i + 1, Len(db.log)) \in Seq(Entries)
      BY <3>1, DeletedLog
    <3> QED
      BY <1>0, <3>2 DEF Databases
  <2>3. Write(d)
    BY <2>1
  <2> HIDE DEF d
  <2> QED
    BY <1>1, <1>3, <2>2, <2>3
<1>7. ASSUME NEW v \in Reader, NEW w \in Writer, Follow(v, w) \/ Unfollow(v, w)
      PROVE  Followed(u, p)'
  <2>1. PICK f \in SUBSET (Reader \X Writer) :
            /\ WriteLink(v, f)
            /\ f = db.follows \cup {<<v, w>>} \/ f = db.follows \ {<<v, w>>}
    <3>1. db.follows \cup {<<v, w>>} \in SUBSET (Reader \X Writer)
      BY <1>0 DEF Databases
    <3>2. db.follows \ {<<v, w>>} \in SUBSET (Reader \X Writer)
      BY <1>0 DEF Databases
    <3> QED
      BY <1>7, <3>1, <3>2 DEF Follow, Unfollow
  <2>2. u # v
    BY <2>1 DEF WriteLink
  <2> DEFINE d == [db EXCEPT !.follows = f]
  <2>3. d \in Databases /\ d.follows = f
    BY <1>0 DEF Databases
  <2>4. u \in FollowersOf(d, Author[p])
    BY <1>2, <2>1, <2>2, <2>3 DEF FollowersOf
  <2>5. UNCHANGED wal \/ Write(d)
    BY <2>1 DEF WriteLink
  <2> HIDE DEF d
  <2>6. CASE Write(d)
    BY <1>1, <2>3, <2>4, <2>6
  <2>7. CASE UNCHANGED wal
    BY <2>7 DEF Followed, States
  <2> QED
    BY <2>5, <2>6, <2>7
<1>8. CASE Replicate
  BY <1>8, ReplicateEffect DEF Followed
<1>9. CASE UNCHANGED wal
  BY <1>9 DEF Followed, States
<1> QED
  BY <1>4, <1>5, <1>6, <1>7, <1>8, <1>9, WhoWrites

LEMMA ListStays ==
    ASSUME TypeInv, NEW u \in Reader, cache[u] # Absent,
           \/ Same(u) \/ CutAt(u)
           \/ \E h \in Handler : Busy(h) /\ PushedTo(h, u)
           \/ \E r \in Request : FilledBy(r, u)
    PROVE  cache'[u] # Absent
<1> USE DEF TypeInv
<1>1. cache[u] \in Seq(Entries) /\ Len(cache[u]) \in Nat /\ Len(cache[u]) # 0
  BY DEF ListType, Absent
<1>2. CASE Same(u)
  BY <1>2 DEF Same
<1>3. CASE CutAt(u)
  <2>1. MaxFeed \in Nat \ {0}
    BY FeedBoundAssumption
  <2>2. Len(Trimmed(cache[u])) = IF Len(cache[u]) < MaxFeed THEN Len(cache[u]) ELSE MaxFeed
    BY <1>1, <2>1, TakeProperties DEF Trimmed
  <2> QED
    BY <1>1, <1>3, <2>1, <2>2 DEF CutAt, Absent
<1>4. ASSUME NEW e \in Seq(Entries), cache'[u] = e \o cache[u] \/ cache'[u] = cache[u] \o e
      PROVE  cache'[u] # Absent
  <2>1. Len(e) \in Nat /\ Len(e \o cache[u]) = Len(e) + Len(cache[u]) /\ Len(cache[u] \o e) = Len(cache[u]) + Len(e)
    BY <1>1, <1>4
  <2> QED
    BY <1>1, <1>4, <2>1 DEF Absent
<1>5. ASSUME NEW h \in Handler, Busy(h), PushedTo(h, u) PROVE cache'[u] # Absent
  <2>1. Entry(task[h].post, 0) \in Entries
    BY <1>5, BusyType DEF Entry, Entries
  <2>2. <<Entry(task[h].post, 0)>> \in Seq(Entries)
    BY <2>1
  <2> QED
    BY <1>4, <1>5, <2>2 DEF PushedTo
<1>6. ASSUME NEW r \in Request, FilledBy(r, u) PROVE cache'[u] # Absent
  <2>1. get[r].rows \in Seq(Entries)
    BY DEF AskInv, GetType
  <2> QED
    BY <1>4, <1>6, <2>1 DEF FilledBy
<1> QED
  BY <1>2, <1>3, <1>5, <1>6

LEMMA ServedStays ==
    ASSUME TypeInv, NEW u \in Reader, NEW p \in Post, Served(u, p), cache[u] # Absent,
           \/ Same(u) \/ CutAt(u)
           \/ \E h \in Handler : Busy(h) /\ PushedTo(h, u)
           \/ \E r \in Request : FilledBy(r, u)
    PROVE  Served(u, p)'
<1> USE DEF TypeInv
<1>1. cache[u] \in Seq(Entries) /\ Len(cache[u]) \in Nat /\ Len(cache[u]) # 0
  BY DEF ListType, Absent
<1>2. CASE Same(u)
  BY <1>2 DEF Same, Served
<1>3. CASE CutAt(u)
  <2>1. MaxFeed \in Nat \ {0}
    BY FeedBoundAssumption
  <2>2. Trimmed(cache[u]) \in Seq(Entries)
        /\ Len(Trimmed(cache[u])) = (IF Len(cache[u]) < MaxFeed THEN Len(cache[u]) ELSE MaxFeed)
        /\ (Len(cache[u]) <= MaxFeed => Trimmed(cache[u]) = cache[u])
    BY <1>1, <2>1, TakeProperties DEF Trimmed
  <2>4. CASE Len(cache[u]) < MaxFeed
    BY <1>1, <1>3, <2>1, <2>2, <2>4 DEF CutAt, Served
  <2>5. CASE ~ (Len(cache[u]) < MaxFeed)
    BY <1>1, <1>3, <2>1, <2>2, <2>5 DEF CutAt, Served
  <2> QED
    BY <2>4, <2>5
<1>4. ASSUME NEW e \in Seq(Entries), Len(e) \in Nat,
             cache'[u] = e \o cache[u] \/ cache'[u] = cache[u] \o e
      PROVE  Served(u, p)'
  <2>1. /\ cache'[u] \in Seq(Entries) /\ Len(cache'[u]) = Len(cache[u]) + Len(e)
        /\ \A i \in 1 .. Len(cache[u]) :
               \E j \in 1 .. Len(cache'[u]) : cache'[u][j] = cache[u][i]
    <3>1. CASE cache'[u] = e \o cache[u]
      <4>1. \A i \in 1 .. Len(cache[u]) : cache'[u][Len(e) + i] = cache[u][i]
                 /\ Len(e) + i \in 1 .. Len(cache'[u])
        BY <1>1, <1>4, <3>1
      <4> QED
        BY <1>1, <1>4, <3>1, <4>1
    <3>2. CASE cache'[u] = cache[u] \o e
      <4>1. \A i \in 1 .. Len(cache[u]) : cache'[u][i] = cache[u][i] /\ i \in 1 .. Len(cache'[u])
        BY <1>1, <1>4, <3>2
      <4> QED
        BY <1>1, <1>4, <3>2, <4>1
    <3> QED
      BY <1>4, <3>1, <3>2
  <2>2. Len(cache'[u]) >= Len(cache[u])
    BY <1>1, <1>4, <2>1
  <2>3. CASE Len(cache[u]) >= MaxFeed
    BY <1>1, <2>1, <2>2, <2>3, FeedBoundAssumption DEF Served
  <2>4. CASE \E i \in DOMAIN cache[u] : cache[u][i].post = p
    <3>1. PICK i \in 1 .. Len(cache[u]) : cache[u][i].post = p
      BY <1>1, <2>4
    <3>2. PICK j \in 1 .. Len(cache'[u]) : cache'[u][j] = cache[u][i]
      BY <2>1
    <3>3. j \in DOMAIN cache'[u] /\ cache'[u][j].post = p
      BY <2>1, <3>1, <3>2
    <3> QED
      BY <2>2, <3>3 DEF Served
  <2> QED
    BY <2>3, <2>4 DEF Served
<1>5. ASSUME NEW h \in Handler, Busy(h), PushedTo(h, u) PROVE Served(u, p)'
  <2>1. Entry(task[h].post, 0) \in Entries
    BY <1>5, BusyType DEF Entry, Entries
  <2>2. <<Entry(task[h].post, 0)>> \in Seq(Entries) /\ Len(<<Entry(task[h].post, 0)>>) \in Nat
    BY <2>1
  <2> QED
    BY <1>4, <1>5, <2>2 DEF PushedTo
<1>6. ASSUME NEW r \in Request, FilledBy(r, u) PROVE Served(u, p)'
  <2>1. get[r].rows \in Seq(Entries) /\ Len(get[r].rows) \in Nat
    BY DEF AskInv, GetType
  <2> QED
    BY <1>4, <1>6, <2>1 DEF FilledBy
<1> QED
  BY <1>2, <1>3, <1>5, <1>6

LEMMA WarmListsStay ==
    ASSUME TypeInv, OtherStep, NEW u \in Reader, NEW p \in Post, <<u, p>> \in warm, <<u, p>> \in warm'
    PROVE  Same(u)
<1> USE DEF TypeInv, ListType
<1>1. ASSUME NEW us, DeleteLists(us) PROVE Same(u)
  BY <1>1 DEF DeleteLists, Same
<1>2. CASE Creating
  BY <1>2 DEF Creating, ConstructPublisher, Insert, Publish, PublishThrows, Same
<1>3. CASE Editing
  BY <1>1, <1>3 DEF Editing, UpdatePost, DeletePost, ReadEdited, InvalidateEdited, EditThrows, Same
<1>4. CASE Linking
  BY <1>1, <1>4 DEF Linking, Follow, Unfollow, WriteLink, InvalidateLinked, LinkThrows, Same
<1>5. CASE Replicate
  BY <1>5 DEF Replicate, Same
<1> QED
  BY <1>2, <1>3, <1>4, <1>5 DEF OtherStep

LEMMA ServesInOrder ==
    ASSUME TypeInv, NEW h \in Handler, HandlerStep(h), NEW u \in Reader, NEW p \in Post,
           cache[u] # Absent, Followed(u, p),
           \/ Served(u, p)
           \/ times[p] = 0 /\ Ahead(h, u, p)
    PROVE  \/ Served(u, p)'
           \/ times'[p] = 0 /\ Ahead(h, u, p)'
<1> USE DEF TypeInv
<1>1. CASE Served(u, p)
  <2>1. \/ Same(u) \/ CutAt(u)
        \/ Busy(h) /\ PushedTo(h, u)
    <3>1. \/ Same(u) \/ CutAt(u)
          \/ At(h, "push", u) /\ PushedTo(h, u)
      BY ListsByHandler
    <3> QED
      BY <3>1 DEF At, Busy
  <2> QED
    BY <1>1, <2>1, ServedStays
<1>2. ASSUME times[p] = 0, Ahead(h, u, p)
      PROVE  \/ Served(u, p)'
             \/ times'[p] = 0 /\ Ahead(h, u, p)'
  <2>1. ASSUME NEW q \in Post, TakeEvent(h, q) PROVE times'[p] = 0 /\ Ahead(h, u, p)'
    <3>1. task'[h] = NewTask(q) /\ UNCHANGED times
      BY <2>1 DEF TakeEvent, TaskInv
    <3> QED
      BY <1>2, <3>1 DEF Ahead, NewTask
  <2>2. ASSUME NEW at, NEW now, NEW todo, Goto(h, at, now, todo), Busy(h)
        PROVE  /\ task'[h].at = at /\ task'[h].now = now /\ task'[h].todo = todo
               /\ task'[h].post = task[h].post
    BY <2>2, BusyType DEF Goto, TaskInv, BusyTask
  <2>3. CASE ReadFollowers(h)
    <3>1. PICK d \in States : Goto(h, "loop", {}, FollowersOf(d, Author[task[h].post]))
      BY <2>3 DEF ReadFollowers
    <3>2. Busy(h) /\ UNCHANGED times
      BY <2>3 DEF ReadFollowers, Busy
    <3>3. /\ task'[h].now = {} /\ task'[h].todo = FollowersOf(d, Author[task[h].post])
          /\ task'[h].post = task[h].post
      BY <2>2, <3>1, <3>2
    <3>4. task[h].post = p => u \in task'[h].todo
      BY <3>3 DEF Followed
    <3> QED
      BY <1>2, <3>2, <3>3, <3>4 DEF Ahead, At
  <2>4. ASSUME NEW v \in Reader, CheckKey(h, v) PROVE times'[p] = 0 /\ Ahead(h, u, p)'
    <3>1. Busy(h) /\ UNCHANGED times /\ task[h].at = "loop"
      BY <2>4 DEF CheckKey, Busy
    <3>2. \/ v # u /\ Goto(h, "loop", {}, Others(h, v))
          \/ Goto(h, "push", {v}, task[h].todo)
      BY <2>4 DEF CheckKey
    <3>3. CASE v # u /\ Goto(h, "loop", {}, Others(h, v))
      <4>1. task'[h].now = {} /\ task'[h].todo = task[h].todo \ {v} /\ task'[h].post = task[h].post
        BY <2>2, <3>1, <3>3 DEF Others
      <4> QED
        BY <1>2, <3>1, <3>3, <4>1 DEF Ahead, At
    <3>4. CASE Goto(h, "push", {v}, task[h].todo)
      <4>1. task'[h].at = "push" /\ task'[h].todo = task[h].todo /\ task'[h].post = task[h].post
        BY <2>2, <3>1, <3>4
      <4> QED
        BY <1>2, <3>1, <4>1 DEF Ahead, At
    <3> QED
      BY <3>2, <3>3, <3>4
  <2>5. ASSUME NEW v \in Reader, PushPost(h, v)
        PROVE  Served(u, p)' \/ (times'[p] = 0 /\ Ahead(h, u, p)')
    <3>1. /\ Busy(h) /\ UNCHANGED times /\ task[h].at = "push" /\ cache' = Pushed(h, v)
          /\ Goto(h, "trim", {v}, task[h].todo)
      BY <2>5 DEF PushPost, At, Busy
    <3>2. task'[h].now = {v} /\ task'[h].todo = task[h].todo /\ task'[h].post = task[h].post
      BY <2>2, <3>1
    <3>3. CASE v = u /\ task[h].post = p
      <4>1. cache'[u] = <<Entry(p, 0)>> \o cache[u]
        BY <3>1, <3>3 DEF Pushed, ListType
      <4>2. Entry(p, 0) \in Entries /\ Entry(p, 0).post = p
        BY DEF Entry, Entries
      <4>3. 1 \in DOMAIN cache'[u] /\ cache'[u][1] = Entry(p, 0)
        <5> HIDE DEF Entry
        <5> QED
          BY <4>1, <4>2 DEF ListType
      <4> QED
        BY <4>2, <4>3 DEF Served
    <3>4. CASE v # u
      BY <1>2, <3>1, <3>2, <3>4 DEF Ahead, At
    <3>5. CASE task[h].post # p
      BY <1>2, <3>1, <3>2, <3>5 DEF Ahead
    <3> QED
      BY <3>3, <3>4, <3>5
  <2>6. ASSUME NEW v \in Reader, TrimFeed(h, v) PROVE times'[p] = 0 /\ Ahead(h, u, p)'
    <3>1. /\ Busy(h) /\ UNCHANGED times /\ task[h].at = "trim" /\ v \in task[h].now
          /\ Goto(h, "loop", {}, task[h].todo \ {v})
      BY <2>6 DEF TrimFeed, At, Busy
    <3>2. /\ task'[h].now = {} /\ task'[h].todo = task[h].todo \ {v}
          /\ task'[h].post = task[h].post
      BY <2>2, <3>1
    <3> QED
      BY <1>2, <3>1, <3>2 DEF Ahead, At
  <2>7. Sends(h) => task[h].post # p
    BY <1>2 DEF Sends, Ahead, Busy
  <2>8. SentOnce(h) /\ Sends(h) => times'[p] = 0
    BY <1>2, <2>7 DEF SentOnce, PathType
  <2>9. CASE FanOut(h) \/ HandlerThrows(h)
    <3>1. task'[h] = FreeTask /\ times'[p] = 0
      BY <1>2, <2>8, <2>9 DEF FanOut, HandlerThrows, LastEffect, TaskInv
    <3> QED
      BY <3>1 DEF Ahead, Busy, FreeTask
  <2>10. CASE LoseChannel(h)
    <3>1. /\ Busy(h) /\ UNCHANGED times
          /\ task'[h] = [task[h] EXCEPT !.own = FALSE]
      BY <2>10 DEF LoseChannel, TaskInv
    <3>2. /\ task'[h].at = task[h].at /\ task'[h].post = task[h].post
          /\ task'[h].todo = task[h].todo /\ task'[h].now = task[h].now
      BY <3>1, BusyType DEF BusyTask
    <3> QED
      BY <1>2, <3>1, <3>2 DEF Ahead, At, Busy
  <2> QED
    BY <2>1, <2>3, <2>4, <2>5, <2>6, <2>9, <2>10 DEF HandlerStep, Serving
<1> QED
  BY <1>1, <1>2

LEMMA NextOwed ==
    ASSUME TypeInv, NowhereYet, OwedInv, Next, NEW u \in Reader, NEW p \in Post,
           <<u, p>> \in warm'
    PROVE  Owed(u, p)'
<1> USE DEF TypeInv
<1>1. CASE <<u, p>> \in warm
  <2>1. /\ cache[u] # Absent /\ Followed(u, p)
        /\ \/ Served(u, p)
           \/ times[p] = 0 /\ \A h \in Handler : Ahead(h, u, p)
    BY <1>1 DEF OwedInv, Owed
  <2>2. Followed(u, p)'
    BY <1>1, <2>1, NextFollowed
  <2>3. ASSUME NEW h \in Handler, HandlerStep(h) PROVE Owed(u, p)'
    <3>1. \/ Same(u) \/ CutAt(u)
          \/ Busy(h) /\ PushedTo(h, u)
      <4>1. \/ Same(u) \/ CutAt(u)
            \/ At(h, "push", u) /\ PushedTo(h, u)
        BY <2>3, ListsByHandler
      <4> QED
        BY <4>1 DEF At, Busy
    <3>2. cache'[u] # Absent
      BY <2>1, <3>1, ListStays
    <3>3. CASE Served(u, p)
      <4>1. Served(u, p)'
        BY <2>1, <3>1, <3>3, ServedStays
      <4> QED
        BY <2>2, <3>2, <4>1 DEF Owed
    <3>4. CASE times[p] = 0 /\ \A g \in Handler : Ahead(g, u, p)
      <4>1. Served(u, p)' \/ (times'[p] = 0 /\ Ahead(h, u, p)')
        BY <2>1, <2>3, <3>4, ServesInOrder
      <4>2. \A g \in Handler \ {h} : Ahead(g, u, p)'
        BY <2>3, <3>4, TaskOfOthers DEF Ahead, Busy, At
      <4>3. CASE Served(u, p)'
        BY <2>2, <3>2, <4>3 DEF Owed
      <4>4. CASE times'[p] = 0 /\ Ahead(h, u, p)'
        <5>1. \A g \in Handler : Ahead(g, u, p)'
          BY <4>2, <4>4
        <5> QED
          BY <2>2, <3>2, <4>4, <5>1 DEF Owed
      <4> QED
        BY <4>1, <4>3, <4>4
    <3> QED
      BY <2>1, <3>3, <3>4
  <2>4. ASSUME UNCHANGED <<task, times>>,
               Same(u) \/ CutAt(u) \/ \E r \in Request : FilledBy(r, u)
        PROVE  Owed(u, p)'
    <3>1. cache'[u] # Absent
      BY <2>1, <2>4, ListStays
    <3>2. Served(u, p) => Served(u, p)'
      BY <2>1, <2>4, ServedStays
    <3>3. \A h \in Handler : Ahead(h, u, p) => Ahead(h, u, p)'
      BY <2>4 DEF Ahead, Busy, At
    <3> QED
      BY <2>1, <2>2, <2>4, <3>1, <3>2, <3>3 DEF Owed
  <2>5. ASSUME NEW r \in Request, RequestStep(r) PROVE Owed(u, p)'
    <3>1. UNCHANGED <<task, times>>
      BY <2>5, ListsByRequest DEF pathVars
    <3>2. Same(u) \/ CutAt(u) \/ FilledBy(r, u)
      BY <2>5, ListsByRequest
    <3> QED
      BY <2>4, <3>1, <3>2
  <2>6. CASE OtherStep
    <3>1. UNCHANGED <<task, times>>
      BY <2>6, ListsByOthers
    <3>2. Same(u)
      BY <1>1, <2>6, WarmListsStay
    <3> QED
      BY <2>4, <3>1, <3>2
  <2> QED
    BY <2>3, <2>5, <2>6, WhoSteps
<1>2. CASE <<u, p>> \notin warm
  <2>1. PICK q \in Post : Insert(q)
    BY <1>2, WhoWarms
  <2> DEFINE W == {v \in Reader : cache[v] # Absent /\ \A d \in States : v \in FollowersOf(d, Author[q])}
  <2>2. warm' = warm \cup {<<v, q>> : v \in W} /\ create[q] = "new" /\ UNCHANGED <<cache, task, times>>
    BY <2>1 DEF Insert
  <2>3. p = q /\ u \in W
    <3> HIDE DEF W
    <3> QED
      BY <1>2, <2>2
  <2>4. Followed(u, p) /\ cache[u] # Absent
    BY <2>3 DEF Followed
  <2>5. times[p] = 0 /\ \A h \in Handler : Busy(h) => task[h].post # p
    BY <2>2, <2>3 DEF NowhereYet
  <2>6. \A h \in Handler : Ahead(h, u, p)'
    BY <2>2, <2>5 DEF Ahead, Busy
  <2>7. Followed(u, p)'
    BY <2>4, NextFollowed
  <2> QED
    BY <2>2, <2>4, <2>5, <2>6, <2>7 DEF Owed
<1> QED
  BY <1>1, <1>2

(* WarmFeedGetsEveryPost: a user who followed the author and had a list all  *)
(* along finds the post in it once anybody may have been told of it, unless  *)
(* kMaxFeedSize others are there, whatever overlaps the loop of              *)
(* OnPostCreated.                                                            *)
THEOREM NobodyIsMissed == Spec => []WarmFeedGetsEveryPost
<1> DEFINE Inv == NowhereYet /\ OwedInv
<1>1. Init => Inv
  BY DEF Init, NowhereYet, OwedInv, Busy, FreeTask
<1>2. TypeInv /\ Inv /\ [Next]_vars => Inv'
  <2> SUFFICES ASSUME TypeInv, Inv, [Next]_vars PROVE Inv'
    OBVIOUS
  <2>1. CASE Next
    BY <2>1, NextNowhere, NextOwed DEF OwedInv
  <2>2. CASE UNCHANGED vars
    BY <2>2 DEF vars, pathVars, NowhereYet, OwedInv, Owed, Served, Ahead, Followed, States, Busy, At
  <2> QED
    BY <2>1, <2>2
<1>3. TypeInv /\ Inv => WarmFeedGetsEveryPost
  <2> SUFFICES ASSUME TypeInv, Inv, NEW u \in Reader, NEW p \in Post, <<u, p>> \in warm, times[p] > 0
               PROVE  p \in {e.post : e \in Range(cache[u])} \/ Len(cache[u]) >= MaxFeed
    BY DEF WarmFeedGetsEveryPost
  <2>1. Served(u, p)
    BY DEF OwedInv, Owed
  <2> QED
    BY <2>1 DEF Served, Range
<1> QED
  BY <1>1, <1>2, <1>3, TypeInvariant, PTL DEF Spec

-----------------------------------------------------------------------------
(* How often a post gets into a list.  Pushers may still push it; the event  *)
(* of a post is yet to be published, in the queue or with them, and every    *)
(* fault adds one of these at most.  Loading requests may still fill.        *)
Pushers(u, p) ==
    {h \in Handler : /\ Busy(h) /\ task[h].post = p
                     /\ task[h].at = "start" \/ (u \in task[h].todo /\ ~ At(h, "trim", u))}
Unpublished(p) == IF create[p] \in {"new", "inserted"} THEN 1 ELSE 0
Queued(p)      == IF p \in queue THEN 1 ELSE 0
Path(u, p)     == Cardinality(Pushers(u, p)) + Queued(p) + Unpublished(p)

Missers(u) == {r \in Request : For[r] = u}
Loading(u) == {r \in Request : For[r] = u /\ get[r].at \in {"load", "fill"}}

PathBounded(u, p) == Path(u, p) <= 1 + faults
CopiesBounded(u, p) ==
    CopiesIn(cache[u], p) + Cardinality(Loading(u)) + Path(u, p)
        <= Cardinality(Missers(u)) + 1 + faults

LEMMA CountsFinite ==
    ASSUME NEW u, NEW p
    PROVE  /\ IsFiniteSet(Pushers(u, p)) /\ IsFiniteSet(Pushers(u, p)')
           /\ IsFiniteSet(Loading(u)) /\ IsFiniteSet(Loading(u)')
           /\ IsFiniteSet(Missers(u))
           /\ Cardinality(Pushers(u, p)) \in Nat /\ Cardinality(Pushers(u, p)') \in Nat
           /\ Cardinality(Loading(u)) \in Nat /\ Cardinality(Loading(u)') \in Nat
           /\ Cardinality(Missers(u)) \in Nat
           /\ Cardinality(Loading(u)') <= Cardinality(Missers(u))
<1>1. /\ Pushers(u, p) \in SUBSET Handler /\ Pushers(u, p)' \in SUBSET Handler
      /\ Loading(u) \in SUBSET Request /\ Loading(u)' \in SUBSET Missers(u)
      /\ Missers(u) \in SUBSET Request
  BY DEF Pushers, Loading, Missers
<1>2. IsFiniteSet(Missers(u))
  BY <1>1, PostAssumption, FS_Subset
<1>3. IsFiniteSet(Loading(u)') /\ Cardinality(Loading(u)') <= Cardinality(Missers(u))
  BY <1>1, <1>2, FS_Subset
<1>4. /\ IsFiniteSet(Pushers(u, p)) /\ IsFiniteSet(Pushers(u, p)')
      /\ IsFiniteSet(Loading(u))
  BY <1>1, PostAssumption, FS_Subset
<1> QED
  BY <1>2, <1>3, <1>4, FS_CardinalityType

(* What a handler's step does to the path of an event.                       *)
LEMMA PushersByHandler ==
    ASSUME TypeInv, NEW h \in Handler, HandlerStep(h), NEW u \in Reader, NEW p \in Post
    PROVE  /\ \/ TakeEvent(h, p) /\ Same(u) /\ h \notin Pushers(u, p)
              \/ /\ h \in Pushers(u, p)' => h \in Pushers(u, p)
                 /\ \/ Same(u) \/ CutAt(u)
                    \/ /\ At(h, "push", u) /\ PushedTo(h, u)
                       /\ task[h].post = p => h \in Pushers(u, p) /\ h \notin Pushers(u, p)'
           /\ \/ TakeEvent(h, p)
              \/ queue' \subseteq queue \/ Fault
<1> USE DEF TypeInv
<1>1. /\ h \in Pushers(u, p) <=>
             Busy(h) /\ task[h].post = p
             /\ (task[h].at = "start" \/ (u \in task[h].todo /\ ~ At(h, "trim", u)))
      /\ h \in Pushers(u, p)' <=>
             task'[h].at # "free" /\ task'[h].post = p
             /\ (task'[h].at = "start" \/ (u \in task'[h].todo /\ ~ (At(h, "trim", u)')))
  BY DEF Pushers, Busy
<1>2. At(h, "push", u) /\ task[h].post = p => h \in Pushers(u, p)
  <2> SUFFICES ASSUME At(h, "push", u), task[h].post = p PROVE h \in Pushers(u, p)
    OBVIOUS
  <2>1. Busy(h) /\ u \in task[h].now /\ ~ At(h, "trim", u)
    BY DEF At, Busy
  <2>2. u \in task[h].todo
    BY <2>1, BusyType
  <2> QED
    BY <1>1, <2>1, <2>2
<1>3. CASE TakeEvent(h, p)
  BY <1>1, <1>3 DEF TakeEvent, Busy, Same
<1>4. ASSUME NEW q \in Post, q # p, TakeEvent(h, q)
      PROVE  h \notin Pushers(u, p)' /\ Same(u) /\ queue' \subseteq queue
  BY <1>1, <1>4 DEF TakeEvent, NewTask, TaskInv, Same
<1>5. ASSUME NEW at, NEW now, NEW todo, Goto(h, at, now, todo), Busy(h)
      PROVE  /\ task'[h].at = at /\ task'[h].now = now /\ task'[h].todo = todo
             /\ task'[h].post = task[h].post
  BY <1>5, BusyType DEF Goto, TaskInv, BusyTask
<1>6. CASE ReadFollowers(h)
  <2>1. Busy(h) /\ task[h].at = "start" /\ UNCHANGED <<queue, cache>>
    BY <1>6 DEF ReadFollowers, Busy
  <2>2. task'[h].post = task[h].post
    <3>1. PICK d \in States : Goto(h, "loop", {}, FollowersOf(d, Author[task[h].post]))
      BY <1>6 DEF ReadFollowers
    <3> QED
      BY <1>5, <2>1, <3>1
  <2> QED
    BY <1>1, <2>1, <2>2 DEF Same
<1>7. ASSUME NEW v \in Reader, CheckKey(h, v)
      PROVE  (h \in Pushers(u, p)' => h \in Pushers(u, p)) /\ Same(u) /\ UNCHANGED queue
  <2>1. Busy(h) /\ task[h].at = "loop" /\ UNCHANGED <<queue, cache>>
    BY <1>7 DEF CheckKey, Busy
  <2>2. Goto(h, "push", {v}, task[h].todo) \/ Goto(h, "loop", {}, Others(h, v))
    BY <1>7 DEF CheckKey
  <2>3. /\ task'[h].todo \subseteq task[h].todo /\ task'[h].post = task[h].post
        /\ task'[h].at # "start"
    BY <1>5, <2>1, <2>2 DEF Others
  <2>4. ~ At(h, "trim", u)
    BY <2>1 DEF At
  <2> QED
    BY <1>1, <2>1, <2>3, <2>4 DEF Same
<1>8. ASSUME NEW v \in Reader, PushPost(h, v)
      PROVE  /\ h \in Pushers(u, p)' => h \in Pushers(u, p)
             /\ UNCHANGED queue
             /\ \/ Same(u)
                \/ At(h, "push", u) /\ PushedTo(h, u) /\ h \notin Pushers(u, p)'
  <2>1. /\ Busy(h) /\ task[h].at = "push" /\ v \in task[h].now /\ UNCHANGED queue
        /\ cache' = Pushed(h, v) /\ Goto(h, "trim", {v}, task[h].todo)
    BY <1>8 DEF PushPost, At, Busy
  <2>2. /\ task'[h].at = "trim" /\ task'[h].now = {v} /\ task'[h].todo = task[h].todo
        /\ task'[h].post = task[h].post
    BY <1>5, <2>1
  <2>3. CASE u = v
    BY <1>1, <2>1, <2>2, <2>3 DEF At, Pushed, PushedTo, ListType
  <2>4. CASE u # v
    <3>1. ~ At(h, "trim", u)
      BY <2>1 DEF At
    <3> QED
      BY <1>1, <2>1, <2>2, <2>4, <3>1 DEF Pushed, Same, ListType
  <2> QED
    BY <2>3, <2>4
<1>9. ASSUME NEW v \in Reader, TrimFeed(h, v)
      PROVE  /\ h \in Pushers(u, p)' => h \in Pushers(u, p)
             /\ UNCHANGED queue
             /\ Same(u) \/ CutAt(u)
  <2>1. /\ Busy(h) /\ task[h].at = "trim" /\ v \in task[h].now /\ UNCHANGED queue
        /\ cache' = [cache EXCEPT ![v] = Trimmed(@)]
        /\ Goto(h, "loop", {}, task[h].todo \ {v})
    BY <1>9 DEF TrimFeed, At, Busy
  <2>2. /\ task'[h].at = "loop" /\ task'[h].todo = task[h].todo \ {v}
        /\ task'[h].post = task[h].post
    BY <1>5, <2>1
  <2>3. task[h].now = {v}
    BY <2>1, BusyType
  <2>4. u # v => ~ At(h, "trim", u)
    BY <2>3 DEF At
  <2> QED
    BY <1>1, <2>1, <2>2, <2>4 DEF Same, CutAt, ListType
<1>10. CASE FanOut(h)
  BY <1>1, <1>10 DEF FanOut, FreeTask, Acked, Same, TaskInv
<1>11. CASE HandlerThrows(h)
  <2>1. h \notin Pushers(u, p)' /\ Fault
    BY <1>1, <1>11 DEF HandlerThrows, FreeTask, TaskInv
  <2>2. Same(u) \/ CutAt(u) \/ (At(h, "push", u) /\ PushedTo(h, u))
    BY ListsByHandler
  <2> QED
    BY <1>2, <2>1, <2>2
<1>12. CASE LoseChannel(h)
  <2>1. UNCHANGED cache /\ task'[h] = [task[h] EXCEPT !.own = FALSE] /\ Busy(h) /\ Fault
    BY <1>12 DEF LoseChannel, TaskInv
  <2>2. /\ task'[h].at = task[h].at /\ task'[h].post = task[h].post
        /\ task'[h].todo = task[h].todo /\ task'[h].now = task[h].now
    BY <2>1, BusyType DEF BusyTask
  <2> QED
    BY <1>1, <2>1, <2>2 DEF At, Same, Busy
<1> QED
  <2>1. CASE \E q \in Post : TakeEvent(h, q)
    BY <1>3, <1>4, <2>1
  <2>2. CASE Serving(h)
    BY <1>2, <1>6, <1>7, <1>8, <1>9, <1>10, <2>2 DEF Serving
  <2> QED
    BY <1>11, <1>12, <2>1, <2>2 DEF HandlerStep

LEMMA NextCopies ==
    ASSUME TypeInv, Next, NEW u \in Reader, NEW p \in Post, PathBounded(u, p), CopiesBounded(u, p)
    PROVE  PathBounded(u, p)' /\ CopiesBounded(u, p)'
<1> USE DEF TypeInv
<1> DEFINE a  == Cardinality(Pushers(u, p))
           a2 == Cardinality(Pushers(u, p)')
           b  == Cardinality(Loading(u))
           b2 == Cardinality(Loading(u)')
           c  == CopiesIn(cache[u], p)
           c2 == CopiesIn(cache'[u], p)
           q  == Queued(p)
           q2 == Queued(p)'
           x  == Unpublished(p)
           x2 == Unpublished(p)'
           n  == Cardinality(Missers(u))
           f  == faults
           f2 == faults'
<1>1. cache[u] \in Seq(Entries) /\ cache'[u] \in Seq(Entries)
  BY NextLists DEF ListType
<1>2. /\ a \in Nat /\ a2 \in Nat /\ b \in Nat /\ b2 \in Nat /\ c \in Nat /\ c2 \in Nat
      /\ n \in Nat /\ b2 <= n
  BY <1>1, CountsFinite, WhereFinite
<1>3. /\ q \in Nat /\ q2 \in Nat /\ x \in Nat /\ x2 \in Nat
      /\ q <= 1 /\ q2 <= 1 /\ x <= 1 /\ x2 <= 1
  BY DEF Queued, Unpublished
<1>4. f \in Nat /\ f2 \in Nat /\ f2 >= f /\ (Fault => f2 = f + 1)
  BY WhoFails, FailureCounted DEF FaultType
<1>5. a + q + x <= 1 + f /\ c + b + (a + q + x) <= n + 1 + f
  BY DEF PathBounded, CopiesBounded, Path
<1>6. SUFFICES /\ a2 + q2 + x2 <= 1 + f2
               /\ c2 + b2 + (a2 + q2 + x2) <= n + 1 + f2
  BY DEF PathBounded, CopiesBounded, Path, Missers
<1>7. (Same(u) => c2 = c) /\ (CutAt(u) => c2 <= c) /\ (Gone(u) => c2 = 0)
  BY <1>1, TrimmedShorter, EmptyList DEF Same, CutAt, Gone
<1>8. ASSUME NEW h \in Handler, HandlerStep(h)
      PROVE  /\ a2 + q2 + x2 <= 1 + f2
             /\ c2 + b2 + (a2 + q2 + x2) <= n + 1 + f2
  <2>1. b2 = b
    BY <1>8, ListsByHandler DEF Loading, askVars
  <2>2. x2 = x
    BY <1>8 DEF HandlerStep, Serving, TakeEvent, ReadFollowers, CheckKey, PushPost, TrimFeed,
                FanOut, HandlerThrows, LoseChannel, Unpublished
  <2>3. Pushers(u, p)' \ {h} \subseteq Pushers(u, p)
    BY <1>8, TaskOfOthers DEF Pushers, Busy, At
  <2>4. /\ a >= a2 - 1
        /\ h \notin Pushers(u, p)' \/ h \in Pushers(u, p) => a >= a2
        /\ h \notin Pushers(u, p)' /\ h \in Pushers(u, p) => a >= a2 + 1
    BY <2>3, CountsFinite, OneApart
  <2>5. CASE TakeEvent(h, p)
    <3>1. Same(u)
      BY <2>5 DEF TakeEvent, Same
    <3>2. q = 1 /\ q2 = 0
      BY <2>5 DEF TakeEvent, Queued
    <3> HIDE DEF a, a2, b, b2, c, c2, q, q2, x, x2, n, f, f2
    <3> QED
      BY <1>2, <1>3, <1>4, <1>5, <1>7, <2>1, <2>2, <2>4, <3>1, <3>2
  <2>6. CASE ~ TakeEvent(h, p)
    <3>1. /\ h \in Pushers(u, p)' => h \in Pushers(u, p)
          /\ \/ Same(u) \/ CutAt(u)
             \/ /\ At(h, "push", u) /\ PushedTo(h, u)
                /\ task[h].post = p => h \in Pushers(u, p) /\ h \notin Pushers(u, p)'
      BY <1>8, <2>6, PushersByHandler
    <3>2. q2 + f <= q + f2
      <4>1. queue' \subseteq queue \/ Fault
        BY <1>8, <2>6, PushersByHandler
      <4>2. CASE queue' \subseteq queue
        <5>1. q2 <= q
          BY <4>2 DEF Queued
        <5> HIDE DEF q, q2, f, f2
        <5> QED
          BY <1>3, <1>4, <5>1
      <4>3. CASE Fault
        <5> HIDE DEF q, q2, f, f2
        <5> QED
          BY <1>3, <1>4, <4>3
      <4> QED
        BY <4>1, <4>2, <4>3
    <3>3. c2 + a2 <= c + a /\ a2 <= a
      <4>1. CASE Same(u) \/ CutAt(u)
        <5> HIDE DEF a, a2, c, c2
        <5> QED
          BY <1>2, <1>7, <2>4, <3>1, <4>1
      <4>2. CASE /\ At(h, "push", u) /\ PushedTo(h, u)
                 /\ task[h].post = p => h \in Pushers(u, p) /\ h \notin Pushers(u, p)'
        <5>1. Entry(task[h].post, 0) \in Entries /\ Entry(task[h].post, 0).post = task[h].post
          BY <4>2, BusyType DEF At, Busy, Entry, Entries
        <5>2. c2 <= c + (IF task[h].post = p THEN 1 ELSE 0)
          <6> HIDE DEF Entry
          <6> QED
            BY <1>1, <4>2, <5>1, PushedOnce DEF PushedTo
        <5> HIDE DEF a, a2, c, c2
        <5> QED
          BY <1>2, <2>4, <3>1, <4>2, <5>2
      <4> QED
        BY <3>1, <4>1, <4>2
    <3> HIDE DEF a, a2, b, b2, c, c2, q, q2, x, x2, n, f, f2
    <3> QED
      BY <1>2, <1>3, <1>4, <1>5, <2>1, <2>2, <3>2, <3>3
  <2> QED
    BY <2>5, <2>6
<1>9. ASSUME NEW r \in Request, RequestStep(r)
      PROVE  /\ a2 + q2 + x2 <= 1 + f2
             /\ c2 + b2 + (a2 + q2 + x2) <= n + 1 + f2
  <2>1. a2 = a /\ q2 = q /\ x2 = x
    BY <1>9, ListsByRequest DEF pathVars, Pushers, Busy, At, Queued, Unpublished
  <2>2. Loading(u)' \ {r} \subseteq Loading(u)
    BY <1>9, ListsByRequest DEF Loading
  <2>3. /\ b >= b2 - 1
        /\ r \notin Loading(u)' \/ r \in Loading(u) => b >= b2
        /\ r \notin Loading(u)' /\ r \in Loading(u) => b >= b2 + 1
    BY <2>2, CountsFinite, OneApart
  <2>4. \/ c2 = 0
        \/ c2 + b2 <= c + b
    <3>1. /\ r \in Loading(u) <=> For[r] = u /\ get[r].at \in {"load", "fill"}
          /\ r \in Loading(u)' <=> For[r] = u /\ get'[r].at \in {"load", "fill"}
      BY DEF Loading
    <3>2. For[r] \in Reader
      BY PostAssumption
    <3>3. CASE For[r] # u
      <4>1. Same(u)
        BY <1>9, <3>3, ListsByRequest
      <4> HIDE DEF b, b2, c, c2
      <4> QED
        BY <1>2, <1>7, <2>3, <3>1, <3>3, <4>1
    <3>4. CASE For[r] = u /\ BeginGet(r)
      <4>1. cache'[u] = Absent
        BY <3>4 DEF BeginGet, Missing
      <4> QED
        BY <4>1, EmptyList
    <3>5. CASE For[r] = u /\ LoadFeed(r)
      <4>1. r \in Loading(u) /\ Same(u)
        BY <3>1, <3>5 DEF LoadFeed, Same
      <4> HIDE DEF b, b2, c, c2
      <4> QED
        BY <1>2, <1>7, <2>3, <4>1
    <3>6. ASSUME For[r] = u, get[r].at = "fill", cache' = Filled(r), get'[r].at \notin {"load", "fill"}
          PROVE  c2 + b2 <= c + b
      <4>1. get[r].rows \in Seq(Entries) /\ Once(get[r].rows)
        BY DEF AskInv, GetType
      <4>2. cache'[u] = cache[u] \o get[r].rows
        BY <3>6 DEF Filled, ListType
      <4>3. c2 <= c + 1
        BY <1>1, <4>1, <4>2, FilledOnce
      <4>4. r \in Loading(u) /\ r \notin Loading(u)'
        BY <3>1, <3>6
      <4> HIDE DEF b, b2, c, c2
      <4> QED
        BY <1>2, <2>3, <4>3, <4>4
    <3>7. ASSUME For[r] = u, Same(u) \/ CutAt(u), get'[r].at \notin {"load", "fill"}
          PROVE  c2 + b2 <= c + b
      <4>1. r \notin Loading(u)'
        BY <3>1, <3>7
      <4> HIDE DEF b, b2, c, c2
      <4> QED
        BY <1>2, <1>7, <2>3, <3>7, <4>1
    <3>8. CASE For[r] = u /\ (FillFeed(r) \/ TrimFilled(r) \/ GetThrows(r))
      <4>1. get'[r].at \notin {"load", "fill"}
        BY <3>8 DEF FillFeed, TrimFilled, GetThrows, NoGet, AskInv
      <4>2. \/ Same(u) \/ CutAt(u)
            \/ get[r].at = "fill" /\ cache' = Filled(r)
        BY <3>8 DEF FillFeed, TrimFilled, GetThrows, Same, CutAt, ListType
      <4> QED
        BY <3>6, <3>7, <3>8, <4>1, <4>2
    <3> QED
      BY <1>9, <3>3, <3>4, <3>5, <3>8 DEF RequestStep
  <2> HIDE DEF a, a2, b, b2, c, c2, q, q2, x, x2, n, f, f2
  <2> QED
    BY <1>2, <1>3, <1>4, <1>5, <2>1, <2>4
<1>10. CASE OtherStep
  <2>1. UNCHANGED <<task, get>> /\ (Same(u) \/ Gone(u))
    BY <1>10, ListsByOthers
  <2>2. a2 = a /\ b2 = b
    BY <2>1 DEF Pushers, Loading, Busy, At
  <2>3. q2 + x2 <= q + x
    <3>1. CASE UNCHANGED <<queue, create>>
      BY <3>1 DEF Queued, Unpublished
    <3>2. ASSUME NEW o \in Post, Insert(o) PROVE q2 + x2 <= q + x
      BY <3>2 DEF Insert, Queued, Unpublished, PathType
    <3>3. ASSUME NEW o \in Post, Publish(o) \/ PublishThrows(o) PROVE q2 + x2 <= q + x
      <4>1. CASE o = p
        <5>1. x = 1 /\ x2 = 0
          BY <3>3, <4>1 DEF Publish, PublishThrows, Unpublished, PathType
        <5> HIDE DEF q, q2, x, x2
        <5> QED
          BY <1>3, <5>1
      <4>2. CASE o # p
        BY <3>3, <4>2 DEF Publish, PublishThrows, Enqueued, Queued, Unpublished, PathType
      <4> QED
        BY <4>1, <4>2
    <3>4. \/ UNCHANGED <<queue, create>>
          \/ \E o \in Post : Insert(o) \/ Publish(o) \/ PublishThrows(o)
      BY <1>10 DEF OtherStep, Creating, ConstructPublisher, Editing, UpdatePost, DeletePost,
         ReadEdited, InvalidateEdited, EditThrows, Linking, Follow, Unfollow, WriteLink,
         InvalidateLinked, LinkThrows, Replicate, pathVars
    <3> QED
      BY <3>1, <3>2, <3>3, <3>4
  <2> HIDE DEF a, a2, b, b2, c, c2, q, q2, x, x2, n, f, f2
  <2> QED
    BY <1>2, <1>3, <1>4, <1>5, <1>7, <2>1, <2>2, <2>3
<1> QED
  BY <1>8, <1>9, <1>10, WhoSteps

(* DuplicatesBounded: a post is in a list no more often than there are       *)
(* requests that can miss the list at the same time, and once for its event  *)
(* and each of its redeliveries.                                             *)
THEOREM CopiesAreBounded == Spec => []DuplicatesBounded
<1> DEFINE Inv == \A u \in Reader, p \in Post : PathBounded(u, p) /\ CopiesBounded(u, p)
<1>1. Init => Inv
  <2> SUFFICES ASSUME Init, NEW u \in Reader, NEW p \in Post
               PROVE  PathBounded(u, p) /\ CopiesBounded(u, p)
    OBVIOUS
  <2>1. Pushers(u, p) = {} /\ Loading(u) = {}
    BY DEF Init, Pushers, Loading, Busy, FreeTask, NoGet
  <2>2. Cardinality(Pushers(u, p)) = 0 /\ Cardinality(Loading(u)) = 0 /\ CopiesIn(cache[u], p) = 0
    BY <2>1, FS_EmptySet, EmptyList DEF Init
  <2>3. Queued(p) = 0 /\ Unpublished(p) \in 0 .. 1 /\ faults = 0
    BY DEF Init, Queued, Unpublished
  <2>4. Cardinality(Missers(u)) \in Nat
    BY CountsFinite
  <2> QED
    BY <2>2, <2>3, <2>4 DEF PathBounded, CopiesBounded, Path
<1>2. TypeInv /\ Inv /\ [Next]_vars => Inv'
  <2> SUFFICES ASSUME TypeInv, Inv, [Next]_vars, NEW u \in Reader, NEW p \in Post
               PROVE  PathBounded(u, p)' /\ CopiesBounded(u, p)'
    OBVIOUS
  <2>1. CASE Next
    BY <2>1, NextCopies
  <2>2. CASE UNCHANGED vars
    <3>1. UNCHANGED <<task, queue, create, faults, cache, get>>
      BY <2>2 DEF vars, pathVars, askVars
    <3>2. PathBounded(u, p) /\ CopiesBounded(u, p)
      OBVIOUS
    <3> QED
      BY <3>1, <3>2 DEF PathBounded, CopiesBounded, Path, Pushers, Loading, Queued, Unpublished, Busy, At
  <2> QED
    BY <2>1, <2>2
<1>3. TypeInv /\ Inv => DuplicatesBounded
  <2> SUFFICES ASSUME TypeInv, Inv, NEW u \in Reader, NEW p \in Post
               PROVE  CopiesIn(cache[u], p) <= Cardinality(Missers(u)) + 1 + faults
    BY DEF DuplicatesBounded, Copies, CopiesIn, Where, Missers
  <2>1. /\ CopiesIn(cache[u], p) \in Nat /\ Cardinality(Loading(u)) \in Nat
        /\ Cardinality(Pushers(u, p)) \in Nat /\ Cardinality(Missers(u)) \in Nat
        /\ faults \in Nat /\ Queued(p) \in 0 .. 1 /\ Unpublished(p) \in 0 .. 1
    BY CountsFinite, WhereFinite DEF TypeInv, ListType, FaultType, Queued, Unpublished
  <2> QED
    BY <2>1 DEF CopiesBounded, Path
<1> QED
  BY <1>1, <1>2, <1>3, TypeInvariant, PTL DEF Spec

-----------------------------------------------------------------------------
(* What the exchange ws-fanout sees.  Events that were published to it       *)
(* again, posts of which one was published, events with a handler and in the *)
(* queue: together no more than the posts they belong to, and the faults.    *)
Told     == {p \in Post : times[p] > 0}
Working  == {h \in Handler : Busy(h)}
HandledPosts == {p \in Post : \E h \in Working : task[h].post = p}
Touched  == Told \cup queue \cup HandledPosts
RepeatsInv ==
    /\ IsFiniteSet(Again)
    /\ Cardinality(Again) + Cardinality(Told) + Cardinality(Working) + Cardinality(queue)
           <= Cardinality(Touched) + faults

LEMMA EventsFinite ==
    ASSUME PathType
    PROVE  /\ IsFiniteSet(Told) /\ IsFiniteSet(Working) /\ IsFiniteSet(queue)
           /\ IsFiniteSet(Touched) /\ IsFiniteSet(HandledPosts)
           /\ Cardinality(Told) \in Nat /\ Cardinality(Working) \in Nat
           /\ Cardinality(queue) \in Nat /\ Cardinality(Touched) \in Nat
<1>1. /\ Told \in SUBSET Post /\ Working \in SUBSET Handler /\ queue \in SUBSET Post
      /\ Touched \in SUBSET Post /\ HandledPosts \in SUBSET Post
  BY DEF Told, Working, Touched, HandledPosts, PathType
<1>2. /\ IsFiniteSet(Told) /\ IsFiniteSet(Working) /\ IsFiniteSet(queue)
      /\ IsFiniteSet(Touched) /\ IsFiniteSet(HandledPosts)
  BY <1>1, PostAssumption, FS_Subset
<1> QED
  BY <1>2, FS_CardinalityType

LEMMA EventsStayFinite ==
    ASSUME PathType'
    PROVE  /\ IsFiniteSet(Told') /\ IsFiniteSet(Working') /\ IsFiniteSet(queue') /\ IsFiniteSet(Touched')
           /\ Cardinality(Told') \in Nat /\ Cardinality(Working') \in Nat
           /\ Cardinality(queue') \in Nat /\ Cardinality(Touched') \in Nat
<1>1. /\ Told' \in SUBSET Post /\ Working' \in SUBSET Handler /\ queue' \in SUBSET Post
      /\ Touched' \in SUBSET Post
  BY DEF Told, Working, Touched, HandledPosts, PathType
<1>2. IsFiniteSet(Told') /\ IsFiniteSet(Working') /\ IsFiniteSet(queue') /\ IsFiniteSet(Touched')
  BY <1>1, PostAssumption, FS_Subset
<1> QED
  BY <1>2, FS_CardinalityType

(* No more posts than events of them.                                        *)
LEMMA TouchedByEvents ==
    ASSUME TypeInv
    PROVE  Cardinality(Touched) <= Cardinality(Told) + Cardinality(queue) + Cardinality(Working)
<1> USE DEF TypeInv
<1> DEFINE f == [h \in Working |-> task[h].post]
<1>1. f \in Surjection(Working, HandledPosts)
  <2>1. \A h \in Working : task[h].post \in HandledPosts
    BY BusyType DEF Working, HandledPosts
  <2>2. \A p \in HandledPosts : \E h \in Working : task[h].post = p
    BY DEF HandledPosts
  <2> QED
    BY <2>1, <2>2 DEF Surjection
<1>2. Cardinality(HandledPosts) <= Cardinality(Working)
  BY <1>1, EventsFinite, FS_Surjection
<1>3. /\ IsFiniteSet(Told \cup queue)
      /\ Cardinality(Told \cup queue) = Cardinality(Told) + Cardinality(queue) - Cardinality(Told \cap queue)
  BY EventsFinite, FS_Union
<1>4. Cardinality((Told \cup queue) \cup HandledPosts)
        = Cardinality(Told \cup queue) + Cardinality(HandledPosts) - Cardinality((Told \cup queue) \cap HandledPosts)
  BY <1>3, EventsFinite, FS_Union
<1>5. /\ Cardinality(Told \cap queue) \in Nat
      /\ Cardinality((Told \cup queue) \cap HandledPosts) \in Nat
      /\ Cardinality(HandledPosts) \in Nat
  <2>1. Told \cap queue \in SUBSET Told /\ (Told \cup queue) \cap HandledPosts \in SUBSET HandledPosts
    OBVIOUS
  <2>2. IsFiniteSet(Told \cap queue) /\ IsFiniteSet((Told \cup queue) \cap HandledPosts)
    BY <2>1, EventsFinite, FS_Subset
  <2> QED
    BY <2>2, EventsFinite, FS_CardinalityType
<1>6. Touched = (Told \cup queue) \cup HandledPosts
  BY DEF Touched
<1> QED
  BY <1>2, <1>3, <1>4, <1>5, <1>6, EventsFinite

(* What a publication to the exchange does to the counts.                    *)
LEMMA SentEffect ==
    ASSUME TypeInv, IsFiniteSet(Again), NEW p \in Post, times' = [times EXCEPT ![p] = @ + 1]
    PROVE  /\ IsFiniteSet(Again')
           /\ Cardinality(Again') = Cardinality(Again) + (IF times[p] = 0 THEN 0 ELSE 1)
           /\ Told' = Told \cup {p}
           /\ Cardinality(Told') = Cardinality(Told) + (IF times[p] = 0 THEN 1 ELSE 0)
<1> USE DEF TypeInv
<1>1. times[p] \in Nat /\ times'[p] = times[p] + 1 /\ \A q \in Post \ {p} : times'[q] = times[q]
  BY DEF PathType
<1>2. Told' = Told \cup {p} /\ (p \in Told <=> times[p] # 0)
  <2>1. times'[p] > 0 /\ (times[p] > 0 <=> times[p] # 0)
    BY <1>1
  <2> QED
    BY <1>1, <2>1 DEF Told
<1>3. Cardinality(Told') = Cardinality(Told) + (IF times[p] = 0 THEN 1 ELSE 0)
  <2>1. Cardinality(Told \cup {p}) = IF p \in Told THEN Cardinality(Told) ELSE Cardinality(Told) + 1
    BY EventsFinite, FS_AddElement
  <2> QED
    BY <1>2, <2>1, EventsFinite
<1>4. \A q, k : <<q, k>> \in Again <=> q \in Post /\ k \in 2 .. times[q]
  BY DEF Again
<1>5. \A q, k : <<q, k>> \in Again' <=> q \in Post /\ k \in 2 .. times'[q]
  BY DEF Again
<1>6. (\A z \in Again : \E q, k : z = <<q, k>>) /\ (\A z \in Again' : \E q, k : z = <<q, k>>)
  BY DEF Again
<1>7. CASE times[p] = 0
  <2>1. 2 .. times[p] = {} /\ 2 .. times'[p] = {}
    BY <1>1, <1>7
  <2>2. \A q, k : <<q, k>> \in Again' <=> <<q, k>> \in Again
    BY <1>1, <1>4, <1>5, <2>1
  <2>3. Again' = Again
    BY <1>6, <2>2
  <2>4. Cardinality(Again) \in Nat
    BY FS_CardinalityType
  <2> QED
    BY <1>2, <1>3, <1>7, <2>3, <2>4
<1>8. CASE times[p] # 0
  <2> DEFINE z == <<p, times[p] + 1>>
  <2>1. \A k : k \in 2 .. times'[p] <=> k \in 2 .. times[p] \/ k = times[p] + 1
    BY <1>1, <1>8
  <2>2. z \notin Again
    BY <1>1, <1>4
  <2>3. \A q, k : <<q, k>> \in Again' <=> <<q, k>> \in Again \/ <<q, k>> = z
    <3>1. ASSUME NEW q, NEW k PROVE <<q, k>> \in Again' <=> <<q, k>> \in Again \/ (q = p /\ k = times[p] + 1)
      <4>1. CASE q = p
        BY <1>4, <1>5, <2>1, <4>1
      <4>2. CASE q # p
        BY <1>1, <1>4, <1>5, <4>2
      <4> QED
        BY <4>1, <4>2
    <3> QED
      BY <3>1
  <2>4. Again' = Again \cup {z}
    <3> HIDE DEF z
    <3>1. \E q, k : z = <<q, k>>
      BY DEF z
    <3> QED
      BY <1>6, <2>3, <3>1
  <2>5. IsFiniteSet(Again') /\ Cardinality(Again') = Cardinality(Again) + 1
    <3> HIDE DEF z
    <3> QED
      BY <2>2, <2>4, FS_AddElement
  <2> QED
    BY <1>2, <1>3, <1>8, <2>5
<1> QED
  BY <1>7, <1>8

LEMMA NextRepeats ==
    ASSUME TypeInv, NowhereYet, RepeatsInv, Next
    PROVE  RepeatsInv'
<1> USE DEF TypeInv
<1> DEFINE a  == Cardinality(Again)
           a2 == Cardinality(Again')
           o  == Cardinality(Told)
           o2 == Cardinality(Told')
           w  == Cardinality(Working)
           w2 == Cardinality(Working')
           q  == Cardinality(queue)
           q2 == Cardinality(queue')
           t  == Cardinality(Touched)
           t2 == Cardinality(Touched')
           f  == faults
           f2 == faults'
<1>1. /\ a \in Nat /\ o \in Nat /\ w \in Nat /\ q \in Nat /\ t \in Nat
      /\ a + o + w + q <= t + f
  BY EventsFinite, FS_CardinalityType DEF RepeatsInv
<1>2. PathType'
  BY NextPath
<1>3. /\ IsFiniteSet(Told') /\ IsFiniteSet(Working') /\ IsFiniteSet(queue') /\ IsFiniteSet(Touched')
      /\ o2 \in Nat /\ w2 \in Nat /\ q2 \in Nat /\ t2 \in Nat
  BY <1>2, EventsStayFinite
<1>4. f \in Nat /\ f2 \in Nat /\ f2 >= f /\ (Fault => f2 = f + 1)
  BY WhoFails, FailureCounted DEF FaultType
<1>5. SUFFICES IsFiniteSet(Again') /\ a2 + o2 + w2 + q2 <= t2 + f2
  BY DEF RepeatsInv
<1>6. UNCHANGED times => IsFiniteSet(Again') /\ a2 = a /\ o2 = o
  BY DEF Again, Told, RepeatsInv
<1>7. ASSUME UNCHANGED <<times, task>>, queue' = queue
      PROVE  IsFiniteSet(Again') /\ a2 + o2 + w2 + q2 <= t2 + f2
  <2>1. w2 = w /\ q2 = q /\ t2 = t
    BY <1>7 DEF Working, Touched, Told, HandledPosts, Busy
  <2> HIDE DEF a, a2, o, o2, w, w2, q, q2, t, t2, f, f2
  <2> QED
    BY <1>1, <1>4, <1>6, <1>7, <2>1
<1>8. ASSUME NEW p \in Post, Publish(p) \/ PublishThrows(p)
      PROVE  IsFiniteSet(Again') /\ a2 + o2 + w2 + q2 <= t2 + f2
  <2>1. UNCHANGED <<times, task>> /\ create[p] = "inserted" /\ (queue' = queue \/ queue' = queue \cup {p})
    BY <1>8 DEF Publish, PublishThrows, Enqueued
  <2>2. CASE queue' = queue
    BY <1>7, <2>1, <2>2
  <2>3. CASE queue' = queue \cup {p}
    <3>1. p \notin Touched
      BY <2>1 DEF NowhereYet, Touched, Told, HandledPosts, Working
    <3>2. Touched' = Touched \cup {p} /\ Working' = Working
      BY <2>1, <2>3 DEF Touched, Told, HandledPosts, Working, Busy
    <3>3. t2 = t + 1 /\ w2 = w
      BY <3>1, <3>2, EventsFinite, FS_AddElement
    <3>4. q2 = q + 1
      BY <2>3, <3>1, EventsFinite, FS_AddElement DEF Touched
    <3> HIDE DEF a, a2, o, o2, w, w2, q, q2, t, t2, f, f2
    <3> QED
      BY <1>1, <1>4, <1>6, <2>1, <3>3, <3>4
  <2> QED
    BY <2>1, <2>2, <2>3
<1>9. ASSUME NEW h \in Handler, NEW p \in Post, TakeEvent(h, p)
      PROVE  IsFiniteSet(Again') /\ a2 + o2 + w2 + q2 <= t2 + f2
  <2>1. /\ UNCHANGED times /\ ~ Busy(h) /\ p \in queue /\ queue' = queue \ {p}
        /\ task' = [task EXCEPT ![h] = NewTask(p)]
    BY <1>9 DEF TakeEvent, Busy
  <2>2. /\ task'[h].at # "free" /\ task'[h].post = p
        /\ \A g \in Handler \ {h} : task'[g] = task[g]
    BY <2>1 DEF TaskInv, NewTask
  <2>3. Working' = Working \cup {h} /\ h \notin Working
    BY <2>1, <2>2 DEF Working, Busy
  <2>4. Touched \subseteq Touched'
    BY <2>1, <2>2, <2>3 DEF Touched, Told, HandledPosts, Working
  <2>5. t2 >= t
    BY <1>3, <2>4, FS_Subset
  <2>6. q2 = q - 1 /\ w2 = w + 1
    BY <2>1, <2>3, EventsFinite, FS_RemoveElement, FS_AddElement
  <2> HIDE DEF a, a2, o, o2, w, w2, q, q2, t, t2, f, f2
  <2> QED
    BY <1>1, <1>3, <1>4, <1>6, <2>1, <2>5, <2>6
(* Goto and LoseChannel: h goes on with its event. *)
<1>10. ASSUME NEW h \in Handler, Busy(h), task'[h].at # "free", task'[h].post = task[h].post,
              \A g \in Handler \ {h} : task'[g] = task[g], UNCHANGED times,
              \/ queue' = queue
              \/ queue' = queue \cup {task[h].post} /\ Fault
       PROVE  IsFiniteSet(Again') /\ a2 + o2 + w2 + q2 <= t2 + f2
  <2>1. Working' = Working /\ h \in Working /\ HandledPosts' = HandledPosts /\ Told' = Told
    BY <1>10 DEF Working, HandledPosts, Busy, Told
  <2>2. Touched \subseteq Touched'
    BY <1>10, <2>1 DEF Touched
  <2>3. t2 >= t /\ w2 = w
    BY <1>3, <2>1, <2>2, FS_Subset
  <2>4. q2 <= q + 1 /\ (queue' = queue => q2 = q)
    <3>0. queue' = queue => q2 = q
      OBVIOUS
    <3>1. Cardinality(queue \cup {task[h].post}) = IF task[h].post \in queue THEN q ELSE q + 1
      BY EventsFinite, FS_AddElement
    <3>2. q2 = q \/ q2 = q + 1
      BY <1>10, <3>1
    <3> HIDE DEF q, q2
    <3> QED
      BY <1>1, <3>0, <3>2
  <2> HIDE DEF a, a2, o, o2, w, w2, q, q2, t, t2, f, f2
  <2> QED
    BY <1>1, <1>3, <1>4, <1>6, <1>10, <2>3, <2>4
(* FanOut and HandlerThrows: h is through with its event. *)
<1>11. ASSUME NEW h \in Handler, Busy(h), task' = [task EXCEPT ![h] = FreeTask],
              \/ SentOnce(h) /\ queue' = queue
              \/ SentOnce(h) /\ queue' = queue \cup {task[h].post} /\ Fault
              \/ UNCHANGED times /\ queue' = queue
              \/ UNCHANGED times /\ queue' = queue \cup {task[h].post} /\ Fault
       PROVE  IsFiniteSet(Again') /\ a2 + o2 + w2 + q2 <= t2 + f2
  <2> DEFINE p == task[h].post
  <2>1. p \in Post
    BY <1>11, BusyType
  <2>2. /\ task'[h].at = "free"
        /\ \A g \in Handler \ {h} : task'[g] = task[g]
    BY <1>11 DEF TaskInv, FreeTask
  <2>3. Working' = Working \ {h} /\ h \in Working
    BY <1>11, <2>2 DEF Working, Busy
  <2>4. w2 = w - 1
    BY <2>3, EventsFinite, FS_RemoveElement
  <2>5. q2 <= q + 1 /\ (queue' = queue => q2 = q)
    <3>0. queue' = queue => q2 = q
      OBVIOUS
    <3>1. Cardinality(queue \cup {task[h].post}) = IF task[h].post \in queue THEN q ELSE q + 1
      BY EventsFinite, FS_AddElement
    <3>2. q2 = q \/ q2 = q + 1
      BY <1>11, <3>1
    <3> HIDE DEF q, q2
    <3> QED
      BY <1>1, <3>0, <3>2
  <2>6. HandledPosts \ {p} \subseteq HandledPosts'
    BY <2>2, <2>3 DEF HandledPosts, Working
  <2>7. SentOnce(h) => IsFiniteSet(Again') /\ a2 + o2 = a + o + 1 /\ Told' = Told \cup {p}
    <3>1. CASE SentOnce(h)
      <4>1. times' = [times EXCEPT ![p] = @ + 1]
        BY <3>1 DEF SentOnce
      <4>2. /\ IsFiniteSet(Again')
            /\ a2 = a + (IF times[p] = 0 THEN 0 ELSE 1)
            /\ o2 = o + (IF times[p] = 0 THEN 1 ELSE 0)
            /\ Told' = Told \cup {p}
        <5> HIDE DEF p
        <5> QED
          BY <2>1, <4>1, SentEffect DEF RepeatsInv
      <4> HIDE DEF a, a2, o, o2, p
      <4> QED
        BY <1>1, <4>2
    <3> QED
      BY <3>1
  <2>8. CASE SentOnce(h) \/ queue' = queue \cup {p}
    <3>1. Touched \subseteq Touched'
      <4>1. Told \subseteq Told' /\ queue \subseteq queue' /\ p \in Told' \cup queue'
        BY <1>11, <2>7, <2>8 DEF Told
      <4> HIDE DEF p
      <4> QED
        BY <2>6, <4>1 DEF Touched
    <3>2. t2 >= t
      BY <1>3, <3>1, FS_Subset
    <3> HIDE DEF a, a2, o, o2, w, w2, q, q2, t, t2, f, f2, p
    <3> QED
      BY <1>1, <1>3, <1>4, <1>6, <1>11, <2>4, <2>5, <2>7, <3>2
  <2>9. CASE UNCHANGED times /\ queue' = queue
    <3>1. Touched \ {p} \subseteq Touched'
      BY <2>6, <2>9 DEF Touched, Told
    <3>2. t2 >= t - 1
      BY <1>3, <3>1, EventsFinite, OneApart
    <3> HIDE DEF a, a2, o, o2, w, w2, q, q2, t, t2, f, f2
    <3> QED
      BY <1>1, <1>3, <1>4, <1>6, <2>4, <2>5, <2>9, <3>2
  <2> QED
    BY <1>11, <2>8, <2>9
<1>12. ASSUME NEW h \in Handler, HandlerStep(h)
       PROVE  IsFiniteSet(Again') /\ a2 + o2 + w2 + q2 <= t2 + f2
  <2>1. CASE FanOut(h)
    <3>1. Busy(h) /\ SentOnce(h) /\ queue' = queue /\ task' = [task EXCEPT ![h] = FreeTask]
      BY <2>1 DEF FanOut, Sends, Acked, Busy
    <3> QED
      BY <1>11, <3>1
  <2>2. CASE HandlerThrows(h)
    <3>1. /\ Busy(h) /\ Fault /\ task' = [task EXCEPT ![h] = FreeTask]
          /\ UNCHANGED times \/ SentOnce(h)
          /\ queue' = queue \/ queue' = queue \cup {task[h].post}
      BY <2>2 DEF HandlerThrows, LastEffect, Requeued
    <3> QED
      BY <1>11, <3>1
  <2>3. CASE LoseChannel(h)
    <3>1. /\ Busy(h) /\ Fault /\ UNCHANGED times /\ queue' = queue \cup {task[h].post}
          /\ task'[h] = [task[h] EXCEPT !.own = FALSE]
      BY <2>3 DEF LoseChannel, TaskInv
    <3>2. task'[h].at # "free" /\ task'[h].post = task[h].post
      BY <3>1, BusyType DEF BusyTask
    <3> QED
      BY <1>10, <1>12, <3>1, <3>2, TaskOfOthers
  <2>4. CASE Serving(h) /\ ~ FanOut(h)
    <3>1. /\ UNCHANGED times /\ queue' = queue
          /\ \A q0 : ~ TakeEvent(h, q0)
          /\ task'[h] # FreeTask
      <4>1. /\ UNCHANGED <<times, queue>>
            /\ \E at \in {"loop", "push", "trim"} : \E now, todo : Goto(h, at, now, todo)
            /\ Busy(h)
        BY <2>4 DEF Serving, ReadFollowers, CheckKey, PushPost, TrimFeed, At, Busy
      <4>2. task'[h].at # "free"
        BY <4>1, BusyType DEF Goto, TaskInv, BusyTask
      <4> QED
        BY <4>1, <4>2 DEF TakeEvent, FreeTask, Busy
    <3>2. Busy(h) /\ task'[h].at # "free" /\ task'[h].post = task[h].post
      BY <1>12, <3>1, TaskOfOne
    <3> QED
      BY <1>10, <1>12, <3>1, <3>2, TaskOfOthers
  <2> QED
    BY <1>9, <1>12, <2>1, <2>2, <2>3, <2>4 DEF HandlerStep
<1>13. CASE ~ (\E h \in Handler : HandlerStep(h))
  <2>1. UNCHANGED <<task, times>>
    BY <1>13, WhoHandles DEF Handling, HandlerStep
  <2>2. queue' = queue \/ \E p \in Post : Publish(p) \/ PublishThrows(p)
    BY <1>13, WhoQueues DEF Handling, HandlerStep
  <2> QED
    BY <1>7, <1>8, <2>1, <2>2
<1> QED
  BY <1>12, <1>13

LEMMA RepeatsAreFaults ==
    ASSUME TypeInv, RepeatsInv
    PROVE  Cardinality(Again) \in Nat /\ Cardinality(Again) <= MaxFaults
<1>1. /\ Cardinality(Again) \in Nat
      /\ Cardinality(Again) + Cardinality(Told) + Cardinality(Working) + Cardinality(queue)
             <= Cardinality(Touched) + faults
  BY FS_CardinalityType DEF RepeatsInv
<1>2. faults \in Nat /\ faults <= MaxFaults /\ MaxFaults \in Nat
  BY FeedBoundAssumption DEF TypeInv, FaultType
<1> QED
  BY <1>1, <1>2, EventsFinite, TouchedByEvents DEF TypeInv

(* AnnouncesAsPromised: seen from the exchange ws-fanout, creations,         *)
(* redeliveries, lost channels and crashes are Announcements: one event of   *)
(* each post, and another only where a fault has been.                       *)
THEOREM AnnouncementsImplemented == Spec => AnnouncesAsPromised
<1> DEFINE Inv == TypeInv /\ NowhereYet /\ RepeatsInv
<1>1. Init => Inv /\ Promise!Init
  <2> SUFFICES ASSUME Init PROVE Inv /\ Promise!Init
    OBVIOUS
  <2>1. TypeInv /\ NowhereYet
    BY InitType DEF Init, NowhereYet, Busy, FreeTask
  <2>2. times \in [Post -> {0, 1}]
    BY DEF Init
  <2>3. \A p \in Post : 2 .. times[p] = {}
    BY <2>2
  <2>4. Again = {}
    BY <2>3 DEF Again
  <2>5. Working = {} /\ queue = {} /\ HandledPosts = {} /\ faults = 0
    BY DEF Init, Working, HandledPosts, Busy, FreeTask
  <2>6. Touched = Told
    BY <2>5 DEF Touched
  <2>7. RepeatsInv
    BY <2>1, <2>4, <2>5, <2>6, FS_EmptySet, EventsFinite DEF RepeatsInv, TypeInv
  <2> QED
    BY <2>1, <2>2, <2>4, <2>7, FS_EmptySet DEF Promise!Init
<1>2. Inv /\ [Next]_vars => Inv'
  <2> SUFFICES ASSUME Inv, [Next]_vars PROVE Inv'
    OBVIOUS
  <2>1. CASE Next
    BY <2>1, NextType, NextNowhere, NextRepeats
  <2>2. CASE UNCHANGED vars
    <3>1. TypeInv'
      BY <2>2, NextType
    <3>2. UNCHANGED <<create, queue, task, times, faults>>
      BY <2>2 DEF vars, pathVars
    <3>3. NowhereYet' /\ RepeatsInv'
      BY <3>2 DEF NowhereYet, RepeatsInv, Again, Told, Working, Touched, HandledPosts, Busy
    <3> QED
      BY <3>1, <3>3
  <2> QED
    BY <2>1, <2>2
<1>3. Inv /\ (Cardinality(Again) <= MaxFaults)' /\ [Next]_vars
        => [Promise!Next]_<<times, Cardinality(Again)>>
  <2> SUFFICES ASSUME Inv, (Cardinality(Again) <= MaxFaults)', [Next]_vars
               PROVE  [Promise!Next]_<<times, Cardinality(Again)>>
    OBVIOUS
  <2>1. CASE UNCHANGED times
    BY <2>1 DEF Again
  <2>2. ASSUME NEW h \in Handler, Sends(h), SentOnce(h) PROVE Promise!Next
    <3> DEFINE p == task[h].post
    <3>1. p \in Post
      BY <2>2, BusyType DEF TypeInv, Sends, Busy
    <3>2. times' = [times EXCEPT ![p] = @ + 1]
      BY <2>2 DEF SentOnce
    <3>3. Cardinality(Again') = Cardinality(Again) + (IF times[p] = 0 THEN 0 ELSE 1)
      <4> HIDE DEF p
      <4> QED
        BY <3>1, <3>2, SentEffect DEF RepeatsInv
    <3>4. Promise!Announce(p)
      BY <3>2, <3>3 DEF Promise!Announce
    <3> QED
      BY <3>1, <3>4 DEF Promise!Next
  <2>3. CASE Next
    <3>1. UNCHANGED times \/ \E h \in Handler : Sends(h) /\ SentOnce(h)
      BY <2>3, WhoHandles DEF Handling, TakeEvent, Serving, ReadFollowers, CheckKey, PushPost,
         TrimFeed, FanOut, HandlerThrows, LastEffect, LoseChannel
    <3> QED
      BY <2>1, <2>2, <3>1
  <2> QED
    BY <2>1, <2>3 DEF vars, pathVars
<1>4. Inv => Cardinality(Again) <= MaxFaults
  BY RepeatsAreFaults
<1> QED
  BY <1>1, <1>2, <1>3, <1>4, PTL DEF Spec, AnnouncesAsPromised, Promise!Spec

-----------------------------------------------------------------------------
(* Feeds after a write.  What FeedOf finds does not depend on where in the   *)
(* log the rows of a reader are, only on their order.                        *)
LEMMA RowNumbers ==
    ASSUME NEW n \in Nat, NEW R \in SUBSET (1 .. n), NEW i \in R
    PROVE  i \in Int /\ i >= 1 /\ i <= n
<1>1. i \in 1 .. n
  OBVIOUS
<1> QED
  BY <1>1

LEMMA NthUnique ==
    ASSUME NEW n \in Nat, NEW R \in SUBSET (1 .. n), NEW k \in 1 .. Cardinality(R),
           NEW i \in R, Cardinality(UpTo(R, i)) = k
    PROVE  Nth(R, k) = i
<1> DEFINE m == Nth(R, k)
<1>1. m \in R /\ Cardinality(UpTo(R, m)) = k
  BY NthExists
<1>2. \A x, y \in R : x < y => Cardinality(UpTo(R, x)) < Cardinality(UpTo(R, y))
  <2> SUFFICES ASSUME NEW x \in R, NEW y \in R, x < y
               PROVE  Cardinality(UpTo(R, x)) < Cardinality(UpTo(R, y))
    OBVIOUS
  <2>1. x \in Int /\ y \in Int
    BY RowNumbers
  <2>2. /\ IsFiniteSet(UpTo(R, x)) /\ Cardinality(UpTo(R, x)) \in Nat
        /\ IsFiniteSet(UpTo(R, y)) /\ Cardinality(UpTo(R, y)) \in Nat
    BY <2>1, UpToFinite
  <2>3. y \notin UpTo(R, x) /\ UpTo(R, x) \cup {y} \in SUBSET UpTo(R, y)
    <3>1. \A j \in R : j <= x => j <= y
      BY <2>1
    <3>2. ~ (y <= x) /\ y <= y
      BY <2>1
    <3> QED
      BY <3>1, <3>2 DEF UpTo
  <2>4. Cardinality(UpTo(R, x) \cup {y}) = Cardinality(UpTo(R, x)) + 1
    BY <2>2, <2>3, FS_AddElement
  <2>5. Cardinality(UpTo(R, x) \cup {y}) <= Cardinality(UpTo(R, y))
    BY <2>2, <2>3, FS_Subset
  <2> QED
    BY <2>2, <2>4, <2>5
<1>3. m \in Int /\ i \in Int
  BY <1>1, RowNumbers
<1> HIDE DEF m
<1>4. ~ (m < i) /\ ~ (i < m)
  BY <1>1, <1>2
<1> QED
  BY <1>3, <1>4 DEF m

(* The rows R of one log and S of another, in the same order.                *)
InOrder(g, R, S) ==
    /\ g \in [R -> S] /\ \A j \in S : \E i \in R : g[i] = j
    /\ \A i, j \in R : i < j => g[i] < g[j]

SameRank(g, R, S) == \A i \in R : Cardinality(UpTo(S, g[i])) = Cardinality(UpTo(R, i))

LEMMA OrderKept ==
    ASSUME NEW n \in Nat, NEW R \in SUBSET (1 .. n), NEW m \in Nat, NEW S \in SUBSET (1 .. m),
           NEW g, InOrder(g, R, S)
    PROVE  /\ IsFiniteSet(R) /\ IsFiniteSet(S)
           /\ Cardinality(R) \in Nat /\ Cardinality(S) = Cardinality(R)
           /\ SameRank(g, R, S)
<1>1. IsFiniteSet(R) /\ IsFiniteSet(S) /\ Cardinality(R) \in Nat /\ Cardinality(S) \in Nat
  <2>1. IsFiniteSet(1 .. n) /\ IsFiniteSet(1 .. m)
    BY FS_Interval
  <2>2. IsFiniteSet(R) /\ IsFiniteSet(S)
    BY <2>1, FS_Subset
  <2> QED
    BY <2>2, FS_CardinalityType
<1>2. \A i, j \in R : i < j <=> g[i] < g[j]
  <2> SUFFICES ASSUME NEW i \in R, NEW j \in R, g[i] < g[j] PROVE i < j
    BY DEF InOrder
  <2>1. i \in Int /\ j \in Int /\ g[i] \in Int /\ g[j] \in Int
    <3>1. g[i] \in S /\ g[j] \in S
      BY DEF InOrder
    <3> QED
      BY <3>1, RowNumbers
  <2>2. i = j => FALSE
    BY <2>1
  <2>3. j < i => FALSE
    BY <2>1 DEF InOrder
  <2> QED
    BY <2>1, <2>2, <2>3
<1>3. \A i, j \in R : i <= j <=> g[i] <= g[j]
  <2> SUFFICES ASSUME NEW i \in R, NEW j \in R PROVE i <= j <=> g[i] <= g[j]
    OBVIOUS
  <2>1. i \in Int /\ j \in Int /\ g[i] \in Int /\ g[j] \in Int
    <3>1. g[i] \in S /\ g[j] \in S
      BY DEF InOrder
    <3> QED
      BY <3>1, RowNumbers
  <2>2. (i < j <=> g[i] < g[j]) /\ (j < i <=> g[j] < g[i])
    BY <1>2
  <2> QED
    BY <2>1, <2>2
(* A part A of R and the part B of S that g takes it to. *)
<1>4. ASSUME NEW A \in SUBSET R, NEW B \in SUBSET S, \A i \in R : i \in A <=> g[i] \in B
      PROVE  Cardinality(A) = Cardinality(B)
  <2> DEFINE f == [i \in A |-> g[i]]
  <2>1. f \in Surjection(A, B)
    <3>1. f \in [A -> B]
      BY <1>4 DEF InOrder
    <3>2. \A j \in B : \E i \in A : f[i] = j
      BY <1>4 DEF InOrder
    <3> QED
      BY <3>1, <3>2 DEF Surjection
  <2>2. f \in Injection(A, B)
    <3>1. \A i, j \in A : f[i] = f[j] => i = j
      <4> SUFFICES ASSUME NEW i \in A, NEW j \in A, g[i] = g[j] PROVE i = j
        OBVIOUS
      <4>1. i \in Int /\ j \in Int /\ i \in R /\ j \in R /\ g[i] \in Int
        <5>1. i \in R /\ j \in R /\ g[i] \in S
          BY DEF InOrder
        <5> QED
          BY <5>1, RowNumbers
      <4>2. ~ (i < j) /\ ~ (j < i)
        BY <1>2, <4>1
      <4> QED
        BY <4>1, <4>2
    <3> QED
      BY <2>1, <3>1 DEF Surjection, Injection, IsInjective
  <2>3. IsFiniteSet(A)
    BY <1>1, FS_Subset
  <2> QED
    BY <2>1, <2>2, <2>3, FS_Surjection
<1>5. Cardinality(S) = Cardinality(R)
  <2>1. \A i \in R : i \in R <=> g[i] \in S
    BY DEF InOrder
  <2> QED
    BY <1>4, <2>1
<1>6. ASSUME NEW i \in R PROVE Cardinality(UpTo(S, g[i])) = Cardinality(UpTo(R, i))
  <2>1. UpTo(R, i) \in SUBSET R /\ UpTo(S, g[i]) \in SUBSET S
    BY DEF UpTo
  <2>2. \A j \in R : j \in UpTo(R, i) <=> g[j] \in UpTo(S, g[i])
    BY <1>3 DEF UpTo, InOrder
  <2> QED
    BY <1>4, <2>1, <2>2
<1> QED
  BY <1>1, <1>5, <1>6 DEF SameRank

(* Rows in the same order make the same feed.                                *)
LEMMA SameFeed ==
    ASSUME NEW d \in Databases, NEW e \in Databases, NEW u \in Reader,
           NEW g, InOrder(g, RowsFor(d, u), RowsFor(e, u)),
           \A i \in RowsFor(d, u) : e.log[g[i]] = d.log[i]
    PROVE  FeedOf(e, u) = FeedOf(d, u)
<1> DEFINE R == RowsFor(d, u)
           S == RowsFor(e, u)
           n == Cardinality(R)
           a == Len(d.log)
           b == Len(e.log)
<1>1. /\ a \in Nat /\ R \in SUBSET (1 .. a)
      /\ b \in Nat /\ S \in SUBSET (1 .. b)
  BY DEF Databases, RowsFor
<1>2. /\ n \in Nat /\ Cardinality(S) = n
      /\ \A i \in R : Cardinality(UpTo(S, g[i])) = Cardinality(UpTo(R, i))
  <2>1. InOrder(g, R, S)
    OBVIOUS
  <2>2. /\ Cardinality(R) \in Nat /\ Cardinality(S) = Cardinality(R)
        /\ SameRank(g, R, S)
    <3>1. a \in Nat /\ R \in SUBSET (1 .. a)
      BY <1>1
    <3>2. b \in Nat /\ S \in SUBSET (1 .. b)
      BY <1>1
    <3> HIDE DEF R, S, a, b, n
    <3> QED
      BY <2>1, <3>1, <3>2, OrderKept
  <2> QED
    BY <2>2 DEF SameRank
<1>3. ASSUME NEW k \in 1 .. n PROVE e.log[Nth(S, k)] = d.log[Nth(R, k)]
  <2>1. Nth(R, k) \in R /\ Cardinality(UpTo(R, Nth(R, k))) = k
    <3> HIDE DEF R
    <3> QED
      BY <1>1, NthExists DEF n
  <2>2. g[Nth(R, k)] \in S /\ Cardinality(UpTo(S, g[Nth(R, k)])) = k
    BY <1>2, <2>1 DEF InOrder
  <2>3. Nth(S, k) = g[Nth(R, k)]
    <3>1. k \in 1 .. Cardinality(S)
      BY <1>2
    <3>2. b \in Nat /\ S \in SUBSET (1 .. b)
      BY <1>1
    <3>3. \A i \in S : Cardinality(UpTo(S, i)) = k => Nth(S, k) = i
      <4> HIDE DEF S, b, n
      <4> QED
        BY <3>1, <3>2, NthUnique
    <3> QED
      BY <2>2, <3>3
  <2> QED
    BY <2>1, <2>3
<1>4. FeedOf(d, u) = [k \in 1 .. IF n < MaxFeed THEN n ELSE MaxFeed |-> d.log[Nth(R, k)]]
  BY DEF FeedOf
<1>5. FeedOf(e, u) = [k \in 1 .. IF n < MaxFeed THEN n ELSE MaxFeed |-> e.log[Nth(S, k)]]
  BY <1>2 DEF FeedOf
<1>6. \A k \in 1 .. IF n < MaxFeed THEN n ELSE MaxFeed : k \in 1 .. n
  BY <1>2, FeedBoundAssumption
<1> HIDE DEF R, S, n
<1> QED
  BY <1>3, <1>4, <1>5, <1>6

(* In the state d, the post p belongs in the feed of u.                      *)
Reads(d, u, p) == <<u, Author[p]>> \in d.follows

(* A friendship of somebody else, and a post of nobody u follows, leave the  *)
(* feed.                                                                     *)
LEMMA FeedOfOthers ==
    ASSUME NEW d \in Databases, NEW f, NEW u \in Reader,
           \A w \in Writer : <<u, w>> \in f <=> <<u, w>> \in d.follows
    PROVE  FeedOf([d EXCEPT !.follows = f], u) = FeedOf(d, u)
<1>1. /\ [d EXCEPT !.follows = f].log = d.log
      /\ [d EXCEPT !.follows = f].follows = f
  BY DEF Databases
<1>2. \A i \in DOMAIN d.log : Author[d.log[i].post] \in Writer
  BY PostsOfLog, PostAssumption
<1>3. RowsFor([d EXCEPT !.follows = f], u) = RowsFor(d, u)
  BY <1>1, <1>2 DEF RowsFor
<1> QED
  BY <1>1, <1>3 DEF FeedOf

LEMMA RowsInLog ==
    ASSUME NEW d \in Databases, NEW u \in Reader
    PROVE  /\ d.log \in Seq(Entries) /\ Len(d.log) \in Nat
           /\ RowsFor(d, u) \in SUBSET (1 .. Len(d.log))
           /\ \A i \in RowsFor(d, u) : i \in Int /\ i >= 1 /\ i <= Len(d.log)
<1>1. d.log \in Seq(Entries) /\ Len(d.log) \in Nat
  BY DEF Databases
<1>2. RowsFor(d, u) \in SUBSET (1 .. Len(d.log))
  BY <1>1 DEF RowsFor
<1>3. \A i \in RowsFor(d, u) : i \in 1 .. Len(d.log)
  BY <1>2
<1>4. \A i \in 1 .. Len(d.log) : i \in Int /\ i >= 1 /\ i <= Len(d.log)
  BY <1>1
<1> QED
  BY <1>1, <1>2, <1>3, <1>4

LEMMA FeedOfUpdated ==
    ASSUME NEW d \in Databases, NEW u \in Reader, NEW p \in Post, ~ Reads(d, u, p), Once(d.log)
    PROVE  LET M == [i \in DOMAIN d.log |-> IF d.log[i].post = p THEN Entry(p, 1) ELSE d.log[i]]
           IN  FeedOf([d EXCEPT !.log = M], u) = FeedOf(d, u)
<1> DEFINE M == [i \in DOMAIN d.log |-> IF d.log[i].post = p THEN Entry(p, 1) ELSE d.log[i]]
           e == [d EXCEPT !.log = M]
           R == RowsFor(d, u)
<1>1. d.log \in Seq(Entries) /\ M \in Seq(Entries)
  <2>1. d.log \in Seq(Entries)
    BY RowsInLog
  <2> QED
    BY <2>1, UpdatedLog
<1>2. e \in Databases /\ e.log = M /\ e.follows = d.follows
  BY <1>1 DEF Databases
<1>3. /\ DOMAIN M = DOMAIN d.log
      /\ \A i \in DOMAIN M : M[i].post = d.log[i].post
      /\ \A i \in R : i \in DOMAIN d.log /\ M[i] = d.log[i]
  BY DEF Entry, RowsFor, Reads
<1>4. RowsFor(e, u) = R
  <2> HIDE DEF e, M
  <2> QED
    BY <1>2, <1>3 DEF RowsFor, R
<1> HIDE DEF e, M, R
<1>5. FeedOf(e, u) = [k \in 1 .. IF Cardinality(R) < MaxFeed THEN Cardinality(R) ELSE MaxFeed |-> M[Nth(R, k)]]
  BY <1>2, <1>4 DEF FeedOf
<1>6. FeedOf(d, u) = [k \in 1 .. IF Cardinality(R) < MaxFeed THEN Cardinality(R) ELSE MaxFeed |-> d.log[Nth(R, k)]]
  BY DEF FeedOf, R
<1>7. ASSUME NEW k \in 1 .. IF Cardinality(R) < MaxFeed THEN Cardinality(R) ELSE MaxFeed
      PROVE  M[Nth(R, k)] = d.log[Nth(R, k)]
  <2>1. R \in SUBSET (1 .. Len(d.log)) /\ Len(d.log) \in Nat
    BY RowsInLog DEF R
  <2>2. Cardinality(R) \in Nat
    <3>1. IsFiniteSet(1 .. Len(d.log))
      BY <2>1, FS_Interval
    <3> QED
      BY <2>1, <3>1, FS_Subset, FS_CardinalityType
  <2>3. k \in 1 .. Cardinality(R)
    BY <1>7, <2>2, FeedBoundAssumption
  <2>4. Nth(R, k) \in R
    BY <2>1, <2>3, NthExists
  <2> QED
    BY <1>3, <2>4
<1>8. FeedOf(e, u) = FeedOf(d, u)
  BY <1>5, <1>6, <1>7
<1> QED
  BY <1>8 DEF e, M

(* The row k is taken out: those behind it move up.                          *)
LEMMA FeedOfDeleted ==
    ASSUME NEW d \in Databases, NEW u \in Reader, NEW k \in DOMAIN d.log,
           ~ Reads(d, u, d.log[k].post), Once(d.log)
    PROVE  LET M == SubSeq(d.log, 1, k - 1) \o SubSeq(d.log, k + 1, Len(d.log))
           IN  FeedOf([d EXCEPT !.log = M], u) = FeedOf(d, u)
<1> DEFINE n == Len(d.log)
           A == SubSeq(d.log, 1, k - 1)
           B == SubSeq(d.log, k + 1, Len(d.log))
           M == A \o B
           e == [d EXCEPT !.log = M]
           R == RowsFor(d, u)
           S == RowsFor(e, u)
           g == [i \in R |-> IF i < k THEN i ELSE i - 1]
<1>1. d.log \in Seq(Entries) /\ n \in Nat /\ k \in 1 .. n
  BY RowsInLog
<1>2. M \in Seq(Entries)
  BY <1>1, DeletedLog
<1>3. e \in Databases /\ e.log = M /\ e.follows = d.follows
  BY <1>2 DEF Databases
<1>4. /\ Len(M) = n - 1
      /\ \A i \in 1 .. k - 1 : M[i] = d.log[i]
      /\ \A i \in k .. n - 1 : M[i] = d.log[i + 1]
  <2>1. /\ A \in Seq(Entries) /\ Len(A) = k - 1
        /\ \A i \in 1 .. k - 1 : A[i] = d.log[i]
    <3>1. \A i \in 1 .. k - 1 : d.log[i] \in Entries
      BY <1>1
    <3>2. /\ A \in Seq(Entries) /\ Len(A) = IF 1 <= k - 1 THEN k - 1 - 1 + 1 ELSE 0
          /\ \A i \in 1 .. k - 1 - 1 + 1 : A[i] = d.log[1 + i - 1]
      BY <1>1, <3>1, SubSeqProperties
    <3> QED
      BY <1>1, <3>2
  <2>2. /\ B \in Seq(Entries) /\ Len(B) = n - k
        /\ \A i \in 1 .. n - k : B[i] = d.log[k + i]
    <3>1. \A i \in k + 1 .. n : d.log[i] \in Entries
      BY <1>1
    <3>2. /\ B \in Seq(Entries) /\ Len(B) = IF k + 1 <= n THEN n - (k + 1) + 1 ELSE 0
          /\ \A i \in 1 .. n - (k + 1) + 1 : B[i] = d.log[k + 1 + i - 1]
      BY <1>1, <3>1, SubSeqProperties
    <3> HIDE DEF B, n
    <3>3. n - (k + 1) + 1 = n - k /\ (k + 1 > n => n - k = 0)
      BY <1>1
    <3>4. \A i \in 1 .. n - k : k + 1 + i - 1 = k + i
      BY <1>1
    <3>5. Len(B) = n - k
      BY <1>1, <3>2, <3>3
    <3>6. ASSUME NEW i \in 1 .. n - k PROVE B[i] = d.log[k + i]
      BY <3>2, <3>3, <3>4
    <3> QED
      BY <3>2, <3>5, <3>6
  <2> HIDE DEF A, B, n
  <2>3. /\ Len(M) = Len(A) + Len(B)
        /\ \A i \in 1 .. Len(A) + Len(B) : M[i] = IF i <= Len(A) THEN A[i] ELSE B[i - Len(A)]
    BY <2>1, <2>2, ConcatProperties
  <2>4. Len(M) = n - 1
    BY <1>1, <2>1, <2>2, <2>3
  <2>5. ASSUME NEW i \in 1 .. k - 1 PROVE M[i] = d.log[i]
    <3>1. i \in 1 .. Len(A) + Len(B) /\ i <= Len(A)
      BY <1>1, <2>1, <2>2
    <3>2. M[i] = A[i]
      BY <2>3, <3>1
    <3> QED
      BY <2>1, <3>2
  <2>6. ASSUME NEW i \in k .. n - 1 PROVE M[i] = d.log[i + 1]
    <3>1. i \in 1 .. n - 1 /\ ~ (i <= k - 1) /\ i - (k - 1) \in 1 .. n - k /\ k + (i - (k - 1)) = i + 1
      BY <1>1
    <3>2. i \in 1 .. Len(A) + Len(B) /\ ~ (i <= Len(A)) /\ Len(A) = k - 1
      BY <1>1, <2>1, <2>2, <3>1
    <3>3. M[i] = B[i - (k - 1)]
      BY <2>3, <3>2
    <3> QED
      BY <2>2, <3>1, <3>3
  <2> QED
    BY <2>4, <2>5, <2>6
<1> HIDE DEF A, B, M
<1>5. k \notin R
  BY DEF RowsFor, Reads
<1>6. \A i \in 1 .. n : i \in R <=> <<u, Author[d.log[i].post]>> \in d.follows
  BY <1>1 DEF RowsFor
<1>7. \A i \in 1 .. n - 1 : i \in S <=> <<u, Author[M[i].post]>> \in d.follows
  <2>1. DOMAIN M = 1 .. n - 1
    BY <1>1, <1>2, <1>4
  <2> QED
    BY <1>3, <2>1 DEF RowsFor
<1>8. /\ \A i \in R : i \in 1 .. n /\ i \in Int
      /\ \A i \in S : i \in 1 .. n - 1 /\ i \in Int
  <2>1. DOMAIN M = 1 .. n - 1
    BY <1>1, <1>2, <1>4
  <2> QED
    BY <1>1, <1>3, <2>1 DEF RowsFor
<1> HIDE DEF R, S, e, n
<1>9. ASSUME NEW i \in R PROVE g[i] \in S /\ M[g[i]] = d.log[i]
  <2>1. i \in 1 .. n /\ i # k
    BY <1>5, <1>8
  <2>2. CASE i < k
    <3>1. g[i] = i /\ i \in 1 .. k - 1 /\ i \in 1 .. n - 1
      BY <1>1, <2>1, <2>2
    <3> QED
      BY <1>4, <1>6, <1>7, <2>1, <3>1
  <2>3. CASE ~ (i < k)
    <3>1. g[i] = i - 1 /\ i - 1 \in k .. n - 1 /\ i - 1 \in 1 .. n - 1 /\ (i - 1) + 1 = i
      BY <1>1, <2>1, <2>3
    <3>2. M[i - 1] = d.log[i]
      BY <1>4, <3>1
    <3> QED
      BY <1>6, <1>7, <2>1, <3>1, <3>2
  <2> QED
    BY <2>2, <2>3
<1>10. ASSUME NEW j \in S PROVE \E i \in R : g[i] = j
  <2>1. j \in 1 .. n - 1
    BY <1>8
  <2>2. CASE j < k
    <3>1. j \in 1 .. k - 1 /\ j \in 1 .. n
      BY <1>1, <2>1, <2>2
    <3>2. j \in R
      BY <1>4, <1>6, <1>7, <2>1, <3>1
    <3> QED
      BY <2>2, <3>2
  <2>3. CASE ~ (j < k)
    <3>1. j \in k .. n - 1 /\ j + 1 \in 1 .. n /\ ~ (j + 1 < k) /\ (j + 1) - 1 = j
      BY <1>1, <2>1, <2>3
    <3>2. j + 1 \in R
      BY <1>4, <1>6, <1>7, <2>1, <3>1
    <3> QED
      BY <3>1, <3>2
  <2> QED
    BY <2>2, <2>3
<1>11. \A i, j \in R : i < j => g[i] < g[j]
  BY <1>1, <1>5, <1>8
<1>12. InOrder(g, R, S)
  <2>1. g \in [R -> S]
    BY <1>9
  <2> HIDE DEF g
  <2> QED
    BY <2>1, <1>10, <1>11 DEF InOrder
<1>13. \A i \in R : e.log[g[i]] = d.log[i]
  BY <1>3, <1>9
<1> HIDE DEF g
<1>14. FeedOf(e, u) = FeedOf(d, u)
  BY <1>3, <1>12, <1>13, SameFeed DEF R, S
<1> QED
  BY <1>14 DEF e, M, A, B

(* One more row in front.                                                    *)
LEMMA FeedOfInserted ==
    ASSUME NEW d \in Databases, NEW u \in Reader, NEW p \in Post
    PROVE  LET e == [d EXCEPT !.log = <<Entry(p, 0)>> \o @]
           IN  /\ ~ Reads(d, u, p) => FeedOf(e, u) = FeedOf(d, u)
               /\ Reads(d, u, p) => FeedOf(e, u) = Trimmed(<<Entry(p, 0)>> \o FeedOf(d, u))
<1> DEFINE n == Len(d.log)
           x == Entry(p, 0)
           M == <<x>> \o d.log
           e == [d EXCEPT !.log = <<x>> \o @]
           R == RowsFor(d, u)
           S == RowsFor(e, u)
           T == S \ {1}
           g == [i \in R |-> i + 1]
           N == Cardinality(R)
           F == FeedOf(d, u)
<1>1. d.log \in Seq(Entries) /\ n \in Nat /\ x \in Entries /\ x.post = p
  BY RowsInLog DEF Entry, Entries
<1>2. /\ M \in Seq(Entries) /\ Len(M) = n + 1 /\ M[1] = x
      /\ \A i \in 1 .. n : M[i + 1] = d.log[i]
  <2>1. <<x>> \in Seq(Entries) /\ Len(<<x>>) = 1 /\ <<x>>[1] = x
    BY <1>1
  <2> HIDE DEF x
  <2>2. /\ M \in Seq(Entries) /\ Len(M) = Len(<<x>>) + n
        /\ \A i \in 1 .. Len(<<x>>) + n : M[i] = IF i <= Len(<<x>>) THEN <<x>>[i] ELSE d.log[i - Len(<<x>>)]
    BY <1>1, <2>1, ConcatProperties
  <2> HIDE DEF n, M
  <2> QED
    BY <1>1, <2>1, <2>2
<1>3. e \in Databases /\ e.log = M /\ e.follows = d.follows
  BY <1>2 DEF Databases
<1> HIDE DEF M, x
<1>4. /\ R \in SUBSET (1 .. n) /\ S \in SUBSET (1 .. n + 1)
      /\ \A i \in R : i \in 1 .. n /\ i \in Int
      /\ \A i \in S : i \in 1 .. n + 1 /\ i \in Int
      /\ \A i \in 1 .. n : i \in R <=> <<u, Author[d.log[i].post]>> \in d.follows
      /\ \A i \in 1 .. n + 1 : i \in S <=> <<u, Author[M[i].post]>> \in d.follows
  <2>1. DOMAIN d.log = 1 .. n /\ DOMAIN M = 1 .. n + 1
    BY <1>1, <1>2
  <2>2. \A i : i \in R <=> i \in 1 .. n /\ <<u, Author[d.log[i].post]>> \in d.follows
    <3> HIDE DEF n
    <3> QED
      BY <2>1 DEF RowsFor
  <2>3. \A i : i \in S <=> i \in 1 .. n + 1 /\ <<u, Author[M[i].post]>> \in d.follows
    <3> HIDE DEF n, e, M
    <3> QED
      BY <1>3, <2>1 DEF RowsFor
  <2>4. n \in Nat
    BY <1>1
  <2> HIDE DEF R, S, M, e, n
  <2>5. R \in SUBSET (1 .. n) /\ S \in SUBSET (1 .. n + 1)
    BY <2>2, <2>3
  <2>6. (\A i \in 1 .. n : i \in Int) /\ (\A i \in 1 .. n + 1 : i \in Int)
    BY <2>4
  <2>7. (\A i \in R : i \in 1 .. n /\ i \in Int) /\ (\A i \in S : i \in 1 .. n + 1 /\ i \in Int)
    BY <2>5, <2>6
  <2>8. \A i \in 1 .. n : i \in R <=> <<u, Author[d.log[i].post]>> \in d.follows
    BY <2>2
  <2>9. \A i \in 1 .. n + 1 : i \in S <=> <<u, Author[M[i].post]>> \in d.follows
    BY <2>3
  <2> QED
    BY <2>5, <2>7, <2>8, <2>9
<1>5. 1 \in S <=> Reads(d, u, p)
  <2>1. 1 \in 1 .. n + 1
    BY <1>1
  <2> QED
    BY <1>1, <1>2, <1>4, <2>1 DEF Reads
<1> HIDE DEF R, S, e, n
<1>6. ASSUME NEW i \in R PROVE g[i] \in T /\ g[i] = i + 1
  <2>1. i \in 1 .. n
    BY <1>4
  <2>2. g[i] = i + 1 /\ i + 1 \in 1 .. n + 1 /\ i + 1 # 1
    BY <1>1, <2>1
  <2> QED
    BY <1>2, <1>4, <2>1, <2>2
<1>7. ASSUME NEW j \in T PROVE \E i \in R : g[i] = j
  <2>1. j \in S /\ j \in 1 .. n + 1 /\ j # 1
    BY <1>4
  <2>2. j - 1 \in 1 .. n /\ (j - 1) + 1 = j
    BY <1>1, <2>1
  <2>3. j - 1 \in R
    BY <1>2, <1>4, <2>1, <2>2
  <2> QED
    BY <2>2, <2>3
<1>8. InOrder(g, R, T)
  <2>1. g \in [R -> T]
    BY <1>6
  <2>2. \A i, j \in R : i < j => g[i] < g[j]
    BY <1>4
  <2> HIDE DEF g, T
  <2> QED
    BY <2>1, <1>7, <2>2 DEF InOrder
<1>9. CASE ~ Reads(d, u, p)
  <2>1. T = S
    BY <1>5, <1>9
  <2>2. \A i \in R : e.log[g[i]] = d.log[i]
    BY <1>2, <1>3, <1>4, <1>6
  <2> HIDE DEF T, g
  <2>3. FeedOf(e, u) = FeedOf(d, u)
    BY <1>3, <1>8, <2>1, <2>2, SameFeed DEF R, S
  <2> QED
    BY <1>9, <2>3 DEF e, x
<1>10. CASE Reads(d, u, p)
  <2>1. T \in SUBSET (1 .. n + 1) /\ n + 1 \in Nat
    BY <1>1, <1>4
  <2>2. N \in Nat /\ Cardinality(T) = N /\ SameRank(g, R, T) /\ IsFiniteSet(T)
    <3> HIDE DEF T, g
    <3> QED
      BY <1>1, <1>4, <1>8, <2>1, OrderKept
  <2>3. 1 \in S /\ S = T \cup {1} /\ 1 \notin T
    BY <1>5, <1>10
  <2>4. Cardinality(S) = N + 1
    <3> HIDE DEF T, g
    <3> QED
      BY <2>2, <2>3, FS_AddElement
  (* The rows of the new feed. *)
  <2>5. Nth(S, 1) = 1
    <3>1. UpTo(S, 1) = {1}
      <4>1. \A j \in 1 .. n + 1 : j <= 1 <=> j = 1
        BY <1>1
      <4> QED
        BY <1>4, <2>3, <4>1 DEF UpTo
    <3>2. Cardinality(UpTo(S, 1)) = 1
      BY <3>1, FS_Singleton
    <3>3. 1 \in 1 .. Cardinality(S)
      BY <2>2, <2>4
    <3>4. S \in SUBSET (1 .. n + 1) /\ n + 1 \in Nat /\ 1 \in S
      BY <1>4, <2>1, <2>3
    <3> HIDE DEF T, g, N
    <3> QED
      BY <3>2, <3>3, <3>4, NthUnique
  <2>6. ASSUME NEW k \in 1 .. N PROVE Nth(S, k + 1) = Nth(R, k) + 1 /\ Nth(R, k) \in R
    <3> DEFINE i == Nth(R, k)
    <3>1. i \in R /\ Cardinality(UpTo(R, i)) = k
      <4> HIDE DEF g, T
      <4> QED
        BY <1>1, <1>4, <2>6, NthExists
    <3> HIDE DEF i
    <3>2. g[i] = i + 1 /\ i + 1 \in T /\ i + 1 \in S
      BY <1>6, <3>1
    <3>3. Cardinality(UpTo(T, i + 1)) = k
      BY <2>2, <3>1, <3>2 DEF SameRank
    <3>4. UpTo(S, i + 1) = UpTo(T, i + 1) \cup {1} /\ 1 \notin UpTo(T, i + 1)
      <4>1. i \in 1 .. n
        BY <1>4, <3>1
      <4>2. 1 <= i + 1
        BY <1>1, <4>1
      <4> QED
        BY <2>3, <4>2 DEF UpTo
    <3>5. IsFiniteSet(UpTo(T, i + 1))
      <4>1. UpTo(T, i + 1) \in SUBSET T
        BY DEF UpTo
      <4> HIDE DEF T
      <4> QED
        BY <2>2, <4>1, FS_Subset
    <3>6. Cardinality(UpTo(S, i + 1)) = k + 1
      <4> HIDE DEF T, N
      <4> QED
        BY <3>3, <3>4, <3>5, FS_AddElement
    <3>7. k + 1 \in 1 .. Cardinality(S)
      BY <2>2, <2>4
    <3> HIDE DEF T, g, N
    <3>8. Nth(S, k + 1) = i + 1
      BY <1>4, <2>1, <3>2, <3>6, <3>7, NthUnique
    <3> QED
      BY <3>1, <3>8 DEF i
  <2> DEFINE m == IF N < MaxFeed THEN N ELSE MaxFeed
             m2 == IF N + 1 < MaxFeed THEN N + 1 ELSE MaxFeed
             G == FeedOf(e, u)
             H == <<x>> \o F
  <2>7. m \in Nat /\ m2 \in Nat /\ m2 >= 1 /\ m2 <= m + 1 /\ m <= N /\ m2 = IF m + 1 < MaxFeed THEN m + 1 ELSE MaxFeed
    BY <2>2, FeedBoundAssumption
  <2>8. F = [k \in 1 .. m |-> d.log[Nth(R, k)]]
    BY DEF FeedOf, R
  <2>9. G = [k \in 1 .. m2 |-> M[Nth(S, k)]]
    BY <1>3, <2>4 DEF FeedOf, S
  <2>10. F \in Seq(Entries) /\ Len(F) = m
    <3>1. F \in Seq(Entries)
      BY FeedOfType
    <3> HIDE DEF F, m
    <3> QED
      BY <2>7, <2>8, <3>1
  <2>11. G \in Seq(Entries) /\ Len(G) = m2
    <3>1. G \in Seq(Entries)
      BY <1>3, FeedOfType
    <3> HIDE DEF G, m2
    <3> QED
      BY <2>7, <2>9, <3>1
  <2> HIDE DEF m, m2, F, G, N, T, g
  <2>12. /\ H \in Seq(Entries) /\ Len(H) = m + 1 /\ H[1] = x
         /\ \A i \in 1 .. m : H[i + 1] = F[i]
    <3>1. <<x>> \in Seq(Entries) /\ Len(<<x>>) = 1 /\ <<x>>[1] = x
      BY <1>1
    <3>2. /\ H \in Seq(Entries) /\ Len(H) = Len(<<x>>) + Len(F)
          /\ \A i \in 1 .. Len(<<x>>) + Len(F) : H[i] = IF i <= Len(<<x>>) THEN <<x>>[i] ELSE F[i - Len(<<x>>)]
      BY <2>10, <3>1, ConcatProperties
    <3> HIDE DEF H
    <3> QED
      BY <2>7, <2>10, <3>1, <3>2
  <2> HIDE DEF H
  <2>13. /\ Trimmed(H) \in Seq(Entries) /\ Len(Trimmed(H)) = m2
         /\ \A i \in 1 .. m2 : Trimmed(H)[i] = H[i]
    <3>1. MaxFeed \in Nat
      BY FeedBoundAssumption
    <3>2. /\ Take(H, MaxFeed) \in Seq(Entries)
          /\ Len(Take(H, MaxFeed)) = IF Len(H) < MaxFeed THEN Len(H) ELSE MaxFeed
          /\ \A i \in 1 .. Len(Take(H, MaxFeed)) : Take(H, MaxFeed)[i] = H[i]
      BY <2>12, <3>1, TakeProperties
    <3> QED
      BY <2>7, <2>12, <3>2 DEF Trimmed
  <2>14. ASSUME NEW i \in 1 .. m2 PROVE G[i] = Trimmed(H)[i]
    <3>1. CASE i = 1
      <4>1. G[1] = M[1]
        BY <2>5, <2>9, <3>1
      <4> QED
        BY <1>2, <2>12, <2>13, <3>1, <4>1
    <3>2. CASE i # 1
      <4> DEFINE k == i - 1
      <4>1. k \in 1 .. m /\ k \in 1 .. N /\ k + 1 = i
        BY <2>2, <2>7, <3>2
      <4> HIDE DEF k
      <4>2. Nth(S, i) = Nth(R, k) + 1 /\ Nth(R, k) \in R
        BY <2>6, <4>1
      <4>3. G[i] = d.log[Nth(R, k)]
        BY <1>2, <1>4, <2>9, <4>2
      <4>4. H[i] = F[k]
        BY <2>12, <4>1
      <4> QED
        BY <2>8, <2>13, <4>1, <4>3, <4>4
    <3> QED
      BY <3>1, <3>2
  <2>15. G = Trimmed(H)
    BY <2>7, <2>11, <2>13, <2>14, SeqEqual
  <2> QED
    BY <1>10, <2>15 DEF G, H, F, e, x
<1> QED
  BY <1>9, <1>10 DEF e, x

-----------------------------------------------------------------------------
(* A list that nothing overlapped is exact.  What is still to happen to the  *)
(* list of u, as seen from the master: a creation, a handler, an edit, a     *)
(* request and a friend request that have yet to reach it.                   *)
Fol(u, p)     == u \in FollowersOf(db, Author[p])
Creates(u, p) == Undelivered(p) /\ Fol(u, p)
Handles(u, h) == Busy(h) /\ IF task[h].at = "start" THEN Fol(u, task[h].post) ELSE u \in task[h].todo
Edits(u, p)   == edit[p].at # "idle" /\ IF edit[p].at = "written" THEN Fol(u, p) ELSE u \in edit[p].keys
Gets(u, r)    == get[r].at # "idle" /\ For[r] = u
Links(u)      == link[u] # "idle"

NoCreate(u) == \A p \in Post : ~ Creates(u, p)
NoHandle(u) == \A h \in Handler : ~ Handles(u, h)
NoEdits(u)  == \A p \in Post : ~ Edits(u, p)
NoGets(u)   == \A r \in Request : ~ Gets(u, r)
Quiet(u)    == NoCreate(u) /\ NoHandle(u) /\ NoEdits(u) /\ NoGets(u) /\ ~ Links(u)

(* At most one of them.                                                      *)
Single(u) ==
    /\ \A p \in Post : Creates(u, p) =>
           /\ NoHandle(u) /\ NoEdits(u) /\ NoGets(u) /\ ~ Links(u)
           /\ \A q \in Post : Creates(u, q) => q = p
    /\ \A h \in Handler : Handles(u, h) =>
           /\ NoCreate(u) /\ NoEdits(u) /\ NoGets(u) /\ ~ Links(u)
           /\ \A g \in Handler : Handles(u, g) => g = h
    /\ \A p \in Post : Edits(u, p) =>
           /\ NoCreate(u) /\ NoHandle(u) /\ NoGets(u) /\ ~ Links(u)
           /\ \A q \in Post : Edits(u, q) => q = p
    /\ \A r \in Request : Gets(u, r) =>
           /\ NoCreate(u) /\ NoHandle(u) /\ NoEdits(u) /\ ~ Links(u)
           /\ \A q \in Request : Gets(u, q) => q = r
    /\ Links(u) => NoCreate(u) /\ NoHandle(u) /\ NoEdits(u) /\ NoGets(u)
Alone(u) == Cardinality(Active(u)) <= 1
AloneIsSingle == \A u \in Reader : IsFiniteSet(Active(u)) /\ (Alone(u) => Single(u))

LEMMA OneOfFew ==
    ASSUME NEW S, IsFiniteSet(S), Cardinality(S) <= 1, NEW x \in S, NEW y \in S
    PROVE  x = y
<1> SUFFICES ASSUME x # y PROVE FALSE
  OBVIOUS
<1>1. IsFiniteSet({x}) /\ Cardinality({x}) = 1
  BY FS_Singleton
<1>2. Cardinality({x} \cup {y}) = 2
  BY <1>1, FS_AddElement
<1>3. {x} \cup {y} \in SUBSET S
  OBVIOUS
<1>4. Cardinality({x} \cup {y}) <= Cardinality(S) /\ Cardinality(S) \in Nat
  BY <1>3, FS_Subset, FS_CardinalityType
<1> QED
  BY <1>2, <1>4

LEMMA OneOperation == TypeInv => AloneIsSingle
<1> SUFFICES ASSUME TypeInv, NEW u \in Reader
             PROVE  IsFiniteSet(Active(u)) /\ (Alone(u) => Single(u))
  BY DEF AloneIsSingle
<1>1. IsFiniteSet(Active(u))
  <2> DEFINE A == ({"create", "edit"} \X Post) \cup ({"handle"} \X Handler)
                    \cup ({"get"} \X Request) \cup {<<"link", u>>}
  <2>1. IsFiniteSet({"create", "edit"}) /\ IsFiniteSet({"handle"}) /\ IsFiniteSet({"get"}) /\ IsFiniteSet({<<"link", u>>})
    <3>1. {"create", "edit"} = {"create"} \cup {"edit"}
      OBVIOUS
    <3>2. \A x : IsFiniteSet({x})
      BY FS_Singleton
    <3>3. IsFiniteSet({"create"}) /\ IsFiniteSet({"edit"})
      BY <3>2
    <3>4. IsFiniteSet({"create"} \cup {"edit"})
      BY <3>3, FS_Union
    <3> QED
      BY <3>1, <3>2, <3>4
  <2>2. IsFiniteSet({"create", "edit"} \X Post)
    BY <2>1, PostAssumption, FS_Product
  <2>3. IsFiniteSet({"handle"} \X Handler)
    BY <2>1, PostAssumption, FS_Product
  <2>4. IsFiniteSet({"get"} \X Request)
    BY <2>1, PostAssumption, FS_Product
  <2>5. IsFiniteSet(({"create", "edit"} \X Post) \cup ({"handle"} \X Handler))
    BY <2>2, <2>3, FS_Union
  <2>6. IsFiniteSet(({"create", "edit"} \X Post) \cup ({"handle"} \X Handler) \cup ({"get"} \X Request))
    BY <2>4, <2>5, FS_Union
  <2>7. IsFiniteSet(A)
    BY <2>1, <2>6, FS_Union
  <2>8. Active(u) \in SUBSET A
    BY DEF Active
  <2> QED
    BY <2>7, <2>8, FS_Subset
<1>2. \A p : Fol(u, p) => Concerns(u, p)
  BY MasterIsRead DEF Fol, Concerns, FollowersOf, TypeInv
<1>3. /\ \A p \in Post : Creates(u, p) => <<"create", p>> \in Active(u)
      /\ \A h \in Handler : Handles(u, h) => <<"handle", h>> \in Active(u)
      /\ \A p \in Post : Edits(u, p) => <<"edit", p>> \in Active(u)
      /\ \A r \in Request : Gets(u, r) => <<"get", r>> \in Active(u)
      /\ Links(u) => <<"link", u>> \in Active(u)
  BY <1>2 DEF Active, Creates, Handles, Edits, Gets, Links
<1>4. ASSUME Alone(u) PROVE Single(u)
  <2>1. \A x, y \in Active(u) : x = y
    BY <1>1, <1>4, OneOfFew DEF Alone
  <2>2. ASSUME NEW p \in Post, Creates(u, p)
        PROVE  /\ NoHandle(u) /\ NoEdits(u) /\ NoGets(u) /\ ~ Links(u)
               /\ \A q \in Post : Creates(u, q) => q = p
    <3>1. \A x \in Active(u) : x = <<"create", p>>
      BY <1>3, <2>1, <2>2
    <3> QED
      BY <1>3, <3>1 DEF NoHandle, NoEdits, NoGets
  <2>3. ASSUME NEW h \in Handler, Handles(u, h)
        PROVE  /\ NoCreate(u) /\ NoEdits(u) /\ NoGets(u) /\ ~ Links(u)
               /\ \A g \in Handler : Handles(u, g) => g = h
    <3>1. \A x \in Active(u) : x = <<"handle", h>>
      BY <1>3, <2>1, <2>3
    <3> QED
      BY <1>3, <3>1 DEF NoCreate, NoEdits, NoGets
  <2>4. ASSUME NEW p \in Post, Edits(u, p)
        PROVE  /\ NoCreate(u) /\ NoHandle(u) /\ NoGets(u) /\ ~ Links(u)
               /\ \A q \in Post : Edits(u, q) => q = p
    <3>1. \A x \in Active(u) : x = <<"edit", p>>
      BY <1>3, <2>1, <2>4
    <3> QED
      BY <1>3, <3>1 DEF NoCreate, NoHandle, NoGets
  <2>5. ASSUME NEW r \in Request, Gets(u, r)
        PROVE  /\ NoCreate(u) /\ NoHandle(u) /\ NoEdits(u) /\ ~ Links(u)
               /\ \A q \in Request : Gets(u, q) => q = r
    <3>1. \A x \in Active(u) : x = <<"get", r>>
      BY <1>3, <2>1, <2>5
    <3> QED
      BY <1>3, <3>1 DEF NoCreate, NoHandle, NoEdits
  <2>6. ASSUME Links(u) PROVE NoCreate(u) /\ NoHandle(u) /\ NoEdits(u) /\ NoGets(u)
    <3>1. \A x \in Active(u) : x = <<"link", u>>
      BY <1>3, <2>1, <2>6
    <3> QED
      BY <1>3, <3>1 DEF NoCreate, NoHandle, NoEdits, NoGets
  <2> QED
    BY <2>2, <2>3, <2>4, <2>5, <2>6 DEF Single
<1> QED
  BY <1>1, <1>4

LEMMA OneOperationNext == TypeInv' => AloneIsSingle'
  BY OneOperation, PTL

(* What Note leaves of the readers whose list counts.                        *)
LEMMA NoteEffect ==
    ASSUME TypeInv', NEW off, NEW deleted, Note(off, deleted), NEW u \in Reader, u \notin raced'
    PROVE  /\ u \notin off /\ Alone(u)' /\ Single(u)'
           /\ u \notin raced \/ (u \in deleted /\ Alone(u))
<1>1. IsFiniteSet(Active(u)') /\ (Alone(u)' => Single(u)')
  BY OneOperationNext DEF AloneIsSingle
<1>2. Cardinality(Active(u)') \in Nat
  BY <1>1, FS_CardinalityType
<1>3. ~ (Cardinality(Active(u)') > 1)
  BY DEF Note
<1>4. Alone(u)'
  BY <1>2, <1>3 DEF Alone
<1> QED
  BY <1>1, <1>4 DEF Note, Alone

(* What each of them has to find in the list.                                *)
Feed(u)    == FeedOf(db, u)
Settled(u) == cache[u] = Absent \/ cache[u] = Feed(u)
Due(u, p)  == cache[u] = Absent \/ Feed(u) = Trimmed(<<Entry(p, 0)>> \o cache[u])
HandledRight(u, h) ==
    /\ Fol(u, task[h].post)
    /\ IF At(h, "trim", u) THEN Trimmed(cache[u]) = Feed(u) ELSE Due(u, task[h].post)
    /\ At(h, "push", u) => cache[u] # Absent
GotRight(u, r) ==
    IF get[r].at = "trim" THEN cache[u] = Feed(u)
                          ELSE cache[u] = Absent /\ (get[r].at = "fill" => get[r].rows = Feed(u))

Exact(u) ==
    /\ Single(u)
    /\ Quiet(u) => Settled(u)
    /\ \A p \in Post : Creates(u, p) => Due(u, p)
    /\ \A h \in Handler : Handles(u, h) => HandledRight(u, h)
    /\ \A r \in Request : Gets(u, r) => GotRight(u, r)
ExactInv == \A u \in Reader : u \notin raced => Exact(u)

(* A publisher declares before it is asked to publish.                       *)
DeclaredFirst == \A p \in Post : create[p] = "inserted" => topology = Declared

LEMMA NextDeclared ==
    ASSUME TypeInv, DeclaredFirst, Next
    PROVE  DeclaredFirst'
<1> SUFFICES ASSUME NEW p \in Post, create'[p] = "inserted" PROVE topology' = Declared
  BY DEF DeclaredFirst
<1>1. topology' = topology \/ topology' = Declared
  BY WhoDeclares DEF ConstructPublisher
<1>2. create[p] = "inserted" \/ Insert(p)
  <2>1. create \in [Post -> {"new", "inserted", "ok", "error"}]
    BY DEF TypeInv, PathType
  <2>2. ASSUME NEW q \in Post, Publish(q) \/ PublishThrows(q) PROVE create[p] = "inserted"
    BY <2>1, <2>2 DEF Publish, PublishThrows
  <2>3. ASSUME NEW q \in Post, Insert(q) PROVE create[p] = "inserted" \/ Insert(p)
    BY <2>1, <2>3 DEF Insert
  <2> QED
    BY <2>2, <2>3, WhoCreates
<1>3. topology = Declared
  BY <1>2 DEF DeclaredFirst, Insert, TypeInv, PathType
<1> QED
  BY <1>1, <1>3

(* The list and the feed of u stay: what was right remains so.               *)
Still(u) == cache'[u] = cache[u] /\ Feed(u)' = Feed(u)

LEMMA ExactStays ==
    ASSUME NEW u \in Reader, Exact(u), Single(u)', Still(u),
           Quiet(u)' => Settled(u),
           \A p \in Post : Creates(u, p)' => Due(u, p),
           \A h \in Handler : Handles(u, h)' =>
               (Handles(u, h) /\ task'[h] = task[h] /\ Fol(u, task[h].post)') \/ HandledRight(u, h)',
           \A r \in Request : Gets(u, r)' =>
               (Gets(u, r) /\ get'[r] = get[r]) \/ GotRight(u, r)'
    PROVE  Exact(u)'
<1>1. /\ Settled(u)' <=> Settled(u)
      /\ \A p \in Post : Due(u, p)' <=> Due(u, p)
  BY DEF Still, Settled, Due, Absent
<1>2. ASSUME NEW h \in Handler, Handles(u, h), task'[h] = task[h], Fol(u, task[h].post)'
      PROVE  HandledRight(u, h)'
  BY <1>2 DEF Exact, HandledRight, At, Due, Still, Absent
<1>3. ASSUME NEW r \in Request, Gets(u, r), get'[r] = get[r]
      PROVE  GotRight(u, r)'
  BY <1>3 DEF Exact, GotRight, Still, Absent
<1> QED
  BY <1>1, <1>2, <1>3 DEF Exact

LEMMA MasterStays ==
    ASSUME db' = db, NEW u
    PROVE  Feed(u)' = Feed(u) /\ \A p : Fol(u, p)' <=> Fol(u, p)
  BY DEF Feed, Fol

LEMMA FolConcerns ==
    ASSUME TypeInv, NEW u, NEW p, Fol(u, p)
    PROVE  Concerns(u, p)
  BY MasterIsRead DEF Fol, Concerns, FollowersOf, TypeInv

(* A replica catches up, or a publisher declares.                            *)
LEMMA ExactAside ==
    ASSUME TypeInv, TypeInv', ExactInv, Replicate \/ ConstructPublisher, NEW u \in Reader, u \notin raced'
    PROVE  Exact(u)'
<1>1. UNCHANGED <<create, queue, task, cache, edit, get, link>> /\ Note({}, {}) /\ db' = db
  <2>1. CASE Replicate
    <3>1. wal \in Seq(Databases) /\ wal' = Tail(wal) /\ Len(wal) > 1
      BY <2>1 DEF Replicate, TypeInv, WalType
    <3>2. Len(Tail(wal)) = Len(wal) - 1 /\ Tail(wal)[Len(wal) - 1] = wal[Len(wal)]
      BY <3>1
    <3> QED
      BY <2>1, <3>1, <3>2 DEF Replicate, pathVars, askVars, db
  <2>2. CASE ConstructPublisher
    BY <2>2 DEF ConstructPublisher, askVars, db
  <2> QED
    BY <2>1, <2>2
<1>2. Exact(u) /\ Single(u)'
  BY <1>1, NoteEffect DEF ExactInv
<1>3. Still(u) /\ \A p : Fol(u, p)' <=> Fol(u, p)
  BY <1>1, MasterStays DEF Still
<1>4. /\ \A p : (Creates(u, p)' <=> Creates(u, p)) /\ (Edits(u, p)' <=> Edits(u, p))
      /\ \A h : Handles(u, h)' <=> Handles(u, h)
      /\ \A r : Gets(u, r)' <=> Gets(u, r)
      /\ Links(u)' <=> Links(u)
  BY <1>1, <1>3 DEF Creates, Undelivered, Edits, Handles, Busy, Gets, Links
<1>5. Quiet(u)' => Settled(u)
  BY <1>2, <1>4 DEF Quiet, NoCreate, NoHandle, NoEdits, NoGets, Exact
<1>6. \A p \in Post : Creates(u, p)' => Due(u, p)
  BY <1>2, <1>4 DEF Exact
<1>7. \A h \in Handler : Handles(u, h)' => Handles(u, h) /\ task'[h] = task[h] /\ Fol(u, task[h].post)'
  BY <1>1, <1>2, <1>3, <1>4 DEF Exact, HandledRight
<1> QED
  BY <1>1, <1>2, <1>3, <1>4, <1>5, <1>6, <1>7, ExactStays

LEMMA ExactPublished ==
    ASSUME TypeInv, TypeInv', ExactInv, DeclaredFirst, NEW p \in Post, Publish(p) \/ PublishThrows(p),
           NEW u \in Reader, u \notin raced'
    PROVE  Exact(u)'
<1>1. UNCHANGED <<wal, task, cache, edit, get, link>> /\ db' = db /\ create[p] = "inserted"
  BY DEF Publish, PublishThrows, askVars, db
<1>2. PICK off \in {{}, {v \in Reader : Concerns(v, p)}} :
          Note(off, {}) /\ (PublishThrows(p) => off = {v \in Reader : Concerns(v, p)})
  BY DEF Publish, PublishThrows
<1>3. Exact(u) /\ Single(u)' /\ u \notin off
  BY <1>2, NoteEffect DEF ExactInv
<1>4. Still(u) /\ \A q : Fol(u, q)' <=> Fol(u, q)
  BY <1>1, MasterStays DEF Still
<1>5. \A q \in Post : Creates(u, q)' <=> Creates(u, q)
  <2> SUFFICES ASSUME NEW q \in Post PROVE Creates(u, q)' <=> Creates(u, q)
    OBVIOUS
  <2>1. create' \in [Post -> {"new", "inserted", "ok", "error"}] /\ create \in [Post -> {"new", "inserted", "ok", "error"}]
    BY DEF TypeInv, PathType
  <2>2. CASE q # p
    <3>1. create'[q] = create[q] /\ (q \in queue' <=> q \in queue)
      BY <2>1, <2>2 DEF Publish, PublishThrows, Enqueued
    <3> QED
      BY <1>4, <3>1 DEF Creates, Undelivered
  <2>3. CASE q = p /\ Publish(p)
    <3>1. topology = Declared
      BY <1>1 DEF DeclaredFirst
    <3>2. q \in queue'
      BY <2>3, <3>1 DEF Publish, Enqueued, Declared
    <3> QED
      BY <1>1, <1>4, <2>3, <3>2 DEF Creates, Undelivered
  <2>4. CASE q = p /\ PublishThrows(p)
    <3>1. ~ Fol(u, p)
      BY <1>2, <1>3, <2>4, FolConcerns
    <3> QED
      BY <1>4, <2>4, <3>1 DEF Creates
  <2> QED
    BY <2>2, <2>3, <2>4
<1>6. /\ \A q : Edits(u, q)' <=> Edits(u, q)
      /\ \A h : Handles(u, h)' <=> Handles(u, h)
      /\ \A r : Gets(u, r)' <=> Gets(u, r)
      /\ Links(u)' <=> Links(u)
  BY <1>1, <1>4 DEF Edits, Handles, Busy, Gets, Links
<1>7. Quiet(u)' => Settled(u)
  BY <1>3, <1>5, <1>6 DEF Quiet, NoCreate, NoHandle, NoEdits, NoGets, Exact
<1>8. \A q \in Post : Creates(u, q)' => Due(u, q)
  BY <1>3, <1>5 DEF Exact
<1>9. \A h \in Handler : Handles(u, h)' => Handles(u, h) /\ task'[h] = task[h] /\ Fol(u, task[h].post)'
  BY <1>1, <1>3, <1>4, <1>6 DEF Exact, HandledRight
<1> QED
  BY <1>1, <1>3, <1>4, <1>6, <1>7, <1>8, <1>9, ExactStays

(* The new post is due in the lists of the author's followers, which held    *)
(* everything else.                                                          *)
LEMMA ExactInserted ==
    ASSUME TypeInv, TypeInv', ExactInv, NowhereYet, NEW p \in Post, Insert(p), NEW u \in Reader, u \notin raced'
    PROVE  Exact(u)'
<1>1. /\ UNCHANGED <<queue, task, cache, edit, get, link>> /\ Note({}, {})
      /\ create' = [create EXCEPT ![p] = "inserted"] /\ create[p] = "new"
      /\ Write([db EXCEPT !.log = <<Entry(p, 0)>> \o @])
  BY DEF Insert, askVars
<1>2. Exact(u) /\ Single(u)'
  BY <1>1, NoteEffect DEF ExactInv
<1>3. db \in Databases
  BY MasterIsRead DEF TypeInv
<1>4. db' = [db EXCEPT !.log = <<Entry(p, 0)>> \o @] /\ db'.follows = db.follows
  <2>1. [db EXCEPT !.log = <<Entry(p, 0)>> \o @] \in Databases
    <3>1. <<Entry(p, 0)>> \o db.log \in Seq(Entries)
      BY <1>3 DEF Databases, Entry, Entries
    <3> QED
      BY <1>3, <3>1 DEF Databases
  <2>2. db' = [db EXCEPT !.log = <<Entry(p, 0)>> \o @]
    BY <1>1, <2>1, WriteEffect DEF TypeInv
  <2> QED
    BY <1>3, <2>2 DEF Databases
<1>5. \A q : Fol(u, q)' <=> Fol(u, q)
  BY <1>4 DEF Fol, FollowersOf
<1>6. \A q \in Post : q # p => (Creates(u, q)' <=> Creates(u, q))
  BY <1>1, <1>5 DEF Creates, Undelivered, TypeInv, PathType
<1>7. /\ \A q : Edits(u, q)' <=> Edits(u, q)
      /\ \A h : Handles(u, h)' <=> Handles(u, h)
      /\ \A r : Gets(u, r)' <=> Gets(u, r)
      /\ Links(u)' <=> Links(u)
  BY <1>1, <1>5 DEF Edits, Handles, Busy, Gets, Links
<1>8. Reads(db, u, p) <=> Fol(u, p)
  BY DEF Reads, Fol, FollowersOf
<1>9. Feed(u)' = FeedOf(db', u) /\ Feed(u) = FeedOf(db, u)
  BY DEF Feed
<1>10. CASE ~ Fol(u, p)
  <2>1. Still(u)
    BY <1>1, <1>3, <1>4, <1>8, <1>9, <1>10, FeedOfInserted DEF Still
  <2>2. \A q \in Post : Creates(u, q)' => Creates(u, q)
    BY <1>5, <1>6, <1>10 DEF Creates
  <2>3. Creates(u, p) => Creates(u, p)'
    BY <1>10 DEF Creates
  <2>4. Quiet(u)' => Settled(u)
    BY <1>2, <1>6, <1>7, <2>3 DEF Quiet, NoCreate, NoHandle, NoEdits, NoGets, Exact
  <2>5. \A q \in Post : Creates(u, q)' => Due(u, q)
    BY <1>2, <2>2 DEF Exact
  <2>6. \A h \in Handler : Handles(u, h)' => Handles(u, h) /\ task'[h] = task[h] /\ Fol(u, task[h].post)'
    BY <1>1, <1>2, <1>5, <1>7 DEF Exact, HandledRight
  <2> QED
    BY <1>1, <1>2, <1>7, <2>1, <2>4, <2>5, <2>6, ExactStays
<1>11. CASE Fol(u, p)
  <2>1. Creates(u, p)'
    BY <1>1, <1>5, <1>11 DEF Creates, Undelivered, TypeInv, PathType
  <2>2. NoHandle(u)' /\ NoEdits(u)' /\ NoGets(u)' /\ ~ Links(u)'
    BY <1>2, <2>1 DEF Single
  <2>3. Feed(u)' = Trimmed(<<Entry(p, 0)>> \o Feed(u))
    BY <1>3, <1>4, <1>8, <1>9, <1>11, FeedOfInserted
  <2>4. NoCreate(u)
    <3>1. ~ Creates(u, p)
      BY <1>1 DEF NowhereYet, Creates, Undelivered
    <3>2. ASSUME NEW q \in Post, q # p PROVE ~ Creates(u, q)
      BY <1>2, <1>6, <2>1, <3>2 DEF Single
    <3> QED
      BY <3>1, <3>2 DEF NoCreate
  <2>5. Settled(u)
    BY <1>2, <1>7, <2>2, <2>4 DEF Exact, Quiet, NoHandle, NoEdits, NoGets
  <2>6. Due(u, p)'
    BY <1>1, <2>3, <2>5 DEF Settled, Due, Absent
  <2>7. \A q \in Post : Creates(u, q)' => Due(u, q)'
    BY <1>2, <2>1, <2>6 DEF Single
  <2> QED
    BY <1>2, <2>1, <2>2, <2>7 DEF Exact, Quiet, NoCreate, NoHandle, NoGets
<1> QED
  BY <1>10, <1>11

LEMMA FeedFits ==
    ASSUME TypeInv, NEW u \in Reader
    PROVE  /\ Feed(u) \in Seq(Entries) /\ Trimmed(Feed(u)) = Feed(u)
           /\ Absent \o Feed(u) = Feed(u)
<1>1. Feed(u) \in Seq(Entries) /\ Len(Feed(u)) <= MaxFeed
  BY MasterIsRead, FeedOfType DEF Feed, TypeInv
<1>2. Trimmed(Feed(u)) = Feed(u)
  BY <1>1, TakeProperties, FeedBoundAssumption DEF Trimmed
<1>3. Absent \o Feed(u) = Feed(u)
  BY <1>1, ConcatEmptySeq DEF Absent
<1> QED
  BY <1>1, <1>2, <1>3

LEMMA RequestFrame ==
    ASSUME TypeInv, NEW r \in Request, RequestStep(r), NEW u
    PROVE  /\ UNCHANGED <<wal, create, queue, task, edit, link>>
           /\ \A q \in Request : q # r => get'[q] = get[q]
           /\ Feed(u)' = Feed(u)
           /\ \A p : /\ Fol(u, p)' <=> Fol(u, p)
                     /\ Creates(u, p)' <=> Creates(u, p)
                     /\ Edits(u, p)' <=> Edits(u, p)
           /\ \A h : Handles(u, h)' <=> Handles(u, h)
           /\ \A q \in Request : q # r => (Gets(u, q)' <=> Gets(u, q))
           /\ Links(u)' <=> Links(u)
<1>1. UNCHANGED <<wal, create, queue, task, edit, link>> /\ \A q \in Request : q # r => get'[q] = get[q]
  BY DEF RequestStep, BeginGet, LoadFeed, FillFeed, TrimFilled, GetThrows, pathVars, TypeInv, AskInv
<1>2. Feed(u)' = Feed(u) /\ \A p : Fol(u, p)' <=> Fol(u, p)
  BY <1>1, MasterStays DEF db
<1> QED
  BY <1>1, <1>2 DEF Creates, Undelivered, Edits, Handles, Busy, Gets, Links

(* Another reader's request.                                                 *)
LEMMA ExactGetOfOther ==
    ASSUME TypeInv, NEW r \in Request, RequestStep(r), NEW u \in Reader, For[r] # u,
           Exact(u), Single(u)'
    PROVE  Exact(u)'
<1>1. cache'[u] = cache[u]
  BY DEF RequestStep, BeginGet, LoadFeed, FillFeed, TrimFilled, GetThrows, Filled, TypeInv, ListType
<1>2. ~ Gets(u, r) /\ ~ Gets(u, r)'
  BY DEF Gets
<1>3. Still(u)
  BY <1>1, RequestFrame DEF Still
<1>4. Quiet(u)' => Settled(u)
  BY <1>2, RequestFrame DEF Exact, Quiet, NoCreate, NoHandle, NoEdits, NoGets
<1>5. \A p \in Post : Creates(u, p)' => Due(u, p)
  BY RequestFrame DEF Exact
<1>6. \A h \in Handler : Handles(u, h)' => Handles(u, h) /\ task'[h] = task[h] /\ Fol(u, task[h].post)'
  BY RequestFrame DEF Exact, HandledRight
<1>7. \A q \in Request : Gets(u, q)' => Gets(u, q) /\ get'[q] = get[q]
  BY <1>2, RequestFrame
<1> QED
  BY <1>3, <1>4, <1>5, <1>6, <1>7, ExactStays

(* A request of u is alone with the list.                                    *)
LEMMA ExactGetOfOne ==
    ASSUME TypeInv, NEW r \in Request, RequestStep(r), NEW u \in Reader, For[r] = u,
           Exact(u), Single(u)', Gets(u, r) \/ Gets(u, r)',
           IF Gets(u, r)' THEN GotRight(u, r)' ELSE Settled(u)'
    PROVE  Exact(u)'
<1>1. NoCreate(u)' /\ NoHandle(u)'
  BY RequestFrame DEF Exact, Single, NoCreate, NoHandle
<1>2. \A q \in Request : Gets(u, q)' => q = r
  BY RequestFrame DEF Exact, Single
<1>3. Quiet(u)' => Settled(u)'
  BY DEF Quiet, NoGets
<1> QED
  BY <1>1, <1>2, <1>3 DEF Exact, NoCreate, NoHandle

LEMMA ExactGet ==
    ASSUME TypeInv, TypeInv', ExactInv, NEW r \in Request, RequestStep(r), NEW u \in Reader, u \notin raced'
    PROVE  Exact(u)'
<1>1. PICK off : Note(off, {}) /\ (LoadFeed(r) => \E d \in States :
                     /\ get' = [get EXCEPT ![r] = Fill(FeedOf(d, For[r]))]
                     /\ FeedOf(d, For[r]) # FeedOf(db, For[r]) => For[r] \in off)
  <2>1. CASE LoadFeed(r)
    <3>1. PICK d \in States :
              /\ get' = [get EXCEPT ![r] = Fill(FeedOf(d, For[r]))]
              /\ Note(IF FeedOf(d, For[r]) # FeedOf(db, For[r]) THEN {For[r]} ELSE {}, {})
      BY <2>1 DEF LoadFeed
    <3> QED
      BY <3>1
  <2>2. CASE ~ LoadFeed(r)
    BY <2>2 DEF RequestStep, BeginGet, FillFeed, TrimFilled, GetThrows
  <2> QED
    BY <2>1, <2>2
<1>2. Exact(u) /\ Single(u)' /\ u \notin off
  BY <1>1, NoteEffect DEF ExactInv
<1>3. CASE For[r] # u
  BY <1>2, <1>3, ExactGetOfOther
<1>4. CASE For[r] = u
  <2> USE <1>4
  <2>1. cache \in [Reader -> Seq(Entries)] /\ get \in [Request -> GetType]
    BY DEF TypeInv, ListType, AskInv
  <2>2. get[r].at \in {"load", "fill", "trim"} => Gets(u, r) /\ GotRight(u, r)
    BY <1>2 DEF Gets, Exact
  <2>3. Feed(u)' = Feed(u)
    BY RequestFrame
  <2>4. CASE BeginGet(r)
    <3>1. get'[r].at = "load" /\ cache'[u] = Absent
      BY <2>1, <2>4 DEF BeginGet, Missing, GetType
    <3>2. Gets(u, r)' /\ GotRight(u, r)'
      BY <3>1 DEF Gets, GotRight, Absent
    <3> QED
      BY <1>2, <3>2, ExactGetOfOne
  <2>5. CASE LoadFeed(r)
    <3>1. Gets(u, r) /\ cache[u] = Absent /\ cache' = cache
      BY <2>2, <2>5 DEF LoadFeed, GotRight
    <3>2. get'[r] = Fill(Feed(u))
      BY <1>1, <1>2, <2>1, <2>5 DEF Feed
    <3>3. CASE Feed(u) = <<>>
      <4>1. ~ Gets(u, r)' /\ Settled(u)'
        BY <3>1, <3>2, <3>3 DEF Fill, NoGet, Gets, Settled, Absent
      <4> QED
        BY <1>2, <3>1, <4>1, ExactGetOfOne
    <3>4. CASE Feed(u) # <<>>
      <4>1. get'[r].at = "fill" /\ get'[r].rows = Feed(u)
        BY <3>2, <3>4 DEF Fill
      <4>2. Gets(u, r)' /\ GotRight(u, r)'
        BY <2>3, <3>1, <4>1 DEF Gets, GotRight, Absent
      <4> QED
        BY <1>2, <4>2, ExactGetOfOne
    <3> QED
      BY <3>3, <3>4
  <2>6. get[r].at = "fill" /\ cache' = Filled(r) => cache'[u] = Feed(u)
    <3> SUFFICES ASSUME get[r].at = "fill", cache' = Filled(r) PROVE cache'[u] = Feed(u)
      OBVIOUS
    <3>1. cache[u] = Absent /\ get[r].rows = Feed(u)
      BY <2>2 DEF GotRight
    <3> QED
      BY <2>1, <3>1, FeedFits DEF Filled
  <2>7. get[r].at = "trim" /\ cache' = [cache EXCEPT ![For[r]] = Trimmed(@)] => cache'[u] = Feed(u)
    BY <2>1, <2>2, FeedFits DEF GotRight
  <2>8. CASE FillFeed(r)
    <3>1. get[r].at = "fill" /\ cache'[u] = Feed(u) /\ get'[r].at = "trim"
      BY <2>1, <2>6, <2>8 DEF FillFeed
    <3>2. Gets(u, r)' /\ GotRight(u, r)'
      BY <2>3, <3>1 DEF Gets, GotRight
    <3> QED
      BY <1>2, <3>2, ExactGetOfOne
  <2>9. CASE TrimFilled(r) \/ GetThrows(r)
    <3>1. get[r].at \in {"load", "fill", "trim"} /\ get'[r] = NoGet
      BY <2>1, <2>9 DEF TrimFilled, GetThrows, GetType
    <3>2. cache'[u] = Feed(u) \/ cache'[u] = cache[u]
      BY <2>6, <2>7, <2>9 DEF TrimFilled, GetThrows
    <3>3. Settled(u)
      BY <2>2, <3>1 DEF GotRight, Settled
    <3>4. ~ Gets(u, r)' /\ Settled(u)'
      BY <2>3, <3>1, <3>2, <3>3 DEF Gets, NoGet, Settled, Absent
    <3> QED
      BY <1>2, <2>2, <3>1, <3>4, ExactGetOfOne
  <2> QED
    BY <2>4, <2>5, <2>8, <2>9 DEF RequestStep
<1> QED
  BY <1>3, <1>4

LEMMA HandlerFrame ==
    ASSUME TypeInv, NEW h \in Handler, HandlerStep(h), NEW u
    PROVE  /\ UNCHANGED <<wal, create, edit, get, link>>
           /\ Feed(u)' = Feed(u)
           /\ \A p : /\ Fol(u, p)' <=> Fol(u, p)
                     /\ Edits(u, p)' <=> Edits(u, p)
           /\ \A g \in Handler : g # h => task'[g] = task[g] /\ (Handles(u, g)' <=> Handles(u, g))
           /\ \A r : Gets(u, r)' <=> Gets(u, r)
           /\ Links(u)' <=> Links(u)
<1>1. UNCHANGED <<wal, create, edit, get, link>>
  BY DEF HandlerStep, Serving, TakeEvent, ReadFollowers, CheckKey, PushPost, TrimFeed, FanOut,
         HandlerThrows, LoseChannel, askVars
<1>2. \A g \in Handler : g # h => task'[g] = task[g]
  BY TaskOfOthers
<1>3. Feed(u)' = Feed(u) /\ \A p : Fol(u, p)' <=> Fol(u, p)
  BY <1>1, MasterStays DEF db
<1>4. \A g \in Handler : g # h => (Handles(u, g)' <=> Handles(u, g))
  BY <1>2, <1>3 DEF Handles, Busy
<1> QED
  BY <1>1, <1>2, <1>3, <1>4 DEF Edits, Gets, Links

(* h leaves the list alone.                                                  *)
LEMMA ExactBeside ==
    ASSUME TypeInv, NEW h \in Handler, HandlerStep(h), NEW u \in Reader,
           Exact(u), Single(u)', cache'[u] = cache[u],
           \A p \in Post : Creates(u, p)' => Creates(u, p),
           \A p \in Post : Creates(u, p) => Creates(u, p)' \/ Handles(u, h)',
           Handles(u, h) => Handles(u, h)' \/ Settled(u),
           Handles(u, h)' => HandledRight(u, h)'
    PROVE  Exact(u)'
<1>1. Still(u)
  BY HandlerFrame DEF Still
<1>2. Quiet(u)' => Settled(u)
  <2> SUFFICES ASSUME Quiet(u)' PROVE Settled(u)
    OBVIOUS
  <2>1. ~ Handles(u, h)' /\ \A p \in Post : ~ Creates(u, p)'
    BY DEF Quiet, NoHandle, NoCreate
  <2>2. ASSUME ~ Handles(u, h) PROVE Quiet(u)
    BY <2>1, <2>2, HandlerFrame DEF Quiet, NoCreate, NoHandle, NoEdits, NoGets
  <2> QED
    BY <2>1, <2>2 DEF Exact
<1>3. \A p \in Post : Creates(u, p)' => Due(u, p)
  BY DEF Exact
<1>4. \A g \in Handler : Handles(u, g)' =>
          (Handles(u, g) /\ task'[g] = task[g] /\ Fol(u, task[g].post)') \/ HandledRight(u, g)'
  BY HandlerFrame DEF Exact, HandledRight
<1>5. \A r \in Request : Gets(u, r)' => Gets(u, r) /\ get'[r] = get[r]
  BY HandlerFrame
<1> QED
  BY <1>1, <1>2, <1>3, <1>4, <1>5, ExactStays

(* h is at the list, and alone with it.                                      *)
LEMMA ExactAt ==
    ASSUME TypeInv, NEW h \in Handler, HandlerStep(h), NEW u \in Reader,
           Exact(u), Single(u)', Handles(u, h),
           \A p \in Post : Creates(u, p)' => Creates(u, p),
           IF Handles(u, h)' THEN HandledRight(u, h)' ELSE Settled(u)'
    PROVE  Exact(u)'
<1>1. NoCreate(u)' /\ NoGets(u)'
  BY HandlerFrame DEF Exact, Single, NoCreate, NoGets
<1>2. \A g \in Handler : Handles(u, g)' => g = h
  BY HandlerFrame DEF Exact, Single
<1>3. Quiet(u)' => Settled(u)'
  BY DEF Quiet, NoHandle
<1> QED
  BY <1>1, <1>2, <1>3 DEF Exact, NoCreate, NoGets

LEMMA ExactTaken ==
    ASSUME TypeInv, NEW h \in Handler, NEW p \in Post, TakeEvent(h, p), NEW u \in Reader,
           Exact(u), Single(u)'
    PROVE  Exact(u)'
<1>1. /\ task[h].at = "free" /\ p \in queue /\ queue' = queue \ {p} /\ UNCHANGED <<create, cache>>
      /\ task'[h] = NewTask(p) /\ HandlerStep(h)
  BY DEF TakeEvent, TypeInv, TaskInv, HandlerStep
<1>2. \A q : Fol(u, q)' <=> Fol(u, q)
  BY <1>1, HandlerFrame
<1>3. ~ Handles(u, h) /\ (Handles(u, h)' <=> Fol(u, p))
  BY <1>1, <1>2 DEF Handles, Busy, NewTask
<1>4. /\ \A q \in Post : Creates(u, q)' => Creates(u, q)
      /\ \A q \in Post : q # p => (Creates(u, q) => Creates(u, q)')
      /\ Creates(u, p) <=> Fol(u, p)
  BY <1>1, <1>2 DEF Creates, Undelivered
<1>5. ASSUME Fol(u, p) PROVE HandledRight(u, h)'
  <2>1. Due(u, p)
    BY <1>4, <1>5 DEF Exact
  <2>2. Due(u, p)'
    BY <1>1, <2>1, HandlerFrame DEF Due, Absent
  <2>3. ~ At(h, "trim", u)' /\ ~ At(h, "push", u)' /\ task'[h].post = p
    BY <1>1 DEF At, NewTask
  <2> QED
    BY <1>2, <1>5, <2>2, <2>3 DEF HandledRight
<1> QED
  BY <1>1, <1>3, <1>4, <1>5, ExactBeside

(* The step of h does not concern u: his list, and whether h has him to      *)
(* serve, remain.                                                            *)
LEMMA ExactPassed ==
    ASSUME TypeInv, NEW h \in Handler, HandlerStep(h), NEW u \in Reader,
           Exact(u), Single(u)', cache'[u] = cache[u], UNCHANGED queue,
           Busy(h), Busy(h)', task'[h].post = task[h].post,
           task[h].at # "start", task'[h].at # "start",
           u \in task'[h].todo <=> u \in task[h].todo,
           ~ At(h, "trim", u), ~ At(h, "trim", u)', ~ At(h, "push", u)'
    PROVE  Exact(u)'
<1>1. Handles(u, h)' <=> Handles(u, h)
  BY DEF Handles
<1>2. \A p : Creates(u, p)' <=> Creates(u, p)
  BY HandlerFrame DEF Creates, Undelivered
<1>3. ASSUME Handles(u, h) PROVE HandledRight(u, h)'
  <2>1. HandledRight(u, h) /\ Due(u, task[h].post)
    BY <1>3 DEF Exact, HandledRight
  <2>2. Due(u, task[h].post)'
    BY <2>1, HandlerFrame DEF Due, Absent
  <2> QED
    BY <2>1, <2>2, HandlerFrame DEF HandledRight
<1> QED
  BY <1>1, <1>2, <1>3, ExactBeside

LEMMA ExactServed ==
    ASSUME TypeInv, TypeInv', ExactInv, NEW h \in Handler, Serving(h), NEW u \in Reader, u \notin raced'
    PROVE  Exact(u)'
<1>1. PICK off : Note(off, {}) /\ (ReadFollowers(h) => \E d \in States :
                     /\ Goto(h, "loop", {}, FollowersOf(d, Author[task[h].post]))
                     /\ Misread(d, Author[task[h].post]) \subseteq off)
  <2>1. CASE ReadFollowers(h)
    <3>1. PICK d \in States :
              /\ Goto(h, "loop", {}, FollowersOf(d, Author[task[h].post]))
              /\ Note(Misread(d, Author[task[h].post]), {})
      BY <2>1 DEF ReadFollowers
    <3> QED
      BY <3>1
  <2>2. CASE ~ ReadFollowers(h)
    BY <2>2 DEF Serving, CheckKey, PushPost, TrimFeed, FanOut
  <2> QED
    BY <2>1, <2>2
<1>2. Exact(u) /\ Single(u)' /\ u \notin off
  BY <1>1, NoteEffect DEF ExactInv
<1>3. HandlerStep(h) /\ Busy(h) /\ TaskInv
  <2>1. Busy(h)
    BY DEF Serving, ReadFollowers, CheckKey, PushPost, TrimFeed, FanOut, Sends, At, Busy
  <2> QED
    BY <2>1 DEF HandlerStep, TypeInv
<1>t. PICK t : t = task[h]
  OBVIOUS
<1>p. PICK p : p = task[h].post
  OBVIOUS
<1>4. /\ p \in Post /\ t.todo \subseteq Reader /\ t.now \subseteq t.todo
      /\ t.at \in {"start", "loop"} => t.now = {}
      /\ t.at \in {"push", "trim"} => \E v \in Reader : t.now = {v}
  BY <1>t, <1>p, <1>3, BusyType
<1>5. t.at # "start" => (Handles(u, h) <=> u \in t.todo)
  BY <1>t, <1>3 DEF Handles
<1>6. Handles(u, h) => HandledRight(u, h)
  BY <1>2 DEF Exact
<1>7. cache \in [Reader -> Seq(Entries)]
  BY DEF TypeInv, ListType
<1>8. Feed(u)' = Feed(u) /\ \A q : Fol(u, q)' <=> Fol(u, q)
  BY <1>3, HandlerFrame
<1>9. ASSUME UNCHANGED queue, NEW q \in Post PROVE Creates(u, q)' <=> Creates(u, q)
  BY <1>3, <1>8, <1>9, HandlerFrame DEF Creates, Undelivered
<1>10. ASSUME NEW at \in {"loop", "push", "trim"}, NEW now, NEW todo, Goto(h, at, now, todo)
       PROVE  /\ task'[h].at = at /\ task'[h].now = now /\ task'[h].todo = todo
              /\ task'[h].post = p /\ Busy(h)'
              /\ Handles(u, h)' <=> u \in todo
  <2>1. task'[h].at = at /\ task'[h].now = now /\ task'[h].todo = todo /\ task'[h].post = task[h].post
    BY <1>3, <1>10, BusyType DEF Goto, TaskInv, BusyTask
  <2> QED
    BY <1>p, <2>1 DEF Busy, Handles
<1>11. CASE ReadFollowers(h)
  <2>1. t.at = "start" /\ UNCHANGED <<queue, cache>>
    BY <1>t, <1>11 DEF ReadFollowers
  <2>2. PICK d \in States : Goto(h, "loop", {}, FollowersOf(d, Author[p])) /\ u \notin Misread(d, Author[p])
    BY <1>p, <1>1, <1>2, <1>11
  <2>3. u \in FollowersOf(d, Author[p]) <=> Fol(u, p)
    BY <2>2 DEF Misread, Fol
  <2>4. /\ Handles(u, h)' <=> Fol(u, p)
        /\ task'[h].post = p /\ ~ At(h, "trim", u)' /\ ~ At(h, "push", u)'
    BY <1>10, <2>2, <2>3 DEF At
  <2>5. Handles(u, h) <=> Fol(u, p)
    BY <1>t, <1>p, <1>3, <2>1 DEF Handles
  <2>6. ASSUME Handles(u, h) PROVE HandledRight(u, h)'
    <3>1. Due(u, p)
      BY <1>t, <1>p, <1>6, <2>1, <2>6 DEF HandledRight, At
    <3>2. Due(u, p)'
      BY <1>8, <2>1, <3>1 DEF Due, Absent
    <3> QED
      BY <1>8, <2>4, <2>5, <2>6, <3>2 DEF HandledRight
  <2> QED
    BY <1>2, <1>3, <1>9, <2>1, <2>4, <2>5, <2>6, ExactBeside
<1>12. ASSUME NEW v \in Reader, CheckKey(h, v) PROVE Exact(u)'
  <2>1. /\ t.at = "loop" /\ v \in t.todo /\ UNCHANGED <<queue, cache>>
        /\ IF cache[v] # Absent THEN Goto(h, "push", {v}, t.todo)
                                ELSE Goto(h, "loop", {}, t.todo \ {v})
    BY <1>t, <1>12 DEF CheckKey, Others
  <2>2. ~ At(h, "trim", u) /\ ~ At(h, "trim", u)' /\ task'[h].at # "start" /\ Busy(h)' /\ task'[h].post = p
    BY <1>t, <1>10, <2>1 DEF At
  <2>3. CASE u # v
    <3>1. (u \in task'[h].todo <=> u \in t.todo) /\ ~ At(h, "push", u)'
      BY <1>10, <2>1, <2>3 DEF At
    <3> QED
      BY <1>t, <1>p, <1>2, <1>3, <2>1, <2>2, <3>1, ExactPassed
  <2>4. CASE u = v /\ cache[u] # Absent
    <3>1. Handles(u, h)' /\ Handles(u, h)
      BY <1>5, <1>10, <2>1, <2>4
    <3>2. Due(u, p) /\ Fol(u, p)
      BY <1>p, <1>6, <2>2, <3>1 DEF HandledRight
    <3>3. Due(u, p)' /\ cache'[u] # Absent
      BY <1>8, <2>1, <2>4, <3>2 DEF Due, Absent
    <3>4. HandledRight(u, h)'
      BY <1>8, <2>2, <3>2, <3>3 DEF HandledRight, Absent
    <3> QED
      BY <1>2, <1>3, <1>9, <2>1, <3>1, <3>4, ExactBeside
  <2>5. CASE u = v /\ cache[u] = Absent
    <3>1. ~ Handles(u, h)' /\ Settled(u)
      BY <1>10, <2>1, <2>5 DEF Settled
    <3> QED
      BY <1>2, <1>3, <1>9, <2>1, <3>1, ExactBeside
  <2> QED
    BY <2>3, <2>4, <2>5
<1>13. ASSUME NEW v \in Reader, PushPost(h, v) PROVE Exact(u)'
  <2>1. /\ t.at = "push" /\ t.now = {v} /\ v \in t.todo /\ UNCHANGED queue
        /\ cache' = Pushed(h, v) /\ Goto(h, "trim", {v}, t.todo)
    BY <1>t, <1>4, <1>13 DEF PushPost, At
  <2>2. /\ task'[h].at = "trim" /\ task'[h].now = {v} /\ task'[h].todo = t.todo /\ task'[h].post = p
        /\ Busy(h)' /\ (Handles(u, h)' <=> u \in t.todo)
    BY <1>10, <2>1
  <2>3. CASE u # v
    <3>1. cache'[u] = cache[u]
      BY <1>7, <2>1, <2>3 DEF Pushed
    <3>2. ~ At(h, "trim", u) /\ ~ At(h, "trim", u)' /\ ~ At(h, "push", u)'
      BY <1>t, <2>1, <2>2, <2>3 DEF At
    <3> QED
      BY <1>t, <1>p, <1>2, <1>3, <2>1, <2>2, <3>1, <3>2, ExactPassed
  <2>4. CASE u = v
    <3>1. Handles(u, h) /\ Handles(u, h)' /\ At(h, "push", u) /\ ~ At(h, "trim", u)
      BY <1>t, <1>5, <2>1, <2>2, <2>4 DEF At
    <3>2. Feed(u) = Trimmed(<<Entry(p, 0)>> \o cache[u]) /\ Fol(u, p)
      BY <1>p, <1>6, <3>1 DEF HandledRight, Due
    <3>3. cache'[u] = <<Entry(p, 0)>> \o cache[u]
      BY <1>p, <1>7, <2>1, <2>4 DEF Pushed
    <3>4. Trimmed(cache[u])' = Feed(u)'
      BY <1>8, <3>2, <3>3 DEF Trimmed, Take
    <3>5. HandledRight(u, h)'
      BY <1>8, <2>2, <2>4, <3>2, <3>4 DEF HandledRight, At
    <3> QED
      BY <1>2, <1>3, <1>9, <2>1, <3>1, <3>5, ExactAt
  <2> QED
    BY <2>3, <2>4
<1>14. ASSUME NEW v \in Reader, TrimFeed(h, v) PROVE Exact(u)'
  <2>1. /\ t.at = "trim" /\ t.now = {v} /\ v \in t.todo /\ UNCHANGED queue
        /\ cache' = [cache EXCEPT ![v] = Trimmed(@)] /\ Goto(h, "loop", {}, t.todo \ {v})
    BY <1>t, <1>4, <1>14 DEF TrimFeed, At
  <2>2. /\ task'[h].at = "loop" /\ task'[h].now = {} /\ task'[h].todo = t.todo \ {v} /\ task'[h].post = p
        /\ Busy(h)' /\ (Handles(u, h)' <=> u \in t.todo \ {v})
    BY <1>10, <2>1
  <2>3. CASE u # v
    <3>1. cache'[u] = cache[u]
      BY <1>7, <2>1, <2>3
    <3>2. ~ At(h, "trim", u) /\ ~ At(h, "trim", u)' /\ ~ At(h, "push", u)'
      BY <1>t, <2>1, <2>2, <2>3 DEF At
    <3>3. u \in task'[h].todo <=> u \in t.todo
      BY <2>2, <2>3
    <3> QED
      BY <1>t, <1>p, <1>2, <1>3, <2>1, <2>2, <3>1, <3>2, <3>3, ExactPassed
  <2>4. CASE u = v
    <3>1. Handles(u, h) /\ ~ Handles(u, h)' /\ At(h, "trim", u)
      BY <1>t, <1>5, <2>1, <2>2, <2>4 DEF At
    <3>2. cache'[u] = Feed(u)
      BY <1>6, <1>7, <2>1, <2>4, <3>1 DEF HandledRight
    <3>3. Settled(u)'
      BY <1>8, <3>2 DEF Settled
    <3> QED
      BY <1>2, <1>3, <1>9, <2>1, <3>1, <3>3, ExactAt
  <2> QED
    BY <2>3, <2>4
<1>15. CASE FanOut(h)
  <2>1. t.at = "loop" /\ t.todo = {} /\ UNCHANGED <<queue, cache>> /\ task'[h] = FreeTask
    BY <1>t, <1>3, <1>15 DEF FanOut, Sends, Acked, TaskInv
  <2>2. ~ Handles(u, h) /\ ~ Handles(u, h)'
    BY <1>5, <2>1 DEF Handles, Busy, FreeTask
  <2> QED
    BY <1>2, <1>3, <1>9, <2>1, <2>2, ExactBeside
<1> QED
  BY <1>11, <1>12, <1>13, <1>14, <1>15 DEF Serving

(* A handler that fails, or loses its channel, spoils the lists of those who *)
(* follow its post; it has nobody else to serve, in the lists that count.    *)
LEMMA ExactFailed ==
    ASSUME TypeInv, TypeInv', ExactInv, NEW h \in Handler, HandlerThrows(h) \/ LoseChannel(h),
           NEW u \in Reader, u \notin raced'
    PROVE  Exact(u)'
<1>1. Note({v \in Reader : Concerns(v, task[h].post)}, {})
  BY DEF HandlerThrows, LoseChannel
<1>2. Exact(u) /\ Single(u)' /\ ~ Concerns(u, task[h].post)
  BY <1>1, NoteEffect DEF ExactInv
<1>3. HandlerStep(h) /\ Busy(h) /\ TaskInv
  BY DEF HandlerStep, HandlerThrows, LoseChannel, TypeInv
<1>4. ~ Fol(u, task[h].post)
  BY <1>2, FolConcerns
<1>5. ~ Handles(u, h)
  BY <1>2, <1>4 DEF Exact, HandledRight
<1>6. Feed(u)' = Feed(u) /\ \A q : Fol(u, q)' <=> Fol(u, q)
  BY <1>3, HandlerFrame
<1>7. ~ Handles(u, h)'
  <2>1. CASE HandlerThrows(h)
    <3>1. task'[h] = FreeTask
      BY <1>3, <2>1 DEF HandlerThrows, TaskInv
    <3> QED
      BY <3>1 DEF Handles, Busy, FreeTask
  <2>2. CASE LoseChannel(h)
    <3>1. task'[h].at = task[h].at /\ task'[h].todo = task[h].todo /\ task'[h].post = task[h].post
      BY <1>3, <2>2, BusyType DEF LoseChannel, TaskInv, BusyTask
    <3> QED
      BY <1>5, <1>6, <3>1 DEF Handles, Busy
  <2> QED
    BY <2>1, <2>2
<1>8. \A q \in Post : Creates(u, q)' <=> Creates(u, q)
  <2> SUFFICES ASSUME NEW q \in Post PROVE Creates(u, q)' <=> Creates(u, q)
    OBVIOUS
  <2>1. q # task[h].post => (q \in queue' <=> q \in queue)
    BY DEF HandlerThrows, LoseChannel, Requeued
  <2> QED
    BY <1>3, <1>4, <1>6, <2>1, HandlerFrame DEF Creates, Undelivered
<1>9. cache'[u] = cache[u]
  <2>1. ~ At(h, "push", u) /\ ~ At(h, "trim", u)
    BY <1>3, <1>5, BusyType DEF At, Handles
  <2>2. cache \in [Reader -> Seq(Entries)]
    BY DEF TypeInv, ListType
  <2> QED
    BY <2>1, <2>2 DEF HandlerThrows, LastEffect, Pushed, LoseChannel
<1> QED
  BY <1>2, <1>3, <1>5, <1>7, <1>8, <1>9, ExactBeside

(* An edit or a friend request that leaves the list of u and his feed.       *)
LEMMA ExactAway ==
    ASSUME TypeInv, UNCHANGED <<create, queue, task, get>>, NEW u \in Reader,
           Exact(u), Single(u)', Still(u), \A p : Fol(u, p)' <=> Fol(u, p),
           \A p \in Post : Edits(u, p) => Edits(u, p)',
           Links(u) => Links(u)'
    PROVE  Exact(u)'
<1>1. /\ \A p : Creates(u, p)' <=> Creates(u, p)
      /\ \A h : Handles(u, h)' <=> Handles(u, h)
      /\ \A r : Gets(u, r)' <=> Gets(u, r)
  BY DEF Creates, Undelivered, Handles, Busy, Gets
<1>2. Quiet(u)' => Settled(u)
  BY <1>1 DEF Quiet, NoCreate, NoHandle, NoEdits, NoGets, Exact
<1>3. \A p \in Post : Creates(u, p)' => Due(u, p)
  BY <1>1 DEF Exact
<1>4. \A h \in Handler : Handles(u, h)' => Handles(u, h) /\ task'[h] = task[h] /\ Fol(u, task[h].post)'
  BY <1>1 DEF Exact, HandledRight
<1> QED
  BY <1>1, <1>2, <1>3, <1>4, ExactStays

(* It is yet to delete the list, and alone with it.                          *)
LEMMA ExactYetToGo ==
    ASSUME NEW u \in Reader, Single(u)', Links(u)' \/ \E p \in Post : Edits(u, p)'
    PROVE  Exact(u)'
<1>1. NoCreate(u)' /\ NoHandle(u)' /\ NoGets(u)' /\ ~ Quiet(u)'
  BY DEF Single, Quiet, NoEdits
<1> QED
  BY <1>1 DEF Exact, NoCreate, NoHandle, NoGets

(* It deletes the list.                                                      *)
LEMMA ExactGone ==
    ASSUME UNCHANGED <<create, queue, task, get>>, db' = db, NEW u \in Reader, Single(u), Single(u)',
           cache'[u] = Absent, Links(u) \/ \E p \in Post : Edits(u, p)
    PROVE  Exact(u)'
<1>1. NoCreate(u) /\ NoHandle(u) /\ NoGets(u)
  BY DEF Single
<1>2. \A p : Fol(u, p)' <=> Fol(u, p)
  BY MasterStays
<1>3. NoCreate(u)' /\ NoHandle(u)' /\ NoGets(u)'
  BY <1>1, <1>2 DEF NoCreate, Creates, Undelivered, NoHandle, Handles, Busy, NoGets, Gets
<1>4. Settled(u)'
  BY DEF Settled, Absent
<1> QED
  BY <1>3, <1>4 DEF Exact, NoCreate, NoHandle, NoGets

EditStep(p) == UpdatePost(p) \/ DeletePost(p) \/ ReadEdited(p) \/ InvalidateEdited(p) \/ EditThrows(p)

LEMMA EditFrame ==
    ASSUME TypeInv, NEW p \in Post, EditStep(p)
    PROVE  /\ UNCHANGED <<create, queue, task, get, link>>
           /\ \A q \in Post : q # p => edit'[q] = edit[q]
           /\ edit[p] \in EditType
  BY DEF EditStep, UpdatePost, DeletePost, ReadEdited, InvalidateEdited, EditThrows, pathVars,
         TypeInv, AskInv

LEMMA ExactWritten ==
    ASSUME TypeInv, TypeInv', ExactInv, NEW p \in Post, UpdatePost(p) \/ DeletePost(p),
           NEW u \in Reader, u \notin raced'
    PROVE  Exact(u)'
<1>1. /\ Note({}, {}) /\ edit[p].at = "idle" /\ UNCHANGED cache /\ EditStep(p)
      /\ edit' = [edit EXCEPT ![p].at = "written"]
  BY DEF UpdatePost, DeletePost, EditStep
<1>2. Exact(u) /\ Single(u)'
  BY <1>1, NoteEffect DEF ExactInv
<1>3. edit'[p].at = "written"
  BY <1>1, EditFrame DEF EditType, TypeInv, AskInv
<1>4. db \in Databases /\ Once(db.log) /\ db.log \in Seq(Entries)
  BY MasterIsRead DEF TypeInv, LogInv, Databases
<1>5. /\ db'.follows = db.follows
      /\ ~ Reads(db, u, p) => FeedOf(db', u) = FeedOf(db, u)
  <2>1. ASSUME NEW M \in Seq(Entries), Write([db EXCEPT !.log = M])
        PROVE  db' = [db EXCEPT !.log = M] /\ db'.follows = db.follows
    <3>1. [db EXCEPT !.log = M] \in Databases /\ [db EXCEPT !.log = M].follows = db.follows
      BY <1>4 DEF Databases
    <3> QED
      BY <2>1, <3>1, WriteEffect DEF TypeInv
  <2>2. CASE UpdatePost(p)
    <3> DEFINE M == [i \in DOMAIN db.log |-> IF db.log[i].post = p THEN Entry(p, 1) ELSE db.log[i]]
    <3>1. Write([db EXCEPT !.log = M])
      BY <2>2 DEF UpdatePost
    <3>2. M \in Seq(Entries)
      BY <1>4, UpdatedLog
    <3> HIDE DEF M
    <3>3. db' = [db EXCEPT !.log = M] /\ db'.follows = db.follows
      BY <2>1, <3>1, <3>2
    <3>4. ~ Reads(db, u, p) => FeedOf([db EXCEPT !.log = M], u) = FeedOf(db, u)
      BY <1>4, FeedOfUpdated DEF M
    <3> QED
      BY <3>3, <3>4
  <2>3. CASE DeletePost(p)
    <3>1. PICK k \in DOMAIN db.log :
              /\ db.log[k].post = p
              /\ Write([db EXCEPT !.log = SubSeq(@, 1, k - 1) \o SubSeq(@, k + 1, Len(@))])
      BY <2>3 DEF DeletePost
    <3> DEFINE M == SubSeq(db.log, 1, k - 1) \o SubSeq(db.log, k + 1, Len(db.log))
    <3>2. M \in Seq(Entries)
      BY <1>4, DeletedLog
    <3>3. Write([db EXCEPT !.log = M])
      BY <3>1
    <3> HIDE DEF M
    <3>4. db' = [db EXCEPT !.log = M] /\ db'.follows = db.follows
      BY <2>1, <3>2, <3>3
    <3>5. ~ Reads(db, u, p) => FeedOf([db EXCEPT !.log = M], u) = FeedOf(db, u)
      BY <1>4, <3>1, FeedOfDeleted DEF M
    <3> QED
      BY <3>4, <3>5
  <2> QED
    BY <2>2, <2>3
<1>6. \A q : Fol(u, q)' <=> Fol(u, q)
  BY <1>5 DEF Fol, FollowersOf
<1>7. CASE Fol(u, p)
  <2>1. Edits(u, p)'
    BY <1>3, <1>6, <1>7 DEF Edits
  <2> QED
    BY <1>2, <2>1, ExactYetToGo
<1>8. CASE ~ Fol(u, p)
  <2>1. Still(u)
    BY <1>1, <1>5, <1>8 DEF Still, Feed, Reads, Fol, FollowersOf
  <2>2. \A q \in Post : Edits(u, q) => Edits(u, q)'
    BY <1>1, <1>6, EditFrame DEF Edits
  <2> QED
    BY <1>1, <1>2, <1>6, <2>1, <2>2, EditFrame, ExactAway DEF Links
<1> QED
  BY <1>7, <1>8

LEMMA ExactInvalidated ==
    ASSUME TypeInv, TypeInv', ExactInv, NEW p \in Post,
           ReadEdited(p) \/ InvalidateEdited(p) \/ EditThrows(p),
           NEW u \in Reader, u \notin raced'
    PROVE  Exact(u)'
<1>1. EditStep(p) /\ wal' = wal /\ db' = db
  BY DEF ReadEdited, InvalidateEdited, EditThrows, EditStep, db
<1>2. Feed(u)' = Feed(u) /\ \A q : Fol(u, q)' <=> Fol(u, q)
  BY <1>1, MasterStays
<1>3. \A q \in Post : q # p => (Edits(u, q) => Edits(u, q)')
  BY <1>1, <1>2, EditFrame DEF Edits
<1>4. ASSUME Exact(u), Single(u)', cache'[u] = cache[u], Edits(u, p) => Edits(u, p)'
      PROVE  Exact(u)'
  BY <1>1, <1>2, <1>3, <1>4, EditFrame, ExactAway DEF Still, Links
<1>5. CASE ReadEdited(p)
  <2>1. PICK d \in States :
            /\ edit' = [edit EXCEPT ![p] = IF FollowersOf(d, Author[p]) = {} THEN NoEdit
                                           ELSE [at |-> "read", keys |-> FollowersOf(d, Author[p])]]
            /\ Note(Misread(d, Author[p]), {})
    BY <1>5 DEF ReadEdited
  <2>2. Exact(u) /\ Single(u)' /\ u \notin Misread(d, Author[p])
    BY <2>1, NoteEffect DEF ExactInv
  <2>3. u \in FollowersOf(d, Author[p]) <=> Fol(u, p)
    BY <2>2 DEF Misread, Fol
  <2>4. edit[p].at = "written" /\ cache' = cache
    BY <1>5 DEF ReadEdited
  <2>5. ASSUME Edits(u, p) PROVE Edits(u, p)'
    <3>1. u \in FollowersOf(d, Author[p])
      BY <2>3, <2>4, <2>5 DEF Edits
    <3>2. edit'[p] = [at |-> "read", keys |-> FollowersOf(d, Author[p])]
      BY <2>1, <3>1 DEF TypeInv, AskInv
    <3> QED
      BY <3>1, <3>2 DEF Edits
  <2> QED
    BY <1>4, <2>2, <2>4, <2>5
<1>6. CASE InvalidateEdited(p)
  <2>1. edit[p].at = "read" /\ DeleteLists(edit[p].keys) /\ Note({}, edit[p].keys)
    BY <1>6 DEF InvalidateEdited
  <2>2. Single(u)' /\ (u \notin raced \/ (u \in edit[p].keys /\ Alone(u)))
    BY <2>1, NoteEffect
  <2>3. CASE u \in edit[p].keys
    <3>1. Single(u)
      BY <2>2, OneOperation DEF AloneIsSingle, ExactInv, Exact
    <3>2. Edits(u, p) /\ cache'[u] = Absent
      BY <2>1, <2>3 DEF Edits, DeleteLists
    <3> QED
      BY <1>1, <2>2, <3>1, <3>2, EditFrame, ExactGone
  <2>4. CASE u \notin edit[p].keys
    <3>1. Exact(u) /\ ~ Edits(u, p) /\ cache'[u] = cache[u]
      BY <2>1, <2>2, <2>4 DEF ExactInv, Edits, DeleteLists
    <3> QED
      BY <1>4, <2>2, <3>1
  <2> QED
    BY <2>3, <2>4
<1>7. CASE EditThrows(p)
  <2>1. Note({v \in Reader : Concerns(v, p)} \cup edit[p].keys, {})
    BY <1>7 DEF EditThrows
  <2>2. Exact(u) /\ Single(u)' /\ ~ Concerns(u, p) /\ u \notin edit[p].keys
    BY <2>1, NoteEffect DEF ExactInv
  <2>3. ~ Edits(u, p)
    BY <2>2, FolConcerns DEF Edits
  <2>4. cache'[u] = cache[u]
    BY <1>7, <2>2 DEF EditThrows, DeleteLists
  <2> QED
    BY <1>4, <2>2, <2>3, <2>4
<1> QED
  BY <1>5, <1>6, <1>7

LinkStep(v) == (\E w \in Writer : Follow(v, w) \/ Unfollow(v, w)) \/ InvalidateLinked(v) \/ LinkThrows(v)

LEMMA ExactLinked ==
    ASSUME TypeInv, TypeInv', ExactInv, NEW v \in Reader, LinkStep(v), NEW u \in Reader, u \notin raced'
    PROVE  Exact(u)'
<1>1. UNCHANGED <<create, queue, task, get, edit>> /\ \A x \in Reader : x # v => link'[x] = link[x]
  BY DEF LinkStep, Follow, Unfollow, WriteLink, InvalidateLinked, LinkThrows, pathVars, TypeInv, AskInv
<1>2. link \in [Reader -> {"idle", "written"}]
  BY DEF TypeInv, AskInv
<1>3. ASSUME u # v, Exact(u), Single(u)', cache'[u] = cache[u], Feed(u)' = Feed(u),
             \A q : Fol(u, q)' <=> Fol(u, q)
      PROVE  Exact(u)'
  <2>1. \A q : Edits(u, q)' <=> Edits(u, q)
    BY <1>1, <1>3 DEF Edits
  <2>2. Links(u)' <=> Links(u)
    BY <1>1, <1>3 DEF Links
  <2> QED
    BY <1>1, <1>3, <2>1, <2>2, ExactAway DEF Still
<1>4. CASE InvalidateLinked(v) \/ LinkThrows(v)
  <2>1. db' = db /\ link[v] = "written"
    BY <1>4 DEF InvalidateLinked, LinkThrows, db
  <2>2. Feed(u)' = Feed(u) /\ \A q : Fol(u, q)' <=> Fol(u, q)
    BY <2>1, MasterStays
  <2>3. CASE u = v /\ InvalidateLinked(v)
    <3>1. Note({}, {v}) /\ cache'[u] = Absent
      BY <2>3 DEF InvalidateLinked, DeleteLists
    <3>2. Single(u)' /\ (u \notin raced \/ Alone(u))
      BY <3>1, NoteEffect
    <3>3. Single(u)
      BY <3>2, OneOperation DEF AloneIsSingle, ExactInv, Exact
    <3>4. Links(u)
      BY <2>1, <2>3 DEF Links
    <3> QED
      BY <1>1, <2>1, <3>1, <3>2, <3>3, <3>4, ExactGone
  <2>4. CASE u = v /\ LinkThrows(v)
    <3>1. Note({v}, {})
      BY <2>4 DEF LinkThrows
    <3> QED
      BY <2>4, <3>1, NoteEffect
  <2>5. CASE u # v
    <3>1. PICK off, deleted \in SUBSET {v} : Note(off, deleted)
      BY <1>4 DEF InvalidateLinked, LinkThrows
    <3>2. Exact(u) /\ Single(u)'
      BY <2>5, <3>1, NoteEffect DEF ExactInv
    <3>3. cache'[u] = cache[u]
      BY <1>4, <2>5 DEF InvalidateLinked, LinkThrows, DeleteLists
    <3> QED
      BY <1>3, <2>2, <2>5, <3>2, <3>3
  <2> QED
    BY <1>4, <2>3, <2>4, <2>5
<1>5. ASSUME NEW w \in Writer, Follow(v, w) \/ Unfollow(v, w) PROVE Exact(u)'
  <2>1. PICK f \in {db.follows \cup {<<v, w>>}, db.follows \ {<<v, w>>}} : WriteLink(v, f)
    BY <1>5 DEF Follow, Unfollow
  <2>2. Exact(u) /\ Single(u)'
    BY <2>1, NoteEffect DEF WriteLink, ExactInv
  <2>3. CASE u = v
    <3>1. Links(u)'
      BY <1>2, <2>1, <2>3 DEF WriteLink, Links
    <3> QED
      BY <2>2, <3>1, ExactYetToGo
  <2>4. CASE u # v
    <3>1. db \in Databases
      BY MasterIsRead DEF TypeInv
    <3>2. [db EXCEPT !.follows = f] \in Databases
      BY <2>1, <3>1 DEF Databases
    <3>3. \A x : <<u, x>> \in f <=> <<u, x>> \in db.follows
      BY <2>1, <2>4
    <3>4. db' = db \/ db' = [db EXCEPT !.follows = f]
      <4>1. UNCHANGED wal \/ Write([db EXCEPT !.follows = f])
        BY <2>1 DEF WriteLink
      <4> QED
        BY <3>2, <4>1, WriteEffect DEF TypeInv, db
    <3>5. FeedOf([db EXCEPT !.follows = f], u) = FeedOf(db, u)
      BY <3>1, <3>3, FeedOfOthers
    <3>6. [db EXCEPT !.follows = f].follows = f
      BY <3>1 DEF Databases
    <3>7. Feed(u)' = Feed(u)
      BY <3>4, <3>5 DEF Feed
    <3>8. \A q : Fol(u, q)' <=> Fol(u, q)
      BY <3>3, <3>4, <3>6 DEF Fol, FollowersOf
    <3>9. cache'[u] = cache[u]
      BY <2>1 DEF WriteLink
    <3> QED
      BY <1>3, <2>2, <2>4, <3>7, <3>8, <3>9
  <2> QED
    BY <2>3, <2>4
<1> QED
  BY <1>4, <1>5 DEF LinkStep

LEMMA NextExact ==
    ASSUME TypeInv, NowhereYet, DeclaredFirst, ExactInv, Next
    PROVE  ExactInv'
<1> SUFFICES ASSUME NEW u \in Reader, u \notin raced' PROVE Exact(u)'
  BY DEF ExactInv
<1>1. TypeInv'
  BY NextType
<1>2. CASE Creating
  BY <1>1, <1>2, ExactAside, ExactInserted, ExactPublished DEF Creating
<1>3. CASE Editing
  BY <1>1, <1>3, ExactWritten, ExactInvalidated DEF Editing
<1>4. CASE Linking
  <2>1. \E v \in Reader : LinkStep(v)
    BY <1>4 DEF Linking, LinkStep
  <2> QED
    BY <1>1, <2>1, ExactLinked
<1>5. CASE Replicate
  BY <1>1, <1>5, ExactAside
<1>6. ASSUME NEW r \in Request, RequestStep(r) PROVE Exact(u)'
  BY <1>1, <1>6, ExactGet
<1>7. ASSUME NEW h \in Handler, HandlerStep(h) PROVE Exact(u)'
  <2>1. ASSUME NEW p \in Post, TakeEvent(h, p) PROVE Exact(u)'
    <3>1. Exact(u) /\ Single(u)'
      BY <1>1, <2>1, NoteEffect DEF TakeEvent, ExactInv
    <3> QED
      BY <2>1, <3>1, ExactTaken
  <2> QED
    BY <1>1, <1>7, <2>1, ExactServed, ExactFailed DEF HandlerStep
<1> QED
  BY <1>2, <1>3, <1>4, <1>5, <1>6, <1>7, WhoSteps DEF OtherStep

(* AloneIsExact: a list that nothing overlapped, no failure and no stale     *)
(* replica, is exactly what the database holds for its reader, and each of   *)
(* its posts reads as it does when it is opened.                             *)
THEOREM AloneExactly == Spec => []AloneIsExact
<1> DEFINE Inv == NowhereYet /\ DeclaredFirst /\ ExactInv
<1>1. Init => Inv
  <2> SUFFICES ASSUME Init PROVE Inv
    OBVIOUS
  <2>1. NowhereYet /\ DeclaredFirst
    BY DEF Init, NowhereYet, Busy, FreeTask, DeclaredFirst
  <2>2. ASSUME NEW u \in Reader PROVE Exact(u)
    <3>1. /\ \A p \in Post : ~ Creates(u, p) /\ ~ Edits(u, p)
          /\ \A h \in Handler : ~ Handles(u, h)
          /\ \A r \in Request : ~ Gets(u, r)
          /\ ~ Links(u) /\ Settled(u)
      BY DEF Init, Creates, Undelivered, Edits, NoEdit, Handles, Busy, FreeTask, Gets, NoGet, Links, Settled
    <3> QED
      BY <3>1 DEF Exact, Single
  <2> QED
    BY <2>1, <2>2 DEF ExactInv
<1>2. TypeInv /\ Inv /\ [Next]_vars => Inv'
  <2> SUFFICES ASSUME TypeInv, Inv, [Next]_vars PROVE Inv'
    OBVIOUS
  <2>1. CASE Next
    BY <2>1, NextNowhere, NextDeclared, NextExact
  <2>2. CASE UNCHANGED vars
    <3>1. UNCHANGED <<wal, topology, create, queue, task, times, cache, edit, link, get, raced>> /\ db' = db
      BY <2>2 DEF vars, db
    <3>2. NowhereYet' /\ DeclaredFirst'
      BY <3>1 DEF NowhereYet, DeclaredFirst, Busy
    <3>3. ASSUME NEW u \in Reader, u \notin raced' PROVE Exact(u)'
      <4>1. Exact(u) /\ Feed(u)' = Feed(u) /\ \A p : Fol(u, p)' <=> Fol(u, p)
        BY <3>1, <3>3, MasterStays DEF ExactInv
      <4> QED
        BY <3>1, <4>1 DEF Exact, Single, Quiet, NoCreate, NoHandle, NoEdits, NoGets, Creates, Undelivered,
           Handles, Busy, Edits, Gets, Links, Settled, Due, HandledRight, At, GotRight, Absent
    <3> QED
      BY <3>2, <3>3 DEF ExactInv
  <2> QED
    BY <2>1, <2>2
<1>3. TypeInv /\ Inv => AloneIsExact
  <2> SUFFICES ASSUME TypeInv, Inv, NEW u \in Reader, u \notin raced, Active(u) = {}, cache[u] # Absent
               PROVE  /\ cache[u] = FeedOf(db, u)
                      /\ \A e \in Range(cache[u]) : PostGet(e.post) = {e}
    BY DEF AloneIsExact
  <2>1. Exact(u)
    BY DEF ExactInv
  <2>2. Quiet(u)
    <3>1. \A p : Fol(u, p) => Concerns(u, p)
      BY FolConcerns
    <3> QED
      BY <3>1 DEF Active, Quiet, NoCreate, NoHandle, NoEdits, NoGets, Creates, Handles, Edits, Gets, Links
  <2>3. cache[u] = FeedOf(db, u)
    BY <2>1, <2>2 DEF Exact, Settled, Feed
  <2>4. ASSUME NEW e \in Range(cache[u]) PROVE PostGet(e.post) = {e}
    <3>1. db \in Databases /\ Once(db.log)
      BY MasterIsRead DEF TypeInv, LogInv
    <3>2. PICK i \in DOMAIN FeedOf(db, u) : FeedOf(db, u)[i] = e
      BY <2>3 DEF Range
    <3>3. PICK j \in DOMAIN db.log : e = db.log[j]
      BY <3>1, <3>2, FeedOfType
    <3>4. e \in Range(db.log) /\ \A x \in Range(db.log) : x.post = e.post => x = e
      BY <3>1, <3>3 DEF Once, Range
    <3> QED
      BY <3>4 DEF PostGet
  <2> QED
    BY <2>3, <2>4
<1> QED
  BY <1>1, <1>2, <1>3, TypeInvariant, PTL DEF Spec

-----------------------------------------------------------------------------
(* What carries the event of p, and whose loss would be the post's.          *)
Carries(h, p) == Busy(h) /\ task[h].post = p /\ task[h].own
UnderWay(p)   == times[p] > 0 \/ p \in queue \/ \E h \in Handler : Carries(h, p)

(* A step neither loses an event that is under way, nor takes back one that  *)
(* was announced.                                                            *)
LEMMA UnderWayStays ==
    ASSUME TypeInv, Next, NEW p \in Post, UnderWay(p)
    PROVE  UnderWay(p)'
<1> USE DEF TypeInv
<1>1. CASE ~ (\E h \in Handler : HandlerStep(h))
  <2>1. UNCHANGED <<task, times>>
    BY <1>1, WhoHandles DEF Handling, HandlerStep
  <2>2. queue \subseteq queue'
    <3>1. queue' = queue \/ \E q \in Post : Publish(q) \/ PublishThrows(q)
      BY <1>1, WhoQueues DEF Handling, HandlerStep
    <3> QED
      BY <3>1 DEF Publish, PublishThrows, Enqueued
  <2> QED
    BY <2>1, <2>2 DEF UnderWay, Carries, Busy
<1>2. ASSUME NEW h \in Handler, HandlerStep(h)
      PROVE  UnderWay(p)'
  <2>1. \A g \in Handler \ {h} : Carries(g, p) => Carries(g, p)'
    BY <1>2, TaskOfOthers DEF Carries, Busy
  <2>2. times[p] > 0 => times'[p] > 0
    <3>1. ASSUME Busy(h), SentOnce(h), times[p] > 0 PROVE times'[p] > 0
      BY <3>1, BusyType DEF SentOnce, PathType
    <3>2. UNCHANGED times \/ (Busy(h) /\ SentOnce(h))
      BY <1>2 DEF HandlerStep, TakeEvent, Serving, ReadFollowers, CheckKey, PushPost, TrimFeed,
                  FanOut, HandlerThrows, LastEffect, LoseChannel, Sends, Busy
    <3> QED
      BY <3>1, <3>2
  <2>3. ASSUME NEW q \in Post, TakeEvent(h, q) PROVE UnderWay(p)'
    <3>1. ~ Busy(h) /\ queue' = queue \ {q} /\ task'[h] = NewTask(q)
      BY <2>3 DEF TakeEvent, Busy, TaskInv
    <3>2. Carries(h, q)' /\ ~ Carries(h, p)
      BY <3>1 DEF Carries, Busy, NewTask
    <3> QED
      BY <2>1, <2>2, <3>1, <3>2 DEF UnderWay
  <2>4. CASE FanOut(h)
    <3>1. Busy(h) /\ SentOnce(h) /\ queue' = queue
      BY <2>4 DEF FanOut, Sends, Acked, Busy
    <3>2. Carries(h, p) => times'[p] > 0
      BY <3>1, BusyType DEF Carries, SentOnce, PathType
    <3> QED
      BY <2>1, <2>2, <3>1, <3>2 DEF UnderWay
  <2>5. CASE Serving(h) /\ ~ FanOut(h)
    <3>1. queue' = queue /\ Busy(h)
          /\ \E at \in {"loop", "push", "trim"} : \E now, todo : Goto(h, at, now, todo)
      BY <2>5 DEF Serving, ReadFollowers, CheckKey, PushPost, TrimFeed, At, Busy
    <3>2. task'[h].at # "free" /\ task'[h].post = task[h].post /\ task'[h].own = task[h].own
      BY <3>1, GotoEffect
    <3>3. Carries(h, p) => Carries(h, p)'
      BY <3>2 DEF Carries, Busy
    <3> QED
      BY <2>1, <2>2, <3>1, <3>3 DEF UnderWay
  <2>6. CASE HandlerThrows(h)
    <3>1. queue' = Requeued(h)
      BY <2>6 DEF HandlerThrows
    <3>2. queue \subseteq queue' /\ (Carries(h, p) => p \in queue')
      BY <3>1 DEF Carries, Requeued
    <3> QED
      BY <2>1, <2>2, <3>2 DEF UnderWay
  <2>7. CASE LoseChannel(h)
    <3>1. queue' = queue \cup {task[h].post}
      BY <2>7 DEF LoseChannel
    <3>2. Carries(h, p) => p \in queue'
      BY <3>1 DEF Carries
    <3> QED
      BY <2>1, <2>2, <3>1, <3>2 DEF UnderWay
  <2> QED
    BY <1>2, <2>3, <2>4, <2>5, <2>6, <2>7 DEF HandlerStep
<1> QED
  BY <1>1, <1>2

(* AnsweredIsOnItsWay: whatever handlers and channels fail, an event whose   *)
(* author got an answer is not lost.                                         *)
THEOREM NoEventIsLost == Spec => []AnsweredIsOnItsWay
<1> DEFINE Inv == DeclaredFirst /\ \A p \in Post : create[p] = "ok" => UnderWay(p)
<1>1. Init => Inv
  <2> SUFFICES ASSUME Init PROVE Inv
    OBVIOUS
  <2>1. DeclaredFirst
    BY DEF Init, DeclaredFirst
  <2>2. ASSUME NEW p \in Post, create[p] = "ok" PROVE UnderWay(p)
    BY <2>2 DEF Init, UnderWay
  <2> QED
    BY <2>1, <2>2
<1>2. TypeInv /\ Inv /\ [Next]_vars => Inv'
  <2> SUFFICES ASSUME TypeInv, Inv, [Next]_vars PROVE Inv'
    OBVIOUS
  <2>1. CASE Next
    <3>1. ASSUME NEW p \in Post, create'[p] = "ok" PROVE UnderWay(p)'
      <4>1. create[p] = "ok" \/ Publish(p)
        BY <2>1, <3>1, WhoCreates DEF Insert, Publish, PublishThrows, TypeInv, PathType
      <4>2. CASE Publish(p)
        <5>1. topology = Declared
          BY <4>2 DEF DeclaredFirst, Publish
        <5>2. p \in queue'
          BY <4>2, <5>1 DEF Publish, Enqueued, Declared
        <5> QED
          BY <5>2 DEF UnderWay
      <4> QED
        BY <2>1, <4>1, <4>2, UnderWayStays
    <3> QED
      BY <2>1, <3>1, NextDeclared
  <2>2. CASE UNCHANGED vars
    BY <2>2 DEF vars, DeclaredFirst, UnderWay, Carries, Busy
  <2> QED
    BY <2>1, <2>2
<1>3. Inv => AnsweredIsOnItsWay
  BY DEF AnsweredIsOnItsWay, UnderWay, Carries
<1> QED
  BY <1>1, <1>2, <1>3, TypeInvariant, PTL DEF Spec

=============================================================================
