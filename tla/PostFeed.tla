------------------------------ MODULE PostFeed ------------------------------
(***************************************************************************)
(* The feed of a user: the latest posts of the users he follows, kept as a *)
(* Redis list `feed:{user}` beside the database.                           *)
(*                                                                         *)
(* GetFeed fills a missing list from the database; a new post travels      *)
(* through the queue feed-materialization and is pushed onto the lists     *)
(* that exist; an edit of a post and a change of friends delete lists.     *)
(* Each of these is a sequence of separate commands to PostgreSQL, Redis   *)
(* and RabbitMQ, in any instance of the application, and nothing orders    *)
(* one sequence against another.  Feeds and followers are read from any    *)
(* replica of the database, which may lag.                                 *)
(***************************************************************************)
EXTENDS Integers, Sequences, FiniteSets, Functions

CONSTANTS
    Reader,    \* the users whose feeds are modelled
    Writer,    \* the users whose posts they read
    Post,
    Author,    \* Author[p]: the writer of p
    Old,       \* the posts that were created and served long ago, newest first
    Handler,   \* the consumer's handlers that may run at the same time
    Request,   \* the requests of GetFeed that may run at the same time
    For,       \* For[r]: the reader whose feed r asks for
    MaxFeed,   \* kMaxFeedSize, and the LIMIT of LoadFeedFromDb
    MaxLag,    \* bound on the writes a replica may be behind
    MaxFaults  \* bound on failed calls, lost channels and crashes

ASSUME PostAssumption ==
    /\ IsFiniteSet(Reader) /\ IsFiniteSet(Post)
    /\ IsFiniteSet(Handler) /\ IsFiniteSet(Request)
    /\ Author \in [Post -> Writer] /\ For \in [Request -> Reader]
    /\ Old \in Seq(Post) /\ \A i, j \in DOMAIN Old : Old[i] = Old[j] => i = j
ASSUME FeedBoundAssumption ==
    MaxFeed \in Nat \ {0} /\ MaxLag \in Nat /\ MaxFaults \in Nat

VARIABLES
    wal,     \* states of the database, from the oldest that a replica may
             \* still show to the master's
    create,  \* create[p]: how far the request that creates p is
    queue,   \* posts whose event is ready for delivery
    task,    \* task[h]: what handler h is doing, see FreeTask
    cache,   \* cache[u]: the list feed:{u}; Redis has no empty list
    edit,    \* edit[p]: the update or delete request of p, see NoEdit
    link,    \* link[u]: "idle" or "written", the friend request of u
    get,     \* get[r]: the GetFeed request r, see NoGet
    faults,  \* faults so far
    topology, \* what has been declared to the broker
    times,   \* times[p]: how often the event of p was sent to ws-fanout
    warm,    \* history: <<u, p>> where u followed p's author and had a list
             \* when p was inserted, and neither has ended since
    raced    \* history: readers whose list may be off, see Note

pathVars  == <<topology, create, queue, task, times>>
askVars   == <<edit, link, get>>
vars == <<wal, topology, create, queue, task, times, cache, edit, link, get, faults,
          warm, raced>>

Absent == <<>>
Entry(p, ver) == [post |-> p, ver |-> ver]

(* todo: followers yet to serve; now: the one being served, if any; own:   *)
(* the event is still this handler's to acknowledge.                       *)
FreeTask == [at |-> "free"]
NewTask(p) == [at |-> "start", post |-> p, todo |-> {}, now |-> {}, own |-> TRUE]
NoEdit == [at |-> "idle", keys |-> {}]
NoGet  == [at |-> "idle", rows |-> <<>>]

-----------------------------------------------------------------------------
(* Databases: the posts, newest first, and the friendships. *)
db     == wal[Len(wal)]
States == {wal[i] : i \in DOMAIN wal}

Write(d) == wal' = IF Len(wal) <= MaxLag THEN Append(wal, d) ELSE Append(Tail(wal), d)

Take(s, n) == SubSeq(s, 1, IF Len(s) < n THEN Len(s) ELSE n)

(* LoadFeedFromDb: the latest posts of those u follows; row k is the k-th   *)
(* of them.                                                                 *)
RowsFor(d, u) == {i \in DOMAIN d.log : <<u, Author[d.log[i].post]>> \in d.follows}

Nth(R, k) == CHOOSE i \in R : Cardinality({j \in R : j <= i}) = k

FeedOf(d, u) ==
    LET R == RowsFor(d, u)
        n == Cardinality(R)
    IN  [k \in 1 .. IF n < MaxFeed THEN n ELSE MaxFeed |-> d.log[Nth(R, k)]]

(* GetFollowers. *)
FollowersOf(d, w) == {u \in Reader : <<u, w>> \in d.follows}

(* Mutant: LTRIM 0 kMaxFeedSize. *)
TrimmedLate(s) == Take(s, MaxFeed + 1)

(* LTRIM 0 kMaxFeedSize - 1. *)
Trimmed(s) == Take(s, MaxFeed)

-----------------------------------------------------------------------------
(* The operations under way that may concern u's list. *)
Concerns(u, p) == \E d \in States : <<u, Author[p]>> \in d.follows

Undelivered(p) == create[p] = "inserted" \/ p \in queue

Busy(h) == task[h].at # "free"

Active(u) ==
    {<<"create", p>> : p \in {q \in Post : Undelivered(q) /\ Concerns(u, q)}}
    \cup {<<"handle", h>> : h \in {g \in Handler : Busy(g) /\ (Concerns(u, task[g].post) \/ u \in task[g].todo)}}
    \cup {<<"edit", p>> : p \in {q \in Post : edit[q].at # "idle" /\ (Concerns(u, q) \/ u \in edit[q].keys)}}
    \cup {<<"get", r>> : r \in {q \in Request : get[q].at # "idle" /\ For[q] = u}}
    \cup {<<"link", v>> : v \in {u} \cap {w \in Reader : link[w] # "idle"}}

(* u's list may be off from now on if two operations that concern it are   *)
(* under way at once, or if u is in `off`: a call failed, or a replica did *)
(* not have yet what it was asked for.  Deleting the list of a user in     *)
(* `deleted` makes up for the past if nothing else is under way.           *)
Note(off, deleted) ==
    raced' = (raced \ {u \in deleted : Cardinality(Active(u)) <= 1})
                 \cup off \cup {u \in Reader : Cardinality(Active(u)') > 1}

OldPosts == {Old[i] : i \in DOMAIN Old}

Fault == faults < MaxFaults /\ faults' = faults + 1

Init ==
    /\ \E f \in SUBSET (Reader \X Writer) :
           wal = <<[log |-> [i \in DOMAIN Old |-> Entry(Old[i], 0)], follows |-> f]>>
    /\ create = [p \in Post |-> IF p \in OldPosts THEN "ok" ELSE "new"]
    /\ queue = {}
    /\ task = [h \in Handler |-> FreeTask]
    /\ cache = [u \in Reader |-> Absent]
    /\ edit = [p \in Post |-> NoEdit]
    /\ link = [u \in Reader |-> "idle"]
    /\ get = [r \in Request |-> NoGet]
    /\ faults = 0 /\ topology = {}
    /\ times = [p \in Post |-> IF p \in OldPosts THEN 1 ELSE 0]
    /\ warm = {} /\ raced = {}

(* The slowest replica replays one more write. *)
Replicate ==
    /\ Len(wal) > 1
    /\ wal' = Tail(wal)
    /\ UNCHANGED <<pathVars, cache, askVars, faults, warm>>
    /\ Note({}, {})

-----------------------------------------------------------------------------
(* Mutant: the queue is declared, and bound to nothing. *)
QueueOnly == {"exchange", "queue"}

(* The constructor of PostFeedPublisher, before the first request comes. *)
Declared == {"exchange", "queue", "binding"}

ConstructPublisher ==
    /\ topology = {}
    /\ topology' = Declared
    /\ UNCHANGED <<wal, create, queue, task, times, cache, askVars, faults, warm>>
    /\ Note({}, {})

(* PostCreateHandler: the INSERT, then the event. *)
Insert(p) ==
    /\ create[p] = "new" /\ topology # {}
    /\ Write([db EXCEPT !.log = <<Entry(p, 0)>> \o @])
    /\ create' = [create EXCEPT ![p] = "inserted"]
    /\ warm' = warm \cup
         {<<u, p>> : u \in {v \in Reader :
                        cache[v] # Absent /\ \A d \in States : v \in FollowersOf(d, Author[p])}}
    /\ UNCHANGED <<topology, queue, task, times, cache, askVars, faults>>
    /\ Note({}, {})

(* The broker confirms an event that no binding leads to a queue, too. *)
Enqueued(p) == IF "binding" \in topology THEN queue \cup {p} ELSE queue

Publish(p) ==
    /\ create[p] = "inserted"
    /\ create' = [create EXCEPT ![p] = "ok"]
    /\ queue' = Enqueued(p)
    /\ UNCHANGED <<wal, topology, task, times, cache, askVars, faults, warm>>
    /\ Note({}, {})

(* Publish throws, the broker having the event or not, or the instance dies *)
(* before it: the author gets an error, and the post stays.                 *)
PublishThrows(p) ==
    /\ create[p] = "inserted"
    /\ Fault
    /\ create' = [create EXCEPT ![p] = "error"]
    /\ \/ queue' = Enqueued(p) /\ UNCHANGED warm
       \/ UNCHANGED queue /\ warm' = {x \in warm : x[2] # p}
    /\ UNCHANGED <<wal, topology, task, times, cache, askVars>>
    /\ Note({u \in Reader : Concerns(u, p)}, {})

-----------------------------------------------------------------------------
(* PostFeedConsumer::Process and PostFeedCache::OnPostCreated, one action   *)
(* per command.                                                             *)
TakeEvent(h, p) ==
    /\ task[h].at = "free"
    /\ p \in queue
    /\ queue' = queue \ {p}
    /\ task' = [task EXCEPT ![h] = NewTask(p)]
    /\ UNCHANGED <<wal, topology, create, times, cache, askVars, faults, warm>>
    /\ Note({}, {})

Goto(h, at, now, todo) ==
    task' = [task EXCEPT ![h].at = at, ![h].now = now, ![h].todo = todo]

(* h is between EXISTS and LPUSH ("push"), or between LPUSH and LTRIM, of   *)
(* u's list.                                                                *)
At(h, at, u) == task[h].at = at /\ u \in task[h].now

(* The followers of which the read differs from the master's. *)
Misread(d, w) ==
    {u \in Reader : (u \in FollowersOf(d, w)) # (u \in FollowersOf(db, w))}

ReadFollowers(h) ==
    /\ task[h].at = "start"
    /\ \E d \in States :
        LET w == Author[task[h].post] IN
            /\ Goto(h, "loop", {}, FollowersOf(d, w))
            /\ UNCHANGED <<wal, topology, create, queue, times, cache, askVars, faults, warm>>
            /\ Note(Misread(d, w), {})

(* Mutant: the loop is left at the first follower without a list. *)
Break(h, u) == {}

(* Whom the loop goes on with after u, who has no list. *)
Others(h, u) == task[h].todo \ {u}

CheckKey(h, u) ==
    /\ task[h].at = "loop" /\ u \in task[h].todo
    /\ IF cache[u] # Absent THEN Goto(h, "push", {u}, task[h].todo)
                            ELSE Goto(h, "loop", {}, Others(h, u))
    /\ UNCHANGED <<wal, topology, create, queue, times, cache, askVars, faults, warm>>
    /\ Note({}, {})

(* Mutant: RPUSH. *)
PushedLast(h, u) == [cache EXCEPT ![u] = @ \o <<Entry(task[h].post, 0)>>]

(* LPUSH makes the list if it has been deleted meanwhile.  The event holds  *)
(* the text the post was created with.                                      *)
Pushed(h, u) == [cache EXCEPT ![u] = <<Entry(task[h].post, 0)>> \o @]

PushPost(h, u) ==
    /\ At(h, "push", u)
    /\ cache' = Pushed(h, u)
    /\ Goto(h, "trim", {u}, task[h].todo)
    /\ UNCHANGED <<wal, topology, create, queue, times, askVars, faults, warm>>
    /\ Note({}, {})

TrimFeed(h, u) ==
    /\ At(h, "trim", u)
    /\ cache' = [cache EXCEPT ![u] = Trimmed(@)]
    /\ Goto(h, "loop", {}, task[h].todo \ {u})
    /\ UNCHANGED <<wal, topology, create, queue, times, askVars, faults, warm>>
    /\ Note({}, {})

(* Mutant: the notification does not wait for the end of the loop. *)
SendsEarly(h) == task[h].at = "loop"

(* Publish to ws-fanout comes next. *)
Sends(h) == task[h].at = "loop" /\ task[h].todo = {}
SentOnce(h) == times' = [times EXCEPT ![task[h].post] = @ + 1]

(* Mutant: the event of a handler that throws is dropped. *)
Dropped(h) == queue

(* The event returns to the queue, if it is h's own. *)
Requeued(h) == IF task[h].own THEN queue \cup {task[h].post} ELSE queue

(* Mutant: it returns although Process succeeded. *)
NotAcked(h) == Requeued(h)

(* Acknowledged, the event is gone; another handler's stays in the queue. *)
Acked(h) == queue

FanOut(h) ==
    /\ Sends(h) /\ SentOnce(h)
    /\ task' = [task EXCEPT ![h] = FreeTask]
    /\ queue' = Acked(h)
    /\ UNCHANGED <<wal, topology, create, cache, askVars, faults, warm>>
    /\ Note({}, {})

(* The effects the command h is at may have had when its call throws. *)
LastEffect(h) ==
    \/ UNCHANGED <<cache, times>>
    \/ Sends(h) /\ SentOnce(h) /\ UNCHANGED cache
    \/ \E u \in Reader :
        /\ \/ At(h, "push", u) /\ cache' = Pushed(h, u)
           \/ At(h, "trim", u) /\ cache' = [cache EXCEPT ![u] = Trimmed(@)]
        /\ UNCHANGED times

(* A call of h throws, or its process dies. *)
HandlerThrows(h) ==
    /\ Busy(h) /\ Fault
    /\ LastEffect(h)
    /\ task' = [task EXCEPT ![h] = FreeTask]
    /\ queue' = Requeued(h)
    /\ UNCHANGED <<wal, topology, create, askVars, warm>>
    /\ Note({u \in Reader : Concerns(u, task[h].post)}, {})

(* The channel of h breaks: the broker offers the event again, to this or   *)
(* another instance, while h goes on.                                       *)
LoseChannel(h) ==
    /\ Busy(h) /\ task[h].own /\ Fault
    /\ task' = [task EXCEPT ![h].own = FALSE]
    /\ queue' = queue \cup {task[h].post}
    /\ UNCHANGED <<wal, topology, create, times, cache, askVars, warm>>
    /\ Note({u \in Reader : Concerns(u, task[h].post)}, {})

-----------------------------------------------------------------------------
(* PostFeedCache::GetFeed.  A hit only reads the list. *)

(* Mutant: without EXISTS. *)
AlwaysMissing(u) == TRUE

(* EXISTS says no. *)
Missing(u) == cache[u] = Absent

BeginGet(r) ==
    /\ get[r].at = "idle"
    /\ Missing(For[r])
    /\ get' = [get EXCEPT ![r].at = "load"]
    /\ UNCHANGED <<wal, pathVars, cache, edit, link, faults, warm>>
    /\ Note({}, {})

(* Mutant: RPUSH of no rows. *)
FillAlways(rows) == [at |-> "fill", rows |-> rows]

(* Where GetFeed goes from the rows it read. *)
Fill(rows) == IF rows = <<>> THEN NoGet ELSE [at |-> "fill", rows |-> rows]

LoadFeed(r) ==
    /\ get[r].at = "load"
    /\ \E d \in States :
        LET rows == FeedOf(d, For[r]) IN
            /\ get' = [get EXCEPT ![r] = Fill(rows)]
            /\ UNCHANGED <<wal, pathVars, cache, edit, link, faults, warm>>
            /\ Note(IF rows # FeedOf(db, For[r]) THEN {For[r]} ELSE {}, {})

Filled(r) == [cache EXCEPT ![For[r]] = @ \o get[r].rows]

FillFeed(r) ==
    /\ get[r].at = "fill"
    /\ cache' = Filled(r)
    /\ get' = [get EXCEPT ![r] = [at |-> "trim", rows |-> <<>>]]
    /\ UNCHANGED <<wal, pathVars, edit, link, faults, warm>>
    /\ Note({}, {})

TrimFilled(r) ==
    /\ get[r].at = "trim"
    /\ cache' = [cache EXCEPT ![For[r]] = Trimmed(@)]
    /\ get' = [get EXCEPT ![r] = NoGet]
    /\ UNCHANGED <<wal, pathVars, edit, link, faults, warm>>
    /\ Note({}, {})

(* A call of r throws, executed or not, and with it the request. *)
GetThrows(r) ==
    /\ get[r].at # "idle" /\ Fault
    /\ \/ UNCHANGED cache
       \/ get[r].at = "fill" /\ cache' = Filled(r)
       \/ get[r].at = "trim" /\ cache' = [cache EXCEPT ![For[r]] = Trimmed(@)]
    /\ get' = [get EXCEPT ![r] = NoGet]
    /\ UNCHANGED <<wal, pathVars, edit, link, warm>>
    /\ Note({}, {})

-----------------------------------------------------------------------------
(* PostUpdateHandler and PostDeleteHandler: the row, then the lists of the  *)
(* author's followers.  A row that does not exist changes nothing.          *)
UpdatePost(p) ==
    /\ edit[p].at = "idle"
    /\ \E i \in DOMAIN db.log : db.log[i] = Entry(p, 0)
    /\ Write([db EXCEPT !.log = [i \in DOMAIN @ |-> IF @[i].post = p THEN Entry(p, 1) ELSE @[i]]])
    /\ edit' = [edit EXCEPT ![p].at = "written"]
    /\ UNCHANGED <<pathVars, cache, link, get, faults, warm>>
    /\ Note({}, {})

DeletePost(p) ==
    /\ edit[p].at = "idle"
    /\ \E i \in DOMAIN db.log :
           /\ db.log[i].post = p
           /\ Write([db EXCEPT !.log = SubSeq(@, 1, i - 1) \o SubSeq(@, i + 1, Len(@))])
    /\ edit' = [edit EXCEPT ![p].at = "written"]
    /\ UNCHANGED <<pathVars, cache, link, get, faults, warm>>
    /\ Note({}, {})

DeleteLists(us) ==
    /\ cache' = [u \in Reader |-> IF u \in us THEN Absent ELSE cache[u]]
    /\ warm' = {x \in warm : x[1] \notin us}

(* InvalidateFeedsOfFollowersOf. *)
ReadEdited(p) ==
    /\ edit[p].at = "written"
    /\ \E d \in States :
        LET us == FollowersOf(d, Author[p]) IN
            /\ edit' = [edit EXCEPT ![p] =
                          IF us = {} THEN NoEdit ELSE [at |-> "read", keys |-> us]]
            /\ UNCHANGED <<wal, pathVars, cache, link, get, faults, warm>>
            /\ Note(Misread(d, Author[p]), {})

InvalidateEdited(p) ==
    /\ edit[p].at = "read"
    /\ DeleteLists(edit[p].keys)
    /\ edit' = [edit EXCEPT ![p] = NoEdit]
    /\ UNCHANGED <<wal, pathVars, link, get, faults>>
    /\ Note({}, edit[p].keys)

(* The request dies between the row and the lists, or DEL throws.           *)
EditThrows(p) ==
    /\ edit[p].at # "idle" /\ Fault
    /\ DeleteLists(edit[p].keys) \/ UNCHANGED <<cache, warm>>
    /\ edit' = [edit EXCEPT ![p] = NoEdit]
    /\ UNCHANGED <<wal, pathVars, link, get>>
    /\ Note({u \in Reader : Concerns(u, p)} \cup edit[p].keys, {})

(* FriendAddHandler and FriendDeleteHandler: the row, then the user's list. *)
WriteLink(u, follows) ==
    /\ link[u] = "idle"
    /\ IF follows = db.follows THEN UNCHANGED wal
                               ELSE Write([db EXCEPT !.follows = follows])
    /\ link' = [link EXCEPT ![u] = "written"]
    /\ warm' = {x \in warm : x[1] # u}
    /\ UNCHANGED <<pathVars, cache, edit, get, faults>>
    /\ Note({}, {})

Follow(u, w)   == WriteLink(u, db.follows \cup {<<u, w>>})
Unfollow(u, w) == WriteLink(u, db.follows \ {<<u, w>>})

(* InvalidateFeed. *)
InvalidateLinked(u) ==
    /\ link[u] = "written"
    /\ DeleteLists({u})
    /\ link' = [link EXCEPT ![u] = "idle"]
    /\ UNCHANGED <<wal, pathVars, edit, get, faults>>
    /\ Note({}, {u})

LinkThrows(u) ==
    /\ link[u] = "written" /\ Fault
    /\ DeleteLists({u}) \/ UNCHANGED <<cache, warm>>
    /\ link' = [link EXCEPT ![u] = "idle"]
    /\ UNCHANGED <<wal, pathVars, edit, get>>
    /\ Note({u}, {})

-----------------------------------------------------------------------------
Creating ==
    \/ ConstructPublisher
    \/ \E p \in Post : Insert(p) \/ Publish(p) \/ PublishThrows(p)

Serving(h) ==
    \/ ReadFollowers(h)
    \/ \E u \in Reader : CheckKey(h, u) \/ PushPost(h, u) \/ TrimFeed(h, u)
    \/ FanOut(h)

Handling ==
    \E h \in Handler :
        \/ \E p \in Post : TakeEvent(h, p)
        \/ Serving(h) \/ HandlerThrows(h) \/ LoseChannel(h)

Getting ==
    \E r \in Request :
        BeginGet(r) \/ LoadFeed(r) \/ FillFeed(r) \/ TrimFilled(r) \/ GetThrows(r)

Editing ==
    \E p \in Post :
        \/ UpdatePost(p) \/ DeletePost(p)
        \/ ReadEdited(p) \/ InvalidateEdited(p) \/ EditThrows(p)

Linking ==
    \E u \in Reader :
        \/ \E w \in Writer : Follow(u, w) \/ Unfollow(u, w)
        \/ InvalidateLinked(u) \/ LinkThrows(u)

Next == Creating \/ Handling \/ Getting \/ Editing \/ Linking \/ Replicate

Spec == Init /\ [][Next]_vars

(* Events are delivered to free handlers, and a handler goes on. *)
Fairness ==
    /\ \A p \in Post : WF_vars(\E h \in Handler : TakeEvent(h, p))
    /\ \A h \in Handler : WF_vars(Serving(h))

FairSpec == Spec /\ Fairness

-----------------------------------------------------------------------------
(* Type invariant.  A request never holds more than LIMIT rows, and never   *)
(* pushes none, which Redis would refuse.                                   *)
Entries == [post : Post, ver : {0, 1}]

FeedTypeOK ==
    /\ \A d \in States : Range(d.log) \subseteq Entries /\ d.follows \subseteq Reader \X Writer
    /\ Len(wal) \in 1 .. MaxLag + 1
    /\ create \in [Post -> {"new", "inserted", "ok", "error"}]
    /\ queue \subseteq Post /\ times \in [Post -> Nat]
    /\ topology \in {{}, Declared}
    /\ \A h \in Handler :
        \/ task[h] = FreeTask
        \/ /\ task[h].at \in {"start", "loop", "push", "trim"}
           /\ task[h].post \in Post /\ task[h].todo \subseteq Reader
           /\ task[h].now \subseteq task[h].todo
           /\ task[h].own \in BOOLEAN
    /\ \A u \in Reader : Range(cache[u]) \subseteq Entries
    /\ \A p \in Post : edit[p].at \in {"idle", "written", "read"} /\ edit[p].keys \subseteq Reader
    /\ link \in [Reader -> {"idle", "written"}]
    /\ \A r \in Request :
        /\ get[r].at \in {"idle", "load", "fill", "trim"}
        /\ Range(get[r].rows) \subseteq Entries /\ Len(get[r].rows) <= MaxFeed
        /\ get[r].at = "fill" <=> get[r].rows # <<>>
    /\ faults \in 0 .. MaxFaults
    /\ warm \subseteq Reader \X Post /\ raced \subseteq Reader

(* A list is longer than kMaxFeedSize only by what runs between a push and  *)
(* its trim, or was interrupted there: whatever overlaps, feeds do not grow *)
(* without limit.                                                           *)
FeedsBounded ==
    \A u \in Reader :
        Len(cache[u]) <= MaxFeed
            + Cardinality({h \in Handler : At(h, "trim", u)})
            + MaxFeed * Cardinality({r \in Request : get[r].at = "trim" /\ For[r] = u})
            + MaxFeed * faults

(* Concurrent fills and redeliveries put a post into a list twice, but no   *)
(* more often than once for every request that can miss at the same time,   *)
(* and once for its event and each of its redeliveries.                     *)
Copies(u, p) == Cardinality({i \in DOMAIN cache[u] : cache[u][i].post = p})

DuplicatesBounded ==
    \A u \in Reader, p \in Post :
        Copies(u, p) <= Cardinality({r \in Request : For[r] = u}) + 1 + faults

(* PostGetHandler: the post by its id, from the master. *)
PostGet(p) == {e \in Range(db.log) : e.post = p}

(* The list of a user, if there is one, is exactly what the database holds  *)
(* for him, and each post reads as it does when it is opened, unless two    *)
(* operations that concern it have overlapped, a call has failed or a       *)
(* replica lagged since it was last deleted.                                *)
AloneIsExact ==
    \A u \in Reader :
        u \notin raced /\ Active(u) = {} /\ cache[u] # Absent =>
            /\ cache[u] = FeedOf(db, u)
            /\ \A e \in Range(cache[u]) : PostGet(e.post) = {e}

(* Materialization misses nobody, whatever overlaps it, and precedes the    *)
(* notification: a user who followed the author and had a list all along    *)
(* finds the post in it once anybody may have been told of it, unless       *)
(* kMaxFeedSize others are there.                                           *)
WarmFeedGetsEveryPost ==
    \A u \in Reader, p \in Post :
        <<u, p>> \in warm /\ times[p] > 0 =>
            \/ p \in {e.post : e \in Range(cache[u])}
            \/ Len(cache[u]) >= MaxFeed

(* Until an event is announced it is in the queue, or with a handler that   *)
(* will return it if it throws: no post whose author got an answer falls    *)
(* between the handlers that throw, die or have lost their channel, and     *)
(* none is confirmed before there is a queue to take it.                    *)
AnsweredIsOnItsWay ==
    \A p \in Post : create[p] = "ok" =>
        \/ times[p] > 0 \/ p \in queue
        \/ \E h \in Handler : Busy(h) /\ task[h].post = p /\ task[h].own

(* Every post whose author got an answer is served and announced in the     *)
(* end, however often its event is redelivered.                             *)
EventsDrain == \A p \in Post : create[p] = "ok" ~> times[p] > 0

Again == UNION {{p} \X (2 .. times[p]) : p \in Post}

(* Seen from the exchange ws-fanout, all this is Announcements: one event   *)
(* of each post, and another only where a fault has been.                   *)
Promise == INSTANCE Announcements WITH
    repeats <- Cardinality(Again),
    MaxRepeats <- MaxFaults

AnnouncesAsPromised == Promise!Spec

=============================================================================
