# TLA+ model of the social network's messaging and feeds

This directory specifies, model-checks and partly proves the concurrent core of
the repository: the userver monolith (`src/`, several instances behind nginx),
the `chat-service` and the `counter-service`, and the PostgreSQL, Redis and
RabbitMQ they share.

## Inventory

| component | state | operations | interacts with |
|---|---|---|---|
| counter-service consumer (`counter-service/src/counter/counter_consumer.cpp`) | Redis hash `counters:{user}` (`total`, `dialog:{partner}`), RabbitMQ queue `message-counters` | ctor declares and binds the queue; `Process`: HINCRBY `total`, HINCRBY `dialog:{from}` | RabbitMQ (events of chat-service), Redis |
| counter-service reconciler (`counter_reconciler.cpp`, `counter_functions.lua`) | none of its own | every 60 s: SCAN, then `counter_reconcile_user` per user | Redis |
| counter-service gRPC (`counter_service.cpp`, `counter_functions.lua`) | none of its own | `GetUnreadCount`, `ResetDialogCounter` | Redis; called by the application |
| chat-service (`chat-service/src/dialog/dialog_service.cpp`, `dialog_functions.lua`) | Redis lists `dialog:idx:*`, hashes `dialog:msg:*` | `SendMessage`: store, publish; `ListMessages` | Redis, RabbitMQ; called by the application |
| application dialog handlers (`src/dialog/`) | none | send; list (reset, then fetch); unread | both services by gRPC |
| post handlers and feed cache (`src/post/`) | PostgreSQL posts and friendships, Redis lists `feed:{user}` | create, update, delete, get, feed; `OnPostCreated`, `GetFeed`, invalidations | PostgreSQL (writes to the master, feed reads from a replica), Redis, RabbitMQ |
| friend handlers (`src/friend/`) | PostgreSQL friendships | add, delete, each followed by an invalidation | feed cache |
| feed consumer (`post_feed_consumer.cpp`) | RabbitMQ queue `feed-materialization` | `Process`: `OnPostCreated`, publish to `ws-fanout` | feed cache, RabbitMQ |
| WebSocket fan-out (`ws_fanout_consumer.cpp`, `post_feed_ws_manager.cpp`, `post_feed_ws_handler.cpp`) | per instance: subscriptions and their queues, an auto-delete RabbitMQ queue | subscribe, unsubscribe, notify followers, send loop | RabbitMQ, PostgreSQL, clients |
| authentication (`src/auth/`) | PostgreSQL tokens, per-instance token cache | login, CheckAuth, periodic and forced cache update | PostgreSQL |
| users (`src/user/`) | PostgreSQL users | register, get, search; password hashing | PostgreSQL |

Behaviours that are hard: two Redis commands where one transaction is meant
(counters, cache fill, cache push); up to 100 message handlers at the same
time; redelivery after an exception, a lost channel or a crash; resets,
reconciliations, invalidations and loads that interleave with them; replica
lag; calls between services that fail before or after they took effect. The
`hazards` of `PROJECT.json` list them line by line.

What makes each component correct, in short: the counter-service must not lose a
message, must bound what a badge can be off by and must settle; the messaging
must not clear the count of a message nobody was shown, nor count one nobody can
read; the feed lists must agree with the database where nothing raced, must miss
no post, and must not grow or repeat posts without limit; the fan-out must reach
every connected follower of every instance; an instance must accept a token
once its cache has caught up and no token that does not exist; a login must be
accepted exactly for the password that was registered.

## Plan

1. `UnreadCounters` (the counter-service), its runs and its theorems. *Done.*
2. `DialogSaga` (chat-service and dialog handlers around `UnreadCounters`), its runs
   and its theorems. *Done.*
3. `PostFeed`: database with lagging replicas, feed cache, create / update /
   delete / friend handlers, the feed consumer with redelivery. *Done.*
4. `WsFanout`: per-instance queues, subscriptions and the send loop. *Done, with
   theorems.*
5. `AuthCache`: tokens, the cache updates, CheckAuth. *Done, with theorems.*
6. `FeedPage`, `Passwords` and `Users`: the arithmetic of a feed's page, the
   columns of salt and hash, the table of users and its handlers. *Done, with
   theorems.*
7. Abstract specifications: `Announcements` between `PostFeed`, which implements
   it, and `WsFanout`, which builds on it; `Notifications`, which `WsFanout`
   implements; `TokenTable`, which `AuthCache` implements. *Done.*
8. A theorem for each property of `PostFeed`, `AloneIsExact` last. *Done.*
9. The safety behind the liveness: that no answered event is lost before it is
   announced (`AnsweredIsOnItsWay`, without which `EventsDrain` could not hold), and
   that the sessions hear of posts in the order in which the queue got their events,
   but for what a lost channel held (`HeardAsArrived`). *Done, with theorems.*
10. The whole in numbers: what a dialog's count and the badge are worth to a reader
    while the chat-service, the list handler and the counter-service all are at work
    (`DialogHoldsUnread`, `BadgeHoldsUnread`). *Done, with theorems; nothing of the
    plan is left.*

## Modules

| module | models | used by |
|---|---|---|
| `UnreadCounters` | the counter-service, its Redis hashes, its queue and broker | `MCUnreadCounters` (instances), `UnreadCountersProofs`, `DialogSaga` |
| `DialogSaga` | chat-service and the application's dialog handlers, built around `UnreadCounters` | `MCDialogSaga`, `DialogSagaProofs` |
| `PostFeed` | posts, friendships, replicas, the feed lists, the queue feed-materialization | `MCPostFeed`, `PostFeedProofs` |
| `WsFanout` | the exchange ws-fanout, each instance's queue and consumer, subscriptions, the send loops | `MCWsFanout`, `WsFanoutProofs`, `WsFanoutRefinementProofs` |
| `AuthCache` | logins, the tokens' table and its replicas, each instance's token cache, CheckAuth | `MCAuthCache`, `AuthCacheProofs` |
| `FeedPage` | the page that a feed request gets, on a hit and on a miss, in machine integers | `FeedPageProofs` (run directly) |
| `Passwords` | salts, hexadecimal text, hashing and the comparison of digests | `Users` |
| `Users` | the table of users, its registration, login check, profile and search | `MCUsers`, `UsersProofs` |
| `Announcements` | *abstract*: how often the event of a post reaches the exchange ws-fanout | implemented by `PostFeed`; `WsFanout` takes its publications from it |
| `Notifications` | *abstract*: who is told of a post, who must be and how often | implemented by `WsFanout` |
| `TokenTable` | *abstract*: a table of tokens that only grows, of which each instance knows a part | implemented by `AuthCache` |

`PROJECT.json` maps every definition that models code to the lines it stands for.
Operators marked *Mutant* are variants of the definition after them with a
plausible mistake; no specification uses them.

### UnreadCounters

| state | in the program |
|---|---|
| `declared`, `queue` | the durable queue `message-counters`: declared and bound, events ready |
| `consumer`, `unacked`, `task` | the process, what the broker waits for an ack of, the coroutine of each `Process` |
| `total`, `dialog` | the fields of the hash `counters:{user}` |
| `toVisit` | the keys the present reconciliation pass has yet to visit |
| `faults` | budget of crashes, lost channels and failed calls (bound `MaxFaults`) |
| `published`, `dropped`, `counted`, `cleared` | history: nothing in the program, only the properties read it |

`Process` waits for a reply after each HINCRBY, so it is two actions, `IncrTotal`
and `IncrDialog`, with everything else allowed in between. Each has a variant in
which the call throws; Redis may have executed it. userver requeues the message
of a handler that throws and acks that of a handler that returns (`Ack` is a step
of its own, so a crash in between redelivers an event that was counted). After a
lost channel the handlers run on with events that the broker already offers
again. The two Lua functions are atomic. A reconciliation pass visits at least
the users whose hash is not empty when SCAN begins, perhaps more, in any order.
A message's event is its identity. The Redis driver may repeat a command whose reply
is late: `IncrTotalAgain` and `IncrDialogAgain` are such second executions, each a
fault. Users and counters are all that is left of
its JSON. Counters are mathematical integers: 2^63 messages are out of reach.

### DialogSaga

Adds the chat-service's store (`stored`), the requests in progress (`send`,
`lists`, `late`) and history. `SendMessage` is `Store`, then `PublishEvent`; the list
handler is `BeginList` (the gRPC call to the counter-service takes effect), then
`ShowList`. Each of the four can fail, before or after its effect. A reset whose
deadline passes may also take effect later (`late`, `LateReset`), after the fetch or
under the next listing, unless the counter-service dies first: its own steps are
`Counting`. A message counts as sent (`Sent`) when its sender was told so, or when the
broker has its event though the sender was told of an error. `Opened`,
`MaxLists` and `MaxChatFaults` bound the requests. A message is sent once: a
sender's retry is a new message, as in the code. `UnreadCount` is what the unread
handler answers: the badge, or 0 when its call fails.

### PostFeed

| state | in the program |
|---|---|
| `wal` | PostgreSQL: its states from the slowest replica's to the master's; a read on `kSlave` sees any of them |
| `create`, `edit`, `link`, `get` | requests in progress: create; update or delete; friend add or delete; feed |
| `queue`, `task` | the queue `feed-materialization` and the handlers of all instances |
| `cache` | the lists `feed:{user}`; an empty list does not exist |
| `topology` | what the publisher's constructor has declared to the broker |
| `times` | how often each post's event was published to ws-fanout |
| `faults`, `warm`, `raced` | budget of faults; history |

Every command to PostgreSQL, Redis or RabbitMQ is an action, so each handler is
as many actions as it has commands: `OnPostCreated` is `ReadFollowers`, then for
every follower `CheckKey` (EXISTS), `PushPost` (LPUSH) and `TrimFeed` (LTRIM);
a miss of `GetFeed` is `BeginGet`, `LoadFeed`, `FillFeed`, `TrimFilled`. A handler ends
with `FanOut`, the publication to ws-fanout. `ConstructPublisher` declares exchange,
queue and binding before the first post; `PostGet` reads a post from the master. After a
lost channel an event can be handled by two handlers at once, as the instances
share the queue. A post's text is its version; post order is insertion order. The
handlers' order over followers is left open, as the SQL leaves it.

Bounds: `MaxLag` (writes the slowest replica is behind), `MaxFaults`, the sets of
handlers and requests, one update (version 0 to 1) and one edit at a time per
post, one friend request at a time per user.

### WsFanout

| state | in the program |
|---|---|
| `wal` | friendships, as in `PostFeed` |
| `bound`, `inbox` | the instances' queues `ws-fanout-{uuid}` that exist, and the events in them |
| `lost` | channels that the instance lost and the broker has not noticed, with the event each holds |
| `consumer`, `task` | the process and its consumer; the one `Process` that its prefetch of 1 allows |
| `entries` | `PostFeedWsManager::sessions_`, per instance, weak pointers that expired included |
| `conn`, `out`, `sent` | per WebSocket: its `Handle`, its `WsSession::queue`, what its client was sent |
| `times`, `repeats` | the variables of `Announcements`: how often each event was published |
| `arrived`, `strays` | history: the events a queue got, in their order; those of them a lost channel held |
| `due`, `mayHear`, `faults` | history and the budget of faults |

`Process` is `ReadFollowers` (a query) and `Notify` (under the lock), with
everything else allowed in between; a failed query, a lost channel and a crash
return or lose the event as the broker does. The queue is declared by `Start`
alone, that is by the constructor. `LoseChannel` is the loss as the client sees it: the
broker knows nothing of it, keeps the handler's event unacked on the lost channel, and
may deliver one to a lost channel that holds none (`Misdeliver`). Meanwhile the consumer
may be back (`Resubscribe`) and be served with what came later. Once the broker misses
the heartbeats (`Notice`), what the channel held returns to the head of the queue, late,
and a second time if the old handler had pushed it already. If the lost channel is the
last one it knows of, it deletes the queue instead (`AutoDelete`): the code has no way
back from that. A session's `Handle` is `Connect`, `Send`,
`Disconnect`, `Unsubscribe`, or ends by `Unwind`, the exception of a cancelled task,
which leaves its weak pointer behind. A publication is a step of `Announcements`,
so the event of a post may be published again; it awaits no confirmation, so it
may be lost silently (`AnnouncementLost`).

### AuthCache

| state | in the program |
|---|---|
| `wal` | the table `auth_schema.tokens`, on the master and as replicas may show it |
| `login`, `given` | the login requests and the tokens generated for them |
| `serving`, `cache` | the instances and the snapshots of their `AuthCache` |
| `wanted`, `update` | what `InvalidateAsync` asked for; the update under way |
| `known`, `faults` | history and the budget of faults |

`auth-pg-cache` is configured with an `update-interval` alone, so the periodic
updates read the whole table (`BeginUpdate`) and the ones a login asks for may be
incremental (`BeginIncrement`): these add rows whose `updated` is late enough, any
subset of the unknown rows of some replica here, since clocks, commit order and
replay decide which. `Token` is small so that two logins may generate the same
token. There is no operation that deletes or changes a token.

### FeedPage

`FeedPage` has one request, the feed, and whether the list exists, which other
requests may fill and invalidations delete in between. `offset` and `limit` are any
`int` (`MaxInt` is the largest), negative ones included, as no code rejects them.
Where `offset + limit - 1` overflows (undefined in C++), `StopsOfPage` is what
builds produce: the wrapped sum, or the sum in 64 bits. A miss computes in `size_t`
(`SizeT` values): a negative limit may wrap its end to before its beginning, where
`assign` throws (`at = "failed"`).

### Users and Passwords

`Users` is the table on the master, as all its statements run there. `Register`
inserts a row; `TryLogin` is the login handler up to its check of the password
(`AuthCache` goes on from there); `UserGet` and `UserSearch` answer profiles, the
search by the LIKE patterns that the handler makes of its arguments, in which the
program escapes nothing. `Like` is a table over the places of the pattern, from its
end: at which places of the text the rest of the pattern matches. `Passwords` is
parameterised by the hash and by the bits of a hexadecimal digit (4 in the program;
1 in the run, so that all passwords and salts can be enumerated). A byte is the set
of its bits that are 1: XOR is the symmetric difference and `|=` the union, and the
loop of `ConstantTimeCompare` is a recursive function over its rounds. Neither module
uses a RECURSIVE operator or `Bitwise`, so that both can be proved about.

## Runs

| run | instance | asks |
|---|---|---|
| `counters` | 2 users (a dialog with a partner, a note to oneself), 3 events, prefetch 2, 2 faults | at-least-once counting; how far a badge and a dialog's count can be off, also after resets; every routed event is counted; the badge settles |
| `counters_start_order` | 2 events, no fault | *violation*: an event confirmed before the counter-service first started is dropped |
| `saga` | 2 messages, 2 overlapping list requests, prefetch 2, 1 fault in either service | nothing unread leaves the count unseen; a dialog counts its unread messages one by one; nothing counted cannot be read; a message that was sent shows in the badge in the end. A reset may fail, before its effect, after it, or to be executed late |
| `saga_failed_reset` | 1 message, 1 failed call | *violation*: reconciliation does not correct a dialog whose reset failed |
| `feed_lists` | 1 reader, 2 posts in a feed of 2, 2 handlers, 1 request, lag 1, 1 fault | exactness without overlap, and again after an invalidation; no post missed, whatever overlaps |
| `feed_fanout` | 2 followers, 1 handler | the loop over the followers: one with a list is served, also after one without (no fault and no lag, for which `feed_lists` is there) |
| `feed_races` | 1 post, 2 requests that miss together, 2 handlers, 1 fault | bounds on the length of a list and on copies of a post in it; no answered event is lost between handlers and queue; every published post is served; `PostFeed` implements `Announcements` |
| `ws_fanout` | 1 instance, 2 sessions of one user, 1 writer, 2 posts, lag 1, 1 fault or repetition | no notification that is due is lost on its way, and each is sent, though another event be before it; sessions hear of the posts in the order of arrival, but for what a lost channel held; dead entries need a fault; `WsFanout` implements `Notifications` |
| `ws_deaf` | 2 instances, 1 session, 1 fault | *violation*: an instance that lost its queue never has one again |
| `auth` | a login at each of 2 instances, 2 tokens, lag 1, 1 fault | a token speaks for its user alone; no update forgets what every replica has; `AuthCache` implements `TokenTable`; every returned token is accepted everywhere in the end and for good |
| `feed_page` | feeds of up to 4 posts, all offsets and limits of a 4-bit int, 8-bit size_t | hit and miss cut the same page; no answer invents, repeats or reorders posts; only a negative limit fails |
| `users` | 2 ids, all passwords of up to 2 bytes of 2 bits, all salts of 1 byte, a digest with collisions; names and arguments with LIKE's special characters | a login is accepted exactly if the salted hashes agree, and never an exception; what a search finds |

Why these bounds are enough to be of use: the hazards are pairs of steps (the two
HINCRBYs of a handler against a reset, a pass or another handler; a load against
an invalidation; a push against a delete; a stray handler against the redelivery
of its event), so two actors and one fault reach each of them, and a third event
or a second fault shows whether errors add up. The numeric bounds (`Prefetch`,
`MaxFaults`) appear in the properties, so that each states how much a further
handler or fault can add; the theorems make this independent of the instance.
`ws_fanout` has two posts rather than two instances, as both together are millions
of states: order, and an event that waits behind another, need two posts in one
queue, while instances share nothing but the exchange and the database, and no
action of one reads another's variables. What the run cannot show of several
instances (a session is at one of them; a queue lost at one takes nothing from
another's sessions) is in the theorems on its four invariants and the refinement,
which hold for any number. `feed_fanout` needs `MaxFeed = 2`, because with a feed of one post every list
that exists is full. It has no fault and `feed_races` no lag for the size of their
state space; `feed_lists` has both. Symmetry is declared only in `feed_lists`, which has no
liveness, over handlers, which nothing tells apart. A 4-bit `int` with feeds of up to four posts has every
relation of offset, limit, length and overflow that 32 bits and a thousand posts
have. Deadlock is checked in every run but `feed_page`, whose one request ends, and
`users`, where the ids run out.

Fairness, and why the code justifies it:

- the process is restarted (docker's restart policy) and userver restarts a
  consumer that lost its channel: `StartService`, `Resubscribe`;
- RabbitMQ delivers what is ready while the prefetch allows, and a coroutine
  that runs goes on: `Deliver`, `IncrTotal`, `IncrDialog`, `Ack`, `TakeEvent`,
  `Serving`;
- the reconciler wakes every minute and its loop visits every key: `StartPass`,
  `ReconcileUser`;
- a gRPC request that was begun goes on: `PublishEvent`, `ShowList`;
- an instance that is down is restarted and its consumer started, a channel is
  reopened, RabbitMQ delivers and misses the heartbeats of a lost connection in the
  end, and the coroutines of a handler and of a session go on: `Start`, `Resubscribe`,
  `Deliver`, `Notice`, `ReadFollowers`, `Notify`, `Ack`, `Send`, `Unsubscribe`;
  `Resubscribe` is disabled for good once the queue is gone. That the coroutines go on
  presumes a free worker thread. `post_feed_ws_manager.cpp:75` takes a temporary
  producer for each push, so that a session's `Pop` may return at once without an event
  from then on: such a loop spins, and enough of them hold all the threads. This is a
  hazard of which `OwedIsTold` says nothing;
- replicas replay, the cache's timer fires every 10 seconds, an update and a login
  under way go on: `Replicate`, `BeginUpdate`, `FinishUpdate`, `ReturnToken`. An update
  that a login asked for is owed nothing.

Nobody has to send, list, follow or post, no fault has to happen, and faults are
finitely many (after them the properties must hold).

## What the runs found

1. *Start order* (`counters_start_order`). `dialog_service.cpp:128` says that
   declaring the exchange makes any start order work. The exchange exists, but
   the queue is declared by counter-service alone: what is published before its
   first start is confirmed and dropped. With the queue once declared (it is
   durable) the promise holds: `EveryEventCounted`.
2. *Failed resets* (`saga_failed_reset`). `dialog_list_handler.cpp:56-57` says
   that reconciliation corrects the count after a failed reset. The reconciler
   sets `total` to the sum of the dialog fields, and those are what the reset
   should have cleared; they stay until the dialog is listed again.

3. *Queues that never come back* (`ws_deaf`). `post_feed_consumer.cpp:40` says that
   each instance has its own queue. It is declared when the instance starts and,
   being auto-delete, disappears with its consumer's connection. If the broker
   notices the loss before the consumer is back, the instance gets no
   notification until it is restarted. If the consumer is first, nothing is lost
   (`DueIsOnItsWay`).

Weaknesses the models make visible and no document denies are hazards in
`PROJECT.json`, and the properties say how far they reach: a list request that
fails after the reset, or a reset that executes after the handler gave up on it, hides
unread messages (`UnreadIsCounted` excepts just these);
a post whose publication failed never reaches existing lists, and a failed DEL
leaves a stale list for good, as lists have no expiry (`AloneIsExact` and
`WarmFeedGetsEveryPost` except just these); a driver that repeats an HINCRBY makes a
message count twice (`OvercountedOnlyByFaults`); a cancelled `Handle` leaves its entry
in `sessions_` (`ExpiredOnlyByFaults`); an event that was held on a lost channel when the
consumer came back is heard of after later ones, or twice (`HeardAsArrived`); a search argument with `%` or `_` finds
users it should not (`SearchIsByPrefix` says for which arguments it is right).
What no property excludes, though it is modelled: a feed list that a load from a lagging
replica, or one that raced with a write, leaves wrong until the next invalidation
(`AloneIsExact` excepts raced readers, so it says nothing of these hazards, which carry a
note instead). `login.cpp:87` does not wait for the cache, so a token may be rejected at first,
even by the instance that returned it; `AcceptedInTheEnd` says what remains true.

## Theorems

All are for every value of the constants that meets the named assumptions
(finite sets of users and messages, `Prefetch` at least 1), so for any number of
users, messages, handlers and faults.

`UnreadCountersProofs`:

- `TypeCorrect`: `Spec => []TypeOK`. `TypeOK` is inductive by itself once a sum of
  dialog counts is known to be a natural number (`SumType`: the set of its units is
  finite), which a reconciliation makes the new `total`.
- `AtLeastOnce`: `Spec => []NoUndercount`. The inductive invariant follows an
  event's custody: a routed event is in the queue, unacked, counted or cleared;
  an event that is unacked without a handler was counted; and a dialog's count
  is at least the number of its counted events. `NoUndercount` alone does not say
  where an event is, so no step could be shown to keep it.
- `NeverFarBelow`, `NeverFarAbove`: the badge against the sum of the dialogs. The
  invariants bound the running handlers by the prefetch (also the stray ones of a
  lost channel) and count the handlers between their HINCRBYs; a pass sets the
  badge to the sum, and what it overwrites are those handlers' increments, so
  passes do not add up. The sum over users is a cardinality (`Units`), whose
  change by one increment and one reset are lemmas of their own.

  Without faults a badge misses at most `Prefetch` of its dialogs' messages; a command
  that the driver repeats on a dialog alone adds one, and is a fault.

- `NeverRecountedFreely`: `Spec => []OvercountedOnlyByFaults`. The bound alone says
  nothing of recounts still to come. The inductive `Paid(u, p)` adds them: events
  that were counted and wait or are handled again (`Again`), and handlers of a lost
  channel whose events the queue has as well (`Strays`). A fault takes back at most
  the unacked events, and so adds at most `Prefetch` of them; every later step only
  turns a foreseen recount into a real one. A reset forgets which recounts the count
  held, and an event it took out may still be counted again; that this stays paid for
  (`PaidAfterReset`) is because until the reset the dialog held every counted event at
  least once (`DialogCovers`), so its excess over them was all due to faults.

`DialogSagaProofs`:

The theorems above hold of the whole, as every step of it is one of `UnreadCounters` or
leaves its variables alone: this is by construction, and only a lemma (`SagaCounts`).

- `SagaTypeCorrect`, `NeverPhantom` (events exist only for stored messages), and
  `UnreadNeverLost` (a cleared event is seen, blind, or under a list request that
  is still to fetch its message, which is stored already; this is the part that
  makes `UnreadIsCounted` inductive). A reset executed late has no request that is sure
  to fetch after it, so what it clears unseen is blind at once.
- `DialogsHoldTheUnread`: `SagaSpec => []DialogHoldsUnread`. What is unread and not
  pending is counted (`UnreadInCustody`), and a dialog's field is at least the
  number of the events counted in it and not cleared (`DialogCovers`, which every
  step of `UnreadCounters` preserves and by `StepRefines` every step of the whole).
- `BadgesHoldTheUnread`: `SagaSpec => []BadgeHoldsUnread`, the sum of these over all
  partners, related to the badge by `NeverFarBelow`, through `SagaCounts`.
  The unread messages of one reader are mapped one to one into the units of his
  dialogs (`SumCoversParts`). No run checks `BadgeHoldsUnread`: it allows a badge to
  be off by `Prefetch`, which the saga's two messages cannot exceed, so TLC's
  instance would say nothing of it. Its two halves are checked where they can
  fail, `DialogHoldsUnread` by `saga` and `UnderstatedByAtMostOverlap` by `counters`.

`AuthCacheProofs`:

- `OnlyTheRightUser`: `Spec => []RightUser`. The inductive `RightInv` compares every
  table, in a replica's state, a cache or an update under way, with the master's:
  what it holds, the master holds too (`Within`), as tokens are inserted once and
  never changed. `RightUser` alone says nothing of the tables yet to be read.
- `SureTokensAreKept`: `Spec => []SureTokensStay`; what an update under way is sure of
  is among the rows it read (`SureInv`).
- `AuthTypeCorrect`: `Spec => []AuthTypeOK`, for which a login whose token is stored must
  be served by an instance that is up (`LoginInv`).

- `CachesImplementTheTable`: `Spec => CachesTheTable`, the refinement of `TokenTable`. A
  stored token is `Issue`; the end of an update is `Choose`, for the tokens it knows,
  which `RightInv` shows to be rows of the table as they are; the rest stutters.

`FeedPageProofs`, for `int` and `size_t` of any width, feeds of any length:

- `SamePage`, `NothingInvented`, `NoOtherFailure`. The inductive `PageInv` says of an
  answer how it came about: by LRANGE with one of the possible stops, or as the slice
  of a miss. The rest is arithmetic: what AsInt and AsSize make of a sum, and that
  `SubSeq` with these bounds is the page.

`WsFanoutProofs`:

- `WsTypeCorrect`: `Spec => []WsTypeOK`. For the sessions the invariant also says that
  one that is new or over is where it must be: what is new is registered nowhere.
- `NoGhostsWithoutFaults`: `Spec => []ExpiredOnlyByFaults`; every step changes the set of
  expired entries by at most the one session that a fault ended.
- `NothingDueIsLost`: `Spec => []DueIsOnItsWay`. `DueInv` adds what the custody needs: a due
  session is open, its owner follows the author in every state a replica may show
  (so that no `ReadFollowers` misses him), and its instance has its queue unless
  the event is past it. On a lost channel the event is held at the broker, and
  returns.

`WsFanoutRefinementProofs`:

- `NotificationsImplemented`: `Spec => NotifiesAsPromised`. `HearInv`: whoever is read as a
  follower or holds a notification may be told of it. `CopyInv`: the copies of a
  post's event at hand of an instance and those a session of it was given are
  together at most one more than the faults and repetitions. With these `Befriend`,
  `Unfriend` and `Replicate` are a `Change`, `Announce` and `AnnouncementLost` an
  `Announce`, `Send` is a `Tell`, all that fails or ends (`LoseChannel`, `ReadFails`,
  `AutoDelete`, `Crash`, `Disconnect`, `Unwind`) a `Mishap`, and the rest stutters.
- `HeardInOrderOfArrival`: `Spec => []HeardAsArrived`. What the sessions heard says
  nothing of what comes next, so the invariant (`OrderInv`) speaks of what remains too:
  but for strays, the event at hand and the queue after it (`Rest`) are in the order of
  arrival, and what a session heard came before what remains. A publication appends
  to both; what fails and what returns from a lost channel goes back to the head, the
  first where it was and the second being a stray, of which nothing is claimed. That
  strays are at most the faults is `StrayInv`: a loss makes either the event at hand a
  stray or a channel that holds nothing, to which one event may be misdelivered.
  Only events of one instance are compared, since RabbitMQ promises no order between
  two queues for what several channels publish.

`PostFeedProofs`:

- `FeedTypeCorrect`: `Spec => []FeedTypeOK`. The invariant adds that no state of the
  database holds a post twice or one that nobody inserted, and that a handler is at
  one follower at a time. That a request never holds more rows than LIMIT needs
  `FeedOf` to be a sequence of rows of the table: `NthExists` shows that there is a k-th
  one, as the least index up to which there are k of them.
- `ListsDoNotGrow`: `Spec => []FeedsBounded`. Each kind of step (push, fill, trim, delete)
  is compared with what it does to the handlers and requests that are still to trim;
  a fault may take one of them away, and is counted instead.
- `CopiesAreBounded`: `Spec => []DuplicatesBounded`. The invariant counts, with the copies
  in the list, those still to come: requests that loaded or will load, and the event
  itself, which is unpublished, queued or with handlers that have this reader ahead
  (`Path`, at most one more than the faults). A request can only begin when the list is
  empty of copies.
- `NobodyIsMissed`: `Spec => []WarmFeedGetsEveryPost`. A reader in `warm` has a list and is
  a follower in every state that a replica may show, so no `ReadFollowers` misses him,
  and until the post is in his list nobody was told and every handler of the post has
  him ahead; a list never loses the post but to `kMaxFeedSize` others.
- `AnnouncementsImplemented`: `Spec => AnnouncesAsPromised`, the refinement of
  `Announcements`. Repeated publications, posts published, events with handlers and in
  the queue are together no more than the posts they are of and the faults; as there
  are no more such posts than events of them, repetitions are at most the faults.
- `NoEventIsLost`: `Spec => []AnsweredIsOnItsWay`. An event is under way (`UnderWayStays`)
  from its publication until it is announced, as a handler drops what it holds only
  after `FanOut`, and an exception or a lost channel puts it back. That the
  publication finds a queue is `DeclaredFirst`: the publisher's constructor comes
  before the first request. `EventsDrain` is this and the fairness of the handlers.
- `AloneExactly`: `Spec => []AloneIsExact`. The invariant (`Exact`) says, for every reader
  not in `raced`, that at most one operation has his list ahead of it (a post to be
  handed to a consumer, a handler with him to serve, an edit or a friend request that is
  yet to delete, a miss in `GetFeed`), and what that one must find: the feed without the
  new post (`Due`), the feed and one entry too many, or no list and the rows to fill it
  with; with none ahead, the list is absent or exact. What a write to the tables does to
  `FeedOf` is three lemmas: a row that is not the reader's changes nothing
  (`FeedOfUpdated`, `FeedOfDeleted`), and a new row of his is LPUSH and LTRIM
  (`FeedOfInserted`); both rest on the k-th row depending only on the rows' order
  (`SameFeed`).

`UsersProofs`, for any hash, bytes of any width, and passwords, salts, digests, names
and arguments of any length:

- `LoginChecksTheHash`: `Spec => []AcceptedIffHashesAgree`. Three lemmas carry it:
  `DigitsOfData` (the 2k-1st and 2k-th digit of a text are the upper and lower bits of
  the k-th byte), hence `FromHexOfToHex` (what a column holds is decoded to what was
  encoded), and `CompareIsEquality` (after k rounds the comparison has found nothing
  exactly if the first k bytes agree). The invariant (`TableInv`) says that a row's
  secret is what `HashPassword` makes of the password and salt chosen.
- `SearchFindsBeginnings`: `Spec => []SearchIsByPrefix`. `PrefixIsLike` goes down the
  table of `Like` from the pattern's `%`: place j of the text matches at place j of the
  pattern. `LikeIsPrefix` goes up: without special characters, a match at place j makes
  the j-th characters equal and is a match at place j + 1. That the answer lists each
  id once and in order is `NthIsInOrder`, which needs that only finitely many ids are
  registered; there may be infinitely many.

What a recursive definition computes is an induction over data, for which the library's
rules cannot be used. Here, and in `PostFeedProofs`, it is done by hand: a function that
satisfies the recursion is written down or extended place by place (`TableExtended`),
and a property of all its values is proved at the least place where it fails
(`LeastNatural`).

Only model-checked: all liveness (`EveryEventCounted`, `TotalsSettle`, `BadgeTells`,
`EventsDrain`, `OwedIsTold`, `AcceptedInTheEnd`), because TLAPS does not handle liveness
under fairness. Every invariant and action property of the runs has a theorem.

## Not modelled

- The two Redis commands of a miss in `FeedPage` (`PostFeed` has them); scopes of
  tokens, which are all the same; deletion of tokens, which no code does.
- The rounds of `SlowHash` and the entropy of `GenerateSalt`.
- All 400 answers: no state.
- Texts, names, JSON, UUIDs, the order of messages in a dialog.
- Repetitions by the Redis driver other than of the counters' HINCRBYs, retries
  inside the RabbitMQ driver, loss of Redis or broker data, sharding (Citus),
  nginx and haproxy.
- The worker threads of the process, and so a loop that spins on one.
- Start-up (`main.cpp` of the three programs), the greeting left from the project's
  template, the other columns of a user, migrations, monitoring and load tests.
