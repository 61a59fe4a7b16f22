------------------------------ MODULE WsFanout ------------------------------
(***************************************************************************)
(* Live notifications: the event of a new post is fanned out to a queue of *)
(* every application instance, and each instance pushes it to the          *)
(* WebSocket sessions of the author's followers that are connected to it.  *)
(*                                                                         *)
(* An instance declares its queue once, when it starts.  The queue is      *)
(* auto-delete: when the broker notices that the connection of its only    *)
(* consumer is gone, it deletes the queue with all that is in it.  Until   *)
(* it notices, it keeps the event which that consumer had not acknowledged *)
(* and serves it like any other.                                           *)
(***************************************************************************)
EXTENDS Integers, Sequences, FiniteSets

CONSTANTS
    Instance,   \* the instances of the application
    User,       \* users who follow writers
    Writer,     \* users whose posts are fanned out
    Session,    \* WebSocket connections, each made at most once
    Post,
    Owner,      \* Owner[s]: the user of session s
    Author,     \* Author[p]: the writer of p
    MaxLag,     \* bound on the writes a replica may be behind
    MaxFaults   \* bound on the crashes, lost connections, failed calls and
                \* repeated publications of events

ASSUME WsAssumption ==
    /\ IsFiniteSet(Post) /\ IsFiniteSet(Session)
    /\ Owner \in [Session -> User] /\ Author \in [Post -> Writer]
ASSUME WsBoundAssumption == MaxLag \in Nat /\ MaxFaults \in Nat

VARIABLES
    wal,      \* friendships: states of the database, from the oldest that a
              \* replica may still show to the master's
    times, repeats, \* see Announcements
    consumer, \* consumer[i]: "off": process down; "up": consuming; "cut":
              \* lost its channel
    bound,    \* instances whose queue exists and is bound to ws-fanout
    inbox,    \* inbox[i]: the events in i's queue, oldest first
    lost,     \* lost[i]: the channels i has lost and the broker has not
              \* noticed, each with its number and the event it holds, if any
    task,     \* task[i]: what i's one message handler is doing, see FreeTask
    entries,  \* entries[i]: the sessions with a weak_ptr in i's sessions_
    conn,     \* conn[s]: "new", "open", "closing" or "over" (expired)
    out,      \* out[s]: notifications pushed to s and not yet sent
    sent,     \* sent[s]: notifications sent to the client of s
    faults,   \* faults so far
    arrived,  \* history: the events that i's queue got, in their order
    strays,   \* history: those of them that a lost channel held
    due,      \* history: <<s, p>> where s must be sent p, see Due
    mayHear   \* history: <<u, p>> where u followed p's author in some state
              \* that could be read since p was announced

announceVars == <<times, repeats>>
queueVars    == <<bound, inbox, lost, arrived, strays>>
instanceVars == <<consumer, task, bound, inbox, lost, arrived, strays>>
sessionVars  == <<entries, conn, out, sent>>
vars == <<wal, times, repeats, consumer, bound, inbox, lost, task, entries, conn, out,
          sent, faults, arrived, strays, due, mayHear>>

Upstream == INSTANCE Announcements WITH MaxRepeats <- MaxFaults

(* own: the event is still this handler's to acknowledge. *)
FreeTask   == [at |-> "free"]
NewTask(p) == [at |-> "start", post |-> p, to |-> {}, own |-> TRUE]
Busy(i)    == task[i].at # "free"

db     == wal[Len(wal)]
States == {wal[k] : k \in DOMAIN wal}

(* GetFollowers, in the state f. *)
GetFollowers(f, w) == {u \in User : <<u, w>> \in f}

Announced == {p \in Post : times[p] > 0}
Elements(q) == {q[k] : k \in DOMAIN q}

Fault == faults + repeats < MaxFaults /\ faults' = faults + 1

Init ==
    /\ \E f \in SUBSET (User \X Writer) : wal = <<f>>
    /\ times = [p \in Post |-> 0] /\ repeats = 0
    /\ consumer = [i \in Instance |-> "off"] /\ bound = {}
    /\ inbox = [i \in Instance |-> <<>>] /\ lost = [i \in Instance |-> {}]
    /\ arrived = [i \in Instance |-> <<>>] /\ strays = [i \in Instance |-> {}]
    /\ task = [i \in Instance |-> FreeTask]
    /\ entries = [i \in Instance |-> {}]
    /\ conn = [s \in Session |-> "new"]
    /\ out = [s \in Session |-> <<>>] /\ sent = [s \in Session |-> <<>>]
    /\ faults = 0 /\ due = {} /\ mayHear = {}

-----------------------------------------------------------------------------
(* Friendships: a write of the friend handlers, and the replay of one by    *)
(* the slowest replica.                                                     *)
Write(f) == wal' = IF Len(wal) <= MaxLag THEN Append(wal, f) ELSE Append(Tail(wal), f)

Befriend(u, w) ==
    /\ <<u, w>> \notin db
    /\ Write(db \cup {<<u, w>>})
    /\ mayHear' = mayHear \cup {<<u, p>> : p \in {q \in Announced : Author[q] = w}}
    /\ UNCHANGED <<announceVars, instanceVars, sessionVars, faults, due>>

Unfriend(u, w) ==
    /\ <<u, w>> \in db
    /\ Write(db \ {<<u, w>>})
    /\ due' = {d \in due : Owner[d[1]] # u \/ Author[d[2]] # w}
    /\ UNCHANGED <<announceVars, instanceVars, sessionVars, faults, mayHear>>

Replicate ==
    /\ Len(wal) > 1
    /\ wal' = Tail(wal)
    /\ UNCHANGED <<announceVars, instanceVars, sessionVars, faults, due, mayHear>>

-----------------------------------------------------------------------------
(* The sessions that are open where the event of p arrives, and whose owner *)
(* follows the author whatever state a replica shows.                       *)
Due(p) ==
    {s \in Session : /\ conn[s] = "open" /\ \E i \in bound : s \in entries[i]
                     /\ \A f \in States : <<Owner[s], Author[p]>> \in f}

(* The end of PostFeedConsumer::Process: the event of p reaches the         *)
(* exchange, and from it every queue there is.                              *)
Announce(p) ==
    /\ Upstream!Announce(p)
    /\ faults + repeats' <= MaxFaults
    /\ inbox' = [i \in Instance |-> IF i \in bound THEN Append(inbox[i], p) ELSE inbox[i]]
    /\ arrived' = [i \in Instance |-> IF i \in bound THEN Append(arrived[i], p) ELSE arrived[i]]
    /\ due' = due \cup (Due(p) \X {p})
    /\ mayHear' = mayHear \cup
           ({u \in User : \E f \in States : <<u, Author[p]>> \in f} \X {p})
    /\ UNCHANGED <<wal, consumer, bound, lost, task, sessionVars, faults, strays>>

(* Publish awaits no confirmation: the event may be lost on its way. *)
AnnouncementLost(p) ==
    /\ Upstream!Announce(p)
    /\ Fault /\ faults' + repeats' <= MaxFaults
    /\ mayHear' = mayHear \cup
           ({u \in User : \E f \in States : <<u, Author[p]>> \in f} \X {p})
    /\ UNCHANGED <<wal, instanceVars, sessionVars, due>>

-----------------------------------------------------------------------------
(* The instances. *)
Start(i) ==
    /\ consumer[i] = "off"
    /\ consumer' = [consumer EXCEPT ![i] = "up"]
    /\ bound' = bound \cup {i}
    /\ UNCHANGED <<wal, announceVars, inbox, lost, task, sessionVars, faults, arrived, strays,
                   due, mayHear>>

(* The event that i's handler has not acknowledged, on a channel that lasts. *)
Unacked(i) == IF Busy(i) /\ task[i].own THEN <<task[i].post>> ELSE <<>>

(* Mutant: what a channel held returns to the end of the queue. *)
ReturnLast(i, q) == inbox' = [inbox EXCEPT ![i] = @ \o q]

(* What a channel held returns to the head of the queue.  All that is queued *)
(* came later, but for other events that returned: RabbitMQ keeps their      *)
(* order, which nothing here depends on.                                     *)
Return(i, q) == inbox' = [inbox EXCEPT ![i] = q \o @]

(* The consumer's connection breaks for it; its handler goes on.  The broker *)
(* knows nothing of it: the channel holds its event.                         *)
LoseChannel(i) ==
    /\ consumer[i] = "up"
    /\ Fault
    /\ consumer' = [consumer EXCEPT ![i] = "cut"]
    /\ lost' = [lost EXCEPT ![i] = @ \cup {[nr |-> faults', holds |-> Unacked(i)]}]
    /\ strays' = [strays EXCEPT ![i] = @ \cup Elements(Unacked(i))]
    /\ task' = [task EXCEPT ![i] = IF Busy(i) THEN [@ EXCEPT !.own = FALSE] ELSE @]
    /\ UNCHANGED <<wal, announceVars, bound, inbox, sessionVars, arrived, due, mayHear>>

(* The broker delivers an event to a channel that is no more. *)
Misdeliver(i) ==
    /\ inbox[i] # <<>>
    /\ \E l \in lost[i] :
           /\ l.holds = <<>>
           /\ lost' = [lost EXCEPT ![i] =
                  (@ \ {l}) \cup {[l EXCEPT !.holds = <<Head(inbox[i])>>]}]
    /\ inbox' = [inbox EXCEPT ![i] = Tail(@)]
    /\ strays' = [strays EXCEPT ![i] = @ \cup {Head(inbox[i])}]
    /\ UNCHANGED <<wal, announceVars, consumer, bound, task, sessionVars, faults, arrived,
                   due, mayHear>>

(* The broker notices that a channel is gone, while it knows of another one. *)
Notice(i) ==
    /\ \E l \in lost[i] :
           /\ consumer[i] = "up" \/ lost[i] # {l}
           /\ lost' = [lost EXCEPT ![i] = @ \ {l}]
           /\ Return(i, l.holds)
    /\ UNCHANGED <<wal, announceVars, consumer, bound, task, sessionVars, faults, arrived,
                   strays, due, mayHear>>

(* i's queue disappears with all that is in it or held from it. *)
LoseQueue(i) ==
    /\ bound' = bound \ {i}
    /\ inbox' = [inbox EXCEPT ![i] = <<>>]
    /\ lost' = [lost EXCEPT ![i] = {}]
    /\ due' = {d \in due : d[1] \notin entries[i]}

(* It notices that the last one is gone: a queue without a consumer is       *)
(* deleted.                                                                  *)
AutoDelete(i) ==
    /\ consumer[i] = "cut" /\ i \in bound
    /\ Cardinality(lost[i]) = 1
    /\ LoseQueue(i)
    /\ UNCHANGED <<wal, announceVars, consumer, task, sessionVars, faults, arrived, strays,
                   mayHear>>

(* The consumer is there again before: it consumes from its queue, which it  *)
(* does not declare.                                                         *)
Resubscribe(i) ==
    /\ consumer[i] = "cut" /\ i \in bound
    /\ ~ Busy(i)
    /\ consumer' = [consumer EXCEPT ![i] = "up"]
    /\ UNCHANGED <<wal, announceVars, queueVars, task, sessionVars, faults, due, mayHear>>

(* The process ends: the next one has a queue of its own. *)
Crash(i) ==
    /\ consumer[i] # "off"
    /\ Fault
    /\ LoseQueue(i)
    /\ arrived' = [arrived EXCEPT ![i] = <<>>] /\ strays' = [strays EXCEPT ![i] = {}]
    /\ consumer' = [consumer EXCEPT ![i] = "off"]
    /\ task' = [task EXCEPT ![i] = FreeTask]
    /\ entries' = [entries EXCEPT ![i] = {}]
    /\ conn' = [s \in Session |-> IF s \in entries[i] THEN "over" ELSE conn[s]]
    /\ out' = [s \in Session |-> IF s \in entries[i] THEN <<>> ELSE out[s]]
    /\ UNCHANGED <<wal, announceVars, sent, mayHear>>

-----------------------------------------------------------------------------
(* WsFanoutConsumer::Process, for one event at a time. *)
Deliver(i) ==
    /\ consumer[i] = "up" /\ ~ Busy(i)
    /\ inbox[i] # <<>>
    /\ task' = [task EXCEPT ![i] = NewTask(Head(inbox[i]))]
    /\ inbox' = [inbox EXCEPT ![i] = Tail(@)]
    /\ UNCHANGED <<wal, announceVars, consumer, bound, lost, sessionVars, faults, arrived,
                   strays, due, mayHear>>

(* Any replica may answer. *)
ReadFollowers(i) ==
    /\ task[i].at = "start"
    /\ \E f \in States :
           task' = [task EXCEPT ![i].at = "push", ![i].to = GetFollowers(f, Author[task[i].post])]
    /\ UNCHANGED <<wal, announceVars, consumer, queueVars, sessionVars, faults, due, mayHear>>

(* Process ends, returning or throwing. *)
EndProcess(i) ==
    /\ task' = [task EXCEPT ![i] = FreeTask]
    /\ UNCHANGED <<wal, announceVars, consumer, bound, lost, sessionVars, arrived, strays,
                   due, mayHear>>

(* Mutant: Process swallows the exception. *)
ReadSwallowed(i) == task[i].at = "start" /\ Fault /\ EndProcess(i) /\ UNCHANGED inbox

ReadFails(i) == task[i].at = "start" /\ Fault /\ EndProcess(i) /\ Return(i, Unacked(i))

Push(i, S) ==
    /\ task[i].at = "push"
    /\ out' = [s \in Session |-> IF s \in S THEN Append(out[s], task[i].post) ELSE out[s]]
    /\ task' = [task EXCEPT ![i].at = "done"]
    /\ UNCHANGED <<wal, announceVars, consumer, queueVars, entries, conn, sent, faults,
                   due, mayHear>>

Live(i) == {s \in entries[i] : conn[s] # "over"}

(* Mutant: the event is pushed to whoever is connected. *)
NotifyAll(i) == Push(i, Live(i))

(* Under the lock of the sessions the event is pushed to all of them; an    *)
(* expired weak_ptr is passed over.                                         *)
Notify(i) == Push(i, {s \in Live(i) : Owner[s] \in task[i].to})

(* Mutant: nothing is acknowledged while the channel is there. *)
AckForgotten(i) ==
    task[i].at = "done" /\ ~ task[i].own /\ EndProcess(i) /\ UNCHANGED <<inbox, faults>>

Ack(i) == task[i].at = "done" /\ EndProcess(i) /\ UNCHANGED <<inbox, faults>>

-----------------------------------------------------------------------------
(* PostFeedWsHandler::Handle.  nginx chooses the instance. *)
Connect(s, i) ==
    /\ conn[s] = "new" /\ consumer[i] # "off"
    /\ conn' = [conn EXCEPT ![s] = "open"]
    /\ entries' = [entries EXCEPT ![i] = @ \cup {s}]
    /\ UNCHANGED <<wal, announceVars, instanceVars, out, sent, faults, due, mayHear>>

Send(s) ==
    /\ conn[s] = "open" /\ out[s] # <<>>
    /\ sent' = [sent EXCEPT ![s] = Append(@, Head(out[s]))]
    /\ out' = [out EXCEPT ![s] = Tail(@)]
    /\ UNCHANGED <<wal, announceVars, instanceVars, entries, conn, faults, due, mayHear>>

(* The client closes or is gone, found by the receiving task or by SendText. *)
Disconnect(s) ==
    /\ conn[s] = "open"
    /\ conn' = [conn EXCEPT ![s] = "closing"]
    /\ due' = {d \in due : d[1] # s}
    /\ UNCHANGED <<wal, announceVars, instanceVars, entries, out, sent, faults, mayHear>>

(* Handle ends, and with it the session. *)
EndHandle(s) ==
    /\ conn' = [conn EXCEPT ![s] = "over"]
    /\ out' = [out EXCEPT ![s] = <<>>]
    /\ UNCHANGED <<wal, announceVars, instanceVars, sent, mayHear>>

(* Mutant: Handle ends without Unsubscribe. *)
EndWithoutUnsubscribe(s) ==
    conn[s] = "closing" /\ EndHandle(s) /\ UNCHANGED <<entries, faults, due>>

(* Mutant: the user's whole list of sessions goes. *)
RemainsForOthers(x, s) == Owner[x] # Owner[s]

(* The weak_ptr of s goes, and any other of its user that has expired. *)
Remains(x, s) == Owner[x] # Owner[s] \/ (x # s /\ conn[x] # "over")

Unsubscribe(s) ==
    /\ conn[s] = "closing"
    /\ EndHandle(s)
    /\ entries' = [i \in Instance |->
           IF s \in entries[i]
             THEN {x \in entries[i] : Remains(x, s)}
             ELSE entries[i]]
    /\ UNCHANGED <<faults, due>>

(* Handle is cancelled: recv_task.Wait throws, and nobody unsubscribes. *)
Unwind(s) ==
    /\ conn[s] \in {"open", "closing"}
    /\ Fault
    /\ EndHandle(s)
    /\ due' = {d \in due : d[1] # s}
    /\ UNCHANGED entries

Processing(i) ==
    Deliver(i) \/ ReadFollowers(i) \/ ReadFails(i) \/ Notify(i) \/ Ack(i)

Lifecycle(i) ==
    \/ Start(i) \/ LoseChannel(i) \/ Misdeliver(i) \/ Notice(i)
    \/ AutoDelete(i) \/ Resubscribe(i) \/ Crash(i)

Handling(s) ==
    \/ \E i \in Instance : Connect(s, i)
    \/ Send(s) \/ Disconnect(s) \/ Unsubscribe(s) \/ Unwind(s)

Next ==
    \/ \E u \in User, w \in Writer : Befriend(u, w) \/ Unfriend(u, w)
    \/ Replicate
    \/ \E p \in Post : Announce(p) \/ AnnouncementLost(p)
    \/ \E i \in Instance : Lifecycle(i) \/ Processing(i)
    \/ \E s \in Session : Handling(s)

Spec == Init /\ [][Next]_vars

(* userver starts the process and its consumer and runs the coroutines that *)
(* can go on, as long as a worker thread is free; the broker misses the     *)
(* heartbeats of a lost connection in the end.  Users, and the broker where *)
(* it is faster than a consumer that comes back, owe the system nothing.    *)
Fairness ==
    /\ \A i \in Instance :
           /\ WF_vars(Start(i)) /\ WF_vars(Resubscribe(i)) /\ WF_vars(Notice(i))
           /\ WF_vars(Deliver(i)) /\ WF_vars(ReadFollowers(i))
           /\ WF_vars(Notify(i)) /\ WF_vars(Ack(i))
    /\ \A s \in Session : WF_vars(Send(s)) /\ WF_vars(Unsubscribe(s))

FairSpec == Spec /\ Fairness

-----------------------------------------------------------------------------
TaskType ==
    {FreeTask} \cup
    [at : {"start", "push", "done"}, post : Post, to : SUBSET User, own : BOOLEAN]

LostChannel == [nr : Nat, holds : {<<>>} \cup {<<p>> : p \in Post}]

(* Type invariant.  A session whose Handle runs is registered, once. *)
WsTypeOK ==
    /\ wal \in Seq(SUBSET (User \X Writer)) /\ Len(wal) \in 1 .. MaxLag + 1
    /\ times \in [Post -> Nat] /\ repeats \in Nat
    /\ consumer \in [Instance -> {"off", "up", "cut"}]
    /\ bound \subseteq Instance
    /\ inbox \in [Instance -> Seq(Post)] /\ arrived \in [Instance -> Seq(Post)]
    /\ lost \in [Instance -> SUBSET LostChannel] /\ strays \in [Instance -> SUBSET Post]
    /\ task \in [Instance -> TaskType]
    /\ entries \in [Instance -> SUBSET Session]
    /\ \A i, j \in Instance : i # j => entries[i] \cap entries[j] = {}
    /\ conn \in [Session -> {"new", "open", "closing", "over"}]
    /\ \A s \in Session :
           conn[s] \in {"open", "closing"} => \E i \in Instance : s \in entries[i]
    /\ out \in [Session -> Seq(Post)] /\ sent \in [Session -> Seq(Post)]
    /\ faults \in Nat /\ faults + repeats <= MaxFaults
    /\ due \subseteq Session \X Post /\ mayHear \subseteq User \X Post

(* post_feed_consumer.cpp:39-41: a fan-out reaches every instance.  So a    *)
(* session that was open when its instance's queue got the event, and whose *)
(* owner follows the author all the time, is told or about to be, whatever  *)
(* the other instances, sessions, replicas and a connection that recovers   *)
(* do: the event is in the queue, with the handler, held at the broker for  *)
(* a channel that is no more, or in the session.                            *)
OnItsWay(s, p) ==
    \/ \E i \in Instance :
        /\ s \in entries[i]
        /\ \/ p \in Elements(inbox[i])
           \/ \E l \in lost[i] : p \in Elements(l.holds)
           \/ task[i].at = "start" /\ task[i].post = p
           \/ task[i].at = "push" /\ task[i].post = p /\ Owner[s] \in task[i].to
    \/ p \in Elements(out[s]) \cup Elements(sent[s])

DueIsOnItsWay == \A d \in due : OnItsWay(d[1], d[2])

(* An entry whose session is gone is left behind by a cancelled Handle      *)
(* only, so sessions_ does not fill with them; and nothing is kept for it.  *)
Expired(i) == entries[i] \ Live(i)

ExpiredOnlyByFaults ==
    /\ Cardinality(UNION {Expired(i) : i \in Instance}) <= faults
    /\ \A i \in Instance : \A s \in Expired(i) : out[s] = <<>>

(* ws_fanout_consumer.cpp:36: an instance consumes its events one by one    *)
(* (prefetch 1), and pushes each to its sessions under one lock.  So every  *)
(* session hears of posts in the order in which their events reached the    *)
(* queue, and of none twice but by a second event, though an event may      *)
(* return after a failed query, whichever replica named the followers, and  *)
(* whoever joined in between.  Only what was held on a lost channel may     *)
(* come late or again, and that is one event for every fault.               *)
Heard(s) == sent[s] \o out[s]

Precedes(q, a, b) == \E j, k \in DOMAIN q : j < k /\ q[j] = a /\ q[k] = b

HeardAsArrived ==
    \A i \in Instance :
        /\ Cardinality(strays[i]) <= faults
        /\ \A s \in entries[i], a, b \in Post \ strays[i] :
               Precedes(Heard(s), a, b) => Precedes(arrived[i], a, b)

Copies(q, p) == Cardinality({k \in DOMAIN q : q[k] = p})

Promise == INSTANCE Notifications WITH
    views <- States, announced <- Announced, may <- mayHear,
    owed <- {d \in due : d[2] \notin Elements(sent[d[1]])},
    told <- [s \in Session |-> [p \in Post |-> Copies(sent[s], p)]],
    mishaps <- faults + repeats

(* Seen from the clients, all this is Notifications: nobody is told of a    *)
(* post whose author he did not follow in any state that could be read      *)
(* since, copies have faults to blame, and what is owed stays so unless the *)
(* session ends, the friendship does or the instance loses its queue.       *)
NotifiesAsPromised == Promise!Spec

(* What is owed is sent in the end, as long as the loops of all sessions    *)
(* get to run: neither a failed query nor an event held on a lost channel,  *)
(* nor another session that has ended, keeps it waiting for ever.           *)
OwedIsTold == Promise!Kept

(* post_feed_consumer.cpp:40: "Each instance has its own auto-delete queue  *)
(* bound to ws-fanout".  So one that lost its channel gets back to a queue. *)
QueueComesBack == \A i \in Instance : consumer[i] = "cut" ~> consumer[i] # "cut"

=============================================================================
