--------------------------- MODULE UnreadCounters ---------------------------
(***************************************************************************)
(* The counter-service: per-user unread counters kept in a Redis hash      *)
(* `counters:{user}` (field `total` and one `dialog:{partner}` field per   *)
(* partner), fed by the durable RabbitMQ queue `message-counters` and      *)
(* repaired by a periodic reconciler.                                      *)
(*                                                                         *)
(* The consumer runs up to Prefetch message handlers at the same time, and *)
(* a handler increments `total` and `dialog:{from}` by two separate Redis  *)
(* commands.  Between them any other handler, a reset, a reconciliation, a *)
(* lost connection or a crash of the process may happen.  A handler that   *)
(* throws gives its message back to the queue, although Redis may have     *)
(* executed the command whose reply it did not get.                        *)
(***************************************************************************)
EXTENDS Integers, FiniteSets

CONSTANTS
    User,       \* users: owners of a counter hash, and their partners
    Msg,        \* the messages sent, each with one message.sent event
    From,       \* From[m]: the event's from_user_id
    To,         \* To[m]: the event's to_user_id
    Prefetch,   \* prefetch_count of the consumer (100 in static_config.yaml)
    MaxFaults   \* bound on the crashes, lost connections and failed commands

ASSUME MsgAssumption == IsFiniteSet(Msg) /\ From \in [Msg -> User] /\ To \in [Msg -> User]
ASSUME UserAssumption == IsFiniteSet(User)
ASSUME BoundAssumption == Prefetch \in Nat \ {0} /\ MaxFaults \in Nat

VARIABLES
    declared,   \* the queue message-counters exists and is bound
    consumer,   \* "off": process down; "up": consuming; "cut": lost its channel
    queue,      \* events ready for delivery
    unacked,    \* events delivered on the present channel and not yet acked
    task,       \* task[m]: where the handler of m's event stands
    total,      \* total[u]: the field `total` of u's hash
    dialog,     \* dialog[u][p]: the field `dialog:{p}` of u's hash
    toVisit,    \* users the present reconciliation pass has yet to visit
    faults,     \* faults so far
    published,  \* history: events whose publication the broker confirmed
    dropped,    \* history: ... of these, those no queue was bound for
    counted,    \* history: events added to their dialog since its last reset
    cleared     \* history: events a reset has taken out of their dialog

brokerVars  == <<declared, queue, published, dropped>>
handlerVars == <<consumer, unacked, task>>
redisVars   == <<total, dialog, counted, cleared>>
vars == <<declared, consumer, queue, unacked, task, total, dialog, toVisit,
          faults, published, dropped, counted, cleared>>

-----------------------------------------------------------------------------
(* Sums of non-negative fields, as the number of units they hold. *)
Units(f) == UNION {{x} \X (1 .. f[x]) : x \in DOMAIN f}
Sum(f)   == Cardinality(Units(f))

SumDialogs(u) == Sum(dialog[u])

Between(u, p) == {m \in Msg : To[m] = u /\ From[m] = p}
Running       == {m \in Msg : task[m] # "none"}
Half(u)       == {m \in Msg : task[m] = "half" /\ To[m] = u}
Routed        == published \ dropped

(* A user whose hash holds something: SCAN is sure to return its key. *)
HasCounters(u) == total[u] # 0 \/ \E p \in User : dialog[u][p] # 0

Init ==
    /\ declared = FALSE
    /\ consumer = "off"
    /\ queue = {} /\ unacked = {}
    /\ task = [m \in Msg |-> "none"]
    /\ total = [u \in User |-> 0]
    /\ dialog = [u \in User |-> [p \in User |-> 0]]
    /\ toVisit = {}
    /\ faults = 0
    /\ published = {} /\ dropped = {} /\ counted = {} /\ cleared = {}

Fault == faults < MaxFaults /\ faults' = faults + 1

-----------------------------------------------------------------------------
(* The broker takes m's event from PublishReliable.  A confirmed event that *)
(* no queue is bound for is dropped.                                        *)
Publish(m) ==
    /\ m \notin published
    /\ published' = published \cup {m}
    /\ IF declared
         THEN queue' = queue \cup {m} /\ UNCHANGED dropped
         ELSE dropped' = dropped \cup {m} /\ UNCHANGED queue
    /\ UNCHANGED <<declared, handlerVars, redisVars, toVisit, faults>>

(* The process starts: it declares and binds the queue and consumes. *)
StartService ==
    /\ consumer = "off"
    /\ consumer' = "up"
    /\ declared' = TRUE
    /\ UNCHANGED <<queue, unacked, task, published, dropped, redisVars, toVisit, faults>>

(* The channel breaks: the broker takes back what was not acked, while the *)
(* handlers that run go on with events that are no longer theirs.          *)
LoseChannel ==
    /\ consumer = "up"
    /\ Fault
    /\ consumer' = "cut"
    /\ queue' = queue \cup unacked
    /\ unacked' = {}
    /\ UNCHANGED <<declared, task, published, dropped, redisVars, toVisit>>

(* The consumer subscribes again once its old handlers have ended. *)
Resubscribe ==
    /\ consumer = "cut"
    /\ Running = {}
    /\ consumer' = "up"
    /\ UNCHANGED <<brokerVars, unacked, task, redisVars, toVisit, faults>>

(* The process dies, with its handlers and its reconciliation pass. *)
Crash ==
    /\ consumer # "off"
    /\ Fault
    /\ consumer' = "off"
    /\ queue' = queue \cup unacked
    /\ unacked' = {}
    /\ task' = [m \in Msg |-> "none"]
    /\ toVisit' = {}
    /\ UNCHANGED <<declared, published, dropped, redisVars>>

-----------------------------------------------------------------------------
(* CounterConsumer::Process, one action per Redis command. *)

(* Mutant: a consumer without a prefetch limit. *)
RoomAlways == TRUE

Room == Cardinality(unacked) < Prefetch

Deliver(m) ==
    /\ consumer = "up"
    /\ m \in queue
    /\ Room
    /\ queue' = queue \ {m}
    /\ unacked' = unacked \cup {m}
    /\ task' = [task EXCEPT ![m] = "start"]
    /\ UNCHANGED <<declared, consumer, published, dropped, redisVars, toVisit, faults>>

AddToTotal(m) == total' = [total EXCEPT ![To[m]] = @ + 1]

(* Mutant: a retry in Process sends the command twice. *)
AddTwice(m) ==
    /\ dialog' = [dialog EXCEPT ![To[m]][From[m]] = @ + 2]
    /\ counted' = counted \cup {m}

(* Mutant: HSET to 1 where the script means HINCRBY. *)
AddOnce(m) ==
    /\ dialog' = [dialog EXCEPT ![To[m]][From[m]] = 1]
    /\ counted' = counted \cup {m}

AddToDialog(m) ==
    /\ dialog' = [dialog EXCEPT ![To[m]][From[m]] = @ + 1]
    /\ counted' = counted \cup {m}

(* Mutant: Process catches the exception, and the event is acked. *)
Swallowed(m) == UNCHANGED <<unacked, queue>>

Returned(m) ==
    /\ unacked' = unacked \ {m}
    /\ queue' = IF m \in unacked THEN queue \cup {m} ELSE queue

(* The handler of m's event throws: its event, if still its own, is requeued. *)
GiveBack(m) ==
    /\ Fault
    /\ task' = [task EXCEPT ![m] = "none"]
    /\ Returned(m)
    /\ UNCHANGED <<declared, published, dropped, consumer, toVisit>>

IncrTotal(m) ==
    /\ task[m] = "start"
    /\ task' = [task EXCEPT ![m] = "half"]
    /\ AddToTotal(m)
    /\ UNCHANGED <<brokerVars, consumer, unacked, dialog, counted, cleared, toVisit, faults>>

(* No reply to the first HINCRBY: Redis may have executed it or not. *)
IncrTotalThrows(m) ==
    /\ task[m] = "start"
    /\ GiveBack(m)
    /\ AddToTotal(m) \/ UNCHANGED total
    /\ UNCHANGED <<dialog, counted, cleared>>

(* The reply is late, and the Redis driver repeats the command. *)
IncrTotalAgain(m) ==
    /\ task[m] = "start"
    /\ Fault
    /\ AddToTotal(m)
    /\ UNCHANGED <<brokerVars, handlerVars, dialog, counted, cleared, toVisit>>

IncrDialogAgain(m) ==
    /\ task[m] = "half"
    /\ Fault
    /\ AddToDialog(m)
    /\ UNCHANGED <<brokerVars, handlerVars, total, cleared, toVisit>>

IncrDialog(m) ==
    /\ task[m] = "half"
    /\ task' = [task EXCEPT ![m] = "none"]
    /\ AddToDialog(m)
    /\ UNCHANGED <<brokerVars, consumer, unacked, total, cleared, toVisit, faults>>

IncrDialogThrows(m) ==
    /\ task[m] = "half"
    /\ GiveBack(m)
    /\ AddToDialog(m) \/ UNCHANGED <<dialog, counted>>
    /\ UNCHANGED <<total, cleared>>

Ack(m) ==
    /\ m \in unacked
    /\ task[m] = "none"
    /\ unacked' = unacked \ {m}
    /\ UNCHANGED <<brokerVars, consumer, task, redisVars, toVisit, faults>>

-----------------------------------------------------------------------------
(* Mutants: without the clamp; without the subtraction. *)
SubtractUnclamped(t, d) == t - d
SubtractNothing(t, d) == t

(* HINCRBY total -d, then the clamp at 0. *)
Subtract(t, d) == IF t < d THEN 0 ELSE t - d

(* The atomic Redis function counter_reset_dialog, where it finds a count.  *)
ResetDialog(u, p) ==
    /\ dialog[u][p] > 0
    /\ dialog' = [dialog EXCEPT ![u][p] = 0]
    /\ total' = [total EXCEPT ![u] = Subtract(@, dialog[u][p])]
    /\ counted' = counted \ Between(u, p)
    /\ cleared' = cleared \cup (counted \cap Between(u, p))
    /\ UNCHANGED <<brokerVars, handlerVars, toVisit, faults>>

(* The gRPC call that reaches Redis.  Losing its reply changes nothing here, *)
(* and a call that fails before is no step.                                  *)
ResetDialogCounter(u, p) ==
    /\ consumer # "off"
    /\ \/ ResetDialog(u, p)
       \/ dialog[u][p] = 0 /\ UNCHANGED vars

(* The gRPC call behind the badge. *)
GetUnreadCount(u) == total[u]

(* RunReconciliation.  A SCAN returns every key that exists throughout, and *)
(* may return one that appears meanwhile.                                   *)
StartPass ==
    /\ consumer # "off"
    /\ toVisit = {}
    /\ toVisit' \in {S \in SUBSET User : \A u \in User : HasCounters(u) => u \in S}
    /\ UNCHANGED <<brokerVars, handlerVars, redisVars, faults>>

(* Mutants: a recomputation that never lowers, or never raises, the total. *)
ComputedTotalUpward(u) == IF total[u] < SumDialogs(u) THEN SumDialogs(u) ELSE total[u]
ComputedTotalDownward(u) == IF total[u] > SumDialogs(u) THEN SumDialogs(u) ELSE total[u]

ComputedTotal(u) == SumDialogs(u)

(* The atomic Redis function counter_reconcile_user. *)
ReconcileUser(u) ==
    /\ u \in toVisit
    /\ toVisit' = toVisit \ {u}
    /\ total' = [total EXCEPT ![u] = ComputedTotal(u)]
    /\ UNCHANGED <<brokerVars, handlerVars, dialog, counted, cleared, faults>>

(* The call for u fails: it is logged and the pass goes on. *)
ReconcileUserFails(u) ==
    /\ u \in toVisit
    /\ Fault
    /\ toVisit' = toVisit \ {u}
    /\ UNCHANGED <<brokerVars, handlerVars, redisVars>>

(* A SCAN fails: the exception ends the pass. *)
AbortPass ==
    /\ toVisit # {}
    /\ Fault
    /\ toVisit' = {}
    /\ UNCHANGED <<brokerVars, handlerVars, redisVars>>

Handler(m) ==
    \/ Deliver(m)
    \/ IncrTotal(m)
    \/ IncrTotalThrows(m) \/ IncrTotalAgain(m)
    \/ IncrDialog(m)
    \/ IncrDialogThrows(m) \/ IncrDialogAgain(m)
    \/ Ack(m)

Reconciler ==
    \/ StartPass
    \/ AbortPass
    \/ \E u \in User : ReconcileUser(u) \/ ReconcileUserFails(u)

(* All the steps of the counter-service and its broker but Publish. *)
Internal ==
    \/ StartService \/ LoseChannel \/ Resubscribe \/ Crash
    \/ \E m \in Msg : Handler(m)
    \/ Reconciler

Next ==
    \/ \E m \in Msg : Publish(m)
    \/ \E u, p \in User : ResetDialogCounter(u, p)
    \/ Internal

Spec == Init /\ [][Next]_vars

(* userver restarts the process and the channel, runs every handler and     *)
(* wakes the reconciler every minute; users owe the system nothing.         *)
Fairness ==
    /\ WF_vars(StartService) /\ WF_vars(Resubscribe) /\ WF_vars(StartPass)
    /\ \A m \in Msg : /\ WF_vars(Deliver(m)) /\ WF_vars(Ack(m))
                      /\ WF_vars(IncrTotal(m)) /\ WF_vars(IncrDialog(m))
    /\ \A u \in User : WF_vars(ReconcileUser(u))

FairSpec == Spec /\ Fairness

-----------------------------------------------------------------------------
(* Type invariant.  `total` is never negative: the Lua function clamps it.  *)
TypeOK ==
    /\ declared \in BOOLEAN
    /\ consumer \in {"off", "up", "cut"}
    /\ queue \subseteq Msg /\ unacked \subseteq Msg
    /\ task \in [Msg -> {"none", "start", "half"}]
    /\ total \in [User -> Nat]
    /\ dialog \in [User -> [User -> Nat]]
    /\ toVisit \subseteq User
    /\ faults \in 0 .. MaxFaults
    /\ published \subseteq Msg /\ dropped \subseteq published
    /\ counted \subseteq Msg /\ cleared \subseteq Msg

(* At-least-once counting.  However handlers, redeliveries and resets       *)
(* interleave, an event that reached the queue and that no reset has taken  *)
(* out is in its dialog's count or still on its way there: the count a user *)
(* sees plus the events to come is never less than what was sent.           *)
Owed(u, p)    == (Routed \ cleared) \cap Between(u, p)
Pending(u, p) == ((queue \cup unacked) \ counted) \cap Between(u, p)

NoUndercount ==
    \A u, p \in User :
        Cardinality(Owed(u, p)) <= dialog[u][p] + Cardinality(Pending(u, p))

(* The badge (`total`) may miss increments that a reconciliation overwrote  *)
(* between the two HINCRBYs of a handler, but never more of them than       *)
(* handlers can run at once, however many passes there are, and those that  *)
(* the driver repeated on the dialog alone, one a fault.                    *)
UnderstatedByAtMostOverlap ==
    \A u \in User :
        SumDialogs(u) + Cardinality(Half(u)) <= GetUnreadCount(u) + Prefetch + faults

(* The badge exceeds the dialogs' counts only by the handlers between their *)
(* two HINCRBYs and by what faults left behind; without a fault it never    *)
(* shows an unread message that no dialog holds.                            *)
OverstatedOnlyByFaults ==
    \A u \in User :
        GetUnreadCount(u) <= SumDialogs(u) + Cardinality(Half(u)) + Prefetch * faults

(* Without a fault no event is counted twice, and none that a reset has     *)
(* taken out comes back, even one that was still on its way when its        *)
(* message was read; a fault can make at most the handlers of one channel   *)
(* count their events again.                                                *)
OvercountedOnlyByFaults ==
    \A u, p \in User :
        dialog[u][p] <=
            Cardinality((counted \ cleared) \cap Between(u, p)) + Prefetch * faults

(* Every event that reached the queue is counted in the end.                *)
EveryEventCounted == \A m \in Msg : m \in Routed ~> m \in counted \cup cleared

(* dialog_service.cpp:73-74: "PublishReliable ensures at-least-once         *)
(* delivery", and 128: "any service start order works".  So an event whose  *)
(* publication was confirmed is counted in the end.                         *)
ConfirmedIsCounted == \A m \in Msg : m \in published ~> m \in counted \cup cleared

(* Once the traffic and the faults have ended, reconciliation brings the    *)
(* badge to the sum of the dialogs' counts, and it stays there (what the    *)
(* reconciler is for: counter_reconciler.hpp:12-14).                        *)
TotalsSettle == <>[](\A u \in User : GetUnreadCount(u) = SumDialogs(u))

=============================================================================
