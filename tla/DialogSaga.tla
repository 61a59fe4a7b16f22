----------------------------- MODULE DialogSaga -----------------------------
(***************************************************************************)
(* Messaging from end to end: the chat-service, which stores a message and *)
(* then publishes its event (SAGA 1), the application's list handler,      *)
(* which resets the dialog's counter and then fetches the messages (SAGA   *)
(* 2), and the counter-service of module UnreadCounters.                   *)
(*                                                                         *)
(* No transaction spans the steps: sends, listings and counting interleave *)
(* freely, and each call between services may fail before or after it took *)
(* effect.                                                                 *)
(***************************************************************************)
EXTENDS UnreadCounters

CONSTANTS
    Opened,       \* bound: the dialogs <<reader, partner>> that are listed
    MaxLists,     \* bound on the list requests of one dialog at one time
    MaxChatFaults \* bound on failed calls outside the counter-service

ASSUME SagaBoundAssumption ==
    /\ Opened \subseteq User \X User
    /\ MaxLists \in Nat \ {0} /\ MaxChatFaults \in Nat

VARIABLES
    stored,     \* messages in the chat-service's Redis
    send,       \* send[m]: how far the request that sends m is
    lists,      \* lists[u][p]: u's list requests of the dialog with p that
                \* are between their two calls
    chatFaults, \* failed calls so far
    seen,       \* history: messages that were returned to their recipient
    late,       \* late[u][p]: calls that reset u's dialog with p, that failed
                \* for their list request and may still execute
    blind,      \* history: messages whose count was cleared for a list
                \* request that then failed, or by a late reset
    missed      \* history: dialogs with a count that the last reset call
                \* should have cleared and did not

counterVars == vars
chatVars    == <<stored, send, lists, late, chatFaults, seen, blind, missed>>
sagaVars    == <<counterVars, chatVars>>

ChatFault == chatFaults < MaxChatFaults /\ chatFaults' = chatFaults + 1

(* Mutants: a dialog per direction; messages that were never stored. *)
ThreadOfReader(u, p) == {m \in stored : From[m] = u /\ To[m] = p}
ThreadUnstored(u, p) == {m \in Msg : {From[m], To[m]} = {u, p}}

(* dialog_list: a dialog is one list for both partners. *)
Thread(u, p) == {m \in stored : {From[m], To[m]} = {u, p}}

NoCalls == [u \in User |-> [p \in User |-> 0]]

ClearedUnseen(u, p) == (cleared \cap Between(u, p)) \ seen

SagaInit ==
    /\ Init
    /\ stored = {}
    /\ send = [m \in Msg |-> "new"]
    /\ lists = NoCalls /\ late = NoCalls
    /\ chatFaults = 0
    /\ seen = {} /\ blind = {} /\ missed = {}

-----------------------------------------------------------------------------
(* Mutant: nobody waits for the reply of dialog_send. *)
StoreBlindly(m) ==
    /\ send[m] = "new"
    /\ send' = [send EXCEPT ![m] = "stored"]
    /\ stored' = stored \cup {m} \/ UNCHANGED stored
    /\ UNCHANGED <<counterVars, lists, late, chatFaults, seen, blind, missed>>

(* SendMessage, step 1: dialog_send stores the message. *)
Store(m) ==
    /\ send[m] = "new"
    /\ send' = [send EXCEPT ![m] = "stored"]
    /\ stored' = stored \cup {m}
    /\ UNCHANGED <<counterVars, lists, late, chatFaults, seen, blind, missed>>

(* The call throws, executed or not; the sender gets an error. *)
StoreThrows(m) ==
    /\ send[m] = "new"
    /\ ChatFault
    /\ send' = [send EXCEPT ![m] = "error"]
    /\ stored' = stored \cup {m} \/ UNCHANGED stored
    /\ UNCHANGED <<counterVars, lists, late, seen, blind, missed>>

(* Step 2: PublishReliable returns, and with it the request. *)
PublishEvent(m) ==
    /\ send[m] = "stored"
    /\ Publish(m)
    /\ send' = [send EXCEPT ![m] = "ok"]
    /\ UNCHANGED <<stored, lists, late, chatFaults, seen, blind, missed>>

(* No confirmation within the deadline, or the chat-service dies here: the  *)
(* sender gets an error, the message stays, and the broker has the event or *)
(* does not.                                                                *)
PublishThrows(m) ==
    /\ send[m] = "stored"
    /\ ChatFault
    /\ Publish(m) \/ UNCHANGED counterVars
    /\ send' = [send EXCEPT ![m] = "error"]
    /\ UNCHANGED <<stored, lists, late, seen, blind, missed>>

-----------------------------------------------------------------------------
(* The list handler, step 1: ResetDialogCounter takes effect (its reply may *)
(* still be lost, which the handler only logs).                             *)
BeginList(u, p) ==
    /\ lists[u][p] < MaxLists
    /\ ResetDialogCounter(u, p)
    /\ lists' = [lists EXCEPT ![u][p] = @ + 1]
    /\ missed' = missed \ {<<u, p>>}
    /\ UNCHANGED <<stored, send, late, chatFaults, seen, blind>>

(* The call fails, and the handler goes on all the same.  It has no effect, *)
(* or has it later: its deadline passed while the counter-service had it.   *)
BeginListResetFails(u, p) ==
    /\ lists[u][p] < MaxLists
    /\ ChatFault
    /\ lists' = [lists EXCEPT ![u][p] = @ + 1]
    /\ \/ UNCHANGED late
       \/ consumer # "off" /\ late' = [late EXCEPT ![u][p] = @ + 1]
    /\ missed' = IF dialog[u][p] > 0 THEN missed \cup {<<u, p>>} ELSE missed
    /\ UNCHANGED <<counterVars, stored, send, seen, blind>>

(* The reset that the handler gave up on executes, be it after the fetch. *)
LateReset(u, p) ==
    /\ late[u][p] > 0
    /\ late' = [late EXCEPT ![u][p] = @ - 1]
    /\ ResetDialogCounter(u, p)
    /\ missed' = missed \ {<<u, p>>}
    /\ UNCHANGED <<stored, send, lists, chatFaults, seen>>
    /\ blind' = blind \cup ClearedUnseen(u, p)'

(* Step 2: ListMessages; the response shows u what p sent. *)
ShowList(u, p) ==
    /\ lists[u][p] > 0
    /\ lists' = [lists EXCEPT ![u][p] = @ - 1]
    /\ seen' = seen \cup {m \in Thread(u, p) : To[m] = u}
    /\ UNCHANGED <<counterVars, stored, send, late, chatFaults, blind, missed>>

(* The call or the application fails: the reader gets an error, and the     *)
(* counter stays reset.                                                     *)
FailList(u, p) ==
    /\ lists[u][p] > 0
    /\ ChatFault
    /\ lists' = [lists EXCEPT ![u][p] = @ - 1]
    /\ blind' = blind \cup ClearedUnseen(u, p)
    /\ UNCHANGED <<counterVars, stored, send, late, seen, missed>>

(* DialogUnreadHandler: the badge, or 0 when the call fails. *)
UnreadCount(u, fails) == IF fails THEN 0 ELSE GetUnreadCount(u)

Sending ==
    \E m \in Msg :
        Store(m) \/ StoreThrows(m) \/ PublishEvent(m) \/ PublishThrows(m)

Listing ==
    \E u, p \in User :
        /\ <<u, p>> \in Opened
        /\ \/ BeginList(u, p) \/ BeginListResetFails(u, p) \/ LateReset(u, p)
           \/ ShowList(u, p) \/ FailList(u, p)

(* The counter-service by itself; a reset under way dies with its process. *)
Counting ==
    /\ Internal
    /\ late' = IF consumer' = "off" THEN NoCalls ELSE late
    /\ UNCHANGED <<stored, send, lists, chatFaults, seen, blind, missed>>

SagaNext ==
    \/ Sending
    \/ Listing
    \/ Counting

SagaSpec == SagaInit /\ [][SagaNext]_sagaVars

(* A request that was begun goes on; nobody has to send or to list.         *)
SagaFairness ==
    /\ Fairness
    /\ \A m \in Msg : WF_sagaVars(PublishEvent(m))
    /\ \A u, p \in User : WF_sagaVars(ShowList(u, p))

SagaFairSpec == SagaSpec /\ SagaFairness

-----------------------------------------------------------------------------
(* Type invariant of the chat-service and of the requests.                  *)
SagaTypeOK ==
    /\ stored \subseteq Msg /\ seen \subseteq stored /\ blind \subseteq Msg
    /\ send \in [Msg -> {"new", "stored", "ok", "error"}]
    /\ lists \in [User -> [User -> 0 .. MaxLists]]
    /\ late \in [User -> [User -> 0 .. chatFaults]]
    /\ chatFaults \in 0 .. MaxChatFaults
    /\ missed \subseteq Opened

(* What was sent: the messages whose sending was acknowledged, and those    *)
(* whose event the broker has although their sender was told of an error.   *)
Sent == published \cup {m \in Msg : send[m] = "ok"}

(* Messages from p that were sent, that u was not shown and that no failed  *)
(* listing and no late reset has swallowed, where no listing is under way.  *)
Unread(u, p) ==
    {m \in Between(u, p) :
        /\ m \in Sent \ (dropped \cup seen \cup blind)
        /\ lists[u][p] = 0}

(* They are in the recipient's count, or their events are on the way there: *)
(* resetting before fetching does not clear the count of a message that the *)
(* reader then misses.                                                      *)
UnreadIsCounted == \A u, p \in User : Unread(u, p) \subseteq queue \cup unacked \cup counted

(* And they are counted one by one: the chat-service's two steps, the list  *)
(* handler's two calls and the counters' redeliveries leave the dialog with *)
(* a count of at least its unread messages, but for the events still to be  *)
(* counted.                                                                 *)
DialogHoldsUnread ==
    \A u, p \in User : Cardinality(Unread(u, p) \ Pending(u, p)) <= dialog[u][p]

(* So the badge shows a reader all that is unread, of all partners, but for *)
(* the events to come and for what a reconciliation may have overwritten    *)
(* and commands repeated: Prefetch and one a fault.                         *)
UnreadOfAll(u) == UNION {Unread(u, p) \ Pending(u, p) : p \in User}

BadgeHoldsUnread ==
    \A u \in User :
        Cardinality(UnreadOfAll(u)) <= UnreadCount(u, FALSE) + Prefetch + faults

(* No phantom unread: whatever counts, will count or did count as unread is *)
(* a message that a listing returns.                                        *)
NoPhantomUnread == queue \cup unacked \cup counted \cup cleared \subseteq stored

(* In the end the badge tells of every message that was sent, and goes on   *)
(* to tell of it until it is shown, or swallowed as above: neither a        *)
(* reconciliation nor a reset that overlaps its counting hides it for good. *)
BadgeTells ==
    \A m \in Msg :
        m \in Sent \ dropped
            ~> [](m \in seen \cup blind \/ UnreadCount(To[m], FALSE) > 0)

(* dialog_list_handler.cpp:55-57: after a failed reset "periodic            *)
(* reconciliation in counter-service will correct any stale counts".  So    *)
(* once the reader has been shown every message sent to him, a dialog whose *)
(* reset failed does not stay unread.                                       *)
FailedResetIsCorrected ==
    \A u, p \in User :
        (<<u, p>> \in missed /\ Between(u, p) \subseteq seen) ~> dialog[u][p] = 0

=============================================================================
