--------------------------- MODULE WsFanoutProofs ---------------------------
(* Proofs about WsFanout, for any number of instances, sessions, posts,      *)
(* faults and repetitions and any replication lag.                           *)
EXTENDS WsFanout, TLAPS, SequenceTheorems, FiniteSetTheorems

Friendships == SUBSET (User \X Writer)

(* The type invariant in parts.  Beyond it: a session that never was is      *)
(* registered nowhere, and nothing is kept for one that is over.             *)
WalType   == wal \in Seq(Friendships) /\ Len(wal) \in 1 .. MaxLag + 1
CountType ==
    /\ times \in [Post -> Nat] /\ repeats \in Nat
    /\ faults \in Nat /\ faults + repeats <= MaxFaults
InstanceType ==
    /\ consumer \in [Instance -> {"off", "up", "cut"}]
    /\ bound \subseteq Instance
    /\ inbox \in [Instance -> Seq(Post)] /\ arrived \in [Instance -> Seq(Post)]
    /\ lost \in [Instance -> SUBSET LostChannel] /\ strays \in [Instance -> SUBSET Post]
    /\ \A i \in Instance : IsFiniteSet(lost[i])
    /\ task \in [Instance -> TaskType]
SessionType ==
    /\ entries \in [Instance -> SUBSET Session]
    /\ conn \in [Session -> {"new", "open", "closing", "over"}]
    /\ out \in [Session -> Seq(Post)] /\ sent \in [Session -> Seq(Post)]
Registered ==
    /\ \A i, j \in Instance : i # j => entries[i] \cap entries[j] = {}
    /\ \A s \in Session :
           conn[s] \in {"open", "closing"} => \E i \in Instance : s \in entries[i]
    /\ \A s \in Session : conn[s] = "new" => \A i \in Instance : s \notin entries[i]
    /\ \A s \in Session : conn[s] \in {"new", "over"} => out[s] = <<>>
HistoryType == due \subseteq Session \X Post /\ mayHear \subseteq User \X Post

TypeInv ==
    WalType /\ CountType /\ InstanceType /\ SessionType /\ Registered /\ HistoryType

-----------------------------------------------------------------------------
(* What a write or a replay leaves to be read.                               *)
LEMMA WriteEffect ==
    ASSUME WalType, NEW f \in Friendships, Write(f)
    PROVE  WalType' /\ States' \subseteq States \cup {f}
<1>1. CASE Len(wal) <= MaxLag
  <2>1. wal' = Append(wal, f)
    BY <1>1 DEF Write
  <2>2. /\ wal' \in Seq(Friendships) /\ Len(wal') = Len(wal) + 1
        /\ \A k \in 1 .. Len(wal) : wal'[k] = wal[k]
        /\ wal'[Len(wal) + 1] = f
    BY <2>1 DEF WalType
  <2> QED
    BY <1>1, <2>2, WsBoundAssumption DEF WalType, States
<1>2. CASE ~ (Len(wal) <= MaxLag)
  <2>1. wal' = Append(Tail(wal), f)
    BY <1>2 DEF Write
  <2>2. Tail(wal) \in Seq(Friendships) /\ Len(Tail(wal)) = Len(wal) - 1
    BY DEF WalType
  <2>3. \A k \in 1 .. Len(Tail(wal)) : Tail(wal)[k] = wal[k + 1] /\ k + 1 \in DOMAIN wal
    BY <2>2 DEF WalType
  <2>4. /\ wal' \in Seq(Friendships) /\ Len(wal') = Len(wal)
        /\ \A k \in 1 .. Len(wal) - 1 : wal'[k] = wal[k + 1] /\ k + 1 \in DOMAIN wal
        /\ wal'[Len(wal)] = f
    BY <2>1, <2>2, <2>3 DEF WalType
  <2>5. WalType'
    BY <2>4, WsBoundAssumption DEF WalType
  <2>6. \A k \in DOMAIN wal' : wal'[k] \in States \cup {f}
    BY <2>4 DEF WalType, States
  <2> QED
    BY <2>5, <2>6 DEF States
<1> QED
  BY <1>1, <1>2

LEMMA ReplicateEffect ==
    ASSUME WalType, Replicate
    PROVE  WalType' /\ States' \subseteq States
<1>1. wal' = Tail(wal) /\ Len(wal) > 1
  BY DEF Replicate
<1>2. wal' \in Seq(Friendships) /\ Len(wal') = Len(wal) - 1
  BY <1>1 DEF WalType
<1>3. \A k \in 1 .. Len(wal') : wal'[k] = wal[k + 1] /\ k + 1 \in DOMAIN wal
  BY <1>1, <1>2 DEF WalType
<1> QED
  BY <1>1, <1>2, <1>3, WsBoundAssumption DEF WalType, States

LEMMA MasterIsRead == WalType => db \in States /\ db \in Friendships
  BY DEF WalType, States, db

LEMMA StatesType == WalType => States \subseteq Friendships
  BY DEF WalType, States

-----------------------------------------------------------------------------
LEMMA InitType == Init => TypeInv
<1> SUFFICES ASSUME Init PROVE TypeInv
  OBVIOUS
<1>1. WalType /\ CountType
  BY WsBoundAssumption DEF Init, WalType, CountType, Friendships
<1>2. InstanceType /\ SessionType /\ Registered /\ HistoryType
  BY FS_EmptySet DEF Init, InstanceType, SessionType, Registered, HistoryType, TaskType
<1> QED
  BY <1>1, <1>2 DEF TypeInv

LEMMA NextWal == TypeInv /\ [Next]_vars => WalType'
<1> SUFFICES ASSUME TypeInv, [Next]_vars PROVE WalType'
  OBVIOUS
<1>1. ASSUME NEW u \in User, NEW w \in Writer, Befriend(u, w) \/ Unfriend(u, w)
      PROVE  WalType'
  <2>1. db \cup {<<u, w>>} \in Friendships /\ db \ {<<u, w>>} \in Friendships
    BY MasterIsRead DEF TypeInv, Friendships
  <2> QED
    BY <1>1, <2>1, WriteEffect DEF TypeInv, Befriend, Unfriend
<1>2. CASE Replicate
  BY <1>2, ReplicateEffect DEF TypeInv
<1>3. CASE \E p \in Post : Announce(p) \/ AnnouncementLost(p)
  BY <1>3 DEF TypeInv, WalType, Announce, AnnouncementLost
<1>4. CASE \E i \in Instance : Lifecycle(i) \/ Processing(i)
  BY <1>4 DEF TypeInv, WalType, Lifecycle, Start, LoseChannel, Misdeliver, Notice,
     AutoDelete, Resubscribe,
              Crash, Processing, Deliver, ReadFollowers, ReadFails, EndProcess, Notify,
              Push, Ack
<1>5. CASE \E s \in Session : Handling(s)
  BY <1>5 DEF TypeInv, WalType, Handling, Connect, Send, Disconnect, Unsubscribe,
              EndHandle, Unwind
<1>6. CASE UNCHANGED vars
  BY <1>6 DEF TypeInv, WalType, vars
<1> QED
  BY <1>1, <1>2, <1>3, <1>4, <1>5, <1>6 DEF Next

LEMMA FaultCounted ==
    ASSUME TypeInv, Fault
    PROVE  faults' = faults + 1 /\ faults' \in Nat /\ faults' + repeats <= MaxFaults
  BY WsBoundAssumption DEF Fault, TypeInv, CountType

LEMMA NextCount == TypeInv /\ [Next]_vars => CountType'
<1> SUFFICES ASSUME TypeInv, [Next]_vars PROVE CountType'
  OBVIOUS
<1>1. CASE UNCHANGED <<times, repeats>> /\ (faults' = faults \/ Fault)
  BY <1>1, FaultCounted DEF TypeInv, CountType
<1>2. ASSUME NEW p \in Post, Announce(p) \/ AnnouncementLost(p)
      PROVE  CountType'
  <2>1. times' \in [Post -> Nat] /\ repeats' \in Nat
    BY <1>2 DEF TypeInv, CountType, Announce, AnnouncementLost, Upstream!Announce
  <2>2. faults' \in Nat /\ faults' + repeats' <= MaxFaults
    BY <1>2, FaultCounted DEF TypeInv, CountType, Announce, AnnouncementLost
  <2> QED
    BY <2>1, <2>2 DEF CountType
<1>3. ASSUME NEW u \in User, NEW w \in Writer, Befriend(u, w) \/ Unfriend(u, w)
      PROVE  UNCHANGED <<times, repeats, faults>>
  BY <1>3 DEF Befriend, Unfriend, announceVars
<1>4. ASSUME Replicate PROVE UNCHANGED <<times, repeats, faults>>
  BY <1>4 DEF Replicate, announceVars
<1>5. ASSUME NEW i \in Instance, Lifecycle(i)
      PROVE  UNCHANGED <<times, repeats>> /\ (faults' = faults \/ Fault)
  BY <1>5 DEF Lifecycle, Start, LoseChannel, Misdeliver, Notice, AutoDelete,
     Resubscribe, Crash, announceVars
<1>6. ASSUME NEW i \in Instance, Processing(i)
      PROVE  UNCHANGED <<times, repeats>> /\ (faults' = faults \/ Fault)
  BY <1>6 DEF Processing, Deliver, ReadFollowers, ReadFails, EndProcess, Notify, Push,
     Ack,
              announceVars
<1>7. ASSUME NEW s \in Session, Handling(s)
      PROVE  UNCHANGED <<times, repeats>> /\ (faults' = faults \/ Fault)
  BY <1>7 DEF Handling, Connect, Send, Disconnect, Unsubscribe, EndHandle, Unwind,
              announceVars
<1>8. CASE UNCHANGED vars
  BY <1>8, <1>1 DEF vars
<1> QED
  BY <1>1, <1>2, <1>3, <1>4, <1>5, <1>6, <1>7, <1>8 DEF Next

-----------------------------------------------------------------------------
LEMMA BusyTask ==
    ASSUME InstanceType, NEW i \in Instance, Busy(i)
    PROVE  /\ task[i] \in [at : {"start", "push", "done"}, post : Post, to : SUBSET User,
                            own : BOOLEAN]
           /\ task[i].post \in Post
  BY DEF InstanceType, TaskType, Busy, FreeTask

(* What a channel holds is an event or nothing.                              *)
Held == {<<>>} \cup {<<p>> : p \in Post}

LEMMA HeldType == Held \subseteq Seq(Post)
<1>1. <<>> \in Seq(Post)
  OBVIOUS
<1>2. \A p \in Post : <<p>> \in Seq(Post)
  OBVIOUS
<1> QED
  BY <1>1, <1>2 DEF Held

LEMMA UnackedType ==
    ASSUME InstanceType, NEW i \in Instance
    PROVE  Unacked(i) \in Held /\ Unacked(i) \in Seq(Post)
<1>1. Unacked(i) \in Held
  BY BusyTask DEF Unacked, Held
<1> QED
  BY <1>1, HeldType

LEMMA LostType ==
    ASSUME InstanceType, NEW i \in Instance, NEW l \in lost[i]
    PROVE  l \in [nr : Nat, holds : Held] /\ l.holds \in Held /\ l.holds \in Seq(Post)
<1>1. l \in [nr : Nat, holds : Held]
  BY DEF InstanceType, LostChannel, Held
<1> QED
  BY <1>1, HeldType

LEMMA ReturnType ==
    ASSUME InstanceType, NEW i \in Instance, NEW q \in Seq(Post), Return(i, q)
    PROVE  /\ inbox' \in [Instance -> Seq(Post)]
           /\ inbox'[i] = q \o inbox[i]
           /\ \A j \in Instance : j # i => inbox'[j] = inbox[j]
<1>1. inbox[i] \in Seq(Post)
  BY DEF InstanceType
<1>2. q \o inbox[i] \in Seq(Post)
  BY <1>1, ConcatProperties
<1> QED
  BY <1>2 DEF Return, InstanceType

LEMMA NextInstance == TypeInv /\ [Next]_vars => InstanceType'
<1> SUFFICES ASSUME TypeInv, [Next]_vars PROVE InstanceType'
  OBVIOUS
<1> USE DEF TypeInv
<1>1. CASE UNCHANGED instanceVars
  BY <1>1 DEF InstanceType, instanceVars
<1>2. ASSUME NEW p \in Post, Announce(p) PROVE InstanceType'
  <2>1. \A i \in Instance : /\ Append(inbox[i], p) \in Seq(Post)
                            /\ Append(arrived[i], p) \in Seq(Post)
    BY DEF InstanceType
  <2> QED
    BY <1>2, <2>1 DEF Announce, InstanceType
<1>3. ASSUME NEW i \in Instance, Start(i) \/ AutoDelete(i) \/ Resubscribe(i) \/ Crash(i)
      PROVE  InstanceType'
  <2>1. <<>> \in Seq(Post) /\ FreeTask \in TaskType /\ IsFiniteSet({})
    BY FS_EmptySet DEF TaskType
  <2>2. CASE Start(i)
    BY <2>2 DEF Start, InstanceType
  <2>3. CASE AutoDelete(i)
    BY <2>1, <2>3 DEF AutoDelete, LoseQueue, InstanceType
  <2>4. CASE Resubscribe(i)
    BY <2>4 DEF Resubscribe, queueVars, InstanceType
  <2>5. CASE Crash(i)
    BY <2>1, <2>5 DEF Crash, LoseQueue, InstanceType
  <2> QED
    BY <1>3, <2>2, <2>3, <2>4, <2>5
<1>4. ASSUME NEW i \in Instance, LoseChannel(i) PROVE InstanceType'
  <2> DEFINE l == [nr |-> faults', holds |-> Unacked(i)]
  <2>1. l \in LostChannel /\ Elements(Unacked(i)) \subseteq Post
    <3>1. Unacked(i) \in Held /\ Unacked(i) \in Seq(Post)
      BY UnackedType
    <3>2. faults' \in Nat
      BY <1>4, FaultCounted DEF LoseChannel
    <3> QED
      BY <3>1, <3>2 DEF LostChannel, Held, Elements
  <2>2. lost' = [lost EXCEPT ![i] = lost[i] \cup {l}] /\ IsFiniteSet(lost[i] \cup {l})
    BY <1>4, FS_AddElement DEF LoseChannel, InstanceType
  <2> HIDE DEF l
  <2>3. lost' \in [Instance -> SUBSET LostChannel] /\ \A j \in Instance : IsFiniteSet(lost'[j])
    BY <2>1, <2>2 DEF InstanceType
  <2>4. strays' \in [Instance -> SUBSET Post]
    BY <1>4, <2>1 DEF LoseChannel, InstanceType
  <2>5. Busy(i) => [task[i] EXCEPT !.own = FALSE] \in TaskType
    BY BusyTask DEF TaskType
  <2>6. task' \in [Instance -> TaskType]
    BY <1>4, <2>5 DEF LoseChannel, InstanceType
  <2> QED
    BY <1>4, <2>3, <2>4, <2>6 DEF LoseChannel, InstanceType
<1>5. ASSUME NEW i \in Instance, Misdeliver(i) PROVE InstanceType'
  <2>1. /\ inbox[i] # <<>> /\ inbox[i] \in Seq(Post)
        /\ Head(inbox[i]) \in Post /\ Tail(inbox[i]) \in Seq(Post)
    BY <1>5, HeadTailProperties DEF Misdeliver, InstanceType
  <2>2. PICK l \in lost[i] : lost' = [lost EXCEPT ![i] =
            (lost[i] \ {l}) \cup {[l EXCEPT !.holds = <<Head(inbox[i])>>]}]
    BY <1>5 DEF Misdeliver
  <2> DEFINE m == [l EXCEPT !.holds = <<Head(inbox[i])>>]
  <2>3. m \in LostChannel
    BY <2>1, LostType DEF LostChannel
  <2>4. IsFiniteSet((lost[i] \ {l}) \cup {m})
    BY FS_RemoveElement, FS_AddElement DEF InstanceType
  <2>5. lost' = [lost EXCEPT ![i] = (lost[i] \ {l}) \cup {m}]
    BY <2>2
  <2> HIDE DEF m
  <2>6. lost' \in [Instance -> SUBSET LostChannel] /\ \A j \in Instance : IsFiniteSet(lost'[j])
    BY <2>3, <2>4, <2>5 DEF InstanceType
  <2>7. inbox' \in [Instance -> Seq(Post)] /\ strays' \in [Instance -> SUBSET Post]
    BY <1>5, <2>1 DEF Misdeliver, InstanceType
  <2> QED
    BY <1>5, <2>6, <2>7 DEF Misdeliver, InstanceType
<1>6. ASSUME NEW i \in Instance, Notice(i) PROVE InstanceType'
  <2>1. PICK l \in lost[i] : lost' = [lost EXCEPT ![i] = lost[i] \ {l}] /\ Return(i, l.holds)
    BY <1>6 DEF Notice
  <2>2. IsFiniteSet(lost[i] \ {l})
    BY FS_RemoveElement DEF InstanceType
  <2>3. lost' \in [Instance -> SUBSET LostChannel] /\ \A j \in Instance : IsFiniteSet(lost'[j])
    BY <2>1, <2>2 DEF InstanceType
  <2>4. inbox' \in [Instance -> Seq(Post)]
    BY <2>1, LostType, ReturnType
  <2> QED
    BY <1>6, <2>3, <2>4 DEF Notice, InstanceType
<1>7. ASSUME NEW i \in Instance, Deliver(i) PROVE InstanceType'
  <2>1. Head(inbox[i]) \in Post /\ Tail(inbox[i]) \in Seq(Post)
    BY <1>7, HeadTailProperties DEF Deliver, InstanceType
  <2>2. NewTask(Head(inbox[i])) \in TaskType
    BY <2>1 DEF NewTask, TaskType
  <2> QED
    BY <1>7, <2>1, <2>2 DEF Deliver, InstanceType
<1>8. ASSUME NEW i \in Instance, ReadFollowers(i) PROVE InstanceType'
  <2>1. PICK f \in States :
            task' = [task EXCEPT ![i].at = "push",
                                 ![i].to = GetFollowers(f, Author[task[i].post])]
    BY <1>8 DEF ReadFollowers
  <2>2. GetFollowers(f, Author[task[i].post]) \in SUBSET User
    BY DEF GetFollowers
  <2>3. Busy(i)
    BY <1>8 DEF ReadFollowers, Busy
  <2>4. [task[i] EXCEPT !.at = "push", !.to = GetFollowers(f, Author[task[i].post])]
            \in TaskType
    BY <2>2, <2>3, BusyTask DEF TaskType
  <2>5. task' \in [Instance -> TaskType]
    BY <2>1, <2>4 DEF InstanceType
  <2> QED
    BY <1>8, <2>5 DEF ReadFollowers, queueVars, InstanceType
<1>9. ASSUME NEW i \in Instance, ReadFails(i) PROVE InstanceType'
  <2>1. inbox' \in [Instance -> Seq(Post)]
    BY <1>9, UnackedType, ReturnType DEF ReadFails
  <2> QED
    BY <1>9, <2>1 DEF ReadFails, EndProcess, InstanceType, TaskType
<1>10. ASSUME NEW i \in Instance, Notify(i) PROVE InstanceType'
  <2>1. Busy(i)
    BY <1>10 DEF Notify, Push, Busy
  <2>2. [task[i] EXCEPT !.at = "done"] \in TaskType
    BY <2>1, BusyTask DEF TaskType
  <2> QED
    BY <1>10, <2>2 DEF Notify, Push, queueVars, InstanceType
<1>11. ASSUME NEW i \in Instance, Ack(i) PROVE InstanceType'
  BY <1>11 DEF Ack, EndProcess, InstanceType, TaskType
<1>12. ASSUME \/ \E u \in User, w \in Writer : Befriend(u, w) \/ Unfriend(u, w)
              \/ Replicate
              \/ \E p \in Post : AnnouncementLost(p)
              \/ \E s \in Session : Handling(s)
       PROVE  UNCHANGED instanceVars
  BY <1>12 DEF Befriend, Unfriend, Replicate, AnnouncementLost, Handling, Connect, Send,
               Disconnect, Unsubscribe, EndHandle, Unwind
<1>13. CASE UNCHANGED vars
  BY <1>13, <1>1 DEF vars, instanceVars
<1> QED
  BY <1>1, <1>2, <1>3, <1>4, <1>5, <1>6, <1>7, <1>8, <1>9, <1>10, <1>11, <1>12, <1>13
     DEF Next, Lifecycle, Processing

-----------------------------------------------------------------------------
(* Steps that leave the sessions alone.                                      *)
LEMMA SessionFrame ==
    ASSUME TypeInv, Next,
           ~ \E i \in Instance : Crash(i) \/ Notify(i),
           ~ \E s \in Session : Handling(s)
    PROVE  UNCHANGED sessionVars
  BY DEF Next, Befriend, Unfriend, Replicate, Announce, AnnouncementLost, Lifecycle,
     Start,
         LoseChannel, Misdeliver, Notice, AutoDelete, Resubscribe, Processing, Deliver,
         ReadFollowers,
         ReadFails, EndProcess, Ack

LEMMA NextSession == TypeInv /\ [Next]_vars => SessionType'
<1> SUFFICES ASSUME TypeInv, [Next]_vars PROVE SessionType'
  OBVIOUS
<1> USE DEF TypeInv
<1>1. CASE UNCHANGED sessionVars
  BY <1>1 DEF SessionType, sessionVars
<1>2. ASSUME NEW i \in Instance, Crash(i) PROVE SessionType'
  BY <1>2 DEF Crash, SessionType
<1>3. ASSUME NEW i \in Instance, Notify(i) PROVE SessionType'
  <2>1. task[i].post \in Post
    BY <1>3, BusyTask DEF Notify, Push, Busy
  <2>2. \A s \in Session : Append(out[s], task[i].post) \in Seq(Post)
    BY <2>1 DEF SessionType
  <2> QED
    BY <1>3, <2>2 DEF Notify, Push, SessionType
<1>4. ASSUME NEW s \in Session, NEW i \in Instance, Connect(s, i) PROVE SessionType'
  BY <1>4 DEF Connect, SessionType
<1>5. ASSUME NEW s \in Session, Send(s) PROVE SessionType'
  <2>1. Head(out[s]) \in Post /\ Tail(out[s]) \in Seq(Post)
    BY <1>5, HeadTailProperties DEF Send, SessionType
  <2>2. Append(sent[s], Head(out[s])) \in Seq(Post)
    BY <2>1 DEF SessionType
  <2> QED
    BY <1>5, <2>1, <2>2 DEF Send, SessionType
<1>6. ASSUME NEW s \in Session, Disconnect(s) PROVE SessionType'
  BY <1>6 DEF Disconnect, SessionType
<1>7. ASSUME NEW s \in Session, Unsubscribe(s) \/ Unwind(s) PROVE SessionType'
  <2>1. entries' \in [Instance -> SUBSET Session]
    BY <1>7 DEF Unsubscribe, Unwind, SessionType
  <2>2. EndHandle(s) /\ <<>> \in Seq(Post)
    BY <1>7 DEF Unsubscribe, Unwind
  <2> QED
    BY <2>1, <2>2 DEF EndHandle, SessionType
<1>8. CASE UNCHANGED vars
  BY <1>8, <1>1 DEF vars, sessionVars
<1> QED
  BY <1>1, <1>2, <1>3, <1>4, <1>5, <1>6, <1>7, <1>8, SessionFrame DEF Handling

LEMMA NextRegistered == TypeInv /\ [Next]_vars => Registered'
<1> SUFFICES ASSUME TypeInv, [Next]_vars PROVE Registered'
  OBVIOUS
<1> USE DEF TypeInv
<1>1. CASE UNCHANGED sessionVars
  BY <1>1 DEF Registered, sessionVars
<1>2. ASSUME NEW i \in Instance, Crash(i) PROVE Registered'
  BY <1>2 DEF Crash, SessionType, Registered
<1>3. ASSUME NEW i \in Instance, Notify(i) PROVE Registered'
  <2>1. \A s \in Session : conn[s] \in {"new", "over"} => out'[s] = out[s]
    BY <1>3 DEF Notify, Push, Live, Registered, SessionType
  <2> QED
    BY <1>3, <2>1 DEF Notify, Push, Registered
<1>4. ASSUME NEW s \in Session, NEW i \in Instance, Connect(s, i) PROVE Registered'
  BY <1>4 DEF Connect, SessionType, Registered
<1>5. ASSUME NEW s \in Session, Send(s) PROVE Registered'
  BY <1>5 DEF Send, SessionType, Registered
<1>6. ASSUME NEW s \in Session, Disconnect(s) PROVE Registered'
  BY <1>6 DEF Disconnect, SessionType, Registered
<1>7. ASSUME NEW s \in Session, Unsubscribe(s) PROVE Registered'
  <2>1. \A i \in Instance :
            /\ entries'[i] \subseteq entries[i]
            /\ \A x \in entries[i] : x # s /\ conn[x] # "over" => x \in entries'[i]
    BY <1>7 DEF Unsubscribe, Remains, SessionType
  <2>2. /\ conn' = [conn EXCEPT ![s] = "over"] /\ out' = [out EXCEPT ![s] = <<>>]
        /\ conn[s] = "closing"
    BY <1>7 DEF Unsubscribe, EndHandle
  <2> QED
    BY <2>1, <2>2 DEF SessionType, Registered
<1>8. ASSUME NEW s \in Session, Unwind(s) PROVE Registered'
  BY <1>8 DEF Unwind, EndHandle, SessionType, Registered
<1>9. CASE UNCHANGED vars
  BY <1>9, <1>1 DEF vars, sessionVars
<1> QED
  BY <1>1, <1>2, <1>3, <1>4, <1>5, <1>6, <1>7, <1>8, <1>9, SessionFrame DEF Handling

LEMMA NextHistory == TypeInv /\ [Next]_vars => HistoryType'
<1> SUFFICES ASSUME TypeInv, [Next]_vars PROVE HistoryType'
  OBVIOUS
<1> USE DEF TypeInv
<1>1. CASE due' \subseteq due /\ mayHear' = mayHear
  BY <1>1 DEF HistoryType
<1>2. ASSUME NEW u \in User, NEW w \in Writer, Befriend(u, w) PROVE HistoryType'
  BY <1>2 DEF Befriend, Announced, HistoryType
<1>3. ASSUME NEW p \in Post, Announce(p) PROVE HistoryType'
  BY <1>3 DEF Announce, Due, HistoryType
<1>4. ASSUME NEW p \in Post, AnnouncementLost(p) PROVE HistoryType'
  BY <1>4 DEF AnnouncementLost, HistoryType
<1>5. ASSUME \/ \E u \in User, w \in Writer : Unfriend(u, w)
             \/ Replicate
             \/ \E i \in Instance : Lifecycle(i)
      PROVE  due' \subseteq due /\ mayHear' = mayHear
  BY <1>5 DEF Unfriend, Replicate, Lifecycle, Start, LoseChannel, Misdeliver, Notice,
     AutoDelete, Resubscribe,
              Crash, LoseQueue
<1>6. ASSUME \/ \E i \in Instance : Processing(i)
             \/ \E s \in Session : Handling(s)
      PROVE  due' \subseteq due /\ mayHear' = mayHear
  BY <1>6 DEF Processing, Deliver, ReadFollowers, ReadFails, EndProcess, Notify, Push,
     Ack,
              Handling, Connect, Send, Disconnect, Unsubscribe, EndHandle, Unwind
<1>7. CASE UNCHANGED vars
  BY <1>7, <1>1 DEF vars
<1> QED
  BY <1>1, <1>2, <1>3, <1>4, <1>5, <1>6, <1>7 DEF Next

LEMMA NextType == TypeInv /\ [Next]_vars => TypeInv'
  BY NextWal, NextCount, NextInstance, NextSession, NextRegistered,
     NextHistory DEF TypeInv

LEMMA TypeInvariant == Spec => []TypeInv
  BY InitType, NextType, PTL DEF Spec

(* WsTypeOK: every open session is registered, at one instance.              *)
THEOREM WsTypeCorrect == Spec => []WsTypeOK
<1>1. TypeInv => WsTypeOK
  BY DEF TypeInv, WalType, CountType, InstanceType, SessionType, Registered, HistoryType,
         Friendships, WsTypeOK
<1> QED
  BY <1>1, TypeInvariant, PTL

-----------------------------------------------------------------------------
(* The weak_ptrs whose session is gone.                                      *)
Ghosts == {s \in Session : conn[s] = "over" /\ \E i \in Instance : s \in entries[i]}

ExpiredInv == Cardinality(Ghosts) <= faults

LEMMA GhostsAreExpired ==
    ASSUME TypeInv
    PROVE  Ghosts = UNION {Expired(i) : i \in Instance}
<1>1. \A i \in Instance : Expired(i) = {s \in entries[i] : conn[s] = "over"}
  BY DEF Expired, Live
<1>2. \A i \in Instance : entries[i] \subseteq Session
  BY DEF TypeInv, SessionType
<1> QED
  BY <1>1, <1>2 DEF Ghosts

LEMMA GhostsFinite == IsFiniteSet(Ghosts) /\ Cardinality(Ghosts) \in Nat
<1>1. IsFiniteSet(Session) /\ Ghosts \in SUBSET Session
  BY WsAssumption DEF Ghosts
<1> QED
  BY <1>1, FS_Subset, FS_CardinalityType

(* A process that crashes takes its sessions_ with it, and nobody leaves but *)
(* by Unsubscribe or a cancelled Handle.                                     *)
LEMMA NoNewGhosts ==
    ASSUME TypeInv, Next, ~ \E s \in Session : Unwind(s)
    PROVE  Ghosts' \subseteq Ghosts
<1> USE DEF TypeInv
<1>1. CASE UNCHANGED sessionVars
  BY <1>1 DEF Ghosts, sessionVars
<1>2. ASSUME NEW i \in Instance, Crash(i) PROVE Ghosts' \subseteq Ghosts
  BY <1>2 DEF Crash, SessionType, Registered, Ghosts
<1>3. ASSUME NEW i \in Instance, Notify(i) PROVE Ghosts' \subseteq Ghosts
  BY <1>3 DEF Notify, Push, Ghosts
<1>4. ASSUME NEW s \in Session, NEW i \in Instance, Connect(s, i)
      PROVE  Ghosts' \subseteq Ghosts
  BY <1>4 DEF Connect, SessionType, Ghosts
<1>5. ASSUME NEW s \in Session, Send(s) \/ Disconnect(s) PROVE Ghosts' \subseteq Ghosts
  BY <1>5 DEF Send, Disconnect, SessionType, Ghosts
<1>6. ASSUME NEW s \in Session, Unsubscribe(s) PROVE Ghosts' \subseteq Ghosts
  <2>1. \A i \in Instance : entries'[i] \subseteq entries[i] \ {s}
    BY <1>6 DEF Unsubscribe, Remains, SessionType
  <2>2. conn' = [conn EXCEPT ![s] = "over"]
    BY <1>6 DEF Unsubscribe, EndHandle
  <2> QED
    BY <2>1, <2>2 DEF SessionType, Ghosts
<1> QED
  BY <1>1, <1>2, <1>3, <1>4, <1>5, <1>6, SessionFrame DEF Handling

LEMMA FaultsGrow ==
    ASSUME TypeInv, [Next]_vars
    PROVE  faults \in Nat /\ faults' \in Nat /\ faults' >= faults
<1>1. faults \in Nat /\ faults' \in Nat
  BY NextCount DEF TypeInv, CountType
<1>2. faults' = faults \/ Fault
  BY DEF Next, vars, Befriend, Unfriend, Replicate, Announce, AnnouncementLost, Lifecycle,
         Start, LoseChannel, Misdeliver, Notice, AutoDelete, Resubscribe, Crash,
         Processing, Deliver,
         ReadFollowers, ReadFails, EndProcess, Notify, Push, Ack, Handling, Connect, Send,
         Disconnect, Unsubscribe, EndHandle, Unwind
<1> QED
  BY <1>1, <1>2, FaultCounted

LEMMA NextExpired == TypeInv /\ ExpiredInv /\ [Next]_vars => ExpiredInv'
<1> SUFFICES ASSUME TypeInv, ExpiredInv, [Next]_vars PROVE ExpiredInv'
  OBVIOUS
<1>1. ASSUME NEW s \in Session, Unwind(s) PROVE ExpiredInv'
  <2>1. Ghosts' \subseteq Ghosts \cup {s}
    BY <1>1 DEF Unwind, EndHandle, TypeInv, SessionType, Ghosts
  <2>2. IsFiniteSet(Ghosts \cup {s}) /\ Cardinality(Ghosts \cup {s}) <= Cardinality(Ghosts) + 1
        /\ Cardinality(Ghosts \cup {s}) \in Nat
    BY GhostsFinite, FS_AddElement, FS_CardinalityType
  <2>3. Cardinality(Ghosts') <= Cardinality(Ghosts \cup {s}) /\ Cardinality(Ghosts') \in Nat
    BY <2>1, <2>2, FS_Subset, FS_CardinalityType
  <2>4. faults' = faults + 1 /\ faults \in Nat
    BY <1>1, FaultCounted DEF Unwind, TypeInv, CountType
  <2> QED
    BY <2>2, <2>3, <2>4, GhostsFinite DEF ExpiredInv
<1>2. CASE Ghosts' \subseteq Ghosts
  <2>1. Cardinality(Ghosts') <= Cardinality(Ghosts) /\ Cardinality(Ghosts') \in Nat
    BY <1>2, GhostsFinite, FS_Subset, FS_CardinalityType
  <2> QED
    BY <2>1, GhostsFinite, FaultsGrow DEF ExpiredInv
<1>3. CASE UNCHANGED vars
  BY <1>3, <1>2 DEF vars, Ghosts
<1> QED
  BY <1>1, <1>2, <1>3, NoNewGhosts

(* ExpiredOnlyByFaults: sessions_ keeps at most one expired weak_ptr for     *)
(* every fault, and no notification for any.                                 *)
THEOREM NoGhostsWithoutFaults == Spec => []ExpiredOnlyByFaults
<1>1. Init => ExpiredInv
  <2> SUFFICES ASSUME Init PROVE ExpiredInv
    OBVIOUS
  <2>1. Ghosts = {} /\ faults = 0
    BY DEF Init, Ghosts
  <2> QED
    BY <2>1, FS_EmptySet DEF ExpiredInv
<1>2. TypeInv /\ TypeInv' /\ ExpiredInv /\ [Next]_vars => ExpiredInv'
  BY NextExpired
<1>3. TypeInv /\ ExpiredInv => ExpiredOnlyByFaults
  <2> SUFFICES ASSUME TypeInv, ExpiredInv PROVE ExpiredOnlyByFaults
    OBVIOUS
  <2>1. Cardinality(UNION {Expired(i) : i \in Instance}) <= faults
    BY GhostsAreExpired DEF ExpiredInv
  <2>2. \A i \in Instance : \A s \in Expired(i) : out[s] = <<>>
    BY DEF Expired, Live, TypeInv, SessionType, Registered
  <2> QED
    BY <2>1, <2>2 DEF ExpiredOnlyByFaults
<1> QED
  BY <1>1, <1>2, <1>3, TypeInvariant, PTL DEF Spec

-----------------------------------------------------------------------------
(* The way of a notification that is due, step by step.  A handler that lost *)
(* its channel goes on too, but it is the broker that has its event.         *)
WithHandler(i, s, p) ==
    /\ Busy(i) /\ task[i].own /\ task[i].post = p
    /\ \/ task[i].at = "start"
       \/ task[i].at = "push" /\ Owner[s] \in task[i].to

AtBroker(i, p) == p \in Elements(inbox[i]) \/ \E l \in lost[i] : p \in Elements(l.holds)

AtInstance(s, p) ==
    \E i \in Instance : s \in entries[i] /\ (AtBroker(i, p) \/ WithHandler(i, s, p))

Reached(s, p) == p \in Elements(out[s]) \cup Elements(sent[s])

FollowsInAll(s, p) == \A f \in States : <<Owner[s], Author[p]>> \in f

DueOK(s, p) ==
    /\ conn[s] = "open"
    /\ \E i \in bound : s \in entries[i]
    /\ FollowsInAll(s, p)
    /\ AtInstance(s, p) \/ Reached(s, p)

DueInv == \A s \in Session, p \in Post : <<s, p>> \in due => DueOK(s, p)

-----------------------------------------------------------------------------
(* What the operations on a queue do to its elements.                        *)
LEMMA ElementsOfQueues ==
    ASSUME NEW q \in Seq(Post), NEW p \in Post
    PROVE  /\ Elements(Append(q, p)) = Elements(q) \cup {p}
           /\ Elements(<<p>> \o q) = Elements(q) \cup {p}
           /\ q # <<>> => Elements(q) = Elements(Tail(q)) \cup {Head(q)}
           /\ Elements(<<>>) = {}
<1>1. Elements(Append(q, p)) = Elements(q) \cup {p}
  <2>1. /\ DOMAIN Append(q, p) = 1 .. Len(q) + 1
        /\ \A k \in 1 .. Len(q) : Append(q, p)[k] = q[k]
        /\ Append(q, p)[Len(q) + 1] = p
        /\ Len(q) \in Nat
    OBVIOUS
  <2> QED
    BY <2>1 DEF Elements
<1>2. Elements(<<p>> \o q) = Elements(q) \cup {p}
  <2> DEFINE r == <<p>> \o q
  <2>1. <<p>> \in Seq(Post) /\ Len(<<p>>) = 1 /\ Len(q) \in Nat
    OBVIOUS
  <2>2. /\ r \in Seq(Post) /\ Len(r) = 1 + Len(q)
        /\ \A k \in 1 .. Len(q) + 1 : r[k] = IF k <= 1 THEN <<p>>[k] ELSE q[k - 1]
    BY <2>1, ConcatProperties
  <2>3. DOMAIN r = 1 .. Len(q) + 1 /\ r[1] = p
    BY <2>1, <2>2
  <2>4. \A k \in 1 .. Len(q) : r[k + 1] = q[k] /\ k + 1 \in DOMAIN r
    BY <2>1, <2>2, <2>3
  <2>5. \A k \in DOMAIN r : r[k] = p \/ \E j \in 1 .. Len(q) : r[k] = q[j]
    <3> TAKE k \in DOMAIN r
    <3>1. k = 1 \/ k - 1 \in 1 .. Len(q)
      BY <2>1, <2>3
    <3> QED
      BY <2>2, <2>3, <3>1
  <2> HIDE DEF r
  <2>6. Elements(q) \cup {p} \subseteq Elements(r)
    <3>1. DOMAIN q = 1 .. Len(q) /\ 1 \in DOMAIN r
      BY <2>1, <2>3
    <3> QED
      BY <2>3, <2>4, <3>1 DEF Elements
  <2>7. Elements(r) \subseteq Elements(q) \cup {p}
    BY <2>5 DEF Elements
  <2> QED
    BY <2>6, <2>7 DEF r
<1>3. ASSUME q # <<>> PROVE Elements(q) = Elements(Tail(q)) \cup {Head(q)}
  <2>1. /\ Len(q) \in Nat /\ Len(q) > 0 /\ Head(q) = q[1]
        /\ Tail(q) \in Seq(Post) /\ Len(Tail(q)) = Len(q) - 1
        /\ \A k \in 1 .. Len(Tail(q)) : Tail(q)[k] = q[k + 1]
    <3>1. Len(q) \in Nat /\ Len(q) > 0
      BY <1>3, EmptySeq
    <3>2. Head(q) = q[1]
      BY <1>3
    <3> QED
      BY <1>3, <3>1, <3>2, HeadTailProperties
  <2>2. DOMAIN Tail(q) = 1 .. Len(q) - 1
    BY <2>1
  <2>3. \A k \in 1 .. Len(q) : q[k] = Head(q) \/ \E j \in DOMAIN Tail(q) : q[k] = Tail(q)[j]
    <3> TAKE k \in 1 .. Len(q)
    <3>1. k = 1 \/ (k - 1 \in 1 .. Len(q) - 1 /\ (k - 1) + 1 = k)
      BY <2>1
    <3> QED
      BY <2>1, <2>2, <3>1
  <2>4. \A j \in DOMAIN Tail(q) : j + 1 \in 1 .. Len(q) /\ Tail(q)[j] = q[j + 1]
    BY <2>1, <2>2
  <2>5. 1 \in 1 .. Len(q)
    BY <2>1
  <2> QED
    BY <2>1, <2>3, <2>4, <2>5 DEF Elements
<1>4. Elements(<<>>) = {}
  BY DEF Elements
<1> QED
  BY <1>1, <1>2, <1>3, <1>4

LEMMA ElementsOfHeld ==
    ASSUME NEW h \in Held, NEW q \in Seq(Post)
    PROVE  Elements(h \o q) = Elements(h) \cup Elements(q)
<1>1. CASE h = <<>>
  <2>1. h \o q = q /\ Elements(h) = {}
    BY <1>1, ConcatEmptySeq DEF Elements
  <2> QED
    BY <2>1
<1>2. ASSUME NEW p \in Post, h = <<p>> PROVE Elements(h \o q) = Elements(h) \cup Elements(q)
  <2>1. Elements(h) = {p}
    BY <1>2 DEF Elements
  <2>2. Elements(<<p>> \o q) = Elements(q) \cup {p}
    BY ElementsOfQueues
  <2> QED
    BY <1>2, <2>1, <2>2
<1> QED
  BY <1>1, <1>2 DEF Held

(* The broker may move an event to a lost channel and back, and keeps it.    *)
LEMMA BrokerKeeps ==
    ASSUME TypeInv, NEW i \in Instance, Misdeliver(i) \/ Notice(i),
           NEW j \in Instance, NEW p, AtBroker(j, p)
    PROVE  AtBroker(j, p)'
<1> USE DEF TypeInv
<1>1. CASE j # i
  <2>1. inbox'[j] = inbox[j] /\ lost'[j] = lost[j]
    BY <1>1 DEF Misdeliver, Notice, Return, InstanceType
  <2> QED
    BY <2>1 DEF AtBroker
<1>2. CASE j = i /\ Misdeliver(i)
  <2>1. inbox[i] # <<>> /\ inbox[i] \in Seq(Post) /\ inbox'[i] = Tail(inbox[i])
    BY <1>2 DEF Misdeliver, InstanceType
  <2>2. PICK l \in lost[i] :
            /\ l.holds = <<>>
            /\ lost' = [lost EXCEPT ![i] =
                   (lost[i] \ {l}) \cup {[l EXCEPT !.holds = <<Head(inbox[i])>>]}]
    BY <1>2 DEF Misdeliver
  <2> DEFINE m == [l EXCEPT !.holds = <<Head(inbox[i])>>]
  <2>3. lost'[i] = (lost[i] \ {l}) \cup {m}
    BY <2>2 DEF InstanceType
  <2>4. Elements(m.holds) = {Head(inbox[i])}
    <3>1. m.holds = <<Head(inbox[i])>>
      BY LostType
    <3> QED
      BY <3>1 DEF Elements
  <2> HIDE DEF m
  <2>5. Elements(l.holds) = {}
    BY <2>2 DEF Elements
  <2>6. Elements(inbox[i]) = Elements(inbox'[i]) \cup {Head(inbox[i])}
    BY <2>1, HeadTailProperties, ElementsOfQueues
  <2> QED
    BY <1>2, <2>3, <2>4, <2>5, <2>6 DEF AtBroker
<1>3. CASE j = i /\ Notice(i)
  <2>1. PICK l \in lost[i] : lost' = [lost EXCEPT ![i] = lost[i] \ {l}] /\ Return(i, l.holds)
    BY <1>3 DEF Notice
  <2>2. lost'[i] = lost[i] \ {l} /\ inbox[i] \in Seq(Post)
    BY <2>1 DEF InstanceType
  <2>3. l.holds \in Held /\ inbox'[i] = l.holds \o inbox[i]
    BY <2>1, LostType, ReturnType
  <2>4. Elements(inbox'[i]) = Elements(l.holds) \cup Elements(inbox[i])
    BY <2>2, <2>3, ElementsOfHeld
  <2> QED
    BY <1>3, <2>2, <2>4 DEF AtBroker
<1> QED
  BY <1>1, <1>2, <1>3

(* Steps of a database, of friends and of announcements.                     *)
LEMMA DueWhenFriendsChange ==
    ASSUME TypeInv, DueInv,
           \/ \E u \in User, w \in Writer : Befriend(u, w) \/ Unfriend(u, w)
           \/ Replicate
    PROVE  DueInv'
<1> USE DEF TypeInv
<1> SUFFICES ASSUME NEW s \in Session, NEW p \in Post, <<s, p>> \in due'
             PROVE  DueOK(s, p)'
  BY DEF DueInv
<1>1. <<s, p>> \in due /\ FollowsInAll(s, p)'
  <2>1. ASSUME NEW u \in User, NEW w \in Writer, Befriend(u, w)
        PROVE  <<s, p>> \in due /\ FollowsInAll(s, p)'
    <3>1. States' \subseteq States \cup {db \cup {<<u, w>>}} /\ <<s, p>> \in due
      BY <2>1, MasterIsRead, WriteEffect DEF Befriend, Friendships
    <3> QED
      BY <3>1, MasterIsRead DEF DueInv, DueOK, FollowsInAll
  <2>2. ASSUME NEW u \in User, NEW w \in Writer, Unfriend(u, w)
        PROVE  <<s, p>> \in due /\ FollowsInAll(s, p)'
    <3>1. States' \subseteq States \cup {db \ {<<u, w>>}}
      BY <2>2, MasterIsRead, WriteEffect DEF Unfriend, Friendships
    <3>2. <<s, p>> \in due /\ (Owner[s] # u \/ Author[p] # w)
      BY <2>2 DEF Unfriend
    <3> QED
      BY <3>1, <3>2, MasterIsRead DEF DueInv, DueOK, FollowsInAll
  <2>3. CASE Replicate
    BY <2>3, ReplicateEffect DEF Replicate, DueInv, DueOK, FollowsInAll
  <2> QED
    BY <2>1, <2>2, <2>3
<1>2. UNCHANGED <<instanceVars, sessionVars>>
  BY DEF Befriend, Unfriend, Replicate
<1> QED
  BY <1>1, <1>2 DEF DueInv, DueOK, AtInstance, AtBroker, WithHandler, Busy, Reached,
     instanceVars,
                    sessionVars

LEMMA DueWhenAnnounced ==
    ASSUME TypeInv, DueInv, NEW q \in Post, Announce(q) \/ AnnouncementLost(q)
    PROVE  DueInv'
<1> USE DEF TypeInv
<1> SUFFICES ASSUME NEW s \in Session, NEW p \in Post, <<s, p>> \in due'
             PROVE  DueOK(s, p)'
  BY DEF DueInv
<1>1. CASE Announce(q)
  <2>1. /\ UNCHANGED <<wal, consumer, bound, lost, task, sessionVars>>
        /\ due' = due \cup (Due(q) \X {q})
        /\ \A i \in Instance :
               inbox'[i] = IF i \in bound THEN Append(inbox[i], q) ELSE inbox[i]
    BY <1>1 DEF Announce
  <2>2. \A i \in Instance : /\ Elements(inbox[i]) \subseteq Elements(inbox'[i])
                            /\ i \in bound => q \in Elements(inbox'[i])
    <3> TAKE i \in Instance
    <3>1. inbox[i] \in Seq(Post)
      BY DEF InstanceType
    <3>2. Elements(Append(inbox[i], q)) = Elements(inbox[i]) \cup {q}
      BY <3>1, ElementsOfQueues
    <3>3. inbox'[i] = IF i \in bound THEN Append(inbox[i], q) ELSE inbox[i]
      BY <2>1
    <3> QED
      BY <3>2, <3>3
  <2>3. CASE <<s, p>> \in due
    BY <2>1, <2>2, <2>3 DEF DueInv, DueOK, AtInstance, AtBroker, WithHandler, Busy,
       Reached,
                            FollowsInAll, States, sessionVars
  <2>4. CASE s \in Due(q) /\ p = q
    <3>1. conn[s] = "open" /\ FollowsInAll(s, p)
      BY <2>4 DEF Due, FollowsInAll
    <3>2. PICK i \in bound : s \in entries[i]
      BY <2>4 DEF Due
    <3>3. i \in Instance /\ p \in Elements(inbox'[i])
      BY <2>2, <2>4, <3>2 DEF InstanceType
    <3>4. AtInstance(s, p)'
      BY <2>1, <3>2, <3>3 DEF AtInstance, AtBroker, sessionVars
    <3> QED
      BY <2>1, <3>1, <3>2, <3>4 DEF DueOK, FollowsInAll, States, sessionVars
  <2> QED
    BY <2>1, <2>3, <2>4
<1>2. CASE AnnouncementLost(q)
  BY <1>2 DEF AnnouncementLost, DueInv, DueOK, AtInstance, AtBroker, WithHandler, Busy,
     Reached,
              FollowsInAll, States, instanceVars, sessionVars
<1> QED
  BY <1>1, <1>2

LEMMA DueWhenInstancesChange ==
    ASSUME TypeInv, DueInv, NEW i \in Instance, Lifecycle(i)
    PROVE  DueInv'
<1> USE DEF TypeInv
<1> SUFFICES ASSUME NEW s \in Session, NEW p \in Post, <<s, p>> \in due'
             PROVE  DueOK(s, p)'
  BY DEF DueInv
<1>1. <<s, p>> \in due /\ wal' = wal
  BY DEF Lifecycle, Start, LoseChannel, Misdeliver, Notice, AutoDelete, Resubscribe,
     Crash,
         LoseQueue
<1>2. DueOK(s, p)
  BY <1>1 DEF DueInv
<1>3. CASE Start(i) \/ Resubscribe(i)
  BY <1>1, <1>2, <1>3 DEF Start, Resubscribe, queueVars, DueOK, AtInstance, AtBroker,
                          WithHandler, Busy, Reached, FollowsInAll, States, sessionVars
<1>4. CASE LoseChannel(i)
  <2>1. /\ UNCHANGED <<bound, inbox, sessionVars>>
        /\ lost'[i] = lost[i] \cup {[nr |-> faults', holds |-> Unacked(i)]}
        /\ \A j \in Instance : j # i => task'[j] = task[j] /\ lost'[j] = lost[j]
    BY <1>4 DEF LoseChannel, InstanceType
  <2>2. \A j \in Instance : AtBroker(j, p) => AtBroker(j, p)'
    BY <2>1 DEF AtBroker
  <2>3. WithHandler(i, s, p) => AtBroker(i, p)'
    <3> SUFFICES ASSUME WithHandler(i, s, p) PROVE AtBroker(i, p)'
      OBVIOUS
    <3>1. Unacked(i) = <<p>>
      BY DEF WithHandler, Unacked
    <3>2. p \in Elements(Unacked(i))
      BY <3>1 DEF Elements
    <3> DEFINE l == [nr |-> faults', holds |-> Unacked(i)]
    <3>3. l \in lost'[i] /\ l.holds = Unacked(i)
      BY <2>1
    <3> HIDE DEF l
    <3> QED
      BY <3>2, <3>3 DEF AtBroker
  <2>4. ASSUME NEW j \in Instance, j # i, WithHandler(j, s, p) PROVE WithHandler(j, s, p)'
    BY <2>1, <2>4 DEF WithHandler, Busy
  <2>5. AtInstance(s, p) => AtInstance(s, p)'
    BY <2>1, <2>2, <2>3, <2>4 DEF AtInstance, sessionVars
  <2> QED
    BY <1>1, <1>2, <2>1, <2>5 DEF DueOK, Reached, FollowsInAll, States, sessionVars
<1>6. CASE Misdeliver(i) \/ Notice(i)
  <2>1. UNCHANGED <<bound, task, sessionVars>>
    BY <1>6 DEF Misdeliver, Notice
  <2>2. \A j \in Instance : AtBroker(j, p) => AtBroker(j, p)'
    BY <1>6, BrokerKeeps
  <2>3. AtInstance(s, p) => AtInstance(s, p)'
    BY <2>1, <2>2 DEF AtInstance, WithHandler, Busy, sessionVars
  <2> QED
    BY <1>1, <1>2, <2>1, <2>3 DEF DueOK, Reached, FollowsInAll, States, sessionVars
<1>5. CASE AutoDelete(i) \/ Crash(i)
  <2>1. /\ bound' = bound \ {i} /\ s \notin entries[i]
        /\ \A j \in Instance : j # i => /\ inbox'[j] = inbox[j] /\ lost'[j] = lost[j]
                                       /\ task'[j] = task[j] /\ entries'[j] = entries[j]
    BY <1>5 DEF AutoDelete, Crash, LoseQueue, InstanceType, SessionType, sessionVars
  <2>2. conn'[s] = conn[s] /\ out'[s] = out[s] /\ sent'[s] = sent[s]
    BY <1>5, <2>1 DEF AutoDelete, Crash, SessionType, sessionVars
  <2>3. AtInstance(s, p) => AtInstance(s, p)'
    BY <2>1 DEF AtInstance, AtBroker, WithHandler, Busy
  <2>4. \E j \in bound' : s \in entries'[j]
    BY <1>2, <2>1 DEF DueOK, InstanceType
  <2> QED
    BY <1>1, <1>2, <2>2, <2>3, <2>4 DEF DueOK, Reached, FollowsInAll, States
<1> QED
  BY <1>3, <1>4, <1>5, <1>6 DEF Lifecycle

LEMMA DueWhenProcessed ==
    ASSUME TypeInv, DueInv, NEW i \in Instance, Processing(i)
    PROVE  DueInv'
<1> USE DEF TypeInv
<1> SUFFICES ASSUME NEW s \in Session, NEW p \in Post, <<s, p>> \in due'
             PROVE  DueOK(s, p)'
  BY DEF DueInv
<1>1. <<s, p>> \in due /\ UNCHANGED <<wal, bound, lost, entries, conn, sent>>
  BY DEF Processing, Deliver, ReadFollowers, ReadFails, EndProcess, Notify, Push, Ack,
         queueVars, sessionVars
<1>2. DueOK(s, p)
  BY <1>1 DEF DueInv
<1>3. SUFFICES ASSUME AtInstance(s, p) \/ Reached(s, p)
               PROVE  AtInstance(s, p)' \/ Reached(s, p)'
  BY <1>1, <1>2 DEF DueOK, FollowsInAll, States
<1>4. Elements(out[s]) \subseteq Elements(out'[s])
  <2>1. CASE Notify(i)
    <3>1. task[i].post \in Post /\ out[s] \in Seq(Post)
      BY <2>1, BusyTask DEF Notify, Push, Busy, SessionType
    <3>2. out'[s] = out[s] \/ out'[s] = Append(out[s], task[i].post)
      BY <2>1 DEF Notify, Push
    <3>3. Elements(Append(out[s], task[i].post)) = Elements(out[s]) \cup {task[i].post}
      BY <3>1, ElementsOfQueues
    <3> QED
      BY <3>2, <3>3
  <2>2. CASE ~ Notify(i)
    BY <2>2 DEF Processing, Deliver, ReadFollowers, ReadFails, EndProcess, Ack,
       sessionVars
  <2> QED
    BY <2>1, <2>2
<1>5. CASE Reached(s, p)
  BY <1>1, <1>4, <1>5 DEF Reached
<1>6. ASSUME NEW j \in Instance, s \in entries[j],
             AtBroker(j, p) \/ WithHandler(j, s, p)
      PROVE  AtInstance(s, p)' \/ Reached(s, p)'
  <2>1. CASE j # i
    <3>1. task'[j] = task[j] /\ inbox'[j] = inbox[j]
      BY <2>1 DEF Processing, Deliver, ReadFollowers, ReadFails, EndProcess, Notify, Push,
                  Ack, Return, queueVars, InstanceType
    <3> QED
      BY <1>1, <1>6, <3>1 DEF AtInstance, AtBroker, WithHandler, Busy
  <2>2. CASE j = i /\ Deliver(i)
    <3>1. /\ ~ Busy(i) /\ inbox[i] # <<>> /\ inbox[i] \in Seq(Post)
          /\ task'[i] = NewTask(Head(inbox[i])) /\ inbox'[i] = Tail(inbox[i])
      BY <2>2 DEF Deliver, InstanceType
    <3>2. p = Head(inbox[i]) \/ AtBroker(i, p)'
      <4>1. Elements(inbox[i]) = Elements(Tail(inbox[i])) \cup {Head(inbox[i])}
        BY <3>1, HeadTailProperties, ElementsOfQueues
      <4>2. AtBroker(i, p)
        BY <1>6, <2>2, <3>1 DEF WithHandler
      <4> QED
        BY <1>1, <3>1, <4>1, <4>2 DEF AtBroker
    <3>3. p = Head(inbox[i]) => WithHandler(i, s, p)'
      BY <3>1 DEF WithHandler, Busy, NewTask
    <3> QED
      BY <1>1, <1>6, <2>2, <3>2, <3>3 DEF AtInstance
  <2>3. CASE j = i /\ ReadFollowers(i)
    <3>1. PICK f \in States :
              task' = [task EXCEPT ![i].at = "push",
                                   ![i].to = GetFollowers(f, Author[task[i].post])]
      BY <2>3 DEF ReadFollowers
    <3>2. inbox' = inbox /\ Busy(i) /\ task[i].at = "start"
      BY <2>3 DEF ReadFollowers, queueVars, Busy
    <3>3. Owner[s] \in GetFollowers(f, Author[p])
      BY <1>2, WsAssumption DEF DueOK, FollowsInAll, GetFollowers
    <3>4. WithHandler(i, s, p) => WithHandler(i, s, p)'
      <4> SUFFICES ASSUME WithHandler(i, s, p) PROVE WithHandler(i, s, p)'
        OBVIOUS
      <4>1. task'[i] = [task[i] EXCEPT !.at = "push", !.to = GetFollowers(f, Author[p])]
        BY <3>1 DEF WithHandler, InstanceType
      <4>2. task'[i].at = "push" /\ task'[i].own /\ task'[i].post = p
            /\ task'[i].to = GetFollowers(f, Author[p])
        BY <3>2, <4>1, BusyTask DEF WithHandler
      <4> QED
        BY <3>3, <4>2 DEF WithHandler, Busy
    <3> QED
      BY <1>1, <1>6, <2>3, <3>2, <3>4 DEF AtInstance, AtBroker
  <2>4. CASE j = i /\ ReadFails(i)
    <3>1. /\ Unacked(i) \in Held /\ inbox[i] \in Seq(Post)
          /\ inbox'[i] = Unacked(i) \o inbox[i]
      BY <2>4, UnackedType, ReturnType DEF ReadFails, InstanceType
    <3>2. Elements(inbox'[i]) = Elements(Unacked(i)) \cup Elements(inbox[i])
      BY <3>1, ElementsOfHeld
    <3>3. ASSUME WithHandler(i, s, p) PROVE p \in Elements(Unacked(i))
      <4>1. Unacked(i) = <<p>>
        BY <3>3 DEF WithHandler, Unacked
      <4> QED
        BY <4>1 DEF Elements
    <3> QED
      BY <1>1, <1>6, <2>4, <3>2, <3>3 DEF AtInstance, AtBroker
  <2>5. CASE j = i /\ Notify(i)
    <3>1. /\ inbox' = inbox /\ task[i].at = "push" /\ out[s] \in Seq(Post)
          /\ Owner[s] \in task[i].to => out'[s] = Append(out[s], task[i].post)
      BY <1>2, <1>6, <2>5 DEF Notify, Push, queueVars, Live, DueOK, SessionType
    <3>2. WithHandler(i, s, p) => p \in Elements(out'[s])
      <4>1. Elements(Append(out[s], p)) = Elements(out[s]) \cup {p}
        BY <3>1, ElementsOfQueues
      <4> QED
        BY <3>1, <4>1 DEF WithHandler
    <3> QED
      BY <1>1, <1>6, <2>5, <3>1, <3>2 DEF AtInstance, AtBroker, Reached
  <2>6. CASE j = i /\ Ack(i)
    BY <1>1, <1>6, <2>6 DEF Ack, WithHandler, AtInstance, AtBroker
  <2> QED
    BY <2>1, <2>2, <2>3, <2>4, <2>5, <2>6 DEF Processing
<1> QED
  BY <1>3, <1>5, <1>6 DEF AtInstance

LEMMA DueWhenSessionsChange ==
    ASSUME TypeInv, DueInv, NEW x \in Session, Handling(x)
    PROVE  DueInv'
<1> USE DEF TypeInv
<1> SUFFICES ASSUME NEW s \in Session, NEW p \in Post, <<s, p>> \in due'
             PROVE  DueOK(s, p)'
  BY DEF DueInv
<1>1. <<s, p>> \in due /\ UNCHANGED <<wal, instanceVars>>
  BY DEF Handling, Connect, Send, Disconnect, Unsubscribe, EndHandle, Unwind
<1>2. DueOK(s, p) /\ conn[s] = "open"
  BY <1>1 DEF DueInv, DueOK
<1>3. conn'[s] = "open" /\ \A i \in Instance : s \in entries[i] => s \in entries'[i]
  <2>1. CASE \E i \in Instance : Connect(x, i)
    BY <1>2, <2>1 DEF Connect, SessionType
  <2>2. CASE Send(x) \/ Disconnect(x) \/ Unwind(x)
    <3>1. Disconnect(x) \/ Unwind(x) => x # s
      BY DEF Disconnect, Unwind
    <3> QED
      BY <1>2, <2>2, <3>1 DEF Send, Disconnect, Unwind, EndHandle, SessionType
  <2>3. CASE Unsubscribe(x)
    <3>1. x # s
      BY <1>2, <2>3 DEF Unsubscribe
    <3> QED
      BY <1>2, <2>3, <3>1 DEF Unsubscribe, Remains, EndHandle, SessionType
  <2> QED
    BY <2>1, <2>2, <2>3 DEF Handling
<1>4. Reached(s, p) => Reached(s, p)'
  <2>1. CASE Send(x) /\ x = s
    <3>1. /\ out[s] \in Seq(Post) /\ out[s] # <<>> /\ sent[s] \in Seq(Post)
          /\ sent'[s] = Append(sent[s], Head(out[s])) /\ out'[s] = Tail(out[s])
      BY <2>1 DEF Send, SessionType
    <3>2. Elements(out[s]) = Elements(Tail(out[s])) \cup {Head(out[s])}
      BY <3>1, ElementsOfQueues
    <3>3. Head(out[s]) \in Post
      BY <3>1, HeadTailProperties
    <3>4. Elements(Append(sent[s], Head(out[s]))) = Elements(sent[s]) \cup {Head(out[s])}
      BY <3>1, <3>3, ElementsOfQueues
    <3> QED
      BY <3>1, <3>2, <3>4 DEF Reached
  <2>2. CASE ~ (Send(x) /\ x = s)
    <3>1. Disconnect(x) \/ UNCHANGED <<out, sent>> \/ x # s
      BY <1>2, <2>2 DEF Handling, Connect, Unsubscribe, Unwind
    <3>2. out'[s] = out[s] /\ sent'[s] = sent[s]
      BY <2>2, <3>1 DEF Handling, Connect, Send, Disconnect, Unsubscribe, EndHandle,
         Unwind,
                        SessionType
    <3> QED
      BY <3>2 DEF Reached
  <2> QED
    BY <2>1, <2>2
<1>5. AtInstance(s, p) => AtInstance(s, p)'
  BY <1>1, <1>3 DEF AtInstance, AtBroker, WithHandler, Busy, instanceVars
<1>6. \E i \in bound' : s \in entries'[i]
  BY <1>1, <1>2, <1>3 DEF DueOK, InstanceType, instanceVars
<1> QED
  BY <1>1, <1>2, <1>3, <1>4, <1>5, <1>6 DEF DueOK, FollowsInAll, States

LEMMA NextDue == TypeInv /\ DueInv /\ [Next]_vars => DueInv'
<1> SUFFICES ASSUME TypeInv, DueInv, [Next]_vars PROVE DueInv'
  OBVIOUS
<1>1. CASE UNCHANGED vars
  BY <1>1 DEF vars, DueInv, DueOK, AtInstance, AtBroker, WithHandler, Busy, Reached,
     FollowsInAll, States
<1>2. CASE Next
  BY <1>2, DueWhenFriendsChange, DueWhenAnnounced, DueWhenInstancesChange,
     DueWhenProcessed,
     DueWhenSessionsChange DEF Next
<1> QED
  BY <1>1, <1>2

(* DueIsOnItsWay: whatever other instances, sessions, replicas and channels  *)
(* that recover do, a notification that is due is in its instance's queue,   *)
(* with the handler, or in the session.                                      *)
THEOREM NothingDueIsLost == Spec => []DueIsOnItsWay
<1>1. Init => DueInv
  BY DEF Init, DueInv
<1>2. TypeInv /\ DueInv /\ [Next]_vars => DueInv'
  BY NextDue
<1>3. TypeInv /\ DueInv => DueIsOnItsWay
  <2> SUFFICES ASSUME TypeInv, DueInv, NEW d \in due PROVE OnItsWay(d[1], d[2])
    BY DEF DueIsOnItsWay
  <2>1. d[1] \in Session /\ d[2] \in Post /\ <<d[1], d[2]>> \in due
    BY DEF TypeInv, HistoryType
  <2>2. AtInstance(d[1], d[2]) \/ Reached(d[1], d[2])
    BY <2>1 DEF DueInv, DueOK
  <2> QED
    BY <2>2 DEF OnItsWay, AtInstance, AtBroker, WithHandler, Reached
<1> QED
  BY <1>1, <1>2, <1>3, TypeInvariant, PTL DEF Spec

=============================================================================
