-------------------------- MODULE DialogSagaProofs --------------------------
(***************************************************************************)
(* The safety of DialogSaga: no unread message leaves the counts unseen.   *)
(***************************************************************************)
EXTENDS DialogSaga, UnreadCountersProofs, FunctionTheorems

(* Every step of the whole is a step of the counter-service and its broker, *)
(* or leaves them alone.                                                    *)
LEMMA StepRefines == [SagaNext]_sagaVars => [Next]_vars
<1> SUFFICES ASSUME [SagaNext]_sagaVars PROVE [Next]_vars
  OBVIOUS
<1>1. CASE Sending
  BY <1>1 DEF Sending, Store, StoreThrows, PublishEvent, PublishThrows, counterVars, Next
<1>2. CASE Listing
  BY <1>2 DEF Listing, BeginList, BeginListResetFails, LateReset, ShowList, FailList,
     counterVars, Next
<1>3. CASE Counting
  BY <1>3 DEF Counting, Next
<1>4. CASE UNCHANGED sagaVars
  BY <1>4 DEF sagaVars, counterVars
<1> QED BY <1>1, <1>2, <1>3, <1>4 DEF SagaNext

(* So what is proved of every behaviour of UnreadCounters holds here too.   *)
LEMMA SagaCounts == SagaSpec => Spec
<1>1. SagaInit => Init
  BY DEF SagaInit
<1> QED BY <1>1, StepRefines, PTL DEF SagaSpec, Spec

-----------------------------------------------------------------------------
LEMMA SagaTypeInit == SagaInit => SagaTypeOK
<1> SUFFICES ASSUME SagaInit PROVE SagaTypeOK
  OBVIOUS
<1>1. /\ lists \in [User -> [User -> 0 .. MaxLists]]
      /\ late \in [User -> [User -> 0 .. chatFaults]]
  BY SagaBoundAssumption DEF SagaInit, NoCalls
<1> QED BY <1>1, SagaBoundAssumption DEF SagaInit, SagaTypeOK

LEMMA SagaTypeStep == SagaTypeOK /\ [SagaNext]_sagaVars => SagaTypeOK'
<1> SUFFICES ASSUME SagaTypeOK, [SagaNext]_sagaVars PROVE SagaTypeOK'
  OBVIOUS
<1> USE SagaBoundAssumption DEF SagaTypeOK, ChatFault
<1>1. ASSUME NEW m \in Msg, Store(m) PROVE SagaTypeOK'
  BY <1>1 DEF Store
<1>2. ASSUME NEW m \in Msg, StoreThrows(m) PROVE SagaTypeOK'
  BY <1>2 DEF StoreThrows
<1>3. ASSUME NEW m \in Msg, PublishEvent(m) PROVE SagaTypeOK'
  BY <1>3 DEF PublishEvent
<1>4. ASSUME NEW m \in Msg, PublishThrows(m) PROVE SagaTypeOK'
  BY <1>4 DEF PublishThrows
<1>5. ASSUME NEW u \in User, NEW p \in User, BeginList(u, p) PROVE SagaTypeOK'
  BY <1>5 DEF BeginList
<1>6. ASSUME NEW u \in User, NEW p \in User, <<u, p>> \in Opened,
             BeginListResetFails(u, p)
      PROVE  SagaTypeOK'
  <2>1. /\ chatFaults \in Nat /\ chatFaults' = chatFaults + 1
        /\ chatFaults' \in 0 .. MaxChatFaults
    BY <1>6 DEF BeginListResetFails
  <2>2. \A v, q \in User :
           late[v][q] + 1 \in 0 .. chatFaults' /\ late[v][q] \in 0 .. chatFaults'
    BY <2>1
  <2>3. late' \in [User -> [User -> 0 .. chatFaults']]
    <3>1. CASE UNCHANGED late
      BY <2>2, <3>1
    <3>2. CASE late' = [late EXCEPT ![u][p] = @ + 1]
      BY <2>2, <3>2
    <3> QED
      BY <1>6, <3>1, <3>2 DEF BeginListResetFails
  <2>4. lists' \in [User -> [User -> 0 .. MaxLists]]
    <3>1. lists[u][p] + 1 \in 0 .. MaxLists
      BY <1>6 DEF BeginListResetFails
    <3> QED
      BY <1>6, <3>1 DEF BeginListResetFails
  <2>5. missed' \subseteq Opened
    BY <1>6 DEF BeginListResetFails
  <2> QED
    BY <1>6, <2>1, <2>3, <2>4, <2>5 DEF BeginListResetFails
<1>7. ASSUME NEW u \in User, NEW p \in User, LateReset(u, p) PROVE SagaTypeOK'
  BY <1>7 DEF LateReset, ClearedUnseen, Between
<1>8. ASSUME NEW u \in User, NEW p \in User, ShowList(u, p) PROVE SagaTypeOK'
  BY <1>8 DEF ShowList, Thread
<1>9. ASSUME NEW u \in User, NEW p \in User, FailList(u, p) PROVE SagaTypeOK'
  BY <1>9 DEF FailList, ClearedUnseen, Between
<1>10. CASE Counting
  BY <1>10 DEF Counting, NoCalls
<1>11. CASE UNCHANGED chatVars
  BY <1>11 DEF chatVars
<1> QED
  BY <1>1, <1>2, <1>3, <1>4, <1>5, <1>6, <1>7, <1>8, <1>9, <1>10, <1>11
  DEF SagaNext, Sending, Listing, sagaVars

(* The chat-service's variables are well typed in every reachable state.    *)
THEOREM SagaTypeCorrect == SagaSpec => []SagaTypeOK
BY SagaTypeInit, SagaTypeStep, PTL DEF SagaSpec

-----------------------------------------------------------------------------
(* A message is stored before its event is published, and an acknowledged   *)
(* one has been published.                                                  *)
StoredFirst ==
    /\ published \subseteq stored
    /\ \A m \in Msg : send[m] = "stored" => m \in stored
    /\ \A m \in Msg : send[m] = "ok" => m \in published

(* A count that was cleared was cleared for a listing that has shown the    *)
(* message, has failed, or is under way, or by a late reset.                *)
ClearedWasShown ==
    \A m \in cleared : m \in seen \cup blind \/ lists[To[m]][From[m]] > 0

SagaInv ==
    /\ CountingInv /\ CountedWasPublished
    /\ SagaTypeOK /\ StoredFirst /\ ClearedWasShown

LEMMA StoredStep ==
    SagaTypeOK /\ StoredFirst /\ [SagaNext]_sagaVars => StoredFirst'
<1> SUFFICES ASSUME SagaTypeOK, StoredFirst, [SagaNext]_sagaVars PROVE StoredFirst'
  OBVIOUS
<1> USE DEF SagaTypeOK, StoredFirst
<1>1. ASSUME NEW m \in Msg, Store(m) PROVE StoredFirst'
  BY <1>1 DEF Store, counterVars, vars
<1>2. ASSUME NEW m \in Msg, StoreThrows(m) PROVE StoredFirst'
  BY <1>2 DEF StoreThrows, counterVars, vars
<1>3. ASSUME NEW m \in Msg, PublishEvent(m) PROVE StoredFirst'
  BY <1>3 DEF PublishEvent, Publish
<1>4. ASSUME NEW m \in Msg, PublishThrows(m) PROVE StoredFirst'
  BY <1>4 DEF PublishThrows, Publish, counterVars, vars
<1>5. ASSUME NEW u \in User, NEW p \in User,
             \/ BeginList(u, p) \/ BeginListResetFails(u, p) \/ LateReset(u, p)
             \/ ShowList(u, p) \/ FailList(u, p)
      PROVE  UNCHANGED <<stored, send, published>>
  BY <1>5 DEF BeginList, BeginListResetFails, LateReset, ShowList, FailList,
     ResetDialogCounter, ResetDialog, brokerVars, counterVars, vars
<1>6. ASSUME Counting PROVE UNCHANGED <<stored, send, published>>
  BY <1>6 DEF Counting, Internal, StartService, LoseChannel, Resubscribe, Crash, Handler,
     Deliver, IncrTotal, IncrTotalThrows, IncrTotalAgain, IncrDialog, IncrDialogThrows,
     IncrDialogAgain, GiveBack, Ack, Reconciler, StartPass, ReconcileUser,
     ReconcileUserFails, AbortPass, brokerVars
<1>7. CASE UNCHANGED <<stored, send, published>>
  BY <1>7
<1> QED
  BY <1>1, <1>2, <1>3, <1>4, <1>5, <1>6, <1>7
  DEF SagaNext, Sending, Listing, sagaVars, chatVars, counterVars, vars

LEMMA ClearedStep ==
    /\ TypeOK /\ SagaTypeOK /\ CountedWasPublished /\ StoredFirst /\ ClearedWasShown
    /\ [SagaNext]_sagaVars
    => ClearedWasShown'
<1> SUFFICES ASSUME TypeOK, SagaTypeOK, CountedWasPublished, StoredFirst,
                    ClearedWasShown, [SagaNext]_sagaVars
             PROVE  ClearedWasShown'
  OBVIOUS
<1> USE MsgAssumption DEF SagaTypeOK, ClearedWasShown
<1>1. CASE UNCHANGED <<cleared, seen, blind, lists>>
  BY <1>1
<1>2. ASSUME Sending PROVE UNCHANGED <<cleared, seen, blind, lists>>
  BY <1>2 DEF Sending, Store, StoreThrows, PublishEvent, PublishThrows, Publish,
     redisVars, counterVars, vars
<1>3. ASSUME Counting PROVE UNCHANGED <<cleared, seen, blind, lists>>
  BY <1>3 DEF Counting, Internal, StartService, LoseChannel, Resubscribe, Crash, Handler,
     Deliver, IncrTotal, IncrTotalThrows, IncrTotalAgain, IncrDialog, IncrDialogThrows,
     IncrDialogAgain, Ack, Reconciler, StartPass, ReconcileUser, ReconcileUserFails,
     AbortPass, redisVars
<1>4. ASSUME NEW u \in User, NEW p \in User, BeginList(u, p)
      PROVE  ClearedWasShown'
  <2>1. cleared' \subseteq cleared \cup Between(u, p)
    BY <1>4 DEF BeginList, ResetDialogCounter, ResetDialog, counterVars, vars
  <2>2. /\ lists'[u][p] > 0
        /\ \A v, q \in User : lists[v][q] > 0 => lists'[v][q] > 0
    BY <1>4, SagaBoundAssumption DEF BeginList
  <2>3. UNCHANGED <<seen, blind>> /\ cleared \subseteq Msg
    BY <1>4 DEF BeginList, TypeOK
  <2>4. \A m \in cleared' : m \in cleared \/ lists'[To[m]][From[m]] > 0
    BY <2>1, <2>2 DEF Between
  <2>5. \A m \in cleared : To[m] \in User /\ From[m] \in User
    BY <2>3
  <2> QED BY <2>2, <2>3, <2>4, <2>5
<1>5. ASSUME NEW u \in User, NEW p \in User, BeginListResetFails(u, p)
      PROVE  ClearedWasShown'
  <2>1. \A v, q \in User : lists[v][q] > 0 => lists'[v][q] > 0
    BY <1>5, SagaBoundAssumption DEF BeginListResetFails
  <2>2. UNCHANGED <<cleared, seen, blind>> /\ cleared \subseteq Msg
    BY <1>5 DEF BeginListResetFails, counterVars, vars, TypeOK
  <2>3. \A m \in cleared : To[m] \in User /\ From[m] \in User
    BY <2>2
  <2> QED BY <2>1, <2>2, <2>3
<1>6. ASSUME NEW u \in User, NEW p \in User, LateReset(u, p)
      PROVE  ClearedWasShown'
  <2>1. cleared' \subseteq cleared \cup Between(u, p)
    BY <1>6 DEF LateReset, ResetDialogCounter, ResetDialog, vars
  <2>2. blind' = blind \cup ((cleared' \cap Between(u, p)) \ seen)
    BY <1>6 DEF LateReset, ClearedUnseen, Between
  <2>3. UNCHANGED <<seen, lists>>
    BY <1>6 DEF LateReset
  <2> QED BY <2>1, <2>2, <2>3
<1>7. ASSUME NEW u \in User, NEW p \in User, ShowList(u, p)
      PROVE  ClearedWasShown'
  <2>1. \A m \in cleared : m \in Msg /\ m \in stored
    BY DEF TypeOK, CountedWasPublished, StoredFirst
  <2>2. \A m \in cleared : To[m] = u /\ From[m] = p => m \in seen'
    BY <1>7, <2>1 DEF ShowList, Thread
  <2>3. \A v, q \in User : v # u \/ q # p => lists'[v][q] = lists[v][q]
    BY <1>7 DEF ShowList
  <2>4. UNCHANGED <<cleared, blind>> /\ seen \subseteq seen'
    BY <1>7 DEF ShowList, counterVars, vars
  <2>5. ASSUME NEW m \in cleared
        PROVE  m \in seen' \cup blind' \/ lists'[To[m]][From[m]] > 0
    <3>1. m \in seen \cup blind \/ lists[To[m]][From[m]] > 0
      OBVIOUS
    <3>2. To[m] \in User /\ From[m] \in User
      BY <2>1
    <3>3. CASE To[m] = u /\ From[m] = p
      BY <2>2, <2>4, <3>3
    <3>4. CASE To[m] # u \/ From[m] # p
      BY <2>3, <2>4, <3>1, <3>2, <3>4
    <3> QED BY <3>3, <3>4
  <2> QED BY <2>4, <2>5
<1>8. ASSUME NEW u \in User, NEW p \in User, FailList(u, p)
      PROVE  ClearedWasShown'
  <2>1. \A m \in cleared : m \in Msg
    BY DEF TypeOK
  <2>2. \A m \in cleared : To[m] = u /\ From[m] = p => m \in seen \cup blind'
    BY <1>8, <2>1 DEF FailList, ClearedUnseen, Between
  <2>3. \A v, q \in User : v # u \/ q # p => lists'[v][q] = lists[v][q]
    BY <1>8 DEF FailList
  <2>4. UNCHANGED <<cleared, seen>> /\ blind \subseteq blind'
    BY <1>8 DEF FailList, counterVars, vars
  <2>5. ASSUME NEW m \in cleared
        PROVE  m \in seen' \cup blind' \/ lists'[To[m]][From[m]] > 0
    <3>1. m \in seen \cup blind \/ lists[To[m]][From[m]] > 0
      OBVIOUS
    <3>2. To[m] \in User /\ From[m] \in User
      BY <2>1
    <3>3. CASE To[m] = u /\ From[m] = p
      BY <2>2, <2>4, <3>3
    <3>4. CASE To[m] # u \/ From[m] # p
      BY <2>3, <2>4, <3>1, <3>2, <3>4
    <3> QED BY <3>3, <3>4
  <2> QED BY <2>4, <2>5
<1>9. CASE UNCHANGED sagaVars
  BY <1>1, <1>9 DEF sagaVars, chatVars, counterVars, vars
<1> QED
  BY <1>1, <1>2, <1>3, <1>4, <1>5, <1>6, <1>7, <1>8, <1>9 DEF SagaNext, Listing

LEMMA SagaInvariant == SagaSpec => []SagaInv
<1>1. SagaInit => SagaInv
  <2> SUFFICES ASSUME SagaInit PROVE SagaInv
    OBVIOUS
  <2>1. Init
    BY DEF SagaInit
  <2>2. CountedWasPublished
    BY <2>1 DEF Init, Running, CountedWasPublished
  <2>3. StoredFirst /\ ClearedWasShown
    BY <2>1 DEF SagaInit, Init, StoredFirst, ClearedWasShown
  <2> QED BY <2>1, <2>2, <2>3, CountingInit, SagaTypeInit DEF SagaInv
<1>2. SagaInv /\ [SagaNext]_sagaVars => SagaInv'
  BY StepRefines, TypeStep, CustodyStep, LostStep, CoversStep, PublishedStep,
     SagaTypeStep, StoredStep, ClearedStep
  DEF SagaInv, CountingInv
<1> QED BY <1>1, <1>2, PTL DEF SagaSpec

(* Whatever is or was counted can be read: no badge counts a message that   *)
(* no listing returns.                                                      *)
THEOREM NeverPhantom == SagaSpec => []NoPhantomUnread
<1>1. SagaInv => NoPhantomUnread
  BY DEF SagaInv, CountingInv, Custody, CountedWasPublished, StoredFirst, NoPhantomUnread
<1> QED BY <1>1, SagaInvariant, PTL

(* A message that was sent and neither shown nor swallowed, by a failed     *)
(* listing or a late reset, is in the unread count or on its way there.     *)
LEMMA UnreadInCustody == SagaInv => UnreadIsCounted
<1> SUFFICES ASSUME SagaInv, NEW u \in User, NEW p \in User, NEW m \in Unread(u, p)
             PROVE  m \in queue \cup unacked \cup counted
  BY DEF UnreadIsCounted
<1>1. /\ m \in Msg /\ To[m] = u /\ From[m] = p
      /\ m \in Sent /\ m \notin dropped \cup seen \cup blind /\ lists[u][p] = 0
  BY DEF Unread, Between
<1>2. m \in Routed
  BY <1>1 DEF SagaInv, StoredFirst, Sent, Routed
<1>3. m \notin cleared
  BY <1>1 DEF SagaInv, ClearedWasShown
<1> QED BY <1>2, <1>3 DEF SagaInv, CountingInv, NothingLost

(* No message drops out of the count unseen, however sends, listings,       *)
(* redeliveries and crashes interleave.                                     *)
THEOREM UnreadNeverLost == SagaSpec => []UnreadIsCounted
BY UnreadInCustody, SagaInvariant, PTL

-----------------------------------------------------------------------------
(* What is unread and not pending is among the counted events of its dialog. *)
LEMMA UnreadAmongCounted ==
    ASSUME SagaInv, NEW u \in User, NEW p \in User
    PROVE  Unread(u, p) \ Pending(u, p) \subseteq counted \cap Between(u, p)
<1>1. Unread(u, p) \subseteq Between(u, p)
  BY DEF Unread
<1>2. Unread(u, p) \subseteq queue \cup unacked \cup counted
  BY UnreadInCustody DEF UnreadIsCounted
<1> QED BY <1>1, <1>2 DEF Pending

(* DialogHoldsUnread: a dialog's count is at least the number of its unread *)
(* messages whose events are not pending.                                   *)
THEOREM DialogsHoldTheUnread == SagaSpec => []DialogHoldsUnread
<1>1. SagaInv => DialogHoldsUnread
  <2> SUFFICES ASSUME SagaInv, NEW u \in User, NEW p \in User
               PROVE  Cardinality(Unread(u, p) \ Pending(u, p)) <= dialog[u][p]
    BY DEF DialogHoldsUnread
  <2> DEFINE N == Unread(u, p) \ Pending(u, p)
             C == counted \cap Between(u, p)
  <2>1. N \subseteq C
    BY UnreadAmongCounted
  <2>2. IsFiniteSet(C) /\ Cardinality(C) \in Nat
    BY MsgSubsets DEF Between
  <2>3. IsFiniteSet(N) /\ Cardinality(N) \in Nat
    BY MsgSubsets DEF Unread, Between
  <2>4. Cardinality(C) <= dialog[u][p] /\ dialog[u][p] \in Nat
    BY DEF SagaInv, CountingInv, DialogCovers, TypeOK
  <2> HIDE DEF N, C
  <2>5. Cardinality(N) <= Cardinality(C)
    BY <2>1, <2>2, FS_Subset
  <2>6. Cardinality(N) <= dialog[u][p]
    BY <2>2, <2>3, <2>4, <2>5
  <2> QED BY <2>6 DEF N
<1> QED BY <1>1, SagaInvariant, PTL

(* A sum is at least the number of things of which each field counts its     *)
(* own: each of them has a unit of its field to itself.                      *)
LEMMA SumCoversParts ==
    ASSUME NEW f \in [User -> Nat], NEW S, S \subseteq Msg,
           \A p \in User : Cardinality({m \in S : From[m] = p}) <= f[p]
    PROVE  Cardinality(S) <= Sum(f)
<1> DEFINE of(p) == {m \in S : From[m] = p}
           number == [p \in User |-> CHOOSE b : b \in Injection(of(p), 1 .. f[p])]
           unit == [m \in S |-> <<From[m], number[From[m]][m]>>]
<1>1. ASSUME NEW p \in User PROVE number[p] \in Injection(of(p), 1 .. f[p])
  <2>1. IsFiniteSet(of(p)) /\ Cardinality(of(p)) \in Nat
    BY MsgSubsets
  <2>2. Cardinality(of(p)) <= f[p] /\ f[p] \in Nat
    OBVIOUS
  <2> HIDE DEF of
  <2>3. PICK c : c \in Bijection(1 .. Cardinality(of(p)), of(p))
    BY <2>1, FS_CardinalityType DEF ExistsBijection
  <2>4. PICK b : b \in Bijection(of(p), 1 .. Cardinality(of(p)))
    BY <2>3, Fun_BijInverse
  <2>5. b \in Injection(of(p), 1 .. f[p])
    BY <2>1, <2>2, <2>4 DEF Bijection, Injection
  <2> QED BY <2>5
<1>2. \A m \in S : From[m] \in User /\ m \in of(From[m])
  BY MsgAssumption
<1>3. unit \in Injection(S, Units(f))
  <2> HIDE DEF number
  <2>1. ASSUME NEW m \in S
        PROVE  /\ From[m] \in User
               /\ unit[m] = <<From[m], number[From[m]][m]>>
               /\ number[From[m]][m] \in 1 .. f[From[m]]
    <3>1. From[m] \in User /\ m \in of(From[m])
      BY <1>2
    <3>2. number[From[m]] \in [of(From[m]) -> 1 .. f[From[m]]]
      BY <1>1, <3>1 DEF Injection
    <3> QED BY <3>1, <3>2
  <2>2. unit \in [S -> Units(f)]
    <3>1. DOMAIN f = User
      OBVIOUS
    <3>2. \A m \in S : unit[m] \in Units(f)
      BY <2>1, <3>1 DEF Units
    <3> QED BY <3>2
  <2>3. ASSUME NEW a \in S, NEW b \in S, unit[a] = unit[b] PROVE a = b
    <3>1. From[a] = From[b] /\ number[From[a]][a] = number[From[a]][b]
      BY <2>1, <2>3
    <3>2. a \in of(From[a]) /\ b \in of(From[a]) /\ From[a] \in User
      BY <1>2, <3>1
    <3>3. IsInjective(number[From[a]]) /\ DOMAIN number[From[a]] = of(From[a])
      BY <1>1, <3>2 DEF Injection
    <3> QED BY <3>1, <3>2, <3>3 DEF IsInjective
  <2> HIDE DEF unit
  <2> QED BY <2>2, <2>3 DEF Injection, IsInjective
<1> HIDE DEF unit
<1> QED BY <1>3, UnitsFinite, FS_Injection DEF Sum

(* BadgeHoldsUnread: the badge of a reader is at least the number of his     *)
(* unread messages, of all partners together, but for the pending ones and   *)
(* for what overlapping reconciliations and repeated commands took from it.  *)
THEOREM BadgesHoldTheUnread == SagaSpec => []BadgeHoldsUnread
<1>1. SagaInv /\ UnderstatedByAtMostOverlap => BadgeHoldsUnread
  <2> SUFFICES ASSUME SagaInv, UnderstatedByAtMostOverlap, NEW u \in User
               PROVE  Cardinality(UnreadOfAll(u)) <= total[u] + Prefetch + faults
    BY DEF BadgeHoldsUnread, UnreadCount, GetUnreadCount
  <2> DEFINE S == counted \cap {m \in Msg : To[m] = u}
  <2>1. UnreadOfAll(u) \subseteq S
    <3>1. ASSUME NEW p \in User PROVE Unread(u, p) \ Pending(u, p) \subseteq S
      BY UnreadAmongCounted DEF Between
    <3> QED BY <3>1 DEF UnreadOfAll
  <2>2. Cardinality(S) <= SumDialogs(u)
    <3>1. dialog[u] \in [User -> Nat]
      BY DEF SagaInv, CountingInv, TypeOK
    <3>2. ASSUME NEW p \in User PROVE {m \in S : From[m] = p} = counted \cap Between(u, p)
      BY DEF Between
    <3>3. \A p \in User : Cardinality({m \in S : From[m] = p}) <= dialog[u][p]
      BY <3>2 DEF SagaInv, CountingInv, DialogCovers
    <3>4. S \subseteq Msg
      OBVIOUS
    <3> HIDE DEF S
    <3> QED BY <3>1, <3>3, <3>4, SumCoversParts DEF SumDialogs
  <2>3. IsFiniteSet(S) /\ Cardinality(S) \in Nat
    BY MsgSubsets
  <2>4. Cardinality(UnreadOfAll(u)) \in Nat /\ Cardinality(Half(u)) \in Nat
    <3>1. UnreadOfAll(u) \subseteq Msg /\ Half(u) \subseteq Msg
      BY <2>1 DEF Half
    <3> QED BY <3>1, MsgSubsets
  <2>5. SumDialogs(u) \in Nat /\ total[u] \in Nat /\ faults \in Nat /\ Prefetch \in Nat
    <3>1. dialog[u] \in [User -> Nat]
      BY DEF SagaInv, CountingInv, TypeOK
    <3> QED BY <3>1, SumType, BoundAssumption DEF SagaInv, CountingInv, TypeOK, SumDialogs
  <2>6. SumDialogs(u) + Cardinality(Half(u)) <= total[u] + Prefetch + faults
    BY DEF UnderstatedByAtMostOverlap, GetUnreadCount
  <2> HIDE DEF S
  <2>7. Cardinality(UnreadOfAll(u)) <= Cardinality(S)
    BY <2>1, <2>3, FS_Subset
  <2> QED BY <2>2, <2>3, <2>4, <2>5, <2>6, <2>7
<1>2. Spec => []UnderstatedByAtMostOverlap
  BY NeverFarBelow
<1> QED BY <1>1, <1>2, SagaInvariant, SagaCounts, PTL

=============================================================================
