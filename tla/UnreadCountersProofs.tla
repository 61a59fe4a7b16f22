------------------------ MODULE UnreadCountersProofs ------------------------
(***************************************************************************)
(* Safety of UnreadCounters for any set of users and messages, any         *)
(* prefetch_count and any number of faults.                                *)
(***************************************************************************)
EXTENDS UnreadCounters, FiniteSetTheorems, TLAPS

USE DEF Fault, Returned

-----------------------------------------------------------------------------
(* Who holds an event.  A handler's event is unacked while the channel is   *)
(* there; without a channel nothing is unacked, and without a process no    *)
(* handler runs.  A published event is held by the queue or by a handler,   *)
(* never by both.                                                           *)
Custody ==
    /\ consumer = "up" => Running \subseteq unacked
    /\ consumer # "up" => unacked = {}
    /\ consumer = "off" => Running = {}
    /\ queue \cap unacked = {}
    /\ queue \cup unacked \subseteq published

(* An event that was routed is somewhere; one whose handler has ended was   *)
(* counted.                                                                 *)
NothingLost ==
    /\ Routed \subseteq queue \cup unacked \cup counted \cup cleared
    /\ unacked \ Running \subseteq counted \cup cleared

(* A dialog's count covers the events counted since its last reset.         *)
DialogCovers ==
    \A u, p \in User : Cardinality(counted \cap Between(u, p)) <= dialog[u][p]

CountingInv == TypeOK /\ Custody /\ NothingLost /\ DialogCovers

-----------------------------------------------------------------------------
(* The messages are finitely many, and so is any set of them.               *)
LEMMA MsgSubsets ==
    ASSUME NEW S, S \subseteq Msg
    PROVE  IsFiniteSet(S) /\ Cardinality(S) \in Nat
BY MsgAssumption, FS_Subset, FS_CardinalityType

(* The type invariant is inductive by itself, up to the type of a sum.      *)
LEMMA UnitsFinite ==
    ASSUME NEW f \in [User -> Nat]
    PROVE  IsFiniteSet(Units(f))
<1> DEFINE block(x) == {x} \X (1 .. f[x])
           B == {block(x) : x \in User}
           g == [x \in User |-> block(x)]
<1>1. IsFiniteSet(B)
  <2>1. g \in Surjection(User, B)
    BY DEF Surjection
  <2> QED BY <2>1, UserAssumption, FS_Surjection
<1>2. ASSUME NEW x \in User PROVE IsFiniteSet(block(x))
  <2>1. IsFiniteSet({x})
    BY FS_Singleton
  <2>2. IsFiniteSet(1 .. f[x])
    <3>1. f[x] \in Int
      BY <1>2
    <3> QED BY <3>1, FS_Interval
  <2> QED BY <2>1, <2>2, FS_Product
<1>3. \A T \in B : IsFiniteSet(T)
  BY <1>2
<1>4. IsFiniteSet(UNION B)
  BY <1>1, <1>3, FS_UNION
<1> QED BY <1>4 DEF Units

LEMMA SumType ==
    ASSUME NEW f \in [User -> Nat]
    PROVE  Sum(f) \in Nat
BY UnitsFinite, FS_CardinalityType DEF Sum

LEMMA TypeInit == Init => TypeOK
<1> SUFFICES ASSUME Init PROVE TypeOK
  OBVIOUS
<1>1. faults \in 0 .. MaxFaults
  BY BoundAssumption DEF Init
<1>2. /\ task \in [Msg -> {"none", "start", "half"}]
      /\ total \in [User -> Nat]
      /\ dialog \in [User -> [User -> Nat]]
  BY DEF Init
<1>3. /\ declared \in BOOLEAN /\ consumer \in {"off", "up", "cut"}
      /\ queue \subseteq Msg /\ unacked \subseteq Msg /\ toVisit \subseteq User
      /\ published \subseteq Msg /\ dropped \subseteq published
      /\ counted \subseteq Msg /\ cleared \subseteq Msg
  BY DEF Init
<1> QED BY <1>1, <1>2, <1>3 DEF TypeOK

LEMMA TypeStep == TypeOK /\ [Next]_vars => TypeOK'
<1> SUFFICES ASSUME TypeOK, [Next]_vars PROVE TypeOK'
  OBVIOUS
<1> USE MsgAssumption, BoundAssumption DEF TypeOK
<1>1. ASSUME NEW m \in Msg, Publish(m) PROVE TypeOK'
  BY <1>1 DEF Publish, handlerVars, redisVars
<1>2. CASE StartService
  BY <1>2 DEF StartService, redisVars
<1>3. CASE LoseChannel
  BY <1>3 DEF LoseChannel, redisVars
<1>4. CASE Resubscribe
  BY <1>4 DEF Resubscribe, brokerVars, redisVars
<1>5. CASE Crash
  BY <1>5 DEF Crash, redisVars
<1>6. ASSUME NEW m \in Msg, Deliver(m) PROVE TypeOK'
  BY <1>6 DEF Deliver, redisVars
<1>7. ASSUME NEW m \in Msg, IncrTotal(m) PROVE TypeOK'
  BY <1>7 DEF IncrTotal, AddToTotal, brokerVars
<1>8. ASSUME NEW m \in Msg, IncrTotalThrows(m) PROVE TypeOK'
  BY <1>8 DEF IncrTotalThrows, AddToTotal, GiveBack
<1>9. ASSUME NEW m \in Msg, IncrDialog(m) PROVE TypeOK'
  BY <1>9 DEF IncrDialog, AddToDialog, brokerVars
<1>10. ASSUME NEW m \in Msg, IncrDialogThrows(m) PROVE TypeOK'
  <2>1. /\ dialog' \in [User -> [User -> Nat]]
        /\ counted' \subseteq Msg
    <3>1. CASE AddToDialog(m)
      BY <3>1 DEF AddToDialog
    <3>2. CASE UNCHANGED <<dialog, counted>>
      BY <3>2
    <3> QED BY <1>10, <3>1, <3>2 DEF IncrDialogThrows
  <2> QED BY <1>10, <2>1 DEF IncrDialogThrows, GiveBack
<1>11. ASSUME NEW m \in Msg, Ack(m) PROVE TypeOK'
  BY <1>11 DEF Ack, brokerVars, redisVars
<1>12. ASSUME NEW u \in User, NEW p \in User, ResetDialog(u, p) PROVE TypeOK'
  BY <1>12 DEF ResetDialog, Subtract, brokerVars, handlerVars, Between
<1>13. CASE StartPass
  BY <1>13 DEF StartPass, brokerVars, handlerVars, redisVars
<1>14. ASSUME NEW u \in User, ReconcileUser(u) PROVE TypeOK'
  <2>1. SumDialogs(u) \in Nat
    BY SumType DEF SumDialogs
  <2> QED BY <1>14, <2>1 DEF ReconcileUser, ComputedTotal, brokerVars, handlerVars
<1>15. ASSUME NEW u \in User, ReconcileUserFails(u) PROVE TypeOK'
  BY <1>15 DEF ReconcileUserFails, brokerVars, handlerVars, redisVars
<1>16. CASE AbortPass
  BY <1>16 DEF AbortPass, brokerVars, handlerVars, redisVars
<1>17. CASE UNCHANGED vars
  BY <1>17 DEF vars
<1>18. ASSUME NEW m \in Msg, IncrTotalAgain(m) PROVE TypeOK'
  BY <1>18 DEF IncrTotalAgain, AddToTotal, brokerVars, handlerVars
<1>19. ASSUME NEW m \in Msg, IncrDialogAgain(m) PROVE TypeOK'
  BY <1>19 DEF IncrDialogAgain, AddToDialog, brokerVars, handlerVars
<1> QED
  BY <1>1, <1>2, <1>3, <1>4, <1>5, <1>6, <1>7, <1>8, <1>9, <1>10, <1>11,
     <1>12, <1>13, <1>14, <1>15, <1>16, <1>17, <1>18, <1>19
  DEF Next, ResetDialogCounter, Internal, Handler, Reconciler

(* Every reachable state is well typed; in particular no badge is negative. *)
THEOREM TypeCorrect == Spec => []TypeOK
BY TypeInit, TypeStep, PTL DEF Spec

-----------------------------------------------------------------------------
(* Only events that were published are held by the queue or by a handler,  *)
(* so an event enters the queue once.                                       *)
LEMMA CustodyStep == TypeOK /\ Custody /\ [Next]_vars => Custody'
<1> SUFFICES ASSUME TypeOK, Custody, [Next]_vars PROVE Custody'
  OBVIOUS
<1> USE DEF TypeOK, Custody, Running
<1>1. ASSUME NEW m \in Msg, Publish(m) PROVE Custody'
  BY <1>1 DEF Publish, handlerVars
<1>2. CASE StartService
  BY <1>2 DEF StartService
<1>3. CASE LoseChannel
  BY <1>3 DEF LoseChannel
<1>4. CASE Resubscribe
  BY <1>4 DEF Resubscribe, brokerVars
<1>5. CASE Crash
  BY <1>5 DEF Crash
<1>6. ASSUME NEW m \in Msg, Deliver(m) PROVE Custody'
  BY <1>6 DEF Deliver
<1>7. ASSUME NEW m \in Msg, IncrTotal(m) PROVE Custody'
  BY <1>7 DEF IncrTotal, brokerVars
<1>8. ASSUME NEW m \in Msg, GiveBack(m), task[m] # "none" PROVE Custody'
  BY <1>8 DEF GiveBack
<1>9. ASSUME NEW m \in Msg, IncrDialog(m) PROVE Custody'
  BY <1>9 DEF IncrDialog, brokerVars
<1>10. ASSUME NEW m \in Msg, Ack(m) PROVE Custody'
  BY <1>10 DEF Ack, brokerVars
<1>11. CASE UNCHANGED <<queue, unacked, task, consumer, published>>
  BY <1>11
<1>12. ASSUME NEW m \in Msg, IncrTotalThrows(m) \/ IncrDialogThrows(m)
       PROVE  Custody'
  BY <1>8, <1>12 DEF IncrTotalThrows, IncrDialogThrows
<1>13. ASSUME \/ \E u, p \in User : ResetDialog(u, p)
              \/ \E m \in Msg : IncrTotalAgain(m) \/ IncrDialogAgain(m)
              \/ Reconciler
              \/ UNCHANGED vars
       PROVE  UNCHANGED <<queue, unacked, task, consumer, published>>
  BY <1>13 DEF ResetDialog, IncrTotalAgain, IncrDialogAgain, Reconciler, StartPass,
     ReconcileUser,
     ReconcileUserFails, AbortPass, brokerVars, handlerVars, vars
<1> QED
  BY <1>1, <1>2, <1>3, <1>4, <1>5, <1>6, <1>7, <1>9, <1>10, <1>11, <1>12, <1>13
  DEF Next, ResetDialogCounter, Internal, Handler

(* Only what was published is with a handler, was counted or was cleared.   *)
CountedWasPublished == Running \cup counted \cup cleared \subseteq published

LEMMA PublishedStep ==
    TypeOK /\ Custody /\ CountedWasPublished /\ [Next]_vars => CountedWasPublished'
<1> SUFFICES ASSUME TypeOK, Custody, CountedWasPublished, [Next]_vars
             PROVE  CountedWasPublished'
  OBVIOUS
<1> USE DEF TypeOK, Custody, CountedWasPublished, Running
<1>1. ASSUME NEW m \in Msg, Publish(m) PROVE CountedWasPublished'
  BY <1>1 DEF Publish, handlerVars, redisVars
<1>2. ASSUME NEW m \in Msg, Deliver(m) \/ Ack(m) PROVE CountedWasPublished'
  BY <1>2 DEF Deliver, Ack, brokerVars, redisVars
<1>3. ASSUME NEW m \in Msg, IncrTotal(m) \/ IncrTotalThrows(m)
      PROVE  CountedWasPublished'
  BY <1>3 DEF IncrTotal, IncrTotalThrows, GiveBack, brokerVars
<1>4. ASSUME NEW m \in Msg, IncrDialog(m) \/ IncrDialogAgain(m)
      PROVE  CountedWasPublished'
  BY <1>4 DEF IncrDialog, IncrDialogAgain, AddToDialog, brokerVars, handlerVars
<1>5. ASSUME NEW m \in Msg, IncrDialogThrows(m) PROVE CountedWasPublished'
  <2>1. counted' \subseteq counted \cup {m}
    BY <1>5 DEF IncrDialogThrows, AddToDialog
  <2> QED BY <1>5, <2>1 DEF IncrDialogThrows, GiveBack
<1>6. ASSUME NEW u \in User, NEW p \in User, ResetDialog(u, p)
      PROVE  CountedWasPublished'
  BY <1>6 DEF ResetDialog, brokerVars, handlerVars
<1>7. CASE Crash
  BY <1>7 DEF Crash, redisVars
<1>8. CASE UNCHANGED <<task, counted, cleared, published>>
  BY <1>8
<1>9. ASSUME \/ StartService \/ LoseChannel \/ Resubscribe
             \/ \E m \in Msg : IncrTotalAgain(m)
             \/ Reconciler \/ UNCHANGED vars
      PROVE  UNCHANGED <<task, counted, cleared, published>>
  BY <1>9 DEF IncrTotalAgain, StartService, LoseChannel, Resubscribe, Reconciler,
     StartPass,
     ReconcileUser, ReconcileUserFails, AbortPass, brokerVars, handlerVars, redisVars,
     vars
<1> QED
  BY <1>1, <1>2, <1>3, <1>4, <1>5, <1>6, <1>7, <1>8, <1>9
  DEF Next, ResetDialogCounter, Internal, Handler

(* What a handler's second HINCRBY does to the counts.                      *)
LEMMA AddToDialogCovers ==
    ASSUME TypeOK, DialogCovers, NEW m \in Msg, AddToDialog(m)
    PROVE  DialogCovers'
<1> SUFFICES ASSUME NEW u \in User, NEW p \in User
             PROVE  Cardinality(counted' \cap Between(u, p)) <= dialog'[u][p]
  BY DEF DialogCovers, Between
<1> DEFINE C == counted \cap Between(u, p)
<1>1. IsFiniteSet(C) /\ Cardinality(C) \in Nat /\ Cardinality(C) <= dialog[u][p]
  BY MsgSubsets DEF TypeOK, DialogCovers
<1>2. CASE u = To[m] /\ p = From[m]
  <2>1. counted' \cap Between(u, p) = C \cup {m}
    BY <1>2 DEF AddToDialog, Between
  <2>2. Cardinality(C \cup {m}) <= Cardinality(C) + 1
    BY <1>1, FS_AddElement
  <2>3. dialog'[u][p] = dialog[u][p] + 1
    BY <1>2 DEF AddToDialog, TypeOK
  <2>4. dialog[u][p] \in Nat
    BY DEF TypeOK
  <2>5. Cardinality(C \cup {m}) \in Nat
    BY <1>1, FS_AddElement, FS_CardinalityType
  <2> HIDE DEF C
  <2> QED BY <1>1, <2>1, <2>2, <2>3, <2>4, <2>5
<1>3. CASE ~(u = To[m] /\ p = From[m])
  <2>1. counted' \cap Between(u, p) = C
    BY <1>3 DEF AddToDialog, Between
  <2>2. dialog'[u][p] = dialog[u][p]
    BY <1>3, MsgAssumption DEF AddToDialog, TypeOK
  <2> QED BY <1>1, <2>1, <2>2
<1> QED BY <1>2, <1>3

LEMMA CoversStep == TypeOK /\ DialogCovers /\ [Next]_vars => DialogCovers'
<1> SUFFICES ASSUME TypeOK, DialogCovers, [Next]_vars PROVE DialogCovers'
  OBVIOUS
<1>1. CASE UNCHANGED <<dialog, counted>>
  BY <1>1 DEF DialogCovers, Between
<1>2. ASSUME NEW m \in Msg, IncrDialog(m) \/ IncrDialogThrows(m) \/ IncrDialogAgain(m)
      PROVE  DialogCovers'
  BY <1>1, <1>2, AddToDialogCovers DEF IncrDialog, IncrDialogThrows, IncrDialogAgain
<1>3. ASSUME NEW u \in User, NEW p \in User, ResetDialog(u, p)
      PROVE  DialogCovers'
  <2> SUFFICES ASSUME NEW v \in User, NEW q \in User
               PROVE  Cardinality(counted' \cap Between(v, q)) <= dialog'[v][q]
    BY DEF DialogCovers, Between
  <2>1. CASE v = u /\ q = p
    <3>1. counted' \cap Between(v, q) = {}
      BY <1>3, <2>1 DEF ResetDialog
    <3>2. dialog'[v][q] = 0
      BY <1>3, <2>1 DEF ResetDialog, TypeOK
    <3> QED BY <3>1, <3>2, FS_EmptySet
  <2>2. CASE ~(v = u /\ q = p)
    <3>1. counted' \cap Between(v, q) = counted \cap Between(v, q)
      BY <1>3, <2>2 DEF ResetDialog, Between
    <3>2. dialog'[v][q] = dialog[v][q]
      BY <1>3, <2>2 DEF ResetDialog, TypeOK
    <3> QED BY <3>1, <3>2 DEF DialogCovers
  <2> QED BY <2>1, <2>2
<1>4. ASSUME NEW m \in Msg,
             \/ Publish(m) \/ Deliver(m) \/ IncrTotal(m)
             \/ IncrTotalThrows(m) \/ IncrTotalAgain(m) \/ Ack(m)
      PROVE  UNCHANGED <<dialog, counted>>
  BY <1>4 DEF Publish, Deliver, IncrTotal, IncrTotalThrows, IncrTotalAgain, Ack, redisVars
<1>5. ASSUME \/ StartService \/ LoseChannel \/ Resubscribe \/ Crash
             \/ Reconciler \/ UNCHANGED vars
      PROVE  UNCHANGED <<dialog, counted>>
  BY <1>5 DEF StartService, LoseChannel, Resubscribe, Crash, Reconciler,
     StartPass, ReconcileUser, ReconcileUserFails, AbortPass, redisVars, vars
<1> QED
  BY <1>1, <1>2, <1>3, <1>4, <1>5 DEF Next, ResetDialogCounter, Internal, Handler

LEMMA LostStep ==
    TypeOK /\ Custody /\ NothingLost /\ [Next]_vars => NothingLost'
<1> SUFFICES ASSUME TypeOK, Custody, NothingLost, [Next]_vars PROVE NothingLost'
  OBVIOUS
<1> USE DEF TypeOK, Custody, NothingLost, Running, Routed
<1>1. ASSUME NEW m \in Msg, Publish(m) PROVE NothingLost'
  BY <1>1 DEF Publish, handlerVars, redisVars
<1>2. CASE StartService
  BY <1>2 DEF StartService, redisVars
<1>3. CASE LoseChannel
  BY <1>3 DEF LoseChannel, redisVars
<1>4. CASE Resubscribe
  BY <1>4 DEF Resubscribe, brokerVars, redisVars
<1>5. CASE Crash
  BY <1>5 DEF Crash, redisVars
<1>6. ASSUME NEW m \in Msg, Deliver(m) PROVE NothingLost'
  BY <1>6 DEF Deliver, redisVars
<1>7. ASSUME NEW m \in Msg, IncrTotal(m) PROVE NothingLost'
  BY <1>7 DEF IncrTotal, brokerVars
<1>8. ASSUME NEW m \in Msg, GiveBack(m), counted \subseteq counted', UNCHANGED cleared
      PROVE  NothingLost'
  BY <1>8 DEF GiveBack
<1>9. ASSUME NEW m \in Msg, IncrTotalThrows(m) \/ IncrDialogThrows(m)
      PROVE  NothingLost'
  BY <1>8, <1>9 DEF IncrTotalThrows, IncrDialogThrows, AddToDialog
<1>10. ASSUME NEW m \in Msg, IncrDialog(m) \/ IncrDialogAgain(m) PROVE NothingLost'
  BY <1>10 DEF IncrDialog, IncrDialogAgain, AddToDialog, brokerVars, handlerVars
<1>11. ASSUME NEW m \in Msg, Ack(m) PROVE NothingLost'
  BY <1>11 DEF Ack, brokerVars, redisVars
<1>12. ASSUME NEW u \in User, NEW p \in User, ResetDialog(u, p)
       PROVE  NothingLost'
  BY <1>12 DEF ResetDialog, brokerVars, handlerVars
<1>13. CASE UNCHANGED <<queue, unacked, task, published, dropped, counted, cleared>>
  BY <1>13
<1>14. ASSUME (\E m \in Msg : IncrTotalAgain(m)) \/ Reconciler \/ UNCHANGED vars
       PROVE  UNCHANGED <<queue, unacked, task, published, dropped, counted, cleared>>
  BY <1>14 DEF IncrTotalAgain, Reconciler, StartPass, ReconcileUser,
     ReconcileUserFails, AbortPass,
     brokerVars, handlerVars, redisVars, vars
<1> QED
  BY <1>1, <1>2, <1>3, <1>4, <1>5, <1>6, <1>7, <1>9, <1>10, <1>11, <1>12, <1>13,
     <1>14
  DEF Next, ResetDialogCounter, Internal, Handler

LEMMA CountingInit == Init => CountingInv
<1> SUFFICES ASSUME Init PROVE CountingInv
  OBVIOUS
<1>1. Custody /\ NothingLost
  BY DEF Init, Custody, NothingLost, Running, Routed
<1>2. DialogCovers
  BY FS_EmptySet DEF Init, DialogCovers
<1> QED BY <1>1, <1>2, TypeInit DEF CountingInv

(* An event that is owed is counted or pending, so the owed ones are at     *)
(* most the dialog's count and the pending ones together.                   *)
LEMMA CountingImplies == CountingInv => NoUndercount
<1> SUFFICES ASSUME CountingInv, NEW u \in User, NEW p \in User
             PROVE  Cardinality(Owed(u, p)) <=
                        dialog[u][p] + Cardinality(Pending(u, p))
  BY DEF NoUndercount
<1> DEFINE C == counted \cap Between(u, p)
           P == Pending(u, p)
<1>1. Owed(u, p) \subseteq C \cup P
  BY DEF Owed, Pending, CountingInv, NothingLost
<1>2. /\ IsFiniteSet(C) /\ Cardinality(C) \in Nat
      /\ IsFiniteSet(P) /\ Cardinality(P) \in Nat
      /\ Cardinality(Owed(u, p)) \in Nat
      /\ Cardinality(C \cap P) \in Nat
  BY MsgSubsets DEF Pending, Between, Owed
<1>3. IsFiniteSet(C \cup P) /\ Cardinality(C \cup P) <= Cardinality(C) + Cardinality(P)
  <2> HIDE DEF C, P
  <2>1. /\ IsFiniteSet(C \cup P)
        /\ Cardinality(C \cup P) =
              Cardinality(C) + Cardinality(P) - Cardinality(C \cap P)
    BY <1>2, FS_Union
  <2> QED BY <1>2, <2>1
<1>4. Cardinality(Owed(u, p)) <= Cardinality(C \cup P)
  BY <1>1, <1>3, FS_Subset
<1>5. Cardinality(C) <= dialog[u][p] /\ dialog[u][p] \in Nat
  BY DEF CountingInv, DialogCovers, TypeOK
<1>6. Cardinality(C \cup P) \in Nat
  BY <1>3, FS_CardinalityType
<1> HIDE DEF C, P
<1>7. Cardinality(Owed(u, p)) <= dialog[u][p] + Cardinality(P)
  BY <1>2, <1>3, <1>4, <1>5, <1>6
<1> QED BY <1>7 DEF P, Pending

(* At-least-once counting holds in every reachable state, whatever the      *)
(* number of messages, users, concurrent handlers and faults: what reached  *)
(* the queue and was not reset is in the dialog's count or still to come.   *)
THEOREM AtLeastOnce == Spec => []NoUndercount
<1>1. CountingInv /\ [Next]_vars => CountingInv'
  BY TypeStep, CustodyStep, LostStep, CoversStep DEF CountingInv
<1> QED BY <1>1, CountingInit, CountingImplies, PTL DEF Spec

-----------------------------------------------------------------------------
(* Sums.  Adding one to a field adds one unit; clearing a field removes its *)
(* units.                                                                   *)
LEMMA SumIncrement ==
    ASSUME NEW f \in [User -> Nat], NEW p \in User
    PROVE  Sum([f EXCEPT ![p] = @ + 1]) = Sum(f) + 1
<1> DEFINE g == [f EXCEPT ![p] = @ + 1]
<1>1. Units(g) = Units(f) \cup {<<p, f[p] + 1>>}
  <2>1. \A x \in User : g[x] = IF x = p THEN f[x] + 1 ELSE f[x]
    OBVIOUS
  <2>2. 1 .. (f[p] + 1) = (1 .. f[p]) \cup {f[p] + 1}
    OBVIOUS
  <2>3. DOMAIN g = User /\ DOMAIN f = User
    OBVIOUS
  <2> HIDE DEF g
  <2> QED BY <2>1, <2>2, <2>3 DEF Units
<1>2. <<p, f[p] + 1>> \notin Units(f)
  BY DEF Units
<1>3. Cardinality(Units(f) \cup {<<p, f[p] + 1>>}) = Cardinality(Units(f)) + 1
  BY <1>2, UnitsFinite, FS_AddElement
<1> QED BY <1>1, <1>3 DEF Sum

LEMMA SumClear ==
    ASSUME NEW f \in [User -> Nat], NEW p \in User
    PROVE  Sum([f EXCEPT ![p] = 0]) = Sum(f) - f[p]
<1> DEFINE g == [f EXCEPT ![p] = 0]
           block == {p} \X (1 .. f[p])
<1>1. Units(g) = Units(f) \ block
  <2>1. \A x \in User : g[x] = IF x = p THEN 0 ELSE f[x]
    OBVIOUS
  <2>2. 1 .. 0 = {}
    OBVIOUS
  <2>3. DOMAIN g = User /\ DOMAIN f = User
    OBVIOUS
  <2> HIDE DEF g
  <2> QED BY <2>1, <2>2, <2>3 DEF Units
<1>2. Units(f) \cap block = block
  BY DEF Units
<1>3. Cardinality(block) = f[p]
  <2>2. f[p] \in Nat /\ 1 \in Int
    OBVIOUS
  <2>3. IsFiniteSet(1 .. f[p]) /\ Cardinality(1 .. f[p]) = f[p]
    BY <2>2, FS_Interval
  <2> DEFINE unit == [k \in 1 .. f[p] |-> <<p, k>>]
  <2>4. unit \in Bijection(1 .. f[p], block)
    <3>1. unit \in [1 .. f[p] -> block]
      OBVIOUS
    <3>2. \A j, k \in 1 .. f[p] : unit[j] = unit[k] => j = k
      OBVIOUS
    <3>3. \A b \in block : \E k \in 1 .. f[p] : unit[k] = b
      OBVIOUS
    <3> HIDE DEF unit, block
    <3> QED BY <3>1, <3>2, <3>3 DEF Bijection, Injection, Surjection, IsInjective
  <2> HIDE DEF unit, block
  <2>5. ExistsBijection(1 .. f[p], block)
    BY <2>4 DEF ExistsBijection
  <2> QED BY <2>3, <2>5, FS_Bijection
<1>4. Cardinality(Units(f) \ block) = Cardinality(Units(f)) - Cardinality(Units(f) \cap block)
  BY UnitsFinite, FS_Difference
<1> QED BY <1>1, <1>2, <1>3, <1>4 DEF Sum

-----------------------------------------------------------------------------
(* No more than Prefetch events are unacked, and no more handlers run: those *)
(* of a lost channel end before the consumer subscribes again.               *)
HandlersBounded ==
    /\ Cardinality(unacked) <= Prefetch
    /\ Cardinality(Running) <= Prefetch

LEMMA FewerIsBounded ==
    ASSUME NEW S, S \subseteq Msg, Cardinality(S) <= Prefetch,
           NEW T, T \subseteq S
    PROVE  Cardinality(T) <= Prefetch
<1>1. IsFiniteSet(S) /\ Cardinality(S) \in Nat /\ Cardinality(T) \in Nat
  BY MsgSubsets
<1>2. Cardinality(T) <= Cardinality(S)
  BY <1>1, FS_Subset
<1> QED BY <1>1, <1>2, BoundAssumption

LEMMA HandlersStep ==
    TypeOK /\ Custody /\ HandlersBounded /\ [Next]_vars => HandlersBounded'
<1> SUFFICES ASSUME TypeOK, Custody, HandlersBounded, [Next]_vars
             PROVE  HandlersBounded'
  OBVIOUS
<1>1. ASSUME unacked' \subseteq unacked, Running' \subseteq Running
      PROVE  HandlersBounded'
  BY <1>1, FewerIsBounded DEF HandlersBounded, TypeOK, Running
<1>2. ASSUME NEW m \in Msg, Deliver(m) PROVE HandlersBounded'
  <2>1. Cardinality(unacked) < Prefetch /\ unacked' = unacked \cup {m}
    BY <1>2 DEF Deliver, Room
  <2>2. IsFiniteSet(unacked) /\ Cardinality(unacked) \in Nat
    BY MsgSubsets DEF TypeOK
  <2>3. Cardinality(unacked') <= Prefetch
    BY <2>1, <2>2, FS_AddElement, BoundAssumption
  <2>4. Running' \subseteq unacked' /\ unacked' \subseteq Msg
    BY <1>2 DEF Deliver, Custody, Running, TypeOK
  <2>5. Cardinality(Running') <= Prefetch
    BY <2>3, <2>4, FewerIsBounded
  <2> QED BY <2>3, <2>5 DEF HandlersBounded
<1>3. ASSUME NEW m \in Msg,
             \/ Publish(m) \/ IncrTotal(m) \/ IncrTotalThrows(m)
             \/ IncrDialog(m) \/ IncrDialogThrows(m) \/ Ack(m)
             \/ IncrTotalAgain(m) \/ IncrDialogAgain(m)
      PROVE  unacked' \subseteq unacked /\ Running' \subseteq Running
  BY <1>3 DEF Publish, IncrTotal, IncrTotalThrows, IncrDialog, IncrDialogThrows, Ack,
     IncrTotalAgain, IncrDialogAgain, GiveBack, handlerVars, Running, TypeOK
<1>4. ASSUME \/ StartService \/ LoseChannel \/ Resubscribe \/ Crash
             \/ \E u, p \in User : ResetDialog(u, p)
             \/ Reconciler \/ UNCHANGED vars
      PROVE  unacked' \subseteq unacked /\ Running' \subseteq Running
  BY <1>4 DEF StartService, LoseChannel, Resubscribe, Crash, ResetDialog,
     Reconciler, StartPass, ReconcileUser, ReconcileUserFails, AbortPass, brokerVars,
     handlerVars, vars, Running
<1> QED BY <1>1, <1>2, <1>3, <1>4 DEF Next, ResetDialogCounter, Internal, Handler

(* The two drift bounds are inductive together with it, user by user.       *)
Drift(u) ==
    /\ SumDialogs(u) + Cardinality(Half(u)) <= total[u] + Prefetch + faults
    /\ total[u] <= SumDialogs(u) + Cardinality(Half(u)) + Prefetch * faults

DriftInv ==
    /\ TypeOK /\ Custody /\ HandlersBounded
    /\ \A u \in User : Drift(u)

LEMMA DriftTypes ==
    ASSUME TypeOK, HandlersBounded, NEW v \in User
    PROVE  /\ SumDialogs(v) \in Nat
           /\ Cardinality(Half(v)) \in 0 .. Prefetch
           /\ total[v] \in Nat /\ faults \in Nat
<1>1. Half(v) \subseteq Running /\ Running \subseteq Msg
  BY DEF Half, Running
<1>2. Cardinality(Half(v)) <= Prefetch /\ Cardinality(Half(v)) \in Nat
  BY <1>1, FewerIsBounded, MsgSubsets DEF HandlersBounded
<1> QED BY <1>2, SumType, BoundAssumption DEF SumDialogs, TypeOK

LEMMA FaultCredit ==
    ASSUME TypeOK, Fault
    PROVE  Prefetch * faults' = Prefetch * faults + Prefetch
<1>1. faults \in Nat /\ Prefetch \in Nat /\ faults' = faults + 1
  BY BoundAssumption DEF TypeOK
<1>2. \A a, b \in Nat : a * (b + 1) = a * b + a
  OBVIOUS
<1> QED BY <1>1, <1>2

(* What the second HINCRBY does to the sums, and the end or the start of    *)
(* the half-way state of a handler to their number.                         *)
LEMMA SumAfterAdd ==
    ASSUME TypeOK, NEW m \in Msg, AddToDialog(m), NEW v \in User
    PROVE  SumDialogs(v)' = IF v = To[m] THEN SumDialogs(v) + 1 ELSE SumDialogs(v)
<1>1. CASE v = To[m]
  <2>1. dialog'[v] = [dialog[v] EXCEPT ![From[m]] = @ + 1]
    BY <1>1, MsgAssumption DEF AddToDialog, TypeOK
  <2>2. dialog[v] \in [User -> Nat] /\ From[m] \in User
    BY MsgAssumption DEF TypeOK
  <2>3. Sum([dialog[v] EXCEPT ![From[m]] = @ + 1]) = Sum(dialog[v]) + 1
    BY <2>2, SumIncrement
  <2> QED BY <1>1, <2>1, <2>3 DEF SumDialogs
<1>2. CASE v # To[m]
  <2>1. dialog'[v] = dialog[v]
    BY <1>2 DEF AddToDialog, TypeOK
  <2> QED BY <1>2, <2>1 DEF SumDialogs
<1> QED BY <1>1, <1>2

LEMMA HalfAfterEnd ==
    ASSUME TypeOK, NEW m \in Msg, task[m] = "half", task' = [task EXCEPT ![m] = "none"],
           NEW v \in User
    PROVE  Cardinality(Half(v))' =
             IF v = To[m] THEN Cardinality(Half(v)) - 1 ELSE Cardinality(Half(v))
<1>1. Half(v)' = Half(v) \ {m}
  BY DEF Half, TypeOK
<1>2. m \in Half(v) <=> v = To[m]
  BY DEF Half
<1>3. IsFiniteSet(Half(v))
  BY MsgSubsets DEF Half
<1> QED BY <1>1, <1>2, <1>3, FS_RemoveElement

LEMMA HalfAfterFirst ==
    ASSUME TypeOK, NEW m \in Msg, task[m] = "start", task' = [task EXCEPT ![m] = "half"],
           NEW v \in User
    PROVE  Cardinality(Half(v))' =
             IF v = To[m] THEN Cardinality(Half(v)) + 1 ELSE Cardinality(Half(v))
<1>1. m \notin Half(v) /\ IsFiniteSet(Half(v))
  BY MsgSubsets DEF Half
<1>2. CASE v = To[m]
  <2>1. Half(v)' = Half(v) \cup {m}
    BY <1>2 DEF Half, TypeOK
  <2> QED BY <1>1, <1>2, <2>1, FS_AddElement
<1>3. CASE v # To[m]
  <2>1. Half(v)' = Half(v)
    BY <1>3 DEF Half, TypeOK
  <2> QED BY <1>3, <2>1
<1> QED BY <1>2, <1>3

LEMMA DriftStep ==
    ASSUME DriftInv, [Next]_vars, NEW v \in User
    PROVE  Drift(v)'
<1> DEFINE S == SumDialogs(v)
           H == Cardinality(Half(v))
<1>1. /\ S \in Nat /\ H \in 0 .. Prefetch /\ total[v] \in Nat /\ faults \in Nat
      /\ S + H <= total[v] + Prefetch + faults
      /\ total[v] <= S + H + Prefetch * faults
      /\ Prefetch \in Nat /\ Prefetch >= 1 /\ Prefetch * faults \in Nat
  <2>1. \A a, b \in Nat : a * b \in Nat
    OBVIOUS
  <2> QED BY <2>1, DriftTypes, BoundAssumption DEF DriftInv, Drift
<1>2. SUFFICES
        /\ S' + H' <= total'[v] + Prefetch + faults'
        /\ total'[v] <= S' + H' + Prefetch * faults'
  BY DEF Drift
<1>3. ASSUME Fault
      PROVE  Prefetch * faults' = Prefetch * faults + Prefetch /\ faults' = faults + 1
  BY <1>3, FaultCredit DEF DriftInv
<1>4. ASSUME UNCHANGED dialog PROVE S' = S
  BY <1>4 DEF SumDialogs
<1>5. ASSUME UNCHANGED task PROVE H' = H
  BY <1>5 DEF Half
<1>6. ASSUME UNCHANGED faults
      PROVE  Prefetch * faults' = Prefetch * faults /\ faults' = faults
  BY <1>6
<1> DEFINE Goal == /\ S' + H' <= total'[v] + Prefetch + faults'
                   /\ total'[v] <= S' + H' + Prefetch * faults'
<1>7. SUFFICES Goal
  OBVIOUS
<1>8. ASSUME S' = S, H' = H, UNCHANGED total, faults' = faults \/ Fault PROVE Goal
  BY <1>1, <1>3, <1>6, <1>8
<1>9. ASSUME NEW m \in Msg, Deliver(m) PROVE Goal
  <2>1. task[m] = "none"
    BY <1>9 DEF Deliver, DriftInv, Custody, Running
  <2>2. Half(v)' = Half(v)
    BY <1>9, <2>1 DEF Deliver, Half, DriftInv, TypeOK
  <2> QED BY <1>4, <1>8, <1>9, <2>2 DEF Deliver, redisVars
<1>10. ASSUME NEW m \in Msg, IncrTotal(m) PROVE Goal
  <2>1. H' = IF v = To[m] THEN H + 1 ELSE H
    BY <1>10, HalfAfterFirst DEF IncrTotal, DriftInv
  <2>2. S' = S /\ Prefetch * faults' = Prefetch * faults
        /\ faults' = faults
    BY <1>4, <1>6, <1>10 DEF IncrTotal
  <2>3. total'[v] = IF v = To[m] THEN total[v] + 1 ELSE total[v]
    BY <1>10 DEF IncrTotal, AddToTotal, DriftInv, TypeOK
  <2> HIDE DEF S, H
  <2> QED BY <1>1, <2>1, <2>2, <2>3
<1>11. ASSUME NEW m \in Msg, IncrTotalThrows(m) PROVE Goal
  <2>1. Half(v)' = Half(v)
    BY <1>11 DEF IncrTotalThrows, GiveBack, Half, DriftInv, TypeOK
  <2>2. S' = S /\ H' = H /\ Prefetch * faults' = Prefetch * faults + Prefetch
        /\ faults' = faults + 1
    BY <1>3, <1>4, <1>11, <2>1 DEF IncrTotalThrows, GiveBack
  <2>3. total'[v] = total[v] \/ total'[v] = total[v] + 1
    BY <1>11, MsgAssumption DEF IncrTotalThrows, AddToTotal, DriftInv, TypeOK
  <2> HIDE DEF S, H
  <2> QED BY <1>1, <2>2, <2>3
<1>12. ASSUME NEW m \in Msg, IncrDialog(m) PROVE Goal
  <2>1. H' = IF v = To[m] THEN H - 1 ELSE H
    BY <1>12, HalfAfterEnd DEF IncrDialog, DriftInv
  <2>2. S' = IF v = To[m] THEN S + 1 ELSE S
    BY <1>12, SumAfterAdd DEF IncrDialog, DriftInv
  <2>3. UNCHANGED total /\ Prefetch * faults' = Prefetch * faults
        /\ faults' = faults
    BY <1>6, <1>12 DEF IncrDialog
  <2> HIDE DEF S, H
  <2> QED BY <1>1, <2>1, <2>2, <2>3
<1>13. ASSUME NEW m \in Msg, IncrDialogThrows(m) PROVE Goal
  <2>1. H' = IF v = To[m] THEN H - 1 ELSE H
    BY <1>13, HalfAfterEnd DEF IncrDialogThrows, GiveBack, DriftInv
  <2>2. S' = S \/ S' = IF v = To[m] THEN S + 1 ELSE S
    BY <1>4, <1>13, SumAfterAdd DEF IncrDialogThrows, DriftInv
  <2>3. UNCHANGED total /\ Prefetch * faults' = Prefetch * faults + Prefetch
        /\ faults' = faults + 1
    BY <1>3, <1>13 DEF IncrDialogThrows, GiveBack
  <2> HIDE DEF S, H
  <2> QED BY <1>1, <2>1, <2>2, <2>3
<1>14. CASE Crash
  <2>1. Half(v)' = {}
    BY <1>14 DEF Crash, Half
  <2>2. H' = 0
    BY <2>1, FS_EmptySet
  <2>3. S' = S /\ UNCHANGED total /\ Prefetch * faults' = Prefetch * faults + Prefetch
        /\ faults' = faults + 1
    BY <1>3, <1>4, <1>14 DEF Crash, redisVars
  <2> HIDE DEF S, H
  <2> QED BY <1>1, <2>2, <2>3
<1>15. ASSUME NEW u \in User, NEW p \in User, ResetDialog(u, p) PROVE Goal
  <2>1. H' = H /\ Prefetch * faults' = Prefetch * faults
        /\ faults' = faults
    BY <1>5, <1>6, <1>15 DEF ResetDialog, handlerVars
  <2>2. CASE u = v
    <3>1. dialog[v] \in [User -> Nat] /\ dialog[v][p] \in Nat
      BY DEF DriftInv, TypeOK
    <3>2. dialog'[v] = [dialog[v] EXCEPT ![p] = 0]
      BY <1>15, <2>2 DEF ResetDialog, DriftInv, TypeOK
    <3>3. S' = S - dialog[v][p]
      BY <3>1, <3>2, SumClear DEF SumDialogs
    <3>4. total'[v] = IF total[v] < dialog[v][p] THEN 0 ELSE total[v] - dialog[v][p]
      BY <1>15, <2>2 DEF ResetDialog, Subtract, DriftInv, TypeOK
    <3>5. S' \in Nat
      BY <3>2, <3>1, SumType DEF SumDialogs
    <3> HIDE DEF S, H
    <3> QED BY <1>1, <2>1, <3>1, <3>3, <3>4, <3>5
  <2>3. CASE u # v
    <3>1. dialog'[v] = dialog[v] /\ total'[v] = total[v]
      BY <1>15, <2>3 DEF ResetDialog, DriftInv, TypeOK
    <3>2. S' = S
      BY <3>1 DEF SumDialogs
    <3> HIDE DEF S, H
    <3> QED BY <1>1, <2>1, <3>1, <3>2
  <2> QED BY <2>2, <2>3
<1>16. ASSUME NEW u \in User, ReconcileUser(u) PROVE Goal
  <2>1. S' = S /\ H' = H /\ Prefetch * faults' = Prefetch * faults
        /\ faults' = faults
    BY <1>4, <1>5, <1>6, <1>16 DEF ReconcileUser, handlerVars
  <2>2. total'[v] = IF u = v THEN S ELSE total[v]
    BY <1>16 DEF ReconcileUser, ComputedTotal, DriftInv, TypeOK
  <2> HIDE DEF S, H
  <2> QED BY <1>1, <2>1, <2>2
<1>17. ASSUME \/ \E m \in Msg : Publish(m) \/ Ack(m)
              \/ StartService \/ LoseChannel \/ Resubscribe
              \/ StartPass \/ AbortPass
              \/ \E u \in User : ReconcileUserFails(u)
              \/ UNCHANGED vars
       PROVE  Goal
  <2>1. UNCHANGED <<dialog, task, total>> /\ (faults' = faults \/ Fault)
    BY <1>17 DEF Publish, Ack, StartService, LoseChannel, Resubscribe, StartPass,
       AbortPass, ReconcileUserFails, brokerVars, handlerVars, redisVars, vars
  <2> QED BY <1>4, <1>5, <1>8, <2>1
<1>18. ASSUME NEW m \in Msg, IncrTotalAgain(m) PROVE Goal
  <2>1. S' = S /\ H' = H /\ Prefetch * faults' = Prefetch * faults + Prefetch
        /\ faults' = faults + 1
    BY <1>3, <1>4, <1>5, <1>18 DEF IncrTotalAgain, handlerVars
  <2>2. total'[v] = total[v] \/ total'[v] = total[v] + 1
    BY <1>18, MsgAssumption DEF IncrTotalAgain, AddToTotal, DriftInv, TypeOK
  <2> HIDE DEF S, H
  <2> QED BY <1>1, <2>1, <2>2
<1>19. ASSUME NEW m \in Msg, IncrDialogAgain(m) PROVE Goal
  <2>1. H' = H /\ UNCHANGED total /\ Prefetch * faults' = Prefetch * faults + Prefetch
        /\ faults' = faults + 1
    BY <1>3, <1>5, <1>19 DEF IncrDialogAgain, handlerVars
  <2>2. S' = IF v = To[m] THEN S + 1 ELSE S
    BY <1>19, SumAfterAdd DEF IncrDialogAgain, DriftInv
  <2> HIDE DEF S, H
  <2> QED BY <1>1, <2>1, <2>2
<1> HIDE DEF Goal
<1> QED
  BY <1>9, <1>10, <1>11, <1>12, <1>13, <1>14, <1>15, <1>16, <1>17, <1>18, <1>19
  DEF Next, ResetDialogCounter, Internal, Handler, Reconciler

LEMMA DriftInit == Init => DriftInv
<1> SUFFICES ASSUME Init PROVE DriftInv
  OBVIOUS
<1>1. TypeOK /\ Custody
  BY TypeInit DEF Init, Custody, Running
<1>2. unacked = {} /\ Running = {}
  BY DEF Init, Running
<1>3. HandlersBounded
  BY <1>2, FS_EmptySet, BoundAssumption DEF HandlersBounded
<1>4. ASSUME NEW u \in User PROVE Drift(u)
  <2>1. Half(u) = {} /\ Units(dialog[u]) = {}
    BY DEF Init, Half, Units
  <2>2. Cardinality(Half(u)) = 0 /\ SumDialogs(u) = 0
    BY <2>1, FS_EmptySet DEF SumDialogs, Sum
  <2>3. total[u] = 0 /\ Prefetch * faults \in Nat /\ faults = 0
    BY BoundAssumption DEF Init
  <2> QED BY <2>2, <2>3, BoundAssumption DEF Drift
<1> QED BY <1>1, <1>3, <1>4 DEF DriftInv

LEMMA DriftInvariant == Spec => []DriftInv
<1>1. DriftInv /\ [Next]_vars => DriftInv'
  BY TypeStep, CustodyStep, HandlersStep, DriftStep DEF DriftInv
<1> QED BY <1>1, DriftInit, PTL DEF Spec

(* A badge never misses more than Prefetch unread messages that the dialogs *)
(* hold, whatever reconciliation overwrites and however often it runs, but  *)
(* for those that repeated commands added to the dialogs alone.             *)
THEOREM NeverFarBelow == Spec => []UnderstatedByAtMostOverlap
<1>1. DriftInv => UnderstatedByAtMostOverlap
  BY DEF DriftInv, Drift, UnderstatedByAtMostOverlap, GetUnreadCount
<1> QED BY <1>1, DriftInvariant, PTL

(* Without faults a badge never exceeds what the dialogs hold and the       *)
(* handlers are about to add to them; each fault adds at most Prefetch.     *)
THEOREM NeverFarAbove == Spec => []OverstatedOnlyByFaults
<1>1. DriftInv => OverstatedOnlyByFaults
  BY DEF DriftInv, Drift, OverstatedOnlyByFaults, GetUnreadCount
<1> QED BY <1>1, DriftInvariant, PTL

-----------------------------------------------------------------------------
(* How often an event is counted: a dialog's count exceeds the number of    *)
(* its events that no reset has taken out by at most Prefetch a fault.      *)
HIDE DEF Fault

(* Events that were counted, be it before a reset, and will be again: those *)
(* that wait in the queue or are with a handler that owns them.             *)
Ever == counted \cup cleared
Own == IF consumer = "cut" THEN {} ELSE Running
Again(u, p) == Ever \cap (queue \cup Own) \cap Between(u, p)

(* Handlers whose event is back in the queue: each counts it once more than *)
(* its redelivery does.                                                     *)
Strays(u, p) == (Running \ Own) \cap Between(u, p)

Counted(u, p) == (counted \ cleared) \cap Between(u, p)

(* Every recount there was or will be is paid for by a fault.               *)
Paid(u, p) ==
    dialog[u][p] + Cardinality(Again(u, p)) + Cardinality(Strays(u, p))
        <= Cardinality(Counted(u, p)) + Prefetch * faults

RecountInv ==
    /\ TypeOK /\ Custody /\ CountedWasPublished /\ HandlersBounded /\ DialogCovers
    /\ \A u, p \in User : Paid(u, p)

-----------------------------------------------------------------------------
LEMMA RecountTypes ==
    ASSUME TypeOK, NEW u \in User, NEW p \in User
    PROVE  /\ dialog[u][p] \in Nat /\ faults \in Nat /\ Prefetch * faults \in Nat
           /\ Again(u, p) \subseteq Msg /\ Strays(u, p) \subseteq Msg
           /\ Counted(u, p) \subseteq Msg
           /\ Cardinality(Again(u, p)) \in Nat /\ IsFiniteSet(Again(u, p))
           /\ Cardinality(Strays(u, p)) \in Nat /\ IsFiniteSet(Strays(u, p))
           /\ Cardinality(Counted(u, p)) \in Nat /\ IsFiniteSet(Counted(u, p))
<1>1. dialog[u][p] \in Nat /\ faults \in Nat
  BY BoundAssumption DEF TypeOK
<1>2. Prefetch * faults \in Nat
  BY <1>1, BoundAssumption
<1>3. /\ Again(u, p) \subseteq Msg /\ Strays(u, p) \subseteq Msg
      /\ Counted(u, p) \subseteq Msg
  BY DEF Again, Ever, Strays, Counted, Between
<1> QED BY <1>1, <1>2, <1>3, MsgSubsets

(* A fault is worth Prefetch recounts, and no step takes a fault back.      *)
LEMMA FaultsGrow ==
    ASSUME TypeOK, faults' = faults \/ Fault
    PROVE  Prefetch * faults <= Prefetch * faults' /\ Prefetch * faults' \in Nat
<1>1. faults \in Nat /\ Prefetch \in Nat
  BY BoundAssumption DEF TypeOK
<1>2. Prefetch * faults \in Nat
  BY <1>1
<1>3. CASE faults' = faults
  BY <1>2, <1>3
<1>4. CASE Fault
  BY <1>1, <1>2, <1>4, FaultCredit
<1> QED BY <1>3, <1>4

(* A step that counts nothing in the dialog and adds no recount.            *)
LEMMA PaidStays ==
    ASSUME TypeOK, NEW u \in User, NEW p \in User, Paid(u, p),
           dialog'[u][p] = dialog[u][p], Counted(u, p)' = Counted(u, p),
           Again(u, p)' \subseteq Again(u, p), Strays(u, p)' \subseteq Strays(u, p),
           faults' = faults \/ Fault
    PROVE  Paid(u, p)'
<1> DEFINE A == Again(u, p)  A1 == Again(u, p)'
           S == Strays(u, p) S1 == Strays(u, p)'
<1>1. /\ Cardinality(A1) <= Cardinality(A) /\ Cardinality(A1) \in Nat
      /\ Cardinality(S1) <= Cardinality(S) /\ Cardinality(S1) \in Nat
  BY RecountTypes, FS_Subset, FS_CardinalityType
<1>2. Prefetch * faults <= Prefetch * faults' /\ Prefetch * faults' \in Nat
  BY FaultsGrow
<1>3. Cardinality(A1) = Cardinality(Again(u, p))' /\ Cardinality(S1) = Cardinality(Strays(u, p))'
  OBVIOUS
<1> HIDE DEF A1, S1
<1> QED BY <1>1, <1>2, <1>3, RecountTypes DEF Paid

(* The broker takes unacked events back: each is counted once more, by its  *)
(* redelivery or by the handler that still has it.                          *)
LEMMA PaidAfterLoss ==
    ASSUME TypeOK, Custody, HandlersBounded, NEW u \in User, NEW p \in User, Paid(u, p),
           LoseChannel \/ Crash
    PROVE  Paid(u, p)'
<1> DEFINE A == Again(u, p)  A1 == Again(u, p)'
           S == Strays(u, p) S1 == Strays(u, p)'
           L == unacked \ Running
           K == unacked \cap Running
<1>1. /\ dialog'[u][p] = dialog[u][p] /\ Cardinality(Counted(u, p)') = Cardinality(Counted(u, p))
      /\ Prefetch * faults' = Prefetch * faults + Prefetch
  BY FaultCredit DEF LoseChannel, Crash, redisVars, Counted, Between
<1>2. A1 \subseteq A \cup L
  BY DEF LoseChannel, Crash, redisVars, Again, Ever, Own, Custody, Running, Between
<1>3. S1 \subseteq K
  BY DEF LoseChannel, Crash, Strays, Own, Custody, Running, Between
<1>4. /\ IsFiniteSet(A) /\ Cardinality(A) \in Nat
      /\ IsFiniteSet(L) /\ Cardinality(L) \in Nat
      /\ IsFiniteSet(K) /\ Cardinality(K) \in Nat
      /\ IsFiniteSet(A \cap L) /\ Cardinality(A \cap L) \in Nat
      /\ Cardinality(unacked) \in Nat /\ Cardinality(unacked) <= Prefetch
  BY RecountTypes, MsgSubsets DEF TypeOK, HandlersBounded
<1>5. Cardinality(A1) <= Cardinality(A) + Cardinality(L) /\ Cardinality(A1) \in Nat
  <2> HIDE DEF A, A1, L
  <2>1. /\ IsFiniteSet(A \cup L)
        /\ Cardinality(A \cup L) = Cardinality(A) + Cardinality(L) - Cardinality(A \cap L)
    BY <1>4, FS_Union
  <2>2. Cardinality(A1) <= Cardinality(A \cup L) /\ Cardinality(A1) \in Nat
    BY <1>2, <2>1, FS_Subset, FS_CardinalityType
  <2>3. Cardinality(A \cup L) \in Nat
    BY <2>1, FS_CardinalityType
  <2> QED BY <1>4, <2>1, <2>2, <2>3
<1>6. Cardinality(S1) <= Cardinality(K) /\ Cardinality(S1) \in Nat
  BY <1>3, <1>4, FS_Subset, FS_CardinalityType
<1>7. Cardinality(L) + Cardinality(K) = Cardinality(unacked)
  <2>1. L \cup K = unacked /\ L \cap K = {}
    OBVIOUS
  <2> HIDE DEF L, K
  <2>2. Cardinality(L \cup K) = Cardinality(L) + Cardinality(K) - Cardinality(L \cap K)
    BY <1>4, FS_Union
  <2>3. Cardinality(L \cap K) = 0 /\ Cardinality(L \cup K) = Cardinality(unacked)
    BY <2>1, FS_EmptySet
  <2> QED BY <1>4, <2>2, <2>3
<1>8. dialog[u][p] + Cardinality(A) + Cardinality(S)
          <= Cardinality(Counted(u, p)) + Prefetch * faults
  BY DEF Paid
<1>9. /\ Cardinality(S) \in Nat /\ Cardinality(Counted(u, p)) \in Nat
      /\ dialog[u][p] \in Nat /\ Prefetch * faults \in Nat /\ Prefetch \in Nat
  BY RecountTypes, BoundAssumption
<1> HIDE DEF A, A1, S, S1, L, K
<1>10. dialog'[u][p] + Cardinality(A1) + Cardinality(S1)
           <= Cardinality(Counted(u, p)') + Prefetch * faults'
  BY <1>1, <1>4, <1>5, <1>6, <1>7, <1>8, <1>9
<1> QED BY <1>10 DEF Paid, A1, S1

(* The second HINCRBY of m's handler, in the dialog of m.  If m was counted *)
(* before, this is the recount that was foreseen; if not, the count of      *)
(* events grows as well.                                                    *)
LEMMA PaidAfterCount ==
    ASSUME TypeOK, Custody, NEW m \in Msg, task[m] = "half",
           Paid(To[m], From[m]), AddToDialog(m), UNCHANGED <<consumer, cleared>>,
           \/ IncrDialog(m)
           \/ IncrDialogThrows(m)
           \/ IncrDialogAgain(m)
    PROVE  Paid(To[m], From[m])'
<1> DEFINE u == To[m]  p == From[m]
           A == Again(u, p)  A1 == Again(u, p)'
           S == Strays(u, p) S1 == Strays(u, p)'
           C == Counted(u, p) C1 == Counted(u, p)'
<1>0. u \in User /\ p \in User /\ m \in Between(u, p) /\ m \in Running
  BY MsgAssumption DEF Between, Running
<1>1. dialog'[u][p] = dialog[u][p] + 1
  BY <1>0 DEF AddToDialog, TypeOK
<1>2. C1 = IF m \in cleared THEN C ELSE C \cup {m}
  BY <1>0 DEF AddToDialog, Counted, Between
<1>3. /\ IsFiniteSet(A) /\ Cardinality(A) \in Nat
      /\ IsFiniteSet(S) /\ Cardinality(S) \in Nat
      /\ IsFiniteSet(C) /\ Cardinality(C) \in Nat
      /\ dialog[u][p] \in Nat /\ Prefetch * faults \in Nat /\ Prefetch \in Nat /\ Prefetch >= 1
  BY <1>0, RecountTypes, BoundAssumption
<1>4. Running' \subseteq Running /\ queue' \subseteq queue \cup {m}
  BY DEF IncrDialog, IncrDialogThrows, IncrDialogAgain, GiveBack, brokerVars,
     handlerVars, Running, TypeOK
<1>5. A1 \subseteq IF m \in Ever THEN A ELSE A \cup {m}
  BY <1>0, <1>4 DEF AddToDialog, Again, Ever, Own, Custody, Between, IncrDialog,
     IncrDialogThrows,
     IncrDialogAgain, GiveBack, brokerVars, TypeOK
<1>6. S1 \subseteq S
  BY <1>4 DEF Strays, Own, Between
<1>7. m \in C => m \in Ever
  BY DEF Counted, Ever
<1>8. /\ Cardinality(C1) \in Nat
      /\ IF m \in Ever THEN Cardinality(C1) >= Cardinality(C)
                      ELSE Cardinality(C1) = Cardinality(C) + 1
  <2>1. m \notin Ever => m \notin cleared
    BY DEF Ever
  <2> HIDE DEF C, C1
  <2>2. /\ IsFiniteSet(C \cup {m}) /\ Cardinality(C \cup {m}) \in Nat
        /\ Cardinality(C \cup {m}) = IF m \in C THEN Cardinality(C) ELSE Cardinality(C) + 1
    BY <1>3, FS_AddElement, FS_CardinalityType
  <2> QED BY <1>2, <1>3, <1>7, <2>1, <2>2
<1>9. /\ Cardinality(A1) \in Nat
      /\ Cardinality(A1) <= IF m \in Ever THEN Cardinality(A) ELSE Cardinality(A) + 1
  <2> HIDE DEF A, A1
  <2>1. IsFiniteSet(A \cup {m}) /\ Cardinality(A \cup {m}) <= Cardinality(A) + 1
        /\ Cardinality(A \cup {m}) \in Nat
    <3>1. /\ IsFiniteSet(A \cup {m})
          /\ Cardinality(A \cup {m}) = IF m \in A THEN Cardinality(A) ELSE Cardinality(A) + 1
      BY <1>3, FS_AddElement
    <3> QED BY <1>3, <3>1
  <2>2. CASE m \in Ever
    BY <1>3, <1>5, <2>2, FS_Subset, FS_CardinalityType
  <2>3. CASE m \notin Ever
    <3>1. A1 \subseteq A \cup {m}
      BY <1>5, <2>3
    <3>2. Cardinality(A1) <= Cardinality(A \cup {m}) /\ Cardinality(A1) \in Nat
      BY <2>1, <3>1, FS_Subset, FS_CardinalityType
    <3> QED BY <1>3, <2>1, <2>3, <3>2
  <2> QED BY <2>2, <2>3
<1>10. Cardinality(S1) \in Nat /\ Cardinality(S1) <= Cardinality(S)
  BY <1>3, <1>6, FS_Subset, FS_CardinalityType
<1>11. dialog[u][p] + Cardinality(A) + Cardinality(S) <= Cardinality(C) + Prefetch * faults
  BY DEF Paid
<1>12. SUFFICES dialog'[u][p] + Cardinality(A1) + Cardinality(S1)
                    <= Cardinality(C1) + Prefetch * faults'
  BY DEF Paid
<1>13. CASE IncrDialogThrows(m) \/ IncrDialogAgain(m)
  <2>1. Prefetch * faults' = Prefetch * faults + Prefetch
    BY <1>13, FaultCredit DEF IncrDialogThrows, IncrDialogAgain, GiveBack
  <2> HIDE DEF A, A1, S, S1, C, C1, u, p
  <2> QED BY <1>1, <1>3, <1>8, <1>9, <1>10, <1>11, <2>1
<1>14. CASE IncrDialog(m) /\ consumer = "cut"
  <2>1. faults' = faults
    BY <1>14 DEF IncrDialog
  <2>2. S1 \subseteq S \ {m} /\ m \in S
    <3>1. Running' = Running \ {m}
      BY <1>14 DEF IncrDialog, Running, TypeOK
    <3> QED BY <1>0, <1>14, <3>1 DEF Strays, Own, Between
  <2>3. Cardinality(S1) <= Cardinality(S) - 1
    <3> HIDE DEF S, S1
    <3>1. IsFiniteSet(S \ {m}) /\ Cardinality(S \ {m}) = Cardinality(S) - 1
      BY <1>3, <2>2, FS_RemoveElement
    <3> QED BY <2>2, <3>1, FS_Subset
  <2> HIDE DEF A, A1, S, S1, C, C1, u, p
  <2> QED BY <1>1, <1>3, <1>8, <1>9, <1>10, <1>11, <2>1, <2>3
<1>15. CASE IncrDialog(m) /\ consumer # "cut"
  <2>1. faults' = faults /\ queue' = queue
    BY <1>15 DEF IncrDialog, brokerVars
  <2>2. m \notin queue
    BY <1>0, <1>15 DEF Custody, TypeOK
  <2>3. A1 \subseteq A \ {m}
    <3>1. Running' = Running \ {m}
      BY <1>15 DEF IncrDialog, Running, TypeOK
    <3> QED BY <1>15, <2>1, <2>2, <3>1 DEF AddToDialog, Again, Ever, Own, Between
  <2>4. m \in Ever => m \in A
    BY <1>0, <1>15 DEF Again, Own
  <2>5. Cardinality(A1) <= IF m \in Ever THEN Cardinality(A) - 1 ELSE Cardinality(A)
    <3> HIDE DEF A, A1
    <3>1. /\ IsFiniteSet(A \ {m}) /\ Cardinality(A \ {m}) \in Nat
          /\ Cardinality(A \ {m}) = IF m \in A THEN Cardinality(A) - 1 ELSE Cardinality(A)
      BY <1>3, FS_RemoveElement, FS_CardinalityType
    <3>2. Cardinality(A1) <= Cardinality(A \ {m})
      BY <2>3, <3>1, FS_Subset
    <3> QED BY <1>3, <1>9, <2>4, <3>1, <3>2
  <2> HIDE DEF A, A1, S, S1, C, C1, u, p
  <2> QED BY <1>1, <1>3, <1>8, <1>9, <1>10, <1>11, <2>1, <2>5
<1> QED BY <1>13, <1>14, <1>15

(* A reset takes the dialog's events out at once.  As the dialog counted    *)
(* each of them, what remains to be recounted is paid for by faults alone.  *)
LEMMA PaidAfterReset ==
    ASSUME TypeOK, DialogCovers, NEW u \in User, NEW p \in User, Paid(u, p),
           ResetDialog(u, p)
    PROVE  Paid(u, p)'
<1>1. dialog'[u][p] = 0 /\ Counted(u, p)' = {}
  BY DEF ResetDialog, Counted, Between, TypeOK
<1>2. /\ Again(u, p)' = Again(u, p) /\ Strays(u, p)' = Strays(u, p)
      /\ faults' = faults
  BY DEF ResetDialog, Again, Ever, Strays, Own, Running, Between, brokerVars, handlerVars
<1>3. Cardinality(Counted(u, p)) <= dialog[u][p]
  <2>1. Counted(u, p) \subseteq counted \cap Between(u, p)
    BY DEF Counted
  <2>2. /\ IsFiniteSet(counted \cap Between(u, p))
        /\ Cardinality(counted \cap Between(u, p)) \in Nat
    BY MsgSubsets DEF Between
  <2>3. Cardinality(Counted(u, p)) <= Cardinality(counted \cap Between(u, p))
    BY <2>1, <2>2, FS_Subset
  <2>4. Cardinality(counted \cap Between(u, p)) <= dialog[u][p]
    BY DEF DialogCovers
  <2> QED BY <2>2, <2>3, <2>4, RecountTypes
<1>4. /\ Cardinality(Counted(u, p)') = 0
      /\ Cardinality(Again(u, p)') = Cardinality(Again(u, p))
      /\ Cardinality(Strays(u, p)') = Cardinality(Strays(u, p))
  BY <1>1, <1>2, FS_EmptySet
<1>5. dialog'[u][p] + Cardinality(Again(u, p)') + Cardinality(Strays(u, p)')
          <= Cardinality(Counted(u, p)') + Prefetch * faults'
  BY <1>1, <1>2, <1>3, <1>4, RecountTypes DEF Paid
<1> QED BY <1>5 DEF Paid

-----------------------------------------------------------------------------
LEMMA RecountStep ==
    ASSUME RecountInv, [Next]_vars, NEW u \in User, NEW p \in User
    PROVE  Paid(u, p)'
<1>1. /\ TypeOK /\ Custody /\ CountedWasPublished /\ HandlersBounded /\ DialogCovers
      /\ Paid(u, p)
  BY DEF RecountInv
<1> DEFINE Stays == /\ dialog'[u][p] = dialog[u][p]
                    /\ Counted(u, p)' = Counted(u, p)
                    /\ Again(u, p)' \subseteq Again(u, p)
                    /\ Strays(u, p)' \subseteq Strays(u, p)
                    /\ faults' = faults \/ Fault
<1>2. ASSUME Stays PROVE Paid(u, p)'
  BY <1>1, <1>2, PaidStays
<1>3. ASSUME NEW m \in Msg, Publish(m) PROVE Stays
  <2>1. m \notin Ever
    BY <1>1, <1>3 DEF Publish, CountedWasPublished, Ever
  <2> QED
    BY <1>3, <2>1
    DEF Publish, handlerVars, redisVars, Counted, Again, Ever, Strays, Own, Running,
       Between
<1>4. ASSUME NEW m \in Msg, Deliver(m) PROVE Stays
  BY <1>1, <1>4
  DEF Deliver, redisVars, Counted, Again, Ever, Strays, Own, Running, Between, TypeOK
<1>5. ASSUME StartService \/ Resubscribe PROVE Stays
  BY <1>1, <1>5
  DEF StartService, Resubscribe, Custody, brokerVars, redisVars, Counted, Again, Ever,
     Strays,
      Own, Running, Between
<1>6. ASSUME NEW m \in Msg, IncrTotal(m) PROVE Stays
  <2>1. Running' = Running
    BY <1>1, <1>6 DEF IncrTotal, Running, TypeOK
  <2> QED
    BY <1>6, <2>1 DEF IncrTotal, brokerVars, Counted, Again, Ever, Strays, Own, Between
<1>7. ASSUME NEW m \in Msg, task[m] # "none", GiveBack(m), UNCHANGED <<counted, cleared>>,
             dialog'[u][p] = dialog[u][p]
      PROVE  Stays
  <2>1. Running' = Running \ {m} /\ m \in Running
    BY <1>1, <1>7 DEF GiveBack, Running, TypeOK
  <2>2. m \in unacked => consumer # "cut"
    BY <1>1 DEF Custody
  <2> QED
    BY <1>7, <2>1, <2>2 DEF GiveBack, Counted, Again, Ever, Strays, Own, Between
<1>8. ASSUME NEW m \in Msg, IncrTotalThrows(m) PROVE Stays
  BY <1>7, <1>8 DEF IncrTotalThrows
<1>9. ASSUME NEW m \in Msg, AddToDialog(m),
             IncrDialog(m) \/ IncrDialogThrows(m) \/ IncrDialogAgain(m)
      PROVE  Paid(u, p)'
  <2>1. task[m] = "half" /\ UNCHANGED <<consumer, cleared>>
    BY <1>9 DEF IncrDialog, IncrDialogThrows, IncrDialogAgain, GiveBack, handlerVars
  <2>2. CASE m \in Between(u, p)
    <3>1. u = To[m] /\ p = From[m]
      BY <2>2 DEF Between
    <3>2. Paid(To[m], From[m])
      BY <1>1, <3>1
    <3>3. Paid(To[m], From[m])'
      BY <1>1, <1>9, <2>1, <3>2, PaidAfterCount
    <3>4. To[m] \in User /\ From[m] \in User
      BY MsgAssumption
    <3> QED BY <3>1, <3>3 DEF Paid, Again, Ever, Strays, Own, Counted, Between, Running
  <2>3. CASE m \notin Between(u, p)
    <3>1. dialog'[u][p] = dialog[u][p]
      BY <1>1, <1>9, <2>3, MsgAssumption DEF AddToDialog, Between, TypeOK
    <3>2. Counted(u, p)' = Counted(u, p)
      BY <1>9, <2>1, <2>3 DEF AddToDialog, Counted, Between
    <3>3. Running' \subseteq Running /\ queue' \subseteq queue \cup {m}
      BY <1>1, <1>9 DEF IncrDialog, IncrDialogThrows, IncrDialogAgain, GiveBack,
         brokerVars, handlerVars, Running, TypeOK
    <3>4. /\ Again(u, p)' \subseteq Again(u, p)
          /\ Strays(u, p)' \subseteq Strays(u, p)
      BY <1>9, <2>1, <2>3, <3>3 DEF AddToDialog, Again, Ever, Strays, Own, Between
    <3>5. faults' = faults \/ Fault
      BY <1>9 DEF IncrDialog, IncrDialogThrows, IncrDialogAgain, GiveBack
    <3> QED BY <1>2, <3>1, <3>2, <3>4, <3>5
  <2> QED BY <2>2, <2>3
<1>10. ASSUME NEW m \in Msg,
              IncrDialog(m) \/ IncrDialogThrows(m) \/ IncrDialogAgain(m)
       PROVE  Paid(u, p)'
  <2>1. CASE AddToDialog(m)
    BY <1>9, <1>10, <2>1
  <2>2. CASE IncrDialogThrows(m) /\ UNCHANGED <<dialog, counted>>
    BY <1>2, <1>7, <2>2 DEF IncrDialogThrows
  <2> QED BY <1>10, <2>1, <2>2 DEF IncrDialog, IncrDialogThrows, IncrDialogAgain
<1>11. CASE LoseChannel \/ Crash
  BY <1>1, <1>11, PaidAfterLoss
<1>12. ASSUME NEW v \in User, NEW q \in User, ResetDialog(v, q) PROVE Paid(u, p)'
  <2>1. CASE v = u /\ q = p
    BY <1>1, <1>12, <2>1, PaidAfterReset
  <2>2. CASE ~(v = u /\ q = p)
    <3>1. dialog'[u][p] = dialog[u][p]
      BY <1>1, <1>12, <2>2 DEF ResetDialog, TypeOK
    <3>2. /\ counted' \cap Between(u, p) = counted \cap Between(u, p)
          /\ cleared' \cap Between(u, p) = cleared \cap Between(u, p)
      BY <1>12, <2>2 DEF ResetDialog, Between
    <3>3. UNCHANGED <<queue, consumer, task, faults>>
      BY <1>12 DEF ResetDialog, brokerVars, handlerVars
    <3>4. Stays
      BY <3>1, <3>2, <3>3 DEF Counted, Again, Ever, Strays, Own, Running, Between
    <3> QED BY <1>2, <3>4
  <2> QED BY <2>1, <2>2
<1>13. ASSUME \/ \E m \in Msg : Ack(m) \/ IncrTotalAgain(m)
              \/ Reconciler
              \/ UNCHANGED vars
       PROVE  Stays
  <2>1. UNCHANGED <<dialog, counted, cleared, queue, consumer, task>> /\ (faults' = faults \/ Fault)
    BY <1>13 DEF Ack, IncrTotalAgain, Reconciler, StartPass, ReconcileUser,
       ReconcileUserFails, AbortPass,
       brokerVars, handlerVars, redisVars, vars
  <2> QED BY <2>1 DEF Counted, Again, Ever, Strays, Own, Running, Between
<1> HIDE DEF Stays
<1> QED
  BY <1>2, <1>3, <1>4, <1>5, <1>6, <1>8, <1>10, <1>11, <1>12, <1>13
  DEF Next, ResetDialogCounter, Internal, Handler

LEMMA RecountInit == Init => RecountInv
<1> SUFFICES ASSUME Init PROVE RecountInv
  OBVIOUS
<1>1. TypeOK /\ Custody /\ HandlersBounded
  BY DriftInit DEF DriftInv
<1>2. CountedWasPublished /\ DialogCovers
  BY CountingInit DEF Init, CountedWasPublished, CountingInv, Running
<1>3. ASSUME NEW u \in User, NEW p \in User PROVE Paid(u, p)
  <2>1. Again(u, p) = {} /\ Strays(u, p) = {} /\ Counted(u, p) = {}
    BY DEF Init, Again, Ever, Strays, Counted, Own, Running
  <2>2. Cardinality({}) = 0
    BY FS_EmptySet
  <2>3. dialog[u][p] = 0 /\ Prefetch * faults \in Nat
    BY <1>1, RecountTypes DEF Init
  <2> QED BY <2>1, <2>2, <2>3 DEF Paid
<1> QED BY <1>1, <1>2, <1>3 DEF RecountInv

LEMMA RecountImplies == RecountInv => OvercountedOnlyByFaults
<1> SUFFICES ASSUME RecountInv, NEW u \in User, NEW p \in User
             PROVE  dialog[u][p] <= Cardinality(Counted(u, p)) + Prefetch * faults
  BY DEF OvercountedOnlyByFaults, Counted
<1> QED BY RecountTypes DEF RecountInv, Paid

(* No event is counted twice without a fault, nor after a reset has taken   *)
(* it out, and each fault makes at most Prefetch events of a dialog count   *)
(* again.                                                                   *)
THEOREM NeverRecountedFreely == Spec => []OvercountedOnlyByFaults
<1>1. RecountInv /\ [Next]_vars => RecountInv'
  BY TypeStep, CustodyStep, PublishedStep, HandlersStep, CoversStep, RecountStep
  DEF RecountInv
<1> QED BY <1>1, RecountInit, RecountImplies, PTL DEF Spec

=============================================================================
