---------------------- MODULE WsFanoutRefinementProofs ----------------------
(* WsFanout implements Notifications, for any number of instances, sessions, *)
(* posts, faults and repetitions and any replication lag.  What it takes:    *)
(* whoever can be told may be told (HearInv), and the copies of an event     *)
(* that one session can get are bounded by its publications and the faults   *)
(* (CopyInv), wherever they are on their way.  And the order in which the    *)
(* sessions of an instance hear of posts (StrayInv, OrderInv).               *)
EXTENDS WsFanoutProofs, FunctionTheorems

-----------------------------------------------------------------------------
(* Counting the copies of an event in a queue.                               *)
LEMMA CopiesFinite ==
    ASSUME NEW q \in Seq(Post), NEW p
    PROVE  /\ IsFiniteSet({k \in DOMAIN q : q[k] = p})
           /\ Copies(q, p) \in Nat
<1> DEFINE K == {k \in DOMAIN q : q[k] = p}
<1>1. Len(q) \in Nat /\ DOMAIN q = 1 .. Len(q)
  OBVIOUS
<1>2. IsFiniteSet(1 .. Len(q)) /\ K \in SUBSET (1 .. Len(q))
  BY <1>1, FS_Interval
<1>3. IsFiniteSet(K) /\ Cardinality(K) \in Nat
  BY <1>2, FS_Subset, FS_CardinalityType
<1> QED
  BY <1>3 DEF Copies

LEMMA CopiesAppended ==
    ASSUME NEW q \in Seq(Post), NEW x \in Post, NEW p
    PROVE  Copies(Append(q, x), p) = Copies(q, p) + (IF x = p THEN 1 ELSE 0)
<1> DEFINE r == Append(q, x)
           K == {k \in DOMAIN q : q[k] = p}
           L == {k \in DOMAIN r : r[k] = p}
<1>1. /\ DOMAIN q = 1 .. Len(q) /\ DOMAIN r = 1 .. Len(q) + 1 /\ Len(q) \in Nat
      /\ \A k \in 1 .. Len(q) : r[k] = q[k]
      /\ r[Len(q) + 1] = x
  OBVIOUS
<1> HIDE DEF r
<1>2. L = IF x = p THEN K \cup {Len(q) + 1} ELSE K
  BY <1>1
<1>3. Len(q) + 1 \notin K
  BY <1>1
<1>4. IsFiniteSet(K) /\ Cardinality(K) \in Nat
  BY CopiesFinite DEF Copies
<1> HIDE DEF K, L
<1>5. Cardinality(L) = Cardinality(K) + (IF x = p THEN 1 ELSE 0)
  <2>1. Cardinality(K \cup {Len(q) + 1}) = Cardinality(K) + 1
    BY <1>3, <1>4, FS_AddElement
  <2> QED
    BY <1>2, <1>4, <2>1
<1> QED
  BY <1>5 DEF Copies, K, L, r

LEMMA CopiesBehindHead ==
    ASSUME NEW q \in Seq(Post), q # <<>>, NEW p
    PROVE  Copies(q, p) = Copies(Tail(q), p) + (IF Head(q) = p THEN 1 ELSE 0)
<1> DEFINE r == Tail(q)
           K == {k \in DOMAIN q : q[k] = p}
           L == {k \in DOMAIN r : r[k] = p}
           M == K \ {1}
<1>1. /\ Len(q) \in Nat /\ Len(q) > 0 /\ Head(q) = q[1]
      /\ r \in Seq(Post) /\ Len(r) = Len(q) - 1
      /\ \A k \in 1 .. Len(r) : r[k] = q[k + 1]
  <2>1. Len(q) \in Nat /\ Len(q) > 0 /\ Head(q) = q[1]
    BY EmptySeq
  <2> QED
    BY <2>1, HeadTailProperties
<1>2. DOMAIN q = 1 .. Len(q) /\ DOMAIN r = 1 .. Len(q) - 1
  BY <1>1
<1> HIDE DEF r
<1>3. IsFiniteSet(K) /\ Cardinality(K) \in Nat /\ IsFiniteSet(L) /\ Cardinality(L) \in Nat
  BY <1>1, CopiesFinite DEF Copies
<1>4. ExistsBijection(L, M)
  <2> DEFINE f == [k \in L |-> k + 1]
  <2>1. f \in [L -> M]
    <3> SUFFICES ASSUME NEW k \in L PROVE k + 1 \in M
      OBVIOUS
    <3>1. k \in 1 .. Len(q) - 1 /\ r[k] = p
      BY <1>2
    <3>2. k + 1 \in 1 .. Len(q) /\ k + 1 # 1 /\ q[k + 1] = p
      BY <1>1, <3>1
    <3> QED
      BY <1>2, <3>2
  <2>2. \A a, b \in L : f[a] = f[b] => a = b
    BY <1>2
  <2>3. \A t \in M : \E k \in L : f[k] = t
    <3> TAKE t \in M
    <3>1. t \in 1 .. Len(q) /\ t # 1 /\ q[t] = p
      BY <1>2
    <3>2. t - 1 \in 1 .. Len(q) - 1 /\ (t - 1) + 1 = t
      BY <1>1, <3>1
    <3>3. r[t - 1] = p
      BY <1>1, <3>1, <3>2
    <3>4. t - 1 \in L
      BY <1>2, <3>2, <3>3
    <3> QED
      BY <3>2, <3>4
  <2> HIDE DEF f, L, M
  <2>4. f \in Bijection(L, M)
    BY <2>1, <2>2, <2>3, Fun_IsBij
  <2> QED
    BY <2>4, Fun_ExistsBij
<1>5. 1 \in K <=> Head(q) = p
  BY <1>1, <1>2
<1> HIDE DEF L, K
<1>6. Cardinality(M) = Cardinality(L)
  BY <1>3, <1>4, FS_Bijection
<1>7. Cardinality(M) = IF 1 \in K THEN Cardinality(K) - 1 ELSE Cardinality(K)
  BY <1>3, FS_RemoveElement
<1>8. Cardinality(K) = Cardinality(L) + (IF Head(q) = p THEN 1 ELSE 0)
  BY <1>3, <1>5, <1>6, <1>7
<1> QED
  BY <1>8 DEF Copies, K, L, r

LEMMA CopiesInFront ==
    ASSUME NEW q \in Seq(Post), NEW x \in Post, NEW p
    PROVE  Copies(<<x>> \o q, p) = Copies(q, p) + (IF x = p THEN 1 ELSE 0)
<1> DEFINE r == <<x>> \o q
<1>1. <<x>> \in Seq(Post) /\ Len(<<x>>) = 1 /\ <<x>>[1] = x /\ Len(q) \in Nat
  OBVIOUS
<1>2. /\ r \in Seq(Post) /\ Len(r) = 1 + Len(q)
      /\ \A k \in 1 .. 1 + Len(q) : r[k] = IF k <= 1 THEN <<x>>[k] ELSE q[k - 1]
  BY <1>1, ConcatProperties
<1> HIDE DEF r
<1>3. r # <<>> /\ Head(r) = x
  BY <1>1, <1>2
<1>4. Tail(r) = q
  <2>1. /\ Tail(r) \in Seq(Post) /\ Len(Tail(r)) = Len(q)
        /\ \A k \in 1 .. Len(q) : Tail(r)[k] = r[k + 1]
    BY <1>1, <1>2, <1>3, HeadTailProperties
  <2>2. \A k \in 1 .. Len(q) : r[k + 1] = q[k]
    <3> TAKE k \in 1 .. Len(q)
    <3>1. k + 1 \in 1 .. 1 + Len(q) /\ ~ (k + 1 <= 1) /\ (k + 1) - 1 = k
      BY <1>1
    <3> QED
      BY <1>2, <3>1
  <2> QED
    BY <1>1, <2>1, <2>2, SeqEqual
<1> QED
  BY <1>2, <1>3, <1>4, CopiesBehindHead DEF r

LEMMA CopiesOfNone == \A p : Copies(<<>>, p) = 0
<1>1. \A p : {k \in DOMAIN <<>> : <<>>[k] = p} = {}
  OBVIOUS
<1> QED
  BY <1>1, FS_EmptySet DEF Copies

LEMMA CopiesReturned ==
    ASSUME NEW h \in Held, NEW q \in Seq(Post), NEW p
    PROVE  Copies(h \o q, p) = Copies(q, p) + (IF h = <<p>> THEN 1 ELSE 0)
<1>1. CASE h = <<>>
  <2>1. h \o q = q /\ h # <<p>> /\ Copies(q, p) \in Nat
    BY <1>1, ConcatEmptySeq, CopiesFinite
  <2> QED
    BY <2>1
<1>2. ASSUME NEW x \in Post, h = <<x>>
      PROVE  Copies(h \o q, p) = Copies(q, p) + (IF h = <<p>> THEN 1 ELSE 0)
  <2>1. h = <<p>> <=> x = p
    BY <1>2
  <2>2. Copies(<<x>> \o q, p) = Copies(q, p) + (IF x = p THEN 1 ELSE 0)
    BY CopiesInFront
  <2> QED
    BY <1>2, <2>1, <2>2
<1> QED
  BY <1>1, <1>2 DEF Held

-----------------------------------------------------------------------------
(* Who may be told of what, all along the way.                               *)
OnlyAnnounced ==
    \A i \in Instance :
        /\ Elements(inbox[i]) \subseteq Announced
        /\ \A l \in lost[i] : Elements(l.holds) \subseteq Announced
        /\ Busy(i) => task[i].post \in Announced

FollowersMayHear ==
    \A p \in Announced, u \in User, f \in States :
        <<u, Author[p]>> \in f => <<u, p>> \in mayHear

ToldMayHear ==
    /\ \A i \in Instance : Busy(i) => \A u \in task[i].to : <<u, task[i].post>> \in mayHear
    /\ \A s \in Session : \A p \in Elements(out[s]) : <<Owner[s], p>> \in mayHear

HearInv == OnlyAnnounced /\ FollowersMayHear /\ ToldMayHear

-----------------------------------------------------------------------------
(* What friendships and announcements do to the set of those who may hear.   *)
LEMMA FriendsMayHear ==
    ASSUME TypeInv, FollowersMayHear,
           \/ \E u \in User, w \in Writer : Befriend(u, w) \/ Unfriend(u, w)
           \/ Replicate
    PROVE  /\ mayHear' = mayHear \cup Promise!Followers(States', Announced)
           /\ FollowersMayHear'
<1> USE DEF TypeInv
<1>1. mayHear' = mayHear \cup Promise!Followers(States', Announced)
  <2>1. ASSUME States' \subseteq States, mayHear' = mayHear
        PROVE  mayHear' = mayHear \cup Promise!Followers(States', Announced)
    BY <2>1 DEF FollowersMayHear, Promise!Followers, Promise!Follows
  <2>2. ASSUME NEW u \in User, NEW w \in Writer, Befriend(u, w)
        PROVE  mayHear' = mayHear \cup Promise!Followers(States', Announced)
    <3> DEFINE new == db \cup {<<u, w>>}
               add == {<<u, p>> : p \in {q \in Announced : Author[q] = w}}
    <3>1. /\ States' \subseteq States \cup {new} /\ mayHear' = mayHear \cup add
          /\ wal' \in Seq(Friendships) /\ Len(wal') > 0 /\ wal'[Len(wal')] = new
      <4>1. States' \subseteq States \cup {new} /\ WalType'
        BY <2>2, MasterIsRead, WriteEffect DEF Befriend, Friendships
      <4>2. wal' = Append(wal, new) \/ wal' = Append(Tail(wal), new)
        BY <2>2 DEF Befriend, Write
      <4>3. wal \in Seq(Friendships) /\ Tail(wal) \in Seq(Friendships) /\ new \in Friendships
        BY MasterIsRead DEF WalType, Friendships
      <4>4. wal'[Len(wal')] = new
        BY <4>2, <4>3
      <4> QED
        BY <2>2, <4>1, <4>4 DEF Befriend, WalType
    <3>2. new \in States'
      BY <3>1 DEF States
    <3>3. add \subseteq Promise!Followers(States', Announced)
      BY <3>2 DEF Announced, Promise!Followers, Promise!Follows
    <3>4. Promise!Followers(States', Announced) \subseteq mayHear \cup add
      <4> SUFFICES ASSUME NEW x \in User, NEW p \in Announced, NEW f \in States',
                          <<x, Author[p]>> \in f
                   PROVE  <<x, p>> \in mayHear \cup add
        BY DEF Promise!Followers, Promise!Follows
      <4>1. CASE f \in States
        BY <4>1 DEF FollowersMayHear
      <4>2. CASE f = new /\ <<x, Author[p]>> \in db
        BY <4>2, MasterIsRead DEF FollowersMayHear
      <4>3. CASE f = new /\ <<x, Author[p]>> = <<u, w>>
        BY <4>3
      <4> QED
        BY <3>1, <4>1, <4>2, <4>3
    <3> QED
      BY <3>1, <3>3, <3>4
  <2>3. ASSUME NEW u \in User, NEW w \in Writer, Unfriend(u, w)
        PROVE  mayHear' = mayHear \cup Promise!Followers(States', Announced)
    <3>1. States' \subseteq States \cup {db \ {<<u, w>>}} /\ mayHear' = mayHear
      BY <2>3, MasterIsRead, WriteEffect DEF Unfriend, Friendships
    <3>2. Promise!Followers(States', Announced) \subseteq mayHear
      <4> SUFFICES ASSUME NEW x \in User, NEW p \in Announced, NEW f \in States',
                          <<x, Author[p]>> \in f
                   PROVE  <<x, p>> \in mayHear
        BY DEF Promise!Followers, Promise!Follows
      <4> QED
        BY <3>1, MasterIsRead DEF FollowersMayHear
    <3> QED
      BY <3>1, <3>2
  <2>4. CASE Replicate
    BY <2>1, <2>4, ReplicateEffect DEF Replicate
  <2> QED
    BY <2>2, <2>3, <2>4
<1>2. Announced' = Announced
  BY DEF Befriend, Unfriend, Replicate, Announced, announceVars
<1>3. FollowersMayHear'
  BY <1>1, <1>2 DEF FollowersMayHear, Announced, Promise!Followers, Promise!Follows
<1> QED
  BY <1>1, <1>3

LEMMA AnnouncedMayHear ==
    ASSUME TypeInv, FollowersMayHear, NEW p \in Post, Announce(p) \/ AnnouncementLost(p)
    PROVE  /\ Announced' = Announced \cup {p}
           /\ mayHear' = mayHear \cup Promise!Followers(States, {p})
           /\ wal' = wal
           /\ FollowersMayHear'
<1> USE DEF TypeInv
<1>1. Announced' = Announced \cup {p}
  BY DEF Announce, AnnouncementLost, Upstream!Announce, CountType, Announced
<1>2. mayHear' = mayHear \cup ({u \in User : \E f \in States : <<u, Author[p]>> \in f} \X {p})
  BY DEF Announce, AnnouncementLost
<1>3. mayHear' = mayHear \cup Promise!Followers(States, {p})
  BY <1>2 DEF Promise!Followers, Promise!Follows
<1>4. wal' = wal
  BY DEF Announce, AnnouncementLost
<1>5. FollowersMayHear'
  BY <1>1, <1>2, <1>4 DEF FollowersMayHear, States
<1> QED
  BY <1>1, <1>3, <1>4, <1>5

LEMMA HearFrame ==
    ASSUME FollowersMayHear, Announced' = Announced, wal' = wal, mayHear' = mayHear
    PROVE  FollowersMayHear'
  BY DEF FollowersMayHear, States

(* The steps of one instance leave the others alone, and its handler keeps   *)
(* its event until it ends.                                                  *)
LEMMA OthersAlone ==
    ASSUME TypeInv, NEW i \in Instance, Lifecycle(i) \/ Processing(i),
           NEW j \in Instance, j # i
    PROVE  /\ task'[j] = task[j] /\ inbox'[j] = inbox[j] /\ lost'[j] = lost[j]
           /\ arrived'[j] = arrived[j] /\ strays'[j] = strays[j]
<1>1. CASE Lifecycle(i)
  BY <1>1 DEF TypeInv, InstanceType, Lifecycle, Start, LoseChannel, Misdeliver, Notice,
     Return,
              AutoDelete, LoseQueue, Resubscribe, Crash, queueVars
<1>2. CASE Processing(i)
  BY <1>2 DEF TypeInv, InstanceType, Processing, Deliver, ReadFollowers, ReadFails,
     EndProcess,
              Return, Notify, Push, Ack, queueVars
<1> QED
  BY <1>1, <1>2

LEMMA PostAtHand ==
    ASSUME TypeInv, NEW j \in Instance, Lifecycle(j) \/ Processing(j), NEW i \in Instance,
           ~ Deliver(i), Busy(i)'
    PROVE  Busy(i) /\ task'[i].post = task[i].post
<1> USE DEF TypeInv
<1>1. ASSUME task'[i] = task[i] PROVE Busy(i) /\ task'[i].post = task[i].post
  BY <1>1 DEF Busy
<1>2. CASE j # i
  BY <1>1, <1>2, OthersAlone
<1>3. ASSUME \/ Start(i) \/ Misdeliver(i) \/ Notice(i) \/ AutoDelete(i) \/ Resubscribe(i)
      PROVE  task'[i] = task[i]
  BY <1>3 DEF Start, Misdeliver, Notice, AutoDelete, Resubscribe
<1>4. ASSUME Crash(i) \/ ReadFails(i) \/ Ack(i) PROVE FALSE
  BY <1>4 DEF Crash, ReadFails, Ack, EndProcess, Busy, FreeTask, InstanceType
<1>5. CASE LoseChannel(i)
  <2>1. Busy(i)
    BY <1>5 DEF LoseChannel, Busy, InstanceType
  <2> QED
    BY <1>5, <2>1, BusyTask DEF LoseChannel, InstanceType
<1>6. CASE ReadFollowers(i)
  <2>1. PICK f \in States :
            task' = [task EXCEPT ![i].at = "push",
                                 ![i].to = GetFollowers(f, Author[task[i].post])]
    BY <1>6 DEF ReadFollowers
  <2>2. Busy(i)
    BY <1>6 DEF ReadFollowers, Busy
  <2>3. task'[i] = [task[i] EXCEPT !.at = "push", !.to = GetFollowers(f, Author[task[i].post])]
    BY <2>1 DEF InstanceType
  <2> QED
    BY <2>2, <2>3, BusyTask
<1>7. CASE Notify(i)
  <2>1. Busy(i) /\ task'[i] = [task[i] EXCEPT !.at = "done"]
    BY <1>7 DEF Notify, Push, Busy, InstanceType
  <2> QED
    BY <2>1, BusyTask
<1> QED
  BY <1>1, <1>2, <1>3, <1>4, <1>5, <1>6, <1>7 DEF Lifecycle, Processing

(* What the broker has for an instance, in its queue or for a lost channel.  *)
OnlyAnnouncedAt(i) ==
    /\ Elements(inbox[i]) \subseteq Announced
    /\ \A l \in lost[i] : Elements(l.holds) \subseteq Announced

LEMMA UnackedIsAtHand ==
    ASSUME NEW i \in Instance
    PROVE  \A p \in Elements(Unacked(i)) : Busy(i) /\ p = task[i].post
  BY DEF Unacked, Elements

LEMMA ReturnBrings ==
    ASSUME TypeInv, NEW i \in Instance, NEW q \in Held, Return(i, q)
    PROVE  Elements(inbox'[i]) = Elements(q) \cup Elements(inbox[i])
<1>1. q \in Seq(Post) /\ inbox[i] \in Seq(Post)
  BY HeldType DEF TypeInv, InstanceType
<1>2. inbox'[i] = q \o inbox[i]
  BY <1>1, ReturnType DEF TypeInv
<1> QED
  BY <1>1, <1>2, ElementsOfHeld

LEMMA NextOnlyAnnounced ==
    ASSUME TypeInv, HearInv, Next
    PROVE  OnlyAnnounced' /\ Announced \subseteq Announced'
<1> USE DEF TypeInv, HearInv
<1>1. CASE UNCHANGED instanceVars /\ Announced \subseteq Announced'
  BY <1>1 DEF OnlyAnnounced, Busy, instanceVars
<1>2. ASSUME NEW p \in Post, Announce(p)
      PROVE  OnlyAnnounced' /\ Announced \subseteq Announced'
  <2>1. Announced' = Announced \cup {p} /\ task' = task /\ lost' = lost
    BY <1>2, AnnouncedMayHear DEF Announce
  <2>2. \A i \in Instance : Elements(inbox'[i]) \subseteq Elements(inbox[i]) \cup {p}
    <3> TAKE i \in Instance
    <3>1. inbox[i] \in Seq(Post) /\ (inbox'[i] = inbox[i] \/ inbox'[i] = Append(inbox[i], p))
      BY <1>2 DEF Announce, InstanceType
    <3>2. Elements(Append(inbox[i], p)) = Elements(inbox[i]) \cup {p}
      BY <3>1, ElementsOfQueues
    <3> QED
      BY <3>1, <3>2
  <2> QED
    BY <2>1, <2>2 DEF OnlyAnnounced, Busy
<1>3. ASSUME NEW i \in Instance, Lifecycle(i) \/ Processing(i)
      PROVE  Announced' = Announced
  BY <1>3 DEF Lifecycle, Start, LoseChannel, Misdeliver, Notice, AutoDelete, Resubscribe,
              Crash, Processing, Deliver, ReadFollowers, ReadFails, EndProcess, Notify,
              Push,
              Ack, Announced, announceVars
<1>4. ASSUME NEW i \in Instance, Lifecycle(i) \/ Processing(i)
      PROVE  /\ \A j \in Instance : j # i => inbox'[j] = inbox[j] /\ lost'[j] = lost[j]
             /\ OnlyAnnouncedAt(i)'
  <2>1. \A j \in Instance : j # i => inbox'[j] = inbox[j] /\ lost'[j] = lost[j]
    BY <1>4, OthersAlone
  <2> SUFFICES OnlyAnnouncedAt(i)'
    BY <2>1
  <2>2. OnlyAnnouncedAt(i) /\ (Busy(i) => task[i].post \in Announced)
    BY DEF OnlyAnnounced, OnlyAnnouncedAt
  <2>3. CASE UNCHANGED <<inbox, lost>>
    BY <1>3, <1>4, <2>2, <2>3 DEF OnlyAnnouncedAt
  <2>4. CASE AutoDelete(i) \/ Crash(i)
    <3>1. inbox'[i] = <<>> /\ lost'[i] = {} /\ Elements(<<>>) = {}
      BY <2>4 DEF AutoDelete, Crash, LoseQueue, InstanceType, Elements
    <3> QED
      BY <3>1 DEF OnlyAnnouncedAt
  <2>5. CASE LoseChannel(i)
    <3>1. inbox' = inbox /\ lost'[i] = lost[i] \cup {[nr |-> faults', holds |-> Unacked(i)]}
      BY <2>5 DEF LoseChannel, InstanceType
    <3>2. Elements(Unacked(i)) \subseteq Announced
      BY <2>2, UnackedIsAtHand
    <3> QED
      BY <1>3, <1>4, <2>2, <3>1, <3>2 DEF OnlyAnnouncedAt
  <2>6. CASE ReadFails(i)
    <3>1. Elements(inbox'[i]) = Elements(Unacked(i)) \cup Elements(inbox[i]) /\ lost' = lost
      BY <2>6, UnackedType, ReturnBrings DEF ReadFails, EndProcess
    <3>2. Elements(Unacked(i)) \subseteq Announced
      BY <2>2, UnackedIsAtHand
    <3> QED
      BY <1>3, <1>4, <2>2, <3>1, <3>2 DEF OnlyAnnouncedAt
  <2>7. CASE Notice(i)
    <3>1. PICK l \in lost[i] : lost' = [lost EXCEPT ![i] = lost[i] \ {l}] /\ Return(i, l.holds)
      BY <2>7 DEF Notice
    <3>2. Elements(inbox'[i]) = Elements(l.holds) \cup Elements(inbox[i])
      BY <3>1, LostType, ReturnBrings
    <3>3. lost'[i] = lost[i] \ {l}
      BY <3>1 DEF InstanceType
    <3> QED
      BY <1>3, <1>4, <2>2, <3>2, <3>3 DEF OnlyAnnouncedAt
  <2>8. CASE Misdeliver(i) \/ Deliver(i)
    <3>1. inbox[i] \in Seq(Post) /\ inbox[i] # <<>> /\ inbox'[i] = Tail(inbox[i])
      BY <2>8 DEF Misdeliver, Deliver, InstanceType
    <3>2. Elements(inbox[i]) = Elements(inbox'[i]) \cup {Head(inbox[i])}
      BY <3>1, HeadTailProperties, ElementsOfQueues
    <3>3. \A l \in lost'[i] : l \in lost[i] \/ Elements(l.holds) = {Head(inbox[i])}
      <4>1. CASE Deliver(i)
        BY <4>1 DEF Deliver
      <4>2. CASE Misdeliver(i)
        <5>1. PICK l \in lost[i] : lost' = [lost EXCEPT ![i] =
                  (lost[i] \ {l}) \cup {[l EXCEPT !.holds = <<Head(inbox[i])>>]}]
          BY <4>2 DEF Misdeliver
        <5>2. [l EXCEPT !.holds = <<Head(inbox[i])>>].holds = <<Head(inbox[i])>>
          BY LostType
        <5>3. Elements(<<Head(inbox[i])>>) = {Head(inbox[i])}
          BY DEF Elements
        <5> QED
          BY <5>1, <5>2, <5>3 DEF InstanceType
      <4> QED
        BY <2>8, <4>1, <4>2
    <3> QED
      BY <1>3, <1>4, <2>2, <3>2, <3>3 DEF OnlyAnnouncedAt
  <2>9. ASSUME Start(i) \/ Resubscribe(i) \/ ReadFollowers(i) \/ Notify(i) \/ Ack(i)
        PROVE  UNCHANGED <<inbox, lost>>
    BY <2>9 DEF Start, Resubscribe, ReadFollowers, Notify, Push, Ack, EndProcess,
       queueVars
  <2> QED
    BY <1>4, <2>1, <2>3, <2>4, <2>5, <2>6, <2>7, <2>8, <2>9 DEF Lifecycle, Processing
<1>5. ASSUME NEW i \in Instance, Lifecycle(i) \/ Processing(i)
      PROVE  \A j \in Instance : Busy(j)' => task'[j].post \in Announced
  <2> TAKE j \in Instance
  <2>1. CASE Deliver(j)
    <3>1. task'[j] = NewTask(Head(inbox[j])) /\ inbox[j] \in Seq(Post) /\ inbox[j] # <<>>
      BY <2>1 DEF Deliver, InstanceType
    <3>2. Head(inbox[j]) \in Elements(inbox[j])
      BY <3>1, HeadTailProperties, ElementsOfQueues
    <3> QED
      BY <3>1, <3>2 DEF OnlyAnnounced, NewTask
  <2>2. CASE ~ Deliver(j)
    <3>1. Busy(j)' => Busy(j) /\ task'[j].post = task[j].post
      BY <1>5, <2>2, PostAtHand
    <3> QED
      BY <3>1 DEF OnlyAnnounced
  <2> QED
    BY <2>1, <2>2
<1>6. ASSUME NEW i \in Instance, Lifecycle(i) \/ Processing(i)
      PROVE  OnlyAnnounced'
  BY <1>3, <1>4, <1>5, <1>6 DEF OnlyAnnounced, OnlyAnnouncedAt
<1>7. ASSUME NEW p \in Post, AnnouncementLost(p)
      PROVE  UNCHANGED instanceVars /\ Announced \subseteq Announced'
  BY <1>7, AnnouncedMayHear DEF AnnouncementLost
<1>8. ASSUME \/ \E u \in User, w \in Writer : Befriend(u, w) \/ Unfriend(u, w)
             \/ Replicate
             \/ \E s \in Session : Handling(s)
      PROVE  UNCHANGED instanceVars /\ Announced' = Announced
  BY <1>8 DEF Befriend, Unfriend, Replicate, Handling, Connect, Send, Disconnect,
     Unsubscribe,
              EndHandle, Unwind, Announced, announceVars
<1> QED
  BY <1>1, <1>2, <1>3, <1>6, <1>7, <1>8 DEF Next

LEMMA NextFollowersMayHear ==
    ASSUME TypeInv, HearInv, Next
    PROVE  FollowersMayHear' /\ mayHear \subseteq mayHear'
<1> USE DEF HearInv
<1>1. CASE \E u \in User, w \in Writer : Befriend(u, w) \/ Unfriend(u, w)
  BY <1>1, FriendsMayHear
<1>2. CASE Replicate
  BY <1>2, FriendsMayHear
<1>3. CASE \E p \in Post : Announce(p) \/ AnnouncementLost(p)
  BY <1>3, AnnouncedMayHear
<1>4. CASE \E i \in Instance : Lifecycle(i) \/ Processing(i)
  <2>1. UNCHANGED <<wal, times, mayHear>>
    BY <1>4 DEF Lifecycle, Start, LoseChannel, Misdeliver, Notice, AutoDelete,
       Resubscribe, Crash, Processing,
                Deliver, ReadFollowers, ReadFails, EndProcess, Notify, Push, Ack,
                announceVars
  <2> QED
    BY <2>1, HearFrame DEF Announced
<1>5. CASE \E s \in Session : Handling(s)
  <2>1. UNCHANGED <<wal, times, mayHear>>
    BY <1>5 DEF Handling, Connect, Send, Disconnect, Unsubscribe, EndHandle, Unwind,
                announceVars
  <2> QED
    BY <2>1, HearFrame DEF Announced
<1> QED
  BY <1>1, <1>2, <1>3, <1>4, <1>5 DEF Next

LEMMA NextToldMayHear ==
    ASSUME TypeInv, HearInv, Next
    PROVE  ToldMayHear'
<1> USE DEF TypeInv
<1>1. mayHear \subseteq mayHear'
  BY NextFollowersMayHear
<1>2. \A i \in Instance : Busy(i)' => \A u \in task'[i].to : <<u, task'[i].post>> \in mayHear'
  <2> TAKE i \in Instance
  <2> SUFFICES ASSUME Busy(i)', NEW u \in task'[i].to
               PROVE  <<u, task'[i].post>> \in mayHear'
    OBVIOUS
  <2>1. CASE Deliver(i)
    <3>1. task'[i] = NewTask(Head(inbox[i]))
      BY <2>1 DEF Deliver, InstanceType
    <3> QED
      BY <3>1 DEF NewTask
  <2>2. CASE ReadFollowers(i)
    <3>1. PICK f \in States :
              task' = [task EXCEPT ![i].at = "push",
                                   ![i].to = GetFollowers(f, Author[task[i].post])]
      BY <2>2 DEF ReadFollowers
    <3>2. Busy(i)
      BY <2>2 DEF ReadFollowers, Busy
    <3>3. /\ task'[i].to = GetFollowers(f, Author[task[i].post])
          /\ task'[i].post = task[i].post
      BY <3>1, <3>2, BusyTask DEF InstanceType
    <3>4. task[i].post \in Announced /\ u \in User /\ <<u, Author[task[i].post]>> \in f
      BY <3>2, <3>3 DEF HearInv, OnlyAnnounced, GetFollowers
    <3> QED
      BY <1>1, <3>3, <3>4 DEF HearInv, FollowersMayHear
  <2>3. CASE ~ Deliver(i) /\ ~ ReadFollowers(i)
    <3>1. Busy(i) /\ task'[i].post = task[i].post /\ task'[i].to = task[i].to
      <4>1. ASSUME task'[i] = task[i] PROVE Busy(i)
        BY <4>1 DEF Busy
      <4>2. ASSUME NEW j \in Instance, j # i, Lifecycle(j) \/ Processing(j)
            PROVE  task'[i] = task[i]
        BY <4>2, OthersAlone
      <4>3. ASSUME \/ Start(i) \/ Misdeliver(i) \/ Notice(i) \/ AutoDelete(i)
                   \/ Resubscribe(i)
            PROVE  task'[i] = task[i]
        BY <4>3 DEF Start, Misdeliver, Notice, AutoDelete, Resubscribe
      <4>4. ASSUME Crash(i) \/ ReadFails(i) \/ Ack(i) PROVE FALSE
        BY <4>4 DEF Crash, ReadFails, Ack, EndProcess, Busy, FreeTask, InstanceType
      <4>5. CASE LoseChannel(i) \/ Notify(i)
        <5>1. Busy(i)
          BY <4>5 DEF LoseChannel, Notify, Push, Busy, InstanceType
        <5> QED
          BY <4>5, <5>1, BusyTask DEF LoseChannel, Notify, Push, InstanceType
      <4>6. CASE \/ \E x \in User, w \in Writer : Befriend(x, w) \/ Unfriend(x, w)
                 \/ Replicate
                 \/ \E p \in Post : Announce(p) \/ AnnouncementLost(p)
                 \/ \E s \in Session : Handling(s)
        <5>1. task'[i] = task[i]
          BY <4>6 DEF Befriend, Unfriend, Replicate, Announce, AnnouncementLost, Handling,
                      Connect, Send, Disconnect, Unsubscribe, EndHandle, Unwind,
                      instanceVars
        <5> QED
          BY <4>1, <5>1
      <4> QED
        BY <2>3, <4>1, <4>2, <4>3, <4>4, <4>5, <4>6 DEF Next, Lifecycle, Processing
    <3> QED
      BY <1>1, <3>1 DEF HearInv, ToldMayHear
  <2> QED
    BY <2>1, <2>2, <2>3
<1>3. \A s \in Session : \A p \in Elements(out'[s]) : <<Owner[s], p>> \in mayHear'
  <2> TAKE s \in Session
  <2>1. ASSUME NEW i \in Instance, Notify(i), out'[s] # out[s]
        PROVE  \A p \in Elements(out'[s]) : <<Owner[s], p>> \in mayHear'
    <3>1. out'[s] = Append(out[s], task[i].post) /\ Owner[s] \in task[i].to /\ Busy(i)
      BY <2>1 DEF Notify, Push, Busy
    <3>2. task[i].post \in Post /\ out[s] \in Seq(Post)
      BY <3>1, BusyTask DEF SessionType
    <3>3. Elements(Append(out[s], task[i].post)) = Elements(out[s]) \cup {task[i].post}
      BY <3>2, ElementsOfQueues
    <3> QED
      BY <1>1, <3>1, <3>3 DEF HearInv, ToldMayHear
  <2>2. CASE Elements(out'[s]) \subseteq Elements(out[s])
    BY <1>1, <2>2 DEF HearInv, ToldMayHear
  <2>3. Elements(<<>>) = {}
    BY DEF Elements
  <2>4. ASSUME NEW i \in Instance, Crash(i) PROVE Elements(out'[s]) \subseteq Elements(out[s])
    BY <2>3, <2>4 DEF Crash
  <2>5. ASSUME NEW x \in Session, Send(x) PROVE Elements(out'[s]) \subseteq Elements(out[s])
    <3>1. CASE x = s
      <4>1. out[s] \in Seq(Post) /\ out[s] # <<>> /\ out'[s] = Tail(out[s])
        BY <2>5, <3>1 DEF Send, SessionType
      <4>2. Elements(out[s]) = Elements(Tail(out[s])) \cup {Head(out[s])}
        BY <4>1, HeadTailProperties, ElementsOfQueues
      <4> QED
        BY <4>1, <4>2
    <3>2. CASE x # s
      BY <2>5, <3>2 DEF Send, SessionType
    <3> QED
      BY <3>1, <3>2
  <2>6. ASSUME NEW x \in Session, Disconnect(x) \/ Unsubscribe(x) \/ Unwind(x)
        PROVE  Elements(out'[s]) \subseteq Elements(out[s])
    BY <2>3, <2>6 DEF Disconnect, Unsubscribe, Unwind, EndHandle, SessionType
  <2>7. ASSUME NEW x \in Session, NEW i \in Instance, Connect(x, i)
        PROVE  Elements(out'[s]) \subseteq Elements(out[s])
    BY <2>7 DEF Connect
  <2>8. CASE UNCHANGED sessionVars
    BY <2>2, <2>8 DEF sessionVars
  <2> QED
    BY <2>1, <2>2, <2>4, <2>5, <2>6, <2>7, <2>8, SessionFrame DEF Handling
<1> QED
  BY <1>2, <1>3 DEF ToldMayHear

LEMMA HearInvariant == Spec => []HearInv
<1>1. Init => HearInv
  <2> SUFFICES ASSUME Init PROVE HearInv
    OBVIOUS
  <2>1. Elements(<<>>) = {} /\ Announced = {}
    BY DEF Init, Elements, Announced
  <2> QED
    BY <2>1 DEF Init, HearInv, OnlyAnnounced, FollowersMayHear, ToldMayHear, Busy,
       FreeTask
<1>2. TypeInv /\ HearInv /\ [Next]_vars => HearInv'
  <2>1. TypeInv /\ HearInv /\ Next => HearInv'
    BY NextOnlyAnnounced, NextFollowersMayHear, NextToldMayHear DEF HearInv
  <2>2. HearInv /\ UNCHANGED vars => HearInv'
    BY DEF vars, HearInv, OnlyAnnounced, FollowersMayHear, ToldMayHear, Busy,
       Announced, States
  <2> QED
    BY <2>1, <2>2
<1> QED
  BY <1>1, <1>2, TypeInvariant, PTL DEF Spec

-----------------------------------------------------------------------------
(* Copies of the event of p: those that the broker has for instance i or i   *)
(* has to push, those that session s was given, and how many there can be.   *)
Holding(i, p) == {l \in lost[i] : l.holds = <<p>>}
Queued(i, p)  == Copies(inbox[i], p) + Cardinality(Holding(i, p))
InHand(i, p)  == IF task[i].at \in {"start", "push"} /\ task[i].post = p THEN 1 ELSE 0
AtHand(i, p)  == Queued(i, p) + InHand(i, p)
Shown(s, p)   == Copies(sent[s], p) + Copies(out[s], p)
MayCopies(p)  == IF times[p] = 0 THEN 0 ELSE 1 + faults + repeats

CopyInv ==
    /\ \A i \in Instance, p \in Post : AtHand(i, p) <= MayCopies(p)
    /\ \A s \in Session, p \in Post : Shown(s, p) <= MayCopies(p)
    /\ \A i \in Instance, p \in Post : \A s \in entries[i] :
           Shown(s, p) + AtHand(i, p) <= MayCopies(p)
    /\ \A s \in Session : conn[s] = "new" => sent[s] = <<>>

LEMMA HoldingFinite ==
    ASSUME InstanceType, NEW i \in Instance, NEW p
    PROVE  IsFiniteSet(Holding(i, p)) /\ Cardinality(Holding(i, p)) \in Nat
<1>1. IsFiniteSet(lost[i]) /\ Holding(i, p) \in SUBSET lost[i]
  BY DEF InstanceType, Holding
<1> QED
  BY <1>1, FS_Subset, FS_CardinalityType

LEMMA QueuedType ==
    ASSUME InstanceType, NEW i \in Instance, NEW p
    PROVE  Copies(inbox[i], p) \in Nat /\ Queued(i, p) \in Nat
<1>1. inbox[i] \in Seq(Post)
  BY DEF InstanceType
<1>2. Copies(inbox[i], p) \in Nat
  BY <1>1, CopiesFinite
<1> QED
  BY <1>2, HoldingFinite DEF Queued

LEMMA QueuedFrame ==
    ASSUME NEW i \in Instance, NEW p, inbox'[i] = inbox[i], lost'[i] = lost[i]
    PROVE  Queued(i, p)' = Queued(i, p)
<1>1. Copies(inbox'[i], p) = Copies(inbox[i], p) /\ Holding(i, p)' = Holding(i, p)
  BY DEF Holding
<1> QED
  BY <1>1 DEF Queued

LEMMA QueueLost ==
    ASSUME NEW i \in Instance, NEW p, inbox'[i] = <<>>, lost'[i] = {}
    PROVE  Queued(i, p)' = 0
<1>1. Copies(inbox'[i], p) = 0
  BY CopiesOfNone
<1>2. Holding(i, p)' = {} /\ Cardinality({}) = 0
  BY FS_EmptySet DEF Holding
<1> QED
  BY <1>1, <1>2 DEF Queued

LEMMA CountsAreNat ==
    ASSUME TypeInv
    PROVE  /\ \A i \in Instance, p \in Post : /\ Queued(i, p) \in Nat
                                             /\ AtHand(i, p) \in Nat
           /\ \A s \in Session, p \in Post : Shown(s, p) \in Nat
           /\ \A p \in Post : MayCopies(p) \in Nat
<1> USE DEF TypeInv
<1>1. \A i \in Instance, p \in Post : Queued(i, p) \in Nat /\ AtHand(i, p) \in Nat
  <2> TAKE i \in Instance, p \in Post
  <2>1. InHand(i, p) \in Nat
    BY DEF InHand
  <2>2. Queued(i, p) \in Nat
    BY QueuedType
  <2> QED
    BY <2>1, <2>2 DEF AtHand
<1>2. \A s \in Session, p \in Post : Shown(s, p) \in Nat
  <2> TAKE s \in Session, p \in Post
  <2>1. sent[s] \in Seq(Post) /\ out[s] \in Seq(Post)
    BY DEF SessionType
  <2>2. Copies(sent[s], p) \in Nat /\ Copies(out[s], p) \in Nat
    BY <2>1, CopiesFinite
  <2> QED
    BY <2>2 DEF Shown
<1>3. \A p \in Post : MayCopies(p) \in Nat
  BY DEF CountType, MayCopies
<1> QED
  BY <1>1, <1>2, <1>3

LEMMA SumsGrow ==
    ASSUME NEW a \in Nat, NEW b \in Nat, NEW c \in Nat, NEW d \in Nat, c >= a, d >= b
    PROVE  1 + c + d >= 1 + a + b /\ 1 + c + d >= 0
  OBVIOUS

LEMMA NextMayCopies ==
    \A p : MayCopies(p)' = IF times'[p] = 0 THEN 0 ELSE 1 + faults' + repeats'
  BY DEF MayCopies

LEMMA NextQueuedType ==
    ASSUME TypeInv', NEW i \in Instance, NEW p \in Post
    PROVE  Queued(i, p)' \in Nat
<1>1. inbox'[i] \in Seq(Post) /\ IsFiniteSet(lost'[i])
  BY DEF TypeInv, InstanceType
<1>2. Copies(inbox'[i], p) \in Nat
  BY <1>1, CopiesFinite
<1>3. Holding(i, p)' \in SUBSET lost'[i]
  BY DEF Holding
<1>4. Cardinality(Holding(i, p)') \in Nat
  BY <1>1, <1>3, FS_Subset, FS_CardinalityType
<1>5. Queued(i, p)' = Copies(inbox'[i], p) + Cardinality(Holding(i, p)')
  BY DEF Queued
<1> QED
  BY <1>2, <1>4, <1>5

LEMMA NextCountsAreNat ==
    ASSUME TypeInv'
    PROVE  /\ \A i \in Instance, p \in Post : AtHand(i, p)' \in Nat
           /\ \A s \in Session, p \in Post : Shown(s, p)' \in Nat
           /\ \A p \in Post : MayCopies(p)' \in Nat
<1> USE DEF TypeInv
<1>1. \A i \in Instance, p \in Post : AtHand(i, p)' \in Nat
  <2> TAKE i \in Instance, p \in Post
  <2>1. InHand(i, p)' \in Nat
    BY DEF InHand
  <2>2. Queued(i, p)' \in Nat
    BY NextQueuedType
  <2>3. AtHand(i, p)' = Queued(i, p)' + InHand(i, p)'
    BY DEF AtHand
  <2> QED
    BY <2>1, <2>2, <2>3
<1>2. \A s \in Session, p \in Post : Shown(s, p)' \in Nat
  <2> TAKE s \in Session, p \in Post
  <2>1. sent'[s] \in Seq(Post) /\ out'[s] \in Seq(Post)
    BY DEF SessionType
  <2>2. Copies(sent'[s], p) \in Nat /\ Copies(out'[s], p) \in Nat
    BY <2>1, CopiesFinite
  <2> QED
    BY <2>2 DEF Shown
<1>3. \A p \in Post : MayCopies(p)' \in Nat
  BY NextMayCopies DEF CountType
<1> QED
  BY <1>1, <1>2, <1>3

LEMMA MayCopiesGrows ==
    ASSUME TypeInv, [Next]_vars
    PROVE  \A p \in Post : MayCopies(p)' >= MayCopies(p)
<1>1. \/ times' = times /\ repeats' = repeats
      \/ \E p \in Post : Upstream!Announce(p)
  BY DEF Next, vars, Befriend, Unfriend, Replicate, Announce, AnnouncementLost, Lifecycle,
         Start, LoseChannel, Misdeliver, Notice, AutoDelete, Resubscribe, Crash,
         Processing, Deliver,
         ReadFollowers, ReadFails, EndProcess, Notify, Push, Ack, Handling, Connect, Send,
         Disconnect, Unsubscribe, EndHandle, Unwind, announceVars
<1>2. \A p \in Post : times[p] \in Nat /\ times'[p] >= times[p] /\ times'[p] \in Nat
  BY <1>1 DEF Upstream!Announce, TypeInv, CountType
<1>3. repeats \in Nat /\ repeats' >= repeats /\ repeats' \in Nat
  BY <1>1 DEF Upstream!Announce, TypeInv, CountType
<1>4. faults \in Nat /\ faults' \in Nat /\ faults' >= faults
  BY FaultsGrow
<1> SUFFICES ASSUME NEW p \in Post PROVE MayCopies(p)' >= MayCopies(p)
  OBVIOUS
<1>5. MayCopies(p) = IF times[p] = 0 THEN 0 ELSE 1 + faults + repeats
  BY DEF MayCopies
<1>6. MayCopies(p)' = IF times'[p] = 0 THEN 0 ELSE 1 + faults' + repeats'
  BY NextMayCopies
<1>7. times'[p] = 0 => times[p] = 0
  BY <1>2
<1>8. CASE times[p] = 0
  <2>1. MayCopies(p) = 0
    BY <1>5, <1>8
  <2>2. MayCopies(p)' = 0 \/ MayCopies(p)' = 1 + faults' + repeats'
    BY <1>6
  <2>3. 1 + faults' + repeats' >= 0
    BY <1>3, <1>4, SumsGrow
  <2> QED
    BY <2>1, <2>2, <2>3
<1>9. CASE times[p] # 0
  <2>1. MayCopies(p) = 1 + faults + repeats
    BY <1>5, <1>9
  <2>2. MayCopies(p)' = 1 + faults' + repeats'
    BY <1>6, <1>7, <1>9
  <2>3. 1 + faults' + repeats' >= 1 + faults + repeats
    BY <1>3, <1>4, SumsGrow
  <2> QED
    BY <2>1, <2>2, <2>3
<1> QED
  BY <1>8, <1>9

-----------------------------------------------------------------------------
(* Steps that bring no copy, or one at an instance that there may now be.    *)
OneMore(i, p) == AtHand(i, p)' <= AtHand(i, p) + 1 /\ MayCopies(p)' >= MayCopies(p) + 1

LEMMA FewCopies ==
    ASSUME TypeInv, TypeInv', CopyInv, [Next]_vars,
           \A i \in Instance, p \in Post : AtHand(i, p)' <= AtHand(i, p) \/ OneMore(i, p),
           \A s \in Session, p \in Post : Shown(s, p)' <= Shown(s, p),
           \A i \in Instance : entries'[i] \subseteq entries[i],
           \A s \in Session : conn'[s] = "new" => conn[s] = "new" /\ sent'[s] = sent[s]
    PROVE  CopyInv'
<1>1. \A i \in Instance, p \in Post : AtHand(i, p) \in Nat /\ AtHand(i, p)' \in Nat
  BY CountsAreNat, NextCountsAreNat
<1>2. \A s \in Session, p \in Post : Shown(s, p) \in Nat /\ Shown(s, p)' \in Nat
  BY CountsAreNat, NextCountsAreNat
<1>3. \A p \in Post : /\ MayCopies(p) \in Nat /\ MayCopies(p)' \in Nat
                      /\ MayCopies(p)' >= MayCopies(p)
  BY CountsAreNat, NextCountsAreNat, MayCopiesGrows
<1>4. \A i \in Instance, p \in Post : AtHand(i, p)' <= MayCopies(p)'
  <2> TAKE i \in Instance, p \in Post
  <2>1. AtHand(i, p) <= MayCopies(p)
    BY DEF CopyInv
  <2>2. AtHand(i, p)' <= AtHand(i, p) \/ OneMore(i, p)
    OBVIOUS
  <2> QED
    BY <1>1, <1>3, <2>1, <2>2 DEF OneMore
<1>5. \A s \in Session, p \in Post : Shown(s, p)' <= MayCopies(p)'
  <2> TAKE s \in Session, p \in Post
  <2>1. Shown(s, p)' <= Shown(s, p) /\ Shown(s, p) <= MayCopies(p)
    BY DEF CopyInv
  <2> QED
    BY <1>2, <1>3, <2>1
<1>6. \A i \in Instance, p \in Post : \A s \in entries'[i] :
          Shown(s, p)' + AtHand(i, p)' <= MayCopies(p)'
  <2> TAKE i \in Instance, p \in Post
  <2> TAKE s \in entries'[i]
  <2>1. s \in entries[i] /\ s \in Session
    BY DEF TypeInv, SessionType
  <2>2. Shown(s, p) + AtHand(i, p) <= MayCopies(p)
    BY <2>1 DEF CopyInv
  <2>3. Shown(s, p)' <= Shown(s, p) /\ (AtHand(i, p)' <= AtHand(i, p) \/ OneMore(i, p))
    BY <2>1
  <2>4. Shown(s, p) \in Nat /\ Shown(s, p)' \in Nat
    BY <1>2, <2>1
  <2> QED
    BY <1>1, <1>3, <2>2, <2>3, <2>4 DEF OneMore
<1>7. \A s \in Session : conn'[s] = "new" => sent'[s] = <<>>
  BY DEF CopyInv
<1> QED
  BY <1>4, <1>5, <1>6, <1>7 DEF CopyInv

LEMMA SessionsUnchanged ==
    ASSUME UNCHANGED sessionVars
    PROVE  /\ \A s \in Session, p \in Post : Shown(s, p)' = Shown(s, p)
           /\ entries' = entries /\ conn' = conn /\ sent' = sent
  BY DEF sessionVars, Shown, Copies

LEMMA InstancesUnchanged ==
    ASSUME UNCHANGED instanceVars
    PROVE  \A i \in Instance, p \in Post : AtHand(i, p)' = AtHand(i, p)
<1> SUFFICES ASSUME NEW i \in Instance, NEW p \in Post PROVE AtHand(i, p)' = AtHand(i, p)
  OBVIOUS
<1>1. Queued(i, p)' = Queued(i, p) /\ InHand(i, p)' = InHand(i, p)
  BY QueuedFrame DEF instanceVars, InHand
<1> QED
  BY <1>1 DEF AtHand

LEMMA SameIsFew ==
    ASSUME TypeInv
    PROVE  /\ \A i \in Instance, p \in Post : AtHand(i, p) <= AtHand(i, p)
           /\ \A s \in Session, p \in Post : Shown(s, p) <= Shown(s, p)
  BY CountsAreNat

LEMMA CopiesWhenFriendsChange ==
    ASSUME TypeInv, TypeInv', CopyInv, [Next]_vars, UNCHANGED <<instanceVars, sessionVars>>
    PROVE  CopyInv'
<1>1. UNCHANGED instanceVars /\ UNCHANGED sessionVars
  OBVIOUS
<1>2. \A i \in Instance, p \in Post : AtHand(i, p)' <= AtHand(i, p)
  BY <1>1, InstancesUnchanged, SameIsFew
<1>3. \A s \in Session, p \in Post : Shown(s, p)' <= Shown(s, p)
  BY <1>1, SessionsUnchanged, SameIsFew
<1> QED
  BY <1>1, <1>2, <1>3, SessionsUnchanged, FewCopies

LEMMA CopiesWhenAnnounced ==
    ASSUME TypeInv, TypeInv', CopyInv, [Next]_vars, NEW q \in Post, Announce(q)
    PROVE  CopyInv'
<1> USE DEF TypeInv
<1>1. UNCHANGED sessionVars /\ task' = task /\ lost' = lost /\ faults' = faults
  BY DEF Announce
<1>2. \A i \in Instance, p \in Post : InHand(i, p)' = InHand(i, p)
  BY <1>1 DEF InHand
<1>3. MayCopies(q)' >= MayCopies(q) + 1
  <2>1. /\ times'[q] = times[q] + 1 /\ times[q] \in Nat
        /\ repeats' = repeats + (IF times[q] = 0 THEN 0 ELSE 1)
        /\ repeats \in Nat /\ faults \in Nat
    BY DEF Announce, Upstream!Announce, CountType
  <2>2. MayCopies(q)' = 1 + faults + repeats'
    BY <1>1, <2>1, NextMayCopies
  <2>3. CASE times[q] = 0
    BY <2>1, <2>2, <2>3 DEF MayCopies
  <2>4. CASE times[q] # 0
    <3>1. MayCopies(q) = 1 + faults + repeats /\ repeats' = repeats + 1
      BY <2>1, <2>4 DEF MayCopies
    <3> QED
      BY <2>1, <2>2, <3>1
  <2> QED
    BY <2>3, <2>4
<1>4. \A i \in Instance, p \in Post : AtHand(i, p)' <= AtHand(i, p) \/ OneMore(i, p)
  <2> TAKE i \in Instance, p \in Post
  <2>1. /\ Copies(inbox[i], p) \in Nat /\ Cardinality(Holding(i, p)) \in Nat
        /\ InHand(i, p) \in Nat
    BY QueuedType, HoldingFinite DEF InHand
  <2>2. inbox[i] \in Seq(Post) /\ (inbox'[i] = inbox[i] \/ inbox'[i] = Append(inbox[i], q))
    BY DEF Announce, InstanceType
  <2>3. Copies(Append(inbox[i], q), p) = Copies(inbox[i], p) + (IF q = p THEN 1 ELSE 0)
    BY <2>2, CopiesAppended
  <2>4. AtHand(i, p) = Copies(inbox[i], p) + Cardinality(Holding(i, p)) + InHand(i, p)
    BY DEF AtHand, Queued
  <2>5. AtHand(i, p)' = Copies(inbox'[i], p) + Cardinality(Holding(i, p)) + InHand(i, p)
    BY <1>1, <1>2 DEF AtHand, Queued, Holding
  <2>6. Copies(inbox'[i], p) = Copies(inbox[i], p) \/ Copies(inbox'[i], p) = Copies(Append(inbox[i], q), p)
    BY <2>2
  <2>7. CASE q = p
    <3>1. AtHand(i, p)' = AtHand(i, p) \/ AtHand(i, p)' = AtHand(i, p) + 1
      BY <2>1, <2>3, <2>4, <2>5, <2>6, <2>7
    <3>2. AtHand(i, p) \in Nat
      BY CountsAreNat
    <3> QED
      BY <1>3, <2>7, <3>1, <3>2 DEF OneMore
  <2>8. CASE q # p
    BY <2>1, <2>3, <2>4, <2>5, <2>6, <2>8
  <2> QED
    BY <2>7, <2>8
<1>5. \A s \in Session, p \in Post : Shown(s, p)' <= Shown(s, p)
  BY <1>1, SessionsUnchanged, SameIsFew
<1> QED
  BY <1>1, <1>4, <1>5, SessionsUnchanged, FewCopies

(* An event that is to return was announced, and a fault paid for it.        *)
LEMMA CopiesWhenUnacked ==
    ASSUME TypeInv, TypeInv', CopyInv, HearInv, [Next]_vars, NEW i \in Instance,
           LoseChannel(i) \/ ReadFails(i)
    PROVE  CopyInv'
<1> USE DEF TypeInv
<1>1. /\ UNCHANGED sessionVars /\ UNCHANGED <<times, repeats>> /\ Fault
      /\ \A j \in Instance : j # i => /\ task'[j] = task[j] /\ inbox'[j] = inbox[j]
                                     /\ lost'[j] = lost[j]
  <2>1. Lifecycle(i) \/ Processing(i)
    BY DEF Lifecycle, Processing
  <2> QED
    BY <2>1, OthersAlone DEF LoseChannel, ReadFails, EndProcess, announceVars
<1>2. \A p \in Announced : MayCopies(p)' >= MayCopies(p) + 1
  <2> TAKE p \in Announced
  <2>1. p \in Post /\ times[p] # 0 /\ times'[p] = times[p]
    BY <1>1 DEF Announced, CountType
  <2>2. /\ faults' = faults + 1 /\ faults \in Nat /\ repeats' = repeats /\ repeats \in Nat
    BY <1>1, FaultCounted DEF CountType
  <2>3. MayCopies(p) = 1 + faults + repeats
    BY <2>1 DEF MayCopies
  <2>4. MayCopies(p)' = 1 + faults' + repeats'
    BY <2>1, NextMayCopies
  <2> QED
    BY <2>2, <2>3, <2>4
<1>3. \A j \in Instance, p \in Post : InHand(j, p)' <= InHand(j, p)
  <2> TAKE j \in Instance, p \in Post
  <2>1. CASE j # i
    BY <1>1, <2>1 DEF InHand
  <2>2. CASE j = i /\ ReadFails(i)
    BY <2>2 DEF ReadFails, EndProcess, InstanceType, InHand, FreeTask
  <2>3. CASE j = i /\ LoseChannel(i) /\ Busy(i)
    <3>1. task'[i] = [task[i] EXCEPT !.own = FALSE]
      BY <2>3 DEF LoseChannel, InstanceType
    <3>2. task'[i].at = task[i].at /\ task'[i].post = task[i].post
      BY <2>3, <3>1, BusyTask
    <3> QED
      BY <2>3, <3>2 DEF InHand
  <2>4. CASE j = i /\ LoseChannel(i) /\ ~ Busy(i)
    <3>1. task'[i] = task[i]
      BY <2>4 DEF LoseChannel, InstanceType
    <3> QED
      BY <2>4, <3>1 DEF InHand
  <2> QED
    BY <2>1, <2>2, <2>3, <2>4
<1>4. ASSUME NEW p \in Post
      PROVE  Queued(i, p)' <= Queued(i, p) + (IF Unacked(i) = <<p>> THEN 1 ELSE 0)
  <2>1. /\ inbox[i] \in Seq(Post) /\ Copies(inbox[i], p) \in Nat
        /\ Cardinality(Holding(i, p)) \in Nat /\ IsFiniteSet(Holding(i, p))
    BY QueuedType, HoldingFinite DEF InstanceType
  <2>2. CASE ReadFails(i)
    <3>1. Unacked(i) \in Held /\ Unacked(i) \in Seq(Post)
      BY UnackedType
    <3>2. inbox'[i] = Unacked(i) \o inbox[i] /\ lost' = lost
      BY <2>2, <3>1, ReturnType DEF ReadFails, EndProcess
    <3>3. Copies(inbox'[i], p) = Copies(inbox[i], p) + (IF Unacked(i) = <<p>> THEN 1 ELSE 0)
      BY <2>1, <3>1, <3>2, CopiesReturned
    <3>4. Queued(i, p)' = Copies(inbox'[i], p) + Cardinality(Holding(i, p))
      BY <3>2 DEF Queued, Holding
    <3> QED
      BY <2>1, <3>3, <3>4 DEF Queued
  <2>3. CASE LoseChannel(i)
    <3> DEFINE l == [nr |-> faults', holds |-> Unacked(i)]
    <3>1. inbox'[i] = inbox[i] /\ lost'[i] = lost[i] \cup {l}
      BY <2>3 DEF LoseChannel, InstanceType
    <3>2. l.holds = Unacked(i)
      OBVIOUS
    <3> HIDE DEF l
    <3>3. Queued(i, p)' = Copies(inbox[i], p) + Cardinality(Holding(i, p)')
      BY <3>1 DEF Queued
    <3>4. Holding(i, p)' = IF Unacked(i) = <<p>> THEN Holding(i, p) \cup {l} ELSE Holding(i, p)
      BY <3>1, <3>2 DEF Holding
    <3>5. Cardinality(Holding(i, p) \cup {l}) \in
              {Cardinality(Holding(i, p)), Cardinality(Holding(i, p)) + 1}
      BY <2>1, FS_AddElement
    <3> QED
      BY <2>1, <3>3, <3>4, <3>5 DEF Queued
  <2> QED
    BY <2>2, <2>3
<1>5. \A j \in Instance, p \in Post : AtHand(j, p)' <= AtHand(j, p) \/ OneMore(j, p)
  <2> TAKE j \in Instance, p \in Post
  <2>1. /\ Queued(j, p) \in Nat /\ InHand(j, p) \in Nat /\ InHand(j, p)' \in Nat
        /\ Queued(j, p)' \in Nat
    BY CountsAreNat, NextQueuedType DEF InHand
  <2>2. AtHand(j, p) = Queued(j, p) + InHand(j, p)
    BY DEF AtHand
  <2>3. AtHand(j, p)' = Queued(j, p)' + InHand(j, p)'
    BY DEF AtHand
  <2>4. InHand(j, p)' <= InHand(j, p)
    BY <1>3
  <2>5. CASE j = i /\ Unacked(i) = <<p>>
    <3>1. p \in Announced
      BY <2>5 DEF Unacked, HearInv, OnlyAnnounced
    <3>2. Queued(j, p)' <= Queued(j, p) + 1
      BY <1>4, <2>5
    <3>3. AtHand(j, p)' <= AtHand(j, p) + 1
      BY <2>1, <2>2, <2>3, <2>4, <3>2
    <3> QED
      BY <1>2, <3>1, <3>3 DEF OneMore
  <2>6. CASE ~ (j = i /\ Unacked(i) = <<p>>)
    <3>1. Queued(j, p)' <= Queued(j, p)
      <4>1. CASE j = i
        BY <1>4, <2>1, <2>6, <4>1
      <4>2. CASE j # i
        BY <1>1, <2>1, <4>2, QueuedFrame
      <4> QED
        BY <4>1, <4>2
    <3> QED
      BY <2>1, <2>2, <2>3, <2>4, <3>1
  <2> QED
    BY <2>5, <2>6
<1>6. \A s \in Session, p \in Post : Shown(s, p)' <= Shown(s, p)
  BY <1>1, SessionsUnchanged, SameIsFew
<1> QED
  BY <1>1, <1>5, <1>6, SessionsUnchanged, FewCopies

(* Until it returns, a lost channel holds it, or another one in its place.   *)
LEMMA CopiesWhenHeld ==
    ASSUME TypeInv, TypeInv', CopyInv, [Next]_vars, NEW i \in Instance,
           Misdeliver(i) \/ Notice(i)
    PROVE  CopyInv'
<1> USE DEF TypeInv
<1>1. /\ UNCHANGED sessionVars /\ task' = task
      /\ \A j \in Instance : j # i => inbox'[j] = inbox[j] /\ lost'[j] = lost[j]
  <2>1. Lifecycle(i)
    BY DEF Lifecycle
  <2> QED
    BY <2>1, OthersAlone DEF Misdeliver, Notice
<1>2. ASSUME NEW p \in Post PROVE Queued(i, p)' <= Queued(i, p)
  <2>1. /\ inbox[i] \in Seq(Post) /\ Copies(inbox[i], p) \in Nat
        /\ Cardinality(Holding(i, p)) \in Nat /\ IsFiniteSet(Holding(i, p))
    BY QueuedType, HoldingFinite DEF InstanceType
  <2>2. CASE Misdeliver(i)
    <3> DEFINE h == Head(inbox[i])
    <3>1. inbox[i] # <<>> /\ inbox'[i] = Tail(inbox[i]) /\ Tail(inbox[i]) \in Seq(Post)
      BY <2>1, <2>2, HeadTailProperties DEF Misdeliver, InstanceType
    <3>2. PICK l \in lost[i] :
              l.holds = <<>> /\ lost'[i] = (lost[i] \ {l}) \cup {[l EXCEPT !.holds = <<h>>]}
      BY <2>2 DEF Misdeliver, InstanceType
    <3>3. [l EXCEPT !.holds = <<h>>].holds = <<h>>
      BY LostType
    <3>4. Copies(inbox[i], p) = Copies(inbox'[i], p) + (IF h = p THEN 1 ELSE 0)
      BY <2>1, <3>1, CopiesBehindHead
    <3>5. Copies(inbox'[i], p) \in Nat
      BY <3>1, CopiesFinite
    <3> DEFINE m == [l EXCEPT !.holds = <<h>>]
    <3> HIDE DEF h, m
    <3>6. Holding(i, p)' = IF h = p THEN Holding(i, p) \cup {m} ELSE Holding(i, p)
      <4>1. m.holds = <<h>> /\ lost'[i] = (lost[i] \ {l}) \cup {m}
        BY <3>2, <3>3 DEF m
      <4>2. l.holds # <<p>> /\ (<<h>> = <<p>> <=> h = p)
        BY <3>2
      <4> QED
        BY <4>1, <4>2 DEF Holding
    <3>7. Cardinality(Holding(i, p) \cup {m}) \in
              {Cardinality(Holding(i, p)), Cardinality(Holding(i, p)) + 1}
      BY <2>1, FS_AddElement
    <3>8. Queued(i, p)' = Copies(inbox'[i], p) + Cardinality(Holding(i, p)')
      BY DEF Queued
    <3> QED
      BY <2>1, <3>4, <3>5, <3>6, <3>7, <3>8 DEF Queued
  <2>3. CASE Notice(i)
    <3>1. PICK l \in lost[i] : lost'[i] = lost[i] \ {l} /\ Return(i, l.holds)
      BY <2>3 DEF Notice, InstanceType
    <3> DEFINE h == l.holds
    <3>2. h \in Held /\ h \in Seq(Post)
      BY LostType
    <3>3. inbox'[i] = h \o inbox[i]
      BY <3>1, <3>2, ReturnType
    <3>4. Holding(i, p)' = Holding(i, p) \ {l} /\ (h = <<p>> <=> l \in Holding(i, p))
      BY <3>1 DEF Holding
    <3> HIDE DEF h
    <3>5. Copies(inbox'[i], p) = Copies(inbox[i], p) + (IF h = <<p>> THEN 1 ELSE 0)
      BY <2>1, <3>2, <3>3, CopiesReturned
    <3>6. Cardinality(Holding(i, p) \ {l}) =
              IF l \in Holding(i, p) THEN Cardinality(Holding(i, p)) - 1
                                     ELSE Cardinality(Holding(i, p))
      BY <2>1, FS_RemoveElement
    <3>7. Queued(i, p)' = Copies(inbox'[i], p) + Cardinality(Holding(i, p)')
      BY DEF Queued
    <3> QED
      BY <2>1, <3>4, <3>5, <3>6, <3>7 DEF Queued
  <2> QED
    BY <2>2, <2>3
<1>3. \A j \in Instance, p \in Post : AtHand(j, p)' <= AtHand(j, p)
  <2> TAKE j \in Instance, p \in Post
  <2>1. Queued(j, p) \in Nat /\ InHand(j, p) \in Nat /\ InHand(j, p)' = InHand(j, p)
    BY <1>1, CountsAreNat DEF InHand
  <2>2. Queued(j, p)' \in Nat /\ Queued(j, p)' <= Queued(j, p)
    <3>1. j # i => Queued(j, p)' = Queued(j, p)
      BY <1>1, QueuedFrame
    <3> QED
      BY <1>2, <2>1, <3>1, NextQueuedType
  <2> QED
    BY <2>1, <2>2 DEF AtHand
<1>4. \A s \in Session, p \in Post : Shown(s, p)' <= Shown(s, p)
  BY <1>1, SessionsUnchanged, SameIsFew
<1> QED
  BY <1>1, <1>3, <1>4, SessionsUnchanged, FewCopies

LEMMA CopiesWhenHandled ==
    ASSUME TypeInv, TypeInv', CopyInv, [Next]_vars, NEW i \in Instance,
           \/ Start(i) \/ Resubscribe(i) \/ AutoDelete(i)
           \/ Deliver(i) \/ ReadFollowers(i) \/ Ack(i)
    PROVE  CopyInv'
<1> USE DEF TypeInv
<1>1. /\ UNCHANGED sessionVars
      /\ \A j \in Instance : j # i => /\ task'[j] = task[j] /\ inbox'[j] = inbox[j]
                                     /\ lost'[j] = lost[j]
  <2>1. Lifecycle(i) \/ Processing(i)
    BY DEF Lifecycle, Processing
  <2> QED
    BY <2>1, OthersAlone DEF Start, Resubscribe, AutoDelete, Deliver, ReadFollowers, Ack,
                             EndProcess
<1>2. \A j \in Instance, p \in Post : AtHand(j, p)' <= AtHand(j, p)
  <2> TAKE j \in Instance, p \in Post
  <2>1. Queued(j, p) \in Nat /\ InHand(j, p) \in Nat
    BY CountsAreNat DEF InHand
  <2>2. AtHand(j, p) = Queued(j, p) + InHand(j, p)
    BY DEF AtHand
  <2>3. AtHand(j, p)' = Queued(j, p)' + InHand(j, p)'
    BY DEF AtHand
  <2>4. CASE j # i
    <3>1. InHand(j, p)' = InHand(j, p) /\ Queued(j, p)' = Queued(j, p)
      BY <1>1, <2>4, QueuedFrame DEF InHand
    <3> QED
      BY <2>1, <2>2, <2>3, <3>1
  <2>5. CASE j = i /\ (Start(i) \/ Resubscribe(i))
    <3>1. InHand(j, p)' = InHand(j, p) /\ inbox'[j] = inbox[j] /\ lost'[j] = lost[j]
      BY <2>5 DEF Start, Resubscribe, queueVars, InHand
    <3>2. Queued(j, p)' = Queued(j, p)
      BY <3>1, QueuedFrame
    <3> QED
      BY <2>1, <2>2, <2>3, <3>1, <3>2
  <2>6. CASE j = i /\ AutoDelete(i)
    <3>1. InHand(j, p)' = InHand(j, p) /\ inbox'[j] = <<>> /\ lost'[j] = {}
      BY <2>6 DEF AutoDelete, LoseQueue, InstanceType, InHand
    <3>2. Queued(j, p)' = 0
      BY <3>1, QueueLost
    <3> QED
      BY <2>1, <2>2, <2>3, <3>1, <3>2
  <2>7. CASE j = i /\ Deliver(i)
    <3>1. /\ inbox[i] \in Seq(Post) /\ inbox[i] # <<>> /\ inbox'[i] = Tail(inbox[i])
          /\ task'[i] = NewTask(Head(inbox[i]))
      BY <2>7 DEF Deliver, InstanceType
    <3>2. Copies(inbox[i], p) = Copies(Tail(inbox[i]), p) + (IF Head(inbox[i]) = p THEN 1 ELSE 0)
      BY <3>1, CopiesBehindHead
    <3>3. InHand(i, p)' = IF Head(inbox[i]) = p THEN 1 ELSE 0
      BY <3>1 DEF InHand, NewTask
    <3>4. Tail(inbox[i]) \in Seq(Post)
      BY <3>1, HeadTailProperties
    <3>5. Copies(Tail(inbox[i]), p) \in Nat /\ Cardinality(Holding(i, p)) \in Nat
      BY <3>4, CopiesFinite, HoldingFinite
    <3>6. Queued(i, p)' = Copies(Tail(inbox[i]), p) + Cardinality(Holding(i, p))
      BY <2>7, <3>1 DEF Deliver, Queued, Holding
    <3>7. Queued(i, p) = Copies(inbox[i], p) + Cardinality(Holding(i, p))
      BY DEF Queued
    <3> QED
      BY <2>1, <2>2, <2>3, <2>7, <3>2, <3>3, <3>5, <3>6, <3>7
  <2>8. CASE j = i /\ ReadFollowers(i)
    <3>1. Busy(i) /\ Queued(j, p)' = Queued(j, p) /\ task[i].at = "start"
      BY <2>8, QueuedFrame DEF ReadFollowers, queueVars, Busy
    <3>2. task'[i].post = task[i].post
      <4>1. PICK f \in States :
                task' = [task EXCEPT ![i].at = "push",
                                     ![i].to = GetFollowers(f, Author[task[i].post])]
        BY <2>8 DEF ReadFollowers
      <4>2. task'[i] = [task[i] EXCEPT !.at = "push",
                                       !.to = GetFollowers(f, Author[task[i].post])]
        BY <4>1 DEF InstanceType
      <4> QED
        BY <3>1, <4>2, BusyTask
    <3>3. InHand(j, p)' <= InHand(j, p)
      BY <2>8, <3>1, <3>2 DEF InHand
    <3>4. InHand(j, p)' \in Nat
      BY DEF InHand
    <3> QED
      BY <2>1, <2>2, <2>3, <3>1, <3>3, <3>4
  <2>9. CASE j = i /\ Ack(i)
    <3>1. InHand(j, p)' = 0 /\ Queued(j, p)' = Queued(j, p)
      BY <2>9, QueuedFrame DEF Ack, EndProcess, InstanceType, InHand, FreeTask
    <3> QED
      BY <2>1, <2>2, <2>3, <3>1
  <2> QED
    BY <2>4, <2>5, <2>6, <2>7, <2>8, <2>9
<1>3. \A s \in Session, p \in Post : Shown(s, p)' <= Shown(s, p)
  BY <1>1, SessionsUnchanged, SameIsFew
<1> QED
  BY <1>1, <1>2, <1>3, SessionsUnchanged, FewCopies

(* Notify moves the copy in the handler's hand to the sessions it is for.    *)
LEMMA CopiesWhenNotified ==
    ASSUME TypeInv, TypeInv', CopyInv, [Next]_vars, NEW i \in Instance, Notify(i)
    PROVE  CopyInv'
<1> USE DEF TypeInv
<1> DEFINE q == task[i].post
<1>1. /\ UNCHANGED <<inbox, lost, entries, conn, sent>>
      /\ UNCHANGED <<times, faults, repeats>>
      /\ task[i].at = "push" /\ Busy(i)
  BY DEF Notify, Push, Busy, announceVars, queueVars
<1>2. q \in Post /\ task'[i].at = "done"
  <2>1. task'[i] = [task[i] EXCEPT !.at = "done"]
    BY DEF Notify, Push, InstanceType
  <2> QED
    BY <1>1, <2>1, BusyTask
<1>3. \A j \in Instance : j # i => task'[j] = task[j]
  BY DEF Notify, Push, InstanceType
<1>4. \A p \in Post : MayCopies(p)' = MayCopies(p)
  BY <1>1 DEF MayCopies
<1>5. \A j \in Instance, p \in Post : j # i => AtHand(j, p)' = AtHand(j, p)
  BY <1>1, <1>3, QueuedFrame DEF AtHand, InHand
<1>6. \A p \in Post : AtHand(i, p) = AtHand(i, p)' + (IF q = p THEN 1 ELSE 0)
  <2> TAKE p \in Post
  <2>1. Queued(i, p) \in Nat
    BY CountsAreNat
  <2>2. InHand(i, p) = (IF q = p THEN 1 ELSE 0) /\ InHand(i, p)' = 0
    BY <1>1, <1>2 DEF InHand
  <2>3. AtHand(i, p) = Queued(i, p) + InHand(i, p)
    BY DEF AtHand
  <2>4. AtHand(i, p)' = Queued(i, p) + InHand(i, p)'
    BY <1>1, QueuedFrame DEF AtHand
  <2> QED
    BY <2>1, <2>2, <2>3, <2>4
<1>7. \A s \in Session, p \in Post :
          \/ Shown(s, p)' = Shown(s, p)
          \/ s \in entries[i] /\ Shown(s, p)' = Shown(s, p) + (IF q = p THEN 1 ELSE 0)
  <2> TAKE s \in Session, p \in Post
  <2>1. out[s] \in Seq(Post) /\ sent[s] \in Seq(Post)
    BY DEF SessionType
  <2>2. \/ out'[s] = out[s]
        \/ s \in entries[i] /\ out'[s] = Append(out[s], q)
    BY DEF Notify, Push, Live
  <2>3. Copies(Append(out[s], q), p) = Copies(out[s], p) + (IF q = p THEN 1 ELSE 0)
    BY <1>2, <2>1, CopiesAppended
  <2>4. Copies(out[s], p) \in Nat /\ Copies(sent[s], p) \in Nat
    BY <2>1, CopiesFinite
  <2>5. Shown(s, p) = Copies(sent[s], p) + Copies(out[s], p)
    BY DEF Shown
  <2>6. Shown(s, p)' = Copies(sent[s], p) + Copies(out'[s], p)
    BY <1>1 DEF Shown
  <2>7. CASE out'[s] = out[s]
    BY <2>5, <2>6, <2>7
  <2>8. CASE s \in entries[i] /\ out'[s] = Append(out[s], q)
    <3>1. Shown(s, p)' = Copies(sent[s], p) + Copies(Append(out[s], q), p)
      BY <2>6, <2>8
    <3> QED
      BY <2>3, <2>4, <2>5, <2>8, <3>1
  <2> QED
    BY <2>2, <2>7, <2>8
<1>8. /\ \A j \in Instance, p \in Post : AtHand(j, p) \in Nat /\ AtHand(j, p)' \in Nat
      /\ \A s \in Session, p \in Post : Shown(s, p) \in Nat /\ Shown(s, p)' \in Nat
      /\ \A p \in Post : MayCopies(p) \in Nat
  BY CountsAreNat, NextCountsAreNat
<1>9. \A j \in Instance, p \in Post : AtHand(j, p)' <= AtHand(j, p)
  <2> TAKE j \in Instance, p \in Post
  <2>1. CASE j = i
    BY <1>6, <1>8, <2>1
  <2>2. CASE j # i
    BY <1>5, <1>8, <2>2
  <2> QED
    BY <2>1, <2>2
<1>10. \A j \in Instance, p \in Post : AtHand(j, p)' <= MayCopies(p)'
  BY <1>4, <1>8, <1>9 DEF CopyInv
<1>11. \A s \in entries[i], p \in Post : Shown(s, p)' + AtHand(i, p)' <= MayCopies(p)
  <2> TAKE s \in entries[i], p \in Post
  <2>1. s \in Session /\ Shown(s, p) + AtHand(i, p) <= MayCopies(p)
    BY DEF CopyInv, SessionType
  <2>2. AtHand(i, p) = AtHand(i, p)' + (IF q = p THEN 1 ELSE 0)
    BY <1>6
  <2>3. \/ Shown(s, p)' = Shown(s, p)
        \/ Shown(s, p)' = Shown(s, p) + (IF q = p THEN 1 ELSE 0)
    BY <1>7, <2>1
  <2>4. Shown(s, p) \in Nat /\ Shown(s, p)' \in Nat
    BY <1>8, <2>1
  <2> QED
    BY <1>8, <2>1, <2>2, <2>3, <2>4
<1>12. \A s \in Session, p \in Post : Shown(s, p)' <= MayCopies(p)
  <2> TAKE s \in Session, p \in Post
  <2>1. CASE s \in entries[i]
    BY <1>8, <1>11, <2>1
  <2>2. CASE s \notin entries[i]
    <3>1. Shown(s, p)' = Shown(s, p)
      BY <1>7, <2>2
    <3> QED
      BY <3>1 DEF CopyInv
  <2> QED
    BY <2>1, <2>2
<1>13. \A j \in Instance, p \in Post : \A s \in entries[j] :
          Shown(s, p)' + AtHand(j, p)' <= MayCopies(p)
  <2> TAKE j \in Instance, p \in Post
  <2> TAKE s \in entries[j]
  <2>1. CASE j = i
    BY <1>11, <2>1
  <2>2. CASE j # i
    <3>1. s \in Session /\ s \notin entries[i]
      BY <2>2 DEF SessionType, Registered
    <3>2. Shown(s, p)' = Shown(s, p) /\ AtHand(j, p)' = AtHand(j, p)
      BY <1>5, <1>7, <2>2, <3>1
    <3> QED
      BY <3>2 DEF CopyInv
  <2> QED
    BY <2>1, <2>2
<1> QED
  BY <1>1, <1>4, <1>10, <1>12, <1>13 DEF CopyInv

(* What moves when a session begins, sends or ends.                          *)
LEMMA CopiesWhenConnected ==
    ASSUME TypeInv, TypeInv', CopyInv, [Next]_vars, NEW x \in Session, NEW i \in Instance,
           Connect(x, i)
    PROVE  CopyInv'
<1> USE DEF TypeInv
<1>1. /\ UNCHANGED instanceVars /\ UNCHANGED <<out, sent>>
      /\ conn[x] = "new" /\ conn'[x] = "open"
      /\ \A s \in Session : s # x => conn'[s] = conn[s]
      /\ \A j \in Instance : entries'[j] \subseteq entries[j] \cup {x}
  BY DEF Connect, SessionType
<1>2. \A j \in Instance, p \in Post : AtHand(j, p)' = AtHand(j, p)
  BY <1>1, InstancesUnchanged
<1>3. \A s \in Session, p \in Post : Shown(s, p)' = Shown(s, p)
  BY <1>1 DEF Shown
<1>4. \A p \in Post : MayCopies(p)' = MayCopies(p)
  BY DEF Connect, announceVars, MayCopies
<1>5. \A p \in Post : Shown(x, p) = 0
  <2> TAKE p \in Post
  <2>1. sent[x] = <<>> /\ out[x] = <<>>
    BY <1>1 DEF CopyInv, Registered
  <2>2. Copies(sent[x], p) = 0 /\ Copies(out[x], p) = 0
    BY <2>1, CopiesOfNone
  <2> QED
    BY <2>2 DEF Shown
<1>6. \A j \in Instance, p \in Post : \A s \in entries'[j] :
          Shown(s, p)' + AtHand(j, p)' <= MayCopies(p)'
  <2> TAKE j \in Instance, p \in Post
  <2> TAKE s \in entries'[j]
  <2>1. CASE s = x
    <3>1. AtHand(j, p) \in Nat /\ AtHand(j, p) <= MayCopies(p)
      BY CountsAreNat DEF CopyInv
    <3>2. Shown(s, p)' + AtHand(j, p)' = 0 + AtHand(j, p)
      BY <1>2, <1>3, <1>5, <2>1
    <3> QED
      BY <1>4, <3>1, <3>2
  <2>2. CASE s # x
    <3>1. s \in entries[j] /\ s \in Session
      BY <1>1, <2>2 DEF SessionType
    <3> QED
      BY <1>2, <1>3, <1>4, <3>1 DEF CopyInv
  <2> QED
    BY <2>1, <2>2
<1>7. \A s \in Session : conn'[s] = "new" => sent'[s] = <<>>
  BY <1>1 DEF CopyInv
<1> QED
  BY <1>2, <1>3, <1>4, <1>6, <1>7 DEF CopyInv

LEMMA CopiesWhenSent ==
    ASSUME TypeInv, TypeInv', CopyInv, [Next]_vars, NEW x \in Session, Send(x)
    PROVE  CopyInv'
<1> USE DEF TypeInv
<1>1. /\ UNCHANGED instanceVars /\ UNCHANGED <<entries, conn>> /\ conn[x] = "open"
      /\ out[x] \in Seq(Post) /\ out[x] # <<>> /\ sent[x] \in Seq(Post)
      /\ sent'[x] = Append(sent[x], Head(out[x])) /\ out'[x] = Tail(out[x])
      /\ \A s \in Session : s # x => sent'[s] = sent[s] /\ out'[s] = out[s]
  BY DEF Send, SessionType
<1>2. \A s \in Session, p \in Post : Shown(s, p)' = Shown(s, p)
  <2> TAKE s \in Session, p \in Post
  <2>1. CASE s # x
    BY <1>1, <2>1 DEF Shown
  <2>2. CASE s = x
    <3>1. Head(out[x]) \in Post /\ Tail(out[x]) \in Seq(Post)
      BY <1>1, HeadTailProperties
    <3>2. Copies(Append(sent[x], Head(out[x])), p)
              = Copies(sent[x], p) + (IF Head(out[x]) = p THEN 1 ELSE 0)
      BY <1>1, <3>1, CopiesAppended
    <3>3. Copies(out[x], p) = Copies(Tail(out[x]), p) + (IF Head(out[x]) = p THEN 1 ELSE 0)
      BY <1>1, CopiesBehindHead
    <3>4. Copies(sent[x], p) \in Nat /\ Copies(Tail(out[x]), p) \in Nat
      BY <1>1, <3>1, CopiesFinite
    <3>5. Shown(x, p)' = Copies(Append(sent[x], Head(out[x])), p) + Copies(Tail(out[x]), p)
      BY <1>1 DEF Shown
    <3>6. Shown(x, p) = Copies(sent[x], p) + Copies(out[x], p)
      BY DEF Shown
    <3> QED
      BY <2>2, <3>2, <3>3, <3>4, <3>5, <3>6
  <2> QED
    BY <2>1, <2>2
<1>3. \A j \in Instance, p \in Post : AtHand(j, p)' <= AtHand(j, p)
  BY <1>1, InstancesUnchanged, SameIsFew
<1>4. \A s \in Session, p \in Post : Shown(s, p)' <= Shown(s, p)
  BY <1>2, SameIsFew
<1>5. \A s \in Session : conn'[s] = "new" => conn[s] = "new" /\ sent'[s] = sent[s]
  BY <1>1
<1> QED
  BY <1>1, <1>3, <1>4, <1>5, FewCopies

(* Whatever ends a session leaves nothing to be sent to it.                  *)
LEMMA CopiesWhenOver ==
    ASSUME TypeInv, TypeInv', CopyInv, [Next]_vars,
           \/ \E x \in Session : Disconnect(x) \/ Unsubscribe(x) \/ Unwind(x)
           \/ \E i \in Instance : Crash(i)
    PROVE  CopyInv'
<1> USE DEF TypeInv
<1>1. /\ sent' = sent
      /\ \A s \in Session : out'[s] = out[s] \/ out'[s] = <<>>
      /\ \A s \in Session : conn'[s] = "new" => conn[s] = "new"
      /\ \A j \in Instance : entries'[j] \subseteq entries[j]
  <2> DEFINE Fewer ==
          /\ sent' = sent
          /\ \A s \in Session : out'[s] = out[s] \/ out'[s] = <<>>
          /\ \A s \in Session : conn'[s] = "new" => conn[s] = "new"
          /\ \A j \in Instance : entries'[j] \subseteq entries[j]
  <2>1. ASSUME NEW x \in Session, Disconnect(x) PROVE Fewer
    BY <2>1 DEF Disconnect, SessionType
  <2>2. ASSUME NEW x \in Session, Unsubscribe(x) PROVE Fewer
    <3>1. \A j \in Instance : entries'[j] \subseteq entries[j]
      BY <2>2 DEF Unsubscribe, SessionType
    <3> QED
      BY <2>2, <3>1 DEF Unsubscribe, EndHandle, SessionType
  <2>3. ASSUME NEW x \in Session, Unwind(x) PROVE Fewer
    BY <2>3 DEF Unwind, EndHandle, SessionType
  <2>4. ASSUME NEW i \in Instance, Crash(i) PROVE Fewer
    BY <2>4 DEF Crash, SessionType
  <2> QED
    BY <2>1, <2>2, <2>3, <2>4
<1>2. \A j \in Instance : /\ \/ inbox'[j] = inbox[j] /\ lost'[j] = lost[j]
                             \/ inbox'[j] = <<>> /\ lost'[j] = {}
                          /\ task'[j] = task[j] \/ task'[j] = FreeTask
  BY DEF Disconnect, Unsubscribe, Unwind, EndHandle, Crash, LoseQueue, InstanceType,
         instanceVars
<1>3. \A s \in Session, p \in Post : Shown(s, p)' <= Shown(s, p)
  <2> TAKE s \in Session, p \in Post
  <2>1. Copies(sent[s], p) \in Nat /\ Copies(out[s], p) \in Nat /\ Copies(<<>>, p) = 0
    BY CopiesFinite, CopiesOfNone DEF SessionType
  <2>2. Shown(s, p) = Copies(sent[s], p) + Copies(out[s], p)
    BY DEF Shown
  <2>3. Shown(s, p)' = Copies(sent[s], p) + Copies(out'[s], p)
    BY <1>1 DEF Shown
  <2>4. Copies(out'[s], p) = Copies(out[s], p) \/ Copies(out'[s], p) = 0
    BY <1>1, <2>1
  <2> QED
    BY <2>1, <2>2, <2>3, <2>4
<1>4. \A j \in Instance, p \in Post : AtHand(j, p)' <= AtHand(j, p)
  <2> TAKE j \in Instance, p \in Post
  <2>1. Queued(j, p) \in Nat /\ InHand(j, p) \in Nat
    BY CountsAreNat DEF InHand
  <2>2. AtHand(j, p) = Queued(j, p) + InHand(j, p)
    BY DEF AtHand
  <2>3. AtHand(j, p)' = Queued(j, p)' + InHand(j, p)'
    BY DEF AtHand
  <2>4. Queued(j, p)' = Queued(j, p) \/ Queued(j, p)' = 0
    BY <1>2, QueuedFrame, QueueLost
  <2>5. InHand(j, p)' = InHand(j, p) \/ InHand(j, p)' = 0
    BY <1>2 DEF InHand, FreeTask
  <2> QED
    BY <2>1, <2>2, <2>3, <2>4, <2>5
<1> QED
  BY <1>1, <1>3, <1>4, FewCopies

LEMMA CopyInvariant == Spec => []CopyInv
<1>1. Init => CopyInv
  <2> SUFFICES ASSUME Init PROVE CopyInv
    OBVIOUS
  <2>1. \A i \in Instance, p \in Post : AtHand(i, p) = 0
    BY CopiesOfNone, FS_EmptySet DEF Init, AtHand, Queued, Holding, InHand, FreeTask
  <2>2. \A s \in Session, p \in Post : Shown(s, p) = 0
    BY CopiesOfNone DEF Init, Shown
  <2>3. \A p \in Post : MayCopies(p) = 0
    BY DEF Init, MayCopies
  <2> QED
    BY <2>1, <2>2, <2>3 DEF Init, CopyInv
<1>2. TypeInv /\ TypeInv' /\ HearInv /\ CopyInv /\ [Next]_vars => CopyInv'
  <2> SUFFICES ASSUME TypeInv, TypeInv', HearInv, CopyInv, [Next]_vars PROVE CopyInv'
    OBVIOUS
  <2>1. ASSUME \/ \E u \in User, w \in Writer : Befriend(u, w) \/ Unfriend(u, w)
               \/ Replicate
               \/ \E p \in Post : AnnouncementLost(p)
               \/ UNCHANGED vars
        PROVE  UNCHANGED <<instanceVars, sessionVars>>
    BY <2>1 DEF Befriend, Unfriend, Replicate, AnnouncementLost, vars, instanceVars,
       sessionVars
  <2>2. ASSUME NEW i \in Instance, Lifecycle(i) \/ Processing(i) PROVE CopyInv'
    BY <2>2, CopiesWhenUnacked, CopiesWhenHeld, CopiesWhenHandled, CopiesWhenNotified,
       CopiesWhenOver DEF Lifecycle, Processing
  <2>3. ASSUME NEW s \in Session, Handling(s) PROVE CopyInv'
    BY <2>3, CopiesWhenConnected, CopiesWhenSent, CopiesWhenOver DEF Handling
  <2> QED
    BY <2>1, <2>2, <2>3, CopiesWhenFriendsChange, CopiesWhenAnnounced DEF Next
<1>3. TypeInv /\ [Next]_vars => TypeInv'
  BY NextType
<1> QED
  BY <1>1, <1>2, <1>3, TypeInvariant, HearInvariant, PTL DEF Spec

-----------------------------------------------------------------------------
(* What the clients see.                                                     *)
Owed    == {d \in due : d[2] \notin Elements(sent[d[1]])}
Told    == [s \in Session |-> [p \in Post |-> Copies(sent[s], p)]]
Mishaps == faults + repeats

LEMMA WhatIsSeen ==
    /\ UNCHANGED wal => States' = States
    /\ UNCHANGED times => Announced' = Announced
    /\ UNCHANGED sent => Told' = Told
    /\ UNCHANGED <<due, sent>> => Owed' = Owed
    /\ UNCHANGED <<faults, repeats>> => Mishaps' = Mishaps
  BY DEF States, Announced, Told, Owed, Mishaps

LEMMA FriendsAreAChange ==
    ASSUME TypeInv, TypeInv', HearInv,
           \/ \E u \in User, w \in Writer : Befriend(u, w) \/ Unfriend(u, w)
           \/ Replicate
    PROVE  Promise!Change
<1> USE DEF TypeInv
<1>1. UNCHANGED <<times, sent, faults, repeats>>
  BY DEF Befriend, Unfriend, Replicate, announceVars, sessionVars
<1>2. Announced' = Announced /\ Told' = Told /\ Mishaps' = Mishaps
  BY <1>1, WhatIsSeen
<1>3. mayHear' = mayHear \cup Promise!Followers(States', Announced)
  BY FriendsMayHear DEF HearInv
<1>4. wal' \in Seq(Friendships) /\ Len(wal') \in Nat \ {0} /\ wal'[Len(wal')] \in States'
  <2>1. wal' \in Seq(Friendships) /\ Len(wal') \in Nat \ {0}
    BY WsBoundAssumption DEF WalType
  <2> QED
    BY <2>1 DEF States
<1>5. due' \subseteq due
  BY DEF Befriend, Unfriend, Replicate
<1>6. Owed' \subseteq Owed
  BY <1>1, <1>5 DEF Owed
<1>7. \A d \in Owed \ Owed' : \E f \in States' : ~ Promise!Follows(f, Owner[d[1]], d[2])
  <2> SUFFICES ASSUME NEW d \in due, d \notin due'
               PROVE  \E f \in States' : ~ Promise!Follows(f, Owner[d[1]], d[2])
    BY <1>1 DEF Owed
  <2>1. PICK u \in User, w \in Writer : Unfriend(u, w)
    BY DEF Befriend, Replicate
  <2>2. Owner[d[1]] = u /\ Author[d[2]] = w
    BY <2>1 DEF Unfriend
  <2>3. wal'[Len(wal')] = db \ {<<u, w>>}
    <3> DEFINE new == db \ {<<u, w>>}
    <3>1. wal' = Append(wal, new) \/ wal' = Append(Tail(wal), new)
      BY <2>1 DEF Unfriend, Write
    <3>2. wal \in Seq(Friendships) /\ Tail(wal) \in Seq(Friendships) /\ new \in Friendships
      BY MasterIsRead DEF WalType, Friendships
    <3> QED
      BY <3>1, <3>2
  <2> QED
    BY <1>4, <2>2, <2>3 DEF Promise!Follows
<1>8. States' # {}
  BY <1>4
<1> QED
  BY <1>2, <1>3, <1>6, <1>7, <1>8 DEF Promise!Change, Owed, Told, Mishaps

LEMMA MishapsGrow ==
    ASSUME TypeInv, [Next]_vars
    PROVE  Mishaps' >= Mishaps
<1>1. faults \in Nat /\ faults' \in Nat /\ faults' >= faults
  BY FaultsGrow
<1>2. \/ times' = times /\ repeats' = repeats
      \/ \E p \in Post : Upstream!Announce(p)
  BY DEF Next, vars, Befriend, Unfriend, Replicate, Announce, AnnouncementLost, Lifecycle,
         Start, LoseChannel, Misdeliver, Notice, AutoDelete, Resubscribe, Crash,
         Processing, Deliver,
         ReadFollowers, ReadFails, EndProcess, Notify, Push, Ack, Handling, Connect, Send,
         Disconnect, Unsubscribe, EndHandle, Unwind, announceVars
<1>3. repeats \in Nat /\ repeats' \in Nat /\ repeats' >= repeats
  BY <1>2 DEF Upstream!Announce, TypeInv, CountType
<1>4. \A a, b, c, d \in Nat : c >= a /\ d >= b => c + d >= a + b
  OBVIOUS
<1> QED
  BY <1>1, <1>3, <1>4 DEF Mishaps

LEMMA AnnouncementsAreThat ==
    ASSUME TypeInv, HearInv, [Next]_vars, NEW p \in Post, Announce(p) \/ AnnouncementLost(p)
    PROVE  Promise!Announce(p)
<1> USE DEF TypeInv
<1>1. /\ Announced' = Announced \cup {p}
      /\ mayHear' = mayHear \cup Promise!Followers(States, {p})
      /\ States' = States
  BY AnnouncedMayHear, WhatIsSeen DEF HearInv
<1>2. sent' = sent /\ Told' = Told
  BY WhatIsSeen DEF Announce, AnnouncementLost, sessionVars
<1>3. due \subseteq due' /\ due' \subseteq due \cup (Due(p) \X {p})
  BY DEF Announce, AnnouncementLost
<1>4. Owed \subseteq Owed'
  BY <1>2, <1>3 DEF Owed
<1>5. \A d \in Owed' \ Owed :
          d[2] = p /\ \A f \in States : Promise!Follows(f, Owner[d[1]], p)
  BY <1>2, <1>3 DEF Owed, Due, Promise!Follows
<1> QED
  BY <1>1, <1>2, <1>4, <1>5, MishapsGrow DEF Promise!Announce, Owed, Told, Mishaps

LEMMA FaultsAreMishaps ==
    ASSUME TypeInv, [Next]_vars,
           \/ \E i \in Instance : LoseChannel(i) \/ ReadFails(i) \/ AutoDelete(i) \/ Crash(i)
           \/ \E s \in Session : Disconnect(s) \/ Unwind(s)
    PROVE  Promise!Mishap
<1> USE DEF TypeInv
<1>1. UNCHANGED <<wal, times, sent, mayHear>>
  BY DEF LoseChannel, ReadFails, EndProcess, AutoDelete, Crash, Disconnect, Unwind,
     EndHandle,
         announceVars, sessionVars
<1>2. States' = States /\ Announced' = Announced /\ Told' = Told
  BY <1>1, WhatIsSeen
<1>3. \E S \in SUBSET Session : due' = {d \in due : d[1] \notin S}
  <2> DEFINE Lose(S) == due' = {d \in due : d[1] \notin S}
  <2>1. ASSUME NEW i \in Instance, LoseChannel(i) \/ ReadFails(i) PROVE Lose({})
    BY <2>1 DEF LoseChannel, ReadFails, EndProcess
  <2>2. ASSUME NEW i \in Instance, AutoDelete(i) \/ Crash(i)
        PROVE  Lose(entries[i]) /\ entries[i] \in SUBSET Session
    BY <2>2 DEF AutoDelete, Crash, LoseQueue, SessionType
  <2>3. ASSUME NEW s \in Session, Disconnect(s) \/ Unwind(s) PROVE Lose({s})
    BY <2>3 DEF Disconnect, Unwind
  <2>4. {} \in SUBSET Session /\ \A s \in Session : {s} \in SUBSET Session
    OBVIOUS
  <2> HIDE DEF Lose
  <2>5. \E S \in SUBSET Session : Lose(S)
    BY <2>1, <2>2, <2>3, <2>4
  <2> QED
    BY <2>5 DEF Lose
<1>4. \E S \in SUBSET Session : Owed' = {d \in Owed : d[1] \notin S}
  <2>1. PICK S \in SUBSET Session : due' = {d \in due : d[1] \notin S}
    BY <1>3
  <2>2. Owed' = {d \in Owed : d[1] \notin S}
    BY <1>1, <2>1 DEF Owed
  <2> QED
    BY <2>2
<1> QED
  BY <1>1, <1>2, <1>4, MishapsGrow DEF Promise!Mishap, Owed, Told, Mishaps

LEMMA SendingTells ==
    ASSUME TypeInv, HearInv, CopyInv, NEW s \in Session, Send(s),
           NEW p \in Post, p = Head(out[s])
    PROVE  Promise!Tell(s, p)
<1> USE DEF TypeInv
<1>1. /\ UNCHANGED <<wal, times, faults, repeats, due, mayHear>>
      /\ out[s] \in Seq(Post) /\ out[s] # <<>> /\ sent[s] \in Seq(Post)
      /\ sent' = [sent EXCEPT ![s] = Append(sent[s], p)]
      /\ sent'[s] = Append(sent[s], p)
      /\ \A x \in Session : x # s => sent'[x] = sent[x]
  BY DEF Send, SessionType, announceVars
<1>2. p \in Elements(out[s]) /\ Tail(out[s]) \in Seq(Post)
  <2>1. Elements(out[s]) = Elements(Tail(out[s])) \cup {p}
    BY <1>1, HeadTailProperties, ElementsOfQueues
  <2> QED
    BY <1>1, <2>1, HeadTailProperties
<1>3. <<Owner[s], p>> \in mayHear
  BY <1>2 DEF HearInv, ToldMayHear
<1>4. Copies(sent[s], p) <= Mishaps
  <2>1. Copies(out[s], p) = Copies(Tail(out[s]), p) + 1
    BY <1>1, CopiesBehindHead
  <2>2. Copies(sent[s], p) \in Nat /\ Copies(Tail(out[s]), p) \in Nat
    BY <1>1, <1>2, CopiesFinite
  <2>3. Shown(s, p) <= MayCopies(p)
    BY <1>2 DEF CopyInv
  <2>4. Shown(s, p) = Copies(sent[s], p) + Copies(out[s], p)
    BY DEF Shown
  <2>5. faults \in Nat /\ repeats \in Nat /\ MayCopies(p) <= 1 + faults + repeats
    BY DEF CountType, MayCopies
  <2>6. MayCopies(p) \in Nat
    BY <1>2, CountsAreNat
  <2> QED
    BY <2>1, <2>2, <2>3, <2>4, <2>5, <2>6 DEF Mishaps
<1>5. Told' = [Told EXCEPT ![s][p] = @ + 1]
  <2> DEFINE T == [Told EXCEPT ![s][p] = @ + 1]
  <2>1. \A x \in Session, q \in Post : Copies(sent'[x], q) = T[x][q]
    <3> TAKE x \in Session, q \in Post
    <3>1. CASE x # s
      BY <1>1, <3>1 DEF Told
    <3>2. CASE x = s
      <4>1. Copies(Append(sent[s], p), q) = Copies(sent[s], q) + (IF p = q THEN 1 ELSE 0)
        BY <1>1, <1>2, CopiesAppended
      <4>2. Copies(sent[s], q) \in Nat
        BY <1>1, CopiesFinite
      <4>3. T[s][q] = IF q = p THEN Copies(sent[s], q) + 1 ELSE Copies(sent[s], q)
        BY <1>2 DEF Told
      <4> QED
        BY <1>1, <3>2, <4>1, <4>2, <4>3
    <3> QED
      BY <3>1, <3>2
  <2>2. T = [x \in Session |-> T[x]]
    BY DEF Told
  <2>3. DOMAIN T = Session /\ \A x \in Session : T[x] = [q \in Post |-> T[x][q]]
    BY DEF Told
  <2> HIDE DEF T
  <2>4. Told' = [x \in Session |-> [q \in Post |-> T[x][q]]]
    BY <2>1 DEF Told
  <2>5. [x \in Session |-> T[x]] = [x \in Session |-> [q \in Post |-> T[x][q]]]
    BY <2>3
  <2>6. Told' = T
    BY <2>2, <2>4, <2>5
  <2> QED
    BY <2>6 DEF T
<1>6. Owed' = Owed \ {<<s, p>>}
  <2>1. Elements(Append(sent[s], p)) = Elements(sent[s]) \cup {p}
    BY <1>1, <1>2, ElementsOfQueues
  <2>2. \A d \in due : d = <<d[1], d[2]>> /\ d[1] \in Session
    BY DEF HistoryType
  <2>3. \A d \in due : d[2] \notin Elements(sent'[d[1]])
                        <=> d[2] \notin Elements(sent[d[1]]) /\ d # <<s, p>>
    <3> TAKE d \in due
    <3>1. CASE d[1] # s
      BY <1>1, <2>2, <3>1
    <3>2. CASE d[1] = s
      <4>1. d = <<s, p>> <=> d[2] = p
        BY <2>2, <3>2
      <4> QED
        BY <1>1, <2>1, <3>2, <4>1
    <3> QED
      BY <3>1, <3>2
  <2> QED
    BY <1>1, <2>3 DEF Owed
<1>7. /\ States' = States /\ Announced' = Announced /\ Mishaps' = Mishaps
      /\ mayHear' = mayHear
  BY <1>1, WhatIsSeen
<1>8. Told[s][p] = Copies(sent[s], p)
  BY <1>2 DEF Told
<1> QED
  BY <1>3, <1>4, <1>5, <1>6, <1>7, <1>8 DEF Promise!Tell, Told, Owed, Mishaps

(* NotifiesAsPromised: seen from the clients, every step of the fan-out is   *)
(* one that the abstract specification allows, or is not seen.               *)
THEOREM NotificationsImplemented == Spec => NotifiesAsPromised
<1>1. Init => Promise!Init
  <2> SUFFICES ASSUME Init PROVE Promise!Init
    OBVIOUS
  <2>1. PICK f \in SUBSET (User \X Writer) : wal = <<f>>
    BY DEF Init
  <2>2. States = {f}
    BY <2>1 DEF States
  <2>3. Announced = {} /\ Mishaps = 0 /\ Owed = {} /\ mayHear = {}
    BY DEF Init, Announced, Mishaps, Owed
  <2>4. Told = [s \in Session |-> [p \in Post |-> 0]]
    BY CopiesOfNone DEF Init, Told
  <2> QED
    BY <2>2, <2>3, <2>4 DEF Promise!Init, Told, Owed, Mishaps
<1>2. TypeInv /\ TypeInv' /\ HearInv /\ CopyInv /\ [Next]_vars => [Promise!Next]_(Promise!vars)
  <2> SUFFICES ASSUME TypeInv, TypeInv', HearInv, CopyInv, [Next]_vars
               PROVE  Promise!Next \/ UNCHANGED Promise!vars
    OBVIOUS
  <2>1. ASSUME UNCHANGED <<wal, times, repeats, faults, mayHear, due, sent>>
        PROVE  UNCHANGED Promise!vars
    BY <2>1, WhatIsSeen DEF Promise!vars, Told, Owed, Mishaps
  <2>2. ASSUME NEW i \in Instance,
               \/ Start(i) \/ Resubscribe(i) \/ Misdeliver(i) \/ Notice(i)
               \/ Deliver(i) \/ ReadFollowers(i) \/ Notify(i) \/ Ack(i)
        PROVE  UNCHANGED <<wal, times, repeats, faults, mayHear, due, sent>>
    BY <2>2 DEF Start, Resubscribe, Misdeliver, Notice, Deliver, ReadFollowers, Notify,
       Push,
                Ack, EndProcess, announceVars, sessionVars
  <2>3. ASSUME NEW s \in Session, Unsubscribe(s) \/ \E i \in Instance : Connect(s, i)
        PROVE  UNCHANGED <<wal, times, repeats, faults, mayHear, due, sent>>
    BY <2>3 DEF Unsubscribe, EndHandle, Connect, announceVars
  <2>4. ASSUME UNCHANGED vars
        PROVE  UNCHANGED <<wal, times, repeats, faults, mayHear, due, sent>>
    BY <2>4 DEF vars
  <2>5. ASSUME NEW i \in Instance, Lifecycle(i) \/ Processing(i)
        PROVE  Promise!Next \/ UNCHANGED Promise!vars
    BY <2>1, <2>2, <2>5, FaultsAreMishaps DEF Lifecycle, Processing, Promise!Next
  <2>6. ASSUME NEW s \in Session, Handling(s)
        PROVE  Promise!Next \/ UNCHANGED Promise!vars
    <3>1. CASE Send(s)
      <4>1. out[s] \in Seq(Post) /\ out[s] # <<>>
        BY <3>1 DEF Send, TypeInv, SessionType
      <4>2. PICK p \in Post : p = Head(out[s])
        BY <4>1, HeadTailProperties
      <4>3. Promise!Tell(s, p)
        BY <3>1, <4>2, SendingTells
      <4> QED
        BY <4>3 DEF Promise!Next
    <3>2. CASE Disconnect(s) \/ Unwind(s)
      BY <3>2, FaultsAreMishaps DEF Promise!Next
    <3> QED
      BY <2>1, <2>3, <2>6, <3>1, <3>2 DEF Handling
  <2>7. ASSUME \/ \E u \in User, w \in Writer : Befriend(u, w) \/ Unfriend(u, w)
               \/ Replicate
        PROVE  Promise!Next
    BY <2>7, FriendsAreAChange DEF Promise!Next
  <2>8. ASSUME NEW p \in Post, Announce(p) \/ AnnouncementLost(p)
        PROVE  Promise!Next
    BY <2>8, AnnouncementsAreThat DEF Promise!Next
  <2> QED
    BY <2>1, <2>4, <2>5, <2>6, <2>7, <2>8 DEF Next
<1>3. TypeInv /\ [Next]_vars => TypeInv'
  BY NextType
<1> QED
  BY <1>1, <1>2, <1>3, TypeInvariant, HearInvariant, CopyInvariant, PTL
     DEF Spec, NotifiesAsPromised, Promise!Spec

-----------------------------------------------------------------------------
(* The order of two posts in a queue, and what the operations on a queue do  *)
(* to it.                                                                    *)
LEMMA OrderAppended ==
    ASSUME NEW q \in Seq(Post), NEW x \in Post, NEW a, NEW b
    PROVE  /\ Precedes(Append(q, x), a, b) => Precedes(q, a, b) \/ (a \in Elements(q) /\ x = b)
           /\ Precedes(q, a, b) => Precedes(Append(q, x), a, b)
           /\ a \in Elements(q) /\ x = b => Precedes(Append(q, x), a, b)
<1> DEFINE r == Append(q, x)
<1>1. /\ DOMAIN q = 1 .. Len(q) /\ DOMAIN r = 1 .. Len(q) + 1 /\ Len(q) \in Nat
      /\ \A k \in 1 .. Len(q) : r[k] = q[k] /\ k \in DOMAIN r
      /\ r[Len(q) + 1] = x
  OBVIOUS
<1> HIDE DEF r
<1>2. ASSUME Precedes(r, a, b) PROVE Precedes(q, a, b) \/ (a \in Elements(q) /\ x = b)
  <2>1. PICK j, k \in DOMAIN r : j < k /\ r[j] = a /\ r[k] = b
    BY <1>2 DEF Precedes
  <2>2. j \in 1 .. Len(q) /\ q[j] = a
    BY <1>1, <2>1
  <2>3. CASE k = Len(q) + 1
    BY <1>1, <2>1, <2>2, <2>3 DEF Elements
  <2>4. CASE k # Len(q) + 1
    <3>1. k \in 1 .. Len(q) /\ q[k] = b
      BY <1>1, <2>1, <2>4
    <3> QED
      BY <1>1, <2>1, <2>2, <3>1 DEF Precedes
  <2> QED
    BY <2>3, <2>4
<1>3. Precedes(q, a, b) => Precedes(r, a, b)
  BY <1>1 DEF Precedes
<1>4. ASSUME a \in Elements(q), x = b PROVE Precedes(r, a, b)
  <2>1. PICK j \in 1 .. Len(q) : q[j] = a
    BY <1>1, <1>4 DEF Elements
  <2>2. /\ j \in DOMAIN r /\ Len(q) + 1 \in DOMAIN r /\ j < Len(q) + 1
        /\ r[j] = a /\ r[Len(q) + 1] = b
    BY <1>1, <1>4, <2>1
  <2> QED
    BY <2>2 DEF Precedes
<1> QED
  BY <1>2, <1>3, <1>4 DEF r

LEMMA OrderInFront ==
    ASSUME NEW q \in Seq(Post), NEW x \in Post, NEW a, NEW b
    PROVE  /\ Precedes(<<x>> \o q, a, b) => Precedes(q, a, b) \/ (x = a /\ b \in Elements(q))
           /\ Precedes(q, a, b) => Precedes(<<x>> \o q, a, b)
           /\ x = a /\ b \in Elements(q) => Precedes(<<x>> \o q, a, b)
<1> DEFINE r == <<x>> \o q
<1>1. <<x>> \in Seq(Post) /\ Len(<<x>>) = 1 /\ <<x>>[1] = x /\ Len(q) \in Nat /\ DOMAIN q = 1 .. Len(q)
  OBVIOUS
<1>2. /\ r \in Seq(Post) /\ Len(r) = 1 + Len(q)
      /\ \A k \in 1 .. 1 + Len(q) : r[k] = IF k <= 1 THEN <<x>>[k] ELSE q[k - 1]
  BY <1>1, ConcatProperties
<1> HIDE DEF r
<1>3. /\ DOMAIN r = 1 .. Len(q) + 1 /\ r[1] = x
      /\ \A k \in 1 .. Len(q) : r[k + 1] = q[k] /\ k + 1 \in DOMAIN r
  BY <1>1, <1>2
<1>4. ASSUME Precedes(r, a, b) PROVE Precedes(q, a, b) \/ (x = a /\ b \in Elements(q))
  <2>1. PICK j, k \in DOMAIN r : j < k /\ r[j] = a /\ r[k] = b
    BY <1>4 DEF Precedes
  <2>2. k - 1 \in 1 .. Len(q) /\ q[k - 1] = b
    BY <1>1, <1>2, <1>3, <2>1
  <2>3. CASE j = 1
    BY <1>1, <1>3, <2>1, <2>2, <2>3 DEF Elements
  <2>4. CASE j # 1
    <3>1. j - 1 \in 1 .. Len(q) /\ q[j - 1] = a /\ j - 1 < k - 1
      BY <1>1, <1>2, <1>3, <2>1, <2>4
    <3> QED
      BY <1>1, <2>2, <3>1 DEF Precedes
  <2> QED
    BY <2>3, <2>4
<1>5. ASSUME Precedes(q, a, b) PROVE Precedes(r, a, b)
  <2>1. PICK j, k \in 1 .. Len(q) : j < k /\ q[j] = a /\ q[k] = b
    BY <1>1, <1>5 DEF Precedes
  <2>2. j + 1 < k + 1 /\ j + 1 \in DOMAIN r /\ k + 1 \in DOMAIN r /\ r[j + 1] = a /\ r[k + 1] = b
    BY <1>1, <1>3, <2>1
  <2> QED
    BY <2>2 DEF Precedes
<1>6. ASSUME x = a, b \in Elements(q) PROVE Precedes(r, a, b)
  <2>1. PICK k \in 1 .. Len(q) : q[k] = b
    BY <1>1, <1>6 DEF Elements
  <2>2. 1 < k + 1 /\ k + 1 \in DOMAIN r /\ r[k + 1] = b /\ 1 \in DOMAIN r /\ r[1] = a
    BY <1>1, <1>3, <1>6, <2>1
  <2> QED
    BY <2>2 DEF Precedes
<1> QED
  BY <1>4, <1>5, <1>6 DEF r

LEMMA OrderOfNone == Elements(<<>>) = {} /\ \A a, b : ~ Precedes(<<>>, a, b)
  BY DEF Elements, Precedes

LEMMA HeadAndTail ==
    ASSUME NEW q \in Seq(Post), q # <<>>
    PROVE  Head(q) \in Post /\ Tail(q) \in Seq(Post) /\ q = <<Head(q)>> \o Tail(q)
<1>1. Head(q) \in Post /\ Tail(q) \in Seq(Post) /\ Len(Tail(q)) = Len(q) - 1
      /\ \A k \in 1 .. Len(Tail(q)) : Tail(q)[k] = q[k + 1]
  BY HeadTailProperties
<1>2. Len(q) \in Nat /\ Len(q) > 0 /\ Head(q) = q[1]
  BY EmptySeq
<1> DEFINE h == <<Head(q)>>
           t == Tail(q)
           r == h \o t
<1>3. h \in Seq(Post) /\ Len(h) = 1 /\ h[1] = q[1]
  BY <1>1, <1>2
<1>4. t \in Seq(Post) /\ Len(t) = Len(q) - 1
  BY <1>1
<1> HIDE DEF h
<1>5. /\ r \in Seq(Post) /\ Len(r) = Len(h) + Len(t)
      /\ \A k \in 1 .. Len(h) + Len(t) : r[k] = IF k <= Len(h) THEN h[k] ELSE t[k - Len(h)]
  BY <1>3, <1>4, ConcatProperties
<1>6. Len(r) = Len(q)
  BY <1>2, <1>3, <1>4, <1>5
<1>7. \A k \in 1 .. Len(q) : r[k] = q[k]
  <2> TAKE k \in 1 .. Len(q)
  <2>1. r[k] = IF k <= 1 THEN h[k] ELSE t[k - 1]
    BY <1>3, <1>5, <1>6
  <2>2. CASE k = 1
    BY <1>3, <2>1, <2>2
  <2>3. CASE k # 1
    <3>1. ~ (k <= 1) /\ k - 1 \in 1 .. Len(t) /\ (k - 1) + 1 = k
      BY <1>2, <1>4, <2>3
    <3> QED
      BY <1>1, <2>1, <3>1
  <2> QED
    BY <2>2, <2>3
<1> HIDE DEF r, t
<1>8. r = q
  BY <1>5, <1>6, <1>7, SeqEqual
<1> QED
  BY <1>1, <1>8 DEF r, h, t

(* r has, of the posts in S, none that q has not, and none in an order that  *)
(* q has not.                                                                *)
Within(r, q, S) ==
    /\ \A a \in S : a \in Elements(r) => a \in Elements(q)
    /\ \A a, b \in S : Precedes(r, a, b) => Precedes(q, a, b)

LEMMA WithinSelf == \A q, S : Within(q, q, S)
  BY DEF Within

LEMMA WithinNone == \A q, S : Within(<<>>, q, S)
  BY OrderOfNone DEF Within

LEMMA WithinTransitive ==
    ASSUME NEW r, NEW q, NEW u, NEW S, NEW T, Within(r, q, S), Within(q, u, T), S \subseteq T
    PROVE  Within(r, u, S)
  BY DEF Within

LEMMA WithinBehind ==
    ASSUME NEW q \in Seq(Post), NEW x \in Post, NEW S
    PROVE  Within(q, <<x>> \o q, S)
<1>1. Elements(<<x>> \o q) = Elements(q) \cup {x}
  BY ElementsOfQueues
<1> QED
  BY <1>1, OrderInFront DEF Within

LEMMA WithinBelow ==
    ASSUME NEW r \in Seq(Post), NEW q \in Seq(Post), NEW x \in Post, NEW S, Within(r, q, S)
    PROVE  Within(<<x>> \o r, <<x>> \o q, S)
<1>1. /\ Elements(<<x>> \o r) = Elements(r) \cup {x}
      /\ Elements(<<x>> \o q) = Elements(q) \cup {x}
  BY ElementsOfQueues
<1>2. \A a, b : Precedes(<<x>> \o r, a, b) => Precedes(r, a, b) \/ (x = a /\ b \in Elements(r))
  BY OrderInFront
<1>3. \A a, b : Precedes(q, a, b) \/ (x = a /\ b \in Elements(q)) => Precedes(<<x>> \o q, a, b)
  BY OrderInFront
<1> QED
  BY <1>1, <1>2, <1>3 DEF Within

LEMMA WithinTail ==
    ASSUME NEW q \in Seq(Post), q # <<>>, NEW S
    PROVE  Within(Tail(q), q, S)
<1>1. Head(q) \in Post /\ Tail(q) \in Seq(Post) /\ q = <<Head(q)>> \o Tail(q)
  BY HeadAndTail
<1>2. Within(Tail(q), <<Head(q)>> \o Tail(q), S)
  BY <1>1, WithinBehind
<1> QED
  BY <1>1, <1>2

LEMMA WithinReturned ==
    ASSUME NEW h \in Held, NEW q \in Seq(Post), NEW S, Elements(h) \cap S = {}
    PROVE  Within(h \o q, q, S)
<1>1. CASE h = <<>>
  <2>1. h \o q = q
    BY <1>1, ConcatEmptySeq
  <2> QED
    BY <2>1, WithinSelf
<1>2. ASSUME NEW x \in Post, h = <<x>> PROVE Within(h \o q, q, S)
  <2>1. x \notin S
    BY <1>2 DEF Elements
  <2>2. Elements(<<x>> \o q) = Elements(q) \cup {x}
    BY ElementsOfQueues
  <2>3. \A a, b : Precedes(<<x>> \o q, a, b) => Precedes(q, a, b) \/ (x = a /\ b \in Elements(q))
    BY OrderInFront
  <2> QED
    BY <1>2, <2>1, <2>2, <2>3 DEF Within
<1> QED
  BY <1>1, <1>2 DEF Held

LEMMA WithinAppended ==
    ASSUME NEW r \in Seq(Post), NEW q \in Seq(Post), NEW x \in Post, NEW S, Within(r, q, S)
    PROVE  Within(Append(r, x), Append(q, x), S) /\ Within(r, Append(q, x), S)
<1>1. /\ Elements(Append(r, x)) = Elements(r) \cup {x}
      /\ Elements(Append(q, x)) = Elements(q) \cup {x}
  BY ElementsOfQueues
<1>2. \A a, b : Precedes(Append(r, x), a, b) => Precedes(r, a, b) \/ (a \in Elements(r) /\ x = b)
  BY OrderAppended
<1>3. \A a, b : Precedes(q, a, b) \/ (a \in Elements(q) /\ x = b) => Precedes(Append(q, x), a, b)
  BY OrderAppended
<1> QED
  BY <1>1, <1>2, <1>3 DEF Within

(* What a session has heard: nothing is lost or reordered by sending it.     *)
LEMMA HeardProperties ==
    ASSUME SessionType, NEW s \in Session
    PROVE  /\ Heard(s) \in Seq(Post)
           /\ Elements(sent[s]) \subseteq Elements(Heard(s))
           /\ \A a, b : Precedes(sent[s], a, b) => Precedes(Heard(s), a, b)
           /\ \A x \in Post : sent[s] \o Append(out[s], x) = Append(Heard(s), x)
           /\ out[s] # <<>> => Append(sent[s], Head(out[s])) \o Tail(out[s]) = Heard(s)
<1> DEFINE u == sent[s]
           v == out[s]
           w == u \o v
<1>1. u \in Seq(Post) /\ v \in Seq(Post) /\ Len(u) \in Nat /\ Len(v) \in Nat
      /\ DOMAIN u = 1 .. Len(u)
  BY DEF SessionType
<1> HIDE DEF u, v
<1>2. /\ w \in Seq(Post) /\ Len(w) = Len(u) + Len(v)
      /\ \A k \in 1 .. Len(u) + Len(v) : w[k] = IF k <= Len(u) THEN u[k] ELSE v[k - Len(u)]
  BY <1>1, ConcatProperties
<1>3. \A k \in 1 .. Len(u) : k \in DOMAIN w /\ w[k] = u[k]
  BY <1>1, <1>2
<1>4. \A x \in Post : u \o Append(v, x) = Append(w, x)
  <2> TAKE x \in Post
  <2>1. <<x>> \in Seq(Post)
    OBVIOUS
  <2>2. Append(v, x) = v \o <<x>> /\ Append(w, x) = w \o <<x>>
    BY <1>1, <1>2, AppendIsConcat
  <2> QED
    BY <1>1, <2>1, <2>2, ConcatAssociative
<1>5. ASSUME v # <<>> PROVE Append(u, Head(v)) \o Tail(v) = w
  <2>1. Head(v) \in Post /\ Tail(v) \in Seq(Post) /\ v = <<Head(v)>> \o Tail(v)
    BY <1>1, <1>5, HeadAndTail
  <2>2. <<Head(v)>> \in Seq(Post) /\ Append(u, Head(v)) = u \o <<Head(v)>>
    BY <1>1, <2>1, AppendIsConcat
  <2>3. (u \o <<Head(v)>>) \o Tail(v) = u \o (<<Head(v)>> \o Tail(v))
    BY <1>1, <2>1, <2>2, ConcatAssociative
  <2> QED
    BY <2>1, <2>2, <2>3
<1>6. Elements(u) \subseteq Elements(w)
  BY <1>1, <1>3 DEF Elements
<1>7. \A a, b : Precedes(u, a, b) => Precedes(w, a, b)
  BY <1>1, <1>3 DEF Precedes
<1> QED
  BY <1>2, <1>4, <1>5, <1>6, <1>7 DEF Heard, u, v

-----------------------------------------------------------------------------
(* What lost channels held, or may yet hold, has faults to blame.            *)
Idle(i) == {l \in lost[i] : l.holds = <<>>}

StraysAt(i) ==
    /\ Cardinality(strays[i]) + Cardinality(Idle(i)) <= faults
    /\ \A l \in lost[i] : Elements(l.holds) \subseteq strays[i]

StrayInv == \A i \in Instance : StraysAt(i)

LEMMA StraysFinite ==
    ASSUME InstanceType, NEW i \in Instance
    PROVE  /\ strays[i] \subseteq Post
           /\ IsFiniteSet(strays[i]) /\ Cardinality(strays[i]) \in Nat
           /\ IsFiniteSet(Idle(i)) /\ Cardinality(Idle(i)) \in Nat
<1>1. strays[i] \in SUBSET Post /\ Idle(i) \in SUBSET lost[i] /\ IsFiniteSet(lost[i])
  BY DEF InstanceType, Idle
<1> QED
  BY <1>1, WsAssumption, FS_Subset, FS_CardinalityType

LEMMA OneMoreStray ==
    ASSUME InstanceType, NEW i \in Instance, NEW p
    PROVE  Cardinality(strays[i] \cup {p}) \in
               {Cardinality(strays[i]), Cardinality(strays[i]) + 1}
  BY StraysFinite, FS_AddElement

LEMMA NextStrays ==
    ASSUME TypeInv, StrayInv, [Next]_vars
    PROVE  StrayInv'
<1> USE DEF TypeInv
<1> SUFFICES ASSUME NEW i \in Instance PROVE StraysAt(i)'
  BY DEF StrayInv
<1> DEFINE S == strays[i]
           I == Idle(i)
<1>1. /\ Cardinality(S) \in Nat /\ Cardinality(I) \in Nat /\ IsFiniteSet(I)
      /\ Cardinality(S) + Cardinality(I) <= faults
      /\ \A l \in lost[i] : Elements(l.holds) \subseteq S
  BY StraysFinite DEF StrayInv, StraysAt
<1>2. faults \in Nat /\ faults' \in Nat /\ faults' >= faults
  BY FaultsGrow
<1>3. ASSUME lost'[i] = lost[i], strays'[i] = S PROVE StraysAt(i)'
  <2>1. Idle(i)' = I
    BY <1>3 DEF Idle
  <2> QED
    BY <1>1, <1>2, <1>3, <2>1 DEF StraysAt
<1>4. CASE LoseChannel(i)
  <2> DEFINE u == Unacked(i)
             l == [nr |-> faults', holds |-> u]
  <2>1. /\ lost'[i] = lost[i] \cup {l} /\ strays'[i] = S \cup Elements(u)
        /\ faults' = faults + 1
    BY <1>4, FaultCounted DEF LoseChannel, InstanceType
  <2>2. l.holds = u /\ u \in Held
    BY UnackedType
  <2> HIDE DEF l, u
  <2>3. \A m \in lost'[i] : Elements(m.holds) \subseteq strays'[i]
    BY <1>1, <2>1, <2>2
  <2>4. CASE u = <<>>
    <3>1. Idle(i)' = I \cup {l} /\ strays'[i] = S
      BY <2>1, <2>2, <2>4, OrderOfNone DEF Idle
    <3>2. Cardinality(I \cup {l}) \in {Cardinality(I), Cardinality(I) + 1}
      BY <1>1, FS_AddElement
    <3> HIDE DEF S, I
    <3>3. Cardinality(strays'[i]) = Cardinality(S)
      BY <3>1
    <3>4. Cardinality(Idle(i)') \in {Cardinality(I), Cardinality(I) + 1}
      BY <3>1, <3>2
    <3>5. Cardinality(strays'[i]) + Cardinality(Idle(i)') <= faults'
      BY <1>1, <1>2, <2>1, <3>3, <3>4
    <3> QED
      BY <2>3, <3>5 DEF StraysAt
  <2>5. ASSUME NEW p \in Post, u = <<p>> PROVE StraysAt(i)'
    <3>1. Idle(i)' = I
      BY <2>1, <2>2, <2>5 DEF Idle
    <3>2. strays'[i] = S \cup {p}
      BY <2>1, <2>5 DEF Elements
    <3>3. Cardinality(S \cup {p}) \in {Cardinality(S), Cardinality(S) + 1}
      BY OneMoreStray
    <3> HIDE DEF S, I
    <3>4. Cardinality(strays'[i]) \in {Cardinality(S), Cardinality(S) + 1}
      BY <3>2, <3>3
    <3>5. Cardinality(Idle(i)') = Cardinality(I)
      BY <3>1
    <3>6. Cardinality(strays'[i]) + Cardinality(Idle(i)') <= faults'
      BY <1>1, <1>2, <2>1, <3>4, <3>5
    <3> QED
      BY <2>3, <3>6 DEF StraysAt
  <2> QED
    BY <2>2, <2>4, <2>5 DEF Held
<1>5. CASE Misdeliver(i)
  <2> DEFINE h == Head(inbox[i])
  <2>1. PICK l \in lost[i] :
            l.holds = <<>> /\ lost'[i] = (lost[i] \ {l}) \cup {[l EXCEPT !.holds = <<h>>]}
    BY <1>5 DEF Misdeliver, InstanceType
  <2>2. [l EXCEPT !.holds = <<h>>].holds = <<h>> /\ Elements(<<h>>) = {h}
    BY LostType DEF Elements
  <2>3. strays'[i] = S \cup {h}
    BY <1>5 DEF Misdeliver, InstanceType
  <2> DEFINE m == [l EXCEPT !.holds = <<h>>]
  <2> HIDE DEF h, m
  <2>4. m.holds = <<h>> /\ Elements(m.holds) = {h} /\ lost'[i] = (lost[i] \ {l}) \cup {m}
    BY <2>1, <2>2 DEF m
  <2>5. \A k \in lost'[i] : Elements(k.holds) \subseteq strays'[i]
    BY <1>1, <2>3, <2>4
  <2>6. Idle(i)' = I \ {l} /\ l \in I
    BY <2>1, <2>4 DEF Idle
  <2>7. Cardinality(I \ {l}) = Cardinality(I) - 1
    BY <1>1, <2>6, FS_RemoveElement
  <2>8. Cardinality(S \cup {h}) \in {Cardinality(S), Cardinality(S) + 1}
    BY OneMoreStray
  <2> HIDE DEF S, I
  <2>9. Cardinality(strays'[i]) + Cardinality(Idle(i)') <= faults'
    BY <1>1, <1>2, <2>3, <2>6, <2>7, <2>8
  <2> QED
    BY <2>5, <2>9 DEF StraysAt
<1>6. CASE Notice(i)
  <2>1. PICK l \in lost[i] : lost'[i] = lost[i] \ {l}
    BY <1>6 DEF Notice, InstanceType
  <2>2. strays'[i] = S /\ Idle(i)' = I \ {l}
    BY <1>6, <2>1 DEF Notice, Idle
  <2>3. Cardinality(I \ {l}) \in {Cardinality(I), Cardinality(I) - 1}
    BY <1>1, FS_RemoveElement
  <2> HIDE DEF S, I
  <2>4. Cardinality(strays'[i]) = Cardinality(S)
    BY <2>2
  <2>5. Cardinality(Idle(i)') \in {Cardinality(I), Cardinality(I) - 1}
    BY <2>2, <2>3
  <2>6. Cardinality(strays'[i]) + Cardinality(Idle(i)') <= faults'
    BY <1>1, <1>2, <2>4, <2>5
  <2> QED
    BY <1>1, <2>1, <2>2, <2>6 DEF StraysAt
<1>7. CASE AutoDelete(i) \/ Crash(i)
  <2>1. lost'[i] = {} /\ (strays'[i] = S \/ strays'[i] = {}) /\ Idle(i)' = {}
    BY <1>7 DEF AutoDelete, Crash, LoseQueue, InstanceType, Idle
  <2>2. Cardinality({}) = 0
    BY FS_EmptySet
  <2> HIDE DEF S, I
  <2>3. Cardinality(strays'[i]) \in {Cardinality(S), 0} /\ Cardinality(Idle(i)') = 0
    BY <2>1, <2>2
  <2>4. Cardinality(strays'[i]) + Cardinality(Idle(i)') <= faults'
    BY <1>1, <1>2, <2>3
  <2> QED
    BY <2>1, <2>4 DEF StraysAt
<1>8. ASSUME NEW j \in Instance, Lifecycle(j) \/ Processing(j) PROVE StraysAt(i)'
  <2>1. CASE j # i
    BY <1>3, <1>8, <2>1, OthersAlone
  <2>2. ASSUME Start(i) \/ Resubscribe(i) \/ Processing(i) PROVE StraysAt(i)'
    BY <1>3, <2>2 DEF Start, Resubscribe, Processing, Deliver, ReadFollowers, ReadFails,
                      EndProcess, Notify, Push, Ack, queueVars
  <2> QED
    BY <1>4, <1>5, <1>6, <1>7, <1>8, <2>1, <2>2 DEF Lifecycle
<1>9. ASSUME ~ \E j \in Instance : Lifecycle(j) \/ Processing(j)
      PROVE  lost' = lost /\ strays' = strays
  BY <1>9 DEF Next, vars, Befriend, Unfriend, Replicate, Announce, AnnouncementLost,
     Handling,
              Connect, Send, Disconnect, Unsubscribe, EndHandle, Unwind, instanceVars
<1> QED
  BY <1>3, <1>8, <1>9

-----------------------------------------------------------------------------
(* What instance i has yet to push, the event at hand first.  Its events are *)
(* in the order in which its queue got them, and after those that a session  *)
(* of i heard of; all but the strays.                                        *)
Rest(i) == IF task[i].at \in {"start", "push"} THEN <<task[i].post>> \o inbox[i] ELSE inbox[i]

Ordered(i) == Post \ strays[i]

InOrder(i, s) ==
    /\ Within(Heard(s), arrived[i], Ordered(i))
    /\ \A a, b \in Ordered(i) :
           a \in Elements(Heard(s)) /\ b \in Elements(Rest(i)) => Precedes(arrived[i], a, b)

OrderInv ==
    /\ \A i \in Instance : /\ Within(Rest(i), arrived[i], Ordered(i))
                           /\ \A s \in entries[i] : InOrder(i, s)
    /\ \A s \in Session : conn[s] = "new" => Heard(s) = <<>>

(* Steps that bring nothing new to what i has to push, or to a session.      *)
RestKept(i) ==
    /\ Within(Rest(i)', Rest(i), Ordered(i)')
    /\ strays[i] \subseteq strays'[i] /\ arrived'[i] = arrived[i]

RestGrows(i, p) ==
    /\ Rest(i)' = Append(Rest(i), p) /\ arrived'[i] = Append(arrived[i], p)
    /\ strays'[i] = strays[i]

HeardKept(s) == Within(Heard(s)', Heard(s), Post)

LEMMA RestType ==
    ASSUME TypeInv, NEW i \in Instance
    PROVE  /\ Rest(i) \in Seq(Post) /\ inbox[i] \in Seq(Post) /\ arrived[i] \in Seq(Post)
           /\ task[i].at \in {"start", "push"} => task[i].post \in Post
<1>1. inbox[i] \in Seq(Post) /\ arrived[i] \in Seq(Post)
  BY DEF TypeInv, InstanceType
<1>2. CASE task[i].at \in {"start", "push"}
  <2>1. task[i].post \in Post /\ <<task[i].post>> \in Seq(Post)
    BY <1>2, BusyTask DEF TypeInv, Busy
  <2> QED
    BY <1>1, <1>2, <2>1, ConcatProperties DEF Rest
<1>3. CASE task[i].at \notin {"start", "push"}
  BY <1>1, <1>3 DEF Rest
<1> QED
  BY <1>2, <1>3

(* The handler has the same at hand, and the queue has nothing new.          *)
LEMMA RestShorter ==
    ASSUME TypeInv, NEW i \in Instance, inbox'[i] \in Seq(Post), NEW S,
           Within(inbox'[i], inbox[i], S),
           task'[i].at \in {"start", "push"} <=> task[i].at \in {"start", "push"},
           task[i].at \in {"start", "push"} => task'[i].post = task[i].post
    PROVE  Within(Rest(i)', Rest(i), S)
<1>1. CASE task[i].at \in {"start", "push"}
  <2>1. Rest(i) = <<task[i].post>> \o inbox[i] /\ Rest(i)' = <<task[i].post>> \o inbox'[i]
    BY <1>1 DEF Rest
  <2> QED
    BY <1>1, <2>1, RestType, WithinBelow
<1>2. CASE task[i].at \notin {"start", "push"}
  <2>1. Rest(i) = inbox[i] /\ Rest(i)' = inbox'[i]
    BY <1>2 DEF Rest
  <2> QED
    BY <2>1
<1> QED
  BY <1>1, <1>2

LEMMA RestWithoutHead ==
    ASSUME TypeInv, NEW i \in Instance, NEW S
    PROVE  Within(inbox[i], Rest(i), S)
<1>1. CASE task[i].at \in {"start", "push"}
  BY <1>1, RestType, WithinBehind DEF Rest
<1>2. CASE task[i].at \notin {"start", "push"}
  BY <1>2, WithinSelf DEF Rest
<1> QED
  BY <1>1, <1>2

LEMMA RestStep ==
    ASSUME TypeInv, StrayInv, Next, NEW i \in Instance
    PROVE  RestKept(i) \/ Crash(i) \/ \E p \in Post : Announce(p) /\ RestGrows(i, p)
<1> USE DEF TypeInv
<1>1. inbox[i] \in Seq(Post) /\ inbox'[i] \in Seq(Post)
  BY NextInstance, RestType DEF InstanceType
<1>2. ASSUME inbox'[i] = inbox[i], task'[i] = task[i], arrived'[i] = arrived[i],
             strays'[i] = strays[i]
      PROVE  RestKept(i)
  BY <1>2, WithinSelf DEF RestKept, Rest
<1>3. ASSUME UNCHANGED instanceVars PROVE RestKept(i)
  BY <1>2, <1>3 DEF instanceVars
<1>4. ASSUME NEW p \in Post, Announce(p)
      PROVE  RestKept(i) \/ (Announce(p) /\ RestGrows(i, p))
  <2>1. task' = task /\ strays' = strays
    BY <1>4 DEF Announce
  <2>2. CASE i \notin bound
    BY <1>2, <1>4, <2>1, <2>2 DEF Announce
  <2>3. CASE i \in bound
    <3>1. inbox'[i] = Append(inbox[i], p) /\ arrived'[i] = Append(arrived[i], p)
      BY <1>4, <2>3 DEF Announce
    <3>2. Rest(i)' = Append(Rest(i), p)
      <4>1. CASE task[i].at \notin {"start", "push"}
        BY <2>1, <3>1, <4>1 DEF Rest
      <4>2. CASE task[i].at \in {"start", "push"}
        <5> DEFINE x == task[i].post
                   q == inbox[i]
        <5>1. x \in Post /\ q \in Seq(Post)
          BY <4>2, RestType
        <5>2. Rest(i) = <<x>> \o q /\ Rest(i)' = <<x>> \o Append(q, p)
          BY <2>1, <3>1, <4>2 DEF Rest
        <5> HIDE DEF x, q
        <5>3. <<x>> \in Seq(Post) /\ <<p>> \in Seq(Post) /\ <<x>> \o q \in Seq(Post)
          BY <5>1, ConcatProperties
        <5>4. Append(q, p) = q \o <<p>> /\ Append(<<x>> \o q, p) = (<<x>> \o q) \o <<p>>
          BY <5>1, <5>3, AppendIsConcat
        <5>5. (<<x>> \o q) \o <<p>> = <<x>> \o (q \o <<p>>)
          BY <5>1, <5>3, ConcatAssociative
        <5> QED
          BY <5>2, <5>4, <5>5
      <4> QED
        BY <4>1, <4>2
    <3> QED
      BY <1>4, <2>1, <3>1, <3>2 DEF RestGrows
  <2> QED
    BY <2>2, <2>3
<1>5. ASSUME LoseChannel(i) PROVE RestKept(i)
  <2>1. /\ inbox'[i] = inbox[i] /\ arrived' = arrived
        /\ strays'[i] = strays[i] \cup Elements(Unacked(i))
    BY <1>5 DEF LoseChannel, InstanceType
  <2>2. task'[i].at = task[i].at /\ (Busy(i) => task'[i].post = task[i].post)
    <3>1. task'[i] = IF Busy(i) THEN [task[i] EXCEPT !.own = FALSE] ELSE task[i]
      BY <1>5 DEF LoseChannel, InstanceType
    <3> QED
      BY <3>1, BusyTask
  <2>3. Within(inbox'[i], inbox[i], Ordered(i)')
    BY <2>1, WithinSelf
  <2>4. task[i].at \in {"start", "push"} => task'[i].post = task[i].post
    BY <2>2 DEF Busy
  <2>5. Within(Rest(i)', Rest(i), Ordered(i)')
    BY <1>1, <2>2, <2>3, <2>4, RestShorter
  <2> QED
    BY <2>1, <2>5 DEF RestKept
<1>6. ASSUME Misdeliver(i) \/ Notice(i) \/ AutoDelete(i) PROVE RestKept(i)
  <2>1. /\ task' = task /\ arrived' = arrived /\ strays[i] \subseteq strays'[i]
    BY <1>6 DEF Misdeliver, Notice, AutoDelete, InstanceType
  <2>2. CASE Misdeliver(i)
    <3>1. inbox[i] # <<>> /\ inbox'[i] = Tail(inbox[i])
      BY <2>2 DEF Misdeliver, InstanceType
    <3> QED
      BY <1>1, <2>1, <3>1, WithinTail, RestShorter DEF RestKept
  <2>3. CASE Notice(i)
    <3>1. PICK l \in lost[i] : Return(i, l.holds) /\ strays' = strays
      BY <2>3 DEF Notice
    <3> DEFINE h == l.holds
    <3>2. h \in Held /\ h \in Seq(Post) /\ inbox'[i] = h \o inbox[i]
      BY <3>1, LostType, ReturnType
    <3>3. Elements(h) \cap Ordered(i)' = {}
      BY <3>1 DEF StrayInv, StraysAt, Ordered
    <3> HIDE DEF h
    <3>4. Within(inbox'[i], inbox[i], Ordered(i)')
      BY <1>1, <3>2, <3>3, WithinReturned
    <3> QED
      BY <1>1, <2>1, <3>4, RestShorter DEF RestKept
  <2>4. CASE AutoDelete(i)
    <3>1. inbox'[i] = <<>>
      BY <2>4 DEF AutoDelete, LoseQueue, InstanceType
    <3> QED
      BY <1>1, <2>1, <3>1, WithinNone, RestShorter DEF RestKept
  <2> QED
    BY <1>6, <2>2, <2>3, <2>4
<1>7. ASSUME Processing(i) PROVE RestKept(i)
  <2>1. arrived' = arrived /\ strays' = strays
    BY <1>7 DEF Processing, Deliver, ReadFollowers, ReadFails, EndProcess, Notify,
       Push, Ack,
                queueVars
  <2>2. CASE Deliver(i)
    <3>1. /\ inbox[i] # <<>> /\ inbox'[i] = Tail(inbox[i])
          /\ task[i].at = "free" /\ task'[i] = NewTask(Head(inbox[i]))
      BY <2>2 DEF Deliver, Busy, InstanceType
    <3>2. Rest(i) = inbox[i] /\ Rest(i)' = <<Head(inbox[i])>> \o Tail(inbox[i])
      BY <3>1 DEF Rest, NewTask
    <3>3. Rest(i)' = Rest(i)
      BY <1>1, <3>1, <3>2, HeadAndTail
    <3> QED
      BY <2>1, <3>3, WithinSelf DEF RestKept
  <2>3. CASE ReadFollowers(i)
    <3>1. Busy(i) /\ inbox' = inbox /\ task[i].at = "start"
      BY <2>3 DEF ReadFollowers, queueVars, Busy
    <3>2. PICK f \in States :
              task' = [task EXCEPT ![i].at = "push",
                                   ![i].to = GetFollowers(f, Author[task[i].post])]
      BY <2>3 DEF ReadFollowers
    <3>3. task'[i].at = "push" /\ task'[i].post = task[i].post
      BY <3>1, <3>2, BusyTask DEF InstanceType
    <3>4. Rest(i)' = Rest(i)
      BY <3>1, <3>3 DEF Rest
    <3> QED
      BY <2>1, <3>4, WithinSelf DEF RestKept
  <2>4. CASE ReadFails(i)
    <3>1. task'[i] = FreeTask /\ task[i].at = "start"
      BY <2>4 DEF ReadFails, EndProcess, InstanceType
    <3>2. inbox'[i] = Unacked(i) \o inbox[i]
      BY <2>4, UnackedType, ReturnType DEF ReadFails
    <3>3. Rest(i)' = inbox'[i] /\ Rest(i) = <<task[i].post>> \o inbox[i]
      BY <3>1 DEF Rest, FreeTask
    <3>4. inbox'[i] = <<task[i].post>> \o inbox[i] \/ inbox'[i] = inbox[i]
      BY <1>1, <3>2, ConcatEmptySeq DEF Unacked
    <3> QED
      BY <2>1, <3>3, <3>4, WithinSelf, RestWithoutHead DEF RestKept
  <2>5. CASE Notify(i) \/ Ack(i)
    <3>1. inbox' = inbox /\ task'[i].at \notin {"start", "push"}
      <4>1. CASE Notify(i)
        <5>1. Busy(i) /\ task'[i] = [task[i] EXCEPT !.at = "done"]
          BY <4>1 DEF Notify, Push, Busy, InstanceType
        <5> QED
          BY <4>1, <5>1, BusyTask DEF Notify, Push, queueVars
      <4>2. CASE Ack(i)
        BY <4>2 DEF Ack, EndProcess, FreeTask, InstanceType
      <4> QED
        BY <2>5, <4>1, <4>2
    <3>2. Rest(i)' = inbox[i]
      BY <3>1 DEF Rest
    <3> QED
      BY <2>1, <3>2, RestWithoutHead DEF RestKept
  <2> QED
    BY <1>7, <2>2, <2>3, <2>4, <2>5 DEF Processing
<1>8. ASSUME NEW j \in Instance, Lifecycle(j) \/ Processing(j)
      PROVE  RestKept(i) \/ Crash(i)
  <2>1. CASE j # i
    BY <1>2, <1>8, <2>1, OthersAlone
  <2>2. ASSUME Start(i) \/ Resubscribe(i) PROVE RestKept(i)
    BY <1>2, <2>2 DEF Start, Resubscribe, queueVars
  <2>3. CASE j = i
    <3>1. \/ Start(i) \/ Resubscribe(i)
          \/ LoseChannel(i)
          \/ Misdeliver(i) \/ Notice(i) \/ AutoDelete(i)
          \/ Processing(i)
          \/ Crash(i)
      BY <1>8, <2>3 DEF Lifecycle
    <3> QED
      BY <1>5, <1>6, <1>7, <2>2, <3>1
  <2> QED
    BY <2>1, <2>3
<1>9. ASSUME \/ \E u \in User, w \in Writer : Befriend(u, w) \/ Unfriend(u, w)
             \/ Replicate
             \/ \E p \in Post : AnnouncementLost(p)
             \/ \E s \in Session : Handling(s)
      PROVE  UNCHANGED instanceVars
  BY <1>9 DEF Befriend, Unfriend, Replicate, AnnouncementLost, Handling, Connect, Send,
              Disconnect, Unsubscribe, EndHandle, Unwind
<1> QED
  BY <1>3, <1>4, <1>8, <1>9 DEF Next

-----------------------------------------------------------------------------
LEMMA HeardFrame ==
    ASSUME SessionType, NEW s \in Session,
           \/ sent'[s] = sent[s] /\ out'[s] = out[s]
           \/ sent'[s] = sent[s] /\ out'[s] = <<>>
           \/ /\ out[s] # <<>>
              /\ sent'[s] = Append(sent[s], Head(out[s])) /\ out'[s] = Tail(out[s])
    PROVE  HeardKept(s)
<1>1. CASE Heard(s)' = Heard(s)
  BY <1>1, WithinSelf DEF HeardKept
<1>2. CASE sent'[s] = sent[s] /\ out'[s] = <<>>
  <2>1. sent[s] \in Seq(Post)
    BY DEF SessionType
  <2>2. Heard(s)' = sent[s]
    BY <1>2, <2>1, ConcatEmptySeq DEF Heard
  <2>3. Within(sent[s], Heard(s), Post)
    BY HeardProperties DEF Within
  <2> QED
    BY <2>2, <2>3 DEF HeardKept
<1> QED
  BY <1>1, <1>2, HeardProperties DEF Heard

(* What a session hears of newly is the event that its instance's handler    *)
(* has at hand.                                                              *)
LEMMA HeardStep ==
    ASSUME TypeInv, Next, NEW s \in Session
    PROVE  \/ HeardKept(s)
           \/ \E i \in Instance :
                 /\ s \in entries[i] /\ conn[s] # "over" /\ Notify(i) /\ Busy(i)
                 /\ Heard(s)' = Append(Heard(s), task[i].post)
<1> USE DEF TypeInv
<1>1. CASE UNCHANGED sessionVars
  BY <1>1, HeardFrame DEF sessionVars
<1>2. ASSUME NEW i \in Instance, Crash(i) PROVE HeardKept(s)
  <2>1. sent'[s] = sent[s] /\ (out'[s] = out[s] \/ out'[s] = <<>>)
    BY <1>2 DEF Crash
  <2> QED
    BY <2>1, HeardFrame
<1>3. ASSUME NEW i \in Instance, Notify(i)
      PROVE  \/ HeardKept(s)
             \/ /\ s \in entries[i] /\ conn[s] # "over" /\ Notify(i) /\ Busy(i)
                /\ Heard(s)' = Append(Heard(s), task[i].post)
  <2>1. Busy(i) /\ task[i].post \in Post /\ sent' = sent
    BY <1>3, BusyTask DEF Notify, Push, Busy
  <2>2. CASE s \in Live(i) /\ Owner[s] \in task[i].to
    <3>1. out'[s] = Append(out[s], task[i].post)
      BY <1>3, <2>2 DEF Notify, Push
    <3>2. Heard(s)' = Append(Heard(s), task[i].post)
      BY <2>1, <3>1, HeardProperties DEF Heard
    <3> QED
      BY <1>3, <2>1, <2>2, <3>2 DEF Live
  <2>3. CASE ~ (s \in Live(i) /\ Owner[s] \in task[i].to)
    <3>1. out'[s] = out[s]
      BY <1>3, <2>3 DEF Notify, Push
    <3> QED
      BY <2>1, <3>1, HeardFrame
  <2> QED
    BY <2>2, <2>3
<1>4. ASSUME NEW x \in Session, Handling(x) PROVE HeardKept(s)
  <2>1. CASE Send(x) /\ x = s
    BY <2>1, HeardFrame DEF Send, SessionType
  <2>2. CASE ~ (Send(x) /\ x = s)
    <3>1. sent'[s] = sent[s] /\ (out'[s] = out[s] \/ out'[s] = <<>>)
      BY <1>4, <2>2 DEF Handling, Connect, Send, Disconnect, Unsubscribe, EndHandle,
         Unwind,
                        SessionType
    <3> QED
      BY <3>1, HeardFrame
  <2> QED
    BY <2>1, <2>2
<1> QED
  BY <1>1, <1>2, <1>3, <1>4, SessionFrame

(* Who is registered newly was not connected before.                         *)
LEMMA EntriesStep ==
    ASSUME TypeInv, Next, NEW s \in Session
    PROVE  /\ conn'[s] = "new" => conn[s] = "new"
           /\ \A i \in Instance : s \in entries'[i] => s \in entries[i] \/ conn[s] = "new"
<1> USE DEF TypeInv
<1>1. CASE UNCHANGED sessionVars
  BY <1>1 DEF sessionVars
<1>2. ASSUME NEW i \in Instance, Crash(i) \/ Notify(i)
      PROVE  /\ conn'[s] = "new" => conn[s] = "new"
             /\ \A j \in Instance : s \in entries'[j] => s \in entries[j]
  BY <1>2 DEF Crash, Notify, Push, SessionType
<1>3. ASSUME NEW x \in Session, Handling(x)
      PROVE  /\ conn'[s] = "new" => conn[s] = "new"
             /\ \A j \in Instance : s \in entries'[j] => s \in entries[j] \/ conn[s] = "new"
  <2>1. ASSUME NEW i \in Instance, Connect(x, i)
        PROVE  /\ conn'[s] = "new" => conn[s] = "new"
               /\ \A j \in Instance : s \in entries'[j] => s \in entries[j] \/ conn[s] = "new"
    BY <2>1 DEF Connect, SessionType
  <2>2. CASE Unsubscribe(x)
    BY <2>2 DEF Unsubscribe, EndHandle, SessionType
  <2>3. CASE Send(x) \/ Disconnect(x) \/ Unwind(x)
    BY <2>3 DEF Send, Disconnect, Unwind, EndHandle, SessionType
  <2> QED
    BY <1>3, <2>1, <2>2, <2>3 DEF Handling
<1> QED
  BY <1>1, <1>2, <1>3, SessionFrame

-----------------------------------------------------------------------------
LEMMA HeardType ==
    ASSUME TypeInv, NEW s \in Session
    PROVE  Heard(s) \in Seq(Post)
  BY HeardProperties DEF TypeInv

(* What an instance has to push stays in order, whatever its sessions heard. *)
LEMMA NextRestInOrder ==
    ASSUME TypeInv, StrayInv, OrderInv, Next, NEW i \in Instance
    PROVE  Within(Rest(i), arrived[i], Ordered(i))'
<1>1. Within(Rest(i), arrived[i], Ordered(i)) /\ Rest(i) \in Seq(Post) /\ arrived[i] \in Seq(Post)
  BY RestType DEF OrderInv
<1>2. CASE RestKept(i)
  <2>1. /\ Within(Rest(i)', Rest(i), Ordered(i)') /\ Ordered(i)' \subseteq Ordered(i)
        /\ arrived'[i] = arrived[i]
    BY <1>2 DEF RestKept, Ordered
  <2>2. Within(Rest(i)', arrived[i], Ordered(i)')
    BY <1>1, <2>1, WithinTransitive
  <2> QED
    BY <2>1, <2>2
<1>3. CASE Crash(i)
  <2>1. Rest(i)' = <<>>
    BY <1>3 DEF Crash, LoseQueue, Rest, FreeTask, TypeInv, InstanceType
  <2> QED
    BY <2>1, WithinNone
<1>4. ASSUME NEW p \in Post, RestGrows(i, p)
      PROVE  Within(Rest(i), arrived[i], Ordered(i))'
  <2>1. Within(Append(Rest(i), p), Append(arrived[i], p), Ordered(i))
    BY <1>1, WithinAppended
  <2> QED
    BY <1>4, <2>1 DEF RestGrows, Ordered
<1> QED
  BY <1>2, <1>3, <1>4, RestStep

(* A session that hears of nothing new.                                      *)
LEMMA NextSameHeard ==
    ASSUME TypeInv, StrayInv, OrderInv, Next, NEW i \in Instance, NEW s \in Session,
           s \in entries'[i], InOrder(i, s), HeardKept(s)
    PROVE  InOrder(i, s)'
<1>1. /\ Within(Heard(s), arrived[i], Ordered(i)) /\ Heard(s) \in Seq(Post)
      /\ Within(Rest(i), arrived[i], Ordered(i)) /\ Rest(i) \in Seq(Post)
      /\ arrived[i] \in Seq(Post) /\ Ordered(i) \subseteq Post
      /\ \A a, b \in Ordered(i) :
             a \in Elements(Heard(s)) /\ b \in Elements(Rest(i)) => Precedes(arrived[i], a, b)
  BY RestType, HeardType DEF OrderInv, InOrder, Ordered
<1>2. CASE RestKept(i)
  <2>1. /\ Within(Rest(i)', Rest(i), Ordered(i)') /\ Ordered(i)' \subseteq Ordered(i)
        /\ arrived'[i] = arrived[i]
    BY <1>2 DEF RestKept, Ordered
  <2>2. Within(Heard(s)', arrived[i], Ordered(i)')
    BY <1>1, <2>1 DEF HeardKept, Within
  <2>3. \A a, b \in Ordered(i)' :
            a \in Elements(Heard(s)') /\ b \in Elements(Rest(i)') => Precedes(arrived[i], a, b)
    BY <1>1, <2>1 DEF HeardKept, Within
  <2> QED
    BY <2>1, <2>2, <2>3 DEF InOrder, Elements
<1>3. CASE Crash(i)
  BY <1>3 DEF Crash, TypeInv, SessionType
<1>4. ASSUME NEW p \in Post, RestGrows(i, p) PROVE InOrder(i, s)'
  <2> DEFINE q == arrived[i]
             r == Rest(i)
  <2>1. Within(Heard(s), Append(q, p), Ordered(i))
    BY <1>1, WithinAppended
  <2>2. Elements(Append(r, p)) = Elements(r) \cup {p}
    BY <1>1, ElementsOfQueues
  <2>3. \A a, b : Precedes(q, a, b) \/ (a \in Elements(q) /\ p = b) => Precedes(Append(q, p), a, b)
    BY <1>1, OrderAppended
  <2>4. \A a, b \in Ordered(i) :
            a \in Elements(Heard(s)) /\ b \in Elements(Append(r, p)) => Precedes(Append(q, p), a, b)
    BY <1>1, <2>2, <2>3 DEF Within
  <2>5. /\ Rest(i)' = Append(r, p) /\ arrived'[i] = Append(q, p) /\ Ordered(i)' = Ordered(i)
    BY <1>4 DEF RestGrows, Ordered
  <2>6. Within(Heard(s)', Append(q, p), Ordered(i))
    BY <1>1, <2>1 DEF HeardKept, Within
  <2>7. \A a, b \in Ordered(i) :
            a \in Elements(Heard(s)') /\ b \in Elements(Append(r, p)) => Precedes(Append(q, p), a, b)
    BY <1>1, <2>4 DEF HeardKept, Within
  <2> HIDE DEF q, r
  <2> QED
    BY <2>5, <2>6, <2>7 DEF InOrder, Elements
<1> QED
  BY <1>2, <1>3, <1>4, RestStep

(* A session that hears of the event at hand: it was the next.               *)
LEMMA NextMoreHeard ==
    ASSUME TypeInv, OrderInv, NEW i \in Instance, NEW s \in Session, InOrder(i, s),
           Notify(i), Heard(s)' = Append(Heard(s), task[i].post)
    PROVE  InOrder(i, s)'
<1> DEFINE x == task[i].post
           h == Heard(s)
           q == inbox[i]
           e == arrived[i]
<1>1. /\ Busy(i) /\ task[i].at = "push" /\ inbox' = inbox /\ arrived' = arrived
      /\ strays' = strays
  BY DEF Notify, Push, Busy, queueVars
<1>2. task'[i].at = "done"
  BY <1>1, BusyTask DEF Notify, Push, TypeInv, InstanceType
<1>3. /\ x \in Post /\ h \in Seq(Post) /\ q \in Seq(Post) /\ e \in Seq(Post)
      /\ Rest(i) = <<x>> \o q /\ Rest(i)' = q
  BY <1>1, <1>2, RestType, HeardType DEF Rest
<1>4. /\ Within(h, e, Ordered(i)) /\ Within(<<x>> \o q, e, Ordered(i))
      /\ \A a, b \in Ordered(i) :
             a \in Elements(h) /\ b \in Elements(<<x>> \o q) => Precedes(e, a, b)
      /\ Ordered(i)' = Ordered(i) /\ arrived'[i] = e /\ Heard(s)' = Append(h, x)
  BY <1>1, <1>3 DEF OrderInv, InOrder, Ordered
<1> HIDE DEF x, h, q, e
<1>5. /\ Elements(<<x>> \o q) = Elements(q) \cup {x}
      /\ Elements(Append(h, x)) = Elements(h) \cup {x}
  BY <1>3, ElementsOfQueues
<1>6. \A a, b : Precedes(Append(h, x), a, b) => Precedes(h, a, b) \/ (a \in Elements(h) /\ x = b)
  BY <1>3, OrderAppended
<1>7. \A a, b : x = a /\ b \in Elements(q) => Precedes(<<x>> \o q, a, b)
  BY <1>3, OrderInFront
<1>8. Within(Append(h, x), e, Ordered(i))
  BY <1>4, <1>5, <1>6 DEF Within
<1>9. \A a, b \in Ordered(i) :
          a \in Elements(Append(h, x)) /\ b \in Elements(q) => Precedes(e, a, b)
  BY <1>4, <1>5, <1>7 DEF Within
<1> QED
  BY <1>3, <1>4, <1>8, <1>9 DEF InOrder, Elements

LEMMA NextOrder ==
    ASSUME TypeInv, StrayInv, OrderInv, Next
    PROVE  OrderInv'
<1> USE DEF TypeInv
<1>1. ASSUME NEW i \in Instance, NEW s \in entries'[i] PROVE InOrder(i, s)'
  <2>1. s \in Session
    BY NextSession DEF SessionType
  <2>2. CASE s \notin entries[i]
    <3>1. conn[s] = "new" /\ \A j \in Instance : s \notin entries[j]
      BY <1>1, <2>1, <2>2, EntriesStep DEF Registered
    <3>2. Heard(s) = <<>> /\ HeardKept(s)
      BY <2>1, <3>1, HeardStep DEF OrderInv
    <3>3. InOrder(i, s)
      BY <3>2, OrderOfNone DEF InOrder, Within
    <3> QED
      BY <1>1, <2>1, <3>2, <3>3, NextSameHeard
  <2>3. CASE s \in entries[i]
    <3>1. InOrder(i, s)
      BY <2>3 DEF OrderInv
    <3>2. ASSUME NEW j \in Instance, s \in entries[j] PROVE j = i
      BY <2>3, <3>2 DEF Registered
    <3> QED
      BY <1>1, <2>1, <2>3, <3>1, <3>2, HeardStep, NextSameHeard, NextMoreHeard
  <2> QED
    BY <2>2, <2>3
<1>2. ASSUME NEW s \in Session, conn'[s] = "new" PROVE Heard(s)' = <<>>
  <2>1. conn[s] = "new" /\ \A i \in Instance : s \notin entries[i]
    BY <1>2, EntriesStep DEF Registered
  <2>2. HeardKept(s) /\ Heard(s) = <<>>
    BY <1>2, <2>1, HeardStep DEF OrderInv
  <2>3. Heard(s)' \in Seq(Post)
    <3>1. SessionType'
      BY NextSession
    <3>2. sent'[s] \in Seq(Post) /\ out'[s] \in Seq(Post)
      BY <3>1 DEF SessionType
    <3> QED
      BY <3>2, ConcatProperties DEF Heard
  <2> DEFINE h == Heard(s)'
  <2>4. \A k \in DOMAIN h : h[k] \in Post /\ h[k] \in Elements(h)
    BY <2>3 DEF Elements
  <2>5. \A a \in Post : a \notin Elements(h)
    BY <2>2, OrderOfNone DEF HeardKept, Within
  <2> HIDE DEF h
  <2>6. Len(h) = 0
    <3>1. h \in Seq(Post) /\ DOMAIN h = 1 .. Len(h) /\ Len(h) \in Nat
      BY <2>3 DEF h
    <3>2. 1 \notin DOMAIN h
      BY <2>4, <2>5
    <3> QED
      BY <3>1, <3>2
  <2>7. h = <<>>
    BY <2>3, <2>6, EmptySeq DEF h
  <2> QED
    BY <2>7 DEF h
<1> QED
  BY <1>1, <1>2, NextRestInOrder DEF OrderInv

(* HeardAsArrived: every session hears of posts in the order in which their  *)
(* events reached the queue of its instance, whatever returns to it, whoever *)
(* joins and leaves, and whichever replica names the followers; but for the  *)
(* events that a lost channel held, of which there is one for every fault.   *)
THEOREM HeardInOrderOfArrival == Spec => []HeardAsArrived
<1>1. Init => StrayInv /\ OrderInv
  <2> SUFFICES ASSUME Init PROVE StrayInv /\ OrderInv
    OBVIOUS
  <2>1. \A s \in Session : Heard(s) = <<>>
    <3>1. \A s \in Session : sent[s] = <<>> /\ out[s] = <<>> /\ <<>> \in Seq(Post)
      BY DEF Init
    <3> QED
      BY <3>1, ConcatEmptySeq DEF Heard
  <2>2. \A i \in Instance : Rest(i) = <<>> /\ entries[i] = {}
    BY DEF Init, Rest, FreeTask
  <2>3. \A i \in Instance : strays[i] = {} /\ lost[i] = {} /\ Idle(i) = {} /\ faults = 0
    BY DEF Init, Idle
  <2>4. StrayInv
    BY <2>3, FS_EmptySet DEF StrayInv, StraysAt
  <2> QED
    BY <2>1, <2>2, <2>4, WithinNone DEF OrderInv
<1>2. TypeInv /\ StrayInv /\ OrderInv /\ [Next]_vars => StrayInv' /\ OrderInv'
  <2> SUFFICES ASSUME TypeInv, StrayInv, OrderInv, [Next]_vars PROVE OrderInv'
    BY NextStrays
  <2>1. CASE UNCHANGED vars
    <3>1. UNCHANGED <<inbox, task, entries, conn, out, sent, arrived, strays>>
      BY <2>1 DEF vars
    <3>2. \A s : Heard(s)' = Heard(s)
      BY <3>1 DEF Heard
    <3>3. \A i : Rest(i)' = Rest(i) /\ Ordered(i)' = Ordered(i)
      BY <3>1 DEF Rest, Ordered
    <3>4. \A i, s : InOrder(i, s)' <=> InOrder(i, s)
      BY <3>1, <3>2, <3>3 DEF InOrder, Within, Elements, Precedes
    <3>5. \A i : Within(Rest(i), arrived[i], Ordered(i))' <=> Within(Rest(i), arrived[i], Ordered(i))
      BY <3>1, <3>3 DEF Within, Elements, Precedes
    <3> QED
      BY <3>1, <3>2, <3>4, <3>5 DEF OrderInv
  <2> QED
    BY <2>1, NextOrder
<1>3. TypeInv /\ StrayInv /\ OrderInv => HeardAsArrived
  <2> SUFFICES ASSUME TypeInv, StrayInv, OrderInv PROVE HeardAsArrived
    OBVIOUS
  <2>1. \A i \in Instance : Cardinality(strays[i]) <= faults
    <3> TAKE i \in Instance
    <3>1. /\ Cardinality(strays[i]) + Cardinality(Idle(i)) <= faults
          /\ Cardinality(strays[i]) \in Nat /\ Cardinality(Idle(i)) \in Nat /\ faults \in Nat
      BY StraysFinite DEF StrayInv, StraysAt, TypeInv, CountType
    <3> QED
      BY <3>1
  <2> QED
    BY <2>1 DEF OrderInv, InOrder, Within, Ordered, HeardAsArrived
<1> QED
  BY <1>1, <1>2, <1>3, TypeInvariant, PTL DEF Spec

=============================================================================
