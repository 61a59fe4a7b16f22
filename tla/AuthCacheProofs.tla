-------------------------- MODULE AuthCacheProofs --------------------------
(* Proofs about AuthCache.  No table, however stale, contradicts the         *)
(* master's: tokens are inserted once and neither changed nor deleted.       *)
EXTENDS AuthCache, TLAPS

(* T holds nothing that the table D does not hold. *)
Within(T, D) == \A t \in Token : T[t] # Nobody => T[t] = D[t]

(* The tables that can be read are tables, and the last is the master's.    *)
WalType   == wal \in Seq(Table) /\ Len(wal) > 0
CacheType ==
    /\ given \in [Login -> SUBSET Token]
    /\ serving \subseteq Instance
    /\ cache \in [Instance -> Table]
    /\ update \in [Instance -> [kind : {"none", "full", "increment"}, rows : Table,
                                sure : SUBSET Token]]
    /\ known \in [Instance -> SUBSET Token]

AllWithin ==
    /\ \A k \in DOMAIN wal : Within(wal[k], db)
    /\ \A i \in Instance : Within(cache[i], db) /\ Within(update[i].rows, db)

GivenIsStored == \A l \in Login : \A t \in given[l] : db[t] = Of[l]

RightInv == WalType /\ CacheType /\ AllWithin /\ GivenIsStored

-----------------------------------------------------------------------------
(* After a write the master has the new table, and a read sees it or one    *)
(* that it could see before.                                                *)
LEMMA WriteEffect ==
    ASSUME WalType, NEW T \in Table, Write(T)
    PROVE  /\ WalType'
           /\ db' = T
           /\ \A k \in DOMAIN wal' : wal'[k] = T \/ \E j \in DOMAIN wal : wal'[k] = wal[j]
<1>1. CASE Len(wal) <= MaxLag
  <2>1. wal' = Append(wal, T)
    BY <1>1 DEF Write
  <2> QED
    BY <2>1 DEF WalType, db
<1>2. CASE ~ (Len(wal) <= MaxLag)
  <2>1. wal' = Append(Tail(wal), T)
    BY <1>2 DEF Write
  <2>2. Tail(wal) \in Seq(Table) /\ Len(Tail(wal)) = Len(wal) - 1
    BY DEF WalType
  <2>3. \A k \in 1 .. Len(Tail(wal)) : Tail(wal)[k] = wal[k + 1] /\ k + 1 \in DOMAIN wal
    BY <2>2 DEF WalType
  <2> QED
    BY <2>1, <2>2, <2>3 DEF WalType, db
<1> QED
  BY <1>1, <1>2

(* A replica that catches up leaves the master's table what it is.          *)
LEMMA ReplicateEffect ==
    ASSUME WalType, Replicate
    PROVE  /\ WalType'
           /\ db' = db
           /\ \A k \in DOMAIN wal' : \E j \in DOMAIN wal : wal'[k] = wal[j]
<1>1. wal' = Tail(wal) /\ Len(wal) > 1
  BY DEF Replicate
<1>2. wal' \in Seq(Table) /\ Len(wal') = Len(wal) - 1
  BY <1>1 DEF WalType
<1>3. \A k \in 1 .. Len(wal') : wal'[k] = wal[k + 1] /\ k + 1 \in DOMAIN wal
  BY <1>1, <1>2 DEF WalType
<1> QED
  BY <1>1, <1>2, <1>3 DEF WalType, db

LEMMA MasterType == WalType => db \in Table
BY DEF WalType, db

LEMMA EmptyIsTable == Empty \in Table
BY DEF Empty, Table

(* A token that the master did not have spoils no stale table.              *)
LEMMA WithinGrows ==
    ASSUME NEW D \in Table, NEW t \in Token, NEW u \in User, D[t] = Nobody,
           NEW T, Within(T, D)
    PROVE  Within(T, [D EXCEPT ![t] = u])
BY DEF Within, Table

-----------------------------------------------------------------------------
LEMMA RightInit == Init => RightInv
<1> SUFFICES ASSUME Init PROVE RightInv
  OBVIOUS
<1>1. wal = <<Empty>> /\ db = Empty
  BY DEF Init, db
<1>2. WalType
  BY <1>1, EmptyIsTable DEF WalType
<1>3. CacheType
  BY EmptyIsTable DEF Init, CacheType, NoUpdate
<1>4. AllWithin
  BY <1>1 DEF Init, AllWithin, Within, NoUpdate, Empty
<1>5. GivenIsStored
  BY DEF Init, GivenIsStored
<1> QED
  BY <1>2, <1>3, <1>4, <1>5 DEF RightInv

(* An inserted row, whether the login learns of it or not.                  *)
LEMMA StoredRow ==
    ASSUME RightInv, NEW l \in Login, NEW t \in Token, db[t] = Nobody,
           Write([db EXCEPT ![t] = Of[l]]), UNCHANGED <<cache, update>>
    PROVE  /\ WalType' /\ AllWithin'
           /\ db' = [db EXCEPT ![t] = Of[l]]
           /\ \A k \in Login : \A x \in given[k] : db'[x] = Of[k]
<1> DEFINE T == [db EXCEPT ![t] = Of[l]]
<1>1. Of[l] \in User /\ db \in Table
  BY LoginAssumption, MasterType DEF RightInv
<1>2. T \in Table
  BY <1>1 DEF Table
<1> HIDE DEF T
<1>3. /\ WalType' /\ db' = T
      /\ \A k \in DOMAIN wal' : wal'[k] = T \/ \E j \in DOMAIN wal : wal'[k] = wal[j]
  <2>1. Write(T)
    BY DEF T
  <2> QED
    BY <2>1, <1>2, WriteEffect DEF RightInv
<1>4. ASSUME NEW X, Within(X, db) PROVE Within(X, T)
  BY <1>1, <1>4, WithinGrows DEF T
<1>5. Within(T, T)
  BY DEF Within
<1>6. AllWithin'
  <2>1. \A k \in DOMAIN wal' : Within(wal'[k], T)
    BY <1>3, <1>4, <1>5 DEF RightInv, AllWithin
  <2>2. \A i \in Instance : Within(cache'[i], T) /\ Within(update'[i].rows, T)
    BY <1>4 DEF RightInv, AllWithin
  <2> QED
    BY <2>1, <2>2, <1>3 DEF AllWithin, Within
<1>7. \A k \in Login : \A x \in given[k] : T[x] = Of[k]
  <2> SUFFICES ASSUME NEW k \in Login, NEW x \in given[k] PROVE T[x] = Of[k]
    OBVIOUS
  <2>1. x \in Token /\ db[x] = Of[k] /\ Of[k] # Nobody
    BY LoginAssumption DEF RightInv, GivenIsStored, CacheType
  <2> QED
    BY <2>1, <1>1 DEF T, Table
<1> QED
  BY <1>3, <1>6, <1>7 DEF T

LEMMA RightStep == RightInv /\ [Next]_vars => RightInv'
<1> SUFFICES ASSUME RightInv, [Next]_vars PROVE RightInv'
  OBVIOUS
<1> USE DEF RightInv
<1>1. ASSUME NEW l \in Login, NEW t \in Token, InsertToken(l, t) PROVE RightInv'
  <2>1. UNCHANGED <<cacheVars>> /\ given' = [given EXCEPT ![l] = {t}] /\ db[t] = Nobody
    BY <1>1 DEF InsertToken, Fresh
  <2>2. /\ WalType' /\ AllWithin' /\ db' = [db EXCEPT ![t] = Of[l]]
        /\ \A k \in Login : \A x \in given[k] : db'[x] = Of[k]
    BY <1>1, <2>1, StoredRow DEF InsertToken, cacheVars
  <2>3. db'[t] = Of[l]
    BY <2>2, MasterType DEF Table
  <2>4. GivenIsStored'
    BY <2>1, <2>2, <2>3 DEF GivenIsStored, CacheType
  <2>5. CacheType'
    BY <2>1 DEF CacheType, cacheVars
  <2> QED
    BY <2>2, <2>4, <2>5
<1>2. ASSUME NEW l \in Login, NEW t \in Token, InsertCollides(l, t) PROVE RightInv'
  BY <1>2 DEF InsertCollides, cacheVars, WalType, CacheType, AllWithin, GivenIsStored, db, Within
<1>3. ASSUME NEW l \in Login, NEW t \in Token, InsertFails(l, t) PROVE RightInv'
  <2>1. UNCHANGED <<given, cacheVars>> /\ db[t] = Nobody
    BY <1>3 DEF InsertFails, Fresh
  <2>2. CacheType'
    BY <2>1 DEF CacheType, cacheVars
  <2>3. CASE Write([db EXCEPT ![t] = Of[l]])
    <3>1. WalType' /\ AllWithin' /\ \A k \in Login : \A x \in given[k] : db'[x] = Of[k]
      BY <2>1, <2>3, StoredRow DEF cacheVars
    <3> QED
      BY <2>1, <2>2, <3>1 DEF GivenIsStored
  <2>4. CASE UNCHANGED wal
    BY <2>1, <2>2, <2>4 DEF cacheVars, WalType, AllWithin, GivenIsStored, db, Within
  <2> QED
    BY <1>3, <2>3, <2>4 DEF InsertFails
<1>4. ASSUME NEW l \in Login, ReturnToken(l) PROVE RightInv'
  BY <1>4 DEF ReturnToken, WalType, CacheType, AllWithin, GivenIsStored, db, Within
<1>5. CASE Replicate
  <2>1. /\ WalType' /\ db' = db
        /\ \A k \in DOMAIN wal' : \E j \in DOMAIN wal : wal'[k] = wal[j]
    BY <1>5, ReplicateEffect
  <2>2. UNCHANGED <<loginVars, cacheVars>>
    BY <1>5 DEF Replicate
  <2>3. CacheType' /\ GivenIsStored'
    BY <2>1, <2>2 DEF loginVars, cacheVars, CacheType, GivenIsStored
  <2>4. AllWithin'
    BY <2>1, <2>2 DEF cacheVars, AllWithin, Within
  <2> QED
    BY <2>1, <2>3, <2>4
<1>6. ASSUME NEW i \in Instance, BeginUpdate(i) PROVE RightInv'
  <2>1. PICK k \in DOMAIN wal :
            update' = [update EXCEPT ![i] = [kind |-> "full", rows |-> wal[k],
                          sure |-> {t \in Token : \A d \in States : d[t] # Nobody}]]
    BY <1>6 DEF BeginUpdate, States
  <2>2. UNCHANGED <<wal, loginVars, serving, cache, wanted, known>>
    BY <1>6 DEF BeginUpdate
  <2>3. wal[k] \in Table /\ Within(wal[k], db)
    BY DEF WalType, AllWithin
  <2>4. CacheType'
    BY <2>1, <2>2, <2>3 DEF CacheType, loginVars
  <2>5. AllWithin'
    BY <2>1, <2>2, <2>3 DEF AllWithin, Within, CacheType, db
  <2> QED
    BY <2>2, <2>4, <2>5 DEF WalType, GivenIsStored, db, loginVars
<1>7. ASSUME NEW i \in Instance, BeginIncrement(i) PROVE RightInv'
  <2>0. PICK T \in States :
            \E new \in SUBSET {t \in Keys(T) : cache[i][t] = Nobody} :
                update' = [update EXCEPT ![i] =
                              [kind |-> "increment", sure |-> {},
                               rows |-> [t \in Token |-> IF t \in new THEN T[t] ELSE Nobody]]]
    BY <1>7 DEF BeginIncrement
  <2>1. PICK new \in SUBSET {t \in Keys(T) : cache[i][t] = Nobody} :
            update' = [update EXCEPT ![i] =
                          [kind |-> "increment", sure |-> {},
                           rows |-> [t \in Token |-> IF t \in new THEN T[t] ELSE Nobody]]]
    BY <2>0
  <2>2. UNCHANGED <<wal, loginVars, serving, cache, known>>
    BY <1>7 DEF BeginIncrement
  <2>3. T \in Table /\ Within(T, db)
    BY DEF States, WalType, AllWithin
  <2> DEFINE R == [t \in Token |-> IF t \in new THEN T[t] ELSE Nobody]
  <2>4. R \in Table /\ Within(R, db)
    BY <2>3 DEF Table, Within
  <2>5. update' = [update EXCEPT ![i] = [kind |-> "increment", sure |-> {}, rows |-> R]]
    BY <2>1
  <2> HIDE DEF R
  <2>6. CacheType'
    BY <2>5, <2>2, <2>4 DEF CacheType, loginVars
  <2>7. AllWithin'
    BY <2>5, <2>2, <2>4 DEF AllWithin, Within, CacheType, db
  <2> QED
    BY <2>2, <2>6, <2>7 DEF WalType, GivenIsStored, db, loginVars
<1>8. ASSUME NEW i \in Instance, FinishUpdate(i) PROVE RightInv'
  <2> DEFINE M == Merged(cache[i], update[i])
  <2>1. /\ update[i].rows \in Table /\ update[i].sure \in SUBSET Token /\ cache[i] \in Table
        /\ Within(cache[i], db) /\ Within(update[i].rows, db)
    BY DEF CacheType, AllWithin
  <2>2. M \in Table /\ Within(M, db)
    BY <2>1 DEF Merged, Table, Within
  <2>3. cache' = [cache EXCEPT ![i] = M]
    BY <1>8 DEF FinishUpdate
  <2> HIDE DEF M
  <2>4. /\ known' = [known EXCEPT ![i] = IF update[i].kind = "full" THEN update[i].sure ELSE @]
        /\ serving' = serving \cup {i} /\ update' = [update EXCEPT ![i] = NoUpdate]
        /\ UNCHANGED <<wal, loginVars>>
    BY <1>8 DEF FinishUpdate
  <2>5. CacheType'
    BY <2>1, <2>2, <2>3, <2>4, EmptyIsTable DEF CacheType, NoUpdate, loginVars
  <2>6. AllWithin'
    BY <2>2, <2>3, <2>4 DEF AllWithin, Within, CacheType, NoUpdate, Empty, db
  <2> QED
    BY <2>4, <2>5, <2>6 DEF WalType, GivenIsStored, db, loginVars
<1>9. ASSUME NEW i \in Instance, UpdateFails(i) PROVE RightInv'
  <2>1. update' = [update EXCEPT ![i] = NoUpdate]
        /\ UNCHANGED <<wal, loginVars, serving, cache, wanted, known>>
    BY <1>9 DEF UpdateFails
  <2>2. CacheType'
    BY <2>1, EmptyIsTable DEF CacheType, NoUpdate, loginVars
  <2>3. AllWithin'
    BY <2>1 DEF AllWithin, Within, CacheType, NoUpdate, Empty, db
  <2> QED
    BY <2>1, <2>2, <2>3 DEF WalType, GivenIsStored, db, loginVars
<1>10. ASSUME NEW i \in Instance, Crash(i) PROVE RightInv'
  <2>1. /\ serving' = serving \ {i} /\ cache' = [cache EXCEPT ![i] = Empty]
        /\ update' = [update EXCEPT ![i] = NoUpdate] /\ known' = [known EXCEPT ![i] = {}]
        /\ UNCHANGED <<wal, given>>
    BY <1>10 DEF Crash
  <2>2. CacheType'
    BY <2>1, EmptyIsTable DEF CacheType, NoUpdate
  <2>3. AllWithin'
    BY <2>1 DEF AllWithin, Within, CacheType, NoUpdate, Empty, db
  <2> QED
    BY <2>1, <2>2, <2>3 DEF WalType, GivenIsStored, db
<1>11. CASE UNCHANGED vars
  BY <1>11 DEF vars, WalType, CacheType, AllWithin, GivenIsStored, db, Within
<1> QED
  BY <1>1, <1>2, <1>3, <1>4, <1>5, <1>6, <1>7, <1>8, <1>9, <1>10, <1>11
     DEF Next, LoggingIn, Caching

(* A token never speaks for anyone but the user it was issued to, for any   *)
(* number of instances, logins, tokens and faults and any lag: what a cache *)
(* holds of a token, the master holds too.                                  *)
THEOREM OnlyTheRightUser == Spec => []RightUser
<1>1. RightInv => RightUser
  <2> SUFFICES ASSUME RightInv, NEW i \in Instance, NEW l \in Login, NEW t \in given[l]
               PROVE  cache[i][t] \in {Of[l], Nobody}
    BY DEF RightUser, CheckAuth
  <2> QED
    BY DEF RightInv, CacheType, AllWithin, Within, GivenIsStored
<1> QED
  BY <1>1, RightInit, RightStep, PTL DEF Spec

-----------------------------------------------------------------------------
(* What an update under way is sure of is among its rows. *)
SureInv ==
    \A i \in Instance :
        /\ \A t \in update[i].sure : update[i].rows[t] # Nobody
        /\ \A t \in known[i] : cache[i][t] # Nobody

LEMMA SureInit == Init => SureInv
BY DEF Init, SureInv, NoUpdate

LEMMA SureStep == RightInv /\ SureInv /\ [Next]_vars => SureInv'
<1> SUFFICES ASSUME RightInv, SureInv, [Next]_vars PROVE SureInv'
  OBVIOUS
<1>1. CASE UNCHANGED <<cache, update, known>>
  BY <1>1 DEF SureInv
<1>2. ASSUME NEW i \in Instance, BeginUpdate(i) PROVE SureInv'
  <2>1. PICK T \in States :
            update' = [update EXCEPT ![i] = [kind |-> "full", rows |-> T,
                          sure |-> {t \in Token : \A d \in States : d[t] # Nobody}]]
    BY <1>2 DEF BeginUpdate
  <2>2. UNCHANGED <<cache, known>>
    BY <1>2 DEF BeginUpdate
  <2> QED
    BY <2>1, <2>2 DEF SureInv, RightInv, CacheType
<1>3. ASSUME NEW i \in Instance, BeginIncrement(i) PROVE SureInv'
  <2>1. PICK R : update' = [update EXCEPT ![i] = [kind |-> "increment", sure |-> {}, rows |-> R]]
    BY <1>3 DEF BeginIncrement
  <2>2. UNCHANGED <<cache, known>>
    BY <1>3 DEF BeginIncrement
  <2> QED
    BY <2>1, <2>2 DEF SureInv, RightInv, CacheType
<1>4. ASSUME NEW i \in Instance, FinishUpdate(i) PROVE SureInv'
  <2>1. /\ cache' = [cache EXCEPT ![i] = Merged(cache[i], update[i])]
        /\ known' = [known EXCEPT ![i] = IF update[i].kind = "full" THEN update[i].sure ELSE known[i]]
        /\ update' = [update EXCEPT ![i] = NoUpdate]
    BY <1>4 DEF FinishUpdate
  <2>2. /\ update[i].sure \subseteq Token /\ known[i] \subseteq Token
        /\ cache \in [Instance -> Table] /\ DOMAIN update = Instance /\ DOMAIN known = Instance
    BY DEF RightInv, CacheType
  <2>3. ASSUME NEW t \in known'[i] PROVE Merged(cache[i], update[i])[t] # Nobody
    <3>1. CASE update[i].kind = "full"
      BY <2>1, <2>2, <2>3, <3>1 DEF Merged, SureInv
    <3>2. CASE update[i].kind # "full"
      BY <2>1, <2>2, <2>3, <3>2 DEF Merged, SureInv
    <3> QED
      BY <3>1, <3>2
  <2> QED
    BY <2>1, <2>2, <2>3 DEF SureInv, NoUpdate
<1>5. ASSUME NEW i \in Instance, UpdateFails(i) PROVE SureInv'
  BY <1>5 DEF UpdateFails, SureInv, RightInv, CacheType, NoUpdate
<1>6. ASSUME NEW i \in Instance, Crash(i) PROVE SureInv'
  BY <1>6 DEF Crash, SureInv, RightInv, CacheType, NoUpdate
<1>7. ASSUME NEW l \in Login, LoggingIn(l) PROVE SureInv'
  BY <1>1, <1>7 DEF LoggingIn, InsertToken, InsertCollides, InsertFails, ReturnToken, cacheVars
<1>8. CASE Replicate
  BY <1>1, <1>8 DEF Replicate, cacheVars
<1>9. CASE UNCHANGED vars
  BY <1>1, <1>9 DEF vars
<1> QED
  BY <1>2, <1>3, <1>4, <1>5, <1>6, <1>7, <1>8, <1>9 DEF Next, Caching

(* A token that every replica had when an instance's last full update began *)
(* stays accepted there, whatever later updates read and from which replica. *)
THEOREM SureTokensAreKept == Spec => []SureTokensStay
<1>1. RightInv /\ SureInv => SureTokensStay
  BY DEF RightInv, CacheType, SureInv, SureTokensStay, CheckAuth
<1> QED
  BY <1>1, RightInit, RightStep, SureInit, SureStep, PTL DEF Spec

-----------------------------------------------------------------------------
(* A login whose token is stored is served by an instance that is up. *)
LoginInv ==
    /\ Len(wal) <= MaxLag + 1
    /\ login \in [Login -> {"idle", "inserted", "ok", "failed"}]
    /\ \A l \in Login : login[l] = "inserted" => At[l] \in serving
    /\ \A l, k \in Login : l # k => given[l] \cap given[k] = {}
    /\ wanted \subseteq serving
    /\ faults \in 0 .. MaxFaults

LEMMA LoginInit == Init => LoginInv
BY AuthBoundAssumption DEF Init, LoginInv

(* A write keeps the states that can be read within the bound. *)
LEMMA WriteBound ==
    ASSUME WalType, NEW T \in Table, Write(T), Len(wal) <= MaxLag + 1
    PROVE  Len(wal') <= MaxLag + 1
<1> USE AuthBoundAssumption DEF WalType
<1>1. CASE Len(wal) <= MaxLag
  BY <1>1 DEF Write
<1>2. CASE ~ (Len(wal) <= MaxLag)
  <2>1. Tail(wal) \in Seq(Table) /\ Len(Tail(wal)) = Len(wal) - 1
    OBVIOUS
  <2> QED
    BY <1>2, <2>1 DEF Write
<1> QED
  BY <1>1, <1>2

LEMMA LoginStep == RightInv /\ LoginInv /\ [Next]_vars => LoginInv'
<1> SUFFICES ASSUME RightInv, LoginInv, [Next]_vars PROVE LoginInv'
  OBVIOUS
<1> USE AuthBoundAssumption, LoginAssumption
<1>0. ASSUME NEW l \in Login, NEW t \in Token PROVE [db EXCEPT ![t] = Of[l]] \in Table
  BY MasterType DEF RightInv, Table
<1>1. ASSUME NEW l \in Login, NEW t \in Token, InsertToken(l, t) PROVE LoginInv'
  <2>1. Len(wal') <= MaxLag + 1
    BY <1>0, <1>1, WriteBound DEF InsertToken, RightInv, LoginInv
  <2>2. \A k \in Login : t \notin given[k]
    BY <1>1 DEF InsertToken, Fresh, RightInv, GivenIsStored
  <2>3. given \in [Login -> SUBSET Token] /\ given' = [given EXCEPT ![l] = {t}]
    BY <1>1 DEF InsertToken, RightInv, CacheType
  <2>4. \A k, m \in Login : k # m => given'[k] \cap given'[m] = {}
    BY <2>2, <2>3 DEF LoginInv
  <2> QED
    BY <1>1, <2>1, <2>4 DEF InsertToken, LoginInv, cacheVars
<1>2. ASSUME NEW l \in Login, NEW t \in Token, InsertCollides(l, t) PROVE LoginInv'
  BY <1>2 DEF InsertCollides, LoginInv, cacheVars
<1>3. ASSUME NEW l \in Login, NEW t \in Token, InsertFails(l, t) PROVE LoginInv'
  <2>1. Len(wal') <= MaxLag + 1
    BY <1>0, <1>3, WriteBound DEF InsertFails, RightInv, LoginInv
  <2> QED
    BY <1>3, <2>1 DEF InsertFails, Fault, LoginInv, cacheVars
<1>4. ASSUME NEW l \in Login, ReturnToken(l) PROVE LoginInv'
  BY <1>4 DEF ReturnToken, LoginInv
<1>5. CASE Replicate
  <2>1. Len(wal') = Len(wal) - 1
    BY <1>5 DEF Replicate, RightInv, WalType
  <2>2. Len(wal') <= MaxLag + 1
    BY <2>1 DEF RightInv, WalType, LoginInv
  <2> QED
    BY <1>5, <2>2 DEF Replicate, LoginInv, loginVars, cacheVars
<1>6. ASSUME NEW i \in Instance, BeginUpdate(i) PROVE LoginInv'
  BY <1>6 DEF BeginUpdate, LoginInv, loginVars
<1>7. ASSUME NEW i \in Instance, BeginIncrement(i) PROVE LoginInv'
  BY <1>7 DEF BeginIncrement, LoginInv, loginVars
<1>8. ASSUME NEW i \in Instance, FinishUpdate(i) PROVE LoginInv'
  BY <1>8 DEF FinishUpdate, LoginInv, loginVars
<1>9. ASSUME NEW i \in Instance, UpdateFails(i) PROVE LoginInv'
  BY <1>9 DEF UpdateFails, Fault, LoginInv, loginVars
<1>10. ASSUME NEW i \in Instance, Crash(i) PROVE LoginInv'
  BY <1>10 DEF Crash, Fault, LoginInv
<1>11. CASE UNCHANGED vars
  BY <1>11 DEF vars, LoginInv
<1> QED
  BY <1>1, <1>2, <1>3, <1>4, <1>5, <1>6, <1>7, <1>8, <1>9, <1>10, <1>11
     DEF Next, LoggingIn, Caching

(* The type invariant; two logins never get the same token, although tokens *)
(* may be generated twice.                                                  *)
THEOREM AuthTypeCorrect == Spec => []AuthTypeOK
<1>1. RightInv /\ LoginInv => AuthTypeOK
  BY AuthBoundAssumption DEF RightInv, WalType, CacheType, LoginInv, AuthTypeOK
<1> QED
  BY <1>1, RightInit, RightStep, LoginInit, LoginStep, PTL DEF Spec

-----------------------------------------------------------------------------
(* What an instance comes to know is its choice of the master's rows.       *)
LEMMA ChooseStep ==
    ASSUME RightInv', NEW i \in Instance, db' = db, CacheType,
           NEW X, cache' = [cache EXCEPT ![i] = X]
    PROVE  \E T \in SUBSET Token : Promise!Choose(i, T)
<1>1. X \in Table /\ Within(X, db)
  BY DEF RightInv, CacheType, AllWithin, Within
<1>2. X = [t \in Token |-> IF t \in Keys(X) THEN db[t] ELSE Nobody]
  BY <1>1 DEF Table, Within, Keys
<1>3. Promise!Choose(i, Keys(X)) /\ Keys(X) \subseteq Token
  BY <1>2 DEF Promise!Choose, Keys
<1> QED
  BY <1>3

(* A row appears for a token that had none, for one user. *)
LEMMA IssueStep ==
    ASSUME RightInv, NEW l \in Login, NEW t \in Token, Fresh(t), UNCHANGED cache,
           Write([db EXCEPT ![t] = Of[l]])
    PROVE  Promise!Next
<1>1. Of[l] \in User /\ [db EXCEPT ![t] = Of[l]] \in Table
  BY LoginAssumption, MasterType DEF RightInv, Table
<1>2. db' = [db EXCEPT ![t] = Of[l]]
  BY <1>1, WriteEffect DEF RightInv
<1>3. Promise!Issue(t, Of[l])
  BY <1>2 DEF Promise!Issue, Fresh
<1> QED
  BY <1>1, <1>3 DEF Promise!Next

(* The caches, filled in full and in part from replicas that lag, lost in   *)
(* crashes and kept after failed updates, implement TokenTable.             *)
THEOREM CachesImplementTheTable == Spec => CachesTheTable
<1>1. Init => Promise!Init
  BY DEF Init, Promise!Init, Empty, db
<1>2. ASSUME RightInv, RightInv', [Next]_vars PROVE [Promise!Next]_<<db, cache>>
  <2>1. CASE UNCHANGED <<db, cache>>
    BY <2>1
  <2>2. ASSUME NEW l \in Login, LoggingIn(l) PROVE [Promise!Next]_<<db, cache>>
    <3>1. ASSUME NEW t \in Token, InsertToken(l, t) PROVE Promise!Next
      BY <1>2, <3>1, IssueStep DEF InsertToken, cacheVars
    <3>2. ASSUME NEW t \in Token, InsertFails(l, t) PROVE [Promise!Next]_<<db, cache>>
      BY <1>2, <3>2, IssueStep DEF InsertFails, cacheVars, db
    <3>3. ASSUME NEW t \in Token, InsertCollides(l, t) PROVE UNCHANGED <<db, cache>>
      BY <3>3 DEF InsertCollides, cacheVars, db
    <3>4. ASSUME ReturnToken(l) PROVE UNCHANGED <<db, cache>>
      BY <3>4 DEF ReturnToken, db
    <3> QED
      BY <2>2, <3>1, <3>2, <3>3, <3>4 DEF LoggingIn
  <2>3. ASSUME NEW i \in Instance, Caching(i) PROVE [Promise!Next]_<<db, cache>>
    <3>1. CASE BeginUpdate(i) \/ BeginIncrement(i) \/ UpdateFails(i)
      BY <2>1, <3>1 DEF BeginUpdate, BeginIncrement, UpdateFails, db
    <3>2. CASE FinishUpdate(i) \/ Crash(i)
      <4>1. PICK X : cache' = [cache EXCEPT ![i] = X]
        BY <3>2 DEF FinishUpdate, Crash
      <4>2. db' = db
        BY <3>2 DEF FinishUpdate, Crash, db
      <4>3. \E T \in SUBSET Token : Promise!Choose(i, T)
        BY <1>2, <4>1, <4>2, ChooseStep DEF RightInv
      <4> QED
        BY <4>3 DEF Promise!Next
    <3> QED
      BY <2>3, <3>1, <3>2 DEF Caching
  <2>4. CASE Replicate
    BY <1>2, <2>1, <2>4, ReplicateEffect DEF Replicate, cacheVars, RightInv
  <2>5. CASE UNCHANGED vars
    BY <2>1, <2>5 DEF vars, db
  <2> QED
    BY <1>2, <2>2, <2>3, <2>4, <2>5 DEF Next
<1>3. RightInv /\ RightInv' /\ [Next]_vars => [Promise!Next]_<<db, cache>>
  BY <1>2
<1> QED
  BY <1>1, <1>3, RightInit, RightStep, PTL DEF Spec, CachesTheTable, Promise!Spec

=============================================================================
