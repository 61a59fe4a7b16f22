----------------------------- MODULE AuthCache -----------------------------
(***************************************************************************)
(* Bearer tokens.  A login inserts a token into auth_schema.tokens on the  *)
(* master; every instance of the application checks requests against a     *)
(* cache of that table, which it reads from any replica of the database,   *)
(* every 10 seconds and soon after a login of its own.                     *)
(***************************************************************************)
EXTENDS Integers, Sequences, FiniteSets

CONSTANTS
    Instance,  \* the instances of the application
    User,
    Login,     \* login requests with a user's right password
    Of,        \* Of[l]: the user who logs in
    At,        \* At[l]: the instance that serves the login
    Token,     \* what GenerateBearerToken may return
    Nobody,    \* the owner of a token that is not in a table
    MaxLag,    \* bound on the writes a replica may be behind
    MaxFaults  \* bound on failed calls and crashes

ASSUME LoginAssumption ==
    /\ Of \in [Login -> User] /\ At \in [Login -> Instance]
    /\ Nobody \notin User
ASSUME AuthBoundAssumption == MaxLag \in Nat /\ MaxFaults \in Nat

VARIABLES
    wal,     \* the tokens' owners: states of the database, from the oldest
             \* that a replica may still show to the master's
    login,   \* login[l]: how far l is: "idle", "inserted", "ok" or "failed"
    given,   \* given[l]: the token generated for l, if any
    serving, \* instances that serve requests
    cache,   \* cache[i]: the tokens' owners as i knows them
    wanted,  \* instances whose cache a login has invalidated
    update,  \* update[i]: the update of i's cache under way, see NoUpdate
    faults,  \* faults so far
    known    \* history: known[i]: the tokens that every replica had when the
             \* last full update of i's cache began

loginVars == <<login, given>>
cacheVars == <<serving, cache, wanted, update, known>>
vars == <<wal, login, given, serving, cache, wanted, update, faults, known>>

Empty    == [t \in Token |-> Nobody]
NoUpdate == [kind |-> "none", rows |-> Empty, sure |-> {}]

db     == wal[Len(wal)]
States == {wal[k] : k \in DOMAIN wal}
Keys(table) == {t \in Token : table[t] # Nobody}

Fault == faults < MaxFaults /\ faults' = faults + 1

Init ==
    /\ wal = <<Empty>>
    /\ login = [l \in Login |-> "idle"]
    /\ given = [l \in Login |-> {}]
    /\ serving = {} /\ wanted = {}
    /\ cache = [i \in Instance |-> Empty]
    /\ update = [i \in Instance |-> NoUpdate]
    /\ faults = 0
    /\ known = [i \in Instance |-> {}]

Replicate ==
    /\ Len(wal) > 1
    /\ wal' = Tail(wal)
    /\ UNCHANGED <<loginVars, cacheVars, faults>>

-----------------------------------------------------------------------------
(* AuthCheckerBearer::CheckAuth, for a token in a well-formed header: the   *)
(* user of the request, or Nobody (403).  Every token has the scope `read`, *)
(* the only one that a handler requires.                                    *)
CheckAuth(i, t) == cache[i][t]

(* Login::HandleRequestJsonThrow with the right password; any other request *)
(* changes no state.                                                        *)
Write(table) == wal' = IF Len(wal) <= MaxLag THEN Append(wal, table) ELSE Append(Tail(wal), table)

(* Mutant: INSERT ... ON CONFLICT (token) DO UPDATE. *)
Upserted(t) == TRUE

(* The primary key lets the row in. *)
Fresh(t) == db[t] = Nobody

InsertToken(l, t) ==
    /\ login[l] = "idle"
    /\ At[l] \in serving
    /\ Fresh(t)
    /\ Write([db EXCEPT ![t] = Of[l]])
    /\ login' = [login EXCEPT ![l] = "inserted"]
    /\ given' = [given EXCEPT ![l] = {t}]
    /\ UNCHANGED <<cacheVars, faults>>

(* The token exists already: the INSERT violates the primary key (500). *)
InsertCollides(l, t) ==
    /\ login[l] = "idle"
    /\ At[l] \in serving
    /\ ~ Fresh(t)
    /\ login' = [login EXCEPT ![l] = "failed"]
    /\ UNCHANGED <<wal, given, cacheVars, faults>>

(* The INSERT fails, with or without its effect (500). *)
InsertFails(l, t) ==
    /\ login[l] = "idle"
    /\ At[l] \in serving
    /\ Fresh(t)
    /\ Fault
    /\ Write([db EXCEPT ![t] = Of[l]]) \/ UNCHANGED wal
    /\ login' = [login EXCEPT ![l] = "failed"]
    /\ UNCHANGED <<given, cacheVars>>

(* InvalidateAsync asks for an update and waits for nothing; the token is   *)
(* returned.                                                                *)
ReturnToken(l) ==
    /\ login[l] = "inserted"
    /\ login' = [login EXCEPT ![l] = "ok"]
    /\ wanted' = wanted \cup {At[l]}
    /\ UNCHANGED <<wal, given, serving, cache, update, faults, known>>

-----------------------------------------------------------------------------
(* The cache component.  An instance serves nothing before its first update *)
(* is done; updates of one cache are one at a time.                         *)
Updating(i) == update[i].kind # "none"

(* Mutant: the cache is loaded when the instance starts and not again. *)
DueOnce(i) == ~ Updating(i) /\ i \notin serving

Due(i) == ~ Updating(i)

(* The periodic update: the whole table, as some replica has it. *)
BeginUpdate(i) ==
    /\ Due(i)
    /\ \E table \in States :
           update' = [update EXCEPT ![i] = [kind |-> "full", rows |-> table,
                          sure |-> {t \in Token : \A d \in States : d[t] # Nobody}]]
    /\ UNCHANGED <<wal, loginVars, serving, cache, wanted, faults, known>>

(* The update that a login asked for: rows that are new, as far as their    *)
(* `updated` says so and the replica has them.                              *)
BeginIncrement(i) ==
    /\ i \in serving \cap wanted
    /\ ~ Updating(i)
    /\ wanted' = wanted \ {i}
    /\ \E table \in States :
           \E new \in SUBSET {t \in Keys(table) : cache[i][t] = Nobody} :
               update' = [update EXCEPT ![i] =
                             [kind |-> "increment", sure |-> {},
                              rows |-> [t \in Token |-> IF t \in new THEN table[t] ELSE Nobody]]]
    /\ UNCHANGED <<wal, loginVars, serving, cache, faults, known>>

(* Mutant: the rows read replace the cache whatever they are. *)
MergedReplacing(old, u) == u.rows

(* The rows of an increment are added to the cache; a full update replaces it. *)
Merged(old, u) ==
    IF u.kind = "full" THEN u.rows
    ELSE [t \in Token |-> IF u.rows[t] # Nobody THEN u.rows[t] ELSE old[t]]

FinishUpdate(i) ==
    /\ Updating(i)
    /\ cache' = [cache EXCEPT ![i] = Merged(@, update[i])]
    /\ known' = [known EXCEPT ![i] = IF update[i].kind = "full" THEN update[i].sure ELSE @]
    /\ serving' = serving \cup {i}
    /\ update' = [update EXCEPT ![i] = NoUpdate]
    /\ UNCHANGED <<wal, loginVars, wanted, faults>>

(* The query fails: the cache stays as it is. *)
UpdateFails(i) ==
    /\ Updating(i)
    /\ Fault
    /\ update' = [update EXCEPT ![i] = NoUpdate]
    /\ UNCHANGED <<wal, loginVars, serving, cache, wanted, known>>

(* The process dies, with the logins it serves; it starts with no cache.    *)
Crash(i) ==
    /\ i \in serving
    /\ Fault
    /\ serving' = serving \ {i} /\ wanted' = wanted \ {i}
    /\ cache' = [cache EXCEPT ![i] = Empty]
    /\ update' = [update EXCEPT ![i] = NoUpdate]
    /\ known' = [known EXCEPT ![i] = {}]
    /\ login' = [l \in Login |-> IF At[l] = i /\ login[l] = "inserted" THEN "failed" ELSE login[l]]
    /\ UNCHANGED <<wal, given>>

LoggingIn(l) ==
    \/ \E t \in Token : InsertToken(l, t) \/ InsertCollides(l, t) \/ InsertFails(l, t)
    \/ ReturnToken(l)

Caching(i) ==
    \/ BeginUpdate(i)
    \/ BeginIncrement(i)
    \/ FinishUpdate(i)
    \/ UpdateFails(i)
    \/ Crash(i)

Next ==
    \/ Replicate
    \/ \E l \in Login : LoggingIn(l)
    \/ \E i \in Instance : Caching(i)

Spec == Init /\ [][Next]_vars

(* Replicas catch up and the update timer fires; nobody has to log in.      *)
Fairness ==
    /\ WF_vars(Replicate)
    /\ \A l \in Login : WF_vars(ReturnToken(l))
    /\ \A i \in Instance : WF_vars(BeginUpdate(i)) /\ WF_vars(FinishUpdate(i))

FairSpec == Spec /\ Fairness

-----------------------------------------------------------------------------
Table == [Token -> User \cup {Nobody}]

(* Type invariant.  A token is given to one login at most.                  *)
AuthTypeOK ==
    /\ wal \in Seq(Table) /\ Len(wal) \in 1 .. MaxLag + 1
    /\ login \in [Login -> {"idle", "inserted", "ok", "failed"}]
    /\ given \in [Login -> SUBSET Token]
    /\ \A l, k \in Login : l # k => given[l] \cap given[k] = {}
    /\ serving \subseteq Instance /\ wanted \subseteq serving
    /\ cache \in [Instance -> Table]
    /\ update \in [Instance -> [kind : {"none", "full", "increment"}, rows : Table,
                                sure : SUBSET Token]]
    /\ faults \in 0 .. MaxFaults
    /\ known \in [Instance -> SUBSET Token]

(* A token never speaks for anyone but the user it was issued to, on any    *)
(* instance, however stale its cache is and whatever tokens are generated.  *)
RightUser ==
    \A i \in Instance, l \in Login : \A t \in given[l] : CheckAuth(i, t) \in {Of[l], Nobody}

(* An update of which replica and kind ever does not lose a token that      *)
(* every replica had when the cache's last full update began.               *)
SureTokensStay ==
    \A i \in serving : \A t \in known[i] : CheckAuth(i, t) # Nobody

(* Seen from the requests, all this is TokenTable: rows only ever appear,   *)
(* and an instance knows some of them, as they are.                         *)
Promise == INSTANCE TokenTable WITH issued <- db, accepted <- cache

CachesTheTable == Promise!Spec

(* A token that a login returned is accepted by every instance in the end,  *)
(* and from then on, except while the instance is down.                     *)
AcceptedInTheEnd ==
    \A l \in Login, i \in Instance :
        login[l] = "ok" ~> [](i \in serving => \A t \in given[l] : CheckAuth(i, t) = Of[l])

=============================================================================
