------------------------------- MODULE Users -------------------------------
(***************************************************************************)
(* The table social_net_schema.users and the handlers that work on it, all *)
(* on the master: a registration inserts a row; a login compares with its  *)
(* hash; a profile is read by its id, and found by the beginnings of two   *)
(* names, which the program turns into patterns of SQL's LIKE.             *)
(***************************************************************************)
EXTENDS Passwords

CONSTANTS
    Id,       \* user ids, in their order
    Char,     \* characters
    Name,     \* names that clients register, as sequences of characters
    Argument, \* names that clients search for, likewise
    Percent, Underscore, Backslash  \* the characters %, _ and \

ASSUME UserAssumption ==
    /\ Id \subseteq Int
    /\ Name \cup Argument \subseteq Seq(Char)
    /\ Percent # Underscore /\ Percent # Backslash /\ Underscore # Backslash

VARIABLES
    users,  \* users[id]: the row of the id, if there is one
    chosen  \* history: chosen[id]: the password and the salt of its registration

vars == <<users, chosen>>

Init ==
    /\ users = [id \in Id |-> {}]
    /\ chosen = [id \in Id |-> [password |-> <<>>, salt |-> <<>>]]

-----------------------------------------------------------------------------
(* HashPassword: the columns salt and password_hash. *)
HashPassword(pw, salt) == [salt |-> ToHex(salt), hash |-> ToHex(SlowHash(pw \o salt))]

(* UserRegisterHandler.  PostgreSQL chooses an id that no row has, and      *)
(* GenerateSalt any salt.  Whether the reply arrives changes nothing.       *)
Register(id, first, second, pw, salt) ==
    /\ users[id] = {}
    /\ users' = [users EXCEPT ![id] =
                    {[first |-> first, second |-> second, secret |-> HashPassword(pw, salt)]}]
    /\ chosen' = [chosen EXCEPT ![id] = [password |-> pw, salt |-> salt]]

(* Login::HandleRequestJsonThrow up to its check of the password.  404 is   *)
(* the answer for a missing user and for a wrong password; FromHex throws   *)
(* for what is no hexadecimal text.                                         *)
Checked(secret, pw) ==
    IF ~ (IsHex(secret.salt) /\ IsHex(secret.hash)) THEN "error"
    ELSE IF VerifyPassword(pw, FromHex(secret.salt), FromHex(secret.hash)) THEN "accepted"
    ELSE "refused"

TryLogin(id, pw) ==
    IF users[id] = {} THEN "refused"
    ELSE LET row == CHOOSE r \in users[id] : TRUE IN Checked(row.secret, pw)

(* The profile in a row: the secret is not part of it. *)
Profile(id, row) == [id |-> id, first |-> row.first, second |-> row.second]

(* UserGetHandler; 404 is the empty set. *)
UserGet(id) == {Profile(id, row) : row \in users[id]}

-----------------------------------------------------------------------------
(* LIKE: % is any text, _ any character, and \ takes from the next one its  *)
(* special meaning.  from[j] holds the places in the text where what the    *)
(* pattern has from j on matches the rest.                                  *)
Like(s, pattern) ==
    LET Place == 1 .. Len(s) + 1
        from[j \in 1 .. Len(pattern) + 1] ==
            IF j > Len(pattern) THEN {Len(s) + 1} ELSE {i \in Place :
                \/ pattern[j] = Percent /\ \E k \in Place : i <= k /\ k \in from[j + 1]
                \/ /\ pattern[j] = Backslash /\ i <= Len(s)
                   /\ s[i] = pattern[j + 1] /\ i + 1 \in from[j + 2]
                \/ /\ pattern[j] \notin {Percent, Backslash} /\ i <= Len(s)
                   /\ pattern[j] \in {Underscore, s[i]} /\ i + 1 \in from[j + 1]}
    IN  1 \in from[1]

(* Mutant: LIKE %arg%. *)
PatternAnywhere(arg) == <<Percent>> \o arg \o <<Percent>>

Pattern(arg) == arg \o <<Percent>>

(* UserSearchHandler: the profiles in the order of their ids; 404 is the    *)
(* empty sequence.                                                          *)
Found(first, second) ==
    {id \in Id : \E row \in users[id] :
        Like(row.first, Pattern(first)) /\ Like(row.second, Pattern(second))}

(* The k-th id of a result. *)
Nth(ids, k) == CHOOSE id \in ids : Cardinality({i \in ids : i <= id}) = k

UserSearch(first, second) ==
    LET ids == Found(first, second)
    IN  [k \in 1 .. Cardinality(ids) |-> CHOOSE profile \in UserGet(Nth(ids, k)) : TRUE]

Next ==
    \E id \in Id, first, second \in Name, pw \in Password, salt \in Salt :
        Register(id, first, second, pw, salt)

Spec == Init /\ [][Next]_vars

-----------------------------------------------------------------------------
(* A login is accepted exactly for a registered user and a password whose   *)
(* salted hash is that of the one chosen, whatever bytes salt, password and *)
(* digest consist of; it never ends in an exception.                        *)
AcceptedIffHashesAgree ==
    \A id \in Id, pw \in Password :
        LET mine  == chosen[id]
            agree == SlowHash(pw \o mine.salt) = SlowHash(mine.password \o mine.salt)
        IN  TryLogin(id, pw) = IF users[id] # {} /\ agree THEN "accepted" ELSE "refused"

(* A search finds every user whose names begin with the arguments, as long  *)
(* as these hold no \ (which may hide one), and nobody else, as long as     *)
(* they hold no % or _ either; it shows each once, as UserGet would.        *)
Has(arg, chars) == \E k \in DOMAIN arg : arg[k] \in chars

SearchIsByPrefix ==
    \A first, second \in Argument :
        LET found  == UserSearch(first, second)
            ids    == {found[k].id : k \in DOMAIN found}
            wanted == {id \in Id : \E row \in users[id] :
                           IsPrefix(first, row.first) /\ IsPrefix(second, row.second)}
            arg    == first \o second
        IN  /\ ~ Has(arg, {Backslash}) => wanted \subseteq ids
            /\ ~ Has(arg, {Percent, Underscore, Backslash}) => ids = wanted
            /\ \A k \in DOMAIN found : found[k] \in UserGet(found[k].id)
            /\ \A j, k \in DOMAIN found : j < k => found[j].id < found[k].id

=============================================================================
