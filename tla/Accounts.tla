------------------------------ MODULE Accounts ------------------------------
(***************************************************************************)
(* Registration, login and sessions: src/services/auth.service.ts and      *)
(* user.service.ts over the tables users and refresh_tokens of             *)
(* database/schema.ts, in one server process that may be restarted.        *)
(*                                                                         *)
(* The database driver is synchronous, so that a handler gives way to      *)
(* others only while bcrypt works: a registration while it hashes, a login *)
(* while it compares.  Every other handler is one action.  Changing the    *)
(* password and deleting the account are no actions: both compare with the *)
(* undefined passwordHash of a raw row, which bcrypt rejects, before they  *)
(* change anything.  Whether the password of a login is right is left open.*)
(***************************************************************************)
EXTENDS Integers, FiniteSets

CONSTANTS
    Requests,       (* the registrations and logins that may be under way  *)
    Emails, Names,
    TokenLife,      (* refreshExpiresIn, in seconds                        *)
    MaxTime,        (* bound: the last second of the clock                 *)
    MaxId           (* bound: the identifiers a process may draw           *)

ASSUME AccountsAssumption == {TokenLife, MaxTime, MaxId} \subseteq Nat

VARIABLES
    users,          (* the table users, a function on the identifiers      *)
    tokens,         (* the table refresh_tokens, likewise                  *)
    nextId,         (* the idCounter of both repositories                  *)
    request,        (* what each request under way remembers               *)
    now,
    loggedOut,      (* history: the tokens whose sessions were ended       *)
    bootRows,       (* history: the rows of both tables at the last start  *)
    collisions      (* history: identifiers drawn since that were taken    *)

database == <<users, tokens>>
history == <<loggedOut, bootRows, collisions>>
vars == <<database, nextId, request, now, history>>

Tables == {"users", "refresh_tokens"}
FirstId == 0        (* 1000 in the code                                    *)
Ids == FirstId..(MaxId - 1)
Idle == [at |-> "idle"]

(* A refresh token is a signed payload with the second it was issued in.   *)
JWT == [user : Ids, email : Emails, iat : 0..MaxTime]

Account == [email : Emails, name : Names]
Row == [token : JWT, expires : Nat, revoked : BOOLEAN]
Work == {Idle}
          \cup [at : {"hashing"}, email : Emails, name : Names]
          \cup [at : {"comparing"}, user : Ids, email : Emails]

TypeOK ==
    /\ DOMAIN users \subseteq Ids
    /\ \A id \in DOMAIN users : users[id] \in Account
    /\ DOMAIN tokens \subseteq Ids
    /\ \A id \in DOMAIN tokens : tokens[id] \in Row
    /\ nextId \in [Tables -> FirstId..MaxId]
    /\ request \in [Requests -> Work]
    /\ now \in 0..MaxTime
    /\ loggedOut \subseteq JWT
    /\ bootRows \in [Tables -> Nat]
    /\ collisions \in [Tables -> Nat]

NoRows == [id \in {} |-> Idle]

Init ==
    /\ users = NoRows
    /\ tokens = NoRows
    /\ nextId = [t \in Tables |-> FirstId]
    /\ request = [r \in Requests |-> Idle]
    /\ now = 0
    /\ loggedOut = {}
    /\ bootRows = [t \in Tables |-> 0]
    /\ collisions = [t \in Tables |-> 0]

-----------------------------------------------------------------------------
(* The repositories.                                                       *)

(* generateId(), before the row is inserted.                               *)
Draw(table, taken) ==
    /\ nextId[table] < MaxId
    /\ nextId' = [nextId EXCEPT ![table] = @ + 1]
    /\ collisions' = [collisions EXCEPT ![table] = IF taken THEN @ + 1 ELSE @]

With(table, id, row) ==
    [k \in DOMAIN table \cup {id} |-> IF k = id THEN row ELSE table[k]]

EmailExists(email) == \E id \in DOMAIN users : users[id].email = email
UsernameExists(name) == \E id \in DOMAIN users : users[id].name = name

(* Mutation: without the UNIQUE columns of users.                          *)
InsertUserAnyway(email, name) ==
    LET id == nextId["users"]
        taken == id \in DOMAIN users
    IN  /\ Draw("users", taken)
        /\ users' = IF taken THEN users
                    ELSE With(users, id, [email |-> email, name |-> name])

(* INSERT INTO users: an error unless the three UNIQUE columns are new.    *)
InsertUser(email, name) ==
    LET id == nextId["users"]
        taken == id \in DOMAIN users
    IN  /\ Draw("users", taken)
        /\ users' = IF taken \/ EmailExists(email) \/ UsernameExists(name)
                    THEN users
                    ELSE With(users, id, [email |-> email, name |-> name])

Stored(jwt) == {id \in DOMAIN tokens : tokens[id].token = jwt}

(* Mutation: INSERT OR REPLACE.                                            *)
InsertTokenReplacing(jwt) ==
    LET id == nextId["refresh_tokens"]
        row == [token |-> jwt, expires |-> now + TokenLife, revoked |-> FALSE]
    IN  /\ Draw("refresh_tokens", id \in DOMAIN tokens)
        /\ tokens' = With([k \in DOMAIN tokens \ Stored(jwt) |-> tokens[k]],
                          id, row)

(* INSERT INTO refresh_tokens, with an identifier and a token of its own.  *)
InsertToken(jwt) ==
    LET id == nextId["refresh_tokens"]
        taken == id \in DOMAIN tokens
        row == [token |-> jwt, expires |-> now + TokenLife, revoked |-> FALSE]
    IN  /\ Draw("refresh_tokens", taken)
        /\ tokens' = IF taken \/ Stored(jwt) # {} THEN tokens
                     ELSE With(tokens, id, row)

(* Mutation: a session is ended by dating its expiry back.                 *)
RevokeBackdated(ids) ==
    /\ tokens' = [id \in DOMAIN tokens |->
                    IF id \in ids THEN [tokens[id] EXCEPT !.expires = now - 1]
                    ELSE tokens[id]]
    /\ loggedOut' = loggedOut \cup {tokens[id].token : id \in ids}

(* UPDATE refresh_tokens SET revoked = 1.                                  *)
Revoke(ids) ==
    /\ tokens' = [id \in DOMAIN tokens |->
                    IF id \in ids THEN [tokens[id] EXCEPT !.revoked = TRUE]
                    ELSE tokens[id]]
    /\ loggedOut' = loggedOut \cup {tokens[id].token : id \in ids}

-----------------------------------------------------------------------------
(* The handlers.                                                           *)

(* register() up to the hashing of the password.                           *)
RegisterBegin(r, email, name) ==
    /\ request[r] = Idle
    /\ ~EmailExists(email)
    /\ ~UsernameExists(name)
    /\ request' = [request EXCEPT ![r] =
                     [at |-> "hashing", email |-> email, name |-> name]]
    /\ UNCHANGED <<database, nextId, now, history>>

(* The rest of register(); when the insertion fails the client is told.    *)
RegisterEnd(r) ==
    /\ request[r].at = "hashing"
    /\ InsertUser(request[r].email, request[r].name)
    /\ request' = [request EXCEPT ![r] = Idle]
    /\ UNCHANGED <<tokens, now, loggedOut, bootRows>>

(* login() of an account that exists, up to the comparison.                *)
LoginBegin(r, id) ==
    /\ request[r] = Idle
    /\ id \in DOMAIN users
    /\ request' = [request EXCEPT ![r] =
                     [at |-> "comparing", user |-> id, email |-> users[id].email]]
    /\ UNCHANGED <<database, nextId, now, history>>

(* The password was wrong.                                                 *)
LoginDenied(r) ==
    /\ request[r].at = "comparing"
    /\ request' = [request EXCEPT ![r] = Idle]
    /\ UNCHANGED <<database, nextId, now, history>>

(* The password was right: the payload is what was read before.            *)
LoginEnd(r) ==
    /\ request[r].at = "comparing"
    /\ InsertToken([user |-> request[r].user, email |-> request[r].email,
                    iat |-> now])
    /\ request' = [request EXCEPT ![r] = Idle]
    /\ UNCHANGED <<users, now, loggedOut, bootRows>>

(* logout(), by whoever presents a token that is stored.                   *)
Logout(id) ==
    /\ id \in DOMAIN tokens
    /\ Revoke({id})
    /\ UNCHANGED <<users, nextId, request, now, bootRows, collisions>>

(* logoutAll() of a user, revokeAllForUser().                              *)
LogoutAll(user) ==
    LET open == {id \in DOMAIN tokens :
                    tokens[id].token.user = user /\ ~tokens[id].revoked}
    IN  /\ user \in DOMAIN users
        /\ Revoke(open)
        /\ UNCHANGED <<users, nextId, request, now, bootRows, collisions>>

(* What refreshToken() checks of the token: its signed date and its row.   *)
(* It changes nothing: it then reads the account by findById(), whose raw   *)
(* row has a column is_active, asks for the property isActive, and refuses *)
(* everybody.                                                              *)
Accepted(jwt) ==
    /\ now < jwt.iat + TokenLife
    /\ \E id \in Stored(jwt) : ~tokens[id].revoked /\ now <= tokens[id].expires

(* updateProfile() of an address or a name that is free.                   *)
UpdateProfile(user, email, name) ==
    /\ user \in DOMAIN users
    /\ email # users[user].email => ~EmailExists(email)
    /\ name # users[user].name => ~UsernameExists(name)
    /\ users' = [users EXCEPT ![user] = [email |-> email, name |-> name]]
    /\ UNCHANGED <<tokens, nextId, request, now, history>>

(* The nightly job cleanup-expired-tokens.                                 *)
DeleteExpired ==
    LET expired == {id \in DOMAIN tokens : tokens[id].expires < now}
    IN  /\ expired # {}
        /\ tokens' = [id \in DOMAIN tokens \ expired |-> tokens[id]]
        /\ UNCHANGED <<users, nextId, request, now, history>>

(* The process ends, at any time, and starts again: its requests are lost, *)
(* its counters begin anew, the tables stay.                               *)
Restart ==
    /\ nextId' = [t \in Tables |-> FirstId]
    /\ request' = [r \in Requests |-> Idle]
    /\ bootRows' = [t \in Tables |->
                      Cardinality(IF t = "users" THEN DOMAIN users ELSE DOMAIN tokens)]
    /\ collisions' = [t \in Tables |-> 0]
    /\ UNCHANGED <<database, now, loggedOut>>

Tick ==
    /\ now < MaxTime
    /\ now' = now + 1
    /\ UNCHANGED <<database, nextId, request, history>>

Next ==
    \/ \E r \in Requests, email \in Emails, name \in Names :
         RegisterBegin(r, email, name)
    \/ \E r \in Requests : RegisterEnd(r)
    \/ \E r \in Requests, id \in Ids : LoginBegin(r, id)
    \/ \E r \in Requests : LoginDenied(r)
    \/ \E r \in Requests : LoginEnd(r)
    \/ \E id \in Ids : Logout(id)
    \/ \E user \in Ids : LogoutAll(user)
    \/ \E user \in Ids, email \in Emails, name \in Names :
         UpdateProfile(user, email, name)
    \/ DeleteExpired
    \/ Restart
    \/ Tick

Spec == Init /\ [][Next]_vars

-----------------------------------------------------------------------------
(* No two accounts share an address or a name, although register() looks   *)
(* for both before bcrypt and inserts after it, with other registrations   *)
(* and changes of profile in between.                                      *)
OneAccountPerAddress ==
    \A i, k \in DOMAIN users : i # k => /\ users[i].email # users[k].email
                                       /\ users[i].name # users[k].name

(* logout() and logoutAll() are final: a token whose session was ended is  *)
(* not accepted again, neither after a login in the same second, which     *)
(* signs the same token, nor after its row was cleaned up, nor after a     *)
(* restart.                                                                *)
LogoutIsFinal == \A t \in loggedOut : ~Accepted(t)

(* Rows of refresh_tokens go only by expiry, keep their token and are not  *)
(* un-revoked, although the identifiers of generateId() repeat.            *)
SessionsAreNotReplaced ==
    [][\A id \in DOMAIN tokens :
         IF id \in DOMAIN tokens'
         THEN /\ tokens'[id].token = tokens[id].token
              /\ tokens[id].revoked => tokens'[id].revoked
         ELSE tokens[id].expires < now]_vars

(* The counters of generateId() begin anew with the process: insertions    *)
(* fail on the identifiers of the rows it found, at most once for each.    *)
RestartCostsOneTryPerRow == \A t \in Tables : collisions[t] <= bootRows[t]

=============================================================================
