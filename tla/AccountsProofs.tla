--------------------------- MODULE AccountsProofs ---------------------------
(***************************************************************************)
(* For every number of requests, addresses, names and identifiers and      *)
(* every lifetime of a token: addresses stay unique, rows of refresh       *)
(* tokens are not replaced, and a session that was ended stays ended.  The *)
(* routes of authentication do nothing to the accounts but what Accounts   *)
(* allows, so that all this holds behind the limiter, for every number of  *)
(* client addresses and every limit.                                       *)
(***************************************************************************)
EXTENDS AuthRoutes, SubsequencesProofs

TokensUnique ==
    \A i, k \in DOMAIN tokens : tokens[i].token = tokens[k].token => i = k

(* The date of a row is the one signed into its token.                     *)
ExpiresAsSigned ==
    \A id \in DOMAIN tokens :
        tokens[id].expires = tokens[id].token.iat + TokenLife

(* The row of an ended session is there, revoked, until its token is past  *)
(* its date: so long, no login can store the token again.                  *)
EndedUntilExpired ==
    \A t \in loggedOut :
        \/ \E id \in DOMAIN tokens : tokens[id].token = t /\ tokens[id].revoked
        \/ t.iat + TokenLife < now

Inv ==
    /\ TypeOK
    /\ OneAccountPerAddress
    /\ TokensUnique
    /\ ExpiresAsSigned
    /\ EndedUntilExpired

-----------------------------------------------------------------------------

(* An insertion into refresh_tokens changes nothing, or adds one row with  *)
(* a new identifier and a new token.                                       *)
LEMMA InsertTokenEffect ==
    ASSUME TypeOK, NEW jwt \in JWT, InsertToken(jwt)
    PROVE  /\ nextId' \in [Tables -> FirstId..MaxId]
           /\ collisions' \in [Tables -> Nat]
           /\ \/ tokens' = tokens
              \/ \E id \in Ids \ DOMAIN tokens :
                   /\ DOMAIN tokens' = DOMAIN tokens \cup {id}
                   /\ \A k \in DOMAIN tokens : tokens'[k] = tokens[k]
                   /\ tokens'[id] \in Row
                   /\ tokens'[id].token = jwt
                   /\ tokens'[id].expires = now + TokenLife
                   /\ Stored(jwt) = {}
<1> DEFINE id == nextId["refresh_tokens"]
           row == [token |-> jwt, expires |-> now + TokenLife, revoked |-> FALSE]
<1> USE AccountsAssumption
<1>1. /\ nextId' \in [Tables -> FirstId..MaxId]
      /\ collisions' \in [Tables -> Nat]
      /\ id \in Ids
  BY DEF InsertToken, Draw, TypeOK, Tables, FirstId, Ids
<1>2. CASE id \in DOMAIN tokens \/ Stored(jwt) # {}
  BY <1>1, <1>2 DEF InsertToken
<1>3. CASE id \notin DOMAIN tokens /\ Stored(jwt) = {}
  <2>1. tokens' = With(tokens, id, row)
    BY <1>3 DEF InsertToken
  <2>2. /\ DOMAIN tokens' = DOMAIN tokens \cup {id}
        /\ \A k \in DOMAIN tokens : tokens'[k] = tokens[k]
        /\ tokens'[id] = row
    BY <1>3, <2>1 DEF With
  <2>3. /\ row \in Row
        /\ row.token = jwt
        /\ row.expires = now + TokenLife
    BY DEF TypeOK, Row
  <2> HIDE DEF row, id
  <2> QED
    BY <1>1, <1>3, <2>2, <2>3
<1> QED
  BY <1>2, <1>3

(* So does an insertion into users, with an address and a name not used.   *)
LEMMA InsertUserEffect ==
    ASSUME TypeOK, NEW email \in Emails, NEW name \in Names,
           InsertUser(email, name)
    PROVE  /\ nextId' \in [Tables -> FirstId..MaxId]
           /\ collisions' \in [Tables -> Nat]
           /\ \/ users' = users
              \/ \E id \in Ids \ DOMAIN users :
                   /\ DOMAIN users' = DOMAIN users \cup {id}
                   /\ \A k \in DOMAIN users : users'[k] = users[k]
                   /\ users'[id] \in Account
                   /\ users'[id].email = email
                   /\ users'[id].name = name
                   /\ ~EmailExists(email) /\ ~UsernameExists(name)
<1> DEFINE id == nextId["users"]
           row == [email |-> email, name |-> name]
<1> USE AccountsAssumption
<1>1. /\ nextId' \in [Tables -> FirstId..MaxId]
      /\ collisions' \in [Tables -> Nat]
      /\ id \in Ids
  BY DEF InsertUser, Draw, TypeOK, Tables, FirstId, Ids
<1>2. CASE id \in DOMAIN users \/ EmailExists(email) \/ UsernameExists(name)
  BY <1>1, <1>2 DEF InsertUser
<1>3. CASE ~(id \in DOMAIN users \/ EmailExists(email) \/ UsernameExists(name))
  <2>1. users' = With(users, id, row)
    BY <1>3 DEF InsertUser
  <2>2. /\ DOMAIN users' = DOMAIN users \cup {id}
        /\ \A k \in DOMAIN users : users'[k] = users[k]
        /\ users'[id] = row
    BY <1>3, <2>1 DEF With
  <2>3. row \in Account /\ row.email = email /\ row.name = name
    BY DEF Account
  <2> HIDE DEF row, id
  <2> QED
    BY <1>1, <1>3, <2>2, <2>3
<1> QED
  BY <1>2, <1>3

(* Both tables are finite, so that their rows can be counted.              *)
LEMMA RowsCounted ==
    ASSUME TypeOK
    PROVE  /\ Cardinality(DOMAIN users) \in Nat
           /\ Cardinality(DOMAIN tokens) \in Nat
<1>1. IsFiniteSet(Ids)
  <2>1. 0 \in Int /\ MaxId - 1 \in Int
    BY AccountsAssumption
  <2> QED
    BY <2>1, FS_Interval DEF Ids, FirstId
<1> QED
  BY <1>1, FS_Subset, FS_CardinalityType DEF TypeOK

-----------------------------------------------------------------------------

(* The empty tables.                                                       *)
LEMMA InitInv == Init => Inv
BY AccountsAssumption
   DEF Init, Inv, TypeOK, NoRows, Tables, FirstId, Work, Idle,
       OneAccountPerAddress, TokensUnique, ExpiresAsSigned, EndedUntilExpired

(* The steps that only move a request.                                     *)
LEMMA RequestInv ==
    ASSUME Inv, request' \in [Requests -> Work],
           UNCHANGED <<database, nextId, now, history>>
    PROVE  Inv'
BY DEF Inv, TypeOK, database, history, OneAccountPerAddress, TokensUnique,
       ExpiresAsSigned, EndedUntilExpired

(* Work of every kind is well formed.                                      *)
LEMMA WorkTypes ==
    ASSUME TypeOK, NEW r \in Requests
    PROVE  /\ request[r].at = "hashing" =>
                 request[r].email \in Emails /\ request[r].name \in Names
           /\ request[r].at = "comparing" =>
                 request[r].user \in Ids /\ request[r].email \in Emails
<1>1. request[r] \in Work
  BY DEF TypeOK
<1>2. CASE request[r] = Idle
  BY <1>2 DEF Idle
<1>3. CASE request[r] \in [at : {"hashing"}, email : Emails, name : Names]
  BY <1>3
<1>4. CASE request[r] \in [at : {"comparing"}, user : Ids, email : Emails]
  BY <1>4
<1> QED
  BY <1>1, <1>2, <1>3, <1>4 DEF Work

(* The end of a registration: the address may have been taken meanwhile,   *)
(* and then the insertion fails.                                           *)
LEMMA RegisterEndInv ==
    ASSUME Inv, NEW r \in Requests, RegisterEnd(r)
    PROVE  Inv'
<1> DEFINE email == request[r].email
           name == request[r].name
<1>1. email \in Emails /\ name \in Names
  BY WorkTypes DEF Inv, RegisterEnd
<1>2. /\ InsertUser(email, name)
      /\ request' = [request EXCEPT ![r] = Idle]
      /\ UNCHANGED <<tokens, now, loggedOut, bootRows>>
  BY DEF RegisterEnd
<1> HIDE DEF email, name
<1>3. /\ nextId' \in [Tables -> FirstId..MaxId]
      /\ collisions' \in [Tables -> Nat]
      /\ \/ users' = users
         \/ \E id \in Ids \ DOMAIN users :
              /\ DOMAIN users' = DOMAIN users \cup {id}
              /\ \A k \in DOMAIN users : users'[k] = users[k]
              /\ users'[id] \in Account
              /\ users'[id].email = email
              /\ users'[id].name = name
              /\ ~EmailExists(email) /\ ~UsernameExists(name)
  BY <1>1, <1>2, InsertUserEffect DEF Inv
<1>4. /\ DOMAIN users' \subseteq Ids
      /\ \A id \in DOMAIN users' : users'[id] \in Account
  BY <1>3 DEF Inv, TypeOK
<1>5. TypeOK'
  BY <1>2, <1>3, <1>4 DEF Inv, TypeOK, Work
<1>6. OneAccountPerAddress'
  <2>1. CASE users' = users
    BY <2>1 DEF Inv, OneAccountPerAddress
  <2>2. ASSUME NEW id \in Ids \ DOMAIN users,
               DOMAIN users' = DOMAIN users \cup {id},
               \A k \in DOMAIN users : users'[k] = users[k],
               users'[id].email = email, users'[id].name = name,
               ~EmailExists(email), ~UsernameExists(name)
        PROVE  OneAccountPerAddress'
    <3>1. \A k \in DOMAIN users : /\ users'[k].email # users'[id].email
                                 /\ users'[k].name # users'[id].name
      BY <2>2 DEF EmailExists, UsernameExists
    <3> SUFFICES ASSUME NEW i \in DOMAIN users', NEW k \in DOMAIN users', i # k
                 PROVE  /\ users'[i].email # users'[k].email
                        /\ users'[i].name # users'[k].name
      BY DEF OneAccountPerAddress
    <3>2. CASE i = id \/ k = id
      BY <2>2, <3>1, <3>2
    <3>3. CASE i # id /\ k # id
      BY <2>2, <3>3 DEF Inv, OneAccountPerAddress
    <3> QED
      BY <3>2, <3>3
  <2> QED
    BY <1>3, <2>1, <2>2
<1> QED
  BY <1>2, <1>5, <1>6 DEF Inv, TokensUnique, ExpiresAsSigned, EndedUntilExpired

(* The end of a login.  A token that was stored before is not stored       *)
(* again, and the token of an ended session is either still stored or of a *)
(* second long past.                                                       *)
LEMMA LoginEndInv ==
    ASSUME Inv, NEW r \in Requests, LoginEnd(r)
    PROVE  Inv'
<1> DEFINE jwt == [user |-> request[r].user, email |-> request[r].email,
                   iat |-> now]
<1> USE AccountsAssumption
<1>1. jwt \in JWT /\ jwt.iat = now
  BY WorkTypes DEF Inv, TypeOK, LoginEnd, JWT
<1>2. /\ InsertToken(jwt)
      /\ request' = [request EXCEPT ![r] = Idle]
      /\ UNCHANGED <<users, now, loggedOut, bootRows>>
  BY DEF LoginEnd
<1> HIDE DEF jwt
<1>3. /\ nextId' \in [Tables -> FirstId..MaxId]
      /\ collisions' \in [Tables -> Nat]
      /\ \/ tokens' = tokens
         \/ \E id \in Ids \ DOMAIN tokens :
              /\ DOMAIN tokens' = DOMAIN tokens \cup {id}
              /\ \A k \in DOMAIN tokens : tokens'[k] = tokens[k]
              /\ tokens'[id] \in Row
              /\ tokens'[id].token = jwt
              /\ tokens'[id].expires = now + TokenLife
              /\ Stored(jwt) = {}
  BY <1>1, <1>2, InsertTokenEffect DEF Inv
<1>4. /\ DOMAIN tokens' \subseteq Ids
      /\ \A id \in DOMAIN tokens' : tokens'[id] \in Row
  BY <1>3 DEF Inv, TypeOK
<1>5. TypeOK'
  BY <1>2, <1>3, <1>4 DEF Inv, TypeOK, Work
<1>6. TokensUnique'
  <2>1. CASE tokens' = tokens
    BY <2>1 DEF Inv, TokensUnique
  <2>2. ASSUME NEW id \in Ids \ DOMAIN tokens,
               DOMAIN tokens' = DOMAIN tokens \cup {id},
               \A k \in DOMAIN tokens : tokens'[k] = tokens[k],
               tokens'[id].token = jwt, Stored(jwt) = {}
        PROVE  TokensUnique'
    <3>1. \A k \in DOMAIN tokens : tokens'[k].token # tokens'[id].token
      BY <2>2 DEF Stored
    <3> SUFFICES ASSUME NEW i \in DOMAIN tokens', NEW k \in DOMAIN tokens',
                        tokens'[i].token = tokens'[k].token
                 PROVE  i = k
      BY DEF TokensUnique
    <3>2. CASE i = id \/ k = id
      BY <2>2, <3>1, <3>2
    <3>3. CASE i # id /\ k # id
      BY <2>2, <3>3 DEF Inv, TokensUnique
    <3> QED
      BY <3>2, <3>3
  <2> QED
    BY <1>3, <2>1, <2>2
<1>7. ExpiresAsSigned'
  BY <1>1, <1>3 DEF Inv, ExpiresAsSigned
<1>8. EndedUntilExpired'
  BY <1>2, <1>3 DEF Inv, EndedUntilExpired
<1> QED
  BY <1>2, <1>5, <1>6, <1>7, <1>8 DEF Inv, OneAccountPerAddress

(* The end of some sessions.                                               *)
LEMMA RevokeInv ==
    ASSUME Inv, NEW ids \in SUBSET DOMAIN tokens, Revoke(ids),
           UNCHANGED <<users, nextId, request, now, bootRows, collisions>>
    PROVE  Inv'
<1>1. /\ DOMAIN tokens' = DOMAIN tokens
      /\ \A id \in DOMAIN tokens :
           /\ tokens'[id] \in Row
           /\ tokens'[id].token = tokens[id].token
           /\ tokens'[id].expires = tokens[id].expires
           /\ id \in ids \/ tokens[id].revoked => tokens'[id].revoked = TRUE
  <2>1. DOMAIN tokens' = DOMAIN tokens
    BY DEF Revoke
  <2>2. ASSUME NEW id \in DOMAIN tokens
        PROVE  /\ tokens[id] \in Row
               /\ tokens'[id] = IF id \in ids
                                THEN [tokens[id] EXCEPT !.revoked = TRUE]
                                ELSE tokens[id]
    BY DEF Inv, TypeOK, Revoke
  <2>3. \A row \in Row : /\ [row EXCEPT !.revoked = TRUE] \in Row
                         /\ [row EXCEPT !.revoked = TRUE].token = row.token
                         /\ [row EXCEPT !.revoked = TRUE].expires = row.expires
                         /\ [row EXCEPT !.revoked = TRUE].revoked = TRUE
                         /\ row.revoked \in BOOLEAN
    BY DEF Row
  <2>4. ASSUME NEW id \in DOMAIN tokens
        PROVE  /\ tokens'[id] \in Row
               /\ tokens'[id].token = tokens[id].token
               /\ tokens'[id].expires = tokens[id].expires
               /\ id \in ids \/ tokens[id].revoked => tokens'[id].revoked = TRUE
    <3>1. CASE id \in ids
      <4> DEFINE row == tokens[id]
      <4>1. row \in Row /\ tokens'[id] = [row EXCEPT !.revoked = TRUE]
        BY <2>2, <3>1
      <4> HIDE DEF row
      <4>2. /\ tokens'[id] \in Row
            /\ tokens'[id].token = row.token
            /\ tokens'[id].expires = row.expires
            /\ tokens'[id].revoked = TRUE
        BY <4>1, <2>3
      <4> QED
        BY <4>2 DEF row
    <3>2. CASE id \notin ids
      BY <2>2, <2>3, <3>2
    <3> QED
      BY <3>1, <3>2
  <2> QED
    BY <2>1, <2>4
<1>2. loggedOut' = loggedOut \cup {tokens[id].token : id \in ids}
  BY DEF Revoke
<1>3. TypeOK'
  <2>1. loggedOut' \subseteq JWT
    BY <1>2 DEF Inv, TypeOK, Row
  <2> QED
    BY <1>1, <2>1 DEF Inv, TypeOK
<1>4. EndedUntilExpired'
  BY <1>1, <1>2 DEF Inv, EndedUntilExpired
<1> QED
  BY <1>1, <1>3, <1>4
     DEF Inv, OneAccountPerAddress, TokensUnique, ExpiresAsSigned

(* A change of profile.                                                    *)
LEMMA UpdateProfileInv ==
    ASSUME Inv, NEW user \in Ids, NEW email \in Emails, NEW name \in Names,
           UpdateProfile(user, email, name)
    PROVE  Inv'
<1>1. TypeOK'
  BY DEF Inv, TypeOK, UpdateProfile, Account, history
<1>2. OneAccountPerAddress'
  BY DEF Inv, OneAccountPerAddress, UpdateProfile, EmailExists, UsernameExists
<1> QED
  BY <1>1, <1>2
     DEF Inv, UpdateProfile, history, TokensUnique, ExpiresAsSigned,
         EndedUntilExpired

(* The nightly cleanup: what it removes is past its signed date.           *)
LEMMA DeleteExpiredInv ==
    ASSUME Inv, DeleteExpired
    PROVE  Inv'
<1>1. /\ DOMAIN tokens' \subseteq DOMAIN tokens
      /\ \A id \in DOMAIN tokens' : tokens'[id] = tokens[id]
      /\ \A id \in DOMAIN tokens \ DOMAIN tokens' : tokens[id].expires < now
      /\ UNCHANGED <<users, nextId, request, now, history>>
  BY DEF DeleteExpired
<1>2. TypeOK'
  BY <1>1 DEF Inv, TypeOK, history
<1>3. EndedUntilExpired'
  BY <1>1 DEF Inv, EndedUntilExpired, ExpiresAsSigned, history
<1> QED
  BY <1>1, <1>2, <1>3
     DEF Inv, history, OneAccountPerAddress, TokensUnique, ExpiresAsSigned

(* Each step of the accounts preserves the invariant.                      *)
LEMMA NextInv ==
    ASSUME Inv, [Next]_vars
    PROVE  Inv'
<1>1. ASSUME NEW r \in Requests, NEW email \in Emails, NEW name \in Names,
             RegisterBegin(r, email, name)
      PROVE  Inv'
  BY <1>1, RequestInv DEF RegisterBegin, Inv, TypeOK, Work
<1>2. ASSUME NEW r \in Requests, RegisterEnd(r) PROVE Inv'
  BY <1>2, RegisterEndInv
<1>3. ASSUME NEW r \in Requests, NEW id \in Ids, LoginBegin(r, id) PROVE Inv'
  BY <1>3, RequestInv DEF LoginBegin, Inv, TypeOK, Work, Account
<1>4. ASSUME NEW r \in Requests, LoginDenied(r) PROVE Inv'
  BY <1>4, RequestInv DEF LoginDenied, Inv, TypeOK, Work
<1>5. ASSUME NEW r \in Requests, LoginEnd(r) PROVE Inv'
  BY <1>5, LoginEndInv
<1>6. ASSUME NEW id \in Ids, Logout(id) PROVE Inv'
  BY <1>6, RevokeInv DEF Logout
<1>7. ASSUME NEW user \in Ids, LogoutAll(user) PROVE Inv'
  BY <1>7, RevokeInv DEF LogoutAll
<1>8. ASSUME NEW user \in Ids, NEW email \in Emails, NEW name \in Names,
             UpdateProfile(user, email, name)
      PROVE  Inv'
  BY <1>8, UpdateProfileInv
<1>9. CASE DeleteExpired
  BY <1>9, DeleteExpiredInv
<1>10. CASE Restart
  <2>1. TypeOK'
    BY <1>10, RowsCounted, AccountsAssumption
       DEF Inv, TypeOK, Restart, database, Tables, FirstId, Work
  <2> QED
    BY <1>10, <2>1
       DEF Inv, Restart, database, OneAccountPerAddress, TokensUnique,
           ExpiresAsSigned, EndedUntilExpired
<1>11. CASE Tick
  <2>1. TypeOK' /\ now' = now + 1 /\ now \in Nat
    BY <1>11, AccountsAssumption DEF Inv, TypeOK, Tick, database, history
  <2>2. EndedUntilExpired'
    <3> SUFFICES ASSUME NEW t \in loggedOut, t.iat + TokenLife < now
                 PROVE  t.iat + TokenLife < now'
      BY <1>11 DEF Inv, EndedUntilExpired, Tick, database, history
    <3> t \in JWT /\ t.iat \in Nat
      BY AccountsAssumption DEF Inv, TypeOK, JWT
    <3> QED
      BY <2>1, AccountsAssumption
  <2> QED
    BY <1>11, <2>1, <2>2
       DEF Inv, Tick, database, history, OneAccountPerAddress, TokensUnique,
           ExpiresAsSigned
<1>12. CASE UNCHANGED vars
  BY <1>12, RequestInv DEF Inv, TypeOK, vars
<1> QED
  BY <1>1, <1>2, <1>3, <1>4, <1>5, <1>6, <1>7, <1>8, <1>9, <1>10, <1>11, <1>12
     DEF Next

(* The invariant holds of every behaviour.                                 *)
THEOREM Invariance == Spec => []Inv
<1> QED
  BY InitInv, NextInv, PTL DEF Spec

(* Every variable keeps its type: src/services/auth.service.ts.            *)
THEOREM TypeCorrect == Spec => []TypeOK
BY Invariance, PTL DEF Inv

(* No two accounts share an address or a name, although both are looked    *)
(* for before the password is hashed and inserted after it.                *)
THEOREM AddressesUnique == Spec => []OneAccountPerAddress
BY Invariance, PTL DEF Inv

(* A session that was ended is never accepted again: its row stays, or its *)
(* signed date is past.                                                    *)
THEOREM LogoutFinal == Spec => []LogoutIsFinal
<1>1. ASSUME Inv PROVE LogoutIsFinal
  <2> SUFFICES ASSUME NEW t \in loggedOut, Accepted(t)
               PROVE  FALSE
    BY DEF LogoutIsFinal
  <2>1. /\ now < t.iat + TokenLife
        /\ \E k \in DOMAIN tokens : tokens[k].token = t /\ ~tokens[k].revoked
    BY DEF Accepted, Stored
  <2>2. CASE t.iat + TokenLife < now
    <3>1. now \in Int /\ t.iat + TokenLife \in Int
      BY <1>1, AccountsAssumption DEF Inv, TypeOK, JWT
    <3> QED
      BY <2>1, <2>2, <3>1
  <2>3. CASE \E id \in DOMAIN tokens : tokens[id].token = t /\ tokens[id].revoked
    BY <1>1, <2>1, <2>3 DEF Inv, TokensUnique
  <2> QED
    BY <1>1, <2>2, <2>3 DEF Inv, EndedUntilExpired
<1> QED
  BY <1>1, Invariance, PTL

(* A row of refresh_tokens keeps its token and its revocation until it has *)
(* expired.                                                                *)
THEOREM SessionsKeepTheirRows == Spec => SessionsAreNotReplaced
<1> DEFINE Stays == \A id \in DOMAIN tokens :
                      IF id \in DOMAIN tokens'
                      THEN /\ tokens'[id].token = tokens[id].token
                           /\ tokens[id].revoked => tokens'[id].revoked
                      ELSE tokens[id].expires < now
<1>1. ASSUME Inv, [Next]_vars PROVE [Stays]_vars
  <2>1. ASSUME NEW r \in Requests, LoginEnd(r) PROVE Stays
    <3>1. [user |-> request[r].user, email |-> request[r].email, iat |-> now]
            \in JWT
      BY <1>1, <2>1, WorkTypes DEF Inv, TypeOK, LoginEnd, JWT
    <3> QED
      BY <1>1, <2>1, <3>1, InsertTokenEffect DEF LoginEnd, Inv
  <2>2. ASSUME NEW ids \in SUBSET DOMAIN tokens, Revoke(ids) PROVE Stays
    BY <1>1, <2>2 DEF Revoke, Inv, TypeOK, Row
  <2>3. CASE DeleteExpired
    BY <2>3 DEF DeleteExpired
  <2>4. CASE UNCHANGED tokens
    BY <2>4
  <2> QED
    BY <1>1, <2>1, <2>2, <2>3, <2>4
       DEF Next, RegisterBegin, RegisterEnd, LoginBegin, LoginDenied, Logout,
           LogoutAll, UpdateProfile, Restart, Tick, database, vars
<1> QED
  BY <1>1, Invariance, PTL DEF Spec, SessionsAreNotReplaced

-----------------------------------------------------------------------------
(* The routes in front of the accounts.                                    *)

(* Every step of the routes is a step of Accounts, or changes nothing of   *)
(* it: the middlewares refuse, and never alter, a request.                 *)
LEMMA RoutesStep ==
    ASSUME [RoutesNext]_routeVars
    PROVE  [Next]_vars
<1>1. CASE UNCHANGED routeVars
  BY <1>1 DEF routeVars
<1>2. CASE \E ip \in IPs, r \in Requests, email \in Emails, name \in Names :
             Register(ip, r, email, name)
  BY <1>2 DEF Register, Next
<1>3. CASE \E ip \in IPs : RefusedAfterLimiter(ip)
  BY <1>3 DEF RefusedAfterLimiter
<1>4. CASE \E r \in Requests : Registered(r)
  BY <1>4 DEF Registered, Next
<1>5. CASE \E ip \in IPs, r \in Requests, id \in Ids : Login(ip, r, id)
  BY <1>5 DEF Login, Next
<1>6. CASE \E ip \in IPs : LoginUnknown(ip)
  BY <1>6 DEF LoginUnknown
<1>7. CASE \E r \in Requests : WrongPassword(r)
  BY <1>7 DEF WrongPassword, Next
<1>8. CASE \E r \in Requests : RightPassword(r)
  BY <1>8 DEF RightPassword, Next
<1>9. CASE \E ip \in IPs, id \in Ids : LogoutRoute(ip, id)
  BY <1>9 DEF LogoutRoute, Next
<1>10. CASE \E ip \in IPs, user \in Ids : LogoutAllRoute(ip, user)
  BY <1>10 DEF LogoutAllRoute, Next
<1>11. CASE Elsewhere
  BY <1>11 DEF Elsewhere, Next
<1>12. CASE ProcessRestart
  BY <1>12 DEF ProcessRestart, Next
<1>13. CASE Clock
  BY <1>13 DEF Clock, Next
<1> QED
  BY <1>1, <1>2, <1>3, <1>4, <1>5, <1>6, <1>7, <1>8, <1>9, <1>10, <1>11,
     <1>12, <1>13 DEF RoutesNext

(* The routes of auth.routes.ts implement the accounts of auth.service.ts. *)
THEOREM RoutesImplementAccounts == RoutesSpec => Spec
<1>1. RoutesInit => Init
  BY DEF RoutesInit
<1>2. [RoutesNext]_routeVars => [Next]_vars
  BY RoutesStep
<1> QED
  BY <1>1, <1>2, PTL DEF RoutesSpec, Spec

(* Behind the limiter, no two accounts share an address or a name, ended   *)
(* sessions stay ended and no row of a session is replaced.                *)
THEOREM RoutesAreSound ==
    RoutesSpec => /\ []OneAccountPerAddress
                  /\ []LogoutIsFinal
                  /\ SessionsAreNotReplaced
BY RoutesImplementAccounts, AddressesUnique, LogoutFinal, SessionsKeepTheirRows

-----------------------------------------------------------------------------
(* The tries of one address.                                               *)

TriesInv ==
    /\ request \in [Requests -> Work]
    /\ suspiciousIPs \in [IPs -> Nat]
    /\ blockedIPs \subseteq IPs
    /\ origin \in [Requests -> IPs \cup {Idle}]
    /\ \A r \in Requests : request[r].at = "comparing" => origin[r] \in IPs
    /\ \A ip \in IPs \ blockedIPs : suspiciousIPs[ip] < BlockAfter
    /\ TriesBounded

(* There are at most as many comparisons as requests under way.            *)
LEMMA ComparingCounted ==
    ASSUME NEW S \in SUBSET Requests
    PROVE  /\ IsFiniteSet(S)
           /\ Cardinality(S) \in Nat
           /\ Cardinality(Requests) \in Nat
           /\ Cardinality(S) <= Cardinality(Requests)
BY FS_Subset, FS_CardinalityType, AuthRoutesAssumption

(* A step that lets no address fail and adds no comparison.                *)
LEMMA QuietStep ==
    ASSUME TriesInv, request' \in [Requests -> Work],
           origin' \in [Requests -> IPs \cup {Idle}],
           UNCHANGED <<suspiciousIPs, blockedIPs>>,
           \A r \in Requests : request'[r].at = "comparing" =>
               request'[r] = request[r] /\ origin'[r] = origin[r]
    PROVE  TriesInv'
<1>1. ASSUME NEW ip \in IPs
      PROVE  suspiciousIPs'[ip] + Cardinality(Comparing(ip)')
               <= BlockAfter + Cardinality(Requests)
  <2>1. Comparing(ip)' \subseteq Comparing(ip) /\ Comparing(ip) \subseteq Requests
    BY DEF Comparing
  <2>2. /\ IsFiniteSet(Comparing(ip))
        /\ Cardinality(Comparing(ip)) \in Nat
        /\ Cardinality(Requests) \in Nat
    BY <2>1, ComparingCounted
  <2>3. /\ Cardinality(Comparing(ip)') \in Nat
        /\ Cardinality(Comparing(ip)') <= Cardinality(Comparing(ip))
    BY <2>1, <2>2, FS_Subset, FS_CardinalityType
  <2>4. /\ suspiciousIPs[ip] + Cardinality(Comparing(ip))
             <= BlockAfter + Cardinality(Requests)
        /\ suspiciousIPs'[ip] = suspiciousIPs[ip]
        /\ suspiciousIPs[ip] \in Nat
        /\ BlockAfter \in Nat
    BY AuthRoutesAssumption DEF TriesInv, TriesBounded
  <2> QED
    BY <2>2, <2>3, <2>4
<1>2. TriesBounded'
  BY <1>1 DEF TriesBounded
<1> QED
  BY <1>2 DEF TriesInv

(* A login begins, from an address that is not blocked.                    *)
LEMMA LoginTries ==
    ASSUME TriesInv, NEW ip \in IPs, NEW r \in Requests, NEW id \in Ids,
           request' \in [Requests -> Work], Login(ip, r, id)
    PROVE  TriesInv'
<1>1. /\ ip \notin blockedIPs
      /\ origin' = [origin EXCEPT ![r] = ip]
      /\ UNCHANGED <<suspiciousIPs, blockedIPs>>
      /\ \A k \in Requests \ {r} : request'[k] = request[k]
  BY DEF Login, MayPass, From, LoginBegin, TriesInv
<1>2. ASSUME NEW other \in IPs
      PROVE  suspiciousIPs'[other] + Cardinality(Comparing(other)')
               <= BlockAfter + Cardinality(Requests)
  <2>1. /\ Comparing(other)' \subseteq Requests
        /\ BlockAfter \in Nat
        /\ suspiciousIPs[other] \in Nat /\ suspiciousIPs'[other] = suspiciousIPs[other]
    BY <1>1, AuthRoutesAssumption DEF Comparing, TriesInv
  <2>2. /\ Cardinality(Comparing(other)') \in Nat
        /\ Cardinality(Requests) \in Nat
        /\ Cardinality(Comparing(other)') <= Cardinality(Requests)
    BY <2>1, ComparingCounted
  <2>3. CASE other = ip
    <3>1. suspiciousIPs[other] < BlockAfter
      BY <1>1, <2>3 DEF TriesInv
    <3> QED
      BY <3>1, <2>1, <2>2
  <2>4. CASE other # ip
    <3>1. Comparing(other)' \subseteq Comparing(other)
      BY <1>1, <2>4 DEF Comparing, TriesInv
    <3>2. Comparing(other) \subseteq Requests
      BY DEF Comparing
    <3>3. /\ IsFiniteSet(Comparing(other))
          /\ Cardinality(Comparing(other)) \in Nat
      BY <3>2, ComparingCounted
    <3>4. Cardinality(Comparing(other)') <= Cardinality(Comparing(other))
      BY <3>1, <3>3, FS_Subset
    <3>5. suspiciousIPs[other] + Cardinality(Comparing(other))
            <= BlockAfter + Cardinality(Requests)
      BY DEF TriesInv, TriesBounded
    <3> QED
      BY <3>3, <3>4, <3>5, <2>1, <2>2
  <2> QED
    BY <2>3, <2>4
<1>3. TriesBounded'
  BY <1>2 DEF TriesBounded
<1>4. \A k \in Requests : request'[k].at = "comparing" => origin'[k] \in IPs
  BY <1>1 DEF TriesInv
<1> QED
  BY <1>1, <1>3, <1>4 DEF TriesInv

(* An address fails: at once, while it is not blocked, or as one of its    *)
(* comparisons ends.                                                       *)
LEMMA FailureTries ==
    ASSUME TriesInv, NEW ip \in IPs, FailedLogin(ip),
           request' \in [Requests -> Work],
           origin' \in [Requests -> IPs \cup {Idle}],
           \A r \in Requests : request'[r].at = "comparing" =>
               request'[r] = request[r] /\ origin'[r] = origin[r],
           \/ ip \notin blockedIPs
           \/ \E r \in Comparing(ip) : r \notin Comparing(ip)'
    PROVE  TriesInv'
<1>1. /\ suspiciousIPs' = [suspiciousIPs EXCEPT ![ip] = @ + 1]
      /\ blockedIPs' = IF suspiciousIPs[ip] >= BlockAfter - 1
                       THEN blockedIPs \cup {ip} ELSE blockedIPs
      /\ BlockAfter \in Nat
      /\ \A other \in IPs : suspiciousIPs[other] \in Nat
  BY AuthRoutesAssumption DEF FailedLogin, TriesInv
<1>2. /\ suspiciousIPs' \in [IPs -> Nat]
      /\ blockedIPs' \subseteq IPs
      /\ \A r \in Requests : request'[r].at = "comparing" => origin'[r] \in IPs
  BY <1>1 DEF TriesInv
<1>3. ASSUME NEW other \in IPs \ blockedIPs'
      PROVE  suspiciousIPs'[other] < BlockAfter
  <2>1. other \in IPs \ blockedIPs /\ suspiciousIPs[other] < BlockAfter
    BY <1>1 DEF TriesInv
  <2>2. CASE other = ip
    BY <1>1, <2>1, <2>2 DEF TriesInv
  <2>3. CASE other # ip
    BY <1>1, <2>1, <2>3 DEF TriesInv
  <2> QED
    BY <2>2, <2>3
<1>4. ASSUME NEW other \in IPs
      PROVE  suspiciousIPs'[other] + Cardinality(Comparing(other)')
               <= BlockAfter + Cardinality(Requests)
  <2>1. Comparing(other)' \subseteq Comparing(other) /\ Comparing(other) \subseteq Requests
    BY DEF Comparing
  <2>2. /\ IsFiniteSet(Comparing(other))
        /\ Cardinality(Comparing(other)) \in Nat
        /\ Cardinality(Requests) \in Nat
        /\ Cardinality(Comparing(other)) <= Cardinality(Requests)
    BY <2>1, ComparingCounted
  <2>3. /\ Cardinality(Comparing(other)') \in Nat
        /\ Cardinality(Comparing(other)') <= Cardinality(Comparing(other))
    BY <2>1, <2>2, FS_Subset, FS_CardinalityType
  <2>4. suspiciousIPs[other] + Cardinality(Comparing(other))
          <= BlockAfter + Cardinality(Requests)
    BY DEF TriesInv, TriesBounded
  <2>5. CASE other # ip
    <3>1. suspiciousIPs'[other] = suspiciousIPs[other]
      BY <1>1, <2>5 DEF TriesInv
    <3> QED
      BY <3>1, <2>2, <2>3, <2>4, <1>1
  <2>6. CASE other = ip /\ ip \notin blockedIPs
    <3>1. /\ suspiciousIPs'[other] = suspiciousIPs[other] + 1
          /\ suspiciousIPs[other] < BlockAfter
      BY <1>1, <2>6 DEF TriesInv
    <3> QED
      BY <3>1, <2>2, <2>3, <1>1
  <2>7. CASE other = ip /\ \E r \in Comparing(ip) : r \notin Comparing(ip)'
    <3>1. PICK r \in Comparing(other) : r \notin Comparing(other)'
      BY <2>7
    <3>2. Comparing(other)' \subseteq Comparing(other) \ {r}
      BY <3>1, <2>1
    <3>3. /\ IsFiniteSet(Comparing(other) \ {r})
          /\ Cardinality(Comparing(other) \ {r}) = Cardinality(Comparing(other)) - 1
      BY <2>2, <3>1, FS_RemoveElement
    <3>4. Cardinality(Comparing(other)') <= Cardinality(Comparing(other) \ {r})
      BY <3>2, <3>3, FS_Subset
    <3>5. suspiciousIPs'[other] = suspiciousIPs[other] + 1
      BY <1>1, <2>7 DEF TriesInv
    <3> QED
      BY <3>3, <3>4, <3>5, <2>2, <2>3, <2>4, <1>1
  <2> QED
    BY <2>5, <2>6, <2>7
<1>5. TriesBounded'
  BY <1>4 DEF TriesBounded
<1> QED
  BY <1>2, <1>3, <1>5 DEF TriesInv

(* A comparison of a request ends, whatever its outcome.                   *)
LEMMA ComparisonEnds ==
    ASSUME TriesInv, NEW r \in Requests, request[r].at = "comparing",
           request' = [request EXCEPT ![r] = Idle], From(r, Idle)
    PROVE  /\ request' \in [Requests -> Work]
           /\ origin' \in [Requests -> IPs \cup {Idle}]
           /\ \E ip \in IPs :
                 /\ origin[r] = ip
                 /\ r \in Comparing(ip) /\ r \notin Comparing(ip)'
           /\ \A k \in Requests : request'[k].at = "comparing" =>
                  request'[k] = request[k] /\ origin'[k] = origin[k]
<1>1. request' \in [Requests -> Work] /\ request'[r].at = "idle"
  BY DEF TriesInv, Work, Idle
<1>2. /\ origin' \in [Requests -> IPs \cup {Idle}]
      /\ \A k \in Requests \ {r} : origin'[k] = origin[k] /\ request'[k] = request[k]
  BY DEF From, TriesInv
<1>3. PICK ip \in IPs : origin[r] = ip
  BY DEF TriesInv
<1>4. r \in Comparing(ip) /\ r \notin Comparing(ip)'
  BY <1>1, <1>3 DEF Comparing
<1> QED
  BY <1>1, <1>2, <1>3, <1>4

(* Whatever a route does, the tries of every address stay bounded.         *)
LEMMA TriesStep ==
    ASSUME TriesInv, TypeOK', [RoutesNext]_routeVars
    PROVE  TriesInv'
<1>1. request' \in [Requests -> Work]
  BY DEF TypeOK
<1>2. CASE UNCHANGED <<request, origin, suspiciousIPs, blockedIPs>>
  BY <1>1, <1>2, QuietStep DEF TriesInv
<1>3. ASSUME NEW ip \in IPs, NEW r \in Requests, NEW email \in Emails,
             NEW name \in Names, Register(ip, r, email, name)
      PROVE  TriesInv'
  <2>1. /\ request' = [request EXCEPT ![r] =
                         [at |-> "hashing", email |-> email, name |-> name]]
        /\ origin' = [origin EXCEPT ![r] = ip]
        /\ UNCHANGED <<suspiciousIPs, blockedIPs>>
    BY <1>3 DEF Register, RegisterBegin, From
  <2>2. origin' \in [Requests -> IPs \cup {Idle}]
    BY <2>1 DEF TriesInv
  <2>3. \A k \in Requests : request'[k].at = "comparing" =>
           request'[k] = request[k] /\ origin'[k] = origin[k]
    <3>1. request'[r].at = "hashing"
      BY <2>1 DEF TriesInv
    <3>2. \A k \in Requests \ {r} :
             request'[k] = request[k] /\ origin'[k] = origin[k]
      BY <2>1 DEF TriesInv
    <3> QED
      BY <3>1, <3>2
  <2> QED
    BY <1>1, <2>1, <2>2, <2>3, QuietStep
<1>4. ASSUME NEW r \in Requests, Registered(r)
      PROVE  TriesInv'
  <2>1. /\ request' = [request EXCEPT ![r] = Idle]
        /\ origin' = [origin EXCEPT ![r] = Idle]
        /\ UNCHANGED <<suspiciousIPs, blockedIPs>>
    BY <1>4 DEF Registered, RegisterEnd, From, memory
  <2>2. origin' \in [Requests -> IPs \cup {Idle}]
    BY <2>1 DEF TriesInv
  <2>3. \A k \in Requests : request'[k].at = "comparing" =>
           request'[k] = request[k] /\ origin'[k] = origin[k]
    <3>1. request'[r].at = "idle"
      BY <2>1 DEF TriesInv, Idle
    <3>2. \A k \in Requests \ {r} :
             request'[k] = request[k] /\ origin'[k] = origin[k]
      BY <2>1 DEF TriesInv
    <3> QED
      BY <3>1, <3>2
  <2> QED
    BY <1>1, <2>1, <2>2, <2>3, QuietStep
<1>5. ASSUME NEW ip \in IPs, NEW r \in Requests, NEW id \in Ids, Login(ip, r, id)
      PROVE  TriesInv'
  BY <1>1, <1>5, LoginTries
<1>6. ASSUME NEW ip \in IPs, LoginUnknown(ip)
      PROVE  TriesInv'
  <2>1. /\ ip \notin blockedIPs /\ FailedLogin(ip)
        /\ UNCHANGED <<request, origin>>
    BY <1>6 DEF LoginUnknown, MayPass, vars
  <2> QED
    BY <1>1, <2>1, FailureTries DEF TriesInv
<1>7. ASSUME NEW r \in Requests, WrongPassword(r)
      PROVE  TriesInv'
  <2>1. /\ request[r].at = "comparing"
        /\ request' = [request EXCEPT ![r] = Idle]
        /\ From(r, Idle) /\ FailedLogin(origin[r])
    BY <1>7 DEF WrongPassword, LoginDenied
  <2>2. /\ request' \in [Requests -> Work]
        /\ origin' \in [Requests -> IPs \cup {Idle}]
        /\ \E ip \in IPs :
              /\ origin[r] = ip
              /\ r \in Comparing(ip) /\ r \notin Comparing(ip)'
        /\ \A k \in Requests : request'[k].at = "comparing" =>
              request'[k] = request[k] /\ origin'[k] = origin[k]
    BY <2>1, ComparisonEnds
  <2>3. PICK ip \in IPs :
           /\ origin[r] = ip
           /\ \E k \in Comparing(ip) : k \notin Comparing(ip)'
    BY <2>2
  <2>4. FailedLogin(ip)
    BY <2>1, <2>3
  <2> QED
    BY <2>2, <2>3, <2>4, FailureTries
<1>8. ASSUME NEW r \in Requests, RightPassword(r)
      PROVE  TriesInv'
  <2>1. /\ request[r].at = "comparing"
        /\ request' = [request EXCEPT ![r] = Idle]
        /\ From(r, Idle)
        /\ FailedLogin(origin[r]) \/ UNCHANGED <<suspiciousIPs, blockedIPs>>
    BY <1>8 DEF RightPassword, LoginEnd
  <2>2. /\ request' \in [Requests -> Work]
        /\ origin' \in [Requests -> IPs \cup {Idle}]
        /\ \E ip \in IPs :
              /\ origin[r] = ip
              /\ r \in Comparing(ip) /\ r \notin Comparing(ip)'
        /\ \A k \in Requests : request'[k].at = "comparing" =>
              request'[k] = request[k] /\ origin'[k] = origin[k]
    BY <2>1, ComparisonEnds
  <2>3. PICK ip \in IPs :
           /\ origin[r] = ip
           /\ \E k \in Comparing(ip) : k \notin Comparing(ip)'
    BY <2>2
  <2>4. CASE FailedLogin(origin[r])
    <3>1. FailedLogin(ip)
      BY <2>3, <2>4
    <3> QED
      BY <2>2, <2>3, <3>1, FailureTries
  <2>5. CASE UNCHANGED <<suspiciousIPs, blockedIPs>>
    BY <2>2, <2>5, QuietStep
  <2> QED
    BY <2>1, <2>4, <2>5
<1>9. CASE ProcessRestart
  <2>1. /\ request' = [r \in Requests |-> Idle]
        /\ origin' = [r \in Requests |-> Idle]
        /\ suspiciousIPs' = [ip \in IPs |-> 0]
        /\ blockedIPs' = {}
    BY <1>9 DEF ProcessRestart, Restart, Booted
  <2>2. \A ip : Comparing(ip)' \subseteq Requests
    BY DEF Comparing
  <2>3. TriesBounded'
    BY <2>1, <2>2, ComparingCounted, AuthRoutesAssumption DEF TriesBounded
  <2>4. \A r \in Requests : request'[r].at # "comparing"
    BY <2>1 DEF Idle
  <2> QED
    BY <1>1, <2>1, <2>3, <2>4, AuthRoutesAssumption DEF TriesInv
<1>10. ASSUME NEW ip \in IPs, RefusedAfterLimiter(ip)
       PROVE  TriesInv'
  BY <1>2, <1>10 DEF RefusedAfterLimiter, vars
<1>11. ASSUME NEW ip \in IPs, NEW id \in Ids, LogoutRoute(ip, id)
       PROVE  TriesInv'
  BY <1>2, <1>11 DEF LogoutRoute, Logout, memory
<1>12. ASSUME NEW ip \in IPs, NEW user \in Ids, LogoutAllRoute(ip, user)
       PROVE  TriesInv'
  BY <1>2, <1>12 DEF LogoutAllRoute, LogoutAll, memory
<1>13. CASE Elsewhere
  BY <1>2, <1>13 DEF Elsewhere, UpdateProfile, DeleteExpired, memory
<1>14. CASE UNCHANGED routeVars
  BY <1>2, <1>14 DEF routeVars, vars, memory
<1>15. CASE Clock
  BY <1>2, <1>15 DEF Clock, Tick, memory
<1> QED
  BY <1>3, <1>4, <1>5, <1>6, <1>7, <1>8, <1>9, <1>10, <1>11, <1>12, <1>13,
     <1>14, <1>15 DEF RoutesNext

LEMMA TriesInit == RoutesInit => TriesInv
<1> SUFFICES ASSUME RoutesInit PROVE TriesInv
  OBVIOUS
<1>1. /\ request = [r \in Requests |-> Idle]
      /\ origin = [r \in Requests |-> Idle]
      /\ suspiciousIPs = [ip \in IPs |-> 0]
      /\ blockedIPs = {}
  BY DEF RoutesInit, Init, Booted
<1>2. \A ip : Comparing(ip) \subseteq Requests
  BY DEF Comparing
<1>3. TriesBounded
  BY <1>1, <1>2, ComparingCounted, AuthRoutesAssumption DEF TriesBounded
<1>4. \A r \in Requests : request[r] \in Work /\ request[r].at # "comparing"
  BY <1>1 DEF Idle, Work
<1> QED
  BY <1>1, <1>3, <1>4, AuthRoutesAssumption DEF TriesInv

(* Whatever the number of addresses and of requests at a time, an address  *)
(* fails at most BlockAfter times, and once more for each login that was   *)
(* past the middlewares: ip-security.middleware.ts, security.service.ts.   *)
THEOREM TriesAreBounded == RoutesSpec => []TriesBounded
<1>1. RoutesSpec => []TypeOK
  BY RoutesImplementAccounts, TypeCorrect
<1>2. TriesInv /\ TypeOK' /\ [RoutesNext]_routeVars => TriesInv'
  BY TriesStep
<1>3. TriesInv => TriesBounded
  BY DEF TriesInv
<1> QED
  BY <1>1, <1>2, <1>3, TriesInit, PTL DEF RoutesSpec

-----------------------------------------------------------------------------
(* The identifiers that a restart repeats.                                 *)

Rows(t) == IF t = "users" THEN DOMAIN users ELSE DOMAIN tokens

Above(rows, id) == {k \in rows : k >= id}

(* Every identifier drawn in vain was that of a row the process found, and *)
(* it is not drawn again.                                                  *)
CollisionsInv ==
    \A t \in Tables :
        collisions[t] + Cardinality(Above(Rows(t), nextId[t])) <= bootRows[t]

(* The rows above an identifier, before and after it is drawn.             *)
LEMMA AboveCounted ==
    ASSUME NEW D \in SUBSET Ids, NEW E \in SUBSET Ids, NEW n \in Nat
    PROVE  /\ Cardinality(Above(D, n)) \in Nat
           /\ E \subseteq D =>
                Cardinality(Above(E, n)) <= Cardinality(Above(D, n))
           /\ E \subseteq D \cup {n} =>
                Cardinality(Above(E, n + 1)) <= Cardinality(Above(D, n))
           /\ n \in D /\ E \subseteq D =>
                Cardinality(Above(E, n + 1)) + 1 <= Cardinality(Above(D, n))
           /\ Cardinality(Above(D, 0)) <= Cardinality(D)
<1>1. IsFiniteSet(Ids) /\ Ids \subseteq Nat
  <2>1. 0 \in Int /\ MaxId - 1 \in Int
    BY AccountsAssumption
  <2>2. IsFiniteSet(0..(MaxId - 1))
    BY <2>1, FS_Interval
  <2> QED
    BY <2>1, <2>2 DEF Ids, FirstId
<1>2. IsFiniteSet(D) /\ D \subseteq Nat /\ E \subseteq Nat
  BY <1>1, FS_Subset
<1>3. /\ IsFiniteSet(Above(D, n))
      /\ Cardinality(Above(D, n)) \in Nat
  BY <1>2, FS_Subset, FS_CardinalityType DEF Above
<1>4. ASSUME NEW F \in SUBSET Above(D, n)
      PROVE  /\ Cardinality(F) \in Nat
             /\ Cardinality(F) <= Cardinality(Above(D, n))
  BY <1>3, FS_Subset, FS_CardinalityType
<1> \A k \in Nat : k >= n + 1 <=> k >= n /\ k # n
  OBVIOUS
<1>5. E \subseteq D => Above(E, n) \subseteq Above(D, n)
  BY DEF Above
<1>6. E \subseteq D \cup {n} => Above(E, n + 1) \subseteq Above(D, n)
  BY <1>2 DEF Above
<1>7. ASSUME n \in D, E \subseteq D
      PROVE  Cardinality(Above(E, n + 1)) + 1 <= Cardinality(Above(D, n))
  <2>1. n >= n
    OBVIOUS
  <2>2. n \in Above(D, n) /\ n \notin Above(E, n + 1)
    BY <1>2, <1>7, <2>1 DEF Above
  <2>3. Above(E, n + 1) \subseteq Above(D, n) \ {n}
    BY <1>2, <1>6, <1>7, <2>2
  <2>4. /\ IsFiniteSet(Above(D, n) \ {n})
        /\ Cardinality(Above(D, n) \ {n}) = Cardinality(Above(D, n)) - 1
    BY <1>3, <2>2, FS_RemoveElement
  <2>5. /\ Cardinality(Above(E, n + 1)) \in Nat
        /\ Cardinality(Above(E, n + 1)) <= Cardinality(Above(D, n) \ {n})
    BY <2>3, <2>4, FS_Subset, FS_CardinalityType
  <2> QED
    BY <1>3, <2>4, <2>5
<1>8. Cardinality(Above(D, 0)) <= Cardinality(D)
  <2>1. Above(D, 0) \subseteq D
    BY DEF Above
  <2> QED
    BY <1>2, <2>1, FS_Subset
<1> QED
  BY <1>3, <1>4, <1>5, <1>6, <1>7, <1>8

(* A step that draws nothing and adds no row.                              *)
LEMMA UndrawnCounted ==
    ASSUME TypeOK, TypeOK', CollisionsInv,
           UNCHANGED <<nextId, collisions, bootRows>>,
           DOMAIN users' \subseteq DOMAIN users,
           DOMAIN tokens' \subseteq DOMAIN tokens
    PROVE  CollisionsInv'
<1> SUFFICES ASSUME NEW t \in Tables
             PROVE  collisions[t] + Cardinality(Above(Rows(t)', nextId[t]))
                      <= bootRows[t]
  BY DEF CollisionsInv
<1>1. /\ Rows(t) \subseteq Ids /\ Rows(t)' \subseteq Ids
      /\ Rows(t)' \subseteq Rows(t)
      /\ nextId[t] \in Nat /\ collisions[t] \in Nat /\ bootRows[t] \in Nat
  BY AccountsAssumption DEF TypeOK, Rows, FirstId
<1>2. /\ Cardinality(Above(Rows(t), nextId[t])) \in Nat
      /\ Cardinality(Above(Rows(t)', nextId[t])) \in Nat
      /\ Cardinality(Above(Rows(t)', nextId[t]))
           <= Cardinality(Above(Rows(t), nextId[t]))
  BY <1>1, AboveCounted
<1>3. collisions[t] + Cardinality(Above(Rows(t), nextId[t])) <= bootRows[t]
  BY DEF CollisionsInv
<1> QED
  BY <1>1, <1>2, <1>3

(* An insertion: the identifier is that of a row that was there, or may be *)
(* that of a new row.                                                      *)
LEMMA DrawCounted ==
    ASSUME TypeOK, TypeOK', CollisionsInv, NEW table \in Tables,
           Draw(table, nextId[table] \in Rows(table)),
           UNCHANGED bootRows,
           \A t \in Tables \ {table} : Rows(t)' = Rows(t),
           Rows(table)' \subseteq Rows(table) \cup {nextId[table]}
    PROVE  CollisionsInv'
<1> SUFFICES ASSUME NEW t \in Tables
             PROVE  collisions'[t] + Cardinality(Above(Rows(t)', nextId'[t]))
                      <= bootRows[t]
  BY DEF CollisionsInv
<1> DEFINE n == nextId[t]
           D == Rows(t)
           E == Rows(t)'
<1>1. /\ D \subseteq Ids /\ E \subseteq Ids
      /\ n \in Nat /\ collisions[t] \in Nat /\ bootRows[t] \in Nat
  BY AccountsAssumption DEF TypeOK, Rows, FirstId
<1>2. collisions[t] + Cardinality(Above(D, n)) <= bootRows[t]
  BY DEF CollisionsInv
<1>3. CASE t # table
  <2>1. E = D /\ nextId'[t] = n /\ collisions'[t] = collisions[t]
    BY <1>3 DEF Draw, TypeOK
  <2> HIDE DEF D, E, n
  <2> QED
    BY <1>2, <2>1 DEF E
<1>4. CASE t = table
  <2>1. /\ nextId'[t] = n + 1
        /\ collisions'[t] = IF n \in D THEN collisions[t] + 1 ELSE collisions[t]
        /\ E \subseteq D \cup {n}
    BY <1>4 DEF Draw, TypeOK
  <2> HIDE DEF D, E, n
  <2>2. Cardinality(Above(E, n + 1)) \in Nat
    <3> DEFINE next == n + 1
    <3>1. next \in Nat
      BY <1>1
    <3> HIDE DEF next
    <3>2. Cardinality(Above(E, next)) \in Nat
      BY <1>1, <3>1, AboveCounted
    <3> QED
      BY <3>2 DEF next
  <2>3. /\ Cardinality(Above(D, n)) \in Nat
        /\ E \subseteq D \cup {n} =>
             Cardinality(Above(E, n + 1)) <= Cardinality(Above(D, n))
        /\ n \in D /\ E \subseteq D =>
             Cardinality(Above(E, n + 1)) + 1 <= Cardinality(Above(D, n))
    BY <1>1, AboveCounted
  <2>4. CASE n \in D
    BY <1>1, <1>2, <2>1, <2>2, <2>3, <2>4 DEF E
  <2>5. CASE n \notin D
    BY <1>1, <1>2, <2>1, <2>2, <2>3, <2>5 DEF E
  <2> QED
    BY <2>4, <2>5
<1> QED
  BY <1>3, <1>4

LEMMA CollisionsInit == Init => CollisionsInv
<1> SUFFICES ASSUME Init, NEW t \in Tables
             PROVE  collisions[t] + Cardinality(Above(Rows(t), nextId[t]))
                      <= bootRows[t]
  BY DEF CollisionsInv
<1>1. Above(Rows(t), nextId[t]) = {}
  BY DEF Init, NoRows, Rows, Above
<1>2. collisions[t] = 0 /\ bootRows[t] = 0
  BY DEF Init
<1> QED
  BY <1>1, <1>2, FS_EmptySet

(* Whatever the handlers do, an identifier is drawn in vain at most once   *)
(* for each row that the process found.                                    *)
LEMMA CollisionsStep ==
    ASSUME TypeOK, TypeOK', CollisionsInv, [Next]_vars
    PROVE  CollisionsInv'
<1>1. ASSUME NEW r \in Requests, RegisterEnd(r) PROVE CollisionsInv'
  <2>1. /\ Draw("users", nextId["users"] \in DOMAIN users)
        /\ DOMAIN users' \subseteq DOMAIN users \cup {nextId["users"]}
        /\ UNCHANGED <<tokens, bootRows>>
    BY <1>1 DEF RegisterEnd, InsertUser, With
  <2> QED
    BY <2>1, DrawCounted DEF Rows, Tables
<1>2. ASSUME NEW r \in Requests, LoginEnd(r) PROVE CollisionsInv'
  <2>1. /\ Draw("refresh_tokens", nextId["refresh_tokens"] \in DOMAIN tokens)
        /\ DOMAIN tokens' \subseteq DOMAIN tokens \cup {nextId["refresh_tokens"]}
        /\ UNCHANGED <<users, bootRows>>
    BY <1>2 DEF LoginEnd, InsertToken, With
  <2> QED
    BY <2>1, DrawCounted DEF Rows, Tables
<1>3. CASE Restart
  <2> SUFFICES ASSUME NEW t \in Tables
               PROVE  collisions'[t] + Cardinality(Above(Rows(t)', nextId'[t]))
                        <= bootRows'[t]
    BY DEF CollisionsInv
  <2>1. /\ Rows(t)' = Rows(t) /\ nextId'[t] = 0 /\ collisions'[t] = 0
        /\ bootRows'[t] = Cardinality(Rows(t))
    BY <1>3 DEF Restart, Rows, FirstId, database
  <2>2. Rows(t) \subseteq Ids
    BY DEF TypeOK, Rows
  <2>3. /\ Cardinality(Above(Rows(t), 0)) \in Nat
        /\ Cardinality(Above(Rows(t), 0)) <= Cardinality(Rows(t))
    BY <2>2, AboveCounted
  <2> QED
    BY <2>1, <2>3
<1>4. CASE /\ UNCHANGED <<nextId, collisions, bootRows>>
           /\ DOMAIN users' \subseteq DOMAIN users
           /\ DOMAIN tokens' \subseteq DOMAIN tokens
  BY <1>4, UndrawnCounted
<1>5. ASSUME NEW ids, Revoke(ids)
      PROVE  DOMAIN tokens' \subseteq DOMAIN tokens
  BY <1>5 DEF Revoke
<1> QED
  BY <1>1, <1>2, <1>3, <1>4, <1>5
     DEF Next, RegisterBegin, LoginBegin, LoginDenied, Logout, LogoutAll,
         UpdateProfile, DeleteExpired, Tick, vars, database, history

-----------------------------------------------------------------------------
(* The limiter.                                                            *)

(* What is left of a list of times is one, and not longer.                 *)
LEMMA SinceType ==
    ASSUME NEW times \in Seq(0..MaxTime), NEW start \in Int
    PROVE  /\ Since(times, start) \in Seq(0..MaxTime)
           /\ Len(Since(times, start)) <= Len(times)
<1> DEFINE S == {n \in DOMAIN times : times[n] > start}
<1>1. S \subseteq DOMAIN times
  OBVIOUS
<1> HIDE DEF S
<1>2. /\ Kept(times, S) \in Seq(0..MaxTime)
      /\ Len(Kept(times, S)) <= Len(times)
  BY <1>1, KeptFromList
<1> QED
  BY <1>2 DEF S, Since

(* The later of two limits decides.                                        *)
LEMMA SinceTwice ==
    ASSUME NEW times \in Seq(0..MaxTime), NEW t \in Int, NEW u \in Int, t <= u
    PROVE  Since(Since(times, t), u) = Since(times, u)
<1> DEFINE S == {n \in DOMAIN times : times[n] > t}
           K == Kept(times, S)
           T == {m \in DOMAIN K : K[m] > u}
           U == {n \in DOMAIN times : times[n] > u}
<1>1. /\ S \subseteq DOMAIN times
      /\ \A n \in DOMAIN times : times[n] \in Int
  BY AccountsAssumption
<1>2. U \subseteq S
  BY <1>1
<1>3. /\ \A m \in 1..Cardinality(S) : Nth(S, m) \in S /\ K[m] = times[Nth(S, m)]
      /\ \A i \in S : \E m \in 1..Cardinality(S) : Nth(S, m) = i
  <2> HIDE DEF S
  <2> QED
    BY <1>1, KeptFromList
<1>4. DOMAIN K = 1..Cardinality(S)
  BY DEF Kept
<1>5. U = {Nth(S, m) : m \in T}
  <2>1. ASSUME NEW i \in U PROVE \E m \in T : Nth(S, m) = i
    <3>1. PICK m \in 1..Cardinality(S) : Nth(S, m) = i
      BY <1>2, <1>3
    <3>2. m \in DOMAIN K /\ K[m] > u
      BY <1>3, <1>4, <3>1
    <3> QED
      BY <3>1, <3>2
  <2>2. ASSUME NEW m \in T PROVE Nth(S, m) \in U
    BY <1>1, <1>3, <1>4
  <2> QED
    BY <2>1, <2>2
<1>6. T \subseteq 1..Cardinality(S)
  BY <1>4
<1>7. Since(Since(times, t), u) = Kept(K, T) /\ Since(times, u) = Kept(times, U)
  BY DEF Since
<1> HIDE DEF S, T, U
<1>8. Kept(K, T) = Kept(times, {Nth(S, m) : m \in T})
  BY <1>1, <1>6, KeptTwice
<1> QED
  BY <1>5, <1>7, <1>8

(* A time past the limit is left, in its place.                            *)
LEMMA SinceAppend ==
    ASSUME NEW times \in Seq(0..MaxTime), NEW t \in Int, NEW x \in 0..MaxTime, x > t
    PROVE  Since(Append(times, x), t) = Append(Since(times, t), x)
<1> DEFINE S == {n \in DOMAIN times : times[n] > t}
<1>1. PICK N \in Nat : N = Len(times) /\ DOMAIN times = 1..N
  OBVIOUS
<1>2. /\ DOMAIN Append(times, x) = 1..(N + 1)
      /\ \A n \in 1..N : Append(times, x)[n] = times[n]
      /\ Append(times, x)[N + 1] = x
  BY <1>1
<1>3. \A n : n \in 1..(N + 1) <=> n \in 1..N \/ n = N + 1
  BY <1>1
<1>4. {n \in DOMAIN Append(times, x) : Append(times, x)[n] > t} = S \cup {N + 1}
  BY <1>1, <1>2, <1>3
<1>5. S \subseteq DOMAIN times
  OBVIOUS
<1> HIDE DEF S
<1>6. Kept(Append(times, x), S \cup {Len(times) + 1}) = Append(Kept(times, S), x)
  <2> DEFINE A == 0..MaxTime
  <2>1. times \in Seq(A) /\ x \in A
    OBVIOUS
  <2> HIDE DEF A
  <2>2. \A P \in SUBSET DOMAIN times :
           Kept(Append(times, x), P \cup {Len(times) + 1})
             = Append(Kept(times, P), x)
    <3>1. \A P \in SUBSET DOMAIN times, y \in A :
             Kept(Append(times, y), P \cup {Len(times) + 1})
               = Append(Kept(times, P), y)
      BY <2>1, KeptAppended
    <3> QED
      BY <2>1, <3>1
  <2> QED
    BY <1>5, <2>2
<1> QED
  BY <1>1, <1>4, <1>6 DEF Since, S

(* What the limiter remembers of an address, as far as it is in the        *)
(* window, is what it let through.                                         *)
WindowInv ==
    /\ requestTimes \in [IPs -> Seq(0..MaxTime)]
    /\ admissions \in [IPs -> Seq(0..MaxTime)]
    /\ \A ip \in IPs : /\ admissions[ip] = Recent(requestTimes[ip])
                       /\ Len(requestTimes[ip]) <= MaxRequests

(* A request is let through.                                               *)
LEMMA AdmitWindow ==
    ASSUME TypeOK, WindowInv, NEW ip \in IPs, Admit(ip), UNCHANGED now
    PROVE  WindowInv'
<1> DEFINE start == now - Window
           times == requestTimes[ip]
           recent == Since(times, start)
<1>1. /\ start \in Int /\ now \in 0..MaxTime /\ now > start
      /\ MaxRequests \in Nat
  BY AccountsAssumption, AuthRoutesAssumption DEF TypeOK
<1>2. /\ times \in Seq(0..MaxTime)
      /\ admissions[ip] = recent
      /\ \A other \in IPs : /\ requestTimes[other] \in Seq(0..MaxTime)
                            /\ admissions[other] = Since(requestTimes[other], start)
                            /\ Len(requestTimes[other]) <= MaxRequests
  BY DEF WindowInv, Recent
<1>3. /\ Len(recent) < MaxRequests
      /\ requestTimes' = [requestTimes EXCEPT ![ip] = Append(recent, now)]
      /\ admissions' = [admissions EXCEPT ![ip] = Append(recent, now)]
  BY <1>2 DEF Admit, Recent
<1> HIDE DEF start, times, recent
<1>4. recent \in Seq(0..MaxTime) /\ Since(recent, start) = recent
  <2>1. start <= start
    BY <1>1
  <2>2. Since(times, start) \in Seq(0..MaxTime)
    BY <1>1, <1>2, SinceType
  <2>3. Since(Since(times, start), start) = Since(times, start)
    BY <1>1, <1>2, <2>1, SinceTwice
  <2> QED
    BY <2>2, <2>3 DEF recent
<1>5. Since(Append(recent, now), start) = Append(recent, now)
  BY <1>1, <1>4, SinceAppend
<1>6. /\ Append(recent, now) \in Seq(0..MaxTime)
      /\ Len(Append(recent, now)) <= MaxRequests
  BY <1>1, <1>3, <1>4
<1>7. \A other \in IPs :
         /\ admissions'[other] = Since(requestTimes'[other], start)
         /\ Len(requestTimes'[other]) <= MaxRequests
  BY <1>2, <1>3, <1>5, <1>6 DEF WindowInv
<1>8. /\ requestTimes' \in [IPs -> Seq(0..MaxTime)]
      /\ admissions' \in [IPs -> Seq(0..MaxTime)]
  BY <1>3, <1>6 DEF WindowInv
<1> QED
  BY <1>7, <1>8 DEF WindowInv, Recent, start

(* The window moves on.                                                    *)
LEMMA ClockWindow ==
    ASSUME TypeOK, WindowInv, Clock
    PROVE  WindowInv'
<1>1. /\ now - Window \in Int /\ now' - Window \in Int
      /\ now - Window <= now' - Window
  BY AccountsAssumption, AuthRoutesAssumption DEF TypeOK, Clock, Tick
<1>2. /\ requestTimes' = requestTimes
      /\ admissions' = [ip \in IPs |-> Since(admissions[ip], now' - Window)]
  BY DEF Clock, memory
<1>3. ASSUME NEW ip \in IPs
      PROVE  /\ admissions'[ip] \in Seq(0..MaxTime)
             /\ admissions'[ip] = Since(requestTimes[ip], now' - Window)
             /\ Len(requestTimes[ip]) <= MaxRequests
  <2>1. /\ requestTimes[ip] \in Seq(0..MaxTime)
        /\ admissions[ip] = Since(requestTimes[ip], now - Window)
        /\ Len(requestTimes[ip]) <= MaxRequests
    BY DEF WindowInv, Recent
  <2>2. admissions'[ip] = Since(requestTimes[ip], now' - Window)
    BY <1>1, <1>2, <2>1, SinceTwice
  <2> QED
    BY <1>1, <2>1, <2>2, SinceType
<1> QED
  BY <1>2, <1>3 DEF WindowInv, Recent

LEMMA WindowStep ==
    ASSUME TypeOK, WindowInv, [RoutesNext]_routeVars
    PROVE  WindowInv'
<1>1. CASE UNCHANGED <<now, requestTimes, admissions>>
  BY <1>1 DEF WindowInv, Recent
<1>2. ASSUME NEW ip \in IPs, Admit(ip), UNCHANGED now
      PROVE  WindowInv'
  BY <1>2, AdmitWindow
<1>3. CASE Clock
  BY <1>3, ClockWindow
<1>4. CASE ProcessRestart
  <2>1. /\ requestTimes' = [ip \in IPs |-> <<>>]
        /\ admissions' = [ip \in IPs |-> <<>>]
    BY <1>4 DEF ProcessRestart, Booted
  <2>2. now' - Window \in Int
    BY <1>4, AccountsAssumption, AuthRoutesAssumption
       DEF TypeOK, ProcessRestart, Restart
  <2>3. Since(<<>>, now' - Window) = <<>>
    <3>1. <<>> \in Seq(0..MaxTime) /\ Len(<<>>) = 0
      OBVIOUS
    <3>2. /\ Since(<<>>, now' - Window) \in Seq(0..MaxTime)
          /\ Len(Since(<<>>, now' - Window)) <= 0
      BY <2>2, <3>1, SinceType
    <3> QED
      BY <3>2
  <2> QED
    BY <2>1, <2>3, AuthRoutesAssumption DEF WindowInv, Recent
<1> QED
  BY <1>1, <1>2, <1>3, <1>4
     DEF RoutesNext, Register, RegisterBegin, RefusedAfterLimiter, Registered,
         RegisterEnd, Login, LoginBegin, LoginUnknown, WrongPassword,
         LoginDenied, RightPassword, LoginEnd, LogoutRoute, Logout,
         LogoutAllRoute, LogoutAll, Elsewhere, UpdateProfile, DeleteExpired,
         routeVars, vars, memory, seen

LEMMA WindowInit == RoutesInit => WindowInv
<1> SUFFICES ASSUME RoutesInit PROVE WindowInv
  OBVIOUS
<1>1. /\ requestTimes = [ip \in IPs |-> <<>>]
      /\ admissions = [ip \in IPs |-> <<>>]
      /\ now = 0
  BY DEF RoutesInit, Init, Booted
<1>2. Since(<<>>, now - Window) = <<>>
  <2>1. <<>> \in Seq(0..MaxTime) /\ Len(<<>>) = 0 /\ now - Window \in Int
    BY <1>1, AuthRoutesAssumption
  <2>2. /\ Since(<<>>, now - Window) \in Seq(0..MaxTime)
        /\ Len(Since(<<>>, now - Window)) <= 0
    BY <2>1, SinceType
  <2> QED
    BY <2>2
<1> QED
  BY <1>1, <1>2, AuthRoutesAssumption DEF WindowInv, Recent

-----------------------------------------------------------------------------
(* The failures of a client that never sent wrong credentials.             *)

HonestInv ==
    /\ dishonest \subseteq IPs
    /\ repeats \in Nat
    /\ \A ip \in blockedIPs : BlockAfter <= suspiciousIPs[ip]
    /\ \A ip \in IPs \ dishonest :
         suspiciousIPs[ip] <= collisions["refresh_tokens"] + repeats

(* A step that lets no address fail.                                       *)
LEMMA NobodyFails ==
    ASSUME TypeOK, TypeOK', TriesInv, HonestInv,
           UNCHANGED <<suspiciousIPs, blockedIPs, dishonest>>,
           repeats' \in Nat, repeats <= repeats',
           collisions["refresh_tokens"] <= collisions'["refresh_tokens"]
    PROVE  HonestInv'
<1>1. /\ collisions["refresh_tokens"] \in Nat
      /\ collisions'["refresh_tokens"] \in Nat
      /\ \A ip \in IPs : suspiciousIPs[ip] \in Nat
  BY DEF TypeOK, TriesInv, Tables
<1> QED
  BY <1>1 DEF HonestInv

(* An address fails that is not honest, or for one of both reasons.        *)
LEMMA SomebodyFails ==
    ASSUME TypeOK, TypeOK', TriesInv, HonestInv, NEW ip \in IPs, FailedLogin(ip),
           dishonest' \in SUBSET IPs, dishonest \subseteq dishonest',
           repeats' \in Nat, repeats <= repeats',
           collisions["refresh_tokens"] <= collisions'["refresh_tokens"],
           \/ ip \in dishonest'
           \/ collisions["refresh_tokens"] + repeats
                < collisions'["refresh_tokens"] + repeats'
    PROVE  HonestInv'
<1> DEFINE c == collisions["refresh_tokens"]
           d == collisions'["refresh_tokens"]
<1>1. /\ c \in Nat /\ d \in Nat /\ repeats \in Nat /\ BlockAfter \in Nat
      /\ \A other \in IPs : suspiciousIPs[other] \in Nat
      /\ \A other \in IPs : suspiciousIPs'[other]
           = IF other = ip THEN suspiciousIPs[other] + 1 ELSE suspiciousIPs[other]
      /\ blockedIPs \subseteq IPs
      /\ blockedIPs' = IF suspiciousIPs[ip] >= BlockAfter - 1
                       THEN blockedIPs \cup {ip} ELSE blockedIPs
  BY AuthRoutesAssumption DEF TypeOK, TriesInv, HonestInv, FailedLogin, Tables
<1>2. ASSUME NEW other \in blockedIPs'
      PROVE  BlockAfter <= suspiciousIPs'[other]
  <2>1. CASE other = ip /\ suspiciousIPs[ip] >= BlockAfter - 1
    BY <1>1, <2>1
  <2>2. CASE other \in blockedIPs
    <3>1. other \in IPs /\ BlockAfter <= suspiciousIPs[other]
      BY <1>1, <2>2 DEF HonestInv
    <3> QED
      BY <1>1, <3>1
  <2> QED
    BY <1>1, <1>2, <2>1, <2>2
<1>3. ASSUME NEW other \in IPs \ dishonest'
      PROVE  suspiciousIPs'[other] <= d + repeats'
  <2>1. suspiciousIPs[other] <= c + repeats
    BY DEF HonestInv
  <2>2. CASE other = ip
    <3>1. c + repeats < d + repeats'
      BY <2>2
    <3>2. /\ suspiciousIPs'[other] = suspiciousIPs[other] + 1
          /\ suspiciousIPs[other] \in Nat
      BY <1>1, <2>2
    <3>3. ASSUME NEW m \in Nat, NEW n \in Nat, NEW k \in Nat, k <= m, m < n
          PROVE  k + 1 <= n
      BY <3>3
    <3>4. c + repeats \in Nat /\ d + repeats' \in Nat
      BY <1>1
    <3> HIDE DEF c, d
    <3> QED
      BY <2>1, <3>1, <3>2, <3>3, <3>4
  <2>3. CASE other # ip
    <3>1. c <= d
      OBVIOUS
    <3> HIDE DEF c, d
    <3> QED
      BY <1>1, <2>1, <2>3, <3>1
  <2> QED
    BY <2>2, <2>3
<1> QED
  BY <1>2, <1>3 DEF HonestInv

(* The token of a right password is stored, or its identifier was taken,   *)
(* or the same token is stored already.                                    *)
LEMMA RightPasswordHonest ==
    ASSUME TypeOK, TypeOK', TriesInv, HonestInv, NEW r \in Requests,
           RightPassword(r)
    PROVE  HonestInv'
<1> DEFINE jwt == [user |-> request[r].user, email |-> request[r].email,
                   iat |-> now]
           id == nextId["refresh_tokens"]
<1>1. origin[r] \in IPs
  BY DEF TriesInv, RightPassword, LoginEnd
<1>2. /\ Draw("refresh_tokens", id \in DOMAIN tokens)
      /\ tokens' = IF id \in DOMAIN tokens \/ Stored(jwt) # {} THEN tokens
                   ELSE With(tokens, id, [token |-> jwt, expires |-> now + TokenLife,
                                          revoked |-> FALSE])
  BY DEF RightPassword, LoginEnd, InsertToken
<1>3. /\ IF tokens' = tokens THEN FailedLogin(origin[r])
         ELSE UNCHANGED <<suspiciousIPs, blockedIPs>>
      /\ repeats' = IF tokens' = tokens /\ Stored(jwt) # {}
                    THEN repeats + 1 ELSE repeats
      /\ UNCHANGED dishonest
  BY DEF RightPassword
<1> HIDE DEF jwt
<1>4. /\ collisions["refresh_tokens"] \in Nat
      /\ collisions'["refresh_tokens"]
           = IF id \in DOMAIN tokens THEN collisions["refresh_tokens"] + 1
             ELSE collisions["refresh_tokens"]
  BY <1>2 DEF Draw, TypeOK, Tables
<1>5. repeats \in Nat /\ repeats' \in Nat /\ repeats <= repeats'
  BY <1>3 DEF HonestInv
<1>6. CASE tokens' = tokens
  <2>1. id \in DOMAIN tokens \/ Stored(jwt) # {}
    BY <1>2, <1>6 DEF With
  <2>2. collisions["refresh_tokens"] + repeats
          < collisions'["refresh_tokens"] + repeats'
    BY <1>3, <1>4, <1>5, <1>6, <2>1
  <2> QED
    BY <1>1, <1>3, <1>4, <1>5, <1>6, <2>2, SomebodyFails DEF HonestInv
<1>7. CASE tokens' # tokens
  BY <1>3, <1>4, <1>5, <1>7, NobodyFails
<1> QED
  BY <1>6, <1>7

LEMMA HonestStep ==
    ASSUME TypeOK, TypeOK', TriesInv, HonestInv, [RoutesNext]_routeVars
    PROVE  HonestInv'
<1>1. /\ collisions["refresh_tokens"] \in Nat /\ repeats \in Nat
      /\ collisions["refresh_tokens"] <= collisions["refresh_tokens"]
      /\ repeats <= repeats
  BY DEF TypeOK, HonestInv, Tables
<1>2. CASE UNCHANGED <<suspiciousIPs, blockedIPs, dishonest, repeats, collisions>>
  BY <1>1, <1>2, NobodyFails
<1>3. ASSUME NEW r \in Requests, Registered(r)
      PROVE  HonestInv'
  <2>1. /\ collisions'["refresh_tokens"] = collisions["refresh_tokens"]
        /\ UNCHANGED <<suspiciousIPs, blockedIPs, dishonest, repeats>>
    BY <1>3 DEF Registered, RegisterEnd, InsertUser, Draw, TypeOK, Tables,
                memory, seen
  <2> QED
    BY <1>1, <2>1, NobodyFails
<1>4. ASSUME NEW ip \in IPs, LoginUnknown(ip)
      PROVE  HonestInv'
  BY <1>1, <1>4, SomebodyFails DEF LoginUnknown, HonestInv, vars, history
<1>5. ASSUME NEW r \in Requests, WrongPassword(r)
      PROVE  HonestInv'
  <2>1. origin[r] \in IPs
    BY <1>5 DEF TriesInv, WrongPassword, LoginDenied
  <2> QED
    BY <1>1, <1>5, <2>1, SomebodyFails
       DEF WrongPassword, LoginDenied, HonestInv, history
<1>6. ASSUME NEW r \in Requests, RightPassword(r)
      PROVE  HonestInv'
  BY <1>6, RightPasswordHonest
<1>7. CASE ProcessRestart
  BY <1>7 DEF ProcessRestart, Restart, Booted, HonestInv, Tables
<1> QED
  BY <1>2, <1>3, <1>4, <1>5, <1>6, <1>7
     DEF RoutesNext, Register, RegisterBegin, RefusedAfterLimiter, Login,
         LoginBegin, LogoutRoute, Logout, LogoutAllRoute, LogoutAll, Elsewhere,
         UpdateProfile, DeleteExpired, Clock, Tick, routeVars, vars, memory,
         seen, history

(* Behind its routes, for every number of client addresses and requests,   *)
(* every window and every limit: no window of the limiter lets more than   *)
(* maxRequests through, the tries of an address are bounded, a client that *)
(* sent no wrong credentials is locked out only by identifiers a restart   *)
(* repeats or by logins of one second, and a restart costs at most one     *)
(* login or registration for each row it found.                            *)
THEOREM GuardsStand == RoutesSpec => []GuardsHold
<1> DEFINE All == TriesInv /\ CollisionsInv /\ WindowInv /\ HonestInv
<1>1. RoutesSpec => []TypeOK
  BY RoutesImplementAccounts, TypeCorrect
<1>2. RoutesInit => All
  <2>1. RoutesInit => CollisionsInv
    BY CollisionsInit DEF RoutesInit
  <2>2. RoutesInit => HonestInv
    BY DEF RoutesInit, Init, Booted, HonestInv, Tables
  <2> QED
    BY <2>1, <2>2, TriesInit, WindowInit
<1>3. TypeOK /\ TypeOK' /\ All /\ [RoutesNext]_routeVars => All'
  <2> SUFFICES ASSUME TypeOK, TypeOK', All, [RoutesNext]_routeVars PROVE All'
    OBVIOUS
  <2>1. TriesInv'
    BY TriesStep
  <2>2. CollisionsInv'
    BY RoutesStep, CollisionsStep
  <2>3. WindowInv'
    BY WindowStep
  <2>4. HonestInv'
    BY HonestStep
  <2> QED
    BY <2>1, <2>2, <2>3, <2>4
<1>4. TypeOK /\ All => GuardsHold
  <2> SUFFICES ASSUME TypeOK, All PROVE GuardsHold
    OBVIOUS
  <2>1. RoutesTypeOK
    BY DEF RoutesTypeOK, TriesInv, WindowInv, HonestInv
  <2>2. WindowHolds
    <3> SUFFICES ASSUME NEW ip \in IPs PROVE Len(admissions[ip]) <= MaxRequests
      BY DEF WindowHolds
    <3>1. /\ requestTimes[ip] \in Seq(0..MaxTime)
          /\ admissions[ip] = Since(requestTimes[ip], now - Window)
          /\ Len(requestTimes[ip]) <= MaxRequests
          /\ now - Window \in Int /\ MaxRequests \in Nat
      BY AccountsAssumption, AuthRoutesAssumption DEF WindowInv, Recent, TypeOK
    <3>2. /\ Since(requestTimes[ip], now - Window) \in Seq(0..MaxTime)
          /\ Len(Since(requestTimes[ip], now - Window)) <= Len(requestTimes[ip])
      BY <3>1, SinceType
    <3> QED
      BY <3>1, <3>2
  <2>3. RestartCostsOneTryPerRow
    <3> SUFFICES ASSUME NEW t \in Tables PROVE collisions[t] <= bootRows[t]
      BY DEF RestartCostsOneTryPerRow
    <3>1. /\ Rows(t) \subseteq Ids /\ nextId[t] \in Nat
          /\ collisions[t] \in Nat /\ bootRows[t] \in Nat
      BY AccountsAssumption DEF TypeOK, Rows, FirstId
    <3>2. Cardinality(Above(Rows(t), nextId[t])) \in Nat
      BY <3>1, AboveCounted
    <3>3. collisions[t] + Cardinality(Above(Rows(t), nextId[t])) <= bootRows[t]
      BY DEF CollisionsInv
    <3> QED
      BY <3>1, <3>2, <3>3
  <2>4. HonestClientsStay
    <3> SUFFICES ASSUME NEW ip \in blockedIPs \ dishonest
                 PROVE  BlockAfter <= bootRows["refresh_tokens"] + repeats
      BY DEF HonestClientsStay
    <3> DEFINE c == collisions["refresh_tokens"]
               b == bootRows["refresh_tokens"]
    <3>1. /\ c \in Nat /\ b \in Nat /\ c <= b
          /\ repeats \in Nat /\ BlockAfter \in Nat /\ suspiciousIPs[ip] \in Nat
          /\ BlockAfter <= suspiciousIPs[ip]
          /\ suspiciousIPs[ip] <= c + repeats
      BY <2>3, AuthRoutesAssumption
         DEF TypeOK, TriesInv, HonestInv, RestartCostsOneTryPerRow, Tables
    <3> HIDE DEF c, b
    <3>2. BlockAfter <= b + repeats
      BY <3>1
    <3> QED
      BY <3>2 DEF b
  <2> QED
    BY <2>1, <2>2, <2>3, <2>4 DEF GuardsHold, TriesInv
<1> HIDE DEF All
<1> QED
  BY <1>1, <1>2, <1>3, <1>4, PTL DEF RoutesSpec

=============================================================================
