------------------------------ MODULE AuthRoutes ------------------------------
(***************************************************************************)
(* The routes of src/routes/auth.routes.ts in front of Accounts: every     *)
(* request passes ip-security.middleware.ts, registrations and logins pass *)
(* advanced-rate-limit.middleware.ts as well, and the controller of login  *)
(* reports what fails to services/security.service.ts, which blocks.       *)
(*                                                                         *)
(* What is refused with 403 or 429 changes nothing but the log of events,  *)
(* which no route reads; the log is left out.  So are the fixed windows of *)
(* express-rate-limit, which refuse requests before they come here.        *)
(***************************************************************************)
EXTENDS Accounts, Subsequences

CONSTANTS
    IPs,
    Window,         (* windowMs of authLimiter, in seconds                 *)
    MaxRequests,    (* maxRequests of authLimiter                          *)
    BlockAfter      (* the failed logins that block an address: 5          *)

ASSUME AuthRoutesAssumption ==
    /\ {Window, MaxRequests, BlockAfter} \subseteq Nat \ {0}
    /\ IsFiniteSet(Requests)

VARIABLES
    requestTimes,   (* advancedRateLimit.requests                          *)
    suspiciousIPs, blockedIPs,
    origin,         (* the address each request under way came from        *)
    admissions,     (* history: the seconds requests were let through in,  *)
                    (* while they are in the window                        *)
    dishonest,      (* history: addresses that sent wrong credentials      *)
    repeats         (* history: logins refused since their token existed   *)

memory == <<requestTimes, suspiciousIPs, blockedIPs>>
seen == <<admissions, dishonest, repeats>>
routeVars == <<vars, memory, origin, seen>>

RoutesTypeOK ==
    /\ requestTimes \in [IPs -> Seq(0..MaxTime)]
    /\ suspiciousIPs \in [IPs -> Nat]
    /\ blockedIPs \subseteq IPs
    /\ origin \in [Requests -> IPs \cup {Idle}]
    /\ admissions \in [IPs -> Seq(0..MaxTime)]
    /\ dishonest \subseteq IPs
    /\ repeats \in Nat

Booted ==
    [requestTimes |-> [ip \in IPs |-> <<>>], suspiciousIPs |-> [ip \in IPs |-> 0]]

RoutesInit ==
    /\ Init
    /\ requestTimes = Booted.requestTimes
    /\ suspiciousIPs = Booted.suspiciousIPs
    /\ blockedIPs = {}
    /\ origin = [r \in Requests |-> Idle]
    /\ admissions = Booted.requestTimes
    /\ dishonest = {}
    /\ repeats = 0

-----------------------------------------------------------------------------
(* The middlewares and the security service.                               *)

(* Mutation: nobody looks the block up.                                    *)
AnyoneMayPass(ip) == TRUE

(* ipSecurityMiddleware().                                                 *)
MayPass(ip) == ip \notin blockedIPs

(* What filter() leaves of a list of times.                                *)
Since(times, start) == Kept(times, {n \in DOMAIN times : times[n] > start})

Recent(times) == Since(times, now - Window)

(* authLimiter: registrations and logins of an address share one list.     *)
Admit(ip) ==
    LET recent == Recent(requestTimes[ip])
    IN  /\ Len(recent) < MaxRequests
        /\ requestTimes' = [requestTimes EXCEPT ![ip] = Append(recent, now)]
        /\ admissions' = [admissions EXCEPT ![ip] = Append(@, now)]

(* logEvent() of a FAILED_LOGIN: nothing ever takes the count back.        *)
FailedLogin(ip) ==
    /\ suspiciousIPs' = [suspiciousIPs EXCEPT ![ip] = @ + 1]
    /\ blockedIPs' = IF suspiciousIPs[ip] >= BlockAfter - 1
                     THEN blockedIPs \cup {ip} ELSE blockedIPs

(* The logins from an address that bcrypt is at work on.                   *)
Comparing(ip) ==
    {r \in Requests : request[r].at = "comparing" /\ origin[r] = ip}

From(r, ip) == origin' = [origin EXCEPT ![r] = ip]

-----------------------------------------------------------------------------
(* The routes.                                                             *)

Register(ip, r, email, name) ==
    /\ MayPass(ip)
    /\ Admit(ip)
    /\ RegisterBegin(r, email, name)
    /\ From(r, ip)
    /\ UNCHANGED <<suspiciousIPs, blockedIPs, dishonest, repeats>>

(* A registration whose body is not valid, or whose address, name or       *)
(* password is refused; a login whose body is not valid.                   *)
RefusedAfterLimiter(ip) ==
    /\ MayPass(ip)
    /\ Admit(ip)
    /\ UNCHANGED <<vars, suspiciousIPs, blockedIPs, origin, dishonest, repeats>>

Registered(r) ==
    /\ RegisterEnd(r)
    /\ From(r, Idle)
    /\ UNCHANGED <<memory, seen>>

Login(ip, r, id) ==
    /\ MayPass(ip)
    /\ Admit(ip)
    /\ LoginBegin(r, id)
    /\ From(r, ip)
    /\ UNCHANGED <<suspiciousIPs, blockedIPs, dishonest, repeats>>

(* There is no such account: login() throws before it compares.            *)
LoginUnknown(ip) ==
    /\ MayPass(ip)
    /\ Admit(ip)
    /\ \E email \in Emails : ~EmailExists(email)
    /\ FailedLogin(ip)
    /\ dishonest' = dishonest \cup {ip}
    /\ UNCHANGED <<vars, origin, repeats>>

WrongPassword(r) ==
    /\ LoginDenied(r)
    /\ FailedLogin(origin[r])
    /\ From(r, Idle)
    /\ dishonest' = dishonest \cup {origin[r]}
    /\ UNCHANGED <<requestTimes, admissions, repeats>>

(* The password was right, yet login() also throws when its refresh token  *)
(* cannot be stored, and the controller counts that like any failure.      *)
RightPassword(r) ==
    LET jwt == [user |-> request[r].user, email |-> request[r].email, iat |-> now]
        failed == tokens' = tokens
    IN  /\ LoginEnd(r)
        /\ From(r, Idle)
        /\ IF failed THEN FailedLogin(origin[r])
           ELSE UNCHANGED <<suspiciousIPs, blockedIPs>>
        /\ repeats' = IF failed /\ Stored(jwt) # {} THEN repeats + 1 ELSE repeats
        /\ UNCHANGED <<requestTimes, admissions, dishonest>>

LogoutRoute(ip, id) ==
    /\ MayPass(ip)
    /\ Logout(id)
    /\ UNCHANGED <<memory, origin, seen>>

LogoutAllRoute(ip, user) ==
    /\ MayPass(ip)
    /\ LogoutAll(user)
    /\ UNCHANGED <<memory, origin, seen>>

(* The routes of user.routes.ts and the nightly job.                       *)
Elsewhere ==
    /\ \/ \E user \in Ids, email \in Emails, name \in Names :
            UpdateProfile(user, email, name)
       \/ DeleteExpired
    /\ UNCHANGED <<memory, origin, seen>>

Clock ==
    /\ Tick
    /\ admissions' = [ip \in IPs |-> Since(admissions[ip], now' - Window)]
    /\ UNCHANGED <<memory, origin, dishonest, repeats>>

(* The limiter and the security service keep nothing over a restart.       *)
ProcessRestart ==
    /\ Restart
    /\ requestTimes' = Booted.requestTimes
    /\ suspiciousIPs' = Booted.suspiciousIPs
    /\ blockedIPs' = {}
    /\ origin' = [r \in Requests |-> Idle]
    /\ admissions' = Booted.requestTimes
    /\ dishonest' = {}
    /\ repeats' = 0

RoutesNext ==
    \/ \E ip \in IPs, r \in Requests, email \in Emails, name \in Names :
         Register(ip, r, email, name)
    \/ \E ip \in IPs : RefusedAfterLimiter(ip)
    \/ \E r \in Requests : Registered(r)
    \/ \E ip \in IPs, r \in Requests, id \in Ids : Login(ip, r, id)
    \/ \E ip \in IPs : LoginUnknown(ip)
    \/ \E r \in Requests : WrongPassword(r)
    \/ \E r \in Requests : RightPassword(r)
    \/ \E ip \in IPs, id \in Ids : LogoutRoute(ip, id)
    \/ \E ip \in IPs, user \in Ids : LogoutAllRoute(ip, user)
    \/ Elsewhere
    \/ Clock
    \/ ProcessRestart

RoutesSpec == RoutesInit /\ [][RoutesNext]_routeVars

-----------------------------------------------------------------------------
(* No window of authLimiter, whenever it ends, lets more than maxRequests  *)
(* registrations and logins of one address through, although old requests  *)
(* leave the list only when the next one passes.                           *)
WindowHolds == \A ip \in IPs : Len(admissions[ip]) <= MaxRequests

(* Logins that were past the check when their address was blocked still    *)
(* end, while bcrypt works: they are all that an address can try beyond    *)
(* the limit, so that its failures and tries under way stay bounded.       *)
TriesBounded ==
    \A ip \in IPs :
        suspiciousIPs[ip] + Cardinality(Comparing(ip))
            <= BlockAfter + Cardinality(Requests)

(* A client that never sent wrong credentials is locked out only by the    *)
(* identifiers a restart repeats, one failure for each session it found,   *)
(* or by logins of one account within one second (security.service.ts:34). *)
HonestClientsStay ==
    \A ip \in blockedIPs \ dishonest :
        BlockAfter <= bootRows["refresh_tokens"] + repeats

(* In every state the guards of the auth routes have done their work and   *)
(* the identifiers have cost no more logins than there were rows.          *)
GuardsHold ==
    /\ RoutesTypeOK
    /\ WindowHolds
    /\ TriesBounded
    /\ HonestClientsStay
    /\ RestartCostsOneTryPerRow

=============================================================================
