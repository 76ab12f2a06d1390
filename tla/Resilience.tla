------------------------------ MODULE Resilience ------------------------------
(***************************************************************************)
(* A request on its way: a ResilientServiceClient sends it through its     *)
(* breaker to the routes of microservices/api-gateway.ts, which pass it by *)
(* a ServiceClient to a healthy process of the service.  Both clients have *)
(* a timeout of their own.  Processes come, go, announce themselves and    *)
(* send heartbeats when they like; the gateway may restart.                *)
(* A request occupies one of the Requests until nothing is under way for   *)
(* it any more, which may be long after its sender has given it up.        *)
(***************************************************************************)
EXTENDS ServiceRegistry, TimedBreaker

CONSTANTS Requests, None,
          Timeout,          (* of the breaker, in ticks                    *)
          ClientTimeout     (* of the axios client, in ticks               *)
ASSUME TimeoutAssumption ==
    /\ ClientTimeout \in Nat \ {0}
    /\ Timeout \in Nat /\ Timeout > ClientTimeout
    /\ None \notin Providers

VARIABLES
    request,    (* what is under way, None for nothing                     *)
    up,         (* the processes that run                                  *)
    gone,       (* how long a process has not been running                 *)
    entered,    (* history: who has announced itself to this gateway       *)
    streak,     (* history: failures told since the last success           *)
    wins,       (* history: successes told in this half-open period        *)
    mercy,      (* history: has one been told since the breaker opened?    *)
    calm        (* history: time since a failure opened it or held it open *)

processes == <<up, gone>>
history == <<streak, wins, mercy, calm>>
vars == <<registry, breaker, request, processes, entered, history>>

Request == [waiting : BOOLEAN, left : 0..Timeout, at : {"out", "process", "back"},
            to : Providers \cup {None}, inner : 0..ClientTimeout, ok : BOOLEAN,
            wire : 0..Timeout]

ASSUME NoneAssumption == None \notin Request

TypeOK ==
    /\ RegistryOK
    /\ BreakerOK
    /\ request \in [Requests -> Request \cup {None}]
    /\ up \subseteq Providers
    /\ gone \in [Providers -> 0..MaxAge]
    /\ entered \subseteq Providers
    /\ streak \in 0..FailureThreshold
    /\ wins \in 0..SuccessThreshold
    /\ mercy \in BOOLEAN
    /\ calm \in 0..ResetTimeout

Init ==
    /\ InitRegistry
    /\ InitBreaker
    /\ request = [r \in Requests |-> None]
    /\ up = Providers
    /\ gone = [p \in Providers |-> 0]
    /\ entered = {}
    /\ streak = 0
    /\ wins = 0
    /\ mercy = FALSE
    /\ calm = 0

UnderWay(r) == request[r] # None
At(r, where) == UnderWay(r) /\ request[r].at = where
Back(q, ok) == [q EXCEPT !.at = "back", !.to = None, !.inner = 0, !.ok = ok]
Later(n, most) == IF n < most THEN n + 1 ELSE n

-----------------------------------------------------------------------------
(* The processes, and the endpoints that they call.                        *)

Announce(p, name) ==
    /\ p \in up
    /\ Register(p, name)
    /\ entered' = entered \cup {p}
    /\ UNCHANGED <<breaker, request, processes, history>>

Leave(p) ==
    /\ p \in up
    /\ Unregister(p)
    /\ entered' = entered \ {p}
    /\ UNCHANGED <<breaker, request, processes, history>>

Beat(p) ==
    /\ p \in up
    /\ UpdateHeartbeat(p)
    /\ UNCHANGED <<breaker, request, processes, entered, history>>

Die(p) ==
    /\ p \in up
    /\ up' = up \ {p}
    /\ UNCHANGED <<registry, breaker, request, gone, entered, history>>

Rise(p) ==
    /\ p \notin up
    /\ up' = up \cup {p}
    /\ gone' = [gone EXCEPT ![p] = 0]
    /\ UNCHANGED <<registry, breaker, request, entered, history>>

Check ==
    /\ HealthCheck
    /\ UNCHANGED <<breaker, request, processes, entered, history>>

(* The connections break; what the processes do for them goes on.          *)
GatewayRestarts ==
    /\ RestartRegistry
    /\ request' = [r \in Requests |->
                      IF At(r, "process")
                      THEN Back(request[r], FALSE) ELSE request[r]]
    /\ entered' = {}
    /\ UNCHANGED <<breaker, processes, history>>

-----------------------------------------------------------------------------
(* The way of a request.                                                   *)

(* makeRequest(), execute(): fetch() is under way, the clock runs.         *)
Execute(r) ==
    /\ ~UnderWay(r)
    /\ Admit
    /\ request' = [request EXCEPT ![r] =
                      [waiting |-> TRUE, left |-> Timeout, at |-> "out", to |-> None,
                       inner |-> 0, ok |-> FALSE, wire |-> 0]]
    /\ wins' = IF state = "OPEN" THEN 0 ELSE wins
    /\ UNCHANGED <<registry, processes, entered, streak, mercy, calm>>

(* callService(): one of the healthy processes, or an error at once.       *)
SentFor(r, p, time) ==
    request' = [request EXCEPT ![r] = [@ EXCEPT !.at = "process", !.to = p, !.inner = time]]

Sent(r, p) == SentFor(r, p, ClientTimeout)

Arrive(r, name) ==
    /\ At(r, "out")
    /\ \/ \E p \in GetServicesByName(name) : Sent(r, p)
       \/ /\ GetServicesByName(name) = {}
          /\ request' = [request EXCEPT ![r] = Back(@, FALSE)]
    /\ UNCHANGED <<registry, breaker, processes, entered, history>>

(* The process answers, well or not; one that does not run refuses.        *)
Respond(r) ==
    /\ At(r, "process")
    /\ \E ok \in BOOLEAN :
          /\ ok => request[r].to \in up
          /\ request' = [request EXCEPT ![r] = Back(@, ok)]
    /\ UNCHANGED <<registry, breaker, processes, entered, history>>

ClientGivesUp(r) ==
    /\ At(r, "process")
    /\ request[r].inner = 0
    /\ request' = [request EXCEPT ![r] = Back(@, FALSE)]
    /\ UNCHANGED <<registry, breaker, processes, entered, history>>

ToldSuccess ==
    /\ OnSuccess
    /\ streak' = 0
    /\ wins' = IF state = "HALF_OPEN" THEN Later(wins, SuccessThreshold) ELSE wins
    /\ mercy' = TRUE
    /\ UNCHANGED calm

ToldFailure ==
    /\ OnFailure
    /\ streak' = Later(streak, FailureThreshold)
    /\ mercy' = (mercy /\ streak' < FailureThreshold)
    /\ calm' = IF streak' = FailureThreshold THEN 0 ELSE calm
    /\ UNCHANGED wins

(* The answer reaches its sender, if he still waits.                       *)
Answer(r) ==
    /\ At(r, "back")
    /\ request' = [request EXCEPT ![r] = None]
    /\ IF ~request[r].waiting THEN UNCHANGED <<breaker, history>>
       ELSE IF request[r].ok THEN ToldSuccess ELSE ToldFailure
    /\ UNCHANGED <<registry, processes, entered>>

(* fetch() fails, the request or the answer is lost.                       *)
NetworkFails(r) ==
    /\ At(r, "out") \/ At(r, "back")
    /\ request' = [request EXCEPT ![r] = None]
    /\ IF request[r].waiting THEN ToldFailure ELSE UNCHANGED <<breaker, history>>
    /\ UNCHANGED <<registry, processes, entered>>

(* executeWithTimeout(): the sender is told of a failure, fetch() goes on. *)
GiveUp(r) ==
    /\ UnderWay(r) /\ request[r].waiting
    /\ request[r].left = 0
    /\ request' = [request EXCEPT ![r].waiting = FALSE]
    /\ ToldFailure
    /\ UNCHANGED <<registry, processes, entered>>

(* reset(), which a ResilientServiceClient does not offer.                 *)
Reset ==
    /\ ResetBreaker
    /\ streak' = 0
    /\ UNCHANGED <<registry, request, processes, entered, wins, mercy, calm>>

-----------------------------------------------------------------------------
(* Time passes, unless a timer is due.                                     *)
Passed(q) ==
    [q EXCEPT !.left = IF q.waiting THEN @ - 1 ELSE @,
              !.inner = IF q.at = "process" THEN @ - 1 ELSE @,
              !.wire = IF q.waiting /\ q.at # "process" THEN @ + 1 ELSE @]

Due(q) == \/ q.waiting /\ q.left = 0
          \/ q.at = "process" /\ q.inner = 0

Tick ==
    /\ \A r \in Requests : UnderWay(r) => ~Due(request[r])
    /\ RegistryTick
    /\ BreakerTick
    /\ request' = [r \in Requests |-> IF UnderWay(r) THEN Passed(request[r]) ELSE None]
    /\ gone' = [p \in Providers |-> IF p \in up THEN 0 ELSE Later(gone[p], MaxAge)]
    /\ calm' = Later(calm, ResetTimeout)
    /\ UNCHANGED <<up, entered, streak, wins, mercy>>

Next ==
    \/ \E p \in Providers, name \in Names : Announce(p, name)
    \/ \E p \in Providers : Leave(p) \/ Beat(p) \/ Die(p) \/ Rise(p)
    \/ Check
    \/ GatewayRestarts
    \/ \E r \in Requests : Execute(r) \/ Respond(r) \/ ClientGivesUp(r)
    \/ \E r \in Requests, name \in Names : Arrive(r, name)
    \/ \E r \in Requests : Answer(r) \/ NetworkFails(r) \/ GiveUp(r)
    \/ Reset
    \/ Tick

Spec == Init /\ [][Next]_vars

-----------------------------------------------------------------------------
(* Properties.                                                             *)

Waiting == {r \in Requests : UnderWay(r) /\ request[r].waiting}

(* Whoever is listed as healthy has been heard of in the last three        *)
(* periods, less the time until the next check, and whoever is not has     *)
(* missed two (updateHeartbeat(), startHealthCheck()).                     *)
HealthFollowsHeartbeats ==
    \A i \in DOMAIN services :
        IF services[i].health = "healthy"
        THEN services[i].age + checkIn <= 3 * HeartbeatInterval
        ELSE Overdue(services[i])

Picked(r, p) == /\ At(r, "out")
                /\ UnderWay(r)' /\ request'[r].at = "process" /\ request'[r].to = p

(* A process that has stopped without a word is called for three periods   *)
(* at the most (callService(), getServicesByName()).                       *)
TheDeadAreForgotten ==
    \A r \in Requests, p \in Providers :
       Picked(r, p) => gone[p] <= 3 * HeartbeatInterval

(* A process that has left, or announced itself before the gateway was     *)
(* restarted, is not called until it announces itself again, whatever      *)
(* heartbeats it sends, which are answered with success (unregister(),     *)
(* updateHeartbeat()).                                                     *)
OnlyTheEnteredAreCalled ==
    \A r \in Requests, p \in Providers : Picked(r, p) => p \in entered

(* Who is called: a process that is there, or has been until lately.       *)
CallsReachTheLiving == [][TheDeadAreForgotten /\ OnlyTheEnteredAreCalled]_vars

(* The gateway enters itself and never sends a heartbeat: when it has run  *)
(* for three periods, it is ready only as long as another process is       *)
(* healthy (MicroserviceManager.init(), checkReadiness()).                 *)
ReadyThanksToOthers ==
    services[Self].age > 3 * HeartbeatInterval /\ IsReady
        => \E p \in DOMAIN services \cap entered : services[p].health = "healthy"

(* A closed breaker opens only after FailureThreshold failures with no     *)
(* success between them, in the order in which they are told (onSuccess(), *)
(* onFailure()).                                                           *)
OpensOnConsecutiveFailures ==
    state = "CLOSED" /\ state' = "OPEN" => streak' >= FailureThreshold

(* A half-open breaker is closed by SuccessThreshold successes that are    *)
(* told while it is half-open; those of earlier half-open periods do not   *)
(* count (execute(), onSuccess()).                                         *)
ClosedByNewSuccesses ==
    state = "HALF_OPEN" /\ state' = "CLOSED" /\ request' # request
     => wins' >= SuccessThreshold

(* The first failure told to a half-open breaker opens it again, provided  *)
(* that no success has been told since it was opened, be it one of a call  *)
(* from before (execute() keeps failureCount, onSuccess() clears it).      *)
FailedTrialReopens ==
    state = "HALF_OPEN" /\ ~mercy /\ ~(Waiting \subseteq Waiting') /\ streak' > 0
     => state' = "OPEN"

(* A trial starts no sooner than ResetTimeout after the last failure that  *)
(* opened the breaker or, told late, came when it would have: each such    *)
(* failure keeps it open for longer (execute(), onFailure()).              *)
TrialsKeepDistance ==
    state = "OPEN" /\ state' = "HALF_OPEN" => calm >= ResetTimeout

(* The breaker moves for the reasons its thresholds and its timeout state. *)
BreakerMovesForAReason ==
    [][/\ OpensOnConsecutiveFailures /\ ClosedByNewSuccesses
       /\ FailedTrialReopens /\ TrialsKeepDistance]_vars

(* Two timeouts in a row: a sender gives up only on a request that has     *)
(* spent the difference on the way, never because of a slow process alone  *)
(* (ServiceClient's 5 s against ResilientServiceClient's 10 s).            *)
InnerTimeoutComesFirst ==
    \A r \in Requests :
        UnderWay(r) /\ ~request[r].waiting => request[r].wire >= Timeout - ClientTimeout

(* In every state the registry says what the heartbeats told it, and no    *)
(* sender gives up before the client of its service does.                  *)
RegistryIsSound == TypeOK /\ HealthFollowsHeartbeats /\ ReadyThanksToOthers /\ InnerTimeoutComesFirst

=============================================================================
