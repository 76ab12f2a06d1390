-------------------------- MODULE OperationsProofs --------------------------
(***************************************************************************)
(* What is proved of two parts of the application's operation.             *)
(*                                                                         *)
(* Resilience, for every set of processes, names and requests and all      *)
(* periods: only processes that are there, or have been until lately, are  *)
(* called; a sender never gives up because of a slow process alone; and    *)
(* the breaker moves for the reasons its thresholds and its timeout state. *)
(*                                                                         *)
(* Maintenance, for every directory of migrations that is numbered as      *)
(* FilesAssumption says, every number of calls, backups and crashes: the   *)
(* records of the backup service and of the migrator are true, a call that *)
(* is left alone has done its work when it ends, and a start fails only    *)
(* for one of the reasons named.                                           *)
(***************************************************************************)
EXTENDS Resilience, Maintenance, SubsequencesProofs, FiniteSetTheorems, TLAPS

-----------------------------------------------------------------------------
(***************************************************************************)
(* Resilience.                                                             *)
(***************************************************************************)

(* The registry lists the gateway itself and who has announced itself; a   *)
(* process was heard of no later than it stopped.                          *)
RegistryFollowsProcesses ==
    /\ IsFiniteSet(DOMAIN services)
    /\ Self \in DOMAIN services
    /\ services[Self].name = "api-gateway"
    /\ DOMAIN services \subseteq entered \cup {Self}
    /\ \A p \in up : gone[p] = 0
    /\ \A p \in Providers \cap DOMAIN services : gone[p] <= services[p].age

RegistryInv ==
    /\ RegistryOK
    /\ up \subseteq Providers
    /\ gone \in [Providers -> 0..MaxAge]
    /\ entered \subseteq Providers
    /\ HealthFollowsHeartbeats
    /\ RegistryFollowsProcesses

(* The time a waiting sender has spent is that on the way and that at the  *)
(* process, and of the latter there is ClientTimeout at the most.          *)
ClockOf(q) ==
    /\ ~q.waiting => q.wire >= Timeout - ClientTimeout
    /\ q.waiting /\ q.at = "out" => q.left + q.wire = Timeout
    /\ q.waiting /\ q.at = "process"
          => q.left + q.wire + (ClientTimeout - q.inner) = Timeout
    /\ q.waiting /\ q.at = "back" => q.left + q.wire \in (Timeout - ClientTimeout)..Timeout

RequestInv ==
    /\ request \in [Requests -> Request \cup {None}]
    /\ \A r \in Requests : UnderWay(r) => ClockOf(request[r])

(* What the breaker counts is what the histories remember, as long as it   *)
(* matters.                                                                *)
CountsFollowHistory ==
    /\ failureCount = streak
    /\ state = "HALF_OPEN" => successCount = wins
    /\ state \in {"OPEN", "HALF_OPEN"} /\ ~mercy => streak = FailureThreshold
    /\ state = "OPEN" => wait + calm >= ResetTimeout

BreakerInv ==
    /\ BreakerOK
    /\ streak \in 0..FailureThreshold
    /\ wins \in 0..SuccessThreshold
    /\ mercy \in BOOLEAN
    /\ calm \in 0..ResetTimeout
    /\ CountsFollowHistory

Inv == RegistryInv /\ RequestInv /\ BreakerInv

-----------------------------------------------------------------------------
(* The registry.                                                           *)

(* Entering a live process, once more or for the first time, keeps the     *)
(* invariant.                                                              *)
LEMMA EnterKeepsRegistry ==
    ASSUME RegistryInv, NEW p \in up, NEW name \in Names \cup {"api-gateway"},
           services' = With(p, Fresh(name)), checkIn' = checkIn,
           entered' = entered \cup {p}, up' = up, gone' = gone
    PROVE  RegistryInv'
<1> USE RegistryAssumption DEF RegistryInv, RegistryOK
<1>1. /\ DOMAIN services' = DOMAIN services \cup {p}
      /\ services'[p] = Fresh(name)
      /\ \A j \in DOMAIN services : j # p => services'[j] = services[j]
  BY DEF With
<1>2. p \in Providers /\ gone[p] = 0
  BY DEF RegistryFollowsProcesses
<1>3. RegistryOK'
  BY <1>1, <1>2 DEF Fresh, ServiceInfo, MaxAge
<1>4. HealthFollowsHeartbeats'
  BY <1>1, <1>2 DEF HealthFollowsHeartbeats, Fresh, Overdue
<1>5. IsFiniteSet(DOMAIN services')
  BY <1>1, FS_AddElement DEF RegistryFollowsProcesses
<1>6. RegistryFollowsProcesses'
  BY <1>1, <1>2, <1>5 DEF RegistryFollowsProcesses, Fresh, Self
<1> QED
  BY <1>2, <1>3, <1>4, <1>6

LEMMA LeaveKeepsRegistry ==
    ASSUME RegistryInv, NEW p \in Providers, Leave(p)
    PROVE  RegistryInv'
<1> USE RegistryAssumption DEF RegistryInv
<1>1. /\ DOMAIN services' = DOMAIN services \ {p}
      /\ \A j \in DOMAIN services' : services'[j] = services[j]
      /\ checkIn' = checkIn /\ up' = up /\ gone' = gone /\ entered' = entered \ {p}
  BY DEF Leave, Unregister, Restrict, processes
<1>2. p # Self
  BY DEF Self
<1>3. IsFiniteSet(DOMAIN services')
  BY <1>1, FS_RemoveElement DEF RegistryFollowsProcesses
<1>4. RegistryOK' /\ HealthFollowsHeartbeats'
  BY <1>1 DEF RegistryOK, HealthFollowsHeartbeats, Overdue
<1>5. RegistryFollowsProcesses'
  BY <1>1, <1>2, <1>3 DEF RegistryFollowsProcesses
<1> QED
  BY <1>1, <1>4, <1>5

LEMMA CheckKeepsRegistry ==
    ASSUME RegistryInv, Check
    PROVE  RegistryInv'
<1> USE RegistryAssumption DEF RegistryInv, RegistryOK
<1>1. /\ checkIn = 0 /\ checkIn' = HeartbeatInterval
      /\ up' = up /\ gone' = gone /\ entered' = entered
      /\ DOMAIN services' = DOMAIN services
      /\ \A j \in DOMAIN services :
            services'[j] = IF Overdue(services[j])
                           THEN [services[j] EXCEPT !.health = "unhealthy"] ELSE services[j]
  BY DEF Check, HealthCheck, processes
<1>2. \A j \in DOMAIN services :
         /\ services'[j] \in ServiceInfo
         /\ services'[j].age = services[j].age /\ services'[j].name = services[j].name
         /\ services'[j].health = IF Overdue(services[j]) THEN "unhealthy"
                                  ELSE services[j].health
  BY <1>1 DEF ServiceInfo
<1>3. \A j \in DOMAIN services : services[j].age \in Nat
  BY DEF ServiceInfo
<1>4. HealthFollowsHeartbeats'
  BY <1>1, <1>2, <1>3 DEF HealthFollowsHeartbeats, Overdue
<1>5. RegistryFollowsProcesses'
  BY <1>1, <1>2 DEF RegistryFollowsProcesses
<1> QED
  BY <1>1, <1>2, <1>4, <1>5

LEMMA TickKeepsRegistry ==
    ASSUME RegistryInv, Tick
    PROVE  RegistryInv'
<1> USE RegistryAssumption DEF RegistryInv, RegistryOK, MaxAge
<1>1. /\ checkIn > 0 /\ checkIn' = checkIn - 1
      /\ up' = up /\ entered' = entered
      /\ DOMAIN services' = DOMAIN services
      /\ \A j \in DOMAIN services :
            services'[j] = [services[j] EXCEPT !.age = IF @ < MaxAge THEN @ + 1 ELSE @]
      /\ gone' = [p \in Providers |-> IF p \in up THEN 0 ELSE Later(gone[p], MaxAge)]
  BY DEF Tick, RegistryTick
<1>2. \A j \in DOMAIN services :
         /\ services[j].age \in 0..MaxAge
         /\ services'[j] \in ServiceInfo
         /\ services'[j].age = IF services[j].age < MaxAge THEN services[j].age + 1
                               ELSE services[j].age
         /\ services'[j].health = services[j].health
         /\ services'[j].name = services[j].name
  BY <1>1 DEF ServiceInfo
<1>3. HealthFollowsHeartbeats'
  BY <1>1, <1>2 DEF HealthFollowsHeartbeats, Overdue
<1>4. gone' \in [Providers -> 0..MaxAge]
  BY <1>1 DEF Later
<1>5. \A p \in Providers \cap DOMAIN services : gone'[p] <= services'[p].age
  BY <1>1, <1>2 DEF RegistryFollowsProcesses, Later
<1>6. RegistryFollowsProcesses'
  BY <1>1, <1>2, <1>5 DEF RegistryFollowsProcesses
<1> QED
  BY <1>1, <1>2, <1>3, <1>4, <1>6

(* Init and GatewayRestarts alike.                                         *)
LEMMA InitialRegistry ==
    ASSUME services' = InitialServices, checkIn' = HeartbeatInterval,
           up' \subseteq Providers, gone' \in [Providers -> 0..MaxAge],
           entered' \subseteq Providers, \A p \in up' : gone'[p] = 0
    PROVE  RegistryInv'
<1> USE RegistryAssumption
<1>1. /\ DOMAIN services' = {Self}
      /\ services'[Self] = Fresh("api-gateway")
  BY DEF InitialServices
<1>2. RegistryOK'
  BY <1>1 DEF RegistryOK, Fresh, ServiceInfo, MaxAge
<1>3. HealthFollowsHeartbeats'
  BY <1>1 DEF HealthFollowsHeartbeats, Fresh
<1>4. RegistryFollowsProcesses'
  <2>1. IsFiniteSet({Self})
    BY FS_Singleton
  <2>2. Providers \cap DOMAIN services' = {}
    BY <1>1 DEF Self
  <2> QED
    BY <1>1, <2>1, <2>2 DEF RegistryFollowsProcesses, Fresh
<1> QED
  BY <1>2, <1>3, <1>4 DEF RegistryInv

LEMMA RegistryInductive == RegistryInv /\ [Next]_vars => RegistryInv'
<1> SUFFICES ASSUME RegistryInv, [Next]_vars PROVE RegistryInv'
  OBVIOUS
<1> DEFINE Same == /\ services' = services /\ checkIn' = checkIn
                   /\ up' = up /\ gone' = gone /\ entered' = entered
<1>1. Same => RegistryInv'
  BY DEF RegistryInv, RegistryOK, HealthFollowsHeartbeats, RegistryFollowsProcesses,
         Overdue
<1>2. ASSUME NEW p \in Providers, NEW name \in Names, Announce(p, name)
      PROVE  RegistryInv'
  BY <1>2, EnterKeepsRegistry DEF Announce, Register, processes
<1>3. ASSUME NEW p \in Providers, Beat(p) PROVE RegistryInv'
  <2>1. CASE p \in DOMAIN services
    <3>1. services[p].name \in Names \cup {"api-gateway"}
      BY <2>1 DEF RegistryInv, RegistryOK, ServiceInfo
    <3>2. entered = entered \cup {p}
      BY <2>1, RegistryAssumption
         DEF RegistryInv, RegistryFollowsProcesses, Self
    <3> QED
      BY <1>3, <2>1, <3>1, <3>2, EnterKeepsRegistry
         DEF Beat, UpdateHeartbeat, HeardOf, processes
  <2>2. CASE p \notin DOMAIN services
    BY <1>1, <1>3, <2>2 DEF Beat, UpdateHeartbeat, HeardOf, processes
  <2> QED
    BY <2>1, <2>2
<1>4. ASSUME NEW p \in Providers, Die(p) \/ Rise(p) PROVE RegistryInv'
  <2>1. /\ services' = services /\ checkIn' = checkIn /\ entered' = entered
        /\ \/ up' = up \ {p} /\ gone' = gone
           \/ up' = up \cup {p} /\ gone' = [gone EXCEPT ![p] = 0]
    BY <1>4 DEF Die, Rise, registry
  <2>2. gone' \in [Providers -> 0..MaxAge] /\ \A q \in Providers : gone'[q] <= gone[q]
    BY <2>1, RegistryAssumption DEF RegistryInv, MaxAge
  <2>3. \A q \in up' : gone'[q] = 0
    BY <2>1 DEF RegistryInv, RegistryFollowsProcesses
  <2>4. \A q \in Providers \cap DOMAIN services' : gone'[q] <= services'[q].age
    <3>1. \A q \in Providers \cap DOMAIN services :
             gone[q] \in Nat /\ gone'[q] \in Nat /\ services[q].age \in Nat
      BY <2>2, RegistryAssumption DEF RegistryInv, RegistryOK, ServiceInfo, MaxAge
    <3> QED
      BY <2>1, <2>2, <3>1 DEF RegistryInv, RegistryFollowsProcesses
  <2>5. RegistryOK' /\ HealthFollowsHeartbeats'
    BY <2>1 DEF RegistryInv, RegistryOK, HealthFollowsHeartbeats, Overdue
  <2> QED
    BY <2>1, <2>2, <2>3, <2>4, <2>5 DEF RegistryInv, RegistryFollowsProcesses
<1>5. CASE GatewayRestarts
  BY <1>5, InitialRegistry
     DEF GatewayRestarts, RestartRegistry, processes, RegistryInv, RegistryFollowsProcesses
<1>6. ASSUME NEW r \in Requests,
             \/ Execute(r) \/ Respond(r) \/ ClientGivesUp(r)
             \/ \E name \in Names : Arrive(r, name)
             \/ Answer(r) \/ NetworkFails(r) \/ GiveUp(r)
      PROVE  RegistryInv'
  BY <1>1, <1>6 DEF Execute, Respond, ClientGivesUp, Arrive, Answer, NetworkFails,
                    GiveUp, registry, processes
<1>7. CASE Reset \/ UNCHANGED vars
  BY <1>1, <1>7 DEF Reset, vars, registry, processes
<1> QED
  BY <1>2, <1>3, <1>4, <1>5, <1>6, <1>7, LeaveKeepsRegistry, CheckKeepsRegistry,
     TickKeepsRegistry DEF Next

-----------------------------------------------------------------------------
(* The requests.                                                           *)

(* An action that changes one request changes its record to one of the     *)
(* type whose clock is right, or to nothing.                               *)
LEMMA OneRequestChanges ==
    ASSUME RequestInv, NEW r \in Requests, NEW q \in Request \cup {None},
           request' = [request EXCEPT ![r] = q], q # None => ClockOf(q)
    PROVE  RequestInv'
BY DEF RequestInv, UnderWay, ClockOf

LEMMA RequestsKnown ==
    ASSUME RequestInv, NEW r \in Requests, UnderWay(r)
    PROVE  /\ request[r] \in Request
           /\ ClockOf(request[r])
BY DEF RequestInv, UnderWay

(* Coming back, well or not, a request has spent ClientTimeout at the      *)
(* process at the most.                                                    *)
LEMMA BackKeepsClock ==
    ASSUME NEW q \in Request, ClockOf(q), NEW ok \in BOOLEAN
    PROVE  /\ Back(q, ok) \in Request /\ ClockOf(Back(q, ok))
           /\ Back(q, ok).waiting = q.waiting /\ Back(q, ok).at = "back"
<1> USE TimeoutAssumption
<1> DEFINE b == [waiting |-> q.waiting, left |-> q.left, at |-> "back", to |-> None,
                 inner |-> 0, ok |-> ok, wire |-> q.wire]
<1>1. /\ q.waiting \in BOOLEAN /\ q.left \in 0..Timeout
      /\ q.inner \in 0..ClientTimeout /\ q.wire \in 0..Timeout
      /\ q.at \in {"out", "process", "back"}
  BY DEF Request
<1>2. Back(q, ok) = b
  <2> DEFINE q1 == [q EXCEPT !.at = "back"]
             q2 == [q1 EXCEPT !.to = None]
             q3 == [q2 EXCEPT !.inner = 0]
             q4 == [q3 EXCEPT !.ok = ok]
  <2>1. Back(q, ok) = q4
    BY DEF Back
  <2>2. q1 = [q EXCEPT !.at = "back"] /\ q2 = [q1 EXCEPT !.to = None]
        /\ q3 = [q2 EXCEPT !.inner = 0] /\ q4 = [q3 EXCEPT !.ok = ok]
    OBVIOUS
  <2> HIDE DEF q1, q2, q3, q4
  <2>3. q1 = [waiting |-> q.waiting, left |-> q.left, at |-> "back", to |-> q.to,
              inner |-> q.inner, ok |-> q.ok, wire |-> q.wire]
    BY <2>2 DEF Request
  <2>4. q2 = [waiting |-> q.waiting, left |-> q.left, at |-> "back", to |-> None,
              inner |-> q.inner, ok |-> q.ok, wire |-> q.wire]
    BY <2>2, <2>3
  <2>5. q3 = [waiting |-> q.waiting, left |-> q.left, at |-> "back", to |-> None,
              inner |-> 0, ok |-> q.ok, wire |-> q.wire]
    BY <2>2, <2>4
  <2>6. q4 = b
    BY <2>2, <2>5
  <2> QED
    BY <2>1, <2>6
<1>3. b \in Request
  BY <1>1 DEF Request
<1>4. ClockOf(b)
  <2>1. q.waiting => q.left + q.wire \in (Timeout - ClientTimeout)..Timeout
    BY <1>1 DEF ClockOf
  <2> QED
    BY <2>1 DEF ClockOf
<1> QED
  BY <1>2, <1>3, <1>4

LEMMA TimeKeepsClock ==
    ASSUME NEW q \in Request, ClockOf(q), ~Due(q)
    PROVE  /\ Passed(q) \in Request /\ ClockOf(Passed(q))
           /\ Passed(q).waiting = q.waiting
<1> USE TimeoutAssumption
<1> DEFINE left  == IF q.waiting THEN q.left - 1 ELSE q.left
           inner == IF q.at = "process" THEN q.inner - 1 ELSE q.inner
           wire  == IF q.waiting /\ q.at # "process" THEN q.wire + 1 ELSE q.wire
           b == [waiting |-> q.waiting, left |-> left, at |-> q.at, to |-> q.to,
                 inner |-> inner, ok |-> q.ok, wire |-> wire]
<1>1. /\ q.waiting \in BOOLEAN /\ q.left \in 0..Timeout
      /\ q.inner \in 0..ClientTimeout /\ q.wire \in 0..Timeout
      /\ q.at \in {"out", "process", "back"}
      /\ q.to \in Providers \cup {None} /\ q.ok \in BOOLEAN
  BY DEF Request
<1>2. Passed(q) = b
  <2> DEFINE q1 == [q EXCEPT !.left = left]
             q2 == [q1 EXCEPT !.inner = inner]
             q3 == [q2 EXCEPT !.wire = wire]
  <2> HIDE DEF left, inner, wire
  <2>1. q1 = [waiting |-> q.waiting, left |-> left, at |-> q.at, to |-> q.to,
              inner |-> q.inner, ok |-> q.ok, wire |-> q.wire]
    BY DEF Request
  <2>2. q2 = [q1 EXCEPT !.inner = inner] /\ q3 = [q2 EXCEPT !.wire = wire]
    OBVIOUS
  <2>3. Passed(q) = q3
    <3>1. q1.at = q.at /\ q1.inner = q.inner /\ q1.waiting = q.waiting /\ q1.wire = q.wire
      BY <2>1
    <3> QED
      BY DEF Passed, left, inner, wire
  <2> HIDE DEF q1, q2, q3
  <2>4. q2 = [waiting |-> q.waiting, left |-> left, at |-> q.at, to |-> q.to,
              inner |-> inner, ok |-> q.ok, wire |-> q.wire]
    BY <2>1, <2>2
  <2>5. q3 = b
    BY <2>4 DEF q3
  <2> QED
    BY <2>3, <2>5
<1>3. (q.waiting => q.left > 0) /\ (q.at = "process" => q.inner > 0)
  BY <1>1 DEF Due
<1>4. left \in 0..Timeout /\ inner \in 0..ClientTimeout
  BY <1>1, <1>3
<1>5. q.waiting /\ q.at # "process" => q.wire < Timeout
  BY <1>1, <1>3 DEF ClockOf
<1>6. wire \in 0..Timeout
  BY <1>1, <1>5
<1>7. ClockOf(b)
  BY <1>1, <1>3 DEF ClockOf
<1> HIDE DEF left, inner, wire
<1>8. b \in Request /\ b.waiting = q.waiting
  BY <1>1, <1>4, <1>6 DEF Request
<1> HIDE DEF b
<1> QED
  BY <1>2, <1>7, <1>8

(* What becomes of a request that is passed on to process p.               *)
AtProcess(q, p) == [q EXCEPT !.at = "process", !.to = p, !.inner = ClientTimeout]

LEMMA SentKeepsClock ==
    ASSUME NEW q \in Request, ClockOf(q), q.at = "out", NEW p \in Providers
    PROVE  /\ AtProcess(q, p) \in Request /\ ClockOf(AtProcess(q, p))
           /\ AtProcess(q, p).waiting = q.waiting /\ AtProcess(q, p).to = p
<1> USE TimeoutAssumption
<1> DEFINE b == [waiting |-> q.waiting, left |-> q.left, at |-> "process", to |-> p,
                 inner |-> ClientTimeout, ok |-> q.ok, wire |-> q.wire]
<1>1. b \in Request /\ ClockOf(b)
  BY DEF Request, ClockOf
<1>2. AtProcess(q, p) = b
  <2> DEFINE q1 == [q EXCEPT !.at = "process"]
             q2 == [q1 EXCEPT !.to = p]
             q3 == [q2 EXCEPT !.inner = ClientTimeout]
  <2>1. AtProcess(q, p) = q3
    BY DEF AtProcess
  <2>2. q1 = [waiting |-> q.waiting, left |-> q.left, at |-> "process", to |-> q.to,
              inner |-> q.inner, ok |-> q.ok, wire |-> q.wire]
    BY DEF Request
  <2> HIDE DEF q1
  <2>3. q2 = [waiting |-> q.waiting, left |-> q.left, at |-> "process", to |-> p,
              inner |-> q.inner, ok |-> q.ok, wire |-> q.wire]
    BY <2>2
  <2> HIDE DEF q2
  <2>4. q3 = b
    BY <2>3
  <2> QED
    BY <2>1, <2>4
<1> QED
  BY <1>1, <1>2

(* Who is found in the registry by a name is not the gateway.              *)
LEMMA FoundIsProvider ==
    ASSUME RegistryInv, NEW name \in Names, NEW p \in GetServicesByName(name)
    PROVE  p \in Providers
BY RegistryAssumption
   DEF GetServicesByName, RegistryInv, RegistryOK, RegistryFollowsProcesses, Self

LEMMA RequestInductive == RegistryInv /\ RequestInv /\ [Next]_vars => RequestInv'
<1> SUFFICES ASSUME RegistryInv, RequestInv, [Next]_vars PROVE RequestInv'
  OBVIOUS
<1> USE TimeoutAssumption
<1>1. CASE UNCHANGED request
  BY <1>1 DEF RequestInv, UnderWay, ClockOf
<1>2. ASSUME NEW r \in Requests, Execute(r) PROVE RequestInv'
  <2> DEFINE q == [waiting |-> TRUE, left |-> Timeout, at |-> "out", to |-> None,
                   inner |-> 0, ok |-> FALSE, wire |-> 0]
  <2>1. q \in Request /\ ClockOf(q)
    BY DEF Request, ClockOf
  <2> HIDE DEF q
  <2>2. request' = [request EXCEPT ![r] = q]
    BY <1>2 DEF Execute, q
  <2> QED
    BY <2>1, <2>2, OneRequestChanges
<1>3. ASSUME NEW r \in Requests, NEW name \in Names, Arrive(r, name) PROVE RequestInv'
  <2>1. request[r] \in Request /\ ClockOf(request[r]) /\ request[r].at = "out"
    BY <1>3, RequestsKnown DEF Arrive, At
  <2>2. ASSUME NEW p \in GetServicesByName(name), Sent(r, p) PROVE RequestInv'
    <3>1. request' = [request EXCEPT ![r] = AtProcess(request[r], p)]
      BY <2>2 DEF Sent, SentFor, AtProcess
    <3> QED
      BY <2>1, <3>1, FoundIsProvider, SentKeepsClock, OneRequestChanges
  <2>3. CASE request' = [request EXCEPT ![r] = Back(@, FALSE)]
    BY <2>1, <2>3, BackKeepsClock, OneRequestChanges DEF RequestInv
  <2> QED
    BY <1>3, <2>2, <2>3 DEF Arrive
<1>4. ASSUME NEW r \in Requests, Respond(r) \/ ClientGivesUp(r) PROVE RequestInv'
  <2>1. request[r] \in Request /\ ClockOf(request[r])
    BY <1>4, RequestsKnown DEF Respond, ClientGivesUp, At
  <2>2. PICK ok \in BOOLEAN : request' = [request EXCEPT ![r] = Back(request[r], ok)]
    BY <1>4 DEF Respond, ClientGivesUp
  <2> QED
    BY <2>1, <2>2, BackKeepsClock, OneRequestChanges
<1>5. ASSUME NEW r \in Requests, Answer(r) \/ NetworkFails(r) PROVE RequestInv'
  BY <1>5, OneRequestChanges DEF Answer, NetworkFails
<1>6. ASSUME NEW r \in Requests, GiveUp(r) PROVE RequestInv'
  <2>1. request[r] \in Request /\ ClockOf(request[r])
        /\ request[r].waiting /\ request[r].left = 0
    BY <1>6, RequestsKnown DEF GiveUp
  <2> DEFINE q == [request[r] EXCEPT !.waiting = FALSE]
  <2>2. q \in Request
    BY <2>1 DEF Request
  <2>3. q.wire >= Timeout - ClientTimeout /\ ~q.waiting
    <3>1. /\ request[r].wire \in 0..Timeout /\ request[r].inner \in 0..ClientTimeout
          /\ request[r].at \in {"out", "process", "back"}
      BY <2>1 DEF Request
    <3>2. request[r].wire >= Timeout - ClientTimeout
      BY <2>1, <3>1 DEF ClockOf
    <3> QED
      BY <2>1, <3>2 DEF Request
  <2>4. ClockOf(q)
    BY <2>3 DEF ClockOf
  <2>5. request' = [request EXCEPT ![r] = q]
    BY <1>6 DEF GiveUp, RequestInv
  <2> HIDE DEF q
  <2> QED
    BY <2>2, <2>4, <2>5, OneRequestChanges
<1>7. CASE GatewayRestarts
  <2>1. \A r \in Requests :
           request'[r] = IF At(r, "process") THEN Back(request[r], FALSE) ELSE request[r]
    BY <1>7 DEF GatewayRestarts
  <2>2. \A r \in Requests : /\ request'[r] \in Request \cup {None}
                            /\ request'[r] # None => ClockOf(request'[r])
    BY <2>1, BackKeepsClock DEF RequestInv, At, UnderWay
  <2> QED
    BY <1>7, <2>2 DEF GatewayRestarts, RequestInv, UnderWay, ClockOf
<1>8. CASE Tick
  <2>1. \A r \in Requests :
           /\ UnderWay(r) => ~Due(request[r])
           /\ request'[r] = IF UnderWay(r) THEN Passed(request[r]) ELSE None
    BY <1>8 DEF Tick
  <2>2. \A r \in Requests : /\ request'[r] \in Request \cup {None}
                            /\ request'[r] # None => ClockOf(request'[r])
    BY <2>1, TimeKeepsClock DEF RequestInv, UnderWay
  <2> QED
    BY <1>8, <2>2 DEF Tick, RequestInv, UnderWay, ClockOf
<1> QED
  BY <1>1, <1>2, <1>3, <1>4, <1>5, <1>6, <1>7, <1>8
     DEF Next, Announce, Leave, Beat, Die, Rise, Check, Reset, vars

-----------------------------------------------------------------------------
(* The breaker.                                                            *)

LEMMA SuccessKeepsBreaker == BreakerInv /\ ToldSuccess => BreakerInv'
BY BreakerAssumption
   DEF BreakerInv, BreakerOK, CountsFollowHistory, ToldSuccess, OnSuccess, Succeeded, Later

LEMMA FailureKeepsBreaker == BreakerInv /\ ToldFailure => BreakerInv'
BY BreakerAssumption
   DEF BreakerInv, BreakerOK, CountsFollowHistory, ToldFailure, OnFailure, FailedIn,
       Smaller, Later

LEMMA BreakerInductive == BreakerInv /\ [Next]_vars => BreakerInv'
<1> SUFFICES ASSUME BreakerInv, [Next]_vars PROVE BreakerInv'
  OBVIOUS
<1>1. CASE UNCHANGED <<breaker, history>>
  BY <1>1 DEF breaker, history, BreakerInv, BreakerOK, CountsFollowHistory
<1>2. ASSUME NEW r \in Requests, Execute(r) PROVE BreakerInv'
  BY <1>2, BreakerAssumption
     DEF Execute, Admit, AdmitWith, Refuses, BreakerInv, BreakerOK, CountsFollowHistory
<1>3. ASSUME NEW r \in Requests, Answer(r) \/ NetworkFails(r) \/ GiveUp(r)
      PROVE  BreakerInv'
  <2>1. ToldSuccess \/ ToldFailure \/ UNCHANGED <<breaker, history>>
    BY <1>3 DEF Answer, NetworkFails, GiveUp
  <2> QED
    BY <1>1, <2>1, SuccessKeepsBreaker, FailureKeepsBreaker
<1>4. CASE Reset
  BY <1>4, BreakerAssumption
     DEF Reset, ResetBreaker, BreakerInv, BreakerOK, CountsFollowHistory
<1>5. CASE Tick
  <2>1. /\ wait' = IF wait > 0 THEN wait - 1 ELSE 0
        /\ calm' = Later(calm, ResetTimeout)
        /\ UNCHANGED <<state, failureCount, successCount, streak, wins, mercy>>
    BY <1>5 DEF Tick, BreakerTick
  <2> QED
    BY <2>1, BreakerAssumption DEF BreakerInv, BreakerOK, CountsFollowHistory, Later
<1> QED
  BY <1>1, <1>2, <1>3, <1>4, <1>5
     DEF Next, Announce, Leave, Beat, Die, Rise, Check, GatewayRestarts, Arrive, Respond,
         ClientGivesUp, vars

-----------------------------------------------------------------------------
(* The three together, and what follows from them.                         *)

LEMMA InitInv == Init => Inv
<1> SUFFICES ASSUME Init PROVE Inv
  OBVIOUS
<1>1. BreakerInv
  <2>1. /\ state = "CLOSED" /\ failureCount = 0 /\ successCount = 0 /\ wait = 0
        /\ streak = 0 /\ wins = 0 /\ mercy = FALSE /\ calm = 0
    BY DEF Init, InitBreaker
  <2>2. BreakerOK /\ CountsFollowHistory
    BY <2>1, BreakerAssumption DEF BreakerOK, CountsFollowHistory
  <2>3. streak \in 0..FailureThreshold /\ wins \in 0..SuccessThreshold
        /\ calm \in 0..ResetTimeout
    BY <2>1, BreakerAssumption
  <2>4. mercy \in BOOLEAN
    BY <2>1
  <2> QED
    BY <2>2, <2>3, <2>4 DEF BreakerInv
<1> USE RegistryAssumption, TimeoutAssumption
<1>2. /\ DOMAIN services = {Self} /\ services[Self] = Fresh("api-gateway")
      /\ checkIn = HeartbeatInterval
  BY DEF Init, InitRegistry, InitialServices
<1>3. RegistryOK /\ HealthFollowsHeartbeats
  BY <1>2 DEF RegistryOK, HealthFollowsHeartbeats, Fresh, ServiceInfo, MaxAge
<1>4. RegistryFollowsProcesses
  <2>1. IsFiniteSet({Self})
    BY FS_Singleton
  <2>2. Providers \cap DOMAIN services = {}
    BY <1>2 DEF Self
  <2> QED
    BY <1>2, <2>1, <2>2 DEF RegistryFollowsProcesses, Fresh, Init
<1>5. RegistryInv
  BY <1>3, <1>4 DEF RegistryInv, Init, MaxAge
<1>6. RequestInv
  BY DEF RequestInv, Init, UnderWay
<1> QED
  BY <1>1, <1>5, <1>6 DEF Inv

(* Registry, requests and breaker keep their invariants in every           *)
(* behaviour of src/microservices and src/patterns/circuit-breaker.ts.     *)
THEOREM InvHolds == Spec => []Inv
<1>1. Inv /\ [Next]_vars => Inv'
  BY RegistryInductive, RequestInductive, BreakerInductive DEF Inv
<1> QED
  BY <1>1, InitInv, PTL DEF Spec

LEMMA ReadyFromInv == RegistryInv => ReadyThanksToOthers
<1> SUFFICES ASSUME RegistryInv, services[Self].age > 3 * HeartbeatInterval, IsReady
             PROVE  \E p \in DOMAIN services \cap entered : services[p].health = "healthy"
  BY DEF ReadyThanksToOthers
<1> USE RegistryAssumption
<1>1. /\ Self \in DOMAIN services /\ IsFiniteSet(DOMAIN services)
      /\ DOMAIN services \subseteq entered \cup {Self}
  BY DEF RegistryInv, RegistryFollowsProcesses
<1>2. services[Self].health # "healthy"
  BY <1>1 DEF RegistryInv, RegistryOK, HealthFollowsHeartbeats, ServiceInfo, MaxAge
<1>3. Cardinality(DOMAIN services) \in Nat /\ Cardinality(DOMAIN services) # 0
  BY <1>1, FS_CardinalityType, FS_EmptySet
<1>4. Cardinality(HealthyServices) # 0
  BY <1>3, FS_EmptySet DEF IsReady, GetAllServices
<1>5. HealthyServices # {}
  BY <1>4, FS_EmptySet
<1> QED
  BY <1>1, <1>2, <1>5 DEF HealthyServices, GetAllServices

(* In every state, whatever came before: the registry says what the        *)
(* heartbeats told it, an instance that is ready owes it to another        *)
(* process once it has run for three periods, and no sender gives up       *)
(* before the client of its service does.                                  *)
THEOREM Sound == Spec => []RegistryIsSound
<1>1. Inv => TypeOK
  BY DEF Inv, RegistryInv, RequestInv, BreakerInv, TypeOK
<1>2. Inv => InnerTimeoutComesFirst
  BY DEF Inv, RequestInv, ClockOf, InnerTimeoutComesFirst
<1>3. Inv => RegistryIsSound
  BY <1>1, <1>2, ReadyFromInv DEF Inv, RegistryInv, RegistryIsSound
<1> QED
  BY <1>3, InvHolds, PTL

-----------------------------------------------------------------------------
(* Who is called.                                                          *)

(* A call goes to a process of the registry that is listed as healthy.     *)
LEMMA PickedFromRegistry ==
    ASSUME Inv, [Next]_vars, NEW r \in Requests, NEW p \in Providers, Picked(r, p)
    PROVE  p \in DOMAIN services /\ services[p].health = "healthy"
<1> USE TimeoutAssumption
<1>1. request[r] \in Request /\ request[r].at = "out" /\ request[r] # None
  BY RequestsKnown DEF Inv, Picked, At, UnderWay
<1>2. request'[r] # None /\ request'[r].at = "process" /\ request'[r].to = p
  BY DEF Picked, UnderWay
<1>3. request \in [Requests -> Request \cup {None}]
  BY DEF Inv, RequestInv
<1>4. request'[r] # request[r]
  BY <1>1, <1>2
<1>5. ASSUME NEW s \in Requests, NEW q, request' = [request EXCEPT ![s] = q]
      PROVE  s = r /\ q = request'[r]
  BY <1>3, <1>4, <1>5
<1>6. ASSUME NEW s \in Requests, NEW name \in Names, Arrive(s, name)
      PROVE  p \in DOMAIN services /\ services[p].health = "healthy"
  <2>1. CASE request' = [request EXCEPT ![s] = Back(request[s], FALSE)]
    <3>1. Back(request[r], FALSE).at = "back"
      BY <1>1, BackKeepsClock, RequestsKnown DEF Inv, UnderWay
    <3> QED
      BY <1>2, <1>5, <2>1, <3>1
  <2>2. ASSUME NEW i \in GetServicesByName(name), Sent(s, i)
        PROVE  p \in DOMAIN services /\ services[p].health = "healthy"
    <3>1. s = r /\ request'[r] = AtProcess(request[r], i)
      BY <1>5, <2>2 DEF Sent, SentFor, AtProcess
    <3>2. AtProcess(request[r], i).to = i
      BY <1>1, FoundIsProvider, SentKeepsClock, RequestsKnown DEF Inv, UnderWay
    <3> QED
      BY <1>2, <3>1, <3>2 DEF GetServicesByName
  <2> QED
    BY <1>6, <2>1, <2>2 DEF Arrive
<1>7. ASSUME NEW s \in Requests, Respond(s) \/ ClientGivesUp(s) \/ GiveUp(s) PROVE FALSE
  <2>1. request[s].at = "out" => GiveUp(s)
    BY <1>7 DEF Respond, ClientGivesUp, At
  <2>2. s = r
    BY <1>3, <1>4, <1>7 DEF Respond, ClientGivesUp, GiveUp
  <2>3. request'[r] = [request[r] EXCEPT !.waiting = FALSE]
    BY <1>1, <1>3, <1>7, <2>1, <2>2 DEF GiveUp
  <2> QED
    BY <1>1, <1>2, <2>3 DEF Request
<1>8. ASSUME NEW s \in Requests, Execute(s) \/ Answer(s) \/ NetworkFails(s) PROVE FALSE
  BY <1>1, <1>2, <1>3, <1>8 DEF Execute, Answer, NetworkFails, UnderWay
<1>9. CASE Tick
  <2>1. request'[r] = Passed(request[r])
    BY <1>1, <1>9 DEF Tick, UnderWay
  <2>2. Passed(request[r]).at = request[r].at
    BY <1>1 DEF Passed, Request
  <2> QED
    BY <1>1, <1>2, <2>1, <2>2
<1>10. CASE GatewayRestarts
  BY <1>1, <1>4, <1>10 DEF GatewayRestarts, At
<1>11. request' # request
  BY <1>4
<1> QED
  BY <1>6, <1>7, <1>8, <1>9, <1>10, <1>11
     DEF Next, Announce, Leave, Beat, Die, Rise, Check, Reset, vars

(* Whatever the order of announcements, heartbeats, checks, deaths and     *)
(* restarts: a process is called only after it has announced itself to     *)
(* this gateway, and no later than three periods after it stopped.         *)
THEOREM LivingCalled == Spec => CallsReachTheLiving
<1>1. ASSUME Inv, [Next]_vars, NEW r \in Requests, NEW p \in Providers, Picked(r, p)
      PROVE  gone[p] <= 3 * HeartbeatInterval /\ p \in entered
  <2>1. p \in DOMAIN services /\ services[p].health = "healthy"
    BY <1>1, PickedFromRegistry
  <2>2. /\ services[p].age \in Nat /\ checkIn \in Nat /\ gone[p] \in Nat
        /\ p \in Providers \cap DOMAIN services
    BY <1>1, <2>1, RegistryAssumption
       DEF Inv, RegistryInv, RegistryOK, ServiceInfo, MaxAge
  <2>3. gone[p] <= services[p].age /\ services[p].age + checkIn <= 3 * HeartbeatInterval
    BY <1>1, <2>1, <2>2
       DEF Inv, RegistryInv, RegistryFollowsProcesses, HealthFollowsHeartbeats
  <2>4. p # Self
    BY RegistryAssumption DEF Self
  <2> QED
    BY <1>1, <2>1, <2>2, <2>3, <2>4, RegistryAssumption
       DEF Inv, RegistryInv, RegistryFollowsProcesses
<1>2. Inv /\ [Next]_vars => [TheDeadAreForgotten /\ OnlyTheEnteredAreCalled]_vars
  BY <1>1 DEF TheDeadAreForgotten, OnlyTheEnteredAreCalled
<1> QED
  BY <1>2, InvHolds, PTL DEF Spec, CallsReachTheLiving

-----------------------------------------------------------------------------
(* Why the breaker moves.                                                  *)

(* A sender stops waiting only when the breaker is told.                   *)
LEMMA WaitingEndsTold ==
    ASSUME Inv, [Next]_vars
    PROVE  ToldSuccess \/ ToldFailure \/ Waiting \subseteq Waiting'
<1> USE TimeoutAssumption, NoneAssumption
<1>1. request \in [Requests -> Request \cup {None}]
  BY DEF Inv, RequestInv
<1>2. ASSUME \A s \in Waiting : request'[s] \in Request /\ request'[s].waiting
      PROVE  Waiting \subseteq Waiting'
  BY <1>2 DEF Waiting, UnderWay
<1>3. ASSUME NEW s \in Waiting
      PROVE  request[s] \in Request /\ request[s].waiting /\ ClockOf(request[s])
  BY RequestsKnown DEF Waiting, Inv
<1>4. ASSUME NEW s \in Waiting, NEW ok \in BOOLEAN
      PROVE  Back(request[s], ok) \in Request /\ Back(request[s], ok).waiting
  BY <1>3, BackKeepsClock
<1>5. CASE UNCHANGED request
  BY <1>5 DEF Waiting, UnderWay
<1>6. ASSUME NEW r \in Requests, Execute(r) PROVE Waiting \subseteq Waiting'
  BY <1>1, <1>2, <1>3, <1>6 DEF Execute, Waiting
<1>7. ASSUME NEW r \in Requests, NEW name \in Names, Arrive(r, name)
      PROVE  Waiting \subseteq Waiting'
  <2>1. CASE request' = [request EXCEPT ![r] = Back(@, FALSE)]
    BY <1>1, <1>2, <1>3, <1>4, <2>1 DEF Waiting
  <2>2. ASSUME NEW i \in GetServicesByName(name), Sent(r, i)
        PROVE  Waiting \subseteq Waiting'
    <3>1. request' = [request EXCEPT ![r] = AtProcess(request[r], i)]
      BY <2>2 DEF Sent, SentFor, AtProcess
    <3>2. r \in Waiting => /\ AtProcess(request[r], i) \in Request
                          /\ AtProcess(request[r], i).waiting
      BY <1>3, <1>7, FoundIsProvider, SentKeepsClock DEF Arrive, At, Inv
    <3> QED
      BY <1>1, <1>2, <1>3, <3>1, <3>2 DEF Waiting
  <2> QED
    BY <1>7, <2>1, <2>2 DEF Arrive
<1>8. ASSUME NEW r \in Requests, Respond(r) \/ ClientGivesUp(r)
      PROVE  Waiting \subseteq Waiting'
  <2>1. PICK ok \in BOOLEAN : request' = [request EXCEPT ![r] = Back(request[r], ok)]
    BY <1>8 DEF Respond, ClientGivesUp
  <2> QED
    BY <1>1, <1>2, <1>3, <1>4, <2>1 DEF Waiting
<1>9. ASSUME NEW r \in Requests, Answer(r) \/ NetworkFails(r) \/ GiveUp(r)
      PROVE  ToldSuccess \/ ToldFailure \/ Waiting \subseteq Waiting'
  <2>1. CASE request[r].waiting
    BY <1>9, <2>1 DEF Answer, NetworkFails, GiveUp
  <2>2. CASE ~request[r].waiting
    BY <1>1, <1>2, <1>3, <1>9, <2>2 DEF Answer, NetworkFails, GiveUp, Waiting
  <2> QED
    BY <2>1, <2>2
<1>10. CASE GatewayRestarts
  BY <1>2, <1>3, <1>4, <1>10 DEF GatewayRestarts, Waiting
<1>11. CASE Tick
  <2>1. \A s \in Waiting : UnderWay(s) /\ request'[s] = Passed(request[s])
    BY <1>11 DEF Tick, Waiting
  <2>2. \A s \in Waiting : Passed(request[s]) \in Request /\ Passed(request[s]).waiting
    BY <1>3, <1>11, TimeKeepsClock DEF Tick, Waiting
  <2> QED
    BY <1>2, <2>1, <2>2
<1> QED
  BY <1>5, <1>6, <1>7, <1>8, <1>9, <1>10, <1>11
     DEF Next, Announce, Leave, Beat, Die, Rise, Check, Reset, vars

(* What an action may do to the state of the breaker.                      *)
LEMMA BreakerSteps ==
    ASSUME [Next]_vars
    PROVE  \/ UNCHANGED state
           \/ Admit
           \/ ToldSuccess
           \/ ToldFailure
           \/ ResetBreaker /\ UNCHANGED request
<1>1. CASE UNCHANGED vars
  BY <1>1 DEF vars, breaker
<1>2. CASE Next
  BY <1>2 DEF Next, Announce, Leave, Beat, Die, Rise, Check, GatewayRestarts, Execute,
         Arrive, Respond, ClientGivesUp, Answer, NetworkFails, GiveUp, Reset, Tick,
         BreakerTick, breaker
<1> QED
  BY <1>1, <1>2

(* Whatever requests are under way, however late their answers come: a     *)
(* closed breaker opens only after FailureThreshold failures in a row; a   *)
(* half-open one is closed by a call only after SuccessThreshold successes *)
(* told since, and opened by a failure that is told to it, unless a        *)
(* success has been told since it was opened; and it tries no sooner than  *)
(* ResetTimeout after the failures that keep it open.                      *)
THEOREM MovesForAReason == Spec => BreakerMovesForAReason
<1> USE BreakerAssumption DEF BreakerInv, BreakerOK, CountsFollowHistory
<1>1. ASSUME Inv, [Next]_vars PROVE OpensOnConsecutiveFailures
  BY <1>1, BreakerSteps
     DEF Inv, OpensOnConsecutiveFailures, Admit, AdmitWith, ToldSuccess, OnSuccess,
         Succeeded, ToldFailure, OnFailure, FailedIn, Later, ResetBreaker
<1>2. ASSUME Inv, [Next]_vars PROVE ClosedByNewSuccesses
  <2>1. SUFFICES ASSUME state = "HALF_OPEN", state' = "CLOSED", request' # request
                 PROVE  wins' >= SuccessThreshold
    BY DEF ClosedByNewSuccesses
  <2>2. ToldSuccess
    BY <1>2, <2>1, BreakerSteps DEF Admit, AdmitWith, ToldFailure, OnFailure, FailedIn
  <2> QED
    BY <1>2, <2>1, <2>2 DEF Inv, ToldSuccess, OnSuccess, Succeeded, Later
<1>3. ASSUME Inv, [Next]_vars PROVE FailedTrialReopens
  <2>1. SUFFICES ASSUME state = "HALF_OPEN", ~mercy, ~(Waiting \subseteq Waiting'),
                        streak' > 0
                 PROVE  state' = "OPEN"
    BY DEF FailedTrialReopens
  <2>2. ToldFailure
    <3>1. ToldSuccess \/ ToldFailure
      BY <1>3, <2>1, WaitingEndsTold, Zenon
    <3> QED
      BY <2>1, <3>1 DEF ToldSuccess
  <2>3. failureCount = FailureThreshold
    BY <1>3, <2>1 DEF Inv
  <2> QED
    BY <2>1, <2>2, <2>3 DEF ToldFailure, OnFailure, FailedIn
<1>4. ASSUME Inv, [Next]_vars PROVE TrialsKeepDistance
  BY <1>4, BreakerSteps
     DEF Inv, TrialsKeepDistance, Admit, AdmitWith, Refuses, ToldSuccess, OnSuccess,
         Succeeded, ToldFailure, OnFailure, FailedIn, ResetBreaker
<1>5. Inv /\ [Next]_vars
         => [/\ OpensOnConsecutiveFailures /\ ClosedByNewSuccesses
             /\ FailedTrialReopens /\ TrialsKeepDistance]_vars
  BY <1>1, <1>2, <1>3, <1>4
<1> QED
  BY <1>5, InvHolds, PTL DEF Spec, BreakerMovesForAReason

-----------------------------------------------------------------------------
(***************************************************************************)
(* Maintenance.                                                            *)
(***************************************************************************)

Ops == {"idle", "create", "delete", "restore", "verify"}
Saving == {"saveRead", "saveCut", "saveWrite"}
Early == {"open", "copy"} \cup Saving
Dropping == {"dropRead", "dropCut", "dropWrite"}
Removing == {"find", "unlink"} \cup Dropping
GoingBack == {"backCut", "backCopy", "backTidy"}
Pcs == {"idle", "clean", "sum", "safeCut", "safeCopy", "pipe", "flow", "tidy"}
           \cup Early \cup Removing \cup GoingBack
CallType == [op : Ops, pc : Pcs, id : 0 .. MaxIds, snap : File \cup {NoFile},
             read : SUBSET Entry, todo : SUBSET Id]

Creating(c) == calls[c].op = "create"

(* Where a call of each kind can stand.                                    *)
StepsFit(k) ==
    /\ k.pc \in {"copy", "safeCopy", "flow"} \cup Saving => k.snap \in File
    /\ \/ k.op = "idle" /\ k.pc = "idle"
       \/ k.op = "create" /\ k.pc \in Early \cup {"clean"}
       \/ k.op = "create" /\ k.pc \in Removing /\ k.todo # {}
       \/ k.op = "delete" /\ k.pc \in Removing
       \/ k.op = "restore"
            /\ k.pc \in {"find", "safeCut", "safeCopy", "pipe", "flow", "tidy"} \cup GoingBack
       \/ k.op = "verify" /\ k.pc \in {"find", "sum"}

CallsFit ==
    /\ calls \in [Callers -> CallType]
    /\ \A c \in Callers :
          /\ StepsFit(calls[c])
          /\ Busy(c) => calls[c].id \in 1 .. begun.ids
          /\ calls[c].op = "delete" => "deletion" \in incidents

DiskFits ==
    /\ db \in File /\ temp \in File \cup {NoFile}
    /\ files \in [DOMAIN files -> File] /\ DOMAIN files \subseteq 1 .. begun.ids
    /\ meta \in SUBSET Entry
    /\ begun \in [calls : Nat, ids : 0 .. MaxIds]
    /\ serving \in BOOLEAN /\ deployed \in 0 .. Len(Files)

(* The first n files have been executed in d, and nothing else is there    *)
(* but what every start makes, unless there was a rollback.                *)
Executes(d, n, past) ==
    /\ d.rows = {Row(Files[i]) : i \in 1 .. n}
    /\ \A i \in 1 .. n : Files[i].valid /\ ObjectsOf(Files[i]) \subseteq d.schema
    /\ "rollback" \notin past =>
          d.schema \subseteq Range(Tables) \cup UNION {ObjectsOf(Files[i]) : i \in 1 .. n}
Good(d, past) == d \in Database /\ \E n \in 0 .. Len(Files) : Executes(d, n, past)
Explained(x, past) == x \in {Torn, NoFile} \/ Good(x, past)

DatabasesFit ==
    /\ Explained(db, incidents) /\ Explained(temp, incidents)
    /\ \A i \in DOMAIN files : Explained(files[i], incidents)
    /\ \A c \in Callers : Explained(calls[c].snap, incidents)

(* Entries that are listed, or have been read and may be written again.    *)
Known == {e \in Entry : e \in meta \/ \E c \in Callers : e \in calls[c].read}

(* A backup is entered once, after its file is there.                      *)
EntriesFit ==
    /\ \A e \in Known : e.id <= begun.ids
    /\ \A e, f \in Known : e.id = f.id => e = f
    /\ \A c, x \in Callers :
          Creating(c) /\ Creating(x) /\ calls[c].id = calls[x].id => c = x
    /\ \A c \in Callers : Creating(c) /\ calls[c].pc \in Early =>
          \A e \in Known : e.id # calls[c].id
    /\ \A c \in Callers : calls[c].pc = "open" => calls[c].id \notin DOMAIN files
    /\ \A c, x \in Callers : \A n \in calls[c].todo :
          n <= begun.ids /\ (Creating(x) /\ calls[x].pc \in Early => n # calls[x].id)

OneByOneCalls ==
    "overlap" \notin incidents => \A c, x \in Callers : Busy(c) /\ Busy(x) => c = x

Intact == incidents \cap {"overlap", "cutRestore"} = {}

(* How far the way of a restore has led the database and the safety copy.  *)
SafetyCopyFits(c) ==
    /\ calls[c].pc \in {"find", "safeCut"} => Whole /\ temp = NoFile
    /\ calls[c].pc \in {"safeCut", "safeCopy", "pipe"} => calls[c].id \in Ids(meta)
    /\ calls[c].pc = "safeCopy" => Whole /\ calls[c].snap = db
    /\ calls[c].pc \in {"pipe", "tidy", "backTidy"} => Whole
    /\ calls[c].pc = "flow" => calls[c].snap \in Contents
    /\ calls[c].pc \in {"pipe", "flow", "tidy", "backCopy", "backTidy"} => temp \in Contents
    /\ calls[c].pc = "backCut" => temp \in Contents \/ (Whole /\ temp = NoFile)
RestoresFit ==
    Intact =>
        /\ (\A c \in Callers : ~Restoring(c)) => Whole /\ temp = NoFile
        /\ \A c \in Callers : Restoring(c) => SafetyCopyFits(c)

(* A file that has been or will be entered is whole.                       *)
BackupsFit ==
    Intact =>
        /\ \A e \in Known : e.id \in DOMAIN files => files[e.id] \in Contents
        /\ \A c \in Callers : Creating(c) =>
              /\ calls[c].pc = "copy" => calls[c].snap = db
              /\ calls[c].pc \in Saving /\ calls[c].id \in DOMAIN files
                    => files[calls[c].id] \in Contents

(* The list names the files ids, and has their checksums.                  *)
Exact(list, ids) == Ids(list) = ids /\ \A e \in list : e.checksum = files[e.id]
Few(ids) == Cardinality(ids) <= MaxBackups
Tidy == Exact(meta, DOMAIN files) /\ Few(DOMAIN files)

CreationFits(c) ==
    LET k == calls[c]
        rest == DOMAIN files \ {k.id}
    IN /\ k.id = begun.ids
       /\ IF k.pc = "open" THEN Tidy ELSE k.id \in DOMAIN files
       /\ k.pc \in Saving => files[k.id] = k.snap
       /\ k.pc \in {"copy", "saveRead"} => Exact(meta, rest)
       /\ k.pc \in {"saveCut", "saveWrite"} => Exact(k.read, rest)
       /\ k.pc = "saveWrite" => meta = {}
       /\ k.pc = "clean" => Exact(meta, DOMAIN files)
       /\ Few(IF k.pc \in Dropping THEN DOMAIN files ELSE rest)
       /\ k.pc \in Removing => k.id \notin k.todo
       /\ k.pc \in {"find", "unlink"} => k.todo \subseteq DOMAIN files
RemovalFits(c) ==
    /\ calls[c].pc \in {"find", "unlink"} => Exact(meta, DOMAIN files)
    /\ calls[c].pc = "unlink" => Doomed(c) \in DOMAIN files
    /\ calls[c].pc \in Dropping => Doomed(c) \notin DOMAIN files
    /\ calls[c].pc = "dropRead" => Exact(Others(meta, Doomed(c)), DOMAIN files)
    /\ calls[c].pc \in {"dropCut", "dropWrite"}
          => Exact(Others(calls[c].read, Doomed(c)), DOMAIN files)
    /\ calls[c].pc = "dropWrite" => meta = {}
UseFits(c) ==
    LET k == calls[c]
    IN /\ Tidy /\ k.pc \notin {"backCopy", "backTidy"}
       /\ k.pc # "find" => k.id \in DOMAIN files
       /\ k.pc = "flow" => k.snap = files[k.id]
       /\ k.pc \in {"tidy", "backCut"} => db = files[k.id]
       /\ k.pc = "backCut" => temp = NoFile
       /\ k.pc = "sum" => k.read = GetBackupMetadata(k.id)

DirectoryFits ==
    Undisturbed =>
        /\ (\A c \in Callers : ~Busy(c)) => Tidy
        /\ \A c \in Callers :
              /\ Creating(c) => CreationFits(c)
              /\ calls[c].op = "delete" => Few(DOMAIN files)
              /\ calls[c].op \in {"create", "delete"} => RemovalFits(c)
              /\ calls[c].op \in {"restore", "verify"} => UseFits(c)

(* A whole file from n on; as long as nothing was deleted or cut off, the  *)
(* newest backup that was ever entered, or a newer one, stays.             *)
HasFrom(n) == \E i \in DOMAIN files : i >= n /\ Complete(i)
NewestStays ==
    incidents \cap {"deletion", "crash"} = {} =>
        /\ \A e \in Known : HasFrom(e.id)
        /\ \A c \in Callers : Creating(c) =>
              /\ calls[c].pc = "copy" => calls[c].id \in DOMAIN files
              /\ calls[c].pc \in Saving => HasFrom(calls[c].id)
              /\ calls[c].pc \in Removing => \A n \in calls[c].todo : HasFrom(n + 1)

MaintenanceInv ==
    /\ CallsFit /\ DiskFits /\ DatabasesFit /\ EntriesFit /\ OneByOneCalls
    /\ RestoresFit /\ BackupsFit /\ DirectoryFits /\ NewestStays

-----------------------------------------------------------------------------
(* The migrator.                                                           *)

LEMMA FilesFacts ==
    /\ Len(Files) \in Nat /\ DOMAIN Files = 1 .. Len(Files)
    /\ Range(Files) = {Files[i] : i \in 1 .. Len(Files)}
    /\ Files \in Seq(Range(Files))
    /\ \A i \in 1 .. Len(Files) : Files[i].id \in Nat
    /\ \A i, j \in 1 .. Len(Files) : Files[i].name = Files[j].name => i = j
  BY FilesAssumption DEF Range

(* A set of numbers that has all below each of its members.                *)
LEMMA DownwardClosed ==
    ASSUME NEW n \in Nat, NEW S \in SUBSET (1 .. n),
           \A i \in S : \A j \in 1 .. i : j \in S
    PROVE  \E m \in 0 .. n : S = 1 .. m
<1> DEFINE T == 1 .. (n + 1) \ S
<1>1. T \in SUBSET Nat /\ n + 1 \in T
  OBVIOUS
<1>2. PICK m \in T : \A k \in T : m <= k
  BY <1>1, LeastMember
<1>3. m \in 1 .. n + 1 /\ m \notin S
  OBVIOUS
<1>4. ASSUME NEW k \in 1 .. n, k < m
      PROVE  k \in S
  <2>1. k \notin T
    BY <1>2, <1>3, <1>4 DEF T
  <2> QED
    BY <2>1, <1>4 DEF T
<1>5. \A k \in S : k < m
  BY <1>3
<1>6. S = 1 .. m - 1
  <2>1. \A k \in S : k \in 1 .. m - 1
    BY <1>3, <1>5
  <2>2. \A k \in 1 .. m - 1 : k \in S
    BY <1>3, <1>4
  <2> QED
    BY <2>1, <2>2
<1>7. m - 1 \in 0 .. n
  BY <1>3
<1> HIDE DEF T
<1> QED
  BY <1>6, <1>7

LEMMA GoodStays ==
    ASSUME NEW past, NEW more, past \subseteq more, NEW x, Explained(x, past)
    PROVE  Explained(x, more)
  BY DEF Explained, Good, Executes

LEMMA ExecutedFirst ==
    ASSUME NEW d, NEW past, NEW n \in 0 .. Len(Files), Executes(d, n, past)
    PROVE  /\ \A i \in 1 .. Len(Files) : Files[i].name \in Executed(d) <=> i <= n
           /\ \A i \in 1 .. n : i \in Reachable
<1>1. \A i \in 1 .. Len(Files) : i <= n => Files[i].name \in Executed(d)
  <2> SUFFICES ASSUME NEW i \in 1 .. Len(Files), i <= n PROVE Files[i].name \in Executed(d)
    OBVIOUS
  <2>1. i \in 1 .. n
    BY FilesFacts
  <2>2. Row(Files[i]) \in d.rows /\ Row(Files[i]).file = Files[i].name
    BY <2>1 DEF Executes, Row
  <2> QED
    BY <2>2 DEF Executed
<1>2. \A i \in 1 .. Len(Files) : Files[i].name \in Executed(d) => i <= n
  <2> SUFFICES ASSUME NEW i \in 1 .. Len(Files), Files[i].name \in Executed(d) PROVE i <= n
    OBVIOUS
  <2>1. PICK j \in 1 .. n : Files[i].name = Row(Files[j]).file
    BY DEF Executed, Executes
  <2>2. j \in 1 .. Len(Files) /\ Files[i].name = Files[j].name
    BY <2>1, FilesFacts DEF Row
  <2> QED
    BY <2>2, FilesFacts
<1>3. \A i \in 1 .. n : i \in Reachable
  BY FilesFacts DEF Executes, Reachable
<1> QED
  BY <1>1, <1>2, <1>3

(* What comes next in the directory, from the file after the n-th on.      *)
Follows(g, n) ==
    /\ Len(g) \in Nat /\ DOMAIN g = 1 .. Len(g) /\ n + Len(g) <= Len(Files)
    /\ \A j \in 1 .. Len(g) : g[j] = Files[n + j]

LEMMA FirstOfNext ==
    ASSUME NEW n \in 0 .. Len(Files), NEW g, Follows(g, n), NEW k \in 0 .. Len(g)
    PROVE  FirstFiles(g, k) = {Files[i] : i \in n + 1 .. n + k}
<1>1. \A j \in 1 .. k : g[j] = Files[n + j] /\ n + j \in n + 1 .. n + k
  BY FilesFacts DEF Follows
<1>2. \A i \in n + 1 .. n + k : i - n \in 1 .. k /\ Files[i] = g[i - n]
  <2> SUFFICES ASSUME NEW i \in n + 1 .. n + k PROVE i - n \in 1 .. k /\ Files[i] = g[i - n]
    OBVIOUS
  <2>1. n \in Nat /\ k \in Nat /\ k <= Len(g) /\ Len(g) \in Nat
    BY FilesFacts DEF Follows
  <2>2. i - n \in 1 .. k /\ n + (i - n) = i
    BY <2>1
  <2> QED
    BY <2>1, <2>2 DEF Follows
<1>3. {g[j] : j \in 1 .. k} \subseteq {Files[i] : i \in n + 1 .. n + k}
  BY <1>1
<1>4. {Files[i] : i \in n + 1 .. n + k} \subseteq {g[j] : j \in 1 .. k}
  BY <1>2
<1> QED
  BY <1>3, <1>4 DEF FirstFiles

(* Executing the next k files, all accepted, keeps a database good.        *)
LEMMA AfterExecutes ==
    ASSUME NEW d, NEW past, NEW n \in 0 .. Len(Files), d \in Database, Executes(d, n, past),
           NEW k \in Nat, n + k <= Len(Files),
           \A i \in n + 1 .. n + k : Files[i].valid
    PROVE  LET new == After(d, {Files[i] : i \in n + 1 .. n + k})
           IN  new \in Database /\ Executes(new, n + k, past)
<1> DEFINE some == {Files[i] : i \in n + 1 .. n + k}
           keys == {"none", "numbers", "texts"}
           new == After(d, some)
<1>1. /\ n \in Nat /\ n + k \in 0 .. Len(Files)
      /\ \A i : i \in 1 .. n + k <=> i \in 1 .. n \/ i \in n + 1 .. n + k
      /\ n + 1 .. n + k \subseteq 1 .. Len(Files) /\ 1 .. n \subseteq 1 .. Len(Files)
  BY FilesFacts
<1>2. /\ new.schema = d.schema \cup UNION {ObjectsOf(f) : f \in some}
      /\ new.rows = d.rows \cup {Row(f) : f \in some}
      /\ new = [schema |-> new.schema, rows |-> new.rows, users |-> new.users]
      /\ d.users \in keys => new.users \in keys
  BY DEF After, Keyed
<1>3. some \subseteq Range(Files)
  BY <1>1, FilesFacts
<1>4. /\ d.schema \subseteq Objects /\ d.rows \subseteq {Row(f) : f \in Range(Files)}
      /\ d.users \in keys
  BY DEF Database
<1>5. new \in Database
  <2>1. new.schema \subseteq Objects
    BY <1>2, <1>3, <1>4 DEF Objects
  <2>2. new.rows \subseteq {Row(f) : f \in Range(Files)}
    BY <1>2, <1>3, <1>4
  <2>3. new.users \in keys
    BY <1>2, <1>4
  <2> HIDE DEF new
  <2> QED
    BY <1>2, <2>1, <2>2, <2>3 DEF Database
<1>6. new.rows = {Row(Files[i]) : i \in 1 .. n + k}
  <2> DEFINE row(i) == Row(Files[i])
  <2>1. d.rows = {row(i) : i \in 1 .. n}
    BY DEF Executes
  <2>2. {Row(f) : f \in some} = {row(i) : i \in n + 1 .. n + k}
    OBVIOUS
  <2>3. new.rows = {row(i) : i \in 1 .. n} \cup {row(i) : i \in n + 1 .. n + k}
    BY <1>2, <2>1, <2>2
  <2> HIDE DEF row, new, some
  <2>4. new.rows = {row(i) : i \in 1 .. n + k}
    BY <1>1, <2>3
  <2> QED
    BY <2>4 DEF row
<1>7. \A i \in 1 .. n + k : Files[i].valid /\ ObjectsOf(Files[i]) \subseteq new.schema
  <2>1. \A i \in 1 .. n : Files[i].valid /\ ObjectsOf(Files[i]) \subseteq new.schema
    BY <1>2 DEF Executes
  <2>2. \A i \in n + 1 .. n + k : Files[i].valid /\ ObjectsOf(Files[i]) \subseteq new.schema
    BY <1>2
  <2> QED
    BY <1>1, <2>1, <2>2
<1>8. "rollback" \notin past =>
         new.schema \subseteq Range(Tables) \cup UNION {ObjectsOf(Files[i]) : i \in 1 .. n + k}
  <2> SUFFICES ASSUME "rollback" \notin past, NEW x \in new.schema, x \notin Range(Tables)
               PROVE  \E i \in 1 .. n + k : x \in ObjectsOf(Files[i])
    OBVIOUS
  <2>1. CASE x \in d.schema
    <3>1. PICK i \in 1 .. n : x \in ObjectsOf(Files[i])
      BY <2>1 DEF Executes
    <3> QED
      BY <1>1, <3>1
  <2>2. CASE \E i \in n + 1 .. n + k : x \in ObjectsOf(Files[i])
    BY <1>1, <2>2
  <2> QED
    BY <1>2, <2>1, <2>2
<1> HIDE DEF new
<1>9. Executes(new, n + k, past)
  BY <1>6, <1>7, <1>8 DEF Executes
<1> QED
  BY <1>5, <1>9 DEF new

(* What is pending in a release are the files after those executed.        *)
LEMMA PendingFollows ==
    ASSUME NEW d, NEW past, NEW n \in 0 .. Len(Files), Executes(d, n, past),
           NEW m \in 0 .. Len(Files)
    PROVE  LET g == ToRun(d, SubSeq(Files, 1, m))
           IN  /\ Follows(g, n) /\ Len(g) = IF m > n THEN m - n ELSE 0
               /\ g \in Seq(Range(Files))
<1> DEFINE R == SubSeq(Files, 1, m)
           S == {i \in DOMAIN R : R[i].name \notin Executed(d)}
           g == ToRun(d, R)
           l == IF m > n THEN m - n ELSE 0
<1>1. /\ m \in Nat /\ n \in Nat /\ m <= Len(Files) /\ n <= Len(Files)
      /\ l \in Nat /\ n + l <= Len(Files) /\ (m > n => l = m - n) /\ (m <= n => l = 0)
  BY FilesFacts
<1>2. R \in Seq(Range(Files)) /\ DOMAIN R = 1 .. m /\ \A i \in 1 .. m : R[i] = Files[i]
  BY FilesFacts, <1>1
<1>3. S = n + 1 .. m
  <2>1. \A i \in 1 .. m : R[i].name \in Executed(d) <=> i <= n
    BY <1>1, <1>2, ExecutedFirst
  <2>2. S = {i \in 1 .. m : ~ i <= n}
    BY <1>2, <2>1
  <2> HIDE DEF S, R
  <2> QED
    BY <1>1, <2>2
<1>4. g = Kept(R, S)
  BY DEF ToRun
<1>5. S \in SUBSET DOMAIN R /\ S \in SUBSET Nat
  BY <1>1, <1>2, <1>3
<1> HIDE DEF R, S, g, l
<1>6. IsFiniteSet(S) /\ Cardinality(S) = l
  <2>1. n + 1 \in Int /\ m \in Int
    BY <1>1
  <2>2. IsFiniteSet(S) /\ Cardinality(S) = IF n + 1 > m THEN 0 ELSE m - (n + 1) + 1
    BY <1>3, <2>1, FS_Interval
  <2> QED
    BY <1>1, <2>2
<1>7. /\ g \in Seq(Range(Files)) /\ Len(g) = l
      /\ \A j \in 1 .. l : g[j] = R[Nth(S, j)]
  BY <1>2, <1>4, <1>5, <1>6, KeptFromList
<1>8. \A j \in 1 .. l : Nth(S, j) = n + j
  <2> SUFFICES ASSUME NEW j \in 1 .. l PROVE Nth(S, j) = n + j
    OBVIOUS
  <2>1. m > n /\ l = m - n /\ j \in Nat /\ j >= 1 /\ j <= m - n
    BY <1>1
  <2>2. n + j \in S
    BY <1>1, <1>3, <2>1
  <2>3. {k \in S : k < n + j} = n + 1 .. n + j - 1
    BY <1>1, <1>3, <2>1
  <2>4. Cardinality(n + 1 .. n + j - 1) = j - 1
    BY <1>1, <2>1, FS_Interval
  <2>5. Rank(S, n + j) = j - 1
    BY <2>3, <2>4 DEF Rank
  <2>6. j \in 1 .. Cardinality(S)
    BY <1>6
  <2> QED
    BY <1>5, <1>6, <2>2, <2>5, <2>6, NthByRank
<1>9. \A j \in 1 .. l : g[j] = Files[n + j]
  <2> SUFFICES ASSUME NEW j \in 1 .. l PROVE g[j] = Files[n + j]
    OBVIOUS
  <2>1. n + j \in 1 .. m
    BY <1>1
  <2> QED
    BY <1>2, <1>7, <1>8, <2>1
<1>10. DOMAIN g = 1 .. l
  BY <1>1, <1>7
<1>11. Follows(g, n) /\ Len(g) = l /\ g \in Seq(Range(Files))
  BY <1>1, <1>7, <1>9, <1>10 DEF Follows
<1> QED
  BY <1>11 DEF R, g, l

LEMMA PrefixFollows ==
    ASSUME NEW n \in Nat, NEW g \in Seq(Range(Files)), Follows(g, n), NEW k \in 0 .. Len(g)
    PROVE  Follows(SubSeq(g, 1, k), n)
<1>1. /\ Len(SubSeq(g, 1, k)) = k /\ DOMAIN SubSeq(g, 1, k) = 1 .. k
      /\ \A j \in 1 .. k : SubSeq(g, 1, k)[j] = g[j]
  OBVIOUS
<1>2. Len(g) \in Nat /\ n + Len(g) <= Len(Files) /\ k <= Len(g) /\ k \in Nat
      /\ \A j \in 1 .. Len(g) : g[j] = Files[n + j]
  BY DEF Follows
<1>3. n + k <= Len(Files) /\ \A j \in 1 .. k : j \in 1 .. Len(g)
  BY <1>2, FilesFacts
<1> QED
  BY <1>1, <1>2, <1>3 DEF Follows

(* A run of migrations executes some of the files that come next, and is   *)
(* successful when none of them fails after those before it.               *)
LEMMA RunKeepsGood ==
    ASSUME NEW d, NEW past, NEW n \in 0 .. Len(Files), d \in Database, Executes(d, n, past),
           NEW g, Follows(g, n)
    PROVE  Good(RunMigrations(d, g).db, past)
<1> DEFINE F == Failing(d, g)
           Fit(k) == /\ k \in 0 .. Len(g)
                     /\ \A j \in 1 .. k : g[j].valid
<1>1. n \in Nat /\ Len(g) \in Nat /\ DOMAIN g = 1 .. Len(g) /\ n + Len(g) <= Len(Files)
  BY FilesFacts DEF Follows
<1>2. ASSUME NEW k \in 0 .. Len(g), \A j \in 1 .. k : g[j].valid
      PROVE  Good(After(d, FirstFiles(g, k)), past)
  <2>1. k \in Nat /\ n + k <= Len(Files) /\ n + k \in 0 .. Len(Files)
    BY <1>1
  <2>2. \A i \in n + 1 .. n + k : Files[i].valid
    <3> SUFFICES ASSUME NEW i \in n + 1 .. n + k PROVE Files[i].valid
      OBVIOUS
    <3>1. i - n \in 1 .. k /\ n + (i - n) = i /\ i - n \in 1 .. Len(g)
      BY <1>1, <2>1
    <3>2. g[i - n] = Files[i]
      BY <3>1 DEF Follows
    <3> QED
      BY <1>2, <3>1, <3>2
  <2>3. FirstFiles(g, k) = {Files[i] : i \in n + 1 .. n + k}
    BY FirstOfNext
  <2> QED
    BY <2>1, <2>2, <2>3, AfterExecutes DEF Good
<1>3. \A j \in 1 .. Len(g) : j \notin F => g[j].valid
  BY <1>1 DEF Failing, Migrate, Accepted
<1>4. CASE F = {}
  <2>1. Range(g) = FirstFiles(g, Len(g))
    BY <1>1 DEF Range, FirstFiles
  <2>2. RunMigrations(d, g).db = After(d, FirstFiles(g, Len(g)))
    BY <1>4, <2>1 DEF RunMigrations
  <2> QED
    BY <1>1, <1>2, <1>3, <1>4, <2>2
<1>5. CASE F # {}
  <2> DEFINE m == Min(F)
  <2>1. F \in SUBSET Nat /\ F \subseteq 1 .. Len(g)
    BY <1>1 DEF Failing
  <2>2. m \in F /\ \A j \in F : m <= j
    BY <1>5, <2>1, LeastMember DEF Min
  <2>3. m \in 1 .. Len(g) /\ m - 1 \in 0 .. Len(g) /\ \A j \in 1 .. m - 1 : j \notin F
    BY <1>1, <2>1, <2>2
  <2>4. ~Migrate(Before(d, g, m), g[m]).ok
    BY <2>2 DEF Failing
  <2>5. Migrate(Before(d, g, m), g[m]).db = Before(d, g, m)
    BY <2>4 DEF Migrate
  <2>6. RunMigrations(d, g).db = After(d, FirstFiles(g, m - 1))
    BY <1>5, <2>5 DEF RunMigrations, Before
  <2>7. \A j \in 1 .. m - 1 : g[j].valid
    BY <1>1, <1>3, <2>3
  <2> HIDE DEF m
  <2> QED
    BY <1>2, <2>3, <2>6, <2>7
<1> QED
  BY <1>4, <1>5

(* A run succeeds over files that SQLite accepts and that make nothing     *)
(* anew that a start has made.                                             *)
LEMMA RunSucceeds ==
    ASSUME NEW d, NEW past, NEW n \in 0 .. Len(Files), d \in Database, Executes(d, n, past),
           "rollback" \notin past, NEW m \in 0 .. Len(Files),
           \A i \in 1 .. m :
              /\ Files[i].valid
              /\ Files[i].name \in Executed(d) \/ Files[i].anew \cap d.schema \cap Range(Tables) = {}
    PROVE  RunMigrations(d, ToRun(d, SubSeq(Files, 1, m))).ok
<1> DEFINE g == ToRun(d, SubSeq(Files, 1, m))
<1>1. Follows(g, n) /\ Len(g) = IF m > n THEN m - n ELSE 0
  BY PendingFollows
<1> HIDE DEF g
<1>2. n \in Nat /\ m \in Nat /\ m <= Len(Files) /\ Len(g) \in Nat /\ DOMAIN g = 1 .. Len(g)
  BY <1>1, FilesFacts DEF Follows
<1>3. ASSUME NEW j \in 1 .. Len(g)
      PROVE  Migrate(Before(d, g, j), g[j]).ok
  <2> DEFINE i == n + j
             b == Before(d, g, j)
  <2>1. /\ j \in Nat /\ j - 1 \in 0 .. Len(g) /\ j - 1 \in Nat /\ i \in 1 .. m
        /\ n + (j - 1) = i - 1 /\ n + (j - 1) <= Len(Files) /\ i \in 1 .. Len(Files)
    <3>1. m > n /\ Len(g) = m - n
      BY <1>1, <1>2
    <3> QED
      BY <1>2, <3>1, FilesFacts
  <2>2. g[j] = Files[i]
    BY <1>1 DEF Follows
  <2>3. b = After(d, {Files[k] : k \in n + 1 .. n + (j - 1)})
    BY <1>1, <2>1, FirstOfNext DEF Before
  <2>4. \A k \in n + 1 .. n + (j - 1) : Files[k].valid
    BY <1>2, <2>1
  <2>5. Executes(b, i - 1, past)
    <3>1. Executes(After(d, {Files[k] : k \in n + 1 .. n + (j - 1)}), n + (j - 1), past)
      BY <2>1, <2>4, AfterExecutes
    <3> QED
      BY <2>1, <2>3, <3>1
  <2>6. i \in Reachable
    BY <2>1, FilesFacts DEF Reachable
  <2>7. \A k \in 1 .. i - 1 : /\ Files[k].id < Files[i].id
                              /\ Files[i].anew \cap ObjectsOf(Files[k]) = {}
    BY <2>6, FilesAssumption
  <2>8. /\ b.schema = d.schema \cup UNION {ObjectsOf(Files[k]) : k \in n + 1 .. i - 1}
        /\ d.schema \subseteq Range(Tables) \cup UNION {ObjectsOf(Files[k]) : k \in 1 .. n}
    BY <2>1, <2>3 DEF Executes, After
  <2>9. Accepted(b, Files[i])
    <3>1. Files[i].anew \cap d.schema \cap Range(Tables) = {}
      <4>1. ~ i <= n
        BY <1>2, <2>1
      <4>2. Files[i].name \notin Executed(d)
        BY <2>1, <4>1, ExecutedFirst
      <4> QED
        BY <2>1, <4>2
    <3>2. ASSUME NEW x \in Files[i].anew, NEW k \in 1 .. i - 1, x \in ObjectsOf(Files[k])
          PROVE  FALSE
      BY <2>7, <3>2
    <3>3. \A k : k \in 1 .. n \/ k \in n + 1 .. i - 1 => k \in 1 .. i - 1
      BY <1>2, <2>1
    <3>4. Files[i].anew \cap b.schema = {}
      BY <2>8, <3>1, <3>2, <3>3
    <3> QED
      BY <2>1, <3>4 DEF Accepted
  <2>10. Insertable(b, Files[i])
    <3> SUFFICES ASSUME NEW r \in b.rows PROVE r.id # Files[i].id
      BY DEF Insertable
    <3>1. PICK k \in 1 .. i - 1 : r = Row(Files[k])
      BY <2>5 DEF Executes
    <3>2. r.id = Files[k].id /\ k \in 1 .. Len(Files)
      BY <2>1, <3>1 DEF Row
    <3>3. Files[k].id < Files[i].id
      BY <2>7, <3>1
    <3>4. Files[k].id \in Nat /\ Files[i].id \in Nat
      BY <2>1, <3>2, FilesFacts
    <3> QED
      BY <3>2, <3>3, <3>4
  <2> HIDE DEF b
  <2> QED
    BY <2>2, <2>9, <2>10 DEF Migrate, b
<1>4. Failing(d, g) = {}
  BY <1>2, <1>3 DEF Failing
<1> QED
  BY <1>4 DEF RunMigrations, g

(* A rollback forgets the last files that were executed.                   *)
LEMMA RollbackKeepsGood ==
    ASSUME NEW d, NEW past, Good(d, past), NEW steps \in Nat
    PROVE  Good(Rollback(d, steps), past \cup {"rollback"})
<1> DEFINE new == Rollback(d, steps)
           NewerOnes(r) == {s \in d.rows : s.id > r.id}
           row(i) == Row(Files[i])
<1>1. PICK n \in 0 .. Len(Files) : Executes(d, n, past)
  BY DEF Good
<1>2. n \in Nat /\ n <= Len(Files)
  BY FilesFacts
<1>3. d \in Database /\ d.rows = {row(i) : i \in 1 .. n}
      /\ d.users \in {"none", "numbers", "texts"}
  BY <1>1 DEF Executes, Good, Database
<1>4. \A i, j \in 1 .. n : i <= j => Files[i].id \in Nat /\ Files[j].id \in Nat
                                        /\ Files[i].id <= Files[j].id
  <2> SUFFICES ASSUME NEW i \in 1 .. n, NEW j \in 1 .. n, i <= j
               PROVE  Files[i].id \in Nat /\ Files[j].id \in Nat /\ Files[i].id <= Files[j].id
    OBVIOUS
  <2>1. Files[i].id \in Nat /\ Files[j].id \in Nat
    BY <1>2, FilesFacts
  <2>2. j \in Reachable
    BY <1>1, ExecutedFirst
  <2>3. i < j => Files[i].id < Files[j].id
    BY <2>2, FilesAssumption
  <2> QED
    BY <2>1, <2>3
<1>5. IsFiniteSet(d.rows)
  <2> DEFINE f == [i \in 1 .. n |-> row(i)]
  <2>1. f \in Surjection(1 .. n, d.rows)
    BY <1>3 DEF Surjection
  <2>2. IsFiniteSet(1 .. n)
    BY <1>2, FS_Interval
  <2> QED
    BY <2>1, <2>2, FS_Surjection
<1>6. \A i, j \in 1 .. n : i <= j =>
         /\ Cardinality(NewerOnes(row(j))) \in Nat /\ Cardinality(NewerOnes(row(i))) \in Nat
         /\ Cardinality(NewerOnes(row(j))) <= Cardinality(NewerOnes(row(i)))
  <2> SUFFICES ASSUME NEW i \in 1 .. n, NEW j \in 1 .. n, i <= j
               PROVE  /\ Cardinality(NewerOnes(row(j))) \in Nat
                      /\ Cardinality(NewerOnes(row(i))) \in Nat
                      /\ Cardinality(NewerOnes(row(j))) <= Cardinality(NewerOnes(row(i)))
    OBVIOUS
  <2>1. \A s \in d.rows : s.id \in Nat
    BY <1>3, <1>4 DEF Row
  <2>2. row(i).id \in Nat /\ row(j).id \in Nat /\ row(i).id <= row(j).id
    BY <1>4 DEF Row
  <2>3. NewerOnes(row(j)) \subseteq NewerOnes(row(i))
    BY <2>1, <2>2
  <2>4. IsFiniteSet(NewerOnes(row(i)))
    BY <1>5, FS_Subset
  <2> QED
    BY <2>3, <2>4, FS_Subset, FS_CardinalityType
<1> DEFINE S == {i \in 1 .. n : ~ Cardinality(NewerOnes(row(i))) < steps}
<1>7. \E m \in 0 .. n : S = 1 .. m
  <2>1. S \in SUBSET (1 .. n)
    OBVIOUS
  <2>2. \A i \in S : \A j \in 1 .. i : j \in S
    <3> SUFFICES ASSUME NEW i \in S, NEW j \in 1 .. i PROVE j \in S
      OBVIOUS
    <3>1. i \in 1 .. n /\ j \in 1 .. n /\ j <= i
      BY <1>2
    <3>2. /\ Cardinality(NewerOnes(row(i))) \in Nat /\ Cardinality(NewerOnes(row(j))) \in Nat
          /\ Cardinality(NewerOnes(row(i))) <= Cardinality(NewerOnes(row(j)))
      BY <1>6, <3>1
    <3>3. ~ Cardinality(NewerOnes(row(i))) < steps
      OBVIOUS
    <3> HIDE DEF NewerOnes
    <3>4. ~ Cardinality(NewerOnes(row(j))) < steps
      BY <3>2, <3>3
    <3> QED
      BY <3>1, <3>4
  <2> QED
    BY <1>2, <2>1, <2>2, DownwardClosed
<1>8. PICK m \in 0 .. n : S = 1 .. m
  BY <1>7
<1>9. new.schema = d.schema /\ new.rows = d.rows \ ToRollback(d, steps)
      /\ new = [schema |-> new.schema, rows |-> new.rows, users |-> d.users]
  <2> DEFINE R == {Row(f) : f \in Range(Files)}
             lost == ToRollback(d, steps)
  <2>1. d \in [schema : SUBSET Objects, rows : SUBSET R, users : {"none", "numbers", "texts"}]
    BY <1>3 DEF Database
  <2>2. new = [d EXCEPT !.rows = @ \ lost]
    BY DEF Rollback
  <2> HIDE DEF R, lost, new
  <2>3. new = [schema |-> d.schema, rows |-> d.rows \ lost, users |-> d.users]
    BY <2>1, <2>2
  <2> QED
    BY <2>3 DEF lost
<1>10. new.rows = {row(i) : i \in S}
  <2>1. \A r \in d.rows : r \in ToRollback(d, steps) <=> Cardinality(NewerOnes(r)) < steps
    BY DEF ToRollback
  <2> QED
    BY <1>3, <1>9, <2>1
<1>11. new \in Database
  <2> DEFINE R == {Row(f) : f \in Range(Files)}
  <2>1. /\ d.schema \in SUBSET Objects /\ d.rows \in SUBSET R
        /\ d.users \in {"none", "numbers", "texts"}
    BY <1>3 DEF Database
  <2>2. new.schema \in SUBSET Objects /\ new.rows \in SUBSET R
    BY <1>9, <2>1
  <2>3. new = [schema |-> new.schema, rows |-> new.rows, users |-> d.users]
    BY <1>9
  <2> HIDE DEF new
  <2>4. new \in [schema : SUBSET Objects, rows : SUBSET R, users : {"none", "numbers", "texts"}]
    BY <2>1, <2>2, <2>3
  <2> QED
    BY <2>4 DEF Database
<1>12. Executes(new, m, past \cup {"rollback"})
  <2>1. 1 .. m \subseteq 1 .. n
    BY <1>2
  <2>2. \A i \in 1 .. m : Files[i].valid /\ ObjectsOf(Files[i]) \subseteq new.schema
    BY <1>1, <1>9, <2>1 DEF Executes
  <2>3. new.rows = {Row(Files[i]) : i \in 1 .. m}
    BY <1>8, <1>10
  <2> HIDE DEF new
  <2> QED
    BY <2>2, <2>3 DEF Executes
<1>13. m \in 0 .. Len(Files)
  BY <1>2
<1> QED
  BY <1>11, <1>12, <1>13 DEF Good

(* Making tables that are not there keeps a database good.                 *)
LEMMA TablesKeepGood ==
    ASSUME NEW d, NEW past, Good(d, past), NEW k \in 0 .. Len(Tables)
    PROVE  Good(CreateTables(d, k), past)
<1> DEFINE made == {Tables[i] : i \in 1 .. k}
           new == CreateTables(d, k)
<1>1. PICK n \in 0 .. Len(Files) : Executes(d, n, past)
  BY DEF Good
<1>2. /\ d \in [schema : SUBSET Objects, rows : SUBSET {Row(f) : f \in Range(Files)},
                users : {"none", "numbers", "texts"}]
      /\ Keyed(d, made, "texts") \in {"none", "numbers", "texts"}
  BY DEF Good, Database, Keyed
<1>3. made \subseteq Range(Tables)
  BY TablesAssumption DEF Range
<1> DEFINE keyed == Keyed(d, made, "texts")
<1>4. new = [d EXCEPT !.schema = @ \cup made, !.users = keyed]
  BY DEF CreateTables
<1> HIDE DEF made, new, keyed
<1>5. new = [schema |-> d.schema \cup made, rows |-> d.rows, users |-> keyed]
  BY <1>2, <1>4
<1>6. new \in Database
  <2>1. Range(Tables) \subseteq Objects
    BY DEF Objects
  <2>2. d.schema \cup made \subseteq Objects
    BY <1>2, <1>3, <2>1
  <2> HIDE DEF Objects
  <2> QED
    BY <1>2, <1>5, <2>2 DEF Database, keyed
<1>7. Executes(new, n, past)
  BY <1>1, <1>3, <1>5 DEF Executes
<1> QED
  BY <1>6, <1>7 DEF Good, new

-----------------------------------------------------------------------------
(* One call takes one step.                                                *)

Alone(c) ==
    /\ calls' \in [Callers -> CallType] /\ begun' = begun
    /\ \A x \in Callers \ {c} : calls'[x] = calls[x]

LEMMA GotoMoves ==
    ASSUME calls \in [Callers -> CallType], NEW c \in Callers, NEW pc \in Pcs, Goto(c, pc)
    PROVE  /\ Alone(c) /\ calls'[c].pc = pc
           /\ calls'[c].op = calls[c].op /\ calls'[c].id = calls[c].id
           /\ calls'[c].snap = calls[c].snap /\ calls'[c].read = calls[c].read
           /\ calls'[c].todo = calls[c].todo
  BY DEF Goto, Alone, CallType

LEMMA SnapMoves ==
    ASSUME calls \in [Callers -> CallType], NEW c \in Callers, NEW pc \in Pcs,
           NEW v \in File, Advance(c, pc, "snap", v)
    PROVE  /\ Alone(c) /\ calls'[c].pc = pc /\ calls'[c].snap = v
           /\ calls'[c].op = calls[c].op /\ calls'[c].id = calls[c].id
           /\ calls'[c].read = calls[c].read /\ calls'[c].todo = calls[c].todo
  BY DEF Advance, Alone, CallType

LEMMA ReadMoves ==
    ASSUME calls \in [Callers -> CallType], NEW c \in Callers, NEW pc \in Pcs,
           NEW v \in SUBSET Entry, Advance(c, pc, "read", v)
    PROVE  /\ Alone(c) /\ calls'[c].pc = pc /\ calls'[c].read = v
           /\ calls'[c].op = calls[c].op /\ calls'[c].id = calls[c].id
           /\ calls'[c].snap = calls[c].snap /\ calls'[c].todo = calls[c].todo
  BY DEF Advance, Alone, CallType

LEMMA TodoMoves ==
    ASSUME calls \in [Callers -> CallType], NEW c \in Callers, NEW pc \in Pcs,
           NEW v \in SUBSET Id, Advance(c, pc, "todo", v)
    PROVE  /\ Alone(c) /\ calls'[c].pc = pc /\ calls'[c].todo = v
           /\ calls'[c].op = calls[c].op /\ calls'[c].id = calls[c].id
           /\ calls'[c].snap = calls[c].snap /\ calls'[c].read = calls[c].read
  BY DEF Advance, Alone, CallType

LEMMA EndsMoves ==
    ASSUME calls \in [Callers -> CallType], NEW c \in Callers, NEW ok, Ends(c, ok)
    PROVE  /\ Alone(c) /\ calls'[c] = Idle /\ said'.ok = ok
           /\ Idle \in CallType
<1>1. Idle \in CallType
  <2>1. 0 \in 0 .. MaxIds
    BY BackupAssumption
  <2>2. /\ {} \in SUBSET Entry /\ {} \in SUBSET Id
        /\ NoFile \in File \cup {NoFile} /\ "idle" \in Ops /\ "idle" \in Pcs
    BY DEF Ops, Pcs
  <2> QED
    BY <2>1, <2>2 DEF CallType, Idle
<1>2. Alone(c) /\ calls'[c] = Idle
  BY <1>1 DEF Ends, Alone
<1>3. said'.ok = ok
  BY DEF Ends
<1> QED
  BY <1>1, <1>2, <1>3

(* What a call that goes on has become; a call that ends is Idle.          *)
Moves(c, pc, snap, read, todo) ==
    /\ Alone(c) /\ calls'[c].op = calls[c].op /\ calls'[c].id = calls[c].id
    /\ calls'[c].pc = pc /\ calls'[c].snap = snap
    /\ calls'[c].read = read /\ calls'[c].todo = todo
Leaves(c, ok) == Alone(c) /\ calls'[c] = Idle /\ said'.ok = ok
Walks(c, pc) == Moves(c, pc, calls[c].snap, calls[c].read, calls[c].todo)

LEMMA CallFacts ==
    ASSUME CallsFit, DiskFits, NEW c \in Callers
    PROVE  /\ calls \in [Callers -> CallType] /\ calls[c] \in CallType
           /\ calls[c].snap \in File \cup {NoFile}
           /\ calls[c].read \in SUBSET Entry /\ calls[c].todo \in SUBSET Id
           /\ calls[c].id \in Nat /\ begun.ids \in Nat /\ begun.ids <= MaxIds
           /\ MaxIds \in Nat
           /\ StepsFit(calls[c])
           /\ Busy(c) => calls[c].id \in 1 .. begun.ids /\ calls[c].id \in Id
<1>1. calls \in [Callers -> CallType] /\ calls[c] \in CallType /\ StepsFit(calls[c])
  BY DEF CallsFit
<1>2. /\ calls[c].snap \in File \cup {NoFile} /\ calls[c].read \in SUBSET Entry
      /\ calls[c].todo \in SUBSET Id /\ calls[c].id \in 0 .. MaxIds
  BY <1>1 DEF CallType
<1>3. begun.ids \in Nat /\ begun.ids <= MaxIds /\ MaxIds \in Nat
  BY BackupAssumption DEF DiskFits
<1> QED
  BY <1>1, <1>2, <1>3 DEF CallsFit, Id

LEMMA CreateEffect ==
    ASSUME CallsFit, DiskFits, NEW c \in Callers, CreateBackup(c)
    PROVE  LET k == calls[c] IN
           /\ k.op = "create" /\ UNCHANGED <<db, temp, meta>>
           /\ \/ /\ k.pc = "open" /\ Moves(c, "copy", db, k.read, k.todo)
                 /\ files' = [i \in DOMAIN files \cup {k.id} |->
                                 IF i = k.id THEN Torn ELSE files[i]]
              \/ /\ k.pc = "copy"
                 /\ \E content \in Seen(k.snap, db) \cap File :
                       /\ Moves(c, "saveRead", content, k.read, k.todo)
                       /\ files' = [files EXCEPT ![k.id] = content]
<1> DEFINE k == calls[c]
<1>1. /\ calls \in [Callers -> CallType] /\ StepsFit(k) /\ db \in File
      /\ k.pc \in {"open", "copy"} => k.op = "create"
      /\ k.pc = "copy" => k.snap \in File
      /\ Torn \in File /\ "copy" \in Pcs /\ "saveRead" \in Pcs
  BY CallFacts DEF StepsFit, Early, Saving, Removing, Dropping, GoingBack, DiskFits, File, Pcs
<1>2. CASE Reached(c, "open")
  BY <1>1, <1>2, SnapMoves DEF CreateBackup, Reached, Moves
<1>3. CASE Reached(c, "copy")
  <2>1. PICK content \in Seen(k.snap, db) :
           /\ files' = [files EXCEPT ![k.id] = content]
           /\ Advance(c, "saveRead", "snap", content)
           /\ UNCHANGED <<db, temp, meta>>
    BY <1>3 DEF CreateBackup, Reached
  <2>2. content \in File
    BY <1>1, <1>3 DEF Seen, Reached
  <2>3. Moves(c, "saveRead", content, k.read, k.todo)
    BY <1>1, <2>1, <2>2, SnapMoves DEF Moves
  <2> QED
    BY <1>1, <1>3, <2>1, <2>2, <2>3 DEF Reached
<1> QED
  BY <1>2, <1>3 DEF CreateBackup

LEMMA PcFacts ==
    ASSUME NEW k, StepsFit(k)
    PROVE  /\ k.pc \in {"open", "copy", "clean"} \cup Saving => k.op = "create"
           /\ k.pc \in {"unlink"} \cup Dropping => k.op \in {"create", "delete"}
           /\ k.pc \in {"safeCut", "safeCopy", "pipe", "flow", "tidy"} \cup GoingBack
                 => k.op = "restore"
           /\ k.pc = "sum" => k.op = "verify"
           /\ k.pc = "idle" <=> k.op = "idle"
           /\ k.pc \in {"copy", "safeCopy", "flow"} \cup Saving => k.snap \in File
  BY DEF StepsFit, Early, Saving, Removing, Dropping, GoingBack

LEMMA DoomedFacts ==
    ASSUME CallsFit, DiskFits, NEW c \in Callers, calls[c].pc \in Removing,
           calls[c].op \in {"create", "delete"}
    PROVE  /\ Doomed(c) \in Id /\ Doomed(c) \in Nat
           /\ Creating(c) => Doomed(c) \in calls[c].todo
           /\ ~Creating(c) => Doomed(c) = calls[c].id
<1>1. /\ calls[c].todo \in SUBSET Id /\ StepsFit(calls[c]) /\ calls[c].id \in Nat /\ MaxIds \in Nat
      /\ Busy(c) => calls[c].id \in Id
  BY CallFacts
<1>2. Id \in SUBSET Nat
  BY <1>1 DEF Id
<1>3. Busy(c)
  BY DEF Busy, Reached, Removing, Dropping
<1>4. CASE Creating(c)
  <2>1. calls[c].todo # {} /\ calls[c].todo \in SUBSET Nat
    BY <1>1, <1>2, <1>4 DEF StepsFit, Creating, Removing, Dropping, Early, Saving
  <2>2. Min(calls[c].todo) \in calls[c].todo
    BY <2>1, LeastMember DEF Min
  <2> QED
    BY <1>1, <1>2, <1>4, <2>2 DEF Doomed, Creating
<1>5. CASE ~Creating(c)
  BY <1>1, <1>3, <1>5 DEF Doomed, Creating
<1> QED
  BY <1>4, <1>5

LEMMA SaveEffect ==
    ASSUME CallsFit, DiskFits, NEW c \in Callers, SaveMetadata(c)
    PROVE  LET k == calls[c] IN
           /\ k.op = "create" /\ UNCHANGED <<db, temp, files>>
           /\ \/ /\ k.pc = "saveRead" /\ Moves(c, "saveCut", k.snap, meta, k.todo)
                 /\ UNCHANGED meta
              \/ k.pc = "saveCut" /\ Walks(c, "saveWrite") /\ meta' = {}
              \/ /\ k.pc = "saveWrite" /\ Walks(c, "clean")
                 /\ meta' \in Written(k.read \cup {[id |-> k.id, checksum |-> k.snap]})
<1> DEFINE k == calls[c]
<1>1. /\ calls \in [Callers -> CallType] /\ StepsFit(k) /\ meta \in SUBSET Entry
      /\ k.pc \in Saving => k.op = "create"
      /\ {"saveCut", "saveWrite", "clean"} \subseteq Pcs
  BY CallFacts, PcFacts DEF DiskFits, Pcs, Early, Saving
<1>2. CASE Reached(c, "saveRead")
  BY <1>1, <1>2, ReadMoves DEF SaveMetadata, Reached, Moves, ListBackups, Saving, disk
<1>3. CASE Reached(c, "saveCut")
  BY <1>1, <1>3, GotoMoves DEF SaveMetadata, Reached, Moves, Walks, NoList, Saving
<1>4. CASE Reached(c, "saveWrite")
  BY <1>1, <1>4, GotoMoves DEF SaveMetadata, Reached, Moves, Walks, Saving
<1> QED
  BY <1>2, <1>3, <1>4 DEF SaveMetadata

LEMMA CleanEffect ==
    ASSUME CallsFit, DiskFits, NEW c \in Callers, CleanupOldBackups(c)
    PROVE  LET k == calls[c] IN
           /\ k.op = "create" /\ k.pc = "clean" /\ UNCHANGED disk
           /\ \/ TooMany(meta) = {} /\ Leaves(c, FALSE)
              \/ TooMany(meta) # {} /\ Moves(c, "find", k.snap, k.read, TooMany(meta))
<1> DEFINE k == calls[c]
<1>1. /\ calls \in [Callers -> CallType] /\ StepsFit(k) /\ meta \in SUBSET Entry
      /\ k.pc = "clean" => k.op = "create"
      /\ "find" \in Pcs
  BY CallFacts, PcFacts DEF DiskFits, Pcs, Removing
<1>2. TooMany(meta) \in SUBSET Id
  BY <1>1 DEF TooMany, Entry
<1>3. k.pc = "clean" /\ UNCHANGED disk
  BY DEF CleanupOldBackups, Reached
<1>4. CASE TooMany(meta) = {}
  BY <1>1, <1>3, <1>4, EndsMoves DEF CleanupOldBackups, ListBackups, Leaves
<1>5. CASE TooMany(meta) # {}
  BY <1>1, <1>2, <1>3, <1>5, TodoMoves DEF CleanupOldBackups, ListBackups, Moves
<1> QED
  BY <1>1, <1>3, <1>4, <1>5

LEMMA Listed ==
    ASSUME NEW id
    PROVE  GetBackupMetadata(id) = {} <=> id \notin Ids(meta)
  BY DEF GetBackupMetadata, ListBackups, Ids

LEMMA DeleteEffect ==
    ASSUME CallsFit, DiskFits, NEW c \in Callers, DeleteBackup(c)
    PROVE  LET k == calls[c] IN
           /\ k.op \in {"create", "delete"} /\ k.pc \in Removing /\ UNCHANGED <<db, temp, meta>>
           /\ \/ /\ k.pc = "find" /\ UNCHANGED files
                 /\ \/ Doomed(c) \notin Ids(meta) /\ Leaves(c, FALSE)
                    \/ Doomed(c) \in Ids(meta) /\ Walks(c, "unlink")
              \/ /\ k.pc = "unlink" /\ Doomed(c) \notin DOMAIN files
                 /\ UNCHANGED files /\ Leaves(c, FALSE)
              \/ /\ k.pc = "unlink" /\ Doomed(c) \in DOMAIN files
                 /\ files' = [i \in DOMAIN files \ {Doomed(c)} |-> files[i]]
                 /\ Walks(c, "dropRead")
<1> DEFINE k == calls[c]
<1>1. /\ calls \in [Callers -> CallType]
      /\ "find" \in Removing /\ "unlink" \in Removing
      /\ {"unlink", "dropRead"} \subseteq Pcs
  BY CallFacts DEF Pcs, Removing, Dropping
<1>2. CASE Reached(c, "find")
  <2>1. k.op \in {"create", "delete"} /\ UNCHANGED disk
    BY <1>2 DEF DeleteBackup, Reached
  <2>2. CASE Doomed(c) \notin Ids(meta)
    BY <1>1, <1>2, <2>1, <2>2, Listed, EndsMoves DEF DeleteBackup, Reached, Leaves, disk
  <2>3. CASE Doomed(c) \in Ids(meta)
    BY <1>1, <1>2, <2>1, <2>3, Listed, GotoMoves DEF DeleteBackup, Reached, Walks, Moves, disk
  <2> QED
    BY <2>2, <2>3
<1>3. CASE Reached(c, "unlink")
  <2>1. CASE Doomed(c) \notin DOMAIN files
    BY <1>1, <1>3, <2>1, EndsMoves DEF DeleteBackup, Reached, Leaves, disk
  <2>2. CASE Doomed(c) \in DOMAIN files
    BY <1>1, <1>3, <2>2, GotoMoves DEF DeleteBackup, Reached, Walks, Moves
  <2> QED
    BY <2>1, <2>2
<1> QED
  BY <1>2, <1>3 DEF DeleteBackup

LEMMA RemoveEffect ==
    ASSUME CallsFit, DiskFits, NEW c \in Callers, RemoveMetadata(c)
    PROVE  LET k == calls[c] IN
           /\ k.op \in {"create", "delete"} /\ k.pc \in Dropping /\ UNCHANGED <<db, temp, files>>
           /\ \/ /\ k.pc = "dropRead" /\ Moves(c, "dropCut", k.snap, meta, k.todo)
                 /\ UNCHANGED meta
              \/ k.pc = "dropCut" /\ Walks(c, "dropWrite") /\ meta' = {}
              \/ /\ k.pc = "dropWrite" /\ meta' \in Written(Others(k.read, Doomed(c)))
                 /\ Leaves(c, FALSE)
<1> DEFINE k == calls[c]
<1>1. /\ calls \in [Callers -> CallType] /\ StepsFit(k) /\ meta \in SUBSET Entry
      /\ k.todo \in SUBSET Id
      /\ k.pc \in Dropping => k.op \in {"create", "delete"}
      /\ {"dropCut", "dropWrite"} \subseteq Pcs
      /\ Dropping = {"dropRead", "dropCut", "dropWrite"}
  BY CallFacts, PcFacts DEF DiskFits, Pcs, Removing, Dropping
<1>2. CASE Reached(c, "dropRead")
  BY <1>1, <1>2, ReadMoves DEF RemoveMetadata, Reached, Moves, ListBackups, disk
<1>3. CASE Reached(c, "dropCut")
  BY <1>1, <1>3, GotoMoves DEF RemoveMetadata, Reached, Moves, Walks, NoList
<1>4. CASE Reached(c, "dropWrite")
  BY <1>1, <1>4, EndsMoves DEF RemoveMetadata, Reached, Leaves
<1> QED
  BY <1>2, <1>3, <1>4 DEF RemoveMetadata

LEMMA RestoreEffect ==
    ASSUME CallsFit, DiskFits, NEW c \in Callers, RestoreBackup(c)
    PROVE  LET k == calls[c] IN
           /\ k.op = "restore" /\ UNCHANGED <<files, meta>>
           /\ \/ /\ k.pc = "find" /\ UNCHANGED <<db, temp>>
                 /\ \/ k.id \notin Ids(meta) /\ Leaves(c, FALSE)
                    \/ k.id \in Ids(meta) /\ Walks(c, "safeCut")
              \/ /\ k.pc = "safeCut" /\ temp' = Torn /\ UNCHANGED db
                 /\ Moves(c, "safeCopy", db, k.read, k.todo)
              \/ /\ k.pc = "safeCopy" /\ temp' \in Seen(k.snap, db) \cap File /\ UNCHANGED db
                 /\ Walks(c, "pipe")
              \/ /\ k.pc = "pipe" /\ k.id \in DOMAIN files /\ db' = Torn /\ UNCHANGED temp
                 /\ Moves(c, "flow", files[k.id], k.read, k.todo)
              \/ /\ k.pc = "pipe" /\ k.id \notin DOMAIN files /\ db' \in {db, Torn}
                 /\ UNCHANGED temp /\ Walks(c, "backCut")
              \/ /\ k.pc = "flow" /\ db' = k.snap /\ UNCHANGED temp /\ Walks(c, "tidy")
              \/ k.pc = "tidy" /\ temp' = NoFile /\ UNCHANGED db /\ Walks(c, "backCut")
<1> DEFINE k == calls[c]
<1>1. /\ calls \in [Callers -> CallType] /\ StepsFit(k) /\ db \in File
      /\ \A i \in DOMAIN files : files[i] \in File
      /\ Torn \in File
      /\ k.pc = "safeCopy" => k.snap \in File
      /\ k.pc \in {"safeCut", "safeCopy", "pipe", "flow", "tidy"} => k.op = "restore"
      /\ {"safeCut", "safeCopy", "pipe", "flow", "tidy", "backCut"} \subseteq Pcs
  BY CallFacts, PcFacts DEF DiskFits, Pcs, File, GoingBack
<1>2. CASE Reached(c, "find")
  <2>1. k.op = "restore" /\ UNCHANGED disk
    BY <1>2 DEF RestoreBackup, Reached
  <2>2. CASE k.id \notin Ids(meta)
    BY <1>1, <1>2, <2>1, <2>2, Listed, EndsMoves DEF RestoreBackup, Reached, Leaves, disk
  <2>3. CASE k.id \in Ids(meta)
    BY <1>1, <1>2, <2>1, <2>3, Listed, GotoMoves DEF RestoreBackup, Reached, Walks, Moves, disk
  <2> QED
    BY <2>2, <2>3
<1>3. CASE Reached(c, "safeCut")
  BY <1>1, <1>3, SnapMoves DEF RestoreBackup, Reached, Moves
<1>4. CASE Reached(c, "safeCopy")
  <2>1. temp' \in Seen(k.snap, db) /\ UNCHANGED <<db, files, meta>> /\ Goto(c, "pipe")
    BY <1>4 DEF RestoreBackup, Reached
  <2>2. temp' \in File
    BY <1>1, <1>4, <2>1 DEF Seen, Reached
  <2> QED
    BY <1>1, <1>4, <2>1, <2>2, GotoMoves DEF Reached, Moves, Walks
<1>5. CASE Reached(c, "pipe")
  <2>1. CASE k.id \in DOMAIN files
    BY <1>1, <1>5, <2>1, SnapMoves DEF RestoreBackup, Reached, Moves
  <2>2. CASE k.id \notin DOMAIN files
    BY <1>1, <1>5, <2>2, GotoMoves DEF RestoreBackup, Reached, Moves, Walks
  <2> QED
    BY <2>1, <2>2
<1>6. CASE Reached(c, "flow")
  BY <1>1, <1>6, GotoMoves DEF RestoreBackup, Reached, Moves, Walks
<1>7. CASE Reached(c, "tidy")
  BY <1>1, <1>7, GotoMoves DEF RestoreBackup, Reached, Moves, Walks
<1> QED
  BY <1>2, <1>3, <1>4, <1>5, <1>6, <1>7 DEF RestoreBackup

LEMMA BackEffect ==
    ASSUME CallsFit, DiskFits, NEW c \in Callers, WayBack(c)
    PROVE  LET k == calls[c] IN
           /\ k.op = "restore" /\ UNCHANGED <<files, meta>>
           /\ \/ /\ k.pc \in {"backCut", "backCopy"} /\ temp = NoFile
                 /\ UNCHANGED <<db, temp>> /\ Leaves(c, FALSE)
              \/ /\ k.pc = "backCut" /\ temp # NoFile /\ db' = Torn
                 /\ UNCHANGED temp /\ Walks(c, "backCopy")
              \/ /\ k.pc = "backCopy" /\ temp # NoFile /\ db' = temp
                 /\ UNCHANGED temp /\ Walks(c, "backTidy")
              \/ k.pc = "backTidy" /\ temp' = NoFile /\ UNCHANGED db /\ Leaves(c, FALSE)
<1> DEFINE k == calls[c]
<1>1. /\ calls \in [Callers -> CallType]
      /\ k.pc \in {"backCut", "backCopy", "backTidy"} => k.op = "restore"
      /\ {"backCopy", "backTidy"} \subseteq Pcs
  BY CallFacts, PcFacts DEF Pcs, GoingBack
<1>2. CASE Reached(c, "backCut")
  <2>1. CASE temp = NoFile
    BY <1>1, <1>2, <2>1, EndsMoves DEF WayBack, Reached, Leaves
  <2>2. CASE temp # NoFile
    BY <1>1, <1>2, <2>2, GotoMoves DEF WayBack, Reached, Moves, Walks
  <2> QED
    BY <2>1, <2>2
<1>3. CASE Reached(c, "backCopy")
  <2>1. CASE temp = NoFile
    BY <1>1, <1>3, <2>1, EndsMoves DEF WayBack, Reached, Leaves
  <2>2. CASE temp # NoFile
    BY <1>1, <1>3, <2>2, GotoMoves DEF WayBack, Reached, Moves, Walks
  <2> QED
    BY <2>1, <2>2
<1>4. CASE Reached(c, "backTidy")
  BY <1>1, <1>4, EndsMoves DEF WayBack, Reached, Leaves
<1> QED
  BY <1>2, <1>3, <1>4 DEF WayBack

LEMMA VerifyEffect ==
    ASSUME CallsFit, DiskFits, NEW c \in Callers, VerifyBackup(c)
    PROVE  LET k == calls[c] IN
           /\ k.op = "verify" /\ UNCHANGED disk
           /\ \/ k.pc = "find" /\ k.id \notin Ids(meta) /\ Leaves(c, FALSE)
              \/ /\ k.pc = "find" /\ k.id \in Ids(meta)
                 /\ Moves(c, "sum", k.snap, GetBackupMetadata(k.id), k.todo)
              \/ /\ k.pc = "sum"
                 /\ Leaves(c, k.id \in DOMAIN files /\ \E e \in k.read : e.checksum = files[k.id])
<1> DEFINE k == calls[c]
<1>1. /\ calls \in [Callers -> CallType] /\ StepsFit(k) /\ meta \in SUBSET Entry
      /\ k.pc = "sum" => k.op = "verify"
      /\ "sum" \in Pcs
  BY CallFacts, PcFacts DEF DiskFits, Pcs
<1>2. GetBackupMetadata(k.id) \in SUBSET Entry
  BY <1>1 DEF GetBackupMetadata, ListBackups
<1>3. UNCHANGED disk
  BY DEF VerifyBackup
<1>4. CASE Reached(c, "find")
  <2>1. k.op = "verify"
    BY <1>4 DEF VerifyBackup, Reached
  <2>2. CASE k.id \notin Ids(meta)
    BY <1>1, <1>3, <1>4, <2>1, <2>2, Listed, EndsMoves DEF VerifyBackup, Reached, Leaves
  <2>3. CASE k.id \in Ids(meta)
    <3>1. Advance(c, "sum", "read", GetBackupMetadata(k.id))
      BY <1>4, <2>3, Listed DEF VerifyBackup, Reached
    <3>2. Moves(c, "sum", k.snap, GetBackupMetadata(k.id), k.todo)
      BY <1>1, <1>2, <3>1, ReadMoves DEF Moves
    <3> QED
      BY <1>3, <1>4, <2>1, <2>3, <3>2 DEF Reached
  <2> QED
    BY <2>2, <2>3
<1>5. CASE Reached(c, "sum")
  BY <1>1, <1>3, <1>5, EndsMoves DEF VerifyBackup, Reached, Leaves
<1> QED
  BY <1>4, <1>5 DEF VerifyBackup

-----------------------------------------------------------------------------
(* What every step of a call has in common: it goes on or ends, it reads   *)
(* entries that are known, and it touches no file but its own.             *)

Entered(c) == [id |-> calls[c].id, checksum |-> calls[c].snap]
Knows(c) == Known \cup (IF calls[c].pc = "saveWrite" THEN {Entered(c)} ELSE {})
Writes(c) == calls[c].pc \in {"open", "copy"}

CallGoes(c) ==
    /\ Alone(c) /\ StepsFit(calls'[c]) /\ calls'[c].pc # "open"
    /\ \/ calls'[c] = Idle
       \/ /\ calls'[c].op = calls[c].op /\ calls'[c].id = calls[c].id
          /\ calls[c].op # "idle"
    /\ calls'[c].pc \in Early => calls[c].pc \in Early
    /\ calls'[c].read \subseteq Knows(c)

DiskGoes(c) ==
    /\ db' \in File /\ temp' \in File \cup {NoFile}
    /\ files' \in [DOMAIN files' -> File]
    /\ DOMAIN files' \subseteq DOMAIN files \cup {calls[c].id}
    /\ \A i \in DOMAIN files' :
          i # calls[c].id \/ ~Writes(c) => i \in DOMAIN files /\ files'[i] = files[i]
    /\ meta' \in SUBSET Entry /\ meta' \subseteq Knows(c)

LEMMA KnownFacts ==
    ASSUME CallsFit, DiskFits, NEW c \in Callers
    PROVE  meta \subseteq Known /\ calls[c].read \subseteq Known /\ Known \subseteq Knows(c)
  BY CallFacts DEF Known, DiskFits, Knows

LEMMA IdleFacts ==
    /\ Idle.op = "idle" /\ Idle.pc = "idle" /\ Idle.id = 0
    /\ Idle.snap = NoFile /\ Idle.read = {} /\ Idle.todo = {}
    /\ StepsFit(Idle) /\ Idle.pc \notin Early
  BY DEF Idle, StepsFit, Early, Saving

LEMMA LeavingGoes ==
    ASSUME NEW c \in Callers, NEW ok, Leaves(c, ok)
    PROVE  CallGoes(c)
  BY IdleFacts DEF Leaves, CallGoes

LEMMA MovingGoes ==
    ASSUME CallsFit, DiskFits, NEW c \in Callers, calls[c].op # "idle",
           NEW pc, NEW snap, NEW read, NEW todo, Moves(c, pc, snap, read, todo),
           StepsFit(calls'[c]), pc # "open", pc \in Early => calls[c].pc \in Early,
           read = calls[c].read \/ read \subseteq meta
    PROVE  CallGoes(c)
  BY KnownFacts DEF Moves, CallGoes

LEMMA CreateGoes ==
    ASSUME CallsFit, DiskFits, NEW c \in Callers, CreateBackup(c)
    PROVE  CallGoes(c) /\ DiskGoes(c)
<1> DEFINE k == calls[c]
<1>1. k.op = "create" /\ UNCHANGED <<db, temp, meta>>
  BY CreateEffect
<1>2. /\ db \in File /\ temp \in File \cup {NoFile} /\ meta \in SUBSET Entry /\ Torn \in File
      /\ files \in [DOMAIN files -> File] /\ meta \subseteq Knows(c)
  BY KnownFacts DEF DiskFits, File
<1>3. CASE k.pc = "open"
  <2>1. /\ Moves(c, "copy", db, k.read, k.todo)
        /\ files' = [i \in DOMAIN files \cup {k.id} |-> IF i = k.id THEN Torn ELSE files[i]]
    BY <1>3, CreateEffect
  <2>2. StepsFit(calls'[c])
    BY <1>1, <1>2, <2>1 DEF Moves, StepsFit, Early
  <2>3. CallGoes(c)
    BY <1>1, <1>3, <2>1, <2>2, MovingGoes DEF Early
  <2>4. DiskGoes(c)
    BY <1>1, <1>2, <1>3, <2>1 DEF DiskGoes, Writes
  <2> QED
    BY <2>3, <2>4
<1>4. CASE k.pc = "copy"
  <2>1. PICK content \in File : /\ Moves(c, "saveRead", content, k.read, k.todo)
                                /\ files' = [files EXCEPT ![k.id] = content]
    BY <1>4, CreateEffect
  <2>2. StepsFit(calls'[c])
    BY <1>1, <2>1 DEF Moves, StepsFit, Early, Saving
  <2>3. CallGoes(c)
    BY <1>1, <1>4, <2>1, <2>2, MovingGoes DEF Early, Saving
  <2>4. DiskGoes(c)
    BY <1>1, <1>2, <1>4, <2>1 DEF DiskGoes, Writes
  <2> QED
    BY <2>3, <2>4
<1> QED
  BY <1>3, <1>4, CreateEffect

LEMMA SaveGoes ==
    ASSUME CallsFit, DiskFits, NEW c \in Callers, SaveMetadata(c)
    PROVE  CallGoes(c) /\ DiskGoes(c)
<1> DEFINE k == calls[c]
<1>1. k.op = "create" /\ UNCHANGED <<db, temp, files>> /\ k.pc \in Saving /\ ~Writes(c)
      /\ k.snap \in File /\ k.id \in Id
  <2>1. k.op = "create" /\ UNCHANGED <<db, temp, files>> /\ k.pc \in Saving
    BY SaveEffect DEF Saving
  <2> QED
    BY <2>1, CallFacts, PcFacts DEF Saving, Writes, Busy, Reached
<1>2. /\ db \in File /\ temp \in File \cup {NoFile} /\ meta \in SUBSET Entry
      /\ files \in [DOMAIN files -> File] /\ meta \subseteq Knows(c) /\ k.read \subseteq Knows(c)
      /\ k.read \in SUBSET Entry
  BY KnownFacts, CallFacts DEF DiskFits
<1>3. CallGoes(c)
  <2>1. StepsFit(calls'[c]) /\ calls'[c].pc # "open"
    BY <1>1, SaveEffect DEF Moves, Walks, StepsFit, Early, Saving
  <2>2. k.pc \in Early
    BY <1>1 DEF Early
  <2>3. CASE k.pc = "saveRead"
    BY <1>1, <2>1, <2>2, <2>3, SaveEffect, MovingGoes
  <2>4. CASE k.pc = "saveCut"
    BY <1>1, <2>1, <2>2, <2>4, SaveEffect, MovingGoes DEF Walks
  <2>5. CASE k.pc = "saveWrite"
    BY <1>1, <2>1, <2>2, <2>5, SaveEffect, MovingGoes DEF Walks
  <2> QED
    BY <2>3, <2>4, <2>5, SaveEffect
<1>4. meta' \in SUBSET Entry /\ meta' \subseteq Knows(c)
  <2>1. CASE k.pc = "saveWrite"
    BY <1>1, <1>2, <2>1, SaveEffect DEF Knows, Entered, Entry, Written, NoList
  <2>2. CASE k.pc # "saveWrite"
    BY <1>2, <2>2, SaveEffect
  <2> QED
    BY <2>1, <2>2
<1> QED
  BY <1>1, <1>2, <1>3, <1>4 DEF DiskGoes

LEMMA WalkFacts ==
    ASSUME NEW c \in Callers, NEW pc, Walks(c, pc)
    PROVE  Moves(c, pc, calls[c].snap, calls[c].read, calls[c].todo)
  BY DEF Walks

LEMMA DirectoryStays ==
    ASSUME CallsFit, DiskFits, NEW c \in Callers, UNCHANGED <<files, meta>>,
           db' \in File, temp' \in File \cup {NoFile}, ~Writes(c)
    PROVE  DiskGoes(c)
  BY KnownFacts DEF DiskFits, DiskGoes

LEMMA CleanGoes ==
    ASSUME CallsFit, DiskFits, NEW c \in Callers, CleanupOldBackups(c)
    PROVE  CallGoes(c) /\ DiskGoes(c)
<1> DEFINE k == calls[c]
<1>1. k.op = "create" /\ k.pc = "clean" /\ UNCHANGED disk /\ ~Writes(c)
  BY CleanEffect DEF Writes
<1>2. DiskGoes(c)
  BY <1>1, DirectoryStays DEF disk, DiskFits
<1>3. CASE Leaves(c, FALSE)
  BY <1>2, <1>3, LeavingGoes
<1>4. CASE TooMany(meta) # {} /\ Moves(c, "find", k.snap, k.read, TooMany(meta))
  <2>1. StepsFit(calls'[c])
    BY <1>1, <1>4 DEF Moves, StepsFit, Early, Saving, Removing
  <2>2. CallGoes(c)
    BY <1>1, <1>4, <2>1, MovingGoes DEF Early, Saving
  <2> QED
    BY <1>2, <2>2
<1> QED
  BY <1>3, <1>4, CleanEffect

LEMMA DeleteGoes ==
    ASSUME CallsFit, DiskFits, NEW c \in Callers, DeleteBackup(c)
    PROVE  CallGoes(c) /\ DiskGoes(c)
<1> DEFINE k == calls[c]
<1>1. /\ k.op \in {"create", "delete"} /\ k.pc \in Removing /\ UNCHANGED <<db, temp, meta>>
      /\ StepsFit(k)
  BY DeleteEffect, CallFacts
<1>2. ~Writes(c) /\ k.pc \notin Early \cup {"clean"}
  BY <1>1 DEF Writes, Removing, Dropping, Early, Saving
<1>3. DiskGoes(c)
  <2>1. CASE UNCHANGED files
    BY <1>1, <1>2, <2>1, DirectoryStays DEF DiskFits
  <2>2. CASE files' = [i \in DOMAIN files \ {Doomed(c)} |-> files[i]]
    BY <1>1, <1>2, <2>2, KnownFacts DEF DiskFits, DiskGoes
  <2> QED
    BY <2>1, <2>2, DeleteEffect
<1>4. ASSUME NEW pc \in {"unlink", "dropRead"}, Walks(c, pc)
      PROVE  CallGoes(c)
  <2>1. StepsFit(calls'[c])
    BY <1>1, <1>2, <1>4 DEF Walks, Moves, StepsFit, Early, Saving, Removing, Dropping
  <2> QED
    BY <1>1, <1>4, <2>1, MovingGoes DEF Early, Saving, Walks
<1> QED
  BY <1>3, <1>4, DeleteEffect, LeavingGoes

LEMMA RemoveGoes ==
    ASSUME CallsFit, DiskFits, NEW c \in Callers, RemoveMetadata(c)
    PROVE  CallGoes(c) /\ DiskGoes(c)
<1> DEFINE k == calls[c]
<1>1. /\ k.op \in {"create", "delete"} /\ k.pc \in Dropping /\ UNCHANGED <<db, temp, files>>
      /\ StepsFit(k)
  BY RemoveEffect, CallFacts
<1>2. ~Writes(c) /\ k.pc \notin Early \cup {"clean"}
  BY <1>1 DEF Writes, Removing, Dropping, Early, Saving
<1>3. k.read \in SUBSET Entry /\ k.read \subseteq Knows(c)
  BY CallFacts, KnownFacts
<1>4. DiskGoes(c)
  <2>1. meta' \in SUBSET Entry /\ meta' \subseteq Knows(c)
    BY <1>3, KnownFacts, RemoveEffect DEF Others, DiskFits, Written, NoList
  <2> QED
    BY <1>1, <1>2, <2>1 DEF DiskFits, DiskGoes
<1>5. ASSUME NEW pc \in {"dropCut", "dropWrite"}, NEW read,
             read = k.read \/ read \subseteq meta, Moves(c, pc, k.snap, read, k.todo)
      PROVE  CallGoes(c)
  <2>1. StepsFit(calls'[c])
    BY <1>1, <1>2, <1>5 DEF Moves, StepsFit, Early, Saving, Removing, Dropping
  <2> QED
    BY <1>1, <1>5, <2>1, MovingGoes DEF Early, Saving
<1>6. CallGoes(c)
  BY <1>5, RemoveEffect, LeavingGoes DEF Walks
<1> QED
  BY <1>4, <1>6

LEMMA RestoreGoes ==
    ASSUME CallsFit, DiskFits, NEW c \in Callers, RestoreBackup(c)
    PROVE  CallGoes(c) /\ DiskGoes(c)
<1> DEFINE k == calls[c]
           on == {"find", "safeCut", "safeCopy", "pipe", "flow", "tidy"}
<1>1. k.op = "restore" /\ UNCHANGED <<files, meta>> /\ k.pc \in on /\ StepsFit(k)
  BY RestoreEffect, CallFacts
<1>2. /\ ~Writes(c) /\ db \in File /\ temp \in File \cup {NoFile} /\ Torn \in File
      /\ \A i \in DOMAIN files : files[i] \in File
      /\ k.pc \in {"safeCopy", "flow"} => k.snap \in File
  BY <1>1, PcFacts DEF Writes, DiskFits, File
<1>3. DiskGoes(c)
  <2>1. db' \in File
    BY <1>1, <1>2, RestoreEffect
  <2>2. temp' \in File \cup {NoFile}
    BY <1>1, <1>2, RestoreEffect
  <2> QED
    BY <1>1, <1>2, <2>1, <2>2, DirectoryStays
<1>4. ASSUME NEW pc \in {"safeCut", "safeCopy", "pipe", "flow", "tidy", "backCut"}, NEW snap,
             Moves(c, pc, snap, k.read, k.todo), pc \in {"safeCopy", "flow"} => snap \in File
      PROVE  CallGoes(c)
  <2>1. StepsFit(calls'[c])
    BY <1>1, <1>4 DEF Moves, StepsFit, Saving, GoingBack
  <2> QED
    BY <1>1, <1>4, <2>1, MovingGoes DEF Early, Saving
<1>5. CallGoes(c)
  <2>1. CASE k.pc = "find"
    BY <1>4, <2>1, RestoreEffect, LeavingGoes, WalkFacts
  <2>2. CASE k.pc = "safeCut"
    BY <1>2, <1>4, <2>2, RestoreEffect
  <2>3. CASE k.pc = "safeCopy"
    BY <1>4, <2>3, RestoreEffect, WalkFacts
  <2>4. CASE k.pc = "pipe"
    BY <1>2, <1>4, <2>4, RestoreEffect, WalkFacts
  <2>5. CASE k.pc = "flow"
    BY <1>4, <2>5, RestoreEffect, WalkFacts
  <2>6. CASE k.pc = "tidy"
    BY <1>4, <2>6, RestoreEffect, LeavingGoes, WalkFacts
  <2> QED
    BY <1>1, <2>1, <2>2, <2>3, <2>4, <2>5, <2>6
<1> QED
  BY <1>3, <1>5

LEMMA BackGoes ==
    ASSUME CallsFit, DiskFits, NEW c \in Callers, WayBack(c)
    PROVE  CallGoes(c) /\ DiskGoes(c)
<1> DEFINE k == calls[c]
<1>1. k.op = "restore" /\ UNCHANGED <<files, meta>> /\ k.pc \in GoingBack
  BY BackEffect DEF GoingBack
<1>2. ~Writes(c) /\ db \in File /\ temp \in File \cup {NoFile} /\ Torn \in File
  BY <1>1 DEF Writes, DiskFits, File, GoingBack
<1>3. DiskGoes(c)
  <2>1. db' \in File /\ temp' \in File \cup {NoFile}
    BY <1>1, <1>2, BackEffect
  <2> QED
    BY <1>1, <1>2, <2>1, DirectoryStays
<1>4. ASSUME NEW pc \in GoingBack, Moves(c, pc, k.snap, k.read, k.todo)
      PROVE  CallGoes(c)
  <2>1. StepsFit(calls'[c])
    BY <1>1, <1>4 DEF Moves, StepsFit, Saving, GoingBack
  <2> QED
    BY <1>1, <1>4, <2>1, MovingGoes DEF Early, Saving, GoingBack
<1> QED
  BY <1>3, <1>4, BackEffect, LeavingGoes, WalkFacts DEF GoingBack

LEMMA VerifyGoes ==
    ASSUME CallsFit, DiskFits, NEW c \in Callers, VerifyBackup(c)
    PROVE  CallGoes(c) /\ DiskGoes(c)
<1> DEFINE k == calls[c]
<1>1. k.op = "verify" /\ UNCHANGED disk /\ ~Writes(c)
  BY VerifyEffect DEF Writes
<1>2. DiskGoes(c)
  BY <1>1, DirectoryStays DEF disk, DiskFits
<1>3. ASSUME Moves(c, "sum", k.snap, GetBackupMetadata(k.id), k.todo)
      PROVE  CallGoes(c)
  <2>1. StepsFit(calls'[c])
    BY <1>1, <1>3 DEF Moves, StepsFit, Saving
  <2>2. GetBackupMetadata(k.id) \subseteq meta
    BY DEF GetBackupMetadata, ListBackups
  <2> QED
    BY <1>1, <1>3, <2>1, <2>2, MovingGoes DEF Early, Saving
<1> QED
  BY <1>2, <1>3, VerifyEffect, LeavingGoes

LEMMA StepGoes ==
    ASSUME CallsFit, DiskFits, NEW c \in Callers, Step(c)
    PROVE  CallGoes(c) /\ DiskGoes(c)
  BY CreateGoes, SaveGoes, CleanGoes, DeleteGoes, RemoveGoes, RestoreGoes, BackGoes, VerifyGoes
     DEF Step

(* What of the invariant is left as it was by a step of one call.          *)
LEMMA StepKeepsCalls ==
    ASSUME CallsFit, DiskFits, NEW c \in Callers, Work(c)
    PROVE  CallsFit' /\ DiskFits'
<1>1. CallGoes(c) /\ DiskGoes(c) /\ UNCHANGED <<serving, deployed, incidents>>
  BY StepGoes DEF Work
<1>2. begun' = begun /\ calls' \in [Callers -> CallType]
  BY <1>1 DEF CallGoes, Alone
<1>3. calls[c].op # "idle" => calls[c].id \in 1 .. begun.ids
  BY CallFacts, PcFacts DEF Busy, Reached
<1>4. calls'[c] # Idle => calls'[c].id = calls[c].id /\ calls'[c].op = calls[c].op
                            /\ calls[c].id \in 1 .. begun.ids
  BY <1>1, <1>3 DEF CallGoes
<1>5. CallsFit'
  <2>1. ASSUME NEW x \in Callers
        PROVE  /\ StepsFit(calls'[x])
               /\ calls'[x].pc # "idle" => calls'[x].id \in 1 .. begun.ids
               /\ calls'[x].op = "delete" => "deletion" \in incidents
    <3>1. CASE x = c
      BY <1>1, <1>4, <3>1, IdleFacts DEF CallGoes, CallsFit
    <3>2. CASE x # c
      BY <1>1, <3>2 DEF CallGoes, Alone, CallsFit, Busy, Reached
    <3> QED
      BY <3>1, <3>2
  <2> QED
    BY <1>1, <1>2, <2>1 DEF CallsFit, Busy, Reached
<1>6. DiskFits'
  <2>1. DOMAIN files' \subseteq 1 .. begun.ids
    <3>1. CASE Writes(c)
      <4>1. calls[c].id \in 1 .. begun.ids
        BY <3>1, CallFacts DEF Writes, Busy, Reached
      <4> QED
        BY <1>1, <4>1 DEF DiskGoes, DiskFits
    <3>2. CASE ~Writes(c)
      BY <1>1, <3>2 DEF DiskGoes, DiskFits
    <3> QED
      BY <3>1, <3>2
  <2> QED
    BY <1>1, <1>2, <2>1 DEF DiskGoes, DiskFits
<1> QED
  BY <1>5, <1>6

LEMMA StepActs ==
    ASSUME CallsFit, DiskFits, NEW c \in Callers, Step(c)
    PROVE  /\ Busy(c) /\ calls[c].op # "idle"
           /\ calls[c].pc = "saveWrite" => calls'[c].pc \notin Early
           /\ ~Restoring(c) => UNCHANGED <<db, temp>>
           /\ calls[c].op \in {"restore", "verify"} => UNCHANGED <<files, meta>>
<1>1. /\ calls[c].op # "idle"
      /\ ~Restoring(c) => UNCHANGED <<db, temp>>
      /\ calls[c].op \in {"restore", "verify"} => UNCHANGED <<files, meta>>
  BY CreateEffect, SaveEffect, CleanEffect, DeleteEffect, RemoveEffect, RestoreEffect, BackEffect,
     VerifyEffect DEF Step, Restoring, disk
<1>2. Busy(c)
  BY <1>1, CallFacts, PcFacts DEF Busy, Reached
<1>3. ASSUME calls[c].pc = "saveWrite" PROVE calls'[c].pc \notin Early
  <2>1. SaveMetadata(c)
    BY <1>3, CreateEffect, CleanEffect, DeleteEffect, RemoveEffect, RestoreEffect, BackEffect,
       VerifyEffect DEF Step, Removing, Dropping
  <2> QED
    BY <1>3, <2>1, SaveEffect DEF Walks, Moves, Early, Saving
<1> QED
  BY <1>1, <1>2, <1>3

LEMMA CopyFollowsOpen ==
    ASSUME CallsFit, DiskFits, NEW c \in Callers, Step(c), calls'[c].pc = "copy"
    PROVE  calls[c].pc = "open" /\ calls'[c].id = calls[c].id
<1>1. calls'[c] # Idle
  BY IdleFacts
<1>2. ~(SaveMetadata(c) \/ CleanupOldBackups(c))
  BY <1>1, SaveEffect, CleanEffect DEF Moves, Walks, Leaves
<1>3. ~(DeleteBackup(c) \/ RemoveMetadata(c))
  BY <1>1, DeleteEffect, RemoveEffect DEF Moves, Walks, Leaves
<1>4. ~RestoreBackup(c)
  BY <1>1, RestoreEffect DEF Moves, Walks, Leaves
<1>5. ~(WayBack(c) \/ VerifyBackup(c))
  BY <1>1, BackEffect, VerifyEffect DEF Moves, Walks, Leaves
<1>6. CreateBackup(c)
  BY <1>2, <1>3, <1>4, <1>5 DEF Step
<1> QED
  BY <1>6, CreateEffect DEF Moves

LEMMA KnownGoes ==
    ASSUME NEW c \in Callers, CallGoes(c), DiskGoes(c)
    PROVE  Known' \subseteq Knows(c)
<1> SUFFICES ASSUME NEW e \in Known' PROVE e \in Knows(c)
  OBVIOUS
<1>1. e \in Entry /\ (e \in meta' \/ \E x \in Callers : e \in calls'[x].read)
  BY DEF Known
<1>2. CASE e \in meta'
  BY <1>2 DEF DiskGoes
<1>3. ASSUME NEW x \in Callers, e \in calls'[x].read PROVE e \in Knows(c)
  <2>1. CASE x = c
    BY <1>3, <2>1 DEF CallGoes
  <2>2. CASE x # c
    <3>1. e \in calls[x].read
      BY <1>3, <2>2 DEF CallGoes, Alone
    <3> QED
      BY <1>1, <3>1 DEF Known, Knows
  <2> QED
    BY <2>1, <2>2
<1> QED
  BY <1>1, <1>2, <1>3

(* What is to be removed has been listed.                                  *)
LEMMA StepTodo ==
    ASSUME CallsFit, DiskFits, NEW c \in Callers, Step(c)
    PROVE  calls'[c].todo \subseteq calls[c].todo \cup Ids(meta)
<1>1. TooMany(meta) \subseteq Ids(meta)
  BY DEF TooMany, Ids
<1>2. CASE CreateBackup(c) \/ SaveMetadata(c)
  BY <1>2, CreateEffect, SaveEffect DEF Moves, Walks
<1>3. CASE CleanupOldBackups(c)
  BY <1>1, <1>3, CleanEffect, IdleFacts DEF Moves, Leaves
<1>4. CASE DeleteBackup(c) \/ RemoveMetadata(c)
  BY <1>4, DeleteEffect, RemoveEffect, IdleFacts DEF Moves, Walks, Leaves
<1>5. CASE RestoreBackup(c)
  BY <1>5, RestoreEffect, IdleFacts DEF Moves, Walks, Leaves
<1>6. CASE WayBack(c) \/ VerifyBackup(c)
  BY <1>6, BackEffect, VerifyEffect, IdleFacts DEF Moves, Walks, Leaves
<1> QED
  BY <1>2, <1>3, <1>4, <1>5, <1>6 DEF Step

(* The entry that is written is a new one.                                 *)
LEMMA EnteredFacts ==
    ASSUME CallsFit, DiskFits, EntriesFit, NEW c \in Callers, calls[c].pc = "saveWrite"
    PROVE  /\ Creating(c) /\ Entered(c) \in Entry /\ Entered(c).id = calls[c].id
           /\ calls[c].id \in 1 .. begun.ids
           /\ \A e \in Known : e.id # calls[c].id
<1>1. calls[c].op = "create" /\ calls[c].snap \in File /\ calls[c].pc \in Early
  BY CallFacts, PcFacts DEF Early, Saving
<1>2. calls[c].id \in 1 .. begun.ids /\ calls[c].id \in Id
  BY CallFacts DEF Busy, Reached
<1>3. Entered(c) \in Entry /\ Entered(c).id = calls[c].id
  BY <1>1, <1>2 DEF Entered, Entry
<1> QED
  BY <1>1, <1>2, <1>3 DEF EntriesFit, Creating

LEMMA StepKeepsEntries ==
    ASSUME CallsFit, DiskFits, EntriesFit, NEW c \in Callers, Work(c)
    PROVE  EntriesFit'
<1> DEFINE k == calls[c]
<1>1. CallGoes(c) /\ DiskGoes(c)
  BY StepGoes DEF Work
<1>2. begun' = begun /\ begun.ids \in Nat
  BY <1>1 DEF CallGoes, Alone, DiskFits
<1>3. Known' \subseteq Knows(c)
  BY <1>1, KnownGoes
<1>4. \A e \in Known' : e \in Known \/ (k.pc = "saveWrite" /\ e = Entered(c))
  BY <1>3 DEF Knows
<1>5. \A x \in Callers : Creating(x)' => Creating(x) /\ calls'[x].id = calls[x].id
  BY <1>1, IdleFacts DEF CallGoes, Alone, Creating
<1>6. \A x \in Callers : calls'[x].pc \in Early => calls[x].pc \in Early
  BY <1>1 DEF CallGoes, Alone
<1>7. \A e \in Known' : e.id <= begun'.ids
  BY <1>2, <1>4, EnteredFacts DEF EntriesFit
<1>8. \A e, f \in Known' : e.id = f.id => e = f
  BY <1>4, EnteredFacts DEF EntriesFit
<1>9. \A y, x \in Callers :
         Creating(y)' /\ Creating(x)' /\ calls'[y].id = calls'[x].id => y = x
  BY <1>5 DEF EntriesFit
<1>10. ASSUME NEW x \in Callers, Creating(x)', calls'[x].pc \in Early, NEW e \in Known'
       PROVE  e.id # calls'[x].id
  <2>1. Creating(x) /\ calls'[x].id = calls[x].id /\ calls[x].pc \in Early
    BY <1>5, <1>6, <1>10
  <2>2. CASE e \in Known
    BY <2>1, <2>2 DEF EntriesFit
  <2>3. CASE k.pc = "saveWrite" /\ e = Entered(c)
    <3>1. x # c
      BY <1>10, <2>3, StepActs DEF Work
    <3> QED
      BY <2>1, <2>3, <3>1, EnteredFacts DEF EntriesFit
  <2> QED
    BY <1>4, <2>2, <2>3
<1>11. ASSUME NEW x \in Callers, calls'[x].pc = "open"
       PROVE  calls'[x].id \notin DOMAIN files'
  <2>1. x # c /\ calls'[x] = calls[x]
    BY <1>1, <1>11 DEF CallGoes, Alone
  <2>2. Creating(x) /\ calls[x].id \notin DOMAIN files
    BY <1>11, <2>1, CallFacts, PcFacts DEF Creating, EntriesFit
  <2>3. Writes(c) => Creating(c)
    BY CallFacts, PcFacts DEF Creating, Writes
  <2>4. Writes(c) => calls[x].id # calls[c].id
    BY <2>1, <2>2, <2>3 DEF EntriesFit
  <2> QED
    BY <1>1, <2>1, <2>2, <2>4 DEF DiskGoes
<1>12. ASSUME NEW y \in Callers, NEW x \in Callers, NEW n \in calls'[y].todo
       PROVE  /\ n <= begun'.ids
              /\ Creating(x)' /\ calls'[x].pc \in Early => n # calls'[x].id
  <2>1. CASE n \in calls[y].todo
    BY <1>2, <1>5, <1>6, <2>1 DEF EntriesFit
  <2>2. CASE n \notin calls[y].todo
    <3>1. y = c /\ n \in Ids(meta)
      BY <1>1, <1>12, <2>2, StepTodo DEF CallGoes, Alone, Work
    <3>2. PICK e \in meta : e.id = n
      BY <3>1 DEF Ids
    <3>3. e \in Known
      BY <3>2, KnownFacts
    <3> QED
      BY <1>2, <1>5, <1>6, <3>2, <3>3 DEF EntriesFit
  <2> QED
    BY <2>1, <2>2
<1> QED
  BY <1>7, <1>8, <1>9, <1>10, <1>11, <1>12 DEF EntriesFit

LEMMA StepKeepsOneByOne ==
    ASSUME CallsFit, DiskFits, OneByOneCalls, NEW c \in Callers, Work(c)
    PROVE  OneByOneCalls'
<1>1. \A x \in Callers : calls'[x].pc # "idle" => calls[x].pc # "idle"
  BY StepGoes, StepActs DEF Work, CallGoes, Alone, Busy, Reached
<1> QED
  BY <1>1 DEF Work, OneByOneCalls, Busy, Reached

(* A step copies databases, or tears them.                                 *)
LEMMA StepKeepsDatabases ==
    ASSUME CallsFit, DiskFits, DatabasesFit, NEW c \in Callers, Work(c)
    PROVE  DatabasesFit'
<1> DEFINE k == calls[c]
           S(x) == Explained(x, incidents)
<1>1. /\ S(db) /\ S(temp) /\ S(k.snap) /\ S(Torn) /\ S(NoFile)
      /\ \A i \in DOMAIN files : S(files[i])
      /\ Step(c) /\ incidents' = incidents
  BY DEF DatabasesFit, Explained, Work
<1> HIDE DEF S
<1>2. \A x \in Seen(k.snap, db) : S(x)
  BY <1>1 DEF Seen
<1>3. /\ S(db') /\ S(temp') /\ S(calls'[c].snap)
      /\ \A i \in DOMAIN files' : S(files'[i])
  <2>1. CASE CreateBackup(c)
    <3>1. UNCHANGED <<db, temp>>
      BY <2>1, CreateEffect
    <3>2. S(calls'[c].snap)
      BY <1>1, <1>2, <2>1, CreateEffect DEF Moves
    <3>3. CASE k.pc = "open"
      <4>1. files' = [i \in DOMAIN files \cup {k.id} |-> IF i = k.id THEN Torn ELSE files[i]]
        BY <2>1, <3>3, CreateEffect
      <4> QED
        BY <1>1, <3>1, <3>2, <4>1
    <3>4. CASE k.pc = "copy"
      <4>1. PICK content \in Seen(k.snap, db) : files' = [files EXCEPT ![k.id] = content]
        BY <2>1, <3>4, CreateEffect
      <4>2. \A i \in DOMAIN files' : i \in DOMAIN files /\ files'[i] \in {files[i], content}
        BY <4>1
      <4> QED
        BY <1>1, <1>2, <3>1, <3>2, <4>2
    <3> QED
      BY <2>1, <3>3, <3>4, CreateEffect
  <2>2. CASE SaveMetadata(c)
    BY <1>1, <2>2, SaveEffect DEF Moves, Walks
  <2>3. CASE CleanupOldBackups(c)
    BY <1>1, <2>3, CleanEffect, IdleFacts DEF Moves, Leaves, disk
  <2>4. CASE DeleteBackup(c)
    <3>1. UNCHANGED <<db, temp>> /\ S(calls'[c].snap)
      BY <1>1, <2>4, DeleteEffect, IdleFacts DEF Moves, Walks, Leaves
    <3>2. \A i \in DOMAIN files' : S(files'[i])
      BY <1>1, <2>4, DeleteEffect
    <3> QED
      BY <1>1, <3>1, <3>2
  <2>5. CASE RemoveMetadata(c)
    BY <1>1, <2>5, RemoveEffect, IdleFacts DEF Moves, Walks, Leaves
  <2>6. CASE RestoreBackup(c)
    <3>1. UNCHANGED files
      BY <2>6, RestoreEffect
    <3>2. S(db') /\ S(temp')
      BY <1>1, <1>2, <2>6, RestoreEffect
    <3>3. S(calls'[c].snap)
      BY <1>1, <2>6, RestoreEffect, IdleFacts DEF Moves, Walks, Leaves
    <3> QED
      BY <1>1, <3>1, <3>2, <3>3
  <2>7. CASE WayBack(c)
    BY <1>1, <2>7, BackEffect, IdleFacts DEF Moves, Walks, Leaves
  <2>8. CASE VerifyBackup(c)
    BY <1>1, <2>8, VerifyEffect, IdleFacts DEF Moves, Leaves, disk
  <2> QED
    BY <1>1, <2>1, <2>2, <2>3, <2>4, <2>5, <2>6, <2>7, <2>8 DEF Step
<1>4. \A x \in Callers \ {c} : calls'[x] = calls[x]
  BY <1>1, StepGoes DEF CallGoes, Alone
<1> QED
  BY <1>1, <1>3, <1>4 DEF DatabasesFit, S

(* As long as calls come one after the other, the one that takes a step is *)
(* the only one.                                                           *)
LEMMA OnlyOne ==
    ASSUME CallsFit, DiskFits, OneByOneCalls, "overlap" \notin incidents,
           NEW c \in Callers, Work(c)
    PROVE  /\ \A x \in Callers \ {c} :
                 calls[x].op = "idle" /\ calls[x].pc = "idle" /\ calls'[x] = calls[x]
           /\ Step(c) /\ Busy(c) /\ calls[c].op # "idle" /\ incidents' = incidents
           /\ calls'[c] = Idle \/ (calls'[c].op = calls[c].op /\ calls'[c].id = calls[c].id)
<1>1. Busy(c) /\ Step(c) /\ calls[c].op # "idle" /\ incidents' = incidents /\ CallGoes(c)
  BY StepActs, StepGoes DEF Work
<1>2. \A x \in Callers \ {c} : ~Busy(x)
  BY <1>1 DEF OneByOneCalls
<1>3. \A x \in Callers : calls[x].pc = "idle" => calls[x].op = "idle"
  BY CallFacts, PcFacts
<1>4. \A x \in Callers \ {c} : calls'[x] = calls[x]
  BY <1>1 DEF CallGoes, Alone
<1>5. calls'[c] = Idle \/ (calls'[c].op = calls[c].op /\ calls'[c].id = calls[c].id)
  BY <1>1 DEF CallGoes
<1> QED
  BY <1>1, <1>2, <1>3, <1>4, <1>5 DEF Busy, Reached

LEMMA RestoreTakesItsWay ==
    ASSUME CallsFit, DiskFits, NEW c \in Callers, Step(c), Restoring(c), SafetyCopyFits(c),
           calls[c].pc \in {"pipe"} /\ calls[c].id \in DOMAIN files
              => files[calls[c].id] \in Contents
    PROVE  /\ Restoring(c)' => SafetyCopyFits(c)'
           /\ ~Restoring(c)' => Whole' /\ temp' = NoFile
<1> DEFINE k == calls[c]
<1>1. k.op = "restore" /\ (RestoreBackup(c) \/ WayBack(c)) /\ UNCHANGED meta
  BY CreateEffect, SaveEffect, CleanEffect, DeleteEffect, RemoveEffect, VerifyEffect, StepActs
     DEF Step, Restoring
<1>2. db \in File /\ Torn \notin Contents /\ File = Contents \cup {Torn} /\ NoFile \notin File
  BY BackupAssumption DEF DiskFits, File
<1>3. ASSUME NEW ok, Leaves(c, ok), db' # Torn, temp' = NoFile
      PROVE  /\ Restoring(c)' => SafetyCopyFits(c)'
             /\ ~Restoring(c)' => Whole' /\ temp' = NoFile
  BY <1>3, IdleFacts DEF Leaves, Restoring, Whole
<1>4. ASSUME NEW pc, NEW snap, Moves(c, pc, snap, k.read, k.todo)
      PROVE  /\ Restoring(c)' /\ calls'[c].pc = pc /\ calls'[c].snap = snap
             /\ calls'[c].id = k.id
  BY <1>1, <1>4 DEF Moves, Restoring
<1>5. CASE RestoreBackup(c)
  <2>1. CASE k.pc = "find"
    <3>1. db # Torn /\ temp = NoFile /\ UNCHANGED <<db, temp>>
      BY <1>5, <2>1, RestoreEffect DEF SafetyCopyFits, Whole
    <3>2. CASE Leaves(c, FALSE)
      BY <1>3, <3>1, <3>2
    <3>3. CASE k.id \in Ids(meta) /\ Walks(c, "safeCut")
      BY <1>1, <1>4, <3>1, <3>3, WalkFacts DEF SafetyCopyFits, Whole, GoingBack
    <3> QED
      BY <1>5, <2>1, <3>2, <3>3, RestoreEffect
  <2>2. CASE k.pc = "safeCut"
    BY <1>1, <1>4, <1>5, <2>2, RestoreEffect DEF SafetyCopyFits, Whole, GoingBack
  <2>3. CASE k.pc = "safeCopy"
    <3>1. temp' = db /\ db' = db /\ db # Torn /\ Walks(c, "pipe") /\ k.id \in Ids(meta)
      BY <1>5, <2>3, RestoreEffect DEF SafetyCopyFits, Whole, Seen
    <3> QED
      BY <1>1, <1>2, <1>4, <3>1, WalkFacts DEF SafetyCopyFits, Whole, GoingBack
  <2>4. CASE k.pc = "pipe"
    <3>1. temp' = temp /\ temp \in Contents
      BY <1>5, <2>4, RestoreEffect DEF SafetyCopyFits
    <3>2. CASE k.id \in DOMAIN files
      <4>1. Moves(c, "flow", files[k.id], k.read, k.todo)
        BY <1>5, <2>4, <3>2, RestoreEffect
      <4> QED
        BY <1>4, <2>4, <3>1, <3>2, <4>1 DEF SafetyCopyFits, GoingBack
    <3>3. CASE k.id \notin DOMAIN files
      <4>1. Walks(c, "backCut")
        BY <1>5, <2>4, <3>3, RestoreEffect
      <4> QED
        BY <1>4, <3>1, <4>1, WalkFacts DEF SafetyCopyFits, GoingBack
    <3> QED
      BY <3>2, <3>3
  <2>5. CASE k.pc = "flow"
    <3>1. temp' = temp /\ temp \in Contents /\ db' \in Contents /\ Walks(c, "tidy")
      BY <1>5, <2>5, RestoreEffect DEF SafetyCopyFits
    <3> QED
      BY <1>2, <1>4, <3>1, WalkFacts DEF SafetyCopyFits, Whole, GoingBack
  <2>6. CASE k.pc = "tidy"
    <3>1. temp \in Contents /\ db # Torn
      BY <2>6 DEF SafetyCopyFits, Whole
    <3>2. temp' = NoFile /\ UNCHANGED db /\ Walks(c, "backCut")
      BY <1>5, <2>6, RestoreEffect
    <3> QED
      BY <1>4, <3>1, <3>2, WalkFacts DEF SafetyCopyFits, Whole
  <2> QED
    BY <1>5, <2>1, <2>2, <2>3, <2>4, <2>5, <2>6, RestoreEffect
<1>6. CASE WayBack(c)
  <2>1. k.pc \in GoingBack
    BY <1>6, BackEffect DEF GoingBack
  <2>2. CASE k.pc = "backCut"
    <3>1. CASE temp = NoFile
      <4>1. Leaves(c, FALSE) /\ UNCHANGED <<db, temp>>
        BY <1>6, <2>2, <3>1, BackEffect
      <4>2. db # Torn
        BY <1>2, <2>2, <3>1 DEF SafetyCopyFits, Whole, File
      <4> QED
        BY <1>3, <3>1, <4>1, <4>2
    <3>2. CASE temp # NoFile
      <4>1. temp' = temp /\ temp \in Contents /\ Walks(c, "backCopy")
        BY <1>6, <2>2, <3>2, BackEffect DEF SafetyCopyFits
      <4> QED
        BY <1>4, <4>1, WalkFacts DEF SafetyCopyFits
    <3> QED
      BY <3>1, <3>2
  <2>3. CASE k.pc = "backCopy"
    <3>1. temp \in Contents
      BY <2>3 DEF SafetyCopyFits
    <3>2. db' = temp /\ temp' = temp /\ Walks(c, "backTidy")
      BY <1>2, <1>6, <2>3, <3>1, BackEffect
    <3> QED
      BY <1>2, <1>4, <3>1, <3>2, WalkFacts DEF SafetyCopyFits, Whole
  <2>4. CASE k.pc = "backTidy"
    <3>1. db # Torn
      BY <2>4 DEF SafetyCopyFits, Whole
    <3> QED
      BY <1>3, <1>6, <2>4, <3>1, BackEffect
  <2> QED
    BY <2>1, <2>2, <2>3, <2>4 DEF GoingBack
<1> QED
  BY <1>1, <1>5, <1>6

LEMMA StepKeepsRestores ==
    ASSUME CallsFit, DiskFits, OneByOneCalls, RestoresFit, BackupsFit, NEW c \in Callers, Work(c)
    PROVE  RestoresFit'
<1> SUFFICES ASSUME Intact'
             PROVE  /\ (\A x \in Callers : ~Restoring(x)') => Whole' /\ temp' = NoFile
                    /\ \A x \in Callers : Restoring(x)' => SafetyCopyFits(x)'
  BY DEF RestoresFit
<1>1. Intact /\ "overlap" \notin incidents
  BY DEF Intact, Work
<1>2. \A x \in Callers \ {c} : ~Restoring(x) /\ ~Restoring(x)'
  BY <1>1, OnlyOne DEF Restoring
<1>3. CASE ~Restoring(c)
  <2>1. \A x \in Callers : ~Restoring(x) /\ ~Restoring(x)'
    BY <1>1, <1>2, <1>3, OnlyOne, IdleFacts DEF Restoring
  <2>2. UNCHANGED <<db, temp>>
    BY <1>1, <1>3, OnlyOne, StepActs
  <2> QED
    BY <1>1, <2>1, <2>2 DEF RestoresFit, Whole
<1>4. CASE Restoring(c)
  <2>1. SafetyCopyFits(c) /\ Step(c)
    BY <1>1, <1>4, OnlyOne DEF RestoresFit
  <2>2. calls[c].pc = "pipe" /\ calls[c].id \in DOMAIN files => files[calls[c].id] \in Contents
    <3> SUFFICES ASSUME calls[c].pc = "pipe", calls[c].id \in DOMAIN files
                 PROVE  files[calls[c].id] \in Contents
      OBVIOUS
    <3>1. PICK e \in meta : e.id = calls[c].id
      BY <2>1 DEF SafetyCopyFits, Ids
    <3>2. e \in Known
      BY <3>1, KnownFacts
    <3> QED
      BY <1>1, <3>1, <3>2 DEF BackupsFit
  <2>3. /\ Restoring(c)' => SafetyCopyFits(c)'
        /\ ~Restoring(c)' => Whole' /\ temp' = NoFile
    BY <1>4, <2>1, <2>2, RestoreTakesItsWay
  <2> QED
    BY <1>2, <2>3
<1> QED
  BY <1>3, <1>4

LEMMA StepKeepsBackups ==
    ASSUME CallsFit, DiskFits, EntriesFit, OneByOneCalls, RestoresFit, BackupsFit,
           NEW c \in Callers, Work(c)
    PROVE  BackupsFit'
<1> DEFINE k == calls[c]
<1> SUFFICES ASSUME Intact'
             PROVE  /\ \A e \in Known' : e.id \in DOMAIN files' => files'[e.id] \in Contents
                    /\ \A x \in Callers : Creating(x)' =>
                          /\ calls'[x].pc = "copy" => calls'[x].snap = db'
                          /\ calls'[x].pc \in Saving /\ calls'[x].id \in DOMAIN files'
                                => files'[calls'[x].id] \in Contents
  BY DEF BackupsFit
<1>1. Intact /\ "overlap" \notin incidents
  BY DEF Intact, Work
<1>2. CallGoes(c) /\ DiskGoes(c) /\ Step(c)
  BY StepGoes DEF Work
<1>3. \A e \in Known : e.id \in DOMAIN files => files[e.id] \in Contents
  BY <1>1 DEF BackupsFit
<1>4. /\ Writes(c) \/ k.pc = "saveWrite" => Creating(c)
      /\ Writes(c) => \A e \in Known : e.id # k.id
  BY CallFacts, PcFacts DEF Creating, Writes, Saving, Early, EntriesFit
<1>5. ASSUME NEW e \in Known', e.id \in DOMAIN files' PROVE files'[e.id] \in Contents
  <2>1. CASE e \in Known
    BY <1>2, <1>3, <1>4, <1>5, <2>1 DEF DiskGoes
  <2>2. CASE k.pc = "saveWrite" /\ e = Entered(c)
    <3>1. e.id = k.id /\ ~Writes(c)
      BY <2>2 DEF Entered, Writes
    <3>2. k.id \in DOMAIN files /\ files'[k.id] = files[k.id]
      BY <1>2, <1>5, <3>1 DEF DiskGoes
    <3> QED
      BY <1>1, <1>4, <2>2, <3>1, <3>2 DEF BackupsFit, Saving
  <2> QED
    BY <1>2, <2>1, <2>2, KnownGoes DEF Knows
<1>6. \A x \in Callers \ {c} : ~Creating(x)'
  BY <1>1, OnlyOne DEF Creating
<1>7. ASSUME Creating(c)'
      PROVE  /\ calls'[c].pc = "copy" => calls'[c].snap = db'
             /\ calls'[c].pc \in Saving /\ calls'[c].id \in DOMAIN files'
                   => files'[calls'[c].id] \in Contents
  <2>1. k.op = "create" /\ calls'[c].id = k.id /\ UNCHANGED <<db, temp>>
    BY <1>1, <1>7, OnlyOne, IdleFacts, StepActs DEF Creating, Restoring
  <2>2. db \in Contents
    <3>1. \A x \in Callers : ~Restoring(x)
      BY <1>1, <2>1, OnlyOne DEF Restoring
    <3> QED
      BY <1>1, <3>1 DEF RestoresFit, Whole, DiskFits, File
  <2>3. CASE k.pc = "open"
    BY <2>1, <2>3, <1>2, CreateEffect, SaveEffect, CleanEffect, DeleteEffect, RemoveEffect,
       RestoreEffect, BackEffect, VerifyEffect DEF Step, Moves, Saving, Removing, Dropping
  <2>4. CASE k.pc = "copy"
    <3>1. CreateBackup(c) /\ k.snap = db
      BY <1>1, <1>2, <2>1, <2>4, SaveEffect, CleanEffect, DeleteEffect, RemoveEffect,
         RestoreEffect, BackEffect, VerifyEffect
         DEF Step, Removing, Dropping, BackupsFit, Creating
    <3>2. files' = [files EXCEPT ![k.id] = db] /\ calls'[c].pc = "saveRead"
      BY <2>4, <3>1, CreateEffect DEF Seen, Moves
    <3> QED
      BY <2>1, <2>2, <3>2
  <2>5. CASE k.pc \notin {"open", "copy"}
    <3>1. /\ ~Writes(c)
          /\ calls'[c].pc \in Saving => k.pc \in Saving
          /\ calls'[c].pc # "copy"
      <4>1. k.pc \notin {"open", "copy"} /\ ~Writes(c)
        BY <2>5 DEF Writes
      <4>2. calls'[c].pc \in Early => k.pc \in Saving
        BY <1>2, <4>1 DEF CallGoes, Early
      <4>3. calls'[c].pc # "copy"
        BY <1>2, <4>1, CopyFollowsOpen
      <4> QED
        BY <4>1, <4>2, <4>3 DEF Early
    <3> QED
      BY <1>1, <1>2, <2>1, <3>1 DEF DiskGoes, BackupsFit, Creating
  <2> QED
    BY <2>3, <2>4, <2>5
<1> QED
  BY <1>5, <1>6, <1>7

-----------------------------------------------------------------------------
(* The clean-up and the directory.                                         *)

LEMMA SizesOfSubsets ==
    ASSUME NEW n \in Nat, NEW D \in SUBSET (1 .. n), NEW E \in SUBSET D
    PROVE  /\ IsFiniteSet(E) /\ Cardinality(E) \in Nat /\ Cardinality(D) \in Nat
           /\ Cardinality(E) <= Cardinality(D)
<1>1. IsFiniteSet(1 .. n)
  BY FS_Interval
<1>2. IsFiniteSet(D)
  BY <1>1, FS_Subset
<1>3. IsFiniteSet(E) /\ Cardinality(E) <= Cardinality(D)
  BY <1>2, FS_Subset
<1> QED
  BY <1>2, <1>3, FS_CardinalityType

(* Entries and the backups that they name, one to one.                     *)
LEMMA EntriesAreCounted ==
    ASSUME NEW list, \A e, f \in list : e.id = f.id => e = f, IsFiniteSet(Ids(list))
    PROVE  IsFiniteSet(list) /\ Cardinality(list) = Cardinality(Ids(list))
<1> DEFINE of(i) == CHOOSE e \in list : e.id = i
           g == [i \in Ids(list) |-> of(i)]
<1>1. \A i \in Ids(list) : of(i) \in list /\ of(i).id = i
  BY DEF Ids
<1>2. \A e \in list : e.id \in Ids(list) /\ of(e.id) = e
  BY DEF Ids
<1> HIDE DEF of
<1>3. g \in Bijection(Ids(list), list)
  <2>1. g \in [Ids(list) -> list]
    BY <1>1
  <2>2. \A i, j \in Ids(list) : g[i] = g[j] => i = j
    BY <1>1
  <2>3. \A e \in list : \E i \in Ids(list) : g[i] = e
    BY <1>2
  <2> QED
    BY <2>1, <2>2, <2>3 DEF Bijection, Injection, Surjection, IsInjective
<1>4. ExistsBijection(Ids(list), list)
  BY <1>3 DEF ExistsBijection
<1> QED
  BY <1>4, FS_Bijection

(* The clean-up leaves maxBackups or fewer; whatever it takes away, it     *)
(* leaves something newer.                                                 *)
LEMMA TooManyFacts ==
    ASSUME NEW n \in Nat, NEW list, Ids(list) \in SUBSET (1 .. n),
           \A e, f \in list : e.id = f.id => e = f
    PROVE  /\ TooMany(list) \subseteq Ids(list)
           /\ Few(Ids(list) \ TooMany(list))
           /\ \A i \in TooMany(list) : \E j \in Ids(list) : j > i
<1> DEFINE D == Ids(list)
           T == TooMany(list)
           From(i) == {f \in list : f.id >= i}
<1>1. \A e, f \in list : e.id = f.id => e = f
  OBVIOUS
<1>2. ASSUME NEW i \in D
      PROVE  /\ Cardinality(From(i)) = Cardinality({j \in D : j >= i})
             /\ Cardinality(From(i)) \in Nat
  <2>1. Ids(From(i)) = {j \in D : j >= i}
    BY DEF Ids
  <2>2. IsFiniteSet(Ids(From(i))) /\ Cardinality(Ids(From(i))) \in Nat
    BY <2>1, SizesOfSubsets
  <2> QED
    BY <1>1, <2>1, <2>2, EntriesAreCounted
<1>3. T = {i \in D : Cardinality(From(i)) > MaxBackups}
  BY DEF TooMany, Ids
<1>4. MaxBackups \in Nat /\ MaxBackups >= 1
  BY BackupAssumption
<1> HIDE DEF From, T
<1>5. T \subseteq D
  BY <1>3
<1>6. Few(D \ T)
  <2>1. CASE D \ T = {}
    BY <1>4, <2>1, FS_EmptySet DEF Few
  <2>2. CASE D \ T # {}
    <3>1. D \ T \in SUBSET Nat
      OBVIOUS
    <3>2. PICK m \in D \ T : \A k \in D \ T : m <= k
      BY <2>2, <3>1, LeastMember
    <3>3. m \in D /\ m \in Nat
      BY <3>1
    <3>4. ~ Cardinality(From(m)) > MaxBackups
      BY <1>3, <3>2
    <3>5. D \ T \subseteq {j \in D : j >= m}
      BY <3>1, <3>2
    <3>6. /\ Cardinality(D \ T) \in Nat
          /\ Cardinality(D \ T) <= Cardinality({j \in D : j >= m})
      <4>1. {j \in D : j >= m} \in SUBSET (1 .. n)
        OBVIOUS
      <4> QED
        BY <3>5, <4>1, SizesOfSubsets
    <3> QED
      BY <1>2, <1>4, <3>3, <3>4, <3>6 DEF Few
  <2> QED
    BY <2>1, <2>2
<1>7. ASSUME NEW i \in T PROVE \E j \in D : j > i
  <2> SUFFICES ASSUME \A j \in D : ~ j > i PROVE FALSE
    OBVIOUS
  <2>1. i \in D /\ i \in Nat /\ Cardinality(From(i)) > MaxBackups
    BY <1>3, <1>7
  <2>2. {j \in D : j >= i} = {i}
    BY <2>1
  <2>3. Cardinality({i}) = 1
    BY FS_Singleton
  <2> QED
    BY <1>2, <1>4, <2>1, <2>2, <2>3
<1> QED
  BY <1>5, <1>6, <1>7 DEF T

(* What DirectoryFits says of one call, when it is the only one.           *)
DirectoryOf(c) ==
    /\ calls[c].op = "idle" => Tidy
    /\ Creating(c) => CreationFits(c)
    /\ calls[c].op = "delete" => Few(DOMAIN files)
    /\ calls[c].op \in {"create", "delete"} => RemovalFits(c)
    /\ calls[c].op \in {"restore", "verify"} => UseFits(c)

LEMMA TidyGoes ==
    ASSUME NEW c \in Callers, NEW ok, Leaves(c, ok), Tidy'
    PROVE  DirectoryOf(c)'
  BY IdleFacts DEF Leaves, DirectoryOf, Creating

LEMMA ExactStays ==
    ASSUME NEW list, NEW ids, Exact(list, ids), \A i \in ids : files'[i] = files[i]
    PROVE  Ids(list) = ids /\ \A e \in list : e.checksum = files'[e.id]
  BY DEF Exact, Ids

LEMMA CreateKeepsDirectory ==
    ASSUME CallsFit, DiskFits, EntriesFit, NEW c \in Callers, CreateBackup(c), DirectoryOf(c)
    PROVE  DirectoryOf(c)'
<1> DEFINE k == calls[c]
           rest == DOMAIN files \ {k.id}
<1>1. k.op = "create" /\ UNCHANGED meta /\ CreationFits(c)
  BY CreateEffect DEF DirectoryOf, Creating
<1>2. CASE k.pc = "open"
  <2>1. /\ Moves(c, "copy", db, k.read, k.todo)
        /\ files' = [i \in DOMAIN files \cup {k.id} |-> IF i = k.id THEN Torn ELSE files[i]]
    BY <1>2, CreateEffect
  <2>2. k.id \notin DOMAIN files /\ Exact(meta, DOMAIN files)
    BY <1>1, <1>2 DEF EntriesFit, CreationFits, Tidy
  <2>3. /\ DOMAIN files' \ {k.id} = DOMAIN files /\ k.id \in DOMAIN files'
        /\ Few(DOMAIN files) /\ k.id = begun.ids /\ begun' = begun
    BY <1>1, <1>2, <2>1, <2>2 DEF CreationFits, Tidy, Moves, Alone
  <2>4. Ids(meta) = DOMAIN files /\ \A e \in meta : e.checksum = files'[e.id]
    BY <2>1, <2>2, ExactStays
  <2>5. CreationFits(c)'
    BY <1>1, <2>1, <2>3, <2>4 DEF Moves, CreationFits, Exact, Few, Saving, Removing, Dropping
  <2> QED
    BY <1>1, <2>1, <2>5
       DEF Moves, DirectoryOf, Creating, RemovalFits, Dropping
<1>3. CASE k.pc = "copy"
  <2>1. PICK content \in File : /\ Moves(c, "saveRead", content, k.read, k.todo)
                                /\ files' = [files EXCEPT ![k.id] = content]
    BY <1>3, CreateEffect
  <2>2. /\ k.id \in DOMAIN files /\ Exact(meta, rest) /\ Few(rest)
        /\ k.id = begun.ids /\ begun' = begun
    BY <1>1, <1>3, <2>1 DEF CreationFits, Dropping, Moves, Alone
  <2>3. DOMAIN files' = DOMAIN files /\ files'[k.id] = content
    BY <2>1, <2>2
  <2>4. Ids(meta) = rest /\ \A e \in meta : e.checksum = files'[e.id]
    BY <2>1, <2>2, ExactStays
  <2>5. CreationFits(c)'
    BY <1>1, <2>1, <2>2, <2>3, <2>4 DEF Moves, CreationFits, Exact, Few, Saving, Removing, Dropping
  <2> QED
    BY <1>1, <2>1, <2>5
       DEF Moves, DirectoryOf, Creating, RemovalFits, Dropping
<1> QED
  BY <1>2, <1>3, CreateEffect

LEMMA SaveKeepsDirectory ==
    ASSUME CallsFit, DiskFits, NEW c \in Callers, SaveMetadata(c), DirectoryOf(c)
    PROVE  DirectoryOf(c)'
<1> DEFINE k == calls[c]
           rest == DOMAIN files \ {k.id}
<1>1. k.op = "create" /\ UNCHANGED files /\ CreationFits(c) /\ k.pc \in Saving
  BY SaveEffect DEF DirectoryOf, Creating, Saving
<1>2. /\ k.id \in DOMAIN files /\ files[k.id] = k.snap /\ Few(rest)
      /\ k.id = begun.ids /\ begun' = begun
  BY <1>1, StepGoes DEF CreationFits, Saving, Dropping, Step, CallGoes, Alone
<1>3. CASE k.pc = "saveRead"
  <2>1. Moves(c, "saveCut", k.snap, meta, k.todo) /\ Exact(meta, rest)
    BY <1>1, <1>3, SaveEffect DEF CreationFits
  <2>2. CreationFits(c)'
    BY <1>1, <1>2, <2>1 DEF Moves, CreationFits, Exact, Few, Saving, Removing, Dropping
  <2> QED
    BY <1>1, <2>1, <2>2 DEF Moves, DirectoryOf, Creating, RemovalFits, Dropping
<1>4. CASE k.pc = "saveCut"
  <2>1. /\ Moves(c, "saveWrite", k.snap, k.read, k.todo) /\ Exact(k.read, rest)
        /\ meta' = {}
    BY <1>1, <1>4, SaveEffect, WalkFacts DEF CreationFits
  <2>2. CreationFits(c)'
    BY <1>1, <1>2, <2>1 DEF Moves, CreationFits, Exact, Few, Saving, Removing, Dropping
  <2> QED
    BY <1>1, <2>1, <2>2 DEF Moves, DirectoryOf, Creating, RemovalFits, Dropping
<1>5. CASE k.pc = "saveWrite"
  <2>1. /\ Moves(c, "clean", k.snap, k.read, k.todo) /\ Exact(k.read, rest)
        /\ meta' = k.read \cup {Entered(c)}
    BY <1>1, <1>5, SaveEffect, WalkFacts DEF CreationFits, Entered, Written, NoList
  <2>2. Entered(c).id = k.id /\ Entered(c).checksum = k.snap
    BY DEF Entered
  <2>3. Ids(meta') = DOMAIN files
    <3>1. Ids(k.read) = DOMAIN files \ {k.id}
      BY <2>1 DEF Exact
    <3>2. Ids(k.read \cup {Entered(c)}) = Ids(k.read) \cup {k.id}
      BY <2>2 DEF Ids
    <3> QED
      BY <1>2, <2>1, <3>1, <3>2
  <2>4. \A e \in meta' : e.checksum = files[e.id]
    BY <1>2, <2>1, <2>2 DEF Exact
  <2>5. Exact(meta, DOMAIN files)'
    BY <1>1, <2>3, <2>4 DEF Exact, Ids
  <2>6. CreationFits(c)'
    BY <1>1, <1>2, <2>1, <2>5 DEF Moves, CreationFits, Few, Saving, Removing, Dropping
  <2> QED
    BY <1>1, <2>1, <2>6 DEF Moves, DirectoryOf, Creating, RemovalFits, Dropping
<1> QED
  BY <1>1, <1>3, <1>4, <1>5 DEF Saving

LEMMA CleanKeepsDirectory ==
    ASSUME CallsFit, DiskFits, EntriesFit, NEW c \in Callers, CleanupOldBackups(c), DirectoryOf(c)
    PROVE  DirectoryOf(c)'
<1> DEFINE k == calls[c]
<1>1. k.op = "create" /\ k.pc = "clean" /\ UNCHANGED disk /\ CreationFits(c)
  BY CleanEffect DEF DirectoryOf, Creating
<1>2. /\ Exact(meta, DOMAIN files) /\ k.id \in DOMAIN files /\ Few(DOMAIN files \ {k.id})
      /\ k.id = begun.ids /\ begun' = begun
  BY <1>1, StepGoes DEF CreationFits, Dropping, Step, CallGoes, Alone
<1>3. /\ TooMany(meta) \subseteq DOMAIN files /\ Few(DOMAIN files \ TooMany(meta))
      /\ k.id \notin TooMany(meta)
  <2>1. Ids(meta) = DOMAIN files /\ DOMAIN files \subseteq 1 .. begun.ids /\ begun.ids \in Nat
    BY <1>2 DEF Exact, DiskFits
  <2>2. \A e, f \in meta : e.id = f.id => e = f
    BY KnownFacts DEF EntriesFit
  <2>3. \A i \in TooMany(meta) : \E j \in DOMAIN files : j > i
    BY <2>1, <2>2, TooManyFacts
  <2>4. k.id \notin TooMany(meta)
    BY <1>2, <2>1, <2>3
  <2> QED
    BY <2>1, <2>2, <2>4, TooManyFacts
<1>4. CASE TooMany(meta) = {}
  <2>1. Few(DOMAIN files)
    BY <1>3, <1>4
  <2>2. Tidy'
    BY <1>1, <1>2, <2>1 DEF Tidy, Exact, disk
  <2> QED
    BY <1>4, <2>2, CleanEffect, TidyGoes
<1>5. CASE TooMany(meta) # {}
  <2>1. Moves(c, "find", k.snap, k.read, TooMany(meta))
    BY <1>5, CleanEffect
  <2>2. CreationFits(c)'
    BY <1>1, <1>2, <1>3, <2>1
       DEF Moves, CreationFits, Exact, Few, Saving, Removing, Dropping, disk
  <2>3. RemovalFits(c)'
    BY <1>1, <1>2, <2>1 DEF Moves, RemovalFits, Exact, Dropping, disk
  <2> QED
    BY <1>1, <2>1, <2>2, <2>3 DEF Moves, DirectoryOf, Creating
<1> QED
  BY <1>4, <1>5

LEMMA DeleteKeepsDirectory ==
    ASSUME CallsFit, DiskFits, NEW c \in Callers, DeleteBackup(c), DirectoryOf(c)
    PROVE  DirectoryOf(c)'
<1> DEFINE k == calls[c]
           lost == Doomed(c)
<1>1. /\ k.op \in {"create", "delete"} /\ k.pc \in Removing /\ UNCHANGED <<db, temp, meta>>
      /\ RemovalFits(c) /\ (Creating(c) => CreationFits(c))
      /\ (~Creating(c) => Few(DOMAIN files))
  BY DeleteEffect DEF DirectoryOf, Creating
<1>2. (Creating(c) => lost \in k.todo) /\ (~Creating(c) => lost = k.id)
  BY <1>1, DoomedFacts
<1>3. ASSUME NEW pc, Walks(c, pc)
      PROVE  /\ calls'[c].pc = pc /\ calls'[c].op = k.op /\ calls'[c].todo = k.todo
             /\ Creating(c)' = Creating(c) /\ Doomed(c)' = lost /\ calls'[c].id = k.id
             /\ calls'[c].op # "idle" /\ begun' = begun
  BY <1>1, <1>3 DEF Walks, Moves, Alone, Creating, Doomed
<1> HIDE DEF lost
<1>4. CASE k.pc = "find"
  <2>1. UNCHANGED files /\ Exact(meta, DOMAIN files)
    BY <1>1, <1>4, DeleteEffect DEF RemovalFits
  <2>2. CASE lost \notin Ids(meta)
    <3>1. ~Creating(c) /\ k.id \notin Ids(meta) /\ Tidy
      BY <1>1, <1>2, <1>4, <2>1, <2>2 DEF CreationFits, Exact, Tidy
    <3>2. Leaves(c, FALSE)
      BY <1>4, <2>2, DeleteEffect DEF lost
    <3>3. Tidy'
      BY <1>1, <2>1, <3>1 DEF Tidy, Exact
    <3> QED
      BY <3>2, <3>3, TidyGoes
  <2>3. CASE lost \in Ids(meta)
    <3>1. Walks(c, "unlink") /\ lost \in DOMAIN files
      <4>1. Walks(c, "unlink")
        BY <1>4, <2>3, DeleteEffect DEF lost
      <4> QED
        BY <2>1, <2>3, <4>1 DEF Exact
    <3>2. RemovalFits(c)'
      BY <1>1, <1>3, <2>1, <3>1 DEF RemovalFits, Exact, Dropping
    <3>3. Creating(c)' => CreationFits(c)'
      <4>1. /\ calls'[c].pc = "unlink" /\ calls'[c].todo = k.todo /\ calls'[c].id = k.id
            /\ Creating(c)' = Creating(c) /\ begun' = begun
        BY <1>3, <3>1
      <4>2. Creating(c) => /\ Few(DOMAIN files \ {k.id}) /\ k.todo \subseteq DOMAIN files
                           /\ k.id \notin k.todo /\ k.id \in DOMAIN files /\ k.id = begun.ids
        BY <1>1, <1>4 DEF CreationFits, Removing, Dropping
      <4> QED
        BY <2>1, <4>1, <4>2 DEF CreationFits, Few, Removing, Dropping, Saving
    <3>4. DirectoryOf(c)'
      BY <1>1, <1>3, <2>1, <3>1, <3>2, <3>3 DEF DirectoryOf, Creating
    <3> QED
      BY <3>4
  <2> QED
    BY <2>2, <2>3
<1>5. CASE k.pc = "unlink"
  <2>1. lost \in DOMAIN files /\ Exact(meta, DOMAIN files)
    BY <1>1, <1>5 DEF RemovalFits, lost
  <2>2. files' = [i \in DOMAIN files \ {lost} |-> files[i]] /\ Walks(c, "dropRead")
    BY <1>5, <2>1, DeleteEffect DEF lost
  <2>3. DOMAIN files' = DOMAIN files \ {lost}
    BY <2>2
  <2>4. /\ Ids(Others(meta, lost)) = DOMAIN files'
        /\ \A e \in Others(meta, lost) : e.checksum = files'[e.id]
    <3>1. Ids(Others(meta, lost)) = DOMAIN files \ {lost}
      BY <2>1 DEF Exact, Ids, Others
    <3>2. \A e \in Others(meta, lost) : e.checksum = files'[e.id]
      BY <2>1, <2>2, <3>1 DEF Exact, Ids, Others
    <3> QED
      BY <2>3, <3>1, <3>2
  <2>5. RemovalFits(c)'
    <3>1. calls'[c].pc = "dropRead" /\ Doomed(c)' = lost
      BY <1>3, <2>2
    <3>2. lost \notin DOMAIN files'
      BY <2>3
    <3>3. Exact(Others(meta, Doomed(c)), DOMAIN files)'
      BY <1>1, <2>4, <3>1 DEF Exact
    <3> QED
      BY <3>1, <3>2, <3>3 DEF RemovalFits, Dropping
  <2>6. Creating(c)' => CreationFits(c)'
    <3> SUFFICES ASSUME Creating(c) PROVE CreationFits(c)'
      BY <1>3, <2>2
    <3>1. /\ Few(DOMAIN files \ {k.id}) /\ k.id \in DOMAIN files /\ k.id = begun.ids
          /\ k.id \notin k.todo /\ lost \in k.todo
      BY <1>1, <1>2, <1>5 DEF CreationFits, Removing, Dropping
    <3>2. /\ calls'[c].pc = "dropRead" /\ calls'[c].todo = k.todo /\ calls'[c].id = k.id
          /\ begun' = begun /\ k.id \in DOMAIN files'
      BY <1>3, <2>2, <2>3, <3>1
    <3>3. Few(DOMAIN files')
      <4>1. DOMAIN files \in SUBSET (1 .. begun.ids) /\ begun.ids \in Nat
        BY DEF DiskFits
      <4>2. IsFiniteSet(DOMAIN files)
        BY <4>1, SizesOfSubsets
      <4>3. /\ Cardinality(DOMAIN files \ {k.id}) = Cardinality(DOMAIN files) - 1
            /\ Cardinality(DOMAIN files \ {lost}) = Cardinality(DOMAIN files) - 1
        BY <2>1, <3>1, <4>2, FS_RemoveElement
      <4> QED
        BY <2>3, <3>1, <4>3 DEF Few
    <3> QED
      BY <3>1, <3>2, <3>3 DEF CreationFits, Few, Removing, Dropping, Saving
  <2>7. ~Creating(c) => Few(DOMAIN files')
    <3> SUFFICES ASSUME ~Creating(c) PROVE Few(DOMAIN files')
      OBVIOUS
    <3>1. Few(DOMAIN files) /\ DOMAIN files \in SUBSET (1 .. begun.ids) /\ begun.ids \in Nat
      BY <1>1 DEF DiskFits
    <3>2. /\ Cardinality(DOMAIN files') <= Cardinality(DOMAIN files)
          /\ Cardinality(DOMAIN files') \in Nat /\ Cardinality(DOMAIN files) \in Nat
      <4>1. DOMAIN files' \in SUBSET DOMAIN files /\ DOMAIN files' \in SUBSET (1 .. begun.ids)
        BY <2>3, <3>1
      <4> QED
        BY <3>1, <4>1, SizesOfSubsets
    <3> QED
      BY <3>1, <3>2, BackupAssumption DEF Few
  <2>8. DirectoryOf(c)'
    BY <1>1, <1>3, <2>2, <2>5, <2>6, <2>7 DEF DirectoryOf, Creating
  <2> QED
    BY <2>8
<1> QED
  BY <1>4, <1>5, DeleteEffect

LEMMA RemoveKeepsDirectory ==
    ASSUME CallsFit, DiskFits, NEW c \in Callers, RemoveMetadata(c), DirectoryOf(c)
    PROVE  DirectoryOf(c)'
<1> DEFINE k == calls[c]
           lost == Doomed(c)
<1>1. /\ k.op \in {"create", "delete"} /\ k.pc \in Dropping /\ UNCHANGED <<db, temp, files>>
      /\ RemovalFits(c) /\ (Creating(c) => CreationFits(c))
      /\ (~Creating(c) => Few(DOMAIN files))
  BY RemoveEffect DEF DirectoryOf, Creating
<1>2. /\ lost \notin DOMAIN files /\ Few(DOMAIN files)
      /\ Creating(c) => k.id \in DOMAIN files /\ k.id \notin k.todo /\ k.id = begun.ids
  BY <1>1 DEF RemovalFits, CreationFits, Removing, Dropping, lost
<1>3. ASSUME NEW pc \in {"dropCut", "dropWrite"}, NEW read, Moves(c, pc, k.snap, read, k.todo),
             Exact(Others(read, lost), DOMAIN files), pc = "dropWrite" => meta' = {}
      PROVE  DirectoryOf(c)'
  <2>1. /\ calls'[c].pc = pc /\ calls'[c].op = k.op /\ calls'[c].todo = k.todo
        /\ Creating(c)' = Creating(c) /\ Doomed(c)' = lost /\ calls'[c].read = read
        /\ calls'[c].id = k.id /\ begun' = begun
    BY <1>3 DEF Moves, Alone, Creating, Doomed
  <2> HIDE DEF lost
  <2>2. RemovalFits(c)'
    BY <1>1, <1>2, <1>3, <2>1 DEF RemovalFits, Exact, Dropping
  <2>3. Creating(c)' => CreationFits(c)'
    BY <1>1, <1>2, <1>3, <2>1 DEF CreationFits, Few, Removing, Dropping, Saving
  <2> QED
    BY <1>1, <1>2, <2>1, <2>2, <2>3 DEF DirectoryOf, Creating, Few
<1>4. CASE k.pc = "dropRead"
  BY <1>1, <1>3, <1>4, RemoveEffect DEF RemovalFits
<1>5. CASE k.pc = "dropCut"
  BY <1>1, <1>3, <1>5, RemoveEffect, WalkFacts DEF RemovalFits
<1>6. CASE k.pc = "dropWrite"
  <2>1. meta' = Others(k.read, lost) /\ Exact(meta', DOMAIN files) /\ Leaves(c, FALSE)
    BY <1>1, <1>6, RemoveEffect DEF RemovalFits, Written, NoList
  <2>2. Tidy'
    BY <1>1, <1>2, <2>1 DEF Tidy, Exact, Ids, Few
  <2> QED
    BY <2>1, <2>2, TidyGoes
<1> QED
  BY <1>1, <1>4, <1>5, <1>6 DEF Dropping

(* A call that only reads the directory.                                   *)
LEMMA UseKeepsDirectory ==
    ASSUME CallsFit, DiskFits, NEW c \in Callers, DirectoryOf(c),
           RestoreBackup(c) \/ WayBack(c) \/ VerifyBackup(c)
    PROVE  DirectoryOf(c)'
<1> DEFINE k == calls[c]
<1>1. k.op \in {"restore", "verify"} /\ UNCHANGED <<files, meta>> /\ UseFits(c)
  BY RestoreEffect, BackEffect, VerifyEffect DEF DirectoryOf, disk
<1>2. /\ Tidy /\ Tidy' /\ Ids(meta) = DOMAIN files
      /\ \A e \in meta : e.checksum = files[e.id]
  BY <1>1 DEF UseFits, Tidy, Exact
<1>3. ASSUME NEW ok, Leaves(c, ok)
      PROVE  DirectoryOf(c)'
  BY <1>2, <1>3, TidyGoes
<1>4. ASSUME NEW pc, NEW snap, NEW read, Moves(c, pc, snap, read, k.todo),
             pc \notin {"backCopy", "backTidy"}, k.id \in DOMAIN files,
             pc = "flow" => snap = files[k.id],
             pc \in {"tidy", "backCut"} => db' = files[k.id],
             pc = "backCut" => temp' = NoFile,
             pc = "sum" => read = GetBackupMetadata(k.id)
      PROVE  DirectoryOf(c)'
  <2>1. /\ calls'[c].op = k.op /\ calls'[c].id = k.id /\ calls'[c].pc = pc
        /\ calls'[c].read = read
    BY <1>4 DEF Moves
  <2>2. GetBackupMetadata(k.id)' = GetBackupMetadata(k.id) /\ calls'[c].snap = snap
    BY <1>1, <1>4 DEF Moves, GetBackupMetadata, ListBackups
  <2>3. UseFits(c)'
    <3> DEFINE l == calls'[c]
    <3>1. Tidy' /\ l.pc \notin {"backCopy", "backTidy"}
      BY <1>2, <1>4, <2>1
    <3>2. /\ l.id \in DOMAIN files'
          /\ l.pc = "flow" => l.snap = files'[l.id]
          /\ l.pc \in {"tidy", "backCut"} => db' = files'[l.id]
          /\ l.pc = "backCut" => temp' = NoFile
      BY <1>1, <1>4, <2>1, <2>2
    <3>3. l.pc = "sum" => l.read = GetBackupMetadata(k.id)'
      BY <1>4, <2>1, <2>2
    <3> QED
      BY <3>1, <3>2, <3>3 DEF UseFits
  <2> QED
    BY <1>1, <2>1, <2>3 DEF DirectoryOf, Creating
<1>5. CASE RestoreBackup(c)
  <2>1. k.pc # "find" => k.id \in DOMAIN files
    BY <1>1 DEF UseFits
  <2>2. CASE k.pc = "find"
    <3>1. CASE k.id \notin Ids(meta)
      BY <1>3, <1>5, <2>2, <3>1, RestoreEffect
    <3>2. CASE k.id \in Ids(meta)
      <4>1. Moves(c, "safeCut", k.snap, k.read, k.todo)
        BY <1>5, <2>2, <3>2, RestoreEffect, WalkFacts
      <4> QED
        BY <1>2, <1>4, <3>2, <4>1
    <3> QED
      BY <3>1, <3>2
  <2>3. CASE k.pc = "safeCut"
    <3>1. Moves(c, "safeCopy", db, k.read, k.todo)
      BY <1>5, <2>3, RestoreEffect
    <3> QED
      BY <1>4, <2>1, <2>3, <3>1
  <2>4. CASE k.pc = "safeCopy"
    <3>1. Moves(c, "pipe", k.snap, k.read, k.todo)
      BY <1>5, <2>4, RestoreEffect, WalkFacts
    <3> QED
      BY <1>4, <2>1, <2>4, <3>1
  <2>5. CASE k.pc = "pipe"
    <3>1. Moves(c, "flow", files[k.id], k.read, k.todo)
      BY <1>5, <2>1, <2>5, RestoreEffect
    <3> QED
      BY <1>4, <2>1, <2>5, <3>1
  <2>6. CASE k.pc = "flow"
    <3>1. Moves(c, "tidy", k.snap, k.read, k.todo) /\ db' = files[k.id]
      BY <1>1, <1>5, <2>6, RestoreEffect, WalkFacts DEF UseFits
    <3> QED
      BY <1>4, <2>1, <2>6, <3>1
  <2>7. CASE k.pc = "tidy"
    <3>1. Moves(c, "backCut", k.snap, k.read, k.todo) /\ db' = files[k.id] /\ temp' = NoFile
      BY <1>1, <1>5, <2>7, RestoreEffect, WalkFacts DEF UseFits
    <3> QED
      BY <1>4, <2>1, <2>7, <3>1
  <2> QED
    BY <1>5, <2>2, <2>3, <2>4, <2>5, <2>6, <2>7, RestoreEffect
<1>6. CASE WayBack(c)
  <2>1. k.pc = "backCut" /\ temp = NoFile
    BY <1>1, <1>6, BackEffect DEF UseFits
  <2> QED
    BY <1>3, <1>6, <2>1, BackEffect
<1>7. CASE VerifyBackup(c)
  <2>1. CASE k.pc = "find" /\ k.id \in Ids(meta)
    BY <1>2, <1>4, <1>7, <2>1, VerifyEffect
  <2>2. CASE ~(k.pc = "find" /\ k.id \in Ids(meta))
    BY <1>3, <1>7, <2>2, VerifyEffect
  <2> QED
    BY <2>1, <2>2
<1> QED
  BY <1>5, <1>6, <1>7

LEMMA StepOfDirectory ==
    ASSUME CallsFit, DiskFits, EntriesFit, NEW c \in Callers, Step(c), DirectoryOf(c)
    PROVE  DirectoryOf(c)'
  BY CreateKeepsDirectory, SaveKeepsDirectory, CleanKeepsDirectory, DeleteKeepsDirectory,
     RemoveKeepsDirectory, UseKeepsDirectory DEF Step

LEMMA UndisturbedFacts ==
    Undisturbed => "overlap" \notin incidents /\ "crash" \notin incidents
                     /\ "cutRestore" \notin incidents /\ Intact
  BY DEF Undisturbed, Damage, Intact

LEMMA DirectoryAtWork ==
    ASSUME CallsFit, DiskFits, OneByOneCalls, DirectoryFits, Undisturbed,
           NEW c \in Callers, Work(c)
    PROVE  /\ DirectoryOf(c) /\ Step(c) /\ incidents' = incidents
           /\ \A x \in Callers \ {c} :
                 calls[x].op = "idle" /\ calls[x].pc = "idle" /\ calls'[x] = calls[x]
<1>1. Step(c) /\ calls[c].op # "idle" /\ incidents' = incidents
  BY UndisturbedFacts, OnlyOne
<1>2. DirectoryOf(c)
  BY <1>1 DEF DirectoryFits, DirectoryOf
<1> QED
  BY <1>1, <1>2, UndisturbedFacts, OnlyOne

LEMMA StepKeepsDirectory ==
    ASSUME CallsFit, DiskFits, EntriesFit, OneByOneCalls, DirectoryFits,
           NEW c \in Callers, Work(c)
    PROVE  DirectoryFits'
<1> SUFFICES ASSUME Undisturbed' PROVE DirectoryFits'
  BY DEF DirectoryFits
<1>1. Undisturbed
  BY DEF Undisturbed, Work
<1>2. \A x \in Callers \ {c} : calls'[x].op = "idle" /\ calls'[x].pc = "idle"
  BY <1>1, DirectoryAtWork
<1>3. DirectoryOf(c)'
  BY <1>1, DirectoryAtWork, StepOfDirectory
<1>4. calls'[c].pc = "idle" => calls'[c].op = "idle"
  <2>1. StepsFit(calls'[c])
    BY StepGoes DEF Work, CallGoes
  <2> QED
    BY <2>1, PcFacts
<1>5. (\A x \in Callers : ~Busy(x)') => Tidy'
  BY <1>3, <1>4 DEF Busy, Reached, DirectoryOf
<1>6. ASSUME NEW x \in Callers
      PROVE  /\ Creating(x)' => CreationFits(x)'
             /\ calls'[x].op = "delete" => Few(DOMAIN files)'
             /\ calls'[x].op \in {"create", "delete"} => RemovalFits(x)'
             /\ calls'[x].op \in {"restore", "verify"} => UseFits(x)'
  <2>1. CASE x = c
    BY <1>3, <2>1 DEF DirectoryOf
  <2>2. CASE x # c
    BY <1>2, <2>2 DEF Creating
  <2> QED
    BY <2>1, <2>2
<1> QED
  BY <1>5, <1>6 DEF DirectoryFits

(* What a call has done when it ends.                                      *)
LEMMA EndedIsDone ==
    ASSUME CallsFit, DiskFits, EntriesFit, OneByOneCalls, DirectoryFits, Undisturbed,
           NEW c \in Callers, Work(c), ~Busy(c)'
    PROVE  HasDone(c)
<1> DEFINE k == calls[c]
<1>1. DirectoryOf(c) /\ Step(c)
  BY DirectoryAtWork
<1>2. calls'[c] = Idle
  <2>1. calls'[c].pc = "idle" /\ CallGoes(c)
    BY <1>1, StepGoes DEF Busy, Reached
  <2>2. calls'[c].op = "idle"
    BY <2>1, PcFacts DEF CallGoes
  <2> QED
    BY <2>1, <2>2 DEF CallGoes
<1>3. Tidy' /\ meta' \in SUBSET Entry
  BY <1>1, <1>2, StepGoes, StepOfDirectory, IdleFacts DEF DirectoryOf, DiskGoes
<1>4. ASSUME k.op = "create", k.id \in DOMAIN files', ~said'.ok PROVE HasDone(c)
  <2>1. Exact(meta, DOMAIN files)'
    BY <1>3 DEF Tidy
  <2>2. PICK e \in meta' : e.id = k.id /\ e.checksum = files'[k.id]
    BY <1>4, <2>1 DEF Exact, Ids
  <2>3. e = [id |-> k.id, checksum |-> files'[k.id]]
    BY <1>3, <2>2 DEF Entry
  <2> QED
    BY <1>4, <2>2, <2>3 DEF HasDone
<1>5. ASSUME k.op = "delete", k.id \notin DOMAIN files', ~said'.ok PROVE HasDone(c)
  <2>1. Ids(meta') = DOMAIN files'
    BY <1>3 DEF Tidy, Exact, Ids
  <2> QED
    BY <1>5, <2>1 DEF HasDone
<1>6. CASE CreateBackup(c) \/ SaveMetadata(c)
  BY <1>2, <1>6, CreateEffect, SaveEffect, IdleFacts DEF Moves, Walks
<1>7. CASE CleanupOldBackups(c)
  <2>1. k.op = "create" /\ k.pc = "clean" /\ files' = files /\ ~said'.ok
    BY <1>2, <1>7, CleanEffect, IdleFacts DEF Moves, Leaves, disk
  <2> QED
    BY <1>1, <1>4, <2>1 DEF DirectoryOf, Creating, CreationFits
<1>8. CASE DeleteBackup(c)
  <2>1. k.op \in {"create", "delete"} /\ files' = files /\ ~said'.ok /\ k.pc \in {"find", "unlink"}
    BY <1>2, <1>8, DeleteEffect, IdleFacts DEF Moves, Walks, Leaves
  <2>2. Exact(meta, DOMAIN files) /\ (k.pc = "unlink" => Doomed(c) \in DOMAIN files)
    BY <1>1, <2>1 DEF DirectoryOf, RemovalFits
  <2>3. CASE k.op = "create"
    BY <1>1, <1>4, <2>1, <2>3 DEF DirectoryOf, Creating, CreationFits
  <2>4. CASE k.op = "delete"
    <3>1. Doomed(c) = k.id /\ ~Walks(c, "unlink") /\ ~Walks(c, "dropRead")
      BY <1>2, <2>4, IdleFacts DEF Walks, Moves, Doomed
    <3>2. k.pc = "find" /\ k.id \notin Ids(meta)
      BY <1>8, <2>2, <3>1, DeleteEffect
    <3> QED
      BY <1>5, <2>1, <2>2, <2>4, <3>2 DEF Exact
  <2> QED
    BY <2>1, <2>3, <2>4
<1>9. CASE RemoveMetadata(c)
  <2>1. k.op \in {"create", "delete"} /\ files' = files /\ ~said'.ok /\ k.pc \in Dropping
    BY <1>2, <1>9, RemoveEffect, IdleFacts DEF Moves, Walks, Leaves
  <2>2. CASE k.op = "create"
    BY <1>1, <1>4, <2>1, <2>2 DEF DirectoryOf, Creating, CreationFits, Dropping
  <2>3. CASE k.op = "delete"
    BY <1>1, <1>5, <2>1, <2>3 DEF DirectoryOf, RemovalFits, Doomed
  <2> QED
    BY <2>1, <2>2, <2>3
<1>10. CASE RestoreBackup(c) \/ WayBack(c)
  <2>1. k.op = "restore" /\ files' = files /\ UseFits(c) /\ Ids(meta) = DOMAIN files
    BY <1>1, <1>10, RestoreEffect, BackEffect DEF DirectoryOf, UseFits, Tidy, Exact
  <2>2. \/ k.pc = "find" /\ k.id \notin Ids(meta) /\ db' = db /\ ~said'.ok
        \/ k.pc \in GoingBack /\ ~said'.ok /\ (k.pc = "backCut" => db' = db)
    BY <1>2, <1>10, RestoreEffect, BackEffect, IdleFacts DEF Moves, Walks, Leaves, GoingBack
  <2> QED
    BY <2>1, <2>2 DEF UseFits, GoingBack, HasDone
<1>11. CASE VerifyBackup(c)
  <2>1. k.op = "verify" /\ files' = files /\ UseFits(c) /\ Exact(meta, DOMAIN files)
    BY <1>1, <1>11, VerifyEffect DEF DirectoryOf, UseFits, Tidy, disk
  <2>2. CASE k.pc = "find"
    BY <1>2, <1>11, <2>1, <2>2, VerifyEffect, IdleFacts DEF Leaves, Moves, Exact, HasDone
  <2>3. CASE k.pc = "sum"
    <3>1. k.id \in DOMAIN files /\ k.read = GetBackupMetadata(k.id)
      BY <2>1, <2>3 DEF UseFits
    <3>2. PICK e \in meta : e.id = k.id
      BY <2>1, <3>1 DEF Exact, Ids
    <3>3. e \in k.read /\ e.checksum = files[k.id]
      BY <2>1, <3>1, <3>2 DEF Exact, GetBackupMetadata, ListBackups
    <3> QED
      BY <1>11, <2>1, <2>3, <3>1, <3>3, VerifyEffect DEF Leaves, HasDone
  <2> QED
    BY <1>11, <2>2, <2>3, VerifyEffect
<1> QED
  BY <1>1, <1>6, <1>7, <1>8, <1>9, <1>10, <1>11 DEF Step

-----------------------------------------------------------------------------
(* The newest backup stays.                                                *)

Cleaning == incidents \cap {"deletion", "crash"} = {}

LEMMA CompleteStays ==
    ASSUME CallsFit, DiskFits, EntriesFit, NEW c \in Callers, Step(c),
           NEW i \in DOMAIN files', Complete(i)
    PROVE  Complete(i)'
<1> SUFFICES ASSUME NEW x \in Callers, calls'[x].id = i, calls'[x].pc = "copy" PROVE FALSE
  BY DEF Complete, Reached
<1>1. CallGoes(c) /\ i \in DOMAIN files
  BY StepGoes DEF Complete
<1>2. CASE x # c
  BY <1>1, <1>2 DEF CallGoes, Alone, Complete, Reached
<1>3. CASE x = c
  <2>1. calls[c].pc = "open" /\ calls'[c].id = calls[c].id
    BY <1>3, CopyFollowsOpen
  <2> QED
    BY <1>1, <1>3, <2>1 DEF EntriesFit
<1> QED
  BY <1>2, <1>3

(* Only the clean-up's unlink takes a file away, one that has a newer one. *)
LEMMA FilesGo ==
    ASSUME CallsFit, DiskFits, Cleaning, NEW c \in Callers, Step(c)
    PROVE  \/ DOMAIN files \subseteq DOMAIN files'
           \/ /\ Creating(c) /\ calls[c].pc = "unlink"
              /\ Doomed(c) \in calls[c].todo /\ Doomed(c) \in Nat
              /\ DOMAIN files' = DOMAIN files \ {Doomed(c)}
<1>1. CASE CreateBackup(c)
  BY <1>1, CreateEffect
<1>2. CASE DeleteBackup(c)
  <2>1. Creating(c)
    BY <1>2, DeleteEffect DEF CallsFit, Cleaning, Creating
  <2>2. Doomed(c) \in calls[c].todo /\ Doomed(c) \in Nat
    BY <1>2, <2>1, DeleteEffect, DoomedFacts
  <2> QED
    BY <1>2, <2>1, <2>2, DeleteEffect
<1> QED
  BY <1>1, <1>2, SaveEffect, CleanEffect, RemoveEffect, RestoreEffect, BackEffect, VerifyEffect
     DEF Step, disk

LEMMA HasFromStays ==
    ASSUME CallsFit, DiskFits, EntriesFit, NewestStays, Cleaning, NEW c \in Callers, Step(c),
           NEW n \in Nat, HasFrom(n)
    PROVE  HasFrom(n)'
<1>1. PICK i \in DOMAIN files : i >= n /\ Complete(i)
  BY DEF HasFrom
<1>2. DOMAIN files \in SUBSET Nat
  BY DEF DiskFits
<1>3. CASE i \in DOMAIN files'
  BY <1>1, <1>3, CompleteStays DEF HasFrom
<1>4. CASE i \notin DOMAIN files'
  <2>1. /\ i = Doomed(c) /\ DOMAIN files' = DOMAIN files \ {i} /\ i \in calls[c].todo
        /\ Creating(c) /\ calls[c].pc \in Removing
    BY <1>4, FilesGo DEF Removing
  <2>2. HasFrom(i + 1)
    BY <2>1 DEF NewestStays, Cleaning
  <2>3. PICK j \in DOMAIN files : j >= i + 1 /\ Complete(j)
    BY <2>2 DEF HasFrom
  <2>4. j \in DOMAIN files' /\ j >= n
    BY <1>1, <1>2, <2>1, <2>3
  <2> QED
    BY <2>3, <2>4, CompleteStays DEF HasFrom
<1> QED
  BY <1>3, <1>4

LEMMA StepKeepsNewest ==
    ASSUME CallsFit, DiskFits, EntriesFit, NewestStays, NEW c \in Callers, Work(c)
    PROVE  NewestStays'
<1> DEFINE k == calls[c]
<1> SUFFICES ASSUME Cleaning'
             PROVE  NewestStays'
  BY DEF NewestStays, Cleaning
<1>1. Cleaning /\ Step(c) /\ CallGoes(c) /\ DiskGoes(c)
  BY StepGoes DEF Cleaning, Work
<1>2. \A n \in Nat : HasFrom(n) => HasFrom(n)'
  BY <1>1, HasFromStays
<1>3. /\ \A e \in Known : HasFrom(e.id) /\ e.id \in Nat
      /\ \A x \in Callers : Creating(x) =>
            /\ calls[x].pc = "copy" => calls[x].id \in DOMAIN files
            /\ calls[x].pc \in Saving => HasFrom(calls[x].id)
            /\ calls[x].pc \in Removing => \A n \in calls[x].todo : HasFrom(n + 1)
  <2>1. \A e \in Known : e.id \in Nat
    BY DEF Known, Entry, Id
  <2> QED
    BY <1>1, <2>1 DEF NewestStays, Cleaning
<1>4. \A x \in Callers : /\ calls[x].id \in Nat
                         /\ \A n \in calls[x].todo : n + 1 \in Nat
  BY CallFacts DEF Id
<1>5. ASSUME NEW e \in Known' PROVE HasFrom(e.id)'
  <2>1. CASE e \in Known
    BY <1>2, <1>3, <2>1
  <2>2. CASE k.pc = "saveWrite" /\ e = Entered(c)
    <3>1. Creating(c) /\ e.id = k.id /\ k.pc \in Saving
      BY <2>2, EnteredFacts DEF Saving
    <3> QED
      BY <1>2, <1>3, <1>4, <3>1
  <2> QED
    BY <1>1, <2>1, <2>2, KnownGoes DEF Knows
<1>6. ASSUME NEW x \in Callers \ {c}, Creating(x)'
      PROVE  /\ calls'[x].pc = "copy" => calls'[x].id \in DOMAIN files'
             /\ calls'[x].pc \in Saving => \A n \in Nat : n = calls'[x].id => HasFrom(n)'
             /\ calls'[x].pc \in Removing => \A n \in calls'[x].todo : HasFrom(n + 1)'
  <2>1. calls'[x] = calls[x] /\ Creating(x)
    BY <1>1, <1>6 DEF CallGoes, Alone, Creating
  <2>2. ASSUME calls[x].pc = "copy" PROVE calls[x].id \in DOMAIN files'
    <3>1. calls[x].id \in DOMAIN files /\ calls[x].pc \in Early
      BY <1>3, <2>1, <2>2 DEF Early
    <3>2. calls[x].id \notin calls[c].todo
      BY <2>1, <3>1 DEF EntriesFit
    <3> QED
      BY <1>1, <3>1, <3>2, FilesGo
  <2>3. ASSUME calls[x].pc \in Saving PROVE HasFrom(calls[x].id)
    BY <1>3, <2>1, <2>3
  <2>4. ASSUME calls[x].pc \in Removing, NEW n \in calls[x].todo PROVE HasFrom(n + 1)'
    BY <1>2, <1>3, <1>4, <2>1, <2>4
  <2> QED
    BY <1>2, <1>4, <2>1, <2>2, <2>3, <2>4
<1>7. ASSUME Creating(c)'
      PROVE  /\ calls'[c].pc = "copy" => calls'[c].id \in DOMAIN files'
             /\ calls'[c].pc \in Saving => \A n \in Nat : n = calls'[c].id => HasFrom(n)'
             /\ calls'[c].pc \in Removing => \A n \in calls'[c].todo : HasFrom(n + 1)'
  <2>1. Creating(c) /\ k.op = "create" /\ calls'[c].id = k.id
    BY <1>1, <1>7, IdleFacts DEF CallGoes, Creating
  <2>2. CASE CreateBackup(c)
    <3>1. CASE k.pc = "open"
      BY <2>1, <2>2, <3>1, CreateEffect DEF Moves, Saving, Removing, Dropping
    <3>2. CASE k.pc = "copy"
      <4>1. k.id \in DOMAIN files' /\ calls'[c].pc = "saveRead"
        BY <1>3, <2>1, <2>2, <3>2, CreateEffect DEF Moves
      <4>2. ASSUME NEW n, n = k.id PROVE Complete(n)'
        <5>1. ASSUME NEW x \in Callers, calls'[x].id = k.id, calls'[x].pc = "copy"
              PROVE  FALSE
          <6>1. x # c /\ calls'[x] = calls[x]
            BY <1>1, <4>1, <5>1 DEF CallGoes, Alone
          <6>2. calls[x].op = "create"
            BY <5>1, <6>1, CallFacts, PcFacts
          <6> QED
            BY <2>1, <5>1, <6>1, <6>2 DEF EntriesFit, Creating
        <5> QED
          BY <4>1, <4>2, <5>1 DEF Complete, Reached
      <4>3. ASSUME NEW n \in Nat, n = k.id PROVE HasFrom(n)'
        BY <4>1, <4>2, <4>3 DEF HasFrom
      <4> QED
        BY <2>1, <4>1, <4>3 DEF Removing, Dropping
    <3> QED
      BY <2>2, <3>1, <3>2, CreateEffect
  <2>3. CASE SaveMetadata(c)
    <3>1. k.pc \in Saving /\ calls'[c].pc \notin Removing \cup {"copy"}
      BY <2>3, SaveEffect DEF Moves, Walks, Saving, Removing, Dropping
    <3>2. HasFrom(k.id)
      BY <1>3, <2>1, <3>1
    <3> QED
      BY <1>2, <1>4, <2>1, <3>1, <3>2
  <2>4. CASE CleanupOldBackups(c)
    <3>1. calls'[c].pc = "find" /\ calls'[c].todo = TooMany(meta)
      BY <1>7, <2>4, CleanEffect, IdleFacts DEF Moves, Leaves, Creating
    <3>2. ASSUME NEW n \in TooMany(meta) PROVE HasFrom(n + 1)'
      <4>1. Ids(meta) \in SUBSET (1 .. begun.ids) /\ begun.ids \in Nat
        BY KnownFacts, CallFacts DEF EntriesFit, Ids, DiskFits, Entry, Id
      <4>2. \A e, f \in meta : e.id = f.id => e = f
        BY KnownFacts DEF EntriesFit
      <4>3. n \in Ids(meta) /\ \E j \in Ids(meta) : j > n
        BY <3>2, <4>1, <4>2, TooManyFacts
      <4>4. PICK e \in meta : e.id > n
        BY <4>3 DEF Ids
      <4>5. HasFrom(e.id) /\ e.id \in Nat /\ n \in Nat
        BY <1>3, <4>1, <4>3, <4>4, KnownFacts
      <4>6. HasFrom(n + 1)
        <5>1. PICK i \in DOMAIN files : i >= e.id /\ Complete(i)
          BY <4>5 DEF HasFrom
        <5>2. i >= n + 1
          BY <4>4, <4>5, <5>1 DEF DiskFits
        <5> QED
          BY <5>1, <5>2 DEF HasFrom
      <4> QED
        BY <1>2, <4>5, <4>6
    <3> QED
      BY <3>1, <3>2 DEF Saving
  <2>5. CASE DeleteBackup(c) \/ RemoveMetadata(c)
    <3>1. k.pc \in Removing /\ calls'[c].todo \subseteq k.todo
      BY <1>7, <2>5, DeleteEffect, RemoveEffect, IdleFacts
         DEF Moves, Walks, Leaves, Removing, Creating
    <3>2. calls'[c].pc \notin Saving \cup {"copy"}
      BY <2>5, DeleteEffect, RemoveEffect, IdleFacts DEF Moves, Walks, Leaves, Saving
    <3> QED
      BY <1>2, <1>3, <1>4, <2>1, <3>1, <3>2
  <2> QED
    BY <1>1, <2>1, <2>2, <2>3, <2>4, <2>5, RestoreEffect, BackEffect, VerifyEffect DEF Step
<1> HIDE DEF k
<1>8. \A x \in Callers : Creating(x)' =>
         /\ calls'[x].pc = "copy" => calls'[x].id \in DOMAIN files'
         /\ calls'[x].pc \in Saving => \A n \in Nat : n = calls'[x].id => HasFrom(n)'
         /\ calls'[x].pc \in Removing => \A n \in calls'[x].todo : HasFrom(n + 1)'
  BY <1>6, <1>7
<1>9. \A x \in Callers : calls'[x].id \in Nat
  BY <1>1, <1>4, IdleFacts DEF CallGoes, Alone
<1>10. \A x \in Callers : Creating(x)' /\ calls'[x].pc \in Saving => HasFrom(calls[x].id)'
  BY <1>8, <1>9 DEF HasFrom
<1>11. \A x \in Callers : Creating(x)' =>
          /\ calls'[x].pc = "copy" => calls'[x].id \in DOMAIN files'
          /\ calls'[x].pc \in Removing => \A n \in calls'[x].todo : HasFrom(n + 1)'
  BY <1>8
<1> QED
  BY <1>5, <1>10, <1>11 DEF NewestStays

LEMMA UnlinkKeepsNewer ==
    ASSUME CallsFit, DiskFits, NewestStays, Cleaning, NEW c \in Callers, Creating(c),
           Reached(c, "unlink"), DOMAIN files' # DOMAIN files, Work(c)
    PROVE  \E i \in DOMAIN files' : i > Doomed(c) /\ Complete(i)
<1>1. /\ Doomed(c) \in calls[c].todo /\ Doomed(c) \in Nat
      /\ DOMAIN files' = DOMAIN files \ {Doomed(c)}
  <2>1. DeleteBackup(c)
    BY CreateEffect, SaveEffect, CleanEffect, RemoveEffect, RestoreEffect, BackEffect, VerifyEffect
       DEF Work, Step, Reached, Creating, Dropping
  <2>2. Doomed(c) \in calls[c].todo /\ Doomed(c) \in Nat
    BY DoomedFacts DEF Creating, Reached, Removing
  <2> QED
    BY <2>1, <2>2, DeleteEffect DEF Reached
<1>2. HasFrom(Doomed(c) + 1)
  BY <1>1 DEF NewestStays, Cleaning, Reached, Removing
<1>3. PICK i \in DOMAIN files : i >= Doomed(c) + 1 /\ Complete(i)
  BY <1>2 DEF HasFrom
<1>4. i \in Nat
  BY DEF DiskFits
<1> QED
  BY <1>1, <1>3, <1>4

LEMMA WorkKeepsInv ==
    ASSUME MaintenanceInv, NEW c \in Callers, Work(c)
    PROVE  MaintenanceInv'
  BY StepKeepsCalls, StepKeepsDatabases, StepKeepsEntries, StepKeepsOneByOne, StepKeepsRestores,
     StepKeepsBackups, StepKeepsDirectory, StepKeepsNewest DEF MaintenanceInv

-----------------------------------------------------------------------------
(* A call begins.                                                          *)

NewCall(op, id) == [Idle EXCEPT !.op = op, !.id = id,
                              !.pc = IF op = "create" THEN "open" ELSE "find"]

LEMMA NewCallFacts ==
    ASSUME NEW op \in Ops \ {"idle"}, NEW id \in 0 .. MaxIds
    PROVE  /\ NewCall(op, id) \in CallType /\ StepsFit(NewCall(op, id))
           /\ NewCall(op, id).op = op /\ NewCall(op, id).id = id
           /\ NewCall(op, id).pc = IF op = "create" THEN "open" ELSE "find"
           /\ NewCall(op, id).snap = NoFile
           /\ NewCall(op, id).read = {} /\ NewCall(op, id).todo = {}
<1> DEFINE start == IF op = "create" THEN "open" ELSE "find"
<1>1. NewCall(op, id) = [op |-> op, pc |-> start, id |-> id, snap |-> NoFile,
                       read |-> {}, todo |-> {}]
  <2>1. NewCall(op, id) = [Idle EXCEPT !.op = op, !.id = id, !.pc = start]
    BY DEF NewCall
  <2> HIDE DEF start
  <2> QED
    BY <2>1 DEF Idle
<1>2. {"open", "find"} \subseteq Pcs
  BY DEF Pcs, Early, Removing
<1> QED
  BY <1>1, <1>2 DEF CallType, StepsFit, Ops, Early, Removing, Saving

LEMMA AskEffect ==
    ASSUME CallsFit, DiskFits, NEW c \in Callers, NEW op \in Ops \ {"idle"}, NEW id,
           Ask(c, op, id), id \in 1 .. begun'.ids, begun'.ids <= MaxIds
    PROVE  /\ calls' \in [Callers -> CallType] /\ calls'[c] = NewCall(op, id)
           /\ \A x \in Callers \ {c} : calls'[x] = calls[x]
           /\ calls[c].op = "idle" /\ calls[c].pc = "idle"
           /\ begun' \in [calls : Nat, ids : 0 .. MaxIds]
           /\ begun'.ids = IF op = "create" THEN begun.ids + 1 ELSE begun.ids
           /\ id \in 0 .. MaxIds
           /\ incidents' = incidents \cup Marks(c, op)
           /\ UNCHANGED <<db, temp, files, meta, serving, deployed>>
<1>1. /\ calls[c].pc = "idle" /\ calls' = [calls EXCEPT ![c] = NewCall(op, id)]
      /\ incidents' = incidents \cup Marks(c, op)
      /\ UNCHANGED <<db, temp, files, meta, serving, deployed>>
      /\ begun' = [calls |-> begun.calls + 1,
                   ids |-> IF op = "create" THEN begun.ids + 1 ELSE begun.ids]
  BY DEF Ask, Begin, Reached, NewCall, disk
<1>2. calls[c].op = "idle" /\ calls \in [Callers -> CallType]
  BY <1>1, CallFacts, PcFacts
<1>3. begun.calls \in Nat /\ begun.ids \in Nat /\ MaxIds \in Nat
  BY BackupAssumption DEF DiskFits
<1>4. id \in 0 .. MaxIds
  BY <1>1, <1>3
<1>5. NewCall(op, id) \in CallType
  BY <1>4, NewCallFacts
<1>6. /\ begun'.ids = IF op = "create" THEN begun.ids + 1 ELSE begun.ids
      /\ begun'.ids \in 0 .. MaxIds /\ begun'.calls \in Nat
      /\ begun' = [calls |-> begun'.calls, ids |-> begun'.ids]
  BY <1>1, <1>3
<1>7. calls' \in [Callers -> CallType] /\ calls'[c] = NewCall(op, id)
      /\ \A x \in Callers \ {c} : calls'[x] = calls[x]
  BY <1>1, <1>2, <1>5
<1> QED
  BY <1>1, <1>2, <1>4, <1>6, <1>7

LEMMA MarksFacts ==
    ASSUME NEW c \in Callers, NEW op
    PROVE  /\ \A x \in Callers \ {c} : calls[x].pc # "idle" => "overlap" \in Marks(c, op)
           /\ op = "delete" => "deletion" \in Marks(c, op)
           /\ Marks(c, op) \subseteq {"overlap", "deletion"}
  BY DEF Marks, Busy, Reached

LEMMA AskKeepsInv ==
    ASSUME MaintenanceInv, NEW c \in Callers, NEW op \in Ops \ {"idle"}, NEW id,
           Ask(c, op, id), id \in 1 .. begun'.ids, begun'.ids <= MaxIds,
           op = "create" => id = begun.ids + 1
    PROVE  MaintenanceInv'
<1> DEFINE k == calls'[c]
<1>1. /\ calls' \in [Callers -> CallType]
      /\ \A x \in Callers \ {c} : calls'[x] = calls[x]
      /\ calls[c].op = "idle" /\ calls[c].pc = "idle"
      /\ UNCHANGED <<db, temp, files, meta, serving, deployed>>
      /\ begun' \in [calls : Nat, ids : 0 .. MaxIds]
  BY AskEffect DEF MaintenanceInv
<1>2. /\ k.op = op /\ k.id = id /\ k.snap = NoFile /\ k.read = {} /\ k.todo = {}
      /\ k.pc = (IF op = "create" THEN "open" ELSE "find") /\ StepsFit(k)
  <2>1. k = NewCall(op, id) /\ id \in 0 .. MaxIds
    BY AskEffect DEF MaintenanceInv
  <2> QED
    BY <2>1, NewCallFacts
<1> HIDE DEF k
<1>3. /\ incidents' = incidents \cup Marks(c, op) /\ incidents \subseteq incidents'
      /\ \A x \in Callers \ {c} : calls[x].pc # "idle" => "overlap" \in incidents'
      /\ op = "delete" => "deletion" \in incidents'
  BY AskEffect, MarksFacts DEF MaintenanceInv
<1>4. /\ begun.ids \in Nat /\ begun'.ids \in Nat /\ begun.ids <= begun'.ids
      /\ op = "create" => begun'.ids = begun.ids + 1
      /\ op # "create" => begun'.ids = begun.ids
  BY AskEffect DEF MaintenanceInv, DiskFits
<1>5. \A x \in Callers : /\ StepsFit(calls[x]) /\ calls[x].id \in Nat
                         /\ calls[x].op # "idle" => calls[x].id <= begun.ids
                         /\ calls[x].pc = "idle" <=> calls[x].op = "idle"
  <2> SUFFICES ASSUME NEW x \in Callers
               PROVE  /\ StepsFit(calls[x]) /\ calls[x].id \in Nat
                      /\ calls[x].op # "idle" => calls[x].id <= begun.ids
                      /\ calls[x].pc = "idle" <=> calls[x].op = "idle"
    OBVIOUS
  <2>1. /\ StepsFit(calls[x]) /\ calls[x].id \in Nat
        /\ calls[x].pc # "idle" => calls[x].id \in 1 .. begun.ids
    BY CallFacts DEF MaintenanceInv, Busy, Reached
  <2>2. calls[x].pc = "idle" <=> calls[x].op = "idle"
    BY <2>1, PcFacts
  <2> QED
    BY <1>4, <2>1, <2>2
<1>6. Known' \subseteq Known
  <2>1. \A e \in Known' : e \in Entry /\ (e \in meta \/ \E x \in Callers : e \in calls[x].read)
    BY <1>1, <1>2 DEF Known, k
  <2> QED
    BY <2>1 DEF Known
<1>7. CallsFit'
  <2>1. ASSUME NEW x \in Callers
        PROVE  /\ StepsFit(calls'[x])
               /\ calls'[x].pc # "idle" => calls'[x].id \in 1 .. begun'.ids
               /\ calls'[x].op = "delete" => "deletion" \in incidents'
    <3>1. CASE x = c
      BY <1>2, <1>3, <3>1 DEF k
    <3>2. CASE x # c
      BY <1>1, <1>3, <1>4, <3>2 DEF MaintenanceInv, CallsFit, Busy, Reached
    <3> QED
      BY <3>1, <3>2
  <2> QED
    BY <1>1, <2>1 DEF CallsFit, Busy, Reached
<1>8. DiskFits'
  BY <1>1, <1>4 DEF MaintenanceInv, DiskFits
<1>9. DatabasesFit'
  <2>1. \A x : Explained(x, incidents) => Explained(x, incidents')
    BY <1>3, GoodStays
  <2>2. Explained(NoFile, incidents')
    BY DEF Explained
  <2>3. \A x \in Callers : Explained(calls'[x].snap, incidents')
    BY <1>1, <1>2, <2>1, <2>2 DEF k, MaintenanceInv, DatabasesFit
  <2> QED
    BY <1>1, <2>1, <2>3 DEF MaintenanceInv, DatabasesFit
<1>10. EntriesFit'
  <2>1. EntriesFit /\ DOMAIN files \subseteq 1 .. begun.ids
    BY DEF MaintenanceInv, DiskFits
  <2>2. \A e \in Known' : e \in Known /\ e.id \in Nat /\ e.id <= begun.ids
    BY <1>6, <2>1 DEF EntriesFit, Known, Entry, Id
  <2>3. \A x \in Callers : \A n \in calls[x].todo : n \in Nat /\ n <= begun.ids
    BY <2>1 DEF EntriesFit, MaintenanceInv, CallsFit, CallType, Id
  <2>4. \A e \in Known' : e.id <= begun'.ids
    BY <1>4, <2>2
  <2>5. \A e, f \in Known' : e.id = f.id => e = f
    BY <2>1, <2>2 DEF EntriesFit
  <2>6. \A y, x \in Callers :
           calls'[y].op = "create" /\ calls'[x].op = "create" /\ calls'[y].id = calls'[x].id
              => y = x
    BY <1>1, <1>2, <1>4, <1>5, <2>1 DEF EntriesFit, Creating, k
  <2>7. \A x \in Callers : calls'[x].op = "create" /\ calls'[x].pc \in Early =>
           \A e \in Known' : e.id # calls'[x].id
    BY <1>1, <1>2, <1>4, <2>1, <2>2 DEF EntriesFit, Creating, k
  <2>8. \A x \in Callers : calls'[x].pc = "open" => calls'[x].id \notin DOMAIN files
    BY <1>1, <1>2, <1>4, <2>1 DEF EntriesFit, k
  <2>9. ASSUME NEW y \in Callers, NEW x \in Callers, NEW n \in calls'[y].todo
        PROVE  /\ n <= begun'.ids
               /\ calls'[x].op = "create" /\ calls'[x].pc \in Early => n # calls'[x].id
    <3>1. y # c /\ n \in calls[y].todo
      BY <1>1, <1>2, <2>9 DEF k
    <3>2. n \in Nat /\ n <= begun.ids
      BY <2>3, <3>1
    <3> QED
      BY <1>1, <1>2, <1>4, <2>1, <3>1, <3>2 DEF EntriesFit, Creating, k
  <2> QED
    BY <1>1, <2>4, <2>5, <2>6, <2>7, <2>8, <2>9 DEF EntriesFit, Creating
<1>11. ASSUME "overlap" \notin incidents'
       PROVE  /\ "overlap" \notin incidents
              /\ \A x \in Callers : calls[x].op = "idle" /\ calls[x].pc = "idle"
              /\ \A x \in Callers \ {c} : calls'[x].op = "idle" /\ calls'[x].pc = "idle"
  BY <1>1, <1>3, <1>5, <1>11
<1>12. OneByOneCalls'
  BY <1>11 DEF OneByOneCalls, Busy, Reached
<1>13. RestoresFit'
  <2> SUFFICES ASSUME Intact'
               PROVE  Whole' /\ temp' = NoFile /\
                      (op = "restore" => SafetyCopyFits(c)')
    BY <1>2, <1>11 DEF RestoresFit, Restoring, Intact, k
  <2>1. Intact /\ \A x \in Callers : ~Restoring(x)
    BY <1>3, <1>11 DEF Intact, Restoring
  <2>2. Whole' /\ temp' = NoFile
    BY <1>1, <2>1 DEF MaintenanceInv, RestoresFit, Whole
  <2> QED
    BY <1>2, <2>2 DEF SafetyCopyFits, GoingBack, k
<1>14. BackupsFit'
  <2> SUFFICES ASSUME Intact' PROVE BackupsFit'
    BY DEF BackupsFit
  <2>1. \A e \in Known' : e.id \in DOMAIN files' => files'[e.id] \in Contents
    BY <1>1, <1>3, <1>6 DEF MaintenanceInv, BackupsFit, Intact
  <2>2. \A x \in Callers : calls'[x].pc \notin {"copy"} \cup Saving
    BY <1>2, <1>11 DEF Intact, k, Saving
  <2> QED
    BY <2>1, <2>2 DEF BackupsFit
<1>15. DirectoryFits'
  <2> SUFFICES ASSUME Undisturbed' PROVE DirectoryFits'
    BY DEF DirectoryFits
  <2>1. Undisturbed /\ "overlap" \notin incidents'
    BY <1>3 DEF Undisturbed, Damage
  <2>2. Tidy /\ Tidy'
    BY <1>1, <1>11, <2>1 DEF MaintenanceInv, DirectoryFits, Busy, Reached, Tidy, Exact
  <2>3. /\ op = "create" => CreationFits(c)'
        /\ op = "delete" => Few(DOMAIN files)'
        /\ op \in {"create", "delete"} => RemovalFits(c)'
        /\ op \in {"restore", "verify"} => UseFits(c)'
    <3>1. op = "create" => CreationFits(c)'
      <4> SUFFICES ASSUME op = "create" PROVE CreationFits(c)'
        OBVIOUS
      <4>1. k.pc = "open" /\ k.id = begun'.ids /\ k.id = begun.ids + 1
        BY <1>2, <1>4
      <4>2. Few(DOMAIN files' \ {k.id})
        <5>1. DOMAIN files' \in SUBSET (1 .. begun.ids) /\ begun.ids \in Nat
          BY <1>1 DEF MaintenanceInv, DiskFits
        <5>2. k.id \notin DOMAIN files'
          BY <4>1, <5>1
        <5>3. DOMAIN files' \ {k.id} = DOMAIN files'
          BY <5>2
        <5> QED
          BY <2>2, <5>3 DEF Tidy, Few
      <4> QED
        BY <2>2, <4>1, <4>2 DEF CreationFits, Few, Saving, Removing, Dropping, k
    <3> QED
      BY <1>2, <2>2, <3>1 DEF RemovalFits, UseFits, Tidy, Exact, Few, GoingBack, Saving,
                              Removing, Dropping, k
  <2>4. \A x \in Callers \ {c} : calls'[x].op = "idle"
    BY <1>11, <2>1
  <2> QED
    BY <1>2, <2>2, <2>3, <2>4 DEF DirectoryFits, Creating, k
<1>16. NewestStays'
  <2> SUFFICES ASSUME Cleaning' PROVE NewestStays'
    BY DEF NewestStays, Cleaning
  <2>1. Cleaning /\ NewestStays
    BY <1>3 DEF Cleaning, MaintenanceInv
  <2>2. \A i : Complete(i) => Complete(i)'
    BY <1>1, <1>2 DEF Complete, Reached, k
  <2>3. \A n : HasFrom(n) => HasFrom(n)'
    BY <1>1, <2>2 DEF HasFrom
  <2>4. \A e \in Known' : HasFrom(e.id)'
    BY <1>6, <2>1, <2>3 DEF NewestStays, Cleaning
  <2>5. ASSUME NEW x \in Callers, calls'[x].op = "create"
        PROVE  /\ calls'[x].pc = "copy" => calls'[x].id \in DOMAIN files
               /\ calls'[x].pc \in Saving => \A n : n = calls'[x].id => HasFrom(n)'
               /\ calls'[x].pc \in Removing => \A n \in calls'[x].todo : HasFrom(n + 1)'
    <3>1. CASE x = c
      BY <1>2, <2>5, <3>1 DEF k, Saving, Removing, Dropping
    <3>2. CASE x # c
      <4>1. calls'[x] = calls[x] /\ Creating(x)
        BY <1>1, <2>5, <3>2 DEF Creating
      <4>2. /\ calls[x].pc = "copy" => calls[x].id \in DOMAIN files
            /\ calls[x].pc \in Saving => HasFrom(calls[x].id)
            /\ calls[x].pc \in Removing => \A n \in calls[x].todo : HasFrom(n + 1)
        BY <2>1, <4>1 DEF NewestStays, Cleaning
      <4> QED
        BY <2>3, <4>1, <4>2
    <3> QED
      BY <3>1, <3>2
  <2>6. \A x \in Callers : calls'[x].op = "create" /\ calls'[x].pc \in Saving
           => HasFrom(calls[x].id)'
    BY <2>5 DEF HasFrom
  <2> QED
    BY <1>1, <2>4, <2>5, <2>6 DEF NewestStays, Creating
<1> QED
  BY <1>7, <1>8, <1>9, <1>10, <1>12, <1>13, <1>14, <1>15, <1>16 DEF MaintenanceInv

LEMMA CallsKeepInv ==
    ASSUME MaintenanceInv, NEW c \in Callers,
           AskCreate(c) \/ AskDelete(c) \/ AskRestore(c) \/ AskVerify(c) \/ FireBackupJob(c)
    PROVE  MaintenanceInv'
<1>1. begun \in [calls : Nat, ids : 0 .. MaxIds] /\ MaxIds \in Nat
  BY BackupAssumption DEF MaintenanceInv, DiskFits
<1>2. begun.ids \in Nat /\ begun.ids <= MaxIds
  BY <1>1
<1>3. CASE AskCreate(c)
  <2>1. begun.ids < MaxIds /\ Ask(c, "create", begun.ids + 1)
    BY <1>3 DEF AskCreate
  <2>2. begun'.ids = begun.ids + 1
    BY <2>1 DEF Ask
  <2>3. begun.ids + 1 \in 1 .. begun'.ids /\ begun'.ids <= MaxIds
    BY <1>1, <1>2, <2>1, <2>2
  <2> QED
    BY <2>1, <2>3, AskKeepsInv DEF Ops
<1>4. ASSUME NEW op \in {"delete", "restore", "verify"}, NEW id \in 1 .. begun.ids, Ask(c, op, id)
      PROVE  MaintenanceInv'
  <2>1. begun'.ids = begun.ids
    BY <1>4 DEF Ask
  <2> QED
    BY <1>2, <1>4, <2>1, AskKeepsInv DEF Ops
<1> QED
  BY <1>3, <1>4 DEF AskDelete, AskRestore, AskVerify, FireBackupJob

-----------------------------------------------------------------------------
(* The database changes under the calls; the process ends.                 *)

(* A database that is whole has been made by the migrator.                 *)
LEMMA WholeIsGood ==
    ASSUME MaintenanceInv, Whole
    PROVE  Good(db, incidents)
  BY BackupAssumption DEF MaintenanceInv, DiskFits, DatabasesFit, Explained, Whole

LEMMA GoodIsWhole ==
    ASSUME NEW d, NEW past, Good(d, past)
    PROVE  d \in Contents /\ d \in File /\ d # Torn /\ d # NoFile
  BY BackupAssumption, MaintenanceAssumption DEF Good, File

LEMMA ChangeKeepsInv ==
    ASSUME MaintenanceInv, NEW new, NEW mark \in SUBSET {"rollback"}, ChangeDatabase(new, mark),
           Good(new, incidents \cup mark)
    PROVE  MaintenanceInv'
<1>1. /\ db' = new /\ Whole /\ incidents \subseteq incidents'
      /\ incidents' \subseteq incidents \cup {"rollback", "overlap"}
      /\ incidents \cup mark \subseteq incidents'
      /\ UNCHANGED <<temp, files, meta, calls, begun, serving, deployed>>
      /\ \A c \in Callers : calls[c].pc # "idle" => "overlap" \in incidents'
  BY DEF ChangeDatabase, Busy, Reached
<1>2. db' \in File /\ db' # Torn /\ Explained(db', incidents')
  <2>1. Explained(new, incidents')
    BY <1>1, GoodStays DEF Explained
  <2> QED
    BY <1>1, <2>1, GoodIsWhole
<1>3. \A c \in Callers : calls[c].pc = "idle" <=> calls[c].op = "idle"
  BY CallFacts, PcFacts DEF MaintenanceInv
<1>4. CallsFit'
  BY <1>1 DEF MaintenanceInv, CallsFit, Busy, Reached
<1>5. DiskFits'
  BY <1>1, <1>2 DEF MaintenanceInv, DiskFits
<1>6. DatabasesFit'
  <2>1. \A x : Explained(x, incidents) => Explained(x, incidents')
    BY <1>1, GoodStays
  <2> QED
    BY <1>1, <1>2, <2>1 DEF MaintenanceInv, DatabasesFit
<1>7. Known' = Known
  BY <1>1 DEF Known
<1>8. EntriesFit'
  BY <1>1, <1>7 DEF MaintenanceInv, EntriesFit, Creating
<1>9. OneByOneCalls'
  BY <1>1 DEF MaintenanceInv, OneByOneCalls, Busy, Reached
<1>10. ASSUME "overlap" \notin incidents'
       PROVE  \A c \in Callers : calls[c].pc = "idle" /\ calls[c].op = "idle"
  BY <1>1, <1>3, <1>10
<1>11. RestoresFit'
  <2> SUFFICES ASSUME Intact' PROVE RestoresFit'
    BY DEF RestoresFit
  <2>1. Intact /\ \A c \in Callers : ~Restoring(c) /\ ~Restoring(c)'
    BY <1>1, <1>10 DEF Intact, Restoring
  <2> QED
    BY <1>1, <1>2, <2>1 DEF MaintenanceInv, RestoresFit, Whole
<1>12. BackupsFit'
  <2> SUFFICES ASSUME Intact' PROVE BackupsFit'
    BY DEF BackupsFit
  <2>1. Intact /\ \A c \in Callers : ~Creating(c)'
    BY <1>1, <1>10 DEF Intact, Creating
  <2> QED
    BY <1>1, <1>7, <2>1 DEF MaintenanceInv, BackupsFit
<1>13. DirectoryFits'
  <2> SUFFICES ASSUME Undisturbed' PROVE DirectoryFits'
    BY DEF DirectoryFits
  <2>1. Undisturbed /\ "overlap" \notin incidents'
    BY <1>1 DEF Undisturbed, Damage
  <2>2. Tidy'
    BY <1>1, <1>10, <2>1 DEF MaintenanceInv, DirectoryFits, Busy, Reached, Tidy, Exact
  <2> QED
    BY <1>1, <1>10, <2>1, <2>2 DEF DirectoryFits, Creating
<1>14. NewestStays'
  <2>1. Cleaning' => Cleaning
    BY <1>1 DEF Cleaning
  <2> QED
    BY <1>1, <1>7, <2>1
       DEF MaintenanceInv, NewestStays, Cleaning, HasFrom, Complete, Creating, Reached
<1> QED
  BY <1>4, <1>5, <1>6, <1>8, <1>9, <1>11, <1>12, <1>13, <1>14 DEF MaintenanceInv

LEMMA LossesFacts ==
    ASSUME NEW c \in Callers, Busy(c)
    PROVE  IF Restoring(c) THEN "cutRestore" \in Losses ELSE "crash" \in Losses
  BY DEF Losses

(* However the process ends, and whatever database the next one begins     *)
(* with, as long as a whole one stays whole.                               *)
LEMMA EndKeepsInv ==
    ASSUME MaintenanceInv, calls' = [c \in Callers |-> Idle], incidents' = incidents \cup Losses,
           UNCHANGED <<temp, files, meta, begun>>,
           db' \in File, Explained(db', incidents), db' = Torn => db = Torn,
           serving' \in BOOLEAN, deployed' \in 0 .. Len(Files)
    PROVE  MaintenanceInv'
<1>1. \A c \in Callers : calls[c].pc = "idle" <=> calls[c].op = "idle"
  BY CallFacts, PcFacts DEF MaintenanceInv
<1>2. \A c \in Callers : calls'[c] = Idle
  OBVIOUS
<1>3. /\ incidents \subseteq incidents'
      /\ Losses \subseteq incidents'
  OBVIOUS
<1>4. CallsFit'
  <2>1. ASSUME NEW c \in Callers PROVE Idle \in CallType
    <3>1. 0 \in 0 .. MaxIds
      BY BackupAssumption
    <3>2. "idle" \in Ops /\ "idle" \in Pcs
      BY DEF Ops, Pcs
    <3> QED
      BY <3>1, <3>2 DEF CallType, Idle
  <2> QED
    BY <1>2, <2>1, IdleFacts DEF CallsFit, Busy, Reached
<1>5. DiskFits'
  BY DEF MaintenanceInv, DiskFits
<1>6. DatabasesFit'
  <2>1. \A x : Explained(x, incidents) => Explained(x, incidents')
    BY <1>3, GoodStays
  <2>2. Explained(NoFile, incidents')
    BY DEF Explained
  <2> QED
    BY <1>2, <2>1, <2>2, IdleFacts DEF MaintenanceInv, DatabasesFit
<1>7. Known' \subseteq Known
  BY <1>2, IdleFacts DEF Known
<1>8. EntriesFit'
  BY <1>2, <1>7, IdleFacts DEF MaintenanceInv, EntriesFit, Creating
<1>9. OneByOneCalls'
  BY <1>2, IdleFacts DEF OneByOneCalls, Busy, Reached
<1>10. \A c \in Callers : ~Restoring(c)' /\ ~Creating(c)' /\ ~Busy(c)'
  BY <1>2, IdleFacts DEF Restoring, Creating, Busy, Reached
<1>11. RestoresFit'
  <2> SUFFICES ASSUME Intact' PROVE RestoresFit'
    BY DEF RestoresFit
  <2>1. Intact /\ "cutRestore" \notin Losses
    BY <1>3 DEF Intact
  <2>2. \A c \in Callers : ~Restoring(c)
    BY <1>1, <2>1, LossesFacts DEF Busy, Reached, Restoring
  <2> QED
    BY <1>10, <2>1, <2>2 DEF MaintenanceInv, RestoresFit, Whole
<1>12. BackupsFit'
  <2>1. Intact' => Intact
    BY <1>3 DEF Intact
  <2> QED
    BY <1>7, <1>10, <2>1 DEF MaintenanceInv, BackupsFit
<1>13. DirectoryFits'
  <2> SUFFICES ASSUME Undisturbed' PROVE DirectoryFits'
    BY DEF DirectoryFits
  <2>1. Undisturbed /\ "cutRestore" \notin Losses /\ "crash" \notin Losses
    BY <1>3 DEF Undisturbed, Damage
  <2>2. \A c \in Callers : ~Busy(c)
    BY <2>1, LossesFacts
  <2>3. Tidy'
    BY <2>1, <2>2 DEF MaintenanceInv, DirectoryFits, Tidy, Exact
  <2> QED
    BY <1>2, <1>10, <2>3, IdleFacts DEF DirectoryFits
<1>14. NewestStays'
  <2> SUFFICES ASSUME Cleaning' PROVE NewestStays'
    BY DEF NewestStays, Cleaning
  <2>1. Cleaning
    BY <1>3 DEF Cleaning
  <2>2. \A n : HasFrom(n) => HasFrom(n)'
    BY <1>2, IdleFacts DEF HasFrom, Complete, Reached
  <2> QED
    BY <1>7, <1>10, <2>1, <2>2 DEF MaintenanceInv, NewestStays, Cleaning
<1> QED
  BY <1>4, <1>5, <1>6, <1>8, <1>9, <1>11, <1>12, <1>13, <1>14 DEF MaintenanceInv

(* A run of migrations over a whole database, of any release and cut off   *)
(* anywhere.                                                               *)
LEMMA RunsAreGood ==
    ASSUME MaintenanceInv, Whole, NEW m \in 0 .. Len(Files),
           NEW k \in 0 .. Len(ToRun(db, SubSeq(Files, 1, m)))
    PROVE  LET g == ToRun(db, SubSeq(Files, 1, m))
           IN  /\ Good(RunMigrations(db, g).db, incidents)
               /\ Good(RunMigrations(db, SubSeq(g, 1, k)).db, incidents)
<1> DEFINE g == ToRun(db, SubSeq(Files, 1, m))
<1>1. PICK n \in 0 .. Len(Files) : Executes(db, n, incidents)
  BY WholeIsGood DEF Good
<1>2. db \in Database /\ n \in Nat
  BY WholeIsGood, FilesFacts DEF Good
<1>3. Follows(g, n) /\ g \in Seq(Range(Files))
  BY <1>1, PendingFollows
<1> HIDE DEF g
<1>4. k \in 0 .. Len(g)
  BY DEF g
<1>5. Follows(SubSeq(g, 1, k), n)
  BY <1>2, <1>3, <1>4, PrefixFollows
<1>6. Good(RunMigrations(db, g).db, incidents)
  BY <1>1, <1>2, <1>3, RunKeepsGood
<1>7. Good(RunMigrations(db, SubSeq(g, 1, k)).db, incidents)
  BY <1>1, <1>2, <1>5, RunKeepsGood
<1> QED
  BY <1>6, <1>7 DEF g

LEMMA WholeRunIsGood ==
    ASSUME MaintenanceInv, Whole, NEW m \in 0 .. Len(Files)
    PROVE  Good(RunMigrations(db, ToRun(db, SubSeq(Files, 1, m))).db, incidents)
<1>1. PICK n \in 0 .. Len(Files) : Executes(db, n, incidents)
  BY WholeIsGood DEF Good
<1>2. Len(ToRun(db, SubSeq(Files, 1, m))) \in Nat
  BY <1>1, PendingFollows DEF Follows
<1>3. 0 \in 0 .. Len(ToRun(db, SubSeq(Files, 1, m)))
  BY <1>2
<1> QED
  BY <1>3, RunsAreGood

LEMMA ReleaseFacts ==
    ASSUME MaintenanceInv
    PROVE  deployed \in 0 .. Len(Files) /\ Release = SubSeq(Files, 1, deployed)
  BY DEF MaintenanceInv, DiskFits, Release

LEMMA MigrationsKeepInv ==
    ASSUME MaintenanceInv, RunMigrationsOnRequest \/ RollbackOnRequest
    PROVE  MaintenanceInv'
<1>1. CASE RunMigrationsOnRequest
  <2>1. ChangeDatabase(RunMigrations(db, ToRun(db, Release)).db, {})
    BY <1>1 DEF RunMigrationsOnRequest
  <2>2. Whole
    BY <2>1 DEF ChangeDatabase
  <2>3. Good(RunMigrations(db, ToRun(db, Release)).db, incidents)
    BY <2>2, WholeRunIsGood, ReleaseFacts
  <2>4. Good(RunMigrations(db, ToRun(db, Release)).db, incidents \cup {})
    BY <2>3
  <2> QED
    BY <2>1, <2>4, ChangeKeepsInv
<1>2. CASE RollbackOnRequest
  <2>1. PICK steps \in 1 .. Len(Files) : ChangeDatabase(Rollback(db, steps), {"rollback"})
    BY <1>2 DEF RollbackOnRequest
  <2>2. steps \in Nat /\ Whole
    BY <2>1, FilesFacts DEF ChangeDatabase
  <2>3. Good(Rollback(db, steps), incidents \cup {"rollback"})
    BY <2>2, WholeIsGood, RollbackKeepsGood
  <2> QED
    BY <2>1, <2>3, ChangeKeepsInv
<1> QED
  BY <1>1, <1>2

LEMMA EndsKeepInv ==
    ASSUME MaintenanceInv, Restart \/ CrashInMigrations
    PROVE  MaintenanceInv'
<1>1. db \in File /\ Explained(db, incidents) /\ deployed \in 0 .. Len(Files)
  BY DEF MaintenanceInv, DiskFits, DatabasesFit
<1>2. CASE Restart
  <2>1. PICK m \in deployed .. Len(Files) :
           deployed' = m /\ InitializeDatabase(SubSeq(Files, 1, m))
    BY <1>2 DEF Restart
  <2>2. m \in 0 .. Len(Files)
    BY <1>1, <2>1, FilesFacts
  <2> DEFINE run == RunMigrations(db, ToRun(db, SubSeq(Files, 1, m)))
  <2>3. db' \in File /\ Explained(db', incidents) /\ (db' = Torn => db = Torn)
    <3>1. CASE Whole
      <4>1. Good(run.db, incidents)
        BY <2>2, <3>1, WholeRunIsGood
      <4>2. Good(CreateTables(run.db, Len(Tables)), incidents)
        BY <4>1, TablesAssumption, TablesKeepGood
      <4>3. db' = run.db \/ db' = CreateTables(run.db, Len(Tables))
        BY <2>1, <3>1 DEF InitializeDatabase
      <4> QED
        BY <4>1, <4>2, <4>3, GoodIsWhole DEF Explained
    <3>2. CASE ~Whole
      BY <1>1, <2>1, <3>2 DEF InitializeDatabase
    <3> QED
      BY <3>1, <3>2
  <2>4. serving' \in BOOLEAN
    BY <2>1 DEF InitializeDatabase, SeedData
  <2> QED
    BY <1>2, <2>1, <2>2, <2>3, <2>4, EndKeepsInv DEF Restart
<1>3. CASE CrashInMigrations
  <2>1. PICK m \in deployed .. Len(Files) :
           LET pending == ToRun(db, SubSeq(Files, 1, m))
               run == RunMigrations(db, pending)
           IN  /\ deployed' = m
               /\ \/ \E k \in 0 .. Len(pending) :
                        db' = RunMigrations(db, SubSeq(pending, 1, k)).db
                  \/ run.ok /\ \E k \in 1 .. Len(Tables) : db' = CreateTables(run.db, k)
    BY <1>3 DEF CrashInMigrations
  <2>2. Whole /\ m \in 0 .. Len(Files) /\ deployed' = m
    BY <1>1, <1>3, <2>1, FilesFacts DEF CrashInMigrations
  <2> DEFINE pending == ToRun(db, SubSeq(Files, 1, m))
  <2>3. Good(db', incidents)
    <3>1. CASE \E k \in 0 .. Len(pending) : db' = RunMigrations(db, SubSeq(pending, 1, k)).db
      BY <2>2, <3>1, RunsAreGood
    <3>2. CASE \E k \in 1 .. Len(Tables) : db' = CreateTables(RunMigrations(db, pending).db, k)
      <4>1. Good(RunMigrations(db, pending).db, incidents)
        BY <2>2, WholeRunIsGood
      <4>2. \A k \in 1 .. Len(Tables) : k \in 0 .. Len(Tables)
        BY TablesAssumption
      <4> QED
        BY <3>2, <4>1, <4>2, TablesKeepGood
    <3> QED
      BY <2>1, <3>1, <3>2
  <2>4. db' \in File /\ Explained(db', incidents) /\ db' # Torn
    BY <2>3, GoodIsWhole DEF Explained
  <2>5. serving' \in BOOLEAN /\ deployed' \in 0 .. Len(Files)
    BY <1>3, <2>2 DEF CrashInMigrations
  <2> QED
    BY <1>3, <2>4, <2>5, EndKeepsInv DEF CrashInMigrations
<1> QED
  BY <1>2, <1>3

-----------------------------------------------------------------------------

LEMMA MaintenanceInitInv == MaintenanceInit => MaintenanceInv
<1> SUFFICES ASSUME MaintenanceInit PROVE MaintenanceInv
  OBVIOUS
<1>1. /\ db = InitMigrationsTable /\ temp = NoFile /\ files = <<>> /\ meta = {}
      /\ calls = [c \in Callers |-> Idle] /\ begun = [calls |-> 0, ids |-> 0]
      /\ serving = FALSE /\ incidents = {} /\ deployed \in 0 .. Len(Files)
  BY DEF MaintenanceInit, InitBackups, NoList
<1>2. \A c \in Callers : calls[c] = Idle /\ ~Busy(c) /\ ~Restoring(c) /\ ~Creating(c)
  BY <1>1, IdleFacts DEF Busy, Reached, Restoring, Creating
<1>3. Good(db, incidents)
  <2>1. InitMigrationsTable \in Database
    BY DEF InitMigrationsTable, Database
  <2>2. 1 .. 0 = {} /\ 0 \in 0 .. Len(Files)
    BY FilesFacts
  <2>3. Executes(InitMigrationsTable, 0, incidents)
    BY <2>2 DEF Executes, InitMigrationsTable
  <2> QED
    BY <1>1, <2>1, <2>2, <2>3 DEF Good
<1>4. db \in File /\ db # Torn
  BY <1>3, GoodIsWhole
<1>5. DOMAIN files = {} /\ files \in [{} -> File]
  BY <1>1
<1>6. Known = {}
  BY <1>1, <1>2, IdleFacts DEF Known
<1>7. CallsFit
  <2>1. ASSUME NEW c \in Callers PROVE Idle \in CallType
    <3>1. 0 \in 0 .. MaxIds
      BY BackupAssumption
    <3>2. "idle" \in Ops /\ "idle" \in Pcs
      BY DEF Ops, Pcs
    <3> QED
      BY <3>1, <3>2 DEF CallType, Idle
  <2> QED
    BY <1>1, <1>2, <2>1, IdleFacts DEF CallsFit
<1>8. DiskFits
  <2>1. begun \in [calls : Nat, ids : 0 .. MaxIds]
    BY <1>1, BackupAssumption
  <2> QED
    BY <1>1, <1>4, <1>5, <2>1 DEF DiskFits
<1>9. DatabasesFit
  BY <1>1, <1>2, <1>3, <1>5, IdleFacts DEF DatabasesFit, Explained
<1>10. EntriesFit /\ OneByOneCalls
  BY <1>2, <1>6, IdleFacts DEF EntriesFit, OneByOneCalls
<1>11. RestoresFit /\ BackupsFit
  BY <1>1, <1>2, <1>4, <1>6 DEF RestoresFit, BackupsFit, Whole
<1>12. DirectoryFits
  <2>1. Few(DOMAIN files)
    BY <1>5, FS_EmptySet, BackupAssumption DEF Few
  <2>2. Tidy
    BY <1>1, <1>5, <2>1 DEF Tidy, Exact, Ids
  <2> QED
    BY <1>2, <2>2, IdleFacts DEF DirectoryFits
<1>13. NewestStays
  BY <1>2, <1>6 DEF NewestStays
<1> QED
  BY <1>7, <1>8, <1>9, <1>10, <1>11, <1>12, <1>13 DEF MaintenanceInv

LEMMA MaintenanceNextInv ==
    MaintenanceInv /\ [MaintenanceNext]_maintenanceVars => MaintenanceInv'
<1> SUFFICES ASSUME MaintenanceInv, [MaintenanceNext]_maintenanceVars PROVE MaintenanceInv'
  OBVIOUS
<1>1. ASSUME NEW c \in Callers,
             \/ AskCreate(c) \/ AskDelete(c) \/ AskRestore(c) \/ AskVerify(c)
             \/ FireBackupJob(c) \/ Work(c)
      PROVE  MaintenanceInv'
  BY <1>1, CallsKeepInv, WorkKeepsInv
<1>2. CASE RunMigrationsOnRequest \/ RollbackOnRequest
  BY <1>2, MigrationsKeepInv
<1>3. CASE Restart \/ CrashInMigrations
  BY <1>3, EndsKeepInv
<1>4. CASE UNCHANGED maintenanceVars
  <2>1. /\ UNCHANGED <<db, temp, files, meta, calls, begun, serving, deployed, incidents>>
    BY <1>4 DEF maintenanceVars, backupVars
  <2>2. UNCHANGED <<Known, Undisturbed, Intact, Whole>>
    BY <2>1 DEF Known, Undisturbed, Intact, Whole
  <2>3. CallsFit' /\ DiskFits' /\ DatabasesFit' /\ EntriesFit' /\ OneByOneCalls'
    BY <2>1, <2>2 DEF MaintenanceInv, CallsFit, DiskFits, DatabasesFit, EntriesFit, OneByOneCalls,
                      Busy, Reached, Creating
  <2>4. RestoresFit' /\ BackupsFit'
    BY <2>1, <2>2 DEF MaintenanceInv, RestoresFit, BackupsFit, Restoring, Creating, SafetyCopyFits,
                      Whole
  <2>5. NewestStays'
    BY <2>1, <2>2 DEF MaintenanceInv, NewestStays, HasFrom, Complete, Reached, Creating
  <2>6. DirectoryFits'
    <3>1. \A c \in Callers : CreationFits(c)' = CreationFits(c)
      BY <2>1 DEF CreationFits, Tidy, Exact, Few, Doomed
    <3>2. \A c \in Callers : RemovalFits(c)' = RemovalFits(c)
      BY <2>1 DEF RemovalFits, Exact, Doomed, Others
    <3>3. \A c \in Callers : UseFits(c)' = UseFits(c)
      BY <2>1 DEF UseFits, Tidy, Exact, GetBackupMetadata, ListBackups
    <3>4. Tidy' = Tidy
      BY <2>1 DEF Tidy, Exact
    <3> QED
      BY <2>1, <2>2, <3>1, <3>2, <3>3, <3>4
      DEF MaintenanceInv, DirectoryFits, Busy, Reached, Creating
  <2> QED
    BY <2>3, <2>4, <2>5, <2>6 DEF MaintenanceInv
<1> QED
  BY <1>1, <1>2, <1>3, <1>4 DEF MaintenanceNext

(* What the calls, the files and the databases have gone through fits      *)
(* together in every state, whatever overlaps, fails or is cut off.        *)
THEOREM MaintenanceInvariance == MaintenanceSpec => []MaintenanceInv
  BY MaintenanceInitInv, MaintenanceNextInv, PTL DEF MaintenanceSpec

-----------------------------------------------------------------------------
(* What the invariant says of the records.                                 *)

LEMMA GreatestMember ==
    ASSUME NEW n \in Nat, NEW D \in SUBSET (1 .. n), D # {}
    PROVE  Max(D) \in D /\ \A i \in D : i <= Max(D)
<1> DEFINE above == {j \in 0 .. n : \A i \in D : i <= j}
<1>1. above \in SUBSET Nat /\ n \in above
  OBVIOUS
<1>2. PICK m \in above : \A j \in above : m <= j
  BY <1>1, LeastMember
<1>3. m \in D
  <2> SUFFICES ASSUME m \notin D PROVE FALSE
    OBVIOUS
  <2>1. m \in 0 .. n /\ \A i \in D : i <= m
    OBVIOUS
  <2>2. \A i \in D : i >= 1 /\ i <= m - 1
    BY <2>1
  <2>3. m - 1 \in 0 .. n
    <3>1. PICK i \in D : TRUE
      OBVIOUS
    <3>2. i \in 1 .. n /\ i <= m
      BY <2>1
    <3> QED
      BY <2>1, <3>2
  <2>4. m - 1 \in above
    BY <2>2, <2>3
  <2> QED
    BY <1>2, <2>1, <2>4
<1>4. \E x \in D : \A y \in D : x >= y
  BY <1>3
<1> QED
  BY <1>4 DEF Max

LEMMA DatabasesAreGood ==
    ASSUME MaintenanceInv, NEW d \in Databases
    PROVE  Good(d, incidents)
  BY DEF MaintenanceInv, DatabasesFit, Databases, Explained

LEMMA QuietIsTidy ==
    ASSUME MaintenanceInv
    PROVE  QuietDirectory
<1> SUFFICES ASSUME Undisturbed, \A c \in Callers : ~Busy(c)
             PROVE  /\ Ids(ListBackups) = DOMAIN files
                    /\ BackupStatus = [totalBackups |-> Cardinality(DOMAIN files),
                                       latestBackup |-> IF files = <<>> THEN {}
                                                        ELSE {Max(DOMAIN files)}]
                    /\ Cardinality(DOMAIN files) <= MaxBackups
                    /\ \A e \in ListBackups : e.checksum = files[e.id]
                    /\ temp = NoFile
  BY DEF QuietDirectory
<1>1. Ids(meta) = DOMAIN files /\ (\A e \in meta : e.checksum = files[e.id])
      /\ Cardinality(DOMAIN files) <= MaxBackups
  BY DEF MaintenanceInv, DirectoryFits, Tidy, Exact, Few
<1>2. temp = NoFile
  <2>1. \A c \in Callers : ~Restoring(c)
    BY CallFacts, PcFacts DEF MaintenanceInv, Busy, Reached, Restoring
  <2> QED
    BY <2>1, UndisturbedFacts DEF MaintenanceInv, RestoresFit
<1>3. DOMAIN files \in SUBSET (1 .. begun.ids) /\ begun.ids \in Nat
  BY DEF MaintenanceInv, DiskFits
<1>4. \A e, f \in meta : e.id = f.id => e = f
  BY KnownFacts DEF MaintenanceInv, EntriesFit, Known, DiskFits
<1>5. Cardinality(meta) = Cardinality(DOMAIN files)
  <2>1. IsFiniteSet(DOMAIN files)
    BY <1>3, SizesOfSubsets
  <2> QED
    BY <1>1, <1>4, <2>1, EntriesAreCounted
<1> DEFINE latest == {e.id : e \in {e \in meta : \A f \in meta : f.id <= e.id}}
<1>6. latest = {i \in DOMAIN files : \A j \in DOMAIN files : j <= i}
  BY <1>1 DEF Ids
<1>7. latest = IF files = <<>> THEN {} ELSE {Max(DOMAIN files)}
  <2>1. files = <<>> <=> DOMAIN files = {}
    BY DEF MaintenanceInv, DiskFits
  <2>2. CASE DOMAIN files = {}
    BY <1>6, <2>1, <2>2
  <2>3. CASE DOMAIN files # {}
    <3>1. Max(DOMAIN files) \in DOMAIN files /\ \A i \in DOMAIN files : i <= Max(DOMAIN files)
      BY <1>3, <2>3, GreatestMember
    <3> QED
      BY <1>3, <1>6, <2>1, <2>3, <3>1
  <2> QED
    BY <2>2, <2>3
<1>8. BackupStatus = [totalBackups |-> Cardinality(meta), latestBackup |-> latest]
  BY DEF BackupStatus, ListBackups
<1> HIDE DEF latest
<1> QED
  BY <1>1, <1>2, <1>5, <1>7, <1>8 DEF ListBackups

LEMMA InvRecords ==
    ASSUME MaintenanceInv
    PROVE  RecordsAreTrue
<1>1. MaintenanceTypeOK
  <2>1. /\ db \in File /\ temp \in File \cup {NoFile} /\ meta \subseteq Entry
        /\ \A i \in DOMAIN files : files[i] \in File
    BY DEF MaintenanceInv, DiskFits
  <2>2. DOMAIN files \subseteq Id
    BY BackupAssumption DEF MaintenanceInv, DiskFits, Id
  <2>3. \A c \in Callers : calls[c].read \subseteq Entry /\ calls[c].todo \subseteq Id
    BY CallFacts DEF MaintenanceInv
  <2>4. Databases \subseteq Database
    BY DatabasesAreGood DEF Good
  <2> QED
    BY <2>1, <2>2, <2>3, <2>4 DEF MaintenanceTypeOK
<1>2. RecordedMeansApplied
  <2> SUFFICES ASSUME NEW d \in Databases, NEW f \in Range(Files), f.name \in Executed(d)
               PROVE  ObjectsOf(f) \subseteq d.schema
    BY DEF RecordedMeansApplied
  <2>1. PICK n \in 0 .. Len(Files) : Executes(d, n, incidents)
    BY DatabasesAreGood DEF Good
  <2>2. PICK i \in 1 .. Len(Files) : f = Files[i]
    BY FilesFacts
  <2>3. i <= n
    BY <2>1, <2>2, ExecutedFirst
  <2> QED
    BY <2>1, <2>2, <2>3, FilesFacts DEF Executes
<1>3. ExecutedIsPrefix
  <2> SUFFICES ASSUME NEW d \in Databases
               PROVE  \E n \in 0 .. Len(Files) :
                         MigrationStatus(d, Files) = [i \in DOMAIN Files |-> i <= n]
    BY DEF ExecutedIsPrefix
  <2>1. PICK n \in 0 .. Len(Files) : Executes(d, n, incidents)
    BY DatabasesAreGood DEF Good
  <2>2. \A i \in DOMAIN Files : (Files[i].name \in Executed(d)) = (i <= n)
    BY <2>1, ExecutedFirst, FilesFacts
  <2>3. MigrationStatus(d, Files) = [i \in DOMAIN Files |-> i <= n]
    BY <2>2 DEF MigrationStatus
  <2> QED
    BY <2>3
<1>4. NoHalfMigrations
  <2> SUFFICES ASSUME "rollback" \notin incidents, NEW d \in Databases, NEW x \in d.schema,
                      x \notin Range(Tables)
               PROVE  \E g \in Range(Files) : g.name \in Executed(d) /\ x \in ObjectsOf(g)
    BY DEF NoHalfMigrations
  <2>1. PICK n \in 0 .. Len(Files) : Executes(d, n, incidents)
    BY DatabasesAreGood DEF Good
  <2>2. PICK i \in 1 .. n : x \in ObjectsOf(Files[i])
    BY <2>1 DEF Executes
  <2>3. i \in 1 .. Len(Files) /\ i <= n
    BY FilesFacts
  <2> QED
    BY <2>1, <2>2, <2>3, ExecutedFirst, FilesFacts
<1> QED
  BY <1>1, <1>2, <1>3, <1>4, QuietIsTidy DEF RecordsAreTrue

LEMMA RefusedStart ==
    ASSUME MaintenanceInv, Restart, ~serving'
    PROVE  \/ db = Torn
           \/ "rollback" \in incidents
           \/ \E i \in 1 .. deployed' : ~Files[i].valid \/ MadeBefore(Files[i])
           \/ db'.users = "numbers"
<1> SUFFICES ASSUME Whole, "rollback" \notin incidents,
                    \A i \in 1 .. deployed' : Files[i].valid /\ ~MadeBefore(Files[i])
             PROVE  db'.users = "numbers"
  BY DEF Whole
<1>1. PICK m \in deployed .. Len(Files) : deployed' = m /\ InitializeDatabase(SubSeq(Files, 1, m))
  BY DEF Restart
<1>2. m \in 0 .. Len(Files)
  BY <1>1, FilesFacts DEF MaintenanceInv, DiskFits
<1>3. PICK n \in 0 .. Len(Files) : Executes(db, n, incidents)
  BY WholeIsGood DEF Good
<1>4. RunMigrations(db, ToRun(db, SubSeq(Files, 1, m))).ok
  BY <1>1, <1>2, <1>3, WholeIsGood, RunSucceeds DEF Good, MadeBefore
<1> QED
  BY <1>1, <1>4 DEF InitializeDatabase, SeedData

(* For every set of migrations, tables and calls, whatever overlaps or is  *)
(* cut off: metadata.json lists the files that are there as long as calls  *)
(* come one after the other, and a migration that is recorded in a         *)
(* database, its safety copy or a backup has been applied to it, in the    *)
(* order of the files; what is there of one that is not recorded is what   *)
(* createTables() or a recorded one makes, or has been rolled back.        *)
THEOREM MaintenanceRecords == MaintenanceSpec => []RecordsAreTrue
<1>1. MaintenanceInv => RecordsAreTrue
  BY InvRecords
<1> QED
  BY <1>1, MaintenanceInvariance, PTL

(* restoreBackup() brings the database back when it fails: only a crash in *)
(* a restore, or calls that overlap, can leave one that is not whole.      *)
THEOREM MaintenanceRestores == MaintenanceSpec => []RestoreKeepsDatabase
<1>1. MaintenanceInv => RestoreKeepsDatabase
  BY DEF MaintenanceInv, RestoresFit, Intact, Whole, RestoreKeepsDatabase
<1> QED
  BY <1>1, MaintenanceInvariance, PTL

(* createBackup() with its clean-up, restoreBackup(), deleteBackup() and   *)
(* verifyBackup() have done their work when they end, as long as calls     *)
(* come one after the other and none is cut off, whatever they answer.     *)
THEOREM MaintenanceCalls == MaintenanceSpec => CallsDoTheirWork
<1> DEFINE Done ==
      \A c \in Callers : (Undisturbed /\ Busy(c) /\ Work(c) /\ ~Busy(c)') => HasDone(c)
<1>1. MaintenanceInv => [Done]_maintenanceVars
  BY EndedIsDone DEF MaintenanceInv
<1> HIDE DEF Done
<1>2. MaintenanceSpec => [][Done]_maintenanceVars
  BY <1>1, MaintenanceInvariance, PTL
<1> QED
  BY <1>2 DEF Done, CallsDoTheirWork

(* initializeDatabase() fails only over a torn database, a file that       *)
(* SQLite rejects or that makes anew what an earlier start has made, over  *)
(* users that are keyed by numbers, or after a rollback.                   *)
THEOREM MaintenanceStarts == MaintenanceSpec => StartsFailForAReason
<1> DEFINE Reason ==
      (~serving' /\ Restart) =>
          \/ db = Torn
          \/ "rollback" \in incidents
          \/ \E i \in 1 .. deployed' : ~Files[i].valid \/ MadeBefore(Files[i])
          \/ db'.users = "numbers"
<1>1. MaintenanceInv => [Reason]_maintenanceVars
  BY RefusedStart
<1> HIDE DEF Reason
<1>2. MaintenanceSpec => [][Reason]_maintenanceVars
  BY <1>1, MaintenanceInvariance, PTL
<1> QED
  BY <1>2 DEF Reason, StartsFailForAReason

(* However calls overlap, cleanupOldBackups() removes a backup only while  *)
(* a newer one that is whole is there.                                     *)
THEOREM MaintenanceCleanup == MaintenanceSpec => CleanupKeepsNewer
<1> DEFINE Keeps ==
      \A c \in Callers :
         (calls[c].op = "create" /\ Reached(c, "unlink") /\ DOMAIN files' # DOMAIN files
             /\ incidents \cap {"deletion", "crash"} = {} /\ Work(c)) =>
             \E i \in DOMAIN files' : i > Doomed(c) /\ Complete(i)
<1>1. MaintenanceInv => [Keeps]_maintenanceVars
  BY UnlinkKeepsNewer DEF MaintenanceInv, Cleaning, Creating
<1> HIDE DEF Keeps
<1>2. MaintenanceSpec => [][Keeps]_maintenanceVars
  BY <1>1, MaintenanceInvariance, PTL
<1> QED
  BY <1>2 DEF Keeps, CleanupKeepsNewer
=============================================================================
