--------------------------- MODULE ServiceRegistry ---------------------------
(***************************************************************************)
(* The registry of services of src/microservices: who is registered, heard *)
(* of and therefore called.  Handlers and the health check are one step    *)
(* each.  Of an entry, the model keeps its name, its health and the time   *)
(* since its last heartbeat, counted up to the time MaxAge at which the    *)
(* last health check to see a difference has come.                         *)
(***************************************************************************)
EXTENDS Integers, FiniteSets, Functions

CONSTANTS
    Providers,          (* processes that offer a service                  *)
    Names,              (* the names of services                           *)
    HeartbeatInterval   (* heartbeatInterval, in ticks                     *)
ASSUME RegistryAssumption ==
    /\ HeartbeatInterval \in Nat \ {0}
    /\ "main-api-gateway" \notin Providers
    /\ "api-gateway" \notin Names

VARIABLES
    services,   (* the entries of the Map, by the id of the process        *)
    checkIn     (* time until the next health check                        *)

registry == <<services, checkIn>>

Self == "main-api-gateway"
MaxAge == 3 * HeartbeatInterval + 1

ServiceInfo == [name : Names \cup {"api-gateway"},
                health : {"healthy", "unhealthy"},
                age : 0..MaxAge]

RegistryOK ==
    /\ DOMAIN services \subseteq Providers \cup {Self}
    /\ \A i \in DOMAIN services : services[i] \in ServiceInfo
    /\ checkIn \in 0..HeartbeatInterval

Fresh(name) == [name |-> name, health |-> "healthy", age |-> 0]
With(i, entry) == [j \in DOMAIN services \cup {i} |-> IF j = i THEN entry ELSE services[j]]

(* A process starts with an empty Map, and MicroserviceManager.init()      *)
(* enters the process itself.                                              *)
InitialServices == [i \in {Self} |-> Fresh("api-gateway")]

InitRegistry == services = InitialServices /\ checkIn = HeartbeatInterval
RestartRegistry == services' = InitialServices /\ checkIn' = HeartbeatInterval

GetServicesByName(name) ==
    {i \in DOMAIN services : services[i].name = name /\ services[i].health = "healthy"}
GetAllServices == DOMAIN services

-----------------------------------------------------------------------------
(* The endpoints of /discovery, which answer with success whether or not   *)
(* the process is known.                                                   *)

Register(i, name) ==
    /\ services' = With(i, Fresh(name))
    /\ UNCHANGED checkIn

Unregister(i) ==
    /\ services' = Restrict(services, DOMAIN services \ {i})
    /\ UNCHANGED checkIn

HeardOf(known, i, entry) ==
    /\ services' = IF i \in known THEN With(i, entry) ELSE services
    /\ UNCHANGED checkIn

(* Mutation: the time of the heartbeat is not kept.                        *)
UpdateHealthOnly(i) ==
    HeardOf(DOMAIN services, i, [services[i] EXCEPT !.health = "healthy"])

UpdateHeartbeat(i) == HeardOf(DOMAIN services, i, Fresh(services[i].name))

-----------------------------------------------------------------------------
(* The health check, every HeartbeatInterval.                              *)

(* Mutation: one period more.                                              *)
OverdueLate(entry) == entry.age > 3 * HeartbeatInterval

Overdue(entry) == entry.age > 2 * HeartbeatInterval

HealthCheck ==
    /\ checkIn = 0
    /\ services' = [i \in DOMAIN services |->
                       IF Overdue(services[i])
                       THEN [services[i] EXCEPT !.health = "unhealthy"] ELSE services[i]]
    /\ checkIn' = HeartbeatInterval

(* Timers fire when they are due.                                          *)
RegistryTick ==
    /\ checkIn > 0
    /\ services' = [i \in DOMAIN services |->
                       [services[i] EXCEPT !.age = IF @ < MaxAge THEN @ + 1 ELSE @]]
    /\ checkIn' = checkIn - 1

-----------------------------------------------------------------------------
(* GET /health/ready: is at least every second entry healthy?              *)

HealthyServices == {i \in GetAllServices : services[i].health = "healthy"}
IsReady == 2 * Cardinality(HealthyServices) >= Cardinality(GetAllServices)

=============================================================================
