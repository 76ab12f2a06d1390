------------------------------- MODULE Gateway -------------------------------
(***************************************************************************)
(* Routing of requests to one service, src/services/gateway.service.ts,    *)
(* composed of the circuit breaker and the load balancer of the service.   *)
(*                                                                         *)
(* A request is one invocation of routeRequest().  It holds on to the      *)
(* instance selected for it, and each attempt of executeWithRetry() is a   *)
(* call of the breaker.  A step is what runs between two turns of the      *)
(* event loop: up to the HTTP request of an attempt or the pause after it. *)
(***************************************************************************)
EXTENDS LoadBalancer

CONSTANTS
    Requests,           (* the invocations of routeRequest()               *)
    MaxAttempts,        (* retry.maxAttempts                               *)
    FiltersStatusCodes, (* is retry.retryableStatusCodes configured?       *)
    FailureThreshold,   (* of the circuit breaker                          *)
    HalfOpenRequests

ASSUME GatewayAssumption ==
    /\ IsFiniteSet(Requests)
    /\ {MaxAttempts, FailureThreshold, HalfOpenRequests} \subseteq Nat \ {0}
    /\ FiltersStatusCodes \in BOOLEAN

VARIABLES
    state, failureCount, successCount, totalRequests,   (* the breaker     *)
    halfOpenAttempts, resetTimer, phase,
    pc,                 (* where each request stands                       *)
    attempt,            (* its attempt number                              *)
    selected,           (* the instance selected for it                    *)
    target,             (* the instance each attempt was sent to           *)
    metrics

Attempts == Requests \X (1..MaxAttempts)

Breaker == INSTANCE CircuitBreaker WITH Calls <- Attempts

breaker == <<state, failureCount, successCount, totalRequests,
             halfOpenAttempts, resetTimer, phase>>
request == <<pc, attempt, selected, target>>
vars == <<breaker, balancer, healthy, request, metrics, openAtReset>>

-----------------------------------------------------------------------------

NoInstance == 0
Location == Instances \cup {NoInstance}

Answered == {"succeeded", "failed"}

(* What getMetrics() reports, without times and rates.                     *)
Metrics == [totalRequests : Nat, successfulRequests : Nat,
            failedRequests : Nat, retryAttempts : Nat]

(* Requests holding instance i.                                            *)
UnderWay(i) ==
    {r \in Requests : selected[r] = i /\ pc[r] \in {"waiting", "sleeping"}}

TypeOK ==
    /\ Breaker!TypeOK
    /\ BalancerTypeOK
    /\ healthy \subseteq Instances
    /\ pc \in [Requests -> {"new", "waiting", "sleeping"} \cup Answered]
    /\ attempt \in [Requests -> 0..MaxAttempts]
    /\ selected \in [Requests -> Location]
    /\ target \in [Attempts -> Location]
    /\ metrics \in Metrics
    /\ openAtReset \in [Instances -> Nat]

Init ==
    /\ Breaker!Init
    /\ BalancerInit
    /\ healthy = Instances
    /\ pc = [r \in Requests |-> "new"]
    /\ attempt = [r \in Requests |-> 0]
    /\ selected = [r \in Requests |-> NoInstance]
    /\ target = [a \in Attempts |-> NoInstance]
    /\ metrics = [totalRequests |-> 0, successfulRequests |-> 0,
                  failedRequests |-> 0, retryAttempts |-> 0]
    /\ openAtReset = [i \in Instances |-> 0]

-----------------------------------------------------------------------------

Count(field) == metrics' = [metrics EXCEPT ![field] = @ + 1]

(* The catch block of executeWithRetry() after attempt n of request r:     *)
(* pause before another attempt, or give up, which routeRequest() counts   *)
(* as a failed request.  A status code that is not to be retried is final. *)
AfterFailure(r, n, arrived, final) ==
    \/ /\ n < MaxAttempts /\ ~final
       /\ pc' = [pc EXCEPT ![r] = "sleeping"]
       /\ metrics' = [metrics EXCEPT !.totalRequests = @ + arrived,
                                     !.retryAttempts = @ + 1]
    \/ /\ n = MaxAttempts \/ final
       /\ pc' = [pc EXCEPT ![r] = "failed"]
       /\ metrics' = [metrics EXCEPT !.totalRequests = @ + arrived,
                                     !.failedRequests = @ + 1]

(* Attempt n: through the breaker, and then to an instance picked at       *)
(* random by serviceClient.callService(), which throws when there is none. *)
(* The breaker's own errors carry no status code.                          *)
Try(r, n, arrived) ==
    LET call == <<r, n>>
    IN  /\ attempt' = [attempt EXCEPT ![r] = n]
        /\ Breaker!Execute(call)
        /\ \/ /\ phase'[call] = "rejected"
              /\ AfterFailure(r, n, arrived, FALSE)
              /\ UNCHANGED target
           \/ /\ phase'[call] # "rejected"
              /\ \E i \in IF healthy = {} THEN {NoInstance} ELSE healthy :
                   target' = [target EXCEPT ![call] = i]
              /\ pc' = [pc EXCEPT ![r] = "waiting"]
              /\ metrics' = [metrics EXCEPT !.totalRequests = @ + arrived]

(* routeRequest() up to the first suspension.                              *)
Route(r) ==
    /\ pc[r] = "new"
    /\ \E i \in healthy :
         /\ SelectInstance(i)
         /\ selected' = [selected EXCEPT ![r] = i]
    /\ Try(r, 1, 1)
    /\ UNCHANGED <<healthy, openAtReset>>

(* No route matches the path and method that the client chose, or there is *)
(* no healthy instance.                                                    *)
Refuse(r) ==
    /\ pc[r] = "new"
    /\ pc' = [pc EXCEPT ![r] = "failed"]
    /\ metrics' = [metrics EXCEPT !.totalRequests = @ + 1,
                                  !.failedRequests = @ + 1]
    /\ UNCHANGED <<breaker, balancer, healthy, attempt, selected,
                   target, openAtReset>>

(* Mutation: a retry waits until the breaker has closed.                   *)
RetryWhenClosed(r) ==
    /\ pc[r] = "sleeping"
    /\ state = "CLOSED"
    /\ Try(r, attempt[r] + 1, 0)
    /\ UNCHANGED <<balancer, healthy, selected, openAtReset>>

(* The pause is over.                                                      *)
Retry(r) ==
    /\ pc[r] = "sleeping"
    /\ Try(r, attempt[r] + 1, 0)
    /\ UNCHANGED <<balancer, healthy, selected, openAtReset>>

(* The answer arrives; only now is the balancer told.                      *)
Respond(r) ==
    /\ pc[r] = "waiting"
    /\ target[<<r, attempt[r]>>] # NoInstance
    /\ Breaker!Succeed(<<r, attempt[r]>>)
    /\ RecordResponse(selected[r])
    /\ pc' = [pc EXCEPT ![r] = "succeeded"]
    /\ Count("successfulRequests")
    /\ UNCHANGED <<healthy, attempt, selected, target, openAtReset>>

(* Mutation: the balancer is told of every failed attempt.                 *)
AttemptFailsRecorded(r) ==
    /\ pc[r] = "waiting"
    /\ Breaker!Fail(<<r, attempt[r]>>)
    /\ RecordResponse(selected[r])
    /\ \E final \in {FALSE, FiltersStatusCodes} :
         AfterFailure(r, attempt[r], 0, final)
    /\ UNCHANGED <<healthy, attempt, selected, target, openAtReset>>

(* The attempt fails: an error response, a timeout or no instance at all.  *)
AttemptFails(r) ==
    /\ pc[r] = "waiting"
    /\ Breaker!Fail(<<r, attempt[r]>>)
    /\ \E final \in {FALSE, FiltersStatusCodes} :
         /\ target[<<r, attempt[r]>>] = NoInstance => ~final
         /\ AfterFailure(r, attempt[r], 0, final)
    /\ UNCHANGED <<balancer, healthy, attempt, selected, target, openAtReset>>

BreakerTimerFires ==
    /\ Breaker!TimerFires
    /\ UNCHANGED <<balancer, healthy, request, metrics, openAtReset>>

(* Mutation: the counters of the breaker survive a reset.                  *)
ResetStateOnly ==
    /\ state' = "CLOSED"
    /\ UNCHANGED <<failureCount, successCount, totalRequests,
                   halfOpenAttempts, resetTimer, phase>>
    /\ UNCHANGED <<balancer, healthy, request, metrics, openAtReset>>

ResetBreaker ==
    /\ Breaker!Reset
    /\ UNCHANGED <<balancer, healthy, request, metrics, openAtReset>>

ResetLoadBalancer ==
    /\ ResetBalancer
    /\ openAtReset' = [i \in Instances |-> Cardinality(UnderWay(i))]
    /\ UNCHANGED <<breaker, healthy, request, metrics>>

(* The registry marks an instance unhealthy or healthy again.              *)
HealthChanges(i) ==
    /\ healthy' = IF i \in healthy THEN healthy \ {i} ELSE healthy \cup {i}
    /\ UNCHANGED <<breaker, balancer, request, metrics, openAtReset>>

Next ==
    \/ \E r \in Requests : Route(r)
    \/ \E r \in Requests : Refuse(r)
    \/ \E r \in Requests : Retry(r)
    \/ \E r \in Requests : Respond(r)
    \/ \E r \in Requests : AttemptFails(r)
    \/ BreakerTimerFires
    \/ ResetBreaker
    \/ ResetLoadBalancer
    \/ \E i \in Instances : HealthChanges(i)

(* Timers fire and HTTP requests settle (service-client.ts:10); the rest   *)
(* is up to clients, instances and administrators.                         *)
Fairness ==
    /\ WF_vars(BreakerTimerFires)
    /\ \A r \in Requests :
         /\ WF_vars(Retry(r))
         /\ WF_vars(Respond(r) \/ AttemptFails(r))

Spec == Init /\ [][Next]_vars /\ Fairness

-----------------------------------------------------------------------------

(* Every request counted in is counted out once, whatever the order in     *)
(* which attempts fail, are rejected and are repeated (updateMetrics()).   *)
MetricsAddUp ==
    metrics.totalRequests =
        metrics.successfulRequests + metrics.failedRequests
            + Cardinality({r \in Requests : pc[r] \in {"waiting", "sleeping"}})

(* The balancer never believes an instance less busy than it is, except    *)
(* for what a reset made it forget (recordResponse() on success only).     *)
BusyInstancesCounted ==
    \A i \in Instances :
        Cardinality(UnderWay(i)) <= activeConnections[i] + openAtReset[i]

(* The books of the gateway and of the balancer are right in every state.  *)
BooksBalance == TypeOK /\ MetricsAddUp /\ BusyInstancesCounted

(* Failures of one request alone, repeated as often as retry allows, count *)
(* towards the threshold of the breaker (breaker inside retry): to trip a  *)
(* closed breaker takes at least FailureThreshold / MaxAttempts requests.  *)
TripTakesEnoughRequests ==
    state = "CLOSED" /\ state' = "OPEN" =>
     FailureThreshold <= MaxAttempts * Cardinality(
         {r \in Requests : \E n \in 1..MaxAttempts :
             phase'[<<r, n>>] = "failed"})

(* The gateway drives the breaker only through its interface, so that what *)
(* is shown of the breaker holds of the one in the gateway, and no request *)
(* trips it alone unless its attempts suffice.                             *)
BreakerIsUsedProperly ==
    /\ Breaker!Init /\ [][Breaker!Next]_Breaker!vars
    /\ [][TripTakesEnoughRequests]_vars

(* Every request that was let in is answered, with a response or an error. *)
RequestsAnswered ==
    \A r \in Requests : pc[r] # "new" ~> pc[r] \in Answered

=============================================================================
