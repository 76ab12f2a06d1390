---------------------------- MODULE RequestProofs ----------------------------
(***************************************************************************)
(* What becomes of a request, on its way and where it arrives.             *)
(*                                                                         *)
(* The balancer and the gateway, for any number of requests, attempts and  *)
(* selections, any instances and any configuration of the breaker: the     *)
(* counts of the balancer are right and its choices fair; the gateway uses *)
(* its breaker as the module of the breaker allows, its metrics add up,    *)
(* and the balancer takes no instance for less busy than it is.            *)
(*                                                                         *)
(* The workspace, for any users, bodies, paths and bounds: the history, the*)
(* events and the comments of a task tell one story, a response that is    *)
(* kept is current, and no request leaves a trace where it must not.       *)
(***************************************************************************)
EXTENDS Gateway, BalancerAccounting, Workspace, SubsequencesProofs

(* What is proved of any breaker, to be used of the one in the gateway;    *)
(* the history kept beside it is of no concern here.                       *)
BreakerFacts == INSTANCE CircuitBreakerProofs
    WITH Calls <- Attempts, streak <- 0, probes <- {}, repaired <- FALSE

-----------------------------------------------------------------------------
(* The two instances of the breaker are one.                               *)

LEMMA SameBreaker ==
    /\ Breaker!Init <=> BreakerFacts!Init
    /\ Breaker!Inv <=> BreakerFacts!Inv
<1>1. Breaker!Init <=> BreakerFacts!Init
  BY DEF BreakerFacts!Init, Breaker!Init
<1>2. Breaker!TypeOK <=> BreakerFacts!TypeOK
  BY DEF BreakerFacts!TypeOK, Breaker!TypeOK,
         BreakerFacts!CircuitBreakerState, Breaker!CircuitBreakerState,
         BreakerFacts!Phase, Breaker!Phase
<1> QED
  BY <1>1, <1>2
     DEF BreakerFacts!Inv, Breaker!Inv,
         BreakerFacts!OpenHasTimer, Breaker!OpenHasTimer,
         BreakerFacts!NoTimerWhileProbing, Breaker!NoTimerWhileProbing,
         BreakerFacts!ExhaustedProbesUnderWay, Breaker!ExhaustedProbesUnderWay,
         BreakerFacts!ClosedBelowThreshold, Breaker!ClosedBelowThreshold,
         BreakerFacts!AttemptsOnlyWhileHalfOpen, Breaker!AttemptsOnlyWhileHalfOpen

LEMMA SameSteps == [Breaker!Next]_Breaker!vars => [BreakerFacts!Next]_BreakerFacts!vars
<1>1. ASSUME NEW c, Breaker!Execute(c) PROVE BreakerFacts!Execute(c)
  BY <1>1 DEF Breaker!Execute, BreakerFacts!Execute, Breaker!Admit, BreakerFacts!Admit,
              Breaker!Reject, BreakerFacts!Reject, Breaker!EnterPhase, BreakerFacts!EnterPhase
<1>2. ASSUME NEW c, Breaker!Succeed(c) PROVE BreakerFacts!Succeed(c)
  BY <1>2 DEF Breaker!Succeed, BreakerFacts!Succeed, Breaker!OnSuccess, BreakerFacts!OnSuccess,
              Breaker!EnterPhase, BreakerFacts!EnterPhase, Breaker!Close, BreakerFacts!Close
<1>3. ASSUME NEW c, Breaker!Fail(c) PROVE BreakerFacts!Fail(c)
  BY <1>3 DEF Breaker!Fail, BreakerFacts!Fail, Breaker!Trips, BreakerFacts!Trips,
              Breaker!EnterPhase, BreakerFacts!EnterPhase, Breaker!Open, BreakerFacts!Open
<1>4. Breaker!TimerFires => BreakerFacts!TimerFires
  BY DEF Breaker!TimerFires, BreakerFacts!TimerFires, Breaker!HalfOpen, BreakerFacts!HalfOpen
<1>5. Breaker!Reset => BreakerFacts!Reset
  BY DEF Breaker!Reset, BreakerFacts!Reset, Breaker!Close, BreakerFacts!Close
<1>6. Breaker!Next => BreakerFacts!Next
  BY <1>1, <1>2, <1>3, <1>4, <1>5 DEF Breaker!Next, BreakerFacts!Next
<1> QED
  BY <1>6 DEF Breaker!vars, BreakerFacts!vars, Breaker!counters, BreakerFacts!counters

LEMMA BreakerInitInv == Breaker!Init => Breaker!Inv
<1>1. BreakerFacts!Init => BreakerFacts!Inv
  BY BreakerFacts!InitInv, GatewayAssumption
<1> QED
  BY <1>1, SameBreaker

LEMMA BreakerNextInv == Breaker!Inv /\ [Breaker!Next]_Breaker!vars => Breaker!Inv'
<1>1. BreakerFacts!Inv /\ [BreakerFacts!Next]_BreakerFacts!vars => BreakerFacts!Inv'
  BY BreakerFacts!NextInv, GatewayAssumption
<1>2. Breaker!Inv' <=> BreakerFacts!Inv'
  BY SameBreaker, PTL
<1> QED
  BY <1>1, <1>2, SameBreaker, SameSteps

-----------------------------------------------------------------------------
(* What the gateway does to its breaker.                                   *)

(* Where the attempts of one request stand: those to come are new to the   *)
(* breaker, the one waited for is under way, the others have ended.        *)
OneAttemptAtATime(r) ==
    /\ pc[r] = "new" => attempt[r] = 0
    /\ pc[r] = "waiting" => /\ attempt[r] > 0
                            /\ phase[<<r, attempt[r]>>] \in {"running", "probing"}
    /\ pc[r] = "sleeping" => attempt[r] \in 1..(MaxAttempts - 1)
    /\ \A n \in 1..MaxAttempts :
         /\ n > attempt[r] => phase[<<r, n>>] = "new"
         /\ n < attempt[r] \/ (n = attempt[r] /\ pc[r] # "waiting")
              => phase[<<r, n>>] \in {"succeeded", "failed", "rejected"}

Failures == {c \in Attempts : phase[c] = "failed"}

(* The breaker has counted no failure that was none.                       *)
FailuresExist == failureCount <= Cardinality(Failures)

Types ==
    /\ BalancerTypeOK
    /\ healthy \subseteq Instances
    /\ pc \in [Requests -> {"new", "waiting", "sleeping"} \cup Answered]
    /\ attempt \in [Requests -> 0..MaxAttempts]
    /\ selected \in [Requests -> Location]
    /\ target \in [Attempts -> Location]
    /\ metrics \in Metrics
    /\ openAtReset \in [Instances -> Nat]

Inv ==
    /\ Breaker!Inv
    /\ FailuresExist
    /\ Types
    /\ \A r \in Requests : OneAttemptAtATime(r)
    /\ MetricsAddUp
    /\ BusyInstancesCounted

-----------------------------------------------------------------------------
(* The breaker is driven through its interface, and what it has counted.   *)

(* The attempt under way, and the next one, are attempts.                  *)
LEMMA AttemptNumbers ==
    ASSUME Types, NEW r \in Requests, OneAttemptAtATime(r)
    PROVE  /\ <<r, 1>> \in Attempts
           /\ pc[r] = "waiting" => /\ attempt[r] \in 1..MaxAttempts
                                   /\ <<r, attempt[r]>> \in Attempts
           /\ pc[r] = "sleeping" => /\ attempt[r] + 1 \in 1..MaxAttempts
                                    /\ <<r, attempt[r] + 1>> \in Attempts
<1>1. attempt[r] \in 0..MaxAttempts /\ MaxAttempts \in Nat \ {0}
  BY GatewayAssumption DEF Types
<1>2. pc[r] = "waiting" => attempt[r] \in 1..MaxAttempts
  BY <1>1 DEF OneAttemptAtATime
<1>3. pc[r] = "sleeping" => attempt[r] + 1 \in 1..MaxAttempts
  BY <1>1 DEF OneAttemptAtATime
<1> QED
  BY <1>1, <1>2, <1>3 DEF Attempts

LEMMA UsesBreaker ==
    ASSUME Types, \A r \in Requests : OneAttemptAtATime(r), [Next]_vars
    PROVE  [Breaker!Next]_Breaker!vars
<1> USE GatewayAssumption
<1>1. ASSUME NEW r \in Requests, Route(r) PROVE Breaker!Next
  <2>1. <<r, 1>> \in Attempts
    BY AttemptNumbers
  <2> QED
    BY <1>1, <2>1 DEF Route, Try, Breaker!Next
<1>2. ASSUME NEW r \in Requests, Retry(r) PROVE Breaker!Next
  <2>1. <<r, attempt[r] + 1>> \in Attempts
    BY <1>2, AttemptNumbers DEF Retry
  <2> QED
    BY <1>2, <2>1 DEF Retry, Try, Breaker!Next
<1>3. ASSUME NEW r \in Requests, Respond(r) \/ AttemptFails(r) PROVE Breaker!Next
  <2>1. <<r, attempt[r]>> \in Attempts
    BY <1>3, AttemptNumbers DEF Respond, AttemptFails
  <2> QED
    BY <1>3, <2>1 DEF Respond, AttemptFails, Breaker!Next
<1>4. BreakerTimerFires \/ ResetBreaker => Breaker!Next
  BY DEF BreakerTimerFires, ResetBreaker, Breaker!Next
<1>5. ASSUME UNCHANGED breaker PROVE UNCHANGED Breaker!vars
  BY <1>5 DEF breaker, Breaker!vars, Breaker!counters
<1>6. ASSUME NEW r \in Requests, Refuse(r) PROVE UNCHANGED breaker
  BY <1>6 DEF Refuse
<1>7. ResetLoadBalancer \/ (\E i \in Instances : HealthChanges(i)) => UNCHANGED breaker
  BY DEF ResetLoadBalancer, HealthChanges
<1>8. UNCHANGED vars => UNCHANGED breaker
  BY DEF vars
<1> QED
  BY <1>1, <1>2, <1>3, <1>4, <1>5, <1>6, <1>7, <1>8 DEF Next

LEMMA FailuresFinite ==
    ASSUME NEW F \in SUBSET Attempts
    PROVE  IsFiniteSet(F) /\ Cardinality(F) \in Nat
<1>1. IsFiniteSet(1..MaxAttempts)
  BY GatewayAssumption, FS_Interval
<1>2. IsFiniteSet(Attempts)
  BY <1>1, GatewayAssumption, FS_Product DEF Attempts
<1> QED
  BY <1>2, FS_Subset, FS_CardinalityType

LEMMA FailuresInductive ==
    ASSUME Breaker!TypeOK, FailuresExist, [Breaker!Next]_Breaker!vars
    PROVE  FailuresExist'
<1> DEFINE F == Failures
           G == Failures'
<1>1. /\ F \in SUBSET Attempts
      /\ G \in SUBSET Attempts
      /\ failureCount \in Nat
      /\ phase \in [Attempts -> Breaker!Phase]
  BY DEF Failures, Breaker!TypeOK
<1>2. /\ IsFiniteSet(F) /\ Cardinality(F) \in Nat
      /\ IsFiniteSet(G) /\ Cardinality(G) \in Nat
      /\ failureCount <= Cardinality(F)
  BY <1>1, FailuresFinite DEF FailuresExist
<1>3. CASE /\ F \subseteq G
           /\ failureCount' \in {0, failureCount}
  <2>1. Cardinality(F) <= Cardinality(G)
    BY <1>2, <1>3, FS_Subset
  <2> HIDE DEF F, G
  <2>2. failureCount' <= Cardinality(G)
    BY <1>1, <1>2, <1>3, <2>1
  <2> QED
    BY <2>2 DEF FailuresExist, G
<1>4. ASSUME NEW c \in Attempts, Breaker!Fail(c) PROVE FailuresExist'
  <2>1. c \notin F /\ G = F \cup {c}
    BY <1>1, <1>4 DEF Failures, Breaker!Fail, Breaker!EnterPhase
  <2>2. Cardinality(G) = Cardinality(F) + 1
    BY <1>2, <2>1, FS_AddElement
  <2>3. failureCount' = failureCount + 1
    BY <1>4 DEF Breaker!Fail
  <2> HIDE DEF F, G
  <2>4. failureCount' <= Cardinality(G)
    BY <1>1, <1>2, <2>2, <2>3
  <2> QED
    BY <2>4 DEF FailuresExist, G
<1>5. ASSUME NEW c \in Attempts, NEW from, NEW to,
             "failed" \notin from, Breaker!EnterPhase(c, from, to)
      PROVE  F \subseteq G
  BY <1>1, <1>5 DEF Failures, Breaker!EnterPhase
<1>6. ASSUME NEW c \in Attempts, Breaker!Execute(c) PROVE FailuresExist'
  <2>1. F \subseteq G
    BY <1>5, <1>6 DEF Breaker!Execute, Breaker!Reject, Breaker!Admit
  <2> QED
    BY <1>3, <1>6, <2>1 DEF Breaker!Execute
<1>7. ASSUME NEW c \in Attempts, Breaker!Succeed(c) PROVE FailuresExist'
  <2>1. F \subseteq G
    BY <1>5, <1>7 DEF Breaker!Succeed
  <2> QED
    BY <1>3, <1>7, <2>1 DEF Breaker!Succeed, Breaker!OnSuccess, Breaker!Close
<1>8. CASE Breaker!TimerFires \/ Breaker!Reset \/ UNCHANGED Breaker!vars
  <2>1. F \subseteq G
    BY <1>8 DEF Failures, Breaker!TimerFires, Breaker!Reset, Breaker!vars
  <2> QED
    BY <1>3, <1>8, <2>1 DEF Breaker!TimerFires, Breaker!Reset, Breaker!Close, Breaker!HalfOpen,
                            Breaker!vars, Breaker!counters
<1> QED
  BY <1>4, <1>6, <1>7, <1>8 DEF Breaker!Next

(* Each failure counted is of an attempt of its own, and a request has at  *)
(* most MaxAttempts of them.                                               *)
LEMMA TripNeedsRequests ==
    ASSUME Breaker!TypeOK, FailuresExist, FailuresExist', [Breaker!Next]_Breaker!vars
    PROVE  TripTakesEnoughRequests
<1> DEFINE R == {r \in Requests : \E n \in 1..MaxAttempts : phase'[<<r, n>>] = "failed"}
           G == Failures'
<1> SUFFICES ASSUME state = "CLOSED", state' = "OPEN"
             PROVE  FailureThreshold <= MaxAttempts * Cardinality(R)
  BY DEF TripTakesEnoughRequests
<1>1. PICK c \in Attempts : Breaker!Fail(c)
  BY DEF Breaker!Next, Breaker!Execute, Breaker!Succeed, Breaker!OnSuccess, Breaker!Close,
         Breaker!TimerFires, Breaker!HalfOpen, Breaker!Reset, Breaker!vars
<1>2. failureCount' = failureCount + 1 /\ failureCount + 1 >= FailureThreshold
  BY <1>1 DEF Breaker!Fail, Breaker!Trips, Breaker!Open
<1>3. failureCount' <= Cardinality(G) /\ failureCount \in Nat
  BY DEF FailuresExist, Breaker!TypeOK
<1>4. IsFiniteSet(R) /\ Cardinality(R) \in Nat
  BY GatewayAssumption, FS_Subset, FS_CardinalityType
<1>5. IsFiniteSet(1..MaxAttempts) /\ Cardinality(1..MaxAttempts) = MaxAttempts
  BY GatewayAssumption, FS_Interval
<1>6. /\ IsFiniteSet(R \X (1..MaxAttempts))
      /\ Cardinality(R \X (1..MaxAttempts)) = Cardinality(R) * MaxAttempts
  BY <1>4, <1>5, FS_Product
<1>7. G \subseteq R \X (1..MaxAttempts)
  BY DEF Failures, Attempts
<1>8. Cardinality(G) <= Cardinality(R) * MaxAttempts
  BY <1>6, <1>7, FS_Subset
<1>9. Cardinality(G) \in Nat
  BY FailuresFinite DEF Failures
<1> HIDE DEF R, G
<1>10. /\ Cardinality(R) * MaxAttempts = MaxAttempts * Cardinality(R)
       /\ MaxAttempts * Cardinality(R) \in Nat
  BY <1>4, GatewayAssumption
<1> QED
  BY <1>2, <1>3, <1>8, <1>9, <1>10, GatewayAssumption

-----------------------------------------------------------------------------
(* What a step does to the request it is about.                            *)

(* Request r goes on to `to`, and is counted on arrival and at its end.    *)
Moves(r, to, arrived) ==
    /\ pc' = [pc EXCEPT ![r] = to]
    /\ to \in {"waiting", "sleeping"} \cup Answered
    /\ metrics' \in Metrics
    /\ metrics'.totalRequests = metrics.totalRequests + arrived
    /\ metrics'.successfulRequests + metrics'.failedRequests
         = metrics.successfulRequests + metrics.failedRequests
              + (IF to \in Answered THEN 1 ELSE 0)

(* Attempt n of r is under way afterwards, or it is over.                  *)
Attempting(r, n, to) ==
    /\ n = IF pc[r] = "waiting" THEN attempt[r] ELSE attempt[r] + 1
    /\ n \in 1..MaxAttempts
    /\ attempt' = [attempt EXCEPT ![r] = n]
    /\ \E p \in Breaker!Phase :
         /\ phase' = [phase EXCEPT ![<<r, n>>] = p]
         /\ IF to = "waiting" THEN p \in {"running", "probing"}
            ELSE p \in {"succeeded", "failed", "rejected"}
    /\ to = "sleeping" => n < MaxAttempts

(* Two counts at once.                                                     *)
LEMMA RetryCounted ==
    ASSUME NEW m \in Metrics, NEW total, NEW retries, NEW after,
           after = [m EXCEPT !.totalRequests = total, !.retryAttempts = retries]
    PROVE  after = [totalRequests |-> total,
                    successfulRequests |-> m.successfulRequests,
                    failedRequests |-> m.failedRequests,
                    retryAttempts |-> retries]
BY DEF Metrics

LEMMA FailureCounted ==
    ASSUME NEW m \in Metrics, NEW total, NEW failed, NEW after,
           after = [m EXCEPT !.totalRequests = total, !.failedRequests = failed]
    PROVE  after = [totalRequests |-> total,
                    successfulRequests |-> m.successfulRequests,
                    failedRequests |-> failed,
                    retryAttempts |-> m.retryAttempts]
BY DEF Metrics

(* The two outcomes of a failed attempt, whatever makes it final.          *)
Fails(r, n, arrived) ==
    \/ /\ n < MaxAttempts
       /\ pc' = [pc EXCEPT ![r] = "sleeping"]
       /\ metrics' = [metrics EXCEPT !.totalRequests = @ + arrived,
                                     !.retryAttempts = @ + 1]
    \/ /\ pc' = [pc EXCEPT ![r] = "failed"]
       /\ metrics' = [metrics EXCEPT !.totalRequests = @ + arrived,
                                     !.failedRequests = @ + 1]

LEMMA FailsMoves ==
    ASSUME metrics \in Metrics, NEW r \in Requests, NEW n \in Nat,
           NEW arrived \in {0, 1}, Fails(r, n, arrived)
    PROVE  \/ Moves(r, "sleeping", arrived) /\ n < MaxAttempts
           \/ Moves(r, "failed", arrived)
<1> DEFINE total == metrics.totalRequests + arrived
           retries == metrics.retryAttempts + 1
           failed == metrics.failedRequests + 1
<1>1. /\ metrics.totalRequests \in Nat
      /\ metrics.successfulRequests \in Nat
      /\ metrics.failedRequests \in Nat
      /\ metrics.retryAttempts \in Nat
  BY DEF Metrics
<1>2. total \in Nat /\ retries \in Nat /\ failed \in Nat
  BY <1>1
<1>3. \/ /\ n < MaxAttempts
         /\ pc' = [pc EXCEPT ![r] = "sleeping"]
         /\ metrics' = [metrics EXCEPT !.totalRequests = total, !.retryAttempts = retries]
      \/ /\ pc' = [pc EXCEPT ![r] = "failed"]
         /\ metrics' = [metrics EXCEPT !.totalRequests = total, !.failedRequests = failed]
  BY DEF Fails
<1>4. total = metrics.totalRequests + arrived /\ failed = metrics.failedRequests + 1
  OBVIOUS
<1> HIDE DEF total, retries, failed
<1>5. CASE /\ n < MaxAttempts
           /\ pc' = [pc EXCEPT ![r] = "sleeping"]
           /\ metrics' = [metrics EXCEPT !.totalRequests = total, !.retryAttempts = retries]
  <2>1. metrics' = [totalRequests |-> total,
                    successfulRequests |-> metrics.successfulRequests,
                    failedRequests |-> metrics.failedRequests,
                    retryAttempts |-> retries]
    BY <1>5, RetryCounted
  <2> QED
    BY <1>1, <1>2, <1>4, <1>5, <2>1 DEF Moves, Metrics, Answered
<1>6. CASE /\ pc' = [pc EXCEPT ![r] = "failed"]
           /\ metrics' = [metrics EXCEPT !.totalRequests = total, !.failedRequests = failed]
  <2>1. metrics' = [totalRequests |-> total,
                    successfulRequests |-> metrics.successfulRequests,
                    failedRequests |-> failed,
                    retryAttempts |-> metrics.retryAttempts]
    BY <1>6, FailureCounted
  <2>2. metrics' \in Metrics
    BY <1>1, <1>2, <2>1 DEF Metrics
  <2>3. metrics'.successfulRequests + metrics'.failedRequests
          = metrics.successfulRequests + metrics.failedRequests + 1
    BY <1>1, <1>4, <2>1
  <2> QED
    BY <1>4, <1>6, <2>1, <2>2, <2>3 DEF Moves, Answered
<1> QED
  BY <1>3, <1>5, <1>6

LEMMA TryMoves ==
    ASSUME Types, Breaker!TypeOK, NEW r \in Requests, NEW n \in 1..MaxAttempts,
           pc[r] # "waiting", n = attempt[r] + 1,
           NEW arrived \in {0, 1}, Try(r, n, arrived)
    PROVE  /\ target' \in [Attempts -> Location]
           /\ \E to \in {"waiting", "sleeping", "failed"} :
                Moves(r, to, arrived) /\ Attempting(r, n, to)
<1>1. <<r, n>> \in Attempts
  BY DEF Attempts
<1>2. PICK p \in {"running", "probing", "rejected"} :
           phase' = [phase EXCEPT ![<<r, n>>] = p]
  BY DEF Try, Breaker!Execute, Breaker!Reject, Breaker!Admit, Breaker!EnterPhase
<1>3. phase'[<<r, n>>] = p
  BY <1>1, <1>2 DEF Breaker!TypeOK
<1>4. p \in Breaker!Phase
  BY DEF Breaker!Phase
<1>5. metrics \in Metrics
  BY DEF Types
<1>6. attempt' = [attempt EXCEPT ![r] = n]
  BY DEF Try
<1>7. CASE p = "rejected"
  <2>1. Fails(r, n, arrived) /\ UNCHANGED target
    BY <1>3, <1>7 DEF Try, AfterFailure, Fails
  <2>2. PICK to \in {"sleeping", "failed"} :
             Moves(r, to, arrived) /\ (to = "sleeping" => n < MaxAttempts)
    <3>1. \/ Moves(r, "sleeping", arrived) /\ n < MaxAttempts
          \/ Moves(r, "failed", arrived)
      BY <1>5, <2>1, FailsMoves, GatewayAssumption
    <3> QED
      BY <3>1
  <2>3. Attempting(r, n, to)
    BY <1>2, <1>4, <1>6, <1>7, <2>2 DEF Attempting
  <2> QED
    BY <2>1, <2>2, <2>3 DEF Types
<1>8. CASE p # "rejected"
  <2>1. PICK i \in IF healthy = {} THEN {NoInstance} ELSE healthy :
             target' = [target EXCEPT ![<<r, n>>] = i]
    BY <1>3, <1>8 DEF Try
  <2>2. target' \in [Attempts -> Location]
    BY <2>1 DEF Types, Location
  <2>3. /\ pc' = [pc EXCEPT ![r] = "waiting"]
        /\ metrics' = [metrics EXCEPT !.totalRequests = @ + arrived]
    BY <1>3, <1>8 DEF Try
  <2>4. Moves(r, "waiting", arrived)
    BY <1>5, <2>3 DEF Moves, Metrics, Answered
  <2>5. Attempting(r, n, "waiting")
    BY <1>2, <1>4, <1>6, <1>8 DEF Attempting
  <2> QED
    BY <2>2, <2>4, <2>5
<1> QED
  BY <1>7, <1>8

(* Every step of a request moves it on, and ends or begins one attempt at  *)
(* most.                                                                   *)
LEMMA RequestMoves ==
    ASSUME Types, Breaker!TypeOK, NEW r \in Requests, OneAttemptAtATime(r),
           \/ Route(r) \/ Refuse(r) \/ Retry(r) \/ Respond(r) \/ AttemptFails(r)
    PROVE  /\ target' \in [Attempts -> Location]
           /\ pc[r] \in {"new", "waiting", "sleeping"}
           /\ \E to \in {"waiting", "sleeping"} \cup Answered :
                /\ Moves(r, to, IF pc[r] = "new" THEN 1 ELSE 0)
                /\ \/ Attempting(r, attempt'[r], to)
                   \/ to = "failed" /\ pc[r] = "new" /\ UNCHANGED <<attempt, phase>>
<1>1. /\ metrics \in Metrics
      /\ target \in [Attempts -> Location]
      /\ attempt \in [Requests -> 0..MaxAttempts]
      /\ MaxAttempts \in Nat \ {0}
  BY GatewayAssumption DEF Types
<1>2. CASE Route(r)
  <2>1. pc[r] = "new" /\ Try(r, 1, 1)
    BY <1>2 DEF Route
  <2>2. attempt'[r] = 1 /\ attempt[r] + 1 = 1
    BY <1>1, <2>1 DEF Try, OneAttemptAtATime
  <2> QED
    BY <1>1, <2>1, <2>2, TryMoves DEF Answered
<1>3. CASE Refuse(r)
  <2>1. Fails(r, MaxAttempts, 1)
    BY <1>3 DEF Refuse, Fails
  <2>2. Moves(r, "failed", 1)
    BY <1>1, <2>1, FailsMoves
  <2> QED
    BY <1>1, <1>3, <2>2 DEF Refuse, Answered, breaker
<1>4. CASE Retry(r)
  <2>1. pc[r] = "sleeping" /\ Try(r, attempt[r] + 1, 0)
    BY <1>4 DEF Retry
  <2>2. attempt'[r] = attempt[r] + 1 /\ attempt[r] + 1 \in 1..MaxAttempts
    BY <1>1, <2>1, AttemptNumbers DEF Try
  <2> QED
    BY <1>1, <2>1, <2>2, TryMoves DEF Answered
<1>5. CASE Respond(r)
  <2>1. pc[r] = "waiting" /\ UNCHANGED <<attempt, target>>
    BY <1>5 DEF Respond
  <2>2. attempt[r] \in 1..MaxAttempts
    BY <2>1, AttemptNumbers
  <2>3. Moves(r, "succeeded", 0)
    BY <1>1, <1>5 DEF Respond, Count, Moves, Metrics, Answered
  <2>4. phase' = [phase EXCEPT ![<<r, attempt[r]>>] = "succeeded"]
    BY <1>5 DEF Respond, Breaker!Succeed, Breaker!EnterPhase
  <2>5. Attempting(r, attempt'[r], "succeeded")
    BY <1>1, <2>1, <2>2, <2>4 DEF Attempting, Breaker!Phase
  <2> QED
    BY <1>1, <2>1, <2>3, <2>5 DEF Answered
<1>6. CASE AttemptFails(r)
  <2>1. pc[r] = "waiting" /\ UNCHANGED <<attempt, target>>
    BY <1>6 DEF AttemptFails
  <2>2. attempt[r] \in 1..MaxAttempts
    BY <2>1, AttemptNumbers
  <2>3. PICK to \in {"sleeping", "failed"} :
             Moves(r, to, 0) /\ (to = "sleeping" => attempt[r] < MaxAttempts)
    <3>1. Fails(r, attempt[r], 0)
      BY <1>6 DEF AttemptFails, AfterFailure, Fails
    <3>2. \/ Moves(r, "sleeping", 0) /\ attempt[r] < MaxAttempts
          \/ Moves(r, "failed", 0)
      BY <1>1, <2>2, <3>1, FailsMoves
    <3> QED
      BY <3>2
  <2>4. phase' = [phase EXCEPT ![<<r, attempt[r]>>] = "failed"]
    BY <1>6 DEF AttemptFails, Breaker!Fail, Breaker!EnterPhase
  <2>5. Attempting(r, attempt'[r], to)
    BY <1>1, <2>1, <2>2, <2>3, <2>4 DEF Attempting, Breaker!Phase
  <2> QED
    BY <1>1, <2>1, <2>3, <2>5 DEF Answered
<1> QED
  BY <1>2, <1>3, <1>4, <1>5, <1>6

-----------------------------------------------------------------------------
(* The parts of the invariant.                                             *)

RequestStep ==
    \E r \in Requests : Route(r) \/ Refuse(r) \/ Retry(r) \/ Respond(r) \/ AttemptFails(r)

(* Every other step leaves the requests and the metrics alone.             *)
LEMMA OtherSteps ==
    ASSUME [Next]_vars, ~RequestStep
    PROVE  UNCHANGED <<pc, attempt, selected, target, metrics>>
BY DEF Next, RequestStep, vars, request, BreakerTimerFires, ResetBreaker,
       ResetLoadBalancer, HealthChanges

(* Where the attempts of one request stand is not changed by the steps of  *)
(* other requests, nor by those of the breaker itself.                     *)
LEMMA AttemptsInductive ==
    ASSUME Types, Breaker!TypeOK, \A r \in Requests : OneAttemptAtATime(r), [Next]_vars
    PROVE  /\ \A r \in Requests : OneAttemptAtATime(r)'
           /\ attempt' \in [Requests -> 0..MaxAttempts]
<1>1. /\ attempt \in [Requests -> 0..MaxAttempts]
      /\ pc \in [Requests -> {"new", "waiting", "sleeping"} \cup Answered]
      /\ phase \in [Attempts -> Breaker!Phase]
      /\ MaxAttempts \in Nat \ {0}
  BY GatewayAssumption DEF Types, Breaker!TypeOK
<1>2. ASSUME NEW r \in Requests,
             Route(r) \/ Refuse(r) \/ Retry(r) \/ Respond(r) \/ AttemptFails(r)
      PROVE  /\ \A q \in Requests : OneAttemptAtATime(q)'
             /\ attempt' \in [Requests -> 0..MaxAttempts]
  <2>1. PICK to \in {"waiting", "sleeping"} \cup Answered :
             /\ Moves(r, to, IF pc[r] = "new" THEN 1 ELSE 0)
             /\ \/ Attempting(r, attempt'[r], to)
                \/ to = "failed" /\ pc[r] = "new" /\ UNCHANGED <<attempt, phase>>
    BY <1>2, RequestMoves
  <2>2. pc' = [pc EXCEPT ![r] = to]
    BY <2>1 DEF Moves
  <2>3. CASE to = "failed" /\ pc[r] = "new" /\ UNCHANGED <<attempt, phase>>
    <3>1. OneAttemptAtATime(r)'
      BY <1>1, <2>2, <2>3 DEF OneAttemptAtATime
    <3>2. ASSUME NEW q \in Requests, q # r PROVE OneAttemptAtATime(q)'
      BY <1>1, <2>2, <2>3, <3>2 DEF OneAttemptAtATime
    <3> QED
      BY <1>1, <2>3, <3>1, <3>2
  <2>4. CASE Attempting(r, attempt'[r], to)
    <3> DEFINE n == attempt'[r]
    <3>1. PICK p \in Breaker!Phase :
               /\ phase' = [phase EXCEPT ![<<r, n>>] = p]
               /\ IF to = "waiting" THEN p \in {"running", "probing"}
                  ELSE p \in {"succeeded", "failed", "rejected"}
      BY <2>4 DEF Attempting
    <3>2. /\ n \in 1..MaxAttempts
          /\ attempt' = [attempt EXCEPT ![r] = n]
          /\ n = IF pc[r] = "waiting" THEN attempt[r] ELSE attempt[r] + 1
          /\ to = "sleeping" => n < MaxAttempts
      BY <2>4 DEF Attempting
    <3> HIDE DEF n
    <3>3. \A q \in Requests, m \in 1..MaxAttempts :
               phase'[<<q, m>>] = IF q = r /\ m = n THEN p ELSE phase[<<q, m>>]
      BY <1>1, <3>1 DEF Attempts
    <3>4. attempt'[r] = n /\ pc'[r] = to
      BY <1>1, <2>2, <3>2
    <3>5. OneAttemptAtATime(r)'
      <4> DEFINE k == attempt[r]
      <4>0. k \in 0..MaxAttempts
        BY <1>1
      <4>1. /\ \A m \in 1..MaxAttempts : m > k => phase[<<r, m>>] = "new"
            /\ \A m \in 1..MaxAttempts :
                 m < k \/ (m = k /\ pc[r] # "waiting")
                   => phase[<<r, m>>] \in {"succeeded", "failed", "rejected"}
        BY DEF OneAttemptAtATime
      <4> HIDE DEF k
      <4>2. /\ \A m \in 1..MaxAttempts : m > n => phase[<<r, m>>] = "new"
            /\ \A m \in 1..MaxAttempts :
                 m < n => phase[<<r, m>>] \in {"succeeded", "failed", "rejected"}
        BY <1>1, <3>2, <4>0, <4>1 DEF k
      <4> QED
        BY <1>1, <3>1, <3>2, <3>3, <3>4, <4>2 DEF OneAttemptAtATime, Answered
    <3>6. ASSUME NEW q \in Requests, q # r PROVE OneAttemptAtATime(q)'
      <4>1. attempt'[q] = attempt[q] /\ pc'[q] = pc[q]
        BY <1>1, <2>2, <3>2, <3>6
      <4>2. attempt[q] \in 0..MaxAttempts
        BY <1>1
      <4> QED
        BY <1>1, <3>3, <3>6, <4>1, <4>2 DEF OneAttemptAtATime
    <3> QED
      BY <1>1, <3>2, <3>5, <3>6
  <2> QED
    BY <2>1, <2>3, <2>4
<1>3. CASE ~RequestStep
  <2>1. UNCHANGED <<pc, attempt>>
    BY <1>3, OtherSteps
  <2>2. UNCHANGED phase
    BY <1>3 DEF Next, RequestStep, vars, breaker, BreakerTimerFires, Breaker!TimerFires,
                ResetBreaker, Breaker!Reset, ResetLoadBalancer, HealthChanges
  <2> QED
    BY <1>1, <2>1, <2>2 DEF OneAttemptAtATime
<1> QED
  BY <1>2, <1>3 DEF RequestStep

(* Two sets of requests that differ in one of them.                        *)
LEMMA OneChanges ==
    ASSUME NEW A \in SUBSET Requests, NEW B \in SUBSET Requests, NEW r,
           A \ {r} = B \ {r}
    PROVE  /\ Cardinality(A) \in Nat
           /\ Cardinality(B) \in Nat
           /\ Cardinality(B) + (IF r \in A THEN 1 ELSE 0)
                = Cardinality(A) + (IF r \in B THEN 1 ELSE 0)
<1>1. /\ IsFiniteSet(A) /\ Cardinality(A) \in Nat
      /\ IsFiniteSet(B) /\ Cardinality(B) \in Nat
  BY GatewayAssumption, FS_Subset, FS_CardinalityType
<1>2. Cardinality(A \ {r}) = IF r \in A THEN Cardinality(A) - 1 ELSE Cardinality(A)
  BY <1>1, FS_RemoveElement
<1>3. Cardinality(B \ {r}) = IF r \in B THEN Cardinality(B) - 1 ELSE Cardinality(B)
  BY <1>1, FS_RemoveElement
<1>4. Cardinality(A \ {r}) = Cardinality(B \ {r})
  OBVIOUS
<1> QED
  BY <1>1, <1>2, <1>3, <1>4

LEMMA MetricsInductive ==
    ASSUME Types, Breaker!TypeOK, \A r \in Requests : OneAttemptAtATime(r),
           MetricsAddUp, [Next]_vars
    PROVE  /\ MetricsAddUp'
           /\ metrics' \in Metrics
           /\ pc' \in [Requests -> {"new", "waiting", "sleeping"} \cup Answered]
           /\ target' \in [Attempts -> Location]
<1>1. /\ metrics \in Metrics
      /\ pc \in [Requests -> {"new", "waiting", "sleeping"} \cup Answered]
      /\ target \in [Attempts -> Location]
  BY DEF Types
<1>2. CASE ~RequestStep
  BY <1>1, <1>2, OtherSteps DEF MetricsAddUp
<1>3. ASSUME NEW r \in Requests,
             Route(r) \/ Refuse(r) \/ Retry(r) \/ Respond(r) \/ AttemptFails(r)
      PROVE  /\ MetricsAddUp'
             /\ metrics' \in Metrics
             /\ pc' \in [Requests -> {"new", "waiting", "sleeping"} \cup Answered]
             /\ target' \in [Attempts -> Location]
  <2> DEFINE A == {q \in Requests : pc[q] \in {"waiting", "sleeping"}}
             B == {q \in Requests : pc'[q] \in {"waiting", "sleeping"}}
  <2>1. /\ target' \in [Attempts -> Location]
        /\ pc[r] \in {"new", "waiting", "sleeping"}
    BY <1>3, RequestMoves
  <2>2. PICK to \in {"waiting", "sleeping"} \cup Answered :
             Moves(r, to, IF pc[r] = "new" THEN 1 ELSE 0)
    BY <1>3, RequestMoves
  <2>3. /\ pc' = [pc EXCEPT ![r] = to]
        /\ metrics' \in Metrics
        /\ metrics'.totalRequests
             = metrics.totalRequests + (IF pc[r] = "new" THEN 1 ELSE 0)
        /\ metrics'.successfulRequests + metrics'.failedRequests
             = metrics.successfulRequests + metrics.failedRequests
                  + (IF to \in Answered THEN 1 ELSE 0)
    BY <2>2 DEF Moves
  <2>4. /\ A \in SUBSET Requests /\ B \in SUBSET Requests
        /\ A \ {r} = B \ {r}
    BY <1>1, <2>3
  <2>5. r \in A <=> pc[r] # "new"
    BY <2>1
  <2>6. r \in B <=> to \notin Answered
    BY <1>1, <2>3 DEF Answered
  <2>7. /\ metrics.totalRequests \in Nat /\ metrics'.totalRequests \in Nat
        /\ metrics.successfulRequests \in Nat /\ metrics'.successfulRequests \in Nat
        /\ metrics.failedRequests \in Nat /\ metrics'.failedRequests \in Nat
    BY <1>1, <2>3 DEF Metrics
  <2>8. metrics.totalRequests
          = metrics.successfulRequests + metrics.failedRequests + Cardinality(A)
    BY DEF MetricsAddUp
  <2>9. /\ Cardinality(A) \in Nat /\ Cardinality(B) \in Nat
        /\ Cardinality(B) + (IF r \in A THEN 1 ELSE 0)
             = Cardinality(A) + (IF r \in B THEN 1 ELSE 0)
    BY <2>4, OneChanges
  <2>10. pc' \in [Requests -> {"new", "waiting", "sleeping"} \cup Answered]
    BY <1>1, <2>3
  <2> HIDE DEF A, B
  <2>11. metrics'.totalRequests
           = metrics'.successfulRequests + metrics'.failedRequests + Cardinality(B)
    BY <2>3, <2>5, <2>6, <2>7, <2>8, <2>9
  <2>12. MetricsAddUp'
    BY <2>11 DEF MetricsAddUp, B
  <2> QED
    BY <2>1, <2>3, <2>10, <2>12
<1> QED
  BY <1>2, <1>3 DEF RequestStep

(* The counts of the balancer and the choice of an instance keep their     *)
(* types.                                                                  *)
LEMMA BalancerTypes ==
    ASSUME Types, [Next]_vars
    PROVE  /\ BalancerTypeOK'
           /\ healthy' \subseteq Instances
           /\ selected' \in [Requests -> Location]
           /\ openAtReset' \in [Instances -> Nat]
<1> USE DEF Types, BalancerTypeOK
<1>1. \A i \in Instances : IsFiniteSet(UnderWay(i)) /\ Cardinality(UnderWay(i)) \in Nat
  BY GatewayAssumption, FS_Subset, FS_CardinalityType DEF UnderWay
<1>2. IsFiniteSet(healthy) /\ Cardinality(healthy) \in Nat
  BY BalancerAssumption, FS_Subset, FS_CardinalityType
<1>3. ASSUME NEW r \in Requests, Route(r)
      PROVE  /\ BalancerTypeOK'
             /\ UNCHANGED <<healthy, openAtReset>>
             /\ selected' \in [Requests -> Location]
  <2>1. PICK i \in healthy : /\ SelectInstance(i)
                             /\ selected' = [selected EXCEPT ![r] = i]
    BY <1>3 DEF Route
  <2>2. Cardinality(healthy) # 0
    BY <1>2, <2>1, FS_EmptySet DEF SelectInstance
  <2>3. currentIndex' \in Nat
    BY <1>2, <2>1, <2>2 DEF SelectInstance, RoundRobin, LeastConnections, Random
  <2>4. BalancerTypeOK'
    BY <2>1, <2>3 DEF SelectInstance
  <2> QED
    BY <1>3, <2>1, <2>4 DEF Route, Location
<1>4. ASSUME NEW r \in Requests, Respond(r)
      PROVE  BalancerTypeOK' /\ UNCHANGED <<healthy, selected, openAtReset>>
  <2> DEFINE k == selected[r]
             fewer == IF activeConnections[k] > 0 THEN activeConnections[k] - 1 ELSE 0
  <2>1. activeConnections' = [activeConnections EXCEPT ![k] = fewer]
    BY <1>4 DEF Respond, RecordResponse
  <2>2. k \in Instances => fewer \in Nat
    OBVIOUS
  <2>3. activeConnections' \in [Instances -> Nat]
    <3> HIDE DEF fewer, k
    <3> QED
      BY <2>1, <2>2
  <2> QED
    BY <1>4, <2>3 DEF Respond, RecordResponse
<1>5. CASE ResetLoadBalancer
  BY <1>1, <1>5 DEF ResetLoadBalancer, ResetBalancer, request
<1>6. ASSUME NEW i \in Instances, HealthChanges(i)
      PROVE  /\ healthy' \subseteq Instances
             /\ UNCHANGED <<balancer, selected, openAtReset>>
  BY <1>6 DEF HealthChanges, request
<1>7. ASSUME NEW r \in Requests, Refuse(r) \/ Retry(r) \/ AttemptFails(r)
      PROVE  UNCHANGED <<balancer, healthy, selected, openAtReset>>
  BY <1>7 DEF Refuse, Retry, AttemptFails
<1>8. CASE BreakerTimerFires \/ ResetBreaker \/ UNCHANGED vars
  BY <1>8 DEF BreakerTimerFires, ResetBreaker, vars, balancer, counts, request
<1> QED
  BY <1>3, <1>4, <1>5, <1>6, <1>7, <1>8 DEF Next, balancer, counts

(* A request is under way on the instance selected for it until it ends.   *)
LEMMA BusyInductive ==
    ASSUME Types, Types', Breaker!TypeOK, \A r \in Requests : OneAttemptAtATime(r),
           BusyInstancesCounted, [Next]_vars
    PROVE  BusyInstancesCounted'
<1> DEFINE known(i) == activeConnections[i] + openAtReset[i]
<1>1. /\ pc \in [Requests -> {"new", "waiting", "sleeping"} \cup Answered]
      /\ selected \in [Requests -> Location]
      /\ activeConnections \in [Instances -> Nat]
      /\ openAtReset \in [Instances -> Nat]
      /\ activeConnections' \in [Instances -> Nat]
  BY DEF Types, BalancerTypeOK
<1>2. \A i \in Instances : Cardinality(UnderWay(i)) <= known(i)
  BY DEF BusyInstancesCounted
<1>3. ASSUME NEW r \in Requests, NEW i \in Instances,
             UnderWay(i) \ {r} = UnderWay(i)' \ {r}, NEW more \in Int,
             activeConnections'[i] = activeConnections[i] + more,
             openAtReset' = openAtReset,
             (IF r \in UnderWay(i)' THEN 1 ELSE 0)
                <= (IF r \in UnderWay(i) THEN 1 ELSE 0) + more
      PROVE  Cardinality(UnderWay(i)') <= known(i)'
  <2> DEFINE A == UnderWay(i)
             B == UnderWay(i)'
  <2>1. A \in SUBSET Requests /\ B \in SUBSET Requests /\ A \ {r} = B \ {r}
    BY <1>3 DEF UnderWay
  <2>2. /\ Cardinality(A) \in Nat /\ Cardinality(B) \in Nat
        /\ Cardinality(B) + (IF r \in A THEN 1 ELSE 0)
             = Cardinality(A) + (IF r \in B THEN 1 ELSE 0)
    BY <2>1, OneChanges
  <2>3. known(i) \in Nat /\ known(i)' = known(i) + more /\ Cardinality(A) <= known(i)
    BY <1>1, <1>2, <1>3
  <2>4. (IF r \in B THEN 1 ELSE 0) <= (IF r \in A THEN 1 ELSE 0) + more
    BY <1>3
  <2> HIDE DEF A, B, known
  <2>5. Cardinality(B) <= known(i)'
    BY <2>2, <2>3, <2>4
  <2> QED
    BY <2>5 DEF B
<1>4. ASSUME NEW r \in Requests,
             Route(r) \/ Refuse(r) \/ Retry(r) \/ Respond(r) \/ AttemptFails(r)
      PROVE  BusyInstancesCounted'
  <2>1. /\ pc[r] \in {"new", "waiting", "sleeping"}
        /\ \E to \in {"waiting", "sleeping"} \cup Answered : pc' = [pc EXCEPT ![r] = to]
    BY <1>4, RequestMoves DEF Moves
  <2>2. openAtReset' = openAtReset
    BY <1>4 DEF Route, Refuse, Retry, Respond, AttemptFails
  <2>3. \A q \in Requests \ {r} : pc'[q] = pc[q] /\ selected'[q] = selected[q]
    BY <1>1, <1>4, <2>1 DEF Route, Refuse, Retry, Respond, AttemptFails
  <2>4. SUFFICES ASSUME NEW i \in Instances
                 PROVE  Cardinality(UnderWay(i)') <= known(i)'
    BY DEF BusyInstancesCounted
  <2>5. UnderWay(i) \ {r} = UnderWay(i)' \ {r}
    BY <2>3 DEF UnderWay
  <2>6. CASE Route(r)
    <3>1. PICK k \in healthy : /\ SelectInstance(k)
                               /\ selected' = [selected EXCEPT ![r] = k]
      BY <2>6 DEF Route
    <3>2. r \in UnderWay(i)' => i = k
      BY <1>1, <3>1 DEF UnderWay
    <3>3. activeConnections'[i] = activeConnections[i] + (IF i = k THEN 1 ELSE 0)
      BY <1>1, <3>1 DEF SelectInstance
    <3> QED
      BY <1>3, <2>2, <2>5, <3>2, <3>3
  <2>7. CASE Refuse(r) \/ Retry(r) \/ AttemptFails(r)
    <3>0. UNCHANGED <<activeConnections, selected>>
      BY <2>7 DEF Refuse, Retry, AttemptFails, balancer, counts
    <3>1. activeConnections'[i] = activeConnections[i] + 0 /\ selected' = selected
      BY <1>1, <3>0
    <3>2. r \in UnderWay(i)' => r \in UnderWay(i)
      BY <1>1, <2>1, <2>7, <3>1 DEF Refuse, Retry, AttemptFails, UnderWay
    <3> QED
      BY <1>3, <2>2, <2>5, <3>1, <3>2
  <2>8. CASE Respond(r)
    <3>1. r \notin UnderWay(i)'
      BY <1>1, <2>8 DEF Respond, UnderWay
    <3>2. pc[r] = "waiting"
      BY <2>8 DEF Respond
    <3>3. CASE selected[r] = i /\ activeConnections[i] > 0
      <4>1. r \in UnderWay(i)
        BY <3>2, <3>3 DEF UnderWay
      <4>2. activeConnections'[i] = activeConnections[i] + (-1)
        BY <1>1, <2>8, <3>3 DEF Respond, RecordResponse
      <4> QED
        BY <1>3, <2>2, <2>5, <3>1, <4>1, <4>2
    <3>4. CASE ~(selected[r] = i /\ activeConnections[i] > 0)
      <4>1. activeConnections'[i] = activeConnections[i] + 0
        BY <1>1, <2>8, <3>4 DEF Respond, RecordResponse
      <4> QED
        BY <1>3, <2>2, <2>5, <3>1, <4>1
    <3> QED
      BY <3>3, <3>4
  <2> QED
    BY <1>4, <2>6, <2>7, <2>8
<1>5. CASE ResetLoadBalancer
  <2>1. \A i \in Instances : /\ UnderWay(i)' = UnderWay(i)
                             /\ openAtReset'[i] = Cardinality(UnderWay(i))
                             /\ activeConnections'[i] = 0
    BY <1>5 DEF ResetLoadBalancer, ResetBalancer, UnderWay, request
  <2>2. \A i \in Instances : Cardinality(UnderWay(i)) \in Nat
    BY GatewayAssumption, FS_Subset, FS_CardinalityType DEF UnderWay
  <2> QED
    BY <2>1, <2>2 DEF BusyInstancesCounted
<1>6. CASE \/ BreakerTimerFires \/ ResetBreaker \/ UNCHANGED vars
           \/ \E i \in Instances : HealthChanges(i)
  <2>1. UNCHANGED <<pc, selected, activeConnections, openAtReset>>
    BY <1>6 DEF BreakerTimerFires, ResetBreaker, HealthChanges, vars, request, balancer, counts
  <2> QED
    BY <2>1 DEF BusyInstancesCounted, UnderWay
<1> QED
  BY <1>4, <1>5, <1>6 DEF Next

-----------------------------------------------------------------------------
(* The theorems.                                                           *)

LEMMA InitInv == Init => Inv
<1> SUFFICES ASSUME Init PROVE Inv
  OBVIOUS
<1>1. Breaker!Inv
  BY BreakerInitInv DEF Init
<1>2. FailuresExist
  <2>1. Failures = {}
    BY DEF Failures, Init, Breaker!Init
  <2> QED
    BY <2>1, FS_EmptySet DEF FailuresExist, Init, Breaker!Init
<1>3. Types
  BY GatewayAssumption DEF Init, BalancerInit, Types, BalancerTypeOK, Location, Metrics, Answered
<1>4. \A r \in Requests : OneAttemptAtATime(r)
  BY DEF Init, Breaker!Init, OneAttemptAtATime, Attempts
<1>5. {r \in Requests : pc[r] \in {"waiting", "sleeping"}} = {}
  BY DEF Init
<1>6. \A i \in Instances : UnderWay(i) = {}
  BY DEF Init, UnderWay
<1>7. MetricsAddUp
  BY <1>5, FS_EmptySet DEF MetricsAddUp, Init
<1>8. BusyInstancesCounted
  <2>1. \A i \in Instances : Cardinality(UnderWay(i)) = 0
    BY <1>6, FS_EmptySet
  <2>2. \A i \in Instances : activeConnections[i] = 0 /\ openAtReset[i] = 0
    BY DEF Init, BalancerInit
  <2> QED
    BY <2>1, <2>2 DEF BusyInstancesCounted
<1> QED
  BY <1>1, <1>2, <1>3, <1>4, <1>7, <1>8 DEF Inv

LEMMA NextInv == Inv /\ [Next]_vars => Inv' /\ [Breaker!Next]_Breaker!vars /\ TripTakesEnoughRequests
<1> SUFFICES ASSUME Inv, [Next]_vars
             PROVE  Inv' /\ [Breaker!Next]_Breaker!vars /\ TripTakesEnoughRequests
  OBVIOUS
<1>1. /\ Breaker!Inv /\ Breaker!TypeOK /\ FailuresExist /\ Types
      /\ \A r \in Requests : OneAttemptAtATime(r)
      /\ MetricsAddUp /\ BusyInstancesCounted
  BY DEF Inv, Breaker!Inv
<1>2. [Breaker!Next]_Breaker!vars
  BY <1>1, UsesBreaker
<1>3. Breaker!Inv'
  BY <1>1, <1>2, BreakerNextInv
<1>4. FailuresExist'
  BY <1>1, <1>2, FailuresInductive
<1>5. TripTakesEnoughRequests
  BY <1>1, <1>2, <1>4, TripNeedsRequests
<1>6. (\A r \in Requests : OneAttemptAtATime(r))' /\ attempt' \in [Requests -> 0..MaxAttempts]
  BY <1>1, AttemptsInductive
<1>7. MetricsAddUp' /\ metrics' \in Metrics /\ target' \in [Attempts -> Location]
      /\ pc' \in [Requests -> {"new", "waiting", "sleeping"} \cup Answered]
  BY <1>1, MetricsInductive
<1>8. Types'
  BY <1>1, <1>6, <1>7, BalancerTypes DEF Types
<1>9. BusyInstancesCounted'
  BY <1>1, <1>8, BusyInductive
<1> QED
  BY <1>2, <1>3, <1>4, <1>5, <1>6, <1>7, <1>8, <1>9 DEF Inv

(* Breaker, attempts, metrics and counts agree in every behaviour of       *)
(* services/gateway.service.ts.                                            *)
THEOREM InvHolds == Spec => []Inv
BY InitInv, NextInv, PTL DEF Spec

(* Whatever the order in which attempts fail, are rejected and repeated:   *)
(* requests counted in are counted out once or still wait, and an instance *)
(* is counted at least as busy as it is, but for what a reset forgot.      *)
THEOREM BooksAreRight == Spec => []BooksBalance
<1>1. Inv => BooksBalance
  BY DEF Inv, Breaker!Inv, Types, BooksBalance, TypeOK
<1> QED
  BY <1>1, InvHolds, PTL

(* The gateway implements the specification of the breaker, and no request *)
(* trips the breaker alone unless its attempts suffice.                    *)
THEOREM BreakerUsed == Spec => BreakerIsUsedProperly
<1>1. Init => Breaker!Init
  BY DEF Init
<1>2. Inv /\ [Next]_vars => [Breaker!Next]_Breaker!vars /\ [TripTakesEnoughRequests]_vars
  BY NextInv
<1> QED
  BY <1>1, <1>2, InvHolds, PTL DEF Spec, BreakerIsUsedProperly

(* What is proved of the breaker holds in the gateway: in particular, when *)
(* its test requests are used up some request still waits for one, so that *)
(* the requests it rejects meanwhile are not rejected for ever.            *)
THEOREM SaturationIsSomeonesWait ==
    Spec => [](state = "HALF_OPEN" /\ halfOpenAttempts = HalfOpenRequests
                 => \E r \in Requests : pc[r] = "waiting")
<1>1. Inv => (state = "HALF_OPEN" /\ halfOpenAttempts = HalfOpenRequests
                 => \E r \in Requests : pc[r] = "waiting")
  <2> SUFFICES ASSUME Inv, state = "HALF_OPEN", halfOpenAttempts = HalfOpenRequests
               PROVE  \E r \in Requests : pc[r] = "waiting"
    OBVIOUS
  <2>1. PICK c \in Attempts : phase[c] = "probing"
    BY DEF Inv, Breaker!Inv, Breaker!ExhaustedProbesUnderWay
  <2>2. PICK r \in Requests, n \in 1..MaxAttempts : c = <<r, n>>
    BY DEF Attempts
  <2>3. attempt[r] \in 0..MaxAttempts /\ OneAttemptAtATime(r)
    BY DEF Inv, Types
  <2> QED
    BY <2>1, <2>2, <2>3, GatewayAssumption DEF OneAttemptAtATime
<1> QED
  BY <1>1, InvHolds, PTL

-----------------------------------------------------------------------------
(* The load balancer alone, as BalancerAccounting uses it.                 *)
(* Counting modulo n, as an index that goes round.                         *)

LEMMA NextInTurn ==
    ASSUME NEW x \in Nat, NEW n \in Nat \ {0}
    PROVE  /\ x % n \in 0..(n - 1)
           /\ (x + 1) % n = IF (x % n) + 1 = n THEN 0 ELSE (x % n) + 1
<1> DEFINE q == x \div n
           r == x % n
           p == (x + 1) \div n
           s == (x + 1) % n
<1>1. q \in Int /\ p \in Int /\ r \in 0..(n - 1) /\ s \in 0..(n - 1)
  OBVIOUS
<1>2. x = n * q + r
  OBVIOUS
<1>3. x + 1 = n * p + s
  OBVIOUS
<1> HIDE DEF q, r, p, s
<1>4. n * (p - q) = n * p - n * q /\ n * p \in Int /\ n * q \in Int
  BY <1>1
<1>5. n * (p - q) = r + 1 - s
  BY <1>1, <1>2, <1>3, <1>4
<1>6. ASSUME NEW d \in Int, d >= 2 PROVE n * d > n
  BY <1>6
<1>7. ASSUME NEW d \in Int, d <= -1 PROVE n * d <= -n
  BY <1>7
<1>8. p - q \in {0, 1}
  BY <1>1, <1>5, <1>6, <1>7
<1>9. s = IF r + 1 = n THEN 0 ELSE r + 1
  BY <1>1, <1>5, <1>8
<1> QED
  BY <1>1, <1>9 DEF r, s

-----------------------------------------------------------------------------
(* The type, and the connections.                                          *)

TypesAndConnections == AccountingTypeOK /\ ConnectionsAccountedFor

LEMMA ConnectionsInductive ==
    TypesAndConnections /\ [AccountingNext]_accountingVars => TypesAndConnections'
<1> SUFFICES ASSUME TypesAndConnections, [AccountingNext]_accountingVars
             PROVE  TypesAndConnections'
  OBVIOUS
<1> USE BalancerAssumption DEF TypesAndConnections
<1>1. ASSUME NEW i \in Instances, Select(i) PROVE TypesAndConnections'
  <2>1. /\ currentIndex' \in Nat
        /\ algorithm' = algorithm /\ lbRequests' = lbRequests + 1
    <3>1. IsFiniteSet(healthy) /\ healthy # {}
      BY <1>1, FS_Subset DEF AccountingTypeOK, Select, SelectInstance
    <3>2. Cardinality(healthy) \in Nat \ {0}
      BY <3>1, FS_CardinalityType, FS_EmptySet
    <3>3. currentIndex \in Nat => (currentIndex + 1) % Cardinality(healthy) \in Nat
      BY <3>2
    <3> QED
      BY <1>1, <3>3 DEF AccountingTypeOK, BalancerTypeOK, Select, SelectInstance, RoundRobin,
                        LeastConnections, Random
  <2>2. /\ requestCount' = [requestCount EXCEPT ![i] = @ + 1]
        /\ activeConnections' = [activeConnections EXCEPT ![i] = @ + 1]
        /\ open' = [open EXCEPT ![i] = @ + 1]
        /\ sinceChange' = [sinceChange EXCEPT ![i] = @ + 1]
        /\ selections' = selections + 1
        /\ healthy' = healthy /\ openAtReset' = openAtReset
    BY <1>1 DEF Select, SelectInstance
  <2>3. AccountingTypeOK'
    BY <2>1, <2>2 DEF AccountingTypeOK, BalancerTypeOK
  <2>4. ConnectionsAccountedFor'
    BY <2>2 DEF AccountingTypeOK, BalancerTypeOK, ConnectionsAccountedFor
  <2> QED
    BY <2>3, <2>4
<1>2. ASSUME NEW i \in Instances, RequestEnds(i) PROVE TypesAndConnections'
  BY <1>2 DEF AccountingTypeOK, BalancerTypeOK, ConnectionsAccountedFor, RequestEnds,
              RecordResponse
<1>3. ASSUME NEW i \in Instances, RegistryReports(i) PROVE TypesAndConnections'
  BY <1>3 DEF AccountingTypeOK, BalancerTypeOK, ConnectionsAccountedFor, RegistryReports,
              balancer, counts, Zero
<1>4. CASE Reset
  BY <1>4 DEF AccountingTypeOK, BalancerTypeOK, ConnectionsAccountedFor, Reset,
              ResetBalancer, Zero
<1>5. CASE UNCHANGED accountingVars
  BY <1>5 DEF AccountingTypeOK, BalancerTypeOK, ConnectionsAccountedFor, accountingVars,
              usage, balancer, counts
<1> QED
  BY <1>1, <1>2, <1>3, <1>4, <1>5 DEF AccountingNext

-----------------------------------------------------------------------------
(* Round robin.                                                            *)

(* Between two changes the turns have reached a place now, from the place  *)
(* first where the round under way began.                                  *)
Reached(place, first, now) ==
    IF first <= now THEN first <= place /\ place < now
                    ELSE first <= place \/ place < now

(* Instances already reached in the round under way have had one request   *)
(* more than the others.                                                   *)
InTurn(first, rounds) ==
    \A i \in healthy :
        sinceChange[i] =
            IF Reached(Rank(healthy, i), first, currentIndex % Cardinality(healthy))
            THEN rounds + 1 ELSE rounds

TurnsAreTaken ==
    algorithm = "round-robin" /\ healthy # {} =>
        \E first \in 0..(Cardinality(healthy) - 1), rounds \in Nat : InTurn(first, rounds)

(* Who has had no request since the last change is in no round.            *)
NoTurns == \A i \in healthy : sinceChange[i] = 0

LEMMA FreshTurns == AccountingTypeOK /\ NoTurns => TurnsAreTaken
<1> SUFFICES ASSUME AccountingTypeOK, NoTurns, healthy # {} PROVE TurnsAreTaken
  BY DEF TurnsAreTaken
<1>1. Cardinality(healthy) \in Nat \ {0}
  BY BalancerAssumption, FS_Subset, FS_CardinalityType, FS_EmptySet DEF AccountingTypeOK
<1> DEFINE now == currentIndex % Cardinality(healthy)
<1>2. now \in 0..(Cardinality(healthy) - 1)
  BY <1>1, NextInTurn DEF AccountingTypeOK, BalancerTypeOK
<1>3. InTurn(now, 0)
  <2>1. \A i \in healthy : Rank(healthy, i) \in Nat
    <3>1. healthy \in SUBSET Nat /\ IsFiniteSet(healthy)
      BY BalancerAssumption, FS_Subset DEF AccountingTypeOK
    <3> QED
      BY <1>1, <3>1, RanksAreDistinct
  <2> QED
    BY <1>2, <2>1 DEF InTurn, Reached, NoTurns
<1> QED
  BY <1>2, <1>3 DEF TurnsAreTaken

LEMMA SelectKeepsTurns ==
    ASSUME AccountingTypeOK, TurnsAreTaken, NEW i \in Instances, Select(i)
    PROVE  TurnsAreTaken'
<1> SUFFICES ASSUME algorithm = "round-robin" PROVE TurnsAreTaken'
  BY DEF TurnsAreTaken, Select, SelectInstance
<1> DEFINE n == Cardinality(healthy)
           now == currentIndex % n
<1>1. /\ healthy # {} /\ healthy' = healthy /\ i \in healthy
      /\ RoundRobin(i)
      /\ sinceChange' = [sinceChange EXCEPT ![i] = @ + 1]
  BY DEF Select, SelectInstance, RoundRobin
<1>2. healthy \in SUBSET Nat /\ IsFiniteSet(healthy)
  BY BalancerAssumption, FS_Subset DEF AccountingTypeOK
<1>3. n \in Nat \ {0}
  BY <1>1, <1>2, FS_CardinalityType, FS_EmptySet
<1>4. /\ now \in 0..(n - 1)
      /\ currentIndex' = IF now + 1 = n THEN 0 ELSE now + 1
      /\ Rank(healthy, i) = now
  BY <1>1, <1>3, NextInTurn DEF RoundRobin, AccountingTypeOK, BalancerTypeOK
<1>5. currentIndex' % n = currentIndex'
  <2>1. ASSUME NEW x \in 0..(n - 1) PROVE x % n = x
    BY <1>3
  <2> QED
    BY <1>3, <1>4, <2>1
<1>6. PICK first \in 0..(n - 1), rounds \in Nat : InTurn(first, rounds)
  BY <1>1 DEF TurnsAreTaken
<1> PICK begun \in Nat : begun = IF currentIndex' = first THEN rounds + 1 ELSE rounds
  OBVIOUS
<1> DEFINE place(j) == Rank(healthy, j)
<1>7. \A j \in healthy : place(j) \in 0..(n - 1) /\ (place(j) = now => j = i)
  BY <1>1, <1>2, <1>4, RanksAreDistinct
<1>8. \A j \in healthy : sinceChange[j] = IF Reached(place(j), first, now)
                                          THEN rounds + 1 ELSE rounds
  BY <1>6 DEF InTurn
<1>9. \A j \in healthy : sinceChange'[j] = IF j = i THEN sinceChange[j] + 1 ELSE sinceChange[j]
  BY <1>1 DEF AccountingTypeOK
<1> HIDE DEF n, now, place
<1>10. \A j \in healthy : sinceChange'[j] = IF Reached(place(j), first, currentIndex')
                                            THEN begun + 1 ELSE begun
  <2> TAKE j \in healthy
  <2>1. CASE j = i
    <3>1. place(j) = now
      BY <1>4, <2>1 DEF place
    <3> QED
      BY <1>3, <1>4, <1>8, <1>9, <2>1, <3>1 DEF Reached
  <2>2. CASE j # i
    BY <1>3, <1>4, <1>7, <1>8, <1>9, <2>2 DEF Reached
  <2> QED
    BY <2>1, <2>2
<1>11. InTurn(first, begun)'
  BY <1>1, <1>5, <1>10 DEF InTurn, Rank, n, place
<1> QED
  BY <1>1, <1>11 DEF TurnsAreTaken, n

LEMMA TurnsInductive ==
    AccountingTypeOK /\ AccountingTypeOK' /\ TurnsAreTaken /\ [AccountingNext]_accountingVars
        => TurnsAreTaken'
<1> SUFFICES ASSUME AccountingTypeOK, AccountingTypeOK', TurnsAreTaken,
                    [AccountingNext]_accountingVars
             PROVE  TurnsAreTaken'
  OBVIOUS
<1>1. CASE sinceChange' = Zero
  <2>1. NoTurns'
    BY <1>1 DEF AccountingTypeOK, Zero, NoTurns
  <2> QED
    BY <2>1, FreshTurns, PTL
<1>2. CASE UNCHANGED <<algorithm, healthy, sinceChange, currentIndex>>
  BY <1>2 DEF TurnsAreTaken, InTurn, Rank
<1> QED
  BY <1>1, <1>2, SelectKeepsTurns
     DEF AccountingNext, RequestEnds, RecordResponse, RegistryReports, Reset,
         accountingVars, usage, balancer

LEMMA TakenTurnsAreEven == AccountingTypeOK /\ TurnsAreTaken => RoundRobinIsEven
<1> SUFFICES ASSUME AccountingTypeOK, TurnsAreTaken, algorithm = "round-robin",
                    NEW i \in healthy, NEW j \in healthy
             PROVE  sinceChange[i] <= sinceChange[j] + 1
  BY DEF RoundRobinIsEven
<1>1. PICK first \in 0..(Cardinality(healthy) - 1), rounds \in Nat : InTurn(first, rounds)
  BY DEF TurnsAreTaken
<1>2. \A k \in healthy : sinceChange[k] \in {rounds, rounds + 1}
  BY <1>1 DEF InTurn
<1> QED
  BY <1>2

-----------------------------------------------------------------------------

AccountingInv == TypesAndConnections /\ TurnsAreTaken

LEMMA AccountingInitInv == AccountingInit => AccountingInv
<1> SUFFICES ASSUME AccountingInit PROVE AccountingInv
  OBVIOUS
<1>1. TypesAndConnections
  BY BalancerAssumption
     DEF AccountingInit, BalancerInit, TypesAndConnections, AccountingTypeOK, BalancerTypeOK, Zero,
         ConnectionsAccountedFor
<1>2. TurnsAreTaken
  BY <1>1, FreshTurns DEF TypesAndConnections, AccountingInit, Zero, NoTurns
<1> QED
  BY <1>1, <1>2 DEF AccountingInv

(* Connections are accounted for and turns are taken in every behaviour of *)
(* services/load-balancer.service.ts.                                      *)
THEOREM AccountingInvHolds == AccountingSpec => []AccountingInv
<1>1. AccountingInv /\ [AccountingNext]_accountingVars => AccountingInv'
  BY ConnectionsInductive, TurnsInductive DEF AccountingInv, TypesAndConnections
<1> QED
  BY <1>1, AccountingInitInv, PTL DEF AccountingSpec

(* Whatever the order of selections, answers, resets and changes of        *)
(* health: the counts of connections are those of the requests under way   *)
(* up to what a reset forgot, and round robin is even.                     *)
THEOREM CountsSound == AccountingSpec => []CountsAreSound
<1>1. AccountingInv => CountsAreSound
  BY TakenTurnsAreEven DEF AccountingInv, TypesAndConnections, CountsAreSound
<1> QED
  BY <1>1, AccountingInvHolds, PTL

(* A request goes to an instance with the fewest requests under way, as    *)
(* long as no reset made the balancer forget some.                         *)
THEOREM LeastLoaded == AccountingSpec => LeastLoadedChosen
<1>1. ASSUME AccountingInv, [AccountingNext]_accountingVars,
             algorithm = "least-connections", openAtReset = Zero,
             NEW i \in healthy, NEW j \in healthy, open'[i] > open[i]
      PROVE  open[i] <= open[j]
  <2>1. /\ healthy \subseteq Instances /\ open \in [Instances -> Nat]
        /\ activeConnections \in [Instances -> Nat]
        /\ \A k \in Instances : activeConnections[k] = open[k]
    BY <1>1 DEF AccountingInv, TypesAndConnections, AccountingTypeOK, BalancerTypeOK,
                ConnectionsAccountedFor, Zero
  <2>2. PICK k \in Instances : Select(k)
    BY <1>1, <2>1 DEF AccountingNext, RequestEnds, RegistryReports, Reset, accountingVars, usage
  <2>3. k = i /\ LeastConnections(i)
    BY <1>1, <2>1, <2>2 DEF Select, SelectInstance
  <2> QED
    BY <2>1, <2>3 DEF LeastConnections
<1>2. AccountingInv /\ [AccountingNext]_accountingVars
         => [algorithm = "least-connections" /\ openAtReset = Zero =>
                \A i, j \in healthy : open'[i] > open[i] => open[i] <= open[j]]_accountingVars
  BY <1>1
<1> QED
  BY <1>2, AccountingInvHolds, PTL DEF AccountingSpec, LeastLoadedChosen

-----------------------------------------------------------------------------
(* The workspace.  Its invariant, in parts.                                *)

(* Every table has rows of its type.                                       *)
RowsFit ==
    /\ projects \in [DOMAIN projects -> Users] /\ DOMAIN projects \subseteq ProjectIds
    /\ members \in SUBSET (ProjectIds \X Users)
    /\ tasks \in [DOMAIN tasks -> TaskRow] /\ DOMAIN tasks \subseteq TaskIds
    /\ comments \in [DOMAIN comments -> CommentRow] /\ DOMAIN comments \subseteq 1 .. MaxComments
    /\ logs \in Seq(LogRow)
    /\ nextTask \in FirstTask .. (FirstTask + MaxTasks)
    /\ nextProject \in 1 .. (MaxProjects + 1)
    /\ nextComment \in 1 .. (MaxComments + 1)
    /\ reply \in Nat /\ torn \subseteq ProjectIds
    /\ announced \in [TaskIds -> Nat] /\ cut \subseteq DOMAIN tasks

(* A response that is kept is of tasks, under one of the paths.            *)
ResponsesFit ==
    /\ cached \in [DOMAIN cached -> {cached[k] : k \in DOMAIN cached}]
    /\ DOMAIN cached \subseteq Paths
    /\ \A k \in DOMAIN cached : cached[k] \in [DOMAIN cached[k] -> TaskRow]

(* What a row refers to is there, and no identifier is known before it is  *)
(* drawn.                                                                  *)
ReferencesHold ==
    /\ \A id \in DOMAIN tasks : tasks[id].project \in DOMAIN projects \cup {Null}
    /\ \A m \in members : m[1] \in DOMAIN projects
    /\ \A c \in DOMAIN comments : comments[c].task \in DOMAIN tasks /\ c < nextComment
    /\ \A n \in DOMAIN logs : logs[n].task \in DOMAIN tasks
    /\ \A id \in TaskIds \ DOMAIN tasks : announced[id] = 0

(* All of it, with the three safety properties that a run checks.          *)
WorkspaceInv ==
    /\ RowsFit /\ ResponsesFit /\ ReferencesHold /\ OwnersAreMembers
    /\ CachedTasksAreCurrent /\ HistoryIsComplete

-----------------------------------------------------------------------------
(* What a step does to the tables, whichever interface it comes through.   *)

(* Nothing changes but what the cache keeps.                               *)
Quiet ==
    /\ UNCHANGED <<tables, nextComment, torn, taskHistory>>
    /\ \/ cached' = NoRows
       \/ \E path \in Paths : cached' = Except(cached, {path})
       \/ \E path \in Paths : Found(path) /\ cached' = WithRow(cached, path, Response(path))
       \/ cached' = cached

(* createProject(), whole or cut off.                                      *)
ProjectEntered ==
    \E p \in ProjectIds \ DOMAIN projects, user \in Users, all \in SUBSET Users :
        /\ projects' = WithRow(projects, p, user)
        /\ members' = members \cup {<<p, u>> : u \in all}
        /\ \/ user \in all /\ torn' = torn /\ cached' = cached
           \/ torn' = torn \cup {p} /\ cached' = NoRows
        /\ UNCHANGED <<tasks, comments, logs, nextComment, taskHistory>>

ProjectGone ==
    \E p \in DOMAIN projects :
        /\ DeleteProjectRow(p) /\ torn' = torn \ {p}
        /\ UNCHANGED <<comments, logs, nextComment, cached, taskHistory>>

MembershipChanged ==
    \E p \in DOMAIN projects, u \in Users :
        /\ \/ members' = members \cup {<<p, u>>}
           \/ u # projects[p] /\ members' = members \ {<<p, u>>}
        /\ UNCHANGED <<projects, tasks, comments, logs, nextComment, torn, cached, taskHistory>>

TaskEntered ==
    \E id \in TaskIds \ DOMAIN tasks, row \in TaskRow :
        /\ row.project \in DOMAIN projects \cup {Null}
        /\ tasks' = WithRow(tasks, id, row) /\ cached' = NoRows
        /\ UNCHANGED <<projects, members, comments, logs, nextComment, torn, taskHistory>>

TaskRewritten ==
    \E id \in DOMAIN tasks, dto \in TaskInput :
        /\ ProjectRefersToRow(dto.project)
        /\ UpdateTaskRow(id, dto) /\ cached' = NoRows
        /\ \/ /\ announced' = Published(id, dto) /\ UNCHANGED cut
              /\ logs' = logs \o Changes(id, dto)
           \/ /\ announced' \in {announced, Published(id, dto)} /\ cut' = cut \cup {id}
              /\ \E done \in 0 .. Len(Changes(id, dto)) :
                    logs' = logs \o SubSeq(Changes(id, dto), 1, done)
        /\ UNCHANGED <<projects, members, comments, nextComment, torn>>

TaskGone ==
    \E id \in DOMAIN tasks :
        /\ DeleteTaskRow(id) /\ cached' = NoRows
        /\ announced' = [announced EXCEPT ![id] = 0] /\ cut' = cut \ {id}
        /\ UNCHANGED <<projects, members, nextComment, torn>>

CommentEntered ==
    \E task \in DOMAIN tasks, user \in Users :
        /\ InsertComment(task, user)
        /\ \/ /\ logs' = logs \o CommentLog(task, nextComment)
              /\ UNCHANGED <<cut, cached>>
           \/ cut' = cut \cup {task} /\ cached' = NoRows /\ UNCHANGED logs
        /\ UNCHANGED <<projects, members, tasks, torn, announced>>

CommentGone ==
    \E c \in DOMAIN comments :
        /\ DeleteComment(c)
        /\ UNCHANGED <<projects, members, tasks, logs, nextComment, torn, cached, taskHistory>>

(* A step that changes a table, and one of any kind.                       *)
Written ==
    \/ ProjectEntered \/ ProjectGone \/ MembershipChanged
    \/ TaskEntered \/ TaskRewritten \/ TaskGone \/ CommentEntered \/ CommentGone

Drawn ==
    /\ nextTask' \in FirstTask .. (FirstTask + MaxTasks)
    /\ nextProject' \in 1 .. (MaxProjects + 1)
    /\ reply' \in Nat

Kind == Drawn /\ (Quiet \/ (Written /\ ~Refused(reply')))

(* The bounds are numbers, and the identifiers of gRPC are no task's.      *)
LEMMA Bounds ==
    /\ MaxTasks \in Nat /\ MaxProjects \in Nat /\ MaxComments \in Nat /\ MaxLogs \in Nat
    /\ FirstTask \in Nat
    /\ \A n \in FirstTask .. (FirstTask + MaxTasks) :
          n < FirstTask + MaxTasks => TaskId(n) \in TaskIds
    /\ \A n \in 1 .. (MaxProjects + 1) : n <= MaxProjects => ProjectId(n) \in ProjectIds
    /\ \A n : GrpcId(n) \notin TaskIds
  BY TablesAssumption DEF FirstTask, TaskIds, ProjectIds, TaskId, ProjectId, GrpcId

(* A process that starts draws its identifiers from the first on.          *)
LEMMA BootDraws == RowsFit /\ Boot => Drawn
  BY Bounds DEF RowsFit, Boot, Drawn

(* POST /projects: nothing, or a project with its owner as a member.       *)
LEMMA ProjectCreations ==
    ASSUME RowsFit, ReferencesHold, NEW dto \in ProjectInputs, NEW user \in Users,
           CreateProject(dto, user), UNCHANGED <<cached, taskHistory>>
    PROVE  Kind
<1> DEFINE p == ProjectId(nextProject)
<1>1. CASE UNCHANGED <<projects, members>>
  BY <1>1, Bounds
  DEF CreateProject, Answer, Unhandled, CreateProjectError, RowsFit, Kind, Drawn, Quiet, tables,
      OtherTables
<1>2. CASE ~(UNCHANGED <<projects, members>>)
  <2>1. /\ ValidProject(dto) /\ CreateProjectError(dto, user) = 0 /\ p \notin DOMAIN projects
        /\ projects' = WithRow(projects, p, user)
        /\ members' = AddMembers(p, InitialMembers(dto, user))
        /\ reply' = 201 /\ nextProject <= MaxProjects /\ nextProject' = nextProject + 1
        /\ UNCHANGED <<OtherTables, torn>>
    BY <1>2 DEF CreateProject, Answer, Unhandled
  <2>2. p \in ProjectIds
    BY <2>1, Bounds DEF RowsFit
  <2>3. /\ InitialMembers(dto, user) \cap Users \in SUBSET Users
        /\ user \in InitialMembers(dto, user) \cap Users
    BY DEF InitialMembers
  <2>4. members' = members \cup {<<p, u>> : u \in InitialMembers(dto, user) \cap Users}
    BY <2>1 DEF AddMembers
  <2>5. ProjectEntered
    BY <2>1, <2>2, <2>3, <2>4 DEF ProjectEntered, OtherTables, taskHistory
  <2>6. ~Refused(reply')
    BY <2>1 DEF Refused, NotFound, Internal
  <2>7. Drawn
    BY <2>1, Bounds DEF Drawn, RowsFit, OtherTables
  <2> QED
    BY <2>5, <2>6, <2>7 DEF Kind, Written
<1> QED
  BY <1>1, <1>2

(* What the checks of the owner have established when they pass.           *)
LEMMA OwnerKnown ==
    ASSUME NEW p, NEW user, OwnerError(p, user) = 0
    PROVE  p \in DOMAIN projects /\ projects[p] = user
  BY DEF OwnerError, IsOwner

(* The handlers of projects make steps of these kinds only.                *)
LEMMA ProjectSteps ==
    ASSUME RowsFit, ReferencesHold, ProjectRequest, UNCHANGED <<cached, taskHistory>>
    PROVE  Kind
<1>1. CASE \E dto \in ProjectInputs, user \in Users : CreateProject(dto, user)
  BY <1>1, ProjectCreations
<1>2. ASSUME NEW p \in ProjectIds, NEW user \in Users, NEW status, UpdateProject(p, status, user)
      PROVE  Kind
  BY <1>2 DEF UpdateProject, Answer, Unhandled, OwnerError, RowsFit, Kind, Drawn, Quiet, tables,
      OtherTables
<1>3. ASSUME NEW p \in ProjectIds, NEW user \in Users, DeleteProject(p, user)
      PROVE  Kind
  <2>1. CASE OwnerError(p, user) # 0
    BY <1>3, <2>1
    DEF DeleteProject, Answer, OwnerError, RowsFit, Kind, Drawn, Quiet, tables, counters
  <2>2. CASE OwnerError(p, user) = 0
    <3>1. /\ p \in DOMAIN projects /\ DeleteProjectRow(p) /\ torn' = torn \ {p} /\ reply' = 200
          /\ UNCHANGED <<comments, logs, counters>>
      BY <1>3, <2>2, OwnerKnown DEF DeleteProject, Answer
    <3>2. ProjectGone
      BY <3>1 DEF ProjectGone, counters
    <3> QED
      BY <3>1, <3>2
      DEF Kind, Written, Drawn, RowsFit, counters, Refused, NotFound, Internal
  <2> QED
    BY <2>1, <2>2
<1>4. ASSUME NEW p \in ProjectIds, NEW user \in Users, NEW other \in Users \cup {Stranger},
             AddMember(p, other, user)
      PROVE  Kind
  <2>1. CASE AddMemberError(p, other, user) # 0
    BY <1>4, <2>1
    DEF AddMember, Answer, AddMemberError, OwnerError, RowsFit, Kind, Drawn, Quiet, tables,
        OtherTables
  <2>2. CASE AddMemberError(p, other, user) = 0
    <3>1. other \in Users /\ OwnerError(p, user) = 0
      BY <2>2 DEF AddMemberError
    <3>2. /\ members' = members \cup {<<p, other>>} /\ reply' = 200
          /\ UNCHANGED <<projects, nextProject, OtherTables, torn>>
      BY <1>4, <2>2, <3>1 DEF AddMember, AddMembers, Answer
    <3>3. MembershipChanged
      BY <3>1, <3>2, OwnerKnown DEF MembershipChanged, OtherTables
    <3> QED
      BY <3>2, <3>3
      DEF Kind, Written, Drawn, RowsFit, OtherTables, Refused, NotFound, Internal
  <2> QED
    BY <2>1, <2>2
<1>5. ASSUME NEW p \in ProjectIds, NEW user \in Users, NEW other \in Users,
             RemoveMember(p, other, user)
      PROVE  Kind
  <2>1. CASE RemoveMemberError(p, other, user) # 0
    BY <1>5, <2>1
    DEF RemoveMember, Answer, RemoveMemberError, OwnerError, RowsFit, Kind, Drawn, Quiet, tables,
        OtherTables
  <2>2. CASE RemoveMemberError(p, other, user) = 0
    <3>1. p \in DOMAIN projects /\ other # projects[p]
      BY <2>2, OwnerKnown DEF RemoveMemberError, IsOwner
    <3>2. /\ members' = members \ {<<p, other>>} /\ reply' = 200
          /\ UNCHANGED <<projects, nextProject, OtherTables, torn>>
      BY <1>5, <2>2 DEF RemoveMember, Answer
    <3>3. MembershipChanged
      BY <3>1, <3>2 DEF MembershipChanged, OtherTables
    <3> QED
      BY <3>2, <3>3
      DEF Kind, Written, Drawn, RowsFit, OtherTables, Refused, NotFound, Internal
  <2> QED
    BY <2>1, <2>2
<1>6. ASSUME NEW p \in ProjectIds, NEW user \in Users, LeaveProject(p, user)
      PROVE  Kind
  <2>1. CASE LeaveError(p, user) # 0
    BY <1>6, <2>1
    DEF LeaveProject, Answer, LeaveError, RowsFit, Kind, Drawn, Quiet, tables, OtherTables
  <2>2. CASE LeaveError(p, user) = 0
    <3>1. p \in DOMAIN projects /\ user # projects[p]
      BY <2>2 DEF LeaveError, IsOwner
    <3>2. /\ members' = members \ {<<p, user>>} /\ reply' = 200
          /\ UNCHANGED <<projects, nextProject, OtherTables, torn>>
      BY <1>6, <2>2 DEF LeaveProject, Answer
    <3>3. MembershipChanged
      BY <3>1, <3>2 DEF MembershipChanged, OtherTables
    <3> QED
      BY <3>2, <3>3
      DEF Kind, Written, Drawn, RowsFit, OtherTables, Refused, NotFound, Internal
  <2> QED
    BY <2>1, <2>2
<1>7. ASSUME NEW p \in ProjectIds, NEW user \in Users, Read(p, user)
      PROVE  Kind
  BY <1>7
  DEF Read, Answer, MemberError, RowsFit, Kind, Drawn, Quiet, tables, OtherTables
<1> QED
  BY <1>1, <1>2, <1>3, <1>4, <1>5, <1>6, <1>7
  DEF ProjectRequest, GetProject, GetProjectMembers, GetProjectStats

(* An answer alone is such a step.                                         *)
LEMMA QuietReads ==
    ASSUME RowsFit, NEW code \in Nat, reply' = code,
           UNCHANGED <<tables, counters, torn, cached, taskHistory>>
    PROVE  Kind
  BY DEF RowsFit, Kind, Drawn, Quiet, counters

(* POST /tasks.                                                            *)
LEMMA TaskCreations ==
    ASSUME RowsFit, ReferencesHold, NEW dto \in TaskInputs, NEW user \in Users,
           CreateTask(dto, user)
    PROVE  Kind
<1> DEFINE id == TaskId(nextTask)
<1>1. dto \in TaskInput
  BY TaskInputsAssumption
<1>2. CASE UNCHANGED tasks
  BY <1>2, Bounds
  DEF CreateTask, Answer, Unhandled, InsertTask, InvalidateCache, RowsFit, Kind, Drawn, Quiet, tables
<1>3. CASE tasks' # tasks
  <2>1. /\ ValidTask(dto) /\ id \notin DOMAIN tasks /\ ProjectRefersToRow(dto.project)
        /\ tasks' = WithRow(tasks, id, NewTask(dto, user))
        /\ reply' = 201 /\ nextTask < FirstTask + MaxTasks /\ nextTask' = nextTask + 1
        /\ cached' = NoRows
        /\ UNCHANGED <<projects, members, comments, logs, nextProject, nextComment, torn, taskHistory>>
    BY <1>3 DEF CreateTask, InsertTask, InsertTaskError, InvalidateCache, Answer, Unhandled
  <2>2. id \in TaskIds
    BY <2>1, Bounds DEF RowsFit
  <2>3. /\ NewTask(dto, user) \in TaskRow
        /\ NewTask(dto, user).project \in DOMAIN projects \cup {Null}
    BY <1>1, <2>1, TablesAssumption
    DEF NewTask, TaskRow, TaskInput, Default, ProjectRefersToRow, RowsFit
  <2>4. TaskEntered
    BY <2>1, <2>2, <2>3 DEF TaskEntered
  <2>5. Drawn /\ ~Refused(reply')
    BY <2>1, Bounds DEF Drawn, RowsFit, Refused, NotFound, Internal
  <2> QED
    BY <2>4, <2>5 DEF Kind, Written
<1> QED
  BY <1>2, <1>3

(* PUT /tasks/:id: the row, the events and the logs, or nothing.           *)
LEMMA TaskUpdates ==
    ASSUME RowsFit, ReferencesHold, NEW id \in TaskIds, NEW dto \in TaskInputs,
           UpdateTask(id, dto)
    PROVE  Kind
<1>1. CASE UpdateTaskError(id, dto) # 0
  BY <1>1
  DEF UpdateTask, UpdateTaskError, Answer, Unhandled, InvalidateCache, RowsFit, Kind, Drawn, Quiet,
      tables, counters, taskHistory
<1>2. CASE UpdateTaskError(id, dto) = 0
  <2>1. /\ id \in DOMAIN tasks /\ ProjectRefersToRow(dto.project) /\ dto \in TaskInput
        /\ UpdateTaskRow(id, dto) /\ announced' = Published(id, dto)
        /\ logs' = logs \o Changes(id, dto)
        /\ cached' = NoRows /\ reply' = 200
        /\ UNCHANGED <<projects, members, comments, counters, torn, cut>>
    BY <1>2, TaskInputsAssumption
    DEF UpdateTask, UpdateTaskError, Answer, Unhandled, InvalidateCache, InsertLogs
  <2>2. TaskRewritten
    BY <2>1 DEF TaskRewritten, counters
  <2> QED
    BY <2>1, <2>2 DEF Kind, Written, Drawn, RowsFit, counters, Refused, NotFound, Internal
<1> QED
  BY <1>1, <1>2

(* DELETE /tasks/:id.                                                      *)
LEMMA TaskDeletions ==
    ASSUME RowsFit, ReferencesHold, NEW id \in TaskIds, DeleteTask(id)
    PROVE  Kind
<1>1. CASE id \notin DOMAIN tasks
  <2>1. announced' = announced /\ cut' = cut
    <3>1. announced[id] = 0
      BY <1>1 DEF ReferencesHold
    <3> QED
      BY <1>1, <3>1 DEF DeleteTask, RowsFit
  <2> QED
    BY <1>1, <2>1
    DEF DeleteTask, Answer, InvalidateCache, RowsFit, Kind, Drawn, Quiet, tables, counters, taskHistory
<1>2. CASE id \in DOMAIN tasks
  <2>1. TaskGone
    BY <1>2 DEF DeleteTask, InvalidateCache, TaskGone, counters
  <2> QED
    BY <1>2, <2>1
    DEF DeleteTask, Answer, Kind, Written, Drawn, RowsFit, counters, Refused, NotFound, Internal
<1> QED
  BY <1>1, <1>2

(* POST /tasks/:taskId/comments and DELETE /comments/:id.                  *)
LEMMA CommentSteps ==
    ASSUME RowsFit, ReferencesHold,
           \/ \E task \in TaskIds, user \in Users : CreateComment(task, user)
           \/ \E c \in 1 .. MaxComments, user \in Users : RemoveComment(c, user)
    PROVE  Kind
<1>1. ASSUME NEW task \in TaskIds, NEW user \in Users, CreateComment(task, user)
      PROVE  Kind
  <2>1. CASE task \notin DOMAIN tasks
    BY <1>1, <2>1
    DEF CreateComment, Answer, Unhandled, RowsFit, Kind, Drawn, Quiet, tables
  <2>2. CASE task \in DOMAIN tasks
    <3>1. CommentEntered
      BY <1>1, <2>2 DEF CreateComment, CommentEntered, InsertLogs, taskHistory
    <3> QED
      BY <1>1, <2>2, <3>1
      DEF CreateComment, Answer, Kind, Written, Drawn, RowsFit, Refused, NotFound, Internal
  <2> QED
    BY <2>1, <2>2
<1>2. ASSUME NEW c \in 1 .. MaxComments, NEW user \in Users, RemoveComment(c, user)
      PROVE  Kind
  <2>1. CASE AuthorError(c, user) # 0
    BY <1>2, <2>1
    DEF RemoveComment, Answer, AuthorError, Unhandled, RowsFit, Kind, Drawn, Quiet, tables, counters
  <2>2. CASE AuthorError(c, user) = 0
    <3>1. CommentGone
      BY <1>2, <2>2 DEF RemoveComment, CommentGone, AuthorError, Unhandled, counters
    <3> QED
      BY <1>2, <2>2, <3>1
      DEF RemoveComment, Answer, Kind, Written, Drawn, RowsFit, counters, Refused, NotFound, Internal
  <2> QED
    BY <2>1, <2>2
<1> QED
  BY <1>1, <1>2

(* The handlers of tasks and comments make steps of these kinds only.      *)
LEMMA TaskSteps ==
    ASSUME RowsFit, ReferencesHold, TaskRequest
    PROVE  Kind
<1>1. CASE \E dto \in TaskInputs, user \in Users : CreateTask(dto, user)
  BY <1>1, TaskCreations
<1>2. CASE \E id \in TaskIds, dto \in TaskInputs : UpdateTask(id, dto)
  BY <1>2, TaskUpdates
<1>3. CASE \E id \in TaskIds : DeleteTask(id)
  BY <1>3, TaskDeletions
<1>4. CASE \E path \in Paths : GetTasks(path)
  BY <1>4
  DEF GetTasks, Answer, CacheMiddleware, RowsFit, Kind, Drawn, Quiet, counters
<1>5. CASE \/ \E id \in TaskIds : UploadAttachment(id)
           \/ \E c \in 1 .. MaxComments, user \in Users : EditComment(c, user)
           \/ \E id \in TaskIds : Subtask(id)
           \/ Search
           \/ \E text \in {"short", "long"} : Suggestions(text)
           \/ \E sortBy \in SortBys \cup {Null} : ListTasks(sortBy)
           \/ Dashboard
           \/ WorkflowRule
  <2>1. reply' \in Nat
    BY <1>5
    DEF UploadAttachment, EditComment, Subtask, Search, Suggestions, ListTasks, Dashboard,
        WorkflowRule, Answer, Unhandled, AuthorError, RuleError, SearchError, ListError,
        DashboardError
  <2>2. UNCHANGED <<tables, counters, torn, cached, taskHistory>>
    BY <1>5
    DEF UploadAttachment, EditComment, Subtask, Search, Suggestions, ListTasks, Dashboard,
        WorkflowRule
  <2> QED
    BY <2>1, <2>2, QuietReads
<1>6. CASE \/ \E id \in TaskIds, user \in Users : CreateComment(id, user)
           \/ \E c \in 1 .. MaxComments, user \in Users : RemoveComment(c, user)
  BY <1>6, CommentSteps
<1> QED
  BY <1>1, <1>2, <1>3, <1>4, <1>5, <1>6 DEF TaskRequest

(* The rows of history are of tasks.                                       *)
LEMMA LogTypes ==
    ASSUME RowsFit
    PROVE  /\ Len(logs) \in Nat /\ DOMAIN logs = 1 .. Len(logs)
           /\ \A n \in DOMAIN logs : logs[n] \in LogRow /\ logs[n].task \in TaskIds
<1>1. Len(logs) \in Nat /\ DOMAIN logs = 1 .. Len(logs) /\ \A n \in DOMAIN logs : logs[n] \in LogRow
  BY DEF RowsFit
<1>2. \A l \in LogRow : l.task \in TaskIds
  BY DEF LogRow
<1> QED
  BY <1>1, <1>2

(* So do GraphQL, which calls no resolver, and gRPC, which finds no task.  *)
LEMMA OtherInterfaces ==
    ASSUME RowsFit, ReferencesHold, OtherRequest
    PROVE  Kind
<1>1. CASE \/ \E id \in TaskIds, dto \in TaskInputs : GraphQLUpdateTask(id, dto)
           \/ \E id \in TaskIds : GraphQLDeleteTask(id)
  BY <1>1, QuietReads
  DEF GraphQLUpdateTask, GraphQLDeleteTask, RootFields, tables, counters
<1>2. CASE GrpcCreateTask \/ GrpcGetTask(FirstTask)
  BY <1>2, QuietReads
  DEF GrpcCreateTask, GrpcGetTask, NotFound, Internal
<1>3. GrpcId(FirstTask) \notin DOMAIN tasks
  BY Bounds DEF RowsFit
<1>4. CASE \E dto \in TaskInputs : GrpcUpdateTask(FirstTask, dto)
  BY <1>3, <1>4, QuietReads DEF GrpcUpdateTask, Internal, tables, counters
<1>5. CASE GrpcDeleteTask(FirstTask)
  <2> DEFINE id == GrpcId(FirstTask)
  <2>1. tasks' = tasks
    BY <1>3, <1>5 DEF GrpcDeleteTask, DeleteTaskRow, Except, RowsFit
  <2>2. {c \in DOMAIN comments : comments[c].task = id} = {}
    BY <1>3 DEF ReferencesHold
  <2>3. comments' = comments
    BY <1>5, <2>2 DEF GrpcDeleteTask, DeleteTaskRow, Except, RowsFit
  <2>4. {n \in DOMAIN logs : logs[n].task # id} = DOMAIN logs
    BY <1>3 DEF ReferencesHold
  <2>5. logs' = Kept(logs, DOMAIN logs)
    BY <1>5, <2>4 DEF GrpcDeleteTask, DeleteTaskRow
  <2>6. logs' = logs
    BY <2>5, KeptAll DEF RowsFit
  <2> QED
    BY <1>5, <2>1, <2>3, <2>6, QuietReads DEF GrpcDeleteTask, tables, counters
<1> QED
  BY <1>1, <1>2, <1>4, <1>5 DEF OtherRequest

(* So does a process that ends between two statements and starts again.    *)
LEMMA CrashSteps ==
    ASSUME RowsFit, ReferencesHold, Crash
    PROVE  Kind
<1>1. CASE Restart
  BY <1>1, BootDraws DEF Restart, Boot, Kind, Quiet, tables
<1>2. ASSUME NEW dto \in ProjectInputs, NEW user \in Users, NEW done \in SUBSET Users,
             CreateProjectCut(dto, user, done)
      PROVE  Kind
  <2> DEFINE p == ProjectId(nextProject)
  <2>1. p \in ProjectIds
    BY <1>2, Bounds DEF CreateProjectCut, RowsFit
  <2>2. members' = members \cup {<<p, u>> : u \in done}
    <3>1. done \cap Users = done
      OBVIOUS
    <3> QED
      BY <1>2, <3>1 DEF CreateProjectCut, AddMembers
  <2>3. ProjectEntered
    BY <1>2, <2>1, <2>2 DEF CreateProjectCut, ProjectEntered, Boot
  <2> QED
    BY <1>2, <2>3, BootDraws
    DEF CreateProjectCut, Boot, Kind, Written, Refused, NotFound, Internal
<1>3. ASSUME NEW id \in TaskIds, NEW dto \in TaskInputs, NEW done \in {0, 1},
             UpdateTaskCut(id, dto, done)
      PROVE  Kind
  <2>1. id \in DOMAIN tasks /\ ProjectRefersToRow(dto.project) /\ dto \in TaskInput
    BY <1>3, TaskInputsAssumption DEF UpdateTaskCut, UpdateTaskError, Unhandled
  <2>2. done \in 0 .. Len(Changes(id, dto))
    <3>1. Len(Changes(id, dto)) \in Nat
      BY DEF Changes, Change
    <3> QED
      BY <1>3, <3>1 DEF UpdateTaskCut
  <2>3. TaskRewritten
    BY <1>3, <2>1, <2>2 DEF UpdateTaskCut, InsertLogs, TaskRewritten, Boot
  <2> QED
    BY <1>3, <2>3, BootDraws
    DEF UpdateTaskCut, Boot, Kind, Written, Refused, NotFound, Internal
<1>4. ASSUME NEW task \in TaskIds, NEW user \in Users, CreateCommentCut(task, user)
      PROVE  Kind
  <2>1. CommentEntered
    BY <1>4 DEF CreateCommentCut, CommentEntered, Boot
  <2> QED
    BY <1>4, <2>1, BootDraws
    DEF CreateCommentCut, Boot, Kind, Written, Refused, NotFound, Internal
<1> QED
  BY <1>1, <1>2, <1>3, <1>4 DEF Crash

(* Every step is of one of these kinds, and what was refused is quiet.     *)
LEMMA EveryStep ==
    ASSUME RowsFit, ReferencesHold, [WorkspaceNext]_workspaceVars
    PROVE  Kind
<1>1. CASE ProjectRequest /\ UNCHANGED <<cached, taskHistory>>
  BY <1>1, ProjectSteps
<1>2. CASE TaskRequest
  BY <1>2, TaskSteps
<1>3. CASE OtherRequest
  BY <1>3, OtherInterfaces
<1>4. CASE Crash
  BY <1>4, CrashSteps
<1>5. CASE \E path \in Paths : Expire(path)
  BY <1>5 DEF Expire, RowsFit, Kind, Drawn, Quiet, counters
<1>6. CASE UNCHANGED workspaceVars
  BY <1>6 DEF workspaceVars, RowsFit, Kind, Drawn, Quiet, counters
<1> QED
  BY <1>1, <1>2, <1>3, <1>4, <1>5, <1>6 DEF WorkspaceNext

-----------------------------------------------------------------------------
(* Rows.                                                                   *)

(* What a list with another behind it holds.                               *)
LEMMA Joined ==
    ASSUME NEW A, NEW l \in Seq(A), NEW m \in Seq(A)
    PROVE  /\ l \o m \in Seq(A) /\ Len(l \o m) = Len(l) + Len(m)
           /\ \A i \in 1 .. Len(l) : (l \o m)[i] = l[i]
           /\ \A i \in 1 .. Len(m) : (l \o m)[Len(l) + i] = m[i]
           /\ \A x \in A : l \o <<x>> = Append(l, x)
           /\ \A i \in DOMAIN (l \o m) :
                 \/ i \in DOMAIN l /\ (l \o m)[i] = l[i]
                 \/ \E k \in DOMAIN m : i = Len(l) + k /\ (l \o m)[i] = m[k]
<1>1. /\ l \o m \in Seq(A) /\ Len(l \o m) = Len(l) + Len(m)
      /\ Len(l) \in Nat /\ Len(m) \in Nat
  OBVIOUS
<1>2. \A i \in 1 .. Len(l) : (l \o m)[i] = l[i]
  OBVIOUS
<1>3. \A i \in 1 .. Len(m) : (l \o m)[Len(l) + i] = m[i]
  OBVIOUS
<1>4. \A x \in A : l \o <<x>> = Append(l, x)
  OBVIOUS
<1>5. ASSUME NEW i \in DOMAIN (l \o m), i \notin DOMAIN l
      PROVE  \E k \in DOMAIN m : i = Len(l) + k /\ (l \o m)[i] = m[k]
  <2>1. i - Len(l) \in 1 .. Len(m)
    BY <1>1, <1>5
  <2> QED
    BY <1>1, <1>3, <1>5, <2>1
<1> QED
  BY <1>1, <1>2, <1>3, <1>4, <1>5

(* The rows that updateTask() logs are rows of history of that task.       *)
LEMMA ChangesFit ==
    ASSUME RowsFit, NEW id \in DOMAIN tasks, NEW dto \in TaskInput
    PROVE  /\ Updated(tasks[id], dto).status \in Statuses
           /\ Updated(tasks[id], dto).priority \in Priorities
           /\ Changes(id, dto) \in Seq(LogRow)
           /\ \A n \in DOMAIN Changes(id, dto) : Changes(id, dto)[n].task = id
<1> DEFINE row == tasks[id]
           new == Updated(row, dto)
<1>1. row \in TaskRow /\ id \in TaskIds
  BY DEF RowsFit
<1>2. /\ new.status = Default(dto.status, row.status)
      /\ new.priority = Default(dto.priority, row.priority)
  BY <1>1 DEF Updated, TaskRow
<1>3. new.status \in Statuses /\ new.priority \in Priorities
  BY <1>1, <1>2 DEF Default, TaskInput, TaskRow
<1> DEFINE s == [task |-> id, type |-> "STATUS_CHANGE", from |-> row.status, to |-> new.status]
           p == [task |-> id, type |-> "PRIORITY_CHANGE",
                 from |-> row.priority, to |-> new.priority]
<1>4. s \in LogRow /\ p \in LogRow
  BY <1>1, <1>3 DEF LogRow, TaskRow
<1>5. /\ Change(id, "status", "STATUS_CHANGE", dto)
           = IF row.status = new.status THEN <<>> ELSE <<s>>
      /\ Change(id, "priority", "PRIORITY_CHANGE", dto)
           = IF row.priority = new.priority THEN <<>> ELSE <<p>>
  BY DEF Change
<1>6. \A x, y : <<>> \in Seq({x, y}) /\ <<x>> \in Seq({x, y}) /\ <<y>> \in Seq({x, y})
  OBVIOUS
<1>7. /\ Change(id, "status", "STATUS_CHANGE", dto) \in Seq({s, p})
      /\ Change(id, "priority", "PRIORITY_CHANGE", dto) \in Seq({s, p})
  BY <1>5, <1>6
<1>8. Changes(id, dto) \in Seq({s, p})
  BY <1>7 DEF Changes
<1>9. Changes(id, dto) \in Seq(LogRow)
  BY <1>4, <1>8
<1> QED
  BY <1>3, <1>8, <1>9

(* Every kind of step leaves rows of their types.                          *)
LEMMA RowsKept ==
    ASSUME RowsFit, ReferencesHold, Kind
    PROVE  RowsFit'
<1> USE DEF Kind, Drawn
<1>1. CASE Quiet
  BY <1>1 DEF Quiet, RowsFit, tables, taskHistory
<1>2. CASE ProjectEntered
  BY <1>2 DEF ProjectEntered, RowsFit, WithRow, taskHistory
<1>3. CASE ProjectGone
  <2>1. PICK p \in DOMAIN projects :
            /\ DeleteProjectRow(p) /\ torn' = torn \ {p}
            /\ UNCHANGED <<comments, logs, nextComment, cached, taskHistory>>
    BY <1>3 DEF ProjectGone
  <2>2. \A row \in TaskRow : [row EXCEPT !.project = Null] \in TaskRow
    BY DEF TaskRow
  <2>3. tasks' \in [DOMAIN tasks -> TaskRow] /\ DOMAIN tasks' = DOMAIN tasks
    BY <2>1, <2>2 DEF DeleteProjectRow, RowsFit
  <2> QED
    BY <2>1, <2>3 DEF DeleteProjectRow, Except, RowsFit, taskHistory
<1>4. CASE MembershipChanged
  BY <1>4 DEF MembershipChanged, RowsFit, taskHistory
<1>5. CASE TaskEntered
  BY <1>5 DEF TaskEntered, RowsFit, WithRow, taskHistory
<1>6. CASE TaskRewritten
  <2>1. PICK id \in DOMAIN tasks, dto \in TaskInput :
            /\ ProjectRefersToRow(dto.project) /\ UpdateTaskRow(id, dto)
            /\ announced' \in {announced, Published(id, dto)} /\ cut' \subseteq cut \cup {id}
            /\ \/ logs' = logs \o Changes(id, dto)
               \/ \E done \in 0 .. Len(Changes(id, dto)) :
                     logs' = logs \o SubSeq(Changes(id, dto), 1, done)
            /\ UNCHANGED <<projects, members, comments, nextComment, torn>>
    BY <1>6 DEF TaskRewritten
  <2>2. Updated(tasks[id], dto) \in TaskRow
    <3>1. tasks[id] \in TaskRow
      BY DEF RowsFit
    <3> QED
      BY <2>1, <3>1 DEF Updated, TaskRow, TaskInput, Default, ProjectRefersToRow, RowsFit
  <2>3. logs' \in Seq(LogRow)
    <3>1. logs \in Seq(LogRow) /\ Changes(id, dto) \in Seq(LogRow)
      BY ChangesFit DEF RowsFit
    <3>2. \A done \in 0 .. Len(Changes(id, dto)) : SubSeq(Changes(id, dto), 1, done) \in Seq(LogRow)
      BY <3>1
    <3> QED
      BY <2>1, <3>1, <3>2, Joined
  <2>4. announced' \in [TaskIds -> Nat]
    BY <2>1 DEF Published, RowsFit
  <2>5. tasks' \in [DOMAIN tasks -> TaskRow] /\ DOMAIN tasks' = DOMAIN tasks
    BY <2>1, <2>2 DEF UpdateTaskRow, RowsFit
  <2> QED
    BY <2>1, <2>3, <2>4, <2>5, <1>6 DEF RowsFit
<1>7. CASE TaskGone
  <2>1. PICK id \in DOMAIN tasks :
            /\ DeleteTaskRow(id) /\ announced' = [announced EXCEPT ![id] = 0] /\ cut' = cut \ {id}
            /\ UNCHANGED <<projects, members, nextComment, torn>>
    BY <1>7 DEF TaskGone
  <2>2. logs' \in Seq(LogRow)
    BY <2>1, KeptFromList DEF DeleteTaskRow, RowsFit
  <2> QED
    BY <2>1, <2>2 DEF DeleteTaskRow, Except, RowsFit
<1>8. CASE CommentEntered
  <2>1. PICK task \in DOMAIN tasks, user \in Users :
            /\ InsertComment(task, user)
            /\ \/ logs' = logs \o CommentLog(task, nextComment) /\ cut' = cut
               \/ cut' = cut \cup {task} /\ logs' = logs
            /\ UNCHANGED <<projects, members, tasks, torn, announced>>
    BY <1>8 DEF CommentEntered
  <2>2. /\ [task |-> task, type |-> "COMMENT_ADDED", comment |-> nextComment] \in LogRow
        /\ [task |-> task, user |-> user] \in CommentRow
    BY Bounds DEF LogRow, CommentRow, RowsFit
  <2>3. logs' \in Seq(LogRow)
    <3>1. logs \in Seq(LogRow) /\ CommentLog(task, nextComment) \in Seq(LogRow)
      BY <2>2 DEF CommentLog, RowsFit
    <3> QED
      BY <2>1, <3>1, Joined
  <2>4. /\ comments' \in [DOMAIN comments' -> CommentRow] /\ DOMAIN comments' \subseteq 1 .. MaxComments
        /\ nextComment' \in 1 .. (MaxComments + 1)
    <3>1. /\ nextComment \in 1 .. MaxComments /\ nextComment' = nextComment + 1
          /\ MaxComments \in Nat
          /\ comments' = WithRow(comments, nextComment, [task |-> task, user |-> user])
      BY <2>1, Bounds DEF InsertComment, RowsFit
    <3>2. /\ comments \in [DOMAIN comments -> CommentRow]
          /\ DOMAIN comments \subseteq 1 .. MaxComments
      BY DEF RowsFit
    <3> HIDE DEF Kind, Drawn
    <3>3. nextComment' \in 1 .. (MaxComments + 1)
      BY <3>1
    <3>4. comments' \in [DOMAIN comments' -> CommentRow] /\ DOMAIN comments' \subseteq 1 .. MaxComments
      BY <2>2, <3>1, <3>2 DEF WithRow
    <3> QED
      BY <3>3, <3>4
  <2>5. cut' \subseteq DOMAIN tasks' /\ UNCHANGED <<projects, members, tasks, torn, announced>>
    BY <2>1 DEF RowsFit
  <2>6. /\ nextTask' \in FirstTask .. (FirstTask + MaxTasks)
        /\ nextProject' \in 1 .. (MaxProjects + 1) /\ reply' \in Nat
    OBVIOUS
  <2> HIDE DEF Kind, Drawn
  <2> QED
    BY <2>3, <2>4, <2>5, <2>6 DEF RowsFit
<1>9. CASE CommentGone
  BY <1>9 DEF CommentGone, DeleteComment, Except, RowsFit, taskHistory
<1> QED
  BY <1>1, <1>2, <1>3, <1>4, <1>5, <1>6, <1>7, <1>8, <1>9 DEF Written

(* Every kind of step leaves rows that refer to rows that are there.       *)
LEMMA ReferencesKept ==
    ASSUME RowsFit, ReferencesHold, Kind
    PROVE  ReferencesHold'
<1>1. CASE Quiet
  BY <1>1 DEF Quiet, ReferencesHold, tables, taskHistory
<1>2. CASE ProjectEntered
  BY <1>2 DEF ProjectEntered, ReferencesHold, WithRow, taskHistory
<1>3. CASE ProjectGone
  <2>1. PICK p \in DOMAIN projects :
            /\ DeleteProjectRow(p)
            /\ UNCHANGED <<comments, logs, nextComment, cached, taskHistory>>
    BY <1>3 DEF ProjectGone
  <2>2. \A row \in TaskRow : [row EXCEPT !.project = Null].project = Null
    BY DEF TaskRow
  <2>3. /\ DOMAIN tasks' = DOMAIN tasks
        /\ \A id \in DOMAIN tasks : tasks'[id].project \in (DOMAIN projects \ {p}) \cup {Null}
    BY <2>1, <2>2 DEF DeleteProjectRow, RowsFit, ReferencesHold
  <2> QED
    BY <2>1, <2>3 DEF DeleteProjectRow, Except, ReferencesHold, taskHistory
<1>4. CASE MembershipChanged
  BY <1>4 DEF MembershipChanged, ReferencesHold, taskHistory
<1>5. CASE TaskEntered
  BY <1>5 DEF TaskEntered, ReferencesHold, WithRow, taskHistory
<1>6. CASE TaskRewritten
  <2>1. PICK id \in DOMAIN tasks, dto \in TaskInput :
            /\ ProjectRefersToRow(dto.project) /\ UpdateTaskRow(id, dto)
            /\ announced' \in {announced, Published(id, dto)}
            /\ \/ logs' = logs \o Changes(id, dto)
               \/ \E done \in 0 .. Len(Changes(id, dto)) :
                     logs' = logs \o SubSeq(Changes(id, dto), 1, done)
            /\ UNCHANGED <<projects, members, comments, nextComment, torn>>
    BY <1>6 DEF TaskRewritten
  <2>2. Updated(tasks[id], dto).project \in DOMAIN projects \cup {Null}
    <3>1. tasks[id] \in TaskRow
      BY DEF RowsFit
    <3>2. Updated(tasks[id], dto).project = Default(dto.project, tasks[id].project)
      BY <3>1 DEF Updated, TaskRow
    <3> QED
      BY <2>1, <3>2 DEF Default, ProjectRefersToRow, ReferencesHold
  <2>3. DOMAIN tasks' = DOMAIN tasks
        /\ \A k \in DOMAIN tasks : tasks'[k].project \in DOMAIN projects \cup {Null}
    BY <2>1, <2>2 DEF UpdateTaskRow, RowsFit, ReferencesHold
  <2>4. \A n \in DOMAIN logs' : logs'[n].task \in DOMAIN tasks
    <3> DEFINE new == Changes(id, dto)
    <3>1. logs \in Seq(LogRow) /\ new \in Seq(LogRow) /\ \A n \in DOMAIN new : new[n].task = id
      BY ChangesFit DEF RowsFit
    <3> HIDE DEF new
    <3>2. PICK more : /\ more \in Seq(LogRow) /\ logs' = logs \o more
                      /\ \A n \in DOMAIN more : more[n].task = id
      <4>1. \A done \in 0 .. Len(new) :
              /\ SubSeq(new, 1, done) \in Seq(LogRow)
              /\ \A n \in DOMAIN SubSeq(new, 1, done) : SubSeq(new, 1, done)[n].task = id
        BY <3>1
      <4> QED
        BY <2>1, <3>1, <4>1 DEF new
    <3>3. \A n \in DOMAIN logs' :
             \/ n \in DOMAIN logs /\ logs'[n] = logs[n]
             \/ \E k \in DOMAIN more : logs'[n] = more[k]
      BY <3>1, <3>2, Joined
    <3> QED
      BY <3>2, <3>3 DEF ReferencesHold
  <2>5. \A k \in TaskIds \ DOMAIN tasks : announced'[k] = announced[k]
    BY <2>1 DEF Published, RowsFit
  <2> QED
    BY <2>1, <2>3, <2>4, <2>5 DEF ReferencesHold
<1>7. CASE TaskGone
  <2>1. PICK id \in DOMAIN tasks :
            /\ DeleteTaskRow(id) /\ announced' = [announced EXCEPT ![id] = 0]
            /\ UNCHANGED <<projects, members, nextComment, torn>>
    BY <1>7 DEF TaskGone
  <2> DEFINE S == {n \in DOMAIN logs : logs[n].task # id}
  <2>2. \A n \in DOMAIN logs' : \E m \in S : logs'[n] = logs[m]
    <3>1. S \in SUBSET DOMAIN logs /\ logs \in Seq(LogRow) /\ logs' = Kept(logs, S)
      BY <2>1 DEF DeleteTaskRow, RowsFit
    <3> HIDE DEF S
    <3>2. DOMAIN Kept(logs, S) = 1 .. Cardinality(S)
      BY DEF Kept
    <3>3. \A m \in 1 .. Cardinality(S) : Nth(S, m) \in S /\ Kept(logs, S)[m] = logs[Nth(S, m)]
      BY <3>1, KeptFromList
    <3> QED
      BY <3>1, <3>2, <3>3
  <2>3. DOMAIN tasks' = DOMAIN tasks \ {id} /\ \A k \in DOMAIN tasks' : tasks'[k] = tasks[k]
    BY <2>1 DEF DeleteTaskRow, Except
  <2>4. \A n \in DOMAIN logs' : logs'[n].task \in DOMAIN tasks'
    BY <2>2, <2>3 DEF ReferencesHold
  <2>5. \A c \in DOMAIN comments' : comments'[c].task \in DOMAIN tasks' /\ c < nextComment
    BY <2>1, <2>3 DEF DeleteTaskRow, Except, ReferencesHold
  <2>6. \A k \in TaskIds \ DOMAIN tasks' : announced'[k] = 0
    BY <2>1, <2>3 DEF ReferencesHold, RowsFit
  <2> QED
    BY <2>1, <2>3, <2>4, <2>5, <2>6 DEF ReferencesHold
<1>8. CASE CommentEntered
  <2>1. PICK task \in DOMAIN tasks, user \in Users :
            /\ InsertComment(task, user)
            /\ logs' \in {logs, logs \o CommentLog(task, nextComment)}
            /\ UNCHANGED <<projects, members, tasks, torn, announced>>
    BY <1>8 DEF CommentEntered
  <2>2. \A n \in DOMAIN logs' : logs'[n].task \in DOMAIN tasks
    <3> DEFINE row == [task |-> task, type |-> "COMMENT_ADDED", comment |-> nextComment]
    <3>1. row.task = task /\ row \in LogRow
      BY Bounds DEF LogRow, RowsFit
    <3> HIDE DEF row
    <3>2. <<row>> \in Seq(LogRow) /\ DOMAIN <<row>> = {1} /\ <<row>>[1] = row
      BY <3>1
    <3>3. logs \in Seq(LogRow) /\ CommentLog(task, nextComment) = <<row>>
      BY DEF CommentLog, row, RowsFit
    <3>4. \A n \in DOMAIN (logs \o <<row>>) :
             \/ n \in DOMAIN logs /\ (logs \o <<row>>)[n] = logs[n]
             \/ (logs \o <<row>>)[n] = row
      BY <3>2, <3>3, Joined
    <3> QED
      BY <2>1, <3>1, <3>3, <3>4 DEF ReferencesHold
  <2>3. \A c \in DOMAIN comments' : comments'[c].task \in DOMAIN tasks /\ c < nextComment'
    BY <2>1, Bounds DEF InsertComment, WithRow, ReferencesHold, RowsFit
  <2> QED
    BY <2>1, <2>2, <2>3 DEF ReferencesHold
<1>9. CASE CommentGone
  BY <1>9 DEF CommentGone, DeleteComment, Except, ReferencesHold, taskHistory
<1> QED
  BY <1>1, <1>2, <1>3, <1>4, <1>5, <1>6, <1>7, <1>8, <1>9 DEF Kind, Written

-----------------------------------------------------------------------------
(* Members, responses, refusals.                                           *)

(* The owners, project by project.                                         *)
LEMMA OwnersRead ==
    ASSUME RowsFit
    PROVE  OwnersAreMembers <=> \A p \in DOMAIN projects \ torn : <<p, projects[p]>> \in members
  BY DEF OwnersAreMembers, ProjectsSeen, IsOwner, IsMember, RowsFit

(* No kind of step leaves an owner outside, but for a creation cut off.    *)
LEMMA OwnersKept ==
    ASSUME RowsFit, RowsFit', OwnersAreMembers, Kind
    PROVE  OwnersAreMembers'
<1>1. /\ OwnersAreMembers' <=>
           \A p \in DOMAIN projects' \ torn' : <<p, projects'[p]>> \in members'
      /\ \A p \in DOMAIN projects \ torn : <<p, projects[p]>> \in members
  <2>1. \A p \in DOMAIN projects \ torn : <<p, projects[p]>> \in members
    BY OwnersRead
  <2>2. OwnersAreMembers' <=>
           \A p \in DOMAIN projects' \ torn' : <<p, projects'[p]>> \in members'
    BY DEF OwnersAreMembers, ProjectsSeen, IsOwner, IsMember, RowsFit
  <2> QED
    BY <2>1, <2>2
<1>2. CASE UNCHANGED <<projects, members, torn>>
  BY <1>1, <1>2
<1>3. CASE ProjectEntered
  BY <1>1, <1>3 DEF ProjectEntered, WithRow
<1>4. CASE ProjectGone
  BY <1>1, <1>4 DEF ProjectGone, DeleteProjectRow, Except
<1>5. CASE MembershipChanged
  BY <1>1, <1>5 DEF MembershipChanged
<1> QED
  BY <1>2, <1>3, <1>4, <1>5
  DEF Kind, Written, Quiet, TaskEntered, TaskRewritten, TaskGone, CommentEntered, CommentGone, tables

(* A response is of the tasks as they are.                                 *)
LEMMA FreshResponse ==
    ASSUME RowsFit, NEW path \in Paths, Found(path)
    PROVE  Response(path) \in [DOMAIN Response(path) -> TaskRow]
           /\ \A id \in DOMAIN Response(path) : id \in DOMAIN tasks /\ Response(path)[id] = tasks[id]
  BY DEF Response, Found, RowsFit

(* What is kept by the cache is responses of tasks.                        *)
LEMMA ResponsesKept ==
    ASSUME RowsFit, ResponsesFit, Kind
    PROVE  ResponsesFit'
<1>1. CASE cached' = NoRows
  BY <1>1 DEF ResponsesFit, NoRows
<1>2. CASE cached' = cached
  BY <1>2 DEF ResponsesFit
<1>3. ASSUME NEW path \in Paths, cached' = Except(cached, {path})
      PROVE  ResponsesFit'
  BY <1>3 DEF ResponsesFit, Except
<1>4. ASSUME NEW path \in Paths, Found(path), cached' = WithRow(cached, path, Response(path))
      PROVE  ResponsesFit'
  BY <1>4, FreshResponse DEF ResponsesFit, WithRow
<1> QED
  BY <1>1, <1>2, <1>3, <1>4
  DEF Kind, Written, Quiet, ProjectEntered, ProjectGone, MembershipChanged, TaskEntered,
      TaskRewritten, TaskGone, CommentEntered, CommentGone

(* A step either empties the cache, or leaves what the responses show.     *)
LEMMA CurrentKept ==
    ASSUME RowsFit, ResponsesFit, CachedTasksAreCurrent, Kind
    PROVE  CachedTasksAreCurrent'
<1>1. CASE cached' = NoRows
  BY <1>1 DEF CachedTasksAreCurrent, NoRows
<1>2. CASE UNCHANGED <<tasks, torn, cached>>
  BY <1>2 DEF CachedTasksAreCurrent, Found, Response
<1>3. ASSUME NEW path \in Paths, cached' = Except(cached, {path}), UNCHANGED <<tasks, torn>>
      PROVE  CachedTasksAreCurrent'
  BY <1>3 DEF CachedTasksAreCurrent, Found, Response, Except
<1>4. ASSUME NEW path \in Paths, Found(path), cached' = WithRow(cached, path, Response(path)),
             UNCHANGED <<tasks, torn>>
      PROVE  CachedTasksAreCurrent'
  <2> SUFFICES ASSUME NEW k \in DOMAIN cached'
               PROVE  /\ Found(k)' /\ DOMAIN cached'[k] = DOMAIN Response(k)'
                      /\ \A id \in DOMAIN cached'[k] : cached'[k][id] # tasks'[id] =>
                            /\ tasks'[id] = [cached'[k][id] EXCEPT !.project = Null]
                            /\ cached'[k][id].project \notin torn'
    BY DEF CachedTasksAreCurrent
  <2>1. Response(k)' = Response(k) /\ (Found(k)' <=> Found(k))
    BY <1>4 DEF Response, Found
  <2>2. CASE k = path
    <3>1. cached'[k] = Response(k)
      BY <1>4, <2>2 DEF WithRow
    <3> QED
      BY <1>4, <2>1, <2>2, <3>1, FreshResponse
  <2>3. CASE k # path
    <3>1. k \in DOMAIN cached /\ cached'[k] = cached[k]
      BY <1>4, <2>3 DEF WithRow
    <3> QED
      BY <1>4, <2>1, <3>1 DEF CachedTasksAreCurrent
  <2> QED
    BY <2>2, <2>3
<1>5. CASE ProjectGone
  <2>1. PICK p \in DOMAIN projects :
            /\ DeleteProjectRow(p) /\ torn' = torn \ {p} /\ UNCHANGED cached
    BY <1>5 DEF ProjectGone, taskHistory
  <2>2. DOMAIN tasks' = DOMAIN tasks
        /\ \A id \in DOMAIN tasks : tasks'[id] =
              IF tasks[id].project = p THEN [tasks[id] EXCEPT !.project = Null] ELSE tasks[id]
    BY <2>1 DEF DeleteProjectRow
  <2>3. \A k : (Found(k)' <=> Found(k)) /\ (Found(k) => DOMAIN Response(k)' = DOMAIN Response(k))
    BY <2>2 DEF Found, Response
  <2>4. ASSUME NEW k \in DOMAIN cached, NEW id \in DOMAIN cached[k], cached[k][id] # tasks'[id]
        PROVE  /\ tasks'[id] = [cached[k][id] EXCEPT !.project = Null]
               /\ cached[k][id].project \notin torn'
    <3>1. id \in DOMAIN tasks /\ tasks[id] \in TaskRow /\ cached[k][id] \in TaskRow
      <4>1. Found(k) /\ id \in DOMAIN Response(k) /\ k \in Paths
        BY <2>4 DEF CachedTasksAreCurrent, ResponsesFit
      <4>2. id \in DOMAIN tasks
        BY <4>1, FreshResponse
      <4> QED
        BY <2>4, <4>2 DEF RowsFit, ResponsesFit
    <3>2. CASE cached[k][id] = tasks[id]
      BY <2>1, <2>2, <2>4, <3>1, <3>2
    <3>3. CASE cached[k][id] # tasks[id]
      <4>1. /\ tasks[id] = [cached[k][id] EXCEPT !.project = Null]
            /\ cached[k][id].project \notin torn
        BY <3>3 DEF CachedTasksAreCurrent
      <4>2. tasks[id].project = Null
        BY <3>1, <4>1 DEF TaskRow
      <4>3. [tasks[id] EXCEPT !.project = Null] = tasks[id]
        BY <3>1, <4>2 DEF TaskRow
      <4> QED
        BY <2>1, <2>2, <3>1, <4>1, <4>3
    <3> QED
      BY <3>2, <3>3
  <2> QED
    BY <2>1, <2>3, <2>4 DEF CachedTasksAreCurrent
<1>6. CASE CommentEntered
  BY <1>1, <1>2, <1>6 DEF CommentEntered
<1>7. CASE ProjectEntered
  BY <1>1, <1>2, <1>7 DEF ProjectEntered
<1>8. CASE Quiet
  BY <1>1, <1>2, <1>3, <1>4, <1>8 DEF Quiet, tables
<1> QED
  BY <1>1, <1>2, <1>5, <1>6, <1>7, <1>8
  DEF Kind, Written, MembershipChanged, TaskEntered, TaskRewritten, TaskGone, CommentGone

(* What is new refers to nothing old; what is refused is quiet.            *)
LEMMA NoTrace ==
    ASSUME RowsFit, ReferencesHold, Kind
    PROVE  ReusedIdsAreBlank /\ RefusalsChangeNothing
<1>1. RefusalsChangeNothing
  BY DEF Kind, Quiet, RefusalsChangeNothing
<1>2. CASE DOMAIN tasks' \subseteq DOMAIN tasks /\ DOMAIN projects' \subseteq DOMAIN projects
  BY <1>1, <1>2 DEF ReusedIdsAreBlank
<1>3. CASE TaskEntered
  BY <1>1, <1>3 DEF TaskEntered, ReusedIdsAreBlank, ReferencesHold
<1>4. CASE ProjectEntered
  <2>1. PICK p \in ProjectIds \ DOMAIN projects, user \in Users : projects' = WithRow(projects, p, user)
    BY <1>4 DEF ProjectEntered
  <2>2. p # Null
    BY TablesAssumption
  <2> QED
    BY <1>1, <1>4, <2>1, <2>2 DEF ProjectEntered, WithRow, ReusedIdsAreBlank, ReferencesHold
<1> QED
  BY <1>1, <1>2, <1>3, <1>4
  DEF Kind, Written, Quiet, ProjectGone, DeleteProjectRow, MembershipChanged, TaskRewritten,
      UpdateTaskRow, TaskGone, DeleteTaskRow, CommentEntered, CommentGone, Except, tables

-----------------------------------------------------------------------------
(* History.                                                                *)

(* The places of the rows of a task that are about one field.              *)
Of(list, id, type) == {n \in DOMAIN list : list[n].task = id /\ list[n].type = type}
DoneIn(list, id) == {n \in Of(list, id, "STATUS_CHANGE") : list[n].to = "DONE"}

(* The definitions of the model in these terms.                            *)
LEMMA OfLogs ==
    /\ \A id, type : ChangesOf(id, type) = Kept(logs, Of(logs, id, type))
    /\ \A id : CompletionsOf(id) = DoneIn(logs, id)
<1>1. \A id, type : {n \in HistoryOf(id) : logs[n].type = type} = Of(logs, id, type)
  BY DEF HistoryOf, Of
<1>2. \A id : CompletionsOf(id) = DoneIn(logs, id)
  BY DEF CompletionsOf, HistoryOf, DoneIn, Of
<1> QED
  BY <1>1, <1>2 DEF ChangesOf

(* These are places of the list, finitely many.                            *)
LEMMA OfFacts ==
    ASSUME NEW list \in Seq(LogRow), NEW id, NEW type
    PROVE  /\ Of(list, id, type) \in SUBSET DOMAIN list /\ Of(list, id, type) \in SUBSET Nat
           /\ IsFiniteSet(Of(list, id, type)) /\ IsFiniteSet(DoneIn(list, id))
           /\ Kept(list, Of(list, id, type)) \in Seq(LogRow)
<1>1. DOMAIN list = 1 .. Len(list) /\ Len(list) \in Nat /\ IsFiniteSet(1 .. Len(list))
  BY FS_Interval
<1>2. /\ Of(list, id, type) \in SUBSET DOMAIN list
      /\ DoneIn(list, id) \in SUBSET DOMAIN list
  BY DEF Of, DoneIn
<1>3. Of(list, id, type) \in SUBSET Nat
  BY <1>1, <1>2
<1>4. IsFiniteSet(Of(list, id, type)) /\ IsFiniteSet(DoneIn(list, id))
  BY <1>1, <1>2, FS_Subset
<1> QED
  BY <1>2, <1>3, <1>4, KeptFromList

(* Rows of other tasks or fields do not matter.                            *)
LEMMA OthersAppended ==
    ASSUME NEW list \in Seq(LogRow), NEW more \in Seq(LogRow), NEW id, NEW type,
           \A k \in DOMAIN more : ~(more[k].task = id /\ more[k].type = type)
    PROVE  /\ Of(list \o more, id, type) = Of(list, id, type)
           /\ Kept(list \o more, Of(list \o more, id, type)) = Kept(list, Of(list, id, type))
           /\ type = "STATUS_CHANGE" => DoneIn(list \o more, id) = DoneIn(list, id)
<1> DEFINE S == Of(list, id, type)
<1>1. \A n \in DOMAIN list : n \in DOMAIN (list \o more) /\ (list \o more)[n] = list[n]
  BY Joined
<1>2. Of(list \o more, id, type) = S
  BY <1>1, Joined DEF Of
<1>3. S \in SUBSET Nat /\ IsFiniteSet(S) /\ S \subseteq DOMAIN list
  BY OfFacts
<1>4. \A m \in 1 .. Cardinality(S) : Nth(S, m) \in S
  BY <1>3, NthIsMember
<1>5. \A m \in 1 .. Cardinality(S) : (list \o more)[Nth(S, m)] = list[Nth(S, m)]
  BY <1>1, <1>3, <1>4
<1>6. Kept(list \o more, S) = Kept(list, S)
  BY <1>5 DEF Kept
<1>7. type = "STATUS_CHANGE" => DoneIn(list \o more, id) = DoneIn(list, id)
  BY <1>1, <1>2, <1>3 DEF DoneIn
<1> QED
  BY <1>2, <1>6, <1>7

(* A row of the task and the field is the last of those kept.              *)
LEMMA OwnAppended ==
    ASSUME NEW list \in Seq(LogRow), NEW x \in LogRow
    PROVE  /\ Kept(Append(list, x), Of(Append(list, x), x.task, x.type))
                = Append(Kept(list, Of(list, x.task, x.type)), x)
           /\ x.type = "STATUS_CHANGE" =>
                 DoneIn(Append(list, x), x.task)
                    = DoneIn(list, x.task) \cup (IF x.to = "DONE" THEN {Len(list) + 1} ELSE {})
<1> DEFINE S == Of(list, x.task, x.type)
<1>1. /\ DOMAIN list = 1 .. Len(list) /\ Len(list) \in Nat
      /\ DOMAIN Append(list, x) = 1 .. (Len(list) + 1)
      /\ Append(list, x)[Len(list) + 1] = x
      /\ \A n \in 1 .. Len(list) : Append(list, x)[n] = list[n]
  OBVIOUS
<1>2. Of(Append(list, x), x.task, x.type) = S \cup {Len(list) + 1}
  BY <1>1 DEF Of
<1>3. Kept(Append(list, x), S \cup {Len(list) + 1}) = Append(Kept(list, S), x)
  <2>1. \A P \in SUBSET DOMAIN list, y \in LogRow :
           Kept(Append(list, y), P \cup {Len(list) + 1}) = Append(Kept(list, P), y)
    BY KeptAppended
  <2>2. S \in SUBSET DOMAIN list
    BY OfFacts
  <2> QED
    BY <2>1, <2>2
<1>4. ASSUME x.type = "STATUS_CHANGE"
      PROVE  DoneIn(Append(list, x), x.task)
                = DoneIn(list, x.task) \cup (IF x.to = "DONE" THEN {Len(list) + 1} ELSE {})
  <2>1. S \subseteq 1 .. Len(list)
    BY <1>1 DEF Of
  <2> QED
    BY <1>1, <1>2, <1>4, <2>1 DEF DoneIn
<1> QED
  BY <1>2, <1>3, <1>4

(* Places of what was kept are places of the list.                         *)
LEMMA LogsLeft ==
    ASSUME NEW list \in Seq(LogRow), NEW T \in SUBSET DOMAIN list
    PROVE  /\ \A i \in T : \E m \in 1 .. Cardinality(T) : Nth(T, m) = i
           /\ \A V \in SUBSET (1 .. Cardinality(T)) :
                 Kept(Kept(list, T), V) = Kept(list, {Nth(T, k) : k \in V})
<1>1. \A i \in T : \E m \in 1 .. Cardinality(T) : Nth(T, m) = i
  BY KeptFromList
<1>2. ASSUME NEW V \in SUBSET (1 .. Cardinality(T))
      PROVE  Kept(Kept(list, T), V) = Kept(list, {Nth(T, k) : k \in V})
  BY KeptTwice
<1> QED
  BY <1>1, <1>2

(* The removal of the rows of one task leaves those of the others.         *)
Without(list, gone) == Kept(list, {n \in DOMAIN list : list[n].task # gone})

SameRows(less, list, id, type) == Kept(less, Of(less, id, type)) = Kept(list, Of(list, id, type))

(* So the story of any other task is what it was.                          *)
LEMMA OthersStay ==
    ASSUME NEW list \in Seq(LogRow), NEW gone, NEW id, id # gone, NEW type
    PROVE  /\ SameRows(Without(list, gone), list, id, type)
           /\ Cardinality(DoneIn(Without(list, gone), id)) = Cardinality(DoneIn(list, id))
<1> DEFINE T == {n \in DOMAIN list : list[n].task # gone}
           less == Kept(list, T)
           N == Cardinality(T)
<1>1. T \in SUBSET DOMAIN list /\ \A n \in DOMAIN list : n \in T <=> list[n].task # gone
  OBVIOUS
<1>8. Without(list, gone) = less
  BY DEF Without
<1> HIDE DEF T
<1>2. /\ less \in Seq(LogRow) /\ DOMAIN less = 1 .. N /\ N \in Nat
      /\ \A m \in 1 .. N : Nth(T, m) \in T /\ less[m] = list[Nth(T, m)]
      /\ \A i \in T : \E m \in 1 .. N : Nth(T, m) = i
  <2>1. DOMAIN less = 1 .. N
    BY DEF Kept
  <2>2. N \in 0 .. Len(list)
    BY <1>1, KeptFromList
  <2>3. less \in Seq(LogRow)
    BY <1>1, KeptFromList
  <2>4. \A m \in 1 .. N : Nth(T, m) \in T /\ less[m] = list[Nth(T, m)]
    BY <1>1, KeptFromList
  <2>5. \A i \in T : \E m \in 1 .. N : Nth(T, m) = i
    BY <1>1, LogsLeft
  <2>6. N \in Nat
    BY <2>2
  <2> HIDE DEF less, N
  <2> QED
    BY <2>1, <2>3, <2>4, <2>5, <2>6
<1>3. T \in SUBSET Nat /\ IsFiniteSet(T)
  <2>1. DOMAIN list = 1 .. Len(list) /\ Len(list) \in Nat /\ IsFiniteSet(1 .. Len(list))
    BY FS_Interval
  <2> QED
    BY <1>1, <2>1, FS_Subset
<1> HIDE DEF less, N
<1>4. {Nth(T, k) : k \in Of(less, id, type)} = Of(list, id, type)
  <2>1. ASSUME NEW k \in Of(less, id, type)
        PROVE  Nth(T, k) \in Of(list, id, type)
    BY <1>1, <1>2 DEF Of
  <2>2. ASSUME NEW i \in Of(list, id, type)
        PROVE  \E k \in Of(less, id, type) : Nth(T, k) = i
    <3>1. i \in T
      BY <1>1 DEF Of
    <3>2. PICK m \in 1 .. N : Nth(T, m) = i
      BY <1>2, <3>1
    <3>3. m \in Of(less, id, type)
      BY <1>2, <3>2 DEF Of
    <3> QED
      BY <3>2, <3>3
  <2> QED
    BY <2>1, <2>2
<1>5. Kept(less, Of(less, id, type)) = Kept(list, Of(list, id, type))
  <2>1. Of(less, id, type) \in SUBSET (1 .. N)
    BY <1>2 DEF Of
  <2> QED
    <3>1. Kept(Kept(list, T), Of(less, id, type))
            = Kept(list, {Nth(T, k) : k \in Of(less, id, type)})
      <4>1. \A V \in SUBSET (1 .. Cardinality(T)) :
               Kept(Kept(list, T), V) = Kept(list, {Nth(T, k) : k \in V})
        BY <1>1, LogsLeft
      <4> QED
        BY <2>1, <4>1 DEF N
    <3> QED
      BY <1>4, <3>1 DEF less
<1>6. {Nth(T, k) : k \in DoneIn(less, id)} = DoneIn(list, id)
  <2>1. ASSUME NEW k \in DoneIn(less, id)
        PROVE  Nth(T, k) \in DoneIn(list, id)
    BY <1>1, <1>2 DEF Of, DoneIn
  <2>2. ASSUME NEW i \in DoneIn(list, id)
        PROVE  \E k \in DoneIn(less, id) : Nth(T, k) = i
    <3>1. i \in T
      BY <1>1 DEF Of, DoneIn
    <3>2. PICK m \in 1 .. N : Nth(T, m) = i
      BY <1>2, <3>1
    <3>3. m \in DoneIn(less, id)
      BY <1>2, <3>2 DEF Of, DoneIn
    <3> QED
      BY <3>2, <3>3
  <2> QED
    BY <2>1, <2>2
<1>7. Cardinality(DoneIn(less, id)) = Cardinality(DoneIn(list, id))
  <2>1. DoneIn(less, id) \in SUBSET (1 .. N)
    BY <1>2 DEF Of, DoneIn
  <2> QED
    BY <1>3, <1>6, <2>1, ImageCounted DEF N
<1> QED
  BY <1>5, <1>7, <1>8 DEF less, SameRows

(* A chain goes on with a change from its present value.                   *)
LEMMA ChainGrows ==
    ASSUME NEW list \in Seq(LogRow), NEW value, ChainTo(list, value),
           NEW x \in LogRow, x.from = value
    PROVE  ChainTo(Append(list, x), x.to)
<1>6. Len(list) \in Nat
  OBVIOUS
<1>1. /\ Len(list) \in Nat /\ DOMAIN list = 1 .. Len(list)
      /\ DOMAIN Append(list, x) = 1 .. (Len(list) + 1) /\ Len(Append(list, x)) = Len(list) + 1
      /\ Append(list, x)[Len(list) + 1] = x
      /\ \A n \in 1 .. Len(list) : Append(list, x)[n] = list[n]
  OBVIOUS
<1> DEFINE more == Append(list, x)
<1>5. \A n \in 1 .. Len(list) : list[n].to = IF n = Len(list) THEN value ELSE list[n + 1].from
  BY <1>1 DEF ChainTo
<1> HIDE DEF more
<1> SUFFICES ASSUME NEW n \in 1 .. (Len(list) + 1)
             PROVE  more[n].to = IF n = Len(list) + 1 THEN x.to ELSE more[n + 1].from
  BY <1>1 DEF ChainTo, more
<1>2. CASE n = Len(list) + 1
  BY <1>1, <1>2 DEF more
<1>3. CASE n = Len(list)
  <2>1. n \in 1 .. Len(list) /\ n + 1 = Len(list) + 1 /\ n # Len(list) + 1
    BY <1>3, <1>6
  <2> QED
    BY <1>1, <1>3, <1>5, <2>1 DEF more
<1>4. CASE n # Len(list) + 1 /\ n # Len(list)
  <2>1. n \in 1 .. Len(list) /\ n + 1 \in 1 .. Len(list)
    BY <1>4, <1>6
  <2> QED
    BY <1>1, <1>4, <1>5, <2>1 DEF more
<1> QED
  BY <1>2, <1>3, <1>4

(* What the history tells of one task.                                     *)
Story(id) ==
    /\ ChainTo(ChangesOf(id, "STATUS_CHANGE"), tasks[id].status)
    /\ ChainTo(ChangesOf(id, "PRIORITY_CHANGE"), tasks[id].priority)
    /\ announced[id] = Cardinality(CompletionsOf(id))

(* The history explains every task when it tells the story of each.        *)
LEMMA StoriesRead ==
    HistoryExplainsTask /\ CompletionsAnnounced <=> \A id \in DOMAIN tasks \ cut : Story(id)
  BY DEF HistoryExplainsTask, CompletionsAnnounced, Story

(* Rows that are not of a field of the task leave its story as it is.      *)
LEMMA StoryOfOthers ==
    ASSUME RowsFit, NEW id \in DOMAIN tasks, Story(id), NEW more \in Seq(LogRow),
           \A k \in DOMAIN more : more[k].task # id \/ more[k].type = "COMMENT_ADDED",
           logs' = logs \o more, id \in DOMAIN tasks', announced'[id] = announced[id],
           tasks'[id].status = tasks[id].status, tasks'[id].priority = tasks[id].priority
    PROVE  Story(id)'
<1>1. logs \in Seq(LogRow)
  BY DEF RowsFit
<1>2. \A type \in {"STATUS_CHANGE", "PRIORITY_CHANGE"} :
        /\ Kept(logs', Of(logs', id, type)) = Kept(logs, Of(logs, id, type))
        /\ type = "STATUS_CHANGE" => DoneIn(logs', id) = DoneIn(logs, id)
  <2> TAKE type \in {"STATUS_CHANGE", "PRIORITY_CHANGE"}
  <2>1. \A k \in DOMAIN more : ~(more[k].task = id /\ more[k].type = type)
    OBVIOUS
  <2> QED
    BY <1>1, <2>1, OthersAppended
<1>3. /\ ChangesOf(id, "STATUS_CHANGE")' = Kept(logs', Of(logs', id, "STATUS_CHANGE"))
      /\ ChangesOf(id, "PRIORITY_CHANGE")' = Kept(logs', Of(logs', id, "PRIORITY_CHANGE"))
      /\ CompletionsOf(id)' = DoneIn(logs', id)
  BY DEF ChangesOf, CompletionsOf, HistoryOf, Of, DoneIn
<1>4. /\ ChangesOf(id, "STATUS_CHANGE")' = ChangesOf(id, "STATUS_CHANGE")
      /\ ChangesOf(id, "PRIORITY_CHANGE")' = ChangesOf(id, "PRIORITY_CHANGE")
      /\ CompletionsOf(id)' = CompletionsOf(id)
  BY <1>2, <1>3, OfLogs
<1> QED
  BY <1>4 DEF Story, ChainTo

(* updateTask() goes on with the story of the task it changes.             *)
LEMMA StoryGrows ==
    ASSUME RowsFit, NEW id \in DOMAIN tasks, Story(id), NEW dto \in TaskInput,
           UpdateTaskRow(id, dto), announced' = Published(id, dto),
           logs' = logs \o Changes(id, dto)
    PROVE  Story(id)'
<1> DEFINE row == tasks[id]
           new == Updated(row, dto)
           s == [task |-> id, type |-> "STATUS_CHANGE", from |-> row.status, to |-> new.status]
           p == [task |-> id, type |-> "PRIORITY_CHANGE",
                 from |-> row.priority, to |-> new.priority]
           A == Change(id, "status", "STATUS_CHANGE", dto)
           B == Change(id, "priority", "PRIORITY_CHANGE", dto)
           mid == logs \o A
<1>1. /\ row \in TaskRow /\ id \in TaskIds /\ logs \in Seq(LogRow)
      /\ new.status \in Statuses /\ new.priority \in Priorities
  BY ChangesFit DEF RowsFit
<1>2. s \in LogRow /\ p \in LogRow
  BY <1>1 DEF LogRow, TaskRow
<1>3. /\ A = IF row.status = new.status THEN <<>> ELSE <<s>>
      /\ B = IF row.priority = new.priority THEN <<>> ELSE <<p>>
  BY DEF Change
<1>4. /\ s.task = id /\ s.type = "STATUS_CHANGE" /\ s.from = row.status /\ s.to = new.status
      /\ p.task = id /\ p.type = "PRIORITY_CHANGE" /\ p.from = row.priority /\ p.to = new.priority
  OBVIOUS
<1>5. tasks'[id] = new /\ announced'[id] = IF Completes(id, dto) THEN announced[id] + 1 ELSE announced[id]
  BY <1>1 DEF UpdateTaskRow, Published, RowsFit
<1>6. Completes(id, dto) <=> row.status # "DONE" /\ new.status = "DONE"
  BY DEF Completes
<1> HIDE DEF row, new, s, p
<1>7. /\ A \in Seq(LogRow) /\ B \in Seq(LogRow)
      /\ \A k \in DOMAIN A : A[k].type = "STATUS_CHANGE"
      /\ \A k \in DOMAIN B : B[k].type = "PRIORITY_CHANGE"
  <2>1. \A x \in LogRow : <<x>> \in Seq(LogRow) /\ \A k \in DOMAIN <<x>> : <<x>>[k] = x
    OBVIOUS
  <2>2. <<>> \in Seq(LogRow) /\ DOMAIN <<>> = {}
    OBVIOUS
  <2>3. A \in Seq(LogRow) /\ \A k \in DOMAIN A : A[k] = s
    <3>1. A = <<>> \/ A = <<s>>
      BY <1>3
    <3> HIDE DEF A
    <3> QED
      BY <1>2, <2>1, <2>2, <3>1
  <2>4. B \in Seq(LogRow) /\ \A k \in DOMAIN B : B[k] = p
    <3>1. B = <<>> \/ B = <<p>>
      BY <1>3
    <3> HIDE DEF B
    <3> QED
      BY <1>2, <2>1, <2>2, <3>1
  <2> QED
    BY <1>4, <2>3, <2>4
<1>8. logs' = mid \o B /\ mid \in Seq(LogRow)
  BY <1>1, <1>7, Joined DEF Changes
<1>9. /\ row.status = new.status => mid = logs
      /\ row.status # new.status => mid = Append(logs, s)
      /\ row.priority = new.priority => mid \o B = mid
      /\ row.priority # new.priority => mid \o B = Append(mid, p)
  <2>1. \A l \in Seq(LogRow) : l \o <<>> = l
    OBVIOUS
  <2>2. \A l \in Seq(LogRow), x \in LogRow : l \o <<x>> = Append(l, x)
    BY Joined
  <2> QED
    BY <1>1, <1>2, <1>3, <1>8, <2>1, <2>2
<1> HIDE DEF A, B, mid
<1>10. /\ ChangesOf(id, "STATUS_CHANGE")' = Kept(logs', Of(logs', id, "STATUS_CHANGE"))
       /\ ChangesOf(id, "PRIORITY_CHANGE")' = Kept(logs', Of(logs', id, "PRIORITY_CHANGE"))
       /\ CompletionsOf(id)' = DoneIn(logs', id)
  BY DEF ChangesOf, CompletionsOf, HistoryOf, Of, DoneIn
<1>11. /\ ChainTo(Kept(logs, Of(logs, id, "STATUS_CHANGE")), row.status)
       /\ ChainTo(Kept(logs, Of(logs, id, "PRIORITY_CHANGE")), row.priority)
       /\ announced[id] = Cardinality(DoneIn(logs, id))
  BY OfLogs DEF Story, row
<1>12. /\ Kept(logs', Of(logs', id, "STATUS_CHANGE")) = Kept(mid, Of(mid, id, "STATUS_CHANGE"))
       /\ DoneIn(logs', id) = DoneIn(mid, id)
  <2>1. \A k \in DOMAIN B : ~(B[k].task = id /\ B[k].type = "STATUS_CHANGE")
    BY <1>7
  <2> QED
    BY <1>7, <1>8, <2>1, OthersAppended
<1>13. Kept(mid, Of(mid, id, "PRIORITY_CHANGE")) = Kept(logs, Of(logs, id, "PRIORITY_CHANGE"))
  <2>1. \A k \in DOMAIN A : ~(A[k].task = id /\ A[k].type = "PRIORITY_CHANGE")
    BY <1>7
  <2> QED
    BY <1>1, <1>7, <2>1, OthersAppended DEF mid
<1>14. ChainTo(Kept(mid, Of(mid, id, "STATUS_CHANGE")), new.status)
  <2>1. CASE row.status = new.status
    BY <1>9, <1>11, <2>1
  <2>2. CASE row.status # new.status
    <3>1. Kept(mid, Of(mid, id, "STATUS_CHANGE"))
            = Append(Kept(logs, Of(logs, id, "STATUS_CHANGE")), s)
      BY <1>1, <1>2, <1>4, <1>9, <2>2, OwnAppended
    <3>2. Kept(logs, Of(logs, id, "STATUS_CHANGE")) \in Seq(LogRow)
      BY <1>1, OfFacts
    <3> QED
      BY <1>2, <1>4, <1>11, <3>1, <3>2, ChainGrows
  <2> QED
    BY <2>1, <2>2
<1>15. ChainTo(Kept(logs', Of(logs', id, "PRIORITY_CHANGE")), new.priority)
  <2>1. CASE row.priority = new.priority
    BY <1>8, <1>9, <1>11, <1>13, <2>1
  <2>2. CASE row.priority # new.priority
    <3>1. Kept(logs', Of(logs', id, "PRIORITY_CHANGE"))
            = Append(Kept(mid, Of(mid, id, "PRIORITY_CHANGE")), p)
      BY <1>2, <1>4, <1>8, <1>9, <2>2, OwnAppended
    <3>2. Kept(mid, Of(mid, id, "PRIORITY_CHANGE")) \in Seq(LogRow)
      BY <1>8, OfFacts
    <3> QED
      BY <1>2, <1>4, <1>11, <1>13, <3>1, <3>2, ChainGrows
  <2> QED
    BY <2>1, <2>2
<1>16. announced'[id] = Cardinality(DoneIn(mid, id))
  <2>1. CASE ~Completes(id, dto)
    <3>1. DoneIn(mid, id) = DoneIn(logs, id)
      <4>1. CASE row.status = new.status
        BY <1>9, <4>1
      <4>2. CASE row.status # new.status
        <5>1. DoneIn(Append(logs, s), s.task)
                = DoneIn(logs, s.task) \cup (IF s.to = "DONE" THEN {Len(logs) + 1} ELSE {})
          BY <1>1, <1>2, <1>4, OwnAppended
        <5>2. s.to # "DONE"
          BY <1>4, <1>6, <2>1, <4>2
        <5> QED
          BY <1>4, <1>9, <4>2, <5>1, <5>2
      <4> QED
        BY <4>1, <4>2
    <3> QED
      BY <1>5, <1>11, <2>1, <3>1
  <2>2. CASE Completes(id, dto)
    <3>1. row.status # new.status /\ new.status = "DONE"
      BY <1>6, <2>2
    <3>2. DoneIn(Append(logs, s), s.task)
            = DoneIn(logs, s.task) \cup (IF s.to = "DONE" THEN {Len(logs) + 1} ELSE {})
      BY <1>1, <1>2, <1>4, OwnAppended
    <3>3. DoneIn(mid, id) = DoneIn(logs, id) \cup {Len(logs) + 1}
      BY <1>4, <1>9, <3>1, <3>2
    <3>4. Len(logs) + 1 \notin DoneIn(logs, id) /\ IsFiniteSet(DoneIn(logs, id))
      <4>1. Len(logs) + 1 \notin DOMAIN logs
        BY <1>1
      <4> QED
        BY <1>1, <4>1, OfFacts DEF DoneIn, Of
    <3>5. Cardinality(DoneIn(mid, id)) = Cardinality(DoneIn(logs, id)) + 1
      BY <3>3, <3>4, FS_AddElement
    <3> QED
      BY <1>5, <1>11, <2>2, <3>5
  <2> QED
    BY <2>1, <2>2
<1> QED
  BY <1>5, <1>10, <1>12, <1>14, <1>15, <1>16 DEF Story

(* The rows of history of other tasks than the one a step is about.        *)
LEMMA StoryAfterDeletion ==
    ASSUME RowsFit, NEW id \in DOMAIN tasks, Story(id), NEW gone \in DOMAIN tasks, id # gone,
           DeleteTaskRow(gone), announced' = [announced EXCEPT ![gone] = 0]
    PROVE  Story(id)'
<1>1. /\ logs \in Seq(LogRow) /\ logs' = Without(logs, gone)
      /\ tasks'[id] = tasks[id] /\ announced'[id] = announced[id]
  BY DEF RowsFit, DeleteTaskRow, Except, Without
<1>2. \A type : SameRows(logs', logs, id, type)
  BY <1>1, OthersStay
<1>3. Cardinality(DoneIn(logs', id)) = Cardinality(DoneIn(logs, id))
  BY <1>1, OthersStay
<1>4. /\ ChangesOf(id, "STATUS_CHANGE")' = Kept(logs', Of(logs', id, "STATUS_CHANGE"))
      /\ ChangesOf(id, "PRIORITY_CHANGE")' = Kept(logs', Of(logs', id, "PRIORITY_CHANGE"))
      /\ CompletionsOf(id)' = DoneIn(logs', id)
  BY DEF ChangesOf, CompletionsOf, HistoryOf, Of, DoneIn
<1>5. /\ ChangesOf(id, "STATUS_CHANGE")' = ChangesOf(id, "STATUS_CHANGE")
      /\ ChangesOf(id, "PRIORITY_CHANGE")' = ChangesOf(id, "PRIORITY_CHANGE")
      /\ Cardinality(CompletionsOf(id)') = Cardinality(CompletionsOf(id))
  BY <1>1, <1>2, <1>3, <1>4, OfLogs DEF SameRows
<1> QED
  BY <1>1, <1>5 DEF Story, ChainTo

(* A task of which there are no rows has the empty history.                *)
LEMMA BlankStory ==
    ASSUME NEW id, \A n \in DOMAIN logs : logs[n].task # id, announced[id] = 0
    PROVE  Story(id)
<1>1. \A type : {n \in HistoryOf(id) : logs[n].type = type} = {}
  BY DEF HistoryOf
<1>2. CompletionsOf(id) = {}
  BY DEF CompletionsOf, HistoryOf
<1>3. Cardinality({}) = 0
  BY FS_EmptySet
<1>4. \A list : DOMAIN Kept(list, {}) = {}
  BY <1>3 DEF Kept
<1>5. \A type : DOMAIN ChangesOf(id, type) = {}
  BY <1>1, <1>4 DEF ChangesOf
<1> QED
  BY <1>2, <1>3, <1>5 DEF Story, ChainTo

(* Every kind of step leaves every story true.                             *)
LEMMA StoriesKept ==
    ASSUME RowsFit, RowsFit', ReferencesHold, ReferencesHold', Kind,
           HistoryExplainsTask, CompletionsAnnounced
    PROVE  (HistoryExplainsTask /\ CompletionsAnnounced)'
<1>1. \A id \in DOMAIN tasks \ cut : Story(id)
  BY StoriesRead
<1> SUFFICES ASSUME NEW id \in DOMAIN tasks' \ cut'
             PROVE  Story(id)'
  BY DEF HistoryExplainsTask, CompletionsAnnounced, Story
<1>2. /\ <<>> \in Seq(LogRow) /\ DOMAIN <<>> = {} /\ logs \o <<>> = logs
      /\ logs \in Seq(LogRow)
  <2>1. logs \in Seq(LogRow)
    BY DEF RowsFit
  <2> QED
    BY <2>1
<1>3. ASSUME id \in DOMAIN tasks, id \notin cut, logs' = logs, announced'[id] = announced[id],
             tasks'[id].status = tasks[id].status, tasks'[id].priority = tasks[id].priority
      PROVE  Story(id)'
  <2>1. logs' = logs \o <<>>
    BY <1>2, <1>3
  <2>2. Story(id)
    BY <1>1, <1>3
  <2> QED
    BY <1>2, <1>3, <2>1, <2>2, StoryOfOthers
<1>4. CASE UNCHANGED <<tasks, logs, taskHistory>>
  BY <1>3, <1>4 DEF taskHistory
<1>5. CASE ProjectGone
  <2>1. PICK p \in DOMAIN projects : DeleteProjectRow(p) /\ UNCHANGED <<logs, taskHistory>>
    BY <1>5 DEF ProjectGone
  <2>2. /\ id \in DOMAIN tasks /\ id \notin cut /\ logs' = logs /\ announced' = announced
        /\ tasks'[id] = IF tasks[id].project = p THEN [tasks[id] EXCEPT !.project = Null]
                        ELSE tasks[id]
    BY <2>1 DEF DeleteProjectRow, taskHistory
  <2>3. tasks[id] \in TaskRow
    BY <2>2 DEF RowsFit
  <2> QED
    BY <1>3, <2>2, <2>3 DEF TaskRow
<1>6. CASE TaskEntered
  <2>1. PICK new \in TaskIds \ DOMAIN tasks, row \in TaskRow :
            /\ tasks' = WithRow(tasks, new, row) /\ UNCHANGED <<logs, taskHistory>>
    BY <1>6 DEF TaskEntered
  <2>2. CASE id = new
    <3>1. announced[id] = 0 /\ \A n \in DOMAIN logs : logs[n].task # id
      BY <2>1, <2>2 DEF ReferencesHold
    <3>2. Story(id)
      BY <3>1, BlankStory
    <3> DEFINE st == tasks'[id].status
               pr == tasks'[id].priority
    <3>3. \A type : DOMAIN ChangesOf(id, type) = {}
      <4>1. \A type : {n \in HistoryOf(id) : logs[n].type = type} = {}
        BY <3>1 DEF HistoryOf
      <4>2. \A list : DOMAIN Kept(list, {}) = {}
        BY FS_EmptySet DEF Kept
      <4> QED
        BY <4>1, <4>2 DEF ChangesOf
    <3>4. /\ ChangesOf(id, "STATUS_CHANGE")' = ChangesOf(id, "STATUS_CHANGE")
          /\ ChangesOf(id, "PRIORITY_CHANGE")' = ChangesOf(id, "PRIORITY_CHANGE")
          /\ CompletionsOf(id)' = CompletionsOf(id)
      BY <2>1 DEF ChangesOf, CompletionsOf, HistoryOf
    <3> QED
      BY <2>1, <3>2, <3>3, <3>4 DEF Story, ChainTo, taskHistory
  <2>3. CASE id # new
    BY <1>3, <2>1, <2>3 DEF WithRow, taskHistory
  <2> QED
    BY <2>2, <2>3
<1>7. CASE TaskRewritten
  <2>1. PICK own \in DOMAIN tasks, dto \in TaskInput :
            /\ UpdateTaskRow(own, dto)
            /\ \/ /\ announced' = Published(own, dto) /\ UNCHANGED cut
                  /\ logs' = logs \o Changes(own, dto)
               \/ /\ announced' \in {announced, Published(own, dto)} /\ cut' = cut \cup {own}
                  /\ \E done \in 0 .. Len(Changes(own, dto)) :
                        logs' = logs \o SubSeq(Changes(own, dto), 1, done)
    BY <1>7 DEF TaskRewritten
  <2>2. id \in DOMAIN tasks /\ id \notin cut
    BY <2>1 DEF UpdateTaskRow
  <2>3. CASE id = own
    <3>1. announced' = Published(id, dto) /\ logs' = logs \o Changes(id, dto) /\ UpdateTaskRow(id, dto)
      BY <2>1, <2>3
    <3> QED
      BY <1>1, <2>2, <3>1, StoryGrows
  <2>4. CASE id # own
    <3>1. announced'[id] = announced[id] /\ tasks'[id] = tasks[id]
      BY <2>1, <2>2, <2>4 DEF UpdateTaskRow, Published, RowsFit
    <3>2. /\ Changes(own, dto) \in Seq(LogRow)
          /\ \A n \in DOMAIN Changes(own, dto) : Changes(own, dto)[n].task = own
      BY ChangesFit
    <3>3. \E more \in Seq(LogRow) :
             logs' = logs \o more /\ \A k \in DOMAIN more : more[k].task = own
      <4> DEFINE all == Changes(own, dto)
      <4> HIDE DEF all
      <4>1. CASE logs' = logs \o all
        BY <3>2, <4>1 DEF all
      <4>2. ASSUME NEW done \in 0 .. Len(all), logs' = logs \o SubSeq(all, 1, done)
            PROVE  \E more \in Seq(LogRow) :
                      logs' = logs \o more /\ \A k \in DOMAIN more : more[k].task = own
        <5>1. all \in Seq(LogRow) /\ \A n \in DOMAIN all : all[n].task = own
          BY <3>2 DEF all
        <5>2. /\ SubSeq(all, 1, done) \in Seq(LogRow)
              /\ \A k \in DOMAIN SubSeq(all, 1, done) :
                    k \in DOMAIN all /\ SubSeq(all, 1, done)[k] = all[k]
          BY <5>1
        <5> QED
          BY <4>2, <5>1, <5>2
      <4> QED
        BY <2>1, <4>1, <4>2 DEF all
    <3> QED
      BY <1>1, <2>2, <2>4, <3>1, <3>3, StoryOfOthers
  <2> QED
    BY <2>3, <2>4
<1>8. CASE TaskGone
  <2>1. PICK gone \in DOMAIN tasks :
            /\ DeleteTaskRow(gone) /\ announced' = [announced EXCEPT ![gone] = 0]
            /\ cut' = cut \ {gone}
    BY <1>8 DEF TaskGone
  <2>2. id \in DOMAIN tasks /\ id # gone /\ id \notin cut
    BY <2>1 DEF DeleteTaskRow, Except
  <2> QED
    BY <1>1, <2>1, <2>2, StoryAfterDeletion
<1>9. CASE CommentEntered
  <2>1. PICK task \in DOMAIN tasks, user \in Users :
            /\ InsertComment(task, user) /\ UNCHANGED <<tasks, announced>>
            /\ \/ logs' = logs \o CommentLog(task, nextComment) /\ UNCHANGED cut
               \/ cut' = cut \cup {task} /\ UNCHANGED logs
    BY <1>9 DEF CommentEntered
  <2>2. CASE UNCHANGED logs
    BY <1>3, <2>1, <2>2
  <2>3. CASE logs' = logs \o CommentLog(task, nextComment) /\ UNCHANGED cut
    <3>1. /\ CommentLog(task, nextComment) \in Seq(LogRow)
          /\ \A k \in DOMAIN CommentLog(task, nextComment) :
                CommentLog(task, nextComment)[k].type = "COMMENT_ADDED"
      <4>1. [task |-> task, type |-> "COMMENT_ADDED", comment |-> nextComment] \in LogRow
        BY Bounds DEF LogRow, RowsFit
      <4> QED
        BY <4>1 DEF CommentLog
    <3> QED
      BY <1>1, <2>1, <2>3, <3>1, StoryOfOthers
  <2> QED
    BY <2>1, <2>2, <2>3
<1> QED
  BY <1>4, <1>5, <1>6, <1>7, <1>8, <1>9
  DEF Kind, Written, Quiet, ProjectEntered, MembershipChanged, CommentGone, tables

(* Every kind of step leaves every comment in the history of its task.     *)
LEMMA CommentsKept ==
    ASSUME RowsFit, RowsFit', ReferencesHold, Kind, CommentsAreInHistory
    PROVE  CommentsAreInHistory'
<1> DEFINE Told(list, c, task) ==
             \E n \in DOMAIN list : /\ list[n].type = "COMMENT_ADDED"
                                    /\ list[n].comment = c /\ list[n].task = task
<1>1. logs \in Seq(LogRow)
  BY DEF RowsFit
<1>2. \A c \in DOMAIN comments : comments[c].task \notin cut => Told(logs, c, comments[c].task)
  BY DEF CommentsAreInHistory
<1> SUFFICES ASSUME NEW c \in DOMAIN comments', comments'[c].task \notin cut'
             PROVE  Told(logs', c, comments'[c].task)
  BY DEF CommentsAreInHistory
<1>3. ASSUME NEW more \in Seq(LogRow), logs' = logs \o more,
             c \in DOMAIN comments, comments'[c] = comments[c], comments[c].task \notin cut
      PROVE  Told(logs', c, comments'[c].task)
  <2>1. \A n \in DOMAIN logs : n \in DOMAIN logs' /\ logs'[n] = logs[n]
    BY <1>1, <1>3, Joined
  <2> QED
    BY <1>2, <1>3, <2>1
<1>4. ASSUME logs' = logs, c \in DOMAIN comments, comments'[c] = comments[c],
             comments[c].task \notin cut
      PROVE  Told(logs', c, comments'[c].task)
  BY <1>2, <1>4
<1>5. CASE UNCHANGED <<comments, logs, cut>>
  BY <1>4, <1>5
<1>6. CASE TaskRewritten
  <2>1. PICK own \in DOMAIN tasks, dto \in TaskInput :
            \/ /\ UNCHANGED cut
               /\ logs' = logs \o Changes(own, dto)
            \/ /\ cut' = cut \cup {own}
               /\ \E done \in 0 .. Len(Changes(own, dto)) :
                     logs' = logs \o SubSeq(Changes(own, dto), 1, done)
    BY <1>6 DEF TaskRewritten
  <2>2. comments' = comments
    BY <1>6 DEF TaskRewritten
  <2>3. \E more \in Seq(LogRow) : logs' = logs \o more
    <3>1. Changes(own, dto) \in Seq(LogRow)
      BY ChangesFit
    <3> DEFINE all == Changes(own, dto)
    <3> HIDE DEF all
    <3>2. \A done \in 0 .. Len(all) : SubSeq(all, 1, done) \in Seq(LogRow)
      BY <3>1 DEF all
    <3> QED
      BY <2>1, <3>1, <3>2 DEF all
  <2> QED
    BY <1>3, <2>1, <2>2, <2>3
<1>7. CASE TaskGone
  <2>1. PICK gone \in DOMAIN tasks : DeleteTaskRow(gone) /\ cut' = cut \ {gone}
    BY <1>7 DEF TaskGone
  <2>2. /\ c \in DOMAIN comments /\ comments'[c] = comments[c]
        /\ comments[c].task # gone /\ comments[c].task \notin cut
    BY <2>1 DEF DeleteTaskRow, Except
  <2>3. PICK n \in DOMAIN logs : /\ logs[n].type = "COMMENT_ADDED"
                                 /\ logs[n].comment = c /\ logs[n].task = comments[c].task
    BY <1>2, <2>2
  <2> DEFINE T == {i \in DOMAIN logs : logs[i].task # gone}
  <2>4. n \in T /\ T \in SUBSET DOMAIN logs /\ logs' = Kept(logs, T)
    BY <2>1, <2>2, <2>3 DEF DeleteTaskRow
  <2> HIDE DEF T
  <2>5. PICK m \in 1 .. Cardinality(T) : Nth(T, m) = n
    BY <1>1, <2>4, LogsLeft
  <2>6. m \in DOMAIN logs' /\ logs'[m] = logs[n]
    BY <2>4, <2>5 DEF Kept
  <2> QED
    BY <2>2, <2>3, <2>6
<1>8. CASE CommentEntered
  <2>1. PICK task \in DOMAIN tasks, user \in Users :
            /\ InsertComment(task, user)
            /\ \/ logs' = logs \o CommentLog(task, nextComment) /\ UNCHANGED cut
               \/ cut' = cut \cup {task} /\ UNCHANGED logs
    BY <1>8 DEF CommentEntered
  <2>2. comments' = WithRow(comments, nextComment, [task |-> task, user |-> user])
    BY <2>1 DEF InsertComment
  <2> DEFINE x == [task |-> task, type |-> "COMMENT_ADDED", comment |-> nextComment]
  <2>3. x \in LogRow /\ CommentLog(task, nextComment) = <<x>> /\ <<x>> \in Seq(LogRow)
    <3>1. x \in LogRow
      BY Bounds DEF LogRow, RowsFit
    <3> HIDE DEF x
    <3>2. <<x>> \in Seq(LogRow)
      BY <3>1
    <3> QED
      BY <3>1, <3>2 DEF CommentLog, x
  <2>4. CASE c # nextComment
    <3>1. c \in DOMAIN comments /\ comments'[c] = comments[c] /\ comments[c].task \notin cut
      BY <2>1, <2>2, <2>4 DEF WithRow
    <3> QED
      BY <1>3, <1>4, <2>1, <2>3, <3>1
  <2>5. CASE c = nextComment
    <3>1. comments'[c].task = task
      BY <2>2, <2>5 DEF WithRow
    <3>2. logs' = Append(logs, x)
      <4>1. logs' = logs \o <<x>>
        BY <2>1, <2>3, <3>1
      <4> HIDE DEF x
      <4> QED
        BY <1>1, <2>3, <4>1, Joined
    <3>3. Len(logs) + 1 \in DOMAIN logs' /\ logs'[Len(logs) + 1] = x
      <4> HIDE DEF x
      <4> QED
        BY <1>1, <2>3, <3>2
    <3> QED
      BY <2>5, <3>1, <3>3
  <2> QED
    BY <2>4, <2>5
<1>9. CASE CommentGone
  <2>1. c \in DOMAIN comments /\ comments'[c] = comments[c] /\ UNCHANGED <<logs, cut>>
    BY <1>9 DEF CommentGone, DeleteComment, Except, taskHistory
  <2> QED
    BY <1>4, <2>1
<1> QED
  BY <1>5, <1>6, <1>7, <1>8, <1>9
  DEF Kind, Written, Quiet, ProjectEntered, ProjectGone, MembershipChanged, TaskEntered, tables,
      taskHistory

-----------------------------------------------------------------------------
(* The invariant.                                                          *)

(* The empty tables are as described.                                      *)
LEMMA WorkspaceBegins == WorkspaceInit => WorkspaceInv
<1> SUFFICES ASSUME WorkspaceInit
             PROVE  WorkspaceInv
  OBVIOUS
<1>1. /\ DOMAIN projects = {} /\ DOMAIN tasks = {} /\ DOMAIN comments = {} /\ DOMAIN cached = {}
      /\ members = {} /\ torn = {} /\ cut = {} /\ reply = 0 /\ logs = <<>>
      /\ announced = [id \in TaskIds |-> 0]
      /\ nextTask = FirstTask /\ nextProject = 1 /\ nextComment = 1
      /\ projects = NoRows /\ tasks = NoRows /\ comments = NoRows /\ cached = NoRows
  BY DEF WorkspaceInit, InitTables, NoRows
<1>2. RowsFit
  <2>1. <<>> \in Seq(LogRow)
    OBVIOUS
  <2>2. NoRows \in [{} -> Users] /\ NoRows \in [{} -> TaskRow] /\ NoRows \in [{} -> CommentRow]
    BY DEF NoRows
  <2> QED
    BY <1>1, <2>1, <2>2, Bounds DEF RowsFit
<1>3. ResponsesFit
  BY <1>1 DEF ResponsesFit, NoRows
<1>4. DOMAIN logs = {}
  BY <1>1
<1>5. ReferencesHold
  BY <1>1, <1>4 DEF ReferencesHold
<1>6. OwnersAreMembers /\ CachedTasksAreCurrent /\ HistoryIsComplete
  BY <1>1
  DEF OwnersAreMembers, ProjectsSeen, CachedTasksAreCurrent, HistoryIsComplete,
      HistoryExplainsTask, CompletionsAnnounced, CommentsAreInHistory
<1> QED
  BY <1>2, <1>3, <1>5, <1>6 DEF WorkspaceInv

(* So is what any step makes of them, and the step leaves no trace.        *)
LEMMA WorkspaceStep ==
    ASSUME WorkspaceInv, [WorkspaceNext]_workspaceVars
    PROVE  WorkspaceInv' /\ ReusedIdsAreBlank /\ RefusalsChangeNothing
<1>1. RowsFit /\ ResponsesFit /\ ReferencesHold /\ OwnersAreMembers /\ CachedTasksAreCurrent
      /\ HistoryExplainsTask /\ CompletionsAnnounced /\ CommentsAreInHistory
  BY DEF WorkspaceInv, HistoryIsComplete
<1>2. Kind
  BY <1>1, EveryStep
<1>3. RowsFit' /\ ReferencesHold'
  BY <1>1, <1>2, RowsKept, ReferencesKept
<1>4. OwnersAreMembers' /\ ResponsesFit' /\ CachedTasksAreCurrent'
  BY <1>1, <1>2, <1>3, OwnersKept, ResponsesKept, CurrentKept
<1>5. HistoryIsComplete'
  BY <1>1, <1>2, <1>3, StoriesKept, CommentsKept DEF HistoryIsComplete
<1>6. ReusedIdsAreBlank /\ RefusalsChangeNothing
  BY <1>1, <1>2, NoTrace
<1> QED
  BY <1>3, <1>4, <1>5, <1>6 DEF WorkspaceInv

(* The invariant gives the types.                                          *)
LEMMA WorkspaceTyped == WorkspaceInv => WorkspaceTypeOK
<1> SUFFICES ASSUME WorkspaceInv
             PROVE  WorkspaceTypeOK
  OBVIOUS
<1>1. RowsFit /\ ResponsesFit
  BY DEF WorkspaceInv
<1>2. \A n \in DOMAIN logs : logs[n] \in LogRow
  BY <1>1 DEF RowsFit
<1> QED
  BY <1>1, <1>2 DEF RowsFit, ResponsesFit, WorkspaceTypeOK, TablesOK

(* The rows, what they refer to, the owners, the responses and the         *)
(* histories are as described above in every state, for any set of users,  *)
(* any inputs and any bounds (src/services, src/repositories, src/grpc).   *)
THEOREM WorkspaceInvariance == WorkspaceSpec => []WorkspaceInv
<1>1. WorkspaceInv /\ [WorkspaceNext]_workspaceVars => WorkspaceInv'
  BY WorkspaceStep
<1> QED
  BY <1>1, WorkspaceBegins, PTL DEF WorkspaceSpec

(* The tables hold rows of their types, and the owner of a project is a    *)
(* member of it unless its creation was cut off (project.service.ts).      *)
THEOREM OwnersStayMembers == WorkspaceSpec => [](WorkspaceTypeOK /\ OwnersAreMembers)
<1>1. WorkspaceInv => WorkspaceTypeOK /\ OwnersAreMembers
  BY WorkspaceTyped DEF WorkspaceInv
<1> QED
  BY <1>1, WorkspaceInvariance, PTL

(* The history, the events and the comments of a task tell the same story  *)
(* (updateTask() of task.service.ts, createComment() of comment.service.ts *)
(* and the cascades of src/database/schema.ts).                            *)
THEOREM HistoryStaysComplete == WorkspaceSpec => []HistoryIsComplete
<1>1. WorkspaceInv => HistoryIsComplete
  BY DEF WorkspaceInv
<1> QED
  BY <1>1, WorkspaceInvariance, PTL

(* A response that is kept is what the database would answer now, but for  *)
(* a project that was deleted (src/middleware/cache.middleware.ts).        *)
THEOREM CachedTasksStayCurrent == WorkspaceSpec => []CachedTasksAreCurrent
<1>1. WorkspaceInv => CachedTasksAreCurrent
  BY DEF WorkspaceInv
<1> QED
  BY <1>1, WorkspaceInvariance, PTL

(* A refused request changes no table, and an identifier that is drawn     *)
(* again after a restart inherits nothing (generateId() of the             *)
(* repositories, and the cascades of src/database/schema.ts).              *)
THEOREM NoTraceIsLeft == WorkspaceSpec => RequestsLeaveNoTrace
<1>1. WorkspaceInv /\ [WorkspaceNext]_workspaceVars => ReusedIdsAreBlank /\ RefusalsChangeNothing
  BY WorkspaceStep
<1> QED
  BY <1>1, WorkspaceInvariance, PTL DEF WorkspaceSpec, RequestsLeaveNoTrace

=============================================================================
