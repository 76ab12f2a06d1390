---------------------------- MODULE LoadBalancer ----------------------------
(***************************************************************************)
(* One load balancer, src/services/load-balancer.service.ts: the choice of *)
(* an instance and the statistics the choice is made from.                 *)
(*                                                                         *)
(* An instance without statistics stands for one whose counters are zero:  *)
(* getInstanceStats() creates the entry with zeros.  Response times, dates *)
(* and the copies of host and port are left out.                           *)
(***************************************************************************)
EXTENDS Subsequences

CONSTANTS
    Instances,          (* numbered in the order of their registration     *)
    Algorithms          (* those that services are configured with         *)

ASSUME BalancerAssumption ==
    /\ Instances \subseteq Nat \ {0}
    /\ IsFiniteSet(Instances)
    /\ Algorithms \subseteq {"round-robin", "least-connections", "random"}

VARIABLES
    algorithm,          (* of this balancer, for good                      *)
    currentIndex,
    lbRequests,         (* totalRequests of the balancer                   *)
    requestCount,
    activeConnections,
    healthy,            (* instances the registry reports                  *)
    openAtReset         (* history: the requests under way on each         *)
                        (* instance when the balancer was last reset       *)

counts == <<lbRequests, requestCount, activeConnections>>
balancer == <<algorithm, currentIndex, counts>>

BalancerTypeOK ==
    /\ algorithm \in Algorithms
    /\ currentIndex \in Nat
    /\ lbRequests \in Nat
    /\ requestCount \in [Instances -> Nat]
    /\ activeConnections \in [Instances -> Nat]

BalancerInit ==
    /\ algorithm \in Algorithms
    /\ currentIndex = 0
    /\ lbRequests = 0
    /\ requestCount = [i \in Instances |-> 0]
    /\ activeConnections = [i \in Instances |-> 0]

-----------------------------------------------------------------------------

(* Mutation: the index wraps around at the number of registered instances. *)
RoundRobinOverAll(i) ==
    /\ i \in healthy
    /\ Rank(healthy, i) = currentIndex % Cardinality(healthy)
    /\ currentIndex' = (currentIndex + 1) % Cardinality(Instances)

RoundRobin(i) ==
    /\ i \in healthy
    /\ Rank(healthy, i) = currentIndex % Cardinality(healthy)
    /\ currentIndex' = (currentIndex + 1) % Cardinality(healthy)

(* Mutation: the requests of all time are compared.                        *)
LeastUsed(i) ==
    /\ i \in healthy
    /\ \A j \in healthy : requestCount[i] <= requestCount[j]
    /\ UNCHANGED currentIndex

(* The first of the instances with the fewest active connections.          *)
LeastConnections(i) ==
    /\ i \in healthy
    /\ \A j \in healthy :
          /\ activeConnections[i] <= activeConnections[j]
          /\ activeConnections[i] = activeConnections[j] => i <= j
    /\ UNCHANGED currentIndex

Random(i) ==
    /\ i \in healthy
    /\ UNCHANGED currentIndex

(* selectInstance() returns instance i.                                    *)
SelectInstance(i) ==
    /\ healthy # {}
    /\ lbRequests' = lbRequests + 1
    /\ UNCHANGED algorithm
    /\ \/ algorithm = "round-robin" /\ RoundRobin(i)
       \/ algorithm = "least-connections" /\ LeastConnections(i)
       \/ algorithm = "random" /\ Random(i)
    /\ requestCount' = [requestCount EXCEPT ![i] = @ + 1]
    /\ activeConnections' = [activeConnections EXCEPT ![i] = @ + 1]

(* recordResponse(): Math.max(0, activeConnections - 1).                   *)
RecordResponse(i) ==
    /\ activeConnections' =
         [activeConnections EXCEPT ![i] = IF @ > 0 THEN @ - 1 ELSE 0]
    /\ UNCHANGED <<algorithm, currentIndex, lbRequests, requestCount>>

(* reset() forgets every counter, also of requests still under way.        *)
ResetBalancer ==
    /\ UNCHANGED algorithm
    /\ currentIndex' = 0
    /\ lbRequests' = 0
    /\ requestCount' = [i \in Instances |-> 0]
    /\ activeConnections' = [i \in Instances |-> 0]

=============================================================================
