------------------------- MODULE BalancerAccounting -------------------------
(***************************************************************************)
(* A load balancer used as its interface asks: every selected instance is  *)
(* reported back with recordResponse() when its request ends.  Instances   *)
(* come and go and the administrator resets the counters at any time.      *)
(***************************************************************************)
EXTENDS LoadBalancer

CONSTANT MaxSelections  (* bound: requests routed in a behaviour           *)

VARIABLES
    open,               (* requests under way on each instance             *)
    sinceChange,        (* selections since healthy last changed or the    *)
                        (* balancer was last reset                         *)
    selections          (* requests routed so far                          *)

usage == <<open, sinceChange, selections>>
accountingVars == <<balancer, healthy, openAtReset, usage>>

Zero == [i \in Instances |-> 0]

AccountingTypeOK ==
    /\ BalancerTypeOK
    /\ healthy \subseteq Instances
    /\ open \in [Instances -> Nat]
    /\ openAtReset \in [Instances -> Nat]
    /\ sinceChange \in [Instances -> Nat]
    /\ selections \in Nat

AccountingInit ==
    /\ BalancerInit
    /\ healthy = Instances
    /\ open = Zero
    /\ openAtReset = Zero
    /\ sinceChange = Zero
    /\ selections = 0

Select(i) ==
    /\ selections < MaxSelections
    /\ SelectInstance(i)
    /\ open' = [open EXCEPT ![i] = @ + 1]
    /\ sinceChange' = [sinceChange EXCEPT ![i] = @ + 1]
    /\ selections' = selections + 1
    /\ UNCHANGED <<healthy, openAtReset>>

RequestEnds(i) ==
    /\ open[i] > 0
    /\ RecordResponse(i)
    /\ open' = [open EXCEPT ![i] = @ - 1]
    /\ UNCHANGED <<healthy, openAtReset, sinceChange, selections>>

Reset ==
    /\ ResetBalancer
    /\ openAtReset' = open
    /\ sinceChange' = Zero
    /\ UNCHANGED <<healthy, open, selections>>

(* The registry marks an instance unhealthy or healthy again.              *)
RegistryReports(i) ==
    /\ healthy' = IF i \in healthy THEN healthy \ {i} ELSE healthy \cup {i}
    /\ sinceChange' = Zero
    /\ UNCHANGED <<balancer, open, openAtReset, selections>>

AccountingNext ==
    \/ \E i \in Instances : Select(i)
    \/ \E i \in Instances : RequestEnds(i)
    \/ \E i \in Instances : RegistryReports(i)
    \/ Reset

AccountingSpec == AccountingInit /\ [][AccountingNext]_accountingVars

-----------------------------------------------------------------------------

(* activeConnections is never more than the requests under way, and less   *)
(* by at most those that were under way at the last reset, whose responses *)
(* are then taken off the account of later requests (recordResponse()).    *)
ConnectionsAccountedFor ==
    \A i \in Instances :
        /\ activeConnections[i] <= open[i]
        /\ open[i] <= activeConnections[i] + openAtReset[i]

(* Round robin: while the set of healthy instances stays the same, no      *)
(* instance gets two requests more than another, from whatever index a     *)
(* change or a reset has left (roundRobin()).                              *)
RoundRobinIsEven ==
    algorithm = "round-robin" =>
        \A i, j \in healthy : sinceChange[i] <= sinceChange[j] + 1

(* In every state the counts match what is under way and the turns of      *)
(* round robin are even.                                                   *)
CountsAreSound == AccountingTypeOK /\ ConnectionsAccountedFor /\ RoundRobinIsEven

(* Least connections: unless counts were lost in a reset, a request goes   *)
(* to an instance on which the fewest requests are under way.              *)
LeastLoadedChosen ==
    [][algorithm = "least-connections" /\ openAtReset = Zero =>
        \A i, j \in healthy :
            open'[i] > open[i] => open[i] <= open[j]]_accountingVars

=============================================================================
