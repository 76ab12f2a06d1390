----------------------------- MODULE TimedBreaker -----------------------------
(***************************************************************************)
(* The breaker of src/patterns/circuit-breaker.ts, which goes by the clock *)
(* where the one of the gateway goes by a timer.  Nothing happens when     *)
(* nextAttempt is reached: the next call finds it in the past.  So the     *)
(* model keeps the time that is left until it, `wait`.  The operations     *)
(* themselves belong to whoever uses the breaker.                          *)
(***************************************************************************)
EXTENDS Integers

CONSTANTS FailureThreshold, SuccessThreshold, ResetTimeout
ASSUME BreakerAssumption ==
    /\ FailureThreshold \in Nat \ {0}
    /\ SuccessThreshold \in Nat \ {0}
    /\ ResetTimeout \in Nat \ {0}

VARIABLES
    state,          (* CLOSED, OPEN or HALF_OPEN                           *)
    failureCount,   (* counted up to FailureThreshold, past which it is    *)
                    (* only compared with it                               *)
    successCount,
    wait            (* nextAttempt - Date.now(), 0 when that is over       *)

breaker == <<state, failureCount, successCount, wait>>

BreakerOK ==
    /\ state \in {"CLOSED", "OPEN", "HALF_OPEN"}
    /\ failureCount \in 0..FailureThreshold
    /\ successCount \in 0..SuccessThreshold - 1
    /\ wait \in 0..ResetTimeout

InitBreaker ==
    /\ state = "CLOSED"
    /\ failureCount = 0
    /\ successCount = 0
    /\ wait = 0

Smaller(m, n) == IF m < n THEN m ELSE n

(* A call is refused at once...                                            *)
Refuses == state = "OPEN" /\ wait > 0

(* ... or the operation starts, in a breaker that was open as a trial.     *)
AdmitWith(failures, trials) ==
    /\ ~Refuses
    /\ state' = IF state = "OPEN" THEN "HALF_OPEN" ELSE state
    /\ failureCount' = failures
    /\ successCount' = trials
    /\ UNCHANGED wait

(* Mutation: the trials of an earlier half-open period count.              *)
AdmitWithOldTrials == AdmitWith(failureCount, successCount)

Admit == AdmitWith(failureCount, IF state = "OPEN" THEN 0 ELSE successCount)

(* A success may come from a call of any age, and while the breaker is     *)
(* open: then it only clears the failures.                                 *)
Succeeded(failures, trialsWhenClosed) ==
    /\ failureCount' = failures
    /\ IF state = "HALF_OPEN" /\ successCount + 1 >= SuccessThreshold
       THEN state' = "CLOSED" /\ successCount' = trialsWhenClosed
       ELSE /\ successCount' = IF state = "HALF_OPEN" THEN successCount + 1 ELSE successCount
            /\ UNCHANGED state
    /\ UNCHANGED wait

OnSuccess == Succeeded(0, 0)

(* So may a failure: with the threshold reached it opens the breaker, or   *)
(* keeps it open for longer.                                               *)
FailedIn(states) ==
    /\ failureCount' = Smaller(failureCount + 1, FailureThreshold)
    /\ IF failureCount + 1 >= FailureThreshold /\ state \in states
       THEN state' = "OPEN" /\ wait' = ResetTimeout
       ELSE UNCHANGED <<state, wait>>
    /\ UNCHANGED successCount

OnFailure == FailedIn({"CLOSED", "HALF_OPEN", "OPEN"})

ResetBreaker ==
    /\ state' = "CLOSED"
    /\ failureCount' = 0
    /\ successCount' = 0
    /\ wait' = 0

BreakerTick ==
    /\ wait' = IF wait > 0 THEN wait - 1 ELSE 0
    /\ UNCHANGED <<state, failureCount, successCount>>

=============================================================================
