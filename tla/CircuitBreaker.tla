--------------------------- MODULE CircuitBreaker ---------------------------
(***************************************************************************)
(* The gateway's circuit breaker, src/services/circuit-breaker.service.ts. *)
(*                                                                         *)
(* The process is a single-threaded event loop, so each action is what     *)
(* runs between two suspension points: execute() up to `await operation()` *)
(* (Execute), what follows the await (Succeed, Fail), the callback of the  *)
(* reset timer (TimerFires) and the administrator's reset (Reset).  Any    *)
(* number of calls may be suspended at the await when another action runs, *)
(* whatever state the breaker was in when they were let through.           *)
(*                                                                         *)
(* A call is one invocation of execute(), so it runs once.  Dates kept for *)
(* the statistics page and log lines are left out.                         *)
(***************************************************************************)
EXTENDS Integers, FiniteSets

CONSTANTS
    Calls,              (* the invocations of execute()                    *)
    FailureThreshold,   (* config.failureThreshold                         *)
    HalfOpenRequests    (* config.halfOpenRequests                         *)

ASSUME ConfigAssumption ==
    /\ FailureThreshold \in Nat \ {0}
    /\ HalfOpenRequests \in Nat \ {0}

VARIABLES
    state,              (* CLOSED, OPEN or HALF_OPEN                       *)
    failureCount,
    successCount,
    totalRequests,
    halfOpenAttempts,
    resetTimer,         (* the timeout that will call halfOpen(), if pending  *)
    phase               (* where each call stands                          *)

counters == <<failureCount, successCount, totalRequests, halfOpenAttempts>>
vars == <<state, counters, resetTimer, phase>>

-----------------------------------------------------------------------------

CircuitBreakerState == {"CLOSED", "OPEN", "HALF_OPEN"}

(* A call suspended at `await operation()` was let through by a closed     *)
(* breaker ("running") or as a test request ("probing").                   *)
Phase == {"new", "running", "probing", "succeeded", "failed", "rejected"}

TypeOK ==
    /\ state \in CircuitBreakerState
    /\ failureCount \in Nat
    /\ successCount \in Nat
    /\ totalRequests \in Nat
    /\ halfOpenAttempts \in 0..HalfOpenRequests
    /\ resetTimer \in {"none", "pending"}
    /\ phase \in [Calls -> Phase]

Init ==
    /\ state = "CLOSED"
    /\ failureCount = 0
    /\ successCount = 0
    /\ totalRequests = 0
    /\ halfOpenAttempts = 0
    /\ resetTimer = "none"
    /\ phase = [c \in Calls |-> "new"]

-----------------------------------------------------------------------------
(* Mutation: open() clears the timer after setting it.                     *)
OpenClearsNewTimer ==
    /\ state' = "OPEN"
    /\ halfOpenAttempts' = 0
    /\ resetTimer' = "none"

(* The transitions open(), halfOpen() and close().  open() replaces the    *)
(* pending timer, close() leaves it pending.                               *)

Open ==
    /\ state' = "OPEN"
    /\ halfOpenAttempts' = 0
    /\ resetTimer' = "pending"

HalfOpen ==
    /\ state' = "HALF_OPEN"
    /\ halfOpenAttempts' = 0

Close ==
    /\ state' = "CLOSED"
    /\ failureCount' = 0
    /\ halfOpenAttempts' = 0

-----------------------------------------------------------------------------

EnterPhase(c, from, to) ==
    /\ phase[c] \in from
    /\ phase' = [phase EXCEPT ![c] = to]

(* execute() of an open breaker, or of a half-open one whose test requests *)
(* are used up: the error is thrown before the try block.                  *)
Reject(c) ==
    /\ \/ state = "OPEN"
       \/ state = "HALF_OPEN" /\ halfOpenAttempts >= HalfOpenRequests
    /\ EnterPhase(c, {"new"}, "rejected")
    /\ UNCHANGED halfOpenAttempts

(* Mutation: the limit of test requests is not checked.                    *)
AdmitUnlimited(c) ==
    \/ /\ state = "CLOSED"
       /\ EnterPhase(c, {"new"}, "running")
       /\ UNCHANGED halfOpenAttempts
    \/ /\ state = "HALF_OPEN"
       /\ halfOpenAttempts' = halfOpenAttempts + 1
       /\ EnterPhase(c, {"new"}, "probing")

(* execute() up to the call of the operation.                              *)
Admit(c) ==
    \/ /\ state = "CLOSED"
       /\ EnterPhase(c, {"new"}, "running")
       /\ UNCHANGED halfOpenAttempts
    \/ /\ state = "HALF_OPEN"
       /\ halfOpenAttempts < HalfOpenRequests
       /\ halfOpenAttempts' = halfOpenAttempts + 1
       /\ EnterPhase(c, {"new"}, "probing")

Execute(c) ==
    /\ Reject(c) \/ Admit(c)
    /\ totalRequests' = totalRequests + 1
    /\ UNCHANGED <<state, failureCount, successCount, resetTimer>>

(* Mutations of onSuccess(): > for >= in the test for the last test        *)
(* request; no reset of the failure count of a closed breaker.             *)
OnSuccessBeyondLimit ==
    \/ /\ state = "HALF_OPEN" /\ halfOpenAttempts > HalfOpenRequests
       /\ Close
    \/ /\ state = "HALF_OPEN" /\ halfOpenAttempts <= HalfOpenRequests
       /\ UNCHANGED <<state, failureCount, halfOpenAttempts>>
    \/ /\ state = "CLOSED"
       /\ failureCount' = 0
       /\ UNCHANGED <<state, halfOpenAttempts>>
    \/ /\ state = "OPEN"
       /\ UNCHANGED <<state, failureCount, halfOpenAttempts>>

OnSuccessKeepsFailures ==
    \/ /\ state = "HALF_OPEN" /\ halfOpenAttempts >= HalfOpenRequests
       /\ Close
    \/ /\ state # "HALF_OPEN" \/ halfOpenAttempts < HalfOpenRequests
       /\ UNCHANGED <<state, failureCount, halfOpenAttempts>>

(* onSuccess(), by the state the breaker is in when the operation ends.    *)
OnSuccess ==
    \/ /\ state = "HALF_OPEN"
       /\ halfOpenAttempts >= HalfOpenRequests
       /\ Close
    \/ /\ state = "HALF_OPEN"
       /\ halfOpenAttempts < HalfOpenRequests
       /\ UNCHANGED <<state, failureCount, halfOpenAttempts>>
    \/ /\ state = "CLOSED"
       /\ failureCount' = 0
       /\ UNCHANGED <<state, halfOpenAttempts>>
    \/ /\ state = "OPEN"
       /\ UNCHANGED <<state, failureCount, halfOpenAttempts>>

Succeed(c) ==
    /\ EnterPhase(c, {"running", "probing"}, "succeeded")
    /\ successCount' = successCount + 1
    /\ OnSuccess
    /\ UNCHANGED <<totalRequests, resetTimer>>

(* onFailure(): a failure counts in every state, opens a half-open breaker *)
(* and opens a closed one at the threshold.                                *)
Trips ==
    \/ state = "HALF_OPEN"
    \/ state = "CLOSED" /\ failureCount + 1 >= FailureThreshold

Fail(c) ==
    /\ EnterPhase(c, {"running", "probing"}, "failed")
    /\ failureCount' = failureCount + 1
    /\ \/ Trips /\ Open
       \/ ~Trips /\ UNCHANGED <<state, halfOpenAttempts, resetTimer>>
    /\ UNCHANGED <<successCount, totalRequests>>

(* The timeout set by open() expires.                                      *)
TimerFires ==
    /\ resetTimer = "pending"
    /\ resetTimer' = "none"
    /\ HalfOpen
    /\ UNCHANGED <<failureCount, successCount, totalRequests, phase>>

(* reset(), from the administration routes, at any time.                   *)
Reset ==
    /\ Close
    /\ successCount' = 0
    /\ totalRequests' = 0
    /\ UNCHANGED <<resetTimer, phase>>

Next ==
    \/ \E c \in Calls : Execute(c)
    \/ \E c \in Calls : Succeed(c)
    \/ \E c \in Calls : Fail(c)
    \/ TimerFires
    \/ Reset

(* The event loop runs an expired timer, and every operation settles: the  *)
(* HTTP client gives up after five seconds (service-client.ts:10).  Nobody *)
(* has to make a call or to reset the breaker.                             *)
Fairness ==
    /\ WF_vars(TimerFires)
    /\ \A c \in Calls : WF_vars(Succeed(c) \/ Fail(c))

Spec == Init /\ [][Next]_vars /\ Fairness

-----------------------------------------------------------------------------

(* An open breaker always has the timeout pending that will end its        *)
(* blocking: no interleaving of late results, resets and timeouts leaves   *)
(* it open with nothing scheduled (open(), close(), reset()).              *)
OpenHasTimer == state = "OPEN" => resetTimer = "pending"

(* A timeout is never pending while test requests are under way: a stray   *)
(* one would restart their count in the middle of the test (halfOpen()).   *)
NoTimerWhileProbing == state = "HALF_OPEN" => resetTimer = "none"

(* When a half-open breaker has used up its test requests, so that it      *)
(* rejects every call, one of them is still under way: its outcome will    *)
(* move the breaker.  Without it the breaker would reject for ever.        *)
ExhaustedProbesUnderWay ==
    state = "HALF_OPEN" /\ halfOpenAttempts = HalfOpenRequests
        => \E c \in Calls : phase[c] = "probing"

(* A closed breaker is below its threshold, also when failures of calls    *)
(* from before it last closed come in (onFailure()).                       *)
ClosedBelowThreshold == state = "CLOSED" => failureCount < FailureThreshold

(* A closed breaker has no test request on its account: the limit of the   *)
(* next half-open period counts that period only.                          *)
AttemptsOnlyWhileHalfOpen == state # "HALF_OPEN" => halfOpenAttempts = 0

(* The inductive invariant: the parts above support one another.           *)
Inv ==
    /\ TypeOK
    /\ OpenHasTimer
    /\ NoTimerWhileProbing
    /\ ExhaustedProbesUnderWay
    /\ ClosedBelowThreshold
    /\ AttemptsOnlyWhileHalfOpen

(* Blocking ends: an open breaker is some time not open.                   *)
OpenIsTemporary == state = "OPEN" ~> state # "OPEN"

(* A half-open breaker that rejects every call stops doing so, without     *)
(* anybody calling it or resetting it.                                     *)
Saturated == state = "HALF_OPEN" /\ halfOpenAttempts = HalfOpenRequests
SaturationIsTemporary == Saturated ~> ~Saturated

-----------------------------------------------------------------------------
(* The breaker implements the protocol.                                    *)

StartedCalls == {c \in Calls : phase[c] \notin {"new", "rejected"}}

Protocol == INSTANCE BreakerProtocol WITH
    mode <- state,
    armed <- (resetTimer = "pending"),
    permits <- HalfOpenRequests - halfOpenAttempts,
    started <- StartedCalls,
    succeeded <- {c \in Calls : phase[c] = "succeeded"},
    failed <- {c \in Calls : phase[c] = "failed"}

(* Operations start and end only as BreakerProtocol allows, and the breaker*)
(* keeps the promises it makes about time.                                 *)
ImplementsProtocol == Protocol!Spec

=============================================================================
