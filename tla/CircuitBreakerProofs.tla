------------------------ MODULE CircuitBreakerProofs ------------------------
(***************************************************************************)
(* Inv is inductive, for every set of calls and every configuration with   *)
(* positive numbers, the safety part of BreakerProtocol is implemented,    *)
(* and with the history of CircuitBreakerHistory: a half-open period keeps *)
(* to its budget and the breaker moves for the reasons it is meant to.     *)
(***************************************************************************)
EXTENDS CircuitBreakerHistory, FiniteSetTheorems, TLAPS

-----------------------------------------------------------------------------

(* Moving one call keeps the phases well typed and the others in place.    *)
LEMMA EnterPhaseEffect ==
    ASSUME TypeOK, NEW c \in Calls, NEW from, NEW to \in Phase,
           EnterPhase(c, from, to)
    PROVE  /\ phase' \in [Calls -> Phase]
           /\ phase[c] \in from
           /\ phase'[c] = to
           /\ \A d \in Calls \ {c} : phase'[d] = phase[d]
BY DEF TypeOK, EnterPhase

(* The initial state satisfies the invariant.                              *)
LEMMA InitInv == Init => Inv
<1> SUFFICES ASSUME Init PROVE Inv
  OBVIOUS
<1>1. phase \in [Calls -> Phase]
  BY DEF Init, Phase
<1>2. TypeOK
  BY <1>1, ConfigAssumption DEF Init, TypeOK, CircuitBreakerState
<1> QED
  BY <1>2, ConfigAssumption
     DEF Init, Inv, OpenHasTimer, NoTimerWhileProbing,
         ExhaustedProbesUnderWay, ClosedBelowThreshold,
         AttemptsOnlyWhileHalfOpen

(* A call that is let through or rejected.  The call that takes the last   *)
(* test request is itself the test request under way.                      *)
LEMMA ExecuteInv ==
    ASSUME Inv, NEW c \in Calls, Execute(c)
    PROVE  Inv'
<1> USE ConfigAssumption DEF Inv
<1>1. CASE Reject(c)
  <2>1. /\ phase' \in [Calls -> Phase]
        /\ phase[c] = "new"
        /\ \A d \in Calls \ {c} : phase'[d] = phase[d]
    BY <1>1, EnterPhaseEffect DEF Reject, Phase
  <2>2. TypeOK'
    BY <1>1, <2>1 DEF TypeOK, Execute, Reject
  <2>3. ExhaustedProbesUnderWay'
    BY <1>1, <2>1 DEF ExhaustedProbesUnderWay, Execute, Reject
  <2> QED
    BY <1>1, <2>2, <2>3
       DEF Execute, Reject, OpenHasTimer, NoTimerWhileProbing,
           ClosedBelowThreshold, AttemptsOnlyWhileHalfOpen
<1>2. CASE Admit(c)
  <2>1. /\ phase' \in [Calls -> Phase]
        /\ state = "HALF_OPEN" => phase'[c] = "probing"
    BY <1>2, EnterPhaseEffect DEF Admit, Phase
  <2>2. TypeOK'
    BY <1>2, <2>1 DEF TypeOK, Execute, Admit
  <2>3. ExhaustedProbesUnderWay'
    BY <1>2, <2>1 DEF ExhaustedProbesUnderWay, Execute
  <2> QED
    BY <1>2, <2>2, <2>3
       DEF Execute, Admit, OpenHasTimer, NoTimerWhileProbing,
           ClosedBelowThreshold, AttemptsOnlyWhileHalfOpen
<1> QED
  BY <1>1, <1>2 DEF Execute

(* A success.  It ends a saturated half-open period, so no period is left  *)
(* saturated with the last test request gone.                              *)
LEMMA SucceedInv ==
    ASSUME Inv, NEW c \in Calls, Succeed(c)
    PROVE  Inv'
<1> USE ConfigAssumption DEF Inv
<1>1. phase' \in [Calls -> Phase]
  BY EnterPhaseEffect DEF Succeed, Phase
<1>2. TypeOK'
  BY <1>1 DEF TypeOK, Succeed, OnSuccess, Close, CircuitBreakerState
<1>3. ExhaustedProbesUnderWay'
  BY DEF ExhaustedProbesUnderWay, TypeOK, Succeed, OnSuccess, Close
<1>4. ClosedBelowThreshold'
  BY DEF ClosedBelowThreshold, Succeed, OnSuccess, Close
<1> QED
  BY <1>2, <1>3, <1>4
     DEF Succeed, OnSuccess, Close, OpenHasTimer, NoTimerWhileProbing,
         AttemptsOnlyWhileHalfOpen

(* A failure.  In a half-open period it opens the breaker, in a closed one *)
(* it does so at the threshold.                                            *)
LEMMA FailInv ==
    ASSUME Inv, NEW c \in Calls, Fail(c)
    PROVE  Inv'
<1> USE ConfigAssumption DEF Inv
<1>1. phase' \in [Calls -> Phase]
  BY EnterPhaseEffect DEF Fail, Phase
<1>2. TypeOK'
  BY <1>1 DEF TypeOK, Fail, Open, CircuitBreakerState
<1>3. state' # "HALF_OPEN"
  BY DEF Fail, Trips, Open
<1>4. ClosedBelowThreshold'
  BY DEF ClosedBelowThreshold, TypeOK, Fail, Trips, Open
<1> QED
  BY <1>2, <1>3, <1>4
     DEF Fail, Open, OpenHasTimer, NoTimerWhileProbing,
         ExhaustedProbesUnderWay, AttemptsOnlyWhileHalfOpen

(* The timeout expires: a fresh half-open period, with nothing scheduled.  *)
LEMMA TimerFiresInv == Inv /\ TimerFires => Inv'
BY ConfigAssumption
   DEF Inv, TypeOK, TimerFires, HalfOpen, CircuitBreakerState, OpenHasTimer,
       NoTimerWhileProbing, ExhaustedProbesUnderWay, ClosedBelowThreshold,
       AttemptsOnlyWhileHalfOpen

(* The manual reset, which may leave a timeout pending.                    *)
LEMMA ResetInv == Inv /\ Reset => Inv'
BY ConfigAssumption
   DEF Inv, TypeOK, Reset, Close, CircuitBreakerState, OpenHasTimer,
       NoTimerWhileProbing, ExhaustedProbesUnderWay, ClosedBelowThreshold,
       AttemptsOnlyWhileHalfOpen

LEMMA NextInv == Inv /\ [Next]_vars => Inv'
<1> SUFFICES ASSUME Inv, [Next]_vars PROVE Inv'
  OBVIOUS
<1>1. ASSUME NEW c \in Calls, Execute(c) PROVE Inv'
  BY <1>1, ExecuteInv
<1>2. ASSUME NEW c \in Calls, Succeed(c) PROVE Inv'
  BY <1>2, SucceedInv
<1>3. ASSUME NEW c \in Calls, Fail(c) PROVE Inv'
  BY <1>3, FailInv
<1>4. CASE TimerFires
  BY <1>4, TimerFiresInv
<1>5. CASE Reset
  BY <1>5, ResetInv
<1>6. CASE UNCHANGED vars
  BY <1>6
     DEF vars, counters, Inv, TypeOK, OpenHasTimer, NoTimerWhileProbing,
         ExhaustedProbesUnderWay, ClosedBelowThreshold,
         AttemptsOnlyWhileHalfOpen
<1> QED
  BY <1>1, <1>2, <1>3, <1>4, <1>5, <1>6 DEF Next

(* Every part of Inv holds in every reachable state of the breaker.        *)
THEOREM Invariance == Spec => []Inv
<1> QED
  BY InitInv, NextInv, PTL DEF Spec

(* The variables keep their types: in particular the test requests of a    *)
(* half-open period never exceed config.halfOpenRequests.                  *)
THEOREM TypeCorrect == Spec => []TypeOK
<1>1. Inv => TypeOK
  BY DEF Inv
<1> QED
  BY <1>1, Invariance, PTL

(* The breaker is never open with no timeout pending to end its blocking.  *)
THEOREM NeverOpenForGood == Spec => []OpenHasTimer
<1>1. Inv => OpenHasTimer
  BY DEF Inv
<1> QED
  BY <1>1, Invariance, PTL

(* The breaker never rejects for want of test requests when no test        *)
(* request is under way to decide its state.                               *)
THEOREM NeverStuckHalfOpen == Spec => []ExhaustedProbesUnderWay
<1>1. Inv => ExhaustedProbesUnderWay
  BY DEF Inv
<1> QED
  BY <1>1, Invariance, PTL

(* A closed breaker is below its failure threshold.                        *)
THEOREM NeverLateToTrip == Spec => []ClosedBelowThreshold
<1>1. Inv => ClosedBelowThreshold
  BY DEF Inv
<1> QED
  BY <1>1, Invariance, PTL

-----------------------------------------------------------------------------
(* The refinement: each step of the breaker is a step of the protocol, or  *)
(* changes nothing the protocol sees (a rejection).                        *)

LEMMA InitProtocol == Init => Protocol!Init
BY ConfigAssumption DEF Init, Protocol!Init, StartedCalls

LEMMA ExecuteProtocol ==
    ASSUME Inv, NEW c \in Calls, Execute(c)
    PROVE  [Protocol!Next]_Protocol!protocol
<1> USE ConfigAssumption DEF Inv
<1>1. CASE Reject(c)
  BY <1>1
     DEF Execute, Reject, EnterPhase, TypeOK, StartedCalls, Protocol!protocol
<1>2. CASE Admit(c)
  <2>1. Protocol!Start(c)
    BY <1>2
       DEF Execute, Admit, EnterPhase, TypeOK, StartedCalls, Protocol!Start
  <2> QED
    BY <2>1 DEF Protocol!Next
<1> QED
  BY <1>1, <1>2 DEF Execute

LEMMA SucceedProtocol ==
    ASSUME Inv, NEW c \in Calls, Succeed(c)
    PROVE  Protocol!Succeed(c)
BY ConfigAssumption
   DEF Inv, Succeed, OnSuccess, Close, EnterPhase, TypeOK, StartedCalls,
       AttemptsOnlyWhileHalfOpen, Protocol!Succeed, Protocol!Running,
       Protocol!WindowUsedUp

LEMMA FailProtocol ==
    ASSUME Inv, NEW c \in Calls, Fail(c)
    PROVE  Protocol!Fail(c)
BY ConfigAssumption
   DEF Inv, Fail, Trips, Open, EnterPhase, TypeOK, StartedCalls,
       AttemptsOnlyWhileHalfOpen, Protocol!Fail, Protocol!Running,
       Protocol!Block

LEMMA TimerProtocol == Inv /\ TimerFires => Protocol!Probe
BY ConfigAssumption
   DEF Inv, TypeOK, TimerFires, HalfOpen, StartedCalls, Protocol!Probe

LEMMA ResetProtocol == Inv /\ Reset => Protocol!Override
BY ConfigAssumption
   DEF Inv, TypeOK, Reset, Close, StartedCalls, Protocol!Override

LEMMA NextProtocol ==
    Inv /\ [Next]_vars => [Protocol!Next]_Protocol!protocol
<1> SUFFICES ASSUME Inv, [Next]_vars
             PROVE  [Protocol!Next]_Protocol!protocol
  OBVIOUS
<1>1. ASSUME NEW c \in Calls, Execute(c)
      PROVE  [Protocol!Next]_Protocol!protocol
  BY <1>1, ExecuteProtocol
<1>2. ASSUME NEW c \in Calls, Succeed(c) PROVE Protocol!Next
  BY <1>2, SucceedProtocol DEF Protocol!Next
<1>3. ASSUME NEW c \in Calls, Fail(c) PROVE Protocol!Next
  BY <1>3, FailProtocol DEF Protocol!Next
<1>4. CASE TimerFires
  BY <1>4, TimerProtocol DEF Protocol!Next
<1>5. CASE Reset
  BY <1>5, ResetProtocol DEF Protocol!Next
<1>6. CASE UNCHANGED vars
  BY <1>6 DEF vars, counters, StartedCalls, Protocol!protocol
<1> QED
  BY <1>1, <1>2, <1>3, <1>4, <1>5, <1>6 DEF Next

(* Operations are started and test windows ended only as BreakerProtocol   *)
(* allows, for any number of concurrent calls.                             *)
THEOREM ProtocolSafety == Spec => Protocol!Safety
<1> QED
  BY InitProtocol, NextProtocol, Invariance, PTL DEF Spec, Protocol!Safety

-----------------------------------------------------------------------------
(* The history.                                                            *)

(* What a half-open breaker has counted is the test requests of this       *)
(* period, none of which has failed yet.                                   *)
AttemptsAreProbes ==
    state = "HALF_OPEN"
        => /\ Cardinality(probes) = halfOpenAttempts
           /\ \A c \in probes : phase[c] \in {"probing", "succeeded"}

(* What a closed breaker counts is failures since the last success.        *)
CountIsStreak == state = "CLOSED" => failureCount <= streak

HistoryInv ==
    /\ streak \in Nat
    /\ probes \subseteq Calls
    /\ IsFiniteSet(probes)
    /\ ProbeBudget
    /\ AttemptsAreProbes
    /\ CountIsStreak

(* The history takes no part in what the breaker does.                     *)
LEMMA HistoryOnlyWatches == [HNext]_hvars => [Next]_vars
BY DEF HNext, HExecute, HSucceed, HFail, HTimerFires, HReset, Repair, hvars, Next

LEMMA HInitInv == HInit => Inv /\ HistoryInv
<1> SUFFICES ASSUME HInit PROVE Inv /\ HistoryInv
  OBVIOUS
<1>1. state = "CLOSED" /\ failureCount = 0 /\ streak = 0 /\ probes = {}
  BY DEF HInit, Init
<1>2. IsFiniteSet(probes) /\ Cardinality(probes) = 0
  BY <1>1, FS_EmptySet
<1> QED
  BY <1>1, <1>2, InitInv, ConfigAssumption
     DEF HInit, HistoryInv, ProbeBudget, AttemptsAreProbes, CountIsStreak

(* A call is let through or rejected: a test request is new in its period. *)
LEMMA HExecuteInv ==
    ASSUME Inv, HistoryInv, NEW c \in Calls, HExecute(c)
    PROVE  HistoryInv'
<1> USE ConfigAssumption
<1>1. phase \in [Calls -> Phase] /\ halfOpenAttempts \in 0..HalfOpenRequests
  BY DEF Inv, TypeOK
<1>2. UNCHANGED <<state, failureCount, streak>>
  BY DEF HExecute, Execute
<1>3. CASE Reject(c)
  <2>1. phase'[c] = "rejected" /\ phase[c] = "new" /\ UNCHANGED halfOpenAttempts
        /\ \A d \in Calls \ {c} : phase'[d] = phase[d]
    BY <1>1, <1>3 DEF Reject, EnterPhase
  <2>2. probes' = probes
    BY <1>2, <2>1 DEF HExecute, Recorded
  <2> QED
    BY <1>2, <2>1, <2>2
       DEF HistoryInv, ProbeBudget, AttemptsAreProbes, CountIsStreak
<1>4. CASE state = "CLOSED" /\ Admit(c)
  <2>1. phase'[c] = "running"
    BY <1>1, <1>4 DEF Admit, EnterPhase
  <2>2. probes' = probes
    BY <1>2, <2>1 DEF HExecute, Recorded
  <2> QED
    BY <1>2, <1>4, <2>2
       DEF HistoryInv, ProbeBudget, AttemptsAreProbes, CountIsStreak
<1>5. CASE state = "HALF_OPEN" /\ Admit(c)
  <2>1. /\ halfOpenAttempts < HalfOpenRequests /\ halfOpenAttempts' = halfOpenAttempts + 1
        /\ phase[c] = "new" /\ phase'[c] = "probing"
        /\ \A d \in Calls \ {c} : phase'[d] = phase[d]
    BY <1>1, <1>5 DEF Admit, EnterPhase
  <2>2. probes' = probes \cup {c}
    BY <1>2, <2>1 DEF HExecute, Recorded
  <2>3. c \notin probes
    BY <1>5, <2>1 DEF HistoryInv, AttemptsAreProbes
  <2>4. IsFiniteSet(probes') /\ Cardinality(probes') = Cardinality(probes) + 1
    BY <2>2, <2>3, FS_AddElement DEF HistoryInv
  <2> QED
    BY <1>1, <1>2, <1>5, <2>1, <2>2, <2>4
       DEF HistoryInv, ProbeBudget, AttemptsAreProbes, CountIsStreak
<1> QED
  BY <1>3, <1>4, <1>5 DEF HExecute, Execute, Admit

LEMMA HSucceedInv ==
    ASSUME Inv, HistoryInv, NEW c \in Calls, HSucceed(c)
    PROVE  HistoryInv'
<1> USE ConfigAssumption
<1>1. /\ phase'[c] = "succeeded"
      /\ \A d \in Calls \ {c} : phase'[d] = phase[d]
  BY DEF Inv, TypeOK, HSucceed, Succeed, EnterPhase
<1>2. /\ OnSuccess /\ streak' = 0
      /\ state' = "HALF_OPEN" => state = "HALF_OPEN" /\ UNCHANGED halfOpenAttempts
  BY DEF HSucceed, Succeed, OnSuccess, Close
<1>3. probes' = probes
  BY <1>2 DEF HSucceed, Recorded
<1>4. CountIsStreak'
  BY <1>2 DEF OnSuccess, Close, CountIsStreak
<1>5. AttemptsAreProbes'
  BY <1>1, <1>2, <1>3 DEF HistoryInv, AttemptsAreProbes
<1> QED
  BY <1>2, <1>3, <1>4, <1>5 DEF HistoryInv, ProbeBudget

LEMMA HFailInv ==
    ASSUME Inv, HistoryInv, NEW c \in Calls, HFail(c)
    PROVE  HistoryInv'
<1> USE ConfigAssumption
<1>1. /\ state' # "HALF_OPEN"
      /\ state' = "CLOSED" => state = "CLOSED"
      /\ failureCount' = failureCount + 1 /\ streak' = streak + 1
  BY DEF HFail, Fail, Trips, Open
<1>2. probes' = probes
  BY <1>1 DEF HFail, Recorded
<1> QED
  BY <1>1, <1>2 DEF Inv, TypeOK, HistoryInv, ProbeBudget, AttemptsAreProbes, CountIsStreak

LEMMA HNextInv == Inv /\ HistoryInv /\ [HNext]_hvars => Inv' /\ HistoryInv'
<1> SUFFICES ASSUME Inv, HistoryInv, [HNext]_hvars PROVE Inv' /\ HistoryInv'
  OBVIOUS
<1> USE ConfigAssumption
<1>1. Inv'
  BY HistoryOnlyWatches, NextInv
<1>2. CASE HTimerFires
  <2>1. /\ state # "HALF_OPEN" /\ state' = "HALF_OPEN" /\ halfOpenAttempts' = 0
        /\ streak' = streak /\ probes' = {}
    BY <1>2 DEF Inv, NoTimerWhileProbing, HTimerFires, TimerFires, HalfOpen, Recorded
  <2>2. IsFiniteSet(probes') /\ Cardinality(probes') = 0
    BY <2>1, FS_EmptySet
  <2> QED
    BY <1>1, <2>1, <2>2
       DEF HistoryInv, ProbeBudget, AttemptsAreProbes, CountIsStreak
<1>3. CASE HReset
  <2>1. /\ state' = "CLOSED" /\ failureCount' = 0 /\ streak' = streak /\ probes' = probes
    BY <1>3 DEF HReset, Reset, Close, Recorded
  <2> QED
    BY <1>1, <2>1 DEF HistoryInv, ProbeBudget, AttemptsAreProbes, CountIsStreak
<1>4. CASE Repair \/ UNCHANGED hvars
  <2>1. UNCHANGED <<vars, history>>
    BY <1>4 DEF Repair, hvars
  <2> QED
    BY <1>1, <2>1 DEF vars, counters, history, HistoryInv, ProbeBudget, AttemptsAreProbes,
                      CountIsStreak
<1> QED
  BY <1>1, <1>2, <1>3, <1>4, HExecuteInv, HSucceedInv, HFailInv DEF HNext

(* However late results come and whenever the administrator resets: a      *)
(* half-open period tests the service with at most HalfOpenRequests        *)
(* operations.                                                             *)
THEOREM BudgetKept == HSpec => []ProbeBudget
<1>1. HistoryInv => ProbeBudget
  BY DEF HistoryInv
<1> QED
  BY <1>1, HInitInv, HNextInv, PTL DEF HSpec

(* The breaker trips only after FailureThreshold failures with no success  *)
(* between them, and closes by itself only when every test request was let *)
(* through and none has failed.                                            *)
THEOREM ReasonsGiven == HSpec => TransitionsHaveReasons
<1> USE ConfigAssumption
<1>1. ASSUME Inv, HistoryInv, [HNext]_hvars PROVE TripsOnConsecutiveFailures
  <2>1. SUFFICES ASSUME state = "CLOSED", state' = "OPEN"
                 PROVE  streak' >= FailureThreshold
    BY DEF TripsOnConsecutiveFailures
  <2>2. PICK c \in Calls : HFail(c)
    BY <1>1, <2>1
       DEF HNext, HExecute, Execute, HSucceed, Succeed, OnSuccess, Close, HTimerFires,
           TimerFires, HalfOpen, HReset, Reset, Repair, hvars, vars
  <2> QED
    BY <1>1, <2>1, <2>2
       DEF Inv, TypeOK, HistoryInv, CountIsStreak, HFail, Fail, Trips
<1>2. ASSUME Inv, HistoryInv, [HNext]_hvars PROVE ClosesOnlyUnfailed
  <2>1. SUFFICES ASSUME state = "HALF_OPEN", state' = "CLOSED", phase' # phase
                 PROVE  /\ Cardinality(probes) = HalfOpenRequests
                        /\ \A c \in probes : phase[c] # "failed"
    BY DEF ClosesOnlyUnfailed
  <2>2. PICK c \in Calls : HSucceed(c)
    BY <1>2, <2>1
       DEF HNext, HExecute, Execute, HFail, Fail, Trips, Open, HTimerFires,
           TimerFires, HalfOpen, HReset, Reset, Repair, hvars, vars
  <2>3. halfOpenAttempts >= HalfOpenRequests
    BY <2>1, <2>2 DEF HSucceed, Succeed, OnSuccess
  <2> QED
    BY <1>2, <2>1, <2>3 DEF Inv, TypeOK, HistoryInv, AttemptsAreProbes
<1>3. Inv /\ HistoryInv /\ [HNext]_hvars
         => [TripsOnConsecutiveFailures /\ ClosesOnlyUnfailed]_hvars
  BY <1>1, <1>2
<1> QED
  BY <1>3, HInitInv, HNextInv, PTL DEF HSpec, TransitionsHaveReasons

=============================================================================
