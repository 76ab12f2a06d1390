----------------------- MODULE CircuitBreakerHistory -----------------------
(***************************************************************************)
(* CircuitBreaker with the history that its behavioural properties speak   *)
(* of, and with a service behind it that fails until it is repaired.       *)
(***************************************************************************)
EXTENDS CircuitBreaker

VARIABLES
    streak,         (* failures since the last success of any call         *)
    probes,         (* the test requests of this half-open period          *)
    repaired        (* from now on operations succeed                      *)

history == <<streak, probes>>
hvars == <<vars, history, repaired>>

HInit ==
    /\ Init
    /\ streak = 0
    /\ probes = {}
    /\ repaired = FALSE

(* A new half-open period begins with every entry into HALF_OPEN.          *)
Recorded(members) ==
    probes' = IF state' = "HALF_OPEN" /\ state # "HALF_OPEN" THEN {} ELSE members

HExecute(c) ==
    /\ Execute(c)
    /\ Recorded(IF phase'[c] = "probing" THEN probes \cup {c} ELSE probes)
    /\ UNCHANGED <<streak, repaired>>

HSucceed(c) ==
    /\ Succeed(c)
    /\ streak' = 0
    /\ Recorded(probes)
    /\ UNCHANGED repaired

HFail(c) ==
    /\ ~repaired
    /\ Fail(c)
    /\ streak' = streak + 1
    /\ Recorded(probes)
    /\ UNCHANGED repaired

HTimerFires ==
    /\ TimerFires
    /\ Recorded(probes)
    /\ UNCHANGED <<streak, repaired>>

HReset ==
    /\ Reset
    /\ Recorded(probes)
    /\ UNCHANGED <<streak, repaired>>

Repair ==
    /\ ~repaired
    /\ repaired' = TRUE
    /\ UNCHANGED <<vars, history>>

HNext ==
    \/ \E c \in Calls : HExecute(c)
    \/ \E c \in Calls : HSucceed(c)
    \/ \E c \in Calls : HFail(c)
    \/ HTimerFires
    \/ HReset
    \/ Repair

(* As Fairness: nobody has to make a call, to reset or to repair.          *)
HFairness ==
    /\ WF_hvars(HTimerFires)
    /\ \A c \in Calls : WF_hvars(HSucceed(c) \/ HFail(c))

HSpec == HInit /\ [][HNext]_hvars /\ HFairness

-----------------------------------------------------------------------------

Fresh == {c \in Calls : phase[c] = "new"}

(* A closed breaker trips only after FailureThreshold failures with no     *)
(* success between them, whatever the order in which the calls in flight   *)
(* answer (onSuccess() resets the count, onFailure() compares it).         *)
TripsOnConsecutiveFailures ==
    state = "CLOSED" /\ state' = "OPEN" => streak' >= FailureThreshold

(* A half-open period tests the service with at most HalfOpenRequests      *)
(* operations, however late results and resets fall into it (execute()).   *)
ProbeBudget == Cardinality(probes) <= HalfOpenRequests

(* A half-open breaker closes by itself only when every test request was   *)
(* let through and none of this period has failed (onSuccess()).           *)
ClosesOnlyUnfailed ==
    state = "HALF_OPEN" /\ state' = "CLOSED" /\ phase' # phase
     => /\ Cardinality(probes) = HalfOpenRequests
        /\ \A c \in probes : phase[c] # "failed"

(* The breaker opens and closes for the reasons it is meant to.            *)
TransitionsHaveReasons ==
    [][TripsOnConsecutiveFailures /\ ClosesOnlyUnfailed]_hvars

ClientsKeepCalling == \A c \in Calls : WF_hvars(HExecute(c))

(* Self-healing: once the service is repaired, a half-open breaker with    *)
(* enough calls to come, which are made, is closed again (onSuccess(),     *)
(* close()).                                                               *)
RepairedBreakerCloses ==
    ClientsKeepCalling =>
        ((/\ repaired
          /\ state = "HALF_OPEN"
          /\ Cardinality(Fresh) >= HalfOpenRequests) ~> state = "CLOSED")

(* Nothing that rejects every call does so for ever: an open breaker and a *)
(* saturated one move on by themselves, and with a repaired service behind *)
(* it the breaker closes.                                                  *)
SelfHealing == OpenIsTemporary /\ SaturationIsTemporary /\ RepairedBreakerCloses

=============================================================================
