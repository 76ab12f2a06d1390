--------------------------- MODULE BreakerProtocol ---------------------------
(***************************************************************************)
(* What a circuit breaker promises to the service behind it, without its   *)
(* counters: which operations may start.  While it blocks none starts, in  *)
(* a test window at most HalfOpenRequests start, and a test window ends    *)
(* with the first failure or with a success after its last permit is used. *)
(***************************************************************************)
EXTENDS Integers

CONSTANTS Calls, HalfOpenRequests

VARIABLES
    mode,       (* CLOSED, OPEN or HALF_OPEN                               *)
    armed,      (* is the next test window scheduled?                      *)
    permits,    (* operations that may still start in this test window     *)
    started,    (* operations that have started                            *)
    succeeded,  (* operations that have ended well                         *)
    failed      (* operations that have ended with an error                *)

protocol == <<mode, armed, permits, started, succeeded, failed>>

Init ==
    /\ mode = "CLOSED"
    /\ armed = FALSE
    /\ permits = HalfOpenRequests
    /\ started = {}
    /\ succeeded = {}
    /\ failed = {}

Start(c) ==
    /\ c \notin started
    /\ started' = started \cup {c}
    /\ \/ mode = "CLOSED" /\ UNCHANGED permits
       \/ mode = "HALF_OPEN" /\ permits > 0 /\ permits' = permits - 1
    /\ UNCHANGED <<mode, armed, succeeded, failed>>

Running == started \ (succeeded \cup failed)

WindowUsedUp == mode = "HALF_OPEN" /\ permits = 0

(* A success after the last permit of a test window ends the window.       *)
Succeed(c) ==
    /\ c \in Running
    /\ succeeded' = succeeded \cup {c}
    /\ \/ /\ WindowUsedUp
          /\ mode' = "CLOSED"
          /\ permits' = HalfOpenRequests
       \/ /\ ~WindowUsedUp
          /\ UNCHANGED <<mode, permits>>
    /\ UNCHANGED <<armed, started, failed>>

(* A failure in a test window makes the breaker block, outside of one it   *)
(* may; to block is to schedule a test window.                             *)
Block ==
    /\ mode' = "OPEN"
    /\ armed' = TRUE
    /\ permits' = HalfOpenRequests

Fail(c) ==
    /\ c \in Running
    /\ failed' = failed \cup {c}
    /\ \/ mode # "OPEN" /\ Block
       \/ mode # "HALF_OPEN" /\ UNCHANGED <<mode, armed, permits>>
    /\ UNCHANGED <<started, succeeded>>

(* The scheduled test window begins.                                       *)
Probe ==
    /\ armed
    /\ mode' = "HALF_OPEN"
    /\ armed' = FALSE
    /\ permits' = HalfOpenRequests
    /\ UNCHANGED <<started, succeeded, failed>>

(* The administrator declares the service recovered; a scheduled test      *)
(* window stays scheduled.                                                 *)
Override ==
    /\ mode' = "CLOSED"
    /\ permits' = HalfOpenRequests
    /\ UNCHANGED <<armed, started, succeeded, failed>>

Next ==
    \/ \E c \in Calls : Start(c) \/ Succeed(c) \/ Fail(c)
    \/ Probe
    \/ Override

Safety == Init /\ [][Next]_protocol

Spec ==
    /\ Safety
    /\ WF_protocol(Probe)
    /\ \A c \in Calls : WF_protocol(Succeed(c) \/ Fail(c))

=============================================================================
