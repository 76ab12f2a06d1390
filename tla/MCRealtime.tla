------------------------------ MODULE MCRealtime ------------------------------
EXTENDS RealtimeClient

CONSTANTS ann, bob, phone, laptop, task

(* Two devices of one user, who owns the task; Bob is known to the server  *)
(* by a socket that changes its user.                                      *)
SomeToken == [c \in Clients |-> ann]
SomeOwner == [t \in TaskIds |-> ann]

=============================================================================
