------------------------------- MODULE Presence -------------------------------
(***************************************************************************)
(* Who is online, looking at a task or typing: WebSocketService of         *)
(* src/services/websocket.service.ts, and the endpoints that               *)
(* src/controllers/realtime.controller.ts puts before it.  A handler of a  *)
(* message is one step.  Of what the service sends, this module keeps what *)
(* the client of RealtimeClient waits for; the broadcasts of a presence,   *)
(* of somebody who joins, leaves or types change no state and are left out.*)
(***************************************************************************)
EXTENDS Naturals, Sequences, FiniteSetsExt

CONSTANTS Users, Sockets, TaskIds, Null,
          Owner     (* the owner of each task                              *)
ASSUME PresenceAssumption ==
    /\ Null \notin Users /\ Owner \in [TaskIds -> Users]
    /\ Sockets \subseteq Nat /\ Null \notin Sockets

VARIABLES
    live,           (* io.sockets: the connections that the server has     *)
    rooms,          (* of socket.io: the sockets in each room              *)
    connectedUsers, (* the user of a socket, Null for none                 *)
    userSockets,    (* the sockets of a user; {} stands for no entry       *)
    userPresence,   (* the entry of a user, status "none" for none         *)
    typingUsers,    (* the users typing in a task                          *)
    outbox          (* what is under way to each socket, in order          *)

server == <<live, rooms, connectedUsers, userSockets, userPresence, typingUsers, outbox>>

Rooms == {<<"task", t>> : t \in TaskIds} \cup {<<"user", u>> : u \in Users}
Event == {"authenticated", "refused", "presence:list", "task:updated"}
UserPresence == [status : {"none", "online", "away", "offline"},
                 currentTask : TaskIds \cup {Null}]

PresenceOK ==
    /\ live \subseteq Sockets
    /\ rooms \in [Rooms -> SUBSET Sockets]
    /\ connectedUsers \in [Sockets -> Users \cup {Null}]
    /\ userSockets \in [Users -> SUBSET Sockets]
    /\ userPresence \in [Users -> UserPresence]
    /\ typingUsers \in [TaskIds -> SUBSET Users]
    /\ \A s \in Sockets : \A n \in DOMAIN outbox[s] : outbox[s][n] \in Event

InitPresence ==
    /\ live = {}
    /\ rooms = [r \in Rooms |-> {}]
    /\ connectedUsers = [s \in Sockets |-> Null]
    /\ userSockets = [u \in Users |-> {}]
    /\ userPresence = [u \in Users |-> [status |-> "none", currentTask |-> Null]]
    /\ typingUsers = [t \in TaskIds |-> {}]
    /\ outbox = [s \in Sockets |-> <<>>]

(* io.to(room).emit(): whoever is in it, once.                             *)
Emit(box, to, events) == [s \in Sockets |-> IF s \in to THEN box[s] \o events ELSE box[s]]

-----------------------------------------------------------------------------
(* Helpers.                                                                *)

(* The entry is made anew; the task of the old one is carried over.        *)
UpdateUserPresence(user, status) ==
    userPresence' = [userPresence EXCEPT ![user].status = status]

StopTyping(user, task) ==
    typingUsers' = [typingUsers EXCEPT ![task] = @ \ {user}]

SetCurrentTask(user, task) ==
    userPresence' = IF userPresence[user].status = "none" THEN userPresence
                    ELSE [userPresence EXCEPT ![user].currentTask = task]

-----------------------------------------------------------------------------
(* The handlers of setupEventHandlers().                                   *)

Connection(s) ==
    /\ live' = live \cup {s}
    /\ UNCHANGED <<rooms, connectedUsers, userSockets, userPresence, typingUsers>>

Welcome == <<"authenticated", "presence:list">>

(* A second authentication replaces the user of the socket, but leaves the *)
(* socket with the first user and in his room.                             *)
Authenticate(s, user) ==
    /\ IF user = Null
       THEN /\ outbox' = Emit(outbox, {s}, <<"refused">>)
            /\ UNCHANGED <<rooms, connectedUsers, userSockets, userPresence>>
       ELSE /\ connectedUsers' = [connectedUsers EXCEPT ![s] = user]
            /\ rooms' = [rooms EXCEPT ![<<"user", user>>] = @ \cup {s}]
            /\ userSockets' = [userSockets EXCEPT ![user] = @ \cup {s}]
            /\ UpdateUserPresence(user, "online")
            /\ outbox' = Emit(outbox, {s}, Welcome)
    /\ UNCHANGED <<live, typingUsers>>

HandleTaskJoin(s, task) ==
    /\ rooms' = [rooms EXCEPT ![<<"task", task>>] = @ \cup {s}]
    /\ IF connectedUsers[s] = Null THEN UNCHANGED userPresence
       ELSE SetCurrentTask(connectedUsers[s], task)
    /\ UNCHANGED <<live, connectedUsers, userSockets, typingUsers, outbox>>

(* The task of the user is cleared, whichever task and socket he leaves.   *)
HandleTaskLeave(s, task) ==
    /\ rooms' = [rooms EXCEPT ![<<"task", task>>] = @ \ {s}]
    /\ IF connectedUsers[s] = Null THEN UNCHANGED <<userPresence, typingUsers>>
       ELSE /\ SetCurrentTask(connectedUsers[s], Null)
            /\ StopTyping(connectedUsers[s], task)
    /\ UNCHANGED <<live, connectedUsers, userSockets, outbox>>

HandleTyping(s, task, isTyping) ==
    /\ IF connectedUsers[s] = Null THEN UNCHANGED typingUsers
       ELSE IF isTyping
       THEN typingUsers' = [typingUsers EXCEPT ![task] = @ \cup {connectedUsers[s]}]
       ELSE StopTyping(connectedUsers[s], task)
    /\ UNCHANGED <<live, rooms, connectedUsers, userSockets, userPresence, outbox>>

HandlePresenceUpdate(s, status) ==
    /\ IF connectedUsers[s] = Null THEN UNCHANGED userPresence
       ELSE UpdateUserPresence(connectedUsers[s], status)
    /\ UNCHANGED <<live, rooms, connectedUsers, userSockets, typingUsers, outbox>>

(* Mutations: any connection that ends takes the user offline; the sockets *)
(* are counted before this one is taken out.                               *)
OfflineAtOnce(s, user) == TRUE
CountedBefore(s, user) == userSockets[user] = {}

IsLastSocket(s, user) == userSockets[user] \ {s} = {}

(* socket.io takes the socket out of its rooms; the typing goes on.        *)
HandleDisconnect(s) ==
    LET user == connectedUsers[s]
    IN  /\ live' = live \ {s}
        /\ rooms' = [r \in Rooms |-> rooms[r] \ {s}]
        /\ outbox' = [outbox EXCEPT ![s] = <<>>]
        /\ connectedUsers' = [connectedUsers EXCEPT ![s] = Null]
        /\ IF user = Null THEN UNCHANGED <<userSockets, userPresence>>
           ELSE /\ userSockets' = [userSockets EXCEPT ![user] = @ \ {s}]
                /\ IF IsLastSocket(s, user) THEN UpdateUserPresence(user, "offline")
                   ELSE UNCHANGED userPresence
        /\ UNCHANGED typingUsers

-----------------------------------------------------------------------------
(* What the service answers and sends.                                     *)

GetOnlineUsers == {u \in Users : userPresence[u].status = "online"}
GetUsersInTask(task) == {u \in GetOnlineUsers : userPresence[u].currentTask = task}
GetStats ==
    [connectedSockets |-> Cardinality(live),
     onlineUsers |-> Cardinality(GetOnlineUsers),
     totalUsers |-> Cardinality({u \in Users : userPresence[u].status # "none"}),
     connectedUsers |-> Cardinality({s \in Sockets : connectedUsers[s] # Null})]

(* To the room of the task, then to that of its owner: a socket that is in *)
(* both is told twice.                                                     *)
ToRooms(task) ==
    Emit(Emit(outbox, rooms[<<"task", task>>], <<"task:updated">>),
         rooms[<<"user", Owner[task]>>], <<"task:updated">>)
BroadcastTaskUpdate(task) ==
    /\ outbox' = ToRooms(task)
    /\ UNCHANGED <<live, rooms, connectedUsers, userSockets, userPresence, typingUsers>>

(* The endpoints.  What some of them must find in the body is missed before *)
(* the service is, which nothing passes to setWebSocketService().          *)
WsService == Null
Readers == {"getStats", "getOnlineUsers", "getTaskUsers", "getUserStatus", "getHealth"}
Wanted == [broadcastMessage |-> {"event"}, notifyUser |-> {"event", "message"},
           broadcastTaskUpdate |-> {"taskId", "action"}, broadcastActivity |-> {"type", "action"}]
EndpointError(endpoint, body) ==
    IF endpoint \notin Readers /\ ~(Wanted[endpoint] \subseteq body) THEN 400
    ELSE IF WsService = Null THEN 503 ELSE 0
Request(endpoint, body, task) ==
    IF endpoint = "broadcastTaskUpdate" /\ EndpointError(endpoint, body) = 0
    THEN BroadcastTaskUpdate(task)
    ELSE UNCHANGED server

=============================================================================
