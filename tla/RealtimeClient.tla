---------------------------- MODULE RealtimeClient ----------------------------
(***************************************************************************)
(* The clients of src/client/realtime-client.ts and the server of Presence *)
(* over connections that end at any time.  What a client emits while it is *)
(* not connected is kept by socket.io and goes out first when it is, before*)
(* the 'connect' event in which the client authenticates.  A client that   *)
(* is lost is noticed by the server after everything it sent has arrived.  *)
(***************************************************************************)
EXTENDS Presence

CONSTANTS
    Clients, Token,         (* the user a client's token is of, or Null    *)
    MaxAttempts,            (* reconnectionAttempts, 5 in the code         *)
    MaxEvents               (* bound: what the applications and the network do *)
ASSUME ClientAssumption ==
    /\ Token \in [Clients -> Users \cup {Null}]
    /\ {MaxAttempts, MaxEvents} \subseteq Nat

VARIABLES
    state,          (* of the connection of a client                       *)
    socket,         (* the socket of a client, Null before the first       *)
    promise,        (* what connect() returned                             *)
    attempts,
    listeners,      (* how often setupEventListeners() was run             *)
    currentTaskId,
    buffer,         (* of socket.io: what waits for the connection         *)
    inbox,          (* what is under way from each socket, in order        *)
    events,         (* counts calls, updates and lost connections          *)
    turned,         (* history: the sockets that authenticated again       *)
    sent,           (* history: the updates broadcast                      *)
    heard,          (* history: handler calls for them                     *)
    welcomed        (* history: authentications of the socket object       *)

client == <<state, socket, promise, attempts, listeners, currentTaskId, buffer, inbox>>
history == <<turned, sent, heard, welcomed>>
vars == <<server, client, events, history>>

Message == ({"authenticate"} \X (Users \cup {Null}))
    \cup ({"task:join", "task:leave", "typing", "still"} \X TaskIds)
    \cup ({"presence:update"} \X {"online", "away"})

TypeOK ==
    /\ PresenceOK
    /\ state \in [Clients -> {"new", "connecting", "up", "closed", "gaveUp"}]
    /\ socket \in [Clients -> Sockets \cup {Null}]
    /\ promise \in [Clients -> {"none", "pending", "resolved", "rejected"}]
    /\ attempts \in [Clients -> 0..MaxAttempts]
    /\ listeners \in [Clients -> Nat]
    /\ currentTaskId \in [Clients -> TaskIds \cup {Null}]
    /\ \A c \in Clients : \A n \in DOMAIN buffer[c] : buffer[c][n] \in Message
    /\ \A s \in Sockets : \A n \in DOMAIN inbox[s] : inbox[s][n] \in Message
    /\ heard \in [Clients -> Nat] /\ welcomed \in [Clients -> Nat]

Init ==
    /\ InitPresence
    /\ state = [c \in Clients |-> "new"]
    /\ socket = [c \in Clients |-> Null]
    /\ promise = [c \in Clients |-> "none"]
    /\ attempts = [c \in Clients |-> 0]
    /\ listeners = [c \in Clients |-> 0]
    /\ currentTaskId = [c \in Clients |-> Null]
    /\ buffer = [c \in Clients |-> <<>>]
    /\ inbox = [s \in Sockets |-> <<>>]
    /\ events = 0 /\ turned = {} /\ sent = 0
    /\ heard = [c \in Clients |-> 0]
    /\ welcomed = [c \in Clients |-> 0]

Up(c) == state[c] = "up"

Counted == events < MaxEvents /\ events' = events + 1

-----------------------------------------------------------------------------
(* The connection.                                                         *)

(* connect() makes a new socket object, which has no listeners yet.        *)
Connect(c) ==
    /\ state[c] \in {"new", "closed"}
    /\ Counted
    /\ state' = [state EXCEPT ![c] = "connecting"]
    /\ promise' = [promise EXCEPT ![c] = "pending"]
    /\ attempts' = [attempts EXCEPT ![c] = 0]
    /\ listeners' = [listeners EXCEPT ![c] = 0]
    /\ heard' = [heard EXCEPT ![c] = 0]
    /\ welcomed' = [welcomed EXCEPT ![c] = 0]
    /\ UNCHANGED <<server, socket, currentTaskId, buffer, inbox, turned, sent>>

(* An identifier is drawn anew: one that has left no trace.                *)
FreeSockets == {s \in Sockets \ (live \cup turned) : \A u \in Users : s \notin userSockets[u]}

(* Mutation: the client authenticates unless it had to try again.          *)
FirstTryOnly(c) == IF attempts[c] > 0 THEN <<>> ELSE <<<<"authenticate", Token[c]>>>>

(* 'connect': every time, so that every reconnection authenticates.        *)
OnConnect(c) == <<<<"authenticate", Token[c]>>>>
Established(c) ==
    /\ state[c] = "connecting"
    /\ FreeSockets # {}
    /\ LET s == Min(FreeSockets)
       IN /\ socket' = [socket EXCEPT ![c] = s]
         /\ inbox' = [inbox EXCEPT ![s] = buffer[c] \o OnConnect(c)]
         /\ Connection(s)
    /\ state' = [state EXCEPT ![c] = "up"]
    /\ buffer' = [buffer EXCEPT ![c] = <<>>]
    /\ attempts' = [attempts EXCEPT ![c] = 0]
    /\ UNCHANGED <<promise, listeners, currentTaskId, outbox, events, history>>

(* 'connect_error' leaves the promise of connect() alone.                  *)
ConnectError(c) ==
    /\ state[c] = "connecting"
    /\ IF attempts[c] < MaxAttempts
       THEN attempts' = [attempts EXCEPT ![c] = @ + 1] /\ UNCHANGED state
       ELSE state' = [state EXCEPT ![c] = "gaveUp"] /\ UNCHANGED attempts
    /\ UNCHANGED <<server, socket, promise, listeners, currentTaskId, buffer, inbox, events, history>>

(* The connection ends: what was under way arrives in part, and nothing    *)
(* more reaches the client.                                                *)
Loses(c, n) ==
    /\ inbox' = [inbox EXCEPT ![socket[c]] = SubSeq(@, 1, n)]
    /\ outbox' = [outbox EXCEPT ![socket[c]] = <<>>]
    /\ socket' = [socket EXCEPT ![c] = Null]
    /\ UNCHANGED <<live, rooms, connectedUsers, userSockets, userPresence, typingUsers>>
Drop(c) ==
    /\ Up(c)
    /\ Counted
    /\ \E n \in 0..Len(inbox[socket[c]]) : Loses(c, n)
    /\ state' = [state EXCEPT ![c] = "connecting"]
    /\ UNCHANGED <<promise, attempts, listeners, currentTaskId, buffer, history>>

(* disconnect(): what was sent before it arrives.                          *)
Disconnect(c) ==
    /\ state[c] \in {"connecting", "up", "gaveUp"}
    /\ Counted
    /\ IF Up(c) THEN Loses(c, Len(inbox[socket[c]]))
       ELSE UNCHANGED <<server, socket, inbox>>
    /\ state' = [state EXCEPT ![c] = "closed"]
    /\ buffer' = [buffer EXCEPT ![c] = <<>>]
    /\ UNCHANGED <<promise, attempts, listeners, currentTaskId, history>>

-----------------------------------------------------------------------------
(* What the application calls.  Nothing is sent before connect() or after  *)
(* disconnect(), when there is no socket.                                  *)

Send(c, message) ==
    IF Up(c) THEN /\ inbox' = [inbox EXCEPT ![socket[c]] = Append(@, message)]
                  /\ UNCHANGED buffer
    ELSE /\ buffer' = [buffer EXCEPT ![c] = Append(@, message)]
         /\ UNCHANGED inbox

Call(c) ==
    /\ state[c] \in {"connecting", "up", "gaveUp"}
    /\ Counted
    /\ UNCHANGED <<server, state, socket, promise, attempts, listeners, history>>

JoinTask(c, task) ==
    /\ Call(c)
    /\ currentTaskId' = [currentTaskId EXCEPT ![c] = task]
    /\ Send(c, <<"task:join", task>>)
LeaveTask(c, task) ==
    /\ Call(c)
    /\ LET id == IF task = Null THEN currentTaskId[c] ELSE task
       IN  IF id = Null THEN UNCHANGED <<currentTaskId, buffer, inbox>>
           ELSE /\ Send(c, <<"task:leave", id>>)
                /\ currentTaskId' = IF id # currentTaskId[c] THEN currentTaskId
                                    ELSE [currentTaskId EXCEPT ![c] = Null]
SetTyping(c, task, isTyping) ==
    /\ Call(c)
    /\ Send(c, <<IF isTyping THEN "typing" ELSE "still", task>>)
    /\ UNCHANGED currentTaskId
UpdatePresence(c, status) ==
    /\ Call(c)
    /\ Send(c, <<"presence:update", status>>)
    /\ UNCHANGED currentTaskId

(* A program other than this client authenticates its socket once more.    *)
AuthenticateAgain(c, user) ==
    /\ Up(c)
    /\ Counted
    /\ turned' = turned \cup {socket[c]}
    /\ Send(c, <<"authenticate", user>>)
    /\ UNCHANGED <<server, state, socket, promise, attempts, listeners,
                   currentTaskId, sent, heard, welcomed>>

-----------------------------------------------------------------------------
(* The server takes the next message of a socket.                          *)
Handle(s) ==
    /\ s \in live /\ inbox[s] # <<>>
    /\ inbox' = [inbox EXCEPT ![s] = Tail(@)]
    /\ LET kind == Head(inbox[s])[1]
           arg == Head(inbox[s])[2]
       IN  \/ kind = "authenticate" /\ Authenticate(s, arg)
           \/ kind = "task:join" /\ HandleTaskJoin(s, arg)
           \/ kind = "task:leave" /\ HandleTaskLeave(s, arg)
           \/ kind = "typing" /\ HandleTyping(s, arg, TRUE)
           \/ kind = "still" /\ HandleTyping(s, arg, FALSE)
           \/ kind = "presence:update" /\ HandlePresenceUpdate(s, arg)
    /\ UNCHANGED <<state, socket, promise, attempts, listeners, currentTaskId,
                   buffer, events, history>>

(* The transport is closed, or the ping times out.                         *)
NoticeGone(s) ==
    /\ s \in live /\ inbox[s] = <<>>
    /\ \A c \in Clients : socket[c] # s
    /\ HandleDisconnect(s)
    /\ UNCHANGED <<client, events, history>>

(* setupEventListeners() adds to the listeners that are there.             *)
SetupEventListeners(c) == listeners[c] + 1

(* The client takes the next message: the answer settles the promise, what *)
(* else it knows it hands to the handlers, once for every listener.        *)
Receive(c) ==
    /\ Up(c) /\ outbox[socket[c]] # <<>>
    /\ LET event == Head(outbox[socket[c]])
           settled == IF event = "authenticated" THEN "resolved" ELSE "rejected"
       IN  /\ listeners' = IF event # "authenticated" THEN listeners
                           ELSE [listeners EXCEPT ![c] = SetupEventListeners(c)]
           /\ welcomed' = IF event # "authenticated" THEN welcomed
                          ELSE [welcomed EXCEPT ![c] = @ + 1]
           /\ promise' = IF event \in {"authenticated", "refused"} /\ promise[c] = "pending"
                         THEN [promise EXCEPT ![c] = settled] ELSE promise
           /\ heard' = IF event # "task:updated" THEN heard
                       ELSE [heard EXCEPT ![c] = @ + listeners[c]]
    /\ outbox' = [outbox EXCEPT ![socket[c]] = Tail(@)]
    /\ UNCHANGED <<live, rooms, connectedUsers, userSockets, userPresence, typingUsers,
                   state, socket, attempts, currentTaskId, buffer, inbox, events, turned, sent>>

Broadcast(task) ==
    /\ Counted
    /\ sent' = sent + 1
    /\ BroadcastTaskUpdate(task)
    /\ UNCHANGED <<client, turned, heard, welcomed>>

HttpRequest(endpoint, body, task) ==
    /\ Request(endpoint, body, task)
    /\ UNCHANGED <<client, events, history>>

Next ==
    \/ \E c \in Clients :
         \/ Connect(c) \/ Established(c) \/ ConnectError(c) \/ Drop(c)
         \/ Disconnect(c) \/ Receive(c)
         \/ \E t \in TaskIds : \/ JoinTask(c, t)
                               \/ \E typing \in BOOLEAN : SetTyping(c, t, typing)
         \/ \E t \in TaskIds \cup {Null} : LeaveTask(c, t)
         \/ \E status \in {"online", "away"} : UpdatePresence(c, status)
         \/ \E u \in Users : AuthenticateAgain(c, u)
    \/ \E s \in Sockets : Handle(s) \/ NoticeGone(s)
    \/ \E t \in TaskIds : Broadcast(t)
    \/ \E endpoint \in Readers \cup DOMAIN Wanted, t \in TaskIds :
         \E body \in {{}, {"event", "message", "taskId", "type", "action"}} :
            HttpRequest(endpoint, body, t)

(* The network delivers what is sent or loses the connection; an attempt   *)
(* to connect comes to an end; a connection that is gone is noticed.       *)
Fairness ==
    /\ \A c \in Clients : /\ WF_vars(Receive(c))
                          /\ WF_vars(Established(c) \/ ConnectError(c))
    /\ \A s \in Sockets : WF_vars(Handle(s)) /\ WF_vars(NoticeGone(s))

Spec == Init /\ [][Next]_vars /\ Fairness

-----------------------------------------------------------------------------
(* Properties.                                                             *)

(* A user is shown as present while, and only while, one of his sockets is *)
(* registered, however his devices connect, get lost and come back: every  *)
(* live socket that is his is registered, and what is registered beyond is *)
(* a socket that has since authenticated as somebody else, the one way in  *)
(* which handleDisconnect() leaves a user online for ever.                 *)
PresenceFollowsSockets ==
    \A u \in Users :
        LET own == {s \in live : connectedUsers[s] = u}
        IN  /\ own \subseteq userSockets[u]
            /\ userSockets[u] \ own \subseteq turned
            /\ userPresence[u].status \in {"none", "offline"} <=> userSockets[u] = {}

(* The list of who is online always finds the client listening: it is sent *)
(* after the answer that makes the client set up its listeners.            *)
PresenceListIsHeard ==
    \A c \in Clients : Up(c) /\ outbox[socket[c]] # <<>> =>
        (Head(outbox[socket[c]]) = "presence:list" => listeners[c] > 0)

(* How often a handler is called for an update: once for every time the     *)
(* client was authenticated on its socket object, for nothing takes the    *)
(* old listeners away, and twice that if it is the owner's and looks at    *)
(* the task.                                                               *)
DuplicatesExplained ==
    \A c \in Clients : turned = {} =>
        heard[c] <= sent * welcomed[c] * (IF \E t \in TaskIds : Owner[t] = Token[c] THEN 2 ELSE 1)

(* While no socket has changed its user, no more users are online than     *)
(* sockets are authenticated, and of those a user with several devices,    *)
(* some of them lost, is looking at one task at most.                      *)
StatsAgree ==
    LET stats == GetStats
        looking == {pair \in Users \X TaskIds : pair[1] \in GetUsersInTask(pair[2])}
    IN  turned = {} => /\ Cardinality(looking) <= stats.onlineUsers
                       /\ stats.onlineUsers <= stats.connectedUsers
                       /\ stats.connectedUsers <= stats.connectedSockets

(* In every state of the sockets and their handlers.                       *)
PresenceIsSound ==
    /\ TypeOK /\ PresenceFollowsSockets /\ PresenceListIsHeard /\ DuplicatesExplained
    /\ StatsAgree

(* connect() comes to an end: the promise is settled, unless socket.io has *)
(* given up or the application has closed the client.  That takes a        *)
(* network that does not lose the connection for ever.                     *)
ConnectSettles ==
    \A c \in Clients : promise[c] = "pending" ~>
        (promise[c] # "pending" \/ state[c] \in {"closed", "gaveUp"})

(* A user none of whose clients is connected any more is shown offline in  *)
(* the end, although the server learns of lost connections late and out of *)
(* order with new ones.                                                    *)
GoneMeansOffline ==
    \A u \in Users :
        <>[](\A c \in Clients : Token[c] = u => ~Up(c))
          => <>[](turned # {} \/ userPresence[u].status \in {"none", "offline"})

=============================================================================
