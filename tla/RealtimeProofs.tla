---------------------------- MODULE RealtimeProofs ----------------------------
(***************************************************************************)
(* For any users, clients and sockets, any tasks and any number of calls,  *)
(* updates and lost connections: who is shown as present, what clients     *)
(* hear, and what the statistics say follows from the sockets.             *)
(***************************************************************************)
EXTENDS RealtimeClient, SubsequencesProofs, SequenceTheorems

-----------------------------------------------------------------------------
(* Queues.                                                                 *)

LEMMA TailOfQueue ==
    ASSUME NEW A, NEW q \in Seq(A), q # <<>>
    PROVE  /\ Tail(q) \in Seq(A) /\ Len(Tail(q)) = Len(q) - 1 /\ Len(q) \in Nat \ {0}
           /\ \A i \in 1 .. Len(Tail(q)) : Tail(q)[i] = q[i + 1]
           /\ Head(q) = q[1] /\ Head(q) \in A
  BY HeadTailProperties

LEMMA QueueExtended ==
    ASSUME NEW A, NEW q \in Seq(A), NEW r \in Seq(A)
    PROVE  /\ q \o r \in Seq(A) /\ Len(q \o r) = Len(q) + Len(r)
           /\ Len(q) \in Nat /\ Len(r) \in Nat
           /\ \A i \in 1 .. Len(q) : (q \o r)[i] = q[i]
           /\ \A i \in 1 .. Len(r) : (q \o r)[Len(q) + i] = r[i]
  BY ConcatProperties

LEMMA OneMoreMessage ==
    ASSUME NEW q \in Seq(Message), NEW m \in Message
    PROVE  LET r == q \o <<m>>
           IN  /\ r \in Seq(Message) /\ Len(r) = Len(q) + 1 /\ Len(q) \in Nat
               /\ \A i \in 1 .. Len(q) : r[i] = q[i]
               /\ r[Len(q) + 1] = m
  OBVIOUS

(* The updates of tasks that wait in a queue.                              *)
UpdatesAt(q) == {i \in 1 .. Len(q) : q[i] = "task:updated"}
Updates(q) == Cardinality(UpdatesAt(q))

LEMMA UpdatesAreCounted ==
    ASSUME NEW q \in Seq(Event)
    PROVE  IsFiniteSet(UpdatesAt(q)) /\ Updates(q) \in Nat
<1>1. UpdatesAt(q) \in SUBSET (1 .. Len(q)) /\ IsFiniteSet(1 .. Len(q))
  BY FS_Interval DEF UpdatesAt
<1> QED
  BY <1>1, FS_Subset, FS_CardinalityType DEF Updates

LEMMA UpdateAppended ==
    ASSUME NEW q \in Seq(Event)
    PROVE  Updates(q \o <<"task:updated">>) = Updates(q) + 1
<1> DEFINE r == q \o <<"task:updated">>
<1>1. <<"task:updated">> \in Seq(Event) /\ Len(<<"task:updated">>) = 1
  BY DEF Event
<1>2. /\ Len(r) = Len(q) + 1 /\ Len(q) \in Nat
      /\ \A i \in 1 .. Len(q) : r[i] = q[i]
      /\ r[Len(q) + 1] = "task:updated"
  BY <1>1, QueueExtended
<1> HIDE DEF r
<1>3. UpdatesAt(r) = UpdatesAt(q) \cup {Len(q) + 1} /\ Len(q) + 1 \notin UpdatesAt(q)
  BY <1>2 DEF UpdatesAt
<1> QED
  BY <1>3, UpdatesAreCounted, FS_AddElement DEF Updates, r

LEMMA OthersAppended ==
    ASSUME NEW q \in Seq(Event), NEW r \in Seq(Event),
           \A i \in 1 .. Len(r) : r[i] # "task:updated"
    PROVE  Updates(q \o r) = Updates(q)
<1>1. /\ Len(q \o r) = Len(q) + Len(r) /\ Len(q) \in Nat /\ Len(r) \in Nat
      /\ \A i \in 1 .. Len(q) : (q \o r)[i] = q[i]
      /\ \A i \in 1 .. Len(r) : (q \o r)[Len(q) + i] = r[i]
  BY QueueExtended
<1>2. ASSUME NEW i \in 1 .. Len(q \o r), i \notin 1 .. Len(q)
      PROVE  (q \o r)[i] # "task:updated"
  <2>1. i - Len(q) \in 1 .. Len(r) /\ i = Len(q) + (i - Len(q))
    BY <1>1, <1>2
  <2> QED
    BY <1>1, <2>1
<1>3. UpdatesAt(q \o r) = UpdatesAt(q)
  BY <1>1, <1>2 DEF UpdatesAt
<1> QED
  BY <1>3 DEF Updates

LEMMA UpdateTaken ==
    ASSUME NEW q \in Seq(Event), q # <<>>
    PROVE  Updates(q) = Updates(Tail(q)) + (IF Head(q) = "task:updated" THEN 1 ELSE 0)
<1> DEFINE f == [i \in UpdatesAt(Tail(q)) |-> i + 1]
           T == UpdatesAt(q) \ {1}
<1>1. /\ Tail(q) \in Seq(Event) /\ Len(Tail(q)) = Len(q) - 1 /\ Len(q) \in Nat \ {0}
      /\ \A i \in 1 .. Len(Tail(q)) : Tail(q)[i] = q[i + 1]
      /\ Head(q) = q[1]
  BY TailOfQueue
<1>2. f \in Bijection(UpdatesAt(Tail(q)), T)
  <2>1. \A i \in UpdatesAt(Tail(q)) : f[i] = i + 1 /\ i + 1 \in T /\ i \in Nat
    BY <1>1 DEF UpdatesAt
  <2>2. ASSUME NEW k \in T PROVE k - 1 \in UpdatesAt(Tail(q)) /\ f[k - 1] = k
    <3>1. k \in 2 .. Len(q) /\ q[k] = "task:updated"
      BY <1>1 DEF UpdatesAt
    <3>2. k - 1 \in 1 .. Len(Tail(q)) /\ q[(k - 1) + 1] = "task:updated"
      BY <1>1, <3>1
    <3> QED
      BY <1>1, <3>1, <3>2 DEF UpdatesAt
  <2>3. f \in [UpdatesAt(Tail(q)) -> T]
    BY <2>1
  <2>4. \A i, j \in UpdatesAt(Tail(q)) : f[i] = f[j] => i = j
    BY <2>1
  <2> QED
    BY <2>2, <2>3, <2>4 DEF Bijection, Injection, IsInjective, Surjection
<1>3. Cardinality(T) = Updates(Tail(q))
  BY <1>1, <1>2, UpdatesAreCounted, FS_Bijection DEF ExistsBijection, Updates
<1>4. 1 \in UpdatesAt(q) <=> Head(q) = "task:updated"
  BY <1>1 DEF UpdatesAt
<1>5. Cardinality(T) = IF 1 \in UpdatesAt(q) THEN Updates(q) - 1 ELSE Updates(q)
  BY UpdatesAreCounted, FS_RemoveElement DEF Updates
<1>6. Updates(q) \in Nat /\ Updates(Tail(q)) \in Nat
  BY <1>1, UpdatesAreCounted
<1> QED
  BY <1>3, <1>4, <1>5, <1>6

LEMMA MessageSays ==
    ASSUME NEW m \in Message
    PROVE  /\ m = <<m[1], m[2]>>
           /\ m[1] = "authenticate" => m[2] \in Users \cup {Null}
           /\ m[1] \in {"task:join", "task:leave", "typing", "still"} => m[2] \in TaskIds
           /\ m[1] = "presence:update" => m[2] \in {"online", "away"}
  BY DEF Message

-----------------------------------------------------------------------------
(* The invariant.                                                          *)

ServerTyped ==
    /\ live \in SUBSET Sockets /\ IsFiniteSet(live)
    /\ rooms \in [Rooms -> SUBSET Sockets]
    /\ connectedUsers \in [Sockets -> Users \cup {Null}]
    /\ userSockets \in [Users -> SUBSET Sockets]
    /\ userPresence \in [Users -> UserPresence]
    /\ typingUsers \in [TaskIds -> SUBSET Users]
    /\ outbox \in [Sockets -> Seq(Event)]

ClientTyped ==
    /\ state \in [Clients -> {"new", "connecting", "up", "closed", "gaveUp"}]
    /\ socket \in [Clients -> Sockets \cup {Null}]
    /\ promise \in [Clients -> {"none", "pending", "resolved", "rejected"}]
    /\ attempts \in [Clients -> 0..MaxAttempts]
    /\ listeners \in [Clients -> Nat]
    /\ currentTaskId \in [Clients -> TaskIds \cup {Null}]
    /\ buffer \in [Clients -> Seq(Message)]
    /\ inbox \in [Sockets -> Seq(Message)]
    /\ turned \in SUBSET Sockets /\ sent \in Nat
    /\ heard \in [Clients -> Nat] /\ welcomed \in [Clients -> Nat]

(* Whoever is connected has a live socket of his own.                      *)
Linked ==
    /\ \A c \in Clients : /\ Up(c) <=> socket[c] # Null
                          /\ Up(c) => socket[c] \in live
    /\ \A c, d \in Clients : Up(c) /\ socket[c] = socket[d] => c = d

(* The server knows nothing of a socket that is not live.                  *)
Forgotten ==
    /\ \A s \in Sockets \ live : connectedUsers[s] = Null /\ outbox[s] = <<>>
    /\ \A r \in Rooms : rooms[r] \subseteq live

(* A socket authenticates once, unless it is one of those that turned.     *)
Authenticates(message) == message[1] = "authenticate"
AuthenticatesOnce ==
    /\ \A c \in Clients : \A i \in 1 .. Len(buffer[c]) : ~ Authenticates(buffer[c][i])
    /\ \A s \in live \ turned : \A i \in 1 .. Len(inbox[s]) : Authenticates(inbox[s][i]) =>
          /\ connectedUsers[s] = Null
          /\ \A j \in 1 .. Len(inbox[s]) : Authenticates(inbox[s][j]) => j = i

(* and as the user of the token of its client.                             *)
KnownByToken ==
    \A c \in Clients : Up(c) /\ socket[c] \notin turned =>
        /\ connectedUsers[socket[c]] \in {Null, Token[c]}
        /\ \A i \in 1 .. Len(inbox[socket[c]]) :
              Authenticates(inbox[socket[c]][i]) => inbox[socket[c]][i][2] = Token[c]

UserRooms ==
    \A u \in Users : \A s \in rooms[<<"user", u>>] : s \in turned \/ connectedUsers[s] = u

(* A client without listeners finds the answer before the list.            *)
AnswerBefore(q) ==
    \A i \in 1 .. Len(q) : q[i] = "presence:list" =>
        \E j \in 1 .. i - 1 : q[j] = "authenticated"
AnswerComesFirst ==
    \A c \in Clients : Up(c) /\ listeners[c] = 0 => AnswerBefore(outbox[socket[c]])

(* Of the updates sent to a client, those that wait are not heard yet, and *)
(* each of the others was heard by the listeners that were there.          *)
Owns(c) == \E t \in TaskIds : Owner[t] = Token[c]
Copies(c) == IF Owns(c) THEN sent + sent ELSE sent
Waiting(c) == IF Up(c) THEN Updates(outbox[socket[c]]) ELSE 0
HeardIsBounded ==
    /\ welcomed = listeners
    /\ turned = {} => \A c \in Clients :
          /\ Waiting(c) <= Copies(c)
          /\ heard[c] <= welcomed[c] * (Copies(c) - Waiting(c))

Inv ==
    /\ ServerTyped /\ ClientTyped /\ Linked /\ Forgotten /\ AuthenticatesOnce /\ KnownByToken
    /\ UserRooms /\ PresenceFollowsSockets /\ AnswerComesFirst /\ HeardIsBounded

LEMMA WaitingIsNat ==
    ASSUME ServerTyped, ClientTyped, Linked, NEW c \in Clients
    PROVE  Waiting(c) \in Nat /\ Copies(c) \in Nat
<1>1. Up(c) => socket[c] \in Sockets
  BY DEF Linked, ServerTyped
<1>2. Up(c) => Updates(outbox[socket[c]]) \in Nat
  BY <1>1, UpdatesAreCounted DEF ServerTyped
<1>3. Waiting(c) \in Nat
  BY <1>2 DEF Waiting
<1> QED
  BY <1>3 DEF Copies, ClientTyped

LEMMA NothingWaits == Updates(<<>>) = 0
<1>1. UpdatesAt(<<>>) = {}
  BY DEF UpdatesAt
<1> QED
  BY <1>1, FS_EmptySet DEF Updates

-----------------------------------------------------------------------------
(* Connections.                                                            *)

LEMMA ConnectKeeps ==
    ASSUME Inv, NEW c \in Clients, Connect(c)
    PROVE  Inv'
<1>1. ServerTyped' /\ ClientTyped'
  BY ClientAssumption DEF Inv, Connect, server, ServerTyped, ClientTyped
<1>2. /\ ~ Up(c) /\ ~ Up(c)'
      /\ \A d \in Clients : Up(d)' <=> Up(d)
  BY DEF Inv, Connect, Up, ClientTyped
<1>3. Linked'
  BY <1>2 DEF Inv, Connect, server, Linked
<1>4. Forgotten' /\ AuthenticatesOnce' /\ UserRooms' /\ PresenceFollowsSockets'
  BY DEF Inv, Connect, server, Forgotten, AuthenticatesOnce, UserRooms, PresenceFollowsSockets
<1>5. KnownByToken'
  BY <1>2 DEF Inv, Connect, server, KnownByToken
<1>6. \A d \in Clients : d # c => listeners'[d] = listeners[d]
  BY DEF Connect, Inv, ClientTyped
<1>7. AnswerComesFirst'
  BY <1>2, <1>6 DEF Inv, Connect, server, AnswerComesFirst
<1>8. HeardIsBounded'
  <2>1. welcomed' = listeners'
    BY DEF Inv, Connect, HeardIsBounded
  <2>2. ASSUME turned' = {}, NEW d \in Clients
        PROVE  /\ Waiting(d)' <= Copies(d)'
               /\ heard'[d] <= welcomed'[d] * (Copies(d)' - Waiting(d)')
    <3>1. Waiting(d)' = Waiting(d) /\ Copies(d)' = Copies(d)
      BY <1>2 DEF Connect, server, Waiting, Copies
    <3>2. Waiting(d) <= Copies(d) /\ heard[d] <= welcomed[d] * (Copies(d) - Waiting(d))
      BY <2>2 DEF Inv, Connect, HeardIsBounded
    <3>3. CASE d = c
      <4>1. heard'[d] = 0 /\ welcomed'[d] = 0
        BY <3>3 DEF Connect, Inv, ClientTyped
      <4>2. Waiting(d) \in Nat /\ Copies(d) \in Nat
        BY WaitingIsNat DEF Inv
      <4> QED
        BY <3>1, <3>2, <4>1, <4>2
    <3>4. CASE d # c
      <4>1. heard'[d] = heard[d] /\ welcomed'[d] = welcomed[d]
        BY <3>4 DEF Connect, Inv, ClientTyped
      <4> QED
        BY <3>1, <3>2, <4>1
    <3> QED
      BY <3>3, <3>4
  <2> QED
    BY <2>1, <2>2 DEF HeardIsBounded
<1> QED
  BY <1>1, <1>3, <1>4, <1>5, <1>7, <1>8 DEF Inv

LEMMA EstablishedKeeps ==
    ASSUME Inv, NEW c \in Clients, Established(c)
    PROVE  Inv'
<1> DEFINE s == Min(FreeSockets)
           hello == OnConnect(c)
<1>1. s \in FreeSockets
  <2>1. FreeSockets \in SUBSET Nat /\ FreeSockets # {}
    BY PresenceAssumption DEF FreeSockets, Established
  <2>2. PICK m \in FreeSockets : \A n \in FreeSockets : m <= n
    BY <2>1, LeastMember
  <2> QED
    BY <2>2 DEF Min
<1>2. /\ s \in Sockets /\ s \notin live /\ s \notin turned /\ s # Null
      /\ connectedUsers[s] = Null /\ outbox[s] = <<>>
  BY <1>1, PresenceAssumption DEF FreeSockets, Inv, Forgotten
<1>3. /\ socket' = [socket EXCEPT ![c] = s]
      /\ inbox' = [inbox EXCEPT ![s] = buffer[c] \o hello]
      /\ live' = live \cup {s} /\ state' = [state EXCEPT ![c] = "up"]
      /\ buffer' = [buffer EXCEPT ![c] = <<>>] /\ attempts' = [attempts EXCEPT ![c] = 0]
      /\ UNCHANGED <<rooms, connectedUsers, userSockets, userPresence, typingUsers, outbox>>
      /\ UNCHANGED <<promise, listeners, currentTaskId, turned, sent, heard, welcomed>>
  BY DEF Established, Connection, history
<1>4. /\ hello = <<<<"authenticate", Token[c]>>>> /\ <<"authenticate", Token[c]>> \in Message
      /\ hello[1] = <<"authenticate", Token[c]>>
  BY ClientAssumption DEF OnConnect, Message
<1> HIDE DEF s, hello
<1>5. /\ buffer[c] \o hello \in Seq(Message)
      /\ Len(buffer[c] \o hello) = Len(buffer[c]) + 1 /\ Len(buffer[c]) \in Nat
      /\ \A i \in 1 .. Len(buffer[c]) : ~ Authenticates((buffer[c] \o hello)[i])
      /\ (buffer[c] \o hello)[Len(buffer[c]) + 1] = <<"authenticate", Token[c]>>
  <2>1. buffer[c] \in Seq(Message) /\ \A i \in 1 .. Len(buffer[c]) : ~ Authenticates(buffer[c][i])
    BY DEF Inv, ClientTyped, AuthenticatesOnce
  <2> HIDE DEF Authenticates
  <2>2. /\ buffer[c] \o hello \in Seq(Message)
        /\ Len(buffer[c] \o hello) = Len(buffer[c]) + 1 /\ Len(buffer[c]) \in Nat
        /\ \A i \in 1 .. Len(buffer[c]) : (buffer[c] \o hello)[i] = buffer[c][i]
        /\ (buffer[c] \o hello)[Len(buffer[c]) + 1] = hello[1]
    BY <1>4, <2>1, OneMoreMessage
  <2> QED
    BY <1>4, <2>1, <2>2
<1>6. ServerTyped' /\ ClientTyped'
  <2>1. ServerTyped'
    <3>1. live \in SUBSET Sockets /\ IsFiniteSet(live)
      BY DEF Inv, ServerTyped
    <3>2. live' \in SUBSET Sockets /\ IsFiniteSet(live')
      BY <1>2, <1>3, <3>1, FS_AddElement
    <3> QED
      BY <1>3, <3>2 DEF Inv, ServerTyped
  <2>2. attempts' \in [Clients -> 0 .. MaxAttempts]
    <3>1. MaxAttempts \in Nat /\ attempts \in [Clients -> 0 .. MaxAttempts]
      BY ClientAssumption DEF Inv, ClientTyped
    <3> QED
      BY <1>3, <3>1
  <2>3. buffer' \in [Clients -> Seq(Message)] /\ inbox' \in [Sockets -> Seq(Message)]
    <3>1. /\ buffer \in [Clients -> Seq(Message)] /\ inbox \in [Sockets -> Seq(Message)]
          /\ <<>> \in Seq(Message)
      BY DEF Inv, ClientTyped
    <3> QED
      BY <1>3, <1>5, <3>1
  <2>4. /\ state' \in [Clients -> {"new", "connecting", "up", "closed", "gaveUp"}]
        /\ socket' \in [Clients -> Sockets \cup {Null}]
    BY <1>2, <1>3 DEF Inv, ClientTyped
  <2> QED
    BY <1>3, <2>1, <2>2, <2>3, <2>4 DEF Inv, ClientTyped
<1>7. /\ ~ Up(c) /\ Up(c)' /\ socket'[c] = s /\ inbox'[s] = buffer[c] \o hello
      /\ \A d \in Clients \ {c} : (Up(d)' <=> Up(d)) /\ socket'[d] = socket[d]
      /\ \A d \in Clients \ {c} : Up(d) => socket[d] # s
      /\ \A r \in Sockets \ {s} : inbox'[r] = inbox[r]
  <2>1. state[c] = "connecting" /\ state \in [Clients -> {"new", "connecting", "up", "closed", "gaveUp"}]
    BY DEF Inv, ClientTyped, Established
  <2>2. socket \in [Clients -> Sockets \cup {Null}] /\ inbox \in [Sockets -> Seq(Message)]
    BY DEF Inv, ClientTyped
  <2>3. ~ Up(c) /\ Up(c)' /\ \A d \in Clients \ {c} : Up(d)' <=> Up(d)
    BY <1>3, <2>1 DEF Up
  <2>4. \A d \in Clients : Up(d) => socket[d] \in live
    BY DEF Inv, Linked
  <2> QED
    BY <1>2, <1>3, <2>2, <2>3, <2>4
<1>8. Linked'
  BY <1>2, <1>3, <1>7 DEF Inv, Linked
<1>9. Forgotten' /\ UserRooms'
  BY <1>3 DEF Inv, Forgotten, UserRooms
<1>10. PresenceFollowsSockets'
  BY <1>2, <1>3, PresenceAssumption DEF Inv, PresenceFollowsSockets
<1>11. AuthenticatesOnce'
  <2>1. \A d \in Clients : \A i \in 1 .. Len(buffer'[d]) : ~ Authenticates(buffer'[d][i])
    BY <1>3 DEF Inv, ClientTyped, AuthenticatesOnce
  <2>2. \A r \in live' \ turned' : \A i \in 1 .. Len(inbox'[r]) : Authenticates(inbox'[r][i]) =>
           /\ connectedUsers'[r] = Null
           /\ \A j \in 1 .. Len(inbox'[r]) : Authenticates(inbox'[r][j]) => j = i
    <3> SUFFICES ASSUME NEW r \in live' \ turned', NEW i \in 1 .. Len(inbox'[r]),
                        Authenticates(inbox'[r][i])
                 PROVE  /\ connectedUsers'[r] = Null
                        /\ \A j \in 1 .. Len(inbox'[r]) : Authenticates(inbox'[r][j]) => j = i
      OBVIOUS
    <3>1. CASE r = s
      BY <1>2, <1>3, <1>5, <1>7, <3>1
    <3>2. CASE r # s
      BY <1>3, <1>7, <3>2 DEF Inv, ServerTyped, AuthenticatesOnce
    <3> QED
      BY <3>1, <3>2
  <2> QED
    BY <2>1, <2>2 DEF AuthenticatesOnce
<1>12. KnownByToken'
  <2> SUFFICES ASSUME NEW d \in Clients, Up(d)', socket'[d] \notin turned'
               PROVE  /\ connectedUsers'[socket'[d]] \in {Null, Token[d]}
                      /\ \A i \in 1 .. Len(inbox'[socket'[d]]) :
                            Authenticates(inbox'[socket'[d]][i])
                              => inbox'[socket'[d]][i][2] = Token[d]
    BY DEF KnownByToken
  <2>1. CASE d = c
    BY <1>2, <1>3, <1>5, <1>7, <2>1
  <2>2. CASE d # c
    <3>1. Up(d) /\ socket'[d] = socket[d] /\ inbox'[socket[d]] = inbox[socket[d]]
      BY <1>7, <2>2 DEF Inv, ServerTyped, Linked
    <3>2. socket[d] \notin turned /\ connectedUsers'[socket[d]] = connectedUsers[socket[d]]
      BY <1>3, <3>1
    <3>3. /\ connectedUsers[socket[d]] \in {Null, Token[d]}
          /\ \A i \in 1 .. Len(inbox[socket[d]]) :
                Authenticates(inbox[socket[d]][i]) => inbox[socket[d]][i][2] = Token[d]
      BY <3>1, <3>2 DEF Inv, KnownByToken
    <3> QED
      BY <3>1, <3>2, <3>3
  <2> QED
    BY <2>1, <2>2
<1>13. AnswerComesFirst'
  <2>1. AnswerBefore(<<>>)
    BY DEF AnswerBefore
  <2> QED
    BY <1>2, <1>3, <1>7, <2>1 DEF Inv, AnswerComesFirst
<1>14. HeardIsBounded'
  <2>1. Waiting(c)' = 0 /\ Waiting(c) = 0
    BY <1>2, <1>3, <1>7, NothingWaits DEF Waiting
  <2>2. \A d \in Clients \ {c} : Waiting(d)' = Waiting(d)
    BY <1>3, <1>7 DEF Waiting
  <2>3. \A d \in Clients : Copies(d)' = Copies(d)
    BY <1>3 DEF Copies
  <2> QED
    BY <1>3, <2>1, <2>2, <2>3 DEF Inv, HeardIsBounded
<1> QED
  BY <1>6, <1>8, <1>9, <1>10, <1>11, <1>12, <1>13, <1>14 DEF Inv

LEMMA ConnectErrorKeeps ==
    ASSUME Inv, NEW c \in Clients, ConnectError(c)
    PROVE  Inv'
<1>1. /\ ~ Up(c) /\ \A d \in Clients : Up(d)' <=> Up(d)
  BY DEF Inv, ConnectError, Up, ClientTyped
<1>2. ServerTyped' /\ ClientTyped'
  <2>1. attempts' \in [Clients -> 0 .. MaxAttempts]
    <3>1. MaxAttempts \in Nat /\ attempts \in [Clients -> 0 .. MaxAttempts]
      BY ClientAssumption DEF Inv, ClientTyped
    <3>2. CASE attempts[c] < MaxAttempts
      <4>1. attempts' = [attempts EXCEPT ![c] = attempts[c] + 1] /\ attempts[c] + 1 \in 0 .. MaxAttempts
        BY <3>1, <3>2 DEF ConnectError
      <4> QED
        BY <3>1, <4>1
    <3>3. CASE ~ (attempts[c] < MaxAttempts)
      BY <3>1, <3>3 DEF ConnectError
    <3> QED
      BY <3>2, <3>3
  <2>2. state' \in [Clients -> {"new", "connecting", "up", "closed", "gaveUp"}]
    BY DEF Inv, ConnectError, ClientTyped
  <2> QED
    BY <2>1, <2>2 DEF Inv, ConnectError, server, history, ServerTyped, ClientTyped
<1>3. Linked' /\ KnownByToken' /\ AnswerComesFirst'
  BY <1>1 DEF Inv, ConnectError, server, history, Linked, KnownByToken, AnswerComesFirst
<1>4. Forgotten' /\ AuthenticatesOnce' /\ UserRooms' /\ PresenceFollowsSockets'
  BY DEF Inv, ConnectError, server, history, Forgotten, AuthenticatesOnce, UserRooms,
         PresenceFollowsSockets
<1>5. HeardIsBounded'
  BY <1>1 DEF Inv, ConnectError, server, history, HeardIsBounded, Waiting, Copies
<1> QED
  BY <1>2, <1>3, <1>4, <1>5 DEF Inv

-----------------------------------------------------------------------------
(* What is left of a queue, from its front or from behind.                 *)

Piece(r, q) ==
    \E k \in Nat : \A i \in 1 .. Len(r) : i + k \in 1 .. Len(q) /\ r[i] = q[i + k]

LEMMA WholeIsPiece == ASSUME NEW A, NEW q \in Seq(A) PROVE Piece(q, q)
<1>1. \A i \in 1 .. Len(q) : i + 0 \in 1 .. Len(q) /\ q[i] = q[i + 0]
  OBVIOUS
<1> QED
  BY <1>1 DEF Piece

LEMMA TailIsPiece ==
    ASSUME NEW A, NEW q \in Seq(A), q # <<>>
    PROVE  Piece(Tail(q), q)
<1>1. \A i \in 1 .. Len(Tail(q)) : i + 1 \in 1 .. Len(q) /\ Tail(q)[i] = q[i + 1]
  BY TailOfQueue
<1> QED
  BY <1>1 DEF Piece

LEMMA PrefixIsPiece ==
    ASSUME NEW A, NEW q \in Seq(A), NEW n \in 0 .. Len(q)
    PROVE  SubSeq(q, 1, n) \in Seq(A) /\ Piece(SubSeq(q, 1, n), q)
<1>1. Len(q) \in Nat /\ n \in Nat /\ \A i \in 1 .. n : q[i] \in A
  OBVIOUS
<1>2. /\ SubSeq(q, 1, n) \in Seq(A) /\ Len(SubSeq(q, 1, n)) = n
      /\ \A i \in 1 .. n : SubSeq(q, 1, n)[i] = q[i]
  BY <1>1, SubSeqProperties
<1>3. \A i \in 1 .. Len(SubSeq(q, 1, n)) : i + 0 \in 1 .. Len(q) /\ SubSeq(q, 1, n)[i] = q[i + 0]
  BY <1>1, <1>2
<1> QED
  BY <1>2, <1>3 DEF Piece

(* While queues only get shorter, nobody authenticates once more.          *)
LEMMA ShorterQueuesKeep ==
    ASSUME Inv, live' \subseteq live, turned' = turned,
           \A s \in live' : connectedUsers'[s] = connectedUsers[s] /\ Piece(inbox'[s], inbox[s]),
           \A d \in Clients : buffer'[d] \in {buffer[d], <<>>},
           \A d \in Clients : Up(d)' => Up(d) /\ socket'[d] = socket[d] /\ socket[d] \in live'
    PROVE  AuthenticatesOnce' /\ KnownByToken'
<1>1. \A d \in Clients : \A i \in 1 .. Len(buffer'[d]) : ~ Authenticates(buffer'[d][i])
  BY DEF Inv, AuthenticatesOnce
<1>2. ASSUME NEW s \in live' \ turned', NEW i \in 1 .. Len(inbox'[s]), Authenticates(inbox'[s][i])
      PROVE  /\ connectedUsers'[s] = Null
             /\ \A j \in 1 .. Len(inbox'[s]) : Authenticates(inbox'[s][j]) => j = i
  <2>1. s \in live \ turned
    OBVIOUS
  <2>2. PICK k \in Nat : \A j \in 1 .. Len(inbox'[s]) :
           j + k \in 1 .. Len(inbox[s]) /\ inbox'[s][j] = inbox[s][j + k]
    BY DEF Piece
  <2>3. /\ i + k \in 1 .. Len(inbox[s])
        /\ Authenticates(inbox[s][i + k])
    BY <1>2, <2>2
  <2>4. /\ connectedUsers[s] = Null
        /\ \A j \in 1 .. Len(inbox[s]) : Authenticates(inbox[s][j]) => j = i + k
    BY <2>1, <2>3 DEF Inv, AuthenticatesOnce
  <2>5. ASSUME NEW j \in 1 .. Len(inbox'[s]), Authenticates(inbox'[s][j])
        PROVE  j = i
    <3>1. j + k = i + k
      BY <2>2, <2>4, <2>5
    <3> QED
      BY <3>1
  <2> QED
    BY <2>4, <2>5
<1>3. ASSUME NEW d \in Clients, Up(d)', socket'[d] \notin turned'
      PROVE  /\ connectedUsers'[socket'[d]] \in {Null, Token[d]}
             /\ \A i \in 1 .. Len(inbox'[socket'[d]]) :
                   Authenticates(inbox'[socket'[d]][i]) => inbox'[socket'[d]][i][2] = Token[d]
  <2> DEFINE s == socket[d]
  <2>1. Up(d) /\ socket'[d] = s /\ s \in live' /\ s \notin turned
    BY <1>3
  <2>2. /\ connectedUsers[s] \in {Null, Token[d]}
        /\ \A i \in 1 .. Len(inbox[s]) : Authenticates(inbox[s][i]) => inbox[s][i][2] = Token[d]
    BY <2>1 DEF Inv, KnownByToken
  <2> HIDE DEF s
  <2>3. PICK k \in Nat : \A j \in 1 .. Len(inbox'[s]) :
           j + k \in 1 .. Len(inbox[s]) /\ inbox'[s][j] = inbox[s][j + k]
    BY <2>1 DEF Piece
  <2> QED
    BY <2>1, <2>2, <2>3
<1>4. AuthenticatesOnce'
  BY <1>1, <1>2 DEF AuthenticatesOnce
<1> QED
  BY <1>3, <1>4 DEF KnownByToken

(* A client that is not connected any more waits for nothing.              *)
LEMMA MoreTimes ==
    ASSUME NEW a \in Nat, NEW b \in Nat, NEW c \in Nat, b <= c
    PROVE  a * b <= a * c
  OBVIOUS

LEMMA HeardAfterLoss ==
    ASSUME Inv, NEW c \in Clients,
           UNCHANGED <<turned, sent, heard, welcomed, listeners>>,
           Waiting(c)' = 0, \A d \in Clients \ {c} : Waiting(d)' = Waiting(d)
    PROVE  HeardIsBounded'
<1>1. \A d \in Clients : Copies(d)' = Copies(d)
  BY DEF Copies
<1>2. ASSUME turned = {}
      PROVE  /\ Waiting(c)' <= Copies(c)'
             /\ heard'[c] <= welcomed'[c] * (Copies(c)' - Waiting(c)')
  <2>1. Waiting(c) \in Nat /\ Copies(c) \in Nat
    BY WaitingIsNat DEF Inv
  <2>2. /\ Waiting(c) <= Copies(c)
        /\ heard[c] <= welcomed[c] * (Copies(c) - Waiting(c))
    BY <1>2 DEF Inv, HeardIsBounded
  <2>3. heard[c] \in Nat /\ welcomed[c] \in Nat
    BY DEF Inv, ClientTyped
  <2>4. Copies(c) - Waiting(c) \in Nat /\ Copies(c) - Waiting(c) <= Copies(c)
    BY <2>1, <2>2
  <2>5. /\ welcomed[c] * (Copies(c) - Waiting(c)) <= welcomed[c] * Copies(c)
        /\ welcomed[c] * (Copies(c) - Waiting(c)) \in Int /\ welcomed[c] * Copies(c) \in Int
    BY <2>1, <2>3, <2>4, MoreTimes
  <2>6. heard[c] <= welcomed[c] * Copies(c)
    BY <2>2, <2>3, <2>5
  <2> QED
    BY <1>1, <2>1, <2>6
<1> QED
  BY <1>1, <1>2 DEF Inv, HeardIsBounded

LEMMA LosesKeeps ==
    ASSUME Inv, NEW c \in Clients, Up(c), NEW n \in 0 .. Len(inbox[socket[c]]), Loses(c, n),
           NEW v \in {"connecting", "closed"}, state' = [state EXCEPT ![c] = v],
           buffer' \in {buffer, [buffer EXCEPT ![c] = <<>>]},
           UNCHANGED <<promise, attempts, listeners, currentTaskId, history>>
    PROVE  Inv'
<1> DEFINE s == socket[c]
<1>1. s \in live /\ s \in Sockets /\ s # Null
  BY DEF Inv, Linked, ServerTyped
<1>2. /\ inbox' = [inbox EXCEPT ![s] = SubSeq(inbox[s], 1, n)]
      /\ outbox' = [outbox EXCEPT ![s] = <<>>]
      /\ socket' = [socket EXCEPT ![c] = Null]
      /\ UNCHANGED <<live, rooms, connectedUsers, userSockets, userPresence, typingUsers>>
      /\ UNCHANGED <<turned, sent, heard, welcomed>>
  BY DEF Loses, history
<1>3. inbox[s] \in Seq(Message) /\ n \in 0 .. Len(inbox[s])
  BY <1>1 DEF Inv, ClientTyped
<1> HIDE DEF s
<1>4. SubSeq(inbox[s], 1, n) \in Seq(Message) /\ Piece(SubSeq(inbox[s], 1, n), inbox[s])
  BY <1>3, PrefixIsPiece
<1>5. ServerTyped'
  <2>1. outbox' \in [Sockets -> Seq(Event)]
    <3>1. outbox \in [Sockets -> Seq(Event)] /\ <<>> \in Seq(Event)
      BY DEF Inv, ServerTyped
    <3> QED
      BY <1>2, <3>1
  <2> QED
    BY <1>2, <2>1 DEF Inv, ServerTyped
<1>6. ClientTyped'
  <2>1. buffer' \in [Clients -> Seq(Message)]
    <3>1. buffer \in [Clients -> Seq(Message)] /\ <<>> \in Seq(Message)
      BY DEF Inv, ClientTyped
    <3>2. buffer' = buffer \/ buffer' = [buffer EXCEPT ![c] = <<>>]
      OBVIOUS
    <3> QED
      BY <3>1, <3>2
  <2>2. inbox' \in [Sockets -> Seq(Message)] /\ socket' \in [Clients -> Sockets \cup {Null}]
    BY <1>2, <1>4 DEF Inv, ClientTyped
  <2>3. state' \in [Clients -> {"new", "connecting", "up", "closed", "gaveUp"}]
    BY DEF Inv, ClientTyped
  <2> QED
    BY <1>2, <2>1, <2>2, <2>3 DEF Inv, ClientTyped
<1>7. /\ ~ Up(c)' /\ socket'[c] = Null
      /\ \A d \in Clients \ {c} : (Up(d)' <=> Up(d)) /\ socket'[d] = socket[d]
  BY <1>2 DEF Inv, ClientTyped, Up
<1>8. \A d \in Clients \ {c} : Up(d) => socket[d] # s /\ socket[d] \in Sockets
  BY DEF Inv, Linked, ServerTyped, s
<1>9. Linked'
  BY <1>2, <1>7 DEF Inv, Linked
<1>10. Forgotten' /\ UserRooms' /\ PresenceFollowsSockets'
  <2>1. \A r \in Sockets : outbox[r] = <<>> => outbox'[r] = <<>>
    BY <1>2 DEF Inv, ServerTyped
  <2> QED
    BY <1>2, <2>1 DEF Inv, Forgotten, UserRooms, PresenceFollowsSockets
<1>11. AuthenticatesOnce' /\ KnownByToken'
  <2>1. \A r \in live' : Piece(inbox'[r], inbox[r])
    BY <1>2, <1>4, WholeIsPiece DEF Inv, ServerTyped, ClientTyped
  <2>2. \A d \in Clients : buffer'[d] \in {buffer[d], <<>>}
    BY DEF Inv, ClientTyped
  <2>3. \A d \in Clients : Up(d)' => Up(d) /\ socket'[d] = socket[d] /\ socket[d] \in live'
    BY <1>2, <1>7 DEF Inv, Linked
  <2> QED
    BY <1>2, <2>1, <2>2, <2>3, ShorterQueuesKeep
<1>12. \A d \in Clients \ {c} : Up(d) => outbox'[socket[d]] = outbox[socket[d]]
  BY <1>2, <1>8 DEF Inv, ServerTyped
<1>13. AnswerComesFirst'
  BY <1>7, <1>12 DEF Inv, AnswerComesFirst
<1>14. HeardIsBounded'
  <2>1. Waiting(c)' = 0
    BY <1>7 DEF Waiting
  <2>2. \A d \in Clients \ {c} : Waiting(d)' = Waiting(d)
    BY <1>7, <1>12 DEF Waiting
  <2> QED
    BY <1>2, <2>1, <2>2, HeardAfterLoss
<1> QED
  BY <1>5, <1>6, <1>9, <1>10, <1>11, <1>13, <1>14 DEF Inv

LEMMA DropKeeps ==
    ASSUME Inv, NEW c \in Clients, Drop(c)
    PROVE  Inv'
<1>1. PICK n \in 0 .. Len(inbox[socket[c]]) : Loses(c, n)
  BY DEF Drop
<1> QED
  BY <1>1, LosesKeeps DEF Drop

LEMMA DisconnectKeeps ==
    ASSUME Inv, NEW c \in Clients, Disconnect(c)
    PROVE  Inv'
<1>1. CASE Up(c)
  <2>1. inbox[socket[c]] \in Seq(Message)
    BY <1>1 DEF Inv, Linked, ClientTyped, ServerTyped
  <2>2. Len(inbox[socket[c]]) \in 0 .. Len(inbox[socket[c]])
    BY <2>1
  <2> QED
    BY <1>1, <2>2, LosesKeeps DEF Disconnect
<1>2. CASE ~ Up(c)
  <2>1. /\ state' = [state EXCEPT ![c] = "closed"] /\ buffer' = [buffer EXCEPT ![c] = <<>>]
        /\ UNCHANGED <<live, rooms, connectedUsers, userSockets, userPresence, typingUsers, outbox>>
        /\ UNCHANGED <<socket, inbox, promise, attempts, listeners, currentTaskId>>
        /\ UNCHANGED <<turned, sent, heard, welcomed>>
    BY <1>2 DEF Disconnect, server, history
  <2>2. \A d \in Clients : Up(d)' <=> Up(d)
    BY <1>2, <2>1 DEF Inv, ClientTyped, Up
  <2>3. ServerTyped' /\ ClientTyped'
    BY <2>1 DEF Inv, ServerTyped, ClientTyped
  <2>4. Linked' /\ Forgotten' /\ UserRooms' /\ PresenceFollowsSockets'
    BY <2>1, <2>2 DEF Inv, Linked, Forgotten, UserRooms, PresenceFollowsSockets
  <2>5. AuthenticatesOnce' /\ KnownByToken'
    <3>1. \A d \in Clients : buffer'[d] \in {buffer[d], <<>>}
      BY <2>1 DEF Inv, ClientTyped
    <3>2. \A r \in live' : Piece(inbox'[r], inbox[r])
      BY <2>1, WholeIsPiece DEF Inv, ServerTyped, ClientTyped
    <3>3. \A d \in Clients : Up(d)' => Up(d) /\ socket'[d] = socket[d] /\ socket[d] \in live'
      BY <2>1, <2>2 DEF Inv, Linked
    <3> QED
      BY <2>1, <3>1, <3>2, <3>3, ShorterQueuesKeep
  <2>6. AnswerComesFirst' /\ HeardIsBounded'
    BY <2>1, <2>2 DEF Inv, AnswerComesFirst, HeardIsBounded, Waiting, Copies
  <2> QED
    BY <2>3, <2>4, <2>5, <2>6 DEF Inv
<1> QED
  BY <1>1, <1>2

-----------------------------------------------------------------------------
(* What the application calls.                                             *)

LEMMA MessageAppended ==
    ASSUME NEW q \in Seq(Message), NEW m \in Message
    PROVE  /\ Append(q, m) \in Seq(Message) /\ Len(Append(q, m)) = Len(q) + 1 /\ Len(q) \in Nat
           /\ \A i \in 1 .. Len(q) : Append(q, m)[i] = q[i]
           /\ Append(q, m)[Len(q) + 1] = m
           /\ \A i \in 1 .. Len(Append(q, m)) : i \in 1 .. Len(q) \/ i = Len(q) + 1
  BY AppendProperties

(* A message that does not authenticate is no matter for what is known.    *)
LEMMA CallKeeps ==
    ASSUME Inv, NEW c \in Clients, Call(c), NEW m \in Message, ~ Authenticates(m),
           Send(c, m) \/ UNCHANGED <<buffer, inbox>>,
           currentTaskId' \in [Clients -> TaskIds \cup {Null}]
    PROVE  Inv'
<1>1. /\ UNCHANGED <<live, rooms, connectedUsers, userSockets, userPresence, typingUsers, outbox>>
      /\ UNCHANGED <<state, socket, promise, attempts, listeners>>
      /\ UNCHANGED <<turned, sent, heard, welcomed>>
  BY DEF Call, server, history
<1>2. /\ buffer \in [Clients -> Seq(Message)] /\ inbox \in [Sockets -> Seq(Message)]
      /\ Up(c) => socket[c] \in Sockets
  BY DEF Inv, ClientTyped, ServerTyped, Linked
<1>3. \A d \in Clients : /\ buffer'[d] \in Seq(Message)
                         /\ \A i \in 1 .. Len(buffer'[d]) : ~ Authenticates(buffer'[d][i])
  <2> SUFFICES ASSUME NEW d \in Clients
               PROVE  /\ buffer'[d] \in Seq(Message)
                      /\ \A i \in 1 .. Len(buffer'[d]) : ~ Authenticates(buffer'[d][i])
    OBVIOUS
  <2>1. buffer[d] \in Seq(Message) /\ \A i \in 1 .. Len(buffer[d]) : ~ Authenticates(buffer[d][i])
    BY <1>2 DEF Inv, AuthenticatesOnce
  <2>2. buffer'[d] = buffer[d] \/ buffer'[d] = Append(buffer[d], m)
    BY <1>2 DEF Send
  <2> HIDE DEF Authenticates
  <2>3. CASE buffer'[d] = Append(buffer[d], m)
    BY <2>1, <2>3, MessageAppended
  <2> QED
    BY <2>1, <2>2, <2>3
<1>4. /\ buffer' \in [Clients -> Seq(Message)] /\ inbox' \in [Sockets -> Seq(Message)]
      /\ \A s \in Sockets : inbox'[s] = inbox[s] \/ inbox'[s] = Append(inbox[s], m)
  <2>1. inbox' = inbox \/ inbox' = [inbox EXCEPT ![socket[c]] = Append(inbox[socket[c]], m)]
    BY DEF Send
  <2>2. buffer' = buffer \/ buffer' = [buffer EXCEPT ![c] = Append(buffer[c], m)]
    BY DEF Send
  <2>3. \A q \in Seq(Message) : Append(q, m) \in Seq(Message)
    BY MessageAppended
  <2>4. inbox' \in [Sockets -> Seq(Message)]
    BY <1>2, <2>1, <2>3
  <2>5. buffer' \in [Clients -> Seq(Message)]
    BY <1>2, <2>2, <2>3
  <2> QED
    BY <1>2, <2>1, <2>4, <2>5
<1>5. \A s \in Sockets : \A i \in 1 .. Len(inbox'[s]) : Authenticates(inbox'[s][i]) =>
         i \in 1 .. Len(inbox[s]) /\ inbox'[s][i] = inbox[s][i]
  <2> SUFFICES ASSUME NEW s \in Sockets, NEW i \in 1 .. Len(inbox'[s]),
                      Authenticates(inbox'[s][i])
               PROVE  i \in 1 .. Len(inbox[s]) /\ inbox'[s][i] = inbox[s][i]
    OBVIOUS
  <2>1. inbox[s] \in Seq(Message)
    BY <1>2
  <2>2. CASE inbox'[s] = Append(inbox[s], m)
    <3>1. i \in 1 .. Len(inbox[s]) \/ inbox'[s][i] = m
      BY <2>1, <2>2, MessageAppended
    <3> QED
      BY <2>1, <2>2, <3>1, MessageAppended
  <2> QED
    BY <1>4, <2>2
<1>6. ServerTyped' /\ ClientTyped'
  BY <1>1, <1>4 DEF Inv, ServerTyped, ClientTyped
<1>7. Linked' /\ Forgotten' /\ UserRooms' /\ PresenceFollowsSockets' /\ AnswerComesFirst'
      /\ HeardIsBounded'
  BY <1>1 DEF Inv, Linked, Forgotten, UserRooms, PresenceFollowsSockets, AnswerComesFirst,
              HeardIsBounded, Up, Waiting, Copies
<1>8. AuthenticatesOnce'
  <2>1. ASSUME NEW s \in live' \ turned', NEW i \in 1 .. Len(inbox'[s]),
               Authenticates(inbox'[s][i])
        PROVE  /\ connectedUsers'[s] = Null
               /\ \A j \in 1 .. Len(inbox'[s]) : Authenticates(inbox'[s][j]) => j = i
    <3>1. s \in Sockets /\ s \in live \ turned
      BY <1>1 DEF Inv, ServerTyped
    <3>2. i \in 1 .. Len(inbox[s]) /\ Authenticates(inbox[s][i])
      BY <1>5, <2>1, <3>1
    <3>3. /\ connectedUsers[s] = Null
          /\ \A j \in 1 .. Len(inbox[s]) : Authenticates(inbox[s][j]) => j = i
      BY <3>1, <3>2 DEF Inv, AuthenticatesOnce
    <3>4. \A j \in 1 .. Len(inbox'[s]) : Authenticates(inbox'[s][j]) =>
             j \in 1 .. Len(inbox[s]) /\ Authenticates(inbox[s][j])
      BY <1>5, <3>1
    <3> QED
      BY <1>1, <3>3, <3>4
  <2> QED
    BY <1>3, <2>1 DEF AuthenticatesOnce
<1>9. KnownByToken'
  <2> SUFFICES ASSUME NEW d \in Clients, Up(d)', socket'[d] \notin turned'
               PROVE  /\ connectedUsers'[socket'[d]] \in {Null, Token[d]}
                      /\ \A i \in 1 .. Len(inbox'[socket'[d]]) :
                            Authenticates(inbox'[socket'[d]][i])
                              => inbox'[socket'[d]][i][2] = Token[d]
    BY DEF KnownByToken
  <2>1. Up(d) /\ socket'[d] = socket[d] /\ socket[d] \in Sockets /\ socket[d] \notin turned
    BY <1>1 DEF Up, Inv, Linked, ServerTyped
  <2>2. /\ connectedUsers[socket[d]] \in {Null, Token[d]}
        /\ \A i \in 1 .. Len(inbox[socket[d]]) :
              Authenticates(inbox[socket[d]][i]) => inbox[socket[d]][i][2] = Token[d]
    BY <2>1 DEF Inv, KnownByToken
  <2> QED
    BY <1>1, <1>5, <2>1, <2>2
<1> QED
  BY <1>6, <1>7, <1>8, <1>9 DEF Inv

LEMMA ApplicationKeeps ==
    ASSUME Inv, NEW c \in Clients
    PROVE  /\ \A t \in TaskIds : JoinTask(c, t) => Inv'
           /\ \A t \in TaskIds \cup {Null} : LeaveTask(c, t) => Inv'
           /\ \A t \in TaskIds, typing \in BOOLEAN : SetTyping(c, t, typing) => Inv'
           /\ \A status \in {"online", "away"} : UpdatePresence(c, status) => Inv'
<1>1. currentTaskId \in [Clients -> TaskIds \cup {Null}]
  BY DEF Inv, ClientTyped
<1>2. ASSUME NEW t \in TaskIds, JoinTask(c, t) PROVE Inv'
  <2>1. <<"task:join", t>> \in Message /\ ~ Authenticates(<<"task:join", t>>)
    BY DEF Message, Authenticates
  <2>2. Call(c) /\ Send(c, <<"task:join", t>>) /\ currentTaskId' = [currentTaskId EXCEPT ![c] = t]
    BY <1>2 DEF JoinTask
  <2>3. currentTaskId' \in [Clients -> TaskIds \cup {Null}]
    BY <1>1, <2>2
  <2> QED
    BY <2>1, <2>2, <2>3, CallKeeps
<1>3. ASSUME NEW t \in TaskIds \cup {Null}, LeaveTask(c, t) PROVE Inv'
  <2> DEFINE id == IF t = Null THEN currentTaskId[c] ELSE t
  <2>1. CASE id = Null
    <3>1. /\ Call(c) /\ UNCHANGED <<buffer, inbox>>
          /\ currentTaskId' \in [Clients -> TaskIds \cup {Null}]
      BY <1>1, <1>3, <2>1 DEF LeaveTask
    <3>2. <<"presence:update", "away">> \in Message
          /\ ~ Authenticates(<<"presence:update", "away">>)
      BY DEF Message, Authenticates
    <3> QED
      BY <3>1, <3>2, CallKeeps
  <2>2. CASE id # Null
    <3>1. id \in TaskIds
      BY <1>1, <2>2
    <3>2. <<"task:leave", id>> \in Message /\ ~ Authenticates(<<"task:leave", id>>)
      BY <3>1 DEF Message, Authenticates
    <3>3. Call(c) /\ Send(c, <<"task:leave", id>>)
      BY <1>3, <2>2 DEF LeaveTask
    <3>4. \/ currentTaskId' = currentTaskId
          \/ currentTaskId' = [currentTaskId EXCEPT ![c] = Null]
      BY <1>3, <2>2 DEF LeaveTask
    <3>5. currentTaskId' \in [Clients -> TaskIds \cup {Null}]
      BY <1>1, <3>4
    <3> QED
      BY <3>2, <3>3, <3>5, CallKeeps
  <2> QED
    BY <2>1, <2>2
<1>4. ASSUME NEW t \in TaskIds, NEW typing \in BOOLEAN, SetTyping(c, t, typing) PROVE Inv'
  <2> DEFINE m == <<IF typing THEN "typing" ELSE "still", t>>
  <2>1. m \in Message /\ ~ Authenticates(m)
    BY DEF Message, Authenticates
  <2>2. Call(c) /\ Send(c, m) /\ currentTaskId' \in [Clients -> TaskIds \cup {Null}]
    BY <1>1, <1>4 DEF SetTyping
  <2> QED
    BY <2>1, <2>2, CallKeeps
<1>5. ASSUME NEW status \in {"online", "away"}, UpdatePresence(c, status) PROVE Inv'
  <2>1. /\ <<"presence:update", status>> \in Message
        /\ ~ Authenticates(<<"presence:update", status>>)
    BY DEF Message, Authenticates
  <2>2. /\ Call(c) /\ Send(c, <<"presence:update", status>>)
        /\ currentTaskId' \in [Clients -> TaskIds \cup {Null}]
    BY <1>1, <1>5 DEF UpdatePresence
  <2> QED
    BY <2>1, <2>2, CallKeeps
<1> QED
  BY <1>2, <1>3, <1>4, <1>5

LEMMA AuthenticateAgainKeeps ==
    ASSUME Inv, NEW c \in Clients, NEW u \in Users, AuthenticateAgain(c, u)
    PROVE  Inv'
<1> DEFINE s == socket[c]
           m == <<"authenticate", u>>
<1>1. s \in live /\ s \in Sockets /\ Up(c)
  BY DEF Inv, Linked, ServerTyped, AuthenticateAgain
<1>2. /\ UNCHANGED <<live, rooms, connectedUsers, userSockets, userPresence, typingUsers, outbox>>
      /\ UNCHANGED <<state, socket, promise, attempts, listeners, currentTaskId, buffer>>
      /\ UNCHANGED <<sent, heard, welcomed>>
      /\ turned' = turned \cup {s}
      /\ inbox' = [inbox EXCEPT ![s] = Append(inbox[s], m)]
  BY <1>1 DEF AuthenticateAgain, Send, server
<1> HIDE DEF s
<1>3. m \in Message
  BY DEF Message
<1>4. /\ inbox \in [Sockets -> Seq(Message)] /\ inbox' \in [Sockets -> Seq(Message)]
      /\ \A r \in Sockets \ {s} : inbox'[r] = inbox[r]
  <2>1. inbox[s] \in Seq(Message) /\ inbox \in [Sockets -> Seq(Message)]
    BY <1>1 DEF Inv, ClientTyped
  <2>2. Append(inbox[s], m) \in Seq(Message)
    BY <1>3, <2>1, MessageAppended
  <2> QED
    BY <1>2, <2>1, <2>2
<1>5. ServerTyped' /\ ClientTyped'
  BY <1>1, <1>2, <1>4 DEF Inv, ServerTyped, ClientTyped
<1>6. Linked' /\ Forgotten' /\ UserRooms' /\ PresenceFollowsSockets' /\ AnswerComesFirst'
  BY <1>2 DEF Inv, Linked, Forgotten, UserRooms, PresenceFollowsSockets, AnswerComesFirst, Up
<1>7. HeardIsBounded'
  BY <1>2 DEF Inv, HeardIsBounded
<1>8. AuthenticatesOnce'
  <2>1. \A r \in live' \ turned' : r \in live \ turned /\ inbox'[r] = inbox[r]
    BY <1>2, <1>4 DEF Inv, ServerTyped
  <2> QED
    BY <1>2, <2>1 DEF Inv, AuthenticatesOnce
<1>9. KnownByToken'
  <2>1. \A d \in Clients : Up(d)' /\ socket'[d] \notin turned' =>
           /\ Up(d) /\ socket'[d] = socket[d] /\ socket[d] \notin turned
           /\ socket[d] # s /\ socket[d] \in Sockets
    BY <1>2 DEF Inv, Linked, ServerTyped, Up
  <2> SUFFICES ASSUME NEW d \in Clients, Up(d)', socket'[d] \notin turned'
               PROVE  /\ connectedUsers'[socket'[d]] \in {Null, Token[d]}
                      /\ \A i \in 1 .. Len(inbox'[socket'[d]]) :
                            Authenticates(inbox'[socket'[d]][i])
                              => inbox'[socket'[d]][i][2] = Token[d]
    BY DEF KnownByToken
  <2>2. /\ Up(d) /\ socket'[d] = socket[d] /\ socket[d] \notin turned
        /\ inbox'[socket[d]] = inbox[socket[d]]
    BY <1>4, <2>1
  <2>3. /\ connectedUsers[socket[d]] \in {Null, Token[d]}
        /\ \A i \in 1 .. Len(inbox[socket[d]]) :
              Authenticates(inbox[socket[d]][i]) => inbox[socket[d]][i][2] = Token[d]
    BY <2>2 DEF Inv, KnownByToken
  <2> QED
    BY <1>2, <2>2, <2>3
<1> QED
  BY <1>5, <1>6, <1>7, <1>8, <1>9 DEF Inv

-----------------------------------------------------------------------------
(* What the server does with a message.                                    *)

LEMMA TakenFromInbox ==
    ASSUME Inv, NEW s \in live, inbox[s] # <<>>, inbox' = [inbox EXCEPT ![s] = Tail(@)]
    PROVE  /\ s \in Sockets /\ inbox[s] \in Seq(Message) /\ Head(inbox[s]) \in Message
           /\ inbox' \in [Sockets -> Seq(Message)]
           /\ inbox'[s] = Tail(inbox[s]) /\ \A r \in Sockets \ {s} : inbox'[r] = inbox[r]
           /\ \A r \in Sockets : Piece(inbox'[r], inbox[r])
<1>1. inbox \in [Sockets -> Seq(Message)] /\ s \in Sockets
  BY DEF Inv, ServerTyped, ClientTyped
<1>2. inbox[s] \in Seq(Message) /\ Tail(inbox[s]) \in Seq(Message) /\ Head(inbox[s]) \in Message
  BY <1>1, TailOfQueue
<1>3. \A r \in Sockets : Piece(inbox'[r], inbox[r])
  BY <1>1, <1>2, TailIsPiece, WholeIsPiece
<1> QED
  BY <1>1, <1>2, <1>3

(* Any handler but that of an authentication: the rooms of tasks, the      *)
(* typing and the presence of users who stay present or absent.            *)
LEMMA OtherMessagesKeep ==
    ASSUME Inv, NEW s \in live, inbox[s] # <<>>, inbox' = [inbox EXCEPT ![s] = Tail(@)],
           UNCHANGED <<live, connectedUsers, userSockets, outbox>>,
           UNCHANGED <<state, socket, promise, attempts, listeners, currentTaskId, buffer>>,
           UNCHANGED <<turned, sent, heard, welcomed>>,
           rooms' \in [Rooms -> SUBSET Sockets],
           \A r \in Rooms : rooms'[r] \subseteq rooms[r] \cup {s},
           \A u \in Users : rooms'[<<"user", u>>] = rooms[<<"user", u>>],
           userPresence' \in [Users -> UserPresence],
           \A u \in Users : userPresence'[u].status \in {"none", "offline"} <=>
                               userPresence[u].status \in {"none", "offline"},
           typingUsers' \in [TaskIds -> SUBSET Users]
    PROVE  Inv'
<1>1. /\ s \in Sockets /\ inbox' \in [Sockets -> Seq(Message)]
      /\ \A r \in Sockets : Piece(inbox'[r], inbox[r])
  BY TakenFromInbox
<1>2. ServerTyped' /\ ClientTyped'
  BY <1>1 DEF Inv, ServerTyped, ClientTyped
<1>3. Linked' /\ AnswerComesFirst' /\ HeardIsBounded'
  BY DEF Inv, Linked, AnswerComesFirst, HeardIsBounded, Up, Waiting, Copies
<1>4. Forgotten' /\ UserRooms' /\ PresenceFollowsSockets'
  <2>1. Forgotten'
    BY DEF Inv, Forgotten
  <2>2. UserRooms'
    BY DEF Inv, UserRooms
  <2>3. PresenceFollowsSockets'
    BY DEF Inv, PresenceFollowsSockets
  <2> QED
    BY <2>1, <2>2, <2>3
<1>5. AuthenticatesOnce' /\ KnownByToken'
  <2>1. \A d \in Clients : Up(d)' => Up(d) /\ socket'[d] = socket[d] /\ socket[d] \in live'
    BY DEF Inv, Linked, Up
  <2>2. \A r \in live' : Piece(inbox'[r], inbox[r])
    BY <1>1 DEF Inv, ServerTyped
  <2> QED
    BY <2>1, <2>2, ShorterQueuesKeep
<1> QED
  BY <1>2, <1>3, <1>4, <1>5 DEF Inv

(* A user of a live socket is present.                                     *)
LEMMA UserIsPresent ==
    ASSUME Inv, NEW s \in live, connectedUsers[s] # Null
    PROVE  /\ connectedUsers[s] \in Users /\ s \in userSockets[connectedUsers[s]]
           /\ userPresence[connectedUsers[s]].status \notin {"none", "offline"}
<1>1. connectedUsers[s] \in Users
  BY DEF Inv, ServerTyped
<1>2. s \in userSockets[connectedUsers[s]]
  BY <1>1 DEF Inv, PresenceFollowsSockets
<1> QED
  BY <1>1, <1>2 DEF Inv, PresenceFollowsSockets

LEMMA PresenceChanged ==
    ASSUME Inv, NEW u \in Users, NEW status \in {"none", "online", "away", "offline"},
           UpdateUserPresence(u, status)
    PROVE  /\ userPresence' \in [Users -> UserPresence]
           /\ userPresence'[u].status = status
           /\ \A w \in Users \ {u} : userPresence'[w] = userPresence[w]
  BY DEF Inv, ServerTyped, UpdateUserPresence, UserPresence

LEMMA TaskChanged ==
    ASSUME Inv, NEW u \in Users, NEW t \in TaskIds \cup {Null}, SetCurrentTask(u, t)
    PROVE  /\ userPresence' \in [Users -> UserPresence]
           /\ \A w \in Users : userPresence'[w].status = userPresence[w].status
<1>1. userPresence \in [Users -> UserPresence]
  BY DEF Inv, ServerTyped
<1>2. userPresence' = userPresence \/ userPresence' = [userPresence EXCEPT ![u].currentTask = t]
  BY DEF SetCurrentTask
<1> QED
  BY <1>1, <1>2 DEF UserPresence

(* The handlers of the six kinds of messages.                              *)
LEMMA TaskMessagesKeep ==
    ASSUME Inv, NEW s \in live, inbox[s] # <<>>, inbox' = [inbox EXCEPT ![s] = Tail(@)],
           UNCHANGED <<state, socket, promise, attempts, listeners, currentTaskId, buffer>>,
           UNCHANGED <<turned, sent, heard, welcomed>>,
           NEW t \in TaskIds,
           \/ HandleTaskJoin(s, t) \/ HandleTaskLeave(s, t)
           \/ \E isTyping \in BOOLEAN : HandleTyping(s, t, isTyping)
    PROVE  Inv'
<1> DEFINE user == connectedUsers[s]
           room == <<"task", t>>
<1>1. /\ s \in Sockets /\ room \in Rooms /\ \A u \in Users : <<"user", u>> # room
      /\ rooms \in [Rooms -> SUBSET Sockets] /\ userPresence \in [Users -> UserPresence]
      /\ typingUsers \in [TaskIds -> SUBSET Users] /\ user \in Users \cup {Null}
  BY DEF Inv, ServerTyped, Rooms
<1>2. /\ \/ typingUsers' = typingUsers
         \/ user \in Users /\ typingUsers' = [typingUsers EXCEPT ![t] = @ \cup {user}]
         \/ user \in Users /\ typingUsers' = [typingUsers EXCEPT ![t] = @ \ {user}]
      /\ \/ rooms' = rooms
         \/ rooms' = [rooms EXCEPT ![room] = @ \cup {s}]
         \/ rooms' = [rooms EXCEPT ![room] = @ \ {s}]
      /\ \/ userPresence' = userPresence
         \/ user \in Users /\ \E id \in TaskIds \cup {Null} : SetCurrentTask(user, id)
      /\ UNCHANGED <<live, connectedUsers, userSockets, outbox>>
  <2>1. user = Null \/ user \in Users
    BY <1>1
  <2>2. CASE HandleTaskJoin(s, t)
    BY <2>1, <2>2 DEF HandleTaskJoin
  <2>3. CASE HandleTaskLeave(s, t)
    BY <2>1, <2>3 DEF HandleTaskLeave, StopTyping
  <2>4. CASE \E isTyping \in BOOLEAN : HandleTyping(s, t, isTyping)
    BY <2>1, <2>4 DEF HandleTyping, StopTyping
  <2> QED
    BY <2>2, <2>3, <2>4
<1> HIDE DEF user, room
<1>3. typingUsers' \in [TaskIds -> SUBSET Users]
  BY <1>1, <1>2
<1>4. rooms' \in [Rooms -> SUBSET Sockets]
  <2>1. rooms[room] \cup {s} \in SUBSET Sockets /\ rooms[room] \ {s} \in SUBSET Sockets
    BY <1>1
  <2> QED
    BY <1>1, <1>2, <2>1
<1>5. /\ \A r \in Rooms : rooms'[r] \subseteq rooms[r] \cup {s}
      /\ \A u \in Users : rooms'[<<"user", u>>] = rooms[<<"user", u>>]
  <2>1. \A r \in Rooms \ {room} : rooms'[r] = rooms[r]
    BY <1>1, <1>2
  <2>2. rooms'[room] \subseteq rooms[room] \cup {s}
    BY <1>1, <1>2
  <2>3. \A u \in Users : <<"user", u>> \in Rooms \ {room}
    BY <1>1 DEF Rooms
  <2> QED
    BY <2>1, <2>2, <2>3
<1>6. /\ userPresence' \in [Users -> UserPresence]
      /\ \A u \in Users : userPresence'[u].status = userPresence[u].status
  BY <1>1, <1>2, TaskChanged
<1> QED
  BY <1>2, <1>3, <1>4, <1>5, <1>6, OtherMessagesKeep

LEMMA PresenceMessageKeeps ==
    ASSUME Inv, NEW s \in live, inbox[s] # <<>>, inbox' = [inbox EXCEPT ![s] = Tail(@)],
           UNCHANGED <<state, socket, promise, attempts, listeners, currentTaskId, buffer>>,
           UNCHANGED <<turned, sent, heard, welcomed>>,
           NEW status \in {"online", "away"}, HandlePresenceUpdate(s, status)
    PROVE  Inv'
<1>1. /\ UNCHANGED <<live, rooms, connectedUsers, userSockets, typingUsers, outbox>>
      /\ rooms \in [Rooms -> SUBSET Sockets] /\ typingUsers \in [TaskIds -> SUBSET Users]
      /\ userPresence \in [Users -> UserPresence]
  BY DEF HandlePresenceUpdate, Inv, ServerTyped
<1>2. /\ userPresence' \in [Users -> UserPresence]
      /\ \A u \in Users : userPresence'[u].status \in {"none", "offline"} <=>
                             userPresence[u].status \in {"none", "offline"}
  <2>1. CASE connectedUsers[s] = Null
    BY <1>1, <2>1 DEF HandlePresenceUpdate
  <2>2. CASE connectedUsers[s] # Null
    <3>1. /\ connectedUsers[s] \in Users
          /\ userPresence[connectedUsers[s]].status \notin {"none", "offline"}
      BY <2>2, UserIsPresent
    <3>2. UpdateUserPresence(connectedUsers[s], status)
      BY <2>2 DEF HandlePresenceUpdate
    <3>3. /\ userPresence' \in [Users -> UserPresence]
          /\ userPresence'[connectedUsers[s]].status = status
          /\ \A w \in Users \ {connectedUsers[s]} : userPresence'[w] = userPresence[w]
      BY <3>1, <3>2, PresenceChanged
    <3> QED
      BY <3>1, <3>3
  <2> QED
    BY <2>1, <2>2
<1> QED
  BY <1>1, <1>2, OtherMessagesKeep

(* What is sent after the answer is found after it.                        *)
LEMMA AnswerStaysFirst ==
    ASSUME NEW q \in Seq(Event), NEW r \in Seq(Event), AnswerBefore(q), AnswerBefore(r)
    PROVE  AnswerBefore(q \o r)
<1>1. /\ Len(q \o r) = Len(q) + Len(r) /\ Len(q) \in Nat /\ Len(r) \in Nat
      /\ \A i \in 1 .. Len(q) : (q \o r)[i] = q[i]
      /\ \A i \in 1 .. Len(r) : (q \o r)[Len(q) + i] = r[i]
  BY QueueExtended
<1> SUFFICES ASSUME NEW i \in 1 .. Len(q \o r), (q \o r)[i] = "presence:list"
             PROVE  \E j \in 1 .. i - 1 : (q \o r)[j] = "authenticated"
  BY DEF AnswerBefore
<1>2. CASE i \in 1 .. Len(q)
  <2>1. PICK j \in 1 .. i - 1 : q[j] = "authenticated"
    BY <1>1, <1>2 DEF AnswerBefore
  <2>2. j \in 1 .. Len(q)
    BY <1>1, <1>2
  <2> QED
    BY <1>1, <2>1, <2>2
<1>3. CASE i \notin 1 .. Len(q)
  <2>1. i - Len(q) \in 1 .. Len(r) /\ i = Len(q) + (i - Len(q))
    BY <1>1, <1>3
  <2>2. r[i - Len(q)] = "presence:list"
    BY <1>1, <2>1
  <2>3. PICK j \in 1 .. (i - Len(q)) - 1 : r[j] = "authenticated"
    BY <2>1, <2>2 DEF AnswerBefore
  <2>4. j \in 1 .. Len(r) /\ Len(q) + j \in 1 .. i - 1
    BY <1>1, <2>1
  <2> QED
    BY <1>1, <2>3, <2>4
<1> QED
  BY <1>2, <1>3

LEMMA AnswersAreSent ==
    /\ Welcome \in Seq(Event) /\ AnswerBefore(Welcome)
    /\ \A i \in 1 .. Len(Welcome) : Welcome[i] # "task:updated"
    /\ <<"refused">> \in Seq(Event) /\ AnswerBefore(<<"refused">>)
    /\ \A i \in 1 .. Len(<<"refused">>) : <<"refused">>[i] # "task:updated"
    /\ <<"task:updated">> \in Seq(Event) /\ AnswerBefore(<<"task:updated">>)
<1>1. /\ Welcome \in Seq(Event) /\ <<"refused">> \in Seq(Event)
      /\ <<"task:updated">> \in Seq(Event) /\ Len(Welcome) = 2 /\ Len(<<"refused">>) = 1
      /\ Len(<<"task:updated">>) = 1 /\ Welcome[1] = "authenticated"
      /\ Welcome[2] = "presence:list"
  BY DEF Welcome, Event
<1>2. AnswerBefore(Welcome)
  <2> SUFFICES ASSUME NEW i \in 1 .. 2, Welcome[i] = "presence:list"
               PROVE  \E j \in 1 .. i - 1 : Welcome[j] = "authenticated"
    BY <1>1 DEF AnswerBefore
  <2>1. i = 2
    BY <1>1
  <2>2. 1 \in 1 .. i - 1
    BY <2>1
  <2> QED
    BY <1>1, <2>2
<1>3. AnswerBefore(<<"refused">>) /\ AnswerBefore(<<"task:updated">>)
  BY <1>1 DEF AnswerBefore
<1>4. \A i \in 1 .. Len(Welcome) : Welcome[i] # "task:updated"
  <2>1. \A i \in 1 .. 2 : i = 1 \/ i = 2
    OBVIOUS
  <2> QED
    BY <1>1, <2>1
<1>5. \A i \in 1 .. Len(<<"refused">>) : <<"refused">>[i] # "task:updated"
  BY <1>1
<1> QED
  BY <1>1, <1>2, <1>3, <1>4, <1>5

(* An answer to one socket.                                                *)
LEMMA AnswerKeeps ==
    ASSUME Inv, NEW s \in live, NEW answer \in Seq(Event), AnswerBefore(answer),
           \A i \in 1 .. Len(answer) : answer[i] # "task:updated",
           outbox' = Emit(outbox, {s}, answer),
           UNCHANGED <<live, state, socket, listeners, sent, heard, welcomed, turned>>
    PROVE  /\ outbox' \in [Sockets -> Seq(Event)] /\ AnswerComesFirst' /\ HeardIsBounded'
           /\ \A r \in Sockets \ live : outbox'[r] = outbox[r]
<1>1. outbox \in [Sockets -> Seq(Event)] /\ \A d \in Clients : Up(d) => socket[d] \in Sockets
  BY DEF Inv, ServerTyped, Linked
<1>2. \A r \in Sockets : outbox'[r] = IF r = s THEN outbox[r] \o answer ELSE outbox[r]
  BY DEF Emit
<1>3. outbox' \in [Sockets -> Seq(Event)]
  <2>1. \A r \in Sockets : outbox[r] \o answer \in Seq(Event)
    BY <1>1, QueueExtended
  <2> QED
    BY <1>1, <2>1 DEF Emit
<1>4. AnswerComesFirst'
  <2> SUFFICES ASSUME NEW d \in Clients, Up(d)', listeners'[d] = 0
               PROVE  AnswerBefore(outbox'[socket'[d]])
    BY DEF AnswerComesFirst
  <2>1. Up(d) /\ listeners[d] = 0 /\ socket'[d] = socket[d] /\ socket[d] \in Sockets
    BY <1>1 DEF Up
  <2>2. AnswerBefore(outbox[socket[d]]) /\ outbox[socket[d]] \in Seq(Event)
    BY <1>1, <2>1 DEF Inv, AnswerComesFirst
  <2> QED
    BY <1>2, <2>1, <2>2, AnswerStaysFirst
<1>5. HeardIsBounded'
  <2>1. \A r \in Sockets : Updates(outbox'[r]) = Updates(outbox[r])
    BY <1>1, <1>2, OthersAppended
  <2>2. \A d \in Clients : Waiting(d)' = Waiting(d) /\ Copies(d)' = Copies(d)
    BY <1>1, <2>1 DEF Waiting, Copies, Up
  <2> QED
    BY <2>2 DEF Inv, HeardIsBounded
<1> QED
  BY <1>2, <1>3, <1>4, <1>5

LEMMA AuthenticateKeeps ==
    ASSUME Inv, NEW s \in live, inbox[s] # <<>>, inbox' = [inbox EXCEPT ![s] = Tail(@)],
           UNCHANGED <<state, socket, promise, attempts, listeners, currentTaskId, buffer>>,
           UNCHANGED <<turned, sent, heard, welcomed>>,
           NEW user \in Users \cup {Null}, Head(inbox[s]) = <<"authenticate", user>>,
           Authenticate(s, user)
    PROVE  Inv'
<1>1. /\ s \in Sockets /\ inbox[s] \in Seq(Message) /\ inbox' \in [Sockets -> Seq(Message)]
      /\ inbox'[s] = Tail(inbox[s]) /\ \A r \in Sockets \ {s} : inbox'[r] = inbox[r]
      /\ \A r \in Sockets : Piece(inbox'[r], inbox[r])
  BY TakenFromInbox
<1>2. live' = live /\ typingUsers' = typingUsers
  BY DEF Authenticate
<1>3. \A d \in Clients : Up(d)' => Up(d) /\ socket'[d] = socket[d] /\ socket[d] \in live'
  BY <1>2 DEF Inv, Linked, Up
<1>4. Linked'
  BY <1>2 DEF Inv, Linked, Up
<1>5. CASE user = Null
  <2>1. /\ outbox' = Emit(outbox, {s}, <<"refused">>)
        /\ UNCHANGED <<rooms, connectedUsers, userSockets, userPresence>>
    BY <1>5 DEF Authenticate
  <2>2. /\ outbox' \in [Sockets -> Seq(Event)] /\ AnswerComesFirst' /\ HeardIsBounded'
        /\ \A r \in Sockets \ live : outbox'[r] = outbox[r]
    BY <1>2, <2>1, AnswersAreSent, AnswerKeeps
  <2>3. ServerTyped' /\ ClientTyped'
    BY <1>1, <1>2, <2>1, <2>2 DEF Inv, ServerTyped, ClientTyped
  <2>4. Forgotten' /\ UserRooms' /\ PresenceFollowsSockets'
    BY <1>2, <2>1, <2>2 DEF Inv, Forgotten, UserRooms, PresenceFollowsSockets
  <2>5. AuthenticatesOnce' /\ KnownByToken'
    <3>1. \A r \in live' : connectedUsers'[r] = connectedUsers[r] /\ Piece(inbox'[r], inbox[r])
      BY <1>1, <1>2, <2>1 DEF Inv, ServerTyped
    <3> QED
      BY <1>2, <1>3, <3>1, ShorterQueuesKeep
  <2> QED
    BY <1>4, <2>2, <2>3, <2>4, <2>5 DEF Inv
<1>6. CASE user # Null
  <2> DEFINE room == <<"user", user>>
  <2>1. /\ connectedUsers' = [connectedUsers EXCEPT ![s] = user]
        /\ rooms' = [rooms EXCEPT ![room] = @ \cup {s}]
        /\ userSockets' = [userSockets EXCEPT ![user] = @ \cup {s}]
        /\ UpdateUserPresence(user, "online")
        /\ outbox' = Emit(outbox, {s}, Welcome)
    BY <1>6 DEF Authenticate
  <2>2. /\ user \in Users /\ room \in Rooms
        /\ \A u \in Users : <<"user", u>> \in Rooms /\ (<<"user", u>> = room <=> u = user)
        /\ connectedUsers \in [Sockets -> Users \cup {Null}]
        /\ rooms \in [Rooms -> SUBSET Sockets] /\ userSockets \in [Users -> SUBSET Sockets]
    BY <1>6 DEF Rooms, Inv, ServerTyped
  <2>3. /\ outbox' \in [Sockets -> Seq(Event)] /\ AnswerComesFirst' /\ HeardIsBounded'
        /\ \A r \in Sockets \ live : outbox'[r] = outbox[r]
    BY <1>2, <2>1, AnswersAreSent, AnswerKeeps
  <2>4. /\ userPresence' \in [Users -> UserPresence]
        /\ userPresence'[user].status = "online"
        /\ \A w \in Users \ {user} : userPresence'[w] = userPresence[w]
    BY <2>1, <2>2, PresenceChanged
  <2> HIDE DEF room
  <2>5. /\ connectedUsers'[s] = user
        /\ \A r \in Sockets \ {s} : connectedUsers'[r] = connectedUsers[r]
        /\ userSockets'[user] = userSockets[user] \cup {s}
        /\ \A w \in Users \ {user} : userSockets'[w] = userSockets[w]
        /\ rooms'[room] = rooms[room] \cup {s}
        /\ \A r \in Rooms \ {room} : rooms'[r] = rooms[r]
    BY <1>1, <2>1, <2>2
  <2>6. ServerTyped' /\ ClientTyped'
    <3>1. /\ connectedUsers' \in [Sockets -> Users \cup {Null}]
          /\ rooms' \in [Rooms -> SUBSET Sockets] /\ userSockets' \in [Users -> SUBSET Sockets]
      BY <1>1, <2>1, <2>2
    <3> QED
      BY <1>1, <1>2, <2>3, <2>4, <3>1 DEF Inv, ServerTyped, ClientTyped
  <2>7. s \notin turned =>
           /\ connectedUsers[s] = Null
           /\ \A i \in 1 .. Len(inbox'[s]) : ~ Authenticates(inbox'[s][i])
    <3> SUFFICES ASSUME s \notin turned
                 PROVE  /\ connectedUsers[s] = Null
                        /\ \A i \in 1 .. Len(inbox'[s]) : ~ Authenticates(inbox'[s][i])
      OBVIOUS
    <3>1. /\ Len(inbox[s]) \in Nat \ {0} /\ Len(Tail(inbox[s])) = Len(inbox[s]) - 1
          /\ \A i \in 1 .. Len(Tail(inbox[s])) : Tail(inbox[s])[i] = inbox[s][i + 1]
          /\ Head(inbox[s]) = inbox[s][1]
      BY <1>1, TailOfQueue
    <3>2. 1 \in 1 .. Len(inbox[s]) /\ Authenticates(inbox[s][1])
      BY <3>1 DEF Authenticates
    <3>3. /\ connectedUsers[s] = Null
          /\ \A j \in 1 .. Len(inbox[s]) : Authenticates(inbox[s][j]) => j = 1
      BY <3>2 DEF Inv, AuthenticatesOnce
    <3>4. ASSUME NEW i \in 1 .. Len(inbox'[s]), Authenticates(inbox'[s][i]) PROVE FALSE
      <4>1. i + 1 \in 1 .. Len(inbox[s]) /\ Authenticates(inbox[s][i + 1]) /\ i \in 1 .. Len(inbox'[s])
        BY <1>1, <3>1, <3>4
      <4> QED
        BY <3>3, <4>1
    <3> QED
      BY <3>3, <3>4
  <2>8. Forgotten'
    <3>1. ASSUME NEW r \in Sockets \ live' PROVE connectedUsers'[r] = Null /\ outbox'[r] = <<>>
      <4>1. r \in Sockets \ live /\ r # s
        BY <1>2, <3>1
      <4>2. connectedUsers[r] = Null /\ outbox[r] = <<>>
        BY <4>1 DEF Inv, Forgotten
      <4> QED
        BY <2>3, <2>5, <4>1, <4>2
    <3>2. ASSUME NEW r \in Rooms PROVE rooms'[r] \subseteq live'
      <4>1. rooms[r] \subseteq live
        BY DEF Inv, Forgotten
      <4>2. rooms'[r] = rooms[r] \/ rooms'[r] = rooms[r] \cup {s}
        BY <2>5
      <4> QED
        BY <1>2, <4>1, <4>2
    <3> QED
      BY <3>1, <3>2 DEF Forgotten
  <2>9. UserRooms'
    <3> SUFFICES ASSUME NEW u \in Users, NEW r \in rooms'[<<"user", u>>]
                 PROVE  r \in turned' \/ connectedUsers'[r] = u
      BY DEF UserRooms
    <3>1. r \in rooms[<<"user", u>>] \/ (u = user /\ r = s)
      BY <2>2, <2>5
    <3>2. r \in rooms[<<"user", u>>] => r \in Sockets /\ (r \in turned \/ connectedUsers[r] = u)
      BY <2>2 DEF Inv, UserRooms
    <3>3. CASE r = s
      BY <2>5, <2>7, <3>1, <3>2, <3>3, PresenceAssumption
    <3>4. CASE r # s
      BY <2>5, <3>1, <3>2, <3>4
    <3> QED
      BY <3>3, <3>4
  <2>10. PresenceFollowsSockets'
    <3> SUFFICES ASSUME NEW u \in Users
                 PROVE  LET own == {r \in live' : connectedUsers'[r] = u}
                        IN  /\ own \subseteq userSockets'[u]
                            /\ userSockets'[u] \ own \subseteq turned'
                            /\ userPresence'[u].status \in {"none", "offline"} <=> userSockets'[u] = {}
      BY DEF PresenceFollowsSockets
    <3>1. /\ \A r \in live : connectedUsers[r] = u => r \in userSockets[u]
          /\ \A r \in userSockets[u] : r \in turned \/ (r \in live /\ connectedUsers[r] = u)
          /\ userPresence[u].status \in {"none", "offline"} <=> userSockets[u] = {}
      BY DEF Inv, PresenceFollowsSockets
    <3>2. live \subseteq Sockets /\ userSockets[u] \subseteq Sockets
      BY <2>2 DEF Inv, ServerTyped
    <3>3. CASE u = user
      BY <1>2, <2>4, <2>5, <3>1, <3>2, <3>3
    <3>4. CASE u # user
      <4>1. userSockets'[u] = userSockets[u] /\ userPresence'[u] = userPresence[u]
        BY <2>4, <2>5, <3>4
      <4>2. \A r \in live' : connectedUsers'[r] = u => r \in userSockets'[u]
        BY <1>2, <2>5, <3>1, <3>2, <3>4, <4>1
      <4>3. \A r \in userSockets'[u] : r \in turned' \/ (r \in live' /\ connectedUsers'[r] = u)
        <5> SUFFICES ASSUME NEW r \in userSockets[u], r \notin turned
                     PROVE  r \in live' /\ connectedUsers'[r] = u
          BY <4>1
        <5>1. r \in live /\ connectedUsers[r] = u /\ r \in Sockets
          BY <3>1, <3>2
        <5>2. r # s
          BY <2>7, <5>1, PresenceAssumption
        <5> QED
          BY <1>2, <2>5, <5>1, <5>2
      <4> QED
        BY <3>1, <4>1, <4>2, <4>3
    <3> QED
      BY <3>3, <3>4
  <2>11. AuthenticatesOnce'
    <3>1. \A d \in Clients : \A i \in 1 .. Len(buffer'[d]) : ~ Authenticates(buffer'[d][i])
      BY DEF Inv, AuthenticatesOnce
    <3>2. ASSUME NEW r \in live' \ turned', NEW i \in 1 .. Len(inbox'[r]),
                 Authenticates(inbox'[r][i])
          PROVE  /\ connectedUsers'[r] = Null
                 /\ \A j \in 1 .. Len(inbox'[r]) : Authenticates(inbox'[r][j]) => j = i
      <4>1. r # s
        BY <2>7, <3>2
      <4>2. /\ r \in live \ turned /\ inbox'[r] = inbox[r]
            /\ connectedUsers'[r] = connectedUsers[r]
        BY <1>1, <1>2, <2>5, <4>1 DEF Inv, ServerTyped
      <4> QED
        BY <3>2, <4>2 DEF Inv, AuthenticatesOnce
    <3> QED
      BY <3>1, <3>2 DEF AuthenticatesOnce
  <2>12. KnownByToken'
    <3> SUFFICES ASSUME NEW d \in Clients, Up(d)', socket'[d] \notin turned'
                 PROVE  /\ connectedUsers'[socket'[d]] \in {Null, Token[d]}
                        /\ \A i \in 1 .. Len(inbox'[socket'[d]]) :
                              Authenticates(inbox'[socket'[d]][i])
                                => inbox'[socket'[d]][i][2] = Token[d]
      BY DEF KnownByToken
    <3>1. /\ Up(d) /\ socket'[d] = socket[d] /\ socket[d] \in live /\ socket[d] \in Sockets
          /\ socket[d] \notin turned
      BY <1>2, <1>3 DEF Inv, ServerTyped
    <3>2. /\ connectedUsers[socket[d]] \in {Null, Token[d]}
          /\ \A i \in 1 .. Len(inbox[socket[d]]) :
                Authenticates(inbox[socket[d]][i]) => inbox[socket[d]][i][2] = Token[d]
      BY <3>1 DEF Inv, KnownByToken
    <3>3. CASE socket[d] = s
      <4>1. Head(inbox[s]) = inbox[s][1] /\ 1 \in 1 .. Len(inbox[s])
        BY <1>1, TailOfQueue
      <4>2. user = Token[d]
        BY <3>2, <3>3, <4>1 DEF Authenticates
      <4> QED
        BY <2>5, <2>7, <3>1, <3>3, <4>2
    <3>4. CASE socket[d] # s
      BY <1>1, <2>5, <3>1, <3>2, <3>4
    <3> QED
      BY <3>3, <3>4
  <2> QED
    BY <1>4, <2>3, <2>6, <2>8, <2>9, <2>10, <2>11, <2>12 DEF Inv
<1> QED
  BY <1>5, <1>6

LEMMA HandleKeeps ==
    ASSUME Inv, NEW s \in Sockets, Handle(s)
    PROVE  Inv'
<1> DEFINE m == Head(inbox[s])
<1>1. /\ s \in live /\ inbox[s] # <<>> /\ inbox' = [inbox EXCEPT ![s] = Tail(@)]
      /\ UNCHANGED <<state, socket, promise, attempts, listeners, currentTaskId, buffer>>
      /\ UNCHANGED <<turned, sent, heard, welcomed>>
  BY DEF Handle, history
<1>2. m \in Message
  BY <1>1, TakenFromInbox
<1>3. /\ m = <<m[1], m[2]>>
      /\ m[1] = "authenticate" => m[2] \in Users \cup {Null}
      /\ m[1] \in {"task:join", "task:leave", "typing", "still"} => m[2] \in TaskIds
      /\ m[1] = "presence:update" => m[2] \in {"online", "away"}
  BY <1>2, MessageSays
<1>4. \/ m[1] = "authenticate" /\ Authenticate(s, m[2])
      \/ m[1] = "task:join" /\ HandleTaskJoin(s, m[2])
      \/ m[1] = "task:leave" /\ HandleTaskLeave(s, m[2])
      \/ m[1] = "typing" /\ HandleTyping(s, m[2], TRUE)
      \/ m[1] = "still" /\ HandleTyping(s, m[2], FALSE)
      \/ m[1] = "presence:update" /\ HandlePresenceUpdate(s, m[2])
  BY DEF Handle
<1>5. CASE m[1] = "authenticate" /\ Authenticate(s, m[2])
  <2>1. m[2] \in Users \cup {Null} /\ Head(inbox[s]) = <<"authenticate", m[2]>>
    BY <1>3, <1>5
  <2> QED
    BY <1>1, <1>5, <2>1, AuthenticateKeeps
<1>6. CASE m[1] = "presence:update" /\ HandlePresenceUpdate(s, m[2])
  BY <1>1, <1>3, <1>6, PresenceMessageKeeps
<1>7. CASE \/ m[1] = "task:join" /\ HandleTaskJoin(s, m[2])
           \/ m[1] = "task:leave" /\ HandleTaskLeave(s, m[2])
           \/ m[1] = "typing" /\ HandleTyping(s, m[2], TRUE)
           \/ m[1] = "still" /\ HandleTyping(s, m[2], FALSE)
  <2>1. m[2] \in TaskIds
    BY <1>3, <1>7
  <2>2. \/ HandleTaskJoin(s, m[2]) \/ HandleTaskLeave(s, m[2])
        \/ \E isTyping \in BOOLEAN : HandleTyping(s, m[2], isTyping)
    BY <1>7
  <2> QED
    BY <1>1, <2>1, <2>2, TaskMessagesKeep
<1> QED
  BY <1>4, <1>5, <1>6, <1>7

-----------------------------------------------------------------------------
(* The server learns that a connection is gone.                            *)
LEMMA NoticeGoneKeeps ==
    ASSUME Inv, NEW s \in Sockets, NoticeGone(s)
    PROVE  Inv'
<1> DEFINE user == connectedUsers[s]
<1>1. /\ s \in live /\ \A c \in Clients : socket[c] # s
      /\ live' = live \ {s} /\ rooms' = [r \in Rooms |-> rooms[r] \ {s}]
      /\ outbox' = [outbox EXCEPT ![s] = <<>>]
      /\ connectedUsers' = [connectedUsers EXCEPT ![s] = Null]
      /\ UNCHANGED typingUsers
      /\ UNCHANGED <<state, socket, promise, attempts, listeners, currentTaskId, buffer, inbox>>
      /\ UNCHANGED <<turned, sent, heard, welcomed>>
  BY DEF NoticeGone, HandleDisconnect, client, history
<1>2. IF user = Null THEN UNCHANGED <<userSockets, userPresence>>
      ELSE /\ userSockets' = [userSockets EXCEPT ![user] = @ \ {s}]
           /\ IF userSockets[user] \ {s} = {} THEN UpdateUserPresence(user, "offline")
              ELSE UNCHANGED userPresence
  BY DEF NoticeGone, HandleDisconnect, IsLastSocket
<1>3. /\ live \subseteq Sockets /\ IsFiniteSet(live) /\ rooms \in [Rooms -> SUBSET Sockets]
      /\ connectedUsers \in [Sockets -> Users \cup {Null}]
      /\ userSockets \in [Users -> SUBSET Sockets]
      /\ userPresence \in [Users -> UserPresence]
      /\ outbox \in [Sockets -> Seq(Event)] /\ <<>> \in Seq(Event)
      /\ user \in Users \cup {Null}
  BY DEF Inv, ServerTyped
<1> HIDE DEF user
<1>4. /\ connectedUsers'[s] = Null /\ outbox'[s] = <<>>
      /\ \A r \in Sockets \ {s} : connectedUsers'[r] = connectedUsers[r] /\ outbox'[r] = outbox[r]
      /\ \A r \in Rooms : rooms'[r] = rooms[r] \ {s}
  BY <1>1, <1>3
<1>5. userPresence' \in [Users -> UserPresence] /\ userSockets' \in [Users -> SUBSET Sockets]
  <2>1. CASE user = Null
    BY <1>2, <1>3, <2>1
  <2>2. CASE user # Null
    <3>1. user \in Users
      BY <1>3, <2>2
    <3>2. userSockets' \in [Users -> SUBSET Sockets]
      BY <1>2, <1>3, <2>2, <3>1
    <3>3. userPresence' = userPresence \/ UpdateUserPresence(user, "offline")
      BY <1>2, <2>2
    <3> QED
      BY <1>3, <3>1, <3>2, <3>3, PresenceChanged
  <2> QED
    BY <2>1, <2>2
<1>6. ServerTyped' /\ ClientTyped'
  <2>1. IsFiniteSet(live')
    BY <1>1, <1>3, FS_Subset
  <2>2. /\ rooms' \in [Rooms -> SUBSET Sockets]
        /\ connectedUsers' \in [Sockets -> Users \cup {Null}]
        /\ outbox' \in [Sockets -> Seq(Event)]
    BY <1>1, <1>3
  <2> QED
    BY <1>1, <1>3, <1>5, <2>1, <2>2 DEF Inv, ServerTyped, ClientTyped
<1>7. \A d \in Clients : (Up(d)' <=> Up(d)) /\ socket'[d] = socket[d]
  BY <1>1 DEF Up
<1>8. \A d \in Clients : Up(d) => socket[d] \in live' /\ socket[d] \in Sockets \ {s}
  BY <1>1, <1>3 DEF Inv, Linked
<1>9. Linked'
  BY <1>1, <1>7, <1>8 DEF Inv, Linked
<1>10. Forgotten' /\ UserRooms'
  <2>1. Forgotten'
    BY <1>1, <1>3, <1>4 DEF Inv, Forgotten
  <2>2. \A u \in Users : \A r \in rooms'[<<"user", u>>] :
           r \in rooms[<<"user", u>>] /\ r \in Sockets \ {s}
    BY <1>3, <1>4 DEF Rooms
  <2> QED
    BY <1>1, <1>4, <2>1, <2>2 DEF Inv, UserRooms
<1>11. AuthenticatesOnce' /\ KnownByToken'
  <2>1. \A r \in live' : connectedUsers'[r] = connectedUsers[r] /\ Piece(inbox'[r], inbox[r])
    BY <1>1, <1>3, <1>4, WholeIsPiece DEF Inv, ClientTyped
  <2> QED
    BY <1>1, <1>7, <1>8, <2>1, ShorterQueuesKeep
<1>12. PresenceFollowsSockets'
  <2> SUFFICES ASSUME NEW u \in Users
               PROVE  LET own == {r \in live' : connectedUsers'[r] = u}
                      IN  /\ own \subseteq userSockets'[u]
                          /\ userSockets'[u] \ own \subseteq turned'
                          /\ userPresence'[u].status \in {"none", "offline"} <=> userSockets'[u] = {}
    BY DEF PresenceFollowsSockets
  <2>1. /\ \A r \in live : connectedUsers[r] = u => r \in userSockets[u]
        /\ \A r \in userSockets[u] : r \in turned \/ (r \in live /\ connectedUsers[r] = u)
        /\ userPresence[u].status \in {"none", "offline"} <=> userSockets[u] = {}
    BY DEF Inv, PresenceFollowsSockets
  <2>2. CASE u = user
    <3>1. user # Null /\ s \in userSockets[u] /\ userSockets'[u] = userSockets[u] \ {s}
      BY <1>1, <1>2, <1>3, <2>1, <2>2, PresenceAssumption DEF user
    <3>2. userPresence'[u].status \in {"none", "offline"} <=> userSockets'[u] = {}
      <4>1. CASE userSockets[u] \ {s} = {}
        BY <1>2, <2>2, <3>1, <4>1, PresenceChanged
      <4>2. CASE userSockets[u] \ {s} # {}
        BY <1>2, <2>1, <2>2, <3>1, <4>2
      <4> QED
        BY <4>1, <4>2
    <3>3. \A r \in live' : connectedUsers'[r] = u => r \in userSockets'[u]
      BY <1>1, <1>3, <1>4, <2>1, <3>1
    <3>4. \A r \in userSockets'[u] : r \in turned' \/ (r \in live' /\ connectedUsers'[r] = u)
      BY <1>1, <1>3, <1>4, <2>1, <3>1
    <3> QED
      BY <3>2, <3>3, <3>4
  <2>3. CASE u # user
    <3>1. userSockets'[u] = userSockets[u] /\ userPresence'[u] = userPresence[u]
      <4>1. userSockets'[u] = userSockets[u]
        BY <1>2, <1>3, <2>3
      <4>2. CASE UNCHANGED userPresence
        BY <4>1, <4>2
      <4>3. CASE user # Null /\ UpdateUserPresence(user, "offline")
        BY <1>3, <2>3, <4>1, <4>3, PresenceChanged
      <4> QED
        BY <1>2, <4>2, <4>3
    <3>2. \A r \in live' : connectedUsers'[r] = u => r \in userSockets'[u]
      BY <1>1, <1>3, <1>4, <2>1, <3>1
    <3>3. \A r \in userSockets'[u] : r \in turned' \/ (r \in live' /\ connectedUsers'[r] = u)
      BY <1>1, <1>3, <1>4, <2>1, <2>3, <3>1 DEF user
    <3> QED
      BY <2>1, <3>1, <3>2, <3>3
  <2> QED
    BY <2>2, <2>3
<1>13. \A d \in Clients : Up(d) => outbox'[socket'[d]] = outbox[socket[d]]
  BY <1>4, <1>7, <1>8
<1>14. AnswerComesFirst'
  BY <1>1, <1>7, <1>13 DEF Inv, AnswerComesFirst
<1>15. HeardIsBounded'
  <2>1. \A d \in Clients : Waiting(d)' = Waiting(d) /\ Copies(d)' = Copies(d)
    BY <1>1, <1>7, <1>13 DEF Waiting, Copies
  <2> QED
    BY <1>1, <2>1 DEF Inv, HeardIsBounded
<1> QED
  BY <1>6, <1>9, <1>10, <1>11, <1>12, <1>14, <1>15 DEF Inv

-----------------------------------------------------------------------------
(* What a client receives.                                                 *)

LEMMA AnswerTaken ==
    ASSUME NEW q \in Seq(Event), q # <<>>, AnswerBefore(q), Head(q) # "authenticated"
    PROVE  AnswerBefore(Tail(q))
<1>1. /\ Len(Tail(q)) = Len(q) - 1 /\ Len(q) \in Nat \ {0}
      /\ \A i \in 1 .. Len(Tail(q)) : Tail(q)[i] = q[i + 1]
      /\ Head(q) = q[1]
  BY TailOfQueue
<1> SUFFICES ASSUME NEW i \in 1 .. Len(Tail(q)), Tail(q)[i] = "presence:list"
             PROVE  \E j \in 1 .. i - 1 : Tail(q)[j] = "authenticated"
  BY DEF AnswerBefore
<1>2. i + 1 \in 1 .. Len(q) /\ q[i + 1] = "presence:list"
  BY <1>1
<1>3. PICK k \in 1 .. (i + 1) - 1 : q[k] = "authenticated"
  BY <1>2 DEF AnswerBefore
<1>4. k # 1
  BY <1>1, <1>3
<1>5. k - 1 \in 1 .. i - 1 /\ k - 1 \in 1 .. Len(Tail(q)) /\ (k - 1) + 1 = k
  BY <1>1, <1>4
<1> QED
  BY <1>1, <1>3, <1>5

(* One more of the copies is heard, by w listeners.                        *)
LEMMA OneMoreHeard ==
    ASSUME NEW h \in Nat, NEW w \in Nat, NEW x \in Nat, NEW y \in Nat, y < x + 1, y > 0,
           h <= w * (x - y)
    PROVE  h + w <= w * (x - (y - 1))
  OBVIOUS

LEMMA ReceiveKeeps ==
    ASSUME Inv, NEW c \in Clients, Receive(c)
    PROVE  Inv'
<1> DEFINE s == socket[c]
           q == outbox[s]
           event == Head(q)
<1>1. /\ Up(c) /\ q # <<>> /\ outbox' = [outbox EXCEPT ![s] = Tail(@)]
      /\ listeners' = IF event # "authenticated" THEN listeners
                      ELSE [listeners EXCEPT ![c] = listeners[c] + 1]
      /\ welcomed' = IF event # "authenticated" THEN welcomed
                     ELSE [welcomed EXCEPT ![c] = @ + 1]
      /\ \/ promise' = promise
         \/ \E p \in {"resolved", "rejected"} : promise' = [promise EXCEPT ![c] = p]
      /\ heard' = IF event # "task:updated" THEN heard
                  ELSE [heard EXCEPT ![c] = @ + listeners[c]]
      /\ UNCHANGED <<live, rooms, connectedUsers, userSockets, userPresence, typingUsers>>
      /\ UNCHANGED <<state, socket, attempts, currentTaskId, buffer, inbox, turned, sent>>
  BY DEF Receive, SetupEventListeners
<1>2. /\ outbox \in [Sockets -> Seq(Event)] /\ s \in live /\ s \in Sockets /\ q \in Seq(Event)
      /\ listeners \in [Clients -> Nat] /\ welcomed \in [Clients -> Nat] /\ heard \in [Clients -> Nat]
      /\ promise \in [Clients -> {"none", "pending", "resolved", "rejected"}]
      /\ welcomed = listeners
  BY <1>1 DEF Inv, Linked, ServerTyped, ClientTyped, HeardIsBounded
<1>3. \A d \in Clients \ {c} : Up(d) => socket[d] # s /\ socket[d] \in Sockets
  BY <1>1, <1>2 DEF Inv, Linked, ServerTyped
<1>4. \A d \in Clients : Up(d)' <=> Up(d)
  BY <1>1 DEF Up
<1> HIDE DEF s
<1>5. Tail(q) \in Seq(Event) /\ outbox'[s] = Tail(q)
      /\ \A r \in Sockets \ {s} : outbox'[r] = outbox[r]
  BY <1>1, <1>2, TailOfQueue
<1> HIDE DEF q, event
<1>6. ServerTyped'
  <2>1. outbox' \in [Sockets -> Seq(Event)]
    BY <1>1, <1>2, <1>5
  <2> QED
    BY <1>1, <2>1 DEF Inv, ServerTyped
<1>7. ClientTyped'
  <2>1. promise' \in [Clients -> {"none", "pending", "resolved", "rejected"}]
    BY <1>1, <1>2
  <2>2. /\ listeners' \in [Clients -> Nat] /\ welcomed' \in [Clients -> Nat]
        /\ heard' \in [Clients -> Nat]
    BY <1>1, <1>2
  <2> QED
    BY <1>1, <2>1, <2>2 DEF Inv, ClientTyped
<1>8. Linked' /\ KnownByToken' /\ UserRooms' /\ PresenceFollowsSockets' /\ AuthenticatesOnce'
  BY <1>1, <1>4 DEF Inv, Linked, KnownByToken, UserRooms, PresenceFollowsSockets,
                    AuthenticatesOnce
<1>9. Forgotten'
  BY <1>1, <1>2, <1>5 DEF Inv, Forgotten
<1>10. AnswerComesFirst'
  <2> SUFFICES ASSUME NEW d \in Clients, Up(d)', listeners'[d] = 0
               PROVE  AnswerBefore(outbox'[socket'[d]])
    BY DEF AnswerComesFirst
  <2>1. Up(d) /\ socket'[d] = socket[d]
    BY <1>1, <1>4
  <2>2. CASE d = c
    <3>1. event # "authenticated" /\ listeners[c] = 0
      BY <1>1, <1>2, <2>2
    <3>2. AnswerBefore(q)
      BY <1>1, <3>1 DEF Inv, AnswerComesFirst, q, s
    <3>3. AnswerBefore(Tail(q))
      BY <1>1, <1>2, <3>1, <3>2, AnswerTaken DEF event
    <3> QED
      BY <1>5, <2>1, <2>2, <3>3 DEF s
  <2>3. CASE d # c
    <3>1. listeners[d] = 0 /\ outbox'[socket[d]] = outbox[socket[d]]
      BY <1>1, <1>2, <1>3, <1>5, <2>1, <2>3
    <3> QED
      BY <2>1, <3>1 DEF Inv, AnswerComesFirst
  <2> QED
    BY <2>2, <2>3
<1>11. HeardIsBounded'
  <2>1. welcomed' = listeners'
    BY <1>1, <1>2
  <2>2. \A d \in Clients : Copies(d)' = Copies(d)
    BY <1>1 DEF Copies
  <2>3. ASSUME turned = {}, NEW d \in Clients
        PROVE  /\ Waiting(d)' <= Copies(d)'
               /\ heard'[d] <= welcomed'[d] * (Copies(d)' - Waiting(d)')
    <3>1. /\ Waiting(d) <= Copies(d) /\ heard[d] <= welcomed[d] * (Copies(d) - Waiting(d))
          /\ Waiting(d) \in Nat /\ Copies(d) \in Nat
      BY <2>3, WaitingIsNat DEF Inv, HeardIsBounded
    <3>2. CASE d # c
      <4>1. Waiting(d)' = Waiting(d)
        BY <1>1, <1>3, <1>4, <1>5, <3>2 DEF Waiting
      <4>2. heard'[d] = heard[d] /\ welcomed'[d] = welcomed[d]
        BY <1>1, <1>2, <3>2
      <4> QED
        BY <2>2, <3>1, <4>1, <4>2
    <3>3. CASE d = c
      <4>1. Waiting(c) = Updates(q) /\ Waiting(c)' = Updates(Tail(q))
        BY <1>1, <1>4, <1>5 DEF Waiting, q, s
      <4>2. /\ Updates(q) = Updates(Tail(q)) + (IF event = "task:updated" THEN 1 ELSE 0)
            /\ Updates(q) \in Nat /\ Updates(Tail(q)) \in Nat
        BY <1>1, <1>2, <1>5, UpdateTaken, UpdatesAreCounted DEF event
      <4>3. CASE event = "task:updated"
        <5>1. Waiting(c)' = Waiting(c) - 1 /\ Waiting(c) > 0
          BY <4>1, <4>2, <4>3
        <5>2. heard'[c] = heard[c] + welcomed[c] /\ welcomed'[c] = welcomed[c]
          BY <1>1, <1>2, <4>3
        <5>3. heard[c] \in Nat /\ welcomed[c] \in Nat
          BY <1>2
        <5>4. heard[c] + welcomed[c] <= welcomed[c] * (Copies(c) - (Waiting(c) - 1))
          BY <3>1, <3>3, <5>1, <5>3, OneMoreHeard
        <5> QED
          BY <2>2, <3>1, <3>3, <5>1, <5>2, <5>4
      <4>4. CASE event = "authenticated"
        <5>1. Waiting(c)' = Waiting(c)
          BY <4>1, <4>2, <4>4
        <5>2. heard'[c] = heard[c] /\ welcomed'[c] = welcomed[c] + 1
          BY <1>1, <1>2, <4>4
        <5>3. heard[c] \in Nat /\ welcomed[c] \in Nat /\ Copies(c) - Waiting(c) \in Nat
          BY <1>2, <3>1, <3>3
        <5> DEFINE k == Copies(c) - Waiting(c)
        <5>4. (welcomed[c] + 1) * k = welcomed[c] * k + k /\ welcomed[c] * k \in Nat
          BY <5>3
        <5>5. heard[c] <= (welcomed[c] + 1) * k
          <6> HIDE DEF k
          <6>1. heard[c] <= welcomed[c] * k /\ k \in Nat
            BY <3>1, <3>3, <5>3 DEF k
          <6> QED
            BY <5>3, <5>4, <6>1
        <5> QED
          BY <2>2, <3>1, <3>3, <5>1, <5>2, <5>5
      <4>5. CASE event \notin {"task:updated", "authenticated"}
        <5>1. Waiting(c)' = Waiting(c)
          BY <4>1, <4>2, <4>5
        <5>2. heard'[c] = heard[c] /\ welcomed'[c] = welcomed[c]
          BY <1>1, <4>5
        <5> QED
          BY <2>2, <3>1, <3>3, <5>1, <5>2
      <4> QED
        BY <4>3, <4>4, <4>5
    <3> QED
      BY <3>2, <3>3
  <2> QED
    BY <1>1, <2>1, <2>3 DEF HeardIsBounded
<1> QED
  BY <1>6, <1>7, <1>8, <1>9, <1>10, <1>11 DEF Inv

-----------------------------------------------------------------------------
(* Updates of tasks.                                                       *)

LEMMA BroadcastKeeps ==
    ASSUME Inv, NEW t \in TaskIds, Broadcast(t)
    PROVE  Inv'
<1> DEFINE task == rooms[<<"task", t>>]
           owner == rooms[<<"user", Owner[t]>>]
           one == <<"task:updated">>
<1>1. /\ sent' = sent + 1 /\ outbox' = Emit(Emit(outbox, task, one), owner, one)
      /\ UNCHANGED <<live, rooms, connectedUsers, userSockets, userPresence, typingUsers>>
      /\ UNCHANGED <<state, socket, promise, attempts, listeners, currentTaskId, buffer, inbox>>
      /\ UNCHANGED <<turned, heard, welcomed>>
  BY DEF Broadcast, BroadcastTaskUpdate, ToRooms, client
<1>2. /\ Owner[t] \in Users /\ Owner[t] # Null
      /\ <<"task", t>> \in Rooms /\ <<"user", Owner[t]>> \in Rooms
  BY PresenceAssumption DEF Rooms
<1>3. /\ outbox \in [Sockets -> Seq(Event)] /\ task \subseteq live /\ owner \subseteq live
      /\ live \subseteq Sockets /\ \A d \in Clients : Up(d) => socket[d] \in live
  BY <1>2 DEF Inv, ServerTyped, Forgotten, Linked
<1> HIDE DEF task, owner
<1> DEFINE first(r) == IF r \in task THEN outbox[r] \o one ELSE outbox[r]
<1>4. \A r \in Sockets : /\ first(r) \in Seq(Event)
                         /\ outbox'[r] = IF r \in owner THEN first(r) \o one ELSE first(r)
                         /\ outbox'[r] \in Seq(Event)
  <2>1. one \in Seq(Event)
    BY AnswersAreSent
  <2>2. \A r \in Sockets : first(r) \in Seq(Event)
    BY <1>3, <2>1, QueueExtended
  <2>3. \A r \in Sockets : outbox'[r] = IF r \in owner THEN first(r) \o one ELSE first(r)
    BY <1>1 DEF Emit
  <2> HIDE DEF first
  <2>4. \A r \in Sockets : first(r) \o one \in Seq(Event)
    BY <2>1, <2>2, QueueExtended
  <2> QED
    BY <2>2, <2>3, <2>4
<1>5. \A r \in Sockets \ live : outbox'[r] = outbox[r]
  BY <1>3, <1>4
<1>6. \A r \in Sockets : AnswerBefore(outbox[r]) => AnswerBefore(outbox'[r])
  <2> SUFFICES ASSUME NEW r \in Sockets, AnswerBefore(outbox[r])
               PROVE  AnswerBefore(outbox'[r])
    OBVIOUS
  <2>1. one \in Seq(Event) /\ AnswerBefore(one)
    BY AnswersAreSent
  <2>2. AnswerBefore(first(r))
    BY <1>3, <2>1, AnswerStaysFirst
  <2> HIDE DEF first
  <2> QED
    BY <1>4, <2>1, <2>2, AnswerStaysFirst
<1>7. \A r \in Sockets :
         /\ Updates(outbox[r]) \in Nat
         /\ Updates(outbox'[r]) = Updates(outbox[r]) + (IF r \in task THEN 1 ELSE 0)
                                                     + (IF r \in owner THEN 1 ELSE 0)
  <2> SUFFICES ASSUME NEW r \in Sockets
               PROVE  /\ Updates(outbox[r]) \in Nat
                      /\ Updates(outbox'[r]) = Updates(outbox[r]) + (IF r \in task THEN 1 ELSE 0)
                                                                  + (IF r \in owner THEN 1 ELSE 0)
    OBVIOUS
  <2>1. outbox[r] \in Seq(Event)
    BY <1>3
  <2>2. Updates(outbox[r]) \in Nat
    BY <2>1, UpdatesAreCounted
  <2>3. Updates(first(r)) = Updates(outbox[r]) + (IF r \in task THEN 1 ELSE 0)
    BY <2>1, <2>2, UpdateAppended
  <2> HIDE DEF first
  <2>4. Updates(outbox'[r]) = Updates(first(r)) + (IF r \in owner THEN 1 ELSE 0)
    <3>1. first(r) \in Seq(Event) /\ Updates(first(r)) \in Nat
      BY <1>4, UpdatesAreCounted
    <3> QED
      BY <1>4, <3>1, UpdateAppended
  <2> QED
    BY <2>2, <2>3, <2>4
<1>8. ServerTyped' /\ ClientTyped'
  <2>1. outbox' \in [Sockets -> Seq(Event)]
    <3>1. outbox' = [r \in Sockets |-> outbox'[r]]
      BY <1>1 DEF Emit
    <3> QED
      BY <1>4, <3>1
  <2>2. sent' \in Nat
    BY <1>1 DEF Inv, ClientTyped
  <2> QED
    BY <1>1, <2>1, <2>2 DEF Inv, ServerTyped, ClientTyped
<1>9. Linked' /\ KnownByToken' /\ UserRooms' /\ PresenceFollowsSockets' /\ AuthenticatesOnce'
  BY <1>1 DEF Inv, Linked, KnownByToken, UserRooms, PresenceFollowsSockets, AuthenticatesOnce, Up
<1>10. Forgotten'
  BY <1>1, <1>5 DEF Inv, Forgotten
<1>11. AnswerComesFirst'
  BY <1>1, <1>3, <1>6 DEF Inv, AnswerComesFirst, Up
<1>12. HeardIsBounded'
  <2>1. ASSUME turned = {}, NEW d \in Clients
        PROVE  /\ Waiting(d)' <= Copies(d)'
               /\ heard'[d] <= welcomed'[d] * (Copies(d)' - Waiting(d)')
    <3>1. /\ Waiting(d) <= Copies(d) /\ heard[d] <= welcomed[d] * (Copies(d) - Waiting(d))
          /\ Waiting(d) \in Nat /\ Copies(d) \in Nat
          /\ heard[d] \in Nat /\ welcomed[d] \in Nat /\ sent \in Nat
      BY <2>1, WaitingIsNat DEF Inv, HeardIsBounded, ClientTyped
    <3>2. Up(d) /\ socket[d] \in owner => Owns(d)
      <4> SUFFICES ASSUME Up(d), socket[d] \in owner PROVE Owns(d)
        OBVIOUS
      <4>1. connectedUsers[socket[d]] = Owner[t]
        BY <1>2, <2>1 DEF Inv, UserRooms, owner
      <4>2. connectedUsers[socket[d]] \in {Null, Token[d]}
        BY <2>1 DEF Inv, KnownByToken
      <4> QED
        BY <1>2, <4>1, <4>2 DEF Owns
    <3>3. Copies(d)' = Copies(d) + (IF Owns(d) THEN 2 ELSE 1)
      BY <1>1, <3>1 DEF Copies, Owns
    <3>4. /\ Waiting(d)' \in Nat
          /\ Waiting(d)' - Waiting(d) <= IF Owns(d) THEN 2 ELSE 1
      <4>1. CASE Up(d)
        <5>1. socket[d] \in Sockets
          BY <1>3, <4>1
        <5>2. Waiting(d) = Updates(outbox[socket[d]]) /\ Waiting(d)' = Updates(outbox'[socket[d]])
          BY <1>1, <4>1 DEF Waiting, Up
        <5> QED
          BY <1>7, <3>1, <3>2, <4>1, <5>1, <5>2
      <4>2. CASE ~ Up(d)
        BY <1>1, <3>1, <4>2 DEF Waiting, Up
      <4> QED
        BY <4>1, <4>2
    <3>5. /\ Copies(d)' \in Nat /\ Waiting(d)' <= Copies(d)'
          /\ Copies(d) - Waiting(d) <= Copies(d)' - Waiting(d)'
      BY <3>1, <3>3, <3>4
    <3> DEFINE a == Copies(d) - Waiting(d)
               b == Copies(d)' - Waiting(d)'
    <3>6. a \in Nat /\ b \in Nat /\ a <= b
      BY <3>1, <3>4, <3>5
    <3>7. heard[d] <= welcomed[d] * a
      BY <3>1
    <3> HIDE DEF a, b
    <3>8. heard[d] <= welcomed[d] * b
      <4>1. welcomed[d] * a <= welcomed[d] * b
        BY <3>1, <3>6, MoreTimes
      <4>2. welcomed[d] * a \in Nat /\ welcomed[d] * b \in Nat
        BY <3>1, <3>6
      <4> QED
        BY <3>1, <3>7, <4>1, <4>2
    <3>9. heard'[d] <= welcomed'[d] * b
      BY <1>1, <3>8
    <3> QED
      BY <3>5, <3>9 DEF b
  <2> QED
    BY <1>1, <2>1 DEF Inv, HeardIsBounded
<1> QED
  BY <1>8, <1>9, <1>10, <1>11, <1>12 DEF Inv

LEMMA StutteringKeeps ==
    ASSUME Inv, UNCHANGED vars
    PROVE  Inv'
<1>1. /\ UNCHANGED <<live, rooms, connectedUsers, userSockets, userPresence, typingUsers, outbox>>
      /\ UNCHANGED <<state, socket, promise, attempts, listeners, currentTaskId, buffer, inbox>>
      /\ UNCHANGED <<turned, sent, heard, welcomed>>
  BY DEF vars, server, client, history
<1>2. ServerTyped' /\ ClientTyped'
  BY <1>1 DEF Inv, ServerTyped, ClientTyped
<1>3. Linked' /\ Forgotten' /\ AuthenticatesOnce' /\ KnownByToken' /\ UserRooms'
  BY <1>1 DEF Inv, Linked, Forgotten, AuthenticatesOnce, KnownByToken, UserRooms, Up
<1>4. PresenceFollowsSockets' /\ AnswerComesFirst' /\ HeardIsBounded'
  BY <1>1 DEF Inv, PresenceFollowsSockets, AnswerComesFirst, HeardIsBounded, Up, Waiting, Copies
<1> QED
  BY <1>2, <1>3, <1>4 DEF Inv

(* The endpoints find no service, whatever is asked.                       *)
LEMMA RequestsChangeNothing ==
    ASSUME NEW endpoint, NEW body, NEW t, HttpRequest(endpoint, body, t)
    PROVE  UNCHANGED vars
<1>1. EndpointError(endpoint, body) # 0
  BY DEF EndpointError, WsService
<1> QED
  BY <1>1 DEF HttpRequest, Request, vars

-----------------------------------------------------------------------------
(* The invariant holds.                                                    *)

LEMMA InvInit == Init => Inv
<1> SUFFICES ASSUME Init PROVE Inv
  OBVIOUS
<1>1. /\ live = {} /\ rooms = [r \in Rooms |-> {}] /\ outbox = [s \in Sockets |-> <<>>]
      /\ connectedUsers = [s \in Sockets |-> Null] /\ userSockets = [u \in Users |-> {}]
      /\ userPresence = [u \in Users |-> [status |-> "none", currentTask |-> Null]]
      /\ typingUsers = [t \in TaskIds |-> {}]
  BY DEF Init, InitPresence
<1>2. /\ state = [c \in Clients |-> "new"] /\ socket = [c \in Clients |-> Null]
      /\ buffer = [c \in Clients |-> <<>>] /\ inbox = [s \in Sockets |-> <<>>]
      /\ listeners = [c \in Clients |-> 0] /\ heard = [c \in Clients |-> 0]
      /\ welcomed = [c \in Clients |-> 0] /\ turned = {} /\ sent = 0
  BY DEF Init
<1>3. ServerTyped
  <2>1. \A A : <<>> \in Seq(A)
    OBVIOUS
  <2>2. userPresence \in [Users -> UserPresence]
    BY <1>1 DEF UserPresence
  <2>3. outbox \in [Sockets -> Seq(Event)]
    BY <1>1, <2>1
  <2> QED
    BY <1>1, <2>2, <2>3, FS_EmptySet DEF ServerTyped
<1>4. ClientTyped
  <2>1. buffer \in [Clients -> Seq(Message)] /\ inbox \in [Sockets -> Seq(Message)]
    <3>1. <<>> \in Seq(Message)
      OBVIOUS
    <3> QED
      BY <1>2, <3>1
  <2>2. attempts \in [Clients -> 0 .. MaxAttempts]
    BY ClientAssumption DEF Init
  <2> QED
    BY <1>2, <2>1, <2>2 DEF Init, ClientTyped
<1>5. \A c \in Clients : ~ Up(c)
  BY <1>2 DEF Up
<1>6. Linked /\ KnownByToken /\ AnswerComesFirst
  BY <1>2, <1>5 DEF Linked, KnownByToken, AnswerComesFirst
<1>7. Forgotten /\ UserRooms
  <2>1. \A r \in Rooms : rooms[r] = {}
    BY <1>1
  <2>2. \A u \in Users : <<"user", u>> \in Rooms
    BY DEF Rooms
  <2> QED
    BY <1>1, <2>1, <2>2 DEF Forgotten, UserRooms
<1>8. AuthenticatesOnce
  <2>1. \A c \in Clients : Len(buffer[c]) = 0
    BY <1>2
  <2> QED
    BY <1>1, <2>1 DEF AuthenticatesOnce
<1>9. PresenceFollowsSockets
  BY <1>1 DEF PresenceFollowsSockets
<1>10. HeardIsBounded
  <2>1. \A c \in Clients : Waiting(c) = 0 /\ Copies(c) = 0
    BY <1>2, <1>5 DEF Waiting, Copies
  <2> QED
    BY <1>2, <2>1 DEF HeardIsBounded
<1> QED
  BY <1>3, <1>4, <1>6, <1>7, <1>8, <1>9, <1>10 DEF Inv

LEMMA InvNext == Inv /\ [Next]_vars => Inv'
<1> SUFFICES ASSUME Inv, [Next]_vars PROVE Inv'
  OBVIOUS
<1>1. CASE UNCHANGED vars
  BY <1>1, StutteringKeeps
<1>2. ASSUME NEW c \in Clients,
             \/ Connect(c) \/ Established(c) \/ ConnectError(c) \/ Drop(c)
             \/ Disconnect(c) \/ Receive(c)
      PROVE  Inv'
  BY <1>2, ConnectKeeps, EstablishedKeeps, ConnectErrorKeeps, DropKeeps, DisconnectKeeps,
     ReceiveKeeps
<1>3. ASSUME NEW c \in Clients,
             \/ \E t \in TaskIds : \/ JoinTask(c, t)
                                   \/ \E typing \in BOOLEAN : SetTyping(c, t, typing)
             \/ \E t \in TaskIds \cup {Null} : LeaveTask(c, t)
             \/ \E status \in {"online", "away"} : UpdatePresence(c, status)
      PROVE  Inv'
  BY <1>3, ApplicationKeeps
<1>4. ASSUME NEW c \in Clients, NEW u \in Users, AuthenticateAgain(c, u)
      PROVE  Inv'
  BY <1>4, AuthenticateAgainKeeps
<1>5. ASSUME NEW s \in Sockets, Handle(s) \/ NoticeGone(s)
      PROVE  Inv'
  BY <1>5, HandleKeeps, NoticeGoneKeeps
<1>6. ASSUME NEW t \in TaskIds, Broadcast(t)
      PROVE  Inv'
  BY <1>6, BroadcastKeeps
<1>7. ASSUME \E endpoint \in Readers \cup DOMAIN Wanted, t \in TaskIds :
                \E body \in {{}, {"event", "message", "taskId", "type", "action"}} :
                   HttpRequest(endpoint, body, t)
      PROVE  Inv'
  BY <1>7, RequestsChangeNothing, StutteringKeeps
<1> QED
  BY <1>1, <1>2, <1>3, <1>4, <1>5, <1>6, <1>7 DEF Next

-----------------------------------------------------------------------------
(* What follows from it.                                                   *)

LEMMA InvIsTyped == Inv => TypeOK
<1> SUFFICES ASSUME Inv PROVE TypeOK
  OBVIOUS
<1>1. /\ \A s \in Sockets : \A n \in DOMAIN outbox[s] : outbox[s][n] \in Event
      /\ \A c \in Clients : \A n \in DOMAIN buffer[c] : buffer[c][n] \in Message
      /\ \A s \in Sockets : \A n \in DOMAIN inbox[s] : inbox[s][n] \in Message
  <2>1. ASSUME NEW A, NEW q \in Seq(A) PROVE \A n \in DOMAIN q : q[n] \in A
    OBVIOUS
  <2>2. /\ \A s \in Sockets : outbox[s] \in Seq(Event) /\ inbox[s] \in Seq(Message)
        /\ \A c \in Clients : buffer[c] \in Seq(Message)
    BY DEF Inv, ServerTyped, ClientTyped
  <2> QED
    BY <2>1, <2>2
<1>2. PresenceOK
  BY <1>1 DEF Inv, ServerTyped, PresenceOK
<1> QED
  BY <1>1, <1>2 DEF Inv, ClientTyped, TypeOK

LEMMA ListIsHeard == Inv => PresenceListIsHeard
<1> SUFFICES ASSUME Inv, NEW c \in Clients, Up(c), outbox[socket[c]] # <<>>,
                    Head(outbox[socket[c]]) = "presence:list"
             PROVE  listeners[c] > 0
  BY DEF PresenceListIsHeard
<1> DEFINE q == outbox[socket[c]]
<1>1. q \in Seq(Event)
  BY DEF Inv, ServerTyped, Linked
<1>2. q[1] = "presence:list" /\ 1 \in 1 .. Len(q)
  BY <1>1, TailOfQueue
<1> HIDE DEF q
<1>3. ~ AnswerBefore(q)
  <2>1. 1 .. 1 - 1 = {}
    OBVIOUS
  <2> QED
    BY <1>2, <2>1 DEF AnswerBefore
<1>4. listeners[c] # 0
  BY <1>3 DEF Inv, AnswerComesFirst, q
<1> QED
  BY <1>4 DEF Inv, ClientTyped

LEMMA DuplicatesAreExplained == Inv => DuplicatesExplained
<1> SUFFICES ASSUME Inv, turned = {}, NEW c \in Clients
             PROVE  heard[c] <= sent * welcomed[c] *
                       (IF \E t \in TaskIds : Owner[t] = Token[c] THEN 2 ELSE 1)
  BY DEF DuplicatesExplained
<1>1. /\ Waiting(c) <= Copies(c) /\ heard[c] <= welcomed[c] * (Copies(c) - Waiting(c))
      /\ Waiting(c) \in Nat /\ Copies(c) \in Nat
      /\ heard[c] \in Nat /\ welcomed[c] \in Nat /\ sent \in Nat
  BY WaitingIsNat DEF Inv, HeardIsBounded, ClientTyped
<1>2. heard[c] <= welcomed[c] * Copies(c)
  <2> DEFINE a == Copies(c) - Waiting(c)
  <2>1. a \in Nat /\ a <= Copies(c) /\ heard[c] <= welcomed[c] * a
    BY <1>1
  <2> HIDE DEF a
  <2>2. /\ welcomed[c] * a <= welcomed[c] * Copies(c)
        /\ welcomed[c] * a \in Nat /\ welcomed[c] * Copies(c) \in Nat
    BY <1>1, <2>1, MoreTimes
  <2> QED
    BY <1>1, <2>1, <2>2
<1>3. CASE Owns(c)
  <2>1. Copies(c) = sent + sent
    BY <1>3 DEF Copies
  <2>2. welcomed[c] * (sent + sent) = sent * welcomed[c] * 2
    BY <1>1
  <2> QED
    BY <1>2, <1>3, <2>1, <2>2 DEF Owns
<1>4. CASE ~ Owns(c)
  <2>1. Copies(c) = sent
    BY <1>4 DEF Copies
  <2>2. welcomed[c] * sent = sent * welcomed[c] * 1
    BY <1>1
  <2> QED
    BY <1>2, <1>4, <2>1, <2>2 DEF Owns
<1> QED
  BY <1>3, <1>4

LEMMA StatsDoAgree == Inv => StatsAgree
<1> DEFINE known == {s \in Sockets : connectedUsers[s] # Null}
           looking == {pair \in Users \X TaskIds : pair[1] \in GetUsersInTask(pair[2])}
<1> SUFFICES ASSUME Inv, turned = {}
             PROVE  /\ Cardinality(looking) <= Cardinality(GetOnlineUsers)
                    /\ Cardinality(GetOnlineUsers) <= Cardinality(known)
                    /\ Cardinality(known) <= Cardinality(live)
  BY DEF StatsAgree, GetStats
<1>1. IsFiniteSet(known) /\ Cardinality(known) <= Cardinality(live)
  <2>1. known \in SUBSET live /\ IsFiniteSet(live)
    BY DEF Inv, ServerTyped, Forgotten
  <2> QED
    BY <2>1, FS_Subset
<1>2. IsFiniteSet(GetOnlineUsers) /\ Cardinality(GetOnlineUsers) <= Cardinality(known)
  <2> DEFINE named == {connectedUsers[s] : s \in known}
             f == [s \in known |-> connectedUsers[s]]
  <2>1. f \in Surjection(known, named)
    BY DEF Surjection
  <2>2. IsFiniteSet(named) /\ Cardinality(named) <= Cardinality(known)
    BY <1>1, <2>1, FS_Surjection
  <2>3. ASSUME NEW u \in GetOnlineUsers PROVE u \in named
    <3>1. u \in Users /\ userPresence[u].status = "online"
      BY DEF GetOnlineUsers
    <3>2. userSockets[u] # {} /\ userSockets[u] \subseteq {s \in live : connectedUsers[s] = u}
      BY <3>1 DEF Inv, PresenceFollowsSockets
    <3>3. PICK s \in live : connectedUsers[s] = u
      BY <3>2
    <3>4. s \in known
      BY <3>1, <3>3, PresenceAssumption DEF Inv, ServerTyped
    <3> QED
      BY <3>3, <3>4
  <2>4. /\ IsFiniteSet(GetOnlineUsers) /\ Cardinality(GetOnlineUsers) <= Cardinality(named)
    BY <2>2, <2>3, FS_Subset
  <2>5. /\ Cardinality(GetOnlineUsers) \in Nat /\ Cardinality(named) \in Nat
        /\ Cardinality(known) \in Nat
    BY <1>1, <2>2, <2>4, FS_CardinalityType
  <2> QED
    BY <2>2, <2>4, <2>5
<1>3. Cardinality(looking) <= Cardinality(GetOnlineUsers)
  <2> DEFINE f == [pair \in looking |-> pair[1]]
  <2>1. \A pair \in looking : /\ pair[1] \in GetOnlineUsers
                              /\ pair = <<pair[1], userPresence[pair[1]].currentTask>>
    BY DEF GetUsersInTask
  <2>2. f \in Injection(looking, GetOnlineUsers)
    <3>1. f \in [looking -> GetOnlineUsers]
      BY <2>1
    <3>2. \A p, r \in looking : f[p] = f[r] => p = r
      BY <2>1
    <3> QED
      BY <3>1, <3>2 DEF Injection, IsInjective
  <2> QED
    BY <1>2, <2>2, FS_Injection
<1> QED
  BY <1>1, <1>2, <1>3

(* In every state of the sockets, their handlers and the clients: who is   *)
(* shown as present has a registered socket, and the other way round, but  *)
(* for sockets that changed their user; the list of who is online finds a  *)
(* client that listens; no update is heard more often than the listeners   *)
(* and the rooms of its client explain; and the statistics agree.          *)
THEOREM PresenceSound == Spec => []PresenceIsSound
<1>1. Inv => PresenceIsSound
  BY InvIsTyped, ListIsHeard, DuplicatesAreExplained, StatsDoAgree DEF Inv, PresenceIsSound
<1> QED
  BY <1>1, InvInit, InvNext, PTL DEF Spec

=============================================================================
