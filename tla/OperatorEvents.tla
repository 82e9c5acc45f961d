--------------------------- MODULE OperatorEvents ---------------------------
(***************************************************************************)
(* How the robot's events reach the operators' browsers                     *)
(* (bonbon_operator_api): the bridge puts events on an asyncio queue, a     *)
(* dispatcher and a status broadcaster send to the WebSockets of a channel, *)
(* and a handler per connection registers it, keeps it alive and removes    *)
(* it.  All of it are coroutines of one event loop: a step is what runs     *)
(* between two awaits.  A connection is used once; who comes back opens     *)
(* another one.  Authentication, message texts and the order in which a      *)
(* broadcast visits its connections are left out.                           *)
(***************************************************************************)
EXTENDS Integers, SequencesExt

CONSTANTS
  Clients,     \* connections
  Users,
  UserOf,      \* the user of a connection
  MaxPerUser,  \* _MAX_CONNECTIONS_PER_USER
  QueueSize,   \* maxsize of the event queue
  MaxEvents    \* bound of the model: events the robot emits

ASSUME EventsAssumption ==
  /\ IsFiniteSet(Clients) /\ UserOf \in [Clients -> Users]
  /\ MaxPerUser \in Nat \ {0} /\ QueueSize \in Nat \ {0} /\ MaxEvents \in Nat

VARIABLES
  handler,     \* where websocket_channel() is, per connection
  link,        \* per connection, whether its other end is there
  watchers,    \* connections to the channel the events are for; the others are to robot-status
  seen,        \* the count that connect() read before its await
  registered,  \* the connections in _channels
  count,       \* _user_conn_count; 0 stands for no entry
  emitted,     \* events emitted so far; they are numbered
  ready,       \* put() coroutines the loop will run next
  queue,       \* the event queue
  waiting,     \* put() coroutines that wait for room
  broadcast,   \* per task, the broadcast it is in
  inbox,       \* events a connection has been sent
  overtaken,   \* history: users of whom connect() wrote back an outdated count
  waited       \* history: some put() had to wait

loopVars == <<emitted, ready, queue, waiting, waited>>
vars == <<handler, link, watchers, seen, registered, count, broadcast, inbox, overtaken, loopVars>>

Task == {"dispatcher", "status"}

Quiet == [event |-> 0, todo |-> {}, dead |-> {}]

TypeOK ==
  /\ handler \in [Clients -> {"new", "accepting", "sending", "receiving", "ended"}]
  /\ link \in [Clients -> {"up", "gone"}]
  /\ watchers \subseteq Clients
  /\ seen \in [Clients -> 0..MaxPerUser - 1]
  /\ registered \subseteq Clients
  /\ count \in [Users -> 0..MaxPerUser]
  /\ emitted \in 0..MaxEvents
  /\ {ready, queue, waiting} \subseteq Seq(1..emitted) /\ Len(queue) <= QueueSize
  /\ broadcast \in [Task -> [event : 0..emitted, todo : SUBSET Clients, dead : SUBSET Clients]]
  /\ inbox \in [Clients -> Seq(1..emitted)]
  /\ overtaken \subseteq Users /\ waited \in BOOLEAN

Init ==
  /\ handler = [c \in Clients |-> "new"]
  /\ link = [c \in Clients |-> "up"]
  /\ watchers = {}
  /\ seen = [c \in Clients |-> 0]
  /\ registered = {} /\ count = [u \in Users |-> 0]
  /\ emitted = 0 /\ ready = <<>> /\ queue = <<>> /\ waiting = <<>>
  /\ broadcast = [t \in Task |-> Quiet]
  /\ inbox = [c \in Clients |-> <<>>]
  /\ overtaken = {} /\ waited = FALSE

Of(u, S) == {c \in S : UserOf[c] = u}

-----------------------------------------------------------------------------
(* WebSocketConnectionManager.disconnect(), for some connections in a row. *)

Unregister(D) == registered' = registered \ D

\* Fault injection: a connection that is not registered any more is counted down again.
DisconnectTwice(D) ==
  /\ Unregister(D)
  /\ count' = [u \in Users |-> IF count[u] > Cardinality(Of(u, D))
                               THEN count[u] - Cardinality(Of(u, D)) ELSE 0]

Disconnect(D) ==
  /\ Unregister(D)
  /\ count' = [u \in Users |->
                LET closed == Cardinality(Of(u, D \cap registered))
                IN  IF count[u] > closed THEN count[u] - closed ELSE 0]

-----------------------------------------------------------------------------
(* A connection: websocket_channel() and connect(). *)

Goto(c, place) == handler' = [handler EXCEPT ![c] = place]

\* The limit is checked before accept() is awaited.
Open(c) ==
  /\ handler[c] = "new"
  /\ IF count[UserOf[c]] < MaxPerUser
     THEN /\ Goto(c, "accepting")
          /\ seen' = [seen EXCEPT ![c] = count[UserOf[c]]]
          /\ watchers' \in {watchers, watchers \cup {c}}
     ELSE Goto(c, "ended") /\ UNCHANGED <<seen, watchers>>
  /\ UNCHANGED <<link, registered, count, broadcast, inbox, overtaken, loopVars>>

\* After it the connection is registered with the count as it was read.
Accepted(c) ==
  /\ handler[c] = "accepting"
  /\ Goto(c, "sending")
  /\ registered' = registered \cup {c}
  /\ count' = [count EXCEPT ![UserOf[c]] = seen[c] + 1]
  /\ seen' = [seen EXCEPT ![c] = 0]
  /\ overtaken' = IF count[UserOf[c]] = seen[c] THEN overtaken ELSE overtaken \cup {UserOf[c]}
  /\ UNCHANGED <<link, watchers, broadcast, inbox, loopVars>>

AcceptFails(c) ==
  /\ handler[c] = "accepting" /\ link[c] = "gone"
  /\ Goto(c, "ended")
  /\ seen' = [seen EXCEPT ![c] = 0]
  /\ UNCHANGED <<link, watchers, registered, count, broadcast, inbox, overtaken, loopVars>>

\* A welcome, a pong or a ping: send_to_websocket() swallows the error, and the handler goes on.
Sent(c) ==
  /\ handler[c] = "sending"
  /\ Goto(c, "receiving")
  /\ \/ UNCHANGED <<registered, count>>
     \/ link[c] = "gone" /\ Disconnect({c})
  /\ UNCHANGED <<link, watchers, seen, broadcast, inbox, overtaken, loopVars>>

\* A ping of the client, or 30 s without one.
Receive(c) ==
  /\ handler[c] = "receiving" /\ link[c] = "up"
  /\ Goto(c, "sending")
  /\ UNCHANGED <<link, watchers, seen, registered, count, broadcast, inbox, overtaken, loopVars>>

\* Fault injection: only a broadcast removes what is gone.
LeaveRegistered(c) ==
  /\ handler[c] = "receiving" /\ link[c] = "gone"
  /\ Goto(c, "ended")
  /\ UNCHANGED <<link, watchers, seen, registered, count, broadcast, inbox, overtaken, loopVars>>

\* receive_json() raises on a connection that is gone; the finally clause removes it.
Leave(c) ==
  /\ handler[c] = "receiving" /\ link[c] = "gone"
  /\ Goto(c, "ended")
  /\ Disconnect({c})
  /\ UNCHANGED <<link, watchers, seen, broadcast, inbox, overtaken, loopVars>>

\* Text that is no JSON ends the handler, and with it the connection.
Malformed(c) ==
  /\ handler[c] = "receiving" /\ link[c] = "up"
  /\ Goto(c, "ended")
  /\ link' = [link EXCEPT ![c] = "gone"]
  /\ Disconnect({c})
  /\ UNCHANGED <<watchers, seen, broadcast, inbox, overtaken, loopVars>>

\* The client closes, or its network fails.
Break(c) ==
  /\ handler[c] \in {"accepting", "sending", "receiving"} /\ link[c] = "up"
  /\ link' = [link EXCEPT ![c] = "gone"]
  /\ UNCHANGED <<handler, watchers, seen, registered, count, broadcast, inbox, overtaken, loopVars>>

-----------------------------------------------------------------------------
(* From the ROS thread to the queue: asyncio.Queue.put() of each event. *)

clientVars == <<handler, link, watchers, seen, registered, count, inbox, overtaken>>

Emit ==
  /\ emitted < MaxEvents
  /\ emitted' = emitted + 1
  /\ ready' = Append(ready, emitted + 1)
  /\ UNCHANGED <<clientVars, broadcast, queue, waiting, waited>>

\* Fault injection: put_nowait(), with its exception swallowed.
RunPutDrops ==
  /\ ready # <<>>
  /\ ready' = Tail(ready)
  /\ queue' = IF Len(queue) < QueueSize THEN Append(queue, Head(ready)) ELSE queue
  /\ UNCHANGED <<clientVars, broadcast, emitted, waiting, waited>>

\* A put() that was woken, but finds the queue full again, waits at the end once more.
RunPut ==
  /\ ready # <<>>
  /\ ready' = Tail(ready)
  /\ IF Len(queue) < QueueSize
     THEN queue' = Append(queue, Head(ready)) /\ UNCHANGED <<waiting, waited>>
     ELSE waiting' = Append(waiting, Head(ready)) /\ waited' = TRUE /\ queue' = queue
  /\ UNCHANGED <<clientVars, broadcast, emitted>>

-----------------------------------------------------------------------------
(* _event_dispatcher() and _status_broadcaster(). *)

\* broadcast() sends to those who are on the channel when it begins.
Begin(t, event) ==
  broadcast' = [broadcast EXCEPT ![t] =
    [event |-> event, dead |-> {},
     todo |-> {c \in registered : (c \in watchers) = (t = "dispatcher")}]]

\* queue.get() wakes the first put() that waits.
Dispatch ==
  /\ broadcast["dispatcher"].todo = {}
  /\ queue # <<>>
  /\ queue' = Tail(queue)
  /\ IF waiting = <<>> THEN UNCHANGED <<ready, waiting>>
     ELSE ready' = Append(ready, Head(waiting)) /\ waiting' = Tail(waiting)
  /\ Begin("dispatcher", Head(queue))
  /\ UNCHANGED <<clientVars, emitted, waited>>

StatusUpdate ==
  /\ broadcast["status"].todo = {}
  /\ Begin("status", 0)
  /\ UNCHANGED <<clientVars, loopVars>>

\* One send of a broadcast, and what follows when some connections are left or none is.
Deliver(t, c) ==
  inbox' = IF t = "dispatcher" /\ link[c] = "up"
           THEN [inbox EXCEPT ![c] = Append(@, broadcast[t].event)] ELSE inbox

Continue(t, todo, dead) ==
  IF todo = {}
  THEN broadcast' = [broadcast EXCEPT ![t] = Quiet] /\ Disconnect(dead)
  ELSE /\ broadcast' = [broadcast EXCEPT ![t].todo = todo, ![t].dead = dead]
       /\ UNCHANGED <<registered, count>>

\* Fault injection: the exception of one send ends the broadcast.
SendNextGivesUp(t) ==
  /\ \E c \in broadcast[t].todo : \E failed \in {link[c] = "gone", FALSE} :
       /\ Deliver(t, c)
       /\ Continue(t, IF failed THEN {} ELSE broadcast[t].todo \ {c}, IF failed THEN {c} ELSE {})
  /\ UNCHANGED <<handler, link, watchers, seen, overtaken, loopVars>>

\* A send to a connection that is gone raises, or is lost without a word.
SendNext(t) ==
  /\ \E c \in broadcast[t].todo : \E failed \in {link[c] = "gone", FALSE} :
       /\ Deliver(t, c)
       /\ Continue(t, broadcast[t].todo \ {c}, broadcast[t].dead \cup IF failed THEN {c} ELSE {})
  /\ UNCHANGED <<handler, link, watchers, seen, overtaken, loopVars>>

-----------------------------------------------------------------------------
Connection(c) ==
  \/ Open(c) \/ Accepted(c) \/ AcceptFails(c) \/ Sent(c)
  \/ Receive(c) \/ Leave(c) \/ Malformed(c) \/ Break(c)

Next ==
  \/ \E c \in Clients : Connection(c)
  \/ Emit \/ RunPut \/ Dispatch \/ StatusUpdate
  \/ \E t \in Task : SendNext(t)

Spec == Init /\ [][Next]_vars

\* The event loop runs what is ready, and a send returns: the server's own ping ends a
\* connection that takes nothing any more.  Clients, the robot and the network owe nothing.
FairSpec ==
  /\ Spec
  /\ \A c \in Clients :
       WF_vars(Accepted(c) \/ AcceptFails(c)) /\ WF_vars(Sent(c)) /\ WF_vars(Leave(c))
  /\ WF_vars(RunPut) /\ WF_vars(Dispatch) /\ \A t \in Task : WF_vars(SendNext(t))

-----------------------------------------------------------------------------
\* The count of a user's connections (ws_manager.py:48) is the number of those that are
\* registered, and within the limit, however broadcasts, handlers and failing sends remove
\* connections -- until a connect() writes back a count that changed during its await.
CountedRight ==
  \A u \in Users \ overtaken :
    /\ count[u] = Cardinality(Of(u, registered))
    /\ count[u] <= MaxPerUser

\* An operator sees the events in the order the robot emitted them and without a gap, from
\* his registration on, until an event had to wait for room in the queue; and none twice
\* even then (broadcast() and _emit_event()).
InOrder ==
  \A c \in Clients :
    /\ IsInjective(inbox[c])
    /\ ~waited => \A i \in 1..Len(inbox[c]) - 1 : inbox[c][i + 1] = inbox[c][i] + 1

Pending(e) == e \in ToSet(ready \o queue \o waiting)

\* Whoever is registered while an event is on its way gets it or is gone: neither a full
\* queue nor the failing connections of others lose it (main.py:207).
EventsArrive ==
  \A e \in 1..MaxEvents, c \in Clients :
    (Pending(e) /\ c \in watchers \cap registered) ~> (e \in ToSet(inbox[c]) \/ link[c] = "gone")

\* The handler of a broken connection ends and nothing of it stays registered, wherever it
\* breaks and whether or not there is something to send to it (ws_router.py:121).
BrokenLeaves ==
  \A c \in Clients :
    (link[c] = "gone" /\ handler[c] # "new")
      ~> (handler[c] = "ended" /\ c \notin registered)
=============================================================================
