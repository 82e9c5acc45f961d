------------------------ MODULE OperatorEventsProofs ------------------------
(* Theorems about the operators' event stream, for every number of          *)
(* connections, users, events and places in the queue, and every limit per  *)
(* user.                                                                    *)
EXTENDS OperatorEvents, FiniteSetTheorems, SequenceTheorems, TLAPS

-----------------------------------------------------------------------------
(* Sequences without repetition. *)

\* Appending adds one element, and repeats nothing if the element is new.
LEMMA Appended ==
  ASSUME NEW S, NEW s \in Seq(S), NEW e \in S
  PROVE  /\ Append(s, e) \in Seq(S) /\ Len(Append(s, e)) = Len(s) + 1
         /\ ToSet(Append(s, e)) = ToSet(s) \cup {e}
         /\ IsInjective(s) /\ e \notin ToSet(s) => IsInjective(Append(s, e))
<1> DEFINE r == Append(s, e)
<1>1. /\ r \in Seq(S) /\ Len(r) = Len(s) + 1 /\ Len(s) \in Nat
      /\ \A i \in 1..Len(s) : r[i] = s[i]
      /\ r[Len(s) + 1] = e
  BY AppendProperties, LenProperties
<1>2. DOMAIN r = 1..Len(s) + 1 /\ DOMAIN s = 1..Len(s)
  BY <1>1, LenProperties
<1> HIDE DEF r
<1>3. ToSet(r) = ToSet(s) \cup {e}
  <2>1. \A i \in 1..Len(s) + 1 : i = Len(s) + 1 \/ i \in 1..Len(s)
    BY <1>1
  <2>2. Len(s) + 1 \in 1..Len(s) + 1 /\ 1..Len(s) \subseteq 1..Len(s) + 1
    BY <1>1
  <2> QED BY <1>1, <1>2, <2>1, <2>2 DEF ToSet
<1>4. ASSUME IsInjective(s), e \notin ToSet(s)
      PROVE  IsInjective(r)
  <2>1. SUFFICES ASSUME NEW i \in 1..Len(s) + 1, NEW j \in 1..Len(s) + 1, r[i] = r[j]
                 PROVE  i = j
    BY <1>2 DEF IsInjective
  <2>2. \A k \in 1..Len(s) : s[k] # e
    BY <1>2, <1>4 DEF ToSet
  <2>3. /\ i \in 1..Len(s) \/ i = Len(s) + 1
        /\ j \in 1..Len(s) \/ j = Len(s) + 1
    BY <1>1
  <2>4. CASE i \in 1..Len(s) /\ j \in 1..Len(s)
    BY <1>1, <1>2, <1>4, <2>1, <2>4 DEF IsInjective
  <2> QED BY <1>1, <2>1, <2>2, <2>3, <2>4
<1> QED BY <1>1, <1>3, <1>4 DEF r

\* The head of a sequence without repetition is not in its tail.
LEMMA HeadAndTail ==
  ASSUME NEW S, NEW s \in Seq(S), s # <<>>
  PROVE  /\ Head(s) \in S /\ Head(s) \in ToSet(s) /\ Head(s) = s[1]
         /\ Tail(s) \in Seq(S) /\ Len(Tail(s)) = Len(s) - 1 /\ Len(s) >= 1
         /\ \A i \in 1..Len(s) - 1 : Tail(s)[i] = s[i + 1]
         /\ ToSet(Tail(s)) \subseteq ToSet(s)
         /\ IsInjective(s) => IsInjective(Tail(s)) /\ Head(s) \notin ToSet(Tail(s))
<1> DEFINE r == Tail(s)
<1>1. /\ Head(s) \in S /\ r \in Seq(S) /\ Len(r) = Len(s) - 1 /\ Len(s) \in Nat
      /\ \A i \in 1..Len(r) : r[i] = s[i + 1]
  BY HeadTailProperties, LenProperties
<1>2. Len(s) >= 1 /\ Head(s) = s[1]
  BY <1>1, EmptySeq
<1>3. DOMAIN r = 1..Len(s) - 1 /\ DOMAIN s = 1..Len(s)
  BY <1>1, LenProperties
<1> HIDE DEF r
<1>4. Head(s) \in ToSet(s)
  BY <1>1, <1>2, <1>3 DEF ToSet
<1>5. \A i \in 1..Len(s) - 1 : i + 1 \in 1..Len(s) /\ r[i] = s[i + 1] /\ i + 1 # 1
  BY <1>1, <1>2
<1>6. ToSet(r) \subseteq ToSet(s)
  BY <1>3, <1>5 DEF ToSet
<1>7. ASSUME IsInjective(s)
      PROVE  IsInjective(r) /\ Head(s) \notin ToSet(r)
  <2>1. \A i \in 1..Len(s) - 1 : s[i + 1] # s[1]
    BY <1>1, <1>2, <1>3, <1>5, <1>7 DEF IsInjective
  <2>2. Head(s) \notin ToSet(r)
    BY <1>2, <1>3, <1>5, <2>1 DEF ToSet
  <2>3. ASSUME NEW i \in 1..Len(s) - 1, NEW j \in 1..Len(s) - 1, r[i] = r[j]
        PROVE  i = j
    <3>1. i + 1 = j + 1
      BY <1>3, <1>5, <1>7, <2>3 DEF IsInjective
    <3> QED BY <3>1
  <2>4. IsInjective(r)
    BY <1>3, <2>3 DEF IsInjective
  <2> QED BY <2>2, <2>4
<1> QED BY <1>1, <1>2, <1>3, <1>4, <1>5, <1>6, <1>7 DEF r

\* What occurs in a sequence of elements of a set is an element of it.
LEMMA Occurring == ASSUME NEW S, NEW s \in Seq(S) PROVE ToSet(s) \subseteq S
BY LenProperties, ElementOfSeq DEF ToSet

\* The empty sequence repeats nothing.
LEMMA EmptySequence ==
  /\ ToSet(<<>>) = {} /\ IsInjective(<<>>) /\ Len(<<>>) = 0
  /\ \A S : <<>> \in Seq(S)
BY EmptySeq DEF ToSet, IsInjective

-----------------------------------------------------------------------------
(* Counting. *)

CountedUser(u) == count[u] = Cardinality(Of(u, registered)) /\ count[u] <= MaxPerUser

\* The connections of one user are finitely many.
LEMMA OfFinite ==
  ASSUME NEW u, NEW S \in SUBSET Clients
  PROVE  IsFiniteSet(Of(u, S)) /\ Cardinality(Of(u, S)) \in Nat
<1>1. Of(u, S) \in SUBSET Clients
  BY DEF Of
<1> QED BY <1>1, EventsAssumption, FS_Subset, FS_CardinalityType

\* disconnect() of some connections keeps a right count right, and any count within its bounds.
LEMMA DisconnectCounts ==
  ASSUME registered \subseteq Clients, count \in [Users -> 0..MaxPerUser], NEW D, Disconnect(D)
  PROVE  /\ registered' = registered \ D
         /\ count' \in [Users -> 0..MaxPerUser]
         /\ \A u \in Users : CountedUser(u) => CountedUser(u)'
<1> DEFINE closed(u) == Cardinality(Of(u, D \cap registered))
<1>1. registered' = registered \ D
  BY DEF Disconnect, Unregister
<1>2. \A u \in Users : closed(u) \in Nat
  BY OfFinite
<1>3. count' = [u \in Users |-> IF count[u] > closed(u) THEN count[u] - closed(u) ELSE 0]
  BY DEF Disconnect
<1>4. MaxPerUser \in Nat /\ \A u \in Users : count[u] \in 0..MaxPerUser
  BY EventsAssumption
<1>5. ASSUME NEW u \in Users, CountedUser(u)
      PROVE  CountedUser(u)'
  <2> DEFINE A == Of(u, registered)
             B == Of(u, D \cap registered)
  <2>1. IsFiniteSet(A) /\ A \ B = Of(u, registered') /\ A \cap B = B
    BY <1>1, OfFinite DEF Of
  <2>2. Cardinality(A \ B) = Cardinality(A) - Cardinality(B)
    <3> HIDE DEF A, B
    <3> QED BY <2>1, FS_Difference
  <2>3. Cardinality(A) \in Nat /\ Cardinality(B) \in Nat /\ Cardinality(A \ B) \in Nat
    BY <1>1, <2>1, OfFinite
  <2>4. count[u] = Cardinality(A) /\ count[u] <= MaxPerUser
    BY <1>5 DEF CountedUser
  <2>5. count'[u] = IF count[u] > Cardinality(B) THEN count[u] - Cardinality(B) ELSE 0
    BY <1>3
  <2>6. count'[u] = Cardinality(A \ B)
    <3> HIDE DEF A, B
    <3> QED BY <2>2, <2>3, <2>4, <2>5
  <2>7. count'[u] <= MaxPerUser
    <3> HIDE DEF A, B
    <3> QED BY <1>4, <2>3, <2>4, <2>5
  <2> QED BY <2>1, <2>6, <2>7 DEF CountedUser
<1>6. count' \in [Users -> 0..MaxPerUser]
  <2> HIDE DEF closed
  <2>1. \A u \in Users : (IF count[u] > closed(u) THEN count[u] - closed(u) ELSE 0) \in 0..MaxPerUser
    BY <1>2, <1>4
  <2> QED BY <1>3, <2>1
<1> QED BY <1>1, <1>5, <1>6

-----------------------------------------------------------------------------
(* The invariant. *)

\* A connection in _channels has a handler that runs.
Registered == \A c \in registered : handler[c] \in {"sending", "receiving"}

Pend == ToSet(ready) \cup ToSet(queue) \cup ToSet(waiting)
Sending == broadcast["dispatcher"]

\* An event is in one place: it waits once, it is the one that is being sent, or it was sent;
\* and whom it is still to be sent to has not got it.
Once ==
  /\ IsInjective(ready) /\ IsInjective(queue) /\ IsInjective(waiting)
  /\ ToSet(ready) \cap ToSet(queue) = {}
  /\ ToSet(waiting) \cap (ToSet(ready) \cup ToSet(queue)) = {}
  /\ Sending.todo # {} => Sending.event >= 1 /\ Sending.event \notin Pend
  /\ \A c \in Clients :
       /\ IsInjective(inbox[c]) /\ ToSet(inbox[c]) \cap Pend = {}
       /\ c \in Sending.todo => Sending.event \notin ToSet(inbox[c])

\* Whom a broadcast found dead is gone; who is there and still to be served is on the channel.
Gone ==
  /\ \A t \in Task : \A c \in broadcast[t].dead : link[c] = "gone"
  /\ \A c \in Sending.todo : link[c] = "up" => c \in registered \cap watchers

\* The events taken from the queue so far, as long as none had to wait.
Taken == emitted - Len(ready) - Len(queue)

\* A connection that is there and was sent something is still on the channel, and up to date.
UpToDate(c) ==
  /\ \A i \in 1..Len(inbox[c]) - 1 : inbox[c][i + 1] = inbox[c][i] + 1
  /\ inbox[c] # <<>> /\ link[c] = "up" =>
       /\ c \in registered \cap watchers
       /\ inbox[c][Len(inbox[c])] = IF c \in Sending.todo THEN Taken - 1 ELSE Taken

\* As long as no put() had to wait, what is on its way is what the robot emitted last.
Straight ==
  /\ waiting = <<>>
  /\ \A i \in 1..Len(queue) : queue[i] = Taken + i
  /\ \A i \in 1..Len(ready) : ready[i] = Taken + Len(queue) + i
  /\ Sending.todo # {} => Sending.event = Taken
  /\ \A c \in Clients : UpToDate(c)

\* The types of a connection's state, and of the events'.
ConnectionType ==
  /\ handler \in [Clients -> {"new", "accepting", "sending", "receiving", "ended"}]
  /\ link \in [Clients -> {"up", "gone"}]
  /\ watchers \subseteq Clients
  /\ seen \in [Clients -> 0..MaxPerUser - 1]
  /\ registered \subseteq Clients
  /\ count \in [Users -> 0..MaxPerUser]
  /\ overtaken \subseteq Users

EventType ==
  /\ emitted \in 0..MaxEvents
  /\ ready \in Seq(1..emitted) /\ queue \in Seq(1..emitted) /\ waiting \in Seq(1..emitted)
  /\ Len(queue) <= QueueSize
  /\ broadcast \in [Task -> [event : 0..emitted, todo : SUBSET Clients, dead : SUBSET Clients]]
  /\ inbox \in [Clients -> Seq(1..emitted)]
  /\ waited \in BOOLEAN

\* CountedRight is inductive with the first part, InOrder with the second.
ConnectionInv == ConnectionType /\ Registered /\ CountedRight
EventInv == EventType /\ Once /\ Gone /\ (waited \/ Straight)

\* The two parts hold the types and what the operators are promised.
LEMMA InvImplies ==
  /\ ConnectionType /\ EventType <=> TypeOK
  /\ EventInv => InOrder
  /\ CountedRight <=> \A u \in Users \ overtaken : CountedUser(u)
<1>1. EventInv => InOrder
  BY DEF EventInv, Once, Straight, UpToDate, InOrder
<1>2. CountedRight <=> \A u \in Users \ overtaken : CountedUser(u)
  BY DEF CountedRight, CountedUser
<1>3. ConnectionType /\ EventType <=> TypeOK
  BY DEF ConnectionType, EventType, TypeOK
<1> QED BY <1>1, <1>2, <1>3

\* Nobody is connected and nothing was emitted.
LEMMA InitInv == ASSUME Init PROVE ConnectionInv /\ EventInv
<1>1. MaxPerUser \in Nat \ {0} /\ QueueSize \in Nat \ {0} /\ MaxEvents \in Nat
  BY EventsAssumption
<1>2. ConnectionType
  BY <1>1 DEF Init, ConnectionType
<1>3. Registered
  BY DEF Init, Registered
<1>4. CountedRight
  <2>1. \A u \in Users : Of(u, registered) = {} /\ count[u] = 0
    BY DEF Init, Of
  <2> QED BY <1>1, <2>1, FS_EmptySet DEF CountedRight
<1>5. EventType
  <2>1. Quiet \in [event : 0..emitted, todo : SUBSET Clients, dead : SUBSET Clients]
    BY DEF Init, Quiet
  <2>2. broadcast \in [Task -> [event : 0..emitted, todo : SUBSET Clients, dead : SUBSET Clients]]
    BY <2>1 DEF Init
  <2>3. <<>> \in Seq(1..emitted) /\ Len(<<>>) = 0
    BY EmptySequence
  <2>4. emitted \in 0..MaxEvents /\ Len(queue) <= QueueSize
    BY <1>1, <2>3 DEF Init
  <2>5. inbox \in [Clients -> Seq(1..emitted)]
    BY <2>3 DEF Init
  <2> QED BY <2>2, <2>3, <2>4, <2>5 DEF Init, EventType
<1>6. Once /\ Gone
  BY EmptySequence DEF Init, Once, Gone, Pend, Sending, Quiet, Task
<1>7. Straight
  BY EmptySequence DEF Init, Straight, UpToDate, Sending, Quiet, Task
<1> QED BY <1>2, <1>3, <1>4, <1>5, <1>6, <1>7 DEF ConnectionInv, EventInv

-----------------------------------------------------------------------------
(* The connections. *)

\* The first part of the invariant rests on nothing else.
LEMMA SameConnections ==
  ASSUME ConnectionInv, UNCHANGED <<handler, link, watchers, seen, registered, count, overtaken>>
  PROVE  ConnectionInv'
BY DEF ConnectionInv, ConnectionType, Registered, CountedRight, Of

\* Whoever leaves the channel leaves a right count.
LEMMA DisconnectOK ==
  ASSUME ConnectionInv, NEW D, Disconnect(D), UNCHANGED <<watchers, seen, overtaken>>,
         handler' \in [Clients -> {"new", "accepting", "sending", "receiving", "ended"}],
         link' \in [Clients -> {"up", "gone"}],
         \A c \in registered \ D : handler'[c] \in {"sending", "receiving"}
  PROVE  ConnectionInv'
<1>1. /\ registered' = registered \ D /\ count' \in [Users -> 0..MaxPerUser]
      /\ \A u \in Users : CountedUser(u) => CountedUser(u)'
  BY DisconnectCounts DEF ConnectionInv, ConnectionType
<1>2. ConnectionType'
  BY <1>1 DEF ConnectionInv, ConnectionType
<1>3. Registered'
  BY <1>1 DEF Registered
<1>4. CountedRight'
  <2>1. \A u \in Users \ overtaken' : CountedUser(u)'
    BY <1>1, InvImplies DEF ConnectionInv
  <2> QED BY <2>1 DEF CountedRight, CountedUser
<1> QED BY <1>2, <1>3, <1>4 DEF ConnectionInv

\* connect() after its await: a count that did not change in between counts one more, any other
\* is its user's last right one.
LEMMA AcceptedOK == ASSUME ConnectionInv, NEW c \in Clients, Accepted(c) PROVE ConnectionInv'
<1> DEFINE v == UserOf[c]
<1>0. /\ MaxPerUser \in Nat \ {0} /\ v \in Users
      /\ seen[c] \in 0..MaxPerUser - 1 /\ c \notin registered
      /\ \A u \in Users : count[u] \in 0..MaxPerUser
  BY EventsAssumption DEF ConnectionInv, ConnectionType, Registered, Accepted
<1>1. /\ registered' = registered \cup {c} /\ count' = [count EXCEPT ![v] = seen[c] + 1]
      /\ handler' = [handler EXCEPT ![c] = "sending"]
  BY DEF Accepted, Goto
<1>2. seen[c] + 1 \in 0..MaxPerUser /\ 0 \in 0..MaxPerUser - 1
  BY <1>0
<1>3. count' \in [Users -> 0..MaxPerUser] /\ seen' \in [Clients -> 0..MaxPerUser - 1]
  BY <1>0, <1>1, <1>2 DEF ConnectionInv, ConnectionType, Accepted
<1>4. overtaken' = IF count[v] = seen[c] THEN overtaken ELSE overtaken \cup {v}
  BY DEF Accepted
<1>5. ConnectionType'
  BY <1>0, <1>1, <1>3, <1>4 DEF ConnectionInv, ConnectionType, Accepted
<1>6. Registered'
  BY <1>1 DEF ConnectionInv, ConnectionType, Registered
<1>7. ASSUME NEW u \in Users \ overtaken'
      PROVE  CountedUser(u)'
  <2> DEFINE A == Of(u, registered)
  <2>1. CountedUser(u)
    BY <1>4, <1>7, InvImplies DEF ConnectionInv
  <2>2. IsFiniteSet(A) /\ Cardinality(A) \in Nat
    BY OfFinite DEF ConnectionInv, ConnectionType
  <2>3. CASE u = v
    <3>1. count[u] = seen[c] /\ count'[u] = seen[c] + 1
      BY <1>0, <1>1, <1>4, <1>7, <2>3 DEF ConnectionInv, ConnectionType
    <3>2. Of(u, registered') = A \cup {c} /\ c \notin A
      BY <1>0, <1>1, <2>3 DEF Of
    <3>3. Cardinality(A \cup {c}) = Cardinality(A) + 1
      <4> HIDE DEF A
      <4> QED BY <2>2, <3>2, FS_AddElement
    <3>4. count'[u] = Cardinality(A \cup {c})
      BY <2>1, <3>1, <3>3 DEF CountedUser
    <3>5. count'[u] <= MaxPerUser
      BY <1>0, <3>1
    <3> QED BY <3>2, <3>4, <3>5 DEF CountedUser
  <2>4. CASE u # v
    <3>1. count'[u] = count[u]
      BY <1>1, <2>4 DEF ConnectionInv, ConnectionType
    <3>2. Of(u, registered') = A
      BY <1>1, <2>4 DEF Of
    <3> QED BY <2>1, <3>1, <3>2 DEF CountedUser
  <2> QED BY <2>3, <2>4
<1>8. CountedRight'
  BY <1>7 DEF CountedRight, CountedUser
<1> QED BY <1>5, <1>6, <1>8 DEF ConnectionInv

\* What a step of a connection does to the channel: nobody comes back, and nobody is removed
\* who is there.
Serves ==
  /\ watchers \subseteq watchers'
  /\ \A c \in Clients : link'[c] = "up" => link[c] = "up" /\ (c \in registered => c \in registered')

\* Every step of a connection keeps the first part of the invariant.
LEMMA ConnectionStep ==
  ASSUME ConnectionInv, NEW c \in Clients, Connection(c)
  PROVE  ConnectionInv' /\ Serves /\ UNCHANGED <<broadcast, inbox, loopVars>>
<1>0. ConnectionType /\ Registered /\ CountedRight
  BY DEF ConnectionInv
<1>1. UNCHANGED <<broadcast, inbox, loopVars>>
  BY DEF Connection, Open, Accepted, AcceptFails, Sent, Receive, Leave, Malformed, Break
<1> SUFFICES ConnectionInv' /\ Serves
  BY <1>1
<1>2. ASSUME NEW place \in {"accepting", "sending", "receiving", "ended"}, Goto(c, place),
             UNCHANGED <<link, registered, count, overtaken>>, watchers \subseteq watchers', watchers' \subseteq Clients,
             seen' \in [Clients -> 0..MaxPerUser - 1],
             place \in {"sending", "receiving"} \/ c \notin registered
      PROVE  ConnectionInv' /\ Serves
  <2>1. handler' = [handler EXCEPT ![c] = place]
    BY <1>2 DEF Goto
  <2>2. ConnectionType'
    BY <1>0, <1>2, <2>1 DEF ConnectionType
  <2>3. Registered'
    BY <1>0, <1>2, <2>1 DEF ConnectionType, Registered
  <2>4. CountedRight'
    BY <1>0, <1>2 DEF CountedRight, Of
  <2> QED BY <1>2, <2>2, <2>3, <2>4 DEF ConnectionInv, Serves
<1>3. CASE Open(c)
  <2>1. c \notin registered
    BY <1>0, <1>3 DEF Registered, Open
  <2>2. CASE count[UserOf[c]] < MaxPerUser
    <3>1. count[UserOf[c]] \in 0..MaxPerUser - 1
      <4>1. UserOf[c] \in Users /\ MaxPerUser \in Nat
        BY EventsAssumption
      <4>2. count[UserOf[c]] \in 0..MaxPerUser
        BY <1>0, <4>1 DEF ConnectionType
      <4> QED BY <2>2, <4>1, <4>2
    <3>2. seen' \in [Clients -> 0..MaxPerUser - 1]
      BY <1>0, <1>3, <2>2, <3>1 DEF ConnectionType, Open
    <3>3. Goto(c, "accepting") /\ watchers \subseteq watchers' /\ watchers' \subseteq Clients
      BY <1>0, <1>3, <2>2 DEF ConnectionType, Open
    <3> QED BY <1>2, <1>3, <2>1, <3>2, <3>3 DEF Open
  <2>3. CASE ~(count[UserOf[c]] < MaxPerUser)
    BY <1>0, <1>2, <1>3, <2>1, <2>3 DEF ConnectionType, Open
  <2> QED BY <2>2, <2>3
<1>4. CASE Accepted(c)
  BY <1>4, AcceptedOK DEF Accepted, Serves
<1>5. CASE AcceptFails(c)
  <2>1. c \notin registered
    BY <1>0, <1>5 DEF Registered, AcceptFails
  <2>2. seen' \in [Clients -> 0..MaxPerUser - 1]
    <3>1. 0 \in 0..MaxPerUser - 1
      BY EventsAssumption
    <3> QED BY <1>0, <1>5, <3>1 DEF ConnectionType, AcceptFails
  <2> QED BY <1>0, <1>2, <1>5, <2>1, <2>2 DEF ConnectionType, AcceptFails
<1>6. CASE Receive(c)
  BY <1>0, <1>2, <1>6 DEF ConnectionType, Receive
<1>7. CASE Sent(c) \/ Leave(c) \/ Malformed(c)
  <2>1. handler' \in [Clients -> {"new", "accepting", "sending", "receiving", "ended"}]
    BY <1>0, <1>7 DEF ConnectionType, Sent, Leave, Malformed, Goto
  <2>2. link' \in [Clients -> {"up", "gone"}] /\ \A d \in Clients : link'[d] = "up" => link[d] = "up"
    BY <1>0, <1>7 DEF ConnectionType, Sent, Leave, Malformed
  <2>3. \A d \in registered \ {c} : handler'[d] \in {"sending", "receiving"}
    BY <1>0, <1>7 DEF ConnectionType, Registered, Sent, Leave, Malformed, Goto
  <2>4. CASE Disconnect({c}) /\ link'[c] = "gone"
    <3>1. ConnectionInv'
      BY <1>7, <2>1, <2>2, <2>3, <2>4, DisconnectOK DEF Sent, Leave, Malformed
    <3>2. registered' = registered \ {c} /\ watchers' = watchers
      BY <1>7, <2>4 DEF Disconnect, Unregister, Sent, Leave, Malformed
    <3> QED BY <2>2, <2>4, <3>1, <3>2 DEF Serves
  <2>5. CASE Sent(c) /\ UNCHANGED <<registered, count>>
    BY <1>0, <1>2, <2>5 DEF ConnectionType, Sent
  <2>6. CASE Leave(c) \/ Malformed(c) \/ (Sent(c) /\ link[c] = "gone" /\ Disconnect({c}))
    <3>1. Disconnect({c}) /\ link'[c] = "gone"
      BY <1>0, <2>6 DEF ConnectionType, Sent, Leave, Malformed
    <3> QED BY <2>4, <3>1
  <2> QED BY <1>7, <2>5, <2>6 DEF Sent
<1>8. CASE Break(c)
  <2>1. link' \in [Clients -> {"up", "gone"}] /\ \A d \in Clients : link'[d] = "up" => link[d] = "up"
    BY <1>0, <1>8 DEF ConnectionType, Break
  <2>2. UNCHANGED <<handler, watchers, seen, registered, count, overtaken>>
    BY <1>8 DEF Break
  <2> QED BY <1>0, <2>1, <2>2
          DEF ConnectionInv, ConnectionType, Registered, CountedRight, Of, Serves
<1> QED BY <1>1, <1>3, <1>4, <1>5, <1>6, <1>7, <1>8 DEF Connection

-----------------------------------------------------------------------------
(* The events. *)

\* A step of a connection leaves the events where they are, and gone what was gone.
LEMMA SameEvents ==
  ASSUME EventInv, Serves, link' \in [Clients -> {"up", "gone"}], UNCHANGED <<broadcast, inbox, loopVars>>
  PROVE  EventInv'
<1>0. EventType /\ Once /\ Gone /\ (waited \/ Straight)
  BY DEF EventInv
<1>1. \A t \in Task : broadcast[t].dead \subseteq Clients /\ broadcast[t].todo \subseteq Clients
  BY <1>0 DEF EventType
<1>2. Gone'
  <2>1. ASSUME NEW t \in Task, NEW c \in broadcast[t].dead PROVE link'[c] = "gone"
    BY <1>0, <1>1, <2>1 DEF Gone, Serves
  <2>2. ASSUME NEW c \in Sending.todo, link'[c] = "up" PROVE c \in registered' \cap watchers'
    <3>1. c \in Clients /\ link[c] = "up"
      BY <1>1, <2>2 DEF Serves, Sending, Task
    <3> QED BY <1>0, <2>2, <3>1 DEF Gone, Serves
  <2> QED BY <2>1, <2>2 DEF Gone, Sending
<1>3. EventType' /\ Once'
  BY <1>0 DEF EventType, Once, Pend, Sending, loopVars
<1>4. ASSUME Straight PROVE Straight'
  <2>1. ASSUME NEW c \in Clients, UpToDate(c) PROVE UpToDate(c)'
    BY <2>1 DEF UpToDate, Serves, Taken, Sending, loopVars
  <2> QED BY <1>4, <2>1 DEF Straight, Taken, Sending, loopVars
<1> QED BY <1>0, <1>2, <1>3, <1>4 DEF EventInv, loopVars

\* What EventType says of the parts of the state.
LEMMA EventTypes ==
  ASSUME EventType
  PROVE  /\ emitted \in Nat /\ QueueSize \in Nat /\ Len(queue) \in Nat /\ Len(ready) \in Nat
         /\ ToSet(ready) \subseteq 1..emitted /\ ToSet(queue) \subseteq 1..emitted
         /\ ToSet(waiting) \subseteq 1..emitted
         /\ \A t \in Task : /\ broadcast[t] \in [event : 0..emitted, todo : SUBSET Clients, dead : SUBSET Clients]
                            /\ broadcast[t].event \in 0..emitted
                            /\ broadcast[t].todo \subseteq Clients /\ broadcast[t].dead \subseteq Clients
         /\ \A c \in Clients : inbox[c] \in Seq(1..emitted) /\ ToSet(inbox[c]) \subseteq 1..emitted
<1>1. emitted \in Nat /\ QueueSize \in Nat
  BY EventsAssumption DEF EventType
<1>2. Len(queue) \in Nat /\ Len(ready) \in Nat
  BY LenProperties DEF EventType
<1>3. /\ ToSet(ready) \subseteq 1..emitted /\ ToSet(queue) \subseteq 1..emitted
      /\ ToSet(waiting) \subseteq 1..emitted
  BY Occurring DEF EventType
<1>4. \A c \in Clients : inbox[c] \in Seq(1..emitted) /\ ToSet(inbox[c]) \subseteq 1..emitted
  BY Occurring DEF EventType
<1>5. \A t \in Task : broadcast[t] \in [event : 0..emitted, todo : SUBSET Clients, dead : SUBSET Clients]
  BY DEF EventType
<1> QED BY <1>1, <1>2, <1>3, <1>4, <1>5

\* A new event is later than all that are known.
LEMMA EmitOK == ASSUME EventInv, Emit PROVE EventInv'
<1> DEFINE e == emitted + 1
<1>0. /\ EventType /\ Once /\ Gone /\ (waited \/ Straight)
      /\ emitted < MaxEvents /\ emitted' = e /\ ready' = Append(ready, e)
      /\ UNCHANGED <<link, watchers, registered, inbox, broadcast, queue, waiting, waited>>
  BY DEF EventInv, Emit, clientVars
<1>1. /\ emitted \in Nat /\ QueueSize \in Nat /\ Len(queue) \in Nat /\ Len(ready) \in Nat
      /\ ToSet(ready) \subseteq 1..emitted /\ ToSet(queue) \subseteq 1..emitted
      /\ ToSet(waiting) \subseteq 1..emitted
      /\ \A c \in Clients : inbox[c] \in Seq(1..emitted) /\ ToSet(inbox[c]) \subseteq 1..emitted
      /\ \A t \in Task : broadcast[t].event \in 0..emitted
  BY <1>0, EventTypes
<1>2. /\ e \in 1..e
      /\ 1..emitted \subseteq 1..e
      /\ 0..emitted \subseteq 0..e
      /\ e \notin 0..emitted
      /\ e \notin 1..emitted
  BY <1>1
<1>3. \A s \in Seq(1..emitted) : s \in Seq(1..e)
  BY <1>2, SeqMonotonic
<1>4. /\ ready' \in Seq(1..e) /\ Len(ready') = Len(ready) + 1 /\ ToSet(ready') = ToSet(ready) \cup {e}
      /\ IsInjective(ready) => IsInjective(ready')
      /\ \A i \in 1..Len(ready) : ready'[i] = ready[i]
      /\ ready'[Len(ready) + 1] = e
  <2>1. ready \in Seq(1..e)
    BY <1>0, <1>3 DEF EventType
  <2> QED BY <1>0, <1>1, <1>2, <2>1, Appended, AppendProperties
<1>5. EventType'
  <2>1. e \in 0..MaxEvents
    BY <1>0, <1>1, EventsAssumption
  <2>2. broadcast \in [Task -> [event : 0..e, todo : SUBSET Clients, dead : SUBSET Clients]]
    BY <1>0, <1>2 DEF EventType
  <2>3. inbox \in [Clients -> Seq(1..e)]
    BY <1>0, <1>3 DEF EventType
  <2> HIDE DEF e
  <2> QED BY <1>0, <1>3, <1>4, <2>1, <2>2, <2>3 DEF EventType
<1>6. Once'
  <2>1. Pend' = Pend \cup {e} /\ Sending' = Sending /\ Sending.event # e
    BY <1>0, <1>1, <1>2, <1>4 DEF Pend, Sending, Task
  <2>2. e \notin ToSet(queue) /\ e \notin ToSet(waiting) /\ \A c \in Clients : e \notin ToSet(inbox[c])
    BY <1>1, <1>2
  <2> HIDE DEF e
  <2> QED BY <1>0, <1>4, <2>1, <2>2 DEF Once
<1>7. Gone'
  BY <1>0 DEF Gone, Sending
<1>8. ASSUME Straight PROVE Straight'
  <2>1. Taken' = Taken /\ Taken \in Int /\ e = Taken + Len(queue) + Len(ready) + 1
    BY <1>0, <1>1, <1>4 DEF Taken
  <2>2. \A i \in 1..Len(ready') : ready'[i] = Taken + Len(queue) + i
    <3>1. \A i \in 1..Len(ready') : i \in 1..Len(ready) \/ i = Len(ready) + 1
      BY <1>1, <1>4
    <3>2. \A i \in 1..Len(ready) : ready'[i] = Taken + Len(queue) + i
      BY <1>4, <1>8 DEF Straight
    <3>3. ready'[Len(ready) + 1] = Taken + Len(queue) + (Len(ready) + 1)
      BY <1>1, <1>4, <2>1
    <3> QED BY <3>1, <3>2, <3>3
  <2>3. \A c \in Clients : UpToDate(c)'
    BY <1>0, <1>8, <2>1 DEF Straight, UpToDate, Sending
  <2> QED BY <1>0, <1>8, <2>1, <2>2, <2>3 DEF Straight, Sending
<1> QED BY <1>0, <1>5, <1>6, <1>7, <1>8 DEF EventInv

\* A put() that runs moves its event on, to the queue or to the end of those that wait.
LEMMA RunPutOK == ASSUME EventInv, RunPut PROVE EventInv'
<1> DEFINE e == Head(ready)
           E == 1..emitted
<1>0. /\ EventType /\ Once /\ Gone /\ (waited \/ Straight)
      /\ ready # <<>> /\ ready' = Tail(ready)
      /\ UNCHANGED <<emitted, link, watchers, registered, inbox, broadcast>>
  BY DEF EventInv, RunPut, clientVars
<1>1. /\ emitted \in Nat /\ QueueSize \in Nat /\ Len(queue) \in Nat /\ Len(ready) \in Nat
      /\ ready \in Seq(E) /\ queue \in Seq(E) /\ waiting \in Seq(E) /\ Len(queue) <= QueueSize
  BY <1>0, EventTypes DEF EventType
<1>2. /\ e \in E /\ e \in ToSet(ready) /\ e = ready[1] /\ Len(ready) >= 1
      /\ ready' \in Seq(E) /\ Len(ready') = Len(ready) - 1
      /\ \A i \in 1..Len(ready) - 1 : ready'[i] = ready[i + 1]
      /\ ToSet(ready') \subseteq ToSet(ready) /\ IsInjective(ready') /\ e \notin ToSet(ready')
  <2> HIDE DEF E
  <2> QED BY <1>0, <1>1, HeadAndTail DEF Once
<1>3. e \notin ToSet(queue) /\ e \notin ToSet(waiting)
  BY <1>0, <1>2 DEF Once
<1>4. Gone'
  BY <1>0 DEF Gone, Sending
<1>5. CASE Len(queue) < QueueSize
  <2>0. queue' = Append(queue, e) /\ waiting' = waiting /\ waited' = waited
    BY <1>5 DEF RunPut
  <2> HIDE DEF e, E
  <2>1. /\ queue' \in Seq(E) /\ Len(queue') = Len(queue) + 1 /\ ToSet(queue') = ToSet(queue) \cup {e}
        /\ IsInjective(queue')
        /\ \A i \in 1..Len(queue) : queue'[i] = queue[i]
        /\ queue'[Len(queue) + 1] = e
    BY <1>0, <1>1, <1>2, <1>3, <2>0, Appended, AppendProperties DEF Once
  <2>2. EventType'
    <3>1. Len(queue') <= QueueSize
      BY <1>1, <1>5, <2>1
    <3> QED BY <1>0, <1>2, <2>0, <2>1, <3>1 DEF EventType, E
  <2>3. Once'
    <3>1. Pend' \subseteq Pend /\ Sending' = Sending
      BY <1>0, <1>2, <2>0, <2>1 DEF Pend, Sending
    <3> QED BY <1>0, <1>2, <1>3, <2>0, <2>1, <3>1 DEF Once
  <2>4. ASSUME Straight PROVE Straight'
    <3>1. Taken' = Taken /\ Taken \in Int
      BY <1>0, <1>1, <1>2, <2>1 DEF Taken
    <3>2. ASSUME NEW i \in 1..Len(queue') PROVE queue'[i] = Taken + i
      <4>1. CASE i \in 1..Len(queue)
        BY <2>1, <2>4, <4>1 DEF Straight
      <4>2. CASE i = Len(queue) + 1
        <5>1. ready[1] = Taken + Len(queue) + 1
          BY <1>1, <1>2, <2>4 DEF Straight
        <5> QED BY <1>1, <1>2, <2>1, <3>1, <4>2, <5>1
      <4> QED BY <1>1, <2>1, <4>1, <4>2
    <3>3. ASSUME NEW i \in 1..Len(ready') PROVE ready'[i] = Taken + Len(queue') + i
      <4>1. i + 1 \in 1..Len(ready) /\ ready'[i] = ready[i + 1]
        BY <1>1, <1>2
      <4>2. ready[i + 1] = Taken + Len(queue) + (i + 1)
        BY <2>4, <4>1 DEF Straight
      <4> QED BY <1>1, <2>1, <3>1, <4>1, <4>2
    <3>4. \A c \in Clients : UpToDate(c)'
      BY <1>0, <2>4, <3>1 DEF Straight, UpToDate, Sending
    <3> QED BY <1>0, <2>0, <2>4, <3>1, <3>2, <3>3, <3>4 DEF Straight, Sending
  <2> QED BY <1>0, <1>4, <2>0, <2>2, <2>3, <2>4 DEF EventInv
<1>6. CASE ~(Len(queue) < QueueSize)
  <2>0. waiting' = Append(waiting, e) /\ waited' = TRUE /\ queue' = queue
    BY <1>6 DEF RunPut
  <2> HIDE DEF e, E
  <2>1. /\ waiting' \in Seq(E) /\ ToSet(waiting') = ToSet(waiting) \cup {e} /\ IsInjective(waiting')
    BY <1>0, <1>1, <1>2, <1>3, <2>0, Appended DEF Once
  <2>2. EventType'
    BY <1>0, <1>1, <1>2, <2>0, <2>1 DEF EventType, E
  <2>3. Once'
    <3>1. Pend' \subseteq Pend /\ Sending' = Sending
      BY <1>0, <1>2, <2>0, <2>1 DEF Pend, Sending
    <3> QED BY <1>0, <1>2, <1>3, <2>0, <2>1, <3>1 DEF Once
  <2> QED BY <1>4, <2>0, <2>2, <2>3 DEF EventInv
<1> QED BY <1>5, <1>6

\* The dispatcher takes the first event of the queue, and wakes a put() that waits.
LEMMA DispatchOK == ASSUME ConnectionInv, EventInv, Dispatch PROVE EventInv'
<1> DEFINE e == Head(queue)
           E == 1..emitted
           todo == {c \in registered : (c \in watchers) = ("dispatcher" = "dispatcher")}
           b == [event |-> e, dead |-> {}, todo |-> todo]
<1>0. /\ EventType /\ Once /\ Gone /\ (waited \/ Straight)
      /\ queue # <<>> /\ queue' = Tail(queue) /\ Sending.todo = {}
      /\ broadcast' = [broadcast EXCEPT !["dispatcher"] = b]
      /\ UNCHANGED <<emitted, link, watchers, registered, inbox, waited>>
  BY DEF EventInv, Dispatch, clientVars, Begin, Sending
<1>1. /\ emitted \in Nat /\ QueueSize \in Nat /\ Len(queue) \in Nat /\ Len(ready) \in Nat
      /\ ready \in Seq(E) /\ queue \in Seq(E) /\ waiting \in Seq(E) /\ Len(queue) <= QueueSize
      /\ \A t \in Task : broadcast[t] \in [event : 0..emitted, todo : SUBSET Clients, dead : SUBSET Clients]
  BY <1>0, EventTypes DEF EventType
<1>2. /\ e \in E /\ e \in ToSet(queue) /\ e = queue[1] /\ Len(queue) >= 1
      /\ queue' \in Seq(E) /\ Len(queue') = Len(queue) - 1
      /\ \A i \in 1..Len(queue) - 1 : queue'[i] = queue[i + 1]
      /\ ToSet(queue') \subseteq ToSet(queue) /\ IsInjective(queue') /\ e \notin ToSet(queue')
  <2> HIDE DEF E
  <2> QED BY <1>0, <1>1, HeadAndTail DEF Once
<1>3. todo = registered \cap watchers /\ todo \subseteq Clients
  BY DEF ConnectionInv, ConnectionType
<1>4. /\ ready' \in Seq(E) /\ IsInjective(ready') /\ waiting' \in Seq(E) /\ IsInjective(waiting')
      /\ ToSet(ready') \cup ToSet(waiting') \subseteq ToSet(ready) \cup ToSet(waiting)
      /\ ToSet(ready') \cap ToSet(waiting') = {}
      /\ waiting = <<>> => ready' = ready /\ waiting' = waiting
  <2>1. CASE waiting = <<>>
    BY <1>0, <1>1, <2>1 DEF Dispatch, Once
  <2>2. CASE waiting # <<>>
    <3> DEFINE w == Head(waiting)
    <3>1. ready' = Append(ready, w) /\ waiting' = Tail(waiting)
      BY <2>2 DEF Dispatch
    <3> HIDE DEF E
    <3>2. /\ w \in E /\ w \in ToSet(waiting) /\ waiting' \in Seq(E)
          /\ ToSet(waiting') \subseteq ToSet(waiting) /\ IsInjective(waiting') /\ w \notin ToSet(waiting')
      BY <1>0, <1>1, <2>2, <3>1, HeadAndTail DEF Once
    <3>3. w \notin ToSet(ready)
      BY <1>0, <3>2 DEF Once
    <3> HIDE DEF w
    <3>4. ready' \in Seq(E) /\ ToSet(ready') = ToSet(ready) \cup {w} /\ IsInjective(ready')
      BY <1>0, <1>1, <3>1, <3>2, <3>3, Appended DEF Once
    <3> QED BY <1>0, <2>2, <3>2, <3>3, <3>4 DEF Once
  <2> QED BY <2>1, <2>2
<1>5. b \in [event : 0..emitted, todo : SUBSET Clients, dead : SUBSET Clients] /\ e >= 1
  <2>1. e \in 0..emitted /\ e >= 1
    BY <1>1, <1>2
  <2> HIDE DEF e, todo
  <2> QED BY <1>3, <2>1
<1>6. Sending' = b /\ broadcast'["status"] = broadcast["status"]
  <2> HIDE DEF b
  <2> QED BY <1>0 DEF Sending, EventType, Task
<1> HIDE DEF E, todo, e
<1>7. Sending'.event = e /\ Sending'.todo = todo /\ Sending'.dead = {}
  BY <1>6
<1>8. EventType'
  <2>1. Len(queue') <= QueueSize
    BY <1>1, <1>2
  <2>2. broadcast' \in [Task -> [event : 0..emitted, todo : SUBSET Clients, dead : SUBSET Clients]]
    <3> HIDE DEF b
    <3> QED BY <1>0, <1>5 DEF EventType
  <2> QED BY <1>0, <1>2, <1>4, <2>1, <2>2 DEF EventType, E
<1>9. Once'
  <2>1. Pend' \subseteq Pend /\ e \in Pend /\ e \notin Pend'
    BY <1>0, <1>2, <1>4 DEF Pend, Once
  <2>2. /\ ToSet(ready') \cap ToSet(queue') = {}
        /\ ToSet(waiting') \cap (ToSet(ready') \cup ToSet(queue')) = {}
    BY <1>0, <1>2, <1>4 DEF Once
  <2> QED BY <1>0, <1>2, <1>4, <1>5, <1>7, <2>1, <2>2 DEF Once
<1>10. Gone'
  <2>1. \A t \in Task : \A c \in broadcast'[t].dead : link'[c] = "gone"
    BY <1>0, <1>6, <1>7 DEF Gone, Task, Sending
  <2> QED BY <1>0, <1>3, <1>7, <2>1 DEF Gone
<1>11. ASSUME Straight PROVE Straight'
  <2>1. waiting' = <<>> /\ ready' = ready
    BY <1>4, <1>11 DEF Straight
  <2>2. Taken' = Taken + 1 /\ Taken \in Int
    BY <1>0, <1>1, <1>2, <2>1 DEF Taken
  <2>3. e = Taken + 1
    BY <1>1, <1>2, <1>11 DEF Straight
  <2>4. ASSUME NEW i \in 1..Len(queue') PROVE queue'[i] = Taken' + i
    <3>1. i + 1 \in 1..Len(queue) /\ queue'[i] = queue[i + 1]
      BY <1>1, <1>2
    <3>2. queue[i + 1] = Taken + (i + 1)
      BY <1>11, <3>1 DEF Straight
    <3> QED BY <2>2, <3>1, <3>2
  <2>5. ASSUME NEW i \in 1..Len(ready') PROVE ready'[i] = Taken' + Len(queue') + i
    <3>1. ready'[i] = Taken + Len(queue) + i
      BY <1>11, <2>1, <2>5 DEF Straight
    <3> QED BY <1>1, <1>2, <2>1, <2>2, <3>1
  <2>6. ASSUME NEW c \in Clients PROVE UpToDate(c)'
    <3>1. UpToDate(c)
      BY <1>11 DEF Straight
    <3>2. ASSUME inbox[c] # <<>>, link[c] = "up"
          PROVE  /\ c \in registered \cap watchers /\ c \in todo
                 /\ inbox[c][Len(inbox[c])] = Taken' - 1
      BY <1>0, <1>3, <2>2, <3>1, <3>2 DEF UpToDate
    <3> QED BY <1>0, <1>7, <3>1, <3>2 DEF UpToDate
  <2> QED BY <1>7, <2>1, <2>2, <2>3, <2>4, <2>5, <2>6 DEF Straight
<1> QED BY <1>0, <1>8, <1>9, <1>10, <1>11 DEF EventInv

\* A status broadcast concerns the events of the queue in no way.
LEMMA StatusUpdateOK == ASSUME ConnectionInv, EventInv, StatusUpdate PROVE EventInv'
<1> DEFINE b == [event |-> 0, dead |-> {}, todo |-> {c \in registered : (c \in watchers) = ("status" = "dispatcher")}]
<1>0. /\ EventType /\ Once /\ Gone /\ (waited \/ Straight)
      /\ broadcast' = [broadcast EXCEPT !["status"] = b]
      /\ UNCHANGED <<link, watchers, registered, inbox, emitted, ready, queue, waiting, waited>>
  BY DEF EventInv, StatusUpdate, clientVars, loopVars, Begin
<1>1. b \in [event : 0..emitted, todo : SUBSET Clients, dead : SUBSET Clients] /\ b.dead = {}
  BY <1>0, EventTypes DEF ConnectionInv, ConnectionType
<1> HIDE DEF b
<1>2. Sending' = Sending /\ broadcast'["status"] = b
  BY <1>0 DEF Sending, EventType, Task
<1>3. EventType'
  <2>1. broadcast' \in [Task -> [event : 0..emitted, todo : SUBSET Clients, dead : SUBSET Clients]]
    BY <1>0, <1>1 DEF EventType
  <2> QED BY <1>0, <2>1 DEF EventType
<1>4. Once'
  BY <1>0, <1>2 DEF Once, Pend
<1>5. Gone'
  BY <1>0, <1>1, <1>2 DEF Gone, Task, Sending
<1>6. ASSUME Straight PROVE Straight'
  BY <1>0, <1>2, <1>6 DEF Straight, UpToDate, Taken
<1> QED BY <1>0, <1>3, <1>4, <1>5, <1>6 DEF EventInv

\* A send of a broadcast, and the removal of those it found dead.
LEMMA SendNextConnections ==
  ASSUME ConnectionInv, EventInv, NEW t \in Task, NEW c \in broadcast[t].todo,
         NEW failed \in {link[c] = "gone", FALSE},
         Continue(t, broadcast[t].todo \ {c}, broadcast[t].dead \cup IF failed THEN {c} ELSE {}),
         UNCHANGED <<handler, link, watchers, seen, overtaken>>
  PROVE  /\ ConnectionInv' /\ Serves
         /\ \A d \in broadcast'[t].dead : link[d] = "gone"
         /\ broadcast'[t].todo = broadcast[t].todo \ {c}
         /\ broadcast'[t].todo # {} => broadcast'[t].event = broadcast[t].event
         /\ \A s \in Task \ {t} : broadcast'[s] = broadcast[s]
         /\ broadcast' \in [Task -> [event : 0..emitted, todo : SUBSET Clients, dead : SUBSET Clients]]
<1> DEFINE todo == broadcast[t].todo \ {c}
           dead == broadcast[t].dead \cup IF failed THEN {c} ELSE {}
           B == [event : 0..emitted, todo : SUBSET Clients, dead : SUBSET Clients]
<1>0. /\ ConnectionType /\ EventType /\ Gone /\ Registered
      /\ broadcast \in [Task -> B] /\ broadcast[t] \in B /\ emitted \in Nat
      /\ broadcast[t].todo \subseteq Clients /\ broadcast[t].dead \subseteq Clients
  <2>1. ConnectionType /\ EventType /\ Gone /\ Registered
    BY DEF ConnectionInv, EventInv
  <2> QED BY <2>1, EventTypes DEF EventType
<1>1. dead \subseteq Clients /\ \A d \in dead : link[d] = "gone"
  BY <1>0 DEF Gone
<1>2. todo \subseteq Clients
  BY <1>0
<1>3. CASE todo = {}
  <2>1. broadcast' = [broadcast EXCEPT ![t] = Quiet] /\ Disconnect(dead)
    BY <1>3 DEF Continue
  <2>2. Quiet \in B /\ Quiet.todo = {} /\ Quiet.dead = {}
    BY <1>0 DEF Quiet
  <2> HIDE DEF todo, dead, B
  <2>3. ConnectionInv'
    BY <1>0, <2>1, DisconnectOK DEF ConnectionType, Registered
  <2>4. Serves
    BY <1>1, <2>1 DEF Serves, Disconnect, Unregister
  <2>5. /\ broadcast' \in [Task -> B]
        /\ broadcast'[t] = Quiet
        /\ \A s \in Task \ {t} : broadcast'[s] = broadcast[s]
    BY <1>0, <2>1, <2>2
  <2> QED BY <1>3, <2>2, <2>3, <2>4, <2>5 DEF todo, B
<1>4. CASE todo # {}
  <2>1. /\ broadcast' = [broadcast EXCEPT ![t].todo = todo, ![t].dead = dead]
        /\ UNCHANGED <<registered, count>>
    BY <1>4 DEF Continue
  <2> DEFINE b == [broadcast[t] EXCEPT !.todo = todo, !.dead = dead]
  <2> HIDE DEF todo, dead
  <2>2. b \in B /\ b.todo = todo /\ b.dead = dead /\ b.event = broadcast[t].event
    BY <1>0, <1>1, <1>2
  <2>3. broadcast' = [broadcast EXCEPT ![t] = b]
    BY <1>0, <2>1
  <2> HIDE DEF b, B
  <2>4. /\ broadcast' \in [Task -> B]
        /\ broadcast'[t] = b
        /\ \A s \in Task \ {t} : broadcast'[s] = broadcast[s]
    BY <1>0, <2>2, <2>3
  <2>5. ConnectionInv' /\ Serves
    BY <1>0, <2>1, SameConnections DEF Serves
  <2> QED BY <1>1, <2>2, <2>4, <2>5 DEF todo, B
<1> QED BY <1>3, <1>4

\* What is sent is new to whom it is sent to, and the next in order.
LEMMA SendNextOK ==
  ASSUME ConnectionInv, EventInv, NEW t \in Task, SendNext(t)
  PROVE  ConnectionInv' /\ EventInv'
<1>0. PICK c \in broadcast[t].todo : \E failed \in {link[c] = "gone", FALSE} :
        /\ Deliver(t, c)
        /\ Continue(t, broadcast[t].todo \ {c}, broadcast[t].dead \cup IF failed THEN {c} ELSE {})
  BY DEF SendNext
<1>1. PICK failed \in {link[c] = "gone", FALSE} :
        /\ Deliver(t, c)
        /\ Continue(t, broadcast[t].todo \ {c}, broadcast[t].dead \cup IF failed THEN {c} ELSE {})
  BY <1>0
<1>2. UNCHANGED <<handler, link, watchers, seen, overtaken, emitted, ready, queue, waiting, waited>>
  BY DEF SendNext, loopVars
<1>3. /\ ConnectionInv' /\ Serves
      /\ \A d \in broadcast'[t].dead : link[d] = "gone"
      /\ broadcast'[t].todo = broadcast[t].todo \ {c}
      /\ broadcast'[t].todo # {} => broadcast'[t].event = broadcast[t].event
      /\ \A s \in Task \ {t} : broadcast'[s] = broadcast[s]
      /\ broadcast' \in [Task -> [event : 0..emitted, todo : SUBSET Clients, dead : SUBSET Clients]]
  BY <1>1, <1>2, SendNextConnections
<1>4. /\ EventType /\ Once /\ Gone /\ (waited \/ Straight) /\ emitted \in Nat
      /\ broadcast[t].todo \subseteq Clients /\ broadcast[t].event \in 0..emitted /\ c \in Clients
      /\ link \in [Clients -> {"up", "gone"}]
      /\ \A d \in Clients : inbox[d] \in Seq(1..emitted)
      /\ Sending.todo \subseteq Clients
      /\ Len(queue) \in Nat /\ Len(ready) \in Nat
  <2>1. /\ EventType /\ Once /\ Gone /\ (waited \/ Straight) /\ "dispatcher" \in Task
        /\ link \in [Clients -> {"up", "gone"}]
    BY DEF EventInv, ConnectionInv, ConnectionType, Task
  <2> QED BY <2>1, EventTypes DEF Sending
<1>5. Gone'
  <2>1. \A s \in Task : \A d \in broadcast'[s].dead : link'[d] = "gone"
    BY <1>2, <1>3, <1>4 DEF Gone
  <2>2. Sending'.todo \subseteq Sending.todo
    BY <1>3 DEF Sending, Task
  <2>3. \A d \in Sending'.todo : link'[d] = "up" => d \in registered' \cap watchers'
    BY <1>2, <1>3, <1>4, <2>2 DEF Gone, Serves
  <2> QED BY <2>1, <2>3 DEF Gone
<1>6. CASE t = "dispatcher" /\ link[c] = "up"
  <2> DEFINE e == broadcast[t].event
             E == 1..emitted
  <2>0. inbox' = [inbox EXCEPT ![c] = Append(inbox[c], e)]
    BY <1>1, <1>6 DEF Deliver
  <2>1. /\ e \in E /\ e \notin Pend /\ e \notin ToSet(inbox[c]) /\ c \in Sending.todo
        /\ Sending'.todo = Sending.todo \ {c}
        /\ Sending'.todo # {} => Sending'.event = e
    BY <1>1, <1>3, <1>4, <1>6 DEF Once, Sending
  <2> HIDE DEF e, E
  <2>2. /\ Append(inbox[c], e) \in Seq(E) /\ Len(Append(inbox[c], e)) = Len(inbox[c]) + 1
        /\ ToSet(Append(inbox[c], e)) = ToSet(inbox[c]) \cup {e}
        /\ IsInjective(Append(inbox[c], e))
        /\ \A i \in 1..Len(inbox[c]) : Append(inbox[c], e)[i] = inbox[c][i]
        /\ Append(inbox[c], e)[Len(inbox[c]) + 1] = e
        /\ Len(inbox[c]) \in Nat
    <3>1. inbox[c] \in Seq(E) /\ IsInjective(inbox[c])
      BY <1>4 DEF Once, E
    <3> QED BY <2>1, <3>1, Appended, AppendProperties, LenProperties
  <2>3. /\ inbox' \in [Clients -> Seq(E)]
        /\ inbox'[c] = Append(inbox[c], e)
        /\ \A d \in Clients \ {c} : inbox'[d] = inbox[d]
    BY <1>4, <2>0, <2>2 DEF EventType, E
  <2>4. EventType'
    BY <1>2, <1>3, <1>4, <2>3 DEF EventType, E
  <2>5. Once'
    <3>1. Pend' = Pend
      BY <1>2 DEF Pend
    <3>2. ASSUME NEW d \in Clients
          PROVE  /\ IsInjective(inbox'[d]) /\ ToSet(inbox'[d]) \cap Pend = {}
                 /\ d \in Sending'.todo => Sending'.event \notin ToSet(inbox'[d])
      <4>1. CASE d = c
        <5>1. /\ IsInjective(inbox'[d])
              /\ ToSet(inbox'[d]) = ToSet(inbox[c]) \cup {e}
              /\ d \notin Sending'.todo
          BY <2>1, <2>2, <2>3, <4>1
        <5>2. ToSet(inbox[c]) \cap Pend = {} /\ e \notin Pend
          BY <1>4, <2>1 DEF Once
        <5> QED BY <5>1, <5>2
      <4>2. CASE d # c
        <5>1. e = Sending.event /\ inbox'[d] = inbox[d]
          BY <1>6, <2>3, <4>2 DEF Sending, e
        <5>2. d \in Sending'.todo => d \in Sending.todo /\ Sending'.event = e
          BY <2>1
        <5> QED BY <1>4, <5>1, <5>2 DEF Once
      <4> QED BY <4>1, <4>2
    <3>3. Sending'.todo # {} => Sending'.event >= 1 /\ Sending'.event \notin Pend
      <4>1. e >= 1
        BY <2>1, <1>4 DEF E
      <4> QED BY <2>1, <4>1
    <3> QED BY <1>2, <1>4, <3>1, <3>2, <3>3 DEF Once
  <2>6. ASSUME Straight PROVE Straight'
    <3>1. Taken' = Taken /\ Taken \in Int
      BY <1>2, <1>4 DEF Taken
    <3>2. e = Taken
      BY <1>6, <2>1, <2>6 DEF Straight, Sending, e
    <3>3. ASSUME NEW d \in Clients, d # c PROVE UpToDate(d)'
      <4>1. UpToDate(d) /\ inbox'[d] = inbox[d] /\ link'[d] = link[d]
        BY <1>2, <2>3, <2>6, <3>3 DEF Straight
      <4>2. d \in Sending'.todo <=> d \in Sending.todo
        BY <2>1, <3>3
      <4>3. link'[d] = "up" /\ d \in registered \cap watchers => d \in registered' \cap watchers'
        BY <1>3 DEF Serves
      <4> QED BY <3>1, <4>1, <4>2, <4>3 DEF UpToDate
    <3>4. UpToDate(c)'
      <4> DEFINE r == Append(inbox[c], e)
      <4>0. inbox'[c] = r
        BY <2>3
      <4>1. UpToDate(c) /\ c \in Sending.todo /\ c \notin Sending'.todo
        BY <1>4, <2>1, <2>6 DEF Straight
      <4>2. c \in registered' \cap watchers'
        BY <1>2, <1>3, <1>4, <1>6, <2>1 DEF Gone, Serves
      <4> HIDE DEF r
      <4>3. /\ Len(r) = Len(inbox[c]) + 1 /\ Len(inbox[c]) \in Nat /\ r[Len(r)] = e
            /\ \A i \in 1..Len(inbox[c]) : r[i] = inbox[c][i]
        BY <2>2 DEF r
      <4>4. ASSUME NEW i \in 1..Len(r) - 1 PROVE r[i + 1] = r[i] + 1
        <5>1. i \in 1..Len(inbox[c]) /\ r[i] = inbox[c][i] /\ Len(inbox[c]) \in Nat
          BY <4>3
        <5>2. CASE i = Len(inbox[c])
          <6>1. inbox[c] # <<>>
            BY <5>1, EmptySequence
          <6>2. inbox[c][i] = Taken - 1
            BY <1>6, <4>1, <5>2, <6>1 DEF UpToDate
          <6> QED BY <3>1, <3>2, <4>3, <5>1, <5>2, <6>2
        <5>3. CASE i # Len(inbox[c])
          <6>1. i \in 1..Len(inbox[c]) - 1 /\ i + 1 \in 1..Len(inbox[c])
            BY <5>1, <5>3
          <6>2. inbox[c][i + 1] = inbox[c][i] + 1
            BY <4>1, <6>1 DEF UpToDate
          <6> QED BY <4>3, <5>1, <6>1, <6>2
        <5> QED BY <5>2, <5>3
      <4> QED BY <3>1, <3>2, <4>0, <4>1, <4>2, <4>3, <4>4 DEF UpToDate
    <3>5. Sending'.todo # {} => Sending'.event = Taken
      BY <2>1, <3>2
    <3> QED BY <1>2, <2>6, <3>1, <3>3, <3>4, <3>5 DEF Straight
  <2> QED BY <1>2, <1>3, <1>4, <1>5, <2>4, <2>5, <2>6 DEF EventInv
<1>7. CASE ~(t = "dispatcher" /\ link[c] = "up")
  <2>0. inbox' = inbox
    BY <1>1, <1>7 DEF Deliver
  <2>1. /\ Sending'.todo \subseteq Sending.todo
        /\ Sending'.todo # {} => Sending'.event = Sending.event
        /\ \A d \in Clients : link[d] = "up" => (d \in Sending'.todo <=> d \in Sending.todo)
    <3>1. CASE t = "dispatcher"
      BY <1>3, <1>7, <3>1 DEF Sending
    <3>2. CASE t # "dispatcher"
      BY <1>3, <3>2 DEF Sending, Task
    <3> QED BY <3>1, <3>2
  <2>2. EventType'
    BY <1>2, <1>3, <1>4, <2>0 DEF EventType
  <2>3. Once'
    BY <1>2, <1>4, <2>0, <2>1 DEF Once, Pend
  <2>4. ASSUME Straight PROVE Straight'
    <3>1. Taken' = Taken
      BY <1>2 DEF Taken
    <3>2. ASSUME NEW d \in Clients PROVE UpToDate(d)'
      <4>1. UpToDate(d)
        BY <2>4 DEF Straight
      <4>2. link'[d] = "up" /\ d \in registered \cap watchers => d \in registered' \cap watchers'
        BY <1>3 DEF Serves
      <4> QED BY <1>2, <2>0, <2>1, <3>1, <4>1, <4>2 DEF UpToDate
    <3> QED BY <1>2, <2>1, <2>4, <3>1, <3>2 DEF Straight
  <2> QED BY <1>2, <1>3, <1>4, <1>5, <2>2, <2>3, <2>4 DEF EventInv
<1> QED BY <1>6, <1>7

-----------------------------------------------------------------------------
\* Every step keeps both parts of the invariant.
LEMMA StepInv ==
  ASSUME ConnectionInv, EventInv, [Next]_vars PROVE ConnectionInv' /\ EventInv'
<1>1. ASSUME NEW c \in Clients, Connection(c)
      PROVE  ConnectionInv' /\ EventInv'
  <2>1. ConnectionInv' /\ Serves /\ UNCHANGED <<broadcast, inbox, loopVars>>
    BY <1>1, ConnectionStep
  <2> QED BY <2>1, SameEvents DEF ConnectionInv, ConnectionType
<1>2. CASE Emit \/ RunPut \/ Dispatch \/ StatusUpdate
  <2>1. UNCHANGED clientVars
    BY <1>2 DEF Emit, RunPut, Dispatch, StatusUpdate
  <2> QED BY <1>2, <2>1, SameConnections, EmitOK, RunPutOK, DispatchOK, StatusUpdateOK DEF clientVars
<1>3. ASSUME NEW t \in Task, SendNext(t)
      PROVE  ConnectionInv' /\ EventInv'
  BY <1>3, SendNextOK
<1>4. CASE UNCHANGED vars
  <2>1. Serves /\ link' \in [Clients -> {"up", "gone"}]
    BY <1>4 DEF vars, Serves, ConnectionInv, ConnectionType
  <2> QED BY <1>4, <2>1, SameConnections, SameEvents DEF vars
<1> QED BY <1>1, <1>2, <1>3, <1>4 DEF Next

\* The invariant holds in every reachable state.
LEMMA EventsInvariant == Spec => [](ConnectionInv /\ EventInv)
<1>1. Init => ConnectionInv /\ EventInv
  BY InitInv
<1>2. ConnectionInv /\ EventInv /\ [Next]_vars => (ConnectionInv /\ EventInv)'
  BY StepInv
<1> QED BY <1>1, <1>2, PTL DEF Spec

\* The count of a user's connections stays between 0 and the limit, the queue within its size,
\* and nothing that was not emitted is on its way.
THEOREM TypeCorrect == Spec => []TypeOK
<1>1. ConnectionInv /\ EventInv => TypeOK
  BY InvImplies DEF ConnectionInv, EventInv
<1> QED BY <1>1, EventsInvariant, PTL

\* The count of a user's connections is right until a connect() of his was overtaken, however
\* handlers, failing sends and both broadcasts remove connections.
THEOREM CountedRightHolds == Spec => []CountedRight
<1>1. ConnectionInv /\ EventInv => CountedRight
  BY DEF ConnectionInv
<1> QED BY <1>1, EventsInvariant, PTL

\* Events reach each connection once, and in order and without a gap until one had to wait for
\* room in the queue.
THEOREM InOrderHolds == Spec => []InOrder
<1>1. ConnectionInv /\ EventInv => InOrder
  BY InvImplies
<1> QED BY <1>1, EventsInvariant, PTL
=============================================================================
