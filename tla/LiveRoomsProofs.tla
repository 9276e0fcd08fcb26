--------------------------- MODULE LiveRoomsProofs ---------------------------
(***************************************************************************)
(* Proofs about LiveRooms and its refinement of SharedDocument, for any    *)
(* finite set of connections, any room ids, any updates, any channel       *)
(* capacity and any bound on messages.                                     *)
(***************************************************************************)
EXTENDS LiveRoomsRefinement, FiniteSetTheorems, TLAPS

(***************************************************************************)
(* Where a handler is decides what it holds and which of its tasks exist;  *)
(* a task that exists serves a room; a cursor points into the log of its   *)
(* room.  TypeOK is inductive only together with this.                     *)
(***************************************************************************)
NotJoined(c) == pc[c] \in {"upgraded", "admitted"}
Starting(c)  == pc[c] \in {"acquired", "counted", "subscribed", "encoded"}

TaskOK(c) ==
  /\ NotJoined(c) => room[c] = None /\ cursor[c] = 0
  /\ NotJoined(c) \/ Starting(c) => forward[c] = "off" /\ receive[c] = "off"
  /\ Holding(c) => room[c] # None
  /\ forward[c] # "off" => room[c] # None
  /\ receive[c] # "off" => room[c] # None
  /\ receive[c] = "send" => applied[c] # None
  /\ room[c] # None => cursor[c] <= Len(log[room[c]])
  /\ room[c] = None => cursor[c] = 0
  /\ forward[c] = "send" => cursor[c] > 0

TasksOK == \A c \in Conns : TaskOK(c)

TInv == TypeOK /\ TasksOK

USE DEF Phase, Counted, Holding, Aborted, NotJoined, Starting

LEMMA LenNat == TypeOK => \A o \in Conns : Len(log[o]) \in Nat
  BY DEF TypeOK

LEMMA TInvInit == Init => TInv
  BY CapacityAssumption DEF Init, TInv, TypeOK, TasksOK, TaskOK

(***************************************************************************)
(* One lemma per part of the handler: its steps preserve TInv.             *)
(***************************************************************************)
LEMMA JoinTInv ==
  ASSUME TInv, NEW c \in Conns, Join(c)
  PROVE  TInv'
<1> SUFFICES ASSUME NEW d \in Conns PROVE TypeOK' /\ TaskOK(d)'
  BY DEF TInv, TasksOK
<1> USE DEF TInv, roomVars, handlerVars, forwardVars, receiveVars
<1>0. TypeOK /\ TaskOK(c) /\ TaskOK(d)
  BY DEF TasksOK
<1>1. CASE Admit(c)
  <2>1. TypeOK'
    BY <1>0, <1>1 DEF Admit, TypeOK, TaskOK
  <2>2. TaskOK(d)'
    BY <1>0, <1>1 DEF Admit, TypeOK, TaskOK
  <2> QED BY <2>1, <2>2
<1>2. CASE Refuse(c)
  <2>1. TypeOK'
    BY <1>0, <1>2 DEF Refuse, TypeOK, TaskOK
  <2>2. TaskOK(d)'
    BY <1>0, <1>2 DEF Refuse, TypeOK, TaskOK
  <2> QED BY <2>1, <2>2
<1>3. CASE GetOrCreate(c)
  <2>1. TypeOK'
    BY <1>0, <1>3, ConnsAssumption, RoomOfAssumption DEF GetOrCreate, RoomFor, TypeOK, TaskOK
  <2>2. TaskOK(d)'
    BY <1>0, <1>3, ConnsAssumption, RoomOfAssumption DEF GetOrCreate, RoomFor, TypeOK, TaskOK
  <2> QED BY <2>1, <2>2
<1>4. CASE CountIn(c)
  <2>1. TypeOK'
    <3>1. room[c] \in Conns /\ clientCount[room[c]] + 1 \in Nat
      BY <1>0, <1>4 DEF CountIn, TypeOK, TaskOK
    <3>2. clientCount' \in [Conns -> Nat]
      BY <3>1, <1>0, <1>4 DEF CountIn, TypeOK
    <3> QED BY <3>2, <1>0, <1>4 DEF CountIn, TypeOK
  <2>2. TaskOK(d)'
    BY <1>0, <1>4 DEF CountIn, TypeOK, TaskOK
  <2> QED BY <2>1, <2>2
<1>5. CASE Subscribe(c)
  <2>1. TypeOK'
    <3>1. Len(log[room[c]]) \in Nat
      BY <1>0, <1>5, LenNat DEF Subscribe, TypeOK, TaskOK
    <3> QED BY <3>1, <1>0, <1>5 DEF Subscribe, TypeOK
  <2>2. TaskOK(d)'
    BY <1>0, <1>5, LenNat DEF Subscribe, TypeOK, TaskOK
  <2> QED BY <2>1, <2>2
<1>6. CASE EncodeState(c)
  <2>1. TypeOK'
    BY <1>0, <1>6 DEF EncodeState, TypeOK, TaskOK
  <2>2. TaskOK(d)'
    BY <1>0, <1>6 DEF EncodeState, TypeOK, TaskOK
  <2> QED BY <2>1, <2>2
<1>7. CASE SendState(c)
  <2>1. TypeOK'
    BY <1>0, <1>7 DEF SendState, TypeOK, TaskOK
  <2>2. TaskOK(d)'
    BY <1>0, <1>7 DEF SendState, TypeOK, TaskOK
  <2> QED BY <2>1, <2>2
<1> QED BY <1>1, <1>2, <1>3, <1>4, <1>5, <1>6, <1>7 DEF Join

LEMMA ForwardTInv ==
  ASSUME TInv, NEW c \in Conns, Forward(c)
  PROVE  TInv'
<1> SUFFICES ASSUME NEW d \in Conns PROVE TypeOK' /\ TaskOK(d)'
  BY DEF TInv, TasksOK
<1> USE DEF TInv, roomVars, handlerVars, forwardVars, receiveVars
<1>0. TypeOK /\ TaskOK(c) /\ TaskOK(d)
  BY DEF TasksOK
<1>1. CASE ForwardRecv(c)
  <2>1. TypeOK'
    <3>1. cursor[c] + 1 \in Nat
      BY <1>0 DEF TypeOK
    <3> QED BY <3>1, <1>0, <1>1 DEF ForwardRecv, TypeOK
  <2>2. TaskOK(d)'
    <3>1. room[c] \in Conns /\ cursor[c] \in Nat /\ Len(log[room[c]]) \in Nat
      BY <1>0, <1>1, LenNat DEF ForwardRecv, TypeOK, TaskOK
    <3>2. cursor[c] + 1 <= Len(log[room[c]])
      BY <3>1, <1>1 DEF ForwardRecv, Behind
    <3>3. cursor'[c] = cursor[c] + 1 /\ forward'[c] = "send"
      BY <1>0, <1>1 DEF ForwardRecv, TypeOK
    <3>4. CASE d = c
      BY <3>1, <3>2, <3>3, <3>4, <1>0, <1>1 DEF ForwardRecv, TaskOK
    <3>5. CASE d # c
      BY <3>5, <1>0, <1>1 DEF ForwardRecv, TypeOK, TaskOK
    <3> QED BY <3>4, <3>5
  <2> QED BY <2>1, <2>2
<1>2. CASE ForwardLagged(c)
  <2>1. TypeOK'
    BY <1>0, <1>2 DEF ForwardLagged, TypeOK, TaskOK
  <2>2. TaskOK(d)'
    BY <1>0, <1>2 DEF ForwardLagged, TypeOK, TaskOK
  <2> QED BY <2>1, <2>2
<1>3. CASE ForwardSend(c)
  <2>1. TypeOK'
    <3>1. InHand(c) \in Message
      <4>1. room[c] \in Conns
        BY <1>0, <1>3 DEF ForwardSend, TypeOK, TaskOK
      <4>2. log[room[c]] \in Seq(Message) /\ cursor[c] \in Nat
        BY <4>1, <1>0 DEF TypeOK
      <4>3. cursor[c] > 0 /\ cursor[c] <= Len(log[room[c]])
        BY <4>1, <1>0, <1>3, ConnsAssumption DEF ForwardSend, TaskOK
      <4> QED BY <4>2, <4>3 DEF InHand
    <3>2. InHand(c).upd \in Updates
      BY <3>1 DEF Message
    <3> QED BY <3>2, <1>0, <1>3 DEF ForwardSend, TypeOK
  <2>2. TaskOK(d)'
    BY <1>0, <1>3 DEF ForwardSend, TypeOK, TaskOK
  <2> QED BY <2>1, <2>2
<1>4. CASE ForwardError(c)
  <2>1. TypeOK'
    BY <1>0, <1>4 DEF ForwardError, TypeOK, TaskOK
  <2>2. TaskOK(d)'
    BY <1>0, <1>4 DEF ForwardError, TypeOK, TaskOK
  <2> QED BY <2>1, <2>2
<1>5. CASE ForwardCancel(c)
  <2>1. TypeOK'
    BY <1>0, <1>5 DEF ForwardCancel, TypeOK, TaskOK
  <2>2. TaskOK(d)'
    BY <1>0, <1>5 DEF ForwardCancel, TypeOK, TaskOK
  <2> QED BY <2>1, <2>2
<1> QED BY <1>1, <1>2, <1>3, <1>4, <1>5 DEF Forward

LEMMA ReceiveTInv ==
  ASSUME TInv, NEW c \in Conns, Receive(c)
  PROVE  TInv'
<1> SUFFICES ASSUME NEW d \in Conns PROVE TypeOK' /\ TaskOK(d)'
  BY DEF TInv, TasksOK
<1> USE DEF TInv, roomVars, handlerVars, forwardVars, receiveVars
<1>0. TypeOK /\ TaskOK(c) /\ TaskOK(d)
  BY DEF TasksOK
<1>1. ASSUME NEW u \in Updates, ReceiveApply(c, u) PROVE TypeOK' /\ TaskOK(d)'
  <2>1. TypeOK'
    <3>1. room[c] \in Conns /\ sends + 1 \in Nat
      BY <1>0, <1>1 DEF ReceiveApply, TypeOK, TaskOK
    <3>2. doc' \in [Conns -> SUBSET Updates]
      BY <3>1, <1>0, <1>1 DEF ReceiveApply, TypeOK
    <3> QED BY <3>1, <3>2, <1>0, <1>1 DEF ReceiveApply, TypeOK
  <2>2. TaskOK(d)'
    BY <1>0, <1>1, UpdatesAssumption DEF ReceiveApply, TypeOK, TaskOK
  <2> QED BY <2>1, <2>2
<1>2. CASE ReceiveBroadcast(c)
  <2>1. TypeOK'
    <3>1. room[c] \in Conns /\ [from |-> c, upd |-> applied[c]] \in Message
      BY <1>0, <1>2 DEF ReceiveBroadcast, TypeOK, TaskOK, Message
    <3>2. Append(log[room[c]], [from |-> c, upd |-> applied[c]]) \in Seq(Message)
      BY <3>1, <1>0 DEF TypeOK
    <3>3. log' \in [Conns -> Seq(Message)]
      BY <3>1, <3>2, <1>0, <1>2 DEF ReceiveBroadcast, TypeOK
    <3> QED BY <3>3, <1>0, <1>2 DEF ReceiveBroadcast, TypeOK
  <2>2. TaskOK(d)'
    BY <1>0, <1>2 DEF ReceiveBroadcast, TypeOK, TaskOK
  <2> QED BY <2>1, <2>2
<1>3. CASE ReceiveEnd(c)
  <2>1. TypeOK'
    BY <1>0, <1>3 DEF ReceiveEnd, TypeOK, TaskOK
  <2>2. TaskOK(d)'
    BY <1>0, <1>3 DEF ReceiveEnd, TypeOK, TaskOK
  <2> QED BY <2>1, <2>2
<1>4. CASE ReceiveCancel(c)
  <2>1. TypeOK'
    BY <1>0, <1>4 DEF ReceiveCancel, TypeOK, TaskOK
  <2>2. TaskOK(d)'
    BY <1>0, <1>4 DEF ReceiveCancel, TypeOK, TaskOK
  <2> QED BY <2>1, <2>2
<1> QED BY <1>1, <1>2, <1>3, <1>4 DEF Receive

LEMMA LeaveTInv ==
  ASSUME TInv, NEW c \in Conns, Leave(c)
  PROVE  TInv'
<1> SUFFICES ASSUME NEW d \in Conns PROVE TypeOK' /\ TaskOK(d)'
  BY DEF TInv, TasksOK
<1> USE DEF TInv, roomVars, handlerVars, forwardVars, receiveVars
<1>0. TypeOK /\ TaskOK(c) /\ TaskOK(d)
  BY DEF TasksOK
<1>1. CASE Select(c)
  <2>1. TypeOK'
    BY <1>0, <1>1 DEF Select, TypeOK, TaskOK
  <2>2. TaskOK(d)'
    BY <1>0, <1>1 DEF Select, TypeOK, TaskOK
  <2> QED BY <2>1, <2>2
<1>2. CASE CountOut(c)
  <2>1. TypeOK'
    <3>1. \A n \in Nat : OneLess(n) \in Nat
      BY DEF OneLess
    <3>2. clientCount' \in [Conns -> Nat]
      BY <3>1, <1>0, <1>2 DEF CountOut, TypeOK
    <3> QED BY <3>2, <1>0, <1>2 DEF CountOut, TypeOK
  <2>2. TaskOK(d)'
    BY <1>0, <1>2 DEF CountOut, TypeOK, TaskOK
  <2> QED BY <2>1, <2>2
<1>3. CASE ReadCount(c)
  <2>1. TypeOK'
    BY <1>0, <1>3 DEF ReadCount, TypeOK, TaskOK
  <2>2. TaskOK(d)'
    BY <1>0, <1>3 DEF ReadCount, TypeOK, TaskOK
  <2> QED BY <2>1, <2>2
<1>4. CASE RemoveRoom(c)
  <2>1. TypeOK'
    BY <1>0, <1>4 DEF RemoveRoom, TypeOK, TaskOK
  <2>2. TaskOK(d)'
    BY <1>0, <1>4 DEF RemoveRoom, TypeOK, TaskOK
  <2> QED BY <2>1, <2>2
<1> QED BY <1>1, <1>2, <1>3, <1>4 DEF Leave

LEMMA TInvStep == TInv /\ [Next]_vars => TInv'
<1> SUFFICES ASSUME TInv, [Next]_vars PROVE TInv'
  OBVIOUS
<1>1. ASSUME NEW c \in Conns, Disconnect(c) PROVE TInv'
  BY <1>1 DEF Disconnect, TInv, TypeOK, TasksOK, TaskOK, roomVars, handlerVars, forwardVars,
     receiveVars
<1>2. CASE UNCHANGED vars
  BY <1>2 DEF TInv, TypeOK, TasksOK, TaskOK, vars, roomVars, handlerVars, forwardVars, receiveVars
<1> QED
  BY <1>1, <1>2, JoinTInv, ForwardTInv, ReceiveTInv, LeaveTInv DEF Next, Finished

(***************************************************************************)
(* Every reachable state is well typed, and each handler holds what its    *)
(* place in handle_ws_connection says it holds.                            *)
(***************************************************************************)
THEOREM TypeCorrect == SafeSpec => []TypeOK
<1>1. SafeSpec => []TInv
  BY TInvInit, TInvStep, PTL DEF SafeSpec
<1>2. TInv => TypeOK
  BY DEF TInv
<1> QED BY <1>1, <1>2, PTL

(***************************************************************************)
(* Which steps change what the counting and the registry depend on.        *)
(***************************************************************************)
LEMMA CountFrame ==
  ASSUME TInv, [Next]_vars
  PROVE  \/ \E c \in Conns : CountIn(c) \/ CountOut(c)
         \/ /\ clientCount' = clientCount
            /\ \A o \in Conns : CountedIn(o)' = CountedIn(o)
<1> DEFINE Same == /\ clientCount' = clientCount
                   /\ \A o \in Conns : CountedIn(o)' = CountedIn(o)
<1> USE DEF TInv, TypeOK, CountedIn, roomVars, handlerVars, forwardVars, receiveVars
<1>1. ASSUME NEW c \in Conns, Join(c) PROVE CountIn(c) \/ Same
  BY <1>1 DEF Join, Admit, Refuse, GetOrCreate, Subscribe, EncodeState, SendState
<1>2. ASSUME NEW c \in Conns, Forward(c) PROVE Same
  BY <1>2 DEF Forward, ForwardRecv, ForwardLagged, ForwardSend, ForwardError, ForwardCancel
<1>3. ASSUME NEW c \in Conns, Receive(c) PROVE Same
  BY <1>3 DEF Receive, ReceiveApply, ReceiveBroadcast, ReceiveEnd, ReceiveCancel
<1>4. ASSUME NEW c \in Conns, Leave(c) PROVE CountOut(c) \/ Same
  BY <1>4 DEF Leave, Select, ReadCount, RemoveRoom
<1>5. ASSUME NEW c \in Conns, Disconnect(c) PROVE Same
  BY <1>5 DEF Disconnect
<1>6. ASSUME UNCHANGED vars PROVE Same
  BY <1>6 DEF vars
<1> QED BY <1>1, <1>2, <1>3, <1>4, <1>5, <1>6 DEF Next, Finished

LEMMA RegistryFrame ==
  ASSUME TInv, [Next]_vars
  PROVE  \/ \E c \in Conns : GetOrCreate(c) \/ ReadCount(c) \/ RemoveRoom(c)
         \/ /\ registry' = registry /\ room' = room
            /\ \A c \in Conns : Holding(c) => Holding(c)'
<1> DEFINE Same == /\ registry' = registry /\ room' = room
                   /\ \A c \in Conns : Holding(c) => Holding(c)'
<1> USE DEF TInv, TypeOK, roomVars, handlerVars, forwardVars, receiveVars
<1>1. ASSUME NEW c \in Conns, Join(c) PROVE GetOrCreate(c) \/ Same
  BY <1>1 DEF Join, Admit, Refuse, CountIn, Subscribe, EncodeState, SendState
<1>2. ASSUME NEW c \in Conns, Forward(c) PROVE Same
  BY <1>2 DEF Forward, ForwardRecv, ForwardLagged, ForwardSend, ForwardError, ForwardCancel
<1>3. ASSUME NEW c \in Conns, Receive(c) PROVE Same
  BY <1>3 DEF Receive, ReceiveApply, ReceiveBroadcast, ReceiveEnd, ReceiveCancel
<1>4. ASSUME NEW c \in Conns, Leave(c) PROVE ReadCount(c) \/ RemoveRoom(c) \/ Same
  BY <1>4 DEF Leave, Select, CountOut
<1>5. ASSUME NEW c \in Conns, Disconnect(c) PROVE Same
  BY <1>5 DEF Disconnect
<1>6. ASSUME UNCHANGED vars PROVE Same
  BY <1>6 DEF vars
<1> QED BY <1>1, <1>2, <1>3, <1>4, <1>5, <1>6 DEF Next, Finished

-----------------------------------------------------------------------------
LEMMA CountedInFinite ==
  ASSUME NEW o \in Conns
  PROVE  IsFiniteSet(CountedIn(o)) /\ Cardinality(CountedIn(o)) \in Nat
  BY ConnsAssumption, FS_Subset, FS_CardinalityType DEF CountedIn

LEMMA CountExactInit == Init => CountExact
<1> SUFFICES ASSUME Init, NEW o \in Conns
             PROVE  clientCount[o] = Cardinality(CountedIn(o))
  BY DEF CountExact
<1>1. CountedIn(o) = {}
  BY DEF Init, CountedIn
<1> QED BY <1>1, FS_EmptySet DEF Init

LEMMA CountExactStep == TInv /\ CountExact /\ [Next]_vars => CountExact'
<1> SUFFICES ASSUME TInv, CountExact, [Next]_vars, NEW o \in Conns
             PROVE  clientCount'[o] = Cardinality(CountedIn(o)')
  BY DEF CountExact
<1>0. TypeOK /\ TasksOK /\ clientCount[o] = Cardinality(CountedIn(o))
  BY DEF TInv, CountExact
<1>1. ASSUME NEW c \in Conns, CountIn(c)
      PROVE  clientCount'[o] = Cardinality(CountedIn(o)')
  <2>1. CASE room[c] = o
    <3>1. CountedIn(o)' = CountedIn(o) \cup {c} /\ c \notin CountedIn(o)
      BY <1>0, <1>1, <2>1 DEF CountIn, CountedIn, TypeOK
    <3>2. clientCount'[o] = clientCount[o] + 1
      BY <1>0, <1>1, <2>1 DEF CountIn, TypeOK
    <3> QED BY <1>0, <3>1, <3>2, CountedInFinite, FS_AddElement
  <2>2. CASE room[c] # o
    <3>1. CountedIn(o)' = CountedIn(o)
      BY <1>0, <1>1, <2>2 DEF CountIn, CountedIn, TypeOK
    <3> QED BY <3>1, <1>0, <1>1, <2>2 DEF CountIn, TypeOK
  <2> QED BY <2>1, <2>2
<1>2. ASSUME NEW c \in Conns, CountOut(c)
      PROVE  clientCount'[o] = Cardinality(CountedIn(o)')
  <2>1. CASE room[c] = o
    <3>1. CountedIn(o)' = CountedIn(o) \ {c} /\ c \in CountedIn(o)
      BY <1>0, <1>2, <2>1 DEF CountOut, CountedIn, TypeOK
    <3>2. Cardinality(CountedIn(o)') = Cardinality(CountedIn(o)) - 1
      BY <3>1, CountedInFinite, FS_RemoveElement
    <3>3. CountedIn(o) # {}
      BY <3>1
    <3>4. Cardinality(CountedIn(o)) \in Nat /\ Cardinality(CountedIn(o)) # 0
      BY <3>3, CountedInFinite, FS_EmptySet
    <3>5. clientCount'[o] = clientCount[o] - 1
      BY <1>0, <1>2, <2>1, <3>4 DEF CountOut, OneLess, LeftRoom, TypeOK
    <3> QED BY <1>0, <3>2, <3>5
  <2>2. CASE room[c] # o
    <3>1. CountedIn(o)' = CountedIn(o)
      BY <1>0, <1>2, <2>2 DEF CountOut, CountedIn, TypeOK
    <3> QED BY <3>1, <1>0, <1>2, <2>2 DEF CountOut, LeftRoom, TypeOK
  <2> QED BY <2>1, <2>2
<1>3. CASE clientCount' = clientCount /\ CountedIn(o)' = CountedIn(o)
  BY <1>0, <1>3
<1> QED BY <1>1, <1>2, <1>3, CountFrame

LEMMA TInvAlways == SafeSpec => []TInv
  BY TInvInit, TInvStep, PTL DEF SafeSpec

(***************************************************************************)
(* client_count is the number of handlers between their *count += 1 and    *)
(* their *count -= 1, for any number of connections and in any order.      *)
(***************************************************************************)
THEOREM CountsAreExact == SafeSpec => []CountExact
  BY TInvAlways, CountExactInit, CountExactStep, PTL DEF SafeSpec

(***************************************************************************)
(* What remove_if_empty reads: a room whose count is zero has no counted   *)
(* handler, and the other way round.                                       *)
(***************************************************************************)
LEMMA ZeroCount ==
  ASSUME CountExact, NEW o \in Conns
  PROVE  clientCount[o] = 0 <=> CountedIn(o) = {}
  BY CountedInFinite, FS_EmptySet DEF CountExact

(***************************************************************************)
(* No step decides to remove a room that a counted connection is using,    *)
(* although remove_if_empty may be called by the connection of another     *)
(* room.                                                                   *)
(***************************************************************************)
THEOREM OnlyUnusedAreCondemned == SafeSpec => CondemnedWhenUnused
<1> DEFINE Unused == \A c \in Conns :
                       pc[c] # "removing" /\ pc'[c] = "removing"
                       => CountedIn(registry[RoomOf[c]]) = {}
<1>1. TInv /\ CountExact /\ [Next]_vars => Unused
  <2> SUFFICES ASSUME TInv, CountExact, [Next]_vars, NEW c \in Conns,
                      pc[c] # "removing", pc'[c] = "removing"
               PROVE  CountedIn(registry[RoomOf[c]]) = {}
    OBVIOUS
  <2>0. TypeOK
    BY DEF TInv
  <2>1. ReadCount(c)
    <3> USE <2>0 DEF TypeOK, handlerVars
    <3>1. ASSUME NEW d \in Conns, Join(d) PROVE FALSE
      BY <3>1 DEF Join, Admit, Refuse, GetOrCreate, CountIn, Subscribe, EncodeState, SendState
    <3>2. ASSUME NEW d \in Conns, Forward(d) \/ Receive(d) \/ Disconnect(d) PROVE FALSE
      BY <3>2 DEF Forward, ForwardRecv, ForwardLagged, ForwardSend, ForwardError, ForwardCancel,
                  Receive, ReceiveApply, ReceiveBroadcast, ReceiveEnd, ReceiveCancel, Disconnect
    <3>3. ASSUME NEW d \in Conns, Leave(d) PROVE d = c /\ ReadCount(d)
      BY <3>3 DEF Leave, Select, CountOut, ReadCount, RemoveRoom
    <3>4. CASE UNCHANGED vars
      BY <3>4 DEF vars
    <3> QED BY <3>1, <3>2, <3>3, <3>4 DEF Next, Finished
  <2>2. Removable(RoomOf[c])
    BY <2>0, <2>1 DEF ReadCount, TypeOK
  <2>3. registry[RoomOf[c]] \in Conns /\ clientCount[registry[RoomOf[c]]] = 0
    BY <2>0, <2>2, RoomOfAssumption DEF Removable, TypeOK
  <2> QED BY <2>0, <2>3, ZeroCount
<1>2. TInv /\ CountExact /\ [Next]_vars => [Unused]_vars
  BY <1>1
<1> QED BY <1>2, TInvAlways, CountsAreExact, PTL DEF SafeSpec, CondemnedWhenUnused

-----------------------------------------------------------------------------
(***************************************************************************)
(* A room is registered under the id it was built for, and a handler holds *)
(* a room of the id it asked for.                                          *)
(***************************************************************************)
RouteOK ==
  /\ \A r \in RoomIds : registry[r] # None => RoomOf[registry[r]] = r
  /\ \A c \in Conns : room[c] # None => RoomOf[room[c]] = RoomOf[c]

LEMMA RouteInit == Init => RouteOK
  BY DEF Init, RouteOK

LEMMA RouteStep == TInv /\ RouteOK /\ [Next]_vars => RouteOK'
<1> SUFFICES ASSUME TInv, RouteOK, [Next]_vars PROVE RouteOK'
  OBVIOUS
<1>0. TypeOK
  BY DEF TInv
<1>1. ASSUME NEW c \in Conns, GetOrCreate(c) PROVE RouteOK'
  BY <1>0, <1>1, RoomOfAssumption, ConnsAssumption
  DEF GetOrCreate, RoomFor, RouteOK, TypeOK
<1>2. ASSUME NEW c \in Conns, ReadCount(c) \/ RemoveRoom(c) PROVE RouteOK'
  BY <1>0, <1>2, RoomOfAssumption DEF ReadCount, RemoveRoom, roomVars, RouteOK, TypeOK
<1>3. CASE registry' = registry /\ room' = room
  BY <1>3 DEF RouteOK
<1> QED BY <1>1, <1>2, <1>3, RegistryFrame

LEMMA RouteAlways == SafeSpec => []RouteOK
  BY TInvAlways, RouteInit, RouteStep, PTL DEF SafeSpec

-----------------------------------------------------------------------------
LEMMA NoAbandonedInit == Init => NoAbandonedRoom
  BY DEF Init, NoAbandonedRoom

(***************************************************************************)
(* The step that could abandon a room is the remove_if_empty of its last   *)
(* holder.  If that leaves the room registered then its count was not      *)
(* zero, so some other handler is counted in it and has its own            *)
(* remove_if_empty to come.                                                *)
(***************************************************************************)
LEMMA NoAbandonedStep ==
  TInv /\ RouteOK /\ CountExact /\ NoAbandonedRoom /\ [Next]_vars => NoAbandonedRoom'
<1> SUFFICES ASSUME TInv, RouteOK, CountExact, NoAbandonedRoom, [Next]_vars,
                    NEW r \in RoomIds, registry'[r] # None
             PROVE  \E c \in Conns : room'[c] = registry'[r] /\ Holding(c)'
  BY DEF NoAbandonedRoom
<1>0. TypeOK
  BY DEF TInv
<1>1. ASSUME NEW c \in Conns, GetOrCreate(c)
      PROVE  \E d \in Conns : room'[d] = registry'[r] /\ Holding(d)'
  <2>1. CASE registry[r] # None
    <3>1. PICK d \in Conns : room[d] = registry[r] /\ Holding(d)
      BY <2>1 DEF NoAbandonedRoom
    <3>2. d # c /\ registry'[r] = registry[r]
      BY <1>0, <1>1, <2>1, <3>1, RoomOfAssumption DEF GetOrCreate, RoomFor, TypeOK
    <3>3. room'[d] = registry'[r] /\ Holding(d)'
      BY <1>0, <1>1, <3>1, <3>2 DEF GetOrCreate, TypeOK
    <3> QED BY <3>3
  <2>2. CASE registry[r] = None
    <3>1. room'[c] = registry'[r] /\ Holding(c)'
      BY <1>0, <1>1, <2>2, RoomOfAssumption DEF GetOrCreate, RoomFor, TypeOK
    <3> QED BY <3>1
  <2> QED BY <2>1, <2>2
<1>2. ASSUME NEW c \in Conns, ReadCount(c)
      PROVE  \E d \in Conns : room'[d] = registry'[r] /\ Holding(d)'
  <2>1. registry'[r] = registry[r] /\ registry[r] \in Conns /\ room' = room
    BY <1>0, <1>2 DEF ReadCount, TypeOK, roomVars
  <2>2. \A d \in Conns : Holding(d) /\ d # c => Holding(d)'
    BY <1>0, <1>2 DEF ReadCount, TypeOK
  <2>3. PICK d \in Conns : room[d] = registry[r] /\ Holding(d)
    BY <2>1 DEF NoAbandonedRoom
  <2>4. CASE d # c
    BY <2>1, <2>2, <2>3, <2>4
  <2>5. CASE d = c
    <3>1. r = RoomOf[c]
      BY <2>1, <2>3, <2>5, ConnsAssumption DEF RouteOK
    <3>2. CASE Removable(r)
      <4>1. Holding(c)'
        BY <1>0, <1>2, <3>1, <3>2 DEF ReadCount, TypeOK
      <4> QED BY <4>1, <2>1, <2>3, <2>5
    <3>3. CASE ~Removable(r)
      <4>1. PICK e \in CountedIn(registry[r]) : TRUE
        BY <2>1, <3>3, ConnsAssumption, ZeroCount DEF Removable
      <4>2. e \in Conns /\ room[e] = registry[r] /\ Holding(e) /\ e # c
        BY <1>2, <4>1 DEF CountedIn, ReadCount
      <4> QED BY <2>1, <2>2, <4>2
    <3> QED BY <3>2, <3>3
  <2> QED BY <2>4, <2>5
<1>3. ASSUME NEW c \in Conns, RemoveRoom(c)
      PROVE  \E d \in Conns : room'[d] = registry'[r] /\ Holding(d)'
  <2>1. r # RoomOf[c] /\ registry'[r] = registry[r] /\ room' = room
    BY <1>0, <1>3, RoomOfAssumption DEF RemoveRoom, TypeOK
  <2>2. PICK d \in Conns : room[d] = registry[r] /\ Holding(d)
    BY <2>1 DEF NoAbandonedRoom
  <2>3. d # c
    BY <2>1, <2>2, <1>0, ConnsAssumption DEF RouteOK, TypeOK
  <2> QED BY <1>0, <1>3, <2>1, <2>2, <2>3 DEF RemoveRoom, TypeOK
<1>4. CASE /\ registry' = registry /\ room' = room
           /\ \A c \in Conns : Holding(c) => Holding(c)'
  BY <1>4 DEF NoAbandonedRoom
<1> QED BY <1>1, <1>2, <1>3, <1>4, RegistryFrame

(***************************************************************************)
(* The registry never leaks: whatever is registered is in the hands of a   *)
(* handler that will still run remove_if_empty.                            *)
(***************************************************************************)
THEOREM NoRoomIsAbandoned == SafeSpec => []NoAbandonedRoom
  BY TInvAlways, RouteAlways, CountsAreExact, NoAbandonedInit, NoAbandonedStep, PTL
  DEF SafeSpec

-----------------------------------------------------------------------------
(***************************************************************************)
(* What is broadcast in a room has been applied to it, by a connection to  *)
(* the same id, and what a client has been or is being written is in the   *)
(* document of its room.                                                   *)
(***************************************************************************)
LogOK(o) ==
  \A i \in 1 .. Len(log[o]) :
    RoomOf[log[o][i].from] = RoomOf[o] /\ log[o][i].upd \in doc[o]

ViewOK(c) ==
  /\ room[c] # None => received[c] \cup snapshot[c] \subseteq doc[room[c]]
  /\ receive[c] = "send" => applied[c] \in doc[room[c]]
  /\ NotJoined(c) \/ Starting(c) => received[c] = {}
  /\ room[c] = None => received[c] = {}
  /\ pc[c] # "encoded" => snapshot[c] = {}

DataOK == \A c \in Conns : LogOK(c) /\ ViewOK(c)

LEMMA DataInit == Init => DataOK
  BY DEF Init, DataOK, LogOK, ViewOK

LEMMA DataStep == TInv /\ RouteOK /\ DataOK /\ [Next]_vars => DataOK'
<1> SUFFICES ASSUME TInv, RouteOK, DataOK, [Next]_vars, NEW d \in Conns
             PROVE  LogOK(d)' /\ ViewOK(d)'
  BY DEF DataOK
<1>0. TypeOK /\ TasksOK /\ LogOK(d) /\ ViewOK(d)
  BY DEF TInv, DataOK
<1> DEFINE Goal == LogOK(d)' /\ ViewOK(d)'
<1> USE <1>0 DEF roomVars, handlerVars, forwardVars, receiveVars
<1>1. ASSUME NEW c \in Conns, GetOrCreate(c) PROVE Goal
  <2>1. LogOK(d)'
    BY <1>1 DEF GetOrCreate, LogOK
  <2>2. ViewOK(d)'
    BY <1>1 DEF GetOrCreate, RoomFor, ViewOK, TypeOK, TasksOK, TaskOK
  <2> QED BY <2>1, <2>2
<1>2. ASSUME NEW c \in Conns, EncodeState(c) PROVE Goal
  <2>1. LogOK(d)'
    BY <1>2 DEF EncodeState, LogOK
  <2>2. ViewOK(d)'
    BY <1>2 DEF EncodeState, ViewOK, TypeOK
  <2> QED BY <2>1, <2>2
<1>3. ASSUME NEW c \in Conns, SendState(c) PROVE Goal
  <2>1. LogOK(d)'
    BY <1>3 DEF SendState, LogOK
  <2>2. ViewOK(d)'
    BY <1>3 DEF SendState, ViewOK, TypeOK, TasksOK, TaskOK
  <2> QED BY <2>1, <2>2
<1>4. ASSUME NEW c \in Conns, ForwardSend(c) PROVE Goal
  <2>1. LogOK(d)'
    BY <1>4 DEF ForwardSend, LogOK
  <2>2. room[c] \in Conns /\ InHand(c).upd \in doc[room[c]]
    <3>1. room[c] \in Conns /\ cursor[c] \in Nat /\ Len(log[room[c]]) \in Nat
      BY <1>4, LenNat DEF ForwardSend, TypeOK, TasksOK, TaskOK
    <3>2. cursor[c] \in 1 .. Len(log[room[c]])
      BY <1>4, <3>1, ConnsAssumption DEF ForwardSend, TasksOK, TaskOK
    <3> QED BY <3>1, <3>2 DEF DataOK, LogOK, InHand
  <2>3. NotJoined(c) \/ Starting(c) => FALSE
    BY <1>4 DEF ForwardSend, TasksOK, TaskOK
  <2>4. ViewOK(d)'
    BY <1>4, <2>2, <2>3, ConnsAssumption DEF ForwardSend, ViewOK, TypeOK
  <2> QED BY <2>1, <2>4
<1>5. ASSUME NEW c \in Conns, NEW u \in Updates, ReceiveApply(c, u) PROVE Goal
  <2>1. \A o \in Conns : doc[o] \subseteq doc'[o]
    BY <1>5 DEF ReceiveApply, TypeOK
  <2>2. LogOK(d)'
    BY <1>5, <2>1 DEF ReceiveApply, LogOK
  <2>3. room[c] \in Conns /\ u \in doc'[room[c]]
    BY <1>5 DEF ReceiveApply, TypeOK, TasksOK, TaskOK
  <2>4. room[d] # None => room[d] \in Conns
    BY DEF TypeOK
  <2>5. receive[d] = "send" => room[d] # None
    BY DEF TasksOK, TaskOK
  <2>6. ViewOK(d)'
    BY <1>5, <2>1, <2>3, <2>4, <2>5 DEF ReceiveApply, ViewOK, TypeOK
  <2> QED BY <2>2, <2>6
<1>6. ASSUME NEW c \in Conns, ReceiveBroadcast(c) PROVE Goal
  <2>1. room[c] \in Conns /\ RoomOf[c] = RoomOf[room[c]] /\ applied[c] \in doc[room[c]]
    BY <1>6 DEF ReceiveBroadcast, TypeOK, TasksOK, TaskOK, RouteOK, DataOK, ViewOK
  <2>2. LogOK(d)'
    <3> SUFFICES ASSUME NEW i \in 1 .. Len(log'[d])
                 PROVE  RoomOf[log'[d][i].from] = RoomOf[d] /\ log'[d][i].upd \in doc[d]
      BY <1>6 DEF LogOK, ReceiveBroadcast
    <3>1. CASE d # room[c]
      BY <1>6, <3>1 DEF ReceiveBroadcast, LogOK, TypeOK
    <3>2. CASE d = room[c]
      <4> DEFINE m == [from |-> c, upd |-> applied[c]]
      <4>1. log'[d] = Append(log[d], m) /\ log[d] \in Seq(Message)
        BY <1>6, <2>1, <3>2 DEF ReceiveBroadcast, TypeOK
      <4>2. CASE i = Len(log[d]) + 1
        <5>1. log'[d][i] = m
          BY <4>1, <4>2
        <5> QED BY <5>1, <2>1, <3>2
      <4>3. CASE i # Len(log[d]) + 1
        <5> HIDE DEF m
        <5>1. i \in 1 .. Len(log[d]) /\ log'[d][i] = log[d][i]
          BY <4>1, <4>3
        <5> QED BY <5>1 DEF LogOK
      <4> QED BY <4>2, <4>3
    <3> QED BY <3>1, <3>2
  <2>3. ViewOK(d)'
    BY <1>6 DEF ReceiveBroadcast, ViewOK, TypeOK
  <2> QED BY <2>2, <2>3
<1>7. ASSUME NEW c \in Conns, ReceiveEnd(c) \/ ReceiveCancel(c) PROVE Goal
  BY <1>7 DEF ReceiveEnd, ReceiveCancel, LogOK, ViewOK, TypeOK
<1>8. ASSUME NEW c \in Conns, Admit(c) \/ Refuse(c) \/ CountIn(c) \/ Subscribe(c) PROVE Goal
  BY <1>8 DEF Admit, Refuse, CountIn, Subscribe, LogOK, ViewOK, TypeOK
<1>9. ASSUME NEW c \in Conns,
             ForwardRecv(c) \/ ForwardLagged(c) \/ ForwardError(c) \/ ForwardCancel(c)
      PROVE  Goal
  BY <1>9 DEF ForwardRecv, ForwardLagged, ForwardError, ForwardCancel, LogOK, ViewOK
<1>10. ASSUME NEW c \in Conns, Leave(c) PROVE Goal
  BY <1>10 DEF Leave, Select, CountOut, ReadCount, RemoveRoom, LogOK, ViewOK, TypeOK
<1>11. ASSUME NEW c \in Conns, Disconnect(c) PROVE Goal
  BY <1>11 DEF Disconnect, LogOK, ViewOK
<1>12. CASE UNCHANGED vars
  BY <1>12 DEF vars, LogOK, ViewOK
<1> QED
  BY <1>1, <1>2, <1>3, <1>4, <1>5, <1>6, <1>7, <1>8, <1>9, <1>10, <1>11, <1>12
  DEF Next, Join, Forward, Receive, Finished

LEMMA DataAlways == SafeSpec => []DataOK
  BY TInvAlways, RouteAlways, DataInit, DataStep, PTL DEF SafeSpec

(***************************************************************************)
(* Rooms do not mix: what a room broadcasts comes from connections to its  *)
(* own id, and a client is only written updates of the room it asked for.  *)
(***************************************************************************)
THEOREM RoomsAreIsolated == SafeSpec => []RoomsIsolated
<1>1. TInv /\ RouteOK /\ DataOK => RoomsIsolated
  <2> SUFFICES ASSUME TInv, RouteOK, DataOK PROVE RoomsIsolated
    OBVIOUS
  <2>1. \A o \in Conns : DOMAIN log[o] = 1 .. Len(log[o])
    BY DEF TInv, TypeOK
  <2> QED BY <2>1 DEF RoomsIsolated, RouteOK, DataOK, LogOK, ViewOK
<1> QED BY <1>1, TInvAlways, RouteAlways, DataAlways, PTL

-----------------------------------------------------------------------------
(***************************************************************************)
(* NoMissedUpdate, one update at a time: what the client has been written, *)
(* what waits in the channel for it, what is still to be broadcast.        *)
(***************************************************************************)
Waiting(c, u) ==
  \E i \in 1 .. Len(log[room[c]]) :
    /\ i > cursor[c] \/ (i = cursor[c] /\ forward[c] = "send")
    /\ log[room[c]][i].upd = u

Flying(o, u) == \E d \in Conns : room[d] = o /\ receive[d] = "send" /\ applied[d] = u

Reaching(c, u) == \/ u \in received[c] \/ u \in snapshot[c]
                  \/ Waiting(c, u) \/ Flying(room[c], u)

SyncOK == \A c \in Conns : Following(c) => \A u \in doc[room[c]] : Reaching(c, u)

LEMMA FollowingHasRoom ==
  ASSUME TInv, NEW c \in Conns, Following(c)
  PROVE  /\ room[c] \in Conns /\ cursor[c] \in Nat
         /\ log[room[c]] \in Seq(Message) /\ Len(log[room[c]]) \in Nat
  BY LenNat DEF TInv, TypeOK, TasksOK, TaskOK, Following

LEMMA SyncMeansNoMissedUpdate == TInv => (SyncOK <=> NoMissedUpdate)
<1> SUFFICES ASSUME TInv, NEW c \in Conns, Following(c)
             PROVE  (\A u \in doc[room[c]] : Reaching(c, u))
                    <=> doc[room[c]] \subseteq received[c] \cup snapshot[c] \cup Pending(c)
                                              \cup InFlight(room[c])
  BY DEF SyncOK, NoMissedUpdate
<1>1. \A u : u \in InFlight(room[c]) <=> Flying(room[c], u)
  BY DEF InFlight, Flying
<1>2. \A u : u \in Pending(c) <=> Waiting(c, u)
  <2>1. /\ cursor[c] \in Nat /\ Len(log[room[c]]) \in Nat
        /\ forward[c] = "send" => cursor[c] > 0
    BY FollowingHasRoom DEF TInv, TasksOK, TaskOK
  <2>2. CASE forward[c] = "send"
    BY <2>1, <2>2 DEF Pending, Waiting
  <2>3. CASE forward[c] # "send"
    BY <2>1, <2>3 DEF Pending, Waiting
  <2> QED BY <2>2, <2>3
<1> QED BY <1>1, <1>2 DEF Reaching

LEMMA SyncInit == Init => SyncOK
  BY DEF Init, SyncOK, Following

(***************************************************************************)
(* A step moves an update from one of these places to the next, and only   *)
(* EncodeState makes a client start following.                             *)
(***************************************************************************)
LEMMA SyncStep == TInv /\ DataOK /\ SyncOK /\ [Next]_vars => SyncOK'
<1> SUFFICES ASSUME TInv, DataOK, SyncOK, [Next]_vars, NEW d \in Conns, Following(d)',
                    NEW u \in doc'[room'[d]]
             PROVE  Reaching(d, u)'
  BY DEF SyncOK
<1>0. TypeOK /\ TasksOK /\ TaskOK(d) /\ ViewOK(d)
  BY DEF TInv, TasksOK, DataOK
<1> DEFINE Goal == Reaching(d, u)'
<1> USE <1>0 DEF roomVars, handlerVars, forwardVars, receiveVars
\* A step that moves no update and starts nobody.
<1>1. ASSUME UNCHANGED <<doc, log, cursor, received, snapshot, applied>>, room'[d] = room[d],
             Following(d), forward'[d] = forward[d],
             \A e \in Conns : receive[e] = "send" => receive'[e] = "send" /\ room'[e] = room[e]
      PROVE  Goal
  <2>1. Reaching(d, u)
    BY <1>1 DEF SyncOK
  <2> QED BY <1>1, <2>1 DEF Reaching, Waiting, Flying
<1>2. ASSUME NEW c \in Conns,
             Admit(c) \/ Refuse(c) \/ GetOrCreate(c) \/ CountIn(c) \/ Leave(c) \/ Disconnect(c)
      PROVE  Goal
  <2>1. UNCHANGED <<doc, log, cursor, received, snapshot, applied, receive, forward>>
    BY <1>2 DEF Admit, Refuse, GetOrCreate, CountIn, Leave, Select, CountOut, ReadCount,
                RemoveRoom, Disconnect
  <2>2. Following(d)
    BY <1>2 DEF Following, Admit, Refuse, GetOrCreate, CountIn, Leave, Select, CountOut,
                ReadCount, RemoveRoom, Disconnect, TypeOK
  <2>3. \A e \in Conns : Following(e) \/ receive[e] = "send" => room'[e] = room[e]
    BY <1>2 DEF Following, Admit, Refuse, GetOrCreate, CountIn, Leave, Select, CountOut,
                ReadCount, RemoveRoom, Disconnect, TypeOK, TasksOK, TaskOK
  <2> QED BY <1>1, <2>1, <2>2, <2>3
<1>3. ASSUME NEW c \in Conns, Subscribe(c) PROVE Goal
  <2>1. d # c /\ Following(d)
    BY <1>3 DEF Subscribe, Following, TypeOK, TaskOK
  <2>2. Reaching(d, u)
    BY <1>3, <2>1 DEF SyncOK, Subscribe
  <2> QED BY <1>3, <2>1, <2>2 DEF Subscribe, Reaching, Waiting, Flying, TypeOK
<1>4. ASSUME NEW c \in Conns, EncodeState(c) PROVE Goal
  <2>1. CASE d = c
    BY <1>4, <2>1 DEF EncodeState, Reaching, TypeOK
  <2>2. CASE d # c
    <3>1. Following(d)
      BY <1>4, <2>2 DEF EncodeState, Following, TypeOK
    <3>2. Reaching(d, u)
      BY <1>4, <3>1 DEF SyncOK, EncodeState
    <3> QED BY <1>4, <2>2, <3>2 DEF EncodeState, Reaching, Waiting, Flying, TypeOK
  <2> QED BY <2>1, <2>2
<1>5. ASSUME NEW c \in Conns, SendState(c) PROVE Goal
  <2>1. Following(d)
    BY <1>5 DEF SendState, Following, TypeOK
  <2>2. Reaching(d, u)
    BY <1>5, <2>1 DEF SyncOK, SendState
  <2>3. CASE d = c
    <3>1. received'[d] = snapshot[d]
      BY <1>5, <2>1, <2>3 DEF SendState, Following, TypeOK
    <3>2. received[d] = {}
      BY <1>5, <2>3 DEF SendState, ViewOK
    <3>3. forward'[d] # "send" /\ forward[d] # "send" /\ UNCHANGED <<room, log, cursor, applied>>
      BY <1>5, <2>3 DEF SendState, TypeOK, TaskOK
    <3>4. Waiting(d, u) => Waiting(d, u)'
      BY <3>3 DEF Waiting
    <3>5. Flying(room[d], u) => Flying(room[d], u)'
      BY <1>5 DEF SendState, Flying, TypeOK, TasksOK, TaskOK
    <3> QED BY <2>2, <3>1, <3>2, <3>3, <3>4, <3>5 DEF Reaching
  <2>4. CASE d # c
    <3>1. Flying(room[d], u) => Flying(room[d], u)'
      BY <1>5 DEF SendState, Flying, TypeOK, TasksOK, TaskOK
    <3>2. Waiting(d, u) => Waiting(d, u)'
      BY <1>5, <2>4 DEF SendState, Waiting, TypeOK
    <3> QED BY <1>5, <2>2, <2>4, <3>1, <3>2 DEF SendState, Reaching, TypeOK
  <2> QED BY <2>3, <2>4
<1>6. ASSUME NEW c \in Conns, ForwardRecv(c) PROVE Goal
  <2>1. Following(d)
    BY <1>6 DEF ForwardRecv, Following, TypeOK
  <2>2. Reaching(d, u)
    BY <1>6, <2>1 DEF SyncOK, ForwardRecv
  <2>3. CASE d # c
    BY <1>6, <2>2, <2>3 DEF ForwardRecv, Reaching, Waiting, Flying, TypeOK
  <2>4. CASE d = c
    <3>1. /\ cursor'[d] = cursor[d] + 1 /\ forward'[d] = "send" /\ forward[d] = "recv"
          /\ UNCHANGED <<room, log, received, snapshot, receive, applied>>
      BY <1>6, <2>4 DEF ForwardRecv, TypeOK
    <3>2. cursor[d] \in Nat /\ Len(log[room[d]]) \in Nat
      BY <2>1, FollowingHasRoom
    <3>3. Waiting(d, u) => Waiting(d, u)'
      BY <3>1, <3>2 DEF Waiting
    <3> QED BY <2>2, <3>1, <3>3 DEF Reaching, Flying
  <2> QED BY <2>3, <2>4
<1>7. ASSUME NEW c \in Conns, ForwardLagged(c) \/ ForwardError(c) \/ ForwardCancel(c) PROVE Goal
  <2>1. d # c /\ Following(d)
    BY <1>7 DEF ForwardLagged, ForwardError, ForwardCancel, Following, Aborted, TypeOK, TaskOK
  <2>2. forward'[d] = forward[d]
    BY <1>7, <2>1 DEF ForwardLagged, ForwardError, ForwardCancel, TypeOK
  <2> QED BY <1>1, <1>7, <2>1, <2>2 DEF ForwardLagged, ForwardError, ForwardCancel
<1>8. ASSUME NEW c \in Conns, ForwardSend(c) PROVE Goal
  <2>1. Following(d)
    BY <1>8 DEF ForwardSend, Following, TypeOK
  <2>2. Reaching(d, u)
    BY <1>8, <2>1 DEF SyncOK, ForwardSend
  <2>3. CASE d # c
    BY <1>8, <2>2, <2>3 DEF ForwardSend, Reaching, Waiting, Flying, TypeOK
  <2>4. CASE d = c
    <3>1. /\ received'[d] = received[d] \cup {InHand(d).upd} /\ forward'[d] = "recv"
          /\ UNCHANGED <<room, log, cursor, snapshot, receive, applied>>
      BY <1>8, <2>4 DEF ForwardSend, TypeOK
    <3>2. Waiting(d, u) => Waiting(d, u)' \/ u = InHand(d).upd
      BY <3>1 DEF Waiting, InHand
    <3> QED BY <2>2, <3>1, <3>2 DEF Reaching, Flying
  <2> QED BY <2>3, <2>4
<1>9. ASSUME NEW c \in Conns, NEW v \in Updates, ReceiveApply(c, v) PROVE Goal
  <2>1. Following(d) /\ room' = room
    BY <1>9 DEF ReceiveApply, Following
  <2>2. room[c] \in Conns /\ room[d] \in Conns
    BY <1>9, <2>1, FollowingHasRoom DEF ReceiveApply, TypeOK, TasksOK, TaskOK
  <2>3. CASE u = v /\ room[d] = room[c]
    <3>1. Flying(room[d], u)'
      BY <1>9, <2>1, <2>3 DEF ReceiveApply, Flying, TypeOK
    <3> QED BY <3>1, <2>1 DEF Reaching
  <2>4. CASE u \in doc[room[d]]
    <3>1. Reaching(d, u)
      BY <2>1, <2>4 DEF SyncOK
    <3>2. Flying(room[d], u) => Flying(room[d], u)'
      BY <1>9 DEF ReceiveApply, Flying, TypeOK
    <3> QED BY <1>9, <2>1, <3>1, <3>2 DEF ReceiveApply, Reaching, Waiting
  <2> QED BY <1>9, <2>1, <2>2, <2>3, <2>4 DEF ReceiveApply, TypeOK
<1>10. ASSUME NEW c \in Conns, ReceiveBroadcast(c) PROVE Goal
  <2>1. Following(d) /\ UNCHANGED <<room, doc, cursor, forward, received, snapshot>>
    BY <1>10 DEF ReceiveBroadcast, Following
  <2>2. Reaching(d, u)
    BY <2>1 DEF SyncOK
  <2> DEFINE m == [from |-> c, upd |-> applied[c]]
             o == room[d]
  <2>3. /\ o \in Conns /\ cursor[d] \in Nat /\ log[o] \in Seq(Message)
        /\ cursor[d] <= Len(log[o]) /\ room[c] \in Conns
    BY <1>10, <2>1, FollowingHasRoom, ConnsAssumption
    DEF ReceiveBroadcast, TypeOK, TasksOK, TaskOK
  <2>4. log'[o] = IF room[c] = o THEN Append(log[o], m) ELSE log[o]
    BY <1>10, <2>3 DEF ReceiveBroadcast, TypeOK
  <2>5. Waiting(d, u) => Waiting(d, u)'
    <3> HIDE DEF m
    <3>1. \A i \in 1 .. Len(log[o]) : i \in 1 .. Len(log'[o]) /\ log'[o][i] = log[o][i]
      BY <2>3, <2>4
    <3> QED BY <2>1, <3>1 DEF Waiting
  <2>6. Flying(o, u) => Flying(o, u)' \/ Waiting(d, u)'
    <3> SUFFICES ASSUME NEW e \in Conns, room[e] = o, receive[e] = "send", applied[e] = u
                 PROVE  Flying(o, u)' \/ Waiting(d, u)'
      BY DEF Flying
    <3>1. CASE e # c
      BY <1>10, <2>1, <3>1 DEF ReceiveBroadcast, Flying, TypeOK
    <3>2. CASE e = c
      <4>1. m.upd = u
        BY <3>2
      <4> HIDE DEF m
      <4>2. Len(log'[o]) = Len(log[o]) + 1 /\ log'[o][Len(log[o]) + 1] = m
        BY <2>3, <2>4, <3>2
      <4>3. Len(log[o]) \in Nat
        BY <2>3
      <4>4. Len(log[o]) + 1 \in 1 .. Len(log'[o]) /\ Len(log[o]) + 1 > cursor[d]
        BY <2>3, <4>2, <4>3
      <4> QED BY <2>1, <4>1, <4>2, <4>4 DEF Waiting
    <3> QED BY <3>1, <3>2
  <2> QED BY <2>1, <2>2, <2>5, <2>6 DEF Reaching
<1>11. ASSUME NEW c \in Conns, ReceiveEnd(c) \/ ReceiveCancel(c) PROVE Goal
  <2>1. \A e \in Conns : receive[e] = "send" => receive'[e] = "send"
    BY <1>11 DEF ReceiveEnd, ReceiveCancel, TypeOK
  <2>2. Following(d)
    BY <1>11 DEF ReceiveEnd, ReceiveCancel, Following
  <2> QED BY <1>1, <1>11, <2>1, <2>2 DEF ReceiveEnd, ReceiveCancel
<1>12. CASE UNCHANGED vars
  <2>1. Following(d)
    BY <1>12 DEF vars, Following
  <2> QED BY <1>1, <1>12, <2>1 DEF vars
<1> QED
  BY <1>2, <1>3, <1>4, <1>5, <1>6, <1>7, <1>8, <1>9, <1>10, <1>11, <1>12
  DEF Next, Join, Forward, Receive, Finished

LEMMA SyncAlways == SafeSpec => []SyncOK
  BY TInvAlways, DataAlways, SyncInit, SyncStep, PTL DEF SafeSpec

(***************************************************************************)
(* Subscribing before encoding the state leaves no gap: for a served       *)
(* client, no update of its room's document is ever out of its reach.      *)
(***************************************************************************)
THEOREM NothingIsMissed == SafeSpec => []NoMissedUpdate
  BY TInvAlways, SyncAlways, SyncMeansNoMissedUpdate, PTL

(***************************************************************************)
(* When nothing is under way, a served client has been written exactly the *)
(* document of its room.                                                   *)
(***************************************************************************)
THEOREM QuietIsInSync == SafeSpec => []QuietMeansInSync
<1>1. TInv /\ DataOK /\ SyncOK => QuietMeansInSync
  <2> SUFFICES ASSUME TInv, DataOK, SyncOK, NEW c \in Conns, Following(c), pc[c] = "running",
                      forward[c] = "recv", Behind(c) = 0, InFlight(room[c]) = {}
               PROVE  received[c] = doc[room[c]]
    BY DEF QuietMeansInSync
  <2>1. cursor[c] \in Nat /\ Len(log[room[c]]) \in Nat /\ cursor[c] = Len(log[room[c]])
    BY FollowingHasRoom DEF Behind
  <2>2. \A u : ~Waiting(c, u) /\ ~Flying(room[c], u)
    BY <2>1 DEF Waiting, Flying, InFlight
  <2>3. snapshot[c] = {} /\ received[c] \subseteq doc[room[c]]
    BY DEF DataOK, ViewOK, TInv, TasksOK, TaskOK
  <2> QED BY <2>2, <2>3 DEF SyncOK, Reaching
<1> QED BY <1>1, TInvAlways, DataAlways, SyncAlways, PTL

-----------------------------------------------------------------------------
(***************************************************************************)
(* When every handler has returned or has not joined yet, the server keeps *)
(* nothing: no room is registered and every count is back to zero, however *)
(* the handlers before overlapped.                                         *)
(***************************************************************************)
NothingKept ==
  (\A c \in Conns : ~Holding(c))
    => /\ \A r \in RoomIds : registry[r] = None
       /\ \A o \in Conns : clientCount[o] = 0

THEOREM NothingIsKept == SafeSpec => []NothingKept
<1>1. CountExact /\ NoAbandonedRoom => NothingKept
  <2> SUFFICES ASSUME CountExact, NoAbandonedRoom, \A c \in Conns : ~Holding(c)
               PROVE  /\ \A r \in RoomIds : registry[r] = None
                      /\ \A o \in Conns : clientCount[o] = 0
    BY DEF NothingKept
  <2>1. \A o \in Conns : CountedIn(o) = {}
    BY DEF CountedIn
  <2> QED BY <2>1, ZeroCount DEF NoAbandonedRoom
<1> QED BY <1>1, CountsAreExact, NoRoomIsAbandoned, PTL

-----------------------------------------------------------------------------
(***************************************************************************)
(* A handler has got its room from get_or_create and has not counted       *)
(* itself in, while a remove_if_empty has read the room's count as zero    *)
(* and is about to remove it.                                              *)
(***************************************************************************)
LateJoin ==
  \E c, d \in Conns :
    pc[c] = "acquired" /\ pc[d] = "removing" /\ room[c] = registry[RoomOf[d]]

\* A handler that uses or will use a room: before its cleanup.
Using(c) == pc[c] = "acquired" \/ Counted(c)

\* Handlers use the room that is registered under their id.
UsesRegistered == \A c \in Conns : Using(c) => room[c] = registry[RoomOf[c]]

\* Nobody is counted in under an id whose room is being removed.
CondemnedUnused ==
  \A c, d \in Conns : Counted(c) /\ pc[d] = "removing" => RoomOf[c] # RoomOf[d]

OneRoomInv == UsesRegistered /\ CondemnedUnused

LEMMA OneRoomInit == Init => OneRoomInv
  BY DEF Init, OneRoomInv, UsesRegistered, CondemnedUnused, Using

(***************************************************************************)
(* The two dangerous steps are CountIn, which may come too late for a room *)
(* that is condemned, and RemoveRoom, which takes the room from those that *)
(* use it.  ReadCount condemns a room nobody is counted in, because all    *)
(* who are counted in under the id are in the registered room.             *)
(***************************************************************************)
LEMMA OneRoomStep ==
  TInv /\ CountExact /\ ~LateJoin /\ OneRoomInv /\ [Next]_vars => OneRoomInv'
<1> SUFFICES ASSUME TInv, CountExact, ~LateJoin, OneRoomInv, [Next]_vars PROVE OneRoomInv'
  OBVIOUS
<1>0. TypeOK /\ UsesRegistered /\ CondemnedUnused
  BY DEF TInv, OneRoomInv
<1>a. \A c \in Conns : Using(c) => room[c] # None
  BY DEF TInv, TasksOK, TaskOK, Using
<1> USE DEF roomVars, handlerVars, forwardVars, receiveVars
\* A step that brings nobody closer to a room, and removes none.
<1>1. ASSUME registry' = registry, room' = room,
             \A c \in Conns : /\ Using(c)' => Using(c)
                              /\ Counted(c)' => Counted(c)
                              /\ pc'[c] = "removing" => pc[c] = "removing"
      PROVE  OneRoomInv'
  BY <1>0, <1>1 DEF OneRoomInv, UsesRegistered, CondemnedUnused
<1>2. ASSUME NEW c \in Conns, GetOrCreate(c) PROVE OneRoomInv'
  <2>1. \A d \in Conns : pc'[d] # "removing"
    BY <1>0, <1>2 DEF GetOrCreate, RegistryLocked, TypeOK
  <2>2. ASSUME NEW d \in Conns, Using(d)' PROVE room'[d] = registry'[RoomOf[d]]
    <3>1. CASE d = c
      BY <1>0, <1>2, <3>1, RoomOfAssumption DEF GetOrCreate, TypeOK
    <3>2. CASE d # c
      <4>1. Using(d) /\ room'[d] = room[d]
        BY <1>0, <1>2, <2>2, <3>2 DEF GetOrCreate, Using, TypeOK
      <4>2. room[d] = registry[RoomOf[d]] /\ room[d] # None
        BY <1>0, <1>a, <4>1 DEF UsesRegistered
      <4> QED BY <1>0, <1>2, <4>1, <4>2, RoomOfAssumption DEF GetOrCreate, RoomFor, TypeOK
    <3> QED BY <3>1, <3>2
  <2> QED BY <2>1, <2>2 DEF OneRoomInv, UsesRegistered, CondemnedUnused
<1>3. ASSUME NEW c \in Conns, CountIn(c) PROVE OneRoomInv'
  <2>1. /\ registry' = registry /\ room' = room
        /\ \A d \in Conns : Using(d)' => Using(d)
        /\ \A d \in Conns : Counted(d)' => Counted(d) \/ d = c
        /\ \A d \in Conns : pc'[d] = "removing" => pc[d] = "removing"
    BY <1>0, <1>3 DEF CountIn, Using, TypeOK
  <2>2. ASSUME NEW d \in Conns, pc[d] = "removing" PROVE RoomOf[c] # RoomOf[d]
    <3>1. pc[c] = "acquired" /\ room[c] = registry[RoomOf[c]]
      BY <1>0, <1>3 DEF CountIn, UsesRegistered, Using
    <3> QED BY <2>2, <3>1 DEF LateJoin
  <2> QED BY <1>0, <2>1, <2>2 DEF OneRoomInv, UsesRegistered, CondemnedUnused
<1>4. ASSUME NEW c \in Conns, ReadCount(c) PROVE OneRoomInv'
  <2>1. /\ registry' = registry /\ room' = room
        /\ \A d \in Conns : Using(d)' => Using(d)
        /\ \A d \in Conns : Counted(d)' => Counted(d)
        /\ \A d \in Conns : pc'[d] = "removing" => d = c /\ Removable(RoomOf[c])
    BY <1>0, <1>4 DEF ReadCount, RegistryLocked, Using, TypeOK
  <2>2. ASSUME Removable(RoomOf[c]), NEW d \in Conns, Counted(d) PROVE RoomOf[d] # RoomOf[c]
    <3>1. registry[RoomOf[c]] \in Conns /\ CountedIn(registry[RoomOf[c]]) = {}
      BY <1>0, <2>2, ZeroCount, RoomOfAssumption DEF Removable, TypeOK
    <3>2. room[d] = registry[RoomOf[d]]
      BY <1>0, <2>2 DEF UsesRegistered, Using
    <3> QED BY <2>2, <3>1, <3>2 DEF CountedIn
  <2> QED BY <1>0, <2>1, <2>2 DEF OneRoomInv, UsesRegistered, CondemnedUnused
<1>5. ASSUME NEW c \in Conns, RemoveRoom(c) PROVE OneRoomInv'
  <2>1. /\ room' = room
        /\ \A d \in Conns : Using(d)' => Using(d)
        /\ \A d \in Conns : Counted(d)' => Counted(d)
        /\ \A d \in Conns : pc'[d] = "removing" => pc[d] = "removing"
    BY <1>0, <1>5 DEF RemoveRoom, Using, TypeOK
  <2>2. ASSUME NEW d \in Conns, Using(d) PROVE RoomOf[d] # RoomOf[c]
    <3>1. room[d] = registry[RoomOf[d]]
      BY <1>0, <2>2 DEF UsesRegistered
    <3>2. CASE Counted(d)
      BY <1>0, <1>5, <3>2 DEF RemoveRoom, CondemnedUnused
    <3>3. CASE pc[d] = "acquired"
      BY <1>5, <3>1, <3>3 DEF RemoveRoom, LateJoin
    <3> QED BY <2>2, <3>2, <3>3 DEF Using
  <2>3. \A d \in Conns : Using(d)' => registry'[RoomOf[d]] = registry[RoomOf[d]]
    BY <1>0, <1>5, <2>1, <2>2, RoomOfAssumption DEF RemoveRoom, TypeOK
  <2> QED BY <1>0, <2>1, <2>3 DEF OneRoomInv, UsesRegistered, CondemnedUnused
<1>6. ASSUME NEW c \in Conns,
             \/ Admit(c) \/ Refuse(c) \/ Subscribe(c) \/ EncodeState(c) \/ SendState(c)
             \/ Select(c) \/ CountOut(c)
      PROVE  OneRoomInv'
  <2>1. registry' = registry /\ room' = room
    BY <1>6 DEF Admit, Refuse, Subscribe, EncodeState, SendState, Select, CountOut
  <2>2. \A d \in Conns : /\ Using(d)' => Using(d)
                         /\ Counted(d)' => Counted(d)
                         /\ pc'[d] = "removing" => pc[d] = "removing"
    BY <1>0, <1>6 DEF Admit, Refuse, Subscribe, EncodeState, SendState, Select, CountOut,
                      Using, TypeOK
  <2> QED BY <1>1, <2>1, <2>2
<1>7. ASSUME NEW c \in Conns, Forward(c) \/ Receive(c) \/ Disconnect(c) PROVE OneRoomInv'
  <2>1. UNCHANGED <<registry, room, pc>>
    BY <1>7 DEF Forward, ForwardRecv, ForwardLagged, ForwardSend, ForwardError, ForwardCancel,
                Receive, ReceiveApply, ReceiveBroadcast, ReceiveEnd, ReceiveCancel, Disconnect
  <2> QED BY <1>1, <2>1 DEF Using
<1>8. CASE UNCHANGED vars
  BY <1>1, <1>8 DEF vars, Using
<1> QED
  BY <1>2, <1>3, <1>4, <1>5, <1>6, <1>7, <1>8 DEF Next, Join, Leave, Finished

(***************************************************************************)
(* The window between get_or_create and *count += 1 is all that splits a   *)
(* room: as long as no remove_if_empty reads a zero count while a handler  *)
(* is in it, the counted connections to one id share one CollabRoom.       *)
(***************************************************************************)
THEOREM OneRoomUnlessLate == SafeSpec /\ []~LateJoin => []OneRoomPerId
<1>1. OneRoomInv => OneRoomPerId
  BY DEF OneRoomInv, UsesRegistered, OneRoomPerId, Using
<1> QED BY <1>1, OneRoomInit, OneRoomStep, TInvAlways, CountsAreExact, PTL DEF SafeSpec

(***************************************************************************)
(* A client that is being served, with nothing under way to it in its      *)
(* room.                                                                   *)
(***************************************************************************)
Quiet(c) ==
  /\ Following(c) /\ pc[c] = "running" /\ forward[c] = "recv"
  /\ Behind(c) = 0 /\ InFlight(room[c]) = {}

SameText ==
  \A c, d \in Conns : RoomOf[c] = RoomOf[d] /\ Quiet(c) /\ Quiet(d) => received[c] = received[d]

(***************************************************************************)
(* What users are promised of a room id, and what a late join breaks: when *)
(* it is quiet, all its clients show the same text.                        *)
(***************************************************************************)
THEOREM SameTextUnlessLate == SafeSpec /\ []~LateJoin => []SameText
<1>1. OneRoomPerId /\ QuietMeansInSync => SameText
  <2> SUFFICES ASSUME OneRoomPerId, QuietMeansInSync, NEW c \in Conns, NEW d \in Conns,
                      RoomOf[c] = RoomOf[d], Quiet(c), Quiet(d)
               PROVE  received[c] = received[d]
    BY DEF SameText
  <2>1. room[c] = room[d]
    BY DEF OneRoomPerId, Quiet
  <2>2. received[c] = doc[room[c]] /\ received[d] = doc[room[d]]
    BY DEF QuietMeansInSync, Quiet
  <2> QED BY <2>1, <2>2
<1> QED BY <1>1, OneRoomUnlessLate, QuietIsInSync, PTL

-----------------------------------------------------------------------------
(***************************************************************************)
(* The safety half of the refinement: the initial states of LiveRooms map  *)
(* to initial states of SharedDocument and each step of LiveRooms maps to  *)
(* one of its steps or to a stutter.  The leads-to of SharedDocument is    *)
(* checked by TLC.                                                         *)
(***************************************************************************)
USE DEF Joining

\* A task only runs once its client has entered.
LEMMA TaskRunning ==
  ASSUME TInv, NEW c \in Conns, forward[c] # "off" \/ receive[c] # "off"
  PROVE  room[c] \in Conns /\ ~Joining(c)
<1>1. TaskOK(c)
  BY DEF TInv, TasksOK
<1>2. ~NotJoined(c) /\ ~Starting(c)
  BY <1>1 DEF TaskOK
<1>3. room[c] # None
  BY <1>1 DEF TaskOK
<1> QED BY <1>2, <1>3 DEF TInv, TypeOK

LEMMA InitImplements == Init => Doc!Init
  BY DEF Init, Doc!Init, atBar, servedBar

\* What the clients of the abstract document can see of a state.
Visible == <<doc, atBar, servedBar, received>>

(***************************************************************************)
(* Steps that only the implementation takes.                               *)
(***************************************************************************)
LEMMA HiddenSteps ==
  ASSUME TInv, NEW c \in Conns,
         \/ Admit(c) \/ Refuse(c) \/ GetOrCreate(c) \/ CountIn(c) \/ Subscribe(c)
         \/ EncodeState(c) \/ CountOut(c) \/ ReadCount(c) \/ RemoveRoom(c) \/ Disconnect(c)
         \/ ForwardRecv(c) \/ ForwardLagged(c) \/ ForwardError(c) \/ ForwardCancel(c)
         \/ ReceiveBroadcast(c) \/ ReceiveEnd(c) \/ ReceiveCancel(c)
  PROVE  UNCHANGED Visible
<1> USE DEF TInv, TypeOK, roomVars, handlerVars, forwardVars, receiveVars
<1>1. UNCHANGED <<doc, received>>
  BY DEF Admit, Refuse, GetOrCreate, CountIn, Subscribe, EncodeState, CountOut, ReadCount,
         RemoveRoom, Disconnect, ForwardRecv, ForwardLagged, ForwardError, ForwardCancel,
         ReceiveBroadcast, ReceiveEnd, ReceiveCancel
<1>2. ASSUME NEW d \in Conns
      PROVE  /\ (IF Joining(d) THEN None ELSE room[d])' = (IF Joining(d) THEN None ELSE room[d])
             /\ (pc'[d] = "running") = (pc[d] = "running")
  <2> USE DEF TasksOK, TaskOK
  <2>1. CASE Admit(c)
    BY <2>1 DEF Admit
  <2>2. CASE Refuse(c)
    BY <2>2 DEF Refuse
  <2>3. CASE GetOrCreate(c)
    BY <2>3 DEF GetOrCreate
  <2>4. CASE CountIn(c)
    BY <2>4 DEF CountIn
  <2>5. CASE Subscribe(c)
    BY <2>5 DEF Subscribe
  <2>6. CASE EncodeState(c)
    BY <2>6 DEF EncodeState
  <2>7. CASE CountOut(c)
    BY <2>7 DEF CountOut
  <2>8. CASE ReadCount(c) \/ RemoveRoom(c)
    BY <2>8 DEF ReadCount, RemoveRoom
  <2>9. CASE UNCHANGED <<pc, room>>
    BY <2>9
  <2> QED
    BY <2>1, <2>2, <2>3, <2>4, <2>5, <2>6, <2>7, <2>8, <2>9
    DEF Disconnect, ForwardRecv, ForwardLagged, ForwardError, ForwardCancel,
        ReceiveBroadcast, ReceiveEnd, ReceiveCancel
<1> QED BY <1>1, <1>2 DEF Visible, atBar, servedBar

LEMMA StepImplements == TInv /\ DataOK /\ [Next]_vars => [Doc!Next]_(Doc!vars)
<1> SUFFICES ASSUME TInv, DataOK, [Next]_vars PROVE Doc!Next \/ UNCHANGED Visible
  BY DEF Doc!vars, Visible
<1>0. TypeOK /\ TasksOK
  BY DEF TInv
<1> USE DEF TypeOK, roomVars, handlerVars, forwardVars, receiveVars
<1>1. ASSUME NEW c \in Conns, SendState(c) PROVE Doc!Enter(c)
  <2>0. pc[c] = "encoded" /\ room[c] \in Conns
    BY <1>0, <1>1 DEF SendState, TasksOK, TaskOK
  <2>1. /\ room[c] \in Conns /\ Joining(c) /\ ~Joining(c)' /\ room' = room /\ doc' = doc
        /\ \A d \in Conns \ {c} : pc'[d] = pc[d]
        /\ pc'[c] = "running"
    BY <1>0, <1>1, <2>0 DEF SendState
  <2>2. received'[c] \subseteq doc[room[c]] /\ received'[c] \in SUBSET Updates
    BY <1>0, <1>1, <2>1, ConnsAssumption DEF SendState, DataOK, ViewOK
  <2>3. received' = [received EXCEPT ![c] = received'[c]]
    BY <1>0, <1>1 DEF SendState
  <2>4. atBar[c] = None /\ atBar' = [atBar EXCEPT ![c] = room[c]]
    BY <2>1 DEF atBar
  <2>5. servedBar' = [servedBar EXCEPT ![c] = TRUE]
    BY <2>1 DEF servedBar
  <2> QED BY <2>1, <2>2, <2>3, <2>4, <2>5 DEF Doc!Enter
<1>2. ASSUME NEW c \in Conns, ForwardSend(c)
      PROVE  \E u \in Updates : Doc!Show(c, u)
  <2>0. room[c] \in Conns /\ ~Joining(c) /\ UNCHANGED <<pc, room, doc>>
    BY <1>0, <1>2, TaskRunning DEF ForwardSend
  <2>1. /\ room[c] \in Conns /\ ~Joining(c) /\ UNCHANGED <<pc, room, doc>>
        /\ cursor[c] \in Nat /\ Len(log[room[c]]) \in Nat
        /\ cursor[c] > 0 /\ cursor[c] <= Len(log[room[c]])
    BY <1>0, <1>2, <2>0, LenNat, ConnsAssumption DEF ForwardSend, TasksOK, TaskOK
  <2>2. InHand(c).upd \in doc[room[c]]
    BY <2>1 DEF DataOK, LogOK, InHand
  <2>3. InHand(c).upd \in Updates
    BY <1>0, <2>1, <2>2
  <2>4. atBar[c] = room[c] /\ room[c] # None /\ UNCHANGED <<atBar, servedBar>>
    BY <2>1, ConnsAssumption DEF atBar, servedBar
  <2> QED BY <1>2, <2>1, <2>2, <2>3, <2>4 DEF ForwardSend, Doc!Show
<1>3. ASSUME NEW c \in Conns, NEW u \in Updates, ReceiveApply(c, u) PROVE Doc!Edit(c, u)
  <2>1. room[c] \in Conns /\ ~Joining(c) /\ UNCHANGED <<pc, room, received>>
    BY <1>0, <1>3, TaskRunning DEF ReceiveApply
  <2>2. atBar[c] = room[c] /\ room[c] # None /\ UNCHANGED <<atBar, servedBar>>
    BY <2>1, ConnsAssumption DEF atBar, servedBar
  <2> QED BY <1>3, <2>1, <2>2 DEF ReceiveApply, Doc!Edit
<1>4. ASSUME NEW c \in Conns, Select(c) PROVE Doc!Exit(c)
  <2>1. /\ pc[c] = "running" /\ pc'[c] = "closing" /\ UNCHANGED <<doc, room, received>>
        /\ \A d \in Conns \ {c} : pc'[d] = pc[d]
    BY <1>0, <1>4 DEF Select
  <2>2. atBar' = atBar
    BY <2>1 DEF atBar
  <2>3. servedBar[c] /\ servedBar' = [servedBar EXCEPT ![c] = FALSE]
    BY <2>1 DEF servedBar
  <2> QED BY <2>1, <2>2, <2>3 DEF Doc!Exit
<1>5. CASE UNCHANGED vars
  BY <1>5 DEF vars, Visible, atBar, servedBar
<1> QED
  BY <1>1, <1>2, <1>3, <1>4, <1>5, HiddenSteps
  DEF Next, Join, Forward, Receive, Leave, Finished, Doc!Next

(***************************************************************************)
(* The registry, channels, locks and tasks together behave as one document *)
(* per room: clients are only ever shown updates of their document, what   *)
(* they have been shown is not taken back, and edits are never undone.     *)
(***************************************************************************)
THEOREM ImplementsDocument == SafeSpec => Doc!SafeSpec
  BY TInvAlways, DataAlways, InitImplements, StepImplements, PTL DEF SafeSpec, Doc!SafeSpec

=============================================================================
