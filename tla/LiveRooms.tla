------------------------------ MODULE LiveRooms ------------------------------
(***************************************************************************)
(* The in-memory half of collaborative editing: the RoomRegistry, the      *)
(* CollabRoom objects it maps room ids to, and the three tasks that serve  *)
(* one WebSocket (src/collab/room.rs and handle_ws_connection in           *)
(* src/collab/handler.rs).                                                 *)
(*                                                                         *)
(* One action is one critical section or one await-to-await stretch of a   *)
(* task: the runtime is multi-threaded, so two of them interleave even     *)
(* where the code has no await in between.                                 *)
(*                                                                         *)
(* A CollabRoom is named by the connection whose get_or_create built it:   *)
(* a handler calls get_or_create once, so the name is fresh.  A Yjs        *)
(* document is the set of updates applied to it (merging is commutative,   *)
(* associative and idempotent).  The broadcast channel is the sequence of  *)
(* everything ever sent and one cursor per receiver; a receiver more than  *)
(* Capacity behind has been overwritten and gets Lagged.                   *)
(***************************************************************************)
EXTENDS Integers, Sequences, FiniteSets

CONSTANTS
  Conns,      \* WebSocket connections, each of which runs its handler once
  RoomIds,    \* the {room_id} of the URL
  RoomOf,     \* the room id each connection asks for
  Updates,    \* Yjs updates
  Capacity,   \* what a broadcast receiver may be behind (512 in the code)
  MaxSends,   \* bound: messages read from clients, all together
  None

ASSUME ConnsAssumption    == IsFiniteSet(Conns) /\ None \notin Conns
ASSUME RoomOfAssumption   == RoomOf \in [Conns -> RoomIds]
ASSUME UpdatesAssumption  == None \notin Updates
ASSUME CapacityAssumption == Capacity \in Nat \ {0}
ASSUME MaxSendsAssumption == MaxSends \in Nat

VARIABLES
  registry,     \* RoomRegistry.rooms: room id -> CollabRoom or None
  doc,          \* CollabRoom.doc: the updates applied to it
  log,          \* CollabRoom.tx: every message ever broadcast, in order
  clientCount,  \* CollabRoom.client_count
  pc,           \* where handle_ws_connection is, per connection
  room,         \* its Arc<CollabRoom>
  cursor,       \* its broadcast_rx: how many messages of log it has taken
  snapshot,     \* its state_update, between encode_state and the send
  received,     \* the updates written to its WebSocket
  forward,      \* its forward_task
  receive,      \* its receive_task
  applied,      \* the update receive_task applied and has not broadcast yet
  sends,        \* messages the receive_tasks have read (for MaxSends)
  gone          \* has the client closed or lost the connection?

roomVars    == <<registry, doc, log, clientCount>>
handlerVars == <<pc, room, snapshot>>
forwardVars == <<forward, cursor, received>>
receiveVars == <<receive, applied, sends>>
vars        == <<roomVars, handlerVars, forwardVars, receiveVars, gone>>

-----------------------------------------------------------------------------
Message == [from : Conns, upd : Updates]

Phase == {"upgraded", "admitted", "acquired", "counted", "subscribed",
          "encoded", "running", "closing", "released", "removing", "done"}

\* The connection is included in client_count of its room.
Counted(c) == pc[c] \in {"counted", "subscribed", "encoded", "running", "closing"}

\* The connection has an Arc of its room and its cleanup is still to come.
Holding(c) == Counted(c) \/ pc[c] \in {"acquired", "released", "removing"}

\* The handler has returned from its select: what is left of its tasks is aborted.
Aborted(c) == pc[c] \in {"closing", "released", "removing", "done"}

\* Messages sent to the connection's receiver and not taken by forward_task.
Behind(c)  == Len(log[room[c]]) - cursor[c]
Lagging(c) == Behind(c) > Capacity

\* A remove_if_empty is between reading a count and removing the room: it has
\* the registry lock all along, but the count lock for the reading only.
RegistryLocked == \E c \in Conns : pc[c] = "removing"

Init ==
  /\ registry    = [r \in RoomIds |-> None]
  /\ doc         = [o \in Conns |-> {}]
  /\ log         = [o \in Conns |-> <<>>]
  /\ clientCount = [o \in Conns |-> 0]
  /\ pc          = [c \in Conns |-> "upgraded"]
  /\ room        = [c \in Conns |-> None]
  /\ cursor      = [c \in Conns |-> 0]
  /\ snapshot    = [c \in Conns |-> {}]
  /\ received    = [c \in Conns |-> {}]
  /\ forward     = [c \in Conns |-> "off"]
  /\ receive     = [c \in Conns |-> "off"]
  /\ applied     = [c \in Conns |-> None]
  /\ sends       = 0
  /\ gone        = [c \in Conns |-> FALSE]

-----------------------------------------------------------------------------
(* handle_ws_connection: joining.                                          *)

\* verify_room_member finds the membership row.
Admit(c) ==
  /\ pc[c] = "upgraded"
  /\ pc' = [pc EXCEPT ![c] = "admitted"]
  /\ UNCHANGED <<roomVars, room, snapshot, forwardVars, receiveVars, gone>>

\* verify_room_member does not find it, or the database fails.
Refuse(c) ==
  /\ pc[c] = "upgraded"
  /\ pc' = [pc EXCEPT ![c] = "done"]
  /\ UNCHANGED <<roomVars, room, snapshot, forwardVars, receiveVars, gone>>

\* Variant: the room id is not part of the lookup.
RoomForAnyId(c) ==
  IF \E r \in RoomIds : registry[r] # None
  THEN registry[CHOOSE r \in RoomIds : registry[r] # None]
  ELSE c

\* What get_or_create returns, under the registry lock.
RoomFor(c) == IF registry[RoomOf[c]] = None THEN c ELSE registry[RoomOf[c]]

GetOrCreate(c) ==
  /\ pc[c] = "admitted"
  /\ ~RegistryLocked
  /\ registry' = [registry EXCEPT ![RoomOf[c]] = RoomFor(c)]
  /\ room' = [room EXCEPT ![c] = RoomFor(c)]
  /\ pc' = [pc EXCEPT ![c] = "acquired"]
  /\ UNCHANGED <<doc, log, clientCount, snapshot, forwardVars, receiveVars, gone>>

\* *count += 1, under the count lock only.
CountIn(c) ==
  /\ pc[c] = "acquired"
  /\ clientCount' = [clientCount EXCEPT ![room[c]] = @ + 1]
  /\ pc' = [pc EXCEPT ![c] = "counted"]
  /\ UNCHANGED <<registry, doc, log, room, snapshot, forwardVars, receiveVars, gone>>

\* A new receiver sees what is sent from now on.
Subscribe(c) ==
  /\ pc[c] = "counted"
  /\ cursor' = [cursor EXCEPT ![c] = Len(log[room[c]])]
  /\ pc' = [pc EXCEPT ![c] = "subscribed"]
  /\ UNCHANGED <<roomVars, room, snapshot, forward, received, receiveVars, gone>>

EncodeState(c) ==
  /\ pc[c] = "subscribed"
  /\ snapshot' = [snapshot EXCEPT ![c] = doc[room[c]]]
  /\ pc' = [pc EXCEPT ![c] = "encoded"]
  /\ UNCHANGED <<roomVars, room, forwardVars, receiveVars, gone>>

\* The state is written to the socket (an error is ignored), then both tasks
\* are spawned.
SendState(c) ==
  /\ pc[c] = "encoded"
  /\ \/ received' = [received EXCEPT ![c] = snapshot[c]]
     \/ gone[c] /\ UNCHANGED received
  /\ snapshot' = [snapshot EXCEPT ![c] = {}]
  /\ forward' = [forward EXCEPT ![c] = "recv"]
  /\ receive' = [receive EXCEPT ![c] = "next"]
  /\ pc' = [pc EXCEPT ![c] = "running"]
  /\ UNCHANGED <<roomVars, room, cursor, applied, sends, gone>>

-----------------------------------------------------------------------------
(* forward_task: broadcast_rx.recv().await, then ws_tx.send(..).await.     *)

ForwardRecv(c) ==
  /\ forward[c] = "recv"
  /\ Behind(c) > 0 /\ ~Lagging(c)
  /\ cursor' = [cursor EXCEPT ![c] = @ + 1]
  /\ forward' = [forward EXCEPT ![c] = "send"]
  /\ UNCHANGED <<roomVars, handlerVars, received, receiveVars, gone>>

\* Variant: Lagged is skipped over, which is how tokio's examples handle it.
ForwardLaggedSkips(c) ==
  /\ forward[c] = "recv"
  /\ Lagging(c)
  /\ cursor' = [cursor EXCEPT ![c] = Len(log[room[c]]) - Capacity]
  /\ UNCHANGED <<roomVars, handlerVars, forward, received, receiveVars, gone>>

\* recv returns Err(Lagged): the loop breaks, the connection is given up.
ForwardLagged(c) ==
  /\ forward[c] = "recv"
  /\ Lagging(c)
  /\ forward' = [forward EXCEPT ![c] = "ended"]
  /\ UNCHANGED <<roomVars, handlerVars, cursor, received, receiveVars, gone>>

\* The message forward_task has taken and not written yet.
InHand(c) == log[room[c]][cursor[c]]

ForwardSend(c) ==
  /\ forward[c] = "send"
  /\ received' = [received EXCEPT ![c] = @ \cup {InHand(c).upd}]
  /\ forward' = [forward EXCEPT ![c] = "recv"]
  /\ UNCHANGED <<roomVars, handlerVars, cursor, receiveVars, gone>>

ForwardError(c) ==
  /\ forward[c] = "send"
  /\ gone[c]
  /\ forward' = [forward EXCEPT ![c] = "ended"]
  /\ UNCHANGED <<roomVars, handlerVars, cursor, received, receiveVars, gone>>

\* abort() takes effect where the task awaits, which is between any two steps.
ForwardCancel(c) ==
  /\ Aborted(c) /\ forward[c] \in {"recv", "send"}
  /\ forward' = [forward EXCEPT ![c] = "ended"]
  /\ UNCHANGED <<roomVars, handlerVars, cursor, received, receiveVars, gone>>

-----------------------------------------------------------------------------
(* receive_task: read a message, apply it to the document, broadcast it.   *)
(* Empty messages, undecodable ones and those that are not binary are      *)
(* skipped and change nothing.                                             *)

\* apply_update, under the document's lock.
ReceiveApply(c, u) ==
  /\ receive[c] = "next"
  /\ sends < MaxSends
  /\ doc' = [doc EXCEPT ![room[c]] = @ \cup {u}]
  /\ applied' = [applied EXCEPT ![c] = u]
  /\ sends' = sends + 1
  /\ receive' = [receive EXCEPT ![c] = "send"]
  /\ UNCHANGED <<registry, log, clientCount, handlerVars, forwardVars, gone>>

\* tx.send: every receiver subscribed by now will be offered the message.
ReceiveBroadcast(c) ==
  /\ receive[c] = "send"
  /\ log' = [log EXCEPT ![room[c]] = Append(@, [from |-> c, upd |-> applied[c]])]
  /\ applied' = [applied EXCEPT ![c] = None]
  /\ receive' = [receive EXCEPT ![c] = "next"]
  /\ UNCHANGED <<registry, doc, clientCount, handlerVars, forwardVars, sends, gone>>

\* Close frame, error, or end of the stream.
ReceiveEnd(c) ==
  /\ receive[c] = "next"
  /\ gone[c]
  /\ receive' = [receive EXCEPT ![c] = "ended"]
  /\ UNCHANGED <<roomVars, handlerVars, forwardVars, applied, sends, gone>>

\* Variant: there is an await between apply_update and tx.send.
ReceiveCancelAnywhere(c) ==
  /\ Aborted(c) /\ receive[c] \in {"next", "send"}
  /\ receive' = [receive EXCEPT ![c] = "ended"]
  /\ UNCHANGED <<roomVars, handlerVars, forwardVars, applied, sends, gone>>

\* The only await is ws_rx.next(): an aborted task that is past it finishes
\* the message first, and may read further ones that are already buffered.
ReceiveCancel(c) ==
  /\ Aborted(c) /\ receive[c] = "next"
  /\ receive' = [receive EXCEPT ![c] = "ended"]
  /\ UNCHANGED <<roomVars, handlerVars, forwardVars, applied, sends, gone>>

-----------------------------------------------------------------------------
(* handle_ws_connection: leaving.                                          *)

\* Variants: the handler waits for one of its tasks only.
SelectReceiveOnly(c) ==
  /\ pc[c] = "running" /\ receive[c] = "ended"
  /\ pc' = [pc EXCEPT ![c] = "closing"]
  /\ UNCHANGED <<roomVars, room, snapshot, forwardVars, receiveVars, gone>>

SelectForwardOnly(c) ==
  /\ pc[c] = "running" /\ forward[c] = "ended"
  /\ pc' = [pc EXCEPT ![c] = "closing"]
  /\ UNCHANGED <<roomVars, room, snapshot, forwardVars, receiveVars, gone>>

\* select! returns when either task has, and aborts the other one.
Select(c) ==
  /\ pc[c] = "running"
  /\ forward[c] = "ended" \/ receive[c] = "ended"
  /\ pc' = [pc EXCEPT ![c] = "closing"]
  /\ UNCHANGED <<roomVars, room, snapshot, forwardVars, receiveVars, gone>>

\* Variant: the subtraction is not guarded and the handler has counted twice.
OneLessTwice(n) == n - 2

\* if *count > 0 { *count -= 1 }
OneLess(n) == IF n > 0 THEN n - 1 ELSE n

\* Variant: the handler looks its room up again when it leaves.
LeftRegistered(c) == IF registry[RoomOf[c]] = None THEN room[c] ELSE registry[RoomOf[c]]

\* The handler decrements the room it has an Arc of.
LeftRoom(c) == room[c]

CountOut(c) ==
  /\ pc[c] = "closing"
  /\ clientCount' = [clientCount EXCEPT ![LeftRoom(c)] = OneLess(@)]
  /\ pc' = [pc EXCEPT ![c] = "released"]
  /\ UNCHANGED <<registry, doc, log, room, snapshot, forwardVars, receiveVars, gone>>

\* Variants: the count is not looked at, or is looked at before it is decremented.
RemovableAlways(r)    == registry[r] # None
RemovableLastClient(r) == registry[r] # None /\ clientCount[registry[r]] = 1

\* The room that is registered now, which need not be the connection's own,
\* and its count.
Removable(r) == registry[r] # None /\ clientCount[registry[r]] = 0

ReadCount(c) ==
  /\ pc[c] = "released"
  /\ ~RegistryLocked
  /\ pc' = [pc EXCEPT ![c] = IF Removable(RoomOf[c]) THEN "removing" ELSE "done"]
  /\ UNCHANGED <<roomVars, room, snapshot, forwardVars, receiveVars, gone>>

RemoveRoom(c) ==
  /\ pc[c] = "removing"
  /\ registry' = [registry EXCEPT ![RoomOf[c]] = None]
  /\ pc' = [pc EXCEPT ![c] = "done"]
  /\ UNCHANGED <<doc, log, clientCount, room, snapshot, forwardVars, receiveVars, gone>>

\* The client closes its end, or the connection is lost.
Disconnect(c) ==
  /\ pc[c] \notin {"upgraded", "done"}
  /\ ~gone[c]
  /\ gone' = [gone EXCEPT ![c] = TRUE]
  /\ UNCHANGED <<roomVars, handlerVars, forwardVars, receiveVars>>

-----------------------------------------------------------------------------
Join(c)    == \/ Admit(c) \/ Refuse(c) \/ GetOrCreate(c) \/ CountIn(c)
              \/ Subscribe(c) \/ EncodeState(c) \/ SendState(c)
Forward(c) == \/ ForwardRecv(c) \/ ForwardLagged(c) \/ ForwardSend(c)
              \/ ForwardError(c) \/ ForwardCancel(c)
Leave(c)   == Select(c) \/ CountOut(c) \/ ReadCount(c) \/ RemoveRoom(c)
Receive(c) == \/ \E u \in Updates : ReceiveApply(c, u)
              \/ ReceiveBroadcast(c) \/ ReceiveEnd(c) \/ ReceiveCancel(c)

\* Nothing is left to do once every connection has been served.
Finished ==
  /\ \A c \in Conns : /\ pc[c] = "done"
                      /\ {forward[c], receive[c]} \subseteq {"off", "ended"}
  /\ UNCHANGED vars

Next ==
  \/ \E c \in Conns : Join(c) \/ Forward(c) \/ Receive(c) \/ Leave(c) \/ Disconnect(c)
  \/ Finished

(***************************************************************************)
(* The runtime polls every task that is ready, locks are held for a few    *)
(* instructions, and the database answers the membership query.  A client  *)
(* that stays connected reads its socket, so a write to it completes; a    *)
(* lost connection is noticed.  Clients owe nothing else: neither sending  *)
(* nor disconnecting is fair.                                              *)
(***************************************************************************)
Fairness ==
  \A c \in Conns :
    /\ WF_vars(Join(c))
    /\ WF_vars(Forward(c))
    /\ WF_vars(ReceiveBroadcast(c) \/ ReceiveEnd(c) \/ ReceiveCancel(c))
    /\ WF_vars(Leave(c))

SafeSpec == Init /\ [][Next]_vars
Spec     == SafeSpec /\ Fairness

-----------------------------------------------------------------------------
(***************************************************************************)
(* The state the properties speak about.                                   *)
(***************************************************************************)

\* The connections client_count should be counting.
CountedIn(o) == {c \in Conns : room[c] = o /\ Counted(c)}

\* Updates already offered to the connection's receiver and not yet written.
Pending(c) ==
  {log[room[c]][i].upd :
     i \in (IF forward[c] = "send" THEN cursor[c] ELSE cursor[c] + 1) .. Len(log[room[c]])}

\* Updates that a receive_task of the room has applied and is about to send.
InFlight(o) == {applied[d] : d \in {e \in Conns : room[e] = o /\ receive[e] = "send"}}

\* The client has been (or is being) given the state and is kept up to date.
Following(c) ==
  /\ ~gone[c]
  /\ pc[c] = "encoded" \/ (pc[c] = "running" /\ forward[c] # "ended")

(***************************************************************************)
(* Type invariant: every field of the rooms, handlers and tasks has the    *)
(* type the Rust code declares for it.                                     *)
(***************************************************************************)
TypeOK ==
  /\ registry \in [RoomIds -> Conns \cup {None}]
  /\ doc \in [Conns -> SUBSET Updates]
  /\ log \in [Conns -> Seq(Message)]
  /\ clientCount \in [Conns -> Nat]
  /\ pc \in [Conns -> Phase]
  /\ room \in [Conns -> Conns \cup {None}]
  /\ cursor \in [Conns -> Nat]
  /\ snapshot \in [Conns -> SUBSET Updates]
  /\ received \in [Conns -> SUBSET Updates]
  /\ forward \in [Conns -> {"off", "recv", "send", "ended"}]
  /\ receive \in [Conns -> {"off", "next", "send", "ended"}]
  /\ applied \in [Conns -> Updates \cup {None}]
  /\ sends \in Nat
  /\ gone \in [Conns -> BOOLEAN]

(***************************************************************************)
(* client_count is exact: in whatever order connections join, end and are  *)
(* aborted, a room's count is the number of handlers between *count += 1   *)
(* and *count -= 1, so the cleanup's "if *count > 0" never hides a drift.  *)
(***************************************************************************)
CountExact == \A o \in Conns : clientCount[o] = Cardinality(CountedIn(o))

(***************************************************************************)
(* remove_if_empty looks at whichever room is registered under the id, not *)
(* at the room of the connection that is leaving; still, it only decides   *)
(* to remove a room that no counted connection is using.  (One that has    *)
(* the room already may be counted before the decision is carried out.)    *)
(***************************************************************************)
CondemnedWhenUnused ==
  [][\A c \in Conns :
       pc[c] # "removing" /\ pc'[c] = "removing" => CountedIn(registry[RoomOf[c]]) = {}]_vars

(***************************************************************************)
(* The registry does not leak: a registered room is in the hands of some   *)
(* handler whose remove_if_empty is still to come, although handlers of    *)
(* other rooms with the same id may run theirs in between.                 *)
(***************************************************************************)
NoAbandonedRoom ==
  \A r \in RoomIds :
    registry[r] # None => \E c \in Conns : room[c] = registry[r] /\ Holding(c)

(***************************************************************************)
(* Joining and relaying leave no gap.  For a client that is being served,  *)
(* each update of the room's document has been written to it, is in the    *)
(* state being written to it, waits for its forward_task, or is between    *)
(* apply_update and tx.send of some receive_task.  It depends on the       *)
(* handler subscribing before it encodes the state, and on Lagged ending   *)
(* the connection instead of skipping messages.                            *)
(***************************************************************************)
NoMissedUpdate ==
  \A c \in Conns :
    Following(c) =>
      doc[room[c]] \subseteq received[c] \cup snapshot[c] \cup Pending(c) \cup InFlight(room[c])

(***************************************************************************)
(* What it means to users: once nothing is under way in a room, a served   *)
(* client has been written exactly the room's document, so any two such    *)
(* clients of a room show the same text.                                   *)
(***************************************************************************)
QuietMeansInSync ==
  \A c \in Conns :
    /\ Following(c) /\ pc[c] = "running" /\ forward[c] = "recv" /\ Behind(c) = 0
    /\ InFlight(room[c]) = {}
    => received[c] = doc[room[c]]

(***************************************************************************)
(* Rooms do not mix: whatever a room has broadcast was sent by a client    *)
(* that asked for the same room id, and a client is only ever written      *)
(* updates applied to the room it asked for.                               *)
(***************************************************************************)
RoomsIsolated ==
  /\ \A o \in Conns : \A i \in DOMAIN log[o] : RoomOf[log[o][i].from] = RoomOf[o]
  /\ \A c \in Conns :
       room[c] # None => RoomOf[room[c]] = RoomOf[c] /\ received[c] \subseteq doc[room[c]]

(***************************************************************************)
(* A connection whose client is gone is cleaned up, whatever its tasks     *)
(* were doing: the handler returns, and with it the registry entry goes    *)
(* once nobody else holds the room.                                        *)
(***************************************************************************)
CleanedUp ==
  /\ \A c \in Conns : gone[c] ~> pc[c] = "done"
  /\ (\A c \in Conns : gone[c] \/ pc[c] = "done") ~> (\A r \in RoomIds : registry[r] = None)

-----------------------------------------------------------------------------
(***************************************************************************)
(* Statements of the repository that the code does not keep.               *)
(***************************************************************************)

(***************************************************************************)
(* room.rs:47, "In-memory room registry shared across all WebSocket        *)
(* connections", and room.rs:13, "any WS update is relayed to all          *)
(* connected clients": two counted connections to the same room id share   *)
(* one CollabRoom.  Violated: remove_if_empty can read the count between   *)
(* another handler's get_or_create and its *count += 1.                    *)
(***************************************************************************)
OneRoomPerId ==
  \A c, d \in Conns :
    Counted(c) /\ Counted(d) /\ RoomOf[c] = RoomOf[d] => room[c] = room[d]

=============================================================================
