------------------------- MODULE LiveRoomsRefinement -------------------------
(***************************************************************************)
(* LiveRooms implements SharedDocument: each CollabRoom is a document, a   *)
(* connection enters when the state has been written to it, and is served  *)
(* until select returns.                                                   *)
(***************************************************************************)
EXTENDS LiveRooms

\* The connection has not been sent its initial state.
Joining(c) == pc[c] \in {"upgraded", "admitted", "acquired", "counted",
                         "subscribed", "encoded"}

atBar     == [c \in Conns |-> IF Joining(c) THEN None ELSE room[c]]
servedBar == [c \in Conns |-> pc[c] = "running"]

Doc == INSTANCE SharedDocument WITH
         Docs <- Conns, Clients <- Conns,
         content <- doc, at <- atBar, served <- servedBar, view <- received

(***************************************************************************)
(* The tasks, cursors and locks of a room behave like one document that is *)
(* shown to every client it serves: only updates applied to the room reach *)
(* a client, nothing shown is taken back, and each update applied to the   *)
(* room is written to each of its clients that is not given up first.      *)
(***************************************************************************)
ImplementsSharedDocument == Doc!Spec
=============================================================================
