-------------------------- MODULE SharedWorkspace --------------------------
(***************************************************************************)
(* What collaborative editing promises to its users, without tables,       *)
(* requests or live rooms: a room belongs to its founder, owners let other *)
(* people in for as long as there is the room, and a client that has been  *)
(* admitted on these terms, and only such a client, is served one of the   *)
(* room's documents.  It is told nothing of other rooms.                   *)
(***************************************************************************)
EXTENDS SharedDocument

CONSTANTS
  People,
  Rooms,
  Founder,   \* room -> who it belongs to
  Person,    \* client -> who it acts for
  Wants,     \* client -> the room it asks for
  RoomOfDoc  \* document -> the room it is of

VARIABLES
  phase,     \* room -> "new", "open" or "closed"
  guests,    \* room -> who was let in, and by whom
  admitted   \* the clients that may be served

promises == <<phase, guests, admitted>>
workspaceVars == <<vars, promises>>

\* A person who is let in may be made an owner, who can let others in.
Letters == [by : People, whom : People, asOwner : BOOLEAN]

Owns(p, r)    == p = Founder[r] \/ \E g \in guests[r] : g.whom = p /\ g.asOwner
Belongs(p, r) == p = Founder[r] \/ \E g \in guests[r] : g.whom = p

WorkspaceInit ==
  /\ Init
  /\ phase    = [r \in Rooms |-> "new"]
  /\ guests   = [r \in Rooms |-> {}]
  /\ admitted = {}

Found(r) ==
  /\ phase[r] = "new"
  /\ phase' = [phase EXCEPT ![r] = "open"]
  /\ UNCHANGED <<vars, guests, admitted>>

LetIn(r, g) ==
  /\ phase[r] = "open" /\ Owns(g.by, r)
  /\ guests' = [guests EXCEPT ![r] = @ \cup {g}]
  /\ UNCHANGED <<vars, phase, admitted>>

\* For good; who has been admitted may stay.
Close(r) ==
  /\ phase[r] = "open"
  /\ phase' = [phase EXCEPT ![r] = "closed"]
  /\ UNCHANGED <<vars, guests, admitted>>

AdmitClient(c) ==
  /\ c \notin admitted
  /\ phase[Wants[c]] = "open" /\ Belongs(Person[c], Wants[c])
  /\ admitted' = admitted \cup {c}
  /\ UNCHANGED <<vars, phase, guests>>

\* Entering, editing, being shown and leaving a document.
Work ==
  /\ UNCHANGED promises
  /\ Next
  /\ \A c \in Clients :
       at'[c] # at[c] => c \in admitted /\ RoomOfDoc[at'[c]] = Wants[c]

WorkspaceNext ==
  \/ Work
  \/ \E c \in Clients : AdmitClient(c)
  \/ \E r \in Rooms : Found(r) \/ Close(r) \/ \E g \in Letters : LetIn(r, g)

WorkspaceSpec == WorkspaceInit /\ [][WorkspaceNext]_workspaceVars
=============================================================================
