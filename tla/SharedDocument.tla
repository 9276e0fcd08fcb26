--------------------------- MODULE SharedDocument ---------------------------
(***************************************************************************)
(* What a room promises to the clients it serves, without channels, tasks  *)
(* or locks: a document that only grows, and for each client a view of it  *)
(* that only grows, never holds anything that is not in the document, and  *)
(* catches up with every update as long as the client is served.           *)
(***************************************************************************)
CONSTANTS
  Docs,     \* documents
  Clients,  \* clients, each of which is served once
  Updates,
  None

VARIABLES
  content,  \* document -> the updates in it
  at,       \* client -> its document, None before it is served
  served,   \* client -> is it being served?
  view      \* client -> the updates it has been shown

vars == <<content, at, served, view>>

Init ==
  /\ content = [d \in Docs |-> {}]
  /\ at      = [c \in Clients |-> None]
  /\ served  = [c \in Clients |-> FALSE]
  /\ view    = [c \in Clients |-> {}]

\* The client is given some of the document to start with.
Enter(c) ==
  /\ at[c] = None
  /\ \E d \in Docs, S \in SUBSET Updates :
       /\ S \subseteq content[d]
       /\ at' = [at EXCEPT ![c] = d]
       /\ view' = [view EXCEPT ![c] = S]
  /\ served' = [served EXCEPT ![c] = TRUE]
  /\ UNCHANGED content

\* An edit may still arrive when its client is no longer served.
Edit(c, u) ==
  /\ at[c] # None
  /\ content' = [content EXCEPT ![at[c]] = @ \cup {u}]
  /\ UNCHANGED <<at, served, view>>

Show(c, u) ==
  /\ at[c] # None
  /\ u \in content[at[c]]
  /\ view' = [view EXCEPT ![c] = @ \cup {u}]
  /\ UNCHANGED <<content, at, served>>

Exit(c) ==
  /\ served[c]
  /\ served' = [served EXCEPT ![c] = FALSE]
  /\ UNCHANGED <<content, at, view>>

Next ==
  \E c \in Clients :
    \/ Enter(c)
    \/ \E u \in Updates : Edit(c, u) \/ Show(c, u)
    \/ Exit(c)

\* A client that stays is shown every update of its document.
Liveness ==
  \A c \in Clients, u \in Updates :
    (served[c] /\ u \in content[at[c]]) ~> (u \in view[c] \/ ~served[c])

SafeSpec == Init /\ [][Next]_vars
Spec     == SafeSpec /\ Liveness
=============================================================================
