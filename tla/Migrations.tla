----------------------------- MODULE Migrations -----------------------------
(***************************************************************************)
(* Starting the server: run_migrations of src/db/mod.rs splits schema.sql  *)
(* at its semicolons, leaves some of the pieces out and executes the rest, *)
(* then adds a column an older oauth_states may not have; main listens     *)
(* only if that succeeds, and is restarted when it stops.                  *)
(*                                                                         *)
(* The text of schema.sql is the sequence of what splitting and filtering  *)
(* tell apart: comment lines, semicolons and, for each table, the body of  *)
(* its CREATE TABLE IF NOT EXISTS.                                         *)
(***************************************************************************)
EXTENDS Naturals, Sequences

CONSTANTS
  Tables,
  Text,        \* schema.sql, a sequence of tables, Comment and Semicolon
  References,  \* the tables each table's foreign keys need
  States,      \* oauth_states
  Comment, Semicolon

VARIABLES
  created,  \* the tables of the database
  hasPort,  \* does oauth_states have the column redirect_port?
  pc,       \* where main is
  at        \* where in Text the statements begin that are still to be executed

vars == <<created, hasPort, pc, at>>

-----------------------------------------------------------------------------
\* split(';'): a piece lies between two semicolons, or a semicolon and an end.
Begins(i)  == i \in 1 .. Len(Text) + 1 /\ (i > 1 => Text[i - 1] = Semicolon)
Ends(i, j) == /\ j \in i .. Len(Text) + 1 /\ (j <= Len(Text) => Text[j] = Semicolon)
              /\ \A k \in i .. j - 1 : Text[k] # Semicolon

\* !s.is_empty() && !s.starts_with("--")
IsStatement(i, j) == Begins(i) /\ Ends(i, j) /\ i # j /\ Text[i] # Comment

\* What executing the piece creates: the comments in it mean nothing to MySQL.
TablesIn(i, j) == {Text[k] : k \in i .. j - 1} \cap Tables

\* A new database, or one in which some tables or all of them have been made,
\* by an older server or by hand: a foreign key needs the table it refers to.
Init ==
  /\ created \in SUBSET Tables
  /\ \A t \in created : References[t] \subseteq created
  /\ hasPort \in BOOLEAN /\ (hasPort => States \in created)
  /\ pc      = "stopped"
  /\ at      = 1

-----------------------------------------------------------------------------
\* create_pool connects.
Start ==
  /\ pc = "stopped"
  /\ pc' = "migrating"
  /\ at' = 1
  /\ UNCHANGED <<created, hasPort>>

\* No statement begins before i, of those still to be executed.
NoneBefore(i) == \A k \in at .. i - 1, l \in 1 .. Len(Text) + 1 : ~IsStatement(k, l)

\* MySQL takes one CREATE TABLE at a time; one that exists is left alone.
ExecuteStatement ==
  /\ pc = "migrating"
  /\ \E i, j \in 1 .. Len(Text) + 1 :
       /\ i >= at /\ IsStatement(i, j) /\ NoneBefore(i)
       /\ \A s, t \in TablesIn(i, j) : s = t
       /\ LET new == TablesIn(i, j) \ created IN
            /\ \A t \in new : References[t] \subseteq created \cup new
            /\ created' = created \cup new
            /\ hasPort' = (hasPort \/ States \in new)
       /\ at' = j + 1
  /\ UNCHANGED pc

\* ALTER TABLE oauth_states ADD COLUMN redirect_port: its error is ignored,
\* whether it is that the column exists, that the table does not, or another.
AddPort ==
  /\ pc = "migrating" /\ NoneBefore(Len(Text) + 2)
  /\ \/ States \in created /\ hasPort' = TRUE
     \/ UNCHANGED hasPort
  /\ pc' = "listening"
  /\ UNCHANGED <<created, at>>

\* A statement fails and main returns its error, or the server is stopped.
Stop ==
  /\ pc # "stopped"
  /\ pc' = "stopped"
  /\ UNCHANGED <<created, hasPort, at>>

Next == Start \/ ExecuteStatement \/ AddPort \/ Stop

Spec == Init /\ [][Next]_vars

-----------------------------------------------------------------------------
(***************************************************************************)
(* README.md:138, "The schema is automatically initialized from            *)
(* src/db/schema.sql upon startup": a server that listens has every table. *)
(* Violated on a new database: each piece of schema.sql begins with the    *)
(* comment line above its CREATE TABLE, so the filter that should leave    *)
(* out comments leaves out every statement, and nothing is executed.       *)
(***************************************************************************)
SchemaInitialized == pc = "listening" => Tables \subseteq created

=============================================================================
