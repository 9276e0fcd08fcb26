----------------------------- MODULE SyncedRows -----------------------------
(***************************************************************************)
(* What the devices of a user synchronise by PUT: the saved queries of     *)
(* src/queries/handler.rs and the connection profiles of                   *)
(* src/connections/handler.rs.  Both handlers insert, update and delete    *)
(* rows in the same steps, one SQL statement at a time and never in a      *)
(* transaction; they differ in how the columns of an update are spread     *)
(* over UPDATE statements: one for a saved query, three for a profile.     *)
(*                                                                         *)
(* A row is named by the POST that inserts it.  A cell is the request      *)
(* whose value it holds and the column that value was sent for.            *)
(***************************************************************************)
EXTENDS Naturals, Sequences, FiniteSets

CONSTANTS
  Creates,     \* POST requests
  Updates,     \* PUT requests
  Deletes,     \* DELETE requests
  UserOf,      \* who sends each of them
  Target,      \* the row in the URL of a PUT or DELETE
  Tables,
  Columns,     \* those that an update may set, of either table
  Statements,  \* per table, the columns each UPDATE may set, in order
  Bindings,    \* per table, the columns whose values it may bind, in order
  Asks,        \* per table, the sets of columns a PUT may give
  None

Requests == Creates \cup Updates \cup Deletes
Cell     == [by : Creates \cup Updates, for : Columns]
Row      == [Columns -> Cell]

\* The columns of a table that an update may set.
Settable(t) == UNION {{Statements[t][i][j] : j \in DOMAIN Statements[t][i]} : i \in DOMAIN Statements[t]}

ASSUME RequestsAssumption == /\ Creates \cap Updates = {}
                             /\ (Creates \cup Updates) \cap Deletes = {}
                             /\ None \notin Row
ASSUME TargetAssumption   == Target \in [Updates \cup Deletes -> Creates]
ASSUME BindingsAssumption == Bindings = Statements
ASSUME TablesAssumption   ==
  /\ Statements \in [Tables -> Seq(Seq(Columns))]
  /\ Asks \in [Tables -> SUBSET SUBSET Columns]
  /\ \A t \in Tables : \A xs \in Asks[t] : xs \subseteq Settable(t)
  /\ \A t \in Tables : \A i, k \in DOMAIN Statements[t] :
       \A j \in DOMAIN Statements[t][i], l \in DOMAIN Statements[t][k] :
         Statements[t][i][j] = Statements[t][k][l] => i = k

VARIABLES
  table,  \* the table the rows are in; it never changes
  rows,   \* its rows, None for one that is not there
  pc,     \* where each request is
  asked,  \* the columns each PUT gives
  at,     \* the UPDATE statement each PUT is at
  before  \* the PUTs that had ended when each was verified

vars == <<table, rows, pc, asked, at, before>>

-----------------------------------------------------------------------------
Ended(q) == pc[q] \in {"done", "missing", "dropped"}

\* The id of a row is known once it is there: devices list their rows.
Known(r) == pc[r] # "new"

\* ... WHERE id = ? AND user_id = ?
Found(q) == rows[Target[q]] # None /\ UserOf[Target[q]] = UserOf[q]

Init ==
  /\ table \in Tables
  /\ rows   = [r \in Creates |-> None]
  /\ pc     = [q \in Requests |-> "new"]
  /\ asked  = [q \in Updates |-> {}]
  /\ at     = [q \in Updates |-> 1]
  /\ before = [q \in Updates |-> {}]

-----------------------------------------------------------------------------
(* create_query, create_connection.  A POST without a name is refused      *)
(* before it touches the table, and is left out.                           *)

Insert(r) ==
  /\ pc[r] = "new"
  /\ rows' = [rows EXCEPT ![r] = [x \in Columns |-> [by |-> r, for |-> x]]]
  /\ pc' = [pc EXCEPT ![r] = "inserted"]
  /\ UNCHANGED <<table, asked, at, before>>

\* The row is read back by its id.
AnswerCreate(r) ==
  /\ pc[r] = "inserted"
  /\ pc' = [pc EXCEPT ![r] = IF rows[r] # None THEN "done" ELSE "missing"]
  /\ UNCHANGED <<table, rows, asked, at, before>>

-----------------------------------------------------------------------------
(* update_query, update_connection                                         *)

\* get_query_by_id, get_connection_by_id: the row is there and the user's own.
Verify(q, xs) ==
  /\ pc[q] = "new" /\ Known(Target[q])
  /\ asked' = [asked EXCEPT ![q] = xs]
  /\ before' = [before EXCEPT ![q] = {p \in Updates : Ended(p)}]
  /\ pc' = [pc EXCEPT ![q] = IF Found(q) THEN "write" ELSE "missing"]
  /\ UNCHANGED <<table, rows, at>>

\* The UPDATE the PUT is at: the columns it may set, in the order of the source.
Statement(q) == Statements[table][at[q]]
Binding(q)   == Bindings[table][at[q]]

\* Those that are Some have a "column = ?" each; those that are Some when the
\* values are bound have a value each.
Given(q) == {i \in DOMAIN Statement(q) : Statement(q)[i] \in asked[q]}
Bound(q) == {i \in DOMAIN Binding(q) : Binding(q)[i] \in asked[q]}

\* The number of placeholders before that of a column.
Place(q, i) == Cardinality({j \in Given(q) : j < i})

\* Variant: the values are bound from the last one to the first.
BoundBackwards(q, i) == Cardinality({j \in Bound(q) : j > i})

\* The placeholder that the value of a column is bound to.
BoundTo(q, i) == Cardinality({j \in Bound(q) : j < i})

\* The column whose value takes a column's placeholder.
ValueOf(q, i) == Binding(q)[CHOOSE j \in Bound(q) : BoundTo(q, j) = Place(q, i)]

\* Variant: the last of the columns that are Some is left out of the statement.
UpdatedButLast(q, row) ==
  [x \in Columns |->
     IF \E i, j \in Given(q) : i < j /\ Statement(q)[i] = x THEN [by |-> q, for |-> x] ELSE row[x]]

\* A row after the statement.
Updated(q, row) ==
  [x \in Columns |->
     IF \E i \in Given(q) : Statement(q)[i] = x
     THEN [by |-> q, for |-> ValueOf(q, CHOOSE i \in Given(q) : Statement(q)[i] = x)]
     ELSE row[x]]

\* Variants: REPLACE, which knows nothing of the columns that are not given;
\* INSERT ... ON DUPLICATE KEY UPDATE.
RowReplaced(q) ==
  IF Found(q)
  THEN [x \in {Statement(q)[i] : i \in Given(q)} |-> [by |-> q, for |-> x]]
  ELSE rows[Target[q]]

RowUpserted(q) ==
  IF Found(q) THEN Updated(q, rows[Target[q]]) ELSE [x \in Columns |-> [by |-> q, for |-> x]]

\* UPDATE changes the row if it is still there.
RowUpdated(q) == IF Found(q) THEN Updated(q, rows[Target[q]]) ELSE rows[Target[q]]

\* Variant: the handler answers before its last statement.
AllButOne(q) == at[q] >= Len(Statements[table])

AllExecuted(q) == at[q] > Len(Statements[table])

\* One UPDATE; nobody looks at its rows_affected.  Where the statement has no
\* column to set, a saved query gets a new updated_at only, and a profile's
\* statement is left out.
Write(q) ==
  /\ pc[q] = "write" /\ ~AllExecuted(q)
  /\ rows' = [rows EXCEPT ![Target[q]] = RowUpdated(q)]
  /\ at' = [at EXCEPT ![q] = @ + 1]
  /\ UNCHANGED <<table, pc, asked, before>>

ReadBack(q) ==
  /\ pc[q] = "write" /\ AllExecuted(q)
  /\ pc' = [pc EXCEPT ![q] = IF Found(q) THEN "done" ELSE "missing"]
  /\ UNCHANGED <<table, rows, asked, at, before>>

\* A statement fails, the client hangs up or the server stops.
Drop(q) ==
  /\ pc[q] \in {"inserted", "write"}
  /\ pc' = [pc EXCEPT ![q] = "dropped"]
  /\ UNCHANGED <<table, rows, asked, at, before>>

-----------------------------------------------------------------------------
\* delete_query, delete_connection: 404 if rows_affected is zero.
Delete(d) ==
  /\ pc[d] = "new" /\ Known(Target[d])
  /\ rows' = IF Found(d) THEN [rows EXCEPT ![Target[d]] = None] ELSE rows
  /\ pc' = [pc EXCEPT ![d] = IF Found(d) THEN "done" ELSE "missing"]
  /\ UNCHANGED <<table, asked, at, before>>

-----------------------------------------------------------------------------
Finished ==
  /\ \A q \in Requests : Ended(q)
  /\ UNCHANGED vars

Next ==
  \/ \E r \in Creates : Insert(r) \/ AnswerCreate(r) \/ Drop(r)
  \/ \E q \in Updates :
       \/ \E xs \in Asks[table] : Verify(q, xs)
       \/ Write(q) \/ ReadBack(q) \/ Drop(q)
  \/ \E d \in Deletes : Delete(d)
  \/ Finished

Spec == Init /\ [][Next]_vars

-----------------------------------------------------------------------------
(***************************************************************************)
(* Type invariant: rows, requests and the statements they are at.          *)
(***************************************************************************)
TypeOK ==
  /\ table \in Tables
  /\ rows \in [Creates -> Row \cup {None}]
  /\ pc \in [Requests -> {"new", "inserted", "write", "done", "missing", "dropped"}]
  /\ asked \in [Updates -> SUBSET Columns]
  /\ at \in [Updates -> Nat \ {0}]
  /\ before \in [Updates -> SUBSET Updates]

(***************************************************************************)
(* The UPDATE of a saved query is put together from the columns that were  *)
(* given, and its values are bound by a second series of tests: whatever   *)
(* is given, each value ends up in the column it was sent for.             *)
(***************************************************************************)
ValuesInTheirColumns ==
  \A r \in Creates, x \in Columns : rows[r] # None => rows[r][x].for = x

\* The columns a PUT has been through so far.
Passed(q) ==
  {x \in asked[q] : \E i \in DOMAIN Statements[table] :
                      i < at[q] /\ \E j \in DOMAIN Statements[table][i] : Statements[table][i][j] = x}

(***************************************************************************)
(* There is no version check, so the last writer wins; but it is never an  *)
(* older one.  A column that a PUT has been through, even one that was     *)
(* dropped later, holds its value or that of a PUT that had not ended when *)
(* it began - not the value it was sent to replace, of a PUT that was      *)
(* answered or given up before.                                            *)
(***************************************************************************)
LaterWins ==
  \A q \in Updates :
    rows[Target[q]] # None =>
      \A x \in IF pc[q] = "done" THEN asked[q] ELSE Passed(q) :
        rows[Target[q]][x].by \in Updates \ before[q]

\* The columns are set by one UPDATE.
Together(x, y) ==
  \E i \in DOMAIN Statements[table] : \E j, k \in DOMAIN Statements[table][i] :
    x = Statements[table][i][j] /\ y = Statements[table][i][k]

(***************************************************************************)
(* Columns that are set by one statement stay together: two PUTs that both *)
(* give a query's text and its checksum, in whatever order their steps     *)
(* come and wherever they are dropped, never leave the text of one with    *)
(* the checksum of the other.  (The columns of a profile are set by three  *)
(* statements, and do mix.)                                                *)
(***************************************************************************)
OneStatementIsWhole ==
  \A r \in Creates : rows[r] # None =>
    \A p, q \in Updates : p # q =>
      \A x, y \in asked[p] \cap asked[q] :
        rows[r][x].by = p /\ rows[r][y].by = q => ~Together(x, y)

(***************************************************************************)
(* A row that was deleted stays deleted, although an update that found it  *)
(* before may execute its statements, and read the row back, afterwards.   *)
(***************************************************************************)
DeletedStaysDeleted ==
  [][\A r \in Creates : Known(r) /\ rows[r] = None => rows'[r] = None]_vars

=============================================================================
