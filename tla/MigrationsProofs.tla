-------------------------- MODULE MigrationsProofs --------------------------
(***************************************************************************)
(* Proofs about Migrations, for any schema text and any tables: what the   *)
(* filter of run_migrations leaves of the text is exactly what a server    *)
(* that listens has executed.                                              *)
(***************************************************************************)
EXTENDS Migrations, TLAPS

\* The text is made of tables, comment lines and semicolons.
SchemaText ==
  /\ Text \in Seq(Tables \cup {Comment, Semicolon})
  /\ Comment # Semicolon /\ Comment \notin Tables /\ Semicolon \notin Tables

\* The tables in the pieces that the filter leaves in.
Executed == {t \in Tables : \E i, j \in 1 .. Len(Text) + 1 : IsStatement(i, j) /\ t \in TablesIn(i, j)}

\* What stands before `at` has been executed, in this run or an earlier one;
\* `at` is where a piece begins, or past the last one.
ExecutedBefore ==
  \A i, j \in 1 .. Len(Text) + 1 :
    IsStatement(i, j) /\ i < at /\ pc # "stopped" => TablesIn(i, j) \subseteq created

MInv ==
  /\ created \subseteq Tables /\ hasPort \in BOOLEAN
  /\ pc \in {"stopped", "migrating", "listening"}
  /\ at \in 1 .. Len(Text) + 2
  /\ ExecutedBefore
  /\ pc = "listening" => Executed \subseteq created
  /\ hasPort => States \in created

-----------------------------------------------------------------------------
LEMMA TextLen == ASSUME SchemaText PROVE Len(Text) \in Nat
  BY DEF SchemaText

\* Pieces do not overlap: none begins within another.
LEMMA PiecesApart ==
  ASSUME SchemaText, NEW i \in 1 .. Len(Text) + 1, NEW j \in 1 .. Len(Text) + 1, Ends(i, j),
         NEW k \in 1 .. Len(Text) + 1, Begins(k), k >= i, k <= j
  PROVE  k = i
<1>1. Len(Text) \in Nat
  BY TextLen
<1>2. CASE k > i
  <2>1. k - 1 \in i .. j - 1 /\ k # 1
    BY <1>1, <1>2
  <2>2. Text[k - 1] = Semicolon
    BY <2>1 DEF Begins
  <2> QED BY <2>1, <2>2 DEF Ends
<1> QED BY <1>1, <1>2

\* A piece has one end.
LEMMA OneEnd ==
  ASSUME SchemaText, NEW i \in 1 .. Len(Text) + 1,
         NEW j \in 1 .. Len(Text) + 1, NEW l \in 1 .. Len(Text) + 1, Ends(i, j), Ends(i, l)
  PROVE  j = l
<1>1. Len(Text) \in Nat
  BY TextLen
<1>2. ASSUME NEW m \in 1 .. Len(Text) + 1, NEW n \in 1 .. Len(Text) + 1,
             Ends(i, m), Ends(i, n), m < n
      PROVE  FALSE
  <2>1. m \in i .. n - 1 /\ m # Len(Text) + 1
    BY <1>1, <1>2 DEF Ends
  <2> QED BY <1>2, <2>1 DEF Ends
<1> QED BY <1>1, <1>2

LEMMA MInvInit == ASSUME SchemaText, Init PROVE MInv
  BY TextLen DEF Init, MInv, ExecutedBefore

LEMMA MInvStep == ASSUME SchemaText, MInv, [Next]_vars PROVE MInv'
<1>0. Len(Text) \in Nat
  BY TextLen
<1>1. CASE Start
  BY <1>0, <1>1 DEF Start, MInv, ExecutedBefore
<1>2. CASE ExecuteStatement
  <2>1. PICK i \in 1 .. Len(Text) + 1, j \in 1 .. Len(Text) + 1 :
          /\ i >= at /\ IsStatement(i, j) /\ NoneBefore(i)
          /\ created' = created \cup (TablesIn(i, j) \ created)
          /\ hasPort' = (hasPort \/ States \in TablesIn(i, j) \ created)
          /\ at' = j + 1
    BY <1>2 DEF ExecuteStatement
  <2>2. pc = "migrating" /\ pc' = pc
    BY <1>2 DEF ExecuteStatement
  <2>3. created' = created \cup TablesIn(i, j) /\ TablesIn(i, j) \subseteq Tables
    BY <2>1 DEF TablesIn
  <2>4. ExecutedBefore'
    <3> SUFFICES ASSUME NEW k \in 1 .. Len(Text) + 1, NEW l \in 1 .. Len(Text) + 1,
                        IsStatement(k, l), k < j + 1
                 PROVE  TablesIn(k, l) \subseteq created'
      BY <2>1 DEF ExecutedBefore, IsStatement, Begins, Ends, TablesIn
    <3>1. CASE k < at
      BY <3>1, <2>2, <2>3 DEF MInv, ExecutedBefore
    <3>2. CASE k >= at /\ k < i
      <4>1. k \in at .. i - 1
        BY <1>0, <3>2 DEF MInv
      <4> QED BY <2>1, <4>1 DEF NoneBefore
    <3>3. CASE k >= i
      <4>1. k = i
        BY <1>0, <2>1, <3>3, PiecesApart DEF IsStatement
      <4>2. l = j
        BY <2>1, <4>1, OneEnd DEF IsStatement
      <4> QED BY <2>3, <4>1, <4>2
    <3> QED BY <1>0, <2>1, <3>1, <3>2, <3>3 DEF MInv
  <2>5. at' \in 1 .. Len(Text) + 2
    BY <1>0, <2>1
  <2> QED BY <2>1, <2>2, <2>3, <2>4, <2>5 DEF MInv
<1>3. CASE AddPort
  <2>0. (States \in created /\ hasPort' = TRUE) \/ hasPort' = hasPort
    BY <1>3 DEF AddPort
  <2>1. /\ pc = "migrating" /\ pc' = "listening" /\ created' = created /\ at' = at
        /\ hasPort' \in BOOLEAN /\ (hasPort' => States \in created)
    <3>1. hasPort \in BOOLEAN /\ (hasPort => States \in created)
      BY DEF MInv
    <3>2. CASE States \in created /\ hasPort' = TRUE
      BY <1>3, <3>2 DEF AddPort
    <3>3. CASE hasPort' = hasPort
      BY <1>3, <3>1, <3>3, Zenon DEF AddPort
    <3> QED BY <2>0, <3>2, <3>3
  <2>2. Executed \subseteq created
    <3> SUFFICES ASSUME NEW i \in 1 .. Len(Text) + 1, NEW j \in 1 .. Len(Text) + 1, IsStatement(i, j)
                 PROVE  TablesIn(i, j) \subseteq created
      BY DEF Executed
    <3>1. CASE i < at
      BY <3>1, <2>1 DEF MInv, ExecutedBefore
    <3>2. CASE i >= at
      <4>1. i \in at .. (Len(Text) + 2) - 1
        BY <1>0, <3>2 DEF MInv
      <4> QED BY <1>3, <4>1 DEF AddPort, NoneBefore
    <3> QED BY <1>0, <3>1, <3>2 DEF MInv
  <2> QED BY <2>1, <2>2 DEF MInv, ExecutedBefore, Executed, IsStatement, Begins, Ends, TablesIn
<1>4. CASE Stop
  BY <1>4 DEF Stop, MInv, ExecutedBefore
<1>5. CASE UNCHANGED vars
  BY <1>5 DEF vars, MInv, ExecutedBefore, Executed, IsStatement, Begins, Ends, TablesIn
<1> QED BY <1>1, <1>2, <1>3, <1>4, <1>5 DEF Next

(***************************************************************************)
(* A server that listens has every table that the filter leaves in, on     *)
(* whatever database it starts and after any number of stops half way.     *)
(***************************************************************************)
ExecutedIsThere == pc = "listening" => Executed \subseteq created

THEOREM ListeningHasExecuted == ASSUME SchemaText PROVE Spec => []ExecutedIsThere
<1>1. Init => MInv
  BY MInvInit
<1>2. MInv /\ [Next]_vars => MInv'
  BY MInvStep
<1>3. MInv => ExecutedIsThere
  BY DEF MInv, ExecutedIsThere
<1> QED BY <1>1, <1>2, <1>3, PTL DEF Spec

-----------------------------------------------------------------------------
\* The behaviours of a server that is set up on a new database.
NewDatabase == Init /\ created = {} /\ [][Next]_vars

(***************************************************************************)
(* Only if: a table that the filter leaves out is never created, so that a *)
(* server on a new database never has it, whether it listens or not.       *)
(***************************************************************************)
OnlyExecuted == created \subseteq Executed

THEOREM LeftOutIsNeverCreated == NewDatabase => []OnlyExecuted
<1>1. Init /\ created = {} => OnlyExecuted
  BY DEF OnlyExecuted
<1>2. OnlyExecuted /\ [Next]_vars => OnlyExecuted'
  <2> SUFFICES ASSUME OnlyExecuted, [Next]_vars PROVE created' \subseteq Executed
    BY DEF OnlyExecuted, Executed, IsStatement, Begins, Ends, TablesIn
  <2>1. CASE ExecuteStatement
    <3>1. PICK i \in 1 .. Len(Text) + 1, j \in 1 .. Len(Text) + 1 :
            IsStatement(i, j) /\ created' = created \cup (TablesIn(i, j) \ created)
      BY <2>1 DEF ExecuteStatement
    <3>2. TablesIn(i, j) \subseteq Executed
      BY <3>1 DEF Executed, TablesIn
    <3> QED BY <3>1, <3>2 DEF OnlyExecuted
  <2>2. CASE created' = created
    BY <2>2 DEF OnlyExecuted
  <2> QED BY <2>1, <2>2 DEF Next, Start, AddPort, Stop, vars
<1> QED BY <1>1, <1>2, PTL DEF NewDatabase

(***************************************************************************)
(* A server that listens on a new database has exactly the tables that the *)
(* filter leaves in: the schema is initialized if, and only if, the filter *)
(* leaves in every table.                                                  *)
(***************************************************************************)
THEOREM ListeningHasExactly ==
  ASSUME SchemaText
  PROVE  NewDatabase => [](pc = "listening" => created = Executed)
<1>1. ExecutedIsThere /\ OnlyExecuted => (pc = "listening" => created = Executed)
  BY DEF ExecutedIsThere, OnlyExecuted
<1>2. NewDatabase => Spec
  BY DEF NewDatabase, Spec
<1> QED BY <1>1, <1>2, ListeningHasExecuted, LeftOutIsNeverCreated, PTL

\* Every piece begins with a comment, or is empty: schema.sql as it is.
Commented == \A i \in 1 .. Len(Text) : Begins(i) => Text[i] \in {Comment, Semicolon}

(***************************************************************************)
(* With a comment above each statement nothing is ever executed: a start   *)
(* creates no table, however often it is repeated.                         *)
(***************************************************************************)
THEOREM CommentedCreatesNothing ==
  ASSUME SchemaText, Commented
  PROVE  NewDatabase => [](created = {})
<1>1. Executed = {}
  <2> SUFFICES ASSUME NEW i \in 1 .. Len(Text) + 1, NEW j \in 1 .. Len(Text) + 1, IsStatement(i, j)
               PROVE  FALSE
    BY DEF Executed
  <2>1. Len(Text) \in Nat /\ j \in i .. Len(Text) + 1 /\ i # j
    BY TextLen DEF IsStatement, Ends
  <2>2. i \in 1 .. Len(Text) /\ i \in i .. j - 1
    BY <2>1
  <2>3. Text[i] = Semicolon
    BY <2>2 DEF Commented, IsStatement
  <2> QED BY <2>2, <2>3 DEF IsStatement, Ends
<1>2. OnlyExecuted => created = {}
  BY <1>1 DEF OnlyExecuted
<1> QED BY <1>2, LeftOutIsNeverCreated, PTL

=============================================================================
