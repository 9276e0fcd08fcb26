-------------------------- MODULE SyncedRowsProofs --------------------------
(***************************************************************************)
(* Proofs about SyncedRows, for any number of rows and requests, any       *)
(* tables, and any spreading of their columns over statements in which no  *)
(* column is in two statements and that bind the values of the columns     *)
(* they set, in the same order.                                            *)
(***************************************************************************)
EXTENDS SyncedRows, FiniteSetTheorems, TLAPS

-----------------------------------------------------------------------------
(* The inductive invariant.                                                *)

\* Cells hold what was sent for their column, and by requests that have begun.
CellOK ==
  \A r \in Creates : rows[r] # None =>
    /\ Known(r)
    /\ \A x \in Columns : /\ rows[r][x].for = x
                          /\ rows[r][x].by \in Updates => pc[rows[r][x].by] # "new"

\* A PUT is verified against a row that has been there, and before it are
\* only PUTs that have ended.
PutOK ==
  \A q \in Updates :
    /\ pc[q] = "new" => at[q] = 1
    /\ pc[q] # "new" => Known(Target[q])
    /\ pc[q] = "write" => UserOf[Target[q]] = UserOf[q]
    /\ pc[q] = "done" => at[q] > Len(Statements[table])
    /\ asked[q] \subseteq Settable(table)
    /\ \A p \in before[q] : Ended(p)

\* LaterWins for the columns a PUT has been through.
PassedOK ==
  \A q \in Updates :
    rows[Target[q]] # None =>
      \A x \in Passed(q) : rows[Target[q]][x].by \in Updates \ before[q]

IInv == TypeOK /\ CellOK /\ PutOK /\ PassedOK /\ OneStatementIsWhole

-----------------------------------------------------------------------------
(* The statement an update executes.                                       *)

\* The given columns of a statement are finitely many.
LEMMA GivenFinite ==
  ASSUME NEW q \in Updates, TypeOK, at[q] \in DOMAIN Statements[table]
  PROVE  /\ Statement(q) \in Seq(Columns)
         /\ Given(q) \subseteq Nat
         /\ IsFiniteSet(Given(q))
<1>1. Statement(q) \in Seq(Columns)
  BY TablesAssumption DEF TypeOK, Statement
<1>2. Given(q) \subseteq 1 .. Len(Statement(q))
  BY <1>1 DEF Given
<1>3. IsFiniteSet(1 .. Len(Statement(q)))
  BY <1>1, FS_Interval
<1> QED
  BY <1>1, <1>2, <1>3, FS_Subset

\* Two given columns have different placeholders.
LEMMA PlacesDiffer ==
  ASSUME NEW q \in Updates, TypeOK, at[q] \in DOMAIN Statements[table],
         NEW i \in Given(q), NEW j \in Given(q), i < j
  PROVE  Place(q, i) # Place(q, j)
<1> DEFINE B(k) == {l \in Given(q) : l < k}
<1>1. IsFiniteSet(B(j))
  BY GivenFinite, FS_Subset
<1>2. B(i) \subseteq B(j) /\ B(i) # B(j)
  BY GivenFinite
<1>3. Cardinality(B(i)) # Cardinality(B(j))
  BY <1>1, <1>2, FS_Subset
<1> QED
  BY <1>3 DEF Place

\* A placeholder gets the value of its own column.
LEMMA ValuesMatch ==
  ASSUME NEW q \in Updates, TypeOK, at[q] \in DOMAIN Statements[table], NEW i \in Given(q)
  PROVE  ValueOf(q, i) = Statement(q)[i]
<1>0. Binding(q) = Statement(q) /\ Bound(q) = Given(q)
  BY BindingsAssumption DEF Binding, Statement, Bound, Given
<1>1. \A j \in Given(q) : BoundTo(q, j) = Place(q, j)
  BY <1>0 DEF BoundTo, Place
<1>2. \A j \in Given(q) : BoundTo(q, j) = Place(q, i) => j = i
  BY <1>1, PlacesDiffer, GivenFinite
<1> QED
  BY <1>0, <1>1, <1>2 DEF ValueOf

\* After the statement: given columns hold the update's value, others are as before.
LEMMA UpdatedRow ==
  ASSUME NEW q \in Updates, TypeOK, at[q] \in DOMAIN Statements[table], NEW row \in Row
  PROVE  /\ Updated(q, row) \in Row
         /\ \A x \in Columns :
              Updated(q, row)[x] = IF \E i \in Given(q) : Statement(q)[i] = x
                                   THEN [by |-> q, for |-> x] ELSE row[x]
<1>1. \A y \in Columns : (\E i \in Given(q) : Statement(q)[i] = y) =>
        [by |-> q, for |-> ValueOf(q, CHOOSE i \in Given(q) : Statement(q)[i] = y)] = [by |-> q, for |-> y]
  BY ValuesMatch
<1>2. \A y \in Columns : [by |-> q, for |-> y] \in Cell /\ row[y] \in Cell
  BY DEF Cell, Row
<1>3. Updated(q, row) =
        [y \in Columns |-> IF \E i \in Given(q) : Statement(q)[i] = y THEN [by |-> q, for |-> y] ELSE row[y]]
  BY <1>1 DEF Updated
<1> QED
  BY <1>2, <1>3 DEF Row

-----------------------------------------------------------------------------
(* Each step preserves the invariant.                                      *)

LEMMA InitIInv == Init => IInv
<1> SUFFICES ASSUME Init PROVE IInv
  OBVIOUS
<1>1. TypeOK
  BY DEF Init, TypeOK, Requests
<1>2. CellOK /\ PutOK
  BY TargetAssumption DEF Init, CellOK, PutOK, Requests, Known
<1>3. PassedOK /\ OneStatementIsWhole
  BY TargetAssumption DEF Init, PassedOK, OneStatementIsWhole
<1> QED BY <1>1, <1>2, <1>3 DEF IInv

LEMMA InsertIInv == ASSUME IInv, NEW r \in Creates, Insert(r) PROVE IInv'
<1> USE DEF IInv, Insert
<1> DEFINE new == [x \in Columns |-> [by |-> r, for |-> x]]
<1>0. r \in Requests /\ r \notin Updates
  BY RequestsAssumption DEF Requests
<1>1. new \in Row
  BY DEF Row, Cell
<1>2. /\ rows' \in [Creates -> Row \cup {None}] /\ rows'[r] = new
      /\ \A t \in Creates : t # r => rows'[t] = rows[t]
  BY <1>1 DEF TypeOK
<1>3. TypeOK'
  BY <1>2 DEF TypeOK
<1>4. CellOK'
  BY <1>0, <1>2 DEF TypeOK, CellOK, Known, Row, Cell, Requests
<1>5. PutOK'
  BY <1>0, TargetAssumption DEF TypeOK, PutOK, Known, Ended, Settable, Requests
<1>6. PassedOK'
  <2> SUFFICES ASSUME NEW q \in Updates, rows'[Target[q]] # None, NEW x \in Passed(q)'
               PROVE  rows'[Target[q]][x].by \in Updates \ before'[q]
    BY DEF PassedOK
  <2>1. x \in Passed(q)
    BY DEF Passed
  <2>2. CASE Target[q] = r
    <3>1. at[q] = 1
      BY <2>2 DEF PutOK, Known
    <3> QED
      BY <2>1, <3>1, TablesAssumption DEF Passed, TypeOK
  <2>3. CASE Target[q] # r
    BY <1>2, <2>1, <2>3, TargetAssumption DEF PassedOK
  <2> QED BY <2>2, <2>3
<1>7. OneStatementIsWhole'
  BY <1>0, <1>2 DEF TypeOK, OneStatementIsWhole, Together
<1> QED BY <1>3, <1>4, <1>5, <1>6, <1>7

\* A request moves on and the table stays as it is.
LEMMA MoveIInv ==
  ASSUME IInv, NEW q \in Requests, NEW s \in {"done", "missing", "dropped"},
         pc[q] \in {"inserted", "write"}, pc' = [pc EXCEPT ![q] = s],
         q \in Updates /\ s = "done" => at[q] > Len(Statements[table]),
         UNCHANGED <<table, rows, asked, at, before>>
  PROVE  IInv'
<1> USE DEF IInv
<1>1. TypeOK'
  BY DEF TypeOK
<1>2. CellOK'
  BY DEF TypeOK, CellOK, Known, Row, Cell, Requests
<1>3. PutOK'
  BY TargetAssumption DEF TypeOK, PutOK, Known, Ended, Settable, Requests
<1>4. PassedOK'
  BY DEF PassedOK, Passed
<1>5. OneStatementIsWhole'
  BY DEF OneStatementIsWhole, Together
<1> QED BY <1>1, <1>2, <1>3, <1>4, <1>5

LEMMA VerifyIInv ==
  ASSUME IInv, NEW q \in Updates, NEW xs \in Asks[table], Verify(q, xs)
  PROVE  IInv'
<1> USE DEF IInv, Verify
<1>0. xs \subseteq Columns /\ xs \subseteq Settable(table)
  BY TablesAssumption DEF TypeOK
<1>1. TypeOK'
  BY <1>0 DEF TypeOK
<1>2. CellOK'
  BY DEF TypeOK, CellOK, Known, Row, Cell, Requests
<1>3. PutOK'
  BY <1>0, TargetAssumption DEF TypeOK, PutOK, Known, Ended, Found, Settable, Requests
<1>4. PassedOK'
  <2> SUFFICES ASSUME NEW p \in Updates, rows'[Target[p]] # None, NEW x \in Passed(p)'
               PROVE  rows'[Target[p]][x].by \in Updates \ before'[p]
    BY DEF PassedOK
  <2>1. CASE p = q
    BY <2>1, TablesAssumption DEF TypeOK, PutOK, Passed
  <2>2. CASE p # q
    BY <2>2 DEF TypeOK, PassedOK, Passed
  <2> QED BY <2>1, <2>2
<1>5. OneStatementIsWhole'
  <2> SUFFICES ASSUME NEW r \in Creates, rows[r] # None,
                      NEW a \in Updates, NEW b \in Updates, a # b,
                      NEW x \in asked'[a] \cap asked'[b], NEW y \in asked'[a] \cap asked'[b],
                      rows[r][x].by = a, rows[r][y].by = b
               PROVE  ~Together(x, y)
    BY DEF OneStatementIsWhole, Together
  <2>0. x \in Columns /\ y \in Columns
    BY <1>1 DEF TypeOK
  <2>1. pc[a] # "new" /\ pc[b] # "new"
    BY <2>0 DEF CellOK
  <2>2. asked'[a] = asked[a] /\ asked'[b] = asked[b]
    BY <2>1 DEF TypeOK
  <2> QED BY <2>2 DEF OneStatementIsWhole
<1> QED BY <1>1, <1>2, <1>3, <1>4, <1>5

LEMMA WriteIInv == ASSUME IInv, NEW q \in Updates, Write(q) PROVE IInv'
<1> USE DEF IInv
<1> DEFINE t == Target[q]
           Hit(x) == \E i \in Given(q) : Statement(q)[i] = x
<1>0. /\ t \in Creates /\ q \in Requests /\ pc[q] = "write"
      /\ at[q] \in DOMAIN Statements[table]
      /\ \A p \in Updates : q \notin before[p]
      /\ UNCHANGED <<table, pc, asked, before>>
      /\ at' = [at EXCEPT ![q] = @ + 1]
  <2>1. Statements[table] \in Seq(Seq(Columns)) /\ at[q] \in Nat \ {0}
    BY TablesAssumption DEF TypeOK
  <2>2. at[q] \in DOMAIN Statements[table]
    BY <2>1 DEF AllExecuted, Write
  <2>3. \A p \in Updates : q \notin before[p]
    BY DEF PutOK, Ended, Write
  <2> QED
    BY <2>2, <2>3, TargetAssumption DEF Requests, Write
<1>1. /\ rows' \in [Creates -> Row \cup {None}]
      /\ \A r \in Creates : rows'[r] # None => rows[r] # None
      /\ \A r \in Creates, x \in Columns :
           rows'[r] # None =>
             IF r = t /\ Hit(x) THEN rows'[r][x].by = q /\ rows'[r][x].for = x
                                ELSE rows'[r][x] = rows[r][x]
  <2>1. rows' = [rows EXCEPT ![t] = RowUpdated(q)]
    BY DEF Write
  <2>2. rows[t] = None <=> ~Found(q)
    BY <1>0 DEF PutOK, Found
  <2>3. CASE Found(q)
    <3>1. RowUpdated(q) = Updated(q, rows[t]) /\ rows[t] \in Row
      BY <2>2, <2>3, <1>0 DEF RowUpdated, TypeOK
    <3>2. /\ RowUpdated(q) \in Row
          /\ \A x \in Columns :
               RowUpdated(q)[x] = IF Hit(x) THEN [by |-> q, for |-> x] ELSE rows[t][x]
      BY <3>1, <1>0, UpdatedRow
    <3> HIDE DEF Hit
    <3>3. /\ rows' \in [Creates -> Row \cup {None}] /\ rows'[t] = RowUpdated(q)
          /\ \A r \in Creates : r # t => rows'[r] = rows[r]
      BY <2>1, <3>2, <1>0 DEF TypeOK
    <3>4. \A x \in Columns :
            IF Hit(x) THEN rows'[t][x].by = q /\ rows'[t][x].for = x
                      ELSE rows'[t][x] = rows[t][x]
      <4> SUFFICES ASSUME NEW x \in Columns
                   PROVE  IF Hit(x) THEN rows'[t][x].by = q /\ rows'[t][x].for = x
                                    ELSE rows'[t][x] = rows[t][x]
        OBVIOUS
      <4>1. CASE Hit(x)
        <5>1. rows'[t][x] = [by |-> q, for |-> x]
          BY <3>2, <3>3, <4>1
        <5> QED BY <4>1, <5>1
      <4>2. CASE ~Hit(x)
        BY <3>2, <3>3, <4>2
      <4> QED BY <4>1, <4>2
    <3> QED
      BY <2>2, <2>3, <3>3, <3>4
  <2>4. CASE ~Found(q)
    BY <2>1, <2>2, <2>4, <1>0 DEF RowUpdated, TypeOK
  <2> QED BY <2>3, <2>4
<1>2. TypeOK'
  BY <1>0, <1>1 DEF TypeOK
<1>3. CellOK'
  <2> SUFFICES ASSUME NEW r \in Creates, rows'[r] # None
               PROVE  /\ Known(r)'
                      /\ \A x \in Columns : /\ rows'[r][x].for = x
                                            /\ rows'[r][x].by \in Updates => pc[rows'[r][x].by] # "new"
    BY <1>0 DEF CellOK
  <2> HIDE DEF Hit
  <2>1. rows[r] # None
    BY <1>1
  <2>2. Known(r)'
    BY <2>1, <1>0 DEF CellOK, Known
  <2>3. ASSUME NEW x \in Columns
        PROVE  rows'[r][x].for = x /\ (rows'[r][x].by \in Updates => pc[rows'[r][x].by] # "new")
    BY <2>1, <1>0, <1>1 DEF CellOK
  <2> QED BY <2>2, <2>3
<1>4. PutOK'
  BY <1>0 DEF TypeOK, PutOK, Known, Ended, Settable
\* The columns q has been through are those of before and those just set.
<1>5. \A x \in Passed(q)' : x \in Passed(q) \/ Hit(x)
  <2> SUFFICES ASSUME NEW x \in asked[q], NEW i \in DOMAIN Statements[table], i < at'[q],
                      NEW j \in DOMAIN Statements[table][i], Statements[table][i][j] = x
               PROVE  x \in Passed(q) \/ Hit(x)
    BY <1>0 DEF Passed
  <2>1. CASE i = at[q]
    BY <2>1 DEF Given, Statement
  <2>2. CASE i # at[q]
    <3>1. i < at[q]
      BY <2>2, <1>0, TablesAssumption DEF TypeOK
    <3> QED BY <3>1 DEF Passed
  <2> QED BY <2>1, <2>2
<1>6. PassedOK'
  <2> SUFFICES ASSUME NEW p \in Updates, rows'[Target[p]] # None, NEW x \in Passed(p)'
               PROVE  rows'[Target[p]][x].by \in Updates \ before[p]
    BY <1>0 DEF PassedOK
  <2>1. x \in Columns /\ Target[p] \in Creates
    BY <1>0, TargetAssumption DEF TypeOK, Passed
  <2>2. x \in Passed(p) \/ (p = q /\ Hit(x))
    BY <1>0, <1>5 DEF TypeOK, Passed
  <2> HIDE DEF Hit
  <2>3. CASE Target[p] = t /\ Hit(x)
    BY <2>1, <2>3, <1>0, <1>1
  <2>4. CASE ~(Target[p] = t /\ Hit(x))
    BY <2>1, <2>2, <2>4, <1>1 DEF PassedOK
  <2> QED BY <2>3, <2>4
<1>7. \A x, y \in Columns : Together(x, y) /\ Hit(x) /\ y \in asked[q] => Hit(y)
  BY <1>0, TablesAssumption DEF TypeOK, Together, Given, Statement
<1>8. \A x, y \in Columns : Together(x, y) => Together(y, x)
  BY DEF Together
<1>9. OneStatementIsWhole'
  <2> SUFFICES ASSUME NEW r \in Creates, rows'[r] # None,
                      NEW a \in Updates, NEW b \in Updates, a # b,
                      NEW x \in asked[a] \cap asked[b], NEW y \in asked[a] \cap asked[b],
                      rows'[r][x].by = a, rows'[r][y].by = b, Together(x, y)
               PROVE  FALSE
    BY <1>0 DEF OneStatementIsWhole, Together
  <2>0. x \in Columns /\ y \in Columns
    BY DEF TypeOK
  <2> HIDE DEF Hit
  <2>1. CASE r = t /\ (Hit(x) \/ Hit(y))
    <3>1. a = q \/ b = q
      BY <2>0, <2>1, <1>1
    <3>2. Hit(x) /\ Hit(y)
      BY <2>0, <2>1, <3>1, <1>7, <1>8
    <3> QED BY <2>0, <2>1, <3>2, <1>1
  <2>2. CASE ~(r = t /\ (Hit(x) \/ Hit(y)))
    BY <2>0, <2>2, <1>1 DEF OneStatementIsWhole
  <2> QED BY <2>1, <2>2
<1> QED BY <1>2, <1>3, <1>4, <1>6, <1>9

LEMMA DeleteIInv == ASSUME IInv, NEW d \in Deletes, Delete(d) PROVE IInv'
<1> USE DEF IInv
<1>0. /\ d \in Requests /\ d \notin Updates /\ d \notin Creates
      /\ pc[d] = "new" /\ UNCHANGED <<table, asked, at, before>>
      /\ \E s \in {"done", "missing"} : pc' = [pc EXCEPT ![d] = s]
  BY RequestsAssumption DEF Delete, Requests
<1>1. /\ rows' \in [Creates -> Row \cup {None}]
      /\ \A r \in Creates : rows'[r] # None => rows'[r] = rows[r]
  BY TargetAssumption DEF Delete, TypeOK
<1>2. TypeOK'
  BY <1>0, <1>1 DEF TypeOK
<1>3. CellOK'
  BY <1>0, <1>1 DEF TypeOK, CellOK, Known, Requests
<1>4. PutOK'
  BY <1>0, TargetAssumption DEF TypeOK, PutOK, Known, Ended, Settable, Requests
<1>5. PassedOK'
  BY <1>0, <1>1, TargetAssumption DEF PassedOK, Passed
<1>6. OneStatementIsWhole'
  BY <1>0, <1>1 DEF OneStatementIsWhole, Together
<1> QED BY <1>2, <1>3, <1>4, <1>5, <1>6

LEMMA StepIInv == ASSUME IInv, [Next]_vars PROVE IInv'
<1>1. ASSUME NEW r \in Creates, AnswerCreate(r) PROVE IInv'
  BY <1>1, MoveIInv, RequestsAssumption DEF AnswerCreate, Requests
<1>2. ASSUME NEW q \in Creates \cup Updates, Drop(q) PROVE IInv'
  BY <1>2, MoveIInv DEF Drop, Requests
<1>3. ASSUME NEW q \in Updates, ReadBack(q) PROVE IInv'
  <2>1. at[q] > Len(Statements[table])
    BY <1>3, TablesAssumption DEF ReadBack, AllExecuted
  <2> QED BY <1>3, <2>1, MoveIInv DEF ReadBack, Requests
<1>4. ASSUME UNCHANGED vars PROVE IInv'
  BY <1>4 DEF vars, IInv, TypeOK, CellOK, PutOK, PassedOK, OneStatementIsWhole, Passed, Together, Known,
             Ended, Settable
<1> QED
  BY <1>1, <1>2, <1>3, <1>4, InsertIInv, VerifyIInv, WriteIInv, DeleteIInv DEF Next, Finished

THEOREM IInvHolds == Spec => []IInv
  BY InitIInv, StepIInv, PTL DEF Spec

-----------------------------------------------------------------------------
(* What follows from it.                                                   *)

(***************************************************************************)
(* Rows, requests and the statements they are at keep their types.         *)
(***************************************************************************)
THEOREM TypeCorrect == Spec => []TypeOK
<1>1. IInv => TypeOK
  BY DEF IInv
<1> QED BY <1>1, IInvHolds, PTL

(***************************************************************************)
(* Whatever columns an update gives, the values that are bound end up in   *)
(* the columns they were sent for.                                         *)
(***************************************************************************)
THEOREM ValuesKeepTheirColumns == Spec => []ValuesInTheirColumns
<1>1. IInv => ValuesInTheirColumns
  BY DEF IInv, CellOK, ValuesInTheirColumns
<1> QED BY <1>1, IInvHolds, PTL

(***************************************************************************)
(* A column that a PUT has been through never holds the value of a PUT     *)
(* that had ended when it began.                                           *)
(***************************************************************************)
THEOREM LaterUpdatesWin == Spec => []LaterWins
<1>1. IInv => LaterWins
  <2> SUFFICES ASSUME IInv, NEW q \in Updates, pc[q] = "done"
               PROVE  asked[q] \subseteq Passed(q)
    BY DEF LaterWins, PassedOK, IInv, Passed
  <2>1. Statements[table] \in Seq(Seq(Columns)) /\ at[q] \in Nat
    BY TablesAssumption DEF IInv, TypeOK
  <2>2. at[q] > Len(Statements[table]) /\ asked[q] \subseteq Settable(table)
    BY DEF IInv, PutOK
  <2>3. \A i \in DOMAIN Statements[table] : i < at[q]
    BY <2>1, <2>2
  <2> QED
    BY <2>2, <2>3 DEF Passed, Settable
<1> QED BY <1>1, IInvHolds, PTL

(***************************************************************************)
(* Columns that one statement sets are never of two updates that both gave *)
(* them: the text of a saved query has the checksum it was sent with.      *)
(***************************************************************************)
THEOREM StatementsAreWhole == Spec => []OneStatementIsWhole
<1>1. IInv => OneStatementIsWhole
  BY DEF IInv
<1> QED BY <1>1, IInvHolds, PTL

(***************************************************************************)
(* No update brings back a row that was deleted while it was under way.    *)
(***************************************************************************)
THEOREM DeletedRowsStayDeleted == Spec => DeletedStaysDeleted
<1>1. ASSUME IInv, Next, NEW r \in Creates, Known(r), rows[r] = None
      PROVE  rows'[r] = None
  <2>1. ASSUME NEW q \in Updates, Write(q) PROVE rows'[r] = None
    <3>1. Target[q] = r => RowUpdated(q) = None
      BY <1>1 DEF RowUpdated, Found
    <3> QED BY <1>1, <2>1, <3>1 DEF Write, IInv, TypeOK
  <2>2. ASSUME NEW d \in Deletes, Delete(d) PROVE rows'[r] = None
    BY <1>1, <2>2, TargetAssumption DEF Delete, IInv, TypeOK
  <2>3. ASSUME NEW s \in Creates, Insert(s) PROVE rows'[r] = None
    BY <1>1, <2>3 DEF Insert, Known, IInv, TypeOK
  <2> QED
    BY <1>1, <2>1, <2>2, <2>3 DEF Next, AnswerCreate, Drop, Verify, ReadBack, Finished, vars
<1>2. IInv /\ [Next]_vars =>
        [\A r \in Creates : Known(r) /\ rows[r] = None => rows'[r] = None]_vars
  BY <1>1
<1> QED BY <1>2, IInvHolds, PTL DEF Spec, DeletedStaysDeleted
=============================================================================
