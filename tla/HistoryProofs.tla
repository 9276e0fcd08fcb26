--------------------------- MODULE HistoryProofs ---------------------------
(***************************************************************************)
(* Proofs about History, for any users, pushes, batches, limit and page    *)
(* size.                                                                   *)
(*                                                                         *)
(* The inductive invariant adds to the properties what they rest on: who   *)
(* can have rows and in which order retries run (StartedOK), that what the *)
(* SELECT did not find is not put there by the push itself or the one it   *)
(* repeats (FreshOK), RecentIsKept for the items a push has been through   *)
(* (StandsOK), and where in the list the entries are that the reader may   *)
(* still expect (OwedOK).                                                  *)
(***************************************************************************)
EXTENDS History, FiniteSetTheorems, TLAPS

\* A push has rows once it has started; it starts when the one it repeats has ended.
StartedOK ==
  /\ IsFiniteSet(rows)
  /\ \A p \in Pushes : pc[p] = "new" => next[p] = 1
  /\ \A w \in rows : pc[w.by] # "new" /\ w.user = UserOf[w.by]
  /\ \A p \in Pushes : pc[p] # "new" /\ After[p] # None => Ended(After[p])

\* Between the SELECT and the INSERT, neither the push itself nor the one it
\* repeats adds the row that was looked for.
FreshOK ==
  \A p \in Pushes : pc[p] = "insert" =>
    \A w \in RowsOf(UserOf[p]) :
      w.by = p \/ w.by = After[p] => ~(w.what = Sent(p).what /\ w.at = Sent(p).when)

\* The item has a row, or the history is full of rows that are not older.
Stands(u, i) ==
  \/ \E w \in RowsOf(u) : w.what = i.what /\ w.at = Stored(i.when)
  \/ Cardinality({w \in RowsOf(u) : w.at >= Stored(i.when)}) >= Limit

\* RecentIsKept, while the push is still under way.
StandsOK ==
  \A p \in Pushes : pc[p] \in {"check", "insert", "done"} /\ UserOf[p] \notin erased =>
    \A k \in DOMAIN Batch[p] : pc[p] = "done" \/ k < next[p] => Stands(UserOf[p], Batch[p][k])

\* What comes before an entry in list_history.
Newer(w) == {v \in RowsOf(Reader) : v.at > w.at}

\* An entry that may be expected is on a page that has not been read.
OwedOK ==
  /\ listing = "new" => offset = 0 /\ owed = {}
  /\ listing = "done" => owed = {}
  /\ \A w \in owed : /\ w \in RowsOf(Reader) /\ Alone(w, rows)
                     /\ Cardinality(Newer(w)) >= offset

HInv == TypeOK /\ StartedOK /\ FreshOK /\ RetryAddsNothing /\ LimitHolds /\ StandsOK /\ OwedOK

-----------------------------------------------------------------------------
LEMMA StoredIsWhole ==
  ASSUME NEW t \in Nat
  PROVE  /\ Stored(t) \in Nat /\ Stored(t) % 2 = 0
         /\ t % 2 = 0 => Stored(t) = t
  BY DEF Stored

LEMMA SentItem ==
  ASSUME TypeOK, NEW p \in Pushes, next[p] <= Len(Batch[p])
  PROVE  /\ Sent(p) \in Item /\ Sent(p) = Batch[p][next[p]]
         /\ Sent(p).what \in Whats /\ Sent(p).when \in Nat
<1>1. Batch[p] \in Seq(Item) /\ next[p] \in 1 .. Len(Batch[p])
  BY PushAssumption DEF TypeOK
<1>2. Batch[p][next[p]] \in Item
  BY <1>1
<1> QED BY <1>2 DEF Sent, Item

LEMMA HInvInit == Init => HInv
<1> SUFFICES ASSUME Init PROVE HInv
  OBVIOUS
<1>1. TypeOK
  BY PushAssumption DEF Init, TypeOK, RowsOf
<1>2. StartedOK
  BY FS_EmptySet DEF Init, StartedOK
<1>3. LimitHolds
  <2> SUFFICES ASSUME NEW u \in Users
               PROVE  Cardinality({w \in RowsOf(u) : pc[w.by] = "done"}) <= Limit
    BY DEF LimitHolds
  <2>1. {w \in RowsOf(u) : pc[w.by] = "done"} = {}
    BY DEF Init, RowsOf
  <2> QED BY <2>1, FS_EmptySet, LimitAssumption
<1>4. FreshOK /\ RetryAddsNothing /\ StandsOK /\ OwedOK
  BY DEF Init, FreshOK, RetryAddsNothing, StandsOK, OwedOK
<1> QED BY <1>1, <1>2, <1>3, <1>4 DEF HInv

-----------------------------------------------------------------------------
(***************************************************************************)
(* Sets of rows are finite, so that they can be counted.                   *)
(***************************************************************************)
LEMMA RowsFinite ==
  ASSUME IsFiniteSet(rows), NEW S, S \subseteq rows
  PROVE  IsFiniteSet(S) /\ Cardinality(S) \in Nat
  BY FS_Subset, FS_CardinalityType

LEMMA RowsCounted ==
  ASSUME IsFiniteSet(rows), NEW S, S \subseteq rows, NEW T, T \subseteq S
  PROVE  Cardinality(T) <= Cardinality(S)
  BY RowsFinite, FS_Subset

(***************************************************************************)
(* Steps that leave the rows alone: where a push is.                       *)
(***************************************************************************)
LEMMA StartHInv == ASSUME HInv, NEW p \in Pushes, Start(p) PROVE HInv'
<1> USE DEF Start, reading
<1>0. TypeOK /\ StartedOK /\ FreshOK /\ RetryAddsNothing /\ LimitHolds /\ StandsOK /\ OwedOK
  BY DEF HInv
<1>1. rows' = rows /\ next' = next /\ erased' = erased /\ listing' = listing
      /\ offset' = offset /\ owed' = owed
  OBVIOUS
<1>2. /\ pc[p] = "new" /\ pc'[p] \in {"done", "check"} /\ (pc'[p] = "done" => Batch[p] = <<>>)
      /\ \A q \in Pushes : q # p => pc'[q] = pc[q]
      /\ pc' \in [Pushes -> {"new", "check", "insert", "done", "dropped"}]
  BY <1>0 DEF TypeOK
<1>3. TypeOK'
  BY <1>0, <1>1, <1>2 DEF TypeOK, RowsOf
<1>4. StartedOK'
  <2>1. \A w \in rows : w.by \in Pushes
    BY <1>0 DEF TypeOK
  <2>2. After[p] # None => Ended(After[p])
    OBVIOUS
  <2> QED BY <1>0, <1>1, <1>2, <2>1, <2>2, RetryAssumption DEF StartedOK, Ended
<1>5. FreshOK'
  BY <1>0, <1>1, <1>2 DEF FreshOK, RowsOf, Sent
<1>6. RetryAddsNothing'
  BY <1>0, <1>1 DEF RetryAddsNothing, Duplicates, Whole, ItemOf
<1>7. LimitHolds'
  <2> SUFFICES ASSUME NEW u \in Users
               PROVE  Cardinality({w \in RowsOf(u) : pc[w.by] = "done"})' <= Limit
    BY DEF LimitHolds
  <2>1. \A w \in rows : w.by \in Pushes /\ w.by # p
    BY <1>0, <1>2 DEF StartedOK, TypeOK
  <2>2. {w \in RowsOf(u) : pc[w.by] = "done"}' = {w \in RowsOf(u) : pc[w.by] = "done"}
    BY <1>1, <1>2, <2>1 DEF RowsOf
  <2> QED BY <1>0, <2>2 DEF LimitHolds
<1>8. StandsOK'
  <2> SUFFICES ASSUME NEW q \in Pushes, pc'[q] \in {"check", "insert", "done"}, UserOf[q] \notin erased,
                      NEW k \in DOMAIN Batch[q], pc'[q] = "done" \/ k < next[q]
               PROVE  Stands(UserOf[q], Batch[q][k])'
    BY <1>1 DEF StandsOK
  <2>1. q # p
    <3>1. Batch[p] \in Seq(Item) /\ next[p] = 1
      BY <1>0, <1>2, PushAssumption DEF StartedOK
    <3>2. \A j \in DOMAIN Batch[p] : ~(j < 1) /\ Batch[p] # <<>>
      BY <3>1
    <3> QED BY <3>1, <3>2, <1>2
  <2>2. Stands(UserOf[q], Batch[q][k])
    BY <2>1, <1>0, <1>2 DEF StandsOK
  <2> QED BY <2>2, <1>1 DEF Stands, RowsOf
<1>9. OwedOK'
  BY <1>0, <1>1 DEF OwedOK, Newer, RowsOf, Alone
<1> QED BY <1>3, <1>4, <1>5, <1>6, <1>7, <1>8, <1>9 DEF HInv

LEMMA DropHInv == ASSUME HInv, NEW p \in Pushes, Drop(p) PROVE HInv'
<1> USE DEF Drop, reading
<1>0. TypeOK /\ StartedOK /\ FreshOK /\ RetryAddsNothing /\ LimitHolds /\ StandsOK /\ OwedOK
  BY DEF HInv
<1>1. rows' = rows /\ next' = next /\ erased' = erased /\ listing' = listing
      /\ offset' = offset /\ owed' = owed
  OBVIOUS
<1>2. /\ pc[p] \in {"check", "insert"} /\ pc'[p] = "dropped"
      /\ \A q \in Pushes : q # p => pc'[q] = pc[q]
      /\ pc' \in [Pushes -> {"new", "check", "insert", "done", "dropped"}]
  BY <1>0 DEF TypeOK
<1>3. TypeOK'
  BY <1>0, <1>1, <1>2 DEF TypeOK, RowsOf
<1>4. StartedOK'
  <2>1. \A w \in rows : w.by \in Pushes
    BY <1>0 DEF TypeOK
  <2> QED BY <1>0, <1>1, <1>2, <2>1, RetryAssumption DEF StartedOK, Ended
<1>5. FreshOK'
  BY <1>0, <1>1, <1>2 DEF FreshOK, RowsOf, Sent
<1>6. RetryAddsNothing'
  BY <1>0, <1>1 DEF RetryAddsNothing, Duplicates, Whole, ItemOf
<1>7. LimitHolds'
  <2> SUFFICES ASSUME NEW u \in Users
               PROVE  Cardinality({w \in RowsOf(u) : pc[w.by] = "done"})' <= Limit
    BY DEF LimitHolds
  <2>1. \A w \in rows : w.by \in Pushes
    BY <1>0 DEF TypeOK
  <2>2. {w \in RowsOf(u) : pc[w.by] = "done"}' = {w \in RowsOf(u) : pc[w.by] = "done"}
    BY <1>1, <1>2, <2>1 DEF RowsOf
  <2> QED BY <1>0, <2>2 DEF LimitHolds
<1>8. StandsOK'
  BY <1>0, <1>1, <1>2 DEF StandsOK, Stands, RowsOf
<1>9. OwedOK'
  BY <1>0, <1>1 DEF OwedOK, Newer, RowsOf, Alone
<1> QED BY <1>3, <1>4, <1>5, <1>6, <1>7, <1>8, <1>9 DEF HInv

\* The row that was found stands for the item, because it holds whole seconds.
LEMMA CheckHInv == ASSUME HInv, NEW p \in Pushes, Check(p) PROVE HInv'
<1> USE DEF Check, reading
<1>0. TypeOK /\ StartedOK /\ FreshOK /\ RetryAddsNothing /\ LimitHolds /\ StandsOK /\ OwedOK
  BY DEF HInv
<1>1. rows' = rows /\ erased' = erased /\ listing' = listing /\ offset' = offset /\ owed' = owed
  OBVIOUS
<1>2. pc[p] = "check" /\ next[p] \in 1 .. Len(Batch[p]) /\ Len(Batch[p]) \in Nat
  BY <1>0, PushAssumption DEF TypeOK
<1>3. \/ /\ Known(p) /\ pc' = pc /\ next'[p] = next[p] + 1
         /\ \A q \in Pushes : q # p => next'[q] = next[q]
      \/ /\ ~Known(p) /\ next' = next /\ pc'[p] = "insert"
         /\ \A q \in Pushes : q # p => pc'[q] = pc[q]
  BY <1>0 DEF TypeOK
<1>4. TypeOK'
  <2>1. next' \in [Pushes -> Nat] /\ pc' \in [Pushes -> {"new", "check", "insert", "done", "dropped"}]
    BY <1>0, <1>2 DEF TypeOK
  <2>2. \A q \in Pushes : /\ next'[q] \in 1 .. Len(Batch[q]) + 1
                          /\ pc'[q] = "insert" => next'[q] <= Len(Batch[q])
    BY <1>0, <1>2, <1>3 DEF TypeOK
  <2> QED BY <1>0, <1>1, <2>1, <2>2 DEF TypeOK, RowsOf
<1>5. StartedOK'
  <2>1. \A w \in rows : w.by \in Pushes
    BY <1>0 DEF TypeOK
  <2> QED BY <1>0, <1>1, <1>2, <1>3, <2>1, RetryAssumption DEF StartedOK, Ended
<1>6. FreshOK'
  <2> SUFFICES ASSUME NEW q \in Pushes, pc'[q] = "insert", NEW w \in RowsOf(UserOf[q]),
                      w.by = q \/ w.by = After[q]
               PROVE  ~(w.what = Sent(q)'.what /\ w.at = Sent(q)'.when)
    BY <1>1 DEF FreshOK, RowsOf
  <2>1. CASE q = p
    BY <2>1, <1>2, <1>3 DEF Known, Sent
  <2>2. CASE q # p
    BY <2>2, <1>0, <1>3 DEF FreshOK, Sent
  <2> QED BY <2>1, <2>2
<1>7. RetryAddsNothing'
  BY <1>0, <1>1 DEF RetryAddsNothing, Duplicates, Whole, ItemOf
<1>8. LimitHolds'
  <2> SUFFICES ASSUME NEW u \in Users
               PROVE  Cardinality({w \in RowsOf(u) : pc[w.by] = "done"})' <= Limit
    BY DEF LimitHolds
  <2>1. \A w \in rows : w.by \in Pushes
    BY <1>0 DEF TypeOK
  <2>2. {w \in RowsOf(u) : pc[w.by] = "done"}' = {w \in RowsOf(u) : pc[w.by] = "done"}
    BY <1>1, <1>2, <1>3, <2>1 DEF RowsOf
  <2> QED BY <1>0, <2>2 DEF LimitHolds
<1>9. StandsOK'
  <2> SUFFICES ASSUME NEW q \in Pushes, pc'[q] \in {"check", "insert", "done"}, UserOf[q] \notin erased,
                      NEW k \in DOMAIN Batch[q], pc'[q] = "done" \/ k < next'[q]
               PROVE  Stands(UserOf[q], Batch[q][k])
    BY <1>1 DEF StandsOK, Stands, RowsOf
  <2>1. CASE pc[q] = "done" \/ k < next[q]
    BY <2>1, <1>0, <1>2, <1>3 DEF StandsOK
  <2>2. CASE ~(pc[q] = "done" \/ k < next[q])
    <3>1. q = p /\ Known(p) /\ k < next[p] + 1
      BY <2>2, <1>2, <1>3
    <3>2. k = next[p]
      <4>1. k \in Nat /\ next[p] \in Nat
        BY <3>1, <1>2, PushAssumption
      <4> QED BY <4>1, <3>1, <2>2
    <3>3. PICK w \in RowsOf(UserOf[p]) : w.what = Sent(p).what /\ w.at = Sent(p).when
      BY <3>1 DEF Known
    <3>4. w.at % 2 = 0 /\ Sent(p).when \in Nat
      BY <1>0, <1>2, <3>3, SentItem DEF TypeOK, RowsOf
    <3>5. w.at = Stored(Sent(p).when)
      BY <3>3, <3>4, StoredIsWhole
    <3> QED BY <3>1, <3>2, <3>3, <3>5 DEF Stands, Sent
  <2> QED BY <2>1, <2>2
<1>10. OwedOK'
  BY <1>0, <1>1 DEF OwedOK, Newer, RowsOf, Alone
<1> QED BY <1>4, <1>5, <1>6, <1>7, <1>8, <1>9, <1>10 DEF HInv

-----------------------------------------------------------------------------
(***************************************************************************)
(* More rows: what stands, and what is before an entry, stays.             *)
(***************************************************************************)
LEMMA MoreRows ==
  ASSUME NEW n, IsFiniteSet(rows), rows' = rows \cup {n}
  PROVE  /\ IsFiniteSet(rows')
         /\ \A S, T : S \subseteq T /\ T \subseteq rows' =>
              Cardinality(S) \in Nat /\ Cardinality(T) \in Nat /\ Cardinality(S) <= Cardinality(T)
<1>1. IsFiniteSet(rows')
  BY FS_AddElement
<1>2. ASSUME NEW S, NEW T, S \subseteq T, T \subseteq rows'
      PROVE  Cardinality(S) \in Nat /\ Cardinality(T) \in Nat /\ Cardinality(S) <= Cardinality(T)
  <2>1. IsFiniteSet(T) /\ IsFiniteSet(S)
    BY <1>1, <1>2, FS_Subset
  <2> QED BY <1>2, <2>1, FS_Subset, FS_CardinalityType
<1> QED BY <1>1, <1>2

LEMMA StandsWithMore ==
  ASSUME NEW n, IsFiniteSet(rows), rows' = rows \cup {n}, NEW u, NEW i, Stands(u, i)
  PROVE  Stands(u, i)'
<1> DEFINE Least(R) == {w \in R : w.user = u /\ w.at >= Stored(i.when)}
<1>1. {w \in RowsOf(u) : w.at >= Stored(i.when)} = Least(rows)
      /\ {w \in RowsOf(u) : w.at >= Stored(i.when)}' = Least(rows')
  BY DEF RowsOf, Stored
<1>2. Cardinality(Least(rows)) \in Nat /\ Cardinality(Least(rows')) \in Nat
      /\ Cardinality(Least(rows)) <= Cardinality(Least(rows'))
  <2>1. Least(rows) \subseteq Least(rows') /\ Least(rows') \subseteq rows'
    OBVIOUS
  <2> HIDE DEF Least
  <2> QED BY <2>1, MoreRows
<1>3. CASE \E w \in RowsOf(u) : w.what = i.what /\ w.at = Stored(i.when)
  BY <1>3 DEF Stands, RowsOf, Stored
<1>4. CASE Cardinality({w \in RowsOf(u) : w.at >= Stored(i.when)}) >= Limit
  <2> HIDE DEF Least
  <2>1. Cardinality(Least(rows)) >= Limit
    BY <1>1, <1>4
  <2>2. Cardinality(Least(rows')) >= Limit
    BY <2>1, <1>2, LimitAssumption
  <2> QED BY <2>2, <1>1 DEF Stands
<1> QED BY <1>3, <1>4 DEF Stands

LEMMA InsertHInv == ASSUME HInv, NEW p \in Pushes, Insert(p) PROVE HInv'
<1> USE DEF Insert, reading
<1> DEFINE n == RowFor(p)
<1>0. TypeOK /\ StartedOK /\ FreshOK /\ RetryAddsNothing /\ LimitHolds /\ StandsOK /\ OwedOK
  BY DEF HInv
<1>1. /\ rows' = rows \cup {n} /\ erased' = erased /\ listing' = listing /\ offset' = offset
      /\ owed' = {w \in owed \cap rows' : Alone(w, rows')}
  BY DEF Expected
<1>2. /\ pc[p] = "insert" /\ pc'[p] = "check" /\ \A q \in Pushes : q # p => pc'[q] = pc[q]
      /\ next[p] \in 1 .. Len(Batch[p]) /\ Len(Batch[p]) \in Nat
      /\ next'[p] = next[p] + 1 /\ \A q \in Pushes : q # p => next'[q] = next[q]
  BY <1>0, PushAssumption DEF TypeOK
<1>3. /\ n.by = p /\ n.nth = next[p] /\ n.user = UserOf[p] /\ n.what = Sent(p).what
      /\ n.at = Stored(Sent(p).when)
      /\ n \in [by : Pushes, nth : Nat, user : Users, what : Whats, at : Nat] /\ n.at % 2 = 0
  <2>1. Sent(p).what \in Whats /\ Sent(p).when \in Nat
    BY <1>0, <1>2, SentItem
  <2>2. Stored(Sent(p).when) \in Nat /\ Stored(Sent(p).when) % 2 = 0
    BY <2>1, StoredIsWhole
  <2> QED BY <1>2, <2>1, <2>2, PushAssumption DEF RowFor
<1> HIDE DEF n
<1>4. TypeOK'
  <2>1. next' \in [Pushes -> Nat] /\ pc' \in [Pushes -> {"new", "check", "insert", "done", "dropped"}]
    BY <1>0, <1>2 DEF TypeOK
  <2>2. \A q \in Pushes : /\ next'[q] \in 1 .. Len(Batch[q]) + 1
                          /\ pc'[q] = "insert" => next'[q] <= Len(Batch[q])
    BY <1>0, <1>2 DEF TypeOK
  <2>3. \A w \in rows' : /\ w \in [by : Pushes, nth : Nat, user : Users, what : Whats, at : Nat]
                        /\ w.at % 2 = 0
    BY <1>0, <1>1, <1>3 DEF TypeOK
  <2>4. owed' \subseteq RowsOf(Reader)'
    BY <1>0, <1>1 DEF TypeOK, RowsOf
  <2> QED BY <1>0, <1>1, <2>1, <2>2, <2>3, <2>4 DEF TypeOK
<1>5. StartedOK'
  <2>1. \A w \in rows : w.by \in Pushes
    BY <1>0 DEF TypeOK
  <2>2. IsFiniteSet(rows')
    BY <1>0, <1>1, MoreRows DEF StartedOK
  <2>3. \A w \in rows' : pc'[w.by] # "new" /\ w.user = UserOf[w.by]
    BY <1>0, <1>1, <1>2, <1>3, <2>1 DEF StartedOK
  <2>4. \A q \in Pushes : /\ pc'[q] = "new" => next'[q] = 1
                          /\ pc'[q] # "new" /\ After[q] # None => Ended(After[q])'
    BY <1>0, <1>2, RetryAssumption DEF StartedOK, Ended
  <2> QED BY <2>2, <2>3, <2>4 DEF StartedOK
<1>6. FreshOK'
  <2> SUFFICES ASSUME NEW q \in Pushes, pc'[q] = "insert", NEW w \in rows', w.user = UserOf[q],
                      w.by = q \/ w.by = After[q]
               PROVE  ~(w.what = Sent(q)'.what /\ w.at = Sent(q)'.when)
    BY <1>1 DEF FreshOK, RowsOf
  <2>1. q # p /\ pc[q] = "insert" /\ Sent(q)' = Sent(q)
    BY <1>2 DEF Sent
  <2>2. After[q] # p
    BY <1>0, <1>2, <2>1, RetryAssumption DEF StartedOK, Ended
  <2>3. w \in rows
    BY <1>1, <1>3, <2>1, <2>2
  <2> QED BY <1>0, <2>1, <2>3 DEF FreshOK, RowsOf
<1>7. RetryAddsNothing'
  <2>1. ASSUME NEW w \in rows, w.user = UserOf[p], w.what = n.what, w.at = n.at, Whole(n)
        PROVE  w.by # p /\ After[w.by] # p /\ After[p] # w.by
    <3>1. n.at = Sent(p).when
      BY <1>3, <2>1 DEF Whole, ItemOf, Sent
    <3>2. w.by # p /\ w.by # After[p]
      BY <1>0, <1>2, <1>3, <2>1, <3>1 DEF FreshOK, RowsOf
    <3>3. After[w.by] # p
      <4>1. w.by \in Pushes /\ pc[w.by] # "new"
        BY <1>0 DEF TypeOK, StartedOK
      <4> QED BY <1>0, <1>2, <4>1, RetryAssumption DEF StartedOK, Ended
    <3> QED BY <3>2, <3>3
  <2>2. SUFFICES ASSUME NEW w \in rows', NEW v \in rows', Duplicates(w, v), Whole(w), Whole(v)
                 PROVE  w.by # v.by /\ After[w.by] # v.by /\ After[v.by] # w.by
    BY DEF RetryAddsNothing, Duplicates, Whole, ItemOf
  <2>3. CASE w \in rows /\ v \in rows
    BY <1>0, <2>2, <2>3 DEF RetryAddsNothing
  <2>4. CASE w = n
    <3>1. v \in rows /\ v.user = UserOf[p] /\ v.what = n.what /\ v.at = n.at
      BY <1>1, <1>3, <2>2, <2>4 DEF Duplicates
    <3> QED BY <1>3, <2>1, <2>2, <2>4, <3>1
  <2>5. CASE v = n
    <3>1. w \in rows /\ w.user = UserOf[p] /\ w.what = n.what /\ w.at = n.at
      BY <1>1, <1>3, <2>2, <2>5 DEF Duplicates
    <3> QED BY <1>3, <2>1, <2>2, <2>5, <3>1
  <2> QED BY <1>1, <2>3, <2>4, <2>5
<1>8. LimitHolds'
  <2> SUFFICES ASSUME NEW u \in Users
               PROVE  Cardinality({w \in RowsOf(u) : pc[w.by] = "done"})' <= Limit
    BY DEF LimitHolds
  <2>1. \A w \in rows : w.by \in Pushes
    BY <1>0 DEF TypeOK
  <2>2. {w \in RowsOf(u) : pc[w.by] = "done"}' = {w \in RowsOf(u) : pc[w.by] = "done"}
    BY <1>1, <1>2, <1>3, <2>1 DEF RowsOf
  <2> QED BY <1>0, <2>2 DEF LimitHolds
<1>9. StandsOK'
  <2> SUFFICES ASSUME NEW q \in Pushes, pc'[q] \in {"check", "insert", "done"}, UserOf[q] \notin erased,
                      NEW k \in DOMAIN Batch[q], pc'[q] = "done" \/ k < next'[q]
               PROVE  Stands(UserOf[q], Batch[q][k])'
    BY <1>1 DEF StandsOK
  <2>1. CASE pc[q] = "done" \/ k < next[q]
    <3>1. Stands(UserOf[q], Batch[q][k])
      BY <2>1, <1>0, <1>2 DEF StandsOK
    <3> QED BY <3>1, <1>0, <1>1, StandsWithMore DEF StartedOK
  <2>2. CASE ~(pc[q] = "done" \/ k < next[q])
    <3>1. q = p /\ k < next[p] + 1
      BY <2>2, <1>2
    <3>2. k = next[p]
      <4>1. k \in Nat /\ next[p] \in Nat
        BY <3>1, <1>2, PushAssumption
      <4> QED BY <4>1, <3>1, <2>2
    <3>3. n \in rows' /\ n.user = UserOf[q] /\ n.what = Batch[q][k].what /\ n.at = Stored(Batch[q][k].when)
      BY <1>1, <1>3, <3>1, <3>2 DEF Sent
    <3> QED BY <3>3 DEF Stands, RowsOf, Stored
  <2> QED BY <2>1, <2>2
<1>10. OwedOK'
  <2>1. \A w \in owed' : w \in owed /\ w \in RowsOf(Reader)' /\ Alone(w, rows)'
    BY <1>0, <1>1 DEF OwedOK, RowsOf, Alone
  <2>2. ASSUME NEW w \in owed' PROVE Cardinality(Newer(w)') >= offset
    <3>1. Newer(w) \subseteq Newer(w)' /\ Newer(w)' \subseteq rows'
      BY <1>1 DEF Newer, RowsOf
    <3>2. Cardinality(Newer(w)) \in Nat /\ Cardinality(Newer(w)') \in Nat
          /\ Cardinality(Newer(w)) <= Cardinality(Newer(w)')
      BY <1>0, <1>1, <3>1, MoreRows DEF StartedOK
    <3>3. Cardinality(Newer(w)) >= offset /\ offset \in Nat
      BY <1>0, <2>1 DEF OwedOK, TypeOK
    <3> QED BY <3>2, <3>3
  <2> QED BY <1>0, <1>1, <2>1, <2>2 DEF OwedOK
<1> QED BY <1>4, <1>5, <1>6, <1>7, <1>8, <1>9, <1>10 DEF HInv

-----------------------------------------------------------------------------
(***************************************************************************)
(* Fewer rows, because the user u removes some.                            *)
(***************************************************************************)
LEMMA EraseHInv ==
  ASSUME HInv, NEW u \in Users, rows' \subseteq rows, \A w \in rows : w.user # u => w \in rows',
         erased' = erased \cup {u}, owed' = (IF u = Reader THEN {} ELSE owed),
         UNCHANGED <<pc, next, reading>>
  PROVE  HInv'
<1> USE DEF reading
<1>0. TypeOK /\ StartedOK /\ FreshOK /\ RetryAddsNothing /\ LimitHolds /\ StandsOK /\ OwedOK
  BY DEF HInv
<1>1. \A v : v # u => RowsOf(v)' = RowsOf(v)
  BY DEF RowsOf
<1>2. TypeOK'
  <2>1. owed' \subseteq RowsOf(Reader)'
    BY <1>0, <1>1 DEF TypeOK
  <2> QED BY <1>0, <2>1 DEF TypeOK
<1>3. StartedOK'
  BY <1>0, FS_Subset DEF StartedOK, Ended
<1>4. FreshOK'
  BY <1>0 DEF FreshOK, RowsOf, Sent
<1>5. RetryAddsNothing'
  BY <1>0 DEF RetryAddsNothing, Duplicates, Whole, ItemOf
<1>6. LimitHolds'
  <2> SUFFICES ASSUME NEW v \in Users
               PROVE  Cardinality({w \in RowsOf(v) : pc[w.by] = "done"})' <= Limit
    BY DEF LimitHolds
  <2> DEFINE A == {w \in RowsOf(v) : pc[w.by] = "done"}
             B == {w \in RowsOf(v)' : pc'[w.by] = "done"}
  <2>1. B \subseteq A /\ A \subseteq rows
    BY DEF RowsOf
  <2>2. Cardinality(A) <= Limit
    BY <1>0 DEF LimitHolds
  <2> HIDE DEF A, B
  <2>3. IsFiniteSet(rows)
    BY <1>0 DEF StartedOK
  <2>4. Cardinality(B) <= Cardinality(A) /\ Cardinality(B) \in Nat /\ Cardinality(A) \in Nat
    BY <2>1, <2>3, RowsFinite, RowsCounted
  <2>5. Cardinality(B) <= Limit
    BY <2>2, <2>4, LimitAssumption
  <2> QED BY <2>5 DEF B
<1>7. StandsOK'
  <2> SUFFICES ASSUME NEW q \in Pushes, pc[q] \in {"check", "insert", "done"}, UserOf[q] \notin erased',
                      NEW k \in DOMAIN Batch[q], pc[q] = "done" \/ k < next[q]
               PROVE  Stands(UserOf[q], Batch[q][k])'
    BY DEF StandsOK
  <2>1. Stands(UserOf[q], Batch[q][k]) /\ UserOf[q] # u
    BY <1>0 DEF StandsOK
  <2> QED BY <2>1, <1>1 DEF Stands, Stored
<1>8. OwedOK'
  <2>1. CASE u = Reader
    BY <2>1, <1>0 DEF OwedOK
  <2>2. CASE u # Reader
    <3>1. RowsOf(Reader)' = RowsOf(Reader) /\ owed' = owed
      BY <2>2, <1>1
    <3>2. \A w \in owed : Alone(w, rows)' /\ Newer(w)' = Newer(w)
      BY <1>0, <3>1 DEF OwedOK, Alone, Newer
    <3> QED BY <1>0, <3>1, <3>2 DEF OwedOK
  <2> QED BY <2>1, <2>2
<1> QED BY <1>2, <1>3, <1>4, <1>5, <1>6, <1>7, <1>8 DEF HInv

LEMMA DeleteItemHInv == ASSUME HInv, NEW w \in rows, DeleteItem(w) PROVE HInv'
<1>1. w.user \in Users
  BY DEF HInv, TypeOK
<1> QED BY <1>1, EraseHInv DEF DeleteItem

LEMMA ClearHInv == ASSUME HInv, NEW u \in Users, Clear(u) PROVE HInv'
<1>1. rows' \subseteq rows /\ \A w \in rows : w.user # u => w \in rows'
  BY DEF Clear, RowsOf
<1> QED BY <1>1, EraseHInv DEF Clear

-----------------------------------------------------------------------------
(***************************************************************************)
(* The trim: if a row w of T is left out of what is kept, then as many     *)
(* rows as the limit are kept, and none of them is older.                  *)
(***************************************************************************)
LEMMA TrimmedIsOld ==
  ASSUME IsFiniteSet(rows), NEW u, NEW S, Kept(S, u), NEW w \in RowsOf(u) \ S
  PROVE  Cardinality(S) = Limit /\ \A v \in S : v.at >= w.at
<1>1. IsFiniteSet(RowsOf(u)) /\ S \subseteq RowsOf(u) /\ S # RowsOf(u)
  BY RowsFinite DEF RowsOf, Kept
<1>2. Cardinality(S) < Cardinality(RowsOf(u))
  <2>1. Cardinality(S) <= Cardinality(RowsOf(u)) /\ Cardinality(S) # Cardinality(RowsOf(u))
    BY <1>1, FS_Subset
  <2>2. Cardinality(S) \in Nat /\ Cardinality(RowsOf(u)) \in Nat
    BY <1>1, FS_Subset, FS_CardinalityType
  <2> QED BY <2>1, <2>2
<1>3. Cardinality(S) = Fewest(Cardinality(RowsOf(u)), Limit)
  BY DEF Kept, Latest
<1>4. Cardinality(S) = Limit
  <2>1. Cardinality(RowsOf(u)) \in Nat
    BY <1>1, FS_CardinalityType
  <2> QED BY <1>2, <1>3, <2>1 DEF Fewest
<1> QED BY <1>4 DEF Kept, Latest

LEMMA KeptWithinLimit ==
  ASSUME IsFiniteSet(rows), NEW u, NEW S, Kept(S, u)
  PROVE  Cardinality(S) \in Nat /\ Cardinality(S) <= Limit
<1>1. Cardinality(RowsOf(u)) \in Nat
  BY RowsFinite DEF RowsOf
<1> QED BY <1>1, LimitAssumption DEF Kept, Latest, Fewest

LEMMA StandsAfterTrim ==
  ASSUME TypeOK, IsFiniteSet(rows), NEW u, NEW S, Kept(S, u), RowsOf(u)' = S, NEW i \in Item, Stands(u, i)
  PROVE  Stands(u, i)'
<1> DEFINE t == Stored(i.when)
           Least(R) == {w \in R : w.at >= t}
<1>0. t \in Nat /\ i.when \in Nat
  BY StoredIsWhole DEF Item
<1>1. S \subseteq RowsOf(u) /\ RowsOf(u) \subseteq rows /\ \A w \in RowsOf(u) : w.at \in Nat
  BY DEF Kept, RowsOf, TypeOK
<1> HIDE DEF t
<1>2. ASSUME NEW w \in RowsOf(u) \ S, w.at >= t
      PROVE  Cardinality(Least(S)) >= Limit
  <2>1. Cardinality(S) = Limit /\ \A v \in S : v.at >= w.at
    BY TrimmedIsOld
  <2>2. Least(S) = S
    BY <1>0, <1>1, <1>2, <2>1
  <2> QED BY <2>1, <2>2, LimitAssumption
<1>3. CASE \E w \in RowsOf(u) : w.what = i.what /\ w.at = t
  <2>1. PICK w \in RowsOf(u) : w.what = i.what /\ w.at = t
    BY <1>3
  <2>2. CASE w \in S
    BY <2>1, <2>2 DEF Stands, t, Stored
  <2>3. CASE w \notin S
    <3>1. Cardinality(Least(S)) >= Limit
      BY <1>0, <1>2, <2>1, <2>3
    <3> QED BY <3>1 DEF Stands, t, Stored
  <2> QED BY <2>2, <2>3
<1>4. CASE Cardinality(Least(RowsOf(u))) >= Limit
  <2>1. CASE Least(RowsOf(u)) \subseteq S
    <3>1. Least(S) = Least(RowsOf(u))
      BY <1>1, <2>1
    <3>2. Cardinality(Least(S)) >= Limit
      BY <1>4, <3>1
    <3> QED BY <3>2 DEF Stands, t, Stored
  <2>2. CASE ~(Least(RowsOf(u)) \subseteq S)
    <3>1. Cardinality(Least(S)) >= Limit
      BY <1>2, <2>2
    <3> QED BY <3>1 DEF Stands, t, Stored
  <2> QED BY <2>1, <2>2
<1> QED BY <1>3, <1>4 DEF Stands, t

LEMMA TrimHInv == ASSUME HInv, NEW p \in Pushes, Trim(p) PROVE HInv'
<1> USE DEF reading
<1> DEFINE u == UserOf[p]
<1>0. TypeOK /\ StartedOK /\ FreshOK /\ RetryAddsNothing /\ LimitHolds /\ StandsOK /\ OwedOK
  BY DEF HInv
<1>f. IsFiniteSet(rows)
  BY <1>0 DEF StartedOK
<1>1. PICK S \in SUBSET RowsOf(u) : Kept(S, u) /\ rows' = S \cup (rows \ RowsOf(u))
  BY DEF Trim
<1>2. /\ next' = next /\ erased' = erased /\ listing' = listing /\ offset' = offset
      /\ owed' = {w \in owed \cap rows' : Alone(w, rows')}
      /\ pc[p] = "check" /\ next[p] > Len(Batch[p])
  BY DEF Trim, Expected
<1>3. /\ pc'[p] = "done" /\ \A q \in Pushes : q # p => pc'[q] = pc[q]
      /\ pc' \in [Pushes -> {"new", "check", "insert", "done", "dropped"}]
  BY <1>0 DEF Trim, TypeOK
<1>4. rows' \subseteq rows /\ RowsOf(u)' = S /\ \A v : v # u => RowsOf(v)' = RowsOf(v)
  BY <1>1 DEF RowsOf
<1>5. TypeOK'
  <2>1. owed' \subseteq RowsOf(Reader)'
    BY <1>0, <1>2 DEF TypeOK, RowsOf
  <2> QED BY <1>0, <1>2, <1>3, <1>4, <2>1 DEF TypeOK
<1>6. StartedOK'
  <2>1. \A w \in rows : w.by \in Pushes
    BY <1>0 DEF TypeOK
  <2>2. IsFiniteSet(rows')
    BY <1>f, <1>4, FS_Subset
  <2> QED BY <1>0, <1>2, <1>3, <1>4, <2>1, <2>2, RetryAssumption DEF StartedOK, Ended
<1>7. FreshOK'
  BY <1>0, <1>2, <1>3, <1>4 DEF FreshOK, RowsOf, Sent
<1>8. RetryAddsNothing'
  BY <1>0, <1>4 DEF RetryAddsNothing, Duplicates, Whole, ItemOf
<1>9. LimitHolds'
  <2> SUFFICES ASSUME NEW v \in Users
               PROVE  Cardinality({w \in RowsOf(v) : pc[w.by] = "done"})' <= Limit
    BY DEF LimitHolds
  <2> DEFINE B == {w \in RowsOf(v)' : pc'[w.by] = "done"}
  <2>1. CASE v = u
    <3>1. B \subseteq S /\ S \subseteq rows
      BY <1>1, <1>4, <2>1 DEF RowsOf
    <3> HIDE DEF B
    <3>2. Cardinality(B) <= Cardinality(S) /\ Cardinality(B) \in Nat /\ Cardinality(S) \in Nat
      BY <1>f, <3>1, RowsFinite, RowsCounted
    <3>3. Cardinality(S) <= Limit
      BY <1>f, <1>1, KeptWithinLimit
    <3>4. Cardinality(B) <= Limit
      BY <3>2, <3>3, LimitAssumption
    <3> QED BY <3>4 DEF B
  <2>2. CASE v # u
    <3>1. \A w \in RowsOf(v) : w.by \in Pushes /\ w.by # p
      BY <1>0, <2>2 DEF TypeOK, StartedOK, RowsOf
    <3>2. B = {w \in RowsOf(v) : pc[w.by] = "done"}
      BY <1>3, <1>4, <2>2, <3>1
    <3> QED BY <1>0, <3>2 DEF LimitHolds
  <2> QED BY <2>1, <2>2
<1>10. StandsOK'
  <2> SUFFICES ASSUME NEW q \in Pushes, pc'[q] \in {"check", "insert", "done"}, UserOf[q] \notin erased,
                      NEW k \in DOMAIN Batch[q], pc'[q] = "done" \/ k < next[q]
               PROVE  Stands(UserOf[q], Batch[q][k])'
    BY <1>2 DEF StandsOK
  <2>1. k \in 1 .. Len(Batch[q]) /\ Len(Batch[q]) \in Nat /\ Batch[q][k] \in Item
    BY PushAssumption
  <2>2. Stands(UserOf[q], Batch[q][k])
    <3>1. pc[q] \in {"check", "insert", "done"} /\ (pc[q] = "done" \/ k < next[q])
      BY <1>0, <1>2, <1>3, <2>1 DEF TypeOK
    <3> QED BY <1>0, <3>1 DEF StandsOK
  <2>3. CASE UserOf[q] = u
    BY <1>0, <1>f, <1>1, <1>4, <2>1, <2>2, <2>3, StandsAfterTrim
  <2>4. CASE UserOf[q] # u
    BY <1>4, <2>2, <2>4 DEF Stands, Stored
  <2> QED BY <2>3, <2>4
<1>11. OwedOK'
  <2>1. \A w \in owed' : w \in owed /\ w \in RowsOf(Reader)' /\ Alone(w, rows)'
    BY <1>0, <1>2 DEF OwedOK, RowsOf, Alone
  <2>2. ASSUME NEW w \in owed' PROVE Newer(w)' = Newer(w)
    <3>1. CASE Reader = u
      <4>1. w \in S /\ w \in RowsOf(u)
        BY <1>1, <1>4, <2>1, <3>1
      <4>2. \A v \in RowsOf(u) \ S : w.at >= v.at
        BY <1>1, <4>1 DEF Kept, Latest
      <4>3. \A v \in RowsOf(u) : v.at \in Nat
        BY <1>0 DEF TypeOK, RowsOf
      <4> QED BY <1>1, <1>4, <3>1, <4>1, <4>2, <4>3 DEF Newer
    <3>2. CASE Reader # u
      BY <1>4, <3>2 DEF Newer
    <3> QED BY <3>1, <3>2
  <2>3. \A w \in owed' : Cardinality(Newer(w)') >= offset
    BY <1>0, <2>1, <2>2 DEF OwedOK
  <2> QED BY <1>0, <1>2, <2>1, <2>3 DEF OwedOK
<1> QED BY <1>5, <1>6, <1>7, <1>8, <1>9, <1>10, <1>11 DEF HInv

-----------------------------------------------------------------------------
(***************************************************************************)
(* A page: T is what has been read with it, S what was before it.          *)
(***************************************************************************)
LEMMA FirstWithin ==
  ASSUME IsFiniteSet(rows), NEW S, S \subseteq RowsOf(Reader), NEW k \in Nat, First(S, k)
  PROVE  /\ IsFiniteSet(S) /\ Cardinality(S) \in Nat /\ Cardinality(S) <= k
         /\ S # RowsOf(Reader) => Cardinality(S) = k
<1>1. IsFiniteSet(RowsOf(Reader)) /\ Cardinality(RowsOf(Reader)) \in Nat
  BY RowsFinite DEF RowsOf
<1>2. IsFiniteSet(S) /\ Cardinality(S) \in Nat
  BY <1>1, FS_Subset, FS_CardinalityType
<1>3. Cardinality(S) = Fewest(Cardinality(RowsOf(Reader)), k)
  BY DEF First
<1>4. Cardinality(S) <= k
  BY <1>1, <1>3 DEF Fewest
<1>5. ASSUME S # RowsOf(Reader) PROVE Cardinality(S) = k
  <2>1. Cardinality(S) # Cardinality(RowsOf(Reader))
    BY <1>1, <1>5, FS_Subset
  <2> QED BY <1>1, <1>3, <2>1 DEF Fewest
<1> QED BY <1>2, <1>4, <1>5

\* An entry with as many before it as have been read is not among them.
LEMMA OwedAhead ==
  ASSUME TypeOK, IsFiniteSet(rows), NEW S, S \subseteq RowsOf(Reader), First(S, offset),
         NEW w \in RowsOf(Reader), Cardinality(Newer(w)) >= offset
  PROVE  w \notin S
<1> SUFFICES ASSUME w \in S PROVE FALSE
  OBVIOUS
<1>1. offset \in Nat /\ \A v \in RowsOf(Reader) : v.at \in Nat
  BY DEF TypeOK, RowsOf
<1>2. IsFiniteSet(S) /\ Cardinality(S) \in Nat /\ Cardinality(S) <= offset
  BY <1>1, FirstWithin
<1>3. Newer(w) \subseteq S /\ w \notin Newer(w)
  BY <1>1 DEF First, Newer
<1>4. IsFiniteSet(Newer(w)) /\ Cardinality(Newer(w)) \in Nat
      /\ Cardinality(Newer(w)) <= Cardinality(S)
  BY <1>2, <1>3, FS_Subset, FS_CardinalityType
<1>5. Cardinality(Newer(w)) # Cardinality(S)
  BY <1>2, <1>3, FS_Subset
<1> QED BY <1>1, <1>2, <1>4, <1>5

LEMMA PageHInv == ASSUME HInv, Page PROVE HInv'
<1>0. TypeOK /\ StartedOK /\ FreshOK /\ RetryAddsNothing /\ LimitHolds /\ StandsOK /\ OwedOK
  BY DEF HInv
<1>1. IsFiniteSet(rows) /\ offset \in Nat /\ PageSize \in Nat \ {0} /\ offset + PageSize \in Nat
  BY <1>0, LimitAssumption DEF StartedOK, TypeOK
<1>2. rows' = rows /\ pc' = pc /\ next' = next /\ erased' = erased /\ offset' = offset + PageSize
      /\ listing # "done"
  BY DEF Page
<1> DEFINE Before == IF listing = "new" THEN {w \in RowsOf(Reader) : Alone(w, rows)} ELSE owed
<1>3. PICK S, T \in SUBSET RowsOf(Reader) :
        /\ S \subseteq T /\ First(S, offset) /\ First(T, offset + PageSize)
        /\ listing' = IF Cardinality(T \ S) < PageSize THEN "done" ELSE "paging"
        /\ owed' = Before \ (T \ S)
  BY DEF Page
<1>4. ASSUME NEW w \in Before
      PROVE  w \in RowsOf(Reader) /\ Alone(w, rows) /\ w \notin S
  <2>1. CASE listing = "new"
    <3>1. Cardinality(S) <= 0 /\ Cardinality(S) \in Nat /\ IsFiniteSet(S)
      BY <1>0, <1>1, <1>3, <2>1, FirstWithin DEF OwedOK
    <3>2. S = {}
      BY <3>1, FS_EmptySet
    <3> QED BY <2>1, <3>2
  <2>2. CASE listing # "new"
    <3>1. w \in RowsOf(Reader) /\ Alone(w, rows) /\ Cardinality(Newer(w)) >= offset
      BY <1>0, <2>2 DEF OwedOK
    <3> QED BY <1>0, <1>1, <1>3, <3>1, OwedAhead
  <2> QED BY <2>1, <2>2
<1> HIDE DEF Before
<1>5. ASSUME NEW w \in owed'
      PROVE  /\ w \in RowsOf(Reader) /\ Alone(w, rows)
             /\ Cardinality(Newer(w)) >= offset + PageSize
             /\ Cardinality(T \ S) >= PageSize
  <2>1. w \in RowsOf(Reader) /\ Alone(w, rows) /\ w \notin T
    BY <1>3, <1>4
  <2>2. IsFiniteSet(T) /\ Cardinality(T) = offset + PageSize
    BY <1>1, <1>3, <2>1, FirstWithin
  <2>3. IsFiniteSet(S) /\ Cardinality(S) \in Nat /\ Cardinality(S) <= offset
    BY <1>1, <1>3, FirstWithin
  <2>4. T \subseteq Newer(w)
    <3>1. \A v \in T : v \in RowsOf(Reader) /\ v.at >= w.at /\ v # w
      BY <1>3, <2>1 DEF First
    <3>2. \A v \in T : v.at # w.at /\ v.at \in Nat /\ w.at \in Nat
      BY <1>0, <2>1, <3>1 DEF Alone, RowsOf, TypeOK
    <3> QED BY <3>1, <3>2 DEF Newer
  <2>5. IsFiniteSet(Newer(w)) /\ Cardinality(Newer(w)) \in Nat
        /\ Cardinality(T) <= Cardinality(Newer(w))
    <3>1. Newer(w) \subseteq rows
      BY DEF Newer, RowsOf
    <3> QED BY <1>1, <2>4, <3>1, RowsFinite, RowsCounted
  <2>6. Cardinality(T \ S) = Cardinality(T) - Cardinality(S)
    <3>1. Cardinality(T \ S) = Cardinality(T) - Cardinality(T \cap S)
      BY <2>2, FS_Difference
    <3>2. T \cap S = S
      BY <1>3
    <3> QED BY <3>1, <3>2
  <2> QED BY <1>1, <2>1, <2>2, <2>3, <2>5, <2>6
<1>6. OwedOK'
  <2>1. listing' # "new"
    BY <1>3
  <2>2. ASSUME listing' = "done" PROVE owed' = {}
    <3>1. Cardinality(T \ S) < PageSize
      BY <1>3, <2>2
    <3>2. IsFiniteSet(T \ S)
      BY <1>1, <1>3, RowsFinite DEF RowsOf
    <3>3. Cardinality(T \ S) \in Nat
      BY <3>2, FS_CardinalityType
    <3> QED BY <1>1, <1>5, <3>1, <3>3
  <2>3. \A w \in owed' : /\ w \in RowsOf(Reader)' /\ Alone(w, rows)'
                        /\ Cardinality(Newer(w)') >= offset'
    BY <1>2, <1>5 DEF RowsOf, Alone, Newer
  <2> QED BY <2>1, <2>2, <2>3 DEF OwedOK
<1>7. TypeOK'
  <2>1. owed' \subseteq RowsOf(Reader)'
    BY <1>2, <1>5 DEF RowsOf
  <2> QED BY <1>0, <1>1, <1>2, <1>3, <2>1 DEF TypeOK
<1>8. StartedOK' /\ FreshOK' /\ RetryAddsNothing'
  BY <1>0, <1>2 DEF StartedOK, Ended, FreshOK, RowsOf, Sent, RetryAddsNothing, Duplicates, Whole, ItemOf
<1>9. LimitHolds' /\ StandsOK'
  BY <1>0, <1>2 DEF LimitHolds, RowsOf, StandsOK, Stands
<1> QED BY <1>6, <1>7, <1>8, <1>9 DEF HInv

-----------------------------------------------------------------------------
LEMMA StutterHInv == ASSUME HInv, UNCHANGED vars PROVE HInv'
<1>0. TypeOK /\ StartedOK /\ FreshOK /\ RetryAddsNothing /\ LimitHolds /\ StandsOK /\ OwedOK
  BY DEF HInv
<1>1. rows' = rows /\ pc' = pc /\ next' = next /\ erased' = erased /\ listing' = listing
      /\ offset' = offset /\ owed' = owed
  BY DEF vars, reading
<1>2. TypeOK' /\ StartedOK' /\ FreshOK' /\ RetryAddsNothing'
  BY <1>0, <1>1 DEF TypeOK, StartedOK, Ended, FreshOK, RowsOf, Sent, RetryAddsNothing,
                    Duplicates, Whole, ItemOf
<1>3. LimitHolds' /\ StandsOK' /\ OwedOK'
  BY <1>0, <1>1 DEF LimitHolds, RowsOf, StandsOK, Stands, OwedOK, Newer, Alone
<1> QED BY <1>2, <1>3 DEF HInv

LEMMA HInvStep == HInv /\ [Next]_vars => HInv'
<1> SUFFICES ASSUME HInv, [Next]_vars PROVE HInv'
  OBVIOUS
<1>1. ASSUME NEW p \in Pushes, Start(p) \/ Check(p) \/ Insert(p) \/ Trim(p) \/ Drop(p)
      PROVE  HInv'
  BY <1>1, StartHInv, CheckHInv, InsertHInv, TrimHInv, DropHInv
<1>2. ASSUME NEW w \in rows, DeleteItem(w) PROVE HInv'
  BY <1>2, DeleteItemHInv
<1>3. ASSUME NEW u \in Users, Clear(u) PROVE HInv'
  BY <1>3, ClearHInv
<1>4. CASE Page
  BY <1>4, PageHInv
<1>5. CASE UNCHANGED vars
  BY <1>5, StutterHInv
<1> QED BY <1>1, <1>2, <1>3, <1>4, <1>5 DEF Next, Finished

THEOREM HInvHolds == Spec => []HInv
  BY HInvInit, HInvStep, PTL DEF Spec

(***************************************************************************)
(* The rows and the pushes keep their types.                               *)
(***************************************************************************)
THEOREM TypeCorrect == Spec => []TypeOK
  BY HInvHolds, PTL DEF HInv

(***************************************************************************)
(* A push that is sent again adds no row that the first one has added,     *)
(* wherever it was dropped.                                                *)
(***************************************************************************)
THEOREM RetriesAddNothing == Spec => []RetryAddsNothing
  BY HInvHolds, PTL DEF HInv

(***************************************************************************)
(* The answered pushes of a user never leave more entries than the limit.  *)
(***************************************************************************)
THEOREM LimitIsKept == Spec => []LimitHolds
  BY HInvHolds, PTL DEF HInv

(***************************************************************************)
(* An item of an answered push is there, or as many that are not older     *)
(* are, or the user has removed entries.                                   *)
(***************************************************************************)
THEOREM RecentEntriesAreKept == Spec => []RecentIsKept
<1>1. HInv => RecentIsKept
  BY DEF HInv, StandsOK, Stands, RecentIsKept
<1> QED BY <1>1, HInvHolds, PTL

(***************************************************************************)
(* Reading page after page misses nothing that is there all along.         *)
(***************************************************************************)
THEOREM ListingsAreComplete == Spec => []ListingComplete
<1>1. HInv => ListingComplete
  BY DEF HInv, OwedOK, ListingComplete
<1> QED BY <1>1, HInvHolds, PTL

-----------------------------------------------------------------------------
(***************************************************************************)
(* Two pushes of a user have both found nothing of one execution, and one  *)
(* is about to insert what the other has looked for.                       *)
(***************************************************************************)
BothFoundNothing ==
  \E p, q \in Pushes :
    /\ p # q /\ UserOf[p] = UserOf[q] /\ pc[p] = "insert" /\ pc[q] = "insert"
    /\ RowFor(q).what = Sent(p).what /\ RowFor(q).at = Sent(p).when

\* What the SELECT did not find is still not there.
StillMissing == \A p \in Pushes : pc[p] = "insert" => ~Known(p)

\* One of two equal entries was sent with a fraction of a second.
OnlyFractionsRepeat == \A w, v \in rows : Duplicates(w, v) => ~(Whole(w) /\ Whole(v))

DedupInv == StillMissing /\ OnlyFractionsRepeat

LEMMA DedupInit == Init => DedupInv
  BY DEF Init, DedupInv, StillMissing, OnlyFractionsRepeat

LEMMA DedupStep == HInv /\ ~BothFoundNothing /\ DedupInv /\ [Next]_vars => DedupInv'
<1> SUFFICES ASSUME HInv, ~BothFoundNothing, DedupInv, [Next]_vars PROVE DedupInv'
  OBVIOUS
<1>0. TypeOK /\ StartedOK /\ StillMissing /\ OnlyFractionsRepeat
  BY DEF HInv, DedupInv
\* Where rows only go, nothing that was missing appears.
<1>1. ASSUME rows' \subseteq rows,
             \A p \in Pushes : pc'[p] = "insert" => /\ next'[p] = next[p]
                                                   /\ (pc[p] = "insert" \/ ~Known(p))
      PROVE  DedupInv'
  BY <1>0, <1>1 DEF DedupInv, StillMissing, OnlyFractionsRepeat, Known, RowsOf, Sent, Duplicates,
                    Whole, ItemOf
<1>2. ASSUME NEW p \in Pushes, Start(p) \/ Check(p) \/ Trim(p) \/ Drop(p) PROVE DedupInv'
  <2>1. rows' \subseteq rows
    BY <1>2 DEF Start, Check, Trim, Kept, Drop, RowsOf
  <2>2. \A q \in Pushes : pc'[q] = "insert" => /\ next'[q] = next[q]
                                              /\ (pc[q] = "insert" \/ ~Known(q))
    BY <1>0, <1>2 DEF Start, Check, Trim, Drop, TypeOK
  <2> QED BY <1>1, <2>1, <2>2
<1>3. ASSUME NEW p \in Pushes, Insert(p) PROVE DedupInv'
  <2> DEFINE n == RowFor(p)
  <2>1. /\ rows' = rows \cup {n} /\ pc[p] = "insert" /\ ~Known(p)
        /\ n.user = UserOf[p] /\ n.by = p /\ n.nth = next[p] /\ n.what = Sent(p).what
    BY <1>0, <1>3 DEF Insert, RowFor, StillMissing
  <2>2. \A q \in Pushes : pc'[q] = "insert" => q # p /\ pc[q] = "insert" /\ next'[q] = next[q]
    BY <1>0, <1>3 DEF Insert, TypeOK
  <2>3. StillMissing'
    <3> SUFFICES ASSUME NEW q \in Pushes, pc'[q] = "insert", NEW w \in rows', w.user = UserOf[q]
                 PROVE  ~(w.what = Sent(q)'.what /\ w.at = Sent(q)'.when)
      BY DEF StillMissing, Known, RowsOf
    <3>1. q # p /\ pc[q] = "insert" /\ Sent(q)' = Sent(q)
      BY <2>2 DEF Sent
    <3>2. CASE w \in rows
      BY <1>0, <3>1, <3>2 DEF StillMissing, Known, RowsOf
    <3>3. CASE w = n
      BY <2>1, <3>1, <3>3 DEF BothFoundNothing
    <3> QED BY <2>1, <3>2, <3>3
  <2>4. ASSUME NEW w \in rows, w.user = n.user, w.what = n.what, w.at = n.at PROVE ~Whole(n)
    <3>1. ~(w.what = Sent(p).what /\ w.at = Sent(p).when)
      BY <2>1, <2>4 DEF Known, RowsOf
    <3> QED BY <2>1, <2>4, <3>1 DEF Whole, ItemOf, Sent
  <2> HIDE DEF n
  <2>5. OnlyFractionsRepeat'
    <3> SUFFICES ASSUME NEW w \in rows', NEW v \in rows', Duplicates(w, v)
                 PROVE  ~(Whole(w) /\ Whole(v))
      BY DEF OnlyFractionsRepeat, Duplicates, Whole, ItemOf
    <3>1. CASE w \in rows /\ v \in rows
      BY <1>0, <3>1 DEF OnlyFractionsRepeat
    <3>2. CASE w = n
      BY <2>1, <2>4, <3>2 DEF Duplicates
    <3>3. CASE v = n
      BY <2>1, <2>4, <3>3 DEF Duplicates
    <3> QED BY <2>1, <3>1, <3>2, <3>3
  <2> QED BY <2>3, <2>5 DEF DedupInv
<1>4. ASSUME NEW w \in rows, DeleteItem(w) PROVE DedupInv'
  BY <1>1, <1>4 DEF DeleteItem
<1>5. ASSUME NEW u \in Users, Clear(u) PROVE DedupInv'
  BY <1>1, <1>5 DEF Clear
<1>6. CASE Page
  BY <1>1, <1>6 DEF Page
<1>7. CASE UNCHANGED vars
  BY <1>1, <1>7 DEF vars
<1> QED BY <1>2, <1>3, <1>4, <1>5, <1>6, <1>7 DEF Next, Finished

LEMMA DedupHolds == Spec /\ []~BothFoundNothing => []DedupInv
  BY HInvHolds, DedupInit, DedupStep, PTL DEF Spec

(***************************************************************************)
(* The duplicate check fails in these two ways only: as long as no two     *)
(* pushes look for one execution before either inserts it, of two equal    *)
(* entries one was sent with a fraction of a second.                       *)
(***************************************************************************)
THEOREM RepeatsHaveFractions == Spec /\ []~BothFoundNothing => []OnlyFractionsRepeat
  BY DedupHolds, PTL DEF DedupInv

(***************************************************************************)
(* Clients that send whole seconds, and whose pushes do not meet like      *)
(* that, have no execution in their history twice.                         *)
(***************************************************************************)
THEOREM WholeSecondsDeduplicate ==
  ASSUME \A p \in Pushes : \A k \in DOMAIN Batch[p] : Batch[p][k].when % 2 = 0
  PROVE  Spec /\ []~BothFoundNothing => []Deduplicated
<1> DEFINE RowsWhole == \A w \in rows : Whole(w)
<1>1. Init => RowsWhole
  BY DEF Init
<1>2. HInv /\ RowsWhole /\ [Next]_vars => RowsWhole'
  <2> SUFFICES ASSUME HInv, RowsWhole, [Next]_vars PROVE RowsWhole'
    OBVIOUS
  <2>1. ASSUME rows' \subseteq rows PROVE RowsWhole'
    BY <2>1 DEF Whole, ItemOf
  <2>2. ASSUME NEW p \in Pushes, Insert(p) PROVE RowsWhole'
    <3>1. next[p] \in 1 .. Len(Batch[p]) /\ Batch[p] \in Seq(Item) /\ Sent(p).when \in Nat
      <4>1. TypeOK /\ pc[p] = "insert"
        BY <2>2 DEF HInv, Insert
      <4>2. next[p] <= Len(Batch[p])
        BY <4>1 DEF TypeOK
      <4>3. Sent(p).when \in Nat
        BY <4>1, <4>2, SentItem
      <4>4. next[p] \in 1 .. Len(Batch[p]) /\ Batch[p] \in Seq(Item)
        BY <4>1, <4>2, PushAssumption DEF TypeOK
      <4> QED BY <4>3, <4>4
    <3>2. Sent(p).when % 2 = 0
      BY <3>1 DEF Sent
    <3>3. Whole(RowFor(p))
      BY <3>1, <3>2, StoredIsWhole DEF Whole, ItemOf, RowFor, Sent
    <3> QED BY <2>2, <3>3 DEF Insert, Whole, ItemOf
  <2>3. ASSUME NEW p \in Pushes, Start(p) \/ Check(p) \/ Trim(p) \/ Drop(p) PROVE RowsWhole'
    BY <2>1, <2>3 DEF Start, Check, Trim, Kept, Drop, RowsOf
  <2>4. ASSUME NEW w \in rows, DeleteItem(w) PROVE RowsWhole'
    BY <2>1, <2>4 DEF DeleteItem
  <2>5. ASSUME NEW u \in Users, Clear(u) PROVE RowsWhole'
    BY <2>1, <2>5 DEF Clear
  <2>6. CASE Page \/ UNCHANGED vars
    BY <2>1, <2>6 DEF Page, vars
  <2> QED BY <2>2, <2>3, <2>4, <2>5, <2>6 DEF Next, Finished
<1>3. Spec => []RowsWhole
  BY <1>1, <1>2, HInvHolds, PTL DEF Spec
<1>4. RowsWhole /\ OnlyFractionsRepeat => Deduplicated
  BY DEF OnlyFractionsRepeat, Deduplicated
<1> QED BY <1>3, <1>4, RepeatsHaveFractions, PTL

=============================================================================
