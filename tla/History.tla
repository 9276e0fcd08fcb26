------------------------------- MODULE History -------------------------------
(***************************************************************************)
(* The query history of src/history/handler.rs: push_history takes a batch *)
(* from a client, skips the items that are there already, inserts the rest *)
(* one by one and trims the user's history; a user deletes an entry or     *)
(* clears all of them; list_history is asked for one page after another.   *)
(*                                                                         *)
(* Every SQL statement is a step of its own and there is no transaction:   *)
(* pushes of several devices interleave, and a push may be dropped between *)
(* two statements and sent again.                                          *)
(*                                                                         *)
(* An item is what was executed (query_text and connection_name) and when, *)
(* in half seconds: clients send executed_at with a fraction, the column   *)
(* keeps whole seconds.  A row is named by the push that inserted it and   *)
(* its place in the batch.                                                 *)
(***************************************************************************)
EXTENDS Naturals, Sequences, FiniteSets

CONSTANTS
  Users,
  Pushes,  \* POST /history requests
  UserOf,  \* who sends each
  Batch,   \* its items, in order
  After,   \* the push it repeats: it is sent when that one has ended
  Whats,   \* (query_text, connection_name) pairs
  Limit,   \* how many entries are kept per user (2000 in the code)
  Reader,  \* a user with a device that reads the whole history, in pages
  PageSize, \* their limit parameter (500 in the code if there is none)
  None

Item == [what : Whats, when : Nat]

ASSUME PushAssumption == /\ UserOf \in [Pushes -> Users]
                         /\ Batch \in [Pushes -> Seq(Item)]
ASSUME RetryAssumption ==
  /\ None \notin Pushes
  /\ After \in [Pushes -> Pushes \cup {None}]
  /\ \A p \in Pushes : After[p] # None => UserOf[After[p]] = UserOf[p]
ASSUME LimitAssumption == Limit \in Nat \ {0} /\ PageSize \in Nat \ {0}

VARIABLES
  rows,   \* query_history
  pc,     \* where each push_history is
  next,   \* the item of req.items it is at
  erased, \* users who have deleted something themselves
  listing, \* how far the reader has got: "new", "paging" or "done"
  offset, \* the offset parameter of its next page
  owed    \* the entries it may still expect (see Expected)

reading == <<listing, offset>>
vars    == <<rows, pc, next, erased, reading, owed>>

-----------------------------------------------------------------------------
RowsOf(u) == {w \in rows : w.user = u}

\* A DATETIME without a fraction: MySQL rounds to the nearest second.
Stored(t) == ((t + 1) \div 2) * 2

Sent(p) == Batch[p][next[p]]

\* Entries of one second come in no particular order, which may differ from
\* one query to the next: a page may miss one of them.
Alone(w, S) == \A v \in S : v.user = w.user /\ v.at = w.at => v = w

\* What the reader may still expect: entries that were there when it asked for
\* its first page and have been since, alone in their second, and were not in a
\* page yet - unless the user removes entries in the meantime.
Expected == {w \in owed \cap rows' : Alone(w, rows')}

\* A push that has been answered or given up.
Ended(p) == pc[p] \in {"done", "dropped"}

Init ==
  /\ rows   = {}
  /\ pc     = [p \in Pushes |-> "new"]
  /\ next   = [p \in Pushes |-> 1]
  /\ erased = {}
  /\ listing = "new"
  /\ offset = 0
  /\ owed   = {}

-----------------------------------------------------------------------------
(* push_history                                                            *)

\* An empty batch is answered at once.
Start(p) ==
  /\ pc[p] = "new"
  /\ After[p] # None => Ended(After[p])
  /\ pc' = [pc EXCEPT ![p] = IF Batch[p] = <<>> THEN "done" ELSE "check"]
  /\ UNCHANGED <<rows, next, erased, reading, owed>>

\* Variants: the SELECT looks for the time only, or finds no row of this push.
KnownByTime(p)  == \E w \in RowsOf(UserOf[p]) : w.at = Sent(p).when
KnownByOther(p) ==
  \E w \in RowsOf(UserOf[p]) : w.by # p /\ w.what = Sent(p).what /\ w.at = Sent(p).when

\* SELECT ... AND query_text = ? AND connection_name = ? AND executed_at = ?
\* compares the column with the time as it was sent, fraction and all.
Known(p) ==
  \E w \in RowsOf(UserOf[p]) : w.what = Sent(p).what /\ w.at = Sent(p).when

Check(p) ==
  /\ pc[p] = "check" /\ next[p] <= Len(Batch[p])
  /\ IF Known(p)
     THEN next' = [next EXCEPT ![p] = @ + 1] /\ UNCHANGED pc
     ELSE pc' = [pc EXCEPT ![p] = "insert"] /\ UNCHANGED next
  /\ UNCHANGED <<rows, erased, reading, owed>>

RowFor(p) == [by |-> p, nth |-> next[p], user |-> UserOf[p],
              what |-> Sent(p).what, at |-> Stored(Sent(p).when)]

\* Variant: the loop counts the item as well.
InsertSkips(p) ==
  /\ pc[p] = "insert"
  /\ rows' = rows \cup {RowFor(p)}
  /\ next' = [next EXCEPT ![p] = @ + 2]
  /\ pc' = [pc EXCEPT ![p] = "check"]
  /\ owed' = Expected
  /\ UNCHANGED <<erased, reading>>

Insert(p) ==
  /\ pc[p] = "insert"
  /\ rows' = rows \cup {RowFor(p)}
  /\ next' = [next EXCEPT ![p] = @ + 1]
  /\ pc' = [pc EXCEPT ![p] = "check"]
  /\ owed' = Expected
  /\ UNCHANGED <<erased, reading>>

Fewest(n, m) == IF n < m THEN n ELSE m

\* Variants: one too many is kept; the oldest are kept.
LatestAndOne(S, T) ==
  /\ Cardinality(S) = Fewest(Cardinality(T), Limit + 1)
  /\ \A w \in S, v \in T \ S : w.at >= v.at
Oldest(S, T) ==
  /\ Cardinality(S) = Fewest(Cardinality(T), Limit)
  /\ \A w \in S, v \in T \ S : w.at <= v.at

\* SELECT id ... ORDER BY executed_at DESC LIMIT: S is what it may return of
\* T, ties being in no particular order.
Latest(S, T) ==
  /\ Cardinality(S) = Fewest(Cardinality(T), Limit)
  /\ \A w \in S, v \in T \ S : w.at >= v.at

\* DELETE ... WHERE user_id = ? AND id NOT IN (...)
Kept(S, u) == S \subseteq RowsOf(u) /\ Latest(S, RowsOf(u))

Trim(p) ==
  /\ pc[p] = "check" /\ next[p] > Len(Batch[p])
  /\ \E S \in SUBSET RowsOf(UserOf[p]) :
       /\ Kept(S, UserOf[p])
       /\ rows' = S \cup (rows \ RowsOf(UserOf[p]))
  /\ pc' = [pc EXCEPT ![p] = "done"]
  /\ owed' = Expected
  /\ UNCHANGED <<next, erased, reading>>

\* A statement fails, the client hangs up or the server stops.
Drop(p) ==
  /\ pc[p] \in {"check", "insert"}
  /\ pc' = [pc EXCEPT ![p] = "dropped"]
  /\ UNCHANGED <<rows, next, erased, reading, owed>>

-----------------------------------------------------------------------------
\* delete_history_item, with the id of an entry of the user's own list.
DeleteItem(w) ==
  /\ rows' = rows \ {w}
  /\ erased' = erased \cup {w.user}
  /\ owed' = IF w.user = Reader THEN {} ELSE owed
  /\ UNCHANGED <<pc, next, reading>>

Clear(u) ==
  /\ RowsOf(u) # {}
  /\ rows' = rows \ RowsOf(u)
  /\ erased' = erased \cup {u}
  /\ owed' = IF u = Reader THEN {} ELSE owed
  /\ UNCHANGED <<pc, next, reading>>

-----------------------------------------------------------------------------
(* list_history, without since.                                            *)

\* Variant: the oldest come first.
FirstAscending(S, n) ==
  /\ Cardinality(S) = Fewest(Cardinality(RowsOf(Reader)), n)
  /\ \A w \in S, v \in RowsOf(Reader) \ S : w.at <= v.at

\* S may be the first n of SELECT ... ORDER BY executed_at DESC.
First(S, n) ==
  /\ Cardinality(S) = Fewest(Cardinality(RowsOf(Reader)), n)
  /\ \A w \in S, v \in RowsOf(Reader) \ S : w.at >= v.at

\* LIMIT PageSize OFFSET offset; a page that is not full is the last one.
Page ==
  /\ listing # "done"
  /\ \E S, T \in SUBSET RowsOf(Reader) :
       /\ S \subseteq T /\ First(S, offset) /\ First(T, offset + PageSize)
       /\ listing' = IF Cardinality(T \ S) < PageSize THEN "done" ELSE "paging"
       /\ owed' = (IF listing = "new" THEN {w \in RowsOf(Reader) : Alone(w, rows)} ELSE owed)
                  \ (T \ S)
  /\ offset' = offset + PageSize
  /\ UNCHANGED <<rows, pc, next, erased>>

Finished ==
  /\ \A p \in Pushes : Ended(p)
  /\ UNCHANGED vars

Next ==
  \/ \E p \in Pushes : Start(p) \/ Check(p) \/ Insert(p) \/ Trim(p) \/ Drop(p)
  \/ \E w \in rows : DeleteItem(w)
  \/ \E u \in Users : Clear(u)
  \/ Page
  \/ Finished

Spec == Init /\ [][Next]_vars

-----------------------------------------------------------------------------
(***************************************************************************)
(* Type invariant: the rows of query_history hold whole seconds, and a     *)
(* push is at one of its items or just past the last.                      *)
(***************************************************************************)
TypeOK ==
  /\ \A w \in rows : /\ w \in [by : Pushes, nth : Nat, user : Users, what : Whats, at : Nat]
                      /\ w.at % 2 = 0
  /\ pc \in [Pushes -> {"new", "check", "insert", "done", "dropped"}]
  /\ next \in [Pushes -> Nat]
  /\ \A p \in Pushes : next[p] \in 1 .. Len(Batch[p]) + 1
  /\ \A p \in Pushes : pc[p] = "insert" => next[p] <= Len(Batch[p])
  /\ erased \subseteq Users
  /\ listing \in {"new", "paging", "done"} /\ offset \in Nat
  /\ owed \subseteq RowsOf(Reader)

\* The item the row was inserted for.
ItemOf(w) == Batch[w.by][w.nth]

Whole(w) == ItemOf(w).when = w.at

Duplicates(w, v) == w # v /\ w.user = v.user /\ w.what = v.what /\ w.at = v.at

(***************************************************************************)
(* Sending a push again is harmless, wherever the first one was dropped,   *)
(* and so is an item that is twice in a batch.  Two rows for one execution *)
(* come from two pushes that run at the same time, or from a time that was *)
(* sent with a fraction and so never equals what is stored.                *)
(***************************************************************************)
RetryAddsNothing ==
  \A w, v \in rows :
    Duplicates(w, v) /\ Whole(w) /\ Whole(v) =>
      w.by # v.by /\ After[w.by] # v.by /\ After[v.by] # w.by

(***************************************************************************)
(* The limit holds for what has been answered: a user is over it only by   *)
(* entries of pushes that are under way or were dropped before the trim.   *)
(***************************************************************************)
LimitHolds ==
  \A u \in Users : Cardinality({w \in RowsOf(u) : pc[w.by] = "done"}) <= Limit

(***************************************************************************)
(* Nothing recent is lost: an item of an answered push is in the history   *)
(* unless there are as many entries as the limit that are not older, or    *)
(* the user has deleted something.  It must survive the trims of other     *)
(* pushes, and being skipped because of an entry that stands for it.       *)
(***************************************************************************)
RecentIsKept ==
  \A p \in Pushes : pc[p] = "done" /\ UserOf[p] \notin erased =>
    \A k \in DOMAIN Batch[p] :
      LET i == Batch[p][k]
      IN \/ \E w \in RowsOf(UserOf[p]) : w.what = i.what /\ w.at = Stored(i.when)
         \/ Cardinality({w \in RowsOf(UserOf[p]) : w.at >= Stored(i.when)}) >= Limit

(***************************************************************************)
(* Reading page after page misses nothing that is there all along, though  *)
(* pushes and trims go on in between: what they insert moves entries to    *)
(* later pages only, and the trim takes away the oldest, which are last.   *)
(***************************************************************************)
ListingComplete == listing = "done" => owed = {}

-----------------------------------------------------------------------------
(***************************************************************************)
(* handler.rs:86, "Dedup by (user_id, query_text, connection_name,         *)
(* executed_at)": no execution is in a user's history twice.  Violated:    *)
(* the SELECT and the INSERT are two statements and no constraint of the   *)
(* table stops two pushes that both found nothing.                         *)
(***************************************************************************)
Deduplicated == \A w, v \in rows : ~Duplicates(w, v)

=============================================================================
