------------------------------ MODULE MCLogins ------------------------------
(***************************************************************************)
(* Three logins with two accounts, the first of which is called back       *)
(* twice; or four logins with three accounts, one after the other, which   *)
(* is what it takes to link two accounts by a third one.                   *)
(***************************************************************************)
EXTENDS LoginsRefinement, TLC

CONSTANTS c1, c2, c3, c4, c5, l1, l2, l3, l4, g, h, k, e1, e2, e3, e4

CalledBack ==
  [c \in Callbacks |-> IF c \in {c1, c2} THEN l1 ELSE IF c = c3 THEN l2 ELSE IF c = c4 THEN l3 ELSE l4]

\* Bounds: the third account has an address of its own, and no part in it, nor
\* has the fourth login; only the first login expires, and the third one starts
\* when the second one's callback has ended.  Or there are two addresses, and
\* the logins come one after the other and succeed.
TwoAccounts ==
  /\ nonce[l4] = "unborn" /\ had[k] = {e4} /\ e4 \notin had[g] \cup had[h]
  /\ \A c \in Callbacks : identity[c] # None => identity[c].account # k
  /\ \A l \in LoginIds \ {l1} : nonce[l] # "expired"
  /\ nonce[l3] # "unborn" => pc[c3] \in {"signed_in", "failed"}

InOrder == <<l1, l2, l3, l4>>

OneByOne ==
  /\ Cardinality(UNION {had[a] : a \in Accounts}) <= 2
  /\ \A a \in Accounts : e4 \notin had[a]
  /\ \A c, d \in Callbacks : {pc[c], pc[d]} \cap {"new", "signed_in", "failed"} = {} => c = d
  /\ \A i \in 1 .. 3 : nonce[InOrder[i + 1]] # "unborn" => nonce[InOrder[i]] = "deleted"
  /\ \A c \in Callbacks \ {c2} : pc[c] # "failed"

FewAtOnce == TwoAccounts \/ OneByOne

Symmetry == Permutations({g, h}) \cup Permutations({e1, e2, e3})
=============================================================================
