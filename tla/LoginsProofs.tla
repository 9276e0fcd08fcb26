---------------------------- MODULE LoginsProofs ----------------------------
(***************************************************************************)
(* Proofs about Logins, for any logins, callbacks, accounts, addresses and *)
(* bound on changes.                                                       *)
(*                                                                         *)
(* The inductive invariant says what holds of a callback from the step on  *)
(* that achieves it: its nonce is deleted (NonceOK), it is the only one of *)
(* its login with an identity (CodeOK), it has a row of users (RowOK).     *)
(* LinkOK is what keeps people apart: whoever has a session of a row, or   *)
(* is about to write it, is linked with the account the row belongs to.    *)
(* It survives the row's passing on because being linked is an equivalence *)
(* (LinkedSym, LinkedTrans) that addresses can only add to (LinkedStands). *)
(***************************************************************************)
EXTENDS LoginsRefinement, TLAPS

HasIdentity(c) == pc[c] \in {"exchanged", "update", "insert", "upserted", "signed_in"}
HasRow(c)      == pc[c] \in {"update", "upserted", "signed_in"}

NonceOK ==
  \A c \in Callbacks : pc[c] = "consumed" \/ HasIdentity(c) => nonce[For[c]] = "deleted"

CodeOK ==
  /\ \A c \in Callbacks : HasIdentity(c) => spent[For[c]] /\ identity[c] \in Identity
  /\ \A c, d \in Callbacks : HasIdentity(c) /\ HasIdentity(d) /\ For[c] = For[d] => c = d

SessionOK ==
  \A s \in sessions : /\ pc[s.by] = "signed_in"
                      /\ s.account = identity[s.by].account /\ s.user = matched[s.by]

RowOK ==
  \A c \in Callbacks :
    /\ HasRow(c) => matched[c] \in Rows
    /\ pc[c] \in {"new", "valid", "consumed", "exchanged", "update", "insert"} => c \notin Rows

AddressOK ==
  /\ \A a \in Accounts : email[a] \in had[a]
  /\ \A k \in Rows : users[k].email \in had[users[k].account]
  /\ \A c \in Callbacks : HasIdentity(c) => identity[c].email \in had[identity[c].account]

LinkOK ==
  \A c \in Callbacks : HasRow(c) => Linked(identity[c].account, users[matched[c]].account)

LInv ==
  /\ TypeOK /\ NonceOK /\ CodeOK /\ SessionOK /\ RowOK
  /\ OneUserPerIdentity /\ AddressOK /\ LinkOK

-----------------------------------------------------------------------------
USE DEF HasIdentity, HasRow, Rows, Phase, accountVars

(***************************************************************************)
(* Linked is an equivalence on accounts, and once linked is always linked. *)
(***************************************************************************)
LEMMA LinkedRefl == ASSUME NEW a PROVE Linked(a, a)
  BY DEF Linked

LEMMA LinkedTrans ==
  ASSUME NEW a, NEW b, NEW c, Linked(a, b), Linked(b, c)
  PROVE  Linked(a, c)
  BY DEF Linked

\* What is left when a closed set is taken out is closed.
LEMMA LinkedSym ==
  ASSUME NEW a \in Accounts, NEW b \in Accounts, Linked(a, b)
  PROVE  Linked(b, a)
<1> SUFFICES ASSUME NEW S \in SUBSET Accounts, b \in S, Closed(S), a \notin S
             PROVE  FALSE
  BY DEF Linked
<1>1. \A x, y : Share(x, y) => Share(y, x)
  BY DEF Share
<1>2. Closed(Accounts \ S)
  <2> SUFFICES ASSUME NEW x \in Accounts \ S, NEW y \in Accounts, Share(x, y), y \in S
               PROVE  FALSE
    BY DEF Closed
  <2>1. Share(y, x)
    BY <1>1
  <2> QED BY <2>1 DEF Closed
<1>3. b \in Accounts \ S
  BY <1>2 DEF Linked
<1> QED BY <1>3

LEMMA ShareLinks ==
  ASSUME NEW a \in Accounts, NEW b \in Accounts, Share(a, b)
  PROVE  Linked(a, b)
  BY DEF Linked, Closed

LEMMA LinkedStands ==
  ASSUME NEW a, NEW b, \A x \in Accounts : had[x] \subseteq had[x]', Linked(a, b)
  PROVE  Linked(a, b)'
<1>1. \A x, y \in Accounts : Share(x, y) => Share(x, y)'
  BY DEF Share
<1>2. \A S \in SUBSET Accounts : Closed(S)' => Closed(S)
  BY <1>1 DEF Closed
<1> QED BY <1>2 DEF Linked

\* Steps that leave the rows, the addresses and those who have a row alone.
LEMMA LinkOKKept ==
  ASSUME LinkOK, UNCHANGED <<users, matched>>,
         \A x \in Accounts : had[x] \subseteq had[x]',
         \A d \in Callbacks : HasRow(d)' => HasRow(d) /\ identity'[d] = identity[d]
  PROVE  LinkOK'
<1> SUFFICES ASSUME NEW d \in Callbacks, HasRow(d)'
             PROVE  Linked(identity[d].account, users[matched[d]].account)'
  BY DEF LinkOK
<1> DEFINE a == identity[d].account
           b == users[matched[d]].account
<1>1. Linked(a, b) /\ a' = a /\ b' = b
  BY DEF LinkOK
<1> HIDE DEF a, b
<1>2. \A x, y : Linked(x, y) => Linked(x, y)'
  BY LinkedStands
<1>3. Linked(a, b)'
  BY <1>1, <1>2
<1> QED BY <1>3 DEF a, b

LEMMA LInvInit == Init => LInv
  BY ForAssumption, NoneAssumption
  DEF Init, LInv, TypeOK, NonceOK, CodeOK, SessionOK, RowOK, OneUserPerIdentity, AddressOK,
      LinkOK

LEMMA ChangeEmailLInv ==
  ASSUME LInv, NEW a \in Accounts, NEW e \in Addresses, ChangeEmail(a, e)
  PROVE  LInv'
<1> USE ForAssumption, NoneAssumption DEF LInv, ChangeEmail
<1>1. TypeOK'
  BY DEF TypeOK, CodeOK, RowOK
<1>2. NonceOK'
  BY DEF TypeOK, NonceOK
<1>3. CodeOK'
  BY DEF TypeOK, CodeOK, Identity
<1>4. SessionOK'
  BY DEF TypeOK, SessionOK
<1>5. RowOK'
  BY DEF TypeOK, RowOK, CodeOK
<1>6. OneUserPerIdentity'
  BY DEF TypeOK, CodeOK, RowOK, OneUserPerIdentity
<1>7. AddressOK'
  BY DEF TypeOK, Identity, CodeOK, RowOK, AddressOK
<1>8. LinkOK'
  BY LinkOKKept DEF TypeOK
<1> QED BY <1>1, <1>2, <1>3, <1>4, <1>5, <1>6, <1>7, <1>8

LEMMA RedirectLInv ==
  ASSUME LInv, NEW l \in LoginIds, Redirect(l)
  PROVE  LInv'
<1> USE ForAssumption, NoneAssumption DEF LInv, Redirect
<1>1. TypeOK'
  BY DEF TypeOK, CodeOK, RowOK
<1>2. NonceOK'
  BY DEF TypeOK, NonceOK
<1>3. CodeOK'
  BY DEF TypeOK, CodeOK, Identity
<1>4. SessionOK'
  BY DEF TypeOK, SessionOK
<1>5. RowOK'
  BY DEF TypeOK, RowOK, CodeOK
<1>6. OneUserPerIdentity'
  BY DEF TypeOK, CodeOK, RowOK, OneUserPerIdentity
<1>7. AddressOK'
  BY DEF TypeOK, Identity, CodeOK, RowOK, AddressOK
<1>8. LinkOK'
  BY LinkOKKept DEF TypeOK
<1> QED BY <1>1, <1>2, <1>3, <1>4, <1>5, <1>6, <1>7, <1>8

LEMMA ExpireLInv ==
  ASSUME LInv, NEW l \in LoginIds, Expire(l)
  PROVE  LInv'
<1> USE ForAssumption, NoneAssumption DEF LInv, Expire
<1>1. TypeOK'
  BY DEF TypeOK, CodeOK, RowOK
<1>2. NonceOK'
  BY DEF TypeOK, NonceOK
<1>3. CodeOK'
  BY DEF TypeOK, CodeOK, Identity
<1>4. SessionOK'
  BY DEF TypeOK, SessionOK
<1>5. RowOK'
  BY DEF TypeOK, RowOK, CodeOK
<1>6. OneUserPerIdentity'
  BY DEF TypeOK, CodeOK, RowOK, OneUserPerIdentity
<1>7. AddressOK'
  BY DEF TypeOK, Identity, CodeOK, RowOK, AddressOK
<1>8. LinkOK'
  BY LinkOKKept DEF TypeOK
<1> QED BY <1>1, <1>2, <1>3, <1>4, <1>5, <1>6, <1>7, <1>8

LEMMA ValidateStateLInv ==
  ASSUME LInv, NEW c \in Callbacks, ValidateState(c)
  PROVE  LInv'
<1> USE ForAssumption, NoneAssumption DEF LInv, ValidateState
<1>1. TypeOK'
  BY DEF TypeOK, CodeOK, RowOK
<1>2. NonceOK'
  BY DEF TypeOK, NonceOK
<1>3. CodeOK'
  BY DEF TypeOK, CodeOK, Identity
<1>4. SessionOK'
  BY DEF TypeOK, SessionOK
<1>5. RowOK'
  BY DEF TypeOK, RowOK, CodeOK
<1>6. OneUserPerIdentity'
  BY DEF TypeOK, CodeOK, RowOK, OneUserPerIdentity
<1>7. AddressOK'
  BY DEF TypeOK, Identity, CodeOK, RowOK, AddressOK
<1>8. LinkOK'
  BY LinkOKKept DEF TypeOK
<1> QED BY <1>1, <1>2, <1>3, <1>4, <1>5, <1>6, <1>7, <1>8

LEMMA ConsumeStateLInv ==
  ASSUME LInv, NEW c \in Callbacks, ConsumeState(c)
  PROVE  LInv'
<1> USE ForAssumption, NoneAssumption DEF LInv, ConsumeState, Deleted
<1>1. TypeOK'
  BY DEF TypeOK, CodeOK, RowOK
<1>2. NonceOK'
  BY DEF TypeOK, NonceOK
<1>3. CodeOK'
  BY DEF TypeOK, CodeOK, Identity
<1>4. SessionOK'
  BY DEF TypeOK, SessionOK
<1>5. RowOK'
  BY DEF TypeOK, RowOK, CodeOK
<1>6. OneUserPerIdentity'
  BY DEF TypeOK, CodeOK, RowOK, OneUserPerIdentity
<1>7. AddressOK'
  BY DEF TypeOK, Identity, CodeOK, RowOK, AddressOK
<1>8. LinkOK'
  BY LinkOKKept DEF TypeOK
<1> QED BY <1>1, <1>2, <1>3, <1>4, <1>5, <1>6, <1>7, <1>8

LEMMA ExchangeCodeLInv ==
  ASSUME LInv, NEW c \in Callbacks, NEW a \in Accounts, ExchangeCode(c, a)
  PROVE  LInv'
<1> USE ForAssumption, NoneAssumption DEF LInv, ExchangeCode, Honours
<1>0. [account |-> a, email |-> email[a]] \in Identity
  BY DEF TypeOK, Identity
<1>1. TypeOK'
  BY <1>0 DEF TypeOK
<1>2. NonceOK'
  BY DEF TypeOK, NonceOK
<1>3. CodeOK'
  <2>1. /\ identity'[c] \in Identity /\ spent'[For[c]] /\ ~spent[For[c]]
        /\ \A l \in LoginIds : spent[l] => spent'[l]
        /\ \A d \in Callbacks \ {c} : pc'[d] = pc[d] /\ identity'[d] = identity[d]
    BY <1>0 DEF TypeOK
  <2>2. \A d \in Callbacks : HasIdentity(d) => spent[For[d]]
    BY DEF CodeOK
  <2> QED BY <2>1, <2>2 DEF CodeOK
<1>4. SessionOK'
  BY DEF TypeOK, SessionOK
<1>5. RowOK'
  BY DEF TypeOK, RowOK, CodeOK
<1>6. OneUserPerIdentity'
  BY DEF TypeOK, CodeOK, RowOK, OneUserPerIdentity
<1>7. AddressOK'
  BY DEF TypeOK, Identity, CodeOK, RowOK, AddressOK
<1>8. LinkOK'
  BY LinkOKKept DEF TypeOK
<1> QED BY <1>1, <1>2, <1>3, <1>4, <1>5, <1>6, <1>7, <1>8

LEMMA ExchangeFailsLInv ==
  ASSUME LInv, NEW c \in Callbacks, ExchangeFails(c)
  PROVE  LInv'
<1> USE ForAssumption, NoneAssumption DEF LInv, ExchangeFails
<1>1. TypeOK'
  BY DEF TypeOK, CodeOK, RowOK
<1>2. NonceOK'
  BY DEF TypeOK, NonceOK
<1>3. CodeOK'
  BY DEF TypeOK, CodeOK, Identity
<1>4. SessionOK'
  BY DEF TypeOK, SessionOK
<1>5. RowOK'
  BY DEF TypeOK, RowOK, CodeOK
<1>6. OneUserPerIdentity'
  BY DEF TypeOK, CodeOK, RowOK, OneUserPerIdentity
<1>7. AddressOK'
  BY DEF TypeOK, Identity, CodeOK, RowOK, AddressOK
<1>8. LinkOK'
  BY LinkOKKept DEF TypeOK
<1> QED BY <1>1, <1>2, <1>3, <1>4, <1>5, <1>6, <1>7, <1>8

LEMMA LookupUserLInv ==
  ASSUME LInv, NEW c \in Callbacks, LookupUser(c)
  PROVE  LInv'
<1> USE ForAssumption, NoneAssumption DEF LInv, LookupUser, MatchesUser
<1>1. TypeOK'
  BY DEF TypeOK, CodeOK, RowOK
<1>2. NonceOK'
  BY DEF TypeOK, NonceOK
<1>3. CodeOK'
  BY DEF TypeOK, CodeOK, Identity
<1>4. SessionOK'
  BY DEF TypeOK, SessionOK
<1>5. RowOK'
  BY DEF TypeOK, RowOK, CodeOK
<1>6. OneUserPerIdentity'
  BY DEF TypeOK, CodeOK, RowOK, OneUserPerIdentity
<1>7. AddressOK'
  BY DEF TypeOK, Identity, CodeOK, RowOK, AddressOK
<1>8. LinkOK'
  <2>1. UNCHANGED <<identity, users, had>> /\ identity[c].account \in Accounts
    BY DEF CodeOK, Identity
  <2>2. \A d \in Callbacks \ {c} : pc'[d] = pc[d] /\ matched'[d] = matched[d]
    BY DEF TypeOK
  <2>3. \A x, y : Linked(x, y) => Linked(x, y)'
    BY <2>1, LinkedStands
  <2>4. ASSUME NEW d \in Callbacks \ {c}, HasRow(d)'
        PROVE  Linked(identity[d].account, users[matched[d]].account)'
    <3>1. Linked(identity[d].account, users[matched[d]].account)
      BY <2>2, <2>4 DEF LinkOK
    <3>2. identity'[d].account = identity[d].account
          /\ users'[matched'[d]].account = users[matched[d]].account
      BY <2>1, <2>2
    <3> HIDE DEF LookupUser, LInv
    <3> QED BY <2>3, <3>1, <3>2
  <2>5. ASSUME HasRow(c)'
        PROVE  Linked(identity[c].account, users[matched[c]].account)'
    <3>1. PICK k \in Rows : MatchesUser(c, k) /\ matched' = [matched EXCEPT ![c] = k]
      BY <2>5 DEF TypeOK
    <3>2. matched'[c] = k /\ users[k].account \in Accounts
      BY <3>1 DEF TypeOK, Identity
    <3>3. CASE users[k].account = identity[c].account
      BY <2>1, <2>3, <3>2, <3>3, LinkedRefl
    <3>4. CASE users[k].email = identity[c].email
      <4>1. Share(identity[c].account, users[k].account)
        BY <3>4 DEF AddressOK, Share
      <4>2. Linked(identity[c].account, users[k].account)
        BY <2>1, <3>2, <4>1, ShareLinks
      <4> QED BY <2>1, <2>3, <3>2, <4>2
    <3> QED BY <3>1, <3>3, <3>4
  <2> QED BY <2>4, <2>5 DEF LinkOK
<1> QED BY <1>1, <1>2, <1>3, <1>4, <1>5, <1>6, <1>7, <1>8

LEMMA UpdateUserLInv ==
  ASSUME LInv, NEW c \in Callbacks, UpdateUser(c)
  PROVE  LInv'
<1> USE ForAssumption, NoneAssumption DEF LInv, UpdateUser, Conflicts
<1>1. TypeOK'
  BY DEF TypeOK, CodeOK, RowOK
<1>2. NonceOK'
  BY DEF TypeOK, NonceOK
<1>3. CodeOK'
  BY DEF TypeOK, CodeOK, Identity
<1>4. SessionOK'
  BY DEF TypeOK, SessionOK
<1>5. RowOK'
  BY DEF TypeOK, RowOK, CodeOK
<1>6. OneUserPerIdentity'
  BY DEF TypeOK, CodeOK, RowOK, OneUserPerIdentity
<1>7. AddressOK'
  BY DEF TypeOK, Identity, CodeOK, RowOK, AddressOK
<1>8. LinkOK'
  <2>1. CASE \E k \in Rows \ {matched[c]} : Conflicts(c, k)
    BY <2>1, LinkOKKept DEF TypeOK
  <2>2. CASE ~\E k \in Rows \ {matched[c]} : Conflicts(c, k)
    <3>1. /\ users'[matched[c]] = identity[c]
          /\ \A k \in Callbacks \ {matched[c]} : users'[k] = users[k]
          /\ \A d \in Callbacks : HasRow(d)' => HasRow(d)
          /\ UNCHANGED <<identity, matched, had>>
      BY <2>2 DEF TypeOK, RowOK
    <3>2. \A d \in Callbacks :
            HasRow(d) => /\ matched[d] \in Callbacks /\ identity[d].account \in Accounts
                         /\ users[matched[d]].account \in Accounts
                         /\ Linked(identity[d].account, users[matched[d]].account)
      BY DEF RowOK, CodeOK, TypeOK, Identity, LinkOK
    <3>3. HasRow(c)
      OBVIOUS
    <3>4. \A x, y : Linked(x, y) => Linked(x, y)'
      BY <3>1, LinkedStands
    <3> HIDE DEF LInv, UpdateUser
    <3>5. ASSUME NEW d \in Callbacks, HasRow(d)'
          PROVE  Linked(identity[d].account, users[matched[d]].account)'
      <4>0. HasRow(d)
        BY <3>1, <3>5
      <4>1. CASE matched[d] = matched[c]
        <5>1. Linked(users[matched[c]].account, identity[c].account)
          BY <3>2, <3>3, LinkedSym
        <5>2. Linked(identity[d].account, identity[c].account)
          BY <3>2, <4>0, <4>1, <5>1, LinkedTrans
        <5> QED BY <3>1, <3>4, <4>1, <5>2
      <4>2. CASE matched[d] # matched[c]
        BY <3>1, <3>2, <3>4, <4>0, <4>2
      <4> QED BY <4>1, <4>2
    <3> QED BY <3>5 DEF LinkOK
  <2> QED BY <2>1, <2>2
<1> QED BY <1>1, <1>2, <1>3, <1>4, <1>5, <1>6, <1>7, <1>8

LEMMA InsertUserLInv ==
  ASSUME LInv, NEW c \in Callbacks, InsertUser(c)
  PROVE  LInv'
<1> USE ForAssumption, NoneAssumption DEF LInv, InsertUser, Conflicts, ReadBack
<1>1. TypeOK'
  BY DEF TypeOK, CodeOK, RowOK
<1>2. NonceOK'
  BY DEF TypeOK, NonceOK
<1>3. CodeOK'
  <2>1. \A d \in Callbacks : HasIdentity(d)' => HasIdentity(d)
    BY DEF TypeOK
  <2> QED BY <2>1 DEF CodeOK
<1>4. SessionOK'
  BY DEF TypeOK, SessionOK
<1>5. RowOK'
  BY DEF TypeOK, RowOK, CodeOK
<1>6. OneUserPerIdentity'
  BY DEF TypeOK, CodeOK, RowOK, OneUserPerIdentity
<1>7. AddressOK'
  BY DEF TypeOK, Identity, CodeOK, RowOK, AddressOK
<1>8. LinkOK'
  <2>1. CASE \E k \in Rows : Conflicts(c, k)
    BY <2>1, LinkOKKept DEF TypeOK
  <2>2. CASE ~\E k \in Rows : Conflicts(c, k)
    <3>1. /\ users'[c] = identity[c] /\ matched'[c] = c
          /\ \A d \in Callbacks \ {c} :
               users'[d] = users[d] /\ matched'[d] = matched[d] /\ pc'[d] = pc[d]
          /\ UNCHANGED <<identity, had>>
      BY <2>2 DEF TypeOK
    <3>2. \A d \in Callbacks \ {c} :
            HasRow(d) => /\ matched[d] \in Callbacks \ {c}
                         /\ Linked(identity[d].account, users[matched[d]].account)
      BY DEF RowOK, LinkOK
    <3>3. \A x, y : Linked(x, y) => Linked(x, y)'
      BY <3>1, LinkedStands
    <3> HIDE DEF LInv, InsertUser
    <3>4. Linked(identity[c].account, users[matched[c]].account)'
      BY <3>1, <3>3, LinkedRefl
    <3>5. ASSUME NEW d \in Callbacks \ {c}, HasRow(d)'
          PROVE  Linked(identity[d].account, users[matched[d]].account)'
      BY <3>1, <3>2, <3>3, <3>5
    <3> QED BY <3>4, <3>5 DEF LinkOK
  <2> QED BY <2>1, <2>2
<1> QED BY <1>1, <1>2, <1>3, <1>4, <1>5, <1>6, <1>7, <1>8

LEMMA InsertSessionLInv ==
  ASSUME LInv, NEW c \in Callbacks, InsertSession(c)
  PROVE  LInv'
<1> USE ForAssumption, NoneAssumption DEF LInv, InsertSession
<1>1. TypeOK'
  <2>1. identity[c].account \in Accounts /\ matched[c] \in Callbacks
    BY DEF TypeOK, CodeOK, RowOK, Identity
  <2>2. pc' \in [Callbacks -> Phase]
    BY DEF TypeOK
  <2> QED BY <2>1, <2>2 DEF TypeOK
<1>2. NonceOK'
  BY DEF TypeOK, NonceOK
<1>3. CodeOK'
  BY DEF TypeOK, CodeOK, Identity
<1>4. SessionOK'
  BY DEF TypeOK, SessionOK
<1>5. RowOK'
  BY DEF TypeOK, RowOK, CodeOK
<1>6. OneUserPerIdentity'
  BY DEF TypeOK, CodeOK, RowOK, OneUserPerIdentity
<1>7. AddressOK'
  BY DEF TypeOK, Identity, CodeOK, RowOK, AddressOK
<1>8. LinkOK'
  BY LinkOKKept DEF TypeOK
<1> QED BY <1>1, <1>2, <1>3, <1>4, <1>5, <1>6, <1>7, <1>8

LEMMA DropLInv ==
  ASSUME LInv, NEW c \in Callbacks, Drop(c)
  PROVE  LInv'
<1> USE ForAssumption, NoneAssumption DEF LInv, Drop
<1>1. TypeOK'
  BY DEF TypeOK, CodeOK, RowOK
<1>2. NonceOK'
  BY DEF TypeOK, NonceOK
<1>3. CodeOK'
  BY DEF TypeOK, CodeOK, Identity
<1>4. SessionOK'
  BY DEF TypeOK, SessionOK
<1>5. RowOK'
  BY DEF TypeOK, RowOK, CodeOK
<1>6. OneUserPerIdentity'
  BY DEF TypeOK, CodeOK, RowOK, OneUserPerIdentity
<1>7. AddressOK'
  BY DEF TypeOK, Identity, CodeOK, RowOK, AddressOK
<1>8. LinkOK'
  BY LinkOKKept DEF TypeOK
<1> QED BY <1>1, <1>2, <1>3, <1>4, <1>5, <1>6, <1>7, <1>8

LEMMA StutterLInv == ASSUME LInv, UNCHANGED vars PROVE LInv'
<1>1. LinkOK'
  BY LinkOKKept DEF vars, LInv
<1> QED BY <1>1 DEF vars, LInv, TypeOK, NonceOK, CodeOK, SessionOK, RowOK, OneUserPerIdentity, AddressOK

LEMMA NextLInv == ASSUME LInv, [Next]_vars PROVE LInv'
<1>1. ASSUME NEW a \in Accounts, NEW e \in Addresses, ChangeEmail(a, e) PROVE LInv'
  BY <1>1, ChangeEmailLInv
<1>2. ASSUME NEW l \in LoginIds, Redirect(l) \/ Expire(l) PROVE LInv'
  BY <1>2, RedirectLInv, ExpireLInv
<1>3. ASSUME NEW c \in Callbacks, NEW a \in Accounts, ExchangeCode(c, a) PROVE LInv'
  BY <1>3, ExchangeCodeLInv
<1>4. ASSUME NEW c \in Callbacks,
             ValidateState(c) \/ ConsumeState(c) \/ ExchangeFails(c) \/ InsertSession(c) \/ Drop(c)
      PROVE LInv'
  BY <1>4, ValidateStateLInv, ConsumeStateLInv, ExchangeFailsLInv, InsertSessionLInv, DropLInv
<1>5. ASSUME NEW c \in Callbacks, LookupUser(c) \/ UpdateUser(c) \/ InsertUser(c) PROVE LInv'
  BY <1>5, LookupUserLInv, UpdateUserLInv, InsertUserLInv
<1>6. CASE Finished \/ UNCHANGED vars
  BY <1>6, StutterLInv DEF Finished
<1> QED BY <1>1, <1>2, <1>3, <1>4, <1>5, <1>6 DEF Next, Callback

(***************************************************************************)
(* What holds of callbacks, nonces and rows of users between any two       *)
(* statements of handle_callback and upsert_user.                          *)
(***************************************************************************)
THEOREM LInvHolds == Spec => []LInv
  BY LInvInit, NextLInv, PTL DEF Spec

(***************************************************************************)
(* The rows of oauth_states, users and sessions and the locals of          *)
(* handle_callback keep their types.                                       *)
(***************************************************************************)
THEOREM TypeCorrect == Spec => []TypeOK
  BY LInvHolds, PTL DEF LInv

(***************************************************************************)
(* A login yields at most one session, however often it is called back.    *)
(***************************************************************************)
THEOREM LoginsYieldOneSession == Spec => []OneSessionPerLogin
<1>1. LInv => OneSessionPerLogin
  <2> SUFFICES ASSUME LInv, NEW s \in sessions, NEW t \in sessions, For[s.by] = For[t.by]
               PROVE  s = t
    BY DEF OneSessionPerLogin
  <2>1. /\ s \in [by : Callbacks, account : Accounts, user : Callbacks]
        /\ t \in [by : Callbacks, account : Accounts, user : Callbacks]
    BY DEF LInv, TypeOK
  <2>2. s.by = t.by
    BY <2>1 DEF LInv, SessionOK, CodeOK
  <2> QED BY <2>1, <2>2 DEF LInv, SessionOK
<1> QED BY <1>1, LInvHolds, PTL

(***************************************************************************)
(* The nonce of a login that got a session is deleted for good.            *)
(***************************************************************************)
THEOREM NoncesAreSpent == Spec => []SignedInOnce
<1>1. LInv => SignedInOnce
  BY DEF LInv, TypeOK, SessionOK, NonceOK, SignedInOnce
<1> QED BY <1>1, LInvHolds, PTL

(***************************************************************************)
(* No account and no address is in two rows of users.                      *)
(***************************************************************************)
THEOREM UsersAreDistinct == Spec => []OneUserPerIdentity
  BY LInvHolds, PTL DEF LInv

(***************************************************************************)
(* From an account with a session of a user, a chain of shared addresses   *)
(* leads to any other account with a session of that user.                 *)
(***************************************************************************)
THEOREM AccountsLinkByAddress == Spec => []LinkedOnlyByAddress
<1>1. LInv => LinkedOnlyByAddress
  <2> SUFFICES ASSUME LInv, NEW s \in sessions, NEW t \in sessions, s.user = t.user
               PROVE  Linked(s.account, t.account)
    BY DEF LinkedOnlyByAddress
  <2>1. /\ s.by \in Callbacks /\ HasRow(s.by) /\ s.account \in Accounts
        /\ t.by \in Callbacks /\ HasRow(t.by) /\ t.account \in Accounts
        /\ users[s.user].account \in Accounts
    BY DEF LInv, TypeOK, SessionOK, RowOK, Identity
  <2>2. Linked(s.account, users[s.user].account) /\ Linked(t.account, users[s.user].account)
    BY <2>1 DEF LInv, SessionOK, LinkOK
  <2>3. Linked(users[s.user].account, t.account)
    BY <2>1, <2>2, LinkedSym
  <2> QED BY <2>2, <2>3, LinkedTrans
<1> QED BY <1>1, LInvHolds, PTL

\* An account that shares no address is linked with itself only.
LEMMA LonersLinkNobody ==
  ASSUME NEW a \in Accounts, NEW b, Linked(a, b), ~SharesAddress(a)
  PROVE  b = a
<1>1. Closed({a})
  BY DEF Closed, SharesAddress
<1> QED BY <1>1 DEF Linked

(***************************************************************************)
(* An account that has shared no address has sessions of one user only.    *)
(***************************************************************************)
THEOREM AccountsKeepTheirUser == Spec => []AccountKeepsUser
<1>1. LInv => AccountKeepsUser
  <2> SUFFICES ASSUME LInv, NEW s \in sessions, NEW t \in sessions,
                      s.account = t.account, s.user # t.user, ~SharesAddress(s.account)
               PROVE  FALSE
    BY DEF AccountKeepsUser
  <2>1. /\ s.by \in Callbacks /\ t.by \in Callbacks /\ HasRow(s.by) /\ HasRow(t.by)
        /\ s.account \in Accounts
    BY DEF LInv, TypeOK, SessionOK
  <2>2. s.user \in Rows /\ t.user \in Rows
    BY <2>1 DEF LInv, SessionOK, RowOK
  <2>3. Linked(s.account, users[s.user].account) /\ Linked(t.account, users[t.user].account)
    BY <2>1 DEF LInv, SessionOK, LinkOK
  <2>4. users[s.user].account = s.account /\ users[t.user].account = s.account
    BY <2>1, <2>3, LonersLinkNobody
  <2> QED BY <2>2, <2>4 DEF LInv, OneUserPerIdentity
<1> QED BY <1>1, LInvHolds, PTL

-----------------------------------------------------------------------------
(***************************************************************************)
(* The refinement of UserDirectory: an INSERT enrols, an UPDATE passes the *)
(* row on, the INSERT of the session signs in.                             *)
(***************************************************************************)
LEMMA MayBeIsLinked ==
  ASSUME NEW a \in Accounts, NEW b \in Accounts, Linked(b, a)
  PROVE  Directory!MayBe(a, b)
<1>1. Linked(a, b)
  BY LinkedSym
<1> QED BY <1>1 DEF Directory!MayBe, Directory!Closed, Directory!Share, Linked, Closed, Share

LEMMA DirectoryInit == Init => Directory!Init
  BY DEF Init, Directory!Init, belongsBar, signedInBar

\* Steps that neither write a user or a session nor change an address.
LEMMA SameDirectory ==
  ASSUME users' = users, sessions' = sessions, had' = had
  PROVE  UNCHANGED Directory!vars
<1>1. belongsBar' = belongsBar
  BY DEF belongsBar
<1>2. signedInBar' = signedInBar
  BY DEF signedInBar
<1> QED BY <1>1, <1>2 DEF Directory!vars

LEMMA InsertEnrols ==
  ASSUME LInv, NEW c \in Callbacks, InsertUser(c)
  PROVE  [Directory!Next]_(Directory!vars)
<1> DEFINE a == identity[c].account
<1>0. TypeOK /\ c \notin Rows /\ a \in Accounts /\ identity[c] \in Identity
  BY DEF LInv, RowOK, CodeOK, InsertUser, Identity
<1>1. CASE \E k \in Rows : Conflicts(c, k)
  BY <1>1, SameDirectory DEF InsertUser
<1>2. CASE ~\E k \in Rows : Conflicts(c, k)
  <2>1. /\ users' = [users EXCEPT ![c] = identity[c]] /\ identity[c] # None
        /\ UNCHANGED <<had, sessions>>
    BY <1>0, <1>2, NoneAssumption DEF InsertUser
  <2>2. belongsBar[c] = None /\ belongsBar' = [belongsBar EXCEPT ![c] = a]
    BY <1>0, <2>1 DEF belongsBar, TypeOK
  <2>3. \A k \in Callbacks : belongsBar[k] # a
    BY <1>0, <1>2, NoneAssumption DEF belongsBar, Conflicts
  <2>4. signedInBar' = signedInBar
    BY <2>1 DEF signedInBar
  <2>5. Directory!Enrol(c, a)
    BY <2>1, <2>2, <2>3, <2>4 DEF Directory!Enrol
  <2> QED BY <1>0, <2>5 DEF Directory!Next
<1> QED BY <1>1, <1>2

LEMMA UpdatePassesOn ==
  ASSUME LInv, NEW c \in Callbacks, UpdateUser(c)
  PROVE  [Directory!Next]_(Directory!vars)
<1> DEFINE a == identity[c].account
           k == matched[c]
<1>0. /\ TypeOK /\ k \in Rows /\ a \in Accounts /\ identity[c] \in Identity
      /\ users[k].account \in Accounts
  BY DEF LInv, RowOK, CodeOK, UpdateUser, Identity, TypeOK
<1>1. CASE \E j \in Rows \ {k} : Conflicts(c, j)
  BY <1>1, SameDirectory DEF UpdateUser
<1>2. CASE ~\E j \in Rows \ {k} : Conflicts(c, j)
  <2>1. /\ users' = [users EXCEPT ![k] = identity[c]] /\ identity[c] # None
        /\ UNCHANGED <<had, sessions>>
    BY <1>0, <1>2, NoneAssumption DEF UpdateUser
  <2>2. belongsBar' = [belongsBar EXCEPT ![k] = a]
    BY <1>0, <2>1 DEF belongsBar, TypeOK
  <2>3. \A j \in Callbacks \ {k} : belongsBar[j] # a
    BY <1>0, <1>2, NoneAssumption DEF belongsBar, Conflicts
  <2>4. belongsBar[k] # None /\ Directory!MayBe(belongsBar[k], a)
    <3>1. belongsBar[k] = users[k].account /\ Linked(a, users[k].account)
      BY <1>0 DEF belongsBar, LInv, LinkOK, UpdateUser
    <3> QED BY <1>0, <3>1, NoneAssumption, MayBeIsLinked
  <2>5. signedInBar' = signedInBar
    BY <2>1 DEF signedInBar
  <2>6. Directory!PassOn(k, a)
    BY <2>1, <2>2, <2>3, <2>4, <2>5 DEF Directory!PassOn
  <2> QED BY <1>0, <2>6 DEF Directory!Next
<1> QED BY <1>1, <1>2

LEMMA SessionSignsIn ==
  ASSUME LInv, NEW c \in Callbacks, InsertSession(c)
  PROVE  Directory!Next
<1> DEFINE a == identity[c].account
           k == matched[c]
           s == [by |-> c, account |-> a, user |-> k]
<1>0. TypeOK /\ k \in Rows /\ a \in Accounts /\ users[k].account \in Accounts
  BY DEF LInv, RowOK, CodeOK, InsertSession, Identity, TypeOK
<1>1. sessions' = sessions \cup {s} /\ UNCHANGED <<users, had>>
  BY DEF InsertSession
<1>2. signedInBar' = signedInBar \cup {[login |-> For[c], account |-> a, user |-> k]}
  <2> DEFINE Led(t) == [login |-> For[t.by], account |-> t.account, user |-> t.user]
  <2>1. {Led(t) : t \in sessions'} = {Led(t) : t \in sessions} \cup {Led(s)}
    BY <1>1
  <2> QED BY <2>1 DEF signedInBar
<1>3. \A t \in signedInBar : t.login # For[c]
  <2> SUFFICES ASSUME NEW t \in sessions, For[t.by] = For[c] PROVE FALSE
    BY DEF signedInBar
  <2>1. t.by \in Callbacks /\ pc[t.by] = "signed_in"
    BY <1>0 DEF LInv, SessionOK, TypeOK
  <2>2. t.by = c
    BY <2>1 DEF LInv, CodeOK, InsertSession
  <2> QED BY <2>1, <2>2 DEF InsertSession
<1>4. belongsBar[k] # None /\ Directory!MayBe(belongsBar[k], a)
  <2>1. belongsBar[k] = users[k].account /\ Linked(a, users[k].account)
    BY <1>0 DEF belongsBar, LInv, LinkOK, InsertSession
  <2> QED BY <1>0, <2>1, NoneAssumption, MayBeIsLinked
<1>5. belongsBar' = belongsBar
  BY <1>1 DEF belongsBar
<1>6. Directory!SignIn(For[c], a, k)
  BY <1>1, <1>2, <1>3, <1>4, <1>5 DEF Directory!SignIn
<1> QED BY <1>0, <1>6, ForAssumption DEF Directory!Next

LEMMA StepImplements == LInv /\ [Next]_vars => [Directory!Next]_(Directory!vars)
<1> SUFFICES ASSUME LInv, [Next]_vars PROVE [Directory!Next]_(Directory!vars)
  OBVIOUS
<1>1. ASSUME NEW a \in Accounts, NEW e \in Addresses, ChangeEmail(a, e) PROVE Directory!Next
  <2>1. belongsBar' = belongsBar /\ signedInBar' = signedInBar
    BY <1>1 DEF ChangeEmail, belongsBar, signedInBar
  <2> QED BY <1>1, <2>1 DEF ChangeEmail, Directory!Readdress, Directory!Next
<1>2. ASSUME NEW l \in LoginIds, Redirect(l) \/ Expire(l) PROVE UNCHANGED Directory!vars
  BY <1>2, SameDirectory DEF Redirect, Expire
<1>3. ASSUME NEW c \in Callbacks,
             \/ ValidateState(c) \/ ConsumeState(c) \/ (\E a \in Accounts : ExchangeCode(c, a))
             \/ ExchangeFails(c) \/ LookupUser(c) \/ Drop(c)
      PROVE  UNCHANGED Directory!vars
  BY <1>3, SameDirectory
  DEF ValidateState, ConsumeState, ExchangeCode, ExchangeFails, LookupUser, Drop
<1>4. UNCHANGED vars => UNCHANGED Directory!vars
  BY SameDirectory DEF vars
<1> QED
  BY <1>1, <1>2, <1>3, <1>4, InsertEnrols, UpdatePassesOn, SessionSignsIn
  DEF Next, Callback, Finished

(***************************************************************************)
(* Sign-ins that overlap, repeat and fail part of the way come to what a   *)
(* directory changed in single steps allows.                               *)
(***************************************************************************)
THEOREM ImplementsUserDirectory == Spec => ImplementsDirectory
  BY LInvHolds, DirectoryInit, StepImplements, PTL DEF Spec, ImplementsDirectory, Directory!Spec

=============================================================================
