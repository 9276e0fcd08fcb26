------------------------------- MODULE Logins -------------------------------
(***************************************************************************)
(* Signing in (src/auth/handler.rs): handle_login_redirect stores a state  *)
(* nonce, the provider sends the browser back with a code, handle_callback *)
(* checks and deletes the nonce, exchanges the code, upserts the user and  *)
(* stores a session.                                                       *)
(*                                                                         *)
(* A callback runs one SQL statement or one exchange with the provider at  *)
(* a time, and callbacks interleave.  The browser may deliver the same     *)
(* callback more than once (a reload, a retry).                            *)
(*                                                                         *)
(* A state nonce is 32 random bytes and is named by its login, a new row   *)
(* of users is named by the callback that inserts it.  An account is a     *)
(* pair (provider, provider_id); the provider it belongs to decides which  *)
(* of the two exchanges is used, and they differ only in the HTTP calls.   *)
(* Accounts change their e-mail address at the provider, and two accounts  *)
(* may have the same one.                                                  *)
(***************************************************************************)
EXTENDS Naturals, FiniteSets

CONSTANTS
  LoginIds,   \* GET /auth/login/{provider}, and the nonces
  Callbacks,  \* GET /auth/callback/{provider}
  For,        \* the login whose state and code each callback carries
  Accounts,   \* (provider, provider_id)
  Addresses,  \* e-mail addresses
  MaxChanges, \* bound: how often accounts change their address
  None

\* What a provider tells of the account that signed in.
Identity == [account : Accounts, email : Addresses]

ASSUME ForAssumption == For \in [Callbacks -> LoginIds]
ASSUME NoneAssumption == None \notin Callbacks \cup Accounts \cup Addresses \cup Identity
ASSUME MaxChangesAssumption == MaxChanges \in Nat

VARIABLES
  email,    \* the primary verified address of each account at its provider
  had,      \* every address each account has had
  nonce,    \* the row of oauth_states: "unborn", "stored", "expired" or "deleted"
  spent,    \* the provider has exchanged the code of this login
  users,    \* users: row id -> [account, email], None when there is no row
  pc,       \* where each callback is
  identity, \* what the exchange told it: [account, email]
  matched,  \* the row of users that upsert_user settled on
  sessions  \* sessions: the callback that inserted each, its account and user_id

accountVars == <<email, had>>
vars == <<accountVars, nonce, spent, users, pc, identity, matched, sessions>>

-----------------------------------------------------------------------------
Rows == {k \in Callbacks : users[k] # None}

Phase == {"new", "valid", "consumed", "exchanged", "update", "insert",
          "upserted", "signed_in", "failed"}

Init ==
  /\ email    \in [Accounts -> Addresses]
  /\ had      = [a \in Accounts |-> {email[a]}]
  /\ nonce    = [l \in LoginIds |-> "unborn"]
  /\ spent    = [l \in LoginIds |-> FALSE]
  /\ users    = [k \in Callbacks |-> None]
  /\ pc       = [c \in Callbacks |-> "new"]
  /\ identity = [c \in Callbacks |-> None]
  /\ matched  = [c \in Callbacks |-> None]
  /\ sessions = {}

\* At the provider.
Changes == {p \in Accounts \X Addresses : p[2] \in had[p[1]]}

ChangeEmail(a, e) ==
  /\ e \notin had[a]
  /\ Cardinality(Changes) < Cardinality(Accounts) + MaxChanges
  /\ email' = [email EXCEPT ![a] = e]
  /\ had' = [had EXCEPT ![a] = @ \cup {e}]
  /\ UNCHANGED <<nonce, spent, users, pc, identity, matched, sessions>>

\* handle_login_redirect: INSERT INTO oauth_states, then the redirect.
Redirect(l) ==
  /\ nonce[l] = "unborn"
  /\ nonce' = [nonce EXCEPT ![l] = "stored"]
  /\ UNCHANGED <<accountVars, spent, users, pc, identity, matched, sessions>>

\* Ten minutes pass.
Expire(l) ==
  /\ nonce[l] = "stored"
  /\ nonce' = [nonce EXCEPT ![l] = "expired"]
  /\ UNCHANGED <<accountVars, spent, users, pc, identity, matched, sessions>>

-----------------------------------------------------------------------------
(* handle_callback                                                         *)

\* SELECT ... WHERE state = ? AND provider = ? AND expires_at > NOW().
ValidateState(c) ==
  /\ pc[c] = "new"
  /\ nonce[For[c]] # "unborn"
  /\ pc' = [pc EXCEPT ![c] = IF nonce[For[c]] = "stored" THEN "valid" ELSE "failed"]
  /\ UNCHANGED <<accountVars, nonce, spent, users, identity, matched, sessions>>

\* Variant: the nonce is left for its expiry.
LeftThere(n) == n

\* DELETE FROM oauth_states WHERE state = ?
Deleted(n) == "deleted"

ConsumeState(c) ==
  /\ pc[c] = "valid"
  /\ nonce' = [nonce EXCEPT ![For[c]] = Deleted(@)]
  /\ pc' = [pc EXCEPT ![c] = "consumed"]
  /\ UNCHANGED <<accountVars, spent, users, identity, matched, sessions>>

\* Variant: the provider honours a code as often as it is presented.
HonoursAlways(c) == TRUE

\* The provider: a code can be exchanged once.
Honours(c) == ~spent[For[c]]

\* The provider tells the account that signed in and its address.
ExchangeCode(c, a) ==
  /\ pc[c] = "consumed"
  /\ Honours(c)
  /\ spent' = [spent EXCEPT ![For[c]] = TRUE]
  /\ identity' = [identity EXCEPT ![c] = [account |-> a, email |-> email[a]]]
  /\ pc' = [pc EXCEPT ![c] = "exchanged"]
  /\ UNCHANGED <<accountVars, nonce, users, matched, sessions>>

\* The code was spent before, or its answer is lost after it is spent.
ExchangeFails(c) ==
  /\ pc[c] = "consumed"
  /\ spent' = [spent EXCEPT ![For[c]] = TRUE]
  /\ pc' = [pc EXCEPT ![c] = "failed"]
  /\ UNCHANGED <<accountVars, nonce, users, identity, matched, sessions>>

-----------------------------------------------------------------------------
(* upsert_user                                                             *)

\* Variant: WHERE (provider = ? OR provider_id = ?) ..., with accounts that
\* have the provider in common.
MatchesProvider(c, k) == TRUE

\* WHERE (provider = ? AND provider_id = ?) OR email = ?
MatchesUser(c, k) ==
  \/ users[k].account = identity[c].account
  \/ users[k].email = identity[c].email

\* fetch_optional returns one of the rows that match, if there is one.
LookupUser(c) ==
  /\ pc[c] = "exchanged"
  /\ \/ \E k \in Rows :
          /\ MatchesUser(c, k)
          /\ matched' = [matched EXCEPT ![c] = k]
          /\ pc' = [pc EXCEPT ![c] = "update"]
     \/ /\ \A k \in Rows : ~MatchesUser(c, k)
        /\ matched' = matched
        /\ pc' = [pc EXCEPT ![c] = "insert"]
  /\ UNCHANGED <<accountVars, nonce, spent, users, identity, sessions>>

\* Variants: only one of the two constraints is there.
ConflictsByAccount(c, k) == users[k].account = identity[c].account
ConflictsByAddress(c, k) == users[k].email = identity[c].email

\* The UNIQUE constraints on users.email and users.(provider, provider_id).
Conflicts(c, k) ==
  \/ users[k].account = identity[c].account
  \/ users[k].email = identity[c].email

\* UPDATE users SET provider, provider_id, email ... WHERE id = ?
UpdateUser(c) ==
  /\ pc[c] = "update"
  /\ IF \E k \in Rows \ {matched[c]} : Conflicts(c, k)
     THEN pc' = [pc EXCEPT ![c] = "failed"] /\ UNCHANGED users
     ELSE /\ users' = [users EXCEPT ![matched[c]] = identity[c]]
          /\ pc' = [pc EXCEPT ![c] = "upserted"]
  /\ UNCHANGED <<accountVars, nonce, spent, identity, matched, sessions>>

\* Variant: the SELECT after the INSERT is by what the first SELECT returned.
ReadBackMatched(c) == matched[c]

\* SELECT ... WHERE id = ?, with the id that was inserted.
ReadBack(c) == c

InsertUser(c) ==
  /\ pc[c] = "insert"
  /\ IF \E k \in Rows : Conflicts(c, k)
     THEN pc' = [pc EXCEPT ![c] = "failed"] /\ UNCHANGED <<users, matched>>
     ELSE /\ users' = [users EXCEPT ![c] = identity[c]]
          /\ matched' = [matched EXCEPT ![c] = ReadBack(c)]
          /\ pc' = [pc EXCEPT ![c] = "upserted"]
  /\ UNCHANGED <<accountVars, nonce, spent, identity, sessions>>

-----------------------------------------------------------------------------
\* INSERT INTO sessions: the user_id is that of the row upsert_user read back.
InsertSession(c) ==
  /\ pc[c] = "upserted"
  /\ sessions' = sessions \cup {[by |-> c, account |-> identity[c].account, user |-> matched[c]]}
  /\ pc' = [pc EXCEPT ![c] = "signed_in"]
  /\ UNCHANGED <<accountVars, nonce, spent, users, identity, matched>>

\* A statement fails, the browser hangs up, or the server stops.
Drop(c) ==
  /\ pc[c] \notin {"new", "signed_in", "failed"}
  /\ pc' = [pc EXCEPT ![c] = "failed"]
  /\ UNCHANGED <<accountVars, nonce, spent, users, identity, matched, sessions>>

Finished ==
  /\ \A c \in Callbacks : pc[c] \in {"signed_in", "failed"}
  /\ \A l \in LoginIds : nonce[l] \in {"expired", "deleted"}
  /\ UNCHANGED vars

Callback(c) ==
  \/ ValidateState(c) \/ ConsumeState(c)
  \/ (\E a \in Accounts : ExchangeCode(c, a)) \/ ExchangeFails(c)
  \/ LookupUser(c) \/ UpdateUser(c) \/ InsertUser(c) \/ InsertSession(c)

Next ==
  \/ \E a \in Accounts, e \in Addresses : ChangeEmail(a, e)
  \/ \E l \in LoginIds : Redirect(l) \/ Expire(l)
  \/ \E c \in Callbacks : Callback(c) \/ Drop(c)
  \/ Finished

Spec == Init /\ [][Next]_vars

-----------------------------------------------------------------------------
(***************************************************************************)
(* Type invariant: the rows, and the locals of handle_callback, which are  *)
(* there from the call that sets them on.                                  *)
(***************************************************************************)
TypeOK ==
  /\ email \in [Accounts -> Addresses]
  /\ had \in [Accounts -> SUBSET Addresses]
  /\ nonce \in [LoginIds -> {"unborn", "stored", "expired", "deleted"}]
  /\ spent \in [LoginIds -> BOOLEAN]
  /\ users \in [Callbacks -> Identity \cup {None}]
  /\ pc \in [Callbacks -> Phase]
  /\ identity \in [Callbacks -> Identity \cup {None}]
  /\ matched \in [Callbacks -> Callbacks \cup {None}]
  /\ sessions \subseteq [by : Callbacks, account : Accounts, user : Callbacks]

(***************************************************************************)
(* A login yields at most one session, although a callback delivered twice *)
(* can have its nonce validated twice (the SELECT and the DELETE are two   *)
(* statements): the code is what only one of them can exchange.            *)
(***************************************************************************)
OneSessionPerLogin ==
  \A s, t \in sessions : For[s.by] = For[t.by] => s = t

(***************************************************************************)
(* A login that got a session can never be called back again: its nonce is *)
(* deleted, whatever expired, failed or was repeated before.               *)
(***************************************************************************)
SignedInOnce == \A s \in sessions : nonce[For[s.by]] = "deleted"

(***************************************************************************)
(* users stays a map in both directions: no account and no address is in   *)
(* two rows, although upsert_user looks, decides and writes in separate    *)
(* statements and several callbacks do so for the same person at once.     *)
(***************************************************************************)
OneUserPerIdentity ==
  \A j, k \in Rows :
    j # k => users[j].account # users[k].account /\ users[j].email # users[k].email

\* Both accounts have had the address, at the same time or not.
Share(a, b) == had[a] \cap had[b] # {}

\* Sharing an address leads to no account outside S.
Closed(S) == \A a \in S, b \in Accounts : Share(a, b) => b \in S

\* A chain of accounts leads from a to b, each of which shares an address with
\* the next one.
Linked(a, b) == \A S \in SUBSET Accounts : a \in S /\ Closed(S) => b \in S

(***************************************************************************)
(* Two accounts are only ever signed in to the same user if a chain of     *)
(* shared addresses leads from one to the other: upsert_user links by      *)
(* address and by nothing else.  They need not have had an address in      *)
(* common themselves, since a row forgets the address it was found by when *)
(* it is taken over.                                                       *)
(***************************************************************************)
LinkedOnlyByAddress ==
  \A s, t \in sessions : s.user = t.user => Linked(s.account, t.account)

SharesAddress(a) == \E b \in Accounts \ {a} : Share(a, b)

(***************************************************************************)
(* An account that shares no address with another is always signed in to   *)
(* the same user, through changes of its address and through concurrent    *)
(* first logins.                                                           *)
(***************************************************************************)
AccountKeepsUser ==
  \A s, t \in sessions :
    s.account = t.account /\ s.user # t.user => SharesAddress(s.account)

=============================================================================
