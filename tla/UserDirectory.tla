--------------------------- MODULE UserDirectory ---------------------------
(***************************************************************************)
(* What signing in promises, without nonces, codes, lookups and requests   *)
(* that overlap: every user belongs to one account and every account has   *)
(* at most one user; a user only passes on to an account that a chain of   *)
(* shared addresses links with its own; and a login signs in once, to a    *)
(* user whose account is the one it is for or is linked with it.           *)
(***************************************************************************)
CONSTANTS
  Logins,
  Accounts,
  Addresses,
  Users,
  None

VARIABLES
  addresses,  \* account -> every address it has had
  belongs,    \* user -> its account, None before there is the user
  signedIn    \* what logins have led to

vars == <<addresses, belongs, signedIn>>

\* The accounts may be one person's: a chain leads from one to the other of
\* accounts each of which has had an address that the next one has had.
Share(a, b) == addresses[a] \cap addresses[b] # {}
Closed(S)   == \A a \in S, b \in Accounts : Share(a, b) => b \in S
MayBe(a, b) == \A S \in SUBSET Accounts : a \in S /\ Closed(S) => b \in S

Init ==
  /\ addresses \in [Accounts -> {{e} : e \in Addresses}]
  /\ belongs   = [u \in Users |-> None]
  /\ signedIn  = {}

Readdress(a, e) ==
  /\ addresses' = [addresses EXCEPT ![a] = @ \cup {e}]
  /\ UNCHANGED <<belongs, signedIn>>

Enrol(u, a) ==
  /\ belongs[u] = None
  /\ \A v \in Users : belongs[v] # a
  /\ belongs' = [belongs EXCEPT ![u] = a]
  /\ UNCHANGED <<addresses, signedIn>>

PassOn(u, a) ==
  /\ belongs[u] # None
  /\ \A v \in Users \ {u} : belongs[v] # a
  /\ belongs' = [belongs EXCEPT ![u] = a]
  /\ MayBe(belongs[u], a)
  /\ UNCHANGED <<addresses, signedIn>>

SignIn(l, a, u) ==
  /\ \A s \in signedIn : s.login # l
  /\ belongs[u] # None
  /\ signedIn' = signedIn \cup {[login |-> l, account |-> a, user |-> u]}
  /\ MayBe(belongs[u], a)
  /\ UNCHANGED <<addresses, belongs>>

Next ==
  \E a \in Accounts :
    \/ \E e \in Addresses : Readdress(a, e)
    \/ \E u \in Users : Enrol(u, a) \/ PassOn(u, a)
    \/ \E l \in Logins, u \in Users : SignIn(l, a, u)

Spec == Init /\ [][Next]_vars
=============================================================================
