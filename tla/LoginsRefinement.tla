-------------------------- MODULE LoginsRefinement --------------------------
(***************************************************************************)
(* Logins implements UserDirectory: a user belongs to the account in its   *)
(* row, and a login has led to what its session says.                      *)
(***************************************************************************)
EXTENDS Logins

belongsBar == [k \in Callbacks |-> IF k \in Rows THEN users[k].account ELSE None]

signedInBar ==
  {[login |-> For[s.by], account |-> s.account, user |-> s.user] : s \in sessions}

Directory == INSTANCE UserDirectory WITH
               Logins <- LoginIds, Users <- Callbacks,
               addresses <- had, belongs <- belongsBar, signedIn <- signedInBar

(***************************************************************************)
(* Callbacks that look a user up, decide and write in separate statements, *)
(* that are repeated, dropped and overtaken by changes of address, behave  *)
(* like a directory that is changed in one step: no account ever has two   *)
(* users, a user never goes to an account that no chain of shared          *)
(* addresses links with its own, users stay, and a login signs in once.    *)
(***************************************************************************)
ImplementsDirectory == Directory!Spec
=============================================================================
