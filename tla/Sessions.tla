------------------------------ MODULE Sessions ------------------------------
(***************************************************************************)
(* The life of a session once a login has stored it: POST /auth/refresh    *)
(* rotates its refresh token, POST /auth/logout deletes it, time expires   *)
(* it (refresh_token and logout in src/auth/handler.rs).                   *)
(*                                                                         *)
(* A request runs one SQL statement at a time; between two statements any  *)
(* other request may run, its own future may be dropped (the client hangs  *)
(* up, a statement fails, the server stops), and its answer may be lost.   *)
(*                                                                         *)
(* There is one session per device.  Refresh tokens are 64 random bytes,   *)
(* so a token is named by what minted it: the session's login (the device) *)
(* or the refresh request.                                                 *)
(***************************************************************************)
EXTENDS Naturals, FiniteSets

CONSTANTS
  Devices,      \* signed-in clients, and the names of their sessions
  Refreshes,    \* POST /auth/refresh requests
  Logouts,      \* POST /auth/logout requests
  By,           \* the device that sends each request
  Overlapping,  \* devices that send a request while another is under way
  None

Requests == Refreshes \cup Logouts
Tokens   == Devices \cup Refreshes

ASSUME ByAssumption       == By \in [Requests -> Devices]
ASSUME DistinctAssumption == /\ Devices \cap Refreshes = {}
                             /\ Refreshes \cap Logouts = {}
                             /\ None \notin Tokens
ASSUME OverlapAssumption  == Overlapping \subseteq Devices

VARIABLES
  row,      \* sessions.refresh_token, None when there is no row
  expired,  \* is sessions.expires_at in the past?
  held,     \* the refresh token the device would present
  pc,       \* where each request is
  token,    \* the refresh_token in its body
  found,    \* the session_id its SELECT returned
  missed    \* has an answer to the device been lost after its token was rotated?

vars == <<row, expired, held, pc, token, found, missed>>

-----------------------------------------------------------------------------
Busy(d)   == \E q \in Requests : By[q] = d /\ pc[q] \in {"sent", "found", "rotated", "deleted"}
Active(d) == row[d] # None

Init ==
  /\ row     = [d \in Devices |-> d]
  /\ expired = [d \in Devices |-> FALSE]
  /\ held    = [d \in Devices |-> d]
  /\ pc      = [q \in Requests |-> "new"]
  /\ token   = [q \in Requests |-> None]
  /\ found   = [q \in Refreshes |-> None]
  /\ missed  = [d \in Devices |-> FALSE]

\* A signed-in device sends a request with the token it holds.
Send(q) ==
  /\ pc[q] = "new"
  /\ held[By[q]] # None
  /\ Busy(By[q]) => By[q] \in Overlapping
  /\ pc' = [pc EXCEPT ![q] = "sent"]
  /\ token' = [token EXCEPT ![q] = held[By[q]]]
  /\ UNCHANGED <<row, expired, held, found, missed>>

-----------------------------------------------------------------------------
(* refresh_token                                                           *)

\* Variant: the SELECT does not look at expires_at and matches any session.
MatchesAnything(q, d) == Active(d)

\* WHERE s.refresh_token = ? AND s.expires_at > NOW()
Matches(q, d) == row[d] = token[q] /\ ~expired[d]

\* Variant: ok_or_else is forgotten, and a refresh goes on with no session.
FindSessionUnchecked(q) ==
  /\ pc[q] = "sent"
  /\ found' \in {[found EXCEPT ![q] = d] : d \in {e \in Devices : Matches(q, e)} \cup {None}}
  /\ pc' = [pc EXCEPT ![q] = "found"]
  /\ UNCHANGED <<row, expired, held, token, missed>>

FindSession(q) ==
  /\ pc[q] = "sent"
  /\ \E d \in Devices :
       /\ Matches(q, d)
       /\ found' = [found EXCEPT ![q] = d]
  /\ pc' = [pc EXCEPT ![q] = "found"]
  /\ UNCHANGED <<row, expired, held, token, missed>>

\* 401
Unauthorized(q) ==
  /\ pc[q] = "sent"
  /\ \A d \in Devices : ~Matches(q, d)
  /\ pc' = [pc EXCEPT ![q] = "refused"]
  /\ UNCHANGED <<row, expired, held, token, found, missed>>

\* Variants: the new token is written by an upsert; or to no row at all.
Reinserted(q) == {found[q]}
NoRow(q)      == {}

\* UPDATE sessions ... WHERE id = ?: no row when a logout has deleted it.
Updated(q) == {d \in {found[q]} : Active(d)}

Rotate(q) ==
  /\ pc[q] = "found"
  /\ row' = [d \in Devices |-> IF d \in Updated(q) THEN q ELSE row[d]]
  /\ expired' = [d \in Devices |-> expired[d] /\ d \notin Updated(q)]
  /\ pc' = [pc EXCEPT ![q] = "rotated"]
  /\ UNCHANGED <<held, token, found, missed>>

\* The user is fetched and the new token is answered, whether or not the
\* UPDATE found a row.
AnswerRefresh(q) ==
  /\ pc[q] = "rotated"
  /\ held' = [held EXCEPT ![By[q]] = q]
  /\ pc' = [pc EXCEPT ![q] = "answered"]
  /\ UNCHANGED <<row, expired, token, found, missed>>

-----------------------------------------------------------------------------
(* logout                                                                  *)

\* Variant: the DELETE has the condition on expires_at that the SELECT has.
DeletesUnexpired(q, d) == row[d] = token[q] /\ ~expired[d]

\* DELETE FROM sessions WHERE refresh_token = ?
Deletes(q, d) == row[d] = token[q]

DeleteSession(q) ==
  /\ pc[q] = "sent"
  /\ row' = [d \in Devices |-> IF Deletes(q, d) THEN None ELSE row[d]]
  /\ pc' = [pc EXCEPT ![q] = "deleted"]
  /\ UNCHANGED <<expired, held, token, found, missed>>

\* "Logged out", whether or not the DELETE found a row; the client forgets
\* its token.
AnswerLogout(q) ==
  /\ pc[q] = "deleted"
  /\ held' = [held EXCEPT ![By[q]] = None]
  /\ pc' = [pc EXCEPT ![q] = "answered"]
  /\ UNCHANGED <<row, expired, token, found, missed>>

-----------------------------------------------------------------------------
\* The request ends without an answer, with what it has done so far done.
Drop(q) ==
  /\ pc[q] \in {"sent", "found", "rotated", "deleted"}
  /\ pc' = [pc EXCEPT ![q] = "dropped"]
  /\ missed' = [missed EXCEPT ![By[q]] = @ \/ pc[q] = "rotated"]
  /\ UNCHANGED <<row, expired, held, token, found>>

Expire(d) ==
  /\ Active(d) /\ ~expired[d]
  /\ expired' = [expired EXCEPT ![d] = TRUE]
  /\ UNCHANGED <<row, held, pc, token, found, missed>>

\* Every request is over, or can no longer be sent: nothing more is asked.
Finished ==
  /\ \A q \in Requests : pc[q] \in {"answered", "refused", "dropped"}
                         \/ (pc[q] = "new" /\ held[By[q]] = None)
  /\ UNCHANGED vars

Refresh(q) == FindSession(q) \/ Unauthorized(q) \/ Rotate(q) \/ AnswerRefresh(q)
Logout(q)  == DeleteSession(q) \/ AnswerLogout(q)

Next ==
  \/ \E q \in Requests : Send(q) \/ Drop(q)
  \/ \E q \in Refreshes : Refresh(q)
  \/ \E q \in Logouts : Logout(q)
  \/ \E d \in Devices : Expire(d)
  \/ Finished

Spec == Init /\ [][Next]_vars

-----------------------------------------------------------------------------
(***************************************************************************)
(* Type invariant: the columns and the locals of the two handlers, which   *)
(* are there from the statement that sets them on.                         *)
(***************************************************************************)
TypeOK ==
  /\ row \in [Devices -> Tokens \cup {None}]
  /\ expired \in [Devices -> BOOLEAN]
  /\ held \in [Devices -> Tokens \cup {None}]
  /\ pc \in [Requests -> {"new", "sent", "found", "rotated", "deleted",
                          "answered", "refused", "dropped"}]
  /\ token \in [Requests -> Tokens \cup {None}]
  /\ found \in [Refreshes -> Devices \cup {None}]
  /\ missed \in [Devices -> BOOLEAN]
  /\ \A q \in Requests : pc[q] # "new" => token[q] # None
  /\ \A q \in Refreshes : pc[q] \in {"found", "rotated"} => found[q] # None

(***************************************************************************)
(* A refresh acts on the session of the device that sent it, however many  *)
(* rotations, drops and logouts came between its SELECT and its UPDATE: no *)
(* device's session is ever left with a token minted for another device.   *)
(***************************************************************************)
SessionsSeparate ==
  \A d \in Devices : row[d] \in Refreshes => By[row[d]] = d

(***************************************************************************)
(* A session that was logged out does not come back, not even through a    *)
(* refresh whose SELECT saw it before the DELETE.                          *)
(***************************************************************************)
EndedStaysEnded == [][\A d \in Devices : ~Active(d) => ~Active(d)']_vars

(***************************************************************************)
(* A device that waits for each answer is refused a refresh only for a     *)
(* reason: its session was logged out, has expired, or the answer that     *)
(* carried its current token was lost.                                     *)
(***************************************************************************)
RefusedForAReason ==
  [][\A q \in Refreshes :
       pc[q] # "refused" /\ pc'[q] = "refused" /\ By[q] \notin Overlapping =>
         ~Active(By[q]) \/ expired[By[q]] \/ missed[By[q]]]_vars

(***************************************************************************)
(* After an answered logout of a device that waits for each answer, and    *)
(* has not lost one, the session is gone.                                  *)
(***************************************************************************)
OrderlyLogoutRevokes ==
  \A q \in Logouts :
    pc[q] = "answered" /\ By[q] \notin Overlapping /\ ~missed[By[q]] => ~Active(By[q])

-----------------------------------------------------------------------------
(***************************************************************************)
(* README.md:94, "Revoke active session / refresh token": after an         *)
(* answered logout the session is gone.  Violated: a refresh of the same   *)
(* device that is under way has already put another token into the row, so *)
(* the DELETE by the old token matches nothing and is answered the same.   *)
(***************************************************************************)
LogoutRevokes ==
  \A q \in Logouts : pc[q] = "answered" /\ ~missed[By[q]] => ~Active(By[q])

=============================================================================
