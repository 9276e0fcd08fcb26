--------------------------- MODULE SessionsProofs ---------------------------
(***************************************************************************)
(* Proofs about Sessions, for any number of devices and requests.          *)
(*                                                                         *)
(* The inductive invariant has three parts.  OwnOK: a token is only ever   *)
(* with the device it was minted for, so a SELECT by token finds the       *)
(* sender's own session.  OneAtATime: an orderly device has one request    *)
(* under way, which carries the token it holds.  HeldIsStored: the row of  *)
(* an orderly device has the token of the refresh that is about to be      *)
(* answered, and otherwise the one the device holds, unless an answer was  *)
(* lost; after the DELETE of a logout there is no row.                     *)
(***************************************************************************)
EXTENDS Sessions, TLAPS

MintedFor(t) == IF t \in Devices THEN t ELSE By[t]

OwnOK ==
  /\ \A d \in Devices : row[d] # None => MintedFor(row[d]) = d
  /\ \A d \in Devices : held[d] # None => MintedFor(held[d]) = d
  /\ \A q \in Requests : token[q] # None => MintedFor(token[q]) = By[q]
  /\ \A q \in Refreshes : found[q] # None => found[q] = By[q]

UnderWay(q) == pc[q] \in {"sent", "found", "rotated", "deleted"}

OneAtATime ==
  /\ \A p, q \in Requests :
       By[p] = By[q] /\ By[q] \notin Overlapping /\ UnderWay(p) /\ UnderWay(q) => p = q
  /\ \A q \in Requests :
       By[q] \notin Overlapping /\ pc[q] = "sent" => token[q] = held[By[q]]

\* No refresh of the device has written its token and not been answered yet.
Settled(d) == \A q \in Refreshes : By[q] = d => pc[q] # "rotated"

HeldIsStored ==
  /\ \A q \in Refreshes :
       By[q] \notin Overlapping /\ pc[q] = "rotated" /\ Active(By[q]) => row[By[q]] = q
  /\ \A d \in Devices :
       d \notin Overlapping /\ ~missed[d] /\ Active(d) /\ Settled(d) => row[d] = held[d]
  /\ \A q \in Logouts :
       By[q] \notin Overlapping /\ ~missed[By[q]] /\ pc[q] \in {"deleted", "answered"}
         => ~Active(By[q])

\* Each kind of request goes through its own statements only.
KindOK ==
  /\ \A q \in Refreshes : pc[q] # "deleted"
  /\ \A q \in Logouts : pc[q] \notin {"found", "rotated"}

SInv == TypeOK /\ KindOK /\ OwnOK /\ OneAtATime /\ HeldIsStored

-----------------------------------------------------------------------------
USE DEF Requests, Tokens, Active, UnderWay, Settled

LEMMA SInvInit == Init => SInv
  BY ByAssumption, DistinctAssumption
  DEF Init, SInv, TypeOK, KindOK, OwnOK, OneAtATime, HeldIsStored, MintedFor

\* A request of an orderly device is not sent while another is under way.
LEMMA NotBusy ==
  ASSUME NEW q \in Requests, Send(q), By[q] \notin Overlapping,
         NEW p \in Requests, By[p] = By[q]
  PROVE  ~UnderWay(p)
  BY DEF Send, Busy

LEMMA SendSInv == ASSUME SInv, NEW q \in Requests, Send(q) PROVE SInv'
<1> USE ByAssumption, DistinctAssumption DEF SInv, Send
<1>1. TypeOK'
  BY DEF TypeOK
<1>2. KindOK'
  BY DEF TypeOK, KindOK
<1>3. OwnOK'
  BY DEF TypeOK, OwnOK, MintedFor
<1>4. OneAtATime'
  BY NotBusy DEF TypeOK, KindOK, OneAtATime
<1>5. HeldIsStored'
  BY DEF TypeOK, KindOK, OwnOK, MintedFor, OneAtATime, HeldIsStored
<1> QED BY <1>1, <1>2, <1>3, <1>4, <1>5

LEMMA DropSInv == ASSUME SInv, NEW q \in Requests, Drop(q) PROVE SInv'
<1> USE ByAssumption, DistinctAssumption DEF SInv, Drop
<1>1. TypeOK'
  BY DEF TypeOK
<1>2. KindOK'
  BY DEF TypeOK, KindOK
<1>3. OwnOK'
  BY DEF TypeOK, OwnOK, MintedFor
<1>4. OneAtATime'
  BY DEF TypeOK, KindOK, OneAtATime
<1>5. HeldIsStored'
  <2>1. UNCHANGED <<row, held>>
    OBVIOUS
  <2>2. \A p \in Requests : pc'[p] = IF p = q THEN "dropped" ELSE pc[p]
    BY DEF TypeOK
  <2>3. \A d \in Devices : ~missed'[d] => ~missed[d]
    BY DEF TypeOK
  <2>4. pc[q] = "rotated" => missed'[By[q]]
    BY DEF TypeOK
  <2>5. \A d \in Devices : d \notin Overlapping /\ ~missed'[d] /\ Active(d)' /\ Settled(d)'
          => row'[d] = held'[d]
    <3> SUFFICES ASSUME NEW d \in Devices, d \notin Overlapping, ~missed'[d],
                        Active(d)', Settled(d)'
                 PROVE  row[d] = held[d]
      BY <2>1
    <3>1. ~missed[d] /\ Active(d)
      BY <2>1, <2>3
    <3>2. \A p \in Refreshes : By[p] = d => pc[p] # "rotated"
      BY <2>2, <2>4
    <3> QED BY <3>1, <3>2 DEF HeldIsStored
  <2> QED BY <2>1, <2>2, <2>3, <2>5 DEF HeldIsStored
<1> QED BY <1>1, <1>2, <1>3, <1>4, <1>5

LEMMA FindSessionSInv == ASSUME SInv, NEW q \in Refreshes, FindSession(q) PROVE SInv'
<1> USE ByAssumption, DistinctAssumption DEF SInv, FindSession, Matches
<1>1. TypeOK'
  BY DEF TypeOK
<1>2. KindOK'
  BY DEF TypeOK, KindOK
<1>3. OwnOK'
  BY DEF TypeOK, OwnOK, MintedFor
<1>4. OneAtATime'
  BY DEF TypeOK, KindOK, OneAtATime
<1>5. HeldIsStored'
  BY DEF TypeOK, KindOK, OwnOK, MintedFor, OneAtATime, HeldIsStored
<1> QED BY <1>1, <1>2, <1>3, <1>4, <1>5

LEMMA UnauthorizedSInv == ASSUME SInv, NEW q \in Refreshes, Unauthorized(q) PROVE SInv'
<1> USE ByAssumption, DistinctAssumption DEF SInv, Unauthorized
<1>1. TypeOK'
  BY DEF TypeOK
<1>2. KindOK'
  BY DEF TypeOK, KindOK
<1>3. OwnOK'
  BY DEF TypeOK, OwnOK, MintedFor
<1>4. OneAtATime'
  BY DEF TypeOK, KindOK, OneAtATime
<1>5. HeldIsStored'
  BY DEF TypeOK, KindOK, OwnOK, MintedFor, OneAtATime, HeldIsStored
<1> QED BY <1>1, <1>2, <1>3, <1>4, <1>5

LEMMA RotateSInv == ASSUME SInv, NEW q \in Refreshes, Rotate(q) PROVE SInv'
<1> USE ByAssumption, DistinctAssumption DEF SInv, Rotate, Updated
<1>1. TypeOK'
  BY DEF TypeOK
<1>2. KindOK'
  BY DEF TypeOK, KindOK
<1>3. OwnOK'
  BY DEF TypeOK, OwnOK, MintedFor
<1>4. OneAtATime'
  BY DEF TypeOK, KindOK, OneAtATime
<1>5. HeldIsStored'
  BY DEF TypeOK, KindOK, OwnOK, MintedFor, OneAtATime, HeldIsStored
<1> QED BY <1>1, <1>2, <1>3, <1>4, <1>5

LEMMA AnswerRefreshSInv == ASSUME SInv, NEW q \in Refreshes, AnswerRefresh(q) PROVE SInv'
<1> USE ByAssumption, DistinctAssumption DEF SInv, AnswerRefresh
<1>1. TypeOK'
  BY DEF TypeOK
<1>2. KindOK'
  BY DEF TypeOK, KindOK
<1>3. OwnOK'
  BY DEF TypeOK, OwnOK, MintedFor
<1>4. OneAtATime'
  BY DEF TypeOK, KindOK, OneAtATime
<1>5. HeldIsStored'
  BY DEF TypeOK, KindOK, OwnOK, MintedFor, OneAtATime, HeldIsStored
<1> QED BY <1>1, <1>2, <1>3, <1>4, <1>5

LEMMA DeleteSessionSInv == ASSUME SInv, NEW q \in Logouts, DeleteSession(q) PROVE SInv'
<1> USE ByAssumption, DistinctAssumption DEF SInv, DeleteSession, Deletes
<1>1. TypeOK'
  BY DEF TypeOK
<1>2. KindOK'
  BY DEF TypeOK, KindOK
<1>3. OwnOK'
  BY DEF TypeOK, OwnOK, MintedFor
<1>4. OneAtATime'
  BY DEF TypeOK, KindOK, OneAtATime
<1>5. HeldIsStored'
  BY DEF TypeOK, KindOK, OwnOK, MintedFor, OneAtATime, HeldIsStored
<1> QED BY <1>1, <1>2, <1>3, <1>4, <1>5

LEMMA AnswerLogoutSInv == ASSUME SInv, NEW q \in Logouts, AnswerLogout(q) PROVE SInv'
<1> USE ByAssumption, DistinctAssumption DEF SInv, AnswerLogout
<1>1. TypeOK'
  BY DEF TypeOK
<1>2. KindOK'
  BY DEF TypeOK, KindOK
<1>3. OwnOK'
  BY DEF TypeOK, OwnOK, MintedFor
<1>4. OneAtATime'
  BY DEF TypeOK, KindOK, OneAtATime
<1>5. HeldIsStored'
  BY DEF TypeOK, KindOK, OwnOK, MintedFor, OneAtATime, HeldIsStored
<1> QED BY <1>1, <1>2, <1>3, <1>4, <1>5

-----------------------------------------------------------------------------
LEMMA ExpireSInv == ASSUME SInv, NEW d \in Devices, Expire(d) PROVE SInv'
<1> USE ByAssumption, DistinctAssumption DEF SInv, Expire
<1>1. TypeOK'
  BY DEF TypeOK
<1>2. KindOK' /\ OwnOK' /\ OneAtATime' /\ HeldIsStored'
  BY DEF TypeOK, KindOK, OwnOK, MintedFor, OneAtATime, HeldIsStored
<1> QED BY <1>1, <1>2

LEMMA StutterSInv == ASSUME SInv, UNCHANGED vars PROVE SInv'
  BY DEF vars, SInv, TypeOK, KindOK, OwnOK, MintedFor, OneAtATime, HeldIsStored

LEMMA NextSInv == ASSUME SInv, [Next]_vars PROVE SInv'
<1>1. ASSUME NEW q \in Requests, Send(q) PROVE SInv'
  BY <1>1, SendSInv
<1>2. ASSUME NEW q \in Requests, Drop(q) PROVE SInv'
  BY <1>2, DropSInv
<1>3. ASSUME NEW q \in Refreshes, Refresh(q) PROVE SInv'
  BY <1>3, FindSessionSInv, UnauthorizedSInv, RotateSInv, AnswerRefreshSInv DEF Refresh
<1>4. ASSUME NEW q \in Logouts, Logout(q) PROVE SInv'
  BY <1>4, DeleteSessionSInv, AnswerLogoutSInv DEF Logout
<1>5. ASSUME NEW d \in Devices, Expire(d) PROVE SInv'
  BY <1>5, ExpireSInv
<1>6. CASE Finished \/ UNCHANGED vars
  BY <1>6, StutterSInv DEF Finished
<1> QED BY <1>1, <1>2, <1>3, <1>4, <1>5, <1>6 DEF Next

(***************************************************************************)
(* What holds of sessions, tokens and devices between any two statements   *)
(* of refresh_token and logout.                                            *)
(***************************************************************************)
THEOREM SInvHolds == Spec => []SInv
  BY SInvInit, NextSInv, PTL DEF Spec

(***************************************************************************)
(* The rows, tokens and requests of refresh_token and logout keep their    *)
(* types.                                                                  *)
(***************************************************************************)
THEOREM TypeCorrect == Spec => []TypeOK
  BY SInvHolds, PTL DEF SInv

(***************************************************************************)
(* No session is ever left with a token minted for another device.         *)
(***************************************************************************)
THEOREM SessionsAreSeparate == Spec => []SessionsSeparate
<1>1. SInv => SessionsSeparate
  BY DistinctAssumption DEF SInv, OwnOK, MintedFor, SessionsSeparate, TypeOK
<1> QED BY <1>1, SInvHolds, PTL

(***************************************************************************)
(* After an answered logout of an orderly device the session is gone.      *)
(***************************************************************************)
THEOREM LogoutOfOrderlyRevokes == Spec => []OrderlyLogoutRevokes
<1>1. SInv => OrderlyLogoutRevokes
  BY DEF SInv, HeldIsStored, OrderlyLogoutRevokes
<1> QED BY <1>1, SInvHolds, PTL

(***************************************************************************)
(* No step brings back a session whose row is gone: the UPDATE of a        *)
(* refresh that saw the row finds nothing.                                 *)
(***************************************************************************)
THEOREM EndedSessionsStayEnded == Spec => EndedStaysEnded
<1> DEFINE Ended(d) == ~Active(d) => ~Active(d)'
<1>1. ASSUME [Next]_vars, NEW d \in Devices PROVE Ended(d)
  <2>1. ASSUME NEW q \in Refreshes, Rotate(q) PROVE Ended(d)
    BY <2>1 DEF Rotate, Updated
  <2>2. ASSUME NEW q \in Logouts, DeleteSession(q) PROVE Ended(d)
    BY <2>2 DEF DeleteSession
  <2>3. CASE UNCHANGED row
    BY <2>3
  <2> QED
    BY <1>1, <2>1, <2>2, <2>3
    DEF Next, Refresh, Logout, Send, Drop, FindSession, Unauthorized, AnswerRefresh,
        AnswerLogout, Expire, Finished, vars
<1>2. [Next]_vars => [\A d \in Devices : Ended(d)]_vars
  BY <1>1
<1> QED BY <1>2, PTL DEF Spec, EndedStaysEnded

(***************************************************************************)
(* An orderly device is refused a refresh only if its session was logged   *)
(* out, has expired, or an answer with its current token was lost.         *)
(***************************************************************************)
THEOREM RefusalsHaveAReason == Spec => RefusedForAReason
<1> DEFINE Refused(q) == pc[q] # "refused" /\ pc'[q] = "refused" /\ By[q] \notin Overlapping
           Reason(d) == ~Active(d) \/ expired[d] \/ missed[d]
<1>1. ASSUME SInv, [Next]_vars, NEW q \in Refreshes, Refused(q) PROVE Reason(By[q])
  <2>1. Unauthorized(q)
    BY <1>1
    DEF Next, Refresh, Logout, Send, Drop, FindSession, Unauthorized, Rotate, AnswerRefresh,
        DeleteSession, AnswerLogout, Expire, Finished, vars, SInv, TypeOK
  <2>2. By[q] \in Devices /\ ~Matches(q, By[q])
    BY <2>1, ByAssumption DEF Unauthorized
  <2>3. Settled(By[q])
    BY <1>1, <2>1 DEF SInv, OneAtATime, Unauthorized
  <2>4. ~missed[By[q]] /\ Active(By[q]) => row[By[q]] = token[q]
    BY <1>1, <2>1, <2>2, <2>3 DEF SInv, OneAtATime, HeldIsStored, Unauthorized
  <2> QED BY <2>2, <2>4 DEF Matches
<1>2. SInv /\ [Next]_vars => [\A q \in Refreshes : Refused(q) => Reason(By[q])]_vars
  BY <1>1
<1> QED BY <1>2, SInvHolds, PTL DEF Spec, RefusedForAReason

-----------------------------------------------------------------------------
(***************************************************************************)
(* A logout is on its way with a token that its session does not hold, or  *)
(* does not hold any more, though the session is there.                    *)
(***************************************************************************)
StaleLogout == \E q \in Logouts : pc[q] = "sent" /\ Active(By[q]) /\ row[By[q]] # token[q]

\* What a logout has deleted is gone.
LogoutDone == \A q \in Logouts : pc[q] \in {"deleted", "answered"} => ~Active(By[q])

LEMMA LogoutDoneStep ==
  ASSUME SInv, ~StaleLogout, LogoutDone, [Next]_vars PROVE LogoutDone'
<1> SUFFICES ASSUME NEW q \in Logouts, pc'[q] \in {"deleted", "answered"} PROVE ~Active(By[q])'
  BY DEF LogoutDone
<1>0. By[q] \in Devices /\ q \in Requests /\ q \notin Refreshes /\ TypeOK
  BY ByAssumption, DistinctAssumption DEF SInv
<1>1. ASSUME ~Active(By[q]) PROVE ~Active(By[q])'
  <2>1. ASSUME NEW p \in Refreshes, Rotate(p) PROVE row'[By[q]] = row[By[q]]
    BY <1>0, <1>1, <2>1 DEF Rotate, Updated
  <2>2. ASSUME NEW p \in Logouts, DeleteSession(p) PROVE ~Active(By[q])'
    BY <1>0, <1>1, <2>2 DEF DeleteSession
  <2>3. CASE UNCHANGED row
    BY <1>1, <2>3
  <2> QED
    BY <1>1, <2>1, <2>2, <2>3
    DEF Next, Refresh, Logout, Send, Drop, FindSession, Unauthorized, AnswerRefresh,
        AnswerLogout, Expire, Finished, vars
<1>2. CASE pc[q] \in {"deleted", "answered"}
  BY <1>1, <1>2 DEF LogoutDone
<1>3. CASE pc[q] \notin {"deleted", "answered"}
  <2>1. DeleteSession(q)
    BY <1>0, <1>3
    DEF Next, Refresh, Logout, Send, Drop, FindSession, Unauthorized, Rotate, AnswerRefresh,
        DeleteSession, AnswerLogout, Expire, Finished, vars, TypeOK
  <2> QED BY <1>0, <2>1 DEF DeleteSession, Deletes, StaleLogout
<1> QED BY <1>2, <1>3

(***************************************************************************)
(* The one way in which a logout fails to revoke its session: the token it *)
(* brings is not the one the session holds.  It does not matter what else  *)
(* crosses it, nor which answers were lost.                                *)
(***************************************************************************)
THEOREM LogoutRevokesUnlessStale == Spec /\ []~StaleLogout => []LogoutRevokes
<1>1. Init => LogoutDone
  BY DEF Init, LogoutDone
<1>2. SInv /\ ~StaleLogout /\ LogoutDone /\ [Next]_vars => LogoutDone'
  BY LogoutDoneStep
<1>3. LogoutDone => LogoutRevokes
  BY DEF LogoutDone, LogoutRevokes
<1> QED BY <1>1, <1>2, <1>3, SInvHolds, PTL DEF Spec

-----------------------------------------------------------------------------
(***************************************************************************)
(* What the SELECT of an orderly device found is still so when its UPDATE  *)
(* runs, unless the session has ended in between.                          *)
(***************************************************************************)
FoundIsCurrent ==
  \A q \in Refreshes :
    By[q] \notin Overlapping /\ pc[q] = "found" /\ Active(By[q]) => row[By[q]] = token[q]

LEMMA FoundIsCurrentStep ==
  ASSUME SInv, FoundIsCurrent, [Next]_vars PROVE FoundIsCurrent'
<1> SUFFICES ASSUME NEW q \in Refreshes, By[q] \notin Overlapping, pc'[q] = "found",
                    Active(By[q])'
             PROVE  row'[By[q]] = token'[q]
  BY DEF FoundIsCurrent
<1>0. By[q] \in Devices /\ q \in Requests /\ q \notin Logouts /\ TypeOK /\ OwnOK /\ OneAtATime
  BY ByAssumption, DistinctAssumption DEF SInv
<1>1. CASE FindSession(q)
  <2>1. PICK d \in Devices : Matches(q, d) /\ found' = [found EXCEPT ![q] = d]
    BY <1>1 DEF FindSession
  <2>2. d = By[q]
    BY <1>0, <1>1, <2>1 DEF FindSession, Matches, OwnOK, TypeOK
  <2> QED BY <1>1, <2>1, <2>2 DEF FindSession, Matches
<1>2. CASE ~FindSession(q)
  <2>1. pc[q] = "found" /\ token'[q] = token[q]
    BY <1>0, <1>2
    DEF Next, Refresh, Logout, Send, Drop, FindSession, Unauthorized, Rotate, AnswerRefresh,
        DeleteSession, AnswerLogout, Expire, Finished, vars, TypeOK
  <2>2. ASSUME NEW p \in Refreshes, Rotate(p) PROVE row'[By[q]] = row[By[q]]
    <3>1. pc[p] = "found" /\ found[p] = By[p] /\ p # q
      BY <1>0, <2>2 DEF Rotate, TypeOK, OwnOK
    <3>2. By[p] # By[q]
      BY <1>0, <2>1, <3>1 DEF OneAtATime
    <3> QED BY <1>0, <2>2, <3>1, <3>2 DEF Rotate, Updated
  <2>3. ASSUME NEW p \in Logouts, DeleteSession(p) PROVE row'[By[q]] = row[By[q]]
    BY <1>0, <2>3 DEF DeleteSession
  <2>4. row'[By[q]] = row[By[q]]
    BY <2>2, <2>3
    DEF Next, Refresh, Logout, Send, Drop, FindSession, Unauthorized, AnswerRefresh,
        AnswerLogout, Expire, Finished, vars
  <2> QED BY <2>1, <2>4 DEF FoundIsCurrent
<1> QED BY <1>1, <1>2

(***************************************************************************)
(* For a device that waits for each answer the SELECT and the UPDATE of a  *)
(* refresh come to one compare-and-swap: the token that is replaced is the *)
(* one that was presented, so no token is exchanged for two others.        *)
(***************************************************************************)
PresentedIsReplaced ==
  [][\A q \in Refreshes :
       pc[q] = "found" /\ pc'[q] = "rotated" /\ By[q] \notin Overlapping /\ Active(By[q]) =>
         row[By[q]] = token[q] /\ row'[By[q]] = q]_vars

THEOREM TokensAreSwapped == Spec => PresentedIsReplaced
<1> DEFINE Swapped(q) ==
      pc[q] = "found" /\ pc'[q] = "rotated" /\ By[q] \notin Overlapping /\ Active(By[q]) =>
        row[By[q]] = token[q] /\ row'[By[q]] = q
<1>1. ASSUME SInv, FoundIsCurrent, [Next]_vars, NEW q \in Refreshes PROVE Swapped(q)
  <2> SUFFICES ASSUME pc[q] = "found", pc'[q] = "rotated", By[q] \notin Overlapping, Active(By[q])
               PROVE  row[By[q]] = token[q] /\ row'[By[q]] = q
    OBVIOUS
  <2>1. Rotate(q)
    BY <1>1
    DEF Next, Refresh, Logout, Send, Drop, FindSession, Unauthorized, Rotate, AnswerRefresh,
        DeleteSession, AnswerLogout, Expire, Finished, vars, SInv, TypeOK
  <2>2. By[q] \in Devices /\ found[q] = By[q]
    BY <1>1, <2>1, ByAssumption DEF SInv, OwnOK, TypeOK, Rotate
  <2> QED BY <1>1, <2>1, <2>2 DEF FoundIsCurrent, Rotate, Updated
<1>2. SInv /\ FoundIsCurrent /\ [Next]_vars => [\A q \in Refreshes : Swapped(q)]_vars
  BY <1>1
<1>3. Init => FoundIsCurrent
  BY DEF Init, FoundIsCurrent
<1>4. SInv /\ FoundIsCurrent /\ [Next]_vars => FoundIsCurrent'
  BY FoundIsCurrentStep
<1> QED BY <1>2, <1>3, <1>4, SInvHolds, PTL DEF Spec, PresentedIsReplaced

=============================================================================
