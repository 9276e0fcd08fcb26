------------------------- MODULE CollabRoomsProofs -------------------------
(***************************************************************************)
(* Proofs about CollabRooms, for any connections, rooms, users and         *)
(* invites.  Each half is taken as it was proved: the live rooms by        *)
(* LiveRoomsProofs, the tables by RoomMembersProofs (MP).  What is left is *)
(* the check that joins them: EnteredInvited follows a connection from     *)
(* verify_room_member to its room, SendersEntered a message back to the    *)
(* connection that sent it.                                                *)
(***************************************************************************)
EXTENDS CollabRoomsRefinement, LiveRoomsProofs

MP == INSTANCE RoomMembersProofs

(***************************************************************************)
(* Both halves are found in the whole: its behaviours are behaviours of    *)
(* LiveRooms and of RoomMembers, so all that is proved of them holds here. *)
(***************************************************************************)
LEMMA CollabStepIsLive == [CollabNext]_collabVars => [Next]_vars
  BY DEF CollabNext, LiveStep, MemberStep, collabVars

THEOREM LiveHalf == CollabSpec => SafeSpec
<1>1. CollabInit => Init
  BY DEF CollabInit
<1> QED BY <1>1, CollabStepIsLive, PTL DEF CollabSpec, SafeSpec

LEMMA CollabStepIsMembers == [CollabNext]_collabVars => [MP!Next]_(MP!vars)
  BY DEF CollabNext, LiveStep, MemberStep, collabVars, memberVars,
         Members!Next, MP!Next,
         Members!InsertRoom, MP!InsertRoom,
         Members!InsertOwner, MP!InsertOwner,
         Members!AnswerCreate, MP!AnswerCreate,
         Members!DropCreate, MP!DropCreate,
         Members!CreateFailed, MP!CreateFailed,
         Members!DeleteRoom, MP!DeleteRoom,
         Members!RefuseInvite, MP!RefuseInvite,
         Members!VerifyOwner, MP!VerifyOwner,
         Members!MayInvite, MP!MayInvite,
         Members!InsertMember, MP!InsertMember,
         Members!DropInvite, MP!DropInvite,
         Members!ForeignKey, MP!ForeignKey,
         Members!RowWritten, MP!RowWritten,
         Members!RoleWritten, MP!RoleWritten,
         Members!Finished, MP!Finished,
         Members!Exists, MP!Exists,
         Members!IsMember, MP!IsMember,
         Members!IsOwner, MP!IsOwner,
         Members!vars, MP!vars

(***************************************************************************)
(* The tables are those of RoomMembers, whatever the live rooms do.        *)
(***************************************************************************)
THEOREM MembersHalf == CollabSpec => MP!Spec
<1>1. CollabInit => MP!Init
  BY DEF CollabInit, Members!Init, MP!Init
<1> QED BY <1>1, CollabStepIsMembers, PTL DEF CollabSpec, MP!Spec

\* The inductive invariant of the tables holds here too.
LEMMA MembersInv == CollabSpec => []MP!RInv
  BY MembersHalf, MP!RInvHolds, CreatorAssumption, RolesAssumption, PTL

\* Who has passed the check, and who has had a part in a room.
EnteredInvited == \A c \in Conns : Entered(c) => Invited(UserOf[c], RoomOf[c])

SendersEntered ==
  \A o \in Conns : \A i \in 1 .. Len(log[o]) :
    log[o][i].from \in Conns /\ room[log[o][i].from] # None

LEMMA LogFrame ==
  ASSUME TInv, [Next]_vars
  PROVE  (\E c \in Conns : ReceiveBroadcast(c)) \/ log' = log
<1> USE DEF roomVars, handlerVars, forwardVars, receiveVars
<1>1. ASSUME NEW c \in Conns, Join(c) PROVE log' = log
  BY <1>1 DEF Join, Admit, Refuse, GetOrCreate, CountIn, Subscribe, EncodeState, SendState
<1>2. ASSUME NEW c \in Conns, Forward(c) PROVE log' = log
  BY <1>2 DEF Forward, ForwardRecv, ForwardLagged, ForwardSend, ForwardError, ForwardCancel
<1>3. ASSUME NEW c \in Conns, Receive(c) PROVE ReceiveBroadcast(c) \/ log' = log
  BY <1>3 DEF Receive, ReceiveApply, ReceiveEnd, ReceiveCancel
<1>4. ASSUME NEW c \in Conns, Leave(c) \/ Disconnect(c) PROVE log' = log
  BY <1>4 DEF Leave, Select, CountOut, ReadCount, RemoveRoom, Disconnect
<1>5. CASE UNCHANGED vars
  BY <1>5 DEF vars
<1> QED BY <1>1, <1>2, <1>3, <1>4, <1>5 DEF Next, Finished

\* A connection keeps the room it has been given.
LEMMA RoomKept ==
  ASSUME TInv, [Next]_vars, NEW c \in Conns
  PROVE  /\ room[c] # None => room'[c] = room[c]
         /\ room[c] = None /\ room'[c] # None => pc[c] = "admitted"
<1> USE DEF TInv, TypeOK, roomVars
<1>1. ASSUME NEW d \in Conns, GetOrCreate(d) PROVE room[c] # None => room'[c] = room[c]
  <2>1. pc[d] = "admitted" /\ room' = [room EXCEPT ![d] = RoomFor(d)]
    BY <1>1 DEF GetOrCreate
  <2>2. room[d] = None
    BY <2>1 DEF TasksOK, TaskOK, NotJoined
  <2> QED BY <2>1, <2>2
<1>2. ASSUME NEW d \in Conns, GetOrCreate(d)
      PROVE  room[c] = None /\ room'[c] # None => pc[c] = "admitted"
  BY <1>2 DEF GetOrCreate
<1>3. ASSUME NEW d \in Conns, ReadCount(d) \/ RemoveRoom(d) PROVE room' = room
  BY <1>3 DEF ReadCount, RemoveRoom
<1> QED BY <1>1, <1>2, <1>3, RegistryFrame

-----------------------------------------------------------------------------
LEMMA InvitedStands ==
  ASSUME MP!TypeOK, [MP!Next]_(MP!vars), NEW u, NEW r \in RoomIds, Invited(u, r)
  PROVE  Invited(u, r)'
<1>1. (\A s \in RoomIds : creating[s] # "new" => creating'[s] # "new")
      /\ \A i \in Invites : invite[i] = "done" => invite'[i] = "done" /\ asked'[i] = asked[i]
  BY MP!LettingInStands, CreatorAssumption, RolesAssumption
<1> QED BY <1>1 DEF Invited

\* Whoever passes verify_room_member has been let in.
LEMMA AdmitsInvited ==
  ASSUME MP!RInv, NEW c \in Conns, MayEnter(c)
  PROVE  Invited(UserOf[c], RoomOf[c]) /\ Members!Exists(RoomOf[c])
<1>1. UserOf[c] \in Users /\ RoomOf[c] \in RoomIds
  BY UserOfAssumption, RoomOfAssumption
<1>2. MP!IsMember(UserOf[c], RoomOf[c])
  BY DEF MayEnter, Members!IsMember, MP!IsMember
<1>3. Invited(UserOf[c], RoomOf[c])
  BY <1>1, <1>2, MP!MemberWasLetIn, CreatorAssumption, RolesAssumption DEF Invited
<1>4. MP!Exists(RoomOf[c])
  BY <1>1, <1>2 DEF MP!RInv, MP!MembersOfRooms
<1> QED BY <1>3, <1>4 DEF MP!Exists, Members!Exists

\* The tasks and the client leave the handler where it is.
LEMMA OtherSteps ==
  ASSUME NEW d \in Conns, Forward(d) \/ Receive(d) \/ Disconnect(d)
  PROVE  pc' = pc
  BY DEF Forward, ForwardRecv, ForwardLagged, ForwardSend, ForwardError, ForwardCancel,
         Receive, ReceiveApply, ReceiveBroadcast, ReceiveEnd, ReceiveCancel, Disconnect,
         handlerVars

\* Only a handler that has just been called is admitted.
LEMMA OnlyAdmitted ==
  ASSUME TInv, [Next]_vars, NEW c \in Conns, pc[c] # "admitted", pc'[c] = "admitted"
  PROVE  Admit(c)
<1> USE DEF TInv, TypeOK
<1>1. ASSUME NEW d \in Conns, Join(d) PROVE Admit(c)
  BY <1>1 DEF Join, Admit, Refuse, GetOrCreate, CountIn, Subscribe, EncodeState, SendState
<1>2. ASSUME NEW d \in Conns, Leave(d) PROVE FALSE
  BY <1>2 DEF Leave, Select, CountOut, ReadCount, RemoveRoom
<1>3. ASSUME NEW d \in Conns, Forward(d) \/ Receive(d) \/ Disconnect(d) PROVE pc' = pc
  BY <1>3, OtherSteps
<1>4. UNCHANGED vars => pc' = pc
  BY DEF vars, handlerVars
<1> QED BY <1>1, <1>2, <1>3, <1>4 DEF Next, Finished

\* An admitted handler gets a room before anything else.
LEMMA AdmittedGetsRoom ==
  ASSUME TInv, [Next]_vars, NEW c \in Conns, pc[c] = "admitted"
  PROVE  pc'[c] = "admitted" \/ (pc'[c] = "acquired" /\ room'[c] # None)
<1> USE DEF TInv, TypeOK
<1>1. ASSUME NEW d \in Conns, Join(d)
      PROVE  pc'[c] = "admitted" \/ (pc'[c] = "acquired" /\ room'[c] # None)
  BY <1>1, ConnsAssumption
  DEF Join, Admit, Refuse, GetOrCreate, RoomFor, CountIn, Subscribe, EncodeState, SendState
<1>2. ASSUME NEW d \in Conns, Leave(d) PROVE pc'[c] = "admitted"
  BY <1>2 DEF Leave, Select, CountOut, ReadCount, RemoveRoom
<1>3. ASSUME NEW d \in Conns, Forward(d) \/ Receive(d) \/ Disconnect(d) PROVE pc' = pc
  BY <1>3, OtherSteps
<1>4. UNCHANGED vars => pc' = pc
  BY DEF vars, handlerVars
<1> QED BY <1>1, <1>2, <1>3, <1>4 DEF Next, Finished

\* The handler comes to "admitted" through the check.
LEMMA AdmittedByCheck ==
  ASSUME TInv, [CollabNext]_collabVars, NEW c \in Conns, Admitted(c)
  PROVE  MayEnter(c)
  BY DEF CollabNext, LiveStep, MemberStep, Admitted, collabVars, vars, handlerVars

LEMMA EnteredStep ==
  TInv /\ MP!RInv /\ EnteredInvited /\ [CollabNext]_collabVars
    /\ [Next]_vars /\ [MP!Next]_(MP!vars) => EnteredInvited'
<1> SUFFICES ASSUME TInv, MP!RInv, EnteredInvited, [CollabNext]_collabVars,
                    [Next]_vars, [MP!Next]_(MP!vars), NEW c \in Conns, Entered(c)'
             PROVE  Invited(UserOf[c], RoomOf[c])'
  BY DEF EnteredInvited
<1>1. RoomOf[c] \in RoomIds /\ MP!TypeOK
  BY RoomOfAssumption DEF MP!RInv
<1>2. Invited(UserOf[c], RoomOf[c])
  <2>1. CASE Entered(c)
    BY <2>1 DEF EnteredInvited
  <2>2. CASE ~Entered(c)
    <3>1. pc[c] # "admitted" /\ pc'[c] = "admitted"
      BY <2>2, RoomKept DEF Entered
    <3>2. pc[c] = "upgraded"
      BY <3>1, OnlyAdmitted DEF Admit
    <3> QED BY <3>1, <3>2, AdmittedByCheck, AdmitsInvited DEF Admitted
  <2> QED BY <2>1, <2>2
<1> QED BY <1>1, <1>2, InvitedStands

LEMMA SendersStep == TInv /\ SendersEntered /\ [Next]_vars => SendersEntered'
<1> SUFFICES ASSUME TInv, SendersEntered, [Next]_vars, NEW o \in Conns,
                    NEW i \in 1 .. Len(log'[o])
             PROVE  log'[o][i].from \in Conns /\ room'[log'[o][i].from] # None
  BY DEF SendersEntered
<1>0. log[o] \in Seq(Message) /\ Len(log[o]) \in Nat
  BY DEF TInv, TypeOK
<1>1. CASE log' = log
  BY <1>1, RoomKept DEF SendersEntered
<1>2. ASSUME NEW c \in Conns, ReceiveBroadcast(c)
      PROVE  log'[o][i].from \in Conns /\ room'[log'[o][i].from] # None
  <2>1. room[c] # None
    BY <1>2 DEF ReceiveBroadcast, TInv, TasksOK, TaskOK
  <2>2. log' = [log EXCEPT ![room[c]] = Append(@, [from |-> c, upd |-> applied[c]])]
    BY <1>2 DEF ReceiveBroadcast
  <2>3. log'[o] = log[o] \/ log'[o] = Append(log[o], [from |-> c, upd |-> applied[c]])
    BY <2>2 DEF TInv, TypeOK
  <2>4. (i \in 1 .. Len(log[o]) /\ log'[o][i] = log[o][i])
        \/ log'[o][i] = [from |-> c, upd |-> applied[c]]
    BY <1>0, <2>3
  <2>5. log'[o][i].from = c \/ (i \in 1 .. Len(log[o]) /\ log'[o][i].from = log[o][i].from)
    BY <2>4
  <2> QED BY <2>1, <2>5, RoomKept DEF SendersEntered
<1> QED BY <1>1, <1>2, LogFrame

-----------------------------------------------------------------------------
LEMMA InvariantsHold == CollabSpec => [](TInv /\ DataOK /\ MP!RInv /\ EnteredInvited /\ SendersEntered)
<1>1. CollabInit => EnteredInvited /\ SendersEntered
  BY DEF CollabInit, Init, EnteredInvited, SendersEntered, Entered
<1>2. [CollabNext]_collabVars => [Next]_vars
  BY CollabStepIsLive
<1>3. [CollabNext]_collabVars => [MP!Next]_(MP!vars)
  BY CollabStepIsMembers
<1> QED BY <1>1, <1>2, <1>3, EnteredStep, SendersStep, LiveHalf, TInvAlways, DataAlways,
           MembersInv, PTL DEF CollabSpec

(***************************************************************************)
(* A document stays among those who were let into its room.                *)
(***************************************************************************)
THEOREM SharedAmongThoseLetIn == CollabSpec => []SharedAmongInvited
<1>1. TInv /\ DataOK /\ EnteredInvited /\ SendersEntered => SharedAmongInvited
  <2> SUFFICES ASSUME TInv, DataOK, EnteredInvited, SendersEntered PROVE SharedAmongInvited
    OBVIOUS
  <2>1. \A o \in Conns : DOMAIN log[o] = 1 .. Len(log[o])
    BY DEF TInv, TypeOK
  <2>2. ASSUME NEW o \in Conns, NEW i \in 1 .. Len(log[o])
        PROVE  Invited(UserOf[log[o][i].from], RoomOf[o])
    <3>1. RoomOf[log[o][i].from] = RoomOf[o]
      BY DEF DataOK, LogOK
    <3>2. Invited(UserOf[log[o][i].from], RoomOf[log[o][i].from])
      BY DEF SendersEntered, EnteredInvited, Entered
    <3> QED BY <3>1, <3>2
  <2>3. ASSUME NEW c \in Conns, room[c] # None PROVE Invited(UserOf[c], RoomOf[c])
    BY <2>3 DEF EnteredInvited, Entered
  <2> QED BY <2>1, <2>2, <2>3 DEF SharedAmongInvited
<1> QED BY <1>1, InvariantsHold, PTL

(***************************************************************************)
(* A room that is not in collab_rooms admits nobody.                       *)
(***************************************************************************)
THEOREM DeletedRoomsDrain == CollabSpec => DeletedRoomDrains
<1> DEFINE Drains == \A c \in Conns : Admitted(c) => Members!Exists(RoomOf[c])
<1>1. TInv /\ MP!RInv /\ [CollabNext]_collabVars => [Drains]_collabVars
  BY AdmittedByCheck, AdmitsInvited
<1> QED BY <1>1, InvariantsHold, PTL DEF CollabSpec, DeletedRoomDrains

(***************************************************************************)
(* Rooms do not mix, also while they are created, deleted and shared.      *)
(***************************************************************************)
THEOREM RoomsStayIsolated == CollabSpec => []RoomsIsolated
  BY LiveHalf, RoomsAreIsolated, PTL

-----------------------------------------------------------------------------
(***************************************************************************)
(* The refinement of SharedWorkspace.  The tables' half of a step founds,  *)
(* closes or lets in; the live half admits, or does what SharedDocument    *)
(* allows, with entering left to those who are admitted.                   *)
(***************************************************************************)
Tables == <<phaseBar, guestsBar>>

LEMMA WorkspaceInitial == CollabInit => Workspace!WorkspaceInit
<1> SUFFICES ASSUME CollabInit PROVE Workspace!WorkspaceInit
  OBVIOUS
<1>1. Init /\ Members!Init
  BY DEF CollabInit
<1>2. Workspace!Init
  BY <1>1 DEF Init, Workspace!Init, atBar, servedBar
<1>3. phaseBar = [r \in RoomIds |-> "new"] /\ guestsBar = [r \in RoomIds |-> {}]
  BY <1>1 DEF Members!Init, phaseBar, guestsBar, InvitesTo
<1>4. admittedBar = {}
  BY <1>1 DEF Init, admittedBar, Entered
<1> QED BY <1>2, <1>3, <1>4 DEF Workspace!WorkspaceInit

\* Invites that are not carried out are not letters.
LEMMA SameLetters ==
  ASSUME \A i \in Invites : (invite'[i] = "done") = (invite[i] = "done"),
         \A i \in Invites : invite[i] = "done" => asked'[i] = asked[i]
  PROVE  guestsBar' = guestsBar
<1>1. ASSUME NEW r \in RoomIds
      PROVE  {Letter(asked[i]) : i \in InvitesTo(r)}' = {Letter(asked[i]) : i \in InvitesTo(r)}
  <2>1. \A i \in Invites : (i \in InvitesTo(r))' <=> i \in InvitesTo(r)
    BY DEF InvitesTo
  <2>2. \A i \in InvitesTo(r) : i \in Invites /\ asked'[i] = asked[i]
    BY DEF InvitesTo
  <2>3. InvitesTo(r)' = InvitesTo(r)
    BY <2>1 DEF InvitesTo
  <2> QED BY <2>2, <2>3 DEF Letter
<1> QED BY <1>1 DEF guestsBar

LEMMA LiveSame == UNCHANGED vars => UNCHANGED <<Visible, admittedBar>>
<1>1. UNCHANGED vars => UNCHANGED <<pc, room, doc, received>>
  BY DEF vars, roomVars, handlerVars, forwardVars
<1>2. UNCHANGED <<pc, room>> => UNCHANGED <<atBar, servedBar, admittedBar>>
  BY DEF atBar, servedBar, admittedBar, Joining, Entered
<1> QED BY <1>1, <1>2 DEF Visible

\* An invite that is carried out is a letter to an open room, from an owner.
LEMMA InviteLetsIn ==
  ASSUME MP!RInv, NEW i \in Invites, MP!InsertMember(i), UNCHANGED vars
  PROVE  \/ UNCHANGED Tables
         \/ \E r \in RoomIds, g \in Workspace!Letters : Workspace!LetIn(r, g)
<1> DEFINE q == asked[i]
<1>0. MP!TypeOK /\ MP!InviteOK
  BY DEF MP!RInv
<1>1. /\ q \in MP!Asked /\ q.room \in RoomIds
      /\ creating[q.room] # "new" /\ MP!MadeOwner(q.by, q.room)
      /\ invite[i] = "verified" /\ UNCHANGED <<owner, creating, asked>>
  BY <1>0 DEF MP!InsertMember, MP!InviteOK, MP!Verified, MP!Asked
<1>2. phaseBar' = phaseBar
  BY <1>1 DEF phaseBar, Members!Exists
<1>3. CASE ~MP!Exists(q.room)
  <2>1. invite' = [invite EXCEPT ![i] = "dropped"]
    BY <1>3 DEF MP!InsertMember, MP!ForeignKey
  <2>2. guestsBar' = guestsBar
    BY <2>1, <1>0, <1>1, SameLetters DEF MP!TypeOK
  <2> QED BY <1>2, <2>2 DEF Tables
<1>4. CASE MP!Exists(q.room)
  <2>1. invite' = [invite EXCEPT ![i] = "done"]
    BY <1>4 DEF MP!InsertMember, MP!ForeignKey
  <2>2. Letter(q) \in Workspace!Letters
    BY <1>1 DEF Letter, MP!Asked, Workspace!Letters
  <2>3. phaseBar[q.room] = "open"
    BY <1>1, <1>4 DEF phaseBar, Members!Exists, MP!Exists
  <2>4. Workspace!Owns(Letter(q).by, q.room)
    <3>1. CASE q.by = Creator[q.room]
      BY <3>1 DEF Workspace!Owns, Letter
    <3>2. ASSUME NEW j \in Invites, invite[j] = "done", asked[j].room = q.room,
                 asked[j].whom = q.by, asked[j].role = "owner"
          PROVE  Workspace!Owns(Letter(q).by, q.room)
      <4>1. Letter(asked[j]) \in guestsBar[q.room]
        BY <1>1, <3>2 DEF guestsBar, InvitesTo
      <4> QED BY <3>2, <4>1 DEF Workspace!Owns, Letter
    <3> QED BY <1>1, <3>1, <3>2 DEF MP!MadeOwner
  <2>5. guestsBar' = [guestsBar EXCEPT ![q.room] = @ \cup {Letter(q)}]
    <3>1. InvitesTo(q.room)' = InvitesTo(q.room) \cup {i}
      BY <1>0, <1>1, <2>1 DEF InvitesTo, MP!TypeOK
    <3>2. ASSUME NEW r \in RoomIds, r # q.room PROVE InvitesTo(r)' = InvitesTo(r)
      BY <1>0, <1>1, <2>1, <3>2 DEF InvitesTo, MP!TypeOK
    <3>3. ASSUME NEW r \in RoomIds
          PROVE  guestsBar'[r] = {Letter(asked[j]) : j \in InvitesTo(r)'}
      BY <1>1 DEF guestsBar, Letter
    <3>4. guestsBar'[q.room] = guestsBar[q.room] \cup {Letter(q)}
      BY <1>1, <3>1, <3>3 DEF guestsBar
    <3>5. \A r \in RoomIds : r # q.room => guestsBar'[r] = guestsBar[r]
      BY <3>2, <3>3 DEF guestsBar
    <3> QED BY <1>1, <3>4, <3>5 DEF guestsBar
  <2> QED BY <1>1, <1>2, <2>2, <2>3, <2>4, <2>5, LiveSame
          DEF Workspace!LetIn, Workspace!vars, Visible
<1> QED BY <1>3, <1>4

LEMMA MembersImplement ==
  ASSUME MP!RInv, MP!Next, UNCHANGED vars
  PROVE  Workspace!WorkspaceNext \/ UNCHANGED Tables
<1>0. MP!TypeOK /\ MP!CreateOK /\ UNCHANGED <<Visible, admittedBar>>
  BY LiveSame DEF MP!RInv
<1> USE DEF MP!TypeOK, Members!Exists, MP!Exists, MP!IsMember
<1>1. ASSUME NEW r \in RoomIds, MP!InsertRoom(r) PROVE Workspace!Found(r)
  <2>1. /\ creating[r] = "new" /\ creating' = [creating EXCEPT ![r] = "inserted"]
        /\ owner' = [owner EXCEPT ![r] = Creator[r]] /\ Creator[r] # None
    BY <1>1, CreatorAssumption, RolesAssumption DEF MP!InsertRoom
  <2>2. phaseBar[r] = "new" /\ phaseBar' = [phaseBar EXCEPT ![r] = "open"]
    BY <1>0, <2>1 DEF phaseBar
  <2>3. guestsBar' = guestsBar
    BY <1>1, SameLetters DEF MP!InsertRoom
  <2> QED BY <1>0, <2>2, <2>3 DEF Workspace!Found, Workspace!vars, Visible
<1>2. ASSUME NEW r \in RoomIds, MP!InsertOwner(r) \/ MP!AnswerCreate(r) \/ MP!DropCreate(r)
      PROVE  UNCHANGED Tables
  <2>1. /\ creating[r] # "new" /\ \E s : s # "new" /\ creating' = [creating EXCEPT ![r] = s]
        /\ UNCHANGED <<owner, invite, asked>>
    BY <1>2 DEF MP!InsertOwner, MP!AnswerCreate, MP!DropCreate, MP!CreateFailed
  <2>2. phaseBar' = phaseBar
    BY <1>0, <2>1 DEF phaseBar
  <2> QED BY <2>1, <2>2, SameLetters DEF Tables
<1>3. ASSUME NEW r \in RoomIds, NEW u \in Users, MP!DeleteRoom(r, u) PROVE Workspace!Close(r)
  <2>1. creating[r] # "new" /\ owner[r] # None /\ owner' = [owner EXCEPT ![r] = None]
        /\ UNCHANGED <<creating, invite, asked>>
    BY <1>0, <1>3, RolesAssumption DEF MP!DeleteRoom, MP!CreateOK
  <2>2. phaseBar[r] = "open" /\ phaseBar' = [phaseBar EXCEPT ![r] = "closed"]
    BY <1>0, <2>1 DEF phaseBar
  <2>3. guestsBar' = guestsBar
    BY <2>1, SameLetters
  <2> QED BY <1>0, <2>2, <2>3 DEF Workspace!Close, Workspace!vars, Visible
<1>4. ASSUME NEW i \in Invites, NEW r \in RoomIds, NEW u \in Users, NEW v \in Users,
             NEW p \in Roles \cup {None},
             MP!RefuseInvite(i, r, u) \/ MP!VerifyOwner(i, r, u, v, p)
      PROVE  UNCHANGED Tables
  <2>1. phaseBar' = phaseBar
    BY <1>4 DEF MP!RefuseInvite, MP!VerifyOwner, phaseBar
  <2>2. /\ \A j \in Invites : (invite'[j] = "done") = (invite[j] = "done")
        /\ \A j \in Invites : invite[j] = "done" => asked'[j] = asked[j]
    BY <1>0, <1>4 DEF MP!RefuseInvite, MP!VerifyOwner
  <2> QED BY <2>1, <2>2, SameLetters DEF Tables
<1>5. ASSUME NEW i \in Invites, MP!InsertMember(i)
      PROVE  \/ UNCHANGED Tables
             \/ \E r \in RoomIds, g \in Workspace!Letters : Workspace!LetIn(r, g)
  BY <1>5, InviteLetsIn
<1>6. ASSUME NEW i \in Invites, MP!DropInvite(i) PROVE UNCHANGED Tables
  <2>1. phaseBar' = phaseBar
    BY <1>6 DEF MP!DropInvite, phaseBar
  <2> QED BY <1>0, <1>6, <2>1, SameLetters DEF MP!DropInvite, Tables
<1>7. UNCHANGED MP!vars => UNCHANGED Tables
  BY SameLetters DEF MP!vars, Tables, phaseBar
<1> QED
  BY <1>1, <1>2, <1>3, <1>4, <1>5, <1>6, <1>7 DEF MP!Next, MP!Finished, Workspace!WorkspaceNext

\* The steps of SharedDocument are those of the workspace's documents.
LEMMA DocStepIsWork ==
  ASSUME [Doc!Next]_(Doc!vars)
  PROVE  [Workspace!Next]_(Workspace!vars)
  BY DEF Doc!Next, Workspace!Next, Doc!vars, Workspace!vars, Doc!Enter, Workspace!Enter,
         Doc!Edit, Workspace!Edit, Doc!Show, Workspace!Show, Doc!Exit, Workspace!Exit

LEMMA EnteredStands ==
  ASSUME TInv, [Next]_vars, NEW c \in Conns, Entered(c)
  PROVE  Entered(c)'
  BY AdmittedGetsRoom, RoomKept DEF Entered

\* Whoever comes to a document has been admitted, to the room it is of.
LEMMA OnlyAdmittedWork ==
  ASSUME TInv, RouteOK, DataOK, [Next]_vars, NEW c \in Conns, atBar'[c] # atBar[c]
  PROVE  c \in admittedBar /\ RoomOf[atBar'[c]] = RoomOf[c]
<1>1. atBar'[c] \in Conns
  <2>1. [Doc!Next]_(Doc!vars)
    BY StepImplements
  <2>2. DOMAIN atBar = Conns
    BY DEF atBar
  <2> QED BY <2>1, <2>2 DEF Doc!Next, Doc!vars, Doc!Enter, Doc!Edit, Doc!Show, Doc!Exit
<1>2. atBar'[c] = room'[c] /\ ~Joining(c)' /\ room'[c] \in Conns
  BY <1>1, ConnsAssumption DEF atBar
<1>3. room[c] # None
  BY <1>2, ConnsAssumption, RoomKept, AdmittedGetsRoom DEF Joining
<1>4. room'[c] = room[c] /\ RoomOf[room[c]] = RoomOf[c]
  BY <1>3, RoomKept DEF RouteOK
<1> QED BY <1>2, <1>3, <1>4 DEF admittedBar, Entered

LEMMA LiveImplements ==
  ASSUME TInv, RouteOK, DataOK, MP!RInv, LiveStep
  PROVE  [Workspace!WorkspaceNext]_(Workspace!workspaceVars)
<1>1. Next /\ UNCHANGED Tables
  <2>1. phaseBar' = phaseBar
    BY DEF LiveStep, memberVars, phaseBar, Members!Exists
  <2> QED BY <2>1, SameLetters DEF LiveStep, memberVars, Tables
<1>2. \A c \in Conns : Entered(c) => Entered(c)'
  BY <1>1, EnteredStands
<1>3. ASSUME NEW c \in Conns, ~Entered(c), Entered(c)' PROVE Workspace!AdmitClient(c)
  <2>1. pc[c] # "admitted" /\ pc'[c] = "admitted"
    BY <1>1, <1>3, RoomKept DEF Entered
  <2>2. Admit(c)
    BY <1>1, <2>1, OnlyAdmitted
  <2>3. MayEnter(c)
    BY <2>1, <2>2 DEF LiveStep, Admitted, Admit
  <2>4. RoomOf[c] \in RoomIds /\ UserOf[c] \in Users
    BY RoomOfAssumption, UserOfAssumption
  <2>5. Invited(UserOf[c], RoomOf[c]) /\ Members!Exists(RoomOf[c])
    BY <2>3, AdmitsInvited
  <2>6. phaseBar[RoomOf[c]] = "open"
    <3>1. creating[RoomOf[c]] # "new"
      BY <2>3, <2>4 DEF MayEnter, Members!IsMember, MP!RInv, MP!CreateOK, MP!IsMember
    <3> QED BY <2>4, <2>5, <3>1 DEF phaseBar
  <2>7. Workspace!Belongs(UserOf[c], RoomOf[c])
    <3>1. CASE UserOf[c] = Creator[RoomOf[c]]
      BY <3>1 DEF Workspace!Belongs
    <3>2. ASSUME NEW i \in Invites, invite[i] = "done", asked[i].room = RoomOf[c],
                 asked[i].whom = UserOf[c]
          PROVE  Workspace!Belongs(UserOf[c], RoomOf[c])
      <4>1. Letter(asked[i]) \in guestsBar[RoomOf[c]]
        BY <2>4, <3>2 DEF guestsBar, InvitesTo
      <4> QED BY <3>2, <4>1 DEF Workspace!Belongs, Letter
    <3> QED BY <2>5, <3>1, <3>2 DEF Invited
  <2>8. admittedBar' = admittedBar \cup {c} /\ c \notin admittedBar
    <3>1. \A d \in Conns : d # c => pc'[d] = pc[d] /\ room'[d] = room[d]
      BY <2>2 DEF Admit, TInv, TypeOK
    <3>2. \A d \in Conns : d # c => Entered(d)' = Entered(d)
      BY <3>1 DEF Entered
    <3> QED BY <1>3, <3>2 DEF admittedBar
  <2>9. UNCHANGED Visible
    BY <2>2, HiddenSteps
  <2> QED BY <1>1, <2>6, <2>7, <2>8, <2>9 DEF Workspace!AdmitClient, Workspace!vars, Visible, Tables
<1>4. CASE \A c \in Conns : Entered(c)' => Entered(c)
  <2>1. admittedBar' = admittedBar
    BY <1>2, <1>4 DEF admittedBar
  <2>2. [Workspace!Next]_(Workspace!vars)
    BY <1>1, StepImplements, DocStepIsWork
  <2>3. Workspace!Next => Workspace!Work
    BY <1>1, <2>1, OnlyAdmittedWork DEF Workspace!Work, Workspace!promises, Tables
  <2> QED BY <1>1, <2>1, <2>2, <2>3
          DEF Workspace!WorkspaceNext, Workspace!workspaceVars, Workspace!promises, Tables
<1> QED BY <1>3, <1>4 DEF Workspace!WorkspaceNext

LEMMA CollabImplements ==
  TInv /\ RouteOK /\ DataOK /\ MP!RInv /\ [CollabNext]_collabVars
    => [Workspace!WorkspaceNext]_(Workspace!workspaceVars)
<1> SUFFICES ASSUME TInv, RouteOK, DataOK, MP!RInv, [CollabNext]_collabVars
             PROVE  [Workspace!WorkspaceNext]_(Workspace!workspaceVars)
  OBVIOUS
<1>1. CASE LiveStep
  BY <1>1, LiveImplements
<1>2. CASE ~LiveStep
  <2>1. UNCHANGED vars /\ [MP!Next]_(MP!vars)
    BY <1>2, CollabStepIsMembers DEF CollabNext, MemberStep, collabVars
  <2>2. UNCHANGED MP!vars => UNCHANGED Tables
    BY SameLetters DEF MP!vars, Tables, phaseBar, Members!Exists
  <2>3. Workspace!WorkspaceNext \/ UNCHANGED Tables
    BY <2>1, <2>2, MembersImplement
  <2> QED BY <2>1, <2>3, LiveSame
          DEF Workspace!workspaceVars, Workspace!vars, Workspace!promises, Visible, Tables
<1> QED BY <1>1, <1>2

(***************************************************************************)
(* Collaboration as a whole does what a workspace promises: whoever is     *)
(* served was admitted by membership in a room that was there, which goes  *)
(* back to its creator through owners, and works on that room's documents. *)
(***************************************************************************)
THEOREM ImplementsSharedWorkspace == CollabSpec => ImplementsWorkspace
<1>1. CollabSpec => []RouteOK
  BY LiveHalf, RouteAlways, PTL
<1> QED BY <1>1, WorkspaceInitial, CollabImplements, InvariantsHold, PTL
        DEF CollabSpec, ImplementsWorkspace, Workspace!WorkspaceSpec

=============================================================================
