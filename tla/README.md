# Verification of tabular-server

TLA+ models of tabular-server, the TLC runs that check them on small instances,
and TLAPS proofs of their main properties for every size. The server is a Rust
program (axum, tokio, sqlx on MySQL, yrs): a REST API for signing in and for
synchronising connection profiles, saved queries and query history, and a
WebSocket channel on which the members of a room edit one Yjs document.

Paths such as `room.rs:72` are below `src/src/` of the repository.

## 1. The system

| Component | State | Operations | What is hard | What makes it correct |
|---|---|---|---|---|
| Live rooms: `collab/room.rs`, `handle_ws_connection` in `collab/handler.rs` | in memory: registry (id -> room); per room a document, a broadcast channel of 512 and a client count; per connection a handler and two tasks | join, forward, receive, leave; `get_or_create`, `remove_if_empty` | three locks that are never held together except in `remove_if_empty`; tasks aborted at any await; overwritten broadcasts | exact counts, no leaked or prematurely removed room, no missed update, rooms do not mix, cleanup happens |
| Rooms and members: rest of `collab/handler.rs` | tables `collab_rooms`, `room_members` | `create_room`, `delete_room`, `invite_member`, two listings, the membership checks | several statements per request and no transaction | members only of existing rooms, a creator who is a member, membership by invitation |
| Sessions: `refresh_token`, `logout` in `auth/handler.rs` | table `sessions` | rotate a refresh token, delete a session, expiry | SELECT and UPDATE apart; lost answers; overlapping requests of a device | sessions of devices stay apart, ended sessions stay ended, a refusal has a reason |
| Login: the rest of `auth/handler.rs` | tables `oauth_states`, `users`, `sessions` | redirect, callback, exchange with Google or GitHub, `upsert_user` | a callback delivered twice; concurrent first logins; accounts whose address changes | one session per login, one user per account and address, accounts linked by (chains of) addresses only |
| Query history: `history/handler.rs` | table `query_history` | push a batch, delete one, clear, list page by page | duplicate check apart from the insert; retries; trimming to 2000; fractions of a second; pages read while entries come and go | retries add nothing, the limit holds, recent entries are kept, a listing is complete |
| Start-up: `db/mod.rs`, `db/schema.sql`, `main.rs` | the tables themselves | connect, execute the schema, add a column, listen | text splitting; stops half way; an ignored error | a server that listens has its tables |
| Saved queries: `queries/handler.rs` | table `saved_queries` | create, update, delete, list | two devices update one file; the checksum is stored and not compared; the SET clause and its values are put together apart | values reach their columns, text and checksum stay together, no older value comes back, deleted stays deleted |
| Connection profiles: `connections/handler.rs` | table `connections` | create, update, delete, list | an update is up to three statements that fail or are overtaken one by one | as above, for each statement |
| Access tokens: `auth/jwt.rs`, `middleware/auth.rs` | none | sign, verify | - | - |
| Configuration, error mapping, router: `config.rs`, `error.rs`, `main.rs` | none after the start | - | - | - |

How they interact. Every REST handler authenticates by the access token, which
is stateless, and then talks to MySQL through a shared pool, one statement at a
time and never in a transaction; handlers share nothing else. A login ends by
storing the session that refresh and logout work on. The membership rows that
`create_room` and `invite_member` write are what `handle_ws_connection` reads,
once, before it joins a live room; from then on a live room has no connection
with the database: its document is neither loaded from it nor saved to it, and
a deletion of the room does not reach it. A restart of the server therefore is,
for a live room, the initial state with the connections that are still to come.
Live rooms share the registry; the
connections of one room share its document, channel and count.

The hazards that follow from this, each at its line and with the properties
that cover it, are the `hazards` of `PROJECT.json`.

## 2. Modules

| Module | What it is |
|---|---|
| `LiveRooms` | registry, rooms, handlers and tasks; one action per critical section or await-to-await stretch |
| `SharedDocument` | abstract: a document and the growing views of its clients |
| `LiveRoomsRefinement`, `LiveRoomsProofs` | the refinement mapping from `LiveRooms` to `SharedDocument`; the proofs about both |
| `Sessions`, `SessionsProofs` | refresh and logout, one action per SQL statement |
| `Logins`, `LoginsProofs` | redirect, callback and upsert, one action per statement or exchange |
| `UserDirectory`, `LoginsRefinement` | abstract: accounts, their users and sign-ins, each change one step; the mapping from `Logins` to it |
| `RoomMembers`, `RoomMembersProofs` | room and member tables, one action per statement |
| `CollabRooms`, `CollabRoomsProofs` | the composition of `RoomMembers` and `LiveRooms` |
| `SharedWorkspace`, `CollabRoomsRefinement` | abstract: rooms, guests, admitted clients and their documents; the mapping from `CollabRooms` to it |
| `History`, `HistoryProofs` | pushes, deletions and trims, one action per statement; a listing, one action per page |
| `SyncedRows`, `SyncedRowsProofs` | saved queries and connection profiles, one action per statement |
| `Migrations`, `MigrationsProofs` | start of the server: schema text, statements, listening |
| `MC*` | the instances TLC checks |

In the component modules an operator whose comment begins with "Variant" is a
plausible mistake in the code below it. Nothing uses it but `PROJECT.json`, which
pairs each checked property with a variant that breaks it.

### LiveRooms

| Variable | Code |
|---|---|
| `registry` | `RoomRegistry.rooms`, under its mutex |
| `doc`, `log`, `clientCount` | `CollabRoom.doc`, `.tx`, `.client_count` |
| `pc`, `room`, `snapshot` | `handle_ws_connection`: where it is, its `Arc<CollabRoom>`, `state_update` |
| `forward`, `cursor`, `received` | `forward_task`, `broadcast_rx`, what was written to the socket |
| `receive`, `applied` | `receive_task`, the update between `apply_update` and `tx.send` |
| `gone` | the client has closed or lost its end |
| `sends` | counts messages, for the bound `MaxSends` only |

The handler goes `Admit` or `Refuse` (membership query), `GetOrCreate`,
`CountIn`, `Subscribe`, `EncodeState`, `SendState`, then waits in `Select`, and
leaves by `CountOut`, `ReadCount`, `RemoveRoom`. The last two are
`remove_if_empty`: it holds the registry lock throughout, so `GetOrCreate` waits
for it, and the count lock only while it reads, so `CountIn` does not.
`select!` aborts the other task: `ForwardCancel` may take effect at either of
`forward_task`'s awaits, `ReceiveCancel` only where `receive_task` awaits the
next message - a message that is being handled is finished first. A receiver
more than `Capacity` behind has lost messages: `recv` fails and the connection
is given up (`ForwardLagged`).

Data. A room is named by the connection that built it. A document is the set of
updates applied to it, which is what Yjs merging amounts to as long as only
"has it been applied" matters; that the bytes of an update depend on earlier
ones is left out. The one-byte message type is left out, as `receive_task`
skips it without looking. Messages that are not binary, empty or undecodable
change nothing and are left out.

### Sessions

One session per device; a token is named by what minted it. `Send` is the
client's side and external: a device in `Overlapping` may have several requests
under way, any other waits for each answer. `FindSession`/`Unauthorized`,
`Rotate`, `AnswerRefresh` are the statements of `refresh_token`, `DeleteSession`
and `AnswerLogout` those of `logout`. `Drop` ends a request at any await: a
failed statement, a client that hung up, a server that stopped, an answer that
was lost; `missed` remembers that this happened after the rotation.

### Logins

A nonce is named by its login, a row of `users` by the callback that inserts
it. `ValidateState` and `ConsumeState` are the SELECT and the DELETE;
`ExchangeCode` is the exchange with the provider, from which an account and its
primary address come; `LookupUser`, `UpdateUser`, `InsertUser` are
`upsert_user`, with the UNIQUE keys of `schema.sql:8` and `:13` in `Conflicts`;
`InsertSession` ends the callback. External: the provider (a code is honoured
once, `Honours`; accounts change their address, `ChangeEmail`) and the browser.
The two writes of `upsert_user` and the SELECTs that read the row back are one
step each: the row is
read back by its id, ids never change and users are never deleted.

Accounts are linked by address, and the link is transitive: if A once had an
address of B, and B one of C, then A and C can come to be one user although they
never had an address in common, because a row takes over the account and address
of whoever signed in to it last. `Linked` says so without a chain written out: A
is linked with what is in every set of accounts that holds A and is closed under
sharing an address.

`UserDirectory` is what a sign-in promises: an account has at most one user, a
user passes only to an account that is linked with the one it belongs to, users
are never taken back, and a login signs in once, to a user whose account is its
own or linked with it. There each change is a single step. `LoginsRefinement` maps to it: `users` is who
belongs to which account, `sessions` what logins have led to.

### RoomMembers

`owner` and `role` are the two tables. A room is named by the request that
creates it. `DeleteRoom` is one statement with its cascade. `InsertMember` is
the upsert, which fails if the foreign key is not there any more. `role` is free
text in the code; `Roles` says which texts requests may bring, "owner" included.

### CollabRooms

The two halves of `collab/handler.rs` at once. A `LiveStep` is a step of
`LiveRooms` whose admissions are made good: where `LiveRooms` lets `Admit` and
`Refuse` happen to any connection, here a connection is admitted only if
`verify_room_member` finds the row of its user (`MayEnter`). A `MemberStep` is a
statement of `RoomMembers`. Nothing else is shared, as in the code. A refusal is
possible even for a member, since the query may fail. `UserOf` is
the user of a connection's token, which says nothing new later on.

`SharedWorkspace` is what this promises its users: a founder opens a room, owners
let people in while it is open, a client is admitted if its person belongs to the
open room it wants, and only admitted clients work on a document, one of their
own room's. `CollabRoomsRefinement` maps to it: a room is open while its row is
there, its guests are the invites that were carried out, and a client is
admitted from `verify_room_member` on. Membership is judged when the client is
admitted and not again: a guest may go on working when the room is closed, as in
the code.

### History

An item is what was executed and when, in half seconds; `Stored` rounds to whole
seconds as the DATETIME column does, and `Known` compares the column with the
time as it was sent. `Latest` leaves open which of several rows with one time
`ORDER BY executed_at DESC LIMIT` returns. `After` says which push repeats which:
a repetition is sent when the first has ended.

`list_history` is read by one device (`Reader`) that asks for page after page
until one is not full; `Page` is one request. `First` leaves the order of rows
with one time open, per request. `owed` is a ghost: the entries the device may
still expect, which are those that were there at its first page and ever since,
alone in their second (`Alone`; of several in one second, the code may show one
twice and another not at all), as long as the user deletes nothing. The `since`
parameter is left out: it is a filter whose value the client chooses.

### SyncedRows

Both `queries/handler.rs` and `connections/handler.rs` verify a row, update it,
and read it back, and differ in how the columns are spread over UPDATEs:
`Statements` is one list of columns for `saved_queries` and three lists of one
column for `connections`. `table` is chosen in the initial state. A row is named
by the POST that inserts it, and a cell holds which request's value it is
and for which column it was sent, so that a wrong binding shows. `Verify`,
`Write`, `ReadBack` are the statements of a PUT. `update_query` puts its SET
clause together by one series of tests and binds the values by another:
`Statements`, `Given` and `Place` follow the first, `Bindings`, `Bound` and
`BoundTo` the second. That both series have the same columns in the same order
(`BindingsAssumption`) is a fact about the source, whose two lists `MCSyncedRows`
states apart and TLC compares. `before` is a ghost: the PUTs that had ended when
this one was verified. `updated_at`, which every UPDATE sets, is left out,
as is a POST that is refused for want of a name.

### Migrations

`Text` is `schema.sql` reduced to comment lines, semicolons and table bodies. A
piece is a pair of positions, where it `Begins` and where it `Ends`;
`IsStatement` is the filter of `run_migrations`, and `at` the position from which
statements are still to be executed, so that `ExecuteStatement` takes the first
of them and `AddPort` comes when `NoneBefore` the end is left. `Stop` is a failed
statement as well as a stopped server. The database may be new or have any of
the tables already, as far as their foreign keys allow.

## 3. Runs

Deadlock checking is on (a `Finished` disjunct is the intended end). Every
passing run covers the whole state space of its instance; in three of them a
CONSTRAINT cuts that space down: `TwoTalk` (the second message is read only while
some connection has not joined yet), `FewAtOnce` (of `Logins`, below) and
`RoomOrGuest` (a second room with a
connection to it, or what bob does in the first, but not both in one behaviour;
and an invite gives no role, which makes an editor, or asks for an owner).

| Run | Asks | Bounds |
|---|---|---|
| `LiveRooms` | are counts and registry entries right, and does a served client miss anything, in every order of joins, messages, ends and cleanups? | 3 connections to one id, 2 messages, capacity 1, `TwoTalk` |
| `LiveRoomsLiveness` | is the shared document implemented, and is everything cleaned up, under fair scheduling? | 2 connections, 2 messages of one update, capacity 1 |
| `LiveRoomsSplit` | do two clients of one id always share a room? No. | 3 connections |
| `Sessions` | do sessions of devices stay apart, stay ended, and refuse for a reason only? | 2 devices with 2 refreshes and a logout each |
| `SessionsLogout` | does an answered logout end the session? No. | the same |
| `Logins` | one session per login, one user per identity, linked by address only? Is the user directory implemented? | 4 logins, 5 callbacks, 3 accounts, 4 addresses, 1 change, `FewAtOnce` |
| `RoomMembers` | do member rows stay within rooms, creators and invitations? | 1 room, 3 users, 3 invites, 2 roles |
| `CollabRooms` | who sees a document, do rooms mix, and what does a deletion do? Is the shared workspace implemented? | 2 rooms, 2 users, 3 connections, 1 invite, 1 message, `RoomOrGuest` |
| `History` | do retries, trims and deletions lose or repeat entries, and does a listing miss any? | 5 pushes of up to 3 items, 2 users, limit 2, pages of 1 |
| `HistoryDup` | is no execution in a history twice? No. | 2 pushes of one item |
| `SyncedRows` | what is left of updates that overtake each other, are dropped, or cross a deletion? | 1 row of either table, 3 PUTs, 2 DELETEs |
| `Migrations` | does a server that listens have its tables? No. | the eight tables |

Why the bounds are enough to see the interesting cases. Three connections are
the least with which one leaves, one joins and one is between the two, which is
what `remove_if_empty` can get wrong; the split room needs exactly them. With a
capacity of one, two unread messages lag a receiver and one does not, and that
all counts of messages behave like these is what `NothingIsMissed` and
`QuietIsInSync` prove. Two devices
are what separates "the device's own session" from "a session", and two
refreshes with a logout give each pair of handlers that race. In `Logins`,
`FewAtOnce` allows two kinds of behaviour. In the first (`TwoAccounts`) two
accounts sign in three times, the third account has no part and only the first
login expires: four callbacks are a repeated one and two of other logins, of
which the first is concurrent with the repeated one in every order and the second
starts when that has ended; three addresses let an account change its own
without sharing it. In the second (`OneByOne`) three accounts sign in four times,
one after the other, with two addresses and one change: that is the least with
which two accounts come to one user by way of a third. (That no two accounts
share a user without a common address of their own is violated there.) Three invites are needed for an invited owner who invites. A
limit of two with three distinct entries makes every trim choose, and pages of
one let something happen between any two entries of a listing. Three PUTs are
one that is overtaken, one that overtakes it, and one that had ended
before. Every bound
that is not a set of the configuration is a named constant: `MaxSends`,
`MaxChanges`, `Limit`, `Capacity`, `PageSize` (the last three stand for 2000, 512 and the
default limit of a listing, 500).

`LiveRoomsLiveness` has one update, so what it says of delivery is that it
happens; that nothing is skipped or reordered on the way is checked by `LiveRooms`
(`NoMissedUpdate`, `QuietMeansInSync`). In `History` a repetition is sent when the
first push has ended; one that overtakes the first push is two pushes of one
execution at a time, which is what `HistoryDup` is about.

Runs that check symmetric configurations use symmetry sets for invariants and
action properties only, never for liveness.

### What the four violation runs show

* `LiveRoomsSplit`: a handler takes its room from the registry and counts itself
  in under another lock. If the previous connection's cleanup comes in between,
  it finds the count 0 and removes the room; the next connection to the id gets
  another room. Two clients of one id then edit two documents.
  `CondemnedWhenUnused` says what does hold: the decision is right when it is made.
  `OneRoomUnlessLate` proves that this window is the only way: without it, the
  clients of one id share one room.
* `SessionsLogout`: a logout deletes by refresh token; a refresh under way has
  already replaced that token, the DELETE finds nothing and is answered as usual.
  `OrderlyLogoutRevokes` is what holds: it does end the session of a device that
  waits for its answers. `LogoutRevokesUnlessStale` proves that a token which is
  not the session's is the only way a logout can fail, for any device.
* `HistoryDup`: two concurrent pushes of one execution both find nothing and both
  insert. `RetryAddsNothing` is what holds: a retry, or an item that is twice in
  a batch, adds nothing, as long as times are whole seconds.
  `WholeSecondsDeduplicate` proves that nothing is ever there twice unless two
  pushes meet between their SELECT and INSERT or a time has a fraction.
* `Migrations`: each piece of `schema.sql` starts with the comment above its
  `CREATE TABLE`, so the filter that is meant to drop comments drops all eight
  statements. `CommentedCreatesNothing` proves this of every such text, and
  `ListeningHasExactly` that the property holds on a new database if, and only
  if, the filter leaves in all tables, as it does without the comment lines.

### Fairness

`LiveRooms!Fairness` is weak fairness, per connection, of the handler's joining
and leaving and of the two tasks. The runtime polls every task that is ready,
the critical sections are a few instructions and take no second lock except in
`remove_if_empty` (which nothing waits for in the other order), the membership
query returns or fails, and a write completes or fails: there is no timeout on it,
so this assumes of clients that one that stays connected reads its socket. Reading from a
client is not fair: clients owe no messages and need never disconnect; nor is
`Disconnect`. `CleanedUp` therefore speaks of clients that are gone. The REST
handlers have no liveness properties: each is a finite sequence of statements
whose end is `Drop` or an answer.

## 4. Proofs

Proved by TLAPS, for every value of the constants that satisfies the named
assumptions (those of the component modules; they say that the sets of
names are disjoint, the connections finite, capacities positive and that `None`
is none of the values).

**LiveRoomsProofs.** `TInv` is `TypeOK` with `TasksOK`, which ties the handler's
place to the existence of its room and tasks and keeps cursors within logs; it
is what `TypeCorrect` rests on. `CountsAreExact`: `CountExact` is inductive with
`TInv`; the set of counted connections changes by the one that moves, and a
count that is decremented is positive because the handler is in it - so
"if *count > 0" never hides anything. `OnlyUnusedAreCondemned` follows from a
zero count. `NoRoomIsAbandoned` is inductive with these: the step that could
abandon a room is the `remove_if_empty` of its last holder, and if that leaves
the room registered, its count was not zero, so another handler is counted in
and has its own to come. `RoomsAreIsolated` and the rest use `RouteOK` (a room is
registered only under the id it was built for) and `DataOK`
(what is in logs, snapshots and sockets has been applied to the room's
document). `NothingIsMissed` proves `SyncOK`, the same statement element by
element: each update of the document is written, in the snapshot, in the channel
beyond the cursor, or in the hands of a `receive_task`; each action moves an
update from one of these places to another. `QuietIsInSync` is its consequence
when the last two are empty.

`NothingIsKept` is `CountExact` with `NoAbandonedRoom`: when no handler is between
`get_or_create` and the end of its cleanup, the server keeps nothing of any room.

`OneRoomUnlessLate` is about the property that `LiveRoomsSplit` violates. A
`LateJoin` is a handler that has its room and is not counted in while a cleanup
has read the room's count as zero. Under `[]~LateJoin` two facts are inductive
together: handlers use the room that is registered under their id
(`UsesRegistered`), and nobody is counted in under an id whose room is being
removed (`CondemnedUnused`). `SameTextUnlessLate` adds `QuietIsInSync`: quiet
clients of one id then show the same text.

`ImplementsDocument`: the initial state maps to the
initial state and each step to `Enter`, `Edit`, `Show`, `Exit` or a stutter.

**SessionsProofs.** `SInv` has `OwnOK` (a token stays with the device it was minted
for), `OneAtATime` (an orderly device has one request under way, with the token
it holds) and `HeldIsStored` (the row of an orderly device has the token it
holds or is about to be answered). From these: `SessionsAreSeparate`,
`LogoutOfOrderlyRevokes`, `EndedSessionsStayEnded`, `RefusalsHaveAReason`.
`LogoutRevokesUnlessStale` holds of every device under `[]~StaleLogout` (no logout
is on its way with a token other than the one in its session's row): what a
logout has deleted stays deleted, since an UPDATE by id does not insert.
`TokensAreSwapped` says that the two statements of a refresh of an orderly device
amount to one compare-and-swap; `FoundIsCurrent`, that the token which the SELECT
found is still there at the UPDATE, is inductive with `SInv`.

**LoginsProofs.** `LInv` says what holds of a callback from the step on that
achieves it (`NonceOK`, `CodeOK`, `RowOK`, `SessionOK`), that `users` is a map in
both directions, and `LinkOK`: whoever has a session of a row, or is about to
write it, is linked with the account the row belongs to. The step that matters is
`UpdateUser`, where a row changes its account: everybody who has used the row was
linked with the account that leaves, and so is the one that comes. That this is
enough rests on `Linked` being an equivalence (`LinkedSym`, by taking a closed set
out of all accounts; `LinkedTrans`) which new addresses never undo
(`LinkedStands`). `AccountsLinkByAddress` and `AccountsKeepTheirUser` (an account
that shares no address is linked with itself only) follow.
`ImplementsUserDirectory`: a change of address maps to `Readdress`, `InsertUser`
to `Enrol`, `UpdateUser` to `PassOn`, `InsertSession` to `SignIn`, and every other
statement to a stutter. That nobody else has the account at these steps is what
the UNIQUE keys give; that the accounts may be taken for each other is `LinkOK`
(`MayBeIsLinked`).

**RoomMembersProofs.** `RInv` has `CreateOK`, `InviteOK` and `GrantOK`, which
follow a room through its creation, an invite from its check to its upsert, and
a role to the invite that gave it.

**CollabRoomsProofs.** `LiveHalf` and `MembersHalf`: a behaviour of the composition
is one of `LiveRooms` and one of `RoomMembers`, so that what is proved of the two holds
here. `SharedAmongThoseLetIn` adds `EnteredInvited` (who has entered a room was
let into it, because members were) and `SendersEntered` (what is in a log was
sent by someone who entered); that the creator or an invite lets a user in for
good is the lemma `LettingInStands` of `RoomMembersProofs`. `DeletedRoomsDrain`
rests on `MembersOfRooms`: without the foreign key an invite that is written after
the deletion would admit someone. `ImplementsSharedWorkspace` puts all of it
together: the statements of the three REST handlers map to `Found`, `LetIn`,
`Close` or a stutter, `Admit` to `AdmitClient`, and every other step of a live
room to `Work` or a stutter. For `LetIn` the inviter must own the room by invites
already carried out, for `AdmitClient` the row that was found must go back to one
(`OnlyAdmitted`), and for `Work` a client must have passed the check before it
has a room, which stays a room of its own id (`OnlyAdmittedWork`). The document
part is `ImplementsDocument`, step by step.

**HistoryProofs.** `HInv` has `FreshOK` (between the SELECT and the INSERT neither
the push nor the one it repeats adds the row that was looked for), from which
`RetriesAddNothing` follows; `StandsOK`, which is `RecentIsKept` item by item while
the push is under way; and `OwedOK`: an entry the reader may still expect has at
least `offset` newer ones before it, so it is on a page to come. A trim that
takes an entry away leaves `Limit` entries that are not older (`TrimmedIsOld`),
which carries `StandsOK` over a trim; it keeps everything newer than an entry it
keeps, which carries `OwedOK`. The counting is done with the theorems
on finite sets, without an induction over rows. `RepeatsHaveFractions` and
`WholeSecondsDeduplicate` are about what `HistoryDup` violates: under
`[]~BothFoundNothing` what a SELECT did not find is still not there at the INSERT
(`StillMissing`), so that a new row that equals an old one was compared with
its time before it was rounded.

**SyncedRowsProofs.** `IInv` has `CellOK` (a row's cell of a column holds a value
sent for it), `PutOK` (what had ended stays ended) and `PassedOK` (what
a PUT has been through holds its value or that of one that was not over when it
began), next to `OneStatementIsWhole` itself. That the value of a column is
bound to its own place is `CHOOSE` over two equal counts: it needs
`BindingsAssumption`, and that no two columns have the same number of given
columns before them.

**MigrationsProofs.** For every `Text` of tables, comment lines and semicolons.
`MInv` says that what begins before `at` has been executed; pieces do not overlap
and have one end each (`PiecesApart`, `OneEnd`), so that no statement is skipped
between two. `ListeningHasExecuted`: a server that listens has the tables in the
pieces that the filter leaves in (`Executed`), on any database and after any
number of stops. `LeftOutIsNeverCreated` is the other direction, on a new
database, and `ListeningHasExactly` both. `CommentedCreatesNothing` is what this
comes to for the text of `schema.sql`, which satisfies `Commented`: `Executed` is
empty.

Each of these inductive invariants was first checked by TLC as an invariant.

The theorems under a condition (`[]~LateJoin`, `[]~StaleLogout`,
`[]~BothFoundNothing`, and those on `Text`) name the exact way in which a
property that a violation run refutes can fail. Behaviours without it exist: they
include all in which the requests concerned come one after the other and are
answered.

Model-checked only: liveness (`CleanedUp`, and the leads-to of
`SharedDocument` in `ImplementsSharedDocument`), because leads-to under fairness
is out of the prover's reach; and the counterexamples. No model has a recursive
operator, so nothing rests on an induction over data.

## 5. Not modelled

Access tokens, configuration, error mapping and the router have no state: every
model takes the user of a request as given, and every `?` that leads to an error
response is a failing or dropped step. The pool's limit of 20 connections is a
failing statement. The listings read and change nothing; of them only
`list_history`, which is read in several requests, is modelled, without `since`.
`RoomRegistry::get` is never called. Mutex poisoning is left out: no critical
section panics by itself. A request that is dropped while a statement is under
way has either executed it or not, before it counts as dropped.

The documentation speaks of things that no code implements, so that there is
nothing to model and no run: snapshots of documents (README.md:26 and :146;
`crdt_snapshot` is never written or read, and edits end with the last
connection), and a comparison of checksums when a saved query is updated
(README.md:31 and :117; `client_checksum` is stored and never compared, and the
later of two updates wins). `LaterWins` and `OneStatementIsWhole` are what holds
instead. Nor is there anything that recognises a POST that is sent again: it
makes a second row.

## 6. Plan

1. Done: live rooms with their abstraction; rooms and members; their composition
   and its abstraction; sessions; logins and their abstraction; history with its
   listing; saved queries and connection profiles; migrations; the proofs of all.
2. Left: an abstract specification of `SyncedRows`, one atomic register for each
   UPDATE statement; one of `Sessions`, in which a refresh of an orderly device is
   the single step that `TokensAreSwapped` says it is; and one of `History`, a set
   of executions per user.
3. A composition of `Logins` and `Sessions` is not planned: a login inserts a fresh
   row of `sessions`, and refresh and logout act on rows by token and id only, so
   it would say nothing that the two modules do not.
