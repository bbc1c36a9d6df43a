# A TLA+ model of Along

Along is a focus timer for two people. A Go server keeps pairs and their focus
sessions in PostgreSQL; a Flutter app keeps a local copy, an outbox of commands
and a cursor into the pair's event log, and is told over a WebSocket when the
log has grown. This directory models the parts of the program that keep state:
the shared room and its synchronisation, the accounts with their sessions and
tokens, the making of pairs, and the push worker. TLC checks them on small
instances, and TLAPS proves the central facts for instances of any size.

Source paths below are relative to the repository.

## 1. Inventory

| Part | State it keeps | Operations | Interacts with |
|---|---|---|---|
| Collaboration store, `server/internal/store/collaboration.go`, `domain/state_machine.go` | `focus_sessions`, `session_members`, `session_notes`, `reactions`, `pair_events`, `idempotency_keys`, `notification_jobs` | start, import, join, pause, resume, complete, cancel, note, cheer, current session (which sweeps), history, events after a cursor, create and accept an invite | called by the REST and sync handlers; NOTIFY on every event |
| Sync handler, `httpapi/sync_handler.go` | none between requests | a batch of commands, each its own transaction, then the current session, then a page of events | the store; the app |
| Socket handler and hub, `httpapi/sync_handler.go`, `realtime/hub.go` | subscribers with a buffer of 8 hints; one LISTEN connection | upgrade, subscribe, publish, listen again after a loss | the store's NOTIFY; the app's reconnect loop |
| Sync engine, `mobile/lib/core/sync/sync_engine.dart` | the active sync, the channel, the server offset | `syncNow` (single flight), `_performSync`, `_reconnectLoop` | local database; server |
| Local database, `mobile/lib/core/database/app_database.dart` | sessions with notes, outbox, cursor, profile | upsert, enqueue, pending, remove, postpone | engine, repository, screens |
| Session repository, `mobile/lib/features/focus/data/session_repository.dart` | none | start (optimistic), the commands, sessions of offline origin | engine, local database |
| Auth, `internal/auth`, `store/auth.go`, `httpapi/auth_handlers.go` | accounts, passkeys, challenges, recovery codes, installations, sessions, families of refresh tokens | register, sign in, recover, refresh, add and revoke passkeys, regenerate codes, log out, revoke a session or an installation | every request, through `authenticate` |
| Token coordinator and auth controller, `mobile/lib/core/network/token_coordinator.dart`, `features/auth` | the refresh token in secure storage, the refresh under way | restore, refresh, sign in, log out, reconfigure | auth |
| Pair invites, `store/collaboration.go`, `features/pairing`, `focus_screen.dart` | `pair_invites`, `pairs`, `pair_members`; the link and the poll of a screen | create, accept, read the account, poll | the log of the new pair |
| Push, `store/push.go`, `apns/client.go` | devices, jobs with a lease; a worker's batch | register, revoke, claim, send, write back | jobs of the store |
| Middleware, migrations, configuration, pages | rate windows; applied migrations | | |

What is hard in it: both members act at once on one version of a session; the
elapsed session is closed by whoever looks first, with another clock than the
one transitions use; commands are retried after requests whose fate is unknown;
the sync handler's reads are not one snapshot; the log's cursor is drawn before
it becomes visible; one future is shared by the user's calls and the reconnect
loop; and hints are lost by design. An authentication handler verifies a passkey
or a slow hash between two transactions; a phone cannot tell a refresh that was
lost from one that was carried out; a push worker's lease is shorter than its
batch may take; the polls of a screen overlap. `PROJECT.json` lists each hazard at
its line.

What makes each part correct:

* store: one live session per pair, no lost update, one effect per key, a log
  that replays to the tables, an honest countdown, pairs that do not mix;
* log and cursor: what a reader's cursor has passed, the reader was given, unless
  an event without a common row lock overtook it before it committed;
* sync: no command lost or repeated, every caller returns, reconnecting repairs
  every lost hint, and, but for overtaken events, nothing is skipped and the read
  model is not older than the cursor;
* auth: a proof opens one session, a session has one live token, reuse ends the
  family, and what was ended stays ended;
* phone: a lost answer does not make the phone look like a thief;
* push: every job settles, and is delivered once unless a lease lapsed, an answer
  was lost or a write failed;
* invites: two accounts per pair, one pair per account, one open link per account,
  and a screen that waits for a partner sees the partner.

## 2. Modules

| Module | What it is |
|---|---|
| `FocusRoom` | abstract: a pair's room is a countdown that runs, stands still or is over |
| `FocusStore` | the store's session commands; `Room` is the refinement mapping to `FocusRoom` |
| `FocusStoreProofs` | theorems about the rows of `FocusStore` |
| `FocusLogProofs` | theorems about its log, keys, jobs and cheers; `FocusStore` implements `FocusRoom` |
| `FocusStoreMC`, `FocusStorePairsMC` | instances: one pair; a pair among others |
| `EventCursor` | lock, insert, commit and read of `pair_events` as separate steps |
| `EventCursorProofs`, `EventCursorMC` | its theorems and instances |
| `PairSync` | composes `FocusStore` with one device, the sync handler and the socket |
| `PairSyncMC` | its instances |
| `PairSyncProofs` | theorems about `PairSync` |
| `AuthStore`, `AuthStoreMC` | accounts, passkeys, challenges, recovery kits, sessions and refresh tokens |
| `AuthStoreProofs` | theorems about `AuthStore` |
| `AppTokens` | composes `AuthStore` with the token coordinator of one phone and the network |
| `AppTokensProofs` | theorems about `AppTokens` |
| `PushJobs`, `PushJobsProofs` | devices, jobs, leases and the APNs workers; its theorems |
| `PairInvites`, `PairInvitesProofs` | links, pairs and the screens that make, accept and wait; its theorems |

### FocusStore and the code

`session[s]` is the row of `focus_sessions` with its members, `events` is `pair_events`
in the order of commits, `idem` is `idempotency_keys`, `reactions` and `jobs` are their
tables. The number an event draws from the sequence is not part of `FocusStore`: its
properties are about one session, whose events are numbered in the order of their
commits, notes apart. `PairSync` adds the numbers. `clock` is `s.now()`; the database's
`clock_timestamp()` is `clock + Skew`. A command is one action because it is one
SERIALIZABLE transaction; a refusal or a replay changes nothing. `StartSession` sweeps,
looks for a live session, inserts, logs, enqueues jobs and stores its key, all in one
step; `CurrentSession` is a step only when the sweep finds something, because a plain
read changes nothing. `transitionSession` has `NextState`, `VersionMatches` and
`Updated` for its state machine, its version check and its UPDATEs. An event carries,
beside the stored columns, the key and the expected version of its command; no action
reads those, they let properties speak about causes. `ActionExpire` has no route and is
only reached through the sweep.

Left out: display names, note bodies, wording, `updated_at`, `created_at`,
`duration_seconds` (always 1500) and `cancelled_at`.

### PairSync and the code

The server part is `FocusStore`'s actions behind the steps of the handler:
`applySyncCommand` for each command of the request, `ReadCurrent`, `ReadRow` and
`ReadCompany` for the statements of `CurrentSession`, `PairEvents`. `number[i]` is the
cursor of the event at position `i` of the log, `serial` the last number the sequence
gave out. A transaction of the partner may draw its numbers (`Draw`, kept in `drawn`)
and commit later (`DrewEarlier`), below numbers that are committed already and below a
cursor a device has stored; `Excludes` says which events cannot have committed in
between, because both transactions need one row's lock. A cursor is compared with
numbers, and `Page` is the query of `PairEvents`: the committed events with the smallest
numbers after the request's cursor. The device part is `local`, `notes`, `outbox` and
`cursor` (durable) and `call`, `owner`, `user`, `loop` (lost by `Crash`). `UserSyncs`
and `LoopSyncs` are the two callers of `syncNow`; `owner` is whose `_performSync` is
`_activeSync`, and a caller that finds one joins it. `ApplyResponse` is the one local
transaction, `refreshHistory` the history request after it, `Finish` the error, the next
page or the end, and `Completed` what owner and joiner do with the outcome, the error
paths of `SessionRepository.start` included. `RequestFails` is an answer that does not
come (the handler may go on: `orphan`) or a 5xx. `Connect`, `Subscribe`, `Hear`,
`SocketDrops`, `HangUp` and `ListenerChanges` are the socket and the hub. `UserStart`,
`UserCommand` and `OfflineCommand` are the repository, with `Offered` for what the
screens show. A start and an import store their row first and their command with a
second awaited write, `Enqueue`, which a `Crash` may prevent. `Faults` selects the
faults of an instance, `Offers` the commands, `Realtime` whether a socket gets through.

Simplifications.

* The user has one call at a time. The screens disable their buttons while busy, but
  each screen has its own `_busy`, and the live screen's `_elapsed`
  (`live_focus_screen.dart:125-131`) finishes a session whatever `_busy` is.
* The device clock is the server's.
* Transactions of this device draw and commit with nothing in between: a repeated
  request waits for the key of the first. The partner's draw two numbers at a time,
  as many as a sweep and a start need; an event of one that commits late carries the
  row and the instant of the commit. `MaxOpen` bounds how many are open at once in
  the runs, not in the proofs.
* The members and notes of the current session are read in one step, a page of
  history too. The notes a page appends are listed in the order of commits.
* Hints in the hub's channel and in the client's stream are one buffer.
* A note is the position of its event in the log.
* `_activeSync` is released with the outcome. In the code it stays the failed future
  while `syncNow` reads the pending commands for its diagnostics
  (`sync_engine.dart:57-66`), so a caller that comes in between is given that error.
* The server works at one abandoned request at a time; what is left of a second one
  is dropped.
* `Pending` is everything that is due, without the LIMIT 100 of `pendingCommands`, so
  nothing is said of an outbox with more than 100 commands due at once.

`Picked` is the WHERE of a query, by positions: it is a
recursive function, so that the prover can be told what it returns.

### EventCursor and the code

A writer is a transaction of a pair. `Conflict` says which row locks exclude each
other: transitions, cheers and the sweep hold the session row FOR UPDATE; a note
holds it FOR KEY SHARE through its foreign key, compatible with other notes; a
start and an import hold the row they insert. `appendPairEvent` draws the number,
`Commit` makes it visible, `PairEvents` moves a reader's cursor.

### AuthStore and the code

Each variable is a table of `store/auth.go`: `account` (its status), `passkey`
(`webauthn_credentials`), `challenge`, `kit` with `usedCodes` (`recovery_codes`: which
generation of hashes fills the rows, and which rows are used), `install`
(`device_installs`, keyed by installation and account), `authSession` and `token`
(`refresh_tokens`). A store method is one step. A handler of `auth/service.go` makes
several: `request[r]` is a handler between two of them, with what it has read.
`FinishLogin` consumes the challenge and `CreateLoginSession` opens the session;
`Recover` reads the unused hashes and `UseRecoveryCode` spends the row; `Authenticate`
is the middleware, and the operations that begin with `Handled` are the one store
call of the handler behind it. `HandlerFails` is every other end of a handler.
`RefreshReuse` and `RotateRefresh` are the two outcomes of one method that change
something. `Valid` is the query of `ValidateAuthSession`, `Rotatable` the tests of
`RotateRefresh`; they differ (the passkey, and the instant of expiry), and
`RotatableIsValid` says that the difference does not matter.

Abstracted: secrets are ids, so holding a token is naming it, and any token may be
presented at any time, by anybody; verification is a choice between two outcomes;
the process and the database share a clock; new ids are drawn in a fixed order. The
`origin` of a session is history: no action reads it.

### AppTokens and the code

`stored` is the token in secure storage. Saving the advanced settings makes a new
`TokenCoordinator` while requests of the old one still run, hence `flight[c]` for each
coordinator `c`, of which `born..coord` belong to this process. `Post` is
`_performRefresh` up to the request and its single flight; `CaptureAuthPayload`,
`CaptureFails` and `RefreshFails` are its ends; `RestoreRead` and `RestoreRefresh` are
`AuthController.build`. `wire` holds the requests that have not reached the server, also
those nobody waits for any more. Of `AuthStore`, `ServerStep` takes the actions that
reach the phone's session. `CaptureFails` is a write that throws or an answer without a
body, `ClearFails` a `clear()` that throws: both leave the token where it was. `excused`
records the families with a refresh that was cut off (by a restart, a failing write or a
failing clear) or that was made after a setting was saved in the same process, when an
older coordinator may be sending the same token. The last excuse is wide: it covers
every such refresh, doubled or not.

### PushJobs and the code

A job is `<<event, device>>`, its row `job[j]`; `ready` and `lock` say whether
`available_at` and `locked_until` have passed. `ClaimPushJobs` takes the oldest
claimable jobs up to the batch size, `Send` is the request to APNs, `WriteOutcome` the
switch of `process` over its result, `WriteFails` a write that is only logged and
`WorkerDies` a stop of the process. Neither a write nor `RetryPush` looks at the
lease, as in the code. `excused` records the three causes of a second delivery.
Simplification: `FOR UPDATE SKIP LOCKED` (`push.go:93`) may pass over an older job
whose row another transaction is writing; the model always takes the oldest.

### PairInvites and the code

`invite`, `member` and `log` are the tables (`log` only `pair.created`); `shown`,
`link` and `poll` are the state of a phone: the account's pair, the focus screen's
`_invite` and its `_pairPoll`. A request has a place `call[c]`; `heard` says whether
the phone still waits for it. `CreatedElsewhere` and `AcceptedElsewhere` are the
requests of accounts whose phone is not modelled. `LeaveScreen` is `dispose`,
`Restart` a new process. `late` records invites revoked by a request the phone had
given up on, `crossed` the phones that had two reads of the account under way; both
excuse what the code does then, and both are needed. Simplification: an account has
one phone. A second installation of the same account that makes a link revokes the
first one's (`collaboration.go:55`), whose screen goes on showing it.

## 3. Runs

| Run | Instance | Checks |
|---|---|---|
| `store_safety` | 2 members, 2 sessions, 2 keys, clock to 3, 5 events | `TypeOK`, `OneLiveSession`, `LogReplaysToRows`, `VersionsNameOneRow`, `NoLostUpdate`, `OneEffectPerKey`, `JobsMatchLog`, `EndedForever` |
| `store_timing` | 1 session, 3 keys, `Skew` 1, a member of a second pair and an unpaired account | `CompanyMatchesState`, `CheersSpaced`, `ImplementsRoom`, `PairsIsolated` |
| `sync_commands` | the user and the reconnect loop, failing requests, orphans, crashes, pages of 2; no transaction left open | `SyncTypeOK`, `CommandsSettleOnce`, `NothingSkipped`, `ReadModelBehindOnlyByRace` |
| `sync_late` | one transaction of the partner open between number and commit, starts online and offline, pages of 2 | `NothingSkipped`, `ReadModelBehindOnlyByRace` |
| `sync_live` | socket, join and cheer, two events of the partner; requests, sockets, the LISTEN connection and transactions fail | `CallsReturn`, `ReconnectRecovers` |
| `cursor_order` | 4 writers (a transition and two notes of one session, one of another), 5 numbers | `OvertakenOnlyByStrangers`, `SkippedOnlyPastStrangers` |
| `auth_sessions` | 1 account and installation, 2 passkeys, 3 challenges, sessions and tokens, 2 kits, 2 handlers at once, clock to 1 | `TypeOK`, `OneLiveToken`, `RotatableIsValid`, `ReuseEndsFamily`, `OneSessionPerProof`, `NeverValidAgain` |
| `phone_tokens` | 2 coordinators, 3 tokens, 2 sessions, 1 handler | `AppTypeOK`, `HonestPhoneNeverReuses`, `StoredTokenUnused` |
| `push_once` | 2 workers, 2 jobs of one device in a batch, 1 retry | `TypeOK`, `DeliveredOnceUnlessExcused` |
| `push_settles` | 2 workers, 1 job, 2 retries | `EveryJobSettles` |
| `pair_invites` | 3 accounts, one with a phone, 2 links, 2 pairs, 2 requests at once | `TypeOK`, `OnePairEach`, `OneOpenInvite`, `LinkWorks`, `PollStopsInformed`, `PartnerNoticed` |
| `stale_current` | no fault; the partner acts between two reads of the handler | `ReadModelNotBehindCursor`, violated |

Bounds. `MaxClock` and `MaxEvents` stop the clock and new commands. Durations of one or
two ticks put every deadline (the session's end, the pause's expiry, the key's expiry,
the cooldown) inside the clock's range, with ticks before, at and after it. Five events
allow start, join, pause, resume and one more, or a session that ends and its successor;
two keys for two members allow every replay, mismatch and reuse of a key. In `PairSync`,
`MaxEvents` bounds the partner only; the device is bounded by its keys. One open
transaction in `sync_late` is enough for an event to commit behind one of another
session, and with three events and a page of 2 the overtaken event lies on either side
of a page's end; the faults of `sync_commands` are left out there, and open transactions
are left out of the other two runs, to keep each below a few million states. The proofs
have both. The reconnect loop is part of `sync_commands` because only then are commands
given while a request is in flight. A page of 2 makes `has_more` happen. The store's
states end where the bounds end, so deadlock is not checked there; in `PairSync` an idle
pair may rest forever.

In `auth_sessions` three tokens allow a rotation of a rotated token and a replay of
either, three sessions a session of each origin beside another, two kits a
regeneration under a request that read the old one, two handlers every pair of
gaps; lifetimes of one tick put each expiry at the last instant of the clock. In
`phone_tokens` the second coordinator is a restart or a saved setting, after which
a doubled refresh needs three tokens. In `push_once` both workers can hold the same
job with the lease lapsed; retries beyond the first add nothing to delivery, and
`push_settles` has the limit of attempts reached by two workers at once instead.
In `pair_invites` two links allow a revoked one and its successor, or the links of
two creators that are both accepted by the third account; two places for requests
allow crossed polls and a late request beside its repetition. Deadlock is checked
there (`Restart` is always possible); the other new models stop at their bounds.

Symmetry is used in the runs of safety properties only (`ImplementsRoom` is one:
`FocusRoom` states no fairness). In `auth_sessions` only ids no `CHOOSE` draws from
are interchanged.

Fairness. `FairSyncSpec`: Weak fairness of the app's continuations, of the
handler's subscription and of reconnecting: Dart runs every ready continuation
and `_reconnectLoop` retries after at most 30 seconds for as long as it runs.
Strong fairness of the steps of a request: a request made again and again does
not fail at the same step every time. Nothing is assumed of the user, the
partner, the clock or the faults. `ReconnectRecovers` says in its own premise
that reconnecting recurs. `PushJobs!FairSpec`: weak fairness of claiming (the ticker
claims as long as a job is claimable), of leases and backoffs (time passes), strong
fairness of sending and writing, because a worker that is stopped again and again
still gets through in the end. `PairInvites!FairSpec`: a request ends (Dio's
timeouts), the 5-second timer ticks, and the network does not fail every poll of an
account for ever; strong fairness because a poll can be cut off at each step. Nobody
is assumed to invite, accept, leave a screen or start the app again.

### What the code does not keep

`stale_current` shows a behaviour that contradicts `docs/`; the finding in
`PROJECT.json` quotes both sides. The sync handler reads the current session, the
partner cancels it, the handler reads the events; the client stores the
cancellation and then the older row. The cancelled room is shown until some later
event names it. `ReadModelBehindOnlyByRace`, in `sync_commands`, says that this race is
one of two ways, during a sync and between two: its history variable `raced` names
the sessions it happened to. The other is the cursor: an event another session's
event overtook (below).

The models reach these behaviours too; no run is kept for them, and the hazards of
`PROJECT.json` record those a document or a comment of the repository speaks about:

* Hints. With no fault at all, an event committed after the active sync read its
  page is announced by a hint that only joins that sync; no later sync is scheduled
  (`hub.go:54`: "clients always replay from durable storage").
* Rooms. A start times out, the partner opens a room, the reconnect's sync has the
  start refused: the command goes, the optimistic room stays
  (`session_repository.dart:81`: "without opening a duplicate room").
* Notes. A note reaches the device through the history and then through its event;
  when the following history request fails it is listed twice
  (`sync_engine.dart:142`).
* Cursor. Two notes of one session commit in the reverse of cursor order, and a
  reader in between never asks for the first. So may events of two sessions: the
  partner's start or cancel draws n, a note of this device on a finished session
  draws n + 1, commits and is synced, and n commits. The device never asks for n:
  the room is missing, or is shown although it was cancelled, until a later state
  event of that session or a current session names it. `SkippedOnlyPastStrangers`,
  `NothingSkipped` and `ReadModelBehindOnlyByRace` are what holds
  (`docs/SECURITY.md:20`: "`/v1/sync` replays committed events.").
* Imports. A request that fails once while the socket stays up leaves an import in
  the outbox with nothing to send it again (`session_repository.dart:153`: "The
  durable outbox retries when connectivity returns.").
* Recovery. A request that read the old hashes spends the same position of a kit
  generated meanwhile (`auth_handlers.go:268`: "Confirm that old recovery codes will
  stop working."). `OneSessionPerProof` holds: it counts as the one session of the
  new row.
* Phones. A refresh doubled by a second coordinator, or cut off between rotation
  and storage, ends the session for reuse.
* Push. A job addressed to the old owner of a device is delivered after the device
  was registered by another account.
* Pairs. Crossed polls may leave the unpaired screen with its poll stopped; a phone
  whose accept committed without its answer arriving learns of its pair at the next
  start; a request for a link that arrives late revokes the link that was shared.

## 4. Proofs

`FocusStoreProofs` assumes `StoreAssumption` (shapes of the constants; NULL is none
of the ids) and nothing about sizes.

* `TypeCorrect`: `TypeOK` is inductive.
* `OneLive`: `OneLiveSession` is inductive with `TypeOK`; the argument is that a
  sweep only removes live sessions and that `StartSession` inserts when
  `NoLiveSession` holds of the swept rows.
* `Company`: `CompanyMatchesState` is inductive with `TypeOK`, row by row: each
  UPDATE keeps `CompanyOK` of the row it writes.
* `EndedStays`: each action writes rows that are live or absent only.

`EventCursorProofs` assumes `CursorAssumption`. The inductive invariant `LockInv`
adds to `OvertakenOnlyByStrangers` that a writer without a lock has drawn nothing,
that conflicting writers do not hold locks together, that a number is drawn once
and that every committed event belongs to a writer that is done: without them a
writer could draw below an event already committed. `CursorOrder` follows;
`ReadersMissOnlyStrangers` adds that the cursor is itself an event the reader was
given, so an event that commits below it was overtaken by that event's writer,
which by `CursorOrder` is no conflicting one.

`FocusLogProofs` goes on from there. `LogReplaysToRows`, `VersionsNameOneRow` and
`NoLostUpdate` are proved together (`LogReplays`, `VersionsNameRows`,
`UpdatesNotLost`): that versions grow along the log follows only when the last event
of a session carries its row, and that a transition saw the latest version only when
no event is above it. They are stated as `LogOK` of arbitrary rows and an arbitrary
log, so that two lemmas about one write each (`WriteKeeps`, `RemarkKeeps`) serve every
command; a command is shown to be one such write, `StartSession` a sweep and one.

* `KeysNameOneEffect`: `OneEffectPerKey`, inductive with `TypeOK` and `OneLiveSession`.
  A key is written by the transaction that appends its event, and never deleted.
* `PairsStayIsolated`: `PairsIsolated`, with the invariant that a cheer is about a
  session that has a row (`CheersIn`): an id without one may still go to any pair.
* `CheersKeepDistance`: `CheersSpaced`, with the invariant that no cheer is later
  than the database's clock. Without it a new cheer might precede an old one.
* `JobsFollowLog`: `JobsMatchLog`, restated as a function of the log whose value on
  an appended log is the old value and the new event's jobs.

It ends with `RoomImplemented`, the refinement of `FocusRoom`: initial
states map to initial states, and each command to a room's step, each sweep to the
close of one room, a tick to the countdown and the rest to stuttering. It needs the
row types, the pause instant of a paused row (from `Company`) and `OneLive` (two due
sessions of a pair would be two steps).

`PairSyncProofs` assumes `StoreAssumption` and `SyncAssumption` (all accounts in one
pair, keys and session ids distinct, a page of at least one event) and holds for any
number of sessions, keys and events, any page size and buffer, any set of faults, and
any number of the partner's transactions open between number and commit.
A command of the device reaches the store with instants and versions that `Next` of
`FocusStore` draws from bounded sets, so the lemmas about the store are stated for
`AnyStep`, a command with any instant and version. The inductive invariant `SyncInv`
is `ServerInv`, which the store keeps whoever calls it, `NumbersOK` and `DeviceInv`:

* `ServerInv` adds to the store's invariants that imported sessions are over when the
  server hears of them (`ImportsOver`), and that no state-bearing event is a cheer's or
  a note (`CheersCarryNothing`, `NotesBare`).
* `NumbersOK` says that no number is drawn twice (`Apart`), that what an open
  transaction has drawn nobody else has (`OpenApart`), and that the events of one
  session, notes among themselves excepted, have their numbers in the order of their
  commits (`InLockOrder`). The last is what `Excludes` is for: without it the last
  state event of a page by position need not be the last by number, and an older row
  could be stored over a newer one.
* `CommandsOK` and `AskedOK` follow a command from outbox to request to abandoned
  handler: what is sent was minted, only cheers are postponed, and a request asks for
  every other command that may have been carried out. From it `CommandsSettle`: when
  the response removes a command, it was refused or its event is in the log.
* `UnseenOK` and `AnswersOK` say that the event of a command still kept, unless it is
  a cheer, lies above the cursor. Without it a result replayed for a command sent
  twice could take a row back.
* `RequestOK` says that the request under way starts at the cursor, and by `PageOK`
  its page holds every state event from there to the next cursor but those another
  session's event overtook, however many commit below that cursor while the response
  is on its way. `CursorSkipsNothing` follows.
* `ReadOK` dates the row of the current session: it is up to date with the log as it
  was when the row was read, or the log has named the session since; and the cursor
  was known by then (`KnownAt`), so that an event that commits below it later is an
  overtaken one. With `ShownOK`,
  `BehindOnlyByRace` for each session, it covers the four sources of a row in
  `LocalAfter` (`RowSource`, `RowShown`).
* `OwnOK` says that session ids of this device are its own and that a live row of
  offline origin has not left it, so dropping an optimistic row hides nothing of the
  partner's.

`Served(K)` says what any step of the server may do to the log; the lemmas beginning
with `Keeps` show once that each part survives it, and a step of the partner, the
clock, an abandoned handler or the current one is an instance. The prover cannot use
the library's induction theorems, which take a predicate; `SetInduction` and
`LeastElement` derive induction over a set from the well-foundedness of the naturals,
and `PickedRecursion` and `PickedRows` give from it what `Picked` returns.
`SyncTypesCorrect`, `CommandsSettle`, `CursorSkipsNothing`, `BehindOnlyByRace` and
`StoreKeepsItsPromises` (the store's own invariants hold in the composition) follow.

`AuthStoreProofs` assumes `AuthAssumption`. Its `Inv` is what a handler may rely on
across its verification: accounts stay active, passkeys keep their owner, consumed
challenges stay consumed (`RequestsOK`); a live session's device, account and passkey
are in order (`SessionsOK`), so only its state and expiry decide; a family has one
session (`TokensOK`, `FamiliesEnd`); and an origin is spent and held by nobody
(`OriginsSpent`). `AuthTypeCorrect`, `OneTokenPerSession`, `RefreshOnlyValid`,
`ReuseIsFinal`, `ProofsUsedOnce` and the action property `EndedSessionsStay`
(`NeverValidAgain`) follow.

`AppTokensProofs` assumes `PhoneAssumption` as well. `PhoneUsesAuthStore` shows that
every step of phone and network is one of `AuthStore` or invisible to it, so the
theorems above hold of the composition. `PhoneInv` then follows the unused token of
each family that is not excused: on the wire it is fresh and
goes there once (`WireOK`), on its way back it is nowhere else (`CarriedOK`), and what
is stored is fresh and sent only by a refresh that will replace or clear it, or its
successor is on its way back (`StoredOK`). `PhoneIsHonest` and `StoredTokenWorks`
follow: a consumed token arrives at the server only in a family that has its excuse.

`PushJobsProofs` assumes `PushAssumption`, which asks for at least one attempt. In
`PushInv`, a job that is not excused is in one worker's hand at most (`InOneHand`),
pending there only under a lease that is held (`UnderLease`), and once delivered it is
still with its sender or written as sent (`Accounted`); attempts past the limit are
counted by the workers that hold a claim (`AttemptsCounted`), which bounds the type.
`PushTypeCorrect` and `DeliveredOnce` follow.

`PairInvitesProofs` assumes `InviteAssumption`. On the server, every pair was made by
one accepted link and every accepted link made one (`PairsOK`, `TakenOK`), which gives
`PairsAreExclusive` and `LinksReplaced`. For the screens the invariant counts requests:
one that waits for a link, one that reads the account unless reads crossed
(`OneCreate`, `OneRead`), and says what the answers under way name (`AnswersOK`).
`ShownLinksWork` and `PollStops` follow.

Each inductive invariant was checked by TLC on the instance of its run before it was
proved.

Only model-checked: the properties under fairness (`CallsReturn`,
`ReconnectRecovers`, `EveryJobSettles`, `PartnerNoticed`), which are outside the
prover. Every invariant and action property a passing run checks is a theorem.

## 5. Plan

Sign-out with `stopRealtime` and `clearProfile` in `PairSync`, the LIMIT 100 of
`pendingCommands`, and the rate limiter's windows.

### Not modelled

The rate limiter, a counter in one map under one lock that the handlers never read
back; migrations, applied at start-up under an advisory lock; configuration,
logging, static pages, diagnostics, presentation and generated code, which keep no
state these properties could relate. Of the modelled parts: the bytes and
signatures of tokens, WebAuthn verification, payloads and their encryption, names
and texts.
