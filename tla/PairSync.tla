------------------------------ MODULE PairSync ------------------------------
(***************************************************************************)
(* One device of account Me kept in step with the focus store: the durable *)
(* outbox, cursor and read model of the mobile app, its single-flight      *)
(* syncNow, the server's /v1/sync handler and the cursor hints of the      *)
(* realtime socket.  The partner acts on the store directly.               *)
(*                                                                         *)
(* The handler is not one transaction: every command is one of its own,    *)
(* then the current session is read, then the events.  The client applies  *)
(* a response in one local transaction.  A request may fail at any point,  *)
(* and a request the client gave up on may still be carried out.           *)
(*                                                                         *)
(* events lists the log by commits, as FocusStore does.  A cursor is the   *)
(* number an event draws from the sequence when it is inserted, and a      *)
(* transaction of the partner may draw long before it commits.             *)
(* A note is identified by the position of the event that announces it.    *)
(***************************************************************************)
EXTENDS FocusStore, FiniteSetsExt

CONSTANTS
  Me,            \* the account signed in on the device
  MySessions,    \* the session ids this device mints
  Offers,        \* the commands its user may give
  PageLimit,     \* events per response, 200
  RetryDelay,    \* 5 seconds before a cooled-down command is sent again
  HubCapacity,   \* buffered hints of one socket, 8
  Realtime,      \* whether the network lets a socket through
  MaxOpen,       \* bound on the partner's transactions left open
  Faults         \* which faults may occur

ASSUME SyncAssumption ==
  /\ Me \in Accounts
  /\ \A a \in Accounts : PairOf[a] = PairOf[Me] /\ PairOf[a] # NULL
  /\ NULL \notin Sessions /\ Keys \cap MySessions = {}
  /\ MySessions \subseteq Sessions /\ Offers \subseteq Operations
  /\ PageLimit \in Nat \ {0} /\ RetryDelay \in Nat /\ HubCapacity \in Nat \ {0}
  /\ Realtime \in BOOLEAN /\ MaxOpen \in Nat
  /\ Faults \subseteq {"http", "offline", "conflict", "socket", "listener", "crash"}

VARIABLES
  number,    \* number[i]: the cursor of the event at position i
  serial,    \* the last number the sequence has handed out
  drawn,     \* n for a transaction of the partner that drew n + 1, n + 2
  local,     \* local[s]: the local_sessions row, NoRow when absent
  notes,     \* notes[s]: the notes of that row, in the order displayed
  outbox,    \* outbox_commands by created_at
  cursor,    \* the durable cursor
  issued,    \* keys and session ids the device has minted
  refused,   \* keys the device was told are refused, history for properties
  raced,     \* sessions stored from a row older than the page, history too
  call,      \* the request in flight
  owner,     \* whose _performSync is _activeSync: "user", "loop" or "none"
  user,      \* the user's call of syncNow: [pc, start, throw]
  loop,      \* where _reconnectLoop is
  orphan,    \* commands of an abandoned request the server is still at
  socket,    \* "closed", "upgraded" or "subscribed"
  listener,  \* whether the server holds its LISTEN connection
  hints      \* cursor hints on their way to the loop

store == <<clock, session, events, idem, reactions, jobs, number, serial, drawn>>
device == <<local, notes, outbox, cursor, issued, refused, raced>>
engine == <<call, owner, user, loop, orphan>>
realtime == <<socket, listener, hints>>
syncVars == <<store, device, engine, realtime>>

-----------------------------------------------------------------------------
(* Helpers                                                                 *)

(* The rows of a table at the given positions, in their order: the WHERE   *)
(* of a query.  Written with positions, so that it can be reasoned about.  *)
Picked(rows, positions) ==
  LET F[n \in 0 .. Len(rows)] ==
        IF n = 0 THEN << >>
        ELSE IF n \in positions THEN Append(F[n - 1], rows[n]) ELSE F[n - 1]
  IN F[Len(rows)]

Pending == Picked(outbox, {i \in DOMAIN outbox : outbox[i].after =< clock})

NoteEvents(s, positions) ==
  Picked([i \in 1 .. Len(events) |-> i],
         {i \in positions :
            /\ events[i].session = s
            /\ events[i].type = "session.note_added"})

(* The event a command of this device was committed under, 0 if none.      *)
EventOfKey(k) ==
  IF \E i \in 1 .. Len(events) : events[i].actor = Me /\ events[i].key = k
  THEN CHOOSE i \in 1 .. Len(events) : events[i].actor = Me /\ events[i].key = k
  ELSE 0

NoCall ==
  [ stage |-> "idle", todo |-> << >>, done |-> << >>, from |-> 0, page |-> {},
    upto |-> 0, current |-> NULL, row |-> NoRow, rowAt |-> 0, seenTo |-> 0,
    throw |-> FALSE, error |-> FALSE, more |-> FALSE ]

(* _performSync up to the POST: what is pending and the cursor.            *)
Request(throw) ==
  [NoCall EXCEPT !.stage = "commands", !.todo = Pending, !.from = cursor,
                 !.throw = throw]

(* Every event appended by the step is notified at commit; the hub passes  *)
(* the hint to a subscribed socket unless its buffer is full.              *)
Publish ==
  LET more == Len(events') - Len(events)
      room == HubCapacity - hints
  IN hints' = IF socket = "subscribed" /\ listener
              THEN hints + (IF more < room THEN more ELSE room)
              ELSE hints

StoreIdle == UNCHANGED store /\ UNCHANGED hints

-----------------------------------------------------------------------------
(* The numbers of the log                                                  *)

(* The step's events have the numbers after base.                          *)
Numbered(base) ==
  number' = [i \in 1 .. Len(events') |->
               IF i =< Len(events) THEN number[i] ELSE base + (i - Len(events))]

(* A transaction draws and commits with nothing in between.                *)
DrawsNow ==
  /\ Numbered(serial)
  /\ serial' = serial + (Len(events') - Len(events))
  /\ UNCHANGED drawn

(* A transaction of the partner draws as many numbers as a command may     *)
(* need.  One that never commits has rolled back.                          *)
Draw ==
  /\ Cardinality(drawn) < MaxOpen
  /\ drawn' = drawn \cup {serial} /\ serial' = serial + 2
  /\ UNCHANGED <<clock, session, events, idem, reactions, jobs, number, device, engine,
                 realtime>>

(* Variant: nobody waits for a row.                                        *)
Excludes_Never(d, e) == FALSE

(* Event d cannot have drawn and committed while the transaction of e was  *)
(* open: both need the lock of one row, which only notes share, or e       *)
(* starts a session and had looked for a live one.                         *)
Excludes(d, e) ==
  \/ /\ d.session = e.session
     /\ d.type # "session.note_added" \/ e.type # "session.note_added"
  \/ /\ e.type = "session.started"
     /\ d.type # "session.note_added" /\ ~d.row.offline

(* A transaction that drew earlier commits.                                *)
DrewEarlier ==
  \E base \in drawn :
    /\ \A i \in 1 .. Len(events), j \in Len(events) + 1 .. Len(events') :
         number[i] > base => ~Excludes(events[i], events'[j])
    /\ Len(events') =< Len(events) + 2
    /\ Numbered(base)
    /\ drawn' = drawn \ {base} /\ UNCHANGED serial

-----------------------------------------------------------------------------
(* The sync handler                                                        *)

ServerApplies(c) ==
  CASE c.op = "session.start" -> StartSession(Me, c.key, c.session)
    [] c.op = "session.import_solo" ->
         ImportSoloSession(Me, c.key, c.session, c.started, c.completed)
    [] c.op = "session.note" -> AddNote(Me, c.key, c.session)
    [] c.op = "session.cheer" -> AddCheer(Me, c.key, c.session)
    [] OTHER -> \E action \in Actions :
                  /\ c.op = OperationOf[action]
                  /\ transitionSession(Me, c.key, c.session, c.version, action)

(* A command commits, is answered from its key, or is refused; a cheer     *)
(* within the cooldown is refused for now.  A serialization failure is     *)
(* reported as version_conflict, a refusal like any other.                 *)
Outcome(c, outcome, at) == [key |-> c.key, outcome |-> outcome, at |-> at]

CooledDown(c) ==
  /\ c.op = "session.cheer" /\ CoolingDown(Me, c.session)
  /\ session[c.session].state \in {"together", "paused"}

applySyncCommand ==
  LET c == Head(call.todo)
      Answer(result) ==
        call' = [call EXCEPT !.todo = Tail(@), !.done = Append(@, result)]
  IN /\ call.stage = "commands" /\ call.todo # << >>
     /\ \/ /\ ServerApplies(c) /\ DrawsNow
           /\ Publish
           /\ Answer(Outcome(c, "applied", Len(events')))
        \/ /\ ~getIdempotency(Me, c.key)
           /\ idem[Me][c.key].op = c.op
           /\ Answer(Outcome(c, "applied", EventOfKey(c.key)))
           /\ StoreIdle
        \/ /\ getIdempotency(Me, c.key) \/ idem[Me][c.key].op # c.op
           /\ ~ENABLED ServerApplies(c) \/ "conflict" \in Faults
           /\ Answer(Outcome(c, IF CooledDown(c) THEN "later" ELSE "refused", 0))
           /\ StoreIdle
     /\ UNCHANGED <<device, owner, user, loop, orphan, socket, listener>>

(* CurrentSession runs at READ COMMITTED, each statement with a snapshot   *)
(* of its own: the sweep and the id of the live session ...                *)
ReadCurrent ==
  LET p == PairOf[Me] IN
  /\ call.stage = "commands" /\ call.todo = << >>
  /\ IF \E s \in Sessions : Due(p, s) THEN CurrentSession(Me) /\ DrawsNow
     ELSE UNCHANGED store
  /\ Publish
  /\ LET live == {s \in Sessions : session'[s].pair = p /\ Live(session'[s])} IN
     call' = IF live = {} THEN [call EXCEPT !.stage = "events"]
             ELSE [call EXCEPT !.stage = "row", !.current = CHOOSE s \in live : TRUE]
  /\ UNCHANGED <<device, owner, user, loop, orphan, socket, listener>>

(* ... the row of that id, whatever became of it ...                       *)
ReadRow ==
  /\ call.stage = "row"
  /\ call' = [call EXCEPT !.stage = "company", !.row = session[call.current],
                          !.rowAt = Len(events)]
  /\ StoreIdle
  /\ UNCHANGED <<device, owner, user, loop, orphan, socket, listener>>

(* ... and its members and notes.                                          *)
ReadCompany ==
  /\ call.stage = "company"
  /\ call' = [call EXCEPT !.stage = "events",
                          !.row.members = session[call.current].members,
                          !.seenTo = Len(events)]
  /\ StoreIdle
  /\ UNCHANGED <<device, owner, user, loop, orphan, socket, listener>>

(* The committed events with the smallest numbers after the cursor of the  *)
(* request, PageLimit of them at most.                                     *)
Page ==
  LET unseen == {i \in 1 .. Len(events) : number[i] > call.from}
  IN {i \in unseen :
        Cardinality({j \in unseen : number[j] < number[i]}) < PageLimit}

PairEvents ==
  /\ call.stage = "events"
  /\ call' = [call EXCEPT
                !.stage = "reply", !.page = Page,
                !.upto = IF Page = {} THEN call.from
                         ELSE Max({number[i] : i \in Page})]
  /\ StoreIdle
  /\ UNCHANGED <<device, owner, user, loop, orphan, socket, listener>>

-----------------------------------------------------------------------------
(* _performSync                                                            *)

OutcomeOf(k) ==
  IF \E i \in DOMAIN call.done : call.done[i].key = k
  THEN call.done[CHOOSE i \in DOMAIN call.done : call.done[i].key = k].outcome
  ELSE "none"

CommandError == \E i \in DOMAIN call.done : call.done[i].outcome # "applied"

(* Variant: every command is taken for answered.                           *)
Answered_All(c) == TRUE

(* The results name the commands to remove, whether applied or refused.    *)
Answered(c) == OutcomeOf(c.key) \in {"applied", "refused"}

(* markCommandFailed                                                       *)
Postponed(c) ==
  IF OutcomeOf(c.key) = "later" THEN [c EXCEPT !.after = clock + RetryDelay] ELSE c

Remaining ==
  LET kept == Picked(outbox, {i \in DOMAIN outbox : ~Answered(outbox[i])})
  IN [i \in DOMAIN kept |-> Postponed(kept[i])]

(* Variants: the newest cursor the server has is stored; the number the    *)
(* next event will have is stored.                                         *)
NextCursor_Latest == serial
NextCursor_OneMore == call.upto + 1

NextCursor == call.upto

(* The events and the applied results of the response that carry a row of  *)
(* s; every one of them is upserted whatever the version stored, events    *)
(* after results, and the current session after both.  Their row's lock    *)
(* keeps the state events of one session in one order, so the last by      *)
(* number is the last by position.                                         *)
StateEvents(s) == {i \in call.page : events[i].session = s /\ StateEvent(i)}

StateResults(s) ==
  {j \in DOMAIN call.done :
     /\ call.done[j].outcome = "applied"
     /\ events[call.done[j].at].session = s
     /\ StateEvent(call.done[j].at)}

LastResult(s) == call.done[Max(StateResults(s))].at

(* Variant: the results are stored after the events.                       *)
LocalAfter_ResultsLast(s) ==
  IF call.current = s THEN call.row
  ELSE IF StateResults(s) # {} THEN events[LastResult(s)].row
  ELSE IF StateEvents(s) # {} THEN events[Max(StateEvents(s))].row
  ELSE local[s]

LocalAfter(s) ==
  IF call.current = s THEN call.row
  ELSE IF StateEvents(s) # {} THEN events[Max(StateEvents(s))].row
  ELSE IF StateResults(s) # {} THEN events[LastResult(s)].row
  ELSE local[s]

(* The current session was read before an event of it that the response    *)
(* knows of; what was stored so stays until the session is named again.    *)
Raced(s) ==
  IF call.current = s
  THEN \E i \in call.rowAt + 1 .. Len(events) :
         /\ i =< call.seenTo \/ i \in call.page
         /\ events[i].session = s /\ StateEvent(i)
  ELSE s \in raced /\ StateEvents(s) = {}

(* A row is stored with the notes it had when it was read; a note event    *)
(* appends to the row that is there.                                       *)
NotesAfter(s) ==
  IF call.current = s THEN NoteEvents(s, 1 .. call.seenTo)
  ELSE IF StateEvents(s) # {}
       THEN NoteEvents(s, (1 .. Max(StateEvents(s))) \cup call.page)
  ELSE LET page == NoteEvents(s, call.page) IN
       IF StateResults(s) # {} THEN NoteEvents(s, 1 .. LastResult(s)) \o page
       ELSE IF local[s] # NoRow THEN notes[s] \o page
       ELSE notes[s]

(* The response is applied in one local transaction.                       *)
ApplyResponse ==
  /\ call.stage = "reply"
  /\ local' = [s \in Sessions |-> LocalAfter(s)]
  /\ notes' = [s \in Sessions |-> NotesAfter(s)]
  /\ outbox' = Remaining
  /\ cursor' = NextCursor
  /\ refused' = refused \cup {k \in Keys : OutcomeOf(k) = "refused"}
  /\ raced' = {s \in Sessions : Raced(s)}
  /\ call' = [NoCall EXCEPT
                !.stage = IF call.page # {} THEN "history" ELSE "end",
                !.throw = call.throw,
                !.error = CommandError,
                !.more = Cardinality(call.page) = PageLimit]
  /\ StoreIdle
  /\ UNCHANGED <<issued, owner, user, loop, orphan, socket, listener>>

(* refreshHistory stores every completed session with the notes it has    *)
(* now; a failure is ignored.                                              *)
refreshHistory ==
  LET done == {s \in Sessions : session[s].state = "completed"} IN
  /\ call.stage = "history"
  /\ call' = [call EXCEPT !.stage = "end"]
  /\ \/ /\ local' = [s \in Sessions |-> IF s \in done THEN session[s] ELSE local[s]]
        /\ notes' = [s \in Sessions |-> IF s \in done
                                        THEN NoteEvents(s, 1 .. Len(events))
                                        ELSE notes[s]]
     \/ /\ "http" \in Faults
        /\ UNCHANGED <<local, notes>>
  /\ StoreIdle
  /\ UNCHANGED <<outbox, cursor, issued, refused, raced, owner, user, loop, orphan,
                 socket, listener>>

Idle == [pc |-> "idle", start |-> NULL, throw |-> FALSE, unsaved |-> NULL]

(* Variant: the callers that joined are forgotten.                         *)
Completed_OwnerOnly(outcome) ==
  /\ owner' = "none"
  /\ user' = IF owner = "user" THEN Idle ELSE user
  /\ loop' = IF owner = "loop" THEN (IF outcome = "ok" THEN "listening" ELSE "away")
             ELSE loop
  /\ UNCHANGED <<local, notes, socket, hints>>

(* The future of the active sync completes for its owner and for whoever   *)
(* joined it.  On success a joiner looks for pending commands; an error    *)
(* reaches both, takes the loop to its catch and finally blocks and ends   *)
(* the user's call, where SessionRepository.start drops its row unless the *)
(* error means the server could not be reached.                            *)
Completed(outcome) ==
  LET drop == /\ user.pc = "waiting" /\ user.start # NULL
              /\ outcome \in {"server", "command"}
      hangUp == loop = "waiting" /\ outcome # "ok"
  IN /\ owner' = "none"
     /\ user' = IF user.pc # "waiting" THEN user
                ELSE IF outcome = "ok" /\ owner # "user"
                THEN [user EXCEPT !.pc = "woken"] ELSE Idle
     /\ loop' = IF loop # "waiting" THEN loop
                ELSE IF outcome # "ok" THEN "away"
                ELSE IF owner = "loop" THEN "listening" ELSE "woken"
     /\ local' = IF drop THEN [local EXCEPT ![user.start] = NoRow] ELSE local
     /\ notes' = IF drop THEN [notes EXCEPT ![user.start] = << >>] ELSE notes
     /\ socket' = IF hangUp THEN "closed" ELSE socket
     /\ hints' = IF hangUp THEN 0 ELSE hints

(* The end of _performSync: the command error, the next page, or success.  *)
Finish ==
  /\ call.stage = "end"
  /\ \/ /\ call.throw /\ call.error
        /\ call' = NoCall
        /\ Completed("command")
     \/ /\ ~(call.throw /\ call.error) /\ call.more
        /\ call' = Request(call.throw)
        /\ UNCHANGED <<owner, user, loop, local, notes, socket, hints>>
     \/ /\ ~(call.throw /\ call.error) /\ ~call.more
        /\ call' = NoCall
        /\ Completed("ok")
  /\ UNCHANGED <<store, outbox, cursor, issued, refused, raced, orphan, listener>>

(* No response arrives, or a 5xx one, of the handler or of a gateway while *)
(* the handler is still working.                                           *)
RequestFails ==
  /\ "http" \in Faults
  /\ call.stage \in {"commands", "row", "company", "events", "reply"}
  /\ Completed("offline") \/ Completed("server")
  /\ orphan' = (IF orphan = << >> THEN call.todo ELSE orphan)
  /\ call' = NoCall
  /\ UNCHANGED <<store, outbox, cursor, issued, refused, raced, listener>>

(* An abandoned handler commits its next command, is refused, or is        *)
(* cancelled with its request.                                             *)
OrphanStep ==
  /\ orphan # << >>
  /\ \/ ServerApplies(Head(orphan)) /\ DrawsNow /\ Publish
     \/ StoreIdle
  /\ orphan' = Tail(orphan)
  /\ UNCHANGED <<device, call, owner, user, loop, socket, listener>>

-----------------------------------------------------------------------------
(* syncNow                                                                 *)

(* Start a sync, or join the one that is active.                           *)
BeginOrJoin(who, throw) ==
  IF owner = "none"
  THEN owner' = who /\ call' = Request(throw)
  ELSE UNCHANGED <<owner, call>>

UserSyncs ==
  /\ user.pc = "calling"
  /\ BeginOrJoin("user", user.throw)
  /\ user' = [user EXCEPT !.pc = "waiting"]
  /\ UNCHANGED <<store, device, loop, orphan, realtime>>

LoopSyncs ==
  /\ loop = "calling"
  /\ BeginOrJoin("loop", FALSE)
  /\ loop' = "waiting"
  /\ UNCHANGED <<store, device, user, orphan, realtime>>

(* A joiner goes round again only when a command is pending.               *)
UserWakes ==
  /\ user.pc = "woken"
  /\ user' = IF Pending # << >> THEN [user EXCEPT !.pc = "calling"] ELSE Idle
  /\ UNCHANGED <<store, device, call, owner, loop, orphan, realtime>>

LoopWakes ==
  /\ loop = "woken"
  /\ loop' = IF Pending # << >> THEN "calling" ELSE "listening"
  /\ UNCHANGED <<store, device, call, owner, user, orphan, realtime>>

-----------------------------------------------------------------------------
(* The realtime socket                                                     *)

(* Variant: nothing is synced after a reconnect.                           *)
Connected_NoSync == "listening"

(* The loop's state once the channel is ready.                             *)
Connected == "calling"

Connect ==
  /\ Realtime /\ loop = "away"
  /\ socket' = "upgraded" /\ loop' = Connected
  /\ hints' = 0
  /\ UNCHANGED <<store, device, call, owner, user, orphan, listener>>

(* The handler subscribes after it has accepted the upgrade.               *)
Subscribe ==
  /\ socket = "upgraded"
  /\ socket' = "subscribed"
  /\ UNCHANGED <<store, device, engine, listener, hints>>

Hear ==
  /\ loop = "listening" /\ socket # "closed" /\ hints > 0
  /\ hints' = hints - 1
  /\ loop' = "calling"
  /\ UNCHANGED <<store, device, call, owner, user, orphan, socket, listener>>

SocketDrops ==
  /\ "socket" \in Faults /\ socket # "closed"
  /\ socket' = "closed" /\ hints' = 0
  /\ UNCHANGED <<store, device, engine, listener>>

HangUp ==
  /\ loop = "listening" /\ socket = "closed"
  /\ loop' = "away"
  /\ UNCHANGED <<store, device, call, owner, user, orphan, realtime>>

(* The server's LISTEN connection is lost, and taken up again.             *)
ListenerChanges ==
  /\ "listener" \in Faults
  /\ listener' = ~listener
  /\ UNCHANGED <<store, device, engine, socket, hints>>

-----------------------------------------------------------------------------
(* The user, the partner, the process                                      *)

NoVersion == NULL

Command(k, op, s, version, started, completed) ==
  [ key |-> k, op |-> op, session |-> s, version |-> version,
    started |-> started, completed |-> completed, after |-> 0 ]

enqueue(c) ==
  /\ c.key \notin issued
  /\ outbox' = Append(outbox, c)

LocalLive == {s \in Sessions : Live(local[s])}

Optimistic(s, offline) ==
  [ NoRow EXCEPT !.pair = PairOf[Me], !.startedBy = Me, !.state = "open",
                 !.startedAt = clock, !.endsAt = clock + Duration,
                 !.version = 1, !.members = {Me}, !.offline = offline ]

(* A row is stored before its command is, by two awaited writes.           *)
Unsaved(op, s, started, completed) ==
  [op |-> op, session |-> s, started |-> started, completed |-> completed]

(* SessionRepository.start, with a network and without.  A key is left for *)
(* the command.                                                            *)
UserStart(s) ==
  /\ user.pc = "idle" /\ "session.start" \in Offers
  /\ LocalLive = {}
  /\ s \in MySessions \ issued
  /\ \/ /\ Keys \ issued # {}
        /\ local' = [local EXCEPT ![s] = Optimistic(s, FALSE)]
        /\ user' = [ pc |-> "storing", start |-> s, throw |-> TRUE,
                     unsaved |-> Unsaved("session.start", s, 0, 0) ]
     \/ /\ "offline" \in Faults
        /\ local' = [local EXCEPT ![s] = Optimistic(s, TRUE)]
        /\ UNCHANGED user
  /\ issued' = issued \cup {s}
  /\ UNCHANGED <<store, notes, outbox, cursor, refused, raced, call, owner, loop,
                 orphan, realtime>>

(* The second write of a start and of an import, under a new key.          *)
Enqueue(k) ==
  LET c == user.unsaved IN
  /\ user.pc = "storing"
  /\ enqueue(Command(k, c.op, c.session, NoVersion, c.started, c.completed))
  /\ issued' = issued \cup {k}
  /\ user' = [user EXCEPT !.pc = "calling", !.unsaved = NULL]
  /\ UNCHANGED <<store, local, notes, cursor, refused, raced, call, owner, loop, orphan,
                 realtime>>

(* What the screens offer for a session; OfflineCommand has the rest.      *)
Offered(row) ==
  CASE row.offline /\ Live(row) -> {}
    [] Live(row) /\ Me \notin row.members -> {"session.join"}
    [] row.state = "paused" -> {"session.resume", "session.complete"}
    [] row.state = "open" -> {"session.pause", "session.complete"}
    [] row.state = "together" ->
         {"session.pause", "session.complete", "session.cheer"}
    [] row.state = "completed" -> {"session.note"}
    [] OTHER -> {}

(* SessionRepository._command                                              *)
UserCommand(k, s, op) ==
  /\ user.pc = "idle"
  /\ op \in Offered(local[s])
  /\ enqueue(Command(k, op, s,
                     IF op \in {"session.note", "session.cheer"} THEN NoVersion
                     ELSE local[s].version, 0, 0))
  /\ issued' = issued \cup {k}
  /\ user' = [Idle EXCEPT !.pc = "calling", !.throw = TRUE]
  /\ UNCHANGED <<store, local, notes, cursor, refused, raced, call, owner, loop, orphan,
                 realtime>>

(* pause, resume, complete and cancel of a session of offline origin.      *)
(* Pausing is bounded by MaxEvents, as the log is.                         *)
OfflineCommand(s) ==
  LET row == local[s] IN
  /\ user.pc = "idle"
  /\ Live(row) /\ row.offline
  /\ \/ /\ row.state = "open" /\ row.version < MaxEvents
        /\ local' = [local EXCEPT ![s] =
                       [row EXCEPT !.state = "paused", !.pauseOrigin = "open",
                                   !.pausedAt = clock, !.version = @ + 1]]
        /\ UNCHANGED <<notes, user>>
     \/ /\ row.state = "paused"
        /\ local' = [local EXCEPT ![s] =
                       [row EXCEPT !.state = row.pauseOrigin, !.pauseOrigin = NULL,
                                   !.endsAt = @ + (clock - row.pausedAt),
                                   !.pausedAt = NULL, !.version = @ + 1]]
        /\ UNCHANGED <<notes, user>>
     \/ /\ Keys \ issued # {}
        /\ local' = [local EXCEPT ![s] =
                       [row EXCEPT !.state = "completed", !.completedAt = clock,
                                   !.pauseOrigin = NULL, !.pausedAt = NULL,
                                   !.version = @ + 1]]
        /\ user' = [Idle EXCEPT !.pc = "storing",
                      !.unsaved = Unsaved("session.import_solo", s, row.startedAt, clock)]
        /\ UNCHANGED notes
     \/ /\ local' = [local EXCEPT ![s] = NoRow]
        /\ notes' = [notes EXCEPT ![s] = << >>]
        /\ UNCHANGED user
  /\ UNCHANGED <<store, outbox, cursor, issued, refused, raced, call, owner, loop,
                 orphan, realtime>>

(* The other member's devices, through the same store, by transactions     *)
(* that may stay open between drawing a number and committing.             *)
PartnerActs ==
  /\ Len(events) < MaxEvents
  /\ \E a \in Accounts \ {Me} : CommandBy(a)
  /\ \A s \in MySessions : session[s] = NoRow => session'[s] = NoRow
  /\ DrawsNow \/ DrewEarlier
  /\ Publish
  /\ UNCHANGED <<device, engine, socket, listener>>

TimePasses == Tick /\ UNCHANGED <<number, serial, drawn, device, engine, realtime>>

(* The process is killed and launched again: _startRealtimeIfPaired starts *)
(* the loop and a sync of its own.                                         *)
Launched == [Idle EXCEPT !.pc = "calling"]

Crash ==
  /\ "crash" \in Faults
  /\ call' = NoCall /\ owner' = "none"
  /\ user' = Launched /\ loop' = "away"
  /\ orphan' = (IF orphan = << >> THEN call.todo ELSE orphan)
  /\ socket' = "closed" /\ hints' = 0
  /\ UNCHANGED <<store, device, listener>>

SyncInit ==
  /\ Init
  /\ number = << >> /\ serial = 0 /\ drawn = {}
  /\ local = [s \in Sessions |-> NoRow]
  /\ notes = [s \in Sessions |-> << >>]
  /\ outbox = << >> /\ cursor = 0
  /\ issued = {} /\ refused = {} /\ raced = {}
  /\ call = NoCall /\ owner = "none"
  /\ user = Launched /\ loop = "away"
  /\ orphan = << >>
  /\ socket = "closed" /\ listener = TRUE /\ hints = 0

(* The steps of a request, and those the app takes by itself.              *)
Serve ==
  applySyncCommand \/ ReadCurrent \/ ReadRow \/ ReadCompany \/ PairEvents
Proceed == ApplyResponse \/ refreshHistory \/ Finish
UserProceeds == (\E k \in Keys : Enqueue(k)) \/ UserSyncs \/ UserWakes
LoopProceeds == LoopSyncs \/ LoopWakes \/ Hear \/ HangUp

SyncNext ==
  \/ Serve \/ Proceed \/ UserProceeds \/ LoopProceeds
  \/ Connect \/ Subscribe
  \/ RequestFails \/ OrphanStep \/ SocketDrops \/ ListenerChanges \/ Crash
  \/ \E s \in Sessions :
       \/ UserStart(s) \/ OfflineCommand(s)
       \/ \E k \in Keys, op \in Offers : UserCommand(k, s, op)
  \/ Draw \/ PartnerActs \/ TimePasses

SyncSpec == SyncInit /\ [][SyncNext]_syncVars

(* What the scheduler owes: the handler and the app's futures run to their *)
(* end, the reconnect loop always tries again after its delay, and a       *)
(* request that is made over and over does not fail at the same step every *)
(* time.                                                                   *)
Fairness ==
  /\ SF_syncVars(applySyncCommand) /\ SF_syncVars(ReadCurrent)
  /\ SF_syncVars(ReadRow) /\ SF_syncVars(ReadCompany)
  /\ SF_syncVars(PairEvents) /\ SF_syncVars(ApplyResponse) /\ WF_syncVars(Proceed)
  /\ WF_syncVars(UserProceeds) /\ WF_syncVars(LoopProceeds)
  /\ WF_syncVars(Connect) /\ WF_syncVars(Subscribe)

FairSyncSpec == SyncSpec /\ Fairness

-----------------------------------------------------------------------------
(* Properties                                                              *)

OutboxCommand ==
  [ key : Keys, op : Operations, session : Sessions, version : Nat \cup {NULL},
    started : Nat, completed : Nat, after : Nat ]

(* The tables of the device, the request in flight and the callers have    *)
(* their shapes, and a sync is active exactly when somebody owns it.       *)
SyncTypeOK ==
  /\ TypeOK
  /\ local \in [Sessions -> Row]
  /\ \A s \in Sessions : \A i \in DOMAIN notes[s] : notes[s][i] \in 1 .. Len(events)
  /\ \A i \in DOMAIN outbox : outbox[i] \in OutboxCommand
  /\ number \in [1 .. Len(events) -> 1 .. serial]
  /\ cursor = 0 \/ \E i \in 1 .. Len(events) : cursor = number[i]
  /\ issued \subseteq Keys \cup MySessions /\ refused \subseteq Keys
  /\ raced \subseteq Sessions
  /\ call.stage \in {"idle", "commands", "row", "company", "events", "reply",
                     "history", "end"}
  /\ owner = "none" <=> call.stage = "idle"
  /\ owner = "user" => user.pc = "waiting"
  /\ owner = "loop" => loop = "waiting"
  /\ user.pc \in {"idle", "storing", "calling", "waiting", "woken"}
  /\ loop \in {"away", "calling", "waiting", "woken", "listening"}
  /\ socket \in {"closed", "upgraded", "subscribed"}
  /\ hints \in 0 .. HubCapacity

(* A command the user gave is waiting in the outbox, has committed one     *)
(* event and only one, or has been refused: requests that are lost, sent   *)
(* again, carried out late or cut short by a crash, and commands given     *)
(* while a sync is under way, lose none and repeat none.                   *)
CommandsSettleOnce ==
  \A k \in issued \cap Keys :
    LET under == {i \in 1 .. Len(events) : events[i].actor = Me /\ events[i].key = k}
    IN /\ k \notin refused /\ under = {} => \E i \in DOMAIN outbox : outbox[i].key = k
       /\ \A i, j \in under : i = j

(* An event committed below the number of one that had committed already,  *)
(* of another session.                                                     *)
Overtaken(i) ==
  \E j \in 1 .. i - 1 :
    number[j] > number[i] /\ events[j].session # events[i].session

(* The cursor passes nothing by but what was overtaken: a session of the   *)
(* partner is in the local table if a state event of it lies at or below   *)
(* the cursor and did not commit behind an event of another session.       *)
(* Events that commit while a response is on its way, pages and failed     *)
(* requests must not move the cursor over events that were not applied,    *)
(* and the order of two events of the session itself must not count.       *)
NothingSkipped ==
  \A i \in 1 .. Len(events) : LET s == events[i].session IN
    /\ StateEvent(i) /\ number[i] =< cursor /\ ~Overtaken(i)
    /\ session[s].startedBy # Me
    => local[s] # NoRow

(* The device shows the log up to its cursor, between syncs and during     *)
(* one: each row is the one the last event below the cursor carries, or a  *)
(* later version.  Results replayed for commands sent twice, pages,        *)
(* histories and events applied in one response do not take a row back.    *)
(* Two things leave a row behind: an event that another session's overtook *)
(* may not have been asked for, and a current session the handler read     *)
(* before an event of it that the same response carries is stored last,    *)
(* which lasts until the session is named again.                           *)
ReadModelBehindOnlyByRace ==
  \A i \in 1 .. Len(events) : LET s == events[i].session IN
    /\ StateEvent(i) /\ number[i] =< cursor /\ ~Overtaken(i)
    /\ local[s] # NoRow /\ s \notin raced
    => local[s] = events[i].row \/ local[s].version > events[i].row.version

(* Single flight does not wedge: whoever starts a sync or joins somebody   *)
(* else's, the user's call returns and the loop comes back to listening or *)
(* reconnecting.                                                           *)
CallsReturn ==
  /\ user.pc # "idle" ~> user.pc = "idle"
  /\ loop \in {"calling", "waiting", "woken"} ~> loop \in {"listening", "away"}

(* The device has event n: its cursor has reached it, and the session it   *)
(* carries is in the table.                                                *)
Received(n) ==
  /\ cursor >= number[n]
  /\ StateEvent(n) /\ session[events[n].session].startedBy # Me
     => local[events[n].session] # NoRow

(* Reconnecting is the recovery path: as long as the socket keeps being    *)
(* re-established, every event that was not overtaken before it committed  *)
(* reaches the device, whatever hints were lost with a socket, the LISTEN  *)
(* connection or a full buffer and whatever requests failed.  An overtaken *)
(* event below the cursor is not repaired by reconnecting.                 *)
ReconnectRecovers ==
  []<>(loop = "away") =>
    \A n \in 1 .. MaxEvents :
      Len(events) >= n /\ ~Overtaken(n) ~> Len(events) >= n /\ Received(n)

-----------------------------------------------------------------------------
(* What the repository says that the code does not keep                    *)

(* The events at or below the cursor have been reduced into the read       *)
(* model: between syncs no row is older than the last of them.             *)
ReadModelNotBehindCursor ==
  owner = "none" =>
    \A i \in 1 .. Len(events) : LET s == events[i].session IN
      StateEvent(i) /\ number[i] =< cursor /\ local[s] # NoRow
      => local[s].version >= events[i].row.version
=============================================================================
