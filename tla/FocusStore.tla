----------------------------- MODULE FocusStore -----------------------------
(***************************************************************************)
(* The collaboration half of the server's store: focus sessions of pairs,  *)
(* their members, notes and cheers, the pair event log, the idempotency    *)
(* keys and the notification jobs a command leaves behind.                 *)
(*                                                                         *)
(* Every command of server/internal/store/collaboration.go is one          *)
(* SERIALIZABLE transaction that either commits as a whole or leaves       *)
(* nothing behind, so it is one action; a refused command (ErrNotFound,    *)
(* ErrConflict, ErrVersion, ErrActiveSession, ErrCooldown, a unique        *)
(* violation, a serialization failure) and a replay answered from its      *)
(* idempotency key change nothing and are the stuttering steps.            *)
(* CurrentSession runs at READ COMMITTED, but all it writes is done to     *)
(* rows it holds FOR UPDATE.                                               *)
(*                                                                         *)
(* Abstracted: display names, note bodies, the wording of notifications,   *)
(* updated_at, created_at, duration_seconds and cancelled_at.  A           *)
(* note is the event that announces it.                                    *)
(***************************************************************************)
EXTENDS Integers, Sequences

CONSTANTS
  Accounts,       \* account ids
  Pairs,          \* pair ids
  PairOf,         \* PairOf[a]: the pair of account a, NULL if it has none
  Sessions,       \* client-chosen session ids
  Keys,           \* client-chosen idempotency keys
  Devices,        \* live push devices
  DeviceOwner,    \* DeviceOwner[d]: the account d is registered to
  Instants,       \* the instants an offline client may claim for an import
  NULL,           \* SQL NULL
  Duration,       \* 25 minutes
  PauseTTL,       \* 24 hours, after which a paused session expires
  ImportSpan,     \* 24 hours, the longest import accepted
  ImportLead,     \* 2 minutes, how far in the future an import may end
  KeyTTL,         \* 7 days, after which a key is no longer answered from
  CheerCooldown,  \* 30 seconds
  Skew,           \* database clock minus server process clock
  MaxClock,       \* bound on the clock
  MaxEvents       \* bound on the event log

(* The operation names idempotency keys are stored under.                  *)
Operations ==
  { "session.start", "session.import_solo", "session.join", "session.pause",
    "session.resume", "session.complete", "session.cancel", "session.note",
    "session.cheer" }

ASSUME StoreAssumption ==
  /\ PairOf \in [Accounts -> Pairs \cup {NULL}]
  /\ DeviceOwner \in [Devices -> Accounts]
  /\ NULL \notin Pairs \cup Accounts \cup Keys \cup Int
  /\ NULL \notin {"open", "together"} \cup Operations
  /\ Instants \subseteq Nat
  /\ Duration \in Nat /\ PauseTTL \in Nat /\ ImportSpan \in Nat
  /\ ImportLead \in Nat /\ KeyTTL \in Nat /\ CheerCooldown \in Nat
  /\ Skew \in Int /\ MaxClock \in Nat /\ MaxEvents \in Nat

VARIABLES
  clock,      \* the server process's clock, s.now()
  session,    \* session[s]: the focus_sessions row s with its session_members
  events,     \* pair_events in the order of commits
  idem,       \* idem[a][k]: the idempotency_keys row (a, k)
  reactions,  \* the reactions table
  jobs        \* the notification_jobs table

vars == <<clock, session, events, idem, reactions, jobs>>

-----------------------------------------------------------------------------
(* Rows                                                                    *)

LiveStates == {"open", "together", "paused"}
EndStates == {"completed", "cancelled", "expired"}
States == LiveStates \cup EndStates

Row ==
  [ pair : Pairs \cup {NULL}, startedBy : Accounts \cup {NULL},
    state : States \cup {"none"}, pauseOrigin : {"open", "together", NULL},
    startedAt : Int, endsAt : Int, pausedAt : Int \cup {NULL},
    completedAt : Int \cup {NULL}, version : Nat, members : SUBSET Accounts,
    offline : BOOLEAN ]

(* No row with this id.                                                    *)
NoRow ==
  [ pair |-> NULL, startedBy |-> NULL, state |-> "none", pauseOrigin |-> NULL,
    startedAt |-> 0, endsAt |-> 0, pausedAt |-> NULL, completedAt |-> NULL,
    version |-> 0, members |-> {}, offline |-> FALSE ]

(* An event names the session it is about and carries its row when the     *)
(* payload is a session, NoRow when it is a note or a cheer.  key and seen  *)
(* record the idempotency key and the expected version of the command that *)
(* committed the event; the log does not store them and no action reads    *)
(* them, they are history for the properties.                              *)
EventTypes ==
  { "session.started", "session.joined", "session.pause", "session.resume",
    "session.complete", "session.cancel", "session.completed",
    "session.expired", "session.note_added", "session.cheered" }

Event ==
  [ type : EventTypes, pair : Pairs, session : Sessions,
    actor : Accounts \cup {NULL}, key : Keys \cup {NULL},
    seen : Nat \cup {NULL}, row : Row ]

(* The actions the API offers; ActionExpire has no route.                  *)
Actions == {"join", "pause", "resume", "complete", "cancel"}

OperationOf ==
  [ join |-> "session.join", pause |-> "session.pause",
    resume |-> "session.resume", complete |-> "session.complete",
    cancel |-> "session.cancel" ]

EventOf == [OperationOf EXCEPT !.join = "session.joined"]

NoKey == [ op |-> NULL, expires |-> 0 ]

KeyRow == [ op : Operations \cup {NULL}, expires : Int ]

Job == [ cursor : Nat, device : Devices,
         kind : {"focus_started", "partner_note"} ]

-----------------------------------------------------------------------------
(* Helpers                                                                 *)

DbNow == clock + Skew

Live(row) == row.state \in LiveStates

(* An identity without a pair is refused by every command; one with a pair *)
(* is a member of it, since membership is never withdrawn.                 *)
requirePairMember(a) == PairOf[a] # NULL

(* The key is unknown or no longer answered from, so the command runs.     *)
getIdempotency(a, k) == idem[a][k].op = NULL \/ idem[a][k].expires =< DbNow

(* Variant: the key is written with an upsert.                             *)
saveIdempotency_Upsert(a, k, op) ==
  idem' = [idem EXCEPT ![a][k] = [op |-> op, expires |-> DbNow + KeyTTL]]

(* A plain INSERT: a row that merely expired still holds its primary key,  *)
(* and the whole command is rolled back.                                   *)
saveIdempotency(a, k, op) ==
  /\ idem[a][k].op = NULL
  /\ idem' = [idem EXCEPT ![a][k] = [op |-> op, expires |-> DbNow + KeyTTL]]

(* Variant: the actor's own devices are not left out.                      *)
enqueuePartnerNotification_ToAll(p, a, cursor, kind) ==
  jobs' = jobs \cup
    { [cursor |-> cursor, device |-> d, kind |-> kind] :
        d \in {e \in Devices : PairOf[DeviceOwner[e]] = p} }

(* One job per live device of the other members of the pair.               *)
enqueuePartnerNotification(p, a, cursor, kind) ==
  jobs' = jobs \cup
    { [cursor |-> cursor, device |-> d, kind |-> kind] :
        d \in {e \in Devices : PairOf[DeviceOwner[e]] = p /\ DeviceOwner[e] # a} }

(* Variants: a resumed session is always open; a finished session can be   *)
(* cancelled.                                                              *)
NextState_ResumesOpen(state, origin, action) ==
  CASE action = "join" /\ state = "open" -> "together"
    [] action = "pause" /\ state \in {"open", "together"} -> "paused"
    [] action = "resume" /\ state = "paused" /\ origin # NULL -> "open"
    [] action = "complete" /\ state \in LiveStates -> "completed"
    [] action = "cancel" /\ state \in LiveStates -> "cancelled"
    [] OTHER -> "error"
NextState_CancelsEnded(state, origin, action) ==
  IF action = "cancel" THEN "cancelled"
  ELSE CASE action = "join" /\ state = "open" -> "together"
         [] action = "pause" /\ state \in {"open", "together"} -> "paused"
         [] action = "resume" /\ state = "paused" /\ origin # NULL -> origin
         [] action = "complete" /\ state \in LiveStates -> "completed"
         [] OTHER -> "error"

NextState(state, origin, action) ==
  CASE action = "join" /\ state = "open" -> "together"
    [] action = "pause" /\ state \in {"open", "together"} -> "paused"
    [] action = "resume" /\ state = "paused" /\ origin # NULL -> origin
    [] action = "complete" /\ state \in LiveStates -> "completed"
    [] action = "cancel" /\ state \in LiveStates -> "cancelled"
    [] OTHER -> "error"

(* Variants: pause records the new state as its origin; resume leaves the  *)
(* deadline where it was.                                                  *)
Updated_OriginIsNew(row, a, action, next) ==
  LET bumped == [row EXCEPT !.state = next, !.version = @ + 1]
  IN IF action = "pause"
     THEN [bumped EXCEPT !.pauseOrigin = next, !.pausedAt = clock]
     ELSE [bumped EXCEPT !.pauseOrigin = NULL, !.pausedAt = NULL]
Updated_DeadlineStays(row, a, action, next) ==
  LET bumped == [row EXCEPT !.state = next, !.version = @ + 1]
  IN CASE action = "join" -> [bumped EXCEPT !.members = @ \cup {a}]
       [] action = "pause" -> [bumped EXCEPT !.pauseOrigin = row.state,
                                             !.pausedAt = clock]
       [] OTHER -> [bumped EXCEPT !.pauseOrigin = NULL, !.pausedAt = NULL]

(* The UPDATE that each action of transitionSession issues.                *)
Updated(row, a, action, next) ==
  CASE action = "join" ->
         [row EXCEPT !.state = next, !.version = @ + 1, !.members = @ \cup {a}]
    [] action = "pause" ->
         [row EXCEPT !.state = next, !.version = @ + 1,
                     !.pauseOrigin = row.state, !.pausedAt = clock]
    [] action = "resume" ->
         [row EXCEPT !.state = next, !.version = @ + 1,
                     !.pauseOrigin = NULL, !.pausedAt = NULL,
                     !.endsAt = @ + (clock - row.pausedAt)]
    [] action = "complete" ->
         [row EXCEPT !.state = next, !.version = @ + 1,
                     !.pauseOrigin = NULL, !.pausedAt = NULL,
                     !.completedAt = clock]
    [] action = "cancel" ->
         [row EXCEPT !.state = next, !.version = @ + 1,
                     !.pauseOrigin = NULL, !.pausedAt = NULL]

(* completeElapsedSession: a session paused for PauseTTL has expired, one  *)
(* whose deadline has passed is completed as of the deadline.              *)
PausedTooLong(row) == row.state = "paused" /\ row.pausedAt =< DbNow - PauseTTL
RanOut(row) == row.state \in {"open", "together"} /\ row.endsAt =< DbNow

Due(p, s) ==
  /\ session[s].pair = p
  /\ PausedTooLong(session[s]) \/ RanOut(session[s])

(* Variant: the sweep leaves the version alone.                            *)
Closed_SameVersion(row) ==
  [row EXCEPT !.state = IF row.state = "paused" THEN "expired" ELSE "completed",
              !.pauseOrigin = NULL, !.pausedAt = NULL]

Closed(row) ==
  IF row.state = "paused"
  THEN [row EXCEPT !.state = "expired", !.pauseOrigin = NULL,
                   !.pausedAt = NULL, !.version = @ + 1]
  ELSE [row EXCEPT !.state = "completed", !.completedAt = row.endsAt,
                   !.version = @ + 1]

Swept(p) == [s \in Sessions |-> IF Due(p, s) THEN Closed(session[s]) ELSE session[s]]

(* Variant: the payload is read before the UPDATE.                         *)
SweptEvent_ReadEarly(p, s) ==
  [ type |-> IF session[s].state = "paused" THEN "session.expired"
                                            ELSE "session.completed",
    pair |-> p, session |-> s, actor |-> NULL, key |-> NULL,
    seen |-> NULL, row |-> session[s] ]

SweptEvent(p, s) ==
  [ type |-> IF session[s].state = "paused" THEN "session.expired"
                                            ELSE "session.completed",
    pair |-> p, session |-> s, actor |-> NULL, key |-> NULL,
    seen |-> NULL, row |-> Closed(session[s]) ]

(* The partial unique index leaves a pair with at most one live session,   *)
(* so the sweep finds at most one.                                         *)
SweptEvents(p) ==
  IF \E s \in Sessions : Due(p, s)
  THEN << SweptEvent(p, CHOOSE s \in Sessions : Due(p, s)) >>
  ELSE << >>

(* Variants of the three lookups below: the pair of the row is not         *)
(* compared; an older version is let through; a paused session does not    *)
(* count as live.                                                          *)
readSessionForUpdate_AnyPair(s, p) == session[s].pair # NULL
VersionMatches_OrOlder(row, expected) == expected =< row.version
NoLiveSession_ButPaused(rows, p) ==
  \A t \in Sessions : ~(rows[t].pair = p /\ rows[t].state \in {"open", "together"})

readSessionForUpdate(s, p) == session[s].pair = p

VersionMatches(row, expected) == row.version = expected

(* The EXISTS query of StartSession and the partial unique index.          *)
NoLiveSession(rows, p) ==
  \A t \in Sessions : ~(rows[t].pair = p /\ Live(rows[t]))

(* Variant: the comparison is the wrong way round.                         *)
CoolingDown_Inverted(a, s) ==
  \E r \in reactions :
    r.session = s /\ r.account = a /\ r.at < DbNow - CheerCooldown

CoolingDown(a, s) ==
  \E r \in reactions :
    r.session = s /\ r.account = a /\ r.at > DbNow - CheerCooldown

(* An event is named by its place among the commits.  The number it draws  *)
(* from the sequence matters to readers only: see PairSync, EventCursor.   *)
appendPairEvent(log, type, p, s, a, k, seen, row) ==
  Append(log, [type |-> type, pair |-> p, session |-> s, actor |-> a,
               key |-> k, seen |-> seen, row |-> row])

-----------------------------------------------------------------------------
(* Operations                                                              *)

Init ==
  /\ clock = 0
  /\ session = [s \in Sessions |-> NoRow]
  /\ events = << >>
  /\ idem = [a \in Accounts |-> [k \in Keys |-> NoKey]]
  /\ reactions = {}
  /\ jobs = {}

Tick ==
  /\ clock < MaxClock
  /\ clock' = clock + 1
  /\ UNCHANGED <<session, events, idem, reactions, jobs>>

StartSession(a, k, s) ==
  LET p == PairOf[a]
      rows == Swept(p)
      new == [NoRow EXCEPT !.pair = p, !.startedBy = a, !.state = "open",
                           !.startedAt = clock, !.endsAt = clock + Duration,
                           !.version = 1, !.members = {a}]
      log == events \o SweptEvents(p)
  IN /\ requirePairMember(a)
     /\ getIdempotency(a, k)
     /\ NoLiveSession(rows, p)
     /\ rows[s] = NoRow
     /\ session' = [rows EXCEPT ![s] = new]
     /\ events' = appendPairEvent(log, "session.started", p, s, a, k, NULL, new)
     /\ enqueuePartnerNotification(p, a, Len(log) + 1, "focus_started")
     /\ saveIdempotency(a, k, "session.start")
     /\ UNCHANGED <<clock, reactions>>

ImportSoloSession(a, k, s, started, completed) ==
  LET p == PairOf[a]
      new == [NoRow EXCEPT !.pair = p, !.startedBy = a, !.state = "completed",
                           !.startedAt = started, !.endsAt = completed,
                           !.completedAt = completed, !.version = 1,
                           !.members = {a}, !.offline = TRUE]
  IN /\ requirePairMember(a)
     /\ started =< completed
     /\ completed - started =< ImportSpan
     /\ completed =< clock + ImportLead
     /\ getIdempotency(a, k)
     /\ session[s] = NoRow
     /\ session' = [session EXCEPT ![s] = new]
     /\ events' = appendPairEvent(events, "session.completed", p, s, a, k, NULL, new)
     /\ saveIdempotency(a, k, "session.import_solo")
     /\ UNCHANGED <<clock, reactions, jobs>>

transitionSession(a, k, s, expectedVersion, action) ==
  LET p == PairOf[a]
      current == session[s]
      next == NextState(current.state, current.pauseOrigin, action)
      new == Updated(current, a, action, next)
  IN /\ requirePairMember(a)
     /\ getIdempotency(a, k)
     /\ readSessionForUpdate(s, p)
     /\ VersionMatches(current, expectedVersion)
     /\ next # "error"
     /\ action = "join" => /\ current.startedBy # a
                           /\ clock =< current.endsAt
                           /\ a \notin current.members
     /\ action = "resume" => current.pausedAt # NULL
     /\ session' = [session EXCEPT ![s] = new]
     /\ events' = appendPairEvent(events, EventOf[action], p, s, a, k, expectedVersion, new)
     /\ saveIdempotency(a, k, OperationOf[action])
     /\ UNCHANGED <<clock, reactions, jobs>>

(* Any session of the pair that was not cancelled takes notes, live or     *)
(* over; its row is read without a lock.                                   *)
AddNote(a, k, s) ==
  LET p == PairOf[a] IN
  /\ requirePairMember(a)
  /\ getIdempotency(a, k)
  /\ session[s].pair = p /\ session[s].state # "cancelled"
  /\ events' = appendPairEvent(events, "session.note_added", p, s, a, k, NULL, NoRow)
  /\ enqueuePartnerNotification(p, a, Len(events) + 1, "partner_note")
  /\ saveIdempotency(a, k, "session.note")
  /\ UNCHANGED <<clock, session, reactions>>

(* requirePairMember is not called here: the session's pair is compared    *)
(* with the pair of the identity instead.                                  *)
AddCheer(a, k, s) ==
  LET p == PairOf[a] IN
  /\ p # NULL
  /\ getIdempotency(a, k)
  /\ readSessionForUpdate(s, p)
  /\ session[s].state \in {"together", "paused"}
  /\ ~CoolingDown(a, s)
  /\ reactions' = reactions \cup {[session |-> s, account |-> a, at |-> DbNow]}
  /\ events' = appendPairEvent(events, "session.cheered", p, s, a, k, NULL, NoRow)
  /\ saveIdempotency(a, k, "session.cheer")
  /\ UNCHANGED <<clock, session, jobs>>

(* What the read leaves behind: the sweep it runs first.                   *)
CurrentSession(a) ==
  LET p == PairOf[a] IN
  /\ p # NULL
  /\ \E s \in Sessions : Due(p, s)
  /\ session' = Swept(p)
  /\ events' = events \o SweptEvents(p)
  /\ UNCHANGED <<clock, idem, reactions, jobs>>

CommandBy(a) ==
  \/ CurrentSession(a)
  \/ \E k \in Keys, s \in Sessions :
       \/ StartSession(a, k, s)
       \/ \E started, completed \in Instants :
            ImportSoloSession(a, k, s, started, completed)
       \/ \E v \in 1 .. Len(events), action \in Actions :
            transitionSession(a, k, s, v, action)
       \/ AddNote(a, k, s)
       \/ AddCheer(a, k, s)

Next ==
  \/ Tick
  \/ Len(events) < MaxEvents /\ \E a \in Accounts : CommandBy(a)

Spec == Init /\ [][Next]_vars

-----------------------------------------------------------------------------
(* Properties                                                              *)

(* Every table holds rows of its own shape.                                *)
TypeOK ==
  /\ clock \in Nat
  /\ session \in [Sessions -> Row]
  /\ events \in Seq(Event)
  /\ idem \in [Accounts -> [Keys -> KeyRow]]
  /\ reactions \subseteq [session : Sessions, account : Accounts, at : Int]
  /\ jobs \subseteq Job

(* A pair is never in two live sessions at once, however starts of both    *)
(* members, sweeps, imports and transitions interleave (StartSession       *)
(* sweeps, then looks for a live session, then inserts).                   *)
OneLiveSession ==
  \A s, t \in Sessions :
    /\ Live(session[s]) /\ Live(session[t])
    /\ session[s].pair = session[t].pair
    => s = t

(* A live session is together, or paused from together, exactly when       *)
(* somebody besides its starter is in session_members; a session has a     *)
(* pause origin and a pause instant exactly while it is paused.  Pausing   *)
(* and resuming must therefore hand the company back unchanged.            *)
CompanyOK(row) ==
  /\ row.startedBy \in row.members
  /\ row.state = "paused" <=> row.pauseOrigin # NULL
  /\ row.state = "paused" <=> row.pausedAt # NULL
  /\ Live(row) =>
       ( row.members # {row.startedBy}
         <=> row.state = "together" \/ row.pauseOrigin = "together" )

CompanyMatchesState ==
  \A s \in Sessions : session[s].state # "none" => CompanyOK(session[s])

StateEvent(i) == events[i].row.state # "none"

(* Reducing the log reproduces the table: for every session, the last      *)
(* state-bearing event about it carries exactly its current row, and an    *)
(* event about a session that does not exist is never written.  This is    *)
(* what a client that replays PairEvents relies on.                        *)
LogReplaysToRows ==
  /\ \A s \in Sessions : session[s] # NoRow =>
       \E i \in 1 .. Len(events) :
         /\ events[i].session = s
         /\ events[i].row = session[s]
         /\ \A j \in i + 1 .. Len(events) :
              events[j].session = s => ~StateEvent(j)
  /\ \A i \in 1 .. Len(events) :
       /\ session[events[i].session] # NoRow
       /\ session[events[i].session].pair = events[i].pair

(* A version number names one state of a session: the versions its events  *)
(* publish strictly grow and none is above the row's own.                  *)
VersionsNameOneRow ==
  /\ \A i \in 1 .. Len(events) : StateEvent(i) =>
       events[i].row.version =< session[events[i].session].version
  /\ \A i, j \in 1 .. Len(events) :
       /\ i < j
       /\ events[i].session = events[j].session
       /\ StateEvent(i) /\ StateEvent(j)
       => events[i].row.version < events[j].row.version

(* Optimistic locking: a transition was only ever applied to the state its *)
(* author had been shown, so between the version a client acted on and the *)
(* event of its action the log holds no other change of that session.      *)
NoLostUpdate ==
  \A i, j \in 1 .. Len(events) :
    /\ i < j
    /\ events[i].session = events[j].session
    /\ StateEvent(i)
    /\ events[j].seen # NULL
    => events[i].row.version =< events[j].seen

(* A command takes effect exactly once, however often it is sent and even  *)
(* when it is sent again after its key has expired: the key is taken if    *)
(* and only if one event was committed under it, and then only one.  A     *)
(* replay is never answered with the success of something that did not     *)
(* happen, and nothing happens twice.                                      *)
OneEffectPerKey ==
  /\ \A a \in Accounts, k \in Keys :
       idem[a][k].op # NULL
       <=> \E i \in 1 .. Len(events) : events[i].actor = a /\ events[i].key = k
  /\ \A i, j \in 1 .. Len(events) :
       /\ events[i].key # NULL
       /\ events[i].key = events[j].key
       /\ events[i].actor = events[j].actor
       => i = j

(* Nobody outside a pair leaves a trace in it: who acted in the log, who   *)
(* started or joined a session and who cheered all belong to the pair that *)
(* owns it.                                                                *)
PairsIsolated ==
  /\ \A i \in 1 .. Len(events) :
       events[i].actor # NULL => PairOf[events[i].actor] = events[i].pair
  /\ \A s \in Sessions : \A a \in session[s].members :
       PairOf[a] = session[s].pair
  /\ \A r \in reactions : PairOf[r.account] = session[r.session].pair

(* A start or a note is announced to every live device of the partner and  *)
(* of nobody else, once, under the place of its own event; nothing else    *)
(* is announced.                                                           *)
JobsMatchLog ==
  jobs = UNION
    { { [cursor |-> i, device |-> d,
         kind |-> IF events[i].type = "session.started"
                  THEN "focus_started" ELSE "partner_note"] :
        d \in {e \in Devices : /\ PairOf[DeviceOwner[e]] = events[i].pair
                               /\ DeviceOwner[e] # events[i].actor} } :
      i \in {j \in 1 .. Len(events) :
               events[j].type \in {"session.started", "session.note_added"}} }

(* Two cheers of one account in one session are at least CheerCooldown     *)
(* apart, whatever happens to the session in between.                     *)
CheersSpaced ==
  \A q, r \in reactions :
    /\ q.session = r.session /\ q.account = r.account
    /\ q.at < r.at
    => r.at - q.at >= CheerCooldown

(* A session that is over stays exactly as it ended: no transition, sweep, *)
(* import under the same id or late command touches its row again.         *)
EndedForever ==
  [][\A s \in Sessions :
       session[s].state \in EndStates => session'[s] = session[s]]_vars

(* FocusRoom, with the countdown read off the stored instants.             *)
Room == INSTANCE FocusRoom WITH
  pair <- [s \in Sessions |-> session[s].pair],
  phase <- [s \in Sessions |->
              IF session[s].state \in {"open", "together"} THEN "running"
              ELSE session[s].state],
  left <- [s \in Sessions |->
             IF ~Live(session[s]) THEN 0
             ELSE session[s].endsAt -
                    (IF session[s].state = "paused" THEN session[s].pausedAt
                                                    ELSE clock)],
  away <- [s \in Sessions |->
             IF session[s].state = "paused" THEN clock - session[s].pausedAt ELSE 0]

(* The store implements the countdown room: ends_at and paused_at, as      *)
(* start, pause, resume, join and the sweep move them, are a timer that    *)
(* runs only while the session runs, and no session is opened over a live  *)
(* one or swept before its time.                                           *)
ImplementsRoom == Room!Spec
=============================================================================
