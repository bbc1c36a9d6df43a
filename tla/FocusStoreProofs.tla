-------------------------- MODULE FocusStoreProofs --------------------------
(***************************************************************************)
(* Proofs about FocusStore, for every number of accounts, pairs, sessions  *)
(* and keys, every value of the time constants and every clock skew.       *)
(***************************************************************************)
EXTENDS FocusStore, TLAPS

-----------------------------------------------------------------------------
(* Rows                                                                    *)

(* The placeholder for a missing row is itself of row type.                *)
LEMMA NoRowType == NoRow \in Row
  BY StoreAssumption DEF NoRow, Row

(* A transition that NextState allows turns a row into a row.              *)
LEMMA UpdatedType ==
  ASSUME NEW row \in Row, NEW a \in Accounts, NEW action \in Actions,
         clock \in Nat,
         NextState(row.state, row.pauseOrigin, action) # "error",
         action = "resume" => row.pausedAt # NULL
  PROVE  Updated(row, a, action, NextState(row.state, row.pauseOrigin, action))
           \in Row
  <1> DEFINE next == NextState(row.state, row.pauseOrigin, action)
  <1>0. row.version + 1 \in Nat
    BY DEF Row
  <1>1. next \in States \cup {"none"}
    BY DEF NextState, Row, Actions, States, LiveStates, EndStates
  <1>2. CASE action = "join"
    <2>1. row.members \cup {a} \in SUBSET Accounts
      BY DEF Row
    <2> QED
      BY <1>0, <1>1, <1>2, <2>1 DEF Updated, Row
  <1>3. CASE action = "pause"
    <2>1. row.state \in {"open", "together", NULL}
      BY <1>3 DEF NextState
    <2>2. clock \in Int \cup {NULL}
      OBVIOUS
    <2> QED
      BY <1>0, <1>1, <1>3, <2>1, <2>2 DEF Updated, Row
  <1>4. CASE action = "resume"
    <2>1. row.endsAt + (clock - row.pausedAt) \in Int
      BY <1>4 DEF Row
    <2> QED
      BY <1>0, <1>1, <1>4, <2>1 DEF Updated, Row
  <1>5. CASE action = "complete"
    <2>1. clock \in Int \cup {NULL}
      OBVIOUS
    <2> QED
      BY <1>0, <1>1, <1>5, <2>1 DEF Updated, Row
  <1>6. CASE action = "cancel"
    BY <1>0, <1>1, <1>6 DEF Updated, Row
  <1> QED
    BY <1>2, <1>3, <1>4, <1>5, <1>6 DEF Actions

(* The sweep turns a row into a row.                                       *)
LEMMA ClosedType ==
  ASSUME NEW row \in Row
  PROVE  Closed(row) \in Row
  <1>1. row.version + 1 \in Nat
    BY DEF Row
  <1>2. "expired" \in States \cup {"none"} /\ "completed" \in States \cup {"none"}
    BY DEF States, EndStates
  <1>3. row.endsAt \in Int \cup {NULL}
    BY DEF Row
  <1> QED
    BY <1>1, <1>2, <1>3 DEF Closed, Row

(* The sweep of a pair returns a table of rows, and a log of events.       *)
LEMMA SweptType ==
  ASSUME TypeOK, NEW p \in Pairs
  PROVE  /\ Swept(p) \in [Sessions -> Row]
         /\ SweptEvents(p) \in Seq(Event)
  <1>1. Swept(p) \in [Sessions -> Row]
    BY ClosedType DEF Swept, TypeOK
  <1>2. ASSUME NEW s \in Sessions
        PROVE  SweptEvent(p, s) \in Event
    <2>1. Closed(session[s]) \in Row
      BY ClosedType DEF TypeOK
    <2> QED
      BY <2>1 DEF SweptEvent, Event, EventTypes
  <1>3. SweptEvents(p) \in Seq(Event)
    BY <1>2 DEF SweptEvents
  <1> QED
    BY <1>1, <1>3

-----------------------------------------------------------------------------
(* Type correctness                                                        *)

(* Saving a key keeps the key table typed.                                 *)
LEMMA SaveType ==
  ASSUME TypeOK, NEW a \in Accounts, NEW k \in Keys, NEW op \in Operations,
         saveIdempotency(a, k, op)
  PROVE  idem' \in [Accounts -> [Keys -> KeyRow]]
  <1>1. [op |-> op, expires |-> DbNow + KeyTTL] \in KeyRow
    BY StoreAssumption DEF KeyRow, DbNow, TypeOK
  <1> QED
    BY <1>1 DEF saveIdempotency, TypeOK

(* Enqueueing notifications keeps the job table typed.                     *)
LEMMA EnqueueType ==
  ASSUME TypeOK, NEW p, NEW a, NEW cursor \in Nat,
         NEW kind \in {"focus_started", "partner_note"},
         enqueuePartnerNotification(p, a, cursor, kind)
  PROVE  jobs' \subseteq Job
  BY DEF enqueuePartnerNotification, TypeOK, Job

(* Appending an event keeps the log typed.                                 *)
LEMMA AppendType ==
  ASSUME NEW log \in Seq(Event), NEW type \in EventTypes, NEW p \in Pairs,
         NEW s \in Sessions, NEW a \in Accounts, NEW k \in Keys,
         NEW seen \in Nat \cup {NULL}, NEW row \in Row
  PROVE  appendPairEvent(log, type, p, s, a, k, seen, row) \in Seq(Event)
  BY DEF appendPairEvent, Event

(* The pair of an account that passes requirePairMember is a pair.         *)
LEMMA MemberPair ==
  ASSUME NEW a \in Accounts, requirePairMember(a)
  PROVE  PairOf[a] \in Pairs
  BY StoreAssumption DEF requirePairMember

(* A freshly started room is a row.                                        *)
LEMMA StartedType ==
  ASSUME clock \in Nat, NEW p \in Pairs, NEW a \in Accounts
  PROVE  [NoRow EXCEPT !.pair = p, !.startedBy = a, !.state = "open",
                       !.startedAt = clock, !.endsAt = clock + Duration,
                       !.version = 1, !.members = {a}] \in Row
  <1>1. clock \in Int /\ clock + Duration \in Int
    BY StoreAssumption
  <1>2. "open" \in States \cup {"none"}
    BY DEF States, LiveStates
  <1> QED
    BY <1>1, <1>2 DEF NoRow, Row

(* An imported room is a row.                                              *)
LEMMA ImportedType ==
  ASSUME NEW p \in Pairs, NEW a \in Accounts,
         NEW started \in Nat, NEW completed \in Nat
  PROVE  [NoRow EXCEPT !.pair = p, !.startedBy = a, !.state = "completed",
                       !.startedAt = started, !.endsAt = completed,
                       !.completedAt = completed, !.version = 1,
                       !.members = {a}, !.offline = TRUE] \in Row
  <1>1. started \in Int /\ completed \in Int
    BY StoreAssumption
  <1>2. "completed" \in States \cup {"none"}
    BY DEF States, EndStates
  <1> QED
    BY <1>1, <1>2 DEF NoRow, Row

(* A command under a key with any instants and any expected version: what  *)
(* CommandBy draws from bounded sets, and what a phone's outbox may hold.  *)
Keyed(a, k, s) ==
  \/ StartSession(a, k, s)
  \/ \E started, completed \in Nat : ImportSoloSession(a, k, s, started, completed)
  \/ \E v \in Nat, action \in Actions : transitionSession(a, k, s, v, action)
  \/ AddNote(a, k, s)
  \/ AddCheer(a, k, s)

AnyStep ==
  \/ Tick
  \/ \E a \in Accounts : \/ CurrentSession(a)
                        \/ \E k \in Keys, s \in Sessions : Keyed(a, k, s)
  \/ UNCHANGED vars

(* The steps of the store are among them.                                  *)
LEMMA NextIsAnyStep == [Next]_vars => AnyStep
  <1>1. Instants \subseteq Nat /\ 1 .. Len(events) \subseteq Nat
    BY StoreAssumption
  <1> QED
    BY <1>1 DEF Next, CommandBy, AnyStep, Keyed

(* A step keeps every table typed.                                         *)
LEMMA TypeStep ==
  ASSUME TypeOK, AnyStep
  PROVE  TypeOK'
  <1>1. CASE Tick
    BY <1>1 DEF Tick, TypeOK
  <1>2. ASSUME NEW a \in Accounts, CurrentSession(a)
        PROVE  TypeOK'
    <2>1. PairOf[a] \in Pairs
      BY <1>2, StoreAssumption DEF CurrentSession
    <2>2. events \o SweptEvents(PairOf[a]) \in Seq(Event)
      BY <2>1, SweptType DEF TypeOK
    <2> QED
      BY <1>2, <2>1, <2>2, SweptType DEF CurrentSession, TypeOK
  <1>3. ASSUME NEW a \in Accounts, NEW k \in Keys, NEW s \in Sessions,
               StartSession(a, k, s)
        PROVE  TypeOK'
    <2> DEFINE p == PairOf[a]
               log == events \o SweptEvents(p)
               new == [NoRow EXCEPT !.pair = p, !.startedBy = a, !.state = "open",
                         !.startedAt = clock, !.endsAt = clock + Duration,
                         !.version = 1, !.members = {a}]
    <2>1. p \in Pairs
      BY <1>3, MemberPair DEF StartSession
    <2>2. new \in Row
      BY <2>1, StartedType DEF TypeOK
    <2>3. Swept(p) \in [Sessions -> Row] /\ log \in Seq(Event)
      BY <2>1, SweptType DEF TypeOK
    <2>4. session' = [Swept(p) EXCEPT ![s] = new]
      BY <1>3 DEF StartSession
    <2>5. events' = appendPairEvent(log, "session.started", p, s, a, k, NULL, new)
      BY <1>3 DEF StartSession
    <2>6. events' \in Seq(Event)
      <3> HIDE DEF new, log, p
      <3> QED
        BY <2>1, <2>2, <2>3, <2>5, AppendType DEF EventTypes
    <2>7. session' \in [Sessions -> Row]
      <3> HIDE DEF new, p
      <3> QED
        BY <2>2, <2>3, <2>4
    <2>8. idem' \in [Accounts -> [Keys -> KeyRow]]
      BY <1>3, SaveType DEF StartSession, Operations
    <2>9. jobs' \subseteq Job
      <3>1. Len(log) + 1 \in Nat
        BY <2>3
      <3>2. enqueuePartnerNotification(p, a, Len(log) + 1, "focus_started")
        BY <1>3 DEF StartSession
      <3> HIDE DEF log, p
      <3> QED
        BY <3>1, <3>2, EnqueueType
    <2> QED
      BY <1>3, <2>6, <2>7, <2>8, <2>9 DEF StartSession, TypeOK
  <1>4. ASSUME NEW a \in Accounts, NEW k \in Keys, NEW s \in Sessions,
               NEW started \in Nat, NEW completed \in Nat,
               ImportSoloSession(a, k, s, started, completed)
        PROVE  TypeOK'
    <2> DEFINE p == PairOf[a]
               new == [NoRow EXCEPT !.pair = p, !.startedBy = a, !.state = "completed",
                         !.startedAt = started, !.endsAt = completed,
                         !.completedAt = completed, !.version = 1,
                         !.members = {a}, !.offline = TRUE]
    <2>1. p \in Pairs
      BY <1>4, MemberPair DEF ImportSoloSession
    <2>2. new \in Row
      BY <2>1, ImportedType
    <2>3. session' = [session EXCEPT ![s] = new]
      BY <1>4 DEF ImportSoloSession
    <2>4. events' = appendPairEvent(events, "session.completed", p, s, a, k, NULL, new)
      BY <1>4 DEF ImportSoloSession
    <2>5. events' \in Seq(Event) /\ session' \in [Sessions -> Row]
      <3> HIDE DEF new, p
      <3> QED
        BY <2>1, <2>2, <2>3, <2>4, AppendType DEF EventTypes, TypeOK
    <2>6. idem' \in [Accounts -> [Keys -> KeyRow]]
      BY <1>4, SaveType DEF ImportSoloSession, Operations
    <2> QED
      BY <1>4, <2>5, <2>6 DEF ImportSoloSession, TypeOK
  <1>5. ASSUME NEW a \in Accounts, NEW k \in Keys, NEW s \in Sessions,
               NEW v \in Nat, NEW action \in Actions,
               transitionSession(a, k, s, v, action)
        PROVE  TypeOK'
    <2> DEFINE p == PairOf[a]
               new == Updated(session[s], a, action,
                        NextState(session[s].state, session[s].pauseOrigin, action))
    <2>1. p \in Pairs
      BY <1>5, MemberPair DEF transitionSession
    <2>2. new \in Row
      BY <1>5, UpdatedType DEF transitionSession, TypeOK
    <2>3. session' = [session EXCEPT ![s] = new]
      BY <1>5 DEF transitionSession
    <2>4. events' = appendPairEvent(events, EventOf[action], p, s, a, k, v, new)
      BY <1>5 DEF transitionSession
    <2>5. EventOf[action] \in EventTypes /\ OperationOf[action] \in Operations
      BY DEF EventOf, OperationOf, Actions, EventTypes, Operations
    <2>6. events' \in Seq(Event) /\ session' \in [Sessions -> Row]
      <3> HIDE DEF new, p
      <3> QED
        BY <2>1, <2>2, <2>3, <2>4, <2>5, AppendType DEF TypeOK
    <2>7. idem' \in [Accounts -> [Keys -> KeyRow]]
      BY <1>5, <2>5, SaveType DEF transitionSession
    <2> QED
      BY <1>5, <2>6, <2>7 DEF transitionSession, TypeOK
  <1>6. ASSUME NEW a \in Accounts, NEW k \in Keys, NEW s \in Sessions,
               AddNote(a, k, s)
        PROVE  TypeOK'
    <2>1. PairOf[a] \in Pairs
      BY <1>6, MemberPair DEF AddNote
    <2>2. events' \in Seq(Event)
      BY <1>6, <2>1, AppendType, NoRowType DEF AddNote, EventTypes, TypeOK
    <2>3. idem' \in [Accounts -> [Keys -> KeyRow]]
      BY <1>6, SaveType DEF AddNote, Operations
    <2>4. jobs' \subseteq Job
      <3>1. Len(events) + 1 \in Nat
        BY DEF TypeOK
      <3> QED
        BY <1>6, <3>1, EnqueueType DEF AddNote
    <2> QED
      BY <1>6, <2>2, <2>3, <2>4 DEF AddNote, TypeOK
  <1>7. ASSUME NEW a \in Accounts, NEW k \in Keys, NEW s \in Sessions,
               AddCheer(a, k, s)
        PROVE  TypeOK'
    <2>1. PairOf[a] \in Pairs
      BY <1>7, StoreAssumption DEF AddCheer
    <2>2. events' \in Seq(Event)
      BY <1>7, <2>1, AppendType, NoRowType DEF AddCheer, EventTypes, TypeOK
    <2>3. idem' \in [Accounts -> [Keys -> KeyRow]]
      BY <1>7, SaveType DEF AddCheer, Operations
    <2>4. DbNow \in Int
      BY StoreAssumption DEF DbNow, TypeOK
    <2> QED
      BY <1>7, <2>2, <2>3, <2>4 DEF AddCheer, TypeOK
  <1>8. CASE UNCHANGED vars
    BY <1>8 DEF vars, TypeOK
  <1> QED
    BY <1>1, <1>2, <1>3, <1>4, <1>5, <1>6, <1>7, <1>8 DEF AnyStep, Keyed

(* Every table of the store keeps its type.                                *)
THEOREM TypeCorrect == Spec => []TypeOK
  <1>1. Init => TypeOK
    <2>1. NoKey \in KeyRow
      BY DEF NoKey, KeyRow
    <2> QED
      BY <2>1, NoRowType DEF Init, TypeOK
  <1> QED
    BY <1>1, TypeStep, NextIsAnyStep, PTL DEF Spec

-----------------------------------------------------------------------------
(* What the two row updates leave alone                                    *)

(* A transition starts from a live row and keeps its pair and its starter. *)
LEMMA UpdatedFacts ==
  ASSUME NEW row \in Row, NEW a \in Accounts, NEW action \in Actions,
         NextState(row.state, row.pauseOrigin, action) # "error"
  PROVE  LET new == Updated(row, a, action,
                      NextState(row.state, row.pauseOrigin, action))
         IN /\ Live(row)
            /\ new.pair = row.pair
            /\ new.startedBy = row.startedBy
            /\ new.state = NextState(row.state, row.pauseOrigin, action)
            /\ new.version = row.version + 1
  <1>1. Live(row)
    BY DEF NextState, Actions, Live, LiveStates
  <1> QED
    BY <1>1 DEF Updated, Row, Actions

(* The sweep ends a row and keeps its pair, starter and members.           *)
LEMMA ClosedFacts ==
  ASSUME NEW row \in Row
  PROVE  /\ ~Live(Closed(row))
         /\ Closed(row).state \in EndStates
         /\ Closed(row).pair = row.pair
         /\ Closed(row).startedBy = row.startedBy
         /\ Closed(row).members = row.members
         /\ Closed(row).version = row.version + 1
  BY DEF Closed, Row, Live, LiveStates, EndStates

(* Only a live row is ever due.                                            *)
LEMMA DueLive ==
  ASSUME NEW p, NEW s \in Sessions, Due(p, s)
  PROVE  Live(session[s]) /\ session[s].pair = p
  BY DEF Due, PausedTooLong, RanOut, Live, LiveStates

(* After a sweep every row keeps its pair, and a row that is still live is *)
(* untouched.                                                              *)
LEMMA SweptFacts ==
  ASSUME TypeOK, NEW p, NEW s \in Sessions
  PROVE  /\ Swept(p)[s].pair = session[s].pair
         /\ Live(Swept(p)[s]) => Swept(p)[s] = session[s]
  <1>1. session[s] \in Row
    BY DEF TypeOK
  <1> QED
    BY <1>1, ClosedFacts DEF Swept

-----------------------------------------------------------------------------
(* One live session per pair                                               *)

(* The rows of live sessions are the only ones that matter: a step that    *)
(* makes no session live keeps the pair's live session unique.             *)
LEMMA LiveShrinks ==
  ASSUME OneLiveSession,
         \A s \in Sessions : Live(session'[s]) =>
           Live(session[s]) /\ session'[s].pair = session[s].pair
  PROVE  OneLiveSession'
  BY DEF OneLiveSession

(* A step keeps a pair's live session unique.                              *)
LEMMA OneLiveStep ==
  ASSUME TypeOK, OneLiveSession, AnyStep
  PROVE  OneLiveSession'
  <1>1. CASE UNCHANGED session
    BY <1>1 DEF OneLiveSession
  <1>2. ASSUME NEW a \in Accounts, CurrentSession(a)
        PROVE  OneLiveSession'
    <2>1. session' = Swept(PairOf[a])
      BY <1>2 DEF CurrentSession
    <2> QED
      BY <2>1, SweptFacts, LiveShrinks
  <1>3. ASSUME NEW a \in Accounts, NEW k \in Keys, NEW s \in Sessions,
               StartSession(a, k, s)
        PROVE  OneLiveSession'
    <2> DEFINE p == PairOf[a]
               new == [NoRow EXCEPT !.pair = p, !.startedBy = a, !.state = "open",
                         !.startedAt = clock, !.endsAt = clock + Duration,
                         !.version = 1, !.members = {a}]
    <2>1. session' = [Swept(p) EXCEPT ![s] = new]
      BY <1>3 DEF StartSession
    <2>2. new.pair = p
      BY DEF NoRow
    <2>3. \A t \in Sessions : ~(Swept(p)[t].pair = p /\ Live(Swept(p)[t]))
      BY <1>3 DEF StartSession, NoLiveSession
    <2>4. session'[s] = new /\ \A t \in Sessions : t # s => session'[t] = Swept(p)[t]
      BY <2>1 DEF Swept
    <2> HIDE DEF new, p
    <2>5. ASSUME NEW t \in Sessions, NEW u \in Sessions, t # s, u # s,
                 Live(session'[t]), Live(session'[u]),
                 session'[t].pair = session'[u].pair
          PROVE  t = u
      BY <2>4, <2>5, SweptFacts DEF OneLiveSession
    <2>6. ASSUME NEW t \in Sessions, t # s, Live(session'[t])
          PROVE  session'[t].pair # session'[s].pair
      BY <2>2, <2>3, <2>4, <2>6
    <2> QED
      BY <2>5, <2>6 DEF OneLiveSession
  <1>4. ASSUME NEW a \in Accounts, NEW k \in Keys, NEW s \in Sessions,
               NEW started \in Nat, NEW completed \in Nat,
               ImportSoloSession(a, k, s, started, completed)
        PROVE  OneLiveSession'
    <2>1. ~Live(session'[s]) /\ \A t \in Sessions : t # s => session'[t] = session[t]
      BY <1>4 DEF ImportSoloSession, NoRow, Live, LiveStates, TypeOK
    <2> QED
      BY <2>1, LiveShrinks
  <1>5. ASSUME NEW a \in Accounts, NEW k \in Keys, NEW s \in Sessions,
               NEW v \in Nat, NEW action \in Actions,
               transitionSession(a, k, s, v, action)
        PROVE  OneLiveSession'
    <2>1. session[s] \in Row
      BY DEF TypeOK
    <2>2. Live(session[s]) /\ session'[s].pair = session[s].pair
      BY <1>5, <2>1, UpdatedFacts DEF transitionSession, TypeOK
    <2>3. \A t \in Sessions : t # s => session'[t] = session[t]
      BY <1>5 DEF transitionSession, TypeOK
    <2> QED
      BY <2>2, <2>3, LiveShrinks
  <1> QED
    BY <1>1, <1>2, <1>3, <1>4, <1>5
    DEF AnyStep, Keyed, Tick, AddNote, AddCheer, vars

(* A pair is never in two live sessions at once.                           *)
THEOREM OneLive == Spec => []OneLiveSession
  <1>1. Init => OneLiveSession
    BY DEF Init, OneLiveSession, NoRow, Live, LiveStates
  <1> QED
    BY <1>1, OneLiveStep, NextIsAnyStep, TypeCorrect, PTL DEF Spec

-----------------------------------------------------------------------------
(* Company and pauses                                                      *)

(* A transition keeps the company of a row straight: whoever joins is not  *)
(* the starter, and the pause origin remembers whether they had joined.    *)
LEMMA UpdatedCompany ==
  ASSUME NEW row \in Row, NEW a \in Accounts, NEW action \in Actions,
         clock \in Nat, CompanyOK(row),
         NextState(row.state, row.pauseOrigin, action) # "error",
         action = "join" => row.startedBy # a
  PROVE  CompanyOK(Updated(row, a, action,
                     NextState(row.state, row.pauseOrigin, action)))
  <1> DEFINE next == NextState(row.state, row.pauseOrigin, action)
             new == Updated(row, a, action, next)
  <1>0. NULL \notin Int /\ NULL \notin {"open", "together"}
    BY StoreAssumption
  <1> SUFFICES CompanyOK(new)
    OBVIOUS
  <1>1. CASE action = "join"
    <2>1. next = "together" /\ row.state = "open"
      BY <1>1 DEF NextState
    <2>2. /\ new.state = "together" /\ new.members = row.members \cup {a}
          /\ new.startedBy = row.startedBy /\ new.pauseOrigin = row.pauseOrigin
          /\ new.pausedAt = row.pausedAt
      BY <1>1, <2>1 DEF Updated, Row
    <2> HIDE DEF new
    <2> QED
      BY <1>1, <2>1, <2>2 DEF CompanyOK, Live, LiveStates
  <1>2. CASE action = "pause"
    <2>1. next = "paused" /\ row.state \in {"open", "together"}
      BY <1>2 DEF NextState
    <2>2. /\ new.state = "paused" /\ new.members = row.members
          /\ new.startedBy = row.startedBy /\ new.pauseOrigin = row.state
          /\ new.pausedAt = clock
      BY <1>2, <2>1 DEF Updated, Row
    <2>3. row.pauseOrigin = NULL
      BY <2>1 DEF CompanyOK
    <2> HIDE DEF new
    <2> QED
      BY <1>0, <2>1, <2>2, <2>3 DEF CompanyOK, Live, LiveStates
  <1>3. CASE action = "resume"
    <2>1. next = row.pauseOrigin /\ row.state = "paused"
      BY <1>3 DEF NextState
    <2>2. /\ new.state = row.pauseOrigin /\ new.members = row.members
          /\ new.startedBy = row.startedBy /\ new.pauseOrigin = NULL
          /\ new.pausedAt = NULL
      BY <1>3, <2>1 DEF Updated, Row
    <2>3. row.pauseOrigin \in {"open", "together"}
      BY <1>3 DEF NextState, Row
    <2> HIDE DEF new
    <2> QED
      BY <1>0, <2>1, <2>2, <2>3 DEF CompanyOK, Live, LiveStates
  <1>4. CASE action \in {"complete", "cancel"}
    <2>1. next \in {"completed", "cancelled"}
      BY <1>4 DEF NextState
    <2>2. /\ new.state = next /\ new.members = row.members
          /\ new.startedBy = row.startedBy /\ new.pauseOrigin = NULL
          /\ new.pausedAt = NULL
      BY <1>4, <2>1 DEF Updated, Row
    <2> HIDE DEF new, next
    <2> QED
      BY <2>1, <2>2 DEF CompanyOK, Live, LiveStates
  <1> QED
    BY <1>1, <1>2, <1>3, <1>4 DEF Actions

(* So does the sweep of a live row.                                        *)
LEMMA ClosedCompany ==
  ASSUME NEW row \in Row, CompanyOK(row), Live(row)
  PROVE  CompanyOK(Closed(row))
  BY StoreAssumption DEF Closed, Row, CompanyOK, Live, LiveStates

(* And hence the sweep of a pair.                                          *)
LEMMA SweptCompany ==
  ASSUME TypeOK, CompanyMatchesState, NEW p, NEW s \in Sessions,
         Swept(p)[s].state # "none"
  PROVE  CompanyOK(Swept(p)[s])
  <1>1. session[s] \in Row
    BY DEF TypeOK
  <1>2. CASE Due(p, s)
    <2>1. Live(session[s])
      BY <1>2, DueLive
    <2>2. CompanyOK(session[s])
      BY <2>1 DEF CompanyMatchesState, Live, LiveStates
    <2> QED
      BY <1>1, <1>2, <2>1, <2>2, ClosedCompany DEF Swept
  <1>3. CASE ~Due(p, s)
    BY <1>3 DEF Swept, CompanyMatchesState
  <1> QED
    BY <1>2, <1>3

(* Who is in a live session, its state and its pause fields always agree.  *)
THEOREM Company == Spec => []CompanyMatchesState
  <1>1. Init => CompanyMatchesState
    BY DEF Init, CompanyMatchesState, NoRow
  <1>2. TypeOK /\ CompanyMatchesState /\ [Next]_vars => CompanyMatchesState'
    <2> SUFFICES ASSUME TypeOK, CompanyMatchesState, [Next]_vars
                 PROVE  CompanyMatchesState'
      OBVIOUS
    <2>1. CASE UNCHANGED session
      BY <2>1 DEF CompanyMatchesState, CompanyOK
    <2>2. ASSUME NEW a \in Accounts, CurrentSession(a)
          PROVE  CompanyMatchesState'
      <3>1. session' = Swept(PairOf[a])
        BY <2>2 DEF CurrentSession
      <3> QED
        BY <3>1, SweptCompany DEF CompanyMatchesState
    <2>3. ASSUME NEW a \in Accounts, NEW k \in Keys, NEW s \in Sessions,
                 StartSession(a, k, s)
          PROVE  CompanyMatchesState'
      <3> DEFINE p == PairOf[a]
                 new == [NoRow EXCEPT !.pair = p, !.startedBy = a, !.state = "open",
                           !.startedAt = clock, !.endsAt = clock + Duration,
                           !.version = 1, !.members = {a}]
      <3>1. session' = [Swept(p) EXCEPT ![s] = new]
        BY <2>3 DEF StartSession
      <3>2. CompanyOK(new)
        BY StoreAssumption DEF NoRow, CompanyOK, Live, LiveStates
      <3>3. session'[s] = new /\ \A t \in Sessions : t # s => session'[t] = Swept(p)[t]
        BY <3>1 DEF Swept
      <3> HIDE DEF new, p
      <3> QED
        BY <3>2, <3>3, SweptCompany DEF CompanyMatchesState
    <2>4. ASSUME NEW a \in Accounts, NEW k \in Keys, NEW s \in Sessions,
                 NEW started \in Instants, NEW completed \in Instants,
                 ImportSoloSession(a, k, s, started, completed)
          PROVE  CompanyMatchesState'
      <3> DEFINE new == [NoRow EXCEPT !.pair = PairOf[a], !.startedBy = a,
                           !.state = "completed",
                           !.startedAt = started, !.endsAt = completed,
                           !.completedAt = completed, !.version = 1,
                           !.members = {a}, !.offline = TRUE]
      <3>1. session' = [session EXCEPT ![s] = new]
        BY <2>4 DEF ImportSoloSession
      <3>2. CompanyOK(new)
        BY DEF NoRow, CompanyOK, Live, LiveStates
      <3> HIDE DEF new
      <3> QED
        BY <3>1, <3>2 DEF CompanyMatchesState, TypeOK
    <2>5. ASSUME NEW a \in Accounts, NEW k \in Keys, NEW s \in Sessions,
                 NEW v \in 1 .. Len(events), NEW action \in Actions,
                 transitionSession(a, k, s, v, action)
          PROVE  CompanyMatchesState'
      <3> DEFINE next == NextState(session[s].state, session[s].pauseOrigin, action)
                 new == Updated(session[s], a, action, next)
      <3>1. session' = [session EXCEPT ![s] = new]
        BY <2>5 DEF transitionSession
      <3>2. session[s] \in Row /\ next # "error" /\ clock \in Nat
        BY <2>5 DEF transitionSession, TypeOK
      <3>3. CompanyOK(session[s])
        <4>1. Live(session[s])
          BY <3>2, UpdatedFacts
        <4> QED
          BY <4>1 DEF CompanyMatchesState, Live, LiveStates
      <3>4. action = "join" => session[s].startedBy # a
        BY <2>5 DEF transitionSession
      <3>5. CompanyOK(new)
        BY <3>2, <3>3, <3>4, UpdatedCompany
      <3> HIDE DEF new
      <3> QED
        BY <3>1, <3>5 DEF CompanyMatchesState, TypeOK
    <2> QED
      BY <2>1, <2>2, <2>3, <2>4, <2>5
      DEF Next, CommandBy, Tick, AddNote, AddCheer, vars
  <1> QED
    BY <1>1, <1>2, TypeCorrect, PTL DEF Spec

(* A session that is over is never written again.                          *)
THEOREM EndedStays == Spec => EndedForever
  <1>1. TypeOK /\ [Next]_vars =>
          \A s \in Sessions :
            session[s].state \in EndStates => session'[s] = session[s]
    <2> SUFFICES ASSUME TypeOK, [Next]_vars, NEW s \in Sessions,
                        session[s].state \in EndStates
                 PROVE  session'[s] = session[s]
      OBVIOUS
    <2>0. session[s] \in Row /\ ~Live(session[s]) /\ session[s] # NoRow
      BY DEF TypeOK, Live, LiveStates, EndStates, NoRow
    <2>1. CASE UNCHANGED session
      BY <2>1
    <2>2. \A p : Swept(p)[s] = session[s]
      BY <2>0, DueLive DEF Swept
    <2>3. ASSUME NEW a \in Accounts, CurrentSession(a)
          PROVE  session'[s] = session[s]
      BY <2>2, <2>3 DEF CurrentSession
    <2>4. ASSUME NEW a \in Accounts, NEW k \in Keys, NEW t \in Sessions,
                 StartSession(a, k, t)
          PROVE  session'[s] = session[s]
      <3>1. t # s
        BY <2>0, <2>2, <2>4 DEF StartSession
      <3>2. session'[s] = Swept(PairOf[a])[s]
        BY <2>4, <3>1 DEF StartSession, Swept
      <3> QED
        BY <2>2, <3>2
    <2>5. ASSUME NEW a \in Accounts, NEW k \in Keys, NEW t \in Sessions,
                 NEW started \in Instants, NEW completed \in Instants,
                 ImportSoloSession(a, k, t, started, completed)
          PROVE  session'[s] = session[s]
      <3>1. t # s
        BY <2>0, <2>5 DEF ImportSoloSession
      <3> QED
        BY <2>5, <3>1 DEF ImportSoloSession, TypeOK
    <2>6. ASSUME NEW a \in Accounts, NEW k \in Keys, NEW t \in Sessions,
                 NEW v \in 1 .. Len(events), NEW action \in Actions,
                 transitionSession(a, k, t, v, action)
          PROVE  session'[s] = session[s]
      <3>1. t # s
        BY <2>0, <2>6, UpdatedFacts DEF transitionSession
      <3> QED
        BY <2>6, <3>1 DEF transitionSession, TypeOK
    <2> QED
      BY <2>1, <2>3, <2>4, <2>5, <2>6
      DEF Next, CommandBy, Tick, AddNote, AddCheer, vars
  <1> QED
    BY <1>1, TypeCorrect, PTL DEF Spec, EndedForever
=============================================================================
