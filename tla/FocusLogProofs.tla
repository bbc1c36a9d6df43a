---------------------------- MODULE FocusLogProofs ----------------------------
(***************************************************************************)
(* Proofs about the pair event log of FocusStore and the tables written    *)
(* with it: the log replays to the rows, versions and idempotency keys     *)
(* name one effect each, nothing crosses from one pair to another, and     *)
(* jobs and cheers follow the log; and the store implements FocusRoom.     *)
(*                                                                         *)
(* Every command is a composition of two kinds of write, which have their  *)
(* lemmas over arbitrary tables: a row is written together with the event  *)
(* that carries it (WriteKeeps), and an event that carries no row is       *)
(* appended (RemarkKeeps).  The sweep is a write of the first kind because *)
(* a pair has one live session; StartSession is a sweep and a write.       *)
(***************************************************************************)
EXTENDS FocusStoreProofs

-----------------------------------------------------------------------------
(* Rows and log                                                            *)

(* The three invariants of the log, of arbitrary rows and an arbitrary log.*)
Carries(log, i) == log[i].row.state # "none"

Replayed(rows, log) ==
  /\ \A s \in Sessions : rows[s] # NoRow =>
       \E i \in 1 .. Len(log) :
         /\ log[i].session = s
         /\ log[i].row = rows[s]
         /\ \A j \in i + 1 .. Len(log) :
              log[j].session = s => ~Carries(log, j)
  /\ \A i \in 1 .. Len(log) :
       /\ rows[log[i].session] # NoRow
       /\ rows[log[i].session].pair = log[i].pair

Versioned(rows, log) ==
  /\ \A i \in 1 .. Len(log) : Carries(log, i) =>
       log[i].row.version =< rows[log[i].session].version
  /\ \A i, j \in 1 .. Len(log) :
       /\ i < j
       /\ log[i].session = log[j].session
       /\ Carries(log, i) /\ Carries(log, j)
       => log[i].row.version < log[j].row.version

Informed(log) ==
  \A i, j \in 1 .. Len(log) :
    /\ i < j
    /\ log[i].session = log[j].session
    /\ Carries(log, i)
    /\ log[j].seen # NULL
    => log[i].row.version =< log[j].seen

LogOK(rows, log) == Replayed(rows, log) /\ Versioned(rows, log) /\ Informed(log)

(* LogOK of the variables is the conjunction of the three invariants.      *)
LEMMA LogOKMeaning ==
  LogOK(session, events) <=>
    LogReplaysToRows /\ VersionsNameOneRow /\ NoLostUpdate
  BY DEF LogOK, Replayed, Versioned, Informed, Carries, StateEvent,
         LogReplaysToRows, VersionsNameOneRow, NoLostUpdate

(* What Append does, index by index.                                       *)
LEMMA AppendFacts ==
  ASSUME NEW S, NEW log \in Seq(S), NEW e \in S
  PROVE  /\ Append(log, e) \in Seq(S)
         /\ Len(log) \in Nat
         /\ Len(Append(log, e)) = Len(log) + 1
         /\ Append(log, e)[Len(log) + 1] = e
         /\ \A i \in 1 .. Len(log) : Append(log, e)[i] = log[i] /\ log[i] \in S
  OBVIOUS

(* A row is written and its event appended: the version grows by one, the  *)
(* pair stays, and an expected version is the version found.               *)
LEMMA WriteKeeps ==
  ASSUME NEW rows \in [Sessions -> Row], NEW log \in Seq(Event),
         NEW s \in Sessions, NEW new \in Row, NEW e \in Event,
         LogOK(rows, log),
         e.session = s, e.row = new, e.pair = new.pair,
         new.state # "none",
         rows[s] = NoRow \/ new.pair = rows[s].pair,
         new.version = rows[s].version + 1,
         e.seen # NULL => e.seen = rows[s].version
  PROVE  LogOK([rows EXCEPT ![s] = new], Append(log, e))
  <1> DEFINE rows2 == [rows EXCEPT ![s] = new]
             log2 == Append(log, e)
             n == Len(log)
  <1>1. /\ n \in Nat /\ Len(log2) = n + 1 /\ log2[n + 1] = e
        /\ \A i \in 1 .. n : log2[i] = log[i] /\ log[i] \in Event
    BY AppendFacts
  <1>2. /\ rows2[s] = new
        /\ \A t \in Sessions : t # s => rows2[t] = rows[t]
    OBVIOUS
  <1>3. new # NoRow
    BY DEF NoRow
  <1>4. \A i \in 1 .. n : log[i].session \in Sessions /\ log[i].row \in Row
    BY <1>1 DEF Event
  <1>5. \A i \in 1 .. n : log[i].row.version \in Nat
    BY <1>4 DEF Row
  <1>6. new.version \in Nat /\ \A t \in Sessions : rows[t].version \in Nat
    BY DEF Row
  <1> HIDE DEF rows2, log2, n
  <1>7. Replayed(rows, log) /\ Versioned(rows, log) /\ Informed(log)
    BY DEF LogOK
  <1>8. Replayed(rows2, log2)
    <2>1. ASSUME NEW t \in Sessions, rows2[t] # NoRow
          PROVE  \E i \in 1 .. Len(log2) :
                   /\ log2[i].session = t
                   /\ log2[i].row = rows2[t]
                   /\ \A j \in i + 1 .. Len(log2) :
                        log2[j].session = t => ~Carries(log2, j)
      <3>1. CASE t = s
        <4>1. n + 1 \in 1 .. Len(log2) /\ n + 2 .. Len(log2) = {}
          BY <1>1
        <4> QED
          BY <1>1, <1>2, <3>1, <4>1
      <3>2. CASE t # s
        <4>1. PICK i \in 1 .. n :
                /\ log[i].session = t
                /\ log[i].row = rows[t]
                /\ \A j \in i + 1 .. n : log[j].session = t => ~Carries(log, j)
          BY <1>2, <1>7, <2>1, <3>2 DEF Replayed, n
        <4>2. i \in 1 .. Len(log2)
          BY <1>1, <4>1
        <4>3. ASSUME NEW j \in i + 1 .. Len(log2), log2[j].session = t
              PROVE  ~Carries(log2, j)
          <5>1. j \in i + 1 .. n
            BY <1>1, <3>2, <4>1, <4>3
          <5> QED
            BY <1>1, <4>1, <4>3, <5>1 DEF Carries
        <4> QED
          BY <1>1, <1>2, <3>2, <4>1, <4>2, <4>3
      <3> QED
        BY <3>1, <3>2
    <2>2. ASSUME NEW i \in 1 .. Len(log2)
          PROVE  /\ rows2[log2[i].session] # NoRow
                 /\ rows2[log2[i].session].pair = log2[i].pair
      <3>1. CASE i = n + 1
        BY <1>1, <1>2, <1>3, <3>1
      <3>2. CASE i \in 1 .. n
        <4>1. rows[log[i].session] # NoRow /\ rows[log[i].session].pair = log[i].pair
          BY <1>7, <3>2 DEF Replayed, n
        <4> QED
          BY <1>1, <1>2, <1>3, <1>4, <3>2, <4>1
      <3> QED
        BY <1>1, <3>1, <3>2
    <2> QED
      BY <2>1, <2>2 DEF Replayed
  <1>9. ASSUME NEW i \in 1 .. n, Carries(log, i), log[i].session = s
        PROVE  log[i].row.version =< rows[s].version
    BY <1>7, <1>9 DEF Versioned, n
  <1>10. Versioned(rows2, log2)
    <2>1. ASSUME NEW i \in 1 .. Len(log2), Carries(log2, i)
          PROVE  log2[i].row.version =< rows2[log2[i].session].version
      <3>1. CASE i = n + 1
        BY <1>1, <1>2, <1>6, <3>1
      <3>2. CASE i \in 1 .. n
        <4>1. log[i].row.version =< rows[log[i].session].version
          BY <1>1, <1>7, <2>1, <3>2 DEF Versioned, Carries, n
        <4>2. PICK t \in Sessions, v \in Nat : t = log[i].session /\ v = log[i].row.version
          BY <1>4, <1>5, <3>2
        <4>3. rows2[t].version \in Nat /\ rows[t].version =< rows2[t].version
          BY <1>2, <1>6
        <4>4. v =< rows2[t].version
          BY <1>6, <4>1, <4>2, <4>3
        <4> QED
          BY <1>1, <3>2, <4>2, <4>4
      <3> QED
        BY <1>1, <3>1, <3>2
    <2>2. ASSUME NEW i \in 1 .. Len(log2), NEW j \in 1 .. Len(log2), i < j,
                 log2[i].session = log2[j].session,
                 Carries(log2, i), Carries(log2, j)
          PROVE  log2[i].row.version < log2[j].row.version
      <3>0. i \in 1 .. n
        BY <1>1, <2>2
      <3>1. CASE j = n + 1
        <4>1. log2[i] = log[i] /\ log2[j] = e /\ Carries(log, i)
          BY <1>1, <2>2, <3>0, <3>1 DEF Carries
        <4>2. log[i].row.version =< rows[s].version
          BY <1>9, <2>2, <3>0, <4>1
        <4> QED
          BY <1>5, <1>6, <3>0, <4>1, <4>2
      <3>2. CASE j \in 1 .. n
        BY <1>1, <1>7, <2>2, <3>0, <3>2 DEF Versioned, Carries, n
      <3> QED
        BY <1>1, <3>1, <3>2
    <2> QED
      BY <2>1, <2>2 DEF Versioned
  <1>11. Informed(log2)
    <2>1. ASSUME NEW i \in 1 .. Len(log2), NEW j \in 1 .. Len(log2), i < j,
                 log2[i].session = log2[j].session,
                 Carries(log2, i), log2[j].seen # NULL
          PROVE  log2[i].row.version =< log2[j].seen
      <3>0. i \in 1 .. n
        BY <1>1, <2>1
      <3>1. CASE j = n + 1
        BY <1>1, <1>9, <2>1, <3>0, <3>1 DEF Carries
      <3>2. CASE j \in 1 .. n
        BY <1>1, <1>7, <2>1, <3>0, <3>2 DEF Informed, Carries, n
      <3> QED
        BY <1>1, <3>1, <3>2
    <2> QED
      BY <2>1 DEF Informed
  <1> QED
    BY <1>8, <1>10, <1>11 DEF LogOK, rows2, log2

(* An event without a row is appended, about a session that exists.        *)
LEMMA RemarkKeeps ==
  ASSUME NEW rows \in [Sessions -> Row], NEW log \in Seq(Event), NEW e \in Event,
         LogOK(rows, log),
         e.row = NoRow, e.seen = NULL, e.pair \in Pairs,
         rows[e.session].pair = e.pair
  PROVE  LogOK(rows, Append(log, e))
  <1> DEFINE log2 == Append(log, e)
             n == Len(log)
  <1>1. /\ n \in Nat /\ Len(log2) = n + 1 /\ log2[n + 1] = e
        /\ \A i \in 1 .. n : log2[i] = log[i]
    BY AppendFacts
  <1>2. e.row.state = "none"
    BY DEF NoRow
  <1>3. rows[e.session] # NoRow
    BY StoreAssumption DEF NoRow
  <1>4. Replayed(rows, log) /\ Versioned(rows, log) /\ Informed(log)
    BY DEF LogOK
  <1> HIDE DEF log2, n
  <1>5. Replayed(rows, log2)
    <2>1. ASSUME NEW t \in Sessions, rows[t] # NoRow
          PROVE  \E i \in 1 .. Len(log2) :
                   /\ log2[i].session = t
                   /\ log2[i].row = rows[t]
                   /\ \A j \in i + 1 .. Len(log2) :
                        log2[j].session = t => ~Carries(log2, j)
      <3>1. PICK i \in 1 .. n :
              /\ log[i].session = t
              /\ log[i].row = rows[t]
              /\ \A j \in i + 1 .. n : log[j].session = t => ~Carries(log, j)
        BY <1>4, <2>1 DEF Replayed, n
      <3>2. ASSUME NEW j \in i + 1 .. Len(log2), log2[j].session = t
            PROVE  ~Carries(log2, j)
        <4>1. CASE j = n + 1
          BY <1>1, <1>2, <4>1 DEF Carries
        <4>2. CASE j \in i + 1 .. n
          BY <1>1, <3>1, <3>2, <4>2 DEF Carries
        <4> QED
          BY <1>1, <3>1, <4>1, <4>2
      <3> QED
        BY <1>1, <3>1, <3>2
    <2>2. ASSUME NEW i \in 1 .. Len(log2)
          PROVE  /\ rows[log2[i].session] # NoRow
                 /\ rows[log2[i].session].pair = log2[i].pair
      BY <1>1, <1>3, <1>4 DEF Replayed, n
    <2> QED
      BY <2>1, <2>2 DEF Replayed
  <1>6. Versioned(rows, log2)
    <2>1. ASSUME NEW i \in 1 .. Len(log2), Carries(log2, i)
          PROVE  i \in 1 .. n /\ log2[i] = log[i] /\ Carries(log, i)
      <3>1. i # n + 1
        BY <1>1, <1>2, <2>1 DEF Carries
      <3>2. i \in 1 .. n
        BY <1>1, <3>1
      <3> QED
        BY <1>1, <2>1, <3>2 DEF Carries
    <2>2. /\ \A i \in 1 .. n : Carries(log, i) =>
               log[i].row.version =< rows[log[i].session].version
          /\ \A i, j \in 1 .. n :
               /\ i < j
               /\ log[i].session = log[j].session
               /\ Carries(log, i) /\ Carries(log, j)
               => log[i].row.version < log[j].row.version
      BY <1>4 DEF Versioned, n
    <2> QED
      BY <2>1, <2>2 DEF Versioned
  <1>7. Informed(log2)
    BY <1>1, <1>4 DEF Informed, Carries, n
  <1> QED
    BY <1>5, <1>6, <1>7 DEF LogOK, log2

(* The sweep of a pair writes one row and its event, or nothing: the       *)
(* partial unique index leaves at most one session that can be due.        *)
LEMMA SweepIsWrite ==
  ASSUME TypeOK, OneLiveSession, NEW p \in Pairs, NEW s \in Sessions, Due(p, s)
  PROVE  /\ Swept(p) = [session EXCEPT ![s] = Closed(session[s])]
         /\ SweptEvents(p) = << SweptEvent(p, s) >>
         /\ events \o SweptEvents(p) = Append(events, SweptEvent(p, s))
  <1>1. \A t \in Sessions : Due(p, t) => t = s
    BY DueLive DEF OneLiveSession
  <1>2. Swept(p) = [session EXCEPT ![s] = Closed(session[s])]
    BY <1>1 DEF Swept, TypeOK
  <1>3. (CHOOSE t \in Sessions : Due(p, t)) = s
    BY <1>1
  <1>4. SweptEvents(p) = << SweptEvent(p, s) >>
    BY <1>3 DEF SweptEvents
  <1>5. events \o << SweptEvent(p, s) >> = Append(events, SweptEvent(p, s))
    BY DEF TypeOK
  <1> QED
    BY <1>2, <1>4, <1>5

(* A sweep that finds nothing due writes nothing.                          *)
LEMMA SweepIsIdle ==
  ASSUME TypeOK, NEW p \in Pairs, \A s \in Sessions : ~Due(p, s)
  PROVE  Swept(p) = session /\ events \o SweptEvents(p) = events
  <1>1. Swept(p) = session
    BY DEF Swept, TypeOK
  <1>2. SweptEvents(p) = << >>
    BY DEF SweptEvents
  <1> QED
    BY <1>1, <1>2 DEF TypeOK

(* The event of a sweep, field by field.                                   *)
LEMMA SweptEventFacts ==
  ASSUME TypeOK, NEW p \in Pairs, NEW s \in Sessions, Due(p, s)
  PROVE  /\ SweptEvent(p, s) \in Event
         /\ SweptEvent(p, s).session = s
         /\ SweptEvent(p, s).pair = p
         /\ SweptEvent(p, s).actor = NULL
         /\ SweptEvent(p, s).key = NULL
         /\ SweptEvent(p, s).seen = NULL
         /\ SweptEvent(p, s).row = Closed(session[s])
         /\ SweptEvent(p, s).type \in {"session.expired", "session.completed"}
         /\ Closed(session[s]) \in Row
         /\ Closed(session[s]).state # "none"
         /\ Closed(session[s]).pair = p /\ session[s].pair = p
         /\ Closed(session[s]).version = session[s].version + 1
         /\ Closed(session[s]).members = session[s].members
  <1>1. session[s] \in Row
    BY DEF TypeOK
  <1>2. Closed(session[s]) \in Row
    BY <1>1, ClosedType
  <1>3. SweptEvent(p, s) \in Event
    BY <1>2 DEF SweptEvent, Event, EventTypes
  <1>4. Closed(session[s]).state # "none"
    BY <1>1, ClosedFacts DEF EndStates
  <1>5. session[s].pair = p
    BY DueLive
  <1> QED
    BY <1>1, <1>2, <1>3, <1>4, <1>5, ClosedFacts DEF SweptEvent

(* The sweep keeps the log in order.                                       *)
LEMMA SweepKeepsLog ==
  ASSUME TypeOK, OneLiveSession, LogOK(session, events), NEW p \in Pairs
  PROVE  LogOK(Swept(p), events \o SweptEvents(p))
  <1>1. CASE \E s \in Sessions : Due(p, s)
    <2>1. PICK s \in Sessions : Due(p, s)
      BY <1>1
    <2> DEFINE new == Closed(session[s])
               e == SweptEvent(p, s)
    <2>2. LogOK([session EXCEPT ![s] = new], Append(events, e))
      <3>1. /\ e \in Event /\ new \in Row /\ e.session = s /\ e.row = new
            /\ e.pair = new.pair /\ e.seen = NULL /\ new.state # "none"
            /\ new.pair = session[s].pair
            /\ new.version = session[s].version + 1
        BY <2>1, SweptEventFacts
      <3> HIDE DEF new, e
      <3> QED
        BY <3>1, WriteKeeps DEF TypeOK
    <2> QED
      BY <2>1, <2>2, SweepIsWrite
  <1>2. CASE \A s \in Sessions : ~Due(p, s)
    BY <1>2, SweepIsIdle
  <1> QED
    BY <1>1, <1>2

-----------------------------------------------------------------------------
(* The five commands, as the row they write and the event they append      *)

(* The event a member's command appends.                                   *)
EventBy(e, a, k, s) ==
  /\ e \in Event
  /\ e.actor = a /\ e.key = k /\ e.session = s
  /\ PairOf[a] \in Pairs /\ e.pair = PairOf[a]

(* A row whose only member is a.                                           *)
Alone(row, a) == row.members = {a}

(* StartSession: a sweep, then a fresh row at version 1.                   *)
LEMMA StartShape ==
  ASSUME TypeOK, NEW a \in Accounts, NEW k \in Keys, NEW s \in Sessions,
         StartSession(a, k, s)
  PROVE  \E new \in Row, e \in Event :
           /\ EventBy(e, a, k, s)
           /\ e.type = "session.started" /\ e.row = new /\ e.seen = NULL
           /\ new.pair = PairOf[a] /\ new.state = "open" /\ new.version = 1
           /\ Alone(new, a)
           /\ Swept(PairOf[a])[s] = NoRow
           /\ session' = [Swept(PairOf[a]) EXCEPT ![s] = new]
           /\ events' = Append(events \o SweptEvents(PairOf[a]), e)
  <1> DEFINE p == PairOf[a]
             new == [NoRow EXCEPT !.pair = p, !.startedBy = a, !.state = "open",
                       !.startedAt = clock, !.endsAt = clock + Duration,
                       !.version = 1, !.members = {a}]
             e == [type |-> "session.started", pair |-> p, session |-> s,
                   actor |-> a, key |-> k, seen |-> NULL, row |-> new]
  <1>1. p \in Pairs
    BY MemberPair DEF StartSession
  <1>2. new \in Row
    BY <1>1, StartedType DEF TypeOK
  <1>3. /\ new.pair = p /\ new.state = "open" /\ new.version = 1
        /\ Alone(new, a)
    BY DEF NoRow, Alone
  <1>4. /\ session' = [Swept(p) EXCEPT ![s] = new]
        /\ events' = Append(events \o SweptEvents(p), e)
        /\ Swept(p)[s] = NoRow
    BY DEF StartSession, appendPairEvent
  <1>5. e \in Event
    <2> HIDE DEF new, p
    <2> QED
      BY <1>1, <1>2 DEF Event, EventTypes
  <1>6. /\ EventBy(e, a, k, s)
        /\ e.type = "session.started" /\ e.row = new /\ e.seen = NULL
    BY <1>1, <1>5 DEF EventBy
  <1> HIDE DEF new, e
  <1> QED
    BY <1>2, <1>3, <1>4, <1>5, <1>6

(* ImportSoloSession: a fresh row at version 1, already over.              *)
LEMMA ImportShape ==
  ASSUME TypeOK, NEW a \in Accounts, NEW k \in Keys, NEW s \in Sessions,
         NEW started \in Nat, NEW completed \in Nat,
         ImportSoloSession(a, k, s, started, completed)
  PROVE  \E new \in Row, e \in Event :
           /\ EventBy(e, a, k, s)
           /\ e.type = "session.completed" /\ e.row = new /\ e.seen = NULL
           /\ new.pair = PairOf[a] /\ new.state = "completed" /\ new.version = 1
           /\ Alone(new, a)
           /\ session[s] = NoRow
           /\ session' = [session EXCEPT ![s] = new]
           /\ events' = Append(events, e)
  <1> DEFINE p == PairOf[a]
             new == [NoRow EXCEPT !.pair = p, !.startedBy = a, !.state = "completed",
                       !.startedAt = started, !.endsAt = completed,
                       !.completedAt = completed, !.version = 1,
                       !.members = {a}, !.offline = TRUE]
             e == [type |-> "session.completed", pair |-> p, session |-> s,
                   actor |-> a, key |-> k, seen |-> NULL, row |-> new]
  <1>1. p \in Pairs
    BY MemberPair DEF ImportSoloSession
  <1>2. new \in Row
    BY <1>1, ImportedType
  <1>3. /\ new.pair = p /\ new.state = "completed" /\ new.version = 1
        /\ Alone(new, a)
    BY DEF NoRow, Alone
  <1>4. /\ session' = [session EXCEPT ![s] = new]
        /\ events' = Append(events, e)
        /\ session[s] = NoRow
    BY DEF ImportSoloSession, appendPairEvent
  <1>5. e \in Event
    <2> HIDE DEF new, p
    <2> QED
      BY <1>1, <1>2 DEF Event, EventTypes
  <1>6. /\ EventBy(e, a, k, s)
        /\ e.type = "session.completed" /\ e.row = new /\ e.seen = NULL
    BY <1>1, <1>5 DEF EventBy
  <1> HIDE DEF new, e
  <1> QED
    BY <1>2, <1>3, <1>4, <1>5, <1>6

(* transitionSession: the next version of a row the author has seen.       *)
LEMMA TransitionShape ==
  ASSUME TypeOK, NEW a \in Accounts, NEW k \in Keys, NEW s \in Sessions,
         NEW v \in Nat, NEW action \in Actions,
         transitionSession(a, k, s, v, action)
  PROVE  \E new \in Row, e \in Event :
           /\ EventBy(e, a, k, s)
           /\ e.type \notin {"session.started", "session.note_added"}
           /\ e.row = new /\ e.seen = session[s].version
           /\ session[s].pair = PairOf[a]
           /\ new.pair = session[s].pair /\ new.state # "none"
           /\ new.version = session[s].version + 1
           /\ new.members \subseteq session[s].members \cup {a}
           /\ session' = [session EXCEPT ![s] = new]
           /\ events' = Append(events, e)
  <1> DEFINE p == PairOf[a]
             next == NextState(session[s].state, session[s].pauseOrigin, action)
             new == Updated(session[s], a, action, next)
             e == [type |-> EventOf[action], pair |-> p, session |-> s,
                   actor |-> a, key |-> k, seen |-> v, row |-> new]
  <1>0. session[s] \in Row /\ clock \in Nat /\ v \in Nat
    BY DEF TypeOK
  <1>1. p \in Pairs /\ session[s].pair = p /\ session[s].version = v
    BY MemberPair DEF transitionSession, readSessionForUpdate, VersionMatches
  <1>2. next # "error" /\ (action = "resume" => session[s].pausedAt # NULL)
    BY DEF transitionSession
  <1>3. new \in Row
    BY <1>0, <1>2, UpdatedType
  <1>4. new.pair = session[s].pair /\ new.version = session[s].version + 1
    BY <1>0, <1>2, UpdatedFacts
  <1>5. new.state # "none"
    <2>1. new.state = next
      BY <1>0, <1>2, UpdatedFacts
    <2>2. next # "none"
      BY <1>0 DEF NextState, Actions, Row
    <2> QED
      BY <2>1, <2>2
  <1>6. new.members \subseteq session[s].members \cup {a}
    BY <1>0 DEF Updated, Actions, Row
  <1>7. EventOf[action] \in EventTypes \ {"session.started", "session.note_added"}
    BY DEF EventOf, OperationOf, Actions, EventTypes
  <1>8. /\ session' = [session EXCEPT ![s] = new]
        /\ events' = Append(events, e)
    BY DEF transitionSession, appendPairEvent
  <1>9. e \in Event
    <2> HIDE DEF new, p
    <2> QED
      BY <1>0, <1>1, <1>3, <1>7 DEF Event
  <1>10. /\ EventBy(e, a, k, s) /\ e.row = new /\ e.seen = session[s].version
         /\ e.type \notin {"session.started", "session.note_added"}
    BY <1>1, <1>7, <1>9 DEF EventBy
  <1> HIDE DEF new, e
  <1> QED
    BY <1>1, <1>3, <1>4, <1>5, <1>6, <1>8, <1>9, <1>10

(* AddNote and AddCheer: an event that carries no row.                     *)
LEMMA RemarkShape ==
  ASSUME TypeOK, NEW a \in Accounts, NEW k \in Keys, NEW s \in Sessions,
         AddNote(a, k, s) \/ AddCheer(a, k, s)
  PROVE  \E e \in Event :
           /\ EventBy(e, a, k, s)
           /\ e.row = NoRow /\ e.seen = NULL
           /\ e.type = IF AddNote(a, k, s) THEN "session.note_added"
                                           ELSE "session.cheered"
           /\ session[s].pair = PairOf[a]
           /\ session' = session
           /\ events' = Append(events, e)
  <1> DEFINE p == PairOf[a]
             type == IF AddNote(a, k, s) THEN "session.note_added"
                                         ELSE "session.cheered"
             e == [type |-> type, pair |-> p, session |-> s,
                   actor |-> a, key |-> k, seen |-> NULL, row |-> NoRow]
  <1>1. p \in Pairs /\ session[s].pair = p
    BY MemberPair, StoreAssumption DEF AddNote, AddCheer, readSessionForUpdate
  <1>2. session' = session /\ events' = Append(events, e)
    BY DEF AddNote, AddCheer, appendPairEvent
  <1>3. type \in EventTypes
    BY DEF EventTypes
  <1>4. e \in Event
    <2> HIDE DEF p, type
    <2> QED
      BY <1>1, <1>3, NoRowType DEF Event
  <1>5. /\ EventBy(e, a, k, s) /\ e.row = NoRow /\ e.seen = NULL
        /\ e.type = type
    BY <1>1, <1>4 DEF EventBy
  <1> HIDE DEF e
  <1> QED
    BY <1>1, <1>2, <1>4, <1>5

-----------------------------------------------------------------------------
(* The log replays to the rows, versions name one row, no update is lost   *)

(* LogOK is inductive on top of TypeOK and OneLiveSession.                 *)
LEMMA LogStep ==
  ASSUME TypeOK, OneLiveSession, LogOK(session, events), AnyStep
  PROVE  LogOK(session, events)'
  <1>0. session \in [Sessions -> Row] /\ events \in Seq(Event)
    BY DEF TypeOK
  <1>1. CASE UNCHANGED <<session, events>>
    BY <1>1
  <1>2. ASSUME NEW a \in Accounts, CurrentSession(a)
        PROVE  LogOK(session', events')
    <2>1. PairOf[a] \in Pairs
      BY <1>2, StoreAssumption DEF CurrentSession
    <2>2. session' = Swept(PairOf[a]) /\ events' = events \o SweptEvents(PairOf[a])
      BY <1>2 DEF CurrentSession
    <2> QED
      BY <2>1, <2>2, SweepKeepsLog
  <1>3. ASSUME NEW a \in Accounts, NEW k \in Keys, NEW s \in Sessions,
               StartSession(a, k, s)
        PROVE  LogOK(session', events')
    <2> DEFINE rows == Swept(PairOf[a])
               log == events \o SweptEvents(PairOf[a])
    <2>1. PICK new \in Row, e \in Event :
            /\ EventBy(e, a, k, s)
            /\ e.row = new /\ e.seen = NULL
            /\ new.pair = PairOf[a] /\ new.state = "open" /\ new.version = 1
            /\ rows[s] = NoRow
            /\ session' = [rows EXCEPT ![s] = new]
            /\ events' = Append(log, e)
      BY <1>3, StartShape
    <2>2. PairOf[a] \in Pairs /\ e.pair = new.pair /\ e.session = s
      BY <2>1 DEF EventBy
    <2>3. rows \in [Sessions -> Row] /\ log \in Seq(Event)
      BY <1>0, <2>2, SweptType
    <2>4. LogOK(rows, log)
      BY <2>2, SweepKeepsLog
    <2>5. new.version = rows[s].version + 1
      BY <2>1 DEF NoRow
    <2> HIDE DEF rows, log
    <2> QED
      BY <2>1, <2>2, <2>3, <2>4, <2>5, WriteKeeps
  <1>4. ASSUME NEW a \in Accounts, NEW k \in Keys, NEW s \in Sessions,
               NEW started \in Nat, NEW completed \in Nat,
               ImportSoloSession(a, k, s, started, completed)
        PROVE  LogOK(session', events')
    <2>1. PICK new \in Row, e \in Event :
            /\ EventBy(e, a, k, s)
            /\ e.row = new /\ e.seen = NULL
            /\ new.pair = PairOf[a] /\ new.state = "completed" /\ new.version = 1
            /\ session[s] = NoRow
            /\ session' = [session EXCEPT ![s] = new]
            /\ events' = Append(events, e)
      BY <1>4, ImportShape
    <2>2. e.pair = new.pair /\ e.session = s
      BY <2>1 DEF EventBy
    <2>3. new.version = session[s].version + 1
      BY <2>1 DEF NoRow
    <2> QED
      BY <1>0, <2>1, <2>2, <2>3, WriteKeeps
  <1>5. ASSUME NEW a \in Accounts, NEW k \in Keys, NEW s \in Sessions,
               NEW v \in Nat, NEW action \in Actions,
               transitionSession(a, k, s, v, action)
        PROVE  LogOK(session', events')
    <2>1. PICK new \in Row, e \in Event :
            /\ EventBy(e, a, k, s)
            /\ e.row = new /\ e.seen = session[s].version
            /\ session[s].pair = PairOf[a]
            /\ new.pair = session[s].pair /\ new.state # "none"
            /\ new.version = session[s].version + 1
            /\ session' = [session EXCEPT ![s] = new]
            /\ events' = Append(events, e)
      BY <1>5, TransitionShape
    <2>2. e.pair = new.pair /\ e.session = s
      BY <2>1 DEF EventBy
    <2> QED
      BY <1>0, <2>1, <2>2, WriteKeeps
  <1>6. ASSUME NEW a \in Accounts, NEW k \in Keys, NEW s \in Sessions,
               AddNote(a, k, s) \/ AddCheer(a, k, s)
        PROVE  LogOK(session', events')
    <2>1. PICK e \in Event :
            /\ EventBy(e, a, k, s)
            /\ e.row = NoRow /\ e.seen = NULL
            /\ session[s].pair = PairOf[a]
            /\ session' = session
            /\ events' = Append(events, e)
      BY <1>6, RemarkShape
    <2>2. e.pair \in Pairs /\ session[e.session].pair = e.pair
      BY <2>1 DEF EventBy
    <2> QED
      BY <1>0, <2>1, <2>2, RemarkKeeps
  <1> QED
    BY <1>1, <1>2, <1>3, <1>4, <1>5, <1>6 DEF AnyStep, Keyed, Tick, vars

(* The log starts in order and stays so.                                   *)
LEMMA LogInOrder == Spec => [](LogReplaysToRows /\ VersionsNameOneRow /\ NoLostUpdate)
  <1>1. Init => LogReplaysToRows /\ VersionsNameOneRow /\ NoLostUpdate
    BY DEF Init, LogReplaysToRows, VersionsNameOneRow, NoLostUpdate
  <1>2. /\ TypeOK /\ OneLiveSession
        /\ LogReplaysToRows /\ VersionsNameOneRow /\ NoLostUpdate
        /\ [Next]_vars
        => (LogReplaysToRows /\ VersionsNameOneRow /\ NoLostUpdate)'
    <2>1. LogOK(session, events)' <=>
            (LogReplaysToRows /\ VersionsNameOneRow /\ NoLostUpdate)'
      BY DEF LogOK, Replayed, Versioned, Informed, Carries, StateEvent,
             LogReplaysToRows, VersionsNameOneRow, NoLostUpdate
    <2> QED
      BY <2>1, LogStep, NextIsAnyStep, LogOKMeaning
  <1> QED
    BY <1>1, <1>2, TypeCorrect, OneLive, PTL DEF Spec

(* Replaying the pair's events always ends in the rows as they are stored, *)
(* whatever commands, sweeps and clock steps produced them: what a phone   *)
(* that reduces PairEvents relies on.                                      *)
THEOREM LogReplays == Spec => []LogReplaysToRows
  BY LogInOrder, PTL

(* A session's version number is published with one row only.              *)
THEOREM VersionsNameRows == Spec => []VersionsNameOneRow
  BY LogInOrder, PTL

(* transitionSession never overwrites a change its author had not seen.    *)
THEOREM UpdatesNotLost == Spec => []NoLostUpdate
  BY LogInOrder, PTL

-----------------------------------------------------------------------------
(* One effect per idempotency key                                          *)

(* OneEffectPerKey of an arbitrary key table and log.                      *)
KeysOK(keys, log) ==
  /\ \A a \in Accounts, k \in Keys :
       keys[a][k].op # NULL
       <=> \E i \in 1 .. Len(log) : log[i].actor = a /\ log[i].key = k
  /\ \A i, j \in 1 .. Len(log) :
       /\ log[i].key # NULL
       /\ log[i].key = log[j].key
       /\ log[i].actor = log[j].actor
       => i = j

(* A key that was free is taken together with the one event under it.      *)
LEMMA KeyedKeeps ==
  ASSUME NEW keys \in [Accounts -> [Keys -> KeyRow]], NEW log \in Seq(Event),
         NEW e \in Event, NEW a \in Accounts, NEW k \in Keys, NEW row,
         KeysOK(keys, log), keys[a][k].op = NULL, row.op # NULL,
         e.actor = a, e.key = k
  PROVE  KeysOK([keys EXCEPT ![a][k] = row], Append(log, e))
  <1> DEFINE keys2 == [keys EXCEPT ![a][k] = row]
             log2 == Append(log, e)
             n == Len(log)
  <1>1. /\ n \in Nat /\ Len(log2) = n + 1 /\ log2[n + 1] = e
        /\ \A i \in 1 .. n : log2[i] = log[i]
    BY AppendFacts
  <1>2. \A b \in Accounts, l \in Keys :
          keys2[b][l] = IF b = a /\ l = k THEN row ELSE keys[b][l]
    OBVIOUS
  <1>3. \A i \in 1 .. n : ~(log[i].actor = a /\ log[i].key = k)
    BY DEF KeysOK
  <1> HIDE DEF keys2, log2
  <1>4. ASSUME NEW b \in Accounts, NEW l \in Keys
        PROVE  keys2[b][l].op # NULL
               <=> \E i \in 1 .. Len(log2) : log2[i].actor = b /\ log2[i].key = l
    <2>1. keys[b][l].op # NULL
          <=> \E i \in 1 .. n : log[i].actor = b /\ log[i].key = l
      BY DEF KeysOK
    <2>2. CASE b = a /\ l = k
      <3>1. n + 1 \in 1 .. Len(log2)
        BY <1>1
      <3> QED
        BY <1>1, <1>2, <2>2, <3>1
    <2>3. CASE ~(b = a /\ l = k)
      <3>1. (\E i \in 1 .. Len(log2) : log2[i].actor = b /\ log2[i].key = l)
            <=> \E i \in 1 .. n : log[i].actor = b /\ log[i].key = l
        BY <1>1, <2>3
      <3> QED
        BY <1>2, <2>1, <2>3, <3>1
    <2> QED
      BY <2>2, <2>3
  <1>5. ASSUME NEW i \in 1 .. Len(log2), NEW j \in 1 .. Len(log2),
               log2[i].key # NULL, log2[i].key = log2[j].key,
               log2[i].actor = log2[j].actor
        PROVE  i = j
    <2>1. CASE i \in 1 .. n /\ j \in 1 .. n
      BY <1>1, <1>5, <2>1 DEF KeysOK
    <2>2. CASE i = n + 1 \/ j = n + 1
      BY <1>1, <1>3, <1>5, <2>2
    <2> QED
      BY <1>1, <2>1, <2>2
  <1> QED
    BY <1>4, <1>5 DEF KeysOK, keys2, log2

(* An event without a key takes none.                                      *)
LEMMA KeylessKeeps ==
  ASSUME NEW keys, NEW log \in Seq(Event), NEW e \in Event,
         KeysOK(keys, log), e.key = NULL
  PROVE  KeysOK(keys, Append(log, e))
  <1> DEFINE log2 == Append(log, e)
             n == Len(log)
  <1>1. /\ n \in Nat /\ Len(log2) = n + 1 /\ log2[n + 1] = e
        /\ \A i \in 1 .. n : log2[i] = log[i]
    BY AppendFacts
  <1> HIDE DEF log2
  <1>2. ASSUME NEW b \in Accounts, NEW l \in Keys
        PROVE  keys[b][l].op # NULL
               <=> \E i \in 1 .. Len(log2) : log2[i].actor = b /\ log2[i].key = l
    <2>1. keys[b][l].op # NULL
          <=> \E i \in 1 .. n : log[i].actor = b /\ log[i].key = l
      BY DEF KeysOK
    <2>2. l # NULL
      BY StoreAssumption
    <2> QED
      BY <1>1, <2>1, <2>2
  <1>3. ASSUME NEW i \in 1 .. Len(log2), NEW j \in 1 .. Len(log2),
               log2[i].key # NULL, log2[i].key = log2[j].key,
               log2[i].actor = log2[j].actor
        PROVE  i = j
    <2>1. i \in 1 .. n /\ j \in 1 .. n
      BY <1>1, <1>3
    <2> QED
      BY <1>1, <1>3, <2>1 DEF KeysOK
  <1> QED
    BY <1>2, <1>3 DEF KeysOK, log2

(* The sweep takes no key.                                                 *)
LEMMA SweepKeepsKeys ==
  ASSUME TypeOK, OneLiveSession, KeysOK(idem, events), NEW p \in Pairs
  PROVE  KeysOK(idem, events \o SweptEvents(p))
  <1>1. ASSUME NEW s \in Sessions, Due(p, s)
        PROVE  KeysOK(idem, events \o SweptEvents(p))
    <2>1. SweptEvent(p, s) \in Event /\ SweptEvent(p, s).key = NULL
      BY <1>1, SweptEventFacts
    <2>2. events \o SweptEvents(p) = Append(events, SweptEvent(p, s))
      BY <1>1, SweepIsWrite
    <2> QED
      BY <2>1, <2>2, KeylessKeeps DEF TypeOK
  <1> QED
    BY <1>1, SweepIsIdle

(* A committed command took a free key.                                    *)
LEMMA CommandTakesKey ==
  ASSUME TypeOK, NEW a \in Accounts, NEW k \in Keys, NEW s \in Sessions,
         Keyed(a, k, s)
  PROVE  \E row : /\ idem[a][k].op = NULL /\ row.op # NULL
                  /\ idem' = [idem EXCEPT ![a][k] = row]
  <1>1. \A action \in Actions : OperationOf[action] \in Operations
    BY DEF OperationOf, Actions, Operations
  <1>2. PICK op \in Operations : saveIdempotency(a, k, op)
    BY <1>1 DEF Keyed, StartSession, ImportSoloSession, transitionSession, AddNote,
                AddCheer, Operations
  <1>3. op # NULL
    BY StoreAssumption
  <1> QED
    BY <1>2, <1>3 DEF saveIdempotency

(* KeysOK is inductive on top of TypeOK and OneLiveSession.                *)
LEMMA KeysStep ==
  ASSUME TypeOK, OneLiveSession, KeysOK(idem, events), AnyStep
  PROVE  KeysOK(idem', events')
  <1>0. idem \in [Accounts -> [Keys -> KeyRow]] /\ events \in Seq(Event)
    BY DEF TypeOK
  <1>1. CASE UNCHANGED <<idem, events>>
    BY <1>1
  <1>2. ASSUME NEW a \in Accounts, CurrentSession(a)
        PROVE  KeysOK(idem', events')
    <2>1. PairOf[a] \in Pairs
      BY <1>2, StoreAssumption DEF CurrentSession
    <2> QED
      BY <1>2, <2>1, SweepKeepsKeys DEF CurrentSession
  <1>3. ASSUME NEW a \in Accounts, NEW k \in Keys, NEW s \in Sessions,
               StartSession(a, k, s)
        PROVE  KeysOK(idem', events')
    <2> DEFINE log == events \o SweptEvents(PairOf[a])
    <2>1. PICK e \in Event : EventBy(e, a, k, s) /\ events' = Append(log, e)
      BY <1>3, StartShape
    <2>2. PICK row : /\ idem[a][k].op = NULL /\ row.op # NULL
                     /\ idem' = [idem EXCEPT ![a][k] = row]
      BY <1>3, CommandTakesKey DEF Keyed
    <2>3. KeysOK(idem, log) /\ log \in Seq(Event)
      BY <1>0, <2>1, SweepKeepsKeys, SweptType DEF EventBy
    <2> HIDE DEF log
    <2> QED
      BY <1>0, <2>1, <2>2, <2>3, KeyedKeeps DEF EventBy
  <1>4. ASSUME NEW a \in Accounts, NEW k \in Keys, NEW s \in Sessions,
               \/ \E started, completed \in Nat :
                    ImportSoloSession(a, k, s, started, completed)
               \/ \E v \in Nat, action \in Actions :
                    transitionSession(a, k, s, v, action)
               \/ AddNote(a, k, s)
               \/ AddCheer(a, k, s)
        PROVE  KeysOK(idem', events')
    <2>1. PICK e \in Event : EventBy(e, a, k, s) /\ events' = Append(events, e)
      <3>1. CASE \E started, completed \in Nat :
                   ImportSoloSession(a, k, s, started, completed)
        BY <3>1, ImportShape
      <3>2. CASE \E v \in Nat, action \in Actions :
                   transitionSession(a, k, s, v, action)
        BY <3>2, TransitionShape
      <3>3. CASE AddNote(a, k, s) \/ AddCheer(a, k, s)
        BY <3>3, RemarkShape
      <3> QED
        BY <1>4, <3>1, <3>2, <3>3
    <2>2. PICK row : /\ idem[a][k].op = NULL /\ row.op # NULL
                     /\ idem' = [idem EXCEPT ![a][k] = row]
      BY <1>4, CommandTakesKey DEF Keyed
    <2> QED
      BY <1>0, <2>1, <2>2, KeyedKeeps DEF EventBy
  <1> QED
    BY <1>1, <1>2, <1>3, <1>4 DEF AnyStep, Keyed, Tick, vars

(* However often a command is sent, before or after its key has expired,   *)
(* its key is taken exactly when its effect was committed, and once.       *)
THEOREM KeysNameOneEffect == Spec => []OneEffectPerKey
  <1>1. Init => OneEffectPerKey
    BY DEF Init, OneEffectPerKey, NoKey
  <1>2. TypeOK /\ OneLiveSession /\ OneEffectPerKey /\ [Next]_vars => OneEffectPerKey'
    <2>1. OneEffectPerKey => KeysOK(idem, events)
      BY DEF KeysOK, OneEffectPerKey
    <2>2. KeysOK(idem', events') => OneEffectPerKey'
      BY DEF KeysOK, OneEffectPerKey
    <2> QED
      BY <2>1, <2>2, KeysStep, NextIsAnyStep
  <1> QED
    BY <1>1, <1>2, TypeCorrect, OneLive, PTL DEF Spec

-----------------------------------------------------------------------------
(* Nothing crosses from one pair to another                                *)

(* Who acts in a log belongs to the pair of the event.                     *)
ActorsIn(log) ==
  \A i \in 1 .. Len(log) :
    log[i].actor # NULL => PairOf[log[i].actor] = log[i].pair

(* Who is in a session belongs to its pair.                                *)
MembersIn(rows) ==
  \A s \in Sessions : \A a \in rows[s].members : PairOf[a] = rows[s].pair

(* PairsIsolated is not inductive alone: a cheer must also be known to be  *)
(* about a session that exists, because an id without a row may still be   *)
(* given to any pair.                                                      *)
CheersIn(rows) ==
  \A r \in reactions : /\ PairOf[r.account] = rows[r.session].pair
                       /\ PairOf[r.account] # NULL

(* One more event by a member of its pair, or by nobody.                   *)
LEMMA ActorsAppend ==
  ASSUME NEW log \in Seq(Event), NEW e \in Event, ActorsIn(log),
         e.actor # NULL => PairOf[e.actor] = e.pair
  PROVE  ActorsIn(Append(log, e))
  BY AppendFacts DEF ActorsIn

(* The sweep acts for nobody and moves nobody.                             *)
LEMMA SweepIsolated ==
  ASSUME TypeOK, OneLiveSession, NEW p \in Pairs
  PROVE  /\ ActorsIn(events) => ActorsIn(events \o SweptEvents(p))
         /\ MembersIn(session) => MembersIn(Swept(p))
         /\ CheersIn(session) => CheersIn(Swept(p))
  <1>1. ASSUME NEW s \in Sessions, Due(p, s), ActorsIn(events)
        PROVE  ActorsIn(events \o SweptEvents(p))
    <2>1. SweptEvent(p, s) \in Event /\ SweptEvent(p, s).actor = NULL
      BY <1>1, SweptEventFacts
    <2>2. events \o SweptEvents(p) = Append(events, SweptEvent(p, s))
      BY <1>1, SweepIsWrite
    <2> QED
      BY <1>1, <2>1, <2>2, ActorsAppend DEF TypeOK
  <1>2. ActorsIn(events) => ActorsIn(events \o SweptEvents(p))
    BY <1>1, SweepIsIdle
  <1>3. \A s \in Sessions : /\ Swept(p)[s].pair = session[s].pair
                            /\ Swept(p)[s].members = session[s].members
    <2> TAKE s \in Sessions
    <2>1. session[s] \in Row
      BY DEF TypeOK
    <2> QED
      BY <2>1, ClosedFacts DEF Swept
  <1>4. \A r \in reactions : r.session \in Sessions
    BY DEF TypeOK
  <1> QED
    BY <1>2, <1>3, <1>4 DEF MembersIn, CheersIn

(* Writing a row of the pair, with only members of it, isolates it still.  *)
LEMMA WriteIsolated ==
  ASSUME TypeOK, NEW rows \in [Sessions -> Row], NEW s \in Sessions, NEW new \in Row,
         NEW a \in Accounts, MembersIn(rows), CheersIn(rows),
         new.pair = PairOf[a],
         rows[s].pair = NULL \/ new.pair = rows[s].pair,
         \/ Alone(new, a)
         \/ new.pair = rows[s].pair /\ new.members \subseteq rows[s].members \cup {a}
  PROVE  MembersIn([rows EXCEPT ![s] = new]) /\ CheersIn([rows EXCEPT ![s] = new])
  <1> DEFINE rows2 == [rows EXCEPT ![s] = new]
  <1>1. rows2[s] = new /\ \A t \in Sessions : t # s => rows2[t] = rows[t]
    OBVIOUS
  <1> HIDE DEF rows2
  <1>2. \A b \in new.members : PairOf[b] = new.pair
    BY DEF MembersIn, Alone
  <1>3. MembersIn(rows2)
    BY <1>1, <1>2 DEF MembersIn
  <1>4. ASSUME NEW r \in reactions
        PROVE  PairOf[r.account] = rows2[r.session].pair /\ PairOf[r.account] # NULL
    <2>1. r.session \in Sessions
      BY DEF TypeOK
    <2> QED
      BY <1>1, <2>1 DEF CheersIn
  <1> QED
    BY <1>3, <1>4 DEF CheersIn, rows2

(* Nobody outside a pair acts in its log, is in its sessions or cheers.    *)
THEOREM PairsStayIsolated == Spec => []PairsIsolated
  <1> DEFINE Inv == ActorsIn(events) /\ MembersIn(session) /\ CheersIn(session)
  <1>1. Init => Inv
    BY DEF Init, ActorsIn, MembersIn, CheersIn, NoRow
  <1>2. TypeOK /\ OneLiveSession /\ Inv /\ [Next]_vars => Inv'
    <2> SUFFICES ASSUME TypeOK, OneLiveSession, Inv, [Next]_vars
                 PROVE  Inv'
      OBVIOUS
    <2>0. session \in [Sessions -> Row] /\ events \in Seq(Event)
      BY DEF TypeOK
    <2>1. CASE UNCHANGED <<session, events, reactions>>
      BY <2>1 DEF ActorsIn, MembersIn, CheersIn
    <2>2. ASSUME NEW a \in Accounts, CurrentSession(a)
          PROVE  Inv'
      <3>1. PairOf[a] \in Pairs
        BY <2>2, StoreAssumption DEF CurrentSession
      <3>2. /\ ActorsIn(events \o SweptEvents(PairOf[a]))
            /\ MembersIn(Swept(PairOf[a])) /\ CheersIn(Swept(PairOf[a]))
        BY <3>1, SweepIsolated
      <3>3. /\ session' = Swept(PairOf[a]) /\ reactions' = reactions
            /\ events' = events \o SweptEvents(PairOf[a])
        BY <2>2 DEF CurrentSession
      <3> QED
        BY <3>2, <3>3 DEF ActorsIn, MembersIn, CheersIn
    <2>3. ASSUME NEW a \in Accounts, NEW k \in Keys, NEW s \in Sessions,
                 StartSession(a, k, s)
          PROVE  Inv'
      <3>1. PICK new \in Row, e \in Event :
              /\ EventBy(e, a, k, s)
              /\ e.type = "session.started" /\ e.row = new /\ e.seen = NULL
              /\ new.pair = PairOf[a] /\ new.state = "open" /\ new.version = 1
              /\ Alone(new, a)
              /\ Swept(PairOf[a])[s] = NoRow
              /\ session' = [Swept(PairOf[a]) EXCEPT ![s] = new]
              /\ events' = Append(events \o SweptEvents(PairOf[a]), e)
        BY <2>3, StartShape
      <3> DEFINE rows == Swept(PairOf[a])
                 log == events \o SweptEvents(PairOf[a])
      <3>2. PairOf[a] \in Pairs /\ PairOf[e.actor] = e.pair
        BY <3>1 DEF EventBy
      <3>3. ActorsIn(log) /\ MembersIn(rows) /\ CheersIn(rows)
        BY <3>2, SweepIsolated
      <3>4. rows \in [Sessions -> Row] /\ log \in Seq(Event)
        BY <2>0, <3>2, SweptType
      <3>5. rows[s].pair = NULL
        BY <3>1 DEF NoRow
      <3>6. reactions' = reactions
        BY <2>3 DEF StartSession
      <3>7. session' = [rows EXCEPT ![s] = new] /\ events' = Append(log, e)
        BY <3>1
      <3> HIDE DEF rows, log
      <3>8. /\ MembersIn([rows EXCEPT ![s] = new])
            /\ CheersIn([rows EXCEPT ![s] = new])
            /\ ActorsIn(Append(log, e))
        BY <3>1, <3>2, <3>3, <3>4, <3>5, WriteIsolated, ActorsAppend
      <3> QED
        BY <3>6, <3>7, <3>8 DEF ActorsIn, MembersIn, CheersIn
    <2>4. ASSUME NEW a \in Accounts, NEW k \in Keys, NEW s \in Sessions,
                 \/ \E started, completed \in Instants :
                      ImportSoloSession(a, k, s, started, completed)
                 \/ \E v \in 1 .. Len(events), action \in Actions :
                      transitionSession(a, k, s, v, action)
          PROVE  Inv'
      <3>1. PICK new \in Row, e \in Event :
              /\ EventBy(e, a, k, s)
              /\ new.pair = PairOf[a]
              /\ \/ session[s] = NoRow /\ Alone(new, a)
                 \/ /\ new.pair = session[s].pair
                    /\ new.members \subseteq session[s].members \cup {a}
              /\ session' = [session EXCEPT ![s] = new]
              /\ events' = Append(events, e)
        <4>1. CASE \E started, completed \in Instants :
                     ImportSoloSession(a, k, s, started, completed)
          BY <4>1, ImportShape, StoreAssumption
        <4>2. CASE \E v \in 1 .. Len(events), action \in Actions :
                     transitionSession(a, k, s, v, action)
          <5>1. PICK v \in 1 .. Len(events), action \in Actions :
                  transitionSession(a, k, s, v, action)
            BY <4>2
          <5> QED
            BY <5>1, TransitionShape
        <4> QED
          BY <2>4, <4>1, <4>2
      <3>2. PairOf[e.actor] = e.pair
        BY <3>1 DEF EventBy
      <3>3. session[s] = NoRow => session[s].pair = NULL
        BY DEF NoRow
      <3>4. reactions' = reactions
        BY <2>4 DEF ImportSoloSession, transitionSession
      <3>5. /\ MembersIn([session EXCEPT ![s] = new])
            /\ CheersIn([session EXCEPT ![s] = new])
            /\ ActorsIn(Append(events, e))
        BY <2>0, <3>1, <3>2, <3>3, WriteIsolated, ActorsAppend
      <3> QED
        BY <3>1, <3>4, <3>5 DEF ActorsIn, MembersIn, CheersIn
    <2>5. ASSUME NEW a \in Accounts, NEW k \in Keys, NEW s \in Sessions,
                 AddNote(a, k, s) \/ AddCheer(a, k, s)
          PROVE  Inv'
      <3>1. PICK e \in Event :
              /\ EventBy(e, a, k, s) /\ session[s].pair = PairOf[a]
              /\ session' = session /\ events' = Append(events, e)
        BY <2>5, RemarkShape
      <3>2. PairOf[e.actor] = e.pair /\ PairOf[a] # NULL
        BY <3>1, StoreAssumption DEF EventBy
      <3>3. ActorsIn(Append(events, e))
        BY <2>0, <3>2, ActorsAppend
      <3>4. \A r \in reactions' :
              r \in reactions \/ r = [session |-> s, account |-> a, at |-> DbNow]
        BY <2>5 DEF AddNote, AddCheer
      <3>5. CheersIn(session)'
        BY <3>1, <3>2, <3>4 DEF CheersIn
      <3> QED
        BY <3>1, <3>3, <3>5 DEF ActorsIn, MembersIn
    <2> QED
      BY <2>1, <2>2, <2>3, <2>4, <2>5 DEF Next, CommandBy, Tick, vars
  <1>3. Inv => PairsIsolated
    BY DEF PairsIsolated, ActorsIn, MembersIn, CheersIn
  <1> QED
    BY <1>1, <1>2, <1>3, TypeCorrect, OneLive, PTL DEF Spec

-----------------------------------------------------------------------------
(* Cheers are spaced                                                       *)

(* No cheer lies in the future of the database clock: without this the     *)
(* cooldown, which only looks back, would let a cheer in before another.   *)
CheersPast == \A r \in reactions : r.at =< DbNow

(* Two cheers of one account in one session keep the cooldown.             *)
THEOREM CheersKeepDistance == Spec => []CheersSpaced
  <1>1. Init => CheersPast /\ CheersSpaced
    BY DEF Init, CheersPast, CheersSpaced
  <1>2. TypeOK /\ CheersPast /\ CheersSpaced /\ [Next]_vars
        => CheersPast' /\ CheersSpaced'
    <2> SUFFICES ASSUME TypeOK, CheersPast, CheersSpaced, [Next]_vars
                 PROVE  CheersPast' /\ CheersSpaced'
      OBVIOUS
    <2>0. /\ clock \in Nat /\ Skew \in Int /\ CheerCooldown \in Nat
          /\ \A r \in reactions : r.at \in Int
      BY StoreAssumption DEF TypeOK
    <2>1. CASE UNCHANGED reactions /\ clock' \in {clock, clock + 1}
      BY <2>0, <2>1 DEF CheersPast, CheersSpaced, DbNow
    <2>2. ASSUME NEW a \in Accounts, NEW k \in Keys, NEW s \in Sessions,
                 AddCheer(a, k, s)
          PROVE  CheersPast' /\ CheersSpaced'
      <3> DEFINE c == [session |-> s, account |-> a, at |-> DbNow]
      <3>1. reactions' = reactions \cup {c} /\ DbNow' = DbNow
        BY <2>2 DEF AddCheer, DbNow
      <3>2. c.session = s /\ c.account = a /\ c.at = DbNow /\ DbNow \in Int
        BY <2>0 DEF DbNow
      <3>3. \A r \in reactions : r.session = s /\ r.account = a
                                 => ~(r.at > DbNow - CheerCooldown)
        BY <2>2 DEF AddCheer, CoolingDown
      <3> HIDE DEF c
      <3>4. CheersPast'
        BY <3>1, <3>2 DEF CheersPast
      <3>5. ASSUME NEW q \in reactions', NEW r \in reactions',
                   q.session = r.session, q.account = r.account, q.at < r.at
            PROVE  r.at - q.at >= CheerCooldown
        <4>1. CASE q \in reactions /\ r \in reactions
          BY <3>5, <4>1 DEF CheersSpaced
        <4>2. CASE q \in reactions /\ r = c
          BY <2>0, <3>2, <3>3, <3>5, <4>2
        <4>3. CASE q = c
          BY <2>0, <3>1, <3>2, <3>5, <4>3 DEF CheersPast
        <4> QED
          BY <3>1, <4>1, <4>2, <4>3
      <3> QED
        BY <3>4, <3>5 DEF CheersSpaced
    <2>3. ASSUME NEW a \in Accounts, CurrentSession(a)
          PROVE  UNCHANGED <<reactions, clock>>
      BY <2>3 DEF CurrentSession
    <2>4. ASSUME NEW a \in Accounts, NEW k \in Keys, NEW s \in Sessions,
                 StartSession(a, k, s) \/ AddNote(a, k, s)
          PROVE  UNCHANGED <<reactions, clock>>
      BY <2>4 DEF StartSession, AddNote
    <2>5. ASSUME NEW a \in Accounts, NEW k \in Keys, NEW s \in Sessions,
                 NEW started \in Instants, NEW completed \in Instants,
                 ImportSoloSession(a, k, s, started, completed)
          PROVE  UNCHANGED <<reactions, clock>>
      BY <2>5 DEF ImportSoloSession
    <2>6. ASSUME NEW a \in Accounts, NEW k \in Keys, NEW s \in Sessions,
                 NEW v \in 1 .. Len(events), NEW action \in Actions,
                 transitionSession(a, k, s, v, action)
          PROVE  UNCHANGED <<reactions, clock>>
      BY <2>6 DEF transitionSession
    <2> QED
      BY <2>1, <2>2, <2>3, <2>4, <2>5, <2>6 DEF Next, CommandBy, Tick, vars
  <1> QED
    BY <1>1, <1>2, TypeCorrect, PTL DEF Spec

-----------------------------------------------------------------------------
(* Jobs follow the log                                                     *)

(* The jobs event e leaves at cursor i, and those of a whole log: the right*)
(* side of JobsMatchLog, named.                                            *)
Announces(e) == e.type \in {"session.started", "session.note_added"}

JobsOf(i, e) ==
  { [cursor |-> i, device |-> d,
     kind |-> IF e.type = "session.started" THEN "focus_started"
                                            ELSE "partner_note"] :
      d \in {x \in Devices : /\ PairOf[DeviceOwner[x]] = e.pair
                             /\ DeviceOwner[x] # e.actor} }

JobsOfLog(log) ==
  UNION { JobsOf(i, log[i]) : i \in {j \in 1 .. Len(log) : Announces(log[j])} }

(* JobsOfLog of the log is the right side of JobsMatchLog.                 *)
LEMMA JobsMeaning == JobsMatchLog <=> jobs = JobsOfLog(events)
  BY DEF JobsMatchLog, JobsOfLog, JobsOf, Announces

(* One more event adds its own jobs to those of the log.                   *)
LEMMA JobsAppend ==
  ASSUME NEW log \in Seq(Event), NEW e \in Event
  PROVE  JobsOfLog(Append(log, e)) =
           IF Announces(e) THEN JobsOfLog(log) \cup JobsOf(Len(log) + 1, e)
                           ELSE JobsOfLog(log)
  <1> DEFINE log2 == Append(log, e)
             n == Len(log)
             D(l) == {j \in 1 .. Len(l) : Announces(l[j])}
  <1>1. /\ n \in Nat /\ Len(log2) = n + 1 /\ log2[n + 1] = e
        /\ \A i \in 1 .. n : log2[i] = log[i]
    BY AppendFacts
  <1> HIDE DEF log2
  <1>2. \A i \in D(log) : i \in D(log2) /\ i # n + 1 /\ log2[i] = log[i]
    BY <1>1
  <1>3. \A i \in D(log2) : i \in D(log) \/ (i = n + 1 /\ Announces(e))
    BY <1>1
  <1>4. Announces(e) => n + 1 \in D(log2)
    BY <1>1
  <1>5. \A l, x : x \in JobsOfLog(l) <=> \E i \in D(l) : x \in JobsOf(i, l[i])
    BY DEF JobsOfLog
  <1> HIDE DEF D, n
  <1>6. ASSUME NEW x
        PROVE  x \in JobsOfLog(log2) <=>
                 \/ x \in JobsOfLog(log)
                 \/ Announces(e) /\ x \in JobsOf(n + 1, e)
    BY <1>1, <1>2, <1>3, <1>4, <1>5
  <1> QED
    BY <1>6 DEF log2, n

(* The sweep announces nothing.                                            *)
LEMMA SweepIsQuiet ==
  ASSUME TypeOK, OneLiveSession, NEW p \in Pairs
  PROVE  JobsOfLog(events \o SweptEvents(p)) = JobsOfLog(events)
  <1>1. ASSUME NEW s \in Sessions, Due(p, s)
        PROVE  JobsOfLog(events \o SweptEvents(p)) = JobsOfLog(events)
    <2>1. SweptEvent(p, s) \in Event /\ ~Announces(SweptEvent(p, s))
      BY <1>1, SweptEventFacts DEF Announces
    <2>2. events \o SweptEvents(p) = Append(events, SweptEvent(p, s))
      BY <1>1, SweepIsWrite
    <2> QED
      BY <2>1, <2>2, JobsAppend DEF TypeOK
  <1> QED
    BY <1>1, SweepIsIdle

(* enqueuePartnerNotification adds the jobs of the event at its cursor.    *)
LEMMA EnqueueIsJobsOf ==
  ASSUME NEW e, NEW a, NEW p, NEW cursor, NEW kind,
         e.pair = p, e.actor = a,
         kind = IF e.type = "session.started" THEN "focus_started"
                                              ELSE "partner_note",
         enqueuePartnerNotification(p, a, cursor, kind)
  PROVE  jobs' = jobs \cup JobsOf(cursor, e)
  BY DEF enqueuePartnerNotification, JobsOf

(* Exactly the starts and the notes are announced, each under its own      *)
(* cursor, to every device of the partner and to nobody else's.            *)
THEOREM JobsFollowLog == Spec => []JobsMatchLog
  <1>1. Init => JobsMatchLog
    BY DEF Init, JobsMatchLog
  <1>2. TypeOK /\ OneLiveSession /\ JobsMatchLog /\ [Next]_vars => JobsMatchLog'
    <2> SUFFICES ASSUME TypeOK, OneLiveSession, JobsMatchLog, [Next]_vars
                 PROVE  JobsMatchLog'
      OBVIOUS
    <2>0. events \in Seq(Event) /\ jobs = JobsOfLog(events)
      BY JobsMeaning DEF TypeOK
    <2> SUFFICES jobs' = JobsOfLog(events')
      BY DEF JobsMatchLog, JobsOfLog, JobsOf, Announces
    <2>1. CASE UNCHANGED <<jobs, events>>
      BY <2>0, <2>1
    <2>2. ASSUME NEW a \in Accounts, CurrentSession(a)
          PROVE  jobs' = JobsOfLog(events')
      <3>1. PairOf[a] \in Pairs
        BY <2>2, StoreAssumption DEF CurrentSession
      <3> QED
        BY <2>0, <2>2, <3>1, SweepIsQuiet DEF CurrentSession
    <2>3. ASSUME NEW a \in Accounts, NEW k \in Keys, NEW s \in Sessions,
                 StartSession(a, k, s)
          PROVE  jobs' = JobsOfLog(events')
      <3> DEFINE log == events \o SweptEvents(PairOf[a])
      <3>1. PICK e \in Event :
              /\ EventBy(e, a, k, s) /\ e.type = "session.started"
              /\ events' = Append(log, e)
        BY <2>3, StartShape
      <3>2. log \in Seq(Event) /\ jobs = JobsOfLog(log)
        BY <2>0, <3>1, SweepIsQuiet, SweptType DEF EventBy
      <3>3. enqueuePartnerNotification(PairOf[a], a, Len(log) + 1, "focus_started")
        BY <2>3 DEF StartSession
      <3> HIDE DEF log
      <3>4. jobs' = jobs \cup JobsOf(Len(log) + 1, e)
        BY <3>1, <3>3, EnqueueIsJobsOf DEF EventBy
      <3> QED
        BY <3>1, <3>2, <3>4, JobsAppend DEF Announces
    <2>4. ASSUME NEW a \in Accounts, NEW k \in Keys, NEW s \in Sessions,
                 \/ \E started, completed \in Instants :
                      ImportSoloSession(a, k, s, started, completed)
                 \/ \E v \in 1 .. Len(events), action \in Actions :
                      transitionSession(a, k, s, v, action)
          PROVE  jobs' = JobsOfLog(events')
      <3>0. Instants \subseteq Nat /\ 1 .. Len(events) \subseteq Nat
        BY StoreAssumption
      <3>1. PICK e \in Event : ~Announces(e) /\ events' = Append(events, e)
        <4>1. CASE \E started, completed \in Instants :
                     ImportSoloSession(a, k, s, started, completed)
          BY <4>1, <3>0, ImportShape DEF Announces
        <4>2. CASE \E v \in 1 .. Len(events), action \in Actions :
                     transitionSession(a, k, s, v, action)
          BY <4>2, <3>0, TransitionShape DEF Announces
        <4> QED
          BY <2>4, <4>1, <4>2
      <3>2. jobs' = jobs
        BY <2>4 DEF ImportSoloSession, transitionSession
      <3> QED
        BY <2>0, <3>1, <3>2, JobsAppend
    <2>5. ASSUME NEW a \in Accounts, NEW k \in Keys, NEW s \in Sessions,
                 AddNote(a, k, s)
          PROVE  jobs' = JobsOfLog(events')
      <3>1. PICK e \in Event :
              /\ EventBy(e, a, k, s) /\ e.type = "session.note_added"
              /\ events' = Append(events, e)
        BY <2>5, RemarkShape
      <3>2. enqueuePartnerNotification(PairOf[a], a, Len(events) + 1, "partner_note")
        BY <2>5 DEF AddNote
      <3>3. jobs' = jobs \cup JobsOf(Len(events) + 1, e)
        BY <3>1, <3>2, EnqueueIsJobsOf DEF EventBy
      <3> QED
        BY <2>0, <3>1, <3>3, JobsAppend DEF Announces
    <2>6. ASSUME NEW a \in Accounts, NEW k \in Keys, NEW s \in Sessions,
                 AddCheer(a, k, s), ~AddNote(a, k, s)
          PROVE  jobs' = JobsOfLog(events')
      <3>1. PICK e \in Event :
              e.type = "session.cheered" /\ events' = Append(events, e)
        BY <2>6, RemarkShape
      <3>2. jobs' = jobs
        BY <2>6 DEF AddCheer
      <3> QED
        BY <2>0, <3>1, <3>2, JobsAppend DEF Announces
    <2> QED
      BY <2>1, <2>2, <2>3, <2>4, <2>5, <2>6 DEF Next, CommandBy, Tick, vars
  <1> QED
    BY <1>1, <1>2, TypeCorrect, OneLive, PTL DEF Spec

-----------------------------------------------------------------------------
(***************************************************************************)
(* FocusStore implements FocusRoom: the rows with their absolute instants  *)
(* are a countdown that runs while a session runs.  The mapping needs      *)
(* three invariants of the store: rows are typed, a paused row has a pause *)
(* instant (part of CompanyMatchesState), and a pair has one live session, *)
(* so that a sweep closes one room per step.                               *)
(***************************************************************************)

(* The mapping, row by row                                                 *)

PhaseOf(row) == IF row.state \in {"open", "together"} THEN "running" ELSE row.state

LeftOf(row, now) ==
  IF ~Live(row) THEN 0
  ELSE row.endsAt - (IF row.state = "paused" THEN row.pausedAt ELSE now)

AwayOf(row, now) == IF row.state = "paused" THEN now - row.pausedAt ELSE 0

(* A row whose pause instant is there when it is needed.                   *)
Timed(row) ==
  /\ row \in Row
  /\ row.state = "paused" => row.pausedAt \in Int

(* The invariants make every row timed.                                    *)
LEMMA RowsTimed ==
  ASSUME TypeOK, CompanyMatchesState, NEW s \in Sessions
  PROVE  Timed(session[s])
  <1>1. session[s] \in Row
    BY DEF TypeOK
  <1>2. session[s].state # "none" => CompanyOK(session[s])
    BY DEF CompanyMatchesState
  <1>3. session[s].pausedAt \in Int \cup {NULL}
    BY <1>1 DEF Row
  <1> QED
    BY <1>1, <1>2, <1>3 DEF Timed, CompanyOK, Live, LiveStates

(* One tick of the clock is one tick of every running countdown and of     *)
(* every pause.                                                            *)
LEMMA TimedTick ==
  ASSUME NEW row, Timed(row), NEW now \in Int
  PROVE  /\ LeftOf(row, now + 1) = IF PhaseOf(row) = "running"
                                   THEN LeftOf(row, now) - 1 ELSE LeftOf(row, now)
         /\ AwayOf(row, now + 1) = IF PhaseOf(row) = "paused"
                                   THEN AwayOf(row, now) + 1 ELSE AwayOf(row, now)
  <1>1. row.endsAt \in Int
    BY DEF Timed, Row
  <1>2. row.state \in States \cup {"none"}
    BY DEF Timed, Row
  <1> QED
    BY <1>1, <1>2
    DEF Timed, LeftOf, AwayOf, PhaseOf, Live, LiveStates, EndStates, States

(* A room that does not exist, and one that is over, keep no time.         *)
LEMMA DeadRow ==
  ASSUME NEW row, ~Live(row), NEW now
  PROVE  /\ LeftOf(row, now) = 0 /\ AwayOf(row, now) = 0
         /\ PhaseOf(row) = row.state
  BY DEF LeftOf, AwayOf, PhaseOf, Live, LiveStates

(* Tick is a tick of the room.                                             *)
LEMMA RoomTick ==
  ASSUME TypeOK, CompanyMatchesState, Tick
  PROVE  Room!Tick
  <1>1. clock \in Int /\ clock' = clock + 1 /\ session' = session
    BY DEF Tick, TypeOK
  <1>2. \A s \in Sessions :
          /\ LeftOf(session[s], clock + 1) =
               IF PhaseOf(session[s]) = "running"
               THEN LeftOf(session[s], clock) - 1 ELSE LeftOf(session[s], clock)
          /\ AwayOf(session[s], clock + 1) =
               IF PhaseOf(session[s]) = "paused"
               THEN AwayOf(session[s], clock) + 1 ELSE AwayOf(session[s], clock)
    BY <1>1, RowsTimed, TimedTick
  <1> QED
    BY <1>1, <1>2 DEF Room!Tick, LeftOf, AwayOf, PhaseOf

-----------------------------------------------------------------------------
(* One row is written                                                      *)

(* What the room sees of a row.                                            *)
Seen(row, now) == <<row.pair, PhaseOf(row), LeftOf(row, now), AwayOf(row, now)>>

(* A write the room cannot see is a stuttering step.                       *)
LEMMA RoomStutter ==
  ASSUME TypeOK, NEW s \in Sessions, NEW new,
         session' = [session EXCEPT ![s] = new], clock' = clock,
         Seen(new, clock) = Seen(session[s], clock)
  PROVE  UNCHANGED Room!vars
  <1>1. \A t \in Sessions : Seen(session'[t], clock) = Seen(session[t], clock)
    BY DEF TypeOK
  <1> QED
    BY <1>1 DEF Room!vars, Seen, LeftOf, AwayOf, PhaseOf

(* A running room is paused with its countdown.                            *)
LEMMA RoomPause ==
  ASSUME TypeOK, NEW s \in Sessions, NEW new,
         session' = [session EXCEPT ![s] = new], clock' = clock,
         PhaseOf(session[s]) = "running", PhaseOf(new) = "paused",
         new.pair = session[s].pair,
         LeftOf(new, clock) = LeftOf(session[s], clock),
         AwayOf(new, clock) = AwayOf(session[s], clock)
  PROVE  Room!Pause(s)
  <1>1. session'[s] = new /\ \A t \in Sessions : t # s => session'[t] = session[t]
    BY DEF TypeOK
  <1>2. \A t \in Sessions :
          /\ session'[t].pair = session[t].pair
          /\ LeftOf(session'[t], clock') = LeftOf(session[t], clock)
          /\ AwayOf(session'[t], clock') = AwayOf(session[t], clock)
          /\ PhaseOf(session'[t]) = IF t = s THEN "paused" ELSE PhaseOf(session[t])
    BY <1>1
  <1>3. [t \in Sessions |-> PhaseOf(session'[t])]
          = [[t \in Sessions |-> PhaseOf(session[t])] EXCEPT ![s] = "paused"]
    BY <1>2
  <1>4. [t \in Sessions |-> LeftOf(session'[t], clock')]
          = [t \in Sessions |-> LeftOf(session[t], clock)]
    BY <1>2
  <1>5. [t \in Sessions |-> AwayOf(session'[t], clock')]
          = [t \in Sessions |-> AwayOf(session[t], clock)]
    BY <1>2
  <1>6. [t \in Sessions |-> session'[t].pair] = [t \in Sessions |-> session[t].pair]
    BY <1>2
  <1> QED
    BY <1>3, <1>4, <1>5, <1>6 DEF Room!Pause, LeftOf, AwayOf, PhaseOf

(* A paused room is resumed with the countdown it was paused with.         *)
LEMMA RoomResume ==
  ASSUME TypeOK, NEW s \in Sessions, NEW new,
         session' = [session EXCEPT ![s] = new], clock' = clock,
         PhaseOf(session[s]) = "paused", PhaseOf(new) = "running",
         new.pair = session[s].pair,
         LeftOf(new, clock) = LeftOf(session[s], clock),
         AwayOf(new, clock) = 0
  PROVE  Room!Resume(s)
  <1>1. session'[s] = new /\ \A t \in Sessions : t # s => session'[t] = session[t]
    BY DEF TypeOK
  <1>2. \A t \in Sessions :
          /\ session'[t].pair = session[t].pair
          /\ LeftOf(session'[t], clock') = LeftOf(session[t], clock)
          /\ AwayOf(session'[t], clock') = IF t = s THEN 0 ELSE AwayOf(session[t], clock)
          /\ PhaseOf(session'[t]) = IF t = s THEN "running" ELSE PhaseOf(session[t])
    BY <1>1
  <1>3. [t \in Sessions |-> PhaseOf(session'[t])]
          = [[t \in Sessions |-> PhaseOf(session[t])] EXCEPT ![s] = "running"]
    BY <1>2
  <1>4. [t \in Sessions |-> LeftOf(session'[t], clock')]
          = [t \in Sessions |-> LeftOf(session[t], clock)]
    BY <1>2
  <1>5. [t \in Sessions |-> AwayOf(session'[t], clock')]
          = [[t \in Sessions |-> AwayOf(session[t], clock)] EXCEPT ![s] = 0]
    BY <1>2
  <1>6. [t \in Sessions |-> session'[t].pair] = [t \in Sessions |-> session[t].pair]
    BY <1>2
  <1> QED
    BY <1>3, <1>4, <1>5, <1>6 DEF Room!Resume, LeftOf, AwayOf, PhaseOf

(* A live room is closed; as expired, only when it is due.                 *)
LEMMA RoomClose ==
  ASSUME TypeOK, NEW s \in Sessions, NEW new,
         session' = [session EXCEPT ![s] = new], clock' = clock,
         NEW outcome \in {"completed", "cancelled", "expired"}, new.state = outcome,
         Live(session[s]), ~Live(new), new.pair = session[s].pair,
         outcome = "expired" =>
           /\ PhaseOf(session[s]) = "paused"
           /\ AwayOf(session[s], clock) + Skew >= PauseTTL
  PROVE  Room!Close(s, outcome)
  <1>1. session'[s] = new /\ \A t \in Sessions : t # s => session'[t] = session[t]
    BY DEF TypeOK
  <1>2. \A t \in Sessions :
          /\ session'[t].pair = session[t].pair
          /\ LeftOf(session'[t], clock') = IF t = s THEN 0 ELSE LeftOf(session[t], clock)
          /\ AwayOf(session'[t], clock') = IF t = s THEN 0 ELSE AwayOf(session[t], clock)
          /\ PhaseOf(session'[t]) = IF t = s THEN outcome ELSE PhaseOf(session[t])
    BY <1>1, DeadRow
  <1>3. PhaseOf(session[s]) \in {"running", "paused"}
    BY DEF PhaseOf, Live, LiveStates
  <1>4. outcome = "expired" => Room!Due(s)
    BY DEF Room!Due, AwayOf, PhaseOf
  <1> QED
    <2>1. outcome = "expired" => PhaseOf(session[s]) = "paused" /\ Room!Due(s)
      BY <1>4
    <2>2. [t \in Sessions |-> PhaseOf(session'[t])]
            = [[t \in Sessions |-> PhaseOf(session[t])] EXCEPT ![s] = outcome]
      BY <1>2
    <2>3. [t \in Sessions |-> LeftOf(session'[t], clock')]
            = [[t \in Sessions |-> LeftOf(session[t], clock)] EXCEPT ![s] = 0]
      BY <1>2
    <2>4. [t \in Sessions |-> AwayOf(session'[t], clock')]
            = [[t \in Sessions |-> AwayOf(session[t], clock)] EXCEPT ![s] = 0]
      BY <1>2
    <2>5. [t \in Sessions |-> session'[t].pair] = [t \in Sessions |-> session[t].pair]
      BY <1>2
    <2> QED
      BY <1>3, <2>1, <2>2, <2>3, <2>4, <2>5
      DEF Room!Close, Room!Live, LeftOf, AwayOf, PhaseOf

(* A finished room enters the table.                                       *)
LEMMA RoomImport ==
  ASSUME TypeOK, NEW s \in Sessions, NEW new, NEW p,
         session' = [session EXCEPT ![s] = new], clock' = clock,
         session[s] = NoRow, new.pair = p, new.state = "completed"
  PROVE  Room!Import(p, s)
  <1>1. session'[s] = new /\ \A t \in Sessions : t # s => session'[t] = session[t]
    BY DEF TypeOK
  <1>2. ~Live(new) /\ ~Live(session[s]) /\ session[s].state = "none"
    BY DEF Live, LiveStates, NoRow
  <1>3. \A t \in Sessions :
          /\ session'[t].pair = IF t = s THEN p ELSE session[t].pair
          /\ LeftOf(session'[t], clock') = LeftOf(session[t], clock)
          /\ AwayOf(session'[t], clock') = AwayOf(session[t], clock)
          /\ PhaseOf(session'[t]) = IF t = s THEN "completed" ELSE PhaseOf(session[t])
    BY <1>1, <1>2, DeadRow
  <1>4. PhaseOf(session[s]) = "none"
    BY <1>2, DeadRow
  <1>5. [t \in Sessions |-> PhaseOf(session'[t])]
          = [[t \in Sessions |-> PhaseOf(session[t])] EXCEPT ![s] = "completed"]
    BY <1>3
  <1>6. [t \in Sessions |-> LeftOf(session'[t], clock')]
          = [t \in Sessions |-> LeftOf(session[t], clock)]
    BY <1>3
  <1>7. [t \in Sessions |-> AwayOf(session'[t], clock')]
          = [t \in Sessions |-> AwayOf(session[t], clock)]
    BY <1>3
  <1>8. [t \in Sessions |-> session'[t].pair]
          = [[t \in Sessions |-> session[t].pair] EXCEPT ![s] = p]
    BY <1>3
  <1> QED
    BY <1>4, <1>5, <1>6, <1>7, <1>8 DEF Room!Import, LeftOf, AwayOf, PhaseOf

-----------------------------------------------------------------------------
(* The commands                                                            *)

(* A due row is a due room.                                                *)
LEMMA DueIsDue ==
  ASSUME TypeOK, CompanyMatchesState, NEW p, NEW s \in Sessions, Due(p, s)
  PROVE  /\ Room!Due(s)
         /\ Live(session[s])
         /\ Closed(session[s]).state =
              IF PhaseOf(session[s]) = "running" THEN "completed" ELSE "expired"
         /\ Closed(session[s]).state = "expired" =>
              /\ PhaseOf(session[s]) = "paused"
              /\ AwayOf(session[s], clock) + Skew >= PauseTTL
  <1>1. Timed(session[s]) /\ session[s] \in Row
    BY RowsTimed DEF Timed
  <1>2. clock \in Int /\ Skew \in Int /\ PauseTTL \in Int /\ session[s].endsAt \in Int
    BY <1>1, StoreAssumption DEF TypeOK, Row
  <1>3. PausedTooLong(session[s]) \/ RanOut(session[s])
    BY DEF Due
  <1>4. Live(session[s])
    BY DueLive
  <1>5. CASE PausedTooLong(session[s])
    <2>1. session[s].state = "paused" /\ session[s].pausedAt \in Int
      BY <1>1, <1>5 DEF PausedTooLong, Timed
    <2>2. clock - session[s].pausedAt + Skew >= PauseTTL
      BY <1>2, <1>5, <2>1 DEF PausedTooLong, DbNow
    <2>3. Closed(session[s]).state = "expired"
      BY <1>1, <2>1 DEF Closed, Row
    <2>4. PhaseOf(session[s]) = "paused" /\ AwayOf(session[s], clock) + Skew >= PauseTTL
      BY <2>1, <2>2 DEF PhaseOf, AwayOf
    <2> QED
      BY <1>4, <2>1, <2>2, <2>3, <2>4 DEF Room!Due, PhaseOf, AwayOf
  <1>6. CASE RanOut(session[s])
    <2>1. session[s].state \in {"open", "together"}
      BY <1>6 DEF RanOut
    <2>2. session[s].endsAt - clock =< Skew
      BY <1>2, <1>6 DEF RanOut, DbNow
    <2>3. Closed(session[s]).state = "completed"
      BY <1>1, <2>1 DEF Closed, Row
    <2> QED
      BY <1>4, <2>1, <2>2, <2>3 DEF Room!Due, PhaseOf
  <1> QED
    BY <1>3, <1>5, <1>6

(* CurrentSession closes the one room that is due.                         *)
LEMMA SweepImplements ==
  ASSUME TypeOK, OneLiveSession, CompanyMatchesState,
         NEW a \in Accounts, CurrentSession(a)
  PROVE  Room!Next
  <1> DEFINE p == PairOf[a]
  <1>1. p \in Pairs
    BY StoreAssumption DEF CurrentSession
  <1>2. PICK s \in Sessions : Due(p, s)
    BY DEF CurrentSession
  <1>3. session' = [session EXCEPT ![s] = Closed(session[s])] /\ clock' = clock
    BY <1>1, <1>2, SweepIsWrite DEF CurrentSession
  <1>4. session[s] \in Row
    BY DEF TypeOK
  <1> HIDE DEF p
  <1>5. PICK new \in Row : new = Closed(session[s])
    BY <1>4, ClosedType
  <1>6. PICK outcome \in {"completed", "cancelled", "expired"} : outcome = new.state
    BY <1>4, <1>5, ClosedFacts DEF EndStates
  <1>7. /\ Live(session[s]) /\ ~Live(new) /\ new.pair = session[s].pair
        /\ outcome = "expired" =>
             /\ PhaseOf(session[s]) = "paused"
             /\ AwayOf(session[s], clock) + Skew >= PauseTTL
    BY <1>2, <1>4, <1>5, <1>6, DueIsDue, ClosedFacts
  <1>8. Room!Close(s, outcome)
    BY <1>3, <1>5, <1>6, <1>7, RoomClose
  <1> QED
    BY <1>8 DEF Room!Next

(* StartSession closes what is due and opens a full countdown.             *)
LEMMA StartImplements ==
  ASSUME TypeOK, OneLiveSession, CompanyMatchesState, NEW a \in Accounts,
         NEW k \in Keys, NEW s \in Sessions, StartSession(a, k, s)
  PROVE  Room!Next
  <1> DEFINE p == PairOf[a]
             new == [NoRow EXCEPT !.pair = p, !.startedBy = a, !.state = "open",
                       !.startedAt = clock, !.endsAt = clock + Duration,
                       !.version = 1, !.members = {a}]
             Other(t) == session[t].pair = p /\ Live(session[t])
  <1>1. p \in Pairs
    BY MemberPair DEF StartSession
  <1>2. /\ session' = [Swept(p) EXCEPT ![s] = new] /\ clock' = clock
        /\ Swept(p)[s] = NoRow /\ NoLiveSession(Swept(p), p)
    BY DEF StartSession
  <1>3. /\ PhaseOf(new) = "running" /\ new.pair = p
        /\ LeftOf(new, clock) = Duration /\ AwayOf(new, clock) = 0
    <2>1. /\ new.state = "open" /\ new.endsAt = clock + Duration /\ new.pair = p
      BY DEF NoRow
    <2>2. clock \in Int /\ Duration \in Int
      BY StoreAssumption DEF TypeOK
    <2> HIDE DEF new
    <2> QED
      BY <2>1, <2>2 DEF PhaseOf, LeftOf, AwayOf, Live, LiveStates
  <1>4. /\ session'[s] = new
        /\ \A t \in Sessions : t # s => session'[t] = Swept(p)[t]
    BY <1>2 DEF Swept
  <1> HIDE DEF new
  <1>5. \A t \in Sessions : session[t] \in Row
    BY DEF TypeOK
  <1>6. session[s] = NoRow /\ ~Due(p, s)
    <2>1. ~Due(p, s)
      BY <1>2, <1>5, ClosedFacts DEF Swept, NoRow, EndStates
    <2> QED
      BY <1>2, <2>1 DEF Swept
  <1>7. ~Live(session[s]) /\ PhaseOf(session[s]) = "none"
    BY <1>6 DEF NoRow, Live, LiveStates, PhaseOf
  <1>8. ASSUME NEW t \in Sessions, Other(t)
        PROVE  Due(p, t)
    BY <1>2, <1>8 DEF NoLiveSession, Swept
  <1>9. \A t \in Sessions : Due(p, t) => Other(t)
    BY DueLive
  <1>10. ASSUME NEW t \in Sessions, t # s
         PROVE  session'[t] = IF Other(t) THEN Closed(session[t]) ELSE session[t]
    BY <1>4, <1>8, <1>9, <1>10 DEF Swept
  <1>11. ASSUME NEW t \in Sessions
         PROVE  /\ session'[t].pair = IF t = s THEN p ELSE session[t].pair
                /\ PhaseOf(session'[t]) =
                     IF t = s THEN "running"
                     ELSE IF Other(t)
                       THEN IF PhaseOf(session[t]) = "running" THEN "completed" ELSE "expired"
                       ELSE PhaseOf(session[t])
                /\ LeftOf(session'[t], clock') =
                     IF t = s THEN Duration
                     ELSE IF Other(t) THEN 0 ELSE LeftOf(session[t], clock)
                /\ AwayOf(session'[t], clock') =
                     IF Other(t) THEN 0 ELSE AwayOf(session[t], clock)
    <2>1. CASE t = s
      BY <1>2, <1>3, <1>4, <1>7, <2>1, DeadRow
    <2>2. CASE t # s /\ Other(t)
      <3>1. session'[t] = Closed(session[t])
        BY <1>10, <2>2
      <3>2. /\ ~Live(Closed(session[t])) /\ Closed(session[t]).pair = session[t].pair
        BY <1>5, ClosedFacts
      <3>3. Closed(session[t]).state =
              IF PhaseOf(session[t]) = "running" THEN "completed" ELSE "expired"
        BY <1>8, <2>2, DueIsDue
      <3> QED
        BY <2>2, <3>1, <3>2, <3>3, DeadRow
    <2>3. CASE t # s /\ ~Other(t)
      BY <1>2, <1>10, <2>3
    <2> QED
      BY <2>1, <2>2, <2>3
  <1>12. \A t \in Sessions : Other(t) => Room!Due(t)
    BY <1>8, DueIsDue
  <1>13. \A t \in Sessions : Live(session[t]) <=> PhaseOf(session[t]) \in {"running", "paused"}
    <2> TAKE t \in Sessions
    <2>1. session[t].state \in States \cup {"none"}
      BY <1>5 DEF Row
    <2> QED
      BY <2>1 DEF PhaseOf, Live, LiveStates, EndStates, States
  <1>14. Room!Start(p, s)
    <2> DEFINE pairs == [t \in Sessions |-> session[t].pair]
               phases == [t \in Sessions |-> PhaseOf(session[t])]
               lefts == [t \in Sessions |-> LeftOf(session[t], clock)]
               aways == [t \in Sessions |-> AwayOf(session[t], clock)]
               Others(t) == pairs[t] = p /\ phases[t] \in {"running", "paused"}
    <2> HIDE DEF p
    <2>0. \A t \in Sessions : Others(t) <=> Other(t)
      BY <1>13
    <2>1. phases[s] = "none" /\ \A t \in Sessions : Others(t) => Room!Due(t)
      BY <1>7, <1>12, <2>0
    <2>2. [t \in Sessions |-> session'[t].pair] = [pairs EXCEPT ![s] = p]
      BY <1>11
    <2>3. [t \in Sessions |-> PhaseOf(session'[t])]
            = [t \in Sessions |->
                 IF t = s THEN "running"
                 ELSE IF Others(t)
                   THEN IF phases[t] = "running" THEN "completed" ELSE "expired"
                   ELSE phases[t]]
      BY <1>11, <2>0
    <2>4. [t \in Sessions |-> LeftOf(session'[t], clock')]
            = [t \in Sessions |->
                 IF t = s THEN Duration ELSE IF Others(t) THEN 0 ELSE lefts[t]]
      BY <1>11, <2>0
    <2>5. [t \in Sessions |-> AwayOf(session'[t], clock')]
            = [t \in Sessions |-> IF Others(t) THEN 0 ELSE aways[t]]
      BY <1>11, <2>0
    <2> QED
      BY <2>1, <2>2, <2>3, <2>4, <2>5
      DEF Room!Start, Room!Live, Room!Swept, LeftOf, AwayOf, PhaseOf
  <1> QED
    BY <1>1, <1>14 DEF Room!Next

(* ImportSoloSession adds a finished room.                                 *)
LEMMA ImportImplements ==
  ASSUME TypeOK, NEW a \in Accounts, NEW k \in Keys, NEW s \in Sessions,
         NEW started \in Instants, NEW completed \in Instants,
         ImportSoloSession(a, k, s, started, completed)
  PROVE  Room!Next
  <1>1. PICK new \in Row :
          /\ new.pair = PairOf[a] /\ new.state = "completed"
          /\ session[s] = NoRow
          /\ session' = [session EXCEPT ![s] = new]
    BY ImportShape, StoreAssumption
  <1>2. PairOf[a] \in Pairs /\ clock' = clock
    BY MemberPair DEF ImportSoloSession
  <1>3. Room!Import(PairOf[a], s)
    BY <1>1, <1>2, RoomImport
  <1> QED
    BY <1>2, <1>3 DEF Room!Next

(* A transition pauses, resumes or closes the room, and a join is not seen *)
(* by it.                                                                  *)
LEMMA TransitionImplements ==
  ASSUME TypeOK, CompanyMatchesState, NEW a \in Accounts, NEW k \in Keys,
         NEW s \in Sessions, NEW v \in 1 .. Len(events), NEW action \in Actions,
         transitionSession(a, k, s, v, action)
  PROVE  Room!Next \/ UNCHANGED Room!vars
  <1> DEFINE row == session[s]
             next == NextState(row.state, row.pauseOrigin, action)
  <1>1. /\ row \in Row /\ Timed(row) /\ clock \in Int /\ clock' = clock
        /\ row.endsAt \in Int /\ row.pauseOrigin \in {"open", "together", NULL}
    BY RowsTimed DEF TypeOK, Timed, transitionSession, Row
  <1>2. next # "error" /\ session' = [session EXCEPT ![s] = Updated(row, a, action, next)]
    BY DEF transitionSession
  <1>3. PICK new \in Row : new = Updated(row, a, action, next)
    BY <1>1, <1>2, UpdatedType DEF transitionSession, TypeOK
  <1>4. session' = [session EXCEPT ![s] = new]
    BY <1>2, <1>3
  <1>5. new.pair = row.pair /\ Live(row) /\ new.state = next
    BY <1>1, <1>2, <1>3, UpdatedFacts
  <1>6. CASE action = "join"
    <2>1. row.state = "open" /\ next = "together"
      BY <1>2, <1>6 DEF NextState
    <2>2. new.state = "together" /\ new.endsAt = row.endsAt
      BY <1>1, <1>3, <1>5, <1>6, <2>1 DEF Updated, Row
    <2>3. Seen(new, clock) = Seen(row, clock)
      BY <1>5, <2>1, <2>2 DEF Seen, PhaseOf, LeftOf, AwayOf, Live, LiveStates
    <2> QED
      BY <1>1, <1>4, <2>3, RoomStutter
  <1>7. CASE action = "pause"
    <2>1. row.state \in {"open", "together"} /\ next = "paused"
      BY <1>2, <1>7 DEF NextState
    <2>2. new.state = "paused" /\ new.endsAt = row.endsAt /\ new.pausedAt = clock
      BY <1>1, <1>3, <1>5, <1>7, <2>1 DEF Updated, Row
    <2>3. /\ PhaseOf(row) = "running" /\ PhaseOf(new) = "paused"
          /\ LeftOf(new, clock) = LeftOf(row, clock)
          /\ AwayOf(new, clock) = AwayOf(row, clock)
      BY <1>1, <2>1, <2>2 DEF PhaseOf, LeftOf, AwayOf, Live, LiveStates
    <2>4. Room!Pause(s)
      BY <1>1, <1>4, <1>5, <2>3, RoomPause
    <2> QED
      BY <2>4 DEF Room!Next
  <1>8. CASE action = "resume"
    <2>1. row.state = "paused" /\ next = row.pauseOrigin /\ next # NULL
      BY <1>2, <1>8 DEF NextState
    <2>2. /\ new.state \in {"open", "together"} /\ row.pausedAt \in Int
          /\ new.endsAt = row.endsAt + (clock - row.pausedAt)
      BY <1>1, <1>3, <1>5, <1>8, <2>1 DEF Updated, Row, Timed
    <2>3. /\ PhaseOf(row) = "paused" /\ PhaseOf(new) = "running"
          /\ LeftOf(new, clock) = LeftOf(row, clock)
          /\ AwayOf(new, clock) = 0
      BY <1>1, <2>1, <2>2 DEF PhaseOf, LeftOf, AwayOf, Live, LiveStates
    <2>4. Room!Resume(s)
      BY <1>1, <1>4, <1>5, <2>3, RoomResume
    <2> QED
      BY <2>4 DEF Room!Next
  <1>9. CASE action \in {"complete", "cancel"}
    <2>1. PICK outcome \in {"completed", "cancelled"} : outcome = new.state
      BY <1>2, <1>5, <1>9 DEF NextState
    <2>2. ~Live(new)
      BY <2>1 DEF Live, LiveStates
    <2>3. Room!Close(s, outcome)
      BY <1>1, <1>4, <1>5, <2>1, <2>2, RoomClose
    <2> QED
      BY <2>1, <2>3 DEF Room!Next
  <1> QED
    BY <1>6, <1>7, <1>8, <1>9 DEF Actions

-----------------------------------------------------------------------------
(* The refinement                                                          *)

(* The store implements the countdown room.                                *)
THEOREM RoomImplemented == Spec => ImplementsRoom
  <1>1. Init => Room!Init
    <2> SUFFICES ASSUME Init PROVE Room!Init
      OBVIOUS
    <2>1. \A s \in Sessions : session[s] = NoRow
      BY DEF Init
    <2> QED
      BY <2>1 DEF Room!Init, NoRow, Live, LiveStates
  <1>2. TypeOK /\ OneLiveSession /\ CompanyMatchesState /\ [Next]_vars
        => [Room!Next]_(Room!vars)
    <2> SUFFICES ASSUME TypeOK, OneLiveSession, CompanyMatchesState, [Next]_vars
                 PROVE  Room!Next \/ UNCHANGED Room!vars
      OBVIOUS
    <2>1. CASE Tick
      BY <2>1, RoomTick DEF Room!Next
    <2>2. CASE UNCHANGED <<session, clock>>
      BY <2>2 DEF Room!vars
    <2>3. ASSUME NEW a \in Accounts, CommandBy(a)
          PROVE  Room!Next \/ UNCHANGED Room!vars
      <3>1. ASSUME NEW k \in Keys, NEW s \in Sessions,
                   AddNote(a, k, s) \/ AddCheer(a, k, s)
            PROVE  UNCHANGED <<session, clock>>
        BY <3>1 DEF AddNote, AddCheer
      <3> QED
        BY <2>2, <2>3, <3>1, SweepImplements, StartImplements, ImportImplements,
           TransitionImplements
        DEF CommandBy
    <2> QED
      BY <2>1, <2>2, <2>3 DEF Next, vars
  <1> QED
    BY <1>1, <1>2, TypeCorrect, OneLive, Company, PTL
    DEF Spec, ImplementsRoom, Room!Spec
=============================================================================
