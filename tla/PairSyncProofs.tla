---------------------------- MODULE PairSyncProofs ----------------------------
(***************************************************************************)
(* Proofs about PairSync: the shapes of its tables, that commands settle   *)
(* once, that the cursor skips nothing but what another session overtook,  *)
(* and that of the rest the read model falls behind only by the race of    *)
(* the handler's reads, for any number of sessions, keys, events and open  *)
(* transactions, any page size and any faults.                             *)
(*                                                                         *)
(* SyncInv is the inductive invariant.  NumbersOK keeps the numbers of the *)
(* log: they are drawn apart, and the events of one session, two notes     *)
(* excepted, have theirs in the order of their commits, so that an event   *)
(* that commits below the cursor is overtaken.  The other parts follow a   *)
(* request: what is sent is the outbox (CommandsOK, AskedOK), what is      *)
(* answered is in the log above the cursor (AnswersOK, UnseenOK), the page *)
(* starts at the cursor and has all up to the next one (RequestOK), and    *)
(* the row of the current session is as old as the event the log had last  *)
(* when it was read (ReadOK).                                              *)
(***************************************************************************)
EXTENDS PairSync, FocusLogProofs, FiniteSetTheorems, WellFoundedInduction

-----------------------------------------------------------------------------
(* The server                                                              *)

(* A session of offline origin is over when the server hears of it.        *)
ImportsOver(rows, log) ==
  /\ \A s \in Sessions : rows[s].offline => ~Live(rows[s])
  /\ \A i \in 1 .. Len(log) : log[i].row.offline => ~Live(log[i].row)

(* A row that has no state is no row.                                      *)
Existing(rows) == \A s \in Sessions : rows[s].state = "none" => rows[s] = NoRow

(* An event that carries a row was not committed by a cheer.               *)
CheersCarryNothing(keys, log) ==
  \A a \in Accounts, k \in Keys : \A i \in 1 .. Len(log) :
    log[i].actor = a /\ log[i].key = k /\ Carries(log, i)
    => keys[a][k].op # "session.cheer"

(* A note carries no row.                                                  *)
NotesBare(log) ==
  \A i \in 1 .. Len(log) : log[i].type = "session.note_added" => ~Carries(log, i)

ServerInv ==
  /\ TypeOK /\ OneLiveSession
  /\ LogOK(session, events) /\ KeysOK(idem, events)
  /\ ImportsOver(session, events) /\ Existing(session)
  /\ CheersCarryNothing(idem, events) /\ NotesBare(events)

-----------------------------------------------------------------------------
(* The numbers                                                             *)

(* No number is drawn twice.                                               *)
Apart(log, num) == \A i, j \in 1 .. Len(log) : num[i] = num[j] => i = j

(* The events of a session, unless both are notes, have their numbers in   *)
(* the order of their commits.                                             *)
InLockOrder(log, num) ==
  \A i, j \in 1 .. Len(log) :
    /\ i < j /\ log[i].session = log[j].session
    /\ log[i].type # "session.note_added" \/ log[j].type # "session.note_added"
    => num[i] < num[j]

(* What an open transaction has drawn nobody else has.                     *)
OpenApart ==
  /\ drawn \subseteq Nat
  /\ \A b \in drawn : b + 2 =< serial
  /\ \A b \in drawn : \A i \in 1 .. Len(events) : number[i] =< b \/ number[i] > b + 2
  /\ \A b, c \in drawn : b = c \/ b + 2 =< c \/ c + 2 =< b

NumbersOK ==
  /\ serial \in Nat /\ number \in [1 .. Len(events) -> 1 .. serial]
  /\ Apart(events, number) /\ InLockOrder(events, number) /\ OpenApart

-----------------------------------------------------------------------------
(* The device                                                              *)

Under(k) == {i \in 1 .. Len(events) : events[i].actor = Me /\ events[i].key = k}

Named(s, i) == events[i].session = s /\ StateEvent(i)

(* A row that is the one of the last event about s up to n, or a later one.*)
UpTo(row, s, n) ==
  \A i \in 1 .. n :
    Named(s, i) => row = events[i].row \/ row.version > events[i].row.version

(* A row that is as new as every event about s that is numbered n or less  *)
(* and was not overtaken.                                                  *)
Shows(row, s, n) ==
  \A i \in 1 .. Len(events) :
    Named(s, i) /\ number[i] =< n /\ ~Overtaken(i)
    => row = events[i].row \/ row.version > events[i].row.version

(* A cursor the server may have given.                                     *)
CursorIs(n) == n = 0 \/ \E i \in 1 .. Len(events) : n = number[i]

Result == [key : Keys, outcome : {"applied", "refused", "later"}, at : Nat]

Stages == {"idle", "commands", "row", "company", "events", "reply", "history", "end"}

Call ==
  [ stage : Stages, todo : Seq(OutboxCommand), done : Seq(Result), from : Nat,
    page : SUBSET Nat, upto : Nat, current : Sessions \cup {NULL}, row : Row, rowAt : Nat,
    seenTo : Nat, throw : BOOLEAN, error : BOOLEAN, more : BOOLEAN ]

Write ==
  [ op : {"session.start", "session.import_solo"}, session : Sessions,
    started : Nat, completed : Nat ]

Caller ==
  [ pc : {"idle", "storing", "calling", "waiting", "woken"},
    start : MySessions \cup {NULL}, throw : BOOLEAN, unsaved : Write \cup {NULL} ]

DeviceTypes ==
  /\ local \in [Sessions -> Row]
  /\ notes \in [Sessions -> Seq(1 .. Len(events))]
  /\ outbox \in Seq(OutboxCommand) /\ orphan \in Seq(OutboxCommand)
  /\ cursor \in Nat /\ CursorIs(cursor)
  /\ issued \subseteq Keys \cup MySessions /\ refused \subseteq Keys
  /\ raced \subseteq Sessions

EngineTypes ==
  /\ call \in Call /\ user \in Caller
  /\ owner = "none" <=> call.stage = "idle"
  /\ owner = "user" => user.pc = "waiting"
  /\ owner = "loop" => loop = "waiting"
  /\ owner \in {"none", "user", "loop"}
  /\ loop \in {"away", "calling", "waiting", "woken", "listening"}
  /\ socket \in {"closed", "upgraded", "subscribed"}
  /\ hints \in 0 .. HubCapacity

(* Commands on their way are commands the device has minted; the sessions  *)
(* they create are its own; only cheers are postponed.                     *)
Minted(c) ==
  /\ c.key \in issued
  /\ c.op \in {"session.start", "session.import_solo"} =>
       c.session \in MySessions /\ c.session \in issued
  /\ c.op # "session.cheer" => c.after = 0

CommandsOK ==
  /\ \A i \in DOMAIN outbox : Minted(outbox[i])
  /\ \A i \in DOMAIN orphan : Minted(orphan[i])
  /\ \A i \in DOMAIN call.todo : Minted(call.todo[i])
  /\ \A i, j \in DOMAIN outbox :
       outbox[i].key = outbox[j].key => outbox[i].op = outbox[j].op
  /\ \A i \in DOMAIN outbox, j \in DOMAIN call.todo :
       outbox[i].key = call.todo[j].key => outbox[i].op = call.todo[j].op
  /\ \A k \in Keys : Under(k) # {} => k \in issued

(* What a request was answered.                                            *)
AnswerOK(r) ==
  /\ r.key \in issued
  /\ r.outcome = "applied" =>
       r.at \in Under(r.key) /\ (StateEvent(r.at) => number[r.at] > cursor)
  /\ r.outcome = "later" =>
       \A i \in DOMAIN outbox : outbox[i].key = r.key => outbox[i].op = "session.cheer"

AnswersOK == \A j \in DOMAIN call.done : AnswerOK(call.done[j])

(* A command that is still kept, unless it is a cheer, has no event the    *)
(* cursor has passed.                                                      *)
Unseen(c) == c.op # "session.cheer" => \A i \in Under(c.key) : number[i] > cursor

Asking == call.stage \in {"commands", "row", "company", "events", "reply"}

InRequest(k) ==
  \/ \E j \in DOMAIN call.todo : call.todo[j].key = k
  \/ \E j \in DOMAIN call.done : call.done[j].key = k

Untouched(k) == Under(k) = {} /\ \A j \in DOMAIN orphan : orphan[j].key # k

UnseenOK ==
  /\ \A i \in DOMAIN outbox : Unseen(outbox[i])
  /\ \A j \in DOMAIN call.todo : Unseen(call.todo[j])

(* A request asks for every command that may have been carried out.        *)
AskedOK ==
  Asking => \A i \in DOMAIN outbox : outbox[i].op # "session.cheer" =>
    InRequest(outbox[i].key) \/ Untouched(outbox[i].key)

(* The page ends where the next cursor is, and of the state events between *)
(* it misses only those that were overtaken.                               *)
PageOK ==
  /\ cursor =< call.upto /\ CursorIs(call.upto)
  /\ call.page \subseteq 1 .. Len(events)
  /\ \A i \in call.page : cursor < number[i] /\ number[i] =< call.upto
  /\ \A i \in 1 .. Len(events) :
       StateEvent(i) /\ cursor < number[i] /\ number[i] =< call.upto /\ ~Overtaken(i)
       => i \in call.page

(* The request under way starts at the cursor.                             *)
RequestOK ==
  /\ Asking => call.from = cursor
  /\ call.stage \in {"row", "company", "events", "reply"} => call.todo = << >>
  /\ call.stage = "commands" => call.current = NULL
  /\ call.stage = "reply" => PageOK

(* The cursor is the number of an event among the first n.                 *)
KnownAt(n) == cursor = 0 \/ \E i \in 1 .. n : cursor = number[i]

(* The row of the current session, and how old it may be.                  *)
ReadOK ==
  /\ call.row.offline => ~Live(call.row)
  /\ call.stage \in {"row", "company"} => call.current \in Sessions
  /\ \A s \in Sessions : call.current = s =>
       /\ session[s] # NoRow
       /\ call.stage \in {"company", "events", "reply"} =>
            /\ call.row.state # "none" /\ call.rowAt \in 0 .. Len(events)
            /\ KnownAt(call.rowAt)
       /\ call.stage = "company" =>
            /\ UpTo(call.row, s, call.rowAt)
            /\ \/ session[s] = call.row
               \/ \E i \in call.rowAt + 1 .. Len(events) : Named(s, i)
       /\ call.stage \in {"events", "reply"} =>
            /\ call.seenTo \in call.rowAt .. Len(events)
            /\ \/ UpTo(call.row, s, call.rowAt)
               \/ \E i \in call.rowAt + 1 .. call.seenTo : Named(s, i)

(* Sessions with an id of this device are its own; a live row of offline   *)
(* origin has not left it.                                                 *)
OwnOK ==
  /\ \A s \in MySessions : session[s] # NoRow => session[s].startedBy = Me /\ s \in issued
  /\ \A s \in Sessions : local[s].offline /\ Live(local[s]) =>
       /\ s \in MySessions /\ s \in issued
       /\ local[s].startedAt \in Nat
       /\ local[s].state = "paused" =>
            local[s].pausedAt \in Int /\ local[s].pauseOrigin # NULL
  /\ user.pc = "storing" =>
       /\ user.unsaved \in Write
       /\ user.unsaved.session \in MySessions /\ user.unsaved.session \in issued

(* ReadModelBehindOnlyByRace, session by session.                          *)
ShownOK ==
  \A s \in Sessions : local[s] # NoRow /\ s \notin raced => Shows(local[s], s, cursor)

DeviceInv ==
  /\ DeviceTypes /\ EngineTypes
  /\ CommandsOK /\ AnswersOK /\ UnseenOK /\ AskedOK /\ RequestOK /\ ReadOK /\ OwnOK
  /\ CommandsSettleOnce /\ NothingSkipped /\ ShownOK

SyncInv == ServerInv /\ NumbersOK /\ DeviceInv

-----------------------------------------------------------------------------
(* Induction, and what Max and Picked return                               *)

(* The library's induction theorems take a predicate as a parameter.  That *)
(* the naturals are well-founded is a statement about sets, from which     *)
(* induction follows for a set.                                            *)
Below == {m \in Nat \X Nat : m[1] < m[2]}

(* A set of naturals has a least element.                                  *)
LEMMA LeastElement ==
  ASSUME NEW T \in SUBSET Nat, T # {}
  PROVE  \E x \in T : \A y \in T : x =< y
  <1>1. IsWellFoundedOn(Below, Nat)
    BY NatLessThanWellFounded, Zenon DEF OpToRel, Below
  <1>2. PICK x \in T : \A y \in T : ~ (<<y, x>> \in Below)
    BY <1>1, WFMin
  <1>3. ASSUME NEW y \in T
        PROVE  x =< y
    <2>1. <<y, x>> \notin Below /\ x \in Nat /\ y \in Nat
      BY <1>2
    <2> QED
      BY <2>1 DEF Below
  <1> QED
    BY <1>3

(* Induction up to n, over a set.                                          *)
LEMMA SetInduction ==
  ASSUME NEW T, NEW n \in Nat, 0 \in T,
         \A m \in 0 .. n - 1 : m \in T => m + 1 \in T
  PROVE  n \in T
  <1> DEFINE U == (0 .. n) \ T
  <1> SUFFICES ASSUME U # {} PROVE FALSE
    OBVIOUS
  <1>1. U \in SUBSET Nat
    OBVIOUS
  <1>2. PICK x \in U : \A y \in U : x =< y
    <2> HIDE DEF U
    <2> QED
      BY <1>1, LeastElement
  <1>3. x \in 1 .. n /\ x - 1 \in 0 .. n - 1 /\ x - 1 \notin U
    BY <1>2
  <1>4. x - 1 \in T /\ (x - 1) + 1 = x
    BY <1>3
  <1> QED
    BY <1>3, <1>4

(* A bounded set of positions has a last one.                              *)
LEMMA MaxPosition ==
  ASSUME NEW n \in Nat, NEW T \in SUBSET (1 .. n), T # {}
  PROVE  Max(T) \in T /\ \A y \in T : y =< Max(T)
  <1> DEFINE U == {n - x : x \in T}
  <1>1. \A x \in T : n - x \in Nat
    OBVIOUS
  <1>2. U \in SUBSET Nat
    BY <1>1
  <1>3. U # {}
    OBVIOUS
  <1>4. PICK x \in U : \A y \in U : x =< y
    <2> HIDE DEF U
    <2> QED
      BY <1>2, <1>3, LeastElement
  <1>5. \E z \in T : \A y \in T : z >= y
    BY <1>4
  <1> QED
    BY <1>5 DEF Max

(* The larger of two numbers.                                              *)
LEMMA MaxOfTwo ==
  ASSUME NEW m \in Nat, NEW n \in Nat
  PROVE  Max({m, n}) \in Nat /\ m =< Max({m, n}) /\ n =< Max({m, n})
  <1>1. \E z \in {m, n} : \A y \in {m, n} : z >= y
    OBVIOUS
  <1>2. Max({m, n}) \in {m, n} /\ \A y \in {m, n} : Max({m, n}) >= y
    BY <1>1 DEF Max
  <1> QED
    BY <1>2

(* Picked is well defined: its recursion has a solution.                   *)
LEMMA PickedRecursion ==
  ASSUME NEW S, NEW rows \in Seq(S), NEW I
  PROVE  \E F : /\ Picked(rows, I) = F[Len(rows)]
                /\ F[0] = << >>
                /\ \A n \in 1 .. Len(rows) :
                     F[n] = IF n \in I THEN Append(F[n - 1], rows[n]) ELSE F[n - 1]
  <1> DEFINE N == Len(rows)
             Step(f, n) == IF n = 0 THEN << >>
                           ELSE IF n \in I THEN Append(f[n - 1], rows[n]) ELSE f[n - 1]
             F == CHOOSE f : f = [n \in 0 .. N |-> Step(f, n)]
             T == {m \in 0 .. N : \E f : f = [n \in 0 .. m |-> Step(f, n)]}
  <1>0. N \in Nat
    OBVIOUS
  <1>1. 0 \in T
    <2>1. [n \in 0 .. 0 |-> << >>] = [n \in 0 .. 0 |-> Step([i \in 0 .. 0 |-> << >>], n)]
      OBVIOUS
    <2>2. \E f : f = [n \in 0 .. 0 |-> Step(f, n)]
      <3> HIDE DEF Step
      <3> QED
        BY <2>1, Zenon
    <2> QED
      BY <1>0, <2>2
  <1>2. ASSUME NEW m \in 0 .. N - 1, m \in T
        PROVE  m + 1 \in T
    <2>1. PICK f : f = [n \in 0 .. m |-> Step(f, n)]
      BY <1>2
    <2> DEFINE g == [n \in 0 .. m + 1 |-> IF n = m + 1 THEN Step(f, m + 1) ELSE f[n]]
    <2>2. \A n \in 0 .. m : g[n] = f[n] /\ f[n] = Step(f, n)
      <3>1. \A n \in 0 .. m : f[n] = Step(f, n)
        BY <2>1, Zenon
      <3> HIDE DEF Step
      <3> QED
        BY <3>1, <1>0
    <2>3. ASSUME NEW n \in 0 .. m + 1
          PROVE  g[n] = Step(g, n)
      <3>1. n \in 0 .. m => g[n] = Step(f, n)
        BY <2>2
      <3>2. n = m + 1 => g[n] = Step(f, n)
        OBVIOUS
      <3>3. n # 0 => f[n - 1] = g[n - 1]
        BY <2>2
      <3>4. Step(f, n) = Step(g, n)
        <4> HIDE DEF g
        <4> QED
          BY <3>3
      <3> HIDE DEF g, Step
      <3> QED
        BY <3>1, <3>2, <3>4
    <2>4. g = [n \in 0 .. m + 1 |-> Step(g, n)]
      <3>1. g = [n \in 0 .. m + 1 |-> g[n]]
        OBVIOUS
      <3> HIDE DEF g, Step
      <3> QED
        BY <2>3, <3>1
    <2> HIDE DEF g, Step
    <2> QED
      BY <2>4, <1>0
  <1>3. N \in T
    <2> HIDE DEF T
    <2> QED
      BY <1>0, <1>1, <1>2, SetInduction
  <1>4. \E f : f = [n \in 0 .. N |-> Step(f, n)]
    BY <1>3
  <1>5. F = [n \in 0 .. N |-> Step(F, n)]
    <2> HIDE DEF Step
    <2> QED
      BY <1>4, Zenon
  <1>6. \A n \in 0 .. N : F[n] = Step(F, n)
    <2> HIDE DEF F, Step
    <2> QED
      BY <1>5, Zenon
  <1>7. Picked(rows, I) = F[N]
    BY Zenon DEF Picked
  <1> HIDE DEF F
  <1>8. /\ F[0] = << >>
        /\ \A n \in 1 .. N :
             F[n] = IF n \in I THEN Append(F[n - 1], rows[n]) ELSE F[n - 1]
    BY <1>0, <1>6
  <1> QED
    BY <1>7, <1>8

(* Picked returns the rows at the given positions and no others.           *)
LEMMA PickedRows ==
  ASSUME NEW S, NEW rows \in Seq(S), NEW I
  PROVE  /\ Picked(rows, I) \in Seq(S)
         /\ \A j \in DOMAIN Picked(rows, I) :
              \E i \in DOMAIN rows \cap I : Picked(rows, I)[j] = rows[i]
         /\ \A i \in DOMAIN rows \cap I :
              \E j \in DOMAIN Picked(rows, I) : Picked(rows, I)[j] = rows[i]
  <1> DEFINE N == Len(rows)
  <1>0. N \in Nat /\ DOMAIN rows = 1 .. N /\ \A n \in 1 .. N : rows[n] \in S
    OBVIOUS
  <1>1. PICK F : /\ Picked(rows, I) = F[N]
                 /\ F[0] = << >>
                 /\ \A n \in 1 .. N :
                      F[n] = IF n \in I THEN Append(F[n - 1], rows[n]) ELSE F[n - 1]
    BY PickedRecursion
  <1> DEFINE Good(n) ==
        /\ F[n] \in Seq(S)
        /\ \A j \in DOMAIN F[n] : \E i \in DOMAIN rows \cap I : F[n][j] = rows[i]
        /\ \A i \in (1 .. n) \cap I : \E j \in DOMAIN F[n] : F[n][j] = rows[i]
  <1>2. Good(0)
    BY <1>1
  <1>3. ASSUME NEW m \in 0 .. N - 1, Good(m)
        PROVE  Good(m + 1)
    <2>0. m + 1 \in 1 .. N /\ (m + 1) - 1 = m
      BY <1>0
    <2>1. F[m + 1] = IF m + 1 \in I THEN Append(F[m], rows[m + 1]) ELSE F[m]
      BY <2>0, <1>1
    <2>2. CASE m + 1 \notin I
      <3>1. F[m + 1] = F[m] /\ (1 .. m + 1) \cap I = (1 .. m) \cap I
        BY <2>1, <2>2
      <3> QED
        BY <3>1, <1>3
    <2>3. CASE m + 1 \in I
      <3> DEFINE a == F[m]
                 b == F[m + 1]
                 e == rows[m + 1]
      <3>1. a \in Seq(S) /\ e \in S /\ b = Append(a, e)
        BY <2>0, <2>1, <2>3, <1>0, <1>3
      <3>2. /\ b \in Seq(S) /\ b[Len(a) + 1] = e
            /\ Len(a) \in Nat /\ DOMAIN a = 1 .. Len(a) /\ DOMAIN b = 1 .. Len(a) + 1
            /\ \A j \in DOMAIN a : b[j] = a[j]
        <4> HIDE DEF a, b, e
        <4> QED
          BY <3>1
      <3>3. ASSUME NEW j \in DOMAIN b
            PROVE  \E i \in DOMAIN rows \cap I : b[j] = rows[i]
        <4>1. CASE j \in DOMAIN a
          BY <4>1, <3>2, <1>3
        <4>2. CASE j = Len(a) + 1
          BY <4>2, <3>2, <2>3, <2>0, <1>0
        <4>3. j \in DOMAIN a \/ j = Len(a) + 1
          <5> HIDE DEF a, b
          <5> QED
            BY <3>2
        <4> QED
          BY <4>1, <4>2, <4>3
      <3>4. ASSUME NEW i \in (1 .. m + 1) \cap I
            PROVE  \E j \in DOMAIN b : b[j] = rows[i]
        <4>1. CASE i = m + 1
          <5>1. Len(a) + 1 \in DOMAIN b
            <6> HIDE DEF a, b
            <6> QED
              BY <3>2
          <5> QED
            BY <4>1, <5>1, <3>2
        <4>2. CASE i \in 1 .. m
          <5>1. PICK j \in DOMAIN a : a[j] = rows[i]
            BY <4>2, <1>3
          <5>2. j \in DOMAIN b /\ b[j] = a[j]
            <6> HIDE DEF a, b
            <6> QED
              BY <3>2
          <5> QED
            BY <5>1, <5>2
        <4> QED
          BY <4>1, <4>2
      <3> QED
        BY <3>2, <3>3, <3>4
    <2> QED
      BY <2>2, <2>3
  <1>4. Good(N)
    <2> DEFINE T == {n \in 0 .. N : Good(n)}
    <2>1. 0 \in T
      BY <1>0, <1>2
    <2>2. \A m \in 0 .. N - 1 : m \in T => m + 1 \in T
      <3> HIDE DEF Good
      <3>1. \A m \in 0 .. N - 1 : m + 1 \in 0 .. N
        BY <1>0
      <3> QED
        BY <1>3, <3>1
    <2>3. N \in T
      <3> HIDE DEF T, Good
      <3> QED
        BY <2>1, <2>2, <1>0, SetInduction
    <2> QED
      BY <2>3
  <1> QED
    BY <1>0, <1>1, <1>4

-----------------------------------------------------------------------------
(* What a step of the store does to rows and log                           *)

Extra(rows, log) == ImportsOver(rows, log) /\ Existing(rows)

(* The log is extended, rows stay and keep their starter, and a row that   *)
(* changes is announced.                                                   *)
Grown(rows, log, rows2, log2) ==
  /\ Len(log) =< Len(log2)
  /\ \A i \in 1 .. Len(log) : log2[i] = log[i]
  /\ \A t \in Sessions : rows[t] # NoRow =>
       rows2[t] # NoRow /\ rows2[t].startedBy = rows[t].startedBy
  /\ \A t \in Sessions : rows2[t] # rows[t] =>
       \E i \in Len(log) + 1 .. Len(log2) : log2[i].session = t /\ Carries(log2, i)

(* One growth after another is a growth.                                   *)
LEMMA GrownTwice ==
  ASSUME NEW rows, NEW log \in Seq(Event), NEW rows2, NEW log2 \in Seq(Event),
         NEW rows3, NEW log3 \in Seq(Event),
         Grown(rows, log, rows2, log2), Grown(rows2, log2, rows3, log3)
  PROVE  Grown(rows, log, rows3, log3)
  <1>0. Len(log) \in Nat /\ Len(log2) \in Nat /\ Len(log3) \in Nat
    OBVIOUS
  <1>1. /\ Len(log) =< Len(log3)
        /\ \A i \in 1 .. Len(log) : log3[i] = log[i]
    BY <1>0 DEF Grown
  <1>2. \A t \in Sessions : rows[t] # NoRow =>
          rows3[t] # NoRow /\ rows3[t].startedBy = rows[t].startedBy
    BY DEF Grown
  <1>3. ASSUME NEW t \in Sessions, rows3[t] # rows[t]
        PROVE  \E i \in Len(log) + 1 .. Len(log3) : log3[i].session = t /\ Carries(log3, i)
    <2>1. CASE rows3[t] # rows2[t]
      <3>1. PICK i \in Len(log2) + 1 .. Len(log3) : log3[i].session = t /\ Carries(log3, i)
        BY <2>1 DEF Grown
      <3>2. i \in Len(log) + 1 .. Len(log3)
        BY <1>0 DEF Grown
      <3> QED
        BY <3>1, <3>2
    <2>2. CASE rows2[t] # rows[t]
      <3>1. PICK i \in Len(log) + 1 .. Len(log2) : log2[i].session = t /\ Carries(log2, i)
        BY <2>2 DEF Grown
      <3>2. i \in 1 .. Len(log2) /\ i \in Len(log) + 1 .. Len(log3)
        BY <1>0 DEF Grown
      <3>3. log3[i] = log2[i]
        BY <3>2 DEF Grown
      <3> QED
        BY <3>1, <3>2, <3>3 DEF Carries
    <2> QED
      BY <1>3, <2>1, <2>2
  <1> QED
    BY <1>1, <1>2, <1>3 DEF Grown

(* A row is written and its event appended.                                *)
LEMMA WriteGrows ==
  ASSUME NEW rows \in [Sessions -> Row], NEW log \in Seq(Event),
         NEW s \in Sessions, NEW new \in Row, NEW e \in Event,
         Extra(rows, log),
         e.session = s, e.row = new, new.state # "none",
         rows[s] # NoRow => new.startedBy = rows[s].startedBy,
         new.offline => ~Live(new)
  PROVE  /\ Extra([rows EXCEPT ![s] = new], Append(log, e))
         /\ Grown(rows, log, [rows EXCEPT ![s] = new], Append(log, e))
         /\ \A t \in Sessions : t # s => [rows EXCEPT ![s] = new][t] = rows[t]
  <1> DEFINE rows2 == [rows EXCEPT ![s] = new]
             log2 == Append(log, e)
             n == Len(log)
  <1>1. /\ Len(log2) = n + 1 /\ log2[n + 1] = e /\ n \in Nat
        /\ \A i \in 1 .. n : log2[i] = log[i]
    BY AppendFacts
  <1>2. rows2[s] = new /\ \A t \in Sessions : t # s => rows2[t] = rows[t]
    OBVIOUS
  <1>3. new # NoRow
    BY DEF NoRow
  <1> HIDE DEF rows2, log2, n
  <1>4. ImportsOver(rows2, log2)
    <2>1. \A t \in Sessions : rows2[t].offline => ~Live(rows2[t])
      BY <1>2 DEF Extra, ImportsOver
    <2>2. \A i \in 1 .. Len(log2) : log2[i].row.offline => ~Live(log2[i].row)
      <3> SUFFICES ASSUME NEW i \in 1 .. Len(log2)
                   PROVE  log2[i].row.offline => ~Live(log2[i].row)
        OBVIOUS
      <3>1. i = n + 1 \/ i \in 1 .. n
        BY <1>1
      <3> QED
        BY <1>1, <3>1 DEF Extra, ImportsOver, n
    <2> QED
      BY <2>1, <2>2 DEF ImportsOver
  <1>5. Grown(rows, log, rows2, log2)
    <2>1. ASSUME NEW t \in Sessions, rows2[t] # rows[t]
          PROVE  \E i \in n + 1 .. Len(log2) : log2[i].session = t /\ Carries(log2, i)
      <3>1. t = s
        BY <1>2, <2>1
      <3>2. log2[n + 1].session = t /\ Carries(log2, n + 1)
        BY <1>1, <3>1 DEF Carries
      <3>3. n + 1 \in n + 1 .. Len(log2)
        BY <1>1
      <3> QED
        BY <3>2, <3>3
    <2>2. \A t \in Sessions : rows[t] # NoRow =>
            rows2[t] # NoRow /\ rows2[t].startedBy = rows[t].startedBy
      BY <1>2, <1>3
    <2>3. n =< Len(log2) /\ \A i \in 1 .. n : log2[i] = log[i]
      BY <1>1
    <2> QED
      BY <2>1, <2>2, <2>3 DEF Grown, n
  <1>6. Existing(rows2)
    BY <1>2 DEF Extra, Existing
  <1> QED
    BY <1>2, <1>4, <1>5, <1>6 DEF Extra, rows2, log2

(* An event that carries no row is appended.                               *)
LEMMA RemarkGrows ==
  ASSUME NEW rows \in [Sessions -> Row], NEW log \in Seq(Event), NEW e \in Event,
         Extra(rows, log), LogOK(rows, log), e.row = NoRow, rows[e.session] # NoRow
  PROVE  /\ Extra(rows, Append(log, e))
         /\ Grown(rows, log, rows, Append(log, e))
  <1> DEFINE log2 == Append(log, e)
             n == Len(log)
  <1>1. /\ Len(log2) = n + 1 /\ log2[n + 1] = e /\ n \in Nat
        /\ \A i \in 1 .. n : log2[i] = log[i]
    BY AppendFacts
  <1>2. e.session \in Sessions /\ ~NoRow.offline
    BY DEF Event, NoRow
  <1> HIDE DEF log2, n
  <1>3. ImportsOver(rows, log2)
    <2> SUFFICES ASSUME NEW i \in 1 .. Len(log2)
                 PROVE  log2[i].row.offline => ~Live(log2[i].row)
      BY DEF ImportsOver, Extra
    <2>1. i = n + 1 \/ i \in 1 .. n
      BY <1>1
    <2> QED
      BY <1>1, <1>2, <2>1 DEF Extra, ImportsOver, n
  <1>4. Grown(rows, log, rows, log2)
    BY <1>1 DEF Grown, n
  <1> QED
    BY <1>3, <1>4 DEF Extra, log2

(* The sweep of a pair grows the log by keyless events and makes no row.   *)
LEMMA SweepGrows ==
  ASSUME ServerInv, NEW p \in Pairs
  PROVE  /\ Extra(Swept(p), events \o SweptEvents(p))
         /\ Grown(session, events, Swept(p), events \o SweptEvents(p))
         /\ \A t \in Sessions : session[t] = NoRow => Swept(p)[t] = NoRow
         /\ \A i \in Len(events) + 1 .. Len(events \o SweptEvents(p)) :
              (events \o SweptEvents(p))[i].key = NULL
  <1>0. /\ session \in [Sessions -> Row] /\ events \in Seq(Event)
        /\ Extra(session, events) /\ TypeOK /\ OneLiveSession
    BY DEF ServerInv, TypeOK, Extra
  <1>1. CASE \A s \in Sessions : ~Due(p, s)
    <2>1. Swept(p) = session /\ events \o SweptEvents(p) = events
      BY <1>0, <1>1, SweepIsIdle
    <2>2. Grown(session, events, session, events)
      BY <1>0 DEF Grown
    <2>3. Len(events) \in Nat
      BY <1>0
    <2> QED
      BY <1>0, <2>1, <2>2, <2>3
  <1>2. CASE \E s \in Sessions : Due(p, s)
    <2>1. PICK s \in Sessions : Due(p, s)
      BY <1>2
    <2> DEFINE new == Closed(session[s])
               e == SweptEvent(p, s)
    <2>2. /\ Swept(p) = [session EXCEPT ![s] = new]
          /\ events \o SweptEvents(p) = Append(events, e)
      BY <1>0, <2>1, SweepIsWrite
    <2>3. /\ e \in Event /\ e.session = s /\ e.row = new /\ e.key = NULL
          /\ new \in Row /\ new.state # "none"
      BY <1>0, <2>1, SweptEventFacts
    <2>4. new.startedBy = session[s].startedBy /\ ~Live(new)
      BY <1>0, ClosedFacts
    <2>5. session[s] # NoRow
      <3>1. Live(session[s]) /\ ~Live(NoRow)
        BY <2>1, DueLive DEF Live, LiveStates, NoRow
      <3> QED
        BY <3>1
    <2> HIDE DEF new, e
    <2>6. /\ Extra(Swept(p), events \o SweptEvents(p))
          /\ Grown(session, events, Swept(p), events \o SweptEvents(p))
      <3>1. /\ Extra([session EXCEPT ![s] = new], Append(events, e))
            /\ Grown(session, events, [session EXCEPT ![s] = new], Append(events, e))
        BY <1>0, <2>3, <2>4, WriteGrows
      <3> QED
        BY <2>2, <3>1
    <2>7. \A t \in Sessions : session[t] = NoRow => Swept(p)[t] = NoRow
      BY <1>0, <2>2, <2>5
    <2>8. Len(Append(events, e)) = Len(events) + 1 /\ Append(events, e)[Len(events) + 1] = e
      BY <1>0, <2>3, AppendFacts
    <2>9. Len(events) \in Nat
      BY <1>0
    <2> QED
      BY <2>2, <2>3, <2>6, <2>7, <2>8, <2>9
  <1> QED
    BY <1>1, <1>2

(* A command under a key: its own event comes last, any other one has no   *)
(* key, and only a start and an import make a row, with its author as the  *)
(* starter.                                                                *)
Effect(a, k, s, op) ==
  /\ Extra(session', events')
  /\ Grown(session, events, session', events')
  /\ Len(events') > Len(events)
  /\ events'[Len(events')].actor = a /\ events'[Len(events')].key = k
  /\ op = "session.cheer" => ~Carries(events', Len(events'))
  /\ \A i \in Len(events) + 1 .. Len(events') - 1 : events'[i].key = NULL
  /\ \A t \in Sessions : session[t] = NoRow /\ session'[t] # NoRow =>
       /\ t = s /\ session'[t].startedBy = a
       /\ op \in {"session.start", "session.import_solo"}

(* One written row and its event, after growth by keyless events.          *)
LEMMA WriteEffect ==
  ASSUME NEW rows \in [Sessions -> Row], NEW log \in Seq(Event),
         session \in [Sessions -> Row], events \in Seq(Event),
         Extra(rows, log), Grown(session, events, rows, log),
         \A t \in Sessions : session[t] = NoRow => rows[t] = NoRow,
         \A i \in Len(events) + 1 .. Len(log) : log[i].key = NULL,
         NEW a, NEW k, NEW s \in Sessions, NEW op, NEW new \in Row, NEW e \in Event,
         EventBy(e, a, k, s), e.row = new, new.state # "none", op # "session.cheer",
         rows[s] # NoRow => new.startedBy = rows[s].startedBy,
         rows[s] = NoRow => new.startedBy = a /\ op \in {"session.start", "session.import_solo"},
         new.offline => ~Live(new),
         session' = [rows EXCEPT ![s] = new], events' = Append(log, e)
  PROVE  Effect(a, k, s, op)
  <1>0. e.session = s /\ e.actor = a /\ e.key = k
    BY DEF EventBy
  <1>1. /\ Extra(session', events') /\ Grown(rows, log, session', events')
        /\ \A t \in Sessions : t # s => session'[t] = rows[t]
    BY <1>0, WriteGrows
  <1>2. session'[s] = new
    OBVIOUS
  <1>3. /\ events' \in Seq(Event) /\ Len(log) \in Nat /\ Len(events) \in Nat
        /\ Len(events') = Len(log) + 1 /\ events'[Len(log) + 1] = e
        /\ \A i \in 1 .. Len(log) : events'[i] = log[i]
    BY AppendFacts
  <1>4. Len(events) =< Len(log)
    BY DEF Grown
  <1>5. Grown(session, events, session', events')
    <2>1. PICK r1, l1, r2, l2 : r1 = session /\ l1 = events /\ r2 = session' /\ l2 = events'
      OBVIOUS
    <2>2. Grown(r1, l1, rows, log) /\ Grown(rows, log, r2, l2)
      BY <1>1, <2>1
    <2>3. l1 \in Seq(Event) /\ l2 \in Seq(Event)
      BY <1>3, <2>1
    <2>4. Grown(r1, l1, r2, l2)
      BY <2>2, <2>3, GrownTwice
    <2> QED
      BY <2>1, <2>4
  <1>6. \A i \in Len(events) + 1 .. Len(events') - 1 : events'[i].key = NULL
    BY <1>3, <1>4
  <1>7. Len(events') > Len(events) /\ events'[Len(events')] = e
    BY <1>3, <1>4
  <1>8. \A t \in Sessions : session[t] = NoRow /\ session'[t] # NoRow =>
          /\ t = s /\ session'[t].startedBy = a
          /\ op \in {"session.start", "session.import_solo"}
    BY <1>1, <1>2
  <1> QED
    BY <1>0, <1>1, <1>5, <1>6, <1>7, <1>8 DEF Effect

(* A remark appends its event.                                             *)
LEMMA RemarkEffect ==
  ASSUME ServerInv, NEW a, NEW k, NEW s \in Sessions, NEW op, NEW e \in Event,
         EventBy(e, a, k, s), e.row = NoRow, session[s].pair = PairOf[a],
         session' = session, events' = Append(events, e)
  PROVE  Effect(a, k, s, op)
  <1>0. /\ e.session = s /\ e.actor = a /\ e.key = k
        /\ session \in [Sessions -> Row] /\ events \in Seq(Event)
        /\ Extra(session, events) /\ LogOK(session, events)
    BY DEF EventBy, ServerInv, TypeOK, Extra
  <1>1. session[s] # NoRow
    BY StoreAssumption DEF EventBy, NoRow
  <1>2. Extra(session', events') /\ Grown(session, events, session', events')
    BY <1>0, <1>1, RemarkGrows
  <1>3. /\ Len(events) \in Nat /\ Len(events') = Len(events) + 1
        /\ events'[Len(events) + 1] = e
    BY <1>0, AppendFacts
  <1>4. ~Carries(events', Len(events'))
    BY <1>3 DEF Carries, NoRow
  <1> QED
    BY <1>0, <1>2, <1>3, <1>4 DEF Effect

(* The operation a command stores its key under.                           *)
Stored(a, k, op) ==
  /\ op \in Operations /\ idem[a][k].op = NULL
  /\ \E row : row.op = op /\ idem' = [idem EXCEPT ![a][k] = row]

(* Every command has the effect of its operation.                          *)
LEMMA KeyedEffect ==
  ASSUME ServerInv, NEW a \in Accounts, NEW k \in Keys, NEW s \in Sessions
  PROVE  /\ StartSession(a, k, s) =>
              Effect(a, k, s, "session.start") /\ Stored(a, k, "session.start")
         /\ \A started, completed \in Nat :
              ImportSoloSession(a, k, s, started, completed) =>
                /\ Effect(a, k, s, "session.import_solo")
                /\ Stored(a, k, "session.import_solo")
         /\ \A v \in Nat, action \in Actions : transitionSession(a, k, s, v, action) =>
              /\ Effect(a, k, s, OperationOf[action])
              /\ Stored(a, k, OperationOf[action])
         /\ AddNote(a, k, s) =>
              Effect(a, k, s, "session.note") /\ Stored(a, k, "session.note")
         /\ AddCheer(a, k, s) =>
              Effect(a, k, s, "session.cheer") /\ Stored(a, k, "session.cheer")
  <1>0. /\ session \in [Sessions -> Row] /\ events \in Seq(Event) /\ TypeOK
        /\ Extra(session, events) /\ LogOK(session, events) /\ OneLiveSession
    BY DEF ServerInv, TypeOK, Extra
  <1>1. /\ Grown(session, events, session, events)
        /\ \A i \in Len(events) + 1 .. Len(events) : events[i].key = NULL
    BY <1>0 DEF Grown
  <1>2. ASSUME NEW op \in Operations, saveIdempotency(a, k, op)
        PROVE  Stored(a, k, op)
    BY <1>2 DEF saveIdempotency, Stored
  <1>3. ASSUME StartSession(a, k, s)
        PROVE  Effect(a, k, s, "session.start") /\ Stored(a, k, "session.start")
    <2> DEFINE rows == Swept(PairOf[a])
               log == events \o SweptEvents(PairOf[a])
    <2>1. PICK new \in Row, e \in Event :
            /\ EventBy(e, a, k, s) /\ e.row = new /\ new.state = "open"
            /\ rows[s] = NoRow
            /\ session' = [rows EXCEPT ![s] = new]
            /\ events' = Append(log, e)
      BY <1>0, <1>3, StartShape
    <2>2. PairOf[a] \in Pairs
      BY <2>1 DEF EventBy
    <2>3. rows \in [Sessions -> Row] /\ log \in Seq(Event)
      BY <1>0, <2>2, SweptType
    <2>4. session'[s].startedBy = a /\ ~session'[s].offline
      BY <1>0, <1>3 DEF StartSession, NoRow, Swept
    <2>5. /\ Extra(rows, log) /\ Grown(session, events, rows, log)
          /\ \A t \in Sessions : session[t] = NoRow => rows[t] = NoRow
          /\ \A i \in Len(events) + 1 .. Len(log) : log[i].key = NULL
      BY <2>2, SweepGrows
    <2> HIDE DEF rows, log
    <2>6. new.startedBy = a /\ ~new.offline
      BY <2>1, <2>3, <2>4
    <2>7. Effect(a, k, s, "session.start")
      BY <1>0, <2>1, <2>3, <2>5, <2>6, WriteEffect
    <2> QED
      BY <1>2, <1>3, <2>7 DEF StartSession, Operations
  <1>4. ASSUME NEW started \in Nat, NEW completed \in Nat,
               ImportSoloSession(a, k, s, started, completed)
        PROVE  /\ Effect(a, k, s, "session.import_solo")
               /\ Stored(a, k, "session.import_solo")
    <2>1. PICK new \in Row, e \in Event :
            /\ EventBy(e, a, k, s) /\ e.row = new /\ new.state = "completed"
            /\ session[s] = NoRow
            /\ session' = [session EXCEPT ![s] = new]
            /\ events' = Append(events, e)
      <3>1. TypeOK
        BY <1>0
      <3> QED
        BY <1>4, <3>1, ImportShape
    <2>2. session'[s].startedBy = a
      BY <1>0, <1>4 DEF ImportSoloSession, NoRow
    <2>3. new.startedBy = a /\ ~Live(new)
      BY <1>0, <2>1, <2>2 DEF Live, LiveStates
    <2>4. Effect(a, k, s, "session.import_solo")
      BY <1>0, <1>1, <2>1, <2>3, WriteEffect
    <2> QED
      BY <1>2, <1>4, <2>4 DEF ImportSoloSession, Operations
  <1>5. ASSUME NEW v \in Nat, NEW action \in Actions,
               transitionSession(a, k, s, v, action)
        PROVE  /\ Effect(a, k, s, OperationOf[action])
               /\ Stored(a, k, OperationOf[action])
    <2>1. PICK new \in Row, e \in Event :
            /\ EventBy(e, a, k, s) /\ e.row = new /\ new.state # "none"
            /\ session[s].pair = PairOf[a]
            /\ session' = [session EXCEPT ![s] = new]
            /\ events' = Append(events, e)
      BY <1>0, <1>5, TransitionShape
    <2>2. new = Updated(session[s], a, action,
                  NextState(session[s].state, session[s].pauseOrigin, action))
      <3>1. session'[s] = Updated(session[s], a, action,
                            NextState(session[s].state, session[s].pauseOrigin, action))
        BY <1>0, <1>5 DEF transitionSession
      <3> QED
        BY <1>0, <2>1, <3>1
    <2>3. session[s] \in Row /\ NextState(session[s].state, session[s].pauseOrigin, action) # "error"
      BY <1>0, <1>5 DEF transitionSession
    <2>4. Live(session[s]) /\ new.startedBy = session[s].startedBy
      BY <2>2, <2>3, UpdatedFacts
    <2>5. new.offline = session[s].offline
      BY <2>2, <2>3 DEF Updated, Actions, Row
    <2>6. ~new.offline
      BY <1>0, <2>4, <2>5 DEF Extra, ImportsOver
    <2>7. session[s] # NoRow
      BY <2>4 DEF Live, LiveStates, NoRow
    <2>8. OperationOf[action] \in Operations /\ OperationOf[action] # "session.cheer"
      BY DEF OperationOf, Actions, Operations
    <2>9. PICK op : op = OperationOf[action]
      OBVIOUS
    <2>10. Effect(a, k, s, op)
      BY <1>0, <1>1, <2>1, <2>4, <2>6, <2>7, <2>8, <2>9, WriteEffect
    <2> QED
      BY <1>2, <1>5, <2>8, <2>9, <2>10 DEF transitionSession
  <1>6. ASSUME AddNote(a, k, s)
        PROVE  Effect(a, k, s, "session.note") /\ Stored(a, k, "session.note")
    <2>1. PICK e \in Event :
            /\ EventBy(e, a, k, s) /\ e.row = NoRow
            /\ session[s].pair = PairOf[a]
            /\ session' = session /\ events' = Append(events, e)
      BY <1>0, <1>6, RemarkShape
    <2> QED
      BY <1>2, <1>6, <2>1, RemarkEffect DEF AddNote, Operations
  <1>7. ASSUME AddCheer(a, k, s)
        PROVE  Effect(a, k, s, "session.cheer") /\ Stored(a, k, "session.cheer")
    <2>1. PICK e \in Event :
            /\ EventBy(e, a, k, s) /\ e.row = NoRow
            /\ session[s].pair = PairOf[a]
            /\ session' = session /\ events' = Append(events, e)
      BY <1>0, <1>7, RemarkShape
    <2> QED
      BY <1>2, <1>7, <2>1, RemarkEffect DEF AddCheer, Operations
  <1> QED
    BY <1>3, <1>4, <1>5, <1>6, <1>7

(* What the sync handler applies is such a command of Me, whatever version *)
(* and instants the outbox kept for it.                                    *)
LEMMA ServerApplied ==
  ASSUME ServerInv, NEW c \in OutboxCommand, ServerApplies(c)
  PROVE  /\ Keyed(Me, c.key, c.session)
         /\ Effect(Me, c.key, c.session, c.op)
         /\ Stored(Me, c.key, c.op)
  <1>1. PICK k \in Keys, s \in Sessions, op \in Operations, v \in Nat \cup {NULL},
             started \in Nat, completed \in Nat :
          /\ k = c.key /\ s = c.session /\ op = c.op /\ v = c.version
          /\ started = c.started /\ completed = c.completed
    BY DEF OutboxCommand
  <1>2. Me \in Accounts
    BY SyncAssumption
  <1>3. \/ op = "session.start" /\ StartSession(Me, k, s)
        \/ op = "session.import_solo" /\ ImportSoloSession(Me, k, s, started, completed)
        \/ op = "session.note" /\ AddNote(Me, k, s)
        \/ op = "session.cheer" /\ AddCheer(Me, k, s)
        \/ \E action \in Actions :
             op = OperationOf[action] /\ transitionSession(Me, k, s, v, action)
    BY <1>1, Zenon DEF ServerApplies
  <1>4. CASE op = "session.start" /\ StartSession(Me, k, s)
    BY <1>1, <1>2, <1>4, KeyedEffect DEF Keyed
  <1>5. CASE op = "session.import_solo" /\ ImportSoloSession(Me, k, s, started, completed)
    BY <1>1, <1>2, <1>5, KeyedEffect DEF Keyed
  <1>6. CASE op = "session.note" /\ AddNote(Me, k, s)
    BY <1>1, <1>2, <1>6, KeyedEffect DEF Keyed
  <1>7. CASE op = "session.cheer" /\ AddCheer(Me, k, s)
    BY <1>1, <1>2, <1>7, KeyedEffect DEF Keyed
  <1>8. ASSUME NEW action \in Actions, op = OperationOf[action],
               transitionSession(Me, k, s, v, action)
        PROVE  Keyed(Me, k, s) /\ Effect(Me, k, s, op) /\ Stored(Me, k, op)
    <2>1. session[s].version = v
      BY <1>8, Zenon DEF transitionSession, VersionMatches
    <2>2. v \in Nat
      BY <2>1 DEF ServerInv, TypeOK, Row
    <2> QED
      BY <1>2, <1>8, <2>2, KeyedEffect DEF Keyed
  <1> QED
    BY <1>1, <1>3, <1>4, <1>5, <1>6, <1>7, <1>8

(* An appended event that carries a row is not a note.                     *)
LEMMA AppendKeepsNotes ==
  ASSUME NEW log \in Seq(Event), NotesBare(log), NEW e \in Event,
         e.type = "session.note_added" => e.row = NoRow
  PROVE  NotesBare(Append(log, e))
  <1> DEFINE log2 == Append(log, e)
             n == Len(log)
  <1>1. /\ Len(log2) = n + 1 /\ log2[n + 1] = e /\ n \in Nat
        /\ \A i \in 1 .. n : log2[i] = log[i]
    BY AppendFacts
  <1> HIDE DEF log2, n
  <1> SUFFICES ASSUME NEW i \in 1 .. Len(log2), log2[i].type = "session.note_added"
               PROVE  ~Carries(log2, i)
    BY DEF NotesBare, log2
  <1>2. CASE i \in 1 .. n
    <2>1. log2[i] = log[i]
      BY <1>1, <1>2
    <2> QED
      BY <1>2, <2>1 DEF NotesBare, Carries, n
  <1>3. CASE i = n + 1
    BY <1>1, <1>3 DEF Carries, NoRow
  <1> QED
    BY <1>1, <1>2, <1>3

(* Nor does the sweep append one.                                          *)
LEMMA SweepKeepsNotes ==
  ASSUME ServerInv, NEW p \in Pairs
  PROVE  /\ events \o SweptEvents(p) \in Seq(Event)
         /\ NotesBare(events \o SweptEvents(p))
  <1>0. /\ session \in [Sessions -> Row] /\ events \in Seq(Event) /\ TypeOK
        /\ OneLiveSession /\ NotesBare(events)
    BY DEF ServerInv, TypeOK
  <1>1. events \o SweptEvents(p) \in Seq(Event)
    BY <1>0, SweptType
  <1>2. CASE \A s \in Sessions : ~Due(p, s)
    <2>1. events \o SweptEvents(p) = events
      BY <1>0, <1>2, SweepIsIdle
    <2> QED
      BY <1>0, <1>1, <2>1
  <1>3. CASE \E s \in Sessions : Due(p, s)
    <2>1. PICK s \in Sessions : Due(p, s)
      BY <1>3
    <2>2. events \o SweptEvents(p) = Append(events, SweptEvent(p, s))
      BY <1>0, <2>1, SweepIsWrite
    <2>3. SweptEvent(p, s) \in Event
      BY <1>0, <2>1, SweptEventFacts
    <2>4. SweptEvent(p, s).type # "session.note_added"
      BY DEF SweptEvent
    <2>5. PICK e \in Event : e = SweptEvent(p, s)
      BY <2>3
    <2>6. NotesBare(Append(events, e))
      BY <1>0, <2>4, <2>5, AppendKeepsNotes
    <2> QED
      BY <1>1, <2>2, <2>5, <2>6
  <1> QED
    BY <1>2, <1>3

(* No command commits a note with a row.                                   *)
LEMMA NotesStep ==
  ASSUME ServerInv, TypeOK', AnyStep
  PROVE  NotesBare(events')
  <1>0. events \in Seq(Event) /\ events' \in Seq(Event) /\ NotesBare(events)
    BY DEF ServerInv, TypeOK
  <1>1. ASSUME NEW log \in Seq(Event), NotesBare(log), NEW e, events' = Append(log, e),
               e.type = "session.note_added" => e.row = NoRow
        PROVE  NotesBare(events')
    <2>1. e \in Event
      <3>1. Len(Append(log, e)) = Len(log) + 1 /\ Append(log, e)[Len(log) + 1] = e
        OBVIOUS
      <3>2. Len(log) \in Nat /\ Len(log) + 1 \in 1 .. Len(events')
        BY <1>1, <3>1
      <3> QED
        BY <1>0, <1>1, <3>1, <3>2
    <2> QED
      BY <1>1, <2>1, AppendKeepsNotes
  <1>2. CASE events' = events
    BY <1>0, <1>2
  <1>3. ASSUME NEW a \in Accounts, CurrentSession(a)
        PROVE  NotesBare(events')
    <2>1. PairOf[a] \in Pairs /\ events' = events \o SweptEvents(PairOf[a])
      BY <1>3, StoreAssumption DEF CurrentSession
    <2> QED
      BY <2>1, SweepKeepsNotes
  <1>4. ASSUME NEW a \in Accounts, NEW k \in Keys, NEW s \in Sessions, Keyed(a, k, s)
        PROVE  NotesBare(events')
    <2>1. CASE StartSession(a, k, s)
      <3>1. PairOf[a] \in Pairs
        BY <2>1, StoreAssumption DEF StartSession, requirePairMember
      <3>2. PICK log : log = events \o SweptEvents(PairOf[a])
        OBVIOUS
      <3>3. log \in Seq(Event) /\ NotesBare(log)
        BY <3>1, <3>2, SweepKeepsNotes
      <3>4. \E e : events' = Append(log, e) /\ e.type = "session.started"
        BY <2>1, <3>2 DEF StartSession, appendPairEvent
      <3> QED
        BY <1>1, <3>3, <3>4
    <2>2. CASE \E started, completed \in Nat : ImportSoloSession(a, k, s, started, completed)
      <3>1. \E e : events' = Append(events, e) /\ e.type = "session.completed"
        BY <2>2 DEF ImportSoloSession, appendPairEvent
      <3> QED
        BY <1>0, <1>1, <3>1
    <2>3. CASE \E v \in Nat, action \in Actions : transitionSession(a, k, s, v, action)
      <3>1. PICK v \in Nat, action \in Actions : transitionSession(a, k, s, v, action)
        BY <2>3
      <3>2. EventOf[action] # "session.note_added"
        BY DEF EventOf, OperationOf, Actions
      <3>3. \E e : events' = Append(events, e) /\ e.type = EventOf[action]
        BY <3>1 DEF transitionSession, appendPairEvent
      <3> QED
        BY <1>0, <1>1, <3>2, <3>3
    <2>4. CASE AddNote(a, k, s)
      <3>1. \E e : events' = Append(events, e) /\ e.row = NoRow
        BY <2>4 DEF AddNote, appendPairEvent
      <3> QED
        BY <1>0, <1>1, <3>1
    <2>5. CASE AddCheer(a, k, s)
      <3>1. \E e : events' = Append(events, e) /\ e.row = NoRow
        BY <2>5 DEF AddCheer, appendPairEvent
      <3> QED
        BY <1>0, <1>1, <3>1
    <2> QED
      BY <1>4, <2>1, <2>2, <2>3, <2>4, <2>5 DEF Keyed
  <1> QED
    BY <1>2, <1>3, <1>4 DEF AnyStep, Tick, vars

(* A command keeps the server's part of the invariant.                     *)
LEMMA CommandKeepsServer ==
  ASSUME ServerInv, NEW a \in Accounts, NEW k \in Keys, NEW s \in Sessions,
         NEW op \in Operations,
         Keyed(a, k, s), Effect(a, k, s, op), Stored(a, k, op)
  PROVE  ServerInv'
  <1>1. AnyStep
    BY DEF AnyStep
  <1>2. TypeOK' /\ OneLiveSession' /\ LogOK(session, events)' /\ KeysOK(idem', events')
    BY <1>1, TypeStep, OneLiveStep, LogStep, KeysStep DEF ServerInv
  <1>3. Extra(session', events')
    BY DEF Effect
  <1>4. PICK keys, log, log2 : keys = idem' /\ log = events /\ log2 = events'
    OBVIOUS
  <1>5. /\ log \in Seq(Event) /\ log2 \in Seq(Event)
        /\ idem \in [Accounts -> [Keys -> KeyRow]]
    BY <1>2, <1>4 DEF ServerInv, TypeOK
  <1>6. CheersCarryNothing(keys, log2)
    <2> SUFFICES ASSUME NEW b \in Accounts, NEW l \in Keys, NEW i \in 1 .. Len(log2),
                        log2[i].actor = b, log2[i].key = l, Carries(log2, i)
                 PROVE  keys[b][l].op # "session.cheer"
      BY DEF CheersCarryNothing
    <2>1. PICK row : row.op = op /\ idem' = [idem EXCEPT ![a][k] = row]
      BY DEF Stored
    <2>2. keys[a][k].op = op /\ (~(b = a /\ l = k) => keys[b][l] = idem[b][l])
      BY <1>4, <1>5, <2>1
    <2>3. idem[a][k].op = NULL
      BY DEF Stored
    <2>4. CASE i \in 1 .. Len(log)
      <3>1. log2[i] = log[i]
        BY <1>4, <2>4 DEF Effect, Grown
      <3>2. idem[b][l].op # "session.cheer"
        BY <1>4, <2>4, <3>1 DEF ServerInv, CheersCarryNothing, Carries
      <3>3. idem[b][l].op # NULL
        BY <1>4, <2>4, <3>1 DEF ServerInv, KeysOK
      <3> QED
        BY <2>2, <2>3, <3>2, <3>3
    <2>5. CASE i = Len(log2)
      <3>1. b = a /\ l = k /\ op # "session.cheer"
        BY <1>4, <2>5 DEF Effect
      <3> QED
        BY <2>2, <3>1
    <2>6. CASE i \in Len(log) + 1 .. Len(log2) - 1
      <3>1. log2[i].key = NULL
        BY <1>4, <2>6 DEF Effect
      <3> QED
        BY <3>1, StoreAssumption
    <2> QED
      BY <1>5, <2>4, <2>5, <2>6
  <1>7. NotesBare(events')
    BY <1>1, <1>2, NotesStep
  <1> QED
    BY <1>2, <1>3, <1>4, <1>6, <1>7 DEF ServerInv, Extra

(* So does the sweep of a read.                                            *)
LEMMA SweepKeepsServer ==
  ASSUME ServerInv, NEW a \in Accounts, CurrentSession(a)
  PROVE  /\ ServerInv'
         /\ Grown(session, events, session', events')
         /\ \A t \in Sessions : session[t] = NoRow => session'[t] = NoRow
         /\ \A i \in Len(events) + 1 .. Len(events') : events'[i].key = NULL
  <1>1. AnyStep
    BY DEF AnyStep
  <1>2. TypeOK' /\ OneLiveSession' /\ LogOK(session, events)' /\ KeysOK(idem', events')
    BY <1>1, TypeStep, OneLiveStep, LogStep, KeysStep DEF ServerInv
  <1>3. PairOf[a] \in Pairs
    BY StoreAssumption DEF CurrentSession
  <1>4. /\ session' = Swept(PairOf[a]) /\ events' = events \o SweptEvents(PairOf[a])
        /\ idem' = idem
    BY DEF CurrentSession
  <1>5. /\ Extra(session', events')
        /\ Grown(session, events, session', events')
        /\ \A t \in Sessions : session[t] = NoRow => session'[t] = NoRow
        /\ \A i \in Len(events) + 1 .. Len(events') : events'[i].key = NULL
    BY <1>3, <1>4, SweepGrows
  <1>6. PICK log, log2 : log = events /\ log2 = events'
    OBVIOUS
  <1>7. log \in Seq(Event) /\ log2 \in Seq(Event)
    BY <1>2, <1>6 DEF ServerInv, TypeOK
  <1>8. CheersCarryNothing(idem, log2)
    <2> SUFFICES ASSUME NEW b \in Accounts, NEW l \in Keys, NEW i \in 1 .. Len(log2),
                        log2[i].actor = b, log2[i].key = l, Carries(log2, i)
                 PROVE  idem[b][l].op # "session.cheer"
      BY DEF CheersCarryNothing
    <2>1. l # NULL
      BY StoreAssumption
    <2>2. i \in 1 .. Len(log)
      BY <1>5, <1>6, <1>7, <2>1
    <2>3. log2[i] = log[i]
      BY <1>5, <1>6, <2>2 DEF Grown
    <2> QED
      BY <1>6, <2>2, <2>3 DEF ServerInv, CheersCarryNothing, Carries
  <1>9. NotesBare(events')
    BY <1>1, <1>2, NotesStep
  <1> QED
    BY <1>2, <1>4, <1>5, <1>6, <1>8, <1>9 DEF ServerInv, Extra

-----------------------------------------------------------------------------
(* The store as the device sees it                                         *)

(* The store has grown, by events of Me under keys of K and events of      *)
(* others; a new session with an id of this device is its own.             *)
StoreServed(K) ==
  /\ ServerInv'
  /\ Grown(session, events, session', events')
  /\ \A i \in Len(events) + 1 .. Len(events') :
       events'[i].actor = Me /\ events'[i].key \in Keys => events'[i].key \in K
  /\ \A t \in MySessions : session[t] = NoRow /\ session'[t] # NoRow =>
       session'[t].startedBy = Me /\ t \in issued

(* A store that is left alone.                                             *)
LEMMA VarsServeStore ==
  ASSUME ServerInv, UNCHANGED vars
  PROVE  StoreServed({})
  <1>1. UNCHANGED <<session, events, idem>> /\ UNCHANGED vars
    BY DEF vars
  <1>2. TypeOK' /\ OneLiveSession' /\ LogOK(session', events') /\ KeysOK(idem', events')
    BY <1>1, TypeStep, OneLiveStep, LogStep, KeysStep DEF ServerInv, AnyStep
  <1>3. ServerInv'
    BY <1>1, <1>2 DEF ServerInv, ImportsOver, Existing, CheersCarryNothing, NotesBare,
                       Live, Carries
  <1>4. Len(events) \in Nat
    BY DEF ServerInv, TypeOK
  <1>5. Grown(session, events, session', events')
    BY <1>1, <1>4 DEF Grown
  <1> QED
    BY <1>1, <1>3, <1>4, <1>5 DEF StoreServed

(* So with its numbers.                                                    *)
LEMMA IdleServesStore ==
  ASSUME ServerInv, UNCHANGED store
  PROVE  StoreServed({})
  <1>1. UNCHANGED vars
    BY DEF store, vars
  <1> QED
    BY <1>1, VarsServeStore

(* The clock moves.                                                        *)
LEMMA TickServesStore ==
  ASSUME ServerInv, Tick
  PROVE  StoreServed({})
  <1>1. UNCHANGED <<session, events, idem>>
    BY DEF Tick
  <1>2. TypeOK' /\ OneLiveSession' /\ LogOK(session', events') /\ KeysOK(idem', events')
    BY TypeStep, OneLiveStep, LogStep, KeysStep DEF ServerInv, AnyStep
  <1>3. ServerInv'
    BY <1>1, <1>2 DEF ServerInv, ImportsOver, Existing, CheersCarryNothing, NotesBare,
                       Live, Carries
  <1>4. Len(events) \in Nat
    BY DEF ServerInv, TypeOK
  <1>5. Grown(session, events, session', events')
    BY <1>1, <1>4 DEF Grown
  <1> QED
    BY <1>1, <1>3, <1>4, <1>5 DEF StoreServed

(* A read sweeps.                                                          *)
LEMMA SweepServesStore ==
  ASSUME ServerInv, NEW a \in Accounts, CurrentSession(a)
  PROVE  StoreServed({})
  <1>1. NULL \notin Keys /\ MySessions \subseteq Sessions
    BY StoreAssumption, SyncAssumption
  <1> QED
    BY <1>1, SweepKeepsServer DEF StoreServed

(* A command of this device, sent or left over from an abandoned request.  *)
LEMMA OwnServesStore ==
  ASSUME ServerInv, NEW c \in OutboxCommand, Minted(c), ServerApplies(c)
  PROVE  /\ StoreServed({c.key})
         /\ Len(events') \in Under(c.key)' /\ Len(events') > Len(events)
         /\ c.op = "session.cheer" => ~StateEvent(Len(events))'
  <1>1. /\ Keyed(Me, c.key, c.session) /\ Effect(Me, c.key, c.session, c.op)
        /\ Stored(Me, c.key, c.op)
    BY ServerApplied
  <1>2. c.key \in Keys /\ c.session \in Sessions /\ c.op \in Operations
    BY DEF OutboxCommand
  <1>3. ServerInv'
    BY <1>1, <1>2, CommandKeepsServer, SyncAssumption
  <1>4. Len(events) \in Nat /\ Len(events') \in Nat
    BY <1>3 DEF ServerInv, TypeOK
  <1>5. NULL \notin Keys /\ MySessions \subseteq Sessions
    BY StoreAssumption, SyncAssumption
  <1>6. \A i \in Len(events) + 1 .. Len(events') :
          events'[i].actor = Me /\ events'[i].key \in Keys => events'[i].key = c.key
    BY <1>1, <1>4, <1>5 DEF Effect
  <1>7. \A t \in MySessions : session[t] = NoRow /\ session'[t] # NoRow =>
          session'[t].startedBy = Me /\ t \in issued
    BY <1>1, <1>5 DEF Effect, Minted
  <1>8. Grown(session, events, session', events') /\ Len(events') > Len(events)
    BY <1>1 DEF Effect
  <1>9. Len(events') \in Under(c.key)'
    BY <1>1, <1>4, <1>8 DEF Effect, Under
  <1>10. c.op = "session.cheer" => ~StateEvent(Len(events))'
    BY <1>1 DEF Effect, StateEvent, Carries
  <1> QED
    BY <1>3, <1>6, <1>7, <1>8, <1>9, <1>10 DEF StoreServed

(* Whatever the partner does.                                              *)
LEMMA PartnerServesStore ==
  ASSUME ServerInv, NEW a \in Accounts \ {Me}, CommandBy(a),
         \A s \in MySessions : session[s] = NoRow => session'[s] = NoRow
  PROVE  StoreServed({})
  <1>1. CASE CurrentSession(a)
    BY <1>1, SweepServesStore
  <1>2. ASSUME NEW k \in Keys, NEW s \in Sessions, NEW op \in Operations,
               Keyed(a, k, s), Effect(a, k, s, op), Stored(a, k, op)
        PROVE  StoreServed({})
    <2>1. ServerInv'
      BY <1>2, CommandKeepsServer
    <2>2. Len(events) \in Nat /\ Len(events') \in Nat /\ NULL \notin Keys
      BY <2>1, StoreAssumption DEF ServerInv, TypeOK
    <2>3. \A i \in Len(events) + 1 .. Len(events') :
            ~(events'[i].actor = Me /\ events'[i].key \in Keys)
      BY <1>2, <2>2 DEF Effect
    <2> QED
      BY <1>2, <2>1, <2>3 DEF StoreServed, Effect
  <1>3. \A action \in Actions : OperationOf[action] \in Operations
    BY DEF OperationOf, Actions, Operations
  <1>4. ASSUME NEW k \in Keys, NEW s \in Sessions,
               \/ StartSession(a, k, s)
               \/ \E started, completed \in Nat :
                    ImportSoloSession(a, k, s, started, completed)
               \/ \E v \in Nat, action \in Actions : transitionSession(a, k, s, v, action)
               \/ AddNote(a, k, s)
               \/ AddCheer(a, k, s)
        PROVE  StoreServed({})
    <2>1. Keyed(a, k, s)
      BY <1>4 DEF Keyed
    <2>2. \E op \in Operations : Effect(a, k, s, op) /\ Stored(a, k, op)
      <3>1. {"session.start", "session.import_solo", "session.note", "session.cheer"}
              \subseteq Operations
        BY DEF Operations
      <3> QED
        BY <1>3, <1>4, <3>1, KeyedEffect
    <2> QED
      BY <1>2, <2>1, <2>2
  <1>5. Instants \subseteq Nat /\ 1 .. Len(events) \subseteq Nat
    BY StoreAssumption
  <1> QED
    BY <1>1, <1>4, <1>5, Zenon DEF CommandBy

(* The numbers stay, and new ones are above the last that was drawn unless *)
(* they are the partner's.                                                 *)
Counted ==
  /\ NumbersOK'
  /\ \A i \in 1 .. Len(events) : number'[i] = number[i]
  /\ serial =< serial'
  /\ \A i \in Len(events) + 1 .. Len(events') :
       events'[i].actor = Me /\ events'[i].key \in Keys => number'[i] > serial

Served(K) == StoreServed(K) /\ Counted

(* Numbers after base, which nobody has and no open transaction has drawn, *)
(* keep the numbers in order when base is past every event that a new one  *)
(* excludes.                                                               *)
LEMMA NumbersGrow ==
  ASSUME ServerInv, NumbersOK, NEW K, StoreServed(K), NEW base \in Nat, Numbered(base),
         serial' \in Nat, serial =< serial', base + (Len(events') - Len(events)) =< serial',
         \A i \in 1 .. Len(events) :
           number[i] =< base \/ number[i] > base + (Len(events') - Len(events)),
         \A i \in 1 .. Len(events), j \in Len(events) + 1 .. Len(events') :
           number[i] > base => ~Excludes(events[i], events'[j]),
         drawn' \subseteq Nat,
         \A b \in drawn' :
           /\ b + 2 =< serial'
           /\ \A i \in 1 .. Len(events) : number[i] =< b \/ number[i] > b + 2
           /\ b >= base + (Len(events') - Len(events)) \/ b + 2 =< base,
         \A b, c \in drawn' : b = c \/ b + 2 =< c \/ c + 2 =< b
  PROVE  /\ NumbersOK'
         /\ \A i \in 1 .. Len(events) : number'[i] = number[i]
         /\ \A i \in Len(events) + 1 .. Len(events') : number'[i] > base
  <1>1. PICK m \in Nat, n \in Nat : m = Len(events) /\ n = Len(events') /\ m =< n
    BY DEF StoreServed, Grown, ServerInv, TypeOK
  <1>2. PICK old, new, log, log2, last :
          /\ old = number /\ new = number' /\ log = events /\ log2 = events'
          /\ last = serial'
    OBVIOUS
  <1>3. /\ last \in Nat /\ serial \in Nat /\ serial =< last /\ base + (n - m) =< last
        /\ old \in [1 .. m -> 1 .. serial]
        /\ \A i, j \in 1 .. m : old[i] = old[j] => i = j
        /\ \A i, j \in 1 .. m :
             /\ i < j /\ log[i].session = log[j].session
             /\ log[i].type # "session.note_added" \/ log[j].type # "session.note_added"
             => old[i] < old[j]
    BY <1>1, <1>2 DEF NumbersOK, Apart, InLockOrder
  <1>4. /\ new = [i \in 1 .. n |-> IF i =< m THEN old[i] ELSE base + (i - m)]
        /\ \A i \in 1 .. m : log2[i] = log[i]
        /\ \A i \in 1 .. m : old[i] =< base \/ old[i] > base + (n - m)
        /\ \A i \in 1 .. m, j \in m + 1 .. n :
             old[i] > base => ~Excludes(log[i], log2[j])
    BY <1>1, <1>2 DEF Numbered, StoreServed, Grown
  <1>5. \A i \in 1 .. m : new[i] = old[i] /\ i \in 1 .. n
    BY <1>1, <1>4
  <1>6. \A i \in m + 1 .. n :
          /\ new[i] = base + (i - m) /\ new[i] > base /\ new[i] =< base + (n - m)
          /\ new[i] \in 1 .. last
    <2> SUFFICES ASSUME NEW i \in m + 1 .. n
                 PROVE  /\ new[i] = base + (i - m) /\ new[i] > base
                        /\ new[i] =< base + (n - m) /\ new[i] \in 1 .. last
      OBVIOUS
    <2>1. i \in 1 .. n /\ ~(i =< m) /\ i - m \in 1 .. n - m
      BY <1>1
    <2>2. new[i] = base + (i - m)
      BY <1>4, <2>1
    <2> QED
      BY <1>1, <1>3, <2>1, <2>2
  <1>7. \A i \in 1 .. n : i \in 1 .. m \/ i \in m + 1 .. n
    BY <1>1
  <1>8. new \in [1 .. n -> 1 .. last]
    <2>1. \A i \in 1 .. n : new[i] \in 1 .. last
      BY <1>3, <1>5, <1>6, <1>7
    <2> QED
      BY <1>4, <2>1
  <1>9. \A i, j \in 1 .. n : new[i] = new[j] => i = j
    <2> SUFFICES ASSUME NEW i \in 1 .. n, NEW j \in 1 .. n, new[i] = new[j]
                 PROVE  i = j
      OBVIOUS
    <2>1. CASE i \in 1 .. m /\ j \in 1 .. m
      BY <1>3, <1>5, <2>1
    <2>2. CASE i \in m + 1 .. n /\ j \in m + 1 .. n
      BY <1>1, <1>6, <2>2
    <2>3. ASSUME NEW a \in 1 .. m, NEW b \in m + 1 .. n
          PROVE  new[a] # new[b]
      <3>1. new[b] > base /\ new[b] =< base + (n - m) /\ new[b] \in Nat
        BY <1>3, <1>6
      <3>2. new[a] =< base \/ new[a] > base + (n - m)
        BY <1>4, <1>5
      <3>3. new[a] \in Nat
        BY <1>3, <1>5
      <3> QED
        BY <1>1, <3>1, <3>2, <3>3
    <2>4. CASE i \in 1 .. m /\ j \in m + 1 .. n
      BY <2>3, <2>4
    <2>5. CASE i \in m + 1 .. n /\ j \in 1 .. m
      BY <2>3, <2>5
    <2> QED
      BY <1>7, <2>1, <2>2, <2>4, <2>5
  <1>10. ASSUME NEW i \in 1 .. n, NEW j \in 1 .. n, i < j,
                log2[i].session = log2[j].session,
                log2[i].type # "session.note_added" \/ log2[j].type # "session.note_added"
         PROVE  new[i] < new[j]
    <2>1. CASE i \in 1 .. m /\ j \in 1 .. m
      BY <1>3, <1>4, <1>5, <1>10, <2>1
    <2>2. CASE i \in m + 1 .. n /\ j \in m + 1 .. n
      BY <1>1, <1>6, <1>10, <2>2
    <2>3. CASE i \in 1 .. m /\ j \in m + 1 .. n
      <3>1. Excludes(log[i], log2[j])
        BY <1>4, <1>10, <2>3 DEF Excludes
      <3>2. old[i] =< base
        BY <1>3, <1>4, <2>3, <3>1
      <3> QED
        BY <1>3, <1>5, <1>6, <2>3, <3>2
    <2> QED
      BY <1>1, <1>7, <1>10, <2>1, <2>2, <2>3
  <1>11. /\ drawn' \subseteq Nat
         /\ \A b \in drawn' : b + 2 =< last
         /\ \A b \in drawn' : \A i \in 1 .. n : new[i] =< b \/ new[i] > b + 2
         /\ \A b, c \in drawn' : b = c \/ b + 2 =< c \/ c + 2 =< b
    <2> SUFFICES ASSUME NEW b \in drawn', NEW i \in 1 .. n
                 PROVE  new[i] =< b \/ new[i] > b + 2
      BY <1>2
    <2>1. CASE i \in 1 .. m
      BY <1>1, <1>2, <1>5, <2>1
    <2>2. CASE i \in m + 1 .. n
      <3>1. b \in Nat /\ (b >= base + (n - m) \/ b + 2 =< base)
        BY <1>1
      <3> QED
        BY <1>1, <1>6, <2>2, <3>1
    <2> QED
      BY <1>7, <2>1, <2>2
  <1>12. NumbersOK'
    <2>1. Apart(log2, new) /\ InLockOrder(log2, new)
      BY <1>1, <1>2, <1>9, <1>10 DEF Apart, InLockOrder
    <2>2. OpenApart'
      BY <1>1, <1>2, <1>11 DEF OpenApart
    <2> QED
      BY <1>1, <1>2, <1>3, <1>8, <2>1, <2>2 DEF NumbersOK
  <1> QED
    BY <1>1, <1>2, <1>5, <1>6, <1>12

(* A transaction that draws and commits at once has the newest numbers.    *)
LEMMA DrawnNow ==
  ASSUME ServerInv, NumbersOK, NEW K, StoreServed(K), DrawsNow
  PROVE  Served(K)
  <1>1. PICK m \in Nat, n \in Nat : m = Len(events) /\ n = Len(events') /\ m =< n
    BY DEF StoreServed, Grown, ServerInv, TypeOK
  <1>2. /\ serial \in Nat /\ \A i \in 1 .. m : number[i] \in 1 .. serial
        /\ drawn \subseteq Nat
        /\ \A b \in drawn : b + 2 =< serial
        /\ \A b \in drawn : \A i \in 1 .. m : number[i] =< b \/ number[i] > b + 2
        /\ \A b, c \in drawn : b = c \/ b + 2 =< c \/ c + 2 =< b
    BY <1>1 DEF NumbersOK, OpenApart
  <1>3. Numbered(serial) /\ serial' = serial + (n - m) /\ drawn' = drawn
    BY <1>1 DEF DrawsNow
  <1>4. serial' \in Nat /\ serial =< serial'
    BY <1>1, <1>2, <1>3
  <1>5. \A i \in 1 .. m : number[i] =< serial /\ ~(number[i] > serial)
    BY <1>2
  <1>6. ASSUME NEW b \in drawn'
        PROVE  b + 2 =< serial' /\ b + 2 =< serial /\ b \in Nat
    BY <1>1, <1>2, <1>3, <1>6
  <1>7. PICK base \in Nat : base = serial
    BY <1>2
  <1>8. Numbered(base)
    BY <1>3, <1>7
  <1>9. /\ serial =< serial' /\ base + (Len(events') - Len(events)) =< serial'
        /\ \A i \in 1 .. Len(events) :
             number[i] =< base \/ number[i] > base + (Len(events') - Len(events))
        /\ \A i \in 1 .. Len(events), j \in Len(events) + 1 .. Len(events') :
             number[i] > base => ~Excludes(events[i], events'[j])
    BY <1>1, <1>3, <1>4, <1>5, <1>7
  <1>10. /\ drawn' \subseteq Nat
         /\ \A b \in drawn' :
              /\ b + 2 =< serial'
              /\ \A i \in 1 .. Len(events) : number[i] =< b \/ number[i] > b + 2
              /\ b >= base + (Len(events') - Len(events)) \/ b + 2 =< base
         /\ \A b, c \in drawn' : b = c \/ b + 2 =< c \/ c + 2 =< b
    BY <1>1, <1>2, <1>3, <1>6, <1>7
  <1>11. /\ NumbersOK' /\ \A i \in 1 .. Len(events) : number'[i] = number[i]
         /\ \A i \in Len(events) + 1 .. Len(events') : number'[i] > base
    BY <1>4, <1>8, <1>9, <1>10, NumbersGrow
  <1> QED
    BY <1>4, <1>7, <1>11 DEF Served, Counted

(* One that drew earlier fits its numbers in; it is the partner's.         *)
LEMMA DrawnEarlier ==
  ASSUME ServerInv, NumbersOK, StoreServed({}), DrewEarlier
  PROVE  Served({})
  <1>1. PICK m \in Nat, n \in Nat : m = Len(events) /\ n = Len(events') /\ m =< n
    BY DEF StoreServed, Grown, ServerInv, TypeOK
  <1>2. /\ serial \in Nat /\ \A i \in 1 .. m : number[i] \in 1 .. serial
        /\ drawn \subseteq Nat
        /\ \A b \in drawn : b + 2 =< serial
        /\ \A b \in drawn : \A i \in 1 .. m : number[i] =< b \/ number[i] > b + 2
        /\ \A b, c \in drawn : b = c \/ b + 2 =< c \/ c + 2 =< b
    BY <1>1 DEF NumbersOK, OpenApart
  <1>3. PICK base \in drawn :
          /\ \A i \in 1 .. m, j \in m + 1 .. n :
               number[i] > base => ~Excludes(events[i], events'[j])
          /\ n =< m + 2
          /\ Numbered(base) /\ drawn' = drawn \ {base} /\ serial' = serial
    BY <1>1 DEF DrewEarlier
  <1>4. base \in Nat /\ base + 2 =< serial /\ base + (n - m) =< serial
    BY <1>1, <1>2, <1>3
  <1>5. \A i \in 1 .. m : number[i] =< base \/ number[i] > base + (n - m)
    <2> SUFFICES ASSUME NEW i \in 1 .. m
                 PROVE  number[i] =< base \/ number[i] > base + (n - m)
      OBVIOUS
    <2>1. number[i] =< base \/ number[i] > base + 2
      BY <1>2, <1>3
    <2>2. number[i] \in Nat
      BY <1>2
    <2> QED
      BY <1>1, <1>3, <1>4, <2>1, <2>2
  <1>6. ASSUME NEW b \in drawn'
        PROVE  b \in Nat /\ b + 2 =< serial /\ (b >= base + (n - m) \/ b + 2 =< base)
    <2>1. b \in drawn /\ b # base
      BY <1>3, <1>6
    <2>2. b + 2 =< base \/ base + 2 =< b
      BY <1>2, <1>3, <2>1
    <2>3. b \in Nat /\ b + 2 =< serial
      BY <1>2, <2>1
    <2> QED
      BY <1>1, <1>3, <1>4, <2>2, <2>3
  <1>7. drawn' \subseteq drawn /\ serial' \in Nat /\ serial =< serial'
    BY <1>2, <1>3
  <1>8. /\ NumbersOK' /\ \A i \in 1 .. m : number'[i] = number[i]
    BY <1>1, <1>2, <1>3, <1>4, <1>5, <1>6, <1>7, NumbersGrow
  <1>9. \A i \in m + 1 .. n : ~(events'[i].actor = Me /\ events'[i].key \in Keys)
    BY <1>1 DEF StoreServed
  <1> QED
    BY <1>1, <1>7, <1>8, <1>9 DEF Served, Counted

(* The numbers are left alone, or two more are drawn.                      *)
LEMMA NothingNumbered ==
  ASSUME ServerInv, NumbersOK, NEW K, StoreServed(K), UNCHANGED <<events, number>>,
         \/ UNCHANGED <<serial, drawn>>
         \/ drawn' = drawn \cup {serial} /\ serial' = serial + 2
  PROVE  Served(K)
  <1>1. PICK m \in Nat : m = Len(events)
    BY DEF ServerInv, TypeOK
  <1>2. /\ serial \in Nat /\ number \in [1 .. m -> 1 .. serial]
        /\ Apart(events, number) /\ InLockOrder(events, number)
        /\ drawn \subseteq Nat
        /\ \A b \in drawn : b + 2 =< serial
        /\ \A b \in drawn : \A i \in 1 .. m : number[i] =< b \/ number[i] > b + 2
        /\ \A b, c \in drawn : b = c \/ b + 2 =< c \/ c + 2 =< b
    BY <1>1 DEF NumbersOK, OpenApart
  <1>3. serial' \in Nat /\ serial =< serial'
    BY <1>2
  <1>4. \A i \in 1 .. m : number[i] \in 1 .. serial /\ number[i] \in 1 .. serial'
    BY <1>2, <1>3
  <1>5. number' \in [1 .. m -> 1 .. serial']
    BY <1>2, <1>4
  <1>6. OpenApart'
    <2>1. ASSUME NEW b \in drawn'
          PROVE  /\ b \in Nat /\ b + 2 =< serial'
                 /\ \A i \in 1 .. m : number[i] =< b \/ number[i] > b + 2
      <3>1. CASE b \in drawn
        BY <1>2, <1>3, <3>1
      <3>2. CASE b = serial /\ serial' = serial + 2
        BY <1>2, <1>4, <3>2
      <3> QED
        BY <2>1, <3>1, <3>2
    <2>2. \A b, c \in drawn' : b = c \/ b + 2 =< c \/ c + 2 =< b
      BY <1>2
    <2> QED
      BY <1>1, <2>1, <2>2 DEF OpenApart
  <1>7. Apart(events', number') /\ InLockOrder(events', number')
    BY <1>2
  <1>8. NumbersOK'
    BY <1>1, <1>3, <1>5, <1>6, <1>7 DEF NumbersOK
  <1>9. \A i \in Len(events) + 1 .. Len(events') : FALSE
    BY <1>1
  <1> QED
    BY <1>3, <1>8, <1>9 DEF Served, Counted

(* With its numbers, a store that is left alone,                           *)
LEMMA IdleServed ==
  ASSUME SyncInv, UNCHANGED store
  PROVE  Served({})
  <1>0. ServerInv /\ NumbersOK
    BY DEF SyncInv
  <1>1. UNCHANGED <<events, number, serial, drawn>>
    BY DEF store
  <1> QED
    BY <1>0, <1>1, IdleServesStore, NothingNumbered

(* the clock,                                                              *)
LEMMA TickServed ==
  ASSUME SyncInv, Tick, UNCHANGED <<number, serial, drawn>>
  PROVE  Served({})
  <1>0. ServerInv /\ NumbersOK
    BY DEF SyncInv
  <1>1. UNCHANGED events
    BY DEF Tick
  <1> QED
    BY <1>0, <1>1, TickServesStore, NothingNumbered

(* a draw of the partner,                                                  *)
LEMMA DrawServed ==
  ASSUME SyncInv, Draw
  PROVE  Served({})
  <1>0. ServerInv /\ NumbersOK
    BY DEF SyncInv
  <1>1. UNCHANGED vars /\ UNCHANGED <<events, number>>
    BY DEF Draw, vars
  <1>2. StoreServed({})
    BY <1>0, <1>1, VarsServeStore
  <1>3. drawn' = drawn \cup {serial} /\ serial' = serial + 2
    BY DEF Draw
  <1> QED
    BY <1>0, <1>1, <1>2, <1>3, NothingNumbered

(* a sweep,                                                                *)
LEMMA SweepServed ==
  ASSUME SyncInv, NEW a \in Accounts, CurrentSession(a), DrawsNow
  PROVE  Served({})
  <1>0. ServerInv /\ NumbersOK
    BY DEF SyncInv
  <1> QED
    BY <1>0, SweepServesStore, DrawnNow

(* a command of this device, which is numbered above everything,           *)
LEMMA OwnServed ==
  ASSUME SyncInv, NEW c \in OutboxCommand, Minted(c), ServerApplies(c),
         DrawsNow
  PROVE  /\ Served({c.key})
         /\ Len(events') \in Under(c.key)' /\ Len(events') > Len(events)
         /\ number'[Len(events')] > serial
         /\ c.op = "session.cheer" => ~StateEvent(Len(events))'
  <1>0. ServerInv /\ NumbersOK
    BY DEF SyncInv
  <1>1. StoreServed({c.key})
    BY <1>0, OwnServesStore
  <1>2. Served({c.key})
    <2>1. PICK K : K = {c.key}
      OBVIOUS
    <2> QED
      BY <1>0, <1>1, <2>1, DrawnNow
  <1>3. /\ Len(events') \in Under(c.key)' /\ Len(events') > Len(events)
        /\ c.op = "session.cheer" => ~StateEvent(Len(events))'
    BY <1>0, OwnServesStore
  <1>4. c.key \in Keys /\ Len(events) \in Nat
    BY <1>0 DEF OutboxCommand, ServerInv, TypeOK
  <1>5. Len(events') \in Nat
    BY <1>1 DEF StoreServed, ServerInv, TypeOK
  <1>6. PICK n \in Nat : n = Len(events')
    BY <1>5
  <1>7. events'[n].actor = Me /\ events'[n].key = c.key
    BY <1>3, <1>6 DEF Under
  <1>8. n \in Len(events) + 1 .. Len(events')
    BY <1>3, <1>4, <1>6
  <1>9. number'[n] > serial
    BY <1>2, <1>4, <1>7, <1>8 DEF Served, Counted
  <1> QED
    BY <1>2, <1>3, <1>6, <1>9

(* and the partner's are served.                                           *)
LEMMA PartnerServed ==
  ASSUME SyncInv, NEW a \in Accounts \ {Me}, CommandBy(a),
         \A s \in MySessions : session[s] = NoRow => session'[s] = NoRow,
         DrawsNow \/ DrewEarlier
  PROVE  Served({})
  <1>0. ServerInv /\ NumbersOK
    BY DEF SyncInv
  <1>1. StoreServed({})
    BY <1>0, PartnerServesStore
  <1>2. CASE DrawsNow
    BY <1>0, <1>1, <1>2, DrawnNow
  <1>3. CASE DrewEarlier
    BY <1>0, <1>1, <1>3, DrawnEarlier
  <1> QED
    BY <1>2, <1>3

(* What is known of an event.                                              *)
LEMMA EventFacts ==
  ASSUME ServerInv, NEW i \in 1 .. Len(events)
  PROVE  /\ events[i] \in Event /\ events[i].session \in Sessions
         /\ events[i].row \in Row /\ events[i].row.version \in Nat
         /\ session[events[i].session] # NoRow
         /\ events[i].row.offline => ~Live(events[i].row)
  <1>1. events[i] \in Event
    BY DEF ServerInv, TypeOK
  <1>2. events[i].session \in Sessions /\ events[i].row \in Row
    BY <1>1 DEF Event
  <1>3. events[i].row.version \in Nat
    BY <1>2 DEF Row
  <1>4. session[events[i].session] # NoRow
    BY DEF ServerInv, LogOK, Replayed
  <1>5. events[i].row.offline => ~Live(events[i].row)
    BY DEF ServerInv, ImportsOver
  <1> QED
    BY <1>1, <1>2, <1>3, <1>4, <1>5

(* What was in the log is in it still.                                     *)
LEMMA ServedLog ==
  ASSUME ServerInv, NEW K, Served(K)
  PROVE  /\ events \in Seq(Event) /\ events' \in Seq(Event)
         /\ Len(events) \in Nat /\ Len(events') \in Nat /\ Len(events) =< Len(events')
         /\ \A i \in 1 .. Len(events) : events'[i] = events[i]
         /\ \A i \in 1 .. Len(events) : i \in 1 .. Len(events')
         /\ \A i \in 1 .. Len(events) : StateEvent(i)' <=> StateEvent(i)
         /\ \A s \in Sessions : \A i \in 1 .. Len(events) : Named(s, i)' <=> Named(s, i)
         /\ \A i \in 1 .. Len(events) : number'[i] = number[i]
         /\ \A i \in 1 .. Len(events) : Overtaken(i)' <=> Overtaken(i)
  <1>0. StoreServed(K) /\ \A i \in 1 .. Len(events) : number'[i] = number[i]
    BY DEF Served, Counted
  <1>1. events \in Seq(Event) /\ events' \in Seq(Event)
    BY <1>0 DEF ServerInv, TypeOK, StoreServed
  <1>2. Len(events) \in Nat /\ Len(events') \in Nat
    BY <1>1
  <1>3. Len(events) =< Len(events') /\ \A i \in 1 .. Len(events) : events'[i] = events[i]
    BY <1>0 DEF StoreServed, Grown
  <1>4. \A i \in 1 .. Len(events) : i \in 1 .. Len(events')
    BY <1>2, <1>3
  <1>5. ASSUME NEW i \in 1 .. Len(events)
        PROVE  Overtaken(i)' <=> Overtaken(i)
    <2>1. \A j \in 1 .. i - 1 : j \in 1 .. Len(events)
      BY <1>2
    <2> QED
      BY <1>0, <1>3, <2>1 DEF Overtaken
  <1> QED
    BY <1>0, <1>1, <1>2, <1>3, <1>4, <1>5 DEF StateEvent, Named

(* So a row is up to date with as much of it as it was.                    *)
LEMMA ServedUpTo ==
  ASSUME ServerInv, NEW K, Served(K), NEW row, NEW s \in Sessions,
         NEW n \in 0 .. Len(events)
  PROVE  UpTo(row, s, n)' <=> UpTo(row, s, n)
  <1>1. \A i \in 1 .. n : i \in 1 .. Len(events)
    BY ServedLog
  <1> QED
    BY <1>1, ServedLog DEF UpTo

(* A state event numbered below one that had committed before it was       *)
(* overtaken by it: in its own session it would have waited.               *)
LEMMA Behind ==
  ASSUME NEW log, NEW num, Apart(log, num), InLockOrder(log, num), NotesBare(log),
         NEW i \in 1 .. Len(log), NEW j \in 1 .. Len(log), Len(log) \in Nat,
         j < i, num[i] \in Nat, num[j] \in Nat, num[i] =< num[j], Carries(log, i)
  PROVE  num[j] > num[i] /\ log[j].session # log[i].session
  <1>1. num[i] # num[j]
    BY DEF Apart
  <1>2. log[i].type # "session.note_added"
    BY DEF NotesBare
  <1>3. log[j].session # log[i].session
    BY <1>1, <1>2 DEF InLockOrder
  <1> QED
    BY <1>1, <1>3

(* A cursor is a number that has been drawn, and stays one.                *)
LEMMA ServedCursor ==
  ASSUME SyncInv, NEW K, Served(K), NEW n, CursorIs(n)
  PROVE  CursorIs(n)' /\ n \in Nat /\ n =< serial
  <1>0. ServerInv /\ serial \in Nat /\ \A i \in 1 .. Len(events) : number[i] \in 1 .. serial
    BY DEF SyncInv, NumbersOK
  <1>1. CASE n = 0
    BY <1>0, <1>1 DEF CursorIs
  <1>2. CASE \E i \in 1 .. Len(events) : n = number[i]
    <2>1. PICK i \in 1 .. Len(events) : n = number[i]
      BY <1>2
    <2>2. i \in 1 .. Len(events') /\ number'[i] = n
      BY <1>0, <2>1, ServedLog
    <2> QED
      BY <1>0, <2>1, <2>2 DEF CursorIs
  <1> QED
    BY <1>1, <1>2 DEF CursorIs

(* A state event at or below a cursor that was there before the step was   *)
(* there as well, or was overtaken.                                        *)
LEMMA ServedBelow ==
  ASSUME SyncInv, NEW K, Served(K), NEW n, CursorIs(n), NEW i \in 1 .. Len(events'),
         StateEvent(i)', number'[i] =< n, ~Overtaken(i)'
  PROVE  /\ i \in 1 .. Len(events) /\ StateEvent(i) /\ ~Overtaken(i)
         /\ number'[i] = number[i] /\ events'[i] = events[i]
  <1>0. ServerInv /\ ServerInv' /\ NumbersOK' /\ n \in Nat
    BY ServedCursor DEF SyncInv, Served, StoreServed, Counted
  <1>1. Len(events) \in Nat /\ Len(events') \in Nat /\ Len(events) =< Len(events')
    BY <1>0, ServedLog
  <1>2. CASE i \in 1 .. Len(events)
    BY <1>0, <1>2, ServedLog
  <1>3. CASE i \in Len(events) + 1 .. Len(events')
    <2>1. PICK log, num : log = events' /\ num = number'
      OBVIOUS
    <2>2. /\ Apart(log, num) /\ InLockOrder(log, num) /\ NotesBare(log)
          /\ \A j \in 1 .. Len(log) : num[j] \in Nat \ {0}
      BY <1>0, <2>1 DEF NumbersOK, ServerInv
    <2>3. PICK j \in 1 .. Len(events) : n = number[j]
      BY <1>0, <2>1, <2>2 DEF CursorIs
    <2>4. j \in 1 .. Len(log) /\ num[j] = n /\ j < i /\ Carries(log, i)
      BY <1>0, <1>1, <1>3, <2>1, <2>3, ServedLog DEF StateEvent, Carries
    <2>5. num[j] > num[i] /\ log[j].session # log[i].session
      BY <1>1, <2>1, <2>2, <2>4, Behind
    <2>6. Overtaken(i)'
      BY <1>1, <2>1, <2>4, <2>5 DEF Overtaken
    <2> QED
      BY <2>6
  <1> QED
    BY <1>1, <1>2, <1>3

(* So a row shows the log up to a cursor as it did.                        *)
LEMMA ServedShows ==
  ASSUME SyncInv, NEW K, Served(K), NEW row, NEW s \in Sessions, NEW n, CursorIs(n),
         Shows(row, s, n)
  PROVE  Shows(row, s, n)'
  <1> SUFFICES ASSUME NEW i \in 1 .. Len(events'), Named(s, i)', number'[i] =< n,
                      ~Overtaken(i)'
               PROVE  row = events'[i].row \/ row.version > events'[i].row.version
    BY DEF Shows
  <1>1. /\ i \in 1 .. Len(events) /\ StateEvent(i) /\ ~Overtaken(i)
        /\ number'[i] = number[i] /\ events'[i] = events[i]
    BY ServedBelow DEF Named
  <1>2. Named(s, i)
    BY <1>1 DEF Named
  <1> QED
    BY <1>1, <1>2 DEF Shows

(* The events under a key of this device.                                  *)
LEMMA ServedUnder ==
  ASSUME ServerInv, NEW K, Served(K), NEW k \in Keys
  PROVE  /\ \A i \in Under(k) : i \in Under(k)'
         /\ \A i \in Under(k)' :
              i \in Under(k) \/ (i > Len(events) /\ k \in K /\ number'[i] > serial)
  <1>1. /\ Len(events) \in Nat /\ Len(events') \in Nat /\ Len(events) =< Len(events')
        /\ \A i \in 1 .. Len(events) : events'[i] = events[i]
        /\ \A i \in 1 .. Len(events) : i \in 1 .. Len(events')
    BY ServedLog
  <1>2. \A i \in Under(k) : i \in Under(k)'
    BY <1>1 DEF Under
  <1>3. ASSUME NEW i \in Under(k)'
        PROVE  i \in Under(k) \/ (i > Len(events) /\ k \in K /\ number'[i] > serial)
    <2>1. i \in 1 .. Len(events') /\ events'[i].actor = Me /\ events'[i].key = k
      BY <1>3 DEF Under
    <2>2. CASE i \in 1 .. Len(events)
      BY <1>1, <2>1, <2>2 DEF Under
    <2>3. CASE i \in Len(events) + 1 .. Len(events')
      BY <1>1, <2>1, <2>3 DEF Served, StoreServed, Counted
    <2> QED
      BY <1>1, <2>1, <2>2, <2>3
  <1> QED
    BY <1>2, <1>3

(* A command, field by field.                                              *)
LEMMA CommandFields ==
  ASSUME NEW rows \in Seq(OutboxCommand), NEW i \in DOMAIN rows
  PROVE  /\ rows[i] \in OutboxCommand
         /\ rows[i].key \in Keys /\ rows[i].op \in Operations
         /\ rows[i].session \in Sessions /\ rows[i].after \in Nat
  <1>1. rows[i] \in OutboxCommand
    OBVIOUS
  <1> QED
    BY <1>1 DEF OutboxCommand

(* The request in flight, field by field.                                  *)
LEMMA CallFields ==
  ASSUME SyncInv
  PROVE  /\ call \in Call /\ call.stage \in Stages
         /\ call.todo \in Seq(OutboxCommand) /\ call.done \in Seq(Result)
         /\ call.from \in Nat /\ call.page \subseteq Nat /\ call.upto \in Nat
         /\ call.current \in Sessions \cup {NULL} /\ call.row \in Row
         /\ call.rowAt \in Nat /\ call.seenTo \in Nat
         /\ call.throw \in BOOLEAN
  BY DEF SyncInv, DeviceInv, EngineTypes, Call

(* An answer, field by field.                                              *)
LEMMA ResultFields ==
  ASSUME SyncInv, NEW j \in DOMAIN call.done
  PROVE  /\ call.done[j] \in Result /\ call.done[j].key \in Keys
         /\ call.done[j].outcome \in {"applied", "refused", "later"}
         /\ call.done[j].at \in Nat
  <1>1. PICK done \in Seq(Result) : done = call.done
    BY CallFields
  <1>2. done[j] \in Result
    BY <1>1
  <1> QED
    BY <1>1, <1>2 DEF Result

(* One row of rows.                                                        *)
Among(c, rows) == \E i \in DOMAIN rows : rows[i] = c

(* The device's tables keep their types while the store grows.             *)
LEMMA KeepsTypes ==
  ASSUME SyncInv, NEW K, Served(K), UNCHANGED device, orphan' \in Seq(OutboxCommand)
  PROVE  DeviceTypes'
  <1>0. ServerInv /\ DeviceTypes
    BY DEF SyncInv, DeviceInv
  <1>1. PICK m \in Nat, n \in Nat : m = Len(events) /\ n = Len(events') /\ m =< n
    BY <1>0, ServedLog
  <1>2. notes \in [Sessions -> Seq(1 .. m)]
    BY <1>0, <1>1 DEF DeviceTypes
  <1>3. 1 .. m \subseteq 1 .. n
    BY <1>1
  <1>4. ASSUME NEW q \in Seq(1 .. m)
        PROVE  q \in Seq(1 .. n)
    <2>1. PICK S, T : S = 1 .. m /\ T = 1 .. n
      OBVIOUS
    <2>2. S \subseteq T /\ q \in Seq(S)
      BY <1>3, <2>1
    <2>3. q \in Seq(T)
      BY <2>2
    <2> QED
      BY <2>1, <2>3
  <1>5. notes \in [Sessions -> Seq(1 .. n)]
    BY <1>2, <1>4
  <1>6. /\ local' = local /\ notes' = notes /\ outbox' = outbox /\ cursor' = cursor
        /\ issued' = issued /\ refused' = refused /\ raced' = raced
    BY DEF device
  <1>7. cursor' \in Nat /\ CursorIs(cursor)'
    <2>1. PICK c : c = cursor
      OBVIOUS
    <2>2. CursorIs(c)'
      BY <1>0, <2>1, ServedCursor DEF DeviceTypes
    <2> QED
      BY <1>0, <1>6, <2>1, <2>2 DEF DeviceTypes, CursorIs
  <1> QED
    BY <1>0, <1>1, <1>5, <1>6, <1>7 DEF DeviceTypes

(* The cursor and the rows stay, and so does what they show.               *)
LEMMA KeepsShown ==
  ASSUME SyncInv, NEW K, Served(K), UNCHANGED <<local, cursor, raced>>
  PROVE  NothingSkipped' /\ ShownOK'
  <1>0. ServerInv /\ NothingSkipped /\ ShownOK
    BY DEF SyncInv, DeviceInv
  <1>1. PICK c \in Nat : c = cursor /\ CursorIs(c)
    BY DEF SyncInv, DeviceInv, DeviceTypes
  <1>2. cursor' = c /\ local' = local /\ raced' = raced
    BY <1>1
  <1>3. NothingSkipped'
    <2> SUFFICES ASSUME NEW i \in 1 .. Len(events'), StateEvent(i)', number'[i] =< cursor',
                        ~Overtaken(i)', session'[events'[i].session].startedBy # Me
                 PROVE  local'[events'[i].session] # NoRow
      BY DEF NothingSkipped
    <2>1. /\ i \in 1 .. Len(events) /\ StateEvent(i) /\ ~Overtaken(i)
          /\ number[i] =< cursor /\ events'[i] = events[i]
      BY <1>1, <1>2, ServedBelow
    <2>2. PICK t : t = events[i].session
      OBVIOUS
    <2>3. t \in Sessions /\ session[t] # NoRow
      BY <1>0, <2>1, <2>2, EventFacts
    <2>4. session'[t].startedBy = session[t].startedBy
      BY <2>3 DEF Served, StoreServed, Grown
    <2>5. local[t] # NoRow
      BY <1>0, <2>1, <2>2, <2>4 DEF NothingSkipped
    <2> QED
      BY <1>2, <2>1, <2>2, <2>5
  <1>4. ShownOK'
    <2> SUFFICES ASSUME NEW s \in Sessions, local'[s] # NoRow, s \notin raced'
                 PROVE  Shows(local[s], s, cursor)'
      BY DEF ShownOK
    <2>1. Shows(local[s], s, cursor)
      BY <1>0, <1>2 DEF ShownOK
    <2>2. PICK row : row = local[s]
      OBVIOUS
    <2>3. Shows(row, s, c)'
      BY <1>1, <2>1, <2>2, ServedShows
    <2> QED
      BY <1>2, <2>2, <2>3 DEF Shows
  <1> QED
    BY <1>3, <1>4

(* A settled command stays settled.                                        *)
LEMMA KeepsSettled ==
  ASSUME SyncInv, NEW K, Served(K), UNCHANGED <<outbox, issued, refused>>
  PROVE  CommandsSettleOnce'
  <1>0. ServerInv /\ CommandsSettleOnce
    BY DEF SyncInv, DeviceInv
  <1> SUFFICES ASSUME NEW k \in issued \cap Keys
               PROVE  /\ k \notin refused /\ Under(k)' = {} =>
                           \E i \in DOMAIN outbox : outbox[i].key = k
                      /\ \A i, j \in Under(k)' : i = j
    BY DEF CommandsSettleOnce, Under
  <1>1. k \notin refused /\ Under(k) = {} => \E i \in DOMAIN outbox : outbox[i].key = k
    BY <1>0 DEF CommandsSettleOnce, Under
  <1>2. Under(k)' = {} => Under(k) = {}
    BY <1>0, ServedUnder
  <1>3. k # NULL /\ KeysOK(idem', events')
    BY StoreAssumption DEF Served, StoreServed, ServerInv
  <1>4. \A i, j \in Under(k)' : i = j
    BY <1>3 DEF KeysOK, Under
  <1> QED
    BY <1>1, <1>2, <1>4

(* Sessions with an id of this device stay its own.                        *)
LEMMA KeepsOwn ==
  ASSUME SyncInv, NEW K, Served(K), UNCHANGED <<local, issued>>,
         user'.pc = "storing" => user' = user
  PROVE  OwnOK'
  <1>0. ServerInv /\ OwnOK
    BY DEF SyncInv, DeviceInv
  <1>1. \A s \in MySessions : session'[s] # NoRow =>
          session'[s].startedBy = Me /\ s \in issued
    BY <1>0, SyncAssumption DEF OwnOK, Served, StoreServed, Grown
  <1>2. user'.pc = "storing" =>
          /\ user'.unsaved \in Write
          /\ user'.unsaved.session \in MySessions /\ user'.unsaved.session \in issued
    BY <1>0 DEF OwnOK
  <1>3. \A s \in Sessions : local'[s].offline /\ Live(local'[s]) =>
          /\ s \in MySessions /\ s \in issued'
          /\ local'[s].startedAt \in Nat
          /\ local'[s].state = "paused" =>
               local'[s].pausedAt \in Int /\ local'[s].pauseOrigin # NULL
    BY <1>0 DEF OwnOK
  <1> QED
    BY <1>1, <1>2, <1>3 DEF OwnOK, Live

(* Commands that are sent, or left over, are among those that were kept.   *)
LEMMA KeepsCommands ==
  ASSUME SyncInv, NEW K \in SUBSET issued, Served(K), UNCHANGED <<outbox, issued>>,
         \A j \in DOMAIN orphan' :
           Among(orphan'[j], orphan) \/ Among(orphan'[j], call.todo),
         \A j \in DOMAIN call'.todo :
           Among(call'.todo[j], call.todo) \/ Among(call'.todo[j], outbox)
  PROVE  CommandsOK'
  <1>0. ServerInv /\ CommandsOK
    BY DEF SyncInv, DeviceInv
  <1>1. \A i \in DOMAIN outbox : Minted(outbox[i])'
    BY <1>0 DEF CommandsOK, Minted
  <1>2. \A i \in DOMAIN orphan' : Minted(orphan[i])'
    BY <1>0 DEF CommandsOK, Minted, Among
  <1>3. \A i \in DOMAIN call'.todo : Minted(call.todo[i])'
    BY <1>0 DEF CommandsOK, Minted, Among
  <1>4. \A i \in DOMAIN outbox, j \in DOMAIN call'.todo :
          outbox[i].key = call'.todo[j].key => outbox[i].op = call'.todo[j].op
    BY <1>0 DEF CommandsOK, Among
  <1>5. \A k \in Keys : Under(k)' # {} => k \in issued
    BY <1>0, ServedUnder DEF CommandsOK
  <1>6. \A i, j \in DOMAIN outbox :
          outbox[i].key = outbox[j].key => outbox[i].op = outbox[j].op
    BY <1>0 DEF CommandsOK
  <1> QED
    BY <1>1, <1>2, <1>3, <1>4, <1>5, <1>6 DEF CommandsOK

(* An answer stays true.                                                   *)
LEMMA AnswerStays ==
  ASSUME SyncInv, NEW K, Served(K), UNCHANGED <<outbox, cursor, issued>>,
         NEW r, r.key \in Keys, AnswerOK(r)
  PROVE  AnswerOK(r)'
  <1>0. ServerInv
    BY DEF SyncInv, DeviceInv
  <1>1. r.outcome = "applied" =>
          r.at \in Under(r.key)' /\ (StateEvent(r.at)' => number'[r.at] > cursor)
    <2> SUFFICES ASSUME r.outcome = "applied"
                 PROVE  /\ r.at \in Under(r.key)'
                        /\ StateEvent(r.at)' => number'[r.at] > cursor
      OBVIOUS
    <2>1. PICK k \in Keys : k = r.key
      OBVIOUS
    <2> DEFINE n == r.at
    <2>2. n \in Under(k) /\ n \in 1 .. Len(events) /\ (StateEvent(n) => number[n] > cursor)
      BY <2>1 DEF AnswerOK, Under
    <2> HIDE DEF n
    <2>3. /\ n \in Under(k)' /\ (StateEvent(n)' <=> StateEvent(n))
          /\ number'[n] = number[n]
      BY <1>0, <2>2, ServedUnder, ServedLog
    <2> QED
      BY <2>1, <2>2, <2>3 DEF n
  <1> QED
    BY <1>1 DEF AnswerOK

(* A command nothing of which the cursor has passed stays one.             *)
LEMMA UnseenStays ==
  ASSUME SyncInv, NEW K, Served(K), UNCHANGED cursor, NEW c, c.key \in Keys, Unseen(c)
  PROVE  Unseen(c)'
  <1>0. ServerInv /\ CursorIs(cursor)
    BY DEF SyncInv, DeviceInv, DeviceTypes
  <1>1. PICK k \in Keys, n \in Nat : k = c.key /\ n = cursor /\ n =< serial /\ serial \in Nat
    BY <1>0, ServedCursor DEF SyncInv, NumbersOK
  <1> SUFFICES ASSUME c.op # "session.cheer", NEW i \in Under(k)'
               PROVE  number'[i] > n
    BY <1>1 DEF Unseen
  <1>2. CASE i \in Under(k)
    <2>1. i \in 1 .. Len(events) /\ number[i] > n
      BY <1>1, <1>2 DEF Unseen, Under
    <2> QED
      BY <1>0, <2>1, ServedLog
  <1>3. CASE number'[i] > serial
    <2>1. i \in 1 .. Len(events') /\ NumbersOK'
      BY DEF Under, Served, Counted
    <2>2. number'[i] \in Nat
      BY <2>1 DEF NumbersOK
    <2> QED
      BY <1>1, <1>3, <2>2
  <1> QED
    BY <1>0, <1>2, <1>3, ServedUnder

(* The same of the outbox and of what is sent.                             *)
LEMMA KeepsUnseen ==
  ASSUME SyncInv, NEW K, Served(K), UNCHANGED <<outbox, cursor>>,
         \A j \in DOMAIN call'.todo :
           Among(call'.todo[j], call.todo) \/ Among(call'.todo[j], outbox)
  PROVE  UnseenOK'
  <1>0. /\ outbox \in Seq(OutboxCommand) /\ call.todo \in Seq(OutboxCommand)
        /\ \A i \in DOMAIN outbox : Unseen(outbox[i])
        /\ \A i \in DOMAIN call.todo : Unseen(call.todo[i])
    BY DEF SyncInv, DeviceInv, DeviceTypes, EngineTypes, Call, UnseenOK
  <1>1. ASSUME NEW c \in OutboxCommand, Unseen(c)
        PROVE  Unseen(c)'
    <2>1. c.key \in Keys /\ cursor' = cursor
      BY DEF OutboxCommand
    <2> QED
      BY <1>1, <2>1, UnseenStays
  <1>2. ASSUME NEW c, Among(c, outbox) \/ Among(c, call.todo)
        PROVE  c \in OutboxCommand /\ Unseen(c)
    BY <1>0, <1>2 DEF Among
  <1>3. ASSUME NEW i \in DOMAIN outbox
        PROVE  Unseen(outbox[i])'
    <2>1. PICK c : c = outbox[i]
      OBVIOUS
    <2>2. Unseen(c)'
      BY <1>1, <1>2, <2>1 DEF Among
    <2> QED
      BY <2>1, <2>2 DEF Unseen
  <1>4. ASSUME NEW j \in DOMAIN call'.todo
        PROVE  Unseen(call.todo[j])'
    <2>1. PICK c : c = call'.todo[j]
      OBVIOUS
    <2>2. Unseen(c)'
      BY <1>1, <1>2, <2>1
    <2> QED
      BY <2>1, <2>2 DEF Unseen
  <1> QED
    BY <1>3, <1>4 DEF UnseenOK

(* A request under way still asks for every command it must.               *)
LEMMA KeepsAsked ==
  ASSUME SyncInv, NEW K, Served(K), UNCHANGED outbox, Asking' => Asking,
         \A j \in DOMAIN orphan' : Among(orphan'[j], orphan),
         \A k \in Keys : InRequest(k) => InRequest(k)',
         \A k \in K : InRequest(k) \/ \E j \in DOMAIN orphan : orphan[j].key = k
  PROVE  AskedOK'
  <1>0. ServerInv /\ AskedOK /\ outbox \in Seq(OutboxCommand)
    BY DEF SyncInv, DeviceInv, DeviceTypes
  <1> SUFFICES ASSUME Asking', NEW i \in DOMAIN outbox, outbox[i].op # "session.cheer"
               PROVE  InRequest(outbox[i].key)' \/ Untouched(outbox[i].key)'
    BY DEF AskedOK
  <1>1. PICK k \in Keys : k = outbox[i].key
    BY <1>0, CommandFields
  <1>2. InRequest(k) \/ Untouched(k)
    BY <1>0, <1>1 DEF AskedOK
  <1>3. CASE ~InRequest(k)
    <2>1. Under(k) = {} /\ \A j \in DOMAIN orphan : orphan[j].key # k
      BY <1>2, <1>3 DEF Untouched
    <2>2. Under(k)' = {}
      BY <1>0, <1>3, <2>1, ServedUnder
    <2>3. \A j \in DOMAIN orphan' : orphan'[j].key # k
      BY <2>1 DEF Among
    <2>4. Untouched(k)'
      BY <2>2, <2>3 DEF Untouched
    <2> QED
      BY <1>1, <2>4 DEF Untouched, Under
  <1>4. CASE InRequest(k)
    <2>1. InRequest(k)'
      BY <1>4
    <2> QED
      BY <1>1, <2>1 DEF InRequest
  <1> QED
    BY <1>3, <1>4

(* The page of a request is still within the log.                          *)
LEMMA KeepsRequest ==
  ASSUME SyncInv, NEW K, Served(K), UNCHANGED <<call, cursor>>
  PROVE  RequestOK'
  <1>0. RequestOK /\ ServerInv
    BY DEF SyncInv, DeviceInv
  <1>1. PICK c, n, page :
          c \in Nat /\ c = cursor /\ n = call.upto /\ page = call.page
    BY DEF SyncInv, DeviceInv, DeviceTypes
  <1>2. call' = call /\ cursor' = c
    BY <1>1
  <1>3. ASSUME call.stage = "reply"
        PROVE  PageOK'
    <2>1. /\ c =< n /\ CursorIs(n) /\ page \subseteq 1 .. Len(events)
          /\ \A i \in page : c < number[i] /\ number[i] =< n
          /\ \A i \in 1 .. Len(events) :
               StateEvent(i) /\ c < number[i] /\ number[i] =< n /\ ~Overtaken(i)
               => i \in page
      BY <1>0, <1>1, <1>3 DEF RequestOK, PageOK
    <2>2. CursorIs(n)'
      BY <2>1, ServedCursor
    <2>3. page \subseteq 1 .. Len(events')
      BY <1>0, <2>1, ServedLog
    <2>4. \A i \in page : c < number'[i] /\ number'[i] =< n
      BY <1>0, <2>1, ServedLog
    <2>5. ASSUME NEW i \in 1 .. Len(events'), StateEvent(i)', c < number'[i],
                 number'[i] =< n, ~Overtaken(i)'
          PROVE  i \in page
      <3>1. /\ i \in 1 .. Len(events) /\ StateEvent(i) /\ ~Overtaken(i)
            /\ number'[i] = number[i]
        BY <2>1, <2>5, ServedBelow
      <3> QED
        BY <2>1, <2>5, <3>1
    <2> QED
      BY <1>1, <1>2, <2>1, <2>2, <2>3, <2>4, <2>5 DEF PageOK, CursorIs
  <1>4. /\ Asking => call.from = cursor
        /\ call.stage \in {"row", "company", "events", "reply"} => call.todo = << >>
        /\ call.stage = "commands" => call.current = NULL
    BY <1>0 DEF RequestOK
  <1> QED
    BY <1>1, <1>2, <1>3, <1>4 DEF RequestOK, Asking

(* The row that was read is as old as it was, and if the session has moved *)
(* on since, the log says so.                                              *)
LEMMA KeepsRead ==
  ASSUME SyncInv, NEW K, Served(K), UNCHANGED <<call, cursor>>
  PROVE  ReadOK'
  <1>0. ServerInv /\ ReadOK
    BY DEF SyncInv, DeviceInv
  <1>1. /\ Len(events) \in Nat /\ Len(events') \in Nat /\ Len(events) =< Len(events')
        /\ \A s \in Sessions : \A i \in 1 .. Len(events) : Named(s, i)' <=> Named(s, i)
    BY <1>0, ServedLog
  <1>2. /\ call.row.offline => ~Live(call.row)
        /\ call.stage \in {"row", "company"} => call.current \in Sessions
    BY <1>0 DEF ReadOK
  <1>3. ASSUME NEW s \in Sessions, call.current = s
        PROVE  /\ session'[s] # NoRow
               /\ call.stage \in {"company", "events", "reply"} =>
                    /\ call.row.state # "none" /\ call.rowAt \in 0 .. Len(events')
                    /\ KnownAt(call.rowAt)'
               /\ call.stage = "company" =>
                    /\ UpTo(call.row, s, call.rowAt)'
                    /\ \/ session'[s] = call.row
                       \/ \E i \in call.rowAt + 1 .. Len(events') : Named(s, i)'
               /\ call.stage \in {"events", "reply"} =>
                    /\ call.seenTo \in call.rowAt .. Len(events')
                    /\ \/ UpTo(call.row, s, call.rowAt)'
                       \/ \E i \in call.rowAt + 1 .. call.seenTo : Named(s, i)'
    <2>1. PICK row, n, m : row = call.row /\ n = call.rowAt /\ m = call.seenTo
      OBVIOUS
    <2>2. /\ session[s] # NoRow
          /\ call.stage \in {"company", "events", "reply"} =>
               row.state # "none" /\ n \in 0 .. Len(events) /\ KnownAt(n)
          /\ call.stage = "company" =>
               /\ UpTo(row, s, n)
               /\ session[s] = row \/ \E i \in n + 1 .. Len(events) : Named(s, i)
          /\ call.stage \in {"events", "reply"} =>
               /\ m \in n .. Len(events)
               /\ UpTo(row, s, n) \/ \E i \in n + 1 .. m : Named(s, i)
      BY <1>0, <1>3, <2>1 DEF ReadOK
    <2>3. n \in 0 .. Len(events) => (UpTo(row, s, n)' <=> UpTo(row, s, n))
      BY <1>0, ServedUpTo
    <2>4. UpTo(row, s, n)' <=> UpTo(call.row, s, call.rowAt)'
      BY <2>1 DEF UpTo
    <2>5. /\ session'[s] # NoRow
          /\ session'[s] # session[s] =>
               \E i \in Len(events) + 1 .. Len(events') : Named(s, i)'
      BY <2>2 DEF Served, StoreServed, Grown, Named, StateEvent, Carries
    <2>6. ASSUME call.stage = "company"
          PROVE  session'[s] = row \/ \E i \in n + 1 .. Len(events') : Named(s, i)'
      <3>1. n \in 0 .. Len(events)
        BY <2>2, <2>6
      <3>2. CASE \E i \in n + 1 .. Len(events) : Named(s, i)
        <4>1. PICK i \in n + 1 .. Len(events) : Named(s, i)
          BY <3>2
        <4>2. i \in 1 .. Len(events) /\ i \in n + 1 .. Len(events')
          BY <1>1, <3>1
        <4> QED
          BY <1>1, <4>1, <4>2
      <3>3. CASE session'[s] # session[s]
        <4>1. PICK i \in Len(events) + 1 .. Len(events') : Named(s, i)'
          BY <2>5, <3>3
        <4>2. i \in n + 1 .. Len(events')
          BY <1>1, <3>1
        <4> QED
          BY <4>1, <4>2
      <3> QED
        BY <2>2, <2>6, <3>2, <3>3
    <2>7. ASSUME call.stage \in {"events", "reply"}
          PROVE  /\ m \in n .. Len(events')
                 /\ UpTo(row, s, n)' \/ \E i \in n + 1 .. m : Named(s, i)'
      <3>1. n \in 0 .. Len(events) /\ m \in n .. Len(events)
        BY <2>2, <2>7
      <3>2. \A i \in n + 1 .. m : i \in 1 .. Len(events)
        BY <1>1, <3>1
      <3>3. m \in n .. Len(events')
        BY <1>1, <3>1
      <3> QED
        BY <1>1, <2>2, <2>3, <2>7, <3>1, <3>2, <3>3
    <2>8. call.stage \in {"company", "events", "reply"} => n \in 0 .. Len(events')
      BY <1>1, <2>2
    <2>9. call.stage \in {"company", "events", "reply"} => KnownAt(call.rowAt)'
      <3>1. \A i \in 1 .. n : n \in 0 .. Len(events) => i \in 1 .. Len(events)
        BY <1>1
      <3> QED
        BY <1>0, <2>1, <2>2, <3>1, ServedLog DEF KnownAt
    <2> QED
      BY <2>1, <2>2, <2>3, <2>4, <2>5, <2>6, <2>7, <2>8, <2>9
  <1> QED
    BY <1>2, <1>3 DEF ReadOK, Live

(* A step that leaves the device's tables and the request alone: the store *)
(* may grow by the commands of an abandoned request.                       *)
LEMMA Bystander ==
  ASSUME SyncInv, NEW K \in SUBSET issued, Served(K), UNCHANGED <<device, call>>,
         EngineTypes', orphan' \in Seq(OutboxCommand),
         user'.pc = "storing" => user' = user,
         \A j \in DOMAIN orphan' : Among(orphan'[j], orphan),
         \A k \in K : \E j \in DOMAIN orphan : orphan[j].key = k
  PROVE  SyncInv'
  <1>0. /\ local' = local /\ outbox' = outbox /\ cursor' = cursor
        /\ issued' = issued /\ refused' = refused /\ raced' = raced
        /\ call' = call
    BY DEF device
  <1>1. DeviceTypes'
    BY KeepsTypes
  <1>2. \A j \in DOMAIN call'.todo :
          Among(call'.todo[j], call.todo) \/ Among(call'.todo[j], outbox)
    BY <1>0 DEF Among
  <1>3. CommandsOK'
    BY <1>0, <1>2, KeepsCommands
  <1>4. AnswersOK'
    <2> SUFFICES ASSUME NEW j \in DOMAIN call.done
                 PROVE  AnswerOK(call.done[j])'
      BY <1>0 DEF AnswersOK
    <2>1. PICK r : r = call.done[j]
      OBVIOUS
    <2>2. r.key \in Keys /\ AnswerOK(r)
      BY <2>1, ResultFields DEF SyncInv, DeviceInv, AnswersOK
    <2>3. AnswerOK(r)'
      BY <1>0, <2>2, AnswerStays
    <2> QED
      BY <1>0, <2>1, <2>3 DEF AnswerOK
  <1>5. UnseenOK'
    BY <1>0, <1>2, KeepsUnseen
  <1>6. AskedOK'
    <2>1. (Asking' => Asking) /\ \A k \in Keys : InRequest(k) => InRequest(k)'
      BY <1>0 DEF Asking, InRequest
    <2> QED
      BY <1>0, <2>1, KeepsAsked
  <1>7. RequestOK' /\ ReadOK'
    BY <1>0, KeepsRequest, KeepsRead
  <1>8. OwnOK'
    BY <1>0, KeepsOwn
  <1>9. CommandsSettleOnce'
    BY <1>0, KeepsSettled
  <1>10. NothingSkipped' /\ ShownOK'
    BY <1>0, KeepsShown
  <1> QED
    BY <1>1, <1>3, <1>4, <1>5, <1>6, <1>7, <1>8, <1>9, <1>10
    DEF SyncInv, DeviceInv, Served, StoreServed, Counted

-----------------------------------------------------------------------------
(* Steps that leave the device's tables and the request alone              *)

(* The rest of a queue.                                                    *)
LEMMA TailAmong ==
  ASSUME NEW S, NEW rows \in Seq(S), rows # << >>
  PROVE  /\ Tail(rows) \in Seq(S) /\ Head(rows) \in S
         /\ 1 \in DOMAIN rows /\ rows[1] = Head(rows)
         /\ \A j \in DOMAIN Tail(rows) :
              Among(Tail(rows)[j], rows) /\ j + 1 \in DOMAIN rows /\ Tail(rows)[j] = rows[j + 1]
         /\ \A i \in DOMAIN rows : i = 1 \/ (i - 1 \in DOMAIN Tail(rows) /\ Tail(rows)[i - 1] = rows[i])
  <1>1. Len(rows) \in Nat \ {0} /\ DOMAIN rows = 1 .. Len(rows)
    OBVIOUS
  <1>2. /\ Tail(rows) \in Seq(S) /\ Head(rows) \in S /\ rows[1] = Head(rows)
        /\ Len(Tail(rows)) = Len(rows) - 1
        /\ DOMAIN Tail(rows) = 1 .. Len(rows) - 1
        /\ \A j \in 1 .. Len(rows) - 1 : Tail(rows)[j] = rows[j + 1]
    OBVIOUS
  <1>3. \A j \in DOMAIN Tail(rows) : j + 1 \in DOMAIN rows
    BY <1>1, <1>2
  <1>4. \A i \in DOMAIN rows : i = 1 \/ (i - 1 \in DOMAIN Tail(rows) /\ (i - 1) + 1 = i)
    BY <1>1, <1>2
  <1> QED
    BY <1>1, <1>2, <1>3, <1>4 DEF Among

(* A socket never has more hints waiting than its buffer holds.            *)
LEMMA PublishFits ==
  ASSUME SyncInv, NEW K, Served(K), Publish
  PROVE  hints' \in 0 .. HubCapacity
  <1>1. Len(events) \in Nat /\ Len(events') \in Nat /\ Len(events) =< Len(events')
    BY ServedLog DEF SyncInv
  <1>2. hints \in 0 .. HubCapacity /\ HubCapacity \in Nat
    BY SyncAssumption DEF SyncInv, DeviceInv, EngineTypes
  <1> QED
    BY <1>1, <1>2 DEF Publish

(* An abandoned handler goes on.                                           *)
LEMMA OrphanSteps ==
  ASSUME SyncInv, OrphanStep
  PROVE  SyncInv'
  <1>0. ServerInv /\ CommandsOK /\ EngineTypes /\ orphan \in Seq(OutboxCommand)
    BY DEF SyncInv, DeviceInv, DeviceTypes
  <1>1. /\ orphan # << >> /\ orphan' = Tail(orphan)
        /\ UNCHANGED <<device, call, owner, user, loop, socket, listener>>
    BY DEF OrphanStep
  <1>2. PICK c : c = Head(orphan)
    OBVIOUS
  <1>3. /\ orphan' \in Seq(OutboxCommand) /\ c \in OutboxCommand
        /\ 1 \in DOMAIN orphan /\ orphan[1] = c
        /\ \A j \in DOMAIN orphan' : Among(orphan'[j], orphan)
    BY <1>0, <1>1, <1>2, TailAmong
  <1>4. Minted(c) /\ c.key \in issued
    BY <1>0, <1>3 DEF CommandsOK, Minted
  <1>5. ASSUME NEW K \in SUBSET issued, Served(K), hints' \in 0 .. HubCapacity,
               \A k \in K : k = c.key
        PROVE  SyncInv'
    <2>1. EngineTypes'
      BY <1>0, <1>1, <1>5 DEF EngineTypes
    <2>2. UNCHANGED <<device, call>> /\ user' = user
      BY <1>1
    <2>3. \A k \in K : \E j \in DOMAIN orphan : orphan[j].key = k
      BY <1>3, <1>5
    <2> QED
      BY <1>3, <1>5, <2>1, <2>2, <2>3, Bystander
  <1>6. CASE ServerApplies(c) /\ DrawsNow /\ Publish
    <2>1. Served({c.key})
      BY <1>0, <1>3, <1>4, <1>6, OwnServed
    <2>2. hints' \in 0 .. HubCapacity
      BY <1>6, <2>1, PublishFits
    <2>3. PICK K : K = {c.key}
      OBVIOUS
    <2> QED
      BY <1>4, <1>5, <2>1, <2>2, <2>3
  <1>7. CASE StoreIdle
    <2>1. Served({}) /\ hints' = hints
      BY <1>0, <1>7, IdleServed DEF StoreIdle
    <2> QED
      BY <1>0, <1>5, <2>1 DEF EngineTypes
  <1> QED
    BY <1>2, <1>6, <1>7 DEF OrphanStep

(* The partner draws, the partner acts, or time passes.                    *)
LEMMA OthersStep ==
  ASSUME SyncInv, Draw \/ PartnerActs \/ TimePasses
  PROVE  SyncInv'
  <1>0. ServerInv /\ EngineTypes /\ orphan \in Seq(OutboxCommand)
    BY DEF SyncInv, DeviceInv, DeviceTypes
  <1>1. UNCHANGED <<device, call, owner, user, loop, orphan, socket, listener>>
    BY DEF Draw, PartnerActs, TimePasses, engine, realtime
  <1>2. Served({})
    <2>1. CASE PartnerActs
      BY <1>0, <2>1, PartnerServed DEF PartnerActs
    <2>2. CASE TimePasses
      BY <1>0, <2>2, TickServed DEF TimePasses
    <2>3. CASE Draw
      BY <2>3, DrawServed
    <2> QED
      BY <2>1, <2>2, <2>3
  <1>3. hints' \in 0 .. HubCapacity
    <2>1. CASE PartnerActs
      BY <1>2, <2>1, PublishFits DEF PartnerActs
    <2>2. CASE TimePasses
      BY <1>0, <2>2 DEF TimePasses, realtime, EngineTypes
    <2>3. CASE Draw
      BY <1>0, <2>3 DEF Draw, realtime, EngineTypes
    <2> QED
      BY <2>1, <2>2, <2>3
  <1>4. EngineTypes'
    BY <1>0, <1>1, <1>3 DEF EngineTypes
  <1>5. \A j \in DOMAIN orphan' : Among(orphan'[j], orphan)
    BY <1>1 DEF Among
  <1>6. orphan' \in Seq(OutboxCommand) /\ UNCHANGED <<device, call>> /\ user' = user
    BY <1>0, <1>1
  <1> QED
    BY <1>2, <1>4, <1>5, <1>6, Bystander

(* The steps of the socket, and of callers that wake or join.              *)
LEMMA EngineOnly ==
  ASSUME SyncInv, UNCHANGED <<store, device, call, orphan>>, EngineTypes',
         user'.pc = "storing" => user' = user
  PROVE  SyncInv'
  <1>0. ServerInv /\ orphan \in Seq(OutboxCommand)
    BY DEF SyncInv, DeviceInv, DeviceTypes
  <1>1. Served({})
    BY <1>0, IdleServed
  <1>2. \A j \in DOMAIN orphan' : Among(orphan'[j], orphan)
    BY DEF Among
  <1>3. orphan' \in Seq(OutboxCommand) /\ UNCHANGED <<device, call>>
    BY <1>0
  <1> QED
    BY <1>1, <1>2, <1>3, Bystander

(* Connecting, subscribing, hearing, hanging up and losing a connection.   *)
LEMMA SocketSteps ==
  ASSUME SyncInv,
         Connect \/ Subscribe \/ Hear \/ SocketDrops \/ HangUp \/ ListenerChanges
  PROVE  SyncInv'
  <1>0. EngineTypes /\ HubCapacity \in Nat
    BY SyncAssumption DEF SyncInv, DeviceInv
  <1>1. UNCHANGED <<store, device, call, orphan>>
    BY DEF Connect, Subscribe, Hear, SocketDrops, HangUp, ListenerChanges, engine
  <1>2. UNCHANGED <<owner, user>>
    BY DEF Connect, Subscribe, Hear, SocketDrops, HangUp, ListenerChanges, engine
  <1>3. /\ loop' \in {"away", "calling", "waiting", "woken", "listening"}
        /\ owner = "loop" => loop' = "waiting"
    BY <1>0 DEF Connect, Subscribe, Hear, SocketDrops, HangUp, ListenerChanges, engine,
                Connected, EngineTypes
  <1>4. socket' \in {"closed", "upgraded", "subscribed"}
    BY <1>0 DEF Connect, Subscribe, Hear, SocketDrops, HangUp, ListenerChanges, realtime,
                EngineTypes
  <1>5. hints' \in 0 .. HubCapacity
    BY <1>0 DEF Connect, Subscribe, Hear, SocketDrops, HangUp, ListenerChanges, realtime,
                EngineTypes
  <1>6. EngineTypes'
    BY <1>0, <1>1, <1>2, <1>3, <1>4, <1>5 DEF EngineTypes
  <1> QED
    BY <1>1, <1>2, <1>6, EngineOnly

(* A joiner looks again.                                                   *)
LEMMA WakeSteps ==
  ASSUME SyncInv, UserWakes \/ LoopWakes
  PROVE  SyncInv'
  <1>0. EngineTypes
    BY DEF SyncInv, DeviceInv
  <1>1. UNCHANGED <<store, device, call, orphan, owner, realtime>>
    BY DEF UserWakes, LoopWakes
  <1>2. user' \in Caller /\ (owner = "user" => user'.pc = "waiting")
    <2>1. CASE UserWakes
      <3>1. user.pc = "woken" /\ (user' = [user EXCEPT !.pc = "calling"] \/ user' = Idle)
        BY <2>1 DEF UserWakes
      <3>2. user \in Caller /\ owner # "user"
        BY <1>0, <3>1 DEF EngineTypes
      <3>3. [user EXCEPT !.pc = "calling"] \in Caller /\ Idle \in Caller
        BY <3>2 DEF Caller, Idle
      <3> QED
        BY <3>1, <3>2, <3>3
    <2>2. CASE LoopWakes
      BY <1>0, <2>2 DEF LoopWakes, EngineTypes
    <2> QED
      BY <2>1, <2>2
  <1>3. /\ loop' \in {"away", "calling", "waiting", "woken", "listening"}
        /\ owner = "loop" => loop' = "waiting"
    BY <1>0 DEF UserWakes, LoopWakes, EngineTypes
  <1>4. EngineTypes'
    BY <1>0, <1>1, <1>2, <1>3 DEF EngineTypes, realtime
  <1>5. user'.pc = "storing" => user' = user
    <2>1. CASE UserWakes
      <3>1. user' = [user EXCEPT !.pc = "calling"] \/ user' = Idle
        BY <2>1 DEF UserWakes
      <3>2. user \in Caller
        BY <1>0 DEF EngineTypes
      <3> QED
        BY <3>1, <3>2 DEF Caller, Idle
    <2>2. CASE LoopWakes
      BY <2>2 DEF LoopWakes
    <2> QED
      BY <2>1, <2>2
  <1> QED
    BY <1>1, <1>4, <1>5, EngineOnly

-----------------------------------------------------------------------------
(* Requests that begin and end                                             *)

(* A request that is over, or has not begun.                               *)
Between(c) ==
  /\ c.stage \in {"idle", "history", "end"} /\ c.todo = << >> /\ c.done = << >>
  /\ c.current = NULL /\ c.row = NoRow

(* It claims nothing.                                                      *)
LEMMA BetweenOK ==
  ASSUME Between(call')
  PROVE  AnswersOK' /\ AskedOK' /\ RequestOK' /\ ReadOK'
  <1>1. DOMAIN call'.done = {} /\ NULL \notin Sessions /\ ~NoRow.offline
    BY SyncAssumption DEF Between, NoRow
  <1>2. AnswersOK'
    BY <1>1 DEF AnswersOK
  <1>3. AskedOK'
    BY DEF AskedOK, Asking, Between
  <1>4. RequestOK'
    BY DEF RequestOK, Asking, Between
  <1>5. ReadOK'
    BY <1>1 DEF ReadOK, Between, Live
  <1> QED
    BY <1>2, <1>3, <1>4, <1>5

(* The record of no request.                                               *)
LEMMA NoCallFacts ==
  /\ NoCall \in Call /\ Between(NoCall) /\ NoCall.stage = "idle"
  /\ NoCall.throw = FALSE
  <1>1. NoRow \in Row /\ << >> \in Seq(OutboxCommand) /\ << >> \in Seq(Result)
    BY NoRowType
  <1> QED
    BY <1>1 DEF NoCall, Call, Stages, Between

(* What is sent is what is due of the outbox, and nothing but a postponed  *)
(* cheer stays behind.                                                     *)
LEMMA PendingRows ==
  ASSUME SyncInv
  PROVE  /\ Pending \in Seq(OutboxCommand)
         /\ \A j \in DOMAIN Pending : Among(Pending[j], outbox)
         /\ \A i \in DOMAIN outbox : outbox[i].op # "session.cheer" =>
              Among(outbox[i], Pending)
  <1> DEFINE I == {i \in DOMAIN outbox : outbox[i].after =< clock}
  <1>0. outbox \in Seq(OutboxCommand) /\ clock \in Nat /\ CommandsOK
    BY DEF SyncInv, DeviceInv, DeviceTypes, ServerInv, TypeOK
  <1>1. \A i \in DOMAIN outbox : outbox[i].op # "session.cheer" => i \in I
    BY <1>0 DEF CommandsOK, Minted
  <1>2. Pending = Picked(outbox, I)
    BY DEF Pending
  <1> HIDE DEF I
  <1>3. /\ Pending \in Seq(OutboxCommand)
        /\ \A j \in DOMAIN Pending : \E i \in DOMAIN outbox \cap I : Pending[j] = outbox[i]
        /\ \A i \in DOMAIN outbox \cap I : \E j \in DOMAIN Pending : Pending[j] = outbox[i]
    BY <1>0, <1>2, PickedRows
  <1> QED
    BY <1>1, <1>3 DEF Among

(* A new request asks for all it must and starts at the cursor.            *)
LEMMA RequestFacts ==
  ASSUME SyncInv, NEW throw \in BOOLEAN, call' = Request(throw),
         UNCHANGED <<outbox, cursor>>
  PROVE  /\ call' \in Call /\ call'.stage = "commands"
         /\ \A j \in DOMAIN call'.todo : Among(call'.todo[j], outbox)
         /\ AnswersOK' /\ AskedOK' /\ RequestOK' /\ ReadOK'
  <1>0. cursor \in Nat /\ NULL \notin Sessions /\ ~NoRow.offline
    BY SyncAssumption DEF SyncInv, DeviceInv, DeviceTypes, NoRow
  <1>1. PICK todo \in Seq(OutboxCommand) : todo = Pending
    BY PendingRows
  <1>2. call' = [NoCall EXCEPT !.stage = "commands", !.todo = todo, !.from = cursor,
                               !.throw = throw]
    BY <1>1 DEF Request
  <1>3. /\ call'.stage = "commands" /\ call'.todo = todo /\ call'.done = << >>
        /\ call'.from = cursor /\ call'.current = NULL /\ call'.row = NoRow
    BY <1>2 DEF NoCall
  <1>4. call' \in Call
    <2>1. NoCall \in Call
      BY NoCallFacts
    <2> QED
      BY <1>0, <1>2, <2>1 DEF Call, Stages
  <1>5. \A j \in DOMAIN call'.todo : Among(call'.todo[j], outbox)
    BY <1>1, <1>3, PendingRows
  <1>6. AnswersOK'
    <2>1. DOMAIN call'.done = {}
      BY <1>3
    <2> QED
      BY <2>1 DEF AnswersOK
  <1>7. AskedOK'
    <2> SUFFICES ASSUME NEW i \in DOMAIN outbox, outbox[i].op # "session.cheer"
                 PROVE  InRequest(outbox[i].key)'
      BY DEF AskedOK
    <2>1. Among(outbox[i], todo)
      BY <1>1, PendingRows
    <2> QED
      BY <1>3, <2>1 DEF InRequest, Among
  <1>8. RequestOK'
    BY <1>3 DEF RequestOK, Asking
  <1>9. ReadOK'
    BY <1>0, <1>3 DEF ReadOK, Live
  <1> QED
    BY <1>3, <1>4, <1>5, <1>6, <1>7, <1>8, <1>9

(* A step that leaves the device's tables alone: what remains to be shown  *)
(* is about the request.                                                   *)
LEMMA TablesSame ==
  ASSUME SyncInv, NEW K \in SUBSET issued, Served(K), UNCHANGED device,
         orphan' \in Seq(OutboxCommand), EngineTypes',
         user'.pc = "storing" => user' = user,
         \A j \in DOMAIN orphan' :
           Among(orphan'[j], orphan) \/ Among(orphan'[j], call.todo),
         \A j \in DOMAIN call'.todo :
           Among(call'.todo[j], call.todo) \/ Among(call'.todo[j], outbox),
         AnswersOK', AskedOK', RequestOK', ReadOK'
  PROVE  SyncInv'
  <1>0. /\ local' = local /\ outbox' = outbox /\ cursor' = cursor
        /\ issued' = issued /\ refused' = refused /\ raced' = raced
    BY DEF device
  <1>1. DeviceTypes'
    BY KeepsTypes
  <1>2. CommandsOK'
    BY <1>0, KeepsCommands
  <1>3. UnseenOK'
    BY <1>0, KeepsUnseen
  <1>4. OwnOK'
    BY <1>0, KeepsOwn
  <1>5. CommandsSettleOnce'
    BY <1>0, KeepsSettled
  <1>6. NothingSkipped' /\ ShownOK'
    BY <1>0, KeepsShown
  <1> QED
    BY <1>1, <1>2, <1>3, <1>4, <1>5, <1>6
    DEF SyncInv, DeviceInv, Served, StoreServed, Counted

(* A caller starts a sync or joins the one that is active.                 *)
LEMMA SyncSteps ==
  ASSUME SyncInv, UserSyncs \/ LoopSyncs
  PROVE  SyncInv'
  <1>0. ServerInv /\ EngineTypes /\ orphan \in Seq(OutboxCommand)
    BY DEF SyncInv, DeviceInv, DeviceTypes
  <1>1. UNCHANGED <<store, device, orphan, realtime>>
    BY DEF UserSyncs, LoopSyncs
  <1>2. /\ user' \in Caller /\ (user.pc = "waiting" => user'.pc = "waiting")
        /\ loop' \in {"away", "calling", "waiting", "woken", "listening"}
        /\ loop = "waiting" => loop' = "waiting"
    <2>1. user \in Caller /\ [user EXCEPT !.pc = "waiting"] \in Caller
      BY <1>0 DEF EngineTypes, Caller
    <2>2. CASE UserSyncs
      BY <1>0, <2>1, <2>2 DEF UserSyncs, EngineTypes, Caller
    <2>3. CASE LoopSyncs
      BY <1>0, <2>1, <2>3 DEF LoopSyncs, EngineTypes
    <2> QED
      BY <2>2, <2>3
  <1>3. /\ socket' \in {"closed", "upgraded", "subscribed"} /\ hints' \in 0 .. HubCapacity
    BY <1>0, <1>1 DEF realtime, EngineTypes
  <1>4. user'.pc = "storing" => user' = user
    <2>1. CASE UserSyncs
      <3>1. user' = [user EXCEPT !.pc = "waiting"] /\ user \in Caller
        BY <1>0, <2>1 DEF UserSyncs, EngineTypes
      <3> QED
        BY <3>1 DEF Caller
    <2>2. CASE LoopSyncs
      BY <2>2 DEF LoopSyncs
    <2> QED
      BY <2>1, <2>2
  <1>5. CASE owner # "none"
    <2>1. UNCHANGED <<owner, call>>
      BY <1>5 DEF UserSyncs, LoopSyncs, BeginOrJoin
    <2>2. EngineTypes'
      BY <1>0, <1>2, <1>3, <2>1 DEF EngineTypes
    <2> QED
      BY <1>1, <1>4, <2>1, <2>2, EngineOnly
  <1>6. CASE owner = "none"
    <2>1. PICK throw \in BOOLEAN : call' = Request(throw)
      <3>1. user.throw \in BOOLEAN
        BY <1>0 DEF EngineTypes, Caller
      <3> QED
        BY <1>6, <3>1 DEF UserSyncs, LoopSyncs, BeginOrJoin
    <2>2. \/ owner' = "user" /\ user'.pc = "waiting"
          \/ owner' = "loop" /\ loop' = "waiting"
      <3>1. CASE UserSyncs
        <4>1. user' = [user EXCEPT !.pc = "waiting"] /\ user \in Caller /\ owner' = "user"
          BY <1>0, <1>6, <3>1 DEF UserSyncs, BeginOrJoin, EngineTypes
        <4> QED
          BY <4>1 DEF Caller
      <3>2. CASE LoopSyncs
        BY <1>6, <3>2 DEF LoopSyncs, BeginOrJoin
      <3> QED
        BY <3>1, <3>2
    <2>3. /\ call' \in Call /\ call'.stage = "commands"
          /\ \A j \in DOMAIN call'.todo : Among(call'.todo[j], outbox)
          /\ AnswersOK' /\ AskedOK' /\ RequestOK' /\ ReadOK'
      BY <1>1, <2>1, RequestFacts DEF device
    <2>4. EngineTypes'
      BY <1>2, <1>3, <2>2, <2>3 DEF EngineTypes
    <2>5. Served({})
      BY <1>0, <1>1, IdleServed
    <2>6. \A j \in DOMAIN orphan' : Among(orphan'[j], orphan)
      BY <1>1 DEF Among
    <2>7. orphan' \in Seq(OutboxCommand) /\ UNCHANGED device
      BY <1>0, <1>1
    <2> QED
      BY <1>4, <2>3, <2>4, <2>5, <2>6, <2>7, TablesSame
  <1> QED
    BY <1>5, <1>6

(* The orphaned commands after a request is abandoned.                     *)
LEMMA AbandonedRows ==
  ASSUME SyncInv, orphan' = (IF orphan = << >> THEN call.todo ELSE orphan) \/ orphan' = orphan
  PROVE  /\ orphan' \in Seq(OutboxCommand)
         /\ \A j \in DOMAIN orphan' :
              Among(orphan'[j], orphan) \/ Among(orphan'[j], call.todo)
  <1>1. orphan \in Seq(OutboxCommand) /\ call.todo \in Seq(OutboxCommand)
    BY CallFields DEF SyncInv, DeviceInv, DeviceTypes
  <1> QED
    BY <1>1 DEF Among

(* The process is killed.                                                  *)
LEMMA CrashSteps ==
  ASSUME SyncInv, Crash
  PROVE  SyncInv'
  <1>1. /\ call' = NoCall /\ owner' = "none" /\ user' = Launched /\ loop' = "away"
        /\ orphan' = (IF orphan = << >> THEN call.todo ELSE orphan)
        /\ socket' = "closed" /\ hints' = 0 /\ UNCHANGED <<store, device>>
    BY DEF Crash
  <1>2. Served({})
    BY <1>1, IdleServed DEF SyncInv
  <1>3. call' \in Call /\ Between(call') /\ call'.stage = "idle"
    BY <1>1, NoCallFacts
  <1>4. EngineTypes'
    <2>1. Launched \in Caller /\ HubCapacity \in Nat
      BY SyncAssumption DEF Launched, Idle, Caller
    <2> QED
      BY <1>1, <1>3, <2>1 DEF EngineTypes
  <1>5. AnswersOK' /\ AskedOK' /\ RequestOK' /\ ReadOK'
    BY <1>3, BetweenOK
  <1>6. DOMAIN call'.todo = {}
    BY <1>3 DEF Between
  <1>7. UNCHANGED device
    BY <1>1
  <1>8. user'.pc = "calling"
    BY <1>1 DEF Launched, Idle
  <1> QED
    BY <1>1, <1>2, <1>4, <1>5, <1>6, <1>7, <1>8, AbandonedRows, TablesSame

(* A row with an id of this device may be dropped: nobody else started it. *)
LEMMA DroppedRow ==
  ASSUME SyncInv, NEW s \in MySessions, UNCHANGED <<store, cursor, issued, raced>>,
         user'.pc = "storing" => user' = user,
         local' = [local EXCEPT ![s] = NoRow]
  PROVE  OwnOK' /\ NothingSkipped' /\ ShownOK'
  <1>0. /\ ServerInv /\ OwnOK /\ NothingSkipped /\ ShownOK
        /\ local \in [Sessions -> Row] /\ s \in Sessions
    BY SyncAssumption DEF SyncInv, DeviceInv, DeviceTypes
  <1>1. /\ local'[s] = NoRow /\ \A t \in Sessions : t # s => local'[t] = local[t]
        /\ session' = session /\ events' = events /\ number' = number
    BY <1>0 DEF store
  <1>2. OwnOK'
    <2>1. ~NoRow.offline
      BY DEF NoRow
    <2>2. user'.pc = "storing" =>
            /\ user'.unsaved \in Write
            /\ user'.unsaved.session \in MySessions /\ user'.unsaved.session \in issued
      BY <1>0 DEF OwnOK
    <2> QED
      BY <1>0, <1>1, <2>1, <2>2 DEF OwnOK, Live
  <1>3. NothingSkipped'
    <2> SUFFICES ASSUME NEW i \in 1 .. Len(events), StateEvent(i), number[i] =< cursor,
                        ~Overtaken(i), session[events[i].session].startedBy # Me
                 PROVE  local'[events[i].session] # NoRow
      BY <1>1 DEF NothingSkipped, StateEvent, Overtaken
    <2>1. PICK t \in Sessions : t = events[i].session /\ session[t] # NoRow
      BY <1>0, EventFacts
    <2>2. t # s
      BY <1>0, <2>1 DEF OwnOK
    <2>3. local[t] # NoRow
      BY <1>0, <2>1 DEF NothingSkipped
    <2> QED
      BY <1>1, <2>1, <2>2, <2>3
  <1>4. ShownOK'
    <2> SUFFICES ASSUME NEW t \in Sessions, local'[t] # NoRow, t \notin raced
                 PROVE  Shows(local[t], t, cursor)'
      BY DEF ShownOK
    <2>1. local'[t] = local[t]
      BY <1>1
    <2>2. Shows(local[t], t, cursor)
      BY <1>0, <2>1 DEF ShownOK
    <2> QED
      BY <1>1, <2>1, <2>2 DEF Shows, Named, StateEvent, Overtaken
  <1> QED
    BY <1>2, <1>3, <1>4

(* The active sync completes.                                              *)
LEMMA CompletedSteps ==
  ASSUME SyncInv, NEW outcome, Completed(outcome), call' = NoCall,
         UNCHANGED <<store, outbox, cursor, issued, refused, raced>>,
         orphan' = (IF orphan = << >> THEN call.todo ELSE orphan) \/ orphan' = orphan
  PROVE  SyncInv'
  <1>0. ServerInv /\ EngineTypes /\ DeviceTypes
    BY DEF SyncInv, DeviceInv
  <1>1. Served({})
    BY <1>0, IdleServed
  <1>2. call' \in Call /\ Between(call') /\ call'.stage = "idle"
    BY NoCallFacts
  <1>3. EngineTypes'
    <2>1. owner' = "none"
      BY DEF Completed
    <2>2. user' \in Caller
      <3>1. user' \in {user, Idle, [user EXCEPT !.pc = "woken"]}
        BY DEF Completed
      <3>2. user \in Caller /\ Idle \in Caller /\ [user EXCEPT !.pc = "woken"] \in Caller
        BY <1>0 DEF EngineTypes, Caller, Idle
      <3> QED
        BY <3>1, <3>2
    <2>3. loop' \in {"away", "calling", "waiting", "woken", "listening"}
      BY <1>0 DEF Completed, EngineTypes
    <2>4. socket' \in {"closed", "upgraded", "subscribed"}
      BY <1>0 DEF Completed, EngineTypes
    <2>5. hints' \in 0 .. HubCapacity
      BY <1>0, SyncAssumption DEF Completed, EngineTypes
    <2> QED
      BY <1>2, <2>1, <2>2, <2>3, <2>4, <2>5 DEF EngineTypes
  <1>4. AnswersOK' /\ AskedOK' /\ RequestOK' /\ ReadOK'
    BY <1>2, BetweenOK
  <1>5. DOMAIN call'.todo = {}
    BY <1>2 DEF Between
  <1>6. \/ local' = local /\ notes' = notes
        \/ \E s \in MySessions : /\ local' = [local EXCEPT ![s] = NoRow]
                                 /\ notes' = [notes EXCEPT ![s] = << >>]
    <2>1. user.start \in MySessions \cup {NULL}
      BY <1>0 DEF EngineTypes, Caller
    <2> QED
      BY <2>1 DEF Completed
  <1>7. user'.pc = "storing" => user' = user
    <2>1. user' \in {user, Idle, [user EXCEPT !.pc = "woken"]}
      BY DEF Completed
    <2>2. user \in Caller
      BY <1>0 DEF EngineTypes
    <2> QED
      BY <2>1, <2>2 DEF Caller, Idle
  <1>8. CASE local' = local /\ notes' = notes
    <2>1. UNCHANGED device
      BY <1>8 DEF device
    <2> QED
      BY <1>1, <1>3, <1>4, <1>5, <1>7, <2>1, AbandonedRows, TablesSame
  <1>9. ASSUME NEW s \in MySessions, local' = [local EXCEPT ![s] = NoRow],
               notes' = [notes EXCEPT ![s] = << >>]
        PROVE  SyncInv'
    <2>1. DeviceTypes'
      <3>1. PICK n : n = Len(events) /\ n = Len(events')
        BY DEF store
      <3>2. local' \in [Sessions -> Row]
        BY <1>0, <1>9, NoRowType, SyncAssumption DEF DeviceTypes
      <3>3. notes \in [Sessions -> Seq(1 .. n)] /\ << >> \in Seq(1 .. n)
        BY <1>0, <3>1 DEF DeviceTypes
      <3>4. notes' \in [Sessions -> Seq(1 .. n)]
        BY <1>9, <3>3, SyncAssumption
      <3>5. orphan' \in Seq(OutboxCommand)
        BY AbandonedRows
      <3>6. cursor' = cursor /\ events' = events /\ number' = number
        BY DEF store
      <3>7. issued' = issued /\ refused' = refused /\ raced' = raced /\ outbox' = outbox
        OBVIOUS
      <3> QED
        BY <1>0, <3>1, <3>2, <3>4, <3>5, <3>6, <3>7 DEF DeviceTypes, CursorIs
    <2>2. CommandsOK'
      BY <1>1, <1>5, AbandonedRows, KeepsCommands
    <2>3. UnseenOK'
      BY <1>1, <1>5, KeepsUnseen
    <2>4. CommandsSettleOnce'
      BY <1>1, KeepsSettled
    <2>5. OwnOK' /\ NothingSkipped' /\ ShownOK'
      BY <1>9, <1>7, DroppedRow
    <2> QED
      BY <1>1, <1>3, <1>4, <2>1, <2>2, <2>3, <2>4, <2>5
      DEF SyncInv, DeviceInv, Served, StoreServed, Counted
  <1> QED
    BY <1>6, <1>8, <1>9

(* A request fails.                                                        *)
LEMMA FailSteps ==
  ASSUME SyncInv, RequestFails
  PROVE  SyncInv'
  <1>1. PICK outcome : Completed(outcome)
    BY DEF RequestFails
  <1> QED
    BY <1>1, CompletedSteps DEF RequestFails

(* _performSync ends, or asks for the next page.                           *)
LEMMA FinishSteps ==
  ASSUME SyncInv, Finish
  PROVE  SyncInv'
  <1>1. ASSUME NEW outcome, Completed(outcome), call' = NoCall
        PROVE  SyncInv'
    BY <1>1, CompletedSteps DEF Finish
  <1>2. CASE call' = Request(call.throw) /\
             UNCHANGED <<owner, user, loop, local, notes, socket, hints>>
    <2>0. /\ ServerInv /\ EngineTypes /\ call.throw \in BOOLEAN /\ call.stage = "end"
          /\ orphan \in Seq(OutboxCommand)
      BY CallFields DEF SyncInv, DeviceInv, DeviceTypes, Finish
    <2>1. UNCHANGED store /\ UNCHANGED device /\ orphan' = orphan /\ user' = user
      BY <1>2 DEF Finish, device
    <2>2. PICK throw \in BOOLEAN : call' = Request(throw)
      BY <1>2, <2>0
    <2>3. /\ call' \in Call /\ call'.stage = "commands"
          /\ \A j \in DOMAIN call'.todo : Among(call'.todo[j], outbox)
          /\ AnswersOK' /\ AskedOK' /\ RequestOK' /\ ReadOK'
      BY <2>1, <2>2, RequestFacts DEF device
    <2>4. EngineTypes'
      BY <1>2, <2>0, <2>3 DEF EngineTypes
    <2>5. Served({})
      BY <2>0, <2>1, IdleServed
    <2>6. orphan' \in Seq(OutboxCommand) /\ \A j \in DOMAIN orphan' : Among(orphan'[j], orphan)
      BY <2>0, <2>1 DEF Among
    <2> QED
      BY <2>1, <2>3, <2>4, <2>5, <2>6, TablesSame
  <1> QED
    BY <1>1, <1>2 DEF Finish

-----------------------------------------------------------------------------
(* The sync handler                                                        *)

(* The next command is answered: whatever the answer, it is true.          *)
LEMMA AnswerSteps ==
  ASSUME SyncInv, NEW K \in SUBSET issued, Served(K), UNCHANGED device,
         UNCHANGED <<owner, user, loop, orphan, socket, listener>>,
         hints' \in 0 .. HubCapacity,
         call.stage = "commands", call.todo # << >>,
         \A k \in K : k = Head(call.todo).key,
         NEW r \in Result, r.key = Head(call.todo).key, AnswerOK(r)',
         call' = [call EXCEPT !.todo = Tail(@), !.done = Append(@, r)]
  PROVE  SyncInv'
  <1>0. /\ ServerInv /\ EngineTypes /\ AnswersOK /\ RequestOK /\ ReadOK
        /\ orphan \in Seq(OutboxCommand)
    BY DEF SyncInv, DeviceInv, DeviceTypes
  <1>1. PICK todo \in Seq(OutboxCommand), done \in Seq(Result) :
          todo = call.todo /\ done = call.done
    BY CallFields
  <1>2. /\ call'.todo = Tail(todo) /\ call'.done = Append(done, r)
        /\ call'.stage = call.stage /\ call'.from = call.from
        /\ call'.current = call.current /\ call'.row = call.row
    BY <1>0, <1>1 DEF EngineTypes, Call
  <1>3. /\ Tail(todo) \in Seq(OutboxCommand)
        /\ 1 \in DOMAIN todo /\ todo[1] = Head(todo)
        /\ \A j \in DOMAIN Tail(todo) : Among(Tail(todo)[j], todo)
        /\ \A i \in DOMAIN todo : i = 1 \/ (i - 1 \in DOMAIN Tail(todo) /\ Tail(todo)[i - 1] = todo[i])
    BY <1>1, TailAmong
  <1>4. /\ Append(done, r) \in Seq(Result) /\ Len(done) \in Nat
        /\ DOMAIN Append(done, r) = 1 .. Len(done) + 1 /\ DOMAIN done = 1 .. Len(done)
        /\ Append(done, r)[Len(done) + 1] = r
        /\ \A j \in DOMAIN done : Append(done, r)[j] = done[j]
    OBVIOUS
  <1>5. EngineTypes'
    <2>1. call' \in Call
      <3>1. call' = [call EXCEPT !.todo = Tail(todo), !.done = Append(done, r)]
        BY <1>1
      <3> QED
        BY <1>0, <1>3, <1>4, <3>1 DEF EngineTypes, Call
    <2> QED
      BY <1>0, <1>2, <2>1 DEF EngineTypes
  <1>6. outbox' = outbox /\ cursor' = cursor /\ issued' = issued
    BY DEF device
  <1>7. AnswersOK'
    <2> SUFFICES ASSUME NEW j \in DOMAIN call'.done
                 PROVE  AnswerOK(call.done[j])'
      BY DEF AnswersOK
    <2>1. PICK q : q = call'.done[j]
      OBVIOUS
    <2>2. AnswerOK(q)'
      <3>1. CASE j = Len(done) + 1
        BY <1>2, <1>4, <2>1, <3>1
      <3>2. CASE j \in DOMAIN done
        <4>1. q = call.done[j] /\ j \in DOMAIN call.done
          BY <1>1, <1>2, <1>4, <2>1, <3>2
        <4>2. q.key \in Keys /\ AnswerOK(q)
          BY <1>0, <4>1, ResultFields DEF AnswersOK
        <4> QED
          BY <1>6, <4>2, AnswerStays
      <3> QED
        BY <1>2, <1>4, <3>1, <3>2
    <2> QED
      BY <2>1, <2>2 DEF AnswerOK
  <1>8. AskedOK'
    <2>1. ASSUME NEW k \in Keys, InRequest(k)
          PROVE  InRequest(k)'
      <3>1. CASE \E j \in DOMAIN done : done[j].key = k
        <4>1. PICK j \in DOMAIN done : done[j].key = k
          BY <3>1
        <4>2. j \in DOMAIN call'.done /\ call'.done[j].key = k
          BY <1>2, <1>4, <4>1
        <4> QED
          BY <4>2 DEF InRequest
      <3>2. CASE \E j \in DOMAIN todo : todo[j].key = k
        <4>1. PICK j \in DOMAIN todo : todo[j].key = k
          BY <3>2
        <4>2. CASE j = 1
          <5>1. Len(done) + 1 \in DOMAIN call'.done /\ call'.done[Len(done) + 1].key = k
            BY <1>1, <1>2, <1>3, <1>4, <4>1, <4>2
          <5> QED
            BY <5>1 DEF InRequest
        <4>3. CASE j # 1
          <5>1. j - 1 \in DOMAIN call'.todo /\ call'.todo[j - 1].key = k
            BY <1>2, <1>3, <4>1, <4>3
          <5> QED
            BY <5>1 DEF InRequest
        <4> QED
          BY <4>2, <4>3
      <3> QED
        BY <1>1, <2>1, <3>1, <3>2 DEF InRequest
    <2>2. \A k \in K : InRequest(k)
      BY <1>1, <1>3 DEF InRequest
    <2>3. Asking' => Asking
      BY <1>2 DEF Asking
    <2>4. \A j \in DOMAIN orphan' : Among(orphan'[j], orphan)
      BY DEF Among
    <2> QED
      BY <1>6, <2>1, <2>2, <2>3, <2>4, KeepsAsked
  <1>9. RequestOK'
    BY <1>0, <1>2, <1>6 DEF RequestOK, Asking
  <1>10. ReadOK'
    <2>1. call.current = NULL /\ NULL \notin Sessions
      BY <1>0, SyncAssumption DEF RequestOK
    <2> QED
      BY <1>0, <1>2, <2>1 DEF ReadOK, Live
  <1>11. /\ \A j \in DOMAIN call'.todo : Among(call'.todo[j], call.todo)
         /\ \A j \in DOMAIN orphan' : Among(orphan'[j], orphan)
         /\ orphan' \in Seq(OutboxCommand) /\ user' = user
    BY <1>0, <1>1, <1>2, <1>3 DEF Among
  <1> QED
    BY <1>5, <1>7, <1>8, <1>9, <1>10, <1>11, TablesSame

(* applySyncCommand commits a command, answers it from its key or refuses  *)
(* it.                                                                     *)
LEMMA CommandSteps ==
  ASSUME SyncInv, applySyncCommand
  PROVE  SyncInv'
  <1>0. /\ ServerInv /\ EngineTypes /\ CommandsOK /\ UnseenOK
        /\ call.todo \in Seq(OutboxCommand) /\ CursorIs(cursor)
    BY CallFields DEF SyncInv, DeviceInv, DeviceTypes
  <1>1. PICK c : c = Head(call.todo)
    OBVIOUS
  <1> DEFINE Answer(result) ==
               call' = [call EXCEPT !.todo = Tail(@), !.done = Append(@, result)]
  <1>2. /\ call.stage = "commands" /\ call.todo # << >>
        /\ UNCHANGED device /\ UNCHANGED <<owner, user, loop, orphan, socket, listener>>
    BY Zenon DEF applySyncCommand
  <1>3. /\ c \in OutboxCommand /\ 1 \in DOMAIN call.todo /\ call.todo[1] = c
    BY <1>0, <1>1, <1>2, TailAmong
  <1>4. c.key \in Keys /\ Minted(c) /\ c.key \in issued /\ Unseen(c)
    BY <1>0, <1>3, CommandFields DEF CommandsOK, UnseenOK, Minted
  <1>5. outbox' = outbox /\ cursor' = cursor /\ issued' = issued
    BY <1>2 DEF device
  <1>6. \/ /\ ServerApplies(c) /\ DrawsNow /\ Publish
           /\ Answer(Outcome(c, "applied", Len(events')))
        \/ /\ ~getIdempotency(Me, c.key) /\ idem[Me][c.key].op = c.op
           /\ Answer(Outcome(c, "applied", EventOfKey(c.key))) /\ StoreIdle
        \/ /\ Answer(Outcome(c, IF CooledDown(c) THEN "later" ELSE "refused", 0))
           /\ StoreIdle
    BY <1>1, Zenon DEF applySyncCommand
  <1>7. CASE /\ ServerApplies(c) /\ DrawsNow /\ Publish
             /\ Answer(Outcome(c, "applied", Len(events')))
    <2>1. /\ Served({c.key}) /\ Len(events') \in Under(c.key)'
          /\ number'[Len(events')] > serial
      BY <1>0, <1>3, <1>4, <1>7, OwnServed
    <2>2. Len(events') \in Nat
      BY <1>0, <2>1, ServedLog
    <2>3. PICK r, K : r = Outcome(c, "applied", Len(events')) /\ K = {c.key}
      OBVIOUS
    <2>4. /\ r \in Result /\ r.key = c.key /\ r.outcome = "applied"
          /\ r.at = Len(events')
      BY <1>4, <2>2, <2>3 DEF Outcome, Result
    <2>5. AnswerOK(r)'
      <3>1. number'[r.at] > cursor
        <4>1. PICK n : n = cursor /\ n \in Nat /\ n =< serial
          BY <1>0, <2>1, ServedCursor
        <4>2. NumbersOK' /\ serial \in Nat
          BY <2>1 DEF Served, Counted, SyncInv, NumbersOK
        <4>3. number'[Len(events')] \in Nat
          BY <2>1, <4>2 DEF NumbersOK, Under
        <4> QED
          BY <2>1, <2>4, <4>1, <4>2, <4>3
      <3> QED
        BY <1>4, <1>5, <2>1, <2>4, <3>1 DEF AnswerOK
    <2>6. hints' \in 0 .. HubCapacity
      BY <1>7, <2>1, PublishFits
    <2> QED
      BY <1>1, <1>2, <1>4, <1>7, <2>1, <2>3, <2>4, <2>5, <2>6, AnswerSteps
  <1>8. CASE /\ ~getIdempotency(Me, c.key) /\ idem[Me][c.key].op = c.op
             /\ Answer(Outcome(c, "applied", EventOfKey(c.key))) /\ StoreIdle
    <2>1. /\ Served({}) /\ hints' \in 0 .. HubCapacity /\ events' = events
          /\ number' = number
      BY <1>0, <1>8, IdleServed DEF StoreIdle, EngineTypes, store
    <2>2. PICK n : n = EventOfKey(c.key)
      OBVIOUS
    <2>3. n \in 1 .. Len(events) /\ n \in Under(c.key)
      <3>1. idem[Me][c.key].op # NULL
        BY <1>8 DEF getIdempotency
      <3>2. \E i \in 1 .. Len(events) : events[i].actor = Me /\ events[i].key = c.key
        BY <1>0, <1>4, <3>1, SyncAssumption DEF ServerInv, KeysOK
      <3> QED
        BY <2>2, <3>2 DEF EventOfKey, Under
    <2>4. StateEvent(n) => number[n] > cursor
      <3>1. CASE c.op # "session.cheer"
        BY <1>4, <2>3, <3>1 DEF Unseen
      <3>2. CASE c.op = "session.cheer"
        <4>1. ~Carries(events, n)
          BY <1>0, <1>4, <1>8, <2>3, <3>2, SyncAssumption
          DEF ServerInv, CheersCarryNothing, Under
        <4> QED
          BY <4>1 DEF StateEvent, Carries
      <3> QED
        BY <3>1, <3>2
    <2>5. PICK r : r = Outcome(c, "applied", n)
      OBVIOUS
    <2>6. r \in Result /\ r.key = c.key /\ r.outcome = "applied" /\ r.at = n
      BY <1>4, <2>3, <2>5 DEF Outcome, Result
    <2>7. AnswerOK(r)'
      BY <1>4, <1>5, <2>1, <2>3, <2>4, <2>6 DEF AnswerOK, Under, StateEvent
    <2> QED
      BY <1>1, <1>2, <1>8, <2>1, <2>2, <2>5, <2>6, <2>7, AnswerSteps
  <1>9. CASE /\ Answer(Outcome(c, IF CooledDown(c) THEN "later" ELSE "refused", 0))
             /\ StoreIdle
    <2>1. Served({}) /\ hints' \in 0 .. HubCapacity
      BY <1>0, <1>9, IdleServed DEF StoreIdle, EngineTypes
    <2>2. PICK o : o = IF CooledDown(c) THEN "later" ELSE "refused"
      OBVIOUS
    <2>3. PICK r : r = Outcome(c, o, 0)
      OBVIOUS
    <2>4. o \in {"later", "refused"} /\ (o = "later" => c.op = "session.cheer")
      BY <2>2 DEF CooledDown
    <2>5. r \in Result /\ r.key = c.key /\ r.outcome = o
      BY <1>4, <2>3, <2>4 DEF Outcome, Result
    <2>6. \A i \in DOMAIN outbox : outbox[i].key = c.key => outbox[i].op = c.op
      BY <1>0, <1>3 DEF CommandsOK
    <2>7. AnswerOK(r)'
      BY <1>4, <1>5, <2>4, <2>5, <2>6 DEF AnswerOK
    <2> QED
      BY <1>1, <1>2, <1>9, <2>1, <2>2, <2>3, <2>5, <2>7, AnswerSteps
  <1> QED
    BY <1>6, <1>7, <1>8, <1>9

(* The row of a session is the one its last event carries.                 *)
LEMMA RowUpToDate ==
  ASSUME ServerInv, NEW s \in Sessions, session[s] # NoRow
  PROVE  session[s].state # "none" /\ UpTo(session[s], s, Len(events))
  <1>0. events \in Seq(Event) /\ Len(events) \in Nat
    BY DEF ServerInv, TypeOK
  <1>1. session[s].state # "none"
    BY DEF ServerInv, Existing
  <1>2. PICK m \in 1 .. Len(events) :
          /\ events[m].session = s /\ events[m].row = session[s]
          /\ \A j \in m + 1 .. Len(events) : events[j].session = s => ~Carries(events, j)
    BY DEF ServerInv, LogOK, Replayed
  <1>3. Carries(events, m)
    BY <1>1, <1>2 DEF Carries
  <1>4. ASSUME NEW i \in 1 .. Len(events), Named(s, i)
        PROVE  session[s] = events[i].row \/ session[s].version > events[i].row.version
    <2>1. events[i].session = s /\ Carries(events, i)
      BY <1>4 DEF Named, StateEvent, Carries
    <2>2. i =< m
      BY <1>0, <1>2, <2>1
    <2>3. CASE i = m
      BY <1>2, <2>3
    <2>4. CASE i < m
      <3>1. events[i].row.version < events[m].row.version
        BY <1>2, <1>3, <2>1, <2>4 DEF ServerInv, LogOK, Versioned
      <3>2. events[i].row.version \in Nat /\ events[m].row.version \in Nat
        BY EventFacts
      <3> QED
        BY <1>2, <3>1, <3>2
    <2> QED
      BY <2>2, <2>3, <2>4
  <1> QED
    BY <1>1, <1>4 DEF UpTo

(* A read of the handler: the commands and their answers stay.             *)
LEMMA ReadSteps ==
  ASSUME SyncInv, Served({}), UNCHANGED device,
         UNCHANGED <<owner, user, loop, orphan, socket, listener>>,
         hints' \in 0 .. HubCapacity, Asking,
         call' \in Call, Asking', call'.todo = call.todo, call'.done = call.done,
         RequestOK', ReadOK'
  PROVE  SyncInv'
  <1>0. /\ ServerInv /\ EngineTypes /\ AnswersOK /\ orphan \in Seq(OutboxCommand)
    BY DEF SyncInv, DeviceInv, DeviceTypes
  <1>1. EngineTypes'
    BY <1>0 DEF EngineTypes, Asking
  <1>2. outbox' = outbox /\ cursor' = cursor /\ issued' = issued
    BY DEF device
  <1>3. AnswersOK'
    <2> SUFFICES ASSUME NEW j \in DOMAIN call'.done
                 PROVE  AnswerOK(call.done[j])'
      BY DEF AnswersOK
    <2>1. PICK q : q = call.done[j] /\ q = call'.done[j]
      OBVIOUS
    <2>2. q.key \in Keys /\ AnswerOK(q)
      BY <1>0, <2>1, ResultFields DEF AnswersOK
    <2>3. AnswerOK(q)'
      BY <1>2, <2>2, AnswerStays
    <2> QED
      BY <2>1, <2>3 DEF AnswerOK
  <1>4. \A j \in DOMAIN orphan' : Among(orphan'[j], orphan)
    BY DEF Among
  <1>5. AskedOK'
    <2>1. \A k \in Keys : InRequest(k) => InRequest(k)'
      BY DEF InRequest
    <2> QED
      BY <1>2, <1>4, <2>1, KeepsAsked
  <1>6. \A j \in DOMAIN call'.todo : Among(call'.todo[j], call.todo)
    BY DEF Among
  <1>7. orphan' \in Seq(OutboxCommand) /\ user' = user
    BY <1>0
  <1> QED
    BY <1>1, <1>3, <1>4, <1>5, <1>6, <1>7, TablesSame

(* The sweep and the id of the live session.                               *)
LEMMA ReadCurrentSteps ==
  ASSUME SyncInv, ReadCurrent
  PROVE  SyncInv'
  <1>0. /\ ServerInv /\ EngineTypes /\ RequestOK /\ ReadOK /\ call \in Call
    BY CallFields DEF SyncInv, DeviceInv
  <1>1. /\ call.stage = "commands" /\ call.todo = << >> /\ Publish
        /\ UNCHANGED device /\ UNCHANGED <<owner, user, loop, orphan, socket, listener>>
    BY DEF ReadCurrent
  <1>2. Served({})
    <2>1. CASE CurrentSession(Me) /\ DrawsNow
      BY <1>0, <2>1, SweepServed, SyncAssumption
    <2>2. CASE UNCHANGED store
      BY <1>0, <2>2, IdleServed
    <2> QED
      BY <2>1, <2>2 DEF ReadCurrent
  <1>3. hints' \in 0 .. HubCapacity
    BY <1>1, <1>2, PublishFits
  <1>4. cursor' = cursor /\ call.current = NULL /\ call.from = cursor /\ NULL \notin Sessions
    BY <1>0, <1>1, SyncAssumption DEF device, RequestOK, Asking
  <1>5. \/ call' = [call EXCEPT !.stage = "events"]
        \/ \E s \in Sessions : /\ Live(session'[s])
                               /\ call' = [call EXCEPT !.stage = "row", !.current = s]
    <2> DEFINE live == {s \in Sessions : session'[s].pair = PairOf[Me] /\ Live(session'[s])}
    <2>1. live # {} => (CHOOSE s \in live : TRUE) \in live
      OBVIOUS
    <2>2. call' = IF live = {} THEN [call EXCEPT !.stage = "events"]
                  ELSE [call EXCEPT !.stage = "row", !.current = CHOOSE s \in live : TRUE]
      BY Zenon DEF ReadCurrent
    <2> QED
      BY <2>1, <2>2
  <1>6. CASE call' = [call EXCEPT !.stage = "events"]
    <2>1. /\ call' \in Call /\ call'.stage = "events" /\ call'.todo = call.todo
          /\ call'.done = call.done /\ call'.from = call.from
          /\ call'.current = call.current /\ call'.row = call.row
      BY <1>0, <1>6 DEF Call, Stages
    <2>2. RequestOK'
      BY <1>1, <1>4, <2>1 DEF RequestOK, Asking
    <2>3. ReadOK'
      BY <1>0, <1>4, <2>1 DEF ReadOK, Live
    <2>4. Asking /\ Asking'
      BY <1>1, <2>1 DEF Asking
    <2> QED
      BY <1>1, <1>2, <1>3, <2>1, <2>2, <2>3, <2>4, ReadSteps
  <1>7. ASSUME NEW s \in Sessions, Live(session'[s]),
               call' = [call EXCEPT !.stage = "row", !.current = s]
        PROVE  SyncInv'
    <2>1. /\ call' \in Call /\ call'.stage = "row" /\ call'.todo = call.todo
          /\ call'.done = call.done /\ call'.from = call.from
          /\ call'.current = s /\ call'.row = call.row
      BY <1>0, <1>7 DEF Call, Stages
    <2>2. RequestOK'
      BY <1>1, <1>4, <2>1 DEF RequestOK, Asking
    <2>3. session'[s] # NoRow
      BY <1>7 DEF Live, LiveStates, NoRow
    <2>4. ReadOK'
      BY <1>0, <2>1, <2>3 DEF ReadOK, Live
    <2>5. Asking /\ Asking'
      BY <1>1, <2>1 DEF Asking
    <2> QED
      BY <1>1, <1>2, <1>3, <2>1, <2>2, <2>4, <2>5, ReadSteps
  <1> QED
    BY <1>5, <1>6, <1>7

(* The row of that id.                                                     *)
LEMMA ReadRowSteps ==
  ASSUME SyncInv, ReadRow
  PROVE  SyncInv'
  <1>0. /\ ServerInv /\ EngineTypes /\ RequestOK /\ ReadOK /\ call \in Call
        /\ session \in [Sessions -> Row] /\ Len(events) \in Nat
    BY CallFields DEF SyncInv, DeviceInv, ServerInv, TypeOK
  <1>1. /\ call.stage = "row" /\ StoreIdle
        /\ UNCHANGED device /\ UNCHANGED <<owner, user, loop, orphan, socket, listener>>
    BY DEF ReadRow
  <1>2. PICK s \in Sessions : s = call.current
    BY <1>0, <1>1 DEF ReadOK
  <1>3. /\ Served({}) /\ hints' \in 0 .. HubCapacity /\ session' = session
        /\ events' = events
    BY <1>0, <1>1, IdleServed DEF StoreIdle, EngineTypes, store
  <1>4. PICK row \in Row, n \in Nat : row = session[s] /\ n = Len(events)
    BY <1>0
  <1>5. call' = [call EXCEPT !.stage = "company", !.row = row, !.rowAt = n]
    BY <1>2, <1>4 DEF ReadRow
  <1>6. /\ call' \in Call /\ call'.stage = "company" /\ call'.todo = call.todo
        /\ call'.done = call.done /\ call'.from = call.from
        /\ call'.current = s /\ call'.row = row /\ call'.rowAt = n
    BY <1>0, <1>2, <1>5 DEF Call, Stages
  <1>7. session[s] # NoRow
    BY <1>0, <1>2 DEF ReadOK
  <1>8. row.state # "none" /\ UpTo(row, s, n)
    BY <1>0, <1>4, <1>7, RowUpToDate
  <1>9. row.offline => ~Live(row)
    BY <1>0, <1>4 DEF ServerInv, ImportsOver
  <1>10. UpTo(row, s, n)'
    BY <1>3, <1>8 DEF UpTo, Named, StateEvent
  <1>11. KnownAt(call.rowAt)'
    <2>1. CursorIs(cursor) /\ cursor' = cursor
      BY <1>1 DEF SyncInv, DeviceInv, DeviceTypes, device
    <2>2. number' = number
      BY <1>1 DEF StoreIdle, store
    <2> QED
      BY <1>4, <1>6, <2>1, <2>2 DEF CursorIs, KnownAt
  <1>12. ReadOK'
    <2>1. UpTo(call.row, s, call.rowAt)'
      BY <1>6, <1>10 DEF UpTo
    <2>2. call'.rowAt \in 0 .. Len(events') /\ session'[s] = call'.row
      BY <1>3, <1>4, <1>6
    <2> QED
      BY <1>3, <1>6, <1>7, <1>8, <1>9, <1>11, <2>1, <2>2
      DEF ReadOK, Live
  <1>13. RequestOK'
    BY <1>0, <1>1, <1>6 DEF RequestOK, Asking, device
  <1>14. Asking /\ Asking'
    BY <1>1, <1>6 DEF Asking
  <1> QED
    BY <1>1, <1>3, <1>6, <1>12, <1>13, <1>14, ReadSteps

(* Its members.                                                            *)
LEMMA ReadCompanySteps ==
  ASSUME SyncInv, ReadCompany
  PROVE  SyncInv'
  <1>0. /\ ServerInv /\ EngineTypes /\ RequestOK /\ ReadOK /\ call \in Call
        /\ session \in [Sessions -> Row] /\ Len(events) \in Nat
    BY CallFields DEF SyncInv, DeviceInv, ServerInv, TypeOK
  <1>1. /\ call.stage = "company" /\ StoreIdle
        /\ UNCHANGED device /\ UNCHANGED <<owner, user, loop, orphan, socket, listener>>
    BY DEF ReadCompany
  <1>2. PICK s \in Sessions : s = call.current
    BY <1>0, <1>1 DEF ReadOK
  <1>3. /\ Served({}) /\ hints' \in 0 .. HubCapacity /\ session' = session
        /\ events' = events
    BY <1>0, <1>1, IdleServed DEF StoreIdle, EngineTypes, store
  <1>4. PICK old \in Row, n \in Nat, m \in Nat :
          old = call.row /\ n = call.rowAt /\ m = Len(events)
    BY <1>0, CallFields
  <1>5. PICK row : row = [old EXCEPT !.members = session[s].members]
    OBVIOUS
  <1>6. /\ row \in Row /\ row.state = old.state /\ row.offline = old.offline
        /\ session[s] = old => row = old
    <2>1. session[s] \in Row
      BY <1>0
    <2> QED
      BY <1>5, <2>1 DEF Row
  <1>7. call' = [call EXCEPT !.stage = "events", !.row = row, !.seenTo = m]
    BY <1>0, <1>2, <1>4, <1>5 DEF ReadCompany, Call
  <1>8. /\ call' \in Call /\ call'.stage = "events" /\ call'.todo = call.todo
        /\ call'.done = call.done /\ call'.from = call.from
        /\ call'.current = s /\ call'.row = row /\ call'.rowAt = n /\ call'.seenTo = m
    BY <1>0, <1>2, <1>4, <1>6, <1>7 DEF Call, Stages
  <1>9. /\ session[s] # NoRow /\ old.state # "none" /\ n \in 0 .. m
        /\ UpTo(old, s, n) /\ KnownAt(n)
        /\ session[s] = old \/ \E i \in n + 1 .. m : Named(s, i)
        /\ old.offline => ~Live(old)
    BY <1>0, <1>1, <1>2, <1>4 DEF ReadOK
  <1>10. UpTo(row, s, n)' \/ \E i \in n + 1 .. m : Named(s, i)'
    <2>1. UpTo(row, s, n) \/ \E i \in n + 1 .. m : Named(s, i)
      BY <1>6, <1>9
    <2> QED
      BY <1>3, <2>1 DEF UpTo, Named, StateEvent
  <1>11. ReadOK'
    <2>1. UpTo(call.row, s, call.rowAt)' <=> UpTo(row, s, n)'
      BY <1>8 DEF UpTo
    <2>2. call'.rowAt \in 0 .. Len(events') /\ call'.seenTo \in call'.rowAt .. Len(events')
      BY <1>3, <1>4, <1>8, <1>9
    <2>3. row.offline => ~Live(row)
      BY <1>6, <1>9 DEF Live
    <2>4. KnownAt(call.rowAt)'
      <3>1. number' = number /\ cursor' = cursor
        BY <1>1 DEF StoreIdle, store, device
      <3> QED
        BY <1>8, <1>9, <3>1 DEF KnownAt
    <2> QED
      BY <1>3, <1>6, <1>8, <1>9, <1>10, <2>1, <2>2, <2>3, <2>4 DEF ReadOK, Live
  <1>12. RequestOK'
    BY <1>0, <1>1, <1>8 DEF RequestOK, Asking, device
  <1>13. Asking /\ Asking'
    BY <1>1, <1>8 DEF Asking
  <1> QED
    BY <1>1, <1>3, <1>8, <1>11, <1>12, <1>13, ReadSteps

(* A page has the events with the smallest numbers, up to the largest of   *)
(* them.                                                                   *)
LEMMA PageFacts ==
  ASSUME NumbersOK, Len(events) \in Nat, call.from \in Nat, CursorIs(call.from),
         NEW n, n = IF Page = {} THEN call.from ELSE Max({number[i] : i \in Page})
  PROVE  /\ n \in Nat /\ call.from =< n /\ CursorIs(n)
         /\ Page \subseteq 1 .. Len(events)
         /\ \A i \in Page : call.from < number[i] /\ number[i] =< n
         /\ \A i \in 1 .. Len(events) :
              call.from < number[i] /\ number[i] =< n => i \in Page
  <1>1. /\ serial \in Nat /\ PageLimit \in Nat
        /\ \A i \in 1 .. Len(events) : number[i] \in 1 .. serial
    BY SyncAssumption DEF NumbersOK
  <1> DEFINE U == {i \in 1 .. Len(events) : number[i] > call.from}
             Lower(i) == {j \in U : number[j] < number[i]}
  <1>2. Page = {i \in U : Cardinality(Lower(i)) < PageLimit}
    BY DEF Page
  <1>3. U \subseteq 1 .. Len(events) /\ \A i \in U : number[i] > call.from
    OBVIOUS
  <1>4. ASSUME NEW i \in U
        PROVE  IsFiniteSet(Lower(i)) /\ Cardinality(Lower(i)) \in Nat
    <2>1. IsFiniteSet(1 .. Len(events)) /\ Lower(i) \subseteq 1 .. Len(events)
      BY FS_Interval
    <2>2. PICK S, T : S = 1 .. Len(events) /\ T = Lower(i)
      OBVIOUS
    <2>3. IsFiniteSet(T)
      BY <2>1, <2>2, FS_Subset
    <2>4. Cardinality(T) \in Nat
      BY <2>3, FS_CardinalityType
    <2> QED
      BY <2>2, <2>3, <2>4
  <1>5. CASE Page = {}
    BY <1>1, <1>5
  <1>6. CASE Page # {}
    <2>1. Page \subseteq 1 .. Len(events) /\ \A i \in Page : number[i] > call.from
      BY <1>2, <1>3
    <2>2. PICK T : T = {number[i] : i \in Page}
      OBVIOUS
    <2>3. T \in SUBSET (1 .. serial) /\ T # {} /\ n = Max(T)
      BY <1>1, <1>6, <2>1, <2>2
    <2>4. n \in T /\ \A y \in T : y =< n
      BY <1>1, <2>3, MaxPosition
    <2>5. PICK m \in Page : n = number[m]
      BY <2>2, <2>4
    <2>6. \A i \in Page : number[i] =< n
      BY <2>2, <2>4
    <2>7. ASSUME NEW i \in 1 .. Len(events), call.from < number[i], number[i] =< n
          PROVE  i \in Page
      <3>1. i \in U /\ m \in U /\ Cardinality(Lower(m)) < PageLimit
        BY <1>1, <1>2, <2>5, <2>7
      <3>2. Lower(i) \subseteq Lower(m)
        BY <1>1, <1>3, <2>5, <2>7, <3>1
      <3>3. PICK S, R : S = Lower(m) /\ R = Lower(i)
        OBVIOUS
      <3>4. Cardinality(R) =< Cardinality(S)
        BY <1>4, <3>1, <3>2, <3>3, FS_Subset
      <3>5. Cardinality(Lower(i)) < PageLimit
        <4>1. Cardinality(R) \in Nat /\ Cardinality(S) \in Nat
          BY <1>4, <3>1, <3>3
        <4> HIDE DEF Lower
        <4>2. Cardinality(S) < PageLimit
          BY <3>1, <3>3
        <4> QED
          BY <1>1, <3>3, <3>4, <4>1, <4>2
      <3> QED
        BY <1>2, <3>1, <3>5
    <2>8. n \in Nat /\ call.from =< n /\ CursorIs(n)
      <3>1. m \in 1 .. Len(events) /\ number[m] > call.from
        BY <2>1
      <3>2. n = number[m] /\ number[m] \in 1 .. serial
        BY <1>1, <2>5, <3>1
      <3> HIDE DEF U, Lower
      <3>3. CursorIs(n)
        BY <3>1, <3>2 DEF CursorIs
      <3> QED
        BY <1>1, <3>1, <3>2, <3>3
    <2> QED
      BY <2>1, <2>6, <2>7, <2>8
  <1> QED
    BY <1>5, <1>6

(* One page of events.                                                     *)
LEMMA PairEventsSteps ==
  ASSUME SyncInv, PairEvents
  PROVE  SyncInv'
  <1>0. /\ ServerInv /\ NumbersOK /\ EngineTypes /\ RequestOK /\ ReadOK /\ call \in Call
        /\ cursor \in Nat /\ CursorIs(cursor) /\ Len(events) \in Nat
    <2>1. /\ ServerInv /\ NumbersOK /\ EngineTypes /\ RequestOK /\ ReadOK /\ DeviceTypes
          /\ call \in Call
      BY CallFields DEF SyncInv, DeviceInv
    <2>2. Len(events) \in Nat
      BY <2>1 DEF ServerInv, TypeOK
    <2> QED
      BY <2>1, <2>2 DEF DeviceTypes
  <1>1. /\ call.stage = "events" /\ StoreIdle
        /\ UNCHANGED device /\ UNCHANGED <<owner, user, loop, orphan, socket, listener>>
    BY DEF PairEvents
  <1>2. /\ Served({}) /\ hints' \in 0 .. HubCapacity /\ session' = session
        /\ events' = events /\ number' = number
    BY <1>0, <1>1, IdleServed DEF StoreIdle, EngineTypes, store
  <1>3. call.from = cursor /\ call.todo = << >> /\ cursor' = cursor
    BY <1>0, <1>1 DEF RequestOK, Asking, device
  <1>4. PICK n, page : /\ page = Page
                       /\ n = IF Page = {} THEN call.from ELSE Max({number[i] : i \in Page})
    OBVIOUS
  <1>5. /\ n \in Nat /\ cursor =< n /\ CursorIs(n) /\ page \subseteq 1 .. Len(events)
        /\ \A i \in page : cursor < number[i] /\ number[i] =< n
        /\ \A i \in 1 .. Len(events) : cursor < number[i] /\ number[i] =< n => i \in page
    BY <1>0, <1>3, <1>4, PageFacts
  <1>6. call' = [call EXCEPT !.stage = "reply", !.page = page, !.upto = n]
    BY <1>4 DEF PairEvents
  <1>7. /\ call' \in Call /\ call'.stage = "reply" /\ call'.todo = call.todo
        /\ call'.done = call.done /\ call'.from = call.from /\ call'.upto = n
        /\ call'.page = page
        /\ call'.current = call.current /\ call'.row = call.row
        /\ call'.rowAt = call.rowAt /\ call'.seenTo = call.seenTo
    <2>1. page \subseteq Nat
      BY <1>5
    <2> QED
      BY <1>0, <1>5, <1>6, <2>1 DEF Call, Stages
  <1>8. RequestOK'
    <2>1. PageOK'
      BY <1>2, <1>3, <1>5, <1>7 DEF PageOK, CursorIs
    <2> QED
      BY <1>3, <1>7, <2>1 DEF RequestOK, Asking
  <1>9. ReadOK'
    <2>1. call.row.offline => ~Live(call.row)
      BY <1>0 DEF ReadOK
    <2>2. ASSUME NEW s \in Sessions, call.current = s
          PROVE  /\ session'[s] # NoRow
                 /\ call.row.state # "none" /\ call.rowAt \in 0 .. Len(events')
                 /\ KnownAt(call.rowAt)'
                 /\ call.seenTo \in call.rowAt .. Len(events')
                 /\ \/ UpTo(call.row, s, call.rowAt)'
                    \/ \E i \in call.rowAt + 1 .. call.seenTo : Named(s, i)'
      <3>1. UpTo(call.row, s, call.rowAt)' <=> UpTo(call.row, s, call.rowAt)
        BY <1>2, <1>7 DEF UpTo, Named, StateEvent
      <3>2. \A i : Named(s, i)' <=> Named(s, i)
        BY <1>2 DEF Named, StateEvent
      <3>3. KnownAt(call.rowAt)' <=> KnownAt(call.rowAt)
        BY <1>2, <1>3, <1>7 DEF KnownAt
      <3> QED
        BY <1>0, <1>1, <1>2, <2>2, <3>1, <3>2, <3>3 DEF ReadOK
    <2> QED
      BY <1>7, <2>1, <2>2 DEF ReadOK, Live
  <1>10. Asking /\ Asking'
    BY <1>1, <1>7 DEF Asking
  <1> QED
    BY <1>1, <1>2, <1>7, <1>8, <1>9, <1>10, ReadSteps

-----------------------------------------------------------------------------
(* What the user does                                                      *)

(* Everything about requests and answers.                                  *)
RequestInv ==
  /\ CommandsOK /\ AnswersOK /\ UnseenOK /\ AskedOK /\ RequestOK /\ ReadOK
  /\ CommandsSettleOnce

(* A log that is left alone keeps its notions.                             *)
LEMMA SameLog ==
  ASSUME UNCHANGED store
  PROVE  /\ events' = events /\ number' = number /\ session' = session
         /\ \A i : StateEvent(i)' <=> StateEvent(i)
         /\ \A i : Overtaken(i)' <=> Overtaken(i)
         /\ \A s, i : Named(s, i)' <=> Named(s, i)
         /\ \A row, s, n : UpTo(row, s, n)' <=> UpTo(row, s, n)
         /\ \A row, s, n : Shows(row, s, n)' <=> Shows(row, s, n)
  <1>1. events' = events /\ number' = number /\ session' = session
    BY DEF store
  <1>2. \A i : StateEvent(i)' <=> StateEvent(i)
    BY <1>1 DEF StateEvent
  <1>3. \A i : Overtaken(i)' <=> Overtaken(i)
    BY <1>1 DEF Overtaken
  <1>4. \A s, i : Named(s, i)' <=> Named(s, i)
    BY <1>1, <1>2 DEF Named
  <1>5. \A row, s, n : UpTo(row, s, n)' <=> UpTo(row, s, n)
    BY <1>1, <1>4 DEF UpTo
  <1>6. \A row, s, n : Shows(row, s, n)' <=> Shows(row, s, n)
    BY <1>1, <1>3, <1>4 DEF Shows
  <1> QED
    BY <1>1, <1>2, <1>3, <1>4, <1>5, <1>6

(* So do a store and a request.                                            *)
LEMMA SameStore ==
  ASSUME UNCHANGED <<store, cursor, call, orphan>>
  PROVE  /\ \A k : Under(k)' = Under(k) /\ (InRequest(k)' <=> InRequest(k))
                   /\ (Untouched(k)' <=> Untouched(k))
         /\ number' = number
         /\ \A i : StateEvent(i)' <=> StateEvent(i)
         /\ \A c : Unseen(c)' <=> Unseen(c)
         /\ Asking' <=> Asking
         /\ RequestOK' <=> RequestOK
         /\ ReadOK' <=> ReadOK
  <1>0. /\ events' = events /\ number' = number /\ session' = session
        /\ \A i : StateEvent(i)' <=> StateEvent(i)
        /\ \A i : Overtaken(i)' <=> Overtaken(i)
        /\ \A row, s, n : UpTo(row, s, n)' <=> UpTo(row, s, n)
    BY SameLog
  <1>1. \A k : Under(k)' = Under(k) /\ (InRequest(k)' <=> InRequest(k))
    BY <1>0 DEF Under, InRequest
  <1>2. \A k : Untouched(k)' <=> Untouched(k)
    BY <1>1 DEF Untouched
  <1>3. \A c : Unseen(c)' <=> Unseen(c)
    BY <1>0, <1>1 DEF Unseen
  <1>4. Asking' <=> Asking
    BY DEF Asking
  <1>5. PageOK' <=> PageOK
    BY <1>0 DEF PageOK, CursorIs
  <1>6. RequestOK' <=> RequestOK
    BY <1>4, <1>5 DEF RequestOK
  <1>7. ReadOK' <=> ReadOK
    BY <1>0 DEF ReadOK, Live, UpTo, Named, StateEvent, KnownAt
  <1> QED
    BY <1>0, <1>1, <1>2, <1>3, <1>4, <1>6, <1>7

(* Nothing is enqueued; a session id may be minted.                        *)
LEMMA NothingEnqueued ==
  ASSUME SyncInv, UNCHANGED <<store, cursor, refused, call, orphan, outbox>>,
         issued \subseteq issued', issued' \cap Keys \subseteq issued
  PROVE  RequestInv'
  <1>0. /\ CommandsOK /\ AnswersOK /\ UnseenOK /\ AskedOK /\ RequestOK /\ ReadOK
        /\ CommandsSettleOnce
    BY DEF SyncInv, DeviceInv
  <1>1. CommandsOK'
    BY <1>0, SameStore DEF CommandsOK, Minted
  <1>2. AnswersOK'
    BY <1>0, SameStore DEF AnswersOK, AnswerOK
  <1>3. UnseenOK'
    BY <1>0, SameStore DEF UnseenOK
  <1>4. AskedOK'
    BY <1>0, SameStore DEF AskedOK
  <1>5. RequestOK' /\ ReadOK'
    BY <1>0, SameStore
  <1>6. CommandsSettleOnce'
    <2>1. events' = events
      BY DEF store
    <2> QED
      BY <1>0, <2>1 DEF CommandsSettleOnce
  <1> QED
    BY <1>1, <1>2, <1>3, <1>4, <1>5, <1>6 DEF RequestInv

(* A command is enqueued under a key that was never used.                  *)
LEMMA CommandEnqueued ==
  ASSUME SyncInv, UNCHANGED <<store, cursor, refused, call, orphan>>,
         NEW c \in OutboxCommand, enqueue(c), c.after = 0,
         issued \subseteq issued', issued' \cap Keys \subseteq issued \cup {c.key},
         c.key \in issued',
         c.op \in {"session.start", "session.import_solo"} =>
           c.session \in MySessions /\ c.session \in issued'
  PROVE  RequestInv' /\ outbox' \in Seq(OutboxCommand)
  <1>0. /\ CommandsOK /\ AnswersOK /\ UnseenOK /\ AskedOK /\ RequestOK /\ ReadOK
        /\ CommandsSettleOnce /\ outbox \in Seq(OutboxCommand)
    BY DEF SyncInv, DeviceInv, DeviceTypes
  <1>1. c.key \notin issued /\ c.key \in Keys
    BY DEF enqueue, OutboxCommand
  <1>2. PICK n \in Nat : n = Len(outbox) /\ DOMAIN outbox = 1 .. n
    BY <1>0
  <1>3. /\ outbox' \in Seq(OutboxCommand) /\ DOMAIN outbox' = 1 .. n + 1
        /\ outbox'[n + 1] = c /\ \A i \in 1 .. n : outbox'[i] = outbox[i]
    BY <1>0, <1>2 DEF enqueue
  <1>4. Under(c.key) = {}
    BY <1>0, <1>1 DEF CommandsOK
  <1>5. /\ \A i \in 1 .. n : outbox[i].key # c.key
        /\ \A i \in DOMAIN orphan : orphan[i].key # c.key
        /\ \A i \in DOMAIN call.todo : call.todo[i].key # c.key
        /\ \A i \in DOMAIN call.done : call.done[i].key # c.key
    BY <1>0, <1>1, <1>2 DEF CommandsOK, Minted, AnswersOK, AnswerOK
  <1>6. CommandsOK'
    <2>1. /\ \A i \in 1 .. n : Minted(outbox[i])
          /\ \A i \in DOMAIN orphan : Minted(orphan[i])
          /\ \A i \in DOMAIN call.todo : Minted(call.todo[i])
      BY <1>0, <1>2 DEF CommandsOK
    <2>2. \A d : Minted(d) => Minted(d)'
      BY DEF Minted
    <2>3. Minted(c)'
      BY DEF Minted
    <2>4. \A i \in DOMAIN outbox' : Minted(outbox[i])'
      <3> SUFFICES ASSUME NEW i \in DOMAIN outbox' PROVE Minted(outbox[i])'
        OBVIOUS
      <3>1. PICK d : d = outbox'[i]
        OBVIOUS
      <3>2. Minted(d)'
        BY <1>2, <1>3, <2>1, <2>2, <2>3, <3>1
      <3> QED
        BY <3>1, <3>2 DEF Minted
    <2>5. /\ \A i \in DOMAIN orphan : Minted(orphan[i])'
          /\ \A i \in DOMAIN call.todo : Minted(call.todo[i])'
      BY <2>1 DEF Minted
    <2>6. \A i, j \in DOMAIN outbox' :
            outbox'[i].key = outbox'[j].key => outbox'[i].op = outbox'[j].op
      BY <1>0, <1>2, <1>3, <1>5 DEF CommandsOK
    <2>7. \A i \in DOMAIN outbox', j \in DOMAIN call.todo :
            outbox'[i].key = call.todo[j].key => outbox'[i].op = call.todo[j].op
      BY <1>0, <1>2, <1>3, <1>5 DEF CommandsOK
    <2>8. \A k \in Keys : Under(k)' # {} => k \in issued'
      BY <1>0, SameStore DEF CommandsOK
    <2> QED
      BY <2>4, <2>5, <2>6, <2>7, <2>8 DEF CommandsOK
  <1>7. AnswersOK'
    <2> SUFFICES ASSUME NEW j \in DOMAIN call.done
                 PROVE  AnswerOK(call.done[j])'
      BY DEF AnswersOK
    <2>1. PICK r : r = call.done[j]
      OBVIOUS
    <2>2. AnswerOK(r) /\ r.key # c.key
      BY <1>0, <1>5, <2>1 DEF AnswersOK
    <2>3. r.outcome = "applied" =>
            r.at \in Under(r.key)' /\ (StateEvent(r.at)' => number'[r.at] > cursor)
      BY <2>2, SameStore DEF AnswerOK
    <2>4. r.outcome = "later" =>
            \A i \in DOMAIN outbox' : outbox'[i].key = r.key => outbox'[i].op = "session.cheer"
      BY <1>2, <1>3, <2>2 DEF AnswerOK
    <2>5. AnswerOK(r)'
      BY <2>2, <2>3, <2>4 DEF AnswerOK
    <2> QED
      BY <2>1, <2>5 DEF AnswerOK
  <1>8. UnseenOK'
    <2>1. Unseen(c)
      BY <1>4 DEF Unseen
    <2>2. ASSUME NEW i \in DOMAIN outbox'
          PROVE  Unseen(outbox[i])'
      <3>1. PICK d : d = outbox'[i]
        OBVIOUS
      <3>2. Unseen(d)
        BY <1>0, <1>2, <1>3, <2>1, <3>1 DEF UnseenOK
      <3>3. Unseen(d)'
        BY <3>2, SameStore
      <3> QED
        BY <3>1, <3>3 DEF Unseen
    <2>3. \A j \in DOMAIN call.todo : Unseen(call.todo[j])'
      BY <1>0, SameStore DEF UnseenOK
    <2> QED
      BY <2>2, <2>3 DEF UnseenOK
  <1>9. AskedOK'
    <2> SUFFICES ASSUME Asking', NEW i \in DOMAIN outbox', outbox'[i].op # "session.cheer"
                 PROVE  InRequest(outbox[i].key)' \/ Untouched(outbox[i].key)'
      BY DEF AskedOK
    <2>1. PICK k : k = outbox'[i].key
      OBVIOUS
    <2>2. InRequest(k) \/ Untouched(k)
      <3>1. CASE i = n + 1
        BY <1>3, <1>4, <1>5, <2>1, <3>1 DEF Untouched
      <3>2. CASE i \in 1 .. n
        BY <1>0, <1>2, <1>3, <2>1, <3>2, SameStore DEF AskedOK
      <3> QED
        BY <1>3, <3>1, <3>2
    <2>3. InRequest(k)' \/ Untouched(k)'
      BY <2>2, SameStore
    <2> QED
      BY <2>1, <2>3 DEF InRequest, Untouched, Under
  <1>10. RequestOK' /\ ReadOK'
    BY <1>0, SameStore
  <1>11. CommandsSettleOnce'
    <2> SUFFICES ASSUME NEW k \in issued' \cap Keys
                 PROVE  /\ k \notin refused /\ Under(k)' = {} =>
                             \E i \in DOMAIN outbox' : outbox'[i].key = k
                        /\ \A i, j \in Under(k)' : i = j
      BY DEF CommandsSettleOnce, Under
    <2>1. Under(k)' = Under(k)
      BY SameStore
    <2>2. CASE k = c.key
      <3>1. n + 1 \in DOMAIN outbox' /\ outbox'[n + 1].key = k
        BY <1>2, <1>3, <2>2
      <3> QED
        BY <1>4, <2>1, <2>2, <3>1
    <2>3. CASE k \in issued
      <3>1. /\ k \notin refused /\ Under(k) = {} => \E i \in DOMAIN outbox : outbox[i].key = k
            /\ \A i, j \in Under(k) : i = j
        BY <1>0, <2>3 DEF CommandsSettleOnce, Under
      <3>2. \A i \in DOMAIN outbox : i \in DOMAIN outbox' /\ outbox'[i] = outbox[i]
        BY <1>2, <1>3
      <3> QED
        BY <2>1, <3>1, <3>2
    <2> QED
      BY <2>2, <2>3
  <1> QED
    BY <1>3, <1>6, <1>7, <1>8, <1>9, <1>10, <1>11 DEF RequestInv

(* A row of the local table is replaced by one that is as much up to date. *)
LEMMA RowReplaced ==
  ASSUME SyncInv, UNCHANGED <<store, cursor, raced>>, issued \subseteq issued',
         user'.pc = "storing" =>
           /\ user'.unsaved \in Write
           /\ user'.unsaved.session \in MySessions /\ user'.unsaved.session \in issued',
         NEW s \in Sessions, NEW row \in Row, row # NoRow,
         local' = [local EXCEPT ![s] = row],
         s \notin raced => Shows(row, s, cursor),
         row.offline /\ Live(row) =>
           /\ s \in MySessions /\ s \in issued' /\ row.startedAt \in Nat
           /\ row.state = "paused" => row.pausedAt \in Int /\ row.pauseOrigin # NULL
  PROVE  local' \in [Sessions -> Row] /\ OwnOK' /\ NothingSkipped' /\ ShownOK'
  <1>0. /\ ServerInv /\ OwnOK /\ NothingSkipped /\ ShownOK
        /\ local \in [Sessions -> Row]
    BY DEF SyncInv, DeviceInv, DeviceTypes, ServerInv, TypeOK
  <1>1. /\ local'[s] = row /\ \A t \in Sessions : t # s => local'[t] = local[t]
        /\ session' = session /\ events' = events
    BY <1>0, SameLog
  <1>2. local' \in [Sessions -> Row]
    BY <1>0
  <1>3. OwnOK'
    <2>1. \A t \in MySessions : session[t] # NoRow =>
            session[t].startedBy = Me /\ t \in issued'
      BY <1>0 DEF OwnOK
    <2>2. ASSUME NEW t \in Sessions, local'[t].offline, Live(local'[t])
          PROVE  /\ t \in MySessions /\ t \in issued' /\ local'[t].startedAt \in Nat
                 /\ local'[t].state = "paused" =>
                      local'[t].pausedAt \in Int /\ local'[t].pauseOrigin # NULL
      <3>1. CASE t = s
        BY <1>1, <2>2, <3>1
      <3>2. CASE t # s
        BY <1>0, <1>1, <2>2, <3>2 DEF OwnOK
      <3> QED
        BY <3>1, <3>2
    <2> QED
      BY <1>1, <2>1, <2>2 DEF OwnOK, Live
  <1>4. NothingSkipped'
    <2> SUFFICES ASSUME NEW i \in 1 .. Len(events), StateEvent(i), number[i] =< cursor,
                        ~Overtaken(i), session[events[i].session].startedBy # Me
                 PROVE  local'[events[i].session] # NoRow
      BY <1>1, SameLog DEF NothingSkipped
    <2>1. PICK t \in Sessions : t = events[i].session
      BY <1>0, EventFacts
    <2>2. local[t] # NoRow
      BY <1>0, <2>1 DEF NothingSkipped
    <2> QED
      BY <1>1, <2>1, <2>2
  <1>5. ShownOK'
    <2> SUFFICES ASSUME NEW t \in Sessions, local'[t] # NoRow, t \notin raced
                 PROVE  Shows(local[t], t, cursor)'
      BY DEF ShownOK
    <2>1. PICK q, n : q = local'[t] /\ n = cursor
      OBVIOUS
    <2>2. Shows(q, t, n)
      <3>1. CASE t = s
        BY <1>1, <2>1, <3>1
      <3>2. CASE t # s
        BY <1>0, <1>1, <2>1, <3>2 DEF ShownOK
      <3> QED
        BY <3>1, <3>2
    <2>3. Shows(q, t, n)'
      BY <2>2, SameLog
    <2> QED
      BY <2>1, <2>3 DEF Shows
  <1> QED
    BY <1>2, <1>3, <1>4, <1>5

(* What a step of the user adds up to.                                     *)
LEMMA UserParts ==
  ASSUME SyncInv, UNCHANGED <<store, cursor, refused, raced, call, owner, loop, orphan,
                              realtime>>,
         RequestInv', OwnOK', NothingSkipped', ShownOK',
         local' \in [Sessions -> Row], outbox' \in Seq(OutboxCommand),
         notes' = notes \/ \E s \in Sessions : notes' = [notes EXCEPT ![s] = << >>],
         issued' \subseteq Keys \cup MySessions, user' \in Caller, user.pc # "waiting", user'.pc # "waiting"
  PROVE  SyncInv'
  <1>0. ServerInv /\ EngineTypes /\ DeviceTypes
    BY DEF SyncInv, DeviceInv
  <1>1. Served({})
    BY <1>0, IdleServed
  <1>2. EngineTypes'
    BY <1>0 DEF EngineTypes, realtime
  <1>3. DeviceTypes'
    <2>1. PICK n : n = Len(events) /\ n = Len(events')
      BY DEF store
    <2>2. notes \in [Sessions -> Seq(1 .. n)] /\ << >> \in Seq(1 .. n)
      BY <1>0, <2>1 DEF DeviceTypes
    <2>3. notes' \in [Sessions -> Seq(1 .. n)]
      BY <2>2
    <2>4. cursor' \in Nat /\ CursorIs(cursor)'
      BY <1>0, SameLog DEF DeviceTypes, CursorIs
    <2> QED
      BY <1>0, <2>1, <2>3, <2>4 DEF DeviceTypes
  <1>4. ServerInv' /\ NumbersOK'
    BY <1>1 DEF Served, StoreServed, Counted
  <1> QED
    BY <1>2, <1>3, <1>4 DEF SyncInv, DeviceInv, RequestInv

(* A session nobody has heard of has no events.                            *)
LEMMA UnheardOf ==
  ASSUME SyncInv, NEW s \in MySessions \ issued, NEW row
  PROVE  Shows(row, s, cursor)
  <1>1. session[s] = NoRow /\ ServerInv
    BY DEF SyncInv, DeviceInv, OwnOK
  <1> QED
    BY <1>1, EventFacts DEF Shows, Named

(* The row of a session the user starts.                                   *)
LEMMA OptimisticRow ==
  ASSUME clock \in Nat, NEW s \in Sessions, NEW off \in BOOLEAN
  PROVE  /\ Optimistic(s, off) \in Row /\ Optimistic(s, off) # NoRow
         /\ Optimistic(s, off).state = "open" /\ Optimistic(s, off).startedAt \in Nat
  <1>1. PairOf[Me] \in Pairs \cup {NULL} /\ Me \in Accounts /\ Duration \in Nat
    BY StoreAssumption, SyncAssumption
  <1>2. "open" \in States \cup {"none"}
    BY DEF States, LiveStates
  <1>3. clock \in Int /\ clock + Duration \in Int
    BY <1>1
  <1>4. /\ Optimistic(s, TRUE) \in Row /\ Optimistic(s, TRUE) # NoRow
        /\ Optimistic(s, TRUE).state = "open" /\ Optimistic(s, TRUE).startedAt = clock
    BY <1>1, <1>2, <1>3 DEF Optimistic, NoRow, Row
  <1>5. /\ Optimistic(s, FALSE) \in Row /\ Optimistic(s, FALSE) # NoRow
        /\ Optimistic(s, FALSE).state = "open" /\ Optimistic(s, FALSE).startedAt = clock
    BY <1>1, <1>2, <1>3 DEF Optimistic, NoRow, Row
  <1>6. off = TRUE \/ off = FALSE
    OBVIOUS
  <1> QED
    BY <1>4, <1>5, <1>6, Zenon

(* The user starts a session, with a network or without.                   *)
LEMMA StartSteps ==
  ASSUME SyncInv, NEW s \in Sessions, UserStart(s)
  PROVE  SyncInv'
  <1>0. /\ DeviceTypes /\ clock \in Nat /\ user \in Caller
    BY DEF SyncInv, DeviceInv, ServerInv, TypeOK, EngineTypes
  <1>1. /\ user.pc = "idle" /\ s \in MySessions \ issued /\ issued' = issued \cup {s}
        /\ UNCHANGED <<store, notes, outbox, cursor, refused, raced, call, owner, loop,
                       orphan, realtime>>
    BY DEF UserStart
  <1>2. PICK off \in BOOLEAN : local' = [local EXCEPT ![s] = Optimistic(s, off)]
    BY DEF UserStart
  <1>3. PICK row \in Row : /\ row = Optimistic(s, off) /\ row # NoRow
                           /\ row.state = "open" /\ row.startedAt \in Nat
    BY <1>0, OptimisticRow
  <1>4. \/ UNCHANGED user
        \/ user' = [ pc |-> "storing", start |-> s, throw |-> TRUE,
                     unsaved |-> Unsaved("session.start", s, 0, 0) ]
    BY DEF UserStart
  <1>5. Unsaved("session.start", s, 0, 0) \in Write
    BY DEF Unsaved, Write
  <1>6. /\ user' \in Caller /\ user'.pc \in {"idle", "storing"}
        /\ user'.pc = "storing" => user'.unsaved = Unsaved("session.start", s, 0, 0)
    <2>1. CASE UNCHANGED user
      BY <1>0, <1>1, <2>1
    <2>2. CASE ~ UNCHANGED user
      <3>1. PICK w \in Write : w = Unsaved("session.start", s, 0, 0)
        BY <1>5
      <3>2. user' = [pc |-> "storing", start |-> s, throw |-> TRUE, unsaved |-> w]
        BY <1>4, <2>2, <3>1
      <3>3. s \in MySessions \cup {NULL} /\ w \in Write \cup {NULL}
        BY <1>1
      <3>4. user' \in Caller
        BY <3>2, <3>3 DEF Caller
      <3> QED
        BY <3>1, <3>2, <3>4
    <2> QED
      BY <2>1, <2>2
  <1>7. user'.pc = "storing" =>
          /\ user'.unsaved \in Write
          /\ user'.unsaved.session \in MySessions /\ user'.unsaved.session \in issued'
    BY <1>1, <1>5, <1>6 DEF Unsaved
  <1>8. issued \subseteq issued' /\ s \in issued' /\ issued' \cap Keys \subseteq issued
    BY <1>1, SyncAssumption
  <1>9. local' \in [Sessions -> Row] /\ OwnOK' /\ NothingSkipped' /\ ShownOK'
    <2>1. Shows(row, s, cursor)
      BY <1>1, UnheardOf
    <2> QED
      BY <1>1, <1>2, <1>3, <1>7, <1>8, <2>1, RowReplaced
  <1>10. RequestInv'
    BY <1>1, <1>8, NothingEnqueued
  <1>11. outbox' \in Seq(OutboxCommand) /\ issued' \subseteq Keys \cup MySessions
    BY <1>0, <1>1 DEF DeviceTypes
  <1> QED
    BY <1>1, <1>6, <1>9, <1>10, <1>11, UserParts

(* The command of a row that has been stored is enqueued.                  *)
LEMMA EnqueueSteps ==
  ASSUME SyncInv, NEW k \in Keys, Enqueue(k)
  PROVE  SyncInv'
  <1>0. /\ DeviceTypes /\ user \in Caller /\ OwnOK /\ ServerInv
    BY DEF SyncInv, DeviceInv, EngineTypes
  <1>1. /\ user.pc = "storing" /\ issued' = issued \cup {k}
        /\ user' = [user EXCEPT !.pc = "calling", !.unsaved = NULL]
        /\ UNCHANGED <<store, local, notes, cursor, refused, raced, call, owner, loop,
                       orphan, realtime>>
    BY DEF Enqueue
  <1>2. PICK w \in Write : /\ w = user.unsaved /\ w.session \in MySessions
                           /\ w.session \in issued
    BY <1>0, <1>1 DEF OwnOK, Caller
  <1>3. /\ w.op \in {"session.start", "session.import_solo"} /\ w.session \in Sessions
        /\ w.started \in Nat /\ w.completed \in Nat
    BY DEF Write
  <1>4. PICK c : c = Command(k, w.op, w.session, NoVersion, w.started, w.completed)
    OBVIOUS
  <1>5. /\ c \in OutboxCommand /\ c.after = 0 /\ c.key = k /\ c.session = w.session
    BY <1>3, <1>4 DEF Command, NoVersion, OutboxCommand, Operations
  <1>6. enqueue(c)
    BY <1>2, <1>4 DEF Enqueue
  <1>7. RequestInv' /\ outbox' \in Seq(OutboxCommand)
    BY <1>1, <1>2, <1>5, <1>6, CommandEnqueued
  <1>8. NothingSkipped' /\ ShownOK'
    BY <1>0, <1>1, IdleServed, KeepsShown
  <1>9. user' \in Caller /\ user'.pc = "calling" /\ issued' \subseteq Keys \cup MySessions
    BY <1>0, <1>1 DEF Caller, DeviceTypes
  <1>10. OwnOK'
    BY <1>0, <1>1, <1>9, SameLog DEF OwnOK, Live
  <1> QED
    BY <1>0, <1>1, <1>7, <1>8, <1>9, <1>10, UserParts DEF DeviceTypes

(* The user gives a command.                                               *)
LEMMA UserCommandSteps ==
  ASSUME SyncInv, NEW k \in Keys, NEW s \in Sessions, NEW op \in Offers,
         UserCommand(k, s, op)
  PROVE  SyncInv'
  <1>0. /\ DeviceTypes /\ user \in Caller /\ OwnOK /\ NothingSkipped /\ ShownOK
        /\ local[s] \in Row /\ ServerInv /\ local \in [Sessions -> Row]
    BY DEF SyncInv, DeviceInv, EngineTypes, DeviceTypes
  <1>1. /\ user.pc = "idle" /\ op \in Offered(local[s]) /\ issued' = issued \cup {k}
        /\ user' = [Idle EXCEPT !.pc = "calling", !.throw = TRUE]
        /\ UNCHANGED <<store, local, notes, cursor, refused, raced, call, owner, loop,
                       orphan, realtime>>
    BY DEF UserCommand
  <1>2. op \in Operations /\ op \notin {"session.start", "session.import_solo"}
    <2>1. Offered(local[s]) \subseteq
            {"session.join", "session.resume", "session.complete", "session.pause",
             "session.cheer", "session.note"}
      BY DEF Offered
    <2> QED
      BY <1>1, <2>1 DEF Operations
  <1>3. PICK v : v = IF op \in {"session.note", "session.cheer"} THEN NoVersion
                     ELSE local[s].version
    OBVIOUS
  <1>4. v \in Nat \cup {NULL}
    BY <1>0, <1>3 DEF NoVersion, Row
  <1>5. PICK c : c = Command(k, op, s, v, 0, 0)
    OBVIOUS
  <1>6. /\ c \in OutboxCommand /\ c.after = 0 /\ c.key = k /\ c.op = op
    BY <1>2, <1>4, <1>5 DEF Command, OutboxCommand
  <1>7. enqueue(c)
    BY <1>3, <1>5 DEF UserCommand
  <1>8. RequestInv' /\ outbox' \in Seq(OutboxCommand)
    BY <1>1, <1>2, <1>6, <1>7, CommandEnqueued
  <1>9. NothingSkipped' /\ ShownOK'
    BY <1>0, <1>1, IdleServed, KeepsShown
  <1>10. /\ user' \in Caller /\ user'.pc = "calling"
         /\ issued' \subseteq Keys \cup MySessions
    BY <1>0, <1>1 DEF Caller, Idle, DeviceTypes
  <1>11. OwnOK'
    BY <1>0, <1>1, <1>10, SameLog DEF OwnOK, Live
  <1> QED
    BY <1>0, <1>1, <1>8, <1>9, <1>10, <1>11, UserParts

(* pause, resume, complete and cancel of a session that has not left the   *)
(* device: its row moves on to a version no event carries.                 *)
LEMMA OfflineSteps ==
  ASSUME SyncInv, NEW s \in Sessions, OfflineCommand(s)
  PROVE  SyncInv'
  <1>0. /\ ServerInv /\ DeviceTypes /\ user \in Caller /\ OwnOK /\ ShownOK
        /\ local \in [Sessions -> Row] /\ clock \in Nat
    BY DEF SyncInv, DeviceInv, EngineTypes, DeviceTypes, ServerInv, TypeOK
  <1>1. PICK row \in Row : row = local[s]
    BY <1>0
  <1>2. /\ user.pc = "idle" /\ Live(row) /\ row.offline
        /\ UNCHANGED <<store, outbox, cursor, issued, refused, raced, call, owner, loop,
                       orphan, realtime>>
    BY <1>1 DEF OfflineCommand
  <1>3. /\ s \in MySessions /\ s \in issued /\ row.startedAt \in Nat
        /\ row.state = "paused" => row.pausedAt \in Int /\ row.pauseOrigin # NULL
    BY <1>0, <1>1, <1>2 DEF OwnOK
  <1>4. row # NoRow /\ row.version \in Nat
    BY <1>2 DEF Live, LiveStates, NoRow, Row
  <1>5. ASSUME NEW new \in Row, new.version = row.version + 1
        PROVE  s \notin raced => Shows(new, s, cursor)
    <2> SUFFICES ASSUME s \notin raced, NEW i \in 1 .. Len(events), Named(s, i),
                        number[i] =< cursor, ~Overtaken(i)
                 PROVE  new.version > events[i].row.version
      BY DEF Shows
    <2>1. events[i].row.version \in Nat
      BY <1>0, EventFacts
    <2>2. row = events[i].row \/ row.version > events[i].row.version
      BY <1>0, <1>1, <1>4 DEF ShownOK, Shows
    <2> QED
      BY <1>4, <1>5, <2>1, <2>2
  <1>6. ASSUME NEW new \in Row, new.version = row.version + 1, new.state # "none",
               new.startedAt = row.startedAt,
               new.state = "paused" => new.pausedAt \in Int /\ new.pauseOrigin # NULL,
               local' = [local EXCEPT ![s] = new],
               user'.pc = "storing" =>
                 /\ user'.unsaved \in Write
                 /\ user'.unsaved.session \in MySessions
                 /\ user'.unsaved.session \in issued'
        PROVE  local' \in [Sessions -> Row] /\ OwnOK' /\ NothingSkipped' /\ ShownOK'
    <2>1. new # NoRow
      BY <1>6 DEF NoRow
    <2>2. s \notin raced => Shows(new, s, cursor)
      BY <1>5, <1>6
    <2>3. s \in issued' /\ issued \subseteq issued'
      BY <1>2, <1>3
    <2> QED
      BY <1>2, <1>3, <1>6, <2>1, <2>2, <2>3, RowReplaced
  <1>7. /\ outbox' \in Seq(OutboxCommand) /\ issued' \subseteq Keys \cup MySessions
        /\ RequestInv'
    <2>1. issued \subseteq issued' /\ issued' \cap Keys \subseteq issued
      BY <1>2
    <2> QED
      BY <1>0, <1>2, <2>1, NothingEnqueued DEF DeviceTypes
  <1>8. CASE /\ row.state = "open"
             /\ local' = [local EXCEPT ![s] =
                            [row EXCEPT !.state = "paused", !.pauseOrigin = "open",
                                        !.pausedAt = clock, !.version = @ + 1]]
             /\ UNCHANGED <<notes, user>>
    <2>1. PICK new : new = [row EXCEPT !.state = "paused", !.pauseOrigin = "open",
                                       !.pausedAt = clock, !.version = @ + 1]
      OBVIOUS
    <2>2. "paused" \in States /\ "open" # NULL /\ clock \in Int
      BY <1>0, StoreAssumption DEF States, LiveStates
    <2>3. /\ new \in Row /\ new.version = row.version + 1 /\ new.state = "paused"
          /\ new.startedAt = row.startedAt /\ new.pausedAt = clock
          /\ new.pauseOrigin = "open"
      <3>1. row.version + 1 \in Nat
        BY <1>4
      <3>2. new \in Row
        BY <2>1, <2>2, <3>1 DEF Row
      <3> QED
        BY <2>1, <3>2 DEF Row
    <2>4. local' \in [Sessions -> Row] /\ OwnOK' /\ NothingSkipped' /\ ShownOK'
      BY <1>2, <1>6, <1>8, <2>1, <2>2, <2>3
    <2> QED
      BY <1>0, <1>2, <1>7, <1>8, <2>4, UserParts
  <1>9. CASE /\ row.state = "paused"
             /\ local' = [local EXCEPT ![s] =
                            [row EXCEPT !.state = row.pauseOrigin, !.pauseOrigin = NULL,
                                        !.endsAt = @ + (clock - row.pausedAt),
                                        !.pausedAt = NULL, !.version = @ + 1]]
             /\ UNCHANGED <<notes, user>>
    <2>1. PICK new : new = [row EXCEPT !.state = row.pauseOrigin, !.pauseOrigin = NULL,
                                       !.endsAt = @ + (clock - row.pausedAt),
                                       !.pausedAt = NULL, !.version = @ + 1]
      OBVIOUS
    <2>2. row.pauseOrigin \in {"open", "together"} /\ row.endsAt \in Int
      BY <1>3, <1>9 DEF Row
    <2>3. row.endsAt + (clock - row.pausedAt) \in Int
      BY <1>0, <1>3, <1>9, <2>2
    <2>4. {"open", "together"} \subseteq States
      BY DEF States, LiveStates
    <2>5. /\ new \in Row /\ new.version = row.version + 1
          /\ new.state \in {"open", "together"} /\ new.startedAt = row.startedAt
      <3>1. row.version + 1 \in Nat
        BY <1>4
      <3>2. new \in Row
        BY <2>1, <2>2, <2>3, <2>4, <3>1 DEF Row
      <3> QED
        BY <2>1, <2>2, <3>2 DEF Row
    <2>6. local' \in [Sessions -> Row] /\ OwnOK' /\ NothingSkipped' /\ ShownOK'
      BY <1>2, <1>6, <1>9, <2>1, <2>5
    <2> QED
      BY <1>0, <1>2, <1>7, <1>9, <2>6, UserParts
  <1>10. CASE /\ local' = [local EXCEPT ![s] =
                             [row EXCEPT !.state = "completed", !.completedAt = clock,
                                         !.pauseOrigin = NULL, !.pausedAt = NULL,
                                         !.version = @ + 1]]
              /\ user' = [Idle EXCEPT !.pc = "storing",
                            !.unsaved = Unsaved("session.import_solo", s, row.startedAt,
                                                clock)]
              /\ UNCHANGED notes
    <2>1. PICK new : new = [row EXCEPT !.state = "completed", !.completedAt = clock,
                                       !.pauseOrigin = NULL, !.pausedAt = NULL,
                                       !.version = @ + 1]
      OBVIOUS
    <2>2. "completed" \in States /\ clock \in Int
      BY <1>0 DEF States, EndStates
    <2>3. /\ new \in Row /\ new.version = row.version + 1 /\ new.state = "completed"
          /\ new.startedAt = row.startedAt
      <3>1. row.version + 1 \in Nat
        BY <1>4
      <3>2. new \in Row
        BY <2>1, <2>2, <3>1 DEF Row
      <3> QED
        BY <2>1, <3>2 DEF Row
    <2>4. PICK w : w = Unsaved("session.import_solo", s, row.startedAt, clock)
      OBVIOUS
    <2>5. w \in Write /\ w.session = s
      BY <1>0, <1>3, <2>4 DEF Unsaved, Write
    <2>6. user' = [pc |-> "storing", start |-> NULL, throw |-> FALSE, unsaved |-> w]
      BY <1>10, <2>4 DEF Idle
    <2>7. user' \in Caller
      BY <2>5, <2>6 DEF Caller
    <2>8. user'.pc = "storing" /\ user'.unsaved = w
      BY <2>6
    <2>9. local' = [local EXCEPT ![s] = new]
      BY <1>10, <2>1
    <2>10. /\ user'.unsaved \in Write
           /\ user'.unsaved.session \in MySessions /\ user'.unsaved.session \in issued'
      BY <1>2, <1>3, <2>5, <2>8
    <2>11. local' \in [Sessions -> Row] /\ OwnOK' /\ NothingSkipped' /\ ShownOK'
      BY <1>6, <2>3, <2>9, <2>10
    <2> QED
      BY <1>2, <1>7, <1>10, <2>7, <2>8, <2>11, UserParts
  <1>11. CASE /\ local' = [local EXCEPT ![s] = NoRow]
              /\ notes' = [notes EXCEPT ![s] = << >>]
              /\ UNCHANGED user
    <2>1. local' \in [Sessions -> Row]
      BY <1>0, <1>11, NoRowType
    <2>2. OwnOK' /\ NothingSkipped' /\ ShownOK'
      BY <1>2, <1>3, <1>11, DroppedRow
    <2> QED
      BY <1>0, <1>2, <1>7, <1>11, <2>1, <2>2, UserParts
  <1> QED
    BY <1>1, <1>8, <1>9, <1>10, <1>11, Zenon DEF OfflineCommand

-----------------------------------------------------------------------------
(* Applying a response                                                     *)

(* The notes of a session are positions in the log.                        *)
LEMMA NotePositions ==
  ASSUME ServerInv, NEW s, NEW positions
  PROVE  NoteEvents(s, positions) \in Seq(1 .. Len(events))
  <1> DEFINE I == {i \in positions :
                     /\ events[i].session = s
                     /\ events[i].type = "session.note_added"}
             rows == [i \in 1 .. Len(events) |-> i]
             S == 1 .. Len(events)
  <1>1. rows \in Seq(S)
    BY DEF ServerInv, TypeOK
  <1>2. NoteEvents(s, positions) = Picked(rows, I)
    BY Zenon DEF NoteEvents
  <1> HIDE DEF I, rows, S
  <1>3. Picked(rows, I) \in Seq(S)
    BY <1>1, PickedRows
  <1> QED
    BY <1>2, <1>3 DEF S

(* A row that is up to date with the whole log shows any part of it.       *)
LEMMA UpToShows ==
  ASSUME NEW row, NEW s, NEW n, UpTo(row, s, Len(events))
  PROVE  Shows(row, s, n)
  BY DEF UpTo, Shows

(* The history is refreshed.                                               *)
LEMMA HistorySteps ==
  ASSUME SyncInv, refreshHistory
  PROVE  SyncInv'
  <1>0. /\ ServerInv /\ EngineTypes /\ DeviceTypes /\ OwnOK /\ NothingSkipped /\ ShownOK
        /\ AnswersOK /\ ReadOK /\ call \in Call
        /\ local \in [Sessions -> Row] /\ session \in [Sessions -> Row]
        /\ Len(events) \in Nat
    <2>1. /\ ServerInv /\ EngineTypes /\ DeviceTypes /\ OwnOK /\ NothingSkipped
          /\ ShownOK /\ AnswersOK /\ ReadOK
      BY DEF SyncInv, DeviceInv
    <2>2. call \in Call
      BY CallFields
    <2>3. session \in [Sessions -> Row] /\ Len(events) \in Nat
      BY <2>1 DEF ServerInv, TypeOK
    <2> QED
      BY <2>1, <2>2, <2>3 DEF DeviceTypes
  <1>1. /\ call.stage = "history" /\ call' = [call EXCEPT !.stage = "end"] /\ StoreIdle
        /\ UNCHANGED <<outbox, cursor, issued, refused, raced, owner, user, loop, orphan,
                       socket, listener>>
    BY DEF refreshHistory
  <1>2. /\ Served({}) /\ session' = session /\ events' = events /\ hints' = hints
        /\ number' = number
    BY <1>0, <1>1, IdleServed DEF StoreIdle, store
  <1>3. /\ call' \in Call /\ call'.stage = "end" /\ call'.todo = call.todo
        /\ call'.done = call.done /\ call'.current = call.current /\ call'.row = call.row
    BY <1>0, <1>1 DEF Call, Stages
  <1>4. EngineTypes'
    BY <1>0, <1>1, <1>2, <1>3 DEF EngineTypes
  <1>5. /\ \A j \in DOMAIN call'.todo : Among(call'.todo[j], call.todo)
        /\ \A j \in DOMAIN orphan' : Among(orphan'[j], orphan)
    BY <1>1, <1>3 DEF Among
  <1>6. CommandsOK' /\ UnseenOK' /\ CommandsSettleOnce'
    BY <1>1, <1>2, <1>5, KeepsCommands, KeepsUnseen, KeepsSettled
  <1>7. AnswersOK'
    BY <1>0, <1>1, <1>2, <1>3 DEF AnswersOK, AnswerOK, Under, StateEvent
  <1>8. AskedOK' /\ RequestOK'
    BY <1>3 DEF AskedOK, RequestOK, Asking
  <1>9. ReadOK'
    BY <1>0, <1>2, <1>3 DEF ReadOK, Live
  <1>10. CASE UNCHANGED <<local, notes>>
    <2>1. UNCHANGED device
      BY <1>1, <1>10 DEF device
    <2>2. orphan' \in Seq(OutboxCommand)
      BY <1>0, <1>1 DEF DeviceTypes
    <2>3. user'.pc = "storing" => user' = user
      BY <1>1
    <2> QED
      BY <1>2, <1>4, <1>5, <1>7, <1>8, <1>9, <2>1, <2>2, <2>3, TablesSame
  <1> DEFINE done == {s \in Sessions : session[s].state = "completed"}
  <1>11. CASE /\ local' = [s \in Sessions |-> IF s \in done THEN session[s] ELSE local[s]]
              /\ notes' = [s \in Sessions |-> IF s \in done
                                              THEN NoteEvents(s, 1 .. Len(events))
                                              ELSE notes[s]]
    <2>1. \A s \in Sessions : local'[s] = IF s \in done THEN session[s] ELSE local[s]
      BY <1>11
    <2>2. DeviceTypes'
      <3>1. PICK n : n = Len(events)
        OBVIOUS
      <3>2. \A s \in Sessions : NoteEvents(s, 1 .. Len(events)) \in Seq(1 .. n)
        BY <1>0, <3>1, NotePositions
      <3>3. \A s \in Sessions : notes[s] \in Seq(1 .. n)
        BY <1>0, <3>1 DEF DeviceTypes
      <3>4. notes' \in [Sessions -> Seq(1 .. n)]
        <4> HIDE DEF done
        <4> QED
          BY <1>11, <3>2, <3>3
      <3>5. local' \in [Sessions -> Row]
        BY <1>0, <1>11
      <3>6. cursor' \in Nat /\ CursorIs(cursor)'
        BY <1>0, <1>1, <1>2 DEF DeviceTypes, CursorIs
      <3> QED
        BY <1>0, <1>1, <1>2, <3>1, <3>4, <3>5, <3>6 DEF DeviceTypes
    <2>3. \A s \in done : session[s] # NoRow /\ ~Live(session[s])
      BY DEF NoRow, Live, LiveStates
    <2>4. OwnOK'
      BY <1>0, <1>1, <1>2, <2>1, <2>3 DEF OwnOK, Live
    <2>5. NothingSkipped'
      <3> SUFFICES ASSUME NEW i \in 1 .. Len(events), StateEvent(i), number[i] =< cursor,
                          ~Overtaken(i), session[events[i].session].startedBy # Me
                   PROVE  local'[events[i].session] # NoRow
        BY <1>1, <1>2 DEF NothingSkipped, StateEvent, Overtaken, StoreIdle
      <3>1. PICK t \in Sessions : t = events[i].session
        BY <1>0, EventFacts
      <3>2. local[t] # NoRow
        BY <1>0, <3>1 DEF NothingSkipped
      <3> QED
        BY <2>1, <2>3, <3>1, <3>2
    <2>6. ShownOK'
      <3> SUFFICES ASSUME NEW t \in Sessions, local'[t] # NoRow, t \notin raced
                   PROVE  Shows(local[t], t, cursor)'
        BY <1>1 DEF ShownOK
      <3>1. PICK q, n : q = local'[t] /\ n = cursor
        OBVIOUS
      <3>2. Shows(q, t, n)
        <4>1. CASE t \in done
          <5>1. UpTo(session[t], t, Len(events)) /\ q = session[t]
            BY <1>0, <2>1, <2>3, <3>1, <4>1, RowUpToDate
          <5> QED
            BY <5>1, UpToShows
        <4>2. CASE t \notin done
          BY <1>0, <2>1, <3>1, <4>2 DEF ShownOK
        <4> QED
          BY <4>1, <4>2
      <3>3. Shows(q, t, n)'
        BY <1>1, <3>2, SameLog DEF StoreIdle
      <3> QED
        BY <1>1, <3>1, <3>3 DEF Shows
    <2>7. ServerInv' /\ NumbersOK'
      BY <1>2 DEF Served, StoreServed, Counted
    <2> QED
      BY <1>4, <1>6, <1>7, <1>8, <1>9, <2>2, <2>4, <2>5, <2>6, <2>7
      DEF SyncInv, DeviceInv
  <1> QED
    BY <1>10, <1>11 DEF refreshHistory

(* The outcome a command is given is one the handler answered for its key. *)
LEMMA OutcomeFacts ==
  ASSUME NEW k
  PROVE  \/ OutcomeOf(k) = "none" /\ \A j \in DOMAIN call.done : call.done[j].key # k
         \/ \E j \in DOMAIN call.done :
              call.done[j].key = k /\ call.done[j].outcome = OutcomeOf(k)
  <1>1. CASE \E j \in DOMAIN call.done : call.done[j].key = k
    <2>1. PICK j : j = CHOOSE i \in DOMAIN call.done : call.done[i].key = k
      OBVIOUS
    <2>2. j \in DOMAIN call.done /\ call.done[j].key = k
      BY <1>1, <2>1, Zenon
    <2>3. OutcomeOf(k) = call.done[j].outcome
      BY <1>1, <2>1, Zenon DEF OutcomeOf
    <2> QED
      BY <2>2, <2>3
  <1>2. CASE ~ \E j \in DOMAIN call.done : call.done[j].key = k
    <2>1. OutcomeOf(k) = "none"
      BY <1>2, Zenon DEF OutcomeOf
    <2> QED
      BY <1>2, <2>1
  <1> QED
    BY <1>1, <1>2

(* A command put off keeps everything but the time it is due.              *)
LEMMA PostponedRow ==
  ASSUME NEW c \in OutboxCommand, clock \in Nat
  PROVE  /\ Postponed(c) \in OutboxCommand
         /\ Postponed(c).key = c.key /\ Postponed(c).op = c.op
         /\ Postponed(c).session = c.session
         /\ Postponed(c) = c \/ OutcomeOf(c.key) = "later"
  <1>1. clock + RetryDelay \in Nat
    BY SyncAssumption
  <1>2. CASE OutcomeOf(c.key) = "later"
    <2>1. Postponed(c) = [c EXCEPT !.after = clock + RetryDelay]
      BY <1>2, Zenon DEF Postponed
    <2> QED
      BY <1>1, <1>2, <2>1 DEF OutboxCommand
  <1>3. CASE OutcomeOf(c.key) # "later"
    <2>1. Postponed(c) = c
      BY <1>3, Zenon DEF Postponed
    <2> QED
      BY <2>1
  <1> QED
    BY <1>2, <1>3

(* What remains of the outbox is what was not answered, cooled down        *)
(* commands postponed.                                                     *)
LEMMA RemainingRows ==
  ASSUME SyncInv
  PROVE  /\ Remaining \in Seq(OutboxCommand)
         /\ \A j \in DOMAIN Remaining : \E i \in DOMAIN outbox :
              /\ ~Answered(outbox[i])
              /\ Remaining[j].key = outbox[i].key /\ Remaining[j].op = outbox[i].op
              /\ Remaining[j].session = outbox[i].session
              /\ Remaining[j] = outbox[i] \/ OutcomeOf(outbox[i].key) = "later"
         /\ \A i \in DOMAIN outbox : ~Answered(outbox[i]) =>
              \E j \in DOMAIN Remaining : Remaining[j].key = outbox[i].key
  <1>0. outbox \in Seq(OutboxCommand) /\ clock \in Nat
    BY DEF SyncInv, DeviceInv, DeviceTypes, ServerInv, TypeOK
  <1> DEFINE I == {i \in DOMAIN outbox : ~Answered(outbox[i])}
  <1>1. PICK kept : kept = Picked(outbox, I)
    OBVIOUS
  <1>2. Remaining = [j \in DOMAIN kept |-> Postponed(kept[j])]
    BY <1>1, Zenon DEF Remaining
  <1>3. /\ kept \in Seq(OutboxCommand)
        /\ \A j \in DOMAIN kept : \E i \in DOMAIN outbox \cap I : kept[j] = outbox[i]
        /\ \A i \in DOMAIN outbox \cap I : \E j \in DOMAIN kept : kept[j] = outbox[i]
    <2> HIDE DEF I
    <2> QED
      BY <1>0, <1>1, PickedRows
  <1>4. \A j \in DOMAIN kept : kept[j] \in OutboxCommand
    BY <1>3
  <1>5. ASSUME NEW j \in DOMAIN kept
        PROVE  /\ Remaining[j] \in OutboxCommand
               /\ Remaining[j].key = kept[j].key /\ Remaining[j].op = kept[j].op
               /\ Remaining[j].session = kept[j].session
               /\ Remaining[j] = kept[j] \/ OutcomeOf(kept[j].key) = "later"
    <2>1. PICK c \in OutboxCommand : c = kept[j]
      BY <1>4
    <2>2. Remaining[j] = Postponed(c)
      BY <1>2, <2>1
    <2> QED
      BY <1>0, <2>1, <2>2, PostponedRow
  <1>6. DOMAIN Remaining = DOMAIN kept
    BY <1>2
  <1>7. Remaining \in Seq(OutboxCommand)
    <2>1. DOMAIN kept = 1 .. Len(kept) /\ Len(kept) \in Nat
      BY <1>3
    <2>2. PICK F : F = [j \in 1 .. Len(kept) |-> Postponed(kept[j])]
      OBVIOUS
    <2>3. F = Remaining
      BY <1>2, <2>1, <2>2
    <2>4. F \in [1 .. Len(kept) -> OutboxCommand]
      <3>1. \A j \in 1 .. Len(kept) : F[j] \in OutboxCommand
        BY <1>5, <2>1, <2>3
      <3>2. F = [j \in 1 .. Len(kept) |-> F[j]]
        BY <2>2
      <3> QED
        BY <3>1, <3>2
    <2> QED
      BY <2>1, <2>3, <2>4
  <1>8. ASSUME NEW j \in DOMAIN Remaining
        PROVE  \E i \in DOMAIN outbox :
                 /\ ~Answered(outbox[i])
                 /\ Remaining[j].key = outbox[i].key /\ Remaining[j].op = outbox[i].op
                 /\ Remaining[j].session = outbox[i].session
                 /\ Remaining[j] = outbox[i] \/ OutcomeOf(outbox[i].key) = "later"
    <2>1. PICK i \in DOMAIN outbox \cap I : kept[j] = outbox[i]
      BY <1>3, <1>6
    <2>2. i \in DOMAIN outbox /\ ~Answered(outbox[i])
      OBVIOUS
    <2>3. /\ Remaining[j].key = outbox[i].key /\ Remaining[j].op = outbox[i].op
          /\ Remaining[j].session = outbox[i].session
          /\ Remaining[j] = outbox[i] \/ OutcomeOf(outbox[i].key) = "later"
      BY <1>5, <1>6, <2>1
    <2> HIDE DEF I
    <2> QED
      BY <2>2, <2>3
  <1>9. ASSUME NEW i \in DOMAIN outbox, ~Answered(outbox[i])
        PROVE  \E j \in DOMAIN Remaining : Remaining[j].key = outbox[i].key
    <2>1. i \in DOMAIN outbox \cap I
      BY <1>9
    <2>2. PICK j \in DOMAIN kept : kept[j] = outbox[i]
      BY <1>3, <2>1
    <2> QED
      BY <1>5, <1>6, <2>2
  <1> QED
    BY <1>7, <1>8, <1>9

(* A response about to be applied.                                         *)
Replied == SyncInv /\ call.stage = "reply"

(* What is known of it.                                                    *)
LEMMA ReplyFacts ==
  ASSUME Replied
  PROVE  /\ SyncInv /\ ServerInv /\ NumbersOK /\ AnswersOK /\ ReadOK /\ OwnOK /\ PageOK
         /\ ShownOK /\ NothingSkipped /\ local \in [Sessions -> Row]
         /\ call.todo = << >>
         /\ cursor \in Nat /\ CursorIs(cursor) /\ Len(events) \in Nat
         /\ call.upto \in Nat /\ \A i \in 1 .. Len(events) : number[i] \in Nat \ {0}
  <1>1. /\ SyncInv /\ ServerInv /\ NumbersOK /\ AnswersOK /\ ReadOK /\ OwnOK /\ ShownOK
        /\ NothingSkipped /\ RequestOK /\ DeviceTypes /\ call.stage = "reply"
    BY DEF Replied, SyncInv, DeviceInv
  <1>2. Len(events) \in Nat
    BY <1>1 DEF ServerInv, TypeOK
  <1>3. \A i \in 1 .. Len(events) : number[i] \in Nat \ {0}
    BY <1>1 DEF NumbersOK
  <1>4. PageOK /\ call.todo = << >>
    BY <1>1 DEF RequestOK
  <1> QED
    BY <1>1, <1>2, <1>3, <1>4, CallFields DEF DeviceTypes

(* A state event of a session that the page carries.                       *)
Carried(s, i) == i \in call.page /\ Named(s, i)

(* The row's lock has put the state events of a session in order.          *)
LEMMA NumberedAfter ==
  ASSUME Replied, NEW s \in Sessions, NEW m \in 1 .. Len(events),
         NEW i \in 1 .. Len(events), Named(s, m), Named(s, i), m < i
  PROVE  number[m] < number[i]
  <1>1. NumbersOK /\ ServerInv
    BY ReplyFacts
  <1>2. events[i].type # "session.note_added"
    BY <1>1 DEF ServerInv, NotesBare, Carries, Named, StateEvent
  <1> QED
    BY <1>1, <1>2 DEF NumbersOK, InLockOrder, Named

(* What the page has to carry.                                             *)
LEMMA PageComplete ==
  ASSUME Replied, NEW s \in Sessions, NEW i \in 1 .. Len(events), Named(s, i),
         cursor < number[i], number[i] =< call.upto, ~Overtaken(i)
  PROVE  Carried(s, i)
  BY ReplyFacts DEF PageOK, Named, Carried

(* The last event of the page about a session.                             *)
LEMMA LastEvent ==
  ASSUME Replied, NEW s \in Sessions, StateEvents(s) # {}
  PROVE  \E m \in 1 .. Len(events) :
           /\ m = Max(StateEvents(s)) /\ Carried(s, m)
           /\ \A i \in 1 .. Len(events) : Carried(s, i) => i =< m
  <1>0. Len(events) \in Nat /\ call.page \subseteq 1 .. Len(events)
    BY ReplyFacts DEF PageOK
  <1>1. PICK T : T = StateEvents(s)
    OBVIOUS
  <1>2. T = {i \in call.page : Named(s, i)}
    BY <1>1 DEF StateEvents, Named
  <1>3. T \in SUBSET (1 .. Len(events)) /\ T # {}
    BY <1>0, <1>1, <1>2
  <1>4. Max(T) \in T /\ \A y \in T : y =< Max(T)
    BY <1>0, <1>3, MaxPosition
  <1> QED
    BY <1>1, <1>2, <1>3, <1>4 DEF Carried

(* The last answer about a session: its event carries a row, and the       *)
(* cursor has not passed it.                                               *)
LEMMA LastAnswer ==
  ASSUME Replied, NEW s \in Sessions, StateResults(s) # {}
  PROVE  \E m \in 1 .. Len(events) :
           m = LastResult(s) /\ Named(s, m) /\ number[m] > cursor
  <1>0. AnswersOK /\ call.done \in Seq(Result) /\ Len(call.done) \in Nat
        /\ DOMAIN call.done = 1 .. Len(call.done)
    BY ReplyFacts, CallFields
  <1>1. PICK T : T = StateResults(s)
    OBVIOUS
  <1>2. T \in SUBSET (1 .. Len(call.done)) /\ T # {}
    BY <1>0, <1>1 DEF StateResults
  <1>3. PICK j \in T : j = Max(T)
    BY <1>0, <1>2, MaxPosition
  <1>4. /\ j \in DOMAIN call.done /\ call.done[j].outcome = "applied"
        /\ events[call.done[j].at].session = s /\ StateEvent(call.done[j].at)
    BY <1>1, <1>3 DEF StateResults
  <1>5. LastResult(s) = call.done[j].at
    BY <1>1, <1>3 DEF LastResult
  <1>6. call.done[j].at \in 1 .. Len(events) /\ number[call.done[j].at] > cursor
    BY <1>0, <1>4 DEF AnswersOK, AnswerOK, Under
  <1> QED
    BY <1>4, <1>5, <1>6 DEF Named

(* The four sources of a row.                                              *)
LEMMA RowSource ==
  ASSUME Replied, NEW s \in Sessions
  PROVE  \/ call.current = s /\ LocalAfter(s) = call.row
         \/ \E m \in 1 .. Len(events) :
              /\ LocalAfter(s) = events[m].row /\ Carried(s, m)
              /\ \A i \in 1 .. Len(events) : Carried(s, i) => i =< m
         \/ /\ \A i \in 1 .. Len(events) : ~Carried(s, i)
            /\ \E m \in 1 .. Len(events) :
                 /\ LocalAfter(s) = events[m].row /\ Named(s, m)
                 /\ number[m] > cursor
         \/ /\ \A i \in 1 .. Len(events) : ~Carried(s, i)
            /\ LocalAfter(s) = local[s] /\ (Raced(s) <=> s \in raced)
  <1>1. CASE call.current = s
    <2>1. LocalAfter(s) = call.row
      BY <1>1, Zenon DEF LocalAfter
    <2> QED
      BY <1>1, <2>1
  <1>2. CASE call.current # s /\ StateEvents(s) # {}
    <2>1. LocalAfter(s) = events[Max(StateEvents(s))].row
      BY <1>2, Zenon DEF LocalAfter
    <2>2. PICK m \in 1 .. Len(events) :
            /\ m = Max(StateEvents(s)) /\ Carried(s, m)
            /\ \A i \in 1 .. Len(events) : Carried(s, i) => i =< m
      BY <1>2, LastEvent
    <2>3. LocalAfter(s) = events[m].row
      BY <2>1, <2>2
    <2> QED
      BY <2>2, <2>3
  <1>3. StateEvents(s) = {} => \A i \in 1 .. Len(events) : ~Carried(s, i)
    BY DEF StateEvents, Named, Carried
  <1>4. CASE call.current # s /\ StateEvents(s) = {} /\ StateResults(s) # {}
    <2>1. LocalAfter(s) = events[LastResult(s)].row
      BY <1>4, Zenon DEF LocalAfter
    <2>2. PICK m \in 1 .. Len(events) :
            m = LastResult(s) /\ Named(s, m) /\ number[m] > cursor
      BY <1>4, LastAnswer
    <2>3. LocalAfter(s) = events[m].row
      BY <2>1, <2>2
    <2> QED
      BY <1>3, <1>4, <2>2, <2>3
  <1>5. CASE call.current # s /\ StateEvents(s) = {} /\ StateResults(s) = {}
    <2>1. LocalAfter(s) = local[s]
      BY <1>5, Zenon DEF LocalAfter
    <2>2. Raced(s) <=> s \in raced
      BY <1>5, Zenon DEF Raced
    <2> QED
      BY <1>3, <1>5, <2>1, <2>2
  <1> QED
    BY <1>1, <1>2, <1>4, <1>5

(* An applied row is a row; it is not of offline origin and live unless it *)
(* was there before, and no row disappears.                                *)
LEMMA RowApplied ==
  ASSUME Replied, NEW s \in Sessions
  PROVE  /\ LocalAfter(s) \in Row
         /\ LocalAfter(s) = local[s] \/ (LocalAfter(s).offline => ~Live(LocalAfter(s)))
         /\ local[s] # NoRow => LocalAfter(s) # NoRow
         /\ (\E i \in 1 .. Len(events) : Carried(s, i)) => LocalAfter(s) # NoRow
  <1>0. /\ ServerInv /\ ReadOK /\ local \in [Sessions -> Row] /\ call.row \in Row
        /\ call.stage = "reply"
    BY ReplyFacts, CallFields DEF Replied
  <1>1. PICK new : new = LocalAfter(s)
    OBVIOUS
  <1>2. ASSUME NEW m \in 1 .. Len(events), new = events[m].row, Named(s, m)
        PROVE  new \in Row /\ (new.offline => ~Live(new)) /\ new # NoRow
    <2>1. new \in Row /\ (new.offline => ~Live(new))
      BY <1>0, <1>2, EventFacts
    <2> QED
      BY <1>2, <2>1 DEF Named, StateEvent, NoRow
  <1>3. CASE call.current = s /\ new = call.row
    <2>1. new \in Row /\ (new.offline => ~Live(new)) /\ new.state # "none"
      BY <1>0, <1>3 DEF ReadOK
    <2> QED
      BY <1>1, <2>1 DEF NoRow
  <1>4. CASE \E m \in 1 .. Len(events) : new = events[m].row /\ Named(s, m)
    BY <1>1, <1>2, <1>4
  <1>5. CASE (\A i \in 1 .. Len(events) : ~Carried(s, i)) /\ new = local[s]
    BY <1>0, <1>1, <1>5
  <1> QED
    BY <1>1, <1>3, <1>4, <1>5, RowSource DEF Carried

(* The row an event carries is newer than those of the events before it.   *)
LEMMA EventNewer ==
  ASSUME ServerInv, NEW s \in Sessions, NEW m \in 1 .. Len(events), Named(s, m),
         NEW i \in 1 .. m, Named(s, i)
  PROVE  events[m].row = events[i].row \/ events[m].row.version > events[i].row.version
  <1>1. CASE i = m
    BY <1>1
  <1>2. CASE i # m
    <2>1. Len(events) \in Nat
      BY DEF ServerInv, TypeOK
    <2>2. i \in 1 .. Len(events) /\ i < m
      BY <1>2, <2>1
    <2>3. events[i].row.version < events[m].row.version
      BY <2>2 DEF ServerInv, LogOK, Versioned, Carries, Named, StateEvent
    <2>4. events[i].row.version \in Nat /\ events[m].row.version \in Nat
      BY <2>2, EventFacts
    <2> QED
      BY <2>3, <2>4
  <1> QED
    BY <1>1, <1>2

(* When the current session was read the log had the event of the cursor:  *)
(* a later state event is numbered above it, or was overtaken.             *)
LEMMA NotKnownAt ==
  ASSUME Replied, NEW n \in 0 .. Len(events), KnownAt(n), NEW s \in Sessions,
         NEW i \in n + 1 .. Len(events), Named(s, i), ~Overtaken(i)
  PROVE  i \in 1 .. Len(events) /\ cursor < number[i]
  <1>0. /\ ServerInv /\ NumbersOK /\ Len(events) \in Nat /\ cursor \in Nat
        /\ \A j \in 1 .. Len(events) : number[j] \in Nat \ {0}
    BY ReplyFacts
  <1>1. i \in 1 .. Len(events)
    BY <1>0
  <1>2. ASSUME NEW j \in 1 .. n, cursor = number[j], number[i] =< cursor
        PROVE  FALSE
    <2>1. j \in 1 .. Len(events) /\ j < i /\ j \in 1 .. i - 1
      BY <1>0, <1>1, <1>2
    <2>2. number[j] > number[i] /\ events[j].session # events[i].session
      BY <1>0, <1>1, <1>2, <2>1, Behind DEF ServerInv, NumbersOK, Named, StateEvent,
         Carries
    <2> QED
      BY <2>1, <2>2 DEF Overtaken
  <1> QED
    BY <1>0, <1>1, <1>2 DEF KnownAt

(* An applied row shows the log up to the new cursor, unless the row was   *)
(* read before an event of the page.                                       *)
LEMMA RowShown ==
  ASSUME Replied, NEW s \in Sessions, LocalAfter(s) # NoRow, ~Raced(s)
  PROVE  Shows(LocalAfter(s), s, call.upto)
  <1>0. /\ ServerInv /\ ReadOK /\ ShownOK /\ cursor \in Nat /\ call.upto \in Nat
        /\ Len(events) \in Nat /\ call.stage = "reply"
        /\ call.rowAt \in Nat /\ call.seenTo \in Nat
        /\ \A j \in 1 .. Len(events) : number[j] \in Nat \ {0}
    BY ReplyFacts, CallFields DEF Replied
  <1>1. PICK new : new = LocalAfter(s)
    OBVIOUS
  <1> SUFFICES ASSUME NEW i \in 1 .. Len(events), Named(s, i), number[i] =< call.upto,
                      ~Overtaken(i)
               PROVE  new = events[i].row \/ new.version > events[i].row.version
    BY <1>1 DEF Shows
  <1>2. cursor < number[i] => Carried(s, i)
    BY PageComplete
  <1>3. CASE call.current = s /\ new = call.row
    <2>1. PICK n \in 0 .. Len(events) : n = call.rowAt /\ KnownAt(n)
      BY <1>0, <1>3 DEF ReadOK
    <2>2. /\ call.seenTo \in n .. Len(events)
          /\ UpTo(call.row, s, n) \/ \E j \in n + 1 .. call.seenTo : Named(s, j)
      BY <1>0, <1>3, <2>1 DEF ReadOK
    <2>3. \A j \in n + 1 .. Len(events) :
            j =< call.seenTo \/ j \in call.page => ~Named(s, j)
      BY <1>3, <2>1, Zenon DEF Raced, Named
    <2>4. UpTo(call.row, s, n)
      BY <1>0, <2>1, <2>2, <2>3
    <2>5. CASE i \in n + 1 .. Len(events)
      <3>1. cursor < number[i]
        BY <2>1, <2>5, NotKnownAt
      <3> QED
        BY <1>2, <2>3, <2>5, <3>1 DEF Carried
    <2>6. CASE i \in 1 .. n
      BY <1>3, <2>4, <2>6 DEF UpTo
    <2> QED
      BY <1>0, <2>1, <2>5, <2>6
  <1>4. CASE \E m \in 1 .. Len(events) :
               /\ new = events[m].row /\ Carried(s, m)
               /\ \A j \in 1 .. Len(events) : Carried(s, j) => j =< m
    <2>1. PICK m \in 1 .. Len(events) :
               /\ new = events[m].row /\ Carried(s, m)
               /\ \A j \in 1 .. Len(events) : Carried(s, j) => j =< m
      BY <1>4
    <2>2. Named(s, m) /\ cursor < number[m]
      BY <2>1, ReplyFacts DEF PageOK, Carried
    <2>3. i \in 1 .. m
      <3>1. m < i => number[m] < number[i]
        BY <2>2, NumberedAfter
      <3>2. m < i => cursor < number[i]
        BY <1>0, <2>2, <3>1
      <3> QED
        BY <1>0, <1>2, <2>1, <3>2
    <2> QED
      BY <1>0, <2>1, <2>2, <2>3, EventNewer
  <1>5. CASE /\ \A j \in 1 .. Len(events) : ~Carried(s, j)
             /\ \E m \in 1 .. Len(events) :
                  new = events[m].row /\ Named(s, m) /\ number[m] > cursor
    <2>1. PICK m \in 1 .. Len(events) :
                  new = events[m].row /\ Named(s, m) /\ number[m] > cursor
      BY <1>5
    <2>2. m < i => number[m] < number[i]
      BY <2>1, NumberedAfter
    <2>3. ~(cursor < number[i])
      BY <1>2, <1>5
    <2>4. i \in 1 .. m
      BY <1>0, <2>1, <2>2, <2>3
    <2> QED
      BY <1>0, <2>1, <2>4, EventNewer
  <1>6. CASE /\ \A j \in 1 .. Len(events) : ~Carried(s, j)
             /\ new = local[s] /\ (Raced(s) <=> s \in raced)
    <2>1. Shows(local[s], s, cursor)
      BY <1>0, <1>1, <1>6 DEF ShownOK
    <2>2. number[i] =< cursor
      BY <1>0, <1>2, <1>6
    <2> QED
      BY <1>6, <2>1, <2>2 DEF Shows
  <1> QED
    BY <1>1, <1>3, <1>4, <1>5, <1>6, RowSource

(* The notes of an applied row are positions in the log.                   *)
LEMMA NotesApplied ==
  ASSUME Replied, NEW s \in Sessions
  PROVE  NotesAfter(s) \in Seq(1 .. Len(events))
  <1>0. ServerInv /\ notes[s] \in Seq(1 .. Len(events))
    BY ReplyFacts DEF SyncInv, DeviceInv, DeviceTypes
  <1>1. PICK S : S = Seq(1 .. Len(events))
    OBVIOUS
  <1>2. PICK page : page = NoteEvents(s, call.page)
    OBVIOUS
  <1>3. page \in S /\ notes[s] \in S
    BY <1>0, <1>1, <1>2, NotePositions
  <1>4. \A positions : NoteEvents(s, positions) \in S
    BY <1>0, <1>1, NotePositions
  <1>5. \A a, b \in S : a \o b \in S
    BY <1>1
  <1>6. NotesAfter(s) \in
          {NoteEvents(s, 1 .. call.seenTo),
           NoteEvents(s, (1 .. Max(StateEvents(s))) \cup call.page),
           NoteEvents(s, 1 .. LastResult(s)) \o page, notes[s] \o page, notes[s]}
    BY <1>2, Zenon DEF NotesAfter
  <1> QED
    BY <1>1, <1>3, <1>4, <1>5, <1>6

(* What an unanswered command is: a cheer, or a command that committed     *)
(* nothing and that no abandoned request holds.                            *)
LEMMA UnansweredRows ==
  ASSUME Replied, NEW i \in DOMAIN outbox, ~Answered(outbox[i]),
         outbox[i].op # "session.cheer"
  PROVE  Under(outbox[i].key) = {} /\ OutcomeOf(outbox[i].key) # "later"
  <1>0. SyncInv /\ AskedOK /\ AnswersOK /\ Asking /\ call.todo = << >>
    BY ReplyFacts DEF Replied, SyncInv, DeviceInv, Asking
  <1>1. PICK k : k = outbox[i].key
    OBVIOUS
  <1>2. InRequest(k) \/ Untouched(k)
    BY <1>0, <1>1 DEF AskedOK
  <1>3. OutcomeOf(k) \notin {"applied", "refused"}
    BY <1>1 DEF Answered
  <1>4. ASSUME NEW j \in DOMAIN call.done, call.done[j].key = k,
               call.done[j].outcome = OutcomeOf(k)
        PROVE  FALSE
    <2>1. call.done[j].outcome = "later"
      BY <1>0, <1>3, <1>4, ResultFields
    <2>2. AnswerOK(call.done[j])
      BY <1>0 DEF AnswersOK
    <2> QED
      BY <1>1, <1>4, <2>1, <2>2 DEF AnswerOK
  <1>5. OutcomeOf(k) = "none" /\ \A j \in DOMAIN call.done : call.done[j].key # k
    BY <1>4, OutcomeFacts
  <1>6. ~InRequest(k)
    BY <1>0, <1>5 DEF InRequest
  <1> QED
    BY <1>1, <1>2, <1>5, <1>6 DEF Untouched

(* An answered command is refused, or has an event.                        *)
LEMMA AnsweredRows ==
  ASSUME Replied, NEW c, Answered(c)
  PROVE  OutcomeOf(c.key) = "refused" \/ Under(c.key) # {}
  <1>0. SyncInv /\ AnswersOK
    BY ReplyFacts
  <1>1. PICK k : k = c.key
    OBVIOUS
  <1>2. OutcomeOf(k) \in {"applied", "refused"}
    BY <1>1 DEF Answered
  <1>3. PICK j \in DOMAIN call.done :
              call.done[j].key = k /\ call.done[j].outcome = OutcomeOf(k)
    BY <1>2, OutcomeFacts
  <1>4. AnswerOK(call.done[j])
    BY <1>0 DEF AnswersOK
  <1> QED
    BY <1>1, <1>2, <1>3, <1>4 DEF AnswerOK

(* A response is applied.                                                  *)
LEMMA ApplySteps ==
  ASSUME SyncInv, ApplyResponse
  PROVE  SyncInv'
  <1>0. /\ call.stage = "reply"
        /\ local' = [s \in Sessions |-> LocalAfter(s)]
        /\ notes' = [s \in Sessions |-> NotesAfter(s)]
        /\ outbox' = Remaining
        /\ cursor' = call.upto
        /\ refused' = refused \cup {k \in Keys : OutcomeOf(k) = "refused"}
        /\ raced' = {s \in Sessions : Raced(s)}
        /\ call' = [NoCall EXCEPT
                      !.stage = IF call.page # {} THEN "history" ELSE "end",
                      !.throw = call.throw,
                      !.error = CommandError,
                      !.more = Cardinality(call.page) = PageLimit]
        /\ StoreIdle
        /\ UNCHANGED <<issued, owner, user, loop, orphan, socket, listener>>
    BY DEF ApplyResponse, NextCursor
  <1>1. Replied
    BY <1>0 DEF Replied
  <1>2. /\ ServerInv /\ EngineTypes /\ DeviceTypes /\ OwnOK /\ NothingSkipped
        /\ CommandsOK /\ CommandsSettleOnce /\ AnswersOK
        /\ cursor \in Nat /\ call.upto \in Nat /\ CursorIs(call.upto)
        /\ Len(events) \in Nat
        /\ \A i \in 1 .. Len(events) : number[i] \in Nat
    BY <1>1, ReplyFacts DEF SyncInv, DeviceInv, PageOK
  <1>3. /\ Served({}) /\ session' = session /\ events' = events /\ hints' = hints
        /\ number' = number /\ UNCHANGED store
    BY <1>0, <1>2, IdleServed DEF StoreIdle, store
  <1>4. /\ call' \in Call /\ Between(call') /\ call'.stage # "idle"
        /\ call'.todo = << >>
    <2>1. call.throw \in BOOLEAN
      BY CallFields
    <2>2. PICK g, t, e, m :
            /\ g = (IF call.page # {} THEN "history" ELSE "end")
            /\ t = call.throw /\ e = CommandError
            /\ m = (Cardinality(call.page) = PageLimit)
      OBVIOUS
    <2>3. g \in {"history", "end"} /\ t \in BOOLEAN /\ m \in BOOLEAN
      BY <2>1, <2>2
    <2>4. e \in BOOLEAN
      BY <2>2 DEF CommandError
    <2>5. call' = [NoCall EXCEPT !.stage = g, !.throw = t, !.error = e, !.more = m]
      BY <1>0, <2>2, Zenon
    <2>6. call' \in Call
      BY <2>3, <2>4, <2>5, NoCallFacts DEF Call, Stages
    <2>7. /\ call'.stage = g /\ call'.todo = NoCall.todo /\ call'.done = NoCall.done
          /\ call'.current = NoCall.current /\ call'.row = NoCall.row
      BY <2>5, NoCallFacts DEF Call
    <2> QED
      BY <2>3, <2>6, <2>7, NoCallFacts DEF Between
  <1>5. AnswersOK' /\ AskedOK' /\ RequestOK' /\ ReadOK'
    BY <1>4, BetweenOK
  <1>6. EngineTypes'
    BY <1>0, <1>2, <1>3, <1>4 DEF EngineTypes
  <1>7. DeviceTypes'
    <2>1. local' \in [Sessions -> Row]
      BY <1>0, <1>1, RowApplied
    <2>2. notes' \in [Sessions -> Seq(1 .. Len(events))]
      BY <1>0, <1>1, NotesApplied
    <2>3. outbox' \in Seq(OutboxCommand)
      BY <1>0, RemainingRows
    <2>4. cursor' \in Nat /\ CursorIs(cursor)'
      BY <1>0, <1>2, <1>3 DEF CursorIs
    <2>5. refused' \subseteq Keys /\ raced' \subseteq Sessions
      BY <1>0, <1>2 DEF DeviceTypes
    <2> QED
      BY <1>0, <1>2, <1>3, <2>1, <2>2, <2>3, <2>4, <2>5 DEF DeviceTypes
  <1>8. \A k : Under(k)' = Under(k)
    BY <1>3 DEF Under
  <1>9. ASSUME NEW j \in DOMAIN outbox'
        PROVE  \E i \in DOMAIN outbox :
                 /\ ~Answered(outbox[i])
                 /\ outbox'[j].key = outbox[i].key /\ outbox'[j].op = outbox[i].op
                 /\ outbox'[j].session = outbox[i].session
                 /\ outbox'[j] = outbox[i] \/ outbox[i].op = "session.cheer"
    <2>1. PICK i \in DOMAIN outbox :
              /\ ~Answered(outbox[i])
              /\ outbox'[j].key = outbox[i].key /\ outbox'[j].op = outbox[i].op
              /\ outbox'[j].session = outbox[i].session
              /\ outbox'[j] = outbox[i] \/ OutcomeOf(outbox[i].key) = "later"
      BY <1>0, <1>9, RemainingRows
    <2> QED
      BY <1>1, <2>1, UnansweredRows
  <1>10. CommandsOK'
    <2>1. \A c : Minted(c)' <=> Minted(c)
      BY <1>0 DEF Minted
    <2>2. ASSUME NEW j \in DOMAIN outbox'
          PROVE  Minted(outbox'[j])
      <3>1. PICK i \in DOMAIN outbox :
                 /\ outbox'[j].key = outbox[i].key /\ outbox'[j].op = outbox[i].op
                 /\ outbox'[j].session = outbox[i].session
                 /\ outbox'[j] = outbox[i] \/ outbox[i].op = "session.cheer"
        BY <1>9, <2>2
      <3>2. Minted(outbox[i])
        BY <1>2 DEF CommandsOK
      <3> QED
        BY <3>1, <3>2 DEF Minted
    <2>3. \A i, j \in DOMAIN outbox' :
            outbox'[i].key = outbox'[j].key => outbox'[i].op = outbox'[j].op
      <3> SUFFICES ASSUME NEW i \in DOMAIN outbox', NEW j \in DOMAIN outbox',
                          outbox'[i].key = outbox'[j].key
                   PROVE  outbox'[i].op = outbox'[j].op
        OBVIOUS
      <3>1. PICK a \in DOMAIN outbox :
                 outbox'[i].key = outbox[a].key /\ outbox'[i].op = outbox[a].op
        BY <1>9
      <3>2. PICK b \in DOMAIN outbox :
                 outbox'[j].key = outbox[b].key /\ outbox'[j].op = outbox[b].op
        BY <1>9
      <3>3. outbox[a].key = outbox[b].key => outbox[a].op = outbox[b].op
        BY <1>2 DEF CommandsOK
      <3> QED
        BY <3>1, <3>2, <3>3
    <2>4. \A i \in DOMAIN orphan : Minted(orphan[i])
      BY <1>2 DEF CommandsOK
    <2>5. \A k \in Keys : Under(k)' # {} => k \in issued
      BY <1>2, <1>8 DEF CommandsOK
    <2>6. \A j \in DOMAIN outbox' : Minted(outbox[j])'
      BY <1>0, <2>2 DEF Minted
    <2>7. \A j \in DOMAIN orphan' : Minted(orphan[j])'
      BY <1>0, <2>4 DEF Minted
    <2>8. DOMAIN call'.todo = {}
      BY <1>4
    <2> QED
      BY <1>0, <2>3, <2>5, <2>6, <2>7, <2>8 DEF CommandsOK
  <1>11. UnseenOK'
    <2>1. ASSUME NEW j \in DOMAIN outbox'
          PROVE  Unseen(outbox[j])'
      <3>1. PICK i \in DOMAIN outbox :
                 /\ ~Answered(outbox[i])
                 /\ outbox'[j].key = outbox[i].key /\ outbox'[j].op = outbox[i].op
        BY <1>9, <2>1
      <3>2. outbox[i].op # "session.cheer" => Under(outbox[i].key) = {}
        BY <1>1, <3>1, UnansweredRows
      <3>3. outbox'[j].op # "session.cheer" => Under(outbox'[j].key) = {}
        BY <3>1, <3>2
      <3> QED
        BY <1>3, <3>3 DEF Unseen, Under
    <2>2. DOMAIN call'.todo = {}
      BY <1>4
    <2> QED
      BY <2>1, <2>2 DEF UnseenOK
  <1>12. CommandsSettleOnce'
    <2> SUFFICES ASSUME NEW k \in issued \cap Keys
                 PROVE  /\ k \notin refused' /\ Under(k) = {} =>
                             \E j \in DOMAIN outbox' : outbox'[j].key = k
                        /\ \A i, j \in Under(k) : i = j
      BY <1>0, <1>3 DEF CommandsSettleOnce, Under
    <2>1. /\ k \notin refused /\ Under(k) = {} => \E j \in DOMAIN outbox : outbox[j].key = k
          /\ \A i, j \in Under(k) : i = j
      BY <1>2 DEF CommandsSettleOnce, Under
    <2>2. ASSUME k \notin refused', Under(k) = {}
          PROVE  \E j \in DOMAIN outbox' : outbox'[j].key = k
      <3>1. k \notin refused /\ OutcomeOf(k) # "refused"
        BY <1>0, <2>2
      <3>2. PICK i \in DOMAIN outbox : outbox[i].key = k
        BY <2>1, <2>2, <3>1
      <3>3. ~Answered(outbox[i])
        BY <1>1, <2>2, <3>1, <3>2, AnsweredRows
      <3> QED
        BY <1>0, <3>2, <3>3, RemainingRows
    <2> QED
      BY <2>1, <2>2
  <1>13. \A s \in Sessions : local'[s] = LocalAfter(s)
    BY <1>0
  <1>14. OwnOK'
    <2> SUFFICES ASSUME NEW s \in Sessions, local'[s].offline, Live(local'[s])
                 PROVE  /\ s \in MySessions /\ s \in issued
                        /\ local'[s].startedAt \in Nat
                        /\ local'[s].state = "paused" =>
                             local'[s].pausedAt \in Int /\ local'[s].pauseOrigin # NULL
      BY <1>0, <1>2, <1>3 DEF OwnOK, Live
    <2>1. local'[s] = local[s]
      BY <1>1, <1>13, RowApplied
    <2> QED
      BY <1>2, <2>1 DEF OwnOK
  <1>15. NothingSkipped'
    <2> SUFFICES ASSUME NEW i \in 1 .. Len(events), StateEvent(i), ~Overtaken(i),
                        number[i] =< call.upto, session[events[i].session].startedBy # Me
                 PROVE  local'[events[i].session] # NoRow
      BY <1>0, <1>3, SameLog DEF NothingSkipped
    <2>1. PICK s \in Sessions : s = events[i].session
      BY <1>2, EventFacts
    <2>2. CASE number[i] =< cursor
      <3>1. local[s] # NoRow
        BY <1>2, <2>1, <2>2 DEF NothingSkipped
      <3> QED
        BY <1>1, <1>13, <2>1, <3>1, RowApplied
    <2>3. CASE number[i] > cursor
      <3>1. Named(s, i) /\ cursor < number[i]
        BY <1>2, <2>1, <2>3 DEF Named
      <3>2. Carried(s, i)
        BY <1>1, <3>1, PageComplete
      <3> QED
        BY <1>1, <1>13, <2>1, <3>2, RowApplied
    <2> QED
      BY <1>2, <2>2, <2>3
  <1>16. ShownOK'
    <2> SUFFICES ASSUME NEW s \in Sessions, local'[s] # NoRow, s \notin raced'
                 PROVE  Shows(local[s], s, cursor)'
      BY DEF ShownOK
    <2>1. PICK q, n : q = local'[s] /\ n = cursor'
      OBVIOUS
    <2>2. ~Raced(s)
      BY <1>0
    <2>3. Shows(q, s, n)
      BY <1>0, <1>1, <1>13, <2>1, <2>2, RowShown
    <2>4. Shows(q, s, n)'
      BY <1>3, <2>3, SameLog
    <2> QED
      BY <2>1, <2>4 DEF Shows
  <1>17. ServerInv' /\ NumbersOK'
    BY <1>3 DEF Served, StoreServed, Counted
  <1> QED
    BY <1>5, <1>6, <1>7, <1>10, <1>11, <1>12, <1>14, <1>15, <1>16, <1>17
    DEF SyncInv, DeviceInv

-----------------------------------------------------------------------------
(* The theorems                                                            *)

(* A freshly installed app against an empty store.                         *)
LEMMA SyncStart == SyncInit => SyncInv
  <1> SUFFICES ASSUME SyncInit
               PROVE  SyncInv
    OBVIOUS
  <1>0. /\ Init /\ number = << >> /\ serial = 0 /\ drawn = {}
        /\ local = [s \in Sessions |-> NoRow] /\ notes = [s \in Sessions |-> << >>]
        /\ outbox = << >> /\ cursor = 0 /\ issued = {} /\ refused = {} /\ raced = {}
        /\ call = NoCall /\ owner = "none" /\ user = Launched /\ loop = "away"
        /\ orphan = << >> /\ socket = "closed" /\ hints = 0
    BY DEF SyncInit
  <1>1. /\ events = << >> /\ Len(events) = 0 /\ session = [s \in Sessions |-> NoRow]
        /\ idem = [a \in Accounts |-> [k \in Keys |-> NoKey]]
    BY <1>0 DEF Init
  <1>2. /\ \A s \in Sessions : session[s] = NoRow /\ local[s] = NoRow
        /\ NoRow.offline = FALSE /\ NoRow.state = "none" /\ ~Live(NoRow)
    BY <1>0, <1>1 DEF NoRow, Live, LiveStates
  <1>3. ServerInv
    <2>1. TypeOK
      <3>1. NoKey \in KeyRow
        BY DEF NoKey, KeyRow
      <3> QED
        BY <1>0, <3>1, NoRowType DEF Init, TypeOK
    <2>2. OneLiveSession
      BY <1>2 DEF OneLiveSession
    <2>3. LogOK(session, events)
      BY <1>1, <1>2 DEF LogOK, Replayed, Versioned, Informed
    <2>4. KeysOK(idem, events)
      BY <1>1 DEF KeysOK, NoKey
    <2>5. ImportsOver(session, events) /\ Existing(session)
      BY <1>1, <1>2 DEF ImportsOver, Existing
    <2>6. CheersCarryNothing(idem, events)
      BY <1>1 DEF CheersCarryNothing
    <2>7. NotesBare(events)
      BY <1>1 DEF NotesBare
    <2> QED
      BY <2>1, <2>2, <2>3, <2>4, <2>5, <2>6, <2>7 DEF ServerInv
  <1>4. DeviceTypes
    BY <1>0, <1>1, NoRowType DEF DeviceTypes, CursorIs
  <1>5. EngineTypes
    <2>1. Launched \in Caller
      BY DEF Launched, Idle, Caller
    <2> QED
      BY <1>0, <2>1, NoCallFacts, SyncAssumption DEF EngineTypes
  <1>6. call.todo = << >> /\ call.done = << >> /\ call.current = NULL /\ call.row = NoRow
        /\ call.stage = "idle"
    BY <1>0, NoCallFacts DEF Between
  <1>7. CommandsOK /\ AnswersOK /\ UnseenOK
    BY <1>0, <1>1, <1>6 DEF CommandsOK, AnswersOK, UnseenOK, Under
  <1>8. AskedOK /\ RequestOK
    BY <1>6 DEF AskedOK, RequestOK, Asking
  <1>9. ReadOK
    BY <1>2, <1>6, SyncAssumption DEF ReadOK
  <1>10. OwnOK
    <2>1. user.pc = "calling"
      BY <1>0 DEF Launched, Idle
    <2> QED
      BY <1>2, <2>1, SyncAssumption DEF OwnOK
  <1>11. CommandsSettleOnce /\ NothingSkipped /\ ShownOK
    BY <1>0, <1>1, <1>2 DEF CommandsSettleOnce, NothingSkipped, ShownOK
  <1>12. NumbersOK
    <2>1. 1 .. Len(events) = {} /\ number \in [1 .. Len(events) -> 1 .. serial]
      BY <1>0, <1>1
    <2> QED
      BY <1>0, <2>1 DEF NumbersOK, Apart, InLockOrder, OpenApart
  <1> QED
    BY <1>3, <1>4, <1>5, <1>7, <1>8, <1>9, <1>10, <1>11, <1>12 DEF SyncInv, DeviceInv

(* Every step of the server, the app, the socket, the partner and the      *)
(* clock keeps the invariant.                                              *)
LEMMA SyncStep == SyncInv /\ [SyncNext]_syncVars => SyncInv'
  <1> SUFFICES ASSUME SyncInv, [SyncNext]_syncVars
               PROVE  SyncInv'
    OBVIOUS
  <1>1. CASE Serve
    BY <1>1, CommandSteps, ReadCurrentSteps, ReadRowSteps, ReadCompanySteps,
       PairEventsSteps DEF Serve
  <1>2. CASE Proceed
    BY <1>2, ApplySteps, HistorySteps, FinishSteps DEF Proceed
  <1>3. CASE UserProceeds \/ LoopProceeds
    BY <1>3, EnqueueSteps, SyncSteps, WakeSteps, SocketSteps
    DEF UserProceeds, LoopProceeds
  <1>4. CASE Connect \/ Subscribe \/ SocketDrops \/ ListenerChanges
    BY <1>4, SocketSteps
  <1>5. CASE RequestFails \/ OrphanStep \/ Crash
    BY <1>5, FailSteps, OrphanSteps, CrashSteps
  <1>6. CASE \E s \in Sessions :
               \/ UserStart(s) \/ OfflineCommand(s)
               \/ \E k \in Keys, op \in Offers : UserCommand(k, s, op)
    BY <1>6, StartSteps, UserCommandSteps, OfflineSteps
  <1>7. CASE Draw \/ PartnerActs \/ TimePasses
    BY <1>7, OthersStep
  <1>8. CASE UNCHANGED syncVars
    <2>1. /\ UNCHANGED <<store, device, call, orphan>>
          /\ UNCHANGED <<owner, user, loop, socket, hints>>
      BY <1>8 DEF syncVars, engine, realtime
    <2>2. EngineTypes'
      BY <2>1 DEF SyncInv, DeviceInv, EngineTypes
    <2> QED
      BY <2>1, <2>2, EngineOnly
  <1> QED
    BY <1>1, <1>2, <1>3, <1>4, <1>5, <1>6, <1>7, <1>8 DEF SyncNext

(* The invariant holds throughout.                                         *)
LEMMA SyncInvariant == SyncSpec => []SyncInv
  BY SyncStart, SyncStep, PTL DEF SyncSpec

(* Whatever requests fail, sockets drop and processes die, the tables of   *)
(* the device and the state of its single-flight sync keep their shapes:   *)
(* a sync is active exactly when syncNow has an owner waiting for it, the  *)
(* cursor is a number some committed event has, and the hub never buffers  *)
(* more hints than it has room for.                                        *)
THEOREM SyncTypesCorrect == SyncSpec => []SyncTypeOK
  <1>1. SyncInv => SyncTypeOK
    <2> SUFFICES ASSUME SyncInv
                 PROVE  SyncTypeOK
      OBVIOUS
    <2>1. TypeOK /\ DeviceTypes /\ EngineTypes /\ NumbersOK
      BY DEF SyncInv, ServerInv, DeviceInv
    <2>2. ASSUME NEW s \in Sessions, NEW i \in DOMAIN notes[s]
          PROVE  notes[s][i] \in 1 .. Len(events)
      <3>1. PICK S : S = 1 .. Len(events)
        OBVIOUS
      <3>2. notes[s] \in Seq(S)
        BY <2>1, <3>1 DEF DeviceTypes
      <3> QED
        BY <3>1, <3>2
    <2>3. \A i \in DOMAIN outbox : outbox[i] \in OutboxCommand
      BY <2>1 DEF DeviceTypes
    <2>4. /\ call.stage \in Stages
          /\ user.pc \in {"idle", "storing", "calling", "waiting", "woken"}
      BY <2>1 DEF EngineTypes, Call, Caller
    <2>5. /\ number \in [1 .. Len(events) -> 1 .. serial]
          /\ cursor = 0 \/ \E i \in 1 .. Len(events) : cursor = number[i]
      BY <2>1 DEF NumbersOK, DeviceTypes, CursorIs
    <2> QED
      BY <2>1, <2>2, <2>3, <2>4, <2>5 DEF SyncTypeOK, DeviceTypes, EngineTypes, Stages
  <1> QED
    BY <1>1, SyncInvariant, PTL

(* The durable outbox and the idempotency keys together lose no command    *)
(* and carry none out twice: lost responses, abandoned handlers, crashes,  *)
(* retries and commands given during a sync included.                      *)
THEOREM CommandsSettle == SyncSpec => []CommandsSettleOnce
  <1>1. SyncInv => CommandsSettleOnce
    BY DEF SyncInv, DeviceInv
  <1> QED
    BY <1>1, SyncInvariant, PTL

(* Whatever order the partner's transactions draw their numbers and commit *)
(* in, whatever the page size and however commits fall between the         *)
(* statements of the handler, the cursor _performSync stores passes a      *)
(* state event that was not applied only if an event of another session    *)
(* with a larger number had committed before it.                           *)
THEOREM CursorSkipsNothing == SyncSpec => []NothingSkipped
  <1>1. SyncInv => NothingSkipped
    BY DEF SyncInv, DeviceInv
  <1> QED
    BY <1>1, SyncInvariant, PTL

(* A row of the read model is older than an event at or below the cursor   *)
(* for two reasons only: an event of another session had overtaken that    *)
(* event before it committed, or the handler had read the current session  *)
(* before an event of it that the same response carries.                   *)
THEOREM BehindOnlyByRace == SyncSpec => []ReadModelBehindOnlyByRace
  <1>1. SyncInv => ReadModelBehindOnlyByRace
    <2> SUFFICES ASSUME SyncInv, NEW i \in 1 .. Len(events), StateEvent(i),
                        number[i] =< cursor, ~Overtaken(i),
                        local[events[i].session] # NoRow, events[i].session \notin raced
                 PROVE  \/ local[events[i].session] = events[i].row
                        \/ local[events[i].session].version > events[i].row.version
      BY DEF ReadModelBehindOnlyByRace
    <2>1. ServerInv /\ ShownOK
      BY DEF SyncInv, DeviceInv
    <2>2. PICK s \in Sessions : s = events[i].session
      BY <2>1, EventFacts
    <2>3. Shows(local[s], s, cursor)
      BY <2>1, <2>2 DEF ShownOK
    <2> QED
      BY <2>2, <2>3 DEF Shows, Named
  <1> QED
    BY <1>1, SyncInvariant, PTL

(* What the store alone promises it keeps in the composition, where its    *)
(* commands come from the sync handler, abandoned handlers and the partner *)
(* at once: one live session, and a log that replays to the rows.          *)
THEOREM StoreKeepsItsPromises ==
  SyncSpec => [](/\ OneLiveSession /\ LogReplaysToRows /\ VersionsNameOneRow
                 /\ NoLostUpdate /\ OneEffectPerKey)
  <1>1. SyncInv => /\ OneLiveSession /\ LogReplaysToRows /\ VersionsNameOneRow
                   /\ NoLostUpdate /\ OneEffectPerKey
    <2>1. KeysOK(idem, events) => OneEffectPerKey
      BY DEF KeysOK, OneEffectPerKey
    <2> QED
      BY <2>1, LogOKMeaning DEF SyncInv, ServerInv
  <1> QED
    BY <1>1, SyncInvariant, PTL
=============================================================================
