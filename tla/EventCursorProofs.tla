-------------------------- MODULE EventCursorProofs --------------------------
(***************************************************************************)
(* For any set of writers and any assignment of sessions: row locks keep   *)
(* the events of conflicting writers in cursor order, and a reader misses  *)
(* an event only past a writer that does not conflict with the event's.    *)
(***************************************************************************)
EXTENDS EventCursor, TLAPS

(* A writer that has not locked has drawn nothing, and two writers that    *)
(* conflict do not hold their locks together.                              *)
IdleHasDrawnNothing == \A w \in Writers : phase[w] = "idle" => drawn[w] = {}

LocksExclude ==
  \A v, w \in Writers :
    Conflict(v, w) /\ phase[v] = "locked" => phase[w] # "locked"

(* Every committed event was drawn by a writer that is done.               *)
CommittedByDone ==
  \A n \in log : \E w \in Writers : phase[w] = "done" /\ n \in drawn[w]

(* A number is drawn once.                                                 *)
OneOwner ==
  \A v, w \in Writers : \A n \in drawn[v] : n \in drawn[w] => v = w

LockInv ==
  /\ TypeOK /\ IdleHasDrawnNothing /\ LocksExclude /\ OvertakenOnlyByStrangers
  /\ CommittedByDone /\ OneOwner

(* A conflict is mutual.                                                   *)
LEMMA ConflictSymmetric ==
  ASSUME NEW v \in Writers, NEW w \in Writers, Conflict(v, w)
  PROVE  Conflict(w, v)
BY DEF Conflict

(* The initial state satisfies the inductive invariant.                    *)
LEMMA InitLockInv == Init => LockInv
BY DEF Init, LockInv, TypeOK, IdleHasDrawnNothing, LocksExclude,
       OvertakenOnlyByStrangers, CommittedByDone, OneOwner

(* Every step preserves the inductive invariant.                           *)
LEMMA NextLockInv == LockInv /\ [Next]_vars => LockInv'
<1> SUFFICES ASSUME LockInv, [Next]_vars
             PROVE  LockInv'
    OBVIOUS
<1> USE DEF LockInv
<1>1. ASSUME NEW w \in Writers, Lock(w)
      PROVE  LockInv'
  <2>1. TypeOK'
        BY <1>1 DEF TypeOK, Lock
  <2>2. IdleHasDrawnNothing'
        BY <1>1 DEF TypeOK, Lock, IdleHasDrawnNothing
  <2>3. LocksExclude'
        BY <1>1, ConflictSymmetric DEF TypeOK, Lock, RowFree, LocksExclude, Conflict
  <2>4. OvertakenOnlyByStrangers'
        BY <1>1 DEF TypeOK, Lock, OvertakenOnlyByStrangers, IdleHasDrawnNothing
  <2>5. CommittedByDone'
        BY <1>1 DEF TypeOK, Lock, CommittedByDone
  <2>6. OneOwner'
        BY <1>1 DEF Lock, OneOwner
  <2> QED
        BY <2>1, <2>2, <2>3, <2>4, <2>5, <2>6
<1>2. ASSUME NEW w \in Writers, appendPairEvent(w)
      PROVE  LockInv'
  <2>0. \A v \in Writers : drawn'[v] = IF v = w THEN drawn[w] \cup {next} ELSE drawn[v]
        BY <1>2 DEF TypeOK, appendPairEvent
  <2>1. TypeOK'
    <3>1. next' = next + 1 /\ next \in Nat \ {0}
          BY <1>2 DEF TypeOK, appendPairEvent
    <3>2. \A v \in Writers : drawn'[v] \subseteq 1 .. next' - 1
          BY <2>0, <3>1 DEF TypeOK
    <3>3. drawn' = [v \in Writers |-> drawn'[v]]
          BY <1>2 DEF TypeOK, appendPairEvent
    <3>4. drawn' \in [Writers -> SUBSET (1 .. next' - 1)]
          BY <3>2, <3>3
    <3>5. /\ log' \subseteq 1 .. next' - 1 /\ got' \subseteq log'
          /\ cursor' \in 0 .. next' - 1
          BY <1>2, <3>1 DEF TypeOK, appendPairEvent
    <3> QED
          BY <1>2, <3>1, <3>4, <3>5 DEF TypeOK, appendPairEvent
  <2>2. IdleHasDrawnNothing'
        BY <1>2, <2>0 DEF IdleHasDrawnNothing, appendPairEvent
  <2>3. LocksExclude'
        BY <1>2 DEF LocksExclude, appendPairEvent
  <2>4. OvertakenOnlyByStrangers'
    <3> SUFFICES ASSUME NEW v \in Writers, NEW u \in Writers,
                        phase[v] = "locked", Conflict(v, u),
                        NEW m \in drawn'[v], NEW n \in drawn'[u]
                 PROVE  n < m
        BY <1>2 DEF OvertakenOnlyByStrangers, appendPairEvent
    <3>1. u # w
          BY <1>2 DEF LocksExclude, appendPairEvent
    <3>2. n \in drawn[u] /\ n \in Nat /\ n < next
          BY <2>0, <3>1 DEF TypeOK
    <3>3. CASE v = w
          BY <2>0, <3>2, <3>3 DEF OvertakenOnlyByStrangers
    <3>4. CASE v # w
          BY <2>0, <3>2, <3>4 DEF OvertakenOnlyByStrangers
    <3> QED
          BY <3>3, <3>4
  <2>5. CommittedByDone'
        BY <1>2, <2>0 DEF CommittedByDone, appendPairEvent
  <2>6. OneOwner'
    <3>1. \A v \in Writers : next \notin drawn[v]
          BY DEF TypeOK
    <3> QED
          BY <2>0, <3>1 DEF OneOwner
  <2> QED
        BY <2>1, <2>2, <2>3, <2>4, <2>5, <2>6
<1>3. ASSUME NEW w \in Writers, Commit(w)
      PROVE  LockInv'
  <2>1. TypeOK'
        BY <1>3 DEF TypeOK, Commit
  <2>2. IdleHasDrawnNothing' /\ LocksExclude' /\ OvertakenOnlyByStrangers'
        BY <1>3 DEF TypeOK, Commit, IdleHasDrawnNothing, LocksExclude,
                    OvertakenOnlyByStrangers
  <2>3. CommittedByDone'
        BY <1>3 DEF TypeOK, Commit, CommittedByDone
  <2>4. OneOwner'
        BY <1>3 DEF TypeOK, Commit, OneOwner
  <2> QED
        BY <2>1, <2>2, <2>3, <2>4
<1>4. ASSUME NEW w \in Writers, Rollback(w)
      PROVE  LockInv'
  <2>1. TypeOK'
        BY <1>4 DEF TypeOK, Rollback
  <2>2. IdleHasDrawnNothing' /\ LocksExclude' /\ OvertakenOnlyByStrangers'
        BY <1>4 DEF TypeOK, Rollback, IdleHasDrawnNothing, LocksExclude,
                    OvertakenOnlyByStrangers
  <2>3. CommittedByDone'
        BY <1>4 DEF TypeOK, Rollback, CommittedByDone
  <2>4. OneOwner'
        BY <1>4 DEF TypeOK, Rollback, OneOwner
  <2> QED
        BY <2>1, <2>2, <2>3, <2>4
<1>5. CASE PairEvents
  <2>0. PICK k \in log : /\ cursor' = k
                         /\ got' = got \cup {m \in log : cursor < m /\ m =< k}
                         /\ UNCHANGED <<next, phase, drawn, log>>
        BY <1>5 DEF PairEvents
  <2>1. TypeOK'
    <3>1. cursor' \in 0 .. next' - 1
          BY <2>0 DEF TypeOK
    <3>2. got' \subseteq log'
          BY <2>0 DEF TypeOK
    <3> QED
          BY <2>0, <3>1, <3>2 DEF TypeOK
  <2> QED
        BY <2>0, <2>1 DEF Conflict, IdleHasDrawnNothing, LocksExclude,
                          OvertakenOnlyByStrangers, CommittedByDone, OneOwner
<1>6. CASE UNCHANGED vars
      BY <1>6 DEF vars, TypeOK, IdleHasDrawnNothing, LocksExclude,
                  OvertakenOnlyByStrangers, CommittedByDone, Conflict, OneOwner
<1> QED
    BY <1>1, <1>2, <1>3, <1>4, <1>5, <1>6 DEF Next

(* Conflicting writers commit in cursor order: the row lock each command   *)
(* takes before appendPairEvent is what keeps a reader of the log from     *)
(* overtaking one of them.                                                 *)
THEOREM CursorOrder == Spec => []OvertakenOnlyByStrangers
<1>1. LockInv => OvertakenOnlyByStrangers
      BY DEF LockInv
<1> QED
    BY <1>1, InitLockInv, NextLockInv, PTL DEF Spec

(* The cursor is an event the reader was given, or nothing has been read.  *)
ReaderInv ==
  /\ cursor = 0 \/ cursor \in got
  /\ SkippedOnlyPastStrangers

(* An event that commits below the cursor was overtaken by a stranger.     *)
LEMMA LateCommit ==
  ASSUME LockInv, ReaderInv, NEW w \in Writers, phase[w] = "locked",
         NEW n \in drawn[w], n =< cursor, n \notin got
  PROVE  \E v \in Writers \ {w} : ~Conflict(v, w) /\ \E m \in drawn[v] \cap log : n < m
<1>1. n \in Nat \ {0} /\ cursor \in Nat /\ got \subseteq log
      BY DEF LockInv, TypeOK
<1>2. n < cursor /\ cursor \in log
      BY <1>1 DEF ReaderInv
<1>3. PICK v \in Writers : phase[v] = "done" /\ cursor \in drawn[v]
      BY <1>2 DEF LockInv, CommittedByDone
<1>4. ~Conflict(v, w)
  <2> SUFFICES ASSUME Conflict(v, w)
               PROVE  FALSE
      OBVIOUS
  <2>1. Conflict(w, v)
        BY ConflictSymmetric
  <2>2. cursor < n
        BY <1>3, <2>1 DEF LockInv, OvertakenOnlyByStrangers
  <2> QED
        BY <1>1, <1>2, <2>2
<1> QED
    BY <1>2, <1>3, <1>4

(* Every step preserves it.                                                *)
LEMMA NextReaderInv == LockInv /\ ReaderInv /\ [Next]_vars => ReaderInv'
<1> SUFFICES ASSUME LockInv, ReaderInv, [Next]_vars
             PROVE  ReaderInv'
    OBVIOUS
<1>1. ASSUME NEW w \in Writers, Lock(w)
      PROVE  ReaderInv'
      BY <1>1 DEF Lock, Conflict, ReaderInv, SkippedOnlyPastStrangers, Skipped
<1>2. ASSUME NEW w \in Writers, appendPairEvent(w)
      PROVE  ReaderInv'
  <2>1. /\ cursor' = cursor /\ got' = got /\ log' = log
        /\ \A v \in Writers : drawn[v] \subseteq drawn'[v]
        /\ \A v \in Writers : \A n \in drawn'[v] : n = next \/ n \in drawn[v]
        BY <1>2 DEF appendPairEvent, LockInv, TypeOK
  <2>2. next \notin log
        BY DEF LockInv, TypeOK
  <2>3. ASSUME NEW v \in Writers, NEW n \in drawn'[v], Skipped(n)
        PROVE  \E u \in Writers \ {v} : ~Conflict(u, v) /\ \E m \in drawn'[u] \cap log : n < m
    <3>1. n \in drawn[v]
          BY <2>1, <2>2, <2>3 DEF Skipped
    <3>2. PICK u \in Writers \ {v} : ~Conflict(u, v) /\ \E m \in drawn[u] \cap log : n < m
          BY <2>3, <3>1 DEF ReaderInv, SkippedOnlyPastStrangers
    <3> QED
          BY <2>1, <3>2
  <2> QED
        BY <2>1, <2>3 DEF ReaderInv, SkippedOnlyPastStrangers, Skipped, Conflict
<1>3. ASSUME NEW w \in Writers, Commit(w)
      PROVE  ReaderInv'
  <2>1. /\ cursor' = cursor /\ got' = got /\ drawn' = drawn
        /\ log' = log \cup drawn[w] /\ phase[w] = "locked"
        BY <1>3 DEF Commit
  <2>2. ASSUME NEW v \in Writers, NEW n \in drawn[v], n \in log', n =< cursor, n \notin got
        PROVE  \E u \in Writers \ {v} : ~Conflict(u, v) /\ \E m \in drawn[u] \cap log : n < m
    <3>1. CASE n \in log
          BY <2>2, <3>1 DEF ReaderInv, SkippedOnlyPastStrangers, Skipped
    <3>2. CASE n \in drawn[w] /\ n \notin log
      <4>1. v = w
            BY <2>1, <2>2, <3>2 DEF LockInv, OneOwner
      <4> QED
            BY <2>1, <2>2, <4>1, LateCommit
    <3> QED
          BY <2>1, <2>2, <3>1, <3>2
  <2>3. SkippedOnlyPastStrangers'
        BY <2>1, <2>2 DEF SkippedOnlyPastStrangers, Skipped, Conflict
  <2> QED
        BY <2>1, <2>3 DEF ReaderInv
<1>4. ASSUME NEW w \in Writers, Rollback(w)
      PROVE  ReaderInv'
  <2>1. /\ cursor' = cursor /\ got' = got /\ log' = log /\ phase[w] = "locked"
        /\ \A v \in Writers : drawn'[v] = IF v = w THEN {} ELSE drawn[v]
        BY <1>4 DEF Rollback, LockInv, TypeOK
  <2>2. drawn[w] \cap log = {}
        BY <2>1 DEF LockInv, CommittedByDone, OneOwner
  <2>3. ASSUME NEW v \in Writers, NEW n \in drawn'[v], Skipped(n)
        PROVE  \E u \in Writers \ {v} : ~Conflict(u, v) /\ \E m \in drawn'[u] \cap log : n < m
    <3>1. n \in drawn[v]
          BY <2>1, <2>3
    <3>2. PICK u \in Writers \ {v} : ~Conflict(u, v) /\ \E m \in drawn[u] \cap log : n < m
          BY <2>3, <3>1 DEF ReaderInv, SkippedOnlyPastStrangers
    <3>3. u # w
          BY <2>2, <3>2
    <3> QED
          BY <2>1, <3>2, <3>3
  <2> QED
        BY <2>1, <2>3 DEF ReaderInv, SkippedOnlyPastStrangers, Skipped, Conflict
<1>5. CASE PairEvents
  <2>1. PICK k \in log : /\ k > cursor /\ cursor' = k
                         /\ got' = got \cup {m \in log : cursor < m /\ m =< k}
                         /\ log' = log /\ drawn' = drawn
        BY <1>5 DEF PairEvents
  <2>2. ASSUME NEW n \in log, Skipped(n)'
        PROVE  Skipped(n)
    <3>1. n \in Nat /\ cursor \in Nat
          BY DEF LockInv, TypeOK
    <3> QED
          BY <2>1, <2>2, <3>1 DEF Skipped
  <2>3. cursor' \in got'
    <3>1. k \in Nat /\ cursor \in Nat
          BY DEF LockInv, TypeOK
    <3> QED
          BY <2>1, <3>1
  <2> QED
        BY <2>1, <2>2, <2>3 DEF ReaderInv, SkippedOnlyPastStrangers, Skipped, Conflict
<1>6. CASE UNCHANGED vars
      BY <1>6 DEF vars, Conflict, ReaderInv, SkippedOnlyPastStrangers, Skipped
<1> QED
    BY <1>1, <1>2, <1>3, <1>4, <1>5, <1>6 DEF Next

(* The cursor of a reader passes a committed event by only when a writer   *)
(* that shares no exclusive row lock with the event's overtook it,         *)
(* whatever rolls back and however the pages of PairEvents fall.           *)
THEOREM ReadersMissOnlyStrangers == Spec => []SkippedOnlyPastStrangers
<1>1. Init => ReaderInv
      BY DEF Init, ReaderInv, SkippedOnlyPastStrangers, Skipped
<1>2. ReaderInv => SkippedOnlyPastStrangers
      BY DEF ReaderInv
<1> QED
    BY <1>1, <1>2, InitLockInv, NextLockInv, NextReaderInv, PTL DEF Spec
=============================================================================
