----------------------------- MODULE EventCursor -----------------------------
(***************************************************************************)
(* The cursor of pair_events seen below the level of whole transactions.   *)
(* Every command locks its session's row, inserts its event, which draws   *)
(* the next number of a bigserial, and commits later; a reader of          *)
(* PairEvents sees committed rows only and keeps the largest number it was *)
(* given as its cursor.                                                    *)
(*                                                                         *)
(* A transition, a cheer and the sweep hold the row FOR UPDATE, a start    *)
(* and an import hold the row they insert; a note holds it FOR KEY SHARE   *)
(* through its foreign key, together with other notes.                     *)
(***************************************************************************)
EXTENDS Naturals

CONSTANTS
  Writers,     \* transactions of one pair
  SessionOf,   \* SessionOf[w]: the session w writes about
  Shared,      \* the writers that only leave a note
  MaxCursor    \* bound on the numbers drawn

ASSUME CursorAssumption == Shared \subseteq Writers /\ MaxCursor \in Nat

VARIABLES
  next,    \* the number the sequence hands out next
  phase,   \* phase[w]: "idle", "locked" or "done"
  drawn,   \* drawn[w]: the numbers of the events w has inserted
  log,     \* numbers of the committed events
  cursor,  \* the reader's durable cursor
  got      \* the events the reader has been given

vars == <<next, phase, drawn, log, cursor, got>>

Conflict(v, w) ==
  v # w /\ SessionOf[v] = SessionOf[w] /\ (v \notin Shared \/ w \notin Shared)

Init ==
  /\ next = 1
  /\ phase = [w \in Writers |-> "idle"]
  /\ drawn = [w \in Writers |-> {}]
  /\ log = {} /\ cursor = 0 /\ got = {}

(* Variant: nobody waits for the row.                                      *)
RowFree_Always(w) == TRUE

(* The row can be locked: no writer that conflicts with w holds it.        *)
RowFree(w) == \A v \in Writers : Conflict(v, w) => phase[v] # "locked"

Lock(w) ==
  /\ phase[w] = "idle"
  /\ RowFree(w)
  /\ phase' = [phase EXCEPT ![w] = "locked"]
  /\ UNCHANGED <<next, drawn, log, cursor, got>>

(* A command may append several events, as StartSession does after a sweep. *)
appendPairEvent(w) ==
  /\ phase[w] = "locked" /\ next =< MaxCursor
  /\ drawn' = [drawn EXCEPT ![w] = @ \cup {next}]
  /\ next' = next + 1
  /\ UNCHANGED <<phase, log, cursor, got>>

Commit(w) ==
  /\ phase[w] = "locked"
  /\ phase' = [phase EXCEPT ![w] = "done"]
  /\ log' = log \cup drawn[w]
  /\ UNCHANGED <<next, drawn, cursor, got>>

(* A rollback leaves a gap: numbers are not handed out again.              *)
Rollback(w) ==
  /\ phase[w] = "locked"
  /\ phase' = [phase EXCEPT ![w] = "done"]
  /\ drawn' = [drawn EXCEPT ![w] = {}]
  /\ UNCHANGED <<next, log, cursor, got>>

(* One page after the cursor.  n is the last number on it.                 *)
PairEvents ==
  \E n \in {m \in log : m > cursor} :
    /\ cursor' = n
    /\ got' = got \cup {m \in log : cursor < m /\ m =< n}
    /\ UNCHANGED <<next, phase, drawn, log>>

Next ==
  \/ \E w \in Writers : Lock(w) \/ appendPairEvent(w) \/ Commit(w) \/ Rollback(w)
  \/ PairEvents

Spec == Init /\ [][Next]_vars

-----------------------------------------------------------------------------
(* Properties                                                              *)

(* The sequence and the log hold numbers, each drawn by a writer.          *)
TypeOK ==
  /\ next \in Nat \ {0}
  /\ phase \in [Writers -> {"idle", "locked", "done"}]
  /\ drawn \in [Writers -> SUBSET (1 .. next - 1)]
  /\ log \subseteq 1 .. next - 1 /\ got \subseteq log /\ cursor \in 0 .. next - 1

(* Skipped(n): the reader's cursor is past committed event n, but it was   *)
(* never given n, nor will be.                                             *)
Skipped(n) == n \in log /\ n =< cursor /\ n \notin got

(* Row locks keep conflicting writers in cursor order: while a writer is   *)
(* under way, no writer it conflicts with has an event above one of its    *)
(* own, so for the events of one session's transitions, cheers and sweeps  *)
(* the order of the cursor is the order of the commits.                    *)
OvertakenOnlyByStrangers ==
  \A v, w \in Writers :
    phase[v] = "locked" /\ Conflict(v, w) =>
      \A m \in drawn[v], n \in drawn[w] : n < m

(* A reader misses an event only past a stranger: whatever PairEvents'     *)
(* cursor passed by was overtaken by a writer that shares no exclusive     *)
(* lock with the event's own, a second note or a command about another     *)
(* session.  Transitions, cheers and sweeps of one session never hide each *)
(* other's events from a reader, even when commands roll back.             *)
SkippedOnlyPastStrangers ==
  \A w \in Writers : \A n \in drawn[w] :
    Skipped(n) =>
      \E v \in Writers \ {w} :
        ~Conflict(v, w) /\ \E m \in drawn[v] \cap log : n < m
=============================================================================
