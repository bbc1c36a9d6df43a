----------------------------- MODULE FocusRoom -----------------------------
(***************************************************************************)
(* What the focus store promises a pair, without rows, deadlines, versions *)
(* or keys: a pair has at most one live room; a room is a countdown of     *)
(* Duration ticks that runs while the room is open or together, stands     *)
(* still while it is paused, and is never reset; a paused room may be      *)
(* given up as expired once it has been paused for PauseTTL ticks.         *)
(*                                                                         *)
(* FocusStore keeps absolute instants (ends_at, paused_at) instead and     *)
(* moves ends_at on resume; it is shown to implement this module.          *)
(*                                                                         *)
(* Skew is how far the database clock, which decides that a room is over,  *)
(* is ahead of the server process's clock, which the countdown follows.    *)
(***************************************************************************)
EXTENDS Integers

CONSTANTS Sessions, Pairs, NULL, Duration, PauseTTL, Skew

VARIABLES
  pair,    \* pair[s]: the pair that owns room s, NULL while s does not exist
  phase,   \* phase[s]: where room s is in its life
  left,    \* left[s]: ticks of focus still to go, 0 when s is not live
  away     \* away[s]: ticks since s was paused, 0 when s is not paused

vars == <<pair, phase, left, away>>

Live(s) == phase[s] \in {"running", "paused"}

(* The sweep may close a live room: its countdown is used up, or it has    *)
(* been paused for too long.                                               *)
Due(s) ==
  \/ phase[s] = "running" /\ left[s] =< Skew
  \/ phase[s] = "paused" /\ away[s] + Skew >= PauseTTL

Swept(s) == IF phase[s] = "running" THEN "completed" ELSE "expired"

Init ==
  /\ pair = [s \in Sessions |-> NULL]
  /\ phase = [s \in Sessions |-> "none"]
  /\ left = [s \in Sessions |-> 0]
  /\ away = [s \in Sessions |-> 0]

Tick ==
  /\ left' = [s \in Sessions |->
                IF phase[s] = "running" THEN left[s] - 1 ELSE left[s]]
  /\ away' = [s \in Sessions |->
                IF phase[s] = "paused" THEN away[s] + 1 ELSE away[s]]
  /\ UNCHANGED <<pair, phase>>

(* A room opens only when every other live room of the pair is due, and    *)
(* then those are closed in the same step.                                 *)
Start(p, s) ==
  LET Other(t) == pair[t] = p /\ Live(t) IN
  /\ phase[s] = "none"
  /\ \A t \in Sessions : Other(t) => Due(t)
  /\ pair' = [pair EXCEPT ![s] = p]
  /\ phase' = [t \in Sessions |->
                 IF t = s THEN "running"
                 ELSE IF Other(t) THEN Swept(t) ELSE phase[t]]
  /\ left' = [t \in Sessions |->
                IF t = s THEN Duration ELSE IF Other(t) THEN 0 ELSE left[t]]
  /\ away' = [t \in Sessions |-> IF Other(t) THEN 0 ELSE away[t]]

(* A focus done offline enters as a finished room.                         *)
Import(p, s) ==
  /\ phase[s] = "none"
  /\ pair' = [pair EXCEPT ![s] = p]
  /\ phase' = [phase EXCEPT ![s] = "completed"]
  /\ UNCHANGED <<left, away>>

Pause(s) ==
  /\ phase[s] = "running"
  /\ phase' = [phase EXCEPT ![s] = "paused"]
  /\ UNCHANGED <<pair, left, away>>

Resume(s) ==
  /\ phase[s] = "paused"
  /\ phase' = [phase EXCEPT ![s] = "running"]
  /\ away' = [away EXCEPT ![s] = 0]
  /\ UNCHANGED <<pair, left>>

Close(s, outcome) ==
  /\ Live(s)
  /\ outcome = "expired" => phase[s] = "paused" /\ Due(s)
  /\ phase' = [phase EXCEPT ![s] = outcome]
  /\ left' = [left EXCEPT ![s] = 0]
  /\ away' = [away EXCEPT ![s] = 0]
  /\ UNCHANGED pair

Next ==
  \/ Tick
  \/ \E p \in Pairs, s \in Sessions : Start(p, s) \/ Import(p, s)
  \/ \E s \in Sessions :
       \/ Pause(s)
       \/ Resume(s)
       \/ \E outcome \in {"completed", "cancelled", "expired"} : Close(s, outcome)

Spec == Init /\ [][Next]_vars
=============================================================================
