---------------------------- MODULE EventCursorMC ----------------------------
(* Four writers of two sessions, two of them leaving notes.                *)
EXTENDS EventCursor, TLC

CONSTANTS w1, w2, w3, w4, s1, s2

TwoSessions == [w \in Writers |-> IF w = w4 THEN s2 ELSE s1]
=============================================================================
