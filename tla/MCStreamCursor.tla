--------------------------- MODULE MCStreamCursor ---------------------------
(* StreamCursor alone, for TLC. *)
EXTENDS StreamCursor

Spec == CursorInit /\ [][CursorNext]_cursorVars
=============================================================================
