------------------------- MODULE MCDesktopSessions -------------------------
(* Small instances of DesktopSessions for TLC.                             *)
EXTENDS DesktopSessions
=============================================================================
