--------------------------- MODULE MCPlayerStream ---------------------------
(* Small instances of PlayerStream for TLC.                                *)
EXTENDS PlayerStream

(* Back and forth: to the last packet, then to the beginning.              *)
BackAndForth == [e \in Epoch |-> IF e = 1 THEN Length ELSE 1]
=============================================================================
