--------------------------- MODULE MCRelayStream ---------------------------
(* Small instances of RelayStream for TLC.                                 *)
EXTENDS RelayStream

(* A first stream from the beginning, then seeks further and further: with *)
(* three packets, to the auxiliary one in the middle and to the last.      *)
Targets == [e \in Epoch |-> e + 1]

FromTheStart == [e \in Epoch |-> 1]
=============================================================================
