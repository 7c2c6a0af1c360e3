--------------------------- MODULE MCClientUplink ---------------------------
(* Small instances of ClientUplink for TLC.                                *)
EXTENDS ClientUplink

(* Back and forth: to the last packet, then to the one before it.          *)
BackAndForth == [e \in Epoch |-> CASE e = 0 -> 1 [] e = 1 -> Length
                                   [] OTHER -> Length - 1]
=============================================================================
