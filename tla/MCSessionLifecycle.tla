------------------------- MODULE MCSessionLifecycle -------------------------
(* A small instance of SessionLifecycle for TLC: one session, and a second *)
(* client that asks for one once the restart latch is set.                 *)
EXTENDS SessionLifecycle

CONSTANTS s1, s2

OneSession == {s1}
OneAndRefused == {s1, s2}
SecondRefused == s2 \in Session => handler[s2] \in {"free", "refused"}
=============================================================================
