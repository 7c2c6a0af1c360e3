-------------------------- MODULE MCDisplayMapper --------------------------
(* Small instances of DisplayMapper for TLC.                               *)
EXTENDS DisplayMapper

(* Two items of the client's own tracks before a packet of the video.      *)
AuxiliaryFirst == <<"aux", "aux", "video">>
=============================================================================
