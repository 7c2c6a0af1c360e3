------------------------------ MODULE MCClient ------------------------------
(***************************************************************************)
(* One run for two parts of the client that share no state: moving says    *)
(* which of them moves, the uplink of one session (ClientUplink) or the    *)
(* sessions of a window (DesktopSessions), and the other stays where it    *)
(* began, with no seek, no user and no failure.                            *)
(***************************************************************************)
EXTENDS MCClientUplink, MCDesktopSessions

VARIABLE moving  \* the part that moves

ClientTypeOK ==
  /\ moving \in {"uplink", "window"}
  /\ moving = "uplink" => TypeOK
  /\ moving = "window" => SessionsTypeOK

ClientInit ==
  /\ moving \in {"uplink", "window"}
  /\ Init /\ SessionsInit
  /\ moving = "window" => uplink_task = None

InUplink(A) == moving = "uplink" /\ A /\ UNCHANGED <<moving, sessionsVars>>
InWindow(A) == moving = "window" /\ A /\ UNCHANGED <<moving, vars>>

ClientNext == InUplink(Next) \/ InWindow(SessionsNext)

(* The fairness of both, FairSpec and SessionsFairSpec. They exclude one   *)
(* another, so that one condition serves what proceeds in either.          *)
ClientSpec ==
  /\ ClientInit /\ [][ClientNext]_<<moving, vars, sessionsVars>>
  /\ WF_<<vars, sessionsVars>>(InUplink(Proceed) \/ InWindow(TransitionProceeds))
  /\ WF_sessionsVars(InWindow(\E op \in Operation : Enter(op)))
  /\ WF_sessionsVars(InWindow(GraceEnds))
  /\ WF_sessionsVars(InWindow(CloseReady))
=============================================================================
