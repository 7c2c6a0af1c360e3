---------------------------- MODULE IdleInhibit ----------------------------
(***************************************************************************)
(* What keeps the desktop awake while video plays (idle_inhibit.py): two   *)
(* requests over D-Bus, one whose inhibitor lasts as long as the           *)
(* connection, one whose inhibitor is a file descriptor in the reply. When *)
(* the video pauses both are dropped at once, answered or not.             *)
(***************************************************************************)
EXTENDS Integers

CONSTANTS MaxActivations  \* bound: how often inhibition is switched on

ASSUME IdleAssumption == MaxActivations \in Nat

VARIABLES
  awake,    \* _active
  turn,     \* how often it was switched on
  request,  \* each task: its place, told to stop, its bus, its reply
  lock_fds, \* tasks whose file descriptor is held: _lock_fds
  buses     \* tasks whose bus is in _buses

idleVars == <<awake, turn, request, lock_fds, buses>>

Requests == (1..MaxActivations) \X {"screensaver", "logind"}
Logind(r) == r[2] = "logind"
NoRequest == [at |-> "none", stopped |-> FALSE, bus |-> "none", reply |-> "none"]

IdleTypeOK ==
  /\ awake \in BOOLEAN /\ turn \in 0..MaxActivations
  /\ request \in [Requests -> [at : {"none", "new", "asking", "holding", "ended"},
                               stopped : BOOLEAN, bus : {"none", "up", "down"},
                               reply : {"none", "sent", "read"}]]
  /\ lock_fds \subseteq Requests /\ buses \subseteq Requests

IdleInit ==
  /\ awake = FALSE /\ turn = 0
  /\ request = [r \in Requests |-> NoRequest] /\ lock_fds = {} /\ buses = {}

RequestAt(r, place) == request[r].at = place
RequestEnds(r) == request' = [request EXCEPT ![r].at = "ended",
                                ![r].bus = IF @ = "none" THEN @ ELSE "down"]

(* Playback runs: set_active(True).                                        *)
Activate ==
  /\ ~awake /\ turn < MaxActivations
  /\ awake' = TRUE /\ turn' = turn + 1
  /\ request' = [r \in Requests |-> IF r[1] = turn + 1
                                      THEN [NoRequest EXCEPT !.at = "new"] ELSE request[r]]
  /\ UNCHANGED <<lock_fds, buses>>

(* Playback pauses or stops: set_active(False).                            *)
Deactivate ==
  /\ awake /\ awake' = FALSE
  /\ request' = [r \in Requests |->
       [request[r] EXCEPT !.bus = IF r \in buses THEN "down" ELSE @,
                          !.stopped = (@ \/ r[1] = turn)]]
  /\ buses' = {} /\ lock_fds' = {}
  /\ UNCHANGED turn

(* The first step of a task; one that was cancelled before never runs. The *)
(* bus connects, or is missing.                                            *)
AskService(r) ==
  /\ RequestAt(r, "new")
  /\ \/ /\ ~request[r].stopped
        /\ request' = [request EXCEPT ![r].at = "asking", ![r].bus = "up"]
        /\ buses' = buses \cup {r}
     \/ RequestEnds(r) /\ UNCHANGED buses
  /\ UNCHANGED <<awake, turn, lock_fds>>

(* The service grants what it was asked for, and the reply is on its way.  *)
Grant(r) ==
  /\ RequestAt(r, "asking") /\ request[r].bus = "up" /\ request[r].reply = "none"
  /\ request' = [request EXCEPT ![r].reply = "sent"]
  /\ UNCHANGED <<awake, turn, lock_fds, buses>>

ReplyRead(r, adopted) ==
  /\ request[r].reply = "sent"
  /\ request' = [request EXCEPT ![r].reply = "read"]
  /\ lock_fds' = IF Logind(r) /\ adopted THEN lock_fds \cup {r} ELSE lock_fds
  /\ UNCHANGED <<awake, turn, buses>>

(* A plausible bug: the descriptor is kept although its bus was dropped.   *)
AdoptLockAlways(r) == ReplyRead(r, TRUE)

(* The reply is read, if need be from a connection already dropped:        *)
(* adopt_lock keeps the descriptor only for a bus that is still listed.    *)
AdoptLock(r) == ReplyRead(r, r \in buses)

(* _request returns, times out, is refused or cancelled. The screen saver  *)
(* is held off as long as the bus stays; logind's bus has done its work.   *)
RequestReturns(r) ==
  /\ RequestAt(r, "asking")
  /\ \/ /\ request[r].reply = "read" /\ ~request[r].stopped /\ ~Logind(r)
        /\ request' = [request EXCEPT ![r].at = "holding"]
        /\ UNCHANGED buses
     \/ RequestEnds(r) /\ buses' = buses \ {r}
  /\ UNCHANGED <<awake, turn, lock_fds>>

(* The bus was lost or dropped, or the task was cancelled.                 *)
HoldEnds(r) ==
  /\ RequestAt(r, "holding") /\ (request[r].stopped \/ request[r].bus = "down")
  /\ RequestEnds(r) /\ buses' = buses \ {r}
  /\ UNCHANGED <<awake, turn, lock_fds>>

BusLost(r) ==
  /\ request[r].bus = "up"
  /\ request' = [request EXCEPT ![r].bus = "down"]
  /\ UNCHANGED <<awake, turn, lock_fds, buses>>

IdleNext ==
  \/ Activate \/ Deactivate
  \/ \E r \in Requests :
       AskService(r) \/ Grant(r) \/ AdoptLock(r) \/ RequestReturns(r) \/ HoldEnds(r) \/ BusLost(r)

(* Only the video that plays now keeps the screen on: as soon as playback  *)
(* pauses, no connection and no descriptor of an earlier request is held,  *)
(* and none comes back with a late answer or a task that had not started.  *)
ScreenReleased ==
  \A r \in Requests :
    request[r].bus = "up" \/ r \in lock_fds => awake /\ r[1] = turn
=============================================================================
