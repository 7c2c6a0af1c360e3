--------------------------- MODULE SourceOpening ---------------------------
(***************************************************************************)
(* A local file is opened and inspected on a worker thread of the client   *)
(* (client.py, _SourceOpening and open_session). The call may be           *)
(* cancelled and the client may close meanwhile, but the native opener     *)
(* cannot be interrupted: whoever ends up with the source must close it.   *)
(* One client, which opens one file after the other; the executor starts   *)
(* what it is given at once.                                               *)
(***************************************************************************)
EXTENDS Integers, FiniteSets

CONSTANTS MaxOpens  \* bound: calls of open_session

VARIABLES
  opener,      \* each worker: where _SourceOpening.run is
  abandoned,   \* opens that nobody waits for: _abandoned
  result,      \* opens whose _result holds the source
  open_call,   \* each open_session: where it is
  track,       \* the open whose source is self.track, or 0
  closes,      \* how many track.close() of each source run on the executor
  source,      \* the native container: none, open, closed, or closed "twice"
  client_state \* the client: _closing, and whether _close has taken the track

openingVars == <<opener, abandoned, result, open_call, track, closes, source, client_state>>

Call == 1..MaxOpens
NoSource == 0

OpeningTypeOK ==
  /\ opener \in [Call -> {"idle", "opens", "inspects", "hands", "closes", "ended"}]
  /\ abandoned \subseteq Call /\ result \subseteq Call
  /\ open_call \in [Call -> {"idle", "awaits", "requests", "serves", "ended"}]
  /\ track \in Call \cup {NoSource}
  /\ closes \in [Call -> 0..2]
  /\ source \in [Call -> {"none", "open", "closed", "twice"}]
  /\ client_state \in {"no", "begun", "taken"}

OpeningInit ==
  /\ opener = [o \in Call |-> "idle"] /\ open_call = [o \in Call |-> "idle"]
  /\ abandoned = {} /\ result = {} /\ track = NoSource
  /\ closes = [o \in Call |-> 0] /\ source = [o \in Call |-> "none"]
  /\ client_state = "no"

Works(o, from, to) == opener[o] = from /\ opener' = [opener EXCEPT ![o] = to]
Calls(o, from, to) == open_call[o] = from /\ open_call' = [open_call EXCEPT ![o] = to]
CloseSource(o) == source' = [source EXCEPT ![o] = IF @ = "open" THEN "closed" ELSE "twice"]
CloseOnExecutor(o) == closes' = [closes EXCEPT ![o] = @ + 1]

-----------------------------------------------------------------------------
(* The worker: run.                                                        *)

(* av.open; a failure leaves nothing open.                                 *)
OpenFile(o) ==
  /\ \/ Works(o, "opens", "ended") /\ UNCHANGED source
     \/ Works(o, "opens", "inspects") /\ source' = [source EXCEPT ![o] = "open"]
  /\ UNCHANGED <<abandoned, result, open_call, track, closes, client_state>>

(* The description, the chapters and the HDR10+ check; what fails closes.  *)
InspectFile(o) ==
  /\ Works(o, "inspects", "hands") \/ Works(o, "inspects", "closes")
  /\ UNCHANGED <<abandoned, result, open_call, track, closes, source, client_state>>

(* A plausible bug: the result is put down whoever waits for it.           *)
HandOverBlindly(o) ==
  /\ Works(o, "hands", "ended") /\ result' = result \cup {o}
  /\ UNCHANGED <<abandoned, open_call, track, closes, source, client_state>>

(* Under the lock: the result is put down, unless it was abandoned.        *)
HandOver(o) ==
  /\ IF o \in abandoned
       THEN Works(o, "hands", "closes") /\ UNCHANGED result
       ELSE Works(o, "hands", "ended") /\ result' = result \cup {o}
  /\ UNCHANGED <<abandoned, open_call, track, closes, source, client_state>>

CloseOwn(o) ==
  /\ Works(o, "closes", "ended") /\ CloseSource(o)
  /\ UNCHANGED <<abandoned, result, open_call, track, closes, client_state>>

-----------------------------------------------------------------------------
(* The event loop: open_session.                                           *)

BeginOpening(o) ==
  /\ client_state = "no" /\ \A p \in 1..o - 1 : open_call[p] = "ended"
  /\ Calls(o, "idle", "awaits") /\ Works(o, "idle", "opens")
  /\ UNCHANGED <<abandoned, result, track, closes, source, client_state>>

(* abandon: the result, if there is one already, is closed by the call.    *)
AbandonSource(o) ==
  /\ abandoned' = abandoned \cup {o} /\ result' = result \ {o}
  /\ IF o \in result THEN CloseOnExecutor(o) ELSE UNCHANGED closes

CancelOpening(o) ==
  /\ Calls(o, "awaits", "ended") /\ AbandonSource(o)
  /\ UNCHANGED <<opener, track, source, client_state>>

OpeningFailed(o) ==
  /\ Calls(o, "awaits", "ended") /\ opener[o] = "ended" /\ o \notin result
  /\ UNCHANGED <<opener, abandoned, result, track, closes, source, client_state>>

ClosedWhileOpening(o) ==
  /\ Calls(o, "awaits", "ended") /\ opener[o] = "ended" /\ o \in result
  /\ client_state # "no" /\ AbandonSource(o)
  /\ UNCHANGED <<opener, track, source, client_state>>

TakeSource(o) ==
  /\ Calls(o, "awaits", "requests") /\ opener[o] = "ended" /\ o \in result
  /\ client_state = "no"
  /\ result' = result \ {o} /\ track' = o
  /\ UNCHANGED <<opener, abandoned, closes, source, client_state>>

SessionOpened(o) ==
  /\ Calls(o, "requests", "serves")
  /\ UNCHANGED <<opener, abandoned, result, track, closes, source, client_state>>

(* What self.track holds is taken from it and closed.                      *)
TakeTrack == /\ track' = NoSource
             /\ IF track # NoSource THEN CloseOnExecutor(track) ELSE UNCHANGED closes

(* The request is refused, times out, is cancelled or loses its connection. *)
OpenRefused(o) ==
  /\ Calls(o, "requests", "ended") /\ TakeTrack
  /\ UNCHANGED <<opener, abandoned, result, source, client_state>>

(* close and _close, which waits for the pumps before it takes the track.  *)
BeginClientClose ==
  /\ client_state = "no" /\ client_state' = "begun"
  /\ UNCHANGED <<opener, abandoned, result, open_call, track, closes, source>>

CloseTakesTrack ==
  /\ client_state = "begun" /\ client_state' = "taken" /\ TakeTrack
  /\ UNCHANGED <<opener, abandoned, result, open_call, source>>

RunClose(o) ==
  /\ closes[o] > 0 /\ closes' = [closes EXCEPT ![o] = @ - 1] /\ CloseSource(o)
  /\ UNCHANGED <<opener, abandoned, result, open_call, track, client_state>>

-----------------------------------------------------------------------------
OpenerStep(o) == OpenFile(o) \/ InspectFile(o) \/ HandOver(o) \/ CloseOwn(o) \/ RunClose(o)
CallerStep(o) == CancelOpening(o) \/ OpeningFailed(o) \/ ClosedWhileOpening(o) \/ TakeSource(o)
                   \/ SessionOpened(o) \/ OpenRefused(o)

OpeningNext ==
  \/ \E o \in Call : BeginOpening(o) \/ OpenerStep(o) \/ CallerStep(o)
  \/ BeginClientClose \/ CloseTakesTrack

(* Workers end, as a native open returns with the file or an error, and    *)
(* the event loop goes on.                                                 *)
OpenersRun == CloseTakesTrack \/ \E o \in Call : OpenerStep(o) \/ ClosedWhileOpening(o)

(* An open source has one owner at a time, which will close it: its        *)
(* worker, the result it left, the client, or a close that runs. Nothing   *)
(* is closed twice, and nothing is left to nobody, whenever a cancellation,*)
(* a failure or the close of the client came.                              *)
SourceOwned ==
  \A o \in Call :
    LET owners == Cardinality({x \in {"worker", "result", "client"} :
                    \/ x = "worker" /\ opener[o] \in {"inspects", "hands", "closes"}
                    \/ x = "result" /\ o \in result /\ open_call[o] = "awaits"
                    \/ x = "client" /\ track = o}) + closes[o]
    IN owners = IF source[o] = "open" THEN 1 ELSE 0

(* A client that closes leaves no source open behind it.                   *)
SourceLeft == client_state # "no" /\ \E o \in Call : source[o] = "open"
=============================================================================
