----------------------- MODULE DesktopSessions_proofs -----------------------
(***************************************************************************)
(* What is proved of the desktop client as the owner of server sessions,   *)
(* for any number of servers, sessions, intents, changes of a setting and  *)
(* faults: its types, that no session plays on with a setting that was     *)
(* changed, and that no server holds two of its sessions unless a question *)
(* about one was written over by the next.                                 *)
(***************************************************************************)
EXTENDS DesktopSessions, TLAPS

RunRecord == [op : Operation, at : Place, cancelled : BOOLEAN, ending : BOOLEAN]
ClientRecord == [host : Hosts, up : BOOLEAN, sess : 0..MaxSessions, named : BOOLEAN,
                 timer : BOOLEAN]
QuestionRecord == [sess : Session, host : Hosts]
ServerRecord == [host : Hosts \cup {NoHost},
                 state : {"none", "asked", "refused", "held", "failed", "gone"}]

(* The places of a transition that has stopped the player and not started  *)
(* it again.                                                               *)
TornDown == {"asking", "reconnecting", "confirming", "replacing", "sending", "opening",
             "preparing", "leaving"}

(* Where the transition is, what is shown and what the client asked for:   *)
(* a client has a session while one is shown, asked for or torn down, and  *)
(* at no other place.                                                      *)
Placed ==
  /\ running.at \in TornDown => shown = "none"
  /\ running.at \in {"starting", "dropping"} => shown = "relay"
  /\ running.at = "connecting" => client = NoClient
  /\ running.at \in {"asking", "reconnecting", "confirming", "replacing"} => client # NoClient
  /\ running.at = "preparing" => client.named
  /\ client.sess # 0 <=> running.at \in {"asking", "opening", "preparing"} \/ shown = "relay"
  /\ queued = "replace" => ~Transitioning /\ shown = "none" /\ client # NoClient
  /\ queued # "autoplay"
  /\ closed => running = Idle /\ queued = "none" /\ client = NoClient /\ shown = "none"

(* A change that found a session playing has a transition before it that   *)
(* takes the session down; a session that opens was asked for after it.    *)
Applies ==
  /\ running.at \in {"opening", "preparing"} => ~stale
  /\ stale /\ shown = "relay" /\ ~window_closing =>
       queued # "none" \/ running.at \in {"choosing", "dropping"}

DesktopInv == SessionsTypeOK /\ Placed /\ Applies

(* The fields of the records, whether or not there are a transition, a     *)
(* client and a question.                                                  *)
LEMMA Fields ==
  ASSUME SessionsTypeOK
  PROVE  /\ running \in {Idle} \cup RunRecord /\ running.at \in Place \cup {"idle"}
         /\ running.cancelled \in BOOLEAN
         /\ running.at = "idle" <=> running = Idle
         /\ running # Idle => running \in RunRecord
         /\ client \in {NoClient} \cup ClientRecord /\ client.sess \in 0..MaxSessions
         /\ client.up \in BOOLEAN /\ client.named \in BOOLEAN /\ client.timer \in BOOLEAN
         /\ client.host \in Hosts \cup {NoHost}
         /\ client.host = NoHost <=> client = NoClient
         /\ client # NoClient => client \in ClientRecord
         /\ client.up \/ client.timer \/ client.named \/ client.sess # 0 => client \in ClientRecord
         /\ client.named => client.sess # 0
         /\ unreleased \in {NoQuestion} \cup QuestionRecord
         /\ at_server \in [Session -> ServerRecord]
         /\ client.sess # 0 => client.sess \in Session
<1>1. running \in {Idle} \cup RunRecord /\ client \in {NoClient} \cup ClientRecord
      /\ unreleased \in {NoQuestion} \cup QuestionRecord /\ at_server \in [Session -> ServerRecord]
      /\ (client.named => client.sess # 0)
  BY DEF SessionsTypeOK, RunRecord, ClientRecord, QuestionRecord, ServerRecord
<1>2. "idle" \notin Place
  BY DEF Place
<1>3. /\ running.at \in Place \cup {"idle"} /\ running.cancelled \in BOOLEAN
      /\ (running.at = "idle" <=> running = Idle) /\ (running # Idle => running \in RunRecord)
  <2>1. CASE running = Idle
    <3>1. running.at = "idle" /\ running.cancelled = FALSE
      BY <2>1 DEF Idle
    <3> QED  BY <2>1, <3>1
  <2>2. CASE running \in RunRecord
    <3>1. running.at \in Place /\ running.cancelled \in BOOLEAN
      BY <2>2 DEF RunRecord
    <3>2. running # Idle
      BY <1>2, <3>1 DEF Idle
    <3> QED  BY <1>2, <2>2, <3>1, <3>2
  <2> QED  BY <1>1, <2>1, <2>2
<1>4. /\ client.sess \in 0..MaxSessions
      /\ client.up \in BOOLEAN /\ client.named \in BOOLEAN /\ client.timer \in BOOLEAN
      /\ client.host \in Hosts \cup {NoHost}
      /\ (client.host = NoHost <=> client = NoClient)
      /\ (client # NoClient => client \in ClientRecord)
      /\ (client.up \/ client.timer \/ client.named \/ client.sess # 0 => client \in ClientRecord)
      /\ (client.sess # 0 => client.sess \in Session)
  <2>1. CASE client = NoClient
    <3>1. client.sess = 0 /\ client.up = FALSE /\ client.named = FALSE /\ client.timer = FALSE
          /\ client.host = NoHost
      BY <2>1 DEF NoClient
    <3>2. 0 \in 0..MaxSessions
      BY DesktopAssumption
    <3> QED  BY <2>1, <3>1, <3>2
  <2>2. CASE client \in ClientRecord
    <3>1. client.sess \in 0..MaxSessions /\ client.up \in BOOLEAN /\ client.named \in BOOLEAN
          /\ client.timer \in BOOLEAN /\ client.host \in Hosts
      BY <2>2 DEF ClientRecord
    <3>2. client # NoClient /\ client.host # NoHost
      BY <3>1, DesktopAssumption DEF NoClient
    <3>3. client.sess # 0 => client.sess \in Session
      BY <3>1, DesktopAssumption DEF Session
    <3> QED  BY <2>2, <3>1, <3>2, <3>3
  <2> QED  BY <1>1, <2>1, <2>2
<1> QED  BY <1>1, <1>3, <1>4

(* A transition goes on at another place.                                  *)
LEMMA GoesOn ==
  ASSUME SessionsTypeOK, running # Idle, NEW p \in Place, GoOn(p)
  PROVE  /\ running' \in RunRecord /\ running'.at = p /\ running'.op = running.op
         /\ running'.cancelled = running.cancelled /\ running'.ending = running.ending
BY Fields DEF GoOn, RunRecord

(* Where a teardown leads, once the server has been asked: a session is    *)
(* sent for only with a client and without a question.                     *)
LEMMA AfterTeardowns ==
  ASSUME NEW r \in RunRecord, NEW c, NEW u
  PROVE  /\ AfterTeardown(r, c, u) \in {"done", "confirming", "sending", "replacing", "leaving"}
         /\ AfterTeardown(r, c, u) \in {"confirming", "replacing"} => c # NoClient
         /\ AfterTeardown(r, c, u) \in {"sending", "replacing"} => u = NoQuestion
         /\ AfterTeardown(r, c, u) = "sending" => c # NoClient /\ c.up
         /\ AfterTeardown(r, c, u) \in {"sending", "replacing"} => r.op \in Opening
         /\ AfterTeardown(r, c, u) \in Place
<1>1. /\ Ready(c) \in {"done", "sending", "replacing"} /\ (Ready(c) # "done" => c # NoClient)
      /\ (Ready(c) = "sending" => c.up)
  BY DEF Ready
<1>2. AfterTeardown(r, c, u) \in {"done", "confirming", "leaving", Ready(c)}
      /\ (AfterTeardown(r, c, u) = "confirming" => c # NoClient)
  BY <1>1 DEF AfterTeardown
<1>3. AfterTeardown(r, c, u) \in {"sending", "replacing"} =>
        r.op \in Opening /\ AfterTeardown(r, c, u) = Ready(c)
        /\ (c = NoClient \/ u = NoQuestion)
  BY DEF AfterTeardown
<1> QED  BY <1>1, <1>2, <1>3 DEF Place

(* The first part of a teardown: the player stops, and a client with a     *)
(* session goes on to ask the server.                                      *)
LEMMA TearsDown ==
  ASSUME SessionsTypeOK, NEW r \in RunRecord, TeardownSession(r)
  PROVE  /\ shown' = "none" /\ running' \in RunRecord
         /\ running'.op = r.op /\ running'.cancelled = r.cancelled
         /\ client.sess # 0 => running'.at = "asking"
         /\ client.sess = 0 => running'.at \in {"done", "confirming", "sending", "replacing", "leaving"}
         /\ running'.at \in {"confirming", "replacing"} => client # NoClient
         /\ running'.at \in {"sending", "replacing"} => unreleased = NoQuestion
         /\ running'.at = "sending" => client.up
<1> DEFINE a == IF client.sess # 0 THEN "asking" ELSE AfterTeardown(r, client, unreleased)
<1>1. running' = [r EXCEPT !.at = a] /\ shown' = "none"
  BY DEF TeardownSession
<1>2. a \in Place
  BY AfterTeardowns DEF Place
<1>3. running' \in RunRecord /\ running'.at = a /\ running'.op = r.op
      /\ running'.cancelled = r.cancelled
  <2> HIDE DEF a
  <2> QED  BY <1>1, <1>2 DEF RunRecord
<1> QED  BY <1>1, <1>3, AfterTeardowns

(* A client keeps its session, and whether it can name it, when a flag of  *)
(* its connection is cleared or a timer set.                               *)
LEMMA Flags ==
  ASSUME SessionsTypeOK, NEW c,
         \/ c = client \/ c = [client EXCEPT !.up = FALSE]
         \/ c = [client EXCEPT !.timer = FALSE]
         \/ client.up /\ c = [client EXCEPT !.up = FALSE, !.timer = TRUE]
  PROVE  /\ c \in {NoClient} \cup ClientRecord /\ c.sess = client.sess
         /\ c.named = client.named /\ c.host = client.host
         /\ c = NoClient <=> client = NoClient
         /\ c.up => client.up
<1>1. CASE client = NoClient
  <2>1. client.up = FALSE /\ client.timer = FALSE
    BY <1>1 DEF NoClient
  <2>2. c = client
    BY <1>1, <2>1 DEF NoClient
  <2> QED  BY <1>1, <2>2
<1>2. CASE client # NoClient
  <2>1. client \in ClientRecord /\ client.host \in Hosts
    BY <1>2, Fields DEF ClientRecord
  <2>2. c \in ClientRecord /\ c.sess = client.sess /\ c.named = client.named
        /\ c.host = client.host /\ (c.up => client.up)
    BY <2>1 DEF ClientRecord
  <2>3. c # NoClient
    BY <2>1, <2>2, DesktopAssumption DEF NoClient
  <2> QED  BY <1>2, <2>2, <2>3
<1> QED  BY <1>1, <1>2

(* A transition at work goes on at the place p with a client and a picture *)
(* that fit the place.                                                     *)
LEMMA WentOn ==
  ASSUME DesktopInv, running # Idle, NEW p \in Place, GoOn(p),
         UNCHANGED <<queued, snapshot, window_closing, closed, latch, setting, boundVars>>,
         client' \in {NoClient} \cup ClientRecord, client'.named => client'.sess # 0,
         unreleased' \in {NoQuestion} \cup QuestionRecord, excused' \subseteq Session,
         shown' \in {"none", "relay", "local"}, shown' = "relay" => client'.named,
         at_server' \in [Session -> ServerRecord], stale' \in BOOLEAN,
         p \in TornDown => shown' = "none",
         p \in {"starting", "dropping"} => shown' = "relay",
         p = "connecting" => client' = NoClient,
         p \in {"asking", "reconnecting", "confirming", "replacing"} => client' # NoClient,
         p = "preparing" => client'.named,
         client'.sess # 0 <=> p \in {"asking", "opening", "preparing"} \/ shown' = "relay",
         p \in {"opening", "preparing"} => ~stale',
         stale' /\ shown' = "relay" /\ ~window_closing => queued # "none" \/ p \in {"choosing", "dropping"}
  PROVE  DesktopInv'
<1>1. running' \in RunRecord /\ running'.at = p
  BY GoesOn DEF DesktopInv
<1>2. ~closed /\ queued # "replace" /\ queued # "autoplay"
  BY DEF DesktopInv, Placed, Transitioning
<1>3. SessionsTypeOK'
  <2>1. /\ queued' \in Operation \cup {"none"}
        /\ snapshot' \in BOOLEAN /\ window_closing' \in BOOLEAN /\ closed' \in BOOLEAN
        /\ latch' \in [Hosts -> BOOLEAN] /\ setting' \in 0..MaxChanges
        /\ intents' \in 0..MaxIntents /\ faults' \in 0..MaxFaults
    BY DEF DesktopInv, SessionsTypeOK, boundVars
  <2> QED  BY <1>1, <2>1 DEF SessionsTypeOK, RunRecord, ClientRecord, QuestionRecord, ServerRecord
<1>4. Placed'
  BY <1>1, <1>2 DEF Placed
<1>5. Applies'
  BY <1>1 DEF Applies
<1> QED  BY <1>3, <1>4, <1>5 DEF DesktopInv

(* A transition that is about to begin, or that failed, tears down.        *)
LEMMA Torn ==
  ASSUME DesktopInv, ~closed, NEW r \in RunRecord, TeardownSession(r),
         queued' \in {queued, "none"}, running # Idle \/ queued' = "none",
         client' \in {client, [client EXCEPT !.up = FALSE]},
         UNCHANGED <<snapshot, window_closing, closed, questionVars, atServerVars, settingVars, boundVars>>
  PROVE  DesktopInv'
<1> USE DEF DesktopInv
<1>1. /\ client' \in {NoClient} \cup ClientRecord /\ client'.sess = client.sess
      /\ client'.named = client.named /\ (client' = NoClient <=> client = NoClient)
  BY Flags
<1>2. /\ shown' = "none" /\ running' \in RunRecord
      /\ (client.sess # 0 => running'.at = "asking")
      /\ (client.sess = 0 => running'.at \in {"done", "confirming", "sending", "replacing", "leaving"})
      /\ (running'.at \in {"confirming", "replacing"} => client # NoClient)
  BY TearsDown
<1>3. queued' # "replace" /\ queued' # "autoplay"
  BY DEF Placed, Transitioning
<1>4. SessionsTypeOK'
  <2>1. /\ queued' \in Operation \cup {"none"} /\ shown' \in {"none", "relay", "local"}
        /\ snapshot' \in BOOLEAN /\ window_closing' \in BOOLEAN /\ closed' \in BOOLEAN
        /\ latch' \in [Hosts -> BOOLEAN] /\ setting' \in 0..MaxChanges /\ stale' \in BOOLEAN
        /\ intents' \in 0..MaxIntents /\ faults' \in 0..MaxFaults /\ excused' \subseteq Session
    BY <1>2 DEF SessionsTypeOK, boundVars, atServerVars, settingVars, questionVars
  <2>2. /\ at_server' \in [Session -> ServerRecord] /\ unreleased' \in {NoQuestion} \cup QuestionRecord
        /\ (client'.named => client'.sess # 0)
    BY Fields, <1>1 DEF atServerVars, questionVars
  <2>3. shown' = "relay" => client'.named
    BY <1>2
  <2> QED  BY <1>1, <1>2, <2>1, <2>2, <2>3
             DEF SessionsTypeOK, RunRecord, ClientRecord, QuestionRecord, ServerRecord
<1>5. client.sess # 0 => client # NoClient
  BY DEF NoClient
<1>6. Placed'
  BY <1>1, <1>2, <1>3, <1>5 DEF Placed, TornDown
<1>7. Applies'
  BY <1>2 DEF Applies
<1> QED  BY <1>4, <1>6, <1>7

(* Something else happens while a transition is where it was: a new intent *)
(* may be queued, the connection may be lost, servers go on.               *)
LEMMA Around ==
  ASSUME DesktopInv,
         \/ ~closed /\ \E op \in Operation \ {"autoplay"} :
              Run(op) /\ (op = "replace" => running = Idle /\ shown = "none" /\ client # NoClient)
         \/ UNCHANGED transitionVars /\ (shown = "relay" => stale' = stale),
         client' \in {NoClient} \cup ClientRecord, client'.sess = client.sess,
         client'.named = client.named, client' = NoClient <=> client = NoClient,
         window_closing => window_closing', shown # "relay" => stale' = stale,
         UNCHANGED <<shown, closed, questionVars>>,
         snapshot' \in BOOLEAN, window_closing' \in BOOLEAN, stale' \in BOOLEAN,
         setting' \in 0..MaxChanges, intents' \in 0..MaxIntents, faults' \in 0..MaxFaults,
         at_server' \in [Session -> ServerRecord], latch' \in [Hosts -> BOOLEAN]
  PROVE  DesktopInv'
<1> USE DEF DesktopInv
<1>1. /\ running' \in {Idle} \cup RunRecord /\ running'.at = running.at
      /\ (running' = Idle <=> running = Idle)
      /\ queued' \in Operation \cup {"none"}
  <2>1. CASE UNCHANGED transitionVars
    BY <2>1, Fields DEF transitionVars, SessionsTypeOK
  <2>2. ASSUME NEW op \in Operation \ {"autoplay"}, Run(op), running = Idle
        PROVE  running' = running /\ queued' \in Operation \cup {"none"}
    BY <2>2 DEF Run, Transitioning
  <2>3. ASSUME NEW op \in Operation \ {"autoplay"}, Run(op), running # Idle
        PROVE  /\ running' \in RunRecord /\ running'.at = running.at /\ running' # Idle
               /\ queued' \in Operation \cup {"none"}
    <3>1. running \in RunRecord /\ running' = [running EXCEPT !.cancelled = TRUE] /\ queued' = op
      BY <2>3, Fields DEF Run, Transitioning
    <3>2. running' \in RunRecord /\ running'.at = running.at /\ running'.cancelled = TRUE
      BY <3>1 DEF RunRecord
    <3> QED  BY <3>1, <3>2 DEF Idle
  <2> QED  BY <2>1, <2>2, <2>3, Fields
<1>2. SessionsTypeOK'
  <2>1. shown' \in {"none", "relay", "local"} /\ closed' \in BOOLEAN /\ excused' \subseteq Session
    BY DEF SessionsTypeOK, questionVars
  <2>2. /\ unreleased' \in {NoQuestion} \cup QuestionRecord
        /\ (client'.named => client'.sess # 0)
    BY Fields DEF questionVars
  <2>3. shown' = "relay" => client'.named
    BY DEF SessionsTypeOK
  <2> QED  BY <1>1, <2>1, <2>2, <2>3
             DEF SessionsTypeOK, RunRecord, ClientRecord, QuestionRecord, ServerRecord
<1>3. queued' = "replace" => running = Idle /\ shown = "none" /\ client # NoClient
  BY DEF Placed, Run, Transitioning, transitionVars
<1>4. closed => running' = Idle /\ queued' = "none" /\ client' = NoClient
  BY DEF Placed, transitionVars
<1>5. Placed'
  <2>1. queued' # "autoplay"
    BY DEF Placed, Run, transitionVars
  <2> QED  BY <1>1, <1>3, <1>4, <2>1 DEF Placed, Transitioning
<1>6. queued' = "none" => queued = "none"
  BY DEF Run, Operation, Opening, transitionVars
<1>7. Applies'
  <2>1. running.at \in {"opening", "preparing"} => shown = "none"
    BY DEF Placed, TornDown
  <2>2. queued' # "none" \/ stale' = stale
    BY DEF Run, Operation, Opening, transitionVars
  <2> QED  BY <1>1, <1>6, <2>1, <2>2 DEF Applies
<1> QED  BY <1>2, <1>5, <1>7


(* The steps that begin or fail a transition with a teardown.              *)
LEMMA EnterKeeps ==
  ASSUME DesktopInv, NEW op \in Operation, Enter(op)
  PROVE  DesktopInv'
<1> DEFINE r == [Idle EXCEPT !.op = op, !.at = "done"]
<1> USE DEF DesktopInv
<1>1. /\ running = Idle /\ queued = op /\ queued' = "none" /\ ~closed
      /\ UNCHANGED <<client, snapshot, window_closing, closed, questionVars, atServerVars, settingVars, boundVars>>
  BY DEF Enter, Transitioning, Placed, Operation, Opening
<1>2. r \in RunRecord /\ r.op = op
  BY DEF RunRecord, Idle, Place
<1>3. CASE TeardownSession(r)
  <2> HIDE DEF r
  <2> QED  BY <1>1, <1>2, <1>3, Torn
<1>4. \A p \in Place : [r EXCEPT !.at = p] \in RunRecord /\ [r EXCEPT !.at = p].at = p
  BY <1>2 DEF RunRecord
<1>5. ASSUME NEW p \in {"choosing", "connecting", "replacing", "done", "loading", "dropping"},
             running' = [r EXCEPT !.at = p], UNCHANGED shown,
             p = "connecting" => client = NoClient,
             p = "replacing" => client # NoClient /\ shown = "none",
             p = "dropping" => shown = "relay",
             stale /\ shown = "relay" /\ ~window_closing => p \in {"choosing", "dropping"}
      PROVE  DesktopInv'
  <2>1. running' \in RunRecord /\ running'.at = p
    <3> HIDE DEF r
    <3> QED  BY <1>4, <1>5 DEF Place
  <2>2. SessionsTypeOK'
    <3>1. /\ queued' \in Operation \cup {"none"} /\ shown' \in {"none", "relay", "local"}
          /\ snapshot' \in BOOLEAN /\ window_closing' \in BOOLEAN /\ closed' \in BOOLEAN
          /\ latch' \in [Hosts -> BOOLEAN] /\ setting' \in 0..MaxChanges /\ stale' \in BOOLEAN
          /\ intents' \in 0..MaxIntents /\ faults' \in 0..MaxFaults /\ excused' \subseteq Session
      BY <1>1, <1>5 DEF SessionsTypeOK, boundVars, atServerVars, settingVars, questionVars
    <3>2. /\ at_server' \in [Session -> ServerRecord] /\ unreleased' \in {NoQuestion} \cup QuestionRecord
          /\ client' \in {NoClient} \cup ClientRecord /\ (client'.named => client'.sess # 0)
      BY Fields, <1>1 DEF atServerVars, questionVars
    <3>3. shown' = "relay" => client'.named
      BY <1>1, <1>5 DEF SessionsTypeOK
    <3> QED  BY <2>1, <3>1, <3>2, <3>3
               DEF SessionsTypeOK, RunRecord, ClientRecord, QuestionRecord, ServerRecord
  <2>3. Placed'
    <3>1. client.sess # 0 <=> shown = "relay"
      BY <1>1 DEF Placed, Idle
    <3> QED  BY <1>1, <1>5, <2>1, <3>1 DEF Placed, TornDown
  <2>4. Applies'
    BY <1>1, <1>5, <2>1 DEF Applies, settingVars
  <2> QED  BY <2>2, <2>3, <2>4
<1>6. stale /\ shown = "relay" /\ ~window_closing => queued # "none"
  BY <1>1 DEF Applies, Idle
<1>7. shown = "relay" => client.sess # 0 /\ client # NoClient
  BY DEF Placed, NoClient
<1>8. CASE op = "open"
  <2>1. CASE ~window_closing
    BY <1>1, <1>3, <1>8, <2>1 DEF Enter
  <2>2. CASE window_closing
    <3>1. running' = r /\ UNCHANGED shown
      BY <1>8, <2>2 DEF Enter
    <3>2. r = [r EXCEPT !.at = "done"]
      BY DEF Idle
    <3> HIDE DEF r
    <3> QED  BY <1>5, <2>2, <3>1, <3>2
  <2> QED  BY <2>1, <2>2
<1>9. CASE op \in {"restart", "stop", "close"}
  BY <1>3, <1>9 DEF Enter
<1>10. CASE op = "advance"
  <2>1. running' = [r EXCEPT !.at = "choosing"] /\ UNCHANGED shown
    BY <1>10 DEF Enter
  <2> HIDE DEF r
  <2> QED  BY <1>5, <2>1
<1>11. CASE op = "connect"
  <2>1. CASE client = NoClient
    <3>1. running' = [r EXCEPT !.at = "connecting"] /\ UNCHANGED shown
      BY <1>11, <2>1 DEF Enter
    <3> HIDE DEF r
    <3> QED  BY <1>5, <1>7, <2>1, <3>1
  <2>2. CASE client # NoClient
    BY <1>3, <1>11, <2>2 DEF Enter
  <2> QED  BY <2>1, <2>2
<1>12. CASE op = "replace"
  <2>1. running' = [r EXCEPT !.at = "replacing"] /\ UNCHANGED shown
    BY <1>12 DEF Enter
  <2>2. client # NoClient /\ shown = "none"
    BY <1>1, <1>12 DEF Placed
  <2> HIDE DEF r
  <2> QED  BY <1>5, <2>1, <2>2
<1>13. CASE op = "fallback"
  <2> DEFINE p == IF shown # "relay" THEN "done" ELSE IF client = NoClient THEN "loading"
                  ELSE "dropping"
  <2>1. running' = [r EXCEPT !.at = p] /\ UNCHANGED shown
    BY <1>13 DEF Enter
  <2>2. p \in {"done", "dropping"} /\ (p = "dropping" <=> shown = "relay")
    BY <1>7
  <2> HIDE DEF r, p
  <2> QED  BY <1>5, <2>1, <2>2
<1>14. op # "autoplay"
  BY <1>1 DEF Placed
<1> QED  BY <1>8, <1>9, <1>10, <1>11, <1>12, <1>13, <1>14 DEF Operation, Opening


(* A transition that fails, or that chooses to stop, tears down.           *)
LEMMA FailureKeeps ==
  ASSUME DesktopInv, Choose \/ Cancelled \/ NotSent \/ OpenFails
  PROVE  DesktopInv'
<1> USE DEF DesktopInv
<1>1. running # Idle /\ running \in RunRecord
  BY Fields DEF Choose, Cancelled, NotSent, OpenFails, Idle
<1>2. ~closed
  BY <1>1 DEF Placed
<1>3. [running EXCEPT !.ending = TRUE] \in RunRecord
  BY <1>1 DEF RunRecord
<1>4. CASE Choose
  <2>1. PICK op \in {"autoplay", "stop"} : TeardownSession([running EXCEPT !.op = op])
    BY <1>4 DEF Choose
  <2>2. [running EXCEPT !.op = op] \in RunRecord
    BY <1>1 DEF RunRecord, Operation, Opening
  <2> QED  BY <1>1, <1>2, <1>4, <2>1, <2>2, Torn DEF Choose
<1>5. CASE Cancelled
  <2>1. client' \in {client, [client EXCEPT !.up = FALSE]}
    BY <1>5 DEF Cancelled
  <2> QED  BY <1>1, <1>2, <1>3, <1>5, <2>1, Torn DEF Cancelled
<1>6. CASE NotSent
  BY <1>1, <1>2, <1>3, <1>6, Torn DEF NotSent
<1>7. CASE OpenFails
  BY <1>1, <1>2, <1>3, <1>7, Torn DEF OpenFails
<1> QED  BY <1>4, <1>5, <1>6, <1>7

(* A new connection, one that is shut, and a session that was asked about. *)
LEMMA Clients ==
  ASSUME SessionsTypeOK
  PROVE  /\ \A h \in Hosts : /\ Fresh(h) \in ClientRecord /\ Fresh(h) # NoClient
                            /\ Fresh(h).sess = 0 /\ (~Fresh(h).named) /\ Fresh(h).host = h
         /\ client # NoClient =>
              /\ Shut(client) \in ClientRecord /\ Shut(client) # NoClient
              /\ Shut(client).sess = 0 /\ (~Shut(client).named)
              /\ Shut(client).host = client.host
         /\ NoClient.sess = 0 /\ (~NoClient.named) /\ NoClient.host = NoHost
         /\ client.named => [sess |-> client.sess, host |-> client.host] \in QuestionRecord
<1>1. 0 \in 0..MaxSessions
  BY DesktopAssumption
<1>2. \A h \in Hosts : /\ Fresh(h) \in ClientRecord /\ Fresh(h) # NoClient
                     /\ Fresh(h).sess = 0 /\ (~Fresh(h).named) /\ Fresh(h).host = h
  BY <1>1, DesktopAssumption DEF Fresh, NoClient, ClientRecord
<1>3. client # NoClient => client.host \in Hosts
  BY Fields DEF ClientRecord
<1>4. client # NoClient =>
        /\ Shut(client) \in ClientRecord /\ Shut(client) # NoClient
        /\ Shut(client).sess = 0 /\ (~Shut(client).named)
        /\ Shut(client).host = client.host
  BY <1>1, <1>3, DesktopAssumption DEF Shut, NoClient, ClientRecord
<1>5. NoClient.sess = 0 /\ (~NoClient.named) /\ NoClient.host = NoHost
  BY DEF NoClient
<1>6. client.named => [sess |-> client.sess, host |-> client.host] \in QuestionRecord
  BY <1>3, <1>5, Fields DEF QuestionRecord
<1> QED  BY <1>2, <1>4, <1>5, <1>6

(* The steps of the teardown, after which the session is nobody's.         *)
LEMMA AskingKeeps ==
  ASSUME DesktopInv,
         TeardownAcknowledged \/ TeardownUnconfirmed \/ HardStop \/ Reconnect
  PROVE  DesktopInv'
<1> USE DEF DesktopInv
<1>1. running \in RunRecord /\ running # Idle /\ running.at \in {"asking", "reconnecting"}
  BY Fields DEF TeardownAcknowledged, TeardownUnconfirmed, HardStop, Reconnect, Idle
<1>2. /\ shown' = shown /\ shown = "none"
      /\ at_server' \in [Session -> ServerRecord]
      /\ UNCHANGED <<queued, snapshot, window_closing, closed, latch, setting, stale, boundVars>>
      /\ stale' \in BOOLEAN
  BY <1>1, Fields DEF TeardownAcknowledged, TeardownUnconfirmed, HardStop, Reconnect, windowVars,
     atServerVars, settingVars, Placed, TornDown, SessionsTypeOK
<1>3. client # NoClient
  BY <1>1 DEF Placed
<1>4. ASSUME NEW p \in {"done", "confirming", "sending", "replacing", "leaving", "reconnecting"},
             GoOn(p), client' \in {NoClient} \cup ClientRecord, client'.sess = 0, ~client'.named,
             p \in {"confirming", "replacing", "reconnecting"} => client' # NoClient,
             unreleased' \in {NoQuestion} \cup QuestionRecord, excused' \subseteq Session
      PROVE  DesktopInv'
  <2>1. p \in Place
    BY DEF Place
  <2>2. client'.sess # 0 <=> p \in {"asking", "opening", "preparing"} \/ shown' = "relay"
    BY <1>2, <1>4
  <2> QED  BY <1>1, <1>2, <1>4, <2>1, <2>2, WentOn
<1>5. unreleased \in {NoQuestion} \cup QuestionRecord /\ excused \subseteq Session
  BY Fields DEF SessionsTypeOK
<1>6. CASE TeardownAcknowledged
  <2>1. UNCHANGED questionVars
    BY <1>6 DEF TeardownAcknowledged
  <2>2. CASE window_closing
    <3>1. client' = NoClient /\ GoOn(AfterTeardown(running, NoClient, unreleased))
      BY <1>6, <2>2 DEF TeardownAcknowledged
    <3> QED  BY <1>1, <1>4, <1>5, <2>1, <3>1, AfterTeardowns, Clients DEF questionVars
  <2>3. CASE ~window_closing
    <3>1. client' = Shut(client) /\ GoOn("reconnecting")
      BY <1>6, <2>3 DEF TeardownAcknowledged
    <3> QED  BY <1>3, <1>4, <1>5, <2>1, <3>1, Clients DEF questionVars
  <2> QED  BY <2>2, <2>3
<1>7. CASE TeardownUnconfirmed
  <2>1. client' = Shut(client) /\ GoOn("reconnecting") /\ UNCHANGED excused
        /\ unreleased' \in {NoQuestion} \cup QuestionRecord
    BY <1>7, Clients DEF TeardownUnconfirmed
  <2> QED  BY <1>3, <1>4, <1>5, <2>1, Clients
<1>8. CASE HardStop
  <2>1. client' = NoClient /\ GoOn(AfterTeardown(running, NoClient, unreleased))
        /\ UNCHANGED unreleased /\ excused' = excused \cup {client.sess}
    BY <1>8 DEF HardStop
  <2>2. client.sess \in Session
    BY <1>8, Fields DEF HardStop, Placed
  <2>3. excused' \subseteq Session
    BY <1>5, <2>1, <2>2
  <2> QED  BY <1>1, <1>4, <1>5, <2>1, <2>3, AfterTeardowns, Clients
<1>9. CASE Reconnect
  <2>1. PICK c \in {Fresh(client.host), NoClient} :
          client' = c /\ GoOn(AfterTeardown(running, c, unreleased))
    BY <1>9 DEF Reconnect
  <2>2. UNCHANGED questionVars
    BY <1>9 DEF Reconnect
  <2>3. c \in {NoClient} \cup ClientRecord /\ c.sess = 0 /\ ~c.named
    BY <1>3, Fields, Clients DEF ClientRecord
  <2> QED  BY <1>1, <1>4, <1>5, <2>1, <2>2, <2>3, AfterTeardowns DEF questionVars
<1> QED  BY <1>6, <1>7, <1>8, <1>9


(* The answer to the question, and the connections that are made, replaced *)
(* and left.                                                               *)
LEMMA ConnectingKeeps ==
  ASSUME DesktopInv,
         Confirmed \/ NotConfirmed \/ Replace \/ Connect \/ DisconnectClient
  PROVE  DesktopInv'
<1> USE DEF DesktopInv
<1>1. running \in RunRecord /\ running # Idle
      /\ running.at \in {"confirming", "replacing", "connecting", "leaving"}
  BY Fields DEF Confirmed, NotConfirmed, Replace, Connect, DisconnectClient, Idle
<1>2. /\ shown' = shown
      /\ at_server' \in [Session -> ServerRecord] /\ excused' \subseteq Session
      /\ UNCHANGED <<queued, snapshot, window_closing, closed, latch, setting, stale, boundVars>>
      /\ stale' \in BOOLEAN /\ shown \in {"none", "relay", "local"}
  BY <1>1, Fields DEF Confirmed, NotConfirmed, Replace, Connect, DisconnectClient, windowVars,
     atServerVars, settingVars, questionVars, SessionsTypeOK
<1>3. client.sess = 0 /\ (~client.named) /\ shown # "relay"
  <2>1. running.at # "connecting" => shown = "none"
    BY <1>1 DEF Placed, TornDown
  <2>2. running.at = "connecting" => client = NoClient
    BY DEF Placed
  <2>3. client.sess = 0
    BY <1>1, <2>1, <2>2 DEF Placed, NoClient
  <2> QED  BY <1>1, <2>3, Fields DEF Placed
<1>4. ASSUME NEW p \in {"done", "sending", "replacing"},
             GoOn(p), client' \in {NoClient, client} \cup ClientRecord, client'.sess = 0, ~client'.named,
             p = "replacing" => client' # NoClient, p # "done" => shown = "none",
             unreleased' \in {NoQuestion} \cup QuestionRecord
      PROVE  DesktopInv'
  <2>1. p \in Place
    BY DEF Place
  <2>2. client'.sess # 0 <=> p \in {"asking", "opening", "preparing"} \/ shown' = "relay"
    BY <1>2, <1>3, <1>4
  <2>3. client' \in {NoClient} \cup ClientRecord
    BY <1>4, Fields
  <2>4. p \in TornDown => shown' = "none"
    BY <1>2, <1>4 DEF TornDown
  <2>5. shown' # "relay"
    BY <1>2, <1>3
  <2> QED  BY <1>1, <1>2, <1>4, <2>1, <2>2, <2>3, <2>4, <2>5, WentOn
<1>5. unreleased \in {NoQuestion} \cup QuestionRecord
  BY Fields
<1>6. CASE Confirmed
  <2> DEFINE p == IF running.op \in Opening THEN Ready(client)
                  ELSE IF client.up THEN "done" ELSE "replacing"
  <2>1. GoOn(p) /\ UNCHANGED client /\ unreleased' \in {NoQuestion, unreleased}
    BY <1>6 DEF Confirmed
  <2>2. p \in {"done", "sending", "replacing"}
    BY DEF Ready
  <2>3. shown = "none" /\ client # NoClient
    BY <1>6 DEF Confirmed, Placed, TornDown
  <2> HIDE DEF p
  <2> QED  BY <1>3, <1>4, <1>5, <2>1, <2>2, <2>3
<1>7. CASE NotConfirmed
  BY <1>3, <1>4, <1>5, <1>7, Clients DEF NotConfirmed, questionVars
<1>8. CASE Replace
  <2>1. PICK c \in {Fresh(client.host), NoClient, client} :
          /\ client' = c
          /\ GoOn(IF running.op \in Opening /\ c # NoClient THEN "sending" ELSE "done")
    BY <1>8 DEF Replace
  <2>2. client # NoClient /\ shown = "none"
    BY <1>8 DEF Replace, Placed, TornDown
  <2>3. c \in {NoClient, client} \cup ClientRecord /\ c.sess = 0 /\ ~c.named
    BY <1>3, <2>2, Fields, Clients DEF ClientRecord
  <2>4. UNCHANGED unreleased
    BY <1>8 DEF Replace, questionVars
  <2> QED  BY <1>4, <1>5, <2>1, <2>2, <2>3, <2>4
<1>9. CASE Connect
  <2>1. PICK c \in {Fresh(h) : h \in Hosts} \cup {NoClient} : client' = c
    BY <1>9 DEF Connect
  <2>2. c \in {NoClient} \cup ClientRecord /\ c.sess = 0 /\ ~c.named
    BY Clients
  <2> QED  BY <1>4, <1>5, <1>9, <2>1, <2>2 DEF Connect, questionVars
<1>10. CASE DisconnectClient
  BY <1>4, <1>5, <1>10, Clients DEF DisconnectClient, questionVars
<1> QED  BY <1>6, <1>7, <1>8, <1>9, <1>10

(* The steps that ask for a session, open it and start the player.         *)
LEMMA OpeningKeeps ==
  ASSUME DesktopInv,
         (\E s \in Session : SendOpen(s)) \/ SessionOpened \/ StartPlayer \/ Play
  PROVE  DesktopInv'
<1> USE DEF DesktopInv
<1>1. running \in RunRecord /\ running # Idle
  BY Fields DEF SendOpen, SessionOpened, StartPlayer, Play, Idle
<1>2. /\ UNCHANGED <<queued, snapshot, window_closing, closed, latch, setting, boundVars>>
      /\ unreleased' \in {NoQuestion} \cup QuestionRecord /\ excused' \subseteq Session
      /\ UNCHANGED unreleased
  BY Fields DEF SendOpen, SessionOpened, StartPlayer, Play, windowVars, atServerVars, settingVars,
     questionVars, SessionsTypeOK
<1>3. client \in {NoClient} \cup ClientRecord /\ (client.named => client.sess # 0)
      /\ at_server \in [Session -> ServerRecord] /\ stale \in BOOLEAN
  BY Fields DEF SessionsTypeOK
<1>4. CASE SessionOpened \/ StartPlayer \/ Play
  <2>1. at_server' \in [Session -> ServerRecord] /\ stale' = stale
    BY <1>3, <1>4 DEF SessionOpened, StartPlayer, Play, atServerVars, settingVars
  <2>2. CASE SessionOpened
    <3>1. client \in ClientRecord /\ client' = [client EXCEPT !.named = TRUE]
          /\ shown' = "none" /\ client.sess # 0 /\ ~stale
      BY <2>2, Fields DEF SessionOpened, windowVars, Placed, TornDown, Applies
    <3>2. client' \in ClientRecord /\ client'.named /\ client'.sess = client.sess
      BY <3>1 DEF ClientRecord
    <3>3. GoOn("preparing") /\ "preparing" \in Place
      BY <2>2 DEF SessionOpened, Place
    <3>4. client' # NoClient
      BY <3>2 DEF NoClient
    <3> QED  BY <1>1, <1>2, <1>3, <2>1, <3>1, <3>2, <3>3, <3>4, WentOn
  <2>3. CASE StartPlayer
    <3>1. UNCHANGED client /\ shown' = "relay" /\ client.named /\ ~stale
      BY <2>3 DEF StartPlayer, Placed, Applies
    <3>2. GoOn("starting") /\ "starting" \in Place /\ "starting" \notin TornDown
      BY <2>3 DEF StartPlayer, Place, TornDown
    <3>3. client'.sess # 0 /\ client'.named /\ client' \in {NoClient} \cup ClientRecord
      BY <1>3, <3>1
    <3> QED  BY <1>1, <1>2, <1>3, <2>1, <3>1, <3>2, <3>3, WentOn
  <2>4. CASE Play
    <3>1. UNCHANGED <<client, shown>> /\ shown = "relay" /\ client.named
          /\ (stale /\ ~window_closing => queued # "none")
      BY <2>4 DEF Play, windowVars, Placed, Applies, SessionsTypeOK
    <3>2. GoOn("done") /\ "done" \in Place /\ "done" \notin TornDown
      BY <2>4 DEF Play, Place, TornDown
    <3>3. client'.sess # 0 /\ client'.named /\ client' \in {NoClient} \cup ClientRecord
      BY <1>3, <3>1
    <3> QED  BY <1>1, <1>2, <1>3, <2>1, <3>1, <3>2, <3>3, WentOn
  <2> QED  BY <1>4, <2>2, <2>3, <2>4
<1>5. CASE \E s \in Session : SendOpen(s)
  <2>1. PICK s \in Session : SendOpen(s)
    BY <1>5
  <2>2. client.up /\ client \in ClientRecord /\ client' = [client EXCEPT !.sess = s]
        /\ shown' = "none" /\ stale' = FALSE /\ s \in 0..MaxSessions /\ s # 0
    BY <2>1, Fields, DesktopAssumption DEF SendOpen, windowVars, Placed, TornDown, Session
  <2>3. client' \in ClientRecord /\ client'.sess = s
    BY <2>2 DEF ClientRecord
  <2>4. at_server' \in [Session -> ServerRecord]
    <3>1. [host |-> client.host, state |-> "asked"] \in ServerRecord
      BY <2>2 DEF ServerRecord, ClientRecord
    <3> QED  BY <1>3, <2>1, <3>1 DEF SendOpen
  <2>5. GoOn("opening") /\ "opening" \in Place
    BY <2>1 DEF SendOpen, Place
  <2> QED  BY <1>1, <1>2, <2>2, <2>3, <2>4, <2>5, WentOn
<1> QED  BY <1>4, <1>5


(* The steps of a file that is played without the server, and the end of a *)
(* transition and of the application.                                      *)
LEMMA LocalKeeps ==
  ASSUME DesktopInv, Drop \/ PlayLocal
  PROVE  DesktopInv'
<1> USE DEF DesktopInv
<1>1. running \in RunRecord /\ running # Idle
  BY Fields DEF Drop, PlayLocal, Idle
<1>2. /\ UNCHANGED <<queued, snapshot, window_closing, closed, latch, setting, stale, boundVars>>
      /\ at_server' \in [Session -> ServerRecord] /\ stale \in BOOLEAN
  BY Fields DEF Drop, PlayLocal, atServerVars, settingVars, SessionsTypeOK
<1>3. unreleased \in {NoQuestion} \cup QuestionRecord /\ excused \subseteq Session
  BY Fields DEF SessionsTypeOK
<1>4. "loading" \in Place /\ "done" \in Place /\ "done" \notin TornDown /\ "loading" \notin TornDown
  BY DEF Place, TornDown
<1>5. CASE Drop
  <2>1. client' = NoClient /\ shown' = "local" /\ GoOn("loading")
    BY <1>5 DEF Drop
  <2>2. unreleased' \in {NoQuestion} \cup QuestionRecord /\ excused' \subseteq Session
    <3>1. client.sess \in Session
      BY <1>5, Fields DEF Drop, Placed
    <3> QED  BY <1>3, <1>5, <3>1, Clients DEF Drop, questionVars
  <2> QED  BY <1>1, <1>2, <1>4, <2>1, <2>2, Clients, WentOn
<1>6. ASSUME PlayLocal, GoOn("done"), UNCHANGED shown
      PROVE  DesktopInv'
  <2>1. UNCHANGED <<client, unreleased, excused>>
    BY <1>6 DEF PlayLocal, questionVars
  <2>2. (client.sess # 0 <=> shown = "relay") /\ (client.named => client.sess # 0)
        /\ client \in {NoClient} \cup ClientRecord /\ shown \in {"none", "relay", "local"}
        /\ (shown = "relay" => client.named)
        /\ (stale /\ shown = "relay" /\ ~window_closing => queued # "none")
    BY <1>6, Fields DEF PlayLocal, Placed, Applies, SessionsTypeOK
  <2> QED  BY <1>1, <1>2, <1>3, <1>4, <1>6, <2>1, <2>2, WentOn
<1>7. ASSUME PlayLocal, TeardownSession([running EXCEPT !.ending = TRUE])
      PROVE  DesktopInv'
  <2>1. [running EXCEPT !.ending = TRUE] \in RunRecord /\ ~closed
    BY <1>1 DEF RunRecord, Placed
  <2> QED  BY <1>1, <1>7, <2>1, Torn DEF PlayLocal
<1> QED  BY <1>5, <1>6, <1>7 DEF PlayLocal

(* A transition ends, or the application does.                             *)
LEMMA EndKeeps ==
  ASSUME DesktopInv, Finish \/ CloseReady
  PROVE  DesktopInv'
<1> USE DEF DesktopInv
<1>1. running' = Idle /\ queued' \in {queued, "none"} /\ snapshot' \in BOOLEAN
      /\ client' \in {client, NoClient} /\ shown' \in {shown, "none"}
      /\ UNCHANGED <<window_closing, questionVars, atServerVars, settingVars, boundVars>>
      /\ closed' \in BOOLEAN /\ ~closed
  <2>1. snapshot \in BOOLEAN /\ closed \in BOOLEAN
    BY DEF SessionsTypeOK
  <2>2. CASE Finish
    <3>1. running.at = "done" /\ Idle.at = "idle"
      BY <2>2 DEF Finish, Idle
    <3>2. ~closed
      BY <3>1 DEF Placed
    <3>3. snapshot' = (snapshot /\ ~(running.op \in {"open", "restart"} /\ queued = "none"))
          /\ closed' = closed
      BY <2>2 DEF Finish
    <3>4. snapshot' \in BOOLEAN /\ closed' \in BOOLEAN
      BY <2>1, <3>3
    <3> QED  BY <2>2, <3>2, <3>4 DEF Finish
  <2>3. CASE CloseReady
    BY <2>1, <2>3 DEF CloseReady
  <2> QED  BY <2>2, <2>3
<1>2. (client' = client /\ shown' = shown /\ queued' = queued /\ ~closed' /\ running.at = "done")
      \/ (client' = NoClient /\ shown' = "none" /\ queued' = "none")
  BY <1>1 DEF Finish, CloseReady
<1>3. SessionsTypeOK'
  <2>1. client' \in {NoClient} \cup ClientRecord /\ (client'.named => client'.sess # 0)
        /\ (shown' = "relay" => client'.named)
    BY <1>2, Fields, Clients DEF SessionsTypeOK
  <2>2. /\ queued' \in Operation \cup {"none"} /\ shown' \in {"none", "relay", "local"}
        /\ window_closing' \in BOOLEAN
        /\ latch' \in [Hosts -> BOOLEAN] /\ setting' \in 0..MaxChanges /\ stale' \in BOOLEAN
        /\ intents' \in 0..MaxIntents /\ faults' \in 0..MaxFaults /\ excused' \subseteq Session
    BY <1>1 DEF SessionsTypeOK, boundVars, atServerVars, settingVars, questionVars
  <2>3. /\ at_server' \in [Session -> ServerRecord] /\ unreleased' \in {NoQuestion} \cup QuestionRecord
    BY Fields, <1>1 DEF atServerVars, questionVars
  <2> QED  BY <1>1, <2>1, <2>2, <2>3
             DEF SessionsTypeOK, RunRecord, ClientRecord, QuestionRecord, ServerRecord
<1>4. running'.at = "idle"
  BY <1>1 DEF Idle
<1>5. Placed'
  <2>1. CASE client' = NoClient /\ shown' = "none" /\ queued' = "none"
    BY <1>1, <1>4, <2>1, Clients DEF Placed, TornDown
  <2>2. CASE client' = client /\ shown' = shown /\ queued' = queued /\ ~closed' /\ running.at = "done"
    <3>1. queued # "replace" /\ queued # "autoplay"
      BY <2>2 DEF Placed, Transitioning, Idle
    <3> QED  BY <1>4, <2>2, <3>1 DEF Placed, TornDown
  <2> QED  BY <1>2, <2>1, <2>2
<1>6. Applies'
  BY <1>1, <1>2, <1>4 DEF Applies, settingVars
<1> QED  BY <1>3, <1>5, <1>6

(* What the user asks for and the settings that change.                    *)
LEMMA IntentKeeps ==
  ASSUME DesktopInv,
         \/ \E op \in Operation : Intend(op)
         \/ ChangeSetting \/ EndOfFile \/ PlaybackFails \/ GraceEnds
  PROVE  DesktopInv'
<1> USE DEF DesktopInv
<1>1. /\ at_server' \in [Session -> ServerRecord] /\ latch' \in [Hosts -> BOOLEAN]
      /\ UNCHANGED <<shown, closed, questionVars, atServerVars>>
      /\ snapshot' \in BOOLEAN /\ window_closing' \in BOOLEAN /\ stale' \in BOOLEAN
  BY Fields DEF Intend, ChangeSetting, EndOfFile, PlaybackFails, GraceEnds, windowVars, atServerVars,
     settingVars, SessionsTypeOK
<1>2. setting' \in 0..MaxChanges /\ intents' \in 0..MaxIntents /\ faults' \in 0..MaxFaults
  BY DesktopAssumption
     DEF Intend, ChangeSetting, EndOfFile, PlaybackFails, GraceEnds, settingVars, boundVars, SessionsTypeOK
<1>3. /\ client' \in {NoClient} \cup ClientRecord /\ client'.sess = client.sess
      /\ client'.named = client.named /\ (client' = NoClient <=> client = NoClient)
  <2>1. client' = client \/ client' = [client EXCEPT !.timer = FALSE]
    BY DEF Intend, ChangeSetting, EndOfFile, PlaybackFails, GraceEnds
  <2> QED  BY <2>1, Flags
<1>4. (window_closing => window_closing') /\ (shown # "relay" => stale' = stale)
  BY DEF Intend, ChangeSetting, EndOfFile, PlaybackFails, GraceEnds, windowVars, settingVars, SessionsTypeOK
<1>5. \/ ~closed /\ \E op \in Operation \ {"autoplay"} : Run(op) /\ op # "replace"
      \/ UNCHANGED transitionVars /\ (shown = "relay" => stale' = stale)
  <2>1. ASSUME NEW op \in Operation, Intend(op)
        PROVE  ~closed /\ op \in Operation \ {"autoplay"} /\ Run(op) /\ op # "replace"
    BY <2>1 DEF Intend
  <2>2. CASE ChangeSetting
    BY <2>2 DEF ChangeSetting, Operation, Opening
  <2>3. CASE EndOfFile
    BY <2>3 DEF EndOfFile, Placed, Operation, Opening
  <2>4. CASE PlaybackFails
    BY <2>4 DEF PlaybackFails, Placed, Operation, Opening
  <2>5. CASE GraceEnds
    BY <2>5 DEF GraceEnds, Placed, Operation, Opening, settingVars
  <2> QED  BY <2>1, <2>2, <2>3, <2>4, <2>5
<1> QED  BY <1>1, <1>2, <1>3, <1>4, <1>5, Around

(* The connection is lost, and the client may go to replace it.            *)
LEMMA Loses ==
  ASSUME DesktopInv, client.up, ControlLost
  PROVE  /\ client' \in {NoClient} \cup ClientRecord /\ client'.sess = client.sess
         /\ client'.named = client.named /\ client'.host = client.host
         /\ client' = NoClient <=> client = NoClient
         /\ \/ ~closed /\ \E op \in Operation \ {"autoplay"} :
                  Run(op) /\ op = "replace" /\ running = Idle /\ shown = "none" /\ client # NoClient
            \/ UNCHANGED transitionVars
<1>1. client' = [client EXCEPT !.up = FALSE] \/ client' = [client EXCEPT !.up = FALSE, !.timer = TRUE]
  BY DEF ControlLost
<1>2. client # NoClient
  BY DEF NoClient
<1>3. ~closed
  BY <1>2 DEF DesktopInv, Placed
<1> QED  BY <1>1, <1>2, <1>3, Flags DEF DesktopInv, ControlLost, Transitioning, Operation

(* What happens to a connection and at the servers.                        *)
LEMMA ServersKeep ==
  ASSUME DesktopInv,
         \/ LoseConnection
         \/ \E s \in Session : RequestLost(s) \/ ServerOpens(s) \/ ServerReleases(s)
         \/ \E h \in Hosts : ServerRestarts(h)
  PROVE  DesktopInv'
<1> USE DEF DesktopInv
<1>1. /\ UNCHANGED <<shown, snapshot, window_closing, closed, questionVars, setting, stale, intents>>
      /\ snapshot' \in BOOLEAN /\ window_closing' \in BOOLEAN /\ stale' \in BOOLEAN
      /\ setting' \in 0..MaxChanges /\ intents' \in 0..MaxIntents
  BY DEF LoseConnection, RequestLost, ServerOpens, ServerReleases, ServerRestarts, windowVars,
     settingVars, boundVars, SessionsTypeOK
<1>2. faults' \in 0..MaxFaults
  BY DesktopAssumption
     DEF LoseConnection, RequestLost, ServerOpens, ServerReleases, ServerRestarts, boundVars, SessionsTypeOK
<1>3. at_server' \in [Session -> ServerRecord] /\ latch' \in [Hosts -> BOOLEAN]
  <2>1. \A s \in Session : \A x \in {"gone", "refused", "held", "failed"} :
          [at_server[s] EXCEPT !.state = x] \in ServerRecord
    BY Fields DEF ServerRecord
  <2>2. at_server \in [Session -> ServerRecord] /\ latch \in [Hosts -> BOOLEAN]
    BY Fields DEF SessionsTypeOK
  <2>3. ASSUME NEW s \in Session, NEW x \in {"gone", "refused", "held", "failed"},
               at_server' = [at_server EXCEPT ![s].state = x]
        PROVE  at_server' \in [Session -> ServerRecord]
    <3>1. at_server' = [at_server EXCEPT ![s] = [at_server[s] EXCEPT !.state = x]]
      BY <2>3
    <3> QED  BY <2>1, <2>2, <3>1
  <2>4. CASE LoseConnection
    BY <2>2, <2>4 DEF LoseConnection, atServerVars
  <2>5. ASSUME NEW s \in Session, RequestLost(s)
        PROVE  at_server' \in [Session -> ServerRecord] /\ latch' = latch
    BY <2>3, <2>5 DEF RequestLost
  <2>6. ASSUME NEW s \in Session, ServerOpens(s)
        PROVE  at_server' \in [Session -> ServerRecord] /\ latch' = latch
    BY <2>3, <2>6 DEF ServerOpens
  <2>7. ASSUME NEW s \in Session, ServerReleases(s)
        PROVE  at_server' \in [Session -> ServerRecord] /\ latch' \in [Hosts -> BOOLEAN]
    BY <2>2, <2>3, <2>7 DEF ServerReleases
  <2>8. ASSUME NEW h \in Hosts, ServerRestarts(h)
        PROVE  at_server' \in [Session -> ServerRecord] /\ latch' \in [Hosts -> BOOLEAN]
    BY <2>1, <2>2, <2>8 DEF ServerRestarts
  <2> QED  BY <2>2, <2>4, <2>5, <2>6, <2>7, <2>8
<1>4. \/ client.up /\ ControlLost
      \/ UNCHANGED <<client, transitionVars>>
  BY DEF LoseConnection, RequestLost, ServerOpens, ServerReleases, ServerRestarts
<1>5. CASE client.up /\ ControlLost
  BY <1>1, <1>2, <1>3, <1>5, Loses, Around
<1>6. CASE UNCHANGED <<client, transitionVars>>
  <2>1. client' \in {NoClient} \cup ClientRecord
    BY <1>6, Fields
  <2> QED  BY <1>1, <1>2, <1>3, <1>6, <2>1, Around
<1> QED  BY <1>4, <1>5, <1>6

(* The inductive invariant holds of the initial state and of every step.   *)
LEMMA DesktopInit == SessionsInit => DesktopInv
<1> SUFFICES ASSUME SessionsInit PROVE DesktopInv
  OBVIOUS
<1>1. SessionsTypeOK
  <2>1. at_server \in [Session -> [host : Hosts \cup {NoHost},
                              state : {"none", "asked", "refused", "held", "failed", "gone"}]]
    BY DEF SessionsInit
  <2>2. latch \in [Hosts -> BOOLEAN]
    BY DEF SessionsInit
  <2>3. 0 \in 0..MaxChanges /\ 0 \in 0..MaxIntents /\ 0 \in 0..MaxFaults
    BY DesktopAssumption
  <2>4. client.named = FALSE
    BY DEF SessionsInit, NoClient
  <2> QED  BY <2>1, <2>2, <2>3, <2>4 DEF SessionsInit, SessionsTypeOK
<1>2. running.at = "idle" /\ client.sess = 0
  BY DEF SessionsInit, Idle, NoClient
<1>3. Placed
  BY <1>2 DEF SessionsInit, Placed, TornDown
<1>4. Applies
  BY DEF SessionsInit, Applies, Idle
<1> QED  BY <1>1, <1>3, <1>4 DEF DesktopInv

LEMMA DesktopNext == DesktopInv /\ [SessionsNext]_sessionsVars => DesktopInv'
<1> SUFFICES ASSUME DesktopInv, [SessionsNext]_sessionsVars PROVE DesktopInv'
  OBVIOUS
<1>1. CASE SessionsNext
  BY <1>1, EnterKeeps, FailureKeeps, AskingKeeps, ConnectingKeeps, OpeningKeeps, LocalKeeps,
     EndKeeps, IntentKeeps, ServersKeep DEF SessionsNext, TransitionProceeds
<1>2. CASE UNCHANGED sessionsVars
  BY <1>2 DEF sessionsVars, transitionVars, windowVars, questionVars, atServerVars, settingVars, boundVars,
     DesktopInv, SessionsTypeOK, Placed, Applies, Transitioning
<1> QED  BY <1>1, <1>2

(* In every state of every execution the records are well formed, a client *)
(* has a session where the transition says so, and a change that found a   *)
(* session playing has a transition before it.                             *)
THEOREM DesktopInvariant == SessionsSpec => []DesktopInv
BY DesktopInit, DesktopNext, PTL DEF SessionsSpec

(* The types of the desktop's sessions, among them that a session on the   *)
(* screen is one the client can name: _session_source and RelayClient.     *)
THEOREM DesktopTyped == SessionsSpec => []SessionsTypeOK
<1>1. DesktopInv => SessionsTypeOK
  BY DEF DesktopInv
<1> QED  BY <1>1, DesktopInvariant, PTL

(* Once nothing is in transition, no session plays with a setting that was *)
(* changed while it was playing: however the restarts superseded each      *)
(* other, one of them took the session down (on_fit_mode_changed).         *)
THEOREM SettingsApplied == SessionsSpec => []SettingApplied
<1>1. DesktopInv => SettingApplied
  BY DEF DesktopInv, Applies, SettingApplied, Transitioning, Idle
<1> QED  BY <1>1, DesktopInvariant, PTL


-----------------------------------------------------------------------------
(* Ownership. A session is outstanding until it is refused, closed or the  *)
(* user was told about it. The client names it, or a question does, and an *)
(* open_session is sent only where no question is left.                    *)

Outstanding(s) == s \notin excused /\ at_server[s].state \in {"asked", "held", "failed"}
Sends == running.at = "sending" \/ (running.at = "replacing" /\ running.op \in Opening)

Single == \A s, t \in Session :
            s # t /\ Outstanding(s) /\ Outstanding(t) => at_server[s].host # at_server[t].host
Known == ~closed => \A s \in Session : Outstanding(s) => s \in {client.sess, unreleased.sess}
Placement(s, h) == at_server[s].host = h /\ at_server[s].state # "none"
Asked ==
  /\ client.sess # 0 => Placement(client.sess, client.host)
  /\ unreleased # NoQuestion => Placement(unreleased.sess, unreleased.host)
Apart == (client.sess # 0 \/ Sends) /\ unreleased # NoQuestion => unreleased.host # client.host
Latched == \A s \in Session : at_server[s].state = "failed" => latch[at_server[s].host]
Unused == \A s \in Session : at_server[s].state = "none" <=> at_server[s].host = NoHost

Owned == Single /\ Known /\ Asked /\ Apart /\ Latched /\ Unused

(* A question stays until it is answered: no other is written over it.     *)
QuestionKept == unreleased # NoQuestion => unreleased' \in {unreleased, NoQuestion}

(* Nothing happens to a session, a question or the client's session.       *)
LEMMA OwnedStays ==
  ASSUME DesktopInv, Owned, UNCHANGED <<at_server, latch, unreleased, excused, closed>>,
         client'.sess = client.sess, client'.host = client.host,
         Sends' /\ unreleased # NoQuestion => Sends \/ client.sess # 0
  PROVE  Owned'
<1>1. Single' /\ Known' /\ Latched' /\ Unused'
  BY DEF Owned, Single, Known, Latched, Unused, Outstanding
<1>2. Asked' /\ Apart'
  BY DEF Owned, Asked, Apart, Placement
<1> QED  BY <1>1, <1>2 DEF Owned

(* The client is left without a session: what is still outstanding is in   *)
(* the question, or the application has ended.                             *)
LEMMA OwnedLets ==
  ASSUME DesktopInv, Owned, UNCHANGED <<at_server, latch>>, client'.sess = 0,
         excused \subseteq excused',
         ~closed' => \A s \in Session : s \notin excused' /\ Outstanding(s) => s = unreleased'.sess,
         unreleased' # NoQuestion => Placement(unreleased'.sess, unreleased'.host),
         Sends' /\ unreleased' # NoQuestion => unreleased'.host # client'.host
  PROVE  Owned'
<1>1. \A s \in Session : Outstanding(s)' => Outstanding(s) /\ s \notin excused'
  BY DEF Outstanding
<1>2. Single' /\ Known' /\ Latched' /\ Unused'
  BY <1>1 DEF Owned, Single, Known, Latched, Unused
<1>3. Asked' /\ Apart'
  BY DEF Owned, Asked, Apart, Placement
<1> QED  BY <1>2, <1>3 DEF Owned

(* A server goes on with its sessions: none of them starts to be           *)
(* outstanding.                                                            *)
LEMMA OwnedServes ==
  ASSUME DesktopInv, Owned, UNCHANGED <<unreleased, excused, closed>>,
         client'.sess = client.sess, client'.host = client.host, Sends' <=> Sends,
         \A t \in Session :
           /\ at_server'[t].host = at_server[t].host
           /\ at_server'[t].state = "none" <=> at_server[t].state = "none"
           /\ at_server'[t].state \in {"asked", "held", "failed"} =>
                 at_server[t].state \in {"asked", "held", "failed"}
           /\ at_server'[t].state = "failed" => latch'[at_server[t].host]
  PROVE  Owned'
<1>1. \A t \in Session : Outstanding(t)' => Outstanding(t)
  BY DEF Outstanding
<1>2. Single' /\ Known' /\ Latched' /\ Unused'
  BY <1>1 DEF Owned, Single, Known, Latched, Unused
<1>3. client.sess # 0 => client.sess \in Session
  BY Fields DEF DesktopInv
<1>4. unreleased # NoQuestion => unreleased.sess \in Session
  BY Fields DEF DesktopInv, QuestionRecord
<1>5. Asked' /\ Apart'
  BY <1>3, <1>4 DEF Owned, Asked, Apart, Placement
<1> QED  BY <1>2, <1>5 DEF Owned


(* A new intent leaves the transition where it was.                        *)
LEMMA RunStays ==
  ASSUME DesktopInv, UNCHANGED transitionVars \/ \E op \in Operation : Run(op)
  PROVE  Sends' <=> Sends
<1>1. CASE UNCHANGED transitionVars
  BY <1>1 DEF transitionVars, Sends
<1>2. ASSUME NEW op \in Operation, Run(op)
      PROVE  Sends' <=> Sends
  <2>1. CASE running = Idle
    BY <1>2, <2>1 DEF Run, Transitioning, Sends
  <2>2. CASE running # Idle
    <3>1. running \in RunRecord /\ running' = [running EXCEPT !.cancelled = TRUE]
      BY <1>2, <2>2, Fields DEF Run, Transitioning, DesktopInv
    <3>2. running'.at = running.at /\ running'.op = running.op
      BY <3>1 DEF RunRecord
    <3> QED  BY <3>2 DEF Sends
  <2> QED  BY <2>1, <2>2
<1> QED  BY <1>1, <1>2

(* A transition that begins, fails or chooses.                             *)
LEMMA EnterOwned ==
  ASSUME DesktopInv, Owned,
         (\E op \in Operation : Enter(op)) \/ Choose \/ Cancelled \/ NotSent \/ OpenFails
  PROVE  Owned'
<1> USE DEF DesktopInv
<1>1. UNCHANGED <<at_server, latch, unreleased, excused, closed>>
  BY DEF Enter, Choose, Cancelled, NotSent, OpenFails, atServerVars, questionVars
<1>2. client'.sess = client.sess /\ client'.host = client.host
  <2>1. client' = client \/ client' = [client EXCEPT !.up = FALSE]
    BY DEF Enter, Choose, Cancelled, NotSent, OpenFails
  <2> QED  BY <2>1, Flags
<1>3. ASSUME NEW r \in RunRecord, TeardownSession(r)
      PROVE  Sends' => unreleased = NoQuestion
  BY <1>3, TearsDown DEF Sends
<1>4. running # Idle => /\ running \in RunRecord
                       /\ [running EXCEPT !.ending = TRUE] \in RunRecord
                       /\ \A op \in {"autoplay", "stop"} : [running EXCEPT !.op = op] \in RunRecord
  BY Fields DEF RunRecord, Operation, Opening
<1>5. Sends' /\ unreleased # NoQuestion => Sends \/ client.sess # 0
  <2>1. ASSUME NEW op \in Operation, Enter(op)
        PROVE  Sends' => unreleased = NoQuestion
    <3> DEFINE r == [Idle EXCEPT !.op = op, !.at = "done"]
    <3>1. r \in RunRecord /\ r.op = op /\ r.at = "done"
      BY DEF RunRecord, Idle, Place
    <3>2. TeardownSession(r) \/ running' = r \/ (op = "replace" /\ running' = [r EXCEPT !.at = "replacing"])
          \/ \E p \in {"choosing", "connecting", "done", "loading", "dropping"} :
               running' = [r EXCEPT !.at = p]
      <4>1. op # "autoplay"
        BY <2>1 DEF Enter, Placed
      <4> HIDE DEF r
      <4> QED  BY <2>1, <4>1 DEF Enter, Operation, Opening, r
    <3> HIDE DEF r
    <3>3. CASE TeardownSession(r)
      BY <1>3, <3>1, <3>3
    <3>4. CASE running' = r
      BY <3>1, <3>4 DEF Sends
    <3>5. CASE op = "replace" /\ running' = [r EXCEPT !.at = "replacing"]
      BY <3>1, <3>5 DEF Sends, RunRecord, Opening
    <3>6. ASSUME NEW p \in {"choosing", "connecting", "done", "loading", "dropping"},
                 running' = [r EXCEPT !.at = p]
          PROVE  ~Sends'
      BY <3>1, <3>6 DEF Sends, RunRecord
    <3> QED  BY <3>2, <3>3, <3>4, <3>5, <3>6
  <2>2. CASE Choose
    <3>1. running # Idle
      BY <2>2 DEF Choose, Idle
    <3> QED  BY <1>3, <1>4, <2>2, <3>1 DEF Choose
  <2>3. CASE Cancelled \/ NotSent \/ OpenFails
    <3>1. running # Idle /\ TeardownSession([running EXCEPT !.ending = TRUE])
      BY <2>3 DEF Cancelled, NotSent, OpenFails, Idle
    <3> QED  BY <1>3, <1>4, <3>1
  <2> QED  BY <2>1, <2>2, <2>3
<1> QED  BY <1>1, <1>2, <1>5, OwnedStays

(* What the user asks for, and a session that is opened and played.        *)
LEMMA StepsOwned ==
  ASSUME DesktopInv, Owned,
         \/ \E op \in Operation : Intend(op)
         \/ ChangeSetting \/ EndOfFile \/ PlaybackFails \/ GraceEnds
         \/ SessionOpened \/ StartPlayer \/ Play \/ PlayLocal \/ Finish
  PROVE  Owned'
<1> USE DEF DesktopInv
<1>1. UNCHANGED <<at_server, latch, unreleased, excused, closed>>
  BY DEF Intend, ChangeSetting, EndOfFile, PlaybackFails, GraceEnds, SessionOpened, StartPlayer,
     Play, PlayLocal, Finish, atServerVars, questionVars, windowVars
<1>2. client'.sess = client.sess /\ client'.host = client.host
  <2>1. CASE SessionOpened
    <3>1. client \in ClientRecord /\ client' = [client EXCEPT !.named = TRUE]
      BY <2>1, Fields DEF SessionOpened
    <3> QED  BY <3>1 DEF ClientRecord
  <2>2. CASE ~SessionOpened
    <3>1. client' = client \/ client' = [client EXCEPT !.timer = FALSE]
      BY <2>2 DEF Intend, ChangeSetting, EndOfFile, PlaybackFails, GraceEnds, StartPlayer, Play,
         PlayLocal, Finish
    <3> QED  BY <3>1, Flags
  <2> QED  BY <2>1, <2>2
<1>3. Sends' /\ unreleased # NoQuestion => Sends
  <2>1. CASE \/ \E op \in Operation : Intend(op)
             \/ ChangeSetting \/ EndOfFile \/ PlaybackFails \/ GraceEnds
    <3>1. UNCHANGED transitionVars \/ \E op \in Operation : Run(op)
      BY <2>1 DEF Intend, ChangeSetting, EndOfFile, PlaybackFails, GraceEnds, Operation, Opening
    <3> QED  BY <3>1, RunStays
  <2>2. ASSUME NEW p \in Place \ {"sending", "replacing"}, running # Idle, GoOn(p)
        PROVE  ~Sends'
    BY <2>2, GoesOn DEF Sends
  <2>3. CASE SessionOpened \/ StartPlayer \/ Play
    <3>1. running # Idle /\ \E p \in Place \ {"sending", "replacing"} : GoOn(p)
      BY <2>3 DEF SessionOpened, StartPlayer, Play, Idle, Place
    <3> QED  BY <2>2, <3>1
  <2>4. CASE PlayLocal
    <3>1. running # Idle
      BY <2>4 DEF PlayLocal, Idle
    <3>2. CASE GoOn("done")
      BY <2>2, <3>1, <3>2 DEF Place
    <3>3. CASE TeardownSession([running EXCEPT !.ending = TRUE])
      <4>1. [running EXCEPT !.ending = TRUE] \in RunRecord
        BY <3>1, Fields DEF RunRecord
      <4> QED  BY <3>3, <4>1, TearsDown DEF Sends
    <3> QED  BY <2>4, <3>2, <3>3 DEF PlayLocal
  <2>5. CASE Finish
    BY <2>5 DEF Finish, Sends, Idle
  <2> QED  BY <2>1, <2>3, <2>4, <2>5
<1> QED  BY <1>1, <1>2, <1>3, OwnedStays

(* A session is asked for where no question about its server is left.      *)
LEMMA OpenOwned ==
  ASSUME DesktopInv, Owned, NEW s \in Session, SendOpen(s)
  PROVE  Owned'
<1> USE DEF DesktopInv
<1>1. /\ running.at = "sending" /\ running # Idle /\ at_server[s].state = "none"
      /\ at_server' = [at_server EXCEPT ![s] = [host |-> client.host, state |-> "asked"]]
      /\ client' = [client EXCEPT !.sess = s] /\ client.up
      /\ UNCHANGED <<latch, unreleased, excused, closed>>
      /\ s # 0
  BY DesktopAssumption DEF SendOpen, Idle, questionVars, windowVars, Session
<1>2. client.sess = 0 /\ ~closed
  BY <1>1 DEF Placed, TornDown
<1>3. client \in ClientRecord /\ client.host \in Hosts /\ client.host # NoHost
  BY <1>1, Fields, DesktopAssumption DEF ClientRecord
<1>4. client'.sess = s /\ client'.host = client.host
  BY <1>1, <1>3 DEF ClientRecord
<1>5. at_server'[s].host = client.host /\ at_server'[s].state = "asked"
      /\ \A t \in Session : t # s => at_server'[t] = at_server[t]
  BY <1>1, Fields
<1>6. unreleased # NoQuestion =>
        /\ unreleased.host # client.host /\ unreleased.sess \in Session /\ unreleased.sess # s
        /\ Placement(unreleased.sess, unreleased.host)
  BY <1>1, Fields DEF Owned, Apart, Sends, Asked, Placement, QuestionRecord
<1>7. \A t \in Session : Outstanding(t) => unreleased # NoQuestion /\ t = unreleased.sess
  <2>1. NoQuestion.sess = 0 /\ 0 \notin Session
    BY DesktopAssumption DEF NoQuestion, Session
  <2> QED  BY <1>2, <2>1 DEF Owned, Known
<1>8. \A t \in Session : t # s => (Outstanding(t)' <=> Outstanding(t))
  BY <1>1, <1>5 DEF Outstanding
<1>9. Single'
  <2>1. \A t \in Session : t # s /\ Outstanding(t)' => at_server'[t].host # client.host
    BY <1>5, <1>6, <1>7, <1>8 DEF Placement
  <2> QED  BY <1>5, <1>8, <2>1 DEF Owned, Single
<1>10. Known'
  BY <1>1, <1>4, <1>7, <1>8 DEF Known
<1>11. Asked' /\ Apart'
  BY <1>1, <1>4, <1>5, <1>6 DEF Asked, Apart, Placement
<1>12. Latched' /\ Unused'
  BY <1>1, <1>3, <1>5 DEF Owned, Latched, Unused
<1> QED  BY <1>9, <1>10, <1>11, <1>12 DEF Owned


(* A session that is torn down, given up or left: closed at its server,    *)
(* asked about, or told to the user.                                       *)
LEMMA ReleaseOwned ==
  ASSUME DesktopInv, Owned, QuestionKept,
         TeardownAcknowledged \/ TeardownUnconfirmed \/ HardStop \/ Drop \/ CloseReady
  PROVE  Owned'
<1> USE DEF DesktopInv
<1>1. UNCHANGED <<at_server, latch>>
  BY DEF TeardownAcknowledged, TeardownUnconfirmed, HardStop, Drop, CloseReady, atServerVars
<1>2. Asked /\ (~closed => \A s \in Session : Outstanding(s) => s \in {client.sess, unreleased.sess})
  BY DEF Owned, Known
<1>3. ASSUME NEW p \in Place \ {"sending", "replacing"}, running # Idle, GoOn(p)
      PROVE  ~Sends'
  BY <1>3, GoesOn DEF Sends
<1>4. running # Idle => /\ AfterTeardown(running, NoClient, unreleased) \in Place \ {"sending", "replacing"}
                       /\ ~closed
  <2>1. running # Idle => running \in RunRecord
    BY Fields
  <2>2. NoClient.up = FALSE
    BY DEF NoClient
  <2> QED  BY <2>1, <2>2, AfterTeardowns DEF Placed
<1>5. client.sess # 0 => client.sess \in Session
  BY Fields
<1>6. NoQuestion.sess = 0 /\ 0 \notin Session
  BY DesktopAssumption DEF NoQuestion, Session
<1>7. ASSUME unreleased' = [sess |-> client.sess, host |-> client.host], client.sess # 0, ~closed
      PROVE  /\ Placement(unreleased'.sess, unreleased'.host)
             /\ \A s \in Session : Outstanding(s) => s = unreleased'.sess
  <2>1. unreleased'.sess = client.sess /\ unreleased'.host = client.host
    BY <1>7
  <2>2. unreleased' # NoQuestion
    BY <1>5, <1>6, <1>7, <2>1
  <2>3. unreleased = NoQuestion \/ unreleased.sess = client.sess
    BY <2>1, <2>2 DEF QuestionKept
  <2> QED  BY <1>2, <1>6, <1>7, <2>1, <2>3 DEF Asked
<1>8. CASE TeardownAcknowledged
  <2>1. running # Idle /\ at_server[client.sess].state = "gone"
        /\ UNCHANGED <<unreleased, excused, closed>>
    BY <1>8 DEF TeardownAcknowledged, Idle, questionVars, windowVars
  <2>2. client'.sess = 0 /\ ~Sends'
    <3>1. CASE window_closing
      BY <1>3, <1>4, <1>8, <2>1, <3>1, Clients DEF TeardownAcknowledged
    <3>2. CASE ~window_closing
      <4>1. client # NoClient
        BY <1>8 DEF TeardownAcknowledged, Placed
      <4>2. GoOn("reconnecting") /\ client' = Shut(client)
        BY <1>8, <3>2 DEF TeardownAcknowledged
      <4> QED  BY <1>3, <2>1, <4>1, <4>2, Clients DEF Place
    <3> QED  BY <3>1, <3>2
  <2>3. \A s \in Session : Outstanding(s) => s = unreleased.sess
    BY <1>2, <1>4, <2>1 DEF Outstanding
  <2> QED  BY <1>1, <1>2, <2>1, <2>2, <2>3, OwnedLets DEF Asked
<1>9. CASE TeardownUnconfirmed
  <2>1. running # Idle /\ client.sess # 0 /\ client # NoClient /\ UNCHANGED <<excused, closed>>
        /\ unreleased' = [sess |-> client.sess, host |-> client.host]
        /\ client' = Shut(client) /\ GoOn("reconnecting")
    BY <1>9 DEF TeardownUnconfirmed, Idle, windowVars, Placed
  <2>2. ~Sends' /\ client'.sess = 0
    BY <1>3, <2>1, Clients DEF Place
  <2>3. /\ Placement(unreleased'.sess, unreleased'.host)
        /\ \A s \in Session : Outstanding(s) => s = unreleased'.sess
    BY <1>4, <1>7, <2>1
  <2>4. excused \subseteq excused'
    BY <2>1
  <2> QED  BY <1>1, <2>2, <2>3, <2>4, OwnedLets
<1>10. CASE HardStop
  <2>1. running # Idle /\ UNCHANGED <<unreleased, closed>>
        /\ client' = NoClient /\ excused' = excused \cup {client.sess}
        /\ GoOn(AfterTeardown(running, NoClient, unreleased))
    BY <1>10 DEF HardStop, Idle, windowVars
  <2>2. ~Sends' /\ client'.sess = 0
    BY <1>3, <1>4, <2>1, Clients
  <2>3. \A s \in Session : s \notin excused' /\ Outstanding(s) => s = unreleased'.sess
    BY <1>2, <1>4, <2>1
  <2>4. excused \subseteq excused'
    BY <2>1
  <2> QED  BY <1>1, <1>2, <2>1, <2>2, <2>3, <2>4, OwnedLets DEF Asked
<1>11. CASE Drop
  <2>1. running # Idle /\ client.sess # 0 /\ client' = NoClient /\ GoOn("loading")
        /\ UNCHANGED closed /\ ~closed
    BY <1>4, <1>11 DEF Drop, Idle, Placed
  <2>2. ~Sends' /\ client'.sess = 0
    BY <1>3, <2>1, Clients DEF Place
  <2>3. \/ at_server[client.sess].state = "gone" /\ UNCHANGED <<unreleased, excused>>
        \/ unreleased' = [sess |-> client.sess, host |-> client.host] /\ UNCHANGED excused
        \/ excused' = excused \cup {client.sess} /\ UNCHANGED unreleased
    BY <1>11 DEF Drop, questionVars
  <2>4. excused \subseteq excused'
    BY <2>3
  <2>5. unreleased' # NoQuestion => Placement(unreleased'.sess, unreleased'.host)
    BY <1>2, <1>7, <2>1, <2>3 DEF Asked
  <2>6. \A s \in Session : s \notin excused' /\ Outstanding(s) => s = unreleased'.sess
    BY <1>2, <1>7, <2>1, <2>3 DEF Outstanding
  <2> QED  BY <1>1, <2>2, <2>4, <2>5, <2>6, OwnedLets
<1>12. CASE CloseReady
  <2>1. client' = NoClient /\ closed' = TRUE /\ UNCHANGED <<unreleased, excused>> /\ running' = Idle
    BY <1>12 DEF CloseReady, questionVars
  <2>2. ~Sends' /\ client'.sess = 0
    BY <2>1, Clients DEF Sends, Idle
  <2>3. unreleased' # NoQuestion => Placement(unreleased'.sess, unreleased'.host)
    BY <1>2, <2>1 DEF Asked
  <2>4. excused \subseteq excused' /\ closed'
    BY <2>1
  <2> QED  BY <1>1, <2>2, <2>3, <2>4, OwnedLets
<1> QED  BY <1>8, <1>9, <1>10, <1>11, <1>12

(* A client without a session: the question is answered by the server that *)
(* held the session, and no other connection is made where it stands.      *)
LEMMA QuestionOwned ==
  ASSUME DesktopInv, Owned,
         Reconnect \/ Confirmed \/ NotConfirmed \/ Replace \/ Connect \/ DisconnectClient
  PROVE  Owned'
<1> USE DEF DesktopInv
<1>1. UNCHANGED <<at_server, latch, excused, closed>> /\ running \in RunRecord /\ running # Idle
      /\ running.at \in {"reconnecting", "confirming", "replacing", "connecting", "leaving"}
  BY Fields DEF Reconnect, Confirmed, NotConfirmed, Replace, Connect, DisconnectClient, atServerVars,
     questionVars, windowVars, Idle
<1>2. client.sess = 0 /\ ~closed
  <2>1. running.at # "connecting" => shown = "none"
    BY <1>1 DEF Placed, TornDown
  <2>2. running.at = "connecting" => client.sess = 0
    BY DEF Placed, NoClient
  <2> QED  BY <1>1, <2>1, <2>2 DEF Placed
<1>3. NoQuestion.sess = 0 /\ 0 \notin Session
  BY DesktopAssumption DEF NoQuestion, Session
<1>4. Asked /\ \A s \in Session : Outstanding(s) => s = unreleased.sess
  BY <1>2, <1>3 DEF Owned, Known
<1>5. ASSUME NEW p \in Place, GoOn(p)
      PROVE  Sends' => p \in {"sending", "replacing"} /\ (p = "replacing" => running.op \in Opening)
  BY <1>1, <1>5, GoesOn DEF Sends
<1>6. ASSUME UNCHANGED unreleased, client'.sess = 0,
             Sends' /\ unreleased # NoQuestion => unreleased.host # client'.host
      PROVE  Owned'
  BY <1>1, <1>4, <1>6, OwnedLets DEF Asked
<1>7. CASE Reconnect
  <2>1. PICK c \in {Fresh(client.host), NoClient} :
          client' = c /\ GoOn(AfterTeardown(running, c, unreleased))
    BY <1>7 DEF Reconnect
  <2>2. client # NoClient
    BY <1>7 DEF Reconnect, Placed
  <2>3. c.sess = 0
    BY <2>2, Fields, Clients DEF ClientRecord
  <2>4. Sends' => unreleased = NoQuestion
    BY <1>1, <1>5, <2>1, AfterTeardowns
  <2> QED  BY <1>6, <1>7, <2>1, <2>3, <2>4 DEF Reconnect, questionVars
<1>8. CASE Confirmed
  <2>1. /\ UNCHANGED client /\ ~latch[client.host] /\ ~Listed(unreleased.sess, client.host)
        /\ unreleased' = IF client.host = unreleased.host THEN NoQuestion ELSE unreleased
    BY <1>8 DEF Confirmed
  <2>2. CASE client.host # unreleased.host
    BY <1>2, <1>6, <2>1, <2>2
  <2>3. CASE client.host = unreleased.host
    <3>1. \A s \in Session : ~Outstanding(s)
      <4>1. SUFFICES ASSUME NEW s \in Session, Outstanding(s) PROVE FALSE
        OBVIOUS
      <4>2. s = unreleased.sess /\ unreleased # NoQuestion
        BY <1>3, <1>4, <4>1
      <4>3. at_server[s].host = client.host
        BY <1>4, <2>3, <4>2 DEF Asked, Placement
      <4> QED  BY <2>1, <4>1, <4>2, <4>3 DEF Listed, Outstanding, Owned, Latched
    <3>2. unreleased' = NoQuestion
      BY <2>1, <2>3
    <3> QED  BY <1>1, <1>2, <2>1, <3>1, <3>2, OwnedLets
  <2> QED  BY <2>2, <2>3
<1>9. CASE NotConfirmed
  <2>1. ~Sends' /\ client' = NoClient /\ UNCHANGED unreleased
    BY <1>5, <1>9 DEF NotConfirmed, questionVars, Place
  <2> QED  BY <1>6, <2>1, Clients
<1>10. CASE Replace
  <2>1. PICK c \in {Fresh(client.host), NoClient, client} :
          /\ client' = c
          /\ GoOn(IF running.op \in Opening /\ c # NoClient THEN "sending" ELSE "done")
    BY <1>10 DEF Replace
  <2>2. client # NoClient /\ client.host \in Hosts
    BY <1>10, Fields DEF Replace, Placed, ClientRecord
  <2>3. c.sess = 0 /\ (c # NoClient => c.host = client.host)
    BY <1>2, <2>2, Clients
  <2>4. Sends' => running.op \in Opening /\ c # NoClient
    BY <1>5, <2>1 DEF Place
  <2>5. Sends' /\ unreleased # NoQuestion => unreleased.host # client'.host
    BY <1>10, <2>1, <2>3, <2>4 DEF Replace, Owned, Apart, Sends
  <2> QED  BY <1>6, <1>10, <2>1, <2>3, <2>5 DEF Replace, questionVars
<1>11. CASE Connect
  <2>1. PICK c \in {Fresh(h) : h \in Hosts} \cup {NoClient} : client' = c
    BY <1>11 DEF Connect
  <2>2. c.sess = 0
    BY Clients
  <2>3. ~Sends' /\ UNCHANGED unreleased
    BY <1>5, <1>11 DEF Connect, questionVars, Place
  <2> QED  BY <1>6, <2>1, <2>2, <2>3
<1>12. CASE DisconnectClient
  <2>1. ~Sends' /\ client' = NoClient /\ UNCHANGED unreleased
    BY <1>5, <1>12 DEF DisconnectClient, questionVars, Place
  <2> QED  BY <1>6, <2>1, Clients
<1> QED  BY <1>7, <1>8, <1>9, <1>10, <1>11, <1>12

(* A lost connection, and what the servers do.                             *)
LEMMA ServersOwned ==
  ASSUME DesktopInv, Owned,
         \/ LoseConnection
         \/ \E s \in Session : RequestLost(s) \/ ServerOpens(s) \/ ServerReleases(s)
         \/ \E h \in Hosts : ServerRestarts(h)
  PROVE  Owned'
<1> USE DEF DesktopInv
<1>1. UNCHANGED <<unreleased, excused, closed>>
  BY DEF LoseConnection, RequestLost, ServerOpens, ServerReleases, ServerRestarts, questionVars,
     windowVars
<1>2. \/ client.up /\ ControlLost
      \/ UNCHANGED <<client, transitionVars>>
  BY DEF LoseConnection, RequestLost, ServerOpens, ServerReleases, ServerRestarts
<1>3. client'.sess = client.sess /\ client'.host = client.host /\ (Sends' <=> Sends)
  <2>1. CASE client.up /\ ControlLost
    BY <2>1, Loses, RunStays
  <2>2. CASE UNCHANGED <<client, transitionVars>>
    BY <2>2, RunStays
  <2> QED  BY <1>2, <2>1, <2>2
<1>4. at_server \in [Session -> ServerRecord] /\ latch \in [Hosts -> BOOLEAN]
      /\ \A t \in Session : at_server[t].state = "failed" => latch[at_server[t].host]
  BY Fields DEF SessionsTypeOK, Owned, Latched
<1> DEFINE Serves(t) ==
      /\ at_server'[t].host = at_server[t].host
      /\ at_server'[t].state = "none" <=> at_server[t].state = "none"
      /\ at_server'[t].state \in {"asked", "held", "failed"} =>
            at_server[t].state \in {"asked", "held", "failed"}
      /\ at_server'[t].state = "failed" => latch'[at_server[t].host]
<1>5. CASE LoseConnection
  <2>1. \A t \in Session : Serves(t)
    BY <1>4, <1>5 DEF LoseConnection, atServerVars
  <2> QED  BY <1>1, <1>3, <2>1, OwnedServes
<1>6. ASSUME NEW s \in Session, NEW x \in {"gone", "refused", "held", "failed"},
             at_server' = [at_server EXCEPT ![s].state = x]
      PROVE  /\ at_server'[s].host = at_server[s].host /\ at_server'[s].state = x
             /\ \A t \in Session : t # s => at_server'[t] = at_server[t]
  <2>1. at_server[s] \in ServerRecord /\ at_server' = [at_server EXCEPT ![s] = [at_server[s] EXCEPT !.state = x]]
    BY <1>4, <1>6
  <2>2. at_server'[s] = [at_server[s] EXCEPT !.state = x]
    BY <1>4, <2>1
  <2>3. \A t \in Session : t # s => at_server'[t] = at_server[t]
    BY <1>4, <2>1
  <2> QED  BY <2>1, <2>2, <2>3 DEF ServerRecord
<1>7. ASSUME NEW s \in Session, RequestLost(s)
      PROVE  Owned'
  <2>1. at_server[s].state = "asked" /\ at_server' = [at_server EXCEPT ![s].state = "gone"] /\ latch' = latch
    BY <1>7 DEF RequestLost
  <2>2. \A t \in Session : Serves(t)
    BY <1>4, <1>6, <2>1
  <2> QED  BY <1>1, <1>3, <2>2, OwnedServes
<1>8. ASSUME NEW s \in Session, ServerOpens(s)
      PROVE  Owned'
  <2>1. PICK x \in {"refused", "held"} : at_server' = [at_server EXCEPT ![s].state = x]
    BY <1>8 DEF ServerOpens
  <2>2. at_server[s].state = "asked" /\ latch' = latch
    BY <1>8 DEF ServerOpens
  <2>3. \A t \in Session : Serves(t)
    BY <1>4, <1>6, <2>1, <2>2
  <2> QED  BY <1>1, <1>3, <2>3, OwnedServes
<1>9. ASSUME NEW s \in Session, ServerReleases(s)
      PROVE  Owned'
  <2>1. at_server[s].state = "held"
    BY <1>9 DEF ServerReleases
  <2>2. CASE at_server' = [at_server EXCEPT ![s].state = "gone"] /\ UNCHANGED latch
    <3>1. \A t \in Session : Serves(t)
      BY <1>4, <1>6, <2>1, <2>2
    <3> QED  BY <1>1, <1>3, <3>1, OwnedServes
  <2>3. CASE /\ at_server' = [at_server EXCEPT ![s].state = "failed"]
             /\ latch' = [latch EXCEPT ![at_server[s].host] = TRUE]
    <3>1. at_server[s].host \in Hosts
      BY <1>4, <2>1 DEF Owned, Unused, ServerRecord
    <3>2. latch'[at_server[s].host] /\ \A h \in Hosts : latch[h] => latch'[h]
      BY <1>4, <2>3, <3>1
    <3>3. \A t \in Session : at_server[t].state = "failed" => at_server[t].host \in Hosts
      BY <1>4 DEF Owned, Unused, ServerRecord
    <3>4. \A t \in Session : Serves(t)
      BY <1>4, <1>6, <2>1, <2>3, <3>2, <3>3
    <3> QED  BY <1>1, <1>3, <3>4, OwnedServes
  <2> QED  BY <1>9, <2>2, <2>3 DEF ServerReleases
<1>10. ASSUME NEW h \in Hosts, ServerRestarts(h)
       PROVE  Owned'
  <2>1. /\ at_server' = [s \in Session |-> IF at_server[s].host = h /\ at_server[s].state # "refused"
                                           THEN [at_server[s] EXCEPT !.state = "gone"] ELSE at_server[s]]
        /\ latch' = [latch EXCEPT ![h] = FALSE]
    BY <1>10 DEF ServerRestarts
  <2>2. ASSUME NEW t \in Session
        PROVE  Serves(t)
    <3>1. at_server[t] \in ServerRecord /\ h # NoHost
      BY <1>4, DesktopAssumption
    <3>2. CASE at_server[t].host = h /\ at_server[t].state # "refused"
      <4>1. at_server'[t] = [at_server[t] EXCEPT !.state = "gone"]
        BY <2>1, <3>2
      <4>2. at_server'[t].host = at_server[t].host /\ at_server'[t].state = "gone"
        BY <3>1, <4>1 DEF ServerRecord
      <4>3. at_server[t].state # "none"
        BY <3>1, <3>2 DEF Owned, Unused
      <4> QED  BY <4>2, <4>3
    <3>3. CASE ~(at_server[t].host = h /\ at_server[t].state # "refused")
      <4>1. at_server'[t] = at_server[t]
        BY <2>1, <3>3
      <4>2. at_server[t].state = "failed" => at_server[t].host # h /\ at_server[t].host \in Hosts
        BY <3>1, <3>3 DEF Owned, Unused, ServerRecord
      <4>3. at_server[t].state = "failed" => latch'[at_server[t].host]
        BY <1>4, <2>1, <4>2
      <4> QED  BY <4>1, <4>3
    <3> QED  BY <3>2, <3>3
  <2> QED  BY <1>1, <1>3, <2>2, OwnedServes
<1> QED  BY <1>5, <1>7, <1>8, <1>9, <1>10

LEMMA OwnedInit == SessionsInit => Owned
<1> SUFFICES ASSUME SessionsInit PROVE Owned
  OBVIOUS
<1>1. /\ unreleased = NoQuestion /\ client.sess = 0 /\ running.at = "idle"
      /\ \A s \in Session : at_server[s].state = "none" /\ at_server[s].host = NoHost
  BY DEF SessionsInit, NoClient, Idle
<1> QED  BY <1>1 DEF Owned, Single, Known, Asked, Apart, Latched, Unused, Outstanding, Sends

LEMMA OwnedNext == DesktopInv /\ Owned /\ [SessionsNext]_sessionsVars /\ [QuestionKept]_sessionsVars => Owned'
<1> SUFFICES ASSUME DesktopInv, Owned, [SessionsNext]_sessionsVars, [QuestionKept]_sessionsVars PROVE Owned'
  OBVIOUS
<1>1. CASE UNCHANGED sessionsVars
  <2>1. UNCHANGED <<at_server, latch, unreleased, excused, closed, client, running>>
    BY <1>1 DEF sessionsVars, transitionVars, windowVars, questionVars, atServerVars
  <2> QED  BY <2>1, OwnedStays DEF Sends
<1>2. CASE SessionsNext /\ QuestionKept
  BY <1>2, EnterOwned, StepsOwned, OpenOwned, ReleaseOwned, QuestionOwned, ServersOwned
     DEF SessionsNext, TransitionProceeds
<1> QED  BY <1>1, <1>2

LEMMA OwnedIsOne == Owned => OneOwner
BY DEF Owned, Single, Outstanding, OneOwner, Holding

(* However many servers there are: while no question is written over by    *)
(* the next, no server holds two sessions of this client, except for one   *)
(* the user was told about. The question that _confirm_previous_release    *)
(* asks is enough; that there is one _unreleased_session is not.           *)
THEOREM OwnersWhileAsked == SessionsSpec /\ [][QuestionKept]_sessionsVars => []OneOwner
BY DesktopInit, DesktopNext, OwnedInit, OwnedNext, OwnedIsOne, PTL DEF SessionsSpec

(* With one server no question is written over: a session is asked for     *)
(* only when the question about the one before it was answered.            *)
LEMMA OneServerKept ==
  ASSUME \A g, h \in Hosts : g = h, DesktopInv, Owned, [SessionsNext]_sessionsVars
  PROVE  QuestionKept
<1> USE DEF DesktopInv
<1>1. SUFFICES ASSUME unreleased # NoQuestion, unreleased' \notin {unreleased, NoQuestion}
               PROVE  FALSE
  BY DEF QuestionKept
<1>2. TeardownUnconfirmed \/ Drop
  BY <1>1 DEF SessionsNext, TransitionProceeds, Enter, Choose, Cancelled, Finish, TeardownAcknowledged, HardStop,
     Reconnect, Confirmed, NotConfirmed, Replace, Connect, DisconnectClient, SendOpen, NotSent,
     SessionOpened, StartPlayer, Play, OpenFails, PlayLocal, Intend, ChangeSetting, EndOfFile,
     PlaybackFails, LoseConnection, GraceEnds, CloseReady, RequestLost, ServerOpens,
     ServerReleases, ServerRestarts, questionVars, sessionsVars
<1>3. client.sess # 0
  BY <1>2 DEF TeardownUnconfirmed, Drop, Placed
<1>4. unreleased.host # client.host
  BY <1>1, <1>3 DEF Owned, Apart
<1>5. unreleased.host \in Hosts /\ client.host \in Hosts
  BY <1>1, <1>3, Fields DEF QuestionRecord, ClientRecord
<1> QED  BY <1>4, <1>5

(* A user of one server: it never holds two sessions of this client, for   *)
(* any number of opens, restarts, lost connections and closes that fail.   *)
THEOREM OneServerOneOwner ==
  ASSUME \A g, h \in Hosts : g = h
  PROVE  SessionsSpec => []OneOwner
<1>1. DesktopInv /\ Owned /\ [SessionsNext]_sessionsVars => Owned'
  BY OneServerKept, OwnedNext
<1> QED  BY <1>1, DesktopInit, DesktopNext, OwnedInit, OwnedIsOne, PTL DEF SessionsSpec


=============================================================================
