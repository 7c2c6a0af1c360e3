--------------------------- MODULE AuxiliaryTrack ---------------------------
(***************************************************************************)
(* The demuxer of the audio and the subtitles of a library file            *)
(* (relay_media/demux.py, AuxiliaryTrack, and subtitles.py): one container,*)
(* used under a lock by the iterators of successive seeks, of which only   *)
(* the newest goes on. A seek must show the subtitles that are already on  *)
(* the screen at its target, so those read before are kept in an index,    *)
(* which knows what of the file it covers, and the seconds before a target *)
(* it does not cover are read first.                                       *)
(*                                                                         *)
(* The file is a sequence of packets in the order of their time stamps.    *)
(* Text subtitles only, as the code demands. The limit on the size of the  *)
(* index is left out.                                                      *)
(***************************************************************************)
EXTENDS Integers, Sequences, FiniteSets, SequencesExt, FiniteSetsExt

CONSTANTS File,      \* [kind : "key", "video", "audio" or "text", at, to : Nat]
          Lookback,    \* _SUBTITLE_LOOKBACK_S
          Preroll,     \* _AUDIO_PREROLL_S
          SeekTargets, \* bound: the targets of seeks
          MaxIters,    \* bound: iterators
          Infinity     \* float("inf"): later than all of these

(* libav hands out a file in the order of its time stamps, and a keyframe  *)
(* before what begins with it.                                             *)
ASSUME AuxAssumption ==
  /\ File \in Seq([kind : {"key", "video", "audio", "text"}, at : 0..Infinity - 1, to : Nat])
  /\ \A i, j \in DOMAIN File : i < j =>
       File[i].at < File[j].at \/ (File[i].at = File[j].at /\ File[j].kind # "key")
  /\ Lookback \in Nat /\ Preroll \in Nat /\ MaxIters \in Nat /\ Infinity \in Nat \ {0}
  /\ SeekTargets \subseteq 0..Infinity - 1

VARIABLES
  iters,     \* the iterators, by generation; the last is current
  position,  \* the container: the next packet it reads
  index,     \* the subtitle index: the packets it holds
  covered,   \* _index_covered_s, _index_eof and _index_windows
  scan,      \* the catch-up that holds the lock
  aux_closed \* close: no, begun, or the container closed

auxVars == <<iters, position, index, covered, scan, aux_closed>>

FromStart == -1  \* no target
Unread == -1     \* float("-inf")
EndOfFile == Len(File) + 1
NoScan == [by |-> 0, from |-> 0, contiguous |-> FALSE, seen |-> 0]

Texts == {i \in DOMAIN File : File[i].kind = "text"}
IterRecord ==
  [target : SeekTargets \cup {FromStart},
   at : {"new", "scan", "replay", "read", "done", "ended"},
   rows : SUBSET Texts, replayed : SUBSET Texts, out : Seq(DOMAIN File)]

AuxTypeOK ==
  /\ iters \in Seq(IterRecord) /\ Len(iters) <= MaxIters
  /\ position \in 1..EndOfFile
  /\ index \subseteq Texts
  /\ covered \in [upto : Nat \cup {Unread}, eof : BOOLEAN, windows : SUBSET (Nat \X Nat)]
  /\ scan \in [by : 0..MaxIters, from : Nat, contiguous : BOOLEAN, seen : Nat]
  /\ aux_closed \in {"no", "begun", "closed"}

AuxInit ==
  /\ iters = <<>> /\ position = 1 /\ index = {}
  /\ covered = [upto |-> Unread, eof |-> FALSE, windows |-> {}]
  /\ scan = NoScan /\ aux_closed = "no"

IterAt(g, place) == iters[g].at = place
SetIter(g, r) == iters' = [iters EXCEPT ![g] = r]
IterGoes(g, place) == SetIter(g, [iters[g] EXCEPT !.at = place])
(* Nobody looks any more at what superseded iterators have yielded.        *)
OldIters == [g \in DOMAIN iters |->
  [iters[g] EXCEPT !.rows = {}, !.replayed = {}, !.out = <<>>]]
CurrentIter(g) == g = Len(iters) /\ aux_closed = "no"
LockFree == scan.by = 0 /\ aux_closed # "closed"
Video(i) == File[i].kind \in {"key", "video"}

(* Container.seek backward, to the keyframe at or before a time, or to the *)
(* beginning.                                                              *)
KeysUpTo(t) == {i \in DOMAIN File : File[i].kind = "key" /\ File[i].at <= t}
SeekContainer(t) ==
  \E k \in KeysUpTo(t) \cup {1} : (\A j \in KeysUpTo(t) : j <= k) /\ position' = k

(* _remember_subtitle_progress                                             *)
Remember(i, contiguous) ==
  /\ index' = IF File[i].kind = "text" THEN index \cup {i} ELSE index
  /\ covered' = IF contiguous /\ Video(i)
                  THEN [covered EXCEPT !.upto = Max({@, File[i].at})] ELSE covered

(* overlapping: the rows on the screen at a time.                          *)
Overlapping(t) == {i \in index : File[i].at < t /\ File[i].to > t}

Within(span, from, t) == span[1] <= from /\ span[2] > t
WindowStart(t) == Max({0, t - Lookback})
Covers(t) ==
  \/ covered.eof \/ covered.upto > t
  \/ \E w \in covered.windows : Within(w, WindowStart(t), t)

-----------------------------------------------------------------------------
(* packets and reserve: a new generation, which does not wait for the      *)
(* lock. The first iterator may start at the beginning.                    *)
NewIter ==
  /\ aux_closed = "no" /\ Len(iters) < MaxIters
  /\ \E t \in IF iters = <<>> THEN SeekTargets \cup {FromStart} ELSE SeekTargets :
       iters' = Append(OldIters, [target |-> t, at |-> "new", rows |-> {},
                               replayed |-> {}, out |-> <<>>])
  /\ UNCHANGED <<position, index, covered, scan, aux_closed>>

(* The first step of an iterator that is superseded already, and the next  *)
(* step of one that was superseded meanwhile.                              *)
RetireIter(g) ==
  /\ iters[g].at \in {"new", "replay", "read"} /\ LockFree /\ ~CurrentIter(g)
  /\ IterGoes(g, "ended")
  /\ UNCHANGED <<position, index, covered, scan, aux_closed>>

ReadsFrom(g) ==
  /\ SetIter(g, [iters[g] EXCEPT !.at = "replay", !.rows = Overlapping(iters[g].target)])
  /\ SeekContainer(iters[g].target)

StartAtBeginning(g) ==
  /\ IterAt(g, "new") /\ LockFree /\ CurrentIter(g)
  /\ iters[g].target = FromStart /\ IterGoes(g, "read")
  /\ UNCHANGED <<position, index, covered, scan, aux_closed>>

(* _catch_up_subtitles has nothing to do.                                  *)
StartCovered(g) ==
  /\ IterAt(g, "new") /\ LockFree /\ CurrentIter(g)
  /\ iters[g].target # FromStart /\ Covers(iters[g].target)
  /\ ReadsFrom(g)
  /\ UNCHANGED <<index, covered, scan, aux_closed>>

(* It extends what is covered, where that reaches the window before the    *)
(* target, or reads the window alone.                                      *)
StartScan(g) ==
  /\ IterAt(g, "new") /\ LockFree /\ CurrentIter(g)
  /\ iters[g].target # FromStart /\ ~Covers(iters[g].target)
  /\ LET start == WindowStart(iters[g].target)
         contiguous == covered.upto >= start
         from == IF contiguous THEN Max({0, covered.upto}) ELSE start
     IN /\ scan' = [by |-> g, from |-> start, contiguous |-> contiguous, seen |-> from]
        /\ SeekContainer(from)
  /\ IterGoes(g, "scan")
  /\ UNCHANGED <<index, covered, aux_closed>>

(* One packet of the video and the subtitles; audio is passed over. The    *)
(* lock is held, but a new generation ends the scan.                       *)
ScanPacket(g) ==
  /\ scan.by = g /\ CurrentIter(g) /\ scan.seen <= iters[g].target
  /\ IF position = EndOfFile
       THEN /\ covered' = [covered EXCEPT !.eof = @ \/ scan.contiguous]
            /\ scan' = [scan EXCEPT !.seen = Infinity]
            /\ UNCHANGED <<position, index>>
       ELSE /\ position' = position + 1
            /\ IF File[position].kind = "audio"
                 THEN UNCHANGED <<index, covered>> ELSE Remember(position, scan.contiguous)
            /\ scan' = [scan EXCEPT !.seen = IF Video(position) THEN Max({@, File[position].at})
                                                               ELSE @]
  /\ UNCHANGED <<iters, aux_closed>>

(* A plausible bug: an interrupted scan claims its window all the same.    *)
ScanStoppedClaims(g) ==
  /\ scan.by = g /\ ~CurrentIter(g)
  /\ covered' = IF scan.contiguous THEN covered
                ELSE [covered EXCEPT !.windows = @ \cup {<<scan.from, iters[g].target + 1>>}]
  /\ scan' = NoScan /\ IterGoes(g, "ended")
  /\ UNCHANGED <<position, index, aux_closed>>

ScanStopped(g) ==
  /\ scan.by = g /\ ~CurrentIter(g)
  /\ scan' = NoScan /\ IterGoes(g, "ended")
  /\ UNCHANGED <<position, index, covered, aux_closed>>

ScanDone(g) ==
  /\ scan.by = g /\ CurrentIter(g) /\ scan.seen > iters[g].target
  /\ covered' = IF scan.contiguous THEN covered
                ELSE [covered EXCEPT !.windows = @ \cup {<<scan.from, scan.seen>>}]
  /\ scan' = NoScan /\ ReadsFrom(g)
  /\ UNCHANGED <<index, aux_closed>>

(* One row of the replay, the earliest first, or the end of it.            *)
Replay(g) ==
  /\ IterAt(g, "replay") /\ LockFree /\ CurrentIter(g)
  /\ LET rows == iters[g].rows IN
     \/ rows = {} /\ IterGoes(g, "read")
     \/ \E i \in rows :
          /\ \A j \in rows : i <= j
          /\ SetIter(g, [iters[g] EXCEPT !.rows = rows \ {i}, !.replayed = @ \cup {i},
                                         !.out = Append(@, i)])
  /\ UNCHANGED <<position, index, covered, scan, aux_closed>>

(* What is over before the target, or was replayed, is not passed on.      *)
Passed(g, i) ==
  LET t == iters[g].target IN
  /\ ~Video(i) /\ i \notin iters[g].replayed
  /\ t # FromStart =>
       ~(/\ File[i].to <= t
         /\ File[i].at < (IF File[i].kind = "audio" THEN t - Preroll ELSE t))

ReadPacket(g) ==
  /\ IterAt(g, "read") /\ LockFree /\ CurrentIter(g) /\ position < EndOfFile
  /\ position' = position + 1
  /\ Remember(position, iters[g].target = FromStart)
  /\ IF Passed(g, position)
       THEN SetIter(g, [iters[g] EXCEPT !.out = Append(@, position)]) ELSE UNCHANGED iters
  /\ UNCHANGED <<scan, aux_closed>>

ReadEnd(g) ==
  /\ IterAt(g, "read") /\ LockFree /\ CurrentIter(g) /\ position = EndOfFile
  /\ covered' = [covered EXCEPT !.eof = @ \/ iters[g].target = FromStart]
  /\ IterGoes(g, "done")
  /\ UNCHANGED <<position, index, scan, aux_closed>>

(* close: the generation first, then, when the lock is free, the container *)
(* and the index.                                                          *)
CloseAux ==
  /\ aux_closed = "no" /\ aux_closed' = "begun" /\ iters' = OldIters
  /\ UNCHANGED <<position, index, covered, scan>>

CloseAuxContainer ==
  /\ aux_closed = "begun" /\ scan.by = 0 /\ aux_closed' = "closed"
  /\ UNCHANGED <<iters, position, index, covered, scan>>

-----------------------------------------------------------------------------
IterStep(g) ==
  \/ RetireIter(g) \/ StartAtBeginning(g) \/ StartCovered(g) \/ StartScan(g)
  \/ ScanPacket(g) \/ ScanStopped(g) \/ ScanDone(g)
  \/ Replay(g) \/ ReadPacket(g) \/ ReadEnd(g)

AuxNext ==
  \/ NewIter \/ CloseAux \/ CloseAuxContainer
  \/ \E g \in DOMAIN iters : IterStep(g)

AuxSpec == AuxInit /\ [][AuxNext]_auxVars

(* A seek shows every subtitle that is on the screen at its target and     *)
(* began within the lookback, and all that follow, each once, and plays    *)
(* the audio from the preroll on, whatever earlier seeks read, skipped or  *)
(* left half read. What ended before the target does not come.             *)
DueAt(t, p) ==
  CASE p.kind = "text"  -> p.to > t /\ p.at >= WindowStart(t)
    [] p.kind = "audio" -> p.at >= t
    [] OTHER -> FALSE
SubtitlesComplete ==
  \A g \in {h \in DOMAIN iters : CurrentIter(h)} :
    LET t == iters[g].target
        out == ToSet(iters[g].out)
    IN /\ Cardinality(out) = Len(iters[g].out)
       /\ \A i \in out : File[i].to > t \/ File[i].at >= t - Preroll
       /\ IterAt(g, "done") => \A i \in DOMAIN File : DueAt(t, File[i]) => i \in out
=============================================================================
