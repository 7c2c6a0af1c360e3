------------------------------- MODULE MCParts -------------------------------
(***************************************************************************)
(* One run for the components that share no state with any other: part     *)
(* says which of them moves, and the others stay in an initial state. The  *)
(* last parts are rules without a state: a question is put to them.        *)
(***************************************************************************)
EXTENDS InferWorker, MCDisplayMapper, AttachmentCache, ServerHost, HdrSurface,
        LibraryBrowser, PlayerControls, WindowChrome, SourceOpening, IdleInhibit,
        AuxiliaryTrack

Geometry == INSTANCE FrameGeometry
Nals == INSTANCE NalUnits
Listing == INSTANCE LibraryRules
Viewing == INSTANCE ViewingRules
Framing == INSTANCE WireFraming
Colours == INSTANCE ColourRules

VARIABLES
  part,    \* the component that moves
  question \* what a part without a state is asked

vars == <<part, question, inferVars, mappingVars, cacheVars, hostVars, hdrVars, libVars,
          controlVars, chromeVars, openingVars, idleVars, auxVars>>

MCWanted == 1 :> <<"a", "b">> @@ 2 :> <<"b", "c">>
Packet(kind, at_time, to) == [kind |-> kind, at |-> at_time, to |-> to]
MCFile == <<Packet("key", 0, 1), Packet("text", 0, 9), Packet("text", 1, 3), Packet("key", 2, 3),
            Packet("text", 2, 5), Packet("audio", 2, 3), Packet("video", 3, 4), Packet("text", 3, 6),
            Packet("key", 5, 6), Packet("audio", 5, 6), Packet("text", 5, 6)>>

Movers == {"worker", "mapping", "cache", "host", "surface", "library", "controls", "chrome",
           "opening", "idle", "subtitles"}
Parts == Movers \cup {"geometry", "nals", "listing", "viewing", "framing", "colours"}

-----------------------------------------------------------------------------
(* The questions. Frames whose sides are no multiples of the alignment, of *)
(* pixels that are not square, as large as the target and larger; tiles    *)
(* with and without overlap.                                               *)
FrameSizes == [w : {2, 7, 10, 13}, h : {2, 5, 9}, num : {1, 4}, den : {1, 3}]
GeometryQuestions ==
  [s : FrameSizes, tw : {2, 5, 8}, th : {3, 6}, tile : {4, 6}, overlap : {0, 2, 3},
   guess : {0, 2, 3}, ladder : {<<3, 2>>}]

(* Messages full of zeros and of what must be guarded; slices before,      *)
(* after and without units that are none.                                  *)
NalQuestions ==
  [payload : UNION {[1..n -> {0, 1, 3, 4}] : n \in 1..4},
   nals : UNION {[1..n -> {<<2, 1, 5>>, <<64, 1, 7>>, <<66, 0, 0, 3, 1>>}] : n \in 1..2}]

(* One root, and several whose names collide or look like a number added.  *)
Root(path, fold, mtime) == [path |-> path, base |-> fold, mtime |-> mtime]
RootChoices ==
  {<<Root(1, <<1, 0>>, 1)>>,
   <<Root(1, <<1, 0>>, 1), Root(2, <<1, 1>>, 2), Root(1, <<1, 0>>, 1), Root(3, <<12, 0>>, 1)>>,
   <<Root(1, <<12, 0>>, 1), Root(2, <<1, 1>>, 2), Root(3, <<1, 0>>, 3)>>}
Entries ==
  [name : {<<1, 0>>, <<1, 1>>, <<2, 0>>, <<3, 2>>}, kind : {"dir", "file"}, playable : {TRUE}, mtime : {1, 2}]
    \cup {[name |-> <<4, 0>>, kind |-> k, playable |-> TRUE, mtime |-> 3] : k \in {"link", "outside"}}
    \cup {[name |-> <<5, 0>>, kind |-> "file", playable |-> FALSE, mtime |-> 3]}
EntryChoices == UNION {{es \in [1..n -> Entries] :
                          \A i, j \in 1..n : i # j => es[i].name # es[j].name} : n \in 1..2}
ListingQuestions ==
  [roots : RootChoices, entries : EntryChoices, limit : 1..2, sort : {"name", "mtime"},
   watched : {{<<2, 0>>}}]

(* Chapters with equal, missing and unsorted starts; records out of order, *)
(* with equal times and invalid lengths, in a full and in a roomy history. *)
Starts == {[start |-> n, title |-> 0] : n \in {-1, 0, 7, 100}} \cup {[start |-> 9, title |-> 5]}
Record(key, duration, watched, played) ==
  [key |-> key, position |-> 12, duration |-> duration, watched |-> watched, played |-> played]
RecordChoices ==
  {<<>>, <<Record("a", 120, TRUE, 1), Record("b", 120, TRUE, 1)>>,
   <<Record("b", 0, TRUE, 4), Record("a", -1, FALSE, 3), Record("c", 200, FALSE, 3),
     Record("a", 120, TRUE, 2)>>}
ViewingQuestions ==
  [raw : UNION {[1..n -> Starts] : n \in 0..2}, records : RecordChoices, limit : 1..2, key : {"a"},
   position : {0, 3, 8, 9, 12, 104, 130}, duration : {-1, 103, 200}, completed : BOOLEAN]

(* Packets of every length and with the least and the greatest times, cut  *)
(* in the middle of headers and payloads; what a muxer produced at once;   *)
(* handshakes with and without a mistake.                                  *)
Sent(n, flags, pts) ==
  [payload |-> [i \in 1..n |-> i + 1], flags |-> flags, epoch |-> 7, pts |-> pts, dts |-> -4]
SentChoices == {Sent(0, 3, -4), Sent(1, 3, -4), Sent(3, 3, -4), Sent(2, 4, 3)}
Produced ==
  {<<0>>, <<5, 7, 1, 1, 2>>} \cup {[i \in 1..n |-> i % 5] : n \in 2..7}
    \cup {<<5, 6, d, 1, 2>> : d \in 0..3}
FramingQuestions ==
  [packets : UNION {[1..n -> SentChoices] : n \in 1..2}, cut : {0, 3, 6, 7, 9, 11, 14, 16, 18},
   size : 1..3, oversized : {2, 4, 40}, data : {<<0>>}, keyframe : {TRUE}, discontinuity : {TRUE}]
    \cup [packets : {<<Sent(0, 3, -4)>>}, cut : {0}, size : {1}, oversized : {4}, data : Produced,
          keyframe : BOOLEAN, discontinuity : BOOLEAN]

(* Colours that say all, something or nothing, of sizes mpv guesses        *)
(* differently; every kind of dynamic metadata before screens that change. *)
Said == [matrix : {2, 9, 300}, range : {"limited", "odd"}, primaries : {5}, transfer : {0, 18}]
Probed == [matrix : {0, 2, 9}, range : {0, 2}, primaries : {2, 9}, transfer : {2, 16}]
Sizes == {[w |-> 1920, h |-> 800], [w |-> 720, h |-> 576], [w |-> 720, h |-> 480], [w |-> 320, h |-> 240]}
Dynamic(codec, profile, base, plus) == [codec |-> codec, profile |-> profile, base |-> base, hdr10plus |-> plus]
Sources ==
  {Dynamic("hevc", p[1], p[2], plus) :
     p \in {<<-1, 0>>, <<5, 0>>, <<7, 6>>, <<8, 1>>, <<8, 2>>, <<8, 4>>}, plus \in BOOLEAN}
    \cup {Dynamic("h264", -1, 0, plus) : plus \in BOOLEAN}
Screens == [transfer : {"pq", "sdr", "hlg"}, peak_nits : {400}]
AnyOf(S) == {CHOOSE x \in S : TRUE}
ColourQuestions ==
  [wire : Said, codec : {"hevc", "h264"}, probed : Probed, size : Sizes, source : AnyOf(Sources),
   wires : {<<s>> : s \in AnyOf(Screens)}]
    \cup [wire : AnyOf(Said), codec : {"h264"}, probed : AnyOf(Probed), size : AnyOf(Sizes),
          source : Sources, wires : UNION {[1..n -> Screens] : n \in 1..3}]

NoQuestion == 0
Questions(p) ==
  CASE p = "geometry" -> GeometryQuestions
    [] p = "nals" -> NalQuestions
    [] p = "listing" -> ListingQuestions
    [] p = "viewing" -> ViewingQuestions
    [] p = "framing" -> FramingQuestions
    [] p = "colours" -> ColourQuestions
    [] OTHER -> {NoQuestion}

-----------------------------------------------------------------------------
TypeOK ==
  /\ part \in Parts
  /\ part \in Movers => question = NoQuestion
  /\ part = "worker" => InferTypeOK
  /\ part = "mapping" => MappingTypeOK
  /\ part = "cache" => CacheTypeOK
  /\ part = "host" => HostTypeOK
  /\ part = "surface" => SurfaceTypeOK
  /\ part = "library" => LibraryTypeOK
  /\ part = "controls" => ControlTypeOK
  /\ part = "chrome" => ChromeTypeOK
  /\ part = "opening" => OpeningTypeOK
  /\ part = "idle" => IdleTypeOK
  /\ part = "subtitles" => AuxTypeOK

Init ==
  /\ part \in Parts
  /\ InferInit /\ MappingInit /\ CacheInit /\ HostInit /\ SurfaceInit
  /\ LibraryInit /\ ControlInit /\ ChromeInit /\ OpeningInit /\ IdleInit /\ AuxInit
  /\ part # "cache" => store = {}
  /\ part # "surface" => ~display.own
  /\ part # "controls" => history = 1
  /\ part # "chrome" => sidebar.width = WidthMax
  /\ question \in Questions(part)

(* A step of one part leaves the variables of every other part alone.      *)
InWorker(A) ==
  /\ part = "worker" /\ A
  /\ UNCHANGED <<part, question, mappingVars, cacheVars, hostVars, hdrVars, libVars,
                 controlVars, chromeVars, openingVars, idleVars, auxVars>>
InMapping(A) ==
  /\ part = "mapping" /\ A
  /\ UNCHANGED <<part, question, inferVars, cacheVars, hostVars, hdrVars, libVars,
                 controlVars, chromeVars, openingVars, idleVars, auxVars>>
InCache(A) ==
  /\ part = "cache" /\ A
  /\ UNCHANGED <<part, question, inferVars, mappingVars, hostVars, hdrVars, libVars,
                 controlVars, chromeVars, openingVars, idleVars, auxVars>>
InHost(A) ==
  /\ part = "host" /\ A
  /\ UNCHANGED <<part, question, inferVars, mappingVars, cacheVars, hdrVars, libVars,
                 controlVars, chromeVars, openingVars, idleVars, auxVars>>
InSurface(A) ==
  /\ part = "surface" /\ A
  /\ UNCHANGED <<part, question, inferVars, mappingVars, cacheVars, hostVars, libVars,
                 controlVars, chromeVars, openingVars, idleVars, auxVars>>
InLibrary(A) ==
  /\ part = "library" /\ A
  /\ UNCHANGED <<part, question, inferVars, mappingVars, cacheVars, hostVars, hdrVars,
                 controlVars, chromeVars, openingVars, idleVars, auxVars>>
InControls(A) ==
  /\ part = "controls" /\ A
  /\ UNCHANGED <<part, question, inferVars, mappingVars, cacheVars, hostVars, hdrVars,
                 libVars, chromeVars, openingVars, idleVars, auxVars>>
InChrome(A) ==
  /\ part = "chrome" /\ A
  /\ UNCHANGED <<part, question, inferVars, mappingVars, cacheVars, hostVars, hdrVars,
                 libVars, controlVars, openingVars, idleVars, auxVars>>
InOpening(A) ==
  /\ part = "opening" /\ A
  /\ UNCHANGED <<part, question, inferVars, mappingVars, cacheVars, hostVars, hdrVars,
                 libVars, controlVars, chromeVars, idleVars, auxVars>>
InIdle(A) ==
  /\ part = "idle" /\ A
  /\ UNCHANGED <<part, question, inferVars, mappingVars, cacheVars, hostVars, hdrVars,
                 libVars, controlVars, chromeVars, openingVars, auxVars>>
InSubtitles(A) ==
  /\ part = "subtitles" /\ A
  /\ UNCHANGED <<part, question, inferVars, mappingVars, cacheVars, hostVars, hdrVars,
                 libVars, controlVars, chromeVars, openingVars, idleVars>>

Next ==
  \/ InWorker(InferNext)
  \/ InMapping(MappingNext)
  \/ InCache(CacheNext)
  \/ InHost(HostNext)
  \/ InSurface(SurfaceNext)
  \/ InLibrary(LibraryNext)
  \/ InControls(ControlNext)
  \/ InChrome(ChromeNext)
  \/ InOpening(OpeningNext)
  \/ InIdle(IdleNext)
  \/ InSubtitles(AuxNext)

(* Fairness, one condition for a step of every part, as the parts exclude  *)
(* one another and what the threads of one can do is finite. The waits of  *)
(* the inference facade have timeouts. The threads of display mapping run, *)
(* an ffmpeg that lives maps what it is given, the source feeds and        *)
(* downstream takes. Of the server's process only the exit timer is sure   *)
(* to run. Loads of the player go on, its timer ticks and its signals are  *)
(* delivered. Nothing is assumed of the inference worker, of mpv's frames  *)
(* or of the display. Requests to a library have timeouts, and animations  *)
(* step, with a timer if need be. A worker that opens a file returns.      *)
Spec ==
  /\ Init /\ [][Next]_vars
  /\ WF_vars(\/ InWorker(Facade)
             \/ InMapping(Feed \/ Flushing \/ Closing \/ Decode \/ \E n \in Mapper : Reader(n))
             \/ InSurface(Tick \/ Reload \/ ReleaseIdle)
             \/ InLibrary(Answers) \/ InOpening(OpenersRun)
             \/ InChrome(StepSidebar \/ StepTopbar \/ StepBar))
  /\ \A n \in Launch \cup Loads :
       WF_vars(\/ n \in Launch /\ InHost(Watchdog(n))
               \/ n \in Loads /\ InSurface(Loading(n)))

-----------------------------------------------------------------------------
(* What is begun comes to an end, in the part that moves: a call of the    *)
(* inference worker, an epoch of display mapping, a quit of the server, an *)
(* output that does not fit the display, a listing, a slide, and a source  *)
(* that is open although its client closes.                                *)
Unfinished ==
  CASE part = "worker" -> CallAtWork
    [] part = "mapping" -> EpochAtWork
    [] part = "host" -> QuitAtWork
    [] part = "surface" -> Misfit
    [] part = "library" -> ListingAtWork
    [] part = "chrome" -> SlidesAtWork
    [] part = "opening" -> SourceLeft
    [] OTHER -> FALSE
CallsEnd == []<>~Unfinished

(* Neither a file that was opened nor an inhibitor of the screen saver is  *)
(* ever left to nobody, however a late answer crosses a cancellation.      *)
NothingLeaks == SourceOwned /\ ScreenReleased

(* The rules without a state give what they promise to every question.     *)
AlgorithmsAgree ==
  /\ part = "geometry" => Geometry!GeometryAgrees(question)
  /\ part = "nals" => Nals!NalsAgree(question)
  /\ part = "listing" => Listing!LibraryAgrees(question)
  /\ part = "viewing" => Viewing!ViewingAgrees(question)
  /\ part = "framing" => Framing!FramingAgrees(question)
  /\ part = "colours" => Colours!ColoursAgree(question)
=============================================================================
