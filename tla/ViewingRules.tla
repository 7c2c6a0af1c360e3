---------------------------- MODULE ViewingRules ----------------------------
(***************************************************************************)
(* Where the desktop goes on watching: chapters (desktop_client/           *)
(* chapters.py) and the history of positions (desktop_client/history.py),  *)
(* in whole seconds.                                                       *)
(***************************************************************************)
EXTENDS Integers, Sequences, SequencesExt, FiniteSetsExt

RestartThreshold == 3  \* PREVIOUS_RESTART_THRESHOLD_S
TooEarly == 10         \* neither the first seconds of a file
Credits == 90          \* nor its last ones are worth coming back to
NoValue == -1          \* None, and what is no valid number

(* normalize_chapters: sorted by start; what has no title (0) is numbered. *)
Normalize(raw) ==
  LET valid == SelectSeq(raw, LAMBDA c : c.start >= 0)
      order == SetToSortSeq(DOMAIN valid, LAMBDA i, j :
                 valid[i].start < valid[j].start \/ (valid[i].start = valid[j].start /\ i < j))
  IN [k \in DOMAIN order |-> LET c == valid[order[k]] IN [c EXCEPT !.title = IF @ = 0 THEN k ELSE @]]

(* chapter_index, from 1, and 0 before the first.                          *)
ChapterIndex(chapters, position) ==
  Max({k \in DOMAIN chapters : chapters[k].start <= position} \cup {0})

(* step_target                                                             *)
NextTarget(chapters, position) ==
  LET k == ChapterIndex(chapters, position) + 1
  IN IF k <= Len(chapters) THEN chapters[k].start ELSE NoValue
PreviousTarget(chapters, position) ==
  LET k == ChapterIndex(chapters, position)
  IN IF k = 0 THEN NoValue
     ELSE IF position - chapters[k].start > RestartThreshold THEN chapters[k].start
     ELSE IF k > 1 THEN chapters[k - 1].start ELSE 0

(* slider_fractions, of the duration.                                      *)
SliderMarks(chapters, duration) ==
  SelectSeq(chapters, LAMBDA c : 0 < c.start /\ c.start < duration)

-----------------------------------------------------------------------------
(* Entries [key, position, duration, watched, played] in the order of the  *)
(* dictionary.                                                             *)
Resume(entry) ==
  IF \/ entry.watched \/ entry.position < TooEarly
     \/ entry.duration # NoValue /\ entry.position >= entry.duration - Credits
  THEN 0 ELSE entry.position

(* progress, in percent; 100 stands for the check mark.                    *)
Progress(entry) ==
  IF entry.watched THEN 100
  ELSE IF entry.duration = NoValue THEN NoValue
  ELSE Min({99, (entry.position * 100) \div entry.duration})

(* _trim, whose sort is stable also backwards.                             *)
Trim(entries, limit) ==
  LET order == SetToSortSeq(DOMAIN entries, LAMBDA i, j :
                 \/ entries[i].played > entries[j].played
                 \/ entries[i].played = entries[j].played /\ i < j)
  IN [k \in 1..Min({limit, Len(entries)}) |-> entries[order[k]]]

At(entries, key) == {i \in DOMAIN entries : entries[i].key = key}
Put(entries, entry) ==
  IF At(entries, entry.key) = {} THEN Append(entries, entry)
  ELSE [i \in DOMAIN entries |-> IF entries[i].key = entry.key THEN entry ELSE entries[i]]

(* save: without a duration, what was watched stays so.                    *)
Save(entries, limit, key, position, duration, completed, now) ==
  LET known == duration > 0
      finished == completed \/ (known /\ position >= Max({0, duration - Credits}))
      before == ~known /\ \E i \in At(entries, key) : entries[i].watched
  IN IF position < 0 THEN entries
     ELSE Trim(Put(entries, [key |-> key, position |-> position, played |-> now,
                             duration |-> IF known THEN duration ELSE NoValue,
                             watched |-> finished \/ before]), limit)

Mark(entries, limit, key, watched, now) ==
  LET old == {entries[i] : i \in At(entries, key)}
      was == IF old # {} THEN CHOOSE e \in old : TRUE
             ELSE [key |-> key, position |-> 0, duration |-> NoValue, watched |-> FALSE, played |-> 0]
  IN Trim(Put(entries, [was EXCEPT !.watched = watched, !.played = now,
                                   !.position = IF watched THEN @ ELSE 0]), limit)

(* __init__: what is stored and valid, one entry for a key, the newest     *)
(* ones. A record that is not one is left out.                             *)
Load(records, limit) ==
  LET valid == SelectSeq(records, LAMBDA r : /\ r.position >= 0 /\ r.played >= 0
                                             /\ r.duration = NoValue \/ r.duration > 0)
  IN Trim(FoldLeft(Put, <<>>, valid), limit)

-----------------------------------------------------------------------------
(* "Next" goes to the first start ahead and to no other; "previous" goes   *)
(* back, over one start at most if no two are equal; and marks are         *)
(* chapters inside the file.                                               *)
ChaptersAgree(raw, position, duration) ==
  LET chapters == Normalize(raw)
      starts == {c.start : c \in ToSet(chapters)}
      next == NextTarget(chapters, position)
      back == PreviousTarget(chapters, position)
      distinct == Cardinality(starts) = Len(chapters)
      ahead == {s \in starts : s > position}
  IN /\ next = IF ahead = {} THEN NoValue ELSE Min(ahead)
     /\ back # NoValue => back \in starts \cup {0} /\ back <= position
     /\ back # NoValue /\ distinct =>
          /\ back < position \/ position = 0
          /\ Cardinality({s \in starts : back < s /\ s <= position}) <= 1
     /\ back = NoValue => \A s \in starts : s > position
     /\ \A c \in ToSet(SliderMarks(chapters, duration)) : c.start \in 1..duration - 1
     /\ \A k \in DOMAIN chapters : chapters[k].title > 0

(* What is saved last is never what is forgotten, and nothing newer than   *)
(* what is kept; it is offered again in the middle of a file only; a file  *)
(* without a known length stays watched; a mark taken away starts it over; *)
(* and the next start of the program finds it all as it was left.          *)
HistoryAgrees(records, limit, key, position, duration, completed) ==
  LET old == Load(records, limit)
      now == 1 + Max({old[i].played : i \in DOMAIN old} \cup {0})
      new == Save(old, limit, key, position, duration, completed, now)
      saved == new[1]
      lost == {e \in ToSet(old) : At(new, e.key) = {}}
  IN /\ saved.key = key /\ saved.played = now
     /\ Cardinality(lost) <= 1
     /\ \A e \in lost : \A i \in DOMAIN new : new[i].played >= e.played
     /\ \A i \in DOMAIN new : Resume(new[i]) # 0 =>
          /\ Resume(new[i]) >= TooEarly /\ ~new[i].watched
          /\ new[i].duration # NoValue => Resume(new[i]) < new[i].duration - Credits
     /\ completed => Resume(saved) = 0 /\ Progress(saved) = 100
     /\ \A i \in At(old, key) : old[i].watched /\ duration <= 0 => saved.watched
     /\ Resume(Mark(new, limit, key, FALSE, now + 1)[1]) = 0
     /\ Progress(Mark(new, limit, key, TRUE, now + 1)[1]) = 100
     /\ Load(new, limit) = new

(* q: [raw, records, limit, key, position, duration, completed].           *)
ViewingAgrees(q) ==
  /\ ChaptersAgree(q.raw, q.position, q.duration)
  /\ HistoryAgrees(q.records, q.limit, q.key, q.position, q.duration, q.completed)
=============================================================================
