-------------------------- MODULE AttachmentCache --------------------------
(***************************************************************************)
(* The client's cache of subtitle fonts (relay_client_core/attachments.py):*)
(* a store of objects named by their hash, shared by every player on the   *)
(* machine, and a directory of links for each session, its view, leased by *)
(* a file lock while the session lives. Every disk step of an open runs on *)
(* a worker thread, which a cancelled caller leaves running.               *)
(***************************************************************************)
EXTENDS Integers, Sequences, FiniteSets

CONSTANTS Opens,     \* sessions being opened, by any player
          Digest,    \* the objects there are
          Wanted,    \* the manifest of each open: a sequence of objects
          StoreMax,  \* MAX_CACHE_BYTES, in objects
          Spoiled    \* bound: objects that a disk may have damaged at first

(* validate_manifest keeps the first entry of each object, possibly none.  *)
ASSUME CacheAssumption ==
  /\ IsFiniteSet(Digest) /\ StoreMax \in Nat
  /\ Wanted \in [Opens -> Seq(Digest)]
  /\ \A o \in Opens : \A i, j \in DOMAIN Wanted[o] : Wanted[o][i] = Wanted[o][j] => i = j

VARIABLES
  store,   \* objects/: [digest, good, age], 0 the age of the last one used
  opening, \* each materialize_attachment_cache: place, entry, told to stop
  view,    \* each session's directory: its links, and who holds its lease
  published \* sessions whose view was handed to the player

cacheVars == <<store, opening, view, published>>

NoView == [there |-> FALSE, leased |-> FALSE, links |-> {}]
Link(d, g) == [digest |-> d, good |-> g]
Object == [digest : Digest, good : BOOLEAN]
Aged(x, n) == [digest |-> x.digest, good |-> x.good, age |-> n]

CacheTypeOK ==
  /\ store \subseteq [digest : Digest, good : BOOLEAN, age : Nat]
  /\ \A x, y \in store : x.digest = y.digest => x = y
  /\ opening \in [Opens -> [at : {"idle", "open", "acquire", "verify", "fetch",
                                  "publish", "done", "gone", "crashed"},
                            entry : Nat, stopped : BOOLEAN]]
  /\ view \in [Opens -> [there : BOOLEAN, leased : BOOLEAN, links : SUBSET Object]]
  /\ \A o \in Opens : view[o].leased => view[o].there
  /\ published \subseteq Opens

CacheInit ==
  /\ \E S \in SUBSET Digest : Cardinality(S) <= Spoiled
                                /\ store = {Aged(Link(d, FALSE), 0) : d \in S}
  /\ opening = [o \in Opens |-> [at |-> "idle", entry |-> 1, stopped |-> FALSE]]
  /\ view = [o \in Opens |-> NoView]
  /\ published = {}

OpenAt(o, place) == opening[o].at = place
OpenGoes(o, place) == opening' = [opening EXCEPT ![o].at = place]
Entry(o) == Wanted[o][opening[o].entry]
Protected(o) == {Wanted[o][i] : i \in DOMAIN Wanted[o]}
Stored(d) == \E x \in store : x.digest = d
Without(s, d) == {x \in s : x.digest # d}

(* An object that is used is the last one used (os.utime, os.replace).     *)
Ranked(s) == {Aged(x, Cardinality({y \in s : y.age < x.age})) : x \in s}
Used(s, x) == {Aged(x, 0)} \cup {Aged(y, y.age + 1) : y \in Ranked(Without(s, x.digest))}

(* The next entry of the manifest, unless there is none or nobody waits.   *)
NextEntry(o) ==
  opening' = [opening EXCEPT ![o].entry = @ + 1, ![o].at =
                IF opening[o].stopped \/ opening[o].entry = Len(Wanted[o])
                  THEN "done" ELSE "acquire"]

-----------------------------------------------------------------------------
(* What goes under the cache-wide lock is one step.                        *)

Begin(o) ==
  /\ OpenAt(o, "idle") /\ OpenGoes(o, "open")
  /\ UNCHANGED <<store, view, published>>

(* Views that nobody leases any more are removed.                          *)
Pruned(v) == [o \in Opens |-> IF v[o].leased THEN v[o] ELSE NoView]

(* _ViewPublication.open: prune, then a view of its own with its lease.    *)
OpenView(o) ==
  /\ OpenAt(o, "open")
  /\ view' = [Pruned(view) EXCEPT ![o] = [there |-> TRUE, leased |-> TRUE, links |-> {}]]
  /\ OpenGoes(o, IF opening[o].stopped \/ Wanted[o] = <<>> THEN "done" ELSE "acquire")
  /\ UNCHANGED <<store, published>>

(* A bug: the object is counted on, and linked when it was verified.       *)
AcquireLate(o) ==
  /\ OpenAt(o, "acquire")
  /\ IF Stored(Entry(o))
       THEN NextEntry(o) ELSE OpenGoes(o, "fetch")
  /\ UNCHANGED <<store, view, published>>

(* _acquire_cached: link it at once, and mark it used.                     *)
Acquire(o) ==
  /\ OpenAt(o, "acquire")
  /\ \/ /\ ~Stored(Entry(o))
        /\ OpenGoes(o, "fetch") /\ UNCHANGED <<store, view>>
     \/ \E x \in store :
          /\ x.digest = Entry(o)
          /\ view' = [view EXCEPT ![o].links = @ \cup {Link(x.digest, x.good)}]
          /\ store' = Used(store, x)
          /\ OpenGoes(o, "verify")
  /\ UNCHANGED published

(* The link is hashed outside the lock; a damaged one is dropped and       *)
(* fetched again.                                                          *)
Verify(o) ==
  /\ OpenAt(o, "verify")
  /\ IF Link(Entry(o), TRUE) \in view[o].links
       THEN NextEntry(o) /\ UNCHANGED view
       ELSE /\ view' = [view EXCEPT ![o].links = @ \ {Link(Entry(o), FALSE)}]
            /\ OpenGoes(o, "fetch")
  /\ UNCHANGED <<store, published>>

(* The server's answer has the size and the hash, or the open fails.       *)
Fetch(o) ==
  /\ OpenAt(o, "fetch") /\ ~opening[o].stopped
  /\ \/ OpenGoes(o, "publish")
     \/ opening' = [opening EXCEPT ![o].stopped = TRUE]
  /\ UNCHANGED <<store, view, published>>

(* Eviction: the least recently used first, none of the open's own.        *)
Evicted(s, keep) ==
  LET before(x) == {y \in s : y.digest \notin keep /\ y.age > x.age}
  IN {x \in s : x.digest \in keep \/ Cardinality(before(x)) >= Cardinality(s) - StoreMax}

(* _publish_object: the object takes its name, the view links it, and the  *)
(* store is bounded again.                                                 *)
PublishObject(o) ==
  /\ OpenAt(o, "publish")
  /\ view' = [view EXCEPT ![o].links = @ \cup {Link(Entry(o), TRUE)}]
  /\ store' = Evicted(Used(store, Link(Entry(o), TRUE)), Protected(o))
  /\ NextEntry(o)
  /\ UNCHANGED published

(* The open goes on with the complete view.                                *)
Hand(o) ==
  /\ OpenAt(o, "done") /\ ~opening[o].stopped /\ o \notin published
  /\ published' = published \cup {o}
  /\ UNCHANGED <<store, opening, view>>

(* The caller is cancelled at any of its awaits; the worker step goes on.  *)
Cancel(o) ==
  /\ ~(opening[o].at \in {"idle", "gone", "crashed"})
  /\ ~opening[o].stopped /\ o \notin published
  /\ opening' = [opening EXCEPT ![o].stopped = TRUE]
  /\ UNCHANGED <<store, view, published>>

(* abandon: waits for the step at work (link and hash are one), then the   *)
(* view goes; a step that comes after finds none.                          *)
Abandon(o) ==
  /\ opening[o].stopped /\ ~(opening[o].at \in {"verify", "gone", "crashed"})
  /\ view' = [view EXCEPT ![o] = NoView]
  /\ OpenGoes(o, "gone")
  /\ UNCHANGED <<store, published>>

(* The session has ended (remove_attachment_view).                         *)
EndSession(o) ==
  /\ o \in published /\ OpenAt(o, "done")
  /\ view' = [view EXCEPT ![o] = NoView]
  /\ OpenGoes(o, "gone")
  /\ UNCHANGED <<store, published>>

(* The player's process ends: the operating system drops its lock.         *)
PlayerCrash(o) ==
  /\ ~(opening[o].at \in {"idle", "gone", "crashed"})
  /\ view' = [view EXCEPT ![o].leased = FALSE]
  /\ OpenGoes(o, "crashed")
  /\ UNCHANGED <<store, published>>

Step(o) ==
  \/ OpenView(o) \/ Acquire(o) \/ Verify(o) \/ Fetch(o) \/ PublishObject(o)
  \/ Hand(o) \/ Abandon(o)

CacheNext == \E o \in Opens :
  Step(o) \/ Begin(o) \/ Cancel(o) \/ EndSession(o) \/ PlayerCrash(o)

CacheSpec == CacheInit /\ [][CacheNext]_cacheVars

-----------------------------------------------------------------------------
(* A player that was handed its view has a good copy of every object in it *)
(* until it removes the view, whatever other players evict, prune, damage  *)
(* or abandon; and an open that ended otherwise keeps nothing but, after a *)
(* crash, a directory without a lease.                                     *)
LeasedStays ==
  \A o \in Opens :
    /\ o \in published /\ OpenAt(o, "done") =>
         view[o].links = {Link(d, TRUE) : d \in Protected(o)}
    /\ OpenAt(o, "gone") => view[o] = NoView
    /\ OpenAt(o, "crashed") => ~view[o].leased
=============================================================================
