---------------------------- MODULE LibraryRules ----------------------------
(***************************************************************************)
(* The server's media library (relay_server/library.py) and the choice of  *)
(* the next file on the desktop (desktop_client/features.py), as functions *)
(* of what lies on disk. A name is <<fold, form>>: fold numbers its        *)
(* casefold, in order, and form tells spellings apart that fold alike.     *)
(***************************************************************************)
EXTENDS Integers, Sequences, SequencesExt, FiniteSetsExt

Fold(name) == name[1]
HasBackslash(name) == name[2] = 2  \* legal on POSIX, refused in API paths

(* Parts of a path that are no names: ".", ".." and nothing at all.        *)
Dot == <<0, 0>>
Dots == <<0, 1>>
Blank == <<0, 3>>

Before(a, b) == \E k \in DOMAIN a : a[k] < b[k] /\ \A l \in 1..k - 1 : a[l] = b[l]
(* Python's sort is stable: equal keys stay in the order they were read.   *)
SortedBy(entries, Key(_)) ==
  LET order == SetToSortSeq(DOMAIN entries, LAMBDA i, j :
                 Before(Append(Key(entries[i]), i), Append(Key(entries[j]), j)))
  IN [k \in DOMAIN order |-> entries[order[k]]]

-----------------------------------------------------------------------------
(* A library is given roots, a sequence of [path, base, mtime], and has in *)
(* each of them entries in the order the file system gives: [name, kind,   *)
(* playable, mtime], of kind "dir" (an empty one), "file", "link" (to a    *)
(* file of the library) or "outside" (a link that leaves it).              *)

(* __init__: a directory named twice is one root.                          *)
AddRoot(roots, root) ==
  IF \E i \in DOMAIN roots : roots[i].path = root.path THEN roots ELSE Append(roots, root)
Virtual(lib) == Len(lib.roots) > 1

(* _name_roots: "base (2)", "base (3)" and so on while the name is taken.  *)
Suffixed(base, n) == <<10 * base[1] + n, base[2]>>
NameRoot(names, root) ==
  LET used == {Fold(names[i]) : i \in DOMAIN names}
      free == {n \in 2..Len(names) + 2 : Fold(Suffixed(root.base, n)) \notin used}
  IN Append(names, IF Fold(root.base) \notin used THEN root.base
                   ELSE Suffixed(root.base, Min(free)))
(* __init__, _name_roots; entries is what lies in each root.               *)
MediaLibrary(given, entries) ==
  LET roots == FoldLeft(AddRoot, <<>>, given)
  IN [roots |-> roots, names |-> FoldLeft(NameRoot, <<>>, roots), entries |-> entries]

(* _validated_parts of a relative path, [absolute, parts]. PurePosixPath   *)
(* has dropped what is empty or "." already.                               *)
PathParts(relative) == SelectSeq(relative.parts, LAMBDA p : p \notin {Dot, Blank})
Validated(relative, allow_empty) ==
  /\ \A i \in DOMAIN relative.parts : ~HasBackslash(relative.parts[i])
  /\ relative.parts # <<>> \/ relative.absolute \/ allow_empty
  /\ ~relative.absolute
  /\ \A i \in DOMAIN relative.parts : relative.parts[i] # Dots

(* _physical_parts: the root and what follows it; an error is no answer.   *)
PhysicalParts(lib, relative, allow_root) ==
  LET parts == PathParts(relative)
  IN IF ~Validated(relative, allow_root) THEN {}
     ELSE IF ~Virtual(lib) THEN {<<1, parts>>}
     ELSE {<<i, Tail(parts)>> : i \in {n \in DOMAIN lib.names : parts # <<>> /\ lib.names[n] = parts[1]}}

(* resolve_file and resolve_directory: the root and the entry, or none for *)
(* the root itself.                                                        *)
Reached(lib, at) == {<<at[1], i>> : i \in {n \in DOMAIN lib.entries : at[2] = <<lib.entries[n].name>>}}
ResolveFile(lib, relative) ==
  {r \in UNION {Reached(lib, at) : at \in PhysicalParts(lib, relative, FALSE)} :
     lib.entries[r[2]].kind \in {"file", "link"} /\ lib.entries[r[2]].playable}
ResolveDirectory(lib, relative) ==
  LET places == PhysicalParts(lib, relative, TRUE)
  IN {<<at[1], 0>> : at \in {p \in places : p[2] = <<>>}}
       \cup {r \in UNION {Reached(lib, at) : at \in places} : lib.entries[r[2]].kind = "dir"}

(* _directory_children: links are never listed.                            *)
Recent(sort, entry) == IF sort = "mtime" THEN <<-entry.mtime>> ELSE <<>>
DirectoryChildren(lib, sort) ==
  SelectSeq(SortedBy(lib.entries, LAMBDA e : <<IF e.kind = "dir" THEN 0 ELSE 1>>
                                               \o Recent(sort, e) \o <<Fold(e.name)>>),
            LAMBDA e : e.kind = "dir" \/ (e.kind = "file" /\ e.playable))

VirtualChildren(lib, sort) ==
  LET dirs == [i \in DOMAIN lib.roots |-> [name |-> lib.names[i], kind |-> "dir",
                                           playable |-> FALSE, mtime |-> lib.roots[i].mtime]]
  IN SortedBy(dirs, LAMBDA e : Recent(sort, e) \o <<Fold(e.name)>>)

(* page, and handle_library around it: the answer, with cursor 0 for none. *)
Page(children, offset, limit) ==
  LET taken == SubSeq(children, offset + 1, Min({offset + limit, Len(children)}))
      after == offset + Len(taken)
  IN [status |-> 200, children |-> taken, cursor |-> IF after < Len(children) THEN after ELSE 0]
Refused(status) == [status |-> status, children |-> <<>>, cursor |-> 0]
HandleLibrary(lib, relative, offset, limit, sort) ==
  LET place == ResolveDirectory(lib, relative)
      top == Virtual(lib) /\ relative.parts = <<>> /\ ~relative.absolute
  IN IF offset < 0 \/ limit < 1 THEN Refused(400)
     ELSE IF top THEN Page(VirtualChildren(lib, sort), offset, limit)
     ELSE IF place = {} THEN Refused(404)
     ELSE Page(IF \E r \in place : r[2] = 0 THEN DirectoryChildren(lib, sort) ELSE <<>>, offset, limit)

-----------------------------------------------------------------------------
(* A client follows the cursors of a directory.                            *)
Onward(page, from) ==
  page.children \o (IF page.cursor = 0 THEN <<>> ELSE from[page.cursor])
Walk(lib, relative, limit, sort) ==
  LET from[offset \in 0..Len(lib.entries) + Len(lib.roots)] ==
        Onward(HandleLibrary(lib, relative, offset, limit, sort), from)
  IN from[0]

(* _next_sibling: the first file after current that was not watched, in a  *)
(* local directory and in a listing of the server; <<>> for none.          *)
FirstOf(entries, current, watched) ==
  LET later == SelectSeq(entries, LAMBDA e : /\ e.kind # "dir" /\ Before(current, e.name)
                                             /\ e.name \notin watched)
  IN IF later = <<>> THEN <<>> ELSE later[1].name
LocalSibling(lib, current, watched) ==
  FirstOf(SortedBy(SelectSeq(lib.entries, LAMBDA e : e.kind \in {"file", "link"} /\ e.playable),
                   LAMBDA e : e.name), current, watched)
ServerSibling(lib, directory, limit, current, watched) ==
  FirstOf(Walk(lib, directory, limit, "name"), current, watched)

-----------------------------------------------------------------------------
Relative(parts) == [absolute |-> FALSE, parts |-> parts]
(* The directories that show the entries: the root, or one of several.     *)
Tops(lib) == IF Virtual(lib) THEN {<<n>> : n \in ToSet(lib.names)} ELSE {<<>>}

Listed(e) == e.kind = "dir" \/ (e.kind = "file" /\ e.playable)
ShowsAll(walk, entries) ==
  /\ Len(walk) = Cardinality(entries) /\ ToSet(walk) = entries
  /\ \A k \in 1..Len(walk) - 1 : walk[k].kind # "dir" => walk[k + 1].kind # "dir"
Resolve(lib, e, parts) ==
  IF e.kind = "dir" THEN ResolveDirectory(lib, Relative(parts)) ELSE ResolveFile(lib, Relative(parts))
Openable(lib, top, e) ==
  /\ ~HasBackslash(e.name) =>
       {<<lib.entries[r[2]], r[1]>> : r \in Resolve(lib, e, Append(top, e.name))}
         = {<<e, IF Virtual(lib) THEN CHOOSE n \in DOMAIN lib.names : lib.names[n] = top[1] ELSE 1>>}
  /\ Resolve(lib, e, Append(top, Dots) \o <<e.name>>) = {}
Plain(entries) ==
  /\ \A e \in ToSet(entries) : e.kind # "link"
  /\ \A i, j \in DOMAIN entries : i # j => Fold(entries[i].name) # Fold(entries[j].name)
ListingAgrees(lib, limit, sort, watched) ==
  /\ \A i, j \in DOMAIN lib.names : i # j => Fold(lib.names[i]) # Fold(lib.names[j])
  /\ Virtual(lib) =>
       ToSet(lib.names) = {e.name : e \in ToSet(Walk(lib, Relative(<<>>), limit, sort))}
  /\ \A top \in Tops(lib) :
       /\ ShowsAll(Walk(lib, Relative(top), limit, sort), {e \in ToSet(lib.entries) : Listed(e)})
       /\ \A e \in ToSet(lib.entries) : Listed(e) => Openable(lib, top, e)
       /\ Plain(lib.entries) => \A e \in ToSet(lib.entries) :
            ServerSibling(lib, Relative(top), limit, e.name, watched)
              = LocalSibling(lib, e.name, watched)

(* Roots have names of their own, whatever their folders are called. Pages *)
(* of any size show what can be played once each, directories first. What  *)
(* is listed can be opened under the path listed, in its own root, if its  *)
(* name has no backslash; what has a ".." cannot. And playback goes on     *)
(* with the same file on a server as it would locally, where no two names  *)
(* fold alike and no link is among them. q: [roots, entries, limit, sort,  *)
(* watched].                                                               *)
LibraryAgrees(q) ==
  ListingAgrees(MediaLibrary(q.roots, q.entries), q.limit, q.sort, q.watched)
=============================================================================
