------------------------ MODULE DesktopParts_proofs ------------------------
(***************************************************************************)
(* What the parts of the desktop client promise that share no state with   *)
(* each other: the tree of a server's library, pause and position in the   *)
(* player, what slides around the video, and the surface the video is      *)
(* drawn on. Every part has an inductive invariant.                        *)
(***************************************************************************)
EXTENDS LibraryBrowser, PlayerControls, WindowChrome, HdrSurface, SequenceTheorems, TLAPS

-----------------------------------------------------------------------------
(* The tree of a server's library (LibraryBrowser).                        *)

TreeRecord == [rows : SUBSET [path : Path, of : Servers], loaded : SUBSET Dir,
               open : SUBSET Dir]
ListingRecord == [gen : 0..MaxListings, endpoint : Servers \cup {0},
                  listed : Servers \cup {0}, tab : BOOLEAN, restoring : BOOLEAN,
                  shown : BOOLEAN]

(* A tree of rows of one server, none below a folder that is gone.         *)
Has(t, p) == \E r \in t.rows : r.path = p
TreeOf(t, of) ==
  /\ t \in TreeRecord
  /\ \A r \in t.rows : r.of = of
  /\ Has(t, "ab") => Has(t, "a")

(* No request is of a listing to come, and what the current one waits for  *)
(* is its first page, or pages of the tree it shows.                       *)
Waiting ==
  \A f \in fetches :
    /\ f.gen <= listing.gen
    /\ f.slot = "list" <=> f.path = "root"
    /\ Current(f) => /\ listing.shown <=> f.slot # "list"
                     /\ f.path = "a" => Has(tree, "a")
                     /\ listing.restoring \/ f.slot # "list"

(* What a restoration has still to open is shown, or on a page that it     *)
(* waits for; once it has ended, all that was open is open again.          *)
Reopened(t) == "a" \in t.loaded => Has(t, "ab")
Restoring ==
  listing.listed \notin touched \cup {0} =>
    /\ ~listing.restoring => tree.open = Dir
    /\ listing.restoring /\ listing.shown =>
         /\ Reopened(tree)
         /\ \A f \in fetches :
              Current(f) /\ f.slot = "restore" => f.path = "more" \/ Has(tree, "a")

LibInv ==
  /\ LibraryTypeOK /\ Len(conns) <= MaxConns
  /\ TreeOf(tree, listing.listed)
  /\ linked > 0 => listing.endpoint = conns[linked]
  /\ listing.shown => linked > 0 /\ listing.listed = conns[linked]
  /\ Waiting /\ Restoring
  /\ \A s \in Servers \ touched : saved[s] = Dir

(* Nothing is listed at first.                                             *)
LEMMA LibraryBegins == LibraryInit => LibInv
<1> SUFFICES ASSUME LibraryInit PROVE LibInv
  OBVIOUS
<1>1. tree = [rows |-> {}, loaded |-> {}, open |-> {}] /\ conns = <<>> /\ fetches = {}
  BY DEF LibraryInit, EmptyTree
<1>2. LibraryTypeOK /\ Len(conns) <= MaxConns
  BY <1>1, LibraryAssumption DEF LibraryInit, LibraryTypeOK, Dir
<1>3. TreeOf(tree, listing.listed)
  BY <1>1 DEF TreeOf, Has, TreeRecord
<1> QED  BY <1>1, <1>2, <1>3 DEF LibInv, LibraryInit, Waiting, Restoring

(* A capture keeps what is open of a server that nobody touched.           *)
LEMMA Captures ==
  ASSUME LibInv
  PROVE  /\ Captured \in [Servers -> SUBSET Dir]
         /\ \A s \in Servers \ touched : Captured[s] = Dir
<1>1. saved \in [Servers -> SUBSET Dir] /\ \A s \in Servers \ touched : saved[s] = Dir
  BY DEF LibInv, LibraryTypeOK
<1>2. Visited \in SUBSET Dir /\ (tree.open = Dir => Visited = Dir)
  BY DEF LibInv, LibraryTypeOK, Visited, Dir
<1>3. listing.listed \notin touched \cup {0} /\ ~listing.restoring => tree.open = Dir
  BY DEF LibInv, Restoring
<1> QED  BY <1>1, <1>2, <1>3 DEF Captured

(* A listing that starts or is forgotten: no answer on its way is of the   *)
(* listing there is now, but the one that was just asked for.              *)
LEMMA Relists ==
  ASSUME LibInv, listing'.gen = listing.gen + 1, ~listing'.shown,
         NEW c,
         fetches' \subseteq fetches \cup
           {[conn |-> c, gen |-> listing.gen + 1, slot |-> "list", path |-> "root"]},
         listing'.restoring \/ fetches' = fetches
  PROVE  Waiting'
<1> DEFINE newest == [conn |-> c, gen |-> listing.gen + 1, slot |-> "list", path |-> "root"]
<1>1. listing.gen \in Nat /\ \A f \in fetches : f.gen \in Nat
  BY LibraryAssumption DEF LibInv, LibraryTypeOK, Fetching
<1>2. ASSUME NEW f \in fetches
      PROVE  /\ f.gen <= listing'.gen /\ (f.slot = "list" <=> f.path = "root")
             /\ f.gen # listing'.gen
  <2>1. f.gen <= listing.gen /\ (f.slot = "list" <=> f.path = "root")
    BY DEF LibInv, Waiting
  <2> QED  BY <2>1, <1>1
<1>3. newest.gen <= listing'.gen /\ newest.slot = "list" /\ newest.path = "root"
  BY <1>1
<1>4. SUFFICES ASSUME NEW f \in fetches'
               PROVE  /\ f.gen <= listing'.gen
                      /\ (f.slot = "list" <=> f.path = "root")
                      /\ f.gen = listing'.gen =>
                           f.slot = "list" /\ f.path = "root" /\ listing'.restoring
  BY DEF Waiting, Current
<1>5. CASE f \in fetches  BY <1>5, <1>2
<1>6. CASE f = newest /\ listing'.restoring  BY <1>6, <1>3
<1> QED  BY <1>4, <1>5, <1>6

(* What the steps make of the record of a listing.                         *)
LEMMA ListingUpdated ==
  ASSUME NEW l \in ListingRecord, l.gen < MaxListings, NEW s \in Servers
  PROVE  /\ [l EXCEPT !.gen = @ + 1, !.restoring = TRUE, !.shown = FALSE] \in ListingRecord
         /\ [l EXCEPT !.gen = @ + 1, !.restoring = FALSE, !.tab = FALSE, !.listed = 0,
                      !.shown = FALSE] \in ListingRecord
         /\ [l EXCEPT !.endpoint = s, !.tab = TRUE] \in ListingRecord
         /\ [l EXCEPT !.endpoint = s] \in ListingRecord
<1>1. l.gen + 1 \in 0..MaxListings  BY LibraryAssumption DEF ListingRecord
<1>2. [l EXCEPT !.gen = @ + 1, !.restoring = TRUE, !.shown = FALSE] \in ListingRecord
  BY <1>1 DEF ListingRecord
<1>3. [l EXCEPT !.gen = @ + 1, !.restoring = FALSE, !.tab = FALSE, !.listed = 0,
                !.shown = FALSE] \in ListingRecord
  BY <1>1 DEF ListingRecord
<1>4. [l EXCEPT !.endpoint = s, !.tab = TRUE] \in ListingRecord
      /\ [l EXCEPT !.endpoint = s] \in ListingRecord
  BY DEF ListingRecord
<1> QED  BY <1>2, <1>3, <1>4

(* Connections, listings that start, and captures.                         *)
LEMMA ListingSteps ==
  ASSUME LibInv,
         \/ \E s \in Servers, library \in BOOLEAN : Adopt(s, library)
         \/ DropClient \/ Refresh \/ SaveTimer
  PROVE  LibInv'
<1>1. LibraryTypeOK /\ Len(conns) <= MaxConns /\ TreeOf(tree, listing.listed)
  BY DEF LibInv
<1>2. saved' = Captured /\ touched' = touched /\ upsets' = upsets
  BY DEF Adopt, DropClient, Refresh, SaveTimer
<1>3. saved' \in [Servers -> SUBSET Dir] /\ \A s \in Servers \ touched' : saved'[s] = Dir
  BY <1>2, Captures
<1>4. listing \in ListingRecord /\ listing.gen \in Nat
  BY <1>1, LibraryAssumption DEF LibraryTypeOK, ListingRecord
<1>5. TreeOf(EmptyTree, 0) /\ EmptyTree \in TreeRecord
  BY DEF TreeOf, EmptyTree, Has, TreeRecord
<1>6. CASE SaveTimer
  BY <1>1, <1>2, <1>3, <1>6
  DEF LibInv, SaveTimer, LibraryTypeOK, Waiting, Restoring, Current
<1>7. ASSUME DropClient PROVE LibInv'
  <2>1. listing' \in ListingRecord /\ listing'.gen = listing.gen + 1 /\ ~listing'.shown
        /\ listing'.listed = 0
    <3>1. listing' = [listing EXCEPT !.gen = @ + 1, !.restoring = FALSE, !.tab = FALSE,
                                     !.listed = 0, !.shown = FALSE]
          /\ linked \in 1..MaxConns /\ listing.gen < MaxListings
      BY <1>1, <1>7, LibraryAssumption DEF DropClient, RemoveServerTab, LibraryTypeOK
    <3>2. conns[linked] \in Servers  BY <1>1, <3>1 DEF LibraryTypeOK
    <3>3. listing' \in ListingRecord  BY <1>4, <3>1, <3>2, ListingUpdated
    <3> QED  BY <1>4, <3>1, <3>3 DEF ListingRecord
  <2>2. tree' = EmptyTree /\ fetches' = fetches /\ conns' = conns /\ linked' = 0
    BY <1>7 DEF DropClient, RemoveServerTab
  <2>3. Waiting'  BY <2>1, <2>2, Relists
  <2>4. LibraryTypeOK'
    BY <1>1, <1>2, <1>3, <1>5, <2>1, <2>2 DEF LibraryTypeOK, ListingRecord, TreeRecord
  <2> QED  BY <1>1, <1>2, <1>3, <1>5, <2>1, <2>2, <2>3, <2>4 DEF LibInv, Restoring
<1>8. ASSUME Refresh PROVE LibInv'
  <2>1. listing' = [listing EXCEPT !.gen = @ + 1, !.restoring = TRUE, !.shown = FALSE]
        /\ fetches' = fetches \cup
             {[conn |-> linked, gen |-> listing.gen + 1, slot |-> "list", path |-> "root"]}
        /\ tree' = tree /\ conns' = conns /\ linked' = linked /\ linked > 0
        /\ listing.gen < MaxListings
    BY <1>8 DEF Refresh, StartListing
  <2>2. listing' \in ListingRecord /\ listing'.gen = listing.gen + 1 /\ ~listing'.shown
        /\ listing'.listed = listing.listed /\ listing'.restoring
        /\ listing'.endpoint = listing.endpoint
    <3>1. conns[linked] \in Servers  BY <1>1, <2>1 DEF LibraryTypeOK
    <3>2. listing' \in ListingRecord  BY <1>4, <2>1, <3>1, ListingUpdated
    <3> QED  BY <1>4, <2>1, <3>2 DEF ListingRecord
  <2>3. Waiting'  BY <2>1, <2>2, Relists
  <2>4. LibraryTypeOK'
    <3>1. [conn |-> linked, gen |-> listing.gen + 1, slot |-> "list", path |-> "root"] \in Fetching
      BY <1>1, <1>4, <2>1, LibraryAssumption DEF LibraryTypeOK, Fetching
    <3> QED  BY <1>1, <1>2, <1>3, <2>1, <2>2, <3>1 DEF LibraryTypeOK, ListingRecord
  <2> QED  BY <1>1, <1>2, <1>3, <2>1, <2>2, <2>3, <2>4 DEF LibInv, Restoring
<1>9. ASSUME NEW s \in Servers, NEW library \in BOOLEAN, Adopt(s, library) PROVE LibInv'
  <2>1. /\ Len(conns) < MaxConns /\ listing.gen < MaxListings
        /\ conns' = Append(conns, s) /\ linked' = Len(conns')
    BY <1>9 DEF Adopt
  <2>2. /\ conns' \in Seq(Servers) /\ Len(conns') <= MaxConns /\ linked' = Len(conns) + 1
        /\ linked' \in 0..Len(conns') /\ conns'[linked'] = s
    BY <1>1, <2>1, LibraryAssumption DEF LibraryTypeOK
  <2> DEFINE l1 == [listing EXCEPT !.endpoint = s, !.tab = TRUE]
             l2 == [listing EXCEPT !.endpoint = s]
  <2>0. /\ l1 \in ListingRecord /\ l1.gen = listing.gen /\ l1.listed = listing.listed
        /\ l1.endpoint = s
        /\ l2 \in ListingRecord /\ l2.gen = listing.gen /\ l2.endpoint = s
        /\ [l2 EXCEPT !.tab = TRUE] = l1
    BY <1>4 DEF ListingRecord
  <2>3. \/ /\ listing' = [l1 EXCEPT !.gen = @ + 1, !.restoring = TRUE, !.shown = FALSE]
            /\ fetches' = fetches \cup {[conn |-> Len(conns) + 1, gen |-> listing.gen + 1,
                                         slot |-> "list", path |-> "root"]}
            /\ tree' = tree
        \/ /\ listing' = [l2 EXCEPT !.gen = @ + 1, !.restoring = FALSE, !.tab = FALSE,
                                     !.listed = 0, !.shown = FALSE]
           /\ fetches' = fetches /\ tree' = EmptyTree
    BY <2>0, <1>9 DEF Adopt, StartListing, RemoveServerTab
  <2> HIDE DEF l1, l2
  <2>4. /\ listing' \in ListingRecord /\ listing'.gen = listing.gen + 1 /\ ~listing'.shown
        /\ listing'.endpoint = s
        /\ listing'.restoring \/ fetches' = fetches
        /\ \/ listing'.listed = 0 /\ tree' = EmptyTree
           \/ listing'.listed = listing.listed /\ listing'.restoring /\ tree' = tree
    <3>1. listing' \in ListingRecord  BY <1>9, <2>0, <2>1, <2>3, ListingUpdated
    <3>2. CASE listing' = [l1 EXCEPT !.gen = @ + 1, !.restoring = TRUE, !.shown = FALSE]
               /\ tree' = tree
      <4>1. l1 \in ListingRecord /\ l1.gen = listing.gen /\ l1.listed = listing.listed
            /\ l1.endpoint = s
        BY <2>0
      <4> QED  BY <3>1, <3>2, <4>1 DEF ListingRecord
    <3>3. CASE listing' = [l2 EXCEPT !.gen = @ + 1, !.restoring = FALSE, !.tab = FALSE,
                                     !.listed = 0, !.shown = FALSE]
               /\ tree' = EmptyTree /\ fetches' = fetches
      <4>1. l2 \in ListingRecord /\ l2.gen = listing.gen /\ l2.endpoint = s
        BY <2>0
      <4> QED  BY <3>1, <3>3, <4>1 DEF ListingRecord
    <3> QED  BY <2>3, <3>2, <3>3
  <2>5. fetches' \subseteq fetches \cup {[conn |-> Len(conns) + 1, gen |-> listing.gen + 1,
                                         slot |-> "list", path |-> "root"]}
    BY <2>3
  <2>6. Waiting'  BY <2>4, <2>5, Relists
  <2>7. LibraryTypeOK'
    <3>1. [conn |-> Len(conns) + 1, gen |-> listing.gen + 1, slot |-> "list", path |-> "root"]
            \in Fetching
      BY <1>1, <1>4, <2>1, LibraryAssumption DEF LibraryTypeOK, Fetching
    <3>2. fetches' \subseteq Fetching  BY <1>1, <2>5, <3>1 DEF LibraryTypeOK
    <3>3. tree' \in TreeRecord  BY <1>1, <1>5, <2>4 DEF TreeOf
    <3> QED  BY <1>1, <1>2, <1>3, <2>2, <2>4, <3>2, <3>3
             DEF LibraryTypeOK, ListingRecord, TreeRecord
  <2>8. TreeOf(tree', listing'.listed)  BY <1>1, <1>5, <2>4
  <2> QED  BY <1>2, <1>3, <2>2, <2>4, <2>6, <2>7, <2>8 DEF LibInv, Restoring
<1> QED  BY <1>6, <1>7, <1>8, <1>9

(* A page of a folder that is shown adds rows of the same server, and what *)
(* is cleared leaves no row without its folder.                            *)
LEMMA Pages ==
  ASSUME LibInv, NEW f \in fetches, Current(f), f.slot # "list"
  PROVE  /\ TreeOf(WithPage(f), listing.listed)
         /\ WithPage(f).open = tree.open
         /\ Has(tree, "a") => Has(WithPage(f), "a")
         /\ f.path = "more" => Has(WithPage(f), "a")
         /\ Reopened(tree) => Reopened(WithPage(f))
         /\ \A r \in tree.rows : r \in WithPage(f).rows
<1>1. f \in Fetching /\ conns[f.conn] = listing.listed /\ listing.listed \in Servers
      /\ (f.path = "a" => Has(tree, "a")) /\ f.path \in Path
  <2>1. f \in Fetching /\ f.conn = linked /\ listing.shown
        /\ (f.path = "a" => Has(tree, "a")) /\ f.path # "root"
    BY DEF LibInv, LibraryTypeOK, Waiting, Current
  <2>2. linked \in 1..Len(conns) /\ conns \in Seq(Servers) /\ listing.listed = conns[linked]
    BY <2>1 DEF LibInv, LibraryTypeOK
  <2>3. conns[linked] \in Servers  BY <2>2
  <2> QED  BY <2>1, <2>2, <2>3 DEF Fetching, Path
<1>2. PageOf(f.path) \subseteq Path /\ (f.path # "a" => "ab" \notin PageOf(f.path))
      /\ (f.path = "more" => "a" \in PageOf(f.path))
      /\ (f.path = "a" => PageOf(f.path) = {"ab"})
  <2>1. PageOf("a") = {"ab"} /\ PageOf("ab") = {} /\ PageOf("more") = {"a"}
        /\ PageOf("root") = {"other", "more"}
    BY DEF PageOf, Children
  <2>2. f.path \in {"a", "ab", "more"}
    BY <1>1 DEF LibInv, Waiting, Fetching, Dir
  <2> QED  BY <2>1, <2>2 DEF Path, Dir
<1> DEFINE page == PageOf(f.path)
           of == listing.listed
<1>3. \A r \in Rows(page, of) : r \in [path : Path, of : Servers] /\ r.of = of /\ r.path \in page
  BY <1>1, <1>2 DEF Rows
<1>4. \A p \in page : \E r \in Rows(page, of) : r.path = p
  <2> TAKE p \in page
  <2>1. [path |-> p, of |-> of] \in Rows(page, of)  BY DEF Rows
  <2> QED  BY <2>1
<1>5. tree \in TreeRecord /\ TreeOf(tree, of)  BY DEF LibInv, TreeOf
<1>6. /\ WithPage(f).rows = tree.rows \cup Rows(page, of)
      /\ WithPage(f).loaded = tree.loaded \cup ({f.path} \cap Dir)
      /\ WithPage(f).open = tree.open
      /\ WithPage(f) = [rows |-> tree.rows \cup Rows(page, of),
                        loaded |-> tree.loaded \cup ({f.path} \cap Dir),
                        open |-> tree.open]
  <2> DEFINE R == Rows(PageOf(f.path), conns[f.conn])
  <2>1. WithPage(f) = [tree EXCEPT !.rows = @ \cup R, !.loaded = @ \cup ({f.path} \cap Dir)]
    BY DEF WithPage
  <2>2. R = Rows(page, of)  BY <1>1
  <2> HIDE DEF R, page
  <2> QED  BY <2>1, <2>2, <1>5 DEF TreeRecord
<1> HIDE DEF page
<1>7. WithPage(f) \in TreeRecord  BY <1>3, <1>5, <1>6 DEF TreeRecord
<1>8. \A p : Has(WithPage(f), p) <=> Has(tree, p) \/ \E r \in Rows(page, of) : r.path = p
  BY <1>6 DEF Has
<1>9. Has(WithPage(f), "ab") => Has(WithPage(f), "a")
  BY <1>1, <1>2, <1>3, <1>5, <1>8 DEF TreeOf, page
<1>10. \A r \in WithPage(f).rows : r.of = of
  BY <1>3, <1>5, <1>6 DEF TreeOf
<1>11. f.path = "more" => Has(WithPage(f), "a")  BY <1>2, <1>4, <1>8 DEF page
<1>12. Reopened(tree) => Reopened(WithPage(f))
  BY <1>2, <1>4, <1>6, <1>8 DEF Reopened, page
<1> QED  BY <1>6, <1>7, <1>8, <1>9, <1>10, <1>11, <1>12 DEF TreeOf

(* A restoration that goes on: it waits for a page of what is shown, or    *)
(* all that was open is open again.                                        *)
LEMMA Restores ==
  ASSUME LibInv, NEW l \in ListingRecord, l.gen = listing.gen, l.shown, linked > 0,
         l.endpoint = listing.endpoint, l.listed = conns[linked],
         NEW t, TreeOf(t, l.listed), NEW f \in fetches,
         \A g \in fetches \ {f} : Current(g) =>
           g.slot # "list" /\ (g.path = "a" => Has(t, "a")),
         l.listed \notin touched =>
           /\ ~l.restoring => t.open = Dir
           /\ l.restoring => /\ Has(t, "a") \/ Has(t, "more")
                             /\ Reopened(t)
                             /\ \A g \in fetches \ {f} : Current(g) /\ g.slot = "restore" =>
                                  g.path = "more" \/ Has(t, "a"),
         RestoreOn(l, t, f), UNCHANGED <<linked, conns, saved>>,
         touched' = touched, upsets' = upsets
  PROVE  LibInv'
<1> DEFINE context == saved[l.listed]
           opened == [t EXCEPT !.open = @ \cup (context \cap t.loaded)]
           left == [opened EXCEPT !.rows = {r \in @ : r.path # "more"}]
           next == NextNeeded(t, context)
           ask(p) == [conn |-> linked, gen |-> l.gen, slot |-> "restore", path |-> p]
<1>1. /\ LibraryTypeOK /\ Len(conns) <= MaxConns /\ Waiting
      /\ \A s \in Servers \ touched : saved[s] = Dir
  BY DEF LibInv
<1>2. l.listed \in Servers /\ context \subseteq Dir /\ l.gen \in Nat
      /\ (l.listed \notin touched => context = Dir) /\ linked \in 1..MaxConns
  <2>1. linked \in 1..Len(conns) /\ linked \in 1..MaxConns /\ conns \in Seq(Servers)
    BY <1>1, LibraryAssumption DEF LibraryTypeOK
  <2>2. l.listed \in Servers  BY <2>1
  <2>3. l.gen \in Nat  BY LibraryAssumption DEF ListingRecord
  <2>4. saved \in [Servers -> SUBSET Dir]  BY <1>1 DEF LibraryTypeOK
  <2> QED  BY <1>1, <2>1, <2>2, <2>3, <2>4
<1>3. t \in TreeRecord /\ (Has(t, "ab") => Has(t, "a")) /\ \A r \in t.rows : r.of = l.listed
  BY DEF TreeOf
<1>4. /\ opened \in TreeRecord /\ opened.rows = t.rows /\ opened.loaded = t.loaded
      /\ opened.open = t.open \cup (context \cap t.loaded)
      /\ left \in TreeRecord /\ left.rows \subseteq t.rows
      /\ left.loaded = t.loaded /\ left.open = opened.open
      /\ \A r \in t.rows : r.path # "more" => r \in left.rows
  BY <1>2, <1>3 DEF TreeRecord
<1>5. /\ next \subseteq {"more", "a", "ab"}
      /\ "more" \notin next \/ ~Has(t, "a")
      /\ "a" \in next \/ "ab" \in next => Has(t, "a")
      /\ next = {} /\ context = Dir =>
           \/ ~Has(t, "a") /\ ~Has(t, "more")
           \/ /\ Has(t, "a") /\ "a" \in t.loaded
              /\ Has(t, "ab") => "ab" \in t.loaded
  BY <1>3 DEF NextNeeded, Has, Dir
<1>6. \/ next = {} /\ tree' = opened /\ listing' = [l EXCEPT !.restoring = FALSE]
         /\ fetches' = fetches \ {f}
      \/ /\ listing' = l /\ tree' = left
         /\ \E p \in next : fetches' = (fetches \ {f}) \cup {ask(p)}
  BY DEF RestoreOn
<1>7. \A p \in {"more", "a", "ab"} :
        /\ ask(p) \in Fetching /\ ask(p).gen = l.gen /\ ask(p).slot = "restore"
        /\ ask(p).path = p
  BY <1>2 DEF Fetching, Dir
<1> HIDE DEF context, opened, left, next, ask
<1>8. tree' \in TreeRecord /\ tree'.loaded = t.loaded /\ (tree'.open = opened.open)
      /\ tree'.rows \subseteq t.rows /\ \A r \in t.rows : r.path # "more" => r \in tree'.rows
  BY <1>4, <1>6
<1>9. (Has(tree', "a") <=> Has(t, "a")) /\ (Has(tree', "ab") <=> Has(t, "ab"))
  BY <1>8 DEF Has
<1>10. /\ listing' \in ListingRecord /\ listing'.gen = listing.gen /\ listing'.shown
       /\ listing'.endpoint = listing.endpoint /\ listing'.listed = l.listed
       /\ (listing'.restoring => l.restoring /\ listing' = l)
  BY <1>6 DEF ListingRecord
<1>11. \A g \in fetches' :
         \/ g \in fetches \ {f}
         \/ /\ g \in Fetching /\ g.slot = "restore" /\ g.gen = listing.gen
            /\ g.path \in {"more", "a", "ab"} /\ (g.path = "more" \/ Has(t, "a"))
  BY <1>5, <1>6, <1>7
<1>12. LibraryTypeOK'
  <2>1. fetches' \subseteq Fetching  BY <1>1, <1>11 DEF LibraryTypeOK
  <2> QED  BY <1>1, <1>8, <1>10, <2>1 DEF LibraryTypeOK, TreeRecord, ListingRecord
<1>13. TreeOf(tree', listing'.listed)  BY <1>3, <1>8, <1>9, <1>10 DEF TreeOf
<1>14. Waiting'
  <2> SUFFICES ASSUME NEW g \in fetches'
               PROVE  /\ g.gen <= listing'.gen
                      /\ g.slot = "list" <=> g.path = "root"
                      /\ Current(g) => g.slot # "list" /\ (g.path = "a" => Has(tree', "a"))
    BY <1>10 DEF Waiting, Current
  <2>1. CASE g \in fetches \ {f}  BY <2>1, <1>1, <1>9, <1>10 DEF Waiting
  <2>2. CASE g \notin fetches \ {f}
    <3>1. listing.gen <= listing'.gen  BY <1>2, <1>10
    <3> QED  BY <2>2, <1>9, <1>10, <1>11, <3>1
  <2> QED  BY <2>1, <2>2
<1>15. Restoring'
  <2> SUFFICES ASSUME l.listed \notin touched
               PROVE  /\ ~listing'.restoring => tree'.open = Dir
                      /\ listing'.restoring =>
                           /\ Reopened(tree')
                           /\ \A g \in fetches' : Current(g) /\ g.slot = "restore" =>
                                g.path = "more" \/ Has(tree', "a")
    BY <1>10 DEF Restoring, Current
  <2>1. context = Dir  BY <1>2
  <2>2. ASSUME ~listing'.restoring PROVE tree'.open = Dir
    <3>1. CASE ~l.restoring
      BY <2>1, <3>1, <1>3, <1>4, <1>8 DEF TreeRecord
    <3>2. CASE l.restoring
      <4>1. next = {}  BY <2>2, <3>2, <1>6
      <4>2. "a" \in t.loaded /\ (Has(t, "ab") => "ab" \in t.loaded) /\ Reopened(t)
        BY <2>1, <3>2, <4>1, <1>5
      <4>3. Dir \subseteq t.loaded  BY <4>2 DEF Reopened, Dir
      <4> QED  BY <2>1, <4>3, <1>3, <1>4, <1>8 DEF TreeRecord
    <3> QED  BY <3>1, <3>2
  <2>3. ASSUME listing'.restoring
        PROVE  /\ Reopened(tree')
               /\ \A g \in fetches' : Current(g) /\ g.slot = "restore" =>
                    g.path = "more" \/ Has(tree', "a")
    BY <2>3, <1>8, <1>9, <1>10, <1>11 DEF Reopened
  <2> QED  BY <2>2, <2>3
<1> QED  BY <1>1, <1>10, <1>12, <1>13, <1>14, <1>15 DEF LibInv

(* The user opens and closes folders, and asks for more.                   *)
LEMMA UserSteps ==
  ASSUME LibInv, LoadMore \/ \E p \in Dir : UserOpens(p) \/ UserCollapses(p)
  PROVE  LibInv'
<1>1. LibraryTypeOK /\ Len(conns) <= MaxConns /\ TreeOf(tree, listing.listed) /\ Waiting
      /\ Restoring /\ \A s \in Servers \ touched : saved[s] = Dir
  BY DEF LibInv
<1>2. tree \in TreeRecord  BY <1>1 DEF TreeOf
<1>3. UNCHANGED <<linked, conns, listing, saved>> /\ listing.shown /\ upsets' \in 0..MaxUpsets
  <2>1. UNCHANGED <<linked, conns, listing, saved>> /\ listing.shown /\ Upset
    BY DEF LoadMore, UserOpens, UserCollapses
  <2>2. upsets \in 0..MaxUpsets  BY <1>1 DEF LibraryTypeOK
  <2> QED  BY <2>1, <2>2, LibraryAssumption DEF Upset
<1>4. linked \in 1..Len(conns) /\ linked \in 1..MaxConns /\ listing.listed \in Servers
      /\ listing.gen \in Nat /\ listing \in ListingRecord
  <2>1. linked \in 1..Len(conns) /\ conns \in Seq(Servers) /\ listing.listed = conns[linked]
    BY <1>1, <1>3 DEF LibInv, LibraryTypeOK
  <2>2. listing \in ListingRecord  BY <1>1 DEF LibraryTypeOK, ListingRecord
  <2> QED  BY <1>1, <2>1, <2>2, LibraryAssumption DEF ListingRecord
<1> DEFINE ask(p, slot) ==
      [conn |-> linked, gen |-> listing.gen, slot |-> slot, path |-> p]
<1>5. ASSUME fetches' \subseteq Fetching, tree' \in TreeRecord, TreeOf(tree', listing.listed),
             Has(tree, "a") => Has(tree', "a"),
             NEW g, fetches' \subseteq fetches \cup {g},
             g.gen = listing.gen, g.slot \in {"user", "more"}, g.path # "root",
             g.path = "a" => Has(tree', "a"),
             touched' \subseteq Servers, touched \subseteq touched',
             listing.listed \notin touched' =>
               tree'.open = tree.open /\ (Reopened(tree) => Reopened(tree'))
      PROVE  LibInv'
  <2>1. LibraryTypeOK'
    BY <1>1, <1>3, <1>5 DEF LibraryTypeOK, TreeRecord
  <2>2. Waiting'
    <3> SUFFICES ASSUME NEW f \in fetches'
                 PROVE  /\ f.gen <= listing.gen
                        /\ f.slot = "list" <=> f.path = "root"
                        /\ Current(f) => f.slot # "list" /\ (f.path = "a" => Has(tree', "a"))
      BY <1>3 DEF Waiting, Current
    <3>1. CASE f \in fetches  BY <3>1, <1>1, <1>3, <1>5 DEF Waiting
    <3>2. CASE f = g  BY <3>2, <1>4, <1>5
    <3> QED  BY <1>5, <3>1, <3>2
  <2>3. Restoring'
    BY <1>1, <1>3, <1>5 DEF Restoring, Current
  <2> QED  BY <1>1, <1>3, <1>5, <2>1, <2>2, <2>3 DEF LibInv
<1>6. \A p \in {"a", "ab", "more"}, slot \in {"user", "more"} :
        ask(p, slot) \in Fetching /\ ask(p, slot).gen = listing.gen
        /\ ask(p, slot).slot = slot /\ ask(p, slot).path = p
  BY <1>4 DEF Fetching, Dir
<1>7. ASSUME LoadMore PROVE LibInv'
  <2>1. tree' = Cleared("more") /\ fetches' = fetches \cup {ask("more", "more")}
        /\ touched' = touched
    BY <1>7 DEF LoadMore, LoadInto
  <2>2. /\ tree' = [rows |-> {r \in tree.rows : r.path \notin {"more"}},
                    loaded |-> tree.loaded, open |-> tree.open]
    BY <2>1 DEF Cleared
  <2>3. /\ tree' \in TreeRecord /\ tree'.loaded = tree.loaded /\ tree'.open = tree.open
        /\ \A r : r \in tree'.rows <=> r \in tree.rows /\ r.path # "more"
    BY <1>2, <2>2 DEF TreeRecord
  <2>4. (Has(tree', "a") <=> Has(tree, "a")) /\ (Has(tree', "ab") <=> Has(tree, "ab"))
    BY <2>3 DEF Has
  <2>5. TreeOf(tree', listing.listed)  BY <1>1, <2>3, <2>4 DEF TreeOf
  <2>6. fetches' \subseteq Fetching  BY <1>1, <1>6, <2>1 DEF LibraryTypeOK
  <2> HIDE DEF ask
  <2> QED  BY <1>1, <1>5, <1>6, <2>1, <2>3, <2>4, <2>5, <2>6 DEF Reopened, LibraryTypeOK
<1>8. ASSUME NEW p \in Dir, UserOpens(p) PROVE LibInv'
  <2>1. Shows(p) /\ touched' = touched \cup {listing.listed}
    BY <1>8 DEF UserOpens
  <2>2. PICK g : /\ g = ask(p, "user")
                 /\ \/ fetches' = fetches /\ tree' = [tree EXCEPT !.open = @ \cup {p}]
                    \/ /\ fetches' = fetches \cup {g}
                       /\ tree' = [Cleared(p) EXCEPT !.open = @ \cup {p}, !.loaded = @ \cup {p}]
    BY <1>8 DEF UserOpens, LoadInto
  <2>3. Cleared(p) = [rows |-> {r \in tree.rows : r.path \notin Children[p]},
                      loaded |-> tree.loaded \ Children[p], open |-> tree.open \ Children[p]]
        /\ Children["a"] = {"ab"} /\ Children["ab"] = {}
    BY DEF Cleared, Dir, Children
  <2>4. Cleared(p) \in TreeRecord /\ \A r : r \in Cleared(p).rows <=> r \in tree.rows /\ r.path \notin Children[p]
    BY <1>2, <2>3 DEF TreeRecord
  <2>5. tree' \in TreeRecord /\ (tree'.rows = tree.rows \/ tree'.rows = Cleared(p).rows)
    <3>1. [tree EXCEPT !.open = @ \cup {p}] \in TreeRecord
          /\ [tree EXCEPT !.open = @ \cup {p}].rows = tree.rows
      BY <1>2 DEF TreeRecord
    <3>2. [Cleared(p) EXCEPT !.open = @ \cup {p}, !.loaded = @ \cup {p}] \in TreeRecord
          /\ [Cleared(p) EXCEPT !.open = @ \cup {p}, !.loaded = @ \cup {p}].rows = Cleared(p).rows
      BY <2>4 DEF TreeRecord
    <3> QED  BY <2>2, <3>1, <3>2
  <2>6. (Has(tree', "a") <=> Has(tree, "a")) /\ (Has(tree', "ab") => Has(tree, "ab"))
    BY <2>3, <2>4, <2>5 DEF Has, Dir
  <2>7. TreeOf(tree', listing.listed)  BY <1>1, <2>4, <2>5, <2>6 DEF TreeOf
  <2>8. p \in {"a", "ab", "more"} /\ g.gen = listing.gen /\ g.slot = "user" /\ g.path = p
        /\ g \in Fetching
    BY <1>6, <2>2 DEF Dir
  <2>9. fetches' \subseteq Fetching  BY <1>1, <2>2, <2>8 DEF LibraryTypeOK
  <2>10. fetches' \subseteq fetches \cup {g}  BY <2>2
  <2>11. p = "a" => Has(tree, "a")  BY <2>1 DEF Shows, Has
  <2>12. touched' \subseteq Servers  BY <1>1, <1>4, <2>1 DEF LibraryTypeOK
  <2> QED  BY <1>5, <2>1, <2>5, <2>6, <2>7, <2>8, <2>9, <2>10, <2>11, <2>12
<1>9. ASSUME NEW p \in Dir, UserCollapses(p) PROVE LibInv'
  <2>1. tree' = [tree EXCEPT !.open = @ \ {p}] /\ fetches' = fetches
        /\ touched' = touched \cup {listing.listed}
    BY <1>9 DEF UserCollapses
  <2>2. tree' \in TreeRecord /\ tree'.rows = tree.rows
    BY <1>2, <2>1 DEF TreeRecord
  <2>3. TreeOf(tree', listing.listed) /\ (Has(tree', "a") <=> Has(tree, "a"))
    BY <1>1, <2>2 DEF TreeOf, Has
  <2>4. ask("more", "more").gen = listing.gen /\ ask("more", "more").slot = "more"
        /\ ask("more", "more").path = "more"
    BY <1>6
  <2> HIDE DEF ask
  <2> QED  BY <1>1, <1>4, <1>5, <2>1, <2>2, <2>3, <2>4 DEF LibraryTypeOK
<1> QED  BY <1>7, <1>8, <1>9

(* Answers.                                                                *)
LEMMA AnswerSteps ==
  ASSUME LibInv, Answers
  PROVE  LibInv'
<1>1. LibraryTypeOK /\ Len(conns) <= MaxConns /\ TreeOf(tree, listing.listed) /\ Waiting
      /\ Restoring /\ \A s \in Servers \ touched : saved[s] = Dir
  BY DEF LibInv
<1>2. PICK f \in fetches : Answered(f)  BY DEF Answers
<1>3. listing \in ListingRecord  BY <1>1 DEF LibraryTypeOK, ListingRecord
<1>4. ASSUME AnswerStale(f) PROVE LibInv'
  <2>1. fetches' \subseteq fetches /\ UNCHANGED <<linked, conns, listing, tree, saved, touched, upsets>>
    BY <1>4 DEF AnswerStale
  <2>2. LibraryTypeOK' /\ TreeOf(tree, listing.listed)'
    BY <1>1, <2>1 DEF LibraryTypeOK
  <2>3. Waiting' /\ Restoring'  BY <1>1, <2>1 DEF Waiting, Restoring, Current
  <2> QED  BY <1>1, <2>1, <2>2, <2>3 DEF LibInv
<1>5. ASSUME FetchFails(f) PROVE LibInv'
  <2>1. /\ fetches' \subseteq fetches /\ Current(f)
        /\ UNCHANGED <<linked, conns, tree, saved>> /\ upsets' \in 0..MaxUpsets
        /\ touched' = touched \cup
             {s \in Servers : s = listing.listed /\ f.slot \in {"list", "restore"}}
        /\ listing' = [listing EXCEPT !.restoring = @ /\ f.slot \in {"user", "more"}]
    BY <1>1, <1>5, LibraryAssumption DEF FetchFails, Upset, LibraryTypeOK
  <2>2. /\ listing' \in ListingRecord /\ listing'.gen = listing.gen
        /\ listing'.shown = listing.shown /\ listing'.listed = listing.listed
        /\ listing'.endpoint = listing.endpoint
        /\ (listing'.restoring = (listing.restoring /\ f.slot \in {"user", "more"}))
    BY <1>3, <2>1 DEF ListingRecord
  <2>3. touched \subseteq touched' /\ touched' \subseteq Servers
    BY <1>1, <2>1 DEF LibraryTypeOK
  <2>4. LibraryTypeOK'
    BY <1>1, <2>1, <2>2, <2>3 DEF LibraryTypeOK, ListingRecord
  <2>5. Waiting'
    <3>1. \A g \in fetches' : g \in fetches /\ g # f
      BY <1>5 DEF FetchFails
    <3>2. ASSUME NEW g \in fetches', Current(g) PROVE g.slot # "list"
      <4> SUFFICES ASSUME g.slot = "list" PROVE FALSE
        OBVIOUS
      <4>1. f.slot = "list"  BY <1>1, <2>1, <3>1, <3>2 DEF Waiting
      <4>2. f \in Fetching /\ g \in Fetching /\ f.path = "root" /\ g.path = "root"
        BY <1>1, <3>1, <4>1 DEF Waiting, LibraryTypeOK
      <4> QED  BY <2>1, <3>1, <3>2, <4>1, <4>2 DEF Fetching, Current
    <3> QED  BY <1>1, <2>1, <2>2, <3>1, <3>2 DEF Waiting, Current
  <2>6. f.slot \in {"list", "restore", "user", "more"} /\ listing.listed \in Servers \cup {0}
    BY <1>1, <1>3 DEF LibraryTypeOK, Fetching, ListingRecord
  <2>7. Restoring'
    <3> SUFFICES ASSUME listing.listed \notin touched', listing.listed # 0
                 PROVE  /\ ~listing'.restoring => tree.open = Dir
                        /\ listing'.restoring /\ listing.shown =>
                             /\ Reopened(tree)
                             /\ \A g \in fetches' : Current(g) /\ g.slot = "restore" =>
                                  g.path = "more" \/ Has(tree, "a")
      BY <2>1, <2>2 DEF Restoring, Current
    <3>1. listing.listed \notin touched \cup {0} /\ f.slot \in {"user", "more"}
      BY <2>1, <2>3, <2>6
    <3>2. (listing'.restoring <=> listing.restoring)  BY <2>2, <3>1
    <3> QED  BY <1>1, <2>1, <3>1, <3>2 DEF Restoring
  <2>8. TreeOf(tree', listing'.listed)  BY <1>1, <2>1, <2>2
  <2> QED  BY <1>1, <2>1, <2>2, <2>3, <2>4, <2>5, <2>7, <2>8 DEF LibInv
<1>6. ASSUME PageLoaded(f) PROVE LibInv'
  <2>1. Current(f) /\ f.slot # "list" /\ listing.shown /\ linked > 0
        /\ listing.listed = conns[linked] /\ linked \in 1..Len(conns)
        /\ conns \in Seq(Servers) /\ listing.listed \in Servers
        /\ UNCHANGED <<linked, conns, saved, touched, upsets>>
    <3>1. Current(f) /\ f.slot # "list" /\ UNCHANGED <<linked, conns, saved, touched, upsets>>
      BY <1>6 DEF PageLoaded
    <3>2. listing.shown  BY <1>1, <3>1 DEF Waiting
    <3>3. linked > 0 /\ listing.listed = conns[linked] /\ linked \in 1..Len(conns)
          /\ conns \in Seq(Servers)
      BY <1>1, <3>2 DEF LibInv, LibraryTypeOK
    <3> QED  BY <3>1, <3>2, <3>3
  <2> DEFINE page == WithPage(f)
  <2>2. /\ TreeOf(page, listing.listed) /\ page.open = tree.open
        /\ Has(tree, "a") => Has(page, "a")
        /\ f.path = "more" => Has(page, "a")
        /\ Reopened(tree) => Reopened(page)
    BY <2>1, Pages
  <2> HIDE DEF page
  <2>3. \A g \in fetches : Current(g) => g.slot # "list" /\ (g.path = "a" => Has(page, "a"))
    BY <1>1, <2>1, <2>2 DEF Waiting
  <2>4. CASE f.slot = "restore"
    <3>1. RestoreOn(listing, page, f)  BY <1>6, <2>4 DEF PageLoaded, page
    <3>2. listing.listed \notin touched =>
            /\ ~listing.restoring => page.open = Dir
            /\ listing.restoring =>
                 /\ Has(page, "a") \/ Has(page, "more")
                 /\ Reopened(page)
                 /\ \A g \in fetches \ {f} : Current(g) /\ g.slot = "restore" =>
                      g.path = "more" \/ Has(page, "a")
      <4>1. listing.listed # 0  BY <2>1, LibraryAssumption
      <4> QED  BY <1>1, <2>1, <2>2, <2>4, <4>1 DEF Restoring
    <3> QED  BY <1>3, <2>1, <2>2, <2>3, <3>1, <3>2, Restores
  <2>5. CASE f.slot # "restore"
    <3>1. tree' = page /\ fetches' = fetches \ {f} /\ listing' = listing
      BY <1>6, <2>5 DEF PageLoaded, page
    <3>2. LibraryTypeOK' /\ TreeOf(tree', listing'.listed)
      BY <1>1, <2>1, <2>2, <3>1 DEF LibraryTypeOK, TreeOf, TreeRecord
    <3>3. Waiting'  BY <1>1, <2>1, <2>3, <3>1 DEF Waiting, Current
    <3>4. Restoring'  BY <1>1, <2>1, <2>2, <3>1 DEF Restoring, Current
    <3> QED  BY <1>1, <2>1, <3>1, <3>2, <3>3, <3>4 DEF LibInv
  <2> QED  BY <2>4, <2>5
<1>7. ASSUME Relisted(f) PROVE LibInv'
  <2> DEFINE l == [listing EXCEPT !.listed = listing.endpoint]
             of == conns[f.conn]
             first == [EmptyTree EXCEPT !.rows = Rows(PageOf("root"), of)]
  <2>1. /\ Current(f) /\ f.slot = "list" /\ UNCHANGED <<linked, conns, saved>>
        /\ \/ /\ RestoreOn([l EXCEPT !.shown = TRUE], first, f)
              /\ touched' = touched /\ upsets' = upsets
           \/ /\ tree' = EmptyTree /\ fetches' = fetches \ {f}
              /\ listing' = [l EXCEPT !.restoring = FALSE]
              /\ touched' = touched \cup {of} /\ Upset
    BY <1>7 DEF Relisted
  <2>2. f \in Fetching /\ f.conn = linked /\ linked > 0 /\ linked \in 1..Len(conns)
        /\ conns \in Seq(Servers) /\ ~listing.shown /\ listing.restoring /\ f.gen = listing.gen /\ f.path = "root"
    BY <1>1, <2>1 DEF LibraryTypeOK, Waiting, Current, Fetching
  <2>3. of \in Servers /\ of = listing.endpoint /\ of = conns[linked]
    BY <1>1, <2>2 DEF LibInv
  <2>4. \A g \in fetches \ {f} : ~Current(g)
    <3> SUFFICES ASSUME NEW g \in fetches, Current(g) PROVE g = f
      OBVIOUS
    <3>1. g \in Fetching /\ g.conn = linked /\ g.gen = listing.gen /\ g.slot = "list"
          /\ g.path = "root"
      BY <1>1, <2>2 DEF LibraryTypeOK, Waiting, Current
    <3> QED  BY <2>1, <2>2, <3>1 DEF Fetching
  <2>5. CASE /\ RestoreOn([l EXCEPT !.shown = TRUE], first, f)
             /\ touched' = touched /\ upsets' = upsets
    <3> DEFINE m == [l EXCEPT !.shown = TRUE]
    <3>1. m \in ListingRecord /\ m.gen = listing.gen /\ m.shown /\ m.listed = of
          /\ m.restoring /\ m.endpoint = listing.endpoint
      BY <1>3, <2>2, <2>3 DEF ListingRecord
    <3>2. first = [rows |-> Rows({"other", "more"}, of), loaded |-> {}, open |-> {}]
      BY DEF EmptyTree, PageOf, Children
    <3>3. first \in TreeRecord /\ first.loaded = {} /\ first.rows = Rows({"other", "more"}, of)
          /\ \A r \in first.rows : r.of = of /\ r.path \in {"other", "more"}
      <4>1. \A r \in Rows({"other", "more"}, of) :
              r \in [path : Path, of : Servers] /\ r.of = of /\ r.path \in {"other", "more"}
        BY <2>3 DEF Rows, Path
      <4> HIDE DEF first
      <4> QED  BY <3>2, <4>1 DEF TreeRecord
    <3>4. [path |-> "more", of |-> of] \in first.rows  BY <3>3 DEF Rows
    <3>5. Has(first, "more") /\ ~Has(first, "a") /\ ~Has(first, "ab")
      BY <3>3, <3>4 DEF Has
    <3>6. TreeOf(first, of) /\ Reopened(first)  BY <3>3, <3>5 DEF TreeOf, Reopened
    <3>7. RestoreOn(m, first, f)  BY <2>5
    <3> HIDE DEF m, first, of
    <3> QED  BY <2>1, <2>2, <2>3, <2>4, <2>5, <3>1, <3>5, <3>6, <3>7, Restores
  <2>6. CASE /\ tree' = EmptyTree /\ fetches' = fetches \ {f}
             /\ listing' = [l EXCEPT !.restoring = FALSE]
             /\ touched' = touched \cup {of} /\ Upset
    <3>1. /\ listing' \in ListingRecord /\ listing'.gen = listing.gen /\ ~listing'.shown
          /\ listing'.listed = of /\ listing'.endpoint = listing.endpoint
      BY <1>3, <2>2, <2>3, <2>6 DEF ListingRecord
    <3>2. TreeOf(EmptyTree, of) /\ EmptyTree \in TreeRecord
      BY DEF TreeOf, EmptyTree, Has, TreeRecord
    <3>3. upsets' \in 0..MaxUpsets /\ touched' \subseteq Servers
      <4>1. upsets \in 0..MaxUpsets /\ touched \subseteq Servers
        BY <1>1 DEF LibraryTypeOK
      <4> HIDE DEF l, of, first
      <4>2. upsets' \in 0..MaxUpsets
        BY <2>6, <4>1, LibraryAssumption DEF Upset
      <4>3. touched' \subseteq Servers
        BY <2>3, <2>6, <4>1
      <4> QED  BY <4>2, <4>3
    <3> HIDE DEF l, of, first
    <3>4. LibraryTypeOK'
      BY <1>1, <2>1, <2>6, <3>1, <3>2, <3>3 DEF LibraryTypeOK, ListingRecord, TreeRecord
    <3>5. Waiting' /\ Restoring'
      BY <1>1, <2>1, <2>4, <2>6, <3>1 DEF Waiting, Restoring, Current
    <3> QED  BY <1>1, <2>1, <2>6, <3>1, <3>2, <3>4, <3>5 DEF LibInv
  <2> QED  BY <2>1, <2>5, <2>6
<1> QED  BY <1>2, <1>4, <1>5, <1>6, <1>7 DEF Answered

(* What nothing happens to stays.                                          *)
LEMMA LibraryStands ==
  ASSUME LibInv, UNCHANGED libVars
  PROVE  LibInv'
BY DEF LibInv, libVars, LibraryTypeOK, Waiting, Restoring, Current

(* The browser keeps the invariant.                                        *)
THEOREM ListingInvariant == LibrarySpec => []LibInv
<1>1. LibraryInit => LibInv  BY LibraryBegins
<1>2. LibInv /\ [LibraryNext]_libVars => LibInv'
  BY ListingSteps, UserSteps, AnswerSteps, LibraryStands DEF LibraryNext
<1> QED  BY <1>1, <1>2, PTL DEF LibrarySpec

(* The rows shown are those of the server that the next request goes to,   *)
(* and what was open on a server stays remembered, for any servers and any *)
(* number of connections, listings and failures (RowsCurrent).             *)
THEOREM RowsStayCurrent == LibrarySpec => []RowsCurrent
<1>1. LibInv => RowsCurrent
  BY DEF LibInv, TreeOf, Has, RowsCurrent, Shows
<1> QED  BY <1>1, ListingInvariant, PTL

-----------------------------------------------------------------------------
(* The surface the video is drawn on (HdrSurface).                         *)

LoadRecord == [kind : {"relay", "local"},
               at : {"none", "settle", "starting", "waiting", "playing", "gone"},
               meant : BOOLEAN, again : BOOLEAN]

(* Only the newest play has a file, or may load one: a load that another   *)
(* play or a stop has replaced is one of a local file that is not meant.   *)
LoadsOK(L, p) ==
  /\ L \in [Loads -> LoadRecord] /\ p \in 0..MaxLoads
  /\ \A l \in Loads :
       /\ L[l].at \in {"settle", "starting"} => l = p \/ (L[l].kind = "local" /\ ~L[l].meant)
       /\ L[l].at \in {"waiting", "playing"} => l = p
FileLoaded(pic, L, p) == pic.file => p # 0 /\ L[p].at \in {"waiting", "playing"}

(* A frame of this file is live, and one of a file before is behind the    *)
(* freeze until a restart of this file.                                    *)
FrameOK(pic, events, frz) ==
  /\ pic \in [file : BOOLEAN, frame : {"none", "live", "old"}]
  /\ events \subseteq {"this", "older"}
  /\ frz \in [on : BOOLEAN, thaws : BOOLEAN]
  /\ pic.frame = "live" => pic.file
  /\ "this" \in events => pic.frame = "live"
  /\ pic.frame = "old" => frz.on

(* The context is on an HDR surface that is there.                         *)
PresenterOK(c, p) ==
  /\ c \in {"none", "widget", "presenter"}
  /\ p \in [state : {"none", "starting", "ready", "broken"}, visible : BOOLEAN]
  /\ c = "presenter" => p.state \in {"ready", "broken"}

DisplayRecord == [own : BOOLEAN, hdr : BOOLEAN, full : BOOLEAN, shown : BOOLEAN,
                  enabled : BOOLEAN, armed : BOOLEAN, refused : BOOLEAN]
AsksOK ==
  /\ reloading \in BOOLEAN /\ broken \in BOOLEAN
  /\ stale \in BOOLEAN /\ asked \in BOOLEAN /\ idleCheck \in BOOLEAN
  /\ display \in DisplayRecord /\ turns \in 0..MaxTurns /\ failures \in 0..MaxFailures

HdrInv ==
  /\ LoadsOK(load, playing) /\ FileLoaded(picture, load, playing)
  /\ FrameOK(picture, restarts, freeze)
  /\ PresenterOK(ctx, presenter) /\ torn = FALSE
  /\ AsksOK

(* The types in the parts of the invariant.                                *)
LEMMA SurfaceTyped == HdrInv => SurfaceTypeOK
BY DEF HdrInv, LoadsOK, FrameOK, PresenterOK, AsksOK, SurfaceTypeOK, LoadRecord, DisplayRecord

(* Nothing is loaded at first.                                             *)
LEMMA SurfaceBegins == SurfaceInit => HdrInv
<1> SUFFICES ASSUME SurfaceInit PROVE HdrInv
  OBVIOUS
<1>1. NoLoad \in LoadRecord /\ NoLoad.at = "none"  BY DEF NoLoad, LoadRecord
<1>2. LoadsOK(load, playing)
  BY <1>1, SurfaceAssumption DEF SurfaceInit, LoadsOK
<1>3. FileLoaded(picture, load, playing) /\ FrameOK(picture, restarts, freeze)
  BY DEF SurfaceInit, FileLoaded, FrameOK
<1>4. PresenterOK(ctx, presenter)  BY DEF SurfaceInit, PresenterOK
<1>5. AsksOK
  <2>1. display \in DisplayRecord  BY DEF SurfaceInit, DisplayRecord
  <2>2. 0 \in 0..MaxTurns /\ 0 \in 0..MaxFailures  BY SurfaceAssumption
  <2> QED  BY <2>1, <2>2 DEF SurfaceInit, AsksOK
<1> QED  BY <1>2, <1>3, <1>4, <1>5 DEF HdrInv, SurfaceInit

(* A stop takes the file away behind the freeze.                           *)
LEMMA Retires ==
  ASSUME HdrInv, Retire
  PROVE  FrameOK(picture', restarts', freeze') /\ ~picture'.file /\ reloading' \in BOOLEAN
<1>1. FrameOK(picture, restarts, freeze)  BY DEF HdrInv
<1>2. picture' = [file |-> FALSE, frame |-> IF picture.frame = "live" THEN "old" ELSE picture.frame]
      /\ freeze' = [on |-> TRUE, thaws |-> FALSE] /\ restarts' \subseteq {"older"}
      /\ reloading' = TRUE
  BY DEF Retire
<1>3. picture' \in [file : BOOLEAN, frame : {"none", "live", "old"}]
      /\ picture'.frame # "live" /\ ~picture'.file
  BY <1>1, <1>2 DEF FrameOK
<1> QED  BY <1>2, <1>3 DEF FrameOK

(* What the end of a play leaves: no load has a file, nor may load one.    *)
LEMMA Ended ==
  ASSUME LoadsOK(load, playing)
  PROVE  /\ LoadsOK(AllEnded, 0)
         /\ \A l \in Loads : AllEnded[l].at \in {"settle", "starting"} =>
              AllEnded[l].kind = "local" /\ ~AllEnded[l].meant
         /\ \A l \in Loads : AllEnded[l].at \notin {"waiting", "playing"}
<1>1. ASSUME NEW l \in Loads
      PROVE  /\ AllEnded[l] \in LoadRecord
             /\ AllEnded[l].at \in {"settle", "starting"} =>
                  AllEnded[l].kind = "local" /\ ~AllEnded[l].meant
             /\ AllEnded[l].at \notin {"waiting", "playing"}
  <2>1. load[l] \in LoadRecord  BY DEF LoadsOK
  <2>2. AllEnded[l] = [PlayEnded(l) EXCEPT !.meant = FALSE]
    BY DEF AllEnded, OutOfDate
  <2>3. /\ PlayEnded(l) \in LoadRecord
        /\ PlayEnded(l).at \in {"settle", "starting"} => PlayEnded(l).kind = "local"
        /\ PlayEnded(l).at \notin {"waiting", "playing"}
    BY <2>1 DEF PlayEnded, LoadRecord
  <2> QED  BY <2>2, <2>3 DEF LoadRecord
<1>2. AllEnded = [l \in Loads |-> AllEnded[l]]  BY DEF AllEnded, OutOfDate
<1>3. AllEnded \in [Loads -> LoadRecord]  BY <1>1, <1>2
<1> QED  BY <1>1, <1>3, SurfaceAssumption DEF LoadsOK

(* A new play is the newest.                                               *)
LEMMA Plays ==
  ASSUME LoadsOK(load, playing), NEW l \in Loads, NEW kind \in {"relay", "local"}
  PROVE  LoadsOK([AllEnded EXCEPT ![l] = [kind |-> kind, at |-> "settle",
                                          meant |-> TRUE, again |-> FALSE]], l)
<1> DEFINE new == [kind |-> kind, at |-> "settle", meant |-> TRUE, again |-> FALSE]
           E == AllEnded
<1>1. new \in LoadRecord /\ new.at = "settle"  BY DEF LoadRecord
<1>2. /\ E \in [Loads -> LoadRecord]
      /\ \A k \in Loads : E[k].at \in {"settle", "starting"} => E[k].kind = "local" /\ ~E[k].meant
      /\ \A k \in Loads : E[k].at \notin {"waiting", "playing"}
  BY Ended DEF LoadsOK
<1>3. l \in 0..MaxLoads  BY SurfaceAssumption DEF Loads
<1> HIDE DEF new, E
<1> DEFINE F == [E EXCEPT ![l] = new]
<1>4. LoadsOK(F, l)
  <2>1. F \in [Loads -> LoadRecord] /\ \A k \in Loads : F[k] = IF k = l THEN new ELSE E[k]
    BY <1>1, <1>2
  <2> HIDE DEF F
  <2>2. ASSUME NEW k \in Loads
        PROVE  /\ F[k].at \in {"settle", "starting"} => k = l \/ (F[k].kind = "local" /\ ~F[k].meant)
               /\ F[k].at \in {"waiting", "playing"} => k = l
    <3>1. CASE k = l  BY <3>1
    <3>2. CASE k # l
      <4>1. F[k] = E[k]  BY <2>1, <3>2
      <4>2. /\ E[k].at \in {"settle", "starting"} => E[k].kind = "local" /\ ~E[k].meant
            /\ E[k].at \notin {"waiting", "playing"}
        BY <1>2
      <4> QED  BY <4>1, <4>2
    <3> QED  BY <3>1, <3>2
  <2> QED  BY <1>3, <2>1, <2>2 DEF LoadsOK
<1> QED  BY <1>4 DEF E, new, F

(* One record of the loads changes, and what remembers the generation may  *)
(* be out of date.                                                         *)
LEMMA OneLoad ==
  ASSUME LoadsOK(load, playing), NEW L, L \in {load, OutOfDate(load)},
         NEW r \in LoadRecord, playing # 0
  PROVE  LoadsOK([L EXCEPT ![playing] = r], playing)
<1>1. playing \in Loads  BY SurfaceAssumption DEF LoadsOK, Loads
<1>2. L \in [Loads -> LoadRecord]
      /\ \A l \in Loads : L[l].kind = load[l].kind /\ L[l].at = load[l].at
                          /\ (L[l].meant => load[l].meant)
  <2>1. load \in [Loads -> LoadRecord]  BY DEF LoadsOK
  <2>2. CASE L = load  BY <2>1, <2>2
  <2>3. CASE L = OutOfDate(load)
    <3>1. \A l \in Loads : [load[l] EXCEPT !.meant = FALSE] \in LoadRecord
            /\ [load[l] EXCEPT !.meant = FALSE].kind = load[l].kind
            /\ [load[l] EXCEPT !.meant = FALSE].at = load[l].at
            /\ ~[load[l] EXCEPT !.meant = FALSE].meant
      BY <2>1 DEF LoadRecord
    <3> QED  BY <2>3, <3>1 DEF OutOfDate
  <2> QED  BY <2>2, <2>3
<1> QED  BY <1>1, <1>2 DEF LoadsOK

(* Plays, stops and seeks.                                                 *)
LEMMA PlaySteps ==
  ASSUME HdrInv,
         \/ \E kind \in {"relay", "local"} : StartPlay(kind)
         \/ StopPlay \/ Seek \/ Reload \/ \E l \in Loads : Again(l)
  PROVE  HdrInv'
<1>1. LoadsOK(load, playing) /\ FileLoaded(picture, load, playing) /\ PresenterOK(ctx, presenter)
      /\ torn = FALSE /\ AsksOK
  BY DEF HdrInv
<1>2. UNCHANGED <<ctx, presenter, broken, torn, failures>>
      /\ (turns' = turns \/ (turns < MaxTurns /\ turns' = turns + 1))
  BY DEF StartPlay, StopPlay, Seek, Reload, Again, surfaceVars, Turn
<1>3. turns' \in 0..MaxTurns /\ failures' \in 0..MaxFailures /\ broken' \in BOOLEAN
  BY <1>1, <1>2, SurfaceAssumption DEF AsksOK
<1>4. \A b \in BOOLEAN : [display EXCEPT !.armed = b] \in DisplayRecord
  BY <1>1 DEF AsksOK, DisplayRecord
<1>5. ASSUME Retire, LoadsOK(load', playing'), display' \in DisplayRecord,
             stale' \in BOOLEAN, asked' \in BOOLEAN, idleCheck' \in BOOLEAN
      PROVE  HdrInv'
  <2>1. FrameOK(picture', restarts', freeze') /\ ~picture'.file /\ reloading' \in BOOLEAN
    BY <1>5, Retires
  <2> QED  BY <1>1, <1>2, <1>3, <1>5, <2>1 DEF HdrInv, AsksOK, FileLoaded
<1>6. ASSUME NEW kind \in {"relay", "local"}, NEW l \in Loads, Play(kind, l)
      PROVE  /\ Retire /\ LoadsOK(load', playing') /\ display' \in DisplayRecord
             /\ idleCheck' \in BOOLEAN
  BY <1>1, <1>4, <1>6, Plays DEF Play
<1>7. ASSUME Prepare
      PROVE  Retire /\ LoadsOK(load', playing')
  <2> DEFINE O == OutOfDate(load)
             r == IF O[playing].at = "playing" THEN [O[playing] EXCEPT !.at = "settle"]
                                               ELSE [O[playing] EXCEPT !.again = TRUE]
  <2>1. Retire /\ playing # 0 /\ playing' = playing
        /\ load' = [O EXCEPT ![playing] = r]
    <3>1. Retire /\ playing # 0 /\ playing' = playing
          /\ load' = [O EXCEPT ![playing] = IF @.at = "playing" THEN [@ EXCEPT !.at = "settle"]
                                    ELSE [@ EXCEPT !.again = TRUE]]
      BY <1>7 DEF Prepare
    <3> HIDE DEF O
    <3> QED  BY <3>1
  <2>2. playing \in Loads  BY <1>1, <2>1, SurfaceAssumption DEF LoadsOK, Loads
  <2>3. O[playing] \in LoadRecord
    <3>1. load[playing] \in LoadRecord  BY <1>1, <2>2 DEF LoadsOK
    <3> QED  BY <2>2, <3>1 DEF OutOfDate, LoadRecord
  <2>4. r \in LoadRecord
    <3> HIDE DEF O
    <3> QED  BY <2>3 DEF LoadRecord
  <2> HIDE DEF O, r
  <2>5. O = OutOfDate(load)  BY DEF O
  <2> QED  BY <1>1, <2>1, <2>4, <2>5, OneLoad
<1>8. ASSUME NEW kind \in {"relay", "local"}, StartPlay(kind) PROVE HdrInv'
  BY <1>1, <1>5, <1>6, <1>8 DEF StartPlay, AsksOK
<1>9. ASSUME StopPlay PROVE HdrInv'
  <2>1. Retire /\ load' = AllEnded /\ playing' = 0 /\ display' = [display EXCEPT !.armed = FALSE]
        /\ idleCheck' = (presenter.state # "none") /\ stale' = stale /\ asked' = asked
    BY <1>9 DEF StopPlay
  <2> QED  BY <1>1, <1>4, <1>5, <2>1, Ended DEF AsksOK
<1>10. ASSUME Seek PROVE HdrInv'
  BY <1>1, <1>5, <1>7, <1>10 DEF Seek, askVars, AsksOK
<1>11. ASSUME Reload PROVE HdrInv'
  <2>1. asked' = FALSE  BY <1>11 DEF Reload
  <2>2. CASE stale' = FALSE /\ UNCHANGED <<loadVars, display, mpvVars, idleCheck>>
    BY <1>1, <1>2, <1>3, <2>1, <2>2 DEF HdrInv, AsksOK, loadVars, mpvVars
  <2>3. CASE Prepare /\ UNCHANGED <<display, idleCheck>> /\ stale' = stale
    BY <1>1, <1>5, <1>7, <2>1, <2>3 DEF AsksOK
  <2>4. CASE (\E l \in Loads : Play("local", l)) /\ stale' = stale
    BY <1>1, <1>5, <1>6, <2>1, <2>4 DEF AsksOK
  <2> QED  BY <1>11, <2>2, <2>3, <2>4 DEF Reload
<1>12. ASSUME NEW l \in Loads, Again(l) PROVE HdrInv'
  <2> DEFINE O == OutOfDate(load)
             r == [O[l] EXCEPT !.at = "settle", !.again = FALSE]
  <2>1. Retire /\ load[l].at = "playing" /\ playing' = playing
        /\ UNCHANGED <<display, stale, asked, idleCheck>>
    BY <1>12 DEF Again, LoadAt, askVars
  <2>2. load' = [O EXCEPT ![l] = r]
    <3>1. load' = [O EXCEPT ![l].at = "settle", ![l].again = FALSE]
      BY <1>12 DEF Again
    <3>2. O \in [Loads -> LoadRecord]
      <4>1. \A k \in Loads : [load[k] EXCEPT !.meant = FALSE] \in LoadRecord
        BY <1>1 DEF LoadsOK, LoadRecord
      <4> QED  BY <4>1 DEF OutOfDate
    <3> HIDE DEF O
    <3> QED  BY <3>1, <3>2 DEF LoadRecord
  <2>3. l = playing /\ playing # 0
    BY <1>1, <2>1, SurfaceAssumption DEF LoadsOK, Loads
  <2>4. r \in LoadRecord
    <3>1. load[l] \in LoadRecord  BY <1>1 DEF LoadsOK
    <3> QED  BY <3>1 DEF OutOfDate, LoadRecord
  <2> HIDE DEF O, r
  <2>5. O = OutOfDate(load)  BY DEF O
  <2>6. LoadsOK(load', playing')  BY <1>1, <2>1, <2>2, <2>3, <2>4, <2>5, OneLoad
  <2> QED  BY <1>1, <1>5, <2>1, <2>6 DEF AsksOK
<1> QED  BY <1>8, <1>9, <1>10, <1>11, <1>12

(* A file is loaded by the newest play, while mpv plays nothing: the frame *)
(* stays that of a file before, and behind the freeze.                     *)
LEMMA Loaded ==
  ASSUME HdrInv, NEW l \in Loads, l = playing, load[l].at \in {"settle", "starting"},
         NEW frame, frame \in {picture.frame, "none"},
         LoadFile(l, frame), UNCHANGED playing
  PROVE  /\ LoadsOK(load', playing') /\ FileLoaded(picture', load', playing')
         /\ FrameOK(picture', restarts', freeze') /\ reloading' \in BOOLEAN
<1>1. LoadsOK(load, playing) /\ FrameOK(picture, restarts, freeze) /\ ~picture.file
      /\ reloading \in BOOLEAN /\ playing # 0
  BY SurfaceAssumption DEF HdrInv, FileLoaded, AsksOK, Loads
<1>2. /\ picture' = [file |-> TRUE, frame |-> IF frame = "live" THEN "old" ELSE frame]
      /\ freeze' = [freeze EXCEPT !.thaws = freeze.on]
      /\ restarts' \subseteq {"older"}
  BY DEF LoadFile
<1>3. frame \in {"none", "old"} /\ (frame = "old" => freeze.on)
  BY <1>1 DEF FrameOK
<1>4. FrameOK(picture', restarts', freeze')
  BY <1>1, <1>2, <1>3 DEF FrameOK
<1>5. LoadsOK(load', playing') /\ load'[l].at \in {"waiting", "playing"} /\ reloading' \in BOOLEAN
  <2> DEFINE O == OutOfDate(load)
  <2>1. load \in [Loads -> LoadRecord]  BY <1>1 DEF LoadsOK
  <2>2. O \in [Loads -> LoadRecord]
    <3>1. \A k \in Loads : [load[k] EXCEPT !.meant = FALSE] \in LoadRecord
      BY <1>1 DEF LoadsOK, LoadRecord
    <3> QED  BY <3>1 DEF OutOfDate
  <2>3. CASE load[l].kind = "relay"
    <3>1. reloading' = FALSE /\ load' = [O EXCEPT ![l].at = "playing"]
      BY <2>3 DEF LoadFile
    <3> HIDE DEF O
    <3>2. load' = [O EXCEPT ![l] = [O[l] EXCEPT !.at = "playing"]]
          /\ [O[l] EXCEPT !.at = "playing"] \in LoadRecord
          /\ [O[l] EXCEPT !.at = "playing"].at = "playing"
      BY <2>2, <3>1 DEF LoadRecord
    <3>3. load'[l].at = "playing"  BY <2>2, <3>2
    <3>4. O = OutOfDate(load)  BY DEF O
    <3> QED  BY <1>1, <3>1, <3>2, <3>3, <3>4, OneLoad
  <2>4. CASE load[l].kind # "relay"
    <3>1. reloading' = reloading /\ load' = [load EXCEPT ![l].at = "waiting"]
      BY <2>4 DEF LoadFile
    <3>2. load' = [load EXCEPT ![l] = [load[l] EXCEPT !.at = "waiting"]]
          /\ [load[l] EXCEPT !.at = "waiting"] \in LoadRecord
          /\ [load[l] EXCEPT !.at = "waiting"].at = "waiting"
      BY <2>1, <3>1 DEF LoadRecord
    <3>3. load'[l].at = "waiting"  BY <2>1, <3>2
    <3> QED  BY <1>1, <3>1, <3>2, <3>3, OneLoad
  <2> QED  BY <2>3, <2>4
<1>6. FileLoaded(picture', load', playing')
  BY <1>1, <1>5 DEF FileLoaded
<1> QED  BY <1>4, <1>5, <1>6

(* What follows the display stays a display.                               *)
LEMMA Follows ==
  ASSUME NEW d \in DisplayRecord, NEW presents \in BOOLEAN
  PROVE  Follow(d, presents) \in DisplayRecord
<1>1. (Awaited(d) /\ (presents \/ d.armed)) \in BOOLEAN  OBVIOUS
<1> DEFINE b == Awaited(d) /\ (presents \/ d.armed)
<1>2. Follow(d, presents) = [d EXCEPT !.armed = b]  BY DEF Follow
<1> HIDE DEF b
<1>3. b \in BOOLEAN  BY <1>1 DEF b
<1> QED  BY <1>2, <1>3 DEF DisplayRecord

(* A load decides on a surface and moves the context while mpv plays       *)
(* nothing.                                                                *)
LEMMA LoadingSteps ==
  ASSUME HdrInv, NEW l \in Loads,
         DecideWidget(l) \/ DecideStay(l) \/ DecideStart(l) \/ Move(l) \/ MoveFails(l)
  PROVE  HdrInv'
<1>1. LoadsOK(load, playing) /\ FileLoaded(picture, load, playing) /\ PresenterOK(ctx, presenter)
      /\ FrameOK(picture, restarts, freeze) /\ torn = FALSE /\ AsksOK
  BY DEF HdrInv
<1>2. /\ load[l].at \in {"settle", "starting"} /\ (load[l].kind = "relay" \/ load[l].meant)
      /\ UNCHANGED <<turns, failures, playing, asked, idleCheck>>
      /\ stale' \in BOOLEAN
  BY <1>1 DEF DecideWidget, DecideStay, DecideStart, Move, MoveFails, Settled, Starting, LoadAt,
              Meant, AsksOK
<1>3. l = playing  BY <1>1, <1>2 DEF LoadsOK
<1>4. ~picture.file  BY <1>1, <1>2, <1>3 DEF FileLoaded
<1>5. Freed => torn' = FALSE  BY <1>1, <1>4 DEF Freed
<1>6. ToWidget => torn' = FALSE /\ ctx' = "widget"  BY <1>1, <1>5 DEF ToWidget
<1>7. FrameKept \in {picture.frame, "none"}  BY DEF FrameKept
<1>8. \A presents \in BOOLEAN : Follow(display, presents) \in DisplayRecord
  BY <1>1, Follows DEF AsksOK
<1>9. ASSUME NEW frame, frame \in {picture.frame, "none"}, LoadFile(l, frame),
             PresenterOK(ctx', presenter'), torn' = FALSE, broken' \in BOOLEAN,
             display' \in DisplayRecord
      PROVE  HdrInv'
  <2>1. /\ LoadsOK(load', playing') /\ FileLoaded(picture', load', playing')
        /\ FrameOK(picture', restarts', freeze') /\ reloading' \in BOOLEAN
    BY <1>2, <1>3, <1>9, Loaded
  <2> QED  BY <1>1, <1>2, <1>9, <2>1 DEF HdrInv, AsksOK
<1>10. ASSUME DecideWidget(l) PROVE HdrInv'
  <2>1. /\ LoadFile(l, FrameKept) /\ broken' = broken /\ display' = Follow(display, FALSE)
        /\ ToWidget
        /\ presenter' \in {[state |-> "starting", visible |-> FALSE],
                           [presenter EXCEPT !.visible = FALSE]}
    BY <1>10 DEF DecideWidget
  <2>2. PresenterOK(ctx', presenter')
    <3>1. ctx' = "widget"  BY <1>6, <2>1
    <3>2. CASE presenter' = [state |-> "starting", visible |-> FALSE]
      BY <3>1, <3>2 DEF PresenterOK
    <3>3. CASE presenter' = [presenter EXCEPT !.visible = FALSE]
      BY <1>1, <3>1, <3>3 DEF PresenterOK
    <3> QED  BY <2>1, <3>2, <3>3
  <2> QED  BY <1>1, <1>6, <1>7, <1>8, <1>9, <2>1, <2>2 DEF AsksOK
<1>11. ASSUME DecideStay(l) PROVE HdrInv'
  <2>1. /\ LoadFile(l, picture.frame) /\ UNCHANGED <<ctx, presenter, broken, torn>>
        /\ display' = Follow(display, TRUE)
    BY <1>11 DEF DecideStay, surfaceVars
  <2> QED  BY <1>1, <1>8, <1>9, <2>1 DEF AsksOK
<1>12. ASSUME DecideStart(l) PROVE HdrInv'
  <2>1. /\ ToWidget /\ picture' = [picture EXCEPT !.frame = FrameKept]
        /\ presenter' \in {[state |-> "ready", visible |-> TRUE],
                           [state |-> "starting", visible |-> TRUE]}
        /\ load' = [load EXCEPT ![l].at = "starting", ![l].meant = TRUE]
        /\ UNCHANGED <<reloading, broken, display, freeze, restarts>>
    BY <1>12 DEF DecideStart
  <2>2. PresenterOK(ctx', presenter')
    <3>1. ctx' = "widget"  BY <1>6, <2>1
    <3>2. CASE presenter' = [state |-> "ready", visible |-> TRUE]  BY <3>1, <3>2 DEF PresenterOK
    <3>3. CASE presenter' = [state |-> "starting", visible |-> TRUE]
      BY <3>1, <3>3 DEF PresenterOK
    <3> QED  BY <2>1, <3>2, <3>3
  <2>3. LoadsOK(load', playing')
    <3>1. load \in [Loads -> LoadRecord] /\ playing # 0
      BY <1>1, <1>3, SurfaceAssumption DEF LoadsOK, Loads
    <3>2. load' = [load EXCEPT ![l] = [load[l] EXCEPT !.at = "starting", !.meant = TRUE]]
          /\ [load[l] EXCEPT !.at = "starting", !.meant = TRUE] \in LoadRecord
      BY <2>1, <3>1 DEF LoadRecord
    <3> QED  BY <1>1, <1>2, <1>3, <3>1, <3>2, OneLoad
  <2>4. FrameOK(picture', restarts', freeze') /\ ~picture'.file
    <3>1. picture' \in [file : BOOLEAN, frame : {"none", "live", "old"}] /\ ~picture'.file
          /\ picture'.frame \in {picture.frame, "none"}
      BY <1>1, <1>4, <1>7, <2>1 DEF FrameOK
    <3> QED  BY <1>1, <1>4, <2>1, <3>1 DEF FrameOK
  <2> QED  BY <1>1, <1>2, <1>6, <2>1, <2>2, <2>3, <2>4 DEF HdrInv, AsksOK, FileLoaded
<1>13. ASSUME Move(l) PROVE HdrInv'
  <2>1. /\ LoadFile(l, "none") /\ UNCHANGED <<presenter, broken>> /\ Freed
        /\ display' = Follow(display, TRUE) /\ ctx' = "presenter" /\ presenter.state = "ready"
    BY <1>13 DEF Move
  <2>2. PresenterOK(ctx', presenter')  BY <1>1, <2>1 DEF PresenterOK
  <2> QED  BY <1>1, <1>5, <1>8, <1>9, <2>1, <2>2 DEF AsksOK
<1>14. ASSUME MoveFails(l) PROVE HdrInv'
  <2>1. /\ LoadFile(l, FrameKept) /\ broken' = (broken \/ display.shown)
        /\ display' = Follow(display, FALSE)
        /\ ToWidget /\ presenter' = [presenter EXCEPT !.visible = FALSE]
    BY <1>14 DEF MoveFails
  <2>2. PresenterOK(ctx', presenter')  BY <1>1, <1>6, <2>1 DEF PresenterOK
  <2>3. broken' \in BOOLEAN  BY <2>1
  <2> QED  BY <1>6, <1>7, <1>8, <1>9, <2>1, <2>2, <2>3
<1> QED  BY <1>10, <1>11, <1>12, <1>13, <1>14

(* A load that was replaced ends, or loads where the context is; a local   *)
(* file plays.                                                             *)
LEMMA LateSteps ==
  ASSUME HdrInv, NEW l \in Loads, Superseded(l) \/ LocalReady(l)
  PROVE  HdrInv'
<1>1. LoadsOK(load, playing) /\ FileLoaded(picture, load, playing) /\ PresenterOK(ctx, presenter)
      /\ FrameOK(picture, restarts, freeze) /\ torn = FALSE /\ AsksOK
  BY DEF HdrInv
<1>2. UNCHANGED <<turns, failures, playing, stale, asked, idleCheck, ctx, presenter, broken, torn,
                  display>>
  BY DEF Superseded, LocalReady, Starting, surfaceVars, askVars
<1>3. load \in [Loads -> LoadRecord] /\ load[l] \in LoadRecord  BY <1>1 DEF LoadsOK
<1>4. ASSUME load' = [load EXCEPT ![l].at = "gone"], load[l].at \in {"settle", "starting"},
             UNCHANGED <<reloading, picture, freeze, restarts>>
      PROVE  HdrInv'
  <2>1. load' \in [Loads -> LoadRecord]
        /\ \A k \in Loads : load'[k].kind = load[k].kind /\ load'[k].meant = load[k].meant
                            /\ (load'[k].at = load[k].at \/ (k = l /\ load'[k].at = "gone"))
    BY <1>3, <1>4 DEF LoadRecord
  <2>2. LoadsOK(load', playing')  BY <1>1, <1>2, <2>1 DEF LoadsOK
  <2>3. FileLoaded(picture', load', playing')
    <3> SUFFICES ASSUME picture.file PROVE playing # 0 /\ load'[playing].at \in {"waiting", "playing"}
      BY <1>2, <1>4 DEF FileLoaded
    <3>1. playing # 0 /\ load[playing].at \in {"waiting", "playing"} /\ playing \in Loads
      BY <1>1, SurfaceAssumption DEF FileLoaded, LoadsOK, Loads
    <3> QED  BY <1>4, <2>1, <3>1
  <2> QED  BY <1>1, <1>2, <1>4, <2>2, <2>3 DEF HdrInv, AsksOK
<1>5. CASE load[l].at = "settle" /\ Superseded(l)
  BY <1>4, <1>5 DEF Superseded, Starting, LoadAt
<1>6. CASE load[l].at = "starting" /\ Superseded(l) /\ load[l].kind = "local"
  BY <1>4, <1>6 DEF Superseded, LoadAt
<1>7. CASE load[l].at = "starting" /\ Superseded(l) /\ load[l].kind # "local"
  <2>1. LoadFile(l, picture.frame)  BY <1>7 DEF Superseded, LoadAt
  <2>2. l = playing  BY <1>1, <1>7 DEF LoadsOK
  <2>3. /\ LoadsOK(load', playing') /\ FileLoaded(picture', load', playing')
        /\ FrameOK(picture', restarts', freeze') /\ reloading' \in BOOLEAN
    BY <1>2, <1>7, <2>1, <2>2, Loaded
  <2> QED  BY <1>1, <1>2, <2>3 DEF HdrInv, AsksOK
<1>8. CASE LocalReady(l)
  <2>1. load[l].at = "waiting" /\ load' = [load EXCEPT ![l].at = "playing"] /\ reloading' = FALSE
        /\ UNCHANGED <<picture, restarts, freeze>>
    BY <1>8 DEF LocalReady, LoadAt, mpvVars
  <2>2. l = playing /\ playing # 0
    BY <1>1, <2>1, SurfaceAssumption DEF LoadsOK, Loads
  <2>3. load' = [load EXCEPT ![l] = [load[l] EXCEPT !.at = "playing"]]
        /\ [load[l] EXCEPT !.at = "playing"] \in LoadRecord
    BY <1>3, <2>1 DEF LoadRecord
  <2>4. LoadsOK(load', playing')  BY <1>1, <1>2, <2>2, <2>3, OneLoad
  <2>5. load'[l].at = "playing"  BY <1>3, <2>1
  <2> QED  BY <1>1, <1>2, <2>1, <2>2, <2>4, <2>5 DEF HdrInv, AsksOK, FileLoaded
<1> QED  BY <1>5, <1>6, <1>7, <1>8 DEF Superseded, Starting, LoadAt

(* mpv's frames and restarts.                                              *)
LEMMA FrameSteps ==
  ASSUME HdrInv, TakeFrame \/ Restarted
  PROVE  HdrInv'
<1>1. FrameOK(picture, restarts, freeze)  BY DEF HdrInv
<1>2. UNCHANGED <<loadVars, surfaceVars, askVars, display, turns, failures>>
      /\ picture'.file = picture.file
  BY <1>1 DEF TakeFrame, Restarted, FrameOK
<1>3. CASE TakeFrame
  <2>1. picture' = [picture EXCEPT !.frame = "live"] /\ restarts' = restarts \cup {"this"}
        /\ freeze' = freeze /\ picture.file
    BY <1>3 DEF TakeFrame
  <2>2. FrameOK(picture', restarts', freeze')  BY <1>1, <2>1 DEF FrameOK
  <2> QED  BY <1>2, <2>2 DEF HdrInv, FileLoaded, AsksOK, loadVars, surfaceVars, askVars
<1>4. CASE Restarted
  <2>1. PICK r \in restarts :
          /\ restarts' = restarts \ {r} /\ picture' = picture
          /\ freeze' = [freeze EXCEPT !.on = @ /\ ~(freeze.thaws /\ r = "this")]
    BY <1>4 DEF Restarted
  <2>2. freeze' \in [on : BOOLEAN, thaws : BOOLEAN] /\ (freeze.on /\ r # "this" => freeze'.on)
    BY <1>1, <2>1 DEF FrameOK
  <2>3. FrameOK(picture', restarts', freeze')  BY <1>1, <2>1, <2>2 DEF FrameOK
  <2> QED  BY <1>2, <2>3 DEF HdrInv, FileLoaded, AsksOK, loadVars, surfaceVars, askVars
<1> QED  BY <1>3, <1>4

(* The display and the HDR surface change, and the player checks whether   *)
(* they fit.                                                               *)
LEMMA DisplaySteps ==
  ASSUME HdrInv,
         Exposed \/ PresenterFails \/ Tick \/ Change \/ Switch \/ Setting \/ ReleaseIdle
  PROVE  HdrInv'
<1>1. LoadsOK(load, playing) /\ FileLoaded(picture, load, playing) /\ PresenterOK(ctx, presenter)
      /\ FrameOK(picture, restarts, freeze) /\ torn = FALSE /\ AsksOK
  BY DEF HdrInv
<1>2. UNCHANGED <<load, playing, reloading, restarts, freeze>>
  BY DEF Exposed, PresenterFails, Tick, Change, Switch, Setting, ReleaseIdle, loadVars, mpvVars
<1>3. turns' \in 0..MaxTurns /\ failures' \in 0..MaxFailures /\ idleCheck' \in BOOLEAN
  <2>1. /\ turns' = turns \/ (turns < MaxTurns /\ turns' = turns + 1)
        /\ failures' = failures \/ (failures < MaxFailures /\ failures' = failures + 1)
        /\ idleCheck' \in {idleCheck, FALSE}
    BY DEF Exposed, PresenterFails, Tick, Change, Switch, Setting, ReleaseIdle, Turn, askVars
  <2>2. turns' \in 0..MaxTurns  BY <1>1, <2>1, SurfaceAssumption DEF AsksOK
  <2>3. failures' \in 0..MaxFailures  BY <1>1, <2>1, SurfaceAssumption DEF AsksOK
  <2> QED  BY <1>1, <2>1, <2>2, <2>3 DEF AsksOK
<1>4. ASSUME NEW d \in DisplayRecord, NEW gaveUp \in BOOLEAN, CheckHdrSurface(d, gaveUp)
      PROVE  display' \in DisplayRecord /\ stale' \in BOOLEAN /\ asked' \in BOOLEAN
  <2> DEFINE seen == IF gaveUp THEN [d EXCEPT !.refused = TRUE] ELSE d
  <2>1. seen \in DisplayRecord /\ [d EXCEPT !.armed = FALSE] \in DisplayRecord
    BY DEF DisplayRecord
  <2>2. OnPresenter \in BOOLEAN  BY DEF OnPresenter
  <2>3. Follow(seen, OnPresenter) \in DisplayRecord  BY <2>1, <2>2, Follows
  <2>4. display' \in {d, [d EXCEPT !.armed = FALSE], Follow(seen, OnPresenter)}
    BY <1>4 DEF CheckHdrSurface
  <2>5. stale' \in BOOLEAN /\ asked' \in BOOLEAN
    BY <1>4 DEF CheckHdrSurface
  <2> QED  BY <2>1, <2>3, <2>4, <2>5
<1>5. ASSUME PresenterOK(ctx', presenter'), torn' = FALSE, picture' = picture,
             display' \in DisplayRecord, stale' \in BOOLEAN, asked' \in BOOLEAN,
             broken' \in BOOLEAN
      PROVE  HdrInv'
  BY <1>1, <1>2, <1>3, <1>5 DEF HdrInv, AsksOK
<1>6. display \in DisplayRecord /\ stale \in BOOLEAN /\ asked \in BOOLEAN /\ broken \in BOOLEAN
  BY <1>1 DEF AsksOK
<1>7. CASE Exposed
  <2>1. PresenterOK(ctx', presenter')  BY <1>1, <1>7 DEF Exposed, PresenterOK
  <2> QED  BY <1>1, <1>5, <1>6, <1>7, <2>1 DEF Exposed, askVars, mpvVars
<1>8. CASE PresenterFails
  <2>1. PresenterOK(ctx', presenter')  BY <1>1, <1>8 DEF PresenterFails, PresenterOK
  <2>2. stale' \in BOOLEAN /\ asked' \in BOOLEAN  BY <1>8 DEF PresenterFails
  <2> QED  BY <1>1, <1>5, <1>6, <1>8, <2>1, <2>2 DEF PresenterFails, askVars, mpvVars
<1>9. CASE Tick
  <2>1. \E gaveUp \in BOOLEAN : CheckHdrSurface(display, gaveUp)  BY <1>9 DEF Tick
  <2> QED  BY <1>1, <1>4, <1>5, <1>6, <1>9, <2>1 DEF Tick, surfaceVars, mpvVars
<1>10. CASE Change
  <2>1. [display EXCEPT !.shown = ~@] \in DisplayRecord
        /\ [display EXCEPT !.own = ~@, !.hdr = ~display.own] \in DisplayRecord
        /\ [display EXCEPT !.full = ~@, !.hdr = IF display.full THEN display.own ELSE @]
             \in DisplayRecord
    BY <1>6 DEF DisplayRecord
  <2>2. UNCHANGED <<ctx, presenter, broken, torn, picture>>
    BY <1>10 DEF Change, surfaceVars, mpvVars
  <2>3. display' \in DisplayRecord /\ stale' \in BOOLEAN /\ asked' \in BOOLEAN
    BY <1>4, <1>6, <1>10, <2>1 DEF Change
  <2> QED  BY <1>1, <1>5, <1>6, <2>2, <2>3
<1>11. CASE Switch
  <2>1. [display EXCEPT !.hdr = TRUE] \in DisplayRecord  BY <1>6 DEF DisplayRecord
  <2> QED  BY <1>1, <1>5, <1>6, <1>11, <2>1 DEF Switch, surfaceVars, askVars, mpvVars
<1>12. CASE Setting
  <2>1. display' \in DisplayRecord
    BY <1>6, <1>12 DEF Setting, DisplayRecord
  <2>2. stale' \in BOOLEAN /\ asked' \in BOOLEAN  BY <1>12 DEF Setting
  <2> QED  BY <1>1, <1>5, <1>6, <1>12, <2>1, <2>2 DEF Setting, mpvVars
<1>13. CASE ReleaseIdle
  <2>1. UNCHANGED <<broken, stale, asked, display>>  BY <1>13 DEF ReleaseIdle
  <2>2. CASE UNCHANGED <<ctx, torn, presenter, picture>>
    BY <1>1, <1>5, <1>6, <2>1, <2>2
  <2>3. CASE ~UNCHANGED <<ctx, torn, presenter, picture>>
    <3>1. playing = 0 /\ ToWidget /\ presenter' = [presenter EXCEPT !.visible = FALSE]
          /\ picture' = [picture EXCEPT !.frame = FrameKept]
      BY <1>13, <2>3 DEF ReleaseIdle
    <3>2. ~picture.file /\ ctx' = "widget" /\ torn' = FALSE
      BY <1>1, <3>1 DEF FileLoaded, ToWidget, Freed
    <3>3. PresenterOK(ctx', presenter')  BY <1>1, <3>1, <3>2 DEF PresenterOK
    <3>4. FrameOK(picture', restarts', freeze') /\ ~picture'.file
      <4>1. FrameKept \in {picture.frame, "none"}  BY DEF FrameKept
      <4> QED  BY <1>1, <1>2, <3>1, <3>2, <4>1 DEF FrameOK
    <3> QED  BY <1>1, <1>2, <1>3, <1>6, <2>1, <3>2, <3>3, <3>4 DEF HdrInv, AsksOK, FileLoaded
  <2> QED  BY <2>2, <2>3
<1> QED  BY <1>7, <1>8, <1>9, <1>10, <1>11, <1>12, <1>13

(* The surface keeps the invariant.                                        *)
THEOREM SurfaceInvariant == SurfaceSpec => []HdrInv
<1>1. HdrInv /\ UNCHANGED hdrVars => HdrInv'
  BY DEF HdrInv, hdrVars, loadVars, surfaceVars, askVars, mpvVars, AsksOK
<1>2. HdrInv /\ SurfaceNext => HdrInv'
  BY PlaySteps, LoadingSteps, LateSteps, FrameSteps, DisplaySteps DEF SurfaceNext, Loading
<1> QED  BY <1>1, <1>2, SurfaceBegins, PTL DEF SurfaceSpec

(* The context moves only while nothing plays, to a surface that is there, *)
(* and no frame of a stopped decoder is drawn, for any number of plays,    *)
(* turns and failures (SurfaceSafe).                                       *)
THEOREM SurfaceStaysSafe == SurfaceSpec => []SurfaceSafe
<1>1. HdrInv => SurfaceSafe
  BY DEF HdrInv, FrameOK, PresenterOK, SurfaceSafe, OnPresenter
<1> QED  BY <1>1, SurfaceInvariant, PTL

-----------------------------------------------------------------------------
(* Pause and position (PlayerControls).                                    *)

WindowRecord == [paused : BOOLEAN, session : {"none", "relay", "local"},
                 doing : {"none", "open", "restart", "fallback", "stop", "load", "play"}]
PlayerRecord == [caller : BOOLEAN, released : BOOLEAN, reloading : BOOLEAN,
                 loaded : BOOLEAN, ready : BOOLEAN]
PlaceRecord == [shown : Spot \cup {0}, pending : Spot \cup {0}, late : BOOLEAN, stable : BOOLEAN]

TaskKind == {"toggle", "pause", "resume"}

(* At most one click and one adoption wait.                                *)
Waits ==
  {<<>>, <<"toggle">>} \cup {<<k>> : k \in Adoption} \cup {<<"toggle", k>> : k \in Adoption}
    \cup {<<k, "toggle">> : k \in Adoption}

(* The window agrees with the player, or an adoption on its way will make  *)
(* it agree: one behind a click is the other way round.                    *)
Agrees(w, c, q) ==
  /\ q \in {<<>>, <<"toggle">>} => w = c
  /\ \A k \in Adoption :
       /\ q \in {<<k>>, <<k, "toggle">>, <<"toggle", k>>} => c = (k = "pause")
       /\ q = <<"toggle", k>> => w # c
Steady(win) == win.session # "none" /\ win.doing \in {"none", "load"}

(* The last report on its way is of mpv's pause, and one is on its way     *)
(* while mpv's pause is not the player's.                                  *)
Reported(c, u) == c.pause = IF u = <<>> THEN c.seen ELSE u[Len(u)]
Followed(p, c, u, n) ==
  p.released /\ ~p.reloading /\ u = <<>> /\ n = 0 => c.seen = p.caller

(* A place that the player is sure of is one in the video; while it loads, *)
(* it is sure of none.                                                     *)
Sure(w, win) ==
  /\ win.doing = "none" /\ w.stable /\ w.pending = 0 => w.shown # 0
  /\ win.doing \in {"load", "play"} => ~w.stable

(* Which loads a transition allows.                                        *)
LoadPlaced(p, win, a) ==
  /\ p.ready => p.loaded
  /\ p.released => p.loaded /\ a # 0
  /\ win.doing = "load" => p.reloading /\ win.session = "local"
  /\ win.doing = "play" => ~p.loaded /\ win.session = "none"

ControlInv ==
  /\ window \in WindowRecord /\ player \in PlayerRecord /\ where \in PlaceRecord
  /\ core \in [pause : BOOLEAN, seen : BOOLEAN] /\ unread \in Seq(BOOLEAN)
  /\ told \in {"none", "play", "pause"} /\ signals \in Nat /\ inputs \in 0..MaxInputs
  /\ at \in Spot \cup {0} /\ history \in Spot
  /\ tasks \in Waits
  /\ Steady(window) => Agrees(window.paused, player.caller, tasks)
  /\ window.session = "relay" /\ window.doing = "none" /\ ~window.paused => told = "play"
  /\ Reported(core, unread) /\ Followed(player, core, unread, signals)
  /\ Sure(where, window) /\ LoadPlaced(player, window, at)

(* The element appended is the last one.                                   *)
LEMMA LastAppended ==
  ASSUME NEW S, NEW s \in Seq(S), NEW b \in S, NEW n \in Nat, n = Len(s) + 1
  PROVE  Append(s, b)[n] = b
<1>1. Append(s, b)[Len(s) + 1] = b
  BY AppendProperties
<1> QED  BY <1>1

(* A tuple of one becomes one of two.                                      *)
LEMMA SingleAppended ==
  ASSUME NEW S, NEW s \in Seq(S), NEW b \in S, Len(s) = 1
  PROVE  /\ Append(s, b) \in Seq(S) /\ Len(Append(s, b)) = 2
         /\ Append(s, b)[1] = s[1] /\ Append(s, b)[2] = b
<1>1. Append(s, b) \in Seq(S) /\ Len(Append(s, b)) = Len(s) + 1
  BY AppendProperties
<1>2. Append(s, b)[1] = s[1]
  <2>1. 1 \in 1..Len(s)
    OBVIOUS
  <2> QED  BY <2>1, AppendProperties
<1>3. Append(s, b)[Len(s) + 1] = b /\ Len(s) + 1 = 2
  BY AppendProperties
<1>4. Append(s, b)[2] = b
  BY <1>3
<1> QED  BY <1>1, <1>2, <1>4

(* Pairs are equal by their elements.                                      *)
LEMMA TwoAlike ==
  ASSUME NEW S, NEW s \in Seq(S), NEW t \in Seq(S), Len(s) = 2, Len(t) = 2,
         s[1] = t[1], s[2] = t[2]
  PROVE  s = t
<1>1. \A i \in 1..Len(s) : i = 1 \/ i = 2
  OBVIOUS
<1>2. \A i \in 1..Len(s) : s[i] = t[i]
  BY <1>1, Zenon
<1> QED  BY <1>2, SeqEqual

(* A tuple of one, with one more.                                          *)
LEMMA AppendPair ==
  ASSUME NEW S, NEW a \in S, NEW b \in S
  PROVE  Append(<<a>>, b) = <<a, b>>
<1>1. <<a>> \in Seq(S) /\ Len(<<a>>) = 1 /\ <<a>>[1] = a
  OBVIOUS
<1>2. <<a, b>> \in Seq(S) /\ Len(<<a, b>>) = 2 /\ <<a, b>>[1] = a /\ <<a, b>>[2] = b
  OBVIOUS
<1>3. Append(<<a>>, b) \in Seq(S) /\ Len(Append(<<a>>, b)) = 2
      /\ Append(<<a>>, b)[1] = <<a>>[1] /\ Append(<<a>>, b)[2] = b
  <2>1. <<a>> \in Seq(S) /\ Len(<<a>>) = 1  BY <1>1
  <2> QED  BY <2>1, SingleAppended
<1> QED  BY <1>1, <1>2, <1>3, TwoAlike, Zenon

(* What waits, with one more click or adoption.                            *)
LEMMA OneMoreWaits ==
  ASSUME tasks \in Waits, NEW w \in BOOLEAN, NEW c \in BOOLEAN, NEW d \in BOOLEAN
  PROVE  /\ NoneWaits({"toggle"}) =>
              /\ Append(tasks, "toggle") \in Waits
              /\ Agrees(w, c, tasks) => Agrees(w, c, Append(tasks, "toggle"))
         /\ NoneWaits(Adoption) =>
              \A k \in Adoption :
                /\ Append(tasks, k) \in Waits
                /\ Agrees(w, c, tasks) /\ d = (k = "pause") /\ c # d =>
                     Agrees(w, d, Append(tasks, k))
<1>1. ASSUME NoneWaits({"toggle"})
      PROVE  /\ Append(tasks, "toggle") \in Waits
             /\ Agrees(w, c, tasks) => Agrees(w, c, Append(tasks, "toggle"))
  <2>1. tasks = <<>> \/ \E k \in Adoption : tasks = <<k>>
    <3>1. tasks # <<"toggle">> /\ \A k \in Adoption : tasks # <<"toggle", k>> /\ tasks # <<k, "toggle">>
      BY <1>1 DEF NoneWaits
    <3> QED  BY <3>1 DEF Waits
  <2>2. CASE tasks = <<>>
    <3>1. Append(tasks, "toggle") = <<"toggle">>  BY <2>2
    <3> QED  BY <2>2, <3>1 DEF Waits, Agrees, Adoption
  <2>3. ASSUME NEW k \in Adoption, tasks = <<k>>
        PROVE  /\ Append(tasks, "toggle") \in Waits
               /\ Agrees(w, c, tasks) => Agrees(w, c, Append(tasks, "toggle"))
    <3>1. k \in TaskKind /\ "toggle" \in TaskKind  BY DEF TaskKind, Adoption
    <3>2. Append(<<k>>, "toggle") = <<k, "toggle">>  BY <3>1, AppendPair, Zenon
    <3>3. Append(tasks, "toggle") = <<k, "toggle">>  BY <2>3, <3>2, Zenon
    <3> QED  BY <2>3, <3>3 DEF Waits, Agrees, Adoption
  <2> QED  BY <2>1, <2>2, <2>3
<1>2. ASSUME NoneWaits(Adoption), NEW k \in Adoption
      PROVE  /\ Append(tasks, k) \in Waits
             /\ Agrees(w, c, tasks) /\ d = (k = "pause") /\ c # d => Agrees(w, d, Append(tasks, k))
  <2>1. tasks = <<>> \/ tasks = <<"toggle">>
    <3>1. \A j \in Adoption : tasks # <<j>> /\ tasks # <<"toggle", j>> /\ tasks # <<j, "toggle">>
      BY <1>2 DEF NoneWaits
    <3> QED  BY <3>1 DEF Waits
  <2>2. CASE tasks = <<>>
    <3>1. Append(tasks, k) = <<k>>  BY <2>2
    <3> QED  BY <2>2, <3>1 DEF Waits, Agrees, Adoption
  <2>3. CASE tasks = <<"toggle">>
    <3>1. k \in TaskKind /\ "toggle" \in TaskKind  BY <1>2 DEF TaskKind, Adoption
    <3>2. Append(<<"toggle">>, k) = <<"toggle", k>>  BY <3>1, AppendPair, Zenon
    <3>3. Append(tasks, k) = <<"toggle", k>>  BY <2>3, <3>2, Zenon
    <3> QED  BY <1>2, <2>3, <3>3 DEF Waits, Agrees, Adoption
  <2> QED  BY <2>1, <2>2, <2>3
<1> QED  BY <1>1, <1>2

(* What waits, after a click or an adoption has run.                       *)
LEMMA OneLessWaits ==
  ASSUME tasks \in Waits, tasks # <<>>, NEW w \in BOOLEAN, NEW c \in BOOLEAN
  PROVE  /\ Tail(tasks) \in Waits
         /\ Head(tasks) = "toggle" /\ Agrees(w, c, tasks) => Agrees(~w, ~w, Tail(tasks))
         /\ Head(tasks) \in Adoption /\ Agrees(w, c, tasks) =>
              Agrees(Head(tasks) = "pause", c, Tail(tasks))
<1>1. CASE tasks = <<"toggle">>
  <2>1. Tail(tasks) = <<>> /\ Head(tasks) = "toggle"  BY <1>1
  <2> QED  BY <2>1 DEF Waits, Agrees, Adoption
<1>2. ASSUME NEW k \in Adoption, tasks = <<k>>
      PROVE  /\ Tail(tasks) \in Waits
             /\ Head(tasks) = "toggle" /\ Agrees(w, c, tasks) => Agrees(~w, ~w, Tail(tasks))
             /\ Head(tasks) \in Adoption /\ Agrees(w, c, tasks) =>
                  Agrees(Head(tasks) = "pause", c, Tail(tasks))
  <2>1. Tail(tasks) = <<>> /\ Head(tasks) = k  BY <1>2
  <2> QED  BY <1>2, <2>1 DEF Waits, Agrees, Adoption
<1>3. ASSUME NEW k \in Adoption, tasks = <<"toggle", k>>
      PROVE  /\ Tail(tasks) \in Waits
             /\ Head(tasks) = "toggle" /\ Agrees(w, c, tasks) => Agrees(~w, ~w, Tail(tasks))
             /\ Head(tasks) \in Adoption /\ Agrees(w, c, tasks) =>
                  Agrees(Head(tasks) = "pause", c, Tail(tasks))
  <2>1. Tail(tasks) = <<k>> /\ Head(tasks) = "toggle"  BY <1>3
  <2> QED  BY <1>3, <2>1 DEF Waits, Agrees, Adoption
<1>4. ASSUME NEW k \in Adoption, tasks = <<k, "toggle">>
      PROVE  /\ Tail(tasks) \in Waits
             /\ Head(tasks) = "toggle" /\ Agrees(w, c, tasks) => Agrees(~w, ~w, Tail(tasks))
             /\ Head(tasks) \in Adoption /\ Agrees(w, c, tasks) =>
                  Agrees(Head(tasks) = "pause", c, Tail(tasks))
  <2>1. Tail(tasks) = <<"toggle">> /\ Head(tasks) = k  BY <1>4
  <2> QED  BY <1>4, <2>1 DEF Waits, Agrees, Adoption
<1> QED  BY <1>1, <1>2, <1>3, <1>4 DEF Waits

(* A write of mpv's pause is reported, unless it changes nothing.          *)
LEMMA PausesCore ==
  ASSUME ControlInv, NEW p \in BOOLEAN, PauseCore(p)
  PROVE  /\ core' \in [pause : BOOLEAN, seen : BOOLEAN] /\ unread' \in Seq(BOOLEAN)
         /\ Reported(core', unread')
         /\ unread' = <<>> => unread = <<>> /\ core'.seen = p /\ core.seen = p
<1>1. core \in [pause : BOOLEAN, seen : BOOLEAN] /\ unread \in Seq(BOOLEAN)
      /\ Reported(core, unread)
  BY DEF ControlInv
<1>2. core' = [core EXCEPT !.pause = p]
      /\ unread' = (IF p = core.pause THEN unread ELSE Append(unread, p))
  BY DEF PauseCore
<1>3. core' \in [pause : BOOLEAN, seen : BOOLEAN] /\ core'.pause = p /\ core'.seen = core.seen
  BY <1>1, <1>2
<1>4. CASE p = core.pause
  BY <1>1, <1>2, <1>3, <1>4 DEF Reported
<1>5. CASE p # core.pause
  <2>1. unread' = Append(unread, p)  BY <1>2, <1>5
  <2>2. unread' \in Seq(BOOLEAN) /\ unread' # <<>> /\ unread'[Len(unread')] = p
    BY <1>1, <2>1
  <2> QED  BY <1>3, <2>2 DEF Reported
<1> QED  BY <1>4, <1>5

(* Nothing plays at first.                                                 *)
LEMMA ControlsBegin == ControlInit => ControlInv
<1> SUFFICES ASSUME ControlInit PROVE ControlInv
  OBVIOUS
<1>1. window \in WindowRecord /\ player \in PlayerRecord /\ where \in PlaceRecord
  BY DEF ControlInit, WindowRecord, PlayerRecord, PlaceRecord
<1>2. core \in [pause : BOOLEAN, seen : BOOLEAN] /\ unread \in Seq(BOOLEAN) /\ inputs \in 0..MaxInputs
      /\ tasks \in Waits
  BY ControlAssumption DEF ControlInit, Waits
<1>3. Reported(core, unread) /\ Followed(player, core, unread, signals)
  BY DEF ControlInit, Reported, Followed
<1>4. Sure(where, window) /\ LoadPlaced(player, window, at) /\ ~Steady(window)
  BY DEF ControlInit, Sure, LoadPlaced, Steady
<1> QED  BY <1>1, <1>2, <1>3, <1>4 DEF ControlInv, ControlInit

(* A step within pause, position or loading that leaves the transition     *)
(* and the session alone.                                                  *)
LEMMA ControlKept ==
  ASSUME ControlInv,
         window' \in WindowRecord, window'.session = window.session, window'.doing = window.doing,
         player' \in PlayerRecord, where' = where,
         core' \in [pause : BOOLEAN, seen : BOOLEAN], unread' \in Seq(BOOLEAN),
         told' \in {"none", "play", "pause"}, signals' \in Nat, inputs' \in 0..MaxInputs,
         player'.ready = player.ready, player'.loaded = player.loaded,
         player'.released = player.released, player'.reloading = player.reloading,
         UNCHANGED <<at, history>>,
         tasks' \in Waits, Steady(window) => Agrees(window'.paused, player'.caller, tasks'),
         window.session = "relay" /\ window.doing = "none" /\ ~window'.paused => told' = "play",
         Reported(core', unread'), Followed(player', core', unread', signals')
  PROVE  ControlInv'
<1>1. Sure(where', window') /\ LoadPlaced(player', window', at')
  BY DEF ControlInv, Sure, LoadPlaced
<1>2. Steady(window') = Steady(window)
  BY DEF Steady
<1> QED  BY <1>1, <1>2 DEF ControlInv

(* Clicks, keys of mpv's own and their reports.                            *)
LEMMA ReportSteps ==
  ASSUME ControlInv, Click \/ NativePause \/ Observe \/ AdoptNativePause
  PROVE  ControlInv'
<1>1. /\ window \in WindowRecord /\ player \in PlayerRecord
      /\ core \in [pause : BOOLEAN, seen : BOOLEAN] /\ unread \in Seq(BOOLEAN)
      /\ told \in {"none", "play", "pause"} /\ signals \in Nat /\ inputs \in 0..MaxInputs
      /\ tasks \in Waits
      /\ window.paused \in BOOLEAN /\ player.caller \in BOOLEAN
      /\ core.pause \in BOOLEAN /\ core.seen \in BOOLEAN
  BY DEF ControlInv, WindowRecord, PlayerRecord
<1>2. /\ Steady(window) => Agrees(window.paused, player.caller, tasks)
      /\ window.session = "relay" /\ window.doing = "none" /\ ~window.paused => told = "play"
      /\ Reported(core, unread) /\ Followed(player, core, unread, signals)
  BY DEF ControlInv
<1>3. ASSUME Input PROVE inputs' \in 0..MaxInputs
  BY <1>1, <1>3, ControlAssumption DEF Input
<1>4. CASE Click
  <2>1. NoneWaits({"toggle"}) /\ tasks' = Append(tasks, "toggle")
        /\ UNCHANGED <<window, told, player, core, unread, signals, where, at, history>>
        /\ Input
    BY <1>4 DEF Click, placeVars
  <2>2. tasks' \in Waits /\ Steady(window) => Agrees(window.paused, player.caller, tasks')
    BY <1>1, <1>2, <2>1, OneMoreWaits
  <2>3. tasks' \in Waits
    BY <1>1, <2>1, OneMoreWaits
  <2> QED  BY <1>1, <1>2, <1>3, <2>1, <2>2, <2>3, ControlKept
<1>5. CASE NativePause
  <2>1. PauseCore(~core.pause) /\ Input
        /\ UNCHANGED <<window, told, player, signals, tasks, where, at, history>>
    BY <1>5 DEF NativePause, placeVars
  <2>2. (~core.pause) \in BOOLEAN
    BY <1>1
  <2>3. /\ core' \in [pause : BOOLEAN, seen : BOOLEAN] /\ unread' \in Seq(BOOLEAN)
        /\ Reported(core', unread')
        /\ unread' = <<>> => unread = <<>> /\ core'.seen = core.seen
    BY <2>1, <2>2, PausesCore
  <2>4. Followed(player', core', unread', signals')
    BY <1>2, <2>1, <2>3 DEF Followed
  <2> QED  BY <1>1, <1>2, <1>3, <2>1, <2>3, <2>4, ControlKept
<1>6. CASE Observe
  <2>1. unread # <<>> /\ core' = [core EXCEPT !.seen = Head(unread)] /\ unread' = Tail(unread)
        /\ signals' = signals + 1
        /\ UNCHANGED <<window, told, player, tasks, where, at, history, inputs>>
    BY <1>6 DEF Observe, placeVars
  <2>2. Head(unread) \in BOOLEAN /\ Tail(unread) \in Seq(BOOLEAN) /\ signals' \in Nat
        /\ signals' # 0
    BY <1>1, <2>1
  <2>3. core' \in [pause : BOOLEAN, seen : BOOLEAN] /\ core'.pause = core.pause
        /\ core'.seen = Head(unread)
    BY <1>1, <2>1, <2>2
  <2>4. core.pause = unread[Len(unread)]
    BY <1>2, <2>1 DEF Reported
  <2>5. Reported(core', unread')
    <3>1. CASE unread' = <<>>
      <4>1. Len(unread) = 1
        <5>1. Len(unread) \in Nat /\ Len(unread') = Len(unread) - 1
          BY <1>1, <2>1
        <5>2. Len(unread') = 0
          BY <3>1
        <5> QED  BY <5>1, <5>2
      <4>2. Head(unread) = unread[1]
        BY <1>1, <2>1
      <4>3. Head(unread) = unread[Len(unread)]
        BY <4>1, <4>2, Zenon
      <4> QED  BY <2>3, <2>4, <3>1, <4>3 DEF Reported
    <3>2. CASE unread' # <<>>
      <4>1. unread'[Len(unread')] = unread[Len(unread)]
        BY <1>1, <2>1, <3>2
      <4> QED  BY <2>3, <2>4, <3>2, <4>1 DEF Reported
    <3> QED  BY <3>1, <3>2
  <2>6. Followed(player', core', unread', signals')
    BY <2>2 DEF Followed
  <2> QED  BY <1>1, <1>2, <2>1, <2>2, <2>3, <2>5, <2>6, ControlKept
<1>7. CASE AdoptNativePause
  <2>1. signals > 0 /\ signals' = signals - 1 /\ NoneWaits(Adoption)
        /\ UNCHANGED <<window, told, core, unread, where, at, history, inputs>>
    BY <1>7 DEF AdoptNativePause, placeVars
  <2>2. signals' \in Nat
    BY <1>1, <2>1
  <2>3. CASE ~player.released \/ player.reloading \/ core.seen = player.caller
    <3>1. UNCHANGED <<player, tasks>>
      BY <1>7, <2>3 DEF AdoptNativePause
    <3>2. Followed(player', core', unread', signals')
      BY <2>1, <2>3, <3>1 DEF Followed
    <3> QED  BY <1>1, <1>2, <2>1, <2>2, <3>1, <3>2, ControlKept
  <2>4. CASE ~(~player.released \/ player.reloading \/ core.seen = player.caller)
    <3> DEFINE k == IF core.seen THEN "pause" ELSE "resume"
    <3>1. player' = [player EXCEPT !.caller = core.seen] /\ tasks' = Append(tasks, k)
      BY <1>7, <2>4 DEF AdoptNativePause
    <3>2. k \in Adoption /\ core.seen = (k = "pause") /\ player.caller # core.seen
      BY <1>1, <2>4 DEF Adoption
    <3> HIDE DEF k
    <3>3. player' \in PlayerRecord /\ player'.caller = core.seen
          /\ player'.ready = player.ready /\ player'.loaded = player.loaded
          /\ player'.released = player.released /\ player'.reloading = player.reloading
      BY <1>1, <3>1 DEF PlayerRecord
    <3>4. tasks' \in Waits
      BY <1>1, <2>1, <3>1, <3>2, OneMoreWaits
    <3>5. Steady(window) => Agrees(window.paused, player'.caller, tasks')
      BY <1>1, <1>2, <2>1, <3>1, <3>2, <3>3, OneMoreWaits
    <3>6. Followed(player', core', unread', signals')
      BY <2>1, <3>3 DEF Followed
    <3> QED  BY <1>1, <1>2, <2>1, <2>2, <3>3, <3>4, <3>5, <3>6, ControlKept
  <2> QED  BY <2>3, <2>4
<1> QED  BY <1>4, <1>5, <1>6, <1>7

(* A click, or an adoption, is carried out.                                *)
LEMMA TaskSteps ==
  ASSUME ControlInv, OnPlayPause \/ OnPlayerPaused
  PROVE  ControlInv'
<1>1. /\ window \in WindowRecord /\ player \in PlayerRecord
      /\ core \in [pause : BOOLEAN, seen : BOOLEAN] /\ unread \in Seq(BOOLEAN)
      /\ told \in {"none", "play", "pause"} /\ signals \in Nat /\ inputs \in 0..MaxInputs
      /\ tasks \in Waits
      /\ window.paused \in BOOLEAN /\ player.caller \in BOOLEAN
  BY DEF ControlInv, WindowRecord, PlayerRecord
<1>2. /\ Steady(window) => Agrees(window.paused, player.caller, tasks)
      /\ window.session = "relay" /\ window.doing = "none" /\ ~window.paused => told = "play"
      /\ Reported(core, unread) /\ Followed(player, core, unread, signals)
  BY DEF ControlInv
<1>3. tasks # <<>> /\ tasks' = Tail(tasks) /\ UNCHANGED <<signals, where, at, history, inputs>>
  BY DEF OnPlayPause, OnPlayerPaused, placeVars
<1>4. /\ tasks' \in Waits
      /\ Head(tasks) = "toggle" /\ Steady(window) => Agrees(~window.paused, ~window.paused, tasks')
      /\ Head(tasks) \in Adoption /\ Steady(window) =>
           Agrees(Head(tasks) = "pause", player.caller, tasks')
  BY <1>1, <1>2, <1>3, OneLessWaits
<1>5. ~Busy /\ window.session = "none" => ~Steady(window)
  BY DEF Busy, Steady
<1>6. ASSUME NEW p \in BOOLEAN, window' = [window EXCEPT !.paused = p],
             told' = (IF Busy \/ window.session = "local" THEN told
                      ELSE IF p THEN "pause" ELSE "play")
      PROVE  /\ window' \in WindowRecord /\ window'.paused = p
             /\ window'.session = window.session /\ window'.doing = window.doing
             /\ told' \in {"none", "play", "pause"}
             /\ window.session = "relay" /\ window.doing = "none" /\ ~p => told' = "play"
  <2>1. window' \in WindowRecord /\ window'.paused = p
        /\ window'.session = window.session /\ window'.doing = window.doing
    BY <1>1, <1>6 DEF WindowRecord
  <2> QED  BY <1>1, <1>6, <2>1 DEF Busy
<1>7. CASE OnPlayPause
  <2>1. Head(tasks) = "toggle" /\ ApplyPause(~window.paused, FALSE)
    BY <1>7 DEF OnPlayPause
  <2>2. CASE ~Busy /\ window.session = "none"
    <3>1. UNCHANGED <<window, told, player, core, unread>>
      BY <2>1, <2>2 DEF ApplyPause
    <3> QED  BY <1>1, <1>2, <1>3, <1>4, <1>5, <2>2, <3>1, ControlKept
  <2>3. CASE ~(~Busy /\ window.session = "none")
    <3> DEFINE p == ~window.paused
    <3>1. /\ window' = [window EXCEPT !.paused = p] /\ SetPaused(p)
          /\ told' = (IF Busy \/ window.session = "local" THEN told
                      ELSE IF p THEN "pause" ELSE "play")
      BY <2>1, <2>3 DEF ApplyPause
    <3>2. p \in BOOLEAN /\ (Steady(window) => Agrees(p, p, tasks'))
      BY <1>1, <1>4, <2>1
    <3> HIDE DEF p
    <3>3. player' = [player EXCEPT !.caller = p]
          /\ (player.released => PauseCore(p)) /\ (~player.released => UNCHANGED <<core, unread>>)
      BY <3>1 DEF SetPaused
    <3>4. player' \in PlayerRecord /\ player'.caller = p
          /\ player'.ready = player.ready /\ player'.loaded = player.loaded
          /\ player'.released = player.released /\ player'.reloading = player.reloading
      BY <1>1, <3>2, <3>3 DEF PlayerRecord
    <3>5. /\ core' \in [pause : BOOLEAN, seen : BOOLEAN] /\ unread' \in Seq(BOOLEAN)
          /\ Reported(core', unread') /\ Followed(player', core', unread', signals')
      <4>1. CASE player.released
        <5>1. PauseCore(p)  BY <3>3, <4>1
        <5>2. /\ core' \in [pause : BOOLEAN, seen : BOOLEAN] /\ unread' \in Seq(BOOLEAN)
              /\ Reported(core', unread') /\ (unread' = <<>> => core'.seen = p)
          BY <3>2, <5>1, PausesCore
        <5> QED  BY <3>4, <5>2 DEF Followed
      <4>2. CASE ~player.released
        BY <1>1, <1>2, <3>3, <3>4, <4>2 DEF Followed
      <4> QED  BY <4>1, <4>2
    <3> QED  BY <1>1, <1>3, <1>4, <1>6, <3>1, <3>2, <3>4, <3>5, ControlKept
  <2> QED  BY <2>2, <2>3
<1>8. CASE OnPlayerPaused
  <2> DEFINE p == Head(tasks) = "pause"
  <2>1. Head(tasks) \in Adoption
        /\ (window.paused # p => ApplyPause(p, TRUE))
        /\ (window.paused = p => UNCHANGED <<window, told, player, core, unread>>)
    BY <1>8 DEF OnPlayerPaused
  <2>2. p \in BOOLEAN /\ (Steady(window) => Agrees(p, player.caller, tasks'))
    BY <1>4, <2>1
  <2> HIDE DEF p
  <2>3. CASE window.paused = p \/ (~Busy /\ window.session = "none")
    <3>1. UNCHANGED <<window, told, player, core, unread>>
      BY <2>1, <2>3 DEF ApplyPause
    <3>2. Steady(window) => Agrees(window'.paused, player'.caller, tasks')
      BY <1>5, <2>2, <2>3, <3>1
    <3> QED  BY <1>1, <1>2, <1>3, <1>4, <3>1, <3>2, ControlKept
  <2>4. CASE ~(window.paused = p \/ (~Busy /\ window.session = "none"))
    <3>1. /\ window' = [window EXCEPT !.paused = p] /\ UNCHANGED <<player, core, unread>>
          /\ told' = (IF Busy \/ window.session = "local" THEN told
                      ELSE IF p THEN "pause" ELSE "play")
      BY <2>1, <2>4 DEF ApplyPause
    <3> QED  BY <1>1, <1>2, <1>3, <1>4, <1>6, <2>2, <3>1, ControlKept
  <2> QED  BY <2>3, <2>4
<1> QED  BY <1>7, <1>8

(* The types, and what the parts say, as the steps use them.               *)
LEMMA ControlParts ==
  ASSUME ControlInv
  PROVE  /\ window \in WindowRecord /\ player \in PlayerRecord /\ where \in PlaceRecord
         /\ core \in [pause : BOOLEAN, seen : BOOLEAN] /\ unread \in Seq(BOOLEAN)
         /\ told \in {"none", "play", "pause"} /\ signals \in Nat /\ inputs \in 0..MaxInputs
         /\ at \in Spot \cup {0} /\ history \in Spot /\ 0 \notin Spot
         /\ tasks \in Waits
         /\ Steady(window) => Agrees(window.paused, player.caller, tasks)
         /\ window.session = "relay" /\ window.doing = "none" /\ ~window.paused => told = "play"
         /\ Reported(core, unread) /\ Followed(player, core, unread, signals)
         /\ Sure(where, window) /\ LoadPlaced(player, window, at)
         /\ window.paused \in BOOLEAN /\ player.caller \in BOOLEAN
BY ControlAssumption DEF ControlInv, WindowRecord, PlayerRecord

(* mpv stops: nothing is released, whatever mpv reports.                   *)
LEMMA Stops ==
  ASSUME ControlInv, NEW c \in BOOLEAN, StopMpv(c)
  PROVE  /\ player' \in PlayerRecord /\ player'.caller = c /\ ~player'.released
         /\ player'.reloading /\ ~player'.loaded /\ ~player'.ready
         /\ core' \in [pause : BOOLEAN, seen : BOOLEAN] /\ unread' \in Seq(BOOLEAN)
         /\ Reported(core', unread') /\ at' = 0
<1>1. player' = [caller |-> c, released |-> FALSE, reloading |-> TRUE,
                 loaded |-> FALSE, ready |-> FALSE]
      /\ at' = 0
  BY DEF StopMpv
<1>2. PICK p \in BOOLEAN : PauseCore(p)
  BY DEF StopMpv
<1> QED  BY <1>1, <1>2, PausesCore DEF PlayerRecord

(* A file is loaded, is ready, and is released.                            *)
LEMMA FileSteps ==
  ASSUME ControlInv, Load \/ Ready \/ Release
  PROVE  ControlInv'
<1>1. CASE Load
  <2>1. /\ ~player.loaded /\ PauseCore(TRUE)
        /\ player' = [player EXCEPT !.loaded = TRUE, !.reloading = window.doing = "load"]
        /\ (window.session = "relay" /\ window.doing # "fallback") \/ window.doing = "load"
        /\ UNCHANGED <<window, told, signals, tasks, where, at, history, inputs>>
    BY <1>1 DEF Load, placeVars
  <2>2. /\ player' \in PlayerRecord /\ player'.loaded /\ player'.caller = player.caller
        /\ player'.reloading = (window.doing = "load") /\ player'.ready = player.ready
        /\ player'.released = player.released
    BY <2>1, ControlParts DEF PlayerRecord
  <2>3. /\ core' \in [pause : BOOLEAN, seen : BOOLEAN] /\ unread' \in Seq(BOOLEAN)
        /\ Reported(core', unread')
    BY <2>1, PausesCore
  <2>4. ~player'.released /\ LoadPlaced(player', window', at')
    BY <2>1, <2>2, ControlParts DEF LoadPlaced
  <2>5. Followed(player', core', unread', signals')
    BY <2>4 DEF Followed
  <2> QED  BY <2>1, <2>2, <2>3, <2>4, <2>5, ControlParts DEF ControlInv
<1>2. CASE Ready
  <2>1. /\ player.loaded /\ player' = [player EXCEPT !.ready = TRUE]
        /\ UNCHANGED <<window, told, core, unread, signals, tasks, where, at, history, inputs>>
    BY <1>2 DEF Ready, placeVars, pauseVars
  <2>2. /\ player' \in PlayerRecord /\ player'.loaded = player.loaded
        /\ player'.caller = player.caller /\ player'.released = player.released
        /\ player'.reloading = player.reloading
    BY <2>1, ControlParts DEF PlayerRecord
  <2>3. LoadPlaced(player', window', at') /\ Followed(player', core', unread', signals')
    BY <2>1, <2>2, ControlParts DEF LoadPlaced, Followed
  <2> QED  BY <2>1, <2>2, <2>3, ControlParts DEF ControlInv
<1>3. CASE Release
  <2>1. /\ player.ready /\ ~player.released /\ PauseCore(player.caller)
        /\ player' = [player EXCEPT !.released = TRUE, !.reloading = FALSE]
        /\ at' \in (IF where.pending # 0 THEN {where.pending} ELSE Spot)
        /\ window' = [window EXCEPT !.doing = IF @ = "load" THEN "none" ELSE @]
        /\ UNCHANGED <<told, signals, tasks, where, history, inputs>>
    BY <1>3 DEF Release
  <2>2. /\ player' \in PlayerRecord /\ player'.loaded = player.loaded /\ player'.released
        /\ player'.caller = player.caller /\ player'.ready = player.ready
    BY <2>1, ControlParts DEF PlayerRecord
  <2>3. /\ window' \in WindowRecord /\ window'.paused = window.paused
        /\ window'.session = window.session
        /\ window'.doing = IF window.doing = "load" THEN "none" ELSE window.doing
    BY <2>1, ControlParts DEF WindowRecord
  <2>4. at' \in Spot
    BY <2>1, ControlParts DEF PlaceRecord
  <2>5. /\ core' \in [pause : BOOLEAN, seen : BOOLEAN] /\ unread' \in Seq(BOOLEAN)
        /\ Reported(core', unread') /\ (unread' = <<>> => core'.seen = player.caller)
    BY <2>1, ControlParts, PausesCore
  <2>6. Followed(player', core', unread', signals')
    BY <2>2, <2>5 DEF Followed
  <2>7. LoadPlaced(player', window', at') /\ Sure(where', window')
    BY <2>1, <2>2, <2>3, <2>4, ControlParts DEF LoadPlaced, Sure
  <2>8. /\ Steady(window') => Steady(window)
        /\ window'.session = "relay" /\ window'.doing = "none" /\ ~window'.paused => told' = "play"
    BY <2>1, <2>3, ControlParts DEF Steady, LoadPlaced
  <2>9. Steady(window') => Agrees(window'.paused, player'.caller, tasks')
    BY <2>1, <2>2, <2>3, <2>8, ControlParts
  <2> QED  BY <2>1, <2>2, <2>3, <2>4, <2>5, <2>6, <2>7, <2>8, <2>9, ControlParts DEF ControlInv
<1> QED  BY <1>1, <1>2, <1>3

(* A seek, and its arrival in a local file.                                *)
LEMMA SeekSteps ==
  ASSUME ControlInv, (\E p \in Spot : SeekTo(p)) \/ Arrive \/ SeekLate
  PROVE  ControlInv'
<1>1. ASSUME NEW p \in Spot, SeekTo(p) PROVE ControlInv'
  <2>1. /\ ~Busy /\ Input
        /\ where' = [where EXCEPT !.pending = p, !.late = FALSE, !.stable = FALSE]
        /\ UNCHANGED <<window, told, signals, tasks, history>>
    BY <1>1 DEF SeekTo
  <2>2. where' \in PlaceRecord /\ ~where'.stable
    BY <2>1, ControlParts DEF PlaceRecord
  <2>3. inputs' \in 0..MaxInputs
    BY <2>1, ControlParts, ControlAssumption DEF Input
  <2>4. Sure(where', window') /\ window.doing = "none"
    BY <2>1, <2>2 DEF Sure, Busy
  <2>5. CASE StopMpv(player.caller)
    <3>1. /\ player' \in PlayerRecord /\ player'.caller = player.caller /\ ~player'.released
          /\ ~player'.ready
          /\ core' \in [pause : BOOLEAN, seen : BOOLEAN] /\ unread' \in Seq(BOOLEAN)
          /\ Reported(core', unread') /\ at' = 0
      BY <2>5, ControlParts, Stops
    <3>2. Followed(player', core', unread', signals') /\ LoadPlaced(player', window', at')
      BY <2>1, <2>4, <3>1 DEF Followed, LoadPlaced
    <3> QED  BY <2>1, <2>2, <2>3, <2>4, <3>1, <3>2, ControlParts DEF ControlInv
  <2>6. CASE UNCHANGED <<player, core, unread, at>>
    BY <2>1, <2>2, <2>3, <2>4, <2>6, ControlParts DEF ControlInv
  <2> QED  BY <1>1, <2>5, <2>6 DEF SeekTo
<1>2. CASE Arrive
  <2>1. /\ where.pending # 0 /\ at' = where.pending
        /\ UNCHANGED <<window, told, player, core, unread, signals, tasks, where, history, inputs>>
    BY <1>2 DEF Arrive, pauseVars
  <2>2. at' \in Spot
    BY <2>1, ControlParts DEF PlaceRecord
  <2>3. LoadPlaced(player', window', at')
    BY <2>1, <2>2, ControlParts DEF LoadPlaced
  <2> QED  BY <2>1, <2>2, <2>3, ControlParts DEF ControlInv
<1>3. CASE SeekLate
  <2>1. /\ where' = [where EXCEPT !.late = TRUE]
        /\ UNCHANGED <<window, told, player, core, unread, signals, tasks, at, history, inputs>>
    BY <1>3 DEF SeekLate, pauseVars
  <2>2. where' \in PlaceRecord /\ where'.stable = where.stable
        /\ where'.pending = where.pending /\ where'.shown = where.shown
    BY <2>1, ControlParts DEF PlaceRecord
  <2>3. Sure(where', window')
    BY <2>1, <2>2, ControlParts DEF Sure
  <2> QED  BY <2>1, <2>2, <2>3, ControlParts DEF ControlInv
<1> QED  BY <1>1, <1>2, <1>3

(* What is saved is a place in the video.                                  *)
LEMMA SavesPlace ==
  ASSUME ControlInv
  PROVE  Saved \in Spot
<1>1. where.shown \in Spot \cup {0} /\ history \in Spot /\ Sure(where, window)
  BY ControlParts DEF PlaceRecord
<1> QED  BY <1>1 DEF Saved, Busy, Sure

(* A transition begins.                                                    *)
LEMMA BeginSteps ==
  ASSUME ControlInv, NEW kind \in {"open", "restart", "fallback", "stop"}, BeginTransition(kind)
  PROVE  ControlInv'
<1>1. /\ Input /\ history' = Saved /\ UNCHANGED <<told, signals, tasks, where>>
      /\ window' = [window EXCEPT !.doing = kind,
                                  !.paused = IF kind = "open" THEN FALSE ELSE @]
  BY DEF BeginTransition
<1>2. window' \in WindowRecord /\ window'.doing = kind
  BY <1>1, ControlParts DEF WindowRecord
<1>3. inputs' \in 0..MaxInputs
  BY <1>1, ControlParts, ControlAssumption DEF Input
<1>4. ~Steady(window') /\ Sure(where', window') /\ window'.doing # "none" /\ history' \in Spot
  BY <1>1, <1>2, SavesPlace DEF Steady, Sure
<1>5. CASE StopMpv(FALSE)
  <2>1. /\ player' \in PlayerRecord /\ ~player'.released /\ ~player'.ready
        /\ core' \in [pause : BOOLEAN, seen : BOOLEAN] /\ unread' \in Seq(BOOLEAN)
        /\ Reported(core', unread') /\ at' = 0
    BY <1>5, Stops
  <2>2. Followed(player', core', unread', signals') /\ LoadPlaced(player', window', at')
    BY <1>2, <2>1 DEF Followed, LoadPlaced
  <2> QED  BY <1>1, <1>2, <1>3, <1>4, <2>1, <2>2, ControlParts DEF ControlInv
<1>6. CASE UNCHANGED <<player, core, unread, at>>
  <2>1. Followed(player', core', unread', signals') /\ LoadPlaced(player', window', at')
    BY <1>1, <1>2, <1>6, ControlParts DEF Followed, LoadPlaced
  <2> QED  BY <1>1, <1>2, <1>3, <1>4, <1>6, <2>1, ControlParts DEF ControlInv
<1> QED  BY <1>5, <1>6 DEF BeginTransition

(* A transition tears the session down and starts the player again.        *)
LEMMA TransitionSteps ==
  ASSUME ControlInv, Teardown \/ StartPlayer
  PROVE  ControlInv'
<1>1. CASE Teardown
  <2> DEFINE falls == window.doing = "fallback"
  <2> DEFINE c == falls /\ window.paused
  <2> DEFINE d == CASE window.doing = "stop" -> "none" [] falls -> "load" [] OTHER -> "play"
  <2> DEFINE session == IF falls THEN "local" ELSE "none"
  <2>1. /\ window.doing \in {"open", "restart", "fallback", "stop"}
        /\ (falls => tasks = <<>>) /\ StopMpv(c) /\ told' = "none"
        /\ window' = [window EXCEPT !.session = session, !.doing = d]
        /\ where' = [where EXCEPT !.pending = 0, !.late = FALSE, !.stable = FALSE,
                            !.shown = IF window.doing \in {"open", "stop"} THEN 0 ELSE @]
        /\ UNCHANGED <<signals, tasks, history, inputs>>
    BY <1>1 DEF Teardown
  <2>2. c \in BOOLEAN /\ (falls => c = window.paused)
    BY ControlParts
  <2>3. /\ session \in {"none", "local"} /\ d \in {"none", "load", "play"}
        /\ (session = "local" <=> falls) /\ (d = "load" <=> falls)
    BY <2>1
  <2> HIDE DEF falls, c, d, session
  <2>4. /\ window' \in WindowRecord /\ window'.session = session /\ window'.doing = d
        /\ window'.paused = window.paused
    BY <2>1, <2>3, ControlParts DEF WindowRecord
  <2>5. where' \in PlaceRecord /\ ~where'.stable
    BY <2>1, ControlParts DEF PlaceRecord
  <2>6. /\ player' \in PlayerRecord /\ player'.caller = c /\ ~player'.released
        /\ player'.reloading /\ ~player'.loaded /\ ~player'.ready
        /\ core' \in [pause : BOOLEAN, seen : BOOLEAN] /\ unread' \in Seq(BOOLEAN)
        /\ Reported(core', unread') /\ at' = 0
    BY <2>1, <2>2, Stops
  <2>7. Followed(player', core', unread', signals') /\ LoadPlaced(player', window', at')
        /\ Sure(where', window')
    BY <2>3, <2>4, <2>5, <2>6 DEF Followed, LoadPlaced, Sure
  <2>8. Steady(window') => Agrees(window'.paused, player'.caller, tasks')
    <3>1. SUFFICES ASSUME falls PROVE Agrees(window'.paused, player'.caller, tasks')
      BY <2>3, <2>4 DEF Steady
    <3>2. tasks' = <<>> /\ player'.caller = window'.paused
      BY <2>1, <2>2, <2>4, <2>6, <3>1
    <3> QED  BY <3>2 DEF Agrees
  <2>9. window'.session # "relay" /\ told' \in {"none", "play", "pause"}
    BY <2>1, <2>3, <2>4
  <2> QED  BY <2>1, <2>4, <2>5, <2>6, <2>7, <2>8, <2>9, ControlParts DEF ControlInv
<1>2. CASE StartPlayer
  <2>1. /\ window.doing = "play" /\ tasks = <<>> /\ told' = "play"
        /\ window' = [window EXCEPT !.session = "relay", !.doing = "none"]
        /\ player' = [player EXCEPT !.caller = window.paused, !.reloading = TRUE]
        /\ where' = [where EXCEPT !.pending = where.shown]
        /\ UNCHANGED <<core, unread, signals, tasks, at, history, inputs>>
    BY <1>2 DEF StartPlayer, pauseVars
  <2>2. /\ window' \in WindowRecord /\ window'.session = "relay" /\ window'.doing = "none"
        /\ window'.paused = window.paused
    BY <2>1, ControlParts DEF WindowRecord
  <2>3. /\ player' \in PlayerRecord /\ player'.caller = window.paused /\ player'.reloading
        /\ player'.loaded = player.loaded /\ player'.ready = player.ready
        /\ player'.released = player.released
    BY <2>1, ControlParts DEF PlayerRecord
  <2>4. where' \in PlaceRecord /\ where'.stable = where.stable
    BY <2>1, ControlParts DEF PlaceRecord
  <2>5. Followed(player', core', unread', signals') /\ LoadPlaced(player', window', at')
        /\ Sure(where', window')
    BY <2>1, <2>2, <2>3, <2>4, ControlParts DEF Followed, LoadPlaced, Sure
  <2>6. Agrees(window'.paused, player'.caller, tasks')
    BY <2>1, <2>2, <2>3 DEF Agrees
  <2> QED  BY <2>1, <2>2, <2>3, <2>4, <2>5, <2>6, ControlParts DEF ControlInv
<1> QED  BY <1>1, <1>2

(* The position is read, and the history saved.                            *)
LEMMA PlaceSteps ==
  ASSUME ControlInv, StatsTick \/ SaveHistory
  PROVE  ControlInv'
<1>1. CASE StatsTick
  <2> DEFINE w == [where EXCEPT !.stable = player.released]
  <2>1. /\ player.loaded /\ ~player.reloading /\ where' = OnPosition(w, at)
        /\ UNCHANGED <<window, told, player, core, unread, signals, tasks, at, history, inputs>>
    BY <1>1 DEF StatsTick, pauseVars
  <2>2. w \in PlaceRecord /\ w.stable = player.released
    BY ControlParts DEF PlaceRecord, PlayerRecord
  <2>3. at \in Spot \cup {0}
    BY ControlParts
  <2> HIDE DEF w
  <2>4. CASE Busy \/ (w.pending \notin {0, at} /\ ~w.late)
    <3>1. where' = w
      BY <2>1, <2>4 DEF OnPosition
    <3>2. window.doing \notin {"load", "play"}
      BY <2>1, ControlParts DEF LoadPlaced
    <3>3. Sure(where', window')
      BY <2>1, <2>4, <3>1, <3>2 DEF Sure, Busy
    <3> QED  BY <2>1, <2>2, <3>1, <3>3, ControlParts DEF ControlInv
  <2>5. CASE ~(Busy \/ (w.pending \notin {0, at} /\ ~w.late))
    <3>1. where' = [w EXCEPT !.shown = at, !.pending = 0, !.late = FALSE]
      BY <2>1, <2>5 DEF OnPosition
    <3>2. where' \in PlaceRecord /\ where'.shown = at /\ where'.stable = player.released
      BY <2>2, <2>3, <3>1 DEF PlaceRecord
    <3>3. Sure(where', window')
      BY <2>1, <2>5, <3>2, ControlParts DEF Sure, Busy, LoadPlaced
    <3> QED  BY <2>1, <3>2, <3>3, ControlParts DEF ControlInv
  <2> QED  BY <2>4, <2>5
<1>2. CASE SaveHistory
  BY <1>2, ControlParts, SavesPlace DEF SaveHistory, pauseVars, ControlInv
<1> QED  BY <1>1, <1>2

(* Pause and position keep the invariant.                                  *)
THEOREM ControlInvariant == ControlSpec => []ControlInv
<1>1. ControlInv /\ UNCHANGED controlVars => ControlInv'
  BY DEF ControlInv, controlVars
<1>2. ControlInv /\ ControlNext => ControlInv'
  BY ReportSteps, TaskSteps, FileSteps, SeekSteps, BeginSteps, TransitionSteps, PlaceSteps
  DEF ControlNext, ControlStep
<1> QED  BY <1>1, <1>2, ControlsBegin, PTL DEF ControlSpec

(* When nothing is under way, the window, the player and mpv agree whether *)
(* playback is paused, the server was told so, and the place saved is one  *)
(* of the video (ControlsAgree), however many clicks, keys of mpv's own,   *)
(* seeks and restarts there were.                                          *)
THEOREM ControlsStayAgreed == ControlSpec => []ControlsAgree
<1>1. ControlInv => ControlsAgree
  <2> SUFFICES ASSUME ControlInv PROVE ControlsAgree
    OBVIOUS
  <2>1. ASSUME ~Busy, window.session # "none", player.released, ~player.reloading,
               unread = <<>>, signals = 0, tasks = <<>>
        PROVE  /\ window.paused = player.caller /\ player.caller = core.pause
               /\ window.session = "relay" /\ ~window.paused => told = "play"
    <3>1. window.doing = "none" /\ Steady(window)
      BY <2>1 DEF Busy, Steady
    <3>2. window.paused = player.caller
      BY <2>1, <3>1, ControlParts DEF Agrees
    <3>3. core.seen = player.caller /\ core.pause = core.seen
      BY <2>1, ControlParts DEF Followed, Reported
    <3> QED  BY <3>1, <3>2, <3>3, ControlParts
  <2>2. history # 0
    BY ControlParts
  <2> QED  BY <2>1, <2>2 DEF ControlsAgree
<1> QED  BY <1>1, ControlInvariant, PTL

-----------------------------------------------------------------------------
(* What slides around the video (WindowChrome).                            *)

PaneRecord == [visible : BOOLEAN, width : 0..WidthMax, remembered : Widths,
               checked : BOOLEAN, given : SUBSET Widths]
BarRecord == [overlay : BOOLEAN, docked : BOOLEAN, visible : BOOLEAN,
              dock : {Still} \cup 0..Full, floor : {0, Full}]
RevealRecord == [t : 0..Full, target : {0, Full}, running : BOOLEAN]
Ends == {Still} \cup 0..WidthMax

(* The sidebar: open or closed, or on its way there, as its button says;   *)
(* at no width but one it was given, unless it slides.                     *)
SidebarOK(s, end, overlay) ==
  /\ s.remembered \in s.given
  /\ end = Still /\ s.visible => s.width \in s.given
  /\ end # Still => s.visible
  /\ ~overlay => s.checked = IF end = Still THEN s.visible ELSE end > 0

(* The top bar: out while the control bar is docked, or on its way there.  *)
TopOK(t, end, overlay) ==
  /\ end # Still => end = IF overlay THEN 0 ELSE Full
  /\ end = Still => t = [visible |-> ~overlay, height |-> IF overlay THEN 0 ELSE Full]

(* The control bar: docked, or on its way to or from its dock; away from   *)
(* it, or risen while it leaves, as its Reveal says, with a timer to hide  *)
(* what is shown.                                                          *)
BarOK(b, r, end, ts) ==
  /\ end = Still => b.dock = Still /\ b.docked = ~b.overlay
  /\ end # Still => b.dock # Still /\ ~b.docked /\ end = IF b.overlay THEN 0 ELSE Full
  /\ ~b.overlay => b.visible /\ ~r.running
  /\ b.overlay /\ (b.dock = Still \/ b.floor > 0) =>
       /\ r.running => b.visible
       /\ ~r.running => b.visible = (r.target > 0) /\ r.t = r.target
       /\ r.target > 0 => "controls" \in ts

ChromeInv ==
  /\ sidebar \in PaneRecord /\ topbar \in [visible : BOOLEAN, height : 0..Full]
  /\ bar \in BarRecord /\ reveal \in RevealRecord /\ slides \in [Slide -> Ends]
  /\ full \in [on : BOOLEAN, settled : BOOLEAN]
  /\ timers \subseteq {"controls", "cursor", "pacing"}
  /\ blank \in BOOLEAN /\ toggles \in 0..MaxToggles
  /\ SidebarOK(sidebar, slides["sidebar"], bar.overlay)
  /\ TopOK(topbar, slides["topbar"], bar.overlay)
  /\ BarOK(bar, reveal, slides["bar"], timers)
  /\ blank => bar.overlay
  /\ full.settled = (full.on /\ "pacing" \notin timers)

(* The greatest width.                                                     *)
LEMMA GreatestWidth ==
  /\ WidthMax \in Widths /\ WidthMax \in Nat /\ WidthMax >= Full /\ MinWidth \in Nat
  /\ MinWidth > 0 /\ \A w \in Widths : w \in 0..WidthMax /\ w >= MinWidth /\ w > 0
<1>1. \E w \in Widths : \A v \in Widths : v <= w
  BY ChromeAssumption
<1>2. WidthMax \in Widths /\ \A v \in Widths : v <= WidthMax
  BY <1>1 DEF WidthMax
<1> QED  BY <1>2, ChromeAssumption DEF Full

(* The window opens with the bars in place.                                *)
LEMMA ChromeBegins == ChromeInit => ChromeInv
<1> SUFFICES ASSUME ChromeInit PROVE ChromeInv
  OBVIOUS
<1>1. PICK w \in Widths : sidebar = [visible |-> TRUE, width |-> w, remembered |-> w,
                                     checked |-> TRUE, given |-> {w}]
  BY DEF ChromeInit
<1>2. sidebar \in PaneRecord
  BY <1>1, GreatestWidth DEF PaneRecord
<1>3. slides \in [Slide -> Ends] /\ slides["sidebar"] = Still /\ slides["topbar"] = Still
      /\ slides["bar"] = Still
  BY DEF ChromeInit, Slide, Ends
<1>4. /\ topbar \in [visible : BOOLEAN, height : 0..Full] /\ bar \in BarRecord
      /\ reveal \in RevealRecord /\ full \in [on : BOOLEAN, settled : BOOLEAN]
      /\ toggles \in 0..MaxToggles /\ ~bar.overlay
  BY ChromeAssumption DEF ChromeInit, BarRecord, RevealRecord, Full
<1>5. SidebarOK(sidebar, slides["sidebar"], bar.overlay)
  BY <1>1, <1>3, <1>4 DEF SidebarOK
<1>6. TopOK(topbar, slides["topbar"], bar.overlay)
  BY <1>3, <1>4 DEF TopOK, ChromeInit
<1>7. BarOK(bar, reveal, slides["bar"], timers)
  BY <1>3 DEF BarOK, ChromeInit
<1> QED  BY <1>2, <1>3, <1>4, <1>5, <1>6, <1>7 DEF ChromeInv, ChromeInit

(* A slide of the sidebar starts, wherever an earlier one has come.        *)
LEMMA SlidesSidebar ==
  ASSUME ChromeInv, NEW v \in BOOLEAN
  PROVE  /\ SlideBrowser(v).pane \in PaneRecord /\ SlideBrowser(v).end \in Ends
         /\ SlideBrowser(v).pane.checked = sidebar.checked
         /\ SidebarOK([SlideBrowser(v).pane EXCEPT !.checked = v], SlideBrowser(v).end, FALSE)
<1> DEFINE stands == IF sidebar.visible THEN sidebar.width ELSE 0
<1> DEFINE target == IF v THEN sidebar.remembered ELSE 0
<1> DEFINE kept == IF v \/ stands < MinWidth \/ Sliding("sidebar")
                     THEN sidebar.remembered ELSE stands
<1> DEFINE s == [sidebar EXCEPT !.remembered = kept]
<1>1. /\ sidebar \in PaneRecord /\ sidebar.given \subseteq Widths /\ sidebar.width \in 0..WidthMax
      /\ sidebar.remembered \in Widths /\ sidebar.visible \in BOOLEAN /\ sidebar.checked \in BOOLEAN
      /\ sidebar.remembered \in sidebar.given
      /\ ~Sliding("sidebar") /\ sidebar.visible => sidebar.width \in sidebar.given
  BY DEF ChromeInv, SidebarOK, PaneRecord, Sliding
<1>2. stands \in 0..WidthMax /\ target \in 0..WidthMax /\ (target > 0 <=> v)
  <2>1. 0 \in 0..WidthMax /\ sidebar.remembered \in 0..WidthMax /\ sidebar.remembered > 0
    <3>1. 0 \in 0..WidthMax
      BY GreatestWidth
    <3>2. sidebar.remembered \in Widths
      BY <1>1
    <3>3. sidebar.remembered \in 0..WidthMax /\ sidebar.remembered > 0
      BY <3>2, GreatestWidth, Zenon
    <3> QED  BY <3>1, <3>3
  <2>2. stands \in 0..WidthMax
    BY <1>1, <2>1
  <2>3. target \in 0..WidthMax
    BY <1>1, <2>1
  <2>4. target > 0 <=> v
    <3>1. CASE v  BY <2>1, <3>1
    <3>2. CASE ~v  BY <3>2
    <3> QED  BY <3>1, <3>2
  <2> QED  BY <2>2, <2>3, <2>4
<1>3. kept \in sidebar.given /\ kept \in Widths
  <2>1. CASE v \/ stands < MinWidth \/ Sliding("sidebar")
    BY <1>1, <2>1
  <2>2. CASE ~(v \/ stands < MinWidth \/ Sliding("sidebar"))
    <3>1. sidebar.visible
      BY <2>2, GreatestWidth
    <3> QED  BY <1>1, <2>2, <3>1
  <2> QED  BY <2>1, <2>2
<1>4. SlideBrowser(v) = IF stands = target
                          THEN [pane |-> BrowserVisible(s, v), end |-> Still]
                          ELSE [pane |-> [s EXCEPT !.visible = TRUE], end |-> target]
  BY DEF SlideBrowser
<1>5. stands = IF sidebar.visible THEN sidebar.width ELSE 0
  OBVIOUS
<1> HIDE DEF kept, target, stands
<1>6. /\ s \in PaneRecord /\ s.remembered = kept /\ s.given = sidebar.given
      /\ s.visible = sidebar.visible /\ s.width = sidebar.width /\ s.checked = sidebar.checked
  BY <1>1, <1>3 DEF PaneRecord
<1> HIDE DEF s
<1>7. CASE stands = target
  <2>1. SlideBrowser(v).pane = BrowserVisible(s, v) /\ SlideBrowser(v).end = Still
    BY <1>4, <1>7
  <2>2. CASE v
    <3>1. SlideBrowser(v).pane = [s EXCEPT !.visible = TRUE, !.width = kept]
      BY <1>6, <2>1, <2>2 DEF BrowserVisible
    <3>2. kept \in 0..WidthMax
      BY <1>3, GreatestWidth
    <3>3. /\ SlideBrowser(v).pane \in PaneRecord
          /\ SlideBrowser(v).pane.checked = sidebar.checked
      BY <1>6, <3>1, <3>2 DEF PaneRecord
    <3>4. SidebarOK([SlideBrowser(v).pane EXCEPT !.checked = v], Still, FALSE)
      BY <1>3, <1>6, <2>2, <3>1 DEF SidebarOK, PaneRecord
    <3> QED  BY <2>1, <3>3, <3>4 DEF Ends
  <2>3. CASE ~v
    <3>1. target = 0 /\ ~(s.visible /\ s.width >= MinWidth)
      BY <1>2, <1>5, <1>6, <1>7, <2>3, GreatestWidth
    <3>2. SlideBrowser(v).pane = [s EXCEPT !.visible = FALSE, !.width = 0]
      BY <1>6, <2>1, <2>3, <3>1 DEF BrowserVisible, PaneRecord
    <3>3. 0 \in 0..WidthMax
      BY GreatestWidth
    <3>4. /\ SlideBrowser(v).pane \in PaneRecord
          /\ SlideBrowser(v).pane.checked = sidebar.checked
      BY <1>6, <3>2, <3>3 DEF PaneRecord
    <3>5. SidebarOK([SlideBrowser(v).pane EXCEPT !.checked = v], Still, FALSE)
      BY <1>3, <1>6, <2>3, <3>2 DEF SidebarOK, PaneRecord
    <3> QED  BY <2>1, <3>4, <3>5 DEF Ends
  <2> QED  BY <2>2, <2>3
<1>8. CASE stands # target
  <2>1. SlideBrowser(v).pane = [s EXCEPT !.visible = TRUE] /\ SlideBrowser(v).end = target
    BY <1>4, <1>8
  <2>2. /\ SlideBrowser(v).pane \in PaneRecord
        /\ SlideBrowser(v).pane.checked = sidebar.checked
    BY <1>6, <2>1 DEF PaneRecord
  <2>3. target # Still /\ target \in Ends
    BY <1>2, GreatestWidth DEF Still, Ends
  <2>4. SidebarOK([SlideBrowser(v).pane EXCEPT !.checked = v], target, FALSE)
    BY <1>2, <1>3, <1>6, <2>1, <2>3 DEF SidebarOK, PaneRecord
  <2> QED  BY <2>1, <2>2, <2>3, <2>4
<1> QED  BY <1>7, <1>8

(* The parts of the invariant, as the steps use them.                      *)
LEMMA ChromeParts ==
  ASSUME ChromeInv
  PROVE  /\ sidebar \in PaneRecord /\ topbar \in [visible : BOOLEAN, height : 0..Full]
         /\ bar \in BarRecord /\ reveal \in RevealRecord /\ slides \in [Slide -> Ends]
         /\ full \in [on : BOOLEAN, settled : BOOLEAN]
         /\ timers \subseteq {"controls", "cursor", "pacing"}
         /\ blank \in BOOLEAN /\ toggles \in 0..MaxToggles
         /\ SidebarOK(sidebar, slides["sidebar"], bar.overlay)
         /\ TopOK(topbar, slides["topbar"], bar.overlay)
         /\ BarOK(bar, reveal, slides["bar"], timers)
         /\ blank => bar.overlay
         /\ full.settled = (full.on /\ "pacing" \notin timers)
         /\ bar.overlay \in BOOLEAN /\ bar.visible \in BOOLEAN /\ bar.docked \in BOOLEAN
         /\ bar.dock \in {Still} \cup 0..Full /\ bar.floor \in {0, Full}
         /\ reveal.t \in 0..Full /\ reveal.target \in {0, Full} /\ reveal.running \in BOOLEAN
         /\ full.on \in BOOLEAN
BY DEF ChromeInv, BarRecord, RevealRecord

(* The end of one slide changes.                                           *)
LEMMA SlideChanged ==
  ASSUME slides \in [Slide -> Ends], NEW k \in Slide, NEW e \in Ends,
         slides' = [slides EXCEPT ![k] = e]
  PROVE  slides' \in [Slide -> Ends] /\ slides'[k] = e
         /\ \A j \in Slide : j # k => slides'[j] = slides[j]
OBVIOUS

(* The button of the sidebar, the handle, and the steps of its slide.      *)
LEMMA SidebarSteps ==
  ASSUME ChromeInv, OnBrowserToggled \/ DragHandle \/ StepSidebar
  PROVE  ChromeInv'
<1>1. ASSUME sidebar' \in PaneRecord, slides' \in [Slide -> Ends],
             slides'["topbar"] = slides["topbar"], slides'["bar"] = slides["bar"],
             SidebarOK(sidebar', slides'["sidebar"], bar.overlay),
             toggles' \in 0..MaxToggles,
             UNCHANGED <<topbar, bar, reveal, full, timers, blank>>
      PROVE  ChromeInv'
  BY <1>1, ChromeParts DEF ChromeInv
<1>2. CASE OnBrowserToggled
  <2> DEFINE v == ~sidebar.checked
  <2>1. /\ Toggled /\ sidebar' = [SlideBrowser(v).pane EXCEPT !.checked = ~@]
        /\ slides' = [slides EXCEPT !["sidebar"] = SlideBrowser(v).end]
        /\ UNCHANGED <<topbar, bar, reveal, full, timers, blank>>
    BY <1>2 DEF OnBrowserToggled
  <2>2. v \in BOOLEAN /\ sidebar.checked = ~v
    BY ChromeParts DEF PaneRecord
  <2> HIDE DEF v
  <2>3. /\ SlideBrowser(v).pane \in PaneRecord /\ SlideBrowser(v).end \in Ends
        /\ SlideBrowser(v).pane.checked = sidebar.checked
        /\ SidebarOK([SlideBrowser(v).pane EXCEPT !.checked = v], SlideBrowser(v).end, FALSE)
    BY <2>2, SlidesSidebar
  <2> DEFINE pane == SlideBrowser(v).pane
             end == SlideBrowser(v).end
  <2>4. sidebar' = [pane EXCEPT !.checked = ~@] /\ pane \in PaneRecord /\ pane.checked = ~v
        /\ SidebarOK([pane EXCEPT !.checked = v], end, FALSE)
        /\ end \in Ends /\ slides' = [slides EXCEPT !["sidebar"] = end]
    BY <2>1, <2>2, <2>3
  <2> HIDE DEF pane, end
  <2>5. sidebar' = [pane EXCEPT !.checked = v] /\ sidebar' \in PaneRecord
    BY <2>2, <2>4 DEF PaneRecord
  <2>6. slides' \in [Slide -> Ends] /\ slides'["sidebar"] = end
        /\ slides'["topbar"] = slides["topbar"] /\ slides'["bar"] = slides["bar"]
    BY <2>4, SlideChanged, ChromeParts DEF Slide
  <2>7. SidebarOK(sidebar', slides'["sidebar"], bar.overlay)
    BY <2>4, <2>5, <2>6 DEF SidebarOK
  <2>8. toggles' \in 0..MaxToggles
    BY <2>1, ChromeParts, ChromeAssumption DEF Toggled
  <2> QED  BY <1>1, <2>1, <2>5, <2>6, <2>7, <2>8
<1>3. CASE DragHandle
  <2>1. PICK w \in Widths : sidebar' = [sidebar EXCEPT !.width = w, !.given = @ \cup {w}]
    BY <1>3 DEF DragHandle
  <2>2. slides["sidebar"] = Still
        /\ UNCHANGED <<topbar, bar, reveal, slides, full, timers, blank, toggles>>
    BY <1>3 DEF DragHandle, Sliding
  <2>3. w \in 0..WidthMax
    BY GreatestWidth
  <2>4. /\ sidebar' \in PaneRecord /\ sidebar'.width = w /\ sidebar'.given = sidebar.given \cup {w}
        /\ sidebar'.visible = sidebar.visible /\ sidebar'.checked = sidebar.checked
        /\ sidebar'.remembered = sidebar.remembered
    BY <2>1, <2>3, ChromeParts DEF PaneRecord
  <2>5. SidebarOK(sidebar', slides'["sidebar"], bar.overlay)
    BY <2>2, <2>4, ChromeParts DEF SidebarOK
  <2> QED  BY <1>1, <2>2, <2>4, <2>5, ChromeParts
<1>4. CASE StepSidebar
  <2> DEFINE end == slides["sidebar"]
  <2>1. PICK w \in Between(sidebar.width, end) :
          LET s == [sidebar EXCEPT !.width = w]
          IN IF w = end
               THEN /\ sidebar' = BrowserVisible(s, w > 0)
                    /\ slides' = [slides EXCEPT !["sidebar"] = Still]
               ELSE sidebar' = s /\ UNCHANGED slides
    BY <1>4 DEF StepSidebar
  <2>2. end # Still /\ UNCHANGED <<topbar, bar, reveal, full, timers, blank, toggles>>
    BY <1>4 DEF StepSidebar, Sliding
  <2>3. w \in 0..WidthMax
    BY <2>1 DEF Between
  <2> DEFINE s == [sidebar EXCEPT !.width = w]
  <2>4. /\ s \in PaneRecord /\ s.width = w /\ s.given = sidebar.given
        /\ s.visible = sidebar.visible /\ s.checked = sidebar.checked
        /\ s.remembered = sidebar.remembered
    BY <2>3, ChromeParts DEF PaneRecord
  <2>5. sidebar.remembered \in sidebar.given /\ sidebar.visible
        /\ (~bar.overlay => sidebar.checked = (end > 0))
    BY <2>2, ChromeParts DEF SidebarOK
  <2>6. IF w = end THEN /\ sidebar' = BrowserVisible(s, w > 0)
                        /\ slides' = [slides EXCEPT !["sidebar"] = Still]
                   ELSE sidebar' = s /\ UNCHANGED slides
    BY <2>1
  <2> HIDE DEF s
  <2>7. CASE w # end
    <3>1. SidebarOK(sidebar', slides'["sidebar"], bar.overlay)
      BY <2>2, <2>4, <2>5, <2>6, <2>7 DEF SidebarOK
    <3> QED  BY <1>1, <2>2, <2>4, <2>6, <2>7, <3>1, ChromeParts
  <2>8. CASE w = end
    <3>1. sidebar' = BrowserVisible(s, w > 0) /\ slides' = [slides EXCEPT !["sidebar"] = Still]
      BY <2>6, <2>8
    <3>2. slides' \in [Slide -> Ends] /\ slides'["sidebar"] = Still
          /\ slides'["topbar"] = slides["topbar"] /\ slides'["bar"] = slides["bar"]
      BY <3>1, SlideChanged, ChromeParts DEF Slide, Ends
    <3>3. CASE w > 0
      <4>1. sidebar' = [s EXCEPT !.visible = TRUE, !.width = s.remembered]
        BY <3>1, <3>3 DEF BrowserVisible
      <4>2. s.remembered \in 0..WidthMax
        BY <2>4, GreatestWidth DEF PaneRecord
      <4>3. /\ sidebar' \in PaneRecord /\ sidebar'.visible /\ sidebar'.width = s.remembered
            /\ sidebar'.given = s.given /\ sidebar'.remembered = s.remembered
            /\ sidebar'.checked = s.checked
        BY <2>4, <4>1, <4>2 DEF PaneRecord
      <4>4. SidebarOK(sidebar', slides'["sidebar"], bar.overlay)
        BY <2>4, <2>5, <2>8, <3>2, <3>3, <4>3 DEF SidebarOK
      <4> QED  BY <1>1, <2>2, <3>2, <4>3, <4>4, ChromeParts
    <3>4. CASE ~(w > 0)
      <4>1. ~(s.visible /\ s.width >= MinWidth)
        BY <2>3, <2>4, <3>4, GreatestWidth
      <4>2. sidebar' = [s EXCEPT !.visible = FALSE, !.width = 0, !.remembered = s.remembered]
        BY <3>1, <3>4, <4>1 DEF BrowserVisible
      <4>3. s.remembered \in Widths /\ 0 \in 0..WidthMax
        BY <2>4, GreatestWidth DEF PaneRecord
      <4>4. /\ sidebar' \in PaneRecord /\ ~sidebar'.visible
            /\ sidebar'.given = s.given /\ sidebar'.remembered = s.remembered
            /\ sidebar'.checked = s.checked
        BY <2>4, <4>2, <4>3 DEF PaneRecord
      <4>5. s.checked \in BOOLEAN
        BY <2>4 DEF PaneRecord
      <4>6. sidebar'.visible = FALSE /\ sidebar'.remembered \in sidebar'.given
        BY <2>4, <2>5, <4>4 DEF PaneRecord
      <4>7. ~bar.overlay => sidebar'.checked = FALSE
        BY <2>4, <2>5, <2>8, <3>4, <4>4, <4>5
      <4>8. SidebarOK(sidebar', slides'["sidebar"], bar.overlay)
        BY <3>2, <4>6, <4>7 DEF SidebarOK
      <4> QED  BY <1>1, <2>2, <3>2, <4>4, <4>8, ChromeParts
    <3> QED  BY <3>3, <3>4
  <2> QED  BY <2>7, <2>8
<1> QED  BY <1>2, <1>3, <1>4

(* The steps of the other slides, and of the Reveal.                       *)
LEMMA SlideSteps ==
  ASSUME ChromeInv, StepTopbar \/ StepBar \/ StepReveal
  PROVE  ChromeInv'
<1>1. CASE StepTopbar
  <2> DEFINE end == slides["topbar"]
  <2>1. PICK h \in Between(topbar.height, end) :
          IF h = end
            THEN /\ topbar' = [visible |-> h > 0, height |-> h]
                 /\ slides' = [slides EXCEPT !["topbar"] = Still]
            ELSE topbar' = [topbar EXCEPT !.height = h] /\ UNCHANGED slides
    BY <1>1 DEF StepTopbar
  <2>2. end # Still /\ UNCHANGED <<sidebar, bar, reveal, full, timers, blank, toggles>>
    BY <1>1 DEF StepTopbar, Sliding
  <2>3. end = IF bar.overlay THEN 0 ELSE Full
    BY <2>2, ChromeParts DEF TopOK
  <2>4. h \in 0..Full
    BY <2>1, <2>3, ChromeParts DEF Between, Full
  <2>5. CASE h # end
    <3>1. topbar' \in [visible : BOOLEAN, height : 0..Full] /\ slides' = slides
      BY <2>1, <2>4, <2>5, ChromeParts
    <3>2. TopOK(topbar', slides'["topbar"], bar'.overlay)
      BY <2>2, <2>3, <3>1 DEF TopOK
    <3> QED  BY <2>2, <3>1, <3>2, ChromeParts DEF ChromeInv
  <2>6. CASE h = end
    <3>1. topbar' = [visible |-> h > 0, height |-> h] /\ slides' = [slides EXCEPT !["topbar"] = Still]
      BY <2>1, <2>6
    <3>2. slides' \in [Slide -> Ends] /\ slides'["topbar"] = Still
          /\ slides'["sidebar"] = slides["sidebar"] /\ slides'["bar"] = slides["bar"]
      BY <3>1, SlideChanged, ChromeParts DEF Slide, Ends
    <3>3. (h > 0) = ~bar.overlay /\ h = IF bar.overlay THEN 0 ELSE Full
      BY <2>3, <2>6, ChromeParts DEF Full
    <3>4. topbar' \in [visible : BOOLEAN, height : 0..Full]
      BY <2>4, <3>1
    <3>5. TopOK(topbar', slides'["topbar"], bar'.overlay)
      BY <2>2, <3>1, <3>2, <3>3 DEF TopOK
    <3> QED  BY <2>2, <3>2, <3>4, <3>5, ChromeParts DEF ChromeInv
  <2> QED  BY <2>5, <2>6
<1>2. CASE StepBar
  <2> DEFINE end == slides["bar"]
  <2>1. PICK h \in Between(bar.dock, end) \cup ({bar.dock} \cap {end}) :
          IF h = end
            THEN Landed(h) /\ slides' = [slides EXCEPT !["bar"] = Still]
            ELSE bar' = [bar EXCEPT !.dock = h] /\ UNCHANGED <<reveal, slides>>
    BY <1>2 DEF StepBar
  <2>2. end # Still /\ UNCHANGED <<sidebar, topbar, full, timers, blank, toggles>>
    BY <1>2 DEF StepBar, Sliding
  <2>3. /\ end = IF bar.overlay THEN 0 ELSE Full
        /\ bar.dock # Still /\ ~bar.docked /\ (~bar.overlay => bar.visible /\ ~reveal.running)
        /\ bar.dock \in 0..Full
    BY <2>2, ChromeParts DEF BarOK
  <2>4. h \in 0..Full
    BY <2>1, <2>3, ChromeParts DEF Between, Full
  <2>5. CASE h # end
    <3>1. bar' = [bar EXCEPT !.dock = h] /\ reveal' = reveal /\ slides' = slides
      BY <2>1, <2>5
    <3>2. /\ bar' \in BarRecord /\ bar'.dock = h /\ bar'.overlay = bar.overlay
          /\ bar'.docked = bar.docked /\ bar'.visible = bar.visible /\ bar'.floor = bar.floor
      BY <2>4, <3>1, ChromeParts DEF BarRecord
    <3>3. h # Still
      BY <2>4 DEF Still, Full
    <3>4. BarOK(bar', reveal', slides'["bar"], timers')
      BY <2>2, <2>3, <3>1, <3>2, <3>3, ChromeParts DEF BarOK
    <3> QED  BY <2>2, <3>1, <3>2, <3>4, ChromeParts DEF ChromeInv
  <2>6. CASE h = end
    <3>1. Landed(h) /\ slides' = [slides EXCEPT !["bar"] = Still]
      BY <2>1, <2>6
    <3>2. slides' \in [Slide -> Ends] /\ slides'["bar"] = Still
          /\ slides'["sidebar"] = slides["sidebar"] /\ slides'["topbar"] = slides["topbar"]
      BY <3>1, SlideChanged, ChromeParts DEF Slide, Ends
    <3>3. ASSUME bar' \in BarRecord, reveal' \in RevealRecord, bar'.overlay = bar.overlay,
                 BarOK(bar', reveal', Still, timers)
          PROVE  ChromeInv'
      BY <2>2, <3>2, <3>3, ChromeParts DEF ChromeInv
    <3>4. CASE bar.overlay /\ bar.floor > 0
      <4>1. bar' = [bar EXCEPT !.dock = Still] /\ reveal' = reveal
        BY <2>3, <2>6, <3>1, <3>4 DEF Landed
      <4>2. /\ bar' \in BarRecord /\ bar'.dock = Still /\ bar'.overlay = bar.overlay
            /\ bar'.docked = bar.docked /\ bar'.visible = bar.visible /\ bar'.floor = bar.floor
        BY <4>1, ChromeParts DEF BarRecord
      <4>3. BarOK(bar', reveal', Still, timers)
        BY <2>3, <3>4, <4>1, <4>2, ChromeParts DEF BarOK
      <4> QED  BY <3>3, <4>1, <4>2, <4>3, ChromeParts
    <3>5. CASE bar.overlay /\ ~(bar.floor > 0)
      <4>1. bar' = [bar EXCEPT !.dock = Still, !.visible = FALSE] /\ HideNow
        BY <2>3, <2>6, <3>1, <3>5 DEF Landed
      <4>2. /\ bar' \in BarRecord /\ bar'.dock = Still /\ bar'.overlay = bar.overlay
            /\ bar'.docked = bar.docked /\ bar'.visible = FALSE
        BY <4>1, ChromeParts DEF BarRecord
      <4>3. reveal' \in RevealRecord /\ reveal'.t = 0 /\ reveal'.target = 0 /\ reveal'.running = FALSE
        BY <4>1 DEF HideNow, RevealRecord, Full
      <4>4. bar'.docked = FALSE /\ bar'.overlay = TRUE /\ (reveal'.target > 0) = FALSE
        BY <2>3, <3>5, <4>2, <4>3, ChromeParts
      <4>5. bar'.visible = (reveal'.target > 0)
        BY <4>2, <4>4, Zenon
      <4>6. BarOK(bar', reveal', Still, timers)
        BY <4>2, <4>3, <4>4, <4>5 DEF BarOK
      <4> QED  BY <3>3, <4>2, <4>3, <4>6
    <3>6. CASE ~bar.overlay
      <4>1. bar' = [bar EXCEPT !.dock = Still, !.docked = TRUE, !.visible = TRUE] /\ HideNow
        BY <2>3, <2>6, <3>1, <3>6 DEF Landed, Full
      <4>2. /\ bar' \in BarRecord /\ bar'.dock = Still /\ bar'.overlay = bar.overlay
            /\ bar'.docked = TRUE /\ bar'.visible = TRUE
        BY <4>1, ChromeParts DEF BarRecord
      <4>3. reveal' \in RevealRecord /\ reveal'.running = FALSE
        BY <4>1 DEF HideNow, RevealRecord, Full
      <4>4. BarOK(bar', reveal', Still, timers)
        BY <3>6, <4>2, <4>3, ChromeParts DEF BarOK
      <4> QED  BY <3>3, <4>2, <4>3, <4>4
    <3> QED  BY <3>4, <3>5, <3>6
  <2> QED  BY <2>5, <2>6
<1>3. CASE StepReveal
  <2>1. PICK t \in Between(reveal.t, reveal.target) :
          /\ reveal' = [reveal EXCEPT !.t = t, !.running = t # reveal.target]
          /\ bar' = [bar EXCEPT !.visible = @ /\ t # 0]
    BY <1>3 DEF StepReveal
  <2>2. reveal.running /\ UNCHANGED <<sidebar, topbar, slides, full, timers, blank, toggles>>
    BY <1>3 DEF StepReveal
  <2>3. t \in 0..Full /\ (reveal.target # 0 => t # 0)
    BY <2>1, ChromeParts DEF Between, Full
  <2>4. /\ reveal' \in RevealRecord /\ reveal'.t = t /\ reveal'.target = reveal.target
        /\ reveal'.running = (t # reveal.target)
    BY <2>1, <2>3, ChromeParts DEF RevealRecord
  <2>5. /\ bar' \in BarRecord /\ bar'.dock = bar.dock /\ bar'.overlay = bar.overlay
        /\ bar'.docked = bar.docked /\ bar'.floor = bar.floor
        /\ bar'.visible = (bar.visible /\ t # 0)
    BY <2>1, ChromeParts DEF BarRecord
  <2>6. bar.overlay
    BY <2>2, ChromeParts DEF BarOK
  <2>7. BarOK(bar', reveal', slides'["bar"], timers')
    <3>1. CASE bar.dock = Still \/ bar.floor > 0
      <4>1. bar.visible /\ (reveal.target > 0 => "controls" \in timers)
        BY <2>2, <2>6, <3>1, ChromeParts DEF BarOK
      <4>2. (t # reveal.target => t # 0) /\ (t = reveal.target => (t # 0) = (reveal.target > 0))
        BY <2>3, ChromeParts DEF Full
      <4> QED  BY <2>2, <2>4, <2>5, <2>6, <4>1, <4>2, ChromeParts DEF BarOK
    <3>2. CASE ~(bar.dock = Still \/ bar.floor > 0)
      BY <2>2, <2>4, <2>5, <2>6, <3>2, ChromeParts DEF BarOK
    <3> QED  BY <3>1, <3>2
  <2> QED  BY <2>2, <2>4, <2>5, <2>7, ChromeParts DEF ChromeInv
<1> QED  BY <1>1, <1>2, <1>3

(* A slide of the top bar starts.                                          *)
LEMMA SlidesTopbar ==
  ASSUME ChromeInv, NEW v \in BOOLEAN
  PROVE  /\ SlideToolbar(v).pane \in [visible : BOOLEAN, height : 0..Full]
         /\ SlideToolbar(v).end \in Ends
         /\ TopOK(SlideToolbar(v).pane, SlideToolbar(v).end, ~v)
<1> DEFINE stands == IF topbar.visible THEN topbar.height ELSE 0
           target == IF v THEN Full ELSE 0
<1>1. stands \in 0..Full /\ target \in 0..Full /\ target # Still /\ target \in Ends /\ Still \in Ends
  BY ChromeParts, GreatestWidth DEF Full, Still, Ends
<1>2. SlideToolbar(v) =
        IF stands = target THEN [pane |-> [visible |-> v, height |-> target], end |-> Still]
        ELSE [pane |-> [visible |-> TRUE, height |-> stands], end |-> target]
  BY DEF SlideToolbar
<1>3. target = IF v THEN Full ELSE 0
  OBVIOUS
<1> HIDE DEF stands, target
<1>4. CASE stands = target
  <2>1. SlideToolbar(v).pane = [visible |-> v, height |-> target] /\ SlideToolbar(v).end = Still
    BY <1>2, <1>4
  <2> QED  BY <1>1, <1>3, <2>1 DEF TopOK
<1>5. CASE stands # target
  <2>1. SlideToolbar(v).pane = [visible |-> TRUE, height |-> stands]
        /\ SlideToolbar(v).end = target
    BY <1>2, <1>5
  <2> QED  BY <1>1, <1>3, <2>1 DEF TopOK
<1> QED  BY <1>4, <1>5

(* Fullscreen is entered or left, by the user or by the compositor.        *)
LEMMA FullscreenSteps ==
  ASSUME ChromeInv, ToggleFullscreen \/ CompositorChanges \/ OnFullscreenSettled
  PROVE  ChromeInv'
<1>1. ASSUME Toggled PROVE toggles' \in 0..MaxToggles
  BY <1>1, ChromeParts, ChromeAssumption DEF Toggled
<1>2. CASE ToggleFullscreen
  <2> DEFINE entering == ~full.on
             side == SlideBrowser(~entering /\ sidebar.checked)
             top == SlideToolbar(~entering)
             bars == IF bar.overlay = entering THEN slides["bar"]
                     ELSE IF entering THEN 0 ELSE Full
  <2>1. /\ Toggled
        /\ IF entering THEN EnterOverlay ELSE ExitOverlay
        /\ sidebar' = side.pane /\ topbar' = top.pane
        /\ slides' = [k \in Slide |->
             CASE k = "sidebar" -> side.end [] k = "topbar" -> top.end
               [] OTHER -> IF bar.overlay = entering THEN slides[k] ELSE IF entering THEN 0 ELSE Full]
        /\ full' = [on |-> entering, settled |-> FALSE]
        /\ timers' = (IF entering THEN {"pacing", "cursor"} \cup timers
                      ELSE IF bar.overlay THEN {} ELSE timers \ {"pacing"})
        /\ blank' = (blank /\ ~entering /\ ~bar.overlay)
    BY <1>2 DEF ToggleFullscreen
  <2>2. entering \in BOOLEAN
    BY ChromeParts
  <2>3. side.pane \in PaneRecord /\ side.end \in Ends /\ SidebarOK(side.pane, side.end, entering)
    <3> DEFINE v == ~entering /\ sidebar.checked
               pane == SlideBrowser(v).pane
               end == SlideBrowser(v).end
    <3>1. v \in BOOLEAN /\ (~entering => v = sidebar.checked)
      BY ChromeParts DEF PaneRecord
    <3> HIDE DEF v
    <3>2. pane \in PaneRecord /\ end \in Ends /\ pane.checked = sidebar.checked
          /\ SidebarOK([pane EXCEPT !.checked = v], end, FALSE)
      BY <3>1, SlidesSidebar
    <3> HIDE DEF pane, end
    <3>3. SidebarOK(pane, end, entering)
      BY <2>2, <3>1, <3>2 DEF SidebarOK, PaneRecord
    <3> QED  BY <3>2, <3>3 DEF v, pane, end
  <2>4. /\ top.pane \in [visible : BOOLEAN, height : 0..Full] /\ top.end \in Ends
        /\ TopOK(top.pane, top.end, entering)
    <3> DEFINE v == ~entering
    <3>1. v \in BOOLEAN /\ (~v <=> entering)
      BY <2>2
    <3> HIDE DEF v
    <3>2. /\ SlideToolbar(v).pane \in [visible : BOOLEAN, height : 0..Full]
          /\ SlideToolbar(v).end \in Ends
          /\ TopOK(SlideToolbar(v).pane, SlideToolbar(v).end, ~v)
      BY <3>1, SlidesTopbar
    <3>3. (~v) = entering
      BY <2>2, <3>1
    <3> QED  BY <3>2, <3>3 DEF v
  <2>5. bars \in Ends
    BY ChromeParts, GreatestWidth DEF Ends, Full, Slide
  <2> HIDE DEF side, top
  <2>6. slides' \in [Slide -> Ends] /\ slides'["sidebar"] = side.end
        /\ slides'["topbar"] = top.end /\ slides'["bar"] = bars
    BY <2>1, <2>3, <2>4, <2>5 DEF Slide
  <2>7. /\ full' \in [on : BOOLEAN, settled : BOOLEAN]
        /\ timers' \subseteq {"controls", "cursor", "pacing"} /\ blank' = FALSE
        /\ full'.settled = (full'.on /\ "pacing" \notin timers')
        /\ (entering => timers \subseteq timers')
    BY <2>1, <2>2, ChromeParts
  <2>8. ASSUME bar' \in BarRecord, reveal' \in RevealRecord, bar'.overlay = entering,
               BarOK(bar', reveal', bars, timers')
        PROVE  ChromeInv'
    BY <1>1, <2>1, <2>3, <2>4, <2>6, <2>7, <2>8 DEF ChromeInv
  <2>9. CASE bar.overlay = entering
    <3>1. UNCHANGED <<bar, reveal>> /\ bars = slides["bar"]
      BY <2>1, <2>9 DEF EnterOverlay, ExitOverlay
    <3>2. BarOK(bar', reveal', bars, timers')
      BY <2>7, <2>9, <3>1, ChromeParts DEF BarOK
    <3> QED  BY <2>8, <2>9, <3>1, <3>2, ChromeParts
  <2>10. CASE bar.overlay # entering /\ entering
    <3> DEFINE d == IF bar.dock = Still THEN Full ELSE bar.dock
    <3>1. /\ bar' = [overlay |-> TRUE, docked |-> FALSE, visible |-> TRUE, floor |-> 0, dock |-> d]
          /\ reveal' = [t |-> Full, target |-> Full, running |-> FALSE] /\ bars = 0
      BY <2>1, <2>10, ChromeParts DEF EnterOverlay, ShowNow
    <3>2. d \in 0..Full /\ d # Still
      BY ChromeParts DEF Full, Still
    <3> HIDE DEF d
    <3>3. bar' \in BarRecord /\ reveal' \in RevealRecord
      BY <3>1, <3>2 DEF BarRecord, RevealRecord, Full
    <3>4. /\ bar'.overlay = TRUE /\ bar'.docked = FALSE /\ bar'.dock # Still
          /\ ~(bar'.floor > 0) /\ bars = 0 /\ bars # Still
      BY <3>1, <3>2 DEF Still
    <3> HIDE DEF bars
    <3>5. BarOK(bar', reveal', bars, timers')
      BY <3>4 DEF BarOK
    <3> QED  BY <2>8, <2>10, <3>1, <3>3, <3>5
  <2>11. CASE bar.overlay # entering /\ ~entering
    <3> DEFINE revealed == reveal.target > 0 /\ (bar.dock = Still \/ bar.floor > 0)
               f == IF revealed THEN Full ELSE 0
               d == IF bar.dock = Still THEN 0 ELSE bar.dock
    <3>1. /\ bar' = [bar EXCEPT !.overlay = FALSE, !.visible = TRUE, !.floor = f, !.dock = d]
          /\ reveal' = [t |-> Full, target |-> Full, running |-> FALSE] /\ bars = Full
          /\ bar.overlay
      BY <2>1, <2>11, ChromeParts DEF ExitOverlay, ShowNow
    <3>2. d \in 0..Full /\ d # Still /\ f \in {0, Full} /\ ~bar.docked
      BY <3>1, ChromeParts DEF Full, Still, BarOK
    <3> HIDE DEF d, f
    <3>3. /\ bar' \in BarRecord /\ bar'.overlay = FALSE /\ bar'.visible = TRUE
          /\ bar'.dock = d /\ bar'.docked = FALSE
      BY <3>1, <3>2, ChromeParts DEF BarRecord
    <3>4. reveal' \in RevealRecord /\ reveal'.running = FALSE
      BY <3>1 DEF RevealRecord, Full
    <3> HIDE DEF bars
    <3>5. bar'.dock # Still /\ bars = Full /\ bars # Still
      BY <3>1, <3>2, <3>3 DEF Still, Full
    <3>6. BarOK(bar', reveal', bars, timers')
      BY <3>3, <3>4, <3>5 DEF BarOK
    <3> QED  BY <2>8, <2>11, <3>1, <3>3, <3>4, <3>6
  <2> QED  BY <2>2, <2>9, <2>10, <2>11
<1>3. ASSUME UNCHANGED <<sidebar, topbar, bar, reveal, slides, blank>>,
             toggles' \in 0..MaxToggles, full' \in [on : BOOLEAN, settled : BOOLEAN],
             timers' \ {"pacing"} = timers \ {"pacing"},
             full'.settled = (full'.on /\ "pacing" \notin timers')
      PROVE  ChromeInv'
  <2>1. timers' \subseteq {"controls", "cursor", "pacing"}
        /\ ("controls" \in timers => "controls" \in timers')
    BY <1>3, ChromeParts
  <2>2. BarOK(bar', reveal', slides'["bar"], timers')
    BY <1>3, <2>1, ChromeParts DEF BarOK
  <2> QED  BY <1>3, <2>1, <2>2, ChromeParts DEF ChromeInv
<1>4. CASE CompositorChanges
  BY <1>1, <1>3, <1>4, ChromeParts DEF CompositorChanges
<1>5. CASE OnFullscreenSettled
  <2>1. full' \in [on : BOOLEAN, settled : BOOLEAN] /\ full'.on = full.on /\ full'.settled = full.on
    BY <1>5, ChromeParts DEF OnFullscreenSettled
  <2> QED  BY <1>3, <1>5, <2>1, ChromeParts DEF OnFullscreenSettled
<1> QED  BY <1>2, <1>4, <1>5

(* The pointer, and the timers that hide the bar and the pointer.          *)
LEMMA PointerSteps ==
  ASSUME ChromeInv,
         MouseMoved \/ ShowPlayerCursor \/ PointerLeaves \/ AutoHideControls \/ AutoHideCursor
  PROVE  ChromeInv'
<1>1. ASSUME UNCHANGED <<sidebar, topbar, slides, full, toggles>>,
             bar' \in BarRecord, bar'.overlay = bar.overlay, reveal' \in RevealRecord,
             timers' \subseteq {"controls", "cursor", "pacing"},
             "pacing" \in timers' <=> "pacing" \in timers,
             BarOK(bar', reveal', slides["bar"], timers'),
             blank' \in BOOLEAN, blank' => bar.overlay
      PROVE  ChromeInv'
  <2>1. full'.settled = (full'.on /\ "pacing" \notin timers')
    BY <1>1, ChromeParts
  <2> QED  BY <1>1, <2>1, ChromeParts DEF ChromeInv
<1>2. ASSUME UNCHANGED <<sidebar, topbar, bar, reveal, slides, full, toggles>>,
             timers' \subseteq {"controls", "cursor", "pacing"},
             timers' \ {"cursor"} = timers \ {"cursor"},
             blank' \in BOOLEAN, blank' => bar.overlay
      PROVE  ChromeInv'
  <2>1. ("pacing" \in timers' <=> "pacing" \in timers)
        /\ ("controls" \in timers' <=> "controls" \in timers)
    BY <1>2
  <2>2. BarOK(bar', reveal', slides["bar"], timers')
    BY <1>2, <2>1, ChromeParts DEF BarOK
  <2> QED  BY <1>1, <1>2, <2>1, <2>2, ChromeParts
<1>3. CASE ShowPlayerCursor
  BY <1>2, <1>3, ChromeParts DEF ShowPlayerCursor
<1>4. CASE PointerLeaves
  BY <1>2, <1>4, ChromeParts DEF PointerLeaves
<1>5. CASE AutoHideCursor
  BY <1>2, <1>5, ChromeParts DEF AutoHideCursor
<1>6. CASE MouseMoved
  <2>1. /\ bar.overlay /\ blank' = FALSE /\ timers' = timers \cup {"controls", "cursor"}
        /\ UNCHANGED <<sidebar, topbar, slides, full, toggles>> /\ RevealControls
    BY <1>6 DEF MouseMoved, RevealControls
  <2>2. timers' \subseteq {"controls", "cursor", "pacing"} /\ "controls" \in timers'
        /\ ("pacing" \in timers' <=> "pacing" \in timers)
    BY <2>1, ChromeParts
  <2>3. ASSUME bar' \in BarRecord, bar'.overlay = bar.overlay, reveal' \in RevealRecord,
               BarOK(bar', reveal', slides["bar"], timers')
        PROVE  ChromeInv'
    BY <1>1, <2>1, <2>2, <2>3
  <2>4. ASSUME NEW f \in {0, Full}, NEW t \in 0..Full,
               bar' = [bar EXCEPT !.floor = f, !.visible = TRUE], reveal' = Run(t, Full)
        PROVE  ChromeInv'
    <3>1. /\ bar' \in BarRecord /\ bar'.overlay = bar.overlay /\ bar'.docked = bar.docked
          /\ bar'.dock = bar.dock /\ bar'.visible = TRUE
      BY <2>4, ChromeParts DEF BarRecord
    <3>2. /\ reveal' \in RevealRecord /\ reveal'.target = Full /\ reveal'.t = t
          /\ reveal'.running = (t # Full)
      BY <2>4 DEF Run, RevealRecord
    <3>3. /\ bar'.visible = (reveal'.target > 0)
          /\ (~reveal'.running => reveal'.t = reveal'.target)
      <4>1. (reveal'.target > 0) = TRUE
        BY <3>2 DEF Full
      <4>2. bar'.visible = (reveal'.target > 0)
        BY <3>1, <4>1, Zenon
      <4> QED  BY <3>2, <4>2
    <3>4. BarOK(bar', reveal', slides["bar"], timers')
      BY <2>1, <2>2, <3>1, <3>3, ChromeParts DEF BarOK
    <3> QED  BY <2>3, <3>1, <3>2, <3>4
  <2>5. CASE bar.dock # Still /\ bar.floor = 0
    <3>1. bar' = [bar EXCEPT !.floor = Full, !.visible = TRUE] /\ reveal' = Run(bar.dock, Full)
          /\ bar.dock \in 0..Full
      BY <2>1, <2>5, ChromeParts DEF RevealControls
    <3> QED  BY <2>4, <3>1
  <2>6. CASE ~(bar.dock # Still /\ bar.floor = 0) /\ reveal.target = 0
    <3>1. bar' = [bar EXCEPT !.visible = TRUE] /\ reveal' = Run(reveal.t, Full)
      BY <2>1, <2>6 DEF RevealControls
    <3>2. bar' = [bar EXCEPT !.floor = bar.floor, !.visible = TRUE]
      BY <3>1, ChromeParts DEF BarRecord
    <3> QED  BY <2>4, <3>1, <3>2, ChromeParts
  <2>7. CASE ~(bar.dock # Still /\ bar.floor = 0) /\ reveal.target # 0
    <3>1. UNCHANGED <<bar, reveal>>
      BY <2>1, <2>7 DEF RevealControls
    <3>2. BarOK(bar', reveal', slides["bar"], timers')
      BY <2>1, <2>2, <3>1, ChromeParts DEF BarOK
    <3> QED  BY <2>3, <3>1, <3>2, ChromeParts
  <2> QED  BY <2>5, <2>6, <2>7
<1>7. CASE AutoHideControls
  <2>1. /\ timers' = timers \ {"controls"}
        /\ UNCHANGED <<sidebar, topbar, slides, full, blank, toggles>>
    BY <1>7 DEF AutoHideControls
  <2>2. timers' \subseteq {"controls", "cursor", "pacing"}
        /\ ("pacing" \in timers' <=> "pacing" \in timers)
    BY <2>1, ChromeParts
  <2>3. CASE ~bar.overlay
    <3>1. UNCHANGED <<bar, reveal>>
      BY <1>7, <2>3 DEF AutoHideControls
    <3>2. BarOK(bar', reveal', slides["bar"], timers')
      BY <2>3, <3>1, ChromeParts DEF BarOK
    <3> QED  BY <1>1, <2>1, <2>2, <3>1, <3>2, ChromeParts
  <2>4. CASE bar.overlay
    <3> DEFINE t == IF bar.visible THEN reveal.t ELSE 0
    <3>1. reveal' = [t |-> t, target |-> 0, running |-> t # 0]
          /\ bar' = [bar EXCEPT !.visible = @ /\ reveal.t # 0]
      BY <1>7, <2>4 DEF AutoHideControls, Run
    <3>2. t \in 0..Full /\ (t # 0 <=> bar.visible /\ reveal.t # 0)
      BY ChromeParts DEF Full
    <3> HIDE DEF t
    <3>3. /\ reveal' \in RevealRecord /\ reveal'.t = t /\ reveal'.target = 0
          /\ reveal'.running = (t # 0)
      BY <3>1, <3>2 DEF RevealRecord
    <3>4. /\ bar' \in BarRecord /\ bar'.overlay = bar.overlay /\ bar'.docked = bar.docked
          /\ bar'.dock = bar.dock /\ bar'.floor = bar.floor
          /\ bar'.visible = (bar.visible /\ reveal.t # 0)
      BY <3>1, ChromeParts DEF BarRecord
    <3>5. BarOK(bar', reveal', slides["bar"], timers')
      BY <2>4, <3>2, <3>3, <3>4, ChromeParts DEF BarOK
    <3> QED  BY <1>1, <2>1, <2>2, <3>3, <3>4, <3>5, ChromeParts
  <2> QED  BY <2>3, <2>4, ChromeParts
<1> QED  BY <1>3, <1>4, <1>5, <1>6, <1>7

(* What slides around the video keeps the invariant.                       *)
THEOREM ChromeInvariant == ChromeSpec => []ChromeInv
<1>1. ChromeInv /\ UNCHANGED chromeVars => ChromeInv'
  BY DEF ChromeInv, chromeVars
<1>2. ChromeInv /\ ChromeNext => ChromeInv'
  BY SidebarSteps, SlideSteps, FullscreenSteps, PointerSteps DEF ChromeNext, Animate
<1> QED  BY <1>1, <1>2, ChromeBegins, PTL DEF ChromeSpec

(* Once nothing moves, the sidebar, the bars, the pointer and mpv's timing *)
(* fit each other and the fullscreen the window is in (ChromeSettled), for *)
(* any number of toggles and wherever they cut a slide short.              *)
THEOREM ChromeSettles == ChromeSpec => []ChromeSettled
<1>1. ChromeInv => ChromeSettled
  <2> SUFFICES ASSUME ChromeInv PROVE ChromeSettled
    OBVIOUS
  <2>1. ASSUME AtRest
        PROVE  /\ ~bar.overlay => sidebar.visible = sidebar.checked
               /\ sidebar.visible => sidebar.width \in sidebar.given
               /\ topbar = [visible |-> ~bar.overlay,
                            height |-> IF bar.overlay THEN 0 ELSE Full]
               /\ bar.dock = Still /\ bar.docked = ~bar.overlay
               /\ bar.visible = (bar.docked \/ reveal.target > 0)
               /\ bar.overlay /\ bar.visible => "controls" \in timers
    <3>1. slides["sidebar"] = Still /\ slides["topbar"] = Still /\ slides["bar"] = Still
          /\ ~reveal.running
      BY <2>1 DEF AtRest, Sliding, Slide
    <3>2. /\ ~bar.overlay => sidebar.visible = sidebar.checked
          /\ sidebar.visible => sidebar.width \in sidebar.given
      BY <3>1, ChromeParts DEF SidebarOK
    <3>3. topbar = [visible |-> ~bar.overlay, height |-> IF bar.overlay THEN 0 ELSE Full]
      BY <3>1, ChromeParts DEF TopOK
    <3>4. bar.dock = Still /\ bar.docked = ~bar.overlay
      BY <3>1, ChromeParts DEF BarOK
    <3>5. bar.visible = (bar.docked \/ reveal.target > 0)
      BY <3>1, <3>4, ChromeParts DEF BarOK
    <3>6. bar.overlay /\ bar.visible => "controls" \in timers
      BY <3>1, <3>4, ChromeParts DEF BarOK
    <3> QED  BY <3>2, <3>3, <3>4, <3>5, <3>6
  <2>2. sidebar.remembered \in sidebar.given
    BY ChromeParts DEF SidebarOK
  <2> QED  BY <2>1, <2>2, ChromeParts DEF ChromeSettled
<1> QED  BY <1>1, ChromeInvariant, PTL

=============================================================================
