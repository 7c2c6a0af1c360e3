--------------------------- MODULE LibraryBrowser ---------------------------
(***************************************************************************)
(* The desktop's Server tab (desktop_client/main_window.py) and what it    *)
(* remembers of each server (browser_state.py). Every slot is a task of    *)
(* its own: a listing, the restoration that follows it, the folders a user *)
(* opens and a reconnection to another server all wait for pages at once.  *)
(* A library is a folder "ab" in a folder "a" on the second page of the    *)
(* root. Rows are a set.                                                   *)
(***************************************************************************)
EXTENDS Integers, Sequences, FiniteSets

CONSTANTS Servers,     \* identities of servers, from 1
          MaxConns,    \* bound: connections
          MaxListings, \* bound: listings started
          MaxUpsets    \* bound: folders the user opens or closes, requests that fail

ASSUME LibraryAssumption ==
  /\ Servers \subseteq Nat \ {0}
  /\ MaxConns \in Nat /\ MaxListings \in Nat /\ MaxUpsets \in Nat

VARIABLES
  linked,  \* the connection self.client is, 0 for None
  conns,   \* the server of each connection, in order
  listing, \* generation, endpoints, tab, restoring, tree visible
  tree,    \* its rows, the folders loaded and the folders open
  saved,   \* BrowserStore.servers: the open folders of each
  fetches, \* fetch_library_page calls that wait for their answer
  touched, \* history: servers whose open folders a user or an error changed
  upsets   \* how many of these there were

libVars == <<linked, conns, listing, tree, saved, fetches, touched, upsets>>

Dir == {"a", "ab"}
Path == Dir \cup {"other", "more"}
Children == [root |-> {"other", "a", "more"}, a |-> {"ab"}, ab |-> {}, more |-> {"a"}]
EmptyTree == [rows |-> {}, loaded |-> {}, open |-> {}]
Fetching == [conn : 1..MaxConns, gen : Nat, slot : {"list", "restore", "user", "more"},
             path : {"root", "more"} \cup Dir]

LibraryTypeOK ==
  /\ linked \in 0..Len(conns) /\ conns \in Seq(Servers) /\ upsets \in 0..MaxUpsets
  /\ listing \in [gen : 0..MaxListings, endpoint : Servers \cup {0},
                  listed : Servers \cup {0}, tab : BOOLEAN, restoring : BOOLEAN,
                  shown : BOOLEAN]
  /\ tree \in [rows : SUBSET [path : Path, of : Servers],
               loaded : SUBSET Dir, open : SUBSET Dir]
  /\ saved \in [Servers -> SUBSET Dir]
  /\ fetches \subseteq Fetching /\ touched \subseteq Servers

(* Earlier sittings with each server left both folders open.               *)
LibraryInit ==
  /\ linked = 0 /\ conns = <<>> /\ upsets = 0
  /\ listing = [gen |-> 0, endpoint |-> 0, listed |-> 0, tab |-> FALSE,
                restoring |-> FALSE, shown |-> FALSE]
  /\ tree = EmptyTree
  /\ saved = [s \in Servers |-> Dir]
  /\ fetches = {} /\ touched = {}

Upset == upsets < MaxUpsets /\ upsets' = upsets + 1
Shows(p) == \E r \in tree.rows : r.path = p
Rows(ps, s) == [path : ps, of : {s}]

(* The open folders that BrowserStore.capture visits.                      *)
Visited == IF "a" \in tree.open THEN tree.open ELSE {}

(* _capture_browser, unless the tree is being restored.                    *)
Captured ==
  IF listing.restoring \/ listing.listed = 0 \/ ~listing.tab THEN saved
  ELSE [saved EXCEPT ![listing.listed] = Visited]

-----------------------------------------------------------------------------
(* One page: the server answers with some of the children, and the cursor  *)
(* of the next page as a row.                                              *)
PageOf(p) == IF p = "root" THEN Children.root \ {"a"} ELSE Children[p]

(* on_refresh_server_library up to its await.                              *)
StartListing(l, c) ==
  /\ listing' = [l EXCEPT !.gen = @ + 1, !.restoring = TRUE, !.shown = FALSE]
  /\ fetches' = fetches \cup
       {[conn |-> c, gen |-> l.gen + 1, slot |-> "list", path |-> "root"]}

(* _remove_server_tab.                                                     *)
RemoveServerTab(l) ==
  /\ listing' = [l EXCEPT !.gen = @ + 1, !.restoring = FALSE, !.tab = FALSE,
                          !.listed = 0, !.shown = FALSE]
  /\ tree' = EmptyTree
  /\ UNCHANGED fetches

(* _adopt_connected_client, for a server with or without a library. The    *)
(* listing is not cancelled with the transition that connected.            *)
Adopt(s, library) ==
  /\ Len(conns) < MaxConns /\ listing.gen < MaxListings
  /\ conns' = Append(conns, s) /\ linked' = Len(conns')
  /\ saved' = Captured
  /\ LET l == [listing EXCEPT !.endpoint = s]
     IN IF library
          THEN StartListing([l EXCEPT !.tab = TRUE], Len(conns) + 1) /\ UNCHANGED tree
          ELSE RemoveServerTab(l)
  /\ UNCHANGED <<touched, upsets>>

(* The user disconnects, or the client is lost.                            *)
DropClient ==
  /\ linked > 0 /\ listing.gen < MaxListings
  /\ linked' = 0 /\ saved' = Captured
  /\ RemoveServerTab(listing)
  /\ UNCHANGED <<conns, touched, upsets>>

(* The refresh button, and on_sort_changed.                                *)
Refresh ==
  /\ linked > 0 /\ listing.tab /\ listing.gen < MaxListings
  /\ saved' = Captured
  /\ StartListing(listing, linked)
  /\ UNCHANGED <<linked, conns, tree, touched, upsets>>

(* _capture_browser from the save timer, or as the window closes.          *)
SaveTimer ==
  /\ saved' = Captured
  /\ UNCHANGED <<linked, conns, listing, tree, fetches, touched, upsets>>

-----------------------------------------------------------------------------
(* Requests in flight, and what their slots do next.                       *)

(* A plausible bug: a listing that was started again since passes for this *)
(* one.                                                                    *)
CurrentClient(f) == f.conn = linked

(* The check after each await: same client, same listing.                  *)
Current(f) == f.conn = linked /\ f.gen = listing.gen

(* _load_server_page and on_server_directory_expanded up to the await: the *)
(* rows of a folder go first, "Load more" goes itself.                     *)
Cleared(p) ==
  [rows |-> {r \in tree.rows : r.path \notin (IF p = "more" THEN {p} ELSE Children[p])},
   loaded |-> (IF p = "more" THEN tree.loaded ELSE tree.loaded \ Children[p]),
   open |-> (IF p = "more" THEN tree.open ELSE tree.open \ Children[p])]

LoadInto(p, slot, t) ==
  /\ tree' = t
  /\ fetches' = fetches \cup
       {[conn |-> linked, gen |-> listing.gen, slot |-> slot, path |-> p]}

UserOpens(p) ==
  /\ linked > 0 /\ listing.shown /\ Shows(p) /\ p \notin tree.open /\ Upset
  /\ p = "ab" => "a" \in tree.open
  /\ touched' = touched \cup {listing.listed}
  /\ IF p \in tree.loaded
       THEN tree' = [tree EXCEPT !.open = @ \cup {p}] /\ UNCHANGED fetches
       ELSE LoadInto(p, "user", [Cleared(p) EXCEPT !.open = @ \cup {p},
                                                   !.loaded = @ \cup {p}])
  /\ UNCHANGED <<linked, conns, listing, saved>>

UserCollapses(p) ==
  /\ listing.shown /\ p \in tree.open /\ Upset
  /\ tree' = [tree EXCEPT !.open = @ \ {p}]
  /\ touched' = touched \cup {listing.listed}
  /\ UNCHANGED <<linked, conns, listing, saved, fetches>>

(* on_server_file_activated of a "more" row.                               *)
LoadMore ==
  /\ linked > 0 /\ listing.shown /\ Shows("more") /\ Upset
  /\ LoadInto("more", "more", Cleared("more"))
  /\ UNCHANGED <<linked, conns, listing, saved, touched>>

(* restore_server_tree: the next page it needs for the saved folders, its  *)
(* ancestors first, and the folders that it opens before.                  *)
NextNeeded(t, context) ==
  LET has(p) == \E r \in t.rows : r.path = p
      wants == {p \in Dir : p \in context /\ has(p) /\ p \notin t.loaded}
  IN IF context = {} THEN {}
     ELSE IF ~has("a") THEN {p \in {"more"} : has(p)}
     ELSE IF "a" \in wants THEN {"a"} ELSE wants

RestoreOn(l, t, f) ==
  LET context == saved[l.listed]
      opened == [t EXCEPT !.open = @ \cup (context \cap t.loaded)]
  IN IF NextNeeded(t, context) = {}
       THEN /\ tree' = opened
            /\ listing' = [l EXCEPT !.restoring = FALSE]
            /\ fetches' = fetches \ {f}
       ELSE \E p \in NextNeeded(t, context) :
              /\ tree' = [opened EXCEPT !.rows = {r \in @ : r.path # "more"}]
              /\ listing' = l
              /\ fetches' = (fetches \ {f}) \cup
                   {[conn |-> linked, gen |-> l.gen, slot |-> "restore", path |-> p]}

(* An answer that nobody waits for any more is dropped.                    *)
AnswerStale(f) ==
  /\ ~Current(f)
  /\ fetches' = fetches \ {f}
  /\ UNCHANGED <<linked, conns, listing, tree, saved, touched, upsets>>

(* The first page of a listing replaces the tree and the restoration       *)
(* starts; an empty library ends it.                                       *)
Relisted(f) ==
  /\ Current(f) /\ f.slot = "list"
  /\ LET of == conns[f.conn]
         l == [listing EXCEPT !.listed = listing.endpoint]
     IN \/ /\ RestoreOn([l EXCEPT !.shown = TRUE],
                        [EmptyTree EXCEPT !.rows = Rows(PageOf("root"), of)], f)
           /\ UNCHANGED <<touched, upsets>>
        \/ /\ tree' = EmptyTree /\ fetches' = fetches \ {f}
           /\ listing' = [l EXCEPT !.restoring = FALSE]
           /\ touched' = touched \cup {of} /\ Upset
  /\ UNCHANGED <<linked, conns, saved>>

(* _append_server_node and _append_server_more: the rows of a page.        *)
WithPage(f) ==
  [tree EXCEPT !.rows = @ \cup Rows(PageOf(f.path), conns[f.conn]),
               !.loaded = @ \cup ({f.path} \cap Dir)]

(* _load_server_page after its await.                                      *)
PageLoaded(f) ==
  /\ Current(f) /\ f.slot # "list"
  /\ IF f.slot = "restore"
       THEN RestoreOn(listing, WithPage(f), f)
       ELSE /\ tree' = WithPage(f) /\ fetches' = fetches \ {f}
            /\ UNCHANGED listing
  /\ UNCHANGED <<linked, conns, saved, touched, upsets>>

(* A plausible bug: the listing that failed is still being restored.       *)
FetchFailsQuietly(f) ==
  /\ Current(f) /\ Upset
  /\ fetches' = fetches \ {f}
  /\ touched' = touched \cup
       {s \in Servers : s = listing.listed /\ f.slot \in {"list", "restore"}}
  /\ UNCHANGED <<linked, conns, listing, tree, saved>>

(* A request fails: the slot says so, and the tree stays as it is.         *)
FetchFails(f) ==
  /\ Current(f) /\ Upset
  /\ fetches' = fetches \ {f}
  /\ listing' = [listing EXCEPT !.restoring = @ /\ f.slot \in {"user", "more"}]
  /\ touched' = touched \cup
       {s \in Servers : s = listing.listed /\ f.slot \in {"list", "restore"}}
  /\ UNCHANGED <<linked, conns, tree, saved>>

(* fetch_library_page: the server answers, or the request fails; of a      *)
(* request that nobody waits for, the answer does not matter.              *)
Answered(f) == AnswerStale(f) \/ Relisted(f) \/ PageLoaded(f) \/ FetchFails(f)

Answers == \E f \in fetches : Answered(f)

LibraryNext ==
  \/ \E s \in Servers, library \in BOOLEAN : Adopt(s, library)
  \/ DropClient \/ Refresh \/ SaveTimer \/ LoadMore
  \/ \E p \in Dir : UserOpens(p) \/ UserCollapses(p)
  \/ Answers

LibrarySpec == LibraryInit /\ [][LibraryNext]_libVars /\ WF_libVars(Answers)

-----------------------------------------------------------------------------
(* The tree shows one server's rows, none below a folder that is gone, and *)
(* while it is visible they are those of the server the next request goes  *)
(* to. What was open on a server is remembered through every reconnection, *)
(* listing and restoration, unless the user changed it or a page failed.   *)
RowsCurrent ==
  /\ \A r \in tree.rows : r.of = listing.listed
  /\ Shows("ab") => Shows("a")
  /\ listing.shown => linked > 0 /\ listing.listed = conns[linked]
  /\ \A s \in Servers \ touched : saved[s] = Dir

ListingAtWork == listing.restoring
=============================================================================
