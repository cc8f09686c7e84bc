------------------------------ MODULE SiteTree -------------------------------
(***************************************************************************)
(* What a selected site covers.  Four pieces of code walk down a tree of   *)
(* sites: the server's withDescendants over the sites the upstream told it *)
(* of (once for "ALL", once for a site), the page's siteWithDescendants    *)
(* over the options of its picker, and the dashboard's subtreeSiteIds,     *)
(* which the Command Center filters by, over the mirror of the metadata.   *)
(* The options themselves come from a fourth walk, visit of getSiteOptions.*)
(*                                                                         *)
(* The walks are synchronous and share nothing, so one is under way at a   *)
(* time; their stacks and the order of the names are abstracted to sets.   *)
(* The upstream and the mirror hold the same tree.                         *)
(***************************************************************************)
EXTENDS Naturals

CONSTANTS
  Site,
  Trees,   \* the trees the metadata may hold: the parent of every site
  None

\* Whose walk it is; "all" is the server's for "ALL", on whose answer the page's
\* view of a site is built.
Walker == {"all", "server", "page", "center"}

ASSUME TreeAssumption ==
  /\ None \notin Site \cup Walker
  /\ Trees \subseteq [Site -> Site \cup {None}]

VARIABLES
  tree,     \* parentSite of the upstream, parent_site_id of the mirror
  allowed,  \* the sites the upstream lets the caller see
  picker,   \* visit: the calls to come, the sites seen, parentOption of each
  site,     \* the site that is selected
  walk,     \* the walk under way: whose, its stack and what it has found
  walked,   \* whose walk for this selection has ended
  covers    \* what it found

treeVars == <<tree, allowed, picker, site, walk, walked, covers>>

Idle == [by |-> None, todo |-> {}, out |-> {}]

Kids(s) == {c \in Site : tree[c] = s}
Roots   == {s \in Site : tree[s] = None}
Opened  == [todo |-> Roots, seen |-> {}, above |-> [s \in Site |-> None]]
Options == picker.seen \cap allowed

TypeOK ==
  /\ tree \in Trees
  /\ allowed \in SUBSET Site
  /\ picker \in [todo : SUBSET Site, seen : SUBSET Site, above : [Site -> Site \cup {None}]]
  /\ site \in Site \cup {None}
  /\ walk \in [by : Walker \cup {None}, todo : SUBSET Site, out : SUBSET Site]
  /\ walked \in SUBSET Walker
  /\ covers \in [Walker -> SUBSET Site]

Init ==
  /\ tree \in Trees
  /\ allowed \in SUBSET Site \ {{}}
  /\ picker = Opened
  /\ site = None
  /\ walk = Idle
  /\ walked = {}
  /\ covers = [w \in Walker |-> {}]

-----------------------------------------------------------------------------
(* The picker                                                              *)

\* The page is opened and asks for the options.
Open ==
  /\ walk = Idle
  /\ picker' = Opened
  /\ site' = None
  /\ walked' = {}
  /\ covers' = [w \in Walker |-> {}]
  /\ UNCHANGED <<tree, allowed, walk>>

\* Mutant: what is below a site that is not offered starts a tree of its own.
UnderTop(s) == IF s \in allowed THEN s ELSE None

\* What the children of a site get as parentOption.
Under(s) == IF s \in allowed THEN s ELSE picker.above[s]

Visit(s) ==
  /\ s \in picker.todo
  /\ LET kids == Kids(s) \ (picker.seen \cup {s}) IN
     picker' = [todo  |-> (picker.todo \ {s}) \cup kids,
                seen  |-> picker.seen \cup {s},
                above |-> [c \in Site |-> IF c \in kids THEN Under(s) ELSE picker.above[c]]]
  /\ UNCHANGED <<tree, allowed, site, walk, walked, covers>>

\* Only what the picker offers can be selected.
Select(s) ==
  /\ picker.todo = {}
  /\ walk = Idle
  /\ s \in Options
  /\ site' = s
  /\ walked' = {}
  /\ covers' = [w \in Walker |-> {}]
  /\ UNCHANGED <<tree, allowed, picker, walk>>

-----------------------------------------------------------------------------
(* The walks                                                               *)

Links(w, s) ==
  CASE w \in {"all", "server"} -> Kids(s) \cap allowed
    [] w = "page"   -> {c \in Options : picker.above[c] = s}
    [] w = "center" -> Kids(s)

\* scopeSiteIds and the Command Center's filter by what the caller may see.
Asked(w) == IF w = "all" THEN allowed ELSE {site} \cap allowed

Ask(w) ==
  /\ site # None
  /\ walk = Idle
  /\ w \notin walked
  /\ walk' = [by |-> w, todo |-> Asked(w), out |-> {}]
  /\ UNCHANGED <<tree, allowed, picker, site, walked, covers>>

\* A site that is popped a second time is skipped.
Skip(s) ==
  /\ s \in walk.todo \cap walk.out
  /\ walk' = [walk EXCEPT !.todo = @ \ {s}]
  /\ UNCHANGED <<tree, allowed, picker, site, walked, covers>>

\* Mutant: only the sites asked for are walked down from.
TakeOneLevel(s) ==
  /\ s \in walk.todo \ walk.out
  /\ walk' = [walk EXCEPT !.todo = (@ \ {s}) \cup IF s \in Asked(walk.by) THEN Links(walk.by, s) ELSE {},
                         !.out = @ \cup {s}]
  /\ UNCHANGED <<tree, allowed, picker, site, walked, covers>>

Take(s) ==
  /\ s \in walk.todo \ walk.out
  /\ walk' = [walk EXCEPT !.todo = (@ \ {s}) \cup Links(walk.by, s), !.out = @ \cup {s}]
  /\ UNCHANGED <<tree, allowed, picker, site, walked, covers>>

Found(w) ==
  /\ walk.by = w
  /\ walk.todo = {}
  /\ covers' = [covers EXCEPT ![w] = walk.out]
  /\ walked' = walked \cup {w}
  /\ walk' = Idle
  /\ UNCHANGED <<tree, allowed, picker, site>>

TreeNext ==
  \/ Open
  \/ \E s \in Site : Visit(s) \/ Select(s) \/ Skip(s) \/ Take(s)
  \/ \E w \in Walker : Ask(w) \/ Found(w)

TreeSpec == Init /\ [][TreeNext]_treeVars

-----------------------------------------------------------------------------
Closed(w, S) == \A s \in S : Links(w, s) \subseteq S

(***************************************************************************)
(* Every walk finds the sites it was asked for and all that its links lead *)
(* to, and nothing else, whatever the order of the stack and also when     *)
(* the parents run in a circle (out.has, seen.has).                        *)
(***************************************************************************)
WalksExact ==
  \A w \in walked :
    /\ Asked(w) \subseteq covers[w]
    /\ Closed(w, covers[w])
    /\ \A S \in SUBSET Site : Asked(w) \subseteq S /\ Closed(w, S) => covers[w] \subseteq S

\* The caller sees all that is below a site they see.
WholeBranches == \A s \in allowed : Kids(s) \subseteq allowed

(***************************************************************************)
(* A site covers the same for the page, for the server and for the Command *)
(* Center when the caller sees whole branches.  When they do not, the      *)
(* page's view still holds exactly those sites of the Command Center's     *)
(* that the caller may see (parentOption steps over the others), and       *)
(* everything the server answers for.                                      *)
(***************************************************************************)
ScopesAgree ==
  {"server", "page", "center"} \subseteq walked =>
    /\ covers["page"] = covers["center"] \cap allowed
    /\ covers["server"] \subseteq covers["page"]
    /\ WholeBranches => covers["server"] = covers["center"]
=============================================================================
