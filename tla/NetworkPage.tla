---------------------------- MODULE NetworkPage -----------------------------
(***************************************************************************)
(* The Network Explorer in one browser tab: the hook useNetworkData, the   *)
(* copies networkCache keeps in IndexedDB, and the tab's sign-in.          *)
(*                                                                         *)
(* A state update, the render and the effects that follow it are one step. *)
(* Requests on the database are executed in the order they are made, so    *)
(* the get of loadSnapshot, the put of saveSnapshot and deleteDatabase are *)
(* part of the step that makes them; only the answer of the get comes      *)
(* later. Data is abstracted to the selection it is of and to the owner of *)
(* the copy it comes from.                                                 *)
(***************************************************************************)
EXTENDS Naturals

CONSTANTS
  Site,     \* single sites of the picker
  All,      \* the selection "ALL"
  Account,  \* who signs in in this tab
  Others,   \* who is signed in in other tabs of the browser
  Quiet,    \* the refreshes of the interval: how many may overlap
  Own,      \* the load of the effect, which its cleanup aborts
  None

ASSUME NetworkAssumption ==
  /\ All \notin Site
  /\ Own \notin Quiet
  /\ None \notin Site \cup Account \cup Others \cup {All}

VARIABLES
  token,   \* inMemoryToken and sessionStorage: the account signed in
  copies,  \* the object store: the owner of the copy of each selection
  page,    \* the state of the mounted hook
  loads    \* the calls of load() that have not ended

vars == <<token, copies, page, loads>>

Selection == Site \cup {All}
Load   == Quiet \cup {Own}
Part   == {"gateways", "meters"}
Owner  == Account \cup Others \cup {None}
Data   == [site : Selection, label : Owner]
Fresh(site) == [site |-> site, label |-> None]
Nothing == [p \in Part |-> None]

\* What a call of load() still has to do: answer the mounted page, store a
\* copy for a page that was left, or nothing but end.
LoadState == [for : {"nobody", "page", "copy", "left"}, site : Selection,
              first : BOOLEAN, signed : BOOLEAN,
              refused : BOOLEAN]

Idle == [for |-> "nobody", site |-> All, first |-> FALSE, signed |-> FALSE, refused |-> FALSE]

Request(site, first) ==
  [for |-> "page", site |-> site, first |-> first, signed |-> token # None, refused |-> FALSE]

PageState == [mounted : BOOLEAN, at : Selection, ticked : BOOLEAN, known : BOOLEAN,
              derived : BOOLEAN, loaded : Selection \cup {None},
              shown : [Part -> Data \cup {None}], base : Data \cup {None},
              failed : SUBSET Part, isLoading : BOOLEAN,
              isShowingSavedCopy : BOOLEAN,
              snap : Owner]

NoPage == [mounted |-> FALSE, at |-> All, ticked |-> FALSE, known |-> FALSE,
           derived |-> FALSE, loaded |-> None, shown |-> Nothing, base |-> None,
           failed |-> {}, isLoading |-> FALSE, isShowingSavedCopy |-> FALSE,
           snap |-> None]

TypeOK ==
  /\ token \in Owner
  /\ copies \in [Selection -> Owner]
  /\ page \in PageState
  /\ loads \in [Load -> LoadState]

Init ==
  /\ token = None
  /\ copies = [s \in Selection |-> None]
  /\ page = NoPage
  /\ loads = [l \in Load |-> Idle]

-----------------------------------------------------------------------------
(* networkCache: what loadSnapshot finds, and what it leaves in the store.  *)

\* Mutant: whoever the copy was saved for.
FoundAny(site) ==
  {[snap |-> None, left |-> copies]} \cup
  IF token = None \/ copies[site] = None THEN {} ELSE {[snap |-> copies[site], left |-> copies]}

\* A copy may be too old, and IndexedDB may be unavailable.
Found(site) ==
  {[snap |-> None, left |-> copies]} \cup
  IF token = None \/ copies[site] = None THEN {}
  ELSE {[snap |-> None, left |-> [copies EXCEPT ![site] = None]]} \cup
       {[snap |-> a, left |-> copies] : a \in {token} \cap {copies[site]}}

\* saveSnapshot: the owner is who is signed in when the copy is stored.
Stored(site) ==
  {copies} \cup {[copies EXCEPT ![site] = a] : a \in {token} \ {None}}

Cleared == [s \in Selection |-> None]

-----------------------------------------------------------------------------
(* The effect of a new selection or of reload(): the effect before it is    *)
(* cleaned up, which aborts its load and its loadSnapshot.                  *)

CanDerive(pg) == pg.at # All /\ pg.base # None /\ pg.known

\* Mutant: a load that is under way keeps its loader.
DerivedLoading(pg) ==
  [pg EXCEPT !.derived = TRUE, !.loaded = pg.at, !.failed = {},
             !.isShowingSavedCopy = FALSE, !.snap = None]

\* The site is worked out from "ALL": no request, but a refresh of "ALL" when
\* the user has asked to reload.
Derived(pg) ==
  [pg EXCEPT !.derived = TRUE, !.loaded = pg.at, !.failed = {}, !.isLoading = FALSE,
             !.isShowingSavedCopy = FALSE, !.snap = None]

Derive(pg) ==
  /\ CanDerive(pg)
  /\ page' = Derived(pg)
  /\ loads' = [loads EXCEPT ![Own] = IF pg.ticked THEN Request(All, FALSE) ELSE Idle]
  /\ UNCHANGED copies

Fetched(pg, snap) ==
  [pg EXCEPT !.derived = FALSE, !.isLoading = TRUE, !.loaded = None, !.shown = Nothing,
             !.failed = {}, !.isShowingSavedCopy = FALSE, !.snap = snap]

Fetch(pg) ==
  /\ ~CanDerive(pg)
  /\ \E f \in Found(pg.at) :
       /\ page' = Fetched(pg, f.snap)
       /\ copies' = f.left
  /\ loads' = [loads EXCEPT ![Own] = Request(pg.at, TRUE)]

Effect(pg) == Derive(pg) \/ Fetch(pg)

\* ProtectedRoute lets only a tab with a token in.
Open ==
  /\ ~page.mounted /\ token # None
  /\ Effect([NoPage EXCEPT !.mounted = TRUE])
  /\ UNCHANGED token

Select(s) ==
  /\ page.mounted /\ s # page.at
  /\ Effect([page EXCEPT !.at = s])
  /\ UNCHANGED token

Reload ==
  /\ page.mounted
  /\ Effect([page EXCEPT !.ticked = TRUE])
  /\ UNCHANGED token

\* The page is left: its load is aborted. A refresh outlives it: its answers still
\* reach saveSnapshot, for the selection the page was left at.
Orphaned(r) ==
  IF r.for # "page" THEN r
  ELSE IF r.site = page.at THEN [r EXCEPT !.for = "copy"]
  ELSE [r EXCEPT !.for = "left", !.site = All]

Unmounted ==
  /\ page' = NoPage
  /\ loads' = [l \in Load |-> IF l = Own THEN Idle ELSE Orphaned(loads[l])]

Leave ==
  /\ page.mounted
  /\ Unmounted
  /\ UNCHANGED <<token, copies>>

\* The browser reloads the tab: what was in memory is gone, the token is kept.
Refreshed ==
  /\ page' = NoPage
  /\ loads' = [l \in Load |-> Idle]
  /\ UNCHANGED <<token, copies>>

SitesArrive ==
  /\ page.mounted /\ ~page.known
  /\ page' = [page EXCEPT !.known = TRUE]
  /\ UNCHANGED <<token, copies, loads>>

-----------------------------------------------------------------------------
(* load(): two requests, the continuation when both have ended, and the     *)
(* quiet refresh, which nothing aborts.                                     *)

Refresh(l) ==
  /\ page.mounted /\ loads[l].for = "nobody"
  /\ loads' = [loads EXCEPT ![l] = Request(IF page.derived THEN All ELSE page.at, FALSE)]
  /\ UNCHANGED <<token, copies, page>>

\* httpClient: any 401 clears the sign-in and the saved data of the tab. (When
\* both requests are refused, the second does what RefusedElsewhere does.)
Refuse(l) ==
  /\ loads[l].for # "nobody" /\ ~loads[l].refused
  /\ loads' = [loads EXCEPT ![l].refused = TRUE]
  /\ token' = None
  /\ copies' = Cleared
  /\ UNCHANGED page

\* Which requests can have succeeded: those that were sent signed in.
Arrivals(l) ==
  {got \in SUBSET Part : got = {} \/ (loads[l].signed /\ (loads[l].refused => got # Part))}

\* Mutant: whatever is selected.
Anyway(l) == TRUE
IsCurrent(l) == loads[l].site = page.at

\* The part that is done for every selection.
Noted(l, got) ==
  [page EXCEPT
    !.base = IF loads[l].site = All /\ got = Part THEN Fresh(All) ELSE @]

\* Mutant: one of the two answers ends the mark of the saved copy.
ShownEither(pg, l, got) ==
  [pg EXCEPT
    !.loaded = IF got = {} THEN @ ELSE loads[l].site,
    !.shown = [p \in Part |-> IF p \in got THEN Fresh(loads[l].site) ELSE @[p]],
    !.failed = Part \ got,
    !.isShowingSavedCopy = @ /\ got = {},
    !.isLoading = @ /\ ~loads[l].first]

\* The part that is done for the current selection only.
Shown(pg, l, got) ==
  [pg EXCEPT
    !.loaded = IF got = {} THEN @ ELSE loads[l].site,
    !.shown = [p \in Part |-> IF p \in got THEN Fresh(loads[l].site) ELSE @[p]],
    !.failed = Part \ got,
    !.isShowingSavedCopy = @ /\ got # Part,
    !.isLoading = @ /\ ~loads[l].first]

\* Mutant: the sign-in's end is looked at behind the return for other selections.
ExpiredIfCurrent(l) == loads[l].refused /\ IsCurrent(l)

\* sessionExpired: the page goes to the login screen.
Expired(l) == loads[l].refused

\* Both requests have ended, with answers for the page,
SettlePage(l) ==
  /\ loads[l].for = "page"
  /\ ~Expired(l)
  /\ \E got \in Arrivals(l) :
       /\ page' = IF IsCurrent(l) THEN Shown(Noted(l, got), l, got) ELSE Noted(l, got)
       /\ copies' \in IF got = Part /\ IsCurrent(l) THEN Stored(loads[l].site) ELSE {copies}
  /\ loads' = [loads EXCEPT ![l] = Idle]
  /\ UNCHANGED token

\* with a refusal,
SettleExpired(l) ==
  /\ loads[l].for = "page"
  /\ Expired(l)
  /\ page' = NoPage
  /\ loads' = [k \in Load |-> IF k \in {l, Own} THEN Idle ELSE Orphaned(loads[k])]
  /\ UNCHANGED <<token, copies>>

\* or after the page was left.
SettleOrphan(l) ==
  /\ loads[l].for \in {"copy", "left"}
  /\ \E got \in Arrivals(l) :
       copies' \in IF got = Part /\ loads[l].for = "copy" THEN Stored(loads[l].site) ELSE {copies}
  /\ loads' = [loads EXCEPT ![l] = Idle]
  /\ UNCHANGED <<token, page>>

Settle(l) == SettlePage(l) \/ SettleExpired(l) \/ SettleOrphan(l)

\* loadSnapshot answers with a copy.
Restored(pg) ==
  LET copy == [site |-> pg.at, label |-> pg.snap] IN
  [pg EXCEPT !.loaded = pg.at, !.shown = [p \in Part |-> copy],
             !.base = IF pg.at = All THEN copy ELSE @,
             !.isShowingSavedCopy = TRUE, !.isLoading = FALSE, !.snap = None]

Restore ==
  /\ page.snap # None
  /\ page' = Restored(page)
  /\ UNCHANGED <<token, copies, loads>>

-----------------------------------------------------------------------------
(* The sign-in, and another tab of the same browser.                        *)

\* Another page of the tab is on screen, or none.
SignIn(a) ==
  /\ ~page.mounted
  /\ token' = a
  /\ UNCHANGED <<copies, page, loads>>

\* The Sidebar's logout, which then shows the login page.
SignOut ==
  /\ token # None
  /\ token' = None
  /\ copies' = Cleared
  /\ Unmounted

\* A request of another part of the tab is answered with 401.
RefusedElsewhere ==
  /\ token # None
  /\ token' = None
  /\ copies' = Cleared
  /\ UNCHANGED <<page, loads>>

\* The other tab has its own sessionStorage and shares the database.
OtherTabStores(s, a) ==
  /\ copies' = [copies EXCEPT ![s] = a]
  /\ UNCHANGED <<token, page, loads>>

OtherTabClears ==
  /\ copies' = Cleared
  /\ UNCHANGED <<token, page, loads>>

-----------------------------------------------------------------------------
User ==
  \/ Open \/ Reload \/ Leave \/ Refreshed \/ SignOut
  \/ \E s \in Selection : Select(s)
  \/ \E a \in Account : SignIn(a)

Requests ==
  \/ SitesArrive \/ Restore
  \/ \E l \in Quiet : Refresh(l)
  \/ \E l \in Load : Refuse(l) \/ Settle(l)

Elsewhere ==
  \/ RefusedElsewhere \/ OtherTabClears
  \/ \E s \in Selection, a \in Others : OtherTabStores(s, a)

Next == User \/ Requests \/ Elsewhere

\* The interval fires while the tab is visible, every request ends, and the
\* server is reached again and again: of the refreshes it would refuse, not
\* every one is lost on the way.
Fairness ==
  /\ WF_vars(\E l \in Quiet : Refresh(l))
  /\ \A l \in Load : WF_vars(Settle(l))
  /\ SF_vars(\E l \in Quiet : loads[l].for = "page" /\ ~loads[l].signed /\ Refuse(l))

Safety == Init /\ [][Next]_vars
Spec == Safety /\ Fairness

-----------------------------------------------------------------------------
(* Properties.                                                             *)

\* What the hook hands out for a part of the data.
HandedOut(p) == IF page.derived THEN page.base ELSE page.shown[p]

\* What is on screen is of the selection, or worked out for it from "ALL",
\* in whatever order loads, refreshes and copies of other selections arrive.
RightSelection ==
  page.mounted =>
    /\ page.loaded \in {None, page.at}
    /\ \A p \in Part : HandedOut(p) # None =>
         HandedOut(p).site = IF page.derived THEN All ELSE page.at

\* Data fetched for the selection is never an old copy without the mark that
\* says so, also when only one of the two requests succeeds.
SavedCopyMarked ==
  \A p \in Part :
    ~page.derived /\ page.shown[p] # None /\ page.shown[p].label # None =>
      page.isShowingSavedCopy

\* A copy that was stored for somebody else is never drawn, whatever other
\* tabs store, and whoever signs in and out in this one.
CopyOfReader ==
  \A p \in Part :
    page.mounted /\ token # None /\ HandedOut(p) # None =>
      HandedOut(p).label \in {None, token}

\* The loader is on only while the load that turns it off is under way.
LoaderEnds ==
  page.isLoading => loads[Own].for = "page" /\ loads[Own].first

\* A page left without a sign-in, by whatever request, finds out by itself,
\* also when it needs no request for what it shows.
SignOutSeen ==
  page.mounted /\ token = None ~> ~page.mounted

-----------------------------------------------------------------------------
(* What comments of the code say, and the code does not keep.              *)

\* useNetworkData: "show the saved copy (if this user has one), then load fresh
\* data". On a page where nobody has asked to reload yet, what is on screen and
\* comes from a saved copy is marked as such, or its fresh data is on its way.
OnItsWay(s) == \E l \in Load : loads[l].for = "page" /\ loads[l].site = s

SavedCopyTold ==
  \A p \in Part :
    page.mounted /\ ~page.ticked /\ HandedOut(p) # None /\ HandedOut(p).label # None =>
      page.isShowingSavedCopy \/ OnItsWay(IF page.derived THEN All ELSE page.at)
=============================================================================
