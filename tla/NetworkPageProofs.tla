------------------------- MODULE NetworkPageProofs --------------------------
(***************************************************************************)
(* Theorems about NetworkPage: what is drawn is of the selection, is drawn *)
(* from the reader's copies only, is marked when it is old, and the loader *)
(* has a load behind it; for any sites, accounts and overlapping refreshes.*)
(***************************************************************************)
EXTENDS NetworkPage, TLAPS

\* What the page holds is of its selection, and its base of "ALL".
PageOfSelection ==
  /\ ~page.mounted => page = NoPage
  /\ page.loaded \in {None, page.at}
  /\ page.base # None => page.base.site = All
  /\ ~page.derived => \A p \in Part : page.shown[p] # None => page.shown[p].site = page.at

\* Every copy the page has taken, or waits for, is of the account signed in.
CopiesOfReader ==
  page.mounted /\ token # None =>
    /\ page.snap \in {None, token}
    /\ page.base # None => page.base.label \in {None, token}
    /\ \A p \in Part : page.shown[p] # None => page.shown[p].label \in {None, token}

\* The effect's load is for the selection unless the page is derived, and it
\* is the only one that ends the loader.
LoadOfPage ==
  /\ \A l \in Load : loads[l].for = "page" => page.mounted
  /\ page.isLoading => loads[Own].for = "page" /\ loads[Own].first /\ loads[Own].site = page.at

NetworkInv == TypeOK /\ PageOfSelection /\ CopiesOfReader /\ LoadOfPage /\ SavedCopyMarked

-----------------------------------------------------------------------------
(* The values the actions build.                                            *)

\* None is none of the owners, selections and loads it stands beside.
LEMMA Constants ==
  /\ None \notin Account \cup Others /\ None \notin Selection /\ All \in Selection
  /\ Own \in Load /\ Own \notin Quiet
  /\ \A s \in Selection : Fresh(s) \in Data /\ Fresh(s).site = s /\ Fresh(s).label = None
  /\ Idle \in LoadState /\ Idle.for = "nobody"
  /\ NoPage \in PageState /\ ~NoPage.mounted
BY NetworkAssumption DEF Selection, Load, Fresh, Data, Owner, Idle, LoadState, NoPage, PageState, Nothing

\* A call of load() for the page.
LEMMA Requests1 ==
  ASSUME NEW s \in Selection, NEW first \in BOOLEAN
  PROVE  /\ Request(s, first) \in LoadState
         /\ Request(s, first).for = "page" /\ Request(s, first).first = first
         /\ Request(s, first).site = s
BY DEF Request, LoadState

\* loadSnapshot finds copies of the account signed in only.
LEMMA FoundOfReader ==
  ASSUME TypeOK, NEW s \in Selection, NEW f \in Found(s)
  PROVE  f.snap \in {None, token} /\ f.snap \in Owner /\ f.left \in [Selection -> Owner]
<1> USE DEF TypeOK, Owner
<1>1. CASE f = [snap |-> None, left |-> copies]
  BY <1>1
<1>2. CASE token # None /\ f = [snap |-> None, left |-> [copies EXCEPT ![s] = None]]
  BY <1>2
<1>3. CASE \E a \in {token} \cap {copies[s]} : f = [snap |-> a, left |-> copies]
  BY <1>3
<1>4. QED
  BY <1>1, <1>2, <1>3 DEF Found

\* saveSnapshot leaves owners in the store.
LEMMA StoredTyped ==
  ASSUME TypeOK, NEW s \in Selection, NEW c \in Stored(s)
  PROVE  c \in [Selection -> Owner]
BY DEF Stored, TypeOK, Owner

LEMMA InitNetwork == Init => NetworkInv
<1> SUFFICES ASSUME Init PROVE NetworkInv
  OBVIOUS
<1>1. TypeOK
  BY Constants DEF Init, TypeOK, Owner, Load
<1>2. PageOfSelection /\ CopiesOfReader /\ SavedCopyMarked
  BY DEF Init, PageOfSelection, CopiesOfReader, SavedCopyMarked, NoPage, Nothing, Part
<1>3. LoadOfPage
  BY Constants DEF Init, LoadOfPage, NoPage
<1>4. QED
  BY <1>1, <1>2, <1>3 DEF NetworkInv

-----------------------------------------------------------------------------
(* The effect of a selection, from any page state the user can put it in.   *)

\* What a page keeps when the selection or the tick has just changed.
Rearranged(pg) ==
  /\ pg \in PageState /\ pg.mounted
  /\ pg.base # None => pg.base.site = All
  /\ token # None =>
       /\ pg.base # None => pg.base.label \in {None, token}
       /\ \A p \in Part : pg.shown[p] # None => pg.shown[p].label \in {None, token}

LEMMA DeriveKeeps ==
  ASSUME NetworkInv, NEW pg, Rearranged(pg), Derive(pg), UNCHANGED token
  PROVE  NetworkInv'
<1> USE DEF NetworkInv
<1>1. PICK r \in LoadState : loads' = [loads EXCEPT ![Own] = r]
  BY Constants, Requests1 DEF Derive
<1>2. pg \in PageState /\ pg.at # All /\ pg.base # None
  BY DEF Derive, CanDerive, Rearranged
<1>3. /\ page' \in PageState /\ page'.mounted /\ page'.at = pg.at /\ page'.derived
      /\ page'.loaded = pg.at /\ page'.base = pg.base /\ page'.shown = pg.shown
      /\ page'.snap = None /\ ~page'.isLoading
  BY <1>2 DEF Derive, Derived, PageState, Rearranged, Owner
<1>4. TypeOK'
  BY <1>1, <1>3 DEF Derive, TypeOK
<1>5. PageOfSelection'
  BY <1>2, <1>3 DEF PageOfSelection, Rearranged
<1>6. CopiesOfReader'
  BY <1>3 DEF CopiesOfReader, Rearranged
<1>7. LoadOfPage'
  BY <1>3 DEF LoadOfPage
<1>8. SavedCopyMarked'
  BY <1>3 DEF SavedCopyMarked
<1>9. QED
  BY <1>4, <1>5, <1>6, <1>7, <1>8

LEMMA FetchKeeps ==
  ASSUME NetworkInv, NEW pg, Rearranged(pg), Fetch(pg), UNCHANGED token
  PROVE  NetworkInv'
<1> USE DEF NetworkInv
<1>1. pg \in PageState /\ pg.at \in Selection
  BY DEF Rearranged, PageState
<1>2. PICK f \in Found(pg.at) : page' = Fetched(pg, f.snap) /\ copies' = f.left
  BY DEF Fetch
<1>3. f.snap \in {None, token} /\ f.snap \in Owner /\ f.left \in [Selection -> Owner]
  BY <1>1, FoundOfReader
<1>4. Nothing \in [Part -> Data \cup {None}] /\ \A p \in Part : Nothing[p] = None
  BY DEF Nothing
<1>5. /\ page' \in PageState /\ page'.mounted /\ page'.at = pg.at /\ ~page'.derived
      /\ page'.loaded = None /\ page'.base = pg.base /\ page'.shown = Nothing
      /\ page'.snap = f.snap
  BY <1>1, <1>2, <1>3, <1>4 DEF Fetched, PageState, Rearranged
<1>6. /\ Request(pg.at, TRUE) \in LoadState /\ Request(pg.at, TRUE).for = "page"
      /\ Request(pg.at, TRUE).first /\ Request(pg.at, TRUE).site = pg.at
  BY <1>1, Requests1
<1>7. loads' = [loads EXCEPT ![Own] = Request(pg.at, TRUE)] /\ loads \in [Load -> LoadState]
  BY DEF Fetch, TypeOK
<1>8. loads' \in [Load -> LoadState] /\ loads'[Own] = Request(pg.at, TRUE)
  BY <1>6, <1>7, Constants
<1>9. TypeOK'
  BY <1>2, <1>3, <1>5, <1>8 DEF TypeOK
<1>10. PageOfSelection'
  BY <1>4, <1>5 DEF PageOfSelection, Rearranged
<1>11. CopiesOfReader'
  BY <1>3, <1>4, <1>5 DEF CopiesOfReader, Rearranged
<1>12. LoadOfPage'
  BY <1>5, <1>6, <1>8 DEF LoadOfPage
<1>13. SavedCopyMarked'
  BY <1>4, <1>5 DEF SavedCopyMarked
<1>14. QED
  BY <1>9, <1>10, <1>11, <1>12, <1>13

LEMMA EffectKeeps ==
  ASSUME NetworkInv, NEW pg, Rearranged(pg), Effect(pg), UNCHANGED token
  PROVE  NetworkInv'
BY DeriveKeeps, FetchKeeps DEF Effect

-----------------------------------------------------------------------------
(* The user's actions.                                                      *)

LEMMA OpenKeeps == ASSUME NetworkInv, Open PROVE NetworkInv'
<1> DEFINE pg == [NoPage EXCEPT !.mounted = TRUE]
<1>1. /\ pg \in PageState /\ pg.mounted /\ pg.base = None
      /\ \A p \in Part : pg.shown[p] = None
  BY Constants DEF NoPage, Nothing, PageState
<1>2. Rearranged(pg)
  BY <1>1 DEF Rearranged
<1>3. Effect(pg) /\ UNCHANGED token
  BY DEF Open
<1> HIDE DEF pg
<1>4. QED
  BY <1>2, <1>3, EffectKeeps

LEMMA SelectKeeps == ASSUME NetworkInv, NEW s \in Selection, Select(s) PROVE NetworkInv'
<1> DEFINE pg == [page EXCEPT !.at = s]
<1>1. /\ pg \in PageState /\ pg.mounted /\ pg.base = page.base /\ pg.shown = page.shown
  BY DEF Select, NetworkInv, TypeOK, PageState
<1>2. Rearranged(pg)
  BY <1>1 DEF Rearranged, NetworkInv, PageOfSelection, CopiesOfReader, Select
<1>3. Effect(pg) /\ UNCHANGED token
  BY DEF Select
<1> HIDE DEF pg
<1>4. QED
  BY <1>2, <1>3, EffectKeeps

LEMMA ReloadKeeps == ASSUME NetworkInv, Reload PROVE NetworkInv'
<1> DEFINE pg == [page EXCEPT !.ticked = TRUE]
<1>1. /\ pg \in PageState /\ pg.mounted /\ pg.base = page.base /\ pg.shown = page.shown
  BY DEF Reload, NetworkInv, TypeOK, PageState
<1>2. Rearranged(pg)
  BY <1>1 DEF Rearranged, NetworkInv, PageOfSelection, CopiesOfReader, Reload
<1>3. Effect(pg) /\ UNCHANGED token
  BY DEF Reload
<1> HIDE DEF pg
<1>4. QED
  BY <1>2, <1>3, EffectKeeps

\* A page that has gone leaves no load of a page.
LEMMA GoneKeeps ==
  ASSUME NetworkInv, page' = NoPage, token' \in Owner, copies' \in [Selection -> Owner],
         loads' \in [Load -> LoadState], \A l \in Load : loads'[l].for # "page"
  PROVE  NetworkInv'
<1>1. TypeOK'
  BY Constants DEF TypeOK
<1>2. PageOfSelection' /\ CopiesOfReader' /\ SavedCopyMarked'
  BY DEF PageOfSelection, CopiesOfReader, SavedCopyMarked, NoPage, Nothing, Part
<1>3. LoadOfPage'
  BY DEF LoadOfPage, NoPage
<1>4. QED
  BY <1>1, <1>2, <1>3 DEF NetworkInv

LEMMA OrphanedTyped ==
  ASSUME NEW r \in LoadState
  PROVE  Orphaned(r) \in LoadState /\ Orphaned(r).for # "page"
BY Constants DEF Orphaned, LoadState

LEMMA LeaveKeeps == ASSUME NetworkInv, Unmounted, token' \in Owner, copies' \in [Selection -> Owner]
                    PROVE  NetworkInv'
<1>1. \A l \in Load : loads[l] \in LoadState
  BY DEF NetworkInv, TypeOK
<1>2. loads' \in [Load -> LoadState] /\ \A l \in Load : loads'[l].for # "page"
  BY <1>1, OrphanedTyped, Constants DEF Unmounted
<1>3. QED
  BY <1>2, GoneKeeps DEF Unmounted

LEMMA RefreshedKeeps == ASSUME NetworkInv, Refreshed PROVE NetworkInv'
<1>1. loads' \in [Load -> LoadState] /\ \A l \in Load : loads'[l].for # "page"
  BY Constants DEF Refreshed
<1>2. QED
  BY <1>1, GoneKeeps DEF Refreshed, NetworkInv, TypeOK

\* The token and the copies may change where the page is not mounted, or the
\* token goes.
LEMMA SignKeeps ==
  ASSUME NetworkInv, token' \in Owner, copies' \in [Selection -> Owner],
         token' \in {None, token} \/ ~page.mounted, UNCHANGED <<page, loads>>
  PROVE  NetworkInv'
<1> USE DEF NetworkInv
<1>1. TypeOK'
  BY DEF TypeOK
<1>2. PageOfSelection' /\ SavedCopyMarked' /\ LoadOfPage'
  BY DEF PageOfSelection, SavedCopyMarked, LoadOfPage
<1>3. CopiesOfReader'
  BY DEF CopiesOfReader
<1>4. QED
  BY <1>1, <1>2, <1>3

LEMMA UserKeeps == ASSUME NetworkInv, User PROVE NetworkInv'
<1>1. CASE Open
  BY <1>1, OpenKeeps
<1>2. CASE Reload
  BY <1>2, ReloadKeeps
<1>3. CASE Leave
  BY <1>3, LeaveKeeps DEF Leave, NetworkInv, TypeOK
<1>4. CASE Refreshed
  BY <1>4, RefreshedKeeps
<1>5. CASE SignOut
  BY <1>5, LeaveKeeps DEF SignOut, Owner, Cleared
<1>6. ASSUME NEW s \in Selection, Select(s) PROVE NetworkInv'
  BY <1>6, SelectKeeps
<1>7. ASSUME NEW a \in Account, SignIn(a) PROVE NetworkInv'
  BY <1>7, SignKeeps DEF SignIn, Owner, NetworkInv, TypeOK
<1>8. QED
  BY <1>1, <1>2, <1>3, <1>4, <1>5, <1>6, <1>7 DEF User

LEMMA ElsewhereKeeps == ASSUME NetworkInv, Elsewhere PROVE NetworkInv'
<1>1. Cleared \in [Selection -> Owner] /\ None \in Owner
  BY DEF Cleared, Owner
<1>2. CASE RefusedElsewhere
  BY <1>1, <1>2, SignKeeps DEF RefusedElsewhere
<1>3. CASE OtherTabClears
  BY <1>1, <1>3, SignKeeps DEF OtherTabClears, NetworkInv, TypeOK
<1>4. ASSUME NEW s \in Selection, NEW a \in Others, OtherTabStores(s, a) PROVE NetworkInv'
  <2>1. copies' \in [Selection -> Owner]
    BY <1>4 DEF OtherTabStores, Owner, NetworkInv, TypeOK
  <2>2. QED
    BY <1>4, <2>1, SignKeeps DEF OtherTabStores, NetworkInv, TypeOK
<1>5. QED
  BY <1>2, <1>3, <1>4 DEF Elsewhere

-----------------------------------------------------------------------------
(* Answers.                                                                 *)

LEMMA SitesArriveKeeps == ASSUME NetworkInv, SitesArrive PROVE NetworkInv'
<1> USE DEF NetworkInv
<1>1. page \in PageState /\ page.mounted /\ page' = [page EXCEPT !.known = TRUE]
  BY DEF SitesArrive, TypeOK
<1>2. /\ page' \in PageState /\ page'.mounted /\ page'.at = page.at
      /\ page'.derived = page.derived /\ page'.loaded = page.loaded
      /\ page'.base = page.base /\ page'.shown = page.shown /\ page'.snap = page.snap
      /\ page'.isLoading = page.isLoading
      /\ page'.isShowingSavedCopy = page.isShowingSavedCopy
  BY <1>1 DEF PageState
<1>3. UNCHANGED <<token, copies, loads>>
  BY DEF SitesArrive
<1>4. TypeOK'
  BY <1>2, <1>3 DEF TypeOK
<1>5. PageOfSelection'
  BY <1>1, <1>2 DEF PageOfSelection
<1>6. CopiesOfReader'
  BY <1>1, <1>2, <1>3 DEF CopiesOfReader
<1>7. LoadOfPage' /\ SavedCopyMarked'
  BY <1>2, <1>3 DEF LoadOfPage, SavedCopyMarked
<1>8. QED
  BY <1>4, <1>5, <1>6, <1>7

\* Until the page is left, a copy that is waited for is restored on top of
\* whatever is shown.
LEMMA RestoreKeeps == ASSUME NetworkInv, Restore PROVE NetworkInv'
<1> DEFINE copy == [site |-> page.at, label |-> page.snap]
<1> USE DEF NetworkInv
<1>1. page \in PageState /\ page.snap # None /\ page.mounted
  BY DEF Restore, TypeOK, PageOfSelection, NoPage
<1>2. copy \in Data /\ copy.site = page.at /\ copy.label = page.snap
  BY <1>1 DEF PageState, Data, PageOfSelection
<1>3. UNCHANGED <<token, copies, loads>>
  BY DEF Restore
<1>4. /\ page' \in PageState /\ page'.mounted /\ page'.at = page.at
      /\ page'.derived = page.derived /\ page'.loaded = page.at
      /\ page'.base = (IF page.at = All THEN copy ELSE page.base)
      /\ \A p \in Part : page'.shown[p] = copy
      /\ page'.snap = None /\ ~page'.isLoading /\ page'.isShowingSavedCopy
  BY <1>1, <1>2, Constants DEF Restore, Restored, PageState, Owner
<1> HIDE DEF copy
<1>5. TypeOK'
  BY <1>3, <1>4 DEF TypeOK
<1>6. PageOfSelection'
  BY <1>1, <1>2, <1>4 DEF PageOfSelection
<1>7. CopiesOfReader'
  BY <1>1, <1>2, <1>3, <1>4 DEF CopiesOfReader
<1>8. LoadOfPage' /\ SavedCopyMarked'
  BY <1>1, <1>3, <1>4 DEF LoadOfPage, SavedCopyMarked
<1>9. QED
  BY <1>5, <1>6, <1>7, <1>8

LEMMA RefreshKeeps == ASSUME NetworkInv, NEW l \in Quiet, Refresh(l) PROVE NetworkInv'
<1> DEFINE r == Request(IF page.derived THEN All ELSE page.at, FALSE)
<1> USE DEF NetworkInv
<1>1. l \in Load /\ l # Own
  BY Constants DEF Load
<1>2. page.at \in Selection /\ page.mounted
  BY DEF Refresh, TypeOK, PageState
<1>3. r \in LoadState /\ r.for = "page"
  BY <1>2, Requests1, Constants
<1>4. loads' = [loads EXCEPT ![l] = r] /\ UNCHANGED <<token, copies, page>>
  BY DEF Refresh
<1> HIDE DEF r
<1>5. TypeOK'
  BY <1>1, <1>3, <1>4 DEF TypeOK
<1>6. LoadOfPage'
  BY <1>1, <1>2, <1>4 DEF LoadOfPage, TypeOK
<1>7. PageOfSelection' /\ CopiesOfReader' /\ SavedCopyMarked'
  BY <1>4 DEF PageOfSelection, CopiesOfReader, SavedCopyMarked
<1>8. QED
  BY <1>5, <1>6, <1>7

LEMMA RefuseKeeps == ASSUME NetworkInv, NEW l \in Load, Refuse(l) PROVE NetworkInv'
<1> USE DEF NetworkInv
<1>1. \A k \in Load : loads[k] \in LoadState
  BY DEF TypeOK
<1>2. loads' = [loads EXCEPT ![l].refused = TRUE] /\ token' = None /\ UNCHANGED page
  BY DEF Refuse
<1>3. \A k \in Load : /\ loads'[k] \in LoadState /\ loads'[k].for = loads[k].for
                      /\ loads'[k].first = loads[k].first /\ loads'[k].site = loads[k].site
  BY <1>1, <1>2 DEF LoadState, TypeOK
<1>4. TypeOK'
  BY <1>2, <1>3 DEF Refuse, TypeOK, Owner, Cleared
<1>5. LoadOfPage'
  BY <1>2, <1>3, Constants DEF LoadOfPage
<1>6. PageOfSelection' /\ CopiesOfReader' /\ SavedCopyMarked'
  BY <1>2 DEF PageOfSelection, CopiesOfReader, SavedCopyMarked
<1>7. QED
  BY <1>4, <1>5, <1>6

LEMMA SettlePageKeeps == ASSUME NetworkInv, NEW l \in Load, SettlePage(l) PROVE NetworkInv'
<1> USE DEF NetworkInv
<1>1. /\ loads \in [Load -> LoadState] /\ loads[l] \in LoadState /\ loads[l].for = "page"
      /\ page.mounted /\ page \in PageState /\ loads[l].site \in Selection
  BY DEF SettlePage, TypeOK, LoadOfPage, LoadState
<1>2. PICK got \in Arrivals(l) :
        /\ page' = IF IsCurrent(l) THEN Shown(Noted(l, got), l, got) ELSE Noted(l, got)
        /\ copies' \in IF got = Part /\ IsCurrent(l) THEN Stored(loads[l].site) ELSE {copies}
  BY DEF SettlePage
<1>3. got \in SUBSET Part
  BY DEF Arrivals
<1>4. /\ loads' \in [Load -> LoadState] /\ loads'[l] = Idle /\ token' = token
      /\ \A k \in Load : k # l => loads'[k] = loads[k]
      /\ Idle.for # "page"
  BY <1>1, Constants DEF SettlePage
<1>5. copies' \in [Selection -> Owner]
  BY <1>1, <1>2, StoredTyped DEF TypeOK
<1> DEFINE fresh == Fresh(loads[l].site)
<1>6. fresh \in Data /\ fresh.site = loads[l].site /\ fresh.label = None
  BY <1>1, Constants
<1>7. Fresh(All) \in Data /\ Fresh(All).site = All /\ Fresh(All).label = None
  BY Constants
<1>8. /\ Noted(l, got) \in PageState /\ Noted(l, got).mounted
      /\ Noted(l, got).at = page.at /\ Noted(l, got).derived = page.derived
      /\ Noted(l, got).loaded = page.loaded /\ Noted(l, got).base \in {page.base, Fresh(All)}
      /\ Noted(l, got).shown = page.shown /\ Noted(l, got).snap = page.snap
      /\ Noted(l, got).isLoading = page.isLoading
      /\ Noted(l, got).isShowingSavedCopy = page.isShowingSavedCopy
  BY <1>1, <1>7 DEF Noted, PageState
<1>9. CASE IsCurrent(l)
  <2> DEFINE n == Noted(l, got)
  <2>1. page' = Shown(n, l, got) /\ loads[l].site = page.at
    BY <1>2, <1>9 DEF IsCurrent
  <2> HIDE DEF n, fresh
  <2>2. n \in PageState /\ fresh \in Data
    BY <1>6, <1>8 DEF n
  <2>3. [p \in Part |-> IF p \in got THEN fresh ELSE n.shown[p]] \in [Part -> Data \cup {None}]
    BY <2>2 DEF PageState
  <2>4. loads[l].first \in BOOLEAN
    BY <1>1 DEF LoadState
  <2>5. /\ page' \in PageState /\ page'.mounted = n.mounted /\ page'.at = n.at
        /\ page'.derived = n.derived
        /\ page'.loaded = (IF got = {} THEN n.loaded ELSE loads[l].site)
        /\ page'.base = n.base /\ page'.snap = n.snap
        /\ page'.shown = [p \in Part |-> IF p \in got THEN fresh ELSE n.shown[p]]
        /\ page'.isLoading = (n.isLoading /\ ~loads[l].first)
        /\ page'.isShowingSavedCopy = (n.isShowingSavedCopy /\ got # Part)
    <3> DEFINE shown == [p \in Part |-> IF p \in got THEN fresh ELSE n.shown[p]]
               loaded == IF got = {} THEN n.loaded ELSE loads[l].site
               loading == n.isLoading /\ ~loads[l].first
               marked == n.isShowingSavedCopy /\ got # Part
    <3>1. page' = [n EXCEPT !.loaded = loaded, !.shown = shown, !.failed = Part \ got,
                            !.isShowingSavedCopy = marked, !.isLoading = loading]
      BY <2>1, <2>2 DEF Shown, fresh, PageState
    <3>2. shown \in [Part -> Data \cup {None}]
      BY <2>3
    <3>3. loaded \in Selection \cup {None} /\ loading \in BOOLEAN /\ marked \in BOOLEAN
      BY <1>1, <2>2, <2>4 DEF PageState
    <3> HIDE DEF shown, loaded, loading, marked
    <3>4. /\ page' \in PageState /\ page'.mounted = n.mounted /\ page'.at = n.at
          /\ page'.derived = n.derived /\ page'.loaded = loaded
          /\ page'.base = n.base /\ page'.snap = n.snap /\ page'.shown = shown
          /\ page'.isLoading = loading /\ page'.isShowingSavedCopy = marked
      BY <2>2, <3>1, <3>2, <3>3 DEF PageState
    <3>5. QED
      BY <3>4 DEF shown, loaded, loading, marked
  <2>6. TypeOK'
    BY <1>4, <1>5, <2>5 DEF TypeOK
  <2>7. PageOfSelection'
    BY <1>1, <1>6, <1>7, <1>8, <2>1, <2>5 DEF PageOfSelection, n
  <2>8. CopiesOfReader'
    BY <1>1, <1>4, <1>6, <1>7, <1>8, <2>5 DEF CopiesOfReader, n
  <2>9. LoadOfPage'
    BY ZenonT(60), <1>1, <1>4, <1>8, <2>5, Constants DEF LoadOfPage, n
  <2>10. SavedCopyMarked'
    <3>1. SUFFICES ASSUME NEW p \in Part, ~page'.derived, page'.shown[p] # None,
                          page'.shown[p].label # None
                   PROVE  page'.isShowingSavedCopy
      BY DEF SavedCopyMarked
    <3>2. p \notin got
      BY <1>6, <2>5, <3>1
    <3>3. got # Part /\ page'.shown[p] = n.shown[p] /\ ~n.derived
      BY <2>5, <3>1, <3>2
    <3>4. n.shown[p] = page.shown[p] /\ n.isShowingSavedCopy = page.isShowingSavedCopy /\ ~page.derived
      BY <1>8, <3>3 DEF n
    <3>5. page.isShowingSavedCopy
      BY <3>1, <3>3, <3>4 DEF SavedCopyMarked
    <3>6. QED
      BY <2>5, <3>3, <3>4, <3>5
  <2>11. QED
    BY <2>6, <2>7, <2>8, <2>9, <2>10
<1>10. CASE ~IsCurrent(l)
  <2>1. page' = Noted(l, got) /\ loads[l].site # page.at
    BY <1>2, <1>10 DEF IsCurrent
  <2>2. TypeOK'
    BY <1>4, <1>5, <1>8, <2>1 DEF TypeOK
  <2>3. PageOfSelection'
    BY <1>1, <1>7, <1>8, <2>1 DEF PageOfSelection
  <2>4. CopiesOfReader'
    BY <1>1, <1>4, <1>7, <1>8, <2>1 DEF CopiesOfReader
  <2>5. LoadOfPage'
    BY <1>1, <1>4, <1>8, <2>1, Constants DEF LoadOfPage
  <2>6. SavedCopyMarked'
    BY <1>8, <2>1 DEF SavedCopyMarked
  <2>7. QED
    BY <2>2, <2>3, <2>4, <2>5, <2>6
<1>11. QED
  BY <1>9, <1>10

LEMMA SettleExpiredKeeps == ASSUME NetworkInv, NEW l \in Load, SettleExpired(l) PROVE NetworkInv'
<1>1. \A k \in Load : loads[k] \in LoadState
  BY DEF NetworkInv, TypeOK
<1>2. loads' \in [Load -> LoadState] /\ \A k \in Load : loads'[k].for # "page"
  BY <1>1, OrphanedTyped, Constants DEF SettleExpired
<1>3. QED
  BY <1>2, GoneKeeps DEF SettleExpired, NetworkInv, TypeOK

LEMMA SettleOrphanKeeps == ASSUME NetworkInv, NEW l \in Load, SettleOrphan(l) PROVE NetworkInv'
<1> USE DEF NetworkInv
<1>1. loads \in [Load -> LoadState] /\ loads[l].site \in Selection /\ loads[l].for # "page"
  BY DEF TypeOK, LoadState, SettleOrphan
<1>2. copies' \in [Selection -> Owner]
  BY <1>1, StoredTyped DEF SettleOrphan, TypeOK
<1>3. loads' = [loads EXCEPT ![l] = Idle] /\ UNCHANGED <<token, page>>
  BY DEF SettleOrphan
<1>4. TypeOK'
  BY <1>2, <1>3, Constants DEF TypeOK
<1>5. LoadOfPage'
  BY <1>1, <1>3, Constants DEF LoadOfPage
<1>6. PageOfSelection' /\ CopiesOfReader' /\ SavedCopyMarked'
  BY <1>3 DEF PageOfSelection, CopiesOfReader, SavedCopyMarked
<1>7. QED
  BY <1>4, <1>5, <1>6

LEMMA RequestsKeep == ASSUME NetworkInv, Requests PROVE NetworkInv'
BY SitesArriveKeeps, RestoreKeeps, RefreshKeeps, RefuseKeeps, SettlePageKeeps, SettleExpiredKeeps,
   SettleOrphanKeeps DEF Requests, Settle

-----------------------------------------------------------------------------
LEMMA NetworkInductive == NetworkInv /\ [Next]_vars => NetworkInv'
<1> SUFFICES ASSUME NetworkInv, [Next]_vars PROVE NetworkInv'
  OBVIOUS
<1>1. CASE User
  BY <1>1, UserKeeps
<1>2. CASE Requests
  BY <1>2, RequestsKeep
<1>3. CASE Elsewhere
  BY <1>3, ElsewhereKeeps
<1>4. CASE UNCHANGED vars
  BY <1>4 DEF vars, NetworkInv, TypeOK, PageOfSelection, CopiesOfReader, LoadOfPage, SavedCopyMarked
<1>5. QED
  BY <1>1, <1>2, <1>3, <1>4 DEF Next

LEMMA NetworkInvariance == Spec => []NetworkInv
BY InitNetwork, NetworkInductive, PTL DEF Spec, Safety

(* Every variable of the tab keeps its type in every behaviour.             *)
THEOREM NetworkTypes == Spec => []TypeOK
<1>1. NetworkInv => TypeOK
  BY DEF NetworkInv
<1>2. QED
  BY <1>1, NetworkInvariance, PTL

(* What is drawn is of the selection, however loads, refreshes that nothing *)
(* aborts, and copies arrive (useNetworkData's siteRef and derivedSite).    *)
THEOREM SelectionDrawn == Spec => []RightSelection
<1>1. NetworkInv => RightSelection
  BY DEF NetworkInv, PageOfSelection, RightSelection, HandedOut
<1>2. QED
  BY <1>1, NetworkInvariance, PTL

(* Old data fetched for the selection carries its mark (isShowingSavedCopy).*)
THEOREM OldMarked == Spec => []SavedCopyMarked
<1>1. NetworkInv => SavedCopyMarked
  BY DEF NetworkInv
<1>2. QED
  BY <1>1, NetworkInvariance, PTL

(* Only copies stored for the account signed in are drawn (loadSnapshot).   *)
THEOREM ReadersCopies == Spec => []CopyOfReader
<1>1. NetworkInv => CopyOfReader
  BY DEF NetworkInv, CopiesOfReader, CopyOfReader, HandedOut
<1>2. QED
  BY <1>1, NetworkInvariance, PTL

(* The loader has the effect's load behind it (load's last line).           *)
THEOREM LoaderBacked == Spec => []LoaderEnds
<1>1. NetworkInv => LoaderEnds
  BY DEF NetworkInv, LoadOfPage, LoaderEnds
<1>2. QED
  BY <1>1, NetworkInvariance, PTL
=============================================================================
