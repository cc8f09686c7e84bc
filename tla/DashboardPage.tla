--------------------------- MODULE DashboardPage ----------------------------
(***************************************************************************)
(* The Dashboard in one browser tab: DataFreshnessProvider with            *)
(* nextFreshness, and the hook useNodeChildren of the page below it, on    *)
(* top of the answers DashboardService promises.                           *)
(*                                                                         *)
(* A state update, the render and the effects that follow it are one step. *)
(* The counter seq is modelled by page.latest, the load that holds its     *)
(* newest value.                                                           *)
(***************************************************************************)
EXTENDS DashboardService

CONSTANTS
  Node,  \* nodes of the site tree
  None   \* no node, no load

ASSUME PageAssumption == None \notin Node /\ None \notin Load

VARIABLES
  updatedAt,  \* updatedAt of the freshness state, 0 for null
  bumped,     \* version > 0
  page,       \* the state of the mounted hook
  pending     \* what the closure of each load holds

pageVars == <<updatedAt, bumped, page, pending>>
vars     == <<serviceVars, pageVars>>

NodeOrNone == Node \cup {None}
NoRows  == [stats |-> Blank, of |-> None]
NoPage  == [mounted |-> FALSE, parent |-> None, rows |-> NoRows, loadedFor |-> None,
            isLoading |-> FALSE, error |-> FALSE, latest |-> None]
NoClosure == [parent |-> None, silent |-> FALSE]

PageState == [mounted : BOOLEAN, parent : NodeOrNone,
              rows : [stats : Runs \cup {Blank}, of : NodeOrNone],
              loadedFor : NodeOrNone, isLoading : BOOLEAN, error : BOOLEAN,
              latest : Load \cup {None}]

TypeOK ==
  /\ written \in Runs /\ floor \in 0 .. written
  /\ loads \in [Load -> LoadState]
  /\ updatedAt \in Runs
  /\ bumped \in BOOLEAN
  /\ page \in PageState
  /\ pending \in [Load -> [parent : NodeOrNone, silent : BOOLEAN]]
  /\ page.latest # None => page.mounted /\ loads[page.latest].pc # "idle"

Init ==
  /\ ServiceInit
  /\ updatedAt = 0
  /\ bumped = FALSE
  /\ page = NoPage
  /\ pending = [l \in Load |-> NoClosure]

-----------------------------------------------------------------------------
(* What the hook hands out.                                                *)

\* Mutant: the rows are handed out whatever node they are of.
AnyRows(pg) == pg.mounted

Current(pg) == pg.mounted /\ pg.loadedFor = pg.parent

HandedOut(pg) == IF Current(pg) THEN pg.rows ELSE NoRows
Loader(pg)    == pg.mounted /\ (pg.isLoading \/ (~Current(pg) /\ ~pg.error))

-----------------------------------------------------------------------------
(* loadNodes(silent) for a node: the seq is taken and the request is sent. *)

\* Mutant: a silent reload shows the loader.
BeginLoud(pg, l, silent) == [pg EXCEPT !.latest = l, !.isLoading = TRUE, !.error = FALSE]

Begin(pg, l, silent) ==
  IF silent THEN [pg EXCEPT !.latest = l]
            ELSE [pg EXCEPT !.latest = l, !.isLoading = TRUE, !.error = FALSE]

Closure(l, parent, silent) == [pending EXCEPT ![l] = [parent |-> parent, silent |-> silent]]

\* The page is opened: the first load and, if data has arrived before, a silent one.
Open(parent, l1, l2) ==
  LET first == Begin([NoPage EXCEPT !.mounted = TRUE, !.parent = parent], l1, FALSE)
  IN  /\ ~page.mounted
      /\ l1 # l2
      /\ Call(IF bumped THEN {l1, l2} ELSE {l1})
      /\ page' = IF bumped THEN Begin(first, l2, TRUE) ELSE first
      /\ pending' = [l \in Load |->
                       CASE l = l1            -> [parent |-> parent, silent |-> FALSE]
                         [] l = l2 /\ bumped  -> [parent |-> parent, silent |-> TRUE]
                         [] OTHER             -> pending[l]]
      /\ UNCHANGED <<updatedAt, bumped>>

Leave ==
  /\ page.mounted
  /\ page' = NoPage
  /\ UNCHANGED <<serviceVars, updatedAt, bumped, pending>>

Navigate(parent, l) ==
  /\ page.mounted
  /\ parent # page.parent
  /\ Call({l})
  /\ page' = Begin([page EXCEPT !.parent = parent], l, FALSE)
  /\ pending' = Closure(l, parent, FALSE)
  /\ UNCHANGED <<updatedAt, bumped>>

\* The Retry button of the error banner.
Retry(l) ==
  /\ page.mounted /\ page.error
  /\ Call({l})
  /\ page' = Begin(page, l, FALSE)
  /\ pending' = Closure(l, page.parent, FALSE)
  /\ UNCHANGED <<updatedAt, bumped>>

\* An answer to a check: any update so far, for answers may overtake each other.
IsChange(u) == updatedAt # 0 /\ u # updatedAt

Hear(u) ==
  /\ ~(IsChange(u) /\ page.mounted)
  /\ updatedAt' = u
  /\ bumped' = (bumped \/ IsChange(u))
  /\ UNCHANGED <<serviceVars, page, pending>>

HearChange(u, l) ==
  /\ IsChange(u)
  /\ page.mounted
  /\ updatedAt' = u
  /\ bumped' = TRUE
  /\ Call({l})
  /\ page' = Begin(page, l, TRUE)
  /\ pending' = Closure(l, page.parent, TRUE)

-----------------------------------------------------------------------------
(* The answer of a load reaches its closure.                               *)

Shown(pg, l) ==
  [pg EXCEPT !.rows = [stats |-> loads[l].stats, of |-> pending[l].parent],
             !.loadedFor = pending[l].parent]

Failure(pg, l) == IF pending[l].silent THEN pg ELSE [pg EXCEPT !.error = TRUE]

Finally(pg, l) ==
  [pg EXCEPT !.latest = None,
             !.isLoading = IF pending[l].silent THEN @ ELSE FALSE]

Settle(pg, l) ==
  Finally(IF loads[l].pc = "done" THEN Shown(pg, l) ELSE Failure(pg, l), l)

\* Mutant: the seq is not compared when an answer arrives.
SettleAny(l) == page.mounted

IsLatest(l) == page.latest = l

Receive(l) ==
  /\ Take(l)
  /\ page' = IF IsLatest(l) THEN Settle(page, l) ELSE page
  /\ pending' = [pending EXCEPT ![l] = NoClosure]
  /\ UNCHANGED <<updatedAt, bumped>>

-----------------------------------------------------------------------------
Server == ServiceStep /\ UNCHANGED pageVars

Opening   == \E n \in Node, l1, l2 \in Load : Open(n, l1, l2)
Moving    == \E n \in Node, l \in Load : Navigate(n, l)
Hearing   == \E u \in 0 .. written : Hear(u) \/ (\E l \in Load : HearChange(u, l))

Next ==
  \/ Server
  \/ Opening
  \/ Leave
  \/ Moving
  \/ \E l \in Load : Retry(l) \/ Receive(l)
  \/ Hearing

Spec == Init /\ [][Next]_vars

-----------------------------------------------------------------------------
(* Properties.                                                             *)

(* The rows handed out are those of the node in the address, however the    *)
(* answers of earlier nodes arrive.                                         *)
RowsOfParent == HandedOut(page).of \in {None, page.parent}

(* The numbers on screen never go back to those of an earlier run while the *)
(* page stays open: a slow answer never replaces a newer one.               *)
RowsForward ==
  [][page.mounted /\ page'.mounted
       /\ page.rows.stats # Blank /\ page'.rows.stats # Blank
     => page'.rows.stats >= page.rows.stats]_vars

(* What is on screen stays until the new values replace it: a reload by     *)
(* itself shows neither a loader nor an error.                              *)
Visible(pg) == Current(pg) /\ ~Loader(pg) /\ ~pg.error
QuietReload ==
  [][Visible(page) /\ page'.mounted /\ page'.parent = page.parent => Visible(page')]_vars

(* The newest load is for the node in the address: what RowsOfParent and    *)
(* RowsForward rest on, and part of their inductive invariant.              *)
LatestForParent == page.latest # None => pending[page.latest].parent = page.parent

-----------------------------------------------------------------------------
(* What a comment of the code says, and the code does not keep.            *)

(* DashboardPage.tsx:116: "One loader for the whole page while its first    *)
(* data is on the way".  When no load is under way, the loader is off.      *)
LoaderMeansLoading ==
  (\A l \in Load : loads[l].pc = "idle") => ~Loader(page)
=============================================================================
