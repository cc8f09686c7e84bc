-------------------------- MODULE BrowserPagesProofs --------------------------
(***************************************************************************)
(* Proofs about the pages of a browser tab, for every number of nodes,     *)
(* rows, requests and runs: the dashboard's rows are those of the address, *)
(* never go back and reload quietly; a placement plan, the meters of a     *)
(* leaf and the drawer of a meter are what was asked for; an open drawer   *)
(* of alarms, bills, households or of the map is that of its row; the      *)
(* latest frames of a gateway never move under the user; and a page that   *)
(* has settled shows what is asked for.                                    *)
(***************************************************************************)
EXTENDS MCBrowserPages, GatewayReachProofs

-----------------------------------------------------------------------------
(* The parts of the inductive invariant.                                   *)

(* Rows and what they were loaded for are set together.                     *)
RowsAsLoaded == page.loadedFor = page.rows.of

(* Nothing on screen or in an answer is newer than the server's answers.    *)
WithinFloor ==
  /\ page.rows.stats <= floor
  /\ \A l \in Load : loads[l].stats <= floor

(* The answer of the newest load is no older than the rows on screen.       *)
LatestNewer ==
  page.latest # None /\ loads[page.latest].stats # Blank
    => page.rows.stats <= loads[page.latest].stats

(* The newest load has turned the loader on, unless it is a silent one.     *)
LoaderOn == page.latest # None /\ ~pending[page.latest].silent => page.isLoading

(* An open page has a node in its address.                                  *)
MountedHasNode == page.mounted => page.parent \in Node

PageInv ==
  /\ TypeOK
  /\ MountedHasNode
  /\ LatestForParent
  /\ RowsAsLoaded
  /\ WithinFloor
  /\ LatestNewer
  /\ LoaderOn

-----------------------------------------------------------------------------
LEMMA InitInv == Init => PageInv
<1> SUFFICES ASSUME Init
             PROVE  PageInv
  OBVIOUS
<1>1. /\ written \in Runs /\ floor = 0 /\ updatedAt = 0 /\ bumped = FALSE
      /\ loads = [l \in Load |-> NoLoad] /\ pending = [l \in Load |-> NoClosure]
      /\ page = NoPage
  BY DEF Init, ServiceInit
<1>2. /\ NoLoad \in LoadState /\ NoLoad.stats = Blank
      /\ NoPage \in PageState /\ NoPage.latest = None /\ NoPage.rows.stats = Blank
      /\ NoPage.loadedFor = NoPage.rows.of /\ ~NoPage.mounted
  BY DEF NoLoad, LoadState, NoPage, NoRows, PageState, NodeOrNone, Blank
<1>3. NoClosure \in [parent : NodeOrNone, silent : BOOLEAN]
  BY DEF NoClosure, NodeOrNone
<1>4. 0 \in 0 .. written /\ 0 \in Runs
  BY <1>1, ServiceAssumption DEF Runs
<1>5. TypeOK
  BY <1>1, <1>2, <1>3, <1>4 DEF TypeOK
<1>6. MountedHasNode /\ LatestForParent /\ RowsAsLoaded /\ WithinFloor /\ LatestNewer /\ LoaderOn
  BY <1>1, <1>2 DEF MountedHasNode, LatestForParent, RowsAsLoaded, WithinFloor, LatestNewer, LoaderOn, Blank
<1>7. QED
  BY <1>5, <1>6 DEF PageInv

(* What a request sent, and an answer taken, leaves.                        *)
LEMMA CallEffect ==
  ASSUME PageInv, NEW ls \in SUBSET Load, Call(ls)
  PROVE  /\ UNCHANGED <<written, floor>>
         /\ loads' \in [Load -> LoadState]
         /\ \A l \in ls : loads[l].pc = "idle" /\ loads'[l] = Sent
         /\ \A l \in Load \ ls : loads'[l] = loads[l]
         /\ \A l \in Load : loads'[l].stats <= floor'
<1>1. Sent \in LoadState /\ Sent.stats = Blank
  BY DEF Sent, LoadState, Blank
<1>2. floor \in Nat
  BY ServiceAssumption DEF PageInv, TypeOK, Runs
<1>3. QED
  BY <1>1, <1>2 DEF Call, Requests, PageInv, TypeOK, WithinFloor, Blank

LEMMA TakeEffect ==
  ASSUME PageInv, NEW l \in Load, Take(l)
  PROVE  /\ UNCHANGED <<written, floor>>
         /\ Answered(l)
         /\ loads' \in [Load -> LoadState]
         /\ loads'[l] = NoLoad
         /\ \A x \in Load \ {l} : loads'[x] = loads[x]
         /\ \A x \in Load : loads'[x].stats <= floor'
<1>1. NoLoad \in LoadState /\ NoLoad.stats = Blank
  BY DEF NoLoad, LoadState, Blank
<1>2. floor \in Nat
  BY ServiceAssumption DEF PageInv, TypeOK, Runs
<1>3. QED
  BY <1>1, <1>2 DEF Take, PageInv, TypeOK, WithinFloor, Blank

-----------------------------------------------------------------------------
(* Each step keeps the invariant.                                          *)

LEMMA ServerInv ==
  ASSUME PageInv, Server
  PROVE  PageInv'
<1> USE ServiceAssumption DEF Server, pageVars
<1>1. CASE WriteRows
  <2>1. UNCHANGED <<floor, loads, pageVars>> /\ written' = written + 1 /\ written < MaxRun
    BY <1>1 DEF WriteRows
  <2>2. TypeOK'
    BY <2>1 DEF PageInv, TypeOK, Runs
  <2>3. QED
    BY <2>1, <2>2
       DEF PageInv, MountedHasNode, LatestForParent, RowsAsLoaded, WithinFloor, LatestNewer, LoaderOn
<1>2. CASE Serve
  <2>1. /\ floor \in Nat /\ floor' \in Nat /\ floor <= floor' /\ floor' <= written
        /\ written \in Nat
        /\ UNCHANGED <<written, pageVars>>
    BY <1>2 DEF Serve, PageInv, TypeOK, Runs
  <2>2. ASSUME NEW l \in Load
        PROVE  /\ loads'[l].stats <= floor'
               /\ loads[l].pc # "idle" => loads'[l].pc # "idle"
               /\ loads'[l] = loads[l] \/ loads'[l].stats \in {floor', Blank}
    BY <1>2, <2>1 DEF Serve, Done, Failed, Blank, PageInv, WithinFloor, TypeOK, LoadState, Runs
  <2>3. TypeOK'
    <3>1. loads' \in [Load -> LoadState]
      BY <1>2 DEF Serve
    <3>2. page.latest # None => page.mounted /\ loads'[page.latest].pc # "idle"
      BY <2>2 DEF PageInv, TypeOK, PageState
    <3>3. QED
      BY <2>1, <3>1, <3>2 DEF PageInv, TypeOK
  <2>4. WithinFloor'
    BY <2>1, <2>2 DEF PageInv, WithinFloor, TypeOK, PageState, Runs, Blank
  <2>5. LatestNewer'
    BY <2>1, <2>2 DEF PageInv, LatestNewer, WithinFloor, TypeOK, PageState, Runs, Blank
  <2>6. QED
    BY <2>1, <2>3, <2>4, <2>5 DEF PageInv, MountedHasNode, LatestForParent, RowsAsLoaded, LoaderOn
<1>3. QED
  BY <1>1, <1>2 DEF ServiceStep

(* A load is begun for the node p, by whatever made the page pg what it is. *)
LEMMA BeginInv ==
  ASSUME PageInv, NEW pg, NEW p \in Node, NEW l \in Load, NEW silent \in BOOLEAN, Call({l}),
         pg = page \/ pg = [page EXCEPT !.parent = p],
         pg.parent = p, page.mounted,
         page' = Begin(pg, l, silent),
         pending' = Closure(l, p, silent),
         updatedAt' \in Runs, bumped' \in BOOLEAN
  PROVE  PageInv'
<1> USE PageAssumption, ServiceAssumption
<1>1. /\ UNCHANGED <<written, floor>>
      /\ loads' \in [Load -> LoadState]
      /\ loads'[l] = Sent
      /\ \A x \in Load : loads'[x].stats <= floor'
  BY CallEffect
<1>2. /\ page'.mounted = page.mounted /\ page'.parent = p
      /\ page'.rows = page.rows /\ page'.loadedFor = page.loadedFor
      /\ page'.latest = l
      /\ ~silent => page'.isLoading
  BY DEF Begin, PageInv, TypeOK, PageState
<1>3. page' \in PageState
  BY DEF Begin, PageInv, TypeOK, PageState, NodeOrNone
<1>4. /\ pending' \in [Load -> [parent : NodeOrNone, silent : BOOLEAN]]
      /\ pending'[l] = [parent |-> p, silent |-> silent]
  BY DEF Closure, PageInv, TypeOK, NodeOrNone
<1>5. TypeOK'
  BY <1>1, <1>2, <1>3, <1>4 DEF PageInv, TypeOK, Sent
<1>6. MountedHasNode' /\ LatestForParent' /\ LoaderOn'
  BY <1>2, <1>4 DEF MountedHasNode, LatestForParent, LoaderOn
<1>7. RowsAsLoaded' /\ WithinFloor' /\ LatestNewer'
  BY <1>1, <1>2 DEF PageInv, RowsAsLoaded, WithinFloor, LatestNewer, Sent
<1>8. QED
  BY <1>5, <1>6, <1>7 DEF PageInv

LEMMA OpenInv ==
  ASSUME PageInv, NEW n \in Node, NEW l1 \in Load, NEW l2 \in Load, Open(n, l1, l2)
  PROVE  PageInv'
<1> USE PageAssumption, ServiceAssumption
<1> DEFINE first == Begin([NoPage EXCEPT !.mounted = TRUE, !.parent = n], l1, FALSE)
<1>1. /\ first.mounted /\ first.parent = n /\ first.rows = NoRows /\ first.loadedFor = None
      /\ first.isLoading /\ first.latest = l1 /\ first \in PageState
  BY DEF Begin, NoPage, NoRows, PageState, NodeOrNone
<1>2. /\ page' = IF bumped THEN Begin(first, l2, TRUE) ELSE first
      /\ l1 # l2
      /\ UNCHANGED <<updatedAt, bumped>>
      /\ pending' = [l \in Load |->
                       CASE l = l1            -> [parent |-> n, silent |-> FALSE]
                         [] l = l2 /\ bumped  -> [parent |-> n, silent |-> TRUE]
                         [] OTHER             -> pending[l]]
  BY DEF Open
<1>3. \E ls \in SUBSET {l1, l2} :
        /\ Call(ls)
        /\ l1 \in ls
        /\ bumped => l2 \in ls
  BY DEF Open
<1> HIDE DEF first
<1>4. /\ page'.mounted /\ page'.parent = n /\ page'.rows = NoRows /\ page'.loadedFor = None
      /\ page'.isLoading /\ page'.latest = (IF bumped THEN l2 ELSE l1) /\ page' \in PageState
  BY <1>1, <1>2 DEF Begin, PageState, PageInv, TypeOK
<1>5. /\ UNCHANGED <<written, floor>>
      /\ loads' \in [Load -> LoadState]
      /\ loads'[page'.latest] = Sent
      /\ \A l \in Load : loads'[l].stats <= floor'
  BY <1>3, <1>4, CallEffect
<1>6. pending' \in [Load -> [parent : NodeOrNone, silent : BOOLEAN]]
  BY <1>2 DEF PageInv, TypeOK, NodeOrNone
<1>7. pending'[page'.latest].parent = n
  BY <1>2, <1>4
<1>8. TypeOK'
  <2>1. page'.latest # None => page'.mounted /\ loads'[page'.latest].pc # "idle"
    BY <1>4, <1>5 DEF Sent
  <2>2. /\ written' \in Runs /\ floor' \in 0 .. written'
        /\ updatedAt' \in Runs /\ bumped' \in BOOLEAN
    BY <1>2, <1>5 DEF PageInv, TypeOK
  <2>3. QED
    BY <1>4, <1>5, <1>6, <2>1, <2>2 DEF TypeOK
<1>9. MountedHasNode' /\ LatestForParent' /\ RowsAsLoaded' /\ LoaderOn'
  BY <1>4, <1>7 DEF MountedHasNode, LatestForParent, RowsAsLoaded, LoaderOn, NoRows
<1>10. WithinFloor' /\ LatestNewer'
  BY <1>4, <1>5 DEF PageInv, TypeOK, WithinFloor, LatestNewer, NoRows, Sent, Blank, Runs
<1>11. QED
  BY <1>8, <1>9, <1>10 DEF PageInv

(* The page is left, or an answer to a check changes nothing on it.         *)
LEMMA QuietInv ==
  ASSUME PageInv, Leave \/ (\E u \in 0 .. written : Hear(u)) \/ UNCHANGED vars
  PROVE  PageInv'
<1> USE PageAssumption, ServiceAssumption
<1>1. CASE Leave
  <2>1. page' = NoPage /\ UNCHANGED <<written, floor, loads, updatedAt, bumped, pending>>
    BY <1>1 DEF Leave, serviceVars
  <2>2. NoPage \in PageState /\ NoPage.latest = None /\ NoPage.rows.stats = Blank
        /\ NoPage.loadedFor = NoPage.rows.of /\ ~NoPage.mounted
    BY DEF NoPage, NoRows, PageState, NodeOrNone
  <2>3. floor \in Nat
    BY DEF PageInv, TypeOK, Runs
  <2>4. QED
    BY <2>1, <2>2, <2>3 DEF PageInv, TypeOK, MountedHasNode, LatestForParent,
                            RowsAsLoaded, WithinFloor, LatestNewer, LoaderOn, Blank
<1>2. ASSUME NEW u \in 0 .. written, Hear(u)
      PROVE  PageInv'
  <2>1. /\ updatedAt' = u /\ u \in Runs /\ bumped' \in BOOLEAN
        /\ UNCHANGED <<written, floor, loads, page, pending>>
    BY <1>2 DEF Hear, IsChange, serviceVars, PageInv, TypeOK, Runs
  <2>2. QED
    BY <2>1 DEF PageInv, TypeOK, MountedHasNode, LatestForParent, RowsAsLoaded, WithinFloor,
                LatestNewer, LoaderOn
<1>3. CASE UNCHANGED vars
  BY <1>3 DEF vars, serviceVars, pageVars, PageInv, TypeOK, MountedHasNode, LatestForParent, RowsAsLoaded,
              WithinFloor, LatestNewer, LoaderOn
<1>4. QED
  BY <1>1, <1>2, <1>3

(* What an answer leaves on the page when it is the newest load's.          *)
LEMMA SettleEffect ==
  ASSUME PageInv, NEW l \in Load, page.latest = l, Answered(l)
  PROVE  LET after == Settle(page, l) IN
         /\ after \in PageState
         /\ after.mounted = page.mounted /\ after.parent = page.parent /\ after.latest = None
         /\ \/ /\ loads[l].pc = "done"
               /\ after.rows = [stats |-> loads[l].stats, of |-> page.parent]
               /\ after.loadedFor = page.parent
               /\ after.error = page.error
            \/ /\ loads[l].pc = "failed"
               /\ after.rows = page.rows
               /\ after.loadedFor = page.loadedFor
               /\ after.error = (page.error \/ ~pending[l].silent)
         /\ after.isLoading = (pending[l].silent /\ page.isLoading)
<1> DEFINE p == pending[l]
           s == loads[l].stats
<1>1. p.parent = page.parent /\ p.parent \in NodeOrNone /\ p.silent \in BOOLEAN
  BY PageAssumption DEF PageInv, LatestForParent, TypeOK
<1>2. s \in Runs \cup {Blank} /\ loads[l].pc \in {"done", "failed"}
  BY DEF PageInv, TypeOK, LoadState, Answered
<1>3. page \in PageState
  BY DEF PageInv, TypeOK
<1> HIDE DEF p, s
<1>4. CASE loads[l].pc = "done"
  BY <1>1, <1>2, <1>3, <1>4, PageAssumption DEF Settle, Shown, Finally, PageState, p, s
<1>5. CASE loads[l].pc = "failed"
  BY <1>1, <1>2, <1>3, <1>5, PageAssumption DEF Settle, Failure, Finally, PageState, p, s
<1>6. QED
  BY <1>2, <1>4, <1>5

LEMMA ReceiveInv ==
  ASSUME PageInv, NEW l \in Load, Receive(l)
  PROVE  PageInv'
<1> USE PageAssumption, ServiceAssumption
<1>1. /\ UNCHANGED <<written, floor, updatedAt, bumped>>
      /\ Answered(l)
      /\ loads' \in [Load -> LoadState]
      /\ \A x \in Load \ {l} : loads'[x] = loads[x]
      /\ \A x \in Load : loads'[x].stats <= floor'
  BY TakeEffect DEF Receive
<1>2. /\ pending' \in [Load -> [parent : NodeOrNone, silent : BOOLEAN]]
      /\ \A x \in Load \ {l} : pending'[x] = pending[x]
  BY DEF Receive, NoClosure, PageInv, TypeOK, NodeOrNone
<1>3. CASE page.latest = l
  <2>1. /\ page' \in PageState /\ page'.latest = None
        /\ page'.mounted = page.mounted /\ page'.parent = page.parent
        /\ \/ page'.rows = [stats |-> loads[l].stats, of |-> page.parent]
              /\ page'.loadedFor = page.parent
           \/ page'.rows = page.rows /\ page'.loadedFor = page.loadedFor
    BY <1>1, <1>3, SettleEffect DEF Receive, IsLatest
  <2>2. TypeOK'
    BY <1>1, <1>2, <2>1 DEF PageInv, TypeOK
  <2>3. RowsAsLoaded' /\ WithinFloor'
    BY <1>1, <2>1 DEF PageInv, RowsAsLoaded, WithinFloor
  <2>4. QED
    BY <2>1, <2>2, <2>3 DEF PageInv, MountedHasNode, LatestForParent, LatestNewer, LoaderOn
<1>4. CASE page.latest # l
  <2>1. page' = page
    BY <1>4 DEF Receive, IsLatest
  <2>2. page.latest # None => page.latest \in Load \ {l}
    BY <1>4 DEF PageInv, TypeOK, PageState
  <2>3. TypeOK'
    BY <1>1, <1>2, <2>1, <2>2 DEF PageInv, TypeOK
  <2>4. /\ MountedHasNode' /\ LatestForParent' /\ RowsAsLoaded' /\ WithinFloor'
        /\ LatestNewer' /\ LoaderOn'
    BY <1>1, <1>2, <2>1, <2>2
       DEF PageInv, MountedHasNode, LatestForParent, RowsAsLoaded, WithinFloor, LatestNewer, LoaderOn
  <2>5. QED
    BY <2>3, <2>4 DEF PageInv
<1>5. QED
  BY <1>3, <1>4

LEMMA InvStep ==
  ASSUME PageInv, [Next]_vars
  PROVE  PageInv'
<1> USE PageAssumption, ServiceAssumption
<1>0. updatedAt \in Runs /\ bumped \in BOOLEAN
  BY DEF PageInv, TypeOK
<1>1. CASE Server
  BY <1>1, ServerInv
<1>2. CASE Opening
  BY <1>2, OpenInv DEF Opening
<1>3. ASSUME NEW n \in Node, NEW l \in Load, Navigate(n, l)
      PROVE  PageInv'
  <2> DEFINE pg == [page EXCEPT !.parent = n]
  <2>1. /\ pg.parent = n /\ page.mounted /\ Call({l})
        /\ page' = Begin(pg, l, FALSE) /\ pending' = Closure(l, n, FALSE)
        /\ UNCHANGED <<updatedAt, bumped>>
    BY <1>3 DEF Navigate, PageInv, TypeOK, PageState
  <2>2. pg = page \/ pg = [page EXCEPT !.parent = n]
    OBVIOUS
  <2> HIDE DEF pg
  <2>3. QED
    BY <1>0, <2>1, <2>2, BeginInv
<1>4. ASSUME NEW l \in Load, Retry(l)
      PROVE  PageInv'
  BY <1>0, <1>4, BeginInv DEF Retry, PageInv, MountedHasNode
<1>5. ASSUME NEW u \in 0 .. written, NEW l \in Load, HearChange(u, l)
      PROVE  PageInv'
  <2>1. u \in Runs
    BY DEF PageInv, TypeOK, Runs
  <2>2. QED
    BY <1>5, <2>1, BeginInv DEF HearChange, PageInv, MountedHasNode
<1>6. ASSUME NEW l \in Load, Receive(l)
      PROVE  PageInv'
  BY <1>6, ReceiveInv
<1>7. QED
  BY <1>1, <1>2, <1>3, <1>4, <1>5, <1>6, QuietInv DEF Next, Moving, Hearing

LEMMA Invariance == Spec => []PageInv
<1>1. PageInv /\ [Next]_vars => PageInv'
  BY InvStep
<1>2. QED
  BY InitInv, <1>1, PTL DEF Spec

-----------------------------------------------------------------------------
(* The theorems.                                                           *)

(* The variables have their types, and the newest load is under way.       *)
THEOREM PageTypes == Spec => []TypeOK
<1>1. PageInv => TypeOK
  BY DEF PageInv
<1>2. QED
  BY Invariance, <1>1, PTL

(* What the hook hands out belongs to the address, in whatever order the    *)
(* answers arrive (useNodeChildren's seq and loadedFor).                    *)
THEOREM RowsBelong == Spec => []RowsOfParent
<1>1. PageInv => RowsOfParent
  BY DEF PageInv, RowsAsLoaded, RowsOfParent, HandedOut, Current, NoRows
<1>2. QED
  BY Invariance, <1>1, PTL

(* What a step does to the rows of a page that stays open: nothing, or they *)
(* are those of the newest load, which has been answered.                   *)
LEMMA RowsStep ==
  ASSUME PageInv, [Next]_vars, page.mounted, page'.mounted
  PROVE  \/ page'.rows = page.rows
         \/ page.latest # None /\ page'.rows.stats = loads[page.latest].stats
<1>1. ASSUME NEW l \in Load, Receive(l)
      PROVE  \/ page'.rows = page.rows
             \/ page.latest # None /\ page'.rows.stats = loads[page.latest].stats
  <2>1. CASE page.latest = l
    <3>1. Answered(l)
      BY <1>1, TakeEffect DEF Receive
    <3>2. page' = Settle(page, l)
      BY <1>1, <2>1 DEF Receive, IsLatest
    <3>3. \/ page'.rows = [stats |-> loads[l].stats, of |-> page.parent]
          \/ page'.rows = page.rows
      BY <2>1, <3>1, <3>2, SettleEffect
    <3>4. QED
      BY <2>1, <3>3, PageAssumption
  <2>2. CASE page.latest # l
    BY <1>1, <2>2 DEF Receive, IsLatest
  <2>3. QED
    BY <2>1, <2>2
<1>2. CASE Server \/ Opening \/ Leave \/ UNCHANGED vars
  BY <1>2 DEF Server, pageVars, Opening, Open, Leave, NoPage, vars
<1>3. CASE Moving
  BY <1>3 DEF Moving, Navigate, Begin, PageInv, TypeOK, PageState
<1>4. CASE Hearing
  BY <1>4 DEF Hearing, Hear, HearChange, Begin, PageInv, TypeOK, PageState
<1>5. ASSUME NEW l \in Load, Retry(l)
      PROVE  page'.rows = page.rows
  BY <1>5 DEF Retry, Begin, PageInv, TypeOK, PageState
<1>6. QED
  BY <1>1, <1>2, <1>3, <1>4, <1>5 DEF Next

(* The numbers on screen never go back while the page stays open.           *)
THEOREM RowsNeverBack == Spec => RowsForward
<1>1. ASSUME PageInv, [Next]_vars, page.mounted, page'.mounted,
             page.rows.stats # Blank, page'.rows.stats # Blank
      PROVE  page'.rows.stats >= page.rows.stats
  <2>1. page.rows.stats \in Int
    BY <1>1, ServiceAssumption DEF PageInv, TypeOK, PageState, Runs, Blank
  <2>2. CASE page'.rows = page.rows
    BY <2>1, <2>2
  <2>3. CASE page.latest # None /\ page'.rows.stats = loads[page.latest].stats
    <3>1. page.rows.stats <= page'.rows.stats
      BY <1>1, <2>3 DEF PageInv, LatestNewer
    <3>2. loads[page.latest].stats \in Int
      BY <2>3, <1>1, ServiceAssumption DEF PageInv, TypeOK, PageState, LoadState, Runs, Blank
    <3>3. QED
      BY <2>1, <2>3, <3>1, <3>2
  <2>4. QED
    BY <1>1, <2>2, <2>3, RowsStep
<1>2. PageInv /\ [Next]_vars =>
        (page.mounted /\ page'.mounted /\ page.rows.stats # Blank /\ page'.rows.stats # Blank
           => page'.rows.stats >= page.rows.stats)
  BY <1>1
<1>3. QED
  BY Invariance, <1>2, PTL DEF Spec, RowsForward

(* A reload by itself disturbs nothing that is on screen.                   *)
THEOREM ReloadsQuiet == Spec => QuietReload
<1>1. ASSUME PageInv, [Next]_vars, Visible(page), page'.mounted, page'.parent = page.parent
      PROVE  Visible(page')
  <2>1. /\ page.mounted /\ page.loadedFor = page.parent /\ page.error = FALSE
        /\ page.isLoading = FALSE
    BY <1>1 DEF Visible, Current, Loader, PageInv, TypeOK, PageState
  <2>2. SUFFICES /\ page'.loadedFor = page.parent /\ page'.error = FALSE
                 /\ page'.isLoading = FALSE
    BY <1>1, <2>2 DEF Visible, Current, Loader
  <2>3. CASE Server \/ Opening \/ Leave \/ UNCHANGED vars
    BY <1>1, <2>1, <2>3 DEF Server, pageVars, Opening, Open, Leave, NoPage, vars
  <2>4. CASE Moving
    BY <1>1, <2>1, <2>4 DEF Moving, Navigate, Begin, PageInv, TypeOK, PageState
  <2>5. CASE Hearing
    BY <1>1, <2>1, <2>5 DEF Hearing, Hear, HearChange, Begin, PageInv, TypeOK, PageState
  <2>6. ASSUME NEW l \in Load, Receive(l)
        PROVE  /\ page'.loadedFor = page.parent /\ page'.error = FALSE
               /\ page'.isLoading = FALSE
    <3>1. CASE page.latest = l
      <4>1. Answered(l)
        BY <1>1, <2>6, TakeEffect DEF Receive
      <4>2. pending[l].silent
        BY <1>1, <2>1, <3>1, PageAssumption DEF PageInv, LoaderOn
      <4>3. QED
        BY <1>1, <2>1, <2>6, <3>1, <4>1, <4>2, SettleEffect DEF Receive, IsLatest
    <3>2. CASE page.latest # l
      BY <2>1, <2>6, <3>2 DEF Receive, IsLatest
    <3>3. QED
      BY <3>1, <3>2
  <2>7. ASSUME NEW l \in Load, Retry(l)
        PROVE  FALSE
    BY <2>1, <2>7 DEF Retry
  <2>8. QED
    BY <1>1, <2>3, <2>4, <2>5, <2>6, <2>7 DEF Next
<1>2. PageInv /\ [Next]_vars =>
        (Visible(page) /\ page'.mounted /\ page'.parent = page.parent => Visible(page'))
  BY <1>1
<1>3. QED
  BY Invariance, <1>2, PTL DEF Spec, QuietReload

-----------------------------------------------------------------------------
(***************************************************************************)
(* The placement page.  The newest run, while its answer is on its way, is *)
(* for the site and the mode chosen and, unless the timer of a lock is     *)
(* set, for the locks.                                                     *)
(***************************************************************************)
Plans == [site : Site, locks : SUBSET Existing]

PlacementTypes ==
  /\ site \in Site /\ mode \in Mode /\ locks \in SUBSET Existing
  /\ runId \in Nat
  /\ asked \in SUBSET [run : Nat, mode : Mode, site : Site, locks : SUBSET Existing]
  /\ added \in Plans \cup {NoPlan} /\ relocation \in Plans \cup {NoPlan}
  /\ isLoading \in BOOLEAN /\ failed \in BOOLEAN /\ waiting \in BOOLEAN

NewestIsCurrent ==
  \A a \in asked :
    /\ a.run <= runId
    /\ a.run = runId => /\ a.site = site /\ a.mode = mode
                        /\ mode = "optimize" /\ ~waiting => a.locks = locks

PlacementInv == PlacementTypes /\ NewestIsCurrent /\ PlanForAsked

LEMMA PlacementInitially == PlacementInit => PlacementInv
<1> SUFFICES ASSUME PlacementInit PROVE PlacementInv
  OBVIOUS
<1>1. PlacementTypes
  <2> DEFINE a == [run |-> 1, mode |-> "add", site |-> site, locks |-> {}]
  <2>1. site \in Site /\ mode = "add" /\ locks = {} /\ runId = 1 /\ asked = {a}
        /\ added = NoPlan /\ relocation = NoPlan
    BY DEF PlacementInit
  <2>2. a \in [run : Nat, mode : Mode, site : Site, locks : SUBSET Existing] /\ mode \in Mode
    BY <2>1 DEF Mode
  <2>3. isLoading \in BOOLEAN /\ failed \in BOOLEAN /\ waiting \in BOOLEAN
    BY DEF PlacementInit
  <2> QED BY <2>1, <2>2, <2>3 DEF PlacementTypes
<1>2. NewestIsCurrent /\ PlanForAsked
  BY DEF PlacementInit, NewestIsCurrent, PlanForAsked, PlanShown, Settled
<1> QED BY <1>1, <1>2 DEF PlacementInv

\* A run that starts takes the next number, or the one after it, for what is
\* chosen now; the answers of all earlier runs are then too late.
LEMMA RunStarts ==
  ASSUME PlacementInv, NEW m \in Mode, NEW s \in Site, NEW n \in Nat \ {0},
         runId' = runId + n, asked' = asked \cup {Run(m, s)},
         site' = s, mode' = m, locks' = locks, isLoading' = TRUE,
         waiting' \in BOOLEAN, failed' = FALSE,
         \/ added' = NoPlan /\ relocation' = NoPlan
         \/ added' = added /\ relocation' = relocation /\ s = site /\ m = mode
  PROVE  PlacementInv'
<1>1. Run(m, s) \in [run : Nat, mode : Mode, site : Site, locks : SUBSET Existing]
  BY DEF PlacementInv, PlacementTypes, Run
<1>2. PlacementTypes'
  <2>1. runId' \in Nat /\ asked' \in SUBSET [run : Nat, mode : Mode, site : Site, locks : SUBSET Existing]
    BY <1>1 DEF PlacementInv, PlacementTypes
  <2>2. locks' \in SUBSET Existing /\ added' \in Plans \cup {NoPlan} /\ relocation' \in Plans \cup {NoPlan}
    BY DEF PlacementInv, PlacementTypes
  <2>3. site' \in Site /\ mode' \in Mode /\ isLoading' \in BOOLEAN /\ failed' \in BOOLEAN /\ waiting' \in BOOLEAN
    OBVIOUS
  <2> QED BY <2>1, <2>2, <2>3 DEF PlacementTypes
<1>3. NewestIsCurrent'
  <2> SUFFICES ASSUME NEW a \in asked'
               PROVE  /\ a.run <= runId'
                      /\ a.run = runId' => /\ a.site = s /\ a.mode = m /\ a.locks = locks
    BY DEF NewestIsCurrent
  <2>1. CASE a \in asked
    <3>1. a.run \in Nat /\ a.run <= runId /\ runId \in Nat
      BY <2>1 DEF PlacementInv, PlacementTypes, NewestIsCurrent
    <3> QED BY <3>1
  <2>2. CASE a = Run(m, s)
    BY <2>2 DEF Run, PlacementInv, PlacementTypes
  <2> QED BY <2>1, <2>2
<1>4. PlanForAsked'
  BY DEF PlacementInv, PlanForAsked, PlanShown, Settled
<1> QED BY <1>2, <1>3, <1>4 DEF PlacementInv

LEMMA PlacementStep ==
  ASSUME PlacementInv, [PlacementNext]_placementVars
  PROVE  PlacementInv'
<1>0. site \in Site /\ mode \in Mode /\ waiting \in BOOLEAN
  BY DEF PlacementInv, PlacementTypes
<1>1. ASSUME Generate, waiting' \in BOOLEAN PROVE PlacementInv'
  <2>1. /\ runId' = runId + 1 /\ asked' = asked \cup {Run(mode, site)} /\ isLoading' = TRUE
        /\ failed' = FALSE /\ site' = site /\ mode' = mode /\ locks' = locks
        /\ added' = added /\ relocation' = relocation /\ 1 \in Nat \ {0}
    BY <1>1 DEF Generate
  <2> QED BY <1>0, <1>1, <2>1, RunStarts
<1>2. CASE ClickGenerate \/ TimerFires
  BY <1>0, <1>1, <1>2 DEF ClickGenerate, TimerFires
<1>3. ASSUME NEW s \in Site, ChooseSite(s) PROVE PlacementInv'
  <2>1. /\ runId' = runId + 2 /\ asked' = asked \cup {Run(mode, s)} /\ isLoading' = TRUE
        /\ failed' = FALSE /\ site' = s /\ mode' = mode /\ locks' = locks
        /\ added' = NoPlan /\ relocation' = NoPlan /\ waiting' = waiting /\ 2 \in Nat \ {0}
    BY <1>3 DEF ChooseSite, CleanSlate
  <2> QED BY <1>0, <2>1, RunStarts
<1>4. ASSUME NEW m \in Mode, SwitchMode(m) PROVE PlacementInv'
  <2>1. /\ runId' = runId + 2 /\ asked' = asked \cup {Run(m, site)} /\ isLoading' = TRUE
        /\ failed' = FALSE /\ site' = site /\ mode' = m /\ locks' = locks
        /\ added' = NoPlan /\ relocation' = NoPlan /\ waiting' = FALSE /\ 2 \in Nat \ {0}
    BY <1>4 DEF SwitchMode, CleanSlate
  <2> QED BY <1>0, <2>1, RunStarts
<1>5. ASSUME NEW ls \in SUBSET Existing, SetLocks(ls) PROVE PlacementInv'
  <2>1. /\ locks' = ls /\ waiting' = TRUE /\ asked' = asked /\ runId' = runId
        /\ site' = site /\ mode' = mode /\ added' = added /\ relocation' = relocation
        /\ isLoading' = isLoading /\ failed' = failed
    BY <1>5 DEF SetLocks
  <2>2. PlacementTypes'
    BY <2>1 DEF PlacementInv, PlacementTypes
  <2> QED BY <2>1, <2>2 DEF PlacementInv, NewestIsCurrent, PlanForAsked, PlanShown, Settled
<1>6. ASSUME NEW a \in asked, PlanArrives(a) PROVE PlacementInv'
  <2>0. /\ a \in [run : Nat, mode : Mode, site : Site, locks : SUBSET Existing]
        /\ asked' = asked \ {a} /\ site' = site /\ mode' = mode /\ locks' = locks
        /\ runId' = runId /\ failed' = failed /\ waiting' = waiting
    BY <1>6 DEF PlacementInv, PlacementTypes, PlanArrives
  <2>1. NewestIsCurrent'
    BY <2>0 DEF PlacementInv, NewestIsCurrent
  <2>2. CASE ~NewestRun(a)
    <3>1. isLoading' = isLoading /\ added' = added /\ relocation' = relocation
      BY <1>6, <2>2 DEF PlanArrives
    <3>2. PlacementTypes'
      BY <2>0, <3>1 DEF PlacementInv, PlacementTypes
    <3> QED BY <2>0, <2>1, <3>1, <3>2 DEF PlacementInv, PlanForAsked, PlanShown, Settled
  <2>3. CASE NewestRun(a)
    <3>1. a.site = site /\ a.mode = mode /\ (mode = "optimize" /\ ~waiting => a.locks = locks)
      BY <2>3 DEF NewestRun, PlacementInv, NewestIsCurrent
    <3>2. CASE mode = "optimize"
      <4> DEFINE p == [site |-> a.site, locks |-> a.locks]
      <4>1. isLoading' = FALSE /\ relocation' = p /\ added' = added /\ p \in Plans
        BY <1>6, <2>0, <2>3, <3>1, <3>2 DEF PlanArrives, Plans
      <4>2. p # NoPlan /\ p.site = site /\ (~waiting => p.locks = locks)
        BY <2>0, <3>1, <3>2, PlacementAssumption
      <4>3. PlacementTypes'
        BY <2>0, <4>1 DEF PlacementInv, PlacementTypes
      <4>4. PlanForAsked'
        BY <2>0, <3>2, <4>1, <4>2 DEF PlanForAsked, PlanShown, Settled
      <4> QED BY <2>1, <4>3, <4>4 DEF PlacementInv
    <3>3. CASE mode # "optimize"
      <4> DEFINE p == [site |-> a.site, locks |-> {}]
      <4>1. isLoading' = FALSE /\ added' = p /\ relocation' = relocation /\ p \in Plans
        BY <1>6, <2>0, <2>3, <3>1, <3>3 DEF PlanArrives, Plans
      <4>2. p # NoPlan /\ p.site = site
        BY <2>0, <3>1, PlacementAssumption
      <4>3. PlacementTypes'
        BY <2>0, <4>1 DEF PlacementInv, PlacementTypes
      <4>4. PlanForAsked'
        BY <2>0, <3>3, <4>1, <4>2 DEF PlanForAsked, PlanShown, Settled
      <4> QED BY <2>1, <4>3, <4>4 DEF PlacementInv
    <3> QED BY <3>2, <3>3
  <2> QED BY <2>2, <2>3
<1>7. ASSUME NEW a \in asked, PlanFails(a) PROVE PlacementInv'
  <2>0. /\ asked' = asked \ {a} /\ site' = site /\ mode' = mode /\ locks' = locks
        /\ runId' = runId /\ waiting' = waiting /\ added' = added /\ relocation' = relocation
        /\ \/ isLoading' = FALSE /\ failed' = TRUE
           \/ isLoading' = isLoading /\ failed' = failed
    BY <1>7 DEF PlanFails
  <2>1. PlacementTypes'
    BY <2>0 DEF PlacementInv, PlacementTypes
  <2> QED BY <2>0, <2>1 DEF PlacementInv, NewestIsCurrent, PlanForAsked, PlanShown, Settled
<1>8. CASE UNCHANGED placementVars
  BY <1>8 DEF placementVars, PlacementInv, PlacementTypes, NewestIsCurrent, PlanForAsked,
              PlanShown, Settled
<1> QED BY <1>2, <1>3, <1>4, <1>5, <1>6, <1>7, <1>8 DEF PlacementNext

\* A plan on screen is for the site chosen, and a settled page shows the plan of
\* the locks as they are, for any number of sites, gateways and runs.
THEOREM PlanIsForAsked == PlacementSpec => []PlanForAsked
<1>1. PlacementInv => PlanForAsked
  BY DEF PlacementInv
<1> QED BY <1>1, PlacementInitially, PlacementStep, PTL DEF PlacementSpec

-----------------------------------------------------------------------------
(***************************************************************************)
(* The meters of a leaf.  The newest request, while its answer is on its   *)
(* way and a leaf is chosen, is for what the hook asks for.                *)
(***************************************************************************)
AnyAsk == [node : LeafNode \cup {NoNode}, filter : Filter, order : Order, page : Nat]

MetersTypes ==
  /\ asking \in AnyAsk
  /\ metersLoading \in BOOLEAN /\ error \in BOOLEAN
  /\ seq \in Nat
  /\ inFlight \in SUBSET [id : Nat, for : AnyAsk, silent : BOOLEAN]

NewestIsAsked ==
  \A r \in inFlight : /\ r.id <= seq
                      /\ r.id = seq /\ asking.node # NoNode => r.for = asking

MetersInv == MetersTypes /\ NewestIsAsked /\ RowsForAsked

LEMMA MetersInitially == MetersInit => MetersInv
<1> SUFFICES ASSUME MetersInit PROVE MetersInv
  OBVIOUS
<1>1. asking \in AnyAsk
  BY DEF MetersInit, AnyAsk
<1>2. /\ inFlight = {[id |-> 1, for |-> asking, silent |-> FALSE]} /\ seq = 1
      /\ metersLoading = TRUE /\ error = FALSE
  BY DEF MetersInit
<1>3. [id |-> 1, for |-> asking, silent |-> FALSE] \in [id : Nat, for : AnyAsk, silent : BOOLEAN]
  BY <1>1
<1>4. MetersTypes
  BY <1>1, <1>2, <1>3 DEF MetersTypes
<1> QED BY <1>2, <1>4 DEF MetersInv, NewestIsAsked, RowsForAsked

LEMMA RowsLoad ==
  ASSUME MetersInv, NEW a \in AnyAsk, NEW silent \in BOOLEAN,
         LoadRows(a, silent), asking' = a, silent => a = asking
  PROVE  MetersInv'
<1>1. CASE a.node = NoNode
  BY <1>1 DEF LoadRows, MetersInv, MetersTypes, NewestIsAsked, RowsForAsked
<1>2. CASE a.node # NoNode
  <2>1. /\ seq' = seq + 1 /\ seq \in Nat
        /\ inFlight' = inFlight \cup {[id |-> seq + 1, for |-> a, silent |-> silent]}
        /\ metersLoading' = (metersLoading \/ ~silent) /\ error' = (error /\ silent) /\ rows' = rows
    BY <1>2 DEF LoadRows, MetersInv, MetersTypes
  <2>2. MetersTypes'
    BY <2>1 DEF MetersInv, MetersTypes
  <2>3. NewestIsAsked'
    <3> SUFFICES ASSUME NEW r \in inFlight' PROVE r.id <= seq' /\ (r.id = seq' => r.for = a)
      BY DEF NewestIsAsked
    <3>1. CASE r \in inFlight
      <4>1. r.id \in Nat /\ r.id <= seq
        BY <3>1 DEF MetersInv, MetersTypes, NewestIsAsked
      <4> QED BY <2>1, <4>1
    <3>2. CASE r = [id |-> seq + 1, for |-> a, silent |-> silent]
      BY <2>1, <3>2
    <3> QED BY <2>1, <3>1, <3>2
  <2>4. RowsForAsked'
    BY <2>1 DEF MetersInv, RowsForAsked
  <2> QED BY <2>2, <2>3, <2>4 DEF MetersInv
<1> QED BY <1>1, <1>2

LEMMA MetersKept ==
  ASSUME MetersInv, [MetersNext]_metersVars
  PROVE  MetersInv'
<1>0. /\ asking \in AnyAsk /\ seq \in Nat /\ metersLoading \in BOOLEAN /\ error \in BOOLEAN
      /\ inFlight \in SUBSET [id : Nat, for : AnyAsk, silent : BOOLEAN]
      /\ Page \subseteq Nat /\ Asks \subseteq AnyAsk
  BY NodeMetersAssumption DEF MetersInv, MetersTypes, Page, Asks, AnyAsk
<1>1. ASSUME NEW a \in Asks, Choose(a) PROVE MetersInv'
  <2>1. CASE a.node = NoNode \/ asking.page = 0
    BY <1>0, <1>1, <2>1, RowsLoad DEF Choose
  <2>2. CASE ~(a.node = NoNode \/ asking.page = 0)
    <3> DEFINE b == [a EXCEPT !.page = asking.page]
    <3>1. /\ asking' = a /\ seq' = seq + 2 /\ metersLoading' = TRUE /\ error' = FALSE
          /\ inFlight' = inFlight \cup {[id |-> seq + 1, for |-> b, silent |-> FALSE],
                                       [id |-> seq + 2, for |-> a, silent |-> FALSE]}
      BY <1>1, <2>2 DEF Choose
    <3>2. a \in AnyAsk /\ b \in AnyAsk
      BY <1>0 DEF AnyAsk
    <3>3. MetersTypes'
      <4>1. /\ [id |-> seq + 1, for |-> b, silent |-> FALSE] \in [id : Nat, for : AnyAsk, silent : BOOLEAN]
            /\ [id |-> seq + 2, for |-> a, silent |-> FALSE] \in [id : Nat, for : AnyAsk, silent : BOOLEAN]
        BY <1>0, <3>2
      <4>2. inFlight' \in SUBSET [id : Nat, for : AnyAsk, silent : BOOLEAN]
        BY <1>0, <3>1, <4>1
      <4> QED BY <1>0, <3>1, <3>2, <4>2 DEF MetersTypes
    <3>4. NewestIsAsked'
      <4> SUFFICES ASSUME NEW r \in inFlight' PROVE r.id <= seq' /\ (r.id = seq' => r.for = a)
        BY <3>1 DEF NewestIsAsked
      <4>1. CASE r \in inFlight
        <5>1. r.id \in Nat /\ r.id <= seq
          BY <1>0, <4>1 DEF MetersInv, NewestIsAsked
        <5> QED BY <1>0, <3>1, <5>1
      <4>2. CASE r.id = seq + 1
        BY <1>0, <3>1, <4>2
      <4>3. CASE r = [id |-> seq + 2, for |-> a, silent |-> FALSE]
        BY <1>0, <3>1, <4>3
      <4> QED BY <3>1, <4>1, <4>2, <4>3
    <3> QED BY <3>1, <3>3, <3>4 DEF MetersInv, RowsForAsked
  <2> QED BY <2>1, <2>2
<1>2. ASSUME NEW o \in Order, ToggleSort(o) PROVE MetersInv'
  <2>1. asking' = [asking EXCEPT !.order = o, !.page = 0] /\ LoadRows(asking', FALSE)
    BY <1>2 DEF ToggleSort
  <2>2. asking' \in AnyAsk
    BY <1>0, <2>1 DEF AnyAsk
  <2> QED BY <2>1, <2>2, RowsLoad
<1>3. ASSUME NEW p \in Page, SetPage(p) PROVE MetersInv'
  <2>1. asking' = [asking EXCEPT !.page = p] /\ LoadRows(asking', FALSE)
    BY <1>3 DEF SetPage
  <2>2. asking' \in AnyAsk
    BY <1>0, <2>1 DEF AnyAsk
  <2> QED BY <2>1, <2>2, RowsLoad
<1>4. ASSUME NEW silent \in BOOLEAN, Reask(silent) PROVE MetersInv'
  BY <1>0, <1>4, RowsLoad DEF Reask
<1>5. ASSUME NEW r \in inFlight, RowsFail(r) PROVE MetersInv'
  <2>1. /\ inFlight' = inFlight \ {r} /\ asking' = asking /\ rows' = rows /\ seq' = seq
        /\ error' = (error \/ (NewestAsk(r) /\ ~r.silent))
        /\ metersLoading' = (metersLoading /\ (r.silent \/ ~NewestAsk(r)))
    BY <1>5 DEF RowsFail, Ends
  <2>2. MetersTypes' /\ NewestIsAsked'
    BY <1>0, <2>1 DEF MetersInv, MetersTypes, NewestIsAsked
  <2> QED BY <1>0, <2>1, <2>2 DEF MetersInv, RowsForAsked
<1>6. ASSUME NEW r \in inFlight, NEW p \in Page, RowsArrive(r, p) PROVE MetersInv'
  <2>0. r.for \in AnyAsk /\ r.id \in Nat /\ p \in Nat /\ r.id <= seq
    BY <1>0 DEF MetersInv, NewestIsAsked
  <2>1. CASE ~NewestAsk(r)
    <3>1. /\ inFlight' = inFlight \ {r} /\ asking' = asking /\ rows' = rows /\ seq' = seq
          /\ metersLoading' = metersLoading /\ error' = error
      BY <1>6, <2>1 DEF RowsArrive
    <3> QED BY <3>1 DEF MetersInv, MetersTypes, NewestIsAsked, RowsForAsked
  <2>2. CASE NewestAsk(r) /\ (p = r.for.page \/ asking.node = NoNode)
    <3>1. /\ inFlight' = inFlight \ {r} /\ asking' = asking /\ seq' = seq /\ error' = error
          /\ rows' = [r.for EXCEPT !.page = p] /\ metersLoading' \in BOOLEAN
      BY <1>6, <2>2 DEF RowsArrive, Ends
    <3>2. asking.node # NoNode => rows' = asking
      <4> SUFFICES ASSUME asking.node # NoNode PROVE rows' = asking
        OBVIOUS
      <4>1. r.for = asking
        BY <2>2 DEF MetersInv, NewestIsAsked, NewestAsk
      <4> QED BY <1>0, <2>2, <3>1, <4>1 DEF AnyAsk
    <3>3. MetersTypes' /\ NewestIsAsked'
      BY <3>1 DEF MetersInv, MetersTypes, NewestIsAsked
    <3> QED BY <3>1, <3>2, <3>3 DEF MetersInv, RowsForAsked
  <2>3. CASE NewestAsk(r) /\ ~(p = r.for.page \/ asking.node = NoNode)
    <3> DEFINE n == [id |-> seq + 1, for |-> asking', silent |-> FALSE]
    <3>1. /\ asking' = [asking EXCEPT !.page = p] /\ seq' = seq + 1
          /\ inFlight' = (inFlight \ {r}) \cup {n}
          /\ metersLoading' = TRUE /\ error' = FALSE
      BY <1>6, <2>3 DEF RowsArrive
    <3>2. asking' \in AnyAsk
      BY <1>0, <2>0, <3>1 DEF AnyAsk
    <3>3. MetersTypes'
      <4>1. n \in [id : Nat, for : AnyAsk, silent : BOOLEAN]
        BY <1>0, <3>2
      <4>2. inFlight' \in SUBSET [id : Nat, for : AnyAsk, silent : BOOLEAN]
        BY <1>0, <3>1, <4>1
      <4> QED BY <1>0, <3>1, <3>2, <4>2 DEF MetersTypes
    <3>4. NewestIsAsked'
      <4> SUFFICES ASSUME NEW q \in inFlight' PROVE q.id <= seq' /\ (q.id = seq' => q.for = asking')
        BY DEF NewestIsAsked
      <4>1. CASE q \in inFlight
        <5>1. q.id \in Nat /\ q.id <= seq
          BY <1>0, <4>1 DEF MetersInv, NewestIsAsked
        <5> QED BY <1>0, <3>1, <5>1
      <4>2. CASE q = n
        BY <1>0, <3>1, <4>2
      <4> QED BY <3>1, <4>1, <4>2
    <3> QED BY <3>1, <3>3, <3>4 DEF MetersInv, RowsForAsked
  <2> QED BY <2>1, <2>2, <2>3
<1>7. CASE UNCHANGED metersVars
  BY <1>7 DEF metersVars, MetersInv, MetersTypes, NewestIsAsked, RowsForAsked
<1> QED BY <1>1, <1>2, <1>3, <1>4, <1>5, <1>6, <1>7 DEF MetersNext

\* Rows on screen, when nothing is loading and no error is told, are those of what
\* is chosen, for any number of leaves, filters and requests.
THEOREM RowsAreForAsked == MetersSpec => []RowsForAsked
<1>1. MetersInv => RowsForAsked
  BY DEF MetersInv
<1> QED BY <1>1, MetersInitially, MetersKept, PTL DEF MetersSpec

-----------------------------------------------------------------------------
(***************************************************************************)
(* The drawer of a meter.  Its promise is inductive beside the types.      *)
(***************************************************************************)
Details == [meter : Meter, parts : SUBSET Part]

DrawerTypes ==
  /\ meter \in Meter /\ consumerTab \in BOOLEAN
  /\ detail \in Details \cup {NoDetail}
  /\ state \in [Part -> {"idle", "loading", "done", "error"}]
  /\ coreError \in BOOLEAN /\ coreOut \in BOOLEAN
  /\ \A r \in partsOut : r.meter \in Meter /\ r.part \in Part

DrawerInv == DrawerTypes /\ WholeDetail

LEMMA NoDetailApart == NoDetail \notin Details
BY DrawerAssumption DEF Details, Part

\* Asking for parts makes none of them done.
LEMMA Asked ==
  ASSUME NEW m \in Meter, NEW parts \in SUBSET Part,
         NEW states \in [Part -> {"idle", "loading", "done", "error"}],
         \A r \in partsOut : r.meter \in Meter /\ r.part \in Part,
         AskParts(m, parts, states)
  PROVE  /\ state' \in [Part -> {"idle", "loading", "done", "error"}]
         /\ \A p \in Part : state'[p] = "done" => states[p] = "done"
         /\ \A r \in partsOut' : r.meter \in Meter /\ r.part \in Part
BY DEF AskParts, Request

LEMMA DrawerInitially == DrawerInit => DrawerInv
BY DEF DrawerInit, DrawerInv, DrawerTypes, WholeDetail, AllIdle

LEMMA DrawerKept ==
  ASSUME DrawerInv, [DrawerNext]_drawerVars
  PROVE  DrawerInv'
<1>1. ASSUME NEW m \in Meter, OpenMeter(m) PROVE DrawerInv'
  <2>1. /\ meter' = m /\ detail' = NoDetail /\ coreError' = FALSE /\ coreOut' = TRUE
        /\ consumerTab' = consumerTab /\ AskParts(m, Wanted(consumerTab, AllIdle), AllIdle)
    BY <1>1 DEF OpenMeter
  <2>2. /\ Wanted(consumerTab, AllIdle) \in SUBSET Part
        /\ AllIdle \in [Part -> {"idle", "loading", "done", "error"}]
        /\ \A p \in Part : AllIdle[p] # "done"
    BY DEF Wanted, AllIdle
  <2>3. /\ state' \in [Part -> {"idle", "loading", "done", "error"}]
        /\ \A p \in Part : state'[p] # "done"
        /\ \A r \in partsOut' : r.meter \in Meter /\ r.part \in Part
    BY <2>1, <2>2, Asked DEF DrawerInv, DrawerTypes
  <2> QED BY <2>1, <2>3 DEF DrawerInv, DrawerTypes, WholeDetail
<1>2. CASE OpenTab
  <2>1. /\ meter' = meter /\ detail' = detail /\ coreError' = coreError /\ coreOut' = coreOut
        /\ consumerTab' \in BOOLEAN /\ AskParts(meter, Wanted(consumerTab', state), state)
    BY <1>2 DEF OpenTab, DrawerInv, DrawerTypes
  <2>2. Wanted(consumerTab', state) \in SUBSET Part
    BY DEF Wanted
  <2>3. /\ state' \in [Part -> {"idle", "loading", "done", "error"}]
        /\ \A p \in Part : state'[p] = "done" => state[p] = "done"
        /\ \A r \in partsOut' : r.meter \in Meter /\ r.part \in Part
    BY <2>1, <2>2, Asked DEF DrawerInv, DrawerTypes
  <2> QED BY <2>1, <2>3 DEF DrawerInv, DrawerTypes, WholeDetail
<1>3. ASSUME NEW p \in Part, RetryDetail(p) PROVE DrawerInv'
  <2>1. /\ meter' = meter /\ detail' = detail /\ coreError' = coreError /\ coreOut' = coreOut
        /\ consumerTab' = consumerTab /\ AskParts(meter, {p}, state)
    BY <1>3 DEF RetryDetail
  <2>2. /\ state' \in [Part -> {"idle", "loading", "done", "error"}]
        /\ \A q \in Part : state'[q] = "done" => state[q] = "done"
        /\ \A r \in partsOut' : r.meter \in Meter /\ r.part \in Part
    BY <2>1, Asked DEF DrawerInv, DrawerTypes
  <2> QED BY <2>1, <2>2 DEF DrawerInv, DrawerTypes, WholeDetail
<1>4. CASE CoreArrives
  <2>1. /\ coreOut' = FALSE /\ meter' = meter /\ consumerTab' = consumerTab
        /\ state' = state /\ partsOut' = partsOut
        /\ \/ detail' = LaidUnder(meter) /\ coreError' = coreError
           \/ coreError' = TRUE /\ detail' = detail
    BY <1>4 DEF CoreArrives
  <2>2. /\ LaidUnder(meter) \in Details /\ LaidUnder(meter).meter = meter
        /\ detail # NoDetail => LaidUnder(meter) = detail
    BY DEF LaidUnder, Bare, Details, DrawerInv, DrawerTypes, WholeDetail
  <2> QED BY <2>1, <2>2, NoDetailApart DEF DrawerInv, DrawerTypes, WholeDetail
<1>5. ASSUME NEW r \in partsOut, PartArrives(r) PROVE DrawerInv'
  <2>1. /\ partsOut' = partsOut \ {r} /\ meter' = meter /\ consumerTab' = consumerTab
        /\ coreError' = coreError /\ coreOut' = coreOut /\ r.meter \in Meter /\ r.part \in Part
    BY <1>5 DEF PartArrives, DrawerInv, DrawerTypes
  <2>2. CASE detail' = detail /\ state' = state
    BY <2>1, <2>2 DEF DrawerInv, DrawerTypes, WholeDetail
  <2>3. CASE detail' = detail /\ state' = [state EXCEPT ![r.part] = "error"]
    <3>1. \A p \in Part : state'[p] = "done" => state[p] = "done"
      BY <2>3 DEF DrawerInv, DrawerTypes
    <3>2. state' \in [Part -> {"idle", "loading", "done", "error"}]
      BY <2>3 DEF DrawerInv, DrawerTypes
    <3> QED BY <2>1, <2>3, <3>1, <3>2 DEF DrawerInv, DrawerTypes, WholeDetail
  <2>4. CASE /\ StillOpen(r) /\ detail' = LaidOver(r)
             /\ state' = [state EXCEPT ![r.part] = "done"]
    <3>1. /\ LaidOver(r) \in Details /\ LaidOver(r).meter = meter /\ r.part \in LaidOver(r).parts
          /\ detail # NoDetail => detail.parts \subseteq LaidOver(r).parts
      BY <2>1, <2>4 DEF StillOpen, LaidOver, Details, DrawerInv, DrawerTypes, WholeDetail
    <3>2. /\ state' \in [Part -> {"idle", "loading", "done", "error"}]
          /\ \A p \in Part : state'[p] = "done" => p = r.part \/ state[p] = "done"
      BY <2>4 DEF DrawerInv, DrawerTypes
    <3>3. DrawerTypes'
      BY <2>1, <2>4, <3>1, <3>2 DEF DrawerInv, DrawerTypes
    <3>4. WholeDetail'
      <4>1. \A p \in Part : state'[p] = "done" => p \in detail'.parts
        BY <2>4, <3>1, <3>2 DEF DrawerInv, WholeDetail
      <4> QED BY <2>1, <2>4, <3>1, <4>1, NoDetailApart DEF WholeDetail
    <3> QED BY <3>3, <3>4 DEF DrawerInv
  <2> QED BY <1>5, <2>2, <2>3, <2>4 DEF PartArrives
<1>6. CASE UNCHANGED drawerVars
  BY <1>6 DEF drawerVars, DrawerInv, DrawerTypes, WholeDetail
<1> QED BY <1>1, <1>2, <1>3, <1>4, <1>5, <1>6 DEF DrawerNext

\* What the drawer shows is of the open meter, and what it calls loaded is there,
\* for any number of meters, openings and retries.
THEOREM DetailIsWhole == DrawerSpec => []WholeDetail
<1>1. DrawerInv => WholeDetail
  BY DEF DrawerInv
<1> QED BY <1>1, DrawerInitially, DrawerKept, PTL DEF DrawerSpec

-----------------------------------------------------------------------------
(* Alerts: what the open drawer holds is its alert's, and a resolve request  *)
(* that is to end in it is for its alert.                                    *)

AlarmInv ==
  linked = NoAlert =>
    /\ DOMAIN alertDrawer = {"alert", "detail", "asking", "resolved", "photo", "tab"}
    /\ \A f \in {"detail", "asking", "resolved", "photo"} : alertDrawer[f] \in {NoAlert, alertDrawer.alert}
    /\ \A r \in resolving : DOMAIN r = {"alert", "q", "open"}
    /\ \A r \in resolving : r.open => r.alert = alertDrawer.alert /\ alertDrawer.alert # NoAlert

LEMMA AlarmInitially == AlarmsInit => AlarmInv
<1> SUFFICES ASSUME alertDrawer = NoAlertDrawer, resolving = {}
             PROVE  AlarmInv
  BY DEF AlarmsInit
<1> QED BY DEF AlarmInv, NoAlertDrawer

LEMMA AlarmStep ==
  ASSUME AlarmInv, AlarmsNext
  PROVE  AlarmInv'
<1> SUFFICES ASSUME linked = NoAlert, linked' = linked
             PROVE  AlarmInv'
  BY DEF AlarmsNext, AlarmInv, TypeWord, SearchStarts, PickPriority, PickStatus, PickSize, CardAll, CardOpen,
         CardMedium, ResetFilters, RefreshAlarms, FirstAlarms, PreviousAlarms, NextAlarms, LastAlarms,
         AlarmsArrive, AlarmsFail, SelectAlarm, DetailArrives, OpenAlertTab, OpenPhoto, ClosePhoto,
         ResolveAlert, ReopenAlert, CloseAlert, ResolveEnds, Press, InAlertDrawer
<1> USE DEF AlarmInv
<1>1. ASSUME UNCHANGED <<alertDrawer, resolving>>
      PROVE  AlarmInv'
  BY <1>1
<1>2. CASE \E a \in Members(table.rows) : SelectAlarm(a)
  BY <1>2 DEF SelectAlarm, OpenedOn, NoAlertDrawer
<1>3. CASE \E alone \in BOOLEAN : DetailArrives(alone)
  BY <1>3 DEF DetailArrives
<1>4. CASE \E t \in {"overview", "resolution"} : OpenAlertTab(t)
  BY <1>4 DEF OpenAlertTab, InAlertDrawer
<1>5. CASE OpenPhoto
  BY <1>5 DEF OpenPhoto, InAlertDrawer, ShownAlert, NoPhoto
<1>6. CASE ClosePhoto
  BY <1>6 DEF ClosePhoto, InAlertDrawer
<1>7. CASE ResolveAlert
  BY <1>7 DEF ResolveAlert, NoPhoto, ShownAlert
<1>8. CASE ReopenAlert
  BY <1>8 DEF ReopenAlert, InAlertDrawer
<1>9. CASE CloseAlert
  BY <1>9 DEF CloseAlert, NoAlertDrawer
<1>10. CASE \E r \in resolving : ResolveEnds(r)
  BY <1>10 DEF ResolveEnds, ToItsDrawer
<1>11. CASE \E i \in DOMAIN lists : AlarmsArrive(i) \/ AlarmsFail(i)
  BY <1>1, <1>11 DEF AlarmsArrive, AlarmsFail, Opened
<1>12. CASE \/ \E w \in AlarmWord : TypeWord(w)
            \/ SearchStarts
            \/ \E p \in PriorityPill : PickPriority(p)
            \/ \E s \in StatusPill : PickStatus(s)
            \/ \E n \in AlarmSize : PickSize(n)
            \/ CardAll \/ CardOpen \/ CardMedium
            \/ ResetFilters \/ RefreshAlarms
            \/ FirstAlarms \/ PreviousAlarms \/ NextAlarms \/ LastAlarms
  BY <1>1, <1>12 DEF TypeWord, SearchStarts, PickPriority, PickStatus, PickSize, CardAll, CardOpen,
         CardMedium, ResetFilters, RefreshAlarms, FirstAlarms, PreviousAlarms, NextAlarms, LastAlarms, Press
<1> QED BY <1>2, <1>3, <1>4, <1>5, <1>6, <1>7, <1>8, <1>9, <1>10, <1>11, <1>12 DEF AlarmsNext

LEMMA AlertTold == AlarmInv => DrawerOfAlert
BY DEF AlarmInv, DrawerOfAlert, HeaderTells, OverviewTells, MeterTabTells, LocationTells, DiagnosisTells,
       ResolutionTells, PhotoTells, ShownAlert

-----------------------------------------------------------------------------
(* Bills: the detail is of a bill there is, and of the one that is open.    *)

BillInv ==
  /\ DOMAIN billDrawer = {"bill", "detail", "read", "asking", "paid", "tab"}
  /\ billDrawer.detail # NoBill => \E b \in Members(Bills) : b.id = billDrawer.detail
  /\ billDrawer.paid \in BOOLEAN
  /\ billDrawer.bill = NoBill => billDrawer.paid = FALSE
  /\ billLinked = NoBill => {billDrawer.detail, billDrawer.asking} \subseteq {NoBill, billDrawer.bill}

LEMMA BillInitially == BillingInit => BillInv
<1> SUFFICES ASSUME billDrawer = NoBillDrawer
             PROVE  BillInv
  BY DEF BillingInit
<1> QED BY DEF BillInv, NoBillDrawer

\* A bill that is opened leaves what the drawer knows of, or asks for, only when the
\* address names one.
LEMMA BillOpens ==
  ASSUME BillInv, NEW id, billDrawer' = BillOpenedOn(billDrawer, id), billLinked' = billLinked,
         billDrawer.bill = NoBill \/ (billLinked # NoBill /\ id # NoBill)
  PROVE  BillInv'
BY DEF BillInv, BillOpenedOn, NoBillDrawer

LEMMA BillStep ==
  ASSUME BillInv, BillingNext
  PROVE  BillInv'
<1>1. ASSUME UNCHANGED <<billDrawer, billLinked>>
      PROVE  BillInv'
  BY <1>1 DEF BillInv
<1>2. CASE \E b \in Members(invoices.rows) : SelectBill(b)
  BY <1>1, <1>2, BillOpens DEF SelectBill
<1>3. CASE BillDetailArrives
  BY <1>3 DEF BillDetailArrives, InDrawer, BillFound, BillInv
<1>4. CASE \E t \in {"overview", "settlement"} : OpenBillTab(t)
  BY <1>4 DEF OpenBillTab, InDrawer, BillInv
<1>5. CASE PayBill
  BY <1>5 DEF PayBill, InDrawer, BillInv
<1>6. CASE RevertBill
  BY <1>6 DEF RevertBill, InDrawer, BillInv
<1>7. CASE CloseBill
  BY <1>7 DEF CloseBill, Unmounted, NoBillDrawer, InDrawer, BillInv
<1>8. CASE \E i \in DOMAIN billLists : BillsArrive(i) \/ BillsFail(i)
  BY <1>1, <1>8, BillOpens DEF BillsArrive, BillsFail
<1>9. CASE \/ \E w \in BillWord : TypeBill(w)
           \/ BillSearchStarts
           \/ \E p \in Period : PickPeriod(p)
           \/ \E s \in BillStatus : PickBillStatus(s)
           \/ \E c \in BillCity : PickCity(c)
           \/ \E n \in BillSize : PickBillSize(n)
           \/ CardTotal \/ CardOverdue \/ ResetBills \/ RefreshBills
           \/ FirstBills \/ PreviousBills \/ NextBills \/ LastBills
  BY <1>1, <1>9 DEF TypeBill, BillSearchStarts, PickPeriod, PickBillStatus, PickCity, PickBillSize, CardTotal,
         CardOverdue, ResetBills, RefreshBills, FirstBills, PreviousBills, NextBills, LastBills, PressBill
<1> QED BY <1>2, <1>3, <1>4, <1>5, <1>6, <1>7, <1>8, <1>9 DEF BillingNext

LEMMA UnpaidTold == BillInv => UnpaidWhenOpened
BY DEF BillInv, UnpaidWhenOpened

LEMMA OneBill == BillInv => OneBillTold
<1> SUFFICES ASSUME BillInv, billLinked = NoBill, billDrawer.bill # NoBill
             PROVE  OneBillTold
  BY DEF OneBillTold
<1> DEFINE d == billDrawer
           b == BillOf(d.bill)
<1>1. ShownBill(d) = d.bill
  BY DEF BillInv, ShownBill
<1>2. ASSUME CityInDetail(b) \in {"Puri", b.site} \/ b.site \notin {"Puri", "Cuttack"}
      PROVE  InvoiceText(d).city = CityInList(b)
  <2>1. CityInDetail(b) = CityInList(b)
    BY <1>2 DEF CityInDetail, CityInList, CityOf
  <2>2. ShownCity(d) \in {CityInDetail(b), CityInList(b)}
    BY DEF ShownCity, BillInv
  <2> QED BY <2>1, <2>2 DEF InvoiceText
<1>3. InvoiceText(d).volume = Used(b.from, b.to)
  BY <1>1 DEF InvoiceText, VolumeOf
<1>4. \A t \in {HeaderTellsOf(d), CardsTell(d), OverviewOf(d), ConsumerOf(d), TariffOf(d), SettlementOf(d),
                InvoiceText(d)} : t.bill = d.bill
  BY <1>1 DEF HeaderTellsOf, CardsTell, OverviewOf, ConsumerOf, TariffOf, SettlementOf, InvoiceText
<1> QED BY <1>2, <1>3, <1>4 DEF OneBillTold

-----------------------------------------------------------------------------
(* The days of a bill: as many as there is room for, and their sum.          *)

\* Sums of the first so many numbers.
Sums(f, n, used) == f = [i \in 0 .. n |-> IF i = 0 THEN 0 ELSE f[i - 1] + used[i]]

LEMMA SumsExist ==
  ASSUME NEW used, NEW m \in Nat, \A i \in 1 .. m : used[i] \in Nat
  PROVE  \E f : Sums(f, m, used)
<1> DEFINE Good == {n \in Nat : n <= m => \E f \in [0 .. n -> Nat] : Sums(f, n, used)}
<1>1. 0 \in Good
  <2>1. [i \in 0 .. 0 |-> 0] \in [0 .. 0 -> Nat] /\ Sums([i \in 0 .. 0 |-> 0], 0, used)
    BY DEF Sums
  <2> QED BY <2>1
<1>2. ASSUME NEW n \in Nat, n \in Good
      PROVE  n + 1 \in Good
  <2> SUFFICES ASSUME n + 1 <= m
               PROVE  \E f \in [0 .. n + 1 -> Nat] : Sums(f, n + 1, used)
    OBVIOUS
  <2>1. PICK f \in [0 .. n -> Nat] : Sums(f, n, used)
    BY <1>2
  <2> DEFINE g == [i \in 0 .. n + 1 |-> IF i <= n THEN f[i] ELSE f[n] + used[n + 1]]
  <2>2. g \in [0 .. n + 1 -> Nat]
    BY <2>1
  <2>3. ASSUME NEW i \in 0 .. n + 1
        PROVE  g[i] = IF i = 0 THEN 0 ELSE g[i - 1] + used[i]
    <3>1. \A j \in 0 .. n : f[j] = IF j = 0 THEN 0 ELSE f[j - 1] + used[j]
      BY <2>1 DEF Sums
    <3> QED BY <3>1
  <2>4. Sums(g, n + 1, used)
    <3> HIDE DEF g
    <3> QED BY <2>2, <2>3 DEF Sums
  <2> HIDE DEF g
  <2> QED BY <2>2, <2>4
<1>3. m \in Good
  <2> HIDE DEF Good
  <2> QED BY <1>1, <1>2, Counting
<1> QED BY <1>3

\* What numbers that start after "pad" zeros rise by, and what their sums say.
LEMMA SumsOfRises ==
  ASSUME NEW days \in Seq(Nat), days # <<>>, NEW pad \in Nat, NEW used, NEW f,
         \A i \in 1 .. pad + 1 : used[i] = 0,
         \A j \in 2 .. Len(days) : used[pad + j] = Used(days[j - 1], days[j]),
         Sums(f, pad + Len(days), used)
  PROVE  /\ f[pad + Len(days)] \in Int
         /\ f[pad + Len(days)] >= days[Len(days)] - days[1]
         /\ (\A i \in 2 .. Len(days) : days[i - 1] <= days[i]) => f[pad + Len(days)] = days[Len(days)] - days[1]
<1> DEFINE n == Len(days)
           rising == \A i \in 2 .. n : days[i - 1] <= days[i]
           right(j) == /\ f[pad + j] \in Int /\ f[pad + j] >= days[j] - days[1]
                       /\ rising => f[pad + j] = days[j] - days[1]
           Good == {j \in Nat : j \in 1 .. n => right(j)}
           Zero == {i \in Nat : i <= pad + 1 => f[i] = 0}
<1>1. n \in Nat /\ n >= 1 /\ \A j \in 1 .. n : days[j] \in Nat
  BY EmptySeq, LenProperties, ElementOfSeq
<1>2. \A i \in 0 .. pad + n : f[i] = IF i = 0 THEN 0 ELSE f[i - 1] + used[i]
  BY <1>1 DEF Sums
<1>3. 0 \in Zero /\ \A i \in Nat : i \in Zero => i + 1 \in Zero
  <2>1. ASSUME NEW i \in Nat, i \in Zero, i + 1 <= pad + 1 PROVE f[i + 1] = 0
    <3>1. f[i + 1] = f[i] + used[i + 1] /\ used[i + 1] = 0 /\ f[i] = 0
      <4>1. i + 1 \in 1 .. pad + 1 /\ i + 1 \in 0 .. pad + n /\ (i + 1) - 1 = i /\ i + 1 # 0 /\ i <= pad + 1
        BY <1>1, <2>1
      <4> QED BY <1>2, <2>1, <4>1
    <3> QED BY <3>1
  <2> QED BY <1>1, <1>2, <2>1, SMTT(60)
<1>4. f[pad + 1] = 0
  <2>1. \A i \in Nat : i \in Zero
    <3> HIDE DEF Zero
    <3> QED BY <1>3, Counting
  <2> QED BY <2>1
<1>5. 0 \in Good
  OBVIOUS
<1>6. ASSUME NEW j \in Nat, j \in Good
      PROVE  j + 1 \in Good
  <2>1. CASE j = 0
    BY <1>1, <1>4, <2>1
  <2>2. CASE j >= 1 /\ j + 1 <= n
    <3>1. right(j)
      BY <1>6, <2>2
    <3>2. used[pad + (j + 1)] = Used(days[j], days[j + 1])
      BY <2>2
    <3>3. f[pad + (j + 1)] = f[pad + j] + used[pad + (j + 1)]
      BY <1>1, <1>2, <2>2
    <3>4. days[j] \in Nat /\ days[j + 1] \in Nat /\ days[1] \in Nat
      BY <1>1, <2>2
    <3>5. rising => days[j] <= days[j + 1]
      BY <2>2
    <3>6. right(j + 1)
      <4> HIDE DEF rising
      <4>1. used[pad + (j + 1)] \in Nat /\ used[pad + (j + 1)] >= days[j + 1] - days[j]
            /\ (rising => used[pad + (j + 1)] = days[j + 1] - days[j])
        BY <3>2, <3>4, <3>5 DEF Used
      <4>2. f[pad + j] \in Int /\ f[pad + j] >= days[j] - days[1] /\ (rising => f[pad + j] = days[j] - days[1])
        BY <3>1
      <4>3. \A a, b, c \in Nat, before \in Int, rise \in Nat :
              /\ rise >= c - b /\ before >= b - a => before + rise \in Int /\ before + rise >= c - a
              /\ rise = c - b /\ before = b - a => before + rise = c - a
        OBVIOUS
      <4>4. /\ f[pad + (j + 1)] \in Int /\ f[pad + (j + 1)] >= days[j + 1] - days[1]
            /\ rising => f[pad + (j + 1)] = days[j + 1] - days[1]
        <5>1. \A before \in Int, rise \in Nat :
                /\ rise >= days[j + 1] - days[j] /\ before >= days[j] - days[1] =>
                     before + rise \in Int /\ before + rise >= days[j + 1] - days[1]
                /\ rise = days[j + 1] - days[j] /\ before = days[j] - days[1] =>
                     before + rise = days[j + 1] - days[1]
          BY <3>4, <4>3
        <5> QED BY <3>3, <4>1, <4>2, <5>1
      <4> QED BY <4>4
    <3> QED BY <3>6
  <2>3. CASE j + 1 > n
    BY <1>1, <2>3
  <2> QED BY <1>1, <2>1, <2>2, <2>3
<1>7. n \in Good
  <2> HIDE DEF Good, n
  <2> QED BY <1>1, <1>5, <1>6, Counting
<1> QED BY <1>1, <1>7

LEMMA DaysKnown ==
  ASSUME BillInv, billDrawer.detail # NoBill
  PROVE  DaysRead(billDrawer) \in Seq(Nat)
<1>1. \E b \in Members(Bills) : b.id = billDrawer.detail
  BY DEF BillInv
<1>2. BillOf(billDrawer.detail) \in Members(Bills)
  BY <1>1 DEF BillOf
<1>3. BillOf(billDrawer.detail).days \in Seq(Nat)
  BY <1>2, BillingAssumption
<1>4. CASE billDrawer.read
  BY <1>3, <1>4 DEF DaysRead
<1>5. CASE ~ billDrawer.read
  BY <1>5 DEF DaysRead
<1> QED BY <1>4, <1>5

LEMMA KeptAre ==
  ASSUME NEW days \in Seq(Nat)
  PROVE  KeptDays(days) \in Seq(Nat) /\ Len(KeptDays(days)) \in 0 .. DaysKept
<1>1. DaysKept \in Nat \ {0} /\ Len(days) \in Nat
  BY BillingAssumption, LenProperties
<1>2. CASE Len(days) <= DaysKept
  BY <1>1, <1>2 DEF KeptDays
<1>3. CASE Len(days) > DaysKept
  <2> DEFINE m == Len(days) - DaysKept + 1
             n == Len(days)
  <2>1. m \in Int /\ n \in Int /\ \A i \in m .. n : days[i] \in Nat
    <3>1. \A i \in 1 .. n : days[i] \in Nat
      BY ElementOfSeq
    <3> QED BY <1>1, <1>3, <3>1
  <2>2. m <= n /\ n - m + 1 = DaysKept /\ ~ (Len(days) <= DaysKept)
    BY <1>1, <1>3
  <2> HIDE DEF m
  <2>3. SubSeq(days, m, n) \in Seq(Nat) /\ Len(SubSeq(days, m, n)) = IF m <= n THEN n - m + 1 ELSE 0
    BY <1>1, <2>1, SubSeqProperties
  <2>4. KeptDays(days) = SubSeq(days, m, n)
    BY <2>2 DEF KeptDays, m
  <2>5. DaysKept \in 0 .. DaysKept
    BY <1>1
  <2> QED BY <2>2, <2>3, <2>4, <2>5
<1> QED BY <1>1, <1>2, <1>3

\* As many rows as there is room for: empty ones, the first day, and what the meter rose
\* by on the others.
LEMMA RowsAre ==
  ASSUME NEW days \in Seq(Nat), NEW have, have = KeptDays(days), NEW list, list = DailyReadings(days)
  PROVE  /\ Len(list) = DaysKept
         /\ DOMAIN list = 1 .. DaysKept
         /\ \A i \in 1 .. DaysKept : list[i].used \in Nat
         /\ have # <<>> =>
              /\ \A i \in 1 .. DaysKept - Len(have) + 1 : list[i].used = 0
              /\ \A j \in 2 .. Len(have) : list[DaysKept - Len(have) + j].used = Used(have[j - 1], have[j])
<1> DEFINE n == Len(have)
           pad == DaysKept - n
           empty == [i \in 1 .. pad |-> NoReading]
           full == [i \in 1 .. n |-> [reading |-> have[i], used |-> IF i = 1 THEN 0 ELSE Used(have[i - 1], have[i])]]
           Row == [reading : Nat, used : Nat]
<1>1. have \in Seq(Nat) /\ n \in 0 .. DaysKept /\ DOMAIN have = 1 .. n /\ DaysKept \in Nat /\ pad \in Nat /\ n \in Nat
  <2>1. have \in Seq(Nat) /\ Len(have) \in 0 .. DaysKept
    BY KeptAre
  <2>2. DOMAIN have = 1 .. Len(have) /\ Len(have) \in Nat
    BY <2>1, LenProperties
  <2>3. DaysKept \in Nat
    BY BillingAssumption
  <2> QED BY <2>1, <2>2, <2>3
<1>2. \A i \in 1 .. n : have[i] \in Nat
  BY <1>1, ElementOfSeq
<1>3. full = DailyRows(days)
  BY <1>1 DEF DailyRows
<1>4. full \in Seq(Row) /\ Len(full) = n
  <2>1. \A i \in 1 .. n : full[i] \in Row
    BY <1>1, <1>2 DEF Used
  <2>2. full \in [1 .. n -> Row]
    BY <2>1
  <2> HIDE DEF full, Row
  <2> QED BY <1>1, <2>2
<1>5. empty \in Seq(Row) /\ Len(empty) = pad
  <2>1. NoReading \in Row
    BY DEF NoReading
  <2>2. empty \in [1 .. pad -> Row]
    BY <2>1
  <2>3. pad \in Nat
    BY <1>1
  <2> HIDE DEF empty, Row, pad
  <2> QED BY <2>2, <2>3
<1>6. list = empty \o full
  <2>1. Padded(full) = empty \o full
    BY <1>4 DEF Padded
  <2> QED BY <1>3, <2>1 DEF DailyReadings
<1>7. /\ list \in Seq(Row) /\ Len(list) = pad + n
      /\ \A i \in 1 .. pad + n : list[i] = IF i <= pad THEN empty[i] ELSE full[i - pad]
  <2>1. \A s, u \in Seq(Row) : /\ s \o u \in Seq(Row)
                               /\ Len(s \o u) = Len(s) + Len(u)
                               /\ \A i \in 1 .. Len(s) + Len(u) :
                                    (s \o u)[i] = IF i <= Len(s) THEN s[i] ELSE u[i - Len(s)]
    BY ConcatProperties
  <2>2. empty \in Seq(Row) /\ full \in Seq(Row) /\ Len(empty) = pad /\ Len(full) = n
    BY <1>4, <1>5
  <2> HIDE DEF empty, full, Row, pad, n
  <2>3. /\ empty \o full \in Seq(Row)
        /\ Len(empty \o full) = pad + n
        /\ \A i \in 1 .. pad + n : (empty \o full)[i] = IF i <= pad THEN empty[i] ELSE full[i - pad]
    BY <2>1, <2>2, Zenon
  <2> QED BY <1>6, <2>3, Zenon
<1>8. pad + n = DaysKept
  BY <1>1
<1>9. DOMAIN list = 1 .. DaysKept
  <2> HIDE DEF empty, full, Row, pad, n
  <2> QED BY <1>7, <1>8, LenProperties
<1>10. ASSUME NEW i \in 1 .. DaysKept
       PROVE  list[i].used \in Nat
  <2>1. list[i] \in Row
    <3>1. list \in Seq(Row) /\ i \in 1 .. Len(list)
      BY <1>7, <1>8
    <3> HIDE DEF Row
    <3> QED BY <3>1, ElementOfSeq
  <2> QED BY <2>1
<1>11. ASSUME have # <<>>, NEW i \in 1 .. pad + 1
       PROVE  list[i].used = 0
  <2>1. n >= 1
    BY <1>1, <1>11, EmptySeq
  <2>2. i \in 1 .. pad + n
    BY <1>1, <2>1
  <2>3. CASE i <= pad
    <3>1. i \in 1 .. pad
      BY <1>1, <2>3
    <3>2. list[i] = empty[i]
      <4>1. list[i] = IF i <= pad THEN empty[i] ELSE full[i - pad]
        BY <1>7, <2>2
      <4> HIDE DEF empty, full, pad, n
      <4> QED BY <2>3, <4>1
    <3> QED BY <3>1, <3>2 DEF NoReading
  <2>4. CASE i = pad + 1
    <3>1. ~ (i <= pad) /\ i - pad = 1 /\ 1 \in 1 .. n
      BY <1>1, <2>1, <2>4
    <3>2. list[i] = full[1]
      <4>1. list[i] = IF i <= pad THEN empty[i] ELSE full[i - pad]
        BY <1>7, <2>2
      <4> HIDE DEF empty, full, pad, n
      <4> QED BY <3>1, <4>1
    <3>3. full[1].used = 0
      BY <3>1
    <3> QED BY <3>2, <3>3
  <2> QED BY <1>1, <2>3, <2>4
<1>12. ASSUME NEW j \in 2 .. n
       PROVE  list[pad + j].used = Used(have[j - 1], have[j])
  <2>1. PICK k : k = pad + j /\ k \in 1 .. pad + n /\ ~ (k <= pad) /\ k - pad = j
    BY <1>1
  <2>2. list[k] = full[j]
    <3>1. \A i \in 1 .. pad + n : list[i] = IF i <= pad THEN empty[i] ELSE full[i - pad]
      BY <1>7
    <3> HIDE DEF empty, full, pad, n
    <3> QED BY <2>1, <3>1, Zenon
  <2>3. full[j].used = Used(have[j - 1], have[j])
    BY <1>1
  <2> QED BY <2>1, <2>2, <2>3
<1> QED BY <1>7, <1>8, <1>9, <1>10, <1>11, <1>12

LEMMA DaysTold == BillInv => DaysAddUp
<1> SUFFICES ASSUME BillInv, billDrawer.detail # NoBill
             PROVE  DaysAddUp
  BY DEF DaysAddUp
<1> DEFINE days == DaysRead(billDrawer)
           have == KeptDays(days)
           list == DailyReadings(days)
           used == [i \in 1 .. DaysKept |-> list[i].used]
           pad == DaysKept - Len(have)
           f == CHOOSE g : g = [i \in 0 .. Len(list) |-> IF i = 0 THEN 0 ELSE g[i - 1] + list[i].used]
<1>1. days \in Seq(Nat)
  BY DaysKnown
<1>2. have \in Seq(Nat) /\ Len(have) \in 0 .. DaysKept /\ DaysKept \in Nat
  BY <1>1, KeptAre, BillingAssumption
<1>3. DaysFile(billDrawer) = list
  BY DEF DaysFile, DaysOf
<1> HIDE DEF days
<1>4. /\ Len(list) = DaysKept
      /\ \A i \in 1 .. DaysKept : list[i].used \in Nat
      /\ have # <<>> => /\ \A i \in 1 .. pad + 1 : list[i].used = 0
                        /\ \A j \in 2 .. Len(have) : list[pad + j].used = Used(have[j - 1], have[j])
  BY <1>1, RowsAre
<1> HIDE DEF list, have
<1>5. \E g : Sums(g, DaysKept, used)
  <2>1. \A i \in 1 .. DaysKept : used[i] \in Nat
    BY <1>4
  <2> HIDE DEF used
  <2> QED BY <1>2, <2>1, SumsExist
<1>6. ASSUME NEW g
      PROVE  Sums(g, DaysKept, used) <=> g = [i \in 0 .. Len(list) |-> IF i = 0 THEN 0 ELSE g[i - 1] + list[i].used]
  <2>1. \A i \in 0 .. DaysKept : i # 0 => used[i] = list[i].used
    BY <1>2
  <2> HIDE DEF used
  <2>2. [i \in 0 .. DaysKept |-> IF i = 0 THEN 0 ELSE g[i - 1] + used[i]]
          = [i \in 0 .. DaysKept |-> IF i = 0 THEN 0 ELSE g[i - 1] + list[i].used]
    BY <2>1
  <2> QED BY <1>4, <2>2 DEF Sums
<1>7. Sums(f, DaysKept, used)
  <2>1. \E g : g = [i \in 0 .. Len(list) |-> IF i = 0 THEN 0 ELSE g[i - 1] + list[i].used]
    BY <1>5, <1>6
  <2>2. f = [i \in 0 .. Len(list) |-> IF i = 0 THEN 0 ELSE f[i - 1] + list[i].used]
    BY <2>1
  <2> HIDE DEF f
  <2> QED BY <1>6, <2>2
<1> HIDE DEF f
<1>8. ASSUME have # <<>>
      PROVE  /\ f[Len(list)] >= have[Len(have)] - have[1]
             /\ (\A i \in 2 .. Len(have) : have[i - 1] <= have[i]) => f[Len(list)] = have[Len(have)] - have[1]
  <2>1. pad \in Nat /\ pad + Len(have) = DaysKept
    BY <1>2
  <2>2. Len(have) >= 1
    BY <1>2, <1>8, EmptySeq
  <2>3. \A i \in 1 .. pad + 1 : used[i] = 0
    <3>1. \A i \in 1 .. pad + 1 : i \in 1 .. DaysKept
      BY <1>2, <2>2
    <3> QED BY <1>4, <1>8, <3>1
  <2>4. \A j \in 2 .. Len(have) : used[pad + j] = Used(have[j - 1], have[j])
    <3>1. \A j \in 2 .. Len(have) : pad + j \in 1 .. DaysKept
      BY <1>2
    <3> QED BY <1>4, <1>8, <3>1
  <2> HIDE DEF used, pad
  <2>5. Sums(f, pad + Len(have), used)
    BY <1>7, <2>1
  <2>6. /\ f[pad + Len(have)] >= have[Len(have)] - have[1]
        /\ (\A i \in 2 .. Len(have) : have[i - 1] <= have[i]) => f[pad + Len(have)] = have[Len(have)] - have[1]
    BY <1>2, <1>8, <2>1, <2>3, <2>4, <2>5, SumsOfRises
  <2> QED BY <1>4, <2>1, <2>6
<1> QED BY <1>3, <1>4, <1>8 DEF DaysAddUp, f, list, have, days

-----------------------------------------------------------------------------
(* Households: a key is found to be of one household only, so every answer is *)
(* of the row that was clicked; and whatever meter an answer tells of was its *)
(* primary one since the drawer was opened.                                   *)

HouseFields == {"of", "key", "tab", "bills", "met", "parts"}

\* A part that was told, and an answer on its way, tell of h and of a meter that was met.
PartTold(part, h, met) == part.of = NoHouse \/ (part.of = h.id /\ part.meter \in met)
AnswerFor(r, d) ==
  /\ DOMAIN r = {"part", "key", "told"} /\ r.part \in HousePart /\ r.key = d.key
  /\ r.told = <<>> \/ (r.told[1].of = d.of /\ r.told[1].meter \in d.met)

Rightful(d) ==
  \E h \in Members(HouseholdRows) :
    /\ d.of = h.id /\ d.key = KeyOf(h) /\ PrimaryOf(houseMeters, h) \in d.met
    /\ \A p \in HousePart : PartTold(d.parts[p], h, d.met)

\* What is on its way, one request at most for a part, is what is loading.
OnTheirWay(d, sent) ==
  /\ \A r \in sent : AnswerFor(r, d)
  /\ \A r, s \in sent : r.part = s.part => r = s
  /\ \A p \in HousePart : d.parts[p].state = "loading" <=> \E r \in sent : r.part = p

DrawerShape(d) ==
  /\ DOMAIN d = HouseFields /\ DOMAIN d.parts = HousePart
  /\ \A p \in HousePart : DOMAIN d.parts[p] = {"state", "of", "meter"}
Begun(d) == \A p \in PartsOf(d.tab) \cup {"core"} : d.parts[p].state # "idle"

HouseInv ==
  /\ DrawerShape(houseDrawer)
  /\ OnTheirWay(houseDrawer, partLoads)
  /\ IF houseDrawer.of = NoHouse THEN houseDrawer = NoHouseDrawer
     ELSE Rightful(houseDrawer) /\ Begun(houseDrawer)

LEMMA NoDrawerFits == DrawerShape(NoHouseDrawer) /\ OnTheirWay(NoHouseDrawer, {})
BY DEF DrawerShape, OnTheirWay, NoHouseDrawer, NoPart, HouseFields

\* What is on its way is loading, so nothing is when no drawer is open.
LEMMA NothingForNone ==
  ASSUME HouseInv, houseDrawer.of = NoHouse
  PROVE  houseDrawer = NoHouseDrawer /\ partLoads = {}
<1>1. houseDrawer = NoHouseDrawer
  BY DEF HouseInv
<1>2. ASSUME NEW r \in partLoads
      PROVE  FALSE
  <2>1. r.part \in HousePart
    BY <1>2 DEF HouseInv, OnTheirWay, AnswerFor
  <2>2. houseDrawer.parts[r.part].state = "loading"
    BY <1>2, <2>1 DEF HouseInv, OnTheirWay
  <2>3. NoHouseDrawer.parts = [q \in HousePart |-> NoPart]
    BY DEF NoHouseDrawer
  <2>4. houseDrawer.parts = [q \in HousePart |-> NoPart]
    BY <1>1, <2>3
  <2>5. houseDrawer.parts[r.part] = NoPart
    BY <2>1, <2>4
  <2> QED BY <2>2, <2>5 DEF NoPart
<1> QED BY <1>1, <1>2

LEMMA HouseInitially == HouseholdsInit => HouseInv
<1> SUFFICES ASSUME houseDrawer = NoHouseDrawer, partLoads = {}
             PROVE  HouseInv
  BY DEF HouseholdsInit
<1>1. NoHouseDrawer.of = NoHouse
  BY DEF NoHouseDrawer
<1> QED BY <1>1, NoDrawerFits DEF HouseInv

LEMMA KeyIsOfOne ==
  ASSUME NEW h \in Members(HouseholdRows), OwnHousehold(KeyOf(h)) # NoHouse
  PROVE  OwnHousehold(KeyOf(h)) = h
<1> DEFINE k == OwnHousehold(KeyOf(h))
<1>1. k \in Members(HouseholdRows) /\ KeyOf(h) \in {k.id, k.customId}
  BY DEF OwnHousehold
<1> HIDE DEF k
<1>2. k = h
  BY <1>1, HouseholdAssumption DEF KeyOf
<1> QED BY <1>2 DEF k

\* Asking for parts that are not on their way.
LEMMA HouseAsks ==
  ASSUME NEW d, NEW P, AskFor(d, P), P \subseteq HousePart, d.of # NoHouse,
         DrawerShape(d), Rightful(d), OnTheirWay(d, partLoads),
         \A p \in P : d.parts[p].state # "loading",
         \A p \in PartsOf(d.tab) \cup {"core"} : d.parts[p].state # "idle" \/ p \in P
  PROVE  HouseInv'
<1> DEFINE e == AskingFor(d, P)
           ask(p) == [part |-> p, key |-> d.key, told |-> <<>>]
           sent == partLoads \cup {ask(p) : p \in P}
<1>1. houseDrawer' = e /\ partLoads' = sent /\ houseMeters' = houseMeters
  BY DEF AskFor, meterTable
<1>2. /\ DOMAIN e = HouseFields /\ e.of = d.of /\ e.key = d.key /\ e.tab = d.tab /\ e.met = d.met
      /\ e.parts = [p \in HousePart |-> IF p \in P THEN [d.parts[p] EXCEPT !.state = "loading"] ELSE d.parts[p]]
  BY DEF AskingFor, DrawerShape, HouseFields
<1> HIDE DEF e
<1>3. ASSUME NEW p \in HousePart
      PROVE  /\ DOMAIN e.parts[p] = {"state", "of", "meter"}
             /\ e.parts[p].of = d.parts[p].of /\ e.parts[p].meter = d.parts[p].meter
             /\ e.parts[p].state = IF p \in P THEN "loading" ELSE d.parts[p].state
  BY <1>2 DEF DrawerShape
<1>4. DrawerShape(e)
  BY <1>2, <1>3 DEF DrawerShape
<1>5. ASSUME NEW p \in P
      PROVE  AnswerFor(ask(p), e) /\ ask(p).part = p
  BY <1>2 DEF AnswerFor
<1>6. \A r \in partLoads : AnswerFor(r, e) /\ r.part \notin P
  BY <1>2 DEF OnTheirWay, AnswerFor
<1>7. \A r \in sent : r \in partLoads \/ \E p \in P : r = ask(p)
  OBVIOUS
<1>8. \A p \in P : ask(p) \in sent
  OBVIOUS
<1> HIDE DEF ask
<1>9. OnTheirWay(e, sent)
  <2>1. \A r \in sent : AnswerFor(r, e)
    BY <1>5, <1>6, <1>7
  <2>2. ASSUME NEW r \in sent, NEW s \in sent, r.part = s.part
        PROVE  r = s
    <3>1. CASE r \in partLoads /\ s \in partLoads
      BY <2>2, <3>1 DEF OnTheirWay
    <3>2. CASE ~ (r \in partLoads /\ s \in partLoads)
      BY <1>5, <1>6, <1>7, <2>2, <3>2
    <3> QED BY <3>1, <3>2
  <2>3. ASSUME NEW p \in HousePart
        PROVE  e.parts[p].state = "loading" <=> \E r \in sent : r.part = p
    <3>1. CASE p \in P
      BY <1>3, <1>5, <1>8, <3>1
    <3>2. CASE p \notin P
      <4>1. e.parts[p].state = d.parts[p].state
        BY <1>3, <3>2
      <4>2. d.parts[p].state = "loading" <=> \E r \in partLoads : r.part = p
        BY DEF OnTheirWay
      <4>3. (\E r \in sent : r.part = p) <=> \E r \in partLoads : r.part = p
        BY <1>5, <1>7, <3>2
      <4> QED BY <4>1, <4>2, <4>3
    <3> QED BY <3>1, <3>2
  <2> HIDE DEF sent
  <2> QED BY <2>1, <2>2, <2>3 DEF OnTheirWay
<1>10. PICK h \in Members(HouseholdRows) :
         /\ d.of = h.id /\ d.key = KeyOf(h) /\ PrimaryOf(houseMeters, h) \in d.met
         /\ \A p \in HousePart : PartTold(d.parts[p], h, d.met)
  BY DEF Rightful
<1>11. e.of = h.id /\ e.key = KeyOf(h) /\ PrimaryOf(houseMeters', h) \in e.met
  BY <1>1, <1>2, <1>10
<1>12. \A p \in HousePart : PartTold(e.parts[p], h, e.met)
  BY <1>2, <1>3, <1>10 DEF PartTold
<1>13. Begun(e)
  BY <1>2, <1>3 DEF Begun, PartsOf, HousePart
<1> HIDE DEF sent
<1> QED BY <1>1, <1>2, <1>4, <1>9, <1>11, <1>12, <1>13 DEF HouseInv, Rightful

\* What the drawer says of itself, when one is open.
LEMMA OpenDrawer ==
  ASSUME HouseInv, houseDrawer.of # NoHouse
  PROVE  /\ DrawerShape(houseDrawer) /\ OnTheirWay(houseDrawer, partLoads)
         /\ Rightful(houseDrawer) /\ Begun(houseDrawer)
BY DEF HouseInv

\* An answer, or a failure: the part is no longer on its way.
LEMMA HousePartSettles ==
  ASSUME HouseInv, NEW r \in partLoads, NEW part, ToHouseDrawer(r, part), houseDrawer.of # NoHouse,
         DOMAIN part = {"state", "of", "meter"}, part.state \notin {"idle", "loading"},
         \A h : houseDrawer.of = h.id /\ (\A p \in HousePart : PartTold(houseDrawer.parts[p], h, houseDrawer.met))
                  => PartTold(part, h, houseDrawer.met)
  PROVE  HouseInv'
<1> DEFINE d == houseDrawer  p == r.part
           e == [d EXCEPT !.parts = [d.parts EXCEPT ![p] = part]]
           sent == partLoads \ {r}
<1>1. DrawerShape(d) /\ OnTheirWay(d, partLoads) /\ Rightful(d) /\ Begun(d)
  BY OpenDrawer
<1>2. houseDrawer' = e /\ partLoads' = sent /\ houseMeters' = houseMeters
  BY DEF ToHouseDrawer, meterTable
<1>3. p \in HousePart
  BY <1>1 DEF OnTheirWay, AnswerFor
<1>4. /\ DOMAIN e = HouseFields /\ DOMAIN e.parts = HousePart
      /\ e.of = d.of /\ e.key = d.key /\ e.tab = d.tab /\ e.met = d.met
      /\ \A k \in HousePart : e.parts[k] = IF k = p THEN part ELSE d.parts[k]
  BY <1>1, <1>3 DEF DrawerShape, HouseFields
<1>5. \A s \in sent : s \in partLoads /\ s.part # p
  BY <1>1 DEF OnTheirWay
<1>6. \A s \in partLoads : s.part # p => s \in sent
  OBVIOUS
<1> HIDE DEF d, e, sent, p
<1>7. DrawerShape(e)
  BY <1>1, <1>4 DEF DrawerShape
<1>8. OnTheirWay(e, sent)
  <2>1. \A s \in sent : AnswerFor(s, e)
    BY <1>1, <1>4, <1>5 DEF OnTheirWay, AnswerFor
  <2>2. \A s, u \in sent : s.part = u.part => s = u
    BY <1>1, <1>5 DEF OnTheirWay
  <2>3. ASSUME NEW k \in HousePart
        PROVE  e.parts[k].state = "loading" <=> \E s \in sent : s.part = k
    <3>1. CASE k = p
      BY <1>4, <1>5, <3>1
    <3>2. CASE k # p
      <4>1. d.parts[k].state = "loading" <=> \E s \in partLoads : s.part = k
        BY <1>1 DEF OnTheirWay
      <4>2. (\E s \in sent : s.part = k) <=> \E s \in partLoads : s.part = k
        BY <1>5, <1>6, <3>2
      <4> QED BY <1>4, <3>2, <4>1, <4>2
    <3> QED BY <3>1, <3>2
  <2> QED BY <2>1, <2>2, <2>3 DEF OnTheirWay
<1>9. PICK h \in Members(HouseholdRows) :
        /\ d.of = h.id /\ d.key = KeyOf(h) /\ PrimaryOf(houseMeters, h) \in d.met
        /\ \A k \in HousePart : PartTold(d.parts[k], h, d.met)
  BY <1>1 DEF Rightful
<1>10. PartTold(part, h, d.met)
  BY <1>9 DEF d
<1>11. e.of = h.id /\ e.key = KeyOf(h) /\ PrimaryOf(houseMeters', h) \in e.met
  BY <1>2, <1>4, <1>9
<1>12. \A k \in HousePart : PartTold(e.parts[k], h, e.met)
  BY <1>4, <1>9, <1>10
<1>13. Begun(e)
  BY <1>1, <1>4 DEF Begun, PartsOf, HousePart
<1>14. e.of # NoHouse
  BY <1>4 DEF d
<1> QED BY <1>2, <1>7, <1>8, <1>11, <1>12, <1>13, <1>14 DEF HouseInv, Rightful

LEMMA HousePartIsRead ==
  ASSUME HouseInv, NEW r \in partLoads, PartRead(r), houseDrawer.of # NoHouse
  PROVE  HouseInv'
<1> DEFINE d == houseDrawer
           told(k) == [of |-> k.id, meter |-> PrimaryOf(houseMeters, k)]
           read(k) == [r EXCEPT !.told = <<told(k)>>]
<1>1. DrawerShape(d) /\ OnTheirWay(d, partLoads) /\ Rightful(d) /\ Begun(d)
  BY OpenDrawer
<1>2. PICK h \in Members(HouseholdRows) :
        /\ d.of = h.id /\ d.key = KeyOf(h) /\ PrimaryOf(houseMeters, h) \in d.met
        /\ \A k \in HousePart : PartTold(d.parts[k], h, d.met)
  BY <1>1 DEF Rightful
<1>3. AnswerFor(r, d)
  BY <1>1 DEF OnTheirWay
<1>4. OwnHousehold(r.key) = h
  BY <1>2, <1>3, KeyIsOfOne DEF PartRead, AnswerFor
<1>5. /\ partLoads' = (partLoads \ {r}) \cup {read(h)}
      /\ houseDrawer' = d /\ houseMeters' = houseMeters
  BY <1>4 DEF PartRead, meterTable
<1>6. AnswerFor(read(h), d) /\ read(h).part = r.part
  <2>1. told(h).of = d.of /\ told(h).meter \in d.met
    BY <1>2
  <2> HIDE DEF told
  <2>2. /\ DOMAIN read(h) = {"part", "key", "told"} /\ read(h).part = r.part /\ read(h).key = r.key
        /\ read(h).told[1] = told(h)
    BY <1>3 DEF AnswerFor
  <2> HIDE DEF read
  <2> QED BY <1>3, <2>1, <2>2 DEF AnswerFor
<1> HIDE DEF d, read
<1>7. OnTheirWay(d, (partLoads \ {r}) \cup {read(h)})
  BY <1>1, <1>6 DEF OnTheirWay
<1>8. d.of # NoHouse
  BY DEF d
<1> QED BY <1>1, <1>2, <1>5, <1>7, <1>8 DEF HouseInv, Rightful

LEMMA HouseMetersChange ==
  ASSUME HouseInv, NEW m, NEW n, MeterChanges(m, n)
  PROVE  HouseInv'
<1> DEFINE d == houseDrawer
           first == PrimaryOf(houseMeters', OpenHousehold)
           e == [d EXCEPT !.met = d.met \cup {first}]
<1>1. partLoads' = partLoads
  BY DEF MeterChanges
<1>2. CASE d.of = NoHouse
  <2>1. houseDrawer' = d
    BY <1>2 DEF MeterChanges
  <2> QED BY <1>1, <1>2, <2>1 DEF HouseInv
<1>3. CASE d.of # NoHouse
  <2>1. houseDrawer' = e
    BY <1>3 DEF MeterChanges
  <2>2. DrawerShape(d) /\ OnTheirWay(d, partLoads) /\ Rightful(d) /\ Begun(d)
    BY <1>3, OpenDrawer
  <2>3. /\ DOMAIN e = HouseFields /\ e.parts = d.parts /\ e.of = d.of /\ e.key = d.key /\ e.tab = d.tab
        /\ e.met = d.met \cup {first}
    <3> HIDE DEF first
    <3> QED BY <2>2 DEF DrawerShape, HouseFields
  <2>4. PICK h \in Members(HouseholdRows) :
          /\ d.of = h.id /\ d.key = KeyOf(h) /\ PrimaryOf(houseMeters, h) \in d.met
          /\ \A k \in HousePart : PartTold(d.parts[k], h, d.met)
    BY <2>2 DEF Rightful
  <2>5. OpenHousehold = h
    <3>1. OpenHousehold \in Members(HouseholdRows) /\ OpenHousehold.id = h.id
      BY <2>4 DEF OpenHousehold
    <3> QED BY <3>1, HouseholdAssumption
  <2>6. PrimaryOf(houseMeters', h) \in e.met
    BY <2>3, <2>5
  <2> HIDE DEF d, e, first
  <2>7. \A k \in HousePart : PartTold(e.parts[k], h, e.met)
    BY <2>3, <2>4 DEF PartTold
  <2>8. DrawerShape(e) /\ Begun(e)
    BY <2>2, <2>3 DEF DrawerShape, Begun
  <2>9. OnTheirWay(e, partLoads)
    <3>1. \A r \in partLoads : AnswerFor(r, e)
      BY <2>2, <2>3 DEF OnTheirWay, AnswerFor
    <3> QED BY <2>2, <2>3, <3>1 DEF OnTheirWay
  <2>10. e.of = h.id /\ e.key = KeyOf(h) /\ e.of # NoHouse
    BY <1>3, <2>3, <2>4
  <2> QED BY <1>1, <2>1, <2>6, <2>7, <2>8, <2>9, <2>10 DEF HouseInv, Rightful
<1> QED BY <1>2, <1>3

LEMMA HouseStep ==
  ASSUME HouseInv, HouseholdsNext
  PROVE  HouseInv'
<1>1. ASSUME UNCHANGED <<houseDrawer, partLoads, houseMeters>>
      PROVE  HouseInv'
  BY <1>1 DEF HouseInv, Rightful
<1>2. ASSUME NEW h \in Members(HouseholdRows), SelectHouse(h)
      PROVE  HouseInv'
  <2>1. PICK sees \in BOOLEAN :
          AskFor([NoHouseDrawer EXCEPT !.of = h.id, !.key = KeyOf(h), !.bills = sees,
                                       !.met = {PrimaryOf(houseMeters, h)}], {"core"})
    BY <1>2 DEF SelectHouse
  <2> DEFINE d == [NoHouseDrawer EXCEPT !.of = h.id, !.key = KeyOf(h), !.bills = sees,
                                        !.met = {PrimaryOf(houseMeters, h)}]
  <2>2. houseDrawer = NoHouseDrawer /\ partLoads = {}
    BY <1>2, NothingForNone DEF SelectHouse
  <2>3. /\ DOMAIN d = HouseFields /\ d.of = h.id /\ d.key = KeyOf(h) /\ d.tab = "overview"
        /\ PrimaryOf(houseMeters, h) \in d.met /\ d.parts = [p \in HousePart |-> NoPart]
    BY DEF NoHouseDrawer, HouseFields
  <2>4. AskFor(d, {"core"})
    BY <2>1
  <2> HIDE DEF d
  <2>5. d.of # NoHouse
    BY <2>3, HouseholdAssumption
  <2>6. DrawerShape(d)
    BY <2>3 DEF DrawerShape, NoPart
  <2>7. OnTheirWay(d, partLoads)
    BY <2>2, <2>3 DEF OnTheirWay, NoPart
  <2>8. Rightful(d)
    BY <2>3 DEF Rightful, PartTold, NoPart
  <2>9. PartsOf(d.tab) = {} /\ {"core"} \subseteq HousePart
    BY <2>3 DEF PartsOf, HousePart
  <2>10. \A p \in {"core"} : d.parts[p].state # "loading"
    BY <2>3, <2>9 DEF NoPart
  <2> QED BY <2>4, <2>5, <2>6, <2>7, <2>8, <2>9, <2>10, HouseAsks
<1>3. ASSUME NEW t \in {"overview", "hardware", "billing"}, OpenHouseTab(t)
      PROVE  HouseInv'
  <2> DEFINE d == [houseDrawer EXCEPT !.tab = t]
             P == IdleOf(houseDrawer, PartsOf(t))
  <2>1. AskFor(d, P) /\ houseDrawer.of # NoHouse
    BY <1>3 DEF OpenHouseTab
  <2>2. /\ DrawerShape(houseDrawer) /\ OnTheirWay(houseDrawer, partLoads)
        /\ Rightful(houseDrawer) /\ Begun(houseDrawer)
    BY <2>1, OpenDrawer
  <2>3. /\ DOMAIN d = HouseFields /\ d.of = houseDrawer.of /\ d.key = houseDrawer.key /\ d.tab = t
        /\ d.met = houseDrawer.met /\ d.parts = houseDrawer.parts
    BY <2>2 DEF DrawerShape, HouseFields
  <2>4. P \subseteq HousePart /\ \A p \in P : d.parts[p].state # "loading"
    BY <2>3 DEF IdleOf, PartsOf, HousePart
  <2>5. \A p \in PartsOf(d.tab) \cup {"core"} : d.parts[p].state # "idle" \/ p \in P
    BY <2>2, <2>3 DEF IdleOf, Begun
  <2> HIDE DEF d, P
  <2>6. DrawerShape(d) /\ Rightful(d)
    BY <2>2, <2>3 DEF DrawerShape, Rightful
  <2>7. OnTheirWay(d, partLoads)
    BY <2>2, <2>3 DEF OnTheirWay, AnswerFor
  <2> QED BY <2>1, <2>3, <2>4, <2>5, <2>6, <2>7, HouseAsks
<1>4. ASSUME NEW p \in HousePart, RetryPart(p)
      PROVE  HouseInv'
  <2>1. AskFor(houseDrawer, {p}) /\ houseDrawer.of # NoHouse /\ houseDrawer.parts[p].state # "loading"
    BY <1>4 DEF RetryPart
  <2>2. /\ DrawerShape(houseDrawer) /\ OnTheirWay(houseDrawer, partLoads)
        /\ Rightful(houseDrawer) /\ Begun(houseDrawer)
    BY <2>1, OpenDrawer
  <2>3. /\ {p} \subseteq HousePart /\ \A k \in {p} : houseDrawer.parts[k].state # "loading"
        /\ \A k \in PartsOf(houseDrawer.tab) \cup {"core"} : houseDrawer.parts[k].state # "idle" \/ k \in {p}
    BY <2>1, <2>2 DEF Begun
  <2> QED BY <2>1, <2>2, <2>3, HouseAsks
<1>5. CASE CloseHouse
  BY <1>5, NoDrawerFits DEF CloseHouse, Dropped, HouseInv, NoHouseDrawer
<1>6. ASSUME NEW r \in partLoads, HousePartArrives(r)
      PROVE  HouseInv'
  <2> DEFINE part == [state |-> "done", of |-> r.told[1].of, meter |-> r.told[1].meter]
  <2>1. ToHouseDrawer(r, part)
    BY <1>6 DEF HousePartArrives
  <2>2. houseDrawer.of # NoHouse
    BY NothingForNone
  <2>3. part.of = houseDrawer.of /\ part.meter \in houseDrawer.met
    BY <1>6 DEF HousePartArrives, HouseInv, OnTheirWay, AnswerFor
  <2>4. DOMAIN part = {"state", "of", "meter"} /\ part.state \notin {"idle", "loading"}
    OBVIOUS
  <2> HIDE DEF part
  <2>5. \A h : houseDrawer.of = h.id => PartTold(part, h, houseDrawer.met)
    BY <2>3 DEF PartTold
  <2> QED BY <2>1, <2>2, <2>4, <2>5, HousePartSettles
<1>7. ASSUME NEW r \in partLoads, HousePartFails(r)
      PROVE  HouseInv'
  <2> DEFINE part == [houseDrawer.parts[r.part] EXCEPT !.state = "error"]
  <2>1. ToHouseDrawer(r, part)
    BY <1>7 DEF HousePartFails
  <2>2. houseDrawer.of # NoHouse
    BY NothingForNone
  <2>3. r.part \in HousePart /\ DOMAIN houseDrawer.parts[r.part] = {"state", "of", "meter"}
    BY DEF HouseInv, OnTheirWay, AnswerFor, DrawerShape
  <2>4. /\ DOMAIN part = {"state", "of", "meter"} /\ part.state = "error"
        /\ part.of = houseDrawer.parts[r.part].of /\ part.meter = houseDrawer.parts[r.part].meter
    BY <2>3
  <2> HIDE DEF part
  <2>5. ASSUME NEW h, \A p \in HousePart : PartTold(houseDrawer.parts[p], h, houseDrawer.met)
        PROVE  PartTold(part, h, houseDrawer.met)
    BY <2>3, <2>4, <2>5 DEF PartTold
  <2> QED BY <2>1, <2>2, <2>4, <2>5, HousePartSettles
<1>8. ASSUME NEW r \in partLoads, PartRead(r)
      PROVE  HouseInv'
  BY <1>8, NothingForNone, HousePartIsRead
<1>9. CASE \E m \in houseMeters : \E n \in ChangesOf(m) : MeterChanges(m, n)
  BY <1>9, HouseMetersChange
<1>10. CASE \/ \E w \in HouseWord : TypeHouse(w)
            \/ HouseSearchStarts
            \/ \E s \in DOMAIN SiteBelow \cup {"ALL"} : PickHouseSite(s)
            \/ \E s \in DOMAIN SiteBelow : CardOfSite(s)
            \/ SortHouses \/ ResetHouses \/ PreviousHouses \/ NextHouses \/ RetryHouses \/ RefreshHouses
            \/ \E sortable \in BOOLEAN : HousesArrive(sortable)
            \/ HousesFail
            \/ \E r \in counts.sent : CountsRead(r) \/ CountsArrive(r) \/ CountsFail(r)
            \/ CopyRunsOut
            \/ \E i \in DOMAIN register : Leaves(i)
  BY <1>1, <1>10 DEF TypeHouse, HouseSearchStarts, PickHouseSite, CardOfSite, SortHouses, ResetHouses,
         PreviousHouses, NextHouses, RetryHouses, RefreshHouses, HousesArrive, HousesFail, CountsRead,
         CountsArrive, CountsFail, CopyRunsOut, Leaves, PressDrawn, PressHouse, meterTable
<1> QED BY <1>2, <1>3, <1>4, <1>5, <1>6, <1>7, <1>8, <1>9, <1>10 DEF HouseholdsNext

LEMMA HouseTold == HouseInv => DrawerOfHouse
<1> SUFFICES ASSUME HouseInv, houseDrawer.of # NoHouse
             PROVE  DrawerOfHouse
  BY DEF DrawerOfHouse
<1>1. /\ DrawerShape(houseDrawer) /\ OnTheirWay(houseDrawer, partLoads)
      /\ Rightful(houseDrawer) /\ Begun(houseDrawer)
  BY OpenDrawer
<1>2. \A p \in HousePart : houseDrawer.parts[p].of # NoHouse =>
        houseDrawer.parts[p].of = houseDrawer.of /\ houseDrawer.parts[p].meter \in houseDrawer.met
  BY <1>1 DEF Rightful, PartTold
<1>3. \A p \in HousePart : houseDrawer.parts[p].state = "loading"
                             <=> \E r \in partLoads : r.part = p /\ r.key = houseDrawer.key
  BY <1>1 DEF OnTheirWay, AnswerFor
<1> QED BY <1>1, <1>2, <1>3 DEF DrawerOfHouse, Begun

-----------------------------------------------------------------------------
(* The Network Explorer: the effects of a render leave the card alone or      *)
(* close it.                                                                  *)

ExFields == {"site", "of", "gws", "pts", "base", "ready", "view", "chosen", "coverage", "radius", "card",
             "status", "search", "layers", "fitted", "looks", "set", "slid", "wanted", "unknown",
             "early", "disturbed"}

CardKept(e, f) ==
  /\ DOMAIN f = ExFields /\ f.unknown = e.unknown
  /\ \/ f.card = e.card /\ f.wanted = e.wanted
     \/ f.card = NoMeterCard /\ f.wanted = Nobody

CardRight(e, asks) ==
  /\ e.card.id = e.wanted
  /\ e.wanted # Nobody => asks[e.wanted] > 0 \/ e.unknown \/ e.card.told = "all"

CardInv ==
  /\ DOMAIN ex = ExFields /\ lookups \in [MapMeter -> Nat]
  /\ CardRight(ex, lookups)

LEMMA CardInitially == ExplorerInit => CardInv
<1> SUFFICES ASSUME ExplorerInit PROVE CardInv
  OBVIOUS
<1>1. DOMAIN ex = ExFields /\ ex.card = NoMeterCard /\ ex.wanted = Nobody
  BY DEF ExplorerInit, ExFields
<1>2. lookups \in [MapMeter -> Nat]
  BY DEF ExplorerInit
<1> QED BY <1>1, <1>2 DEF CardInv, CardRight, NoMeterCard

LEMMA KeptThrough ==
  ASSUME NEW e, NEW f, NEW g, CardKept(e, f), CardKept(f, g)
  PROVE  CardKept(e, g)
BY DEF CardKept

LEMMA EffectsKeep ==
  ASSUME NEW old, NEW e, DOMAIN e = ExFields
  PROVE  CardKept(e, Effects(old, e))
<1>1. ASSUME NEW d, DOMAIN d = ExFields
      PROVE  /\ CardKept(d, AreaSlate(old, d)) /\ CardKept(d, GatewayGone(d)) /\ CardKept(d, ChosenOpens(old, d))
             /\ CardKept(d, OwnRadius(old, d)) /\ CardKept(d, FitOnce(d))
             /\ CardKept(d, SearchLook(old, d)) /\ CardKept(d, GatewayLook(old, d))
  <2>1. CardKept(d, AreaSlate(old, d))
    BY <1>1 DEF CardKept, AreaSlate, CloseCard, ExFields
  <2>2. CardKept(d, GatewayGone(d))
    BY <1>1 DEF CardKept, GatewayGone, ExFields
  <2>3. CardKept(d, ChosenOpens(old, d))
    BY <1>1 DEF CardKept, ChosenOpens, ExFields
  <2>4. CardKept(d, OwnRadius(old, d))
    BY <1>1 DEF CardKept, OwnRadius, ExFields
  <2>5. CardKept(d, FitOnce(d))
    BY <1>1 DEF CardKept, FitOnce, ExFields
  <2>6. CardKept(d, SearchLook(old, d))
    BY <1>1 DEF CardKept, SearchLook, ExFields
  <2>7. CardKept(d, GatewayLook(old, d))
    BY <1>1 DEF CardKept, GatewayLook, ExFields
  <2> QED BY <2>1, <2>2, <2>3, <2>4, <2>5, <2>6, <2>7
<1> DEFINE e1 == AreaSlate(old, e)
           e2 == GatewayGone(e1)
           e3 == ChosenOpens(old, e2)
           e4 == OwnRadius(old, e3)
           e5 == FitOnce(e4)
           e6 == SearchLook(old, e5)
           e7 == GatewayLook(old, e6)
<1>2. Effects(old, e) = e7
  BY DEF Effects
<1>3. CardKept(e, e1)
  BY <1>1
<1>4. CardKept(e1, e2)
  BY <1>1, <1>3 DEF CardKept
<1>5. CardKept(e2, e3)
  BY <1>1, <1>4 DEF CardKept
<1>6. CardKept(e3, e4)
  BY <1>1, <1>5 DEF CardKept
<1>7. CardKept(e4, e5)
  BY <1>1, <1>6 DEF CardKept
<1>8. CardKept(e5, e6)
  BY <1>1, <1>7 DEF CardKept
<1>9. CardKept(e6, e7)
  BY <1>1, <1>8 DEF CardKept
<1> HIDE DEF e1, e2, e3, e4, e5, e6, e7
<1> QED BY <1>2, <1>3, <1>4, <1>5, <1>6, <1>7, <1>8, <1>9, KeptThrough

LEMMA CommitKeeps ==
  ASSUME NEW e, DOMAIN e = ExFields, Commit(e), lookups' \in [MapMeter -> Nat], CardRight(e, lookups')
  PROVE  CardInv'
<1> DEFINE after == Effects(ex, e)
<1>1. CardKept(e, after)
  BY EffectsKeep
<1>2. ex' = [after EXCEPT !.set = FALSE]
  BY DEF Commit
<1> HIDE DEF after
<1>3. DOMAIN ex' = ExFields /\ ex'.card = after.card /\ ex'.wanted = after.wanted /\ ex'.unknown = after.unknown
  BY <1>1, <1>2 DEF CardKept, ExFields
<1>4. CardRight(ex', lookups')
  BY <1>1, <1>3 DEF CardKept, CardRight, NoMeterCard
<1> QED BY <1>3, <1>4 DEF CardInv

LEMMA PlainCommit ==
  ASSUME CardInv, NEW e, CardKept(ex, e), Commit(e), UNCHANGED lookups
  PROVE  CardInv'
<1>1. DOMAIN e = ExFields /\ CardRight(e, lookups')
  BY DEF CardKept, CardRight, CardInv, NoMeterCard
<1> QED BY <1>1, CommitKeeps DEF CardInv

LEMMA OpenedRight ==
  ASSUME CardInv, NEW e, CardKept(ex, e), NEW m \in MapMeter, OpenMeterCard(e, m)
  PROVE  CardInv'
<1> DEFINE f == [e EXCEPT !.card = [id |-> m, told |-> "known"], !.wanted = m, !.unknown = FALSE,
                          !.set = TRUE, !.early = ~e.ready]
<1>1. Commit(f) /\ lookups' = [lookups EXCEPT ![m] = @ + 1]
  BY DEF OpenMeterCard
<1>2. DOMAIN f = ExFields /\ f.card = [id |-> m, told |-> "known"] /\ f.wanted = m
  BY DEF CardKept, ExFields
<1>3. lookups' \in [MapMeter -> Nat] /\ lookups'[m] > 0
  BY <1>1 DEF CardInv
<1> HIDE DEF f
<1>4. CardRight(f, lookups')
  BY <1>2, <1>3 DEF CardRight
<1> QED BY <1>1, <1>2, <1>3, <1>4, CommitKeeps

LEMMA ToldAll ==
  ASSUME NEW e, NEW m \in MapMeter, DOMAIN e = ExFields, Commit(e), lookups' \in [MapMeter -> Nat],
         e.card = [id |-> m, told |-> "all"], e.wanted = m
  PROVE  CardInv'
<1>1. CardRight(e, lookups')
  BY DEF CardRight
<1> QED BY <1>1, CommitKeeps

LEMMA CardStep ==
  ASSUME CardInv, ExplorerNext
  PROVE  CardInv'
<1> USE DEF Chosen
<1>0. DOMAIN ex = ExFields
  BY DEF CardInv
<1>1. ASSUME NEW gws, NEW pts, AreaArrives(gws, pts) \/ QuietRefresh(gws, pts)
      PROVE  CardInv'
  <2>1. CASE AreaArrives(gws, pts)
    <3> DEFINE e == [Given(ex, gws, pts) EXCEPT !.base = @ \/ ex.site = AllAreas]
    <3>1. CardKept(ex, e)
      BY <1>0 DEF CardKept, Given, ExFields
    <3>2. Commit(e) /\ UNCHANGED lookups
      BY <2>1 DEF AreaArrives
    <3> HIDE DEF e
    <3> QED BY <3>1, <3>2, PlainCommit
  <2>2. CASE QuietRefresh(gws, pts)
    <3>1. PICK moved : Commit([Given(ex, gws, pts) EXCEPT !.disturbed = moved]) /\ UNCHANGED lookups
      BY <2>2 DEF QuietRefresh
    <3> DEFINE e == [Given(ex, gws, pts) EXCEPT !.disturbed = moved]
    <3>2. CardKept(ex, e)
      BY <1>0 DEF CardKept, Given, ExFields
    <3> HIDE DEF e
    <3> QED BY <3>1, <3>2, PlainCommit DEF e
  <2> QED BY <1>1, <2>1, <2>2
<1>2. ASSUME NEW a, NEW gws, ChooseArea(a, gws, AreaMeters[a])
      PROVE  CardInv'
  <2> DEFINE d == [ex EXCEPT !.site = a]
             e == IF Derives(d) THEN Given(d, gws, AreaMeters[a]) ELSE Without(d)
  <2>1. DOMAIN d = ExFields /\ d.card = ex.card /\ d.wanted = ex.wanted /\ d.unknown = ex.unknown
    BY <1>0 DEF ExFields
  <2>2. Commit(e) /\ UNCHANGED lookups
    BY <1>2 DEF ChooseArea
  <2> HIDE DEF d
  <2>3. CardKept(ex, e)
    BY <2>1 DEF CardKept, Given, Without, ExFields
  <2> HIDE DEF e
  <2> QED BY <2>2, <2>3, PlainCommit
<1>3. CASE Reload
  <2>1. CardKept(ex, Without(ex))
    BY <1>0 DEF CardKept, Without, ExFields
  <2> QED BY <1>3, <2>1, PlainCommit DEF Reload
<1>4. CASE MapLoads
  <2>1. CardKept(ex, [ex EXCEPT !.ready = TRUE])
    BY <1>0 DEF CardKept, ExFields
  <2> QED BY <1>4, <2>1, PlainCommit DEF MapLoads
<1>5. ASSUME NEW g, PickGateway(g) \/ ShowOnMap(g) \/ ClickMarker(g) \/ ClickGatewayRow(g)
      PROVE  CardInv'
  <2>1. CardKept(ex, OpenedGateway(ex, g))
    BY <1>0 DEF CardKept, OpenedGateway, CloseCard, ExFields
  <2>2. CardKept(ex, Placed(g))
    BY <1>0 DEF CardKept, Placed, OpenedGateway, CloseCard, ExFields
  <2>3. CardKept(ex, [Placed(g) EXCEPT !.view = "map"])
    BY <2>2 DEF CardKept, ExFields
  <2>4. CardKept(ex, [OpenedGateway(ex, g) EXCEPT !.view = "map"])
    BY <2>1 DEF CardKept, ExFields
  <2>5. CASE PickGateway(g)
    BY <2>2, <2>5, PlainCommit DEF PickGateway
  <2>6. CASE ShowOnMap(g)
    BY <2>3, <2>6, PlainCommit DEF ShowOnMap
  <2>7. CASE ClickMarker(g)
    BY <2>1, <2>7, PlainCommit DEF ClickMarker
  <2>8. CASE ClickGatewayRow(g)
    BY <2>4, <2>8, PlainCommit DEF ClickGatewayRow
  <2> QED BY <1>5, <2>5, <2>6, <2>7, <2>8
<1>6. CASE PickAllGateways
  <2>1. CardKept(ex, [ex EXCEPT !.chosen = AllAreas, !.coverage = Nobody])
    BY <1>0 DEF CardKept, ExFields
  <2> QED BY <1>6, <2>1, PlainCommit DEF PickAllGateways
<1>7. CASE CloseCoverage
  <2>1. CardKept(ex, [ex EXCEPT !.coverage = Nobody])
    BY <1>0 DEF CardKept, ExFields
  <2> QED BY <1>7, <2>1, PlainCommit DEF CloseCoverage
<1>8. CASE MoveRadius
  <2>1. CardKept(ex, [ex EXCEPT !.radius = Slid, !.slid = TRUE])
    BY <1>0 DEF CardKept, ExFields
  <2> QED BY <1>8, <2>1, PlainCommit DEF MoveRadius
<1>9. ASSUME NEW m \in MapMeter, ClickPoint(m)
      PROVE  CardInv'
  <2>1. CardKept(ex, ex)
    BY <1>0 DEF CardKept
  <2> QED BY <1>9, <2>1, OpenedRight DEF ClickPoint
<1>10. ASSUME NEW m \in MapMeter, OpenFromRange(m)
       PROVE  CardInv'
  <2> DEFINE e == [ex EXCEPT !.looks = IF ex.ready THEN "meter" ELSE @]
  <2>1. CardKept(ex, e)
    BY <1>0 DEF CardKept, ExFields
  <2>2. OpenMeterCard(e, m)
    BY <1>10 DEF OpenFromRange
  <2> HIDE DEF e
  <2> QED BY <2>1, <2>2, OpenedRight
<1>11. ASSUME NEW m \in MapMeter, PickSuggestion(m)
       PROVE  CardInv'
  <2> DEFINE e == [ex EXCEPT !.search = "", !.view = IF m \in ex.pts THEN "map" ELSE "table",
                             !.looks = IF m \in ex.pts /\ ex.ready THEN "meter" ELSE @]
  <2>1. CardKept(ex, e)
    BY <1>0 DEF CardKept, ExFields
  <2>2. OpenMeterCard(e, m) \/ (Commit(e) /\ UNCHANGED lookups)
    BY <1>11 DEF PickSuggestion
  <2> HIDE DEF e
  <2> QED BY <2>1, <2>2, OpenedRight, PlainCommit
<1>12. ASSUME NEW m \in MapMeter, ClickMeterRow(m)
       PROVE  CardInv'
  <2> DEFINE e == [ex EXCEPT !.card = [id |-> m, told |-> "all"], !.wanted = m, !.unknown = FALSE,
                             !.set = TRUE, !.early = ~ex.ready]
  <2>1. Commit(e) /\ lookups' \in [MapMeter -> Nat]
    BY <1>12 DEF ClickMeterRow, CardInv
  <2>2. DOMAIN e = ExFields /\ e.card = [id |-> m, told |-> "all"] /\ e.wanted = m
    BY <1>0 DEF ExFields
  <2> HIDE DEF e
  <2> QED BY <2>1, <2>2, ToldAll
<1>13. ASSUME NEW m \in MapMeter, MeterArrives(m) \/ MeterUnknown(m)
       PROVE  CardInv'
  <2>1. /\ lookups' \in [MapMeter -> Nat]
        /\ \A k \in MapMeter \ {m} : lookups'[k] = lookups[k]
    BY <1>13 DEF MeterArrives, MeterUnknown, LookupAnswered, CardInv
  <2>2. lookups' = [lookups EXCEPT ![m] = @ - 1]
    BY <1>13 DEF MeterArrives, MeterUnknown, LookupAnswered
  <2>3. CASE MeterArrives(m) /\ ex.card.id = m
    <3> DEFINE e == [ex EXCEPT !.card = [id |-> m, told |-> "all"], !.set = TRUE, !.early = ~ex.ready]
    <3>1. Commit(e)
      BY <2>3 DEF MeterArrives, Merge
    <3>2. DOMAIN e = ExFields /\ e.card = [id |-> m, told |-> "all"] /\ e.wanted = ex.wanted
      BY <1>0 DEF ExFields
    <3>3. ex.wanted = m
      BY <2>3 DEF CardInv, CardRight
    <3> HIDE DEF e
    <3> QED BY <2>1, <3>1, <3>2, <3>3, ToldAll
  <2>4. CASE ex.card.id # m
    <3>1. PICK e : Commit(e) /\ DOMAIN e = ExFields /\ e.card = ex.card /\ e.wanted = ex.wanted
                   /\ (ex.unknown => e.unknown)
      <4>1. CASE MeterArrives(m)
        BY <1>0, <2>4, <4>1 DEF MeterArrives, Merge
      <4>2. CASE MeterUnknown(m)
        <5> DEFINE e == [ex EXCEPT !.unknown = @ \/ ex.card.id = m]
        <5>1. Commit(e)
          BY <4>2 DEF MeterUnknown
        <5>2. DOMAIN e = ExFields /\ e.card = ex.card /\ e.wanted = ex.wanted /\ (ex.unknown => e.unknown)
          BY <1>0 DEF ExFields
        <5> HIDE DEF e
        <5> QED BY <5>1, <5>2
      <4> QED BY <1>13, <4>1, <4>2
    <3>2. CardRight(e, lookups')
      <4>1. CASE ex.wanted = Nobody
        BY <3>1, <4>1 DEF CardInv, CardRight
      <4>2. CASE ex.wanted # Nobody
        <5>1. lookups'[ex.wanted] = lookups[ex.wanted]
          BY <2>2, <2>4 DEF CardInv, CardRight
        <5> QED BY <3>1, <5>1 DEF CardInv, CardRight
      <4> QED BY <4>1, <4>2
    <3> QED BY <2>1, <3>1, <3>2, CommitKeeps
  <2>5. CASE MeterUnknown(m) /\ ex.card.id = m
    <3> DEFINE e == [ex EXCEPT !.unknown = @ \/ ex.card.id = m]
    <3>1. Commit(e)
      BY <2>5 DEF MeterUnknown
    <3>2. DOMAIN e = ExFields /\ e.card = ex.card /\ e.wanted = ex.wanted /\ e.unknown
      BY <1>0, <2>5 DEF ExFields
    <3> HIDE DEF e
    <3>3. CardRight(e, lookups')
      BY <3>2 DEF CardInv, CardRight
    <3> QED BY <2>1, <3>1, <3>2, <3>3, CommitKeeps
  <2> QED BY <1>13, <2>3, <2>4, <2>5
<1>14. CASE ClickNothing \/ CloseMeterCard
  <2>1. CardKept(ex, CloseCard(ex))
    BY <1>0 DEF CardKept, CloseCard, ExFields
  <2> QED BY <1>14, <2>1, PlainCommit DEF ClickNothing, CloseMeterCard
<1>15. ASSUME NEW w, SubmitSearch(w) \/ PickMapStatus(w) \/ ShowView(w) \/ ToggleLayer(w)
       PROVE  CardInv'
  <2>1. CardKept(ex, [ex EXCEPT !.search = w])
    BY <1>0 DEF CardKept, ExFields
  <2>2. CardKept(ex, [ex EXCEPT !.status = w])
    BY <1>0 DEF CardKept, ExFields
  <2>3. CardKept(ex, [ex EXCEPT !.view = w])
    BY <1>0 DEF CardKept, ExFields
  <2>4. CardKept(ex, [ex EXCEPT !.layers = (@ \ {w}) \cup ({w} \ @)])
    BY <1>0 DEF CardKept, ExFields
  <2>5. CASE SubmitSearch(w)
    BY <2>1, <2>5, PlainCommit DEF SubmitSearch
  <2>6. CASE PickMapStatus(w)
    BY <2>2, <2>6, PlainCommit DEF PickMapStatus
  <2>7. CASE ShowView(w)
    BY <2>3, <2>7, PlainCommit DEF ShowView
  <2>8. CASE ToggleLayer(w)
    BY <2>4, <2>8, PlainCommit DEF ToggleLayer
  <2> QED BY <1>15, <2>5, <2>6, <2>7, <2>8
<1>16. CASE UserPans
  <2>1. CardKept(ex, [ex EXCEPT !.looks = "user"])
    BY <1>0 DEF CardKept, ExFields
  <2> QED BY <1>16, <2>1, PlainCommit DEF UserPans
<1> QED BY <1>1, <1>2, <1>3, <1>4, <1>5, <1>6, <1>7, <1>8, <1>9, <1>10, <1>11, <1>12, <1>13, <1>14, <1>15, <1>16
        DEF ExplorerNext

LEMMA CardTold == CardInv => CardOfMeter
BY DEF CardInv, CardRight, CardOfMeter

-----------------------------------------------------------------------------
(* The open drawers, one page at a time.                                    *)

DrawersInv ==
  /\ about = "alarms" => AlarmInv
  /\ about = "bills" => BillInv
  /\ about \in {"houses", "household"} => HouseInv
  /\ about = "explorer" => CardInv

LEMMA DrawersInitially == PagesInit => DrawersInv
BY AlarmInitially, BillInitially, HouseInitially, CardInitially DEF PagesInit, DrawersInv

LEMMA DrawersKept ==
  ASSUME DrawersInv, [PagesNext]_pagesVars
  PROVE  DrawersInv'
<1>1. CASE UNCHANGED pagesVars
  <2>1. about' = about /\ UNCHANGED <<alarmVars, billVars, houseVars, explorerVars>>
    BY <1>1 DEF pagesVars
  <2>2. AlarmInv => AlarmInv'
    BY <2>1 DEF alarmVars, AlarmInv
  <2>3. BillInv => BillInv'
    BY <2>1 DEF billVars, BillInv
  <2>4. HouseInv => HouseInv'
    BY <2>1 DEF houseVars, HouseInv, Rightful
  <2>5. CardInv => CardInv'
    BY <2>1 DEF explorerVars, CardInv
  <2> QED BY <2>1, <2>2, <2>3, <2>4, <2>5 DEF DrawersInv
<1>2. CASE PagesNext
  <2>1. about' = about
    BY <1>2 DEF PagesNext
  <2>2. CASE about = "alarms"
    <3>1. AlarmsNext
      BY <1>2, <2>2 DEF PagesNext, AlarmsStep
    <3> QED BY <2>1, <2>2, <3>1, AlarmStep DEF DrawersInv
  <2>3. CASE about = "bills"
    <3>1. BillingNext
      BY <1>2, <2>3 DEF PagesNext, BillsStep
    <3> QED BY <2>1, <2>3, <3>1, BillStep DEF DrawersInv
  <2>4. CASE about \in {"houses", "household"}
    <3>1. HouseholdsNext
      BY <1>2, <2>4 DEF PagesNext, HousesStep
    <3> QED BY <2>1, <2>4, <3>1, HouseStep DEF DrawersInv
  <2>5. CASE about = "explorer"
    <3>1. ExplorerNext
      BY <1>2, <2>5 DEF PagesNext, ExplorerStep
    <3> QED BY <2>1, <2>5, <3>1, CardStep DEF DrawersInv
  <2>6. CASE about \notin {"alarms", "bills", "houses", "household", "explorer"}
    BY <2>1, <2>6 DEF DrawersInv
  <2> QED BY <2>2, <2>3, <2>4, <2>5, <2>6
<1> QED BY <1>1, <1>2

\* An open drawer tells of the row it was opened for: an alert's header, tabs and photo;
\* a bill's cards, tabs and invoice, whose days are as many as there is room for and add
\* up; a household's parts, each of them about a meter that was its primary one since the
\* drawer was opened, however often the meters change; the card of the meter opened last.
\* For any rows, bills, days, households, meters and number of answers on their way.
THEOREM DrawersAreOfTheirRow == PagesSpec => []DrawersOfTheirRow
<1>1. DrawersInv => DrawersOfTheirRow
  <2>1. BillInv => DrawerOfBill /\ UnpaidWhenOpened
    BY OneBill, UnpaidTold, DaysTold DEF DrawerOfBill
  <2> QED BY <2>1, AlertTold, HouseTold, CardTold DEF DrawersInv, DrawersOfTheirRow
<1> QED BY <1>1, DrawersInitially, DrawersKept, PTL DEF PagesSpec

-----------------------------------------------------------------------------
(* The latest frames of a gateway: a request that would replace the rows is   *)
(* only on its way while there are none.                                      *)

FramesInv ==
  /\ heard \in [Scope -> Nat] /\ scope \in Scope
  /\ IsList(frames) /\ IsList(pendingFrames)
  /\ DOMAIN request = {"mode", "offset"} /\ request.offset \in Nat
  /\ request.mode \in {"none", "replace", "append", "refresh"}
  /\ request.mode = "none" => request = NoRequest
  /\ request.mode = "replace" => frames = <<>> /\ pendingFrames = <<>>

LEMMA PageIsList ==
  ASSUME FramesInv, NEW o \in Nat
  PROVE  IsList(PageAt(o))
<1> DEFINE left == heard[scope] - o
           n == IF left < PageSize THEN left ELSE PageSize
           m == IF n < 0 THEN 0 ELSE n
<1>1. left \in Int
  BY DEF FramesInv
<1> HIDE DEF left
<1>2. n \in Int /\ m \in Nat /\ 1 .. n = 1 .. m
  BY <1>1, FramesAssumption
<1>3. PageAt(o) = [i \in 1 .. n |-> left - i + 1]
  BY DEF PageAt, left
<1> HIDE DEF n, m
<1>4. PageAt(o) \in [1 .. m -> Int]
  BY <1>1, <1>2, <1>3
<1> QED BY <1>2, <1>4 DEF IsList

LEMMA RestIsList ==
  ASSUME NEW s, NEW u, IsList(s)
  PROVE  IsList(NotIn(s, u))
<1> DEFINE stay == {i \in DOMAIN s : \A j \in DOMAIN u : u[j] # s[i]}
<1>1. stay \in SUBSET (DOMAIN s)
  OBVIOUS
<1>2. NotIn(s, u) = RowsAt(s, stay)
  BY DEF NotIn
<1> HIDE DEF stay
<1> QED BY <1>1, <1>2, KeptRows

LEMMA FramesInitially == FramesInit => FramesInv
BY EmptyIsList DEF FramesInit, FramesInv

LEMMA RowsWhereTheyWere ==
  ASSUME FramesInv, frames' = frames
  PROVE  KeptBy(0)
BY ListLength DEF FramesInv, KeptBy

LEMMA RowsOnTop ==
  ASSUME FramesInv, NEW u, IsList(u), frames' = u \o frames
  PROVE  KeptBy(Len(frames') - Len(frames)) /\ IsList(frames')
<1>1. IsList(frames)
  BY DEF FramesInv
<1>2. /\ IsList(u \o frames) /\ Len(u \o frames) = Len(u) + Len(frames)
      /\ \A i \in DOMAIN frames : (u \o frames)[Len(u) + i] = frames[i]
  BY <1>1, Joined
<1>3. Len(u) \in Nat /\ Len(frames) \in Nat
  BY <1>1, ListLength
<1>4. Len(frames') - Len(frames) = Len(u)
  BY <1>2, <1>3
<1>5. Len(frames) <= Len(frames')
  BY <1>2, <1>3
<1> QED BY <1>2, <1>4, <1>5 DEF KeptBy

LEMMA RowsBelow ==
  ASSUME FramesInv, NEW u, IsList(u), frames' = frames \o u
  PROVE  KeptBy(0) /\ IsList(frames')
<1>1. IsList(frames)
  BY DEF FramesInv
<1>2. /\ IsList(frames \o u) /\ Len(frames \o u) = Len(frames) + Len(u)
      /\ \A i \in DOMAIN frames : (frames \o u)[i] = frames[i]
  BY <1>1, Joined
<1>3. Len(u) \in Nat /\ Len(frames) \in Nat /\ DOMAIN frames = 1 .. Len(frames)
  BY <1>1, ListLength
<1>4. Len(frames) <= Len(frames')
  BY <1>2, <1>3
<1>5. \A i \in DOMAIN frames : 0 + i = i
  BY <1>3
<1> QED BY <1>2, <1>4, <1>5 DEF KeptBy

LEMMA FramesKept ==
  ASSUME FramesInv, [FramesNext]_framesVars
  PROVE  FramesInv' /\ (scope' = scope =>
           \/ KeptBy(0)
           \/ KeptBy(Len(frames') - Len(frames)) /\ (busy => ShowPending))
<1>1. CASE UNCHANGED framesVars
  BY <1>1, RowsWhereTheyWere DEF framesVars, FramesInv
<1>2. CASE HearFrame
  <2>1. heard' \in [Scope -> Nat]
    BY <1>2 DEF HearFrame, FramesInv
  <2> QED BY <1>2, <2>1, RowsWhereTheyWere DEF HearFrame, FramesInv
<1>3. CASE Touch
  BY <1>3, RowsWhereTheyWere DEF Touch, FramesInv
<1>4. CASE ShowPending
  <2> DEFINE u == NotIn(pendingFrames, frames)
  <2>1. IsList(u)
    BY RestIsList DEF FramesInv
  <2>2. frames' = u \o frames /\ pendingFrames' = <<>>
    BY <1>4 DEF ShowPending
  <2> HIDE DEF u
  <2>3. KeptBy(Len(frames') - Len(frames)) /\ IsList(frames')
    BY <2>1, <2>2, RowsOnTop
  <2>4. request.mode # "replace"
    BY <1>4 DEF ShowPending, FramesInv
  <2>5. FramesInv'
    BY <1>4, <2>2, <2>3, <2>4, EmptyIsList DEF ShowPending, FramesInv
  <2> QED BY <1>4, <2>3, <2>5
<1>5. CASE RefreshToken
  BY <1>5, RowsWhereTheyWere DEF RefreshToken, Ask, FramesInv
<1>6. CASE LoadMore
  <2>1. Len(frames) \in Nat
    BY ListLength DEF FramesInv
  <2> QED BY <1>6, <2>1, RowsWhereTheyWere DEF LoadMore, Ask, FramesInv
<1>7. CASE FramesArrive
  <2>1. /\ request' = NoRequest /\ heard' = heard /\ scope' = scope /\ busy' = busy
        /\ request.mode \in {"replace", "append", "refresh"} /\ request.offset \in Nat
    <3>1. /\ request # NoRequest /\ request' = NoRequest /\ heard' = heard /\ scope' = scope /\ busy' = busy
      BY <1>7 DEF FramesArrive
    <3> QED BY <1>7, <3>1 DEF FramesInv, FramesArrive
  <2>2. CASE request.mode = "replace"
    <3>1. frames' = PageAt(0) /\ pendingFrames' = <<>> /\ frames = <<>>
      BY <1>7, <2>2 DEF FramesArrive, FramesInv
    <3>2. IsList(PageAt(0))
      BY PageIsList
    <3>3. KeptBy(0)
      BY <3>1, <3>2, ListLength DEF KeptBy
    <3> QED BY <2>1, <3>1, <3>2, <3>3, EmptyIsList DEF FramesInv, NoRequest
  <2>3. CASE request.mode = "append"
    <3>1. frames' = frames \o PageAt(request.offset) /\ pendingFrames' = pendingFrames
      BY <1>7, <2>3 DEF FramesArrive
    <3>2. IsList(PageAt(request.offset))
      BY <2>1, PageIsList
    <3>3. KeptBy(0) /\ IsList(frames')
      BY <3>1, <3>2, RowsBelow
    <3> QED BY <2>1, <3>1, <3>3 DEF FramesInv, NoRequest
  <2>4. CASE request.mode = "refresh"
    <3>1. Refreshed
      BY <1>7, <2>4 DEF FramesArrive
    <3>2. IsList(Fresh)
      <4>1. IsList(PageAt(0))
        BY PageIsList
      <4> QED BY <4>1, RestIsList DEF Fresh
    <3>3. CASE busy
      <4>1. frames' = frames /\ pendingFrames' = Fresh
        BY <3>1, <3>3 DEF Refreshed, HoldBack
      <4> QED BY <2>1, <3>2, <4>1, RowsWhereTheyWere DEF FramesInv, NoRequest
    <3>4. CASE ~busy
      <4>1. frames' = Fresh \o frames /\ pendingFrames' = <<>>
        BY <3>1, <3>4 DEF Refreshed, SlideIn
      <4>2. KeptBy(Len(frames') - Len(frames)) /\ IsList(frames')
        BY <3>2, <4>1, RowsOnTop
      <4> QED BY <2>1, <3>4, <4>1, <4>2, EmptyIsList DEF FramesInv, NoRequest
    <3> QED BY <3>3, <3>4
  <2> QED BY <2>1, <2>2, <2>3, <2>4
<1>8. CASE FramesFail
  BY <1>8, RowsWhereTheyWere DEF FramesFail, FramesInv, NoRequest
<1>9. ASSUME NEW s \in Scope, NewScope(s)
      PROVE  FramesInv' /\ scope' # scope
  BY <1>9, EmptyIsList DEF NewScope, Ask, FramesInv
<1> QED BY <1>1, <1>2, <1>3, <1>4, <1>5, <1>6, <1>7, <1>8, <1>9 DEF FramesNext

\* What the other pages do leaves the frames alone.
LEMMA OthersLeaveFrames ==
  ASSUME [PagesNext]_pagesVars
  PROVE  [FramesNext]_framesVars
<1>1. CASE UNCHANGED pagesVars
  BY <1>1 DEF pagesVars
<1>2. CASE PagesNext
  BY <1>2 DEF PagesNext, FramesStep, DashboardStep, PlacingStep, MetersStep, DrawerStep, AlarmsStep, BillsStep,
              HousesStep, LayerStep, ReachStep, SearchStep, TableStep, ExplorerStep, CommandStep, FleetStep,
              listPageVars
<1> QED BY <1>1, <1>2

\* No row of a gateway's latest frames is taken away or moved against the others while one
\* gateway and window stay chosen, and none slides in above a busy user's rows unasked: for
\* any number of frames, requests and pages.
THEOREM RowsNeverMove == PagesSpec => RowsStay
<1>1. PagesInit => FramesInv
  BY FramesInitially DEF PagesInit
<1>2. FramesInv /\ [PagesNext]_pagesVars => FramesInv'
  BY FramesKept, OthersLeaveFrames
<1>3. FramesInv /\ [PagesNext]_pagesVars =>
        [scope' = scope =>
           \/ KeptBy(0)
           \/ KeptBy(Len(frames') - Len(frames)) /\ (busy => ShowPending)]_framesVars
  BY FramesKept, OthersLeaveFrames
<1> QED BY <1>1, <1>2, <1>3, PTL DEF PagesSpec, RowsStay

-----------------------------------------------------------------------------
(* Alarms and bills: the newest request, if no later one was answered before  *)
(* it, is for the controls as they stand.                                     *)

AskedFor(r) == IsList(r) /\ \A i \in 1 .. Len(r) : DOMAIN r[i] = {"q", "late"}

Newest(r, q) == AskedFor(r) /\ (r # <<>> => r[Len(r)].late \/ r[Len(r)].q = q)

\* One more request.
LEMMA OneMore ==
  ASSUME NEW r, AskedFor(r), NEW x, NEW l, NEW q, l \/ x = q
  PROVE  LET s == Append(r, [q |-> x, late |-> l]) IN Newest(s, q) /\ s # <<>>
<1> DEFINE e == [q |-> x, late |-> l]
<1>1. PICK n \in Nat : \E S : r \in [1 .. n -> S]
  BY DEF AskedFor, IsList
<1>2. PICK S : r \in [1 .. n -> S]
  BY <1>1
<1> DEFINE A == S \cup {e}
<1>3. r \in Seq(A) /\ Len(r) = n /\ e \in A
  BY <1>2
<1>4. DOMAIN e = {"q", "late"} /\ e.q = x /\ e.late = l
  OBVIOUS
<1> HIDE DEF A, e
<1>5. /\ Append(r, e) \in Seq(A) /\ Len(Append(r, e)) = n + 1
      /\ \A i \in 1 .. n : Append(r, e)[i] = r[i]
      /\ Append(r, e)[n + 1] = e
  BY <1>3, AppendProperties
<1>6. Append(r, e) \in [1 .. n + 1 -> A] /\ n + 1 \in Nat
  BY <1>5, LenProperties
<1>7. IsList(Append(r, e))
  BY <1>6 DEF IsList
<1>8. ASSUME NEW i \in 1 .. n + 1 PROVE DOMAIN Append(r, e)[i] = {"q", "late"}
  <2>1. CASE i = n + 1
    BY <2>1, <1>4, <1>5
  <2>2. CASE i # n + 1
    <3>1. i \in 1 .. n
      BY <2>2
    <3> QED BY <3>1, <1>3, <1>5 DEF AskedFor
  <2> QED BY <2>1, <2>2
<1>9. Append(r, e) # <<>>
  <2> DEFINE t == Append(r, e)
  <2>1. Len(t) = n + 1
    BY <1>5
  <2> HIDE DEF t
  <2>2. t # <<>>
    BY <2>1, <1>3
  <2> QED BY <2>2 DEF t
<1> HIDE DEF AskedFor
<1>10. AskedFor(Append(r, e))
  BY <1>5, <1>7, <1>8 DEF AskedFor
<1> QED BY <1>4, <1>5, <1>9, <1>10 DEF Newest, e

\* An answer: when it is the last that is waited for, it is of the newest request.
LEMMA OneLess ==
  ASSUME NEW r, NEW q, Newest(r, q), NEW i \in DOMAIN r
  PROVE  /\ Newest(Arrived(r, i), q)
         /\ Arrived(r, i) = <<>> => r[i].late \/ r[i].q = q
<1>1. Len(r) \in Nat /\ DOMAIN r = 1 .. Len(r)
  BY ListLength DEF Newest, AskedFor
<1> DEFINE n == Len(r) - 1
           a == Arrived(r, i)
           x(j) == IF j < i THEN [r[j] EXCEPT !.late = TRUE] ELSE r[j + 1]
<1>2. n \in Nat /\ a = [j \in 1 .. n |-> x(j)]
  BY <1>1 DEF Arrived
<1>3. \A j \in 1 .. n : j \in 1 .. Len(r) /\ j + 1 \in 1 .. Len(r)
  BY <1>1, <1>2
<1>4. \A j \in 1 .. n : DOMAIN x(j) = {"q", "late"} /\ (j < i => x(j).late) /\ (~ (j < i) => x(j) = r[j + 1])
  BY <1>3 DEF Newest, AskedFor
<1> HIDE DEF x
<1>5. a \in [1 .. n -> {x(j) : j \in 1 .. n}] /\ \A j \in 1 .. n : a[j] = x(j)
  BY <1>2
<1>6. IsList(a)
  BY <1>2, <1>5 DEF IsList
<1>7. Len(a) = n
  BY <1>2, <1>5
<1> HIDE DEF a
<1>8. AskedFor(a)
  BY <1>4, <1>5, <1>6, <1>7 DEF AskedFor
<1>9. a # <<>> => a[Len(a)].late \/ a[Len(a)].q = q
  <2> SUFFICES ASSUME a # <<>> PROVE a[n].late \/ a[n].q = q
    BY <1>7
  <2>1. n # 0
    <3>1. a \in Seq({x(j) : j \in 1 .. n})
      BY <1>2, <1>5
    <3> QED BY <3>1, <1>7, EmptySeq
  <2>2. n \in 1 .. n
    BY <2>1, <1>2
  <2>3. CASE n < i
    BY <2>2, <2>3, <1>4, <1>5
  <2>4. CASE ~ (n < i)
    <3>1. a[n] = r[Len(r)] /\ r # <<>>
      BY <2>2, <2>4, <1>1, <1>4, <1>5
    <3> QED BY <3>1 DEF Newest
  <2> QED BY <2>3, <2>4
<1>10. ASSUME a = <<>> PROVE r[i].late \/ r[i].q = q
  <2>1. n = 0
    BY <1>7, <1>10
  <2>2. i = Len(r) /\ r # <<>>
    BY <2>1, <1>1
  <2> QED BY <2>2 DEF Newest
<1> QED BY <1>8, <1>9, <1>10 DEF Newest, a

AlarmsAsked ==
  /\ DOMAIN controls = {"input", "search", "timer", "priority", "status", "page", "size"}
  /\ DOMAIN table = {"rows", "of", "late", "failed", "total", "pages", "loading"}
  /\ controls.timer \/ controls.search = controls.input
  /\ Newest(lists, AlarmQuery(controls))
  /\ lists = <<>> => table.late \/ table.failed \/ table.of = AlarmQuery(controls)

LEMMA AlarmsAskedAtFirst == AlarmsInit => AlarmsAsked
<1> SUFFICES ASSUME AlarmsInit PROVE AlarmsAsked
  OBVIOUS
<1>1. AskedFor(<<>>)
  BY EmptyIsList DEF AskedFor
<1>2. Newest(lists, AlarmQuery(controls)) /\ lists # <<>>
  BY <1>1, OneMore DEF AlarmsInit, Send
<1>3. PICK n \in AlarmSize :
        controls = [input |-> "", search |-> "", timer |-> TRUE, priority |-> "ALL",
                    status |-> "ALL", page |-> 0, size |-> n]
  BY DEF AlarmsInit
<1>4. /\ DOMAIN controls = {"input", "search", "timer", "priority", "status", "page", "size"}
      /\ controls.timer
  BY <1>3
<1>5. DOMAIN table = {"rows", "of", "late", "failed", "total", "pages", "loading"}
  BY DEF AlarmsInit
<1> QED BY <1>2, <1>4, <1>5 DEF AlarmsAsked

\* New controls ask anew when they ask for something else.
LEMMA ControlsAsk ==
  ASSUME AlarmsAsked, NEW c, SetControls(c), DOMAIN c = DOMAIN controls, c.timer \/ c.search = c.input
  PROVE  AlarmsAsked'
<1>1. controls' = c
  BY DEF SetControls
<1>2. CASE AlarmKey(c) = AlarmKey(controls)
  BY <1>1, <1>2 DEF SetControls, AlarmsAsked, AlarmKey
<1>3. CASE AlarmKey(c) # AlarmKey(controls)
  <2>1. lists' = Send(lists, AlarmQuery(c)) /\ table' = [table EXCEPT !.loading = TRUE]
    BY <1>3 DEF SetControls
  <2>2. DOMAIN table' = DOMAIN table
    BY <2>1
  <2>3. Newest(lists', AlarmQuery(c)) /\ lists' # <<>>
    BY <2>1, OneMore DEF AlarmsAsked, Newest, Send
  <2> QED BY <1>1, <2>2, <2>3 DEF AlarmsAsked
<1> QED BY <1>2, <1>3

LEMMA AlarmsAskedKept ==
  ASSUME AlarmsAsked, [AlarmsNext]_alarmVars
  PROVE  AlarmsAsked'
<1>1. ASSUME UNCHANGED <<controls, lists, table>>
      PROVE  AlarmsAsked'
  BY <1>1 DEF AlarmsAsked
<1> DEFINE Kept(c) == DOMAIN c = DOMAIN controls /\ (c.timer \/ c.search = c.input)
<1>2. ASSUME NEW c, Kept(c), SetControls(c)
      PROVE  AlarmsAsked'
  BY <1>2, ControlsAsk
<1> DEFINE cs == controls
<1>3. /\ DOMAIN cs = {"input", "search", "timer", "priority", "status", "page", "size"}
      /\ cs.timer \/ cs.search = cs.input
  BY DEF AlarmsAsked
<1>4. CASE \E w \in AlarmWord : TypeWord(w)
  <2>1. PICK w \in AlarmWord : SetControls([controls EXCEPT !.input = w, !.timer = TRUE])
    BY <1>4 DEF TypeWord
  <2> QED BY <2>1, <1>2, <1>3
<1>5. CASE SearchStarts
  <2>1. SetControls([controls EXCEPT !.search = controls.input, !.page = 0, !.timer = FALSE])
    BY <1>5 DEF SearchStarts
  <2> QED BY <2>1, <1>2, <1>3
<1>6. CASE \E p \in PriorityPill : PickPriority(p)
  <2>1. PICK p \in PriorityPill : SetControls([controls EXCEPT !.priority = p, !.page = 0])
    BY <1>6 DEF PickPriority
  <2> QED BY <2>1, <1>2, <1>3
<1>7. CASE \E s \in StatusPill : PickStatus(s)
  <2>1. PICK s \in StatusPill : SetControls([controls EXCEPT !.status = s, !.page = 0])
    BY <1>7 DEF PickStatus
  <2> QED BY <2>1, <1>2, <1>3
<1>8. CASE \E n \in AlarmSize : PickSize(n)
  <2>1. PICK n \in AlarmSize : SetControls([controls EXCEPT !.size = n, !.page = 0])
    BY <1>8 DEF PickSize
  <2> QED BY <2>1, <1>2, <1>3
<1>9. CASE CardAll
  <2>1. SetControls([controls EXCEPT !.priority = "ALL", !.status = "ALL"])
    BY <1>9 DEF CardAll
  <2> QED BY <2>1, <1>2, <1>3
<1>10. CASE CardOpen
  <2>1. SetControls([controls EXCEPT !.status = "OPEN"])
    BY <1>10 DEF CardOpen
  <2> QED BY <2>1, <1>2, <1>3
<1>11. CASE CardMedium
  <2>1. SetControls([controls EXCEPT !.priority = "MEDIUM"])
    BY <1>11 DEF CardMedium
  <2> QED BY <2>1, <1>2, <1>3
<1>12. CASE ResetFilters
  <2>1. SetControls([controls EXCEPT !.search = "", !.priority = "ALL", !.status = "ALL", !.page = 0,
                                     !.input = "", !.timer = @ \/ controls.input # ""])
    BY <1>12 DEF ResetFilters
  <2> QED BY <2>1, <1>2, <1>3
<1>13. CASE RefreshAlarms
  <2>1. /\ controls' = controls /\ lists' = Send(lists, AlarmQuery(controls))
        /\ table' = [table EXCEPT !.loading = TRUE]
    BY <1>13 DEF RefreshAlarms
  <2>2. Newest(lists', AlarmQuery(controls)) /\ lists' # <<>>
    BY <2>1, OneMore DEF AlarmsAsked, Newest, Send
  <2> QED BY <2>1, <2>2 DEF AlarmsAsked
<1>14. CASE FirstAlarms \/ PreviousAlarms \/ NextAlarms \/ LastAlarms
  <2>1. \E p : SetControls([controls EXCEPT !.page = p])
    BY <1>14 DEF FirstAlarms, PreviousAlarms, NextAlarms, LastAlarms
  <2>2. PICK p : SetControls([controls EXCEPT !.page = p])
    BY <2>1
  <2> QED BY <2>2, <1>2, <1>3
<1>15. ASSUME NEW i \in DOMAIN lists, AlarmsArrive(i)
       PROVE  AlarmsAsked'
  <2>1. controls' = controls /\ lists' = Arrived(lists, i)
    BY <1>15 DEF AlarmsArrive
  <2>2. /\ DOMAIN table' = DOMAIN table /\ table'.of = lists[i].q /\ table'.late = lists[i].late
    BY <1>15 DEF AlarmsArrive, AlarmsAsked
  <2>3. /\ Newest(lists', AlarmQuery(controls))
        /\ lists' = <<>> => lists[i].late \/ lists[i].q = AlarmQuery(controls)
    BY <2>1, OneLess DEF AlarmsAsked
  <2> QED BY <2>1, <2>2, <2>3 DEF AlarmsAsked
<1>16. ASSUME NEW i \in DOMAIN lists, AlarmsFail(i)
       PROVE  AlarmsAsked'
  <2>1. controls' = controls /\ lists' = Arrived(lists, i) /\ table' = [table EXCEPT !.loading = FALSE, !.failed = TRUE]
    BY <1>16 DEF AlarmsFail
  <2>2. DOMAIN table' = DOMAIN table /\ table'.failed
    BY <2>1 DEF AlarmsAsked
  <2>3. Newest(lists', AlarmQuery(controls))
    BY <2>1, OneLess DEF AlarmsAsked
  <2> QED BY <2>1, <2>2, <2>3 DEF AlarmsAsked
<1>17. ASSUME NEW r \in resolving, ResolveEnds(r)
       PROVE  AlarmsAsked'
  <2>1. controls' = controls
    BY <1>17 DEF ResolveEnds
  <2>2. CASE UNCHANGED <<lists, table>>
    BY <2>1, <2>2, <1>1
  <2>3. CASE ~ UNCHANGED <<lists, table>>
    <3>1. /\ lists' = Append(lists, [q |-> r.q, late |-> r.q # AlarmQuery(controls)])
          /\ table' = [table EXCEPT !.loading = TRUE]
      BY <1>17, <2>3 DEF ResolveEnds
    <3>2. Newest(lists', AlarmQuery(controls)) /\ lists' # <<>>
      <4> DEFINE late == r.q # AlarmQuery(controls)
      <4>1. late \/ r.q = AlarmQuery(controls)
        OBVIOUS
      <4>2. lists' = Append(lists, [q |-> r.q, late |-> late])
        BY <3>1
      <4> HIDE DEF late
      <4> QED BY <4>1, <4>2, OneMore DEF AlarmsAsked, Newest
    <3> QED BY <2>1, <3>1, <3>2 DEF AlarmsAsked
  <2> QED BY <2>2, <2>3
<1>18. CASE \/ \E a \in Members(table.rows) : SelectAlarm(a)
            \/ \E alone \in BOOLEAN : DetailArrives(alone)
            \/ \E t \in {"overview", "resolution"} : OpenAlertTab(t)
            \/ OpenPhoto \/ ClosePhoto \/ ResolveAlert \/ ReopenAlert \/ CloseAlert
            \/ UNCHANGED alarmVars
  BY <1>1, <1>18 DEF SelectAlarm, DetailArrives, OpenAlertTab, OpenPhoto, ClosePhoto, ResolveAlert, ReopenAlert,
                     CloseAlert, InAlertDrawer, alarmVars
<1> QED BY <1>4, <1>5, <1>6, <1>7, <1>8, <1>9, <1>10, <1>11, <1>12, <1>13, <1>14, <1>15, <1>16, <1>17, <1>18
        DEF AlarmsNext

LEMMA AlarmsAreAsked == AlarmsAsked => AlarmsForAsked
BY DEF AlarmsAsked, AlarmsForAsked

BillsAsked ==
  /\ DOMAIN choice = {"input", "search", "timer", "period", "status", "city", "page", "size"}
  /\ DOMAIN invoices = {"rows", "of", "late", "failed", "total", "pages", "stats", "loading"}
  /\ choice.timer \/ choice.search = choice.input
  /\ Newest(billLists, BillQuery(choice))
  /\ billLists = <<>> => invoices.late \/ invoices.failed \/ invoices.of = BillQuery(choice)

LEMMA BillsAskedAtFirst == BillingInit => BillsAsked
<1> SUFFICES ASSUME BillingInit PROVE BillsAsked
  OBVIOUS
<1>1. AskedFor(<<>>)
  BY EmptyIsList DEF AskedFor
<1>2. Newest(billLists, BillQuery(choice)) /\ billLists # <<>>
  BY <1>1, OneMore DEF BillingInit, Send
<1>3. PICK n \in BillSize :
        choice = [input |-> "", search |-> "", timer |-> TRUE, period |-> "all-time",
                  status |-> "ALL", city |-> "ALL", page |-> 0, size |-> n]
  BY DEF BillingInit
<1>4. /\ DOMAIN choice = {"input", "search", "timer", "period", "status", "city", "page", "size"}
      /\ choice.timer
  BY <1>3
<1>5. DOMAIN invoices = {"rows", "of", "late", "failed", "total", "pages", "stats", "loading"}
  BY DEF BillingInit
<1> QED BY <1>2, <1>4, <1>5 DEF BillsAsked

LEMMA ChoiceAsks ==
  ASSUME BillsAsked, NEW c, SetChoice(c), DOMAIN c = DOMAIN choice, c.timer \/ c.search = c.input
  PROVE  BillsAsked'
<1>1. choice' = c
  BY DEF SetChoice
<1>2. CASE BillQuery(c) = BillQuery(choice)
  BY <1>1, <1>2 DEF SetChoice, BillsAsked
<1>3. CASE BillQuery(c) # BillQuery(choice)
  <2>1. billLists' = Send(billLists, BillQuery(c)) /\ invoices' = [invoices EXCEPT !.loading = TRUE]
    BY <1>3 DEF SetChoice
  <2>2. DOMAIN invoices' = DOMAIN invoices
    BY <2>1
  <2>3. Newest(billLists', BillQuery(c)) /\ billLists' # <<>>
    BY <2>1, OneMore DEF BillsAsked, Newest, Send
  <2> QED BY <1>1, <2>2, <2>3 DEF BillsAsked
<1> QED BY <1>2, <1>3

LEMMA BillsAskedKept ==
  ASSUME BillsAsked, [BillingNext]_billVars
  PROVE  BillsAsked'
<1>1. ASSUME UNCHANGED <<choice, billLists, invoices>>
      PROVE  BillsAsked'
  BY <1>1 DEF BillsAsked
<1> DEFINE cs == choice
           Kept(c) == DOMAIN c = DOMAIN cs /\ (c.timer \/ c.search = c.input)
<1>2. ASSUME NEW c, Kept(c), SetChoice(c)
      PROVE  BillsAsked'
  BY <1>2, ChoiceAsks
<1>3. /\ DOMAIN cs = {"input", "search", "timer", "period", "status", "city", "page", "size"}
      /\ cs.timer \/ cs.search = cs.input
  BY DEF BillsAsked
<1>4. CASE \E w \in BillWord : TypeBill(w)
  <2>1. PICK w \in BillWord : SetChoice([choice EXCEPT !.input = w, !.timer = TRUE])
    BY <1>4 DEF TypeBill
  <2> QED BY <2>1, <1>2, <1>3
<1>5. CASE BillSearchStarts
  <2>1. SetChoice([choice EXCEPT !.search = choice.input, !.page = 0, !.timer = FALSE])
    BY <1>5 DEF BillSearchStarts
  <2> QED BY <2>1, <1>2, <1>3
<1>6. CASE \E p \in Period : PickPeriod(p)
  <2>1. PICK p \in Period : SetChoice([choice EXCEPT !.period = p, !.page = 0])
    BY <1>6 DEF PickPeriod
  <2> QED BY <2>1, <1>2, <1>3
<1>7. CASE \E s \in BillStatus : PickBillStatus(s)
  <2>1. PICK s \in BillStatus : SetChoice([choice EXCEPT !.status = s, !.page = 0])
    BY <1>7 DEF PickBillStatus
  <2> QED BY <2>1, <1>2, <1>3
<1>8. CASE \E c \in BillCity : PickCity(c)
  <2>1. PICK c \in BillCity : SetChoice([choice EXCEPT !.city = c, !.page = 0])
    BY <1>8 DEF PickCity
  <2> QED BY <2>1, <1>2, <1>3
<1>9. CASE \E n \in BillSize : PickBillSize(n)
  <2>1. PICK n \in BillSize : SetChoice([choice EXCEPT !.size = n, !.page = 0])
    BY <1>9 DEF PickBillSize
  <2> QED BY <2>1, <1>2, <1>3
<1>10. CASE CardTotal \/ CardOverdue
  <2>1. \E s : SetChoice([choice EXCEPT !.status = s])
    BY <1>10 DEF CardTotal, CardOverdue
  <2>2. PICK s : SetChoice([choice EXCEPT !.status = s])
    BY <2>1
  <2> QED BY <2>2, <1>2, <1>3
<1>11. CASE ResetBills
  <2>1. SetChoice([choice EXCEPT !.search = "", !.status = "ALL", !.city = "ALL", !.page = 0,
                                 !.period = "all-time", !.input = "",
                                 !.timer = @ \/ choice.input # ""])
    BY <1>11 DEF ResetBills
  <2> QED BY <2>1, <1>2, <1>3
<1>12. CASE RefreshBills
  <2>1. /\ choice' = choice /\ billLists' = Send(billLists, BillQuery(choice))
        /\ invoices' = [invoices EXCEPT !.loading = TRUE]
    BY <1>12 DEF RefreshBills
  <2>2. Newest(billLists', BillQuery(choice)) /\ billLists' # <<>>
    BY <2>1, OneMore DEF BillsAsked, Newest, Send
  <2> QED BY <2>1, <2>2 DEF BillsAsked
<1>13. CASE FirstBills \/ PreviousBills \/ NextBills \/ LastBills
  <2>1. \E p : SetChoice([choice EXCEPT !.page = p])
    BY <1>13 DEF FirstBills, PreviousBills, NextBills, LastBills
  <2>2. PICK p : SetChoice([choice EXCEPT !.page = p])
    BY <2>1
  <2> QED BY <2>2, <1>2, <1>3
<1>14. ASSUME NEW i \in DOMAIN billLists, BillsArrive(i)
       PROVE  BillsAsked'
  <2>1. choice' = choice /\ billLists' = Arrived(billLists, i)
    BY <1>14 DEF BillsArrive
  <2>2. /\ DOMAIN invoices' = DOMAIN invoices
        /\ invoices'.of = billLists[i].q /\ invoices'.late = billLists[i].late
    BY <1>14 DEF BillsArrive, BillsAsked
  <2>3. /\ Newest(billLists', BillQuery(choice))
        /\ billLists' = <<>> => billLists[i].late \/ billLists[i].q = BillQuery(choice)
    BY <2>1, OneLess DEF BillsAsked
  <2> QED BY <2>1, <2>2, <2>3 DEF BillsAsked
<1>15. ASSUME NEW i \in DOMAIN billLists, BillsFail(i)
       PROVE  BillsAsked'
  <2>1. /\ choice' = choice /\ billLists' = Arrived(billLists, i)
        /\ invoices' = [invoices EXCEPT !.loading = FALSE, !.failed = TRUE]
    BY <1>15 DEF BillsFail
  <2>2. DOMAIN invoices' = DOMAIN invoices /\ invoices'.failed
    BY <2>1 DEF BillsAsked
  <2>3. Newest(billLists', BillQuery(choice))
    BY <2>1, OneLess DEF BillsAsked
  <2> QED BY <2>1, <2>2, <2>3 DEF BillsAsked
<1>16. CASE \/ \E b \in Members(invoices.rows) : SelectBill(b)
            \/ BillDetailArrives
            \/ \E t \in {"overview", "settlement"} : OpenBillTab(t)
            \/ PayBill \/ RevertBill \/ CloseBill
            \/ UNCHANGED billVars
  BY <1>1, <1>16 DEF SelectBill, BillDetailArrives, OpenBillTab, PayBill, RevertBill, CloseBill, InDrawer, billVars
<1> QED BY <1>4, <1>5, <1>6, <1>7, <1>8, <1>9, <1>10, <1>11, <1>12, <1>13, <1>14, <1>15, <1>16 DEF BillingNext

LEMMA BillsAreAsked == BillsAsked => BillsForAsked
BY DEF BillsAsked, BillsForAsked

-----------------------------------------------------------------------------
(* Households: a request that is on its way is for the controls, and a page   *)
(* that was found empty is the first.                                         *)
HousesAsked ==
  /\ DOMAIN wantedHouses = {"input", "search", "timer", "site", "sort", "page"}
  /\ wantedHouses.page \in Nat
  /\ houseLoad = <<>> \/ houseLoad = <<HouseQuery(wantedHouses)>>
  /\ DOMAIN houses = {"rows", "of", "total", "pages", "drawn", "failed"}
  /\ houseLoad = <<>> /\ ~houses.failed =>
       /\ houses.of = HouseQuery(wantedHouses)
       /\ houses.rows = <<>> => wantedHouses.page = 0

LEMMA HousesAskedAtFirst == HouseholdsInit => HousesAsked
BY DEF HouseholdsInit, HousesAsked

LEMMA AskedAgain ==
  ASSUME HousesAsked, NEW c, SetAsked(c), DOMAIN c = DOMAIN wantedHouses, c.page \in Nat
  PROVE  HousesAsked'
<1>1. wantedHouses' = c
  BY DEF SetAsked
<1>2. CASE HouseQuery(c) = HouseQuery(wantedHouses)
  <2>1. c.page = wantedHouses.page
    BY <1>2 DEF HouseQuery
  <2> QED BY <1>1, <1>2, <2>1 DEF SetAsked, HousesAsked
<1>3. CASE HouseQuery(c) # HouseQuery(wantedHouses)
  BY <1>1, <1>3 DEF SetAsked, HousesAsked, LoadHouses
<1> QED BY <1>2, <1>3

LEMMA HousesAskedKept ==
  ASSUME HousesAsked, [HouseholdsNext]_houseVars
  PROVE  HousesAsked'
<1>1. ASSUME UNCHANGED <<wantedHouses, houseLoad, houses>>
      PROVE  HousesAsked'
  BY <1>1 DEF HousesAsked
<1> DEFINE ws == wantedHouses
           Kept(c) == DOMAIN c = DOMAIN ws /\ c.page \in Nat
<1>2. ASSUME NEW c, Kept(c), SetAsked(c)
      PROVE  HousesAsked'
  BY <1>2, AskedAgain
<1>3. DOMAIN ws = {"input", "search", "timer", "site", "sort", "page"} /\ ws.page \in Nat
  BY DEF HousesAsked
<1>4. CASE \E w \in HouseWord : TypeHouse(w)
  <2>1. PICK w \in HouseWord : SetAsked([wantedHouses EXCEPT !.input = w, !.timer = TRUE])
    BY <1>4 DEF TypeHouse
  <2> QED BY <2>1, <1>2, <1>3
<1>5. CASE HouseSearchStarts
  <2>1. SetAsked([wantedHouses EXCEPT !.search = wantedHouses.input, !.page = 0, !.timer = FALSE])
    BY <1>5 DEF HouseSearchStarts
  <2> QED BY <2>1, <1>2, <1>3
<1>6. CASE \/ \E s \in DOMAIN SiteBelow \cup {"ALL"} : PickHouseSite(s)
           \/ \E s \in DOMAIN SiteBelow : CardOfSite(s)
  <2>1. \E s : SetAsked([wantedHouses EXCEPT !.site = s, !.page = 0])
    BY <1>6 DEF PickHouseSite, CardOfSite
  <2>2. PICK s : SetAsked([wantedHouses EXCEPT !.site = s, !.page = 0])
    BY <2>1
  <2> QED BY <2>2, <1>2, <1>3
<1>7. CASE SortHouses
  <2>1. SetAsked([wantedHouses EXCEPT !.sort = IF @ = "asc" THEN "desc" ELSE "asc", !.page = 0])
    BY <1>7 DEF SortHouses
  <2> QED BY <2>1, <1>2, <1>3
<1>8. CASE ResetHouses
  <2>1. SetAsked([wantedHouses EXCEPT !.search = NoWord, !.site = "ALL", !.sort = "none",
                                      !.page = 0, !.input = NoWord,
                                      !.timer = @ \/ wantedHouses.input # NoWord])
    BY <1>8 DEF ResetHouses
  <2> QED BY <2>1, <1>2, <1>3
<1>9. CASE PreviousHouses
  <2>1. wantedHouses.page # 0 /\ SetAsked([wantedHouses EXCEPT !.page = @ - 1])
    BY <1>9 DEF PreviousHouses
  <2> QED BY <2>1, <1>2, <1>3
<1>10. CASE NextHouses
  <2>1. SetAsked([wantedHouses EXCEPT !.page = @ + 1])
    BY <1>10 DEF NextHouses
  <2> QED BY <2>1, <1>2, <1>3
<1>11. CASE RetryHouses \/ RefreshHouses
  <2>1. LoadHouses(wantedHouses) /\ wantedHouses' = wantedHouses
    BY <1>11 DEF RetryHouses, RefreshHouses
  <2> QED BY <2>1 DEF HousesAsked, LoadHouses
<1>12. ASSUME NEW sortable \in BOOLEAN, HousesArrive(sortable)
       PROVE  HousesAsked'
  <2> DEFINE q == houseLoad[1]  told == HouseList(q, sortable).content
  <2>1. q = HouseQuery(wantedHouses) /\ q.page = wantedHouses.page
    BY <1>12 DEF HousesArrive, HousesAsked, HouseQuery
  <2>2. CASE PastTheEnd(q, told)
    <3>1. wantedHouses' = [wantedHouses EXCEPT !.page = 0] /\ LoadHouses(wantedHouses')
      BY <1>12, <2>2 DEF HousesArrive
    <3> QED BY <3>1 DEF HousesAsked, LoadHouses
  <2>3. CASE ~ PastTheEnd(q, told)
    <3>1. /\ wantedHouses' = wantedHouses /\ houseLoad' = <<>>
          /\ houses'.rows = told /\ houses'.of = q /\ ~ houses'.failed
          /\ DOMAIN houses' = {"rows", "of", "total", "pages", "drawn", "failed"}
      BY <1>12, <2>3 DEF HousesArrive
    <3>2. told = <<>> => wantedHouses.page = 0
      BY <2>1, <2>3 DEF PastTheEnd, HousesAsked
    <3> QED BY <2>1, <3>1, <3>2 DEF HousesAsked
  <2> QED BY <2>2, <2>3
<1>13. CASE HousesFail
  <2>1. houses' = [houses EXCEPT !.drawn = TRUE, !.failed = TRUE] /\ wantedHouses' = wantedHouses /\ houseLoad' = <<>>
    BY <1>13 DEF HousesFail
  <2> QED BY <2>1 DEF HousesAsked
<1>14. CASE \/ \E r \in counts.sent : CountsRead(r) \/ CountsArrive(r) \/ CountsFail(r)
            \/ CopyRunsOut
            \/ \E i \in DOMAIN register : Leaves(i)
            \/ \E h \in Members(HouseholdRows) : SelectHouse(h)
            \/ \E t \in {"overview", "hardware", "billing"} : OpenHouseTab(t)
            \/ \E p \in HousePart : RetryPart(p)
            \/ CloseHouse
            \/ \E r \in partLoads : PartRead(r) \/ HousePartArrives(r) \/ HousePartFails(r)
            \/ \E m \in houseMeters : \E n \in ChangesOf(m) : MeterChanges(m, n)
            \/ UNCHANGED houseVars
  BY <1>1, <1>14 DEF CountsRead, CountsArrive, CountsFail, CopyRunsOut, Leaves, SelectHouse, OpenHouseTab, RetryPart,
       CloseHouse, PartRead, HousePartArrives, HousePartFails, MeterChanges, AskFor, ToHouseDrawer, houseVars
<1> QED BY <1>4, <1>5, <1>6, <1>7, <1>8, <1>9, <1>10, <1>11, <1>12, <1>13, <1>14 DEF HouseholdsNext

LEMMA HousesAreAsked == HousesAsked => HousesForAsked
BY DEF HousesAsked, HousesForAsked

-----------------------------------------------------------------------------
(* The counts above the households: what a live request was told is no older  *)
(* than the last Refresh, or nothing was refreshed yet.                       *)

\* Counts that were told, or none, of so many households at most.
AtMost(told, n) == told = <<>> \/ \E c : told = <<c>> /\ c.total \in Nat /\ c.total <= n

CountsInv ==
  /\ IsList(register) /\ Len(register) <= counts.since
  /\ counts.since \in Nat /\ counts.since <= Len(HouseholdRows)
  /\ DOMAIN counts = {"sent", "copy", "shown", "since", "failed"}
  /\ AtMost(counts.copy, Len(HouseholdRows))
  /\ \A r \in counts.sent :
       /\ DOMAIN r = {"refresh", "live", "told"}
       /\ r.told # <<>> => r.live
       /\ r.live => r.refresh \/ counts.since = Len(HouseholdRows)
       /\ AtMost(r.told, counts.since)
  /\ (\A r \in counts.sent : ~ r.live) => counts.failed \/ AtMost(counts.shown, counts.since)

LEMMA RowsAreList == IsList(HouseholdRows) /\ Len(HouseholdRows) \in Nat
<1> DEFINE S == Members(HouseholdRows)
<1>1. HouseholdRows \in Seq(S)
  BY HouseholdAssumption
<1> HIDE DEF S
<1>2. HouseholdRows \in [1 .. Len(HouseholdRows) -> S] /\ Len(HouseholdRows) \in Nat
  BY <1>1, LenProperties
<1> QED BY <1>2 DEF IsList

LEMMA CountsInitially == HouseholdsInit => CountsInv
<1> SUFFICES ASSUME HouseholdsInit PROVE CountsInv
  OBVIOUS
<1>1. /\ register = HouseholdRows
      /\ counts = [sent |-> {[refresh |-> FALSE, live |-> TRUE, told |-> <<>>]}, copy |-> <<>>,
                   shown |-> <<>>, since |-> Len(HouseholdRows), failed |-> FALSE]
  BY DEF HouseholdsInit
<1> QED BY <1>1, RowsAreList DEF CountsInv, AtMost

\* Whoever counts now counts no more than there were at the last Refresh.
LEMMA CountedNow == ASSUME CountsInv PROVE CountsNow.total = Len(register) /\ AtMost(<<CountsNow>>, counts.since)
<1>1. CountsNow.total = Len(register)
  BY DEF CountsNow
<1>2. Len(register) \in Nat
  BY ListLength DEF CountsInv
<1> DEFINE c == CountsNow
<1>3. c.total \in Nat /\ c.total <= counts.since
  BY <1>1, <1>2 DEF CountsInv
<1> HIDE DEF c
<1>4. AtMost(<<c>>, counts.since)
  BY <1>3 DEF AtMost
<1> QED BY <1>1, <1>4 DEF c

LEMMA CountsKept ==
  ASSUME CountsInv, [HouseholdsNext]_houseVars
  PROVE  CountsInv'
<1>1. ASSUME UNCHANGED <<register, counts>>
      PROVE  CountsInv'
  BY <1>1 DEF CountsInv
<1>2. CASE RefreshHouses
  <2> DEFINE mine == [refresh |-> TRUE, live |-> TRUE, told |-> <<>>]
             given == {[r EXCEPT !.live = FALSE] : r \in {k \in counts.sent : k.told = <<>>}}
             now == CountsNow.total
  <2>1. /\ counts' = [counts EXCEPT !.sent = given \cup {mine}, !.since = now, !.failed = FALSE]
        /\ register' = register
    BY <1>2 DEF RefreshHouses, PressHouse
  <2>2. now = Len(register) /\ Len(register) \in Nat
    BY CountedNow, ListLength DEF CountsInv
  <2> HIDE DEF now
  <2>3. \A r \in given : DOMAIN r = {"refresh", "live", "told"} /\ ~ r.live /\ r.told = <<>>
    BY DEF CountsInv
  <2>4. DOMAIN mine = {"refresh", "live", "told"} /\ mine.live /\ mine.refresh /\ mine.told = <<>>
    OBVIOUS
  <2> HIDE DEF given, mine
  <2>5. /\ DOMAIN counts' = {"sent", "copy", "shown", "since", "failed"}
        /\ counts'.sent = given \cup {mine} /\ counts'.since = now
        /\ counts'.copy = counts.copy
    BY <2>1 DEF CountsInv
  <2>6. now <= Len(HouseholdRows)
    BY <2>2, RowsAreList DEF CountsInv
  <2>7. ~ (\A r \in counts'.sent : ~ r.live)
    BY <2>4, <2>5
  <2>8. \A r \in counts'.sent :
          /\ DOMAIN r = {"refresh", "live", "told"}
          /\ r.told # <<>> => r.live
          /\ r.live => r.refresh \/ counts'.since = Len(HouseholdRows)
          /\ AtMost(r.told, counts'.since)
    BY <2>3, <2>4, <2>5 DEF AtMost
  <2> QED BY <2>1, <2>2, <2>5, <2>6, <2>7, <2>8 DEF CountsInv
<1>3. ASSUME NEW r \in counts.sent, CountsRead(r)
      PROVE  CountsInv'
  <2> DEFINE told == IF FromCopy(r) THEN counts.copy ELSE <<CountsNow>>
             next == IF r.live THEN {[r EXCEPT !.told = told]} ELSE {}
  <2>1. /\ counts' = [counts EXCEPT !.sent = (@ \ {r}) \cup next, !.copy = told]
        /\ register' = register
    BY <1>3 DEF CountsRead
  <2>2. AtMost(told, Len(HouseholdRows)) /\ (r.live => AtMost(told, counts.since))
    <3>1. CASE FromCopy(r)
      BY <3>1 DEF FromCopy, CountsInv
    <3>2. CASE ~ FromCopy(r)
      <4>1. AtMost(<<CountsNow>>, counts.since)
        BY CountedNow
      <4>2. AtMost(<<CountsNow>>, Len(HouseholdRows))
        <5>1. PICK c : <<CountsNow>> = <<c>> /\ c.total \in Nat /\ c.total <= counts.since
          BY <4>1 DEF AtMost
        <5>2. c.total <= Len(HouseholdRows)
          BY <5>1, RowsAreList DEF CountsInv
        <5> QED BY <5>1, <5>2 DEF AtMost
      <4> QED BY <3>2, <4>1, <4>2
    <3> QED BY <3>1, <3>2
  <2> HIDE DEF told
  <2>3. \A s \in next : /\ DOMAIN s = {"refresh", "live", "told"} /\ s.live /\ s.told = told
                        /\ s.refresh = r.refresh /\ r.live
    BY DEF CountsInv
  <2>4. r.live => next # {}
    OBVIOUS
  <2> HIDE DEF next
  <2>5. /\ DOMAIN counts' = {"sent", "copy", "shown", "since", "failed"}
        /\ counts'.sent = (counts.sent \ {r}) \cup next /\ counts'.since = counts.since
        /\ counts'.copy = told /\ counts'.shown = counts.shown /\ counts'.failed = counts.failed
    BY <2>1 DEF CountsInv
  <2>6. (\A s \in counts'.sent : ~ s.live) => (\A s \in counts.sent : ~ s.live)
    BY <2>3, <2>4, <2>5
  <2>7. \A s \in counts'.sent :
          /\ DOMAIN s = {"refresh", "live", "told"}
          /\ s.told # <<>> => s.live
          /\ s.live => s.refresh \/ counts'.since = Len(HouseholdRows)
          /\ AtMost(s.told, counts'.since)
    BY <2>2, <2>3, <2>5 DEF CountsInv
  <2> QED BY <2>1, <2>2, <2>5, <2>6, <2>7 DEF CountsInv
<1>4. ASSUME NEW r \in counts.sent, CountsArrive(r)
      PROVE  CountsInv'
  <2>1. /\ counts' = [counts EXCEPT !.sent = @ \ {r}, !.shown = r.told]
        /\ register' = register
    BY <1>4 DEF CountsArrive
  <2>2. /\ DOMAIN counts' = {"sent", "copy", "shown", "since", "failed"}
        /\ counts'.sent = counts.sent \ {r} /\ counts'.since = counts.since
        /\ counts'.copy = counts.copy /\ counts'.shown = r.told
    BY <2>1 DEF CountsInv
  <2> QED BY <2>1, <2>2 DEF CountsInv
<1>5. ASSUME NEW r \in counts.sent, CountsFail(r)
      PROVE  CountsInv'
  <2>1. /\ counts' = [counts EXCEPT !.sent = @ \ {r}, !.failed = @ \/ r.live]
        /\ register' = register
    BY <1>5 DEF CountsFail
  <2>2. /\ DOMAIN counts' = {"sent", "copy", "shown", "since", "failed"}
        /\ counts'.sent = counts.sent \ {r} /\ counts'.since = counts.since
        /\ counts'.copy = counts.copy /\ counts'.shown = counts.shown
        /\ counts'.failed = (counts.failed \/ r.live)
    BY <2>1 DEF CountsInv
  <2> QED BY <2>1, <2>2 DEF CountsInv
<1>6. CASE CopyRunsOut
  <2>1. counts' = [counts EXCEPT !.copy = <<>>] /\ register' = register
    BY <1>6 DEF CopyRunsOut
  <2>2. /\ DOMAIN counts' = {"sent", "copy", "shown", "since", "failed"}
        /\ counts'.sent = counts.sent /\ counts'.since = counts.since
        /\ counts'.copy = <<>> /\ counts'.shown = counts.shown /\ counts'.failed = counts.failed
    BY <2>1 DEF CountsInv
  <2> QED BY <2>1, <2>2 DEF CountsInv, AtMost
<1>7. ASSUME NEW i \in DOMAIN register, Leaves(i)
      PROVE  CountsInv'
  <2> DEFINE n == Len(register) - 1
             x(j) == IF j < i THEN register[j] ELSE register[j + 1]
  <2>1. register' = [j \in 1 .. n |-> x(j)] /\ counts' = counts
    BY <1>7 DEF Leaves
  <2>2. n \in Nat
    BY ListLength DEF CountsInv
  <2> HIDE DEF x
  <2>3. register' \in [1 .. n -> {x(j) : j \in 1 .. n}]
    BY <2>1
  <2>4. IsList(register')
    BY <2>2, <2>3 DEF IsList
  <2>5. Len(register') = n
    BY <2>2, <2>3
  <2>6. Len(register') <= counts.since
    BY <2>2, <2>5 DEF CountsInv
  <2> QED BY <2>1, <2>4, <2>6 DEF CountsInv
<1>8. CASE \/ \E w \in HouseWord : TypeHouse(w)
           \/ HouseSearchStarts
           \/ \E s \in DOMAIN SiteBelow \cup {"ALL"} : PickHouseSite(s)
           \/ \E s \in DOMAIN SiteBelow : CardOfSite(s)
           \/ SortHouses \/ ResetHouses \/ PreviousHouses \/ NextHouses \/ RetryHouses
  BY <1>1, <1>8 DEF TypeHouse, HouseSearchStarts, PickHouseSite, CardOfSite, SortHouses, ResetHouses,
       PreviousHouses, NextHouses, RetryHouses, PressDrawn, PressHouse
<1>9. CASE \/ \E sortable \in BOOLEAN : HousesArrive(sortable)
           \/ HousesFail
           \/ \E h \in Members(HouseholdRows) : SelectHouse(h)
           \/ \E t \in {"overview", "hardware", "billing"} : OpenHouseTab(t)
           \/ \E p \in HousePart : RetryPart(p)
           \/ CloseHouse
           \/ \E r \in partLoads : PartRead(r) \/ HousePartArrives(r) \/ HousePartFails(r)
           \/ \E m \in houseMeters : \E n \in ChangesOf(m) : MeterChanges(m, n)
           \/ UNCHANGED houseVars
  BY <1>1, <1>9 DEF HousesArrive, HousesFail, SelectHouse, OpenHouseTab, RetryPart, CloseHouse, PartRead,
       HousePartArrives, HousePartFails, MeterChanges, AskFor, ToHouseDrawer, houseVars
<1> QED BY <1>2, <1>3, <1>4, <1>5, <1>6, <1>7, <1>8, <1>9 DEF HouseholdsNext

LEMMA CountsAreSince == CountsInv => CountsSince
<1> SUFFICES ASSUME CountsInv, counts.shown # <<>>, ~counts.failed, \A r \in counts.sent : ~r.live
             PROVE  counts.shown[1].total <= counts.since
  BY DEF CountsSince
<1>1. PICK c : counts.shown = <<c>> /\ c.total <= counts.since
  BY DEF CountsInv, AtMost
<1> QED BY <1>1

-----------------------------------------------------------------------------
(* The table of the explorer: what is greyed is on its way, and what is not   *)
(* is of the controls, or there is an error line.                             *)

SheetInv ==
  /\ DOMAIN sheet = {"view", "tab", "site", "status", "input", "search", "pause", "page", "size"}
  /\ DOMAIN sheetRows = {"data", "loading", "error"}
  /\ sheet.pause \/ sheet.search = sheet.input
  /\ Reads(sheet) =>
       \/ sheetRows.loading /\ sheetAsked = <<TableQuery(sheet)>>
       \/ /\ ~ sheetRows.loading /\ sheetAsked = <<>>
          /\ sheetRows.error \/ (sheetRows.data # <<>> /\ sheetRows.data[1].of = TableQuery(sheet))

LEMMA SheetInitially == SheetInit => SheetInv
<1> SUFFICES ASSUME SheetInit PROVE SheetInv
  OBVIOUS
<1> DEFINE s == CHOOSE s \in TableSite : TRUE
           n == CHOOSE n \in TableSize : TRUE
<1>1. sheet = [view |-> "map", tab |-> "all", site |-> s, status |-> "ALL", input |-> "", search |-> "",
               pause |-> FALSE, page |-> 1, size |-> n]
  BY DEF SheetInit
<1>2. sheetRows = [data |-> <<>>, loading |-> FALSE, error |-> FALSE]
  BY DEF SheetInit
<1> QED BY <1>1, <1>2 DEF SheetInv, Reads

\* New controls: the page starts again, and is asked for when it is another one.
LEMMA SheetSet ==
  ASSUME SheetInv, NEW s, SetSheet(s), DOMAIN s = DOMAIN sheet, s.pause \/ s.search = s.input
  PROVE  SheetInv'
<1> DEFINE t == ToFirst(s)
<1>1. DOMAIN t = DOMAIN sheet /\ (t.pause \/ t.search = t.input)
  BY DEF ToFirst, SheetInv
<1>2. sheet' = t /\ Loads(t)
  BY DEF SetSheet
<1> HIDE DEF t
<1>3. CASE AskedBy(t) = AskedBy(sheet)
  <2>1. UNCHANGED <<sheetAsked, sheetRows>>
    BY <1>2, <1>3 DEF Loads
  <2>2. t.view = sheet.view /\ t.tab = sheet.tab /\ TableQuery(t) = TableQuery(sheet)
    BY <1>3 DEF AskedBy
  <2>3. Reads(t) <=> Reads(sheet)
    BY <2>2 DEF Reads
  <2> QED BY <1>1, <1>2, <2>1, <2>2, <2>3 DEF SheetInv
<1>4. CASE AskedBy(t) # AskedBy(sheet) /\ Reads(t)
  <2>1. /\ sheetAsked' = <<TableQuery(t)>>
        /\ sheetRows' = [sheetRows EXCEPT !.loading = TRUE, !.error = FALSE]
    BY <1>2, <1>4 DEF Loads
  <2>2. DOMAIN sheetRows' = DOMAIN sheetRows /\ sheetRows'.loading
    BY <2>1 DEF SheetInv
  <2> QED BY <1>1, <1>2, <2>1, <2>2 DEF SheetInv
<1>5. CASE AskedBy(t) # AskedBy(sheet) /\ ~ Reads(t)
  <2>1. UNCHANGED sheetRows
    BY <1>2, <1>5 DEF Loads
  <2> QED BY <1>1, <1>2, <1>5, <2>1 DEF SheetInv
<1> QED BY <1>3, <1>4, <1>5

LEMMA SheetKept ==
  ASSUME SheetInv, [SheetNext]_sheetVars
  PROVE  SheetInv'
<1> DEFINE Sound(s) == DOMAIN s = DOMAIN sheet /\ (s.pause \/ s.search = s.input)
           sh == sheet
<1>1. ASSUME NEW s, Sound(s), SetSheet(s)
      PROVE  SheetInv'
  BY <1>1, SheetSet
<1>2. ASSUME UNCHANGED <<sheet, sheetAsked, sheetRows>>
      PROVE  SheetInv'
  BY <1>2 DEF SheetInv
<1>3. Sound(sh) /\ DOMAIN sh = {"view", "tab", "site", "status", "input", "search", "pause", "page", "size"}
  BY DEF SheetInv
<1>4. ASSUME NEW x, \/ ShowTable(x) \/ ShowTab(x) \/ TableOfSite(x) \/ TableStatusIs(x) \/ TypeInTable(x)
                    \/ PickTableSize(x)
      PROVE  SheetInv'
  <2>1. CASE ShowTable(x)
    <3>1. SetSheet([sheet EXCEPT !.view = x])
      BY <2>1 DEF ShowTable, PressSheet
    <3> QED BY <3>1, <1>1, <1>3
  <2>2. CASE ShowTab(x)
    <3>1. SetSheet([sheet EXCEPT !.tab = x])
      BY <2>2 DEF ShowTab, PressSheet
    <3> QED BY <3>1, <1>1, <1>3
  <2>3. CASE TableOfSite(x)
    <3>1. SetSheet([sheet EXCEPT !.site = x])
      BY <2>3 DEF TableOfSite, PressSheet
    <3> QED BY <3>1, <1>1, <1>3
  <2>4. CASE TableStatusIs(x)
    <3>1. SetSheet([sheet EXCEPT !.status = x])
      BY <2>4 DEF TableStatusIs, PressSheet
    <3> QED BY <3>1, <1>1, <1>3
  <2>5. CASE TypeInTable(x)
    <3>1. SetSheet([sheet EXCEPT !.input = x, !.pause = TRUE])
      BY <2>5 DEF TypeInTable, PressSheet
    <3> QED BY <3>1, <1>1, <1>3
  <2>6. CASE PickTableSize(x)
    <3>1. SetSheet([sheet EXCEPT !.size = x])
      BY <2>6 DEF PickTableSize, PressSheet
    <3> QED BY <3>1, <1>1, <1>3
  <2> QED BY <1>4, <2>1, <2>2, <2>3, <2>4, <2>5, <2>6
<1>5. CASE TableSearchStarts
  <2>1. SetSheet([sheet EXCEPT !.search = sheet.input, !.pause = FALSE])
    BY <1>5 DEF TableSearchStarts
  <2> QED BY <2>1, <1>1, <1>3
<1>6. CASE FirstSheet \/ PreviousSheet \/ NextSheet \/ EndSheet
  <2>1. \E p : SetSheet([sheet EXCEPT !.page = p])
    BY <1>6 DEF FirstSheet, PreviousSheet, NextSheet, EndSheet, PressSheet
  <2>2. PICK p : SetSheet([sheet EXCEPT !.page = p])
    BY <2>1
  <2> QED BY <2>2, <1>1, <1>3
<1>7. CASE TableArrives
  <2> DEFINE d == MeterPage(sheetAsked[1])
  <2>1. /\ sheetAsked # <<>> /\ sheetAsked' = <<>> /\ sheet' = sheet
        /\ sheetRows' = [sheetRows EXCEPT !.data = <<d>>, !.loading = FALSE]
    BY <1>7 DEF TableArrives
  <2>2. d.of = sheetAsked[1]
    BY DEF MeterPage
  <2> HIDE DEF d
  <2>3. DOMAIN sheetRows' = DOMAIN sheetRows /\ sheetRows'.data = <<d>> /\ ~ sheetRows'.loading
    BY <2>1 DEF SheetInv
  <2>4. Reads(sheet) => d.of = TableQuery(sheet)
    <3> SUFFICES ASSUME Reads(sheet) PROVE d.of = TableQuery(sheet)
      OBVIOUS
    <3>1. sheetAsked = <<TableQuery(sheet)>>
      BY <2>1 DEF SheetInv
    <3> QED BY <2>2, <3>1
  <2>5. DOMAIN <<d>> = {1} /\ <<d>>[1] = d /\ <<d>> # <<>>
    OBVIOUS
  <2> QED BY <2>1, <2>3, <2>4, <2>5 DEF SheetInv
<1>8. CASE TableFails
  <2>1. /\ sheetAsked' = <<>> /\ sheet' = sheet
        /\ sheetRows' = [sheetRows EXCEPT !.error = TRUE, !.loading = FALSE]
    BY <1>8 DEF TableFails
  <2>2. DOMAIN sheetRows' = DOMAIN sheetRows /\ sheetRows'.error /\ ~ sheetRows'.loading
    BY <2>1 DEF SheetInv
  <2> QED BY <2>1, <2>2 DEF SheetInv
<1>9. CASE (\E m \in Members(TableMeters) : MeterRetired(m)) \/ UNCHANGED sheetVars
  BY <1>2, <1>9 DEF MeterRetired, sheetVars
<1> QED BY <1>4, <1>5, <1>6, <1>7, <1>8, <1>9 DEF SheetNext

LEMMA SheetIsAsked == SheetInv => TableForAsked
BY DEF SheetInv, TableForAsked, TableAtRest

-----------------------------------------------------------------------------
(* The canvas of the meters: unless a frame is due, what glides are the groups *)
(* of what the map showed last, and what stands is drawn.                      *)

CanvasFields == {"list", "clustering", "selected", "current", "drawn", "geo", "again", "frame", "anim", "zooming",
                 "target", "plan", "moved", "watchdog", "hidden", "ghost", "missed"}

\* The groups in hand are those of a view.
Fitting(c, v) == c.current = Adopt(c, GroupIn(c, v)).current
Standing(c, v) == Fitting(c, v) /\ c.drawn = [groups |-> c.current, view |-> v, ring |-> Ring(c)]

\* Of a canvas over a map.
Tended(c, m) ==
  /\ DOMAIN c = CanvasFields
  /\ c.anim = "zoom" => c.zooming
  /\ c.anim = "regroup" => ~ c.zooming
  /\ c.anim \in {"none", "zoom", "regroup"}
  /\ c.zooming \/ c.anim = "regroup" => m.pane
  /\ ~ c.zooming /\ ~ c.frame /\ c.missed = "nothing" /\ m.pane =>
       IF c.anim = "regroup" THEN Fitting(c, c.geo) ELSE Standing(c, m.view)

\* What ends a zoom.
Ending(c, m) ==
  /\ c.hidden => c.zooming
  /\ c.zooming => \/ c.watchdog
                  \/ c.anim = "zoom" /\ c.plan /\ c.moved
                  \/ m.idle /\ ~ c.moved

LayerInv ==
  /\ DOMAIN google = {"view", "pane", "idle"}
  /\ Tended(canvas, google) /\ Ending(canvas, google)

LEMMA LayerInitially == LayerInit => LayerInv
<1> SUFFICES ASSUME LayerInit PROVE LayerInv
  OBVIOUS
<1> DEFINE v == CHOOSE v \in MapView : TRUE
<1>1. google = [view |-> v, pane |-> FALSE, idle |-> TRUE]
  BY DEF LayerInit
<1>2. /\ DOMAIN canvas = CanvasFields
      /\ canvas.anim = "none" /\ ~ canvas.zooming /\ ~ canvas.hidden
  BY DEF LayerInit, CanvasFields
<1> QED BY <1>1, <1>2 DEF LayerInv, Tended, Ending

\* A frame is asked for.
LEMMA Scheduled ==
  ASSUME NEW c, NEW m, DOMAIN c = CanvasFields
  PROVE  LET s == Schedule(c)
         IN /\ DOMAIN s = CanvasFields
            /\ \A f \in CanvasFields \ {"frame"} : s[f] = c[f]
            /\ s.zooming \/ s.frame
<1>1. CASE c.frame \/ c.zooming
  BY <1>1 DEF Schedule
<1>2. CASE ~ (c.frame \/ c.zooming)
  BY <1>2 DEF Schedule, CanvasFields
<1> QED BY <1>1, <1>2

\* Fields that drawing looks at.
LEMMA Looks ==
  ASSUME NEW c, NEW d, c.list = d.list, c.clustering = d.clustering, c.current = d.current, NEW v,
         DOMAIN c = CanvasFields, DOMAIN d = CanvasFields
  PROVE  /\ Fitting(c, v) <=> Fitting(d, v)
         /\ c.selected = d.selected => Ring(c) = Ring(d)
<1>1. GroupIn(c, v) = GroupIn(d, v)
  BY DEF GroupIn
<1> DEFINE g == GroupIn(c, v)
<1> HIDE DEF g
<1>2. Adopt(c, g).current = [els |-> g, list |-> c.list] /\ Adopt(d, g).current = [els |-> g, list |-> d.list]
  BY DEF Adopt, CanvasFields
<1>3. Fitting(c, v) <=> Fitting(d, v)
  BY <1>1, <1>2 DEF Fitting, g
<1>4. c.selected = d.selected => Ring(c) = Ring(d)
  BY DEF Ring
<1> QED BY <1>3, <1>4

\* The groups that were taken on.
LEMMA Adopted ==
  ASSUME NEW c, DOMAIN c = CanvasFields, NEW g
  PROVE  LET a == Adopt(c, g)
         IN /\ DOMAIN a = CanvasFields
            /\ a.current = [els |-> g, list |-> c.list]
            /\ \A f \in CanvasFields \ {"current"} : a[f] = c[f]
BY DEF Adopt, CanvasFields

\* What a drawing leaves.
LEMMA Drawn ==
  ASSUME NEW c, NEW m, DOMAIN c = CanvasFields, ~ c.zooming, m.pane, c.geo = m.view,
         c.anim = "none", Fitting(c, m.view)
  PROVE  LET d == DrawStatic(c)
         IN Tended(d, m) /\ ~ d.zooming /\ d.hidden = c.hidden
<1> DEFINE g == [groups |-> c.current, view |-> c.geo, ring |-> Ring(c)]
           d == DrawStatic(c)
<1>1. d = [c EXCEPT !.drawn = g]
  BY DEF DrawStatic
<1>2. g = [groups |-> c.current, view |-> m.view, ring |-> Ring(c)]
  OBVIOUS
<1> HIDE DEF g
<1>3. DOMAIN d = CanvasFields /\ d.drawn = g /\ \A f \in CanvasFields \ {"drawn"} : d[f] = c[f]
  BY <1>1 DEF CanvasFields
<1> HIDE DEF d
<1>4. /\ d.list = c.list /\ d.clustering = c.clustering /\ d.current = c.current /\ d.selected = c.selected
      /\ d.zooming = c.zooming /\ d.anim = c.anim /\ d.frame = c.frame /\ d.hidden = c.hidden
  BY <1>3 DEF CanvasFields
<1>5. Fitting(d, m.view) /\ Ring(d) = Ring(c)
  BY <1>3, <1>4, Looks
<1>6. Standing(d, m.view)
  BY <1>2, <1>3, <1>4, <1>5 DEF Standing
<1> QED BY <1>3, <1>4, <1>6 DEF Tended, d

\* Whatever a frame does, it leaves the canvas tended.
LEMMA RenderTends ==
  ASSUME NEW c, NEW m, DOMAIN c = CanvasFields, ~ c.zooming, m.pane,
         c.anim \in {"none", "regroup"}
  PROVE  LET r == Render(c, m)
         IN /\ Tended(r, m) /\ ~ r.zooming /\ r.hidden = c.hidden
<1> DEFINE next == GroupIn(c, m.view)
           glides == c.again /\ c.current.els # {}
           seen == [c EXCEPT !.geo = m.view, !.again = FALSE]
           r == Render(c, m)
<1>1. r = IF glides THEN Regroup(seen, next)
          ELSE IF c.anim # "none"
            THEN Overtaken(seen, m.view # c.geo \/ c.current # Adopt(c, next).current)
          ELSE DrawStatic([Adopt(seen, next) EXCEPT !.missed = "nothing"])
  BY DEF Render
<1>2. /\ DOMAIN seen = CanvasFields /\ seen.geo = m.view
      /\ \A f \in CanvasFields \ {"geo", "again"} : seen[f] = c[f]
  BY DEF CanvasFields
<1> HIDE DEF seen
<1>3. /\ seen.list = c.list /\ seen.clustering = c.clustering /\ seen.current = c.current
      /\ seen.zooming = c.zooming /\ seen.anim = c.anim /\ seen.frame = c.frame /\ seen.hidden = c.hidden
      /\ seen.missed = c.missed /\ seen.selected = c.selected
  BY <1>2 DEF CanvasFields
<1>4. next = GroupIn(seen, m.view)
  BY <1>3 DEF GroupIn
<1> HIDE DEF next, r
<1> DEFINE a == Adopt(seen, next)
<1>5. /\ DOMAIN a = CanvasFields /\ a.current = [els |-> next, list |-> c.list]
      /\ \A f \in CanvasFields \ {"current"} : a[f] = seen[f]
  BY <1>2, <1>3, Adopted
<1>6. /\ a.list = c.list /\ a.clustering = c.clustering /\ a.geo = m.view /\ a.selected = c.selected
      /\ a.zooming = c.zooming /\ a.anim = c.anim /\ a.frame = c.frame /\ a.hidden = c.hidden
  BY <1>2, <1>3, <1>5 DEF CanvasFields
<1> HIDE DEF a
<1>7. ASSUME NEW d, DOMAIN d = CanvasFields, d.list = c.list, d.clustering = c.clustering, d.current = a.current
      PROVE  Fitting(d, m.view)
  <2>1. GroupIn(d, m.view) = next
    BY <1>4, <1>3, <1>7 DEF GroupIn
  <2>2. Adopt(d, next).current = [els |-> next, list |-> d.list]
    BY <1>7, Adopted
  <2> QED BY <2>1, <2>2, <1>5, <1>7 DEF Fitting
<1>8. CASE glides /\ Throws(seen)
  <2>1. r = [seen EXCEPT !.anim = "none", !.missed = "throw"]
    BY <1>1, <1>8 DEF Regroup
  <2>2. /\ DOMAIN r = CanvasFields /\ r.anim = "none" /\ r.missed = "throw"
        /\ r.zooming = c.zooming /\ r.hidden = c.hidden
    BY <1>2, <1>3, <2>1 DEF CanvasFields
  <2> QED BY <2>2 DEF Tended, r
<1>9. CASE glides /\ ~ Throws(seen)
  <2>1. r = [a EXCEPT !.anim = "regroup", !.missed = "nothing"]
    BY <1>1, <1>9 DEF Regroup, a
  <2>2. /\ DOMAIN r = CanvasFields /\ r.anim = "regroup" /\ r.current = a.current /\ r.list = c.list
        /\ r.clustering = c.clustering /\ r.zooming = c.zooming /\ r.hidden = c.hidden /\ r.geo = m.view
    BY <1>5, <1>6, <2>1 DEF CanvasFields
  <2>3. Fitting(r, m.view)
    BY <1>7, <2>2
  <2> QED BY <2>2, <2>3 DEF Tended, r
<1>10. CASE ~ glides /\ c.anim # "none"
  <2> DEFINE new == m.view # c.geo \/ c.current # Adopt(c, next).current
  <2>1. r = IF new THEN [seen EXCEPT !.missed = "glide"] ELSE seen
    BY <1>1, <1>10 DEF Overtaken
  <2>2. CASE new
    <3>1. /\ DOMAIN r = CanvasFields /\ r.anim = c.anim /\ r.missed = "glide"
          /\ r.zooming = c.zooming /\ r.hidden = c.hidden
      BY <1>2, <1>3, <2>1, <2>2 DEF CanvasFields
    <3> QED BY <3>1, <1>10 DEF Tended, r
  <2>3. CASE ~ new
    <3>1. Adopt(c, next).current = [els |-> next, list |-> c.list]
      BY Adopted
    <3>2. c.current = a.current /\ r = seen
      BY <2>1, <2>3, <3>1, <1>5
    <3>3. Fitting(seen, m.view)
      BY <1>2, <1>3, <1>7, <3>2
    <3> QED BY <1>2, <1>3, <1>10, <3>2, <3>3 DEF Tended, r
  <2> QED BY <2>2, <2>3
<1>11. CASE ~ glides /\ c.anim = "none"
  <2> DEFINE b == [a EXCEPT !.missed = "nothing"]
  <2>1. r = DrawStatic(b)
    BY <1>1, <1>11 DEF a
  <2>2. /\ DOMAIN b = CanvasFields /\ b.current = a.current /\ b.list = c.list /\ b.clustering = c.clustering
        /\ b.zooming = c.zooming /\ b.anim = c.anim /\ b.frame = c.frame /\ b.geo = m.view /\ b.hidden = c.hidden
    BY <1>5, <1>6 DEF CanvasFields
  <2> HIDE DEF b
  <2>3. Fitting(b, m.view)
    BY <1>7, <2>2
  <2>4. Tended(DrawStatic(b), m) /\ ~ DrawStatic(b).zooming /\ DrawStatic(b).hidden = b.hidden
    BY <1>11, <2>2, <2>3, Drawn
  <2> QED BY <2>1, <2>2, <2>4 DEF r
<1> QED BY <1>8, <1>9, <1>10, <1>11 DEF r

-----------------------------------------------------------------------------
\* A canvas and the same one without the frame that was due.
LEMMA Unframed ==
  ASSUME NEW c, DOMAIN c = CanvasFields
  PROVE  LET u == [c EXCEPT !.frame = FALSE]
         IN /\ DOMAIN u = CanvasFields /\ ~ u.frame
            /\ u.zooming = c.zooming /\ u.anim = c.anim /\ u.hidden = c.hidden
BY DEF CanvasFields

\* A frame, whenever it runs.
LEMMA FrameTends ==
  ASSUME LayerInv, google.pane, NEW c, c = [canvas EXCEPT !.frame = FALSE]
  PROVE  Tended(Render(c, google), google) /\ Ending(Render(c, google), google)
<1>1. DOMAIN c = CanvasFields /\ ~ c.frame /\ c.zooming = canvas.zooming /\ c.anim = canvas.anim /\ c.hidden = canvas.hidden
  BY Unframed DEF LayerInv, Tended
<1>2. c.plan = canvas.plan /\ c.moved = canvas.moved /\ c.watchdog = canvas.watchdog
  BY DEF LayerInv, Tended, CanvasFields
<1>3. CASE canvas.zooming
  <2>1. Render(c, google) = c
    BY <1>1, <1>3 DEF Render
  <2> QED BY <1>1, <1>2, <1>3, <2>1 DEF LayerInv, Tended, Ending
<1>4. CASE ~ canvas.zooming
  <2>1. c.anim \in {"none", "regroup"}
    BY <1>1, <1>4 DEF LayerInv, Tended
  <2>2. Tended(Render(c, google), google) /\ ~ Render(c, google).zooming /\ Render(c, google).hidden = c.hidden
    BY <1>1, <1>4, <2>1, RenderTends
  <2> QED BY <1>1, <1>4, <2>2 DEF LayerInv, Ending
<1> QED BY <1>3, <1>4

\* A canvas whose next frame is due, or that follows a zoom.
LEMMA DueTends ==
  ASSUME NEW c, NEW m, DOMAIN c = CanvasFields, c.zooming \/ c.frame, c.anim = "zoom" => c.zooming,
         c.anim = "regroup" => ~ c.zooming, c.anim \in {"none", "zoom", "regroup"},
         c.zooming \/ c.anim = "regroup" => m.pane
  PROVE  Tended(c, m)
BY DEF Tended

\* Anything that leaves the motion alone and asks for a frame.
LEMMA ScheduleTends ==
  ASSUME NEW m, Tended(canvas, m), NEW c, DOMAIN c = CanvasFields,
         c.zooming = canvas.zooming, c.anim = canvas.anim
  PROVE  Tended(Schedule(c), m)
<1> DEFINE s == Schedule(c)
<1>1. DOMAIN s = CanvasFields /\ s.zooming = c.zooming /\ s.anim = c.anim /\ (s.zooming \/ s.frame)
  BY Scheduled DEF CanvasFields
<1> HIDE DEF s
<1>2. Tended(s, m)
  BY <1>1 DEF Tended
<1> QED BY <1>2 DEF s

LEMMA ScheduleEnds ==
  ASSUME NEW c, DOMAIN c = CanvasFields, NEW m, Ending(c, m)
  PROVE  Ending(Schedule(c), m)
<1> DEFINE s == Schedule(c)
<1>1. /\ s.zooming = c.zooming /\ s.anim = c.anim /\ s.hidden = c.hidden /\ s.plan = c.plan
      /\ s.moved = c.moved /\ s.watchdog = c.watchdog
  BY Scheduled DEF CanvasFields
<1> HIDE DEF s
<1>2. Ending(s, m)
  BY <1>1 DEF Ending
<1> QED BY <1>2 DEF s

\* The end of a zoom.
LEMMA FinishTends ==
  ASSUME NEW c, NEW m, DOMAIN c = CanvasFields, m.pane
  PROVE  Tended(FinishZoom(c, m), m) /\ Ending(FinishZoom(c, m), m) /\ ~ FinishZoom(c, m).zooming
<1> DEFINE l == IF c.moved THEN [Adopt(c, c.target) EXCEPT !.again = FALSE] ELSE [c EXCEPT !.again = TRUE]
           e == [l EXCEPT !.zooming = FALSE, !.anim = "none", !.watchdog = FALSE, !.hidden = FALSE]
           d == Render(e, m)
           f == FinishZoom(c, m)
<1>1. DOMAIN l = CanvasFields
  <2> DEFINE a == Adopt(c, c.target)
  <2>1. DOMAIN a = CanvasFields
    BY Adopted
  <2> HIDE DEF a
  <2>2. DOMAIN [a EXCEPT !.again = FALSE] = CanvasFields
    BY <2>1 DEF CanvasFields
  <2>3. DOMAIN [c EXCEPT !.again = TRUE] = CanvasFields
    BY DEF CanvasFields
  <2> QED BY <2>2, <2>3 DEF a
<1> HIDE DEF l
<1>2. DOMAIN e = CanvasFields /\ ~ e.zooming /\ e.anim = "none" /\ ~ e.hidden
  BY <1>1 DEF CanvasFields
<1>3. f = d \/ f = [d EXCEPT !.ghost = FALSE, !.plan = FALSE]
  BY DEF FinishZoom, e, l
<1> HIDE DEF e, f
<1>4. Tended(d, m) /\ ~ d.zooming /\ d.hidden = e.hidden
  BY <1>2, RenderTends
<1> HIDE DEF d
<1>5. Ending(d, m)
  BY <1>2, <1>4 DEF Ending
<1>6. ASSUME NEW h, h = [d EXCEPT !.ghost = FALSE, !.plan = FALSE]
      PROVE  Tended(h, m) /\ Ending(h, m) /\ ~ h.zooming
  <2>1. /\ DOMAIN h = CanvasFields /\ h.list = d.list /\ h.clustering = d.clustering /\ h.current = d.current
        /\ h.selected = d.selected /\ h.zooming = d.zooming /\ h.anim = d.anim /\ h.frame = d.frame
        /\ h.hidden = d.hidden /\ h.missed = d.missed /\ h.geo = d.geo /\ h.drawn = d.drawn
        /\ DOMAIN d = CanvasFields
    BY <1>4, <1>6 DEF Tended, CanvasFields
  <2>2. \A v \in {d.geo, m.view} : (Fitting(h, v) <=> Fitting(d, v)) /\ Ring(h) = Ring(d)
    BY <2>1, Looks
  <2>3. Tended(h, m)
    BY <1>4, <2>1, <2>2 DEF Tended, Standing
  <2> QED BY <1>2, <1>4, <2>1, <2>3 DEF Ending
<1> QED BY <1>3, <1>4, <1>5, <1>6 DEF f

\* The start of a zoom, or of a further one.
LEMMA StartTends ==
  ASSUME LayerInv, NEW m, m.pane = google.pane, m.idle
  PROVE  LET s == Schedule(StartZoom(canvas, m)) IN Tended(s, m) /\ Ending(s, m)
<1> DEFINE z == StartZoom(canvas, m)
           b == IF canvas.zooming THEN FurtherZoom(canvas) ELSE BeginZoom(canvas)
           a == [b EXCEPT !.target = GroupTarget(canvas, m.view)]
<1>0. DOMAIN canvas = CanvasFields
  BY DEF LayerInv, Tended
<1>1. Ending(canvas, m)
  BY DEF LayerInv, Ending
<1>2. CASE z = canvas
  <2>1. \A c : DOMAIN c = CanvasFields /\ c.zooming = canvas.zooming /\ c.anim = canvas.anim /\ (c.zooming \/ c.frame)
               => Tended(c, m)
    BY DEF LayerInv, Tended
  <2> DEFINE s == Schedule(canvas)
  <2>2. DOMAIN s = CanvasFields /\ s.zooming = canvas.zooming /\ s.anim = canvas.anim /\ (s.zooming \/ s.frame)
    BY <1>0, Scheduled DEF CanvasFields
  <2> HIDE DEF s
  <2>3. Tended(s, m)
    BY <2>1, <2>2
  <2> QED BY <1>0, <1>1, <1>2, <2>3, ScheduleEnds DEF s
<1>3. CASE z # canvas
  <2>1. m.pane /\ z \in {[a EXCEPT !.missed = "throw"], [a EXCEPT !.plan = TRUE, !.watchdog = TRUE]}
    BY <1>3 DEF StartZoom
  <2> HIDE DEF z
  <2>2. DOMAIN b = CanvasFields /\ b.zooming /\ b.anim \in {"zoom", "none"}
        /\ ((b.anim = "zoom" /\ b.plan /\ b.moved) \/ b.watchdog \/ ~ b.moved)
    <3>1. CASE canvas.zooming
      <4>1. b = Adopt(canvas, canvas.target)
        BY <3>1 DEF FurtherZoom
      <4> HIDE DEF b
      <4> DEFINE t == canvas.target
                 w == Adopt(canvas, t)
      <4> HIDE DEF t
      <4>2. DOMAIN b = CanvasFields /\ \A f \in CanvasFields \ {"current"} : b[f] = canvas[f]
        <5>1. DOMAIN w = CanvasFields /\ \A f \in CanvasFields \ {"current"} : w[f] = canvas[f]
          BY <1>0 DEF Adopt, CanvasFields
        <5> QED BY <4>1, <5>1 DEF t
      <4> HIDE DEF w
      <4>3. /\ b.zooming = canvas.zooming /\ b.anim = canvas.anim /\ b.plan = canvas.plan /\ b.moved = canvas.moved
            /\ b.watchdog = canvas.watchdog
        BY <4>2 DEF CanvasFields
      <4> QED BY <3>1, <4>2, <4>3 DEF LayerInv, Tended, Ending
    <3>2. CASE ~ canvas.zooming
      <4>1. b = [canvas EXCEPT !.zooming = TRUE, !.anim = "zoom", !.frame = FALSE, !.moved = FALSE,
                               !.hidden = TRUE, !.ghost = TRUE]
        BY <3>2 DEF BeginZoom
      <4> HIDE DEF b
      <4> QED BY <1>0, <4>1 DEF CanvasFields
    <3> QED BY <3>1, <3>2
  <2> HIDE DEF b
  <2>3. /\ DOMAIN a = CanvasFields /\ a.zooming = b.zooming /\ a.anim = b.anim /\ a.plan = b.plan
        /\ a.moved = b.moved /\ a.watchdog = b.watchdog
    BY <2>2 DEF CanvasFields
  <2> HIDE DEF a
  <2>4. DOMAIN z = CanvasFields /\ z.zooming /\ z.anim = a.anim /\ z.moved = a.moved
        /\ (z.watchdog \/ z.plan = a.plan)  /\ (a.watchdog => z.watchdog)
    <3>1. CASE z = [a EXCEPT !.missed = "throw"]
      BY <2>2, <2>3, <3>1 DEF CanvasFields
    <3>2. CASE z = [a EXCEPT !.plan = TRUE, !.watchdog = TRUE]
      BY <2>2, <2>3, <3>2 DEF CanvasFields
    <3> QED BY <2>1, <3>1, <3>2
  <2>5. Ending(z, m)
    BY <2>2, <2>3, <2>4 DEF Ending
  <2> DEFINE s == Schedule(z)
  <2>6. DOMAIN s = CanvasFields /\ s.zooming = z.zooming /\ s.anim = z.anim
    BY <2>4, Scheduled DEF CanvasFields
  <2>7. Ending(s, m)
    BY <2>4, <2>5, ScheduleEnds
  <2> HIDE DEF s
  <2>8. Tended(s, m)
    BY <2>1, <2>2, <2>3, <2>4, <2>6 DEF Tended
  <2> QED BY <2>7, <2>8 DEF s, z
<1> QED BY <1>2, <1>3 DEF z

-----------------------------------------------------------------------------
LEMMA LayerKept ==
  ASSUME LayerInv, [LayerNext]_layerVars
  PROVE  LayerInv'
<1>0. DOMAIN canvas = CanvasFields /\ DOMAIN google = {"view", "pane", "idle"} /\ Tended(canvas, google)
      /\ Ending(canvas, google)
  BY DEF LayerInv, Tended
<1>1. ASSUME google' = google, Tended(canvas', google), Ending(canvas', google)
      PROVE  LayerInv'
  BY <1>0, <1>1 DEF LayerInv
<1>2. CASE UNCHANGED layerVars
  BY <1>0, <1>2 DEF layerVars, LayerInv
<1> DEFINE u == [canvas EXCEPT !.frame = FALSE]
<1>3. CASE FrameRuns
  <2>1. FrameRuns => canvas' = Render(u, google) /\ google' = google
    BY DEF FrameRuns
  <2>2. CASE google.pane
    BY <1>1, <1>3, <2>1, <2>2, FrameTends
  <2>3. CASE ~ google.pane
    <3>1. canvas' = u
      BY <1>3, <2>1, <2>3 DEF Render
    <3>2. /\ DOMAIN u = CanvasFields /\ u.zooming = canvas.zooming /\ u.anim = canvas.anim /\ u.hidden = canvas.hidden
          /\ u.plan = canvas.plan /\ u.moved = canvas.moved /\ u.watchdog = canvas.watchdog
      BY <1>0 DEF CanvasFields
    <3> HIDE DEF u
    <3>3. Tended(u, google) /\ Ending(u, google)
      BY <1>0, <2>3, <3>2 DEF Tended, Ending
    <3> QED BY <1>1, <1>3, <2>1, <3>1, <3>3
  <2> QED BY <2>2, <2>3
<1>4. CASE GoogleDraws
  <2>1. /\ google.pane /\ google' = google
        /\ canvas' = IF ~ canvas.zooming /\ canvas.anim = "none" THEN Render(u, google) ELSE Schedule(canvas)
    BY <1>4 DEF GoogleDraws
  <2>2. Tended(Render(u, google), google) /\ Ending(Render(u, google), google)
    BY <2>1, FrameTends
  <2> HIDE DEF u
  <2>3. Tended(Schedule(canvas), google) /\ Ending(Schedule(canvas), google)
    BY <1>0, ScheduleTends, ScheduleEnds
  <2> QED BY <1>1, <2>1, <2>2, <2>3
<1>5. CASE PaneAdded
  <2> DEFINE m == google'
  <2>1. /\ ~ google.pane /\ google' = [google EXCEPT !.pane = TRUE] /\ canvas' = Render(u, google')
    BY <1>5 DEF PaneAdded
  <2>2. DOMAIN m = {"view", "pane", "idle"} /\ m.pane /\ m.idle = google.idle
    BY <1>0, <2>1
  <2>3. /\ DOMAIN u = CanvasFields /\ ~ u.zooming /\ u.anim = "none" /\ ~ u.hidden
    <3>1. /\ DOMAIN u = CanvasFields /\ u.zooming = canvas.zooming /\ u.anim = canvas.anim /\ u.hidden = canvas.hidden
      BY <1>0, Unframed
    <3> HIDE DEF u
    <3> QED BY <1>0, <2>1, <3>1 DEF Tended, Ending
  <2> HIDE DEF u, m
  <2>4. Tended(Render(u, m), m) /\ ~ Render(u, m).zooming /\ Render(u, m).hidden = u.hidden
    BY <2>2, <2>3, RenderTends
  <2>5. Ending(Render(u, m), m)
    BY <2>3, <2>4 DEF Ending
  <2> QED BY <2>1, <2>2, <2>4, <2>5 DEF LayerInv, m
<1>6. CASE GlideGoesOn
  <2> DEFINE g == [canvas EXCEPT !.geo = google.view]
             h == [g EXCEPT !.missed = "glide"]
  <2>1. canvas.anim = "regroup" /\ google' = google /\ canvas' = h
    BY <1>6 DEF GlideGoesOn, Overtaken
  <2>2. /\ DOMAIN h = CanvasFields /\ h.zooming = canvas.zooming /\ h.anim = canvas.anim /\ h.hidden = canvas.hidden
        /\ h.plan = canvas.plan /\ h.moved = canvas.moved /\ h.watchdog = canvas.watchdog /\ h.missed = "glide"
    BY <1>0 DEF CanvasFields
  <2> HIDE DEF h
  <2>3. Tended(h, google) /\ Ending(h, google)
    BY <1>0, <2>2 DEF Tended, Ending
  <2> QED BY <1>1, <2>1, <2>3
<1>7. CASE GlideEnds
  <2> DEFINE g == [canvas EXCEPT !.anim = "none", !.geo = google.view]
             o == Overtaken(g, google.view # canvas.geo)
  <2>1. canvas.anim = "regroup" /\ google' = google /\ canvas' = DrawStatic(o)
    BY <1>7 DEF GlideEnds
  <2>2. /\ DOMAIN g = CanvasFields /\ g.anim = "none" /\ g.geo = google.view
        /\ \A f \in CanvasFields \ {"anim", "geo"} : g[f] = canvas[f]
    BY <1>0 DEF CanvasFields
  <2> HIDE DEF g
  <2>3. /\ DOMAIN o = CanvasFields /\ o.anim = "none" /\ o.geo = google.view
        /\ \A f \in CanvasFields \ {"anim", "geo", "missed"} : o[f] = canvas[f]
        /\ IF google.view # canvas.geo THEN o.missed = "glide" ELSE o.missed = canvas.missed
    BY <2>2 DEF Overtaken, CanvasFields
  <2> HIDE DEF o
  <2>4. /\ o.list = canvas.list /\ o.clustering = canvas.clustering /\ o.current = canvas.current
        /\ o.zooming = canvas.zooming /\ o.frame = canvas.frame /\ o.hidden = canvas.hidden
        /\ o.selected = canvas.selected /\ ~ canvas.zooming /\ google.pane
    BY <1>0, <2>1, <2>3 DEF Tended, CanvasFields
  <2>5. CASE Fitting(o, google.view)
    <3>1. Tended(DrawStatic(o), google) /\ ~ DrawStatic(o).zooming /\ DrawStatic(o).hidden = o.hidden
      BY <2>3, <2>4, <2>5, Drawn
    <3>2. Ending(DrawStatic(o), google)
      BY <1>0, <2>4, <3>1 DEF Ending
    <3> QED BY <1>1, <2>1, <3>1, <3>2
  <2>6. CASE ~ Fitting(o, google.view)
    <3>1. Fitting(o, google.view) <=> Fitting(canvas, google.view)
      BY <1>0, <2>3, <2>4, Looks
    <3>2. o.frame \/ o.missed # "nothing"
      BY <1>0, <2>1, <2>3, <2>4, <2>6, <3>1 DEF Tended
    <3> DEFINE r == [groups |-> o.current, view |-> o.geo, ring |-> Ring(o)]
               d == [o EXCEPT !.drawn = r]
    <3>3. DrawStatic(o) = d
      BY DEF DrawStatic
    <3> HIDE DEF r
    <3>4. /\ DOMAIN d = CanvasFields /\ d.zooming = o.zooming /\ d.anim = o.anim /\ d.hidden = o.hidden
          /\ d.frame = o.frame /\ d.missed = o.missed
      BY <2>3 DEF CanvasFields
    <3> HIDE DEF d
    <3>5. Tended(d, google) /\ Ending(d, google)
      BY <1>0, <2>3, <2>4, <3>2, <3>4 DEF Tended, Ending
    <3> QED BY <1>1, <2>1, <3>3, <3>5
  <2> QED BY <2>5, <2>6
<1>8. CASE ZoomStepStops
  <2> DEFINE h == [canvas EXCEPT !.anim = "none"]
  <2>1. canvas.anim = "zoom" /\ ~ canvas.plan /\ google' = google /\ canvas' = h
    BY <1>8 DEF ZoomStepStops
  <2>2. /\ DOMAIN h = CanvasFields /\ h.zooming = canvas.zooming /\ h.anim = "none" /\ h.hidden = canvas.hidden
        /\ h.plan = canvas.plan /\ h.moved = canvas.moved /\ h.watchdog = canvas.watchdog
    BY <1>0 DEF CanvasFields
  <2> HIDE DEF h
  <2>3. Tended(h, google) /\ Ending(h, google)
    BY <1>0, <2>1, <2>2 DEF Tended, Ending
  <2> QED BY <1>1, <2>1, <2>3
<1>9. CASE TilesMove
  <2> DEFINE h == [canvas EXCEPT !.moved = TRUE]
  <2>1. canvas.anim = "zoom" /\ canvas.plan /\ google' = google /\ canvas' = h
    BY <1>9 DEF TilesMove
  <2>2. /\ DOMAIN h = CanvasFields /\ h.zooming = canvas.zooming /\ h.anim = canvas.anim /\ h.hidden = canvas.hidden
        /\ h.plan = canvas.plan /\ h.moved /\ h.watchdog = canvas.watchdog
    BY <1>0 DEF CanvasFields
  <2> HIDE DEF h
  <2>3. Tended(h, google) /\ Ending(h, google)
    BY <1>0, <2>1, <2>2 DEF Tended, Ending
  <2> QED BY <1>1, <2>1, <2>3
<1>10. CASE TilesLand
  <2>1. canvas.anim = "zoom" /\ google' = google /\ canvas' = FinishZoom(canvas, google)
    BY <1>10 DEF TilesLand
  <2>2. google.pane
    BY <1>0, <2>1 DEF Tended
  <2> QED BY <1>0, <1>1, <2>1, <2>2, FinishTends
<1>11. CASE WatchdogFires
  <2> DEFINE h == [canvas EXCEPT !.watchdog = FALSE]
  <2>1. google' = google /\ canvas' = IF canvas.zooming THEN FinishZoom(h, google) ELSE h
    BY <1>11 DEF WatchdogFires
  <2>2. /\ DOMAIN h = CanvasFields
        /\ \A f \in CanvasFields \ {"watchdog"} : h[f] = canvas[f]
    BY <1>0 DEF CanvasFields
  <2> HIDE DEF h
  <2>3. CASE canvas.zooming
    <3>1. google.pane
      BY <1>0, <2>3 DEF Tended
    <3> QED BY <1>1, <2>1, <2>2, <2>3, <3>1, FinishTends
  <2>4. CASE ~ canvas.zooming
    <3>1. /\ h.list = canvas.list /\ h.clustering = canvas.clustering /\ h.current = canvas.current
          /\ h.selected = canvas.selected /\ h.zooming = canvas.zooming /\ h.anim = canvas.anim /\ h.frame = canvas.frame
          /\ h.hidden = canvas.hidden /\ h.missed = canvas.missed /\ h.geo = canvas.geo /\ h.drawn = canvas.drawn
      BY <2>2 DEF CanvasFields
    <3>2. \A v \in {canvas.geo, google.view} : (Fitting(h, v) <=> Fitting(canvas, v)) /\ Ring(h) = Ring(canvas)
      BY <1>0, <2>2, <3>1, Looks
    <3>3. Tended(h, google) /\ Ending(h, google)
      BY <1>0, <2>2, <2>4, <3>1, <3>2 DEF Tended, Ending, Standing
    <3> QED BY <1>1, <2>1, <2>4, <3>3
  <2> QED BY <2>3, <2>4
<1>12. ASSUME NEW v, MapMoves(v)
       PROVE  LayerInv'
  <2> DEFINE m == google'
  <2>1. /\ google' = [google EXCEPT !.view = v, !.idle = TRUE]
        /\ canvas' = Schedule(IF v.zoom = google.view.zoom THEN canvas ELSE StartZoom(canvas, google'))
    BY <1>12 DEF MapMoves
  <2>2. DOMAIN m = {"view", "pane", "idle"} /\ m.pane = google.pane /\ m.idle
    BY <1>0, <2>1
  <2> HIDE DEF m
  <2>3. Tended(Schedule(StartZoom(canvas, m)), m) /\ Ending(Schedule(StartZoom(canvas, m)), m)
    BY <2>2, StartTends
  <2>4. Tended(Schedule(canvas), m) /\ Ending(Schedule(canvas), m)
    <3>1. Ending(canvas, m)
      BY <1>0, <2>2 DEF Ending
    <3> DEFINE s == Schedule(canvas)
    <3>2. DOMAIN s = CanvasFields /\ s.zooming = canvas.zooming /\ s.anim = canvas.anim /\ (s.zooming \/ s.frame)
      BY <1>0, Scheduled DEF CanvasFields
    <3> HIDE DEF s
    <3>3. Tended(s, m)
      BY <1>0, <2>2, <3>2 DEF Tended
    <3> QED BY <1>0, <3>1, <3>3, ScheduleEnds DEF s
  <2> QED BY <2>1, <2>2, <2>3, <2>4 DEF LayerInv, m
<1>13. CASE MapIdle
  <2> DEFINE m == google'
  <2>1. /\ google' = [google EXCEPT !.idle = FALSE]
        /\ canvas' = IF ~ canvas.zooming THEN Schedule(canvas)
                     ELSE IF canvas.moved THEN canvas ELSE FinishZoom(canvas, google)
    BY <1>13 DEF MapIdle
  <2>2. DOMAIN m = {"view", "pane", "idle"} /\ m.pane = google.pane /\ m.view = google.view
    BY <1>0, <2>1
  <2>3. \A c : Tended(c, google) => Tended(c, m)
    BY <2>2 DEF Tended
  <2>4. \A c : Ending(c, google) /\ (~ c.zooming \/ c.moved) => Ending(c, m)
    BY <2>2 DEF Ending
  <2>5. CASE ~ canvas.zooming
    <3> DEFINE s == Schedule(canvas)
    <3>1. Tended(s, google) /\ Ending(s, google) /\ s.zooming = canvas.zooming
      BY <1>0, ScheduleTends, ScheduleEnds, Scheduled DEF CanvasFields
    <3> HIDE DEF s
    <3> QED BY <2>1, <2>2, <2>3, <2>4, <2>5, <3>1 DEF LayerInv, s
  <2>6. CASE canvas.zooming /\ canvas.moved
    BY <1>0, <2>1, <2>2, <2>3, <2>4, <2>6 DEF LayerInv
  <2>7. CASE canvas.zooming /\ ~ canvas.moved
    <3>1. google.pane
      BY <1>0, <2>7 DEF Tended
    <3> DEFINE f == FinishZoom(canvas, google)
    <3>2. Tended(f, google) /\ Ending(f, google) /\ ~ f.zooming
      BY <1>0, <3>1, FinishTends
    <3> HIDE DEF f
    <3> QED BY <2>1, <2>2, <2>3, <2>4, <2>7, <3>2 DEF LayerInv, f
  <2> QED BY <2>5, <2>6, <2>7
<1> DEFINE SameMotion(c) ==
             /\ DOMAIN c = CanvasFields /\ c.zooming = canvas.zooming /\ c.anim = canvas.anim /\ c.hidden = canvas.hidden
             /\ c.plan = canvas.plan /\ c.moved = canvas.moved /\ c.watchdog = canvas.watchdog
<1>14. ASSUME NEW c, SameMotion(c), google' = google, canvas' = Schedule(c)
       PROVE  LayerInv'
  <2>1. Ending(c, google)
    BY <1>0, <1>14 DEF Ending
  <2>2. Tended(Schedule(c), google) /\ Ending(Schedule(c), google)
    BY <1>0, <1>14, <2>1, ScheduleTends, ScheduleEnds
  <2> QED BY <1>1, <1>14, <2>2
<1>15. ASSUME NEW l \in DOMAIN ItemLists, SetItems(l)
       PROVE  LayerInv'
  <2> DEFINE again == canvas.current.els # {}
             c == [canvas EXCEPT !.list = l, !.again = again]
  <2>1. google' = google /\ canvas' = Schedule(c)
    BY <1>15 DEF SetItems
  <2> HIDE DEF again
  <2>2. SameMotion(c)
    BY <1>0 DEF CanvasFields
  <2> HIDE DEF c
  <2> QED BY <1>14, <2>1, <2>2
<1>16. CASE SetClustering
  <2> DEFINE on == ~ canvas.clustering
             c == [canvas EXCEPT !.clustering = on, !.again = TRUE]
  <2>1. google' = google /\ canvas' = Schedule(c)
    BY <1>16 DEF SetClustering
  <2> HIDE DEF on
  <2>2. SameMotion(c)
    BY <1>0 DEF CanvasFields
  <2> HIDE DEF c
  <2> QED BY <1>14, <2>1, <2>2
<1>17. ASSUME NEW hit, MapClicked(hit)
       PROVE  LayerInv'
  <2> DEFINE id == IF hit = {} THEN NoItem
                   ELSE ItemLists[canvas.drawn.groups.list][CHOOSE i \in hit : TRUE].id
             c == [canvas EXCEPT !.selected = id]
  <2>1. google' = google /\ canvas' = Schedule(c)
    BY <1>17 DEF MapClicked
  <2> HIDE DEF id
  <2>2. SameMotion(c)
    BY <1>0 DEF CanvasFields
  <2> HIDE DEF c
  <2> QED BY <1>14, <2>1, <2>2
<1> QED BY <1>2, <1>3, <1>4, <1>5, <1>6, <1>7, <1>8, <1>9, <1>10, <1>11, <1>12, <1>13, <1>15, <1>16, <1>17
        DEF LayerNext

LEMMA LayerDraws == LayerInv => DrawsWhatIsThere /\ CanvasComesBack
<1> SUFFICES ASSUME LayerInv PROVE DrawsWhatIsThere /\ CanvasComesBack
  OBVIOUS
<1>1. CanvasComesBack
  BY DEF LayerInv, Ending, CanvasComesBack
<1>2. ASSUME AtRest, canvas.missed = "nothing"
      PROVE  Regrouped /\ canvas.drawn.view = google.view /\ canvas.drawn.ring = Ring(canvas)
  <2>1. Standing(canvas, google.view)
    BY <1>2 DEF AtRest, LayerInv, Tended
  <2> DEFINE d == canvas.drawn
             r == Ring(canvas)
  <2>2. d = [groups |-> canvas.current, view |-> google.view, ring |-> r]
        /\ canvas.current = Adopt(canvas, GroupIn(canvas, google.view)).current
    BY <2>1 DEF Standing, Fitting
  <2> HIDE DEF d, r
  <2>3. d.groups = canvas.current /\ d.view = google.view /\ d.ring = r
    BY <2>2
  <2> QED BY <2>2, <2>3 DEF Regrouped, d, r
<1> QED BY <1>1, <1>2 DEF DrawsWhatIsThere

-----------------------------------------------------------------------------
(* The Command Center: the newest request is for what is chosen, and what     *)
(* the server keeps is under the sites that it covers.                        *)

DeskFields == {"window", "site", "gateway", "filter", "page", "meter", "text", "pause"}
BoardFields == {"shown", "newest", "syncing", "filtering", "failed"}

\* Numbers of a window and of the sites of a choice; numbers of the reader.
NumbersOf(s, w, c) == s.window = w /\ s.covers = Mine(c)
OfReader(s) == s = NoSummary \/ \E c \in CenterSite : s.covers = Mine(c)

\* Requests for a desk and a board.
AskedWell(S, d, b) ==
  /\ \A r \in S :
       /\ DOMAIN r = {"id", "window", "site", "at", "data"}
       /\ r.id \in Nat /\ r.id <= b.newest /\ r.site \in CenterSite
       /\ r.at \in {"sent", "working", "ready"}
       /\ IF r.at = "sent" THEN r.data = NoSummary ELSE NumbersOf(r.data, r.window, r.site)
       /\ r.id = b.newest => r.window = d.window /\ r.site = d.site
  /\ b.syncing => \E r \in S : r.id = b.newest

BoardRight(d, b) ==
  /\ DOMAIN b = BoardFields /\ b.newest \in Nat \ {0}
  /\ b.filtering => b.syncing
  /\ OfReader(b.shown)
  /\ b.shown # NoSummary => NumbersOf(b.shown, d.window, d.site) \/ b.filtering \/ b.failed

DeskRight(d) == DOMAIN d = DeskFields /\ d.site \in CenterSite

KeptRight(S) ==
  \A k \in S : /\ DOMAIN k = {"key", "summary", "fresh"}
               /\ k.key = <<k.summary.window, k.summary.covers>>

SavedRight(f) == DOMAIN f = PlainWindow \X CenterSite /\ \A x \in DOMAIN f : OfReader(f[x])

NumbersInv ==
  /\ DeskRight(desk) /\ BoardRight(desk, board) /\ AskedWell(numberAsks, desk, board)
  /\ KeptRight(kept) /\ SavedRight(saved)

\* The meters: the request that counts is for what is chosen.
RosterInv ==
  /\ DOMAIN desk = DeskFields
  /\ DOMAIN roster = {"data", "loading", "error"}
  /\ \A r \in rosterAsks : DOMAIN r = {"of", "live"} /\ (r.live => r.of = RosterQuery(desk))
  /\ roster.loading => desk.gateway # NoGateway
  /\ RosterForAsked

\* The gateway is only given up where another one can be selected.
StillSelected(d, b) == d.gateway = NoGateway => desk.gateway = NoGateway \/ CurrentGateways(b) # <<>>

\* A render keeps the choice, and asks for the meters of the new one.
LEMMA CenterRenders ==
  ASSUME DOMAIN desk = DeskFields, NEW d, DOMAIN d = DeskFields, NEW b, NEW an, NEW re, Renders(d, b, an, re)
  PROVE  /\ DOMAIN desk' = DeskFields /\ desk'.window = d.window /\ desk'.site = d.site
         /\ board' = b
         /\ RosterInv /\ StillSelected(d, b) => RosterInv'
<1> DEFINE sel == FirstSelected(d, b)
           left == d.gateway = NoGateway /\ desk.gateway # NoGateway
           next == IF left THEN [sel EXCEPT !.page = 0] ELSE PageReset(sel)
           restarts == an \/ next.text # desk.text \/ Window(next) # Window(desk)
           reads == re \/ left \/ RosterQuery(next) # RosterQuery(desk) \/ StampOf(b) # StampOf(board)
<1>1. /\ DOMAIN sel = DeskFields /\ sel.window = d.window /\ sel.site = d.site
      /\ sel.gateway = NoGateway => d.gateway = NoGateway /\ CurrentGateways(b) = <<>>
  <2>1. CASE d.gateway = NoGateway /\ CurrentGateways(b) # <<>>
    <3> DEFINE g == CurrentGateways(b)[1]
    <3>1. sel = [d EXCEPT !.gateway = <<g>>]
      BY <2>1 DEF FirstSelected
    <3> HIDE DEF g, sel
    <3>2. <<g>> # <<>>
      OBVIOUS
    <3> QED BY <3>1, <3>2 DEF DeskFields, NoGateway
  <2>2. CASE ~ (d.gateway = NoGateway /\ CurrentGateways(b) # <<>>)
    BY <2>2 DEF FirstSelected
  <2> QED BY <2>1, <2>2
<1> HIDE DEF sel
<1>2. /\ DOMAIN next = DeskFields /\ next.window = sel.window /\ next.site = sel.site
      /\ next.gateway = sel.gateway
  BY <1>1 DEF PageReset, DeskFields
<1>3. /\ desk' = IF restarts THEN [next EXCEPT !.pause = Ranked(next.text, b)] ELSE next
      /\ board' = b
      /\ CASE ~reads -> UNCHANGED <<roster, rosterAsks>>
           [] reads /\ next.gateway = NoGateway ->
                /\ roster' = [roster EXCEPT !.data = EmptyRoster(RosterQuery(next))]
                /\ rosterAsks' = GivenUp
           [] OTHER ->
                /\ roster' = [data |-> IF left THEN EmptyRoster(RosterQuery(next)) ELSE roster.data,
                              loading |-> TRUE, error |-> FALSE]
                /\ rosterAsks' = GivenUp \cup {[of |-> RosterQuery(next), live |-> TRUE]}
  BY DEF Renders, sel
<1> HIDE DEF next, restarts
<1>4. /\ DOMAIN desk' = DeskFields /\ desk'.window = next.window /\ desk'.site = next.site
      /\ desk'.gateway = next.gateway /\ desk'.filter = next.filter /\ desk'.page = next.page
  <2> DEFINE p == Ranked(next.text, b)
             q == [next EXCEPT !.pause = p]
  <2>1. desk' = q \/ desk' = next
    BY <1>3
  <2> HIDE DEF p
  <2>2. /\ DOMAIN q = DeskFields /\ q.window = next.window /\ q.site = next.site
        /\ q.gateway = next.gateway /\ q.filter = next.filter /\ q.page = next.page
    BY <1>2 DEF DeskFields
  <2> HIDE DEF q
  <2> QED BY <1>2, <2>1, <2>2
<1>5. RosterQuery(desk') = RosterQuery(next)
  BY <1>4 DEF RosterQuery
<1>6. ASSUME RosterInv, StillSelected(d, b)
      PROVE  RosterInv'
  <2>0. RosterQuery(desk)' = RosterQuery(next)
    BY <1>4 DEF RosterQuery
  <2>1. next.gateway = NoGateway => desk.gateway = NoGateway /\ ~ roster.loading
    BY <1>1, <1>2, <1>6 DEF RosterInv, StillSelected
  <2> HIDE DEF left
  <2>2. \A r \in GivenUp : DOMAIN r = {"of", "live"} /\ ~ r.live
    BY <1>6 DEF GivenUp, RosterInv
  <2>3. CASE ~ reads
    <3>1. RosterQuery(next) = RosterQuery(desk) /\ UNCHANGED <<roster, rosterAsks>>
      BY <1>3, <2>3
    <3>2. next.gateway = desk.gateway
      BY <3>1 DEF RosterQuery
    <3> QED BY <1>4, <1>6, <2>0, <3>1, <3>2 DEF RosterInv, RosterForAsked
  <2>4. CASE reads /\ next.gateway = NoGateway
    <3> DEFINE e == EmptyRoster(RosterQuery(next))
    <3>1. roster' = [roster EXCEPT !.data = e] /\ rosterAsks' = GivenUp
      BY <1>3, <2>4
    <3>2. e.of = RosterQuery(next)
      BY DEF EmptyRoster
    <3> HIDE DEF e
    <3>3. DOMAIN roster' = {"data", "loading", "error"} /\ roster'.data = e /\ ~ roster'.loading
      BY <1>6, <2>1, <2>4, <3>1 DEF RosterInv
    <3> QED BY <1>4, <2>0, <2>2, <3>1, <3>2, <3>3 DEF RosterInv, RosterForAsked
  <2>5. CASE reads /\ next.gateway # NoGateway
    <3> DEFINE x == IF left THEN EmptyRoster(RosterQuery(next)) ELSE roster.data
               a == [of |-> RosterQuery(next), live |-> TRUE]
    <3>1. /\ roster' = [data |-> x, loading |-> TRUE, error |-> FALSE]
          /\ rosterAsks' = GivenUp \cup {a}
      BY <1>3, <2>5
    <3>2. DOMAIN a = {"of", "live"} /\ a.of = RosterQuery(next) /\ a.live
      OBVIOUS
    <3> HIDE DEF x, a
    <3>3. DOMAIN roster' = {"data", "loading", "error"} /\ roster'.loading
      BY <3>1
    <3> QED BY <1>4, <2>0, <2>2, <2>5, <3>1, <3>2, <3>3 DEF RosterInv, RosterForAsked
  <2> QED BY <2>3, <2>4, <2>5
<1>7. DOMAIN desk' = DeskFields /\ desk'.window = d.window /\ desk'.site = d.site /\ board' = b
  BY <1>1, <1>2, <1>3, <1>4
<1> QED BY <1>6, <1>7

-----------------------------------------------------------------------------
CenterInv == NumbersInv /\ RosterInv

LEMMA CenterInitially == CenterInit => CenterInv
<1> SUFFICES ASSUME CenterInit PROVE CenterInv
  OBVIOUS
<1>1. PICK g \in CenterLink : desk = FirstDesk(g)
  BY DEF CenterInit
<1> DEFINE ld == NewLoad(desk, 1)
           sv == saved[<<"7D", "ALL">>]
<1>2. /\ kept = {} /\ saved = [x \in PlainWindow \X CenterSite |-> NoSummary]
      /\ board = [shown |-> sv, newest |-> 1, syncing |-> TRUE, filtering |-> TRUE, failed |-> FALSE]
      /\ numberAsks = {ld} /\ roster = FirstRoster(desk) /\ rosterAsks = FirstAsks(desk)
  BY DEF CenterInit, FirstBoard
<1>3. /\ DOMAIN desk = DeskFields /\ desk.site = "ALL" /\ DeskRight(desk)
  BY <1>1, CenterAssumption DEF FirstDesk, DeskFields, DeskRight
<1>4. sv = NoSummary
  BY <1>2, CenterAssumption
<1> HIDE DEF sv
<1>5. BoardRight(desk, board) /\ board.newest = 1
  BY <1>2, <1>4 DEF BoardRight, BoardFields, OfReader
<1>6. /\ DOMAIN ld = {"id", "window", "site", "at", "data"} /\ ld.id = 1 /\ ld.window = desk.window
      /\ ld.site = desk.site /\ ld.at = "sent" /\ ld.data = NoSummary
  BY DEF NewLoad
<1> HIDE DEF ld
<1>7. AskedWell(numberAsks, desk, board)
  BY <1>2, <1>3, <1>5, <1>6, CenterAssumption DEF AskedWell
<1>8. KeptRight(kept) /\ SavedRight(saved)
  BY <1>2 DEF KeptRight, SavedRight, OfReader
<1>9. RosterInv
  <2> DEFINE e == EmptyRoster(RosterQuery(desk))
             a == [of |-> RosterQuery(desk), live |-> TRUE]
  <2>1. e.of = RosterQuery(desk) /\ DOMAIN a = {"of", "live"} /\ a.of = RosterQuery(desk) /\ a.live
    BY DEF EmptyRoster
  <2>2. CASE desk.gateway = NoGateway
    <3>1. roster = [data |-> e, loading |-> FALSE, error |-> FALSE] /\ rosterAsks = {}
      BY <1>2, <2>2 DEF FirstRoster, FirstAsks
    <3> HIDE DEF e, a
    <3> QED BY <1>3, <2>1, <3>1 DEF RosterInv, RosterForAsked
  <2>3. CASE desk.gateway # NoGateway
    <3>1. roster = [data |-> e, loading |-> TRUE, error |-> FALSE] /\ rosterAsks = {a}
      BY <1>2, <2>3 DEF FirstRoster, FirstAsks
    <3> HIDE DEF e, a
    <3> QED BY <1>3, <2>1, <2>3, <3>1 DEF RosterInv, RosterForAsked
  <2> QED BY <2>2, <2>3
<1> QED BY <1>3, <1>5, <1>7, <1>8, <1>9 DEF CenterInv, NumbersInv

\* What does not touch the numbers.
LEMMA NumbersStay ==
  ASSUME NumbersInv, UNCHANGED <<board, numberAsks, kept, saved>>,
         DOMAIN desk' = DeskFields, desk'.window = desk.window, desk'.site = desk.site
  PROVE  NumbersInv'
<1>1. DeskRight(desk')
  BY DEF NumbersInv, DeskRight
<1>2. BoardRight(desk', board) /\ AskedWell(numberAsks, desk', board)
  BY DEF NumbersInv, BoardRight, AskedWell
<1> QED BY <1>1, <1>2 DEF NumbersInv

\* A new request, for what is chosen from now on.
LEMMA NumbersAsked ==
  ASSUME NumbersInv, NEW changed \in BOOLEAN, NEW d, DOMAIN d = DeskFields, d.site \in CenterSite,
         changed \/ (d.window = desk.window /\ d.site = desk.site),
         board' = SummaryAsked(board, changed), numberAsks' = numberAsks \cup {NewLoad(d, board.newest + 1)},
         DOMAIN desk' = DeskFields, desk'.window = d.window, desk'.site = d.site, UNCHANGED <<kept, saved>>
  PROVE  NumbersInv'
<1> DEFINE ld == NewLoad(d, board.newest + 1)
           f == board.filtering \/ changed
           b == board'
<1>1. board' = [board EXCEPT !.newest = @ + 1, !.syncing = TRUE, !.filtering = f]
  BY DEF SummaryAsked
<1> HIDE DEF f
<1>2. /\ DOMAIN b = BoardFields /\ b.newest = board.newest + 1 /\ b.syncing /\ b.filtering = f
      /\ b.shown = board.shown /\ b.failed = board.failed
  BY <1>1 DEF NumbersInv, BoardRight, BoardFields
<1> HIDE DEF b
<1>3. board.newest \in Nat \ {0}
  BY DEF NumbersInv, BoardRight
<1>4. BoardRight(desk', b)
  <2>1. b.shown # NoSummary => NumbersOf(b.shown, desk'.window, desk'.site) \/ f \/ b.failed
    BY <1>2 DEF NumbersInv, BoardRight, f
  <2> QED BY <1>2, <1>3, <2>1 DEF NumbersInv, BoardRight
<1>5. /\ DOMAIN ld = {"id", "window", "site", "at", "data"} /\ ld.id = board.newest + 1 /\ ld.window = d.window
      /\ ld.site = d.site /\ ld.at = "sent" /\ ld.data = NoSummary
  BY DEF NewLoad
<1>6. numberAsks' = numberAsks \cup {ld}
  OBVIOUS
<1> HIDE DEF ld
<1>7. ASSUME NEW r \in numberAsks
      PROVE  r.id \in Nat /\ r.id <= b.newest /\ r.id # b.newest
  BY <1>2, <1>3 DEF NumbersInv, AskedWell
<1>8. AskedWell(numberAsks', desk', b)
  <2>1. ASSUME NEW r \in numberAsks'
        PROVE  /\ DOMAIN r = {"id", "window", "site", "at", "data"}
               /\ r.id \in Nat /\ r.id <= b.newest /\ r.site \in CenterSite
               /\ r.at \in {"sent", "working", "ready"}
               /\ IF r.at = "sent" THEN r.data = NoSummary ELSE NumbersOf(r.data, r.window, r.site)
               /\ r.id = b.newest => r.window = desk'.window /\ r.site = desk'.site
    <3>1. CASE r = ld
      BY <1>2, <1>3, <1>5, <3>1
    <3>2. CASE r \in numberAsks
      BY <1>7, <3>2 DEF NumbersInv, AskedWell
    <3> QED BY <1>6, <2>1, <3>1, <3>2
  <2> QED BY <1>2, <1>5, <1>6, <2>1 DEF AskedWell
<1>9. DeskRight(desk')
  BY DEF DeskRight
<1>10. KeptRight(kept') /\ SavedRight(saved')
  BY DEF NumbersInv
<1> QED BY <1>4, <1>8, <1>9, <1>10 DEF NumbersInv, b

\* A request one step further.
LEMMA NumbersWorked ==
  ASSUME NumbersInv, NEW r \in numberAsks, NEW x, numberAsks' = (numberAsks \ {r}) \cup {x},
         DOMAIN x = DOMAIN r, x.id = r.id, x.window = r.window, x.site = r.site, x.at \in {"working", "ready"},
         NumbersOf(x.data, r.window, r.site), UNCHANGED <<desk, board, saved>>, KeptRight(kept')
  PROVE  NumbersInv'
<1>1. AskedWell(numberAsks', desk, board)
  BY DEF NumbersInv, AskedWell
<1> QED BY <1>1 DEF NumbersInv

\* A summary is of its window, and of the sites the choice covers.
LEMMA ComputedFor ==
  ASSUME NEW who, NEW w, NEW c, NEW st
  PROVE  /\ Computed(who, w, c, st).window = w /\ Computed(who, w, c, st).covers = SitesOf[who][c]
         /\ SummaryKey(who, w, c) = <<w, SitesOf[who][c]>>
         /\ NumbersOf(Computed("me", w, c, st), w, c)
<1> DEFINE g(x) == GatewaysHeard(SitesOf[x][c], w)
<1>1. \A x : Computed(x, w, c, st) = [window |-> w, covers |-> SitesOf[x][c], gateways |-> g(x), stamp |-> st]
  BY DEF Computed
<1> HIDE DEF g
<1> QED BY <1>1 DEF SummaryKey, NumbersOf, Mine

LEMMA KeptStaysRight ==
  ASSUME KeptRight(kept), NEW key, NEW s, key = <<s.window, s.covers>>
  PROVE  KeptRight(Upsert(key, s))
BY DEF KeptRight, Upsert

LEMMA NumbersServed ==
  ASSUME NumbersInv, NEW r \in numberAsks, ServerReads(r) \/ ServerKeeps(r)
  PROVE  NumbersInv'
<1>0. DOMAIN r = {"id", "window", "site", "at", "data"}
  BY DEF NumbersInv, AskedWell
<1> DEFINE row == FreshRow(SummaryKey("me", r.window, r.site))
           c == Computed("me", r.window, r.site, center.stamps + 1)
<1>1. ASSUME NEW k \in row, ServerReads(r),
             numberAsks' = (numberAsks \ {r}) \cup {[r EXCEPT !.at = "ready", !.data = k.summary]}
      PROVE  NumbersInv'
  <2> DEFINE s == k.summary
             x == [r EXCEPT !.at = "ready", !.data = s]
  <2>1. k \in kept /\ k.key = SummaryKey("me", r.window, r.site)
    BY <1>1 DEF FreshRow
  <2>2. k.key = <<s.window, s.covers>>
    BY <2>1 DEF NumbersInv, KeptRight
  <2>3. NumbersOf(s, r.window, r.site)
    BY <2>1, <2>2 DEF SummaryKey, NumbersOf, Mine
  <2>4. numberAsks' = (numberAsks \ {r}) \cup {x} /\ UNCHANGED <<desk, board, saved, kept>>
    BY <1>1 DEF ServerReads
  <2> HIDE DEF s
  <2>5. DOMAIN x = DOMAIN r /\ x.id = r.id /\ x.window = r.window /\ x.site = r.site /\ x.at = "ready" /\ x.data = s
    BY <1>0
  <2> HIDE DEF x
  <2>6. KeptRight(kept')
    BY <2>4 DEF NumbersInv
  <2> QED BY <2>3, <2>4, <2>5, <2>6, NumbersWorked
<1>2. ASSUME numberAsks' = (numberAsks \ {r}) \cup {[r EXCEPT !.at = "working", !.data = c]}, ServerReads(r)
      PROVE  NumbersInv'
  <2> DEFINE x == [r EXCEPT !.at = "working", !.data = c]
  <2>1. numberAsks' = (numberAsks \ {r}) \cup {x} /\ UNCHANGED <<desk, board, saved, kept>>
    BY <1>2 DEF ServerReads
  <2>2. NumbersOf(c, r.window, r.site)
    BY ComputedFor
  <2> HIDE DEF c
  <2>3. DOMAIN x = DOMAIN r /\ x.id = r.id /\ x.window = r.window /\ x.site = r.site /\ x.at = "working" /\ x.data = c
    BY <1>0
  <2> HIDE DEF x
  <2>4. KeptRight(kept')
    BY <2>1 DEF NumbersInv
  <2> QED BY <2>1, <2>2, <2>3, <2>4, NumbersWorked
<1>3. CASE ServerReads(r)
  <2>1. \/ \E k \in row : numberAsks' = (numberAsks \ {r}) \cup {[r EXCEPT !.at = "ready", !.data = k.summary]}
        \/ numberAsks' = (numberAsks \ {r}) \cup {[r EXCEPT !.at = "working", !.data = c]}
    BY <1>3 DEF ServerReads
  <2> HIDE DEF row, c
  <2> QED BY <1>1, <1>2, <1>3, <2>1
<1>4. CASE ServerKeeps(r)
  <2> DEFINE x == [r EXCEPT !.at = "ready"]
  <2>1. /\ r.at = "working" /\ kept' = Upsert(SummaryKey("me", r.window, r.site), r.data)
        /\ numberAsks' = (numberAsks \ {r}) \cup {x} /\ UNCHANGED <<desk, board, saved>>
    BY <1>4 DEF ServerKeeps
  <2>2. NumbersOf(r.data, r.window, r.site)
    BY <2>1 DEF NumbersInv, AskedWell
  <2>3. DOMAIN x = DOMAIN r /\ x.id = r.id /\ x.window = r.window /\ x.site = r.site /\ x.at = "ready" /\ x.data = r.data
    BY <1>0
  <2> HIDE DEF x
  <2>4. SummaryKey("me", r.window, r.site) = <<r.data.window, r.data.covers>>
    BY <2>2 DEF SummaryKey, NumbersOf, Mine
  <2>5. KeptRight(kept')
    BY <2>1, <2>4, KeptStaysRight DEF NumbersInv
  <2> QED BY <2>1, <2>2, <2>3, <2>5, NumbersWorked
<1> QED BY <1>3, <1>4

\* An answer, or none.
LEMMA NumbersArrive ==
  ASSUME NumbersInv, NEW r \in numberAsks, SummaryArrives(r) \/ SummaryFails(r)
  PROVE  NumbersInv'
<1>0. board.newest \in Nat
  BY DEF NumbersInv, BoardRight
<1>1. /\ numberAsks' = numberAsks \ {r} /\ kept' = kept /\ KeptRight(kept')
  BY DEF SummaryArrives, SummaryFails, NumbersInv
<1>2. SavedRight(saved')
  <2>1. CASE saved' = saved
    BY <2>1 DEF NumbersInv
  <2>2. CASE saved' # saved
    <3>1. r.at = "ready" /\ saved' = [saved EXCEPT ![<<r.window, r.site>>] = r.data]
      BY <2>2 DEF SummaryArrives, SummaryFails
    <3>2. OfReader(r.data)
      BY <3>1 DEF NumbersInv, AskedWell, NumbersOf, OfReader
    <3> QED BY <3>1, <3>2 DEF NumbersInv, SavedRight
  <2> QED BY <2>1, <2>2
<1>3. CASE r.id # board.newest
  <2>1. UNCHANGED <<desk, board>>
    BY <1>3 DEF SummaryArrives, SummaryFails, IsNewest
  <2>2. AskedWell(numberAsks', desk, board)
    BY <1>1, <1>3 DEF NumbersInv, AskedWell
  <2> QED BY <1>1, <1>2, <2>1, <2>2 DEF NumbersInv
<1>4. CASE r.id = board.newest /\ SummaryArrives(r)
  <2> DEFINE b == [board EXCEPT !.shown = r.data, !.failed = FALSE, !.syncing = FALSE, !.filtering = FALSE]
  <2>1. r.at = "ready" /\ Renders(desk, b, TRUE, FALSE)
    BY <1>4 DEF SummaryArrives, IsNewest
  <2>2. /\ DOMAIN b = BoardFields /\ b.newest = board.newest /\ ~ b.syncing /\ ~ b.filtering /\ b.shown = r.data
    BY DEF NumbersInv, BoardRight, BoardFields
  <2> HIDE DEF b
  <2>3. /\ DOMAIN desk' = DeskFields /\ desk'.window = desk.window /\ desk'.site = desk.site /\ board' = b
    BY <2>1, CenterRenders DEF NumbersInv, DeskRight
  <2>4. NumbersOf(r.data, desk.window, desk.site) /\ desk.site \in CenterSite
    BY <1>4, <2>1 DEF NumbersInv, AskedWell, DeskRight
  <2>5. OfReader(r.data)
    BY <2>4 DEF NumbersOf, OfReader
  <2>6. BoardRight(desk', b)
    BY <2>2, <2>3, <2>4, <2>5 DEF BoardRight, NumbersInv
  <2>7. AskedWell(numberAsks', desk', b)
    BY <1>1, <2>2, <2>3 DEF NumbersInv, AskedWell
  <2>8. DeskRight(desk')
    BY <2>3, <2>4 DEF DeskRight
  <2> QED BY <1>1, <1>2, <2>3, <2>6, <2>7, <2>8 DEF NumbersInv
<1>5. CASE r.id = board.newest /\ SummaryFails(r)
  <2> DEFINE b == [board EXCEPT !.failed = TRUE, !.syncing = FALSE, !.filtering = FALSE]
  <2>1. board' = b /\ UNCHANGED desk
    BY <1>5 DEF SummaryFails, IsNewest
  <2>2. /\ DOMAIN b = BoardFields /\ b.newest = board.newest /\ ~ b.syncing /\ ~ b.filtering /\ b.shown = board.shown
        /\ b.failed
    BY DEF NumbersInv, BoardRight, BoardFields
  <2> HIDE DEF b
  <2>3. BoardRight(desk, b)
    BY <2>2 DEF BoardRight, NumbersInv
  <2>4. AskedWell(numberAsks', desk, b)
    BY <1>1, <2>2 DEF NumbersInv, AskedWell
  <2> QED BY <1>1, <1>2, <2>1, <2>3, <2>4 DEF NumbersInv
<1> QED BY <1>3, <1>4, <1>5

-----------------------------------------------------------------------------
\* What does not touch the meters.
LEMMA RosterStays ==
  ASSUME RosterInv, UNCHANGED <<desk, roster, rosterAsks>>
  PROVE  RosterInv'
BY DEF RosterInv, RosterForAsked

\* An answer for the meters: the request that counts, or one that was given up.
LEMMA RosterArrives ==
  ASSUME CenterInv, NEW r \in rosterAsks, MetersArrive(r) \/ MetersFail(r)
  PROVE  CenterInv'
<1>0. DOMAIN desk = DeskFields /\ UNCHANGED <<numberAsks, kept, saved>>
  BY DEF CenterInv, RosterInv, MetersArrive, MetersFail
<1> DEFINE data == RosterPage(r.of)
           d == [desk EXCEPT !.page = data.pages - 1]
<1>1. data.of = r.of
  BY DEF RosterPage
<1>2. /\ DOMAIN d = DeskFields /\ d.window = desk.window /\ d.site = desk.site /\ d.gateway = desk.gateway
  BY <1>0 DEF DeskFields
<1>3. CASE Renders(d, board, FALSE, FALSE)
  <2> HIDE DEF d
  <2>1. StillSelected(d, board)
    BY <1>2 DEF StillSelected
  <2>2. /\ DOMAIN desk' = DeskFields /\ desk'.window = d.window /\ desk'.site = d.site /\ board' = board
        /\ RosterInv'
    BY <1>0, <1>2, <1>3, <2>1, CenterRenders DEF CenterInv
  <2> QED BY <1>0, <1>2, <2>2, NumbersStay DEF CenterInv
<1>4. CASE ~ Renders(d, board, FALSE, FALSE) /\ MetersArrive(r)
  <2>1. /\ rosterAsks' = rosterAsks \ {r} /\ UNCHANGED <<desk, board>>
        /\ IF r.live THEN roster' = [data |-> data, loading |-> FALSE, error |-> FALSE] ELSE roster' = roster
    BY <1>4 DEF MetersArrive
  <2> HIDE DEF data
  <2>2. r.live => data.of = RosterQuery(desk)
    BY <1>1 DEF CenterInv, RosterInv
  <2>3. RosterInv'
    <3>1. CASE r.live
      <4>1. DOMAIN roster' = {"data", "loading", "error"} /\ ~ roster'.loading /\ roster'.data = data
        BY <2>1, <3>1
      <4> QED BY <2>1, <2>2, <3>1, <4>1 DEF CenterInv, RosterInv, RosterForAsked
    <3>2. CASE ~ r.live
      BY <2>1, <3>2 DEF CenterInv, RosterInv, RosterForAsked
    <3> QED BY <3>1, <3>2
  <2> QED BY <1>0, <2>1, <2>3, NumbersStay DEF CenterInv
<1>5. CASE MetersFail(r)
  <2> DEFINE e == EmptyRoster(r.of)
  <2>1. /\ rosterAsks' = rosterAsks \ {r} /\ UNCHANGED <<desk, board>>
        /\ roster' = IF r.live THEN [data |-> e, loading |-> FALSE, error |-> TRUE] ELSE roster
    BY <1>5 DEF MetersFail
  <2> HIDE DEF e
  <2>2. RosterInv'
    <3>1. CASE r.live
      <4>1. DOMAIN roster' = {"data", "loading", "error"} /\ ~ roster'.loading /\ roster'.error
        BY <2>1, <3>1
      <4> QED BY <2>1, <3>1, <4>1 DEF CenterInv, RosterInv, RosterForAsked
    <3>2. CASE ~ r.live
      BY <2>1, <3>2 DEF CenterInv, RosterInv, RosterForAsked
    <3> QED BY <3>1, <3>2
  <2> QED BY <1>0, <2>1, <2>2, NumbersStay DEF CenterInv
<1> QED BY <1>3, <1>4, <1>5

\* Leaving the page and coming back.
LEMMA CenterComesBack ==
  ASSUME CenterInv, NEW g, ComesBack(g)
  PROVE  CenterInv'
<1> DEFINE b == FirstBoard(saved)
           f == FirstDesk(g)
           d == FirstSelected(f, b)
           ld == NewLoad(d, 1)
           old == {[r EXCEPT !.id = 0] : r \in numberAsks}
<1>1. /\ desk' = d /\ board' = b /\ numberAsks' = old \cup {ld} /\ UNCHANGED <<kept, saved>>
      /\ roster' = FirstRoster(d) /\ rosterAsks' = GivenUp \cup FirstAsks(d)
  BY DEF ComesBack
<1>2. DOMAIN d = DeskFields /\ d.site = "ALL" /\ DeskRight(d)
  <2>1. DOMAIN f = DeskFields /\ f.site = "ALL"
    BY DEF FirstDesk, DeskFields
  <2> HIDE DEF f
  <2> DEFINE x == <<CurrentGateways(b)[1]>>
             e == [f EXCEPT !.gateway = x]
  <2>2. d = f \/ d = e
    BY DEF FirstSelected
  <2> HIDE DEF x, d
  <2>3. DOMAIN e = DeskFields /\ e.site = "ALL"
    BY <2>1 DEF DeskFields
  <2> QED BY <2>1, <2>2, <2>3, CenterAssumption DEF DeskRight
<1> HIDE DEF d
<1>3. BoardRight(d, b) /\ b.newest = 1
  <2> DEFINE s == saved[<<"7D", "ALL">>]
  <2>1. b = [shown |-> s, newest |-> 1, syncing |-> TRUE, filtering |-> TRUE, failed |-> FALSE]
    BY DEF FirstBoard
  <2>2. OfReader(s)
    BY CenterAssumption DEF CenterInv, NumbersInv, SavedRight
  <2> HIDE DEF s, b
  <2> QED BY <2>1, <2>2 DEF BoardRight, BoardFields
<1> HIDE DEF b
<1>4. /\ DOMAIN ld = {"id", "window", "site", "at", "data"} /\ ld.id = 1 /\ ld.window = d.window
      /\ ld.site = d.site /\ ld.at = "sent" /\ ld.data = NoSummary
  BY DEF NewLoad
<1> HIDE DEF ld
<1>5. ASSUME NEW q \in old
      PROVE  /\ DOMAIN q = {"id", "window", "site", "at", "data"}
             /\ q.id = 0 /\ q.site \in CenterSite /\ q.at \in {"sent", "working", "ready"}
             /\ IF q.at = "sent" THEN q.data = NoSummary ELSE NumbersOf(q.data, q.window, q.site)
  <2>1. PICK r \in numberAsks : q = [r EXCEPT !.id = 0]
    OBVIOUS
  <2>2. /\ DOMAIN r = {"id", "window", "site", "at", "data"} /\ r.site \in CenterSite
        /\ r.at \in {"sent", "working", "ready"}
        /\ IF r.at = "sent" THEN r.data = NoSummary ELSE NumbersOf(r.data, r.window, r.site)
    BY DEF CenterInv, NumbersInv, AskedWell
  <2>3. /\ DOMAIN q = {"id", "window", "site", "at", "data"} /\ q.id = 0 /\ q.site = r.site /\ q.at = r.at
        /\ q.data = r.data /\ q.window = r.window
    BY <2>1, <2>2
  <2> QED BY <2>2, <2>3
<1> HIDE DEF old
<1>6. AskedWell(numberAsks', d, b)
  BY <1>1, <1>2, <1>3, <1>4, <1>5 DEF AskedWell, DeskRight
<1>7. NumbersInv'
  BY <1>1, <1>2, <1>3, <1>6 DEF CenterInv, NumbersInv
<1>8. RosterInv'
  <2> DEFINE q == RosterQuery(d)
             e == EmptyRoster(q)
             a == [of |-> q, live |-> TRUE]
  <2>1. e.of = q /\ DOMAIN a = {"of", "live"} /\ a.of = q /\ a.live
    BY DEF EmptyRoster
  <2>2. \A r \in GivenUp : DOMAIN r = {"of", "live"} /\ ~ r.live
    BY DEF GivenUp, CenterInv, RosterInv
  <2>3. RosterQuery(desk)' = q
    BY <1>1 DEF RosterQuery
  <2>4. CASE d.gateway = NoGateway
    <3>1. roster' = [data |-> e, loading |-> FALSE, error |-> FALSE] /\ rosterAsks' = GivenUp
      BY <1>1, <2>4 DEF FirstRoster, FirstAsks
    <3> HIDE DEF q, e, a
    <3>2. DOMAIN roster' = {"data", "loading", "error"} /\ ~ roster'.loading /\ roster'.data = e
      BY <3>1
    <3> QED BY <1>1, <1>2, <2>1, <2>2, <2>3, <3>1, <3>2 DEF RosterInv, RosterForAsked
  <2>5. CASE d.gateway # NoGateway
    <3>1. roster' = [data |-> e, loading |-> TRUE, error |-> FALSE] /\ rosterAsks' = GivenUp \cup {a}
      BY <1>1, <2>5 DEF FirstRoster, FirstAsks
    <3> HIDE DEF q, e, a
    <3>2. DOMAIN roster' = {"data", "loading", "error"} /\ roster'.loading
      BY <3>1
    <3> QED BY <1>1, <1>2, <2>1, <2>2, <2>3, <2>5, <3>1, <3>2 DEF RosterInv, RosterForAsked
  <2> QED BY <2>4, <2>5
<1> QED BY <1>7, <1>8 DEF CenterInv

-----------------------------------------------------------------------------
\* A press or an answer that changes the choice within the window and the site.
LEMMA CenterPressed ==
  ASSUME CenterInv, NEW d, NEW re, Renders(d, board, FALSE, re), UNCHANGED <<numberAsks, kept, saved>>,
         DOMAIN d = DeskFields, d.window = desk.window, d.site = desk.site, StillSelected(d, board)
  PROVE  CenterInv'
<1>1. DOMAIN desk = DeskFields
  BY DEF CenterInv, RosterInv
<1>2. /\ DOMAIN desk' = DeskFields /\ desk'.window = d.window /\ desk'.site = d.site /\ board' = board
      /\ RosterInv'
  BY <1>1, CenterRenders DEF CenterInv
<1> QED BY <1>2, NumbersStay DEF CenterInv

\* A window or a site.
LEMMA CenterFilters ==
  ASSUME CenterInv, NEW d, Filters(d), DOMAIN d = DeskFields, d.site \in CenterSite, d.gateway = desk.gateway
  PROVE  CenterInv'
<1> DEFINE b == SummaryAsked(board, TRUE)
<1>1. /\ Renders(d, b, FALSE, FALSE) /\ UNCHANGED <<kept, saved>>
      /\ numberAsks' = numberAsks \cup {NewLoad(d, board.newest + 1)}
  BY DEF Filters
<1>2. DOMAIN desk = DeskFields
  BY DEF CenterInv, RosterInv
<1> HIDE DEF b
<1>3. StillSelected(d, b)
  BY DEF StillSelected
<1>4. /\ DOMAIN desk' = DeskFields /\ desk'.window = d.window /\ desk'.site = d.site /\ board' = b
      /\ RosterInv'
  BY <1>1, <1>2, <1>3, CenterRenders DEF CenterInv
<1>5. NumbersInv'
  <2> DEFINE changed == TRUE
  <2>1. changed \in BOOLEAN /\ changed /\ board' = SummaryAsked(board, changed)
    BY <1>4 DEF b
  <2> HIDE DEF changed
  <2> QED BY <1>1, <1>4, <2>1, NumbersAsked DEF CenterInv
<1> QED BY <1>4, <1>5 DEF CenterInv

LEMMA CenterKept ==
  ASSUME CenterInv, [CenterNext]_centerVars
  PROVE  CenterInv'
<1>0. DOMAIN desk = DeskFields /\ desk.site \in CenterSite
  BY DEF CenterInv, NumbersInv, DeskRight
<1> DEFINE Within(d) ==
             /\ DOMAIN d = DeskFields /\ d.window = desk.window /\ d.site = desk.site /\ StillSelected(d, board)
<1>1. ASSUME NEW d, NEW re, Renders(d, board, FALSE, re), Within(d), UNCHANGED <<numberAsks, kept, saved>>
      PROVE  CenterInv'
  BY <1>1, CenterPressed
<1>2. ASSUME NEW d, NEW re, Presses(d, re), Within(d)
      PROVE  CenterInv'
  BY <1>1, <1>2 DEF Presses
<1>3. ASSUME UNCHANGED <<desk, board, numberAsks, kept, saved, roster, rosterAsks>>
      PROVE  CenterInv'
  BY <1>0, <1>3, NumbersStay, RosterStays DEF CenterInv
<1>4. ASSUME NEW w, ChooseWindow(w)
      PROVE  CenterInv'
  <2> DEFINE d == [desk EXCEPT !.window = w]
  <2>1. DOMAIN d = DeskFields /\ d.site = desk.site /\ d.gateway = desk.gateway
    BY <1>0 DEF DeskFields
  <2>2. Filters(d)
    BY <1>4 DEF ChooseWindow
  <2> HIDE DEF d
  <2> QED BY <1>0, <2>1, <2>2, CenterFilters
<1>5. ASSUME NEW s \in CenterSite, ChooseCenterSite(s)
      PROVE  CenterInv'
  <2> DEFINE d == [desk EXCEPT !.site = s]
  <2>1. DOMAIN d = DeskFields /\ d.site = s /\ d.gateway = desk.gateway
    BY <1>0 DEF DeskFields
  <2>2. Filters(d)
    BY <1>5 DEF ChooseCenterSite
  <2> HIDE DEF d
  <2> QED BY <2>1, <2>2, CenterFilters
<1>6. ASSUME NEW r \in numberAsks, ServerReads(r) \/ ServerKeeps(r)
      PROVE  CenterInv'
  <2>1. UNCHANGED <<desk, roster, rosterAsks>>
    BY <1>6 DEF ServerReads, ServerKeeps
  <2> QED BY <1>6, <2>1, NumbersServed, RosterStays DEF CenterInv
<1>7. ASSUME NEW r \in numberAsks, SummaryArrives(r) \/ SummaryFails(r)
      PROVE  CenterInv'
  <2>1. NumbersInv'
    BY <1>7, NumbersArrive DEF CenterInv
  <2>2. CASE UNCHANGED <<desk, roster, rosterAsks>>
    BY <2>1, <2>2, RosterStays DEF CenterInv
  <2>3. CASE ~ UNCHANGED <<desk, roster, rosterAsks>>
    <3> DEFINE b == [board EXCEPT !.shown = r.data, !.failed = FALSE, !.syncing = FALSE, !.filtering = FALSE]
    <3>1. Renders(desk, b, TRUE, FALSE)
      BY <1>7, <2>3 DEF SummaryArrives, SummaryFails
    <3> HIDE DEF b
    <3>2. StillSelected(desk, b)
      BY DEF StillSelected
    <3>3. RosterInv'
      BY <1>0, <3>1, <3>2, CenterRenders DEF CenterInv
    <3> QED BY <2>1, <3>3 DEF CenterInv
  <2> QED BY <2>2, <2>3
<1>8. CASE CenterRefresh
  <2> DEFINE changed == FALSE
  <2>1. /\ board' = SummaryAsked(board, changed) /\ changed \in BOOLEAN
        /\ numberAsks' = numberAsks \cup {NewLoad(desk, board.newest + 1)}
        /\ UNCHANGED <<desk, kept, saved, roster, rosterAsks>>
    BY <1>8 DEF CenterRefresh
  <2> HIDE DEF changed
  <2>2. NumbersInv'
    BY <1>0, <2>1, NumbersAsked DEF CenterInv
  <2> QED BY <2>1, <2>2, RosterStays DEF CenterInv
<1>9. ASSUME UNCHANGED <<desk, board, numberAsks, saved, roster, rosterAsks>>, KeptRight(kept')
      PROVE  CenterInv'
  <2>1. NumbersInv'
    BY <1>9 DEF CenterInv, NumbersInv
  <2> QED BY <1>9, <2>1, RosterStays DEF CenterInv
<1>10. ASSUME NEW who, NEW w, NEW s, OtherLooks(who, w, s)
       PROVE  CenterInv'
  <2> DEFINE key == SummaryKey(who, w, s)
             c == Computed(who, w, s, center.stamps + 1)
  <2>1. kept' = Upsert(key, c) /\ UNCHANGED <<desk, board, numberAsks, saved, roster, rosterAsks>>
    BY <1>10 DEF OtherLooks
  <2>2. key = <<c.window, c.covers>>
    BY ComputedFor
  <2> HIDE DEF key, c
  <2>3. KeptRight(kept')
    BY <2>1, <2>2, KeptStaysRight DEF CenterInv, NumbersInv
  <2> QED BY <1>9, <2>1, <2>3
<1>11. CASE RowsAge
  <2>1. kept' = {[k EXCEPT !.fresh = FALSE] : k \in kept}
        /\ UNCHANGED <<desk, board, numberAsks, saved, roster, rosterAsks>>
    BY <1>11 DEF RowsAge
  <2>2. ASSUME NEW q \in kept'
        PROVE  DOMAIN q = {"key", "summary", "fresh"} /\ q.key = <<q.summary.window, q.summary.covers>>
    <3>1. PICK k \in kept : q = [k EXCEPT !.fresh = FALSE]
      BY <2>1
    <3>2. DOMAIN k = {"key", "summary", "fresh"} /\ k.key = <<k.summary.window, k.summary.covers>>
      BY DEF CenterInv, NumbersInv, KeptRight
    <3>3. DOMAIN q = {"key", "summary", "fresh"} /\ q.key = k.key /\ q.summary = k.summary
      BY <3>1, <3>2
    <3> QED BY <3>2, <3>3
  <2>3. KeptRight(kept')
    BY <2>2 DEF KeptRight
  <2> QED BY <1>9, <2>1, <2>3
<1>12. ASSUME NEW i \in DOMAIN CurrentGateways(board), ClickGateway(i)
       PROVE  CenterInv'
  <2> DEFINE g == <<CurrentGateways(board)[i]>>
             k == IF desk.gateway = g THEN NoGateway ELSE g
             d == [desk EXCEPT !.gateway = k]
  <2>1. Presses(d, FALSE)
    BY <1>12 DEF ClickGateway
  <2>2. CurrentGateways(board) # <<>>
    OBVIOUS
  <2> HIDE DEF k
  <2>3. Within(d)
    BY <1>0, <2>2 DEF DeskFields, StillSelected
  <2> HIDE DEF d
  <2> QED BY <1>2, <2>1, <2>3
<1>13. ASSUME NEW g, FollowLink(g)
       PROVE  CenterInv'
  <2> DEFINE d == [desk EXCEPT !.gateway = g]
  <2>1. Presses(d, FALSE) /\ g # NoGateway
    BY <1>13 DEF FollowLink
  <2>2. Within(d)
    BY <1>0, <2>1 DEF DeskFields, StillSelected
  <2> HIDE DEF d
  <2> QED BY <1>2, <2>1, <2>2
<1>14. CASE RetryMeters
  <2>1. Presses(desk, TRUE)
    BY <1>14 DEF RetryMeters
  <2>2. Within(desk)
    BY <1>0 DEF StillSelected
  <2> QED BY <1>2, <2>1, <2>2
<1>15. ASSUME NEW x, \/ Presses([desk EXCEPT !.filter = x], FALSE)
                     \/ Presses([desk EXCEPT !.page = x], FALSE)
                     \/ Presses([desk EXCEPT !.meter = x], FALSE)
                     \/ Presses([desk EXCEPT !.text = x], FALSE)
       PROVE  CenterInv'
  <2>1. \A d \in {[desk EXCEPT !.filter = x], [desk EXCEPT !.page = x], [desk EXCEPT !.meter = x],
                  [desk EXCEPT !.text = x]} : Within(d)
    BY <1>0 DEF DeskFields, StillSelected
  <2>2. PICK d \in {[desk EXCEPT !.filter = x], [desk EXCEPT !.page = x], [desk EXCEPT !.meter = x],
                    [desk EXCEPT !.text = x]} : Presses(d, FALSE)
    BY <1>15
  <2> QED BY <1>2, <2>1, <2>2
<1>16. CASE (\E f \in MeterFilter : FilterMeters(f)) \/ NextMeters \/ PreviousMeters \/ CloseInspector
            \/ \E i \in DOMAIN roster.data.rows : ClickMeter(i)
  BY <1>15, <1>16 DEF FilterMeters, NextMeters, PreviousMeters, CloseInspector, ClickMeter
<1>17. ASSUME NEW text, Types(text)
       PROVE  CenterInv'
  <2> DEFINE found == FoundGateways(text, board)
             first == CHOOSE i \in found : \A j \in found : i <= j
             g == <<CurrentGateways(board)[first]>>
             e == [desk EXCEPT !.text = text]
             d == [e EXCEPT !.gateway = g]
  <2>1. Presses(e, FALSE) \/ Presses(d, FALSE)
    BY <1>17 DEF Types
  <2>2. g # NoGateway
    BY DEF NoGateway
  <2> HIDE DEF g
  <2>3. Within(e) /\ Within(d)
    BY <1>0, <2>2 DEF DeskFields, StillSelected
  <2> HIDE DEF e, d
  <2> QED BY <1>2, <2>1, <2>3
<1>18. CASE CenterPauseEnds
  <2> DEFINE d == [desk EXCEPT !.pause = FALSE]
  <2>1. desk' = d /\ UNCHANGED <<board, numberAsks, kept, saved, roster, rosterAsks>>
    BY <1>18 DEF CenterPauseEnds
  <2>2. /\ DOMAIN d = DeskFields /\ d.window = desk.window /\ d.site = desk.site /\ d.gateway = desk.gateway
        /\ d.filter = desk.filter /\ d.page = desk.page
    BY <1>0 DEF DeskFields
  <2> HIDE DEF d
  <2>3. NumbersInv'
    BY <2>1, <2>2, NumbersStay DEF CenterInv
  <2>4. RosterQuery(desk)' = RosterQuery(desk)
    BY <2>1, <2>2 DEF RosterQuery
  <2>5. RosterInv'
    BY <2>1, <2>2, <2>4 DEF CenterInv, RosterInv, RosterForAsked
  <2> QED BY <2>3, <2>5 DEF CenterInv
<1>19. ASSUME NEW l, NamedFound(l)
       PROVE  CenterInv'
  <2>1. CASE UNCHANGED <<desk, board, roster, rosterAsks>>
    BY <1>3, <1>19, <2>1 DEF NamedFound
  <2>2. CASE ~ UNCHANGED <<desk, board, roster, rosterAsks>>
    <3>1. PICK f : Renders([desk EXCEPT !.meter = f.meter,
                              !.gateway = IF l.how = "frame" THEN @ ELSE <<f.gateway>>], board, FALSE, FALSE)
      BY <1>19, <2>2 DEF NamedFound
    <3> DEFINE x == <<f.gateway>>
               g == IF l.how = "frame" THEN desk.gateway ELSE x
               d == [desk EXCEPT !.meter = f.meter, !.gateway = g]
    <3>2. Renders(d, board, FALSE, FALSE) /\ UNCHANGED <<numberAsks, kept, saved>>
      BY <1>19, <3>1 DEF NamedFound
    <3>3. g = NoGateway => desk.gateway = NoGateway
      <4>1. x # NoGateway
        BY DEF NoGateway
      <4> QED BY <4>1
    <3> HIDE DEF g
    <3>4. Within(d)
      BY <1>0, <3>3 DEF DeskFields, StillSelected
    <3> HIDE DEF d
    <3> QED BY <1>1, <3>2, <3>4
  <2> QED BY <2>1, <2>2
<1>20. CASE FrameStored \/ (\E i \in 1..stored : \E how \in {"frame", "link"} : NameMeter(CenterFrames[i].meter, how))
            \/ UNCHANGED centerVars
  BY <1>3, <1>20 DEF FrameStored, NameMeter, centerVars
<1>21. CASE SummaryNext
  BY <1>4, <1>5, <1>6, <1>7, <1>20, <1>21 DEF SummaryNext
<1>22. CASE NumbersNext
  BY <1>8, <1>10, <1>11, <1>22 DEF NumbersNext
<1>23. CASE ReturnNext
  BY <1>23, CenterComesBack DEF ReturnNext
<1>24. CASE RosterNext
  BY <1>12, <1>13, <1>14, <1>16, <1>24, RosterArrives DEF RosterNext
<1>25. CASE LookupNext
  BY <1>17, <1>18, <1>19, <1>20, <1>25 DEF LookupNext
<1> QED BY <1>20, <1>21, <1>22, <1>23, <1>24, <1>25 DEF CenterNext

LEMMA CenterTold == CenterInv => NumbersTold /\ NumbersOfReader /\ RosterForAsked
<1> SUFFICES ASSUME CenterInv PROVE NumbersTold /\ NumbersOfReader /\ RosterForAsked
  OBVIOUS
<1>1. NumbersTold
  BY DEF CenterInv, NumbersInv, NumbersTold, BoardRight, AskedWell, NumbersOf
<1>2. \A r \in numberAsks : OfReader(r.data)
  BY DEF CenterInv, NumbersInv, AskedWell, NumbersOf, OfReader
<1>3. NumbersOfReader
  BY <1>2 DEF CenterInv, NumbersInv, BoardRight, SavedRight, OfReader, NumbersOfReader
<1> QED BY <1>1, <1>3 DEF CenterInv, RosterInv

-----------------------------------------------------------------------------
(* The map of the explorer: what the effects of a render leave and what they  *)
(* change, and that what they draw is the page.                               *)

\* What no effect touches.
LeftAlone == {"site", "of", "gws", "pts", "base", "ready", "view", "status", "search", "layers", "set",
              "unknown", "disturbed"}

LeftBy(e, f) == DOMAIN f = ExFields /\ \A x \in LeftAlone : f[x] = e[x]

\* A gateway that is chosen is of the area, once the area is known.
ChosenOf(e) == e.of = e.site /\ e.gws # {} => e.chosen \in e.gws \cup {AllAreas}

\* What is said of the effects, with f the page after them.
CardAfter(old, e, f) ==
  IF e.site = old.site THEN f.card = e.card /\ f.early = e.early ELSE f.card = NoMeterCard /\ ~ f.early
ChoiceAfter(e, f) ==
  /\ ChosenOf(f)
  /\ \/ f.chosen = e.chosen /\ f.coverage = e.coverage
     \/ f.chosen = AllAreas /\ f.coverage = Nobody
     \/ f.chosen # AllAreas /\ f.coverage = f.chosen
RadiusAfter(old, e, f) ==
  IF Opens(old, f) THEN f.radius = DefaultRadius(FocusGateway(f)) /\ ~ f.slid
  ELSE f.radius = e.radius /\ f.slid = e.slid
FitAfter(f) == f.ready /\ f.of = f.site /\ f.gws \cup f.pts # {} => f.fitted = f.site

LEMMA EffectsDo ==
  ASSUME NEW old, NEW e, DOMAIN e = ExFields
  PROVE  LET f == Effects(old, e)
         IN LeftBy(e, f) /\ CardAfter(old, e, f) /\ ChoiceAfter(e, f) /\ RadiusAfter(old, e, f) /\ FitAfter(f)
<1> DEFINE e1 == AreaSlate(old, e)
           e2 == GatewayGone(e1)
           e3 == ChosenOpens(old, e2)
           e4 == OwnRadius(old, e3)
           e5 == FitOnce(e4)
           e6 == SearchLook(old, e5)
           e7 == GatewayLook(old, e6)
<1>1. Effects(old, e) = e7
  BY DEF Effects
<1>2. /\ LeftBy(e, e1) /\ CardAfter(old, e, e1)
      /\ e1.radius = e.radius /\ e1.slid = e.slid
      /\ \/ e1.chosen = e.chosen /\ e1.coverage = e.coverage
         \/ e1.chosen = AllAreas /\ e1.coverage = Nobody
  BY DEF AreaSlate, CloseCard, LeftBy, CardAfter, LeftAlone, ExFields
<1> HIDE DEF e1
<1>3. /\ LeftBy(e1, e2) /\ e2.card = e1.card /\ e2.early = e1.early
      /\ e2.radius = e1.radius /\ e2.slid = e1.slid
      /\ ChosenOf(e2)
      /\ \/ e2.chosen = e1.chosen /\ e2.coverage = e1.coverage
         \/ e2.chosen = AllAreas /\ e2.coverage = Nobody
  <2> DEFINE x == [e1 EXCEPT !.chosen = AllAreas, !.coverage = Nobody]
             gone == /\ e1.chosen # AllAreas /\ e1.of = e1.site
                     /\ e1.gws # {} /\ e1.chosen \notin e1.gws
  <2>1. e2 = IF gone THEN x ELSE e1
    BY DEF GatewayGone
  <2>2. /\ LeftBy(e1, x) /\ x.card = e1.card /\ x.early = e1.early /\ x.radius = e1.radius /\ x.slid = e1.slid
        /\ x.chosen = AllAreas /\ x.coverage = Nobody
    BY <1>2 DEF LeftBy, LeftAlone, ExFields
  <2>3. ~ gone => ChosenOf(e1)
    BY DEF ChosenOf
  <2>4. LeftBy(e1, e1)
    BY <1>2 DEF LeftBy
  <2> HIDE DEF x, gone, e2
  <2> QED BY <2>1, <2>2, <2>3, <2>4 DEF ChosenOf
<1> HIDE DEF e2
<1>4. /\ LeftBy(e2, e3) /\ e3.card = e2.card /\ e3.early = e2.early
      /\ e3.radius = e2.radius /\ e3.slid = e2.slid /\ e3.chosen = e2.chosen
      /\ (e3.coverage = e2.coverage \/ (e3.chosen # AllAreas /\ e3.coverage = e3.chosen))
  BY <1>3 DEF ChosenOpens, LeftBy, LeftAlone, ExFields
<1> HIDE DEF e3
<1>5. /\ LeftBy(e3, e4) /\ e4.card = e3.card /\ e4.early = e3.early /\ e4.chosen = e3.chosen
      /\ e4.coverage = e3.coverage
      /\ IF Opens(old, e3) THEN e4.radius = DefaultRadius(FocusGateway(e3)) /\ ~ e4.slid
         ELSE e4.radius = e3.radius /\ e4.slid = e3.slid
  <2> DEFINE g == DefaultRadius(FocusGateway(e3))
  <2> HIDE DEF g
  <2>1. e4 = IF Opens(old, e3) THEN [e3 EXCEPT !.radius = g, !.slid = FALSE] ELSE e3
    BY DEF OwnRadius, g
  <2> HIDE DEF e4
  <2>2. CASE Opens(old, e3)
    BY <1>4, <2>1, <2>2 DEF LeftBy, LeftAlone, ExFields, g
  <2>3. CASE ~ Opens(old, e3)
    BY <1>4, <2>1, <2>3 DEF LeftBy
  <2> QED BY <2>2, <2>3
<1> HIDE DEF e4
<1>6. /\ LeftBy(e4, e5) /\ e5.card = e4.card /\ e5.early = e4.early /\ e5.chosen = e4.chosen
      /\ e5.coverage = e4.coverage /\ e5.radius = e4.radius /\ e5.slid = e4.slid
      /\ e5.fitted = IF Fits(e4) THEN e4.site ELSE e4.fitted
  BY <1>5 DEF FitOnce, LeftBy, LeftAlone, ExFields
<1> HIDE DEF e5
<1> DEFINE OnlyLooks(g, h) ==
             /\ LeftBy(g, h) /\ h.card = g.card /\ h.early = g.early /\ h.chosen = g.chosen
             /\ h.coverage = g.coverage /\ h.radius = g.radius /\ h.slid = g.slid /\ h.fitted = g.fitted
<1>7. \A g, l : DOMAIN g = ExFields => OnlyLooks(g, [g EXCEPT !.looks = l]) /\ OnlyLooks(g, g)
  BY DEF LeftBy, LeftAlone, ExFields
<1>8. OnlyLooks(e5, e6)
  <2>1. e6 = e5 \/ \E l : e6 = [e5 EXCEPT !.looks = l]
    BY DEF SearchLook
  <2>2. DOMAIN e5 = ExFields
    BY <1>6 DEF LeftBy
  <2> HIDE DEF OnlyLooks, e6
  <2> QED BY <1>7, <2>1, <2>2
<1> HIDE DEF e6
<1>9. OnlyLooks(e6, e7)
  <2>1. e7 = e6 \/ \E l : e7 = [e6 EXCEPT !.looks = l]
    BY DEF GatewayLook
  <2> HIDE DEF e7
  <2>2. DOMAIN e6 = ExFields
    BY <1>8 DEF LeftBy
  <2> HIDE DEF OnlyLooks
  <2> QED BY <1>7, <2>1, <2>2
<1> HIDE DEF e7
<1>10. LeftBy(e, e7) /\ LeftBy(e3, e7) /\ LeftBy(e4, e7) /\ LeftBy(e2, e7)
  BY <1>2, <1>3, <1>4, <1>5, <1>6, <1>8, <1>9 DEF LeftBy
<1>11. CardAfter(old, e, e7)
  BY <1>2, <1>3, <1>4, <1>5, <1>6, <1>8, <1>9 DEF CardAfter
<1>12. e7.chosen = e2.chosen /\ e7.of = e2.of /\ e7.site = e2.site /\ e7.gws = e2.gws
  BY <1>4, <1>5, <1>6, <1>8, <1>9, <1>10 DEF LeftBy, LeftAlone
<1>13. ChoiceAfter(e, e7)
  <2>1. ChosenOf(e7)
    BY <1>3, <1>12 DEF ChosenOf
  <2>2. e7.chosen = e3.chosen /\ e7.coverage = e3.coverage
    BY <1>5, <1>6, <1>8, <1>9
  <2> QED BY <1>2, <1>3, <1>4, <2>1, <2>2 DEF ChoiceAfter
<1>14. RadiusAfter(old, e, e7)
  <2>1. e7.gws = e3.gws /\ e7.coverage = e3.coverage
    BY <1>5, <1>6, <1>8, <1>9, <1>10 DEF LeftBy, LeftAlone
  <2>2. FocusGateway(e7) = FocusGateway(e3) /\ (Opens(old, e7) <=> Opens(old, e3))
    BY <2>1 DEF FocusGateway, Opens
  <2> QED BY <1>2, <1>3, <1>4, <1>5, <1>6, <1>8, <1>9, <2>2 DEF RadiusAfter
<1>15. FitAfter(e7)
  <2>1. e7.gws = e4.gws /\ e7.pts = e4.pts /\ e7.of = e4.of /\ e7.site = e4.site /\ e7.ready = e4.ready
    BY <1>10 DEF LeftBy, LeftAlone
  <2> QED BY <1>6, <1>8, <1>9, <2>1 DEF FitAfter, Fits
<1> QED BY <1>1, <1>10, <1>11, <1>13, <1>14, <1>15

\* What is always so of the map and the page.
DrawnFields == {"markers", "circles", "focus", "radius", "meters", "ring"}
MapInv ==
  /\ DOMAIN ex = ExFields /\ DOMAIN onMap = DrawnFields
  /\ ~ ex.set
  /\ ex.early => ex.card # NoMeterCard
  /\ ~ ex.ready => onMap.ring = Nobody /\ (ex.early \/ ex.card = NoMeterCard)
  /\ GatewayOfArea /\ MapStaysPut /\ MapDrawsPage

\* What is pressed, and what arrives, before the effects.
CardPressed(e) ==
  \/ e.card = ex.card /\ e.early = ex.early
  \/ e.card = NoMeterCard /\ ~ e.early
  \/ e.card # NoMeterCard /\ e.set /\ (e.early <=> ~ e.ready)
GatewayPressed(e) ==
  /\ e.coverage \in {Nobody, e.chosen} \ {AllAreas}
  /\ e.slid \/ (e.radius = ex.radius /\ e.slid = ex.slid)
Pressed(e) ==
  /\ DOMAIN e = ExFields /\ (ex.ready => e.ready) /\ ~ e.disturbed
  /\ CardPressed(e) /\ GatewayPressed(e)

LEMMA MapInitially == ExplorerInit => MapInv
<1> SUFFICES ASSUME ExplorerInit PROVE MapInv
  OBVIOUS
<1>1. DOMAIN ex = ExFields /\ DOMAIN onMap = DrawnFields
  BY DEF ExplorerInit, ExFields, DrawnFields
<1>2. /\ ~ ex.set /\ ~ ex.early /\ ~ ex.ready /\ ex.card = NoMeterCard /\ onMap.ring = Nobody
      /\ ex.coverage = Nobody /\ ex.gws = {} /\ ex.of = Nobody /\ ex.site = AllAreas /\ ~ ex.disturbed
  BY DEF ExplorerInit
<1>3. Nobody # AllAreas
  BY ExplorerAssumption
<1> QED BY <1>1, <1>2, <1>3 DEF MapInv, GatewayOfArea, MapStaysPut, MapDrawsPage, FocusGateway

LEMMA MapCommit ==
  ASSUME MapInv, NEW e, Pressed(e), Commit(e)
  PROVE  MapInv'
<1> DEFINE f == Effects(ex, e)
           g == [f EXCEPT !.set = FALSE]
<1>1. ex' = g /\ onMap' = DrawnAfter(ex, f)
  BY DEF Commit
<1>2. LeftBy(e, f) /\ CardAfter(ex, e, f) /\ ChoiceAfter(e, f) /\ RadiusAfter(ex, e, f) /\ FitAfter(f)
  BY EffectsDo DEF Pressed
<1> HIDE DEF f
<1>3. DOMAIN g = ExFields /\ ~ g.set /\ \A x \in ExFields \ {"set"} : g[x] = f[x]
  BY <1>2 DEF LeftBy, ExFields
<1> HIDE DEF g
<1>4. /\ g.site = f.site /\ g.of = f.of /\ g.gws = f.gws /\ g.pts = f.pts /\ g.ready = f.ready
      /\ g.chosen = f.chosen /\ g.coverage = f.coverage /\ g.radius = f.radius /\ g.card = f.card
      /\ g.status = f.status /\ g.search = f.search /\ g.layers = f.layers /\ g.fitted = f.fitted
      /\ g.slid = f.slid /\ g.early = f.early /\ g.disturbed = f.disturbed
  BY <1>3 DEF ExFields
<1>5. /\ f.ready = e.ready /\ f.set = e.set /\ f.disturbed = e.disturbed
  BY <1>2 DEF LeftBy, LeftAlone
<1>6. Markers(g) = Markers(f) /\ Circles(g) = Circles(f) /\ Points(g) = Points(f)
      /\ FocusGateway(g) = FocusGateway(f)
  BY <1>4 DEF Markers, Circles, Points, FocusGateway, MapGateways, FilteredPoints
<1>7. f.coverage \in {Nobody, f.chosen} \ {AllAreas} /\ ChosenOf(f)
  BY <1>2, ExplorerAssumption DEF ChoiceAfter, Pressed, GatewayPressed
<1>8. FocusGateway(f) # Nobody /\ ~ f.slid => f.radius = DefaultRadius(FocusGateway(f))
  <2>1. CASE Opens(ex, f)
    BY <1>2, <2>1 DEF RadiusAfter
  <2>2. CASE ~ Opens(ex, f)
    <3>1. FocusGateway(f) \in {FocusGateway(ex), Nobody} /\ f.radius = e.radius /\ f.slid = e.slid
      BY <1>2, <2>2 DEF RadiusAfter, Opens
    <3> QED BY <3>1 DEF Pressed, GatewayPressed, MapInv, GatewayOfArea
  <2> QED BY <2>1, <2>2
<1>9. GatewayOfArea'
  BY <1>1, <1>4, <1>6, <1>7, <1>8 DEF GatewayOfArea, ChosenOf
<1>10. MapStaysPut'
  BY <1>1, <1>2, <1>4, <1>5 DEF MapStaysPut, FitAfter, Pressed
<1>11. f.early => f.card # NoMeterCard
  BY <1>2 DEF CardAfter, Pressed, CardPressed, MapInv
<1>12. ~ f.ready => f.early \/ f.card = NoMeterCard
  BY <1>2, <1>5 DEF CardAfter, Pressed, CardPressed, MapInv
<1>13. DOMAIN onMap' = DrawnFields
  BY <1>1 DEF DrawnAfter, DrawnFields, MapInv
<1>14. ~ f.ready => onMap'.ring = Nobody
  BY <1>1, <1>5 DEF DrawnAfter, Pressed, MapInv
<1>15. ASSUME f.ready
       PROVE  /\ onMap'.markers = Markers(f) /\ onMap'.circles = Circles(f)
              /\ onMap'.focus = FocusGateway(f)
              /\ FocusGateway(f) # Nobody => onMap'.radius = f.radius
              /\ onMap'.meters = Points(f)
              /\ f.early \/ onMap'.ring = f.card.id
  <2>1. /\ onMap'.markers = IF SeenByMarkers(f) # SeenByMarkers(ex) THEN Markers(f) ELSE onMap.markers
        /\ onMap'.circles = IF SeenByMarkers(f) # SeenByMarkers(ex) THEN Circles(f) ELSE onMap.circles
        /\ onMap'.focus = IF SeenByCircle(f) # SeenByCircle(ex) THEN FocusGateway(f) ELSE onMap.focus
        /\ onMap'.radius = IF SeenByCircle(f) # SeenByCircle(ex) /\ FocusGateway(f) # Nobody
                             THEN f.radius ELSE onMap.radius
        /\ onMap'.meters = IF SeenByPoints(f) # SeenByPoints(ex) THEN Points(f) ELSE onMap.meters
        /\ onMap'.ring = IF f.set \/ f.card # ex.card THEN f.card.id ELSE onMap.ring
    BY <1>1, <1>15 DEF DrawnAfter
  <2>2. SeenByMarkers(f) = SeenByMarkers(ex) =>
          /\ ex.ready = f.ready /\ Markers(f) = Markers(ex) /\ Circles(f) = Circles(ex)
    BY DEF SeenByMarkers, Markers, Circles
  <2>3. SeenByCircle(f) = SeenByCircle(ex) =>
          /\ ex.ready = f.ready /\ FocusGateway(f) = FocusGateway(ex) /\ f.radius = ex.radius
    BY DEF SeenByCircle
  <2>4. SeenByPoints(f) = SeenByPoints(ex) => ex.ready = f.ready /\ Points(f) = Points(ex)
    BY DEF SeenByPoints, Points
  <2>5. f.early \/ onMap'.ring = f.card.id
    <3>1. SUFFICES ASSUME ~ f.early, ~ f.set, f.card = ex.card
                   PROVE  onMap.ring = f.card.id
      BY <2>1
    <3>2. ~ ex.early
      BY <1>2, <1>5, <3>1 DEF CardAfter, Pressed, CardPressed, MapInv
    <3>3. CASE ex.ready
      BY <3>1, <3>2, <3>3 DEF MapInv, MapDrawsPage
    <3>4. CASE ~ ex.ready
      BY <3>1, <3>2, <3>4 DEF MapInv, NoMeterCard
    <3> QED BY <3>3, <3>4
  <2>6. onMap'.markers = Markers(f) /\ onMap'.circles = Circles(f)
    BY <1>15, <2>1, <2>2 DEF MapInv, MapDrawsPage
  <2>7. onMap'.focus = FocusGateway(f) /\ (FocusGateway(f) # Nobody => onMap'.radius = f.radius)
    BY <1>15, <2>1, <2>3 DEF MapInv, MapDrawsPage
  <2>8. onMap'.meters = Points(f)
    BY <1>15, <2>1, <2>4 DEF MapInv, MapDrawsPage
  <2> QED BY <2>5, <2>6, <2>7, <2>8
<1>16. MapDrawsPage'
  BY <1>1, <1>4, <1>6, <1>15 DEF MapDrawsPage
<1> QED BY <1>1, <1>3, <1>4, <1>9, <1>10, <1>11, <1>12, <1>13, <1>14, <1>16 DEF MapInv

\* A refresh of the same area, with no gateway that comes back, moves the map nowhere.
LEMMA LooksKept ==
  ASSUME NEW old, NEW e, DOMAIN e = ExFields,
         e.site = old.site, e.search = old.search, e.fitted = e.site,
         e.chosen = old.chosen, e.coverage = old.coverage,
         e.coverage \in old.gws \/ e.coverage \notin e.gws \/ e.coverage = Nobody
  PROVE  Effects(old, e).looks = e.looks
<1> DEFINE e2 == GatewayGone(e)
           e4 == OwnRadius(old, e2)
<1> DEFINE Same(d) == /\ d.site = e.site /\ d.search = e.search /\ d.fitted = e.fitted
                      /\ d.looks = e.looks /\ d.coverage \in {e.coverage, Nobody} /\ d.gws = e.gws
<1>1. DOMAIN e2 = ExFields /\ Same(e2) /\ e2.chosen \in {old.chosen, AllAreas}
  BY DEF GatewayGone, ExFields
<1>2. AreaSlate(old, e) = e /\ ChosenOpens(old, e2) = e2
  BY <1>1 DEF AreaSlate, ChosenOpens
<1> HIDE DEF e2
<1>3. Same(e4)
  BY <1>1 DEF OwnRadius, ExFields
<1>4. Effects(old, e) = GatewayLook(old, SearchLook(old, FitOnce(e4)))
  BY <1>2 DEF Effects, e2
<1> HIDE DEF e4
<1>5. FitOnce(e4) = e4
  BY <1>3 DEF FitOnce, Fits
<1>6. SearchLook(old, e4) = e4
  BY <1>3 DEF SearchLook
<1>7. ~ Opens(old, e4)
  BY <1>3 DEF Opens, FocusGateway
<1>8. GatewayLook(old, e4) = e4
  BY <1>7 DEF GatewayLook
<1> QED BY <1>3, <1>4, <1>5, <1>6, <1>8

LEMMA MapStep == MapInv /\ ExplorerNext => MapInv'
<1> SUFFICES ASSUME MapInv, ExplorerNext PROVE MapInv'
  OBVIOUS
<1> USE DEF Chosen
<1>0. DOMAIN ex = ExFields /\ ~ ex.disturbed /\ ex.coverage \in {Nobody, ex.chosen} \ {AllAreas}
  BY DEF MapInv, GatewayOfArea, MapStaysPut
<1> DEFINE Committed(e) == Pressed(e) /\ Commit(e)
           Unmoved(e) ==
             /\ DOMAIN e = ExFields /\ e.ready = ex.ready /\ e.disturbed = ex.disturbed
             /\ e.card = ex.card /\ e.early = ex.early
             /\ e.chosen = ex.chosen /\ e.coverage = ex.coverage /\ e.radius = ex.radius /\ e.slid = ex.slid
           CardShown(e, m, t) ==
             /\ DOMAIN e = ExFields /\ e.ready = ex.ready /\ e.disturbed = ex.disturbed
             /\ e.card = [id |-> m, told |-> t] /\ e.set /\ (e.early <=> ~ e.ready)
             /\ e.chosen = ex.chosen /\ e.coverage = ex.coverage /\ e.radius = ex.radius /\ e.slid = ex.slid
<1>1. \A e : Unmoved(e) => Pressed(e)
  BY <1>0 DEF Pressed, CardPressed, GatewayPressed
<1>2. \A e, m, t : CardShown(e, m, t) /\ t # "nothing" => Pressed(e)
  BY <1>0 DEF Pressed, CardPressed, GatewayPressed, NoMeterCard
<1>3. \A e, g : /\ DOMAIN e = ExFields /\ e.ready = ex.ready /\ e.disturbed = ex.disturbed
                /\ e.card = NoMeterCard /\ e.early = FALSE
                /\ e.radius = ex.radius /\ e.slid = ex.slid
                /\ \/ e.chosen = g /\ e.coverage = g /\ g # AllAreas
                   \/ e.chosen = ex.chosen /\ e.coverage = ex.coverage
                => Pressed(e)
  BY <1>0 DEF Pressed, CardPressed, GatewayPressed
<1>4. SUFFICES \E e : Committed(e)
  BY MapCommit
<1>5. \A e : Unmoved(e) /\ Commit(e) => Committed(e)
  BY <1>1
<1>6. \A e, m, t : CardShown(e, m, t) /\ t # "nothing" /\ Commit(e) => Committed(e)
  BY <1>2
<1>7. ASSUME NEW gws, NEW pts, AreaArrives(gws, pts)
      PROVE  \E e : Committed(e)
  <2> DEFINE e == [Given(ex, gws, pts) EXCEPT !.base = @ \/ ex.site = AllAreas]
  <2>1. Unmoved(e)
    BY <1>0 DEF Given, ExFields
  <2>2. Commit(e)
    BY <1>7 DEF AreaArrives
  <2> QED BY <1>5, <2>1, <2>2
<1>8. ASSUME NEW gws, NEW pts, QuietRefresh(gws, pts)
      PROVE  \E e : Committed(e)
  <2> DEFINE e == Given(ex, gws, pts)
             still == [ex EXCEPT !.looks = "still"]
             new == [e EXCEPT !.looks = "still"]
             moves == Effects(still, new).looks # "still"
             again == ex.gws = {} /\ ex.coverage # Nobody
             turns == moves /\ ex.fitted = ex.site /\ ~ again
             d == e.disturbed \/ turns
             r == [e EXCEPT !.disturbed = d]
  <2>1. ex.of = ex.site /\ Commit(r)
    BY <1>8 DEF QuietRefresh
  <2>2. Unmoved(e) /\ e.site = ex.site /\ e.search = ex.search /\ e.fitted = ex.fitted
    BY <1>0 DEF Given, ExFields
  <2> HIDE DEF e
  <2>3. ~ turns
    <3>1. SUFFICES ASSUME ex.fitted = ex.site, ~ again
                   PROVE  Effects(still, new).looks = "still"
      OBVIOUS
    <3>2. DOMAIN new = ExFields /\ new.looks = "still"
          /\ new.site = still.site /\ new.search = still.search /\ new.fitted = new.site
          /\ new.chosen = still.chosen /\ new.coverage = still.coverage /\ new.coverage = ex.coverage
          /\ still.gws = ex.gws
      BY <1>0, <2>2, <3>1 DEF ExFields
    <3>3. ex.gws # {} /\ ex.coverage # Nobody => ex.coverage \in ex.gws
      BY <1>0, <2>1 DEF MapInv, GatewayOfArea
    <3>4. new.coverage \in still.gws \/ new.coverage \notin new.gws \/ new.coverage = Nobody
      BY <3>1, <3>2, <3>3
    <3> HIDE DEF new, still
    <3> QED BY <3>2, <3>4, LooksKept
  <2>4. d = FALSE
    BY <1>0, <2>2, <2>3
  <2> HIDE DEF d
  <2>5. /\ DOMAIN r = ExFields /\ r.disturbed = FALSE
        /\ r.ready = ex.ready /\ r.card = ex.card /\ r.early = ex.early
        /\ r.chosen = ex.chosen /\ r.coverage = ex.coverage /\ r.radius = ex.radius /\ r.slid = ex.slid
    BY <2>2, <2>4 DEF ExFields
  <2>6. Pressed(r)
    BY <1>0, <2>5 DEF Pressed, CardPressed, GatewayPressed
  <2> HIDE DEF r
  <2> QED BY <2>1, <2>6
<1>9. ASSUME NEW a, NEW gws, NEW pts, ChooseArea(a, gws, pts)
      PROVE  \E e : Committed(e)
  <2> DEFINE d == [ex EXCEPT !.site = a]
             e == IF Derives(d) THEN Given(d, gws, pts) ELSE Without(d)
  <2>1. Unmoved(d)
    BY <1>0 DEF ExFields
  <2> HIDE DEF d
  <2>2. Unmoved(Given(d, gws, pts)) /\ Unmoved(Without(d))
    BY <1>0, <2>1 DEF Given, Without, ExFields
  <2>3. Unmoved(e)
    BY <2>2
  <2>4. Commit(e)
    BY <1>9 DEF ChooseArea, d
  <2> QED BY <1>5, <2>3, <2>4
<1>10. Reload => \E e : Committed(e)
  <2>1. Unmoved(Without(ex))
    BY <1>0 DEF Without, ExFields
  <2> QED BY <1>5, <2>1 DEF Reload
<1>11. MapLoads => \E e : Committed(e)
  <2> DEFINE e == [ex EXCEPT !.ready = TRUE]
  <2>1. Pressed(e)
    BY <1>0 DEF Pressed, CardPressed, GatewayPressed, ExFields
  <2> QED BY <2>1 DEF MapLoads
<1>12. ASSUME NEW g \in MapGateway, PickGateway(g) \/ ShowOnMap(g) \/ ClickMarker(g) \/ ClickGatewayRow(g)
       PROVE  \E e : Committed(e)
  <2> DEFINE o == OpenedGateway(ex, g)
             Moved(e) ==
               /\ DOMAIN e = ExFields /\ e.ready = ex.ready /\ e.disturbed = ex.disturbed
               /\ e.card = NoMeterCard /\ e.early = FALSE /\ e.radius = ex.radius /\ e.slid = ex.slid
               /\ e.chosen = g /\ e.coverage = g
  <2>1. g # AllAreas
    BY ExplorerAssumption DEF MapGateway
  <2>2. Moved(o)
    BY <1>0 DEF OpenedGateway, CloseCard, ExFields
  <2> HIDE DEF o
  <2>3. \A v : Moved([o EXCEPT !.view = v]) /\ \A l : Moved([o EXCEPT !.looks = l])
    BY <2>2 DEF ExFields
  <2>4. Moved(Placed(g))
    BY <2>3 DEF Placed, o
  <2> DEFINE p == Placed(g)
  <2> HIDE DEF p
  <2>5. Moved([p EXCEPT !.view = "map"])
    BY <2>4 DEF p, ExFields
  <2>6. \A e : Moved(e) => Pressed(e)
    BY <1>3, <2>1
  <2> HIDE DEF Moved
  <2>7. \A e : Moved(e) /\ Commit(e) => \E f : Committed(f)
    BY <2>6
  <2>8. PickGateway(g) => Commit(p)
    BY DEF PickGateway, p
  <2>9. ShowOnMap(g) => Commit([p EXCEPT !.view = "map"])
    BY DEF ShowOnMap, p
  <2>10. ClickMarker(g) => Commit(o)
    BY DEF ClickMarker, o
  <2>11. ClickGatewayRow(g) => Commit([o EXCEPT !.view = "map"])
    BY DEF ClickGatewayRow, o
  <2>12. Moved(p)
    BY <2>4 DEF p
  <2> QED BY <1>12, <2>2, <2>3, <2>5, <2>7, <2>8, <2>9, <2>10, <2>11, <2>12
<1>13. PickAllGateways \/ CloseCoverage \/ MoveRadius => \E e : Committed(e)
  <2>0. Nobody # AllAreas
    BY ExplorerAssumption
  <2> DEFINE all == [ex EXCEPT !.chosen = AllAreas, !.coverage = Nobody]
             none == [ex EXCEPT !.coverage = Nobody]
             slid == [ex EXCEPT !.radius = Slid, !.slid = TRUE]
  <2>1. Pressed(all)
    BY <1>0, <2>0 DEF Pressed, CardPressed, GatewayPressed, ExFields
  <2>2. Pressed(none)
    BY <1>0, <2>0 DEF Pressed, CardPressed, GatewayPressed, ExFields
  <2>3. Pressed(slid)
    BY <1>0 DEF Pressed, CardPressed, GatewayPressed, ExFields
  <2>4. /\ PickAllGateways => Commit(all)
        /\ CloseCoverage => Commit(none)
        /\ MoveRadius => Commit(slid)
    BY DEF PickAllGateways, CloseCoverage, MoveRadius
  <2> HIDE DEF all, none, slid
  <2> QED BY <2>1, <2>2, <2>3, <2>4
<1>14. \A e, m : Unmoved(e) /\ OpenMeterCard(e, m) => \E f : Committed(f)
  <2> TAKE e, m
  <2> HAVE Unmoved(e) /\ OpenMeterCard(e, m)
  <2> DEFINE f == [e EXCEPT !.card = [id |-> m, told |-> "known"], !.wanted = m, !.unknown = FALSE,
                            !.set = TRUE, !.early = ~e.ready]
  <2>1. CardShown(f, m, "known")
    BY DEF ExFields
  <2>2. Commit(f)
    BY DEF OpenMeterCard
  <2> HIDE DEF f
  <2> QED BY <1>6, <2>1, <2>2
<1>15. ASSUME NEW m, ClickPoint(m) \/ OpenFromRange(m) \/ PickSuggestion(m)
       PROVE  \E e : Committed(e)
  <2>1. Unmoved(ex)
    BY <1>0
  <2> DEFINE seen == [ex EXCEPT !.looks = IF ex.ready THEN "meter" ELSE @]
             sug == [ex EXCEPT !.search = "", !.view = IF m \in ex.pts THEN "map" ELSE "table",
                               !.looks = IF m \in ex.pts /\ ex.ready THEN "meter" ELSE @]
  <2>2. Unmoved(seen) /\ Unmoved(sug)
    BY <1>0 DEF ExFields
  <2>3. /\ ClickPoint(m) => OpenMeterCard(ex, m)
        /\ OpenFromRange(m) => OpenMeterCard(seen, m)
        /\ PickSuggestion(m) => OpenMeterCard(sug, m) \/ Commit(sug)
    BY DEF ClickPoint, OpenFromRange, PickSuggestion
  <2> HIDE DEF seen, sug
  <2> QED BY <1>5, <1>14, <1>15, <2>1, <2>2, <2>3
<1>16. ASSUME NEW m, ClickMeterRow(m)
       PROVE  \E e : Committed(e)
  <2> DEFINE e == [ex EXCEPT !.card = [id |-> m, told |-> "all"], !.wanted = m, !.unknown = FALSE,
                             !.set = TRUE, !.early = ~ex.ready]
  <2>1. CardShown(e, m, "all")
    BY <1>0 DEF ExFields
  <2>2. Commit(e)
    BY <1>16 DEF ClickMeterRow
  <2> HIDE DEF e
  <2> QED BY <1>6, <2>1, <2>2
<1>17. ASSUME NEW m, MeterArrives(m)
       PROVE  \E e : Committed(e)
  <2> DEFINE e == [ex EXCEPT !.card = [id |-> m, told |-> "all"], !.set = TRUE, !.early = ~ex.ready]
  <2>1. CardShown(e, m, "all") /\ Unmoved(ex)
    BY <1>0 DEF ExFields
  <2>2. Commit(e) \/ Commit(ex)
    BY <1>17 DEF MeterArrives, Merge
  <2> HIDE DEF e
  <2> QED BY <1>5, <1>6, <2>1, <2>2
<1>18. ASSUME NEW m, MeterUnknown(m)
       PROVE  \E e : Committed(e)
  <2> DEFINE u == ex.unknown \/ ex.card.id = m
             e == [ex EXCEPT !.unknown = u]
  <2> HIDE DEF u
  <2>1. Unmoved(e)
    BY <1>0 DEF ExFields
  <2>2. Commit(e)
    BY <1>18 DEF MeterUnknown, u
  <2> QED BY <1>5, <2>1, <2>2
<1>19. ClickNothing \/ CloseMeterCard => \E e : Committed(e)
  <2> DEFINE e == CloseCard(ex)
  <2>1. /\ DOMAIN e = ExFields /\ e.ready = ex.ready /\ e.disturbed = ex.disturbed
        /\ e.card = NoMeterCard /\ e.early = FALSE /\ e.radius = ex.radius /\ e.slid = ex.slid
        /\ e.chosen = ex.chosen /\ e.coverage = ex.coverage
    BY <1>0 DEF CloseCard, ExFields
  <2>2. ClickNothing \/ CloseMeterCard => Commit(e)
    BY DEF ClickNothing, CloseMeterCard
  <2> HIDE DEF e
  <2> QED BY <1>3, <2>1, <2>2
<1>20. ASSUME NEW w, SubmitSearch(w) \/ PickMapStatus(w) \/ ShowView(w) \/ ToggleLayer(w) \/ UserPans
       PROVE  \E e : Committed(e)
  <2>1. /\ \A x : Unmoved([ex EXCEPT !.search = x])
        /\ \A x : Unmoved([ex EXCEPT !.status = x])
        /\ \A x : Unmoved([ex EXCEPT !.view = x])
        /\ \A x : Unmoved([ex EXCEPT !.layers = x])
        /\ \A x : Unmoved([ex EXCEPT !.looks = x])
    BY <1>0 DEF ExFields
  <2>2. /\ SubmitSearch(w) => \E x : Commit([ex EXCEPT !.search = x])
        /\ PickMapStatus(w) => \E x : Commit([ex EXCEPT !.status = x])
        /\ ShowView(w) => \E x : Commit([ex EXCEPT !.view = x])
        /\ ToggleLayer(w) => \E x : Commit([ex EXCEPT !.layers = x])
        /\ UserPans => \E x : Commit([ex EXCEPT !.looks = x])
    BY DEF SubmitSearch, PickMapStatus, ShowView, ToggleLayer, UserPans
  <2> HIDE DEF Unmoved
  <2> QED BY <1>5, <1>20, <2>1, <2>2
<1> HIDE DEF Committed
<1> QED
  BY <1>7, <1>8, <1>9, <1>10, <1>11, <1>12, <1>13, <1>15, <1>16, <1>17, <1>18, <1>19, <1>20 DEF ExplorerNext

LEMMA MapKept == MapInv /\ [ExplorerNext]_explorerVars => MapInv'
<1>1. MapInv /\ UNCHANGED explorerVars => MapInv'
  <2> SUFFICES ASSUME MapInv, UNCHANGED explorerVars PROVE MapInv'
    OBVIOUS
  <2>1. ex' = ex /\ onMap' = onMap
    BY DEF explorerVars
  <2>2. GatewayOfArea'
    BY <2>1 DEF MapInv, GatewayOfArea
  <2>3. MapStaysPut'
    BY <2>1 DEF MapInv, MapStaysPut
  <2>4. MapDrawsPage'
    BY <2>1 DEF MapInv, MapDrawsPage
  <2> QED BY <2>1, <2>2, <2>3, <2>4 DEF MapInv
<1> QED BY <1>1, MapStep

-----------------------------------------------------------------------------
(* The table of the fleet: none of its meters twice, each of them one that was *)
(* asked for.                                                                  *)

FleetControls == [window : FleetWindow, input : FleetText, pause : BOOLEAN, text : FleetText, status : FleetStatus]

FleetInv ==
  /\ IsList(fleetOrder) /\ NoneTwice(fleetOrder)
  /\ fleet \in FleetControls
  /\ DOMAIN fleetList = {"items", "total", "loading", "error"}
  /\ IsList(fleetList.items) /\ NoneTwice(fleetList.items)
  /\ \A i \in Members(fleetList.items) : FleetMatches(FleetMeters[i], AskedOfFleet(fleet))
  /\ fleetList.loading \in BOOLEAN
  /\ fleetList.loading <=> fleetAsk # NoFleetAsk
  /\ fleetList.loading => /\ fleetAsk \in [of : FleetQuery, offset : Nat, silent : BOOLEAN]
                          /\ fleetAsk.of = AskedOfFleet(fleet)

LEMMA FleetIsAsked == FleetInv => FleetForAsked
BY NoneTwiceCounted DEF FleetInv, FleetForAsked

LEMMA FleetAsks ==
  ASSUME NEW f \in FleetControls
  PROVE  AskedOfFleet(f) \in FleetQuery /\ AskedOfFleet(f) = ReadFor(f)
BY DEF FleetControls, AskedOfFleet, ReadFor, FleetQuery

LEMMA NoMeters == IsList(<<>>) /\ NoneTwice(<<>>) /\ Members(<<>>) = {}
<1>1. IsList(<<>>)
  BY EmptyIsList
<1>2. DOMAIN <<>> = {}
  OBVIOUS
<1> QED BY <1>1, <1>2 DEF NoneTwice, Members

LEMMA FleetAgain ==
  ASSUME FleetInv, NEW f \in FleetControls, NEW silent \in BOOLEAN, StartsAgain(f, silent),
         fleetOrder' = fleetOrder
  PROVE  FleetInv'
<1>1. AskedOfFleet(f) \in FleetQuery
  BY FleetAsks
<1> DEFINE ask == AskedOfFleet(f)
           none == <<>>
<1>2. /\ fleet' = f
      /\ fleetList' = [items |-> none, total |-> 0, loading |-> TRUE, error |-> FALSE]
      /\ fleetAsk' = [of |-> ask, offset |-> 0, silent |-> silent]
  BY DEF StartsAgain
<1>3. IsList(none) /\ NoneTwice(none) /\ Members(none) = {}
  BY NoMeters
<1> HIDE DEF none
<1>4. fleetList'.items = none /\ fleetList'.loading = TRUE /\ DOMAIN fleetList' = {"items", "total", "loading", "error"}
  BY <1>2
<1>5. AskedOfFleet(fleet)' = ask
  BY <1>2 DEF AskedOfFleet
<1> HIDE DEF ask
<1>6. /\ fleetAsk' \in [of : FleetQuery, offset : Nat, silent : BOOLEAN]
      /\ fleetAsk'.of = ask
  BY <1>1, <1>2 DEF ask
<1>7. fleetAsk' # NoFleetAsk
  BY <1>6, FleetAssumption
<1>8. (IsList(fleetOrder) /\ NoneTwice(fleetOrder))'
  BY DEF FleetInv, NoneTwice
<1>9. (IsList(fleetList.items) /\ NoneTwice(fleetList.items) /\ Members(fleetList.items) = {})'
  BY <1>3, <1>4
<1>10. fleet' \in FleetControls
  BY <1>2
<1> QED BY <1>4, <1>5, <1>6, <1>7, <1>8, <1>9, <1>10 DEF FleetInv, FleetControls

LEMMA FleetInitially == FleetInit => FleetInv
<1> SUFFICES ASSUME FleetInit PROVE FleetInv
  OBVIOUS
<1>0. /\ "" \in FleetText /\ "ALL" \in FleetStatus /\ FleetWindow # {} /\ FleetMeters \in Seq(Members(FleetMeters))
      /\ NoFleetAsk \notin [of : FleetQuery, offset : Nat, silent : BOOLEAN]
  BY FleetAssumption
<1>1. fleet \in FleetControls
  <2>1. (CHOOSE w \in FleetWindow : TRUE) \in FleetWindow
    BY <1>0
  <2> QED BY <1>0, <2>1 DEF FleetInit, FleetControls
<1>2. AskedOfFleet(fleet) \in FleetQuery
  BY <1>1, FleetAsks
<1> DEFINE ask == AskedOfFleet(fleet)
           none == <<>>
<1>3. IsList(none) /\ NoneTwice(none) /\ Members(none) = {}
  BY NoMeters
<1>4. /\ fleetList = [items |-> none, total |-> 0, loading |-> TRUE, error |-> FALSE]
      /\ fleetAsk = [of |-> ask, offset |-> 0, silent |-> FALSE]
  BY DEF FleetInit
<1> HIDE DEF none, ask
<1>5. fleetList.items = none /\ fleetList.loading = TRUE /\ DOMAIN fleetList = {"items", "total", "loading", "error"}
  BY <1>4
<1>6. /\ fleetAsk \in [of : FleetQuery, offset : Nat, silent : BOOLEAN]
      /\ fleetAsk.of = ask
  BY <1>2, <1>4 DEF ask
<1>7. IsList(fleetOrder) /\ NoneTwice(fleetOrder)
  <2> DEFINE n == Len(FleetMeters)
  <2>1. DOMAIN FleetMeters = 1 .. n /\ n \in Nat
    <3> DEFINE S == Members(FleetMeters)
    <3>1. FleetMeters \in Seq(S)
      BY <1>0
    <3> HIDE DEF S
    <3> QED BY <3>1
  <2> HIDE DEF n
  <2>2. fleetOrder = [i \in 1 .. n |-> i]
    BY <2>1 DEF FleetInit
  <2>3. fleetOrder \in [1 .. n -> 1 .. n] /\ \A i \in 1 .. n : fleetOrder[i] = i
    BY <2>2
  <2>4. NoneTwice(fleetOrder)
    BY <2>2, <2>3 DEF NoneTwice
  <2> QED BY <2>1, <2>3, <2>4 DEF IsList
<1> QED BY <1>0, <1>1, <1>3, <1>5, <1>6, <1>7 DEF FleetInv, FleetControls, ask

LEMMA FleetPages ==
  ASSUME NEW q, NEW offset \in Nat, IsList(fleetOrder), NoneTwice(fleetOrder)
  PROVE  /\ IsList(FleetPage(q, offset).items) /\ NoneTwice(FleetPage(q, offset).items)
         /\ \A i \in Members(FleetPage(q, offset).items) : FleetMatches(FleetMeters[i], q)
<1> DEFINE places == {k \in DOMAIN fleetOrder : FleetMatches(FleetMeters[fleetOrder[k]], q)}
           found == RowsAt(fleetOrder, places)
           part == Slice(found, offset, FleetSize)
<1>0. FleetSize \in Nat
  BY FleetAssumption
<1>1. FleetPage(q, offset).items = part
  BY DEF FleetPage
<1>2. places \in SUBSET (DOMAIN fleetOrder) /\ \A k \in places : FleetMatches(FleetMeters[fleetOrder[k]], q)
  OBVIOUS
<1> HIDE DEF places
<1>3. IsList(found) /\ Members(found) = {fleetOrder[k] : k \in places}
  BY <1>2, KeptRows
<1>4. NoneTwice(found)
  BY <1>2, NoneTwiceAt
<1> HIDE DEF found
<1>5. IsList(part) /\ \A k \in DOMAIN part : offset + k \in DOMAIN found /\ part[k] = found[offset + k]
  BY <1>0, <1>3, SliceRows
<1>6. NoneTwice(part)
  BY <1>0, <1>3, <1>4, NoneTwiceIn
<1> HIDE DEF part
<1>7. ASSUME NEW i \in Members(part)
      PROVE  FleetMatches(FleetMeters[i], q)
  <2>1. i \in Members(found)
    BY <1>5, <1>7 DEF Members
  <2> QED BY <1>2, <1>3, <2>1
<1> QED BY <1>1, <1>5, <1>6, <1>7

LEMMA FleetNext ==
  ASSUME FleetInv, FleetArrives
  PROVE  FleetInv'
<1>1. fleetList.loading = TRUE /\ fleetAsk # NoFleetAsk
  BY DEF FleetInv, FleetArrives
<1>2. fleetAsk \in [of : FleetQuery, offset : Nat, silent : BOOLEAN] /\ fleetAsk.of = AskedOfFleet(fleet)
  BY <1>1 DEF FleetInv
<1> DEFINE old == fleetList.items
           got == FleetPage(fleetAsk.of, fleetAsk.offset).items
           all == FleetPage(fleetAsk.of, fleetAsk.offset).total
           more == NewOf(got)
           shown == IF fleetAsk.offset = 0 THEN got ELSE old \o more
           q == AskedOfFleet(fleet)
<1>3. IsList(got) /\ NoneTwice(got) /\ \A i \in Members(got) : FleetMatches(FleetMeters[i], q)
  BY <1>2, FleetPages DEF FleetInv
<1>4. IsList(old) /\ NoneTwice(old) /\ \A i \in Members(old) : FleetMatches(FleetMeters[i], q)
  BY DEF FleetInv
<1>5. /\ DOMAIN fleetList' = {"items", "total", "loading", "error"}
      /\ fleetList'.items = shown /\ fleetList'.loading = FALSE
  <2>1. fleetList' = [fleetList EXCEPT !.items = shown, !.total = all, !.loading = FALSE]
    BY DEF FleetArrives
  <2> HIDE DEF shown, all
  <2> QED BY <2>1 DEF FleetInv
<1> HIDE DEF got, old, q
<1>6. /\ IsList(more) /\ NoneTwice(more) /\ Members(more) \subseteq Members(got)
      /\ \A x \in Members(more) : x \notin Members(old)
  <2> DEFINE places == {k \in DOMAIN got : got[k] \notin Members(old)}
  <2>1. more = RowsAt(got, places)
    BY DEF NewOf, old
  <2>2. places \in SUBSET (DOMAIN got) /\ \A k \in places : got[k] \notin Members(old) /\ got[k] \in Members(got)
    BY DEF Members
  <2> HIDE DEF places, more
  <2>3. IsList(more) /\ Members(more) = {got[k] : k \in places}
    BY <1>3, <2>1, <2>2, KeptRows
  <2>4. NoneTwice(more)
    BY <1>3, <2>1, <2>2, NoneTwiceAt
  <2> QED BY <2>2, <2>3, <2>4
<1> HIDE DEF more
<1>7. IsList(old \o more) /\ NoneTwice(old \o more) /\ Members(old \o more) = Members(old) \cup Members(more)
  BY <1>4, <1>6, NoneTwiceJoined
<1> DEFINE longer == old \o more
<1> HIDE DEF longer
<1>8. IsList(longer) /\ NoneTwice(longer) /\ Members(longer) = Members(old) \cup Members(more)
  BY <1>7 DEF longer
<1>9. shown = got \/ shown = longer
  BY DEF longer
<1> HIDE DEF shown
<1>10. IsList(shown) /\ NoneTwice(shown) /\ \A i \in Members(shown) : FleetMatches(FleetMeters[i], q)
  <2>1. CASE shown = got
    BY <1>3, <2>1
  <2>2. CASE shown = longer
    <3>1. \A i \in Members(longer) : FleetMatches(FleetMeters[i], q)
      BY <1>3, <1>4, <1>6, <1>8
    <3> QED BY <1>8, <2>2, <3>1
  <2> QED BY <1>9, <2>1, <2>2
<1>11. fleetAsk' = NoFleetAsk /\ UNCHANGED <<fleetOrder, fleet>>
  BY DEF FleetArrives
<1>12. AskedOfFleet(fleet)' = q
  BY <1>11 DEF AskedOfFleet, q
<1>13. (IsList(fleetOrder) /\ NoneTwice(fleetOrder))'
  BY <1>11 DEF FleetInv, NoneTwice
<1>14. (\A i \in Members(fleetList.items) : FleetMatches(FleetMeters[i], AskedOfFleet(fleet)))'
  BY <1>5, <1>10, <1>12
<1>15. (IsList(fleetList.items) /\ NoneTwice(fleetList.items))'
  BY <1>5, <1>10
<1> QED BY <1>5, <1>11, <1>13, <1>14, <1>15 DEF FleetInv

LEMMA FleetSame ==
  ASSUME FleetInv, AskedOfFleet(fleet') = AskedOfFleet(fleet), fleet' \in FleetControls,
         fleetOrder' = fleetOrder, fleetList'.items = fleetList.items,
         DOMAIN fleetList' = DOMAIN fleetList,
         fleetList'.loading \in BOOLEAN, fleetList'.loading <=> fleetAsk' # NoFleetAsk,
         fleetList'.loading => /\ fleetAsk' \in [of : FleetQuery, offset : Nat, silent : BOOLEAN]
                               /\ fleetAsk'.of = AskedOfFleet(fleet)
  PROVE  FleetInv'
<1>1. (IsList(fleetOrder) /\ NoneTwice(fleetOrder))'
  BY DEF FleetInv, NoneTwice
<1>2. (\A i \in Members(fleetList.items) : FleetMatches(FleetMeters[i], AskedOfFleet(fleet)))'
  BY DEF FleetInv
<1>3. (IsList(fleetList.items) /\ NoneTwice(fleetList.items))'
  BY DEF FleetInv
<1>4. (DOMAIN fleetList = {"items", "total", "loading", "error"})'
  BY DEF FleetInv
<1> QED BY <1>1, <1>2, <1>3, <1>4 DEF FleetInv, FleetControls

LEMMA FleetControlled ==
  ASSUME FleetInv, NEW f \in FleetControls, Controls(f), fleetOrder' = fleetOrder
  PROVE  FleetInv'
<1>1. CASE ReadFor(f) = ReadFor(fleet)
  <2>1. fleet' = f /\ UNCHANGED <<fleetList, fleetAsk>>
    BY <1>1 DEF Controls
  <2>2. AskedOfFleet(f) = AskedOfFleet(fleet)
    BY <1>1 DEF ReadFor, AskedOfFleet
  <2> QED BY <2>1, <2>2, FleetSame DEF FleetInv
<1>2. CASE ReadFor(f) # ReadFor(fleet)
  <2>1. StartsAgain(f, FALSE)
    BY <1>2 DEF Controls
  <2> QED BY <2>1, FleetAgain
<1> QED BY <1>1, <1>2

LEMMA FleetHeard ==
  ASSUME FleetInv, NEW k \in DOMAIN fleetOrder, MeterHeard(k)
  PROVE  FleetInv'
<1> DEFINE first == <<fleetOrder[k]>>
           places == DOMAIN fleetOrder \ {k}
           rest == RowsAt(fleetOrder, places)
<1>1. fleetOrder' = first \o rest /\ UNCHANGED <<fleet, fleetList, fleetAsk>>
  BY DEF MeterHeard
<1>2. IsList(fleetOrder) /\ NoneTwice(fleetOrder) /\ places \in SUBSET (DOMAIN fleetOrder)
  BY DEF FleetInv
<1>3. IsList(first) /\ NoneTwice(first) /\ Members(first) = {fleetOrder[k]}
  <2> DEFINE x == fleetOrder[k]
  <2> HIDE DEF x
  <2>1. <<x>> \in [1 .. 1 -> {x}] /\ DOMAIN <<x>> = {1} /\ <<x>>[1] = x
    OBVIOUS
  <2>2. Members(<<x>>) = {x}
    BY <2>1 DEF Members
  <2> QED BY <2>1, <2>2 DEF IsList, NoneTwice, x
<1>4. \A i \in places : fleetOrder[i] # fleetOrder[k]
  BY <1>2 DEF NoneTwice
<1> HIDE DEF places, first
<1>5. IsList(rest) /\ NoneTwice(rest) /\ Members(rest) = {fleetOrder[i] : i \in places}
  BY <1>2, KeptRows, NoneTwiceAt
<1> HIDE DEF rest
<1>6. \A x \in Members(rest) : x \notin Members(first)
  BY <1>3, <1>4, <1>5
<1>7. IsList(first \o rest) /\ NoneTwice(first \o rest)
  BY <1>3, <1>5, <1>6, NoneTwiceJoined
<1>8. (IsList(fleetOrder) /\ NoneTwice(fleetOrder))'
  BY <1>1, <1>7
<1>9. (\A i \in Members(fleetList.items) : FleetMatches(FleetMeters[i], AskedOfFleet(fleet)))'
  BY <1>1 DEF FleetInv, AskedOfFleet
<1>10. (IsList(fleetList.items) /\ NoneTwice(fleetList.items))'
  BY <1>1 DEF FleetInv, NoneTwice
<1>11. (fleetList.loading => /\ fleetAsk \in [of : FleetQuery, offset : Nat, silent : BOOLEAN]
                             /\ fleetAsk.of = AskedOfFleet(fleet))'
  BY <1>1 DEF FleetInv, AskedOfFleet
<1> QED BY <1>1, <1>8, <1>9, <1>10, <1>11 DEF FleetInv

LEMMA FleetKept ==
  ASSUME FleetInv, [FleetTableNext]_fleetVars
  PROVE  FleetInv'
<1>0. fleet \in FleetControls
  BY DEF FleetInv, FleetControls
<1>1. CASE UNCHANGED fleetVars
  <2>1. UNCHANGED <<fleetOrder, fleet, fleetList, fleetAsk>>
    BY <1>1 DEF fleetVars
  <2> QED BY <1>0, <2>1, FleetSame DEF FleetInv
<1>2. ASSUME NEW w \in FleetWindow, FleetWindowChosen(w)
      PROVE  FleetInv'
  <2>1. [fleet EXCEPT !.window = w] \in FleetControls
    BY <1>0, <1>2 DEF FleetControls
  <2> QED BY <1>2, <2>1, FleetControlled DEF FleetWindowChosen, FleetPress
<1>3. ASSUME NEW s \in FleetStatus, FleetStatusChosen(s)
      PROVE  FleetInv'
  <2>1. [fleet EXCEPT !.status = s] \in FleetControls
    BY <1>0, <1>3 DEF FleetControls
  <2> QED BY <1>3, <2>1, FleetControlled DEF FleetStatusChosen, FleetPress
<1>4. ASSUME NEW t \in FleetText, TypeInFleet(t)
      PROVE  FleetInv'
  <2>1. [fleet EXCEPT !.input = t, !.pause = TRUE] \in FleetControls
    BY <1>0, <1>4 DEF FleetControls
  <2> QED BY <1>4, <2>1, FleetControlled DEF TypeInFleet, FleetPress
<1>5. CASE FleetPauseEnds
  <2>1. [fleet EXCEPT !.pause = FALSE, !.text = fleet.input] \in FleetControls
    BY <1>0 DEF FleetControls
  <2> QED BY <1>5, <2>1, FleetControlled DEF FleetPauseEnds
<1>6. CASE PageRenders
  BY <1>0, <1>6, FleetAgain DEF PageRenders, Rendered
<1>7. CASE PageRefreshed
  <2> DEFINE silent == Len(fleetList.items) <= FleetSize
  <2>1. StartsAgain(fleet, silent) /\ fleetOrder' = fleetOrder
    BY <1>7 DEF PageRefreshed, Rendered
  <2>2. silent \in BOOLEAN
    <3>1. Len(fleetList.items) \in Nat /\ FleetSize \in Nat
      BY ListLength, FleetAssumption DEF FleetInv
    <3> QED BY <3>1
  <2> HIDE DEF silent
  <2> QED BY <1>0, <2>1, <2>2, FleetAgain
<1>8. CASE LoadMoreMeters
  <2>1. AskedOfFleet(fleet) \in FleetQuery /\ Len(fleetList.items) \in Nat
    BY <1>0, FleetAsks, ListLength DEF FleetInv
  <2> DEFINE q == AskedOfFleet(fleet)
             from == Len(fleetList.items)
  <2>2. /\ fleetList' = [fleetList EXCEPT !.loading = TRUE, !.error = FALSE]
        /\ fleetAsk' = [of |-> q, offset |-> from, silent |-> FALSE]
        /\ UNCHANGED <<fleetOrder, fleet>>
    BY <1>8 DEF LoadMoreMeters
  <2> HIDE DEF q, from
  <2>3. fleetAsk' \in [of : FleetQuery, offset : Nat, silent : BOOLEAN] /\ fleetAsk'.of = q
    BY <2>1, <2>2 DEF q, from
  <2>4. fleetAsk' # NoFleetAsk
    BY <2>3, FleetAssumption
  <2>5. fleetList'.items = fleetList.items /\ fleetList'.loading = TRUE /\ DOMAIN fleetList' = DOMAIN fleetList
    BY <2>2 DEF FleetInv
  <2> QED BY <1>0, <2>2, <2>3, <2>4, <2>5, FleetSame DEF q
<1>9. CASE FleetFails
  <2> DEFINE told == ~fleetAsk.silent
  <2>1. /\ fleetList' = [fleetList EXCEPT !.error = told, !.loading = FALSE]
        /\ fleetAsk' = NoFleetAsk
        /\ UNCHANGED <<fleetOrder, fleet>>
    BY <1>9 DEF FleetFails
  <2> HIDE DEF told
  <2>2. fleetList'.items = fleetList.items /\ fleetList'.loading = FALSE /\ DOMAIN fleetList' = DOMAIN fleetList
    BY <2>1 DEF FleetInv
  <2> QED BY <1>0, <2>1, <2>2, FleetSame
<1> QED BY <1>1, <1>2, <1>3, <1>4, <1>5, <1>6, <1>7, <1>8, <1>9, FleetNext, FleetHeard DEF FleetTableNext

-----------------------------------------------------------------------------
(* The search box: every answer that is remembered fits its key, and no key has *)
(* two.                                                                          *)

FitsKey(i, key) ==
  /\ i \in DOMAIN SearchMeters /\ InSite(i, key.site)
  /\ key.q \in SearchMeters[i].inside \cup SearchMeters[i].owner

FittingItems(items, key) ==
  /\ IsList(items) /\ NoneTwice(items) /\ Len(items) <= MaxSuggestions
  /\ \A i \in Members(items) : FitsKey(i, key)

SearchInv ==
  /\ working \subseteq DOMAIN SearchMeters /\ mapped \subseteq DOMAIN SearchMeters
  /\ IsList(answered) /\ Len(answered) <= Remembered
  /\ \A m, n \in DOMAIN answered : answered[m].key = answered[n].key => m = n
  /\ \A n \in DOMAIN answered : FittingItems(answered[n].items, answered[n].key)
  /\ DOMAIN box = {"text", "site", "open", "active", "remote", "waits", "asked", "failed", "typed"}
  /\ FittingItems(box.remote.items, box.remote.key)
  /\ box.waits \in BOOLEAN /\ box.failed \in BOOLEAN
  /\ box.asked \in {NoKey, SearchKey(box)}
  /\ box.asked # NoKey => ~box.waits
  /\ box.waits \/ box.asked # NoKey => IsLong(box) /\ AnswersFor(SearchKey(box)) = {}
  /\ IsLong(box) /\ ~box.waits /\ box.asked = NoKey /\ ~box.failed => box.remote.key = SearchKey(box)

LEMMA FewFirst ==
  ASSUME NEW s, IsList(s), NoneTwice(s)
  PROVE  /\ IsList(FirstFew(s)) /\ NoneTwice(FirstFew(s)) /\ Len(FirstFew(s)) <= MaxSuggestions
         /\ Members(FirstFew(s)) \subseteq Members(s)
<1>0. MaxSuggestions \in Nat
  <2>1. {MaxSuggestions, Remembered} \subseteq Nat \ {0}
    BY SearchAssumption
  <2> QED BY <2>1
<1> DEFINE few == Slice(s, 0, MaxSuggestions)
<1>1. FirstFew(s) = few
  <2>1. Len(s) \in Nat
    BY ListLength
  <2> DEFINE a == IF 0 + MaxSuggestions < Len(s) THEN 0 + MaxSuggestions ELSE Len(s)
             b == IF Len(s) < MaxSuggestions THEN Len(s) ELSE MaxSuggestions
  <2>2. a = b /\ 0 + 1 = 1
    BY <1>0, <2>1
  <2>3. few = SubSeq(s, 0 + 1, a) /\ FirstFew(s) = SubSeq(s, 1, b)
    BY DEF Slice, FirstFew
  <2> HIDE DEF a, b, few
  <2> QED BY <2>2, <2>3
<1>2. /\ IsList(few) /\ Len(few) <= MaxSuggestions
      /\ \A k \in DOMAIN few : 0 + k \in DOMAIN s /\ few[k] = s[0 + k]
  BY <1>0, SliceRows
<1>3. NoneTwice(few)
  BY <1>0, NoneTwiceIn
<1> HIDE DEF few
<1>4. Members(few) \subseteq Members(s)
  BY <1>2 DEF Members
<1> QED BY <1>1, <1>2, <1>3, <1>4

LEMMA StartsFit ==
  ASSUME NEW some \in SUBSET (DOMAIN SearchMeters), NEW q
  PROVE  /\ IsList(StartsFirst(some, q)) /\ NoneTwice(StartsFirst(some, q))
         /\ Len(StartsFirst(some, q)) <= MaxSuggestions
         /\ Members(StartsFirst(some, q)) \subseteq some
<1> DEFINE all == [i \in DOMAIN SearchMeters |-> i]
           starts == {i \in some : q \in SearchMeters[i].starts}
           a == RowsAt(all, starts)
           b == RowsAt(all, some \ starts)
<1>1. DOMAIN all = DOMAIN SearchMeters /\ \A i \in DOMAIN all : all[i] = i
  OBVIOUS
<1>2. IsList(all) /\ NoneTwice(all)
  <2> DEFINE S == Members(SearchMeters)
             n == Len(SearchMeters)
  <2>1. SearchMeters \in Seq(S)
    BY SearchAssumption
  <2> HIDE DEF S
  <2>2. DOMAIN SearchMeters = 1 .. n /\ n \in Nat
    BY <2>1
  <2> HIDE DEF n
  <2>3. all \in [1 .. n -> 1 .. n]
    BY <2>2
  <2>4. IsList(all)
    BY <2>2, <2>3 DEF IsList
  <2> QED BY <1>1, <2>4 DEF NoneTwice
<1>3. StartsFirst(some, q) = FirstFew(a \o b)
  BY DEF StartsFirst
<1>4. starts \in SUBSET some
  OBVIOUS
<1> HIDE DEF all, starts
<1>5. IsList(a) /\ NoneTwice(a) /\ Members(a) = {all[i] : i \in starts}
  BY <1>1, <1>2, <1>4, KeptRows, NoneTwiceAt
<1>6. IsList(b) /\ NoneTwice(b) /\ Members(b) = {all[i] : i \in some \ starts}
  <2>1. some \ starts \in SUBSET (DOMAIN all)
    BY <1>1
  <2> QED BY <1>2, <2>1, KeptRows, NoneTwiceAt
<1>7. {all[i] : i \in starts} = starts /\ {all[i] : i \in some \ starts} = some \ starts
  BY <1>1, <1>4
<1> HIDE DEF a, b
<1>8. \A x \in Members(b) : x \notin Members(a)
  BY <1>5, <1>6, <1>7
<1>9. IsList(a \o b) /\ NoneTwice(a \o b) /\ Members(a \o b) = Members(a) \cup Members(b)
  BY <1>5, <1>6, <1>8, NoneTwiceJoined
<1> DEFINE c == a \o b
<1> HIDE DEF c
<1>10. IsList(c) /\ NoneTwice(c) /\ Members(c) \subseteq some /\ StartsFirst(some, q) = FirstFew(c)
  BY <1>3, <1>4, <1>5, <1>6, <1>7, <1>9 DEF c
<1> QED BY <1>10, FewFirst

LEMMA SuggestedFit ==
  ASSUME NEW key, working \subseteq DOMAIN SearchMeters
  PROVE  FittingItems(Suggested(key), key)
<1> DEFINE some == {i \in working : /\ InSite(i, key.site)
                                    /\ key.q \in SearchMeters[i].inside \cup SearchMeters[i].owner}
           items == StartsFirst(some, key.q)
<1>1. some \in SUBSET (DOMAIN SearchMeters) /\ \A i \in some : FitsKey(i, key)
  BY DEF FitsKey
<1>2. Suggested(key) = items
  BY DEF Suggested
<1> HIDE DEF some
<1>3. IsList(items) /\ NoneTwice(items) /\ Len(items) <= MaxSuggestions /\ Members(items) \subseteq some
  BY <1>1, StartsFit
<1> QED BY <1>1, <1>2, <1>3 DEF FittingItems

LEMMA LocalFit ==
  ASSUME NEW b, mapped \subseteq DOMAIN SearchMeters
  PROVE  FittingItems(LocalSuggestions(b), SearchKey(b))
<1> DEFINE some == {i \in mapped : /\ SearchMeters[i].placed /\ InSite(i, b.site)
                                   /\ b.text \in SearchMeters[i].inside}
           items == StartsFirst(some, b.text)
<1>1. some \in SUBSET (DOMAIN SearchMeters) /\ \A i \in some : FitsKey(i, SearchKey(b))
  BY DEF FitsKey, SearchKey
<1>2. LocalSuggestions(b) = items
  BY DEF LocalSuggestions
<1> HIDE DEF some
<1>3. IsList(items) /\ NoneTwice(items) /\ Len(items) <= MaxSuggestions /\ Members(items) \subseteq some
  BY <1>1, StartsFit
<1> QED BY <1>1, <1>2, <1>3 DEF FittingItems

LEMMA NothingFits == ASSUME NEW key PROVE FittingItems(<<>>, key)
<1>1. IsList(<<>>) /\ NoneTwice(<<>>) /\ Members(<<>>) = {}
  BY NoMeters
<1>2. Len(<<>>) = 0
  OBVIOUS
<1>3. 0 <= MaxSuggestions
  <2>1. {MaxSuggestions, Remembered} \subseteq Nat \ {0}
    BY SearchAssumption
  <2> QED BY <2>1
<1> QED BY <1>1, <1>2, <1>3 DEF FittingItems

LEMMA ListedFit ==
  ASSUME SearchInv
  PROVE  FittingItems(Items(box), SearchKey(box))
<1>1. CASE box.remote.key = SearchKey(box)
  BY <1>1 DEF SearchInv, Items
<1>2. CASE box.remote.key # SearchKey(box) /\ IsLong(box)
  BY <1>2, LocalFit DEF SearchInv, Items
<1>3. CASE box.remote.key # SearchKey(box) /\ ~IsLong(box)
  BY <1>3, NothingFits DEF Items
<1> QED BY <1>1, <1>2, <1>3

LEMMA SearchIsAsked == SearchInv => SuggestionsForText /\ AnswersKept
<1> SUFFICES ASSUME SearchInv PROVE SuggestionsForText /\ AnswersKept
  OBVIOUS
<1>1. FittingItems(Items(box), SearchKey(box))
  BY ListedFit
<1> DEFINE items == Items(box)
<1> HIDE DEF items
<1>2. /\ Len(items) <= MaxSuggestions
      /\ \A m, n \in DOMAIN items : items[m] = items[n] => m = n
      /\ \A n \in DOMAIN items : FitsKey(items[n], SearchKey(box))
  BY <1>1 DEF FittingItems, NoneTwice, Members, items
<1>3. \A n \in DOMAIN items : /\ InSite(items[n], box.site)
                              /\ box.text \in SearchMeters[items[n]].inside \cup SearchMeters[items[n]].owner
  BY <1>2 DEF FitsKey, SearchKey
<1>4. SuggestionsForText
  BY <1>2, <1>3 DEF SearchInv, SuggestionsForText, items
<1>5. AnswersKept
  BY DEF SearchInv, AnswersKept
<1> QED BY <1>4, <1>5

LEMMA SearchInitially == SearchInit => SearchInv
<1> SUFFICES ASSUME SearchInit PROVE SearchInv
  OBVIOUS
<1>0. "" \notin LongText /\ {MaxSuggestions, Remembered} \subseteq Nat \ {0}
  BY SearchAssumption
<1>1. IsList(answered) /\ DOMAIN answered = {} /\ Len(answered) = 0
  <2>1. DOMAIN <<>> = {} /\ Len(<<>>) = 0
    OBVIOUS
  <2>2. answered = <<>>
    BY DEF SearchInit
  <2> QED BY <2>1, <2>2, EmptyIsList
<1>2. box.text = "" /\ box.remote.items = <<>> /\ box.waits = FALSE /\ box.asked = NoKey /\ box.failed = FALSE
      /\ DOMAIN box = {"text", "site", "open", "active", "remote", "waits", "asked", "failed", "typed"}
  BY DEF SearchInit, NoRemote
<1>3. FittingItems(box.remote.items, box.remote.key)
  BY <1>2, NothingFits
<1>4. ~IsLong(box)
  BY <1>0, <1>2 DEF IsLong
<1>5. Len(answered) <= Remembered
  <2>1. Remembered \in Nat
    BY <1>0
  <2> QED BY <1>1, <2>1
<1>6. working \subseteq DOMAIN SearchMeters /\ mapped \subseteq DOMAIN SearchMeters
  BY DEF SearchInit
<1>7. /\ box.waits \in BOOLEAN /\ box.failed \in BOOLEAN
      /\ ~box.waits /\ box.asked = NoKey
  BY <1>2
<1> QED BY <1>1, <1>2, <1>3, <1>4, <1>5, <1>6, <1>7 DEF SearchInv

\* What a new state of the box must be, answers and meters as they are.
BoxOf(b) ==
  /\ DOMAIN b = {"text", "site", "open", "active", "remote", "waits", "asked", "failed", "typed"}
  /\ FittingItems(b.remote.items, b.remote.key)
  /\ b.waits \in BOOLEAN /\ b.failed \in BOOLEAN
  /\ b.asked \in {NoKey, SearchKey(b)}
  /\ b.asked # NoKey => ~b.waits
  /\ b.waits \/ b.asked # NoKey => IsLong(b) /\ AnswersFor(SearchKey(b)) = {}
  /\ IsLong(b) /\ ~b.waits /\ b.asked = NoKey /\ ~b.failed => b.remote.key = SearchKey(b)

LEMMA BoxNow == SearchInv => BoxOf(box)
BY DEF SearchInv, BoxOf

LEMMA BoxDoes ==
  ASSUME SearchInv, NEW b, BoxOf(b), Does(b)
  PROVE  SearchInv'
<1>1. box' = b /\ UNCHANGED <<answered, working, mapped>>
  BY DEF Does
<1>2. /\ (IsList(answered) /\ Len(answered) <= Remembered)'
      /\ (\A m, n \in DOMAIN answered : answered[m].key = answered[n].key => m = n)'
      /\ (\A n \in DOMAIN answered : FittingItems(answered[n].items, answered[n].key))'
  BY <1>1 DEF SearchInv
<1>3. \A key : AnswersFor(key)' = AnswersFor(key)
  BY <1>1 DEF AnswersFor
<1>4. (box.waits \/ box.asked # NoKey => IsLong(box) /\ AnswersFor(SearchKey(box)) = {})'
  BY <1>1, <1>3 DEF BoxOf
<1> QED BY <1>1, <1>2, <1>4 DEF SearchInv, BoxOf

\* The box with other settings, the key the same or another.
LEMMA BoxBecomes ==
  ASSUME SearchInv, NEW b,
         DOMAIN b = DOMAIN box, b.remote = box.remote, b.waits = box.waits, b.asked = box.asked,
         b.failed = box.failed
  PROVE  BoxOf(Become(b))
<1>1. CASE SearchKey(b) = SearchKey(box)
  <2>1. b.text = box.text /\ Become(b) = b
    BY <1>1 DEF SearchKey, Become
  <2> QED BY <1>1, <2>1, BoxNow DEF BoxOf, IsLong
<1>2. CASE SearchKey(b) # SearchKey(box)
  <2> DEFINE key == SearchKey(b)
             fresh == [b EXCEPT !.active = 0, !.waits = FALSE, !.asked = NoKey, !.failed = FALSE]
  <2>0. FittingItems(b.remote.items, b.remote.key)
        /\ DOMAIN b = {"text", "site", "open", "active", "remote", "waits", "asked", "failed", "typed"}
    BY DEF SearchInv
  <2>1. Become(b) = Keyed(b)
    BY <1>2 DEF Become
  <2>2. /\ DOMAIN fresh = {"text", "site", "open", "active", "remote", "waits", "asked", "failed", "typed"}
        /\ fresh.text = b.text /\ fresh.site = b.site /\ fresh.remote = b.remote
        /\ fresh.waits = FALSE /\ fresh.asked = NoKey /\ fresh.failed = FALSE
    BY <2>0
  <2>3. Keyed(b) = IF ~IsLong(b) THEN fresh
                   ELSE IF AnswersFor(key) # {}
                     THEN [fresh EXCEPT !.remote = answered[CHOOSE n \in AnswersFor(key) : TRUE]]
                     ELSE [fresh EXCEPT !.waits = TRUE]
    BY DEF Keyed
  <2>4. SearchKey(fresh) = key /\ IsLong(fresh) = IsLong(b)
    BY <2>2 DEF SearchKey, IsLong
  <2> HIDE DEF fresh, key
  <2>5. CASE ~IsLong(b)
    <3>1. BoxOf(fresh)
      BY <2>0, <2>2, <2>4, <2>5 DEF BoxOf
    <3> QED BY <2>1, <2>3, <2>5, <3>1
  <2>6. CASE IsLong(b) /\ AnswersFor(key) # {}
    <3> DEFINE n == CHOOSE n \in AnswersFor(key) : TRUE
               r == answered[n]
               c == [fresh EXCEPT !.remote = r]
    <3>1. n \in DOMAIN answered /\ r.key = key
      BY <2>6 DEF AnswersFor
    <3>2. FittingItems(r.items, r.key)
      BY <3>1 DEF SearchInv
    <3> HIDE DEF n, r
    <3>3. /\ DOMAIN c = {"text", "site", "open", "active", "remote", "waits", "asked", "failed", "typed"}
          /\ c.text = b.text /\ c.site = b.site /\ c.remote = r
          /\ c.waits = FALSE /\ c.asked = NoKey /\ c.failed = FALSE
      BY <2>2
    <3>4. Keyed(b) = c
      BY <2>3, <2>6 DEF n, r
    <3> HIDE DEF c
    <3>5. SearchKey(c) = key
      BY <3>3 DEF SearchKey, key
    <3> QED BY <2>1, <3>1, <3>2, <3>3, <3>4, <3>5 DEF BoxOf
  <2>7. CASE IsLong(b) /\ AnswersFor(key) = {}
    <3> DEFINE c == [fresh EXCEPT !.waits = TRUE]
    <3>1. /\ DOMAIN c = {"text", "site", "open", "active", "remote", "waits", "asked", "failed", "typed"}
          /\ c.text = b.text /\ c.site = b.site /\ c.remote = b.remote
          /\ c.waits = TRUE /\ c.asked = NoKey /\ c.failed = FALSE
      BY <2>2
    <3>2. Keyed(b) = c
      BY <2>3, <2>7
    <3> HIDE DEF c
    <3>3. SearchKey(c) = key /\ IsLong(c)
      BY <2>7, <3>1 DEF SearchKey, key, IsLong
    <3> QED BY <2>0, <2>1, <2>7, <3>1, <3>2, <3>3 DEF BoxOf
  <2> QED BY <2>5, <2>6, <2>7
<1> QED BY <1>1, <1>2

\* A setting that is no part of the key.
LEMMA BoxKeeps ==
  ASSUME SearchInv, NEW b,
         DOMAIN b = DOMAIN box, b.remote = box.remote, b.waits = box.waits, b.asked = box.asked,
         b.failed = box.failed, b.text = box.text, b.site = box.site
  PROVE  BoxOf(b)
<1>1. SearchKey(b) = SearchKey(box)
  BY DEF SearchKey
<1> QED BY <1>1, BoxNow DEF BoxOf, IsLong

LEMMA BoxPicks ==
  ASSUME SearchInv, NEW i, Pick(i)
  PROVE  SearchInv'
<1> DEFINE t == SearchMeters[Items(box)[i]].id
<1> HIDE DEF t
<1> DEFINE b == [box EXCEPT !.open = FALSE, !.text = t]
<1>1. Does(Become(b))
  BY DEF Pick, t
<1>2. /\ DOMAIN b = DOMAIN box /\ b.remote = box.remote /\ b.waits = box.waits /\ b.asked = box.asked
      /\ b.failed = box.failed
  BY DEF SearchInv
<1> HIDE DEF b
<1> QED BY <1>1, <1>2, BoxBecomes, BoxDoes

LEMMA BoxHears ==
  ASSUME SearchInv, SuggestionsArrive
  PROVE  SearchInv'
<1> DEFINE key == SearchKey(box)
           items == Suggested(key)
           new == [key |-> key, items |-> items]
           older == IF Len(answered) >= Remembered THEN Tail(answered) ELSE answered
<1>0. Remembered \in Nat \ {0}
  <2>1. {MaxSuggestions, Remembered} \subseteq Nat \ {0}
    BY SearchAssumption
  <2> QED BY <2>1
<1>1. box.asked = key /\ key # NoKey /\ ~box.waits /\ IsLong(box) /\ AnswersFor(key) = {}
  BY DEF SuggestionsArrive, SearchInv
<1>2. /\ answered' = Append(older, new)
      /\ box' = [box EXCEPT !.asked = NoKey, !.remote = new]
      /\ UNCHANGED <<working, mapped>>
  BY <1>1 DEF SuggestionsArrive, Remember, SearchKey
<1>3. FittingItems(items, key)
  BY SuggestedFit DEF SearchInv
<1>4. new.key = key /\ new.items = items
  OBVIOUS
<1>5. \A n \in DOMAIN answered : answered[n].key # key
  BY <1>1 DEF AnswersFor
<1> HIDE DEF new, items
<1>6. PICK d \in {0, 1} : /\ IsList(older) /\ Len(older) < Remembered
                          /\ \A j \in DOMAIN older : j + d \in DOMAIN answered /\ older[j] = answered[j + d]
  <2>0. IsList(answered) /\ Len(answered) <= Remembered /\ Len(answered) \in Nat
        /\ DOMAIN answered = 1 .. Len(answered)
    BY ListLength DEF SearchInv
  <2>1. CASE Len(answered) >= Remembered
    <3>1. older = Tail(answered)
      BY <2>1
    <3>2. /\ IsList(Tail(answered)) /\ Len(Tail(answered)) = Len(answered) - 1
          /\ \A j \in 1 .. Len(answered) - 1 : Tail(answered)[j] = answered[j + 1]
      <4>1. PICK n \in Nat : \E S : answered \in [1 .. n -> S]
        BY <2>0 DEF IsList
      <4>2. PICK S : answered \in [1 .. n -> S]
        BY <4>1
      <4>3. answered \in Seq(S) /\ Len(answered) = n /\ answered # <<>>
        <5>1. answered \in Seq(S) /\ Len(answered) = n
          BY <4>2
        <5>2. Len(answered) # 0
          BY <1>0, <2>0, <2>1
        <5> QED BY <5>1, <5>2, EmptySeq
      <4>4. /\ Tail(answered) \in Seq(S) /\ Len(Tail(answered)) = n - 1
            /\ \A j \in 1 .. n - 1 : Tail(answered)[j] = answered[j + 1]
        BY <4>3, HeadTailProperties
      <4>5. n - 1 \in Nat
        BY <1>0, <2>1, <4>3
      <4>6. Tail(answered) \in [1 .. n - 1 -> S]
        <5> DEFINE v == Tail(answered)
        <5> HIDE DEF v
        <5>1. v \in Seq(S) /\ Len(v) = n - 1
          BY <4>4 DEF v
        <5>2. v \in [1 .. Len(v) -> S]
          BY <5>1
        <5> QED BY <5>1, <5>2 DEF v
      <4> QED BY <4>3, <4>4, <4>5, <4>6 DEF IsList
    <3>3. DOMAIN Tail(answered) = 1 .. Len(answered) - 1
      BY <3>2, ListLength
    <3> DEFINE u == Tail(answered)
    <3> HIDE DEF u
    <3>4. /\ IsList(u) /\ Len(u) = Len(answered) - 1 /\ older = u
          /\ \A j \in DOMAIN u : j + 1 \in DOMAIN answered /\ u[j] = answered[j + 1]
      <4>1. IsList(u) /\ Len(u) = Len(answered) - 1 /\ DOMAIN u = 1 .. Len(answered) - 1 /\ older = u
        BY <3>1, <3>2, <3>3 DEF u
      <4>2. \A j \in 1 .. Len(answered) - 1 : u[j] = answered[j + 1]
        BY <3>2 DEF u
      <4>3. \A j \in 1 .. Len(answered) - 1 : j + 1 \in 1 .. Len(answered)
        BY <2>0
      <4> QED BY <2>0, <4>1, <4>2, <4>3
    <3> HIDE DEF older
    <3>5. /\ IsList(older) /\ Len(older) < Remembered
          /\ \A j \in DOMAIN older : j + 1 \in DOMAIN answered /\ older[j] = answered[j + 1]
      BY <1>0, <2>0, <3>4
    <3> QED BY <3>5
  <2>2. CASE ~(Len(answered) >= Remembered)
    <3>1. older = answered
      BY <2>2
    <3> HIDE DEF older
    <3>2. /\ IsList(older) /\ Len(older) < Remembered
          /\ \A j \in DOMAIN older : j + 0 \in DOMAIN answered /\ older[j] = answered[j + 0]
      BY <1>0, <2>0, <2>2, <3>1
    <3> QED BY <3>2
  <2> QED BY <2>1, <2>2
<1> HIDE DEF older, key
<1>7. PICK n \in Nat : \E S : older \in [1 .. n -> S]
  BY <1>6 DEF IsList
<1>8. PICK S : older \in [1 .. n -> S]
  BY <1>7
<1> DEFINE T == S \cup {new}
<1>9. older \in [1 .. n -> T] /\ new \in T
  BY <1>8
<1> HIDE DEF T
<1>10. older \in Seq(T) /\ Len(older) = n /\ DOMAIN older = 1 .. n
  BY <1>9
<1> DEFINE a == Append(older, new)
<1>11. /\ a \in Seq(T) /\ Len(a) = n + 1
       /\ \A j \in 1 .. n : a[j] = older[j]
       /\ a[n + 1] = new
  BY <1>9, <1>10, AppendProperties
<1> HIDE DEF a
<1>12. DOMAIN a = 1 .. (n + 1) /\ a \in [1 .. (n + 1) -> T]
  BY <1>11
<1>13. ASSUME NEW j \in DOMAIN a
       PROVE  \/ j = n + 1 /\ a[j] = new
              \/ j \in DOMAIN older /\ j + d \in DOMAIN answered /\ a[j] = answered[j + d]
  <2>1. j = n + 1 \/ j \in 1 .. n
    BY <1>12
  <2>2. CASE j \in 1 .. n
    BY <1>6, <1>10, <1>11, <2>2
  <2> QED BY <1>11, <2>1, <2>2
<1>14. IsList(a) /\ Len(a) <= Remembered
  <2>1. IsList(a)
    BY <1>12 DEF IsList
  <2> QED BY <1>0, <1>6, <1>10, <1>11, <2>1
<1>15. ASSUME NEW j \in DOMAIN a, NEW k \in DOMAIN a, a[j].key = a[k].key
       PROVE  j = k
  <2>1. \A i \in DOMAIN older : answered[i + d].key # key
    BY <1>5, <1>6
  <2>2. ASSUME j \in DOMAIN older, k \in DOMAIN older,
               j + d \in DOMAIN answered, k + d \in DOMAIN answered,
               a[j] = answered[j + d], a[k] = answered[k + d]
        PROVE  j = k
    <3>1. j + d = k + d
      BY <1>15, <2>2 DEF SearchInv
    <3>2. j \in Nat /\ k \in Nat
      BY <1>10, <2>2
    <3> QED BY <3>1, <3>2
  <2> QED BY <1>4, <1>13, <1>15, <2>1, <2>2
<1>16. ASSUME NEW j \in DOMAIN a
       PROVE  FittingItems(a[j].items, a[j].key)
  <2>1. CASE a[j] = new
    BY <1>3, <1>4, <2>1
  <2>2. CASE j + d \in DOMAIN answered /\ a[j] = answered[j + d]
    BY <2>2 DEF SearchInv
  <2> QED BY <1>13, <2>1, <2>2
<1>17. answered' = a
  BY <1>2 DEF a
<1>18. /\ DOMAIN box' = {"text", "site", "open", "active", "remote", "waits", "asked", "failed", "typed"}
       /\ box'.text = box.text /\ box'.site = box.site /\ box'.waits = box.waits /\ box'.failed = box.failed
       /\ box'.asked = NoKey /\ box'.remote = new
  BY <1>2 DEF SearchInv
<1>19. SearchKey(box)' = key
  BY <1>18 DEF SearchKey, key
<1>20. /\ (IsList(answered) /\ Len(answered) <= Remembered)'
       /\ (\A j, k \in DOMAIN answered : answered[j].key = answered[k].key => j = k)'
       /\ (\A j \in DOMAIN answered : FittingItems(answered[j].items, answered[j].key))'
  BY <1>14, <1>15, <1>16, <1>17
<1>21. (working \subseteq DOMAIN SearchMeters /\ mapped \subseteq DOMAIN SearchMeters)'
  BY <1>2 DEF SearchInv
<1>22. FittingItems(box.remote.items, box.remote.key)' /\ box'.remote.key = key
  BY <1>3, <1>4, <1>18
<1>23. box'.waits = FALSE /\ box'.failed \in BOOLEAN
  BY <1>1, <1>18 DEF SearchInv
<1> QED BY <1>18, <1>19, <1>20, <1>21, <1>22, <1>23 DEF SearchInv

LEMMA SearchAround ==
  ASSUME SearchInv, box' = box, answered' = answered,
         working' \subseteq DOMAIN SearchMeters, mapped' \subseteq DOMAIN SearchMeters
  PROVE  SearchInv'
<1>1. /\ (IsList(answered) /\ Len(answered) <= Remembered)'
      /\ (\A m, n \in DOMAIN answered : answered[m].key = answered[n].key => m = n)'
      /\ (\A n \in DOMAIN answered : FittingItems(answered[n].items, answered[n].key))'
  BY DEF SearchInv
<1>2. \A key : AnswersFor(key)' = AnswersFor(key)
  BY DEF AnswersFor
<1>3. (box.waits \/ box.asked # NoKey => IsLong(box) /\ AnswersFor(SearchKey(box)) = {})'
  BY <1>2 DEF SearchInv, IsLong, SearchKey
<1> QED BY <1>1, <1>3 DEF SearchInv, SearchKey, IsLong

LEMMA SearchKept ==
  ASSUME SearchInv, [SearchNext]_searchVars
  PROVE  SearchInv'
<1>0. DOMAIN box = {"text", "site", "open", "active", "remote", "waits", "asked", "failed", "typed"}
  BY DEF SearchInv
<1>1. CASE UNCHANGED searchVars
  BY <1>1, SearchAround DEF searchVars, SearchInv
<1>2. ASSUME NEW w, TypeText(w)
      PROVE  SearchInv'
  <2> DEFINE n == box.typed + 1
  <2> HIDE DEF n
  <2> DEFINE b == [box EXCEPT !.text = w, !.open = TRUE, !.typed = n]
  <2>1. Does(Become(b))
    BY <1>2 DEF TypeText, n
  <2>2. /\ DOMAIN b = DOMAIN box /\ b.remote = box.remote /\ b.waits = box.waits /\ b.asked = box.asked
        /\ b.failed = box.failed
    BY <1>0
  <2> HIDE DEF b
  <2> QED BY <2>1, <2>2, BoxBecomes, BoxDoes
<1>3. CASE ClearText
  <2> DEFINE b == [box EXCEPT !.text = ""]
  <2>1. Does(Become(b))
    BY <1>3 DEF ClearText
  <2>2. /\ DOMAIN b = DOMAIN box /\ b.remote = box.remote /\ b.waits = box.waits /\ b.asked = box.asked
        /\ b.failed = box.failed
    BY <1>0
  <2> HIDE DEF b
  <2> QED BY <2>1, <2>2, BoxBecomes, BoxDoes
<1>4. ASSUME NEW s, SearchSiteChanges(s)
      PROVE  SearchInv'
  <2> DEFINE n == box.typed + 1
  <2> HIDE DEF n
  <2> DEFINE b == [box EXCEPT !.site = s, !.typed = n]
  <2>1. Does(Become(b))
    BY <1>4 DEF SearchSiteChanges, n
  <2>2. /\ DOMAIN b = DOMAIN box /\ b.remote = box.remote /\ b.waits = box.waits /\ b.asked = box.asked
        /\ b.failed = box.failed
    BY <1>0
  <2> HIDE DEF b
  <2> QED BY <2>1, <2>2, BoxBecomes, BoxDoes
<1>5. ASSUME NEW o, NEW a, Does([box EXCEPT !.open = o, !.active = a])
      PROVE  SearchInv'
  <2> DEFINE b == [box EXCEPT !.open = o, !.active = a]
  <2>1. /\ DOMAIN b = DOMAIN box /\ b.remote = box.remote /\ b.waits = box.waits /\ b.asked = box.asked
        /\ b.failed = box.failed /\ b.text = box.text /\ b.site = box.site
    BY <1>0
  <2>2. Does(b)
    BY <1>5
  <2> HIDE DEF b
  <2> QED BY <2>1, <2>2, BoxKeeps, BoxDoes
<1>6. ASSUME NEW o, Does([box EXCEPT !.open = o])
      PROVE  SearchInv'
  <2> DEFINE b == [box EXCEPT !.open = o]
  <2>1. /\ DOMAIN b = DOMAIN box /\ b.remote = box.remote /\ b.waits = box.waits /\ b.asked = box.asked
        /\ b.failed = box.failed /\ b.text = box.text /\ b.site = box.site
    BY <1>0
  <2>2. Does(b)
    BY <1>6
  <2> HIDE DEF b
  <2> QED BY <2>1, <2>2, BoxKeeps, BoxDoes
<1>7. ASSUME NEW a, Does([box EXCEPT !.active = a])
      PROVE  SearchInv'
  <2> DEFINE b == [box EXCEPT !.active = a]
  <2>1. /\ DOMAIN b = DOMAIN box /\ b.remote = box.remote /\ b.waits = box.waits /\ b.asked = box.asked
        /\ b.failed = box.failed /\ b.text = box.text /\ b.site = box.site
    BY <1>0
  <2>2. Does(b)
    BY <1>7
  <2> HIDE DEF b
  <2> QED BY <2>1, <2>2, BoxKeeps, BoxDoes
<1>8. CASE FocusBox \/ LeaveBox
  BY <1>6, <1>8 DEF FocusBox, LeaveBox
<1>9. CASE ArrowDown
  <2> DEFINE a == (box.active % Len(Items(box))) + 1
  <2> HIDE DEF a
  <2>1. Does([box EXCEPT !.open = TRUE, !.active = a])
    BY <1>9 DEF ArrowDown, a
  <2> QED BY <1>5, <2>1
<1>10. CASE ArrowUp
  <2> DEFINE a == IF box.active <= 1 THEN Len(Items(box)) ELSE box.active - 1
  <2> HIDE DEF a
  <2>1. Does([box EXCEPT !.active = a])
    BY <1>10 DEF ArrowUp, a
  <2> QED BY <1>7, <2>1
<1>11. ASSUME NEW i, PointAt(i)
       PROVE  SearchInv'
  BY <1>7, <1>11 DEF PointAt
<1>12. ASSUME NEW i, PickRow(i)
       PROVE  SearchInv'
  BY <1>12, BoxPicks DEF PickRow
<1>13. CASE EnterKey
  <2>1. CASE Listed(box) /\ box.active \in DOMAIN Items(box)
    BY <1>13, <2>1, BoxPicks DEF EnterKey
  <2>2. CASE ~(Listed(box) /\ box.active \in DOMAIN Items(box))
    BY <1>6, <1>13, <2>2 DEF EnterKey
  <2> QED BY <2>1, <2>2
<1>14. CASE PauseEnds
  <2> DEFINE key == SearchKey(box)
             b == [box EXCEPT !.waits = FALSE, !.asked = key]
  <2>1. Does(b) /\ box.waits
    BY <1>14 DEF PauseEnds
  <2>2. IsLong(box) /\ AnswersFor(key) = {}
    BY <2>1 DEF SearchInv
  <2>3. key # NoKey
    <3>1. box.text # ""
      BY <2>2, SearchAssumption DEF IsLong
    <3>2. key.q = box.text /\ NoKey.q = ""
      BY DEF SearchKey, NoKey
    <3> QED BY <3>1, <3>2
  <2> HIDE DEF key
  <2>4. /\ DOMAIN b = DOMAIN box /\ b.remote = box.remote /\ b.waits = FALSE /\ b.asked = key
        /\ b.failed = box.failed /\ b.text = box.text /\ b.site = box.site
    BY <1>0
  <2> HIDE DEF b
  <2>5. SearchKey(b) = key /\ IsLong(b)
    BY <2>2, <2>4 DEF SearchKey, IsLong, key
  <2>6. BoxOf(b)
    BY <2>2, <2>3, <2>4, <2>5, BoxNow DEF BoxOf
  <2> QED BY <2>1, <2>6, BoxDoes
<1>15. CASE SuggestionsFail
  <2> DEFINE b == [box EXCEPT !.asked = NoKey, !.failed = TRUE]
  <2>1. Does(b) /\ box.asked # NoKey
    BY <1>15 DEF SuggestionsFail
  <2>2. /\ DOMAIN b = DOMAIN box /\ b.remote = box.remote /\ b.waits = box.waits /\ b.asked = NoKey
        /\ b.failed = TRUE /\ b.text = box.text /\ b.site = box.site
    BY <1>0
  <2>3. box.waits = FALSE
    BY <2>1 DEF SearchInv
  <2> HIDE DEF b
  <2>4. BoxOf(b)
    BY <2>2, <2>3, BoxNow DEF BoxOf
  <2> QED BY <2>1, <2>4, BoxDoes
<1>16. ASSUME NEW i, Retire(i)
       PROVE  SearchInv'
  BY <1>16, SearchAround DEF Retire, SearchInv
<1>17. CASE PointsRefresh
  BY <1>17, SearchAround DEF PointsRefresh, SearchInv
<1> QED BY <1>1, <1>2, <1>3, <1>4, <1>8, <1>9, <1>10, <1>11, <1>12, <1>13, <1>14, <1>15, <1>16, <1>17, BoxHears
     DEF SearchNext

-----------------------------------------------------------------------------
(* What the pages show, one page at a time.                                 *)

AskedInv ==
  /\ about = "placing" => PlacementInv
  /\ about = "meters" => MetersInv
  /\ about = "drawer" => DrawerInv
  /\ about = "alarms" => AlarmsAsked
  /\ about = "bills" => BillsAsked
  /\ about = "houses" => HousesAsked
  /\ about = "counts" => CountsInv
  /\ about = "layer" => LayerInv
  /\ about = "table" => SheetInv
  /\ about = "explorer" => MapInv
  /\ about \in {"numbers", "back", "roster", "lookup"} => CenterInv
  /\ about = "reach" => ReachInv
  /\ about = "search" => SearchInv
  /\ about = "fleet" => FleetInv

LEMMA AskedInitially == PagesInit => AskedInv
BY PlacementInitially, MetersInitially, DrawerInitially, AlarmsAskedAtFirst, BillsAskedAtFirst, HousesAskedAtFirst,
   CountsInitially, LayerInitially, SheetInitially, MapInitially, CenterInitially,
   ReachInitially, SearchInitially, FleetInitially
   DEF PagesInit, AskedInv

LEMMA AskedKept ==
  ASSUME AskedInv, [PagesNext]_pagesVars
  PROVE  AskedInv'
<1>0. about' = about
  BY DEF PagesNext, pagesVars
<1>1. CASE about = "placing"
  <2>1. [PlacementNext]_placementVars
    BY <1>1 DEF PagesNext, PlacingStep, pagesVars
  <2> QED BY <1>0, <1>1, <2>1, PlacementStep DEF AskedInv
<1>2. CASE about = "meters"
  <2>1. [MetersNext]_metersVars
    BY <1>2 DEF PagesNext, MetersStep, pagesVars
  <2> QED BY <1>0, <1>2, <2>1, MetersKept DEF AskedInv
<1>3. CASE about = "drawer"
  <2>1. [DrawerNext]_drawerVars
    BY <1>3 DEF PagesNext, DrawerStep, pagesVars
  <2> QED BY <1>0, <1>3, <2>1, DrawerKept DEF AskedInv
<1>4. CASE about = "alarms"
  <2>1. [AlarmsNext]_alarmVars
    BY <1>4 DEF PagesNext, AlarmsStep, pagesVars
  <2> QED BY <1>0, <1>4, <2>1, AlarmsAskedKept DEF AskedInv
<1>5. CASE about = "bills"
  <2>1. [BillingNext]_billVars
    BY <1>5 DEF PagesNext, BillsStep, pagesVars
  <2> QED BY <1>0, <1>5, <2>1, BillsAskedKept DEF AskedInv
<1>6. CASE about = "houses"
  <2>1. [HouseholdsNext]_houseVars
    BY <1>6 DEF PagesNext, HousesStep, pagesVars
  <2> QED BY <1>0, <1>6, <2>1, HousesAskedKept DEF AskedInv
<1>7. CASE about = "counts"
  <2>1. [HouseholdsNext]_houseVars
    BY <1>7 DEF PagesNext, HousesStep, pagesVars
  <2> QED BY <1>0, <1>7, <2>1, CountsKept DEF AskedInv
<1>8. CASE about = "layer"
  <2>1. [LayerNext]_layerVars
    BY <1>8 DEF PagesNext, LayerStep, pagesVars
  <2> QED BY <1>0, <1>8, <2>1, LayerKept DEF AskedInv
<1>9. CASE about = "table"
  <2>1. [SheetNext]_sheetVars
    BY <1>9 DEF PagesNext, TableStep, pagesVars
  <2> QED BY <1>0, <1>9, <2>1, SheetKept DEF AskedInv
<1>10. CASE about = "explorer"
  <2>1. [ExplorerNext]_explorerVars
    BY <1>10 DEF PagesNext, ExplorerStep, pagesVars
  <2> QED BY <1>0, <1>10, <2>1, MapKept DEF AskedInv
<1>11. CASE about \in {"numbers", "back", "roster", "lookup"}
  <2>1. [CenterNext]_centerVars
    BY <1>11 DEF PagesNext, CommandStep, pagesVars, CenterNext
  <2> QED BY <1>0, <1>11, <2>1, CenterKept DEF AskedInv
<1>12. CASE about = "reach"
  <2>1. [ReachNext]_reachVars
    BY <1>12 DEF PagesNext, ReachStep, pagesVars
  <2> QED BY <1>0, <1>12, <2>1, ReachKept DEF AskedInv
<1>13. CASE about = "search"
  <2>1. [SearchNext]_searchVars
    BY <1>13 DEF PagesNext, SearchStep, pagesVars
  <2> QED BY <1>0, <1>13, <2>1, SearchKept DEF AskedInv
<1>14. CASE about = "fleet"
  <2>1. [FleetTableNext]_fleetVars
    BY <1>14 DEF PagesNext, FleetStep, pagesVars
  <2> QED BY <1>0, <1>14, <2>1, FleetKept DEF AskedInv
<1>15. CASE about \notin {"placing", "meters", "drawer", "alarms", "bills", "houses", "counts", "layer",
                       "table", "explorer", "numbers", "back", "roster", "lookup", "reach", "search", "fleet"}
  BY <1>0, <1>15 DEF AskedInv
<1> QED BY <1>1, <1>2, <1>3, <1>4, <1>5, <1>6, <1>7, <1>8, <1>9, <1>10, <1>11, <1>12, <1>13, <1>14, <1>15

\* Whatever was chosen, clicked or opened while answers were on their way, a page that has
\* settled shows what is asked for: the plan of the placement page, the meters of a leaf,
\* the drawer of a meter, the alerts, the bills, the households and their counts, the
\* canvas, the reach panel, the search box, the table and the map of the Network Explorer,
\* the numbers, the meters and the fleet of the Command Center.  For any rows, sites,
\* gateways, meters, positions, views, accounts and number of requests on their way.
THEOREM PagesShowWhatIsAsked == PagesSpec => []ShowsWhatIsAsked
<1>1. AskedInv => ShowsWhatIsAsked
  <2>1. PlacementInv => PlanForAsked
    BY DEF PlacementInv
  <2>2. MetersInv => RowsForAsked
    BY DEF MetersInv
  <2>3. DrawerInv => WholeDetail
    BY DEF DrawerInv
  <2>4. MapInv => GatewayOfArea /\ MapStaysPut /\ MapDrawsPage
    BY DEF MapInv
  <2> QED BY <2>1, <2>2, <2>3, <2>4, AlarmsAreAsked, BillsAreAsked, HousesAreAsked, CountsAreSince,
             LayerDraws, SheetIsAsked, CenterTold, PanelIsTold, SearchIsAsked, FleetIsAsked
             DEF AskedInv, ShowsWhatIsAsked
<1> QED BY <1>1, AskedInitially, AskedKept, PTL DEF PagesSpec

-----------------------------------------------------------------------------
(* Lists that are read page by page: whoever went through the pages has seen   *)
(* the rows.  The pages seen so far hold the rows of those pages, whatever was *)
(* pressed in between; requests on their way are for pages that there may be.  *)

\* What the requests on their way ask for.
AskedIn(r) == {r[i].q : i \in DOMAIN r}

LEMMA AsksMore ==
  ASSUME NEW r, AskedFor(r), NEW q, NEW late
  PROVE  AskedIn(Append(r, [q |-> q, late |-> late])) \subseteq AskedIn(r) \cup {q}
<1> DEFINE e == [q |-> q, late |-> late]
<1>0. e.q = q
  OBVIOUS
<1> HIDE DEF e
<1>1. PICK n \in Nat : \E S : r \in [1 .. n -> S]
  BY DEF AskedFor, IsList
<1>2. PICK S : r \in [1 .. n -> S]
  BY <1>1
<1> DEFINE A == S \cup {e}
<1>3. r \in [1 .. n -> A] /\ e \in A
  BY <1>2
<1> HIDE DEF A
<1>4. r \in Seq(A) /\ Len(r) = n /\ DOMAIN r = 1 .. n
  BY <1>3
<1>5. /\ Append(r, e) \in Seq(A) /\ Len(Append(r, e)) = n + 1
      /\ \A j \in 1 .. n : Append(r, e)[j] = r[j]
      /\ Append(r, e)[n + 1] = e
  BY <1>3, <1>4, AppendProperties
<1> DEFINE a == Append(r, e)
<1> HIDE DEF a
<1>6. DOMAIN a = 1 .. (n + 1)
  BY <1>5 DEF a
<1>7. ASSUME NEW j \in DOMAIN a
      PROVE  a[j].q \in AskedIn(r) \cup {q}
  <2>1. CASE j = n + 1
    BY <1>0, <1>5, <2>1 DEF a
  <2>2. CASE j # n + 1
    <3>1. j \in 1 .. n
      BY <1>6, <2>2
    <3> QED BY <1>4, <1>5, <3>1 DEF a, AskedIn
  <2> QED BY <2>1, <2>2
<1>8. AskedIn(a) \subseteq AskedIn(r) \cup {q}
  BY <1>7 DEF AskedIn
<1> QED BY <1>8 DEF a, e

LEMMA AsksLess ==
  ASSUME NEW r, AskedFor(r), NEW i \in DOMAIN r
  PROVE  AskedIn(Arrived(r, i)) \subseteq AskedIn(r)
<1>1. Len(r) \in Nat /\ DOMAIN r = 1 .. Len(r)
  BY ListLength DEF AskedFor
<1> DEFINE n == Len(r) - 1
           a == Arrived(r, i)
<1>2. n \in Nat /\ a = [j \in 1 .. n |-> IF j < i THEN [r[j] EXCEPT !.late = TRUE] ELSE r[j + 1]]
  BY <1>1 DEF Arrived
<1>3. ASSUME NEW j \in DOMAIN a
      PROVE  a[j].q \in AskedIn(r)
  <2>1. j \in 1 .. n /\ j \in DOMAIN r /\ j + 1 \in DOMAIN r
    BY <1>1, <1>2
  <2>2. CASE j < i
    <3>1. a[j] = [r[j] EXCEPT !.late = TRUE]
      BY <1>2, <2>1, <2>2
    <3>2. DOMAIN r[j] = {"q", "late"}
      BY <1>1, <2>1 DEF AskedFor
    <3>3. a[j].q = r[j].q
      BY <3>1, <3>2
    <3> QED BY <2>1, <3>3 DEF AskedIn
  <2>3. CASE ~ (j < i)
    <3>1. a[j] = r[j + 1]
      BY <1>2, <2>1, <2>3
    <3> QED BY <2>1, <3>1 DEF AskedIn
  <2> QED BY <2>2, <2>3
<1> HIDE DEF a
<1>4. AskedIn(a) \subseteq AskedIn(r)
  BY <1>3 DEF AskedIn
<1> QED BY <1>4 DEF a

-----------------------------------------------------------------------------
\* The rows of a page of alerts, whatever page was asked for.
AlertRows(q, p) ==
  LET read == IF q.search = "" THEN Chunk(Alerts, p, q.size) ELSE Chunk(Alerts, 0, SearchWindow)
      found == RowsAt(read, {i \in DOMAIN read : AlertMatches(read[i], q)})
  IN IF q.search = "" THEN found ELSE Chunk(found, p, q.size)

AlarmAsk(q) ==
  /\ DOMAIN q = {"page", "size", "search", "priority", "status"}
  /\ q.page \in Nat /\ q.size \in Nat \ {0}

AlarmTourInv ==
  /\ AlarmsAsked
  /\ controls.page \in Nat /\ controls.size \in Nat \ {0}
  /\ table.pages \in Int
  /\ \A q \in AskedIn(lists) : AlarmAsk(q)
  /\ \A r \in resolving : "q" \in DOMAIN r /\ AlarmAsk(r.q)
  /\ DOMAIN alarmTour = {"list", "pages", "rows"} /\ alarmTour.pages \subseteq Nat
  /\ AlarmAsk(alarmTour.list)
  /\ alarmTour.rows = UNION {Members(AlertRows(alarmTour.list, p)) : p \in alarmTour.pages}
  /\ alarmTour.pages # {} =>
       table.pages = IF AlertList(table.of).pages = 0 THEN PageCount(FallbackTotal, table.of.size)
                     ELSE AlertList(table.of).pages

\* What a request brings are the rows of its page, and of the same page of its list.
LEMMA RowsOfList ==
  ASSUME NEW q, AlarmAsk(q)
  PROVE  /\ AlertList(q).content = AlertRows(q, q.page)
         /\ AlarmAsk(SameList(q))
         /\ \A p : AlertRows(SameList(q), p) = AlertRows(q, p)
<1>1. AlertList(q).content = AlertRows(q, q.page)
  BY DEF AlertList, AlertRows, UpstreamAlerts
<1>2. /\ DOMAIN SameList(q) = DOMAIN q /\ SameList(q).page = 0 /\ SameList(q).size = q.size
      /\ SameList(q).search = q.search
      /\ SameList(q).priority = q.priority /\ SameList(q).status = q.status
  BY DEF SameList, AlarmAsk
<1>3. \A a : AlertMatches(a, SameList(q)) <=> AlertMatches(a, q)
  BY <1>2 DEF AlertMatches
<1>4. ASSUME NEW p
      PROVE  AlertRows(SameList(q), p) = AlertRows(q, p)
  BY <1>2, <1>3 DEF AlertRows
<1> QED BY <1>1, <1>2, <1>4 DEF AlarmAsk

\* The alerts of a part of the list that match.
LEMMA MatchingAlerts ==
  ASSUME NEW read, IsList(read), NEW q
  PROVE  /\ IsList(RowsAt(read, {i \in DOMAIN read : AlertMatches(read[i], q)}))
         /\ Members(RowsAt(read, {i \in DOMAIN read : AlertMatches(read[i], q)})) =
              {a \in Members(read) : AlertMatches(a, q)}
<1> DEFINE places == {i \in DOMAIN read : AlertMatches(read[i], q)}
<1>1. places \in SUBSET (DOMAIN read)
  OBVIOUS
<1>2. {read[i] : i \in places} = {a \in Members(read) : AlertMatches(a, q)}
  BY DEF Members
<1> HIDE DEF places
<1>3. IsList(RowsAt(read, places)) /\ Members(RowsAt(read, places)) = {read[i] : i \in places}
  BY <1>1, KeptRows
<1> QED BY <1>2, <1>3 DEF places

LEMMA AlertsAreListed == IsList(Alerts) /\ Len(Alerts) \in Nat
<1> DEFINE S == Members(Alerts)
<1>0. Alerts \in Seq(S)
  BY AlarmsAssumption
<1> HIDE DEF S
<1>1. Alerts \in [1 .. Len(Alerts) -> S] /\ Len(Alerts) \in Nat
  BY <1>0
<1> QED BY <1>1 DEF IsList

LEMMA AlarmsSeenWhole == AlarmTourInv => AlarmPagesComplete
<1> DEFINE q == AlarmQuery(controls)
           among == IF q.search = "" THEN Alerts ELSE Chunk(Alerts, 0, SearchWindow)
           P == alarmTour.pages
<1> SUFFICES ASSUME AlarmTourInv,
                    table.of = q, ~ table.loading, ~ MayGoOn, alarmTour.list = SameList(q),
                    0 .. q.page \subseteq P
             PROVE  alarmTour.rows = {a \in Members(among) : AlertMatches(a, q)}
  BY DEF AlarmPagesComplete
<1>1. AlarmAsk(q) /\ q.page = controls.page
  BY DEF AlarmTourInv, AlarmQuery, AlarmAsk
<1>2. P # {} /\ P \in SUBSET Nat
  BY <1>1 DEF AlarmTourInv, AlarmAsk
<1>3. table.pages = IF AlertList(q).pages = 0 THEN PageCount(FallbackTotal, q.size) ELSE AlertList(q).pages
  BY <1>2 DEF AlarmTourInv
<1>4. q.page + 1 >= table.pages
  BY <1>1 DEF MayGoOn, AlarmTourInv
<1> HIDE DEF q, P
<1>5. alarmTour.rows = UNION {Members(AlertRows(q, p)) : p \in P}
  BY <1>1, RowsOfList DEF AlarmTourInv, P
<1>6. q.page \in Nat /\ q.size \in Nat \ {0} /\ SearchWindow \in Nat
  BY <1>1, AlarmsAssumption DEF AlarmAsk
<1>7. q.page + 1 >= AlertList(q).pages
  BY <1>3, <1>4, <1>6
<1>8. CASE q.search = ""
  <2>1. q.page + 1 >= PageCount(Len(Alerts), q.size)
    BY <1>7, <1>8 DEF AlertList
  <2>2. UNION {Members(Chunk(Alerts, p, q.size)) : p \in P} = Members(Alerts)
    BY <1>2, <1>6, <2>1, AlertsAreListed, WholeList DEF P
  <2>3. ASSUME NEW p \in P
        PROVE  Members(AlertRows(q, p)) = {a \in Members(Chunk(Alerts, p, q.size)) : AlertMatches(a, q)}
    <3>1. IsList(Chunk(Alerts, p, q.size))
      BY <1>2, <1>6, AlertsAreListed, PageRows
    <3> DEFINE read == Chunk(Alerts, p, q.size)
    <3>2. AlertRows(q, p) = RowsAt(read, {i \in DOMAIN read : AlertMatches(read[i], q)})
      BY <1>8 DEF AlertRows
    <3>3. IsList(read)
      BY <3>1
    <3> HIDE DEF read
    <3>4. Members(AlertRows(q, p)) = {a \in Members(read) : AlertMatches(a, q)}
      BY <3>2, <3>3, MatchingAlerts
    <3> QED BY <3>4 DEF read
  <2>4. alarmTour.rows = {a \in Members(Alerts) : AlertMatches(a, q)}
    BY <1>5, <2>2, <2>3
  <2> QED BY <1>8, <2>4
<1>9. CASE q.search # ""
  <2> DEFINE read == Chunk(Alerts, 0, SearchWindow)
             found == RowsAt(read, {i \in DOMAIN read : AlertMatches(read[i], q)})
  <2>1. IsList(read)
    BY <1>6, AlertsAreListed, PageRows
  <2>2. IsList(found) /\ Members(found) = {a \in Members(read) : AlertMatches(a, q)}
    BY <2>1, MatchingAlerts
  <2>3. AlertList(q).pages = PageCount(Len(found), q.size)
    BY <1>9 DEF AlertList, UpstreamAlerts
  <2>4. \A p \in P : AlertRows(q, p) = Chunk(found, p, q.size)
    BY <1>9 DEF AlertRows
  <2>5. among = read
    BY <1>9
  <2> HIDE DEF found, read, among
  <2>6. UNION {Members(Chunk(found, p, q.size)) : p \in P} = Members(found)
    BY <1>2, <1>6, <1>7, <2>2, <2>3, WholeList DEF P
  <2>7. UNION {Members(AlertRows(q, p)) : p \in P} = UNION {Members(Chunk(found, p, q.size)) : p \in P}
    BY <2>4
  <2> QED BY <1>5, <2>2, <2>5, <2>6, <2>7
<1> QED BY <1>8, <1>9

LEMMA AlarmTourAtFirst == AlarmsInit => AlarmTourInv
<1> SUFFICES ASSUME AlarmsInit PROVE AlarmTourInv
  OBVIOUS
<1>1. AlarmsAsked
  BY AlarmsAskedAtFirst
<1>2. PICK n \in AlarmSize :
        controls = [input |-> "", search |-> "", timer |-> TRUE, priority |-> "ALL",
                    status |-> "ALL", page |-> 0, size |-> n]
  BY DEF AlarmsInit
<1>3. controls.page = 0 /\ controls.size \in Nat \ {0}
  BY <1>2, AlarmsAssumption
<1> DEFINE q == AlarmQuery(controls)
<1>4. AlarmAsk(q)
  BY <1>3 DEF AlarmAsk, AlarmQuery
<1>5. table.pages = PageCount(FallbackTotal, controls.size) /\ resolving = {} /\ lists = Send(<<>>, q)
      /\ alarmTour = [list |-> SameList(q), pages |-> {}, rows |-> {}]
  BY DEF AlarmsInit
<1> HIDE DEF q
<1>6. table.pages \in Int
  <2> DEFINE y == FallbackTotal + controls.size - 1
  <2>1. y \in Nat
    <3>1. FallbackTotal \in Nat
      BY AlarmsAssumption
    <3> QED BY <1>3, <3>1
  <2> HIDE DEF y
  <2>2. y \div controls.size \in Nat
    BY <1>3, <2>1, Divided
  <2> QED BY <1>5, <2>2 DEF PageCount, y
<1>7. AskedIn(lists) \subseteq {q}
  <2>1. AskedFor(<<>>)
    BY EmptyIsList DEF AskedFor
  <2>2. AskedIn(<<>>) = {}
    BY DEF AskedIn
  <2> QED BY <1>5, <2>1, <2>2, AsksMore DEF Send
<1>8. DOMAIN alarmTour = {"list", "pages", "rows"} /\ alarmTour.pages = {} /\ alarmTour.rows = {}
      /\ alarmTour.list = SameList(q)
  BY <1>5
<1> QED BY <1>1, <1>3, <1>4, <1>5, <1>6, <1>7, <1>8, RowsOfList DEF AlarmTourInv

\* New controls leave the tour, and ask for a page that there may be.
LEMMA ControlsTour ==
  ASSUME AlarmTourInv, AlarmsAsked', NEW c, SetControls(c), DOMAIN c = DOMAIN controls,
         c.page \in Nat, c.size \in Nat \ {0}, UNCHANGED <<alarmTour, resolving>>
  PROVE  AlarmTourInv'
<1>1. controls' = c
  BY DEF SetControls
<1>2. AlarmAsk(AlarmQuery(c))
  BY DEF AlarmAsk, AlarmQuery
<1>3. AskedIn(lists') \subseteq AskedIn(lists) \cup {AlarmQuery(c)}
  <2>1. CASE lists' = lists
    BY <2>1
  <2>2. CASE lists' # lists
    <3>1. lists' = Send(lists, AlarmQuery(c))
      BY <2>2 DEF SetControls
    <3>2. AskedFor(lists)
      BY DEF AlarmTourInv, AlarmsAsked, Newest
    <3> QED BY <3>1, <3>2, AsksMore DEF Send
  <2> QED BY <2>1, <2>2
<1>4. table'.pages = table.pages /\ table'.of = table.of
  <2>1. DOMAIN table = {"rows", "of", "late", "failed", "total", "pages", "loading"}
    BY DEF AlarmTourInv, AlarmsAsked
  <2>2. table' = table \/ table' = [table EXCEPT !.loading = TRUE]
    BY DEF SetControls
  <2> QED BY <2>1, <2>2
<1>5. \A q \in AskedIn(lists') : AlarmAsk(q)
  BY <1>2, <1>3 DEF AlarmTourInv
<1>6. \A p : AlertRows(alarmTour.list, p)' = AlertRows(alarmTour.list, p)
  BY DEF AlertRows, AlertMatches
<1>7. AlertList(table.of)' = AlertList(table.of)
  BY <1>4 DEF AlertList, AlertMatches, UpstreamAlerts
<1> QED BY <1>1, <1>4, <1>5, <1>6, <1>7 DEF AlarmTourInv

LEMMA AlarmsArriveTour ==
  ASSUME AlarmTourInv, AlarmsAsked', NEW i \in DOMAIN lists, AlarmsArrive(i)
  PROVE  AlarmTourInv'
<1> DEFINE q == lists[i].q
           ans == AlertList(q)
<1>1. q \in AskedIn(lists) /\ AlarmAsk(q)
  BY DEF AlarmTourInv, AskedIn
<1>2. /\ lists' = Arrived(lists, i) /\ controls' = controls /\ resolving' = resolving
      /\ table'.of = q
      /\ table'.pages = IF ans.pages = 0 THEN PageCount(FallbackTotal, q.size) ELSE ans.pages
      /\ alarmTour' = Seen(alarmTour, SameList(q), q.page, ans.content)
  BY DEF AlarmsArrive
<1>3. \A x \in AskedIn(lists') : AlarmAsk(x)
  <2>1. AskedFor(lists)
    BY DEF AlarmTourInv, AlarmsAsked, Newest
  <2>2. AskedIn(lists') \subseteq AskedIn(lists)
    BY <1>2, <2>1, AsksLess
  <2> QED BY <2>2 DEF AlarmTourInv
<1> HIDE DEF q
<1>4. table'.pages \in Int
  <2> DEFINE y == FallbackTotal + q.size - 1
             sum == ans.total
             z == sum + q.size - 1
  <2>1. q.size \in Nat \ {0} /\ q.page \in Nat
    BY <1>1 DEF AlarmAsk
  <2>2. y \in Nat
    <3>1. FallbackTotal \in Nat
      BY AlarmsAssumption
    <3> QED BY <2>1, <3>1
  <2>3. sum \in Nat
    <3> DEFINE read == UpstreamAlerts(q)
               found == RowsAt(read, {k \in DOMAIN read : AlertMatches(read[k], q)})
    <3>1. IsList(read)
      BY <2>1, AlertsAreListed, PageRows, AlarmsAssumption DEF UpstreamAlerts
    <3> HIDE DEF read
    <3>2. Len(found) \in Nat
      <4>1. IsList(found)
        BY <3>1, MatchingAlerts
      <4> HIDE DEF found
      <4> QED BY <4>1, ListLength
    <3>3. sum = IF q.search = "" THEN Len(Alerts) ELSE Len(found)
      BY DEF AlertList, read
    <3> QED BY <3>2, <3>3, AlertsAreListed
  <2>4. ans.pages = PageCount(sum, q.size)
    BY DEF AlertList
  <2> HIDE DEF y, ans
  <2>5. z \in Nat
    BY <2>1, <2>3
  <2>6. PageCount(FallbackTotal, q.size) = y \div q.size /\ PageCount(sum, q.size) = z \div q.size
    BY DEF PageCount, y
  <2> HIDE DEF z, sum
  <2>7. y \div q.size \in Nat /\ z \div q.size \in Nat
    BY <2>1, <2>2, <2>5, Divided
  <2> QED BY <1>2, <2>4, <2>6, <2>7
<1>5. ans.content = AlertRows(q, q.page) /\ AlarmAsk(SameList(q)) /\ \A p : AlertRows(SameList(q), p) = AlertRows(q, p)
  BY <1>1, RowsOfList
<1> HIDE DEF ans
<1>6. /\ DOMAIN alarmTour' = {"list", "pages", "rows"} /\ alarmTour'.list = SameList(q)
      /\ alarmTour'.pages = IF alarmTour.list = SameList(q) THEN alarmTour.pages \cup {q.page} ELSE {q.page}
      /\ alarmTour'.rows = IF alarmTour.list = SameList(q) THEN alarmTour.rows \cup Members(ans.content)
                           ELSE Members(ans.content)
  <2>1. DOMAIN alarmTour = {"list", "pages", "rows"}
    BY DEF AlarmTourInv
  <2> DEFINE l == SameList(q)
             rs == ans.content
             tour == alarmTour
             p == q.page
  <2>2. alarmTour' = Seen(tour, l, p, rs) /\ DOMAIN tour = {"list", "pages", "rows"}
    BY <1>2, <2>1
  <2> HIDE DEF l, rs, tour, p
  <2>3. /\ DOMAIN alarmTour' = {"list", "pages", "rows"} /\ alarmTour'.list = l
        /\ alarmTour'.pages = IF tour.list = l THEN tour.pages \cup {p} ELSE {p}
        /\ alarmTour'.rows = IF tour.list = l THEN tour.rows \cup Members(rs) ELSE Members(rs)
    <3>1. CASE tour.list = l
      <4>1. alarmTour' = [tour EXCEPT !.pages = @ \cup {p}, !.rows = @ \cup Members(rs)]
        BY <2>2, <3>1 DEF Seen
      <4> QED BY <2>2, <3>1, <4>1
    <3>2. CASE tour.list # l
      <4>1. alarmTour' = [list |-> l, pages |-> {p}, rows |-> Members(rs)]
        BY <2>2, <3>2 DEF Seen
      <4> QED BY <3>2, <4>1
    <3> QED BY <3>1, <3>2
  <2> QED BY <2>3 DEF l, rs, tour, p
<1>7. alarmTour'.rows = UNION {Members(AlertRows(SameList(q), p)) : p \in alarmTour'.pages}
  <2>1. CASE alarmTour.list = SameList(q)
    <3>1. alarmTour.rows = UNION {Members(AlertRows(SameList(q), p)) : p \in alarmTour.pages}
      BY <2>1 DEF AlarmTourInv
    <3> QED BY <1>5, <1>6, <2>1, <3>1
  <2>2. CASE alarmTour.list # SameList(q)
    BY <1>5, <1>6, <2>2
  <2> QED BY <2>1, <2>2
<1>8. q.page \in Nat /\ alarmTour'.pages \subseteq Nat
  BY <1>1, <1>6 DEF AlarmAsk, AlarmTourInv
<1> QED BY <1>2, <1>3, <1>4, <1>5, <1>6, <1>7, <1>8 DEF AlarmTourInv, ans

LEMMA AlarmTourKept ==
  ASSUME AlarmTourInv, [AlarmsNext]_alarmVars
  PROVE  AlarmTourInv'
<1>0. AlarmsAsked'
  BY AlarmsAskedKept DEF AlarmTourInv
<1>1. ASSUME UNCHANGED <<controls, lists, table, alarmTour, resolving>>
      PROVE  AlarmTourInv'
  BY <1>0, <1>1 DEF AlarmTourInv
<1> DEFINE Good(c) == DOMAIN c = DOMAIN controls /\ c.page \in Nat /\ c.size \in Nat \ {0}
<1>2. ASSUME NEW c, Good(c), SetControls(c), UNCHANGED <<alarmTour, resolving>>
      PROVE  AlarmTourInv'
  BY <1>0, <1>2, ControlsTour
<1> DEFINE cs == controls
<1>3. /\ DOMAIN cs = {"input", "search", "timer", "priority", "status", "page", "size"}
      /\ cs.page \in Nat /\ cs.size \in Nat \ {0} /\ Good(cs)
  BY DEF AlarmTourInv, AlarmsAsked
<1>4. \A c : DOMAIN c = DOMAIN cs /\ c.page \in {0, cs.page} /\ c.size \in AlarmSize \cup {cs.size} => Good(c)
  <2> SUFFICES ASSUME NEW c, DOMAIN c = DOMAIN cs, c.page \in {0, cs.page}, c.size \in AlarmSize \cup {cs.size}
               PROVE  Good(c)
    OBVIOUS
  <2>1. c.page \in Nat
    BY <1>3
  <2>2. c.size \in Nat \ {0}
    BY <1>3, AlarmsAssumption
  <2> QED BY <2>1, <2>2
<1> HIDE DEF Good
<1>5. CASE \E w \in AlarmWord : TypeWord(w)
  <2>1. PICK w \in AlarmWord : /\ SetControls([cs EXCEPT !.input = w, !.timer = TRUE])
                               /\ UNCHANGED <<alarmTour, resolving>>
    BY <1>5 DEF TypeWord, Press
  <2>2. Good([cs EXCEPT !.input = w, !.timer = TRUE])
    BY <1>3, <1>4
  <2> QED BY <2>1, <2>2, <1>2
<1>6. CASE SearchStarts
  <2>1. /\ SetControls([cs EXCEPT !.search = cs.input, !.page = 0, !.timer = FALSE])
        /\ UNCHANGED <<alarmTour, resolving>>
    BY <1>6 DEF SearchStarts
  <2>2. Good([cs EXCEPT !.search = cs.input, !.page = 0, !.timer = FALSE])
    BY <1>3, <1>4
  <2> QED BY <2>1, <2>2, <1>2
<1>7. CASE \E p \in PriorityPill : PickPriority(p)
  <2>1. PICK p \in PriorityPill : /\ SetControls([cs EXCEPT !.priority = p, !.page = 0])
                                  /\ UNCHANGED <<alarmTour, resolving>>
    BY <1>7 DEF PickPriority, Press
  <2>2. Good([cs EXCEPT !.priority = p, !.page = 0])
    BY <1>3, <1>4
  <2> QED BY <2>1, <2>2, <1>2
<1>8. CASE \E s \in StatusPill : PickStatus(s)
  <2>1. PICK s \in StatusPill : /\ SetControls([cs EXCEPT !.status = s, !.page = 0])
                                /\ UNCHANGED <<alarmTour, resolving>>
    BY <1>8 DEF PickStatus, Press
  <2>2. Good([cs EXCEPT !.status = s, !.page = 0])
    BY <1>3, <1>4
  <2> QED BY <2>1, <2>2, <1>2
<1>9. CASE \E n \in AlarmSize : PickSize(n)
  <2>1. PICK n \in AlarmSize : /\ SetControls([cs EXCEPT !.size = n, !.page = 0])
                               /\ UNCHANGED <<alarmTour, resolving>>
    BY <1>9 DEF PickSize, Press
  <2>2. Good([cs EXCEPT !.size = n, !.page = 0])
    BY <1>3, <1>4
  <2> QED BY <2>1, <2>2, <1>2
<1>10. CASE CardAll \/ CardOpen \/ CardMedium
  <2>1. /\ \E a, b : SetControls([cs EXCEPT !.priority = a, !.status = b]) \/ SetControls([cs EXCEPT !.status = b])
                      \/ SetControls([cs EXCEPT !.priority = a])
        /\ UNCHANGED <<alarmTour, resolving>>
    BY <1>10 DEF CardAll, CardOpen, CardMedium, Press
  <2>2. PICK a, b : SetControls([cs EXCEPT !.priority = a, !.status = b]) \/ SetControls([cs EXCEPT !.status = b])
                      \/ SetControls([cs EXCEPT !.priority = a])
    BY <2>1
  <2>3. /\ Good([cs EXCEPT !.priority = a, !.status = b]) /\ Good([cs EXCEPT !.status = b])
        /\ Good([cs EXCEPT !.priority = a])
    BY <1>3, <1>4
  <2> QED BY <2>1, <2>2, <2>3, <1>2
<1>11. CASE ResetFilters
  <2> DEFINE on == cs.timer \/ cs.input # ""
             c == [cs EXCEPT !.search = "", !.priority = "ALL", !.status = "ALL", !.page = 0,
                             !.input = "", !.timer = on]
  <2>1. SetControls(c) /\ UNCHANGED <<alarmTour, resolving>>
    BY <1>11 DEF ResetFilters, Press
  <2> HIDE DEF on
  <2>2. Good(c)
    BY <1>3, <1>4
  <2> HIDE DEF c
  <2> QED BY <2>1, <2>2, <1>2
<1>12. CASE RefreshAlarms
  <2> DEFINE q == AlarmQuery(controls)
  <2>1. /\ controls' = controls /\ lists' = Send(lists, q)
        /\ table' = [table EXCEPT !.loading = TRUE] /\ UNCHANGED <<alarmTour, resolving>>
    BY <1>12 DEF RefreshAlarms, Press
  <2>2. AlarmAsk(q)
    BY <1>3 DEF AlarmAsk, AlarmQuery
  <2>3. AskedIn(lists') \subseteq AskedIn(lists) \cup {q}
    <3>1. AskedFor(lists)
      BY DEF AlarmTourInv, AlarmsAsked, Newest
    <3> HIDE DEF q
    <3> QED BY <2>1, <3>1, AsksMore DEF Send
  <2>4. table'.pages = table.pages /\ table'.of = table.of
    BY <2>1 DEF AlarmTourInv, AlarmsAsked
  <2>5. \A x \in AskedIn(lists') : AlarmAsk(x)
    BY <2>2, <2>3 DEF AlarmTourInv
  <2> QED BY <1>0, <2>1, <2>4, <2>5 DEF AlarmTourInv
<1>13. CASE FirstAlarms \/ PreviousAlarms
  <2>1. PICK p \in {0, cs.page - 1} : SetControls([cs EXCEPT !.page = p]) /\ p \in Nat
    <3>1. CASE FirstAlarms
      BY <3>1 DEF FirstAlarms
    <3>2. CASE PreviousAlarms
      BY <1>3, <3>2 DEF PreviousAlarms, MayGoBack
    <3> QED BY <1>13, <3>1, <3>2
  <2>2. Good([cs EXCEPT !.page = p])
    BY <1>3, <2>1 DEF Good
  <2>3. UNCHANGED <<alarmTour, resolving>>
    BY <1>13 DEF FirstAlarms, PreviousAlarms, Press
  <2> QED BY <2>1, <2>2, <2>3, <1>2
<1>14. CASE NextAlarms \/ LastAlarms
  <2>1. PICK p \in {cs.page + 1, table.pages - 1} : SetControls([cs EXCEPT !.page = p]) /\ p \in Nat
    <3>1. CASE NextAlarms
      BY <1>3, <3>1 DEF NextAlarms
    <3>2. CASE LastAlarms
      <4>1. SetControls([cs EXCEPT !.page = table.pages - 1]) /\ cs.page < table.pages - 1
        BY <3>2 DEF LastAlarms, MayGoOn
      <4>2. table.pages - 1 \in Nat
        BY <1>3, <4>1 DEF AlarmTourInv
      <4> QED BY <4>1, <4>2
    <3> QED BY <1>14, <3>1, <3>2
  <2>2. Good([cs EXCEPT !.page = p])
    BY <1>3, <2>1 DEF Good
  <2>3. UNCHANGED <<alarmTour, resolving>>
    BY <1>14 DEF NextAlarms, LastAlarms, Press
  <2> QED BY <2>1, <2>2, <2>3, <1>2
<1>15. ASSUME NEW i \in DOMAIN lists, AlarmsArrive(i)
       PROVE  AlarmTourInv'
  BY <1>0, <1>15, AlarmsArriveTour
<1>16. ASSUME NEW i \in DOMAIN lists, AlarmsFail(i)
       PROVE  AlarmTourInv'
  <2>1. /\ controls' = controls /\ lists' = Arrived(lists, i)
        /\ table' = [table EXCEPT !.loading = FALSE, !.failed = TRUE] /\ UNCHANGED <<alarmTour, resolving>>
    BY <1>16 DEF AlarmsFail
  <2>2. table'.pages = table.pages /\ table'.of = table.of
    BY <2>1 DEF AlarmTourInv, AlarmsAsked
  <2>3. AskedIn(lists') \subseteq AskedIn(lists)
    <3>1. AskedFor(lists)
      BY DEF AlarmTourInv, AlarmsAsked, Newest
    <3> QED BY <2>1, <3>1, AsksLess
  <2>4. \A x \in AskedIn(lists') : AlarmAsk(x)
    BY <2>3 DEF AlarmTourInv
  <2> QED BY <1>0, <2>1, <2>2, <2>4 DEF AlarmTourInv
<1>17. ASSUME NEW r \in resolving, ResolveEnds(r)
       PROVE  AlarmTourInv'
  <2>1. controls' = controls /\ resolving' \subseteq resolving /\ alarmTour' = alarmTour
    BY <1>17 DEF ResolveEnds
  <2>2. AskedIn(lists') \subseteq AskedIn(lists) \cup {r.q}
    <3> DEFINE late == r.q # AlarmQuery(controls)
               x == r.q
    <3>1. lists' = lists \/ lists' = Append(lists, [q |-> x, late |-> late])
      BY <1>17 DEF ResolveEnds
    <3>2. AskedFor(lists)
      BY DEF AlarmTourInv, AlarmsAsked, Newest
    <3> HIDE DEF late, x
    <3>3. AskedIn(lists') \subseteq AskedIn(lists) \cup {x}
      BY <3>1, <3>2, AsksMore
    <3> QED BY <3>3 DEF x
  <2>3. table'.pages = table.pages /\ table'.of = table.of
    <3>1. table' = table \/ table' = [table EXCEPT !.loading = TRUE]
      BY <1>17 DEF ResolveEnds
    <3> QED BY <3>1 DEF AlarmTourInv, AlarmsAsked
  <2>4. \A x \in AskedIn(lists') : AlarmAsk(x)
    BY <2>2 DEF AlarmTourInv
  <2> QED BY <1>0, <2>1, <2>3, <2>4 DEF AlarmTourInv
<1>18. CASE ResolveAlert
  <2> DEFINE q == AlarmQuery(controls)
             x == [alert |-> ShownAlert(alertDrawer), q |-> q, open |-> TRUE]
  <2>1. resolving' = resolving \cup {x} /\ UNCHANGED <<controls, lists, table, alarmTour>>
    BY <1>18 DEF ResolveAlert
  <2>2. AlarmAsk(q)
    BY <1>3 DEF AlarmAsk, AlarmQuery
  <2>3. x.q = q /\ "q" \in DOMAIN x
    OBVIOUS
  <2> HIDE DEF x, q
  <2>4. \A r \in resolving' : "q" \in DOMAIN r /\ AlarmAsk(r.q)
    BY <2>1, <2>2, <2>3 DEF AlarmTourInv
  <2> QED BY <1>0, <2>1, <2>4 DEF AlarmTourInv
<1>19. CASE CloseAlert
  <2>1. UNCHANGED <<controls, lists, table, alarmTour>> /\ resolving' = {[r EXCEPT !.open = FALSE] : r \in resolving}
    BY <1>19 DEF CloseAlert
  <2>2. \A r : "q" \in DOMAIN r => /\ [r EXCEPT !.open = FALSE].q = r.q
                                /\ "q" \in DOMAIN [r EXCEPT !.open = FALSE]
    OBVIOUS
  <2>3. \A r \in resolving : "q" \in DOMAIN r
    BY DEF AlarmTourInv
  <2>4. \A r \in resolving' : "q" \in DOMAIN r /\ AlarmAsk(r.q)
    BY <2>1, <2>2, <2>3 DEF AlarmTourInv
  <2> QED BY <1>0, <2>1, <2>4 DEF AlarmTourInv
<1>20. CASE \/ \E a \in Members(table.rows) : SelectAlarm(a)
            \/ \E alone \in BOOLEAN : DetailArrives(alone)
            \/ \E t \in {"overview", "resolution"} : OpenAlertTab(t)
            \/ OpenPhoto \/ ClosePhoto \/ ReopenAlert
            \/ UNCHANGED alarmVars
  <2>1. UNCHANGED <<controls, lists, table, alarmTour, resolving>>
    BY <1>20 DEF SelectAlarm, DetailArrives, OpenAlertTab, OpenPhoto, ClosePhoto, ReopenAlert,
                 InAlertDrawer, alarmVars
  <2> QED BY <1>1, <2>1
<1> QED BY <1>5, <1>6, <1>7, <1>8, <1>9, <1>10, <1>11, <1>12, <1>13, <1>14, <1>15, <1>16, <1>17, <1>18, <1>19, <1>20
        DEF AlarmsNext

\* A page more of a list that was looked through, or the first of another.
MoreSeen(tour, new, l, p, rs) ==
  /\ DOMAIN new = {"list", "pages", "rows"} /\ new.list = l
  /\ new.pages = IF tour.list = l THEN tour.pages \cup {p} ELSE {p}
  /\ new.rows = IF tour.list = l THEN tour.rows \cup Members(rs) ELSE Members(rs)

LEMMA SeenMore ==
  ASSUME NEW tour, DOMAIN tour = {"list", "pages", "rows"}, NEW new, NEW l, NEW p, NEW rs,
         new = Seen(tour, l, p, rs)
  PROVE  MoreSeen(tour, new, l, p, rs)
<1>1. CASE tour.list = l
  <2>1. new = [tour EXCEPT !.pages = @ \cup {p}, !.rows = @ \cup Members(rs)]
    BY <1>1 DEF Seen
  <2> QED BY <1>1, <2>1 DEF MoreSeen
<1>2. CASE tour.list # l
  <2>1. new = [list |-> l, pages |-> {p}, rows |-> Members(rs)]
    BY <1>2 DEF Seen
  <2> QED BY <1>2, <2>1 DEF MoreSeen
<1> QED BY <1>1, <1>2

-----------------------------------------------------------------------------
\* The bills that match, page by page.
FoundBills(q) ==
  LET read == UpstreamBills(q.period)
  IN RowsAt(read, {i \in DOMAIN read : BillMatches(read[i], q)})

BillAsk(q) ==
  /\ DOMAIN q = {"page", "size", "period", "search", "status", "city"}
  /\ q.page \in Nat /\ q.size \in Nat \ {0}

BillTourInv ==
  /\ BillsAsked
  /\ choice.page \in Nat /\ choice.size \in Nat \ {0}
  /\ invoices.pages \in Int
  /\ \A q \in AskedIn(billLists) : BillAsk(q)
  /\ DOMAIN billTour = {"list", "pages", "rows"} /\ billTour.pages \subseteq Nat
  /\ BillAsk(billTour.list)
  /\ billTour.rows = UNION {Members(Chunk(FoundBills(billTour.list), p, billTour.list.size)) : p \in billTour.pages}
  /\ billTour.pages # {} => /\ invoices.pages = BillPages(Len(FoundBills(invoices.of)), invoices.of.size)
                            /\ invoices.stats = BillStats(Members(FoundBills(invoices.of)))

LEMMA PartOfList ==
  ASSUME NEW s, s \in Seq(Members(s)) \/ IsList(s), NEW places \in SUBSET (DOMAIN s)
  PROVE  /\ IsList(RowsAt(s, places)) /\ Len(RowsAt(s, places)) \in Nat
         /\ Members(RowsAt(s, places)) = {s[i] : i \in places}
<1>1. IsList(s)
  <2> DEFINE S == Members(s)
  <2> SUFFICES ASSUME s \in Seq(S) PROVE IsList(s)
    OBVIOUS
  <2> HIDE DEF S
  <2>1. s \in [1 .. Len(s) -> S] /\ Len(s) \in Nat
    OBVIOUS
  <2> QED BY <2>1 DEF IsList
<1> QED BY <1>1, KeptRows

LEMMA BillsFound ==
  ASSUME NEW q
  PROVE  /\ IsList(FoundBills(q)) /\ Len(FoundBills(q)) \in Nat
         /\ Members(FoundBills(q)) = {b \in Members(UpstreamBills(q.period)) : BillMatches(b, q)}
<1> DEFINE p == q.period
           of == {i \in DOMAIN Bills : Within2026(Bills[i], p)}
           all == RowsAt(Bills, of)
<1>1. Bills \in Seq(Members(Bills)) /\ of \in SUBSET (DOMAIN Bills) /\ BillWindow \in Nat
  <2>1. Bills \in Seq(Members(Bills)) /\ {BillWindow, DaysKept} \subseteq Nat \ {0}
    BY BillingAssumption
  <2> QED BY <2>1
<1>2. IsList(all)
  <2> HIDE DEF of
  <2> QED BY <1>1, PartOfList
<1>3. UpstreamBills(p) = Chunk(all, 0, BillWindow)
  BY DEF UpstreamBills
<1> HIDE DEF all
<1> DEFINE read == UpstreamBills(p)
           places == {i \in DOMAIN read : BillMatches(read[i], q)}
<1>4. IsList(read)
  BY <1>1, <1>2, <1>3, PageRows
<1>5. places \in SUBSET (DOMAIN read)
  OBVIOUS
<1>6. FoundBills(q) = RowsAt(read, places)
  BY DEF FoundBills
<1>7. {read[i] : i \in places} = {b \in Members(read) : BillMatches(b, q)}
  BY DEF Members
<1> HIDE DEF read, places
<1>8. IsList(RowsAt(read, places)) /\ Len(RowsAt(read, places)) \in Nat
      /\ Members(RowsAt(read, places)) = {read[i] : i \in places}
  BY <1>4, <1>5, PartOfList
<1> QED BY <1>6, <1>7, <1>8 DEF read

LEMMA SameBillsFound ==
  ASSUME NEW q, BillAsk(q)
  PROVE  /\ FoundBills(SameBills(q)) = FoundBills(q) /\ BillAsk(SameBills(q)) /\ SameBills(q).size = q.size
         /\ BillAnswer(q).content = Chunk(FoundBills(q), q.page, q.size)
         /\ BillAnswer(q).pages = BillPages(Len(FoundBills(q)), q.size)
         /\ BillAnswer(q).stats = BillStats(Members(FoundBills(q)))
<1>1. /\ DOMAIN SameBills(q) = DOMAIN q /\ SameBills(q).page = 0 /\ SameBills(q).size = q.size
      /\ SameBills(q).search = q.search /\ SameBills(q).period = q.period
      /\ SameBills(q).city = q.city /\ SameBills(q).status = q.status
  BY DEF SameBills, BillAsk
<1>2. \A b : BillMatches(b, SameBills(q)) <=> BillMatches(b, q)
  BY <1>1 DEF BillMatches
<1>3. FoundBills(SameBills(q)) = FoundBills(q)
  BY <1>1, <1>2 DEF FoundBills
<1>4. /\ BillAnswer(q).content = Chunk(FoundBills(q), q.page, q.size)
      /\ BillAnswer(q).pages = BillPages(Len(FoundBills(q)), q.size)
      /\ BillAnswer(q).stats = BillStats(Members(FoundBills(q)))
  BY DEF BillAnswer, BillList, FoundBills
<1> QED BY <1>1, <1>3, <1>4 DEF BillAsk

LEMMA PagesOfBills ==
  ASSUME NEW n \in Nat, NEW size \in Nat \ {0}
  PROVE  BillPages(n, size) \in Nat /\ BillPages(n, size) >= PageCount(n, size)
<1> DEFINE y == n + size - 1
           x == PageCount(n, size)
<1>1. y \in Nat
  OBVIOUS
<1>2. x = y \div size
  BY DEF PageCount
<1> HIDE DEF y, x
<1>3. x \in Nat
  BY <1>1, <1>2, Divided
<1>4. BillPages(n, size) = IF x = 0 THEN 1 ELSE x
  BY DEF BillPages, x
<1> QED BY <1>3, <1>4 DEF x

LEMMA BillsSeenWhole == BillTourInv => BillPagesComplete
<1> DEFINE q == BillQuery(choice)
           P == billTour.pages
<1> SUFFICES ASSUME BillTourInv,
                    invoices.of = q, ~ invoices.loading, ~ BillsAfter, billTour.list = SameBills(q),
                    0 .. q.page \subseteq P
             PROVE  /\ billTour.rows = {b \in Members(UpstreamBills(q.period)) : BillMatches(b, q)}
                    /\ invoices.stats = BillStats(billTour.rows)
  BY DEF BillPagesComplete
<1>1. BillAsk(q) /\ q.page = choice.page
  BY DEF BillTourInv, BillQuery, BillAsk
<1>2. P # {} /\ P \in SUBSET Nat
  BY <1>1 DEF BillTourInv, BillAsk
<1>3. invoices.pages = BillPages(Len(FoundBills(q)), q.size) /\ invoices.stats = BillStats(Members(FoundBills(q)))
  BY <1>2 DEF BillTourInv
<1>4. q.page + 1 >= invoices.pages
  BY <1>1 DEF BillsAfter, BillTourInv
<1> HIDE DEF q, P
<1> DEFINE found == FoundBills(q)
<1>5. billTour.rows = UNION {Members(Chunk(found, p, q.size)) : p \in P}
  BY <1>1, SameBillsFound DEF BillTourInv, P
<1>6. q.page \in Nat /\ q.size \in Nat \ {0}
  BY <1>1 DEF BillAsk
<1>7. IsList(found) /\ Len(found) \in Nat
      /\ Members(found) = {b \in Members(UpstreamBills(q.period)) : BillMatches(b, q)}
  BY BillsFound
<1> HIDE DEF found
<1>8. q.page + 1 >= PageCount(Len(found), q.size)
  <2>1. BillPages(Len(found), q.size) \in Nat /\ BillPages(Len(found), q.size) >= PageCount(Len(found), q.size)
    BY <1>6, <1>7, PagesOfBills
  <2> DEFINE n == PageCount(Len(found), q.size)
             b == BillPages(Len(found), q.size)
             y == Len(found) + q.size - 1
  <2>2. n \in Nat
    <3>1. y \in Nat
      BY <1>6, <1>7
    <3>2. n = y \div q.size
      BY DEF PageCount
    <3> HIDE DEF y
    <3> QED BY <1>6, <3>1, <3>2, Divided
  <2>3. q.page + 1 >= b
    BY <1>3, <1>4 DEF found
  <2> HIDE DEF n, b
  <2>4. b \in Nat /\ b >= n
    BY <2>1 DEF n, b
  <2>5. q.page + 1 >= n
    BY <1>6, <2>2, <2>3, <2>4
  <2> QED BY <2>5 DEF n
<1>9. UNION {Members(Chunk(found, p, q.size)) : p \in P} = Members(found)
  BY <1>2, <1>6, <1>7, <1>8, WholeList
<1> QED BY <1>3, <1>5, <1>7, <1>9 DEF found

LEMMA BillTourAtFirst == BillingInit => BillTourInv
<1> SUFFICES ASSUME BillingInit PROVE BillTourInv
  OBVIOUS
<1>1. BillsAsked
  BY BillsAskedAtFirst
<1>2. PICK n \in BillSize :
        choice = [input |-> "", search |-> "", timer |-> TRUE, period |-> "all-time",
                  status |-> "ALL", city |-> "ALL", page |-> 0, size |-> n]
  BY DEF BillingInit
<1>3. choice.page = 0 /\ choice.size \in Nat \ {0}
  BY <1>2, BillingAssumption
<1> DEFINE q == BillQuery(choice)
<1>4. BillAsk(q)
  BY <1>3 DEF BillAsk, BillQuery
<1>5. invoices.pages = 1 /\ billLists = Send(<<>>, q)
      /\ billTour = [list |-> SameBills(q), pages |-> {}, rows |-> {}]
  BY DEF BillingInit
<1> HIDE DEF q
<1>6. AskedIn(billLists) \subseteq {q}
  <2>1. AskedFor(<<>>)
    BY EmptyIsList DEF AskedFor
  <2>2. AskedIn(<<>>) = {}
    BY DEF AskedIn
  <2> QED BY <1>5, <2>1, <2>2, AsksMore DEF Send
<1>7. DOMAIN billTour = {"list", "pages", "rows"} /\ billTour.pages = {} /\ billTour.rows = {}
      /\ billTour.list = SameBills(q)
  BY <1>5
<1>8. BillAsk(billTour.list)
  BY <1>4, <1>7, SameBillsFound
<1> QED BY <1>1, <1>3, <1>4, <1>5, <1>6, <1>7, <1>8 DEF BillTourInv

\* New controls leave the tour, and ask for a page that there may be.
LEMMA ChoiceTour ==
  ASSUME BillTourInv, BillsAsked', NEW c, SetChoice(c), DOMAIN c = DOMAIN choice,
         c.page \in Nat, c.size \in Nat \ {0}, UNCHANGED billTour
  PROVE  BillTourInv'
<1>1. choice' = c
  BY DEF SetChoice
<1>2. BillAsk(BillQuery(c))
  BY DEF BillAsk, BillQuery
<1>3. AskedIn(billLists') \subseteq AskedIn(billLists) \cup {BillQuery(c)}
  <2>1. CASE billLists' = billLists
    BY <2>1
  <2>2. CASE billLists' # billLists
    <3>1. billLists' = Send(billLists, BillQuery(c))
      BY <2>2 DEF SetChoice
    <3>2. AskedFor(billLists)
      BY DEF BillTourInv, BillsAsked, Newest
    <3> QED BY <3>1, <3>2, AsksMore DEF Send
  <2> QED BY <2>1, <2>2
<1>4. invoices'.pages = invoices.pages /\ invoices'.of = invoices.of /\ invoices'.stats = invoices.stats
  <2>1. DOMAIN invoices = {"rows", "of", "late", "failed", "total", "pages", "stats", "loading"}
    BY DEF BillTourInv, BillsAsked
  <2>2. invoices' = invoices \/ invoices' = [invoices EXCEPT !.loading = TRUE]
    BY DEF SetChoice
  <2> QED BY <2>1, <2>2
<1>5. \A q \in AskedIn(billLists') : BillAsk(q)
  BY <1>2, <1>3 DEF BillTourInv
<1> QED BY <1>1, <1>4, <1>5 DEF BillTourInv

LEMMA BillsArriveTour ==
  ASSUME BillTourInv, BillsAsked', NEW i \in DOMAIN billLists, BillsArrive(i)
  PROVE  BillTourInv'
<1> DEFINE q == billLists[i].q
           rs == BillAnswer(q).content
           l == SameBills(q)
           p == q.page
           n == Len(FoundBills(q))
<1>1. q \in AskedIn(billLists) /\ BillAsk(q)
  BY DEF BillTourInv, AskedIn
<1>2. /\ billLists' = Arrived(billLists, i) /\ choice' = choice
      /\ invoices'.of = q
      /\ invoices'.pages = BillAnswer(q).pages /\ invoices'.stats = BillAnswer(q).stats
      /\ billTour' = Seen(billTour, l, p, rs)
  BY DEF BillsArrive
<1>3. \A x \in AskedIn(billLists') : BillAsk(x)
  <2>1. AskedFor(billLists)
    BY DEF BillTourInv, BillsAsked, Newest
  <2>2. AskedIn(billLists') \subseteq AskedIn(billLists)
    BY <1>2, <2>1, AsksLess
  <2> QED BY <2>2 DEF BillTourInv
<1> HIDE DEF q
<1>4. /\ FoundBills(l) = FoundBills(q) /\ BillAsk(l) /\ l.size = q.size
      /\ rs = Chunk(FoundBills(q), p, q.size)
      /\ invoices'.pages = BillPages(n, q.size) /\ invoices'.stats = BillStats(Members(FoundBills(q)))
  BY <1>1, <1>2, SameBillsFound
<1>5. invoices'.pages \in Int
  <2>1. n \in Nat
    BY BillsFound
  <2>2. q.size \in Nat \ {0}
    BY <1>1 DEF BillAsk
  <2> HIDE DEF n
  <2>3. BillPages(n, q.size) \in Nat
    BY <2>1, <2>2, PagesOfBills
  <2> QED BY <1>4, <2>3
<1>6. p \in Nat /\ billTour.pages \subseteq Nat /\ DOMAIN billTour = {"list", "pages", "rows"}
  BY <1>1 DEF BillAsk, BillTourInv
<1> DEFINE new == billTour'
<1> HIDE DEF rs, l, p
<1>7. /\ DOMAIN new = {"list", "pages", "rows"} /\ new.list = l
      /\ new.pages = IF billTour.list = l THEN billTour.pages \cup {p} ELSE {p}
      /\ new.rows = IF billTour.list = l THEN billTour.rows \cup Members(rs) ELSE Members(rs)
  <2> DEFINE tour == billTour
  <2>1. new = Seen(tour, l, p, rs) /\ DOMAIN tour = {"list", "pages", "rows"}
    BY <1>2, <1>6
  <2> HIDE DEF new, tour
  <2>2. MoreSeen(tour, new, l, p, rs)
    BY <2>1, SeenMore
  <2> QED BY <2>2 DEF tour, MoreSeen
<1>8. new.rows = UNION {Members(Chunk(FoundBills(l), x, l.size)) : x \in new.pages}
  <2>1. CASE billTour.list = l
    <3>1. billTour.rows = UNION {Members(Chunk(FoundBills(l), x, l.size)) : x \in billTour.pages}
      BY <2>1 DEF BillTourInv
    <3> QED BY <1>4, <1>7, <2>1, <3>1
  <2>2. CASE billTour.list # l
    BY <1>4, <1>7, <2>2
  <2> QED BY <2>1, <2>2
<1>9. new.pages \subseteq Nat
  BY <1>6, <1>7
<1> QED BY <1>2, <1>3, <1>4, <1>5, <1>7, <1>8, <1>9 DEF BillTourInv, n

LEMMA BillTourKept ==
  ASSUME BillTourInv, [BillingNext]_billVars
  PROVE  BillTourInv'
<1>0. BillsAsked'
  BY BillsAskedKept DEF BillTourInv
<1>1. ASSUME UNCHANGED <<choice, billLists, invoices, billTour>>
      PROVE  BillTourInv'
  BY <1>0, <1>1 DEF BillTourInv
<1> DEFINE Good(c) == DOMAIN c = DOMAIN choice /\ c.page \in Nat /\ c.size \in Nat \ {0}
<1>2. ASSUME NEW c, Good(c), SetChoice(c), UNCHANGED billTour
      PROVE  BillTourInv'
  BY <1>0, <1>2, ChoiceTour
<1> DEFINE cs == choice
<1>3. /\ DOMAIN cs = {"input", "search", "timer", "period", "status", "city", "page", "size"}
      /\ cs.page \in Nat /\ cs.size \in Nat \ {0} /\ Good(cs)
  BY DEF BillTourInv, BillsAsked
<1>4. \A c : DOMAIN c = DOMAIN cs /\ c.page \in {0, cs.page} /\ c.size \in BillSize \cup {cs.size} => Good(c)
  <2> SUFFICES ASSUME NEW c, DOMAIN c = DOMAIN cs, c.page \in {0, cs.page}, c.size \in BillSize \cup {cs.size}
               PROVE  Good(c)
    OBVIOUS
  <2>1. c.page \in Nat
    BY <1>3
  <2>2. c.size \in Nat \ {0}
    BY <1>3, BillingAssumption
  <2> QED BY <2>1, <2>2
<1> HIDE DEF Good
<1>5. CASE \E w \in BillWord : TypeBill(w)
  <2>1. PICK w \in BillWord : SetChoice([cs EXCEPT !.input = w, !.timer = TRUE]) /\ UNCHANGED billTour
    BY <1>5 DEF TypeBill, PressBill
  <2>2. Good([cs EXCEPT !.input = w, !.timer = TRUE])
    BY <1>3, <1>4
  <2> QED BY <2>1, <2>2, <1>2
<1>6. CASE BillSearchStarts
  <2>1. SetChoice([cs EXCEPT !.search = cs.input, !.page = 0, !.timer = FALSE]) /\ UNCHANGED billTour
    BY <1>6 DEF BillSearchStarts
  <2>2. Good([cs EXCEPT !.search = cs.input, !.page = 0, !.timer = FALSE])
    BY <1>3, <1>4
  <2> QED BY <2>1, <2>2, <1>2
<1>7. CASE \E p \in Period : PickPeriod(p)
  <2>1. PICK p \in Period : SetChoice([cs EXCEPT !.period = p, !.page = 0]) /\ UNCHANGED billTour
    BY <1>7 DEF PickPeriod, PressBill
  <2>2. Good([cs EXCEPT !.period = p, !.page = 0])
    BY <1>3, <1>4
  <2> QED BY <2>1, <2>2, <1>2
<1>8. CASE \E s \in BillStatus : PickBillStatus(s)
  <2>1. PICK s \in BillStatus : SetChoice([cs EXCEPT !.status = s, !.page = 0]) /\ UNCHANGED billTour
    BY <1>8 DEF PickBillStatus, PressBill
  <2>2. Good([cs EXCEPT !.status = s, !.page = 0])
    BY <1>3, <1>4
  <2> QED BY <2>1, <2>2, <1>2
<1>9. CASE \E s \in BillCity : PickCity(s)
  <2>1. PICK s \in BillCity : SetChoice([cs EXCEPT !.city = s, !.page = 0]) /\ UNCHANGED billTour
    BY <1>9 DEF PickCity, PressBill
  <2>2. Good([cs EXCEPT !.city = s, !.page = 0])
    BY <1>3, <1>4
  <2> QED BY <2>1, <2>2, <1>2
<1>10. CASE \E n \in BillSize : PickBillSize(n)
  <2>1. PICK n \in BillSize : SetChoice([cs EXCEPT !.size = n, !.page = 0]) /\ UNCHANGED billTour
    BY <1>10 DEF PickBillSize, PressBill
  <2>2. Good([cs EXCEPT !.size = n, !.page = 0])
    BY <1>3, <1>4
  <2> QED BY <2>1, <2>2, <1>2
<1>11. CASE CardTotal \/ CardOverdue
  <2>1. PICK s \in {"ALL", "OVERDUE"} : SetChoice([cs EXCEPT !.status = s]) /\ UNCHANGED billTour
    BY <1>11 DEF CardTotal, CardOverdue, PressBill
  <2>2. Good([cs EXCEPT !.status = s])
    BY <1>3, <1>4
  <2> QED BY <2>1, <2>2, <1>2
<1>12. CASE ResetBills
  <2> DEFINE on == cs.timer \/ cs.input # ""
             c == [cs EXCEPT !.search = "", !.status = "ALL", !.city = "ALL", !.page = 0,
                             !.period = "all-time", !.input = "", !.timer = on]
  <2>1. SetChoice(c) /\ UNCHANGED billTour
    BY <1>12 DEF ResetBills, PressBill
  <2> HIDE DEF on
  <2>2. Good(c)
    BY <1>3, <1>4
  <2> HIDE DEF c
  <2> QED BY <2>1, <2>2, <1>2
<1>13. CASE RefreshBills
  <2> DEFINE q == BillQuery(choice)
  <2>1. /\ choice' = choice /\ billLists' = Send(billLists, q)
        /\ invoices' = [invoices EXCEPT !.loading = TRUE] /\ UNCHANGED billTour
    BY <1>13 DEF RefreshBills, PressBill
  <2>2. BillAsk(q)
    BY <1>3 DEF BillAsk, BillQuery
  <2>3. AskedIn(billLists') \subseteq AskedIn(billLists) \cup {q}
    <3>1. AskedFor(billLists)
      BY DEF BillTourInv, BillsAsked, Newest
    <3> HIDE DEF q
    <3> QED BY <2>1, <3>1, AsksMore DEF Send
  <2>4. invoices'.pages = invoices.pages /\ invoices'.of = invoices.of /\ invoices'.stats = invoices.stats
    BY <2>1 DEF BillTourInv, BillsAsked
  <2>5. \A x \in AskedIn(billLists') : BillAsk(x)
    BY <2>2, <2>3 DEF BillTourInv
  <2> QED BY <1>0, <2>1, <2>4, <2>5 DEF BillTourInv
<1>14. CASE FirstBills \/ PreviousBills
  <2>1. PICK p \in {0, cs.page - 1} : SetChoice([cs EXCEPT !.page = p]) /\ p \in Nat
    <3>1. CASE FirstBills
      BY <3>1 DEF FirstBills
    <3>2. CASE PreviousBills
      BY <1>3, <3>2 DEF PreviousBills, BillsBefore
    <3> QED BY <1>14, <3>1, <3>2
  <2>2. Good([cs EXCEPT !.page = p])
    BY <1>3, <2>1 DEF Good
  <2>3. UNCHANGED billTour
    BY <1>14 DEF FirstBills, PreviousBills, PressBill
  <2> QED BY <2>1, <2>2, <2>3, <1>2
<1>15. CASE NextBills \/ LastBills
  <2>1. PICK p \in {cs.page + 1, invoices.pages - 1} : SetChoice([cs EXCEPT !.page = p]) /\ p \in Nat
    <3>1. CASE NextBills
      BY <1>3, <3>1 DEF NextBills
    <3>2. CASE LastBills
      <4>1. SetChoice([cs EXCEPT !.page = invoices.pages - 1]) /\ cs.page < invoices.pages - 1
        BY <3>2 DEF LastBills, BillsAfter
      <4>2. invoices.pages - 1 \in Nat
        BY <1>3, <4>1 DEF BillTourInv
      <4> QED BY <4>1, <4>2
    <3> QED BY <1>15, <3>1, <3>2
  <2>2. Good([cs EXCEPT !.page = p])
    BY <1>3, <2>1 DEF Good
  <2>3. UNCHANGED billTour
    BY <1>15 DEF NextBills, LastBills, PressBill
  <2> QED BY <2>1, <2>2, <2>3, <1>2
<1>16. ASSUME NEW i \in DOMAIN billLists, BillsArrive(i)
       PROVE  BillTourInv'
  BY <1>0, <1>16, BillsArriveTour
<1>17. ASSUME NEW i \in DOMAIN billLists, BillsFail(i)
       PROVE  BillTourInv'
  <2>1. /\ choice' = choice /\ billLists' = Arrived(billLists, i)
        /\ invoices' = [invoices EXCEPT !.loading = FALSE, !.failed = TRUE] /\ UNCHANGED billTour
    BY <1>17 DEF BillsFail
  <2>2. invoices'.pages = invoices.pages /\ invoices'.of = invoices.of /\ invoices'.stats = invoices.stats
    BY <2>1 DEF BillTourInv, BillsAsked
  <2>3. AskedIn(billLists') \subseteq AskedIn(billLists)
    <3>1. AskedFor(billLists)
      BY DEF BillTourInv, BillsAsked, Newest
    <3> QED BY <2>1, <3>1, AsksLess
  <2>4. \A x \in AskedIn(billLists') : BillAsk(x)
    BY <2>3 DEF BillTourInv
  <2> QED BY <1>0, <2>1, <2>2, <2>4 DEF BillTourInv
<1>18. CASE \/ \E b \in Members(invoices.rows) : SelectBill(b)
            \/ BillDetailArrives
            \/ \E t \in {"overview", "settlement"} : OpenBillTab(t)
            \/ PayBill \/ RevertBill \/ CloseBill
            \/ UNCHANGED billVars
  <2>1. UNCHANGED <<choice, billLists, invoices, billTour>>
    BY <1>18 DEF SelectBill, BillDetailArrives, OpenBillTab, PayBill, RevertBill, CloseBill, InDrawer, billVars
  <2> QED BY <1>1, <2>1
<1> QED BY <1>5, <1>6, <1>7, <1>8, <1>9, <1>10, <1>11, <1>12, <1>13, <1>14, <1>15, <1>16, <1>17, <1>18 DEF BillingNext

\* As many pages as hold the rows are enough.
LEMMA PagesHold ==
  ASSUME NEW n \in Nat, NEW size \in Nat \ {0}
  PROVE  /\ PageCount(n, size) \in Nat
         /\ \A p \in Nat : n <= p * size => PageCount(n, size) <= p
<1> DEFINE y == n + size - 1
           c == PageCount(n, size)
<1>1. y \in Nat /\ y < n + size
  OBVIOUS
<1>2. c = y \div size
  BY DEF PageCount
<1> HIDE DEF y, c
<1>3. c \in Nat /\ c * size <= y
  BY <1>1, <1>2, Divided
<1>4. ASSUME NEW p \in Nat, n <= p * size
      PROVE  c <= p
  <2> SUFFICES ASSUME p + 1 <= c PROVE FALSE
    BY <1>3
  <2> DEFINE l == p + 1
  <2>1. l \in Nat /\ l * size = p * size + size
    BY PlusOne
  <2>2. l <= c
    OBVIOUS
  <2> HIDE DEF l
  <2>3. l * size <= c * size /\ l * size \in Nat /\ c * size \in Nat
    BY <1>3, <2>1, <2>2, TimesGrows
  <2>4. p * size \in Nat
    OBVIOUS
  <2> QED BY <1>1, <1>3, <1>4, <2>1, <2>3, <2>4
<1> QED BY <1>3, <1>4 DEF c

-----------------------------------------------------------------------------
\* The page of the table that was asked for when some meters were retired.
SheetPage(q, retired) ==
  LET found == Matching(q, retired)
      items == Chunk(found, q.page - 1, q.size)
  IN [items |-> items, total |-> IF items = <<>> THEN 0 ELSE Len(found), of |-> q, retired |-> retired]

SheetSeen(q, retired, pages) ==
  UNION {Members(Chunk(Matching(q, retired), p - 1, q.size)) : p \in pages}

SheetAsk(q) ==
  /\ DOMAIN q = {"site", "page", "size", "search", "status"}
  /\ q.page \in Nat \ {0} /\ q.size \in Nat \ {0}

SheetOf(l, q, r) == SheetAsk(q) /\ l = <<[q EXCEPT !.page = 0], r>>

SheetTourInv ==
  /\ SheetInv
  /\ sheet.page \in Nat \ {0} /\ sheet.size \in Nat \ {0}
  /\ sheetAsked # <<>> => SheetAsk(sheetAsked[1])
  /\ sheetRows.data = <<>> \/ \E q, r : SheetAsk(q) /\ sheetRows.data = <<SheetPage(q, r)>>
  /\ DOMAIN sheetTour = {"list", "pages", "rows"} /\ sheetTour.pages \subseteq Nat \ {0}
  /\ sheetTour.pages = {} => sheetTour.rows = {}
  /\ sheetTour.pages # {} =>
       \E q, r : SheetOf(sheetTour.list, q, r) /\ sheetTour.rows = SheetSeen(q, r, sheetTour.pages)

LEMMA MatchingIsList ==
  ASSUME NEW q, NEW r
  PROVE  IsList(Matching(q, r)) /\ Len(Matching(q, r)) \in Nat
<1> DEFINE places == {i \in DOMAIN TableMeters : MeterMatches(TableMeters[i], q, r)}
<1>1. TableMeters \in Seq(Members(TableMeters)) /\ places \in SUBSET (DOMAIN TableMeters)
  BY TableAssumption
<1>2. Matching(q, r) = RowsAt(TableMeters, places)
  BY DEF Matching
<1> HIDE DEF places
<1> QED BY <1>1, <1>2, PartOfList

\* Requests that ask for the same list find the same meters.
LEMMA SameSheetSame ==
  ASSUME NEW l, NEW q, NEW r, SheetOf(l, q, r), NEW x, NEW s, SheetOf(l, x, s)
  PROVE  Matching(q, r) = Matching(x, s) /\ q.size = x.size
<1>1. [q EXCEPT !.page = 0] = [x EXCEPT !.page = 0] /\ r = s
  BY DEF SheetOf
<1>2. /\ [q EXCEPT !.page = 0].site = q.site /\ [q EXCEPT !.page = 0].search = q.search
      /\ [q EXCEPT !.page = 0].status = q.status /\ [q EXCEPT !.page = 0].size = q.size
  BY DEF SheetOf, SheetAsk
<1>3. /\ [x EXCEPT !.page = 0].site = x.site /\ [x EXCEPT !.page = 0].search = x.search
      /\ [x EXCEPT !.page = 0].status = x.status /\ [x EXCEPT !.page = 0].size = x.size
  BY DEF SheetOf, SheetAsk
<1>4. q.site = x.site /\ q.search = x.search /\ q.status = x.status /\ q.size = x.size
  BY <1>1, <1>2, <1>3
<1>5. \A m : MeterMatches(m, q, r) <=> MeterMatches(m, x, s)
  BY <1>1, <1>4 DEF MeterMatches
<1> QED BY <1>4, <1>5 DEF Matching

LEMMA SheetSeenWhole == SheetTourInv => TablePagesComplete
<1> DEFINE d == sheetRows.data[1]
           found == Matching(d.of, d.retired)
           P == sheetTour.pages
           n == Len(found)
           now == sheet.page
<1> SUFFICES ASSUME SheetTourInv, TableAtRest
             PROVE  /\ d.items # <<>> => d.total = Len(found)
                    /\ (now >= LastSheet /\ sheetTour.list = SameSheet(d) /\ 1 .. now \subseteq P)
                         => sheetTour.rows = Members(found)
  BY DEF TablePagesComplete
<1>1. sheetRows.data # <<>> /\ d.of = TableQuery(sheet)
  BY DEF SheetTourInv, SheetInv, TableAtRest
<1>2. PICK q, r : SheetAsk(q) /\ sheetRows.data = <<SheetPage(q, r)>>
  BY <1>1 DEF SheetTourInv
<1>3. d = SheetPage(q, r)
  BY <1>2
<1> HIDE DEF d
<1> DEFINE items == Chunk(Matching(q, r), q.page - 1, q.size)
<1>4. /\ d.of = q /\ d.retired = r /\ d.items = items
      /\ d.total = IF items = <<>> THEN 0 ELSE Len(Matching(q, r))
  BY <1>3 DEF SheetPage
<1>5. d.items # <<>> => d.total = Len(found)
  BY <1>4
<1> SUFFICES ASSUME now >= LastSheet, sheetTour.list = SameSheet(d), 1 .. now \subseteq P
             PROVE  sheetTour.rows = Members(found)
  BY <1>5
<1>6. q.page = now /\ q.size = sheet.size /\ now \in Nat \ {0} /\ q.size \in Nat \ {0}
  BY <1>1, <1>4 DEF TableQuery, SheetTourInv
<1>7. found = Matching(q, r) /\ IsList(found) /\ n \in Nat
  BY <1>4, MatchingIsList
<1>8. P # {} /\ \A p \in P : p \in Nat /\ p # 0
  BY <1>6 DEF SheetTourInv
<1>9. PICK x, s : SheetOf(sheetTour.list, x, s) /\ sheetTour.rows = SheetSeen(x, s, P)
  BY <1>8 DEF SheetTourInv
<1>10. SheetOf(sheetTour.list, q, r)
  BY <1>2, <1>4 DEF SameSheet, SheetOf
<1>11. Matching(x, s) = found /\ x.size = q.size
  BY <1>7, <1>9, <1>10, SameSheetSame
<1>12. sheetTour.rows = UNION {Members(Chunk(found, p - 1, q.size)) : p \in P}
  BY <1>9, <1>11 DEF SheetSeen
\* the last page is no less than the pages that the rows fill
<1> DEFINE last == now - 1
           size == q.size
<1>13. last \in Nat /\ last + 1 >= PageCount(n, size)
  <2>1. last \in Nat /\ last + 1 = now
    BY <1>6
  <2>2. PageCount(n, size) \in Nat /\ \A p \in Nat : n <= p * size => PageCount(n, size) <= p
    <3> HIDE DEF n
    <3> QED BY <1>6, <1>7, PagesHold
  <2>3. now * size = last * size + size /\ last * size \in Nat
    <3> HIDE DEF last, now, size
    <3>1. last \in Nat /\ last + 1 = now /\ size \in Nat
      BY <1>6, <2>1 DEF size
    <3> QED BY <3>1, PlusOne
  <2>4. CASE items = <<>>
    <3>1. Chunk(found, last, size) = Slice(found, last * size, size)
      BY DEF Chunk
    <3>2. Slice(found, last * size, size) = <<>>
      BY <1>6, <1>7, <2>4, <3>1
    <3>3. n <= last * size
      <4> DEFINE f == last * size
      <4>1. f \in Nat
        BY <2>3
      <4> HIDE DEF f, found
      <4>2. Slice(found, f, size) = <<>> => size = 0 \/ Len(found) <= f
        BY <1>6, <1>7, <4>1, SliceRows
      <4> QED BY <1>6, <3>2, <4>2 DEF f
    <3>4. n <= now * size
      <4> HIDE DEF n, last, now, size
      <4>1. n \in Nat /\ size \in Nat
        BY <1>6, <1>7 DEF size
      <4> QED BY <2>3, <3>3, <4>1
    <3>5. PageCount(n, size) <= now
      BY <1>6, <2>2, <3>4
    <3> QED BY <1>6, <2>1, <2>2, <3>5
  <2>5. CASE items # <<>>
    <3>1. Total = n
      BY <1>1, <1>4, <1>7, <2>5 DEF Total, d
    <3>2. CASE n = 0
      <4>1. n <= now * size
        <5> HIDE DEF n, last, now, size
        <5>1. size \in Nat
          BY <1>6 DEF size
        <5> QED BY <2>3, <3>2, <5>1
      <4>2. PageCount(n, size) <= now
        BY <1>6, <2>2, <4>1
      <4> QED BY <1>6, <2>1, <2>2, <4>2
    <3>3. CASE n # 0
      <4>1. LastSheet = PageCount(n, size)
        BY <1>6, <3>1, <3>3 DEF LastSheet
      <4> QED BY <2>1, <4>1
    <3> QED BY <3>2, <3>3
  <2> QED BY <2>1, <2>4, <2>5
<1> DEFINE Q == {p - 1 : p \in P}
<1>14. Q \in SUBSET Nat
  BY <1>8
<1>15. 0 .. last \subseteq Q
  <2> SUFFICES ASSUME NEW k \in 0 .. last PROVE k \in Q
    OBVIOUS
  <2>1. k + 1 \in 1 .. now /\ (k + 1) - 1 = k
    BY <1>6
  <2>2. k + 1 \in P
    BY <2>1
  <2> QED BY <2>1, <2>2
<1>16. UNION {Members(Chunk(found, k, size)) : k \in Q} = UNION {Members(Chunk(found, p - 1, size)) : p \in P}
  OBVIOUS
<1> HIDE DEF Q, found
<1>17. UNION {Members(Chunk(found, k, size)) : k \in Q} = Members(found)
  BY <1>6, <1>7, <1>13, <1>14, <1>15, WholeList DEF found
<1> QED BY <1>12, <1>16, <1>17

LEMMA SheetTourAtFirst == SheetInit => SheetTourInv
<1> SUFFICES ASSUME SheetInit PROVE SheetTourInv
  OBVIOUS
<1> DEFINE s == CHOOSE s \in TableSite : TRUE
           n == CHOOSE n \in TableSize : TRUE
<1>1. sheet = [view |-> "map", tab |-> "all", site |-> s, status |-> "ALL", input |-> "", search |-> "",
               pause |-> FALSE, page |-> 1, size |-> n]
  BY DEF SheetInit
<1>2. n \in Nat \ {0}
  BY TableAssumption
<1>3. /\ sheetAsked = <<>> /\ sheetRows = [data |-> <<>>, loading |-> FALSE, error |-> FALSE]
      /\ sheetTour = [list |-> <<>>, pages |-> {}, rows |-> {}]
  BY DEF SheetInit
<1>4. SheetInv
  BY SheetInitially
<1> HIDE DEF n, s
<1>5. DOMAIN sheetTour = {"list", "pages", "rows"} /\ sheetTour.pages = {} /\ sheetTour.rows = {}
  BY <1>3
<1>6. sheetRows.data = <<>>
  BY <1>3
<1>7. sheet.page = 1 /\ sheet.size = n
  BY <1>1
<1> QED BY <1>2, <1>3, <1>4, <1>5, <1>6, <1>7 DEF SheetTourInv

\* New controls leave the tour, and ask for a page from the first on.
LEMMA SheetTourSet ==
  ASSUME SheetTourInv, SheetInv', NEW s, SetSheet(s), DOMAIN s = DOMAIN sheet,
         s.page \in Nat \ {0}, s.size \in Nat \ {0}
  PROVE  SheetTourInv'
<1> DEFINE t == ToFirst(s)
<1>1. DOMAIN t = DOMAIN sheet /\ t.page \in Nat \ {0} /\ t.size \in Nat \ {0}
  BY DEF ToFirst, SheetTourInv, SheetInv
<1>2. sheet' = t /\ Loads(t) /\ sheetTour' = sheetTour
  BY DEF SetSheet
<1> HIDE DEF t
<1>3. SheetAsk(TableQuery(t))
  BY <1>1 DEF SheetAsk, TableQuery
<1>4. sheetRows'.data = sheetRows.data
  <2>1. sheetRows' = sheetRows \/ sheetRows' = [sheetRows EXCEPT !.loading = TRUE, !.error = FALSE]
    BY <1>2 DEF Loads
  <2> QED BY <2>1 DEF SheetTourInv, SheetInv
<1>5. sheetAsked' # <<>> => SheetAsk(sheetAsked'[1])
  <2>1. sheetAsked' = sheetAsked \/ sheetAsked' = <<>> \/ sheetAsked' = <<TableQuery(t)>>
    BY <1>2 DEF Loads
  <2> QED BY <1>3, <2>1 DEF SheetTourInv
<1> QED BY <1>1, <1>2, <1>4, <1>5 DEF SheetTourInv

LEMMA SheetTourArrives ==
  ASSUME SheetTourInv, SheetInv', TableArrives
  PROVE  SheetTourInv'
<1> DEFINE q == sheetAsked[1]
           r == sheetRetired
           d == SheetPage(q, r)
           l == <<[q EXCEPT !.page = 0], r>>
           p == q.page
           rs == Chunk(Matching(q, r), q.page - 1, q.size)
<1>1. SheetAsk(q)
  BY DEF TableArrives, SheetTourInv
<1>2. MeterPage(q) = d /\ SameSheet(d) = l /\ d.of.page = p /\ d.items = rs
  BY DEF MeterPage, SheetPage, SameSheet
<1>3. /\ sheetRows' = [sheetRows EXCEPT !.data = <<d>>, !.loading = FALSE]
      /\ sheetTour' = Seen(sheetTour, l, p, rs)
      /\ sheetAsked' = <<>> /\ sheet' = sheet
  BY <1>2 DEF TableArrives
<1>4. SheetOf(l, q, r)
  BY <1>1 DEF SheetOf
<1> DEFINE new == sheetTour'
           tour == sheetTour
<1>5. DOMAIN tour = {"list", "pages", "rows"} /\ new = Seen(tour, l, p, rs) /\ p \in Nat \ {0}
      /\ tour.pages \subseteq Nat \ {0}
  BY <1>1, <1>3 DEF SheetTourInv, SheetAsk
<1>6. sheetRows'.data = <<SheetPage(q, r)>>
  BY <1>3 DEF SheetTourInv, SheetInv
<1> HIDE DEF q, r, l, p, rs, new, tour
<1>7. MoreSeen(tour, new, l, p, rs)
  BY <1>5, SeenMore
<1>8. new.pages \subseteq Nat \ {0} /\ DOMAIN new = {"list", "pages", "rows"} /\ new.list = l
  BY <1>5, <1>7 DEF MoreSeen
<1>9. new.rows = SheetSeen(q, r, new.pages)
  <2>1. CASE tour.list = l /\ tour.pages # {}
    <3>1. PICK x, s : SheetOf(l, x, s) /\ tour.rows = SheetSeen(x, s, tour.pages)
      BY <2>1 DEF SheetTourInv, tour
    <3>2. Matching(x, s) = Matching(q, r) /\ x.size = q.size
      BY <1>4, <3>1, SameSheetSame
    <3>3. tour.rows = SheetSeen(q, r, tour.pages)
      BY <3>1, <3>2 DEF SheetSeen
    <3> QED BY <1>7, <2>1, <3>3 DEF MoreSeen, SheetSeen, rs, p
  <2>2. CASE tour.list # l
    BY <1>7, <2>2 DEF MoreSeen, SheetSeen, rs, p
  <2>3. CASE tour.pages = {} /\ tour.list = l
    <3>1. tour.rows = {}
      BY <2>3 DEF SheetTourInv, tour
    <3> QED BY <1>7, <2>3, <3>1 DEF MoreSeen, SheetSeen, rs, p
  <2> QED BY <2>1, <2>2, <2>3
<1>10. \E x, s : SheetAsk(x) /\ sheetRows'.data = <<SheetPage(x, s)>>
  BY <1>1, <1>6
<1>11. \E x, s : SheetOf(new.list, x, s) /\ new.rows = SheetSeen(x, s, new.pages)
  BY <1>4, <1>8, <1>9
<1>12. new.pages # {}
  BY <1>7 DEF MoreSeen
<1> QED BY <1>3, <1>8, <1>10, <1>11, <1>12 DEF SheetTourInv, new

LEMMA SheetTourKept ==
  ASSUME SheetTourInv, [SheetNext]_sheetVars
  PROVE  SheetTourInv'
<1>0. SheetInv'
  BY SheetKept DEF SheetTourInv
<1> DEFINE Good(s) == DOMAIN s = DOMAIN sheet /\ s.page \in Nat \ {0} /\ s.size \in Nat \ {0}
           sh == sheet
<1>1. ASSUME NEW s, Good(s), SetSheet(s)
      PROVE  SheetTourInv'
  BY <1>0, <1>1, SheetTourSet
<1>2. ASSUME UNCHANGED <<sheet, sheetAsked, sheetRows, sheetTour>>
      PROVE  SheetTourInv'
  BY <1>0, <1>2 DEF SheetTourInv
<1>3. Good(sh) /\ DOMAIN sh = {"view", "tab", "site", "status", "input", "search", "pause", "page", "size"}
  BY DEF SheetTourInv, SheetInv
<1>4. ASSUME NEW x, \/ ShowTable(x) \/ ShowTab(x) \/ TableOfSite(x) \/ TableStatusIs(x) \/ TypeInTable(x)
      PROVE  SheetTourInv'
  <2>1. CASE ShowTable(x)
    <3>1. SetSheet([sheet EXCEPT !.view = x])
      BY <2>1 DEF ShowTable, PressSheet
    <3> QED BY <3>1, <1>1, <1>3
  <2>2. CASE ShowTab(x)
    <3>1. SetSheet([sheet EXCEPT !.tab = x])
      BY <2>2 DEF ShowTab, PressSheet
    <3> QED BY <3>1, <1>1, <1>3
  <2>3. CASE TableOfSite(x)
    <3>1. SetSheet([sheet EXCEPT !.site = x])
      BY <2>3 DEF TableOfSite, PressSheet
    <3> QED BY <3>1, <1>1, <1>3
  <2>4. CASE TableStatusIs(x)
    <3>1. SetSheet([sheet EXCEPT !.status = x])
      BY <2>4 DEF TableStatusIs, PressSheet
    <3> QED BY <3>1, <1>1, <1>3
  <2>5. CASE TypeInTable(x)
    <3>1. SetSheet([sheet EXCEPT !.input = x, !.pause = TRUE])
      BY <2>5 DEF TypeInTable, PressSheet
    <3> QED BY <3>1, <1>1, <1>3
  <2> QED BY <1>4, <2>1, <2>2, <2>3, <2>4, <2>5
<1>5. CASE \E n \in TableSize : PickTableSize(n)
  <2>1. PICK n \in TableSize : SetSheet([sheet EXCEPT !.size = n])
    BY <1>5 DEF PickTableSize, PressSheet
  <2>2. n \in Nat \ {0}
    BY TableAssumption
  <2> QED BY <2>1, <2>2, <1>1, <1>3
<1>6. CASE TableSearchStarts
  <2>1. SetSheet([sheet EXCEPT !.search = sheet.input, !.pause = FALSE])
    BY <1>6 DEF TableSearchStarts
  <2> QED BY <2>1, <1>1, <1>3
<1>7. CASE FirstSheet \/ PreviousSheet
  <2>1. PICK p \in {1, sh.page - 1} : SetSheet([sh EXCEPT !.page = p]) /\ sh.page # 1
    BY <1>7 DEF FirstSheet, PreviousSheet, PressSheet
  <2>2. p \in Nat \ {0}
    BY <1>3, <2>1
  <2> QED BY <2>1, <2>2, <1>1, <1>3
<1>8. CASE NextSheet \/ EndSheet
  <2>1. PICK p \in {sh.page + 1, LastSheet} : SetSheet([sh EXCEPT !.page = p]) /\ sh.page < LastSheet
    BY <1>8 DEF NextSheet, EndSheet, PressSheet
  <2>2. Total \in Nat
    <3>1. CASE sheetRows.data = <<>>
      BY <3>1 DEF Total
    <3>2. CASE sheetRows.data # <<>>
      <4>1. PICK q, r : sheetRows.data = <<SheetPage(q, r)>>
        BY <3>2 DEF SheetTourInv
      <4>2. SheetPage(q, r).total \in {0, Len(Matching(q, r))}
        BY DEF SheetPage
      <4>3. Len(Matching(q, r)) \in Nat
        BY MatchingIsList
      <4> DEFINE d == SheetPage(q, r)
      <4> HIDE DEF d
      <4>4. Total = d.total
        BY <3>2, <4>1 DEF Total, d
      <4> QED BY <4>2, <4>3, <4>4 DEF d
    <3> QED BY <3>1, <3>2
  <2>3. LastSheet \in Nat
    <3> DEFINE t == Total
               size == sheet.size
    <3>1. t \in Nat /\ size \in Nat \ {0} /\ LastSheet \in {1, PageCount(t, size)}
      BY <1>3, <2>2 DEF LastSheet
    <3> HIDE DEF t, size
    <3>2. PageCount(t, size) \in Nat
      BY <3>1, PagesHold
    <3> QED BY <3>1, <3>2
  <2>4. p \in Nat \ {0}
    BY <1>3, <2>1, <2>3
  <2> QED BY <2>1, <2>4, <1>1, <1>3
<1>9. CASE TableArrives
  BY <1>0, <1>9, SheetTourArrives
<1>10. CASE TableFails
  <2>1. /\ sheetAsked' = <<>> /\ sheet' = sheet /\ sheetTour' = sheetTour
        /\ sheetRows' = [sheetRows EXCEPT !.error = TRUE, !.loading = FALSE]
    BY <1>10 DEF TableFails
  <2>2. sheetRows'.data = sheetRows.data
    BY <2>1 DEF SheetTourInv, SheetInv
  <2> QED BY <1>0, <2>1, <2>2 DEF SheetTourInv
<1>11. CASE (\E m \in Members(TableMeters) : MeterRetired(m)) \/ UNCHANGED sheetVars
  BY <1>2, <1>11 DEF MeterRetired, sheetVars
<1> QED BY <1>4, <1>5, <1>6, <1>7, <1>8, <1>9, <1>10, <1>11 DEF SheetNext

RosterFields == {"gateway", "filter", "window", "site", "page"}
RosterAsk(q) == DOMAIN q = RosterFields /\ q.page \in Nat
RosterOf(l, q, n) == RosterAsk(q) /\ n \in Nat /\ l = <<[q EXCEPT !.page = 0], n>>
RosterSeen(q, pages) == UNION {Members(RosterRows(MetersHeard(q), p)) : p \in pages}

\* The meters of one answer, or of no gateway.
RosterWhole(data) ==
  data = RosterPage(data.of) \/ (data = EmptyRoster(data.of) /\ data.of.gateway = NoGateway)

RosterTourInv ==
  /\ CenterInv
  /\ stored \in Nat /\ desk.page \in Nat
  /\ \A r \in rosterAsks : RosterAsk(r.of)
  /\ RosterAsk(roster.data.of) /\ roster.data.pages \in Nat
  /\ DOMAIN rosterTour = {"list", "pages", "rows"} /\ rosterTour.pages \subseteq Nat
  /\ \/ rosterTour.list = NoGateway
     \/ \E q, n : /\ RosterOf(rosterTour.list, q, n) /\ n <= stored
                  /\ n = stored => rosterTour.rows = RosterSeen(q, rosterTour.pages)
  /\ ~ roster.loading /\ ~ roster.error /\ rosterTour.list = SameRoster(roster.data) => RosterWhole(roster.data)

\* The frames that count are among the stored ones: the meters are a list.
LEMMA HeardIsList ==
  ASSUME NEW q, stored \in Nat
  PROVE  /\ IsList(MetersHeard(q)) /\ Len(MetersHeard(q)) \in Nat
         /\ q.gateway = NoGateway => Members(MetersHeard(q)) = {}
<1> DEFINE mine == {i \in FramesOf(Mine(q.site), q.window) : <<CenterFrames[i].gateway>> = q.gateway}
           last == {i \in mine : \A j \in mine : CenterFrames[j].meter = CenterFrames[i].meter => j <= i}
           hit == {i \in last : q.filter \in {"ALL", IF CenterFrames[i].recent THEN "CONNECTED"
                                                     ELSE "DISCONNECTED"}}
           n == Cardinality(hit)
           At(k) == CenterFrames[CHOOSE x \in hit : Cardinality({y \in hit \ {x} : y > x}) = k - 1].meter
<1>1. MetersHeard(q) = [k \in 1 .. n |-> CenterFrames[[j \in 1 .. n |-> CHOOSE x \in hit : Cardinality({y \in hit \ {x} : y > x}) = j - 1][k]].meter]
  BY DEF MetersHeard, Ordered
<1>2. hit \subseteq 1 .. stored
  BY DEF FramesOf
<1>3. q.gateway = NoGateway => hit = {}
  <2>1. \A x : <<x>> # NoGateway
    BY DEF NoGateway
  <2> QED BY <2>1
<1> HIDE DEF hit
<1>4. n \in Nat /\ (hit = {} => n = 0)
  <2>1. IsFiniteSet(1 .. stored)
    BY FS_Interval
  <2> QED BY <1>2, <2>1, FS_Subset, FS_CardinalityType, FS_EmptySet
<1> HIDE DEF n
<1>5. MetersHeard(q) = [k \in 1 .. n |-> At(k)]
  BY <1>1
<1> HIDE DEF At
<1> DEFINE s == MetersHeard(q)
           T == {At(k) : k \in 1 .. n}
<1>6. s \in [1 .. n -> T]
  BY <1>5
<1> HIDE DEF s, T
<1>7. IsList(s) /\ Len(s) = n
  <2>1. s \in Seq(T) /\ Len(s) = n
    BY <1>4, <1>6
  <2> QED BY <1>4, <1>6, <2>1 DEF IsList
<1>8. n = 0 => Members(s) = {}
  BY <1>6 DEF Members
<1> QED BY <1>3, <1>4, <1>7, <1>8 DEF s

LEMMA SameRosterSame ==
  ASSUME NEW l, NEW q, NEW n, RosterOf(l, q, n), NEW x, NEW m, RosterOf(l, x, m)
  PROVE  MetersHeard(q) = MetersHeard(x) /\ n = m
<1>1. [q EXCEPT !.page = 0] = [x EXCEPT !.page = 0] /\ n = m
  BY DEF RosterOf
<1>2. /\ [q EXCEPT !.page = 0].site = q.site /\ [q EXCEPT !.page = 0].window = q.window
      /\ [q EXCEPT !.page = 0].gateway = q.gateway /\ [q EXCEPT !.page = 0].filter = q.filter
  BY DEF RosterOf, RosterAsk, RosterFields
<1>3. /\ [x EXCEPT !.page = 0].site = x.site /\ [x EXCEPT !.page = 0].window = x.window
      /\ [x EXCEPT !.page = 0].gateway = x.gateway /\ [x EXCEPT !.page = 0].filter = x.filter
  BY DEF RosterOf, RosterAsk, RosterFields
<1>4. q.site = x.site /\ q.window = x.window /\ q.gateway = x.gateway /\ q.filter = x.filter
  BY <1>1, <1>2, <1>3
<1> QED BY <1>1, <1>4 DEF MetersHeard, Ordered

LEMMA RosterPageTold ==
  ASSUME NEW q, RosterAsk(q), stored \in Nat
  PROVE  /\ RosterPage(q).of = q /\ RosterPage(q).pages \in Nat
         /\ RosterPage(q).rows = RosterRows(MetersHeard(q), q.page)
         /\ RosterPage(q).rows # <<>> => RosterPage(q).pages = PageCount(Len(MetersHeard(q)), RosterSize)
<1> DEFINE n == Len(MetersHeard(q))
           told == IF RosterRows(MetersHeard(q), q.page) = <<>> THEN 0 ELSE n
<1>1. /\ RosterPage(q).of = q /\ RosterPage(q).pages = PageCount(told, RosterSize)
      /\ RosterPage(q).rows = RosterRows(MetersHeard(q), q.page)
  BY DEF RosterPage
<1>2. told \in Nat
  <2>1. n \in Nat
    BY HeardIsList
  <2> HIDE DEF n
  <2> QED BY <2>1
<1> HIDE DEF told
<1>3. PageCount(told, RosterSize) \in Nat
  BY <1>2, CenterAssumption, PagesHold
<1> QED BY <1>1, <1>3 DEF told

LEMMA RosterSeenWhole == RosterTourInv => RosterPagesComplete
<1> DEFINE d == roster.data
           found == MetersHeard(d.of)
           P == rosterTour.pages
<1> SUFFICES ASSUME RosterTourInv, ~ roster.loading, ~ roster.error, rosterTour.list = SameRoster(d),
                    d.rows # <<>> \/ desk.page = 0, desk.page + 1 >= d.pages, 0 .. desk.page \subseteq P
             PROVE  rosterTour.rows = Members(found)
  BY DEF RosterPagesComplete
<1>1. /\ RosterAsk(d.of) /\ d.of = RosterQuery(desk) /\ stored \in Nat /\ desk.page \in Nat /\ RosterWhole(d)
      /\ \A p \in P : p \in Nat
  BY DEF RosterTourInv, CenterInv, RosterInv, RosterForAsked
<1>2. d.of.page = desk.page
  BY <1>1 DEF RosterQuery
<1>3. RosterOf(rosterTour.list, d.of, stored)
  BY <1>1 DEF RosterOf, SameRoster
<1>4. rosterTour.list # NoGateway
  BY DEF SameRoster, NoGateway
<1>5. PICK q, n : /\ RosterOf(rosterTour.list, q, n) /\ n <= stored
                  /\ n = stored => rosterTour.rows = RosterSeen(q, P)
  BY <1>4 DEF RosterTourInv
<1>6. MetersHeard(q) = found /\ n = stored
  BY <1>3, <1>5, SameRosterSame
<1>7. rosterTour.rows = UNION {Members(Chunk(found, p, RosterSize)) : p \in P}
  BY <1>5, <1>6 DEF RosterSeen, RosterRows
<1>8. IsList(found) /\ Len(found) \in Nat /\ (d.of.gateway = NoGateway => Members(found) = {})
  BY <1>1, HeardIsList
<1>9. RosterSize \in Nat \ {0}
  BY CenterAssumption
<1>10. 0 \in P
  BY <1>1
<1> HIDE DEF P
<1>11. Members(found) = {} => rosterTour.rows = Members(found)
  <2> SUFFICES ASSUME Members(found) = {} PROVE rosterTour.rows = {}
    OBVIOUS
  <2> HIDE DEF found
  <2>1. \A p \in P : Members(Chunk(found, p, RosterSize)) = {}
    BY <1>1, <1>8, <1>9, PageRows
  <2> QED BY <1>7, <2>1
<1>12. CASE d = RosterPage(d.of)
  <2>1. /\ d.rows = Chunk(found, desk.page, RosterSize)
        /\ d.rows # <<>> => d.pages = PageCount(Len(found), RosterSize)
    BY <1>1, <1>2, <1>12, RosterPageTold DEF RosterRows
  <2>2. CASE d.rows = <<>>
    <3>1. desk.page = 0
      BY <2>2
    <3> DEFINE z == desk.page
    <3>2. z \in Nat /\ z = 0 /\ Chunk(found, z, RosterSize) = <<>>
      BY <2>1, <2>2, <3>1
    <3> HIDE DEF z, found
    <3>3. Members(found) = {}
      BY <1>8, <1>9, <3>2, PageRows
    <3> QED BY <1>11, <3>3
  <2>3. CASE d.rows # <<>>
    <3> DEFINE z == desk.page
    <3>1. z \in Nat /\ z + 1 >= PageCount(Len(found), RosterSize) /\ 0 .. z \subseteq P /\ P \in SUBSET Nat
      BY <1>1, <2>1, <2>3 DEF P
    <3> HIDE DEF z, found
    <3>2. UNION {Members(Chunk(found, p, RosterSize)) : p \in P} = Members(found)
      BY <1>8, <1>9, <3>1, WholeList
    <3> QED BY <1>7, <3>2
  <2> QED BY <2>2, <2>3
<1>13. CASE d.of.gateway = NoGateway
  BY <1>8, <1>11, <1>13
<1> QED BY <1>1, <1>12, <1>13 DEF RosterWhole

\* A render: the choice keeps a page that there may be, and what the meters were is kept
\* or given up.
LEMMA RendersTour ==
  ASSUME RosterTourInv, CenterInv', NEW d, DOMAIN d = DeskFields, d.page \in Nat, NEW b, NEW an, NEW re,
         Renders(d, b, an, re), UNCHANGED <<stored, rosterTour>>
  PROVE  RosterTourInv'
<1> DEFINE sel == FirstSelected(d, b)
           left == d.gateway = NoGateway /\ desk.gateway # NoGateway
           next == IF left THEN [sel EXCEPT !.page = 0] ELSE PageReset(sel)
           restarts == an \/ next.text # desk.text \/ Window(next) # Window(desk)
           reads == re \/ left \/ RosterQuery(next) # RosterQuery(desk) \/ StampOf(b) # StampOf(board)
<1>1. DOMAIN sel = DeskFields /\ sel.page = d.page
  <2> DEFINE g == <<CurrentGateways(b)[1]>>
             e == [d EXCEPT !.gateway = g]
  <2>1. sel = d \/ sel = e
    BY DEF FirstSelected
  <2> HIDE DEF g, sel
  <2>2. DOMAIN e = DeskFields /\ e.page = d.page
    BY DEF DeskFields
  <2> QED BY <2>1, <2>2
<1> HIDE DEF sel
<1>2. DOMAIN next = DeskFields /\ next.page \in Nat
  BY <1>1 DEF PageReset, DeskFields
<1>3. /\ desk' = IF restarts THEN [next EXCEPT !.pause = Ranked(next.text, b)] ELSE next
      /\ CASE ~reads -> UNCHANGED <<roster, rosterAsks>>
           [] reads /\ next.gateway = NoGateway ->
                /\ roster' = [roster EXCEPT !.data = EmptyRoster(RosterQuery(next))]
                /\ rosterAsks' = GivenUp
           [] OTHER ->
                /\ roster' = [data |-> IF left THEN EmptyRoster(RosterQuery(next)) ELSE roster.data,
                              loading |-> TRUE, error |-> FALSE]
                /\ rosterAsks' = GivenUp \cup {[of |-> RosterQuery(next), live |-> TRUE]}
  BY DEF Renders, sel
<1> HIDE DEF next, restarts, left
<1>4. desk'.page \in Nat
  <2> DEFINE p == Ranked(next.text, b)
             q == [next EXCEPT !.pause = p]
  <2>1. desk' = q \/ desk' = next
    BY <1>3
  <2> HIDE DEF p
  <2>2. q.page = next.page
    BY <1>2 DEF DeskFields
  <2> HIDE DEF q
  <2> QED BY <1>2, <2>1, <2>2
<1> DEFINE q == RosterQuery(next)
           e == EmptyRoster(q)
           a == [of |-> q, live |-> TRUE]
<1>5. RosterAsk(q) /\ q.gateway = next.gateway
  BY <1>2 DEF RosterAsk, RosterQuery, RosterFields
<1>6. e.of = q /\ e.pages = 0 /\ a.of = q /\ e = EmptyRoster(e.of)
  BY DEF EmptyRoster
<1>7. \A r \in GivenUp : RosterAsk(r.of)
  <2> SUFFICES ASSUME NEW r \in rosterAsks PROVE RosterAsk([r EXCEPT !.live = FALSE].of)
    BY DEF GivenUp
  <2>1. DOMAIN r = {"of", "live"} /\ RosterAsk(r.of)
    BY DEF RosterTourInv, CenterInv, RosterInv
  <2>2. [r EXCEPT !.live = FALSE].of = r.of
    BY <2>1
  <2> QED BY <2>1, <2>2
<1>8. DOMAIN roster = {"data", "loading", "error"}
  BY DEF RosterTourInv, CenterInv, RosterInv
\* what the meters are afterwards
<1> DEFINE Asking == \A r \in rosterAsks' : RosterAsk(r.of)
           Data == RosterAsk(roster'.data.of) /\ roster'.data.pages \in Nat
           Told == /\ ~ roster'.loading /\ ~ roster'.error /\ rosterTour.list = SameRoster(roster'.data)
                   => RosterWhole(roster'.data)
<1>9. Asking /\ Data /\ Told
  <2>1. CASE ~ reads
    BY <1>3, <2>1 DEF RosterTourInv
  <2>2. CASE reads /\ next.gateway = NoGateway
    <3>1. roster' = [roster EXCEPT !.data = e] /\ rosterAsks' = GivenUp
      BY <1>3, <2>2
    <3> HIDE DEF q, e
    <3>2. roster'.data = e
      BY <1>8, <3>1
    <3>3. RosterWhole(e)
      BY <1>5, <1>6, <2>2 DEF RosterWhole
    <3> QED BY <1>5, <1>6, <1>7, <3>1, <3>2, <3>3
  <2>3. CASE reads /\ next.gateway # NoGateway
    <3> DEFINE x == IF left THEN e ELSE roster.data
    <3>1. /\ roster' = [data |-> x, loading |-> TRUE, error |-> FALSE]
          /\ rosterAsks' = GivenUp \cup {a}
      BY <1>3, <2>3
    <3> HIDE DEF q, e, a
    <3>2. RosterAsk(x.of) /\ x.pages \in Nat
      BY <1>5, <1>6 DEF RosterTourInv
    <3> HIDE DEF x
    <3>3. roster'.data = x /\ roster'.loading
      BY <3>1
    <3> QED BY <1>5, <1>6, <1>7, <3>1, <3>2, <3>3
  <2> QED BY <2>1, <2>2, <2>3
<1>10. \A x, p : RosterSeen(x, p)' = RosterSeen(x, p)
  BY DEF RosterSeen, RosterRows, MetersHeard, Ordered, FramesOf, Mine
<1>11. SameRoster(roster.data)' = SameRoster(roster'.data) /\ RosterWhole(roster.data)' = RosterWhole(roster'.data)
  BY DEF SameRoster, RosterWhole, RosterPage, RosterRows, EmptyRoster, MetersHeard, Ordered, FramesOf, Mine
<1> QED BY <1>4, <1>9, <1>10, <1>11 DEF RosterTourInv

\* What does not touch the meters, nor the frames.
LEMMA RosterTourStays ==
  ASSUME RosterTourInv, CenterInv', UNCHANGED <<stored, roster, rosterTour>>, desk'.page = desk.page,
         rosterAsks' \subseteq rosterAsks
  PROVE  RosterTourInv'
<1>1. \A x, p : RosterSeen(x, p)' = RosterSeen(x, p)
  BY DEF RosterSeen, RosterRows, MetersHeard, Ordered, FramesOf, Mine
<1>2. SameRoster(roster.data)' = SameRoster(roster.data) /\ RosterWhole(roster.data)' = RosterWhole(roster.data)
  BY DEF SameRoster, RosterWhole, RosterPage, RosterRows, EmptyRoster, MetersHeard, Ordered, FramesOf, Mine
<1> QED BY <1>1, <1>2 DEF RosterTourInv

\* A frame more: the lists of before are other lists.
LEMMA RosterTourFrame ==
  ASSUME RosterTourInv, CenterInv', FrameStored
  PROVE  RosterTourInv'
<1>1. stored' = stored + 1 /\ UNCHANGED <<desk, roster, rosterAsks, rosterTour>> /\ stored \in Nat
  BY DEF FrameStored, RosterTourInv
<1>2. CASE rosterTour.list = NoGateway
  <2>1. rosterTour.list # SameRoster(roster.data)'
    BY <1>2 DEF SameRoster, NoGateway
  <2> QED BY <1>1, <1>2, <2>1 DEF RosterTourInv
<1>3. CASE rosterTour.list # NoGateway
  <2>1. PICK q, n : RosterOf(rosterTour.list, q, n) /\ n <= stored
    BY <1>3 DEF RosterTourInv
  <2>2. n <= stored' /\ n # stored'
    BY <1>1, <2>1 DEF RosterOf
  <2>3. rosterTour.list # SameRoster(roster.data)'
    BY <1>1, <2>1, <2>2 DEF RosterOf, SameRoster
  <2>4. /\ \E x, m : /\ RosterOf(rosterTour.list, x, m) /\ m <= stored'
                     /\ m = stored' => rosterTour.rows = RosterSeen(x, rosterTour.pages)'
    BY <2>1, <2>2
  <2>5. RosterAsk(roster.data.of) /\ roster.data.pages \in Nat
        /\ DOMAIN rosterTour = {"list", "pages", "rows"} /\ rosterTour.pages \subseteq Nat
        /\ (\A r \in rosterAsks : RosterAsk(r.of)) /\ desk.page \in Nat
    BY DEF RosterTourInv
  <2> QED BY <1>1, <2>3, <2>4, <2>5 DEF RosterTourInv
<1> QED BY <1>2, <1>3

LEMMA RosterTourAtFirst == CenterInit => RosterTourInv
<1> SUFFICES ASSUME CenterInit PROVE RosterTourInv
  OBVIOUS
<1>1. CenterInv
  BY CenterInitially
<1>2. PICK g \in CenterLink : desk = FirstDesk(g)
  BY DEF CenterInit
<1>3. DOMAIN desk = DeskFields /\ desk.page = 0
  BY <1>2 DEF FirstDesk, DeskFields
<1>4. /\ stored = 1 /\ roster = FirstRoster(desk) /\ rosterAsks = FirstAsks(desk)
      /\ rosterTour = [list |-> NoGateway, pages |-> {}, rows |-> {}]
  BY DEF CenterInit
<1> DEFINE q == RosterQuery(desk)
           e == EmptyRoster(q)
<1>5. RosterAsk(q) /\ e.of = q /\ e.pages = 0
  BY <1>3 DEF RosterAsk, RosterQuery, RosterFields, EmptyRoster
<1>6. roster.data = e /\ \A r \in rosterAsks : r.of = q
  BY <1>4 DEF FirstRoster, FirstAsks
<1>7. /\ DOMAIN rosterTour = {"list", "pages", "rows"} /\ rosterTour.pages = {} /\ rosterTour.list = NoGateway
  BY <1>4
<1>8. \A x : rosterTour.list # SameRoster(x)
  BY <1>7 DEF SameRoster, NoGateway
<1> HIDE DEF q, e
<1> QED BY <1>1, <1>3, <1>4, <1>5, <1>6, <1>7, <1>8 DEF RosterTourInv

LEMMA RosterTourBack ==
  ASSUME RosterTourInv, CenterInv', NEW g, ComesBack(g)
  PROVE  RosterTourInv'
<1> DEFINE b == FirstBoard(saved)
           f == FirstDesk(g)
           d == FirstSelected(f, b)
<1>1. /\ desk' = d /\ roster' = FirstRoster(d) /\ rosterAsks' = GivenUp \cup FirstAsks(d)
      /\ UNCHANGED <<stored, rosterTour>>
  BY DEF ComesBack
<1>2. DOMAIN d = DeskFields /\ d.page = 0
  <2>1. DOMAIN f = DeskFields /\ f.page = 0
    BY DEF FirstDesk, DeskFields
  <2> HIDE DEF f
  <2> DEFINE x == <<CurrentGateways(b)[1]>>
             e == [f EXCEPT !.gateway = x]
  <2>2. d = f \/ d = e
    BY DEF FirstSelected
  <2> HIDE DEF x, d
  <2>3. DOMAIN e = DeskFields /\ e.page = 0
    BY <2>1 DEF DeskFields
  <2> QED BY <2>1, <2>2, <2>3
<1> HIDE DEF d
<1> DEFINE q == RosterQuery(d)
           e == EmptyRoster(q)
<1>3. RosterAsk(q) /\ q.gateway = d.gateway /\ e.of = q /\ e.pages = 0 /\ e = EmptyRoster(e.of)
  BY <1>2 DEF RosterAsk, RosterQuery, RosterFields, EmptyRoster
<1>4. /\ roster'.data = e /\ (d.gateway # NoGateway => roster'.loading)
      /\ \A r \in FirstAsks(d) : r.of = q
  BY <1>1 DEF FirstRoster, FirstAsks
<1>5. \A r \in GivenUp : RosterAsk(r.of)
  <2> SUFFICES ASSUME NEW r \in rosterAsks PROVE RosterAsk([r EXCEPT !.live = FALSE].of)
    BY DEF GivenUp
  <2>1. DOMAIN r = {"of", "live"} /\ RosterAsk(r.of)
    BY DEF RosterTourInv, CenterInv, RosterInv
  <2>2. [r EXCEPT !.live = FALSE].of = r.of
    BY <2>1
  <2> QED BY <2>1, <2>2
<1>6. d.gateway = NoGateway => RosterWhole(e)
  BY <1>3 DEF RosterWhole
<1> HIDE DEF q, e
<1>7. \A x, p : RosterSeen(x, p)' = RosterSeen(x, p)
  BY <1>1 DEF RosterSeen, RosterRows, MetersHeard, Ordered, FramesOf, Mine
<1>8. RosterWhole(roster.data)' = RosterWhole(roster'.data)
  BY <1>1 DEF RosterWhole, RosterPage, RosterRows, EmptyRoster, MetersHeard, Ordered, FramesOf, Mine
<1>9. RosterAsk(roster'.data.of) /\ roster'.data.pages \in Nat /\ desk'.page \in Nat
      /\ \A r \in rosterAsks' : RosterAsk(r.of)
  BY <1>1, <1>2, <1>3, <1>4, <1>5
<1>10. ~ roster'.loading => RosterWhole(roster'.data)
  BY <1>4, <1>6
<1> QED BY <1>1, <1>7, <1>8, <1>9, <1>10 DEF RosterTourInv

\* The page of meters that was asked for last is shown, or the last one there is.
LEMMA RosterTourArrives ==
  ASSUME RosterTourInv, CenterInv', NEW r \in rosterAsks, MetersArrive(r)
  PROVE  RosterTourInv'
<1> DEFINE q == r.of
           data == RosterPage(q)
<1>0. stored' = stored /\ stored \in Nat /\ desk.page \in Nat /\ DOMAIN desk = DeskFields
  BY DEF MetersArrive, RosterTourInv, CenterInv, RosterInv
<1>1. RosterAsk(q)
  BY DEF RosterTourInv
<1>2. /\ data.of = q /\ data.pages \in Nat /\ data.rows = RosterRows(MetersHeard(q), q.page)
  BY <1>0, <1>1, RosterPageTold
<1> HIDE DEF q
<1>3. CASE ~ r.live
  <2>1. rosterAsks' = rosterAsks \ {r} /\ UNCHANGED <<desk, roster, rosterTour>>
    BY <1>3 DEF MetersArrive
  <2> QED BY <1>0, <2>1, RosterTourStays
<1>4. CASE r.live /\ data.pages > 0 /\ desk.page >= data.pages
  <2> DEFINE d == [desk EXCEPT !.page = data.pages - 1]
  <2>1. Renders(d, board, FALSE, FALSE) /\ rosterTour' = rosterTour
    BY <1>4 DEF MetersArrive, q
  <2>2. data.pages - 1 \in Nat
    BY <1>2, <1>4
  <2> DEFINE p == data.pages - 1
  <2>3. DOMAIN d = DeskFields /\ d.page = p
    BY <1>0 DEF DeskFields
  <2> HIDE DEF d
  <2> QED BY <1>0, <2>1, <2>2, <2>3, RendersTour
<1>5. CASE r.live /\ ~ (data.pages > 0 /\ desk.page >= data.pages)
  <2> DEFINE l == SameRoster(data)
             p == q.page
             rs == data.rows
             new == rosterTour'
             tour == rosterTour
  <2>1. /\ roster' = [data |-> data, loading |-> FALSE, error |-> FALSE]
        /\ new = Seen(tour, l, p, rs) /\ rosterAsks' = rosterAsks \ {r} /\ UNCHANGED desk
    BY <1>5 DEF MetersArrive, q
  <2>2. RosterOf(l, q, stored)
    BY <1>0, <1>1, <1>2 DEF RosterOf, SameRoster
  <2>3. /\ DOMAIN tour = {"list", "pages", "rows"} /\ p \in Nat /\ \A x \in tour.pages : x \in Nat
    BY <1>1 DEF RosterTourInv, RosterAsk
  <2>4. rs = RosterRows(MetersHeard(q), p)
    BY <1>2
  <2>5. roster'.data = data
    BY <2>1
  <2>6. l # NoGateway
    BY DEF SameRoster, NoGateway
  <2> HIDE DEF l, p, rs, new, tour
  <2>7. MoreSeen(tour, new, l, p, rs)
    BY <2>1, <2>3, SeenMore
  <2>8. DOMAIN new = {"list", "pages", "rows"} /\ new.list = l /\ new.pages \subseteq Nat
    BY <2>3, <2>7 DEF MoreSeen
  <2>9. new.rows = RosterSeen(q, new.pages)
    <3>1. CASE tour.list = l
      <4>1. PICK x, n : RosterOf(l, x, n) /\ (n = stored => tour.rows = RosterSeen(x, tour.pages))
        BY <2>6, <3>1 DEF RosterTourInv, tour
      <4>2. MetersHeard(x) = MetersHeard(q) /\ n = stored
        BY <2>2, <4>1, SameRosterSame
      <4>3. tour.rows = RosterSeen(q, tour.pages)
        BY <4>1, <4>2 DEF RosterSeen
      <4> QED BY <2>4, <2>7, <3>1, <4>3 DEF MoreSeen, RosterSeen
    <3>2. CASE tour.list # l
      BY <2>4, <2>7, <3>2 DEF MoreSeen, RosterSeen
    <3> QED BY <3>1, <3>2
  <2>10. RosterWhole(data)
    BY <1>2 DEF RosterWhole
  <2>11. \A x, y : RosterSeen(x, y)' = RosterSeen(x, y)
    BY <1>0 DEF RosterSeen, RosterRows, MetersHeard, Ordered, FramesOf, Mine
  <2>12. RosterWhole(roster.data)' = RosterWhole(roster'.data)
    BY <1>0 DEF RosterWhole, RosterPage, RosterRows, EmptyRoster, MetersHeard, Ordered, FramesOf, Mine
  <2>13. \E x, n : RosterOf(new.list, x, n) /\ n <= stored /\ (n = stored => new.rows = RosterSeen(x, new.pages))
    BY <1>0, <2>2, <2>8, <2>9
  <2>14. \E x, n : /\ RosterOf(rosterTour'.list, x, n) /\ n <= stored'
                   /\ n = stored' => rosterTour'.rows = RosterSeen(x, rosterTour'.pages)
    BY <1>0, <2>13 DEF new
  <2>15. \A x \in rosterAsks' : RosterAsk(x.of)
    BY <2>1 DEF RosterTourInv
  <2> HIDE DEF data
  <2>16. RosterAsk(roster'.data.of) /\ roster'.data.pages \in Nat /\ RosterWhole(roster'.data)
    BY <1>1, <1>2, <2>5, <2>10
  <2>17. \E x, n : /\ RosterOf(rosterTour.list, x, n)' /\ n <= stored'
                   /\ n = stored' => rosterTour'.rows = RosterSeen(x, rosterTour.pages)'
    BY <2>11, <2>14
  <2> QED BY <1>0, <2>1, <2>8, <2>12, <2>15, <2>16, <2>17 DEF RosterTourInv, new
<1> QED BY <1>3, <1>4, <1>5

LEMMA RosterTourFails ==
  ASSUME RosterTourInv, CenterInv', NEW r \in rosterAsks, MetersFail(r)
  PROVE  RosterTourInv'
<1> DEFINE e == EmptyRoster(r.of)
<1>1. /\ rosterAsks' = rosterAsks \ {r} /\ UNCHANGED <<stored, desk, rosterTour>>
      /\ roster' = IF r.live THEN [data |-> e, loading |-> FALSE, error |-> TRUE] ELSE roster
  BY DEF MetersFail
<1>2. RosterAsk(e.of) /\ e.pages = 0
  BY DEF RosterTourInv, EmptyRoster
<1> HIDE DEF e
<1>3. CASE r.live
  <2>1. roster'.data = e /\ roster'.error
    BY <1>1, <1>3
  <2>2. \A x, p : RosterSeen(x, p)' = RosterSeen(x, p)
    BY <1>1 DEF RosterSeen, RosterRows, MetersHeard, Ordered, FramesOf, Mine
  <2>3. \A x \in rosterAsks' : RosterAsk(x.of)
    BY <1>1 DEF RosterTourInv
  <2> QED BY <1>1, <1>2, <2>1, <2>2, <2>3 DEF RosterTourInv
<1>4. CASE ~ r.live
  BY <1>1, <1>4, RosterTourStays
<1> QED BY <1>3, <1>4

LEMMA RosterTourKept ==
  ASSUME RosterTourInv, [CenterNext]_centerVars
  PROVE  RosterTourInv'
<1>0. CenterInv'
  BY CenterKept DEF RosterTourInv
<1>1. DOMAIN desk = DeskFields /\ desk.page \in Nat /\ roster.data.pages \in Nat
  BY DEF RosterTourInv, CenterInv, RosterInv
<1>2. ASSUME NEW d, NEW b, NEW an, NEW re, Renders(d, b, an, re), DOMAIN d = DeskFields, d.page \in Nat,
             UNCHANGED <<stored, rosterTour>>
      PROVE  RosterTourInv'
  BY <1>0, <1>2, RendersTour
<1>3. ASSUME UNCHANGED <<stored, desk, roster, rosterAsks, rosterTour>>
      PROVE  RosterTourInv'
  BY <1>0, <1>3, RosterTourStays
<1>4. ASSUME NEW x, ChooseWindow(x) \/ ChooseCenterSite(x)
      PROVE  RosterTourInv'
  <2>1. \A d \in {[desk EXCEPT !.window = x], [desk EXCEPT !.site = x]} :
          DOMAIN d = DeskFields /\ d.page \in Nat
    BY <1>1 DEF DeskFields
  <2>2. PICK d \in {[desk EXCEPT !.window = x], [desk EXCEPT !.site = x]} : Filters(d)
    BY <1>4 DEF ChooseWindow, ChooseCenterSite
  <2>3. Renders(d, SummaryAsked(board, TRUE), FALSE, FALSE) /\ UNCHANGED <<stored, rosterTour>>
    BY <2>2 DEF Filters
  <2> QED BY <1>2, <2>1, <2>3
<1>5. ASSUME NEW r \in numberAsks, SummaryArrives(r)
      PROVE  RosterTourInv'
  <2>1. UNCHANGED <<stored, rosterTour>>
    BY <1>5 DEF SummaryArrives
  <2>2. CASE UNCHANGED <<desk, roster, rosterAsks>>
    BY <1>3, <2>1, <2>2
  <2>3. CASE ~ UNCHANGED <<desk, roster, rosterAsks>>
    <3>1. PICK b : Renders(desk, b, TRUE, FALSE)
      BY <1>5, <2>3 DEF SummaryArrives
    <3> QED BY <1>1, <1>2, <2>1, <3>1
  <2> QED BY <2>2, <2>3
<1>6. ASSUME NEW r, ServerReads(r) \/ ServerKeeps(r) \/ SummaryFails(r)
      PROVE  RosterTourInv'
  <2>1. UNCHANGED <<stored, desk, roster, rosterAsks, rosterTour>>
    BY <1>6 DEF ServerReads, ServerKeeps, SummaryFails
  <2> QED BY <1>3, <2>1
<1>7. CASE SummaryNext
  BY <1>0, <1>4, <1>5, <1>6, <1>7, RosterTourFrame DEF SummaryNext
<1>8. CASE NumbersNext
  <2>1. UNCHANGED <<stored, desk, roster, rosterAsks, rosterTour>>
    BY <1>8 DEF NumbersNext, CenterRefresh, OtherLooks, RowsAge
  <2> QED BY <1>3, <2>1
<1>9. CASE ReturnNext
  BY <1>0, <1>9, RosterTourBack DEF ReturnNext
<1>10. ASSUME NEW d, NEW re, Presses(d, re), DOMAIN d = DeskFields, d.page \in Nat
       PROVE  RosterTourInv'
  <2>1. Renders(d, board, FALSE, re) /\ UNCHANGED <<stored, rosterTour>>
    BY <1>10 DEF Presses
  <2> QED BY <1>2, <1>10, <2>1
<1>11. ASSUME NEW x, \/ Presses([desk EXCEPT !.gateway = x], FALSE)
                     \/ Presses([desk EXCEPT !.filter = x], FALSE)
                     \/ Presses([desk EXCEPT !.meter = x], FALSE)
                     \/ Presses([desk EXCEPT !.text = x], FALSE)
       PROVE  RosterTourInv'
  <2>1. \A d \in {[desk EXCEPT !.gateway = x], [desk EXCEPT !.filter = x], [desk EXCEPT !.meter = x],
                  [desk EXCEPT !.text = x]} : DOMAIN d = DeskFields /\ d.page \in Nat
    BY <1>1 DEF DeskFields
  <2>2. PICK d \in {[desk EXCEPT !.gateway = x], [desk EXCEPT !.filter = x], [desk EXCEPT !.meter = x],
                    [desk EXCEPT !.text = x]} : Presses(d, FALSE)
    BY <1>11
  <2> QED BY <1>10, <2>1, <2>2
<1>12. CASE NextMeters \/ PreviousMeters
  <2>1. \E p \in Nat : Presses([desk EXCEPT !.page = p], FALSE)
    <3>1. CASE NextMeters
      <4>1. Presses([desk EXCEPT !.page = desk.page + 1], FALSE)
        BY <3>1 DEF NextMeters
      <4>2. desk.page + 1 \in Nat
        BY <1>1
      <4> QED BY <4>1, <4>2
    <3>2. CASE PreviousMeters
      <4>1. desk.page > 0 /\ Presses([desk EXCEPT !.page = desk.page - 1], FALSE)
        BY <3>2 DEF PreviousMeters
      <4>2. desk.page - 1 \in Nat
        BY <1>1, <4>1
      <4> QED BY <4>1, <4>2
    <3> QED BY <1>12, <3>1, <3>2
  <2>2. PICK p \in Nat : Presses([desk EXCEPT !.page = p], FALSE)
    BY <2>1
  <2> DEFINE d == [desk EXCEPT !.page = p]
  <2>3. DOMAIN d = DeskFields /\ d.page \in Nat /\ Presses(d, FALSE)
    BY <1>1, <2>2 DEF DeskFields
  <2> HIDE DEF d
  <2> QED BY <1>10, <2>3
<1>13. CASE RetryMeters
  BY <1>1, <1>10, <1>13 DEF RetryMeters
<1>14. ASSUME NEW i \in DOMAIN CurrentGateways(board), ClickGateway(i)
       PROVE  RosterTourInv'
  <2> DEFINE g == <<CurrentGateways(board)[i]>>
             k == IF desk.gateway = g THEN NoGateway ELSE g
  <2>1. Presses([desk EXCEPT !.gateway = k], FALSE)
    BY <1>14 DEF ClickGateway
  <2> HIDE DEF k
  <2> QED BY <1>11, <2>1
<1>15. CASE RosterNext
  <2>1. ASSUME NEW r \in rosterAsks, MetersArrive(r) \/ MetersFail(r)
        PROVE  RosterTourInv'
    BY <1>0, <2>1, RosterTourArrives, RosterTourFails
  <2>2. CASE \/ \E g \in CenterLink : FollowLink(g)
             \/ \E f \in MeterFilter : FilterMeters(f)
             \/ \E i \in DOMAIN roster.data.rows : ClickMeter(i)
             \/ CloseInspector
    BY <1>11, <2>2 DEF FollowLink, FilterMeters, ClickMeter, CloseInspector
  <2> QED BY <1>12, <1>13, <1>14, <1>15, <2>1, <2>2 DEF RosterNext
<1>16. ASSUME NEW text, Types(text)
       PROVE  RosterTourInv'
  <2> DEFINE found == FoundGateways(text, board)
             first == CHOOSE i \in found : \A j \in found : i <= j
             g == <<CurrentGateways(board)[first]>>
             e == [desk EXCEPT !.text = text]
             d == [e EXCEPT !.gateway = g]
  <2>1. Presses(e, FALSE) \/ Presses(d, FALSE)
    BY <1>16 DEF Types
  <2> HIDE DEF g
  <2>2. DOMAIN e = DeskFields /\ e.page \in Nat /\ DOMAIN d = DeskFields /\ d.page \in Nat
    BY <1>1 DEF DeskFields
  <2> HIDE DEF e, d
  <2> QED BY <1>10, <2>1, <2>2
<1>17. CASE CenterPauseEnds
  <2> DEFINE d == [desk EXCEPT !.pause = FALSE]
  <2>1. desk' = d /\ UNCHANGED <<stored, roster, rosterAsks, rosterTour>>
    BY <1>17 DEF CenterPauseEnds
  <2>2. d.page = desk.page
    BY <1>1 DEF DeskFields
  <2> HIDE DEF d
  <2> QED BY <1>0, <2>1, <2>2, RosterTourStays
<1>18. ASSUME NEW l, NamedFound(l)
       PROVE  RosterTourInv'
  <2>1. UNCHANGED <<stored, rosterTour>>
    BY <1>18 DEF NamedFound
  <2>2. CASE UNCHANGED <<desk, roster, rosterAsks>>
    BY <1>3, <2>1, <2>2
  <2>3. CASE ~ UNCHANGED <<desk, roster, rosterAsks>>
    <3>1. PICK f : Renders([desk EXCEPT !.meter = f.meter,
                              !.gateway = IF l.how = "frame" THEN @ ELSE <<f.gateway>>], board, FALSE, FALSE)
      BY <1>18, <2>3 DEF NamedFound
    <3> DEFINE g == IF l.how = "frame" THEN desk.gateway ELSE <<f.gateway>>
               d == [desk EXCEPT !.meter = f.meter, !.gateway = g]
    <3>2. Renders(d, board, FALSE, FALSE)
      BY <3>1
    <3> HIDE DEF g
    <3>3. DOMAIN d = DeskFields /\ d.page \in Nat
      BY <1>1 DEF DeskFields
    <3> HIDE DEF d
    <3> QED BY <1>2, <2>1, <3>2, <3>3
  <2> QED BY <2>2, <2>3
<1>19. CASE (\E i \in 1..stored : \E how \in {"frame", "link"} : NameMeter(CenterFrames[i].meter, how))
            \/ UNCHANGED centerVars
  <2>1. UNCHANGED <<stored, desk, roster, rosterAsks, rosterTour>>
    BY <1>19 DEF NameMeter, centerVars
  <2> QED BY <1>3, <2>1
<1>20. CASE LookupNext
  BY <1>16, <1>17, <1>18, <1>19, <1>20 DEF LookupNext
<1> QED BY <1>7, <1>8, <1>9, <1>15, <1>19, <1>20 DEF CenterNext

-----------------------------------------------------------------------------
\* Page by page.
TourInv ==
  /\ about = "alarms" => AlarmTourInv
  /\ about = "bills" => BillTourInv
  /\ about = "table" => SheetTourInv
  /\ about = "roster" => RosterTourInv

LEMMA TourKept ==
  ASSUME TourInv, [PagesNext]_pagesVars
  PROVE  TourInv'
<1>0. about' = about
  BY DEF PagesNext, pagesVars
<1>1. CASE about = "alarms"
  <2>1. [AlarmsNext]_alarmVars
    BY <1>1 DEF PagesNext, AlarmsStep, pagesVars
  <2> QED BY <1>0, <1>1, <2>1, AlarmTourKept DEF TourInv
<1>2. CASE about = "bills"
  <2>1. [BillingNext]_billVars
    BY <1>2 DEF PagesNext, BillsStep, pagesVars
  <2> QED BY <1>0, <1>2, <2>1, BillTourKept DEF TourInv
<1>3. CASE about = "table"
  <2>1. [SheetNext]_sheetVars
    BY <1>3 DEF PagesNext, TableStep, pagesVars
  <2> QED BY <1>0, <1>3, <2>1, SheetTourKept DEF TourInv
<1>4. CASE about = "roster"
  <2>1. [CenterNext]_centerVars
    BY <1>4 DEF PagesNext, CommandStep, pagesVars, CenterNext
  <2> QED BY <1>0, <1>4, <2>1, RosterTourKept DEF TourInv
<1>5. CASE about \notin {"alarms", "bills", "table", "roster"}
  BY <1>0, <1>5 DEF TourInv
<1> QED BY <1>1, <1>2, <1>3, <1>4, <1>5

\* Whoever goes through the pages of a list up to the one where there is no next has seen
\* every row that is theirs: the alerts, the bills and what they add up to, the meters of
\* the Network Explorer's table and of a gateway.  For any rows, any page size and any
\* order of presses and answers; a list that changes meanwhile is another list.
THEOREM PagesAreComplete == PagesSpec => []PagesComplete
<1>1. PagesInit => TourInv
  BY AlarmTourAtFirst, BillTourAtFirst, SheetTourAtFirst, RosterTourAtFirst DEF PagesInit, TourInv
<1>2. TourInv => PagesComplete
  BY AlarmsSeenWhole, BillsSeenWhole, SheetSeenWhole, RosterSeenWhole DEF TourInv, PagesComplete
<1> QED BY <1>1, <1>2, TourKept, PTL DEF PagesSpec
=============================================================================
