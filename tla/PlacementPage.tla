----------------------------- MODULE PlacementPage -----------------------------
(***************************************************************************)
(* The Gateway Placement page: a site, a mode ("add" gateways, or          *)
(* "optimize" the ones that stand) and the gateways the user has locked.   *)
(* A run asks the server for a plan and has a number; only the answer of   *)
(* the newest run counts.  A new site and a new mode start from a clean    *)
(* slate and run at once; a change of the locks runs a moment later, when  *)
(* the clicks have stopped.                                                *)
(*                                                                         *)
(* A plan is what it was asked for: the site and, in optimize mode, the    *)
(* locks.  What is typed into the options applies on the next run only     *)
(* ("Changes apply on Generate"), so it is left out, as is the map.        *)
(***************************************************************************)
EXTENDS Naturals, FiniteSets

CONSTANTS
  Site,        \* what the site picker offers
  Existing,    \* the gateways that can be locked
  NoPlan,
  MaxRuns      \* bound: runs of one page

ASSUME PlacementAssumption == NoPlan \notin [site : Site, locks : SUBSET Existing]

Mode == {"add", "optimize"}

VARIABLES
  site, mode, locks,
  runId,        \* the number of the newest run
  asked,        \* the runs whose answer is on its way
  added,        \* the plan of the add mode, or NoPlan
  relocation,   \* the plan of the optimize mode, or NoPlan
  isLoading,
  failed,       \* an error is on screen
  waiting       \* the timer of a change of the locks is set

placementVars ==
  <<site, mode, locks, runId, asked, added, relocation, isLoading, failed, waiting>>

Run(m, s) == [run |-> runId', mode |-> m, site |-> s, locks |-> locks]

\* The page opens in add mode and computes at once.
PlacementInit ==
  /\ site \in Site
  /\ mode = "add"
  /\ locks = {}
  /\ runId = 1
  /\ asked = {[run |-> 1, mode |-> "add", site |-> site, locks |-> {}]}
  /\ added = NoPlan
  /\ relocation = NoPlan
  /\ isLoading = TRUE
  /\ failed = FALSE
  /\ waiting = FALSE

CleanSlate ==
  /\ added' = NoPlan
  /\ relocation' = NoPlan
  /\ failed' = FALSE

\* handleGenerate, by the button or by the timer: what is on screen stays until
\* the answer is there.
Generate ==
  /\ runId < MaxRuns
  /\ runId' = runId + 1
  /\ asked' = asked \cup {Run(mode, site)}
  /\ isLoading' = TRUE
  /\ failed' = FALSE
  /\ UNCHANGED <<site, mode, locks, added, relocation>>

ClickGenerate == ~isLoading /\ Generate /\ UNCHANGED waiting

TimerFires == waiting /\ Generate /\ waiting' = FALSE

\* Both effects of a new site: the clean slate takes a number, the run another.
ChooseSite(s) ==
  /\ s # site
  /\ runId + 2 <= MaxRuns
  /\ runId' = runId + 2
  /\ site' = s
  /\ CleanSlate
  /\ asked' = asked \cup {Run(mode, s)}
  /\ isLoading' = TRUE
  /\ UNCHANGED <<mode, locks, waiting>>

\* A mode switch drops a timer that is still waiting, and computes on its own.
SwitchMode(m) ==
  /\ m # mode
  /\ runId + 2 <= MaxRuns
  /\ runId' = runId + 2
  /\ mode' = m
  /\ CleanSlate
  /\ asked' = asked \cup {Run(m, site)}
  /\ isLoading' = TRUE
  /\ waiting' = FALSE
  /\ UNCHANGED <<site, locks>>

\* The list of the plan has a lock on every gateway, and the options a button
\* that lifts all locks; both are there in optimize mode only.
SetLocks(ls) ==
  /\ mode = "optimize"
  /\ ls # locks
  /\ \/ relocation # NoPlan /\ \E g \in Existing : ls \in {locks \cup {g}, locks \ {g}}
     \/ ls = {}
  /\ locks' = ls
  /\ waiting' = TRUE
  /\ UNCHANGED <<site, mode, runId, asked, added, relocation, isLoading, failed>>

\* Mutant: the answer of an earlier run counts when it is for the site chosen.
OfThisSite(a) == a.site = site

NewestRun(a) == a.run = runId

PlanArrives(a) ==
  /\ asked' = asked \ {a}
  /\ IF NewestRun(a)
       THEN /\ isLoading' = FALSE
            /\ IF a.mode = "optimize"
                 THEN relocation' = [site |-> a.site, locks |-> a.locks] /\ UNCHANGED added
                 ELSE added' = [site |-> a.site, locks |-> {}] /\ UNCHANGED relocation
       ELSE UNCHANGED <<isLoading, added, relocation>>
  /\ UNCHANGED <<site, mode, locks, runId, failed, waiting>>

\* An error is told, and what was on screen stays.
PlanFails(a) ==
  /\ asked' = asked \ {a}
  /\ IF NewestRun(a) THEN isLoading' = FALSE /\ failed' = TRUE
                  ELSE UNCHANGED <<isLoading, failed>>
  /\ UNCHANGED <<site, mode, locks, runId, added, relocation, waiting>>

PlacementNext ==
  \/ ClickGenerate
  \/ TimerFires
  \/ \E s \in Site : ChooseSite(s)
  \/ \E m \in Mode : SwitchMode(m)
  \/ \E ls \in SUBSET Existing : SetLocks(ls)
  \/ \E a \in asked : PlanArrives(a) \/ PlanFails(a)

PlacementSpec == PlacementInit /\ [][PlacementNext]_placementVars

-----------------------------------------------------------------------------
PlanShown == IF mode = "optimize" THEN relocation ELSE added

Settled == ~isLoading /\ ~failed /\ ~waiting

\* GatewayPlacementPage.tsx:95, 322 and 408: whatever the order of clicks, timers
\* and answers, a plan on screen is one for the site and the mode chosen, and
\* when the page has settled there is one, made with the locks as they are now.
PlanForAsked ==
  /\ PlanShown # NoPlan => PlanShown.site = site
  /\ Settled => /\ PlanShown # NoPlan
                /\ mode = "optimize" => PlanShown.locks = locks
=============================================================================
