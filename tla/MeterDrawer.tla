------------------------------ MODULE MeterDrawer ------------------------------
(***************************************************************************)
(* The Meter 360 drawer (MeterHistoryDrawer.tsx) over /gis/meter-detail.   *)
(* Opening a meter asks for the part the database holds; the profile and   *)
(* the documents are asked for when their tab is opened.  Every answer     *)
(* holds the database part, so one that comes first stands in for it, and  *)
(* later ones are laid over what is there.                                 *)
(***************************************************************************)
EXTENDS Naturals, FiniteSets

CONSTANTS
  Meter,
  NoDetail,
  MaxOpens     \* bound: meters opened, and retries of a part

ASSUME DrawerAssumption == NoDetail \notin [meter : Meter, parts : SUBSET {"profile", "documents"}]

Part == {"profile", "documents"}
AllIdle == [p \in Part |-> "idle"]

VARIABLES
  meter,        \* whose drawer is open
  consumerTab,
  detail,       \* what has arrived: whose, and the parts in it
  state,        \* of each part: idle, loading, done or error
  coreError,
  coreOut,      \* the database request of this opening is on its way
  partsOut,     \* requests for parts, of whatever opening
  opens

drawerVars == <<meter, consumerTab, detail, state, coreError, coreOut, partsOut, opens>>

Request(m, part) == [meter |-> m, part |-> part, opening |-> opens']

\* The tab asks for the parts nobody has asked for.
Wanted(tab, states) == {p \in Part : tab /\ states[p] = "idle"}
AskParts(m, parts, states) ==
  /\ state' = [p \in Part |-> IF p \in parts THEN "loading" ELSE states[p]]
  /\ partsOut' = partsOut \cup {Request(m, p) : p \in parts}

DrawerInit ==
  /\ meter \in Meter
  /\ consumerTab = FALSE
  /\ detail = NoDetail
  /\ state = AllIdle
  /\ coreError = FALSE
  /\ coreOut = TRUE
  /\ partsOut = {}
  /\ opens = 1

\* Another meter in the same drawer: everything starts again, and the database
\* answer of the last one is dropped.
OpenMeter(m) ==
  /\ m # meter
  /\ opens < MaxOpens
  /\ opens' = opens + 1
  /\ meter' = m
  /\ detail' = NoDetail
  /\ coreError' = FALSE
  /\ coreOut' = TRUE
  /\ AskParts(m, Wanted(consumerTab, AllIdle), AllIdle)
  /\ UNCHANGED consumerTab

OpenTab ==
  /\ consumerTab' = ~consumerTab
  /\ opens' = opens
  /\ AskParts(meter, Wanted(consumerTab', state), state)
  /\ UNCHANGED <<meter, detail, coreError, coreOut>>

\* The button of a part that could not be loaded.
RetryDetail(part) ==
  /\ consumerTab /\ state[part] = "error"
  /\ opens < MaxOpens
  /\ opens' = opens + 1
  /\ AskParts(meter, {part}, state)
  /\ UNCHANGED <<meter, consumerTab, detail, coreError, coreOut>>

Bare(m) == [meter |-> m, parts |-> {}]

\* Mutant: the database answer replaces what is there.
Replaced(m) == Bare(m)

\* The database part does not replace an answer that stood in for it.
LaidUnder(m) == IF detail = NoDetail THEN Bare(m) ELSE detail

CoreArrives ==
  /\ coreOut
  /\ coreOut' = FALSE
  /\ \/ detail' = LaidUnder(meter) /\ UNCHANGED coreError
     \/ coreError' = TRUE /\ UNCHANGED detail
  /\ UNCHANGED <<meter, consumerTab, state, partsOut, opens>>

\* mergePart, or the answer itself when nothing is there.
LaidOver(r) ==
  IF detail = NoDetail THEN [meter |-> r.meter, parts |-> {r.part}]
  ELSE [detail EXCEPT !.parts = @ \cup {r.part}]

StillOpen(r) == r.meter = meter

PartArrives(r) ==
  /\ partsOut' = partsOut \ {r}
  /\ IF ~StillOpen(r) THEN UNCHANGED <<detail, state>>
     ELSE \/ detail' = LaidOver(r) /\ state' = [state EXCEPT ![r.part] = "done"]
          \/ state' = [state EXCEPT ![r.part] = "error"] /\ UNCHANGED detail
  /\ UNCHANGED <<meter, consumerTab, coreError, coreOut, opens>>

DrawerNext ==
  \/ \E m \in Meter : OpenMeter(m)
  \/ OpenTab
  \/ \E p \in Part : RetryDetail(p)
  \/ CoreArrives
  \/ \E r \in partsOut : PartArrives(r)

DrawerSpec == DrawerInit /\ [][DrawerNext]_drawerVars

-----------------------------------------------------------------------------
\* MeterHistoryDrawer.tsx:117 and 203: what the drawer shows is of the meter that is
\* open, a part it says is there is there, and once the database answer has ended
\* without an error something is shown, in whatever order the answers came.
WholeDetail ==
  /\ detail # NoDetail => detail.meter = meter
  /\ \A p \in Part : state[p] = "done" => detail # NoDetail /\ p \in detail.parts
  /\ ~coreOut /\ ~coreError => detail # NoDetail
=============================================================================
