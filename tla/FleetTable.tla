----------------------------- MODULE FleetTable ------------------------------
(***************************************************************************)
(* The meters of the fleet in the Command Center (FleetMetersTable.tsx):   *)
(* one list, read from listFleetMeters a page at a time, the meter heard   *)
(* last first.  The page hands it the window in an object that it makes    *)
(* anew whenever it renders (CommandCenterPage.tsx:167); the list starts   *)
(* again for every new object, even one that says the same.                *)
(*                                                                         *)
(* A request takes the place of the one before, which is aborted.  The     *)
(* status stands for the data rate, the frequency and the confirmed flag   *)
(* too, which are filters of the same kind.                                *)
(***************************************************************************)
EXTENDS PagedList

CONSTANTS
  FleetMeters,   \* id, hits (what is typed finds it), status, windows
  FleetWindow, FleetText, FleetStatus,
  FleetSize,     \* PAGE_SIZE
  NoFleetAsk,
  MaxFleetPresses, MaxFleetRenders, MaxFleetFrames

\* What can be asked for.
FleetQuery == [window : FleetWindow, text : FleetText, status : FleetStatus]

ASSUME FleetAssumption ==
  /\ "" \in FleetText /\ "ALL" \in FleetStatus /\ FleetSize \in Nat \ {0}
  /\ FleetWindow # {} /\ NoFleetAsk \notin [of : FleetQuery, offset : Nat, silent : BOOLEAN]
  /\ FleetMeters \in Seq(Members(FleetMeters))

VARIABLES
  fleetOrder,  \* the meters by their latest frame, newest first
  fleet,       \* what is asked for: window, input, its pause, text, status
  fleetList,   \* what is on screen
  fleetAsk,    \* the request on its way
  fleetBound   \* presses, renders of the page, frames

fleetVars == <<fleetOrder, fleet, fleetList, fleetAsk, fleetBound>>

\* COUNT(*) OVER(): a page without rows has no total.
FleetMatches(m, q) ==
  /\ q.window \in m.windows
  /\ q.text = "" \/ q.text \in m.hits
  /\ q.status \in {"ALL", m.status}
FleetPage(q, offset) ==
  LET found == RowsAt(fleetOrder, {k \in DOMAIN fleetOrder : FleetMatches(FleetMeters[fleetOrder[k]], q)})
      items == Slice(found, offset, FleetSize)
  IN [items |-> items, total |-> IF items = <<>> THEN 0 ELSE Len(found)]

\* Mutant: the status is no reason to read again.
ReadForText(f) == [window |-> f.window, text |-> f.text, status |-> "ALL"]
ReadFor(f) == [window |-> f.window, text |-> f.text, status |-> f.status]
AskedOfFleet(f) == [window |-> f.window, text |-> f.text, status |-> f.status]

FleetInit ==
  /\ fleetOrder = [i \in DOMAIN FleetMeters |-> i]
  /\ fleet = [window |-> CHOOSE w \in FleetWindow : TRUE, input |-> "", pause |-> FALSE,
              text |-> "", status |-> "ALL"]
  /\ fleetList = [items |-> <<>>, total |-> 0, loading |-> TRUE, error |-> FALSE]
  /\ fleetAsk = [of |-> AskedOfFleet(fleet), offset |-> 0, silent |-> FALSE]
  /\ fleetBound = [presses |-> 0, renders |-> 0, frames |-> 0]

\* A fresh list.
StartsAgain(f, silent) ==
  /\ fleet' = f
  /\ fleetList' = [items |-> <<>>, total |-> 0, loading |-> TRUE, error |-> FALSE]
  /\ fleetAsk' = [of |-> AskedOfFleet(f), offset |-> 0, silent |-> silent]

Controls(f) ==
  IF ReadFor(f) = ReadFor(fleet) THEN fleet' = f /\ UNCHANGED <<fleetList, fleetAsk>>
  ELSE StartsAgain(f, FALSE)

FleetPress(f) ==
  /\ fleetBound.presses < MaxFleetPresses
  /\ fleetBound' = [fleetBound EXCEPT !.presses = @ + 1]
  /\ f # fleet
  /\ Controls(f)
  /\ UNCHANGED fleetOrder

FleetWindowChosen(w) == FleetPress([fleet EXCEPT !.window = w])
FleetStatusChosen(s) == FleetPress([fleet EXCEPT !.status = s])
TypeInFleet(t) == FleetPress([fleet EXCEPT !.input = t, !.pause = TRUE])
FleetPauseEnds ==
  /\ fleet.pause
  /\ Controls([fleet EXCEPT !.pause = FALSE, !.text = fleet.input])
  /\ UNCHANGED <<fleetOrder, fleetBound>>

Rendered ==
  /\ fleetBound.renders < MaxFleetRenders
  /\ fleetBound' = [fleetBound EXCEPT !.renders = @ + 1]
  /\ UNCHANGED fleetOrder

\* A meter is selected, a search typed, a refresh sent: the page renders.
PageRenders == Rendered /\ StartsAgain(fleet, FALSE)

\* Its numbers are new: the first page is read once more, quietly, over the load above.
PageRefreshed == Rendered /\ StartsAgain(fleet, Len(fleetList.items) <= FleetSize)

LoadMoreMeters ==
  /\ Len(fleetList.items) < fleetList.total /\ ~fleetList.loading
  /\ fleetList' = [fleetList EXCEPT !.loading = TRUE, !.error = FALSE]
  /\ fleetAsk' = [of |-> AskedOfFleet(fleet), offset |-> Len(fleetList.items), silent |-> FALSE]
  /\ UNCHANGED <<fleetOrder, fleet, fleetBound>>

\* Mutant: the rows of a further page are added as they are.
AllOf(items) == items
\* New frames shift the order between two pages: what is listed is not listed again.
NewOf(items) == RowsAt(items, {k \in DOMAIN items : items[k] \notin Members(fleetList.items)})

FleetArrives ==
  /\ fleetAsk # NoFleetAsk
  /\ fleetAsk' = NoFleetAsk
  /\ LET page == FleetPage(fleetAsk.of, fleetAsk.offset)
     IN fleetList' = [fleetList EXCEPT
          !.items = IF fleetAsk.offset = 0 THEN page.items ELSE @ \o NewOf(page.items),
          !.total = page.total, !.loading = FALSE]
  /\ UNCHANGED <<fleetOrder, fleet, fleetBound>>

\* A quiet load does not tell that it failed.
FleetFails ==
  /\ fleetAsk # NoFleetAsk
  /\ fleetAsk' = NoFleetAsk
  /\ fleetList' = [fleetList EXCEPT !.error = ~fleetAsk.silent, !.loading = FALSE]
  /\ UNCHANGED <<fleetOrder, fleet, fleetBound>>

MeterHeard(k) ==
  /\ fleetBound.frames < MaxFleetFrames
  /\ fleetBound' = [fleetBound EXCEPT !.frames = @ + 1]
  /\ fleetOrder' = <<fleetOrder[k]>> \o RowsAt(fleetOrder, DOMAIN fleetOrder \ {k})
  /\ UNCHANGED <<fleet, fleetList, fleetAsk>>

FleetTableNext ==
  \/ \E w \in FleetWindow : FleetWindowChosen(w)
  \/ \E s \in FleetStatus : FleetStatusChosen(s)
  \/ \E t \in FleetText : TypeInFleet(t)
  \/ FleetPauseEnds
  \/ PageRenders \/ PageRefreshed
  \/ LoadMoreMeters \/ FleetArrives \/ FleetFails
  \/ \E k \in DOMAIN fleetOrder : MeterHeard(k)

FleetTableSpec == FleetInit /\ [][FleetTableNext]_fleetVars

-----------------------------------------------------------------------------
\* FleetMetersTable.tsx:51 and 75: at rest the list holds meters of the window, the
\* text and the status that are chosen now, and none of them twice, however the order
\* has shifted between its pages; while it says it is loading, the request that will
\* end that is for what is chosen now.
FleetForAsked ==
  /\ ~fleetList.loading =>
       \A i \in Members(fleetList.items) : FleetMatches(FleetMeters[i], AskedOfFleet(fleet))
  /\ Cardinality(Members(fleetList.items)) = Len(fleetList.items)
  /\ fleetList.loading <=> fleetAsk # NoFleetAsk
  /\ fleetList.loading => fleetAsk.of = AskedOfFleet(fleet)

\* FleetMetersTable.tsx:98: "reload the first page in place (not when the user has
\* paged deeper, so the list never jumps under them)".  While the same list is looked
\* at, the rows that were loaded beyond the first page stay.
FleetListStays ==
  [][AskedOfFleet(fleet') = AskedOfFleet(fleet) /\ Len(fleetList.items) > FleetSize
       => Len(fleetList'.items) >= Len(fleetList.items)]_fleetVars
=============================================================================
