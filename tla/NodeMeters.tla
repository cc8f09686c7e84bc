------------------------------ MODULE NodeMeters ------------------------------
(***************************************************************************)
(* useNodeMeters: the page of meters below a leaf of the Dashboard, in the *)
(* order and with the filter chosen, over a server that answers with the   *)
(* first page when the page asked for no longer exists.                    *)
(*                                                                         *)
(* What is asked for is a node, a filter (search and status), an order and *)
(* a page.  Only the answer of the newest request counts; a silent reload  *)
(* is a newest request too, but touches neither the loader nor the error.  *)
(***************************************************************************)
EXTENDS Naturals

CONSTANTS
  LeafNode, NoNode,
  Filter, Order,
  MaxPage,       \* bound: the last page of the longest list
  MaxSeq    \* bound: requests of one hook

ASSUME NodeMetersAssumption == NoNode \notin LeafNode /\ MaxPage \in Nat

Page == 0..MaxPage
Asks == [node : LeafNode \cup {NoNode}, filter : Filter, order : Order, page : Page]

VARIABLES
  asking,       \* what the hook's state asks for
  rows,         \* what the rows on screen were the answer to, or NoMeterRows
  metersLoading, error,
  seq,          \* the number of the newest request
  inFlight      \* the requests on their way

metersVars == <<asking, rows, metersLoading, error, seq, inFlight>>

NoMeterRows == [node |-> NoNode]

\* load: without a node nothing is asked, and the number stays.
LoadRows(a, silent) ==
  IF a.node = NoNode
    THEN /\ rows' = NoMeterRows
         /\ metersLoading' = FALSE
         /\ UNCHANGED <<error, seq, inFlight>>
    ELSE /\ seq < MaxSeq
         /\ seq' = seq + 1
         /\ inFlight' = inFlight \cup {[id |-> seq', for |-> a, silent |-> silent]}
         /\ metersLoading' = (metersLoading \/ ~silent)
         /\ error' = (error /\ silent)
         /\ UNCHANGED rows

MetersInit ==
  /\ \E n \in LeafNode, f \in Filter, o \in Order :
       asking = [node |-> n, filter |-> f, order |-> o, page |-> 0]
  /\ rows = NoMeterRows
  /\ metersLoading = TRUE
  /\ error = FALSE
  /\ seq = 1
  /\ inFlight = {[id |-> 1, for |-> asking, silent |-> FALSE]}

\* Another node or filter asks at once, still for the page it was on, and again
\* when the page has gone back to the first.
Choose(a) ==
  /\ a.page = 0 /\ a.order = asking.order
  /\ <<a.node, a.filter>> # <<asking.node, asking.filter>>
  /\ asking' = a
  /\ IF a.node = NoNode \/ asking.page = 0
       THEN LoadRows(a, FALSE)
       ELSE /\ seq + 2 <= MaxSeq
            /\ seq' = seq + 2
            /\ inFlight' = inFlight \cup
                 {[id |-> seq + 1, for |-> [a EXCEPT !.page = asking.page], silent |-> FALSE],
                  [id |-> seq + 2, for |-> a, silent |-> FALSE]}
            /\ metersLoading' = TRUE
            /\ error' = FALSE
            /\ UNCHANGED rows

ToggleSort(o) ==
  /\ o # asking.order
  /\ asking' = [asking EXCEPT !.order = o, !.page = 0]
  /\ LoadRows(asking', FALSE)

SetPage(p) ==
  /\ asking.node # NoNode /\ p # asking.page
  /\ asking' = [asking EXCEPT !.page = p]
  /\ LoadRows(asking', FALSE)

\* refetch, and a data update (version).
Reask(silent) == LoadRows(asking, silent) /\ UNCHANGED asking

\* Mutant: an earlier answer counts when it is for the node on screen.
OfThisNode(r) == r.for.node = asking.node

NewestAsk(r) == r.id = seq

Ends(r) == metersLoading' = (metersLoading /\ (r.silent \/ ~NewestAsk(r)))

\* The page that was asked for, or the first when it is gone; in that case the
\* hook's page follows, and a changed page loads.
RowsArrive(r, page) ==
  /\ page \in {r.for.page, 0}
  /\ IF ~NewestAsk(r)
       THEN inFlight' = inFlight \ {r} /\ UNCHANGED <<asking, rows, metersLoading, error, seq>>
       ELSE /\ rows' = [r.for EXCEPT !.page = page]
            /\ IF page = r.for.page \/ asking.node = NoNode
                 THEN /\ inFlight' = inFlight \ {r}
                      /\ Ends(r)
                      /\ UNCHANGED <<asking, error, seq>>
                 ELSE /\ seq < MaxSeq
                      /\ asking' = [asking EXCEPT !.page = page]
                      /\ seq' = seq + 1
                      /\ inFlight' = (inFlight \ {r}) \cup
                           {[id |-> seq', for |-> asking', silent |-> FALSE]}
                      /\ metersLoading' = TRUE
                      /\ error' = FALSE

RowsFail(r) ==
  /\ inFlight' = inFlight \ {r}
  /\ error' = (error \/ (NewestAsk(r) /\ ~r.silent))
  /\ Ends(r)
  /\ UNCHANGED <<asking, rows, seq>>

MetersNext ==
  \/ \E a \in Asks : Choose(a)
  \/ \E o \in Order : ToggleSort(o)
  \/ \E p \in Page : SetPage(p)
  \/ \E silent \in BOOLEAN : Reask(silent)
  \/ \E r \in inFlight : RowsFail(r) \/ \E p \in Page : RowsArrive(r, p)

MetersSpec == MetersInit /\ [][MetersNext]_metersVars

-----------------------------------------------------------------------------
\* useNodeMeters.ts:10 ("a slow answer never replaces a newer one"): when nothing
\* is loading and no error is told, the rows are those of the node, filter, order
\* and page chosen, whatever was clicked while they were on their way.
RowsForAsked ==
  asking.node # NoNode /\ ~metersLoading /\ ~error => rows = asking
=============================================================================
