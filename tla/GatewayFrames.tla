----------------------------- MODULE GatewayFrames -----------------------------
(***************************************************************************)
(* The Latest Frames tab of a gateway (GatewayFramesPanel.tsx) over        *)
(* framesPage of the server: newest first, a page at a time, while frames  *)
(* keep arriving.  The list follows the page's refresh; what is new slides *)
(* in on top, or waits for a click while the user is busy with the rows.   *)
(*                                                                         *)
(* A frame is its number in the order of arrival; each scope (a gateway    *)
(* and a window) has frames of its own.  A request takes the place of the  *)
(* one before it, which is aborted, so one at most is on its way.          *)
(***************************************************************************)
EXTENDS PagedList

CONSTANTS
  Scope,
  PageSize,
  MaxHeard,     \* bound: frames of a scope
  MaxAskings   \* bound: requests of one panel

ASSUME FramesAssumption == PageSize \in Nat

NoRequest == [mode |-> "none", offset |-> 0]

VARIABLES
  heard,      \* how many frames of each scope the server has stored
  scope,
  frames, pendingFrames, total,
  request,
  busy,       \* hovering, scrolled away, focused on a row, or inspecting one
  requests    \* how many requests were sent

framesVars == <<heard, scope, frames, pendingFrames, total, request, busy, requests>>

\* framesPage: ORDER BY decoded_at DESC, LIMIT and OFFSET.
PageAt(offset) ==
  LET left == heard[scope] - offset
  IN [i \in 1..(IF left < PageSize THEN left ELSE PageSize) |-> left - i + 1]

FramesInit ==
  /\ heard \in [Scope -> 0..2]
  /\ scope \in Scope
  /\ frames = <<>> /\ pendingFrames = <<>> /\ total = 0
  /\ request = [mode |-> "replace", offset |-> 0]
  /\ busy = FALSE
  /\ requests = 1

Ask(offset, mode) ==
  /\ requests < MaxAskings
  /\ requests' = requests + 1
  /\ request' = [mode |-> mode, offset |-> offset]

\* A new gateway or window starts clean.
NewScope(s) ==
  /\ s # scope
  /\ scope' = s
  /\ frames' = <<>> /\ pendingFrames' = <<>> /\ total' = 0
  /\ Ask(0, "replace")
  /\ UNCHANGED <<heard, busy>>

\* The page has refreshed its summary.
RefreshToken ==
  /\ Ask(0, "refresh")
  /\ UNCHANGED <<heard, scope, frames, pendingFrames, total, busy>>

LoadMore ==
  /\ Len(frames) < total
  /\ frames = <<>> => request = NoRequest
  /\ Ask(Len(frames), "append")
  /\ UNCHANGED <<heard, scope, frames, pendingFrames, total, busy>>

NotIn(rows, shown) == RowsAt(rows, {i \in DOMAIN rows : \A j \in DOMAIN shown : shown[j] # rows[i]})

Fresh == NotIn(PageAt(0), frames)

\* What a refresh does with the rows: new ones wait, or slide in on top.
HoldBack == frames' = frames /\ pendingFrames' = Fresh
SlideIn == frames' = Fresh \o frames /\ pendingFrames' = <<>>

\* Mutant: a refresh shows the newest page as it is.
Reloaded == frames' = PageAt(0) /\ pendingFrames' = <<>>

Refreshed == IF busy THEN HoldBack ELSE SlideIn

FramesArrive ==
  /\ request # NoRequest
  /\ request' = NoRequest
  /\ total' = IF PageAt(request.offset) = <<>> THEN 0 ELSE heard[scope]
  /\ CASE request.mode = "replace" -> frames' = PageAt(0) /\ pendingFrames' = <<>>
       [] request.mode = "append" -> frames' = frames \o PageAt(request.offset) /\ UNCHANGED pendingFrames
       [] request.mode = "refresh" -> Refreshed
  /\ UNCHANGED <<heard, scope, busy, requests>>

FramesFail ==
  /\ request # NoRequest
  /\ request' = NoRequest
  /\ UNCHANGED <<heard, scope, frames, pendingFrames, total, busy, requests>>

\* The banner's button.
ShowPending ==
  /\ pendingFrames # <<>>
  /\ frames' = NotIn(pendingFrames, frames) \o frames
  /\ pendingFrames' = <<>>
  /\ UNCHANGED <<heard, scope, total, request, busy, requests>>

Touch ==
  /\ busy' = ~busy
  /\ UNCHANGED <<heard, scope, frames, pendingFrames, total, request, requests>>

HearFrame ==
  /\ heard[scope] < MaxHeard
  /\ heard' = [heard EXCEPT ![scope] = @ + 1]
  /\ UNCHANGED <<scope, frames, pendingFrames, total, request, busy, requests>>

FramesNext ==
  \/ HearFrame \/ Touch \/ ShowPending
  \/ RefreshToken \/ LoadMore
  \/ FramesArrive \/ FramesFail
  \/ \E s \in Scope : NewScope(s)

-----------------------------------------------------------------------------
\* GatewayFramesPanel.tsx:25 ("never moves rows under the user"): within one scope
\* no row is taken away or moved against the others; rows are added below, or on
\* top, and on top of a busy user's rows only by the click that asks for it.
KeptBy(more) ==
  /\ Len(frames) <= Len(frames')
  /\ \A i \in DOMAIN frames : frames'[more + i] = frames[i]
RowsStay ==
  [][scope' = scope =>
       \/ KeptBy(0)
       \/ KeptBy(Len(frames') - Len(frames)) /\ (busy => ShowPending)]_framesVars
=============================================================================
