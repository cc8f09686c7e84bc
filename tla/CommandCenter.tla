---------------------------- MODULE CommandCenter ----------------------------
(***************************************************************************)
(* The Command Center (CommandCenterPage.tsx): its summary for the chosen  *)
(* window and site, read through a cache that all accounts share           *)
(* (telemetryDbService.ts) and saved in the browser, and the meters of the *)
(* selected gateway, a page at a time.                                     *)
(*                                                                         *)
(* A frame is a number of CenterFrames, in the order they are stored.  The *)
(* tab, the mode and the frames of one meter only choose which of it is    *)
(* drawn and are left out; one day of the site is followed, and two custom *)
(* ranges are two windows.                                                 *)
(***************************************************************************)
EXTENDS PagedList

CONSTANTS
  CenterWindow,
  PlainWindow,    \* those without a range: saved in the browser
  CenterSite,
  SitesOf,        \* of each account, the sites each choice covers
  CenterFrames,   \* meter, site, gateway, within (the windows), recent
  CenterText,     \* what can be typed: long, gateways, meters, exact
  CenterLink,     \* gateways the page is opened with
  MeterFilter, RosterSize,
  NoSummary, NoOne,
  MaxCenterPresses, MaxCenterLoads, MaxOthers, MaxLeft

ASSUME CenterAssumption ==
  /\ {"30D", "7D"} \subseteq PlainWindow /\ PlainWindow \subseteq CenterWindow
  /\ "ALL" \in CenterSite /\ "ALL" \in MeterFilter /\ RosterSize \in Nat \ {0}

VARIABLES
  stored,     \* how many frames the server has
  kept,       \* telemetry_aggregation_cache: [key, summary, fresh]
  saved,      \* the browser's copies, for a window and a site
  desk,       \* the controls, the selected gateway, in a sequence, and meter, the search and its pause
  board,      \* the summary on screen and what is said of it
  numberAsks,      \* the summaries asked for
  roster,     \* the meters of the gateway on screen
  rosterAsks, \* the requests for them
  named,    \* the meters looked up
  rosterTour, \* ghost: the pages of this list that were shown
  center      \* presses, stamps, looks of others, times the page was left

centerVars ==
  <<stored, kept, saved, desk, board, numberAsks, roster, rosterAsks, named, rosterTour, center>>

-----------------------------------------------------------------------------
(* The server.                                                             *)

Mine(site) == SitesOf["me"][site]
FramesOf(sites, w) ==
  {i \in 1..stored : CenterFrames[i].site \in sites /\ w \in CenterFrames[i].within}

\* Mutant: the key is the filter the caller typed.
TypedKey(who, w, site) == <<w, site>>
\* What the row of the cache stands for: the sites that are covered, not the choice.
SummaryKey(who, w, site) == <<w, SitesOf[who][site]>>

\* ORDER BY, where First(x, y) decides and ties are impossible.
Ordered(S, First(_, _)) ==
  [k \in 1..Cardinality(S) |-> CHOOSE x \in S : Cardinality({y \in S \ {x} : First(y, x)}) = k - 1]

\* Gateways heard in any window are known; those that heard more come first.
GatewaysHeard(sites, w) ==
  LET known == {CenterFrames[i].gateway : i \in {j \in 1..stored : CenterFrames[j].site \in sites}}
      heard(g) == {i \in FramesOf(sites, w) : CenterFrames[i].gateway = g}
      meters(g) == Cardinality({CenterFrames[i].meter : i \in heard(g)})
  IN Ordered(known, LAMBDA g, h : \/ meters(g) > meters(h)
                                  \/ /\ meters(g) = meters(h)
                                     /\ \/ Cardinality(heard(g)) > Cardinality(heard(h))
                                        \/ Cardinality(heard(g)) = Cardinality(heard(h)) /\ g < h)

Computed(who, w, site, stamp) ==
  [window |-> w, covers |-> SitesOf[who][site],
   gateways |-> GatewaysHeard(SitesOf[who][site], w), stamp |-> stamp]

FreshRow(key) == {r \in kept : r.key = key /\ r.fresh}
Upsert(key, s) == {r \in kept : r.key # key} \cup {[key |-> key, summary |-> s, fresh |-> TRUE]}

\* A meter's newest frame that the gateway got, newest first.
MetersHeard(q) ==
  LET mine == {i \in FramesOf(Mine(q.site), q.window) : <<CenterFrames[i].gateway>> = q.gateway}
      last == {i \in mine : \A j \in mine : CenterFrames[j].meter = CenterFrames[i].meter => j <= i}
      hit == {i \in last : q.filter \in {"ALL", IF CenterFrames[i].recent THEN "CONNECTED"
                                                ELSE "DISCONNECTED"}}
  IN [k \in 1..Cardinality(hit) |-> CenterFrames[Ordered(hit, >)[k]].meter]

\* Mutant: the pages are counted from 1.
SecondRows(found, page) == Chunk(found, page + 1, RosterSize)
RosterRows(found, page) == Chunk(found, page, RosterSize)

\* The total stands in every row of the page: a page without rows has none.
RosterPage(q) ==
  LET found == MetersHeard(q)
      rows == RosterRows(found, q.page)
      total == IF rows = <<>> THEN 0 ELSE Len(found)
  IN [of |-> q, rows |-> rows, total |-> total, pages |-> PageCount(total, RosterSize)]

\* The meter whose frame is the newest, one of exactly that name before the others.
MetersLike(text, q) ==
  LET hit == {i \in FramesOf(Mine(q.site), q.window) : CenterFrames[i].meter \in text.meters}
      best == IF \E i \in hit : CenterFrames[i].meter = text.exact
              THEN {i \in hit : CenterFrames[i].meter = text.exact} ELSE hit
  IN {CenterFrames[i] : i \in {j \in best : \A k \in best : k <= j}}

-----------------------------------------------------------------------------
(* The page.                                                               *)

NoGateway == <<>>
NoText == [long |-> FALSE, gateways |-> {}, meters |-> {}, exact |-> NoOne]
EmptyRoster(q) == [of |-> q, rows |-> <<>>, total |-> 0, pages |-> 0]

Window(d) == [window |-> d.window, site |-> d.site]
ListOf(d) == [gateway |-> d.gateway, filter |-> d.filter, window |-> d.window, site |-> d.site]
RosterQuery(d) ==
  [gateway |-> d.gateway, filter |-> d.filter, window |-> d.window, site |-> d.site, page |-> d.page]
CurrentGateways(b) == IF b.shown = NoSummary THEN <<>> ELSE b.shown.gateways
StampOf(b) == IF b.shown = NoSummary THEN 0 ELSE b.shown.stamp

FoundGateways(text, b) ==
  {i \in DOMAIN CurrentGateways(b) : CurrentGateways(b)[i] \in text.gateways}
Ranked(text, b) == text.long /\ FoundGateways(text, b) = {}

\* A gateway is selected as soon as one is known.
FirstSelected(d, b) ==
  IF d.gateway = NoGateway /\ CurrentGateways(b) # <<>>
  THEN [d EXCEPT !.gateway = <<CurrentGateways(b)[1]>>] ELSE d

\* A different gateway, filter, window or site starts again at the first page.
PageReset(d) == IF ListOf(d) # ListOf(desk) THEN [d EXCEPT !.page = 0] ELSE d

\* Mutant: the request of an earlier gateway or page may still answer.
StillAsked == rosterAsks
GivenUp == {[r EXCEPT !.live = FALSE] : r \in rosterAsks}

\* The effects of a render: other numbers, or the same ones again, restart the pause
\* of the search; the meters are read for other controls and for a new stamp.
Renders(d, b, answered, reload) ==
  LET sel == FirstSelected(d, b)
      left == d.gateway = NoGateway /\ desk.gateway # NoGateway
      next == IF left THEN [sel EXCEPT !.page = 0] ELSE PageReset(sel)
      restarts == answered \/ next.text # desk.text \/ Window(next) # Window(desk)
      reads == reload \/ left \/ RosterQuery(next) # RosterQuery(desk) \/ StampOf(b) # StampOf(board)
  IN /\ desk' = IF restarts THEN [next EXCEPT !.pause = Ranked(next.text, b)] ELSE next
     /\ board' = b
     /\ CASE ~reads -> UNCHANGED <<roster, rosterAsks>>
          [] reads /\ next.gateway = NoGateway ->
               /\ roster' = [roster EXCEPT !.data = EmptyRoster(RosterQuery(next))]
               /\ rosterAsks' = GivenUp
          [] OTHER ->
               /\ roster' = [data |-> IF left THEN EmptyRoster(RosterQuery(next)) ELSE roster.data,
                             loading |-> TRUE, error |-> FALSE]
               /\ rosterAsks' = GivenUp \cup {[of |-> RosterQuery(next), live |-> TRUE]}

NewLoad(d, id) == [id |-> id, window |-> d.window, site |-> d.site, at |-> "sent", data |-> NoSummary]

\* Mutant: a change is loaded as quietly as a refresh.
AsksQuietly(b, changed) == [b EXCEPT !.newest = @ + 1, !.syncing = TRUE]

\* loadSummary: the newest request is the one that counts.
SummaryAsked(b, changed) ==
  [b EXCEPT !.newest = @ + 1, !.syncing = TRUE, !.filtering = @ \/ changed]

-----------------------------------------------------------------------------
FirstDesk(g) ==
  [window |-> "30D", site |-> "ALL", gateway |-> g, filter |-> "ALL", page |-> 0,
   meter |-> NoOne, text |-> NoText, pause |-> FALSE]
\* First paint: the copy of seven days, whatever the window.
FirstBoard(copies) ==
  [shown |-> copies[<<"7D", "ALL">>], newest |-> 1, syncing |-> TRUE, filtering |-> TRUE, failed |-> FALSE]
FirstRoster(d) ==
  IF d.gateway = NoGateway
  THEN [data |-> EmptyRoster(RosterQuery(d)), loading |-> FALSE, error |-> FALSE]
  ELSE [data |-> EmptyRoster(RosterQuery(d)), loading |-> TRUE, error |-> FALSE]
FirstAsks(d) ==
  IF d.gateway = NoGateway THEN {} ELSE {[of |-> RosterQuery(d), live |-> TRUE]}

CenterInit ==
  /\ stored = 1
  /\ kept = {}
  /\ saved = [x \in PlainWindow \X CenterSite |-> NoSummary]
  /\ \E g \in CenterLink : desk = FirstDesk(g)
  /\ board = FirstBoard(saved)
  /\ numberAsks = {NewLoad(desk, 1)}
  /\ roster = FirstRoster(desk) /\ rosterAsks = FirstAsks(desk)
  /\ named = {}
  /\ rosterTour = [list |-> NoGateway, pages |-> {}, rows |-> {}]
  /\ center = [presses |-> 0, stamps |-> 0, others |-> 0, left |-> 0]

\* Leaving the page and coming back: what was asked for is answered to nobody.
ComesBack(g) ==
  /\ center.left < MaxLeft
  /\ center' = [center EXCEPT !.left = @ + 1]
  /\ LET b == FirstBoard(saved)
         d == FirstSelected(FirstDesk(g), b)
     IN /\ desk' = d /\ board' = b
        /\ numberAsks' = {[r EXCEPT !.id = 0] : r \in numberAsks} \cup {NewLoad(d, 1)}
        /\ roster' = FirstRoster(d) /\ rosterAsks' = GivenUp \cup FirstAsks(d)
  /\ named' = {}
  /\ UNCHANGED <<stored, kept, saved, rosterTour>>

CenterPress ==
  /\ center.presses < MaxCenterPresses
  /\ center' = [center EXCEPT !.presses = @ + 1]

\* A window or a site: the numbers of the one before are dimmed until these are there.
Filters(d) ==
  /\ Window(d) # Window(desk)
  /\ board.newest < MaxCenterLoads
  /\ CenterPress
  /\ Renders(d, SummaryAsked(board, TRUE), FALSE, FALSE)
  /\ numberAsks' = numberAsks \cup {NewLoad(d, board.newest + 1)}
  /\ UNCHANGED <<stored, kept, saved, named, rosterTour>>

ChooseWindow(w) == Filters([desk EXCEPT !.window = w])
ChooseCenterSite(s) == Filters([desk EXCEPT !.site = s])

Presses(d, reload) ==
  /\ CenterPress
  /\ Renders(d, board, FALSE, reload)
  /\ UNCHANGED <<stored, kept, saved, numberAsks, named, rosterTour>>

\* The rail: the selected gateway is given up, another is selected.
ClickGateway(i) ==
  LET g == <<CurrentGateways(board)[i]>>
  IN Presses([desk EXCEPT !.gateway = IF @ = g THEN NoGateway ELSE g], FALSE)
FollowLink(g) == g # NoGateway /\ Presses([desk EXCEPT !.gateway = g], FALSE)
FilterMeters(f) == f # desk.filter /\ Presses([desk EXCEPT !.filter = f], FALSE)
NextMeters == desk.page + 1 < roster.data.pages /\ Presses([desk EXCEPT !.page = @ + 1], FALSE)
PreviousMeters == desk.page > 0 /\ Presses([desk EXCEPT !.page = @ - 1], FALSE)
RetryMeters == roster.error /\ Presses(desk, TRUE)
ClickMeter(i) == Presses([desk EXCEPT !.meter = roster.data.rows[i]], FALSE)
CloseInspector == desk.meter # NoOne /\ Presses([desk EXCEPT !.meter = NoOne], FALSE)

\* A gateway matches at once; a meter is looked up when the pause is over.
Types(text) ==
  /\ text # desk.text
  /\ LET found == FoundGateways(text, board)
         first == CHOOSE i \in found : \A j \in found : i <= j
         d == [desk EXCEPT !.text = text]
     IN Presses(IF found = {} THEN d ELSE [d EXCEPT !.gateway = <<CurrentGateways(board)[first]>>],
                FALSE)

\* A meter that is named in a frame, or in the address.
NameMeter(m, how) ==
  /\ CenterPress
  /\ named' = {l \in named : how = "link" => l.how # "link"} \cup
                  {[text |-> [NoText EXCEPT !.meters = {m}], of |-> Window(desk), how |-> how]}
  /\ UNCHANGED <<stored, kept, saved, desk, board, numberAsks, roster, rosterAsks, rosterTour>>

CenterPauseEnds ==
  /\ desk.pause
  /\ desk' = [desk EXCEPT !.pause = FALSE]
  /\ named' = named \cup {[text |-> desk.text, of |-> Window(desk), how |-> "search"]}
  /\ UNCHANGED <<stored, kept, saved, board, numberAsks, roster, rosterAsks, center, rosterTour>>

\* The answers come in any order; what is found in a frame keeps the gateway.
NamedFound(l) ==
  /\ named' = named \ {l}
  /\ \/ \E f \in MetersLike(l.text, l.of) :
          Renders([desk EXCEPT !.meter = f.meter,
                               !.gateway = IF l.how = "frame" THEN @ ELSE <<f.gateway>>], board, FALSE, FALSE)
     \/ \* nothing of that name, or no answer
        UNCHANGED <<desk, board, roster, rosterAsks>>
  /\ UNCHANGED <<stored, kept, saved, numberAsks, center, rosterTour>>

\* The 45 seconds are over while the tab is on screen.
CenterRefresh ==
  /\ board.newest < MaxCenterLoads
  /\ board' = SummaryAsked(board, FALSE)
  /\ numberAsks' = numberAsks \cup {NewLoad(desk, board.newest + 1)}
  /\ UNCHANGED <<stored, kept, saved, desk, roster, rosterAsks, named, center, rosterTour>>

\* The server looks into its cache, or at the frames it has now.
ServerReads(r) ==
  /\ r.at = "sent"
  /\ LET row == FreshRow(SummaryKey("me", r.window, r.site))
     IN IF row # {}
        THEN /\ \E k \in row :
                  numberAsks' = (numberAsks \ {r}) \cup {[r EXCEPT !.at = "ready", !.data = k.summary]}
             /\ UNCHANGED center
        ELSE /\ numberAsks' = (numberAsks \ {r}) \cup
                  {[r EXCEPT !.at = "working",
                             !.data = Computed("me", r.window, r.site, center.stamps + 1)]}
             /\ center' = [center EXCEPT !.stamps = @ + 1]
  /\ UNCHANGED <<stored, kept, saved, desk, board, roster, rosterAsks, named, rosterTour>>

ServerKeeps(r) ==
  /\ r.at = "working"
  /\ kept' = Upsert(SummaryKey("me", r.window, r.site), r.data)
  /\ numberAsks' = (numberAsks \ {r}) \cup {[r EXCEPT !.at = "ready"]}
  /\ UNCHANGED <<stored, saved, desk, board, roster, rosterAsks, named, center, rosterTour>>

\* Mutant: any answer may set the state.
AnyAnswer(r) == r.id > 0
\* Only the newest request may set the state; every answer is saved.
IsNewest(r) == r.id = board.newest

SummaryArrives(r) ==
  /\ r.at = "ready"
  /\ numberAsks' = numberAsks \ {r}
  /\ saved' = IF r.window \in PlainWindow THEN [saved EXCEPT ![<<r.window, r.site>>] = r.data] ELSE saved
  /\ IF IsNewest(r)
     THEN Renders(desk, [board EXCEPT !.shown = r.data, !.failed = FALSE, !.syncing = FALSE,
                                      !.filtering = FALSE], TRUE, FALSE)
     ELSE UNCHANGED <<desk, board, roster, rosterAsks>>
  /\ UNCHANGED <<stored, kept, named, center, rosterTour>>

SummaryFails(r) ==
  /\ numberAsks' = numberAsks \ {r}
  /\ board' = IF IsNewest(r) THEN [board EXCEPT !.failed = TRUE, !.syncing = FALSE, !.filtering = FALSE]
              ELSE board
  /\ UNCHANGED <<stored, kept, saved, desk, roster, rosterAsks, named, center, rosterTour>>

SameRoster(data) == <<[data.of EXCEPT !.page = 0], stored>>

\* A list that has shrunk under the page goes to the last page that exists.
MetersArrive(r) ==
  LET data == RosterPage(r.of)
  IN /\ IF ~r.live
        THEN /\ rosterAsks' = rosterAsks \ {r}
             /\ UNCHANGED <<desk, board, roster, rosterTour>>
        ELSE IF data.pages > 0 /\ desk.page >= data.pages
             THEN /\ Renders([desk EXCEPT !.page = data.pages - 1], board, FALSE, FALSE)
                  /\ UNCHANGED rosterTour
             ELSE /\ roster' = [data |-> data, loading |-> FALSE, error |-> FALSE]
                  /\ rosterTour' = Seen(rosterTour, SameRoster(data), r.of.page, data.rows)
                  /\ rosterAsks' = rosterAsks \ {r}
                  /\ UNCHANGED <<desk, board>>
     /\ UNCHANGED <<stored, kept, saved, numberAsks, named, center>>

MetersFail(r) ==
  /\ rosterAsks' = rosterAsks \ {r}
  /\ roster' = IF r.live THEN [data |-> EmptyRoster(r.of), loading |-> FALSE, error |-> TRUE] ELSE roster
  /\ UNCHANGED <<stored, kept, saved, desk, board, numberAsks, named, center, rosterTour>>

\* Another account looks at a summary of its own sites.
OtherLooks(who, w, site) ==
  /\ center.others < MaxOthers
  /\ center' = [center EXCEPT !.others = @ + 1, !.stamps = @ + 1]
  /\ SitesOf[who][site] # {}
  /\ FreshRow(SummaryKey(who, w, site)) = {}
  /\ kept' = Upsert(SummaryKey(who, w, site), Computed(who, w, site, center.stamps + 1))
  /\ UNCHANGED <<stored, saved, desk, board, numberAsks, roster, rosterAsks, named, rosterTour>>

\* Two minutes later.
RowsAge ==
  /\ \E r \in kept : r.fresh
  /\ kept' = {[r EXCEPT !.fresh = FALSE] : r \in kept}
  /\ UNCHANGED <<stored, saved, desk, board, numberAsks, roster, rosterAsks, named, center, rosterTour>>

FrameStored ==
  /\ stored < Len(CenterFrames)
  /\ stored' = stored + 1
  /\ UNCHANGED <<kept, saved, desk, board, numberAsks, roster, rosterAsks, named, center, rosterTour>>

SummaryNext ==
  \/ \E w \in CenterWindow : ChooseWindow(w)
  \/ \E s \in CenterSite : ChooseCenterSite(s)
  \/ \E r \in numberAsks : ServerReads(r) \/ ServerKeeps(r) \/ SummaryArrives(r) \/ SummaryFails(r)
  \/ FrameStored

\* What happens to the numbers while the page stands.
NumbersNext ==
  \/ CenterRefresh
  \/ \E who \in DOMAIN SitesOf \ {"me"} : \E w \in CenterWindow, s \in CenterSite : OtherLooks(who, w, s)
  \/ RowsAge

ReturnNext == \E g \in CenterLink : ComesBack(g)

RosterNext ==
  \/ \E i \in DOMAIN CurrentGateways(board) : ClickGateway(i)
  \/ \E g \in CenterLink : FollowLink(g)
  \/ \E f \in MeterFilter : FilterMeters(f)
  \/ NextMeters \/ PreviousMeters \/ RetryMeters
  \/ \E i \in DOMAIN roster.data.rows : ClickMeter(i)
  \/ CloseInspector
  \/ \E r \in rosterAsks : MetersArrive(r) \/ MetersFail(r)

LookupNext ==
  \/ \E text \in CenterText : Types(text)
  \/ \E i \in 1..stored : \E how \in {"frame", "link"} : NameMeter(CenterFrames[i].meter, how)
  \/ CenterPauseEnds
  \/ \E l \in named : NamedFound(l)

CenterNext == SummaryNext \/ NumbersNext \/ ReturnNext \/ RosterNext \/ LookupNext

CenterSpec == CenterInit /\ [][CenterNext]_centerVars

-----------------------------------------------------------------------------
\* CommandCenterPage.tsx:113 and 118: numbers that are not of the chosen window and of
\* the sites it covers for this account are dimmed, or said to be old; what is dimmed
\* or syncing has the newest request on its way, which will end it.
NumbersTold ==
  /\ board.shown # NoSummary =>
       \/ board.shown.window = desk.window /\ board.shown.covers = Mine(desk.site)
       \/ board.filtering \/ board.failed
  /\ board.filtering => board.syncing
  /\ board.syncing => \E r \in numberAsks : r.id = board.newest

\* telemetryDbService.ts:347: whatever other accounts have asked for, and what is saved
\* in this browser, no numbers of other sites are shown, saved or on their way here.
NumbersOfReader ==
  LET own(s) == s = NoSummary \/ \E c \in CenterSite : s.covers = Mine(c)
  IN own(board.shown) /\ \A x \in DOMAIN saved : own(saved[x])
       /\ \A r \in numberAsks : own(r.data)

\* CommandCenterPage.tsx:252: the meters at rest are those of the selected gateway, the
\* filter, the window, the site and the page that is told; while they are loading, the
\* request that counts is for them.
RosterForAsked ==
  /\ ~roster.loading /\ ~roster.error => roster.data.of = RosterQuery(desk)
  /\ roster.loading => \E r \in rosterAsks : r.live /\ r.of = RosterQuery(desk)
  /\ \A r, s \in rosterAsks : r.live /\ s.live => r = s

\* telemetryDbService.ts:271: whoever has seen the pages of one list up to the one
\* where there is no next has seen every meter of it.  (An empty page that is not the
\* first is past the end and tells of no total.)
RosterPagesComplete ==
  LET d == roster.data
      found == MetersHeard(d.of)
  IN (~roster.loading /\ ~roster.error /\ rosterTour.list = SameRoster(d)
        /\ (d.rows # <<>> \/ desk.page = 0) /\ desk.page + 1 >= d.pages
        /\ 0..desk.page \subseteq rosterTour.pages)
       => rosterTour.rows = Members(found)
=============================================================================
