------------------------------ MODULE Households ------------------------------
(***************************************************************************)
(* The page of households (HouseholdListPage.tsx), its drawer              *)
(* (HouseholdDetailDrawer.tsx, useHouseholdParts.ts), and what answers     *)
(* them (routes/households.ts, householdService.ts).                       *)
(*                                                                         *)
(* A request for the list gives up the one before.  A page past the end of *)
(* a list that shrank is left for the first page.  The drawer asks for the *)
(* household at once and for each slower part when its tab is opened, and  *)
(* every one of these answers finds the household again by its key, and    *)
(* its primary meter among the meters of that moment: frames that arrive   *)
(* and what upstream changes may make it another meter between two parts.  *)
(***************************************************************************)
EXTENDS PagedList
LOCAL INSTANCE TLC

CONSTANTS
  HouseholdRows, \* upstream's households: id, customId ("" is none), within (what its
                 \* customId contains), names, mobiles (the same), site, order
  HouseMeters,   \* the client's meters at first: id, household, customId, active,
                 \* seen (0: never), order
  SiteBelow,     \* each site on offer, with the sites it covers
  HouseWord,     \* what can be typed: text, digits, letters
  HouseSize,     \* rows of a page
  LookupRows,    \* how many rows a lookup reads
  NoHouse,       \* no household, no meter
  MaxHousePresses,
  MaxLeaving,    \* bound: households that leave while the page is open
  MaxMeterChanges \* bound: changes of the meters while the page is open

NoWord == [text |-> "", digits |-> 0, letters |-> 0]

\* Numbers and consumers' ids are each of one household, no consumer's id is another
\* household's number, and an id contains itself.
ASSUME HouseholdAssumption ==
  /\ NoWord \in HouseWord
  /\ HouseSize \in Nat \ {0} /\ LookupRows \in Nat \ {0}
  /\ HouseholdRows \in Seq(Members(HouseholdRows))
  /\ \A h \in Members(HouseholdRows) : h.id # NoHouse
  /\ \A h, k \in Members(HouseholdRows) :
       /\ h.customId # k.id
       /\ h.id = k.id \/ (h.customId # "" /\ h.customId = k.customId) => h = k
  /\ \A h \in Members(HouseholdRows) : h.customId # "" => h.customId \in h.within

VARIABLES
  register,     \* the households the upstream has
  houseMeters,  \* the client's meters, as they are now
  meterChanges, \* how often they changed
  wantedHouses, \* the page's controls
  houseLoad,    \* the controls the request on its way was sent for, in a sequence
  houses,       \* what the page shows
  counts,       \* the counts above the table, their requests and the server's copy
  houseDrawer,
  partLoads,    \* the drawer's requests on their way
  housePresses

meterTable == <<houseMeters, meterChanges>>
houseVars ==
  <<register, houseMeters, meterChanges, wantedHouses, houseLoad, houses, counts, houseDrawer,
    partLoads, housePresses>>

-----------------------------------------------------------------------------
(* The server: the list.                                                   *)

\* A number of ten digits is a mobile, what has a digit is an id, the rest a name.
SearchField(w) ==
  IF w.digits = 10 /\ w.letters = 0 THEN "mobiles" ELSE IF w.digits > 0 THEN "within" ELSE "names"

HouseMatches(h, q) ==
  /\ q.search = NoWord \/ q.search.text \in h[SearchField(q.search)]
  /\ q.site = "ALL" \/ h.site \in SiteBelow[q.site]

Sorted(rows, dir) ==
  SortSeq(rows, LAMBDA a, b : IF dir = "asc" THEN a.order < b.order ELSE a.order > b.order)

\* A sort that the upstream refuses is left out.
HouseList(q, sortable) ==
  LET found == SelectSeq(register, LAMBDA h : HouseMatches(h, q))
  IN [content |-> Chunk(IF q.sort # "none" /\ sortable THEN Sorted(found, q.sort) ELSE found,
                        q.page, HouseSize),
      total |-> Len(found), pages |-> PageCount(Len(found), HouseSize)]

CountsNow ==
  [total |-> Len(register),
   sites |-> [s \in DOMAIN SiteBelow |->
                Cardinality({h \in Members(register) : h.site \in SiteBelow[s]})]]

(* The server: one household.                                              *)

\* The rows a lookup reads: by number, or whatever contains the consumer's id.
LookedUp(key) ==
  Chunk(IF \E h \in Members(HouseholdRows) : h.id = key
          THEN SelectSeq(register, LAMBDA h : h.id = key)
          ELSE SelectSeq(register, LAMBDA h : key \in h.within), 0, LookupRows)

\* The exact one of them; mutant: whatever the lookup found first.
FirstFound(key) == IF LookedUp(key) = <<>> THEN NoHouse ELSE LookedUp(key)[1]
OwnHousehold(key) ==
  LET mine == {h \in Members(HouseholdRows) : h \in Members(LookedUp(key)) /\ key \in {h.id, h.customId}}
  IN IF mine = {} THEN NoHouse ELSE CHOOSE h \in mine : TRUE

\* The first of a household's meters in a table: an active one before one that is not,
\* then the one that reported last, then by number.
MetersOf(table, h) ==
  {m \in table : m.household = h.id \/ (h.customId # "" /\ m.customId = h.customId)}
Ahead(m, o) ==
  \/ m.active /\ ~o.active
  \/ m.active = o.active /\ (m.seen > o.seen \/ (m.seen = o.seen /\ m.order < o.order))
PrimaryOf(table, h) ==
  LET mine == MetersOf(table, h)
  IN IF mine = {} THEN NoHouse ELSE (CHOOSE m \in mine : \A o \in mine \ {m} : Ahead(m, o)).id

-----------------------------------------------------------------------------
(* The list.                                                               *)

HouseQuery(c) == [page |-> c.page, search |-> c.search, site |-> c.site, sort |-> c.sort]

LoadHouses(c) ==
  /\ houseLoad' = <<HouseQuery(c)>>
  /\ houses' = [houses EXCEPT !.failed = FALSE]

\* New controls: the effect of load runs when it is another function.
SetAsked(c) ==
  /\ wantedHouses' = c
  /\ IF HouseQuery(c) = HouseQuery(wantedHouses) THEN UNCHANGED <<houseLoad, houses>>
     ELSE LoadHouses(c)

\* The drawer's backdrop lies over the page.  Nothing is drawn before the first answer.
PressHouse ==
  /\ housePresses < MaxHousePresses /\ houseDrawer.of = NoHouse
  /\ housePresses' = housePresses + 1
  /\ UNCHANGED <<register, meterTable, houseDrawer, partLoads>>
PressDrawn == PressHouse /\ houses.drawn /\ UNCHANGED counts

TypeHouse(w) ==
  /\ w # wantedHouses.input /\ PressDrawn
  /\ SetAsked([wantedHouses EXCEPT !.input = w, !.timer = TRUE])

\* 400 ms after the last key, and after the page was opened.
HouseSearchStarts ==
  /\ wantedHouses.timer
  /\ SetAsked([wantedHouses EXCEPT !.search = wantedHouses.input, !.page = 0, !.timer = FALSE])
  /\ UNCHANGED <<register, meterTable, counts, houseDrawer, partLoads, housePresses>>

\* The picker sets the site, a card turns its site on and off.
PickHouseSite(s) == PressDrawn /\ SetAsked([wantedHouses EXCEPT !.site = s, !.page = 0])
CardOfSite(s) ==
  /\ PressDrawn
  /\ SetAsked([wantedHouses EXCEPT !.site = IF @ = s THEN "ALL" ELSE s, !.page = 0])

\* A heading; the table takes no click while it loads.
SortHouses ==
  /\ houseLoad = <<>> /\ houses.rows # <<>> /\ PressDrawn
  /\ SetAsked([wantedHouses EXCEPT !.sort = IF @ = "asc" THEN "desc" ELSE "asc", !.page = 0])

ResetHouses ==
  /\ wantedHouses.input # NoWord \/ wantedHouses.site # "ALL" \/ wantedHouses.sort # "none"
  /\ PressDrawn
  /\ SetAsked([wantedHouses EXCEPT !.search = NoWord, !.site = "ALL", !.sort = "none",
                                   !.page = 0, !.input = NoWord,
                                   !.timer = @ \/ wantedHouses.input # NoWord])

PreviousHouses ==
  /\ houses.pages > 1 /\ wantedHouses.page # 0 /\ houseLoad = <<>>
  /\ PressDrawn /\ SetAsked([wantedHouses EXCEPT !.page = @ - 1])
NextHouses ==
  /\ wantedHouses.page < houses.pages - 1 /\ houseLoad = <<>>
  /\ PressDrawn /\ SetAsked([wantedHouses EXCEPT !.page = @ + 1])

RetryHouses ==
  /\ houses.failed /\ PressHouse /\ LoadHouses(wantedHouses)
  /\ UNCHANGED <<wantedHouses, counts>>

\* Refresh: the counts are asked for again, past the copy, and the list as well.
RefreshHouses ==
  /\ houseLoad = <<>> /\ PressHouse /\ LoadHouses(wantedHouses)
  /\ counts' = [counts EXCEPT !.sent = {[r EXCEPT !.live = FALSE] : r \in {k \in @ : k.told = <<>>}}
                                \cup {[refresh |-> TRUE, live |-> TRUE, told |-> <<>>]},
                              !.since = CountsNow.total, !.failed = FALSE]
  /\ UNCHANGED wantedHouses

\* Mutant: an empty page stays.
StayPastTheEnd(q, rows) == FALSE
PastTheEnd(q, rows) == rows = <<>> /\ q.page > 0

HousesArrive(sortable) ==
  /\ houseLoad # <<>>
  /\ LET q == houseLoad[1]
         ans == HouseList(q, sortable)
     IN IF PastTheEnd(q, ans.content)
          THEN /\ wantedHouses' = [wantedHouses EXCEPT !.page = 0]
               /\ LoadHouses(wantedHouses')
          ELSE /\ houseLoad' = <<>>
               /\ houses' = [rows |-> ans.content, of |-> q, total |-> ans.total,
                             pages |-> IF ans.pages = 0 THEN 1 ELSE ans.pages, drawn |-> TRUE, failed |-> FALSE]
               /\ UNCHANGED wantedHouses
  /\ UNCHANGED <<register, meterTable, counts, houseDrawer, partLoads, housePresses>>

\* A session that has ended, a site that is not the client's, an upstream that is down.
HousesFail ==
  /\ houseLoad # <<>> /\ houseLoad' = <<>>
  /\ houses' = [houses EXCEPT !.drawn = TRUE, !.failed = TRUE]
  /\ UNCHANGED <<register, meterTable, wantedHouses, counts, houseDrawer, partLoads,
                 housePresses>>

-----------------------------------------------------------------------------
(* The counts.                                                             *)

\* Mutant: Refresh is answered from the copy too.
CopyForAll(r) == counts.copy # <<>>
FromCopy(r) == ~r.refresh /\ counts.copy # <<>>

\* The server counts, or reads its copy; it keeps what it counted when the total is
\* known, also for a request that was given up.
CountsRead(r) ==
  /\ r \in counts.sent /\ r.told = <<>>
  /\ LET told == IF FromCopy(r) THEN counts.copy ELSE <<CountsNow>>
     IN counts' = [counts EXCEPT !.sent = (@ \ {r}) \cup (IF r.live THEN {[r EXCEPT !.told = told]} ELSE {}),
                                 !.copy = told]
  /\ UNCHANGED <<register, meterTable, wantedHouses, houseLoad, houses, houseDrawer,
                 partLoads, housePresses>>

CountsArrive(r) ==
  /\ r \in counts.sent /\ r.told # <<>>
  /\ counts' = [counts EXCEPT !.sent = @ \ {r}, !.shown = r.told]
  /\ UNCHANGED <<register, meterTable, wantedHouses, houseLoad, houses, houseDrawer,
                 partLoads, housePresses>>

CountsFail(r) ==
  /\ r \in counts.sent
  /\ counts' = [counts EXCEPT !.sent = @ \ {r}, !.failed = @ \/ r.live]
  /\ UNCHANGED <<register, meterTable, wantedHouses, houseLoad, houses, houseDrawer,
                 partLoads, housePresses>>

CopyRunsOut ==
  /\ counts.copy # <<>> /\ counts' = [counts EXCEPT !.copy = <<>>]
  /\ UNCHANGED <<register, meterTable, wantedHouses, houseLoad, houses, houseDrawer,
                 partLoads, housePresses>>

\* External: a household leaves.
Leaves(i) ==
  /\ Len(HouseholdRows) - Len(register) < MaxLeaving
  /\ register' = [j \in 1..(Len(register) - 1) |-> IF j < i THEN register[j] ELSE register[j + 1]]
  /\ UNCHANGED <<meterTable, wantedHouses, houseLoad, houses, counts, houseDrawer,
                 partLoads, housePresses>>

-----------------------------------------------------------------------------
(* The drawer.                                                             *)

HousePart == {"core", "bills", "hardware", "documents"}
KeyOf(h) == IF h.customId # "" THEN h.customId ELSE h.id

NoPart == [state |-> "idle", of |-> NoHouse, meter |-> NoHouse]
\* met is a ghost: the meters that were the household's primary one since it was opened.
NoHouseDrawer ==
  [of |-> NoHouse, key |-> "", tab |-> "overview", bills |-> FALSE, met |-> {},
   parts |-> [p \in HousePart |-> NoPart]]

\* load, loadCore: what was known before stays.
AskingFor(d, P) ==
  [d EXCEPT !.parts = [p \in HousePart |-> IF p \in P THEN [d.parts[p] EXCEPT !.state = "loading"]
                                                 ELSE d.parts[p]]]
AskFor(d, P) ==
  /\ houseDrawer' = AskingFor(d, P)
  /\ partLoads' = partLoads \cup {[part |-> p, key |-> d.key, told |-> <<>>] : p \in P}
  /\ UNCHANGED <<register, meterTable, wantedHouses, houseLoad, houses, counts>>

\* Opening a row mounts the drawer.  Some accounts are not shown the bills.
SelectHouse(h) ==
  /\ h \in Members(houses.rows)
  /\ houseLoad = <<>> /\ houseDrawer.of = NoHouse
  /\ housePresses < MaxHousePresses /\ housePresses' = housePresses + 1
  /\ \E sees \in BOOLEAN :
       AskFor([NoHouseDrawer EXCEPT !.of = h.id, !.key = KeyOf(h), !.bills = sees,
                                    !.met = {PrimaryOf(houseMeters, h)}], {"core"})

IdleOf(d, P) == {p \in P : d.parts[p].state = "idle"}

PartsOf(t) ==
  IF t = "billing" THEN {"bills"} ELSE IF t = "hardware" THEN {"hardware", "documents"} ELSE {}
OpenHouseTab(t) ==
  /\ houseDrawer.of # NoHouse /\ houseDrawer.tab # t /\ (t = "billing" => houseDrawer.bills)
  /\ AskFor([houseDrawer EXCEPT !.tab = t], IdleOf(houseDrawer, PartsOf(t)))
  /\ UNCHANGED housePresses

RetryPart(p) ==
  /\ houseDrawer.of # NoHouse /\ houseDrawer.parts[p].state = "error"
  /\ p = "core" \/ p \in PartsOf(houseDrawer.tab)
  /\ AskFor(houseDrawer, {p})
  /\ UNCHANGED housePresses

\* What arrives for a drawer that is gone is dropped; mutant: it finds the next drawer.
StillComing == partLoads
Dropped == {}
CloseHouse ==
  /\ houseDrawer.of # NoHouse
  /\ houseDrawer' = NoHouseDrawer
  /\ partLoads' = Dropped
  /\ UNCHANGED <<register, meterTable, wantedHouses, houseLoad, houses, counts,
                 housePresses>>

ToHouseDrawer(r, part) ==
  /\ partLoads' = partLoads \ {r}
  /\ houseDrawer' = [houseDrawer EXCEPT !.parts[r.part] = part]
  /\ UNCHANGED <<register, meterTable, wantedHouses, houseLoad, houses, counts,
                 housePresses>>

\* The server finds the household again, and its primary meter of now (one step: nothing
\* that happens between the two shows in the drawer).
PartRead(r) ==
  LET h == OwnHousehold(r.key)
  IN /\ r \in partLoads /\ r.told = <<>> /\ h # NoHouse
     /\ partLoads' = (partLoads \ {r})
                       \cup {[r EXCEPT !.told = <<[of |-> h.id, meter |-> PrimaryOf(houseMeters, h)]>>]}
     /\ UNCHANGED <<register, meterTable, wantedHouses, houseLoad, houses, counts,
                    houseDrawer, housePresses>>

HousePartArrives(r) ==
  /\ r.told # <<>>
  /\ ToHouseDrawer(r, [state |-> "done", of |-> r.told[1].of, meter |-> r.told[1].meter])

\* Not found, not allowed, or not reachable.
HousePartFails(r) == ToHouseDrawer(r, [houseDrawer.parts[r.part] EXCEPT !.state = "error"])

\* External: a frame of a meter arrives, a meter is switched on or off, or is linked to
\* another household or to none.
ChangesOf(m) ==
  {[m EXCEPT !.seen = o.seen + 1] :
      o \in {k \in houseMeters : \A j \in houseMeters : j.seen <= k.seen}}
    \cup {[m EXCEPT !.active = ~m.active], [m EXCEPT !.household = NoHouse, !.customId = ""]}
    \cup {[m EXCEPT !.household = h.id, !.customId = h.customId] : h \in Members(HouseholdRows)}
OpenHousehold == CHOOSE h \in Members(HouseholdRows) : h.id = houseDrawer.of
MeterChanges(m, n) ==
  /\ meterChanges < MaxMeterChanges /\ meterChanges' = meterChanges + 1
  /\ houseMeters' = (houseMeters \ {m}) \cup {n}
  /\ houseDrawer' = IF houseDrawer.of = NoHouse THEN houseDrawer
                    ELSE [houseDrawer EXCEPT !.met = @ \cup {PrimaryOf(houseMeters', OpenHousehold)}]
  /\ UNCHANGED <<register, wantedHouses, houseLoad, houses, counts, partLoads,
                 housePresses>>

HouseholdsInit ==
  /\ register = HouseholdRows
  /\ houseMeters = HouseMeters /\ meterChanges = 0
  /\ wantedHouses = [input |-> NoWord, search |-> NoWord, timer |-> TRUE, site |-> "ALL",
              sort |-> "none", page |-> 0]
  /\ houseLoad = <<HouseQuery(wantedHouses)>>
  /\ houses = [rows |-> <<>>, of |-> HouseQuery(wantedHouses), total |-> 0, pages |-> 1,
               drawn |-> FALSE, failed |-> FALSE]
  /\ counts = [sent |-> {[refresh |-> FALSE, live |-> TRUE, told |-> <<>>]}, copy |-> <<>>,
               shown |-> <<>>, since |-> Len(HouseholdRows), failed |-> FALSE]
  /\ houseDrawer = NoHouseDrawer
  /\ partLoads = {}
  /\ housePresses = 0

HouseholdsNext ==
  \/ \E w \in HouseWord : TypeHouse(w)
  \/ HouseSearchStarts
  \/ \E s \in DOMAIN SiteBelow \cup {"ALL"} : PickHouseSite(s)
  \/ \E s \in DOMAIN SiteBelow : CardOfSite(s)
  \/ SortHouses \/ ResetHouses \/ PreviousHouses \/ NextHouses \/ RetryHouses \/ RefreshHouses
  \/ \E sortable \in BOOLEAN : HousesArrive(sortable)
  \/ HousesFail
  \/ \E r \in counts.sent : CountsRead(r) \/ CountsArrive(r) \/ CountsFail(r)
  \/ CopyRunsOut
  \/ \E i \in DOMAIN register : Leaves(i)
  \/ \E h \in Members(HouseholdRows) : SelectHouse(h)
  \/ \E t \in {"overview", "hardware", "billing"} : OpenHouseTab(t)
  \/ \E p \in HousePart : RetryPart(p)
  \/ CloseHouse
  \/ \E r \in partLoads : PartRead(r) \/ HousePartArrives(r) \/ HousePartFails(r)
  \/ \E m \in houseMeters : \E n \in ChangesOf(m) : MeterChanges(m, n)

-----------------------------------------------------------------------------
\* HouseholdListPage.tsx:99: when nothing is on its way and the last load did not
\* fail, the rows are those of the controls, and a page is only empty when it is the
\* first.
HousesForAsked ==
  houseLoad = <<>> /\ houses.drawn /\ ~houses.failed =>
    /\ houses.of = HouseQuery(wantedHouses)
    /\ houses.rows = <<>> => wantedHouses.page = 0

\* HouseholdListPage.tsx:73 and households.ts:133: once the counts of the last Refresh
\* are shown, they are not from before it, whatever copy the server has and whichever
\* of its requests was slow.
CountsSince ==
  counts.shown # <<>> /\ ~counts.failed /\ (\A r \in counts.sent : ~r.live)
    => counts.shown[1].total <= counts.since

\* households.ts:46 and useHouseholdParts.ts:42: everything the drawer shows was found
\* for the household of the row that was clicked; a tab that is open has asked for its
\* parts, and what is loading is on its way.  Two parts may be about two meters
\* (households.ts:159 and 184 look the primary one up each for itself), but each is about
\* a meter that was the household's primary one while this drawer was open, so all are
\* about one as long as that did not change (householdService.ts:119).
DrawerOfHouse ==
  houseDrawer.of # NoHouse =>
    /\ \A p \in HousePart :
         houseDrawer.parts[p].of # NoHouse =>
           houseDrawer.parts[p].of = houseDrawer.of /\ houseDrawer.parts[p].meter \in houseDrawer.met
    /\ \A p \in PartsOf(houseDrawer.tab) \cup {"core"} : houseDrawer.parts[p].state # "idle"
    /\ \A p \in HousePart :
         houseDrawer.parts[p].state = "loading"
           <=> \E r \in partLoads : r.part = p /\ r.key = houseDrawer.key
=============================================================================
