---------------------------- MODULE ExplorerLists ----------------------------
(***************************************************************************)
(* What the Network Explorer lists: the suggestions under its search box,  *)
(* and its table.  The two share no state.                                 *)
(***************************************************************************)
EXTENDS PagedList

-----------------------------------------------------------------------------
(***************************************************************************)
(* The search box of the Network Explorer (MeterSearchBox.tsx): what is    *)
(* typed is answered from the meters on the map at once, and by the server *)
(* after a pause; the server's answers are remembered for the session, per *)
(* site and text.  Meanwhile the user types on, picks, and changes site,   *)
(* and meters are retired.                                                 *)
(***************************************************************************)
CONSTANTS
  SearchMeters,   \* id, sites that hold it, placed, starts: the words it starts with,
                  \* inside: the words its id contains, owner: those its consumer's id does
  SearchSite, SearchText,
  LongText,       \* the texts of at least MIN_CHARS characters
  MaxSuggestions, \* MAX_SUGGESTIONS
  Remembered,     \* 200 answers
  MaxTyped, MaxRetired

ASSUME SearchAssumption ==
  /\ LongText \subseteq SearchText /\ "" \in SearchText \ LongText
  /\ {MaxSuggestions, Remembered} \subseteq Nat \ {0}
  /\ SearchMeters \in Seq(Members(SearchMeters))

VARIABLES
  box,       \* what the component and the closures of its effects hold
  answered,  \* answered, the oldest first
  working,   \* the meters that are not retired, on the server
  mapped     \* the meters that the page has loaded: an earlier state of them

searchVars == <<box, answered, working, mapped>>

NoKey == [site |-> "none", q |-> ""]
NoRemote == [key |-> NoKey, items |-> <<>>]

SearchInit ==
  /\ box = [text |-> "", site |-> CHOOSE s \in SearchSite : TRUE, open |-> FALSE, active |-> 0,
            remote |-> NoRemote, waits |-> FALSE, asked |-> NoKey,
            failed |-> FALSE, \* ghost: the answer for the present key did not come
            typed |-> 0]
  /\ answered = <<>>
  /\ working = DOMAIN SearchMeters
  /\ mapped = working

\* Mutant: answers are remembered by their text alone.
TextOnly(b) == [site |-> "any", q |-> b.text]
SearchKey(b) == [site |-> b.site, q |-> b.text]

InSite(i, s) == s \in SearchMeters[i].sites
FirstFew(seq) == SubSeq(seq, 1, IF Len(seq) < MaxSuggestions THEN Len(seq) ELSE MaxSuggestions)

\* Some meters in the list's order, those that start with the text before the others.
StartsFirst(some, q) ==
  LET starts == {i \in some : q \in SearchMeters[i].starts}
      rows(S) == RowsAt([i \in DOMAIN SearchMeters |-> i], S)
  IN FirstFew(rows(starts) \o rows(some \ starts))

\* The loop ends when enough start with the text.
LocalSuggestions(b) ==
  StartsFirst({i \in mapped : /\ SearchMeters[i].placed /\ InSite(i, b.site)
                              /\ b.text \in SearchMeters[i].inside}, b.text)

\* suggestMeters: also by the consumer, those that start with the text first.  (For 30 s
\* it answers from memory: NetworkCaches.)
Suggested(key) ==
  StartsFirst({i \in working : /\ InSite(i, key.site)
                               /\ key.q \in SearchMeters[i].inside \cup SearchMeters[i].owner}, key.q)

IsLong(b) == b.text \in LongText
Items(b) ==
  IF b.remote.key = SearchKey(b) THEN b.remote.items
  ELSE IF IsLong(b) THEN LocalSuggestions(b) ELSE <<>>
Listed(b) == b.open /\ IsLong(b) /\ Items(b) # <<>>

AnswersFor(key) == {n \in DOMAIN answered : answered[n].key = key}

\* The effects of a new key: the last request is given up, an answer given before is
\* taken, otherwise the pause starts; nothing is highlighted.
Keyed(b) ==
  LET key == SearchKey(b)
      fresh == [b EXCEPT !.active = 0, !.waits = FALSE, !.asked = NoKey, !.failed = FALSE]
  IN IF ~IsLong(b) THEN fresh
     ELSE IF AnswersFor(key) # {}
       THEN [fresh EXCEPT !.remote = answered[CHOOSE n \in AnswersFor(key) : TRUE]]
       ELSE [fresh EXCEPT !.waits = TRUE]
Become(b) == IF SearchKey(b) = SearchKey(box) THEN b ELSE Keyed(b)

Does(b) == box' = b /\ UNCHANGED <<answered, working, mapped>>

TypeText(w) ==
  /\ w # box.text /\ box.typed < MaxTyped
  /\ Does(Become([box EXCEPT !.text = w, !.open = TRUE, !.typed = @ + 1]))
ClearText ==
  /\ box.text # ""
  /\ Does(Become([box EXCEPT !.text = ""]))
FocusBox == ~box.open /\ Does([box EXCEPT !.open = TRUE])
LeaveBox == box.open /\ Does([box EXCEPT !.open = FALSE])

ArrowDown ==
  /\ Items(box) # <<>>
  /\ Does([box EXCEPT !.open = TRUE, !.active = (@ % Len(Items(box))) + 1])
ArrowUp ==
  /\ Items(box) # <<>>
  /\ Does([box EXCEPT !.active = IF @ <= 1 THEN Len(Items(box)) ELSE @ - 1])
PointAt(i) == Listed(box) /\ i \in DOMAIN Items(box) /\ Does([box EXCEPT !.active = i])

\* The page puts the meter's id in the box.
Pick(i) ==
  Does(Become([box EXCEPT !.open = FALSE, !.text = SearchMeters[Items(box)[i]].id]))
PickRow(i) == Listed(box) /\ i \in DOMAIN Items(box) /\ Pick(i)

\* A highlighted row is picked, anything else is submitted as typed.  (A row that is
\* gone since it was highlighted is given to the page as none, and the page throws.)
EnterKey ==
  IF Listed(box) /\ box.active \in DOMAIN Items(box)
    THEN Pick(box.active)
    ELSE Does([box EXCEPT !.open = FALSE])

SearchSiteChanges(s) ==
  /\ s # box.site /\ box.typed < MaxTyped
  /\ Does(Become([box EXCEPT !.site = s, !.typed = @ + 1]))

PauseEnds ==
  /\ box.waits
  /\ Does([box EXCEPT !.waits = FALSE, !.asked = SearchKey(box)])

\* Mutant: every answer is kept.
RememberAll(key, items) == Append(answered, [key |-> key, items |-> items])
Remember(key, items) ==
  Append(IF Len(answered) >= Remembered THEN Tail(answered) ELSE answered,
         [key |-> key, items |-> items])
SuggestionsArrive ==
  /\ box.asked # NoKey
  /\ LET items == Suggested([site |-> box.site, q |-> box.text])
     IN /\ answered' = Remember(box.asked, items)
        /\ box' = [box EXCEPT !.asked = NoKey, !.remote = [key |-> box.asked, items |-> items]]
  /\ UNCHANGED <<working, mapped>>
SuggestionsFail ==
  /\ box.asked # NoKey
  /\ Does([box EXCEPT !.asked = NoKey, !.failed = TRUE])

\* Outside the box: a meter is retired, and the page's own refresh.
Retire(i) ==
  /\ i \in working /\ Cardinality(DOMAIN SearchMeters \ working) < MaxRetired
  /\ working' = working \ {i}
  /\ UNCHANGED <<box, answered, mapped>>
PointsRefresh ==
  /\ mapped # working
  /\ mapped' = working
  /\ UNCHANGED <<box, answered, working>>

SearchNext ==
  \/ \E w \in SearchText : TypeText(w)
  \/ ClearText \/ FocusBox \/ LeaveBox \/ ArrowDown \/ ArrowUp \/ EnterKey
  \/ \E i \in 1..MaxSuggestions : PointAt(i) \/ PickRow(i)
  \/ \E s \in SearchSite : SearchSiteChanges(s)
  \/ PauseEnds \/ SuggestionsArrive \/ SuggestionsFail
  \/ \E i \in DOMAIN SearchMeters : Retire(i)
  \/ PointsRefresh

-----------------------------------------------------------------------------
\* MeterSearchBox.tsx:44: what is listed matches what has been typed so far, in the
\* site that is chosen now, no more than five and none twice; and when nothing is on
\* its way, it is the server's answer.
SuggestionsForText ==
  /\ Listed(box) =>
       /\ Len(Items(box)) <= MaxSuggestions
       /\ \A m, n \in DOMAIN Items(box) : Items(box)[m] = Items(box)[n] => m = n
       /\ \A n \in DOMAIN Items(box) :
            LET meter == Items(box)[n] IN
              /\ InSite(meter, box.site)
              /\ box.text \in SearchMeters[meter].inside \cup SearchMeters[meter].owner
  /\ IsLong(box) /\ ~box.waits /\ box.asked = NoKey /\ ~box.failed =>
       box.remote.key = SearchKey(box)

\* MeterSearchBox.tsx:24: no more answers are kept than 200, and none twice.
AnswersKept ==
  /\ Len(answered) <= Remembered
  /\ \A m, n \in DOMAIN answered : answered[m].key = answered[n].key => m = n

-----------------------------------------------------------------------------
(***************************************************************************)
(* The table of the Network Explorer (NetworkExplorerPage.tsx), read page  *)
(* by page from listMeters of networkService.ts.  One request is on its    *)
(* way at most: a change gives up the one before.  Its pages count from 1. *)
(***************************************************************************)
CONSTANTS
  TableMeters,   \* in the order of their ids: id, sites, status, hits
  TableSite, TableText, TableStatus, TableSize, \* what can be chosen
  MaxTablePresses, MaxRetirements

ASSUME TableAssumption ==
  /\ "" \in TableText /\ "ALL" \in TableStatus
  /\ TableSize # {} /\ TableSize \subseteq Nat \ {0}
  /\ TableMeters \in Seq(Members(TableMeters))

VARIABLES
  sheet,        \* the controls: view, tab, site, status, the box and its pause, page, size
  sheetAsked,   \* what the request on its way asks for, in a sequence
  sheetRows,    \* the last answer, the same, whether it is greyed, the error line
  sheetRetired, \* meters that are no longer active
  sheetTour,    \* ghost: the pages of this list that were shown
  sheetPresses

sheetVars == <<sheet, sheetAsked, sheetRows, sheetRetired, sheetTour, sheetPresses>>

SheetInit ==
  /\ sheet = [view |-> "map", tab |-> "all", site |-> CHOOSE s \in TableSite : TRUE,
              status |-> "ALL", input |-> "", search |-> "", pause |-> FALSE,
              page |-> 1, size |-> CHOOSE n \in TableSize : TRUE]
  /\ sheetAsked = <<>>
  /\ sheetRows = [data |-> <<>>, loading |-> FALSE, error |-> FALSE]
  /\ sheetRetired = {}
  /\ sheetTour = [list |-> <<>>, pages |-> {}, rows |-> {}]
  /\ sheetPresses = 0

-----------------------------------------------------------------------------
(* The server.                                                             *)

MeterMatches(m, q, retired) ==
  /\ m.id \notin retired /\ q.site \in m.sites
  /\ q.search = "" \/ q.search \in m.hits
  /\ q.status \in {"ALL", m.status}
Matching(q, retired) ==
  RowsAt(TableMeters, {i \in DOMAIN TableMeters : MeterMatches(TableMeters[i], q, retired)})

\* The total stands in every row of the page: a page without rows has none.
MeterPage(q) ==
  LET found == Matching(q, sheetRetired)
      items == Chunk(found, q.page - 1, q.size)
  IN [items |-> items, total |-> IF items = <<>> THEN 0 ELSE Len(found),
      of |-> q, retired |-> sheetRetired]

-----------------------------------------------------------------------------
(* The page.                                                               *)

TableQuery(s) ==
  [site |-> s.site, page |-> s.page, size |-> s.size, search |-> s.search, status |-> s.status]
Reads(s) == s.view = "table" /\ s.tab # "gateways"

FirstPageFor(s) == <<s.search, s.site, s.status, s.tab, s.size>>

\* The two effects: the page starts again for another list, and is asked for.
ToFirst(s) == IF FirstPageFor(s) = FirstPageFor(sheet) THEN s ELSE [s EXCEPT !.page = 1]
\* Mutant: the status is forgotten.
StatusUnasked(s) == <<s.view, s.tab, [TableQuery(s) EXCEPT !.status = "ALL"]>>
AskedBy(s) == <<s.view, s.tab, TableQuery(s)>>
Loads(s) ==
  IF AskedBy(s) = AskedBy(sheet) THEN UNCHANGED <<sheetAsked, sheetRows>>
  ELSE IF Reads(s)
    THEN /\ sheetAsked' = <<TableQuery(s)>>
         /\ sheetRows' = [sheetRows EXCEPT !.loading = TRUE, !.error = FALSE]
    ELSE sheetAsked' = <<>> /\ UNCHANGED sheetRows

SetSheet(s) == sheet' = ToFirst(s) /\ Loads(ToFirst(s)) /\ UNCHANGED <<sheetRetired, sheetTour>>

PressSheet(s) ==
  /\ sheetPresses < MaxTablePresses /\ sheetPresses' = sheetPresses + 1
  /\ s # sheet /\ SetSheet(s)

ShowTable(v) == PressSheet([sheet EXCEPT !.view = v])
ShowTab(t) == sheet.view = "table" /\ PressSheet([sheet EXCEPT !.tab = t])
TableOfSite(s) == PressSheet([sheet EXCEPT !.site = s])
TableStatusIs(st) == PressSheet([sheet EXCEPT !.status = st])
TypeInTable(w) == PressSheet([sheet EXCEPT !.input = w, !.pause = TRUE])
TableSearchStarts ==
  /\ sheet.pause
  /\ SetSheet([sheet EXCEPT !.search = sheet.input, !.pause = FALSE])
  /\ UNCHANGED sheetPresses

Total == IF sheetRows.data = <<>> THEN 0 ELSE sheetRows.data[1].total
\* Mutant: a last page that is not full is not counted.
FullSheets == IF Total < sheet.size THEN 1 ELSE Total \div sheet.size
LastSheet == IF Total = 0 THEN 1 ELSE PageCount(Total, sheet.size)

PickTableSize(n) == Reads(sheet) /\ PressSheet([sheet EXCEPT !.size = n])
FirstSheet == Reads(sheet) /\ sheet.page # 1 /\ PressSheet([sheet EXCEPT !.page = 1])
PreviousSheet == Reads(sheet) /\ sheet.page # 1 /\ PressSheet([sheet EXCEPT !.page = @ - 1])
NextSheet == Reads(sheet) /\ sheet.page < LastSheet /\ PressSheet([sheet EXCEPT !.page = @ + 1])
EndSheet == Reads(sheet) /\ sheet.page < LastSheet /\ PressSheet([sheet EXCEPT !.page = LastSheet])

SameSheet(d) == <<[d.of EXCEPT !.page = 0], d.retired>>
TableArrives ==
  /\ sheetAsked # <<>>
  /\ LET d == MeterPage(sheetAsked[1])
     IN /\ sheetRows' = [sheetRows EXCEPT !.data = <<d>>, !.loading = FALSE]
        /\ sheetTour' = Seen(sheetTour, SameSheet(d), d.of.page, d.items)
  /\ sheetAsked' = <<>>
  /\ UNCHANGED <<sheet, sheetRetired, sheetPresses>>
TableFails ==
  /\ sheetAsked # <<>>
  /\ sheetAsked' = <<>>
  /\ sheetRows' = [sheetRows EXCEPT !.error = TRUE, !.loading = FALSE]
  /\ UNCHANGED <<sheet, sheetRetired, sheetTour, sheetPresses>>

MeterRetired(m) ==
  /\ Cardinality(sheetRetired) < MaxRetirements
  /\ sheetRetired' = sheetRetired \cup {m.id}
  /\ UNCHANGED <<sheet, sheetAsked, sheetRows, sheetTour, sheetPresses>>

SheetNext ==
  \/ \E v \in {"map", "table"} : ShowTable(v)
  \/ \E t \in {"all", "meters", "gateways"} : ShowTab(t)
  \/ \E s \in TableSite : TableOfSite(s)
  \/ \E st \in TableStatus : TableStatusIs(st)
  \/ \E w \in TableText : TypeInTable(w)
  \/ \E n \in TableSize : PickTableSize(n)
  \/ TableSearchStarts
  \/ FirstSheet \/ PreviousSheet \/ NextSheet \/ EndSheet
  \/ TableArrives \/ TableFails
  \/ \E m \in Members(TableMeters) : MeterRetired(m)

-----------------------------------------------------------------------------
TableAtRest == Reads(sheet) /\ ~sheetRows.loading /\ ~sheetRows.error

\* NetworkExplorerPage.tsx:353: when the table is not greyed and tells of no error, its
\* rows are those of the controls as they stand, and of the text as it was typed.  A
\* greyed table of meters has a request that will end it.
TableForAsked ==
  /\ TableAtRest =>
       /\ sheetAsked = <<>> /\ sheetRows.data # <<>>
       /\ sheetRows.data[1].of = TableQuery(sheet)
       /\ ~sheet.pause => sheet.search = sheet.input
  /\ Reads(sheet) /\ sheetRows.loading => sheetAsked = <<TableQuery(sheet)>>

\* networkService.ts:548: whoever has seen every page up to the one where there is no
\* next has seen every meter that matches; the total is theirs wherever there are rows.
TablePagesComplete ==
  TableAtRest =>
    LET d == sheetRows.data[1]
        found == Matching(d.of, d.retired)
    IN /\ d.items # <<>> => d.total = Len(found)
       /\ (sheet.page >= LastSheet /\ sheetTour.list = SameSheet(d)
            /\ 1..sheet.page \subseteq sheetTour.pages)
          => sheetTour.rows = Members(found)
=============================================================================
