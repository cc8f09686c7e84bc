----------------------------- MODULE BillingPage -----------------------------
(***************************************************************************)
(* The page of bills (BillingPage.tsx) with its drawer                     *)
(* (BillDetailDrawer.tsx), over routes/billing.ts.                         *)
(*                                                                         *)
(* The server reads the newest bills of the period, filters them, adds     *)
(* them up and cuts out the page.  As on the page of alerts the last       *)
(* answer to arrive is shown.  A bill is paid in the drawer only.          *)
(***************************************************************************)
EXTENDS PagedList

LOCAL Sets == INSTANCE FiniteSetsExt

CONSTANTS
  Bills,         \* upstream's bills, newest first: id, period, status, places, site,
                 \* hits, amount, from and to (the two readings), days (one reading each)
  NoBill,
  BillWord, BillSize, BillStatus, BillCity, BillLink,  \* what can be chosen; NoBill is no link
  BillWindow,    \* how many bills the upstream is asked for
  DaysKept,      \* days of readings in the detail
  MaxBillPresses,
  MaxBillLoads

ASSUME BillingAssumption ==
  /\ "" \in BillWord /\ "ALL" \in BillStatus /\ "ALL" \in BillCity
  /\ BillSize \subseteq Nat \ {0}
  /\ {BillWindow, DaysKept} \subseteq Nat \ {0}
  /\ Bills \in Seq(Members(Bills))
  /\ \A b \in Members(Bills) : b.days \in Seq(Nat)

VARIABLES
  billLinked,   \* the bill in the address, or NoBill
  choice,       \* period, filters, the box and its timer, page and size
  billLists,    \* requests for the list on their way
  invoices,     \* what the last answer brought, and the loader
  billDrawer,
  billTour,     \* ghost: the pages of this list that were shown
  billPresses

billVars == <<billLinked, choice, billLists, invoices, billDrawer, billTour, billPresses>>

BillOf(id) == CHOOSE b \in Members(Bills) : b.id = id

-----------------------------------------------------------------------------
(* The server.                                                             *)

Period == {"jan-feb-2026", "all-2026", "all-time"}
Within2026(b, p) ==
  \/ p = "all-time"
  \/ p = "all-2026" /\ b.period \in {"jan-feb-2026", "all-2026"}
  \/ p = b.period

\* The newest bills of a period, whatever else is asked for.
UpstreamBills(p) ==
  Chunk(RowsAt(Bills, {i \in DOMAIN Bills : Within2026(Bills[i], p)}), 0, BillWindow)

\* The consumer's number and the address tell the city.  The list looks at the name
\* of the site too, the detail does not.
CityOf(words) ==
  IF "Puri" \in words THEN "Puri" ELSE IF "Cuttack" \in words THEN "Cuttack" ELSE "Bhubaneswar"
CityInList(b) == CityOf(b.places \cup {b.site})
CityInDetail(b) == CityOf(b.places)

BillMatches(b, q) ==
  /\ q.search = "" \/ q.search \in b.hits
  /\ q.status \in {"ALL", b.status}
  /\ q.city \in {"ALL", CityInList(b)}

\* A meter that was read backwards has used nothing.
Used(from, to) == IF to > from THEN to - from ELSE 0

Amount(S) == Sets!MapThenSumSet(LAMBDA b : b.amount, S)
Volume(S) == Sets!MapThenSumSet(LAMBDA b : Used(b.from, b.to), S)
OfStatus(S, s) == {b \in S : b.status = s}

BillStats(S) ==
  [bills |-> Cardinality(S), amount |-> Amount(S), volume |-> Volume(S),
   overdueAmount |-> Amount(OfStatus(S, "OVERDUE")), paidAmount |-> Amount(OfStatus(S, "PAID")),
   overdue |-> Cardinality(OfStatus(S, "OVERDUE")), paid |-> Cardinality(OfStatus(S, "PAID")),
   pending |-> Cardinality(OfStatus(S, "PENDING"))]

\* Math.ceil(n / size) || 1
BillPages(n, size) == IF PageCount(n, size) = 0 THEN 1 ELSE PageCount(n, size)

BillList(q) ==
  LET read  == UpstreamBills(q.period)
      found == RowsAt(read, {i \in DOMAIN read : BillMatches(read[i], q)})
  IN [content |-> Chunk(found, q.page, q.size), total |-> Len(found),
      pages |-> BillPages(Len(found), q.size), stats |-> BillStats(Members(found))]

\* Mutant: the cards add up the page.
StatsOfPage(q) == [BillList(q) EXCEPT !.stats = BillStats(Members(BillList(q).content))]
BillAnswer(q) == BillList(q)

\* The bill among the newest of all.
BillFound(id) ==
  \E b \in Members(Bills) : b.id = id /\ b \in Members(UpstreamBills("all-time"))

\* The last days, oldest first; the first of them has nothing to compare with.
KeptDays(days) ==
  IF Len(days) <= DaysKept THEN days ELSE SubSeq(days, Len(days) - DaysKept + 1, Len(days))
NoReading == [reading |-> 0, used |-> 0]
Padded(rows) == [i \in 1..(DaysKept - Len(rows)) |-> NoReading] \o rows
DailyRows(days) ==
  LET r == KeptDays(days)
  IN [i \in DOMAIN r |-> [reading |-> r[i], used |-> IF i = 1 THEN 0 ELSE Used(r[i - 1], r[i])]]

\* Mutant: filled up before the differences are taken.
PaddedFirst(days) ==
  LET r == [i \in 1..(DaysKept - Len(KeptDays(days))) |-> 0] \o KeptDays(days)
  IN [i \in DOMAIN r |-> [reading |-> r[i], used |-> IF i = 1 THEN 0 ELSE Used(r[i - 1], r[i])]]
DailyReadings(days) == Padded(DailyRows(days))

-----------------------------------------------------------------------------
(* The list.                                                               *)

BillQuery(c) ==
  [page |-> c.page, size |-> c.size, period |-> c.period, search |-> c.search,
   status |-> c.status, city |-> c.city]

\* New controls: the effect of loadBills runs when it is another function.
SetChoice(c) ==
  /\ choice' = c
  /\ IF BillQuery(c) = BillQuery(choice) THEN UNCHANGED <<billLists, invoices>>
     ELSE /\ Len(billLists) < MaxBillLoads
          /\ billLists' = Send(billLists, BillQuery(c))
          /\ invoices' = [invoices EXCEPT !.loading = TRUE]

\* The drawer's backdrop lies over the page.
PressBill ==
  /\ billPresses < MaxBillPresses /\ billDrawer.bill = NoBill
  /\ billPresses' = billPresses + 1
  /\ UNCHANGED <<billLinked, billDrawer, billTour>>

TypeBill(w) ==
  w # choice.input /\ PressBill /\ SetChoice([choice EXCEPT !.input = w, !.timer = TRUE])

\* 400 ms after the last key, and after the page was opened.
BillSearchStarts ==
  /\ choice.timer
  /\ SetChoice([choice EXCEPT !.search = choice.input, !.page = 0, !.timer = FALSE])
  /\ UNCHANGED <<billLinked, billDrawer, billTour, billPresses>>

\* The period, the pills and the page size start again at the first page, the cards
\* do not.
PickPeriod(p) == PressBill /\ SetChoice([choice EXCEPT !.period = p, !.page = 0])
PickBillStatus(s) == PressBill /\ SetChoice([choice EXCEPT !.status = s, !.page = 0])
PickCity(c) == PressBill /\ SetChoice([choice EXCEPT !.city = c, !.page = 0])
PickBillSize(n) == PressBill /\ SetChoice([choice EXCEPT !.size = n, !.page = 0])
CardTotal == PressBill /\ SetChoice([choice EXCEPT !.status = "ALL"])
CardOverdue == PressBill /\ SetChoice([choice EXCEPT !.status = "OVERDUE"])

\* Offered for every period but the first, the one it chooses included.
ResetBills ==
  /\ \/ choice.input # "" \/ choice.status # "ALL" \/ choice.city # "ALL"
     \/ choice.period # "jan-feb-2026"
  /\ PressBill
  /\ SetChoice([choice EXCEPT !.search = "", !.status = "ALL", !.city = "ALL", !.page = 0,
                              !.period = "all-time", !.input = "",
                              !.timer = @ \/ choice.input # ""])

RefreshBills ==
  /\ PressBill /\ Len(billLists) < MaxBillLoads
  /\ billLists' = Send(billLists, BillQuery(choice))
  /\ invoices' = [invoices EXCEPT !.loading = TRUE]
  /\ UNCHANGED choice

\* The footer.
BillsBefore == choice.page # 0 /\ ~invoices.loading
BillsAfter == choice.page < invoices.pages - 1 /\ ~invoices.loading
FirstBills == BillsBefore /\ PressBill /\ SetChoice([choice EXCEPT !.page = 0])
PreviousBills == BillsBefore /\ PressBill /\ SetChoice([choice EXCEPT !.page = @ - 1])
NextBills == BillsAfter /\ PressBill /\ SetChoice([choice EXCEPT !.page = @ + 1])
LastBills == BillsAfter /\ PressBill /\ SetChoice([choice EXCEPT !.page = invoices.pages - 1])

-----------------------------------------------------------------------------
(* The drawer.                                                             *)

\* read: the readings of the detail could be read.
NoBillDrawer ==
  [bill |-> NoBill, detail |-> NoBill, read |-> TRUE, asking |-> NoBill, paid |-> FALSE,
   tab |-> "overview"]

\* Opening mounts the drawer.  Another bill in the open drawer asks for its own
\* detail and leaves everything else.
BillOpenedOn(d, id) ==
  IF d.bill = NoBill THEN [NoBillDrawer EXCEPT !.bill = id, !.asking = id]
  ELSE IF d.bill = id THEN d
  ELSE [d EXCEPT !.bill = id, !.asking = id]

\* A row is clicked; the loader lies over the rows.
SelectBill(b) ==
  /\ ~invoices.loading /\ billDrawer.bill = NoBill
  /\ billPresses < MaxBillPresses
  /\ billPresses' = billPresses + 1
  /\ billDrawer' = BillOpenedOn(billDrawer, b.id)
  /\ UNCHANGED <<billLinked, choice, billLists, invoices, billTour>>

InDrawer(d) ==
  /\ billDrawer.bill # NoBill
  /\ billDrawer' = d
  /\ UNCHANGED <<billLinked, choice, billLists, invoices, billTour, billPresses>>

\* The answer is for the bill that asked last; without its days when the query for the
\* readings failed.  A bill that is not found stays as the list told it.
BillDetailArrives ==
  /\ billDrawer.asking # NoBill
  /\ \/ /\ BillFound(billDrawer.asking)
        /\ \E ok \in BOOLEAN :
             InDrawer([billDrawer EXCEPT !.detail = billDrawer.asking, !.read = ok,
                                         !.asking = NoBill])
     \/ InDrawer([billDrawer EXCEPT !.asking = NoBill])

\* detail?.bill || bill, and what the button has said since.
ShownBill(d) == IF d.detail # NoBill THEN d.detail ELSE d.bill
ShownStatus(d) == IF d.paid THEN "PAID" ELSE BillOf(ShownBill(d)).status
ShownCity(d) ==
  IF d.detail # NoBill THEN CityInDetail(BillOf(d.detail)) ELSE CityInList(BillOf(d.bill))

OpenBillTab(t) == InDrawer([billDrawer EXCEPT !.tab = t])
PayBill ==
  /\ billDrawer.bill # NoBill /\ billDrawer.tab \in {"overview", "settlement"}
  /\ ShownStatus(billDrawer) # "PAID"
  /\ InDrawer([billDrawer EXCEPT !.paid = TRUE])
RevertBill ==
  /\ billDrawer.bill # NoBill /\ billDrawer.tab = "settlement"
  /\ ShownStatus(billDrawer) = "PAID"
  /\ InDrawer([billDrawer EXCEPT !.paid = FALSE])

\* Mutant: the drawer stays mounted when it is closed.
KeptMounted == [billDrawer EXCEPT !.bill = NoBill]
Unmounted == NoBillDrawer
CloseBill == InDrawer(Unmounted)

\* What the header, the cards and the tabs tell: of which bill, whether it is paid, the
\* city, and the volume between its two readings.  The days are the detail's, all of them
\* zero when they could not be read; until it is there, none are drawn, and the consumer
\* and the charges are as the row has them.
HeaderTellsOf(d) == [bill |-> ShownBill(d), status |-> ShownStatus(d), city |-> ShownCity(d)]
VolumeOf(b) == Used(b.from, b.to)
CardsTell(d) ==
  [bill |-> ShownBill(d), status |-> ShownStatus(d), volume |-> VolumeOf(BillOf(ShownBill(d)))]
OverviewOf(d) == [bill |-> ShownBill(d), status |-> ShownStatus(d), city |-> ShownCity(d)]
DaysRead(d) == IF d.read THEN BillOf(d.detail).days ELSE <<>>
DaysOf(d) == IF d.detail = NoBill THEN <<>> ELSE DailyReadings(DaysRead(d))
ConsumerOf(d) == [bill |-> ShownBill(d), city |-> ShownCity(d)]
TariffOf(d) == [bill |-> ShownBill(d), volume |-> VolumeOf(BillOf(ShownBill(d)))]
SettlementOf(d) == [bill |-> ShownBill(d), status |-> ShownStatus(d)]

\* The text of the invoice, and the days as a file.
InvoiceText(d) ==
  [bill |-> ShownBill(d), status |-> ShownStatus(d), city |-> ShownCity(d),
   volume |-> VolumeOf(BillOf(ShownBill(d)))]
DaysFile(d) == DaysOf(d)

-----------------------------------------------------------------------------
(* An answer.  The bill of the address is opened whenever it is listed.    *)
SameBills(q) == [q EXCEPT !.page = 0]

BillsArrive(i) ==
  LET q == billLists[i].q
      ans == BillAnswer(q)
  IN /\ billLists' = Arrived(billLists, i)
     /\ invoices' = [rows |-> ans.content, of |-> q, late |-> billLists[i].late,
                     failed |-> FALSE, total |-> ans.total, pages |-> ans.pages,
                     stats |-> ans.stats, loading |-> FALSE]
     /\ billDrawer' = IF billLinked # NoBill /\ billLinked \in {b.id : b \in Members(ans.content)}
                        THEN BillOpenedOn(billDrawer, billLinked) ELSE billDrawer
     /\ billTour' = Seen(billTour, SameBills(q), q.page, ans.content)
     /\ UNCHANGED <<billLinked, choice, billPresses>>

BillsFail(i) ==
  /\ billLists' = Arrived(billLists, i)
  /\ invoices' = [invoices EXCEPT !.loading = FALSE, !.failed = TRUE]
  /\ UNCHANGED <<billLinked, choice, billDrawer, billTour, billPresses>>

BillingInit ==
  /\ billLinked \in BillLink
  /\ \E n \in BillSize :
       choice = [input |-> "", search |-> "", timer |-> TRUE, period |-> "all-time",
                 status |-> "ALL", city |-> "ALL", page |-> 0, size |-> n]
  /\ billLists = Send(<<>>, BillQuery(choice))
  /\ invoices = [rows |-> <<>>, of |-> BillQuery(choice), late |-> FALSE, failed |-> FALSE,
                 total |-> 0, pages |-> 1, stats |-> BillStats({}), loading |-> TRUE]
  /\ billDrawer = NoBillDrawer
  /\ billTour = [list |-> SameBills(BillQuery(choice)), pages |-> {}, rows |-> {}]
  /\ billPresses = 0

BillingNext ==
  \/ \E w \in BillWord : TypeBill(w)
  \/ BillSearchStarts
  \/ \E p \in Period : PickPeriod(p)
  \/ \E s \in BillStatus : PickBillStatus(s)
  \/ \E c \in BillCity : PickCity(c)
  \/ \E n \in BillSize : PickBillSize(n)
  \/ CardTotal \/ CardOverdue \/ ResetBills \/ RefreshBills
  \/ FirstBills \/ PreviousBills \/ NextBills \/ LastBills
  \/ \E i \in DOMAIN billLists : BillsArrive(i) \/ BillsFail(i)
  \/ \E b \in Members(invoices.rows) : SelectBill(b)
  \/ BillDetailArrives
  \/ \E t \in {"overview", "settlement"} : OpenBillTab(t)
  \/ PayBill \/ RevertBill \/ CloseBill

-----------------------------------------------------------------------------
\* BillDetailDrawer.tsx:120 and 145: everything the drawer tells is of the bill that is
\* open, with one status, one volume and one city, and the city is the list's unless the
\* name of the site tells it better than the number and the address.  (Where the address
\* names a bill, an answer of the list may put it into an open drawer.)
OneBillTold ==
  LET d == billDrawer
      told == {HeaderTellsOf(d), CardsTell(d), OverviewOf(d), ConsumerOf(d), TariffOf(d),
               SettlementOf(d), InvoiceText(d)}
      b == BillOf(d.bill)
  IN billLinked = NoBill /\ d.bill # NoBill =>
       /\ \A t \in told : t.bill = d.bill
       /\ InvoiceText(d).volume = Used(b.from, b.to)
       /\ CityInDetail(b) \in {"Puri", b.site} \/ b.site \notin {"Puri", "Cuttack"} =>
            InvoiceText(d).city = CityInList(b)

\* billing.ts:217: the days of the detail are as many as the drawer has room for, and
\* what they say was used is what the readings that are kept rose by, never less; a bill
\* whose readings were none, or could not be read, has used nothing (billing.ts:253).
DaysAddUp ==
  LET rows == DaysFile(billDrawer)
      upTo[i \in 0..Len(rows)] == IF i = 0 THEN 0 ELSE upTo[i - 1] + rows[i].used
      sum == upTo[Len(rows)]
  IN billDrawer.detail # NoBill =>
       LET kept == KeptDays(DaysRead(billDrawer))
       IN /\ Len(rows) = DaysKept
          /\ kept # <<>> =>
               /\ sum >= kept[Len(kept)] - kept[1]
               /\ (\A i \in 2..Len(kept) : kept[i - 1] <= kept[i]) => sum = kept[Len(kept)] - kept[1]

DrawerOfBill == OneBillTold /\ DaysAddUp

\* A drawer that was opened anew shows the bill as it is stored.
UnpaidWhenOpened == billDrawer.bill = NoBill => ~billDrawer.paid

\* BillingPage.tsx:87: when nothing is on its way, the rows are those of the choice
\* and of the word in the box, unless a load failed since or the answer shown was
\* overtaken.
BillsForAsked ==
  billLists = <<>> /\ ~invoices.late /\ ~invoices.failed =>
    /\ invoices.of = BillQuery(choice)
    /\ ~choice.timer => choice.search = choice.input

\* billing.ts:107 and BillingPage.tsx:750: whoever has seen every page up to the one
\* where there is no next has seen every bill that matches among the newest of the
\* period, and the cards add up to them.
BillPagesComplete ==
  LET q == BillQuery(choice)
  IN invoices.of = q /\ ~invoices.loading /\ ~BillsAfter
       /\ billTour.list = SameBills(q) /\ 0..q.page \subseteq billTour.pages
     => /\ billTour.rows = {b \in Members(UpstreamBills(q.period)) : BillMatches(b, q)}
        /\ invoices.stats = BillStats(billTour.rows)
=============================================================================
