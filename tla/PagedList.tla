------------------------------ MODULE PagedList ------------------------------
(***************************************************************************)
(* What the servers and the pages share about lists that are read page by  *)
(* page: pages count from 0, and a page past the end is empty.             *)
(***************************************************************************)
EXTENDS Integers, Sequences, FiniteSets

\* OFFSET from LIMIT size
Slice(rows, from, size) ==
  SubSeq(rows, from + 1, IF from + size < Len(rows) THEN from + size ELSE Len(rows))

\* content.slice(page * size, (page + 1) * size)
Chunk(rows, page, size) == Slice(rows, page * size, size)

\* Math.ceil(total / size)
PageCount(total, size) == (total + size - 1) \div size

Members(rows) == {rows[i] : i \in DOMAIN rows}

\* rows.filter: the rows at some places, in their order.
RowsAt(rows, places) ==
  [k \in 1..Cardinality(places) |->
     rows[CHOOSE i \in places : Cardinality({j \in places : j <= i}) = k]]

\* Requests in the order they were sent.  The i-th answer arrives: it leaves, and
\* the requests sent before it are late from now on.
Send(requests, q) == Append(requests, [q |-> q, late |-> FALSE])
Arrived(requests, i) ==
  [j \in 1..(Len(requests) - 1) |->
     IF j < i THEN [requests[j] EXCEPT !.late = TRUE] ELSE requests[j + 1]]

\* The pages of one list seen so far, and the rows on them.
Seen(tour, list, page, rows) ==
  IF tour.list = list
    THEN [tour EXCEPT !.pages = @ \cup {page}, !.rows = @ \cup Members(rows)]
    ELSE [list |-> list, pages |-> {page}, rows |-> Members(rows)]
=============================================================================
