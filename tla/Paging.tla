------------------------------- MODULE Paging -------------------------------
(* How the console pages the lists that grow: what a request asks for, the rows  *)
(* of the query, what the screen shows of them, and the links it draws.  A list   *)
(* is a sequence of rows in the order of the query; a query string is a function  *)
(* from parameter names to values, where an integer stands for its decimal text.  *)
EXTENDS GoInts, Sequences

PageSizes == {25, 50, 100, 200}
DefaultPageSize == 50

\* strconv.Atoi succeeds on a parameter.
Numeric(query, name) == name \in DOMAIN query /\ Decimal(query[name])

PageSizeOf(query) ==
    IF Numeric(query, "per") /\ query["per"] \in PageSizes THEN query["per"] ELSE DefaultPageSize

NumberOf(query) ==
    IF Numeric(query, "page") /\ query["page"] >= 1 THEN query["page"] ELSE 1

\* One row more than the page holds, to learn whether there is another page.
PageOf(query) ==
    LET size == PageSizeOf(query)
    IN  [limit |-> size + 1, offset |-> Wrapped((NumberOf(query) - 1) * size),
         number |-> NumberOf(query), size |-> size]

AtMost(a, b) == IF a <= b THEN a ELSE b

\* LIMIT and OFFSET of the list queries; a negative offset is an error of theirs.
Select(list, page) ==
    SubSeq(list, page.offset + 1, AtMost(page.offset + page.limit, Len(list)))

HasPrev(page) == page.number > 1
HasNext(rows, page) == Len(rows) > page.size
Trimmed(rows, page) == IF HasNext(rows, page) THEN SubSeq(rows, 1, page.size) ELSE rows

Pager(rows, page) ==
    [hasPrev |-> HasPrev(page), hasNext |-> HasNext(rows, page),
     from |-> IF rows = << >> THEN 0 ELSE page.offset + 1,
     to   |-> page.offset + Len(Trimmed(rows, page))]

\* The address with one parameter changed, or dropped, and the others left alone.
Without(query, name) == [n \in DOMAIN query \ {name} |-> query[n]]
With(query, name, value) ==
    [n \in DOMAIN query \union {name} |-> IF n = name THEN value ELSE query[n]]

PageURL(query, number) ==
    IF number <= 1 THEN Without(query, "page") ELSE With(query, "page", number)

SizeURL(query, size) ==
    IF size = DefaultPageSize THEN Without(Without(query, "page"), "per")
    ELSE With(Without(query, "page"), "per", size)

-----------------------------------------------------------------------------
(* Pages that the program can count to: (number - 1) * size fits in an int.       *)
Countable(query) ==
    NumberOf(query) \in Nat /\ NumberOf(query) * PageSizeOf(query) < HalfRange

\* How many rows the pages before this one hold.
Before(query) == (NumberOf(query) - 1) * PageSizeOf(query)

Shown(list, query) == Trimmed(Select(list, PageOf(query)), PageOf(query))

\* The page shows the row at this place of the list.
ShowsRow(list, query, i) ==
    \E k \in 1..Len(Shown(list, query)) : Before(query) + k = i
=============================================================================
