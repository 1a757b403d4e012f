---------------------------- MODULE Texts_proofs ----------------------------
(* What is proved of the operators that read and write addresses, forms and        *)
(* parameter strings: the console's pager, and the two encodings of a receipt.    *)
EXTENDS Paging, Checkout, SequenceTheorems, TLAPS

-----------------------------------------------------------------------------
(* Paging.                                                                    *)

(* A page has a number of one or more and one of the sizes, whatever the query asks. *)
LEMMA NumberAndSize ==
    ASSUME HalfRange \in Nat, NEW query
    PROVE  NumberOf(query) \in Nat \ {0} /\ PageSizeOf(query) \in PageSizes
  BY DEF NumberOf, PageSizeOf, Numeric, Decimal, PageSizes, DefaultPageSize, Ints

(* Below the overflow, the offset is that of the page.                            *)
LEMMA OffsetOfPage ==
    ASSUME HalfRange \in Nat \ {0}, NEW query, Countable(query)
    PROVE  /\ PageOf(query).offset = Before(query)
           /\ PageOf(query).offset \in Nat
           /\ PageOf(query).size = PageSizeOf(query)
           /\ PageOf(query).limit = PageSizeOf(query) + 1
           /\ PageOf(query).number = NumberOf(query)
  <1> DEFINE n == NumberOf(query)
             z == PageSizeOf(query)
  <1>1. n \in Nat \ {0} /\ z \in PageSizes
    BY NumberAndSize
  <1>2. (n - 1) * z \in Nat /\ (n - 1) * z <= n * z
    BY <1>1 DEF PageSizes
  <1>3. (n - 1) * z < HalfRange
    <2>1. n * z \in Nat /\ n * z < HalfRange
      BY <1>1 DEF Countable, PageSizes
    <2> QED BY <1>2, <2>1
  <1>4. ASSUME NEW o \in Nat, o < HalfRange PROVE Wrapped(o) = o
    <2>1. (o + HalfRange) % (2 * HalfRange) = o + HalfRange
      BY <1>4
    <2> QED BY <2>1, <1>4 DEF Wrapped
  <1> QED BY <1>2, <1>3, <1>4 DEF PageOf, Before

(* What the query selects: as many rows as there are past the offset, and one     *)
(* more than the page at most.                                                  *)
LEMMA Selected ==
    ASSUME HalfRange \in Nat \ {0}, NEW S, NEW list \in Seq(S), NEW query, Countable(query),
           NEW rows, rows = Select(list, PageOf(query))
    PROVE  /\ Before(query) \in Nat /\ PageSizeOf(query) \in Nat \ {0}
           /\ rows \in Seq(S)
           /\ Len(rows) = IF Len(list) <= Before(query) THEN 0
                          ELSE AtMost(PageSizeOf(query) + 1, Len(list) - Before(query))
           /\ \A k \in 1..Len(rows) : rows[k] = list[Before(query) + k]
  <1> DEFINE o == Before(query)
             z == PageSizeOf(query)
             m == AtMost(o + z + 1, Len(list))
  <1>1. o \in Nat /\ z \in Nat \ {0} /\ rows = SubSeq(list, o + 1, m)
    <2>1. PageOf(query).offset = o /\ PageOf(query).limit = z + 1 /\ o \in Nat
      BY OffsetOfPage
    <2>2. z \in Nat \ {0}
      BY NumberAndSize DEF PageSizes
    <2>3. o + (z + 1) = o + z + 1
      BY <2>1, <2>2
    <2> HIDE DEF o, z
    <2> QED BY <2>1, <2>2, <2>3 DEF Select
  <1> HIDE DEF o, z
  <1>2. Len(list) \in Nat /\ m \in Nat /\ m <= Len(list)
    BY <1>1, LenProperties DEF AtMost
  <1>3. \A i \in (o + 1)..m : list[i] \in S
    <2>1. \A i \in 1..Len(list) : list[i] \in S
      BY ElementOfSeq
    <2> HIDE DEF m
    <2> QED BY <2>1, <1>1, <1>2
  <1>4. rows \in Seq(S) /\ Len(rows) = (IF o + 1 <= m THEN m - (o + 1) + 1 ELSE 0)
    <2> HIDE DEF m
    <2> QED BY <1>1, <1>2, <1>3, SubSeqProperties
  <1>5. \A k \in 1..Len(rows) : rows[k] = list[o + k]
    <2> SUFFICES ASSUME NEW k \in 1..Len(rows) PROVE rows[k] = list[o + k]
      OBVIOUS
    <2> HIDE DEF m
    <2>1. SubSeq(list, o + 1, m)[k] = list[(o + 1) + k - 1]
      BY <1>1, <1>2, <1>3, <1>4, SubSeqProperties
    <2> QED BY <2>1, <1>1, <1>4
  <1>6. Len(rows) = IF Len(list) <= o THEN 0 ELSE AtMost(z + 1, Len(list) - o)
    BY <1>1, <1>2, <1>4 DEF AtMost
  <1> QED BY <1>1, <1>4, <1>5, <1>6 DEF o, z

(* The screen and its pager agree (paging.go:101): the rows shown are the rows    *)
(* From..To of the list, at most a page of them and fewer only at its end, and     *)
(* there is a next page exactly when there are rows past To.                     *)
THEOREM PagerTellsTheTruth ==
    ASSUME HalfRange \in Nat \ {0}, NEW S, NEW list \in Seq(S), NEW query, Countable(query)
    PROVE  LET pager == Pager(Select(list, PageOf(query)), PageOf(query))
               shown == Shown(list, query)
               o == Before(query)
           IN  /\ Len(shown) = IF Len(list) <= o THEN 0
                               ELSE AtMost(PageSizeOf(query), Len(list) - o)
               /\ \A k \in 1..Len(shown) : shown[k] = list[o + k]
               /\ pager.to = o + Len(shown)
               /\ pager.from = IF shown = << >> THEN 0 ELSE o + 1
               /\ pager.hasNext <=> Len(list) > o + PageSizeOf(query)
               /\ pager.hasPrev <=> NumberOf(query) > 1
  <1> DEFINE page == PageOf(query)
             o == Before(query)
             z == PageSizeOf(query)
             rows == Select(list, page)
             shown == Shown(list, query)
  <1>1. /\ o \in Nat /\ z \in Nat \ {0} /\ rows \in Seq(S)
        /\ Len(rows) = IF Len(list) <= o THEN 0 ELSE AtMost(z + 1, Len(list) - o)
        /\ \A k \in 1..Len(rows) : rows[k] = list[o + k]
    <2> HIDE DEF o, z, rows, page
    <2>1. rows = Select(list, PageOf(query))
      BY DEF rows, page
    <2> QED BY <2>1, Selected DEF o, z
  <1>2. page.offset = o /\ page.size = z /\ page.number = NumberOf(query)
    BY OffsetOfPage
  <1> HIDE DEF o, z, rows, page
  <1>3. Len(list) \in Nat /\ Len(rows) \in Nat
    BY <1>1, LenProperties
  <1>4. Len(rows) > z <=> Len(list) > o + z
    BY <1>1, <1>3 DEF AtMost
  <1>5. shown = IF Len(rows) > z THEN SubSeq(rows, 1, z) ELSE rows
    BY <1>2 DEF shown, rows, page, Shown, Trimmed, HasNext
  <1> HIDE DEF shown
  <1>6. /\ Len(shown) = IF Len(list) <= o THEN 0 ELSE AtMost(z, Len(list) - o)
        /\ \A k \in 1..Len(shown) : shown[k] = list[o + k]
        /\ shown \in Seq(S)
    <2>1. CASE Len(rows) > z
      <3>1. \A i \in 1..z : rows[i] \in S
        BY <1>1, <1>3, <2>1, ElementOfSeq
      <3>2. /\ shown \in Seq(S) /\ Len(shown) = z
            /\ \A k \in 1..z : shown[k] = rows[k]
        <4>1. /\ SubSeq(rows, 1, z) \in Seq(S)
              /\ Len(SubSeq(rows, 1, z)) = (IF 1 <= z THEN z - 1 + 1 ELSE 0)
              /\ \A i \in 1..(z - 1 + 1) : SubSeq(rows, 1, z)[i] = rows[1 + i - 1]
          BY <1>1, <3>1, SubSeqProperties
        <4>2. z - 1 + 1 = z /\ 1 <= z /\ \A i \in 1..z : 1 + i - 1 = i
          BY <1>1
        <4> QED BY <4>1, <4>2, <1>5, <2>1
      <3>3. Len(list) > o + z /\ Len(list) - o > z
        BY <1>1, <1>3, <1>4, <2>1
      <3>4. Len(shown) = IF Len(list) <= o THEN 0 ELSE AtMost(z, Len(list) - o)
        BY <3>2, <3>3, <1>1, <1>3 DEF AtMost
      <3>5. \A k \in 1..z : k \in 1..Len(rows)
        BY <1>1, <1>3, <2>1
      <3> QED BY <3>2, <3>4, <3>5, <1>1
    <2>2. CASE ~(Len(rows) > z)
      <3>1. shown = rows
        BY <2>2, <1>5
      <3>2. Len(rows) = IF Len(list) <= o THEN 0 ELSE AtMost(z, Len(list) - o)
        BY <2>2, <1>1, <1>3 DEF AtMost
      <3> QED BY <3>1, <3>2, <1>1
    <2> QED BY <2>1, <2>2
  <1>7. rows = << >> <=> shown = << >>
    <2>1. Len(shown) \in Nat /\ (Len(rows) = 0 <=> Len(shown) = 0)
      BY <1>1, <1>3, <1>6 DEF AtMost
    <2> QED BY <2>1, <1>1, <1>6, EmptySeq
  <1>8. /\ Pager(rows, page).to = o + Len(shown)
        /\ Pager(rows, page).from = IF shown = << >> THEN 0 ELSE o + 1
        /\ Pager(rows, page).hasNext <=> Len(rows) > z
        /\ Pager(rows, page).hasPrev <=> NumberOf(query) > 1
    <2>1. Trimmed(rows, page) = shown
      BY <1>5, <1>2 DEF Trimmed, HasNext
    <2> QED BY <2>1, <1>2, <1>7 DEF Pager, HasNext, HasPrev
  <1> QED BY <1>4, <1>6, <1>8 DEF o, z, rows, page, shown

(* The page a row is on, by its place in the list.                                *)
LEMMA PageOfRow ==
    ASSUME NEW n \in Nat \ {0}, NEW z \in PageSizes, NEW i \in Nat \ {0}
    PROVE  ((n - 1) * z < i /\ i <= (n - 1) * z + z) <=> n = ((i - 1) \div z) + 1
  <1>1. CASE z = 25
    <2>1. ((n - 1) * 25 < i /\ i <= (n - 1) * 25 + 25) <=> n = ((i - 1) \div 25) + 1
      OBVIOUS
    <2> QED BY <2>1, <1>1
  <1>2. CASE z = 50
    <2>1. ((n - 1) * 50 < i /\ i <= (n - 1) * 50 + 50) <=> n = ((i - 1) \div 50) + 1
      OBVIOUS
    <2> QED BY <2>1, <1>2
  <1>3. CASE z = 100
    <2>1. ((n - 1) * 100 < i /\ i <= (n - 1) * 100 + 100) <=> n = ((i - 1) \div 100) + 1
      OBVIOUS
    <2> QED BY <2>1, <1>3
  <1>4. CASE z = 200
    <2>1. ((n - 1) * 200 < i /\ i <= (n - 1) * 200 + 200) <=> n = ((i - 1) \div 200) + 1
      OBVIOUS
    <2> QED BY <2>1, <1>4
  <1> QED BY <1>1, <1>2, <1>3, <1>4 DEF PageSizes

(* Reading on from page to page, every row of a list that stands still is on one  *)
(* page and on no other (paging.go:10 "can still be read to the bottom").        *)
THEOREM EveryRowOnOnePage ==
    ASSUME HalfRange \in Nat \ {0}, NEW S, NEW list \in Seq(S), NEW i \in 1..Len(list),
           NEW query, Countable(query)
    PROVE  ShowsRow(list, query, i) <=> NumberOf(query) = ((i - 1) \div PageSizeOf(query)) + 1
  <1> DEFINE o == Before(query)
             z == PageSizeOf(query)
             n == NumberOf(query)
  <1>1. n \in Nat \ {0} /\ z \in PageSizes
    BY NumberAndSize
  <1>2. Len(Shown(list, query)) = IF Len(list) <= o THEN 0 ELSE AtMost(z, Len(list) - o)
    BY PagerTellsTheTruth
  <1>3. Len(list) \in Nat /\ i \in Nat \ {0} /\ i <= Len(list)
    BY LenProperties
  <1>4. o \in Nat
    BY <1>1 DEF PageSizes, Before
  <1>5. ShowsRow(list, query, i) <=> o < i /\ i <= o + z
    <2>1. ASSUME o < i, i <= o + z PROVE ShowsRow(list, query, i)
      <3> HIDE DEF o, z
      <3>1. i - o \in 1..Len(Shown(list, query)) /\ o + (i - o) = i
        BY <1>1, <1>2, <1>3, <1>4, <2>1 DEF AtMost, PageSizes
      <3> QED BY <3>1 DEF ShowsRow, o, z
    <2>2. ASSUME ShowsRow(list, query, i) PROVE o < i /\ i <= o + z
      <3> PICK k \in 1..Len(Shown(list, query)) : o + k = i
        BY <2>2 DEF ShowsRow
      <3> HIDE DEF o, z
      <3> QED BY <1>1, <1>2, <1>3, <1>4 DEF AtMost, PageSizes
    <2> QED BY <2>1, <2>2
  <1>6. (o < i /\ i <= o + z) <=> n = ((i - 1) \div z) + 1
    BY <1>1, <1>3, PageOfRow DEF Before
  <1> QED BY <1>5, <1>6

(* A link of the pager asks for the page it names, of the same size, and leaves    *)
(* every other parameter alone; a link of the size picker starts again at the      *)
(* first page of its size (paging.go:60, "paging never quietly widens what is      *)
(* being read").                                                                *)
THEOREM LinksKeepTheFilter ==
    ASSUME HalfRange \in Nat, HalfRange > 200, NEW query, NEW number \in Ints, number >= 1,
           NEW size \in PageSizes
    PROVE  /\ NumberOf(PageURL(query, number)) = number
           /\ PageSizeOf(PageURL(query, number)) = PageSizeOf(query)
           /\ NumberOf(SizeURL(query, size)) = 1
           /\ PageSizeOf(SizeURL(query, size)) = size
           /\ \A name \in DOMAIN query \ {"page", "per"} :
                 /\ name \in DOMAIN PageURL(query, number) \intersect DOMAIN SizeURL(query, size)
                 /\ PageURL(query, number)[name] = query[name]
                 /\ SizeURL(query, size)[name] = query[name]
  <1>1. NumberOf(PageURL(query, number)) = number
    BY DEF NumberOf, Numeric, Decimal, PageURL, With, Without, Ints
  <1>2. PageSizeOf(PageURL(query, number)) = PageSizeOf(query)
    BY DEF PageSizeOf, Numeric, Decimal, PageURL, With, Without
  <1>3. NumberOf(SizeURL(query, size)) = 1
    BY DEF NumberOf, Numeric, Decimal, SizeURL, With, Without
  <1>4. PageSizeOf(SizeURL(query, size)) = size
    BY DEF PageSizeOf, Numeric, Decimal, SizeURL, With, Without, PageSizes, DefaultPageSize, Ints
  <1>5. ASSUME NEW name \in DOMAIN query \ {"page", "per"}
        PROVE  /\ name \in DOMAIN PageURL(query, number) \intersect DOMAIN SizeURL(query, size)
               /\ PageURL(query, number)[name] = query[name]
               /\ SizeURL(query, size)[name] = query[name]
    BY DEF PageURL, SizeURL, With, Without
  <1> QED BY <1>1, <1>2, <1>3, <1>4, <1>5

-----------------------------------------------------------------------------
(* Checkout.                                                                  *)

(* What an encoding carries under each key.                                       *)
LEMMA CarriedPairs ==
    ASSUME NEW r, NEW p \in PairsOf(r)
    PROVE  /\ p.kind = "pair" /\ p = Pair(p.key, p.field, p.value)
           /\ p.key \in {"m", "a", "ac", "l", "c", "ct", "cr"}
           /\ p.key = "m" => p.value = r.merchant
           /\ p.key = "a" => p.value = r.amount
           /\ p.key = "ac" => p.field \in DOMAIN r.account /\ p.value = r.account[p.field]
           /\ p.key = "l" => p.value = r.lang
           /\ p.key = "c" => p.value = r.callback
           /\ p.key = "ct" => p.value = r.timeout
           /\ p.key = "cr" => p.value = r.currency
  <1>1. CASE p \in {Pair("ac", f, r.account[f]) : f \in DOMAIN r.account}
    BY <1>1 DEF Pair
  <1>2. CASE p = Pair("m", "", r.merchant)
    <2>1. p.kind = "pair" /\ p.key = "m" /\ p.field = "" /\ p.value = r.merchant
      BY <1>2 DEF Pair
    <2>2. p = Pair(p.key, p.field, p.value)
      BY <1>2, <2>1
    <2> QED BY <2>1, <2>2
  <1>3. CASE p = Pair("a", "", r.amount)
    <2>1. p.kind = "pair" /\ p.key = "a" /\ p.field = "" /\ p.value = r.amount
      BY <1>3 DEF Pair
    <2>2. p = Pair(p.key, p.field, p.value)
      BY <1>3, <2>1
    <2> QED BY <2>1, <2>2
  <1>4. CASE p = Pair("l", "", r.lang)
    <2>1. p.kind = "pair" /\ p.key = "l" /\ p.field = "" /\ p.value = r.lang
      BY <1>4 DEF Pair
    <2>2. p = Pair(p.key, p.field, p.value)
      BY <1>4, <2>1
    <2> QED BY <2>1, <2>2
  <1>5. CASE p = Pair("c", "", r.callback)
    <2>1. p.kind = "pair" /\ p.key = "c" /\ p.field = "" /\ p.value = r.callback
      BY <1>5 DEF Pair
    <2>2. p = Pair(p.key, p.field, p.value)
      BY <1>5, <2>1
    <2> QED BY <2>1, <2>2
  <1>6. CASE p = Pair("ct", "", r.timeout)
    <2>1. p.kind = "pair" /\ p.key = "ct" /\ p.field = "" /\ p.value = r.timeout
      BY <1>6 DEF Pair
    <2>2. p = Pair(p.key, p.field, p.value)
      BY <1>6, <2>1
    <2> QED BY <2>1, <2>2
  <1>7. CASE p = Pair("cr", "", r.currency)
    <2>1. p.kind = "pair" /\ p.key = "cr" /\ p.field = "" /\ p.value = r.currency
      BY <1>7 DEF Pair
    <2>2. p = Pair(p.key, p.field, p.value)
      BY <1>7, <2>1
    <2> QED BY <2>1, <2>2
  <1> QED BY <1>1, <1>2, <1>3, <1>4, <1>5, <1>6, <1>7 DEF PairsOf, Optional, Counted

\* Under this key a receipt carries this value, or nothing where it is the default.
Carries(r, key, field, none, value) ==
    /\ \A p \in PairsOf(r) : p.key = key /\ p.field = field => p.value = value
    /\ (\E p \in PairsOf(r) : p.key = key /\ p.field = field) \/ value = none

(* A key the encoding carries is read back as it was written, and one it left out   *)
(* as the receipt had it.                                                       *)
LEMMA ReadsBack ==
    ASSUME NEW s, NEW r, Encodes(s, r),
           NEW key, NEW field, NEW none, NEW value, Carries(r, key, field, none, value)
    PROVE  ReadKey(s, key, field, none) = value
  <1> DEFINE at == Places(s, key, field)
  <1>1. \A p \in PairsOf(r) : p.kind = "pair" /\ p = Pair(p.key, p.field, p.value)
    BY CarriedPairs
  <1>2. \A i \in at : s[i] \in PairsOf(r) /\ s[i].key = key /\ s[i].field = field
    BY DEF Encodes, Places
  <1>3. \A i, j \in at : i = j
    <2> SUFFICES ASSUME NEW i \in at, NEW j \in at PROVE s[i] = s[j]
      BY DEF Encodes, Places
    <2>1. s[i] = Pair(key, field, value) /\ s[j] = Pair(key, field, value)
      BY <1>1, <1>2 DEF Carries
    <2> QED BY <2>1
  <1>4. CASE at = {}
    <2>1. ~\E p \in PairsOf(r) : p.key = key /\ p.field = field
      BY <1>1, <1>4 DEF Encodes, Places
    <2> QED BY <1>4, <2>1 DEF ReadKey, Carries
  <1>5. CASE at # {}
    <2>1. at \subseteq Int
      BY DEF Places, Encodes
    <2>2. PICK i \in at : \A j \in at : j <= i
      <3>1. PICK i \in at : TRUE
        BY <1>5
      <3> QED BY <3>1, <1>3, <2>1
    <2>3. ReadKey(s, key, field, none) = s[CHOOSE k \in at : \A j \in at : j <= k].value
      BY <1>5 DEF ReadKey
    <2>4. (CHOOSE k \in at : \A j \in at : j <= k) \in at
      BY <2>2
    <2> HIDE DEF at
    <2> QED BY <1>2, <2>3, <2>4 DEF Carries
  <1> QED BY <1>4, <1>5

(* Nothing of a complete receipt is cut before its key ends.                       *)
LEMMA NothingIsCut ==
    ASSUME NEW r, Complete(r), NEW s, Encodes(s, r)
    PROVE  [i \in DOMAIN s |-> Cut(s[i])] = s
  <1>1. ASSUME NEW i \in DOMAIN s PROVE Cut(s[i]) = s[i]
    <2>1. s[i] \in PairsOf(r)
      BY DEF Encodes
    <2>2. s[i].key = "ac" => s[i].field \in DOMAIN r.account
      BY <2>1, CarriedPairs
    <2> QED BY <2>2 DEF Cut, Complete
  <1> QED BY <1>1 DEF Encodes

(* EncodeGET and ParseGET agree ("which makes the result testable and cacheable",  *)
(* receipt.go:75): a receipt with a merchant, an amount and an account, no field     *)
(* name of it blank or with a "=", no description or detail and no negative timeout   *)
(* or currency, written as a parameter string and read again, is the same receipt.   *)
THEOREM GETRoundTrips ==
    ASSUME HalfRange \in Nat, NEW r, Complete(r),
           NEW s, Encodes(s, r)
    PROVE  ParseGET(s) = r
  <1>1. ~\E i \in DOMAIN s : Refused(s[i])
    <2> SUFFICES ASSUME NEW i \in DOMAIN s PROVE ~Refused(s[i])
      OBVIOUS
    <2>1. s[i] \in PairsOf(r)
      BY DEF Encodes
    <2> DEFINE p == s[i]
    <2>2. /\ p.kind = "pair"
          /\ p.key = "ac" => p.field \in DOMAIN r.account
          /\ p.key = "a" => p.value = r.amount
          /\ p.key = "ct" => p.value = r.timeout
          /\ p.key = "cr" => p.value = r.currency
      BY <2>1, CarriedPairs
    <2>3. /\ Decimal(r.amount) /\ Decimal(r.timeout) /\ Decimal(r.currency)
          /\ "" \notin DOMAIN r.account
      BY DEF Complete, Decimal
    <2> HIDE DEF p
    <2>4. ~Refused(p)
      BY <2>2, <2>3 DEF Refused
    <2> QED BY <2>4 DEF p
  <1>2. /\ ReadKey(s, "m", "", "") = r.merchant
        /\ ReadKey(s, "a", "", 0) = r.amount
    <2>1. Carries(r, "m", "", "", r.merchant)
      <3>1. Pair("m", "", r.merchant) \in PairsOf(r)
        BY DEF PairsOf
      <3>2. \E p \in PairsOf(r) : p.key = "m" /\ p.field = ""
        BY <3>1 DEF Pair
      <3> QED BY <3>2, CarriedPairs DEF Carries
    <2>2. Carries(r, "a", "", 0, r.amount)
      <3>1. Pair("a", "", r.amount) \in PairsOf(r)
        BY DEF PairsOf
      <3>2. \E p \in PairsOf(r) : p.key = "a" /\ p.field = ""
        BY <3>1 DEF Pair
      <3> QED BY <3>2, CarriedPairs DEF Carries
    <2>3. ReadKey(s, "m", "", "") = r.merchant
      <3> DEFINE k == "m"
                 e == ""
      <3>1. Carries(r, k, e, e, r.merchant)
        BY <2>1
      <3> HIDE DEF k, e
      <3>2. ReadKey(s, k, e, e) = r.merchant
        BY <3>1, ReadsBack
      <3> QED BY <3>2 DEF k, e
    <2>4. ReadKey(s, "a", "", 0) = r.amount
      <3> DEFINE k == "a"
                 e == ""
                 z == 0
      <3>1. Carries(r, k, e, z, r.amount)
        BY <2>2
      <3> HIDE DEF k, e, z
      <3>2. ReadKey(s, k, e, z) = r.amount
        BY <3>1, ReadsBack
      <3> QED BY <3>2 DEF k, e, z
    <2> QED BY <2>3, <2>4
  <1>3. /\ ReadKey(s, "l", "", "") = r.lang
        /\ ReadKey(s, "c", "", "") = r.callback
    <2>1. Carries(r, "l", "", "", r.lang)
      <3>1. CASE r.lang # ""
        <4>1. Pair("l", "", r.lang) \in PairsOf(r)
          BY <3>1 DEF PairsOf, Optional
        <4>2. \E p \in PairsOf(r) : p.key = "l" /\ p.field = ""
          BY <4>1 DEF Pair
        <4> QED BY <4>2, CarriedPairs DEF Carries
      <3>2. CASE r.lang = ""
        BY <3>2, CarriedPairs DEF Carries
      <3> QED BY <3>1, <3>2
    <2>2. Carries(r, "c", "", "", r.callback)
      <3>1. CASE r.callback # ""
        <4>1. Pair("c", "", r.callback) \in PairsOf(r)
          BY <3>1 DEF PairsOf, Optional
        <4>2. \E p \in PairsOf(r) : p.key = "c" /\ p.field = ""
          BY <4>1 DEF Pair
        <4> QED BY <4>2, CarriedPairs DEF Carries
      <3>2. CASE r.callback = ""
        BY <3>2, CarriedPairs DEF Carries
      <3> QED BY <3>1, <3>2
    <2>3. ReadKey(s, "l", "", "") = r.lang
      <3> DEFINE k == "l"
                 e == ""
      <3>1. Carries(r, k, e, e, r.lang)
        BY <2>1
      <3> HIDE DEF k, e
      <3>2. ReadKey(s, k, e, e) = r.lang
        BY <3>1, ReadsBack
      <3> QED BY <3>2 DEF k, e
    <2>4. ReadKey(s, "c", "", "") = r.callback
      <3> DEFINE k == "c"
                 e == ""
      <3>1. Carries(r, k, e, e, r.callback)
        BY <2>2
      <3> HIDE DEF k, e
      <3>2. ReadKey(s, k, e, e) = r.callback
        BY <3>1, ReadsBack
      <3> QED BY <3>2 DEF k, e
    <2> QED BY <2>3, <2>4
  <1>4. /\ ReadKey(s, "ct", "", 0) = r.timeout
        /\ ReadKey(s, "cr", "", 0) = r.currency
    <2>1. Carries(r, "ct", "", 0, r.timeout)
      <3>1. CASE r.timeout > 0
        <4>1. Pair("ct", "", r.timeout) \in PairsOf(r)
          BY <3>1 DEF PairsOf, Counted
        <4>2. \E p \in PairsOf(r) : p.key = "ct" /\ p.field = ""
          BY <4>1 DEF Pair
        <4> QED BY <4>2, CarriedPairs DEF Carries
      <3>2. CASE r.timeout = 0
        BY <3>2, CarriedPairs DEF Carries
      <3>3. r.timeout \in Ints /\ r.timeout >= 0
        BY DEF Complete
      <3>4. r.timeout > 0 \/ r.timeout = 0
        BY <3>3 DEF Ints
      <3> QED BY <3>1, <3>2, <3>4
    <2>2. Carries(r, "cr", "", 0, r.currency)
      <3>1. CASE r.currency > 0
        <4>1. Pair("cr", "", r.currency) \in PairsOf(r)
          BY <3>1 DEF PairsOf, Counted
        <4>2. \E p \in PairsOf(r) : p.key = "cr" /\ p.field = ""
          BY <4>1 DEF Pair
        <4> QED BY <4>2, CarriedPairs DEF Carries
      <3>2. CASE r.currency = 0
        BY <3>2, CarriedPairs DEF Carries
      <3>3. r.currency \in Ints /\ r.currency >= 0
        BY DEF Complete
      <3>4. r.currency > 0 \/ r.currency = 0
        BY <3>3 DEF Ints
      <3> QED BY <3>1, <3>2, <3>4
    <2>3. ReadKey(s, "ct", "", 0) = r.timeout
      <3> DEFINE k == "ct"
                 e == ""
                 z == 0
      <3>1. Carries(r, k, e, z, r.timeout)
        BY <2>1
      <3> HIDE DEF k, e, z
      <3>2. ReadKey(s, k, e, z) = r.timeout
        BY <3>1, ReadsBack
      <3> QED BY <3>2 DEF k, e, z
    <2>4. ReadKey(s, "cr", "", 0) = r.currency
      <3> DEFINE k == "cr"
                 e == ""
                 z == 0
      <3>1. Carries(r, k, e, z, r.currency)
        BY <2>2
      <3> HIDE DEF k, e, z
      <3>2. ReadKey(s, k, e, z) = r.currency
        BY <3>1, ReadsBack
      <3> QED BY <3>2 DEF k, e, z
    <2> QED BY <2>3, <2>4
  <1>5. ReadAccount(s) = r.account
    <2> DEFINE F == {s[i].field : i \in {j \in DOMAIN s : s[j].kind = "pair" /\ s[j].key = "ac"}}
    <2>1. \A f \in DOMAIN r.account : Pair("ac", f, r.account[f]) \in PairsOf(r)
      BY DEF PairsOf
    <2>2. F = DOMAIN r.account
      <3>1. \A f \in F : f \in DOMAIN r.account
        BY CarriedPairs DEF Encodes
      <3>2. ASSUME NEW f \in DOMAIN r.account PROVE f \in F
        <4>1. PICK i \in DOMAIN s : s[i] = Pair("ac", f, r.account[f])
          BY <2>1 DEF Encodes
        <4> QED BY <4>1 DEF Pair
      <3> QED BY <3>1, <3>2
    <2>3. ASSUME NEW f \in DOMAIN r.account PROVE ReadKey(s, "ac", f, "") = r.account[f]
      <3>1. \E p \in PairsOf(r) : p.key = "ac" /\ p.field = f
        BY <2>1 DEF Pair
      <3>2. \A p \in PairsOf(r) : p.key = "ac" /\ p.field = f => p.value = r.account[f]
        BY CarriedPairs
      <3>3. Carries(r, "ac", f, "", r.account[f])
        BY <3>1, <3>2 DEF Carries
      <3>4. ReadKey(s, "ac", f, "") = r.account[f]
        <4> DEFINE k == "ac"
                   e == ""
        <4>1. Carries(r, k, f, e, r.account[f])
          BY <3>3
        <4> HIDE DEF k, e
        <4>2. ReadKey(s, k, f, e) = r.account[f]
          BY <4>1, ReadsBack
        <4> QED BY <4>2 DEF k, e
      <3> QED BY <3>4
    <2>4. ReadAccount(s) = [f \in DOMAIN r.account |-> r.account[f]]
      <3>1. ReadAccount(s) = [f \in F |-> ReadKey(s, "ac", f, "")]
        BY DEF ReadAccount
      <3> HIDE DEF F
      <3> QED BY <3>1, <2>2, <2>3
    <2> QED BY <2>4 DEF Complete
  <1>6. ReadGET(s) = r
    BY <1>2, <1>3, <1>4, <1>5 DEF ReadGET, Complete
  <1>7. [i \in DOMAIN s |-> Cut(s[i])] = s
    BY NothingIsCut
  <1> QED BY <1>1, <1>6, <1>7 DEF ParseGET, Validated, Complete

(* The exception is a real one: no parameter string is read as a receipt with a     *)
(* "=" in the name of an account field, so such a receipt never comes back          *)
(* (parse.go:30); what is before a first "=" has none in it.                      *)
THEOREM EqualsIsCut ==
    ASSUME \A f \in DOMAIN Equated : Equated[f].before \notin DOMAIN Equated,
           NEW r, r = Receipt(r.merchant, r.account, r.amount, r.lang, r.callback, r.timeout,
                              r.currency, r.description, r.detail),
           NEW f \in DOMAIN r.account \intersect DOMAIN Equated,
           NEW s
    PROVE  ParseGET(s) # r
  <1> DEFINE read == [i \in DOMAIN s |-> Cut(s[i])]
             fields == {read[i].field : i \in {j \in DOMAIN read : /\ read[j].kind = "pair"
                                                                 /\ read[j].key = "ac"}}
  <1>1. r # Malformed
    <2>1. "merchant" \in DOMAIN r /\ "merchant" \notin DOMAIN Malformed
      BY DEF Receipt, Malformed
    <2> QED BY <2>1
  <1>2. f \notin fields
    <2> SUFFICES ASSUME NEW i \in DOMAIN s, Cut(s[i]).key = "ac", Cut(s[i]).kind = "pair",
                        Cut(s[i]).field = f
                 PROVE  FALSE
      OBVIOUS
    <2>1. CASE s[i].kind = "pair" /\ s[i].key = "ac" /\ s[i].field \in DOMAIN Equated
      BY <2>1 DEF Cut, Pair
    <2>2. CASE ~(s[i].kind = "pair" /\ s[i].key = "ac" /\ s[i].field \in DOMAIN Equated)
      BY <2>2 DEF Cut
    <2> QED BY <2>1, <2>2
  <1>3. DOMAIN ReadGET(read).account = fields
    BY DEF ReadGET, Receipt, ReadAccount
  <1>4. ReadGET(read) # r
    BY <1>2, <1>3
  <1>5. ParseGET(s) \in {Malformed, ReadGET(read)}
    BY DEF ParseGET, Validated
  <1> QED BY <1>1, <1>4, <1>5

(* The two encodings of a complete receipt - no field name of it with a "=" - mean   *)
(* the same receipt, but for the currency, which a form cannot name (parse.go:86).   *)
THEOREM FormMeansTheReceipt ==
    ASSUME HalfRange \in Nat, NEW r, Complete(r), r.currency = 0,
           NEW s, Encodes(s, r)
    PROVE  ParsePOST(FormOf(r)) = ParseGET(s)
  <1> DEFINE form == FormOf(r)
  <1>1. /\ Get(form, "merchant") = r.merchant /\ Get(form, "amount") = r.amount
        /\ Get(form, "lang") = r.lang /\ Get(form, "callback") = r.callback
        /\ Get(form, "callback_timeout") = r.timeout
        /\ Get(form, "description") = "" /\ Get(form, "detail") = ""
    BY DEF Get, FormOf
  <1>2. Account(form) = r.account
    <2>1. form.account = r.account
      BY DEF FormOf
    <2>2. DOMAIN r.account \ {""} = DOMAIN r.account
      BY DEF Complete
    <2>3. r.account = [f \in DOMAIN r.account |-> r.account[f]]
      BY DEF Complete
    <2> HIDE DEF form
    <2> QED BY <2>1, <2>2, <2>3 DEF Account
  <1>3. Decimal(r.amount) /\ Decimal(r.timeout)
    BY DEF Complete, Decimal
  <1> HIDE DEF form
  <1>4. ~Unreadable(form)
    BY <1>1, <1>3 DEF Unreadable
  <1>5. Number(form, "amount") = r.amount /\ Number(form, "callback_timeout") = r.timeout
    BY <1>1, <1>3 DEF Number
  <1>6. ParsePOST(form) = Validated(Receipt(r.merchant, r.account, r.amount, r.lang,
                                            r.callback, r.timeout, 0, "", ""))
    BY <1>1, <1>2, <1>4, <1>5 DEF ParsePOST
  <1>7. r = Receipt(r.merchant, r.account, r.amount, r.lang, r.callback, r.timeout, 0, "", "")
    BY DEF Complete
  <1>8. Valid(r)
    BY DEF Complete
  <1>9. ParsePOST(form) = r
    BY <1>6, <1>7, <1>8 DEF Validated
  <1> QED BY <1>9, GETRoundTrips DEF form
=============================================================================
