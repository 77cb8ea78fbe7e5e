--------------------------- MODULE ListingProofs ---------------------------
(***************************************************************************)
(* The stage of an IPO is written twice, in SQL for the filter and in      *)
(* Python for the label.  The two agree on every row and every day, and so *)
(* no page shows a row under another label than the one asked for.  And a  *)
(* walk that nothing disturbs shows what its filters mean, each row once.  *)
(***************************************************************************)
EXTENDS Listing, FiniteSetTheorems, SequenceTheorems, TLAPS

Stages == {"UPCOMING", "OPEN", "CLOSING_TODAY", "CLOSED", "LISTED", "UNKNOWN"}

\* What the filters on the labels promise of a labelled row.
Labelled(f) ==
  {item \in [row : UNION Datasets, status : Stages, ipo_type : IpoTypes \union {"UNKNOWN"},
             exchange : Exchanges \union {"UNKNOWN"}] :
     /\ f.status # None => f.status = item.status
     /\ f.ipo_type # None => f.ipo_type = item.ipo_type
     /\ f.exchange # None => f.exchange = item.exchange}

ListingInv ==
  /\ rows \in Datasets
  /\ today \in Int
  /\ request.filters \in Queries
  /\ request.page \in Nat \ {0}
  /\ request.step = "counted" => request.today \in Int
  /\ walk \in Seq(Labelled(request.filters))

-----------------------------------------------------------------------------
(* The CASE of the query and the function in Python are one function, with *)
(* any of the three dates missing (ipo_status_expression, derive_status).  *)
THEOREM StatusAgrees ==
  ASSUME None \notin Int, NEW row, \A c \in DateColumns : row[c] \in Int \union {None}, NEW day \in Int
  PROVE  ipo_status_expression(row, day) = derive_status(row, day)
<1>1. row.open_date \in Int \union {None} /\ row.close_date \in Int \union {None}
      /\ row.listing_date \in Int \union {None}
  BY DEF DateColumns
<1> QED
  BY <1>1 DEF ipo_status_expression, derive_status, Le, Lt

(* A row that passed the filters is labelled as they ask.                  *)
LEMMA LabelOfMatch ==
  ASSUME ListingAssumption, NEW f \in Queries, NEW data \in Datasets, NEW row \in data, NEW day \in Int,
         NEW dates, Matches(row, f, dates, day)
  PROVE  to_response(row, day) \in Labelled(f)
<1>1. derive_status(row, day) \in Stages
  BY DEF derive_status, Stages
<1>2. ipo_status_expression(row, day) = derive_status(row, day)
  <2>1. None \notin Int /\ \A c \in DateColumns : row[c] \in Int \union {None}
    BY DEF ListingAssumption, NumberColumns
  <2> QED
    BY <2>1, StatusAgrees
<1>3. /\ f.status # None => f.status = derive_status(row, day)
      /\ f.ipo_type # None => row.ipo_type = f.ipo_type
      /\ f.exchange # None => row.exchange = f.exchange
  BY <1>2 DEF Matches
<1>4. f.ipo_type # None => f.ipo_type = _coerce_enum(IpoTypes, row.ipo_type)
  BY <1>3 DEF ListingAssumption, _coerce_enum
<1>5. f.exchange # None => f.exchange = _coerce_enum(Exchanges, row.exchange)
  BY <1>3 DEF ListingAssumption, _coerce_enum
<1>6. /\ _coerce_enum(IpoTypes, row.ipo_type) \in IpoTypes \union {"UNKNOWN"}
      /\ _coerce_enum(Exchanges, row.exchange) \in Exchanges \union {"UNKNOWN"}
  BY DEF _coerce_enum
<1> QED
  BY <1>1, <1>3, <1>4, <1>5, <1>6 DEF to_response, Labelled

-----------------------------------------------------------------------------
LEMMA InitListingInv == ListingAssumption /\ Init => ListingInv
BY DEF ListingAssumption, Init, ListingInv

LEMMA FetchPageInv ==
  ASSUME ListingAssumption, ListingInv, FetchPage
  PROVE  walk' \in Seq(Labelled(request.filters))
<1> DEFINE f == request.filters
           from == offset(f, request.page)
           matching == {r \in rows : Matches(r, f, request.dates, request.today)}
<1>1. f \in Queries /\ rows \in Datasets /\ request.today \in Int /\ walk \in Seq(Labelled(f))
  BY DEF ListingInv, FetchPage
<1>2. f.page_size \in Nat /\ from \in Nat
  <2>1. f.page_size \in Nat /\ request.page - 1 \in Nat
    BY <1>1 DEF ListingAssumption, ListingInv
  <2> QED
    BY <2>1 DEF offset
<1>3. PICK order \in Orders(matching, f) :
        walk' = walk \o [i \in {i \in 1..f.page_size : from + i <= Len(order)} |->
                           to_response(order[from + i], request.today)]
  BY DEF FetchPage
<1>4. order \in [1..Cardinality(matching) -> matching]
  BY <1>3 DEF Orders, SetToSeqs
<1>5. Cardinality(matching) \in Nat
  <2>1. IsFiniteSet(rows)
    BY <1>1 DEF ListingAssumption
  <2> QED
    BY <2>1, FS_Subset, FS_CardinalityType
<1>6. Len(order) = Cardinality(matching) /\ Len(order) \in Nat
  BY <1>4, <1>5
<1> DEFINE size == f.page_size
           length == Len(order)
           last == IF length <= from THEN 0 ELSE IF length - from <= size THEN length - from ELSE size
           here == {i \in 1..size : from + i <= length}
<1>7. last \in Nat /\ here = 1..last
  <2> HIDE DEF from, size, length
  <2>1. size \in Nat /\ from \in Nat /\ length \in Nat
    BY <1>2, <1>6 DEF size, length
  <2> QED
    BY <2>1
<1>8. ASSUME NEW i \in here
      PROVE  to_response(order[from + i], request.today) \in Labelled(f)
  <2>1. order[from + i] \in matching
    <3>1. from + i \in 1..Cardinality(matching)
      BY <1>2, <1>6
    <3> QED
      BY <1>4, <3>1
  <2> QED
    BY <1>1, <2>1, LabelOfMatch
<1> DEFINE shown == [i \in here |-> to_response(order[from + i], request.today)]
<1>9. shown \in [1..last -> Labelled(f)]
  <2> HIDE DEF f, from, here, last
  <2> QED
    BY <1>7, <1>8
<1>10. shown \in Seq(Labelled(f))
  <2> HIDE DEF shown, f, last
  <2> QED
    BY <1>7, <1>9
<1> QED
  <2>1. walk' = walk \o shown
    BY <1>3
  <2> HIDE DEF shown
  <2> QED
    BY <1>1, <1>10, <2>1

LEMMA StepListingInv == ListingAssumption /\ ListingInv /\ [Next]_vars => ListingInv'
<1> SUFFICES ASSUME ListingAssumption, ListingInv, [Next]_vars PROVE ListingInv'
  OBVIOUS
<1>1. CASE Validate
  BY <1>1 DEF ListingInv, Validate
<1>2. CASE Count
  BY <1>2 DEF ListingInv, Count
<1>3. CASE FetchPage
  <2>1. walk' \in Seq(Labelled(request.filters))
    BY <1>3, FetchPageInv
  <2> QED
    BY <1>3, <2>1 DEF ListingInv, FetchPage
<1>4. CASE Follow
  BY <1>4 DEF ListingInv, Follow
<1>5. CASE Scrape
  BY <1>5 DEF ListingInv, Scrape
<1>6. CASE Midnight
  BY <1>6 DEF ListingInv, Midnight
<1>7. CASE UNCHANGED vars
  BY <1>7 DEF ListingInv, vars
<1> QED
  BY <1>1, <1>2, <1>3, <1>4, <1>5, <1>6, <1>7 DEF Next

(* The label is the one asked for on every page of every walk, whatever    *)
(* scrapes commit and whenever the day ends.                               *)
THEOREM LabelsAlwaysAgree == Spec => []LabelsAgree
<1>1. ListingInv => LabelsAgree
  <2> SUFFICES ASSUME ListingInv, NEW i \in DOMAIN walk
               PROVE  /\ request.filters.status \in {None, walk[i].status}
                      /\ request.filters.ipo_type \in {None, walk[i].ipo_type}
                      /\ request.filters.exchange \in {None, walk[i].exchange}
    BY DEF LabelsAgree
  <2>1. walk[i] \in Labelled(request.filters)
    BY DEF ListingInv
  <2> QED
    BY <2>1 DEF Labelled
<1> QED
  BY <1>1, ListingAssumption, InitListingInv, StepListingInv, PTL DEF Spec

-----------------------------------------------------------------------------
(* What follows is about a walk during which nothing changes: the rows its *)
(* query matches are numbered by the ORDER BY, and page after page shows   *)
(* the next ones.                                                          *)
Values == Int \union {None}

\* A row as the table's columns and constraints leave it.
IsRow(row) ==
  /\ \A c \in NumberColumns : row[c] \in Values
  /\ row.id \in Int /\ row.name.rank \in Int
  /\ row.price_min = None \/ row.price_max = None \/ row.price_min <= row.price_max

IsTable(S) == IsFiniteSet(S) /\ (\A row \in S : IsRow(row)) /\ (\A a, b \in S : a.id = b.id => a = b)

Matching == {r \in rows : Matches(r, request.filters, Resolve(request.filters, today), today)}

\* The number of rows that come before a row.
Rank(S, row, f) == Cardinality({r \in S : Before(r, row, f)})

Numbered ==
  \A i \in 1..Len(walk) :
    walk[i].row \in Matching /\ Rank(Matching, walk[i].row, request.filters) = i - 1

WalkInv ==
  LET f == request.filters
      from == offset(f, request.page)
      shown == request.step = "answered"
      length == Cardinality(Matching)
  IN  /\ request.step \in {"new", "refused", "valid", "counted", "answered"}
      /\ request.step \notin {"new", "refused"} \/ request.page > 1 => ~Refused(f)
      /\ calm =>
           /\ request.step \in {"valid", "counted"} => request.dates = Resolve(f, today)
           /\ request.step = "counted" => request.today = today
           /\ request.step \in {"counted", "answered"} => request.total = length
           /\ shown => request.meta = build(request.page, f.page_size, length)
           /\ request.page > 1 => from < length
           /\ Len(walk) = IF ~shown THEN from ELSE IF length <= from + f.page_size THEN length ELSE from + f.page_size
           /\ Numbered

-----------------------------------------------------------------------------
LEMMA RowsAreTable ==
  ASSUME ListingAssumption, NEW data \in Datasets
  PROVE  IsTable(data)
BY DEF ListingAssumption, IsTable, IsRow, Values

LEMMA PartIsTable ==
  ASSUME NEW S, IsTable(S), NEW T \in SUBSET S
  PROVE  IsTable(T)
BY FS_Subset DEF IsTable

(* The days a filter's date stands for are those of its window.            *)
LEMMA WindowIsDays ==
  ASSUME ListingAssumption, today \in Int, NEW f \in Queries, NEW c \in DateColumns, NEW value \in Values
  PROVE  LET window == _parse_date_field(f.on[c], today)
         IN  (window # None => Within(value, window)) <=> (f.on[c] # None => value \in DaysOf(f.on[c]))
<1> DEFINE date == f.on[c]
<1>1. None \notin Int /\ None \notin Int \X Int
  BY DEF ListingAssumption
<1>2. date # None /\ date.word \notin Shortcuts => date.day \in Int
  BY DEF ListingAssumption
<1> HIDE DEF date
<1>3. ASSUME NEW a \in Int, NEW b \in Int, date # None,
             _parse_date_field(date, today) = <<a, b>>,
             \A d \in Int : d \in DaysOf(date) <=> a <= d /\ d <= b,
             DaysOf(date) \subseteq Int
      PROVE  LET window == _parse_date_field(date, today)
             IN  (window # None => Within(value, window)) <=> (date # None => value \in DaysOf(date))
  <2>1. <<a, b>> # None /\ a # None /\ b # None
    BY <1>1
  <2>2. Within(value, <<a, b>>) <=> value # None /\ a <= value /\ value <= b
    BY <2>1 DEF Within, Le
  <2>3. value # None => value \in Int
    BY DEF Values
  <2> QED
    BY <1>1, <1>3, <2>1, <2>2, <2>3
<1>4. CASE date = None
  BY <1>4 DEF _parse_date_field, date
<1>5. CASE date # None /\ date.word \notin Shortcuts
  <2>1. DaysOf(date) = {date.day}
    BY <1>5 DEF DaysOf, Shortcuts
  <2>2. _parse_date_field(date, today) = <<date.day, date.day>>
    BY <1>5 DEF _parse_date_field
  <2> QED
    BY <1>2, <1>3, <1>5, <2>1, <2>2 DEF date
<1>6. CASE date # None /\ date.word = "today"
  <2>1. DaysOf(date) = {today} /\ _parse_date_field(date, today) = <<today, today>>
    BY <1>6 DEF DaysOf, Shortcuts, _parse_date_field, resolve_date_shortcut
  <2> QED
    BY <1>3, <1>6, <2>1 DEF date
<1>7. CASE date # None /\ date.word = "tomorrow"
  <2>1. DaysOf(date) = {today + 1} /\ _parse_date_field(date, today) = <<today + 1, today + 1>>
    BY <1>7 DEF DaysOf, Shortcuts, _parse_date_field, resolve_date_shortcut
  <2> QED
    BY <1>3, <1>7, <2>1 DEF date
<1>8. CASE date # None /\ date.word = "yesterday"
  <2>1. DaysOf(date) = {today - 1} /\ _parse_date_field(date, today) = <<today - 1, today - 1>>
    BY <1>8 DEF DaysOf, Shortcuts, _parse_date_field, resolve_date_shortcut
  <2> QED
    BY <1>3, <1>8, <2>1 DEF date
<1>9. CASE date # None /\ date.word = "this_week"
  <2> DEFINE monday == today - (today % 7)
  <2>1. _parse_date_field(date, today) = <<monday, monday + 6>>
    BY <1>9 DEF Shortcuts, _parse_date_field, resolve_date_shortcut, weekday
  <2>2. DaysOf(date) = {d \in today - 6..today + 6 : d \div 7 = today \div 7}
    BY <1>9 DEF DaysOf
  <2>3. \A d \in Int : d \in DaysOf(date) <=> monday <= d /\ d <= monday + 6
    BY <2>2
  <2>4. monday \in Int /\ DaysOf(date) \subseteq Int
    BY <2>2
  <2> QED
    BY <1>3, <1>9, <2>1, <2>3, <2>4 DEF date
<1>10. CASE date # None /\ date.word = "next_week"
  <2> DEFINE monday == today - (today % 7)
  <2>1. _parse_date_field(date, today) = <<monday + 7, monday + 13>>
    BY <1>10 DEF Shortcuts, _parse_date_field, resolve_date_shortcut, weekday
  <2>2. DaysOf(date) = {d \in today..today + 13 : d \div 7 = today \div 7 + 1}
    BY <1>10 DEF DaysOf
  <2>3. \A d \in Int : d \in DaysOf(date) <=> monday + 7 <= d /\ d <= monday + 13
    BY <2>2
  <2>4. monday \in Int /\ DaysOf(date) \subseteq Int
    BY <2>2
  <2> QED
    BY <1>3, <1>10, <2>1, <2>3, <2>4 DEF date
<1> QED
  BY <1>4, <1>5, <1>6, <1>7, <1>8, <1>9, <1>10 DEF Shortcuts, date

(* A clause passes the values inside its bounds, and no unknown one.       *)
LEMMA WithinIsKnown ==
  ASSUME None \notin Int, NEW value \in Values, NEW bounds \in Bounds
  PROVE  Within(value, bounds) <=> Known(value, bounds)
<1>1. bounds = <<bounds[1], bounds[2]>> /\ bounds[1] \in Values /\ bounds[2] \in Values
  BY DEF Bounds, Values
<1> QED
  BY <1>1 DEF Within, Known, Le

(* A band has a price within the bounds if its ends pass.                  *)
LEMMA BandHasPrice ==
  ASSUME None \notin Int, NEW bounds \in Bounds, ~Crossed(bounds),
         NEW row, row.price_min \in Int, row.price_max \in Int, row.price_min <= row.price_max
  PROVE  PriceWithin(row, bounds) <=> \E p \in row.price_min..row.price_max : Within(p, bounds)
<1> DEFINE low == row.price_min
           high == row.price_max
           at_least == bounds[1]
           at_most == bounds[2]
           p0 == IF at_least = None \/ at_least <= low THEN low ELSE at_least
<1>1. at_least \in Values /\ at_most \in Values
  BY DEF Bounds, Values
<1>2. at_least # None /\ at_most # None => at_least <= at_most
  BY <1>1 DEF Crossed, Lt, Values
<1>3. PriceWithin(row, bounds) <=> /\ at_least # None => at_least <= high
                                   /\ at_most # None => low <= at_most
  BY DEF PriceWithin, Le
<1>4. \A p \in Int : Within(p, bounds) <=> /\ at_least # None => at_least <= p
                                           /\ at_most # None => p <= at_most
  BY DEF Within, Le
<1>5. ASSUME PriceWithin(row, bounds) PROVE p0 \in low..high /\ Within(p0, bounds)
  <2>1. p0 \in Int /\ low <= p0 /\ p0 <= high
    BY <1>1, <1>3, <1>5 DEF Values
  <2>2. at_least # None => at_least <= p0
    BY <1>1 DEF Values
  <2>3. at_most # None => p0 <= at_most
    BY <1>1, <1>2, <1>3, <1>5 DEF Values
  <2> QED
    BY <1>4, <2>1, <2>2, <2>3
<1>6. ASSUME NEW p \in low..high, Within(p, bounds) PROVE PriceWithin(row, bounds)
  BY <1>1, <1>3, <1>4, <1>6 DEF Values
<1> QED
  BY <1>5, <1>6

(* Clause by clause, the query selects what its filters mean.              *)
LEMMA MatchesIsWanted ==
  ASSUME ListingAssumption, today \in Int, NEW f \in Queries, ~Refused(f), NEW row, IsRow(row)
  PROVE  Matches(row, f, Resolve(f, today), today) <=> Wanted(row, f)
<1>0. None \notin Int
  BY DEF ListingAssumption
<1>1. \A c \in NumberColumns : row[c] \in Values
  BY DEF IsRow
<1>2. ipo_status_expression(row, today) = derive_status(row, today)
  <2>1. \A c \in DateColumns : row[c] \in Int \union {None}
    BY <1>1 DEF NumberColumns, Values
  <2> QED
    BY <1>0, <2>1, StatusAgrees
<1>3. ASSUME NEW c \in DateColumns
      PROVE  /\ (Resolve(f, today)[c] # None => Within(row[c], Resolve(f, today)[c]))
                  <=> (f.on[c] # None => row[c] \in DaysOf(f.on[c]))
             /\ Within(row[c], f.between[c]) <=> Known(row[c], f.between[c])
  <2>1. row[c] \in Values /\ f.between[c] \in Bounds
    BY <1>1 DEF NumberColumns, ListingAssumption
  <2>2. Resolve(f, today)[c] = _parse_date_field(f.on[c], today)
    BY DEF Resolve
  <2>3. (_parse_date_field(f.on[c], today) # None => Within(row[c], _parse_date_field(f.on[c], today)))
          <=> (f.on[c] # None => row[c] \in DaysOf(f.on[c]))
    BY <2>1, WindowIsDays
  <2>4. Within(row[c], f.between[c]) <=> Known(row[c], f.between[c])
    BY <1>0, <2>1, WithinIsKnown
  <2> QED
    BY <2>2, <2>3, <2>4
<1>4. ASSUME NEW c \in Ranges PROVE Within(row[c], f.range[c]) <=> Known(row[c], f.range[c])
  <2>1. row[c] \in Values /\ f.range[c] \in Bounds
    BY <1>1 DEF NumberColumns, ListingAssumption
  <2> QED
    BY <1>0, <2>1, WithinIsKnown
<1> DEFINE Band == IF row.price_min # None /\ row.price_max # None
                   THEN \E p \in row.price_min..row.price_max : Within(p, f.price)
                   ELSE PriceWithin(row, f.price)
<1>5. PriceWithin(row, f.price) <=> Band
  <2>1. row.price_min \in Values /\ row.price_max \in Values /\ f.price \in Bounds
    BY <1>1 DEF NumberColumns, ListingAssumption
  <2>2. ~Crossed(f.price)
    BY DEF Refused
  <2>3. CASE row.price_min # None /\ row.price_max # None
    <3>1. row.price_min \in Int /\ row.price_max \in Int /\ row.price_min <= row.price_max
      BY <2>1, <2>3 DEF Values, IsRow
    <3>2. PriceWithin(row, f.price) <=> \E p \in row.price_min..row.price_max : Within(p, f.price)
      BY <1>0, <2>1, <2>2, <3>1, BandHasPrice
    <3> QED
      BY <2>3, <3>2
  <2>4. CASE ~(row.price_min # None /\ row.price_max # None)
    BY <2>4
  <2> QED
    BY <2>3, <2>4
<1> HIDE DEF Band
<1>6. Matches(row, f, Resolve(f, today), today) <=>
        /\ f.status # None => ipo_status_expression(row, today) = f.status
        /\ f.ipo_type # None => row.ipo_type = f.ipo_type
        /\ f.exchange # None => row.exchange = f.exchange
        /\ \A c \in DateColumns : /\ Resolve(f, today)[c] # None => Within(row[c], Resolve(f, today)[c])
                                  /\ Within(row[c], f.between[c])
        /\ \A c \in Ranges : Within(row[c], f.range[c])
        /\ PriceWithin(row, f.price)
        /\ f.search # None => f.search \in row.name.terms \union row.symbol.terms
  BY DEF Matches
<1>7. Wanted(row, f) <=>
        /\ f.status # None => derive_status(row, today) = f.status
        /\ f.ipo_type \in {None, row.ipo_type} /\ f.exchange \in {None, row.exchange}
        /\ \A c \in DateColumns : /\ f.on[c] # None => row[c] \in DaysOf(f.on[c])
                                  /\ Known(row[c], f.between[c])
        /\ \A c \in Ranges : Known(row[c], f.range[c])
        /\ Band
        /\ f.search # None => f.search \in row.name.terms \/ f.search \in row.symbol.terms
  BY DEF Wanted, Band
<1>8. (\A c \in DateColumns : /\ Resolve(f, today)[c] # None => Within(row[c], Resolve(f, today)[c])
                              /\ Within(row[c], f.between[c]))
        <=> \A c \in DateColumns : /\ f.on[c] # None => row[c] \in DaysOf(f.on[c])
                                   /\ Known(row[c], f.between[c])
  BY <1>3
<1>9. (\A c \in Ranges : Within(row[c], f.range[c])) <=> \A c \in Ranges : Known(row[c], f.range[c])
  BY <1>4
<1>10. /\ (f.ipo_type # None => row.ipo_type = f.ipo_type) <=> f.ipo_type \in {None, row.ipo_type}
       /\ (f.exchange # None => row.exchange = f.exchange) <=> f.exchange \in {None, row.exchange}
       /\ f.search \in row.name.terms \union row.symbol.terms
            <=> f.search \in row.name.terms \/ f.search \in row.symbol.terms
  OBVIOUS
<1> QED
  BY <1>2, <1>5, <1>6, <1>7, <1>8, <1>9, <1>10

-----------------------------------------------------------------------------
(* The ORDER BY leaves no choice: the sort key, unknown ones last, then    *)
(* the id.                                                                 *)
LEMMA SortKeyIsValue ==
  ASSUME NEW row, IsRow(row), NEW sort_by \in SortFields
  PROVE  SortKey(row, sort_by) \in Values
<1>1. row.name.rank \in Int /\ \A c \in NumberColumns : row[c] \in Values
  BY DEF IsRow
<1>2. CASE sort_by \in {"name", "ipo_name"}
  BY <1>1, <1>2 DEF SortKey, Values
<1>3. CASE sort_by = "price"
  BY <1>1, <1>3 DEF SortKey, NumberColumns
<1>4. CASE sort_by = "issue_size"
  BY <1>1, <1>4 DEF SortKey, NumberColumns, Ranges
<1>5. CASE sort_by = "subscription"
  BY <1>1, <1>5 DEF SortKey, NumberColumns, Ranges
<1>6. CASE sort_by \in DateColumns \union {"gmp", "gmp_percentage", "lot_size", "created_at", "updated_at"}
  <2>1. SortKey(row, sort_by) = row[sort_by]
    BY <1>6 DEF SortKey, DateColumns
  <2>2. sort_by \in NumberColumns
    BY <1>6 DEF NumberColumns, Ranges
  <2> QED
    BY <1>1, <2>1, <2>2
<1> QED
  BY <1>2, <1>3, <1>4, <1>5, <1>6 DEF SortFields, DateColumns

LEMMA OrderIsTotal ==
  ASSUME None \notin Int, NEW f, f.sort_by \in SortFields, NEW S, IsTable(S)
  PROVE  /\ \A a \in S : ~Before(a, a, f)
         /\ \A a, b \in S : a # b => (Before(a, b, f) <=> ~Before(b, a, f))
         /\ \A a, b, c \in S : Before(a, b, f) /\ Before(b, c, f) => Before(a, c, f)
<1> DEFINE key(r) == SortKey(r, f.sort_by)
<1>1. \A r \in S : key(r) \in Values /\ r.id \in Int
  <2> SUFFICES ASSUME NEW r \in S PROVE key(r) \in Values /\ r.id \in Int
    OBVIOUS
  <2>1. IsRow(r)
    BY DEF IsTable
  <2> QED
    BY <2>1, SortKeyIsValue DEF IsRow
<1>2. \A a, b \in S : a.id = b.id => a = b
  BY DEF IsTable
<1>3. \A a, b \in S : Before(a, b, f) <=> KeyBefore(key(a), key(b), f.sort_order) \/ (key(a) = key(b) /\ a.id < b.id)
  BY DEF Before
<1> HIDE DEF key
<1>4. \A x \in Values : ~KeyBefore(x, x, f.sort_order)
  BY DEF KeyBefore, Lt, Values
<1>5. \A x, y \in Values : x # y => (KeyBefore(x, y, f.sort_order) <=> ~KeyBefore(y, x, f.sort_order))
  BY DEF KeyBefore, Lt, Values
<1>6. \A x, y, z \in Values :
        KeyBefore(x, y, f.sort_order) /\ KeyBefore(y, z, f.sort_order) => KeyBefore(x, z, f.sort_order)
  BY DEF KeyBefore, Lt, Values
<1>7. \A a \in S : ~Before(a, a, f)
  BY <1>1, <1>3, <1>4
<1>8. \A a, b \in S : a # b => (Before(a, b, f) <=> ~Before(b, a, f))
  <2> SUFFICES ASSUME NEW a \in S, NEW b \in S, a # b PROVE Before(a, b, f) <=> ~Before(b, a, f)
    OBVIOUS
  <2>1. a.id # b.id /\ a.id \in Int /\ b.id \in Int /\ key(a) \in Values /\ key(b) \in Values
    BY <1>1, <1>2
  <2>2. CASE key(a) = key(b)
    BY <1>3, <1>4, <2>1, <2>2
  <2>3. CASE key(a) # key(b)
    BY <1>3, <1>5, <2>1, <2>3
  <2> QED
    BY <2>2, <2>3
<1>9. \A a, b, c \in S : Before(a, b, f) /\ Before(b, c, f) => Before(a, c, f)
  <2> SUFFICES ASSUME NEW a \in S, NEW b \in S, NEW c \in S, Before(a, b, f), Before(b, c, f) PROVE Before(a, c, f)
    OBVIOUS
  <2>1. /\ key(a) \in Values /\ key(b) \in Values /\ key(c) \in Values
        /\ a.id \in Int /\ b.id \in Int /\ c.id \in Int
    BY <1>1
  <2>2. KeyBefore(key(a), key(b), f.sort_order) \/ (key(a) = key(b) /\ a.id < b.id)
    BY <1>3
  <2>3. KeyBefore(key(b), key(c), f.sort_order) \/ (key(b) = key(c) /\ b.id < c.id)
    BY <1>3
  <2>4. KeyBefore(key(a), key(c), f.sort_order) \/ (key(a) = key(c) /\ a.id < c.id)
    BY <1>6, <2>1, <2>2, <2>3
  <2> QED
    BY <1>3, <2>4
<1> QED
  BY <1>7, <1>8, <1>9

(* A row's place is the number of rows before it, whatever order the       *)
(* database picks of those the ORDER BY admits.                            *)
LEMMA PlaceIsRank ==
  ASSUME None \notin Int, NEW f, f.sort_by \in SortFields, NEW S, IsTable(S),
         NEW order \in Orders(S, f), NEW i \in 1..Cardinality(S)
  PROVE  order[i] \in S /\ Rank(S, order[i], f) = i - 1
<1> DEFINE n == Cardinality(S)
           earlier == {r \in S : Before(r, order[i], f)}
<1>1. IsFiniteSet(S) /\ n \in Nat /\ i \in 1..n
  BY FS_CardinalityType DEF IsTable
<1>2. /\ order \in [1..n -> S]
      /\ \A j, k \in 1..n : j # k => order[j] # order[k]
      /\ \A j, k \in 1..n : j < k => ~Before(order[k], order[j], f)
  BY DEF Orders, SetToSeqs
<1>3. \A r \in S : \E j \in 1..n : order[j] = r
  <2>1. order \in Injection(1..n, S)
    BY <1>2 DEF Injection, IsInjective
  <2>2. IsFiniteSet(1..n) /\ Cardinality(1..n) = n
    BY <1>1, FS_Interval
  <2>3. order \in Surjection(1..n, S)
    BY <1>1, <2>1, <2>2, FS_Injection
  <2> QED
    BY <2>3 DEF Surjection
<1>4. \A j \in 1..n : Before(order[j], order[i], f) <=> j < i
  <2> SUFFICES ASSUME NEW j \in 1..n PROVE Before(order[j], order[i], f) <=> j < i
    OBVIOUS
  <2>1. order[i] \in S /\ order[j] \in S
    BY <1>1, <1>2
  <2>2. CASE j = i
    BY <1>1, <2>1, <2>2, OrderIsTotal
  <2>3. CASE j < i
    <3>1. ~Before(order[i], order[j], f) /\ order[i] # order[j]
      BY <1>1, <1>2, <2>3
    <3> QED
      BY <2>1, <2>3, <3>1, OrderIsTotal
  <2>4. CASE i < j
    BY <1>1, <1>2, <2>4
  <2> QED
    BY <1>1, <2>2, <2>3, <2>4
<1> DEFINE g == [j \in 1..(i - 1) |-> order[j]]
<1>5. g \in Bijection(1..(i - 1), earlier)
  <2>1. \A j \in 1..(i - 1) : j \in 1..n /\ g[j] = order[j] /\ order[j] \in earlier
    <3>1. \A j \in 1..(i - 1) : j \in 1..n /\ j < i
      BY <1>1
    <3>2. \A j \in 1..n : j < i => order[j] \in S /\ Before(order[j], order[i], f)
      BY <1>2, <1>4
    <3>3. \A j \in 1..n : j < i => order[j] \in earlier
      BY <3>2
    <3>4. \A j \in 1..(i - 1) : g[j] = order[j]
      OBVIOUS
    <3> HIDE DEF g, earlier
    <3> QED
      BY <3>1, <3>3, <3>4
  <2>2. \A j, k \in 1..(i - 1) : j # k => g[j] # g[k]
    BY <1>2, <2>1
  <2>3. \A r \in earlier : \E j \in 1..(i - 1) : g[j] = r
    <3> SUFFICES ASSUME NEW r \in earlier PROVE \E j \in 1..(i - 1) : g[j] = r
      OBVIOUS
    <3>1. PICK j \in 1..n : order[j] = r
      BY <1>3
    <3>2. j < i
      BY <1>4, <3>1
    <3> QED
      BY <1>1, <3>1, <3>2
  <2>4. g \in [1..(i - 1) -> earlier]
    BY <2>1
  <2> HIDE DEF g, earlier
  <2> QED
    BY <2>2, <2>3, <2>4 DEF Bijection, Injection, Surjection, IsInjective
<1>6. Cardinality(earlier) = i - 1
  <2>1. i - 1 \in Nat
    BY <1>1
  <2> HIDE DEF g, earlier
  <2>2. ExistsBijection(1..(i - 1), earlier)
    BY <1>5 DEF ExistsBijection
  <2> QED
    BY <2>1, <2>2, FS_CountingElements
<1> QED
  BY <1>1, <1>2, <1>6 DEF Rank

(* A row that comes before another has the lower rank, and so no two rows  *)
(* have the same.                                                          *)
LEMMA RankOrders ==
  ASSUME None \notin Int, NEW f, f.sort_by \in SortFields, NEW S, IsTable(S),
         NEW a \in S, NEW b \in S, Before(a, b, f)
  PROVE  Rank(S, a, f) < Rank(S, b, f)
<1> DEFINE before(r) == {s \in S : Before(s, r, f)}
<1>1. before(a) \subseteq before(b) /\ a \in before(b) /\ a \notin before(a)
  BY OrderIsTotal
<1>2. IsFiniteSet(before(b))
  BY FS_Subset DEF IsTable
<1> HIDE DEF before
<1>3. /\ Cardinality(before(a)) \in Nat /\ Cardinality(before(b)) \in Nat
      /\ Cardinality(before(a)) <= Cardinality(before(b))
      /\ Cardinality(before(a)) # Cardinality(before(b))
  BY <1>1, <1>2, FS_Subset, FS_CardinalityType
<1>4. Cardinality(before(a)) < Cardinality(before(b))
  BY <1>3
<1> QED
  BY <1>4 DEF before, Rank

(* The numbers of a page.                                                  *)
LEMMA PagesOf ==
  ASSUME NEW page \in Nat \ {0}, NEW size \in Nat \ {0}, NEW total \in Nat
  PROVE  LET pages == build(page, size, total).total_pages
         IN  /\ pages \in Nat /\ pages * size >= total
             /\ build(page, size, total).has_next <=> page * size < total
             /\ build(page, size, total).has_previous <=> page > 1 /\ total > 0
<1> DEFINE q == (total + size - 1) \div size
           pages == IF total = 0 THEN 0 ELSE q
<1>1. /\ build(page, size, total).total_pages = pages
      /\ build(page, size, total).has_next <=> page < pages
      /\ build(page, size, total).has_previous <=> page > 1 /\ total > 0
  BY DEF build
<1>2. CASE total = 0
  <2>1. 0 * size = 0 /\ page * size >= 0
    BY SMTT(30)
  <2> QED
    BY <1>1, <1>2, <2>1
<1>3. CASE total # 0
  <2> DEFINE x == total + size - 1
  <2>1. x \in Nat /\ x >= size
    BY <1>3
  <2> HIDE DEF x
  <2>2. x \div size \in Nat /\ (x \div size) * size <= x /\ (x \div size + 1) * size > x
    BY <2>1, SMTT(30)
  <2>3. q \in Nat /\ q * size <= x /\ (q + 1) * size > x
    BY <2>2 DEF x
  <2> HIDE DEF q
  <2>4. (q + 1) * size = q * size + size /\ q * size \in Nat
    BY <2>3, SMTT(30)
  <2>5. q * size >= total /\ q * size < total + size
    BY <2>1, <2>3, <2>4 DEF x
  <2>6. ASSUME page < q PROVE page * size < total
    <3>1. (page + 1) * size <= q * size /\ (page + 1) * size = page * size + size /\ page * size \in Nat
      BY <2>3, <2>6, SMTT(30)
    <3> QED
      BY <2>4, <2>5, <3>1
  <2>7. ASSUME ~(page < q) PROVE page * size >= total
    <3>1. q * size <= page * size /\ page * size \in Nat
      BY <2>3, <2>7, SMTT(30)
    <3> QED
      BY <2>4, <2>5, <3>1
  <2>8. page * size \in Nat
    BY SMTT(30)
  <2> QED
    BY <1>1, <1>3, <2>3, <2>5, <2>6, <2>7, <2>8
<1> QED
  BY <1>2, <1>3

(* The page after ends where this one's room does.                         *)
LEMMA OffsetsMeet ==
  ASSUME NEW f, f.page_size \in Nat \ {0}, NEW page \in Nat \ {0}
  PROVE  /\ offset(f, page) \in Nat
         /\ offset(f, page) + f.page_size = page * f.page_size
         /\ offset(f, page + 1) = page * f.page_size
         /\ offset(f, 1) = 0
<1> DEFINE size == f.page_size
<1>1. \A p \in Nat \ {0} : (p - 1) * size \in Nat /\ (p - 1) * size + size = p * size
  BY SMTT(30)
<1>2. ((page + 1) - 1) * size = page * size /\ (1 - 1) * size = 0
  BY SMTT(30)
<1> QED
  BY <1>1, <1>2 DEF offset

-----------------------------------------------------------------------------
LEMMA MatchingIsTable ==
  ASSUME ListingAssumption, ListingInv
  PROVE  /\ IsTable(rows) /\ IsTable(Matching) /\ IsFiniteSet(Matching) /\ Cardinality(Matching) \in Nat
         /\ request.filters \in Queries /\ request.filters.sort_by \in SortFields
         /\ request.filters.page_size \in Nat \ {0} /\ None \notin Int
<1>1. rows \in Datasets /\ request.filters \in Queries
  BY DEF ListingInv
<1>2. IsTable(rows)
  BY <1>1, RowsAreTable
<1>3. IsTable(Matching)
  BY <1>2, PartIsTable DEF Matching
<1>4. IsFiniteSet(Matching) /\ Cardinality(Matching) \in Nat
  BY <1>3, FS_CardinalityType DEF IsTable
<1> QED
  BY <1>1, <1>2, <1>3, <1>4 DEF ListingAssumption

LEMMA InitWalkInv == ListingAssumption /\ Init => WalkInv
<1> SUFFICES ASSUME ListingAssumption, Init PROVE WalkInv
  OBVIOUS
<1>1. ListingInv
  BY InitListingInv
<1>2. request.step = "new" /\ request.page = 1 /\ walk = <<>>
  BY DEF Init
<1>3. offset(request.filters, 1) = 0
  BY <1>1, MatchingIsTable, OffsetsMeet
<1>4. Len(walk) = 0 /\ Numbered
  BY <1>2 DEF Numbered
<1>5. ~(request.page > 1) /\ Len(walk) = offset(request.filters, request.page)
  BY <1>2, <1>3, <1>4
<1> QED
  BY <1>2, <1>4, <1>5 DEF WalkInv

(* A page adds the rows that are next in the order.                        *)
LEMMA FetchPageWalk ==
  ASSUME ListingAssumption, ListingInv, WalkInv, FetchPage, calm
  PROVE  LET f == request.filters
             from == offset(f, request.page)
             length == Cardinality(Matching)
         IN  /\ Len(walk') = IF length <= from + f.page_size THEN length ELSE from + f.page_size
             /\ Numbered'
<1> DEFINE f == request.filters
           from == offset(f, request.page)
           length == Cardinality(Matching)
           size == f.page_size
           fetched == {r \in rows : Matches(r, f, request.dates, request.today)}
<1>1. /\ IsTable(Matching) /\ length \in Nat /\ f.sort_by \in SortFields /\ size \in Nat \ {0} /\ None \notin Int
      /\ f \in Queries
  BY MatchingIsTable
<1>2. fetched = Matching
  <2>1. request.dates = Resolve(f, today) /\ request.today = today
    BY DEF WalkInv, FetchPage
  <2> QED
    BY <2>1 DEF Matching
<1>3. from \in Nat /\ from <= length /\ Len(walk) = from
  <2>1. request.page \in Nat \ {0}
    BY DEF ListingInv
  <2>2. from \in Nat /\ offset(f, 1) = 0
    BY <1>1, <2>1, OffsetsMeet
  <2>3. Len(walk) = from /\ (request.page > 1 => from < length)
    BY DEF WalkInv, FetchPage
  <2>4. CASE request.page > 1
    BY <1>1, <2>2, <2>3, <2>4
  <2>5. CASE ~(request.page > 1)
    <3>1. request.page = 1
      BY <2>1, <2>5
    <3> QED
      BY <1>1, <2>2, <2>3, <3>1
  <2> QED
    BY <2>4, <2>5
<1> HIDE DEF fetched, from, f
<1>4. PICK order \in Orders(Matching, f) :
        walk' = walk \o [i \in {i \in 1..size : from + i <= Len(order)} |->
                           to_response(order[from + i], request.today)]
  BY <1>2 DEF FetchPage, fetched, from, f
<1>5. order \in [1..length -> Matching]
  BY <1>4 DEF Orders, SetToSeqs
<1>6. Len(order) = length
  BY <1>1, <1>5
<1> DEFINE last == IF length <= from + size THEN length - from ELSE size
           here == {i \in 1..size : from + i <= length}
           item(i) == to_response(order[from + i], request.today)
           page == [i \in 1..last |-> item(i)]
<1> HIDE DEF length, size
<1>7. last \in Nat /\ here = 1..last
  BY <1>1, <1>3
<1>8. walk' = walk \o page
  BY <1>4, <1>6, <1>7
<1>9. walk \in Seq(Labelled(f))
  BY DEF ListingInv, f
<1>10. page \in Seq({item(i) : i \in 1..last}) /\ Len(page) = last
  <2> HIDE DEF last, item
  <2> QED
    BY <1>7
<1>11. /\ Len(walk') = from + last
       /\ \A i \in 1..from : walk'[i] = walk[i]
       /\ \A i \in 1..last : walk'[from + i] = item(i)
  <2> DEFINE Items == Labelled(f) \union {item(i) : i \in 1..last}
  <2>1. walk \in Seq(Items) /\ page \in Seq(Items)
    <3>1. walk \in Seq(Items)
      <4> HIDE DEF item, last, page
      <4> QED
        BY <1>9
    <3>2. page \in [1..last -> Items]
      <4> HIDE DEF last, item
      <4> QED
        OBVIOUS
    <3> HIDE DEF Items, page, last
    <3> QED
      BY <1>7, <3>1, <3>2
  <2>2. \A i \in 1..last : page[i] = item(i)
    <3> HIDE DEF item, last
    <3> QED
      OBVIOUS
  <2> HIDE DEF Items, page, last, item
  <2>3. Len(walk') = Len(walk) + Len(page)
        /\ \A i \in 1..Len(walk) + Len(page) : walk'[i] = IF i <= Len(walk) THEN walk[i] ELSE page[i - Len(walk)]
    BY <1>8, <2>1, ConcatProperties
  <2>4. \A i \in 1..last : walk'[from + i] = page[i]
    <3> SUFFICES ASSUME NEW i \in 1..last PROVE walk'[from + i] = page[i]
      OBVIOUS
    <3>1. from + i \in 1..from + last /\ ~(from + i <= from) /\ (from + i) - from = i
      BY <1>3, <1>7
    <3> QED
      BY <1>3, <1>10, <2>3, <3>1
  <2>5. \A i \in 1..from : i \in 1..from + last /\ i <= from
    BY <1>3, <1>7
  <2> QED
    BY <1>3, <1>10, <2>2, <2>3, <2>4, <2>5
<1>12. Len(walk') = IF length <= from + size THEN length ELSE from + size
  BY <1>1, <1>3, <1>11
<1>13. ASSUME NEW i \in 1..Len(walk')
       PROVE  walk'[i].row \in Matching /\ Rank(Matching, walk'[i].row, f) = i - 1
  <2>1. CASE i <= from
    <3>1. i \in 1..from /\ walk'[i] = walk[i]
      BY <1>3, <1>11, <2>1
    <3> QED
      BY <1>3, <3>1 DEF WalkInv, Numbered, f
  <2>2. CASE ~(i <= from)
    <3>1. i - from \in 1..last /\ i \in 1..length /\ from + (i - from) = i
      BY <1>1, <1>3, <1>7, <1>11, <2>2
    <3> HIDE DEF last
    <3>2. walk'[i] = to_response(order[i], request.today)
      BY <1>11, <3>1
    <3>3. walk'[i].row = order[i]
      BY <3>2 DEF to_response
    <3> QED
      BY <1>1, <1>4, <3>1, <3>3, PlaceIsRank DEF length
  <2> QED
    BY <2>1, <2>2
<1>14. request'.filters = f /\ Matching' = Matching
  BY DEF FetchPage, Matching, f
<1>15. Numbered'
  BY <1>13, <1>14 DEF Numbered, Rank
<1> QED
  BY <1>12, <1>15 DEF f, from, length, size

LEMMA StillNumbered ==
  ASSUME walk' = walk, Matching' = Matching, request'.filters = request.filters
  PROVE  Numbered' <=> Numbered
BY DEF Numbered, Rank

LEMMA StepWalkInv == ListingAssumption /\ ListingInv /\ WalkInv /\ [Next]_vars => WalkInv'
<1> SUFFICES ASSUME ListingAssumption, ListingInv, WalkInv, [Next]_vars PROVE WalkInv'
  OBVIOUS
<1> DEFINE f == request.filters
           length == Cardinality(Matching)
<1>1. /\ f \in Queries /\ f.page_size \in Nat \ {0} /\ length \in Nat
      /\ request.page \in Nat \ {0}
  BY MatchingIsTable DEF ListingInv
<1>2. CASE Validate
  <2>1. Matching' = Matching /\ request'.filters = f /\ request'.page = request.page
    BY <1>2 DEF Validate, Matching
  <2>2. walk' = walk /\ today' = today /\ calm' = calm
    BY <1>2 DEF Validate
  <2>3. /\ request.step = "new" /\ request'.step \in {"valid", "refused"}
        /\ request'.step = "valid" => ~Refused(f) /\ request'.dates = Resolve(f, today)
    BY <1>2 DEF Validate
  <2> QED
    BY <2>1, <2>2, <2>3, StillNumbered DEF WalkInv
<1>3. CASE Count
  <2>1. Matching' = Matching /\ request'.filters = f /\ request'.page = request.page
    BY <1>3 DEF Count, Matching
  <2>2. calm => request'.total = length
    <3>1. calm => request.dates = Resolve(f, today)
      BY <1>3 DEF Count, WalkInv
    <3>2. request'.total = Cardinality({r \in rows : Matches(r, f, request.dates, today)})
      BY <1>3 DEF Count
    <3>3. ASSUME calm PROVE {r \in rows : Matches(r, f, request.dates, today)} = Matching
      BY <3>1, <3>3 DEF Matching
    <3> QED
      BY <3>2, <3>3
  <2>3. /\ walk' = walk /\ today' = today /\ calm' = calm
        /\ request.step = "valid" /\ request'.step = "counted" /\ request'.today = today
    BY <1>3 DEF Count
  <2>4. ~Refused(f) /\ (calm => Len(walk) = offset(f, request.page) /\ Numbered')
    BY <2>1, <2>3, StillNumbered DEF WalkInv
  <2>5. calm /\ request.page > 1 => offset(f, request.page) < length
    BY DEF WalkInv
  <2>6. calm => request'.dates = Resolve(f, today)
    BY <1>3 DEF Count, WalkInv
  <2> QED
    BY <2>1, <2>2, <2>3, <2>4, <2>5, <2>6 DEF WalkInv
<1>4. CASE FetchPage
  <2>1. Matching' = Matching /\ request'.filters = f /\ request'.page = request.page
    BY <1>4 DEF FetchPage, Matching
  <2>2. request'.step = "answered" /\ request'.total = request.total /\ calm' = calm
        /\ request'.meta = build(request.page, f.page_size, request.total)
    BY <1>4 DEF FetchPage
  <2>3. /\ request.step = "counted" /\ ~Refused(f)
        /\ calm => request.total = length /\ (request.page > 1 => offset(f, request.page) < length)
    BY <1>4 DEF WalkInv, FetchPage
  <2>4. calm => /\ Len(walk') = IF length <= offset(f, request.page) + f.page_size THEN length
                                ELSE offset(f, request.page) + f.page_size
                /\ Numbered'
    BY <1>4, FetchPageWalk
  <2> QED
    BY <2>1, <2>2, <2>3, <2>4 DEF WalkInv
<1>5. CASE Follow
  <2>1. /\ Matching' = Matching /\ request'.filters = f /\ request'.page = request.page + 1
        /\ request'.step = "new" /\ calm' = calm /\ walk' = walk
        /\ request.step = "answered" /\ request.meta.has_next
    BY <1>5 DEF Follow, Matching
  <2>2. ~Refused(f)
    BY <2>1 DEF WalkInv
  <2>3. ASSUME calm
        PROVE  /\ offset(f, request.page + 1) < length
               /\ Len(walk) = offset(f, request.page + 1)
    <3> DEFINE from == offset(f, request.page)
               size == f.page_size
    <3>1. request.meta = build(request.page, size, length)
      BY <2>1, <2>3 DEF WalkInv
    <3>2. request.page * size < length
      <4>1. build(request.page, size, length).has_next <=> request.page * size < length
        BY <1>1, PagesOf
      <4> QED
        BY <2>1, <3>1, <4>1
    <3>3. from \in Nat /\ from + size = request.page * size /\ offset(f, request.page + 1) = request.page * size
      BY <1>1, OffsetsMeet
    <3>4. Len(walk) = IF length <= from + size THEN length ELSE from + size
      BY <2>1, <2>3 DEF WalkInv
    <3> HIDE DEF length, from, size
    <3>5. size \in Nat
      BY <1>1 DEF size
    <3>6. ~(length <= from + size)
      BY <1>1, <3>2, <3>3, <3>5
    <3> QED
      BY <3>2, <3>3, <3>4, <3>6
  <2>4. calm => Numbered'
    BY <2>1, StillNumbered DEF WalkInv
  <2> QED
    BY <1>1, <2>1, <2>2, <2>3, <2>4 DEF WalkInv
<1>6. CASE Scrape \/ Midnight
  <2>1. calm' = FALSE /\ request' = request
    BY <1>6 DEF Scrape, Midnight
  <2> QED
    BY <2>1 DEF WalkInv
<1>7. CASE UNCHANGED vars
  <2>1. Matching' = Matching
    BY <1>7 DEF vars, Matching
  <2> QED
    BY <1>7, <2>1, StillNumbered DEF WalkInv, vars
<1> QED
  BY <1>2, <1>3, <1>4, <1>5, <1>6, <1>7 DEF Next

(* Page after page, a walk that nothing disturbs shows the rows of its     *)
(* query in the order of the ORDER BY, from the first on.                  *)
THEOREM WalkInvariant == Spec => [](ListingInv /\ WalkInv)
<1>1. Init => ListingInv /\ WalkInv
  BY ListingAssumption, InitListingInv, InitWalkInv
<1>2. ListingInv /\ WalkInv /\ [Next]_vars => ListingInv' /\ WalkInv'
  BY ListingAssumption, StepListingInv, StepWalkInv
<1> QED
  BY <1>1, <1>2, PTL DEF Spec

(* A page that is not refused holds rows of the query.                     *)
LEMMA ShownIsWanted ==
  ASSUME ListingAssumption, ListingInv, WalkInv, calm, walk # <<>>
  PROVE  \A r \in rows : r \in Matching <=> Wanted(r, request.filters)
<1> DEFINE f == request.filters
<1>1. f \in Queries /\ f.page_size \in Nat \ {0} /\ IsTable(rows) /\ today \in Int /\ request.page \in Nat \ {0}
  BY MatchingIsTable DEF ListingInv
<1>2. ~Refused(f)
  <2>0. ~Refused(f) \/ (request.step \in {"new", "refused"} /\ ~(request.page > 1))
    BY DEF WalkInv
  <2> SUFFICES ASSUME request.step \in {"new", "refused"}, ~(request.page > 1) PROVE FALSE
    BY <2>0
  <2>1. request.page = 1
    BY <1>1
  <2>2. Len(walk) = offset(f, request.page)
    BY DEF WalkInv
  <2>3. Len(walk) = 0
    BY <1>1, <2>1, <2>2, OffsetsMeet
  <2>4. walk \in Seq(Labelled(f))
    BY DEF ListingInv
  <2> HIDE DEF f
  <2> QED
    BY <2>3, <2>4, EmptySeq
<1>3. ASSUME NEW r \in rows PROVE r \in Matching <=> Wanted(r, f)
  <2>1. IsRow(r)
    BY <1>1 DEF IsTable
  <2>2. Matches(r, f, Resolve(f, today), today) <=> Wanted(r, f)
    BY <1>1, <1>2, <2>1, MatchesIsWanted
  <2> QED
    BY <2>2 DEF Matching
<1> QED
  BY <1>3

(* Every clause of the query means what its filter says, for any rows,     *)
(* dates and bounds that pass validation (_apply_filters).                 *)
THEOREM WantedOnly == Spec => []OnlyWanted
<1>1. ASSUME ListingAssumption, ListingInv, WalkInv PROVE OnlyWanted
  <2> SUFFICES ASSUME calm, NEW i \in DOMAIN walk PROVE Wanted(walk[i].row, request.filters)
    BY <1>1 DEF OnlyWanted
  <2> DEFINE S == Labelled(request.filters)
  <2>1. walk \in Seq(S)
    BY <1>1 DEF ListingInv
  <2>2. i \in 1..Len(walk) /\ walk # <<>>
    <3> HIDE DEF S
    <3> QED
      BY <2>1
  <2>3. walk[i].row \in Matching
    BY <1>1, <2>2 DEF WalkInv, Numbered
  <2>4. walk[i].row \in rows
    BY <2>3 DEF Matching
  <2> QED
    BY <1>1, <2>2, <2>3, <2>4, ShownIsWanted
<1> QED
  BY <1>1, ListingAssumption, WalkInvariant, PTL

(* The numbers of the page that was answered.                              *)
LEMMA Answered ==
  ASSUME ListingAssumption, ListingInv, WalkInv, calm, request.step = "answered"
  PROVE  LET f == request.filters
             length == Cardinality(Matching)
         IN  /\ request.total = length /\ length \in Nat
             /\ request.meta.total_pages \in Nat
             /\ request.meta.total_pages * f.page_size >= length
             /\ request.meta.has_next <=> Len(walk) < length
             /\ ~request.meta.has_next => Len(walk) = length
             /\ request.meta.has_previous <=> request.page > 1
<1> DEFINE f == request.filters
           length == Cardinality(Matching)
           from == offset(f, request.page)
           size == f.page_size
<1>1. size \in Nat \ {0} /\ length \in Nat /\ request.page \in Nat \ {0} /\ f \in Queries
  BY MatchingIsTable DEF ListingInv
<1>2. /\ request.total = length /\ request.meta = build(request.page, size, length)
      /\ request.page > 1 => from < length
      /\ Len(walk) = IF length <= from + size THEN length ELSE from + size
  BY DEF WalkInv
<1>3. from \in Nat /\ from + size = request.page * size
  BY <1>1, OffsetsMeet
<1> HIDE DEF length, from, size
<1>4. /\ request.meta.total_pages \in Nat /\ request.meta.total_pages * size >= length
      /\ request.meta.has_next <=> request.page * size < length
      /\ request.meta.has_previous <=> request.page > 1 /\ length > 0
  <2>1. PICK p, n : p = request.page /\ n = length
    OBVIOUS
  <2>2. PICK z : z = size
    OBVIOUS
  <2>3. p \in Nat \ {0} /\ z \in Nat \ {0} /\ n \in Nat
    BY <1>1, <2>1, <2>2
  <2>4. /\ build(p, z, n).total_pages \in Nat /\ build(p, z, n).total_pages * z >= n
        /\ build(p, z, n).has_next <=> p * z < n
        /\ build(p, z, n).has_previous <=> p > 1 /\ n > 0
    BY <2>3, PagesOf
  <2>5. request.meta = build(p, z, n)
    BY <1>2, <2>1, <2>2
  <2> QED
    BY <2>1, <2>2, <2>4, <2>5
<1>5. request.meta.has_next <=> from + size < length
  BY <1>3, <1>4
<1>6. /\ request.meta.has_next <=> Len(walk) < length
      /\ ~request.meta.has_next => Len(walk) = length
  <2>1. Len(walk) = IF length <= from + size THEN length ELSE from + size
    BY <1>2
  <2>2. length \in Nat /\ size \in Nat /\ from \in Nat
    BY <1>1, <1>3
  <2>3. CASE length <= from + size
    <3>1. ~(from + size < length) /\ ~(length < length)
      BY <2>2, <2>3
    <3> QED
      BY <1>5, <2>1, <2>3, <3>1
  <2>4. CASE ~(length <= from + size)
    <3>1. from + size < length
      BY <2>2, <2>4
    <3> QED
      BY <1>5, <2>1, <2>4, <3>1
  <2> QED
    BY <2>3, <2>4
<1>7. request.meta.has_previous <=> request.page > 1
  BY <1>1, <1>2, <1>3, <1>4
<1> QED
  BY <1>1, <1>2, <1>4, <1>6, <1>7 DEF length, size

(* The pages tell how many rows there are and whether more follow, for any *)
(* page size and any number of rows (PaginationMeta.build).                *)
THEOREM CountIsHonest == Spec => []CountHonest
<1>1. ListingAssumption /\ ListingInv /\ WalkInv => CountHonest
  <2> SUFFICES ASSUME ListingAssumption, ListingInv, WalkInv, calm, request.step = "answered"
               PROVE  /\ request.meta.has_next <=> Len(walk) < request.total
                      /\ request.meta.total_pages * request.filters.page_size >= request.total
                      /\ request.page > 1 <=> request.meta.has_previous
    BY DEF CountHonest
  <2> QED
    BY Answered
<1> QED
  BY <1>1, ListingAssumption, WalkInvariant, PTL

(* A walk that reached its end holds every row of the query once, by rank. *)
LEMMA WalkIsOrder ==
  ASSUME ListingAssumption, ListingInv, WalkInv, calm, Finished
  PROVE  /\ {walk[i].row : i \in 1..Len(walk)} = Matching
         /\ \A i, j \in 1..Len(walk) : i < j => /\ walk[i].row # walk[j].row
                                               /\ ~Before(walk[j].row, walk[i].row, request.filters)
<1> DEFINE f == request.filters
           n == Cardinality(Matching)
           w == [i \in 1..n |-> walk[i].row]
<1>1. IsTable(Matching) /\ IsFiniteSet(Matching) /\ n \in Nat /\ f.sort_by \in SortFields /\ None \notin Int
  BY MatchingIsTable
<1>2. Len(walk) = n
  <2>1. request.step = "answered" /\ ~request.meta.has_next
    BY DEF Finished
  <2> QED
    BY <2>1, Answered
<1>3. \A i \in 1..n : walk[i].row \in Matching /\ Rank(Matching, walk[i].row, f) = i - 1
  <2>1. Numbered
    BY DEF WalkInv
  <2> QED
    BY <1>2, <2>1 DEF Numbered
<1>4. \A i, j \in 1..n : i < j => /\ walk[i].row # walk[j].row
                                  /\ ~Before(walk[j].row, walk[i].row, f)
  <2> SUFFICES ASSUME NEW i \in 1..n, NEW j \in 1..n, i < j
               PROVE  walk[i].row # walk[j].row /\ ~Before(walk[j].row, walk[i].row, f)
    OBVIOUS
  <2>1. PICK a, b : a = walk[i].row /\ b = walk[j].row
    OBVIOUS
  <2>2. a \in Matching /\ b \in Matching /\ Rank(Matching, a, f) = i - 1 /\ Rank(Matching, b, f) = j - 1
    BY <1>3, <2>1
  <2>3. Rank(Matching, a, f) < Rank(Matching, b, f)
    BY <1>1, <2>2
  <2>4. Before(b, a, f) => Rank(Matching, b, f) < Rank(Matching, a, f)
    BY <1>1, <2>2, RankOrders
  <2>5. a # b /\ ~Before(b, a, f)
    BY <1>1, <2>2, <2>3, <2>4
  <2> QED
    BY <2>1, <2>5
<1>5. w \in Injection(1..n, Matching)
  <2>1. w \in [1..n -> Matching]
    BY <1>3
  <2>2. \A i, j \in 1..n : i # j => w[i] # w[j]
    <3> SUFFICES ASSUME NEW i \in 1..n, NEW j \in 1..n, i # j PROVE w[i] # w[j]
      OBVIOUS
    <3>1. i < j \/ j < i
      BY <1>1
    <3>2. w[i] = walk[i].row /\ w[j] = walk[j].row
      OBVIOUS
    <3> HIDE DEF w
    <3> QED
      BY <1>4, <3>1, <3>2
  <2> HIDE DEF w
  <2> QED
    BY <2>1, <2>2 DEF Injection, IsInjective
<1>6. \A r \in Matching : \E i \in 1..n : w[i] = r
  <2>1. IsFiniteSet(1..n) /\ Cardinality(1..n) = n
    BY <1>1, FS_Interval
  <2> HIDE DEF w
  <2>2. w \in Surjection(1..n, Matching)
    BY <1>1, <1>5, <2>1, FS_Injection
  <2> QED
    BY <2>2 DEF Surjection
<1>7. {walk[i].row : i \in 1..n} = Matching
  <2>1. \A i \in 1..n : w[i] = walk[i].row
    OBVIOUS
  <2> HIDE DEF w
  <2> QED
    BY <1>3, <1>6, <2>1
<1> QED
  BY <1>2, <1>4, <1>7

(* Nothing is shown twice and nothing is left out, however many rows share *)
(* a sort key and wherever the pages are cut: the id decides.              *)
THEOREM OnceEach == Spec => []EachOnce
<1>1. ASSUME ListingAssumption, ListingInv, WalkInv PROVE EachOnce
  <2> DEFINE f == request.filters
             key(i) == SortKey(walk[i].row, f.sort_by)
  <2> SUFFICES ASSUME calm, Finished
               PROVE  /\ {walk[i].row : i \in DOMAIN walk} = {r \in rows : Wanted(r, f)}
                      /\ \A i, j \in DOMAIN walk : i < j =>
                           /\ walk[i].row # walk[j].row
                           /\ key(i) = None => key(j) = None
                           /\ key(j) # None => IF f.sort_order = "desc" THEN key(j) <= key(i) ELSE key(i) <= key(j)
    BY DEF EachOnce
  <2>1. DOMAIN walk = 1..Len(walk)
    <3> DEFINE S == Labelled(f)
    <3>1. walk \in Seq(S)
      BY <1>1 DEF ListingInv
    <3> HIDE DEF S
    <3> QED
      BY <3>1
  <2>2. /\ {walk[i].row : i \in 1..Len(walk)} = Matching
        /\ \A i, j \in 1..Len(walk) : i < j => walk[i].row # walk[j].row /\ ~Before(walk[j].row, walk[i].row, f)
    BY <1>1, WalkIsOrder
  <2>3. Matching = {r \in rows : Wanted(r, f)}
    <3>1. Matching \subseteq rows
      BY DEF Matching
    <3>2. ~Refused(f)
      BY <1>1 DEF WalkInv, Finished
    <3>3. f \in Queries /\ today \in Int /\ IsTable(rows)
      BY <1>1, MatchingIsTable DEF ListingInv
    <3>4. ASSUME NEW r \in rows PROVE r \in Matching <=> Wanted(r, f)
      <4>1. IsRow(r)
        BY <3>3 DEF IsTable
      <4>2. Matches(r, f, Resolve(f, today), today) <=> Wanted(r, f)
        BY <1>1, <3>2, <3>3, <4>1, MatchesIsWanted
      <4> QED
        BY <4>2 DEF Matching
    <3> QED
      BY <3>1, <3>4
  <2>4. ASSUME NEW i \in 1..Len(walk), NEW j \in 1..Len(walk), i < j
        PROVE  /\ key(i) = None => key(j) = None
               /\ key(j) # None => IF f.sort_order = "desc" THEN key(j) <= key(i) ELSE key(i) <= key(j)
    <3>1. IsTable(Matching) /\ f.sort_by \in SortFields /\ None \notin Int
      BY <1>1, MatchingIsTable
    <3>2. walk[i].row \in Matching /\ walk[j].row \in Matching
      BY <1>1 DEF WalkInv, Numbered
    <3>3. IsRow(walk[i].row) /\ IsRow(walk[j].row)
      BY <3>1, <3>2 DEF IsTable
    <3>4. key(i) \in Values /\ key(j) \in Values
      BY <3>1, <3>3, SortKeyIsValue
    <3>5. ~KeyBefore(key(j), key(i), f.sort_order)
      BY <2>2, <2>4 DEF Before
    <3> HIDE DEF key
    <3> QED
      BY <3>1, <3>4, <3>5 DEF KeyBefore, Lt, Values
  <2> QED
    BY <2>1, <2>2, <2>3, <2>4
<1> QED
  BY <1>1, ListingAssumption, WalkInvariant, PTL
=============================================================================
