------------------------------ MODULE Listing ------------------------------
(***************************************************************************)
(* GET /ipos: a client walks the pages of one query while scrapes commit   *)
(* and the business day ends.  Dates are resolved when the query is        *)
(* validated, the service reads the day again, and the count and the page  *)
(* are two statements at READ COMMITTED.                                   *)
(*                                                                         *)
(* Values are numbers, a text the set of search terms that occur in it.    *)
(***************************************************************************)
EXTENDS IpoStatus, SequencesExt, FiniteSets

CONSTANTS
  Datasets,    \* the sets of rows a scrape may leave
  Queries,     \* filters, as they arrive
  FirstDay,
  LastDay,     \* bound of the calendar
  MaxScrapes   \* bound of commits

DateColumns == {"open_date", "close_date", "listing_date"}
Ranges == {"gmp", "gmp_percentage", "lot_size", "issue_size_crore", "subscription_times"}
IpoTypes == {"MAINBOARD", "SME"}
Exchanges == {"NSE", "BSE", "NSE_SME", "BSE_SME", "NSE_BSE"}

NumberColumns == DateColumns \union Ranges \union {"price_min", "price_max", "created_at", "updated_at"}
SortFields == {"name", "ipo_name", "open_date", "close_date", "listing_date", "gmp", "gmp_percentage",
               "price", "lot_size", "issue_size", "subscription", "created_at", "updated_at"}
Bounds == (Int \union {None}) \X (Int \union {None})

\* The table: columns are numbers or missing, ids differ and price bands are
\* the right way round.  The filters: what the schema of the query lets in.
ASSUME ListingAssumption ==
  /\ None \notin Int \union (Int \X Int) /\ FirstDay \in Int
  /\ \A data \in Datasets :
       /\ IsFiniteSet(data)
       /\ \A row \in data : /\ \A c \in NumberColumns : row[c] \in Int \union {None}
                            /\ {row.id, row.name.rank} \subseteq Int
                            /\ row.price_min = None \/ row.price_max = None \/ row.price_min <= row.price_max
       /\ \A a, b \in data : a.id = b.id => a = b
  /\ \A f \in Queries :
       /\ f.page_size \in Nat \ {0} /\ f.sort_by \in SortFields
       /\ f.ipo_type \in IpoTypes \union {"UNKNOWN", None}
       /\ f.exchange \in Exchanges \union {"UNKNOWN", None}
       /\ \A c \in DateColumns : /\ f.between[c] \in Bounds
                                 /\ f.on[c] # None /\ f.on[c].word \notin Shortcuts => f.on[c].day \in Int
       /\ \A c \in Ranges : f.range[c] \in Bounds
       /\ f.price \in Bounds

VARIABLES
  rows,        \* the committed ipos
  today,       \* the business date now
  scrapes,
  request,     \* [step, filters, page, dates, today, total, meta]
  walk,        \* the items of the pages the client has, in order
  calm         \* history: neither rows nor day changed since the walk began

vars == <<rows, today, scrapes, request, walk, calm>>

Init ==
  /\ rows \in Datasets
  /\ today = FirstDay
  /\ scrapes = 0
  /\ \E f \in Queries :
       request = [step |-> "new", filters |-> f, page |-> 1, dates |-> None, today |-> None,
                  total |-> None, meta |-> None]
  /\ walk = <<>>
  /\ calm = TRUE

-----------------------------------------------------------------------------
\* IPOFilterParams: bounds the wrong way round are refused.
Crossed(bounds) == Lt(bounds[2], bounds[1])

Refused(f) ==
  \/ \E c \in Ranges : Crossed(f.range[c])
  \/ Crossed(f.price)
  \/ \E c \in DateColumns : Crossed(f.between[c])

offset(f, page) == (page - 1) * f.page_size

Resolve(f, day) == [c \in DateColumns |-> _parse_date_field(f.on[c], day)]

\* An unknown value passes any filter.
or_unknown(value, bounds) ==
  value = None \/ ((bounds[1] # None => bounds[1] <= value) /\ (bounds[2] # None => value <= bounds[2]))

Within(value, bounds) ==
  /\ bounds[1] # None => Le(bounds[1], value)
  /\ bounds[2] # None => Le(value, bounds[2])

\* "At least" asks for the top of the band, "at most" for the bottom.
PriceWithin(row, bounds) ==
  /\ bounds[1] # None => Le(bounds[1], row.price_max)
  /\ bounds[2] # None => Le(row.price_min, bounds[2])

\* _apply_filters: one conjunct for each clause.
Matches(row, f, dates, day) ==
  /\ f.status # None => ipo_status_expression(row, day) = f.status
  /\ f.ipo_type # None => row.ipo_type = f.ipo_type
  /\ f.exchange # None => row.exchange = f.exchange
  /\ \A c \in DateColumns : /\ dates[c] # None => Within(row[c], dates[c])
                            /\ Within(row[c], f.between[c])
  /\ \A c \in Ranges : Within(row[c], f.range[c])
  /\ PriceWithin(row, f.price)
  /\ f.search # None => f.search \in row.name.terms \union row.symbol.terms

\* sort_by names a column; NULLs come last in either direction.
SortKey(row, sort_by) ==
  CASE sort_by \in {"name", "ipo_name"} -> row.name.rank
    [] sort_by = "price" -> row.price_max
    [] sort_by = "issue_size" -> row.issue_size_crore
    [] sort_by = "subscription" -> row.subscription_times
    [] OTHER -> row[sort_by]

KeyBefore(a, b, order) ==
  \/ a # None /\ b = None
  \/ IF order = "desc" THEN Lt(b, a) ELSE Lt(a, b)

\* Rows with equal keys come in any order.
by_key_alone(a, b, f) == KeyBefore(SortKey(a, f.sort_by), SortKey(b, f.sort_by), f.sort_order)

Before(a, b, f) ==
  \/ KeyBefore(SortKey(a, f.sort_by), SortKey(b, f.sort_by), f.sort_order)
  \/ SortKey(a, f.sort_by) = SortKey(b, f.sort_by) /\ a.id < b.id

\* Any order the ORDER BY clause admits.
Orders(S, f) ==
  {s \in SetToSeqs(S) : \A i, j \in DOMAIN s : i < j => ~Before(s[j], s[i], f)}

\* One page more when the last one is full.
floor_plus_one(page, size, total) ==
  [total_pages |-> total \div size + 1, has_next |-> page < total \div size + 1,
   has_previous |-> page > 1 /\ total > 0]

build(page, size, total) ==
  LET total_pages == IF total = 0 THEN 0 ELSE (total + size - 1) \div size
  IN  [total_pages |-> total_pages, has_next |-> page < total_pages,
       has_previous |-> page > 1 /\ total > 0]

\* An unknown stored value is shown as UNKNOWN.
_coerce_enum(known, value) == IF value \in known THEN value ELSE "UNKNOWN"

to_response(row, day) ==
  [row |-> row,
   status |-> derive_status(row, day),
   ipo_type |-> _coerce_enum(IpoTypes, row.ipo_type),
   exchange |-> _coerce_enum(Exchanges, row.exchange)]

-----------------------------------------------------------------------------
\* Validation, with the first reading of the day.
Validate ==
  /\ request.step = "new"
  /\ request' = IF Refused(request.filters) THEN [request EXCEPT !.step = "refused"]
                ELSE [request EXCEPT !.step = "valid", !.dates = Resolve(request.filters, today)]
  /\ UNCHANGED <<rows, today, scrapes, walk, calm>>

\* list_ipos reads the day, list_filtered counts.
Count ==
  /\ request.step = "valid"
  /\ request' = [request EXCEPT !.step = "counted", !.today = today,
                   !.total = Cardinality({r \in rows : Matches(r, request.filters, request.dates, today)})]
  /\ UNCHANGED <<rows, today, scrapes, walk, calm>>

FetchPage ==
  /\ request.step = "counted"
  /\ LET f == request.filters
         from == offset(f, request.page)
     IN  \E order \in Orders({r \in rows : Matches(r, f, request.dates, request.today)}, f) :
           LET here == {i \in 1..f.page_size : from + i <= Len(order)}
           IN  walk' = walk \o [i \in here |-> to_response(order[from + i], request.today)]
  /\ request' = [request EXCEPT !.step = "answered",
                   !.meta = build(request.page, request.filters.page_size, request.total)]
  /\ UNCHANGED <<rows, today, scrapes, calm>>

\* The client asks for the next page, in a request of its own.
Follow ==
  /\ request.step = "answered"
  /\ request.meta.has_next
  /\ request' = [request EXCEPT !.step = "new", !.page = @ + 1]
  /\ UNCHANGED <<rows, today, scrapes, walk, calm>>

Scrape ==
  /\ scrapes < MaxScrapes
  /\ rows' \in Datasets \ {rows}
  /\ scrapes' = scrapes + 1
  /\ calm' = FALSE
  /\ UNCHANGED <<today, request, walk>>

Midnight ==
  /\ today < LastDay
  /\ today' = today + 1
  /\ calm' = FALSE
  /\ UNCHANGED <<rows, scrapes, request, walk>>

Next == Validate \/ Count \/ FetchPage \/ Follow \/ Scrape \/ Midnight

Spec == Init /\ [][Next]_vars

-----------------------------------------------------------------------------
Finished == request.step = "answered" /\ ~request.meta.has_next

\* The days a filter's date is about, on the day of the walk.
DaysOf(date) ==
  CASE date.word = "this_week" -> {d \in today - 6..today + 6 : d \div 7 = today \div 7}
    [] date.word = "next_week" -> {d \in today..today + 13 : d \div 7 = today \div 7 + 1}
    [] date.word = "today"     -> {today}
    [] date.word = "tomorrow"  -> {today + 1}
    [] date.word = "yesterday" -> {today - 1}
    [] OTHER -> {date.day}

Known(value, bounds) == bounds # <<None, None>> => value # None /\ Within(value, bounds)

\* What the filters mean: the stage on the day, the classification, the dates
\* and ranges, some price of the band within the bounds, the term in a text.
\* A band with an unknown end is judged by the end a bound is about.
Wanted(row, f) ==
  /\ f.status # None => derive_status(row, today) = f.status
  /\ f.ipo_type \in {None, row.ipo_type} /\ f.exchange \in {None, row.exchange}
  /\ \A c \in DateColumns : /\ f.on[c] # None => row[c] \in DaysOf(f.on[c])
                            /\ Known(row[c], f.between[c])
  /\ \A c \in Ranges : Known(row[c], f.range[c])
  /\ IF row.price_min # None /\ row.price_max # None
     THEN \E p \in row.price_min..row.price_max : Within(p, f.price)
     ELSE PriceWithin(row, f.price)
  /\ f.search # None => f.search \in row.name.terms \/ f.search \in row.symbol.terms

\* Every row is labelled with the stage, type and exchange that were asked
\* for: the SQL that filters and the Python that labels agree on every page,
\* whatever commits or day change come between the statements (derive_status).
LabelsAgree ==
  \A i \in DOMAIN walk :
    LET f == request.filters
    IN  f.status \in {None, walk[i].status} /\ f.ipo_type \in {None, walk[i].ipo_type}
        /\ f.exchange \in {None, walk[i].exchange}

\* While neither data nor day change, a page holds only rows its filters mean
\* (_apply_filters, resolve_date_shortcut).
OnlyWanted == calm => \A i \in DOMAIN walk : Wanted(walk[i].row, request.filters)

\* While neither data nor day change, the pages together hold every row the
\* filters mean once, by the sort column and with unknown values last: no row
\* is repeated or skipped at a page's edge (_apply_sorting).
EachOnce ==
  calm /\ Finished =>
    LET f == request.filters
        key(i) == SortKey(walk[i].row, f.sort_by)
    IN  /\ {walk[i].row : i \in DOMAIN walk} = {r \in rows : Wanted(r, f)}
        /\ \A i, j \in DOMAIN walk : i < j =>
             /\ walk[i].row # walk[j].row
             /\ key(i) = None => key(j) = None
             /\ key(j) # None => IF f.sort_order = "desc" THEN key(j) <= key(i) ELSE key(i) <= key(j)

\* While neither data nor day change, the total is the number of rows on the
\* pages and has_next tells whether one is missing (PaginationMeta.build).
CountHonest ==
  calm /\ request.step = "answered" =>
    /\ request.meta.has_next <=> Len(walk) < request.total
    /\ request.meta.total_pages * request.filters.page_size >= request.total
    /\ request.page > 1 <=> request.meta.has_previous
=============================================================================
