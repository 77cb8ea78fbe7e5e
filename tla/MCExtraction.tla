---------------------------- MODULE MCExtraction ----------------------------
(***************************************************************************)
(* Three issues seen across a turn of the year, printed the way the feed   *)
(* prints them (tests/fixtures/api) and the way a page does (tests/        *)
(* fixtures/html), in several orders and with any one column left out; and *)
(* responses with something wrong.                                         *)
(***************************************************************************)
EXTENDS Extraction

\* The parts of words among the labels and aliases in use.
Contained == {
  <<"boa", "board">>, <<"category", "category1">>, <<"date", "updated">>, <<"gmp", "gmp1">>,
  <<"list", "listing">>, <<"lot", "allotment">>, <<"on", "subscription">>, <<"open", "opening">>,
  <<"pe", "open">>, <<"pe", "percent">>, <<"pe", "type">>, <<"percent", "percentage">>,
  <<"status", "status1">>, <<"sub", "subscribed">>, <<"sub", "subscription">>,
  <<"update", "updated">>, <<"url", "urlrewrite">> }

Dec30 == Ordinal(2026, 12, 30)

W(a)     == <<Word(a)>>
N(n)     == <<Num(n)>>
Minus(n) == IF n < 0 THEN <<Word("-"), Num(-n)>> ELSE N(n)
Short    == <<"jan", "feb", "mar", "apr", "may", "jun", "jul", "aug", "sep", "oct", "nov", "dec">>

----------------------------------------------------------------------------
(* The issues.  A date is <<year, month, day>>, or Null.                   *)

Issue(id, words, category, badge, status, gmp, pct, low, high, price, lot, crore, sub, dates) ==
  [id |-> id, name |-> [i \in DOMAIN words |-> Word(words[i])], category |-> category,
   badge |-> badge, status |-> status, gmp |-> gmp, pct |-> pct, low |-> low, high |-> high,
   price |-> price, lot |-> lot, crore |-> crore, sub |-> sub, dates |-> dates]

Deepa == Issue(2081, <<"deepa", "jewellers">>, "ipo", <<"ipo">>, "u", 44, 25, 44, 55,
               <<168, 177>>, 84, 459, 2,
               <<<<2026, 12, 28>>, <<2027, 1, 2>>, <<2027, 1, 3>>, <<2027, 1, 6>>>>)
FlyHi == Issue(2097, <<"flyhi", "maritime">>, "sme", <<"bse", "sme">>, "c", -3, -2, -5, 12,
               <<102, 102>>, 1200, 52, 1,
               <<<<2026, 12, 30>>, <<2027, 1, 1>>, <<2027, 1, 2>>, <<2027, 1, 5>>>>)
Farm  == Issue(1905, <<"farm", "peace">>, "ipo", <<"ipo">>, "lp", Null, 0, 0, 0,
               Null, Null, Null, Null, <<Null, Null, Null, Null>>)
Issues == <<Deepa, FlyHi, Farm>>

Path(i) == <<Word("gmp"), Word("slug"), Num(i.id)>>
Day(d)  == IF d = Null THEN Null ELSE Ordinal(d[1], d[2], d[3])

Truth(i) ==
  [source_ipo_id |-> N(i.id), name |-> i.name, source_status |-> W(i.status),
   detail_url |-> Path(i), ipo_type |-> IF i.category = "sme" THEN "SME" ELSE "MAINBOARD",
   exchange |-> IF i.category = "sme" THEN "BSE_SME" ELSE "NSE_BSE",
   gmp |-> i.gmp, gmp_percentage |-> i.pct, gmp_low |-> i.low, gmp_high |-> i.high,
   price_min |-> IF i.price = Null THEN Null ELSE i.price[1],
   price_max |-> IF i.price = Null THEN Null ELSE i.price[2],
   lot_size |-> i.lot, issue_size |-> IF i.crore = Null THEN Null ELSE 100 * i.crore,
   subscription_times |-> i.sub,
   open_date |-> Day(i.dates[1]), close_date |-> Day(i.dates[2]),
   allotment_date |-> Day(i.dates[3]), listing_date |-> Day(i.dates[4]),
   rating |-> 3, pe_ratio |-> 12, has_anchor_investors |-> TRUE]

----------------------------------------------------------------------------
(* Cells.                                                                  *)

Bare(t)   == [text |-> t, link |-> Null, path |-> Null, badges |-> <<>>]
Badge(ws) == [k \in DOMAIN ws |-> Word(ws[k])]

Linked(i)  == [text |-> i.name \o Badge(i.badge) \o W(i.status), link |-> i.name, path |-> Path(i),
               badges |-> <<Badge(i.badge), W(i.status)>>]
Address(i) == [Bare(<<Word("/")>> \o Path(i)) EXCEPT !.path = Path(i)]

Premium(i) == Bare(W("Rs") \o (IF i.gmp = Null THEN W("--") ELSE Minus(i.gmp)) \o W("(")
                   \o Minus(i.pct) \o W("%") \o W(")") \o Minus(i.low) \o W("down") \o W("/")
                   \o Minus(i.high) \o W("up"))
Band(i)    == Bare(IF i.price = Null THEN <<>>
                   ELSE IF i.price[1] = i.price[2] THEN N(i.price[1])
                   ELSE N(i.price[1]) \o W("-") \o N(i.price[2]))
Amount(i)  == Bare(IF i.crore = Null THEN <<>> ELSE W("Rs") \o N(i.crore) \o W("cr"))
Times(i)   == Bare(IF i.sub = Null THEN W("-") ELSE N(i.sub) \o W("x"))
Lots(i)    == Bare(IF i.lot = Null THEN <<>> ELSE N(i.lot))
Iso(d)     == Bare(IF d = Null THEN <<>>
                   ELSE N(d[1]) \o W("-") \o N(d[2]) \o W("-") \o N(d[3]))
Shown(d)   == Bare(IF d = Null THEN <<>> ELSE N(d[3]) \o W("-") \o W(Short[d[2]]))

\* A column: its label, what it shows of each issue, and the fields it is for.
Column(mark, words, fields, cell(_)) ==
  [col |-> [mark |-> mark, words |-> words], fields |-> fields,
   cells |-> [n \in DOMAIN Issues |-> cell(Issues[n])]]

FeedColumns == <<
  Column("~", <<"orderby1">>, {}, LAMBDA i : Bare(N(7000 + i.id))),
  Column("~", <<"ipo", "status1">>, {"source_status"}, LAMBDA i : Bare(W(i.status))),
  Column("~", <<"ipo", "category1">>, {}, LAMBDA i : Bare(W(i.category))),
  Column("~", <<"max", "gmp1">>, {}, LAMBDA i : Bare(Minus(i.high))),
  Column("", <<"name">>, {"exchange"}, Linked),
  Column("", <<"gmp">>, {"gmp", "gmp_low", "gmp_high"}, Premium),
  Column("", <<"rating">>, {"rating"}, LAMBDA i : Bare(W("fire") \o W("fire") \o W("fire"))),
  Column("", <<"sub">>, {"subscription_times"}, Times),
  Column("", <<"price">>, {"price_min", "price_max"}, Band),
  Column("", <<"ipo", "size">>, {"issue_size"}, Amount),
  Column("", <<"lot">>, {"lot_size"}, Lots),
  Column("~", <<"p", "e">>, {"pe_ratio"}, LAMBDA i : Bare(N(12))),
  Column("~", <<"id">>, {"source_ipo_id"}, LAMBDA i : Bare(N(i.id))),
  Column("", <<"open">>, {}, LAMBDA i : Shown(i.dates[1])),
  Column("", <<"close">>, {}, LAMBDA i : Shown(i.dates[2])),
  Column("", <<"anchor">>, {"has_anchor_investors"}, LAMBDA i : Bare(W("check"))),
  Column("~", <<"srt", "open">>, {"open_date"}, LAMBDA i : Iso(i.dates[1])),
  Column("~", <<"srt", "close">>, {"close_date"}, LAMBDA i : Iso(i.dates[2])),
  Column("~", <<"srt", "boa", "dt">>, {"allotment_date"}, LAMBDA i : Iso(i.dates[3])),
  Column("~", <<"str", "listing">>, {"listing_date"}, LAMBDA i : Iso(i.dates[4])),
  Column("~", <<"urlrewrite", "folder", "name">>, {"detail_url"}, Address),
  Column("~", <<"ipo", "category">>, {"ipo_type"}, LAMBDA i : Bare(W(i.category))),
  Column("~", <<"gmp", "percent", "calc">>, {"gmp_percentage"}, LAMBDA i : Bare(Minus(i.pct))),
  Column("~", <<"ipo", "name">>, {"name"}, LAMBDA i : Bare(i.name)) >>

PageColumns == <<
  Column("", <<"ipo", "name">>, {"name", "detail_url", "exchange"}, Linked),
  Column("", <<"type">>, {"ipo_type"}, LAMBDA i : Bare(W(i.category))),
  Column("", <<"gmp">>, {"gmp", "gmp_low", "gmp_high"}, Premium),
  Column("%", <<"gmp">>, {"gmp_percentage"}, LAMBDA i : Bare(Minus(i.pct))),
  Column("", <<"price">>, {"price_min", "price_max"}, Band),
  Column("", <<"ipo", "size">>, {"issue_size"}, Amount),
  Column("", <<"lot">>, {"lot_size"}, Lots),
  Column("", <<"sub">>, {"subscription_times"}, Times),
  Column("", <<"open">>, {"open_date"}, LAMBDA i : Shown(i.dates[1])),
  Column("", <<"close">>, {"close_date"}, LAMBDA i : Shown(i.dates[2])),
  Column("", <<"boa", "dt">>, {"allotment_date"}, LAMBDA i : Shown(i.dates[3])),
  Column("", <<"listing">>, {"listing_date"}, LAMBDA i : Shown(i.dates[4])),
  Column("", <<"status">>, {"source_status"}, LAMBDA i : Bare(W(i.status))),
  Column("", <<"id">>, {"source_ipo_id"}, LAMBDA i : Bare(N(i.id))) >>

----------------------------------------------------------------------------
(* Responses.                                                              *)

Without(columns, k) == SelectSeq([i \in DOMAIN columns |-> [at |-> i, column |-> columns[i]]],
                                 LAMBDA e : e.at # k)
Drop(columns, k)    == [i \in DOMAIN Without(columns, k) |-> Without(columns, k)[i].column]
Turn(columns, by)   == [i \in DOMAIN columns |-> columns[((i + by - 1) % Len(columns)) + 1]]
Back(columns)       == [i \in DOMAIN columns |-> columns[Len(columns) + 1 - i]]

FieldsOf(columns) == UNION {columns[k].fields : k \in DOMAIN columns}
Empty  == [is_json |-> FALSE, braces |-> FALSE, markup |-> FALSE, lists |-> Null,
           tables |-> <<>>, grids |-> <<>>, cards |-> <<>>]
Json   == [Empty EXCEPT !.is_json = TRUE, !.braces = TRUE, !.markup = TRUE]
Html   == [Empty EXCEPT !.markup = TRUE]

RowsOf(columns, wrap) ==
  [n \in DOMAIN Issues |-> [k \in DOMAIN columns |->
     [col |-> columns[k].col, cell |-> columns[k].cells[n], wrap |-> wrap]]]
HeadText(col) == [k \in DOMAIN col.words |-> Word(col.words[k])]
                   \o (IF col.mark = "" THEN <<>> ELSE W(col.mark))
HeadRow(columns) == [k \in DOMAIN columns |-> [th |-> TRUE, cell |-> Bare(HeadText(columns[k].col))]]
Table(columns)   ==
  <<HeadRow(columns)>> \o [n \in DOMAIN Issues |-> [k \in DOMAIN columns |->
                            [th |-> FALSE, cell |-> columns[k].cells[n]]]]
Cards(columns)   == [n \in DOMAIN Issues |-> [k \in DOMAIN columns |->
                       [col |-> columns[k].col, cell |-> columns[k].cells[n]]]]

\* What else a response holds: a list of menu entries, a table of news.
Menu == [n \in 1 .. 4 |-> <<[col |-> [mark |-> "", words |-> <<"key">>], cell |-> Bare(N(n)), wrap |-> "bare"],
                            [col |-> [mark |-> "", words |-> <<"link">>], cell |-> Bare(W("gmp")), wrap |-> "bare"]>>]
News == << <<[th |-> TRUE, cell |-> Bare(W("title"))], [th |-> TRUE, cell |-> Bare(W("views"))]>>,
           <<[th |-> FALSE, cell |-> Bare(W("gmp"))], [th |-> FALSE, cell |-> Bare(N(7))]>>,
           <<[th |-> FALSE, cell |-> Bare(W("sme"))], [th |-> FALSE, cell |-> Bare(N(9))]>> >>
Listed(rows) == <<[depth |-> 1, items |-> Menu], [depth |-> 1, items |-> rows]>>

Truths == [n \in DOMAIN Issues |-> Truth(Issues[n])]
Source(payload, columns, sound, in_order) ==
  [payload |-> payload, truth |-> Truths, shown |-> FieldsOf(columns), sound |-> sound,
   in_order |-> in_order]

Feed(columns, wrap) == [Json EXCEPT !.lists = Listed(RowsOf(columns, wrap))]

\* A feed names its issues twice, so that one column less leaves it sound.
Feeds ==
  {Source(Feed(o, w), o, TRUE, TRUE) :
     o \in {FeedColumns, Turn(FeedColumns, 9)}, w \in {"bare", "value"}}
  \cup {Source(Feed(Back(FeedColumns), w), FeedColumns, TRUE, FALSE) : w \in {"bare", "value"}}
  \cup {Source(Feed(Drop(FeedColumns, k), "bare"), Drop(FeedColumns, k), TRUE, TRUE) :
          k \in DOMAIN FeedColumns}

\* A page without its name column shows no name at all.
Pages(columns, in_order) ==
  LET sound == "name" \in FieldsOf(columns)
  IN  {Source([Html EXCEPT !.tables = <<News, Table(columns)>>], columns, sound, in_order),
       Source([Html EXCEPT !.grids = <<Table(columns)>>], columns, sound, in_order),
       Source([Html EXCEPT !.tables = <<News>>, !.cards = Cards(columns)], columns, sound, in_order)}

PageSources ==
  UNION {Pages(o, TRUE) : o \in {PageColumns, Turn(PageColumns, 5), Turn(PageColumns, 11)}
                                  \cup {Drop(PageColumns, k) : k \in DOMAIN PageColumns}}
  \cup UNION {Pages(o, FALSE) : o \in {Back(PageColumns), Turn(PageColumns, 3),
                                         Back(Drop(PageColumns, 4))}}

\* Something wrong: the rows are not all good ones, or there are none.
Wrong(payload, shown, truth) == [payload |-> payload, truth |-> truth, shown |-> shown, sound |-> FALSE,
                                  in_order |-> TRUE]
Ids == {"source_ipo_id"}

Relabel(columns, words, cell(_)) ==
  [k \in DOMAIN columns |-> IF columns[k].col.words # words THEN columns[k]
                            ELSE [columns[k] EXCEPT !.cells = [n \in DOMAIN Issues |-> cell(Issues[n])]]]
Twisted   == Relabel(FeedColumns, <<"srt", "open">>, LAMBDA i : Iso(i.dates[4]))
Overprice == Relabel(FeedColumns, <<"price">>, LAMBDA i : Bare(N(100) \o W("-") \o N(200000)))
NoLot     == Relabel(FeedColumns, <<"lot">>, LAMBDA i : Bare(N(0)))
OldDates  == Relabel(FeedColumns, <<"srt", "close">>, LAMBDA i : Iso(<<2006, 9, 3>>))
FarDates  == Relabel(FeedColumns, <<"srt", "open">>, LAMBDA i : Iso(<<2006, 9, 3>>))
Nameless  == Relabel(FeedColumns, <<"ipo", "name">>, LAMBDA i : Bare(W("a")))

Doubled == RowsOf(FeedColumns, "bare") \o RowsOf(FeedColumns, "value")
Headless(columns) == SubSeq(Table(columns), 2, 4)
TdHead(columns)   == [n \in DOMAIN Table(columns) |-> [k \in DOMAIN columns |->
                        [Table(columns)[n][k] EXCEPT !.th = FALSE]]]
Notice == << <<[th |-> TRUE, cell |-> Bare(W("notice"))]>>, <<[th |-> FALSE, cell |-> Bare(W("gmp"))]>> >>

WrongSources ==
  {Wrong(Feed(c, "bare"), Ids, Truths) :
     c \in {Twisted, Overprice, NoLot, OldDates, FarDates, Nameless}}
  \cup {Wrong(Feed(FeedColumns, "unknown"), {}, Truths),
        Wrong([Json EXCEPT !.lists = Listed(Doubled)], Ids, Truths),
        Wrong([Json EXCEPT !.lists = Listed(Append(Doubled, Null))], Ids, Truths),
        Wrong([Json EXCEPT !.lists = Null], {}, <<>>),
        Wrong([Empty EXCEPT !.is_json = TRUE, !.lists = <<[depth |-> 7, items |-> Doubled]>>], {}, <<>>),
        Wrong([Html EXCEPT !.braces = TRUE, !.tables = <<Table(PageColumns)>>], Ids, Truths),
        Wrong([Html EXCEPT !.tables = <<News, Notice>>], {}, <<>>),
        Wrong([Html EXCEPT !.tables = <<Headless(PageColumns)>>, !.grids = <<Headless(PageColumns)>>],
              {}, Truths),
        Wrong(Empty, {}, <<>>)}
  \cup {Source([Html EXCEPT !.tables = <<TdHead(PageColumns)>>], PageColumns, TRUE, TRUE)}

MCSources == Feeds \cup PageSources \cup WrongSources
=============================================================================
