----------------------------- MODULE MCListing -----------------------------
(***************************************************************************)
(* Four IPOs and the same four after a scrape; day 17 is a Thursday.       *)
(***************************************************************************)
EXTENDS Listing

Text(rank, terms) == [rank |-> rank, terms |-> terms]

Blank(id) ==
  [id |-> id, name |-> Text(id, {"ipo"}), symbol |-> Text(0, {}), ipo_type |-> "SME", exchange |-> "NSE_SME",
   open_date |-> None, close_date |-> None, listing_date |-> None,
   gmp |-> None, gmp_percentage |-> None, lot_size |-> None, issue_size_crore |-> None,
   subscription_times |-> None, price_min |-> None, price_max |-> None,
   created_at |-> 1, updated_at |-> 1]

Dated(id, open, close, listing) ==
  [Blank(id) EXCEPT !.open_date = open, !.close_date = close, !.listing_date = listing]

Priced(row, low, high, gmp) == [row EXCEPT !.price_min = low, !.price_max = high, !.gmp = gmp]

Issues ==
  { Priced(Dated(1, 15, 17, 20), 90, 100, 5),
    Priced(Dated(2, 15, 18, None), 40, 45, 5),
    Priced(Dated(3, 17, 20, None), 60, None, None),
    [Priced(Dated(4, 10, 14, 17), 70, 95, 9) EXCEPT !.ipo_type = "MAINBOARD", !.exchange = "NSE_BSE",
       !.symbol = Text(1, {"tech"}), !.updated_at = 2] }

\* Dates revised, a value lost, one more issue and a platform forgotten.
Revised ==
  {[row EXCEPT !.updated_at = 3] : row \in
    { Dated(1, 16, 18, 21),
      Priced(Dated(2, 18, 21, None), 40, 45, 7),
      Priced(Dated(3, None, None, None), 60, 65, 5),
      [Dated(4, 10, 14, 17) EXCEPT !.exchange = "UNKNOWN"],
      [Priced(Dated(5, 24, 26, None), 20, 22, 5) EXCEPT !.created_at = 3] }}

MCDatasets == {Issues, Revised}

On(word) == [word |-> word, day |-> None]
NoDates == [c \in DateColumns |-> None]
NoBounds(S) == [c \in S |-> <<None, None>>]

All == [status |-> None, ipo_type |-> None, exchange |-> None, on |-> NoDates,
        between |-> NoBounds(DateColumns), range |-> NoBounds(Ranges), price |-> <<None, None>>,
        search |-> None, sort_by |-> "close_date", sort_order |-> "desc", page_size |-> 2]

MCQueries ==
  {[All EXCEPT !.status = s] : s \in {"UPCOMING", "OPEN", "CLOSING_TODAY", "CLOSED", "LISTED", "UNKNOWN"}}
  \union {[All EXCEPT !.on.close_date = On(w), !.page_size = 1] : w \in Shortcuts}
  \union {[All EXCEPT !.on.open_date = [word |-> "iso", day |-> 15], !.sort_order = "asc"],
          [All EXCEPT !.on.listing_date = On("this_week"), !.between.listing_date = <<18, None>>],
          [All EXCEPT !.between.open_date = <<18, 12>>],
          [All EXCEPT !.range.gmp = <<9, 5>>],
          [All EXCEPT !.price = <<100, 50>>]}
  \union {[All EXCEPT !.price = p, !.sort_by = "price"] : p \in {<<50, 92>>, <<45, None>>, <<None, 60>>}}
  \union {[All EXCEPT !.sort_by = c, !.sort_order = o, !.page_size = n] :
            c \in {"gmp", "name", "price", "updated_at"}, o \in {"asc", "desc"}, n \in {1, 3}}
  \union {[All EXCEPT !.range.gmp = <<5, 8>>, !.sort_by = "gmp", !.page_size = 1],
          [All EXCEPT !.ipo_type = "MAINBOARD"], [All EXCEPT !.exchange = "NSE_SME", !.page_size = 1],
          [All EXCEPT !.search = "tech"], [All EXCEPT !.search = "%"]}
=============================================================================
