----------------------------- MODULE Normalizer -----------------------------
(***************************************************************************)
(* From a record of raw cells to a typed IPO, and the repairs a typed IPO  *)
(* goes through before it is stored: app/services/scraper/normalizer.py    *)
(* and validator.py.  A cell is [text, link, path, badges]: its plain      *)
(* text, the text of its first link and the path this link, or a text that *)
(* begins with a slash, leads to (Null where there is none), and the text  *)
(* of each badge.                                                          *)
(***************************************************************************)
EXTENDS Extractor

NoText == [text |-> <<>>, link |-> Null, path |-> Null, badges |-> <<>>]

\* record.get, and record.unmapped.get: nothing reads as an empty text.
Get(record, field)   == IF field \in DOMAIN record.fields THEN record.fields[field] ELSE NoText
Spare(record, label) == IF label \in DOMAIN record.unmapped THEN record.unmapped[label] ELSE NoText

Filled(cells) == SelectSeq(cells, LAMBDA c : ~is_null_token(c.text))
FirstOf(seq)  == IF seq = <<>> THEN Null ELSE seq[1]

----------------------------------------------------------------------------
(* Identity.                                                               *)

\* The link's own text, for badges follow it; of the machine column its text.
_extract_name(record) ==
  LET shown(c) == IF c.link = Null THEN c.text ELSE c.link
      names    == Filled(<<Get(record, "name"), Spare(record, <<"name">>)>>)
  IN  FirstOf(SelectSeq([n \in DOMAIN names |-> shown(names[n])], LAMBDA t : Length(t) >= 2))

_extract_detail_url(record) ==
  LET cells == Filled(<<Get(record, "detail_url"), Get(record, "name"), Spare(record, <<"name">>)>>)
      found == SelectSeq(cells, LAMBDA c : c.path # Null)
  IN  IF found = <<>> THEN Null ELSE found[1].path

\* Mutant: the number in the link is not looked for.
id_or_name(record, path, name) ==
  LET own == Get(record, "source_ipo_id").text
  IN  IF ~is_null_token(own) THEN own ELSE <<Word("name:")>> \o name

\* The id column; or the number that ends the link; or the name.
_extract_source_id(record, path, name) ==
  LET own  == Get(record, "source_ipo_id").text
      slug == SelectSeq(name, LAMBDA l : IsNum(l) \/ IsAlpha(l))
  IN  IF ~is_null_token(own) THEN own
      ELSE IF path # Null /\ path # <<>> /\ IsNum(path[Len(path)]) THEN <<path[Len(path)]>>
      ELSE IF slug # <<>> THEN <<Word("name:")>> \o slug ELSE Null

_extract_slug(path) ==
  IF path = Null THEN Null
  ELSE LET parts == SelectSeq(path, LAMBDA l : ~IsNum(l))
       IN  IF parts = <<>> THEN Null ELSE parts[Len(parts)]

----------------------------------------------------------------------------
(* The other fields.                                                       *)

Cuts(t)    == {i \in DOMAIN t : t[i].w \in {"(", "down", "up"}}
Leading(t) == IF Cuts(t) = {} THEN t ELSE SubSeq(t, 1, First(Cuts(t)) - 1)

\* "5 down / 12 up", the extremes of the day.
HighOf(t, i) == Skip(t, i + 3, {"-"})
Extremes(t)  == {i \in before(t, {"down"}) : At(t, i + 2, {"/"}) /\ HighOf(t, i) \in before(t, {"up"})}

\* The premium is read before the bracket; a column of percentages comes first.
_extract_gmp(record) ==
  LET t    == Get(record, "gmp").text
      own  == parse_percentage(Get(record, "gmp_percentage").text)
      at   == First(Extremes(t))
      none == Extremes(t) = {}
  IN  [gmp  |-> IF is_null_token(t) THEN Null ELSE parse_decimal(Leading(t)),
       pct  |-> IF own # Null THEN own ELSE parse_percentage(t),
       low  |-> IF none THEN Null ELSE signed(t, at),
       high |-> IF none THEN Null ELSE signed(t, HighOf(t, at))]

\* No field is called exchange, so the third place the code looks in is empty.
_all_badges(record) == Get(record, "name").badges \o Spare(record, <<"name">>).badges

\* The first keyword that some text contains, of the first text that contains one.
Mentions(t, words) == \E k \in 0 .. Len(t) - Len(words) :
                        \A i \in DOMAIN words : t[k + i].w = words[i]
Keyword(t, table)  == FirstOf(SelectSeq(table, LAMBDA e : Mentions(t, e.words)))
Lookup(texts, table, default) ==
  LET hits == SelectSeq(texts, LAMBDA t : Keyword(t, table) # Null)
  IN  IF hits = <<>> THEN default ELSE Keyword(hits[1], table).means

Entry(words, means) == [words |-> words, means |-> means]
_TYPE_KEYWORDS == <<
  Entry(<<"sme">>, "SME"), Entry(<<"mainboard">>, "MAINBOARD"),
  Entry(<<"main", "board">>, "MAINBOARD"), Entry(<<"ipo">>, "MAINBOARD") >>
_EXCHANGE_KEYWORDS == <<
  Entry(<<"nse", "sme">>, "NSE_SME"), Entry(<<"nse", "emerge">>, "NSE_SME"),
  Entry(<<"emerge">>, "NSE_SME"), Entry(<<"bse", "sme">>, "BSE_SME"),
  Entry(<<"bse", "startup">>, "BSE_SME"), Entry(<<"nse", "bse">>, "NSE_BSE"),
  Entry(<<"bse", "nse">>, "NSE_BSE"), Entry(<<"nse">>, "NSE"), Entry(<<"bse">>, "BSE") >>

_extract_ipo_type(record) ==
  Lookup(<<Get(record, "ipo_type").text, Spare(record, <<"ipo", "category">>).text>>
           \o _all_badges(record), _TYPE_KEYWORDS, "UNKNOWN")

_extract_exchange(record, ipo_type) ==
  Lookup(_all_badges(record) \o <<Get(record, "ipo_type").text>>, _EXCHANGE_KEYWORDS,
         IF ipo_type = "MAINBOARD" THEN "NSE_BSE" ELSE "UNKNOWN")

TextOrNull(t) == IF is_null_token(t) THEN Null ELSE t
_extract_status(record) == TextOrNull(Get(record, "source_status").text)
_clean_text(t)          == TextOrNull(t)

Smaller(a, b) == IF a <= b THEN a ELSE b

_extract_rating(t) ==
  LET fires  == Cardinality({i \in DOMAIN t : t[i].w = "fire"})
      number == parse_decimal(t)
  IN  IF fires > 0 THEN Smaller(fires, 5)
      ELSE IF number # Null /\ number > 0 /\ number <= 10 THEN Smaller(number, 5) ELSE Null

Shows(t, W) == \E i \in DOMAIN t : t[i].w \in W
_extract_anchor(t) ==
  IF Shows(t, {"check"}) \/ t \in {<<Word("yes")>>, <<Word("y")>>, <<Word("true")>>} THEN TRUE
  ELSE IF Shows(t, {"cross"}) \/ t \in {<<Word("no")>>, <<Word("n")>>, <<Word("false")>>} THEN FALSE
  ELSE Null

_positive_int(t) == LET number == parse_decimal(t)
                    IN  IF number # Null /\ number > 0 THEN number ELSE Null

_estimated_listing_price(price_max, gmp) ==
  IF price_max = Null \/ gmp = Null THEN Null ELSE price_max + gmp

\* Every value of no field is kept with the IPO, as text.
_build_raw_data(record) ==
  LET kept == {w \in DOMAIN record.unmapped : ~is_null_token(record.unmapped[w].text)}
  IN  [w \in kept |-> record.unmapped[w].text]

----------------------------------------------------------------------------

Typed(record, path, id, name, reference) ==
  LET gmp  == _extract_gmp(record)
      band == parse_price_band(Get(record, "price").text)
      type == _extract_ipo_type(record)
      date(field) == parse_date(Get(record, field).text, reference)
  IN  [source_ipo_id |-> id, name |-> name, ipo_type |-> type,
       exchange |-> _extract_exchange(record, type),
       source_status |-> _extract_status(record), slug |-> _extract_slug(path), detail_url |-> path,
       open_date |-> date("open_date"), close_date |-> date("close_date"),
       allotment_date |-> date("allotment_date"), listing_date |-> date("listing_date"),
       price_min |-> band[1], price_max |-> band[2],
       lot_size |-> _positive_int(Get(record, "lot_size").text),
       issue_size |-> parse_amount_in_crore(Get(record, "issue_size").text),
       gmp |-> gmp.gmp, gmp_percentage |-> gmp.pct, gmp_low |-> gmp.low, gmp_high |-> gmp.high,
       subscription_times |-> parse_multiplier(Get(record, "subscription").text),
       rating |-> _extract_rating(Get(record, "rating").text),
       pe_ratio |-> parse_decimal(Get(record, "pe_ratio").text),
       has_anchor_investors |-> _extract_anchor(Get(record, "anchor").text),
       source_updated_text |-> _clean_text(Get(record, "updated_on").text),
       raw_data |-> _build_raw_data(record),
       estimated_listing_price |-> _estimated_listing_price(band[2], gmp.gmp)]

\* Null, of a record without a name.
normalize(record, reference) ==
  LET name == _extract_name(record)
      path == _extract_detail_url(record)
      id   == _extract_source_id(record, path, name)
  IN  IF name = Null THEN Null ELSE IF id = Null THEN Null
      ELSE Typed(record, path, id, name, reference)

normalize_many(records, reference) ==
  LET typed == [n \in DOMAIN records |-> normalize(records[n], reference)]
  IN  Keep(typed, {n \in DOMAIN typed : typed[n] # Null})

----------------------------------------------------------------------------
(* Validation.                                                             *)

MAX_REASONABLE_PRICE            == 100000
MIN_REASONABLE_GMP_PERCENTAGE   == -100
MAX_REASONABLE_GMP_PERCENTAGE   == 1000
MAX_REASONABLE_ISSUE_SIZE_CRORE == 500000
MAX_REASONABLE_LOT_SIZE         == 1000000
MAX_REASONABLE_SUBSCRIPTION     == 100000
MAX_DATE_DRIFT_DAYS             == 800

Misordered(r) == r.open_date # Null /\ r.close_date # Null /\ r.open_date > r.close_date

\* Mutant: the dates are not compared.
FatalName(r) == Length(r.name) < 2

\* The record is refused.
Fatal(r) == Length(r.name) < 2 \/ Misordered(r)

Bounded(v, low, high) == IF v # Null /\ low <= v /\ v <= high THEN v ELSE Null
Near(day, reference)  ==
  IF day # Null /\ Distance(day, reference) <= MAX_DATE_DRIFT_DAYS THEN day ELSE Null

\* A value out of bounds is cleared, a band upside down is turned.
Repaired(r, reference) ==
  LET low  == Bounded(r.price_min, 0, MAX_REASONABLE_PRICE)
      high == Bounded(r.price_max, 0, MAX_REASONABLE_PRICE)
      turn == low # Null /\ high # Null /\ low > high
  IN  [r EXCEPT
        !.open_date = Near(@, reference), !.close_date = Near(@, reference),
        !.allotment_date = Near(@, reference), !.listing_date = Near(@, reference),
        !.price_min = IF turn THEN high ELSE low, !.price_max = IF turn THEN low ELSE high,
        !.gmp_percentage = Bounded(@, MIN_REASONABLE_GMP_PERCENTAGE, MAX_REASONABLE_GMP_PERCENTAGE),
        !.issue_size = Bounded(@, 0, 100 * MAX_REASONABLE_ISSUE_SIZE_CRORE),
        !.lot_size = Bounded(@, 1, MAX_REASONABLE_LOT_SIZE),
        !.subscription_times = Bounded(@, 0, MAX_REASONABLE_SUBSCRIPTION),
        !.rating = Bounded(@, 0, 5)]

\* The first record of an id counts, whether or not it is refused itself.
validate(ipos, reference) ==
  LET again(n) == \E m \in 1 .. n - 1 : ipos[m].source_ipo_id = ipos[n].source_ipo_id
      good     == {n \in DOMAIN ipos : ~Fatal(ipos[n]) /\ ~again(n)}
  IN  [valid |-> Keep([n \in DOMAIN ipos |-> Repaired(ipos[n], reference)], good),
       rejected |-> Len(ipos) - Cardinality(good)]
=============================================================================
