----------------------------- MODULE Extraction -----------------------------
(***************************************************************************)
(* One response on its way through ExtractorChain, IPONormalizer and       *)
(* IPOValidator: each strategy is skipped or tried, the result chosen, its *)
(* records typed, and the typed records validated.                         *)
(*                                                                         *)
(* A source is [payload, truth, shown, sound, in_order]: the response, what *)
(* the site meant by each of its rows, the fields it prints in a column of *)
(* their own, whether every row is a good one that shows its name, and     *)
(* whether a GMP column precedes any other that could be one, as it does   *)
(* on the site.                                                            *)
(***************************************************************************)
EXTENDS Normalizer

CONSTANTS
  Sources,
  Today      \* the day the scrape runs on, a day number

ASSUME TodayAssumption  == Today \in Nat \ {0}
ASSUME SourceAssumption == \A s \in Sources : s.payload \in Payloads

VARIABLES source, phase, attempts, result, ipos, report

vars == <<source, phase, attempts, result, ipos, report>>

Init ==
  /\ source \in Sources
  /\ phase = "JSON_API"
  /\ attempts = <<>>
  /\ result = Nothing("NONE")
  /\ ipos = <<>>
  /\ report = [valid |-> <<>>, rejected |-> 0]

Handles(strategy) ==
  IF strategy = "JSON_API" THEN JsonHandles(source.payload) ELSE HtmlHandles(source.payload)

After(strategy) == IF strategy = "JSON_API" THEN "HTML_TABLE" ELSE "choose"

Strategies == {"JSON_API", "HTML_TABLE"}

CannotHandle(strategy) ==
  /\ phase = strategy
  /\ ~Handles(strategy)
  /\ phase' = After(strategy)
  /\ UNCHANGED <<source, attempts, result, ipos, report>>

\* The first strategy with a usable result ends the search.
Attempt(strategy) ==
  /\ phase = strategy
  /\ Handles(strategy)
  /\ strategy = "JSON_API" => ~JsonRaises(source.payload)
  /\ LET r == IF strategy = "JSON_API" THEN ExtractJson(source.payload) ELSE ExtractHtml(source.payload)
     IN  /\ attempts' = Append(attempts, r)
         /\ IF Usable(r) THEN phase' = "normalize" /\ result' = r
            ELSE phase' = After(strategy) /\ UNCHANGED result
  /\ UNCHANGED <<source, ipos, report>>

\* A row that is no object: the error leaves the chain.
AttemptRaises ==
  /\ phase = "JSON_API"
  /\ Handles("JSON_API")
  /\ JsonRaises(source.payload)
  /\ phase' = "raised"
  /\ UNCHANGED <<source, attempts, result, ipos, report>>

Choose ==
  /\ phase = "choose"
  /\ result' = Closest(attempts)
  /\ phase' = "normalize"
  /\ UNCHANGED <<source, attempts, ipos, report>>

Normalize ==
  /\ phase = "normalize"
  /\ ipos' = normalize_many(result.records, Today)
  /\ phase' = "validate"
  /\ UNCHANGED <<source, attempts, result, report>>

Validate ==
  /\ phase = "validate"
  /\ report' = validate(ipos, Today)
  /\ phase' = "done"
  /\ UNCHANGED <<source, attempts, result, ipos>>

Next ==
  \/ \E s \in Strategies : CannotHandle(s) \/ Attempt(s)
  \/ AttemptRaises \/ Choose \/ Normalize \/ Validate

Spec == Init /\ [][Next]_vars

----------------------------------------------------------------------------

\* No column serves two fields, and whatever pair of a column and a field was
\* passed over, one of the two is used for something at least as certain: the
\* mapping does not depend on luck (field_map.py:348-358, docs/scraper.md
\* "so two similarly-named columns cannot collapse onto one field").
MappingStable ==
  phase = "normalize" =>
    /\ \A m, n \in result.matches : m # n => m.field # n.field /\ m.col # n.col
    /\ \A c \in candidates(result.columns, result.rows) : \E m \in result.matches :
         (m.field = c.field \/ m.col = c.col) /\ m.score >= c.score

\* Two columns are as good as one another for the premium, and the wrong one
\* comes first.
PremiumTied ==
  /\ ~source.in_order
  /\ \E c, d \in candidates(result.columns, result.rows) :
       c.field = "gmp" /\ d.field = "gmp" /\ c.col # d.col /\ c.score = d.score

\* The values that may be misread, and nothing else: the premium, from GMP %
\* when that column precedes GMP; the raw status, when the feed loses its name
\* column and the status column is read as the name; the exchange, when it
\* loses its link column and the cell with the badges is read as the link.
\* The first is against tests/unit/test_scraper_resilience.py:153 ("Column order
\* carries no meaning"), which compares only which fields are mapped; the others
\* are against line 159 ("degrades only that field"), tried on GMP % alone.
Misread(field) ==
  \/ field \in {"gmp", "gmp_low", "gmp_high"} /\ PremiumTied
  \/ field = "source_status" /\ "name" \notin source.shown
  \/ field = "exchange" /\ "detail_url" \notin source.shown

\* What the site prints is what is stored: whichever delivery (feed, table,
\* grid, cards), order of columns and column left out, every row of a sound
\* source comes out, in order, and every field with a column of its own has
\* the value the site meant, with hyphens, units and missing years read right,
\* but for the few that Misread names (FieldMapper.map_columns, IPONormalizer).
ReadsBack ==
  phase = "done" /\ source.sound =>
    /\ Len(report.valid) = Len(source.truth)
    /\ \A n \in DOMAIN report.valid : \A f \in source.shown :
         Misread(f) \/ report.valid[n][f] = source.truth[n][f]

\* An IPO keeps its identity as long as the source prints its number, in the
\* id column or at the end of a link: no scrape makes a second row of it
\* (docs/database.md:114-118, normalizer.py:176-197).
IdentitySurvives ==
  phase = "done" /\ {"source_ipo_id", "detail_url"} \cap source.shown # {} =>
    \A n \in DOMAIN report.valid : \E m \in DOMAIN source.truth :
      report.valid[n].source_ipo_id = source.truth[m].source_ipo_id

\* However odd the cells, what passes validation is accepted by the CHECK
\* constraints of the table and has one row for each id: one bad cell never
\* costs the batch (db/models/ipo.py:124-134, validator.py:106-160).
ValidFitsTable ==
  /\ \A n \in DOMAIN report.valid :
       LET r == report.valid[n] IN
         /\ r.open_date = Null \/ r.close_date = Null \/ r.open_date <= r.close_date
         /\ r.price_min = Null \/ r.price_max = Null \/ r.price_min <= r.price_max
         /\ r.lot_size = Null \/ r.lot_size > 0
         /\ \A m \in DOMAIN report.valid :
              report.valid[m].source_ipo_id = r.source_ipo_id => m = n

=============================================================================
