------------------------------ MODULE FieldMap ------------------------------
(***************************************************************************)
(* Which column of a source is which field: app/services/scraper/          *)
(* field_map.py.  A column is its label, [mark, words]: mark is "~" on the *)
(* machine columns of the feed, and otherwise tells apart labels that are  *)
(* spelt differently and read the same.  A row is a sequence of            *)
(* [col, cell], one for each column it has.  Scores are in ten-thousandths.*)
(***************************************************************************)
EXTENDS CellText

CONSTANT Parts    \* <<v, w>>: the letters of the word v are a part of the word w

Labels == [mark : STRING, words : Seq(STRING)]
Cells  == [text : Texts, link : {Null} \cup Texts, path : {Null} \cup Texts, badges : Seq(Texts)]

SCORE_EXACT          == 10000
SCORE_TOKEN_SUBSET   == 8000
SCORE_SUBSTRING      == 6000
SCORE_VALUE_SHAPE    == 4500
MACHINE_COLUMN_BONUS == 2500

Field(name, aliases, shape) == [name |-> name, aliases |-> aliases, shape |-> shape]

CANONICAL_FIELDS == <<
  Field("source_ipo_id", {<<"id">>, <<"ipo", "id">>, <<"issue", "id">>, <<"company", "id">>}, "none"),
  Field("name", {<<"ipo", "name">>, <<"name">>, <<"company">>, <<"company", "name">>, <<"issue">>,
                 <<"issuer">>, <<"ipo">>}, "name"),
  Field("ipo_type", {<<"ipo", "category">>, <<"category">>, <<"type">>, <<"ipo", "type">>,
                     <<"board">>, <<"segment">>}, "none"),
  Field("source_status", {<<"ipo", "status">>, <<"status">>, <<"state">>}, "none"),
  Field("gmp", {<<"gmp">>, <<"grey", "market", "premium">>, <<"gray", "market", "premium">>,
                <<"premium">>, <<"max", "gmp">>}, "currency"),
  Field("gmp_percentage", {<<"gmp", "percent", "calc">>, <<"gmp", "percent">>, <<"gmp", "percentage">>,
                           <<"gmp">>, <<"estimated", "listing", "gain">>, <<"listing", "gain">>,
                           <<"est", "listing", "gain">>, <<"gain">>}, "percent"),
  Field("price", {<<"price">>, <<"issue", "price">>, <<"price", "band">>, <<"cap", "price">>,
                  <<"offer", "price">>}, "number"),
  Field("lot_size", {<<"lot">>, <<"lot", "size">>, <<"market", "lot">>, <<"min", "qty">>,
                     <<"minimum", "quantity">>}, "number"),
  Field("issue_size", {<<"ipo", "size">>, <<"issue", "size">>, <<"size">>, <<"offer", "size">>,
                       <<"total", "issue", "size">>}, "currency"),
  Field("subscription", {<<"sub">>, <<"subscription">>, <<"subscribed">>, <<"times", "subscribed">>,
                         <<"sub", "times">>}, "multiplier"),
  Field("open_date", {<<"srt", "open">>, <<"open">>, <<"open", "date">>, <<"opening", "date">>,
                      <<"start", "date">>, <<"issue", "open">>}, "date"),
  Field("close_date", {<<"srt", "close">>, <<"close">>, <<"close", "date">>, <<"closing", "date">>,
                       <<"last", "date">>, <<"issue", "close">>, <<"end", "date">>}, "date"),
  Field("allotment_date", {<<"srt", "boa", "dt">>, <<"boa", "dt">>, <<"boa">>, <<"allotment">>,
                           <<"allotment", "date">>, <<"basis", "of", "allotment">>,
                           <<"allotment", "dt">>}, "date"),
  Field("listing_date", {<<"str", "listing">>, <<"srt", "listing">>, <<"listing">>,
                         <<"listing", "date">>, <<"list", "date">>}, "date"),
  Field("rating", {<<"rating">>, <<"review">>, <<"score">>, <<"stars">>}, "none"),
  Field("pe_ratio", {<<"p", "e">>, <<"pe">>, <<"pe", "ratio">>, <<"p", "e", "ratio">>,
                     <<"price", "earnings">>}, "none"),
  Field("anchor", {<<"anchor">>, <<"anchor", "investor">>, <<"anchor", "investors">>}, "none"),
  Field("updated_on", {<<"updated", "on">>, <<"updated">>, <<"last", "updated">>,
                       <<"update", "time">>}, "none"),
  Field("detail_url", {<<"urlrewrite", "folder", "name">>, <<"url">>, <<"link">>,
                       <<"detail", "url">>, <<"slug">>}, "none") >>

REQUIRED_FIELDS == {"source_ipo_id", "name", "gmp", "price", "open_date", "close_date"}
IDENTITY_FIELDS == {"source_ipo_id", "name"}

----------------------------------------------------------------------------
(* Scores of one column for one field.                                     *)

normalize_label(label) == label.words

Tokens(words) == {words[i] : i \in DOMAIN words}

\* The text of a in that of b: whole words, but for the ends of a.
Within(a, b) ==
  \E k \in 0 .. Len(b) - Len(a) : \A i \in DOMAIN a :
    \/ a[i] = b[k + i]
    \/ i \in {1, Len(a)} /\ <<a[i], b[k + i]>> \in Parts

Exact(field, words)  == words \in field.aliases
Subset(field, words) == \E a \in field.aliases : Tokens(a) \subseteq Tokens(words)
Part(field, words)   == \E a \in field.aliases : Within(a, words) \/ Within(words, a)

score_label(field, label) ==
  LET words == normalize_label(label)
      bonus == IF label.mark = "~" THEN MACHINE_COLUMN_BONUS ELSE 0
  IN  IF words = <<>> THEN 0
      ELSE IF Exact(field, words)  THEN SCORE_EXACT + bonus
      ELSE IF Subset(field, words) THEN SCORE_TOKEN_SUBSET + bonus
      ELSE IF Part(field, words)   THEN SCORE_SUBSTRING + bonus ELSE 0

\* What a value of a shape looks like.
looks_like(shape, t) ==
  /\ ~is_null_token(t)
  /\ CASE shape = "date"       -> IsoAt(t) # {} \/ parse_date(t, 1) # Null
       [] shape = "number"     -> numbers(t) # {}
       [] shape = "multiplier" -> before(t, {"x"}) # {} /\ Len(t) = 2
       [] shape = "percent"    -> before(t, {"%"}) # {}
       [] shape = "currency"   -> /\ \E i \in DOMAIN t : t[i].w \in {"Rs", "cr", "crore", "crores"}
                                  /\ numbers(t) # {}
       [] shape = "name"       -> /\ Length(t) >= 3 /\ numbers(t) = {}
                                  /\ \E i \in DOMAIN t : IsAlpha(t[i])
       [] OTHER                -> FALSE

Has(row, col)  == \E i \in DOMAIN row : row[i].col = col
Cell(row, col) == row[CHOOSE i \in DOMAIN row : row[i].col = col].cell

\* At least two values, three in five of them of the shape.
score_values(field, col, rows) ==
  LET samples == {n \in DOMAIN rows : /\ n <= 25 /\ Has(rows[n], col)
                                      /\ ~is_null_token(Cell(rows[n], col).text)}
      hits    == {n \in samples : looks_like(field.shape, Cell(rows[n], col).text)}
      found   == Cardinality(samples)
  IN  IF found < 2 \/ 10 * Cardinality(hits) < 6 * found THEN 0
      ELSE (SCORE_VALUE_SHAPE * Cardinality(hits)) \div found

----------------------------------------------------------------------------
(* The assignment.                                                         *)

\* The pair of column n and field f, at its position by column and then by field.
Pair(columns, rows, n, f) ==
  LET field == CANONICAL_FIELDS[f]
      label == score_label(field, columns[n])
  IN  [field |-> field.name, col |-> columns[n], pos |-> n * Len(CANONICAL_FIELDS) + f,
       by_label |-> label > 0,
       score |-> IF label > 0 THEN label ELSE score_values(field, columns[n], rows)]

\* Every (column, field) that scores.
candidates(columns, rows) ==
  {c \in {Pair(columns, rows, n, f) : n \in DOMAIN columns, f \in DOMAIN CANONICAL_FIELDS} :
     c.score > 0}

\* The sort is stable.
Better(c, d) == c.score > d.score \/ (c.score = d.score /\ c.pos < d.pos)

\* Mutant: a column may serve two fields.
free_to_share(pairs, taken) == {c \in pairs : \A m \in taken : m.field # c.field}

\* A field and a column are each used once.
free(pairs, taken) == {c \in pairs : \A m \in taken : m.field # c.field /\ m.col # c.col}

\* Best score first: each round takes the best of the pairs that are free, and
\* with it a field, so there is no more to take after as many rounds as fields.
Greedy(pairs) ==
  LET take[n \in 0 .. Len(CANONICAL_FIELDS)] ==
        IF n = 0 THEN {}
        ELSE LET so_far == take[n - 1]
                 open   == free(pairs, so_far)
             IN  so_far \cup {c \in open : \A d \in open : ~Better(d, c)}
  IN  take[Len(CANONICAL_FIELDS)]

\* The matches: a set of [field, col, pos, by_label, score].
map_columns(columns, rows) == Greedy(candidates(columns, rows))

Mapped(matches)         == {m.field : m \in matches}
required_coverage(ms)   == (100 * Cardinality(REQUIRED_FIELDS \cap Mapped(ms)))
                             \div Cardinality(REQUIRED_FIELDS)
has_identity(ms)        == IDENTITY_FIELDS \cap Mapped(ms) # {}
=============================================================================
