----------------------------- MODULE Extractor -----------------------------
(***************************************************************************)
(* From a payload to records of canonical fields: app/services/scraper/    *)
(* extractor.py.  A payload is what the code can tell of a response:       *)
(*                                                                         *)
(*   is_json, braces, markup   its content type, its first character, and  *)
(*                             whether it has a "<"                        *)
(*   lists   the lists met in the JSON document, in order (Null if it is   *)
(*           not JSON): [depth, items], an item being a row or Null        *)
(*   tables, grids, cards      the same of the HTML document: tables and   *)
(*           ARIA grids as rows of [th, cell], cards as rows of dt and dd  *)
(***************************************************************************)
EXTENDS FieldMap

LOCAL INSTANCE TLC

Items    == {Null} \cup Seq([col : Labels, cell : Cells, wrap : STRING])
Tables   == Seq(Seq([th : BOOLEAN, cell : Cells]))
Payloads == [is_json : BOOLEAN, braces : BOOLEAN, markup : BOOLEAN,
             lists : {Null} \cup Seq([depth : Nat, items : Seq(Items)]),
             tables : Seq(Tables), grids : Seq(Tables),
             cards : Seq(Seq([col : Labels, cell : Cells]))]

MIN_STRATEGY_CONFIDENCE == 35
MIN_DATASET_COLUMNS     == 2
MIN_PLAUSIBLE_ROWS      == 1

Longest(seqs) == LET n == CHOOSE n \in DOMAIN seqs : \A m \in DOMAIN seqs :
                            Len(seqs[n]) > Len(seqs[m]) \/ (Len(seqs[n]) = Len(seqs[m]) /\ n <= m)
                 IN  IF seqs = <<>> THEN <<>> ELSE seqs[n]
Widest(seqs)  == Len(Longest(seqs))

\* The labels of the rows in the order they are first met.
_ordered_columns(rows) ==
  LET seen[n \in 0 .. Len(rows)] ==
        IF n = 0 THEN <<>>
        ELSE LET so_far == seen[n - 1]
                 labels == [i \in DOMAIN rows[n] |-> rows[n][i].col]
                 new    == {i \in DOMAIN labels : \A k \in DOMAIN so_far : so_far[k] # labels[i]}
             IN  so_far \o Keep(labels, new)
  IN  seen[Len(rows)]

\* A dict keeps the last value of a key, at the place of the first.
AsDict(pairs) ==
  LET same(i) == {j \in DOMAIN pairs : pairs[j].col = pairs[i].col}
      last    == [i \in DOMAIN pairs |-> pairs[CHOOSE j \in same(i) : \A k \in same(i) : k <= j]]
  IN  Keep(last, {i \in DOMAIN pairs : \A j \in same(i) : i <= j})

----------------------------------------------------------------------------
(* Records.                                                                *)

_score_mapping(matches, count) ==
  LET score == (70 * required_coverage(matches)) \div 100 + (IF has_identity(matches) THEN 30 ELSE 0)
  IN  IF count < MIN_PLAUSIBLE_ROWS THEN 0 ELSE IF count < 3 THEN (8 * score) \div 10 ELSE score

\* The cells of no field, by what their label reads; the last of one label stays.
Unmapped(row, taken) ==
  LET kept == {i \in DOMAIN row : row[i].col \notin taken /\ ~is_null_token(row[i].cell.text)}
      word(i) == normalize_label(row[i].col)
  IN  [w \in {word(i) : i \in kept} |->
        LET at == {i \in kept : word(i) = w}
        IN  row[CHOOSE i \in at : \A j \in at : j <= i].cell]

\* The fields of a record, and the rest.
Project(row, matches) ==
  LET fields == {m \in matches : Has(row, m.col)}
  IN  [fields |-> [f \in {m.field : m \in fields} |->
                     Cell(row, (CHOOSE m \in fields : m.field = f).col)],
       unmapped |-> Unmapped(row, {m.col : m \in matches})]

Nothing(strategy) == [strategy |-> strategy, records |-> <<>>, matches |-> {}, columns |-> <<>>,
                      rows |-> <<>>, confidence |-> 0]

_build_result(strategy, rows, columns) ==
  LET matches == map_columns(columns, rows)
  IN  [strategy |-> strategy, matches |-> matches, columns |-> columns, rows |-> rows,
       records |-> [n \in DOMAIN rows |-> Project(rows[n], matches)],
       confidence |-> _score_mapping(matches, Len(rows))]

----------------------------------------------------------------------------
(* The JSON feed.                                                          *)

Keys(row) == {row[i].col : i \in DOMAIN row}

_is_row_list(items) ==
  LET dicts  == Keep(items, {n \in DOMAIN items : items[n] # Null})
      sample == IF Len(dicts) < 10 THEN Len(dicts) ELSE 10
      first  == Keys(dicts[1])
      shared == {n \in 1 .. sample : 10 * Cardinality(first \cap Keys(dicts[n])) >= 6 * Cardinality(first)}
  IN  /\ dicts # <<>>
      /\ 10 * Len(dicts) >= 8 * Len(items)
      /\ Cardinality(first) >= 3
      /\ 10 * Cardinality(shared) >= 8 * sample

\* The largest list of rows, the first of those met.
_locate_row_list(lists) ==
  LET found == Keep(lists, {n \in DOMAIN lists : lists[n].depth <= 6 /\ _is_row_list(lists[n].items)})
  IN  Longest([n \in DOMAIN found |-> found[n].items])

\* A cell in an envelope comes out of it; one in an unknown envelope is opaque.
_flatten_row(row) ==
  [i \in DOMAIN row |->
     [col |-> row[i].col,
      cell |-> IF row[i].wrap \in {"bare", "value", "val", "text", "display", "html"} THEN row[i].cell
               ELSE [row[i].cell EXCEPT !.text = <<Word("object")>>]]]

JsonRows(payload) == IF payload.lists = Null THEN <<>> ELSE _locate_row_list(payload.lists)

\* An item that is no object has no items() to flatten.
JsonRaises(payload) == \E n \in DOMAIN JsonRows(payload) : JsonRows(payload)[n] = Null

ExtractJson(payload) ==
  LET items == JsonRows(payload)
      rows  == [n \in DOMAIN items |-> _flatten_row(items[n])]
  IN  IF items = <<>> THEN Nothing("JSON_API")
      ELSE _build_result("JSON_API", rows, _ordered_columns(rows))

----------------------------------------------------------------------------
(* The HTML page.                                                          *)

Label(cell)    ==
  LET t     == cell.text
      alpha == {i \in DOMAIN t : IsAlpha(t[i])}
      marks == DOMAIN t \ alpha
      words == Keep(t, alpha)
  IN  [mark |-> IF marks = {} THEN "" ELSE t[First(marks)].w, words |-> [i \in DOMAIN words |-> words[i].w]]
PadLabel(i)    == [mark |-> "", words |-> <<"column", ToString(i - 1)>>]

_looks_like_header(cells) ==
  LET filled == {c \in DOMAIN cells : cells[c].cell.text # <<>>}
      wordy  == {c \in filled : \E i \in DOMAIN cells[c].cell.text : IsAlpha(cells[c].cell.text[i])}
  IN  Cardinality(filled) >= 2 /\ 10 * Cardinality(wordy) >= 7 * Cardinality(filled)

\* One label for each position: an empty header, or none, has a made-up one.
_pad_headers(headers, width) ==
  LET wide == IF Len(headers) < width THEN width ELSE Len(headers)
  IN  [i \in 1 .. wide |-> IF i > Len(headers) \/ headers[i].cell.text = <<>> THEN PadLabel(i)
                           ELSE Label(headers[i].cell)]

NoDataset == [rows |-> <<>>, columns |-> <<>>]

RowOf(cells, columns) == AsDict([i \in DOMAIN cells |-> [col |-> columns[i], cell |-> cells[i].cell]])

\* The header is the first row of th cells, or a first row that reads like one.
_read_table(table) ==
  LET heads   == {i \in DOMAIN table : /\ table[i] # <<>>
                                       /\ \/ \A c \in DOMAIN table[i] : table[i][c].th
                                          \/ i = 1 /\ _looks_like_header(table[i])}
      headers == IF heads = {} THEN <<>> ELSE table[First(heads)]
      body    == {i \in DOMAIN table : table[i] # <<>> /\ (heads = {} \/ i # First(heads))}
      width   == Widest(Keep(table, body))
      columns == _pad_headers(headers, width)
      kept    == Keep(table, {i \in body : Len(table[i]) > 1})
  IN  IF width < MIN_DATASET_COLUMNS THEN NoDataset
      ELSE [rows |-> [n \in DOMAIN kept |-> RowOf(kept[n], columns)], columns |-> columns]

\* Of a grid the first row with column headers heads it; the rest are cells.
_read_aria_grid(grid) ==
  LET heads   == {i \in DOMAIN grid : \E c \in DOMAIN grid[i] : grid[i][c].th}
      part(i, th) == Keep(grid[i], {c \in DOMAIN grid[i] : grid[i][c].th = th})
      headers == IF heads = {} THEN <<>> ELSE part(First(heads), TRUE)
      cells   == [i \in DOMAIN grid |-> part(i, FALSE)]
      body    == Keep(cells, {i \in DOMAIN grid : cells[i] # <<>> /\ (heads = {} \/ i # First(heads))})
      width   == Widest(body)
      columns == _pad_headers(headers, width)
  IN  IF width < MIN_DATASET_COLUMNS THEN NoDataset
      ELSE [rows |-> [n \in DOMAIN body |-> RowOf(body[n], columns)], columns |-> columns]

\* Cards of at least four pairs, at least two of them.
_read_label_value_blocks(cards) ==
  LET dicts == [n \in DOMAIN cards |-> AsDict(cards[n])]
      rows  == Keep(dicts, {n \in DOMAIN cards : Len(dicts[n]) >= 4})
  IN  IF Len(rows) < 2 THEN NoDataset
      ELSE [rows |-> rows, columns |-> _ordered_columns(rows)]

_candidate_datasets(payload) ==
  LET data == [n \in DOMAIN payload.tables |-> _read_table(payload.tables[n])]
                \o [n \in DOMAIN payload.grids |-> _read_aria_grid(payload.grids[n])]
                \o <<_read_label_value_blocks(payload.cards)>>
  IN  Keep(data, {n \in DOMAIN data : data[n].rows # <<>>})

\* The most confident, the first of equals.
Best(results) ==
  results[CHOOSE n \in DOMAIN results : \A m \in DOMAIN results :
            results[n].confidence > results[m].confidence
              \/ (results[n].confidence = results[m].confidence /\ n <= m)]

ExtractHtml(payload) ==
  LET data == _candidate_datasets(payload)
  IN  IF data = <<>> THEN Nothing("HTML_TABLE")
      ELSE Best([n \in DOMAIN data |-> _build_result("HTML_TABLE", data[n].rows, data[n].columns)])

----------------------------------------------------------------------------
(* The chain.                                                              *)

JsonHandles(payload) == payload.is_json \/ payload.braces
HtmlHandles(payload) == payload.markup /\ ~payload.is_json
Usable(result)       == result.records # <<>> /\ result.confidence >= MIN_STRATEGY_CONFIDENCE

\* Nothing cleared the bar: the most confident attempt, then the longest.
Closest(attempts) ==
  IF attempts = <<>> THEN Nothing("NONE")
  ELSE attempts[CHOOSE n \in DOMAIN attempts : \A m \in DOMAIN attempts :
         LET a == attempts[n]
             b == attempts[m]
         IN  \/ a.confidence > b.confidence
             \/ /\ a.confidence = b.confidence
                /\ Len(a.records) > Len(b.records) \/ (Len(a.records) = Len(b.records) /\ n <= m)]
=============================================================================
