----------------------------- MODULE IpoRecords -----------------------------
(***************************************************************************)
(* The pure part of a scrape: which records of a batch are valid, how far  *)
(* the batch is to be trusted, and what a record changes in the row of its *)
(* IPO.  Source: app/services/scraper/validator.py, pipeline.py and        *)
(* app/repositories/ipo.py.                                                *)
(*                                                                         *)
(* A record is [id, row]; a row gives each tracked field a value or Null.  *)
(* The fields are the two dates that must be in order, which stand for     *)
(* every such pair, the type, which is UNKNOWN when the source leaves it   *)
(* blank, and the grey market premium, which stands for the others.        *)
(* Shares are in percent.                                                  *)
(***************************************************************************)
EXTENDS Integers, Sequences, FiniteSets

CONSTANTS
  Null,
  UNKNOWN         \* the type of an IPO whose source does not tell

TRACKED_FIELDS == {"ipo_type", "open_date", "close_date", "gmp"}

Ordered(row) ==
  row.open_date # Null /\ row.close_date # Null => row.open_date <= row.close_date

\* Of the records with one id the first counts, even if it is rejected.
valid(records) ==
  {n \in DOMAIN records : /\ Ordered(records[n].row)
                          /\ \A m \in 1 .. n - 1 : records[m].id # records[n].id}

validity_ratio(records) == (100 * Cardinality(valid(records))) \div Len(records)

\* A batch without a valid record scores zero, however well its columns were
\* recognised.
compute_confidence(confidence, records) ==
  IF valid(records) = {} THEN 0
  ELSE (6 * confidence + 4 * validity_ratio(records)) \div 10

\* The row a valid batch has for an id, or Null.
RowFor(records, id) ==
  IF \E n \in valid(records) : records[n].id = id
  THEN records[CHOOSE n \in valid(records) : records[n].id = id].row
  ELSE Null

\* Mutant: a blank clears the field.
diff_with_blanks(current, values) == {f \in TRACKED_FIELDS : values[f] # current[f]}

\* The fields that move.  A blank in the batch says nothing.
diff(current, values) ==
  {f \in TRACKED_FIELDS : values[f] # Null /\ values[f] # current[f]}

Overwrite(row, changes, values) ==
  [f \in TRACKED_FIELDS |-> IF f \in changes THEN values[f] ELSE row[f]]

\* Mutant: the old values are taken when the row has been overwritten.
changed_fields_late(current, values) ==
  [f \in diff(current, values) |-> [old |-> values[f], new |-> values[f]]]

\* What a snapshot keeps of the fields that moved.
changed_fields(current, values) ==
  [f \in diff(current, values) |-> [old |-> current[f], new |-> values[f]]]

(***************************************************************************)
(* A field mapping gives each canonical field its source column, or Null.  *)
(***************************************************************************)
StructureChanged(previous, mapping) ==
  \E f \in DOMAIN previous : previous[f] # Null /\ mapping[f] # previous[f]
=============================================================================
