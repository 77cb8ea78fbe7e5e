----------------------------- MODULE IpoStatus -----------------------------
(***************************************************************************)
(* The lifecycle stage of an IPO on a business day, twice: the CASE of the *)
(* query, under SQL's NULL, and the Python that labels the rows.  And the  *)
(* date windows a filter may name.  Days are numbers, 0 a Monday.          *)
(***************************************************************************)
EXTENDS Integers, Sequences

CONSTANT None

\* A comparison with NULL is not true.
Le(a, b) == a # None /\ b # None /\ a <= b
Lt(a, b) == a # None /\ b # None /\ a < b

ipo_status_expression(row, today) ==
  LET listed  == Le(row.listing_date, today)
      closing == row.close_date # None /\ row.close_date = today
      closed  == Lt(row.close_date, today)
      open    == Le(row.open_date, today) /\ (row.close_date = None \/ Le(today, row.close_date))
      ahead   == Lt(today, row.open_date)
  IN  CASE listed -> "LISTED"
        [] ~listed /\ closing -> "CLOSING_TODAY"
        [] ~listed /\ closed -> "CLOSED"
        [] ~listed /\ ~closing /\ ~closed /\ open -> "OPEN"
        [] ~listed /\ ~closing /\ ~closed /\ ~open /\ ahead -> "UPCOMING"
        [] OTHER -> "UNKNOWN"

\* An IPO on its last day is still open.
closing_is_open(row, today) ==
  IF row.listing_date # None /\ row.listing_date <= today THEN "LISTED"
  ELSE IF row.close_date # None /\ row.close_date < today THEN "CLOSED"
  ELSE IF row.open_date # None /\ row.open_date <= today THEN "OPEN"
  ELSE IF row.close_date # None /\ row.close_date = today THEN "CLOSING_TODAY"
  ELSE IF row.open_date # None /\ row.open_date > today THEN "UPCOMING"
  ELSE "UNKNOWN"

derive_status(row, today) ==
  IF row.listing_date # None /\ row.listing_date <= today THEN "LISTED"
  ELSE IF row.close_date # None /\ row.close_date = today THEN "CLOSING_TODAY"
  ELSE IF row.close_date # None /\ row.close_date < today THEN "CLOSED"
  ELSE IF /\ row.open_date # None /\ row.open_date <= today
          /\ row.close_date = None \/ row.close_date >= today THEN "OPEN"
  ELSE IF row.open_date # None /\ row.open_date > today THEN "UPCOMING"
  ELSE "UNKNOWN"

Shortcuts == {"today", "tomorrow", "yesterday", "this_week", "next_week"}

weekday(day) == day % 7

resolve_date_shortcut(word, today) ==
  LET monday == today - weekday(today)
  IN  CASE word = "today" -> <<today, today>>
        [] word = "tomorrow" -> <<today + 1, today + 1>>
        [] word = "yesterday" -> <<today - 1, today - 1>>
        [] word = "this_week" -> <<monday, monday + 6>>
        [] word = "next_week" -> <<monday + 7, monday + 13>>

\* A filter's date is absent or [word, day]: a shortcut, or the day given.
_parse_date_field(date, today) ==
  CASE date = None -> None
    [] date # None /\ date.word \in Shortcuts -> resolve_date_shortcut(date.word, today)
    [] OTHER -> <<date.day, date.day>>
=============================================================================
