------------------------------ MODULE CellText ------------------------------
(***************************************************************************)
(* The tolerant parsers of app/utils/parsing.py.  A text is a sequence of  *)
(* lexemes: a run of digits (with its decimals), a word in lower case or a *)
(* symbol; spaces and markup leave no trace.  A parser never raises: what  *)
(* it cannot read is Null.                                                 *)
(***************************************************************************)
EXTENDS Integers, Sequences, FiniteSets

CONSTANT Null
ASSUME NullAssumption == Null \notin Int  \* no number

Lexemes == [n : Nat, w : STRING]
Texts   == Seq(Lexemes)

Num(n)  == [n |-> n, w |-> ""]
Word(w) == [n |-> 0, w |-> w]

Symbols == {"-", "--", "---", "/", ",", "(", ")", "%", "?", "Rs", "down", "up", "fire",
            "check", "cross", "n/a"}
Letters == {"a", "c", "e", "l", "o", "p", "u", "x", "k", "y", "n"}  \* words of one letter
Pairs   == {"cr", "lp", "ln", "to", "na", "no"}                     \* of two

IsNum(l)    == l.w = ""
IsAlpha(l)  == ~IsNum(l) /\ l.w \notin Symbols
At(t, i, W) == i \in DOMAIN t /\ t[i].w \in W

\* What may stand between the parts of a date, and before a number.
Dash  == {"-"}
Slash == {"-", "/"}
Comma == {"-", "/", ","}

First(S)    == CHOOSE i \in S : \A j \in S : i <= j

\* What s has at the places of S, in order.
Place(S, k) == CHOOSE i \in S : Cardinality({j \in S : j < i}) = k - 1
Keep(s, S)  == [k \in 1 .. Cardinality(S) |-> s[Place(S, k)]]

\* The length of a text, as far as its readers care: 0, 1, 2, or more.
Length(t) == IF t = <<>> THEN 0
             ELSE IF Len(t) = 1 /\ t[1].w \in Letters \cup Symbols THEN 1
             ELSE IF Len(t) = 1 /\ t[1].w \in Pairs THEN 2 ELSE 3

is_null_token(t) ==
  \/ t = <<>>
  \/ Len(t) = 1 /\ t[1].w \in {"-", "--", "---", "n/a", "na", "nil", "none", "tba", "?"}

----------------------------------------------------------------------------
(* Numbers.                                                                *)

numbers(t)     == {i \in DOMAIN t : IsNum(t[i])}
signed(t, i)   == IF At(t, i - 1, Dash) THEN -t[i].n ELSE t[i].n
before(t, W)   == {i \in numbers(t) : At(t, i + 1, W)}

parse_decimal(t) ==
  IF is_null_token(t) \/ numbers(t) = {} THEN Null ELSE signed(t, First(numbers(t)))

\* The first number with the unit, or failing that the first number.
WithUnit(t, W) ==
  IF before(t, W) = {} THEN parse_decimal(t) ELSE signed(t, First(before(t, W)))

parse_percentage(t) == WithUnit(t, {"%"})
parse_multiplier(t) == WithUnit(t, {"x"})

\* Amounts are counted in lakh, a hundredth of a crore; a bare number is in crore.
Magnitude == [cr |-> 100, crore |-> 100, crores |-> 100,
              lakh |-> 1, lakhs |-> 1, lac |-> 1, lacs |-> 1]
parse_amount_in_crore(t) ==
  LET units == before(t, DOMAIN Magnitude)
      small == before(t, {"k", "thousand"})
  IN  IF units # {} THEN signed(t, First(units)) * Magnitude[t[First(units) + 1].w]
      ELSE IF small # {} THEN signed(t, First(small)) \div 100
      ELSE IF parse_decimal(t) = Null THEN Null ELSE 100 * parse_decimal(t)

Through   == {"-", "--", "to", "/"}
Ranges(t) == {i \in before(t, Through) : i + 2 \in numbers(t)}

\* <<low, high>>: the range is matched as a whole, so its hyphen is no sign.
parse_price_band(t) ==
  IF Ranges(t) = {} THEN <<parse_decimal(t), parse_decimal(t)>>
  ELSE LET a == t[First(Ranges(t))].n
           b == t[First(Ranges(t)) + 2].n
       IN  IF a <= b THEN <<a, b>> ELSE <<b, a>>

----------------------------------------------------------------------------
(* Dates, as day numbers of the Gregorian calendar.                        *)

_MONTHS == [jan |-> 1, january |-> 1, feb |-> 2, february |-> 2, mar |-> 3, march |-> 3,
            apr |-> 4, april |-> 4, may |-> 5, jun |-> 6, june |-> 6, jul |-> 7, july |-> 7,
            aug |-> 8, august |-> 8, sep |-> 9, sept |-> 9, september |-> 9, oct |-> 10,
            october |-> 10, nov |-> 11, november |-> 11, dec |-> 12, december |-> 12]
MONTH_NAMES == DOMAIN _MONTHS

Leap(y) == (y % 4 = 0 /\ y % 100 # 0) \/ y % 400 = 0
MonthLength(y, m) == CASE m = 2 -> (IF Leap(y) THEN 29 ELSE 28)
                       [] m \in {4, 6, 9, 11} -> 30
                       [] OTHER -> 31
Ordinal(y, m, d) ==
  365 * (y - 1) + (y - 1) \div 4 - (y - 1) \div 100 + (y - 1) \div 400
    + (367 * m - 362) \div 12 + d
    + (IF m <= 2 THEN 0 ELSE IF Leap(y) THEN -1 ELSE -2)

_safe_date(y, m, d) ==
  IF y >= 1 /\ m \in 1 .. 12 /\ d >= 1 /\ d <= MonthLength(y, m) THEN Ordinal(y, m, d) ELSE Null

_expand_year(y) == IF y < 100 THEN 2000 + y ELSE y

Distance(a, b) == IF a < b THEN b - a ELSE a - b
YearOf(day) == CHOOSE y \in (day \div 366) .. (day \div 365 + 1) :
                 Ordinal(y, 1, 1) <= day /\ day < Ordinal(y + 1, 1, 1)

\* Mutant: the year is that of the reference.
this_year(m, d, reference) == _safe_date(YearOf(reference), m, d)

\* The year that puts the day nearest to the reference, the earlier of two.
_infer_year(m, d, reference) ==
  LET years == {y \in YearOf(reference) - 1 .. YearOf(reference) + 1 : _safe_date(y, m, d) # Null}
      far(y) == Distance(Ordinal(y, m, d), reference)
  IN  IF years = {} THEN Null
      ELSE Ordinal(CHOOSE y \in years : \A z \in years : far(y) < far(z) \/ (far(y) = far(z) /\ y <= z),
                   m, d)

\* Where the forms of a date begin; a separator may be a space, which leaves no trace.
Small(t, i)    == i \in numbers(t) /\ t[i].n < 100
Skip(t, i, W)  == IF At(t, i, W) THEN i + 1 ELSE i
IsoAt(t)       == {i \in before(t, Dash) : t[i].n >= 1000 /\ t[i].n <= 9999 /\ Small(t, i + 2)
                                             /\ At(t, i + 3, Dash) /\ Small(t, i + 4)}
LongWord(t, i) == i \in DOMAIN t /\ IsAlpha(t[i]) /\ t[i].w \notin Letters \cup Pairs
DayFirst(t)    == {i \in DOMAIN t : Small(t, i) /\ LongWord(t, Skip(t, i + 1, Slash))}
MonthFirst(t)  == {i \in DOMAIN t : LongWord(t, i) /\ Small(t, i + 1)}
NumericAt(t)   == {i \in before(t, Slash) : Small(t, i) /\ Small(t, i + 2)
                                                 /\ At(t, i + 3, Slash) /\ i + 4 \in numbers(t)}

\* A month, a day and, if a number follows at position i, its year.
Named(t, word, day, i, reference) ==
  LET m == _MONTHS[word.w]
      y == Skip(t, i, Comma)
  IN  IF y \in numbers(t) /\ t[y].n <= 9999 THEN _safe_date(_expand_year(t[y].n), m, day.n)
      ELSE _infer_year(m, day.n, reference)

parse_date(t, reference) ==
  LET iso == First(IsoAt(t))
      df  == First(DayFirst(t))
      dfw == Skip(t, df + 1, Slash)
      mf  == First(MonthFirst(t))
      num == First(NumericAt(t))
  IN  CASE is_null_token(t) -> Null
        [] ~is_null_token(t) /\ IsoAt(t) # {} -> _safe_date(t[iso].n, t[iso + 2].n, t[iso + 4].n)
        [] OTHER ->
             IF DayFirst(t) # {} /\ t[dfw].w \in MONTH_NAMES
             THEN Named(t, t[dfw], t[df], dfw + 1, reference)
             ELSE IF MonthFirst(t) # {} /\ t[mf].w \in MONTH_NAMES
             THEN Named(t, t[mf], t[mf + 1], mf + 2, reference)
             ELSE IF NumericAt(t) = {} THEN Null
             ELSE _safe_date(_expand_year(t[num + 4].n), t[num + 2].n, t[num].n)
=============================================================================
