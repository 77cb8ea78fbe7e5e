------------------------- MODULE NotificationRules -------------------------
(***************************************************************************)
(* The pure business rules of the notification engine: when a rule matches *)
(* an IPO, how an instant falls into an interval window, which hours may   *)
(* alert, and which devices a channel reaches.                             *)
(* Source: app/services/notifications/engine.py and app/utils/dates.py.    *)
(*                                                                         *)
(* Time is counted in ticks of one scheduler period since the Unix epoch.  *)
(* A business day is a day of APP_TIMEZONE: it starts ZoneShift ticks away *)
(* from the epoch's, so windows and business days need not line up.        *)
(***************************************************************************)
EXTENDS Integers

CONSTANTS
  Null,           \* SQL NULL
  DayLength,      \* ticks in a day
  ZoneShift,      \* offset of APP_TIMEZONE from UTC, in ticks
  WindowStart,    \* notification_window_start_hour, in ticks of the day
  WindowEnd       \* notification_window_end_hour, in ticks of the day

ASSUME TimeAssumption ==
  /\ DayLength \in Nat \ {0}
  /\ ZoneShift \in Nat
  /\ WindowStart \in Nat
  /\ WindowEnd \in Nat

DayOf(t)  == (t + ZoneShift) \div DayLength
HourOf(t) == (t + ZoneShift) % DayLength

within_notification_window(t) == WindowStart <= HourOf(t) /\ HourOf(t) < WindowEnd

\* The idempotency key of an instant: fixed windows counted from the epoch.
period_index(t, interval) == t \div interval

\* A filter left NULL or empty restricts nothing.
Allows(choices, value) == choices \in {Null, {}} \/ value \in choices

(***************************************************************************)
(* p: a rule's criteria; ipo: a row of ipos; today: a business day.        *)
(***************************************************************************)
rule_matches_ipo(p, ipo, today) ==
  /\ p.only_on_close_date => ipo.close_date = today
  /\ ipo.gmp_percentage # Null
  /\ p.min_gmp_percentage <= ipo.gmp_percentage
  /\ p.max_gmp_percentage # Null => ipo.gmp_percentage <= p.max_gmp_percentage
  /\ Allows(p.ipo_types, ipo.ipo_type)
  /\ Allows(p.exchanges, ipo.exchange)
  /\ p.min_subscription_times # Null =>
       /\ ipo.subscription_times # Null
       /\ p.min_subscription_times <= ipo.subscription_times

\* The platforms a channel reaches; LOG is a sink that accepts any of them.
DeviceTypes == {"ANDROID", "IOS", "WEB"}
Channels    == {"PUSH", "WEBPUSH", "LOG"}

Platforms(channel) ==
  CASE channel = "WEBPUSH" -> {"WEB"}
    [] channel = "PUSH"    -> {"ANDROID", "IOS"}
    [] OTHER               -> DeviceTypes
=============================================================================
