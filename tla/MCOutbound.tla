----------------------------- MODULE MCOutbound -----------------------------
(***************************************************************************)
(* Two retries for each URL; a user with two phones and a browser, or none.*)
(***************************************************************************)
EXTENDS Outbound

CONSTANTS phone, tablet, browser

Device(token, platform) == [token |-> token, platform |-> platform]

MCFleets ==
  {<<>>, <<Device(phone, "ANDROID"), Device(browser, "WEB"), Device(tablet, "IOS")>>}

MCProviders == {"log", "fcm", "webpush"}
MCChannels == {"PUSH", "WEBPUSH", "LOG"}
MCStatuses == {200, 404, 503}
MCConfidences == {0, 59, 60}
MCDates == {[year |-> 2026, month |-> 3], [year |-> 2026, month |-> 4], [year |-> 2099, month |-> 12]}
=============================================================================
