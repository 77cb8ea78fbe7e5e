------------------------------- MODULE Fetch -------------------------------
(***************************************************************************)
(* _fetch_and_extract over ScraperHTTPClient.fetch: the report's feed, and *)
(* the page when the feed fails or is not understood.  Each GET ends in a  *)
(* status, in a transport error, or in an error httpx has that is neither. *)
(***************************************************************************)
EXTENDS Integers, Sequences

CONSTANTS
  MaxRetries,      \* scraper_max_retries
  Backoff,         \* scraper_retry_backoff_seconds
  MinConfidence,   \* scraper_min_confidence
  Statuses,        \* what the site may answer
  Confidences,     \* how well a body may be understood
  Dates            \* [year, month] the run may start in

ASSUME FetchAssumption ==
  /\ {MaxRetries, Backoff, MinConfidence} \subseteq Nat
  /\ Statuses \union Confidences \subseteq Nat
  /\ \A date \in Dates : date.year \in Nat /\ date.month \in 1..12

VARIABLES
  fetch,           \* [step, source, attempt, slept, url, feed, found, page, result]
  replies          \* history: source -> the outcomes of its GETs

fetchVars == <<fetch, replies>>

\* Any error may pass.
any_error == 400..599

RETRYABLE_STATUS == {408, 425, 429, 500, 502, 503, 504}

IsSuccess(status) == status \in 200..299

attempts == MaxRetries + 1

\* The calendar year.
by_calendar(date) == <<date.year, (date.year + 1) % 100>>

\* April to March, written as its first year and two digits of the second.
financial_year(date) ==
  IF date.month >= 4 THEN <<date.year, (date.year + 1) % 100>>
  ELSE <<date.year - 1, date.year % 100>>

FetchInit ==
  /\ \E date \in Dates :
       fetch = [step |-> "get", source |-> "feed", attempt |-> 1, slept |-> 0,
                url |-> [date |-> date, fy |-> financial_year(date)],
                feed |-> -1, found |-> FALSE, page |-> -1, result |-> "none"]
  /\ replies = [s \in {"feed", "page"} |-> <<>>]

Doubling(n) == Backoff * 2 ^ (n - 1)

\* The end of one URL: on to the page, or out of the run.
Fails ==
  IF fetch.source = "feed" THEN [fetch EXCEPT !.source = "page", !.attempt = 1, !.step = "get"]
  ELSE [fetch EXCEPT !.step = "done", !.result = "failed"]

Transient(reply) == reply = 0 \/ reply \in RETRYABLE_STATUS

\* 0 stands for a timeout or transport error.
Get(reply) ==
  /\ fetch.step = "get"
  /\ replies' = [replies EXCEPT ![fetch.source] = Append(@, reply)]
  /\ fetch' = IF IsSuccess(reply) THEN [fetch EXCEPT !.step = "extract"]
              ELSE IF Transient(reply) /\ fetch.attempt < attempts THEN [fetch EXCEPT !.step = "sleep"]
              ELSE Fails

Sleep ==
  /\ fetch.step = "sleep"
  /\ fetch' = [fetch EXCEPT !.step = "get", !.attempt = @ + 1, !.slept = @ + Doubling(fetch.attempt)]
  /\ UNCHANGED replies

\* TooManyRedirects, a feed with a null row: not a FetchError, so the page is
\* not tried; run() records the failure.
Escapes ==
  /\ fetch.step \in {"get", "extract"}
  /\ fetch' = [fetch EXCEPT !.step = "done", !.result = "unexpected"]
  /\ UNCHANGED replies

\* The last source tried.
page_over_feed(feed, page) == "page"

\* Whichever was understood better, the feed when they tie.
Better(feed, page) == IF feed >= page THEN "feed" ELSE "page"

\* What was understood of the body, nothing when it holds no record; whether
\* any was found is asked of the feed only.
Extract(confidence, found) ==
  /\ fetch.step = "extract" /\ (~found => confidence = 0)
  /\ fetch' = IF fetch.source = "page"
              THEN [fetch EXCEPT !.page = confidence, !.step = "done",
                      !.result = IF fetch.feed = -1 THEN "page" ELSE Better(fetch.feed, confidence)]
              ELSE IF found /\ confidence >= MinConfidence
              THEN [fetch EXCEPT !.feed = confidence, !.found = found, !.step = "done", !.result = "feed"]
              ELSE [fetch EXCEPT !.feed = confidence, !.found = found,
                      !.source = "page", !.attempt = 1, !.step = "get"]
  /\ UNCHANGED replies

FetchNext ==
  \/ \E reply \in Statuses \union {0} : Get(reply)
  \/ Sleep
  \/ Escapes
  \/ \E confidence \in Confidences, found \in BOOLEAN : Extract(confidence, found)

-----------------------------------------------------------------------------
\* A source is asked again only after a reply that may pass, and at most
\* MaxRetries times; a permanent error is final (ScraperHTTPClient.fetch).
OnlyTransientRetried ==
  \A s \in DOMAIN replies :
    /\ Len(replies[s]) <= MaxRetries + 1
    /\ \A i \in 1..Len(replies[s]) - 1 : replies[s][i] \in {0, 408, 425, 429} \union 500..599

\* A feed that is trusted is kept and the page not asked; otherwise the page is
\* taken exactly when it was understood better than the feed, or instead of
\* one that could not be read; "failed" means that the page was asked too
\* (_fetch_and_extract).  The exception is "unexpected": an error of the feed
\* that is no FetchError ends the run with the page not asked, although
\* docs/scraper.md:216-219 promises it for every feed that is unusable.
SourceChosen ==
  LET trusted == fetch.found /\ fetch.feed >= MinConfidence
  IN  fetch.step = "done" =>
        /\ trusted => fetch.result = "feed" /\ replies["page"] = <<>>
        /\ ~trusted /\ fetch.result = "feed" => fetch.page >= 0 /\ fetch.feed >= fetch.page
        /\ fetch.result = "page" => fetch.page >= 0 /\ fetch.feed < fetch.page
        /\ fetch.result = "failed" => replies["feed"] # <<>> /\ replies["page"] # <<>>

\* The report asked for is of the financial year, April to March, that the
\* run's month falls in (build_report_api_url).
ReportOfTheYear ==
  LET months(y, m) == 12 * y + m
      d == fetch.url.date
      first == fetch.url.fy[1]
  IN  /\ months(d.year, d.month) \in months(first, 4)..months(first + 1, 3)
      /\ fetch.url.fy[2] = (first + 1) % 100
=============================================================================
