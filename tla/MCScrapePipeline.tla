-------------------------- MODULE MCScrapePipeline --------------------------
(***************************************************************************)
(* Small instances of ScrapePipeline: the scheduled scrapes and the retry, *)
(* and a response for each way through the pipeline.                       *)
(***************************************************************************)
EXTENDS ScrapePipeline

CONSTANTS scheduled, startup, retry, a, b, SME

Issue(type, open, close, gmp) ==
  [ipo_type |-> type, open_date |-> open, close_date |-> close, gmp |-> gmp]
Response(confidence, mapping, records) ==
  [source |-> "none", confidence |-> confidence, mapping |-> mapping, records |-> records]
Record(id, row) == [id |-> id, row |-> row]

Full    == [name |-> "c1", gmp |-> "c2"]
Reduced == [name |-> "c1", gmp |-> Null]
None    == [name |-> Null, gmp |-> Null]

\* The whole feed; one that lost the column of the premium and blanks a date;
\* one whose dates contradict what a blank leaves in the row; one hardly
\* recognised; one with a broken record before a good one of the same id, too
\* poor to be trusted; an empty page.
FullFeed   == Response(100, Full, <<Record(a, Issue(SME, 2, 4, 7))>>)
LostColumn == Response(60, Reduced, <<Record(a, Issue(UNKNOWN, 3, Null, Null)),
                                      Record(b, Issue(SME, 2, 3, Null))>>)
Revised    == Response(100, Full, <<Record(a, Issue(SME, Null, 2, 8))>>)
Weak       == Response(10, Reduced, <<Record(a, Issue(SME, 2, 4, 9))>>)
Broken     == Response(55, Reduced, <<Record(b, Issue(SME, 4, 2, Null)),
                                      Record(b, Issue(SME, 2, 4, Null)),
                                      Record(a, Issue(SME, 2, 5, Null))>>)
Empty      == Response(0, None, <<>>)

AllResponses == {FullFeed, LostColumn, Revised, Weak, Broken, Empty}
=============================================================================
