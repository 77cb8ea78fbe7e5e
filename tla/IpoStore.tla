------------------------------ MODULE IpoStore ------------------------------
(***************************************************************************)
(* What the scrapes promise about ipos and ipo_snapshots: each run counts  *)
(* once, and as a whole.  It is refused, and changes nothing; or its batch *)
(* is trusted, and every row of the batch is merged into the table as it   *)
(* is, blanks aside, with one snapshot of exactly what moved.  A run that  *)
(* began while another was still committing ("late") may have compared     *)
(* with rows that are not there any more: of each field it writes, it      *)
(* still writes what its batch says, but it may leave out fields and tell  *)
(* old values that the other run has replaced.                             *)
(* Source: app/repositories/ipo.py, app/services/scraper/pipeline.py.      *)
(***************************************************************************)
EXTENDS Sequences

CONSTANTS
  Null,
  Ids,       \* source identities
  Fields,    \* fields whose changes are kept
  Runs,      \* scrapes
  Batches    \* what a scrape may bring: a row or Null for each id

VARIABLES
  ipos,
  snapshots,
  outcome    \* what became of each run: Null, "refused", "in turn", "late"

store == <<ipos, snapshots, outcome>>

Init ==
  /\ ipos = [i \in Ids |-> Null]
  /\ snapshots = [i \in Ids |-> <<>>]
  /\ outcome = [r \in Runs |-> Null]

Becomes(r, what) == outcome[r] = Null /\ outcome' = [outcome EXCEPT ![r] = what]

Known(row) == {f \in Fields : row[f] # Null}

Moved(old, new) == {f \in Known(new) : new[f] # old[f]}

Take(old, new, taken) == [f \in Fields |-> IF f \in taken THEN new[f] ELSE old[f]]

Entry(r, old, new, taken) ==
  [run |-> r, changes |-> [f \in taken |-> [old |-> old[f], new |-> new[f]]]]

Refuse(r) == Becomes(r, "refused") /\ UNCHANGED <<ipos, snapshots>>

\* The row of id i is not in the batch; is new, and has no history yet; or is
\* there, and takes the fields that moved.
Left(i, batch) ==
  /\ batch[i] = Null
  /\ ipos'[i] = ipos[i] /\ snapshots'[i] = snapshots[i]

Added(i, batch) ==
  /\ batch[i] # Null /\ ipos[i] = Null
  /\ ipos'[i] = batch[i] /\ snapshots'[i] = snapshots[i]

Merged(r, i, batch) ==
  LET taken == Moved(ipos[i], batch[i])
  IN  /\ batch[i] # Null /\ ipos[i] # Null
      /\ ipos'[i] = Take(ipos[i], batch[i], taken)
      /\ snapshots'[i] = IF taken = {} THEN snapshots[i]
                         ELSE Append(snapshots[i], Entry(r, ipos[i], batch[i], taken))

AcceptInTurn(r, batch) ==
  /\ Becomes(r, "in turn")
  /\ \A i \in Ids : Left(i, batch) \/ Added(i, batch) \/ Merged(r, i, batch)

\* A late run compared the row with an older one: what it takes is what moved
\* since then, and its snapshot has the old values of then.
MergedLate(r, i, batch) ==
  /\ batch[i] # Null /\ ipos[i] # Null
  /\ \E taken \in SUBSET Known(batch[i]) :
       /\ ipos'[i] = Take(ipos[i], batch[i], taken)
       /\ IF taken = {} THEN snapshots'[i] = snapshots[i]
          ELSE \E n \in DOMAIN snapshots'[i] :
                 LET entry == snapshots'[i][n]
                 IN  /\ snapshots'[i] = Append(snapshots[i], entry)
                     /\ entry.run = r
                     /\ DOMAIN entry.changes = taken
                     /\ \A f \in taken : entry.changes[f].new = batch[i][f]

AcceptLate(r, batch) ==
  /\ Becomes(r, "late")
  /\ \A i \in Ids : Left(i, batch) \/ Added(i, batch) \/ MergedLate(r, i, batch)

Next ==
  \E r \in Runs :
    \/ Refuse(r)
    \/ \E batch \in Batches : AcceptInTurn(r, batch) \/ AcceptLate(r, batch)

Spec == Init /\ [][Next]_store
=============================================================================
