---------------------------- MODULE MCSfmsAdvisory ----------------------------
(* Three runs for the same date: one of the evening, uploaded by its local *)
(* date and looked for by the next one, the date in UTC; and two runs of   *)
(* that next day, which share their key in the object store.  They are     *)
(* processed by as many replicas as are deployed: one, or all of them.     *)
EXTENDS SfmsAdvisory, FiniteSets

CONSTANTS evening, nextDay, MaxSharedUploads

UploadedUnder == [r \in 1 .. NRuns |-> IF r = 1 THEN evening ELSE nextDay]
LookedForUnder == [r \in 1 .. NRuns |-> nextDay]

VARIABLE deployed

Alone == Cardinality(deployed) = 1

MCInit ==
  /\ Init
  /\ deployed \in {{CHOOSE c \in Consumers : TRUE}, Consumers}

MCNext ==
  /\ Next
  /\ \A c \in Consumers \ deployed : pc[c] = pc'[c]
  /\ Alone \/ uploads' <= MaxSharedUploads
  /\ UNCHANGED deployed

MCSpec ==
  /\ MCInit /\ [][MCNext]_<<vars, deployed>>
  /\ \A r \in Runs : WF_vars(publish(r) /\ UNCHANGED deployed)
  /\ \A c \in Consumers : WF_vars(c \in deployed /\ ConsumerStep(c) /\ UNCHANGED deployed)

\* A consumer that nobody works beside writes the rows of a run once, and the
\* elevation too comes from the run's own raster or a newer one.
AloneRowsAreOwnAndOnce ==
  Alone => /\ RowsAreWrittenOnce
           /\ \A r \in Runs : FindsItsRaster(Tpi, r) => ComesOfItsRaster(Tpi, r)
=============================================================================
