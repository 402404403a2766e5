-------------------------- MODULE MCEvidenceVault --------------------------
\* Small instances of the evidence vault for TLC.
EXTENDS EvidenceVault, TLC

CONSTANTS u1, t1, t2, i1, i2, i3, i4, i5, r1

OneUser == {u1}
OneThread == {t1}
TwoThreads == {t1, t2}
FourIds == {i1, i2, i3, i4}
FiveIds == {i1, i2, i3, i4, i5}
OneRecording == {r1}

\* Which rows were reported tells nothing once an event was missed.
VaultView ==
  <<closed, entitled, tables, files, job, missed, alterations,
    IF "event" \in missed THEN {} ELSE reported>>

\* Identifiers and threads are only compared for equality.
Interchangeable == Permutations(Ids) \cup Permutations(Threads)
=============================================================================
