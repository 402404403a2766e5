--------------------------- MODULE FaceSuppression ---------------------------
(***************************************************************************)
(* The detector reports one face many times over.  _nms                    *)
(* (biometrics/detect_worker.py) takes the most certain box, drops the     *)
(* boxes that overlap it, and goes on with the rest, until enough faces    *)
(* are found.                                                              *)
(***************************************************************************)
EXTENDS Boxes, Sequences, FiniteSets

CONSTANTS Crowds,         \* sequences of boxes [left, width, score]
          NmsNum, NmsDen, \* nms_threshold as a fraction
          MaxFaces,       \* maximum
          MaxCandidates   \* boxes looked at

ASSUME SuppressionConstants ==
  /\ Crowds \subseteq Seq([left : Nat, width : Nat \ {0}, score : Nat])
  /\ NmsNum \in Nat \ {0} /\ NmsDen \in Nat /\ NmsNum <= NmsDen
  /\ MaxFaces \in Nat \ {0} /\ MaxCandidates \in Nat \ {0}

VARIABLES crowd,          \* the boxes decoded
          waiting,        \* remaining: a set of boxes, by their numbers
          picked          \* selected

suppressVars == <<crowd, waiting, picked>>

-----------------------------------------------------------------------------
\* Sorting is stable, in reverse too.
MoreCertain(i, j) ==
  \/ crowd[i].score > crowd[j].score
  \/ crowd[i].score = crowd[j].score /\ i < j

Rank(i) == Cardinality({j \in DOMAIN crowd : MoreCertain(j, i)})

\* Variant: the boxes beyond the limit are cut off before sorting.
RankedFirstComers == {i \in DOMAIN crowd : i <= MaxCandidates}

Ranked == {i \in DOMAIN crowd : Rank(i) < MaxCandidates}

Same(i, j) == AtLeast(Overlap(crowd[i], crowd[j]), NmsNum, NmsDen)

SuppressInit ==
  /\ crowd \in Crowds
  /\ waiting = Ranked
  /\ picked = <<>>

PickFace ==
  /\ Len(picked) < MaxFaces
  /\ \E i \in waiting :
       /\ \A j \in waiting \ {i} : MoreCertain(i, j)
       /\ picked' = Append(picked, i)
       /\ waiting' = {j \in waiting \ {i} : ~Same(i, j)}
  /\ UNCHANGED crowd

SuppressNext == PickFace

SuppressSpec == SuppressInit /\ [][SuppressNext]_suppressVars

-----------------------------------------------------------------------------
\* Properties.

Suppressed == waiting = {} \/ Len(picked) = MaxFaces

\* A face is reported once, and no face is lost to a worse one: the boxes
\* selected do not overlap each other, and every other box overlaps a selected
\* one that is at least as certain, or came too late for one of the two limits.
OneBoxForEachFace ==
  Suppressed =>
    LET kept == {picked[n] : n \in DOMAIN picked}
    IN  /\ Cardinality(kept) = Len(picked)
        /\ \A i, j \in kept : i # j => ~Same(i, j)
        /\ \A i \in DOMAIN crowd \ kept :
             \/ \E j \in kept : Same(j, i) /\ MoreCertain(j, i)
             \/ Rank(i) >= MaxCandidates
             \/ Len(picked) = MaxFaces /\ \A j \in kept : MoreCertain(j, i)
=============================================================================
