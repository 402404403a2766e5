--------------------------- MODULE EvidenceLineage ---------------------------
(***************************************************************************)
(* What vault and recovery promise about the evidence of a case, without   *)
(* files, requests, failures or races: items are added one at a time and   *)
(* never changed or removed.  A disk image is uploaded; a scan is made of  *)
(* an image, a recording extracted from a scan, and a recording registered *)
(* as evidence in its own right, each from an item that is there, for the  *)
(* same image, and the last two of them once.  In a closed case nothing is *)
(* scanned or extracted any more.                                          *)
(***************************************************************************)
CONSTANTS Ids, Recordings, Hashes,
          NoId        \* an item made from no other; no recording

VARIABLES items,      \* identifier -> [kind, image, from, rec, sha]
          closed      \* the case is closed

lineageVars == <<items, closed>>

Init == items = [i \in {} |-> NoId] /\ closed = FALSE

Is(kind, i) == i \in DOMAIN items /\ items[i].kind = kind

MadeFrom(kind, from, rec) ==
  \E i \in DOMAIN items : Is(kind, i) /\ items[i].from = from /\ items[i].rec = rec

Add(i, item) ==
  /\ i \notin DOMAIN items
  /\ items' = [k \in DOMAIN items \cup {i} |-> IF k = i THEN item ELSE items[k]]
  /\ UNCHANGED closed

Upload(i, sha) ==
  Add(i, [kind |-> "image", image |-> i, from |-> NoId, rec |-> NoId, sha |-> sha])

\* A scan carries the hash of its image.
Scan(i, s) ==
  /\ Is("image", s) /\ ~closed
  /\ Add(i, [kind |-> "scan", image |-> s, from |-> s, rec |-> NoId, sha |-> items[s].sha])

Extract(i, s, r, sha) ==
  /\ Is("scan", s) /\ ~closed /\ ~MadeFrom("recording", s, r)
  /\ Add(i, [kind |-> "recording", image |-> items[s].image, from |-> s, rec |-> r, sha |-> sha])

\* Evidence made from a recording carries the recording's hash.
Register(i, a) ==
  /\ Is("recording", a) /\ ~MadeFrom("evidence", a, NoId)
  /\ Add(i, [kind |-> "evidence", image |-> items[a].image, from |-> a, rec |-> NoId,
             sha |-> items[a].sha])

Close == ~closed /\ closed' = TRUE /\ UNCHANGED items

Next ==
  \/ \E i \in Ids, sha \in Hashes : Upload(i, sha)
  \/ \E i \in Ids, k \in DOMAIN items :
       \/ Scan(i, k) \/ Register(i, k)
       \/ \E r \in Recordings, sha \in Hashes : Extract(i, k, r, sha)
  \/ Close

Spec == Init /\ [][Next]_lineageVars
=============================================================================
