-------------------------- MODULE ReportExportProofs --------------------------
(***************************************************************************)
(* Proofs about signed exports beside the analysis handlers: one key signs *)
(* all packages, exports are whole or nothing, each ledger shows the       *)
(* approval, and the analysis keeps its own invariant, for any number of   *)
(* exporters, packages, keys and handlers.                                 *)
(***************************************************************************)
EXTENDS ReportExport, BiometricGateProofs, SequenceTheorems

-----------------------------------------------------------------------------
\* The inductive invariant.

ExportRows == [step : ExportSteps, id : PackageIds \cup {NoId}, body : Bodies]

Signed == {"signed", "trail", "authorizations", "detections", "read", "archiving", "archived"}

TrailRead == Signed \ {"signed"}

ExportShape ==
  /\ export \in [Exporters -> ExportRows \cup {Idle}]
  /\ keyFile \in Keys \cup {NoKey, "partial"}
  /\ workspaces \subseteq PackageIds
  /\ DOMAIN archives \subseteq workspaces
  /\ archives \in [DOMAIN archives -> {"partial", "whole"}]
  /\ DOMAIN packages \subseteq workspaces
  /\ packages \in [DOMAIN packages -> Bodies]

\* A key that signed anything is the one on file; one exporter at a time writes.
KeyOK ==
  /\ \A e \in Exporting : export[e].step \in Signed =>
       keyFile \in Keys /\ export[e].body.key = keyFile
  /\ \A e \in Exporting : export[e].step = "keying" => keyFile = "partial"
  /\ \A e, f \in Exporting :
       export[e].step = "keying" /\ export[f].step = "keying" => e = f
  /\ \A p \in DOMAIN packages : keyFile \in Keys /\ packages[p].key = keyFile
  /\ calm => (keyFile = "partial" => ~LockFree)

\* Workspace and archive belong to one export or to one package.
FilesOK ==
  /\ \A e \in Exporting : IF export[e].step = "begun"
                             THEN export[e].id = NoId
                             ELSE export[e].id \in workspaces \ DOMAIN packages
  /\ \A e, f \in Exporting :
       export[e].step # "begun" /\ export[f].step # "begun" /\ export[e].id = export[f].id
         => e = f
  /\ \A e \in Exporting : export[e].step \in {"archiving", "archived"} =>
       export[e].id \in DOMAIN archives
  /\ \A e \in Exporting : export[e].step = "archived" => archives[export[e].id] = "whole"
  /\ PackagesWhole
  /\ calm => workspaces \subseteq DOMAIN packages \cup Workplaces

ApprovedBy(n) == \E i \in 1 .. n : moves[i] = "approved"

\* What was verified is part of the trail and has the approval.
VerifiedOK(body) == body.verified <= Len(moves) /\ ApprovedBy(body.verified)

\* The ledger is the trail as it was when it was read.
LedgerCopied(body) ==
  /\ body.verified <= Len(body.trail) /\ Len(body.trail) <= Len(moves)
  /\ \A i \in 1 .. Len(body.trail) : body.trail[i] = moves[i]

ApprovalOK == status \in {"approved", "closed"} => ApprovedBy(Len(moves))

LedgersOK ==
  /\ \A e \in Exporting : ApprovedBy(Len(moves))
  /\ \A e \in Exporting : export[e].step # "begun" => VerifiedOK(export[e].body)
  /\ \A e \in Exporting : export[e].step \in TrailRead => LedgerCopied(export[e].body)
  /\ \A p \in DOMAIN packages : VerifiedOK(packages[p]) /\ LedgerCopied(packages[p])

ExportInv == GateInv /\ ExportShape /\ KeyOK /\ FilesOK /\ ApprovalOK /\ LedgersOK

-----------------------------------------------------------------------------
\* How one export moves.

\* The exporter goes on with a new record, and the others stay where they are.
LEMMA Advances ==
  ASSUME ExportShape, NEW e \in Exporters, NEW row \in ExportRows,
         export' = [export EXCEPT ![e] = row]
  PROVE  /\ export' \in [Exporters -> ExportRows \cup {Idle}]
         /\ Exporting' = Exporting \cup {e} /\ export'[e] = row
         /\ \A f \in Exporters : f # e => export'[f] = export[f]
<1>1. row # Idle
  BY IdleIsNoExport DEF ExportRows
<1> QED
  BY <1>1 DEF ExportShape, Exporting

\* An export that ends leaves the other exports alone.
LEMMA Ended ==
  ASSUME ExportShape, NEW e \in Exporters, export' = [export EXCEPT ![e] = Idle]
  PROVE  /\ export' \in [Exporters -> ExportRows \cup {Idle}]
         /\ Exporting' = Exporting \ {e}
         /\ \A f \in Exporters : f # e => export'[f] = export[f]
BY DEF ExportShape, Exporting

\* What the invariant says of one export.
LEMMA ExportingRows ==
  ASSUME ExportShape, NEW e \in Exporting
  PROVE  /\ e \in Exporters /\ export[e] \in ExportRows
         /\ export[e].step \in ExportSteps /\ export[e].id \in PackageIds \cup {NoId}
         /\ export[e].body \in Bodies
BY DEF ExportShape, Exporting, ExportRows

-----------------------------------------------------------------------------
\* Steps that change no file: reads and the like.

\* Going on with the same workspace, from and to a step that writes nothing.
LEMMA QuietAdvance ==
  ASSUME ExportInv, NEW e \in Exporting, NEW step \in Signed \ {"archived"}, NEW body \in Bodies,
         export[e].step \in Signed,
         step = "archiving" => export[e].id \in DOMAIN archives',
         Step(e, step, body),
         UNCHANGED <<gateVars, keyFile, workspaces, packages>>,
         body.key = export[e].body.key, body.verified = export[e].body.verified,
         step \in TrailRead => LedgerCopied(body),
         \A i \in DOMAIN archives : i \in DOMAIN archives' /\ (i # export[e].id => archives'[i] = archives[i]),
         DOMAIN archives' \subseteq workspaces,
         archives' \in [DOMAIN archives' -> {"partial", "whole"}]
  PROVE  (ExportShape /\ KeyOK /\ FilesOK /\ ApprovalOK /\ LedgersOK)'
<1> DEFINE row == [step |-> step, id |-> export[e].id, body |-> body]
<1>1. /\ e \in Exporters /\ export[e] \in ExportRows
      /\ export[e].id \in workspaces \ DOMAIN packages
  BY ExportingRows DEF ExportInv, FilesOK, Signed
<1>2. row \in ExportRows
  BY <1>1 DEF ExportRows, Signed, ExportSteps
<1>3. export' = [export EXCEPT ![e] = row]
  BY <1>1 DEF Step, ExportInv, ExportShape
<1>4. row.step = step /\ row.id = export[e].id /\ row.body = body
  OBVIOUS
<1> HIDE DEF row
<1>5. /\ export' \in [Exporters -> ExportRows \cup {Idle}]
      /\ Exporting' = Exporting /\ export'[e] = row
      /\ \A f \in Exporters : f # e => export'[f] = export[f]
  <2>1. /\ export' \in [Exporters -> ExportRows \cup {Idle}]
        /\ Exporting' = Exporting \cup {e} /\ export'[e] = row
        /\ \A f \in Exporters : f # e => export'[f] = export[f]
    BY <1>1, <1>2, <1>3, Advances DEF ExportInv
  <2>2. Exporting \cup {e} = Exporting
    OBVIOUS
  <2> QED
    BY <2>1, <2>2
<1>6. Exporting \subseteq Exporters
  BY DEF Exporting
<1>7. ExportShape'
  BY <1>5 DEF ExportInv, ExportShape
<1>8. UNCHANGED <<moves, calm>>
  BY DEF gateVars
<1>9. KeyOK'
  <2>1. LockFree' <=> LockFree
    BY <1>4, <1>5, <1>6 DEF LockFree, In, Signed
  <2> QED
    BY <1>4, <1>5, <1>6, <1>8, <2>1 DEF ExportInv, KeyOK, Signed
<1>10. FilesOK'
  <2>1. \A f \in Exporting : export'[f].id = export[f].id
    BY <1>4, <1>5, <1>6
  <2>2. Workplaces' = Workplaces
    BY <1>5, <2>1 DEF Workplaces
  <2>3. PackagesWhole'
    BY <1>1 DEF ExportInv, FilesOK, PackagesWhole
  <2> QED
    BY <1>4, <1>5, <1>6, <1>8, <2>1, <2>2, <2>3 DEF ExportInv, FilesOK, Signed
<1>11. ApprovalOK' /\ LedgersOK'
  BY <1>4, <1>5, <1>6, <1>8
  DEF ExportInv, ApprovalOK, LedgersOK, Signed, TrailRead, VerifiedOK, LedgerCopied, ApprovedBy, status
<1> QED
  BY <1>7, <1>9, <1>10, <1>11

\* Reading the tables and creating the archive touch nothing of another export.
LEMMA ReadsKeep ==
  ASSUME ExportInv, NEW e \in Exporters,
         \/ ReadTrail(e) \/ ReadAuthorizations(e) \/ ReadDetections(e) \/ ReadTracks(e)
         \/ CreateArchive(e)
  PROVE  (ExportShape /\ KeyOK /\ FilesOK /\ ApprovalOK /\ LedgersOK)'
<1> DEFINE b == export[e].body
<1>1. e \in Exporting /\ export[e].step \in Signed
  BY DEF ReadTrail, ReadAuthorizations, ReadDetections, ReadTracks, CreateArchive, In, Signed
<1>2. b \in Bodies /\ export[e].id \in workspaces
  BY <1>1, ExportingRows DEF ExportInv, FilesOK, Signed
<1>3. VerifiedOK(b) /\ (export[e].step \in TrailRead => LedgerCopied(b))
  BY <1>1 DEF ExportInv, LedgersOK, Signed
<1>4. /\ moves \in Seq(Statuses) /\ DOMAIN auths \subseteq AuthIds
      /\ DOMAIN runs \subseteq RunIds /\ DOMAIN tracks \subseteq TrackIds
  BY DEF ExportInv, GateInv, TypeOK
<1>5. ExportShape
  BY DEF ExportInv
<1> HIDE DEF b
<1>6. CASE ReadTrail(e)
  <2> DEFINE new == [b EXCEPT !.trail = moves]
  <2>1. /\ new \in Bodies /\ new.key = b.key /\ new.verified = b.verified
        /\ new.trail = moves
    BY <1>2, <1>4 DEF Bodies
  <2>2. /\ Step(e, "trail", new)
        /\ UNCHANGED <<gateVars, keyFile, workspaces, archives, packages>>
    BY <1>6 DEF ReadTrail, b
  <2> HIDE DEF new
  <2>3. LedgerCopied(new)
    BY <1>3, <1>4, <2>1 DEF LedgerCopied, VerifiedOK
  <2> QED
    BY <1>1, <1>5, <2>1, <2>2, <2>3, QuietAdvance DEF ExportShape, Signed, TrailRead, b
<1>7. CASE ReadAuthorizations(e) \/ ReadDetections(e) \/ ReadTracks(e)
  <2>1. PICK step \in {"authorizations", "detections", "read"}, new \in Bodies :
          /\ Step(e, step, new)
          /\ new.key = b.key /\ new.verified = b.verified /\ new.trail = b.trail
    <3>1. /\ [b EXCEPT !.auths = DOMAIN auths] \in Bodies
          /\ [b EXCEPT !.runs = DOMAIN runs] \in Bodies
          /\ [b EXCEPT !.tracks = DOMAIN tracks] \in Bodies
      BY <1>2, <1>4 DEF Bodies
    <3>2. CASE ReadAuthorizations(e)
      BY <3>1, <3>2, <1>2 DEF ReadAuthorizations, Bodies, b
    <3>3. CASE ReadDetections(e)
      BY <3>1, <3>3, <1>2 DEF ReadDetections, Bodies, b
    <3>4. CASE ReadTracks(e)
      BY <3>1, <3>4, <1>2 DEF ReadTracks, Bodies, b
    <3> QED
      BY <1>7, <3>2, <3>3, <3>4
  <2>2. /\ UNCHANGED <<gateVars, keyFile, workspaces, archives, packages>>
        /\ export[e].step \in TrailRead
    BY <1>7 DEF ReadAuthorizations, ReadDetections, ReadTracks, In, TrailRead, Signed
  <2>3. LedgerCopied(new)
    BY <1>3, <2>1, <2>2 DEF LedgerCopied
  <2> QED
    BY <1>1, <1>5, <2>1, <2>2, <2>3, QuietAdvance DEF ExportShape, Signed, TrailRead, b
<1>8. CASE CreateArchive(e)
  <2>1. /\ Step(e, "archiving", b) /\ archives' = Extend(archives, export[e].id, "partial")
        /\ UNCHANGED <<gateVars, keyFile, workspaces, packages>>
        /\ export[e].step \in TrailRead
    BY <1>8 DEF CreateArchive, In, TrailRead, Signed, b
  <2>2. /\ DOMAIN archives' = DOMAIN archives \cup {export[e].id}
        /\ \A i \in DOMAIN archives : i # export[e].id => archives'[i] = archives[i]
    BY <2>1 DEF Extend
  <2>3. archives' \in [DOMAIN archives' -> {"partial", "whole"}]
    BY <1>5, <2>1 DEF Extend, ExportShape
  <2>4. DOMAIN archives' \subseteq workspaces
    BY <1>2, <1>5, <2>2 DEF ExportShape
  <2> QED
    BY <1>1, <1>2, <1>3, <2>1, <2>2, <2>3, <2>4, QuietAdvance DEF Signed, TrailRead, b
<1> QED
  BY <1>6, <1>7, <1>8

-----------------------------------------------------------------------------
\* The first steps of an export and its key.

\* An export begins with nothing of its own.
LEMMA BeginKeeps ==
  ASSUME ExportInv, NEW e \in Exporters, BeginExport(e)
  PROVE  (ExportShape /\ KeyOK /\ FilesOK /\ ApprovalOK /\ LedgersOK)'
<1> DEFINE row == [step |-> "begun", id |-> NoId, body |-> Blank]
<1>1. row \in ExportRows
  BY DEF ExportRows, ExportSteps, Blank, Bodies
<1>2. /\ export' = [export EXCEPT ![e] = row] /\ e \notin Exporting
      /\ status \in {"approved", "closed"}
      /\ UNCHANGED <<gateVars, keyFile, workspaces, archives, packages>>
  BY DEF BeginExport, Exporting
<1>3. row.step = "begun" /\ row.id = NoId
  OBVIOUS
<1> HIDE DEF row
<1>4. /\ export' \in [Exporters -> ExportRows \cup {Idle}]
      /\ Exporting' = Exporting \cup {e} /\ export'[e] = row
      /\ \A f \in Exporters : f # e => export'[f] = export[f]
  BY <1>1, <1>2, Advances DEF ExportInv
<1>5. Exporting \subseteq Exporters
  BY DEF Exporting
<1>6. UNCHANGED <<moves, calm>>
  BY <1>2 DEF gateVars
<1>7. ExportShape'
  BY <1>2, <1>4 DEF ExportInv, ExportShape
<1>8. KeyOK'
  <2>1. LockFree' <=> LockFree
    BY <1>2, <1>3, <1>4, <1>5 DEF LockFree, In
  <2> QED
    BY <1>2, <1>3, <1>4, <1>5, <1>6, <2>1 DEF ExportInv, KeyOK, Signed
<1>9. FilesOK'
  <2>1. Workplaces \subseteq Workplaces'
    BY <1>2, <1>4, <1>5 DEF Workplaces
  <2>2. PackagesWhole'
    BY <1>2 DEF ExportInv, FilesOK, PackagesWhole
  <2> QED
    BY <1>2, <1>3, <1>4, <1>5, <1>6, <2>1, <2>2 DEF ExportInv, FilesOK
<1>10. ApprovalOK' /\ LedgersOK'
  BY <1>2, <1>3, <1>4, <1>5, <1>6
  DEF ExportInv, ApprovalOK, LedgersOK, TrailRead, Signed, VerifiedOK, LedgerCopied, ApprovedBy, status
<1> QED
  BY <1>7, <1>8, <1>9, <1>10

\* Its workspace has a name that no other export or package has.
LEMMA OpenKeeps ==
  ASSUME ExportInv, NEW e \in Exporters, OpenWorkspace(e)
  PROVE  (ExportShape /\ KeyOK /\ FilesOK /\ ApprovalOK /\ LedgersOK)'
<1>1. e \in Exporting /\ export[e].step = "begun"
  BY DEF OpenWorkspace, In
<1>2. PICK p \in PackageIds \ (DOMAIN packages \cup workspaces) :
        /\ workspaces' = workspaces \cup {p}
        /\ export' = [export EXCEPT ![e] =
             [step |-> "opened", id |-> p,
              body |-> [export[e].body EXCEPT !.verified = Len(moves)]]]
  BY DEF OpenWorkspace
<1>3. UNCHANGED <<gateVars, keyFile, archives, packages>>
  BY DEF OpenWorkspace
<1> DEFINE body == [export[e].body EXCEPT !.verified = Len(moves)]
           row == [step |-> "opened", id |-> p, body |-> body]
<1>4. moves \in Seq(Statuses) /\ Len(moves) \in Nat
  BY DEF ExportInv, GateInv, TypeOK
<1>5. body \in Bodies /\ body.verified = Len(moves)
  BY <1>1, <1>4, ExportingRows DEF ExportInv, Bodies
<1>6. export' = [export EXCEPT ![e] = row]
  BY <1>2
<1> HIDE DEF body
<1>7. row \in ExportRows /\ row.step = "opened" /\ row.id = p /\ row.body = body
  BY <1>5 DEF ExportRows, ExportSteps
<1> HIDE DEF row
<1>8. /\ export' \in [Exporters -> ExportRows \cup {Idle}]
      /\ Exporting' = Exporting \cup {e} /\ export'[e] = row
      /\ \A f \in Exporters : f # e => export'[f] = export[f]
  BY <1>6, <1>7, Advances DEF ExportInv
<1>9. Exporting \subseteq Exporters /\ Exporting' = Exporting
  BY <1>1, <1>8 DEF Exporting
<1>10. UNCHANGED <<moves, calm>>
  BY <1>3 DEF gateVars
<1>11. ExportShape'
  BY <1>2, <1>3, <1>8 DEF ExportInv, ExportShape
<1>12. KeyOK'
  <2>1. LockFree' <=> LockFree
    BY <1>1, <1>7, <1>8, <1>9 DEF LockFree, In
  <2> QED
    BY <1>3, <1>7, <1>8, <1>9, <1>10, <2>1 DEF ExportInv, KeyOK, Signed
<1>13. FilesOK'
  <2>1. PackagesWhole'
    BY <1>3 DEF ExportInv, FilesOK, PackagesWhole
  <2>2. ASSUME calm, NEW w \in workspaces
        PROVE  w \in DOMAIN packages \cup Workplaces'
    <3>1. CASE w \in DOMAIN packages
      BY <3>1
    <3>2. CASE w \in Workplaces
      <4>1. PICK f \in Exporting : w = export[f].id
        BY <3>2 DEF Workplaces
      <4>2. CASE f = e
        <5>1. export[e].id = NoId
          BY <1>1 DEF ExportInv, FilesOK
        <5>2. w \in PackageIds
          BY <2>2 DEF ExportInv, ExportShape
        <5> QED
          BY <4>1, <4>2, <5>1, <5>2, ExportConstants
      <4>3. CASE f # e
        BY <4>1, <4>3, <1>8, <1>9 DEF Workplaces
      <4> QED
        BY <4>2, <4>3
    <3> QED
      BY <2>2, <3>1, <3>2 DEF ExportInv, FilesOK
  <2>3. p \in Workplaces'
    BY <1>1, <1>7, <1>8, <1>9 DEF Workplaces
  <2>4. calm' => workspaces' \subseteq (DOMAIN packages)' \cup Workplaces'
    BY <1>2, <1>3, <1>10, <2>2, <2>3
  <2> QED
    BY <1>2, <1>3, <1>7, <1>8, <1>9, <2>1, <2>4 DEF ExportInv, FilesOK
<1>14. ApprovalOK' /\ LedgersOK'
  BY <1>1, <1>3, <1>4, <1>5, <1>7, <1>8, <1>9, <1>10
  DEF ExportInv, ApprovalOK, LedgersOK, TrailRead, Signed, VerifiedOK, LedgerCopied, ApprovedBy, status
<1> QED
  BY <1>11, <1>12, <1>13, <1>14

\* A trail that does not verify ends the export before it has files.
LEMMA FailVerificationKeeps ==
  ASSUME ExportInv, NEW e \in Exporters, FailVerification(e)
  PROVE  (ExportShape /\ KeyOK /\ FilesOK /\ ApprovalOK /\ LedgersOK)'
<1>1. /\ e \in Exporting /\ export[e].step = "begun"
      /\ export' = [export EXCEPT ![e] = Idle]
      /\ UNCHANGED <<gateVars, keyFile, workspaces, archives, packages>>
  BY DEF FailVerification, In
<1>2. /\ export' \in [Exporters -> ExportRows \cup {Idle}]
      /\ Exporting' = Exporting \ {e}
      /\ \A f \in Exporters : f # e => export'[f] = export[f]
  BY <1>1, Ended DEF ExportInv
<1>3. Exporting \subseteq Exporters
  BY DEF Exporting
<1>4. UNCHANGED <<moves, calm>>
  BY <1>1 DEF gateVars
<1>5. ExportShape'
  BY <1>1, <1>2 DEF ExportInv, ExportShape
<1>6. KeyOK'
  <2>1. LockFree' <=> LockFree
    BY <1>1, <1>2, <1>3 DEF LockFree, In
  <2> QED
    BY <1>1, <1>2, <1>3, <1>4, <2>1 DEF ExportInv, KeyOK
<1>7. FilesOK'
  <2>1. \A w \in workspaces \cap Workplaces : w \in Workplaces'
    <3> SUFFICES ASSUME NEW f \in Exporting, export[f].id \in workspaces
                 PROVE  export[f].id \in Workplaces'
      BY DEF Workplaces
    <3>1. export[f].id \in PackageIds /\ export[e].id = NoId
      BY <1>1 DEF ExportInv, ExportShape, FilesOK
    <3>2. f # e
      BY <3>1, ExportConstants
    <3> QED
      BY <1>2, <1>3, <3>2 DEF Workplaces
  <2>2. PackagesWhole'
    BY <1>1 DEF ExportInv, FilesOK, PackagesWhole
  <2> QED
    BY <1>1, <1>2, <1>3, <1>4, <2>1, <2>2 DEF ExportInv, FilesOK
<1>8. ApprovalOK' /\ LedgersOK'
  BY <1>1, <1>2, <1>3, <1>4
  DEF ExportInv, ApprovalOK, LedgersOK, VerifiedOK, LedgerCopied, ApprovedBy, status
<1> QED
  BY <1>5, <1>6, <1>7, <1>8

\* The key is loaded, begun or written while nobody else writes it; once a
\* package or an export is signed the file never changes.
LEMMA KeyStepsKeep ==
  ASSUME ExportInv, NEW e \in Exporters, LoadKey(e) \/ CreateKeyFile(e) \/ WriteKeyFile(e)
  PROVE  (ExportShape /\ KeyOK /\ FilesOK /\ ApprovalOK /\ LedgersOK)'
<1> DEFINE b == export[e].body
<1>1. e \in Exporting /\ export[e].step \in {"opened", "keying"}
  BY DEF LoadKey, CreateKeyFile, WriteKeyFile, In
<1>2. b \in Bodies /\ export[e].id \in PackageIds \cup {NoId}
  BY <1>1, ExportingRows DEF ExportInv
<1>3. UNCHANGED <<gateVars, workspaces, archives, packages>>
  BY DEF LoadKey, CreateKeyFile, WriteKeyFile
<1> HIDE DEF b
<1>4. PICK step \in {"keying", "signed"}, new \in Bodies :
        /\ Step(e, step, new) /\ new.verified = b.verified
        /\ step = "signed" => keyFile' \in Keys /\ new.key = keyFile'
        /\ step = "keying" => LockFree /\ keyFile = NoKey /\ keyFile' = "partial"
        /\ keyFile \in Keys => keyFile' = keyFile
        /\ step = "signed" => LockFree \/ export[e].step = "keying"
  <2>1. \A k \in Keys : LET new == [b EXCEPT !.key = k] IN
          new \in Bodies /\ new.key = k /\ new.verified = b.verified
    BY <1>2 DEF Bodies
  <2>2. CASE LoadKey(e)
    BY <2>1, <2>2 DEF LoadKey, b
  <2>3. CASE CreateKeyFile(e)
    BY <1>2, <2>3, ExportConstants DEF CreateKeyFile, b
  <2>4. CASE WriteKeyFile(e)
    <3>1. keyFile = "partial" /\ keyFile \notin Keys
      BY <1>1, <2>4, ExportConstants DEF WriteKeyFile, In, ExportInv, KeyOK
    <3> QED
      BY <2>1, <2>4, <3>1 DEF WriteKeyFile, In, b
  <2> QED
    BY <2>2, <2>3, <2>4
<1> DEFINE row == [step |-> step, id |-> export[e].id, body |-> new]
<1>5. row \in ExportRows
  BY <1>2 DEF ExportRows, ExportSteps
<1>6. export' = [export EXCEPT ![e] = row]
  BY <1>1, <1>4 DEF Step, ExportInv, ExportShape
<1>7. row.step = step /\ row.id = export[e].id /\ row.body = new
  OBVIOUS
<1> HIDE DEF row
<1>8. /\ export' \in [Exporters -> ExportRows \cup {Idle}]
      /\ Exporting' = Exporting \cup {e} /\ export'[e] = row
      /\ \A f \in Exporters : f # e => export'[f] = export[f]
  BY <1>5, <1>6, Advances DEF ExportInv
<1>9. Exporting \subseteq Exporters /\ Exporting' = Exporting
  BY <1>1, <1>8 DEF Exporting
<1>10. UNCHANGED <<moves, calm>>
  BY <1>3 DEF gateVars
<1>11. ExportShape'
  <2>1. keyFile' \in Keys \cup {NoKey, "partial"}
    BY <1>4
  <2> QED
    BY <1>3, <1>8, <2>1 DEF ExportInv, ExportShape
<1>12. KeyOK'
  <2>1. CASE step = "signed"
    <3>1. \A f \in Exporting : export'[f].step # "keying"
      <4> TAKE f \in Exporting
      <4>1. CASE f = e
        BY <2>1, <4>1, <1>7, <1>8
      <4>2. CASE f # e
        BY <4>2, <2>1, <1>1, <1>4, <1>8, <1>9 DEF ExportInv, KeyOK, LockFree, In
      <4> QED
        BY <4>1, <4>2
    <3>2. keyFile' # "partial"
      BY <1>4, <2>1, ExportConstants
    <3> QED
      BY <1>3, <1>4, <1>7, <1>8, <1>9, <1>10, <2>1, <3>1, <3>2 DEF ExportInv, KeyOK, Signed
  <2>2. CASE step = "keying"
    <3>1. keyFile \notin Keys
      BY <1>4, <2>2, ExportConstants
    <3>2. \A f \in Exporting : export[f].step \notin Signed /\ (f # e => export[f].step # "keying")
      BY <1>4, <1>9, <2>2, <3>1 DEF ExportInv, KeyOK, LockFree, In
    <3>3. ~LockFree'
      BY <1>1, <1>7, <1>8, <1>9, <2>2 DEF LockFree, In
    <3> QED
      BY <1>3, <1>4, <1>7, <1>8, <1>9, <1>10, <2>2, <3>1, <3>2, <3>3 DEF ExportInv, KeyOK, Signed
  <2> QED
    BY <2>1, <2>2
<1>13. FilesOK'
  <2>1. \A f \in Exporting : export'[f].id = export[f].id
    BY <1>7, <1>8, <1>9
  <2>2. Workplaces' = Workplaces
    BY <1>9, <2>1 DEF Workplaces
  <2>3. PackagesWhole'
    BY <1>3 DEF ExportInv, FilesOK, PackagesWhole
  <2> QED
    BY <1>1, <1>3, <1>7, <1>8, <1>9, <1>10, <2>1, <2>2, <2>3 DEF ExportInv, FilesOK
<1>14. ApprovalOK' /\ LedgersOK'
  BY <1>1, <1>3, <1>4, <1>7, <1>8, <1>9, <1>10
  DEF ExportInv, ApprovalOK, LedgersOK, TrailRead, Signed, VerifiedOK, LedgerCopied, ApprovedBy,
      status, b
<1> QED
  BY <1>11, <1>12, <1>13, <1>14

-----------------------------------------------------------------------------
\* The archive, the row, and failure.

\* A sealed archive is whole and stays the export's own until its row is stored.
LEMMA SealKeeps ==
  ASSUME ExportInv, NEW e \in Exporters, SealArchive(e)
  PROVE  (ExportShape /\ KeyOK /\ FilesOK /\ ApprovalOK /\ LedgersOK)'
<1> DEFINE row == [step |-> "archived", id |-> export[e].id, body |-> export[e].body]
<1>1. e \in Exporting /\ export[e].step = "archiving"
  BY DEF SealArchive, In
<1>2. row \in ExportRows
  BY <1>1, ExportingRows DEF ExportInv, ExportRows, ExportSteps
<1>3. /\ export' = [export EXCEPT ![e] = row]
      /\ archives' = [archives EXCEPT ![export[e].id] = "whole"]
      /\ UNCHANGED <<gateVars, keyFile, workspaces, packages>>
  BY <1>1 DEF SealArchive, Step, ExportInv, ExportShape
<1>4. row.step = "archived" /\ row.id = export[e].id /\ row.body = export[e].body
  OBVIOUS
<1> HIDE DEF row
<1>5. /\ export' \in [Exporters -> ExportRows \cup {Idle}]
      /\ Exporting' = Exporting \cup {e} /\ export'[e] = row
      /\ \A f \in Exporters : f # e => export'[f] = export[f]
  BY <1>2, <1>3, Advances DEF ExportInv
<1>6. Exporting \subseteq Exporters /\ Exporting' = Exporting
  BY <1>1, <1>5 DEF Exporting
<1>7. UNCHANGED <<moves, calm>>
  BY <1>3 DEF gateVars
<1>8. /\ export[e].id \in DOMAIN archives
      /\ DOMAIN archives' = DOMAIN archives /\ archives'[export[e].id] = "whole"
      /\ \A i \in DOMAIN archives : i # export[e].id => archives'[i] = archives[i]
      /\ archives' \in [DOMAIN archives' -> {"partial", "whole"}]
  BY <1>1, <1>3 DEF ExportInv, FilesOK, ExportShape
<1>9. ExportShape'
  BY <1>3, <1>5, <1>8 DEF ExportInv, ExportShape
<1>10. KeyOK'
  <2>1. LockFree' <=> LockFree
    BY <1>1, <1>4, <1>5, <1>6 DEF LockFree, In
  <2> QED
    BY <1>1, <1>3, <1>4, <1>5, <1>6, <1>7, <2>1 DEF ExportInv, KeyOK, Signed
<1>11. FilesOK'
  <2>1. \A f \in Exporting : export'[f].id = export[f].id
    BY <1>4, <1>5, <1>6
  <2>2. Workplaces' = Workplaces
    BY <1>6, <2>1 DEF Workplaces
  <2>3. PackagesWhole'
    BY <1>3, <1>8 DEF ExportInv, FilesOK, PackagesWhole
  <2>4. \A f \in Exporting : export'[f].step = "archived" => archives'[export[f].id] = "whole"
    BY <1>5, <1>6, <1>8 DEF ExportInv, FilesOK
  <2> QED
    BY <1>1, <1>3, <1>4, <1>5, <1>6, <1>7, <1>8, <2>1, <2>2, <2>3, <2>4 DEF ExportInv, FilesOK
<1>12. ApprovalOK' /\ LedgersOK'
  BY <1>1, <1>3, <1>4, <1>5, <1>6, <1>7
  DEF ExportInv, ApprovalOK, LedgersOK, TrailRead, Signed, VerifiedOK, LedgerCopied, ApprovedBy, status
<1> QED
  BY <1>9, <1>10, <1>11, <1>12

\* The export becomes its package.
LEMMA InsertKeepsExports ==
  ASSUME ExportInv, NEW e \in Exporters, InsertPackage(e)
  PROVE  (ExportShape /\ KeyOK /\ FilesOK /\ ApprovalOK /\ LedgersOK)'
<1> DEFINE p == export[e].id
           b == export[e].body
<1>1. e \in Exporting /\ export[e].step = "archived"
  BY DEF InsertPackage, In
<1>2. /\ packages' = Extend(packages, p, b) /\ export' = [export EXCEPT ![e] = Idle]
      /\ UNCHANGED <<gateVars, keyFile, workspaces, archives>>
  BY DEF InsertPackage
<1>3. b \in Bodies /\ p \in workspaces \ DOMAIN packages
      /\ p \in DOMAIN archives /\ archives[p] = "whole"
  BY <1>1, ExportingRows DEF ExportInv, FilesOK
<1>4. /\ export' \in [Exporters -> ExportRows \cup {Idle}]
      /\ Exporting' = Exporting \ {e}
      /\ \A f \in Exporters : f # e => export'[f] = export[f]
  BY <1>2, Ended DEF ExportInv
<1>5. Exporting \subseteq Exporters
  BY DEF Exporting
<1>6. UNCHANGED <<moves, calm>>
  BY <1>2 DEF gateVars
<1>7. keyFile \in Keys /\ b.key = keyFile /\ VerifiedOK(b) /\ LedgerCopied(b)
  BY <1>1 DEF ExportInv, KeyOK, LedgersOK, Signed, TrailRead
<1>8. \A f \in Exporting : f # e /\ export[f].step # "begun" => export[f].id # p
  BY <1>1 DEF ExportInv, FilesOK
<1>9. p \in PackageIds /\ \A f \in Exporting : export[f].step = "begun" => export[f].id # p
  BY <1>3, ExportConstants DEF ExportInv, ExportShape, FilesOK
<1>10. p \in Workplaces /\ Workplaces \subseteq Workplaces' \cup {p}
  BY <1>1, <1>4, <1>5 DEF Workplaces
<1> HIDE DEF p, b
<1>11. /\ DOMAIN packages' = DOMAIN packages \cup {p} /\ packages'[p] = b
       /\ \A i \in DOMAIN packages : i # p => packages'[i] = packages[i]
  BY <1>2 DEF Extend
<1>12. packages' \in [DOMAIN packages' -> Bodies]
  BY <1>2, <1>3 DEF Extend, ExportInv, ExportShape
<1>13. ExportShape'
  BY <1>2, <1>3, <1>4, <1>11, <1>12 DEF ExportInv, ExportShape
<1>14. KeyOK'
  <2>1. LockFree' <=> LockFree
    BY <1>1, <1>4, <1>5 DEF LockFree, In
  <2> QED
    BY <1>2, <1>4, <1>5, <1>6, <1>7, <1>11, <2>1 DEF ExportInv, KeyOK
<1>15. FilesOK'
  <2>1. PackagesWhole'
    BY <1>2, <1>3, <1>11 DEF ExportInv, FilesOK, PackagesWhole
  <2>2. calm' => workspaces' \subseteq DOMAIN packages' \cup Workplaces'
    BY <1>2, <1>6, <1>10, <1>11 DEF ExportInv, FilesOK
  <2> QED
    BY <1>2, <1>4, <1>5, <1>8, <1>11, <2>1, <2>2 DEF ExportInv, FilesOK
<1>16. ApprovalOK' /\ LedgersOK'
  BY <1>2, <1>4, <1>5, <1>6, <1>7, <1>11
  DEF ExportInv, ApprovalOK, LedgersOK, VerifiedOK, LedgerCopied, ApprovedBy, status
<1> QED
  BY <1>13, <1>14, <1>15, <1>16

\* What a failed export removes belongs to it alone; the key is removed only by
\* the exporter that was writing it.
LEMMA CleanKeeps ==
  ASSUME ExportInv, NEW e \in Exporters, CleanFailedExport(e)
  PROVE  (ExportShape /\ KeyOK /\ FilesOK /\ ApprovalOK /\ LedgersOK)'
<1> DEFINE p == export[e].id
<1>1. e \in Exporting /\ export[e].step \in Failing
  BY DEF CleanFailedExport, In
<1>2. /\ keyFile' = IF export[e].step = "keying" THEN NoKey ELSE keyFile
      /\ workspaces' = workspaces \ {p} /\ archives' = Without(archives, p)
      /\ export' = [export EXCEPT ![e] = Idle]
      /\ UNCHANGED <<gateVars, packages>>
  BY <1>1 DEF CleanFailedExport, In
<1>3. export[e].step # "begun" /\ p \in workspaces \ DOMAIN packages
  BY <1>1 DEF ExportInv, FilesOK, Failing
<1>4. /\ export' \in [Exporters -> ExportRows \cup {Idle}]
      /\ Exporting' = Exporting \ {e}
      /\ \A f \in Exporters : f # e => export'[f] = export[f]
  BY <1>2, Ended DEF ExportInv
<1>5. Exporting \subseteq Exporters
  BY DEF Exporting
<1>6. UNCHANGED <<moves, calm>>
  BY <1>2 DEF gateVars
<1>7. \A f \in Exporting : f # e /\ export[f].step # "begun" => export[f].id # p
  BY <1>1, <1>3 DEF ExportInv, FilesOK
<1>8. Workplaces \subseteq Workplaces' \cup {p}
  BY <1>4, <1>5 DEF Workplaces
<1> HIDE DEF p
<1>9. /\ DOMAIN archives' = DOMAIN archives \ {p}
      /\ \A i \in DOMAIN archives : i # p => archives'[i] = archives[i]
      /\ archives' \in [DOMAIN archives' -> {"partial", "whole"}]
  BY <1>2 DEF Without, ExportInv, ExportShape
<1>10. ExportShape'
  BY <1>2, <1>3, <1>4, <1>9 DEF ExportInv, ExportShape
<1>11. KeyOK'
  <2>1. CASE export[e].step = "keying"
    <3>1. keyFile = "partial" /\ keyFile \notin Keys /\ keyFile' = NoKey /\ keyFile' # "partial"
      BY <1>1, <1>2, <2>1, ExportConstants DEF ExportInv, KeyOK
    <3>2. \A f \in Exporting \ {e} : export[f].step # "keying" /\ export[f].step \notin Signed
      BY <1>1, <2>1, <3>1 DEF ExportInv, KeyOK
    <3> QED
      BY <1>2, <1>4, <1>5, <3>1, <3>2 DEF ExportInv, KeyOK
  <2>2. CASE export[e].step # "keying"
    <3>1. LockFree' <=> LockFree
      BY <1>4, <1>5, <2>2 DEF LockFree, In
    <3> QED
      BY <1>2, <1>4, <1>5, <1>6, <2>2, <3>1 DEF ExportInv, KeyOK
  <2> QED
    BY <2>1, <2>2
<1>12. FilesOK'
  <2>1. PackagesWhole'
    BY <1>2, <1>3, <1>9 DEF ExportInv, FilesOK, PackagesWhole
  <2>2. calm' => workspaces' \subseteq DOMAIN packages' \cup Workplaces'
    BY <1>2, <1>6, <1>8 DEF ExportInv, FilesOK
  <2> QED
    BY <1>2, <1>4, <1>5, <1>7, <1>9, <2>1, <2>2 DEF ExportInv, FilesOK
<1>13. ApprovalOK' /\ LedgersOK'
  BY <1>2, <1>4, <1>5, <1>6
  DEF ExportInv, ApprovalOK, LedgersOK, VerifiedOK, LedgerCopied, ApprovedBy, status
<1> QED
  BY <1>10, <1>11, <1>12, <1>13

-----------------------------------------------------------------------------
\* The analysis beside the exports, and a crash of everything.

TrailExtends ==
  /\ Len(moves) <= Len(moves') /\ Len(moves') \in Nat
  /\ \A i \in 1 .. Len(moves) : moves'[i] = moves[i]

\* What the case's life and the analysis do to what exports look at.
LEMMA GateSteps ==
  ASSUME ExportInv, Handle \/ Around
  PROVE  TrailExtends /\ ApprovalOK' /\ (calm' => calm)
<1>1. moves \in Seq(Statuses) /\ Len(moves) \in Nat
  BY DEF ExportInv, GateInv, TypeOK
<1>2. CASE UNCHANGED moves /\ (calm' => calm)
  BY <1>1, <1>2 DEF TrailExtends, ExportInv, ApprovalOK, ApprovedBy, status
<1>3. ASSUME NEW to \in Statuses, Move(to)
      PROVE  TrailExtends /\ ApprovalOK' /\ (calm' => calm)
  <2>1. /\ moves' = Append(moves, to) /\ UNCHANGED calm
        /\ <<status, to>> \in {<<"supervisor-review", "approved">>,
                               <<"approved", "supervisor-review">>, <<"approved", "closed">>}
    BY <1>3 DEF Move
  <2>2. /\ Len(moves') = Len(moves) + 1 /\ moves'[Len(moves) + 1] = to
        /\ \A i \in 1 .. Len(moves) : moves'[i] = moves[i]
    BY <1>1, <2>1
  <2>3. to \in {"approved", "closed"} => ApprovedBy(Len(moves))'
    <3>1. CASE to = "approved"
      BY <3>1, <1>1, <2>2 DEF ApprovedBy
    <3>2. CASE to = "closed"
      <4>1. status = "approved"
        BY <2>1, <3>2
      <4>2. PICK i \in 1 .. Len(moves) : moves[i] = "approved"
        BY <4>1 DEF ExportInv, ApprovalOK, ApprovedBy
      <4> QED
        BY <1>1, <2>2, <4>2 DEF ApprovedBy
    <3> QED
      BY <3>1, <3>2
  <2>4. status' = to
    <3>1. moves' # <<>>
      BY <1>1, <2>1
    <3> QED
      BY <2>2, <3>1 DEF status
  <2> QED
    BY <1>1, <2>1, <2>2, <2>3, <2>4 DEF TrailExtends, ApprovalOK, ApprovedBy
<1>4. ASSUME NEW t \in Threads, Arrive(t) \/ Work(t)
      PROVE  UNCHANGED moves /\ (calm' => calm)
  BY <1>4
  DEF Arrive, BeginAuthorization, BeginDetection, BeginTracking, Begin, Work, Permit, Refuse,
      Associate, FailAnalysis, StampAuthorization, StampTracking, StampDetection, FillPreview,
      AbandonPreview, InsertAuthorization, InsertRun, InsertTrack, RejectRow, FailWrite, Conclude
<1>5. CASE Tick
  BY <1>2, <1>5 DEF Tick
<1> QED
  BY <1>2, <1>3, <1>4, <1>5 DEF Handle, Around

\* Nothing the analysis does touches an export; what exports relied on stays.
LEMMA GateStepsKeep ==
  ASSUME ExportInv, Handle \/ Around, UNCHANGED exportVars
  PROVE  (ExportShape /\ KeyOK /\ FilesOK /\ ApprovalOK /\ LedgersOK)'
<1>1. TrailExtends /\ ApprovalOK' /\ (calm' => calm)
  BY GateSteps
<1>2. UNCHANGED <<keyFile, workspaces, archives, packages, export>>
  BY DEF exportVars
<1>3. moves \in Seq(Statuses) /\ Len(moves) \in Nat
  BY DEF ExportInv, GateInv, TypeOK
<1>4. ExportShape' /\ Exporting' = Exporting /\ (LockFree' <=> LockFree)
      /\ Workplaces' = Workplaces
  BY <1>2 DEF ExportInv, ExportShape, Exporting, LockFree, In, Workplaces
<1>5. KeyOK'
  BY <1>1, <1>2, <1>4 DEF ExportInv, KeyOK
<1>6. FilesOK'
  BY <1>1, <1>2, <1>4 DEF ExportInv, FilesOK, PackagesWhole
<1>7. \A n \in Nat : n <= Len(moves) /\ ApprovedBy(n) => ApprovedBy(n)'
  BY <1>1, <1>3 DEF TrailExtends, ApprovedBy
<1>8. ApprovedBy(Len(moves)) => ApprovedBy(Len(moves))'
  BY <1>1, <1>3 DEF TrailExtends, ApprovedBy
<1>9. ASSUME NEW b \in Bodies, VerifiedOK(b)
      PROVE  VerifiedOK(b)' /\ (LedgerCopied(b) => LedgerCopied(b)')
  <2>1. b.verified \in Nat /\ Len(b.trail) \in Nat
    BY DEF Bodies
  <2>2. VerifiedOK(b)'
    BY <1>1, <1>3, <1>7, <1>9, <2>1 DEF TrailExtends, VerifiedOK
  <2>3. LedgerCopied(b) => LedgerCopied(b)'
    BY <1>1, <1>3, <2>1 DEF TrailExtends, LedgerCopied
  <2> QED
    BY <2>2, <2>3
<1>10. ASSUME NEW e \in Exporting
       PROVE  /\ ApprovedBy(Len(moves))'
              /\ export[e].step # "begun" => VerifiedOK(export[e].body)'
              /\ export[e].step \in TrailRead => LedgerCopied(export[e].body)'
  <2>1. PICK b \in Bodies : b = export[e].body
    BY ExportingRows DEF ExportInv
  <2>2. /\ export[e].step # "begun" => VerifiedOK(b)
        /\ export[e].step \in TrailRead => LedgerCopied(b)
    BY <2>1 DEF ExportInv, LedgersOK
  <2>3. export'[e].body = b
    BY <1>2, <2>1
  <2>4. /\ export[e].step # "begun" => VerifiedOK(b)'
        /\ export[e].step \in TrailRead => LedgerCopied(b)'
    BY <1>9, <2>2 DEF TrailRead, Signed
  <2>5. ApprovedBy(Len(moves))'
    BY <1>8 DEF ExportInv, LedgersOK
  <2> QED
    BY <2>3, <2>4, <2>5 DEF VerifiedOK, LedgerCopied, ApprovedBy
<1>11. ASSUME NEW p \in DOMAIN packages
       PROVE  VerifiedOK(packages[p])' /\ LedgerCopied(packages[p])'
  <2>1. PICK b \in Bodies : b = packages[p]
    BY DEF ExportInv, ExportShape
  <2>2. VerifiedOK(b) /\ LedgerCopied(b)
    BY <2>1 DEF ExportInv, LedgersOK
  <2>3. VerifiedOK(b)' /\ LedgerCopied(b)' /\ packages'[p] = b
    BY <1>2, <1>9, <2>1, <2>2
  <2> QED
    BY <2>3 DEF VerifiedOK, LedgerCopied, ApprovedBy
<1>12. LedgersOK'
  BY <1>2, <1>4, <1>10, <1>11 DEF LedgersOK
<1> QED
  BY <1>1, <1>4, <1>5, <1>6, <1>12

\* A crash of the process ends exports and handlers and keeps rows and files.
LEMMA KillKeeps ==
  ASSUME ExportInv, Kill
  PROVE  ExportInv'
<1>1. /\ job' = [t \in Threads |-> Idle] /\ export' = [e \in Exporters |-> Idle] /\ ~calm'
      /\ UNCHANGED <<clock, moves, auths, runs, tracks, previews, bound, keyFile, workspaces,
                     archives, packages>>
  BY DEF Kill, tables
<1>2. Busy' = {} /\ Exporting' = {}
  BY <1>1 DEF Busy, Exporting
<1>3. TypeOK'
  BY <1>1 DEF Kill, ExportInv, GateInv, TypeOK
<1>4. RowsOK'
  BY <1>1 DEF ExportInv, GateInv, RowsOK, AnalysesInsideWindow, RunsHavePreviews, TracksOK, Chosen, Dated
<1>5. GateInv'
  BY <1>1, <1>2, <1>3, <1>4 DEF GateInv, JobsOK, IdsApart, NoPreviewLeftBehind
<1>6. ExportShape'
  BY <1>1 DEF ExportInv, ExportShape
<1>7. KeyOK' /\ FilesOK' /\ ApprovalOK' /\ LedgersOK'
  BY <1>1, <1>2
  DEF ExportInv, KeyOK, FilesOK, PackagesWhole, ApprovalOK, LedgersOK, VerifiedOK, LedgerCopied,
      ApprovedBy, status
<1> QED
  BY <1>5, <1>6, <1>7 DEF ExportInv

-----------------------------------------------------------------------------
\* Every step keeps the invariant.

\* Without exports there are no packages, archives or keys.
LEMMA ExportInitHolds ==
  ASSUME ExportInit PROVE ExportInv
<1>1. GateInv
  BY InitEstablishes DEF ExportInit
<1>2. Exporting = {} /\ calm /\ status = "supervisor-review"
  BY DEF ExportInit, Exporting, Init, status
<1>3. DOMAIN packages = {} /\ DOMAIN archives = {}
  BY DEF ExportInit, NoRows
<1>4. ExportShape
  BY <1>3 DEF ExportInit, ExportShape, NoRows
<1>5. KeyOK /\ FilesOK /\ ApprovalOK /\ LedgersOK
  BY <1>2, <1>3, ExportConstants
  DEF ExportInit, KeyOK, FilesOK, PackagesWhole, ApprovalOK, LedgersOK
<1> QED
  BY <1>1, <1>4, <1>5 DEF ExportInv

\* Every step of exports and analyses keeps the joint invariant.
LEMMA ExportStepKeeps ==
  ASSUME ExportInv, [ExportNext]_vars PROVE ExportInv'
<1>1. ASSUME NEW e \in Exporters, Export(e) PROVE ExportInv'
  <2>1. UNCHANGED gateVars
    BY <1>1 DEF Export, BeginExport, OpenWorkspace, FailVerification, LoadKey, CreateKeyFile,
       WriteKeyFile, ReadTrail, ReadAuthorizations, ReadDetections, ReadTracks, CreateArchive,
       SealArchive, InsertPackage, CleanFailedExport
  <2>2. GateInv'
    BY <2>1, StepPreserves DEF ExportInv
  <2>3. (ExportShape /\ KeyOK /\ FilesOK /\ ApprovalOK /\ LedgersOK)'
    BY <1>1, BeginKeeps, OpenKeeps, FailVerificationKeeps, KeyStepsKeep, ReadsKeep, SealKeeps,
       InsertKeepsExports, CleanKeeps
    DEF Export
  <2> QED
    BY <2>2, <2>3 DEF ExportInv
<1>2. CASE (Handle \/ Around) /\ UNCHANGED exportVars
  <2>1. GateInv'
    BY <1>2, StepPreserves DEF ExportInv, Next
  <2> QED
    BY <1>2, <2>1, GateStepsKeep DEF ExportInv
<1>3. CASE UNCHANGED vars
  <2>1. UNCHANGED gateVars /\ UNCHANGED exportVars
    BY <1>3 DEF vars
  <2>2. GateInv'
    BY <2>1, StepPreserves DEF ExportInv
  <2>3. UNCHANGED <<moves, calm, keyFile, workspaces, archives, packages, export>>
    BY <2>1 DEF gateVars, exportVars
  <2>4. (ExportShape /\ KeyOK /\ FilesOK /\ ApprovalOK /\ LedgersOK)'
    BY <2>3 DEF ExportInv, ExportShape, Exporting, LockFree, In, Workplaces, KeyOK, FilesOK,
       PackagesWhole, ApprovalOK, LedgersOK, VerifiedOK, LedgerCopied, ApprovedBy, status
  <2> QED
    BY <2>2, <2>4 DEF ExportInv
<1> QED
  BY <1>1, <1>2, <1>3, KillKeeps DEF ExportNext

\* The inductive invariant holds in every reachable state; its first part says
\* that the analysis keeps its invariant beside exports and their crashes.
THEOREM ExportInvariant == ExportSpec => []ExportInv
BY ExportInitHolds, ExportStepKeeps, PTL DEF ExportSpec

\* However many first exports overlap, fail or crash, all packages ever made
\* carry the fingerprint of the one key on file.
THEOREM OneKeySignsAll == ExportSpec => []OneFingerprint
<1>1. ExportInv => OneFingerprint
  BY DEF ExportInv, KeyOK, OneFingerprint
<1> QED
  BY <1>1, ExportInvariant, PTL

\* Every package has its whole archive, and without a crash no finished export
\* leaves a workspace, an archive or an unusable key.
THEOREM ExportsAlwaysWhole == ExportSpec => []ExportsWholeOrNothing
<1>1. ExportInv => ExportsWholeOrNothing
  BY DEF ExportInv, ExportShape, KeyOK, FilesOK, ExportsWholeOrNothing, FailedExportsLeaveNothing
<1> QED
  BY <1>1, ExportInvariant, PTL

\* The ledger inside each package is the beginning of the case's trail, covers
\* what was verified and shows the approval.
THEOREM LedgersShowApproval == ExportSpec => []LedgerShowsApproval
<1>1. ExportInv => LedgerShowsApproval
  <2> SUFFICES ASSUME ExportInv, NEW p \in DOMAIN packages
               PROVE  LET ledger == packages[p].trail
                      IN  /\ packages[p].verified <= Len(ledger)
                          /\ \E i \in 1 .. packages[p].verified : ledger[i] = "approved"
                          /\ ledger = SubSeq(moves, 1, Len(ledger))
    BY DEF LedgerShowsApproval
  <2>1. PICK b \in Bodies : b = packages[p]
    BY DEF ExportInv, ExportShape
  <2>2. VerifiedOK(b) /\ LedgerCopied(b) /\ moves \in Seq(Statuses)
    BY <2>1 DEF ExportInv, LedgersOK, GateInv, TypeOK
  <2>3. /\ b.trail \in Seq(Statuses) /\ b.verified \in Nat /\ Len(b.trail) \in Nat
        /\ Len(moves) \in Nat
    BY <2>2 DEF Bodies
  <2>4. \E i \in 1 .. b.verified : b.trail[i] = "approved"
    BY <2>2, <2>3 DEF VerifiedOK, ApprovedBy, LedgerCopied
  <2>5. b.trail = SubSeq(moves, 1, Len(b.trail))
    <3>1. /\ SubSeq(moves, 1, Len(b.trail)) \in Seq(Statuses)
          /\ Len(SubSeq(moves, 1, Len(b.trail))) = Len(b.trail)
          /\ \A i \in 1 .. Len(b.trail) : SubSeq(moves, 1, Len(b.trail))[i] = moves[i]
      BY <2>2, <2>3 DEF LedgerCopied
    <3> QED
      BY <2>2, <2>3, <3>1, SeqEqual DEF LedgerCopied
  <2> QED
    BY <2>1, <2>2, <2>4, <2>5 DEF LedgerCopied
<1> QED
  BY <1>1, ExportInvariant, PTL
=============================================================================
