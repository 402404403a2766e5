----------------------------- MODULE ReportExport -----------------------------
(***************************************************************************)
(* Signed report packages (reporting/service.py, package/keys.py) made     *)
(* while the analysis handlers of BiometricGate go on working.             *)
(*                                                                         *)
(* An export reads the case, then the activity trail, then one table after *)
(* another, each in a transaction of its own; it writes a workspace        *)
(* directory, the laboratory's signing key if there is none, an archive,   *)
(* and at last the report_packages row.                                    *)
(*                                                                         *)
(* A package is known by what it was read from; rendering, hashing and     *)
(* signing of the documents are left out.                                  *)
(***************************************************************************)
EXTENDS BiometricGate

CONSTANTS Exporters,      \* threads serving report requests
          PackageIds,     \* UUIDs
          Keys,           \* Ed25519 keys, and their fingerprints
          NoKey           \* the key file does not exist

ASSUME ExportConstants ==
  /\ NoId \notin PackageIds \cup Keys
  /\ NoKey # "partial" /\ {NoKey, "partial"} \cap Keys = {}

VARIABLES keyFile,        \* laboratory-ed25519.pem
          workspaces,     \* package directories
          archives,       \* archive files: package -> how much is there
          packages,       \* report_packages
          export          \* the export each exporter is working on

exportVars == <<keyFile, workspaces, archives, packages, export>>
vars == <<gateVars, exportVars>>

-----------------------------------------------------------------------------
\* What a package is made from.
Bodies == [key : Keys \cup {NoId}, verified : Nat, trail : Seq(Statuses),
           auths : SUBSET AuthIds, runs : SUBSET RunIds, tracks : SUBSET TrackIds]

Blank == [key |-> NoId, verified |-> 0, trail |-> <<>>,
          auths |-> {}, runs |-> {}, tracks |-> {}]

ExportSteps == {"begun", "opened", "keying", "signed", "trail", "authorizations",
                "detections", "read", "archiving", "archived"}

ASSUME IdleIsNoExport ==
  Idle \notin [step : ExportSteps, id : PackageIds \cup {NoId}, body : Bodies]

Exporting == {e \in Exporters : export[e] # Idle}

In(e, step) == e \in Exporting /\ export[e].step = step

Workplaces == {export[e].id : e \in Exporting}

Step(e, step, body) ==
  export' = [export EXCEPT ![e] = [step |-> step, id |-> @.id, body |-> body]]

-----------------------------------------------------------------------------
\* The case is read once, when the export begins.

\* Variant: any case can be reported.
BeginExportUnapproved(e) ==
  /\ export[e] = Idle
  /\ export' = [export EXCEPT ![e] = [step |-> "begun", id |-> NoId, body |-> Blank]]
  /\ UNCHANGED <<gateVars, keyFile, workspaces, archives, packages>>

BeginExport(e) ==
  /\ export[e] = Idle
  /\ status \in {"approved", "closed"}
  /\ export' = [export EXCEPT ![e] = [step |-> "begun", id |-> NoId, body |-> Blank]]
  /\ UNCHANGED <<gateVars, keyFile, workspaces, archives, packages>>

\* verify_activity, verification of the source, and mkdir under a fresh name.
OpenWorkspace(e) ==
  /\ In(e, "begun")
  /\ \E p \in PackageIds \ (DOMAIN packages \cup workspaces) :
       /\ workspaces' = workspaces \cup {p}
       /\ export' = [export EXCEPT ![e] =
            [step |-> "opened", id |-> p,
             body |-> [export[e].body EXCEPT !.verified = Len(moves)]]]
  /\ UNCHANGED <<gateVars, keyFile, archives, packages>>

\* Trail or evidence fail verification, before anything is written.
FailVerification(e) ==
  /\ In(e, "begun")
  /\ export' = [export EXCEPT ![e] = Idle]
  /\ UNCHANGED <<gateVars, keyFile, workspaces, archives, packages>>

-----------------------------------------------------------------------------
\* The signing key, under the service's lock.

LockFree == \A e \in Exporters : ~In(e, "keying")

LoadKey(e) ==
  /\ In(e, "opened") /\ LockFree /\ keyFile \in Keys
  /\ Step(e, "signed", [export[e].body EXCEPT !.key = keyFile])
  /\ UNCHANGED <<gateVars, keyFile, workspaces, archives, packages>>

CreateKeyFile(e) ==
  /\ In(e, "opened") /\ LockFree /\ keyFile = NoKey
  /\ keyFile' = "partial"
  /\ Step(e, "keying", export[e].body)
  /\ UNCHANGED <<gateVars, workspaces, archives, packages>>

WriteKeyFile(e) ==
  /\ In(e, "keying")
  /\ \E k \in Keys :
       /\ keyFile' = k
       /\ Step(e, "signed", [export[e].body EXCEPT !.key = k])
  /\ UNCHANGED <<gateVars, workspaces, archives, packages>>

-----------------------------------------------------------------------------
\* What goes into the package, table by table.

ReadTrail(e) ==
  /\ In(e, "signed")
  /\ Step(e, "trail", [export[e].body EXCEPT !.trail = moves])
  /\ UNCHANGED <<gateVars, keyFile, workspaces, archives, packages>>

ReadAuthorizations(e) ==
  /\ In(e, "trail")
  /\ Step(e, "authorizations", [export[e].body EXCEPT !.auths = DOMAIN auths])
  /\ UNCHANGED <<gateVars, keyFile, workspaces, archives, packages>>

ReadDetections(e) ==
  /\ In(e, "authorizations")
  /\ Step(e, "detections", [export[e].body EXCEPT !.runs = DOMAIN runs])
  /\ UNCHANGED <<gateVars, keyFile, workspaces, archives, packages>>

ReadTracks(e) ==
  /\ In(e, "detections")
  /\ Step(e, "read", [export[e].body EXCEPT !.tracks = DOMAIN tracks])
  /\ UNCHANGED <<gateVars, keyFile, workspaces, archives, packages>>

\* Previews are copied, documents rendered and signed, the archive begun.
CreateArchive(e) ==
  /\ In(e, "read")
  /\ \A r \in export[e].body.runs : r \in DOMAIN previews /\ previews[r] = "whole"
  /\ archives' = Extend(archives, export[e].id, "partial")
  /\ Step(e, "archiving", export[e].body)
  /\ UNCHANGED <<gateVars, keyFile, workspaces, packages>>

SealArchive(e) ==
  /\ In(e, "archiving")
  /\ archives' = [archives EXCEPT ![export[e].id] = "whole"]
  /\ Step(e, "archived", export[e].body)
  /\ UNCHANGED <<gateVars, keyFile, workspaces, packages>>

\* Variant: the row is inserted before the archive is finished.
InsertPackageEarly(e) ==
  /\ In(e, "archiving") \/ In(e, "archived")
  /\ packages' = Extend(packages, export[e].id, export[e].body)
  /\ export' = [export EXCEPT ![e] = Idle]
  /\ UNCHANGED <<gateVars, keyFile, workspaces, archives>>

InsertPackage(e) ==
  /\ In(e, "archived")
  /\ packages' = Extend(packages, export[e].id, export[e].body)
  /\ export' = [export EXCEPT ![e] = Idle]
  /\ UNCHANGED <<gateVars, keyFile, workspaces, archives>>

-----------------------------------------------------------------------------
\* Failure: a wrong password or unreadable key, a preview that does not verify,
\* a full disk, a refused row.  What the export wrote is removed, but for the key.

Failing == {"opened", "keying", "signed", "trail", "authorizations", "detections",
            "read", "archiving", "archived"}

\* Variant: a failed export takes the key with it.
CleanFailedExportAndKey(e) ==
  /\ \E s \in Failing : In(e, s)
  /\ keyFile' = IF LockFree THEN NoKey ELSE keyFile
  /\ workspaces' = workspaces \ {export[e].id}
  /\ archives' = Without(archives, export[e].id)
  /\ export' = [export EXCEPT ![e] = Idle]
  /\ UNCHANGED <<gateVars, packages>>

CleanFailedExport(e) ==
  /\ \E s \in Failing : In(e, s)
  /\ keyFile' = IF In(e, "keying") THEN NoKey ELSE keyFile
  /\ workspaces' = workspaces \ {export[e].id}
  /\ archives' = Without(archives, export[e].id)
  /\ export' = [export EXCEPT ![e] = Idle]
  /\ UNCHANGED <<gateVars, packages>>

Kill ==
  /\ Busy # {} \/ Exporting # {}
  /\ job' = [t \in Threads |-> Idle]
  /\ export' = [e \in Exporters |-> Idle]
  /\ calm' = FALSE
  /\ UNCHANGED <<clock, moves, tables, previews, bound, keyFile, workspaces,
                 archives, packages>>

-----------------------------------------------------------------------------
ExportInit ==
  /\ Init
  /\ keyFile = NoKey /\ workspaces = {} /\ archives = NoRows /\ packages = NoRows
  /\ export = [e \in Exporters |-> Idle]

Export(e) ==
  \/ BeginExport(e) \/ OpenWorkspace(e) \/ FailVerification(e)
  \/ LoadKey(e) \/ CreateKeyFile(e) \/ WriteKeyFile(e)
  \/ ReadTrail(e) \/ ReadAuthorizations(e) \/ ReadDetections(e) \/ ReadTracks(e)
  \/ CreateArchive(e) \/ SealArchive(e) \/ InsertPackage(e) \/ CleanFailedExport(e)

ExportNext ==
  \/ \E e \in Exporters : Export(e)
  \/ (Handle \/ Around) /\ UNCHANGED exportVars
  \/ Kill

ExportSpec == ExportInit /\ [][ExportNext]_vars

-----------------------------------------------------------------------------
\* Properties.

\* Whatever failed or crashed in between, every listed package has its whole
\* archive (synced before the row, and removed only by the export that made it).
PackagesWhole == \A p \in DOMAIN packages : p \in DOMAIN archives /\ archives[p] = "whole"

\* One laboratory, one key: however first exports overlap, fail or crash, all
\* packages ever made carry the fingerprint of the key on file ("which keeps one
\* stable public-key fingerprint", docs/forensics/SIGNED_REPORTING.md:50).
OneFingerprint == \A p \in DOMAIN packages : packages[p].key = keyFile

\* Without a crash a finished export leaves a package or nothing, and the key
\* file is whole unless an export is writing it: no later export finds an
\* unusable key (_clean_failed_export, _write_exclusive).
FailedExportsLeaveNothing ==
  calm => /\ workspaces \subseteq DOMAIN packages \cup Workplaces
          /\ DOMAIN archives \subseteq DOMAIN packages \cup Workplaces
          /\ keyFile = "partial" => ~LockFree

\* An export is all there or not there.
ExportsWholeOrNothing == PackagesWhole /\ FailedExportsLeaveNothing

\* The ledger inside each package shows an approval and covers all that
\* verify_activity vouched for, though the case may move on between the check of
\* its status, the verification and the reading of the trail.
LedgerShowsApproval ==
  \A p \in DOMAIN packages :
    LET ledger == packages[p].trail
    IN  /\ packages[p].verified <= Len(ledger)
        /\ \E i \in 1 .. packages[p].verified : ledger[i] = "approved"
        /\ ledger = SubSeq(moves, 1, Len(ledger))

\* "When controlled face detection exists, the JSON and PDF include the
\* authorization" (docs/forensics/SIGNED_REPORTING.md:31).
DetectionsWithAuthorization ==
  \A p \in DOMAIN packages : \A r \in packages[p].runs :
    runs[r].auth \in packages[p].auths
=============================================================================
