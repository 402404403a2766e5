--------------------------- MODULE EvidencePackage ---------------------------
(***************************************************************************)
(* What the hash chains and the signed manifest are for.  The activity     *)
(* trail of one case lies on a disk, and packages made of it travel; rows  *)
(* and files may be lost, altered, brought back from an older copy or      *)
(* mixed up on the way.  The trail is verified by verify_activity          *)
(* (cases/store.py), a package by verify_evidence_package                  *)
(* (package/manifest.py).                                                  *)
(*                                                                         *)
(* The bytes of the reports, JSON and the key's encryption are left out: a *)
(* report is known by the package it was written for, and a manifest is as *)
(* large as its custody events make it.  ReportExport takes apart how a    *)
(* package is put together.                                                *)
(***************************************************************************)
EXTENDS EventChain, Sequences

CONSTANTS PackageIds,     \* package directories
          Reports,        \* artifacts of a package
          Keys,           \* the signing keys of laboratories
          Trusted,        \* the key whose fingerprint the reviewer was given
          Altered,        \* any content nobody wrote
          MaxCustody,     \* MAX_CUSTODY_EVENTS of the verifier
          MaxControl,     \* MAX_CONTROL_FILE_SIZE of the verifier
          FixedSize, EventSize,   \* of a manifest without events, and of an event
          MaxEvents,      \* bound: events ever written
          MaxDamage       \* bound: rows and files damaged

\* No such file.  No manifest and no envelope looks like it.
Absent == [absent |-> TRUE]

ASSUME PackageConstants ==
  /\ Trusted \in Keys /\ MaxEvents \in Nat /\ MaxDamage \in Nat
  /\ {MaxCustody, MaxControl, FixedSize, EventSize} \subseteq Nat
  /\ Altered \notin PackageIds /\ Absent \notin PackageIds \cup {Altered}

VARIABLES trail,          \* activity_events
          written,        \* history: event -> its row and the event it followed
          folders,        \* package -> its directory
          signing,        \* package -> the manifest being signed, and the key
          built,          \* history: manifests signed, each with its key
          damage          \* rows and files damaged so far

vars == <<trail, written, folders, signing, built, damage>>

-----------------------------------------------------------------------------
\* uuid4 keeps events apart; the rest of an event is as recorded or is not.
NewBody == [id |-> Len(written) + 1, intact |-> TRUE]

Contents == PackageIds \cup {Altered, Absent}

Without(table, key) == [k \in DOMAIN table \ {key} |-> table[k]]

Put(table, key, value) ==
  [k \in DOMAIN table \cup {key} |-> IF k = key THEN value ELSE table[k]]

Missing(p) == p \notin DOMAIN folders

-----------------------------------------------------------------------------
\* The program's own steps.

RecordActivity ==
  /\ Len(written) < MaxEvents
  /\ trail' = Appended(trail, NewBody)
  /\ written' = Append(written, [row |-> trail'[Latest(trail) + 1],
                                 after |-> IF DOMAIN trail = {} THEN 0
                                           ELSE trail[Latest(trail)].body.id])
  /\ UNCHANGED <<folders, signing, built, damage>>

\* _export_custody: a ledger of its own, which names the trail's hashes.
ExportCustody(chain) ==
  LedgerOf([s \in DOMAIN chain |-> [event |-> chain[s].body, source |-> chain[s].hash]])

\* CustodyLedger.verify, which build_evidence_package asks first.
LedgerValid(ledger) == Verified(ledger)

\* _inventory_artifact: the manifest keeps what each file holds.
Inventory(files) == [r \in Reports |-> files[r]]

\* Variant: the head is one event late.
ManifestLateHead(custody, files) ==
  [custody |-> custody, head |-> HashAt(custody, Length(custody) - 1),
   reports |-> Inventory(files)]

Manifest(custody, files) ==
  [custody |-> custody, head |-> HashAt(custody, Length(custody)),
   reports |-> Inventory(files)]

\* build_evidence_package over the reports of a workspace.  The export begins
\* with verify_activity; nothing asks whether the verifier will take as many
\* events, or as long a manifest.
WriteManifest(p, k) ==
  /\ Missing(p)
  /\ Verified(trail)
  /\ LET custody  == ExportCustody(trail)
         files    == [r \in Reports |-> p]
         manifest == Manifest(custody, files)
     IN  /\ LedgerValid(custody)
         /\ folders' = Put(folders, p, [manifest |-> manifest, envelope |-> Absent,
                                        files |-> files])
         /\ signing' = Put(signing, p, [manifest |-> manifest, key |-> k])
  /\ UNCHANGED <<trail, written, built, damage>>

\* The envelope holds the digest, the public key and the signature.
WriteEnvelope(p) ==
  /\ p \in DOMAIN signing
  /\ folders' = [folders EXCEPT ![p].envelope =
                   [digest |-> signing[p].manifest, key |-> signing[p].key,
                    signature |-> signing[p]]]
  /\ built' = built \cup {signing[p]}
  /\ signing' = Without(signing, p)
  /\ UNCHANGED <<trail, written, damage>>

\* The envelope cannot be written: the manifest is removed.
FailEnvelope(p) ==
  /\ p \in DOMAIN signing
  /\ folders' = [folders EXCEPT ![p].manifest = Absent]
  /\ signing' = Without(signing, p)
  /\ UNCHANGED <<trail, written, built, damage>>

Crash ==
  /\ DOMAIN signing # {}
  /\ signing' = <<>>
  /\ UNCHANGED <<trail, written, folders, built, damage>>

-----------------------------------------------------------------------------
\* verify_evidence_package

SignatureValid(f) ==
  /\ f.envelope.digest = f.manifest
  /\ f.envelope.signature = [manifest |-> f.manifest, key |-> f.envelope.key]

\* Variant: files that cannot be read are passed over.
ReportsMatchIfThere(f) ==
  \A r \in DOMAIN f.manifest.reports : f.files[r] \in {Absent, f.manifest.reports[r]}

ReportsMatch(f) ==
  \A r \in DOMAIN f.manifest.reports : f.files[r] = f.manifest.reports[r]

ManifestSize(m) == FixedSize + EventSize * Length(m.custody)

WithinLimits(m) == ManifestSize(m) <= MaxControl /\ Length(m.custody) <= MaxCustody

CustodyMatches(m) == Verified(m.custody) /\ m.head = HashAt(m.custody, Length(m.custody))

Accepted(f, trusted) ==
  /\ f.manifest # Absent /\ f.envelope # Absent
  /\ WithinLimits(f.manifest)
  /\ SignatureValid(f)
  /\ f.envelope.key = trusted
  /\ ReportsMatch(f)
  /\ CustodyMatches(f.manifest)

-----------------------------------------------------------------------------
\* Damage, outside the program.

Damage == damage < MaxDamage /\ damage' = damage + 1

DamageTrail(rows) ==
  /\ Damage
  /\ trail' = rows
  /\ UNCHANGED <<written, folders, signing, built>>

LoseEvent(s) == DamageTrail(Without(trail, s))

AlterEvent(s) == DamageTrail([trail EXCEPT ![s].body.intact = FALSE])

\* The number of a row changes to one that is free (UNIQUE in the table).
RenumberEvent(s, to) ==
  /\ to \notin DOMAIN trail
  /\ DamageTrail(Put(Without(trail, s), to, trail[s]))

\* A row comes back from an older copy of the database.
RestoreEvent(i) ==
  DamageTrail(Put(trail, written[i].row.hash.sequence, written[i].row))

DamageFolder(p, folder) ==
  /\ Damage
  /\ folders' = [folders EXCEPT ![p] = folder]
  /\ UNCHANGED <<trail, written, signing, built>>

ChangeReport(p, r, content) ==
  /\ folders[p].files[r] # content
  /\ DamageFolder(p, [folders[p] EXCEPT !.files[r] = content])

\* The last custody event is missing in the manifest.
ShortenManifest(p) ==
  /\ folders[p].manifest # Absent
  /\ Length(folders[p].manifest.custody) > 0
  /\ DamageFolder(p, [folders[p] EXCEPT !.manifest.custody =
                        Without(@, Length(@))])

TakeManifestOf(p, q) == DamageFolder(p, [folders[p] EXCEPT !.manifest = folders[q].manifest])

TakeEnvelopeOf(p, q) == DamageFolder(p, [folders[p] EXCEPT !.envelope = folders[q].envelope])

-----------------------------------------------------------------------------
Init ==
  /\ trail = <<>> /\ written = <<>> /\ folders = <<>> /\ signing = <<>>
  /\ built = {} /\ damage = 0

Program ==
  \/ RecordActivity
  \/ \E p \in PackageIds, k \in Keys : WriteManifest(p, k)
  \/ \E p \in PackageIds : WriteEnvelope(p) \/ FailEnvelope(p)
  \/ Crash

Disk ==
  \/ \E s \in DOMAIN trail : LoseEvent(s) \/ AlterEvent(s)
  \/ \E s \in DOMAIN trail, to \in 1 .. MaxEvents : RenumberEvent(s, to)
  \/ \E i \in DOMAIN written : RestoreEvent(i)

Carriage ==
  \/ \E p \in DOMAIN folders, r \in Reports, c \in Contents : ChangeReport(p, r, c)
  \/ \E p \in DOMAIN folders : ShortenManifest(p)
  \/ \E p, q \in DOMAIN folders : p # q /\ (TakeManifestOf(p, q) \/ TakeEnvelopeOf(p, q))

Next == Program \/ Disk \/ Carriage

Spec == Init /\ [][Next]_vars

-----------------------------------------------------------------------------
\* Properties.

\* A trail that verify_activity accepts holds nothing but rows as they were
\* written, and each was written right after the one that now precedes it:
\* whatever was lost, altered, renumbered or brought back, only a missing end
\* can go unnoticed.
AcceptedTrailAsWritten ==
  Verified(trail) =>
    \A s \in DOMAIN trail :
      LET past == written[trail[s].body.id]
      IN  /\ trail[s] = past.row
          /\ past.after = IF s = 1 THEN 0 ELSE trail[s - 1].body.id

\* A package that forenx-verify accepts with the laboratory's fingerprint is one
\* the laboratory signed, with every report as it was and a custody ledger of
\* events that were written to the trail
\* (docs/forensics/SIGNED_REPORTING.md:65).
AcceptedPackageAsBuilt ==
  \A p \in DOMAIN folders : Accepted(folders[p], Trusted) =>
    /\ [manifest |-> folders[p].manifest, key |-> Trusted] \in built
    /\ \E q \in PackageIds : \A r \in Reports :
         folders[p].files[r] = q /\ folders[p].manifest.reports[r] = q
    /\ \A s \in DOMAIN folders[p].manifest.custody :
         LET source == folders[p].manifest.custody[s].body
         IN  written[source.event.id].row.hash = source.source

\* As long as nothing was damaged, the trail is accepted at any moment, and a
\* package that was signed to the end is accepted exactly when it keeps the
\* verifier's limits: there is no other false alarm, and there is this one, for
\* a case that went on for too long (package/manifest.py:415 and :537, of which
\* build_evidence_package knows nothing).
UndamagedAccepted ==
  damage = 0 =>
    /\ Verified(trail)
    /\ \A p \in DOMAIN folders : folders[p].envelope # Absent =>
         (Accepted(folders[p], folders[p].envelope.key) <=> WithinLimits(folders[p].manifest))
=============================================================================
