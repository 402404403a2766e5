# ForenX: models, checks and proofs

ForenX (`src/src/forenx`) is a single-laboratory forensic video system: a FastAPI
server on SQLite that keeps accounts, cases, evidence files, recovered
recordings, supervised face analysis and signed report packages. Its promises
are about history: who could do what, on which approval, from which bytes. This
directory holds TLA+ modules of the parts where those promises depend on the
order of steps or on the edges of an algorithm, TLC configurations that check
them on small instances, and TLAPS proofs of the most important ones for every
instance.

Run inside this directory:

    tlasany CaseStore.tla
    tlc -workers 2 -config MCCaseApi.cfg MCCaseApi
    tlapm CaseStoreProofs.tla

## 1. Inventory

Paths are relative to `src/src/forenx`.

| Component | State | Operations | Modelled by |
|---|---|---|---|
| Accounts, sessions, throttling (`auth/store.py`, `auth/passwords.py`, `recovery.py` of the command line) | `users`, `sessions`, `auth_failures`, `auth_events` | bootstrap, create, authenticate, resolve, revoke one/all, change password, suspend/activate, reset, revoke a user's sessions, recover the administrator | `AuthStore` |
| Login challenges (`auth/store.py`, the login handlers) | `login_challenges` | issue, consume | `LoginGate` |
| Process and data directory (`runtime.py`, `server.py`, the setup handler) | the installation code file, one code per process | start, set up, be killed | `Installation`; with the login requests, `FrontDoor` |
| Case register (`cases/store.py`, `cases/domain.py`) | `cases`, `case_assignments`, `exhibits`, `activity_events` | create, assign, revoke, transition, add exhibit, record activity | `CaseStore`, abstractly `CaseLifecycle` |
| HTTP handlers of the case register (`api/app.py`) | one request per thread | current_user, authorize_case, check of the named account, the write | `CaseApi` |
| Evidence vault (`evidence/catalog.py`) | vault files, `evidence_sources` | ingest, register a derived file, verify | `EvidenceVault` |
| Recovery (`recovery/store.py`) | `recovery_scans`, `recovery_artifacts`, artifact files | scan, extract, verify, register | `EvidenceVault` |
| DVR adapters (`adapters/`) | none between calls | probe and choose, find the signature, parse the directory, extract | `ProbeChoice`, `SignatureSearch`, `HikbTree`; extraction in `EvidenceVault` |
| Bitstream validation (`video/annexb.py`) | none between calls | scan for NAL units, name the codec | `NalScan` |
| Media inspection and bookmarks (`video/`) | `media_inspections`, `media_bookmarks` | inspect, bookmark | `MediaExamination` |
| Face detector process (`biometrics/detection.py`, `detect_worker.py`) | none between calls | decode, detect, suppress overlapping boxes | the suppression, in `FaceSuppression` |
| Face analysis (`biometrics/`) | authorizations, detection runs with previews, tracking runs | authorize, detect, track | `BiometricGate`; the association of faces to tracks in `FaceTracking` |
| Signed reports (`reporting/service.py`, `package/keys.py`) | `report_packages`, archives, workspaces, the signing key | create a package | `ReportExport` |
| Custody ledger, package manifest and verifier (`custody/`, `package/`) | a package directory: reports, manifest with a hash chain, envelope | append, build, sign, verify | `EvidencePackage`, `EventChain` |
| Report rendering (`reporting/pdf.py`, `certificate.py`) | none | | not modelled |
| Browser interface (`ui/app.js`) | the client carries a version | | the version, in `CaseApi` |

**How they interact.** FastAPI serves each request in a thread of a pool. A
handler calls one store method after another: `current_user` (accounts),
`authorize_case` (case register), perhaps a check, the work, an activity event.
Each method is one SQLite transaction under the lock of its store's single
connection; nothing is held from one call to the next. Some tables re-check the
case, the caller or an authorization in a trigger when the row is inserted.
Files (evidence, artifacts, previews, archives, the signing key, the installation
code) are created exclusively and synced outside every transaction, before the
row that names them. There is no background task, no queue and no timer in the
server: a deadline takes effect when somebody compares a time with it, and a
retry is an operator's.

**What is hard, therefore.** What one call learnt is stale at the next one;
clocks are read before the write lock is queued for, so transactions see times
out of order; a file and its row are two writes with a crash, a refusal or
another request possible between them; a report reads six tables in six
transactions; approvals are taken back; rejected logins must commit their
counter while every other failure rolls back; a formatted disk, a stream or a
clip has layouts, windows and ties at which a search can stop short, report
twice or depend on an order. `PROJECT.json` lists each of these hazards at its
line with the properties aimed at it.

**What makes each component correct.**
- Accounts: an administrator remains; a session never outlives or outruns its
  account and password; the number of wrong guesses is bounded; nothing changes
  unaudited.
- Front door: one code and one first administrator, however many servers start;
  a challenge buys one guess; being full and a failed start are not for ever.
- Cases: the trail alone tells each case's status and who may see it; a case
  closes on its current approval; recorded history is never rewritten; the actor
  was entitled and knew the case; a change applies to what its author saw.
- Evidence and recovery: each row has its whole file; recovery lineage keeps its
  hashes; nothing is extracted or registered twice; failures clean up after themselves.
- Disk and stream: the first signature is found, the directory is read as it was
  written or refused, every unit is seen, no codec is taken for another, the
  choice of an adapter does not depend on the order they are registered in.
- Media: what the trail says of inspections and bookmarks is there; a bookmark lies
  inside the media.
- Face analysis: each stored analysis lies inside its authorization's window and
  rests on stored previews and runs; none is added to a closed case; each face is
  reported once and is in exactly one track, by its best link.
- Reports: a package is whole, carries the laboratory's one key and the trail
  that approves it.
- Trail and packages on disk: what a verifier accepts is what was written and
  signed, and what nobody touched is accepted as long as the verifier's own limits
  allow.

## 2. Modules

    CaseLifecycle <--implements-- CaseStore <--extends-- CaseApi
    EvidenceLineage <--implements-- EvidenceVault
    BiometricGate <--extends-- ReportExport
    Installation, LoginGate <--extends-- FrontDoor
    EventChain <--extends-- EvidencePackage
    Boxes <--extends-- FaceSuppression, FaceTracking
    AuthStore   MediaExamination
    SignatureSearch   HikbTree   NalScan   ProbeChoice

`MC*.tla` give the small instances. `MCStandalone` combines the machines that
share no state (`EvidencePackage`, `MediaExamination`, the disk and stream
algorithms, the two face algorithms): a behaviour picks one of them and the
others stay as they are; `StandaloneProofs` holds the proofs about all of them.
The other proofs about a module are in the module of its name with `Proofs`;
proofs about a module that extends another build on the other's.

### AuthStore
One action per public operation. Every operation is one `BEGIN IMMEDIATE`
transaction, so it is one step. A transaction that raises
`AuthenticationError` commits (`CheckRefused`: the failure row and its event
stay); any other exception rolls back and is a stuttering step, left out.
`users`, `sessions`, `failures` are the tables; `lastEvent` is the head of the
audit chain; `rejections` (when each rejected check committed) and the `epoch` of
a session (which password opened it) are history the properties need and no
guard reads. A caller's time `n` is any value of `Nows`, up to `MaxLag`
behind `clock`, because each handler reads the clock before it queues for the
lock. An unknown username still counts: it is throttled under its own name, as
one of `Accounts` without a row. A password check that passes, a reset and a recovery
move the account's failures to the `Shared` key (the empty `account_key`), where
only the laboratory's limit counts them. Which administrator acts is a
parameter that must be active when the transaction begins; the
self-suspension refusal and the last-administrator guard are both kept as the
code has them, though the first implies the second: an available actor other than
the target is itself the administrator who remains.

### LoginGate
`issued` is `login_challenges` with the time each has left: keeping times
relative to the clock lets the clock run for ever in a finite state space, which
the liveness property needs. `IssueLoginChallenge` deletes expired rows,
counts and inserts in one transaction; `ConsumeLoginChallenge` deletes the row
whatever the answer and compares only an unexpired one. The password check
behind it is a transaction of its own (`Finish`, `AuthStore`'s authenticate).
A request may name a challenge that was never issued or is used up. `guesses`
counts comparisons and is read by no guard.

### Installation, FrontDoor
`Installation` is the first start: a server without accounts creates the code
file exclusively, writes it and serves with it, or reads the code another launch
wrote; a file that is there and empty ends the start. A settled code is not yet a
server: the process then builds the stores that share the database ("building")
and binds its port (`Bind`), which ends the start when another server has it.
`ports` gives each launch the port it is configured for. `FailStart` is the
disk or the database failing at any of these steps, with the file left empty if it
was being written; `Kill` is a kill at any moment. A setup request checks
first and creates the administrator in a later transaction. `FrontDoor` puts these servers and the requests of
`LoginGate` on one database: every server issues and consumes the same
challenges, and a killed server takes its requests along, also between the two
transactions of a login.

### CaseLifecycle, CaseStore
`CaseLifecycle` is the promise: a case is at one of seven stages, advances
one at a time, is sent back one (an approved case two, to the examiner) and never
leaves the last. `CaseStore` is the code: rows with `status` and `version`,
assignment rows, exhibits and the trail, each method with its events in one
step. The guards (`CreateAccepted`, `AssignAccepted`, ...) collect the
reasons for which the method raises; a method that raises changes nothing. The
refinement mapping is `Stage`. The trail keeps the details of each event that
a property reads; its hash chain is the subject of `EventChain`.

### CaseApi
Each handler is cut into the calls it makes: `Receive` (the token resolves to
an active account), `AuthorizeCase`, `CheckAssignee` or `CheckRevokee`,
`Write` or `Refuse`. The handlers of the other stores enter by the events they
record (`Recorders`): which permission each asks for, and whether it records
once, or that it starts and how it ended, both after one authorization. A failed
call, of the register or the database, is `Refuse`, at any step. `seen` is the version and status the client read before
it sent the request; between any two steps other threads and `SetUserActive`
may run. A revocation may also fail the CHECK `revoked_at >= assigned_at`, since
both times are read before the lock: `Refuse` allows it. `Suspendable` and
`MaxGrants` only bound a run: who is ever suspended, and how many assignment
rows a case gets.

### EvidenceLineage, EvidenceVault
`EvidenceLineage` is the promise: a set of items that only grows, images, scans of
images, recordings of scans and evidence made of recordings, each with the image
it goes back to and the hash it must have. `EvidenceVault` is the code, and
`Items` maps its rows to items; files, requests, failures and crashes are
forgotten. After closing, the promise still allows uploads and registrations:
that is what the tables refuse and what they do not.

Files, rows and events apart. A job goes through begun, verified, writing,
written, stored; `CreateFile`, `FillFile`, `InsertSource/Scan/Artifact` and
`Report` are the steps of ingest, scan, extract and register; `AbandonFile`,
`RejectRow`, `FailInsert`, `GiveUp`, `FailReport` are the error paths with the
clean-up each of them really has; `Crash` ends all jobs and keeps files and rows.
The completion event is a write of its own to the activity trail: when it fails
(`FailReport`), the row stays without it. `missed` remembers which of the two
pairs of writes, file and row or row and event, something came between, and
`NothingLeftBehind` says what holds of the other.
Content stands for its hash: two files have the same hash exactly when their
content is the same value. `entitled` folds account status, role and assignment
into one set, because the recovery triggers ask for all three at once.
`Alter` changes a stored file behind the program's back.

### ProbeChoice, SignatureSearch, HikbTree
What happens to a disk image before anything is extracted. `ProbeChoice` asks
the adapters in the order they are registered, passes over those that fail, sorts
and decides. Confidences are in hundredths; the code subtracts binary
fractions, so at a lead of exactly the margin `Choose` allows both outcomes.
`SignatureSearch` is the windowed search over all bytes of an image, with the
number of bytes kept from one window to the next. `HikbTree` follows the page list
and parses pages in either of the two layouts (first slot at byte 80 or 96, here
one 16-byte cell apart), with the scoring, the tie rule and both limits. The image
is one sequence of cells that are recognized or not, a page pointer is an offset
in it, and a page is whatever follows a pointer: two pointers less than a page
apart give pages that overlap. An entry is known by its own offset, from which
its recording is named. `RecordingsListedOnce` says that an entry is
found twice only by such pointers; the code passes over equal pointers and no
others, so there it does find one twice. Header cells are
taken to hold no all-ones words. `formatted` and `written` remember which pages a
recorder wrote and what it put there, and `LaidOut` how: a header, one entry in
each slot, nothing behind the last. The parser reads neither.

### NalScan
The scan of `validate_annex_b_chunks` byte by byte, with the header byte read as
H.264 and as H.265. The code scans each extent of a recording on its own and
names the codec from all of them; a recording has one extent here.

### MediaExamination
Inspections and bookmarks by several threads. A handler decodes (and may time out
or fail), stores, and records its event; `SaveInspection` and
`ReadBack` of the latest row are two steps, as the store takes its lock twice. The event is written in another store after
the row: `FailCall` is a call that fails at any step, and ends `mediaCalm` when
a row stays without its event. What a decoder finds is a duration or none.

### Boxes, FaceSuppression, FaceTracking
`Boxes` is the overlap of two boxes as an exact fraction, in one dimension; the
code divides floating-point areas, which differs from it by rounding only.
`FaceSuppression` is `_nms` with its candidate and face limits.
`FaceTracking` links the faces of each frame to tracks, one candidate pair at a
time in the order the code sorts them.

### BiometricGate
One inspected video of one case. A handler finds the case open and the latest
active authorization (`Permit`), analyses (`Associate` or `FailAnalysis`),
reads the clock (`Stamp...`), writes the preview and inserts; the triggers
re-check window and case (`InsertAllowed`). `FailWrite` is any other database
error, of the insert or of the event after it: preview or row stay, and `calm` is
over. A detection run is known by the frame
it decoded; which runs a track links is any choice here, and the subject of
`FaceTracking`. The statuses before supervisor review are one status here, as
analysis treats them alike. Who may call is the subject of `CaseApi`.

### ReportExport
Extends `BiometricGate` with exports that overlap each other and the
analysis handlers. An export checks the status once, verifies the trail, opens a
workspace, loads or creates the key, reads trail, authorizations, detections and
tracks in four transactions, and writes archive and row. Failures clean up
(`CleanFailedExport`); `Kill` is a crash of the process, exports and handlers
together. A package is what it was read from; rendering and signing are left out.

### EventChain, EvidencePackage
`EventChain` is the chain algorithm that the activity trail and the custody
ledger share: a function from sequence numbers to events, `Appended`,
`Verified` and `LedgerOf`. A hash is represented by its payload, which contains
the previous hash; SHA-256 is taken to be collision-free. (`auth_events` uses
the same algorithm over the same fields, and is not modelled a second time.)
`EvidencePackage` puts it on a disk and on the road: the program's steps record
events and build packages (`WriteManifest`, `WriteEnvelope`, `FailEnvelope`,
`Crash`), the disk loses, alters, renumbers or brings back rows, and carriage
changes, shortens or mixes up the files of packages. `Accepted` is
`verify_evidence_package` with a fingerprint, and with the verifier's limits on
custody events and control files (`WithinLimits`; a manifest's size is taken to
be `FixedSize` and `EventSize` for each event). Neither `build_evidence_package`
nor the export looks at these limits, so a package may be signed that no verifier
accepts; `UndamagedAccepted` says that an untouched signed package is accepted
exactly when it is within them. At the sizes of real events the 16 MiB of the
manifest bind long before 100,000 events. `written` and `built` are history.
The export's reads are one step here; `ReportExport` takes them apart.

## 3. Runs

`CHECK_DEADLOCK FALSE` is used where bounds on versions, trails, identifiers or
time stop the model, or where an algorithm ends; the account runs and the front
door can always take a step and keep the deadlock check.

| Run | Question | Bounds and why they are enough |
|---|---|---|
| `auth_store` | Do accounts and sessions stay consistent through every account operation, is the budget kept, and is Retry-After exact? | A behaviour has one of two subjects (`Within`). *sessions*: two accounts and two sessions, since the guards look at the target, the actor and whether another administrator exists; `MaxEpoch` 2 lets each password be replaced twice, as a reset and the change it demands do, or a recovery; `Lifetime` 2, `Idle` 1, `MaxTime` 3, `MaxLag` 1 let a session idle out, expire and be read late; no rejected check. *throttle*: window 3, account limit 2, laboratory limit 3, four rejections between administrators who stay and keep their passwords, and one successful login that clears failures: both limits fill, together and alone, and the window slides past a failure. |
| `front_door` | Is there one code, one administrator and one guess per challenge, and do room and service come back? | Two launches, on one port or on two, and two operators: one makes the code while the other starts, one takes the port the other wants, either fails or is killed at any step, and both setups are past their check. `Outstanding` 1 fills the table at once; with two challenges and two requests, one expires or is consumed while the other is asked for. `Validity` 2, `MaxLag` 1: a reading can be late at the moment of expiry. |
| `case_api` | Are trail, table, lifecycle and actors one story, and what can two threads do to one case? | A behaviour plays one of two scenes (`SceneOf`). *life*: one request at a time by an administrator and an examiner, nobody suspended, nine versions, ten events: the six moves to closed and two more, so a case sent back from review can still close and an approved one that is sent back can be approved again; on shorter ways there is room for the examiner's grant; revocations are in the other scene. *races*: an administrator and a supervisor, both may be suspended, two threads, three versions, six events, every operation, and of the handlers that record the one that scans, which records twice (one that records once is to the case what `exhibit` is): a grant, a scan let through, the revocation and both events of the scan fit, so do grant, revocation and grant again, and every pair of handlers overlaps at every step. |
| `vault_races` | Do files, rows and lineage agree through races, failures, crashes and an altered file, and are the rows of all tables one history of items? | Two threads and four identifiers: a whole line from image to registered recording, or two requests for the same scan or the same recording; two registrations of one artifact would need a fifth and rest on the proof, which is for any number. One alteration, of any stored file at any moment, suffices: lineage compares the hashes of neighbours. |
| `biometric_gate` | Does each analysis stay inside its authorization and the case's life? | Two threads, authorizations and runs, one tracking run that must link both frames; one tick is enough for a window to end between any two steps; two moves approve and close. |
| `report_export` | Do exports stay whole and signed by one key? | Two exports and two packages, both may be the first to need the key; three moves approve, send back and approve again or close, at any point of an export. |
| `standalone` | What do the verifiers vouch for, is the media accounted for, and are the algorithms right at their edges? | See below. |

`standalone` starts each machine on all its small inputs:
- packages: four events, of which a manifest may hold two before the verifier's
  limit on its size refuses it and three before the limit on events does; two
  damages, so that a trail can be cut, continued and spliced with a row of its
  older self; two packages and two keys, so that every file of one can end up in
  the other;
- media: two threads and three rows, so that two inspections overlap in either
  order of their times, with a bookmark beside them, and any call fails;
- signature `<<1,1,2>>`, which overlaps itself, in every image of up to eight
  bytes of two values, with windows of 3, 4 and 7 bytes and limits that cut it
  off, touch it or lie behind it: up to three windows;
- directories: one page with up to three entries of every kind in either layout;
  page lists of up to three pointers (repeated, outside, empty) to two pages in
  different layouts and to a third that begins in the middle of the first and ends
  in the second, with the page and entry limits reached and not;
- streams: every block of up to seven bytes of 0, 1 and an SPS header, and up to
  four units of twelve headers that mean something to either codec;
- clips: three frames with up to two faces at four places, near and far in time and
  at equal times; crowds of up to four boxes with two scores, more than both limits;
- probes: three adapters in every order, that fail or answer below, at and above
  the minimum and closer than, at and beyond the margin.

Five runs show a disagreement between code and text. Each checks one property
and TLC finds the counterexample.

| Run | The text | What the code does |
|---|---|---|
| `case_assign_suspended` | `api/app.py:611` "Inactive users cannot be assigned to cases" | The account is read in one store and assigned in another; a suspension in between is not seen. |
| `vault_closed` | `docs/forensics/RECOVERY_WORKFLOW.md:24-25` "Database triggers also reject recovery writes outside an active case" | Registering a recovered stream inserts into `evidence_sources`, which has no such trigger. |
| `report_authorization` | `docs/forensics/SIGNED_REPORTING.md:31` reports include the authorization when detection exists | Authorizations are listed before detections; one granted and used in between is missing. |
| `media_trail` | `docs/forensics/VIDEO_EXAMINATION.md:16` "Inspection and bookmark events remain present in the case activity hash chain" | `save_inspection` answers with the latest inspection, not with the one it stored: of two that overlap, both events name the later row, and the other has none. |
| `tree_layouts` | `docs/forensics/HIKVISION_FORMAT_NOTES.md:37` "Conflicting 80/96-byte layouts fail instead of selecting one heuristically" | So it is when both layouts recognize equally many entries of a page; otherwise the parser takes the better one. |

**Fairness.** Only `front_door` has liveness properties, and its specification
assumes two things: the wall clock goes on (`Passing`), which no
code can stop, and a launch that can take its next start-up step takes it, which
is a program running and an operator who follows the message "retry startup" when
it ends. Nobody is obliged to log in, to set up, to fail or to be killed. Under this,
`RoomReturns` says that a full table of challenges empties by expiry alone, and
`RetryServes` that once a launch is starting, it or another server comes to serve on
its port. It has two exceptions: processes are killed, or stopped by failing
disks and databases, again and again for ever; or the writer of the code file was
stopped in one of these ways after creating and before writing it, and the file
stays empty. Two launches on one port never both serve, however often they are
retried; finding the port or an unwritten file in the way ends a start, and is no
exception. The other
components have nothing that is obliged to act: requests end when their client
or an exception ends them, and no document promises that something eventually
happens; their specifications state no fairness.

**Properties of several parts.** Some properties are conjunctions with one name,
because one sentence of the documents promises both: `FilesMatchRows` (rows have
whole files; a file without a row and a row without an event have each their cause), `PreviewsMatchRuns`,
`ExportsWholeOrNothing`, `TrailActorsAllowed` (entitled, and knew the case),
`MediaAccounted`, `UnitsRecognized`, `TracksAssociated`, `DirectoryRead`.

**State-space reductions.** Symmetry is used over identifiers, threads, tokens and, in `report_export`,
keys, which the specifications only compare for equality; `front_door` uses none, as it
checks liveness. Over accounts it is sound
because Init gives every account the same (no) row. `WithoutAudit` drops
`lastEvent`, which no action reads and which the action property reads in the
step itself. `GateView` drops what no later step or property can tell
apart: arguments of a request whose row is stored, the content of an orphaned
preview, and the reported rows once `calm` is over; `VaultView` the reported rows of the
vault once an event was missed.

**The mutants.** Beside some definitions stands a `Variant`: the same operation
with a plausible mistake (a forgotten condition, an early hash, a revocation of
too little, a loop that stops early). Each property is violated when one of them
takes the place of the definition, so each would notice that mistake in the code.

**Met on the way** and left as notes, because no stated promise is broken, or the
promise is loosely worded:
- An export that fails after creating the key leaves the key behind, so it is not
  the "first successful export" that creates it; the tracks of a report may name
  detection runs stored after those were listed.
- An activity event is written in a transaction of its own after the row it tells
  of: a database error or a crash between the two leaves the row outside the
  activity chain. An `OperationalError` while inserting a detection run
  leaves its preview and a `STARTED` event without an end; a client that
  disconnects during an upload leaves `EVIDENCE_INGEST_STARTED` without an end.
- "Installation code file is invalid; retry startup" (`runtime.py`) helps while
  another launch is writing, and never after one was stopped between creating the
  file and writing it. `RetryServes` excepts exactly that.
- The export and `build_evidence_package` sign packages beyond the limits of their
  own verifier (`package/manifest.py:415`, `:537`): a case with a long enough trail gets
  a package that is refused.
- An entry that two overlapping directory pages list comes out as two recordings
  with one identifier. A scan stores both in its result; only the first of them is
  extracted, by the unique constraint on scan and recording.
- The directory parser refuses a disk that holds exactly `MAX_ENTRIES` entries when
  another slot fits behind them, although the limit is not exceeded.

## 4. Proofs

For any sets of accounts, tokens, cases, users, threads, files, packages and keys
and any values of the limits:

| Theorem | Statement | Argument |
|---|---|---|
| `AuthStoreProofs!TypeCorrect` | `Spec => []TypeOK` | `TypeOK` is inductive; one lemma each for refused and passed checks. |
| `AdministratorStaysAvailable` | `Spec => []AdminAvailable` | Inductive with `TypeOK`. Each step that may lose an administrator either keeps an untouched one (`MayLose` gives a second, by cardinality) or creates one. |
| `SessionsStayCurrent` | `Spec => []SessionsFollowCredential` | Inductive with `TypeOK`: a step that changes an account's password or activity revokes its sessions in the same step, every other step leaves password and activity alone. |
| `GuessesStayWithinBudget` | `Spec => []GuessBudget` | `GuessBudget` alone is not inductive: it counts commits, the code counts time stamps. `BudgetInv` adds that the table never exceeds the limit, that stamps lag commits by at most `MaxLag`, and that no failure recent by the commit clock was pruned. Every step keeps, prunes or extends the table. |
| `DeadSessionsStayDead` | `Spec => SessionsNeverRevive` | Every step is of one of six kinds (`Effect`). By `SessionsFollowCredential` a session that is over is revoked or out of time; the only step that moves a deadline, a resolve, needs the session alive for a clock reading at most `MaxLag` behind. |
| `ChangesAlwaysAudited` | `Spec => ChangesAudited` | The same six kinds: each that changes an account, a session or the table of failures names the event it appends. |
| `RetryHintsAreHonest` | `Spec => []RetryHintHonest` | `HintInv`: no account has more rows than its limit, so when a limit holds, it is the oldest counted failure that ends it, and the hint is the later of the two ends. |
| `FrontDoorProofs!ChallengesBuyOneGuess` | `FrontSpec => []OneGuessPerChallenge` | `LoginInv`: a challenge that is outstanding was compared with nothing, and one that admitted a request is gone from the table, so a token is not issued anew while a request holds it. |
| `OneCodeOneAdministrator` | `FrontSpec => []OneInstallation` | `InstallInv`: a launch that is writing is the only one, and the file is still empty; a launch that builds its stores or serves with a code does so with the file's. The transaction that makes an owner counts the owners again. |
| `CaseStoreProofs!TypeCorrect` | `Spec => []TypeOK` | One lemma per operation. |
| `TrailAlwaysTellsStatus` | `Spec => []TrailTellsStatus` | `WalkInv` adds that a case without a row has an empty trail. A status change extends the walk by one step from the row's status; every other event leaves the set of changes alone. |
| `ClosingRestsOnApproval` | `Spec => []ClosedOnCurrentApproval` | The property only speaks of closed cases. `ApprovalInv` says of every status what the trail must hold: an approved or closed case has its submission to the supervisor behind the last return to the examiner, and its approval behind that submission. |
| `TrailAlwaysTellsAccess` | `Spec => []TrailTellsAccess` | `AccessInv` says it with witnesses instead of counts: of every row one place that grants it and, if revoked, one later place that revokes it (`RowTold`). A grant mentions only the new row, a revocation only the open row it closes, every other event mentions none. |
| `HistoryAlwaysGrows` | `Spec => HistoryOnlyGrows` | Each operation appends to a trail, to the assignments or to a row's version; nothing else is written. |
| `RegisterImplementsLifecycle` | `Spec => ImplementsLifecycle` | `WalkInv`'s type part, then each step of the register is `Open`, `Advance`, `SendBack` or a stutter under `Stage`. |
| `CaseApiProofs!ActorsAlwaysAllowed` | `ApiSpec => []TrailActorsAllowed` | What is true when a handler checks must still count when it writes. `ApiInv` keeps with every request what its checks learnt (`RequestsOK`), that a trail begins with the creation and the creator's grant (`TrailsBegun`), and that every assignment row has its grant event (`GrantsRecorded`): a trail only grows, so a grant that was there stays there. |
| `ChangesApplyToWhatWasSeen` | `ApiSpec => ChangesWhatWasSeen` | `RequestsOK` says of every request that its `seen` version, if it is the case's version still, came with the case's status; a status never changes without its version. |
| `LateWritesAreBounded` | `ApiSpec => []LateWritesBounded` | `LateInv` adds that whoever was revoked last has no access. Then no step lets a request of that user through `authorize_case`, and each write of one takes an event from those still to come: what was written late and what is to come, counted twice for a request that has not begun recording, never grow together. The thread that revokes is none of them, so at the revocation the sum is at most two for each other thread. |
| `HandlersTellAccess`, `HandlersTellStatus`, `HandlersGrowHistory`, `HandlersImplementLifecycle` | the register's properties and its refinement, of `ApiSpec` | Every write of a handler is one operation of the register (`HandlersOperate`), whatever the other threads did since its checks; the register's own lemmas do the rest. |
| `EvidenceVaultProofs!FilesAlwaysMatchRows` | `Spec => []FilesMatchRows` | `VaultInv`: the rows' files are whole and no request's (`RowsOK`, `NamesApart`), a request's step tells how far its file is (`JobsOK`). Each of the two pairs of writes has a conjunct of its own under its part of `missed`: only `FailInsert` of a source and `Crash` leave a file without a row, only `FailReport` and `Crash` a row without an event. A step disturbs no row, no row's file and no other request. |
| `NothingTwice` | `Spec => []AtMostOnce` | A conjunct of `VaultInv` that only the inserts touch; each refuses what is already there. |
| `LineageAlwaysHolds` | `Spec => []LineageHolds` | `RowsOK` relates the recorded hashes of neighbours, `JobsOK` says which recorded hash a request's file was compared with, and that an extracted file differs from it only where the image is altered. |
| `VaultImplementsLineage` | `Spec => ImplementsLineage` | With `VaultInv` and `TablesApart` (a row is in one table) each insert is one step of `EvidenceLineage`: `JobsOK` gives the item it is made from and the hash it carries, the unique constraints and triggers the guards. Every other step leaves the items alone. |
| `BiometricGateProofs!AnalysesAlwaysInsideWindow` | `Spec => []AnalysesInsideWindow` | `GateInv` ties a request's time stamp to the window of the authorization it was permitted by; the insert re-checks it. |
| `PreviewsAlwaysMatchRuns`, `TracksAlwaysRestOnRuns` | `Spec => []PreviewsMatchRuns`, `Spec => []TracksRestOnRuns` | `GateInv`'s `RowsOK`, `JobsOK`, `IdsApart`: identifiers of rows and of requests are apart, so a clean-up removes its own preview; stored runs are never removed. |
| `ClosedCaseGetsNothing` | `Spec => NothingAfterClosing` | The triggers of the three inserts look at the case again; no other step adds a row. |
| `ReportExportProofs!OneKeySignsAll` | `ExportSpec => []OneFingerprint` | `ExportInv`'s `KeyOK`: one export at a time writes the key, and every signed export and every package carries the key on file. |
| `ExportsAlwaysWhole` | `ExportSpec => []ExportsWholeOrNothing` | `FilesOK` and `ExportShape`: archive and workspace of an export belong to it alone until the row is stored; while the key file is partial its writer holds the lock. |
| `LedgersShowApproval` | `ExportSpec => []LedgerShowsApproval` | `ApprovalOK`, `LedgersOK`: an approval once made stays in the trail, whatever the case does next, and each copy of the trail is a prefix of it that reaches as far as was verified. |
| `StandaloneProofs!SearchCorrect` | `SearchSpec => []FirstSignatureFound` | `LoopInv`: no signature ends before `position`, and the kept bytes are the last ones before it, one fewer than a signature has. |
| `AcceptedTrail`, `AcceptedPackage`, `UndamagedIsAccepted` | `Spec => []AcceptedTrailAsWritten` and the other two | `PackageInv`: every row the disk holds, wherever it was moved, is a written one or one that was altered and keeps its hash (`TrailKnown`); every manifest a signature stands for was made from rows that were written (`SignedOK`). That a ledger of events with hashes of hashes verifies, and that equal hashes mean equal histories, is by induction on the place in the chain. An untouched package is shown to pass every check but the limits, which is why it is accepted exactly within them. |
| `DirectoryIsRead` | `TreeSpec => []DirectoryRead` | `TreeInv` describes `entries` as the written pages put one behind the other. The heart is a lemma about the scoring: the layout a page was written in recognizes at least as much as the other, so a page with one better layout is read in the right one, for pages of any length. That an entry found twice lies on two overlapping pages follows from what `TreeInv` says of each entry: it lies in the page it was read of, and a page is read once. |
| `BlockRecognized` | `NalSpec => []UnitsRecognized` | `NalInv`: every unit before the place of the scan is observed or lies over an observed header. The codec's half is arithmetic on header bytes. |
| `TracksAreAssociated` | `TrackSpec => []TracksAssociated` | `TrackInv`: beside the split into tracks it says of each pair passed over in this frame that it is still open or that a link as good was made (`LinksInv`); `LinkBest` takes the best open pair, so whatever it closes it closes by a link as good. |
| `FacesReportedOnce` | `SuppressSpec => []OneBoxForEachFace` | `SuppressInv`: each box is waiting, selected, beyond the limit or the face of a more certain selected one; those waiting come after those selected. |
| `ChoiceIsOfTheLeader` | `ProbeSpec => []ChoiceOfTheLeader` | `ProbeInv`: each adapter is still to be asked, failed, or has exactly one result; a sorted rearrangement of the results has the candidates in front. |
| `MediaIsAccounted` | `MediaSpec => []MediaAccounted` | `MediaInv`: what a request is about to record is stored, one request at most is about to record a bookmark, and the latest inspection is named or about to be unless one is being read back; all of this until a process dies or a call fails right after its row. What is said of events without that condition, that they name stored rows, is kept by every step. |

The composition is proved, not assumed: `FrontInv` is the conjunction of the
invariants of its two parts and kept by their joint steps, `ExportInv` contains
`GateInv` and is kept by analysis steps beside exports, and `ApiInv` is kept by
the register's steps as the handlers take them.

The theorems rest on the named assumptions of the modules only (`AuthRoles`,
`AuthShared`, `AuthLimits`, `AuthBounds`, `AuthNulls`, `CaseBounds`, `CaseNulls`,
`OtherActionsApart`, `ApiBounds`, `ApiThreads`, `RolesKnown`, `RecordersKnown`, `VaultConstants`,
`GateConstants`, `InstallationConstants`, `ExportConstants`, `PackageConstants`,
`SearchConstants`, `TreeConstants`, `StreamConstants`, `TrackConstants`,
`SuppressionConstants`, `ProbeConstants`, `MediaConstants`, `MediaNulls`,
`IdleIsNoJob`, `IdleIsNoExport`): limits are natural numbers, sets that are
counted are finite, null values are no values, and values of one purpose are not
values of another (an identifier of a file and of a row, a key and a broken key).
TLC evaluates all of them in the runs.

Every invariant and every action property of the passing runs is stated by one of
these theorems. Checked by TLC only: `RoomReturns` and `RetryServes`, as liveness
under fairness is out of the prover's reach.

A chain's hashes and the greatest number of entries in a row are defined by
recursion or by a choice. The library's induction theorems cannot be instantiated
here, but that a set of natural numbers has a least element can be cited without
an operator parameter (`FS_StrictSubsetOrderingWellFounded` with `WFMin`, in
`SmallestOf` and `LargestOf`): where a proof
needs induction it takes the smallest place at which the statement fails.

## 5. Not modelled

- Report rendering (`reporting/pdf.py`, `certificate.py`) and response models:
  layout and wording, pure functions of what a package was read from.
- Decoding of frames and media, the neural network and its output: numeric and
  without state; the outcomes they can have are choices of `BiometricGate` and
  `MediaExamination`.
- Master sector fields, timestamps and how an adapter arrives at its confidence:
  reading of bytes at fixed places.
- Parsing and formatting, read-only handlers, cookies, directories and permissions,
  the command line, the browser: no state that another component relies on.
- Cryptography: a hash is its content, a signature its key and what was signed;
  a token is a value nobody else has.

## 6. Plan

Done: `AuthStore`; `CaseLifecycle`, `CaseStore`; `CaseApi`; `EvidenceLineage`,
`EvidenceVault`; `BiometricGate`; `ReportExport`; `EventChain`,
`EvidencePackage`; `LoginGate`, `Installation`, `FrontDoor`;
`MediaExamination`; `ProbeChoice`, `SignatureSearch`, `HikbTree`, `NalScan`; `FaceSuppression`, `FaceTracking`; the
proofs of section 4.

Left, in this order:

1. The safety half of `RoomReturns` and `RetryServes`: who can hold a challenge or
   the empty code file, as invariants a liveness argument would start from.
2. Several extents of one recording, through `SignatureSearch`, `HikbTree` and
   `NalScan` in one module.
