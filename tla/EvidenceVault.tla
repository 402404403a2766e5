--------------------------- MODULE EvidenceVault ---------------------------
(***************************************************************************)
(* Evidence of one case: uploads into the evidence vault                   *)
(* (evidence/catalog.py), probing and extraction of disk images            *)
(* (recovery/store.py), and registration of an extracted recording as      *)
(* evidence of its own, each run by an HTTP handler (api/app.py).          *)
(*                                                                         *)
(* A stored item is a file in a vault and a row in the database, written   *)
(* one after the other, so that handlers, a crash or a failing disk can    *)
(* come between them.  Handlers check the case and the caller when they    *)
(* begin and may finish much later; some tables check again in a trigger.  *)
(*                                                                         *)
(* A file's content stands for its bytes and for their SHA-256.            *)
(***************************************************************************)
EXTENDS Integers

CONSTANTS Users,
          Threads,        \* handler threads
          Ids,            \* the UUIDs of sources, scans and artifacts
          Recordings,     \* what an adapter finds on the disk image
          Original,       \* the bytes as uploaded or extracted
          Altered,        \* any other bytes
          Partial,        \* a file still being written
          Idle,           \* a thread without a request
          NoId,           \* NULL
          MaxAlterations  \* bound: files that change behind the program's back

ASSUME VaultConstants ==
  /\ Original # Altered /\ Partial \notin {Original, Altered}
  /\ NoId \notin Ids
  /\ MaxAlterations \in Nat

VARIABLES closed,         \* the case's status is closed
          entitled,       \* active users who are assigned or administrators
          files,          \* both vault directories: identifier -> content
          sources,        \* evidence_sources
          scans,          \* recovery_scans
          artifacts,      \* recovery_artifacts
          reported,       \* rows whose *_COMPLETED or *_REGISTERED event is written
          job,            \* the request each thread is serving
          missed,         \* which second writes a failure may have cut off
          alterations     \* how many files have been altered

caseState == <<closed, entitled>>
tables == <<sources, scans, artifacts>>
vars == <<closed, entitled, files, sources, scans, artifacts, reported, job,
          missed, alterations>>

-----------------------------------------------------------------------------
Contents == {Original, Altered}

Raw == "raw-disk-image"
Video == "video-file"

\* The handlers: what each one works on, and the rows it adds.
Ops == {"ingest", "scan", "extract", "register"}

Steps == {"begun", "verified", "writing", "written", "stored"}

Jobs == [op : Ops, user : Users, of : Ids \cup {NoId}, rec : Recordings \cup {NoId},
         name : Ids \cup {NoId}, sha : Contents \cup {Partial}, step : Steps]

ASSUME IdleIsNoJob == Idle \notin Jobs

SourceRows == [kind : {Raw, Video}, sha : Contents, parent : Ids \cup {NoId},
               artifact : Ids \cup {NoId}]
ScanRows == [source : Ids, sha : Contents]
ArtifactRows == [scan : Ids, source : Ids, rec : Recordings, sha : Contents]

Extend(table, id, row) ==
  [i \in DOMAIN table \cup {id} |-> IF i = id THEN row ELSE table[i]]

Without(table, id) == [i \in DOMAIN table \ {id} |-> table[i]]

Busy == {t \in Threads : job[t] # Idle}

At(t, ops, step) == t \in Busy /\ job[t].op \in ops /\ job[t].step = step

Rows == DOMAIN sources \cup DOMAIN scans \cup DOMAIN artifacts

\* uuid4 returns an identifier nobody holds.
Fresh == Ids \ (Rows \cup DOMAIN files \cup {job[t].name : t \in Busy})

Goto(t, step) == job' = [job EXCEPT ![t].step = step]

Finish(t) == job' = [job EXCEPT ![t] = Idle]

-----------------------------------------------------------------------------
\* What a request finds when it arrives.

Registered(a) == \E s \in DOMAIN sources : sources[s].artifact = a

Extracted(s, r) == \E a \in DOMAIN artifacts : artifacts[a].scan = s /\ artifacts[a].rec = r

Begin(t, u, op, of, rec) ==
  /\ job[t] = Idle
  /\ u \in entitled
  /\ job' = [job EXCEPT ![t] =
       [op |-> op, user |-> u, of |-> of, rec |-> rec, name |-> NoId,
        sha |-> Partial, step |-> "begun"]]
  /\ UNCHANGED <<caseState, tables, files, reported, missed, alterations>>

\* ingest_evidence does not look at the status of the case.
BeginIngest(t, u) == Begin(t, u, "ingest", NoId, NoId)

BeginScan(t, u, s) ==
  /\ s \in DOMAIN sources /\ sources[s].kind = Raw
  /\ ~closed
  /\ Begin(t, u, "scan", s, NoId)

\* Which recordings a scan lists is the adapter's business: any of them.
BeginExtract(t, u, s, r) ==
  /\ s \in DOMAIN scans
  /\ ~closed
  /\ Begin(t, u, "extract", s, r)

BeginRegister(t, u, a) ==
  /\ a \in DOMAIN artifacts
  /\ ~closed
  /\ ~Registered(a)
  /\ Begin(t, u, "register", a, NoId)

-----------------------------------------------------------------------------
\* Verification: the stored file is hashed and compared with its row.

InputOf(j) == CASE j.op = "scan"     -> j.of
                [] j.op = "extract"  -> scans[j.of].source
                [] j.op = "register" -> j.of

RecordedHash(j) == CASE j.op = "scan"     -> sources[j.of].sha
                     [] j.op = "extract"  -> scans[j.of].sha
                     [] j.op = "register" -> artifacts[j.of].sha

Intact(j) == files[InputOf(j)] = RecordedHash(j)

\* RecoveryStore.extract looks for an earlier extraction before it copies.
MayWrite(j) == Intact(j) /\ (j.op = "extract" => ~Extracted(j.of, j.rec))

Verify(t) ==
  /\ At(t, {"scan", "extract", "register"}, "begun")
  /\ IF MayWrite(job[t])
       THEN job' = [job EXCEPT ![t].step = "verified", ![t].sha = RecordedHash(job[t])]
       ELSE Finish(t)
  /\ UNCHANGED <<caseState, tables, files, reported, missed, alterations>>

-----------------------------------------------------------------------------
\* The file: created exclusively under a fresh name, filled, hashed.

CreateFile(t) ==
  /\ At(t, {"ingest"}, "begun") \/ At(t, {"extract", "register"}, "verified")
  /\ \E id \in Fresh :
       /\ files' = Extend(files, id, Partial)
       /\ job' = [job EXCEPT ![t].step = "writing", ![t].name = id]
  /\ UNCHANGED <<caseState, tables, reported, missed, alterations>>

\* The bytes the file ends up with: an upload's own, otherwise a copy of what
\* the input file holds now.
Copied(j) == IF j.op = "ingest" THEN Original ELSE files[InputOf(j)]

\* Variant: the copy is taken for what was verified.
CopyAcceptedUnseen(j) == TRUE

\* register_derived_file compares the copy with the hash verified before.
CopyAccepted(j) == j.op = "register" => Copied(j) = j.sha

FillFile(t) ==
  /\ At(t, {"ingest", "extract", "register"}, "writing")
  /\ CopyAccepted(job[t])
  /\ files' = [files EXCEPT ![job[t].name] = Copied(job[t])]
  /\ job' = [job EXCEPT ![t].step = "written", ![t].sha = Copied(job[t])]
  /\ UNCHANGED <<caseState, tables, reported, missed, alterations>>

\* Variant: a failed registration unlinks the file it copied from.
AbandonInputFile(t) ==
  /\ At(t, {"ingest", "extract", "register"}, "writing")
  /\ LET j == job[t]
     IN  files' = Without(files, IF j.op = "register" THEN j.of ELSE j.name)
  /\ Finish(t)
  /\ UNCHANGED <<caseState, tables, reported, missed, alterations>>

\* The stream ends early, is empty or too long, the source cannot be read, the
\* hash does not match, or the disk is full: the file is removed.
AbandonFile(t) ==
  /\ At(t, {"ingest", "extract", "register"}, "writing")
  /\ files' = Without(files, job[t].name)
  /\ Finish(t)
  /\ UNCHANGED <<caseState, tables, reported, missed, alterations>>

-----------------------------------------------------------------------------
\* The row.  Triggers and unique indexes decide when it is inserted.

ActiveScope(u) == ~closed /\ u \in entitled

\* Variant: no UNIQUE constraint, only the checks before the copy.
InsertAllowedTwice(j) ==
  CASE j.op \in {"ingest", "register"} -> TRUE
    [] j.op \in {"scan", "extract"}    -> ActiveScope(j.user)

InsertAllowed(j) ==
  CASE j.op = "ingest"   -> TRUE
    [] j.op = "scan"     -> ActiveScope(j.user)
    [] j.op = "extract"  -> ActiveScope(j.user) /\ ~Extracted(j.of, j.rec)
    [] j.op = "register" -> ~Registered(j.of)

ReadyToInsert(t) ==
  At(t, {"scan"}, "verified") \/ At(t, {"ingest", "extract", "register"}, "written")

InsertSource(t) ==
  /\ At(t, {"ingest", "register"}, "written")
  /\ InsertAllowed(job[t])
  /\ LET j == job[t]
         row == IF j.op = "ingest"
                THEN [kind |-> Raw, sha |-> j.sha, parent |-> NoId, artifact |-> NoId]
                ELSE [kind |-> Video, sha |-> j.sha,
                      parent |-> artifacts[j.of].source, artifact |-> j.of]
     IN  sources' = Extend(sources, j.name, row)
  /\ Goto(t, "stored")
  /\ UNCHANGED <<caseState, files, scans, artifacts, reported, missed, alterations>>

InsertScan(t) ==
  /\ At(t, {"scan"}, "verified")
  /\ InsertAllowed(job[t])
  /\ \E id \in Fresh :
       /\ scans' = Extend(scans, id, [source |-> job[t].of, sha |-> job[t].sha])
       /\ job' = [job EXCEPT ![t].step = "stored", ![t].name = id]
  /\ UNCHANGED <<caseState, files, sources, artifacts, reported, missed, alterations>>

\* Variant: INSERT OR REPLACE, where the unique constraint refused.
InsertArtifactReplacing(t) ==
  /\ At(t, {"extract"}, "written")
  /\ ActiveScope(job[t].user)
  /\ LET j == job[t]
         earlier == {a \in DOMAIN artifacts : artifacts[a].scan = j.of /\ artifacts[a].rec = j.rec}
     IN  artifacts' = Extend([a \in DOMAIN artifacts \ earlier |-> artifacts[a]], j.name,
           [scan |-> j.of, source |-> scans[j.of].source, rec |-> j.rec, sha |-> j.sha])
  /\ Goto(t, "stored")
  /\ UNCHANGED <<caseState, files, sources, scans, reported, missed, alterations>>

InsertArtifact(t) ==
  /\ At(t, {"extract"}, "written")
  /\ InsertAllowed(job[t])
  /\ LET j == job[t] IN
       artifacts' = Extend(artifacts, j.name,
         [scan |-> j.of, source |-> scans[j.of].source, rec |-> j.rec, sha |-> j.sha])
  /\ Goto(t, "stored")
  /\ UNCHANGED <<caseState, files, sources, scans, reported, missed, alterations>>

\* sqlite3.IntegrityError: the file is removed and the request fails.
RejectRow(t) ==
  /\ ReadyToInsert(t)
  /\ ~InsertAllowed(job[t])
  /\ files' = Without(files, job[t].name)
  /\ Finish(t)
  /\ UNCHANGED <<caseState, tables, reported, missed, alterations>>

\* Any other database error (a lock held for more than the busy timeout, a full
\* disk) reaches no handler of the catalog: the file stays.
FailInsert(t) ==
  /\ ReadyToInsert(t)
  /\ IF job[t].op \in {"ingest", "register"}
       THEN missed' = missed \cup {"row"} /\ UNCHANGED files
       ELSE files' = Without(files, job[t].name) /\ UNCHANGED missed
  /\ Finish(t)
  /\ UNCHANGED <<caseState, tables, reported, alterations>>

\* Before it has made anything a request may end at any call: its own event is
\* refused, no adapter is confident, the image cannot be read.
GiveUp(t) ==
  /\ At(t, {"ingest", "scan", "extract", "register"}, "begun")
     \/ At(t, {"scan", "extract", "register"}, "verified")
  /\ Finish(t)
  /\ UNCHANGED <<caseState, tables, files, reported, missed, alterations>>

\* The completion event, and the answer.
Report(t) ==
  /\ t \in Busy /\ job[t].step = "stored"
  /\ reported' = reported \cup {job[t].name}
  /\ Finish(t)
  /\ UNCHANGED <<caseState, tables, files, missed, alterations>>

\* The event goes to the case register's own database, which may refuse it when
\* the row is committed; nothing takes the row back.
FailReport(t) ==
  /\ t \in Busy /\ job[t].step = "stored"
  /\ missed' = missed \cup {"event"}
  /\ Finish(t)
  /\ UNCHANGED <<caseState, tables, files, reported, alterations>>

-----------------------------------------------------------------------------
\* Around the handlers.

CloseCase ==
  /\ ~closed /\ closed' = TRUE
  /\ UNCHANGED <<entitled, tables, files, reported, job, missed, alterations>>

\* Suspension and revocation, and their opposites.
ChangeEntitlement(u) ==
  /\ entitled' = IF u \in entitled THEN entitled \ {u} ELSE entitled \cup {u}
  /\ UNCHANGED <<closed, tables, files, reported, job, missed, alterations>>

\* The server is killed: requests vanish, files and committed rows stay.
Crash ==
  /\ Busy # {}
  /\ job' = [t \in Threads |-> Idle]
  /\ missed' = {"row", "event"}
  /\ UNCHANGED <<caseState, tables, files, reported, alterations>>

\* A stored file changes on the disk.
Alter(id) ==
  /\ id \in DOMAIN files /\ files[id] = Original
  /\ alterations < MaxAlterations
  /\ files' = [files EXCEPT ![id] = Altered]
  /\ alterations' = alterations + 1
  /\ UNCHANGED <<caseState, tables, reported, job, missed>>

-----------------------------------------------------------------------------
Empty == [i \in {} |-> NoId]

Init ==
  /\ closed = FALSE /\ entitled = Users
  /\ files = Empty /\ sources = Empty /\ scans = Empty /\ artifacts = Empty
  /\ reported = {} /\ job = [t \in Threads |-> Idle]
  /\ missed = {} /\ alterations = 0

Arrive(t, u) ==
  \/ BeginIngest(t, u)
  \/ \E i \in Ids : BeginScan(t, u, i) \/ BeginRegister(t, u, i)
  \/ \E i \in Ids, r \in Recordings : BeginExtract(t, u, i, r)

Work(t) ==
  \/ Verify(t) \/ CreateFile(t) \/ FillFile(t) \/ AbandonFile(t)
  \/ InsertSource(t) \/ InsertScan(t) \/ InsertArtifact(t)
  \/ RejectRow(t) \/ FailInsert(t) \/ GiveUp(t)
  \/ Report(t) \/ FailReport(t)

Next ==
  \/ \E t \in Threads : Work(t) \/ \E u \in Users : Arrive(t, u)
  \/ CloseCase
  \/ \E u \in Users : ChangeEntitlement(u)
  \/ Crash
  \/ \E id \in Ids : Alter(id)

Spec == Init /\ [][Next]_vars

-----------------------------------------------------------------------------
\* Properties.

\* Tables, vault and requests have their declared shape.
TypeOK ==
  /\ closed \in BOOLEAN /\ entitled \subseteq Users /\ missed \subseteq {"row", "event"}
  /\ DOMAIN files \subseteq Ids /\ files \in [DOMAIN files -> Contents \cup {Partial}]
  /\ DOMAIN sources \subseteq Ids /\ sources \in [DOMAIN sources -> SourceRows]
  /\ DOMAIN scans \subseteq Ids /\ scans \in [DOMAIN scans -> ScanRows]
  /\ DOMAIN artifacts \subseteq Ids /\ artifacts \in [DOMAIN artifacts -> ArtifactRows]
  /\ reported \subseteq Ids
  /\ job \in [Threads -> Jobs \cup {Idle}]
  /\ alterations \in 0 .. MaxAlterations

\* Whatever crashed, failed or raced, every evidence and artifact row has its
\* file, and the file is a whole one (the row is inserted after the fsync, and
\* a file is only removed by the request whose row was refused).
RowsHaveWholeFiles ==
  \A i \in DOMAIN sources \cup DOMAIN artifacts :
    i \in DOMAIN files /\ files[i] # Partial

\* Each pair of writes is torn only by what can tear it.  While no crash and no
\* failing insert of a source came between file and row, every file belongs to a
\* row or to a running request (the except branches of catalog.ingest,
\* register_derived_file and RecoveryStore.extract); while no crash and no
\* refused event came between row and event, every row is reported in the
\* activity trail or about to be (the record_activity after each of them).
NothingLeftBehind ==
  /\ "row" \notin missed =>
       DOMAIN files \subseteq Rows \cup {job[t].name : t \in Busy}
  /\ "event" \notin missed =>
       Rows \subseteq reported \cup {job[t].name : t \in Busy}

\* Vault, catalog and trail tell the same of every file.
FilesMatchRows == RowsHaveWholeFiles /\ NothingLeftBehind

\* However many requests extract or register the same thing at once, a scan's
\* recording is extracted at most once and an artifact registered at most once
\* (the UNIQUE constraint and index, not the checks before the copy).
AtMostOnce ==
  /\ \A a, b \in DOMAIN artifacts :
       artifacts[a].scan = artifacts[b].scan /\ artifacts[a].rec = artifacts[b].rec
         => a = b
  /\ \A s, d \in DOMAIN sources :
       sources[s].artifact = sources[d].artifact /\ sources[s].artifact # NoId
         => s = d

\* Lineage: a registered recording carries the very hash of the artifact it
\* came from, and leads over the scan to a disk image with the hash that was
\* scanned, also when a stored file is altered at any moment.  A recording was
\* copied from other bytes than those verified only if the image was altered.
LineageHolds ==
  /\ \A d \in DOMAIN sources : sources[d].artifact # NoId =>
       LET a == sources[d].artifact
       IN  /\ a \in DOMAIN artifacts
           /\ sources[d].sha = artifacts[a].sha
           /\ sources[d].parent = artifacts[a].source
  /\ \A a \in DOMAIN artifacts :
       /\ artifacts[a].scan \in DOMAIN scans
       /\ artifacts[a].source = scans[artifacts[a].scan].source
       /\ artifacts[a].sha # scans[artifacts[a].scan].sha =>
            files[artifacts[a].source] = Altered
  /\ \A s \in DOMAIN scans :
       /\ scans[s].source \in DOMAIN sources
       /\ sources[scans[s].source].kind = Raw
       /\ scans[s].sha = sources[scans[s].source].sha

\* The items of EvidenceLineage: the rows, each with the row it was made from.
Item(kind, image, from, rec, sha) ==
  [kind |-> kind, image |-> image, from |-> from, rec |-> rec, sha |-> sha]

Items ==
  [i \in Rows |->
     IF i \in DOMAIN scans
       THEN Item("scan", scans[i].source, scans[i].source, NoId, scans[i].sha)
     ELSE IF i \in DOMAIN artifacts
       THEN Item("recording", artifacts[i].source, artifacts[i].scan, artifacts[i].rec,
                 artifacts[i].sha)
     ELSE IF sources[i].kind = Raw
       THEN Item("image", i, NoId, NoId, sources[i].sha)
       ELSE Item("evidence", sources[i].parent, sources[i].artifact, NoId, sources[i].sha)]

Lineage == INSTANCE EvidenceLineage WITH items <- Items, Hashes <- Contents

\* Through races, failures, crashes and altered files, the three tables grow as
\* one history of items, each made from another that is there and none twice:
\* no step rewrites, removes or relinks a row, whichever request it serves
\* (recovery_scans_no_update and its siblings, the UNIQUE constraints and the
\* scope triggers).
ImplementsLineage == Lineage!Spec

\* "Database triggers also reject recovery writes outside an active case"
\* (docs/forensics/RECOVERY_WORKFLOW.md:24).
RecoveryWritesInActiveCase ==
  [][closed => /\ scans' = scans /\ artifacts' = artifacts
               /\ \A s \in DOMAIN sources' \ DOMAIN sources :
                    sources'[s].artifact = NoId]_vars
=============================================================================
