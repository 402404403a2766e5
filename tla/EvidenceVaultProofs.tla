------------------------ MODULE EvidenceVaultProofs ------------------------
(***************************************************************************)
(* Proofs about the evidence vault: rows have whole files and nothing is   *)
(* left behind, nothing is extracted or registered twice, and the lineage  *)
(* of every recording holds, for any users, threads, identifiers,          *)
(* recordings and number of altered files.                                 *)
(***************************************************************************)
EXTENDS EvidenceVault, TLAPS

-----------------------------------------------------------------------------
\* The inductive invariant: what each request at work may rely on.

Filing(j) == j.step \in {"writing", "written"}

\* A request's own file: nobody has a row for it, and it has no row yet.
FileOK(j) ==
  /\ j.step \in {"begun", "verified"} => j.name = NoId
  /\ Filing(j) => j.op # "scan" /\ j.name \in DOMAIN files /\ j.name \notin Rows
  /\ j.step = "written" => files[j.name] # Partial /\ j.sha \in Contents
  /\ j.step = "stored" => j.name \in Rows

IngestOK(j) == j.op = "ingest" =>
  /\ j.step # "verified"
  /\ j.step = "written" => j.sha = Original

ScanOK(j) == j.op = "scan" =>
  /\ j.of \in DOMAIN sources /\ sources[j.of].kind = Raw
  /\ j.step = "verified" => j.sha = sources[j.of].sha

ExtractOK(j) == j.op = "extract" =>
  /\ j.of \in DOMAIN scans /\ j.rec \in Recordings
  /\ j.step = "written" /\ j.sha # scans[j.of].sha => files[scans[j.of].source] = Altered

RegisterOK(j) == j.op = "register" =>
  /\ j.of \in DOMAIN artifacts
  /\ j.step \in {"verified", "writing", "written"} => j.sha = artifacts[j.of].sha

JobOK(j) == FileOK(j) /\ IngestOK(j) /\ ScanOK(j) /\ ExtractOK(j) /\ RegisterOK(j)

JobsOK == \A t \in Busy : JobOK(job[t])

\* No two requests write the same file.
NamesApart ==
  \A t, u \in Busy : t # u /\ Filing(job[t]) /\ Filing(job[u]) => job[t].name # job[u].name

\* An uploaded image is recorded with the hash it was uploaded with.
RawAsUploaded == \A s \in DOMAIN sources : sources[s].kind = Raw => sources[s].sha = Original

RowsOK == RowsHaveWholeFiles /\ RawAsUploaded /\ LineageHolds

VaultInv == TypeOK /\ RowsOK /\ AtMostOnce /\ JobsOK /\ NamesApart /\ NothingLeftBehind

-----------------------------------------------------------------------------
\* The shape of the state.

\* A running request has the shape of a request.
LEMMA BusyJobs ==
  ASSUME TypeOK, NEW t \in Busy
  PROVE  t \in Threads /\ job[t] \in Jobs
BY DEF TypeOK, Busy

\* Inserting keeps a table a table.
LEMMA ExtendType ==
  ASSUME NEW S, NEW T, NEW f \in [S -> T], NEW i, NEW x \in T
  PROVE  /\ DOMAIN Extend(f, i, x) = S \cup {i}
         /\ Extend(f, i, x) \in [S \cup {i} -> T]
         /\ Extend(f, i, x)[i] = x
         /\ \A k \in S : k # i => Extend(f, i, x)[k] = f[k]
BY DEF Extend

\* So does removing.
LEMMA WithoutType ==
  ASSUME NEW S, NEW T, NEW f \in [S -> T], NEW i
  PROVE  /\ DOMAIN Without(f, i) = S \ {i}
         /\ Without(f, i) \in [S \ {i} -> T]
         /\ \A k \in S \ {i} : Without(f, i)[k] = f[k]
BY DEF Without

\* A request that moves on stays a request, and one that ends leaves its thread.
LEMMA JobTypes ==
  ASSUME TypeOK, NEW t \in Busy, NEW step \in Steps,
         NEW name \in Ids \cup {NoId}, NEW sha \in Contents \cup {Partial}
  PROVE  /\ [job EXCEPT ![t] = Idle] \in [Threads -> Jobs \cup {Idle}]
         /\ [job EXCEPT ![t].step = step] \in [Threads -> Jobs \cup {Idle}]
         /\ [job EXCEPT ![t].step = step, ![t].name = name] \in [Threads -> Jobs \cup {Idle}]
         /\ [job EXCEPT ![t].step = step, ![t].sha = sha] \in [Threads -> Jobs \cup {Idle}]
<1>1. t \in Threads /\ job[t] \in Jobs
  BY BusyJobs
<1> QED
  BY <1>1 DEF TypeOK, Jobs

\* A step of Work is one of a running request.
LEMMA WorkersBusy ==
  ASSUME VaultInv, NEW t \in Threads, Work(t)
  PROVE  t \in Busy /\ job[t] \in Jobs /\ JobOK(job[t])
<1>1. t \in Busy
  BY DEF Work, Verify, CreateFile, FillFile, AbandonFile, InsertSource, InsertScan,
     InsertArtifact, RejectRow, ReadyToInsert, FailInsert, GiveUp, Report, FailReport, At
<1> QED
  BY <1>1, BusyJobs DEF VaultInv, JobsOK

\* What a request reads is a stored file with a recorded hash.
LEMMA InputStored ==
  ASSUME VaultInv, NEW t \in Busy, job[t].op # "ingest"
  PROVE  /\ InputOf(job[t]) \in DOMAIN sources \cup DOMAIN artifacts
         /\ files[InputOf(job[t])] \in Contents
         /\ RecordedHash(job[t]) \in Contents
<1>1. job[t] \in Jobs /\ JobOK(job[t])
  BY BusyJobs DEF VaultInv, JobsOK
<1>2. job[t].op \in {"scan", "extract", "register"}
  BY <1>1 DEF Jobs, Ops
<1>3. InputOf(job[t]) \in DOMAIN sources \cup DOMAIN artifacts
  BY <1>1, <1>2 DEF InputOf, JobOK, ScanOK, ExtractOK, RegisterOK, VaultInv, RowsOK, LineageHolds
<1>4. files[InputOf(job[t])] \in Contents
  BY <1>3 DEF VaultInv, RowsOK, RowsHaveWholeFiles, TypeOK
<1>5. RecordedHash(job[t]) \in Contents
  BY <1>1, <1>2 DEF RecordedHash, JobOK, ScanOK, ExtractOK, RegisterOK, VaultInv, TypeOK,
     SourceRows, ScanRows, ArtifactRows
<1> QED
  BY <1>3, <1>4, <1>5

\* So a copy is never one of a file still being written.
LEMMA CopiesWhole ==
  ASSUME VaultInv, NEW t \in Busy
  PROVE  Copied(job[t]) \in Contents
BY InputStored DEF Copied, Contents

\* Every action keeps the shape of the state.
LEMMA TypePreserved ==
  ASSUME VaultInv, [Next]_vars
  PROVE  TypeOK'
<1> USE DEF caseState, tables
<1>0. TypeOK
  BY DEF VaultInv
<1>1. ASSUME NEW t \in Threads, Work(t)
      PROVE  TypeOK'
  <2>0. t \in Busy /\ job[t] \in Jobs /\ JobOK(job[t])
    BY <1>1, WorkersBusy
  <2> {"verified", "writing", "written", "stored"} \subseteq Steps
    BY DEF Steps
  <2>1. CASE Verify(t)
    <3>1. RecordedHash(job[t]) \in Contents
      BY <2>0, <2>1, InputStored DEF Verify, At
    <3> DEFINE moved == [job EXCEPT ![t].step = "verified", ![t].sha = RecordedHash(job[t])]
               ended == [job EXCEPT ![t] = Idle]
    <3>3. moved \in [Threads -> Jobs \cup {Idle}] /\ ended \in [Threads -> Jobs \cup {Idle}]
      BY <2>0, <1>0, <3>1 DEF TypeOK, Jobs
    <3>4. job' \in {moved, ended}
      BY <2>1 DEF Verify, Finish
    <3> HIDE DEF moved, ended
    <3>2. job' \in [Threads -> Jobs \cup {Idle}]
      BY <3>3, <3>4
    <3> QED
      BY <2>1, <1>0, <3>2 DEF Verify, TypeOK
  <2>2. CASE CreateFile(t)
    <3>1. PICK id \in Fresh : /\ files' = Extend(files, id, Partial)
                             /\ job' = [job EXCEPT ![t].step = "writing", ![t].name = id]
      BY <2>2 DEF CreateFile
    <3>2. id \in Ids
      BY DEF Fresh
    <3>3. job' \in [Threads -> Jobs \cup {Idle}]
      BY <2>0, <1>0, <3>1, <3>2, JobTypes
    <3>4. DOMAIN files' \subseteq Ids /\ files' \in [DOMAIN files' -> Contents \cup {Partial}]
      BY <1>0, <3>1, <3>2 DEF TypeOK, Extend
    <3> QED
      BY <2>2, <1>0, <3>3, <3>4 DEF CreateFile, TypeOK
  <2>3. CASE FillFile(t)
    <3>1. Copied(job[t]) \in Contents
      BY <2>0, CopiesWhole
    <3>2. job' \in [Threads -> Jobs \cup {Idle}]
      BY <2>0, <2>3, <1>0, <3>1, JobTypes DEF FillFile
    <3>3. DOMAIN files' \subseteq Ids /\ files' \in [DOMAIN files' -> Contents \cup {Partial}]
      BY <1>0, <2>3, <3>1 DEF TypeOK, FillFile
    <3> QED
      BY <2>3, <1>0, <3>2, <3>3 DEF FillFile, TypeOK
  <2>4. CASE files' \in {files, Without(files, job[t].name)} /\ Finish(t)
             /\ UNCHANGED <<caseState, tables, alterations>>
             /\ reported' \in {reported, reported \cup {job[t].name}}
             /\ missed' \subseteq {"row", "event"}
             /\ (reported' # reported => job[t].step = "stored")
    <3>1. job' \in [Threads -> Jobs \cup {Idle}]
      BY <2>0, <2>4, <1>0 DEF Finish, TypeOK, Busy
    <3>2. DOMAIN files' \subseteq Ids /\ files' \in [DOMAIN files' -> Contents \cup {Partial}]
      BY <1>0, <2>4 DEF TypeOK, Without
    <3>3. reported' \subseteq Ids
      BY <1>0, <2>0, <2>4 DEF TypeOK, JobOK, FileOK, Rows
    <3> QED
      BY <2>4, <1>0, <3>1, <3>2, <3>3 DEF TypeOK
  <2>5. CASE InsertSource(t)
    <3> DEFINE j == job[t]
               row == IF j.op = "ingest"
                      THEN [kind |-> Raw, sha |-> j.sha, parent |-> NoId, artifact |-> NoId]
                      ELSE [kind |-> Video, sha |-> j.sha,
                            parent |-> artifacts[j.of].source, artifact |-> j.of]
    <3>1. row \in SourceRows
      <4>1. j.sha \in Contents /\ j.op \in {"ingest", "register"}
        BY <2>0, <2>5 DEF InsertSource, At, JobOK, FileOK
      <4>2. j.op = "register" => /\ j.of \in DOMAIN artifacts
                                /\ j.of \in Ids /\ artifacts[j.of].source \in Ids
        BY <1>0, <2>0, <2>5 DEF InsertSource, At, JobOK, RegisterOK, TypeOK, ArtifactRows
      <4> QED
        BY <4>1, <4>2 DEF SourceRows
    <3>2. sources' = Extend(sources, j.name, row) /\ j.name \in Ids
      BY <1>0, <2>0, <2>5 DEF InsertSource, At, JobOK, FileOK, Filing, TypeOK
    <3> HIDE DEF row
    <3>3. DOMAIN sources' \subseteq Ids /\ sources' \in [DOMAIN sources' -> SourceRows]
      BY <1>0, <3>1, <3>2 DEF TypeOK, Extend
    <3>4. job' \in [Threads -> Jobs \cup {Idle}]
      BY <2>0, <2>5, <1>0, JobTypes DEF InsertSource, Goto, Contents, Jobs
    <3> QED
      BY <2>5, <1>0, <3>3, <3>4 DEF InsertSource, TypeOK
  <2>6. CASE InsertScan(t)
    <3>1. PICK id \in Fresh :
             /\ scans' = Extend(scans, id, [source |-> job[t].of, sha |-> job[t].sha])
             /\ job' = [job EXCEPT ![t].step = "stored", ![t].name = id]
      BY <2>6 DEF InsertScan
    <3>2. id \in Ids
      BY DEF Fresh
    <3>3. [source |-> job[t].of, sha |-> job[t].sha] \in ScanRows
      BY <1>0, <2>0, <2>6 DEF InsertScan, At, JobOK, ScanOK, TypeOK, SourceRows, ScanRows
    <3>4. DOMAIN scans' \subseteq Ids /\ scans' \in [DOMAIN scans' -> ScanRows]
      BY <1>0, <3>1, <3>2, <3>3 DEF TypeOK, Extend
    <3>5. job' \in [Threads -> Jobs \cup {Idle}]
      BY <2>0, <1>0, <3>1, <3>2, JobTypes DEF Contents
    <3> QED
      BY <2>6, <1>0, <3>4, <3>5 DEF InsertScan, TypeOK
  <2>7. CASE InsertArtifact(t)
    <3> DEFINE j == job[t]
               row == [scan |-> j.of, source |-> scans[j.of].source, rec |-> j.rec, sha |-> j.sha]
    <3>1. row \in ArtifactRows
      BY <1>0, <2>0, <2>7 DEF InsertArtifact, At, JobOK, FileOK, ExtractOK, TypeOK,
         ScanRows, ArtifactRows
    <3>2. artifacts' = Extend(artifacts, j.name, row) /\ j.name \in Ids
      BY <1>0, <2>0, <2>7 DEF InsertArtifact, At, JobOK, FileOK, Filing, TypeOK
    <3> HIDE DEF row
    <3>3. DOMAIN artifacts' \subseteq Ids /\ artifacts' \in [DOMAIN artifacts' -> ArtifactRows]
      BY <1>0, <3>1, <3>2 DEF TypeOK, Extend
    <3>4. job' \in [Threads -> Jobs \cup {Idle}]
      BY <2>0, <2>7, <1>0, JobTypes DEF InsertArtifact, Goto, Contents, Jobs
    <3> QED
      BY <2>7, <1>0, <3>3, <3>4 DEF InsertArtifact, TypeOK
  <2> QED
    <3>1. CASE AbandonFile(t)
      BY <1>0, <2>4, <3>1 DEF AbandonFile, TypeOK
    <3>2. CASE RejectRow(t)
      BY <1>0, <2>4, <3>2 DEF RejectRow, TypeOK
    <3>3. CASE FailInsert(t)
      BY <1>0, <2>4, <3>3 DEF FailInsert, TypeOK
    <3>4. CASE GiveUp(t)
      BY <1>0, <2>4, <3>4 DEF GiveUp, TypeOK
    <3>6. CASE FailReport(t)
      BY <1>0, <2>4, <3>6 DEF FailReport, TypeOK
    <3>5. CASE Report(t)
      BY <1>0, <2>4, <3>5 DEF Report, TypeOK
    <3> QED
      BY <1>1, <2>1, <2>2, <2>3, <2>5, <2>6, <2>7, <3>1, <3>2, <3>3, <3>4, <3>5, <3>6
      DEF Work
<1>2. ASSUME NEW t \in Threads, NEW u \in Users, Arrive(t, u)
      PROVE  TypeOK'
  <2>1. PICK op \in Ops, of \in Ids \cup {NoId}, rec \in Recordings \cup {NoId} :
           Begin(t, u, op, of, rec)
    BY <1>2 DEF Arrive, BeginIngest, BeginScan, BeginExtract, BeginRegister, Ops
  <2>2. [op |-> op, user |-> u, of |-> of, rec |-> rec, name |-> NoId,
         sha |-> Partial, step |-> "begun"] \in Jobs
    BY DEF Jobs, Steps
  <2> QED
    BY <1>0, <2>1, <2>2 DEF Begin, TypeOK
<1>3. CASE CloseCase
  BY <1>0, <1>3 DEF CloseCase, TypeOK
<1>4. ASSUME NEW u \in Users, ChangeEntitlement(u)
      PROVE  TypeOK'
  BY <1>0, <1>4 DEF ChangeEntitlement, TypeOK
<1>5. CASE Crash
  BY <1>0, <1>5 DEF Crash, TypeOK
<1>6. ASSUME NEW id \in Ids, Alter(id)
      PROVE  TypeOK'
  BY <1>0, <1>6, VaultConstants DEF Alter, TypeOK, Contents
<1>7. CASE UNCHANGED vars
  BY <1>0, <1>7 DEF vars, TypeOK
<1> QED
  BY <1>1, <1>2, <1>3, <1>4, <1>5, <1>6, <1>7 DEF Next
-----------------------------------------------------------------------------
\* What a step leaves alone.

\* Rows are never changed or deleted.
TablesGrow ==
  /\ \A s \in DOMAIN sources : s \in DOMAIN sources' /\ sources'[s] = sources[s]
  /\ \A s \in DOMAIN scans : s \in DOMAIN scans' /\ scans'[s] = scans[s]
  /\ \A a \in DOMAIN artifacts : a \in DOMAIN artifacts' /\ artifacts'[a] = artifacts[a]

\* These files stay, and at most get altered when they are complete.
FilesStay(S) ==
  \A i \in S \cap DOMAIN files :
    /\ i \in DOMAIN files'
    /\ files'[i] = files[i] \/ (files[i] # Partial /\ files'[i] = Altered)

\* The files of the rows and of the other requests.
NotOf(t) == Rows \cup {job[u].name : u \in Busy \ {t}}

\* The file a request may write or remove is not one of those.
LEMMA OwnFileApart ==
  ASSUME VaultInv, NEW t \in Busy, job[t].step # "stored",
         NEW i \in NotOf(t) \cap DOMAIN files
  PROVE  i # job[t].name
<1> USE DEF VaultInv
<1>0. \A u \in Busy : job[u].step \in Steps /\ FileOK(job[u])
  BY BusyJobs DEF Jobs, JobsOK, JobOK
<1>1. i \in Ids /\ i # NoId
  BY VaultConstants DEF TypeOK
<1>2. CASE i \in Rows
  BY <1>0, <1>1, <1>2 DEF FileOK, Filing, Steps
<1>3. ASSUME NEW u \in Busy \ {t}, i = job[u].name, i \notin Rows
      PROVE  i # job[t].name
  <2>1. Filing(job[u])
    BY <1>0, <1>1, <1>3 DEF FileOK, Filing, Steps
  <2> QED
    BY <1>0, <1>1, <1>3, <2>1 DEF FileOK, Filing, Steps, NamesApart
<1> QED
  BY <1>2, <1>3 DEF NotOf

\* A thread at work disturbs no row, no file of a row and no other request.
LEMMA WorkDisturbsNothing ==
  ASSUME VaultInv, NEW t \in Threads, Work(t)
  PROVE  /\ TablesGrow
         /\ FilesStay(NotOf(t))
         /\ \A u \in Busy \ {t} : job'[u] = job[u]
<1> USE DEF tables
<1>0. t \in Busy /\ job[t] \in Jobs /\ JobOK(job[t]) /\ TypeOK
  BY WorkersBusy DEF VaultInv
<1>1. \A i \in NotOf(t) \cap DOMAIN files : job[t].step # "stored" => i # job[t].name
  BY <1>0, OwnFileApart
<1>2. \A u \in Busy \ {t} : job'[u] = job[u]
  BY <1>0 DEF Busy, Work, Verify, CreateFile, FillFile, AbandonFile, InsertSource, InsertScan,
     InsertArtifact, RejectRow, FailInsert, GiveUp, Report, FailReport, Finish, Goto, TypeOK
<1>3. CASE UNCHANGED files /\ UNCHANGED tables
  BY <1>2, <1>3 DEF TablesGrow, FilesStay
<1>4. CASE files' = Without(files, job[t].name) /\ job[t].step # "stored" /\ UNCHANGED tables
  BY <1>1, <1>2, <1>4 DEF TablesGrow, FilesStay, Without
<1>5. CASE CreateFile(t)
  <2>1. PICK id \in Fresh : files' = Extend(files, id, Partial)
    BY <1>5 DEF CreateFile
  <2> QED
    BY <1>2, <1>5, <2>1 DEF CreateFile, TablesGrow, FilesStay, Extend, Fresh
<1>6. CASE FillFile(t)
  BY <1>1, <1>2, <1>6 DEF FillFile, At, TablesGrow, FilesStay
<1>7. CASE InsertSource(t)
  <2>1. job[t].name \notin DOMAIN sources /\ UNCHANGED <<files, scans, artifacts>>
    BY <1>0, <1>7 DEF InsertSource, At, JobOK, FileOK, Filing, Rows
  <2>2. \E row : sources' = Extend(sources, job[t].name, row)
    BY <1>7 DEF InsertSource
  <2> QED
    BY <1>2, <2>1, <2>2 DEF TablesGrow, FilesStay, Extend
<1>8. CASE InsertScan(t)
  <2>1. PICK id \in Fresh : \E row : scans' = Extend(scans, id, row)
    BY <1>8 DEF InsertScan
  <2>2. id \notin DOMAIN scans /\ UNCHANGED <<files, sources, artifacts>>
    BY <1>8 DEF Fresh, Rows, InsertScan
  <2> QED
    BY <1>2, <2>1, <2>2 DEF TablesGrow, FilesStay, Extend
<1>9. CASE InsertArtifact(t)
  <2>1. job[t].name \notin DOMAIN artifacts /\ UNCHANGED <<files, scans, sources>>
    BY <1>0, <1>9 DEF InsertArtifact, At, JobOK, FileOK, Filing, Rows
  <2>2. \E row : artifacts' = Extend(artifacts, job[t].name, row)
    BY <1>9 DEF InsertArtifact
  <2> QED
    BY <1>2, <2>1, <2>2 DEF TablesGrow, FilesStay, Extend
<1> QED
  <2>1. CASE Verify(t) \/ GiveUp(t) \/ Report(t) \/ FailReport(t)
    BY <1>3, <2>1 DEF Verify, GiveUp, Report, FailReport
  <2>2. CASE AbandonFile(t) \/ RejectRow(t)
    BY <1>4, <2>2 DEF AbandonFile, RejectRow, ReadyToInsert, At
  <2>3. CASE FailInsert(t)
    BY <1>3, <1>4, <2>3 DEF FailInsert, ReadyToInsert, At
  <2> QED
    BY <1>5, <1>6, <1>7, <1>8, <1>9, <2>1, <2>2, <2>3 DEF Work

\* A request keeps what it relies on while rows are only added and files stay.
LEMMA JobKept ==
  ASSUME VaultInv, NEW u \in Busy, job'[u] = job[u],
         TablesGrow, FilesStay(Rows \cup {job[u].name}),
         Filing(job[u]) => job[u].name \notin Rows'
  PROVE  JobOK(job[u])'
<1> DEFINE j == job[u]
<1>0. j \in Jobs /\ JobOK(j) /\ j' = j /\ TypeOK
  BY BusyJobs DEF VaultInv, JobsOK
<1>1. Rows \subseteq Rows'
  BY DEF Rows, TablesGrow
<1>2. FileOK(j)'
  <2>1. FileOK(j)
    BY <1>0 DEF JobOK
  <2>2. Filing(j) => j.name \in DOMAIN files' /\ (j.step = "written" => files'[j.name] # Partial)
    BY <2>1, VaultConstants DEF FileOK, FilesStay, Filing
  <2> QED
    BY <1>0, <1>1, <2>1, <2>2 DEF FileOK, Filing
<1>3. IngestOK(j)'
  BY <1>0 DEF JobOK, IngestOK
<1>4. ScanOK(j)'
  BY <1>0 DEF JobOK, ScanOK, TablesGrow
<1>5. ExtractOK(j)'
  <2>1. j.op = "extract" => /\ j.of \in DOMAIN scans /\ scans[j.of].source \in Rows
                           /\ scans[j.of].source \in DOMAIN files
    BY <1>0 DEF JobOK, ExtractOK, VaultInv, RowsOK, LineageHolds, RowsHaveWholeFiles, Rows
  <2> QED
    BY <1>0, <2>1 DEF JobOK, ExtractOK, TablesGrow, FilesStay
<1>6. RegisterOK(j)'
  BY <1>0 DEF JobOK, RegisterOK, TablesGrow
<1> QED
  BY <1>2, <1>3, <1>4, <1>5, <1>6 DEF JobOK

\* Rows stay sound while the tables do and their files stay.
LEMMA RowsKept ==
  ASSUME VaultInv, UNCHANGED tables, FilesStay(Rows)
  PROVE  RowsOK' /\ AtMostOnce'
<1>0. UNCHANGED <<sources, scans, artifacts>>
  BY DEF tables
<1>1. RowsHaveWholeFiles'
  BY <1>0, VaultConstants DEF VaultInv, RowsOK, RowsHaveWholeFiles, FilesStay, Rows
<1>2. RawAsUploaded' /\ AtMostOnce'
  BY <1>0 DEF VaultInv, RowsOK, RawAsUploaded, AtMostOnce
<1>3. LineageHolds'
  <2>1. \A a \in DOMAIN artifacts :
          artifacts[a].source \in Rows /\ artifacts[a].source \in DOMAIN files
    BY DEF VaultInv, RowsOK, LineageHolds, RowsHaveWholeFiles, Rows
  <2> QED
    BY <1>0, <2>1 DEF VaultInv, RowsOK, LineageHolds, FilesStay
<1> QED
  BY <1>1, <1>2, <1>3 DEF RowsOK
-----------------------------------------------------------------------------
\* The requests, step by step.

\* A step ends the request of its thread, or moves it on.
Ends(t) ==
  \/ AbandonFile(t) \/ RejectRow(t) \/ FailInsert(t) \/ GiveUp(t)
  \/ Report(t) \/ FailReport(t)
  \/ Verify(t) /\ ~MayWrite(job[t])

\* Ended requests leave their thread.
LEMMA EndsLeaveThread ==
  ASSUME VaultInv, NEW t \in Threads, Work(t), Ends(t)
  PROVE  Busy' = Busy \ {t}
BY DEF Ends, AbandonFile, RejectRow, FailInsert, GiveUp, Report, FailReport, Verify, Finish,
   VaultInv,
   TypeOK, Busy

\* What a request relies on after a step of its own that does not end it.
LEMMA OwnJobKept ==
  ASSUME VaultInv, NEW t \in Threads, Work(t), ~Ends(t)
  PROVE  JobOK(job[t])'
<1> USE DEF tables
<1> DEFINE j == job[t]
<1>0. t \in Busy /\ j \in Jobs /\ JobOK(j) /\ TypeOK
  BY WorkersBusy DEF VaultInv
<1> HIDE DEF j
<1>1. CASE Verify(t)
  <2>1. /\ j' = [j EXCEPT !.step = "verified", !.sha = RecordedHash(j)]
        /\ j.op \in {"scan", "extract", "register"} /\ j.step = "begun" /\ UNCHANGED <<files, tables>>
    BY <1>0, <1>1 DEF Ends, Verify, At, TypeOK, j
  <2>2. /\ j'.op = j.op /\ j'.of = j.of /\ j'.rec = j.rec /\ j'.name = j.name
        /\ j'.step = "verified" /\ j'.sha = RecordedHash(j)
    BY <1>0, <2>1 DEF Jobs
  <2>3. FileOK(j)'
    BY <1>0, <2>1, <2>2 DEF JobOK, FileOK, Filing
  <2>4. IngestOK(j)' /\ ScanOK(j)' /\ ExtractOK(j)' /\ RegisterOK(j)'
    BY <1>0, <2>1, <2>2 DEF JobOK, IngestOK, ScanOK, ExtractOK, RegisterOK, RecordedHash
  <2> QED
    BY <2>3, <2>4 DEF JobOK, j
<1>2. CASE CreateFile(t)
  <2>1. PICK id \in Fresh : /\ files' = Extend(files, id, Partial)
                           /\ job' = [job EXCEPT ![t].step = "writing", ![t].name = id]
    BY <1>2 DEF CreateFile
  <2>2. /\ j'.op = j.op /\ j'.of = j.of /\ j'.rec = j.rec /\ j'.name = id
        /\ j'.step = "writing" /\ j'.sha = j.sha /\ UNCHANGED tables
        /\ (j.op = "ingest" /\ j.step = "begun")
             \/ (j.op \in {"extract", "register"} /\ j.step = "verified")
    BY <1>0, <1>2, <2>1 DEF CreateFile, At, TypeOK, Jobs, j
  <2>3. FileOK(j)'
    BY <2>1, <2>2 DEF FileOK, Filing, Extend, Fresh, Rows
  <2>4. IngestOK(j)' /\ ScanOK(j)' /\ ExtractOK(j)' /\ RegisterOK(j)'
    BY <1>0, <2>2 DEF JobOK, IngestOK, ScanOK, ExtractOK, RegisterOK
  <2> QED
    BY <2>3, <2>4 DEF JobOK, j
<1>3. CASE FillFile(t)
  <2>1. /\ j'.op = j.op /\ j'.of = j.of /\ j'.rec = j.rec /\ j'.name = j.name
        /\ j'.step = "written" /\ j'.sha = Copied(j) /\ UNCHANGED tables
        /\ files' = [files EXCEPT ![j.name] = Copied(j)] /\ CopyAccepted(j)
        /\ j.op \in {"ingest", "extract", "register"} /\ j.step = "writing"
    BY <1>0, <1>3 DEF FillFile, At, TypeOK, Jobs, j
  <2>2. Copied(j) \in Contents
    BY <1>0, CopiesWhole DEF j
  <2>3. FileOK(j)'
    BY <1>0, <2>1, <2>2, VaultConstants DEF JobOK, FileOK, Filing, Rows, Contents
  <2>4. IngestOK(j)' /\ ScanOK(j)'
    BY <2>1 DEF IngestOK, ScanOK, Copied
  <2>5. ExtractOK(j)'
    <3>1. SUFFICES ASSUME j.op = "extract", Copied(j) # scans[j.of].sha
                   PROVE  files'[scans[j.of].source] = Altered
      BY <1>0, <2>1 DEF JobOK, ExtractOK
    <3> DEFINE s == scans[j.of].source
    <3>2. /\ j.of \in DOMAIN scans /\ s \in DOMAIN sources
          /\ sources[s].kind = Raw /\ scans[j.of].sha = Original
      BY <1>0, <3>1 DEF JobOK, ExtractOK, VaultInv, RowsOK, RawAsUploaded, LineageHolds
    <3>3. Copied(j) = files[s] /\ s # j.name
      BY <1>0, <2>1, <3>1, <3>2 DEF Copied, InputOf, JobOK, FileOK, Filing, Rows
    <3>4. files[s] = Altered
      BY <2>2, <3>1, <3>2, <3>3 DEF Contents
    <3> QED
      BY <2>1, <3>3, <3>4 DEF TypeOK
  <2>6. RegisterOK(j)'
    BY <1>0, <2>1 DEF JobOK, RegisterOK, CopyAccepted
  <2> QED
    BY <2>3, <2>4, <2>5, <2>6 DEF JobOK, j
<1>4. CASE InsertSource(t) \/ InsertArtifact(t) \/ InsertScan(t)
  <2>1. j'.op = j.op /\ j'.of = j.of /\ j'.rec = j.rec /\ j'.step = "stored"
    BY <1>0, <1>4 DEF InsertSource, InsertArtifact, InsertScan, Goto, TypeOK, Jobs, j
  <2>2. j'.name \in Rows'
    <3>1. CASE InsertSource(t)
      <4>1. j'.name = j.name
        BY <1>0, <3>1 DEF InsertSource, Goto, TypeOK, Jobs, j
      <4>2. \E row : sources' = Extend(sources, j.name, row)
        BY <3>1 DEF InsertSource, j
      <4> QED
        BY <4>1, <4>2 DEF Rows, Extend
    <3>2. CASE InsertArtifact(t)
      <4>1. j'.name = j.name
        BY <1>0, <3>2 DEF InsertArtifact, Goto, TypeOK, Jobs, j
      <4>2. \E row : artifacts' = Extend(artifacts, j.name, row)
        BY <3>2 DEF InsertArtifact, j
      <4> QED
        BY <4>1, <4>2 DEF Rows, Extend
    <3>3. CASE InsertScan(t)
      <4>1. PICK id \in Fresh : /\ \E row : scans' = Extend(scans, id, row)
                               /\ job' = [job EXCEPT ![t].step = "stored", ![t].name = id]
        BY <3>3 DEF InsertScan
      <4>2. j'.name = id
        BY <1>0, <4>1 DEF TypeOK, Jobs, j
      <4> QED
        BY <4>1, <4>2 DEF Rows, Extend
    <3> QED
      BY <1>4, <3>1, <3>2, <3>3
  <2>3. TablesGrow
    BY WorkDisturbsNothing
  <2>4. FileOK(j)' /\ IngestOK(j)' /\ ScanOK(j)' /\ ExtractOK(j)' /\ RegisterOK(j)'
    BY <1>0, <2>1, <2>2, <2>3 DEF FileOK, Filing, JobOK, IngestOK, ScanOK, ExtractOK, RegisterOK,
       TablesGrow
  <2> QED
    BY <2>4 DEF JobOK, j
<1> QED
  BY <1>1, <1>2, <1>3, <1>4 DEF Work, Ends

\* New rows and new names are fresh, or the request's own file.
LEMMA WorkNames ==
  ASSUME VaultInv, NEW t \in Threads, Work(t)
  PROVE  /\ Rows' \subseteq Rows \cup Fresh \cup {job[t].name}
         /\ Busy' \subseteq Busy
         /\ t \in Busy' /\ Filing(job'[t]) =>
              job'[t].name \in Fresh \/ (Filing(job[t]) /\ job'[t].name = job[t].name)
<1>0. t \in Busy /\ job[t] \in Jobs /\ TypeOK
  BY WorkersBusy DEF VaultInv
<1>1. Rows' \subseteq Rows \cup Fresh \cup {job[t].name}
  BY DEF Rows, tables, Extend, Work, Verify, CreateFile, FillFile, AbandonFile, InsertSource,
     InsertScan, InsertArtifact, RejectRow, FailInsert, GiveUp, Report, FailReport
<1>2. Busy' \subseteq Busy
  BY <1>0, WorkDisturbsNothing DEF Busy, Work, Verify, CreateFile, FillFile, AbandonFile,
     InsertSource, InsertScan, InsertArtifact, RejectRow, FailInsert, GiveUp, Report, FailReport,
     Finish,
     Goto, TypeOK
<1>3. ASSUME t \in Busy', Filing(job'[t])
      PROVE  job'[t].name \in Fresh \/ (Filing(job[t]) /\ job'[t].name = job[t].name)
  <2>1. CASE CreateFile(t)
    BY <1>0, <2>1 DEF CreateFile, TypeOK, Jobs
  <2>2. CASE FillFile(t)
    BY <1>0, <2>2 DEF FillFile, At, Filing, TypeOK, Jobs
  <2>3. CASE Verify(t) /\ ~Ends(t)
    BY <1>0, <1>3, <2>3 DEF Verify, Ends, Filing, TypeOK, Jobs
  <2>4. CASE InsertSource(t) \/ InsertScan(t) \/ InsertArtifact(t)
    BY <1>0, <1>3, <2>4 DEF InsertSource, InsertScan, InsertArtifact, Goto, Filing, TypeOK, Jobs
  <2>5. CASE Ends(t)
    BY <1>3, <2>5, EndsLeaveThread
  <2> QED
    BY <2>1, <2>2, <2>3, <2>4, <2>5 DEF Work, Ends
<1> QED
  BY <1>1, <1>2, <1>3

\* So all requests keep what they rely on, and their files stay apart.
LEMMA WorkKeepsJobs ==
  ASSUME VaultInv, NEW t \in Threads, Work(t)
  PROVE  JobsOK' /\ NamesApart'
<1>0. t \in Busy /\ job[t] \in Jobs /\ TypeOK
  BY WorkersBusy DEF VaultInv
<1>1. /\ Rows' \subseteq Rows \cup Fresh \cup {job[t].name}
      /\ Busy' \subseteq Busy
      /\ t \in Busy' /\ Filing(job'[t]) =>
           job'[t].name \in Fresh \/ (Filing(job[t]) /\ job'[t].name = job[t].name)
  BY WorkNames
<1>2. TablesGrow /\ FilesStay(NotOf(t)) /\ \A u \in Busy \ {t} : job'[u] = job[u]
  BY WorkDisturbsNothing
<1>3. \A u \in Busy : job[u].name \notin Fresh
  BY DEF Fresh
<1>4. ASSUME NEW u \in Busy \ {t}
      PROVE  JobOK(job[u])'
  <2>1. FilesStay(Rows \cup {job[u].name})
    BY <1>2 DEF FilesStay, NotOf
  <2>2. Filing(job[u]) => job[u].name \in DOMAIN files /\ job[u].name \notin Rows
    BY DEF VaultInv, JobsOK, JobOK, FileOK
  <2>3. ASSUME Filing(job[u]), job[t].step = "stored"
        PROVE  job[u].name \notin Rows'
    <3>1. job[t].name \in Rows
      BY <1>0, <2>3 DEF VaultInv, JobsOK, JobOK, FileOK
    <3> QED
      BY <1>1, <1>3, <2>2, <2>3, <3>1
  <2>4. ASSUME Filing(job[u]), job[t].step # "stored"
        PROVE  job[u].name \notin Rows'
    <3>1. job[u].name \in NotOf(t) \cap DOMAIN files
      BY <2>2, <2>4 DEF NotOf
    <3>2. job[u].name # job[t].name
      BY <1>0, <2>4, <3>1, OwnFileApart
    <3> QED
      BY <1>1, <1>3, <2>2, <2>4, <3>2
  <2> QED
    BY <1>2, <2>1, <2>3, <2>4, JobKept
<1>5. JobsOK'
  <2>1. t \in Busy' => JobOK(job[t])'
    BY OwnJobKept, EndsLeaveThread
  <2>2. \A u \in Busy' \ {t} : JobOK(job[u])'
    BY <1>1, <1>4
  <2> QED
    BY <2>1, <2>2 DEF JobsOK
<1>6. NamesApart'
  <2>1. \A u \in Busy' \ {t} : u \in Busy /\ job'[u] = job[u] /\ job[u].name \notin Fresh
    BY <1>1, <1>2, <1>3
  <2> QED
    BY <1>0, <1>1, <2>1 DEF VaultInv, NamesApart, Filing
<1> QED
  BY <1>5, <1>6
-----------------------------------------------------------------------------
\* The rows, step by step.

\* A registered recording, or an uploaded image, is inserted whole, once, and
\* with the hash it should have.
LEMMA InsertSourceKeepsRows ==
  ASSUME VaultInv, NEW t \in Threads, InsertSource(t)
  PROVE  RowsOK' /\ AtMostOnce'
<1> DEFINE j == job[t]
           row == IF j.op = "ingest"
                  THEN [kind |-> Raw, sha |-> j.sha, parent |-> NoId, artifact |-> NoId]
                  ELSE [kind |-> Video, sha |-> j.sha,
                        parent |-> artifacts[j.of].source, artifact |-> j.of]
<1>0. /\ t \in Busy /\ j \in Jobs /\ JobOK(j) /\ j.op \in {"ingest", "register"}
      /\ j.step = "written" /\ Work(t) /\ TypeOK
  BY BusyJobs DEF InsertSource, At, Work, VaultInv, JobsOK
<1>1. sources' = Extend(sources, j.name, row) /\ UNCHANGED <<files, scans, artifacts>>
  BY DEF InsertSource
<1>2. /\ j.name \in DOMAIN files /\ files[j.name] # Partial /\ j.name \notin DOMAIN sources
      /\ j.op = "ingest" => j.sha = Original
      /\ j.op = "register" => /\ j.of \in DOMAIN artifacts /\ j.of # NoId
                              /\ j.sha = artifacts[j.of].sha /\ ~Registered(j.of)
  BY <1>0, VaultConstants DEF JobOK, FileOK, IngestOK, RegisterOK, Filing, Rows, InsertSource,
     InsertAllowed, TypeOK
<1>3. /\ j.op = "ingest" => row.kind = Raw /\ row.sha = Original /\ row.artifact = NoId
      /\ j.op = "register" => /\ row.kind = Video /\ row.sha = artifacts[j.of].sha
                              /\ row.parent = artifacts[j.of].source /\ row.artifact = j.of
  BY <1>2
<1> HIDE DEF j, row
<1>4. /\ DOMAIN sources' = DOMAIN sources \cup {j.name} /\ sources'[j.name] = row
      /\ \A s \in DOMAIN sources : sources'[s] = sources[s]
  BY <1>1, <1>2 DEF Extend
<1>5. RowsHaveWholeFiles'
  BY <1>1, <1>2, <1>4 DEF VaultInv, RowsOK, RowsHaveWholeFiles
<1>6. RawAsUploaded'
  BY <1>0, <1>3, <1>4 DEF VaultInv, RowsOK, RawAsUploaded, Raw, Video
<1>7. LineageHolds'
  BY <1>0, <1>1, <1>2, <1>3, <1>4 DEF VaultInv, RowsOK, LineageHolds
<1>8. AtMostOnce'
  BY <1>0, <1>1, <1>2, <1>3, <1>4 DEF VaultInv, AtMostOnce, Registered
<1> QED
  BY <1>5, <1>6, <1>7, <1>8 DEF RowsOK

\* A scan is of an image with the hash that was verified.
LEMMA InsertScanKeepsRows ==
  ASSUME VaultInv, NEW t \in Threads, InsertScan(t)
  PROVE  RowsOK' /\ AtMostOnce'
<1> DEFINE j == job[t]
<1>0. t \in Busy /\ j \in Jobs /\ JobOK(j) /\ j.op = "scan" /\ j.step = "verified"
  BY BusyJobs DEF InsertScan, At, VaultInv, JobsOK
<1>1. PICK id \in Fresh : scans' = Extend(scans, id, [source |-> j.of, sha |-> j.sha])
  BY DEF InsertScan
<1>2. UNCHANGED <<files, sources, artifacts>>
  BY DEF InsertScan
<1>3. j.of \in DOMAIN sources /\ sources[j.of].kind = Raw /\ j.sha = sources[j.of].sha
  BY <1>0 DEF JobOK, ScanOK
<1> HIDE DEF j
<1>4. /\ id \notin DOMAIN scans /\ DOMAIN scans' = DOMAIN scans \cup {id}
      /\ scans'[id].source = j.of /\ scans'[id].sha = j.sha
      /\ \A s \in DOMAIN scans : scans'[s] = scans[s]
  BY <1>1 DEF Extend, Fresh, Rows
<1>5. RowsHaveWholeFiles' /\ RawAsUploaded' /\ AtMostOnce'
  BY <1>2 DEF VaultInv, RowsOK, RowsHaveWholeFiles, RawAsUploaded, AtMostOnce
<1>6. LineageHolds'
  BY <1>2, <1>3, <1>4 DEF VaultInv, RowsOK, LineageHolds
<1> QED
  BY <1>5, <1>6 DEF RowsOK

\* A recording is inserted whole and once, and differs from what was verified
\* only if the image is altered.
LEMMA InsertArtifactKeepsRows ==
  ASSUME VaultInv, NEW t \in Threads, InsertArtifact(t)
  PROVE  RowsOK' /\ AtMostOnce'
<1> DEFINE j == job[t]
           row == [scan |-> j.of, source |-> scans[j.of].source, rec |-> j.rec, sha |-> j.sha]
<1>0. t \in Busy /\ j \in Jobs /\ JobOK(j) /\ j.op = "extract" /\ j.step = "written"
  BY BusyJobs DEF InsertArtifact, At, VaultInv, JobsOK
<1>1. artifacts' = Extend(artifacts, j.name, row) /\ UNCHANGED <<files, sources, scans>>
  BY DEF InsertArtifact
<1>2. /\ j.name \in DOMAIN files /\ files[j.name] # Partial /\ j.name \notin Rows
      /\ j.of \in DOMAIN scans
      /\ j.sha # scans[j.of].sha => files[scans[j.of].source] = Altered
      /\ ~Extracted(j.of, j.rec)
  BY <1>0 DEF JobOK, FileOK, ExtractOK, Filing, InsertArtifact, InsertAllowed
<1>3. /\ row.scan = j.of /\ row.source = scans[j.of].source /\ row.rec = j.rec
      /\ row.sha = j.sha
  OBVIOUS
<1> HIDE DEF j, row
<1>4. /\ DOMAIN artifacts' = DOMAIN artifacts \cup {j.name} /\ artifacts'[j.name] = row
      /\ \A a \in DOMAIN artifacts : artifacts'[a] = artifacts[a]
  BY <1>1, <1>2 DEF Extend, Rows
<1>5. RowsHaveWholeFiles' /\ RawAsUploaded'
  BY <1>1, <1>2, <1>4 DEF VaultInv, RowsOK, RowsHaveWholeFiles, RawAsUploaded
<1>6. LineageHolds'
  BY <1>1, <1>2, <1>3, <1>4 DEF VaultInv, RowsOK, LineageHolds
<1>7. AtMostOnce'
  BY <1>1, <1>2, <1>3, <1>4 DEF VaultInv, AtMostOnce, Extracted
<1> QED
  BY <1>5, <1>6, <1>7 DEF RowsOK

\* All other work leaves the tables alone.
LEMMA WorkKeepsRows ==
  ASSUME VaultInv, NEW t \in Threads, Work(t)
  PROVE  RowsOK' /\ AtMostOnce'
<1>1. FilesStay(Rows)
  BY WorkDisturbsNothing DEF FilesStay, NotOf
<1>2. UNCHANGED tables \/ InsertSource(t) \/ InsertScan(t) \/ InsertArtifact(t)
  BY DEF Work, Verify, CreateFile, FillFile, AbandonFile, RejectRow, FailInsert, GiveUp, Report,
     FailReport, tables
<1> QED
  BY <1>1, <1>2, RowsKept, InsertSourceKeepsRows, InsertScanKeepsRows, InsertArtifactKeepsRows
-----------------------------------------------------------------------------
\* What is left behind, step by step.

\* A request that ends has removed its file, or has a reported row for it.
LEMMA EndsLeaveNothing ==
  ASSUME VaultInv, NEW t \in Threads, Work(t), Ends(t)
  PROVE  NothingLeftBehind'
<1> DEFINE j == job[t]
<1>0. t \in Busy /\ j \in Jobs /\ FileOK(j) /\ TypeOK
  BY WorkersBusy DEF VaultInv, JobOK
<1>1. Busy' = Busy \ {t} /\ \A u \in Busy \ {t} : job'[u] = job[u]
  BY EndsLeaveThread, WorkDisturbsNothing
<1>2. UNCHANGED <<sources, scans, artifacts>> /\ missed \subseteq missed'
  BY <1>0 DEF tables, Ends, Verify, AbandonFile, RejectRow, FailInsert, GiveUp, Report,
     FailReport, TypeOK
<1>4. NoId \notin DOMAIN files /\ NoId \notin Rows
  BY <1>0, VaultConstants DEF TypeOK, Rows
<1>5. CASE Report(t)
  <2>1. files' = files /\ reported' = reported \cup {j.name} /\ j.name \in Rows
    BY <1>0, <1>5 DEF Report, FileOK
  <2> QED
    BY <1>1, <1>2, <2>1 DEF VaultInv, NothingLeftBehind, Rows
<1>6. CASE files' = files /\ reported' = reported /\ j.step \in {"begun", "verified"}
  <2>1. j.name = NoId
    BY <1>0, <1>6 DEF FileOK
  <2> QED
    BY <1>1, <1>2, <1>4, <1>6, <2>1 DEF VaultInv, NothingLeftBehind, Rows
<1>7. CASE files' = Without(files, j.name) /\ reported' = reported
           /\ j.step \in {"verified", "writing", "written"}
  <2>1. j.name \notin Rows
    BY <1>0, <1>4, <1>7 DEF FileOK, Filing
  <2> QED
    BY <1>1, <1>2, <1>7, <2>1 DEF VaultInv, NothingLeftBehind, Rows, Without
<1>8. CASE /\ FailInsert(t) /\ files' = files /\ reported' = reported /\ "row" \in missed'
           /\ j.step \in {"verified", "written"}
  <2>1. j.name \notin Rows
    BY <1>0, <1>4, <1>8 DEF FileOK, Filing
  <2> QED
    BY <1>1, <1>2, <1>8, <2>1 DEF VaultInv, NothingLeftBehind, Rows
<1>9. CASE FailReport(t)
  <2>1. files' = files /\ "event" \in missed' /\ j.name \in Rows
    BY <1>0, <1>9 DEF FailReport, FileOK
  <2> QED
    BY <1>1, <1>2, <2>1 DEF VaultInv, NothingLeftBehind, Rows
<1> QED
  <2>1. CASE AbandonFile(t) \/ RejectRow(t)
    BY <1>7, <2>1 DEF AbandonFile, RejectRow, ReadyToInsert, At
  <2>2. CASE FailInsert(t)
    BY <1>7, <1>8, <2>2 DEF FailInsert, ReadyToInsert, At
  <2>3. CASE Verify(t) \/ GiveUp(t)
    BY <1>6, <2>3 DEF Verify, GiveUp, At
  <2> QED
    BY <1>5, <1>9, <2>1, <2>2, <2>3 DEF Ends

\* A request that moves on accounts for the file it creates and the row it adds.
LEMMA MovesLeaveNothing ==
  ASSUME VaultInv, NEW t \in Threads, Work(t), ~Ends(t)
  PROVE  NothingLeftBehind'
<1> USE DEF tables
<1> DEFINE j == job[t]
<1>0. t \in Busy /\ j \in Jobs /\ FileOK(j) /\ TypeOK
  BY WorkersBusy DEF VaultInv, JobOK
<1>1. \A u \in Busy \ {t} : u \in Busy' /\ job'[u] = job[u]
  BY WorkDisturbsNothing DEF Busy
<1>2. missed' = missed /\ reported' = reported
  BY DEF Work, Ends, Verify, CreateFile, FillFile, InsertSource, InsertScan, InsertArtifact
<1>3. t \in Busy' /\ (~(CreateFile(t) \/ InsertScan(t)) => job'[t].name = j.name)
  <2>1. CASE CreateFile(t) \/ InsertScan(t)
    <3>1. PICK id \in Fresh, step \in {"writing", "stored"} :
             job' = [job EXCEPT ![t].step = step, ![t].name = id]
      BY <2>1 DEF CreateFile, InsertScan
    <3>2. job'[t] \in Jobs
      BY <1>0, <3>1 DEF TypeOK, Jobs, Fresh, Steps
    <3> QED
      BY <1>0, <2>1, <3>2, IdleIsNoJob DEF Busy
  <2>2. CASE ~(CreateFile(t) \/ InsertScan(t))
    <3>1. /\ job'[t].name = j.name /\ job'[t] \in Jobs
      <4>1. CASE Verify(t)
        <5>1. RecordedHash(j) \in Contents
          BY <1>0, <4>1, InputStored DEF Verify, At
        <5> QED
          BY <1>0, <4>1, <5>1 DEF Verify, Ends, TypeOK, Jobs, Steps
      <4>2. CASE FillFile(t)
        <5>1. Copied(j) \in Contents
          BY <1>0, CopiesWhole
        <5> QED
          BY <1>0, <4>2, <5>1 DEF FillFile, TypeOK, Jobs, Steps
      <4>3. CASE InsertSource(t) \/ InsertArtifact(t)
        BY <1>0, <4>3 DEF InsertSource, InsertArtifact, Goto, TypeOK, Jobs, Steps
      <4> QED
        BY <2>2, <4>1, <4>2, <4>3 DEF Work, Ends
    <3> QED
      BY <1>0, <2>2, <3>1, IdleIsNoJob DEF Busy
  <2> QED
    BY <2>1, <2>2
<1>4. NoId \notin DOMAIN files /\ NoId \notin Rows
  BY <1>0, VaultConstants DEF TypeOK, Rows
<1>5. CASE CreateFile(t)
  <2>1. PICK id \in Fresh : /\ files' = Extend(files, id, Partial)
                           /\ job' = [job EXCEPT ![t].step = "writing", ![t].name = id]
    BY <1>5 DEF CreateFile
  <2>2. job'[t].name = id /\ DOMAIN files' = DOMAIN files \cup {id} /\ j.name = NoId
    BY <1>0, <1>5, <2>1 DEF CreateFile, At, FileOK, TypeOK, Jobs, Extend
  <2>3. UNCHANGED <<sources, scans, artifacts>>
    BY <1>5 DEF CreateFile
  <2> QED
    BY <1>1, <1>2, <1>3, <1>4, <2>2, <2>3 DEF VaultInv, NothingLeftBehind, Rows
<1>6. CASE InsertScan(t)
  <2>1. PICK id \in Fresh : /\ \E row : scans' = Extend(scans, id, row)
                           /\ job' = [job EXCEPT ![t].step = "stored", ![t].name = id]
    BY <1>6 DEF InsertScan
  <2>2. job'[t].name = id /\ DOMAIN scans' = DOMAIN scans \cup {id} /\ j.name = NoId
    BY <1>0, <1>6, <2>1 DEF InsertScan, At, FileOK, TypeOK, Jobs, Extend
  <2>3. UNCHANGED <<files, sources, artifacts>>
    BY <1>6 DEF InsertScan
  <2> QED
    BY <1>1, <1>2, <1>3, <1>4, <2>2, <2>3 DEF VaultInv, NothingLeftBehind, Rows
<1>7. CASE ~(CreateFile(t) \/ InsertScan(t))
  <2>1. DOMAIN files' = DOMAIN files /\ Rows \subseteq Rows' /\ Rows' \subseteq Rows \cup {j.name}
    <3>1. CASE Verify(t) \/ FillFile(t)
      BY <1>0, <3>1 DEF Verify, FillFile, Rows, TypeOK
    <3>2. CASE InsertSource(t) \/ InsertArtifact(t)
      BY <3>2 DEF InsertSource, InsertArtifact, Extend, Rows
    <3> QED
      BY <1>7, <3>1, <3>2 DEF Work, Ends
  <2> QED
    BY <1>1, <1>2, <1>3, <1>7, <2>1 DEF VaultInv, NothingLeftBehind
<1> QED
  BY <1>5, <1>6, <1>7

-----------------------------------------------------------------------------
\* The invariant.

\* An empty vault has no files, rows or requests.
LEMMA InitEstablishes == Init => VaultInv
<1> SUFFICES ASSUME Init
             PROVE  VaultInv
  OBVIOUS
<1>1. Busy = {} /\ DOMAIN Empty = {} /\ 0 \in 0 .. MaxAlterations
  BY VaultConstants DEF Busy, Init, Empty
<1>2. TypeOK
  BY <1>1 DEF Init, TypeOK, Empty
<1> QED
  BY <1>1, <1>2 DEF Init, VaultInv, RowsOK, RowsHaveWholeFiles, RawAsUploaded, LineageHolds,
     AtMostOnce, JobsOK, NamesApart, NothingLeftBehind, Rows

\* A request begins with rows that exist, and no file.
LEMMA ArriveKeeps ==
  ASSUME VaultInv, NEW t \in Threads, NEW u \in Users, Arrive(t, u), TypeOK'
  PROVE  VaultInv'
<1>1. PICK op \in Ops, of \in Ids \cup {NoId}, rec \in Recordings \cup {NoId} :
         /\ Begin(t, u, op, of, rec)
         /\ op = "scan" => of \in DOMAIN sources /\ sources[of].kind = Raw
         /\ op = "extract" => of \in DOMAIN scans /\ rec \in Recordings
         /\ op = "register" => of \in DOMAIN artifacts
  BY DEF Arrive, BeginIngest, BeginScan, BeginExtract, BeginRegister, Ops
<1> DEFINE new == [op |-> op, user |-> u, of |-> of, rec |-> rec, name |-> NoId,
                   sha |-> Partial, step |-> "begun"]
<1>2. new \in Jobs
  BY DEF Jobs, Steps
<1>3. /\ UNCHANGED <<files, sources, scans, artifacts, reported, missed>>
      /\ t \notin Busy /\ Busy' = Busy \cup {t} /\ job'[t] = new
      /\ \A v \in Busy : job'[v] = job[v]
  BY <1>1, <1>2, IdleIsNoJob DEF Begin, tables, Busy, VaultInv, TypeOK
<1>4. FilesStay(Rows \cup DOMAIN files) /\ TablesGrow /\ Rows' = Rows
  BY <1>3 DEF FilesStay, TablesGrow, Rows
<1>5. RowsOK' /\ AtMostOnce'
  BY <1>3, <1>4, RowsKept DEF tables, FilesStay
<1>6. JobOK(job[t])'
  BY <1>1, <1>3 DEF JobOK, FileOK, Filing, IngestOK, ScanOK, ExtractOK, RegisterOK
<1>7. ASSUME NEW v \in Busy
      PROVE  JobOK(job[v])'
  <2>1. Filing(job[v]) => job[v].name \notin Rows'
    BY <1>4 DEF VaultInv, JobsOK, JobOK, FileOK
  <2> QED
    BY <1>3, <1>4, <2>1, JobKept DEF FilesStay
<1>8. JobsOK' /\ NamesApart'
  BY <1>3, <1>6, <1>7 DEF JobsOK, NamesApart, VaultInv, Filing
<1>9. NothingLeftBehind'
  BY <1>3, <1>4 DEF NothingLeftBehind, VaultInv
<1> QED
  BY <1>5, <1>8, <1>9 DEF VaultInv

\* An altered file is still a whole file.
LEMMA AlterKeeps ==
  ASSUME VaultInv, NEW id \in Ids, Alter(id), TypeOK'
  PROVE  VaultInv'
<1>1. /\ UNCHANGED <<sources, scans, artifacts, reported, missed, job>>
      /\ files[id] = Original /\ files' = [files EXCEPT ![id] = Altered]
  BY DEF Alter, tables
<1>2. FilesStay(Rows \cup DOMAIN files) /\ TablesGrow /\ Rows' = Rows /\ Busy' = Busy
      /\ DOMAIN files' = DOMAIN files
  BY <1>1, VaultConstants DEF FilesStay, TablesGrow, Rows, Busy
<1>3. RowsOK' /\ AtMostOnce'
  BY <1>1, <1>2, RowsKept DEF tables, FilesStay
<1>4. ASSUME NEW v \in Busy
      PROVE  JobOK(job[v])'
  <2>1. Filing(job[v]) => job[v].name \notin Rows'
    BY <1>2 DEF VaultInv, JobsOK, JobOK, FileOK
  <2> QED
    BY <1>1, <1>2, <2>1, JobKept DEF FilesStay
<1>5. JobsOK' /\ NamesApart' /\ NothingLeftBehind'
  BY <1>1, <1>2, <1>4 DEF JobsOK, NamesApart, NothingLeftBehind, VaultInv, Filing
<1> QED
  BY <1>3, <1>5 DEF VaultInv

\* Everything else touches neither tables nor files, and at most ends requests.
LEMMA SurroundingsKeep ==
  ASSUME VaultInv, TypeOK', UNCHANGED <<files, tables>>,
         (UNCHANGED <<reported, missed, job>>) \/ Crash
  PROVE  VaultInv'
<1>0. UNCHANGED <<sources, scans, artifacts>>
  BY DEF tables
<1>1. FilesStay(Rows \cup DOMAIN files) /\ TablesGrow /\ Rows' = Rows
  BY <1>0 DEF FilesStay, TablesGrow, Rows
<1>2. RowsOK' /\ AtMostOnce'
  BY <1>1, RowsKept DEF FilesStay
<1>3. CASE UNCHANGED <<reported, missed, job>>
  <2>1. Busy' = Busy
    BY <1>3 DEF Busy
  <2>2. ASSUME NEW v \in Busy
        PROVE  JobOK(job[v])'
    <3>1. Filing(job[v]) => job[v].name \notin Rows'
      BY <1>1 DEF VaultInv, JobsOK, JobOK, FileOK
    <3> QED
      BY <1>3, <1>1, <3>1, JobKept DEF FilesStay
  <2>3. JobsOK' /\ NamesApart' /\ NothingLeftBehind'
    BY <1>1, <1>3, <2>1, <2>2 DEF JobsOK, NamesApart, NothingLeftBehind, VaultInv, Filing
  <2> QED
    BY <1>2, <2>3 DEF VaultInv
<1>4. CASE Crash
  <2>1. Busy' = {} /\ missed' = {"row", "event"}
    BY <1>4 DEF Crash, Busy
  <2> QED
    BY <1>2, <2>1 DEF VaultInv, JobsOK, NamesApart, NothingLeftBehind
<1> QED
  BY <1>3, <1>4

\* Every step preserves the invariant.
LEMMA StepPreserves == VaultInv /\ [Next]_vars => VaultInv'
<1> SUFFICES ASSUME VaultInv, [Next]_vars
             PROVE  VaultInv'
  OBVIOUS
<1>0. TypeOK'
  BY TypePreserved
<1>1. ASSUME NEW t \in Threads, Work(t)
      PROVE  VaultInv'
  BY <1>0, <1>1, WorkKeepsJobs, WorkKeepsRows, EndsLeaveNothing, MovesLeaveNothing DEF VaultInv
<1>2. ASSUME NEW t \in Threads, NEW u \in Users, Arrive(t, u)
      PROVE  VaultInv'
  BY <1>0, <1>2, ArriveKeeps
<1>3. CASE CloseCase \/ \E u \in Users : ChangeEntitlement(u)
  BY <1>0, <1>3, SurroundingsKeep DEF CloseCase, ChangeEntitlement
<1>4. CASE Crash
  BY <1>0, <1>4, SurroundingsKeep DEF Crash
<1>5. ASSUME NEW id \in Ids, Alter(id)
      PROVE  VaultInv'
  BY <1>0, <1>5, AlterKeeps
<1>6. CASE UNCHANGED vars
  BY <1>0, <1>6, SurroundingsKeep DEF vars, tables
<1> QED
  BY <1>1, <1>2, <1>3, <1>4, <1>5, <1>6 DEF Next

\* The inductive invariant holds in every reachable state.
THEOREM VaultInvariant == Spec => []VaultInv
<1>1. Init => VaultInv
  BY InitEstablishes
<1>2. VaultInv /\ [Next]_vars => VaultInv'
  BY StepPreserves
<1> QED
  BY <1>1, <1>2, PTL DEF Spec

\* Whatever crashes, fails or races, every evidence and artifact row keeps a
\* whole file; without a crash or a failing insert no file stays without a row,
\* and without a crash or a refused event no row without its event, for ingest,
\* register_derived_file, scan and extract.
THEOREM FilesAlwaysMatchRows == Spec => []FilesMatchRows
<1>1. VaultInv => FilesMatchRows
  BY DEF VaultInv, RowsOK, FilesMatchRows
<1> QED
  BY <1>1, VaultInvariant, PTL

\* However many requests run at once, no recording of a scan is extracted
\* twice and no artifact is registered twice.
THEOREM NothingTwice == Spec => []AtMostOnce
<1>1. VaultInv => AtMostOnce
  BY DEF VaultInv
<1> QED
  BY <1>1, VaultInvariant, PTL

\* The lineage of every registered recording leads to a disk image with the
\* hash that was scanned, also when files are altered at any moment.
THEOREM LineageAlwaysHolds == Spec => []LineageHolds
<1>1. VaultInv => LineageHolds
  BY DEF VaultInv, RowsOK
<1> QED
  BY <1>1, VaultInvariant, PTL
-----------------------------------------------------------------------------
\* The vault implements the lineage of items.

\* A row is in one table.
TablesApart ==
  /\ DOMAIN sources \cap DOMAIN scans = {} /\ DOMAIN sources \cap DOMAIN artifacts = {}
  /\ DOMAIN scans \cap DOMAIN artifacts = {}

\* An item, table by table.
ItemsTold ==
  /\ DOMAIN Items = Rows
  /\ \A i \in DOMAIN scans :
       Items[i] = Item("scan", scans[i].source, scans[i].source, NoId, scans[i].sha)
  /\ \A i \in DOMAIN artifacts :
       Items[i] = Item("recording", artifacts[i].source, artifacts[i].scan, artifacts[i].rec,
                       artifacts[i].sha)
  /\ \A i \in DOMAIN sources :
       Items[i] = IF sources[i].kind = Raw
                  THEN Item("image", i, NoId, NoId, sources[i].sha)
                  ELSE Item("evidence", sources[i].parent, sources[i].artifact, NoId,
                            sources[i].sha)

\* It is so before and after a step.
LEMMA ItemOf == (TablesApart => ItemsTold) /\ (TablesApart' => ItemsTold')
<1>1. TablesApart => ItemsTold
  BY DEF ItemsTold, Items, Rows, TablesApart
<1>2. TablesApart' => ItemsTold'
  BY DEF ItemsTold, Items, Rows, TablesApart
<1> QED
  BY <1>1, <1>2

\* The fields of an item.
LEMMA ItemFields ==
  ASSUME NEW kind, NEW image, NEW from, NEW rec, NEW sha
  PROVE  /\ Item(kind, image, from, rec, sha).kind = kind
         /\ Item(kind, image, from, rec, sha).from = from
         /\ Item(kind, image, from, rec, sha).rec = rec
BY DEF Item

\* What an item's kind says of its row.
LEMMA ItemKinds ==
  ASSUME TablesApart, NEW i \in DOMAIN Items
  PROVE  /\ Items[i].kind = "recording" =>
              /\ i \in DOMAIN artifacts
              /\ artifacts[i].scan = Items[i].from /\ artifacts[i].rec = Items[i].rec
         /\ Items[i].kind = "evidence" =>
              i \in DOMAIN sources /\ sources[i].artifact = Items[i].from
<1>1. ItemsTold
  BY ItemOf
<1>2. CASE i \in DOMAIN scans
  BY <1>1, <1>2, ItemFields DEF ItemsTold
<1>3. CASE i \in DOMAIN artifacts
  BY <1>1, <1>3, ItemFields DEF ItemsTold
<1>4. CASE i \in DOMAIN sources
  <2>1. CASE sources[i].kind = Raw
    BY <1>1, <1>4, <2>1, ItemFields DEF ItemsTold
  <2>2. CASE sources[i].kind # Raw
    BY <1>1, <1>4, <2>2, ItemFields DEF ItemsTold
  <2> QED
    BY <2>1, <2>2
<1> QED
  BY <1>1, <1>2, <1>3, <1>4 DEF ItemsTold, Rows

\* A row that is added is an item that is added: the others stay as they are.
LEMMA ItemAdded ==
  ASSUME TablesApart, TablesApart', TablesGrow, UNCHANGED closed, NEW id, id \notin Rows,
         Rows' = Rows \cup {id}, NEW item, Items'[id] = item
  PROVE  Lineage!Add(id, item)
<1>1. DOMAIN Items = Rows /\ DOMAIN Items' = Rows \cup {id}
  BY DEF Items
<1>2. ASSUME NEW k \in Rows PROVE Items'[k] = Items[k]
  <2>1. CASE k \in DOMAIN scans
    BY <2>1, ItemOf DEF ItemsTold, TablesGrow
  <2>2. CASE k \in DOMAIN artifacts
    BY <2>2, ItemOf DEF ItemsTold, TablesGrow
  <2>3. CASE k \in DOMAIN sources
    BY <2>3, ItemOf DEF ItemsTold, TablesGrow
  <2> QED
    BY <2>1, <2>2, <2>3 DEF Rows
<1>3. Items' = [k \in DOMAIN Items \cup {id} |-> IF k = id THEN item ELSE Items[k]]
  <2>1. Items' = [k \in Rows' |-> Items'[k]]
    BY DEF Items
  <2> QED
    BY <1>1, <1>2, <2>1
<1> QED
  BY <1>1, <1>3 DEF Lineage!Add

\* An insert adds one row under a name that no row has.
LEMMA InsertsAdd ==
  ASSUME VaultInv, TablesApart, NEW t \in Threads
  PROVE  /\ InsertSource(t) \/ InsertArtifact(t) =>
              /\ job[t].name \in Ids \ Rows /\ Rows' = Rows \cup {job[t].name} /\ TablesApart'
         /\ InsertScan(t) =>
              \E id \in Ids \ Rows :
                /\ scans' = Extend(scans, id, [source |-> job[t].of, sha |-> job[t].sha])
                /\ Rows' = Rows \cup {id} /\ TablesApart'
<1>1. ASSUME InsertSource(t) \/ InsertArtifact(t)
      PROVE  /\ job[t].name \in Ids \ Rows /\ Rows' = Rows \cup {job[t].name} /\ TablesApart'
  <2>1. t \in Busy /\ job[t] \in Jobs /\ JobOK(job[t]) /\ job[t].step = "written"
    BY <1>1, WorkersBusy DEF Work, InsertSource, InsertArtifact, At
  <2>2. job[t].name \in DOMAIN files /\ job[t].name \notin Rows
    BY <2>1 DEF JobOK, FileOK, Filing
  <2>3. job[t].name \in Ids
    BY <2>2 DEF VaultInv, TypeOK
  <2>4. \/ /\ DOMAIN sources' = DOMAIN sources \cup {job[t].name}
           /\ UNCHANGED <<scans, artifacts>>
        \/ /\ DOMAIN artifacts' = DOMAIN artifacts \cup {job[t].name}
           /\ UNCHANGED <<scans, sources>>
    BY <1>1 DEF InsertSource, InsertArtifact, Extend
  <2> QED
    BY <2>2, <2>3, <2>4 DEF Rows, TablesApart
<1>2. ASSUME InsertScan(t)
      PROVE  \E id \in Ids \ Rows :
               /\ scans' = Extend(scans, id, [source |-> job[t].of, sha |-> job[t].sha])
               /\ Rows' = Rows \cup {id} /\ TablesApart'
  <2>1. PICK id \in Fresh : scans' = Extend(scans, id, [source |-> job[t].of, sha |-> job[t].sha])
    BY <1>2 DEF InsertScan
  <2>2. id \in Ids \ Rows
    BY DEF Fresh
  <2>3. DOMAIN scans' = DOMAIN scans \cup {id} /\ UNCHANGED <<sources, artifacts>>
    BY <1>2, <2>1 DEF InsertScan, Extend
  <2> QED
    BY <2>1, <2>2, <2>3 DEF Rows, TablesApart
<1> QED
  BY <1>1, <1>2

\* Every other step leaves the rows, and so the items, as they are.
LEMMA NoInsert ==
  ASSUME [Next]_vars
  PROVE  \/ UNCHANGED <<sources, scans, artifacts>>
         \/ \E t \in Threads : InsertSource(t) \/ InsertScan(t) \/ InsertArtifact(t)
<1>1. ASSUME NEW t \in Threads, Work(t)
      PROVE  \/ UNCHANGED <<sources, scans, artifacts>>
             \/ InsertSource(t) \/ InsertScan(t) \/ InsertArtifact(t)
  BY <1>1 DEF Work, Verify, CreateFile, FillFile, AbandonFile, RejectRow, FailInsert, GiveUp,
     Report, FailReport, tables
<1>2. ASSUME NEW t \in Threads, NEW u \in Users, Arrive(t, u)
      PROVE  UNCHANGED <<sources, scans, artifacts>>
  BY <1>2 DEF Arrive, BeginIngest, BeginScan, BeginRegister, BeginExtract, Begin, tables
<1> QED
  BY <1>1, <1>2 DEF Next, CloseCase, ChangeEntitlement, Crash, Alter, vars, tables

\* An upload adds an image; a registration adds the evidence made of a recording
\* that no other was made of.
LEMMA SourceIsItem ==
  ASSUME VaultInv, TablesApart, NEW t \in Threads, InsertSource(t)
  PROVE  Lineage!Next
<1> DEFINE j == job[t]
<1>1. /\ t \in Busy /\ j \in Jobs /\ JobOK(j) /\ Work(t)
      /\ j.op \in {"ingest", "register"} /\ j.step = "written" /\ InsertAllowed(j)
  BY WorkersBusy DEF Work, InsertSource, At
<1>2. /\ j.name \in Ids /\ j.name \notin Rows /\ Rows' = Rows \cup {j.name} /\ TablesApart'
      /\ TablesGrow /\ UNCHANGED closed
  BY <1>1, InsertsAdd, WorkDisturbsNothing DEF InsertSource, caseState
<1>3. CASE j.op = "ingest"
  <2> DEFINE row == [kind |-> Raw, sha |-> j.sha, parent |-> NoId, artifact |-> NoId]
  <2>1. sources' = Extend(sources, j.name, row) /\ j.sha \in Contents
    BY <1>1, <1>3 DEF InsertSource, JobOK, FileOK
  <2>2. sources'[j.name] = row /\ j.name \in DOMAIN sources'
    BY <2>1 DEF Extend
  <2>3. Items'[j.name] = Item("image", j.name, NoId, NoId, j.sha)
    BY <1>2, <2>2, ItemOf DEF ItemsTold
  <2>4. Lineage!Upload(j.name, j.sha)
    BY <1>2, <2>3, ItemAdded DEF Lineage!Upload, Item
  <2> QED
    BY <1>2, <2>1, <2>4 DEF Lineage!Next
<1>4. CASE j.op = "register"
  <2> DEFINE row == [kind |-> Video, sha |-> j.sha,
                     parent |-> artifacts[j.of].source, artifact |-> j.of]
  <2>1. /\ sources' = Extend(sources, j.name, row)
        /\ j.of \in DOMAIN artifacts /\ j.sha = artifacts[j.of].sha /\ ~Registered(j.of)
    BY <1>1, <1>4 DEF InsertSource, JobOK, RegisterOK, InsertAllowed
  <2>2. sources'[j.name] = row /\ j.name \in DOMAIN sources'
    BY <2>1 DEF Extend
  <2>3. Items'[j.name] = Item("evidence", artifacts[j.of].source, j.of, NoId, artifacts[j.of].sha)
    BY <1>2, <2>1, <2>2, ItemOf DEF ItemsTold, Raw, Video
  <2>4. /\ j.of \in DOMAIN Items
        /\ Items[j.of] = Item("recording", artifacts[j.of].source, artifacts[j.of].scan,
                              artifacts[j.of].rec, artifacts[j.of].sha)
    BY <2>1, ItemOf DEF ItemsTold, Rows
  <2>5. ASSUME Lineage!MadeFrom("evidence", j.of, NoId) PROVE FALSE
    <3>1. PICK i \in DOMAIN Items : Items[i].kind = "evidence" /\ Items[i].from = j.of
      BY <2>5 DEF Lineage!MadeFrom, Lineage!Is
    <3>2. i \in DOMAIN sources /\ sources[i].artifact = j.of
      BY <3>1, ItemKinds
    <3> QED
      BY <2>1, <3>2 DEF Registered
  <2>6. Lineage!Register(j.name, j.of)
    BY <1>2, <2>3, <2>4, <2>5, ItemAdded DEF Lineage!Register, Lineage!Is, Item
  <2> QED
    BY <1>2, <2>4, <2>6 DEF Lineage!Next
<1> QED
  BY <1>1, <1>3, <1>4

\* A scan is made of an image, in a case that is open, and carries its hash.
LEMMA ScanIsItem ==
  ASSUME VaultInv, TablesApart, NEW t \in Threads, InsertScan(t)
  PROVE  Lineage!Next
<1> DEFINE j == job[t]
<1>1. /\ t \in Busy /\ j \in Jobs /\ JobOK(j) /\ Work(t)
      /\ j.op = "scan" /\ j.step = "verified" /\ ~closed
  BY WorkersBusy DEF Work, InsertScan, At, InsertAllowed, ActiveScope
<1>2. TablesGrow /\ UNCHANGED closed
  BY <1>1, WorkDisturbsNothing DEF InsertScan, caseState
<1>3. j.of \in DOMAIN sources /\ sources[j.of].kind = Raw /\ j.sha = sources[j.of].sha
  BY <1>1 DEF JobOK, ScanOK
<1>4. PICK id \in Ids \ Rows : /\ scans' = Extend(scans, id, [source |-> j.of, sha |-> j.sha])
                              /\ Rows' = Rows \cup {id} /\ TablesApart'
  BY InsertsAdd
<1>5. id \in DOMAIN scans' /\ scans'[id] = [source |-> j.of, sha |-> j.sha]
  BY <1>4 DEF Extend
<1>6. Items'[id] = Item("scan", j.of, j.of, NoId, sources[j.of].sha)
  BY <1>3, <1>4, <1>5, ItemOf DEF ItemsTold
<1>7. j.of \in DOMAIN Items /\ Items[j.of] = Item("image", j.of, NoId, NoId, sources[j.of].sha)
  BY <1>3, ItemOf DEF ItemsTold, Rows
<1>8. Lineage!Scan(id, j.of)
  BY <1>1, <1>2, <1>4, <1>6, <1>7, ItemAdded DEF Lineage!Scan, Lineage!Is, Item
<1> QED
  BY <1>4, <1>7, <1>8 DEF Lineage!Next

\* A recording is extracted from a scan, in a case that is open, once.
LEMMA ArtifactIsItem ==
  ASSUME VaultInv, TablesApart, NEW t \in Threads, InsertArtifact(t)
  PROVE  Lineage!Next
<1> DEFINE j == job[t]
<1>1. /\ t \in Busy /\ j \in Jobs /\ JobOK(j) /\ Work(t)
      /\ j.op = "extract" /\ j.step = "written" /\ ~closed /\ ~Extracted(j.of, j.rec)
  BY WorkersBusy DEF Work, InsertArtifact, At, InsertAllowed, ActiveScope
<1>2. /\ j.name \in Ids /\ j.name \notin Rows /\ Rows' = Rows \cup {j.name} /\ TablesApart'
      /\ TablesGrow /\ UNCHANGED closed
  BY <1>1, InsertsAdd, WorkDisturbsNothing DEF InsertArtifact, caseState
<1>3. j.of \in DOMAIN scans /\ j.rec \in Recordings /\ j.sha \in Contents
  BY <1>1 DEF JobOK, FileOK, ExtractOK
<1> DEFINE row == [scan |-> j.of, source |-> scans[j.of].source, rec |-> j.rec, sha |-> j.sha]
<1>4. artifacts' = Extend(artifacts, j.name, row)
  BY DEF InsertArtifact
<1>5. artifacts'[j.name] = row /\ j.name \in DOMAIN artifacts'
  BY <1>4 DEF Extend
<1>6. Items'[j.name] = Item("recording", scans[j.of].source, j.of, j.rec, j.sha)
  BY <1>2, <1>5, ItemOf DEF ItemsTold
<1>7. /\ j.of \in DOMAIN Items
      /\ Items[j.of] = Item("scan", scans[j.of].source, scans[j.of].source, NoId, scans[j.of].sha)
  BY <1>3, ItemOf DEF ItemsTold, Rows
<1>8. ASSUME Lineage!MadeFrom("recording", j.of, j.rec) PROVE FALSE
  <2>1. PICK i \in DOMAIN Items : /\ Items[i].kind = "recording" /\ Items[i].from = j.of
                                 /\ Items[i].rec = j.rec
    BY <1>8 DEF Lineage!MadeFrom, Lineage!Is
  <2>2. i \in DOMAIN artifacts /\ artifacts[i].scan = j.of /\ artifacts[i].rec = j.rec
    BY <2>1, ItemKinds
  <2> QED
    BY <1>1, <2>2 DEF Extracted
<1>9. Lineage!Extract(j.name, j.of, j.rec, j.sha)
  BY <1>1, <1>2, <1>6, <1>7, <1>8, ItemAdded DEF Lineage!Extract, Lineage!Is, Item
<1> QED
  BY <1>2, <1>3, <1>7, <1>9 DEF Lineage!Next

\* Closing the case closes it; no other step opens or closes it.
LEMMA ClosedStays ==
  ASSUME [Next]_vars
  PROVE  UNCHANGED closed \/ (~closed /\ closed' = TRUE /\ UNCHANGED <<sources, scans, artifacts>>)
<1>1. ASSUME NEW t \in Threads, Work(t) PROVE UNCHANGED closed
  BY <1>1 DEF Work, Verify, CreateFile, FillFile, AbandonFile, InsertSource, InsertScan,
     InsertArtifact, RejectRow, FailInsert, GiveUp, Report, FailReport, caseState
<1>2. ASSUME NEW t \in Threads, NEW u \in Users, Arrive(t, u) PROVE UNCHANGED closed
  BY <1>2 DEF Arrive, BeginIngest, BeginScan, BeginRegister, BeginExtract, Begin, caseState
<1> QED
  BY <1>1, <1>2 DEF Next, CloseCase, ChangeEntitlement, Crash, Alter, vars, tables, caseState

\* Every step of the vault is a step of the lineage, or none.
LEMMA StepIsItem ==
  ASSUME VaultInv, TablesApart, [Next]_vars
  PROVE  [Lineage!Next]_Lineage!lineageVars
<1>1. ASSUME UNCHANGED <<sources, scans, artifacts>>
      PROVE  [Lineage!Next]_Lineage!lineageVars
  <2>1. Items' = Items
    BY <1>1 DEF Items, Rows
  <2> QED
    BY <1>1, <2>1, ClosedStays DEF Lineage!Next, Lineage!Close, Lineage!lineageVars
<1> QED
  BY <1>1, NoInsert, SourceIsItem, ScanIsItem, ArtifactIsItem

\* A row stays in one table.
LEMMA ApartKept ==
  ASSUME VaultInv, TablesApart, [Next]_vars
  PROVE  TablesApart'
BY NoInsert, InsertsAdd DEF TablesApart

\* Whatever crashes, fails, races or is altered, the rows of vault and recovery
\* are one history of items that are only added, each made from another that is
\* there, for any users, threads, identifiers and recordings.
THEOREM VaultImplementsLineage == Spec => ImplementsLineage
<1>1. Init => TablesApart
  BY DEF Init, TablesApart, Empty
<1>2. Init => Lineage!Init
  <2> SUFFICES ASSUME Init PROVE Lineage!Init
    OBVIOUS
  <2>1. Rows = {}
    BY DEF Init, Rows, Empty
  <2>2. Items = [i \in {} |-> NoId]
    BY <2>1 DEF Items
  <2> QED
    BY <2>2 DEF Init, Lineage!Init
<1>3. VaultInv /\ TablesApart /\ [Next]_vars => TablesApart'
  BY ApartKept
<1>4. VaultInv /\ TablesApart /\ [Next]_vars => [Lineage!Next]_Lineage!lineageVars
  BY StepIsItem
<1> QED
  BY <1>1, <1>2, <1>3, <1>4, VaultInvariant, PTL DEF Spec, ImplementsLineage, Lineage!Spec
=============================================================================
