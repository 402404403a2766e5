------------------------ MODULE BiometricGateProofs ------------------------
(***************************************************************************)
(* Proofs about controlled face analysis: analyses lie inside the window   *)
(* of their authorization, runs have whole previews and leave none behind, *)
(* tracks rest on runs, and a closed case gets nothing, for any number of  *)
(* threads, authorizations, runs, frames and instants.                     *)
(***************************************************************************)
EXTENDS BiometricGate, FiniteSetTheorems, TLAPS

-----------------------------------------------------------------------------
\* The inductive invariant: what each request at work may rely on.

\* Runs that tell their frames apart.
Chosen(linked) ==
  /\ linked \subseteq DOMAIN runs
  /\ \A r, s \in linked : runs[r].frame = runs[s].frame => r = s
  /\ Cardinality(linked) >= 2

AllRows == DOMAIN auths \cup DOMAIN runs \cup DOMAIN tracks

Saving(j) == j.step \in {"writing", "stamped"}

\* A row to be: its identifier is nobody's, and its date is in the past.
StampOK(j) ==
  /\ j.step \in {"begun", "permitted", "analysed"} => j.id = NoId
  /\ Saving(j) => j.at <= clock /\ j.id \notin AllRows

AuthorizeOK(j) == j.op = "authorize" =>
  /\ j.step \in {"begun", "stamped", "stored"}
  /\ j.step = "stamped" => j.id \in AuthIds
  /\ j.step = "stored" => j.id \in DOMAIN auths

\* The authorization an analysis was let in with.
PermitOK(j) == j.op # "authorize" /\ j.step \notin {"begun", "stored"} =>
  /\ j.auth \in DOMAIN auths
  /\ Saving(j) => auths[j.auth].at <= j.at

DetectOK(j) == j.op = "detect" =>
  /\ \E f \in Frames : j.frames = {f}
  /\ j.step # "analysed"
  /\ Saving(j) => j.id \in DOMAIN previews
  /\ j.step = "stamped" => previews[j.id] = "whole"
  /\ j.step = "stored" => j.id \in DOMAIN runs

TrackOK(j) == j.op = "track" =>
  /\ j.step # "writing"
  /\ j.step \in {"analysed", "stamped"} => Chosen(j.included)
  /\ j.step = "stamped" => j.id \in TrackIds /\ \A r \in j.included : runs[r].at <= j.at
  /\ j.step = "stored" => j.id \in DOMAIN tracks

JobOK(j) == StampOK(j) /\ AuthorizeOK(j) /\ PermitOK(j) /\ DetectOK(j) /\ TrackOK(j)

JobsOK == \A t \in Busy : JobOK(job[t])

\* No two requests save under one identifier.
IdsApart == \A t, u \in Busy : t # u /\ job[t].id # NoId => job[t].id # job[u].id

\* Nothing is dated in the future.
Dated ==
  /\ \A a \in DOMAIN auths : auths[a].at <= clock
  /\ \A r \in DOMAIN runs : runs[r].at <= clock

TracksOK ==
  \A k \in DOMAIN tracks :
    /\ Chosen(tracks[k].included)
    /\ \A r \in tracks[k].included : runs[r].at <= tracks[k].at

RowsOK == AnalysesInsideWindow /\ RunsHavePreviews /\ TracksOK /\ Dated

GateInv == TypeOK /\ RowsOK /\ JobsOK /\ IdsApart /\ NoPreviewLeftBehind

-----------------------------------------------------------------------------
\* The shape of the state.

\* A busy thread serves a request its step allows.
LEMMA BusyJobs ==
  ASSUME GateInv, NEW t \in Busy
  PROVE  t \in Threads /\ job[t] \in Jobs /\ JobOK(job[t])
BY DEF GateInv, TypeOK, Busy, JobsOK

\* A step of Work is one of a running request.
LEMMA WorkersBusy ==
  ASSUME GateInv, NEW t \in Threads, Work(t)
  PROVE  t \in Busy /\ job[t] \in Jobs /\ JobOK(job[t])
<1>1. t \in Busy
  BY DEF Work, Permit, Refuse, Associate, FailAnalysis, StampAuthorization, StampTracking,
     StampDetection, FillPreview, AbandonPreview, InsertAuthorization, InsertRun, InsertTrack,
     RejectRow, FailWrite, Conclude, At
<1> QED
  BY <1>1, BusyJobs

\* The steps of a request: it ends, or a record of its fields is replaced.
Ends(t) ==
  \/ Refuse(t) \/ FailAnalysis(t) \/ AbandonPreview(t) \/ RejectRow(t) \/ FailWrite(t)
  \/ Conclude(t)
  \/ StampAuthorization(t) /\ ~(job[t].until > clock)

\* What a step that does not end a request makes of it.
Moved(j, k) ==
  /\ k \in Jobs
  /\ k.op = j.op /\ k.frames = j.frames /\ k.until = j.until

\* A request that ends leaves its thread idle and the other threads alone.
LEMMA EndsLeaveThread ==
  ASSUME GateInv, NEW t \in Threads, Work(t), Ends(t)
  PROVE  job' = [job EXCEPT ![t] = Idle] /\ Busy' = Busy \ {t}
BY DEF Ends, Refuse, FailAnalysis, AbandonPreview, RejectRow, FailWrite, Conclude,
   StampAuthorization, Finish, GateInv, TypeOK, Busy

\* How each action moves its request.
LEMMA WorkMoves ==
  ASSUME GateInv, NEW t \in Threads, Work(t), ~Ends(t)
  PROVE  /\ t \in Busy' /\ Moved(job[t], job'[t])
         /\ \A u \in Threads \ {t} : job'[u] = job[u]
         /\ job' \in [Threads -> Jobs \cup {Idle}]
<1> DEFINE j == job[t]
<1>0. t \in Busy /\ j \in Jobs /\ TypeOK
  BY WorkersBusy DEF GateInv
<1>1. \E k : job' = [job EXCEPT ![t] = k] /\ Moved(j, k)
  <2>1. CASE Permit(t)
    <3>1. PICK a \in LatestActive : job' = [job EXCEPT ![t].step = "permitted", ![t].auth = a]
      BY <2>1 DEF Permit
    <3>2. a \in AuthIds
      BY <1>0 DEF LatestActive, Active, TypeOK
    <3>3. Moved(j, [j EXCEPT !.step = "permitted", !.auth = a])
      BY <1>0, <3>2 DEF Moved, Jobs, Steps
    <3> QED
      BY <1>0, <3>1, <3>3 DEF TypeOK
  <2>2. CASE Associate(t)
    <3>1. PICK chosen \in DistinctRuns(j.frames) :
             job' = [job EXCEPT ![t].step = "analysed", ![t].included = chosen]
      BY <2>2 DEF Associate
    <3>2. chosen \in SUBSET RunIds
      BY <1>0 DEF DistinctRuns, InRange, TypeOK
    <3>3. Moved(j, [j EXCEPT !.step = "analysed", !.included = chosen])
      BY <1>0, <3>2 DEF Moved, Jobs, Steps
    <3> QED
      BY <1>0, <3>1, <3>3 DEF TypeOK
  <2>3. CASE StampAuthorization(t) \/ StampTracking(t) \/ StampDetection(t)
    <3>1. PICK i \in AuthIds \cup RunIds \cup TrackIds, step \in {"writing", "stamped"} :
             job' = [job EXCEPT ![t].step = step, ![t].at = clock, ![t].id = i]
      BY <2>3 DEF StampAuthorization, StampTracking, StampDetection, Ends
    <3>2. Moved(j, [j EXCEPT !.step = step, !.at = clock, !.id = i])
      BY <1>0 DEF Moved, Jobs, Steps, TypeOK
    <3> QED
      BY <1>0, <3>1, <3>2 DEF TypeOK
  <2>4. CASE FillPreview(t) \/ InsertAuthorization(t) \/ InsertRun(t) \/ InsertTrack(t)
    <3>1. PICK step \in {"stamped", "stored"} : job' = [job EXCEPT ![t].step = step]
      BY <2>4 DEF FillPreview, InsertAuthorization, InsertRun, InsertTrack, Goto
    <3>2. Moved(j, [j EXCEPT !.step = step])
      BY <1>0 DEF Moved, Jobs, Steps
    <3> QED
      BY <1>0, <3>1, <3>2 DEF TypeOK
  <2> QED
    BY <2>1, <2>2, <2>3, <2>4 DEF Work, Ends
<1> QED
  BY <1>0, <1>1, IdleIsNoJob DEF TypeOK, Moved, Busy
\* A finished or filled preview, an added row: tables keep their shape.
LEMMA TypePreserved ==
  ASSUME GateInv, [Next]_gateVars
  PROVE  TypeOK'
<1> USE DEF tables
<1>0. TypeOK
  BY DEF GateInv
<1>1. ASSUME NEW t \in Threads, Work(t)
      PROVE  TypeOK'
  <2> DEFINE j == job[t]
  <2>0. t \in Busy /\ j \in Jobs /\ JobOK(j)
    BY <1>1, WorkersBusy
  <2>1. job' \in [Threads -> Jobs \cup {Idle}]
    <3>1. CASE Ends(t)
      BY <1>0, <1>1, <3>1, EndsLeaveThread DEF TypeOK
    <3>2. CASE ~Ends(t)
      BY <1>1, <3>2, WorkMoves
    <3> QED
      BY <3>1, <3>2
  <2>2. /\ UNCHANGED <<clock, moves>> /\ calm' \in BOOLEAN
        /\ UNCHANGED auths \/ InsertAuthorization(t)
        /\ UNCHANGED runs \/ InsertRun(t)
        /\ UNCHANGED tracks \/ InsertTrack(t)
        /\ UNCHANGED bound \/ Conclude(t)
    BY <1>0, <1>1 DEF Work, Permit, Refuse, Associate, FailAnalysis, StampAuthorization,
       StampTracking, StampDetection, FillPreview, AbandonPreview, InsertAuthorization, InsertRun,
       InsertTrack, RejectRow, FailWrite, Conclude, TypeOK
  <2>3. DOMAIN auths' \subseteq AuthIds /\ auths' \in [DOMAIN auths' -> AuthRows]
    <3>1. ASSUME InsertAuthorization(t)
          PROVE  /\ j.id \in AuthIds /\ [at |-> j.at, until |-> j.until] \in AuthRows
                 /\ auths' = Extend(auths, j.id, [at |-> j.at, until |-> j.until])
      BY <2>0, <3>1 DEF InsertAuthorization, At, JobOK, AuthorizeOK, Jobs, AuthRows
    <3> QED
      BY <1>0, <2>2, <3>1 DEF TypeOK, Extend
  <2>4. DOMAIN runs' \subseteq RunIds /\ runs' \in [DOMAIN runs' -> RunRows]
    <3> DEFINE row == [auth |-> j.auth, at |-> j.at, frame |-> CHOOSE f \in j.frames : TRUE]
    <3>1. ASSUME InsertRun(t)
          PROVE  j.id \in RunIds /\ row \in RunRows /\ runs' = Extend(runs, j.id, row)
      <4>1. PICK f \in Frames : j.frames = {f}
        BY <2>0, <3>1 DEF InsertRun, At, JobOK, DetectOK
      <4>2. (CHOOSE g \in j.frames : TRUE) \in Frames
        BY <4>1
      <4>3. j.auth \in AuthIds /\ j.id \in RunIds /\ j.at \in Times
        BY <1>0, <2>0, <3>1 DEF InsertRun, At, JobOK, DetectOK, PermitOK, Saving, Jobs, TypeOK
      <4> QED
        BY <3>1, <4>2, <4>3 DEF InsertRun, RunRows
    <3> HIDE DEF row
    <3> QED
      BY <1>0, <2>2, <3>1 DEF TypeOK, Extend
  <2>5. DOMAIN tracks' \subseteq TrackIds /\ tracks' \in [DOMAIN tracks' -> TrackRows]
    <3> DEFINE row == [auth |-> j.auth, at |-> j.at, included |-> j.included]
    <3>1. ASSUME InsertTrack(t)
          PROVE  j.id \in TrackIds /\ row \in TrackRows /\ tracks' = Extend(tracks, j.id, row)
      <4>1. j.auth \in AuthIds /\ j.id \in TrackIds /\ j.at \in Times /\ j.included \in SUBSET RunIds
        BY <1>0, <2>0, <3>1 DEF InsertTrack, At, JobOK, TrackOK, PermitOK, Saving, Jobs, TypeOK
      <4> QED
        BY <3>1, <4>1 DEF InsertTrack, TrackRows
    <3> HIDE DEF row
    <3> QED
      BY <1>0, <2>2, <3>1 DEF TypeOK, Extend
  <2>6. DOMAIN previews' \subseteq RunIds /\ previews' \in [DOMAIN previews' -> {"partial", "whole"}]
    <3>1. CASE StampDetection(t)
      <4>1. PICK r \in RunIds : previews' = Extend(previews, r, "partial")
        BY <3>1 DEF StampDetection
      <4> QED
        BY <1>0, <4>1 DEF TypeOK, Extend
    <3>2. CASE FillPreview(t)
      BY <1>0, <3>2 DEF FillPreview, TypeOK
    <3>3. CASE previews' \in {previews, Without(previews, j.id)}
      BY <1>0, <3>3 DEF TypeOK, Without
    <3> QED
      BY <1>1, <3>1, <3>2, <3>3 DEF Work, Permit, Refuse, Associate, FailAnalysis,
         StampAuthorization, StampTracking, AbandonPreview, InsertAuthorization, InsertRun,
         InsertTrack, RejectRow, FailWrite, Conclude
  <2>7. bound' \subseteq AuthIds \cup RunIds \cup TrackIds
    <3>1. ASSUME Conclude(t)
          PROVE  bound' = bound \cup {j.id} /\ j.id \in AuthIds \cup RunIds \cup TrackIds
      <4>1. j.id \in AllRows
        BY <2>0, <3>1 DEF Conclude, At, JobOK, AuthorizeOK, DetectOK, TrackOK, AllRows, Ops
      <4> QED
        BY <1>0, <3>1, <4>1 DEF Conclude, AllRows, TypeOK
    <3> QED
      BY <1>0, <2>2, <3>1 DEF TypeOK
  <2> QED
    BY <1>0, <2>1, <2>2, <2>3, <2>4, <2>5, <2>6, <2>7 DEF TypeOK
<1>2. ASSUME NEW t \in Threads, Arrive(t)
      PROVE  TypeOK'
  <2>1. PICK op \in Ops, frames \in SUBSET Frames, until \in 0 .. MaxTime + 1 :
           Begin(t, op, frames, until)
    <3>1. ASSUME NEW until \in 1 .. MaxTime + 1, BeginAuthorization(t, until)
          PROVE  /\ "authorize" \in Ops /\ {} \in SUBSET Frames /\ until \in 0 .. MaxTime + 1
                 /\ Begin(t, "authorize", {}, until)
      BY <3>1, GateConstants DEF BeginAuthorization, Ops
    <3>2. ASSUME NEW f \in Frames, BeginDetection(t, f)
          PROVE  /\ "detect" \in Ops /\ {f} \in SUBSET Frames /\ 0 \in 0 .. MaxTime + 1
                 /\ Begin(t, "detect", {f}, 0)
      BY <3>2, GateConstants DEF BeginDetection, Ops
    <3>3. ASSUME NEW f \in Frames, NEW g \in Frames, BeginTracking(t, f, g)
          PROVE  /\ "track" \in Ops /\ 0 \in 0 .. MaxTime + 1
                 /\ \E frames \in SUBSET Frames : Begin(t, "track", frames, 0)
      BY <3>3, GateConstants DEF BeginTracking, Ops
    <3> QED
      BY <1>2, <3>1, <3>2, <3>3 DEF Arrive
  <2>2. [op |-> op, step |-> "begun", auth |-> NoId, at |-> 0, until |-> until,
         frames |-> frames, included |-> {}, id |-> NoId] \in Jobs
    BY GateConstants DEF Jobs, Steps, Times
  <2> QED
    BY <1>0, <2>1, <2>2 DEF Begin, TypeOK
<1>3. ASSUME NEW to \in Statuses, Move(to)
      PROVE  TypeOK'
  BY <1>0, <1>3 DEF Move, TypeOK
<1>4. CASE Tick
  BY <1>0, <1>4, GateConstants DEF Tick, TypeOK, Times
<1>5. CASE Crash
  BY <1>0, <1>5 DEF Crash, TypeOK
<1>6. CASE UNCHANGED gateVars
  BY <1>0, <1>6 DEF gateVars, TypeOK
<1> QED
  BY <1>1, <1>2, <1>3, <1>4, <1>5, <1>6 DEF Next, Handle, Around

-----------------------------------------------------------------------------
\* What a step leaves alone.

\* Rows are never changed or deleted.
TablesGrow ==
  /\ \A a \in DOMAIN auths : a \in DOMAIN auths' /\ auths'[a] = auths[a]
  /\ \A r \in DOMAIN runs : r \in DOMAIN runs' /\ runs'[r] = runs[r]
  /\ \A k \in DOMAIN tracks : k \in DOMAIN tracks' /\ tracks'[k] = tracks[k]

\* These previews stay, and stay whole.
PreviewsStay(S) ==
  \A r \in S \cap DOMAIN previews : r \in DOMAIN previews' /\ previews'[r] = previews[r]

NotOf(t) == AllRows \cup {job[u].id : u \in Busy \ {t}}

\* The preview a request may write or remove belongs to no row and no one else.
LEMMA OwnIdApart ==
  ASSUME GateInv, NEW t \in Busy, Saving(job[t]), NEW i \in NotOf(t)
  PROVE  i # job[t].id /\ job[t].id # NoId
<1>1. job[t] \in Jobs /\ StampOK(job[t])
  BY BusyJobs DEF JobOK
<1>2. job[t].id # NoId
  <2>1. job[t].op = "authorize" => job[t].id \in AuthIds
    BY BusyJobs DEF JobOK, AuthorizeOK, Saving
  <2>2. job[t].op = "detect" => job[t].id \in RunIds
    BY BusyJobs DEF JobOK, DetectOK, GateInv, TypeOK
  <2>3. job[t].op = "track" => job[t].id \in TrackIds
    BY BusyJobs DEF JobOK, TrackOK, Saving
  <2> QED
    BY <1>1, <2>1, <2>2, <2>3, GateConstants DEF Jobs, Ops
<1> QED
  BY <1>1, <1>2 DEF NotOf, StampOK, GateInv, IdsApart

\* A thread at work disturbs no row and no preview of a row or of another request.
LEMMA WorkDisturbsNothing ==
  ASSUME GateInv, NEW t \in Threads, Work(t)
  PROVE  TablesGrow /\ PreviewsStay(NotOf(t)) /\ clock' = clock
<1> USE DEF tables
<1> DEFINE j == job[t]
<1>0. t \in Busy /\ j \in Jobs /\ JobOK(j) /\ TypeOK
  BY WorkersBusy DEF GateInv
<1>1. Saving(j) => j.id \notin NotOf(t) /\ j.id \notin AllRows
  BY <1>0, OwnIdApart DEF JobOK, StampOK
<1>2. clock' = clock
  BY DEF Work, Permit, Refuse, Associate, FailAnalysis, StampAuthorization, StampTracking,
     StampDetection, FillPreview, AbandonPreview, InsertAuthorization, InsertRun, InsertTrack,
     RejectRow, FailWrite, Conclude
<1>3. TablesGrow
  <2>1. CASE InsertAuthorization(t)
    <3>1. j.id \notin DOMAIN auths /\ \E row : auths' = Extend(auths, j.id, row)
      BY <1>1, <2>1 DEF InsertAuthorization, At, Saving, AllRows
    <3> QED
      BY <2>1, <3>1 DEF InsertAuthorization, TablesGrow, Extend
  <2>2. CASE InsertRun(t)
    <3>1. j.id \notin DOMAIN runs /\ \E row : runs' = Extend(runs, j.id, row)
      BY <1>1, <2>2 DEF InsertRun, At, Saving, AllRows
    <3> QED
      BY <2>2, <3>1 DEF InsertRun, TablesGrow, Extend
  <2>3. CASE InsertTrack(t)
    <3>1. j.id \notin DOMAIN tracks /\ \E row : tracks' = Extend(tracks, j.id, row)
      BY <1>1, <2>3 DEF InsertTrack, At, Saving, AllRows
    <3> QED
      BY <2>3, <3>1 DEF InsertTrack, TablesGrow, Extend
  <2>4. CASE UNCHANGED tables
    BY <2>4 DEF TablesGrow
  <2> QED
    BY <2>1, <2>2, <2>3, <2>4 DEF Work, Permit, Refuse, Associate, FailAnalysis,
       StampAuthorization, StampTracking, StampDetection, FillPreview, AbandonPreview, RejectRow,
       FailWrite, Conclude
<1>4. PreviewsStay(NotOf(t))
  <2>1. CASE StampDetection(t)
    <3>1. PICK r \in RunIds \ (DOMAIN runs \cup DOMAIN previews \cup Held) :
             previews' = Extend(previews, r, "partial")
      BY <2>1 DEF StampDetection
    <3> QED
      BY <3>1 DEF PreviewsStay, Extend
  <2>2. CASE FillPreview(t)
    BY <1>1, <2>2 DEF FillPreview, At, Saving, PreviewsStay
  <2>3. CASE AbandonPreview(t) \/ RejectRow(t)
    BY <1>1, <2>3 DEF AbandonPreview, RejectRow, At, Saving, PreviewsStay, Without
  <2>4. CASE UNCHANGED previews
    BY <2>4 DEF PreviewsStay
  <2> QED
    BY <2>1, <2>2, <2>3, <2>4 DEF Work, Permit, Refuse, Associate, FailAnalysis,
       StampAuthorization, StampTracking, InsertAuthorization, InsertRun, InsertTrack,
       FailWrite, Conclude
<1> QED
  BY <1>2, <1>3, <1>4
\* Chosen runs stay chosen while rows are only added.
LEMMA ChosenKept ==
  ASSUME NEW linked, Chosen(linked), TablesGrow
  PROVE  Chosen(linked)'
BY DEF Chosen, TablesGrow

\* A request keeps what it relies on while rows are only added, previews stay
\* and time passes.
LEMMA JobKept ==
  ASSUME GateInv, TypeOK', NEW u \in Busy, job'[u] = job[u], TablesGrow, clock <= clock',
         PreviewsStay({job[u].id}), Saving(job[u]) => job[u].id \notin AllRows'
  PROVE  JobOK(job[u])'
<1> DEFINE j == job[u]
<1>0. j \in Jobs /\ JobOK(j) /\ j' = j /\ TypeOK
  BY BusyJobs DEF GateInv
<1>1. StampOK(j)'
  <2>1. j.at \in Int /\ clock \in Int /\ clock' \in Int
    BY <1>0, GateConstants DEF Jobs, Times, TypeOK
  <2> QED
    BY <1>0, <2>1 DEF JobOK, StampOK, Saving
<1>2. AuthorizeOK(j)' /\ PermitOK(j)'
  BY <1>0 DEF JobOK, AuthorizeOK, PermitOK, Saving, TablesGrow
<1>3. DetectOK(j)'
  BY <1>0 DEF JobOK, DetectOK, Saving, TablesGrow, PreviewsStay
<1>4. TrackOK(j)'
  <2>1. \A linked : Chosen(linked) => Chosen(linked)' /\ linked \subseteq DOMAIN runs
    BY ChosenKept DEF Chosen
  <2> QED
    BY <1>0, <2>1 DEF JobOK, TrackOK, TablesGrow
<1> QED
  BY <1>1, <1>2, <1>3, <1>4 DEF JobOK

-----------------------------------------------------------------------------
\* The requests, step by step.

\* What a request relies on after a step of its own that does not end it.
LEMMA OwnJobKept ==
  ASSUME GateInv, TypeOK', NEW t \in Threads, Work(t), ~Ends(t)
  PROVE  JobOK(job[t])'
<1> USE DEF tables
<1> DEFINE j == job[t]
<1>0. t \in Busy /\ j \in Jobs /\ JobOK(j) /\ TypeOK /\ RowsOK
  BY WorkersBusy DEF GateInv
<1>1. TablesGrow /\ clock' = clock
  BY WorkDisturbsNothing
<1> HIDE DEF j
<1>2. CASE Permit(t)
  <2>1. PICK a \in LatestActive : job' = [job EXCEPT ![t].step = "permitted", ![t].auth = a]
    BY <1>2 DEF Permit
  <2>2. /\ j'.op = j.op /\ j'.frames = j.frames /\ j'.id = j.id /\ j'.step = "permitted"
        /\ j'.auth = a /\ a \in DOMAIN auths /\ j.step = "begun" /\ j.op \in {"detect", "track"}
    BY <1>0, <1>2, <2>1 DEF Permit, At, LatestActive, Active, TypeOK, Jobs, j
  <2> QED
    BY <1>0, <1>1, <2>2 DEF JobOK, StampOK, AuthorizeOK, PermitOK, DetectOK, TrackOK, Saving,
       TablesGrow, j
<1>3. CASE Associate(t)
  <2>1. PICK chosen \in DistinctRuns(j.frames) :
           /\ Cardinality(chosen) >= 2
           /\ job' = [job EXCEPT ![t].step = "analysed", ![t].included = chosen]
    BY <1>3 DEF Associate, j
  <2>2. /\ j'.op = "track" /\ j'.auth = j.auth /\ j'.id = j.id /\ j'.step = "analysed"
        /\ j'.included = chosen /\ j.step = "permitted" /\ j.op = "track"
        /\ UNCHANGED runs
    BY <1>0, <1>3, <2>1 DEF Associate, At, TypeOK, Jobs, j
  <2>3. Chosen(chosen)'
    BY <2>1, <2>2 DEF DistinctRuns, InRange, Chosen
  <2> QED
    BY <1>0, <1>1, <2>2, <2>3 DEF JobOK, StampOK, AuthorizeOK, PermitOK, DetectOK, TrackOK, Saving,
       TablesGrow, j
<1>4. CASE StampAuthorization(t)
  <2>0. job[t].until > clock
    BY <1>4 DEF Ends
  <2>1. PICK a \in AuthIds \ (DOMAIN auths \cup Held) :
           job' = [job EXCEPT ![t].step = "stamped", ![t].at = clock, ![t].id = a]
    BY <1>4, <2>0 DEF StampAuthorization
  <2>a. j.op = "authorize" /\ UNCHANGED <<auths, runs, tracks, clock>>
    BY <1>4 DEF StampAuthorization, At, tables, j
  <2>2. /\ j'.op = "authorize" /\ j'.id = a /\ j'.step = "stamped" /\ j'.at = clock
        /\ UNCHANGED <<auths, runs, tracks, clock>>
    BY <1>0, <2>1, <2>a DEF TypeOK, Jobs, j
  <2>3. a \notin AllRows /\ clock \in Int
    BY <1>0, GateConstants DEF AllRows, TypeOK, Times
  <2> QED
    BY <2>2, <2>3 DEF JobOK, StampOK, AuthorizeOK, PermitOK, DetectOK, TrackOK, Saving, AllRows, j
<1>5. CASE StampTracking(t)
  <2>1. PICK k \in TrackIds \ (DOMAIN tracks \cup Held) :
           job' = [job EXCEPT ![t].step = "stamped", ![t].at = clock, ![t].id = k]
    BY <1>5 DEF StampTracking
  <2>2. /\ j'.op = "track" /\ j'.id = k /\ j'.step = "stamped" /\ j'.at = clock
        /\ j'.auth = j.auth /\ j'.included = j.included
        /\ j.op = "track" /\ j.step = "analysed"
        /\ UNCHANGED <<auths, runs, tracks, clock>>
    BY <1>0, <1>5, <2>1 DEF StampTracking, At, TypeOK, Jobs, j
  <2>3. k \notin AllRows /\ clock \in Int
    BY <1>0, GateConstants DEF AllRows, TypeOK, Times
  <2>4. Chosen(j.included) /\ j.auth \in DOMAIN auths
    BY <1>0, <2>2 DEF JobOK, TrackOK, PermitOK
  <2>5. \A r \in j.included : runs[r].at <= clock
    BY <1>0, <2>4 DEF RowsOK, Dated, Chosen
  <2>6. StampOK(j)' /\ PermitOK(j)'
    BY <1>0, <2>2, <2>3, <2>4 DEF StampOK, PermitOK, Saving, AllRows, RowsOK, Dated
  <2>7. TrackOK(j)'
    BY <2>2, <2>4, <2>5 DEF TrackOK, Chosen
  <2> QED
    BY <2>2, <2>6, <2>7 DEF JobOK, AuthorizeOK, DetectOK, j
<1>6. CASE StampDetection(t)
  <2>1. PICK r \in RunIds \ (DOMAIN runs \cup DOMAIN previews \cup Held) :
           /\ previews' = Extend(previews, r, "partial")
           /\ job' = [job EXCEPT ![t].step = "writing", ![t].at = clock, ![t].id = r]
    BY <1>6 DEF StampDetection
  <2>2. /\ j'.op = "detect" /\ j'.id = r /\ j'.step = "writing" /\ j'.at = clock
        /\ j'.auth = j.auth /\ j'.frames = j.frames
        /\ j.op = "detect" /\ j.step = "permitted"
        /\ UNCHANGED <<auths, runs, tracks, clock>>
    BY <1>0, <1>6, <2>1 DEF StampDetection, At, TypeOK, Jobs, j
  <2>3. r \notin AllRows /\ clock \in Int /\ r \in DOMAIN previews'
    BY <1>0, <2>1, GateConstants DEF AllRows, TypeOK, Times, Extend
  <2>4. j.auth \in DOMAIN auths
    BY <1>0, <2>2 DEF JobOK, PermitOK
  <2>5. StampOK(j)' /\ PermitOK(j)'
    BY <1>0, <2>2, <2>3, <2>4 DEF StampOK, PermitOK, Saving, AllRows, RowsOK, Dated
  <2>6. DetectOK(j)'
    BY <1>0, <2>2, <2>3 DEF JobOK, DetectOK, Saving
  <2> QED
    BY <2>2, <2>5, <2>6 DEF JobOK, AuthorizeOK, TrackOK, j
<1>7. CASE FillPreview(t)
  <2>1. /\ j'.op = "detect" /\ j'.id = j.id /\ j'.step = "stamped" /\ j'.at = j.at
        /\ j'.auth = j.auth /\ j'.frames = j.frames
        /\ j.op = "detect" /\ j.step = "writing"
        /\ UNCHANGED <<auths, runs, tracks, clock>>
        /\ previews' = [previews EXCEPT ![j.id] = "whole"]
    BY <1>0, <1>7 DEF FillPreview, Goto, At, TypeOK, Jobs, j
  <2> QED
    BY <1>0, <2>1 DEF JobOK, StampOK, AuthorizeOK, PermitOK, DetectOK, TrackOK, Saving, AllRows,
       TypeOK, j
<1>8. CASE InsertAuthorization(t) \/ InsertRun(t) \/ InsertTrack(t)
  <2>1. j'.op = j.op /\ j'.id = j.id /\ j'.step = "stored" /\ j'.frames = j.frames
    BY <1>0, <1>8 DEF InsertAuthorization, InsertRun, InsertTrack, Goto, TypeOK, Jobs, j
  <2>2. /\ j.op = "authorize" => j.id \in DOMAIN auths'
        /\ j.op = "detect" => j.id \in DOMAIN runs'
        /\ j.op = "track" => j.id \in DOMAIN tracks'
    BY <1>8 DEF InsertAuthorization, InsertRun, InsertTrack, At, Extend, j
  <2> QED
    BY <1>0, <2>1, <2>2 DEF JobOK, StampOK, AuthorizeOK, PermitOK, DetectOK, TrackOK, Saving, j
<1> QED
  BY <1>2, <1>3, <1>4, <1>5, <1>6, <1>7, <1>8 DEF Work, Ends

\* New rows are the request's own, and a new identifier is nobody's.
LEMMA WorkNames ==
  ASSUME GateInv, NEW t \in Threads, Work(t)
  PROVE  /\ AllRows' \subseteq AllRows \cup (IF Saving(job[t]) THEN {job[t].id} ELSE {})
         /\ ~Ends(t) => job'[t].id = job[t].id \/ job'[t].id \notin Held
<1>0. t \in Busy /\ job[t] \in Jobs /\ TypeOK
  BY WorkersBusy DEF GateInv
<1>1. AllRows' \subseteq AllRows \cup (IF Saving(job[t]) THEN {job[t].id} ELSE {})
  BY DEF AllRows, Saving, At, tables, Extend, Work, Permit, Refuse, Associate, FailAnalysis,
     StampAuthorization, StampTracking, StampDetection, FillPreview, AbandonPreview,
     InsertAuthorization, InsertRun, InsertTrack, RejectRow, FailWrite, Conclude
<1>2. ASSUME ~Ends(t)
      PROVE  job'[t].id = job[t].id \/ job'[t].id \notin Held
  <2>1. CASE Permit(t) \/ Associate(t)
    BY <1>0, <2>1 DEF Permit, Associate, TypeOK, Jobs
  <2>2. CASE StampAuthorization(t) \/ StampTracking(t) \/ StampDetection(t)
    <3>1. CASE StampAuthorization(t)
      <4>1. job[t].until > clock
        BY <1>2, <3>1 DEF Ends
      <4>2. PICK a \in AuthIds \ (DOMAIN auths \cup Held) :
               job' = [job EXCEPT ![t].step = "stamped", ![t].at = clock, ![t].id = a]
        BY <3>1, <4>1 DEF StampAuthorization
      <4> QED
        BY <1>0, <4>2 DEF TypeOK, Jobs
    <3>2. CASE StampTracking(t)
      <4>1. PICK k \in TrackIds \ (DOMAIN tracks \cup Held) :
               job' = [job EXCEPT ![t].step = "stamped", ![t].at = clock, ![t].id = k]
        BY <3>2 DEF StampTracking
      <4> QED
        BY <1>0, <4>1 DEF TypeOK, Jobs
    <3>3. CASE StampDetection(t)
      <4>1. PICK r \in RunIds \ (DOMAIN runs \cup DOMAIN previews \cup Held) :
               job' = [job EXCEPT ![t].step = "writing", ![t].at = clock, ![t].id = r]
        BY <3>3 DEF StampDetection
      <4> QED
        BY <1>0, <4>1 DEF TypeOK, Jobs
    <3> QED
      BY <2>2, <3>1, <3>2, <3>3
  <2>3. CASE FillPreview(t) \/ InsertAuthorization(t) \/ InsertRun(t) \/ InsertTrack(t)
    BY <1>0, <2>3 DEF FillPreview, InsertAuthorization, InsertRun, InsertTrack, Goto, TypeOK, Jobs
  <2> QED
    BY <1>2, <2>1, <2>2, <2>3 DEF Work, Ends
<1> QED
  BY <1>1, <1>2
\* So all requests keep what they rely on, and their identifiers stay apart.
LEMMA WorkKeepsJobs ==
  ASSUME GateInv, TypeOK', NEW t \in Threads, Work(t)
  PROVE  JobsOK' /\ IdsApart'
<1>0. t \in Busy /\ job[t] \in Jobs /\ TypeOK
  BY WorkersBusy DEF GateInv
<1>1. /\ AllRows' \subseteq AllRows \cup (IF Saving(job[t]) THEN {job[t].id} ELSE {})
      /\ ~Ends(t) => job'[t].id = job[t].id \/ job'[t].id \notin Held
  BY WorkNames
<1>2. TablesGrow /\ PreviewsStay(NotOf(t)) /\ clock' = clock
  BY WorkDisturbsNothing
<1>3. \A u \in Busy \ {t} : u \in Threads /\ job'[u] = job[u]
  BY <1>0, EndsLeaveThread, WorkMoves DEF TypeOK, Busy
<1>4. Busy' \subseteq Busy /\ (t \in Busy' => ~Ends(t))
  BY <1>0, EndsLeaveThread, WorkMoves DEF Busy
<1>5. ASSUME NEW u \in Busy \ {t}
      PROVE  JobOK(job[u])'
  <2>1. PreviewsStay({job[u].id})
    <3>1. job[u].id \in NotOf(t)
      BY DEF NotOf
    <3> QED
      BY <1>2, <3>1 DEF PreviewsStay
  <2>2. Saving(job[u]) => job[u].id \notin AllRows /\ job[u].id # NoId
    <3>1. job[t].id \in NotOf(u)
      BY <1>0 DEF NotOf
    <3> QED
      BY <3>1, BusyJobs, OwnIdApart DEF JobOK, StampOK
  <2>3. Saving(job[u]) => job[u].id # job[t].id
    BY <1>0, <2>2 DEF GateInv, IdsApart
  <2>4. clock <= clock'
    BY <1>0, <1>2, GateConstants DEF TypeOK, Times
  <2> QED
    BY <1>1, <1>2, <1>3, <2>1, <2>2, <2>3, <2>4, JobKept
<1>6. JobsOK'
  BY <1>4, <1>5, OwnJobKept DEF JobsOK
<1>7. IdsApart'
  <2>1. \A u \in Busy' \ {t} : u \in Busy /\ job'[u] = job[u] /\ job[u].id \in Held
    BY <1>3, <1>4 DEF Held
  <2>2. t \in Busy' => job'[t].id = job[t].id \/ job'[t].id \notin Held
    BY <1>1, <1>4
  <2> QED
    BY <1>0, <2>1, <2>2 DEF GateInv, IdsApart
<1> QED
  BY <1>6, <1>7

-----------------------------------------------------------------------------
\* The rows, step by step.

\* Rows stay sound while tables do, previews of runs stay and time passes.
LEMMA RowsKept ==
  ASSUME GateInv, TypeOK', UNCHANGED tables, PreviewsStay(DOMAIN runs), clock <= clock'
  PROVE  RowsOK'
<1>0. UNCHANGED <<auths, runs, tracks>>
  BY DEF tables
<1>1. AnalysesInsideWindow' /\ TracksOK'
  BY <1>0 DEF GateInv, RowsOK, AnalysesInsideWindow, TracksOK, Chosen
<1>2. RunsHavePreviews'
  BY <1>0 DEF GateInv, RowsOK, RunsHavePreviews, PreviewsStay
<1>3. Dated'
  <2>1. /\ clock \in Int /\ clock' \in Int
        /\ \A a \in DOMAIN auths : auths[a].at \in Int
        /\ \A r \in DOMAIN runs : runs[r].at \in Int
    BY GateConstants DEF GateInv, TypeOK, Times, AuthRows, RunRows
  <2> QED
    BY <1>0, <2>1 DEF GateInv, RowsOK, Dated
<1> QED
  BY <1>1, <1>2, <1>3 DEF RowsOK

\* An authorization is dated in the past.
LEMMA InsertAuthorizationKeepsRows ==
  ASSUME GateInv, TypeOK', NEW t \in Threads, InsertAuthorization(t)
  PROVE  RowsOK'
<1> DEFINE j == job[t]
<1>0. t \in Busy /\ JobOK(j) /\ j.step = "stamped"
  BY BusyJobs DEF InsertAuthorization, At
<1>1. /\ auths' = Extend(auths, j.id, [at |-> j.at, until |-> j.until])
      /\ UNCHANGED <<clock, runs, tracks, previews>>
  BY DEF InsertAuthorization
<1>2. j.id \notin DOMAIN auths /\ j.at <= clock
  BY <1>0 DEF JobOK, StampOK, Saving, AllRows
<1> HIDE DEF j
<1>3. /\ DOMAIN auths' = DOMAIN auths \cup {j.id} /\ auths'[j.id].at = j.at
      /\ \A a \in DOMAIN auths : auths'[a] = auths[a]
  BY <1>1, <1>2 DEF Extend
<1>4. AnalysesInsideWindow'
  BY <1>1, <1>3 DEF GateInv, RowsOK, AnalysesInsideWindow
<1>5. RunsHavePreviews' /\ TracksOK' /\ Dated'
  BY <1>1, <1>2, <1>3 DEF GateInv, RowsOK, RunsHavePreviews, TracksOK, Chosen, Dated
<1> QED
  BY <1>4, <1>5 DEF RowsOK

\* A detection run is dated inside its authorization and has a whole preview.
LEMMA InsertRunKeepsRows ==
  ASSUME GateInv, TypeOK', NEW t \in Threads, InsertRun(t)
  PROVE  RowsOK'
<1> DEFINE j == job[t]
           row == [auth |-> j.auth, at |-> j.at, frame |-> CHOOSE f \in j.frames : TRUE]
<1>0. t \in Busy /\ JobOK(j) /\ j.step = "stamped" /\ j.op = "detect" /\ j \in Jobs
  BY BusyJobs DEF InsertRun, At
<1>1. /\ runs' = Extend(runs, j.id, row)
      /\ UNCHANGED <<clock, auths, tracks, previews>>
      /\ auths[j.auth].until > j.at
  BY <1>0 DEF InsertRun, InsertAllowed
<1>2. /\ j.id \notin DOMAIN runs /\ j.at <= clock
      /\ j.auth \in DOMAIN auths /\ auths[j.auth].at <= j.at
      /\ j.id \in DOMAIN previews /\ previews[j.id] = "whole"
  BY <1>0 DEF JobOK, StampOK, PermitOK, DetectOK, Saving, AllRows
<1>3. row.auth = j.auth /\ row.at = j.at
  OBVIOUS
<1>4. j.at \in Int /\ auths[j.auth].until \in Int
  BY <1>0, <1>2, GateConstants DEF Jobs, Times, GateInv, TypeOK, AuthRows
<1> HIDE DEF j, row
<1>5. /\ DOMAIN runs' = DOMAIN runs \cup {j.id} /\ runs'[j.id] = row
      /\ \A r \in DOMAIN runs : runs'[r] = runs[r]
  BY <1>1, <1>2 DEF Extend
<1>6. AnalysesInsideWindow'
  BY <1>1, <1>2, <1>3, <1>4, <1>5 DEF GateInv, RowsOK, AnalysesInsideWindow
<1>7. RunsHavePreviews' /\ Dated'
  BY <1>1, <1>2, <1>3, <1>5 DEF GateInv, RowsOK, RunsHavePreviews, Dated
<1>8. TracksOK'
  BY <1>1, <1>5 DEF GateInv, RowsOK, TracksOK, Chosen
<1> QED
  BY <1>6, <1>7, <1>8 DEF RowsOK

\* A tracking run is dated inside its authorization and after its runs.
LEMMA InsertTrackKeepsRows ==
  ASSUME GateInv, TypeOK', NEW t \in Threads, InsertTrack(t)
  PROVE  RowsOK'
<1> DEFINE j == job[t]
           row == [auth |-> j.auth, at |-> j.at, included |-> j.included]
<1>0. t \in Busy /\ JobOK(j) /\ j.step = "stamped" /\ j.op = "track" /\ j \in Jobs
  BY BusyJobs DEF InsertTrack, At
<1>1. /\ tracks' = Extend(tracks, j.id, row)
      /\ UNCHANGED <<clock, auths, runs, previews>>
      /\ auths[j.auth].until > j.at
  BY <1>0 DEF InsertTrack, InsertAllowed
<1>2. /\ j.id \notin DOMAIN tracks /\ j.auth \in DOMAIN auths /\ auths[j.auth].at <= j.at
      /\ Chosen(j.included) /\ \A r \in j.included : runs[r].at <= j.at
  BY <1>0 DEF JobOK, StampOK, PermitOK, TrackOK, Saving, AllRows
<1>3. row.auth = j.auth /\ row.at = j.at /\ row.included = j.included
  OBVIOUS
<1>4. j.at \in Int /\ auths[j.auth].until \in Int
  BY <1>0, <1>2, GateConstants DEF Jobs, Times, GateInv, TypeOK, AuthRows
<1> HIDE DEF j, row
<1>5. /\ DOMAIN tracks' = DOMAIN tracks \cup {j.id} /\ tracks'[j.id] = row
      /\ \A k \in DOMAIN tracks : tracks'[k] = tracks[k]
  BY <1>1, <1>2 DEF Extend
<1>6. AnalysesInsideWindow'
  BY <1>1, <1>2, <1>3, <1>4, <1>5 DEF GateInv, RowsOK, AnalysesInsideWindow
<1>7. RunsHavePreviews' /\ Dated'
  BY <1>1 DEF GateInv, RowsOK, RunsHavePreviews, Dated
<1>8. TracksOK'
  BY <1>1, <1>2, <1>3, <1>5 DEF GateInv, RowsOK, TracksOK, Chosen
<1> QED
  BY <1>6, <1>7, <1>8 DEF RowsOK

\* A handler's step keeps what is true of the stored rows.
LEMMA WorkKeepsRows ==
  ASSUME GateInv, TypeOK', NEW t \in Threads, Work(t)
  PROVE  RowsOK'
<1>1. PreviewsStay(DOMAIN runs) /\ clock <= clock'
  BY WorkDisturbsNothing, GateConstants DEF PreviewsStay, NotOf, AllRows, GateInv, TypeOK, Times
<1>2. UNCHANGED tables \/ InsertAuthorization(t) \/ InsertRun(t) \/ InsertTrack(t)
  BY DEF Work, Permit, Refuse, Associate, FailAnalysis, StampAuthorization, StampTracking,
     StampDetection, FillPreview, AbandonPreview, RejectRow, FailWrite, Conclude, tables
<1> QED
  BY <1>1, <1>2, RowsKept, InsertAuthorizationKeepsRows, InsertRunKeepsRows, InsertTrackKeepsRows

-----------------------------------------------------------------------------
\* What is left behind, step by step.

\* A request that ends has removed its preview, or has a row in the trail.
LEMMA EndsLeaveNothing ==
  ASSUME GateInv, NEW t \in Threads, Work(t), Ends(t)
  PROVE  NoPreviewLeftBehind'
<1> DEFINE j == job[t]
<1>0. t \in Busy /\ j \in Jobs /\ JobOK(j) /\ TypeOK
  BY WorkersBusy DEF GateInv
<1>1. Held \subseteq Held' \cup {j.id}
  BY <1>0, EndsLeaveThread DEF Held, TypeOK, Busy
<1>2. UNCHANGED <<auths, runs, tracks>> /\ (calm' => calm)
  BY DEF tables, Ends, Refuse, FailAnalysis, AbandonPreview, RejectRow, FailWrite, Conclude,
     StampAuthorization
<1>3. NoId \notin DOMAIN previews /\ NoId \notin AllRows
  BY <1>0, GateConstants DEF TypeOK, AllRows
<1>4. CASE Conclude(t)
  <2>1. previews' = previews /\ bound' = bound \cup {j.id}
    BY <1>4 DEF Conclude
  <2>2. j.id \in DOMAIN previews => j.id \in DOMAIN runs
    <3>1. j.op = "authorize" => j.id \in AuthIds
      BY <1>0, <1>4 DEF Conclude, At, JobOK, AuthorizeOK, TypeOK
    <3>2. j.op = "track" => j.id \in TrackIds
      BY <1>0, <1>4 DEF Conclude, At, JobOK, TrackOK, TypeOK
    <3>3. j.op = "detect" => j.id \in DOMAIN runs
      BY <1>0, <1>4 DEF Conclude, At, JobOK, DetectOK
    <3> QED
      BY <1>0, <3>1, <3>2, <3>3, GateConstants DEF Jobs, Ops, TypeOK
  <2> QED
    BY <1>1, <1>2, <2>1, <2>2 DEF GateInv, NoPreviewLeftBehind
<1>5. CASE UNCHANGED <<previews, bound>> /\ j.step \in {"begun", "permitted"}
  <2>1. j.id = NoId
    BY <1>0, <1>5 DEF JobOK, StampOK
  <2> QED
    BY <1>1, <1>2, <1>3, <1>5, <2>1 DEF GateInv, NoPreviewLeftBehind, AllRows
<1>6. CASE previews' = Without(previews, j.id) /\ UNCHANGED bound /\ Saving(j)
  <2>1. j.id \notin AllRows
    BY <1>0, <1>6 DEF JobOK, StampOK
  <2> QED
    BY <1>1, <1>2, <1>6, <2>1 DEF GateInv, NoPreviewLeftBehind, AllRows, Without
<1>7. CASE ~calm'
  BY <1>7 DEF NoPreviewLeftBehind
<1> QED
  <2>1. CASE Refuse(t) \/ FailAnalysis(t) \/ StampAuthorization(t)
    BY <1>5, <2>1 DEF Refuse, FailAnalysis, StampAuthorization, At
  <2>2. CASE AbandonPreview(t) \/ RejectRow(t)
    BY <1>6, <2>2 DEF AbandonPreview, RejectRow, At, Saving
  <2>3. CASE FailWrite(t)
    BY <1>7, <2>3 DEF FailWrite
  <2> QED
    BY <1>4, <2>1, <2>2, <2>3 DEF Ends

\* A request that moves on accounts for its preview and its row.
LEMMA MovesLeaveNothing ==
  ASSUME GateInv, NEW t \in Threads, Work(t), ~Ends(t)
  PROVE  NoPreviewLeftBehind'
<1> USE DEF tables
<1> DEFINE j == job[t]
<1>0. t \in Busy /\ j \in Jobs /\ JobOK(j) /\ TypeOK
  BY WorkersBusy DEF GateInv
<1>1. /\ Held \subseteq Held' \cup {j.id} /\ job'[t].id \in Held'
  BY <1>0, WorkMoves DEF Held, TypeOK, Busy
<1>2. calm' = calm /\ bound' = bound
  BY DEF Work, Ends, Permit, Associate, StampAuthorization, StampTracking, StampDetection,
     FillPreview, InsertAuthorization, InsertRun, InsertTrack
<1>3. NoId \notin DOMAIN previews /\ NoId \notin AllRows
  BY <1>0, GateConstants DEF TypeOK, AllRows
<1>4. CASE StampDetection(t)
  <2>1. PICK r \in RunIds : /\ previews' = Extend(previews, r, "partial")
                           /\ job' = [job EXCEPT ![t].step = "writing", ![t].at = clock, ![t].id = r]
    BY <1>4 DEF StampDetection
  <2>2. job'[t].id = r /\ DOMAIN previews' = DOMAIN previews \cup {r} /\ j.id = NoId
    BY <1>0, <1>4, <2>1 DEF StampDetection, At, JobOK, StampOK, TypeOK, Jobs, Extend
  <2>3. UNCHANGED <<auths, runs, tracks>>
    BY <1>4 DEF StampDetection
  <2> QED
    BY <1>1, <1>2, <1>3, <2>2, <2>3 DEF GateInv, NoPreviewLeftBehind, AllRows
<1>5. CASE StampAuthorization(t) \/ StampTracking(t)
  <2>1. UNCHANGED <<auths, runs, tracks, previews>> /\ j.id = NoId
    BY <1>0, <1>5 DEF StampAuthorization, StampTracking, At, JobOK, StampOK
  <2> QED
    BY <1>1, <1>2, <1>3, <2>1 DEF GateInv, NoPreviewLeftBehind, AllRows
<1>6. CASE ~(StampDetection(t) \/ StampAuthorization(t) \/ StampTracking(t))
  <2>1. job'[t].id = j.id
    BY <1>0, <1>6 DEF Work, Ends, Permit, Associate, FillPreview, InsertAuthorization, InsertRun,
       InsertTrack, Goto, TypeOK, Jobs
  <2>2. DOMAIN previews' = DOMAIN previews
    BY <1>0, <1>6 DEF Work, Ends, Permit, Associate, FillPreview, InsertAuthorization, InsertRun,
       InsertTrack, TypeOK
  <2>3. /\ AllRows' \subseteq AllRows \cup {j.id} /\ DOMAIN runs \subseteq DOMAIN runs'
    BY WorkNames, WorkDisturbsNothing DEF TablesGrow
  <2> QED
    BY <1>1, <1>2, <2>1, <2>2, <2>3 DEF GateInv, NoPreviewLeftBehind, AllRows
<1> QED
  BY <1>4, <1>5, <1>6
-----------------------------------------------------------------------------
\* The invariant.

\* An empty video has no rows and no requests.
LEMMA InitEstablishes == Init => GateInv
<1> SUFFICES ASSUME Init
             PROVE  GateInv
  OBVIOUS
<1>1. Busy = {} /\ Held = {} /\ DOMAIN NoRows = {} /\ 0 \in Times
  BY GateConstants DEF Busy, Held, Init, NoRows, Times
<1>2. TypeOK
  BY <1>1 DEF Init, TypeOK, NoRows
<1> QED
  BY <1>1, <1>2 DEF Init, GateInv, RowsOK, AnalysesInsideWindow, RunsHavePreviews, TracksOK, Dated,
     JobsOK, IdsApart, NoPreviewLeftBehind

\* A request begins with nothing.
LEMMA ArriveKeeps ==
  ASSUME GateInv, NEW t \in Threads, Arrive(t), TypeOK'
  PROVE  GateInv'
<1> DEFINE Fits(op, frames, until) ==
             /\ Begin(t, op, frames, until)
             /\ op \in {"authorize", "detect", "track"}
             /\ op = "detect" => \E f \in Frames : frames = {f}
<1>0. \E op, frames, until : Fits(op, frames, until)
  <2>1. ASSUME NEW until \in 1 .. MaxTime + 1, BeginAuthorization(t, until)
        PROVE  Fits("authorize", {}, until)
    BY <2>1 DEF BeginAuthorization
  <2>2. ASSUME NEW f \in Frames, BeginDetection(t, f)
        PROVE  Fits("detect", {f}, 0)
    BY <2>2 DEF BeginDetection
  <2>3. ASSUME NEW f \in Frames, NEW g \in Frames, BeginTracking(t, f, g)
        PROVE  \E frames : Fits("track", frames, 0)
    BY <2>3 DEF BeginTracking
  <2> HIDE DEF Fits
  <2> QED
    BY <2>1, <2>2, <2>3 DEF Arrive
<1>1. PICK op, frames, until : Fits(op, frames, until)
  BY <1>0
<1> DEFINE new == [op |-> op, step |-> "begun", auth |-> NoId, at |-> 0, until |-> until,
                   frames |-> frames, included |-> {}, id |-> NoId]
<1>2. job' = [job EXCEPT ![t] = new] /\ UNCHANGED <<clock, auths, runs, tracks, previews, bound, calm>>
  BY <1>1 DEF Begin, tables
<1>3. /\ t \notin Busy /\ Busy' \subseteq Busy \cup {t} /\ job'[t] = new /\ Busy \subseteq Busy'
      /\ \A v \in Busy : job'[v] = job[v]
  BY <1>1, <1>2 DEF Begin, Busy, GateInv, TypeOK
<1>4. /\ PreviewsStay(DOMAIN previews) /\ TablesGrow /\ AllRows' = AllRows /\ clock <= clock'
      /\ UNCHANGED tables
  BY <1>2, GateConstants DEF PreviewsStay, TablesGrow, AllRows, tables, GateInv, TypeOK, Times
<1>5. RowsOK'
  BY <1>4, RowsKept DEF PreviewsStay
<1>6. JobOK(job[t])'
  BY <1>1, <1>3 DEF JobOK, StampOK, AuthorizeOK, PermitOK, DetectOK, TrackOK, Saving
<1>7. ASSUME NEW v \in Busy
      PROVE  JobOK(job[v])'
  <2>1. Saving(job[v]) => job[v].id \notin AllRows'
    BY <1>4, BusyJobs DEF JobOK, StampOK
  <2> QED
    BY <1>3, <1>4, <2>1, JobKept DEF PreviewsStay
<1>8. JobsOK' /\ IdsApart'
  BY <1>3, <1>6, <1>7 DEF JobsOK, IdsApart, GateInv
<1>9. NoPreviewLeftBehind'
  <2>1. Held \subseteq Held'
    BY <1>3 DEF Held
  <2> QED
    BY <1>2, <2>1 DEF NoPreviewLeftBehind, GateInv
<1> QED
  BY <1>5, <1>8, <1>9 DEF GateInv

\* Everything else touches neither tables nor previews: the case moves, time
\* passes, or all requests end.
LEMMA SurroundingsKeep ==
  ASSUME GateInv, TypeOK', UNCHANGED <<tables, previews, bound>>, clock <= clock',
         (UNCHANGED <<calm, job>>) \/ Crash
  PROVE  GateInv'
<1>0. UNCHANGED <<auths, runs, tracks>>
  BY DEF tables
<1>1. PreviewsStay(DOMAIN previews) /\ TablesGrow /\ AllRows' = AllRows
  BY <1>0 DEF PreviewsStay, TablesGrow, AllRows
<1>2. RowsOK'
  BY <1>1, RowsKept DEF PreviewsStay
<1>3. CASE UNCHANGED <<calm, job>>
  <2>1. Busy' = Busy /\ Held' = Held
    BY <1>3 DEF Busy, Held
  <2>2. ASSUME NEW v \in Busy
        PROVE  JobOK(job[v])'
    <3>1. Saving(job[v]) => job[v].id \notin AllRows'
      BY <1>1, BusyJobs DEF JobOK, StampOK
    <3> QED
      BY <1>3, <1>1, <3>1, JobKept DEF PreviewsStay
  <2>3. JobsOK' /\ IdsApart' /\ NoPreviewLeftBehind'
    BY <1>0, <1>3, <2>1, <2>2 DEF JobsOK, IdsApart, NoPreviewLeftBehind, GateInv
  <2> QED
    BY <1>2, <2>3 DEF GateInv
<1>4. CASE Crash
  <2>1. Busy' = {} /\ ~calm'
    BY <1>4 DEF Crash, Busy
  <2> QED
    BY <1>2, <2>1 DEF GateInv, JobsOK, IdsApart, NoPreviewLeftBehind
<1> QED
  BY <1>3, <1>4

\* Every step preserves the invariant.
LEMMA StepPreserves == GateInv /\ [Next]_gateVars => GateInv'
<1> SUFFICES ASSUME GateInv, [Next]_gateVars
             PROVE  GateInv'
  OBVIOUS
<1>0. TypeOK' /\ clock \in Int
  BY TypePreserved, GateConstants DEF GateInv, TypeOK, Times
<1>1. ASSUME NEW t \in Threads, Work(t)
      PROVE  GateInv'
  BY <1>0, <1>1, WorkKeepsJobs, WorkKeepsRows, EndsLeaveNothing, MovesLeaveNothing DEF GateInv
<1>2. ASSUME NEW t \in Threads, Arrive(t)
      PROVE  GateInv'
  BY <1>0, <1>2, ArriveKeeps
<1>3. CASE Tick \/ \E to \in Statuses : Move(to)
  BY <1>0, <1>3, SurroundingsKeep DEF Tick, Move
<1>4. CASE Crash
  <2>1. UNCHANGED <<tables, previews, bound>> /\ clock <= clock'
    BY <1>0, <1>4 DEF Crash
  <2> QED
    BY <1>0, <1>4, <2>1, SurroundingsKeep
<1>5. CASE UNCHANGED gateVars
  BY <1>0, <1>5, SurroundingsKeep DEF gateVars, tables
<1> QED
  BY <1>1, <1>2, <1>3, <1>4, <1>5 DEF Next, Handle, Around

\* The inductive invariant holds in every reachable state.
THEOREM GateInvariant == Spec => []GateInv
<1>1. Init => GateInv
  BY InitEstablishes
<1>2. GateInv /\ [Next]_gateVars => GateInv'
  BY StepPreserves
<1> QED
  BY <1>1, <1>2, PTL DEF Spec

\* However long a handler takes, each detection and tracking run is dated
\* inside the window of the authorization it names.
THEOREM AnalysesAlwaysInsideWindow == Spec => []AnalysesInsideWindow
<1>1. GateInv => AnalysesInsideWindow
  BY DEF GateInv, RowsOK
<1> QED
  BY <1>1, GateInvariant, PTL

\* Runs keep whole previews whatever crashes, races or is refused, and without
\* a crash or failing write FaceDetectionStore.save leaves nothing behind.
THEOREM PreviewsAlwaysMatchRuns == Spec => []PreviewsMatchRuns
<1>1. GateInv => PreviewsMatchRuns
  BY DEF GateInv, RowsOK, PreviewsMatchRuns
<1> QED
  BY <1>1, GateInvariant, PTL

\* Runs with different frames have as many frames as there are runs.
LEMMA FramesCounted ==
  ASSUME GateInv, NEW linked, Chosen(linked)
  PROVE  Cardinality({runs[r].frame : r \in linked}) = Cardinality(linked)
<1> DEFINE frames == {runs[r].frame : r \in linked}
           f == [r \in linked |-> runs[r].frame]
<1>1. IsFiniteSet(linked)
  <2>1. linked \in SUBSET RunIds
    BY DEF Chosen, GateInv, TypeOK
  <2> QED
    BY <2>1, GateConstants, FS_Subset
<1>2. f \in Surjection(linked, frames)
  BY DEF Surjection
<1>3. f \in Injection(linked, frames)
  BY DEF Injection, IsInjective, Chosen
<1> QED
  BY <1>1, <1>2, <1>3, FS_Surjection

\* A tracking run rests on at least two stored runs of different frames, dated
\* no later than itself, whatever was saved while it was computed.
THEOREM TracksAlwaysRestOnRuns == Spec => []TracksRestOnRuns
<1>1. GateInv => TracksRestOnRuns
  <2> SUFFICES ASSUME GateInv, NEW k \in DOMAIN tracks
               PROVE  /\ tracks[k].included \subseteq DOMAIN runs
                      /\ \A r \in tracks[k].included : runs[r].at <= tracks[k].at
                      /\ Cardinality({runs[r].frame : r \in tracks[k].included})
                           = Cardinality(tracks[k].included)
                      /\ Cardinality(tracks[k].included) >= 2
    BY DEF TracksRestOnRuns
  <2>1. Chosen(tracks[k].included) /\ \A r \in tracks[k].included : runs[r].at <= tracks[k].at
    BY DEF GateInv, RowsOK, TracksOK
  <2> QED
    BY <2>1, FramesCounted DEF Chosen
<1> QED
  BY <1>1, GateInvariant, PTL

\* The tables' triggers keep a closed case as it is, also against a handler
\* that found it open.
THEOREM ClosedCaseGetsNothing == Spec => NothingAfterClosing
<1>1. [Next]_gateVars => [status = "closed" => UNCHANGED tables]_gateVars
  <2> SUFFICES ASSUME [Next]_gateVars, status = "closed"
               PROVE  UNCHANGED tables
    OBVIOUS
  <2>1. ASSUME NEW t \in Threads, Work(t)
        PROVE  UNCHANGED tables
    BY <2>1 DEF Work, Permit, Refuse, Associate, FailAnalysis, StampAuthorization,
       StampTracking, StampDetection, FillPreview, AbandonPreview, InsertAuthorization, InsertRun,
       InsertTrack, RejectRow, FailWrite, Conclude, InsertAllowed, tables
  <2>2. ASSUME NEW t \in Threads, Arrive(t)
        PROVE  UNCHANGED tables
    BY <2>2 DEF Arrive, BeginAuthorization, BeginDetection, BeginTracking, Begin
  <2>3. CASE Around \/ Crash \/ UNCHANGED gateVars
    BY <2>3 DEF Around, Tick, Move, Crash, gateVars, tables
  <2> QED
    BY <2>1, <2>2, <2>3 DEF Next, Handle
<1> QED
  BY <1>1, PTL DEF Spec, NothingAfterClosing
=============================================================================
