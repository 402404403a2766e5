---------------------------- MODULE BiometricGate ----------------------------
(***************************************************************************)
(* Controlled face analysis of one inspected video of one case: supervisor *)
(* authorizations with a deadline (biometrics/store.py), face-detection    *)
(* runs with their preview files (detection_store.py), tracking runs       *)
(* (tracking.py, tracking_store.py), and the handlers that run them        *)
(* (api/app.py).                                                           *)
(*                                                                         *)
(* A handler looks at the case and at the authorization when it begins,    *)
(* decodes and detects for as long as that takes, reads the clock, and     *)
(* only then inserts; the tables' triggers compare the row with the        *)
(* authorization and the case once more.                                   *)
(*                                                                         *)
(* Who may call is the subject of CaseApi.  Boxes, overlaps and faces are  *)
(* left out: a run is known by the frame it decoded.                       *)
(***************************************************************************)
EXTENDS Integers, FiniteSets, Sequences

CONSTANTS Threads,        \* handler threads
          AuthIds, RunIds, TrackIds,   \* UUIDs
          Frames,         \* frames of the video, in order of their timestamps
          Idle,           \* a thread without a request
          NoId,
          MaxTime,        \* bound of the clock
          MaxMoves        \* bound: status changes of the case

ASSUME GateConstants ==
  /\ NoId \notin AuthIds \cup RunIds \cup TrackIds
  /\ AuthIds \cap RunIds = {} /\ TrackIds \cap (AuthIds \cup RunIds) = {}
  /\ IsFiniteSet(RunIds)
  /\ Frames \subseteq Nat /\ MaxTime \in Nat /\ MaxMoves \in Nat

VARIABLES clock,
          moves,          \* status changes of the case, from supervisor review on
          auths,          \* biometric_authorizations
          runs,           \* face_detection_runs
          tracks,         \* face_tracking_runs
          previews,       \* analysis vault: run -> how much of its file is there
          bound,          \* rows whose completion event is in the activity trail
          job,            \* the request each thread is serving
          calm            \* no crash and no failing database write so far

tables == <<auths, runs, tracks>>
gateVars == <<clock, moves, auths, runs, tracks, previews, bound, job, calm>>

-----------------------------------------------------------------------------
Statuses == {"supervisor-review", "approved", "closed"}

\* The statuses before supervisor review count as supervisor review: none of
\* them is closed and a report can be made in none of them.
status == IF moves = <<>> THEN "supervisor-review" ELSE moves[Len(moves)]

Times == 0 .. MaxTime

AuthRows == [at : Times, until : 0 .. MaxTime + 1]
RunRows == [auth : AuthIds, at : Times, frame : Frames]
TrackRows == [auth : AuthIds, at : Times, included : SUBSET RunIds]

Ops == {"authorize", "detect", "track"}
Steps == {"begun", "permitted", "analysed", "writing", "stamped", "stored"}
Jobs == [op : Ops, step : Steps, auth : AuthIds \cup {NoId}, at : Times,
         until : 0 .. MaxTime + 1, frames : SUBSET Frames, included : SUBSET RunIds,
         id : AuthIds \cup RunIds \cup TrackIds \cup {NoId}]

ASSUME IdleIsNoJob == Idle \notin Jobs

Extend(table, id, row) ==
  [i \in DOMAIN table \cup {id} |-> IF i = id THEN row ELSE table[i]]

Without(table, id) == [i \in DOMAIN table \ {id} |-> table[i]]

Busy == {t \in Threads : job[t] # Idle}

At(t, ops, step) == t \in Busy /\ job[t].op \in ops /\ job[t].step = step

Held == {job[t].id : t \in Busy}

Goto(t, step) == job' = [job EXCEPT ![t].step = step]

Finish(t) == job' = [job EXCEPT ![t] = Idle]

-----------------------------------------------------------------------------
\* Beginning: the case must not be closed.

Begin(t, op, frames, until) ==
  /\ job[t] = Idle
  /\ status # "closed"
  /\ job' = [job EXCEPT ![t] =
       [op |-> op, step |-> "begun", auth |-> NoId, at |-> 0, until |-> until,
        frames |-> frames, included |-> {}, id |-> NoId]]
  /\ UNCHANGED <<clock, moves, tables, previews, bound, calm>>

BeginAuthorization(t, until) == Begin(t, "authorize", {}, until)

BeginDetection(t, f) == Begin(t, "detect", {f}, 0)

BeginTracking(t, first, last) ==
  first <= last /\ Begin(t, "track", {f \in Frames : first <= f /\ f <= last}, 0)

\* latest_active: of the authorizations that have not run out, the newest.
Active == {a \in DOMAIN auths : auths[a].until > clock}

LatestActive == {a \in Active : \A b \in Active : auths[b].at <= auths[a].at}

Permit(t) ==
  /\ At(t, {"detect", "track"}, "begun")
  /\ \E a \in LatestActive :
       job' = [job EXCEPT ![t].step = "permitted", ![t].auth = a]
  /\ UNCHANGED <<clock, moves, tables, previews, bound, calm>>

Refuse(t) ==
  /\ At(t, {"detect", "track"}, "begun")
  /\ LatestActive = {}
  /\ Finish(t)
  /\ UNCHANGED <<clock, moves, tables, previews, bound, calm>>

-----------------------------------------------------------------------------
\* Tracking reads every run of the source and keeps, in order of frame and
\* creation, the first of each decoded frame.

InRange(frames) == {r \in DOMAIN runs : runs[r].frame \in frames}

\* Variant: repeated runs of a frame are not dropped.
AllRuns(frames) == {InRange(frames)}

\* Runs created at the same instant are told apart by their random identifiers.
DistinctRuns(frames) ==
  {chosen \in SUBSET InRange(frames) :
     /\ \A r \in InRange(frames) : \E s \in chosen : runs[s].frame = runs[r].frame
     /\ \A s \in chosen, r \in InRange(frames) :
          runs[s].frame = runs[r].frame =>
            runs[s].at <= runs[r].at /\ (r \in chosen => r = s)}

Associate(t) ==
  /\ At(t, {"track"}, "permitted")
  /\ \E chosen \in DistinctRuns(job[t].frames) :
       /\ Cardinality(chosen) >= 2
       /\ job' = [job EXCEPT ![t].step = "analysed", ![t].included = chosen]
  /\ UNCHANGED <<clock, moves, tables, previews, bound, calm>>

\* The source no longer has its hash, the frame cannot be decoded, the worker
\* times out, or fewer than two frames are in range: a *_FAILED event.  Or a
\* call before the first write raises, the *_STARTED event among them.
FailAnalysis(t) ==
  /\ At(t, Ops, "begun") \/ At(t, {"detect", "track"}, "permitted")
  /\ Finish(t)
  /\ UNCHANGED <<clock, moves, tables, previews, bound, calm>>

-----------------------------------------------------------------------------
\* Saving.  created_at is the clock before the first write.

\* A deadline must lie in the future, or the request is refused.
StampAuthorization(t) ==
  /\ At(t, {"authorize"}, "begun")
  /\ \/ /\ job[t].until > clock
        /\ \E a \in AuthIds \ (DOMAIN auths \cup Held) :
             job' = [job EXCEPT ![t].step = "stamped", ![t].at = clock, ![t].id = a]
     \/ ~(job[t].until > clock) /\ Finish(t)
  /\ UNCHANGED <<clock, moves, tables, previews, bound, calm>>

StampTracking(t) ==
  /\ At(t, {"track"}, "analysed")
  /\ \E k \in TrackIds \ (DOMAIN tracks \cup Held) :
       job' = [job EXCEPT ![t].step = "stamped", ![t].at = clock, ![t].id = k]
  /\ UNCHANGED <<clock, moves, tables, previews, bound, calm>>

StampDetection(t) ==
  /\ At(t, {"detect"}, "permitted")
  /\ \E r \in RunIds \ (DOMAIN runs \cup DOMAIN previews \cup Held) :
       /\ previews' = Extend(previews, r, "partial")
       /\ job' = [job EXCEPT ![t].step = "writing", ![t].at = clock, ![t].id = r]
  /\ UNCHANGED <<clock, moves, tables, bound, calm>>

FillPreview(t) ==
  /\ At(t, {"detect"}, "writing")
  /\ previews' = [previews EXCEPT ![job[t].id] = "whole"]
  /\ Goto(t, "stamped")
  /\ UNCHANGED <<clock, moves, tables, bound, calm>>

AbandonPreview(t) ==
  /\ At(t, {"detect"}, "writing")
  /\ previews' = Without(previews, job[t].id)
  /\ Finish(t)
  /\ UNCHANGED <<clock, moves, tables, bound, calm>>

\* Variant: the deadline is only looked at when the handler begins.
InsertAllowedLate(j) == status # "closed"

\* Variant: the case is only looked at when the handler begins.
InsertAllowedOnClosed(j) == j.op # "authorize" => auths[j.auth].until > j.at

\* The scope triggers.
InsertAllowed(j) ==
  /\ status # "closed"
  /\ j.op # "authorize" => auths[j.auth].until > j.at

InsertAuthorization(t) ==
  /\ At(t, {"authorize"}, "stamped") /\ InsertAllowed(job[t])
  /\ auths' = Extend(auths, job[t].id, [at |-> job[t].at, until |-> job[t].until])
  /\ Goto(t, "stored")
  /\ UNCHANGED <<clock, moves, runs, tracks, previews, bound, calm>>

\* Variant: the row goes in while the preview is still being written.
InsertRunEarly(t) ==
  /\ At(t, {"detect"}, "writing") \/ At(t, {"detect"}, "stamped")
  /\ InsertAllowed(job[t])
  /\ runs' = Extend(runs, job[t].id,
       [auth |-> job[t].auth, at |-> job[t].at,
        frame |-> CHOOSE f \in job[t].frames : TRUE])
  /\ Goto(t, "stored")
  /\ UNCHANGED <<clock, moves, auths, tracks, previews, bound, calm>>

InsertRun(t) ==
  /\ At(t, {"detect"}, "stamped") /\ InsertAllowed(job[t])
  /\ runs' = Extend(runs, job[t].id,
       [auth |-> job[t].auth, at |-> job[t].at,
        frame |-> CHOOSE f \in job[t].frames : TRUE])
  /\ Goto(t, "stored")
  /\ UNCHANGED <<clock, moves, auths, tracks, previews, bound, calm>>

InsertTrack(t) ==
  /\ At(t, {"track"}, "stamped") /\ InsertAllowed(job[t])
  /\ tracks' = Extend(tracks, job[t].id,
       [auth |-> job[t].auth, at |-> job[t].at, included |-> job[t].included])
  /\ Goto(t, "stored")
  /\ UNCHANGED <<clock, moves, auths, runs, previews, bound, calm>>

\* A trigger raises IntegrityError: the preview is removed.
RejectRow(t) ==
  /\ At(t, Ops, "stamped") /\ ~InsertAllowed(job[t])
  /\ previews' = Without(previews, job[t].id)
  /\ Finish(t)
  /\ UNCHANGED <<clock, moves, tables, bound, calm>>

\* Any other database error passes by the except clause of save: the preview
\* stays, and no *_FAILED event is written.  The completion event is a write of
\* the case register's own, and when it fails the row stays.
FailWrite(t) ==
  /\ At(t, Ops, "stamped") \/ At(t, Ops, "stored")
  /\ calm' = FALSE
  /\ Finish(t)
  /\ UNCHANGED <<clock, moves, tables, previews, bound>>

\* The completion event, and the answer.
Conclude(t) ==
  /\ At(t, Ops, "stored")
  /\ bound' = bound \cup {job[t].id}
  /\ Finish(t)
  /\ UNCHANGED <<clock, moves, tables, previews, calm>>

-----------------------------------------------------------------------------
\* Around the handlers.

\* Approval, sending back, and closing (ALLOWED_CASE_TRANSITIONS).
Move(to) ==
  /\ Len(moves) < MaxMoves
  /\ <<status, to>> \in {<<"supervisor-review", "approved">>,
                         <<"approved", "supervisor-review">>, <<"approved", "closed">>}
  /\ moves' = Append(moves, to)
  /\ UNCHANGED <<clock, tables, previews, bound, job, calm>>

Tick ==
  /\ clock < MaxTime /\ clock' = clock + 1
  /\ UNCHANGED <<moves, tables, previews, bound, job, calm>>

Crash ==
  /\ Busy # {}
  /\ job' = [t \in Threads |-> Idle] /\ calm' = FALSE
  /\ UNCHANGED <<clock, moves, tables, previews, bound>>

-----------------------------------------------------------------------------
NoRows == [i \in {} |-> NoId]

Init ==
  /\ clock = 0 /\ moves = <<>> /\ bound = {} /\ calm = TRUE
  /\ auths = NoRows /\ runs = NoRows /\ tracks = NoRows /\ previews = NoRows
  /\ job = [t \in Threads |-> Idle]

Arrive(t) ==
  \/ \E until \in 1 .. MaxTime + 1 : BeginAuthorization(t, until)
  \/ \E f \in Frames : BeginDetection(t, f)
  \/ \E f, g \in Frames : BeginTracking(t, f, g)

Work(t) ==
  \/ Permit(t) \/ Refuse(t) \/ Associate(t) \/ FailAnalysis(t)
  \/ StampAuthorization(t) \/ StampTracking(t) \/ StampDetection(t)
  \/ FillPreview(t) \/ AbandonPreview(t)
  \/ InsertAuthorization(t) \/ InsertRun(t) \/ InsertTrack(t)
  \/ RejectRow(t) \/ FailWrite(t) \/ Conclude(t)

Handle == \E t \in Threads : Arrive(t) \/ Work(t)

Around == Tick \/ \E to \in Statuses : Move(to)

Next == Handle \/ Around \/ Crash

Spec == Init /\ [][Next]_gateVars

-----------------------------------------------------------------------------
\* Properties.

\* Tables, vault and requests have their declared shape.
TypeOK ==
  /\ clock \in Times /\ moves \in Seq(Statuses) /\ calm \in BOOLEAN
  /\ DOMAIN auths \subseteq AuthIds /\ auths \in [DOMAIN auths -> AuthRows]
  /\ DOMAIN runs \subseteq RunIds /\ runs \in [DOMAIN runs -> RunRows]
  /\ DOMAIN tracks \subseteq TrackIds /\ tracks \in [DOMAIN tracks -> TrackRows]
  /\ DOMAIN previews \subseteq RunIds
  /\ previews \in [DOMAIN previews -> {"partial", "whole"}]
  /\ bound \subseteq AuthIds \cup RunIds \cup TrackIds
  /\ job \in [Threads -> Jobs \cup {Idle}]

\* However long a handler takes and whichever authorization it picked, each
\* analysis is dated inside the window of the authorization it names: granted
\* before, not run out (the retention test of the scope triggers).
AnalysesInsideWindow ==
  LET Inside(row) == /\ row.auth \in DOMAIN auths
                     /\ auths[row.auth].at <= row.at
                     /\ row.at < auths[row.auth].until
  IN  /\ \A r \in DOMAIN runs : Inside(runs[r])
      /\ \A k \in DOMAIN tracks : Inside(tracks[k])

\* A closed case gets no authorization and no analysis, also not from a handler
\* that found it open (the triggers, not the handler's own check).
NothingAfterClosing ==
  [][status = "closed" => UNCHANGED tables]_gateVars

\* Whatever crashed, raced or was refused, each detection run has the whole
\* preview that it was made from (written and synced before the row).
RunsHavePreviews == \A r \in DOMAIN runs : r \in DOMAIN previews /\ previews[r] = "whole"

\* Without a crash or a failing write of row or event, every preview belongs to a run
\* or to a running request, and every row is in the activity trail or about to
\* be (the except clause of FaceDetectionStore.save; the handlers' last call).
NoPreviewLeftBehind ==
  calm => /\ DOMAIN previews \subseteq DOMAIN runs \cup Held
          /\ DOMAIN auths \cup DOMAIN runs \cup DOMAIN tracks \subseteq bound \cup Held

\* Vault, tables and trail tell the same of every run.
PreviewsMatchRuns == RunsHavePreviews /\ NoPreviewLeftBehind

\* A tracking run links at least two different frames, no frame twice, and only
\* stored runs that are dated no later than itself, whatever was saved while it
\* was computed (associate_face_detections and its reading of the runs).
TracksRestOnRuns ==
  \A k \in DOMAIN tracks :
    LET linked == tracks[k].included
    IN  /\ linked \subseteq DOMAIN runs
        /\ \A r \in linked : runs[r].at <= tracks[k].at
        /\ Cardinality({runs[r].frame : r \in linked}) = Cardinality(linked)
        /\ Cardinality(linked) >= 2
=============================================================================
