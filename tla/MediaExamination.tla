-------------------------- MODULE MediaExamination --------------------------
(***************************************************************************)
(* Inspections and bookmarks of one video: MediaStore (video/store.py) and *)
(* the handlers inspect_media and create_bookmark (api/app.py), several of *)
(* which run at once.  Each store call takes the lock for itself:          *)
(* save_inspection inserts its row and then reads back whichever row is    *)
(* the latest, and the event names what it read.                           *)
(***************************************************************************)
EXTENDS Integers, Sequences, FiniteSets

CONSTANTS Examiners,      \* handler threads
          RowIds,         \* UUIDs of inspections and bookmarks, in their order
          Durations,      \* what the decoder may find, in milliseconds
          Unknown,        \* a file that does not tell its duration
          Timestamps,     \* where bookmarks are asked for
          Resting,        \* a thread without a request
          MaxMediaTime    \* bound of the clock

ASSUME MediaConstants ==
  /\ RowIds \subseteq Nat \ {0} /\ IsFiniteSet(RowIds)
  /\ Durations \subseteq Nat /\ Unknown \notin Durations /\ Timestamps \subseteq Nat
  /\ MaxMediaTime \in Nat

\* A request being served.
ExaminerRows ==
  [op : {"inspect", "bookmark"},
   step : {"begun", "decoded", "saved", "allowed", "stored"},
   at : Nat, timestamp : Nat, duration : Durations \cup {Unknown}, id : Nat]

ASSUME MediaNulls == Resting \notin ExaminerRows

VARIABLES mediaClock,
          inspections,    \* media_inspections: id -> [at, duration]
          bookmarks,      \* media_bookmarks: id -> timestamp_ms
          mediaEvents,    \* the trail's events of these handlers, as <<action, id>>
          examiner,       \* the request each thread is serving
          mediaCalm       \* no request has ended between its row and its event

mediaVars == <<mediaClock, inspections, bookmarks, mediaEvents, examiner, mediaCalm>>

-----------------------------------------------------------------------------
Requested(op, timestamp) ==
  [op |-> op, step |-> "begun", at |-> 0, timestamp |-> timestamp, duration |-> Unknown,
   id |-> 0]

AtStep(t, op, step) ==
  examiner[t] # Resting /\ examiner[t].op = op /\ examiner[t].step = step

Forward(t, step) == examiner' = [examiner EXCEPT ![t].step = step]

Answered(t) == examiner' = [examiner EXCEPT ![t] = Resting]

With(table, id, row) == [i \in DOMAIN table \cup {id} |-> IF i = id THEN row ELSE table[i]]

Unused == RowIds \ (DOMAIN inspections \cup DOMAIN bookmarks)

\* ORDER BY inspected_at DESC, inspection_id DESC
Newer(i, j) ==
  \/ inspections[i].at > inspections[j].at
  \/ inspections[i].at = inspections[j].at /\ i > j

LatestInspection == {i \in DOMAIN inspections : \A j \in DOMAIN inspections \ {i} : Newer(i, j)}

-----------------------------------------------------------------------------
Take(t, request) ==
  /\ examiner[t] = Resting
  /\ examiner' = [examiner EXCEPT ![t] = request]
  /\ UNCHANGED <<mediaClock, inspections, bookmarks, mediaEvents, mediaCalm>>

\* The worker process decodes, and save_inspection reads the clock.
Decode(t) ==
  /\ AtStep(t, "inspect", "begun")
  /\ \E duration \in Durations \cup {Unknown} :
       examiner' = [examiner EXCEPT ![t].step = "decoded", ![t].at = mediaClock,
                                    ![t].duration = duration]
  /\ UNCHANGED <<mediaClock, inspections, bookmarks, mediaEvents, mediaCalm>>

\* The worker fails, times out or answers nonsense.
FailInspection(t) ==
  /\ AtStep(t, "inspect", "begun")
  /\ mediaEvents' = Append(mediaEvents, <<"MEDIA_INSPECTION_FAILED", 0>>)
  /\ Answered(t)
  /\ UNCHANGED <<mediaClock, inspections, bookmarks, mediaCalm>>

SaveInspection(t) ==
  /\ AtStep(t, "inspect", "decoded")
  /\ \E id \in Unused :
       inspections' = With(inspections, id, [at |-> examiner[t].at,
                                             duration |-> examiner[t].duration])
  /\ Forward(t, "saved")
  /\ UNCHANGED <<mediaClock, bookmarks, mediaEvents, mediaCalm>>

\* Variant: the oldest row is read back.
ReadBackOldest(t) ==
  /\ AtStep(t, "inspect", "saved")
  /\ \E id \in DOMAIN inspections :
       /\ \A j \in DOMAIN inspections \ {id} : Newer(j, id)
       /\ examiner' = [examiner EXCEPT ![t].step = "stored", ![t].id = id]
  /\ UNCHANGED <<mediaClock, inspections, bookmarks, mediaEvents, mediaCalm>>

ReadBack(t) ==
  /\ AtStep(t, "inspect", "saved")
  /\ \E id \in LatestInspection :
       examiner' = [examiner EXCEPT ![t].step = "stored", ![t].id = id]
  /\ UNCHANGED <<mediaClock, inspections, bookmarks, mediaEvents, mediaCalm>>

\* A bookmark needs an inspection and lies inside its duration.
InsideMedia(timestamp) ==
  \E id \in LatestInspection :
    \/ inspections[id].duration = Unknown
    \/ timestamp <= inspections[id].duration

CheckBookmark(t) ==
  /\ AtStep(t, "bookmark", "begun")
  /\ IF InsideMedia(examiner[t].timestamp) THEN Forward(t, "allowed") ELSE Answered(t)
  /\ UNCHANGED <<mediaClock, inspections, bookmarks, mediaEvents, mediaCalm>>

AddBookmark(t) ==
  /\ AtStep(t, "bookmark", "allowed")
  /\ \E id \in Unused :
       /\ bookmarks' = With(bookmarks, id, examiner[t].timestamp)
       /\ examiner' = [examiner EXCEPT ![t].step = "stored", ![t].id = id]
  /\ UNCHANGED <<mediaClock, inspections, mediaEvents, mediaCalm>>

RecordEvent(t) ==
  /\ \E op \in {"inspect", "bookmark"} :
       /\ AtStep(t, op, "stored")
       /\ mediaEvents' = Append(mediaEvents,
            <<IF op = "inspect" THEN "MEDIA_INSPECTED" ELSE "MEDIA_BOOKMARK_CREATED",
              examiner[t].id>>)
  /\ Answered(t)
  /\ UNCHANGED <<mediaClock, inspections, bookmarks, mediaCalm>>

\* A call of the database fails, at any step: the request ends with an error
\* and records nothing.  The row and its event are writes of two stores, so a
\* row that is stored stays without one.
FailCall(t) ==
  /\ examiner[t] # Resting
  /\ Answered(t)
  /\ mediaCalm' = (mediaCalm /\ examiner[t].step \notin {"saved", "stored"})
  /\ UNCHANGED <<mediaClock, inspections, bookmarks, mediaEvents>>

KillExaminers ==
  /\ mediaCalm
  /\ examiner' = [t \in Examiners |-> Resting]
  /\ mediaCalm' = FALSE
  /\ UNCHANGED <<mediaClock, inspections, bookmarks, mediaEvents>>

MediaTick ==
  /\ mediaClock < MaxMediaTime
  /\ mediaClock' = mediaClock + 1
  /\ UNCHANGED <<inspections, bookmarks, mediaEvents, examiner, mediaCalm>>

-----------------------------------------------------------------------------
MediaInit ==
  /\ mediaClock = 0 /\ mediaEvents = <<>> /\ mediaCalm = TRUE
  /\ inspections = [i \in {} |-> 0] /\ bookmarks = [i \in {} |-> 0]
  /\ examiner = [t \in Examiners |-> Resting]

\* Bound: as many rows, and as many events, as there are identifiers.
Room ==
  LET busy == Cardinality({t \in Examiners : examiner[t] # Resting})
  IN  /\ busy + Len(mediaEvents) < Cardinality(RowIds)
      /\ busy <= Cardinality(Unused) - 1

Examine(t) ==
  \/ Room /\ Take(t, Requested("inspect", 0))
  \/ Room /\ \E timestamp \in Timestamps : Take(t, Requested("bookmark", timestamp))
  \/ Decode(t) \/ FailInspection(t) \/ SaveInspection(t) \/ ReadBack(t)
  \/ CheckBookmark(t) \/ AddBookmark(t) \/ RecordEvent(t) \/ FailCall(t)

MediaNext == (\E t \in Examiners : Examine(t)) \/ KillExaminers \/ MediaTick

MediaSpec == MediaInit /\ [][MediaNext]_mediaVars

-----------------------------------------------------------------------------
\* Properties.

EventsNaming(action, id) == {n \in DOMAIN mediaEvents : mediaEvents[n] = <<action, id>>}

AboutToRecord(op, id) == \E t \in Examiners : AtStep(t, op, "stored") /\ examiner[t].id = id

\* Unless a process died or a call failed right after a row was stored, the
\* trail tells of every bookmark once, and of the latest inspection when none is
\* about to be read back: an event names the latest inspection, so of two
\* requests that overlap both may name the same row (save_inspection's answer).
\* Whatever failed, no event names a row that is not there.
TrailTellsMedia ==
  /\ mediaCalm /\ (\A t \in Examiners : ~AtStep(t, "inspect", "saved")) =>
       \A id \in LatestInspection :
         EventsNaming("MEDIA_INSPECTED", id) # {} \/ AboutToRecord("inspect", id)
  /\ mediaCalm =>
       \A id \in DOMAIN bookmarks :
         Cardinality(EventsNaming("MEDIA_BOOKMARK_CREATED", id))
           = IF AboutToRecord("bookmark", id) THEN 0 ELSE 1
  /\ \A n \in DOMAIN mediaEvents :
       /\ mediaEvents[n][1] = "MEDIA_INSPECTED" => mediaEvents[n][2] \in DOMAIN inspections
       /\ mediaEvents[n][1] = "MEDIA_BOOKMARK_CREATED" => mediaEvents[n][2] \in DOMAIN bookmarks

\* "Inspection and bookmark events remain present in the case activity hash
\* chain" (docs/forensics/VIDEO_EXAMINATION.md): with no failure and nobody
\* inspecting, each stored inspection has its own event.  It has not when two
\* requests overlap, since both are answered with the later row.
InspectionsInTrail ==
  mediaCalm /\ (\A t \in Examiners : examiner[t] = Resting) =>
    \A id \in DOMAIN inspections : EventsNaming("MEDIA_INSPECTED", id) # {}

\* Every bookmark lies inside the media as some inspection found it, whatever
\* was inspected anew between the check and the INSERT.
BookmarksInsideMedia ==
  \A b \in DOMAIN bookmarks : \E i \in DOMAIN inspections :
    inspections[i].duration = Unknown \/ bookmarks[b] <= inspections[i].duration

MediaAccounted == TrailTellsMedia /\ BookmarksInsideMedia
=============================================================================
