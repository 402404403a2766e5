----------------------------- MODULE FaceTracking -----------------------------
(***************************************************************************)
(* associate_face_detections (biometrics/tracking.py): faces of one frame  *)
(* are linked to tracks of earlier frames, the largest overlap first, each *)
(* track and each face at most once; faces left over open tracks.          *)
(*                                                                         *)
(* BiometricGate selects the detection runs; here they are given, one for  *)
(* each frame, in order of time.                                           *)
(***************************************************************************)
EXTENDS Boxes, Sequences, FiniteSets

CONSTANTS Clips,          \* sequences of frames [time, faces]
          MaxGap,         \* max_gap_ms
          ThresholdNum, ThresholdDen    \* iou_threshold as a fraction

FrameRows == [time : Nat, faces : Seq(BoxRows)]

ASSUME TrackConstants ==
  /\ Clips \subseteq Seq(FrameRows)
  /\ \A clip \in Clips : \A i, j \in DOMAIN clip : i < j => clip[i].time <= clip[j].time
  /\ MaxGap \in Nat \ {0}
  /\ ThresholdNum \in Nat \ {0} /\ ThresholdDen \in Nat \ {0}
  /\ ThresholdNum <= ThresholdDen

VARIABLES clip,           \* the frames
          frame,          \* number of the frame being linked
          lines,          \* working_tracks: sequences of <<frame, face>>
          linkedLines,    \* matched_tracks of this frame
          linkedFaces     \* matched_detections of this frame

trackVars == <<clip, frame, lines, linkedLines, linkedFaces>>

-----------------------------------------------------------------------------
FaceOf(observation) == clip[observation[1]].faces[observation[2]]

LastOf(line) == lines[line][Len(lines[line])]

OverlapOf(line, face) == Overlap(FaceOf(LastOf(line)), FaceOf(<<frame, face>>))

\* The pairs of a track and a face that may be linked in this frame.  A track
\* linked already keeps the pairs of the face it ended in before.
Candidates ==
  {pair \in (DOMAIN lines \ linkedLines) \X DOMAIN clip[frame].faces :
     /\ clip[frame].time - clip[LastOf(pair[1])[1]].time <= MaxGap
     /\ AtLeast(OverlapOf(pair[1], pair[2]), ThresholdNum, ThresholdDen)}

Before(p, q) ==
  LET o == OverlapOf(p[1], p[2])
      r == OverlapOf(q[1], q[2])
  IN  \/ Larger(o, r)
      \/ ~Larger(r, o) /\ (p[1] < q[1] \/ (p[1] = q[1] /\ p[2] < q[2]))

OpenPairs == {pair \in Candidates : pair[2] \notin linkedFaces}

\* Variant: in order of the tracks.
FirstPairs(pairs) ==
  {p \in pairs : \A q \in pairs : p[1] < q[1] \/ (p[1] = q[1] /\ p[2] <= q[2])}

\* The next pair in the order the candidates are sorted.
BestPairs(pairs) == {p \in pairs : \A q \in pairs \ {p} : Before(p, q)}

-----------------------------------------------------------------------------
TrackInit ==
  /\ clip \in Clips
  /\ frame = 1 /\ lines = <<>> /\ linkedLines = {} /\ linkedFaces = {}

LinkBest ==
  /\ frame \in DOMAIN clip
  /\ \E pair \in BestPairs(OpenPairs) :
       /\ lines' = [lines EXCEPT ![pair[1]] = Append(@, <<frame, pair[2]>>)]
       /\ linkedLines' = linkedLines \cup {pair[1]}
       /\ linkedFaces' = linkedFaces \cup {pair[2]}
  /\ UNCHANGED <<clip, frame>>

\* The faces left over, in their order; then the next frame.
Unlinked == DOMAIN clip[frame].faces \ linkedFaces

InOrder(faces) ==
  {order \in [1 .. Cardinality(faces) -> faces] :
     \A i, j \in DOMAIN order : i < j => order[i] < order[j]}

OpenLines ==
  /\ frame \in DOMAIN clip
  /\ OpenPairs = {}
  /\ \E order \in InOrder(Unlinked) :
       lines' = lines \o [k \in DOMAIN order |-> <<<<frame, order[k]>>>>]
  /\ frame' = frame + 1
  /\ linkedLines' = {} /\ linkedFaces' = {}
  /\ UNCHANGED clip

TrackNext == LinkBest \/ OpenLines

TrackSpec == TrackInit /\ [][TrackNext]_trackVars

-----------------------------------------------------------------------------
\* Properties.

Observations(track) == {track[i] : i \in DOMAIN track}

\* Two observations that may follow each other in a track.
Follows(earlier, later) ==
  /\ earlier[1] < later[1]
  /\ clip[later[1]].time - clip[earlier[1]].time <= MaxGap
  /\ AtLeast(Overlap(FaceOf(earlier), FaceOf(later)), ThresholdNum, ThresholdDen)

\* Each face of the frames done is an observation of exactly one track, and no
\* track sees two faces of one frame, goes back, or bridges more than the gap.
FacesSplitIntoTracks ==
  /\ \A f \in 1 .. frame - 1 : \A face \in DOMAIN clip[f].faces :
       Cardinality({line \in DOMAIN lines : <<f, face>> \in Observations(lines[line])}) = 1
  /\ \A line \in DOMAIN lines : \A i \in 2 .. Len(lines[line]) :
       Follows(lines[line][i - 1], lines[line][i])

\* Where a track stood before a frame: its last observation of an earlier one.
Stood(track, f) ==
  {track[i] : i \in {j \in DOMAIN track :
                       /\ track[j][1] < f
                       /\ \A k \in DOMAIN track : j < k => f <= track[k][1]}}

\* May a track that stood there be linked to this face, and is there a link that
\* is as good: of the track to another face, or of another track to this one?
MayLink(stood, f, face) ==
  /\ clip[f].time - clip[stood[1]].time <= MaxGap
  /\ AtLeast(Overlap(FaceOf(stood), FaceOf(<<f, face>>)), ThresholdNum, ThresholdDen)

NoWorse(there, later, stood, wanted) ==
  ~Larger(Overlap(FaceOf(stood), FaceOf(wanted)), Overlap(FaceOf(there), FaceOf(later)))

LinkedAsWell(line, stood, wanted) ==
  \/ \E got \in Observations(lines[line]) :
       got[1] = wanted[1] /\ NoWorse(stood, got, stood, wanted)
  \/ \E other \in DOMAIN lines \ {line} :
       /\ wanted \in Observations(lines[other])
       /\ \E there \in Stood(lines[other], wanted[1]) : NoWorse(there, wanted, stood, wanted)

\* No link is passed over for a worse one: of each track and face that could
\* have been linked in a frame and were not, one was linked with no less overlap
\* (the greedy order of the candidates, and the two sets of those matched).
NoBetterLinkLeft ==
  \A f \in 1 .. frame - 1 : \A face \in DOMAIN clip[f].faces : \A line \in DOMAIN lines :
    <<f, face>> \notin Observations(lines[line]) =>
      \A stood \in Stood(lines[line], f) :
        MayLink(stood, f, face) => LinkedAsWell(line, stood, <<f, face>>)

\* What associate_face_detections promises of a clip.
TracksAssociated == FacesSplitIntoTracks /\ NoBetterLinkLeft
=============================================================================
