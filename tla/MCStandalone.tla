---------------------------- MODULE MCStandalone ----------------------------
\* The machines that share no state with another, on small instances: each
\* behaviour picks one of them, and the others stay as they are.
EXTENDS EvidencePackage, SignatureSearch, HikbTree, NalScan, FaceTracking,
        FaceSuppression, ProbeChoice, MediaExamination, TLC
S == INSTANCE SequencesExt

CONSTANTS p1, p2, k1, k2, r1, far, none, e1, e2,
          Machines        \* those a behaviour may pick

VARIABLE machine

-----------------------------------------------------------------------------
\* SignatureSearch: every image of up to eight bytes of two values.
SearchSignature == <<1, 1, 2>>
SearchImages == UNION {[1 .. n -> {1, 2}] : n \in 0 .. 8}

\* HikbTree: one page with every entry sequence in either layout, and every
\* list of three pointers in either layout over an image of two pages, of which
\* the pointer 3 starts in the middle of the first.
ListCells(layout, pointers) ==
  [i \in 1 .. layout |-> none]
    \o S!FlattenSeq([i \in DOMAIN pointers |-> <<pointers[i], none, none>>])

\* The status marks of an entry; an empty one may be filled with all ones.
Entries == {<<k, "data", "data">> : k \in Kinds} \cup {<<"empty", "empty", "empty">>}

WrittenPage(layout, rows) ==
  LET used == [i \in 1 .. layout |-> "data"] \o S!FlattenSeq(rows)
  IN  [i \in 1 .. PageLength |-> IF i <= Len(used) THEN used[i] ELSE "data"]

KindsOf(rows) == [i \in DOMAIN rows |-> rows[i][1]]

Disk2(layout, rows, layout2, rows2) ==
  [image |-> WrittenPage(layout, rows) \o WrittenPage(layout2, rows2),
   formatted |-> {0, PageLength},
   written |-> (0 :> KindsOf(rows) @@ PageLength :> KindsOf(rows2)
                  @@ [page \in Pages |-> <<>>])]

OnePage(layout, rows) ==
  Disk2(layout, rows, 1, <<>>) @@ [declared |-> 1, first |-> 0, list |-> ListCells(1, <<0>>)]

Video(n) == [i \in 1 .. n |-> <<"video", "data", "data">>]

PointerLists == UNION {[1 .. n -> Pages \cup {far, none}] : n \in 0 .. 3}

TwoPages(layout, declared, first, pointers, n) ==
  Disk2(1, Video(3), 2, Video(n))
    @@ [declared |-> declared, first |-> first, list |-> ListCells(layout, pointers)]

DiskTrees ==
  {OnePage(layout, rows) : layout \in 1 .. 2, rows \in UNION {[1 .. n -> Entries] : n \in 0 .. 3}}
  \cup {TwoPages(layout, declared, first, pointers, n) :
          layout \in 1 .. 2, declared \in {0, 2, 3, 4}, first \in {0, PageLength, none},
          pointers \in PointerLists, n \in {1, 3}}

\* NalScan: every block of up to seven bytes of three values, and every order
\* of up to four units with headers that matter to either codec.
HeaderBytes == {103, 104, 101, 65, 69, 40, 64, 66, 68, 38, 2, 231}
Blocks ==
  UNION {[1 .. n -> {0, 1, 103}] : n \in 0 .. 7}
  \cup {S!FlattenSeq([i \in DOMAIN units |-> <<0, 0, 1, units[i]>>]) :
          units \in UNION {[1 .. n -> HeaderBytes] : n \in 0 .. 4}}

\* FaceTracking: three frames of up to two faces, near and far in time.
Lineup == UNION {[1 .. n -> [left : 0 .. 3, width : {2}]] : n \in 0 .. 2}
Footage ==
  {[i \in 1 .. 3 |-> [time |-> times[i], faces |-> faces[i]]] :
     times \in {<<0, 1, 2>>, <<0, 2, 4>>, <<0, 1, 4>>, <<0, 1, 1>>},
     faces \in [1 .. 3 -> Lineup]}

\* FaceSuppression: up to four boxes of two scores.
DetectorOutputs ==
  UNION {[1 .. n -> [left : 0 .. 3, width : {2}, score : {1, 2}]] : n \in 0 .. 4}

-----------------------------------------------------------------------------
\* Where a machine rests that is not picked.
SearchOff ==
  /\ image = <<>> /\ scanLimit = 3 /\ chunkSize = 3
  /\ position = 0 /\ kept = 0 /\ outcome = "searching" /\ match = 0

TreeOff ==
  /\ tree = OnePage(1, <<>>)
  /\ slot = 0 /\ listed = <<>> /\ read = 0 /\ entries = <<>> /\ skipped = {}
  /\ stage = "header"

NalOff == data = <<>> /\ place = 0 /\ headers = {} /\ codec = "scanning"

TrackOff == clip = <<>> /\ frame = 1 /\ lines = <<>> /\ linkedLines = {} /\ linkedFaces = {}

SuppressOff == crowd = <<>> /\ waiting = {} /\ picked = <<>>

ProbeOff ==
  /\ answers = [a \in Adapters |-> Failed] /\ unasked = <<>>
  /\ results = <<>> /\ failed = {} /\ verdict = "asking"

Start(m, on, off) == IF machine = m THEN on ELSE off

StandaloneInit ==
  /\ machine \in Machines
  /\ Init /\ MediaInit
  /\ Start("search", SearchInit, SearchOff)
  /\ Start("tree", TreeInit, TreeOff)
  /\ Start("nal", NalInit, NalOff)
  /\ Start("tracking", TrackInit, TrackOff)
  /\ Start("suppression", SuppressInit, SuppressOff)
  /\ Start("probe", ProbeInit, ProbeOff)

\* A step of the machine picked; the others rest.
StandaloneNext ==
  /\ UNCHANGED machine
  /\ IF machine = "package" THEN Next ELSE UNCHANGED vars
  /\ IF machine = "media" THEN MediaNext ELSE UNCHANGED mediaVars
  /\ IF machine = "search" THEN SearchNext ELSE UNCHANGED searchVars
  /\ IF machine = "tree" THEN TreeNext ELSE UNCHANGED treeVars
  /\ IF machine = "nal" THEN NalNext ELSE UNCHANGED nalVars
  /\ IF machine = "tracking" THEN TrackNext ELSE UNCHANGED trackVars
  /\ IF machine = "suppression" THEN SuppressNext ELSE UNCHANGED suppressVars
  /\ IF machine = "probe" THEN ProbeNext ELSE UNCHANGED probeVars

StandaloneSpec ==
  StandaloneInit
    /\ [][StandaloneNext]_<<machine, vars, mediaVars, searchVars, treeVars, nalVars,
                            trackVars, suppressVars, probeVars>>
=============================================================================
