------------------------------ MODULE HikbTree ------------------------------
(***************************************************************************)
(* The directory of a Hikvision disk: HikvisionHikbtreeParser.parse and    *)
(* HikvisionAdapter.enumerate_recordings.                                  *)
(*                                                                         *)
(* A page list points at pages, a page holds entries, and nobody says      *)
(* whether the first slot of either begins at byte 80 or at byte 96: the   *)
(* parser decides by what it recognizes, and takes the layout of a page    *)
(* that makes more of it.  Headers and 48-byte slots are multiples of 16   *)
(* bytes, so the list and the image are here sequences of 16-byte cells,   *)
(* counted from 0.  A page is whatever PageLength cells follow a pointer,  *)
(* and pages may overlap.                                                  *)
(***************************************************************************)
EXTENDS Integers, Sequences, FiniteSets

CONSTANTS Pages,          \* page pointers that lie inside the image: offsets in it
          PageLength,     \* HIKBTREE_PAGE_SIZE
          Outside,        \* a pointer beyond its end
          NoPage,         \* 0 or all ones
          Trees,          \* directories to parse, see TreeRows
          MaxPages, MaxEntries    \* MAX_PAGES, MAX_ENTRIES

VARIABLES tree,           \* the directory on the disk
          slot,           \* page-list slots looked at
          listed,         \* page_offsets
          read,           \* how many of them were parsed
          entries,        \* entries found, as [page, at, kind]; at is metadata_offset
          skipped,        \* pages skipped with a warning
          stage           \* "header", "list", "pages", "parsed" or "refused"

treeVars == <<tree, slot, listed, read, entries, skipped, stage>>
found == <<listed, read, entries, skipped>>

-----------------------------------------------------------------------------
\* Cells.  An entry begins with a marker and its status: a recording whose
\* block lies inside the image, one whose block does not, an empty entry or an
\* unknown status.  Every other cell is data.  An entry has SlotCells cells.

Kinds == {"video", "far", "empty", "odd"}
Recognized == {"video", "far", "empty"}
SlotCells == 3

\* Header cells before the first slot, in the shorter layout; the other layout
\* has one more (80 and 96 bytes, here as the constructor's offsets).
Layouts == {1, 2}

Pointers == Pages \cup {Outside, NoPage}

\* The page list and the image, and where in it a recorder wrote which entries.
TreeRows ==
  [declared : Nat, first : Pointers, list : Seq(Pointers), image : Seq(Kinds \cup {"data"}),
   formatted : SUBSET Pages, written : [Pages -> Seq(Kinds)]]

\* read_at(page_absolute, HIKBTREE_PAGE_SIZE)
CellsOf(disk, page) == [i \in 1 .. PageLength |-> disk.image[page + i]]

\* The cell at an offset, and whether a whole slot lies there.
CellAt(cells, offset) == cells[offset + 1]
SlotFits(cells, offset) == offset + SlotCells <= Len(cells)

Slot(layout, index) == layout + SlotCells * index

\* What a recorder writes: a header, an entry in each slot (one that is empty may
\* be filled with its marks), and nothing after the last.
LaidOut(cells, kinds, layout) ==
  /\ \A offset \in 0 .. layout - 1 : offset < Len(cells) => CellAt(cells, offset) = "data"
  /\ \A i \in DOMAIN kinds :
       LET start == Slot(layout, i - 1)
       IN  /\ SlotFits(cells, start)
           /\ CellAt(cells, start) = kinds[i]
           /\ \A offset \in start + 1 .. start + SlotCells - 1 :
                CellAt(cells, offset) \in {"data"} \cup ({kinds[i]} \cap {"empty"})
  /\ \A offset \in Slot(layout, Len(kinds)) .. Len(cells) - 1 : CellAt(cells, offset) = "data"

ASSUME TreeConstants ==
  /\ Outside \notin Pages /\ NoPage \notin Pages \cup {Outside}
  /\ Pages \subseteq Nat /\ PageLength \in Nat
  /\ Trees \subseteq TreeRows
  /\ \A disk \in Trees :
       /\ \A page \in Pages : page + PageLength <= Len(disk.image)
       /\ \A page \in disk.formatted : \E layout \in Layouts :
            LaidOut(CellsOf(disk, page), disk.written[page], layout)
  /\ MaxPages \in Nat \ {0} /\ MaxEntries \in Nat \ {0}

-----------------------------------------------------------------------------
\* _select_page_list_entry_offset: the layout whose first pointer is the one in
\* the header, or else the only one whose first pointer can be followed.

Followable(layout) ==
  SlotFits(tree.list, layout) /\ CellAt(tree.list, layout) \in Pages

Exact(layout) == Followable(layout) /\ CellAt(tree.list, layout) = tree.first

TheOnly(S) == {layout \in S : S = {layout}}

ListLayouts ==
  LET exact == {layout \in Layouts : Exact(layout)}
  IN  IF TheOnly(exact) # {} THEN exact
      ELSE TheOnly({layout \in Layouts : Followable(layout)})

\* _select_page_entry_offset: the layout under which more entries in a row are
\* recognized, if there is one.

InARow(cells, layout, kinds) ==
  {n \in 0 .. Len(cells) :
     \A i \in 0 .. n - 1 : /\ SlotFits(cells, Slot(layout, i))
                           /\ CellAt(cells, Slot(layout, i)) \in kinds}

Score(cells, layout) ==
  CHOOSE n \in InARow(cells, layout, Recognized) :
    \A m \in InARow(cells, layout, Recognized) : m <= n

\* Variant: the longer header wins a tie.
PageLayoutsGuessed(cells) ==
  {layout \in Layouts :
     /\ Score(cells, layout) > 0
     /\ \A other \in Layouts \ {layout} :
          \/ Score(cells, other) < Score(cells, layout)
          \/ Score(cells, other) = Score(cells, layout) /\ other < layout}

PageLayouts(cells) ==
  {layout \in Layouts :
     /\ Score(cells, layout) > 0
     /\ \A other \in Layouts \ {layout} : Score(cells, other) < Score(cells, layout)}

PageCells(page) == CellsOf(tree, page)

\* _parse_page_entries: slots with a marker, up to the first one without.
EntriesOf(page, layout) ==
  LET cells == PageCells(page)
      count == CHOOSE n \in InARow(cells, layout, Kinds) :
                 \A m \in InARow(cells, layout, Kinds) : m <= n
  IN  [i \in 1 .. count |->
         [page |-> page, at |-> page + Slot(layout, i - 1),
          kind |-> CellAt(cells, Slot(layout, i - 1))]]

\* The limit is looked at before the slot, also when no entry follows.
OverLimit(page, layout) ==
  LET more == EntriesOf(page, layout)
  IN  \/ Len(entries) + Len(more) > MaxEntries
      \/ /\ Len(entries) + Len(more) = MaxEntries
         /\ SlotFits(PageCells(page), Slot(layout, Len(more)))

-----------------------------------------------------------------------------
TreeInit ==
  /\ tree \in Trees
  /\ slot = 0 /\ listed = <<>> /\ read = 0 /\ entries = <<>> /\ skipped = {}
  /\ stage = "header"

\* A list of zero pages is an empty result whatever else is there.
ReadHeader ==
  /\ stage = "header"
  /\ stage' = CASE tree.declared > MaxPages -> "refused"
                [] tree.declared = 0        -> "parsed"
                [] OTHER -> IF ListLayouts = {} THEN "refused" ELSE "list"
  /\ UNCHANGED <<tree, slot, found>>

\* _read_page_offsets: empty, outside and repeated pointers are passed over.
ReadSlot(layout) ==
  /\ stage = "list" /\ slot < tree.declared
  /\ SlotFits(tree.list, Slot(layout, slot))
  /\ LET page == CellAt(tree.list, Slot(layout, slot))
     IN  listed' = IF page \in Pages /\ \A i \in DOMAIN listed : listed[i] # page
                   THEN Append(listed, page) ELSE listed
  /\ slot' = slot + 1
  /\ UNCHANGED <<tree, read, entries, skipped, stage>>

EndOfList(layout) ==
  /\ stage = "list"
  /\ slot = tree.declared \/ ~SlotFits(tree.list, Slot(layout, slot))
  /\ stage' = "pages"
  /\ UNCHANGED <<tree, slot, found>>

NextPage == listed[read + 1]

ParsePage(layout) ==
  /\ stage = "pages" /\ read < Len(listed)
  /\ IF OverLimit(NextPage, layout)
       THEN stage' = "refused" /\ UNCHANGED <<entries, read>>
       ELSE /\ entries' = entries \o EntriesOf(NextPage, layout)
            /\ read' = read + 1
            /\ UNCHANGED stage
  /\ UNCHANGED <<tree, slot, listed, skipped>>

\* No layout is the better one: a warning instead of entries.
SkipPage ==
  /\ stage = "pages" /\ read < Len(listed)
  /\ PageLayouts(PageCells(NextPage)) = {}
  /\ skipped' = skipped \cup {NextPage}
  /\ read' = read + 1
  /\ UNCHANGED <<tree, slot, listed, entries, stage>>

EndOfPages ==
  /\ stage = "pages" /\ read = Len(listed)
  /\ stage' = "parsed"
  /\ UNCHANGED <<tree, slot, found>>

TreeNext ==
  \/ ReadHeader
  \/ \E layout \in ListLayouts : ReadSlot(layout) \/ EndOfList(layout)
  \/ stage = "pages" /\ read < Len(listed)
       /\ \E layout \in PageLayouts(PageCells(NextPage)) : ParsePage(layout)
  \/ SkipPage \/ EndOfPages

TreeSpec == TreeInit /\ [][TreeNext]_treeVars

-----------------------------------------------------------------------------
\* enumerate_recordings: the entries an examiner is shown.
Recordings ==
  LET Shown(e) == e.kind = "video" IN SelectSeq(entries, Shown)

\* Properties.

\* The entries of a page follow each other, in this order, and there are no more.
ReadAs(page, kinds) ==
  \E before \in 0 .. Len(entries) :
    /\ \A i \in DOMAIN entries : entries[i].page = page <=> i \in before + 1 .. before + Len(kinds)
    /\ \A k \in DOMAIN kinds : before + k \in DOMAIN entries /\ entries[before + k].kind = kinds[k]

\* A page a recorder wrote is read entry for entry as it was written, whichever
\* layout it was written in, or skipped with a warning; entries nobody wrote are
\* never read of it (the scoring and the tie rule of _select_page_entry_offset).
DirectoryAsWritten ==
  stage = "parsed" =>
    \A i \in DOMAIN listed : listed[i] \in tree.formatted =>
      ReadAs(listed[i], IF listed[i] \in skipped THEN <<>> ELSE tree.written[listed[i]])

\* The two pages share cells of the image.
PagesOverlap(p, q) == p < q + PageLength /\ q < p + PageLength

\* However often a page is listed it is read once: an entry, known by its place
\* in the image, which its recording is named after, is found twice only when
\* two different pointers lie less than a page apart (the set of pages seen).
RecordingsListedOnce ==
  \A i, j \in DOMAIN entries : i # j /\ entries[i].at = entries[j].at =>
    /\ entries[i].page # entries[j].page
    /\ PagesOverlap(entries[i].page, entries[j].page)

\* What HikvisionHikbtreeParser promises of a directory, whichever layouts it
\* has to recognize.
DirectoryRead == DirectoryAsWritten /\ RecordingsListedOnce

\* "Conflicting 80/96-byte layouts fail instead of selecting one heuristically"
\* (docs/forensics/HIKVISION_FORMAT_NOTES.md): no entry is read of a page in
\* which both layouts recognize entries.  They are, when one layout recognizes
\* more of them in a row.
ConflictingLayoutsFail ==
  stage = "parsed" =>
    \A i \in DOMAIN listed :
      (\A layout \in Layouts : Score(PageCells(listed[i]), layout) > 0)
        => listed[i] \in skipped
=============================================================================
