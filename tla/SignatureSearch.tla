--------------------------- MODULE SignatureSearch ---------------------------
(***************************************************************************)
(* HikvisionAdapter._find_signature: the disk image is read in windows,    *)
(* and the last bytes of a window are kept in front of the next one, so    *)
(* that a signature across two windows is found.  Only the first           *)
(* scan_limit bytes are read.                                              *)
(*                                                                         *)
(* The kept bytes are always the image's bytes just before `position`;     *)
(* only their number is a variable.  Offsets count from 0.                 *)
(***************************************************************************)
EXTENDS Integers, Sequences, FiniteSets

CONSTANTS Bytes,
          Signature,      \* HIKVISION_SIGNATURE
          Images,         \* disk images to search
          Limits,         \* arguments the adapter may be made with
          ChunkSizes

\* The adapter refuses a chunk shorter than the signature.
ASSUME SearchConstants ==
  /\ Signature \in Seq(Bytes) /\ Len(Signature) > 1
  /\ Images \subseteq Seq(Bytes)
  /\ Limits \subseteq Nat \ {0} /\ ChunkSizes \subseteq Nat
  /\ \A n \in ChunkSizes : n >= Len(Signature)

VARIABLES image, scanLimit, chunkSize,   \* the arguments
          position,       \* where the next window begins
          kept,           \* bytes kept from the windows before
          outcome,        \* "searching", "found" or "absent"
          match           \* where the signature was found

arguments == <<image, scanLimit, chunkSize>>
searchVars == <<image, scanLimit, chunkSize, position, kept, outcome, match>>

-----------------------------------------------------------------------------
Lesser(a, b) == IF a < b THEN a ELSE b

Size == Len(Signature)

\* The signature's bytes lie at this offset of the image.
SignatureAt(p) ==
  /\ p + Size <= Len(image)
  /\ \A k \in 1 .. Size : image[p + k] = Signature[k]

ScanLength == Lesser(Len(image), scanLimit)

ReadLength == Lesser(chunkSize, ScanLength - position)

\* What bytes.find looks through: the kept bytes and the new window.
Hits == {p \in position - kept .. position + ReadLength - Size : SignatureAt(p)}

-----------------------------------------------------------------------------
SearchInit ==
  /\ image \in Images /\ scanLimit \in Limits /\ chunkSize \in ChunkSizes
  /\ position = 0 /\ kept = 0
  /\ outcome = "searching" /\ match = 0

FindInWindow ==
  /\ outcome = "searching" /\ position < ScanLength
  /\ \E p \in Hits : /\ \A q \in Hits : p <= q
                     /\ match' = p
  /\ outcome' = "found"
  /\ UNCHANGED <<arguments, position, kept>>

\* Variant: one byte too few is kept.
NextWindowShortOverlap ==
  /\ outcome = "searching" /\ position < ScanLength
  /\ Hits = {}
  /\ kept' = Lesser(Size - 2, kept + ReadLength)
  /\ position' = position + ReadLength
  /\ UNCHANGED <<arguments, outcome, match>>

NextWindow ==
  /\ outcome = "searching" /\ position < ScanLength
  /\ Hits = {}
  /\ kept' = Lesser(Size - 1, kept + ReadLength)
  /\ position' = position + ReadLength
  /\ UNCHANGED <<arguments, outcome, match>>

GiveUp ==
  /\ outcome = "searching" /\ position >= ScanLength
  /\ outcome' = "absent"
  /\ UNCHANGED <<arguments, position, kept, match>>

SearchNext == FindInWindow \/ NextWindow \/ GiveUp

SearchSpec == SearchInit /\ [][SearchNext]_searchVars

-----------------------------------------------------------------------------
\* Properties.

\* Whatever the window size, and wherever the signature lies across windows,
\* the answer is the first signature that lies whole in the first scan_limit
\* bytes, and "absent" means there is none (the kept bytes of _find_signature).
FirstSignatureFound ==
  /\ outcome = "found" =>
       /\ SignatureAt(match) /\ match >= 0 /\ match + Size <= ScanLength
       /\ \A p \in 0 .. match - 1 : ~SignatureAt(p)
  /\ outcome = "absent" => \A p \in 0 .. ScanLength - Size : ~SignatureAt(p)
=============================================================================
