------------------------------- MODULE NalScan -------------------------------
(***************************************************************************)
(* Is an extracted block video?  validate_annex_b_chunks (video/annexb.py) *)
(* looks for Annex-B start codes, takes the byte after each as a NAL       *)
(* header, reads it as H.264 and as H.265 at once, and names the codec     *)
(* whose parameter sets it saw.  Offsets count from 0.                     *)
(***************************************************************************)
EXTENDS Integers, Sequences, FiniteSets

CONSTANT Streams        \* blocks to validate

ASSUME StreamConstants == Streams \subseteq Seq(0 .. 255)

VARIABLES data,           \* the bytes
          place,          \* position of the scan
          headers,        \* header offsets observed
          codec           \* "scanning", or the answer

nalVars == <<data, place, headers, codec>>

-----------------------------------------------------------------------------
ByteAt(offset) == data[offset + 1]

ShortCodeAt(p) ==
  /\ p + 2 < Len(data)
  /\ ByteAt(p) = 0 /\ ByteAt(p + 1) = 0 /\ ByteAt(p + 2) = 1

LongCodeAt(p) == p < Len(data) /\ ByteAt(p) = 0 /\ ShortCodeAt(p + 1)

StartCodeLength == IF LongCodeAt(place) THEN 4 ELSE IF ShortCodeAt(place) THEN 3 ELSE 0

Scanning == codec = "scanning" /\ place + 3 < Len(data)

\* The type fields of a header byte.
H264Type(byte) == byte % 32

H265Type(byte) == (byte \div 2) % 64

H264Types == {H264Type(ByteAt(h)) : h \in headers}
H265Types == {H265Type(ByteAt(h)) : h \in headers}

Decision ==
  LET h264 == {7, 8} \subseteq H264Types
      h265 == {32, 33, 34} \subseteq H265Types
  IN  CASE h264 /\ h265   -> "conflict"
        [] h264 /\ ~h265  -> "h264"
        [] h265 /\ ~h264  -> "h265"
        [] ~h264 /\ ~h265 -> "none"

-----------------------------------------------------------------------------
NalInit ==
  /\ data \in Streams
  /\ place = 0 /\ headers = {} /\ codec = "scanning"

NoCodeHere ==
  /\ Scanning /\ StartCodeLength = 0
  /\ place' = place + 1
  /\ UNCHANGED <<data, headers, codec>>

\* Variant: the scan goes on one byte too late.
ObserveUnitSkipping ==
  /\ Scanning /\ StartCodeLength > 0
  /\ place + StartCodeLength < Len(data)
  /\ headers' = headers \cup {place + StartCodeLength}
  /\ place' = place + StartCodeLength + 2
  /\ UNCHANGED <<data, codec>>

ObserveUnit ==
  /\ Scanning /\ StartCodeLength > 0
  /\ place + StartCodeLength < Len(data)
  /\ headers' = headers \cup {place + StartCodeLength}
  /\ place' = place + StartCodeLength + 1
  /\ UNCHANGED <<data, codec>>

\* The end, or a start code with no byte after it.
Decide ==
  /\ codec = "scanning"
  /\ place + 3 < Len(data) => StartCodeLength > 0 /\ place + StartCodeLength >= Len(data)
  /\ codec' = Decision
  /\ UNCHANGED <<data, place, headers>>

NalNext == NoCodeHere \/ ObserveUnit \/ Decide

NalSpec == NalInit /\ [][NalNext]_nalVars

-----------------------------------------------------------------------------
\* Properties.

\* The units of a stream, told without a scan: the offset after each start code.
Units == {p + 3 : p \in {q \in 0 .. Len(data) - 4 : ShortCodeAt(q)}}

\* Each unit is observed, with long and short start codes, back to back or at
\* either end of the block, and nothing else is: only a start code that overlaps
\* the header before it is taken for payload (_observe_chunk).
EveryUnitObserved ==
  codec # "scanning" =>
    /\ headers \subseteq Units
    /\ \A u \in Units \ headers : \E h \in headers : u - 3 <= h /\ h < u

\* The headers an encoder of each codec writes: H.264 without data partitions,
\* H.265 with the base layer only.
OnlyH264 == \A u \in Units : ByteAt(u) < 128 /\ H264Type(ByteAt(u)) \in 1 .. 12 \ {2, 3, 4}
OnlyH265 == \A u \in Units : ByteAt(u) < 128 /\ ByteAt(u) % 2 = 0

\* A stream of one codec is never taken for the other or for a mixture, though
\* each header byte is read both ways (an H.264 slice header can read as an
\* H.265 VPS), and its parameter sets are enough to recognize it.
CodecNotMistaken ==
  codec # "scanning" /\ headers = Units =>
    /\ OnlyH264 => codec = IF \A n \in {7, 8} : \E u \in Units : ByteAt(u) % 32 = n
                           THEN "h264" ELSE "none"
    /\ OnlyH265 /\ Units # {} =>
         codec = IF \A n \in {64, 66, 68} : \E u \in Units : ByteAt(u) = n
                 THEN "h265" ELSE "none"

\* What validate_annex_b_chunks promises of a block.
UnitsRecognized == EveryUnitObserved /\ CodecNotMistaken
=============================================================================
