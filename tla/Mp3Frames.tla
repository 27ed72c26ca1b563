------------------------------ MODULE Mp3Frames ------------------------------
(***************************************************************************)
(* The duration of an MP3 file (internal/audioinfo/mp3.go): a walk over    *)
(* its frames that skips ID3v2 tags and stray bytes.  A file is a sequence *)
(* of cells: 0 is a byte that starts nothing, n in 1..9 a valid header of  *)
(* a frame of n cells, 10 + n the header of a tag of n cells.              *)
(***************************************************************************)
EXTENDS Naturals, Sequences, FiniteSets

CONSTANTS
  Chunks,    \* what files are built of: frames, tags and stray bytes
  Tails,     \* how files end: with nothing or with a truncated frame
  MaxChunks  \* bound: chunks of a file

VARIABLES
  file,      \* the data
  offset,    \* where the walk is, from 1
  duration,  \* the cells of the frames counted so far
  expected,  \* history: where a piece of the file begins or the last one ends, the
             \* cells of the whole frames before
  walk,      \* "idle", "walking", "done", or "parsed" for a single header
  header     \* the four bytes that parseFrameHeader looks at

mp3Vars == <<file, offset, duration, expected, walk, header>>

\* The fields of a frame header; NoHeader is one it rejects.
Headers == [version : 0..3, layerID : 0..3, bitrateIndex : 0..15, rateIndex : 0..3, padding : 0..1]
NoHeader == [version |-> 1, layerID |-> 0, bitrateIndex |-> 0, rateIndex |-> 0, padding |-> 0]

Mp3Init ==
  /\ file = <<>> /\ offset = 1 /\ duration = 0 /\ expected = <<0>>
  /\ walk = "idle" /\ header = NoHeader

-----------------------------------------------------------------------------
IsFrame(cell) == cell \in 1..9
TagCells(cell) == cell - 10
WholeFrame(chunk) == IsFrame(Head(chunk))

\* A file is made of stray bytes, whole frames and whole tags; at its end there
\* may be the beginning of a frame.
ASSUME Mp3Assumption ==
  /\ MaxChunks \in Nat
  /\ \A c \in Chunks :
       /\ c \in Seq(Nat) /\ c # <<>>
       /\ \/ c = <<0>>
          \/ IsFrame(Head(c)) /\ Len(c) = Head(c)
          \/ Head(c) > 10 /\ Len(c) = TagCells(Head(c))
  /\ \A t \in Tails : t \in Seq(Nat) /\ (t # <<>> => IsFrame(Head(t)) /\ Len(t) < Head(t))

\* One more piece of the file.
AddChunk(chunk) ==
  LET end == Len(file) + 1  newEnd == end + Len(chunk)
  IN  /\ walk = "idle" /\ Cardinality(DOMAIN expected) <= MaxChunks
      /\ file' = file \o chunk
      /\ expected' = [p \in DOMAIN expected \cup {newEnd} |->
           IF p = newEnd THEN expected[end] + (IF WholeFrame(chunk) THEN Len(chunk) ELSE 0)
           ELSE expected[p]]
      /\ UNCHANGED <<offset, duration, walk, header>>

OpenFile(tail) ==
  /\ walk = "idle"
  /\ file' = file \o tail /\ walk' = "walking"
  /\ UNCHANGED <<offset, duration, expected, header>>

\* skipID3v2: a tag that ends beyond the file is not one.
TagHere == file[offset] > 10 /\ offset + TagCells(file[offset]) <= Len(file) + 1

Walking == walk = "walking" /\ offset <= Len(file)

SkipTag ==
  /\ Walking /\ TagHere
  /\ offset' = offset + TagCells(file[offset])
  /\ UNCHANGED <<file, duration, expected, walk, header>>

Resync ==
  /\ Walking /\ ~TagHere /\ ~IsFrame(file[offset])
  /\ offset' = offset + 1
  /\ UNCHANGED <<file, duration, expected, walk, header>>

\* Mutant: a frame that is cut off counts, too.
FitsAlways == TRUE

FitsHere == offset + file[offset] <= Len(file) + 1

CountFrame ==
  /\ Walking /\ IsFrame(file[offset]) /\ FitsHere
  /\ duration' = duration + file[offset]
  /\ offset' = offset + file[offset]
  /\ UNCHANGED <<file, expected, walk, header>>

\* The file ends, or its last frame is cut off.
EndWalk ==
  /\ walk = "walking"
  /\ Walking => IsFrame(file[offset]) /\ ~FitsHere
  /\ walk' = "done"
  /\ UNCHANGED <<file, offset, duration, expected, header>>

-----------------------------------------------------------------------------
Layer(h) == 4 - h.layerID

\* bitrateKbps
Kbps(h) ==
  LET table == CASE h.version = 3 /\ Layer(h) = 1 ->
                      <<0, 32, 64, 96, 128, 160, 192, 224, 256, 288, 320, 352, 384, 416, 448>>
                 [] h.version = 3 /\ Layer(h) = 2 ->
                      <<0, 32, 48, 56, 64, 80, 96, 112, 128, 160, 192, 224, 256, 320, 384>>
                 [] h.version = 3 /\ Layer(h) = 3 ->
                      <<0, 32, 40, 48, 56, 64, 80, 96, 112, 128, 160, 192, 224, 256, 320>>
                 [] h.version # 3 /\ Layer(h) = 1 ->
                      <<0, 32, 48, 56, 64, 80, 96, 112, 128, 144, 160, 176, 192, 224, 256>>
                 [] OTHER ->
                      <<0, 8, 16, 24, 32, 40, 48, 56, 64, 80, 96, 112, 128, 144, 160>>
  IN  table[h.bitrateIndex + 1]

\* sampleRateHz
Hertz(h) ==
  LET full == <<44100, 48000, 32000>>[h.rateIndex + 1]
  IN  CASE h.version = 2 -> full \div 2 [] h.version = 0 -> full \div 4 [] OTHER -> full

\* parseFrameHeader: the headers it accepts, and what it makes of them.
Accepted(h) == /\ h.version # 1 /\ h.layerID # 0
               /\ h.bitrateIndex \notin {0, 15} /\ h.rateIndex # 3

Halved(h) == Layer(h) = 3 /\ h.version # 3

Samples(h) == IF Layer(h) = 1 THEN 384 ELSE IF Halved(h) THEN 576 ELSE 1152

\* Mutant: frames of half the samples get the bytes of whole ones.
FrameBytesWhole(h) ==
  IF Layer(h) = 1 THEN (((12 * Kbps(h) * 1000) \div Hertz(h)) + h.padding) * 4
  ELSE ((144 * Kbps(h) * 1000) \div Hertz(h)) + h.padding

FrameBytes(h) ==
  IF Layer(h) = 1 THEN (((12 * Kbps(h) * 1000) \div Hertz(h)) + h.padding) * 4
  ELSE (((IF Halved(h) THEN 72 ELSE 144) * Kbps(h) * 1000) \div Hertz(h)) + h.padding

ParseHeader(h) ==
  /\ walk = "idle" /\ file = <<>> /\ Accepted(h)
  /\ header' = h /\ walk' = "parsed"
  /\ UNCHANGED <<file, offset, duration, expected>>

Mp3Next ==
  \/ \E chunk \in Chunks : AddChunk(chunk)
  \/ \E tail \in Tails : OpenFile(tail)
  \/ \E h \in Headers : ParseHeader(h)
  \/ SkipTag \/ Resync \/ CountFrame \/ EndWalk

\* The walk counts every whole frame once and nothing else, although tags, the
\* payload of frames and a truncated last frame contain bytes that look like
\* headers (MP3Duration).
WholeFramesCounted ==
  walk = "done" => \A end \in DOMAIN expected :
                     (\A p \in DOMAIN expected : p <= end) => duration = expected[end]

\* The size by which the walk advances is the one that the bit rate leaves for
\* the samples whose time it adds, in whole slots, for every version and layer
\* (parseFrameHeader): otherwise the walk loses the frames.
FrameHoldsItsSamples ==
  LET slot == IF Layer(header) = 1 THEN 4 ELSE 1
      bits == Samples(header) * Kbps(header) * 1000
  IN  Accepted(header) =>
        FrameBytes(header) = slot * ((bits \div (8 * slot * Hertz(header))) + header.padding)

Mp3Spec == Mp3Init /\ [][Mp3Next]_mp3Vars
=============================================================================
