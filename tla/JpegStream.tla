----------------------------- MODULE JpegStream -----------------------------
(***************************************************************************)
(* native_mjpeg_camera_node: v4l2-ctl writes JPEG images one after the     *)
(* other into a pipe; a thread reads it in chunks that know nothing of     *)
(* images and cuts the images out, by their markers: FF D8 begins one,     *)
(* FF D9 ends it.  Each image is published before the next one is cut.     *)
(***************************************************************************)
EXTENDS Naturals, Sequences

CONSTANTS
  ChunkSize,       \* the most bytes one read returns
  PipeSize,        \* the most bytes the pipe holds
  StreamBound      \* bound of the runs: the bytes the process writes

ASSUME StreamAssumption == ChunkSize \in Nat

VARIABLES
  process,         \* of v4l2-ctl: "running" or "exited"
  written,         \* every byte it wrote (history)
  pipe,            \* those not read yet
  reader,          \* the thread: "reading", "cutting" or "done"
  stop_event,
  pending,
  frames           \* the images published
stream == <<process, written, pipe, reader, stop_event, pending, frames>>

\* The bytes of the two markers.  Any other byte does what D8 and D9 do where they
\* do not follow FF.
Byte == {"FF", "D8", "D9"}
SOI == <<"FF", "D8">>
EOI == <<"FF", "D9">>

StreamInit ==
  /\ process = "running"
  /\ written = <<>> /\ pipe = <<>>
  /\ reader = "reading" /\ stop_event = FALSE
  /\ pending = <<>>
  /\ frames = <<>>

------------------------------------------------------------------------------
(* The cutting.                                                            *)

\* Where a marker is in bytes, at or after a place.
Places(bytes, marker, from) ==
  {i \in from..(Len(bytes) - 1) : bytes[i] = marker[1] /\ bytes[i + 1] = marker[2]}

\* find: the first of them, if there is one.
First(bytes, marker, from) ==
  {i \in Places(bytes, marker, from) : \A j \in Places(bytes, marker, from) : i <= j}

From(bytes, i) == SubSeq(bytes, i, Len(bytes))

\* Plausible bug: without a beginning nothing is kept.
DropAll(bytes) == <<>>

\* Without a beginning only the last two bytes are kept, which may hold half of one.
DropPrefix(bytes) == IF Len(bytes) > 2 THEN From(bytes, Len(bytes) - 1) ELSE bytes

\* _extract_jpegs finds an image, and it is published; or, when the node is being
\* destroyed, publishing it raises an exception and ends the thread.
CutImage ==
  /\ reader = "cutting"
  /\ \E soi \in First(pending, SOI, 1) : \E eoi \in First(pending, EOI, soi + 2) :
       /\ pending' = From(pending, eoi + 2)
       /\ \/ frames' = Append(frames, SubSeq(pending, soi, eoi + 1)) /\ reader' = reader
          \/ stop_event /\ frames' = frames /\ reader' = "done"
  /\ UNCHANGED <<process, written, pipe, stop_event>>

\* It finds no more.
CutNothing ==
  /\ reader = "cutting"
  /\ \/ /\ Places(pending, SOI, 1) = {}
        /\ pending' = DropPrefix(pending)
     \/ \E soi \in First(pending, SOI, 1) :
          /\ Places(pending, EOI, soi + 2) = {}
          /\ pending' = From(pending, soi)
  /\ reader' = "reading"
  /\ UNCHANGED <<process, written, pipe, stop_event, frames>>

------------------------------------------------------------------------------
(* The process and the thread.                                             *)

Write ==
  /\ process = "running"
  /\ Len(pipe) < PipeSize /\ Len(written) < StreamBound
  /\ \E byte \in Byte : written' = Append(written, byte) /\ pipe' = Append(pipe, byte)
  /\ UNCHANGED <<process, reader, stop_event, pending, frames>>

\* By itself, or terminated by destroy_node.
Exit ==
  /\ process = "running"
  /\ process' = "exited"
  /\ UNCHANGED <<written, pipe, reader, stop_event, pending, frames>>

\* A read returns some of what is in the pipe.
Read ==
  /\ reader = "reading" /\ ~stop_event
  /\ \E n \in 1..ChunkSize :
       /\ n <= Len(pipe)
       /\ pipe' = From(pipe, n + 1)
       /\ pending' = pending \o SubSeq(pipe, 1, n)
  /\ reader' = "cutting"
  /\ UNCHANGED <<process, written, stop_event, frames>>

\* Plausible bug: the thread ends with the process, whatever is left to read.
ReaderEndsWithProcess ==
  /\ reader = "reading"
  /\ stop_event \/ process = "exited"
  /\ reader' = "done"
  /\ UNCHANGED <<process, written, pipe, stop_event, pending, frames>>

\* An empty read ends the thread when the process has exited, not before.
ReaderEnds ==
  /\ reader = "reading"
  /\ stop_event \/ (process = "exited" /\ pipe = <<>>)
  /\ reader' = "done"
  /\ UNCHANGED <<process, written, pipe, stop_event, pending, frames>>

\* destroy_node; the process is then terminated.
Stop ==
  /\ ~stop_event
  /\ stop_event' = TRUE
  /\ UNCHANGED <<process, written, pipe, reader, pending, frames>>

StreamNext ==
  Write \/ Exit \/ Read \/ CutImage \/ CutNothing \/ ReaderEnds \/ Stop
StreamSpec == StreamInit /\ [][StreamNext]_stream

------------------------------------------------------------------------------
(* Properties.                                                             *)

\* The images of bytes, read as a whole: each goes from the first beginning at or
\* after the end of the one before it, which is at at[k], to the next end.
AreCutAt(images, bytes, at) ==
  /\ at[1] = 1
  /\ \A k \in DOMAIN images :
       \E soi \in First(bytes, SOI, at[k]) : \E eoi \in First(bytes, EOI, soi + 2) :
         /\ images[k] = SubSeq(bytes, soi, eoi + 1)
         /\ at[k + 1] = eoi + 2

NoImage(bytes, from) ==
  \A soi \in Places(bytes, SOI, from) : Places(bytes, EOI, soi + 2) = {}

\* The places where images may end, with the beginning of the bytes.
Cuts(images, bytes) == [1..(Len(images) + 1) -> 1..(Len(bytes) + 1)]

AreFirstImages(images, bytes) == \E at \in Cuts(images, bytes) : AreCutAt(images, bytes, at)

AreTheImages(images, bytes) ==
  \E at \in Cuts(images, bytes) :
    AreCutAt(images, bytes, at) /\ NoImage(bytes, at[Len(images) + 1])

BytesRead == SubSeq(written, 1, Len(written) - Len(pipe))

\* The images published are the first of the stream read so far and, before the next
\* read, all of them, whatever the process writes and wherever the reads cut it,
\* through a marker too; and a thread that was not stopped has read everything that
\* was written.
ImagesAreThoseOfTheStream ==
  /\ AreFirstImages(frames, BytesRead)
  /\ reader = "reading" => AreTheImages(frames, BytesRead)
  /\ reader = "done" /\ ~stop_event => AreTheImages(frames, written)
==============================================================================
