----------------------------- MODULE VisionProofs -----------------------------
(***************************************************************************)
(* From the image to the target.  The camera's images are cut whole out of *)
(* the stream.  The throttle of yolo_node keeps max_fps and skips few      *)
(* images, and no frame lies about on its way, for every timing of the     *)
(* camera and of the inferences.  The tracker believes in an unseen target *)
(* for the grace period and no longer; that the place steered at is the    *)
(* one last seen needs an order of the time-outs, which configs/pi.yaml    *)
(* and the defaults of the code both have, and which nothing in the code   *)
(* demands.                                                                *)
(***************************************************************************)
EXTENDS TrackerHistory, FramePath, YoloRate, JpegStream, TLAPS

------------------------------------------------------------------------------
(* Cutting the camera's stream into images.                                *)

\* What was written and not read is in the pipe.
StreamTypes ==
  /\ written \in Seq(Byte) /\ pipe \in Seq(Byte) /\ pending \in Seq(Byte)
  /\ frames \in Seq(Seq(Byte))
  /\ reader \in {"reading", "cutting", "done"}
  /\ Len(pipe) <= Len(written)
  /\ \A i \in 1..Len(pipe) : pipe[i] = written[Len(written) - Len(pipe) + i]

\* The place in the stream before what is pending.
Before == Len(BytesRead) - Len(pending)

\* What is pending is the end of what was read; before it no image begins since the
\* last one, and nothing is lost between them when nothing is pending.
PendingFollows(last) ==
  /\ Before \in Nat
  /\ \A i \in DOMAIN pending : pending[i] = BytesRead[Before + i]
  /\ last <= Before + 1
  /\ \A i \in Places(BytesRead, SOI, last) : i > Before
  /\ pending = <<>> => last = Before + 1

CutInv ==
  /\ StreamTypes
  /\ \E at \in Cuts(frames, BytesRead) :
       LET last == at[Len(frames) + 1]
       IN  /\ AreCutAt(frames, BytesRead, at)
           /\ reader # "done" => PendingFollows(last)
           /\ reader = "reading" => NoImage(BytesRead, last)
           /\ reader = "done" /\ ~stop_event =>
                pipe = <<>> /\ process = "exited" /\ NoImage(BytesRead, last)

\* What was read is in what was written.
LEMMA BytesReadAre ==
  ASSUME StreamTypes
  PROVE  /\ BytesRead \in Seq(Byte)
         /\ Len(BytesRead) = Len(written) - Len(pipe)
         /\ \A i \in 1..Len(BytesRead) : BytesRead[i] = written[i]
BY DEF StreamTypes, BytesRead

\* A marker is in the bytes as a whole.
LEMMA FirstType ==
  ASSUME NEW bytes \in Seq(Byte), NEW marker, NEW from \in Nat \ {0},
         NEW i \in First(bytes, marker, from)
  PROVE  i \in Nat \ {0} /\ i >= from /\ i + 1 <= Len(bytes)
BY DEF First, Places

\* A first place stays the first one when more bytes follow.
LEMMA FirstStays ==
  ASSUME NEW a \in Seq(Byte), NEW b \in Seq(Byte), Len(a) <= Len(b),
         \A i \in 1..Len(a) : a[i] = b[i],
         NEW marker, NEW from \in Nat \ {0}, NEW i \in First(a, marker, from)
  PROVE  i \in First(b, marker, from)
BY DEF First, Places

\* So the images of a stream stay its first images.
LEMMA CutsStay ==
  ASSUME NEW a \in Seq(Byte), NEW b \in Seq(Byte), Len(a) <= Len(b),
         \A i \in 1..Len(a) : a[i] = b[i],
         NEW images \in Seq(Seq(Byte)), NEW at \in Cuts(images, a),
         AreCutAt(images, a, at)
  PROVE  at \in Cuts(images, b) /\ AreCutAt(images, b, at)
<1>1. at \in Cuts(images, b)
  BY DEF Cuts
<1>2. ASSUME NEW k \in DOMAIN images
      PROVE  \E soi \in First(b, SOI, at[k]) : \E eoi \in First(b, EOI, soi + 2) :
               images[k] = SubSeq(b, soi, eoi + 1) /\ at[k + 1] = eoi + 2
  <2>1. at[k] \in Nat \ {0}
    BY DEF Cuts
  <2>2. PICK soi \in First(a, SOI, at[k]) : \E eoi \in First(a, EOI, soi + 2) :
          images[k] = SubSeq(a, soi, eoi + 1) /\ at[k + 1] = eoi + 2
    BY DEF AreCutAt
  <2>3. PICK eoi \in First(a, EOI, soi + 2) :
          images[k] = SubSeq(a, soi, eoi + 1) /\ at[k + 1] = eoi + 2
    BY <2>2
  <2>4. soi \in Nat \ {0}
    BY <2>1, FirstType
  <2>5. soi + 2 \in Nat \ {0}
    BY <2>4
  <2>6. eoi \in Nat /\ eoi + 1 <= Len(a)
    BY <2>5, FirstType
  <2>7. soi \in First(b, SOI, at[k])
    BY <2>1, FirstStays
  <2>8. eoi \in First(b, EOI, soi + 2)
    BY <2>5, FirstStays
  <2>9. SubSeq(a, soi, eoi + 1) = SubSeq(b, soi, eoi + 1)
    BY <2>6, <2>4
  <2> QED
    BY <2>3, <2>7, <2>9, <2>8
<1> QED
  BY <1>1, <1>2 DEF AreCutAt

\* One more image.
LEMMA OneMoreCut ==
  ASSUME NEW bytes \in Seq(Byte), NEW images \in Seq(Seq(Byte)),
         NEW at \in Cuts(images, bytes), AreCutAt(images, bytes, at),
         NEW soi \in First(bytes, SOI, at[Len(images) + 1]),
         NEW eoi \in First(bytes, EOI, soi + 2)
  PROVE  LET more == Append(images, SubSeq(bytes, soi, eoi + 1))
             later == [k \in 1..(Len(more) + 1) |->
                         IF k <= Len(more) THEN at[k] ELSE eoi + 2]
         IN  /\ more \in Seq(Seq(Byte))
             /\ later \in Cuts(more, bytes) /\ AreCutAt(more, bytes, later)
             /\ later[Len(more) + 1] = eoi + 2
<1> DEFINE more == Append(images, SubSeq(bytes, soi, eoi + 1))
           later == [k \in 1..(Len(more) + 1) |->
                       IF k <= Len(more) THEN at[k] ELSE eoi + 2]
<1>1. /\ at[Len(images) + 1] \in Nat \ {0}
      /\ soi \in Nat \ {0} /\ eoi \in Nat /\ eoi + 1 <= Len(bytes)
  BY DEF Cuts, First, Places
<1>2. more \in Seq(Seq(Byte)) /\ Len(more) = Len(images) + 1
  BY <1>1
<1>3. later \in Cuts(more, bytes)
  BY <1>1, <1>2 DEF Cuts
<1>4. later[Len(more) + 1] = eoi + 2
  BY <1>2
<1>5. ASSUME NEW k \in DOMAIN more
      PROVE  \E s \in First(bytes, SOI, later[k]) : \E e \in First(bytes, EOI, s + 2) :
               more[k] = SubSeq(bytes, s, e + 1) /\ later[k + 1] = e + 2
  <2>1. CASE k \in DOMAIN images
    <3>1. more[k] = images[k] /\ later[k] = at[k] /\ later[k + 1] = at[k + 1]
      BY <2>1, <1>2
    <3> QED
      BY <2>1, <3>1 DEF AreCutAt
  <2>2. CASE k = Len(more)
    <3>1. more[k] = SubSeq(bytes, soi, eoi + 1) /\ later[k] = at[Len(images) + 1]
      BY <2>2, <1>2
    <3> QED
      BY <2>2, <3>1, <1>4
  <2>3. k \in DOMAIN images \/ k = Len(more)
    <3>1. DOMAIN more = 1..Len(more) /\ DOMAIN images = 1..Len(images)
      BY <1>2
    <3> HIDE DEF more
    <3> QED
      BY <3>1, <1>2
  <2> QED
    BY <2>1, <2>2, <2>3
<1>6. later[1] = 1
  BY <1>2 DEF AreCutAt
<1> QED
  BY <1>2, <1>3, <1>4, <1>5, <1>6 DEF AreCutAt

\* The end of a stream has the stream's markers.
LEMMA PlacesOfEnd ==
  ASSUME NEW bytes \in Seq(Byte), NEW end \in Seq(Byte), NEW before \in Nat,
         Len(bytes) = before + Len(end),
         \A i \in DOMAIN end : end[i] = bytes[before + i],
         NEW marker, NEW from \in Nat \ {0}, NEW i \in Nat
  PROVE  i \in Places(end, marker, from) <=>
           before + i \in Places(bytes, marker, before + from)
<1>1. ASSUME i >= from, i + 1 <= Len(end)
      PROVE  end[i] = bytes[before + i] /\ end[i + 1] = bytes[before + i + 1]
  <2>1. i \in DOMAIN end /\ i + 1 \in DOMAIN end
    BY <1>1
  <2>2. end[i] = bytes[before + i] /\ end[i + 1] = bytes[before + (i + 1)]
    BY <2>1
  <2>3. before + (i + 1) = before + i + 1
    OBVIOUS
  <2> QED
    BY <2>2, <2>3
<1> QED
  BY <1>1 DEF Places

LEMMA FirstOfEnd ==
  ASSUME NEW bytes \in Seq(Byte), NEW end \in Seq(Byte), NEW before \in Nat,
         Len(bytes) = before + Len(end),
         \A i \in DOMAIN end : end[i] = bytes[before + i],
         NEW marker, NEW from \in Nat \ {0}, NEW i \in First(end, marker, from)
  PROVE  before + i \in First(bytes, marker, before + from)
<1>1. i \in Nat /\ i \in Places(end, marker, from)
  BY DEF First, Places
<1>2. before + i \in Places(bytes, marker, before + from)
  BY <1>1, PlacesOfEnd
<1>3. ASSUME NEW j \in Places(bytes, marker, before + from)
      PROVE  before + i <= j
  <2>1. PICK k \in Nat : j = before + k
    <3>1. j \in Nat /\ j - before \in Nat /\ j = before + (j - before)
      BY DEF Places
    <3> QED
      BY <3>1
  <2>2. k \in Places(end, marker, from)
    BY <2>1, PlacesOfEnd
  <2>3. i <= k
    BY <2>2 DEF First
  <2> QED
    BY <1>1, <2>1, <2>3
<1> QED
  BY <1>2, <1>3 DEF First

LEMMA CutInvInit == StreamInit => CutInv
<1> SUFFICES ASSUME StreamInit PROVE CutInv
  OBVIOUS
<1>1. StreamTypes
  BY DEF StreamInit, StreamTypes
<1>2. BytesRead = <<>>
  BY DEF StreamInit, BytesRead
<1> DEFINE at == [k \in 1..1 |-> 1]
<1>3. at \in Cuts(frames, BytesRead)
  BY <1>2 DEF StreamInit, Cuts
<1>4. AreCutAt(frames, BytesRead, at)
  BY DEF StreamInit, AreCutAt
<1>5. PendingFollows(at[Len(frames) + 1]) /\ NoImage(BytesRead, at[Len(frames) + 1])
  BY <1>2 DEF StreamInit, PendingFollows, Before, NoImage, Places
<1> QED
  BY <1>1, <1>3, <1>4, <1>5 DEF CutInv, StreamInit

\* The process and a stop leave what was read as it is.
LEMMA CutInvProcess ==
  ASSUME CutInv, Write \/ Exit \/ Stop
  PROVE  CutInv'
<1>1. StreamTypes' /\ BytesRead' = BytesRead
  <2>1. CASE Write
    <3>1. PICK byte \in Byte : written' = Append(written, byte) /\ pipe' = Append(pipe, byte)
      BY <2>1 DEF Write
    <3>2. StreamTypes'
      <4>1. StreamTypes /\ UNCHANGED <<pending, frames, reader>>
        BY <2>1 DEF CutInv, Write
      <4>2. /\ written' \in Seq(Byte) /\ Len(written') = Len(written) + 1
            /\ written'[Len(written) + 1] = byte
            /\ \A i \in 1..Len(written) : written'[i] = written[i]
        BY <3>1, <4>1 DEF StreamTypes
      <4>3. /\ pipe' \in Seq(Byte) /\ Len(pipe') = Len(pipe) + 1
            /\ pipe'[Len(pipe) + 1] = byte
            /\ \A i \in 1..Len(pipe) : pipe'[i] = pipe[i]
        BY <3>1, <4>1 DEF StreamTypes
      <4>4. ASSUME NEW i \in 1..Len(pipe')
            PROVE  pipe'[i] = written'[Len(written') - Len(pipe') + i]
        BY <4>1, <4>2, <4>3 DEF StreamTypes
      <4> QED
        BY <4>1, <4>2, <4>3, <4>4 DEF StreamTypes
    <3>3. BytesRead' = BytesRead
      <4>1. /\ BytesRead \in Seq(Byte) /\ BytesRead' \in Seq(Byte)
            /\ Len(BytesRead) = Len(BytesRead')
            /\ \A i \in 1..Len(BytesRead) : BytesRead[i] = BytesRead'[i]
        BY <3>1 DEF CutInv, StreamTypes, BytesRead
      <4> QED
        BY <4>1
    <3> QED
      BY <3>2, <3>3
  <2>2. CASE Exit \/ Stop
    BY <2>2 DEF CutInv, StreamTypes, BytesRead, Exit, Stop
  <2> QED
    BY <2>1, <2>2
<1>2. UNCHANGED <<reader, pending, frames>>
  BY DEF Write, Exit, Stop
<1>3. PICK at \in Cuts(frames, BytesRead) :
        LET last == at[Len(frames) + 1]
        IN  /\ AreCutAt(frames, BytesRead, at)
            /\ reader # "done" => PendingFollows(last)
            /\ reader = "reading" => NoImage(BytesRead, last)
            /\ reader = "done" /\ ~stop_event =>
                 pipe = <<>> /\ process = "exited" /\ NoImage(BytesRead, last)
  BY DEF CutInv
<1>4. at \in Cuts(frames, BytesRead)'
  BY <1>1, <1>2
<1>5. reader' # "done" => PendingFollows(at[Len(frames) + 1])'
  BY <1>1, <1>2, <1>3 DEF PendingFollows, Before
<1>6. reader' = "done" /\ ~stop_event' => pipe' = <<>> /\ process' = "exited" /\ ~stop_event
  BY <1>2, <1>3 DEF Write, Exit, Stop
<1> QED
  BY <1>1, <1>2, <1>3, <1>4, <1>5, <1>6 DEF CutInv

\* A read moves bytes from the pipe to the end of what was read.
LEMMA ReadMoves ==
  ASSUME StreamTypes, NEW n \in 1..Len(pipe),
         pipe' = From(pipe, n + 1), pending' = pending \o SubSeq(pipe, 1, n),
         UNCHANGED <<written, frames>>, reader' \in {"reading", "cutting", "done"}
  PROVE  /\ StreamTypes'
         /\ BytesRead' \in Seq(Byte) /\ Len(BytesRead') = Len(BytesRead) + n
         /\ \A i \in 1..Len(BytesRead) : BytesRead'[i] = BytesRead[i]
         /\ Len(pending') = Len(pending) + n
         /\ \A i \in 1..Len(pending) : pending'[i] = pending[i]
         /\ \A i \in 1..n : pending'[Len(pending) + i] = BytesRead'[Len(BytesRead) + i]
<1>0. /\ n \in Nat \ {0} /\ Len(pipe) \in Nat /\ Len(written) \in Nat
      /\ n <= Len(pipe) /\ Len(pipe) <= Len(written) /\ written \in Seq(Byte)
  BY DEF StreamTypes
<1>1. /\ pipe' \in Seq(Byte) /\ Len(pipe') = Len(pipe) - n
      /\ \A i \in 1..Len(pipe') : pipe'[i] = pipe[n + i]
  BY DEF StreamTypes, From
<1>2. /\ pending' \in Seq(Byte) /\ Len(pending') = Len(pending) + n
      /\ \A i \in 1..Len(pending) : pending'[i] = pending[i]
      /\ \A i \in 1..n : pending'[Len(pending) + i] = pipe[i]
  BY DEF StreamTypes
<1>3. StreamTypes'
  <2>1. ASSUME NEW i \in 1..(Len(pipe) - n)
        PROVE  pipe'[i] = written'[Len(written') - Len(pipe') + i]
    <3>1. n + i \in 1..Len(pipe)
      BY <1>0, <1>1
    <3>2. pipe[n + i] = written[Len(written) - Len(pipe) + (n + i)]
      BY <3>1 DEF StreamTypes
    <3>3. Len(written) - Len(pipe) + (n + i) = Len(written) - Len(pipe') + i
      <4>1. Len(pipe') = Len(pipe) - n /\ i \in Nat /\ n \in Nat
        BY <1>0, <1>1
      <4>2. Len(written) - Len(pipe) + (n + i) = Len(written) - (Len(pipe) - n) + i
        BY <1>0, <4>1
      <4> QED
        BY <4>1, <4>2
    <3> QED
      BY <1>1, <3>2, <3>3
  <2>2. \A i \in 1..Len(pipe') : pipe'[i] = written'[Len(written') - Len(pipe') + i]
    BY <1>1, <2>1
  <2>3. Len(pipe') <= Len(written')
    BY <1>0, <1>1
  <2> QED
    BY <1>1, <1>2, <2>2, <2>3 DEF StreamTypes
<1>4. /\ BytesRead \in Seq(Byte) /\ Len(BytesRead) = Len(written) - Len(pipe)
      /\ \A i \in 1..Len(BytesRead) : BytesRead[i] = written[i]
  BY BytesReadAre
<1>5. /\ BytesRead' \in Seq(Byte) /\ Len(BytesRead') = Len(written) - Len(pipe')
      /\ \A i \in 1..Len(BytesRead') : BytesRead'[i] = written[i]
  <2>1. Len(written) - Len(pipe') \in 0..Len(written)
    BY <1>0, <1>1
  <2>2. BytesRead' = SubSeq(written, 1, Len(written) - Len(pipe'))
    BY DEF BytesRead
  <2> QED
    <3> DEFINE m == Len(written) - Len(pipe')
    <3>1. m \in 0..Len(written) /\ BytesRead' = SubSeq(written, 1, m)
      BY <2>1, <2>2
    <3> HIDE DEF m
    <3>2. BytesRead' \in Seq(Byte) /\ Len(BytesRead') = m /\ \A i \in 1..m : BytesRead'[i] = written[i]
      BY <1>0, <3>1
    <3> QED
      BY <3>2 DEF m
<1>6. ASSUME NEW i \in 1..n
      PROVE  pending'[Len(pending) + i] = BytesRead'[Len(BytesRead) + i]
  <2>1. pipe[i] = written[Len(written) - Len(pipe) + i]
    BY DEF StreamTypes
  <2> QED
    <3>1. /\ Len(BytesRead) + i = Len(written) - Len(pipe) + i
          /\ Len(BytesRead) + i \in 1..Len(BytesRead')
      BY <1>0, <1>1, <1>4, <1>5
    <3> QED
      BY <1>2, <1>5, <2>1, <3>1
<1> QED
  BY <1>1, <1>2, <1>3, <1>4, <1>5, <1>6 DEF StreamTypes

LEMMA CutInvRead == CutInv /\ Read => CutInv'
<1> SUFFICES ASSUME CutInv, Read PROVE CutInv'
  OBVIOUS
<1>1. PICK n \in 1..ChunkSize :
        n <= Len(pipe) /\ pipe' = From(pipe, n + 1) /\ pending' = pending \o SubSeq(pipe, 1, n)
  BY DEF Read
<1>2. StreamTypes /\ n \in 1..Len(pipe) /\ UNCHANGED <<written, frames>> /\ reader' = "cutting"
  BY <1>1, StreamAssumption DEF CutInv, StreamTypes, Read
<1>3. /\ StreamTypes'
      /\ BytesRead' \in Seq(Byte) /\ Len(BytesRead') = Len(BytesRead) + n
      /\ \A i \in 1..Len(BytesRead) : BytesRead'[i] = BytesRead[i]
      /\ Len(pending') = Len(pending) + n
      /\ \A i \in 1..Len(pending) : pending'[i] = pending[i]
      /\ \A i \in 1..n : pending'[Len(pending) + i] = BytesRead'[Len(BytesRead) + i]
  BY <1>1, <1>2, ReadMoves
<1>4. BytesRead \in Seq(Byte) /\ Len(BytesRead) \in Nat /\ Len(pending) \in Nat
  BY <1>2, BytesReadAre DEF StreamTypes
<1>5. PICK at \in Cuts(frames, BytesRead) :
        AreCutAt(frames, BytesRead, at) /\ PendingFollows(at[Len(frames) + 1])
  BY DEF CutInv, Read
<1> DEFINE last == at[Len(frames) + 1]
<1>6. at \in Cuts(frames, BytesRead') /\ AreCutAt(frames, BytesRead', at)
  <2>1. Len(BytesRead) <= Len(BytesRead') /\ frames \in Seq(Seq(Byte))
    BY <1>2, <1>3, <1>4 DEF StreamTypes
  <2> QED
    BY <1>3, <1>4, <1>5, <2>1, CutsStay
<1>7. last \in Nat \ {0}
  <2>1. Len(frames) + 1 \in 1..(Len(frames) + 1)
    BY <1>2 DEF StreamTypes
  <2>2. at \in [1..(Len(frames) + 1) -> 1..(Len(BytesRead) + 1)]
    BY <1>5 DEF Cuts
  <2>3. last \in 1..(Len(BytesRead) + 1)
    BY <2>1, <2>2
  <2> QED
    BY <1>4, <2>3
<1>8. Before \in Nat /\ Before' = Before /\ Before + Len(pending) = Len(BytesRead)
  BY <1>3, <1>4, <1>5 DEF Before, PendingFollows
<1>9. ASSUME NEW i \in DOMAIN pending' PROVE pending'[i] = BytesRead'[Before' + i]
  <2>1. pending' \in Seq(Byte)
    BY <1>3 DEF StreamTypes
  <2>2. i \in 1..(Len(pending) + n)
    BY <1>3, <2>1
  <2>3. CASE i \in 1..Len(pending)
    <3>1. pending[i] = BytesRead[Before + i]
      BY <1>2, <1>5, <2>3 DEF PendingFollows, StreamTypes
    <3>2. Before + i \in 1..Len(BytesRead)
      BY <1>4, <1>8, <2>3
    <3> QED
      BY <1>3, <1>8, <2>3, <3>1, <3>2
  <2>4. CASE i \notin 1..Len(pending)
    <3>1. PICK k \in 1..n : i = Len(pending) + k
      <4>1. i - Len(pending) \in 1..n /\ i = Len(pending) + (i - Len(pending))
        BY <1>2, <1>4, <2>2, <2>4 DEF StreamTypes
      <4> QED
        BY <4>1
    <3>2. Before + i = Len(BytesRead) + k
      BY <1>4, <1>8, <3>1
    <3> QED
      BY <1>3, <1>8, <3>1, <3>2
  <2> QED
    BY <2>3, <2>4
<1>10. ASSUME NEW i \in Places(BytesRead', SOI, last) PROVE i > Before'
  <2>1. i \in Nat \ {0} /\ i >= last
    BY <1>3, <1>7 DEF Places
  <2>2. CASE i + 1 <= Len(BytesRead)
    <3>1. BytesRead'[i] = BytesRead[i] /\ BytesRead'[i + 1] = BytesRead[i + 1]
      BY <1>3, <1>4, <2>1, <2>2
    <3>2. i \in Places(BytesRead, SOI, last)
      BY <1>4, <1>7, <2>1, <2>2, <3>1 DEF Places
    <3> QED
      BY <1>5, <1>8, <3>2 DEF PendingFollows
  <2>3. CASE i >= Len(BytesRead) /\ pending # <<>>
    <3>1. Len(pending) > 0
      BY <1>2, <2>3 DEF StreamTypes
    <3> QED
      BY <1>4, <1>8, <2>1, <2>3, <3>1
  <2>4. CASE pending = <<>>
    BY <1>5, <1>8, <2>1, <2>4 DEF PendingFollows
  <2> QED
    BY <1>4, <2>1, <2>2, <2>3, <2>4
<1>11. PendingFollows(last)'
  <2>1. pending' # <<>> /\ last <= Before' + 1
    BY <1>2, <1>3, <1>4, <1>5, <1>8 DEF PendingFollows
  <2> QED
    BY <1>2, <1>8, <1>9, <1>10, <2>1 DEF PendingFollows
<1> QED
  BY <1>2, <1>3, <1>6, <1>11 DEF CutInv

\* What CutInv says between two reads of the loop, with what the steps need of it.
LEMMA Cutting ==
  ASSUME CutInv, reader = "cutting"
  PROVE  /\ StreamTypes /\ BytesRead \in Seq(Byte)
         /\ Len(BytesRead) = Before + Len(pending) /\ Before \in Nat
         /\ \A i \in DOMAIN pending : pending[i] = BytesRead[Before + i]
         /\ \E at \in Cuts(frames, BytesRead) :
              /\ AreCutAt(frames, BytesRead, at) /\ PendingFollows(at[Len(frames) + 1])
              /\ at[Len(frames) + 1] \in Nat \ {0}
<1>1. StreamTypes /\ BytesRead \in Seq(Byte)
  BY BytesReadAre DEF CutInv
<1>2. PICK at \in Cuts(frames, BytesRead) :
        AreCutAt(frames, BytesRead, at) /\ PendingFollows(at[Len(frames) + 1])
  BY DEF CutInv
<1>3. Before \in Nat /\ Len(BytesRead) = Before + Len(pending)
  <2>1. Len(pending) \in Nat /\ Len(BytesRead) \in Nat
    BY <1>1 DEF StreamTypes
  <2> QED
    BY <1>2, <2>1 DEF PendingFollows, Before
<1>4. at[Len(frames) + 1] \in Nat \ {0}
  <2>1. Len(frames) + 1 \in 1..(Len(frames) + 1)
    BY <1>1 DEF StreamTypes
  <2>2. at[Len(frames) + 1] \in 1..(Len(BytesRead) + 1)
    BY <1>2, <2>1 DEF Cuts
  <2> QED
    BY <1>1, <2>2
<1> QED
  BY <1>1, <1>2, <1>3, <1>4 DEF PendingFollows

\* Taking the first k bytes from what is pending.
LEMMA PendingFrom ==
  ASSUME CutInv, reader = "cutting", NEW k \in 0..Len(pending),
         pending' = From(pending, k + 1), UNCHANGED <<written, pipe>>
  PROVE  /\ pending' \in Seq(Byte) /\ Len(pending') = Len(pending) - k
         /\ BytesRead' = BytesRead /\ Before' = Before + k /\ Before' \in Nat
         /\ \A i \in DOMAIN pending' : pending'[i] = BytesRead[Before' + i]
<1>1. /\ StreamTypes /\ BytesRead \in Seq(Byte)
      /\ Len(BytesRead) = Before + Len(pending) /\ Before \in Nat
      /\ \A i \in DOMAIN pending : pending[i] = BytesRead[Before + i]
  BY Cutting
<1>2. pending \in Seq(Byte) /\ Len(pending) \in Nat /\ k \in Nat /\ k <= Len(pending)
  BY <1>1 DEF StreamTypes
<1>3. /\ pending' \in Seq(Byte) /\ Len(pending') = Len(pending) - k
      /\ \A i \in 1..(Len(pending) - k) : pending'[i] = pending[k + i]
  BY <1>2 DEF From
<1>4. BytesRead' = BytesRead
  BY DEF BytesRead
<1>5. Before' = Before + k /\ Before' \in Nat
  <2>1. Before' = Len(BytesRead) - Len(pending')
    BY <1>4 DEF Before
  <2>2. Before + Len(pending) - (Len(pending) - k) = Before + k
    BY <1>1, <1>2
  <2>3. Before + k \in Nat
    BY <1>1, <1>2
  <2> QED
    BY <1>1, <1>3, <2>1, <2>2, <2>3
<1>6. ASSUME NEW i \in 1..(Len(pending) - k) PROVE pending'[i] = BytesRead[Before' + i]
  <2>1. k + i \in 1..Len(pending) /\ i \in Nat
    BY <1>2
  <2>2. pending[k + i] = BytesRead[Before + (k + i)]
    BY <1>1, <1>2, <2>1
  <2>3. Before + (k + i) = Before' + i
    BY <1>1, <1>2, <1>5, <2>1
  <2> QED
    BY <1>3, <2>2, <2>3
<1>7. DOMAIN pending' = 1..(Len(pending) - k)
  BY <1>3
<1> QED
  BY <1>1, <1>2, <1>3, <1>4, <1>5, <1>6, <1>7

\* Where the next image is in the stream.
LEMMA NextImage ==
  ASSUME CutInv, reader = "cutting", NEW last \in Nat \ {0}, PendingFollows(last),
         NEW soi \in First(pending, SOI, 1), NEW eoi \in First(pending, EOI, soi + 2)
  PROVE  /\ soi \in Nat \ {0} /\ eoi \in Nat /\ soi + 2 <= eoi /\ eoi + 1 <= Len(pending)
         /\ Before + soi \in First(BytesRead, SOI, last)
         /\ Before + eoi \in First(BytesRead, EOI, Before + soi + 2)
         /\ SubSeq(pending, soi, eoi + 1) = SubSeq(BytesRead, Before + soi, Before + eoi + 1)
<1>1. /\ pending \in Seq(Byte) /\ BytesRead \in Seq(Byte)
      /\ Len(BytesRead) = Before + Len(pending) /\ Before \in Nat
      /\ \A i \in DOMAIN pending : pending[i] = BytesRead[Before + i]
  BY Cutting DEF StreamTypes
<1>2. soi \in Nat \ {0} /\ soi + 1 <= Len(pending)
  BY <1>1, FirstType
<1>3. soi + 2 \in Nat \ {0}
  BY <1>2
<1>4. eoi \in Nat /\ soi + 2 <= eoi /\ eoi + 1 <= Len(pending)
  BY <1>1, <1>3, FirstType
<1>5. Before + soi \in First(BytesRead, SOI, Before + 1)
  <2>1. 1 \in Nat \ {0}
    OBVIOUS
  <2> QED
    BY <1>1, <2>1, FirstOfEnd
<1>6. Before + soi \in First(BytesRead, SOI, last)
  <2>1. last <= Before + 1 /\ \A i \in Places(BytesRead, SOI, last) : i > Before
    BY DEF PendingFollows
  <2>2. Places(BytesRead, SOI, last) = Places(BytesRead, SOI, Before + 1)
    BY <1>1, <2>1 DEF Places
  <2> QED
    BY <1>5, <2>2 DEF First
<1>7. Before + eoi \in First(BytesRead, EOI, Before + soi + 2)
  <2>1. Before + eoi \in First(BytesRead, EOI, Before + (soi + 2))
    BY <1>1, <1>3, FirstOfEnd
  <2>2. Before + (soi + 2) = Before + soi + 2
    BY <1>1, <1>2
  <2> QED
    BY <2>1, <2>2
<1>8. SubSeq(pending, soi, eoi + 1) = SubSeq(BytesRead, Before + soi, Before + eoi + 1)
  <2> DEFINE a == SubSeq(pending, soi, eoi + 1)
             b == SubSeq(BytesRead, Before + soi, Before + eoi + 1)
             size == eoi + 2 - soi
  <2>1. size \in Nat /\ soi + size = eoi + 2
    BY <1>2, <1>4
  <2>2. a \in Seq(Byte) /\ Len(a) = size /\ \A i \in 1..size : a[i] = pending[soi + i - 1]
    BY <1>1, <1>2, <1>4
  <2>3. b \in Seq(Byte) /\ Len(b) = size
        /\ \A i \in 1..size : b[i] = BytesRead[Before + soi + i - 1]
    BY <1>1, <1>2, <1>4
  <2>4. ASSUME NEW i \in 1..size PROVE a[i] = b[i]
    <3> DEFINE j == soi + i - 1
    <3>1. j \in 1..Len(pending) /\ Before + j = Before + soi + i - 1
      BY <1>1, <1>2, <1>4, <2>1
    <3>2. pending[j] = BytesRead[Before + j]
      BY <1>1, <3>1
    <3> QED
      BY <2>2, <2>3, <3>1, <3>2
  <2> HIDE DEF a, b, size
  <2>5. a = b
    BY <2>1, <2>2, <2>3, <2>4
  <2> QED
    BY <2>5 DEF a, b
<1> QED
  BY <1>2, <1>4, <1>6, <1>7, <1>8

LEMMA CutInvImage == CutInv /\ CutImage => CutInv'
<1> SUFFICES ASSUME CutInv, CutImage PROVE CutInv'
  OBVIOUS
<1>1. reader = "cutting" /\ UNCHANGED <<process, written, pipe, stop_event>>
  BY DEF CutImage
<1>2. PICK soi \in First(pending, SOI, 1) : \E eoi \in First(pending, EOI, soi + 2) :
        /\ pending' = From(pending, eoi + 2)
        /\ \/ frames' = Append(frames, SubSeq(pending, soi, eoi + 1)) /\ reader' = reader
           \/ stop_event /\ frames' = frames /\ reader' = "done"
  BY DEF CutImage
<1>3. PICK eoi \in First(pending, EOI, soi + 2) :
        /\ pending' = From(pending, eoi + 2)
        /\ \/ frames' = Append(frames, SubSeq(pending, soi, eoi + 1)) /\ reader' = reader
           \/ stop_event /\ frames' = frames /\ reader' = "done"
  BY <1>2
<1>4. StreamTypes /\ BytesRead \in Seq(Byte) /\ Before \in Nat
  BY <1>1, Cutting
<1>5. PICK at \in Cuts(frames, BytesRead) :
        /\ AreCutAt(frames, BytesRead, at) /\ PendingFollows(at[Len(frames) + 1])
        /\ at[Len(frames) + 1] \in Nat \ {0}
  BY <1>1, Cutting
<1>6. /\ soi \in Nat \ {0} /\ eoi \in Nat /\ soi + 2 <= eoi /\ eoi + 1 <= Len(pending)
      /\ Before + soi \in First(BytesRead, SOI, at[Len(frames) + 1])
      /\ Before + eoi \in First(BytesRead, EOI, Before + soi + 2)
      /\ SubSeq(pending, soi, eoi + 1) = SubSeq(BytesRead, Before + soi, Before + eoi + 1)
  BY <1>1, <1>5, NextImage
<1>7. /\ pending' \in Seq(Byte) /\ Len(pending') = Len(pending) - (eoi + 1)
      /\ BytesRead' = BytesRead /\ Before' = Before + (eoi + 1) /\ Before' \in Nat
      /\ \A i \in DOMAIN pending' : pending'[i] = BytesRead[Before' + i]
  <2>1. eoi + 1 \in 0..Len(pending) /\ eoi + 2 = (eoi + 1) + 1
    BY <1>4, <1>6 DEF StreamTypes
  <2> QED
    BY <1>1, <1>3, <2>1, PendingFrom
<1>8. CASE frames' = Append(frames, SubSeq(pending, soi, eoi + 1)) /\ reader' = reader
  <2> DEFINE more == Append(frames, SubSeq(BytesRead, Before + soi, Before + eoi + 1))
             later == [k \in 1..(Len(more) + 1) |->
                         IF k <= Len(more) THEN at[k] ELSE Before + eoi + 2]
  <2>1. /\ more \in Seq(Seq(Byte))
        /\ later \in Cuts(more, BytesRead) /\ AreCutAt(more, BytesRead, later)
        /\ later[Len(more) + 1] = Before + eoi + 2
    BY <1>4, <1>5, <1>6, OneMoreCut DEF StreamTypes
  <2>2. frames' = more
    BY <1>6, <1>8
  <2> HIDE DEF more, later
  <2>3. StreamTypes'
    BY <1>1, <1>4, <1>7, <1>8, <2>1, <2>2 DEF StreamTypes
  <2>4. PICK last \in Nat : last = Before + eoi + 2
    BY <1>4, <1>6
  <2>5. PendingFollows(last)'
    <3>1. last = Before' + 1
      BY <1>4, <1>6, <1>7, <2>4
    <3>2. \A i \in Places(BytesRead, SOI, last) : i > Before'
      BY <1>7, <3>1 DEF Places
    <3>3. last <= Before' + 1
      BY <1>7, <3>1
    <3> QED
      BY <1>7, <3>1, <3>2, <3>3 DEF PendingFollows
  <2>6. /\ later \in Cuts(frames', BytesRead') /\ AreCutAt(frames', BytesRead', later)
        /\ later[Len(frames') + 1] = last
    BY <1>7, <2>1, <2>2, <2>4
  <2> QED
    BY <1>1, <1>8, <2>3, <2>5, <2>6 DEF CutInv
<1>9. CASE stop_event /\ frames' = frames /\ reader' = "done"
  <2>1. StreamTypes'
    BY <1>1, <1>4, <1>7, <1>9 DEF StreamTypes
  <2> QED
    BY <1>1, <1>5, <1>7, <1>9, <2>1 DEF CutInv
<1> QED
  BY <1>3, <1>8, <1>9

\* No image is in the stream when none is in what is pending.
LEMMA NoneIsNone ==
  ASSUME CutInv, reader = "cutting", NEW last \in Nat \ {0}, PendingFollows(last),
         NEW from \in Nat \ {0}, Places(pending, EOI, from + 2) = {},
         \A i \in Places(pending, SOI, 1) : i >= from
  PROVE  /\ NoImage(BytesRead, last)
         /\ \A i \in Places(BytesRead, SOI, last) : i >= Before + from
<1>1. /\ pending \in Seq(Byte) /\ BytesRead \in Seq(Byte)
      /\ Len(BytesRead) = Before + Len(pending) /\ Before \in Nat
      /\ \A i \in DOMAIN pending : pending[i] = BytesRead[Before + i]
  BY Cutting DEF StreamTypes
<1>2. ASSUME NEW soi \in Places(BytesRead, SOI, last)
      PROVE  soi >= Before + from /\ Places(BytesRead, EOI, soi + 2) = {}
  <2>1. PICK i \in Nat \ {0} : soi = Before + i
    <3>1. soi > Before /\ soi \in Nat
      BY <1>1 DEF PendingFollows, Places
    <3>2. soi - Before \in Nat \ {0} /\ soi = Before + (soi - Before)
      BY <1>1, <3>1
    <3> QED
      BY <3>2
  <2>2. i \in Places(pending, SOI, 1)
    <3>1. Before + i \in Places(BytesRead, SOI, Before + 1)
      BY <1>1, <2>1 DEF Places
    <3>2. 1 \in Nat \ {0} /\ i \in Nat
      BY <2>1
    <3> QED
      BY <1>1, <3>1, <3>2, PlacesOfEnd
  <2>3. i >= from
    BY <2>2
  <2>4. ASSUME NEW eoi \in Places(BytesRead, EOI, soi + 2) PROVE FALSE
    <3>1. PICK j \in Nat : eoi = Before + j /\ j >= from + 2
      <4>1. eoi \in Nat /\ eoi >= Before + from + 2
        BY <1>1, <2>1, <2>3 DEF Places
      <4>2. eoi - Before \in Nat /\ eoi = Before + (eoi - Before) /\ eoi - Before >= from + 2
        BY <1>1, <4>1
      <4> QED
        BY <4>2
    <3>2. PICK later \in Nat \ {0} : later = from + 2
      OBVIOUS
    <3>3. Before + j \in Places(BytesRead, EOI, Before + later)
      BY <1>1, <3>1, <3>2 DEF Places
    <3>4. j \in Places(pending, EOI, later)
      BY <1>1, <3>1, <3>3, PlacesOfEnd
    <3> QED
      BY <3>2, <3>4
  <2>5. soi >= Before + from
    BY <1>1, <2>1, <2>3
  <2> QED
    BY <2>4, <2>5
<1> QED
  BY <1>2 DEF NoImage

LEMMA CutInvNothing == CutInv /\ CutNothing => CutInv'
<1> SUFFICES ASSUME CutInv, CutNothing PROVE CutInv'
  OBVIOUS
<1>1. /\ reader = "cutting" /\ reader' = "reading"
      /\ UNCHANGED <<process, written, pipe, stop_event, frames>>
  BY DEF CutNothing
<1>2. /\ StreamTypes /\ BytesRead \in Seq(Byte) /\ Before \in Nat
      /\ Len(BytesRead) = Before + Len(pending)
      /\ pending \in Seq(Byte) /\ Len(pending) \in Nat
  BY <1>1, Cutting DEF StreamTypes
<1>3. PICK at \in Cuts(frames, BytesRead) :
        /\ AreCutAt(frames, BytesRead, at) /\ PendingFollows(at[Len(frames) + 1])
        /\ at[Len(frames) + 1] \in Nat \ {0}
  BY <1>1, Cutting
<1> DEFINE last == at[Len(frames) + 1]
<1>4. PICK k \in 0..Len(pending) :
        /\ pending' = From(pending, k + 1)
        /\ pending' = <<>> => k = 0
        /\ NoImage(BytesRead, last)
        /\ \A i \in Places(BytesRead, SOI, last) : i > Before + k
  <2>1. CASE Places(pending, SOI, 1) = {} /\ pending' = DropPrefix(pending)
    <3>1. ASSUME NEW from \in Nat \ {0}, Places(pending, EOI, from + 2) = {}
          PROVE  /\ NoImage(BytesRead, last)
                 /\ \A i \in Places(BytesRead, SOI, last) : i >= Before + from
      BY <1>1, <1>3, <2>1, <3>1, NoneIsNone
    <3>2. Places(pending, EOI, Len(pending) + 1 + 2) = {}
      BY <1>2 DEF Places
    <3>3. /\ NoImage(BytesRead, last)
          /\ \A i \in Places(BytesRead, SOI, last) : i >= Before + (Len(pending) + 1)
      <4>1. Len(pending) + 1 \in Nat \ {0}
        BY <1>2
      <4> QED
        BY <3>1, <3>2, <4>1
    <3>4. CASE Len(pending) > 2
      <4>1. /\ Len(pending) - 2 \in 0..Len(pending)
            /\ Len(pending) - 1 = (Len(pending) - 2) + 1
        BY <1>2, <3>4
      <4>2. pending' = From(pending, (Len(pending) - 2) + 1)
        BY <2>1, <3>4, <4>1 DEF DropPrefix
      <4>3. pending' # <<>>
        BY <1>2, <3>4, <4>1, <4>2 DEF From
      <4>4. \A i \in Places(BytesRead, SOI, last) : i > Before + (Len(pending) - 2)
        BY <1>2, <3>3 DEF Places
      <4> QED
        BY <3>3, <4>1, <4>2, <4>3, <4>4
    <3>5. CASE ~(Len(pending) > 2)
      <4>1. pending' = From(pending, 0 + 1) /\ 0 \in 0..Len(pending)
        BY <1>2, <2>1, <3>5 DEF DropPrefix, From
      <4>2. \A i \in Places(BytesRead, SOI, last) : i > Before + 0
        BY <1>2, <3>3 DEF Places
      <4> QED
        BY <3>3, <4>1, <4>2
    <3> QED
      BY <3>4, <3>5
  <2>2. ASSUME NEW soi \in First(pending, SOI, 1), Places(pending, EOI, soi + 2) = {},
               pending' = From(pending, soi)
        PROVE  \E k \in 0..Len(pending) :
                 /\ pending' = From(pending, k + 1)
                 /\ pending' = <<>> => k = 0
                 /\ NoImage(BytesRead, last)
                 /\ \A i \in Places(BytesRead, SOI, last) : i > Before + k
    <3>1. soi \in Nat \ {0} /\ soi + 1 <= Len(pending)
      <4>1. 1 \in Nat \ {0}
        OBVIOUS
      <4> QED
        BY <1>2, <4>1, FirstType
    <3>2. \A i \in Places(pending, SOI, 1) : i >= soi
      BY <1>2, <3>1 DEF First, Places
    <3>3. /\ NoImage(BytesRead, last)
          /\ \A i \in Places(BytesRead, SOI, last) : i >= Before + soi
      BY <1>1, <1>3, <2>2, <3>1, <3>2, NoneIsNone
    <3>4. soi - 1 \in 0..Len(pending) /\ (soi - 1) + 1 = soi
      BY <1>2, <3>1
    <3>5. pending' # <<>>
      <4>1. Len(SubSeq(pending, soi, Len(pending))) = Len(pending) - soi + 1
        BY <1>2, <3>1
      <4>2. Len(pending') # 0
        BY <1>2, <2>2, <3>1, <4>1 DEF From
      <4> QED
        BY <4>2
    <3>6. \A i \in Places(BytesRead, SOI, last) : i > Before + (soi - 1)
      BY <1>2, <3>1, <3>3 DEF Places
    <3> QED
      BY <2>2, <3>3, <3>4, <3>5, <3>6
  <2> QED
    BY <2>1, <2>2 DEF CutNothing
<1>5. /\ pending' \in Seq(Byte) /\ Len(pending') = Len(pending) - k
      /\ BytesRead' = BytesRead /\ Before' = Before + k /\ Before' \in Nat
      /\ \A i \in DOMAIN pending' : pending'[i] = BytesRead[Before' + i]
  BY <1>1, <1>4, PendingFrom
<1>6. StreamTypes'
  BY <1>1, <1>2, <1>5 DEF StreamTypes
<1>7. PendingFollows(last)'
  <2>1. last <= Before + 1 /\ last <= Before' + 1
    BY <1>2, <1>3, <1>4, <1>5 DEF PendingFollows
  <2>2. pending' = <<>> => last = Before' + 1
    <3> SUFFICES ASSUME pending' = <<>> PROVE last = Before' + 1
      OBVIOUS
    <3>1. k = 0 /\ Len(pending) = 0
      BY <1>2, <1>4, <1>5
    <3>2. pending = <<>>
      BY <1>2, <3>1
    <3> QED
      BY <1>2, <1>3, <1>5, <3>1, <3>2 DEF PendingFollows
  <2> QED
    BY <1>1, <1>4, <1>5, <2>1, <2>2 DEF PendingFollows
<1> QED
  BY <1>1, <1>3, <1>4, <1>5, <1>6, <1>7 DEF CutInv

LEMMA CutInvEnds == CutInv /\ ReaderEnds => CutInv'
<1> SUFFICES ASSUME CutInv, ReaderEnds PROVE CutInv'
  OBVIOUS
<1>1. UNCHANGED <<BytesRead, Before>>
  BY DEF ReaderEnds, BytesRead, Before
<1>2. StreamTypes'
  BY DEF CutInv, StreamTypes, ReaderEnds
<1> QED
  BY <1>1, <1>2 DEF CutInv, ReaderEnds

LEMMA CutInvNext == CutInv /\ [StreamNext]_stream => CutInv'
<1> SUFFICES ASSUME CutInv, [StreamNext]_stream PROVE CutInv'
  OBVIOUS
<1>1. CASE Write \/ Exit \/ Stop
  BY <1>1, CutInvProcess
<1>2. CASE Read
  BY <1>2, CutInvRead
<1>3. CASE CutImage
  BY <1>3, CutInvImage
<1>4. CASE CutNothing
  BY <1>4, CutInvNothing
<1>5. CASE ReaderEnds
  BY <1>5, CutInvEnds
<1>6. CASE UNCHANGED stream
  BY <1>6 DEF stream, CutInv, StreamTypes, BytesRead, PendingFollows, Before
<1> QED
  BY <1>1, <1>2, <1>3, <1>4, <1>5, <1>6 DEF StreamNext

\* What the camera publishes are the images v4l2-ctl wrote, in their order, for every
\* stream, size of the reads and depth of the pipe: none is lost at the end of a read,
\* none is cut short, and what was kept of one does not become part of another.
THEOREM ImagesAreWhole == StreamSpec => []ImagesAreThoseOfTheStream
<1>1. CutInv => ImagesAreThoseOfTheStream
  <2> SUFFICES ASSUME CutInv PROVE ImagesAreThoseOfTheStream
    OBVIOUS
  <2>1. reader = "done" /\ ~stop_event => BytesRead = written
    <3>1. pipe = <<>> => BytesRead = written
      BY DEF CutInv, StreamTypes, BytesRead
    <3> QED
      BY <3>1 DEF CutInv
  <2> QED
    BY <2>1 DEF CutInv, ImagesAreThoseOfTheStream, AreFirstImages, AreTheImages
<1> QED
  BY <1>1, CutInvInit, CutInvNext, PTL DEF StreamSpec

------------------------------------------------------------------------------
(* The throttle and the path of a frame.                                   *)

\* What the proof needs of the types.
RateTypes ==
  /\ now \in Nat
  /\ next_process_time \in Nat
  /\ starts \in Seq(Nat)

\* The next slot is as far ahead of each start as the starts since then are worth,
\* less two intervals; and so is each start of those before it.
SlotAhead ==
  \A i \in DOMAIN starts :
    next_process_time - starts[i] > (Len(starts) - i - 1) * Interval

RateInv == RateTypes /\ (Interval > 0 => SlotAhead /\ RateIsKept)

\* One more start is worth one more interval.
LEMMA OneMore ==
  ASSUME NEW k \in Int
  PROVE  (k + 1) * Interval = k * Interval + Interval
BY YoloAssumption, Z3

\* A slot is set no earlier than an interval after the last, and less than an
\* interval before now.
LEMMA NextSlotBounds ==
  ASSUME RateTypes, Interval > 0, SlotReached
  PROVE  /\ NextSlot \in Nat
         /\ NextSlot >= next_process_time + Interval
         /\ NextSlot > now - Interval
BY YoloAssumption DEF RateTypes, NextSlot, FarBehind, SlotReached

LEMMA RateInvInit == RateInit => RateInv
BY YoloAssumption DEF RateInit, YoloInit, RateInv, RateTypes, SlotAhead, RateIsKept

\* What leaves the schedule and the starts alone keeps the invariant.
LEMMA ScheduleKept ==
  ASSUME RateInv, now' \in Nat, UNCHANGED <<next_process_time, starts>>
  PROVE  RateInv'
BY DEF RateInv, RateTypes, SlotAhead, RateIsKept

LEMMA RateInvStart ==
  ASSUME RateInv, RateStart
  PROVE  RateInv'
<1> DEFINE n == Len(starts)
<1>1. RateTypes /\ n \in Nat
  BY DEF RateInv, RateTypes
<1>2. SlotReached /\ now' = now /\ starts' = Append(starts, now)
  BY DEF RateStart, StartInference
<1>3. /\ starts' \in Seq(Nat) /\ Len(starts') = n + 1
      /\ DOMAIN starts = 1..n /\ DOMAIN starts' = 1..(n + 1)
      /\ \A i \in 1..n : starts'[i] = starts[i] /\ starts[i] \in Nat
      /\ starts'[n + 1] = now
  BY <1>1, <1>2 DEF RateTypes
<1>4. CASE Interval = 0
  BY <1>1, <1>2, <1>3, <1>4 DEF RateInv, RateTypes, RateStart, StartInference
<1>5. CASE Interval > 0
  <2>1. next_process_time' = NextSlot
    BY <1>5, YoloAssumption DEF RateStart, StartInference
  <2>2. /\ NextSlot \in Nat
        /\ NextSlot >= next_process_time + Interval
        /\ NextSlot > now - Interval
    BY <1>1, <1>2, <1>5, NextSlotBounds
  <2>3. now >= next_process_time
    BY <1>2, <1>5 DEF SlotReached
  <2>4. SlotAhead /\ RateIsKept
    BY <1>5 DEF RateInv
  <2>5. RateTypes'
    BY <1>1, <1>2, <1>3, <2>1, <2>2 DEF RateTypes
  <2>6. SlotAhead'
    <3> SUFFICES ASSUME NEW i \in 1..(n + 1)
                 PROVE  NextSlot - starts'[i] > (n - i) * Interval
      BY <1>3, <2>1 DEF SlotAhead
    <3>1. CASE i = n + 1
      <4>1. (n - i) * Interval = -Interval
        BY <3>1, <1>1, OneMore, YoloAssumption
      <4> QED BY <4>1, <3>1, <1>1, <1>3, <2>2, YoloAssumption DEF RateTypes
    <3>2. CASE i \in 1..n
      <4>1. next_process_time - starts[i] > (n - i - 1) * Interval
        BY <3>2, <1>3, <2>4 DEF SlotAhead
      <4>2. (n - i) * Interval = (n - i - 1) * Interval + Interval
        <5>1. n - i - 1 \in Int /\ (n - i - 1) + 1 = n - i
          BY <1>1
        <5> QED BY <5>1, OneMore
      <4>3. (n - i - 1) * Interval \in Int
        BY <1>1, YoloAssumption
      <4> HIDE DEF n
      <4> QED BY <4>1, <4>2, <4>3, <3>2, <1>1, <1>3, <2>2, YoloAssumption
              DEF RateTypes
    <3> QED BY <3>1, <3>2, <1>1
  <2>7. RateIsKept'
    <3> SUFFICES ASSUME NEW i \in 1..(n + 1), NEW j \in 1..(n + 1), i <= j
                 PROVE  starts'[j] - starts'[i] > (j - i - 2) * Interval
      BY <1>3 DEF RateIsKept
    <3>1. CASE j \in 1..n
      <4>1. i \in 1..n
        BY <3>1, <1>1
      <4> QED BY <4>1, <3>1, <1>3, <1>5, <2>4 DEF RateIsKept
    <3>2. CASE j = n + 1 /\ i \in 1..n
      <4>1. next_process_time - starts[i] > (n - i - 1) * Interval
        BY <3>2, <1>3, <2>4 DEF SlotAhead
      <4>2. j - i - 2 = n - i - 1
        BY <3>2, <1>1
      <4>3. (n - i - 1) * Interval \in Int
        BY <1>1, YoloAssumption
      <4> HIDE DEF n
      <4> QED BY <4>1, <4>2, <4>3, <3>2, <1>1, <1>3, <2>3 DEF RateTypes
    <3>3. CASE j = n + 1 /\ i = n + 1
      <4>1. j - i - 2 = -2 /\ starts'[j] - starts'[i] = 0
        BY <3>3, <1>1, <1>3 DEF RateTypes
      <4>2. (-2) * Interval < 0
        BY <1>5, YoloAssumption
      <4> QED BY <4>1, <4>2
    <3> QED BY <3>1, <3>2, <3>3, <1>1
  <2> QED BY <2>5, <2>6, <2>7 DEF RateInv
<1> QED BY <1>4, <1>5, YoloAssumption

LEMMA RateInvNext ==
  ASSUME RateInv, [RateNext]_<<yolo, starts>>
  PROVE  RateInv'
<1>1. CASE RateStart
  BY <1>1, RateInvStart
<1>2. CASE RateOther
  <2>1. now' \in Nat
    BY <1>2 DEF RateOther, OtherYoloSteps, ImageArrives, DecodeFails,
                PassOver, SkipImage, InferenceEnds, Tick, RateInv, RateTypes
  <2>2. UNCHANGED <<next_process_time, starts>>
    BY <1>2 DEF RateOther, OtherYoloSteps, ImageArrives, DecodeFails,
                PassOver, SkipImage, InferenceEnds, Tick
  <2> QED BY <2>1, <2>2, ScheduleKept
<1>3. CASE UNCHANGED <<yolo, starts>>
  <2>1. now' \in Nat /\ UNCHANGED <<next_process_time, starts>>
    BY <1>3 DEF yolo, RateInv, RateTypes
  <2> QED BY <2>1, ScheduleKept
<1> QED BY <1>1, <1>2, <1>3 DEF RateNext

\* yolo_node keeps max_fps up to two inferences, for every interval and every
\* timing: _process never works off a backlog of slots.
THEOREM YoloKeepsRate == RateSpec => []RateIsKept
<1>1. RateInv => RateIsKept
  BY YoloAssumption DEF RateInv, RateIsKept
<1> QED BY <1>1, RateInvInit, RateInvNext, PTL DEF RateSpec

------------------------------------------------------------------------------
(* Detections are recent.                                                  *)

\* One more image in front is worth one more encoding.
LEMMA OneMoreEncoding ==
  ASSUME NEW k \in Int
  PROVE  /\ k * EncodeTime \in Int
         /\ (k + 1) * EncodeTime = k * EncodeTime + EncodeTime
BY FramePathAssumption, Z3

PathTypes ==
  /\ now \in Nat /\ relay_depth \in Nat
  /\ relay \in Seq(Nat) /\ Len(relay) <= relay_depth
  /\ encoding \subseteq Nat /\ encoding_for \in 0..EncodeTime
  /\ encoding # {} => relay_depth > 0
  /\ image \subseteq Nat
  /\ inferring \subseteq [stamp : Nat, since : Nat]
  /\ detections \subseteq [stamp : Nat, time : Nat]

\* What is left of the encodings before that of the first image in the queue.
Busy == IF encoding = {} THEN EncodeTime ELSE encoding_for

\* The nearer an image is to the encoder, the longer it may have waited.
RelayRecent ==
  /\ \A k \in 1..Len(relay) : now - relay[k] <= (relay_depth - k) * EncodeTime + Busy
  /\ \A s \in encoding : now - s <= relay_depth * EncodeTime + encoding_for

\* An image that waits for the detector came since the inference before it began.
ImageRecent ==
  \A s \in image :
    /\ inferring = {} => now - s <= LongestRelay + InferenceTime
    /\ \A i \in inferring : now - s <= LongestRelay + (now - i.since)

InferringRecent ==
  \A i \in inferring :
    /\ i.since <= now /\ now - i.since <= InferenceTime
    /\ i.since - i.stamp <= LongestRelay + InferenceTime

RecentInv ==
  PathTypes /\ RelayRecent /\ ImageRecent /\ InferringRecent /\ DetectionsAreRecent

relay_side == <<relay_depth, relay, encoding, encoding_for>>
detector_side == <<image, inferring, detections>>

LEMMA LongestRelayType ==
  ASSUME PathTypes
  PROVE  LongestRelay \in Nat
BY FramePathAssumption, OneMoreEncoding, Z3 DEF PathTypes, LongestRelay

LEMMA RecentInvInit == PathInit => RecentInv
<1> SUFFICES ASSUME PathInit PROVE RecentInv
  OBVIOUS
<1>1. relay_depth \in Nat /\ EncodeTime \in Nat /\ now \in Nat
  BY FramePathAssumption, YoloAssumption DEF PathInit, YoloInit
<1>2. /\ relay = <<>> /\ encoding = {} /\ encoding_for = 0
      /\ image = {} /\ inferring = {} /\ detections = {}
  BY DEF PathInit, YoloInit
<1> QED BY <1>1, <1>2
        DEF RecentInv, PathTypes, RelayRecent, ImageRecent, InferringRecent,
            DetectionsAreRecent

\* An image no older than the encoder can make it arrives at the detector.
LEMMA ArrivalKeepsRecent ==
  ASSUME RecentInv, NEW stamp \in Nat, now - stamp <= LongestRelay, ImageArrives(stamp)
  PROVE  /\ image' \subseteq Nat
         /\ UNCHANGED <<now, inferring, detections>>
         /\ LongestRelay' = LongestRelay => ImageRecent'
<1>1. /\ image' = {stamp} /\ UNCHANGED <<now, inferring, detections>>
  BY DEF ImageArrives
<1>2. \A i \in inferring : i.since \in Nat /\ i.since <= now
  BY DEF RecentInv, PathTypes, InferringRecent
<1>3. LongestRelay \in Nat /\ now \in Nat
  BY LongestRelayType DEF RecentInv, PathTypes
<1> QED BY <1>1, <1>2, <1>3, FramePathAssumption DEF ImageRecent

\* What the detector has is as it was, and no time has passed.
LEMMA DetectorKeepsRecent ==
  ASSUME RecentInv, UNCHANGED <<now, relay_depth, detector_side>>
  PROVE  /\ ImageRecent' /\ InferringRecent' /\ DetectionsAreRecent'
         /\ LongestRelay' = LongestRelay
BY DEF RecentInv, detector_side, ImageRecent, InferringRecent, DetectionsAreRecent,
       LongestRelay

\* An image taken now joins the queue, and the oldest makes room.
LEMMA KeepRecent ==
  ASSUME RecentInv, relay_depth > 0, relay' = Keep(relay, now, relay_depth),
         UNCHANGED <<now, relay_depth, encoding, encoding_for>>
  PROVE  /\ relay' \in Seq(Nat) /\ Len(relay') <= relay_depth
         /\ RelayRecent'
<1> DEFINE n == Len(relay)
           all == Append(relay, now)
<1>1. /\ relay \in Seq(Nat) /\ now \in Nat /\ relay_depth \in Nat /\ n \in Nat
      /\ n <= relay_depth /\ EncodeTime \in Nat /\ encoding_for \in 0..EncodeTime
  BY FramePathAssumption DEF RecentInv, PathTypes
<1>2. Busy' = Busy /\ Busy \in 0..EncodeTime
  BY <1>1 DEF Busy
<1>3. /\ all \in Seq(Nat) /\ Len(all) = n + 1
      /\ \A k \in 1..n : all[k] = relay[k] /\ all[k] \in Nat
      /\ all[n + 1] = now
  BY <1>1
<1>4. \A s \in encoding' : now' - s <= relay_depth' * EncodeTime + encoding_for'
  BY DEF RecentInv, RelayRecent
<1>5. \A k \in 1..n : now - relay[k] <= (relay_depth - k) * EncodeTime + Busy
  BY DEF RecentInv, RelayRecent
<1>6. ASSUME NEW k \in Int, k <= relay_depth
      PROVE  /\ (relay_depth - k) * EncodeTime \in Nat
             /\ (relay_depth - k) * EncodeTime
                  = (relay_depth - (k + 1)) * EncodeTime + EncodeTime
             /\ (relay_depth - (k + 1)) * EncodeTime \in Int
  <2>1. relay_depth - (k + 1) \in Int /\ (relay_depth - (k + 1)) + 1 = relay_depth - k
        /\ relay_depth - k \in Nat
    BY <1>1, <1>6
  <2>2. \A m \in Nat : m * EncodeTime \in Nat
    BY <1>1, Z3
  <2> QED BY <2>1, <2>2, OneMoreEncoding
<1>7. CASE n + 1 <= relay_depth
  <2>1. relay' = all
    BY <1>1, <1>3, <1>7 DEF Keep
  <2>2. (relay_depth - (n + 1)) * EncodeTime \in Nat
    BY <1>1, <1>6, <1>7
  <2>3. \A k \in 1..(n + 1) : now - all[k] <= (relay_depth - k) * EncodeTime + Busy
    <3> SUFFICES ASSUME NEW k \in 1..(n + 1)
                 PROVE  now - all[k] <= (relay_depth - k) * EncodeTime + Busy
      OBVIOUS
    <3>1. CASE k = n + 1
      BY <1>1, <1>2, <1>3, <2>2, <3>1
    <3>2. CASE k \in 1..n
      BY <1>3, <1>5, <3>2
    <3> QED BY <1>1, <3>1, <3>2
  <2> QED BY <1>2, <1>3, <1>4, <1>7, <2>1, <2>3 DEF RelayRecent
<1>8. CASE n + 1 > relay_depth
  <2>1. relay' = Tail(all) /\ n = relay_depth
    BY <1>1, <1>3, <1>8 DEF Keep
  <2>2. /\ relay' \in Seq(Nat) /\ Len(relay') = n
        /\ \A k \in 1..n : relay'[k] = all[k + 1]
    BY <1>1, <1>3, <2>1
  <2>3. \A k \in 1..n : now - relay'[k] <= (relay_depth - k) * EncodeTime + Busy
    <3> SUFFICES ASSUME NEW k \in 1..n
                 PROVE  now - all[k + 1] <= (relay_depth - k) * EncodeTime + Busy
      BY <2>2
    <3>1. CASE k = n
      <4>1. (relay_depth - k) * EncodeTime \in Nat
        BY <1>1, <1>6, <2>1, <3>1
      <4>2. all[k + 1] = now
        BY <1>3, <3>1
      <4> HIDE DEF all, n
      <4> QED BY <1>1, <1>2, <4>1, <4>2
    <3>2. CASE k + 1 \in 1..n
      <4>1. now - all[k + 1] <= (relay_depth - (k + 1)) * EncodeTime + Busy
        BY <1>3, <1>5, <3>2
      <4>2. /\ (relay_depth - k) * EncodeTime
                 = (relay_depth - (k + 1)) * EncodeTime + EncodeTime
            /\ (relay_depth - (k + 1)) * EncodeTime \in Int
        BY <1>1, <1>6
      <4>3. all[k + 1] \in Nat
        BY <1>3, <3>2
      <4> HIDE DEF all, n
      <4> QED BY <1>1, <1>2, <4>1, <4>2, <4>3
    <3> QED BY <1>1, <3>1, <3>2
  <2> QED BY <1>1, <1>2, <1>4, <2>1, <2>2, <2>3 DEF RelayRecent
<1> QED BY <1>1, <1>7, <1>8

LEMMA EncodeFrameRecent ==
  ASSUME RecentInv, EncodeFrame
  PROVE  RecentInv'
<1> DEFINE n == Len(relay)
<1>1. /\ relay \in Seq(Nat) /\ relay # <<>> /\ encoding = {} /\ n \in Nat /\ n > 0
      /\ n <= relay_depth /\ relay_depth \in Nat /\ now \in Nat /\ EncodeTime \in Nat
  BY FramePathAssumption DEF EncodeFrame, RecentInv, PathTypes
<1>2. /\ encoding' = {relay[1]} /\ encoding_for' = 0
      /\ relay' \in Seq(Nat) /\ Len(relay') = n - 1
      /\ \A k \in 1..(n - 1) : relay'[k] = relay[k + 1]
      /\ \A k \in 1..n : relay[k] \in Nat
      /\ UNCHANGED <<now, relay_depth, detector_side>>
  BY <1>1 DEF EncodeFrame, yolo, detector_side
<1>3. \A k \in 1..n :
        /\ now - relay[k] <= (relay_depth - k) * EncodeTime + EncodeTime
        /\ (relay_depth - k) * EncodeTime \in Int
        /\ (relay_depth - k + 1) * EncodeTime = (relay_depth - k) * EncodeTime + EncodeTime
  BY <1>1, OneMoreEncoding DEF RecentInv, RelayRecent, Busy
<1>4. now - relay[1] <= relay_depth * EncodeTime
  <2>1. relay_depth - 1 + 1 = relay_depth
    BY <1>1
  <2> QED BY <1>1, <1>3, <2>1
<1>5. RelayRecent'
  <2>1. Busy' = 0
    BY <1>2 DEF Busy
  <2>2. \A k \in 1..(n - 1) : now - relay[k + 1] <= (relay_depth - k) * EncodeTime
    <3> SUFFICES ASSUME NEW k \in 1..(n - 1)
                 PROVE  now - relay[k + 1] <= (relay_depth - k) * EncodeTime
      OBVIOUS
    <3>1. k + 1 \in 1..n /\ relay_depth - (k + 1) + 1 = relay_depth - k
      BY <1>1
    <3> QED BY <1>3, <3>1
  <2>3. \A k \in 1..(n - 1) : (relay_depth - k) * EncodeTime \in Int
    BY <1>1, <1>3
  <2>4. relay_depth * EncodeTime \in Int
    BY <1>1, OneMoreEncoding
  <2>5. \A k \in 1..Len(relay') :
          now' - relay'[k] <= (relay_depth' - k) * EncodeTime + Busy'
    BY <1>2, <2>1, <2>2, <2>3
  <2>6. \A s \in encoding' : now' - s <= relay_depth' * EncodeTime + encoding_for'
    BY <1>2, <1>4, <2>4
  <2> QED BY <2>5, <2>6 DEF RelayRecent
<1>6. PathTypes'
  BY <1>1, <1>2 DEF RecentInv, PathTypes, detector_side
<1> QED BY <1>2, <1>5, <1>6, DetectorKeepsRecent DEF RecentInv

LEMMA FrameEncodedRecent ==
  ASSUME RecentInv, FrameEncoded
  PROVE  RecentInv'
<1>1. PathTypes
  BY DEF RecentInv
<1>2. /\ encoding # {} /\ encoding' = {} /\ encoding_for' = 0
      /\ UNCHANGED <<now, relay_depth, relay, inferring, detections>>
  BY DEF FrameEncoded, ImageArrives, yolo
<1>3. relay_depth > 0 /\ relay_depth \in Nat /\ EncodeTime \in Nat
  BY <1>1, <1>2, FramePathAssumption DEF PathTypes
<1>4. RelayRecent'
  <2>1. Busy' = EncodeTime /\ Busy \in 0..EncodeTime
    BY <1>1, <1>2, <1>3 DEF Busy, PathTypes
  <2>2. \A k \in 1..Len(relay) : (relay_depth - k) * EncodeTime \in Int /\ relay[k] \in Nat
    BY <1>1, <1>3, OneMoreEncoding DEF PathTypes
  <2> QED BY <1>1, <1>2, <1>3, <2>1, <2>2 DEF RecentInv, RelayRecent, PathTypes
<1>5. LongestRelay' = LongestRelay /\ LongestRelay \in Nat
  BY <1>1, <1>2, LongestRelayType DEF LongestRelay
<1>6. CASE UNCHANGED yolo
  <2>1. UNCHANGED detector_side
    BY <1>6 DEF yolo, detector_side
  <2> QED BY <1>1, <1>2, <1>3, <1>4, <2>1, DetectorKeepsRecent
          DEF RecentInv, PathTypes, detector_side
<1>7. CASE \E s \in encoding : ImageArrives(IF Restamps THEN now ELSE s)
  <2>1. PICK s \in encoding : ImageArrives(IF Restamps THEN now ELSE s)
    BY <1>7
  <2> DEFINE stamp == IF Restamps THEN now ELSE s
  <2>2. LongestRelay = relay_depth * EncodeTime + EncodeTime
        /\ relay_depth * EncodeTime \in Int
    BY <1>3, OneMoreEncoding DEF LongestRelay
  <2>3. now - s <= LongestRelay /\ s \in Nat /\ now \in Nat
    BY <1>1, <1>3, <2>2 DEF PathTypes, RecentInv, RelayRecent
  <2>4. stamp \in Nat /\ now - stamp <= LongestRelay
    BY <1>5, <2>3
  <2> HIDE DEF stamp
  <2>5. image' \subseteq Nat /\ ImageRecent'
    BY <1>5, <2>1, <2>4, ArrivalKeepsRecent DEF stamp
  <2>6. InferringRecent' /\ DetectionsAreRecent'
    BY <1>2, <1>5 DEF RecentInv, InferringRecent, DetectionsAreRecent
  <2> QED BY <1>1, <1>2, <1>3, <1>4, <2>5, <2>6 DEF RecentInv, PathTypes
<1> QED BY <1>6, <1>7 DEF FrameEncoded

LEMMA CameraFrameRecent ==
  ASSUME RecentInv, CameraFrame
  PROVE  RecentInv'
<1>1. PathTypes /\ UNCHANGED <<now, relay_depth, encoding, encoding_for>>
  BY DEF RecentInv, CameraFrame, ImageArrives, yolo
<1>2. LongestRelay' = LongestRelay /\ LongestRelay \in Nat
  BY <1>1, LongestRelayType DEF LongestRelay
<1>3. ASSUME UNCHANGED relay PROVE RelayRecent'
  BY <1>1, <1>3 DEF RecentInv, RelayRecent, Busy
<1>4. CASE UNCHANGED <<yolo, relay>>
  <2>1. UNCHANGED detector_side
    BY <1>4 DEF yolo, detector_side
  <2> QED BY <1>1, <1>3, <1>4, <2>1, DetectorKeepsRecent
          DEF RecentInv, PathTypes, detector_side
<1>5. CASE ImageArrives(now) /\ UNCHANGED relay
  <2>1. now \in Nat /\ now - now <= LongestRelay
    BY <1>1, <1>2 DEF PathTypes
  <2>2. image' \subseteq Nat /\ UNCHANGED <<inferring, detections>> /\ ImageRecent'
    BY <1>2, <1>5, <2>1, ArrivalKeepsRecent
  <2>3. InferringRecent' /\ DetectionsAreRecent'
    BY <1>1, <1>2, <2>2 DEF RecentInv, InferringRecent, DetectionsAreRecent
  <2> QED BY <1>1, <1>3, <1>5, <2>2, <2>3 DEF RecentInv, PathTypes
<1>6. CASE relay_depth > 0 /\ relay' = Keep(relay, now, relay_depth) /\ UNCHANGED yolo
  <2>1. UNCHANGED detector_side
    BY <1>6 DEF yolo, detector_side
  <2> QED BY <1>1, <1>6, <2>1, KeepRecent, DetectorKeepsRecent
          DEF RecentInv, PathTypes, detector_side
<1> QED BY <1>4, <1>5, <1>6 DEF CameraFrame, CameraStamp

LEMMA DetectorRecent ==
  ASSUME RecentInv, Detector
  PROVE  RecentInv'
<1>1. PathTypes /\ UNCHANGED <<now, relay_depth, relay, encoding, encoding_for>>
  BY DEF RecentInv, Detector, Callbacks, DecodeFails, PassOver, SkipImage,
         StartInference, InferenceEnds, relaying
<1>2. RelayRecent'
  BY <1>1 DEF RecentInv, RelayRecent, Busy
<1>3. /\ LongestRelay' = LongestRelay /\ LongestRelay \in Nat
      /\ now \in Nat /\ InferenceTime \in Nat
  BY <1>1, LongestRelayType, FramePathAssumption DEF LongestRelay, PathTypes
<1>4. CASE DecodeFails \/ PassOver \/ SkipImage
  <2>1. image' = {} /\ UNCHANGED <<inferring, detections>>
    BY <1>4 DEF DecodeFails, PassOver, SkipImage, TakeImage
  <2> QED BY <1>1, <1>2, <1>3, <2>1
          DEF RecentInv, PathTypes, ImageRecent, InferringRecent, DetectionsAreRecent
<1>5. CASE StartInference
  <2>1. /\ image' = {} /\ inferring = {} /\ UNCHANGED detections
        /\ inferring' = {[stamp |-> s, since |-> now] : s \in image}
    BY <1>5 DEF StartInference, TakeImage
  <2>2. \A s \in image : s \in Nat /\ now - s <= LongestRelay + InferenceTime
    BY <1>1, <2>1 DEF RecentInv, ImageRecent, PathTypes
  <2>3. inferring' \subseteq [stamp : Nat, since : Nat] /\ InferringRecent'
    BY <1>1, <1>3, <2>1, <2>2 DEF InferringRecent
  <2> QED BY <1>1, <1>2, <1>3, <2>1, <2>3
          DEF RecentInv, PathTypes, ImageRecent, DetectionsAreRecent
<1>6. CASE InferenceEnds
  <2>1. inferring # {} /\ inferring' = {} /\ UNCHANGED image
    BY <1>6 DEF InferenceEnds
  <2>2. \A i \in inferring :
          /\ i.since \in Nat /\ i.stamp \in Nat /\ now - i.since <= InferenceTime
          /\ i.since - i.stamp <= LongestRelay + InferenceTime
    BY <1>1 DEF RecentInv, PathTypes, InferringRecent
  <2>3. \A s \in image : s \in Nat /\ \A i \in inferring :
                            now - s <= LongestRelay + (now - i.since)
    BY <1>1 DEF RecentInv, PathTypes, ImageRecent
  <2>4. ImageRecent' /\ InferringRecent'
    BY <1>1, <1>3, <2>1, <2>2, <2>3 DEF ImageRecent, InferringRecent
  <2>5. detections' \subseteq [stamp : Nat, time : Nat] /\ DetectionsAreRecent'
    <3>1. CASE UNCHANGED detections
      BY <1>1, <1>3, <3>1 DEF RecentInv, PathTypes, DetectionsAreRecent
    <3>2. CASE detections' = {[stamp |-> i.stamp, time |-> now] : i \in inferring}
      BY <1>3, <2>2, <3>2 DEF DetectionsAreRecent
    <3> QED BY <1>6, <3>1, <3>2 DEF InferenceEnds
  <2> QED BY <1>1, <1>2, <2>1, <2>4, <2>5 DEF RecentInv, PathTypes
<1> QED BY <1>4, <1>5, <1>6 DEF Detector, Callbacks

\* An image waits while time passes only behind an inference.
LEMMA TimePassesAtDetector ==
  ASSUME RecentInv, TimePasses
  PROVE  ImageRecent' /\ InferringRecent' /\ DetectionsAreRecent'
<1>1. /\ now' = now + 1 /\ detections' = {}
      /\ UNCHANGED <<image, inferring, relay_depth>>
  BY DEF TimePasses, Tick
<1>2. /\ LongestRelay' = LongestRelay /\ LongestRelay \in Nat
      /\ now \in Nat /\ InferenceTime \in Nat
  BY <1>1, LongestRelayType, FramePathAssumption
  DEF LongestRelay, RecentInv, PathTypes
<1>3. \A i \in inferring : /\ i.since \in Nat /\ i.stamp \in Nat
                           /\ now - i.since < InferenceTime
  BY DEF RecentInv, PathTypes, TimePasses
<1>4. image = {} \/ inferring # {}
  BY DEF TimePasses, CanRun
<1>5. \A s \in image : s \in Nat
  BY DEF RecentInv, PathTypes
<1>6. ImageRecent'
  BY <1>1, <1>2, <1>3, <1>4, <1>5 DEF RecentInv, ImageRecent
<1>7. InferringRecent'
  BY <1>1, <1>2, <1>3 DEF RecentInv, InferringRecent
<1> QED BY <1>1, <1>6, <1>7 DEF DetectionsAreRecent

LEMMA TimePassesRecent ==
  ASSUME RecentInv, TimePasses
  PROVE  RecentInv'
<1>1. PathTypes /\ now' = now + 1 /\ detections' = {}
      /\ UNCHANGED <<image, inferring, relay_depth, relay, encoding>>
  BY DEF RecentInv, TimePasses, Tick
<1>2. /\ LongestRelay' = LongestRelay /\ LongestRelay \in Nat
      /\ now \in Nat /\ InferenceTime \in Nat /\ EncodeTime \in Nat /\ relay_depth \in Nat
  BY <1>1, LongestRelayType, FramePathAssumption DEF LongestRelay, PathTypes
<1>3. PathTypes'
  BY <1>1, <1>2 DEF TimePasses, PathTypes
<1>4. CASE encoding = {}
  <2>1. relay = <<>>
    BY <1>4 DEF TimePasses, CanRun
  <2> QED BY <1>1, <1>2, <1>3, <1>4, <2>1, TimePassesAtDetector
          DEF RecentInv, RelayRecent
<1>5. CASE encoding # {}
  <2>1. Busy' = Busy + 1 /\ Busy = encoding_for /\ encoding_for' = encoding_for + 1
    BY <1>1, <1>5 DEF Busy, TimePasses
  <2>2. /\ \A k \in 1..Len(relay) :
             (relay_depth - k) * EncodeTime \in Int /\ relay[k] \in Nat
        /\ relay_depth * EncodeTime \in Int
        /\ encoding_for \in Nat
        /\ \A s \in encoding : s \in Nat
    BY <1>1, <1>2, OneMoreEncoding DEF PathTypes
  <2>3. RelayRecent'
    BY <1>1, <1>2, <2>1, <2>2 DEF RecentInv, RelayRecent
  <2> QED BY <1>3, <2>3, TimePassesAtDetector DEF RecentInv
<1> QED BY <1>4, <1>5

LEMMA RecentInvNext ==
  ASSUME RecentInv, [PathNext]_<<yolo, path>>
  PROVE  RecentInv'
<1>1. CASE UNCHANGED <<yolo, path>>
  <2>1. UNCHANGED <<now, relay_side, detector_side>>
    BY <1>1 DEF yolo, path, relaying, relay_side, detector_side
  <2> QED BY <2>1, DetectorKeepsRecent
          DEF RecentInv, PathTypes, RelayRecent, Busy, relay_side, detector_side
<1> QED BY <1>1, CameraFrameRecent, EncodeFrameRecent, FrameEncodedRecent, DetectorRecent,
           TimePassesRecent DEF PathNext

\* Nothing piles up between the camera and the detections, for every depth of the
\* queue, every rate of the camera and all times encoding and inference take.
THEOREM NothingPilesUp == PathSpec => []DetectionsAreRecent
<1>1. RecentInv => DetectionsAreRecent
  BY DEF RecentInv
<1> QED BY <1>1, RecentInvInit, RecentInvNext, PTL DEF PathSpec

------------------------------------------------------------------------------
(* The throttle skips few images of a camera at its own rate.              *)

LEMMA OneMorePeriod ==
  ASSUME NEW k \in Nat
  PROVE  /\ k * Period \in Nat
         /\ (k + 1) * Period = k * Period + Period
         /\ k >= 2 => k * Period >= 2 * Period
BY FramePathAssumption, Z3

\* Images come straight from the camera, each in its period.
CameraTypes ==
  /\ now \in Nat /\ next_process_time \in Nat /\ frame \in Nat \ {0} /\ skipped \in Nat
  /\ relay_depth = 0 /\ relay = <<>> /\ encoding = {}
  /\ (frame - 1) * Period <= now /\ now <= frame * Period + Jitter

\* Each image skipped since the anchor, and the one that waits, has brought the
\* camera a period nearer to the next slot.
SlotsNear ==
  frame * Period - next_process_time + Jitter + Interval
    >= skipped * Period + (IF image = {} THEN 0 ELSE Period)

SkipInv ==
  relay_depth = 0 /\ Interval <= Period =>
    /\ CameraTypes /\ skipped <= 2
    /\ IF Interval = 0 THEN skipped = 0 ELSE SlotsNear

LEMMA SkipInvInit == PathInit => SkipInv
<1> SUFFICES ASSUME PathInit, relay_depth = 0, Interval <= Period PROVE SkipInv
  BY DEF SkipInv
<1>1. now = StartTime /\ frame = StartTime \div Period + 1
  BY DEF PathInit, YoloInit
<1>2. /\ (StartTime \div Period) \in Nat
      /\ (StartTime \div Period) * Period <= StartTime
      /\ StartTime < (StartTime \div Period + 1) * Period
  BY YoloAssumption, FramePathAssumption, Z3
<1>3. /\ now \in Nat /\ frame \in Nat \ {0} /\ frame - 1 = StartTime \div Period
      /\ Jitter \in Nat /\ Interval \in Nat /\ Period \in Nat
  BY <1>1, <1>2, YoloAssumption, FramePathAssumption
<1>4. frame * Period \in Nat /\ 0 * Period = 0
  BY <1>3, OneMorePeriod
<1>5. CameraTypes
  BY <1>1, <1>2, <1>3, <1>4 DEF PathInit, YoloInit, CameraTypes
<1>6. SlotsNear
  BY <1>3, <1>4 DEF PathInit, YoloInit, SlotsNear
<1> QED BY <1>5, <1>6 DEF SkipInv, PathInit

\* A step that takes the image away at most, skips none and leaves the schedule.
LEMMA SkipInvKept ==
  ASSUME SkipInv, UNCHANGED <<now, next_process_time, path>>, image' \in {image, {}}
  PROVE  SkipInv'
<1> SUFFICES ASSUME relay_depth = 0, Interval <= Period PROVE SkipInv'
  BY DEF SkipInv, path, relaying
<1>1. CameraTypes' /\ skipped' = skipped /\ frame' = frame
  BY DEF SkipInv, CameraTypes, path, relaying
<1>2. frame * Period \in Int /\ skipped * Period \in Int
  BY OneMorePeriod DEF SkipInv, CameraTypes
<1>3. SlotsNear => SlotsNear'
  BY <1>1, <1>2, YoloAssumption, FramePathAssumption
  DEF SlotsNear, SkipInv, CameraTypes
<1> QED BY <1>1, <1>3 DEF SkipInv

LEMMA SkipInvCamera ==
  ASSUME SkipInv, CameraFrame
  PROVE  SkipInv'
<1> SUFFICES ASSUME relay_depth = 0, Interval <= Period PROVE SkipInv'
  BY DEF SkipInv, CameraFrame
<1>1. /\ frame' = frame + 1
      /\ UNCHANGED <<now, next_process_time, skipped, relay_depth, relay, encoding>>
  BY DEF CameraFrame, ImageArrives, yolo
<1>2. /\ frame \in Nat \ {0} /\ skipped \in Nat /\ now \in Nat
      /\ next_process_time \in Nat
      /\ Jitter \in Nat /\ Interval \in Nat /\ Period \in Nat
  BY YoloAssumption, FramePathAssumption DEF SkipInv, CameraTypes
<1>3. /\ frame * Period \in Nat /\ skipped * Period \in Nat
      /\ (frame + 1) * Period = frame * Period + Period
  BY <1>2, OneMorePeriod
<1>4. frame * Period <= now /\ now <= frame * Period + Jitter
  BY <1>2, <1>3 DEF CameraFrame
<1>5. CameraTypes'
  <2>1. frame + 1 - 1 = frame
    BY <1>2
  <2> QED BY <1>1, <1>2, <1>3, <1>4, <2>1 DEF SkipInv, CameraTypes
<1>6. SlotsNear => SlotsNear'
  BY <1>1, <1>2, <1>3 DEF SlotsNear
<1> QED BY <1>1, <1>5, <1>6 DEF SkipInv

LEMMA SkipInvDetector ==
  ASSUME SkipInv, Detector
  PROVE  SkipInv'
<1> SUFFICES ASSUME relay_depth = 0, Interval <= Period PROVE SkipInv'
  BY DEF SkipInv, Detector, relaying
<1> DEFINE F == frame * Period
           S == skipped * Period
<1>1. /\ frame \in Nat \ {0} /\ skipped \in Nat /\ now \in Nat
      /\ next_process_time \in Nat
      /\ Jitter \in Nat /\ Jitter < Period /\ Interval \in Nat /\ Period \in Nat
      /\ skipped <= 2
  BY YoloAssumption, FramePathAssumption DEF SkipInv, CameraTypes
<1>2. F \in Nat /\ S \in Nat /\ (skipped + 1) * Period = S + Period
  BY <1>1, OneMorePeriod
<1>3. (frame - 1) * Period = F - Period
  <2>1. frame - 1 \in Nat /\ (frame - 1) + 1 = frame
    BY <1>1
  <2> QED BY <1>1, <2>1, OneMorePeriod
<1>4. F - Period <= now /\ now <= F + Jitter
  BY <1>3 DEF SkipInv, CameraTypes
<1>5. UNCHANGED <<now, frame, relay_depth, relay, encoding>>
  BY DEF Detector, Callbacks, DecodeFails, PassOver, SkipImage, StartInference,
         InferenceEnds, relaying
<1>6. Interval > 0 => F - next_process_time + Jitter + Interval
                        >= S + (IF image = {} THEN 0 ELSE Period)
  BY <1>1 DEF SkipInv, SlotsNear
<1>7. CASE SkipImage
  <2>1. /\ skipped' = skipped + 1 /\ image # {} /\ image' = {}
        /\ UNCHANGED next_process_time
    BY <1>7 DEF Detector, SkipImage, TakeImage
  <2>2. Interval > 0 /\ now < next_process_time
    BY <1>1, <1>7 DEF SkipImage, SlotReached
  <2>3. SlotsNear'
    BY <1>1, <1>2, <1>5, <1>6, <2>1, <2>2 DEF SlotsNear
  <2>4. S < 2 * Period
    BY <1>1, <1>2, <1>4, <1>6, <2>1, <2>2
  <2>5. skipped < 2
    BY <1>1, <2>4, OneMorePeriod
  <2>6. CameraTypes'
    BY <1>1, <1>5, <2>1, <2>2 DEF SkipInv, CameraTypes
  <2> QED BY <1>1, <2>1, <2>2, <2>3, <2>5, <2>6 DEF SkipInv
<1>8. CASE StartInference
  <2>1. image # {} /\ image' = {} /\ SlotReached /\ ~SkipImage
    BY <1>8 DEF StartInference, TakeImage, SkipImage
  <2>2. skipped' = IF FarBehind THEN 0 ELSE skipped
    BY <1>8, <2>1 DEF Detector
  <2>3. CASE Interval = 0
    <3>1. skipped' = 0 /\ UNCHANGED next_process_time
      BY <1>8, <2>2, <2>3 DEF StartInference, SkipInv
    <3>2. CameraTypes'
      BY <1>1, <1>5, <3>1 DEF SkipInv, CameraTypes
    <3> QED BY <2>3, <3>1, <3>2 DEF SkipInv
  <2>4. CASE Interval > 0 /\ FarBehind
    <3>1. skipped' = 0 /\ next_process_time' = now + Interval
      BY <1>1, <1>8, <2>2, <2>4 DEF StartInference, NextSlot
    <3>2. CameraTypes'
      BY <1>1, <1>5, <3>1 DEF SkipInv, CameraTypes
    <3>3. SlotsNear'
      <4>1. 0 * Period = 0
        BY <1>1
      <4> QED BY <1>1, <1>2, <1>4, <1>5, <2>1, <3>1, <4>1 DEF SlotsNear
    <3> QED BY <2>4, <3>1, <3>2, <3>3 DEF SkipInv
  <2>5. CASE Interval > 0 /\ ~FarBehind
    <3>1. UNCHANGED skipped /\ next_process_time' = next_process_time + Interval
      BY <1>1, <1>8, <2>2, <2>5 DEF StartInference, NextSlot
    <3>2. CameraTypes'
      BY <1>1, <1>5, <3>1 DEF SkipInv, CameraTypes
    <3>3. SlotsNear'
      BY <1>1, <1>2, <1>5, <1>6, <2>1, <2>5, <3>1 DEF SlotsNear
    <3> QED BY <1>1, <2>5, <3>1, <3>2, <3>3 DEF SkipInv
  <2> QED BY <1>1, <2>3, <2>4, <2>5
<1>9. CASE DecodeFails \/ PassOver \/ InferenceEnds
  <2>1. (~StartInference /\ ~SkipImage) \/ (image' = {} /\ UNCHANGED next_process_time)
    BY <1>9 DEF DecodeFails, PassOver, InferenceEnds, TakeImage, SkipImage, StartInference
  <2> QED BY <1>7, <1>8, <1>9, <2>1, SkipInvKept
          DEF Detector, DecodeFails, PassOver, InferenceEnds, TakeImage, path
<1> QED BY <1>7, <1>8, <1>9 DEF Detector, Callbacks

LEMMA SkipInvNext ==
  ASSUME SkipInv, [PathNext]_<<yolo, path>>
  PROVE  SkipInv'
<1>1. CASE EncodeFrame \/ FrameEncoded
  <2>1. relay_depth' = relay_depth
    BY <1>1 DEF EncodeFrame, FrameEncoded
  <2>2. relay # <<>> \/ encoding # {}
    BY <1>1 DEF EncodeFrame, FrameEncoded
  <2> QED BY <2>1, <2>2 DEF SkipInv, CameraTypes
<1>2. CASE TimePasses
  <2> SUFFICES ASSUME relay_depth = 0, Interval <= Period PROVE SkipInv'
    BY <1>2 DEF SkipInv, TimePasses
  <2>1. /\ now' = now + 1 /\ now < frame * Period + Jitter
        /\ UNCHANGED <<next_process_time, frame, skipped, image, relay_depth, relay,
                       encoding>>
    BY <1>2 DEF TimePasses, Tick
  <2>2. /\ now \in Nat /\ frame \in Nat /\ Jitter \in Nat /\ frame * Period \in Nat
        /\ (frame - 1) * Period \in Int
    <3>1. now \in Nat /\ frame \in Nat \ {0} /\ Jitter \in Nat
      BY FramePathAssumption DEF SkipInv, CameraTypes
    <3> QED BY <3>1, OneMorePeriod
  <2>3. CameraTypes'
    BY <2>1, <2>2 DEF SkipInv, CameraTypes
  <2>4. SlotsNear => SlotsNear'
    BY <2>1 DEF SlotsNear
  <2> QED BY <2>1, <2>3, <2>4 DEF SkipInv
<1>3. CASE UNCHANGED <<yolo, path>>
  BY <1>3, SkipInvKept DEF yolo
<1> QED BY <1>1, <1>2, <1>3, SkipInvCamera, SkipInvDetector DEF PathNext

\* Between two anchors of its schedule the throttle skips no more than two images of
\* a camera at the rate of max_fps, for every period, jitter and inference time.
THEOREM ThrottleSkipsFew == PathSpec => []FewAreSkipped
<1>1. SkipInv => FewAreSkipped
  BY DEF SkipInv, FewAreSkipped
<1> QED BY <1>1, SkipInvInit, SkipInvNext, PTL DEF PathSpec

------------------------------------------------------------------------------
(* The tracker.                                                            *)

LEMMA MiddleType == Middle \in Place
BY DEF Middle, Place

LEMMA NoTargetType == NoTarget \in TargetError
BY DEF NoTarget, TargetError, Sign, Range

\* A frame's best detection is one of the frame's detections.
LEMMA BestDetectionType ==
  ASSUME NEW shot \in TrackerFrames, NEW i \in BestDetection(shot)
  PROVE  shot[i] \in SeenDetection
BY TrackerAssumption DEF BestDetection

\* A filter's output stays among the signs.
LEMMA SmoothedType ==
  ASSUME NEW filter \in SUBSET Sign, NEW input \in Sign
  PROVE  Smoothed(filter, input) \subseteq Sign
BY DEF Smoothed, Between

LEMMA RangeSignType ==
  ASSUME NEW r \in Range, r # "invalid"
  PROVE  RangeSign(r) \in Sign
BY DEF RangeSign, Range, Sign

LEMMA SignRangeType ==
  ASSUME NEW s \in Sign
  PROVE  SignRange(s) \in Range
BY DEF SignRange, Range, Sign

LEMMA UpdateRangeType ==
  ASSUME TypeOK, NEW r \in Range, UpdateRange(r)
  PROVE  current_range' \in Range /\ range_filter' \subseteq Sign
<1>1. CASE r = "invalid"
  BY <1>1 DEF UpdateRange, Range
<1>2. CASE r # "invalid"
  <2>1. PICK s \in Smoothed(range_filter, RangeSign(r)) :
          current_range' = SignRange(s) /\ range_filter' = {s}
    BY <1>2 DEF UpdateRange
  <2>2. s \in Sign
    BY <1>2, <2>1, SmoothedType, RangeSignType DEF TypeOK
  <2>3. QED
    BY <2>1, <2>2, SignRangeType
<1>3. QED
  BY <1>1, <1>2

\* Once the target is cleared its variables hold the values of no target.
LEMMA MarkLostType ==
  ASSUME NEW age, MarkLost(age)
  PROVE  /\ tracking_state' \in {"SEARCHING", "LOST"}
         /\ visible_for_control' = FALSE
         /\ current_place' \in Place /\ current_range' \in Range
         /\ error_filter' = {} /\ range_filter' = {}
BY MiddleType DEF MarkLost, ClearTarget, Range

------------------------------------------------------------------------------
(* The state and its visibility agree, inside and as published.            *)

StateAgrees ==
  /\ visible_for_control <=> tracking_state = "LOCKED"
  /\ visible_for_control => valid_age # {}

TypeInv == TypeOK /\ StateAgrees /\ LockedMeansVisible

LEMMA InitTypeInv == Init => TypeInv
<1> SUFFICES ASSUME Init PROVE TypeInv
  OBVIOUS
<1>1. TypeOK
  <2>1. missed_count \in 0 .. MissedThreshold /\ valid_count \in 0 .. LockConfirmFrames
    BY TrackerAssumption DEF Init
  <2>2. QED
    BY <2>1, MiddleType, NoTargetType DEF Init, TypeOK, AgeType, Range
<1>2. StateAgrees /\ LockedMeansVisible
  BY DEF Init, StateAgrees, LockedMeansVisible, NoTarget
<1>3. QED
  BY <1>1, <1>2 DEF TypeInv

LEMMA ValidDetectionStep ==
  ASSUME TypeInv, NEW d \in SeenDetection, ValidDetection(d),
         UNCHANGED <<published, publish_due>>
  PROVE  TypeInv'
<1> USE DEF TypeInv
<1>1. current_range' \in Range /\ range_filter' \subseteq Sign
  BY UpdateRangeType DEF ValidDetection, SeenDetection
<1>2. valid_count' \in 0 .. LockConfirmFrames /\ missed_count' \in 0 .. MissedThreshold
  BY TrackerAssumption DEF ValidDetection, TypeOK
<1>3. AgeType(message_age)' /\ AgeType(valid_age)' /\ valid_age' # {}
  BY DEF ValidDetection, AgeType
<1>4. visible_for_control' \in BOOLEAN
  BY DEF ValidDetection
<1>5. /\ tracking_state' \in {"SEARCHING", "LOCKED"}
      /\ visible_for_control' <=> tracking_state' = "LOCKED"
  BY DEF ValidDetection
<1>6. last_known_place' \in Place /\ current_place' \in Place
  BY DEF ValidDetection, SeenDetection
<1>7. QED
  BY <1>1, <1>2, <1>3, <1>4, <1>5, <1>6
     DEF ValidDetection, TypeOK, StateAgrees, LockedMeansVisible

LEMMA MissedDetectionStep ==
  ASSUME TypeInv, MissedDetection, UNCHANGED <<published, publish_due>>
  PROVE  TypeInv'
<1> USE DEF TypeInv
<1>1. valid_count' \in 0 .. LockConfirmFrames /\ missed_count' \in 0 .. MissedThreshold
  BY TrackerAssumption DEF MissedDetection, CountMiss, TypeOK
<1>2. AgeType(message_age)' /\ AgeType(valid_age)'
  BY DEF MissedDetection, AgeType, TypeOK
<1>3. CASE HoldsLock
  <2>1. valid_age # {}
    BY <1>3 DEF HoldsLock, Within
  <2>2. QED
    BY <1>1, <1>2, <1>3, <2>1
       DEF MissedDetection, TypeOK, StateAgrees, LockedMeansVisible
<1>4. CASE ~HoldsLock
  <2>1. MarkLost(valid_age)
    BY <1>4 DEF MissedDetection
  <2>2. QED
    BY <1>1, <1>2, <2>1, MarkLostType
       DEF MissedDetection, TypeOK, StateAgrees, LockedMeansVisible
<1>5. QED
  BY <1>3, <1>4

\* What the timer leaves for publication.
LEMMA ExpireTargetStep ==
  ASSUME TypeInv, ExpireTarget, UNCHANGED memory
  PROVE  /\ tracking_state' \in {"SEARCHING", "LOCKED", "LOST"}
         /\ visible_for_control' \in BOOLEAN
         /\ current_place' \in Place /\ current_range' \in Range
         /\ range_filter' \subseteq Sign
         /\ missed_count' \in 0 .. MissedThreshold
         /\ valid_count' \in 0 .. LockConfirmFrames
         /\ StateAgrees'
         /\ visible_for_control' => ~TargetExpired /\ visible_for_control
<1> USE DEF TypeInv, memory
<1>1. CASE TargetExpired /\ MarkLost(valid_age) /\ UNCHANGED counts
  BY <1>1, MarkLostType DEF TypeOK, StateAgrees, counts
<1>2. CASE LostForGood /\ UNCHANGED <<valid_count, visible_for_control, current_place,
                                      current_range, range_filter>>
           /\ tracking_state' = "SEARCHING" /\ missed_count' = 0
  BY <1>2, TrackerAssumption DEF LostForGood, TypeOK, StateAgrees
<1>3. CASE ~TargetExpired /\ UNCHANGED <<counts, tracking_state, visible_for_control,
                                         current_place, current_range, range_filter>>
  BY <1>3 DEF TypeOK, StateAgrees, counts
<1>4. QED
  BY <1>1, <1>2, <1>3 DEF ExpireTarget

\* An age that is known is within a time-out or beyond it, never both.
LEMMA WithinOrBeyond ==
  ASSUME NEW ages, AgeType(ages), NEW timeout \in Nat
  PROVE  /\ ages # {} => Within(ages, timeout) \/ Beyond(ages, timeout)
         /\ ~(Within(ages, timeout) /\ Beyond(ages, timeout))
<1>1. CASE ages = {}
  BY <1>1 DEF Within
<1>2. CASE ages # {}
  <2>1. PICK age \in ages : ages = {age} /\ age \in Nat
    BY <1>2 DEF AgeType
  <2>2. age <= timeout \/ age > timeout
    BY <2>1
  <2>3. ~(age <= timeout /\ age > timeout)
    BY <2>1
  <2>4. QED
    BY <2>1, <2>2, <2>3 DEF Within, Beyond
<1>3. QED
  BY <1>1, <1>2

LEMMA PublishErrorStep == TypeInv /\ PublishError => TypeInv'
<1> SUFFICES ASSUME TypeInv, PublishError PROVE TypeInv'
  OBVIOUS
<1> DEFINE visible == /\ visible_for_control' /\ tracking_state' = "LOCKED"
                      /\ ~StreamStale
                      /\ Within(valid_age, CoastTimeout)
<1>1. ExpireTarget /\ UNCHANGED memory /\ publish_due' = FALSE
  BY DEF PublishError
<1>2. AgeType(message_age)' /\ AgeType(valid_age)' /\ last_known_place' \in Place
  BY <1>1 DEF TypeInv, TypeOK, AgeType, memory
<1>3. CASE visible
  <2>1. PICK e \in Smoothed(error_filter, ErrorOf(current_place')) :
          /\ error_filter' = {e}
          /\ published' = [target_visible |-> TRUE, tracking_state |-> tracking_state',
                           bearing |-> e, range |-> current_range']
    BY <1>3 DEF PublishError
  <2>2. ErrorOf(current_place') \in Sign
    BY <1>1, ExpireTargetStep DEF ErrorOf, Place, Middle, Sign
  <2>3. e \in Sign
    BY <2>1, <2>2, SmoothedType DEF TypeInv, TypeOK
  <2>4. published' \in TargetError /\ LockedMeansVisible'
    BY <1>1, <1>3, <2>1, <2>3, ExpireTargetStep DEF TargetError, LockedMeansVisible
  <2>5. QED
    BY <1>1, <1>2, <2>1, <2>3, <2>4, ExpireTargetStep DEF TypeInv, TypeOK
<1>4. CASE ~visible
  <2>1. /\ ~TargetExpired => UNCHANGED error_filter
        /\ published' = [NoTarget EXCEPT !.tracking_state = tracking_state']
    BY <1>4 DEF PublishError
  <2>2. tracking_state' # "LOCKED"
    <3>1. SUFFICES ASSUME tracking_state' = "LOCKED" PROVE FALSE
      OBVIOUS
    <3>2. visible_for_control' /\ ~TargetExpired /\ visible_for_control
      BY <1>1, <3>1, ExpireTargetStep DEF StateAgrees
    <3>3. ~StreamStale /\ ~Beyond(valid_age, CoastTimeout)
      BY <3>2 DEF TargetExpired
    <3>4. Within(valid_age, CoastTimeout)
      BY <3>2, <3>3, WithinOrBeyond, TrackerAssumption
      DEF TypeInv, TypeOK, StateAgrees
    <3>5. QED
      BY <1>4, <3>1, <3>2, <3>3, <3>4
  <2>3. published' \in TargetError /\ LockedMeansVisible'
    BY <1>1, <2>1, <2>2, ExpireTargetStep
       DEF TargetError, NoTarget, Sign, Range, LockedMeansVisible
  <2>4. error_filter' \subseteq Sign
    <3>1. CASE TargetExpired
      <4>1. ~LostForGood
        BY <3>1 DEF TargetExpired, LostForGood
      <4>2. MarkLost(valid_age)
        BY <1>1, <3>1, <4>1 DEF ExpireTarget
      <4>3. QED
        BY <4>2, MarkLostType
    <3>2. CASE ~TargetExpired
      BY <2>1, <3>2 DEF TypeInv, TypeOK
    <3>3. QED
      BY <3>1, <3>2
  <2>5. QED
    BY <1>1, <1>2, <2>3, <2>4, ExpireTargetStep DEF TypeInv, TypeOK
<1>5. QED
  BY <1>3, <1>4

\* An age stays one number when time passes, and does not disappear.
LEMMA OneOlderType ==
  ASSUME NEW ages, AgeType(ages)
  PROVE  AgeType(OneOlder(ages)) /\ (ages # {} => OneOlder(ages) # {})
<1> DEFINE AgeAfter(age) == IF age > LongestTimeout THEN age ELSE age + 1
<1>1. \A age \in ages : AgeAfter(age) \in Nat
  BY DEF AgeType
<1>2. OneOlder(ages) = {AgeAfter(age) : age \in ages}
  BY DEF OneOlder
<1> HIDE DEF AgeAfter
<1>3. OneOlder(ages) \subseteq Nat /\ (ages # {} => OneOlder(ages) # {})
  BY <1>1, <1>2
<1>4. ASSUME NEW a \in OneOlder(ages), NEW b \in OneOlder(ages)
      PROVE  a = b
  <2>1. PICK c \in ages, d \in ages : a = AgeAfter(c) /\ b = AgeAfter(d)
    BY <1>2
  <2>2. c = d
    BY DEF AgeType
  <2>3. QED
    BY <2>1, <2>2
<1>5. QED
  BY <1>3, <1>4 DEF AgeType

LEMMA ElapseTypeStep == TypeInv /\ Elapse => TypeInv'
<1> SUFFICES ASSUME TypeInv, Elapse PROVE TypeInv'
  OBVIOUS
<1>1. AgeType(OneOlder(message_age)) /\ AgeType(OneOlder(valid_age))
  BY OneOlderType DEF TypeInv, TypeOK
<1>2. AgeType(message_age)' /\ AgeType(valid_age)' /\ (valid_age # {} => valid_age' # {})
  BY <1>1, OneOlderType DEF Elapse, AgeType, TypeInv, TypeOK
<1>3. QED
  BY <1>2
  DEF Elapse, TypeInv, TypeOK, StateAgrees, LockedMeansVisible, counts, target

LEMMA TypeInvStep == TypeInv /\ [Next]_vars => TypeInv'
<1> SUFFICES ASSUME TypeInv, [Next]_vars PROVE TypeInv'
  OBVIOUS
<1>1. ASSUME NEW shot \in TrackerFrames, DetectionCallback(shot)
      PROVE  TypeInv'
  <2>1. CASE BestDetection(shot) = {}
    BY <1>1, <2>1, MissedDetectionStep DEF DetectionCallback
  <2>2. CASE BestDetection(shot) # {}
    BY <1>1, <2>2, ValidDetectionStep, BestDetectionType DEF DetectionCallback
  <2>3. QED
    BY <2>1, <2>2
<1>2. CASE PublishError
  BY <1>2, PublishErrorStep
<1>3. CASE Elapse
  BY <1>3, ElapseTypeStep
<1>4. CASE UNCHANGED vars
  BY <1>4 DEF vars, memory, counts, target, TypeInv, TypeOK, StateAgrees,
              LockedMeansVisible, AgeType
<1>5. QED
  BY <1>1, <1>2, <1>3, <1>4 DEF Next

\* Every variable of the tracker keeps its type.
THEOREM TrackerTypeCorrect == Spec => []TypeOK
<1>1. TypeInv => TypeOK
  BY DEF TypeInv
<1>2. QED
  BY <1>1, InitTypeInv, TypeInvStep, PTL DEF Spec

\* LOCKED is published with a visible target and never without one, whatever
\* the time-outs and the thresholds.
THEOREM PublishedLockIsVisible == Spec => []LockedMeansVisible
<1>1. TypeInv => LockedMeansVisible
  BY DEF TypeInv
<1>2. QED
  BY <1>1, InitTypeInv, TypeInvStep, PTL DEF Spec

------------------------------------------------------------------------------
(* What is steered at is what was last seen.                               *)

\* A frame without a target clears the place that the next grace period would
\* publish again, unless the grace has run out by then.
PlaceKept ==
  Within(valid_age, CoastTimeout) /\ missed_count < MissedThreshold
    => current_place = last_known_place

\* The array with the target is no younger than the last array.
MessageIsNewer == \A m \in message_age, v \in valid_age : m <= v

PlaceInv == TypeInv /\ SteersAtTarget /\ PlaceKept /\ MessageIsNewer

TimeoutsOrdered == CoastTimeout <= StaleTimeout /\ CoastTimeout <= ReacquisitionTimeout

LEMMA LongestTimeoutType ==
  /\ LongestTimeout \in Nat
  /\ CoastTimeout <= LongestTimeout
<1> DEFINE S == {CoastTimeout, StaleTimeout, ReacquisitionTimeout}
           Longest(t) == \A u \in S : u <= t
<1>1. S \subseteq Nat
  BY TrackerAssumption
<1>2. \E t \in S : Longest(t)
  <2>1. CASE CoastTimeout >= StaleTimeout /\ CoastTimeout >= ReacquisitionTimeout
    BY <1>1, <2>1
  <2>2. CASE StaleTimeout >= CoastTimeout /\ StaleTimeout >= ReacquisitionTimeout
    BY <1>1, <2>2
  <2>3. CASE ReacquisitionTimeout >= CoastTimeout /\ ReacquisitionTimeout >= StaleTimeout
    BY <1>1, <2>3
  <2>4. QED
    BY <1>1, <2>1, <2>2, <2>3
<1>3. LongestTimeout = CHOOSE t \in S : Longest(t)
  BY DEF LongestTimeout
<1>4. LongestTimeout \in S /\ Longest(LongestTimeout)
  BY <1>2, <1>3
<1>5. QED
  BY <1>1, <1>4

\* Time takes an age out of a time-out, never into it, and keeps their order.
LEMMA OneOlderOrder ==
  ASSUME TypeInv
  PROVE  /\ Within(OneOlder(valid_age), CoastTimeout) => Within(valid_age, CoastTimeout)
         /\ MessageIsNewer =>
              \A m \in OneOlder(message_age), v \in OneOlder(valid_age) : m <= v
<1> DEFINE AgeAfter(age) == IF age > LongestTimeout THEN age ELSE age + 1
<1>1. valid_age \subseteq Nat /\ message_age \subseteq Nat /\ CoastTimeout \in Nat
  BY TrackerAssumption DEF TypeInv, TypeOK, AgeType
<1>2. \A m, v \in Nat : m <= v => AgeAfter(m) <= AgeAfter(v)
  BY LongestTimeoutType
<1>3. \A v \in Nat : AgeAfter(v) <= CoastTimeout => v <= CoastTimeout
  BY <1>1, LongestTimeoutType
<1>4. \A ages : OneOlder(ages) = {AgeAfter(age) : age \in ages}
  BY DEF OneOlder
<1> HIDE DEF AgeAfter
<1>5. Within(OneOlder(valid_age), CoastTimeout) => Within(valid_age, CoastTimeout)
  <2>1. SUFFICES ASSUME Within(OneOlder(valid_age), CoastTimeout)
                 PROVE  Within(valid_age, CoastTimeout)
    OBVIOUS
  <2>2. PICK v \in valid_age : AgeAfter(v) <= CoastTimeout
    BY <1>4, <2>1 DEF Within
  <2>3. QED
    BY <1>1, <1>3, <2>2 DEF Within
<1>6. ASSUME MessageIsNewer,
             NEW m \in OneOlder(message_age), NEW v \in OneOlder(valid_age)
      PROVE  m <= v
  <2>1. PICK a \in message_age, b \in valid_age : m = AgeAfter(a) /\ v = AgeAfter(b)
    BY <1>4
  <2>2. a <= b
    BY <1>6 DEF MessageIsNewer
  <2>3. QED
    BY <1>1, <1>2, <2>1, <2>2
<1>7. QED
  BY <1>5, <1>6

\* A stream that is stale has no target within the coast time.
LEMMA StaleEndsCoasting ==
  ASSUME TypeInv, MessageIsNewer, TimeoutsOrdered, StreamStale
  PROVE  ~Within(valid_age, CoastTimeout)
<1>1. {CoastTimeout, StaleTimeout} \subseteq Nat
  BY TrackerAssumption
<1>2. valid_age \subseteq Nat /\ message_age \subseteq Nat
  BY DEF TypeInv, TypeOK, AgeType
<1>3. PICK m \in message_age : m > StaleTimeout
  BY DEF StreamStale, Beyond
<1>4. \A v \in valid_age : ~(v <= CoastTimeout)
  BY <1>1, <1>2, <1>3 DEF MessageIsNewer, TimeoutsOrdered
<1>5. QED
  BY <1>4 DEF Within

LEMMA BeyondReacquisition ==
  ASSUME TypeInv, TimeoutsOrdered, Beyond(valid_age, ReacquisitionTimeout)
  PROVE  ~Within(valid_age, CoastTimeout)
<1>1. {CoastTimeout, ReacquisitionTimeout} \subseteq Nat
  BY TrackerAssumption
<1>2. PICK age \in valid_age : age > ReacquisitionTimeout
  BY DEF Beyond
<1>3. age \in Nat /\ \A v \in valid_age : v = age
  BY DEF TypeInv, TypeOK, AgeType
<1>4. ~(age <= CoastTimeout)
  BY <1>1, <1>2, <1>3 DEF TimeoutsOrdered
<1>5. QED
  BY <1>3, <1>4 DEF Within

LEMMA PlaceInvStep ==
  ASSUME TimeoutsOrdered
  PROVE  PlaceInv /\ [Next]_vars => PlaceInv'
<1> SUFFICES ASSUME PlaceInv, [Next]_vars PROVE PlaceInv'
  OBVIOUS
<1>0. TypeInv /\ TypeInv'
  BY TypeInvStep DEF PlaceInv
<1>1. ASSUME NEW shot \in TrackerFrames, DetectionCallback(shot)
      PROVE  PlaceInv'
  <2>1. CASE BestDetection(shot) # {}
    <3>1. PICK d : ValidDetection(d)
      BY <1>1, <2>1 DEF DetectionCallback
    <3>2. current_place' = last_known_place'
      BY <3>1 DEF ValidDetection
    <3>3. MessageIsNewer'
      BY <3>1 DEF ValidDetection, MessageIsNewer
    <3>4. QED
      BY <1>0, <3>2, <3>3 DEF PlaceInv, SteersAtTarget, PlaceKept
  <2>2. CASE BestDetection(shot) = {}
    <3>1. MissedDetection
      BY <1>1, <2>2 DEF DetectionCallback
    <3>2. /\ message_age' = {0} /\ valid_age' = valid_age
          /\ last_known_place' = last_known_place
      BY <3>1 DEF MissedDetection
    <3>3. MessageIsNewer'
      BY <1>0, <3>2 DEF MessageIsNewer, TypeInv, TypeOK, AgeType
    <3>4. missed_count \in 0 .. MissedThreshold /\ MissedThreshold \in Nat
      BY <1>0, TrackerAssumption DEF TypeInv, TypeOK
    <3>5. missed_count' < MissedThreshold => missed_count + 1 < MissedThreshold
      BY <3>1, <3>4 DEF MissedDetection, CountMiss
    <3>6. CASE HoldsLock
      <4>1. missed_count < MissedThreshold /\ Within(valid_age, CoastTimeout)
        BY <3>4, <3>6 DEF HoldsLock
      <4>2. current_place' = last_known_place'
        BY <3>1, <3>2, <3>6, <4>1 DEF MissedDetection, PlaceInv, PlaceKept
      <4>3. QED
        BY <1>0, <3>3, <4>2 DEF PlaceInv, SteersAtTarget, PlaceKept
    <3>7. CASE ~HoldsLock
      <4>1. visible_for_control' = FALSE
        BY <3>1, <3>7 DEF MissedDetection, MarkLost
      <4>2. ~(Within(valid_age', CoastTimeout) /\ missed_count' < MissedThreshold)
        BY <3>2, <3>5, <3>7 DEF HoldsLock
      <4>3. PlaceKept'
        BY <4>2 DEF PlaceKept, Within
      <4>4. QED
        BY <1>0, <3>3, <4>1, <4>3 DEF PlaceInv, SteersAtTarget
    <3>8. QED
      BY <3>6, <3>7
  <2>3. QED
    BY <2>1, <2>2
<1>2. CASE PublishError
  <2>1. ExpireTarget /\ UNCHANGED memory
    BY <1>2 DEF PublishError
  <2>2. MessageIsNewer'
    BY <2>1 DEF PlaceInv, MessageIsNewer, memory
  <2>3. CASE TargetExpired
    <3>1. ~LostForGood
      BY <2>3 DEF TargetExpired, LostForGood
    <3>2. visible_for_control' = FALSE
      BY <2>1, <2>3, <3>1 DEF ExpireTarget, MarkLost
    <3>3. ~Within(valid_age, CoastTimeout)
      BY <1>0, <2>3, StaleEndsCoasting, WithinOrBeyond, TrackerAssumption
         DEF PlaceInv, TargetExpired, TypeInv, TypeOK
    <3>4. PlaceKept'
      BY <2>1, <3>3 DEF PlaceKept, Within, memory
    <3>5. QED
      BY <1>0, <2>2, <3>2, <3>4 DEF PlaceInv, SteersAtTarget
  <2>4. CASE LostForGood
    <3>1. ~TargetExpired
      BY <2>4 DEF TargetExpired, LostForGood
    <3>2. visible_for_control' = visible_for_control /\ ~visible_for_control
      BY <2>1, <2>4, <3>1 DEF ExpireTarget, LostForGood
    <3>3. ~Within(valid_age, CoastTimeout)
      BY <1>0, <2>4, BeyondReacquisition DEF LostForGood
    <3>4. PlaceKept'
      BY <2>1, <3>3 DEF PlaceKept, Within, memory
    <3>5. QED
      BY <1>0, <2>2, <3>2, <3>4 DEF PlaceInv, SteersAtTarget
  <2>5. CASE ~TargetExpired /\ ~LostForGood
    <3>1. UNCHANGED <<counts, visible_for_control, current_place>>
      BY <2>1, <2>5 DEF ExpireTarget
    <3>2. QED
      BY <1>0, <2>1, <2>2, <3>1
         DEF PlaceInv, SteersAtTarget, PlaceKept, Within, memory, counts
  <2>6. QED
    BY <2>3, <2>4, <2>5
<1>3. CASE Elapse
  <2>1. /\ message_age' = OneOlder(message_age) /\ valid_age' = OneOlder(valid_age)
        /\ UNCHANGED <<last_known_place, missed_count, visible_for_control, current_place>>
    BY <1>3 DEF Elapse, counts, target
  <2>2. MessageIsNewer'
    BY <1>0, <2>1, OneOlderOrder DEF PlaceInv, MessageIsNewer
  <2>3. Within(valid_age', CoastTimeout) => Within(valid_age, CoastTimeout)
    BY <1>0, <2>1, OneOlderOrder
  <2>4. PlaceKept'
    BY <2>1, <2>3 DEF PlaceInv, PlaceKept, Within
  <2>5. QED
    BY <1>0, <2>1, <2>2, <2>4 DEF PlaceInv, SteersAtTarget
<1>4. CASE UNCHANGED vars
  BY <1>0, <1>4 DEF PlaceInv, SteersAtTarget, PlaceKept, MessageIsNewer, Within,
                    vars, memory, counts, target
<1>5. QED
  BY <1>1, <1>2, <1>3, <1>4 DEF Next

\* Through every loss, grace period and reset the tracker steers at the place
\* where the target was last seen, never at the middle it clears the place to,
\* provided that the coast time is not the longer one.
THEOREM SteersAtLastSeen ==
  ASSUME TimeoutsOrdered
  PROVE  Spec => []SteersAtTarget
<1>1. Init => PlaceInv
  BY InitTypeInv DEF Init, PlaceInv, SteersAtTarget, PlaceKept, MessageIsNewer
<1>2. PlaceInv /\ [Next]_vars => PlaceInv'
  BY PlaceInvStep
<1>3. PlaceInv => SteersAtTarget
  BY DEF PlaceInv
<1>4. QED
  BY <1>1, <1>2, <1>3, PTL DEF Spec

------------------------------------------------------------------------------
(* The grace period is one for each time the target was seen.              *)

InGrace == Within(valid_age, CoastTimeout)

\* Within the coast time no more frames lacked the target than are counted, whatever
\* reset the count; nor does a visible target have as many as the threshold.
GraceInv ==
  /\ PlaceInv
  /\ misses \in 0 .. MissedThreshold
  /\ InGrace => misses <= missed_count
  /\ visible_for_control => misses < MissedThreshold

\* Once a target is given up, a frame without one does not take it back.
StaysGivenUp ==
  ~visible_for_control => ~InGrace \/ missed_count + 1 >= MissedThreshold

BackInv ==
  /\ PlaceInv
  /\ StaysGivenUp
  /\ ~published.target_visible /\ ~refreshed => ~visible_for_control

\* The timer resets the count, or hides the target, only out of the coast time.
LEMMA TimerInGrace ==
  ASSUME TimeoutsOrdered, PlaceInv, PublishError
  PROVE  /\ valid_age' = valid_age
         /\ InGrace => UNCHANGED <<missed_count, visible_for_control>>
         /\ visible_for_control' => visible_for_control
         /\ published'.target_visible <=> visible_for_control'
<1>1. TypeInv /\ TypeInv' /\ MessageIsNewer
  BY PublishErrorStep DEF PlaceInv
<1>2. ExpireTarget /\ UNCHANGED memory
  BY DEF PublishError
<1>3. InGrace => ~TargetExpired /\ ~LostForGood
  BY <1>1, StaleEndsCoasting, WithinOrBeyond, BeyondReacquisition, TrackerAssumption
  DEF InGrace, TargetExpired, LostForGood, TypeInv, TypeOK
<1>4. InGrace => UNCHANGED <<missed_count, visible_for_control>>
  BY <1>2, <1>3 DEF ExpireTarget, counts
<1>5. visible_for_control' => visible_for_control
  BY <1>1, <1>2, ExpireTargetStep
<1>6. published'.tracking_state = tracking_state'
  BY DEF PublishError, NoTarget
<1>7. published'.target_visible <=> visible_for_control'
  BY <1>1, <1>6 DEF TypeInv, StateAgrees, LockedMeansVisible
<1> QED BY <1>2, <1>4, <1>5, <1>7 DEF memory

\* Time takes a target out of the coast time only.
LEMMA TimeInGrace ==
  ASSUME PlaceInv, Elapse
  PROVE  /\ InGrace' => InGrace
         /\ UNCHANGED <<missed_count, visible_for_control, published>>
<1>1. valid_age' = OneOlder(valid_age)
  BY DEF Elapse
<1> QED BY <1>1, OneOlderOrder DEF PlaceInv, InGrace, Within, Elapse, counts, target

\* A frame with a target was seen to have one.
LEMMA FrameIsSeen ==
  ASSUME PlaceInv, NEW shot \in TrackerFrames, HDetection(shot)
  PROVE  \/ misses' = 0 /\ refreshed' = TRUE
         \/ /\ MissedDetection
            /\ misses' = IF misses < MissedThreshold THEN misses + 1 ELSE misses
            /\ UNCHANGED refreshed
BY DEF HDetection, DetectionCallback, BestDetection

LEMMA MissInGrace ==
  ASSUME PlaceInv, MissedDetection
  PROVE  /\ valid_age' = valid_age
         /\ missed_count' = IF missed_count < MissedThreshold THEN missed_count + 1
                            ELSE missed_count
         /\ visible_for_control' <=> HoldsLock
BY DEF MissedDetection, CountMiss, MarkLost

LEMMA GraceInvNext ==
  ASSUME TimeoutsOrdered, GraceInv, [HNext]_<<vars, history>>
  PROVE  GraceInv'
<1>1. PlaceInv'
  BY PlaceInvStep DEF GraceInv, HNext, HDetection, HPublish, HElapse, Next, vars
<1>2. /\ PlaceInv /\ MissedThreshold \in Nat \ {0}
      /\ missed_count \in 0 .. MissedThreshold /\ missed_count' \in 0 .. MissedThreshold
      /\ misses \in 0 .. MissedThreshold
  BY <1>1, TrackerAssumption DEF GraceInv, PlaceInv, TypeInv, TypeOK
<1>3. ASSUME NEW shot \in TrackerFrames, HDetection(shot) PROVE GraceInv'
  <2>1. CASE misses' = 0
    BY <1>1, <1>2, <2>1 DEF GraceInv
  <2>2. CASE /\ MissedDetection
             /\ misses' = IF misses < MissedThreshold THEN misses + 1 ELSE misses
    <3>1. InGrace' => InGrace
      BY <1>2, <2>2, MissInGrace DEF InGrace, Within
    <3>2. InGrace' => misses' <= missed_count'
      BY <1>2, <2>2, <3>1, MissInGrace DEF GraceInv
    <3>3. visible_for_control' => misses' < MissedThreshold
      BY <1>2, <2>2, MissInGrace DEF GraceInv, HoldsLock, InGrace
    <3> QED BY <1>1, <1>2, <2>2, <3>2, <3>3 DEF GraceInv
  <2> QED BY <1>2, <1>3, <2>1, <2>2, FrameIsSeen
<1>4. CASE HPublish
  BY <1>1, <1>2, <1>4, TimerInGrace DEF GraceInv, HPublish, InGrace, Within
<1>5. CASE HElapse
  BY <1>1, <1>2, <1>5, TimeInGrace DEF GraceInv, HElapse, history
<1>6. CASE UNCHANGED <<vars, history>>
  BY <1>1, <1>6 DEF GraceInv, vars, history, memory, counts, target, InGrace, Within
<1> QED BY <1>3, <1>4, <1>5, <1>6 DEF HNext

\* A target is published as visible only within its one grace period, for every
\* threshold and all time-outs of which the coast time is not the longer.
THEOREM OneGracePeriod ==
  ASSUME TimeoutsOrdered
  PROVE  HSpec => VisibleWithinGrace
<1>1. HInit => GraceInv
  BY InitTypeInv, TrackerAssumption
  DEF HInit, Init, GraceInv, PlaceInv, SteersAtTarget, PlaceKept, MessageIsNewer,
      InGrace, Within
<1>2. GraceInv /\ [HNext]_<<vars, history>> => GraceInv'
  BY GraceInvNext
<1>3. GraceInv => (PublishError /\ published'.target_visible => misses < MissedThreshold)
  BY TimerInGrace DEF GraceInv
<1> QED BY <1>1, <1>2, <1>3, PTL DEF HSpec, VisibleWithinGrace

LEMMA BackInvNext ==
  ASSUME TimeoutsOrdered, LockConfirmFrames = 1, BackInv, [HNext]_<<vars, history>>
  PROVE  BackInv'
<1>1. PlaceInv'
  BY PlaceInvStep DEF BackInv, HNext, HDetection, HPublish, HElapse, Next, vars
<1>2. /\ PlaceInv /\ MissedThreshold \in Nat \ {0}
      /\ missed_count \in 0 .. MissedThreshold
      /\ valid_count \in 0 .. LockConfirmFrames
  BY TrackerAssumption DEF BackInv, PlaceInv, TypeInv, TypeOK
<1>3. ASSUME NEW shot \in TrackerFrames, HDetection(shot) PROVE BackInv'
  <2>1. UNCHANGED published
    BY <1>3 DEF HDetection, DetectionCallback
  <2>2. CASE MissedDetection
    <3>1. StaysGivenUp'
      BY <1>2, <2>2, MissInGrace DEF StaysGivenUp, HoldsLock, InGrace, Within
    <3>2. visible_for_control' => visible_for_control
      BY <1>2, <2>2, MissInGrace DEF BackInv, StaysGivenUp, HoldsLock, InGrace
    <3> QED BY <1>1, <1>2, <1>3, <2>1, <3>1, <3>2, FrameIsSeen DEF BackInv
  <2>3. CASE ~MissedDetection
    <3>1. PICK d : ValidDetection(d)
      BY <1>3, <2>3 DEF HDetection, DetectionCallback
    <3>2. visible_for_control' = TRUE
      <4>1. valid_count' >= LockConfirmFrames
        BY <1>2, <3>1 DEF ValidDetection
      <4> QED BY <3>1, <4>1 DEF ValidDetection
    <3>3. refreshed' = TRUE
      BY <1>2, <1>3, <2>3, FrameIsSeen
    <3> QED BY <1>1, <3>2, <3>3 DEF BackInv, StaysGivenUp
  <2> QED BY <2>2, <2>3
<1>4. CASE HPublish
  <2>1. StaysGivenUp'
    BY <1>2, <1>4, TimerInGrace DEF BackInv, StaysGivenUp, HPublish, InGrace, Within
  <2> QED BY <1>1, <1>2, <1>4, <2>1, TimerInGrace DEF BackInv, HPublish
<1>5. CASE HElapse
  BY <1>1, <1>2, <1>5, TimeInGrace DEF BackInv, StaysGivenUp, HElapse, history
<1>6. CASE UNCHANGED <<vars, history>>
  BY <1>1, <1>6 DEF BackInv, StaysGivenUp, vars, history, memory, counts, target,
                    InGrace, Within
<1> QED BY <1>3, <1>4, <1>5, <1>6 DEF HNext

\* A lost target comes back by a detection only, for every threshold, when one
\* detection confirms a lock and the coast time is not the longer time-out.
THEOREM BackByDetectionOnly ==
  ASSUME TimeoutsOrdered, LockConfirmFrames = 1
  PROVE  HSpec => LockNeedsDetection
<1>1. HInit => BackInv
  BY InitTypeInv, TrackerAssumption
  DEF HInit, Init, BackInv, StaysGivenUp, PlaceInv, SteersAtTarget, PlaceKept,
      MessageIsNewer, InGrace, Within
<1>2. BackInv /\ [HNext]_<<vars, history>> => BackInv'
  BY BackInvNext
<1>3. ASSUME BackInv, [HNext]_<<vars, history>>
      PROVE  [~published.target_visible /\ published'.target_visible
                => refreshed]_<<vars, history>>
  <2>1. CASE HPublish
    BY <1>3, <2>1, TimerInGrace DEF BackInv, HPublish
  <2>2. CASE ~HPublish
    BY <1>3, <2>2 DEF HNext, HDetection, DetectionCallback, HElapse, Elapse
  <2> QED BY <2>1, <2>2
<1> QED BY <1>1, <1>2, <1>3, PTL DEF HSpec, LockNeedsDetection
==============================================================================
