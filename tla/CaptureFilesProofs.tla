------------------------- MODULE CaptureFilesProofs -------------------------
(***************************************************************************)
(* Proofs about the capture files, for every segment size, every flush     *)
(* period that divides it, every number of frames and of processes.        *)
(*                                                                         *)
(* The inductive invariant says where the bytes of the present process     *)
(* are: its full segments, the open one and the buffer hold, together and  *)
(* in this order, the frames it wrote.  What makes it inductive is that a  *)
(* writer that is about to leave a segment has nothing buffered (Flushed): *)
(* the counter of the calling loop has just come round.                    *)
(***************************************************************************)
EXTENDS CaptureFiles, TLAPS

\* The number of the frames in the segments before segment s.
Start(s) == s * SegmentFrames

\* The process has created the segments up to segment c, those before it are
\* full, and the others are from earlier processes.
Layout(dir, c) ==
  /\ \A s \in Segments : dir[s].run = run <=> s <= c
  /\ \A s \in Segments : dir[s].run <= run
  /\ \A s \in Segments : s < c => dir[s].bytes = FrameBytes * SegmentFrames
  /\ \A s, t \in Segments : s < t /\ dir[t].run # 0 => dir[s].run >= dir[t].run

Nothing == frames_written = 0 /\ buffered = 0 /\ confirmed = 0

\* The bytes of the frames that belong to the open segment.
Due(c) == FrameBytes * (frames_written - Start(c))

Opened(c) ==
  /\ Start(c) <= frames_written
  /\ frames_written <= Start(c) + SegmentFrames
  /\ confirmed <= frames_written
  /\ FrameBytes * confirmed <= FrameBytes * Start(c) + files[c].bytes
  /\ files[c].bytes + buffered <= FrameBytes * SegmentFrames
  /\ FrameBytes * Start(c) + files[c].bytes + buffered <= FrameBytes * MaxFrames
  /\ caller \in {"write", "flush", "finished", "succeeded"} =>
       files[c].bytes + buffered = Due(c)
  /\ caller \in {"write", "flush"} => stream = "good"

Flushed ==
  /\ caller \in {"write", "flush"} =>
       writes_since_flush = frames_written % FlushEvery
  /\ caller = "flush" => writes_since_flush = 0
  /\ caller = "write" /\ writes_since_flush = 0 => buffered = 0
  /\ caller \in {"finished", "succeeded", "ended"} => buffered = 0

IndInv ==
  /\ TypeOK
  /\ Layout(files, current_segment)
  /\ current_segment = NoSegment => Nothing
  /\ current_segment # NoSegment => Opened(current_segment)
  /\ Flushed

-----------------------------------------------------------------------------
(* Arithmetic of segments and of the flush period.                         *)

LEMMA Starts ==
  /\ Start(0) = 0
  /\ \A s \in Nat : Start(s) \in Nat /\ Start(s + 1) = Start(s) + SegmentFrames
BY FilesAssumption DEF Start

LEMMA StartsGrow ==
  ASSUME NEW s \in Nat, NEW t \in Nat, s < t
  PROVE  Start(s) + SegmentFrames <= Start(t)
<1>1. SegmentFrames \in Nat
  BY FilesAssumption
<1>2. PICK d \in Nat : t = s + 1 + d
  <2> WITNESS t - s - 1 \in Nat
  <2> QED OBVIOUS
<1>3. Start(t) = Start(s) + SegmentFrames + d * SegmentFrames
  BY <1>1, <1>2 DEF Start
<1>4. d * SegmentFrames \in Nat /\ Start(s) \in Nat
  BY <1>1 DEF Start
<1> QED
  BY <1>1, <1>3, <1>4

\* The segment of a frame is the one whose frames surround it.
LEMMA SegmentOf ==
  ASSUME NEW n \in Nat
  PROVE  /\ n \div SegmentFrames \in Nat
         /\ Start(n \div SegmentFrames) <= n
         /\ n < Start(n \div SegmentFrames) + SegmentFrames
BY FilesAssumption DEF Start

LEMMA SegmentIs ==
  ASSUME NEW n \in Nat, NEW s \in Nat, Start(s) <= n, n < Start(s) + SegmentFrames
  PROVE  n \div SegmentFrames = s
<1> DEFINE q == n \div SegmentFrames
<1>1. q \in Nat /\ Start(q) <= n /\ n < Start(q) + SegmentFrames
  BY SegmentOf
<1>2. Start(q) \in Nat /\ Start(s) \in Nat /\ SegmentFrames \in Nat
  BY <1>1, Starts, FilesAssumption
<1> HIDE DEF q
<1>3. ~(q < s)
  BY <1>1, <1>2, StartsGrow
<1>4. ~(s < q)
  BY <1>1, <1>2, StartsGrow
<1> QED
  BY <1>1, <1>3, <1>4 DEF q

\* A full segment ends where the flush counter comes round.
LEMMA FullIsFlushed ==
  ASSUME FlushDivides, NEW s \in Nat
  PROVE  (Start(s) + SegmentFrames) % FlushEvery = 0
<1>0. FlushEvery \in Nat \ {0} /\ SegmentFrames \in Nat
  BY FilesAssumption DEF FlushDivides
<1> DEFINE p == SegmentFrames \div FlushEvery
<1>1. p \in Nat /\ SegmentFrames = p * FlushEvery
  BY <1>0 DEF FlushDivides
<1> HIDE DEF p
<1>2. Start(s) + SegmentFrames = ((s + 1) * p) * FlushEvery
  BY <1>0, <1>1 DEF Start
<1>3. (s + 1) * p \in Nat
  BY <1>1
<1>4. \A m \in Nat : (m * FlushEvery) % FlushEvery = 0
  BY <1>0
<1> QED
  BY <1>2, <1>3, <1>4

LEMMA CounterSteps ==
  ASSUME FlushDivides, NEW n \in Nat
  PROVE  /\ n % FlushEvery \in Nat
         /\ n % FlushEvery < FlushEvery
         /\ (n + 1) % FlushEvery =
              IF (n % FlushEvery) + 1 = FlushEvery THEN 0 ELSE (n % FlushEvery) + 1
<1>0. FlushEvery \in Nat \ {0}
  BY FilesAssumption DEF FlushDivides
<1> DEFINE q == n \div FlushEvery
           r == n % FlushEvery
<1>1. q \in Nat /\ r \in 0 .. FlushEvery - 1 /\ n = q * FlushEvery + r
  BY <1>0
<1> HIDE DEF q, r
<1>2. \A m \in Nat, x \in 0 .. FlushEvery - 1 : (m * FlushEvery + x) % FlushEvery = x
  BY <1>0
<1>3. CASE r + 1 = FlushEvery
  <2>1. n + 1 = (q + 1) * FlushEvery + 0
    BY <1>0, <1>1, <1>3
  <2>2. (n + 1) % FlushEvery = 0
    BY <1>0, <1>1, <1>2, <2>1
  <2> QED
    BY <1>0, <1>1, <1>3, <2>2 DEF r
<1>4. CASE r + 1 # FlushEvery
  <2>1. n + 1 = q * FlushEvery + (r + 1) /\ r + 1 \in 0 .. FlushEvery - 1
    BY <1>0, <1>1, <1>4
  <2>2. (n + 1) % FlushEvery = r + 1
    BY <1>0, <1>1, <1>2, <2>1
  <2> QED
    BY <1>0, <1>1, <1>4, <2>2 DEF r
<1> QED
  BY <1>3, <1>4

\* The segment of a frame that may still be written exists.
LEMMA SegmentExists ==
  ASSUME NEW n \in Nat, n <= MaxFrames
  PROVE  n \div SegmentFrames \in Segments
<1> DEFINE q == n \div SegmentFrames
           m == MaxFrames \div SegmentFrames
<1>0. MaxFrames \in Nat /\ SegmentFrames \in Nat
  BY FilesAssumption
<1>1. q \in Nat /\ Start(q) <= n
  BY SegmentOf
<1>2. m \in Nat /\ MaxFrames < Start(m) + SegmentFrames
  BY <1>0, SegmentOf
<1> HIDE DEF q, m
<1>3. Start(q) \in Nat /\ Start(m) \in Nat
  BY <1>1, <1>2, Starts
<1>4. ~(m < q)
  BY <1>0, <1>1, <1>2, <1>3, StartsGrow
<1> QED
  BY <1>1, <1>2, <1>4 DEF Segments, q, m

-----------------------------------------------------------------------------
(* The directory.                                                          *)

LEMMA AppendedIs ==
  ASSUME NEW dir \in Dir, NEW c \in Segments, NEW b \in Nat
  PROVE  /\ Appended(dir, c, b) \in Dir
         /\ Appended(dir, c, b)[c].run = dir[c].run
         /\ Appended(dir, c, b)[c].bytes = dir[c].bytes + b
         /\ \A s \in Segments : s # c => Appended(dir, c, b)[s] = dir[s]
<1>1. c # NoSegment
  BY DEF Segments, NoSegment
<1> QED
  BY <1>1 DEF Appended, Dir

LEMMA LayoutAppended ==
  ASSUME NEW dir \in Dir, NEW c \in Segments, NEW b \in Nat, Layout(dir, c)
  PROVE  Layout(Appended(dir, c, b), c)
<1> DEFINE d == Appended(dir, c, b)
<1>0. \A s \in Segments : s \in Int
  BY DEF Segments
<1>1. \A s \in Segments : d[s].run = dir[s].run /\ (s < c => d[s] = dir[s])
  <2>1. \A s \in Segments : s # c => d[s] = dir[s]
    BY AppendedIs
  <2>2. d[c].run = dir[c].run /\ ~(c < c)
    BY <1>0, AppendedIs
  <2> QED
    BY <2>1, <2>2
<1> HIDE DEF d
<1> QED
  BY <1>1 DEF Layout, d

\* The next segment is created when the one before it is full.
LEMMA LayoutOpened ==
  ASSUME NEW dir \in Dir, NEW c \in Segments \union {NoSegment}, NEW n \in Segments,
         n = c + 1, run \in 1 .. MaxRuns, Layout(dir, c),
         c # NoSegment => dir[c].bytes = FrameBytes * SegmentFrames
  PROVE  LET d == [dir EXCEPT ![n] = [run |-> run, bytes |-> 0]]
         IN  d \in Dir /\ d[n].run = run /\ d[n].bytes = 0 /\ Layout(d, n)
<1> DEFINE d == [dir EXCEPT ![n] = [run |-> run, bytes |-> 0]]
<1>1. d \in Dir /\ d[n].run = run /\ d[n].bytes = 0
  BY FilesAssumption DEF Dir
<1>2. \A s \in Segments : s # n => d[s] = dir[s]
  BY DEF Dir
<1>3. \A s \in Segments : s \in Nat /\ dir[s].run \in Nat
  BY FilesAssumption DEF Dir, Segments
<1>4. c \in Int /\ run \in Nat /\ run > 0 /\ n \in Nat
  BY FilesAssumption DEF Segments, NoSegment
<1> HIDE DEF d
<1>5. \A s \in Segments : d[s].run = run <=> s <= n
  BY <1>1, <1>2, <1>3, <1>4 DEF Layout
<1>6. \A s \in Segments : d[s].run <= run
  BY <1>1, <1>2, <1>3, <1>4 DEF Layout
<1>7. \A s \in Segments : s < n => d[s].bytes = FrameBytes * SegmentFrames
  <2> SUFFICES ASSUME NEW s \in Segments, s < n
               PROVE  dir[s].bytes = FrameBytes * SegmentFrames
    BY <1>2, <1>3, <1>4
  <2>1. CASE s = c
    BY <1>3, <2>1 DEF NoSegment
  <2>2. CASE s < c
    BY <2>2 DEF Layout
  <2> QED
    BY <1>3, <1>4, <2>1, <2>2
<1>8. \A s, t \in Segments : s < t /\ d[t].run # 0 => d[s].run >= d[t].run
  <2> SUFFICES ASSUME NEW s \in Segments, NEW t \in Segments, s < t, d[t].run # 0
               PROVE  d[s].run >= d[t].run
    OBVIOUS
  <2>1. CASE s <= n
    BY <1>3, <1>5, <1>6, <2>1, <1>4
  <2>2. CASE n < s
    BY <1>2, <1>3, <1>4, <2>2 DEF Layout
  <2> QED
    BY <1>3, <1>4, <2>1, <2>2
<1> QED
  BY <1>1, <1>5, <1>6, <1>7, <1>8 DEF Layout, d

-----------------------------------------------------------------------------
(* The steps.                                                              *)

LEMMA InitInv == FlushDivides /\ Init => IndInv
<1> SUFFICES ASSUME FlushDivides, Init PROVE IndInv
  OBVIOUS
<1> USE DEF Init
<1>1. TypeOK
  BY FilesAssumption DEF TypeOK, Dir, Absent
<1>2. Layout(files, current_segment)
  BY DEF Layout, Absent, Segments, NoSegment
<1>3. Nothing
  BY DEF Nothing
<1>4. Flushed
  <2>1. FlushEvery \in Nat \ {0}
    BY FilesAssumption DEF FlushDivides
  <2>2. 0 % FlushEvery = 0
    BY <2>1
  <2> QED
    BY <2>2 DEF Flushed
<1> QED
  BY <1>1, <1>2, <1>3, <1>4 DEF IndInv

\* The frame to write goes to segment_id, whatever was done to have it open.
LEMMA WriteDataInv ==
  ASSUME FlushDivides, TypeOK, Flushed, caller = "write", frames_written < MaxFrames,
         NEW dir \in Dir, NEW pending \in Nat,
         Layout(dir, segment_id),
         dir[segment_id].bytes + pending = Due(segment_id),
         confirmed <= frames_written,
         FrameBytes * confirmed <= FrameBytes * Start(segment_id) + dir[segment_id].bytes,
         WriteData(dir, pending), UNCHANGED <<run, confirmed>>
  PROVE  IndInv'
<1> DEFINE q == segment_id
<1>1. /\ q \in Segments /\ q \in Nat /\ q # NoSegment
      /\ Start(q) <= frames_written /\ frames_written < Start(q) + SegmentFrames
      /\ Start(q) \in Nat
  BY SegmentOf, SegmentExists, Starts DEF segment_id, TypeOK, NoSegment
<1>2. /\ frames_written \in Nat /\ confirmed \in Nat /\ writes_since_flush \in Nat
      /\ SegmentFrames \in Nat /\ MaxFrames \in Nat /\ dir[q].bytes \in Nat
  BY <1>1, FilesAssumption DEF TypeOK, Dir
<1>3. PICK left \in 0 .. pending + FrameBytes :
        /\ files' = Appended(dir, q, pending + FrameBytes - left)
        /\ current_segment' = q
        /\ buffered' = left
        /\ \/ /\ stream' = "good"
              /\ frames_written' = frames_written + 1
              /\ writes_since_flush' =
                   IF writes_since_flush + 1 = FlushEvery THEN 0 ELSE writes_since_flush + 1
              /\ caller' = IF writes_since_flush + 1 = FlushEvery THEN "flush" ELSE "write"
           \/ /\ left > 0
              /\ stream' = "failed"
              /\ caller' = "failed"
              /\ UNCHANGED <<frames_written, writes_since_flush>>
  BY DEF WriteData
<1>4. Layout(dir, q) /\ dir[q].bytes + pending = Due(q)
      /\ FrameBytes * confirmed <= FrameBytes * Start(q) + dir[q].bytes
  OBVIOUS
<1> HIDE DEF q
<1> DEFINE b == pending + FrameBytes - left
<1>5. b \in Nat /\ left \in Nat /\ b + left = pending + FrameBytes
  BY DEF FrameBytes
<1> HIDE DEF b
<1>6. /\ files' \in Dir /\ files'[q].bytes = dir[q].bytes + b
      /\ Layout(files', q)
  BY <1>1, <1>3, <1>4, <1>5, AppendedIs, LayoutAppended DEF b
<1>7. TypeOK'
  <2>1. run' \in 1 .. MaxRuns /\ confirmed' \in 0 .. MaxFrames
    BY DEF TypeOK
  <2>2. frames_written' \in 0 .. MaxFrames /\ writes_since_flush' \in Nat
    BY <1>2, <1>3
  <2>3. /\ stream' \in {"closed", "good", "failed"}
        /\ caller' \in {"write", "flush", "finished", "failed", "succeeded", "ended"}
    BY <1>3
  <2>4. buffered' \in Nat /\ current_segment' \in Segments \union {NoSegment}
    BY <1>1, <1>3, <1>5
  <2> QED
    BY <1>6, <2>1, <2>2, <2>3, <2>4 DEF TypeOK, Dir, Segments, NoSegment
<1>8. Layout(files, current_segment)'
  BY <1>3, <1>6 DEF Layout, Segments
<1>9. Opened(current_segment)'
  <2>1. files'[q].bytes + left = FrameBytes * (frames_written - Start(q)) + FrameBytes
    BY <1>1, <1>2, <1>4, <1>5, <1>6 DEF Due, FrameBytes
  <2>2. /\ Start(q) <= frames_written'
        /\ frames_written' <= Start(q) + SegmentFrames
        /\ confirmed' <= frames_written'
    BY <1>1, <1>2, <1>3
  <2>3. FrameBytes * confirmed' <= FrameBytes * Start(q) + files'[q].bytes
    BY <1>1, <1>2, <1>4, <1>5, <1>6 DEF FrameBytes
  <2>4. /\ files'[q].bytes + left <= FrameBytes * SegmentFrames
        /\ FrameBytes * Start(q) + files'[q].bytes + left <= FrameBytes * MaxFrames
    BY <1>1, <1>2, <1>5, <1>6, <2>1 DEF FrameBytes
  <2>5. caller' \in {"write", "flush", "finished", "succeeded"} =>
          files'[q].bytes + left = FrameBytes * (frames_written' - Start(q))
    BY <1>1, <1>2, <1>3, <2>1 DEF FrameBytes
  <2>6. caller' \in {"write", "flush"} => stream' = "good"
    BY <1>3
  <2> QED
    BY <1>3, <2>2, <2>3, <2>4, <2>5, <2>6 DEF Opened, Due, Start, FrameBytes
<1>10. Flushed'
  <2>1. writes_since_flush = frames_written % FlushEvery
    BY DEF Flushed
  <2>2. caller' \in {"write", "flush"} =>
          writes_since_flush' = frames_written' % FlushEvery
    BY <1>2, <1>3, <2>1, CounterSteps
  <2>3. caller' = "flush" => writes_since_flush' = 0
    BY <1>3
  <2>4. ~(caller' = "write" /\ writes_since_flush' = 0)
    BY <1>2, <1>3
  <2>5. caller' \notin {"finished", "succeeded", "ended"}
    BY <1>3
  <2> QED
    BY <2>2, <2>3, <2>4, <2>5 DEF Flushed
<1>11. current_segment' # NoSegment
  BY <1>1, <1>3
<1> QED
  BY <1>7, <1>8, <1>9, <1>10, <1>11 DEF IndInv, NoSegment

LEMMA WriteInv ==
  ASSUME FlushDivides, IndInv, write
  PROVE  IndInv'
<1> DEFINE c == current_segment
           q == segment_id
<1>1. /\ TypeOK /\ Flushed /\ Layout(files, c)
      /\ c = NoSegment => Nothing
      /\ c # NoSegment => Opened(c)
  BY DEF IndInv
<1>2. /\ caller = "write" /\ frames_written < MaxFrames /\ UNCHANGED <<run, confirmed>>
  BY DEF write
<1>3. /\ q \in Segments /\ q \in Nat /\ q # NoSegment
      /\ Start(q) <= frames_written /\ frames_written < Start(q) + SegmentFrames
      /\ Start(q) \in Nat
  BY <1>1, <1>2, SegmentOf, SegmentExists, Starts DEF segment_id, TypeOK, NoSegment
<1>4. /\ frames_written \in Nat /\ confirmed \in Nat /\ buffered \in Nat
      /\ SegmentFrames \in Nat \ {0} /\ files \in Dir /\ run \in 1 .. MaxRuns
      /\ c \in Segments \union {NoSegment}
  BY <1>1, FilesAssumption DEF TypeOK
<1>5. c # NoSegment => stream = "good"
  BY <1>1, <1>2 DEF Opened
<1>6. CASE q = c
  <2>1. WriteData(files, buffered)
    BY <1>3, <1>5, <1>6 DEF write
  <2>2. Opened(q)
    BY <1>1, <1>3, <1>6
  <2>3. /\ files[q].bytes + buffered = Due(q) /\ confirmed <= frames_written
        /\ FrameBytes * confirmed <= FrameBytes * Start(q) + files[q].bytes
    BY <1>2, <2>2 DEF Opened
  <2> QED
    BY <1>1, <1>2, <1>4, <1>6, <2>1, <2>3, WriteDataInv
<1>7. CASE q # c
  <2>1. PICK left \in 0 .. buffered :
          \/ WriteData([Appended(files, c, buffered - left) EXCEPT
                          ![q] = [run |-> run, bytes |-> 0]], 0)
          \/ /\ files' = Appended(files, c, buffered - left)
             /\ stream' = "failed"
             /\ buffered' = 0
             /\ caller' = "failed"
             /\ UNCHANGED <<current_segment, frames_written, writes_since_flush>>
    BY <1>7 DEF write
  <2> DEFINE closed == Appended(files, c, buffered - left)
             new == [closed EXCEPT ![q] = [run |-> run, bytes |-> 0]]
  <2>2. /\ q = c + 1 /\ buffered = 0 /\ confirmed <= frames_written
        /\ frames_written = Start(q)
        /\ c # NoSegment => files[c].bytes = FrameBytes * SegmentFrames
    <3>1. CASE c = NoSegment
      <4>1. Nothing
        BY <1>1, <3>1
      <4>2. frames_written = Start(0)
        BY <4>1, Starts DEF Nothing
      <4>3. q = 0
        BY <1>4, <4>2, SegmentIs DEF segment_id
      <4> QED
        BY <3>1, <4>1, <4>2, <4>3 DEF Nothing, NoSegment
    <3>2. CASE c # NoSegment
      <4>1. Opened(c) /\ c \in Nat /\ c \in Segments
        BY <1>1, <1>4, <3>2 DEF Segments
      <4>2. Start(c) \in Nat /\ Start(c + 1) = Start(c) + SegmentFrames
        BY <4>1, Starts
      <4>3. frames_written = Start(c) + SegmentFrames
        <5>1. Start(c) <= frames_written /\ frames_written <= Start(c) + SegmentFrames
          BY <4>1 DEF Opened
        <5>2. frames_written < Start(c) + SegmentFrames => q = c
          BY <1>4, <4>1, <5>1, SegmentIs DEF segment_id
        <5> QED
          BY <1>4, <1>7, <4>2, <5>1, <5>2
      <4>4. q = c + 1
        BY <1>4, <4>1, <4>2, <4>3, SegmentIs DEF segment_id
      <4>5. buffered = 0
        BY <1>1, <1>2, <4>1, <4>3, FullIsFlushed DEF Flushed
      <4>6. files[c].bytes + buffered = FrameBytes * (frames_written - Start(c))
        BY <1>2, <4>1 DEF Opened, Due
      <4>7. files[c].bytes \in Nat
        BY <1>4, <4>1 DEF Dir
      <4>8. files[c].bytes = FrameBytes * SegmentFrames
        BY <1>4, <4>2, <4>3, <4>5, <4>6, <4>7
      <4>9. confirmed <= frames_written
        BY <4>1 DEF Opened
      <4> QED
        BY <4>2, <4>3, <4>4, <4>5, <4>8, <4>9
    <3> QED
      BY <3>1, <3>2
  <2>3. closed = files
    <3>1. buffered - left = 0
      <4>1. left \in 0 .. 0 /\ buffered = 0
        BY <2>2
      <4>2. \A x \in 0 .. 0 : x = 0
        OBVIOUS
      <4>3. left = 0 /\ buffered = 0
        BY <4>1, <4>2
      <4>4. 0 - 0 = 0
        OBVIOUS
      <4> QED
        BY <4>3, <4>4, Zenon
    <3>2. \A s \in Segments : files[s].bytes \in Nat
      BY <1>4 DEF Dir
    <3> QED
      BY <1>4, <3>1, <3>2 DEF Appended, Dir
  <2>4. CASE WriteData(new, 0)
    <3>1. /\ new \in Dir /\ new[q].bytes = 0 /\ Layout(new, q)
      BY <1>1, <1>3, <1>4, <2>2, <2>3, LayoutOpened
    <3>2. new[q].bytes + 0 = Due(q)
      BY <1>3, <2>2, <3>1 DEF Due, FrameBytes
    <3>3. FrameBytes * confirmed <= FrameBytes * Start(q) + new[q].bytes
      BY <1>3, <1>4, <2>2, <3>1 DEF FrameBytes
    <3> HIDE DEF new
    <3> QED
      BY <1>1, <1>2, <2>2, <2>4, <3>1, <3>2, <3>3, WriteDataInv
  <2>5. CASE /\ files' = closed
             /\ stream' = "failed"
             /\ buffered' = 0
             /\ caller' = "failed"
             /\ UNCHANGED <<current_segment, frames_written, writes_since_flush>>
    <3> HIDE DEF closed
    <3>1. files' = files /\ buffered' = buffered /\ UNCHANGED <<run, confirmed, current_segment>>
      BY <1>2, <2>2, <2>3, <2>5
    <3>2. TypeOK'
      BY <1>1, <2>5, <3>1 DEF TypeOK, Dir, Segments, NoSegment
    <3>3. Layout(files, current_segment)'
      BY <1>1, <3>1 DEF Layout, Segments
    <3>4. current_segment' = NoSegment => Nothing'
      BY <1>1, <2>5, <3>1 DEF Nothing, NoSegment
    <3>5. current_segment' # NoSegment => Opened(current_segment)'
      BY <1>1, <2>5, <3>1 DEF Opened, NoSegment, Start, FrameBytes
    <3>6. Flushed'
      BY <2>5 DEF Flushed
    <3> QED
      BY <3>2, <3>3, <3>4, <3>5, <3>6 DEF IndInv, NoSegment
  <2> QED
    BY <2>1, <2>4, <2>5
<1> QED
  BY <1>6, <1>7

\* What is buffered reaches the file in part, with no other change to the
\* directory: the flushes and the end of the process.
LEMMA Drained ==
  ASSUME IndInv, NEW left \in 0 .. buffered,
         files' = Appended(files, current_segment, buffered - left),
         UNCHANGED <<current_segment, frames_written, run>>,
         buffered' \in 0 .. left
  PROVE  /\ files' \in Dir /\ buffered' \in Nat /\ left \in Nat
         /\ Layout(files, current_segment)'
         /\ current_segment = NoSegment => left = 0 /\ frames_written = 0 /\ confirmed = 0
         /\ current_segment # NoSegment =>
              /\ current_segment \in Segments
              /\ files'[current_segment].bytes \in Nat
              /\ files'[current_segment].bytes + left =
                   files[current_segment].bytes + buffered
              /\ files[current_segment].bytes <= files'[current_segment].bytes
<1> DEFINE c == current_segment
           b == buffered - left
<1>1. /\ TypeOK /\ Layout(files, c) /\ (c = NoSegment => Nothing)
  BY DEF IndInv
<1>2. /\ files \in Dir /\ buffered \in Nat /\ c \in Segments \union {NoSegment}
  BY <1>1 DEF TypeOK
<1>3. b \in Nat /\ left \in Nat /\ b + left = buffered /\ buffered' \in Nat
  BY <1>2
<1> HIDE DEF b
<1>4. CASE c = NoSegment
  <2>1. files' = files /\ Nothing
    BY <1>1, <1>4 DEF Appended, b
  <2>2. Layout(files, current_segment)'
    BY <1>1, <2>1 DEF Layout, Segments
  <2> QED
    BY <1>2, <1>3, <1>4, <2>1, <2>2 DEF Nothing
<1>5. CASE c # NoSegment
  <2>1. c \in Segments
    BY <1>2, <1>5
  <2>2. /\ files' \in Dir /\ files'[c].bytes = files[c].bytes + b /\ Layout(files', c)
    BY <1>1, <1>2, <1>3, <2>1, AppendedIs, LayoutAppended DEF b
  <2>3. files[c].bytes \in Nat
    BY <1>2, <2>1 DEF Dir
  <2>4. Layout(files, current_segment)'
    BY <2>2 DEF Layout, Segments
  <2> QED
    BY <1>3, <1>5, <2>1, <2>2, <2>3, <2>4
<1> QED
  BY <1>4, <1>5

LEMMA FlushingInv ==
  ASSUME FlushDivides, IndInv, caller \in {"write", "flush"},
         NEW next_step \in {"write", "finished"}, next_step = "write" => caller = "flush",
         Flushing(next_step),
         UNCHANGED <<current_segment, frames_written, writes_since_flush, run>>
  PROVE  IndInv'
<1> DEFINE c == current_segment
<1>1. /\ TypeOK /\ Flushed /\ (c # NoSegment => Opened(c))
  BY DEF IndInv
<1>2. PICK left \in 0 .. buffered :
        /\ files' = Appended(files, c, buffered - left)
        /\ buffered' = left
        /\ \/ /\ left = 0
              /\ caller' = next_step
              /\ confirmed' = frames_written
              /\ UNCHANGED stream
           \/ /\ left > 0
              /\ stream' = "failed"
              /\ caller' = "failed"
              /\ UNCHANGED confirmed
  BY DEF Flushing
<1>3. buffered' \in 0 .. left
  BY <1>1, <1>2 DEF TypeOK
<1>4. /\ files' \in Dir /\ buffered' \in Nat /\ left \in Nat
      /\ Layout(files, current_segment)'
      /\ c = NoSegment => left = 0 /\ frames_written = 0 /\ confirmed = 0
      /\ c # NoSegment =>
           /\ c \in Segments
           /\ files'[c].bytes \in Nat
           /\ files'[c].bytes + left = files[c].bytes + buffered
           /\ files[c].bytes <= files'[c].bytes
  BY <1>2, <1>3, Drained
<1>5. /\ frames_written \in Nat /\ confirmed \in Nat /\ SegmentFrames \in Nat
      /\ MaxFrames \in Nat /\ buffered \in Nat
  BY <1>1, FilesAssumption DEF TypeOK
<1>6. TypeOK'
  <2>1. confirmed' \in 0 .. MaxFrames
    BY <1>1, <1>2 DEF TypeOK
  <2>2. /\ stream' \in {"closed", "good", "failed"}
        /\ caller' \in {"write", "flush", "finished", "failed", "succeeded", "ended"}
    BY <1>1, <1>2 DEF TypeOK
  <2> QED
    BY <1>1, <1>4, <2>1, <2>2 DEF TypeOK, Dir, Segments, NoSegment
<1>7. current_segment' = NoSegment => Nothing'
  BY <1>2, <1>4 DEF Nothing, NoSegment
<1>8. ASSUME c # NoSegment PROVE Opened(current_segment)'
  <2>1. /\ Opened(c) /\ c \in Nat /\ files[c].bytes \in Nat /\ files'[c].bytes \in Nat
        /\ files'[c].bytes + left = files[c].bytes + buffered
        /\ files[c].bytes <= files'[c].bytes
    BY <1>1, <1>4, <1>8 DEF TypeOK, Dir, Segments
  <2>2. Start(c) \in Nat
    BY <2>1, Starts
  <2>3. /\ Start(c) <= frames_written
        /\ frames_written <= Start(c) + SegmentFrames
        /\ confirmed' <= frames_written
    BY <1>2, <1>5, <2>1 DEF Opened
  <2>4. files[c].bytes + buffered = FrameBytes * (frames_written - Start(c))
    BY <2>1 DEF Opened, Due
  <2>5. FrameBytes * confirmed' <= FrameBytes * Start(c) + files'[c].bytes
    <3>1. CASE left = 0 /\ confirmed' = frames_written
      BY <1>5, <2>1, <2>2, <2>4, <3>1 DEF FrameBytes
    <3>2. CASE confirmed' = confirmed
      BY <1>5, <2>1, <2>2, <3>2 DEF Opened, FrameBytes
    <3> QED
      BY <1>2, <3>1, <3>2
  <2>6. /\ files'[c].bytes + left <= FrameBytes * SegmentFrames
        /\ FrameBytes * Start(c) + files'[c].bytes + left <= FrameBytes * MaxFrames
    BY <1>4, <1>5, <2>1, <2>2 DEF Opened, FrameBytes
  <2>7. files'[c].bytes + left = FrameBytes * (frames_written - Start(c))
    BY <2>1, <2>4
  <2>8. caller' \in {"write", "flush"} => stream' = "good"
    BY <1>2, <2>1 DEF Opened
  <2> QED
    BY <1>2, <2>3, <2>5, <2>6, <2>7, <2>8 DEF Opened, Due, Start, FrameBytes
<1>9. Flushed'
  BY <1>1, <1>2 DEF Flushed
<1> QED
  BY <1>4, <1>6, <1>7, <1>8, <1>9 DEF IndInv, NoSegment

LEMMA ExitInv ==
  ASSUME FlushDivides, IndInv, Exit
  PROVE  IndInv'
<1> DEFINE c == current_segment
<1>1. /\ TypeOK /\ Flushed /\ (c # NoSegment => Opened(c))
  BY DEF IndInv
<1>2. /\ caller \in {"finished", "failed"}
      /\ stream' = "closed" /\ buffered' = 0
      /\ caller' = IF caller = "finished" THEN "succeeded" ELSE "ended"
      /\ UNCHANGED <<current_segment, frames_written, writes_since_flush, run, confirmed>>
  BY DEF Exit
<1>3. PICK left \in 0 .. buffered : files' = Appended(files, c, buffered - left)
  BY DEF Exit
<1>4. buffered' \in 0 .. left
  BY <1>1, <1>2, <1>3 DEF TypeOK
<1>5. /\ files' \in Dir /\ left \in Nat
      /\ Layout(files, current_segment)'
      /\ c = NoSegment => left = 0 /\ frames_written = 0 /\ confirmed = 0
      /\ c # NoSegment =>
           /\ c \in Segments
           /\ files'[c].bytes \in Nat
           /\ files'[c].bytes + left = files[c].bytes + buffered
           /\ files[c].bytes <= files'[c].bytes
  BY <1>2, <1>3, <1>4, Drained
<1>6. /\ frames_written \in Nat /\ confirmed \in Nat /\ SegmentFrames \in Nat
      /\ MaxFrames \in Nat /\ buffered \in Nat
  BY <1>1, FilesAssumption DEF TypeOK
<1>7. TypeOK'
  BY <1>1, <1>2, <1>5 DEF TypeOK, Dir, Segments, NoSegment
<1>8. current_segment' = NoSegment => Nothing'
  BY <1>2, <1>5 DEF Nothing, NoSegment
<1>9. ASSUME c # NoSegment PROVE Opened(current_segment)'
  <2>1. /\ Opened(c) /\ c \in Nat /\ files[c].bytes \in Nat /\ files'[c].bytes \in Nat
        /\ files'[c].bytes + left = files[c].bytes + buffered
        /\ files[c].bytes <= files'[c].bytes
    BY <1>1, <1>5, <1>9 DEF TypeOK, Dir, Segments
  <2>2. Start(c) \in Nat
    BY <2>1, Starts
  <2>3. /\ FrameBytes * confirmed <= FrameBytes * Start(c) + files'[c].bytes
        /\ files'[c].bytes <= FrameBytes * SegmentFrames
        /\ FrameBytes * Start(c) + files'[c].bytes <= FrameBytes * MaxFrames
    BY <1>5, <1>6, <2>1, <2>2 DEF Opened, FrameBytes
  <2>4. caller = "finished" => files'[c].bytes = FrameBytes * (frames_written - Start(c))
    <3>1. caller = "finished" => buffered = 0
      BY <1>1 DEF Flushed
    <3>2. caller = "finished" =>
            files[c].bytes + buffered = FrameBytes * (frames_written - Start(c))
      BY <2>1 DEF Opened, Due
    <3> QED
      BY <1>5, <1>6, <2>1, <3>1, <3>2
  <2>5. /\ Start(c) <= frames_written /\ frames_written <= Start(c) + SegmentFrames
        /\ confirmed <= frames_written
    BY <2>1 DEF Opened
  <2>6. caller' \in {"write", "flush", "finished", "succeeded"} => caller = "finished"
    BY <1>2
  <2>7. caller' \notin {"write", "flush"}
    BY <1>2
  <2>8. files'[c].bytes + 0 = files'[c].bytes
        /\ FrameBytes * Start(c) + files'[c].bytes + 0 = FrameBytes * Start(c) + files'[c].bytes
    BY <2>1, <2>2 DEF FrameBytes
  <2> QED
    BY <1>2, <2>3, <2>4, <2>5, <2>6, <2>7, <2>8 DEF Opened, Due, Start, FrameBytes
<1>10. Flushed'
  BY <1>2 DEF Flushed
<1> QED
  BY <1>2, <1>5, <1>7, <1>8, <1>9, <1>10 DEF IndInv, NoSegment

LEMMA CrashInv ==
  ASSUME FlushDivides, IndInv, Crash
  PROVE  IndInv'
<1> DEFINE c == current_segment
<1>1. /\ TypeOK /\ Flushed /\ (c # NoSegment => Opened(c)) /\ Layout(files, c)
      /\ c = NoSegment => Nothing
  BY DEF IndInv
<1>2. /\ stream' = "closed" /\ buffered' = 0 /\ caller' = "ended"
      /\ UNCHANGED <<files, current_segment, frames_written, writes_since_flush, run, confirmed>>
  BY DEF Crash
<1>3. TypeOK'
  BY <1>1, <1>2 DEF TypeOK, Dir, Segments, NoSegment
<1>4. Layout(files, current_segment)'
  BY <1>1, <1>2 DEF Layout, Segments
<1>5. current_segment' = NoSegment => Nothing'
  BY <1>1, <1>2 DEF Nothing, NoSegment
<1>6. ASSUME c # NoSegment PROVE Opened(current_segment)'
  <2>1. /\ Opened(c) /\ c \in Nat /\ files[c].bytes \in Nat /\ buffered \in Nat
        /\ SegmentFrames \in Nat /\ MaxFrames \in Nat
    BY <1>1, <1>6, FilesAssumption DEF TypeOK, Dir, Segments
  <2>2. Start(c) \in Nat
    BY <2>1, Starts
  <2>3. /\ files[c].bytes + 0 <= FrameBytes * SegmentFrames
        /\ FrameBytes * Start(c) + files[c].bytes + 0 <= FrameBytes * MaxFrames
    BY <2>1, <2>2 DEF Opened, FrameBytes
  <2> QED
    BY <1>2, <2>1, <2>3 DEF Opened, Due, Start, FrameBytes
<1>7. Flushed'
  BY <1>2 DEF Flushed
<1> QED
  BY <1>2, <1>3, <1>4, <1>5, <1>6, <1>7 DEF IndInv, NoSegment

\* What an earlier process left is older than what the new one will write.
LEMMA RestartInv ==
  ASSUME FlushDivides, IndInv, Restart
  PROVE  IndInv'
<1>1. /\ TypeOK /\ Layout(files, current_segment)
  BY DEF IndInv
<1>2. /\ run' = run + 1 /\ run < MaxRuns /\ files' = files
      /\ current_segment' = NoSegment /\ stream' = "closed" /\ buffered' = 0
      /\ frames_written' = 0 /\ writes_since_flush' = 0 /\ caller' = "write"
      /\ confirmed' = 0
  BY DEF Restart, Fresh
<1>3. TypeOK'
  BY <1>1, <1>2, FilesAssumption DEF TypeOK, Dir, Segments, NoSegment
<1>4. Layout(files, current_segment)'
  <2>1. \A s \in Segments : s \in Nat /\ files[s].run \in Nat /\ files[s].run <= run
    BY <1>1 DEF TypeOK, Layout, Dir, Segments
  <2>2. run \in Nat
    BY <1>1 DEF TypeOK
  <2>3. \A s \in Segments : files[s].run = run + 1 <=> s <= NoSegment
    BY <2>1, <2>2 DEF NoSegment
  <2>4. \A s \in Segments : files[s].run <= run + 1
    BY <2>1, <2>2
  <2>5. \A s \in Segments : ~(s < NoSegment)
    BY <2>1 DEF NoSegment
  <2>6. \A s, t \in Segments : s < t /\ files[t].run # 0 => files[s].run >= files[t].run
    BY <1>1 DEF Layout
  <2> QED
    BY <1>2, <2>3, <2>4, <2>5, <2>6 DEF Layout, NoSegment, Segments
<1>5. Nothing'
  BY <1>2 DEF Nothing
<1>6. Flushed'
  <2>1. FlushEvery \in Nat \ {0}
    BY FilesAssumption DEF FlushDivides
  <2>2. 0 % FlushEvery = 0
    BY <2>1
  <2> QED
    BY <1>2, <2>2 DEF Flushed
<1> QED
  BY <1>2, <1>3, <1>4, <1>5, <1>6 DEF IndInv, NoSegment

LEMMA NextInv == FlushDivides /\ IndInv /\ [Next]_vars => IndInv'
<1> SUFFICES ASSUME FlushDivides, IndInv, [Next]_vars PROVE IndInv'
  OBVIOUS
<1>1. CASE write
  BY <1>1, WriteInv
<1>2. CASE flush
  BY <1>2, FlushingInv DEF flush
<1>3. CASE FinalFlush
  BY <1>3, FlushingInv DEF FinalFlush
<1>4. CASE Exit
  BY <1>4, ExitInv
<1>5. CASE Crash
  BY <1>5, CrashInv
<1>6. CASE Restart
  BY <1>6, RestartInv
<1>7. CASE UNCHANGED vars
  <2>1. UNCHANGED <<files, current_segment, stream, buffered, frames_written,
                    writes_since_flush, caller, run, confirmed>>
    BY <1>7 DEF vars, writer
  <2>2. /\ TypeOK /\ Layout(files, current_segment) /\ Flushed
        /\ current_segment = NoSegment => Nothing
        /\ current_segment # NoSegment => Opened(current_segment)
    BY DEF IndInv
  <2>3. TypeOK'
    BY <2>1, <2>2 DEF TypeOK, Dir, Segments, NoSegment
  <2>4. Layout(files, current_segment)'
    BY <2>1, <2>2 DEF Layout, Segments
  <2>5. /\ current_segment' = NoSegment => Nothing'
        /\ current_segment' # NoSegment => Opened(current_segment)'
    BY <2>1, <2>2 DEF Nothing, Opened, Due, Start, NoSegment, FrameBytes
  <2>6. Flushed'
    BY <2>1, <2>2 DEF Flushed
  <2> QED
    BY <2>3, <2>4, <2>5, <2>6 DEF IndInv, NoSegment
<1> QED
  BY <1>1, <1>2, <1>3, <1>4, <1>5, <1>6, <1>7 DEF Next

-----------------------------------------------------------------------------
(* What the reader delivers.                                               *)

LEMMA DeliveredIs ==
  ASSUME IndInv
  PROVE  /\ current_segment = NoSegment => Delivered(run) = {}
         /\ current_segment # NoSegment =>
              /\ Start(current_segment) + Whole(current_segment) \in Nat
              /\ Delivered(run) = 1 .. Start(current_segment) + Whole(current_segment)
<1> DEFINE c == current_segment
<1>1. /\ TypeOK /\ Layout(files, c) /\ c \in Segments \union {NoSegment}
      /\ c # NoSegment => Opened(c)
  BY DEF IndInv, TypeOK
<1>2. SegmentFrames \in Nat \ {0}
  BY FilesAssumption
<1>3. \A s \in Segments : s \in Nat /\ files[s].bytes \in Nat /\ Whole(s) \in Nat
  BY <1>1 DEF TypeOK, Dir, Segments, Whole, FrameBytes
<1>4. \A s \in Segments : files[s].run = run <=> s <= c
  BY <1>1 DEF Layout
<1>5. \A s \in Segments : s < c => Whole(s) = SegmentFrames
  BY <1>1, <1>2, <1>3 DEF Layout, Whole, FrameBytes
<1>6. \A x : x \in Delivered(run) <=>
        \E s \in Segments : files[s].run = run /\ \E i \in 1 .. Whole(s) : x = Start(s) + i
  BY DEF Delivered, Start
<1>7. CASE c = NoSegment
  BY <1>3, <1>4, <1>6, <1>7 DEF NoSegment
<1>8. CASE c # NoSegment
  <2>1. c \in Segments /\ c \in Nat /\ Start(c) \in Nat /\ Whole(c) \in Nat
    BY <1>1, <1>3, <1>8, Starts
  <2>2. ASSUME NEW x \in Delivered(run) PROVE x \in 1 .. Start(c) + Whole(c)
    <3>1. PICK s \in Segments : files[s].run = run /\ \E i \in 1 .. Whole(s) : x = Start(s) + i
      BY <1>6, <2>2
    <3>2. PICK i \in 1 .. Whole(s) : x = Start(s) + i
      BY <3>1
    <3>3. s <= c /\ s \in Nat /\ Start(s) \in Nat
      BY <1>3, <1>4, <3>1, Starts
    <3>4. CASE s = c
      BY <2>1, <3>2, <3>4
    <3>5. CASE s < c
      <4>1. Whole(s) = SegmentFrames /\ Start(s) + SegmentFrames <= Start(c)
        BY <1>5, <2>1, <3>3, <3>5, StartsGrow
      <4> QED
        BY <1>2, <2>1, <3>2, <3>3, <4>1
    <3> QED
      BY <2>1, <3>3, <3>4, <3>5
  <2>3. ASSUME NEW x \in 1 .. Start(c) + Whole(c) PROVE x \in Delivered(run)
    <3>1. CASE x > Start(c)
      <4>1. x - Start(c) \in 1 .. Whole(c) /\ x = Start(c) + (x - Start(c))
        BY <2>1, <3>1
      <4>2. files[c].run = run
        BY <1>4, <2>1
      <4> QED
        BY <1>6, <2>1, <4>1, <4>2
    <3>2. CASE x <= Start(c)
      <4> DEFINE s == (x - 1) \div SegmentFrames
      <4>1. x - 1 \in Nat /\ x \in Nat
        BY <2>1
      <4>2. s \in Nat /\ Start(s) <= x - 1 /\ x - 1 < Start(s) + SegmentFrames
        BY <4>1, SegmentOf
      <4> HIDE DEF s
      <4>3. Start(s) \in Nat
        BY <4>2, Starts
      <4>4. ~(c < s) /\ s # c
        <5>1. Start(s) < Start(c)
          BY <2>1, <3>2, <4>1, <4>2, <4>3
        <5>2. ~(c < s)
          BY <1>2, <2>1, <4>2, <4>3, <5>1, StartsGrow
        <5>3. s # c
          BY <2>1, <5>1
        <5> QED
          BY <5>2, <5>3
      <4>5. s < c /\ s \in Segments
        <5>1. s < c
          BY <2>1, <4>2, <4>4
        <5>2. MaxFrames \div SegmentFrames \in Int
          BY FilesAssumption
        <5> QED
          BY <2>1, <4>2, <5>1, <5>2 DEF Segments
      <4>6. files[s].run = run /\ Whole(s) = SegmentFrames
        BY <1>4, <1>5, <2>1, <4>5, <4>2
      <4>7. x - Start(s) \in 1 .. Whole(s) /\ x = Start(s) + (x - Start(s))
        BY <1>2, <4>1, <4>2, <4>3, <4>6
      <4> QED
        BY <1>6, <4>5, <4>6, <4>7
    <3> QED
      BY <2>1, <3>1, <3>2
  <2>4. Start(c) + Whole(c) \in Nat
    BY <2>1
  <2>5. Delivered(run) = 1 .. Start(c) + Whole(c)
    BY <2>2, <2>3
  <2> QED
    BY <1>8, <2>4, <2>5
<1> QED
  BY <1>7, <1>8

LEMMA InvConfirmed == IndInv => ConfirmedIsReadable
<1> SUFFICES ASSUME IndInv PROVE 1 .. confirmed \subseteq Delivered(run)
  BY DEF ConfirmedIsReadable
<1> DEFINE c == current_segment
<1>1. /\ c = NoSegment => confirmed = 0
      /\ c # NoSegment => FrameBytes * confirmed <= FrameBytes * Start(c) + files[c].bytes
  BY DEF IndInv, Nothing, Opened
<1>2. /\ confirmed \in Nat
      /\ c # NoSegment => c \in Nat /\ files[c].bytes \in Nat /\ Start(c) \in Nat
  <2>1. /\ confirmed \in Nat /\ files \in Dir /\ c \in Segments \union {NoSegment}
    BY FilesAssumption DEF IndInv, TypeOK
  <2>2. \A s \in Segments : s \in Nat /\ files[s].bytes \in Nat
    BY <2>1 DEF Dir, Segments
  <2> QED
    BY <2>1, <2>2, Starts
<1>3. CASE c = NoSegment
  <2>1. 1 .. confirmed = {}
    BY <1>1, <1>3
  <2> QED
    BY <2>1
<1>4. CASE c # NoSegment
  <2>1. confirmed <= Start(c) + Whole(c)
    BY <1>1, <1>2, <1>4 DEF Whole, FrameBytes
  <2>2. Start(c) + Whole(c) \in Nat /\ Delivered(run) = 1 .. Start(c) + Whole(c)
    BY <1>4, DeliveredIs
  <2> QED
    BY <1>2, <2>1, <2>2
<1> QED
  BY <1>3, <1>4

LEMMA InvPrefix == IndInv => RunIsPrefix
<1> SUFFICES ASSUME IndInv PROVE \E n \in 0 .. MaxFrames : Delivered(run) = 1 .. n
  BY DEF RunIsPrefix
<1> DEFINE c == current_segment
<1>1. MaxFrames \in Nat
  BY FilesAssumption
<1>2. CASE c = NoSegment
  <2>1. Delivered(run) = 1 .. 0
    BY <1>2, DeliveredIs
  <2>2. 0 \in 0 .. MaxFrames
    BY <1>1
  <2> QED
    BY <2>1, <2>2
<1>3. CASE c # NoSegment
  <2>1. /\ FrameBytes * Start(c) + files[c].bytes + buffered <= FrameBytes * MaxFrames
        /\ buffered \in Nat /\ c \in Nat /\ files[c].bytes \in Nat /\ Start(c) \in Nat
    <3>1. buffered \in Nat /\ files \in Dir /\ c \in Segments
      BY <1>3 DEF IndInv, TypeOK
    <3>2. c \in Nat /\ files[c].bytes \in Nat
      BY <3>1 DEF Dir, Segments
    <3>3. Start(c) \in Nat
      BY <3>2, Starts
    <3>4. FrameBytes * Start(c) + files[c].bytes + buffered <= FrameBytes * MaxFrames
      BY <1>3 DEF IndInv, Opened
    <3> QED
      BY <3>1, <3>2, <3>3, <3>4
  <2>2. Start(c) + Whole(c) \in 0 .. MaxFrames
    BY <1>1, <2>1 DEF Whole, FrameBytes
  <2> QED
    BY <1>3, <2>2, DeliveredIs
<1> QED
  BY <1>2, <1>3

LEMMA InvSuccess == IndInv => SuccessIsComplete
<1> SUFFICES ASSUME IndInv, caller = "succeeded"
             PROVE  /\ Delivered(run) = 1 .. frames_written
                    /\ \A s \in Segments : files[s].run = run => trailing_bytes(s) = 0
  BY DEF SuccessIsComplete
<1> DEFINE c == current_segment
<1>1. /\ TypeOK /\ Layout(files, c) /\ c \in Segments \union {NoSegment}
      /\ \A s \in Segments : s \in Nat
  BY DEF IndInv, TypeOK, Segments
<1>2. CASE c = NoSegment
  <2>1. Delivered(run) = {} /\ frames_written = 0
    BY <1>2, DeliveredIs DEF IndInv, Nothing
  <2>2. \A s \in Segments : files[s].run # run
    BY <1>1, <1>2 DEF Layout, NoSegment
  <2> QED
    BY <2>1, <2>2
<1>3. CASE c # NoSegment
  <2>1. /\ c \in Segments /\ c \in Nat /\ files[c].bytes \in Nat /\ Start(c) \in Nat
        /\ frames_written \in Nat /\ SegmentFrames \in Nat
    BY <1>1, <1>3, Starts, FilesAssumption DEF TypeOK, Dir
  <2>2. /\ buffered = 0 /\ Start(c) <= frames_written
        /\ files[c].bytes + buffered = FrameBytes * (frames_written - Start(c))
    BY <1>3 DEF IndInv, Flushed, Opened, Due
  <2>3. files[c].bytes = 2 * (frames_written - Start(c)) /\ frames_written - Start(c) \in Nat
    BY <2>1, <2>2 DEF FrameBytes
  <2>4. Start(c) + Whole(c) = frames_written
    BY <2>1, <2>3 DEF Whole, FrameBytes
  <2>5. trailing_bytes(c) = 0
    BY <2>3 DEF trailing_bytes, FrameBytes
  <2>6. \A s \in Segments : s < c => trailing_bytes(s) = 0
    <3>1. \A s \in Segments : s < c => files[s].bytes = 2 * SegmentFrames
      BY <1>1 DEF Layout, FrameBytes
    <3>2. (2 * SegmentFrames) % 2 = 0
      BY <2>1
    <3> QED
      BY <3>1, <3>2 DEF trailing_bytes, FrameBytes
  <2>7. \A s \in Segments : files[s].run = run => s <= c
    BY <1>1 DEF Layout
  <2>8. Delivered(run) = 1 .. frames_written
    BY <1>3, <2>4, DeliveredIs
  <2> QED
    BY <1>1, <2>1, <2>5, <2>6, <2>7, <2>8
<1> QED
  BY <1>1, <1>2, <1>3

-----------------------------------------------------------------------------
(* The theorems.  The flush period of the capture worker, 200, divides the *)
(* 10000 frames of a segment; the loop of --save-sent does not satisfy     *)
(* the hypothesis, and SuccessIsComplete fails for it.                     *)

\* The inductive invariant holds in every state.
THEOREM Invariance == FlushDivides /\ Spec => []IndInv
<1> SUFFICES ASSUME FlushDivides PROVE Spec => []IndInv
  OBVIOUS
<1>1. Init => IndInv
  BY InitInv
<1>2. IndInv /\ [Next]_vars => IndInv'
  BY NextInv
<1> QED
  BY <1>1, <1>2, PTL DEF Spec

\* The variables of the writer, of its caller and of the directory have their
\* types.
THEOREM TypeCorrect == FlushDivides /\ Spec => []TypeOK
<1>1. IndInv => TypeOK
  BY DEF IndInv
<1> QED
  BY <1>1, Invariance, PTL

\* What CaptureWriter::flush confirmed can be read back, whatever fails or
\* crashes afterwards.
THEOREM ConfirmedReadable == FlushDivides /\ Spec => []ConfirmedIsReadable
  BY InvConfirmed, Invariance, PTL

\* What CaptureReader delivers of a process is a prefix of what it wrote.
THEOREM RunPrefix == FlushDivides /\ Spec => []RunIsPrefix
  BY InvPrefix, Invariance, PTL

\* A process that reports success left every frame it wrote.
THEOREM SuccessComplete == FlushDivides /\ Spec => []SuccessIsComplete
  BY InvSuccess, Invariance, PTL

\* In the order of the segments, old captures come after newer ones.
THEOREM StaleAfter == FlushDivides /\ Spec => []StaleOnlyAfter
<1>1. IndInv => StaleOnlyAfter
  BY DEF IndInv, Layout, StaleOnlyAfter
<1> QED
  BY <1>1, Invariance, PTL
=============================================================================
