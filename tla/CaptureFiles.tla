---------------------------- MODULE CaptureFiles ----------------------------
(***************************************************************************)
(* Capture files at rest: common/capture_writer.cpp, the loops that call   *)
(* it (the capture worker of receiver/main.cpp, and --save-sent in         *)
(* sender/main.cpp), and what common/capture_reader.cpp gets back.         *)
(*                                                                         *)
(* The k-th frame that a process writes is the pair of the process and k.  *)
(* A process only ever appends to the segment it has open, so that a file  *)
(* is described by the process that created it and by its length; the      *)
(* length is in halves of a frame, to tell a torn frame from a whole one.  *)
(* Any part of what an ofstream took may still be in its buffer: how much  *)
(* is up to the library.  A crash is a crash of the process: what reached  *)
(* the file stays.                                                         *)
(***************************************************************************)
EXTENDS Integers

CONSTANTS
  SegmentFrames,   \* frames_per_segment_
  FlushEvery,      \* kStorageFlushFrames; 0 if only the last flush is done
  MaxFrames,       \* bound: the frames that one process writes
  MaxRuns          \* bound: the processes that write to the directory

ASSUME FilesAssumption ==
  /\ SegmentFrames \in Nat \ {0}
  /\ FlushEvery \in Nat
  /\ MaxFrames \in Nat \ {0}
  /\ MaxRuns \in Nat \ {0}

\* The worker's constants: 200 divides 10000, so that a segment is always
\* flushed when it is full.  The loop that saves what the sender sent does not
\* flush in between.
FlushDivides == FlushEvery # 0 /\ SegmentFrames % FlushEvery = 0

VARIABLES
  files,               \* the directory: who wrote a segment, and its length
  current_segment,
  stream,              \* data_: "closed", "good" or "failed"
  buffered,            \* what data_ took and the file does not have
  frames_written,
  writes_since_flush,  \* of the calling loop
  caller,              \* its next step
  run,                 \* which process this is
  confirmed            \* history: frames_written at the last successful flush

writer == <<current_segment, stream, buffered, frames_written>>
vars == <<files, writer, writes_since_flush, caller, run, confirmed>>

FrameBytes == 2
Segments == 0 .. MaxFrames \div SegmentFrames
NoSegment == -1
Absent == [run |-> 0, bytes |-> 0]

\* What a new process starts with.
Fresh ==
  /\ current_segment' = NoSegment
  /\ stream' = "closed"
  /\ buffered' = 0
  /\ frames_written' = 0
  /\ writes_since_flush' = 0
  /\ caller' = "write"
  /\ confirmed' = 0

Init ==
  /\ files = [s \in Segments |-> Absent]
  /\ current_segment = NoSegment
  /\ stream = "closed"
  /\ buffered = 0
  /\ frames_written = 0
  /\ writes_since_flush = 0
  /\ caller = "write"
  /\ run = 1
  /\ confirmed = 0

\* Definitions named Variant_... are plausible mistakes, for checking that
\* the properties would notice them; no specification uses one.
-----------------------------------------------------------------------------
\* The directory after `bytes' more have reached the open segment.
Appended(dir, segment, bytes) ==
  IF segment = NoSegment THEN dir ELSE [dir EXCEPT ![segment].bytes = @ + bytes]

Variant_segment_ahead == (frames_written + 1) \div SegmentFrames

segment_id == frames_written \div SegmentFrames

\* data_.write: the frame joins what is buffered, and of that `left' stays in
\* the buffer.  The stream fails when the file does not take what it must.
WriteData(dir, pending) ==
  \E left \in 0 .. pending + FrameBytes :
    /\ files' = Appended(dir, segment_id, pending + FrameBytes - left)
    /\ current_segment' = segment_id
    /\ buffered' = left
    /\ \/ /\ stream' = "good"
          /\ frames_written' = frames_written + 1
          /\ writes_since_flush' =
               IF writes_since_flush + 1 = FlushEvery THEN 0 ELSE writes_since_flush + 1
          /\ caller' = IF writes_since_flush + 1 = FlushEvery THEN "flush" ELSE "write"
       \/ /\ left > 0
          /\ stream' = "failed"
          /\ caller' = "failed"
          /\ UNCHANGED <<frames_written, writes_since_flush>>

\* write: the segment of the frame is open, or the open one is closed and the
\* next one created empty.  Nobody looks at whether close could write what
\* was buffered, and open clears the failure.
write ==
  /\ caller = "write"
  /\ frames_written < MaxFrames
  /\ \/ /\ segment_id = current_segment
        /\ stream = "good"
        /\ WriteData(files, buffered)
     \/ /\ segment_id # current_segment \/ stream # "good"
        /\ \E left \in 0 .. buffered :
             LET closed == Appended(files, current_segment, buffered - left) IN
             \/ WriteData([closed EXCEPT ![segment_id] = [run |-> run, bytes |-> 0]], 0)
             \/ /\ files' = closed
                /\ stream' = "failed"
                /\ buffered' = 0
                /\ caller' = "failed"
                /\ UNCHANGED <<current_segment, frames_written, writes_since_flush>>
  /\ UNCHANGED <<run, confirmed>>

Variant_Flushing_ignores_failure(next_step) ==
  \E left \in 0 .. buffered :
    /\ files' = Appended(files, current_segment, buffered - left)
    /\ buffered' = left
    /\ caller' = next_step
    /\ confirmed' = frames_written
    /\ UNCHANGED stream

\* flush: all that is buffered reaches the file, or the stream fails.
Flushing(next_step) ==
  \E left \in 0 .. buffered :
    /\ files' = Appended(files, current_segment, buffered - left)
    /\ buffered' = left
    /\ \/ /\ left = 0
          /\ caller' = next_step
          /\ confirmed' = frames_written
          /\ UNCHANGED stream
       \/ /\ left > 0
          /\ stream' = "failed"
          /\ caller' = "failed"
          /\ UNCHANGED confirmed

flush ==
  /\ caller = "flush"
  /\ Flushing("write")
  /\ UNCHANGED <<current_segment, frames_written, writes_since_flush, run>>

\* There are no more frames: the last flush, and the process reports success
\* if it succeeds.
FinalFlush ==
  /\ caller = "write"
  /\ Flushing("finished")
  /\ UNCHANGED <<current_segment, frames_written, writes_since_flush, run>>

\* The process ends: the destructors write what they still can.
Exit ==
  /\ caller \in {"finished", "failed"}
  /\ \E left \in 0 .. buffered :
       files' = Appended(files, current_segment, buffered - left)
  /\ stream' = "closed"
  /\ buffered' = 0
  /\ caller' = IF caller = "finished" THEN "succeeded" ELSE "ended"
  /\ UNCHANGED <<current_segment, frames_written, writes_since_flush, run, confirmed>>

\* The process is killed, and its buffer is gone.
Crash ==
  /\ caller \in {"write", "flush", "finished", "failed"}
  /\ stream' = "closed"
  /\ buffered' = 0
  /\ caller' = "ended"
  /\ UNCHANGED <<files, current_segment, frames_written, writes_since_flush, run,
                 confirmed>>

Variant_Restart_goes_on ==
  /\ caller \in {"succeeded", "ended"}
  /\ run < MaxRuns
  /\ run' = run + 1
  /\ caller' = "write"
  /\ current_segment' = NoSegment
  /\ stream' = "closed"
  /\ confirmed' = 0
  /\ UNCHANGED <<files, buffered, frames_written, writes_since_flush>>

\* Another process writes to the same directory, without clearing it first.
Restart ==
  /\ caller \in {"succeeded", "ended"}
  /\ run < MaxRuns
  /\ run' = run + 1
  /\ Fresh
  /\ UNCHANGED files

Next ==
  \/ write
  \/ flush
  \/ FinalFlush
  \/ Exit
  \/ Crash
  \/ Restart

Spec == Init /\ [][Next]_vars
-----------------------------------------------------------------------------
(* What CaptureReader delivers: the whole frames of every segment, segment *)
(* after segment; the rest of a segment is skipped.                        *)

Whole(s) == files[s].bytes \div FrameBytes

Delivered(r) ==
  UNION {{s * SegmentFrames + i : i \in 1 .. Whole(s)} : s \in {t \in Segments : files[t].run = r}}

trailing_bytes(s) == files[s].bytes % FrameBytes
-----------------------------------------------------------------------------
\* Every variable has its type.
Dir == [Segments -> [run : 0 .. MaxRuns, bytes : Nat]]

TypeOK ==
  /\ files \in Dir
  /\ current_segment \in Segments \union {NoSegment}
  /\ stream \in {"closed", "good", "failed"}
  /\ buffered \in Nat
  /\ frames_written \in 0 .. MaxFrames
  /\ writes_since_flush \in Nat
  /\ caller \in {"write", "flush", "finished", "failed", "succeeded", "ended"}
  /\ run \in 1 .. MaxRuns
  /\ confirmed \in 0 .. MaxFrames

\* What a successful flush confirmed can be read back, whatever fails or
\* crashes afterwards, until the next process starts.
ConfirmedIsReadable == 1 .. confirmed \subseteq Delivered(run)

\* What can be read back of a process is a prefix of what it wrote: a capture
\* that was cut short has no hole in the middle, although the failure of the
\* close between two segments goes unnoticed.
RunIsPrefix == \E n \in 0 .. MaxFrames : Delivered(run) = 1 .. n

\* A process that reported success left every frame it wrote, and no torn one.
SuccessIsComplete ==
  caller = "succeeded" =>
    /\ Delivered(run) = 1 .. frames_written
    /\ \A s \in Segments : files[s].run = run => trailing_bytes(s) = 0

\* In the order of the segments, what an earlier process left comes after what
\* a later one wrote: the reader never finds old frames before new ones.
StaleOnlyAfter ==
  \A s, t \in Segments : s < t /\ files[t].run # 0 => files[s].run >= files[t].run
=============================================================================
