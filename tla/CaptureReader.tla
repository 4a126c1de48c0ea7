--------------------------- MODULE CaptureReader ---------------------------
(***************************************************************************)
(* Reading a capture: common/capture_reader.cpp, called once for each      *)
(* frame by frame_compare.cpp and by the sender's --input loop until next  *)
(* returns false.                                                          *)
(*                                                                         *)
(* The input is the sorted list of files the constructor found.  The j-th  *)
(* whole frame of the i-th file is the pair <<i, j>>; of what follows the  *)
(* last whole frame only the length matters.  A file that was listed may   *)
(* fail to open.                                                           *)
(***************************************************************************)
EXTENDS Integers, Sequences

CONSTANTS
  Files,       \* what a file may be: [frames, torn, opens]
  MaxFiles     \* bound: the files of one capture

ASSUME ReaderAssumption ==
  /\ Files \subseteq [frames : Nat, torn : Nat, opens : BOOLEAN]
  /\ MaxFiles \in Nat \ {0}

VARIABLES
  files_,
  file_index_,      \* files tried so far
  is_open,          \* in_.is_open()
  opened,           \* the file behind current_name_
  frame_in_file_,
  trailing_bytes_,
  error_,
  caller,           \* "idle", or inside "next", or "ended" when it returned false
  delivered         \* history: the frames returned, in order

vars == <<files_, file_index_, is_open, opened, frame_in_file_, trailing_bytes_,
          error_, caller, delivered>>

\* An input without files is refused by ok() before the first call of next.
Init ==
  /\ files_ \in UNION {[1 .. n -> Files] : n \in 1 .. MaxFiles}
  /\ file_index_ = 0
  /\ is_open = FALSE
  /\ opened = 0
  /\ frame_in_file_ = 0
  /\ trailing_bytes_ = 0
  /\ error_ = FALSE
  /\ caller = "idle"
  /\ delivered = << >>

\* Definitions named Variant_... are plausible mistakes, for checking that
\* the properties would notice them; no specification uses one.

next ==
  /\ caller = "idle"
  /\ caller' = "next"
  /\ UNCHANGED <<files_, file_index_, is_open, opened, frame_in_file_,
                 trailing_bytes_, error_, delivered>>

Variant_OpenFile_keeps_count ==
  /\ file_index_' = file_index_ + 1
  /\ is_open' = TRUE
  /\ opened' = file_index_ + 1
  /\ UNCHANGED <<frame_in_file_, error_>>

OpenFile ==
  /\ file_index_' = file_index_ + 1
  /\ is_open' = TRUE
  /\ opened' = file_index_ + 1
  /\ frame_in_file_' = 0
  /\ UNCHANGED error_

Variant_SkipFile_silently ==
  /\ file_index_' = file_index_ + 1
  /\ UNCHANGED <<is_open, opened, frame_in_file_, error_>>

\* The error is remembered, and the next file is tried.
SkipFile ==
  /\ file_index_' = file_index_ + 1
  /\ error_' = TRUE
  /\ UNCHANGED <<is_open, opened, frame_in_file_>>

open_next_file ==
  /\ caller = "next"
  /\ ~is_open
  /\ file_index_ < Len(files_)
  /\ IF files_[file_index_ + 1].opens THEN OpenFile ELSE SkipFile
  /\ UNCHANGED <<files_, trailing_bytes_, caller, delivered>>

EndOfInput ==
  /\ caller = "next"
  /\ ~is_open
  /\ file_index_ = Len(files_)
  /\ caller' = "ended"
  /\ UNCHANGED <<files_, file_index_, is_open, opened, frame_in_file_,
                 trailing_bytes_, error_, delivered>>

ReadFrame ==
  /\ caller = "next"
  /\ is_open
  /\ frame_in_file_ < files_[opened].frames
  /\ frame_in_file_' = frame_in_file_ + 1
  /\ delivered' = Append(delivered, <<opened, frame_in_file_ + 1>>)
  /\ caller' = "idle"
  /\ UNCHANGED <<files_, file_index_, is_open, opened, trailing_bytes_, error_>>

Variant_ReadTail_ends_input ==
  /\ caller = "next"
  /\ is_open
  /\ frame_in_file_ = files_[opened].frames
  /\ trailing_bytes_' = trailing_bytes_ + files_[opened].torn
  /\ is_open' = FALSE
  /\ caller' = IF files_[opened].torn = 0 THEN caller ELSE "ended"
  /\ UNCHANGED <<files_, file_index_, opened, frame_in_file_, error_, delivered>>

\* Less than a frame was left: it is counted, and the loop goes on with the
\* next file.
ReadTail ==
  /\ caller = "next"
  /\ is_open
  /\ frame_in_file_ = files_[opened].frames
  /\ trailing_bytes_' = trailing_bytes_ + files_[opened].torn
  /\ is_open' = FALSE
  /\ UNCHANGED <<files_, file_index_, opened, frame_in_file_, error_, caller, delivered>>

\* The caller is through with the reader.
Ended == caller = "ended" /\ UNCHANGED vars

Next ==
  \/ next
  \/ open_next_file
  \/ EndOfInput
  \/ ReadFrame
  \/ ReadTail
  \/ Ended

Spec == Init /\ [][Next]_vars
-----------------------------------------------------------------------------
Variant_location_counts_from_one == <<opened, frame_in_file_>>

\* What reports say of the frame in hand: its file and its index, from 0.
location == <<opened, IF frame_in_file_ = 0 THEN 0 ELSE frame_in_file_ - 1>>

Readable == {i \in 1 .. Len(files_) : files_[i].opens}

\* The frames of a capture: those of the files that can be opened.
InCapture == UNION {{<<i, j>> : j \in 1 .. files_[i].frames} : i \in Readable}

\* File after file, frame after frame.
Before(f, g) == f[1] < g[1] \/ (f[1] = g[1] /\ f[2] < g[2])

\* next returns frames of the capture in order, each at most once, and skips
\* none: whatever precedes a frame that was returned was returned.
ReadsInOrder ==
  LET returned == {delivered[k] : k \in 1 .. Len(delivered)} IN
  /\ returned \subseteq InCapture
  /\ \A k \in 1 .. Len(delivered) - 1 : Before(delivered[k], delivered[k + 1])
  /\ \A f \in InCapture, g \in returned : Before(f, g) => f \in returned

\* When next returns false, every frame was returned, the torn ends of the
\* files that could be opened were counted, and an error tells of the others.
EndMeansAll ==
  caller = "ended" =>
    /\ InCapture \subseteq {delivered[k] : k \in 1 .. Len(delivered)}
    /\ (trailing_bytes_ = 0) <=> \A i \in Readable : files_[i].torn = 0
    /\ error_ <=> Readable # 1 .. Len(files_)

\* Between two calls, location names the frame that the last one returned.
LocationIsLast ==
  caller = "idle" /\ delivered # << >> =>
    LET f == delivered[Len(delivered)] IN location = <<f[1], f[2] - 1>>
=============================================================================
