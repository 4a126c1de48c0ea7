------------------------- MODULE CaptureReaderProofs -------------------------
(***************************************************************************)
(* Proofs about the capture reader, for captures of any number of files of *)
(* any lengths.                                                            *)
(*                                                                         *)
(* The reader has a position: the file behind current_name_ and the number *)
(* of frames it has taken from it.  What it has returned is exactly what   *)
(* lies up to that position (Passed); the files that it tried after that   *)
(* one did not open (PlaceOK); the torn bytes and the error are those of   *)
(* the files that it has left behind (TailsOK).                            *)
(***************************************************************************)
EXTENDS CaptureReader, TLAPS

Captures == UNION {[1 .. n -> Files] : n \in 1 .. MaxFiles}

ReaderTypeOK ==
  /\ files_ \in Captures
  /\ file_index_ \in 0 .. Len(files_)
  /\ is_open \in BOOLEAN
  /\ opened \in 0 .. file_index_
  /\ frame_in_file_ \in Nat
  /\ trailing_bytes_ \in Nat
  /\ error_ \in BOOLEAN
  /\ caller \in {"idle", "next", "ended"}
  /\ delivered \in Seq(Nat \X Nat)

PlaceOK ==
  /\ opened = 0 => ~is_open /\ frame_in_file_ = 0
  /\ opened # 0 => opened \in Readable /\ frame_in_file_ <= files_[opened].frames
  /\ opened # 0 /\ ~is_open => frame_in_file_ = files_[opened].frames
  /\ is_open => opened = file_index_
  /\ \A i \in opened + 1 .. file_index_ : i \notin Readable
  /\ caller = "ended" => ~is_open /\ file_index_ = Len(files_)

\* The frame is at or before the position of the reader.
Passed(f) == f[1] < opened \/ (f[1] = opened /\ f[2] <= frame_in_file_)

Returned == {delivered[k] : k \in 1 .. Len(delivered)}

OrderOK ==
  /\ Returned = {f \in InCapture : Passed(f)}
  /\ \A k \in 1 .. Len(delivered) - 1 : Before(delivered[k], delivered[k + 1])
  /\ caller = "idle" /\ delivered # << >> =>
       /\ frame_in_file_ # 0
       /\ delivered[Len(delivered)] = <<opened, frame_in_file_>>

\* The reader has left that file.
Left(i) == i < opened \/ (i = opened /\ ~is_open)

TailsOK ==
  /\ (trailing_bytes_ = 0) <=> \A i \in Readable : Left(i) => files_[i].torn = 0
  /\ error_ <=> \E i \in 1 .. file_index_ : i \notin Readable

ReaderInv == ReaderTypeOK /\ PlaceOK /\ OrderOK /\ TailsOK

-----------------------------------------------------------------------------
LEMMA FilesAre ==
  ASSUME ReaderTypeOK
  PROVE  /\ Len(files_) \in Nat /\ files_ \in [1 .. Len(files_) -> Files]
         /\ \A i \in 1 .. Len(files_) : /\ files_[i].frames \in Nat
                                        /\ files_[i].torn \in Nat
                                        /\ files_[i].opens \in BOOLEAN
<1>1. PICK n \in 1 .. MaxFiles : files_ \in [1 .. n -> Files]
  BY DEF ReaderTypeOK, Captures
<1>2. Len(files_) = n /\ n \in Nat
  BY <1>1, ReaderAssumption
<1>3. \A f \in Files : f.frames \in Nat /\ f.torn \in Nat /\ f.opens \in BOOLEAN
  BY ReaderAssumption
<1> QED
  BY <1>1, <1>2, <1>3

LEMMA InitReader == Init => ReaderInv
<1> SUFFICES ASSUME Init PROVE ReaderInv
  OBVIOUS
<1>1. ReaderTypeOK
  <2>1. PICK n \in 1 .. MaxFiles : files_ \in [1 .. n -> Files]
    BY DEF Init
  <2>2. Len(files_) \in Nat
    BY <2>1, ReaderAssumption
  <2>3. delivered \in Seq(Nat \X Nat)
    BY DEF Init
  <2>4. files_ \in Captures
    BY DEF Init, Captures
  <2>5. /\ file_index_ = 0 /\ opened = 0 /\ frame_in_file_ = 0 /\ is_open = FALSE
        /\ trailing_bytes_ = 0 /\ error_ = FALSE /\ caller = "idle"
    BY DEF Init
  <2>6. /\ file_index_ \in 0 .. Len(files_) /\ opened \in 0 .. file_index_
        /\ frame_in_file_ \in Nat /\ trailing_bytes_ \in Nat
    BY <2>2, <2>5
  <2>7. is_open \in BOOLEAN /\ error_ \in BOOLEAN /\ caller \in {"idle", "next", "ended"}
    BY <2>5
  <2> QED
    BY <2>3, <2>4, <2>6, <2>7 DEF ReaderTypeOK
<1>2. /\ file_index_ = 0 /\ opened = 0 /\ frame_in_file_ = 0 /\ ~is_open
      /\ trailing_bytes_ = 0 /\ ~error_ /\ delivered = << >> /\ caller = "idle"
  BY DEF Init
<1>3. PlaceOK
  BY <1>2 DEF PlaceOK
<1>4. OrderOK
  <2>1. Returned = {}
    BY <1>2 DEF Returned
  <2>2. \A f \in InCapture : ~Passed(f)
    <3>1. \A i \in Readable : i \in Nat /\ i > 0
      BY <1>1, FilesAre DEF Readable
    <3> QED
      BY <1>2, <3>1 DEF InCapture, Passed
  <2> QED
    BY <1>2, <2>1, <2>2 DEF OrderOK
<1>5. TailsOK
  <2>1. \A i \in Readable : ~Left(i)
    BY <1>1, <1>2, FilesAre DEF Readable, Left
  <2> QED
    BY <1>2, <2>1 DEF TailsOK
<1> QED
  BY <1>1, <1>3, <1>4, <1>5 DEF ReaderInv

LEMMA FramesAre ==
  ASSUME ReaderTypeOK
  PROVE  /\ \A f \in InCapture : /\ f[1] \in Readable /\ f[1] \in 1 .. Len(files_)
                                 /\ f[2] \in 1 .. files_[f[1]].frames
                                 /\ f = <<f[1], f[2]>>
         /\ \A i \in Readable : \A j \in 1 .. files_[i].frames : <<i, j>> \in InCapture
BY DEF InCapture, Readable

\* While no file is open, the frames that the reader has passed are those of
\* the files that it has tried.
LEMMA PassedTried ==
  ASSUME ReaderTypeOK, PlaceOK, ~is_open
  PROVE  /\ \A f \in InCapture : Passed(f) <=> f[1] <= file_index_
         /\ \A i \in Readable : Left(i) <=> i <= file_index_
<1>1. opened \in Nat /\ file_index_ \in Nat /\ opened <= file_index_
  BY FilesAre DEF ReaderTypeOK
<1>2. ASSUME NEW i \in Readable
      PROVE  i \in Nat \ {0} /\ (i <= opened <=> i <= file_index_)
  <2>1. i \in Nat \ {0}
    BY FilesAre DEF Readable
  <2> QED
    BY <1>1, <2>1 DEF PlaceOK
<1>3. ASSUME NEW f \in InCapture
      PROVE  Passed(f) <=> f[1] <= file_index_
  <2>1. f[1] \in Readable /\ f[1] \in Nat \ {0} /\ f[2] \in 1 .. files_[f[1]].frames
    BY <1>2, FramesAre
  <2>2. f[1] = opened => f[2] <= frame_in_file_
    BY <2>1 DEF PlaceOK
  <2>3. Passed(f) <=> f[1] <= opened
    BY <1>1, <2>1, <2>2 DEF Passed
  <2> QED
    BY <1>2, <2>1, <2>3
<1>4. ASSUME NEW i \in Readable
      PROVE  Left(i) <=> i <= file_index_
  BY <1>1, <1>2 DEF Left
<1> QED
  BY <1>3, <1>4

\* Steps that only change where the caller is.
LEMMA CallerStep ==
  ASSUME ReaderInv, next \/ EndOfInput \/ UNCHANGED vars
  PROVE  ReaderInv'
<1> USE DEF ReaderInv
<1>1. UNCHANGED <<files_, file_index_, is_open, opened, frame_in_file_,
                  trailing_bytes_, error_, delivered>>
  BY DEF next, EndOfInput, vars
<1>2. \/ UNCHANGED caller
      \/ caller' = "next"
      \/ caller' = "ended" /\ ~is_open /\ file_index_ = Len(files_)
  BY DEF next, EndOfInput, vars
<1>3. ReaderTypeOK'
  BY <1>1, <1>2 DEF ReaderTypeOK
<1>4. PlaceOK'
  BY <1>1, <1>2 DEF PlaceOK, Readable
<1>5. OrderOK'
  BY <1>1, <1>2 DEF OrderOK, Returned, InCapture, Readable, Passed
<1>6. TailsOK'
  BY <1>1 DEF TailsOK, Readable, Left
<1> QED
  BY <1>3, <1>4, <1>5, <1>6

LEMMA OpenStep ==
  ASSUME ReaderInv, open_next_file
  PROVE  ReaderInv'
<1> USE DEF ReaderInv
<1>1. /\ caller = "next" /\ ~is_open /\ file_index_ < Len(files_)
      /\ UNCHANGED <<files_, trailing_bytes_, caller, delivered>>
      /\ file_index_' = file_index_ + 1
  BY DEF open_next_file, OpenFile, SkipFile
<1>2. /\ Len(files_) \in Nat /\ file_index_ \in Nat /\ opened \in 0 .. file_index_
      /\ frame_in_file_ \in Nat
  BY FilesAre DEF ReaderTypeOK
<1>3. UNCHANGED <<Readable, InCapture, Returned>>
  BY <1>1 DEF Readable, InCapture, Returned
<1>4. \A i \in Readable : i \in Nat
  BY DEF Readable
<1>5. CASE files_[file_index_ + 1].opens
  <2>1. is_open' /\ opened' = file_index_ + 1 /\ frame_in_file_' = 0 /\ UNCHANGED error_
    BY <1>5 DEF open_next_file, OpenFile
  <2>2. file_index_ + 1 \in Readable
    BY <1>1, <1>2, <1>5 DEF Readable
  <2>3. ReaderTypeOK'
    BY <1>1, <1>2, <2>1 DEF ReaderTypeOK, OpenFile, open_next_file
  <2>4. PlaceOK'
    BY <1>1, <1>2, <1>3, <2>1, <2>2, FilesAre DEF PlaceOK, Readable
  <2>5. OrderOK'
    <3>1. ASSUME NEW f \in InCapture PROVE Passed(f)' <=> Passed(f)
      <4>1. f[1] \in Nat /\ f[2] \in Nat \ {0}
        BY FramesAre, FilesAre
      <4>2. Passed(f)' <=> f[1] <= file_index_
        BY <1>2, <2>1, <4>1 DEF Passed
      <4> QED
        BY <1>1, <4>2, PassedTried
    <3> QED
      BY <1>1, <1>3, <3>1 DEF OrderOK
  <2>6. TailsOK'
    <3>1. ASSUME NEW i \in Readable PROVE Left(i)' <=> Left(i)
      <4>1. Left(i)' <=> i <= file_index_
        BY <1>2, <1>4, <2>1 DEF Left
      <4> QED
        BY <1>1, <4>1, PassedTried
    <3>2. (\E i \in 1 .. file_index_ + 1 : i \notin Readable)
            <=> \E i \in 1 .. file_index_ : i \notin Readable
      BY <1>2, <2>2
    <3> QED
      BY <1>1, <1>3, <2>1, <3>1, <3>2 DEF TailsOK
  <2> QED
    BY <2>3, <2>4, <2>5, <2>6
<1>6. CASE ~files_[file_index_ + 1].opens
  <2>1. UNCHANGED <<is_open, opened, frame_in_file_>> /\ error_' = TRUE
    BY <1>6 DEF open_next_file, SkipFile
  <2>2. file_index_ + 1 \notin Readable
    BY <1>6 DEF Readable
  <2>3. ReaderTypeOK'
    BY <1>1, <1>2, <2>1 DEF ReaderTypeOK
  <2>4. PlaceOK'
    <3>1. \A i \in opened + 1 .. file_index_ + 1 : i \notin Readable
      BY <1>2, <2>2 DEF PlaceOK
    <3> QED
      BY <1>1, <1>3, <2>1, <3>1 DEF PlaceOK
  <2>5. OrderOK'
    BY <1>1, <1>3, <2>1 DEF OrderOK, Passed
  <2>6. TailsOK'
    <3>1. \E i \in 1 .. file_index_ + 1 : i \notin Readable
      BY <1>2, <2>2
    <3> QED
      BY <1>1, <1>3, <2>1, <3>1 DEF TailsOK, Left
  <2> QED
    BY <2>3, <2>4, <2>5, <2>6
<1> QED
  BY <1>5, <1>6

LEMMA ReadFrameStep ==
  ASSUME ReaderInv, ReadFrame
  PROVE  ReaderInv'
<1> USE DEF ReaderInv
<1>1. /\ is_open /\ frame_in_file_ < files_[opened].frames
      /\ frame_in_file_' = frame_in_file_ + 1
      /\ delivered' = Append(delivered, <<opened, frame_in_file_ + 1>>)
      /\ caller' = "idle"
      /\ UNCHANGED <<files_, file_index_, is_open, opened, trailing_bytes_, error_>>
  BY DEF ReadFrame
<1>2. /\ opened \in Nat /\ frame_in_file_ \in Nat /\ delivered \in Seq(Nat \X Nat)
      /\ Len(delivered) \in Nat
  BY FilesAre DEF ReaderTypeOK
<1>3. opened \in Readable /\ files_[opened].frames \in Nat
  BY <1>1, FilesAre DEF PlaceOK, Readable
<1> DEFINE n == Len(delivered)
           f0 == <<opened, frame_in_file_ + 1>>
<1>4. /\ delivered' \in Seq(Nat \X Nat) /\ Len(delivered') = n + 1
      /\ delivered'[n + 1] = f0
      /\ \A k \in 1 .. n : delivered'[k] = delivered[k]
  BY <1>1, <1>2
<1>5. UNCHANGED <<Readable, InCapture>>
  BY <1>1 DEF Readable, InCapture
<1>6. f0 \in InCapture
  BY <1>1, <1>2, <1>3, FramesAre
<1>7. ReaderTypeOK'
  BY <1>1, <1>2, <1>4 DEF ReaderTypeOK
<1>8. PlaceOK'
  BY <1>1, <1>2, <1>3, <1>5 DEF PlaceOK
<1>9. Returned' = Returned \union {f0}
  <2>1. Returned' = {delivered'[k] : k \in 1 .. n + 1}
    BY <1>4 DEF Returned
  <2>2. 1 .. n + 1 = (1 .. n) \union {n + 1}
    BY <1>2
  <2>3. Returned = {delivered[k] : k \in 1 .. n}
    BY DEF Returned
  <2> HIDE DEF f0, n
  <2> QED
    BY <1>4, <2>1, <2>2, <2>3
<1>10. ASSUME NEW f \in InCapture
       PROVE  Passed(f)' <=> Passed(f) \/ f = f0
  <2>1. f[1] \in Nat /\ f[2] \in Nat /\ f = <<f[1], f[2]>>
    BY FramesAre, FilesAre
  <2>2. f = f0 <=> f[1] = opened /\ f[2] = frame_in_file_ + 1
    BY <2>1
  <2> QED
    BY <1>1, <1>2, <2>1, <2>2 DEF Passed
<1>11. \A k \in 1 .. n : Before(delivered[k], f0)
  <2> TAKE k \in 1 .. n
  <2>1. delivered[k] \in InCapture /\ Passed(delivered[k])
    BY DEF OrderOK, Returned
  <2>2. delivered[k] \in Nat \X Nat
    BY <1>2
  <2> QED
    BY <1>2, <2>1, <2>2 DEF Passed, Before
<1>12. \A k \in 1 .. (n + 1) - 1 : Before(delivered'[k], delivered'[k + 1])
  <2> TAKE k \in 1 .. (n + 1) - 1
  <2>1. CASE k = n
    <3>1. k + 1 = n + 1 /\ k \in 1 .. n
      BY <1>2, <2>1
    <3>2. delivered'[k] = delivered[k] /\ delivered'[k + 1] = f0
      BY <1>4, <3>1
    <3> QED
      BY <1>11, <3>1, <3>2
  <2>2. CASE k # n
    <3>1. k \in 1 .. n - 1 /\ k \in 1 .. n /\ k + 1 \in 1 .. n
      BY <1>2, <2>2
    <3> QED
      BY <1>4, <3>1 DEF OrderOK
  <2> QED
    BY <2>1, <2>2
<1>13. OrderOK'
  <2>1. Returned' = {f \in InCapture : Passed(f)'}
    <3> HIDE DEF f0
    <3> QED
      BY <1>6, <1>9, <1>10 DEF OrderOK
  <2>2. frame_in_file_' # 0 /\ delivered'[Len(delivered')] = <<opened', frame_in_file_'>>
    BY <1>1, <1>2, <1>4
  <2> QED
    BY <1>4, <1>5, <1>12, <2>1, <2>2 DEF OrderOK
<1>14. TailsOK'
  BY <1>1, <1>5 DEF TailsOK, Left
<1> QED
  BY <1>7, <1>8, <1>13, <1>14

LEMMA ReadTailStep ==
  ASSUME ReaderInv, ReadTail
  PROVE  ReaderInv'
<1> USE DEF ReaderInv
<1>1. /\ caller = "next" /\ is_open /\ is_open' = FALSE
      /\ frame_in_file_ = files_[opened].frames
      /\ trailing_bytes_' = trailing_bytes_ + files_[opened].torn
      /\ UNCHANGED <<files_, file_index_, opened, frame_in_file_, error_, caller, delivered>>
  BY DEF ReadTail
<1>2. opened \in Readable /\ files_[opened].torn \in Nat /\ trailing_bytes_ \in Nat
        /\ opened \in Nat
  BY <1>1, FilesAre DEF PlaceOK, Readable, ReaderTypeOK
<1>3. UNCHANGED <<Readable, InCapture, Returned>>
  BY <1>1 DEF Readable, InCapture, Returned
<1>4. ReaderTypeOK'
  <2>1. trailing_bytes_' \in Nat
    BY <1>1, <1>2
  <2> QED
    BY <1>1, <2>1 DEF ReaderTypeOK
<1>5. PlaceOK'
  BY <1>1, <1>3 DEF PlaceOK
<1>6. OrderOK'
  BY <1>1, <1>3 DEF OrderOK, Passed
<1>7. TailsOK'
  <2>1. ASSUME NEW i \in Readable PROVE Left(i)' <=> Left(i) \/ i = opened
    BY <1>1 DEF Left
  <2>2. trailing_bytes_' = 0 <=> trailing_bytes_ = 0 /\ files_[opened].torn = 0
    BY <1>1, <1>2
  <2>3. (trailing_bytes_ = 0) <=> \A i \in Readable : Left(i) => files_[i].torn = 0
    BY DEF TailsOK
  <2>4. (trailing_bytes_' = 0) <=> \A i \in Readable : Left(i)' => files_[i].torn = 0
    BY <1>2, <2>1, <2>2, <2>3
  <2> QED
    BY <1>1, <1>3, <2>4 DEF TailsOK
<1> QED
  BY <1>4, <1>5, <1>6, <1>7

\* The inductive invariant holds in every reachable state.
THEOREM Invariance == Spec => []ReaderInv
<1>1. ReaderInv /\ [Next]_vars => ReaderInv'
  BY CallerStep, OpenStep, ReadFrameStep, ReadTailStep DEF Next, Ended
<1> QED
  BY <1>1, InitReader, PTL DEF Spec

-----------------------------------------------------------------------------
(* What follows.                                                           *)

\* next returns the frames of a capture in order, each once, and skips none.
THEOREM OrderOfFrames == Spec => []ReadsInOrder
<1>1. ReaderInv => ReadsInOrder
  <2> SUFFICES ASSUME ReaderInv PROVE ReadsInOrder
    OBVIOUS
  <2>1. ASSUME NEW f \in InCapture, NEW g \in InCapture, Before(f, g), Passed(g)
        PROVE  Passed(f)
    <3>1. f[1] \in Nat /\ f[2] \in Nat /\ g[1] \in Nat /\ g[2] \in Nat
      BY FramesAre, FilesAre DEF ReaderInv
    <3>2. opened \in Nat /\ frame_in_file_ \in Nat
      BY FilesAre DEF ReaderInv, ReaderTypeOK
    <3> QED
      BY <2>1, <3>1, <3>2 DEF Before, Passed
  <2>2. Returned = {f \in InCapture : Passed(f)}
    BY DEF ReaderInv, OrderOK
  <2>3. \A f \in InCapture, g \in Returned : Before(f, g) => f \in Returned
    BY <2>1, <2>2
  <2> QED
    BY <2>2, <2>3 DEF ReadsInOrder, Returned, ReaderInv, OrderOK
<1> QED
  BY <1>1, Invariance, PTL

\* When next returns false, every frame of a file that could be opened was
\* returned, torn ends were counted, and the error tells of the other files.
THEOREM NothingLeft == Spec => []EndMeansAll
<1>1. ReaderInv => EndMeansAll
  <2> SUFFICES ASSUME ReaderInv, caller = "ended"
               PROVE  /\ InCapture \subseteq Returned
                      /\ (trailing_bytes_ = 0) <=> \A i \in Readable : files_[i].torn = 0
                      /\ error_ <=> Readable # 1 .. Len(files_)
    BY DEF EndMeansAll, Returned
  <2> USE DEF ReaderInv
  <2>1. ~is_open /\ file_index_ = Len(files_)
    BY DEF PlaceOK
  <2>2. /\ \A f \in InCapture : f[1] <= file_index_
        /\ \A i \in Readable : i <= file_index_ /\ i \in 1 .. Len(files_)
    BY <2>1, FramesAre, FilesAre DEF Readable
  <2>3. InCapture \subseteq Returned
    BY <2>1, <2>2, PassedTried DEF OrderOK
  <2>4. (trailing_bytes_ = 0) <=> \A i \in Readable : files_[i].torn = 0
    BY <2>1, <2>2, PassedTried DEF TailsOK
  <2>5. error_ <=> Readable # 1 .. Len(files_)
    BY <2>1, <2>2 DEF TailsOK
  <2> QED
    BY <2>3, <2>4, <2>5
<1> QED
  BY <1>1, Invariance, PTL

\* Between two calls, location names the frame that the last one returned.
THEOREM LocationNamesLast == Spec => []LocationIsLast
<1>1. ReaderInv => LocationIsLast
  BY DEF ReaderInv, OrderOK, LocationIsLast, location
<1> QED
  BY <1>1, Invariance, PTL
=============================================================================
