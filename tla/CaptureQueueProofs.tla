------------------------- MODULE CaptureQueueProofs -------------------------
(***************************************************************************)
(* Proofs about the capture queue, for every capacity, every set of frames *)
(* and every expected count: the indices stay in range, the two threads    *)
(* never touch the same slot, no frame is lost, repeated, reordered or     *)
(* read torn, and the ring implements the bounded first-in first-out       *)
(* buffer of BoundedFifo.                                                  *)
(*                                                                         *)
(* None of these is inductive alone.  The inductive invariant relates the  *)
(* slots to the history position by position: the k-th slot from the       *)
(* consumer index holds the k-th accepted frame that was not released.     *)
(*                                                                         *)
(* The same is proved for threads that see old values of each other's      *)
(* index (module QueueMemory), and that no data race on a slot is left.    *)
(***************************************************************************)
EXTENDS QueueMemory, SequenceTheorems, TLAPS

Pos(k) == (consumer_index + k) % SlotCount

\* A producer that was granted a slot keeps it: only the consumer moves.
Granted == producer \in {"granted", "filling", "filled"} => has_space

\* A consumer that holds a slot keeps it: only the producer moves.
Held == consumer \in {"reading", "read"} => ~empty

InHand == consumer = "reading" => in_hand = slots[consumer_index]

Whole == producer = "filled" => slots[producer_index] \in Frames

Counted == /\ Released \in Nat
           /\ Len(accepted) = Released + size

InRing == \A k \in 1 .. size : slots[Pos(k - 1)] = accepted[Released + k]

Delivered == \A k \in 1 .. Len(received) : received[k] = accepted[k]

IndInv == /\ TypeOK
          /\ Granted
          /\ Held
          /\ InHand
          /\ Whole
          /\ Counted
          /\ InRing
          /\ Delivered

-----------------------------------------------------------------------------
(* A history, and the part of it that is still to come.                    *)

\* What is left of a when the first Len(r) elements are taken.
Rest(a, r) == [k \in 1 .. Len(a) - Len(r) |-> a[Len(r) + k]]

\* The rest is a sequence.
LEMMA RestSeq ==
  ASSUME NEW S, NEW T, NEW a \in Seq(S), NEW r \in Seq(T), Len(r) <= Len(a)
  PROVE  /\ Rest(a, r) \in Seq(S)
         /\ Len(Rest(a, r)) = Len(a) - Len(r)
<1>1. Len(a) - Len(r) \in Nat
  OBVIOUS
<1> QED
  BY <1>1 DEF Rest

\* The rest completes a prefix.
LEMMA RestCompletes ==
  ASSUME NEW S, NEW T, NEW a \in Seq(S), NEW r \in Seq(T), Len(r) <= Len(a),
         \A k \in 1 .. Len(r) : r[k] = a[k]
  PROVE  a = r \o Rest(a, r)
<1> DEFINE c == r \o Rest(a, r)
<1>1. Rest(a, r) \in Seq(S) /\ Len(Rest(a, r)) = Len(a) - Len(r)
  BY RestSeq
<1>2. c \in Seq(S \union T) /\ a \in Seq(S \union T)
  BY <1>1
<1>3. Len(c) = Len(a)
  BY <1>1
<1>4. \A k \in 1 .. Len(a) : a[k] = c[k]
  BY <1>1 DEF Rest
<1> HIDE DEF c
<1>5. a = c
  BY <1>2, <1>3, <1>4, SeqEqual
<1> QED
  BY <1>5 DEF c

\* An element appended to the history goes to the end of the rest.
LEMMA RestAppend ==
  ASSUME NEW S, NEW T, NEW a \in Seq(S), NEW r \in Seq(T), Len(r) <= Len(a),
         NEW f \in S
  PROVE  Rest(Append(a, f), r) = Append(Rest(a, r), f)
<1> DEFINE b == Append(a, f)
           n == Len(a) - Len(r)
<1>1. b \in Seq(S) /\ Len(b) = Len(a) + 1 /\ b[Len(a) + 1] = f
      /\ \A k \in 1 .. Len(a) : b[k] = a[k]
  BY AppendProperties
<1> HIDE DEF b
<1>2. Len(a) \in Nat /\ Len(r) \in Nat /\ n \in Nat
  OBVIOUS
<1>3. Rest(b, r) \in Seq(S) /\ Len(Rest(b, r)) = n + 1
  <2>1. Len(r) <= Len(b) /\ Len(b) - Len(r) = n + 1
    BY <1>1, <1>2
  <2>2. b \in Seq(S)
    BY <1>1
  <2>3. Rest(b, r) \in Seq(S) /\ Len(Rest(b, r)) = Len(b) - Len(r)
    BY ONLY <2>1, <2>2, RestSeq, r \in Seq(T)
  <2> QED
    BY <2>1, <2>3
<1>4. Rest(a, r) \in Seq(S) /\ Len(Rest(a, r)) = n
  BY RestSeq
<1>5. /\ Append(Rest(a, r), f) \in Seq(S)
      /\ Len(Append(Rest(a, r), f)) = n + 1
      /\ \A k \in 1 .. n : Append(Rest(a, r), f)[k] = Rest(a, r)[k]
      /\ Append(Rest(a, r), f)[n + 1] = f
  BY <1>4, AppendProperties
<1>6. ASSUME NEW k \in 1 .. n + 1
      PROVE  Rest(b, r)[k] = Append(Rest(a, r), f)[k]
  <2>1. Rest(b, r)[k] = b[Len(r) + k]
    BY <1>1 DEF Rest
  <2>2. CASE k \in 1 .. n
    <3>1. b[Len(r) + k] = a[Len(r) + k]
      BY <1>1, <2>2
    <3>2. Rest(a, r)[k] = a[Len(r) + k]
      BY <2>2 DEF Rest
    <3> QED
      BY <1>5, <2>1, <2>2, <3>1, <3>2
  <2>3. CASE k = n + 1
    <3>1. Len(r) + k = Len(a) + 1
      BY <2>3
    <3> QED
      BY <1>1, <1>5, <2>1, <2>3, <3>1
  <2>4. k \in 1 .. n \/ k = n + 1
    BY <1>2
  <2> QED
    BY <2>2, <2>3, <2>4
<1>7. Rest(b, r) = Append(Rest(a, r), f)
  BY <1>3, <1>5, <1>6, SeqEqual
<1> QED
  BY <1>7 DEF b

\* The next element of the prefix leaves the rest at its head.
LEMMA RestTail ==
  ASSUME NEW S, NEW T, NEW a \in Seq(S), NEW r \in Seq(T), Len(r) < Len(a),
         NEW x \in T
  PROVE  /\ Rest(a, r) # << >>
         /\ Head(Rest(a, r)) = a[Len(r) + 1]
         /\ Rest(a, Append(r, x)) = Tail(Rest(a, r))
<1> DEFINE q == Append(r, x)
           n == Len(a) - Len(r)
<1>1. q \in Seq(T) /\ Len(q) = Len(r) + 1
  BY AppendProperties
<1> HIDE DEF q
<1>2. n \in Nat \ {0}
  OBVIOUS
<1>3. Rest(a, q) \in Seq(S) /\ Len(Rest(a, q)) = n - 1
  BY <1>1, RestSeq
<1>4. Rest(a, r) \in Seq(S) /\ Len(Rest(a, r)) = n
  BY RestSeq
<1>5. Rest(a, r) # << >>
  BY <1>2, <1>4
<1>6. Head(Rest(a, r)) = a[Len(r) + 1]
  <2>1. Head(Rest(a, r)) = Rest(a, r)[1]
    BY <1>4, <1>5
  <2>2. Rest(a, r)[1] = a[Len(r) + 1]
    BY <1>2 DEF Rest
  <2> QED
    BY <2>1, <2>2
<1>7. /\ Tail(Rest(a, r)) \in Seq(S)
      /\ Len(Tail(Rest(a, r))) = n - 1
      /\ \A k \in 1 .. n - 1 : Tail(Rest(a, r))[k] = Rest(a, r)[k + 1]
  BY <1>4, <1>5, HeadTailProperties
<1>8. ASSUME NEW k \in 1 .. n - 1
      PROVE  Rest(a, q)[k] = Tail(Rest(a, r))[k]
  <2>1. Rest(a, q)[k] = a[Len(r) + 1 + k]
    BY <1>1, <1>2 DEF Rest
  <2>2. Rest(a, r)[k + 1] = a[Len(r) + (k + 1)]
    BY <1>2 DEF Rest
  <2>3. Len(r) + 1 + k = Len(r) + (k + 1)
    BY <1>2
  <2> QED
    BY <1>7, <2>1, <2>2, <2>3
<1>9. Rest(a, q) = Tail(Rest(a, r))
  BY <1>3, <1>7, <1>8, SeqEqual
<1> QED
  BY <1>5, <1>6, <1>9 DEF q

-----------------------------------------------------------------------------
(* Arithmetic of the ring.                                                 *)

\* The successor of a slot wraps to 0 after the last one (next, in
\* capture_queue.h).
LEMMA NextSlot ==
  ASSUME NEW i \in Slots
  PROVE  /\ next(i) = IF i = Capacity THEN 0 ELSE i + 1
         /\ next(i) \in Slots
BY QueueAssumption DEF Slots, next, SlotCount

\* The k-th slot from the consumer index.
LEMMA PosIs ==
  ASSUME consumer_index \in Slots, NEW k \in 0 .. Capacity
  PROVE  /\ Pos(k) = IF consumer_index + k <= Capacity
                     THEN consumer_index + k
                     ELSE consumer_index + k - Capacity - 1
         /\ Pos(k) \in Slots
BY QueueAssumption DEF Slots, Pos, SlotCount

\* What size reports of two indices in range; a ring that has space holds
\* fewer than Capacity frames, and only such a ring has space.
LEMMA SizeIs ==
  ASSUME producer_index \in Slots, consumer_index \in Slots
  PROVE  /\ size \in 0 .. Capacity
         /\ size = 0 <=> empty
         /\ has_space <=> size < Capacity
         /\ Pos(size) = producer_index
         /\ \A k \in 0 .. Capacity : k # size => Pos(k) # producer_index
<1>1. size \in 0 .. Capacity
  BY QueueAssumption DEF Slots, size, SlotCount
<1>2. size = 0 <=> empty
  BY QueueAssumption DEF Slots, size, SlotCount, empty
<1>3. has_space <=> size < Capacity
  <2>1. next(producer_index) = IF producer_index = Capacity THEN 0 ELSE producer_index + 1
    BY NextSlot
  <2> QED
    BY <2>1, QueueAssumption DEF Slots, size, SlotCount, has_space
<1>4. Pos(size) = producer_index
  BY <1>1, PosIs, QueueAssumption DEF Slots, size, SlotCount
<1>5. ASSUME NEW k \in 0 .. Capacity, k # size
      PROVE  Pos(k) # producer_index
  BY <1>5, PosIs, QueueAssumption DEF Slots, size, SlotCount
<1> QED
  BY <1>1, <1>2, <1>3, <1>4, <1>5

-----------------------------------------------------------------------------
LEMMA InitInv == Init => IndInv
<1> SUFFICES ASSUME Init PROVE IndInv
  OBVIOUS
<1>1. size = 0
  BY QueueAssumption DEF Init, size
<1>2. TypeOK
  BY QueueAssumption DEF Init, TypeOK, Slots, Contents
<1>3. Counted /\ InRing /\ Delivered
  BY <1>1 DEF Init, Counted, InRing, Delivered, Released
<1> QED
  BY <1>2, <1>3 DEF Init, IndInv, Granted, Held, InHand, Whole

\* The steps that leave the slots' contents between the two indices, the
\* indices and the histories alone keep what is said of the ring.
LEMMA RingKept ==
  ASSUME IndInv,
         UNCHANGED <<producer_index, consumer_index, consumer, accepted, received>>,
         \A k \in 1 .. size : slots'[Pos(k - 1)] = slots[Pos(k - 1)]
  PROVE  Counted' /\ InRing' /\ Delivered'
BY DEF IndInv, Counted, InRing, Delivered, Released, size, Pos

LEMMA CheckSpaceInv == IndInv /\ CheckSpace => IndInv'
<1> SUFFICES ASSUME IndInv, CheckSpace PROVE IndInv'
  OBVIOUS
<1>1. Counted' /\ InRing' /\ Delivered'
  BY RingKept DEF CheckSpace
<1>2. TypeOK' /\ Granted' /\ Held' /\ InHand' /\ Whole'
  BY DEF IndInv, CheckSpace, TypeOK, Granted, Held, InHand, Whole, has_space, empty
<1> QED
  BY <1>1, <1>2 DEF IndInv

\* recv writes to the producer's slot only, which is not in the ring.
LEMMA FillInv ==
  ASSUME IndInv, NEW b \in Contents,
         producer \in {"granted", "filling"},
         slots' = [slots EXCEPT ![producer_slot] = b],
         producer' \in {"filling", "filled"},
         producer' = "filled" => b \in Frames,
         UNCHANGED <<producer_index, consumer_index, consumer, in_hand,
                     accepted, received>>
  PROVE  IndInv'
<1> USE DEF producer_slot
<1>1. \A k \in 1 .. size : slots'[Pos(k - 1)] = slots[Pos(k - 1)]
  <2> SUFFICES ASSUME NEW k \in 1 .. size PROVE slots'[Pos(k - 1)] = slots[Pos(k - 1)]
    OBVIOUS
  <2>1. k - 1 \in 0 .. Capacity /\ k - 1 # size
    BY SizeIs, QueueAssumption DEF IndInv, TypeOK
  <2>2. Pos(k - 1) \in Slots /\ Pos(k - 1) # producer_index
    BY <2>1, SizeIs, PosIs DEF IndInv, TypeOK
  <2> QED
    BY <2>2 DEF IndInv, TypeOK
<1>2. Counted' /\ InRing' /\ Delivered'
  BY <1>1, RingKept
<1>3. TypeOK'
  BY DEF IndInv, TypeOK
<1>4. Granted' /\ Held'
  BY DEF IndInv, Granted, Held, has_space, empty
<1>5. InHand'
  BY DEF IndInv, TypeOK, InHand, Held, empty
<1>6. Whole'
  BY DEF IndInv, TypeOK, Whole
<1> QED
  BY <1>2, <1>3, <1>4, <1>5, <1>6 DEF IndInv

LEMMA AbandonReceiveInv == IndInv /\ AbandonReceive => IndInv'
<1> SUFFICES ASSUME IndInv, AbandonReceive PROVE IndInv'
  OBVIOUS
<1>1. Counted' /\ InRing' /\ Delivered'
  BY RingKept DEF AbandonReceive
<1>2. TypeOK' /\ Granted' /\ Held' /\ InHand' /\ Whole'
  BY DEF IndInv, AbandonReceive, TypeOK, Granted, Held, InHand, Whole, has_space, empty
<1> QED
  BY <1>1, <1>2 DEF IndInv

\* The published slot becomes the last one of the ring.
LEMMA PublishInv == IndInv /\ Publish => IndInv'
<1> SUFFICES ASSUME IndInv, Publish PROVE IndInv'
  OBVIOUS
<1> USE DEF Publish, publish, producer_slot
<1>1. size < Capacity
  BY SizeIs DEF IndInv, TypeOK, Granted
<1>2. producer_index' \in Slots /\ size' = size + 1
  <2>1. producer_index' = IF producer_index = Capacity THEN 0 ELSE producer_index + 1
    BY NextSlot DEF IndInv, TypeOK
  <2> QED
    BY <1>1, <2>1, QueueAssumption DEF IndInv, TypeOK, Slots, size, SlotCount
<1>3. Len(accepted') = Len(accepted) + 1 /\ accepted' \in Seq(Frames)
  BY DEF IndInv, TypeOK, Whole
<1>4. TypeOK'
  BY <1>2, <1>3 DEF IndInv, TypeOK
<1>5. Granted' /\ InHand' /\ Whole'
  BY DEF IndInv, Granted, InHand, Whole
<1>6. Held'
  BY <1>1, NextSlot, QueueAssumption DEF IndInv, TypeOK, Granted, Held, has_space, empty
<1>7. Counted'
  <2>1. Released' = Released
    BY DEF Released
  <2>2. size \in 0 .. Capacity
    BY SizeIs DEF IndInv, TypeOK
  <2> QED
    BY <1>2, <1>3, <2>1, <2>2, QueueAssumption DEF IndInv, Counted
<1>8. InRing'
  <2> SUFFICES ASSUME NEW k \in 1 .. size + 1
               PROVE  slots[Pos(k - 1)] = accepted'[Released + k]
    BY <1>2 DEF InRing, Pos, Released
  <2>1. size \in 0 .. Capacity /\ Released \in Nat /\ Len(accepted) = Released + size
    BY SizeIs DEF IndInv, TypeOK, Counted
  <2>2. CASE k = size + 1
    <3>1. Pos(k - 1) = producer_index
      BY <2>1, <2>2, SizeIs, QueueAssumption DEF IndInv, TypeOK
    <3>2. Released + k = Len(accepted) + 1
      BY <2>1, <2>2, QueueAssumption
    <3> QED
      BY <3>1, <3>2 DEF IndInv, TypeOK
  <2>3. CASE k \in 1 .. size
    <3>1. slots[Pos(k - 1)] = accepted[Released + k]
      BY <2>3 DEF IndInv, InRing
    <3>2. Released + k \in 1 .. Len(accepted)
      BY <2>1, <2>3, QueueAssumption
    <3> QED
      BY <3>1, <3>2 DEF IndInv, TypeOK
  <2> QED
    BY <2>1, <2>2, <2>3, QueueAssumption
<1>9. Delivered'
  <2>1. Len(received) <= Len(accepted)
    BY SizeIs, QueueAssumption DEF IndInv, TypeOK, Counted, Released, Held
  <2> QED
    BY <2>1 DEF IndInv, TypeOK, Delivered
<1> QED
  BY <1>4, <1>5, <1>6, <1>7, <1>8, <1>9 DEF IndInv

LEMMA BeginReadInv == IndInv /\ BeginRead => IndInv'
<1> SUFFICES ASSUME IndInv, BeginRead PROVE IndInv'
  OBVIOUS
<1>1. consumer_slot = consumer_index /\ ~empty
  BY DEF BeginRead, consumer_slot, empty
<1>2. Counted' /\ InRing' /\ Delivered'
  BY DEF BeginRead, IndInv, Counted, InRing, Delivered, Released, size, Pos
<1>3. TypeOK'
  BY <1>1 DEF BeginRead, IndInv, TypeOK
<1>4. Granted' /\ Held' /\ InHand' /\ Whole'
  BY <1>1 DEF BeginRead, IndInv, Granted, Held, InHand, Whole, has_space, empty
<1> QED
  BY <1>2, <1>3, <1>4 DEF IndInv

\* The frame that was read is the oldest accepted frame not yet received.
LEMMA EndReadInv == IndInv /\ EndRead => IndInv'
<1> SUFFICES ASSUME IndInv, EndRead PROVE IndInv'
  OBVIOUS
<1>1. received' = Append(received, slots[consumer_index])
  BY DEF EndRead, IndInv, InHand
<1>2. TypeOK'
  BY <1>1 DEF EndRead, IndInv, TypeOK
<1>3. Released' = Released /\ Released = Len(received)
  BY <1>1 DEF EndRead, IndInv, TypeOK, Released
<1>4. Counted' /\ InRing'
  BY <1>3 DEF EndRead, IndInv, Counted, InRing, size, Pos
<1>5. slots[consumer_index] = accepted[Len(received) + 1]
  <2>1. size \in 0 .. Capacity /\ size # 0
    BY SizeIs DEF EndRead, IndInv, TypeOK, Held
  <2>2. Pos(0) = consumer_index
    BY PosIs, QueueAssumption DEF IndInv, TypeOK, Slots
  <2>3. 1 \in 1 .. size /\ 1 - 1 = 0
    BY <2>1, QueueAssumption
  <2> QED
    BY <1>3, <2>2, <2>3 DEF IndInv, InRing
<1>6. Delivered'
  BY <1>1, <1>5 DEF EndRead, IndInv, TypeOK, Delivered
<1>7. Granted' /\ Held' /\ InHand' /\ Whole'
  BY DEF EndRead, IndInv, Granted, Held, InHand, Whole, has_space, empty
<1> QED
  BY <1>2, <1>4, <1>6, <1>7 DEF IndInv

\* The released slot leaves the ring at its head.
LEMMA ReleaseInv == IndInv /\ Release => IndInv'
<1> SUFFICES ASSUME IndInv, Release PROVE IndInv'
  OBVIOUS
<1> USE DEF Release, release
<1>1. size \in 1 .. Capacity
  BY SizeIs, QueueAssumption DEF IndInv, TypeOK, Held
<1> DEFINE succ == IF consumer_index = Capacity THEN 0 ELSE consumer_index + 1
<1>0. consumer_index' = succ
  BY NextSlot DEF IndInv, TypeOK
<1>2. consumer_index' \in Slots /\ size' = size - 1
  BY <1>1, <1>0, QueueAssumption DEF IndInv, TypeOK, Slots, size, SlotCount
<1>3. Released' = Released + 1
  BY DEF IndInv, TypeOK, Released
<1>4. TypeOK'
  BY <1>2 DEF IndInv, TypeOK
<1>5. Granted'
  <2>1. next(producer_index) = IF producer_index = Capacity THEN 0 ELSE producer_index + 1
    BY NextSlot DEF IndInv, TypeOK
  <2>2. consumer_index # producer_index
    BY DEF IndInv, Held, empty
  <2>3. next(producer_index) # succ
    BY <2>1, <2>2, QueueAssumption DEF IndInv, TypeOK, Slots
  <2>4. next(producer_index)' = next(producer_index)
    BY DEF next
  <2> QED
    BY <1>0, <2>3, <2>4 DEF Granted, has_space
<1>6. Held' /\ InHand' /\ Whole'
  BY DEF IndInv, Held, InHand, Whole
<1>7. Counted'
  BY <1>1, <1>2, <1>3, QueueAssumption DEF IndInv, Counted
<1>8. InRing'
  <2> SUFFICES ASSUME NEW k \in 1 .. size - 1
               PROVE  slots[Pos(k - 1)'] = accepted[Released + 1 + k]
    BY <1>2, <1>3 DEF InRing
  <2>1. k + 1 \in 1 .. size /\ k \in 0 .. Capacity
    BY <1>1, QueueAssumption
  <2>2. Pos(k - 1)' = Pos(k)
    <3> consumer_index \in 0 .. Capacity /\ k \in Nat /\ Capacity \in Nat
      BY <2>1, QueueAssumption DEF IndInv, TypeOK, Slots
    <3>1. CASE consumer_index = Capacity
      BY <1>0, <2>1, <3>1 DEF Pos, SlotCount
    <3>2. CASE consumer_index # Capacity
      BY <1>0, <2>1, <3>2 DEF Pos, SlotCount
    <3> QED
      BY <3>1, <3>2
  <2>3. slots[Pos(k)] = accepted[Released + (k + 1)]
    BY <2>1 DEF IndInv, InRing
  <2> QED
    BY <2>1, <2>2, <2>3 DEF IndInv, Counted
<1>9. Delivered'
  BY DEF IndInv, Delivered
<1> QED
  BY <1>4, <1>5, <1>6, <1>7, <1>8, <1>9 DEF IndInv

LEMMA StepInv == IndInv /\ [Next]_vars => IndInv'
<1> SUFFICES ASSUME IndInv, [Next]_vars PROVE IndInv'
  OBVIOUS
<1>1. CASE CheckSpace
  BY <1>1, CheckSpaceInv
<1>2. CASE BeginReceive
  BY <1>2, FillInv DEF BeginReceive, Contents
<1>3. ASSUME NEW f \in Frames, CompleteReceive(f)
      PROVE  IndInv'
  BY <1>3, FillInv DEF CompleteReceive, Contents
<1>4. CASE AbandonReceive
  BY <1>4, AbandonReceiveInv
<1>5. CASE Publish
  BY <1>5, PublishInv
<1>6. CASE BeginRead
  BY <1>6, BeginReadInv
<1>7. CASE EndRead
  BY <1>7, EndReadInv
<1>8. CASE Release
  BY <1>8, ReleaseInv
<1>9. CASE UNCHANGED vars
  <2>1. Counted' /\ InRing' /\ Delivered'
    BY <1>9, RingKept DEF vars
  <2>2. TypeOK' /\ Granted' /\ Held' /\ InHand' /\ Whole'
    BY <1>9 DEF vars, IndInv, TypeOK, Granted, Held, InHand, Whole, has_space, empty
  <2> QED
    BY <2>1, <2>2 DEF IndInv
<1> QED
  BY <1>1, <1>2, <1>3, <1>4, <1>5, <1>6, <1>7, <1>8, <1>9 DEF Next, Acquire, Drain

\* The inductive invariant holds in every reachable state.
THEOREM Invariance == Spec => []IndInv
BY InitInv, StepInv, PTL DEF Spec

\* Every variable has its type; in particular both indices stay within the
\* slots allocated by the constructor.
THEOREM TypeCorrect == Spec => []TypeOK
<1>1. IndInv => TypeOK
  BY DEF IndInv
<1> QED
  BY <1>1, Invariance, PTL

\* recv never overwrites the slot that the worker is writing to disk.
THEOREM SlotExclusion == Spec => []SlotsDisjoint
<1>1. IndInv => SlotsDisjoint
  BY DEF IndInv, Held, SlotsDisjoint, producer_slot, empty
<1> QED
  BY <1>1, Invariance, PTL

-----------------------------------------------------------------------------
\* The frames between the two indices are those accepted and not received.
LEMMA BufferIsRest ==
  ASSUME IndInv
  PROVE  Buffer = Rest(accepted, received) /\ Len(received) <= Len(accepted)
<1>1. size \in 0 .. Capacity /\ (consumer = "read" => size # 0)
  BY SizeIs DEF IndInv, TypeOK, Held
<1>2. Len(accepted) = Released + size /\ Released \in Nat
  BY DEF IndInv, Counted
<1>3. Ring = [k \in 1 .. size |-> accepted[Released + k]]
  <2> SUFFICES ASSUME NEW k \in 1 .. size
               PROVE  slots[(consumer_index + k - 1) % SlotCount] = accepted[Released + k]
    BY DEF Ring
  <2>1. slots[Pos(k - 1)] = accepted[Released + k]
    BY DEF IndInv, InRing
  <2>2. consumer_index + (k - 1) = consumer_index + k - 1
    BY <1>1, QueueAssumption DEF IndInv, TypeOK, Slots
  <2> QED
    BY <2>1, <2>2 DEF Pos
<1>4. CASE consumer = "read"
  <2>1. Released = Len(received) - 1
    BY <1>4 DEF Released
  <2>2. Ring \in Seq(Frames) /\ Len(Ring) = size
    BY <1>1, <1>2, <1>3, QueueAssumption DEF IndInv, TypeOK
  <2>3. Len(received) <= Len(accepted)
    BY <1>1, <1>2, <1>4, <2>1, QueueAssumption DEF IndInv, TypeOK
  <2>4. Rest(accepted, received) \in Seq(Frames)
        /\ Len(Rest(accepted, received)) = size - 1
    BY <1>1, <1>2, <2>1, <2>3, RestSeq, QueueAssumption DEF IndInv, TypeOK
  <2>5. Tail(Ring) \in Seq(Frames) /\ Len(Tail(Ring)) = size - 1
    BY <1>1, <1>4, <2>2, QueueAssumption
  <2>6. \A k \in 1 .. size - 1 : Tail(Ring)[k] = Rest(accepted, received)[k]
    <3> SUFFICES ASSUME NEW k \in 1 .. size - 1
                 PROVE  Tail(Ring)[k] = Rest(accepted, received)[k]
      OBVIOUS
    <3>1. Tail(Ring)[k] = Ring[k + 1]
      BY <1>1, <2>2, QueueAssumption
    <3>2. Ring[k + 1] = accepted[Released + (k + 1)]
      BY <1>1, <1>3, QueueAssumption
    <3>3. Rest(accepted, received)[k] = accepted[Len(received) + k]
      BY <1>1, <1>2, <2>1, QueueAssumption DEF Rest, IndInv, TypeOK
    <3>4. Released + (k + 1) = Len(received) + k
      BY <1>1, <1>2, <2>1, QueueAssumption DEF IndInv, TypeOK
    <3> QED
      BY <3>1, <3>2, <3>3, <3>4
  <2>7. Tail(Ring) = Rest(accepted, received)
    BY <2>4, <2>5, <2>6, SeqEqual
  <2> QED
    BY <1>4, <2>3, <2>7 DEF Buffer
<1>5. CASE consumer # "read"
  BY <1>1, <1>2, <1>3, <1>5, QueueAssumption DEF Buffer, Rest, Released, IndInv, TypeOK
<1> QED
  BY <1>4, <1>5

LEMMA IndInvConserves == IndInv => Conservation
<1> SUFFICES ASSUME IndInv PROVE Conservation
  OBVIOUS
<1>1. Buffer = Rest(accepted, received) /\ Len(received) <= Len(accepted)
  BY BufferIsRest
<1>2. accepted \in Seq(Frames) /\ received \in Seq(Contents)
  BY DEF IndInv, TypeOK
<1>3. \A k \in 1 .. Len(received) : received[k] = accepted[k]
  BY DEF IndInv, Delivered
<1>4. accepted = received \o Rest(accepted, received)
  <2>1. Len(received) <= Len(accepted)
    BY <1>1
  <2> HIDE DEF Rest
  <2> QED
    BY <1>2, <1>3, <2>1, RestCompletes
<1> QED
  BY <1>1, <1>4 DEF Conservation

\* Every accepted frame is received once, in order and intact, or is still
\* in the ring.
THEOREM FramesConserved == Spec => []Conservation
BY IndInvConserves, Invariance, PTL

-----------------------------------------------------------------------------
(* The ring implements the bounded buffer.                                 *)

LEMMA InitRefines == Init => Fifo!Init
<1> SUFFICES ASSUME Init PROVE Fifo!Init
  OBVIOUS
<1>1. Buffer = Rest(accepted, received)
  BY InitInv, BufferIsRest
<1>2. accepted = << >> /\ received = << >>
  BY DEF Init
<1>3. Len(accepted) = 0 /\ Len(received) = 0
  BY <1>2
<1>4. Rest(accepted, received) \in Seq(Frames) /\ Len(Rest(accepted, received)) = 0
  <2>1. accepted \in Seq(Frames) /\ received \in Seq(Contents)
    BY InitInv DEF IndInv, TypeOK
  <2>2. Len(received) <= Len(accepted)
    BY <1>3
  <2>3. Len(Rest(accepted, received)) = Len(accepted) - Len(received)
        /\ Rest(accepted, received) \in Seq(Frames)
    BY <2>1, <2>2, RestSeq
  <2> QED
    BY <1>3, <2>3
<1>5. Rest(accepted, received) = << >>
  BY <1>4, EmptySeq
<1> QED
  BY <1>1, <1>2, <1>5 DEF Fifo!Init

LEMMA StepRefines == IndInv /\ IndInv' /\ [Next]_vars => [Fifo!Next]_(Fifo!fifo_vars)
<1> SUFFICES ASSUME IndInv, IndInv', [Next]_vars
             PROVE  [Fifo!Next]_(Fifo!fifo_vars)
  OBVIOUS
<1>1. Buffer = Rest(accepted, received) /\ Len(received) <= Len(accepted)
  BY BufferIsRest
<1>2. Buffer' = Rest(accepted', received')
  <2>1. (Buffer = Rest(accepted, received))'
    BY BufferIsRest, PTL
  <2> QED
    BY <2>1 DEF Rest
<1>3. ASSUME UNCHANGED <<accepted, received>>
      PROVE  UNCHANGED Fifo!fifo_vars
  BY <1>1, <1>2, <1>3 DEF Fifo!fifo_vars
<1>4. CASE Publish
  <2> DEFINE f == slots[producer_slot]
  <2>1. f \in Frames /\ accepted' = Append(accepted, f) /\ received' = received
    BY <1>4 DEF Publish, IndInv, Whole, producer_slot
  <2>2. Buffer' = Append(Buffer, f)
    BY <1>1, <1>2, <2>1, RestAppend DEF IndInv, TypeOK
  <2>3. Len(Buffer) < Capacity
    <3>1. size < Capacity /\ size \in 0 .. Capacity
      BY <1>4, SizeIs DEF Publish, IndInv, TypeOK, Granted
    <3>2. Len(Buffer) = Len(accepted) - Len(received)
      BY <1>1, RestSeq DEF IndInv, TypeOK
    <3>3. Len(accepted) - Len(received) <= size
      BY <3>1, QueueAssumption DEF IndInv, TypeOK, Counted, Released
    <3> QED
      BY <3>1, <3>2, <3>3, QueueAssumption DEF IndInv, TypeOK
  <2>4. Fifo!Enqueue(f)
    BY <2>1, <2>2, <2>3 DEF Fifo!Enqueue
  <2> QED
    BY <2>1, <2>4 DEF Fifo!Next
<1>5. CASE EndRead
  <2>1. accepted' = accepted /\ received' = Append(received, slots[consumer_index])
    BY <1>5 DEF EndRead, IndInv, InHand
  <2>2. Len(received) < Len(accepted)
    <3>1. size \in 1 .. Capacity
      BY <1>5, SizeIs, QueueAssumption DEF EndRead, IndInv, TypeOK, Held
    <3> QED
      BY <1>5, <3>1, QueueAssumption DEF EndRead, IndInv, TypeOK, Counted, Released
  <2>3. slots[consumer_index] \in Contents
    BY DEF IndInv, TypeOK
  <2>4. Buffer # << >> /\ Buffer' = Tail(Buffer) /\ Head(Buffer) = accepted[Len(received) + 1]
    BY <1>1, <1>2, <2>1, <2>2, <2>3, RestTail DEF IndInv, TypeOK
  <2>5. received'[Len(received) + 1] = accepted'[Len(received) + 1]
    BY <2>1, <2>3 DEF IndInv, TypeOK, Delivered
  <2>6. received' = Append(received, Head(Buffer))
    BY <2>1, <2>3, <2>4, <2>5 DEF IndInv, TypeOK
  <2> QED
    BY <2>4, <2>6 DEF Fifo!Dequeue, Fifo!Next
<1> QED
  BY <1>3, <1>4, <1>5
  DEF Next, Acquire, Drain, CheckSpace, BeginReceive, CompleteReceive,
      AbandonReceive, BeginRead, Release, vars

\* The ring, used by the two threads as main.cpp uses it, is a bounded
\* first-in first-out buffer.
THEOREM QueueRefinement == Spec => ImplementsFifo
<1>1. Spec => Fifo!Spec
  BY InitRefines, StepRefines, Invariance, PTL DEF Spec, Fifo!Spec
<1> QED
  BY <1>1 DEF ImplementsFifo

-----------------------------------------------------------------------------
(* The ring under the memory model of C++ (module QueueMemory): what a     *)
(* thread has loaded is never newer than what is there, and less than a    *)
(* trip around the ring older.  So what the producer sees as room is room, *)
(* and what the consumer sees as a frame is one.                           *)

\* The indices are the counts of the two threads, taken round the ring.
IndexOK ==
  /\ producer_index = Published % SlotCount
  /\ consumer_index = Released % SlotCount

\* What a thread has seen of the other was there, and is what it has
\* synchronised with.
SeenOK ==
  /\ seen \in [Threads -> Nat]
  /\ synced = seen
  /\ seen["producer"] <= Released
  /\ seen["consumer"] <= Published

\* What it has seen is enough for what it is doing.
EnoughSeen ==
  /\ seen["producer"] + SlotCount > Published
  /\ producer \in {"granted", "filling", "filled"} =>
       seen["producer"] + SlotCount > Published + 1
  /\ seen["consumer"] >= Released
  /\ consumer \in {"reading", "read"} => seen["consumer"] > Released

MemInv == IndInv /\ IndexOK /\ SeenOK /\ EnoughSeen

-----------------------------------------------------------------------------
(* Arithmetic.                                                             *)

LEMMA Division ==
  ASSUME NEW N \in Nat \ {0}, NEW n \in Nat
  PROVE  \E q \in Nat, r \in 0 .. N - 1 : n % N = r /\ n = (N * q) + r
<1>1. n \div N \in Nat /\ n % N \in 0 .. N - 1 /\ n = (N * (n \div N)) + (n % N)
  OBVIOUS
<1> QED
  BY <1>1

\* A number has one remainder.
LEMMA Remainder ==
  ASSUME NEW N \in Nat \ {0}, NEW n \in Nat, NEW q \in Nat, NEW r \in 0 .. N - 1,
         n = (N * q) + r
  PROVE  n % N = r
<1>1. ASSUME NEW a \in Nat, NEW b \in Nat, a < b
      PROVE  (N * a) + N <= N * b
  <2>1. PICK d \in Nat : b = a + 1 + d
    <3>1. b - (a + 1) \in Nat /\ b = a + 1 + (b - (a + 1))
      BY <1>1
    <3> QED
      BY <3>1
  <2>2. N * b = (N * a) + N + (N * d)
    BY <2>1
  <2>3. N * d \in Nat /\ N * a \in Nat
    OBVIOUS
  <2> QED
    BY <2>2, <2>3
<1>2. PICK p \in Nat, s \in 0 .. N - 1 : n % N = s /\ n = (N * p) + s
  BY Division
<1>3. N * p \in Nat /\ N * q \in Nat
  OBVIOUS
<1>4. ~(p < q) /\ ~(q < p)
  BY <1>1, <1>2, <1>3
<1>5. p = q
  BY <1>4
<1>6. (N * q) + s = (N * q) + r
  BY <1>2, <1>5
<1> QED
  BY <1>2, <1>3, <1>6

\* One trip around the ring ends at the same slot.
LEMMA Around ==
  ASSUME NEW n \in Nat
  PROVE  (n + SlotCount) % SlotCount = n % SlotCount
<1> DEFINE N == SlotCount
<1>1. N \in Nat \ {0}
  BY QueueAssumption DEF SlotCount
<1> HIDE DEF N
<1>2. PICK q \in Nat, r \in 0 .. N - 1 : n % N = r /\ n = (N * q) + r
  BY <1>1, Division
<1>3. n + N = (N * (q + 1)) + r /\ n + N \in Nat
  BY <1>1, <1>2
<1>4. (n + N) % N = r
  BY <1>1, <1>2, <1>3, Remainder
<1> QED
  BY <1>2, <1>4 DEF N

\* The slot after that of a count is the slot of the next count.
LEMMA NextCount ==
  ASSUME NEW n \in Nat
  PROVE  n % SlotCount \in Slots /\ next(n % SlotCount) = (n + 1) % SlotCount
<1> DEFINE N == SlotCount
<1>1. N \in Nat \ {0} /\ Slots = 0 .. N - 1 /\ Capacity = N - 1
  BY QueueAssumption DEF SlotCount, Slots
<1> HIDE DEF N
<1>2. PICK q \in Nat, r \in 0 .. N - 1 : n % N = r /\ n = (N * q) + r
  BY <1>1, Division
<1>3. next(r) = IF r = Capacity THEN 0 ELSE r + 1
  BY <1>1, <1>2, NextSlot
<1>4. CASE r = N - 1
  <2>1. PICK z \in 0 .. N - 1 : z = 0 /\ n + 1 = (N * (q + 1)) + z
    BY <1>1, <1>2, <1>4
  <2>2. (n + 1) % N = z
    <3>1. n + 1 \in Nat /\ q + 1 \in Nat
      BY <1>2
    <3> QED
      BY <1>1, <2>1, <3>1, Remainder
  <2> QED
    BY <1>1, <1>2, <1>3, <1>4, <2>1, <2>2 DEF N
<1>5. CASE r # N - 1
  <2>1. n + 1 = (N * q) + (r + 1) /\ r + 1 \in 0 .. N - 1 /\ n + 1 \in Nat
    BY <1>1, <1>2, <1>5
  <2>2. (n + 1) % N = r + 1
    BY <1>1, <2>1, Remainder
  <2> QED
    BY <1>1, <1>2, <1>3, <1>5, <2>2 DEF N
<1> QED
  BY <1>4, <1>5

LEMMA Counts ==
  ASSUME IndInv
  PROVE  /\ Published \in Nat /\ Released \in Nat
         /\ size \in 0 .. Capacity
         /\ Published = Released + size
BY SizeIs DEF IndInv, TypeOK, Counted, Published, Released

-----------------------------------------------------------------------------
(* Old views of an index.                                                  *)

\* The producer sees room only where there is room, and then has
\* synchronised with the last use of the slot it is granted.
LEMMA RoomIsRoom ==
  ASSUME MemInv, NEW n \in seen["producer"] .. Released, ProducerView(n)!CheckSpace
  PROVE  /\ producer = "idle"
         /\ \/ producer' = "stopped"
            \/ producer' = "granted" /\ has_space /\ n + SlotCount > Published + 1
         /\ UNCHANGED <<slots, producer_index, consumer, in_hand, accepted, received>>
<1>1. /\ producer = "idle"
      /\ producer' = IF next(producer_index) # n % SlotCount THEN "granted" ELSE "stopped"
      /\ UNCHANGED <<slots, producer_index, consumer, in_hand, accepted, received>>
  BY DEF ProducerView!CheckSpace, ProducerView!has_space, ProducerView!next,
         ProducerView!SlotCount, next, SlotCount
<1>2. /\ Published \in Nat /\ Released \in Nat /\ seen["producer"] \in Nat
      /\ size \in 0 .. Capacity /\ Published = Released + size
  BY Counts DEF MemInv, SeenOK, Threads
<1>3. Capacity \in Nat /\ SlotCount = Capacity + 1
  BY QueueAssumption DEF SlotCount
<1>4. ASSUME next(producer_index) # n % SlotCount
      PROVE  has_space /\ n + SlotCount > Published + 1
  <2>1. next(producer_index) = (Published + 1) % SlotCount
    BY <1>2, NextCount DEF MemInv, IndexOK
  <2>2. (n + SlotCount) % SlotCount = n % SlotCount
    BY <1>2, Around
  <2>3. n + SlotCount # Published + 1
    BY <1>4, <2>1, <2>2
  <2>4. n + SlotCount > Published
    BY <1>2, <1>3 DEF MemInv, EnoughSeen
  <2>5. n + SlotCount > Published + 1
    BY <1>2, <1>3, <2>3, <2>4
  <2>6. size < Capacity
    BY <1>2, <1>3, <2>5
  <2> QED
    BY <2>5, <2>6, SizeIs DEF MemInv, IndInv, TypeOK
<1> QED
  BY <1>1, <1>4

\* The consumer sees a frame only where there is one, and then has
\* synchronised with the recv that put it there.
LEMMA FrameIsThere ==
  ASSUME MemInv, NEW n \in seen["consumer"] .. Published, ConsumerView(n)!BeginRead,
         UNCHANGED producer_index
  PROVE  BeginRead /\ n > Released
<1>1. /\ consumer = "idle" /\ consumer' = "reading"
      /\ consumer_index # n % SlotCount
      /\ in_hand' = slots[consumer_index]
      /\ UNCHANGED <<slots, producer_index, consumer_index, producer, accepted, received>>
  BY DEF ConsumerView!BeginRead, ConsumerView!consumer_slot, ConsumerView!NullSlot,
         ConsumerView!SlotCount, SlotCount
<1>2. /\ Published \in Nat /\ Released \in Nat /\ seen["consumer"] \in Nat
      /\ size \in 0 .. Capacity /\ Published = Released + size
  BY Counts DEF MemInv, SeenOK, Threads
<1>3. n > Released
  <2>1. n # Released
    BY <1>1 DEF MemInv, IndexOK
  <2>2. n >= Released
    BY <1>2 DEF MemInv, EnoughSeen
  <2> QED
    BY <1>2, <2>1, <2>2
<1>4. ~empty
  <2>1. size # 0
    BY <1>2, <1>3, QueueAssumption
  <2> QED
    BY <2>1, SizeIs DEF MemInv, IndInv, TypeOK
<1>5. consumer_slot = consumer_index /\ consumer_index # NullSlot
  BY <1>4, QueueAssumption DEF consumer_slot, empty, NullSlot, MemInv, IndInv, TypeOK, Slots
<1> QED
  BY <1>1, <1>3, <1>5 DEF BeginRead

-----------------------------------------------------------------------------
(* The invariant.                                                          *)

LEMMA MemoryInitially == MemoryInit => MemInv
<1> SUFFICES ASSUME MemoryInit PROVE MemInv
  OBVIOUS
<1>1. IndInv /\ accepted = << >> /\ received = << >> /\ consumer = "idle"
      /\ producer = "idle" /\ producer_index = 0 /\ consumer_index = 0
  BY InitInv DEF MemoryInit, Init
<1>2. Published = 0 /\ Released = 0
  BY <1>1 DEF Published, Released
<1>3. SlotCount \in Nat \ {0}
  BY QueueAssumption DEF SlotCount
<1>4. 0 % SlotCount = 0
  BY <1>3
<1> QED
  BY <1>1, <1>2, <1>3, <1>4 DEF MemoryInit, MemInv, IndexOK, SeenOK, EnoughSeen, Threads

LEMMA ProducerLoadsStep == MemInv /\ ProducerLoads => MemInv'
<1> SUFFICES ASSUME MemInv, NEW n \in seen["producer"] .. Released,
                    ProducerView(n)!CheckSpace, Load("producer", n),
                    UNCHANGED consumer_index
             PROVE  MemInv'
  BY DEF ProducerLoads
<1>1. /\ producer = "idle"
      /\ \/ producer' = "stopped"
         \/ producer' = "granted" /\ has_space /\ n + SlotCount > Published + 1
      /\ UNCHANGED <<slots, producer_index, consumer_index, consumer, in_hand, accepted,
                     received>>
  BY RoomIsRoom
<1>2. IndInv'
  <2>1. Counted' /\ InRing' /\ Delivered'
    BY <1>1, RingKept DEF MemInv
  <2>2. TypeOK' /\ Granted' /\ Held' /\ InHand' /\ Whole'
    BY <1>1 DEF MemInv, IndInv, TypeOK, Granted, Held, InHand, Whole, has_space, empty
  <2> QED
    BY <2>1, <2>2 DEF IndInv
<1>3. Published' = Published /\ Released' = Released
  BY <1>1 DEF Published, Released
<1>4. /\ Published \in Nat /\ Released \in Nat /\ seen["producer"] \in Nat
      /\ SlotCount \in Nat
  BY Counts, QueueAssumption DEF MemInv, SeenOK, Threads, SlotCount
<1>5. /\ seen' = [seen EXCEPT !["producer"] = n] /\ n \in Nat
      /\ synced' = seen'
  BY <1>4 DEF Load, Acquired, MemInv, SeenOK
<1>6. seen'["producer"] = n /\ seen'["consumer"] = seen["consumer"]
  BY <1>5 DEF MemInv, SeenOK, Threads
<1>7. SeenOK'
  BY <1>3, <1>4, <1>5, <1>6 DEF MemInv, SeenOK, Threads
<1>8. EnoughSeen'
  <2>1. n + SlotCount > Published
    BY <1>4 DEF MemInv, EnoughSeen
  <2> QED
    BY <1>1, <1>3, <1>4, <1>6, <2>1 DEF MemInv, EnoughSeen
<1>9. IndexOK'
  BY <1>1, <1>3 DEF MemInv, IndexOK
<1> QED
  BY <1>2, <1>7, <1>8, <1>9 DEF MemInv

LEMMA ConsumerLoadsStep == MemInv /\ ConsumerLoads => MemInv'
<1> SUFFICES ASSUME MemInv, NEW n \in seen["consumer"] .. Published,
                    ConsumerView(n)!BeginRead, Load("consumer", n),
                    UNCHANGED producer_index
             PROVE  MemInv'
  BY DEF ConsumerLoads
<1>1. BeginRead /\ n > Released
  BY FrameIsThere
<1>2. IndInv'
  BY <1>1, BeginReadInv DEF MemInv
<1>3. Published' = Published /\ Released' = Released
  BY <1>1 DEF BeginRead, Published, Released
<1>4. Published \in Nat /\ Released \in Nat /\ seen["consumer"] \in Nat
  BY Counts DEF MemInv, SeenOK, Threads
<1>5. /\ seen' = [seen EXCEPT !["consumer"] = n] /\ n \in Nat
      /\ synced' = seen'
  BY <1>4 DEF Load, Acquired, MemInv, SeenOK
<1>6. seen'["consumer"] = n /\ seen'["producer"] = seen["producer"]
  BY <1>5 DEF MemInv, SeenOK, Threads
<1>7. SeenOK'
  BY <1>3, <1>4, <1>5, <1>6 DEF MemInv, SeenOK, Threads
<1>8. EnoughSeen'
  BY <1>1, <1>3, <1>4, <1>6 DEF MemInv, EnoughSeen, BeginRead
<1>9. IndexOK'
  BY <1>1, <1>3 DEF MemInv, IndexOK, BeginRead
<1> QED
  BY <1>2, <1>7, <1>8, <1>9 DEF MemInv

\* The other steps make more room, or more frames, than was seen; a thread
\* uses up what it has seen only by its own store.
LEMMA OwnStepStep == MemInv /\ OwnStep => MemInv'
<1> SUFFICES ASSUME MemInv, OwnStep PROVE MemInv'
  OBVIOUS
<1>1. IndInv'
  BY StepInv DEF MemInv, OwnStep, Next, Acquire, Drain
<1>2. seen' = seen /\ synced' = synced
  BY DEF OwnStep, memory
<1>3. /\ Published \in Nat /\ Released \in Nat /\ Published' \in Nat /\ Released' \in Nat
      /\ seen["producer"] \in Nat /\ seen["consumer"] \in Nat /\ SlotCount \in Nat
  BY <1>1, Counts, QueueAssumption DEF MemInv, SeenOK, Threads, SlotCount, IndInv, TypeOK,
     Counted, Published, Released
<1>4. CASE Publish
  <2>1. Published' = Published + 1 /\ Released' = Released
    BY <1>4 DEF Publish, Published, Released, MemInv, IndInv, TypeOK, Whole
  <2>2. producer_index' = Published' % SlotCount
    BY <1>3, <1>4, <2>1, NextCount DEF MemInv, IndexOK, Publish, publish
  <2>3. IndexOK'
    BY <1>4, <2>1, <2>2 DEF MemInv, IndexOK, Publish
  <2>4. SeenOK'
    BY <1>2, <1>3, <2>1 DEF MemInv, SeenOK
  <2>5. EnoughSeen'
    BY <1>2, <1>3, <1>4, <2>1 DEF MemInv, EnoughSeen, Publish
  <2> QED
    BY <1>1, <2>3, <2>4, <2>5 DEF MemInv
<1>5. CASE Release
  <2>1. Released' = Released + 1 /\ Published' = Published
    BY <1>5 DEF Release, Published, Released, MemInv, IndInv, TypeOK
  <2>2. consumer_index' = Released' % SlotCount
    BY <1>3, <1>5, <2>1, NextCount DEF MemInv, IndexOK, Release, release
  <2>3. IndexOK'
    BY <1>5, <2>1, <2>2 DEF MemInv, IndexOK, Release
  <2>4. SeenOK'
    BY <1>2, <1>3, <2>1 DEF MemInv, SeenOK
  <2>5. EnoughSeen'
    BY <1>2, <1>3, <1>5, <2>1 DEF MemInv, EnoughSeen, Release
  <2> QED
    BY <1>1, <2>3, <2>4, <2>5 DEF MemInv
<1>6. CASE EndRead
  <2>1. Released' = Released /\ Published' = Published
    BY <1>6 DEF EndRead, Published, Released, MemInv, IndInv, TypeOK
  <2>2. IndexOK' /\ SeenOK'
    BY <1>2, <1>6, <2>1 DEF MemInv, IndexOK, SeenOK, EndRead
  <2>3. EnoughSeen'
    BY <1>2, <1>6, <2>1 DEF MemInv, EnoughSeen, EndRead
  <2> QED
    BY <1>1, <2>2, <2>3 DEF MemInv
<1>7. CASE BeginReceive \/ (\E f \in Frames : CompleteReceive(f)) \/ AbandonReceive
  <2>1. /\ producer \in {"granted", "filling"}
        /\ producer' \in {"filling", "filled", "stopped"}
        /\ UNCHANGED <<producer_index, consumer_index, consumer, accepted, received>>
    BY <1>7 DEF BeginReceive, CompleteReceive, AbandonReceive
  <2>2. Released' = Released /\ Published' = Published
    BY <2>1 DEF Published, Released
  <2>3. IndexOK' /\ SeenOK'
    BY <1>2, <2>1, <2>2 DEF MemInv, IndexOK, SeenOK
  <2>4. EnoughSeen'
    BY <1>2, <2>1, <2>2 DEF MemInv, EnoughSeen
  <2> QED
    BY <1>1, <2>3, <2>4 DEF MemInv
<1> QED
  BY <1>4, <1>5, <1>6, <1>7 DEF OwnStep

\* What the threads have seen of each other suffices in every reachable state.
THEOREM MemoryInvariance == MemorySpec => []MemInv
<1>1. MemInv /\ [MemoryNext]_<<vars, memory>> => MemInv'
  <2> SUFFICES ASSUME MemInv, [MemoryNext]_<<vars, memory>> PROVE MemInv'
    OBVIOUS
  <2>1. CASE UNCHANGED <<vars, memory>>
    <3>1. IndInv'
      BY <2>1, StepInv DEF MemInv
    <3>2. Published' = Published /\ Released' = Released
      BY <2>1 DEF vars, Published, Released
    <3> QED
      BY <2>1, <3>1, <3>2 DEF MemInv, IndexOK, SeenOK, EnoughSeen, vars, memory
  <2> QED
    BY <2>1, ProducerLoadsStep, ConsumerLoadsStep, OwnStepStep DEF MemoryNext
<1> QED
  BY <1>1, MemoryInitially, PTL DEF MemorySpec

-----------------------------------------------------------------------------
(* What follows.                                                           *)

\* The worker's last use of a slot happens before recv overwrites it, and recv
\* happens before the worker reads what it put there.
THEOREM NoDataRace == MemorySpec => []RaceFree
<1>1. MemInv => RaceFree
  <2> SUFFICES ASSUME MemInv PROVE RaceFree
    OBVIOUS
  <2>1. Published \in Nat /\ seen["producer"] \in Nat /\ SlotCount \in Nat
    BY Counts, QueueAssumption DEF MemInv, SeenOK, Threads, SlotCount
  <2> QED
    BY <2>1 DEF MemInv, SeenOK, EnoughSeen, RaceFree
<1> QED
  BY <1>1, MemoryInvariance, PTL

\* Old views of the indices take nothing away from what the queue promises: the
\* two threads never use one slot, and every frame is read once, in order.
THEOREM StaleLoads == MemorySpec => [](SlotsDisjoint /\ Conservation)
<1>1. MemInv => SlotsDisjoint /\ Conservation
  BY IndInvConserves
     DEF MemInv, IndInv, Held, SlotsDisjoint, producer_slot, empty
<1> QED
  BY <1>1, MemoryInvariance, PTL

\* The ring whose threads see old indices still implements the bounded FIFO: a
\* load that finds the ring full or empty without need is no step of it.
THEOREM MemoryRefinement == MemorySpec => ImplementsFifo
<1>1. MemInv /\ MemInv' /\ [MemoryNext]_<<vars, memory>>
        => [Fifo!Next]_(Fifo!fifo_vars)
  <2> SUFFICES ASSUME MemInv, MemInv', [MemoryNext]_<<vars, memory>>
               PROVE  [Fifo!Next]_(Fifo!fifo_vars)
    OBVIOUS
  <2>1. CASE [Next]_vars
    BY <2>1, StepRefines DEF MemInv
  <2>2. CASE ProducerLoads
    <3>1. UNCHANGED <<slots, producer_index, consumer_index, consumer, received>>
      BY <2>2, RoomIsRoom DEF ProducerLoads
    <3>2. Buffer' = Buffer
      BY <3>1 DEF Buffer, Ring, size
    <3> QED
      BY <3>1, <3>2 DEF Fifo!fifo_vars
  <2>3. CASE ConsumerLoads
    <3>1. BeginRead
      BY <2>3, FrameIsThere DEF ConsumerLoads
    <3> QED
      BY <3>1, <2>1 DEF Next, Drain
  <2>4. CASE OwnStep
    BY <2>4, <2>1 DEF OwnStep, Next, Acquire, Drain
  <2>5. CASE UNCHANGED <<vars, memory>>
    BY <2>5, <2>1
  <2> QED
    BY <2>2, <2>3, <2>4, <2>5 DEF MemoryNext
<1>2. MemorySpec => Fifo!Spec
  BY <1>1, InitRefines, MemoryInvariance, PTL DEF MemorySpec, MemoryInit, Fifo!Spec
<1> QED
  BY <1>2 DEF ImplementsFifo
=============================================================================
