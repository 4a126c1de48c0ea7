---------------------------- MODULE QueueMemory ----------------------------
(***************************************************************************)
(* The ring of module CaptureQueue under the memory model of C++.  A       *)
(* thread that loads the index of the OTHER thread may get any value not   *)
(* older than the last one it got: has_space and consumer_slot work on     *)
(* views, and answer "full" or "empty" too often, never too seldom.        *)
(*                                                                         *)
(* The bytes of a slot are plain memory.  They may be touched only if the  *)
(* other thread's last use of the slot happens before: that is what the    *)
(* release stores and acquire loads of the two indices are for.            *)
(***************************************************************************)
EXTENDS CaptureQueue

VARIABLES
  seen,     \* the count behind the newest value each thread has loaded
  synced    \* how many uses of slots by the other thread happen before
            \* whatever the thread does next

memory == <<seen, synced>>

Threads == {"producer", "consumer"}

\* How often each index was stored.
Published == Len(accepted)
Released == Len(received) - (IF consumer = "read" THEN 1 ELSE 0)

\* The queue as a thread sees it that got the n-th value of the other index.
ProducerView(n) == INSTANCE CaptureQueue WITH consumer_index <- n % SlotCount
ConsumerView(n) == INSTANCE CaptureQueue WITH producer_index <- n % SlotCount

\* Definitions named Variant_... are plausible mistakes, for checking that
\* the properties would notice them; no specification uses one.
Variant_Acquired_relaxed(t, n) == synced[t]

\* An acquire load that reads a release store makes everything before that
\* store happen before what follows the load.
Acquired(t, n) == n

Load(t, n) ==
  /\ seen' = [seen EXCEPT ![t] = n]
  /\ synced' = [synced EXCEPT ![t] = Acquired(t, n)]

MemoryInit ==
  /\ Init
  /\ seen = [t \in Threads |-> 0]
  /\ synced = [t \in Threads |-> 0]

ProducerLoads ==
  \E n \in seen["producer"] .. Released :
    /\ ProducerView(n)!CheckSpace
    /\ Load("producer", n)
    /\ UNCHANGED consumer_index

\* A load that shows an empty queue shows nothing newer than the one before.
ConsumerLoads ==
  \E n \in seen["consumer"] .. Published :
    /\ ConsumerView(n)!BeginRead
    /\ Load("consumer", n)
    /\ UNCHANGED producer_index

\* The other steps load only the thread's own index, or none.
OwnStep ==
  /\ \/ BeginReceive
     \/ \E f \in Frames : CompleteReceive(f)
     \/ AbandonReceive
     \/ Publish
     \/ EndRead
     \/ Release
  /\ UNCHANGED memory

MemoryNext == ProducerLoads \/ ConsumerLoads \/ OwnStep

MemorySpec == MemoryInit /\ [][MemoryNext]_<<vars, memory>>
-----------------------------------------------------------------------------
\* No data race on a slot: before recv overwrites it, the worker's last read
\* of it happens before; before the worker reads it, the bytes that recv put
\* there happen before.
RaceFree ==
  /\ producer \in {"granted", "filling", "filled"} =>
       synced["producer"] + SlotCount > Published
  /\ consumer = "reading" => synced["consumer"] > Released
=============================================================================
