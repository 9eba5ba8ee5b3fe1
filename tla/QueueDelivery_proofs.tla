------------------------ MODULE QueueDelivery_proofs ------------------------
(***************************************************************************)
(* Proofs about PersistentMessageQueue, continued: the counters of         *)
(* get_statistics() agree with size(); no message is held or delivered     *)
(* twice within one run of the process; and the queue implements           *)
(* TwoTierQueue, for an owner that calls any operation but clear().  For   *)
(* the last: what the ring, the disk index and the data file show as       *)
(* sequences, how each helper changes the sequences, and the step of       *)
(* TwoTierQueue that each action is.                                       *)
(***************************************************************************)
EXTENDS PersistentQueueRefinement, PersistentMessageQueue_proofs

-----------------------------------------------------------------------------
(* What a process that is not running has counted and delivered. *)
DownIsFresh ==
  phase = "down" => /\ session_popped = {} /\ next_message_id = 1
                    /\ total_enqueued = 0 /\ total_dequeued = 0

(* Sizes are natural numbers while the process runs. *)
LEMMA SizesTyped ==
  ASSUME RingTyped, DiskTyped
  PROVE  memory_size \in Nat /\ disk_size \in Nat /\ Len(disk_index) \in Nat
<1>1. memory_size \in Nat
  BY MemorySizeValue, CapacityAssumption DEF Slots
<1>2. Len(disk_index) \in Nat /\ disk_read_pos \in 0 .. Len(disk_index)
  BY DEF DiskTyped
<1>. QED
  BY <1>1, <1>2 DEF disk_size

(* Only a call that ends the process, or one that starts it, changes what  *)
(* DownIsFresh says.                                                       *)
LEMMA FreshKept ==
  ASSUME DownIsFresh, [Next]_vars
  PROVE  DownIsFresh'
<1>1. CASE phase' # "down"
  BY <1>1 DEF DownIsFresh
<1>2. CASE phase' = "down" /\ phase = "down"
  <2>1. UNCHANGED vars
    BY <1>2 DEF Next, Operation, Lifecycle, EnqueueMemory, EnqueueDisk, EnqueueRefused, Offer,
       PopMemory, PopDisk, DequeueDisk, LoadFromDisk, LoadStep, LoadReturn, FlushToDisk,
       FlushStep, FlushReturn, Clear, ClearIndexFile, Shutdown, SaveIndex, SaveChecksum,
       ExitWithoutIndex, Crash, Restart
  <2>. QED
    BY <1>2, <2>1 DEF DownIsFresh, vars, counts, ghosts
<1>3. CASE phase' = "down" /\ phase # "down"
  <2>1. ProcessGone
    BY <1>3 DEF Next, Operation, Lifecycle, EnqueueMemory, EnqueueDisk, EnqueueRefused, Offer,
       PopMemory, PopDisk, DequeueDisk, LoadFromDisk, LoadStep, LoadReturn, FlushToDisk,
       FlushStep, FlushReturn, Clear, ClearIndexFile, Shutdown, SaveIndex, SaveChecksum,
       ExitWithoutIndex, Crash, Restart, vars
  <2>. QED
    BY <2>1 DEF ProcessGone, DownIsFresh
<1>. QED
  BY <1>1, <1>2, <1>3

-----------------------------------------------------------------------------
(* How the two sizes change.                                               *)

(* A store, an append, a release and a consumed head each change one size  *)
(* by one.                                                                 *)
LEMMA StoreSize ==
  ASSUME RingTyped, ~RingFull, NEW m, StoreInRing(m)
  PROVE  memory_size' = memory_size + 1
BY StoreArithmetic DEF RingTyped, RingFull, StoreInRing, memory_size

LEMMA ReleaseSize ==
  ASSUME RingTyped, ~RingEmpty, ReleaseFront
  PROVE  memory_size' = memory_size - 1
BY ReleaseArithmetic DEF RingTyped, RingEmpty, ReleaseFront, memory_size

LEMMA WriteSize ==
  ASSUME FilesInv, DiskInv, NEW m \in Message, WriteToDisk(m)
  PROVE  disk_size' = disk_size + 1
<1>1. FilesInv' /\ DiskInv' /\ Len(data_file') = Len(data_file) + 1
  BY WriteToDiskEffect
<1>2. Len(disk_index') = Len(disk_index) + 1 /\ disk_read_pos' = disk_read_pos
  BY <1>1 DEF DiskInv, IndexTiles, WriteToDisk
<1>3. Len(disk_index) \in Nat /\ disk_read_pos \in Nat
  BY DEF DiskInv, DiskTyped
<1>. QED
  BY <1>2, <1>3 DEF disk_size

LEMMA AdvanceSize ==
  ASSUME DiskTyped, disk_read_pos' = disk_read_pos + 1, UNCHANGED disk_index
  PROVE  disk_size' = disk_size - 1
<1>1. Len(disk_index) \in Nat /\ disk_read_pos \in Nat
  BY DEF DiskTyped
<1>. QED
  BY <1>1 DEF disk_size

(* Every step changes the counters as it changes the sizes.                *)
LEMMA CountersStep ==
  ASSUME ClientUse, IInv, DownIsFresh, CountersMatch, [Next]_vars
  PROVE  CountersMatch'
<1>1. /\ RingTyped /\ CountsTyped /\ DiskTyped /\ FileGood /\ RingGood
      /\ phase # "down" => DiskInv
      /\ phase # "clear" /\ DownIsBlank
  BY IInvParts DEF RingGood, PhaseReached
<1>2. /\ total_enqueued \in Nat /\ total_dequeued \in Nat /\ base \in Int
      /\ memory_size \in Nat /\ disk_size \in Nat
  BY <1>1, SizesTyped DEF CountsTyped
<1>3. phase # "down" => total_enqueued + base = total_dequeued + (memory_size + disk_size)
  BY DEF CountersMatch, size
<1>4. SUFFICES ASSUME phase' # "down"
               PROVE  total_enqueued' + base' = total_dequeued' + (memory_size' + disk_size')
  BY DEF CountersMatch, size
<1>5. UNCHANGED ring => memory_size' = memory_size
  BY DEF ring, memory_size
<1>6. UNCHANGED disk => disk_size' = disk_size
  BY DEF disk, disk_size
<1>7. ASSUME NEW s \in Sizes, EnqueueMemory(s)
      PROVE  total_enqueued' + base' = total_dequeued' + (memory_size' + disk_size')
  <2>1. /\ phase # "down" /\ memory_size' = memory_size + 1 /\ disk_size' = disk_size
        /\ total_enqueued' = total_enqueued + 1 /\ UNCHANGED <<total_dequeued, base>>
    BY <1>1, <1>6, <1>7, StoreSize DEF EnqueueMemory, Offer, Accept
  <2>. QED
    BY <1>2, <1>3, <2>1
<1>8. ASSUME NEW s \in Sizes, EnqueueDisk(s)
      PROVE  total_enqueued' + base' = total_dequeued' + (memory_size' + disk_size')
  <2>1. NewMessage(s) \in Message
    BY <1>1, <1>8 DEF NewMessage, Message, CountsTyped
  <2>2. phase # "down" /\ WriteToDisk(NewMessage(s))
    BY <1>8 DEF EnqueueDisk, Offer
  <2>3. disk_size' = disk_size + 1
    BY <1>1, <2>1, <2>2, WriteSize DEF FileGood
  <2>4. /\ memory_size' = memory_size
        /\ total_enqueued' = total_enqueued + 1 /\ UNCHANGED <<total_dequeued, base>>
    BY <1>5, <1>8 DEF EnqueueDisk, Offer, Accept
  <2>. QED
    BY <1>2, <1>3, <2>2, <2>3, <2>4
<1>9. CASE EnqueueRefused
  <2>1. /\ phase # "down" /\ memory_size' = memory_size /\ disk_size' = disk_size
        /\ UNCHANGED <<total_enqueued, total_dequeued, base>>
    BY <1>5, <1>6, <1>9 DEF EnqueueRefused, Offer
  <2>. QED
    BY <1>2, <1>3, <2>1
<1>10. CASE PopMemory
  <2>1. /\ phase # "down" /\ memory_size' = memory_size - 1 /\ disk_size' = disk_size
        /\ total_dequeued' = total_dequeued + 1 /\ UNCHANGED <<total_enqueued, base>>
    BY <1>1, <1>6, <1>10, ReleaseSize DEF PopMemory, CountRemoved
  <2>. QED
    BY <1>2, <1>3, <2>1
<1>11. CASE PopDisk \/ DequeueDisk
  <2>1. phase # "down" /\ UNCHANGED ring /\ AdvanceDisk
        /\ total_dequeued' = total_dequeued + 1 /\ UNCHANGED <<total_enqueued, base>>
    BY <1>11 DEF PopDisk, DequeueDisk, CountRemoved
  <2>2. disk_size' = disk_size - 1
    BY <1>1, <2>1, AdvanceSize DEF AdvanceDisk
  <2>. QED
    BY <1>2, <1>3, <1>5, <2>1, <2>2
<1>12. CASE LoadStep
  <2>1. /\ phase # "down" /\ ~RingFull /\ DiskPending
        /\ UNCHANGED <<total_enqueued, total_dequeued>>
        /\ disk_read_pos' = disk_read_pos + 1 /\ UNCHANGED disk_index
    BY <1>12 DEF LoadStep, counts
  <2>2. \/ memory_size' = memory_size + 1 /\ UNCHANGED base
        \/ memory_size' = memory_size /\ base' = base - 1
    <3>1. CASE Readable(HeadEntry)
      BY <1>1, <1>12, <2>1, <3>1, StoreSize DEF LoadStep
    <3>2. CASE ~Readable(HeadEntry)
      BY <1>5, <1>12, <3>2 DEF LoadStep
    <3>. QED
      BY <3>1, <3>2
  <2>3. disk_size' = disk_size - 1
    BY <1>1, <2>1, AdvanceSize
  <2>. QED
    BY <1>2, <1>3, <2>1, <2>2, <2>3
<1>13. CASE FlushStep
  <2>1. /\ phase # "down" /\ ~RingEmpty /\ ReleaseFront /\ WriteToDisk(memory_buffer[read_pos])
        /\ UNCHANGED <<total_enqueued, total_dequeued, base, offered>>
    BY <1>13 DEF FlushStep, counts, ghosts
  <2>2. memory_buffer[read_pos] \in Message
    BY <1>1, <2>1, ReleaseKeepsRingGood
  <2>3. disk_size' = disk_size + 1
    BY <1>1, <2>1, <2>2, WriteSize DEF FileGood
  <2>4. memory_size' = memory_size - 1
    BY <1>1, <2>1, ReleaseSize
  <2>. QED
    BY <1>2, <1>3, <2>1, <2>3, <2>4
<1>14. CASE \/ LoadFromDisk \/ LoadReturn \/ FlushToDisk \/ FlushReturn \/ Shutdown
            \/ SaveIndex \/ UNCHANGED vars
  <2>1. /\ UNCHANGED ring /\ UNCHANGED disk /\ UNCHANGED <<total_enqueued, total_dequeued, base>>
    BY <1>14 DEF LoadFromDisk, LoadReturn, FlushToDisk, FlushReturn, Shutdown, SaveIndex,
       vars, counts, ghosts
  <2>2. phase # "down"
    BY <1>4, <1>14 DEF LoadFromDisk, LoadReturn, FlushToDisk, FlushReturn, Shutdown, SaveIndex,
       vars
  <2>. QED
    BY <1>2, <1>3, <1>5, <1>6, <2>1, <2>2
<1>15. CASE Restart
  <2>1. /\ phase = "down" /\ UNCHANGED ring /\ disk_read_pos' = disk_read_pos
        /\ UNCHANGED <<total_enqueued, total_dequeued>> /\ base' = Len(disk_index')
    BY <1>15 DEF Restart, counts
  <2>2. /\ total_enqueued = 0 /\ total_dequeued = 0 /\ disk_read_pos' = 0
        /\ write_pos = 0 /\ read_pos = 0
    BY <1>1, <2>1 DEF DownIsFresh, DownIsBlank
  <2>3. Len(disk_index') \in Nat
    <3>1. IInv'
      BY <1>15, RestartKeeps DEF Kept
    <3>2. DiskTyped'
      BY <3>1, IInvPartsNext
    <3>. QED
      BY <3>2 DEF DiskTyped
  <2>4. memory_size' = 0 /\ disk_size' = Len(disk_index')
    BY <1>5, <2>1, <2>2, <2>3 DEF memory_size, disk_size, Used
  <2>. QED
    BY <2>1, <2>2, <2>3, <2>4
<1>16. CASE Clear \/ ClearIndexFile
  BY <1>1, <1>16 DEF Clear, ClearIndexFile, ClientUse
<1>17. CASE SaveChecksum \/ ExitWithoutIndex \/ Crash
  BY <1>4, <1>17 DEF SaveChecksum, ExitWithoutIndex, Crash, ProcessGone
<1>. QED
  BY <1>7, <1>8, <1>9, <1>10, <1>11, <1>12, <1>13, <1>14, <1>15, <1>16, <1>17
     DEF Next, Operation, Lifecycle

(* size() and the two counters of get_statistics() agree: what was         *)
(* enqueued or found on disk at the start is dequeued or still held.       *)
THEOREM CountersAgree ==
  ASSUME ClientUse
  PROVE  Spec => []CountersMatch
<1>1. Init => DownIsFresh /\ CountersMatch
  BY CapacityAssumption DEF Init, DownIsFresh, CountersMatch, size, memory_size, disk_size, Used
<1>2. IInv /\ DownIsFresh /\ CountersMatch /\ [Next]_vars => DownIsFresh' /\ CountersMatch'
  BY CountersStep, FreshKept
<1>. QED
  BY <1>1, <1>2, Invariance, PTL DEF Spec

-----------------------------------------------------------------------------
(* Exactly once.  A restart finds every record of the data file pending,   *)
(* so the file must not hold a message twice; load_from_disk() followed by *)
(* flush_to_disk() puts a second record of a message into it, so across    *)
(* restarts the owner must not call load_from_disk().                      *)
OnceUse == ClientUse /\ ("load_from_disk" \notin Calls \/ MaxRestarts = 0)

RingDistinct ==
  \A i, j \in 0 .. memory_size - 1 :
    i # j => memory_buffer[RingSlot(i)].uid # memory_buffer[RingSlot(j)].uid

PendingDistinct ==
  \A j, k \in disk_read_pos + 1 .. Len(data_file) :
    j # k => data_file[j].msg.uid # data_file[k].msg.uid

FileDistinct ==
  \A j, k \in DOMAIN data_file : j # k => data_file[j].msg.uid # data_file[k].msg.uid

(* The four parts of SessionExactlyOnce of a running process. *)
NoneTwice ==
  /\ session_popped \intersect (RingUids \union PendingUids) = {}
  /\ RingUids \intersect PendingUids = {}
  /\ RingDistinct /\ PendingDistinct

(* What the next start relies on. *)
FileOnce ==
  "load_from_disk" \notin Calls => FileDistinct /\ RingUids \intersect FileUids = {}

(* The first process has made every record of the file, and tellp() told   *)
(* it the truth: of a file it has not written to, which is empty, too.     *)
FirstRunTold ==
  restarts = 0 => /\ phase # "down" => writer_open \/ data_file = <<>>
                  /\ \A k \in DOMAIN data_file : data_file[k].told

OnceInv == (phase # "down" => NoneTwice) /\ FileOnce /\ DownIsFresh /\ FirstRunTold

(* An append of the first process is told the truth.                       *)
LEMMA FirstRunAppend ==
  ASSUME FilesInv, DiskInv, FirstRunTold, phase # "down", restarts' = restarts,
         NEW m \in Message, WriteToDisk(m)
  PROVE  FirstRunTold'
<1> SUFFICES ASSUME restarts = 0
             PROVE  /\ writer_open'
                    /\ \A k \in DOMAIN data_file' : data_file'[k].told
  BY DEF FirstRunTold
<1>1. writer_open \/ data_file = <<>>
  BY DEF FirstRunTold
<1>2. NewRecord(m).told
  BY <1>1 DEF NewRecord
<1>3. /\ FilesInv' /\ Len(data_file') = Len(data_file) + 1
      /\ data_file'[Len(data_file) + 1] = NewRecord(m)
      /\ \A k \in DOMAIN data_file : data_file'[k] = data_file[k]
  BY WriteToDiskEffect
<1>4. /\ DOMAIN data_file' = 1 .. Len(data_file) + 1 /\ DOMAIN data_file = 1 .. Len(data_file)
      /\ Len(data_file) \in Nat
  BY <1>3 DEF FilesInv, FilesTyped
<1>5. \A k \in 1 .. Len(data_file) + 1 : k \in 1 .. Len(data_file) \/ k = Len(data_file) + 1
  BY <1>4
<1>6. \A k \in DOMAIN data_file : data_file[k].told
  BY DEF FirstRunTold
<1>7. \A k \in DOMAIN data_file' : data_file'[k].told
  BY <1>2, <1>3, <1>4, <1>5, <1>6
<1>. QED
  BY <1>7 DEF WriteToDisk

LEMMA FirstRunKept ==
  ASSUME IInv, FirstRunTold, [Next]_vars
  PROVE  FirstRunTold'
<1>0. /\ RingGood /\ FileGood /\ CountsTyped /\ DownIsBlank /\ PhaseReached
      /\ phase # "down" => FilesInv /\ DiskInv
  BY IInvParts DEF FileGood
<1>1. ASSUME NEW s \in Sizes, EnqueueDisk(s)
      PROVE  FirstRunTold'
  <2>1. phase # "down" /\ restarts' = restarts /\ WriteToDisk(NewMessage(s))
    BY <1>1 DEF EnqueueDisk, Offer
  <2>2. NewMessage(s) \in Message
    BY <1>0 DEF NewMessage, Message, CountsTyped
  <2>. QED
    BY <1>0, <2>1, <2>2, FirstRunAppend
<1>2. CASE FlushStep
  <2>1. /\ phase # "down" /\ restarts' = restarts /\ UNCHANGED offered
        /\ ~RingEmpty /\ ReleaseFront /\ WriteToDisk(memory_buffer[read_pos])
    BY <1>2 DEF FlushStep, ghosts
  <2>2. memory_buffer[read_pos] \in Message
    BY <1>0, <2>1, ReleaseKeepsRingGood
  <2>. QED
    BY <1>0, <2>1, <2>2, FirstRunAppend
<1>3. CASE Restart
  <2>1. restarts' # 0
    BY <1>0, <1>3, BoundsAssumption DEF Restart, CountsTyped
  <2>. QED
    BY <2>1 DEF FirstRunTold
<1>4. CASE SaveChecksum \/ ExitWithoutIndex \/ Crash
  BY <1>4 DEF SaveChecksum, ExitWithoutIndex, Crash, ProcessGone, FirstRunTold
<1>5. CASE Clear \/ ClearIndexFile
  BY <1>5 DEF Clear, ClearIndexFile, disk, FirstRunTold
<1>6. CASE \/ (\E s \in Sizes : EnqueueMemory(s)) \/ EnqueueRefused
           \/ PopMemory \/ PopDisk \/ DequeueDisk \/ LoadFromDisk \/ LoadStep \/ LoadReturn
           \/ FlushToDisk \/ FlushReturn \/ Shutdown \/ SaveIndex \/ UNCHANGED vars
  <2>1. UNCHANGED <<data_file, writer_open, restarts>> /\ (phase' # "down" => phase # "down")
    <3>1. CASE (\E s \in Sizes : EnqueueMemory(s)) \/ EnqueueRefused
      BY <3>1 DEF EnqueueMemory, EnqueueRefused, Offer, disk, files
    <3>2. CASE PopMemory \/ PopDisk \/ DequeueDisk
      BY <3>2 DEF PopMemory, PopDisk, DequeueDisk, AdvanceDisk, disk, files
    <3>3. CASE LoadFromDisk \/ LoadStep \/ LoadReturn \/ FlushToDisk \/ FlushReturn
      BY <3>3 DEF LoadFromDisk, LoadStep, LoadReturn, FlushToDisk, FlushReturn, disk, files
    <3>4. CASE Shutdown \/ SaveIndex \/ UNCHANGED vars
      BY <3>4 DEF Shutdown, SaveIndex, vars, disk, files
    <3>. QED
      BY <1>6, <3>1, <3>2, <3>3, <3>4
  <2>. QED
    BY <2>1 DEF FirstRunTold
<1>. QED
  BY <1>1, <1>2, <1>3, <1>4, <1>5, <1>6 DEF Next, Operation, Lifecycle

(* A new last message of the ring, and a released front.                   *)
LEMMA StoreDistinct ==
  ASSUME RingTyped, ~RingFull, NEW m \in Message, StoreInRing(m),
         RingDistinct, m.uid \notin RingUids
  PROVE  RingDistinct' /\ RingUids' = RingUids \union {m.uid}
<1>1. /\ memory_size' = memory_size + 1 /\ memory_size \in Nat
      /\ \A i \in 0 .. memory_size - 1 : memory_buffer'[RingSlot(i)'] = memory_buffer[RingSlot(i)]
      /\ memory_buffer'[SlotAt(read_pos', memory_size)] = m
      /\ RingUids' = RingUids \union {m.uid}
  BY StoreInRingEffect, MemorySizeValue, CapacityAssumption DEF Slots
<1>2. \A i \in 0 .. memory_size - 1 : memory_buffer[RingSlot(i)].uid \in RingUids
  BY DEF RingUids
<1>3. ASSUME NEW i \in 0 .. memory_size, NEW j \in 0 .. memory_size, i < j
      PROVE  memory_buffer'[RingSlot(i)'].uid # memory_buffer'[RingSlot(j)'].uid
  <2>1. i \in 0 .. memory_size - 1 /\ (j \in 0 .. memory_size - 1 \/ j = memory_size)
    BY <1>1, <1>3
  <2>2. CASE j \in 0 .. memory_size - 1
    BY <1>1, <1>3, <2>1, <2>2 DEF RingDistinct
  <2>3. CASE j = memory_size
    <3>1. memory_buffer'[RingSlot(j)'] = m
      BY <1>1, <2>3 DEF RingSlot
    <3>. QED
      BY <1>1, <1>2, <2>1, <3>1
  <2>. QED
    BY <2>1, <2>2, <2>3
<1>4. \A i \in 0 .. memory_size' - 1 : i \in 0 .. memory_size /\ i \in Int
  BY <1>1
<1>5. \A i, j \in Int : i # j => i < j \/ j < i
  OBVIOUS
<1>6. RingDistinct'
  BY <1>3, <1>4, <1>5 DEF RingDistinct
<1>. QED
  BY <1>1, <1>6

LEMMA ReleaseDistinct ==
  ASSUME RingTyped, ~RingEmpty, ReleaseFront, RingDistinct
  PROVE  /\ RingDistinct'
         /\ RingUids = RingUids' \union {memory_buffer[read_pos].uid}
         /\ memory_buffer[read_pos].uid \notin RingUids'
<1>1. /\ memory_size' = memory_size - 1 /\ memory_size \in Nat /\ memory_size > 0
      /\ memory_buffer[RingSlot(0)] = memory_buffer[read_pos]
      /\ \A i \in 0 .. memory_size - 2 : memory_buffer'[RingSlot(i)'] = memory_buffer[RingSlot(i + 1)]
      /\ RingUids = RingUids' \union {memory_buffer[read_pos].uid}
  BY ReleaseFrontEffect, MemorySizeValue, CapacityAssumption DEF Slots
<1>2. \A i \in 0 .. memory_size' - 1 : /\ i \in 0 .. memory_size - 2
                                       /\ i + 1 \in 0 .. memory_size - 1 /\ i + 1 # 0
  BY <1>1
<1>3. 0 \in 0 .. memory_size - 1
  BY <1>1
<1>4. RingDistinct'
  <2> SUFFICES ASSUME NEW i \in 0 .. memory_size' - 1, NEW j \in 0 .. memory_size' - 1, i # j
               PROVE  memory_buffer'[RingSlot(i)'].uid # memory_buffer'[RingSlot(j)'].uid
    BY DEF RingDistinct
  <2>1. i + 1 # j + 1
    OBVIOUS
  <2>. QED
    BY <1>1, <1>2, <2>1 DEF RingDistinct
<1>5. memory_buffer[read_pos].uid \notin RingUids'
  <2> SUFFICES ASSUME NEW i \in 0 .. memory_size' - 1,
                      memory_buffer'[RingSlot(i)'].uid = memory_buffer[read_pos].uid
               PROVE  FALSE
    BY DEF RingUids
  <2>. QED
    BY <1>1, <1>2, <1>3 DEF RingDistinct
<1>. QED
  BY <1>1, <1>4, <1>5

(* A new last record, and a consumed head.                                 *)
LEMMA WriteDistinct ==
  ASSUME FilesInv, DiskInv, NEW m \in Message, WriteToDisk(m)
  PROVE  /\ PendingUids' = PendingUids \union {m.uid} /\ FileUids' = FileUids \union {m.uid}
         /\ PendingDistinct /\ m.uid \notin PendingUids => PendingDistinct'
         /\ FileDistinct /\ m.uid \notin FileUids => FileDistinct'
<1> DEFINE n == Len(data_file)
<1>1. /\ Len(data_file') = n + 1 /\ n \in Nat /\ DOMAIN data_file = 1 .. n
      /\ DOMAIN data_file' = 1 .. n + 1
      /\ data_file'[n + 1].msg = m
      /\ \A k \in 1 .. n : data_file'[k] = data_file[k]
      /\ PendingUids' = PendingUids \union {m.uid} /\ FileUids' = FileUids \union {m.uid}
      /\ disk_read_pos' = disk_read_pos /\ disk_read_pos \in 0 .. n /\ Len(disk_index) = n
  BY WriteToDiskEffect DEF FilesInv, FilesTyped, DiskInv, DiskTyped, IndexTiles, WriteToDisk,
     NewRecord
<1>2. \A k \in disk_read_pos + 1 .. n : k \in 1 .. n /\ data_file[k].msg.uid \in PendingUids
  BY <1>1 DEF PendingUids
<1>3. \A k \in 1 .. n : data_file[k].msg.uid \in FileUids
  BY <1>1 DEF FileUids
<1>4. \A k \in disk_read_pos + 1 .. n + 1 : k \in disk_read_pos + 1 .. n \/ k = n + 1
  BY <1>1
<1>5. \A k \in 1 .. n + 1 : k \in 1 .. n \/ k = n + 1
  BY <1>1
<1>6. ASSUME PendingDistinct, m.uid \notin PendingUids
      PROVE  PendingDistinct'
  <2>1. \A j, k \in disk_read_pos + 1 .. n : j # k => data_file[j].msg.uid # data_file[k].msg.uid
    BY <1>6 DEF PendingDistinct
  <2> SUFFICES ASSUME NEW j \in disk_read_pos + 1 .. n + 1, NEW k \in disk_read_pos + 1 .. n + 1,
                      j # k
               PROVE  data_file'[j].msg.uid # data_file'[k].msg.uid
    BY <1>1 DEF PendingDistinct
  <2>. QED
    BY <1>1, <1>2, <1>4, <1>6, <2>1
<1>7. ASSUME FileDistinct, m.uid \notin FileUids
      PROVE  FileDistinct'
  <2>1. \A j, k \in 1 .. n : j # k => data_file[j].msg.uid # data_file[k].msg.uid
    BY <1>1, <1>7 DEF FileDistinct
  <2> SUFFICES ASSUME NEW j \in 1 .. n + 1, NEW k \in 1 .. n + 1, j # k
               PROVE  data_file'[j].msg.uid # data_file'[k].msg.uid
    BY <1>1 DEF FileDistinct
  <2>. QED
    BY <1>1, <1>3, <1>5, <1>7, <2>1
<1>. QED
  BY <1>1, <1>6, <1>7

LEMMA ConsumeDistinct ==
  ASSUME FilesInv, DiskTyped, IndexTiles, DiskPending, PendingDistinct,
         UNCHANGED <<data_file, disk_index>>, disk_read_pos' = disk_read_pos + 1
  PROVE  /\ PendingDistinct'
         /\ PendingUids = PendingUids' \union {HeadRecord.msg.uid}
         /\ HeadRecord.msg.uid \notin PendingUids'
         /\ HeadRecord.msg \in Message
<1> DEFINE n == Len(data_file)
           h == disk_read_pos + 1
<1>1. /\ n \in Nat /\ h \in 1 .. n /\ Len(disk_index) = n
      /\ Len(disk_index') = n /\ Len(data_file') = n /\ disk_read_pos' = h
  BY DEF FilesInv, FilesTyped, DiskTyped, IndexTiles, DiskPending
<1>2. h \in h .. n /\ \A k \in h + 1 .. n : k \in h .. n /\ k # h
  BY <1>1
<1>3. \A j, k \in h .. n : j # k => data_file[j].msg.uid # data_file[k].msg.uid
  BY DEF PendingDistinct
<1>4. PendingDistinct'
  BY <1>1, <1>2, <1>3 DEF PendingDistinct
<1>5. HeadRecord.msg.uid \notin PendingUids'
  <2>1. PendingUids' = {data_file[k].msg.uid : k \in h + 1 .. n}
    BY <1>1 DEF PendingUids
  <2>. QED
    BY <1>2, <1>3, <2>1 DEF HeadRecord
<1>. QED
  BY <1>4, <1>5, ConsumeHeadEffect


(* A step that leaves the ring, the records and the positions alone.       *)
LEMMA DistinctKept ==
  /\ UNCHANGED ring => (RingDistinct => RingDistinct') /\ RingUids' = RingUids
  /\ UNCHANGED data_file => (FileDistinct => FileDistinct') /\ FileUids' = FileUids
  /\ UNCHANGED data_file /\ UNCHANGED disk =>
       (PendingDistinct => PendingDistinct') /\ PendingUids' = PendingUids
<1>1. UNCHANGED ring => (RingDistinct => RingDistinct') /\ RingUids' = RingUids
  <2> SUFFICES ASSUME UNCHANGED ring
               PROVE  (RingDistinct => RingDistinct') /\ RingUids' = RingUids
    OBVIOUS
  <2>1. /\ memory_buffer' = memory_buffer /\ ready' = ready
        /\ write_pos' = write_pos /\ read_pos' = read_pos
    BY DEF ring
  <2>. QED
    BY <2>1 DEF RingDistinct, RingUids, RingSlot, memory_size
<1>2. UNCHANGED data_file => (FileDistinct => FileDistinct') /\ FileUids' = FileUids
  BY DEF FileDistinct, FileUids
<1>3. UNCHANGED data_file /\ UNCHANGED disk =>
        (PendingDistinct => PendingDistinct') /\ PendingUids' = PendingUids
  BY DEF PendingDistinct, PendingUids, disk
<1>. QED
  BY <1>1, <1>2, <1>3

(* enqueue() gives a message an identity nothing else has.                 *)
LEMMA EnqueueOnce ==
  ASSUME IInv, OnceInv, NEW s \in Sizes, EnqueueMemory(s) \/ EnqueueDisk(s)
  PROVE  NoneTwice' /\ FileOnce'
<1> DEFINE m == NewMessage(s)
<1>1. /\ phase = "run" /\ UNCHANGED session_popped
  BY DEF EnqueueMemory, EnqueueDisk, Offer
<1>2. /\ RingGood /\ RingTyped /\ FileGood /\ CountsTyped /\ DiskInv /\ FilesInv
  BY <1>1, IInvParts DEF RingGood, FileGood
<1>3. /\ m \in Message /\ m.uid = offered + 1 /\ offered \in Nat
  BY <1>2 DEF CountsTyped, NewMessage, Message
<1>4. /\ m.uid \notin RingUids /\ m.uid \notin FileUids /\ m.uid \notin session_popped
      /\ m.uid \notin PendingUids
  <2>1. m.uid \notin 1 .. offered
    BY <1>3
  <2>. QED
    BY <1>2, <2>1, HeldUids, PendingInFile DEF CountsTyped
<1>5. NoneTwice /\ FileOnce
  BY <1>1 DEF OnceInv
<1>6. CASE EnqueueMemory(s)
  <2>1. ~RingFull /\ StoreInRing(m) /\ UNCHANGED disk /\ UNCHANGED data_file
    BY <1>6 DEF EnqueueMemory, files
  <2>2. RingDistinct' /\ RingUids' = RingUids \union {m.uid}
    BY <1>2, <1>3, <1>4, <1>5, <2>1, StoreDistinct DEF NoneTwice
  <2>3. /\ PendingDistinct' /\ PendingUids' = PendingUids /\ FileUids' = FileUids
        /\ FileDistinct => FileDistinct'
    BY <1>5, <2>1, DistinctKept DEF NoneTwice
  <2>. QED
    BY <1>1, <1>4, <1>5, <2>2, <2>3 DEF NoneTwice, FileOnce
<1>7. CASE EnqueueDisk(s)
  <2>1. WriteToDisk(m) /\ UNCHANGED ring
    BY <1>7 DEF EnqueueDisk
  <2>2. RingDistinct' /\ RingUids' = RingUids
    BY <1>5, <2>1, DistinctKept DEF NoneTwice
  <2>3. /\ PendingDistinct' /\ PendingUids' = PendingUids \union {m.uid}
        /\ FileUids' = FileUids \union {m.uid} /\ (FileDistinct => FileDistinct')
    BY <1>2, <1>3, <1>4, <1>5, <2>1, WriteDistinct DEF NoneTwice
  <2>. QED
    BY <1>1, <1>4, <1>5, <2>2, <2>3 DEF NoneTwice, FileOnce
<1>. QED
  BY <1>6, <1>7

(* A message removed by the consumer is held nowhere any more.             *)
LEMMA RemovalOnce ==
  ASSUME IInv, OnceInv, PopMemory \/ PopDisk \/ DequeueDisk
  PROVE  NoneTwice' /\ FileOnce'
<1>1. phase = "run" /\ UNCHANGED data_file
  BY DEF PopMemory, PopDisk, DequeueDisk, AdvanceDisk, files
<1>2. /\ RingTyped /\ DiskTyped /\ IndexTiles /\ FilesInv /\ NoneTwice /\ FileOnce
  BY <1>1, IInvParts DEF RingGood, FileGood, DiskInv, OnceInv
<1>3. CASE PopMemory
  <2> DEFINE u == memory_buffer[read_pos].uid
  <2>1. ~RingEmpty /\ ReleaseFront /\ UNCHANGED disk /\ session_popped' = session_popped \union {u}
    BY <1>3 DEF PopMemory, CountRemoved
  <2>2. RingDistinct' /\ RingUids = RingUids' \union {u} /\ u \notin RingUids'
    BY <1>2, <2>1, ReleaseDistinct DEF NoneTwice
  <2>3. /\ PendingDistinct' /\ PendingUids' = PendingUids /\ FileUids' = FileUids
        /\ FileDistinct => FileDistinct'
    BY <1>1, <1>2, <2>1, DistinctKept DEF NoneTwice
  <2>. QED
    BY <1>2, <2>1, <2>2, <2>3 DEF NoneTwice, FileOnce
<1>4. CASE PopDisk \/ DequeueDisk
  <2> DEFINE u == HeadRecord.msg.uid
  <2>1. /\ DiskPending /\ AdvanceDisk /\ UNCHANGED ring
        /\ CountRemoved(u)
    BY <1>4 DEF PopDisk, DequeueDisk
  <2>2. session_popped' = session_popped \union {u}
    BY <2>1 DEF CountRemoved
  <2>3. PendingDistinct' /\ PendingUids = PendingUids' \union {u} /\ u \notin PendingUids'
    BY <1>1, <1>2, <2>1, ConsumeDistinct DEF NoneTwice, AdvanceDisk
  <2>4. /\ RingDistinct' /\ RingUids' = RingUids /\ FileUids' = FileUids
        /\ FileDistinct => FileDistinct'
    BY <1>1, <1>2, <2>1, DistinctKept DEF NoneTwice
  <2>. QED
    BY <1>2, <2>2, <2>3, <2>4 DEF NoneTwice, FileOnce
<1>. QED
  BY <1>3, <1>4

(* load_from_disk() and flush_to_disk() move a message, they do not copy   *)
(* it: the place it came from does not show it any more.                   *)
LEMMA MoveOnce ==
  ASSUME OnceUse, IInv, OnceInv, LoadStep \/ FlushStep
  PROVE  NoneTwice' /\ FileOnce'
<1>1. phase # "down" /\ UNCHANGED session_popped
  BY DEF LoadStep, FlushStep, ghosts
<1>2. /\ RingGood /\ RingTyped /\ DiskInv /\ DiskTyped /\ IndexTiles /\ FilesInv /\ PhaseReached
      /\ NoneTwice /\ FileOnce
  BY <1>1, IInvParts DEF RingGood, FileGood, DiskInv, OnceInv
<1>3. CASE LoadStep
  <2> DEFINE m == HeadRecord.msg
  <2>1. /\ phase = "load" /\ DiskPending /\ ~RingFull /\ disk_read_pos' = disk_read_pos + 1
        /\ UNCHANGED <<data_file, disk_index>>
    BY <1>3 DEF LoadStep, files
  <2>2. StoreInRing(m)
    <3>1. restarts = 0
      <4>1. "load_from_disk" \in Calls /\ restarts \in 0 .. MaxRestarts
        BY <2>1, IInvParts DEF PhaseReached, CountsTyped
      <4>. QED
        BY <4>1 DEF OnceUse
    <3>2. disk_read_pos + 1 \in DOMAIN disk_index /\ disk_read_pos + 1 \in DOMAIN data_file
      BY <1>2, <2>1 DEF DiskTyped, DiskPending, IndexTiles, FilesInv, FilesTyped
    <3>3. data_file[disk_read_pos + 1].told
      BY <3>1, <3>2 DEF OnceInv, FirstRunTold
    <3>4. disk_index[disk_read_pos + 1].offset = data_file[disk_read_pos + 1].off
      BY <1>2, <3>2, <3>3 DEF IndexTiles, Describes
    <3>5. Readable(HeadEntry) /\ ReadMessage(HeadEntry) = m
      BY <1>2, <3>2, <3>4, ReadRecord DEF HeadEntry, HeadRecord
    <3>. QED
      BY <1>3, <3>5 DEF LoadStep
  <2>3. /\ PendingDistinct' /\ PendingUids = PendingUids' \union {m.uid}
        /\ m.uid \notin PendingUids' /\ m \in Message
    BY <1>2, <2>1, ConsumeDistinct DEF NoneTwice
  <2>4. m.uid \notin RingUids
    BY <1>2, <2>3 DEF NoneTwice
  <2>5. RingDistinct' /\ RingUids' = RingUids \union {m.uid}
    BY <1>2, <2>1, <2>2, <2>3, <2>4, StoreDistinct DEF NoneTwice
  <2>6. "load_from_disk" \in Calls
    BY <1>2, <2>1 DEF PhaseReached
  <2>. QED
    BY <1>1, <1>2, <2>3, <2>4, <2>5, <2>6 DEF NoneTwice, FileOnce
<1>4. CASE FlushStep
  <2> DEFINE m == memory_buffer[read_pos]
  <2>1. ~RingEmpty /\ WriteToDisk(m) /\ ReleaseFront /\ UNCHANGED offered
    BY <1>4 DEF FlushStep, ghosts
  <2>2. /\ RingDistinct' /\ RingUids = RingUids' \union {m.uid} /\ m.uid \notin RingUids'
    BY <1>2, <2>1, ReleaseDistinct DEF NoneTwice
  <2>3. m \in Message
    BY <1>2, <2>1, ReleaseKeepsRingGood
  <2>4. m.uid \notin PendingUids
    BY <1>2, <2>2 DEF NoneTwice
  <2>5. /\ PendingDistinct' /\ PendingUids' = PendingUids \union {m.uid}
        /\ FileUids' = FileUids \union {m.uid}
        /\ FileDistinct /\ m.uid \notin FileUids => FileDistinct'
    BY <1>2, <2>1, <2>3, <2>4, WriteDistinct DEF NoneTwice
  <2>. QED
    BY <1>1, <1>2, <2>2, <2>5 DEF NoneTwice, FileOnce
<1>. QED
  BY <1>3, <1>4

(* The end of a process empties the ring; a start finds the file's records *)
(* pending, each message once.                                             *)
LEMMA LifecycleOnce ==
  ASSUME OnceUse, IInv, OnceInv,
         SaveChecksum \/ ExitWithoutIndex \/ Crash \/ Restart
  PROVE  (phase' # "down" => NoneTwice') /\ FileOnce'
<1>1. UNCHANGED data_file
  BY DEF SaveChecksum, ExitWithoutIndex, Crash, ProcessGone, Restart, files
<1>2. FileUids' = FileUids /\ (FileDistinct => FileDistinct')
  BY <1>1, DistinctKept
<1>3. write_pos' = 0 /\ read_pos' = 0
  BY IInvParts DEF SaveChecksum, ExitWithoutIndex, Crash, ProcessGone, Restart, ring, DownIsBlank
<1>4. RingUids' = {} /\ RingDistinct'
  <2>1. memory_size' = 0
    BY <1>3, CapacityAssumption DEF memory_size, Used
  <2>. QED
    BY <2>1 DEF RingUids, RingDistinct
<1>5. FileOnce'
  BY <1>2, <1>4 DEF FileOnce, OnceInv
<1>6. CASE Restart
  <2>1. /\ phase = "down" /\ restarts < MaxRestarts /\ disk_read_pos' = disk_read_pos
        /\ UNCHANGED session_popped
    BY <1>6 DEF Restart
  <2>2. "load_from_disk" \notin Calls
    <3>1. restarts \in 0 .. MaxRestarts
      BY IInvParts DEF CountsTyped
    <3>. QED
      BY <2>1, <3>1, BoundsAssumption DEF OnceUse
  <2>3. FileDistinct /\ session_popped = {} /\ disk_read_pos' = 0
    BY <2>1, <2>2, IInvParts DEF OnceInv, FileOnce, DownIsFresh, DownIsBlank
  <2>4. PendingDistinct'
    <3>1. \A k \in 1 .. Len(data_file) : k \in DOMAIN data_file
      BY IInvParts DEF FileGood, FilesInv, FilesTyped
    <3>2. disk_read_pos' + 1 = 1 /\ data_file' = data_file
      BY <1>1, <2>3
    <3>. QED
      BY <2>3, <3>1, <3>2 DEF PendingDistinct, FileDistinct
  <2>. QED
    BY <1>4, <1>5, <2>1, <2>3, <2>4 DEF NoneTwice
<1>7. CASE SaveChecksum \/ ExitWithoutIndex \/ Crash
  BY <1>5, <1>7 DEF SaveChecksum, ExitWithoutIndex, Crash, ProcessGone
<1>. QED
  BY <1>6, <1>7

(* Every step keeps what the queue holds distinct.                         *)
LEMMA OnceStep ==
  ASSUME OnceUse, IInv, OnceInv, [Next]_vars
  PROVE  OnceInv'
<1>1. DownIsFresh' /\ FirstRunTold'
  BY FreshKept, FirstRunKept DEF OnceInv
<1>2. SUFFICES (phase' # "down" => NoneTwice') /\ FileOnce'
  BY <1>1 DEF OnceInv
<1>3. ASSUME NEW s \in Sizes, EnqueueMemory(s) \/ EnqueueDisk(s)
      PROVE  NoneTwice' /\ FileOnce'
  BY <1>3, EnqueueOnce
<1>4. CASE PopMemory \/ PopDisk \/ DequeueDisk
  BY <1>4, RemovalOnce
<1>5. CASE LoadStep \/ FlushStep
  BY <1>5, MoveOnce
<1>6. CASE SaveChecksum \/ ExitWithoutIndex \/ Crash \/ Restart
  BY <1>6, LifecycleOnce
<1>7. CASE Clear \/ ClearIndexFile
  BY <1>7, IInvParts DEF Clear, ClearIndexFile, OnceUse, ClientUse, PhaseReached
<1>8. CASE \/ EnqueueRefused \/ LoadFromDisk \/ LoadReturn \/ FlushToDisk \/ FlushReturn
           \/ Shutdown \/ SaveIndex \/ UNCHANGED vars
  <2>1. /\ UNCHANGED ring /\ UNCHANGED disk /\ UNCHANGED <<data_file, session_popped>>
    BY <1>8 DEF EnqueueRefused, Offer, LoadFromDisk, LoadReturn, FlushToDisk, FlushReturn,
       Shutdown, SaveIndex, vars, files, ghosts
  <2>2. phase' # "down" => phase # "down"
    BY <1>8 DEF EnqueueRefused, Offer, LoadFromDisk, LoadReturn, FlushToDisk, FlushReturn,
       Shutdown, SaveIndex, vars
  <2>3. /\ RingUids' = RingUids /\ FileUids' = FileUids /\ PendingUids' = PendingUids
        /\ RingDistinct => RingDistinct'
        /\ FileDistinct => FileDistinct'
        /\ PendingDistinct => PendingDistinct'
    BY <2>1, DistinctKept
  <2>. QED
    BY <2>1, <2>2, <2>3 DEF OnceInv, NoneTwice, FileOnce
<1>. QED
  BY <1>3, <1>4, <1>5, <1>6, <1>7, <1>8 DEF Next, Operation, Lifecycle

(* Within one run of the process the queue holds no message twice, in the  *)
(* ring, on the disk side or in both, and never again one that its         *)
(* consumer removed.                                                       *)
THEOREM DeliveredOnce ==
  ASSUME OnceUse
  PROVE  Spec => []SessionExactlyOnce
<1>1. Init => OnceInv
  <2> SUFFICES ASSUME Init
               PROVE  OnceInv
    OBVIOUS
  <2>1. memory_size = 0 /\ data_file = <<>> /\ disk_read_pos = 0 /\ Len(disk_index) = 0
    BY CapacityAssumption DEF Init, memory_size, Used
  <2>2. RingUids = {} /\ RingDistinct
    BY <2>1 DEF RingUids, RingDistinct
  <2>3. PendingUids = {} /\ PendingDistinct /\ FileDistinct
    BY <2>1 DEF PendingUids, PendingDistinct, FileDistinct
  <2>. QED
    BY <2>2, <2>3 DEF Init, OnceInv, NoneTwice, FileOnce, DownIsFresh, FirstRunTold
<1>2. IInv /\ OnceInv /\ [Next]_vars => OnceInv'
  BY OnceStep
<1>3. OnceInv => SessionExactlyOnce
  BY DEF OnceInv, NoneTwice, RingDistinct, PendingDistinct, SessionExactlyOnce, Live
<1>4. Spec => []IInv
  <2>1. ClientUse
    BY DEF OnceUse
  <2>. QED
    BY <2>1, Invariance, PTL
<1>. QED
  BY <1>1, <1>2, <1>3, <1>4, PTL DEF Spec
-----------------------------------------------------------------------------
(* Sequences given by their elements.                                      *)

(* A function on 1 .. n is a sequence of length n. *)
LEMMA IsSequence ==
  ASSUME NEW S, NEW n \in Nat, NEW f, f = [i \in 1 .. n |-> f[i]],
         \A i \in 1 .. n : f[i] \in S
  PROVE  f \in Seq(S) /\ Len(f) = n
OBVIOUS

(* One element more at the end. *)
LEMMA IsAppend ==
  ASSUME NEW S, NEW s \in Seq(S), NEW t \in Seq(S), NEW e \in S,
         Len(t) = Len(s) + 1, t[Len(s) + 1] = e,
         \A i \in 1 .. Len(s) : t[i] = s[i]
  PROVE  t = Append(s, e)
<1>1. Append(s, e) \in Seq(S) /\ Len(Append(s, e)) = Len(s) + 1
  OBVIOUS
<1>2. \A i \in 1 .. Len(s) + 1 : t[i] = Append(s, e)[i]
  OBVIOUS
<1>. QED
  BY <1>1, <1>2

(* One element less at the front. *)
LEMMA IsTail ==
  ASSUME NEW S, NEW s \in Seq(S), NEW t \in Seq(S),
         s # <<>>, Len(t) = Len(s) - 1,
         \A i \in 1 .. Len(t) : t[i] = s[i + 1]
  PROVE  t = Tail(s)
<1>1. Tail(s) \in Seq(S) /\ Len(Tail(s)) = Len(s) - 1
  OBVIOUS
<1>2. \A i \in 1 .. Len(t) : t[i] = Tail(s)[i]
  BY <1>1
<1>. QED
  BY <1>1, <1>2

-----------------------------------------------------------------------------
(* What the queue shows: its ring from the front, the messages a read      *)
(* through the pending entries returns, the messages of the data file.     *)
RingShown ==
  /\ memory_size \in Nat
  /\ RingContents \in Seq(Message) /\ Len(RingContents) = memory_size
  /\ \A i \in 1 .. memory_size : RingContents[i] = memory_buffer[RingSlot(i - 1)]

Shows   == Message \union {NoMessage}
Logged  == [msg : Message, sure : BOOLEAN]
WorthOf(e, r) == IF e.offset = r.off THEN r.msg ELSE NoMessage
Worth(p) == WorthOf(disk_index[p], data_file[p])

PendingShown ==
  /\ disk_size \in Nat
  /\ PendingContents \in Seq(Shows) /\ Len(PendingContents) = disk_size
  /\ \A i \in 1 .. disk_size : PendingContents[i] = Worth(disk_read_pos + i)

LogShown ==
  /\ LogContents \in Seq(Logged) /\ Len(LogContents) = Len(data_file)
  /\ \A k \in 1 .. Len(data_file) :
       LogContents[k] = [msg |-> data_file[k].msg, sure |-> data_file[k].told]

(* The invariant makes the three sequences what they are meant to be.      *)
LEMMA Shown ==
  IInv => RingShown /\ PendingShown /\ LogShown
<1> SUFFICES ASSUME IInv
             PROVE  RingShown /\ PendingShown /\ LogShown
  OBVIOUS
<1>1. /\ RingGood /\ FileGood /\ FilesInv /\ DiskTyped /\ DownIsBlank
      /\ phase # "down" => IndexTiles
  BY IInvParts DEF FileGood, DiskInv
<1>2. RingShown
  <2>1. memory_size \in Nat
    BY <1>1, MemorySizeValue, CapacityAssumption DEF RingGood, Slots
  <2>2. \A i \in 1 .. memory_size : i - 1 \in 0 .. memory_size - 1
    BY <2>1
  <2>3. \A i \in 1 .. memory_size : /\ RingContents[i] = memory_buffer[RingSlot(i - 1)]
                                    /\ RingContents[i] \in Message
    BY <1>1, <2>2 DEF RingContents, RingGood
  <2>4. RingContents = [i \in 1 .. memory_size |-> RingContents[i]]
    BY DEF RingContents
  <2>5. RingContents \in Seq(Message) /\ Len(RingContents) = memory_size
    BY <2>1, <2>3, <2>4, IsSequence
  <2>. QED
    BY <2>1, <2>3, <2>5 DEF RingShown
<1>3. \A k \in 1 .. Len(data_file) : data_file[k].msg \in Message /\ data_file[k].told \in BOOLEAN
  <2> SUFFICES ASSUME NEW k \in 1 .. Len(data_file)
               PROVE  data_file[k].msg \in Message /\ data_file[k].told \in BOOLEAN
    OBVIOUS
  <2>1. data_file[k] \in Record
    BY <1>1 DEF FilesInv, FilesTyped
  <2>. QED
    BY <2>1 DEF Record
<1>4. LogShown
  <2>1. \A k \in 1 .. Len(data_file) :
          /\ LogContents[k] = [msg |-> data_file[k].msg, sure |-> data_file[k].told]
          /\ LogContents[k] \in Logged
    BY <1>3 DEF LogContents, Logged
  <2>2. LogContents = [k \in 1 .. Len(data_file) |-> LogContents[k]] /\ Len(data_file) \in Nat
    BY <1>1 DEF LogContents, FilesInv, FilesTyped
  <2>3. LogContents \in Seq(Logged) /\ Len(LogContents) = Len(data_file)
    BY <2>1, <2>2, IsSequence
  <2>. QED
    BY <2>1, <2>3 DEF LogShown
<1>5. PendingShown
  <2>1. disk_read_pos \in Nat /\ Len(disk_index) \in Nat /\ disk_size \in Nat
    BY <1>1 DEF DiskTyped, disk_size
  <2>2. ASSUME NEW i \in 1 .. disk_size
        PROVE  /\ PendingContents[i] = Worth(disk_read_pos + i)
               /\ PendingContents[i] \in Shows
    <3>1. phase # "down"
      BY <1>1, <2>1 DEF DownIsBlank, disk_size
    <3>2. disk_read_pos + i \in 1 .. Len(disk_index) /\ Len(disk_index) = Len(data_file)
      BY <1>1, <2>1, <3>1 DEF disk_size, IndexTiles
    <3>3. disk_read_pos + i \in DOMAIN disk_index
      BY <1>1, <3>2 DEF DiskTyped
    <3>4. Content(disk_read_pos + i) = Worth(disk_read_pos + i)
      BY <1>1, <3>1, <3>3, ReadRecord DEF Content, Worth, WorthOf
    <3>5. Worth(disk_read_pos + i) \in Shows
      BY <1>3, <3>2 DEF Worth, WorthOf, Shows
    <3>. QED
      BY <3>4, <3>5 DEF PendingContents
  <2>3. PendingContents = [i \in 1 .. disk_size |-> PendingContents[i]]
    BY DEF PendingContents
  <2>4. PendingContents \in Seq(Shows) /\ Len(PendingContents) = disk_size
    BY <2>1, <2>2, <2>3, IsSequence
  <2>. QED
    BY <2>1, <2>2, <2>4 DEF PendingShown
<1>. QED
  BY <1>2, <1>4, <1>5

(* The same of the next state. *)
LEMMA ShownNext ==
  IInv' => RingShown' /\ PendingShown' /\ LogShown'
BY Shown, PTL

-----------------------------------------------------------------------------
(* How the helpers of the operations change what the queue shows.          *)

(* Steps that leave the ring, the disk side or the data file alone.        *)
LEMMA ShownKept ==
  /\ UNCHANGED ring => RingContents' = RingContents
  /\ UNCHANGED disk /\ UNCHANGED data_file => PendingContents' = PendingContents
  /\ UNCHANGED data_file => LogContents' = LogContents
<1>1. UNCHANGED ring => RingContents' = RingContents
  <2> SUFFICES ASSUME UNCHANGED ring
               PROVE  RingContents' = RingContents
    OBVIOUS
  <2>1. /\ memory_buffer' = memory_buffer /\ write_pos' = write_pos /\ read_pos' = read_pos
    BY DEF ring
  <2>. QED
    BY <2>1 DEF RingContents, RingSlot, memory_size
<1>2. UNCHANGED disk /\ UNCHANGED data_file => PendingContents' = PendingContents
  BY DEF disk, PendingContents, Content, disk_size, ReadMessage
<1>3. UNCHANGED data_file => LogContents' = LogContents
  BY DEF LogContents
<1>. QED
  BY <1>1, <1>2, <1>3

(* A stored message is the last of the memory tier, which had room.        *)
LEMMA StoreShows ==
  ASSUME IInv, IInv', ~RingFull, NEW m \in Message, StoreInRing(m)
  PROVE  /\ RingContents' = Append(RingContents, m)
         /\ Len(RingContents) < MemoryCapacity - 1
<1>1. RingTyped
  BY IInvParts DEF RingGood
<1>2. RingShown /\ RingShown'
  BY Shown, ShownNext
<1>3. /\ memory_size' = memory_size + 1 /\ memory_size \in Nat
      /\ \A i \in 0 .. memory_size - 1 : memory_buffer'[RingSlot(i)'] = memory_buffer[RingSlot(i)]
      /\ memory_buffer'[SlotAt(read_pos', memory_size)] = m
  BY <1>1, <1>2, StoreInRingEffect DEF RingShown
<1>4. \A i \in 1 .. Len(RingContents) : RingContents'[i] = RingContents[i]
  <2> SUFFICES ASSUME NEW i \in 1 .. memory_size
               PROVE  RingContents'[i] = RingContents[i]
    BY <1>2 DEF RingShown
  <2>1. i - 1 \in 0 .. memory_size - 1 /\ i \in 1 .. memory_size'
    BY <1>3
  <2>2. RingContents'[i] = memory_buffer'[RingSlot(i - 1)']
    BY <1>2, <2>1 DEF RingShown, RingSlot
  <2>3. RingContents[i] = memory_buffer[RingSlot(i - 1)]
    BY <1>2 DEF RingShown
  <2>. QED
    BY <1>3, <2>1, <2>2, <2>3
<1>5. RingContents'[Len(RingContents) + 1] = m
  <2>1. memory_size + 1 \in 1 .. memory_size' /\ (memory_size + 1) - 1 = memory_size
    BY <1>3
  <2>2. RingContents'[memory_size + 1] = memory_buffer'[SlotAt(read_pos', memory_size)]
    BY <1>2, <2>1 DEF RingShown, RingSlot
  <2>. QED
    BY <1>2, <1>3, <2>2 DEF RingShown
<1>6. RingContents' = Append(RingContents, m)
  <2>1. RingContents \in Seq(Message) /\ RingContents' \in Seq(Message)
        /\ Len(RingContents') = Len(RingContents) + 1
    BY <1>2, <1>3 DEF RingShown
  <2>. QED
    BY <1>4, <1>5, <2>1, IsAppend
<1>7. Len(RingContents) < MemoryCapacity - 1
  <2>1. memory_size \in Slots /\ memory_size # MemoryCapacity - 1
    BY <1>1, MemorySizeValue
  <2>. QED
    BY <1>2, <2>1, CapacityAssumption DEF RingShown, Slots
<1>. QED
  BY <1>6, <1>7

(* Releasing the front takes the head of the memory tier.                  *)
LEMMA ReleaseShows ==
  ASSUME IInv, IInv', ~RingEmpty, ReleaseFront
  PROVE  /\ RingContents # <<>> /\ Head(RingContents) = memory_buffer[read_pos]
         /\ RingContents' = Tail(RingContents)
<1>1. RingTyped
  BY IInvParts DEF RingGood
<1>2. RingShown /\ RingShown'
  BY Shown, ShownNext
<1>3. /\ memory_size' = memory_size - 1 /\ memory_size \in Nat /\ memory_size > 0
      /\ memory_buffer[RingSlot(0)] = memory_buffer[read_pos]
      /\ \A i \in 0 .. memory_size - 2 : memory_buffer'[RingSlot(i)'] = memory_buffer[RingSlot(i + 1)]
  BY <1>1, <1>2, ReleaseFrontEffect DEF RingShown
<1>4. /\ RingContents \in Seq(Message) /\ RingContents' \in Seq(Message)
      /\ Len(RingContents) = memory_size /\ Len(RingContents') = Len(RingContents) - 1
  BY <1>2, <1>3 DEF RingShown
<1>5. RingContents # <<>> /\ Head(RingContents) = memory_buffer[read_pos]
  <2>1. 1 \in 1 .. memory_size /\ 1 - 1 = 0
    BY <1>3
  <2>2. RingContents[1] = memory_buffer[RingSlot(0)]
    BY <1>2, <2>1 DEF RingShown
  <2>. QED
    BY <1>3, <1>4, <2>2
<1>6. \A i \in 1 .. Len(RingContents') : RingContents'[i] = RingContents[i + 1]
  <2> SUFFICES ASSUME NEW i \in 1 .. memory_size'
               PROVE  RingContents'[i] = RingContents[i + 1]
    BY <1>2 DEF RingShown
  <2>1. /\ i - 1 \in 0 .. memory_size - 2 /\ i + 1 \in 1 .. memory_size
        /\ (i + 1) - 1 = (i - 1) + 1
    BY <1>3
  <2>2. RingContents'[i] = memory_buffer'[RingSlot(i - 1)']
    BY <1>2 DEF RingShown, RingSlot
  <2>3. RingContents[i + 1] = memory_buffer[RingSlot((i - 1) + 1)]
    BY <1>2, <2>1 DEF RingShown
  <2>. QED
    BY <1>3, <2>1, <2>2, <2>3
<1>. QED
  BY <1>4, <1>5, <1>6, IsTail

(* An append adds the message to the log, and to what is pending: as       *)
(* misread when the stream, just opened on records of earlier processes,   *)
(* says 0.                                                                 *)
LEMMA WriteShows ==
  ASSUME IInv, IInv', phase # "down", NEW m \in Message, WriteToDisk(m)
  PROVE  Promise!AppendToLog(m)
<1> DEFINE n == Len(data_file)
           told == NewRecord(m).told
           worth == IF told THEN m ELSE NoMessage
<1>1. FilesInv /\ DiskInv /\ DiskTyped /\ IndexTiles
  BY IInvParts DEF FileGood, DiskInv
<1>2. PendingShown /\ PendingShown' /\ LogShown /\ LogShown'
  BY Shown, ShownNext
<1>3. /\ Len(data_file') = n + 1 /\ n \in Nat /\ DOMAIN data_file = 1 .. n
      /\ data_file'[n + 1] = NewRecord(m)
      /\ disk_index'[n + 1] = [offset |-> TellP, size |-> m.size]
      /\ \A k \in 1 .. n : data_file'[k] = data_file[k] /\ disk_index'[k] = disk_index[k]
      /\ Len(disk_index) = n /\ Len(disk_index') = n + 1
      /\ disk_read_pos' = disk_read_pos /\ disk_read_pos \in 0 .. n
  <2>1. /\ DiskInv' /\ Len(data_file') = n + 1 /\ n \in Nat /\ DOMAIN data_file = 1 .. n
        /\ data_file'[n + 1] = NewRecord(m)
        /\ disk_index'[n + 1] = [offset |-> TellP, size |-> m.size]
        /\ \A k \in 1 .. n : data_file'[k] = data_file[k]
        /\ \A k \in DOMAIN disk_index : disk_index'[k] = disk_index[k]
    BY <1>1, WriteToDiskEffect DEF FilesInv, FilesTyped
  <2>2. DOMAIN disk_index = 1 .. n /\ Len(disk_index) = n
    BY <1>1, <2>1 DEF DiskTyped, IndexTiles
  <2>. QED
    BY <1>1, <2>1, <2>2 DEF DiskTyped, DiskInv, IndexTiles, WriteToDisk
<1>4. /\ NewRecord(m).msg = m /\ NewRecord(m).off = FileSize /\ told \in BOOLEAN
      /\ told <=> (writer_open \/ AppendTellsEnd \/ data_file = <<>>)
  BY SwitchAssumption, <1>1 DEF NewRecord, DiskTyped
<1>5. worth \in Shows /\ [msg |-> m, sure |-> told] \in Logged
  BY <1>4 DEF Shows, Logged
<1>6. TellP = FileSize <=> told
  <2>1. data_file # <<>> => FileSize > 0
    <3> SUFFICES ASSUME data_file # <<>>
                 PROVE  FileSize > 0
      OBVIOUS
    <3>1. n \in DOMAIN data_file
      BY <1>3
    <3>2. /\ FileSize \in Nat /\ data_file[n].off \in Nat /\ data_file[n].msg.size \in Nat \ {0}
          /\ data_file[n].off + data_file[n].msg.size <= FileSize
      BY <1>1, <3>1, FileSizeValue DEF FilesInv
    <3>. QED
      BY <3>2
  <2>2. data_file = <<>> => FileSize = 0
    BY DEF FileSize
  <2>. QED
    BY <1>4, <2>1, <2>2 DEF TellP
<1>7. WorthOf(disk_index'[n + 1], data_file'[n + 1]) = worth
  BY <1>3, <1>4, <1>6 DEF WorthOf
<1>8. LogContents' = Append(LogContents, [msg |-> m, sure |-> told])
  <2>1. /\ LogContents \in Seq(Logged) /\ LogContents' \in Seq(Logged)
        /\ Len(LogContents) = n /\ Len(LogContents') = n + 1
    BY <1>2, <1>3 DEF LogShown
  <2>2. \A k \in 1 .. n + 1 :
          LogContents'[k] = [msg |-> data_file'[k].msg, sure |-> data_file'[k].told]
    BY <1>2, <1>3 DEF LogShown
  <2>3. \A k \in 1 .. n :
          /\ LogContents[k] = [msg |-> data_file[k].msg, sure |-> data_file[k].told]
          /\ k \in 1 .. n + 1
    BY <1>2, <1>3 DEF LogShown
  <2>4. n + 1 \in 1 .. n + 1
    BY <1>3
  <2>5. /\ LogContents'[n + 1] = [msg |-> m, sure |-> told]
        /\ \A k \in 1 .. n : LogContents'[k] = LogContents[k]
    BY <1>3, <1>4, <2>2, <2>3, <2>4
  <2>. QED
    BY <1>5, <2>1, <2>5, IsAppend
<1>9. PendingContents' = Append(PendingContents, worth)
  <2>1. /\ disk_size = n - disk_read_pos /\ disk_size' = disk_size + 1 /\ disk_size \in Nat
    BY <1>3 DEF disk_size
  <2>2. /\ PendingContents \in Seq(Shows) /\ PendingContents' \in Seq(Shows)
        /\ Len(PendingContents) = disk_size /\ Len(PendingContents') = disk_size + 1
    BY <1>2, <2>1 DEF PendingShown
  <2>3. \A i \in 1 .. disk_size + 1 :
          PendingContents'[i] = WorthOf(disk_index'[disk_read_pos + i],
                                        data_file'[disk_read_pos + i])
    BY <1>2, <1>3, <2>1 DEF PendingShown, Worth
  <2>4. \A i \in 1 .. disk_size : /\ PendingContents[i] = Worth(disk_read_pos + i)
                                  /\ i \in 1 .. disk_size + 1 /\ disk_read_pos + i \in 1 .. n
    BY <1>2, <1>3, <2>1 DEF PendingShown
  <2>5. disk_size + 1 \in 1 .. disk_size + 1 /\ disk_read_pos + (disk_size + 1) = n + 1
    BY <1>3, <2>1
  <2>6. \A k \in 1 .. n : WorthOf(disk_index'[k], data_file'[k]) = Worth(k)
    BY <1>3 DEF Worth
  <2>7. PendingContents'[disk_size + 1] = worth
    BY <1>3, <1>7, <2>3, <2>5
  <2>8. \A i \in 1 .. disk_size : PendingContents'[i] = PendingContents[i]
    BY <1>3, <2>3, <2>4, <2>6
  <2>. QED
    BY <1>5, <2>2, <2>7, <2>8, IsAppend
<1>10. writer_open' = TRUE
  BY DEF WriteToDisk
<1>11. CASE told
  BY <1>8, <1>9, <1>10, <1>11 DEF Promise!AppendToLog
<1>12. CASE ~told
  <2>1. ~writer_open /\ data_file # <<>> /\ told = FALSE
    BY <1>4, <1>12
  <2>2. LogContents # <<>>
    BY <1>2, <1>3, <2>1 DEF LogShown
  <2>. QED
    BY <1>8, <1>9, <1>10, <2>1, <2>2 DEF Promise!AppendToLog
<1>. QED
  BY <1>11, <1>12

(* Consuming the head takes the head of what is pending.                   *)
LEMMA ConsumeShows ==
  ASSUME IInv, IInv', DiskPending, disk_read_pos' = disk_read_pos + 1,
         UNCHANGED <<data_file, disk_index>>
  PROVE  /\ PendingContents # <<>> /\ Head(PendingContents) = Worth(disk_read_pos + 1)
         /\ PendingContents' = Tail(PendingContents)
<1>1. PendingShown /\ PendingShown'
  BY Shown, ShownNext
<1>2. /\ disk_read_pos \in Nat /\ disk_size \in Nat /\ disk_size > 0
      /\ disk_size' = disk_size - 1
  BY IInvParts DEF DiskTyped, DiskPending, disk_size
<1>3. /\ PendingContents \in Seq(Shows) /\ PendingContents' \in Seq(Shows)
      /\ Len(PendingContents) = disk_size /\ Len(PendingContents') = disk_size - 1
  BY <1>1, <1>2 DEF PendingShown
<1>4. \A i \in 1 .. disk_size : PendingContents[i] = Worth(disk_read_pos + i)
  BY <1>1 DEF PendingShown
<1>5. \A i \in 1 .. disk_size - 1 :
        /\ PendingContents'[i] = Worth((disk_read_pos + 1) + i)
        /\ i + 1 \in 1 .. disk_size
        /\ (disk_read_pos + 1) + i = disk_read_pos + (i + 1)
  BY <1>1, <1>2 DEF PendingShown, Worth
<1>6. PendingContents # <<>> /\ Head(PendingContents) = Worth(disk_read_pos + 1)
  <2>1. 1 \in 1 .. disk_size
    BY <1>2
  <2>. QED
    BY <1>2, <1>3, <1>4, <2>1
<1>7. \A i \in 1 .. Len(PendingContents') : PendingContents'[i] = PendingContents[i + 1]
  BY <1>3, <1>4, <1>5
<1>. QED
  BY <1>3, <1>6, <1>7, IsTail

-----------------------------------------------------------------------------
(* The step of TwoTierQueue each action is.                                *)

(* Every process counts its ids from 1, one for every call of enqueue().   *)
IdInRange == next_message_id \in 1 .. offered + 1

(* An id is spent by every enqueue() and by nothing else. *)
LEMMA IdStaysInRange ==
  ASSUME IInv, IdInRange, [Next]_vars
  PROVE  IdInRange'
<1>1. offered \in Nat
  BY IInvParts DEF CountsTyped
<1>2. \/ offered' = offered + 1 /\ next_message_id' = next_message_id + 1
      \/ UNCHANGED <<offered, next_message_id>>
      \/ offered' = offered /\ next_message_id' = 1
  <2>1. ASSUME NEW s \in Sizes, EnqueueMemory(s) \/ EnqueueDisk(s)
        PROVE  offered' = offered + 1 /\ next_message_id' = next_message_id + 1
    BY <2>1 DEF EnqueueMemory, EnqueueDisk, Offer
  <2>2. CASE EnqueueRefused
    BY <2>2 DEF EnqueueRefused, Offer
  <2>3. CASE SaveChecksum \/ ExitWithoutIndex \/ Crash
    BY <2>3 DEF SaveChecksum, ExitWithoutIndex, Crash, ProcessGone
  <2>4. CASE PopMemory \/ PopDisk \/ DequeueDisk
    BY <2>4 DEF PopMemory, PopDisk, DequeueDisk, CountRemoved
  <2>5. CASE LoadStep \/ FlushStep \/ Clear \/ ClearIndexFile \/ SaveIndex \/ Restart
    BY <2>5 DEF LoadStep, FlushStep, Clear, ClearIndexFile, SaveIndex, Restart, counts, ghosts
  <2>6. CASE LoadFromDisk \/ LoadReturn \/ FlushToDisk \/ FlushReturn \/ Shutdown \/ UNCHANGED vars
    BY <2>6 DEF LoadFromDisk, LoadReturn, FlushToDisk, FlushReturn, Shutdown, vars, counts, ghosts
  <2>. QED
    BY <2>1, <2>2, <2>3, <2>4, <2>5, <2>6 DEF Next, Operation, Lifecycle
<1>. QED
  BY <1>1, <1>2 DEF IdInRange

(* enqueue() is Accept or Overflow. *)
LEMMA EnqueueIsPromised ==
  ASSUME IInv, IInv', IdInRange, NEW s \in Sizes,
         EnqueueMemory(s) \/ EnqueueDisk(s)
  PROVE  Promise!Next
<1> DEFINE m == NewMessage(s)
<1>1. phase # "down" /\ offered < MaxMessages
  BY DEF EnqueueMemory, EnqueueDisk, Offer
<1>2. offered \in Nat /\ next_message_id \in Nat /\ RingTyped
  BY IInvParts DEF CountsTyped, RingGood
<1>3. m \in Message
  BY <1>2 DEF NewMessage, Message
<1>4. m \in [uid : 1 .. MaxMessages, id : 1 .. MaxMessages, size : Sizes]
  BY <1>1, <1>2, BoundsAssumption DEF NewMessage, IdInRange
<1>5. CASE EnqueueMemory(s)
  <2>1. ~RingFull /\ StoreInRing(m) /\ UNCHANGED disk /\ UNCHANGED data_file
    BY <1>5 DEF EnqueueMemory, files
  <2>2. /\ RingContents' = Append(RingContents, m) /\ Len(RingContents) < MemoryCapacity - 1
    BY <1>3, <2>1, StoreShows
  <2>3. /\ PendingContents' = PendingContents /\ LogContents' = LogContents
        /\ writer_open' = writer_open
    BY <2>1, ShownKept DEF disk
  <2>4. Promise!Accept(m)
    BY <2>2, <2>3 DEF Promise!Accept
  <2>. QED
    BY <1>4, <2>4 DEF Promise!Next
<1>6. CASE EnqueueDisk(s)
  <2>1. RingFull /\ WriteToDisk(m) /\ UNCHANGED ring
    BY <1>6 DEF EnqueueDisk
  <2>2. Promise!AppendToLog(m)
    BY <1>1, <1>3, <2>1, WriteShows
  <2>3. RingContents' = RingContents /\ Len(RingContents) = MemoryCapacity - 1
    BY <1>2, <2>1, ShownKept, Shown, MemorySizeValue DEF RingShown
  <2>4. Promise!Overflow(m)
    BY <2>2, <2>3 DEF Promise!Overflow
  <2>. QED
    BY <1>4, <2>4 DEF Promise!Next
<1>. QED
  BY <1>5, <1>6

(* pop_front() and dequeue() are TakeMemory or TakePending: the disk side  *)
(* is consumed only when the memory tier is empty.                         *)
LEMMA RemovalIsPromised ==
  ASSUME IInv, IInv', PopMemory \/ PopDisk \/ DequeueDisk
  PROVE  Promise!Next
<1>1. UNCHANGED data_file
  BY DEF PopMemory, PopDisk, DequeueDisk, AdvanceDisk, files
<1>2. LogContents' = LogContents
  BY <1>1, ShownKept
<1>3. CASE PopMemory
  <2>1. ~RingEmpty /\ ReleaseFront /\ UNCHANGED disk
    BY <1>3 DEF PopMemory
  <2>2. RingContents # <<>> /\ RingContents' = Tail(RingContents)
    BY <2>1, ReleaseShows
  <2>3. PendingContents' = PendingContents /\ writer_open' = writer_open
    BY <1>1, <2>1, ShownKept DEF disk
  <2>4. Promise!TakeMemory
    BY <1>2, <2>2, <2>3 DEF Promise!TakeMemory
  <2>. QED
    BY <2>4 DEF Promise!Next
<1>4. CASE PopDisk \/ DequeueDisk
  <2>1. RingEmpty /\ DiskPending /\ AdvanceDisk /\ UNCHANGED ring
    BY <1>4 DEF PopDisk, DequeueDisk
  <2>2. /\ PendingContents # <<>> /\ PendingContents' = Tail(PendingContents)
        /\ writer_open' = writer_open
    BY <2>1, ConsumeShows DEF AdvanceDisk, files
  <2>3. RingContents' = RingContents
    BY <2>1, ShownKept
  <2>4. RingContents = <<>>
    <3>1. memory_size = 0
      BY <2>1, IInvParts, MemorySizeValue DEF RingGood
    <3>. QED
      BY <3>1, Shown DEF RingShown
  <2>5. Promise!TakePending
    BY <1>2, <2>2, <2>3, <2>4 DEF Promise!TakePending
  <2>. QED
    BY <2>5 DEF Promise!Next
<1>. QED
  BY <1>3, <1>4

(* What an entry that says 0 can read is the first record of the file.     *)
LEMMA ReadFirst ==
  ASSUME FilesInv, NEW e, e.offset = 0, Readable(e)
  PROVE  data_file # <<>> /\ ReadMessage(e) = data_file[1].msg
<1>1. /\ DOMAIN data_file = 1 .. Len(data_file) /\ Len(data_file) \in Nat
      /\ data_file # <<>> /\ 1 \in DOMAIN data_file
  BY DEF Readable, FilesInv, FilesTyped
<1>2. data_file[1].off = 0
  BY <1>1 DEF FilesInv, FileTiled
<1>3. ASSUME NEW k \in DOMAIN data_file, data_file[k].off = 0
      PROVE  k = 1
  <2>1. data_file[1].msg.size \in Nat \ {0}
    BY <1>1, FileSizeValue DEF FilesInv
  <2>2. 1 < k => data_file[1].off + data_file[1].msg.size <= data_file[k].off
    BY <1>1 DEF FilesInv, FileOrdered
  <2>3. ~(1 < k)
    BY <1>2, <1>3, <2>1, <2>2
  <2>. QED
    BY <1>1, <2>3
<1>4. (CHOOSE k \in DOMAIN data_file : data_file[k].off = e.offset) = 1
  BY <1>1, <1>2, <1>3
<1>. QED
  BY <1>1, <1>4 DEF ReadMessage

(* One iteration of load_from_disk() is Load.                              *)
LEMMA LoadIsPromised ==
  ASSUME IInv, IInv', LoadStep
  PROVE  Promise!Next
<1> DEFINE h == disk_read_pos + 1
<1>1. /\ phase = "load" /\ DiskPending /\ ~RingFull /\ disk_read_pos' = disk_read_pos + 1
      /\ UNCHANGED <<data_file, disk_index, writer_open>>
  BY DEF LoadStep, files
<1>2. /\ PendingContents # <<>> /\ Head(PendingContents) = Worth(h)
      /\ PendingContents' = Tail(PendingContents)
  BY <1>1, ConsumeShows
<1>3. FileGood /\ FilesInv /\ DiskInv /\ DiskTyped /\ IndexTiles /\ RingTyped
  BY <1>1, IInvParts DEF FileGood, DiskInv, RingGood
<1>4. /\ h \in DOMAIN disk_index /\ h \in DOMAIN data_file
      /\ HeadEntry = disk_index[h] /\ HeadRecord = data_file[h]
  BY <1>1, <1>3 DEF DiskTyped, DiskPending, IndexTiles, FilesInv, FilesTyped, HeadEntry, HeadRecord
<1>5. \A k \in DOMAIN data_file : data_file[k].msg \in Message /\ data_file[k].msg # NoMessage
  <2> SUFFICES ASSUME NEW k \in DOMAIN data_file
               PROVE  data_file[k].msg \in Message /\ data_file[k].msg # NoMessage
    OBVIOUS
  <2>1. data_file[k] \in Record
    BY <1>3 DEF FilesInv, FilesTyped
  <2>2. data_file[k].msg \in Message
    BY <2>1 DEF Record
  <2>3. data_file[k].msg.size # 0
    BY <2>2, DiskAssumption DEF Message
  <2>. QED
    BY <2>2, <2>3 DEF NoMessage
<1>6. LogContents' = LogContents
  BY <1>1, ShownKept
<1>7. Len(RingContents) < MemoryCapacity - 1
  <2>1. memory_size \in Slots /\ memory_size # MemoryCapacity - 1
    BY <1>1, <1>3, MemorySizeValue
  <2>. QED
    BY <2>1, Shown, CapacityAssumption DEF RingShown, Slots
<1>8. CASE disk_index[h].offset = data_file[h].off
  <2>1. Readable(HeadEntry) /\ ReadMessage(HeadEntry) = data_file[h].msg
    BY <1>3, <1>4, <1>8, ReadRecord
  <2>2. StoreInRing(data_file[h].msg) /\ data_file[h].msg \in Message
    BY <1>4, <1>5, <2>1 DEF LoadStep
  <2>3. RingContents' = Append(RingContents, data_file[h].msg)
    BY <1>1, <2>2, StoreShows
  <2>4. Worth(h) = data_file[h].msg /\ Worth(h) # NoMessage
    BY <1>4, <1>5, <1>8 DEF Worth, WorthOf
  <2>5. Promise!Load
    BY <1>1, <1>2, <1>6, <1>7, <2>3, <2>4 DEF Promise!Load
  <2>. QED
    BY <2>5 DEF Promise!Next
<1>9. CASE disk_index[h].offset # data_file[h].off
  <2>1. HeadEntry.offset = 0
    BY <1>3, <1>4, <1>9 DEF IndexTiles, Describes
  <2>2. Head(PendingContents) = NoMessage
    BY <1>2, <1>9 DEF Worth, WorthOf
  <2>3. RingContents' = RingContents \/ RingContents' = Append(RingContents, Head(LogContents).msg)
    <3>1. CASE ~Readable(HeadEntry)
      BY <3>1, ShownKept DEF LoadStep
    <3>2. CASE Readable(HeadEntry)
      <4>1. data_file # <<>> /\ ReadMessage(HeadEntry) = data_file[1].msg
        BY <1>3, <2>1, <3>2, ReadFirst
      <4>2. 1 \in DOMAIN data_file
        BY <1>3, <4>1 DEF FilesInv, FilesTyped
      <4>3. StoreInRing(data_file[1].msg) /\ data_file[1].msg \in Message
        BY <1>5, <3>2, <4>1, <4>2 DEF LoadStep
      <4>4. RingContents' = Append(RingContents, data_file[1].msg)
        BY <1>1, <4>3, StoreShows
      <4>5. Head(LogContents).msg = data_file[1].msg
        <5>1. LogShown /\ 1 \in 1 .. Len(data_file)
          BY <1>3, <4>1, Shown DEF FilesInv, FilesTyped
        <5>2. LogContents[1] = [msg |-> data_file[1].msg, sure |-> data_file[1].told]
          BY <5>1 DEF LogShown
        <5>. QED
          BY <5>1, <5>2 DEF LogShown
      <4>. QED
        BY <4>4, <4>5
    <3>. QED
      BY <3>1, <3>2
  <2>4. Promise!Load
    BY <1>1, <1>2, <1>6, <1>7, <2>2, <2>3 DEF Promise!Load
  <2>. QED
    BY <2>4 DEF Promise!Next
<1>. QED
  BY <1>8, <1>9

(* One iteration of flush_to_disk() is Flush.                              *)
LEMMA FlushIsPromised ==
  ASSUME IInv, IInv', FlushStep
  PROVE  Promise!Next
<1> DEFINE m == memory_buffer[read_pos]
<1>1. phase # "down" /\ ~RingEmpty /\ WriteToDisk(m) /\ ReleaseFront /\ UNCHANGED offered
  BY DEF FlushStep, ghosts
<1>2. m \in Message
  BY <1>1, IInvParts, ReleaseKeepsRingGood
<1>3. /\ RingContents # <<>> /\ Head(RingContents) = m
      /\ RingContents' = Tail(RingContents)
  BY <1>1, ReleaseShows
<1>4. Promise!AppendToLog(m)
  BY <1>1, <1>2, WriteShows
<1>5. Promise!Flush
  BY <1>3, <1>4 DEF Promise!Flush
<1>. QED
  BY <1>5 DEF Promise!Next

(* What a process that is gone, or has just started, shows.                *)
LEMMA BlankShows ==
  /\ write_pos = 0 /\ read_pos = 0 => RingContents = <<>>
  /\ disk_index = <<>> /\ disk_read_pos = 0 => PendingContents = <<>>
<1>1. write_pos = 0 /\ read_pos = 0 => memory_size = 0
  BY CapacityAssumption DEF memory_size, Used
<1>2. disk_index = <<>> /\ disk_read_pos = 0 => disk_size = 0
  BY DEF disk_size
<1>. QED
  BY <1>1, <1>2 DEF RingContents, PendingContents

(* The same of the next state. *)
LEMMA BlankShowsNext ==
  /\ write_pos' = 0 /\ read_pos' = 0 => RingContents' = <<>>
  /\ disk_index' = <<>> /\ disk_read_pos' = 0 => PendingContents' = <<>>
<1>1. write_pos' = 0 /\ read_pos' = 0 => memory_size' = 0
  BY CapacityAssumption DEF memory_size, Used
<1>2. disk_index' = <<>> /\ disk_read_pos' = 0 => disk_size' = 0
  BY DEF disk_size
<1>. QED
  BY <1>1, <1>2 DEF RingContents, PendingContents

(* An exit in good order and a crash are ProcessEnds.                      *)
LEMMA EndIsPromised ==
  ASSUME SaveChecksum \/ ExitWithoutIndex \/ Crash
  PROVE  Promise!Next
<1>1. ProcessGone
  BY DEF SaveChecksum, ExitWithoutIndex, Crash
<1>2. /\ RingContents' = <<>> /\ PendingContents' = <<>> /\ LogContents' = LogContents
      /\ writer_open' = FALSE
  BY <1>1, BlankShowsNext, ShownKept DEF ProcessGone
<1>3. Promise!ProcessEnds
  BY <1>2 DEF Promise!ProcessEnds
<1>. QED
  BY <1>3 DEF Promise!Next

(* A start, from the index file or by a scan, is ProcessStarts.            *)
LEMMA StartIsPromised ==
  ASSUME IInv, IInv', Restart
  PROVE  Promise!Next
<1>1. phase = "down" /\ phase' = "run" /\ UNCHANGED ring /\ UNCHANGED data_file
      /\ disk_read_pos' = disk_read_pos /\ writer_open' = writer_open
  BY DEF Restart, files
<1>2. write_pos = 0 /\ read_pos = 0 /\ disk_index = <<>> /\ disk_read_pos = 0
  BY <1>1, IInvParts DEF DownIsBlank
<1>3. /\ RingContents = <<>> /\ PendingContents = <<>>
      /\ RingContents' = RingContents /\ LogContents' = LogContents
  BY <1>1, <1>2, BlankShows, ShownKept
<1>4. /\ DOMAIN PendingContents' = DOMAIN LogContents
      /\ \A k \in DOMAIN LogContents :
           \/ PendingContents'[k] = LogContents[k].msg
           \/ ~LogContents[k].sure /\ PendingContents'[k] = NoMessage
  <2>1. PendingShown' /\ LogShown /\ DiskInv' /\ FilesInv
    BY <1>1, IInvParts, IInvPartsNext, Shown, ShownNext DEF FileGood
  <2>2. /\ Len(data_file) \in Nat /\ disk_read_pos' = 0 /\ data_file' = data_file
        /\ Len(disk_index') = Len(data_file) /\ DOMAIN disk_index' = 1 .. Len(data_file)
    BY <1>1, <1>2, <2>1 DEF FilesInv, FilesTyped, DiskInv, DiskTyped, IndexTiles
  <2>3. disk_size' = Len(data_file)
    BY <2>2 DEF disk_size
  <2>4. /\ DOMAIN PendingContents' = 1 .. Len(data_file)
        /\ DOMAIN LogContents = 1 .. Len(data_file)
    BY <2>1, <2>2, <2>3 DEF PendingShown, LogShown
  <2>5. ASSUME NEW k \in 1 .. Len(data_file)
        PROVE  \/ PendingContents'[k] = LogContents[k].msg
               \/ ~LogContents[k].sure /\ PendingContents'[k] = NoMessage
    <3>1. LogContents[k] = [msg |-> data_file[k].msg, sure |-> data_file[k].told]
      BY <2>1 DEF LogShown
    <3>2. 0 + k = k
      BY <2>2
    <3>3. PendingContents'[k] = WorthOf(disk_index'[k], data_file'[k])
      BY <2>1, <2>2, <2>3, <3>2 DEF PendingShown, Worth
    <3>4. Describes(disk_index'[k], data_file[k])
      BY <2>1, <2>2 DEF DiskInv, IndexTiles, Describes
    <3>. QED
      BY <2>2, <3>1, <3>3, <3>4 DEF WorthOf, Describes
  <2>. QED
    BY <2>4, <2>5
<1>5. Promise!ProcessStarts
  BY <1>1, <1>3, <1>4 DEF Promise!ProcessStarts
<1>. QED
  BY <1>5 DEF Promise!Next

(* The steps between calls, a refused enqueue() and the writing of the     *)
(* index file show nothing.                                                *)
LEMMA OthersShowNothing ==
  ASSUME \/ EnqueueRefused \/ LoadFromDisk \/ LoadReturn \/ FlushToDisk \/ FlushReturn
         \/ Shutdown \/ SaveIndex \/ UNCHANGED vars
  PROVE  UNCHANGED Promise!vars
<1>1. UNCHANGED ring /\ UNCHANGED disk /\ UNCHANGED data_file
  BY DEF EnqueueRefused, LoadFromDisk, LoadReturn, FlushToDisk, FlushReturn, Shutdown,
     SaveIndex, vars, files
<1>. QED
  BY <1>1, ShownKept DEF Promise!vars, disk

(* Every step of the queue is a step of TwoTierQueue or shows nothing.     *)
LEMMA StepIsPromised ==
  ASSUME ClientUse, IInv, IdInRange, [Next]_vars
  PROVE  [Promise!Next]_(Promise!vars)
<1>1. IInv'
  BY StepKeeps DEF Kept
<1>2. ASSUME NEW s \in Sizes, EnqueueMemory(s) \/ EnqueueDisk(s)
      PROVE  Promise!Next
  BY <1>1, <1>2, EnqueueIsPromised
<1>3. CASE PopMemory \/ PopDisk \/ DequeueDisk
  BY <1>1, <1>3, RemovalIsPromised
<1>4. CASE LoadStep
  BY <1>1, <1>4, LoadIsPromised
<1>5. CASE FlushStep
  BY <1>1, <1>5, FlushIsPromised
<1>6. CASE SaveChecksum \/ ExitWithoutIndex \/ Crash
  BY <1>6, EndIsPromised
<1>7. CASE Restart
  BY <1>1, <1>7, StartIsPromised
<1>8. CASE Clear \/ ClearIndexFile
  BY <1>8, IInvParts DEF Clear, ClearIndexFile, ClientUse, PhaseReached
<1>9. CASE \/ EnqueueRefused \/ LoadFromDisk \/ LoadReturn \/ FlushToDisk \/ FlushReturn
           \/ Shutdown \/ SaveIndex \/ UNCHANGED vars
  BY <1>9, OthersShowNothing
<1>. QED
  BY <1>2, <1>3, <1>4, <1>5, <1>6, <1>7, <1>8, <1>9 DEF Next, Operation, Lifecycle

(* PersistentMessageQueue implements TwoTierQueue: first-in first-out in   *)
(* each tier, the disk consumed only when the memory is empty, the whole   *)
(* data file pending after a start, whatever the capacity, the disk limit, *)
(* the record sizes, the restarts and the points where a crash falls.  All *)
(* of it can be read back but the first append of a process to a file it   *)
(* found, when the library's tellp() misreports that one's offset.         *)
THEOREM Refinement ==
  ASSUME ClientUse
  PROVE  Spec => ImplementsTwoTierQueue
<1>1. Init => Promise!Init
  <2>1. Init => RingContents = <<>> /\ PendingContents = <<>>
    BY BlankShows DEF Init
  <2>2. Init => LogContents = <<>>
    BY DEF Init, LogContents
  <2>. QED
    BY <2>1, <2>2 DEF Init, Promise!Init
<1>2. Init => IdInRange
  BY DEF Init, IdInRange
<1>3. IInv /\ IdInRange /\ [Next]_vars => IdInRange'
  BY IdStaysInRange
<1>4. IInv /\ IdInRange /\ [Next]_vars => [Promise!Next]_(Promise!vars)
  BY StepIsPromised
<1>. QED
  BY <1>1, <1>2, <1>3, <1>4, Invariance, PTL DEF Spec, ImplementsTwoTierQueue, Promise!Spec

=============================================================================
