----------------------- MODULE PersistentMessageQueue -----------------------
(***************************************************************************)
(* PersistentMessageQueue of the upload client: a ring of memory slots     *)
(* that overflows to an append-only data file, an in-memory index of that  *)
(* file, and an index file written by an orderly shutdown to spare the     *)
(* next start a scan of the data file.                                     *)
(*                                                                         *)
(* One behaviour spans several runs of the process: operations, orderly    *)
(* shutdowns, crashes between any two steps, restarts.  The operations are *)
(* called one at a time here; SendPath interleaves those of two threads.   *)
(*                                                                         *)
(* A message is its identity (uid, which the program does not have), the   *)
(* id the queue gave it and the bytes of its serialised record.  Offsets   *)
(* and sizes are bytes; the bytes themselves are not modelled.             *)
(***************************************************************************)
EXTENDS Integers, Sequences

CONSTANTS
  MemoryCapacity,  \* memory_capacity_: slots of the ring, one of them always free
  MaxDiskSize,     \* max_disk_size_, in bytes
  Sizes,           \* sizes a serialised message may have
  AppendTellsEnd,  \* tellp() of a file just opened for appending: TRUE where the C
                   \* library says its end (glibc), FALSE where it says 0 (MSVC)
  Calls,           \* the operations the owner calls beyond enqueue, peek, pop_front
  MayCrash,        \* FALSE: every run of the process ends by an orderly shutdown
  MaxMessages,     \* bound: enqueue calls in a behaviour
  MaxRestarts      \* bound: restarts in a behaviour

ASSUME CapacityAssumption == MemoryCapacity \in Nat \ {0}
ASSUME DiskAssumption == MaxDiskSize \in Nat /\ Sizes \subseteq Nat \ {0}
ASSUME SwitchAssumption == AppendTellsEnd \in BOOLEAN /\ MayCrash \in BOOLEAN
ASSUME BoundsAssumption == MaxMessages \in Nat /\ MaxRestarts \in Nat

VARIABLES
  phase,              \* the call under way, "run" between calls, "down" with no process
  memory_buffer,      \* the messages in the slots of the ring
  ready,              \* their ready flags
  write_pos,
  read_pos,
  disk_index,         \* (offset, size) of every record of the data file
  disk_read_pos,      \* entries of disk_index already consumed
  current_disk_size,
  data_file,          \* records of messages.dat: where each starts, its message, and
                      \* (ghost) whether tellp() said so when it was written
  writer_open,        \* data_writer_.is_open()
  index_file,         \* messages.idx
  next_message_id,
  total_enqueued,
  total_dequeued,
  restarts,
  offered,            \* ghost: enqueue calls so far, in all runs
  accepted,           \* ghost: uids enqueue() returned true for
  popped,             \* ghost: uids removed by pop_front() or dequeue()
  session_popped,     \* ghost: those removed by the running process
  forgotten,          \* ghost: uids of the ring at a crash or an exit, cleared, or read
                      \* by load_from_disk() where tellp() had misreported them
  base                \* ghost: messages size() counts that total_enqueued_ does not

ring   == <<memory_buffer, ready, write_pos, read_pos>>
disk   == <<disk_index, disk_read_pos, current_disk_size, writer_open>>
files  == <<data_file, index_file>>
counts == <<next_message_id, total_enqueued, total_dequeued>>
ghosts == <<offered, accepted, popped, session_popped, forgotten, base>>
vars   == <<phase, ring, disk, files, counts, restarts, ghosts>>

Slots     == 0 .. MemoryCapacity - 1
Message   == [uid : Nat, id : Nat, size : Sizes]
NoMessage == [uid |-> 0, id |-> 0, size |-> 0]
Entry     == [offset : Nat, size : Sizes]
Record    == [off : Nat, msg : Message, told : BOOLEAN]
NoIndex   == [kind |-> "none", entries |-> <<>>, total |-> 0]
Phases    == {"run", "load", "flush", "clear",
              "dtor_flush", "dtor_save", "dtor_crc", "down"}

-----------------------------------------------------------------------------
(* The ring and the disk index, as the operations see them.                *)

(* Mutant: the position does not wrap. *)
next_index_NoWrap(i) == i + 1

next_index(i) == (i + 1) % MemoryCapacity

RingEmpty == read_pos = write_pos
(* Mutants: overwrites the oldest message; leaves two slots free. *)
RingFull_Never   == FALSE
RingFull_TwoFree == next_index(next_index(write_pos)) = read_pos

RingFull  == next_index(write_pos) = read_pos

(* Slots in use from position r up to position w, round the end. *)
Used(w, r) == IF w >= r THEN w - r ELSE MemoryCapacity - r + w

memory_size == Used(write_pos, read_pos)

(* The slot of the i-th message of the ring, from 0 at its front. *)
SlotAt(r, i) == (r + i) % MemoryCapacity
RingSlot(i)  == SlotAt(read_pos, i)
RingUids    == {memory_buffer[RingSlot(i)].uid : i \in 0 .. memory_size - 1}

DiskPending == disk_read_pos < Len(disk_index)
disk_size   == Len(disk_index) - disk_read_pos
size        == memory_size + disk_size

(* The entry the disk side of the queue consumes next, and the record it   *)
(* was written for: every append adds one entry and one record.            *)
HeadEntry  == disk_index[disk_read_pos + 1]
HeadRecord == data_file[disk_read_pos + 1]

PendingUids == {data_file[k].msg.uid : k \in disk_read_pos + 1 .. Len(disk_index)}
FileUids    == {data_file[k].msg.uid : k \in DOMAIN data_file}

FileSize == IF data_file = <<>>
            THEN 0
            ELSE data_file[Len(data_file)].off + data_file[Len(data_file)].msg.size

(* deserialize_message() of the bytes an entry designates succeeds: a      *)
(* record starts there and its own length agrees with the entry's.         *)
Readable(e) == \E k \in DOMAIN data_file :
                  data_file[k].off = e.offset /\ data_file[k].msg.size = e.size
ReadMessage(e) ==
  data_file[CHOOSE k \in DOMAIN data_file : data_file[k].off = e.offset].msg

-----------------------------------------------------------------------------
(* Helpers of the operations.                                              *)

(* Mutant: the slot is not marked ready. *)
StoreInRing_NotReady(m) ==
  /\ memory_buffer' = [memory_buffer EXCEPT ![write_pos] = m]
  /\ write_pos' = next_index(write_pos)
  /\ UNCHANGED <<ready, read_pos>>

StoreInRing(m) ==
  /\ memory_buffer' = [memory_buffer EXCEPT ![write_pos] = m]
  /\ ready' = [ready EXCEPT ![write_pos] = TRUE]
  /\ write_pos' = next_index(write_pos)
  /\ UNCHANGED read_pos

(* Mutant: the slot is freed and the read position stays. *)
ReleaseFront_Stays ==
  /\ ready[read_pos]
  /\ UNCHANGED ring

(* The front slot is released: dequeue(), pop_front() and flush_to_disk()  *)
(* all spin until it is ready first.                                       *)
ReleaseFront ==
  /\ ready[read_pos]
  /\ ready' = [ready EXCEPT ![read_pos] = FALSE]
  /\ read_pos' = next_index(read_pos)
  /\ UNCHANGED <<memory_buffer, write_pos>>

DiskHasRoom == current_disk_size < MaxDiskSize

(* Mutant: the counter of the bytes pending is taken for the file's end. *)
TellP_Pending == current_disk_size

(* tellp() before the write: of the end of the file, or 0 in MSVC's library *)
(* as long as nothing was written through the stream.                       *)
TellP == IF writer_open \/ AppendTellsEnd THEN FileSize ELSE 0

NewRecord(m) ==
  [off |-> FileSize, msg |-> m, told |-> writer_open \/ AppendTellsEnd \/ data_file = <<>>]

(* Mutant: the bytes written are not counted. *)
WriteToDisk_Uncounted(m) ==
  /\ DiskHasRoom
  /\ data_file' = Append(data_file, NewRecord(m))
  /\ disk_index' = Append(disk_index, [offset |-> TellP, size |-> m.size])
  /\ writer_open' = TRUE
  /\ UNCHANGED <<current_disk_size, disk_read_pos, index_file>>

(* write_to_disk() when the disk has room. *)
WriteToDisk(m) ==
  /\ DiskHasRoom
  /\ data_file' = Append(data_file, NewRecord(m))
  /\ disk_index' = Append(disk_index, [offset |-> TellP, size |-> m.size])
  /\ current_disk_size' = current_disk_size + m.size
  /\ writer_open' = TRUE
  /\ UNCHANGED <<disk_read_pos, index_file>>

(* Mutant: the bytes consumed are not given back. *)
AdvanceDisk_KeepsBytes ==
  /\ disk_read_pos' = disk_read_pos + 1
  /\ UNCHANGED <<disk_index, current_disk_size, writer_open, files>>

(* The head of the disk side is consumed. *)
AdvanceDisk ==
  /\ disk_read_pos' = disk_read_pos + 1
  /\ current_disk_size' = current_disk_size - HeadEntry.size
  /\ UNCHANGED <<disk_index, writer_open, files>>

CountRemoved(uid) ==
  /\ total_dequeued' = total_dequeued + 1
  /\ popped' = popped \union {uid}
  /\ session_popped' = session_popped \union {uid}
  /\ UNCHANGED <<next_message_id, total_enqueued, offered, accepted, forgotten, base>>

-----------------------------------------------------------------------------
(* enqueue(): to the ring; when it is full to the data file; refused when  *)
(* that is full too.  The id is spent either way.                          *)
Offer ==
  /\ phase = "run" /\ offered < MaxMessages
  /\ offered' = offered + 1
  /\ next_message_id' = next_message_id + 1
  /\ UNCHANGED <<phase, restarts, total_dequeued, popped, session_popped, forgotten, base>>

Accept ==
  /\ accepted' = accepted \union {offered + 1}
  /\ total_enqueued' = total_enqueued + 1

NewMessage(s) == [uid |-> offered + 1, id |-> next_message_id, size |-> s]

EnqueueMemory(s) ==
  /\ Offer /\ ~RingFull
  /\ StoreInRing(NewMessage(s))
  /\ Accept
  /\ UNCHANGED <<disk, files>>

EnqueueDisk(s) ==
  /\ Offer /\ RingFull
  /\ WriteToDisk(NewMessage(s))
  /\ Accept
  /\ UNCHANGED ring

(* Mutant: a refused message is counted as enqueued. *)
EnqueueRefused_Counted ==
  /\ Offer /\ RingFull /\ ~DiskHasRoom
  /\ total_enqueued' = total_enqueued + 1
  /\ UNCHANGED <<ring, disk, files, accepted>>

EnqueueRefused ==
  /\ Offer /\ RingFull /\ ~DiskHasRoom
  /\ UNCHANGED <<ring, disk, files, total_enqueued, accepted>>

(* pop_front(): the front of the ring; of the disk side when the ring is   *)
(* empty, whether or not its record can be read.                           *)
PopMemory ==
  /\ phase = "run" /\ ~RingEmpty
  /\ ReleaseFront
  /\ CountRemoved(memory_buffer[read_pos].uid)
  /\ UNCHANGED <<phase, disk, files, restarts>>

PopDisk ==
  /\ phase = "run" /\ RingEmpty /\ DiskPending
  /\ AdvanceDisk
  /\ CountRemoved(HeadRecord.msg.uid)
  /\ UNCHANGED <<phase, ring, restarts>>

(* dequeue() does what pop_front() does to the ring, but on the disk side  *)
(* stays where it is when the head cannot be read (read_from_disk()).      *)
(* Either consumes the head's record, whatever its entry lets it read.     *)
DequeueDisk ==
  /\ "dequeue" \in Calls
  /\ phase = "run" /\ RingEmpty /\ DiskPending
  /\ Readable(HeadEntry)
  /\ AdvanceDisk
  /\ CountRemoved(HeadRecord.msg.uid)
  /\ UNCHANGED <<phase, ring, restarts>>

-----------------------------------------------------------------------------
(* load_from_disk(), one iteration of its loop a step.                     *)
LoadFromDisk ==
  /\ "load_from_disk" \in Calls
  /\ phase = "run" /\ phase' = "load"
  /\ UNCHANGED <<ring, disk, files, counts, restarts, ghosts>>

LoadStep ==
  /\ phase = "load" /\ DiskPending /\ ~RingFull
  /\ disk_read_pos' = disk_read_pos + 1
  /\ IF Readable(HeadEntry)
     THEN StoreInRing(ReadMessage(HeadEntry)) /\ UNCHANGED base
     ELSE UNCHANGED ring /\ base' = base - 1
  /\ forgotten' = IF HeadRecord.told THEN forgotten ELSE forgotten \union {HeadRecord.msg.uid}
  /\ UNCHANGED <<phase, disk_index, current_disk_size, writer_open, files, counts,
                 restarts, offered, accepted, popped, session_popped>>

LoadReturn ==
  /\ phase = "load" /\ (RingFull \/ ~DiskPending)
  /\ phase' = "run"
  /\ UNCHANGED <<ring, disk, files, counts, restarts, ghosts>>

(* flush_to_disk(), from the owner or from the destructor. *)
FlushToDisk ==
  /\ "flush_to_disk" \in Calls
  /\ phase = "run" /\ phase' = "flush"
  /\ UNCHANGED <<ring, disk, files, counts, restarts, ghosts>>

(* Mutant: releases the slot whether or not the disk took the message. *)
FlushStep_Drops ==
  /\ phase \in {"flush", "dtor_flush"} /\ ~RingEmpty
  /\ WriteToDisk(memory_buffer[read_pos]) \/ (~DiskHasRoom /\ UNCHANGED <<disk, files>>)
  /\ ReleaseFront
  /\ UNCHANGED <<phase, counts, restarts, ghosts>>

FlushStep ==
  /\ phase \in {"flush", "dtor_flush"} /\ ~RingEmpty
  /\ WriteToDisk(memory_buffer[read_pos])
  /\ ReleaseFront
  /\ UNCHANGED <<phase, counts, restarts, ghosts>>

FlushReturn ==
  /\ phase \in {"flush", "dtor_flush"} /\ (RingEmpty \/ ~DiskHasRoom)
  /\ phase' = IF phase = "flush" THEN "run" ELSE "dtor_save"
  /\ UNCHANGED <<ring, disk, files, counts, restarts, ghosts>>

(* Mutant: the read position of the index is not reset. *)
Clear_KeepsReadPos ==
  /\ "clear" \in Calls
  /\ phase = "run" /\ phase' = "clear"
  /\ write_pos' = 0 /\ read_pos' = 0
  /\ disk_index' = <<>> /\ current_disk_size' = 0
  /\ writer_open' = FALSE
  /\ data_file' = <<>>
  /\ base' = base - size
  /\ forgotten' = forgotten \union RingUids \union PendingUids
  /\ UNCHANGED <<disk_read_pos, memory_buffer, ready, index_file, counts, restarts,
                 offered, accepted, popped, session_popped>>

(* clear(): memory and index first, then the data file is removed, then    *)
(* the index file.  The ready flags keep their values.                     *)
Clear ==
  /\ "clear" \in Calls
  /\ phase = "run" /\ phase' = "clear"
  /\ write_pos' = 0 /\ read_pos' = 0
  /\ disk_index' = <<>> /\ disk_read_pos' = 0 /\ current_disk_size' = 0
  /\ writer_open' = FALSE
  /\ data_file' = <<>>
  /\ base' = base - size
  /\ forgotten' = forgotten \union RingUids \union PendingUids
  /\ UNCHANGED <<memory_buffer, ready, index_file, counts, restarts,
                 offered, accepted, popped, session_popped>>

ClearIndexFile ==
  /\ phase = "clear" /\ phase' = "run"
  /\ index_file' = NoIndex
  /\ UNCHANGED <<ring, disk, data_file, counts, restarts, ghosts>>

-----------------------------------------------------------------------------
(* The process goes: what it held in memory is gone, the files stay.       *)
ProcessGone ==
  /\ phase' = "down"
  /\ memory_buffer' = [i \in Slots |-> NoMessage]
  /\ ready' = [i \in Slots |-> FALSE]
  /\ write_pos' = 0 /\ read_pos' = 0
  /\ disk_index' = <<>> /\ disk_read_pos' = 0 /\ current_disk_size' = 0
  /\ writer_open' = FALSE
  /\ next_message_id' = 1 /\ total_enqueued' = 0 /\ total_dequeued' = 0
  /\ session_popped' = {}
  /\ base' = 0
  /\ forgotten' = forgotten \union RingUids
  /\ UNCHANGED <<data_file, restarts, offered, accepted, popped>>

(* The destructor: flush the ring if it holds anything, then write the     *)
(* index file if the disk side holds anything, header and entries first,   *)
(* checksum last.  Without pending entries an older index file stays.      *)
Shutdown ==
  /\ phase = "run"
  /\ phase' = IF memory_size > 0 THEN "dtor_flush" ELSE "dtor_save"
  /\ UNCHANGED <<ring, disk, files, counts, restarts, ghosts>>

SaveIndex ==
  /\ phase = "dtor_save" /\ disk_size > 0
  /\ phase' = "dtor_crc"
  /\ index_file' = [kind |-> "partial", entries |-> disk_index, total |-> current_disk_size]
  /\ UNCHANGED <<ring, disk, data_file, counts, restarts, ghosts>>

SaveChecksum ==
  /\ phase = "dtor_crc"
  /\ index_file' = [index_file EXCEPT !.kind = "whole"]
  /\ ProcessGone

ExitWithoutIndex ==
  /\ phase = "dtor_save" /\ disk_size = 0
  /\ ProcessGone
  /\ UNCHANGED index_file

Crash ==
  /\ MayCrash
  /\ phase # "down"
  /\ ProcessGone
  /\ UNCHANGED index_file

(* Mutant: any whole index file is taken, whatever the data file's size. *)
IndexAccepted_AnySize == index_file.kind = "whole"

(* The constructor: load_disk_index() when the index file is whole and     *)
(* records the size the data file has, a scan of the data file otherwise.  *)
IndexAccepted == index_file.kind = "whole" /\ index_file.total = FileSize

ScannedIndex == [k \in DOMAIN data_file |->
                   [offset |-> data_file[k].off, size |-> data_file[k].msg.size]]

Restart ==
  /\ phase = "down" /\ restarts < MaxRestarts
  /\ phase' = "run"
  /\ restarts' = restarts + 1
  /\ IF IndexAccepted
     THEN disk_index' = index_file.entries /\ current_disk_size' = index_file.total
     ELSE disk_index' = ScannedIndex /\ current_disk_size' = FileSize
  /\ base' = Len(disk_index')
  /\ UNCHANGED <<ring, disk_read_pos, writer_open, files, counts,
                 offered, accepted, popped, session_popped, forgotten>>

-----------------------------------------------------------------------------
Init ==
  /\ phase = "run"
  /\ memory_buffer = [i \in Slots |-> NoMessage]
  /\ ready = [i \in Slots |-> FALSE]
  /\ write_pos = 0 /\ read_pos = 0
  /\ disk_index = <<>> /\ disk_read_pos = 0 /\ current_disk_size = 0
  /\ data_file = <<>> /\ writer_open = FALSE /\ index_file = NoIndex
  /\ next_message_id = 1 /\ total_enqueued = 0 /\ total_dequeued = 0
  /\ restarts = 0
  /\ offered = 0 /\ accepted = {} /\ popped = {} /\ session_popped = {}
  /\ forgotten = {} /\ base = 0

Operation ==
  \/ \E s \in Sizes : EnqueueMemory(s) \/ EnqueueDisk(s)
  \/ EnqueueRefused
  \/ PopMemory \/ PopDisk \/ DequeueDisk
  \/ LoadFromDisk \/ LoadStep \/ LoadReturn
  \/ FlushToDisk \/ FlushStep \/ FlushReturn
  \/ Clear \/ ClearIndexFile

Lifecycle == Shutdown \/ SaveIndex \/ SaveChecksum \/ ExitWithoutIndex \/ Crash \/ Restart

Next == Operation \/ Lifecycle

Spec == Init /\ [][Next]_vars
-----------------------------------------------------------------------------
(* Every variable keeps its type: positions stay inside the ring, the read *)
(* position inside the index, and the unsigned current_disk_size_ never    *)
(* wraps below zero.                                                       *)
TypeOK ==
  /\ phase \in Phases
  /\ memory_buffer \in [Slots -> Message \union {NoMessage}]
  /\ ready \in [Slots -> BOOLEAN]
  /\ write_pos \in Slots /\ read_pos \in Slots
  /\ disk_index \in Seq(Entry)
  /\ disk_read_pos \in 0 .. Len(disk_index)
  /\ current_disk_size \in Nat
  /\ data_file \in Seq(Record)
  /\ writer_open \in BOOLEAN
  /\ index_file \in [kind : {"none", "partial", "whole"}, entries : Seq(Entry), total : Nat]
  /\ next_message_id \in Nat /\ total_enqueued \in Nat /\ total_dequeued \in Nat
  /\ restarts \in 0 .. MaxRestarts
  /\ offered \in 0 .. MaxMessages
  /\ accepted \subseteq 1 .. offered
  /\ popped \subseteq 1 .. offered /\ session_popped \subseteq 1 .. offered
  /\ forgotten \subseteq 1 .. offered
  /\ base \in Int

(* The slots between read_pos_ and write_pos_ are ready, so the loops that *)
(* spin on the ready flag of the front slot (dequeue, peek, pop_front,     *)
(* flush_to_disk) end at once when calls do not overlap, whatever clear()  *)
(* and load_from_disk() left in the flags.                                 *)
SlotsReady == \A i \in 0 .. memory_size - 1 : ready[RingSlot(i)]

(* The records tile the data file from its first byte.                     *)
FileTiled ==
  \A k \in DOMAIN data_file :
    data_file[k].off = IF k = 1 THEN 0
                       ELSE data_file[k - 1].off + data_file[k - 1].msg.size

(* The entry of a record says where it starts and how long it is; one      *)
(* whose offset tellp() misreported may go on saying 0.                    *)
Describes(e, r) ==
  /\ e.size = r.msg.size
  /\ e.offset = r.off \/ (~r.told /\ e.offset = 0)

(* Entry k of disk_index_ is record k's of the data file, through appends, *)
(* reopened streams, restarts and reloaded index files: tellp()'s mistake  *)
(* spoils the entry of the append it was made for, and no other is shifted *)
(* or doubled on its account.                                              *)
IndexTilesFile ==
  phase # "down" =>
    /\ Len(disk_index) = Len(data_file)
    /\ \A k \in DOMAIN disk_index : Describes(disk_index[k], data_file[k])

(* current_disk_size_ is the bytes of the records still to be consumed.    *)
(* load_from_disk() consumes records without giving their bytes back: with *)
(* it the counter may only be too large, never past the file itself.       *)
PendingBytes == IF DiskPending THEN FileSize - HeadRecord.off ELSE 0

DiskAccounting ==
  phase # "down" =>
    /\ PendingBytes <= current_disk_size
    /\ current_disk_size <= FileSize
    /\ "load_from_disk" \notin Calls => current_disk_size = PendingBytes

(* An index file that load_disk_index() would accept lists the records the *)
(* scan of the data file would find, and says of them what the scan would, *)
(* misreported offsets apart: one left behind by an earlier run, or cut    *)
(* short by a crash, is never taken for the current one.                   *)
FastPathAgrees ==
  IndexAccepted =>
    /\ Len(index_file.entries) = Len(data_file)
    /\ \A k \in DOMAIN data_file : Describes(index_file.entries[k], data_file[k])

(* A message enqueue() accepted is removed by the consumer, or was in the  *)
(* memory ring when the process ended (or was cleared, or loaded from a    *)
(* misreported offset), or still has its place: in the ring, on the disk   *)
(* side, or in the data file for the next start.                           *)
Live == IF phase = "down" THEN FileUids ELSE RingUids \union PendingUids

NoSilentLoss == accepted \subseteq popped \union forgotten \union Live

(* Within one run of the process the queue holds no message twice and      *)
(* never again one that its consumer removed.                              *)
SessionExactlyOnce ==
  phase # "down" =>
    /\ session_popped \intersect Live = {}
    /\ RingUids \intersect PendingUids = {}
    /\ \A i, j \in 0 .. memory_size - 1 :
         i # j => memory_buffer[RingSlot(i)].uid # memory_buffer[RingSlot(j)].uid
    /\ \A j, k \in disk_read_pos + 1 .. Len(data_file) :
         j # k => data_file[j].msg.uid # data_file[k].msg.uid

(* size(), the two counters get_statistics() reports and what the last     *)
(* start found on disk agree: no operation counts a message twice or not   *)
(* at all.                                                                 *)
CountersMatch ==
  phase # "down" => total_enqueued + base = total_dequeued + size

-----------------------------------------------------------------------------
(* What a comment says and the code does not do.                           *)

(* PersistentMessageQueue.h:82: peek() shows the head of the queue.  On    *)
(* the disk side that is the record the head's entry was written for.      *)
PeekDeliversHead ==
  phase = "run" /\ RingEmpty /\ DiskPending
    => Readable(HeadEntry) /\ ReadMessage(HeadEntry) = HeadRecord.msg

-----------------------------------------------------------------------------
(* The inductive invariant behind the properties above, for an owner that  *)
(* does not call clear(): what each part of the state must satisfy for the *)
(* next step to keep the properties.                                       *)
ClientUse == "clear" \notin Calls

LiveTyped ==
  /\ \A i \in 0 .. memory_size - 1 :
       memory_buffer[RingSlot(i)] \in Message /\ memory_buffer[RingSlot(i)].uid \in 1 .. offered
  /\ \A k \in DOMAIN data_file : data_file[k].msg.uid \in 1 .. offered

FileOrdered ==
  \A j, k \in DOMAIN data_file :
    j < k => data_file[j].off + data_file[j].msg.size <= data_file[k].off

(* The index file, if any, describes the first records of the data file    *)
(* and its total does not reach past the record that follows them.         *)
IndexFileIsPrefix ==
  index_file.kind # "none" =>
    /\ Len(index_file.entries) <= Len(data_file)
    /\ \A k \in DOMAIN index_file.entries : Describes(index_file.entries[k], data_file[k])
    /\ index_file.total <= IF Len(index_file.entries) = Len(data_file)
                           THEN FileSize
                           ELSE data_file[Len(index_file.entries) + 1].off

DownIsBlank ==
  phase = "down" => /\ write_pos = 0 /\ read_pos = 0
                    /\ disk_index = <<>> /\ disk_read_pos = 0

(* Which calls a phase belongs to. *)
PhaseReached ==
  /\ phase # "clear"
  /\ phase = "load" => "load_from_disk" \in Calls
  /\ phase = "dtor_crc" => index_file.kind = "partial"

IInv ==
  /\ TypeOK /\ SlotsReady /\ LiveTyped
  /\ FileTiled /\ FileOrdered /\ IndexTilesFile /\ DiskAccounting
  /\ IndexFileIsPrefix /\ DownIsBlank /\ PhaseReached
=============================================================================
