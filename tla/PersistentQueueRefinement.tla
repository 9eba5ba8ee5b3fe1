---------------------- MODULE PersistentQueueRefinement ----------------------
(***************************************************************************)
(* PersistentMessageQueue implements TwoTierQueue.  The memory tier is the *)
(* ring read from its front; the disk tier is what a read through          *)
(* disk_index_ would return, entry after entry, and Misread where an entry *)
(* does not designate its record; the log is the data file.                *)
(***************************************************************************)
EXTENDS PersistentMessageQueue

RingContents == [i \in 1 .. memory_size |-> memory_buffer[RingSlot(i - 1)]]

(* What a read at position p of the index is worth. *)
Content(p) ==
  IF disk_index[p].offset = data_file[p].off THEN ReadMessage(disk_index[p]) ELSE NoMessage

PendingContents == [i \in 1 .. disk_size |-> Content(disk_read_pos + i)]

LogContents ==
  [k \in 1 .. Len(data_file) |-> [msg |-> data_file[k].msg, sure |-> data_file[k].told]]

Promise == INSTANCE TwoTierQueue
             WITH Message <- [uid : 1 .. MaxMessages, id : 1 .. MaxMessages, size : Sizes],
                  Misread <- NoMessage, MemoryBound <- MemoryCapacity - 1,
                  mem <- RingContents, pending <- PendingContents, log <- LogContents,
                  appended <- writer_open

(* Every step of the queue is a step of the two-tier queue or changes      *)
(* nothing it shows: wrapped positions, byte offsets, the reopened stream  *)
(* and a reloaded index file never change what is delivered, but for the   *)
(* one message of a process whose offset tellp() misreports.               *)
ImplementsTwoTierQueue == Promise!Spec
=============================================================================
