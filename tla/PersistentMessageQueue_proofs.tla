-------------------- MODULE PersistentMessageQueue_proofs --------------------
(***************************************************************************)
(* Proofs about PersistentMessageQueue: what each helper does to the ring  *)
(* and to the disk side, and the invariant.                                *)
(***************************************************************************)
EXTENDS PersistentMessageQueue, SharedLemmas, TLAPS

-----------------------------------------------------------------------------
(* The arithmetic of a ring, in the names of the model.                    *)

LEMMA RingNames ==
  /\ \A x : next_index(x) = Following(MemoryCapacity, x)
  /\ \A w, r : Used(w, r) = Distance(MemoryCapacity, w, r)
  /\ \A r, i : SlotAt(r, i) = Nth(MemoryCapacity, r, i)
BY DEF next_index, Following, Used, Distance, SlotAt, Nth

(* Positions stay in the ring. *)
LEMMA NextIndexValue ==
  ASSUME NEW x \in Slots
  PROVE  next_index(x) \in Slots
BY CapacityAssumption, RingNames, FollowingValue DEF Slots

(* One slot always stays free: a full ring uses all the others. *)
LEMMA UsedValue ==
  ASSUME NEW w \in Slots, NEW r \in Slots
  PROVE  /\ Used(w, r) \in Slots
         /\ w = r <=> Used(w, r) = 0
         /\ next_index(w) = r <=> Used(w, r) = MemoryCapacity - 1
<1>1. /\ Distance(MemoryCapacity, w, r) \in 0 .. MemoryCapacity - 1
      /\ w = r <=> Distance(MemoryCapacity, w, r) = 0
      /\ Following(MemoryCapacity, w) = r <=> Distance(MemoryCapacity, w, r) = MemoryCapacity - 1
  BY CapacityAssumption, DistanceValue DEF Slots
<1>. QED
  BY <1>1, RingNames DEF Slots

(* Storing at the write position adds the last slot and moves no other. *)
LEMMA StoreArithmetic ==
  ASSUME NEW w \in Slots, NEW r \in Slots, next_index(w) # r
  PROVE  /\ Used(next_index(w), r) = Used(w, r) + 1
         /\ SlotAt(r, Used(w, r)) = w
         /\ \A i \in 0 .. Used(w, r) - 1 : SlotAt(r, i) \in Slots /\ SlotAt(r, i) # w
<1>. w \in 0 .. MemoryCapacity - 1 /\ r \in 0 .. MemoryCapacity - 1
  BY DEF Slots
<1>. QED
  BY CapacityAssumption, RingNames, StoreMoves DEF Slots

(* Releasing the front slot shifts the others to the front by one. *)
LEMMA ReleaseArithmetic ==
  ASSUME NEW w \in Slots, NEW r \in Slots, w # r
  PROVE  /\ Used(w, next_index(r)) = Used(w, r) - 1
         /\ SlotAt(r, 0) = r
         /\ \A i \in 0 .. Used(w, r) - 2 :
              /\ SlotAt(next_index(r), i) = SlotAt(r, i + 1)
              /\ SlotAt(r, i + 1) \in Slots /\ SlotAt(r, i + 1) # r
<1>. w \in 0 .. MemoryCapacity - 1 /\ r \in 0 .. MemoryCapacity - 1
  BY DEF Slots
<1>. QED
  BY CapacityAssumption, RingNames, ReleaseMoves DEF Slots

-----------------------------------------------------------------------------
(* The ring.                                                               *)

RingTyped ==
  /\ memory_buffer \in [Slots -> Message \union {NoMessage}]
  /\ ready \in [Slots -> BOOLEAN]
  /\ write_pos \in Slots /\ read_pos \in Slots

(* memory_size is the number of slots in use, fewer than the ring has. *)
LEMMA MemorySizeValue ==
  ASSUME RingTyped
  PROVE  /\ memory_size \in Slots
         /\ RingEmpty <=> memory_size = 0
         /\ RingFull <=> memory_size = MemoryCapacity - 1
BY UsedValue DEF RingTyped, memory_size, RingEmpty, RingFull

(* A stored message is the last of the ring; the others keep their place.  *)
LEMMA StoreInRingEffect ==
  ASSUME RingTyped, ~RingFull, NEW m \in Message, StoreInRing(m)
  PROVE  /\ RingTyped'
         /\ memory_size' = memory_size + 1
         /\ \A i \in 0 .. memory_size - 1 :
              /\ memory_buffer'[RingSlot(i)'] = memory_buffer[RingSlot(i)]
              /\ ready'[RingSlot(i)'] = ready[RingSlot(i)]
         /\ memory_buffer'[SlotAt(read_pos', memory_size)] = m
         /\ ready'[SlotAt(read_pos', memory_size)]
         /\ RingUids' = RingUids \union {m.uid}
<1>1. write_pos \in Slots /\ read_pos \in Slots /\ next_index(write_pos) # read_pos
  BY DEF RingTyped, RingFull
<1>2. write_pos' = next_index(write_pos) /\ read_pos' = read_pos
  BY DEF StoreInRing
<1>3. memory_size' = memory_size + 1
  BY <1>1, <1>2, StoreArithmetic DEF memory_size
<1>4. RingTyped'
  BY <1>1, <1>2, NextIndexValue DEF RingTyped, StoreInRing
<1>5. \A i \in 0 .. memory_size - 1 :
        /\ memory_buffer'[RingSlot(i)'] = memory_buffer[RingSlot(i)]
        /\ ready'[RingSlot(i)'] = ready[RingSlot(i)]
  BY <1>1, <1>2, StoreArithmetic DEF RingTyped, StoreInRing, RingSlot, memory_size
<1>6. memory_buffer'[SlotAt(read_pos', memory_size)] = m /\ ready'[SlotAt(read_pos', memory_size)]
  BY <1>1, <1>2, StoreArithmetic DEF RingTyped, StoreInRing, RingSlot, memory_size
<1>7. RingUids' = RingUids \union {m.uid}
  <2>1. memory_size \in Nat
    BY MemorySizeValue, CapacityAssumption DEF Slots
  <2>2. RingUids' = {memory_buffer'[RingSlot(i)'].uid : i \in 0 .. memory_size}
    BY <1>3, <2>1 DEF RingUids
  <2>3. \A u : u \in RingUids' <=> \E i \in 0 .. memory_size : u = memory_buffer'[RingSlot(i)'].uid
    BY <2>2
  <2>4. \A u : u \in RingUids <=> \E i \in 0 .. memory_size - 1 : u = memory_buffer[RingSlot(i)].uid
    BY DEF RingUids
  <2>. QED
    BY <1>5, <1>6, <2>1, <2>3, <2>4 DEF RingSlot
<1>. QED
  BY <1>3, <1>4, <1>5, <1>6, <1>7

(* Releasing the front removes it and nothing else.                        *)
LEMMA ReleaseFrontEffect ==
  ASSUME RingTyped, ~RingEmpty, ReleaseFront
  PROVE  /\ RingTyped'
         /\ memory_size > 0 /\ memory_size' = memory_size - 1
         /\ memory_buffer[RingSlot(0)] = memory_buffer[read_pos]
         /\ \A i \in 0 .. memory_size - 2 :
              /\ memory_buffer'[RingSlot(i)'] = memory_buffer[RingSlot(i + 1)]
              /\ ready'[RingSlot(i)'] = ready[RingSlot(i + 1)]
         /\ RingUids = RingUids' \union {memory_buffer[read_pos].uid}
<1>1. write_pos \in Slots /\ read_pos \in Slots /\ write_pos # read_pos
  BY DEF RingTyped, RingEmpty
<1>2. write_pos' = write_pos /\ read_pos' = next_index(read_pos)
  BY DEF ReleaseFront
<1>3. memory_size' = memory_size - 1 /\ RingSlot(0) = read_pos
  BY <1>1, <1>2, ReleaseArithmetic DEF memory_size, RingSlot
<1>4. RingTyped'
  BY <1>1, <1>2, NextIndexValue DEF RingTyped, ReleaseFront
<1>5. \A i \in 0 .. memory_size - 2 :
        /\ memory_buffer'[RingSlot(i)'] = memory_buffer[RingSlot(i + 1)]
        /\ ready'[RingSlot(i)'] = ready[RingSlot(i + 1)]
  <2>1. \A i \in 0 .. memory_size - 2 :
          /\ RingSlot(i)' = RingSlot(i + 1)
          /\ RingSlot(i + 1) \in Slots /\ RingSlot(i + 1) # read_pos
    BY <1>1, <1>2, ReleaseArithmetic DEF RingSlot, memory_size
  <2>2. ready' = [ready EXCEPT ![read_pos] = FALSE] /\ memory_buffer' = memory_buffer
    BY DEF ReleaseFront
  <2>. QED
    BY <2>1, <2>2 DEF RingTyped
<1>6. memory_size \in Nat /\ memory_size > 0
  BY <1>1, MemorySizeValue, CapacityAssumption DEF Slots, RingEmpty
<1>7. RingUids = RingUids' \union {memory_buffer[read_pos].uid}
  <2>1. \A u : u \in RingUids' <=>
               \E i \in 0 .. memory_size - 2 : u = memory_buffer[RingSlot(i + 1)].uid
    BY <1>3, <1>5, <1>6 DEF RingUids
  <2>2. \A u : u \in RingUids <=> \E i \in 0 .. memory_size - 1 : u = memory_buffer[RingSlot(i)].uid
    BY DEF RingUids
  <2>3. \A i \in 0 .. memory_size - 1 : i = 0 \/ i - 1 \in 0 .. memory_size - 2
    BY <1>6
  <2>4. ASSUME NEW u \in RingUids
        PROVE  u \in RingUids' \union {memory_buffer[read_pos].uid}
    <3>1. PICK i \in 0 .. memory_size - 1 : u = memory_buffer[RingSlot(i)].uid
      BY <2>2
    <3>2. CASE i = 0
      BY <1>3, <3>1, <3>2
    <3>3. CASE i # 0
      <4>1. i - 1 \in 0 .. memory_size - 2 /\ (i - 1) + 1 = i
        BY <1>6, <3>3
      <4>. QED
        BY <2>1, <3>1, <4>1
    <3>. QED
      BY <3>2, <3>3
  <2>5. ASSUME NEW u \in RingUids'
        PROVE  u \in RingUids
    <3>1. PICK i \in 0 .. memory_size - 2 : u = memory_buffer[RingSlot(i + 1)].uid
      BY <2>1
    <3>2. i + 1 \in 0 .. memory_size - 1
      BY <1>6
    <3>. QED
      BY <2>2, <3>1, <3>2
  <2>6. memory_buffer[read_pos].uid \in RingUids
    <3>1. 0 \in 0 .. memory_size - 1
      BY <1>6
    <3>. QED
      BY <1>3, <2>2, <3>1
  <2>. QED
    BY <2>4, <2>5, <2>6
<1>. QED
  BY <1>3, <1>4, <1>5, <1>6, <1>7

-----------------------------------------------------------------------------
(* The disk side of a running process.                                     *)

FilesTyped ==
  /\ data_file \in Seq(Record)
  /\ index_file \in [kind : {"none", "partial", "whole"}, entries : Seq(Entry), total : Nat]

DiskTyped ==
  /\ disk_index \in Seq(Entry)
  /\ disk_read_pos \in 0 .. Len(disk_index)
  /\ current_disk_size \in Nat
  /\ writer_open \in BOOLEAN

IndexTiles ==
  /\ Len(disk_index) = Len(data_file)
  /\ \A k \in DOMAIN disk_index : Describes(disk_index[k], data_file[k])

Accounted ==
  /\ PendingBytes <= current_disk_size
  /\ current_disk_size <= FileSize
  /\ "load_from_disk" \notin Calls => current_disk_size = PendingBytes

FilesInv == FilesTyped /\ FileTiled /\ FileOrdered /\ IndexFileIsPrefix
DiskInv  == DiskTyped /\ IndexTiles /\ Accounted

(* No record reaches past the end of the file. *)
LEMMA FileSizeValue ==
  ASSUME FilesTyped, FileOrdered
  PROVE  /\ FileSize \in Nat
         /\ data_file = <<>> => FileSize = 0
         /\ \A k \in DOMAIN data_file :
              /\ data_file[k].off \in Nat /\ data_file[k].msg.size \in Nat \ {0}
              /\ data_file[k].off + data_file[k].msg.size <= FileSize
         /\ \A k \in DOMAIN data_file : k = Len(data_file) =>
              data_file[k].off + data_file[k].msg.size = FileSize
<1>1. \A k \in DOMAIN data_file :
        data_file[k].off \in Nat /\ data_file[k].msg.size \in Nat \ {0}
  <2> SUFFICES ASSUME NEW k \in DOMAIN data_file
               PROVE  data_file[k].off \in Nat /\ data_file[k].msg.size \in Nat \ {0}
    OBVIOUS
  <2>1. data_file[k] \in Record
    BY DEF FilesTyped
  <2>2. data_file[k].off \in Nat /\ data_file[k].msg \in Message
    BY <2>1 DEF Record
  <2>3. data_file[k].msg.size \in Sizes
    BY <2>2 DEF Message
  <2>. QED
    BY <2>2, <2>3, DiskAssumption
<1>2. CASE data_file = <<>>
  BY <1>2 DEF FileSize
<1>3. CASE data_file # <<>>
  <2>1. Len(data_file) \in DOMAIN data_file /\ DOMAIN data_file = 1 .. Len(data_file)
    BY <1>3 DEF FilesTyped
  <2>2. FileSize = data_file[Len(data_file)].off + data_file[Len(data_file)].msg.size
    BY <1>3 DEF FileSize
  <2>3. \A k \in DOMAIN data_file :
          data_file[k].off + data_file[k].msg.size <= FileSize
    BY <1>1, <2>1, <2>2 DEF FileOrdered
  <2>. QED
    BY <1>1, <1>3, <2>1, <2>2, <2>3
<1>. QED
  BY <1>2, <1>3

(* An append keeps the index aligned with the file and the bytes counted.  *)
LEMMA WriteToDiskEffect ==
  ASSUME FilesInv, DiskInv, NEW m \in Message, WriteToDisk(m)
  PROVE  /\ FilesInv' /\ DiskInv'
         /\ Len(data_file') = Len(data_file) + 1
         /\ data_file'[Len(data_file) + 1] = NewRecord(m)
         /\ disk_index'[Len(data_file) + 1] = [offset |-> TellP, size |-> m.size]
         /\ \A k \in DOMAIN disk_index : disk_index'[k] = disk_index[k]
         /\ \A k \in DOMAIN data_file : data_file'[k] = data_file[k]
         /\ PendingUids' = PendingUids \union {m.uid}
         /\ FileUids' = FileUids \union {m.uid}
<1> DEFINE n == Len(data_file)
<1>1. /\ data_file' = Append(data_file, NewRecord(m))
      /\ disk_index' = Append(disk_index, [offset |-> TellP, size |-> m.size])
      /\ current_disk_size' = current_disk_size + m.size
      /\ disk_read_pos' = disk_read_pos /\ index_file' = index_file
      /\ writer_open' = TRUE
  BY DEF WriteToDisk
<1>2. /\ FileSize \in Nat /\ n \in Nat /\ m.size \in Nat \ {0} /\ m.size \in Sizes
      /\ data_file \in Seq(Record) /\ disk_index \in Seq(Entry)
      /\ Len(disk_index) = n
      /\ DOMAIN data_file = 1 .. n /\ DOMAIN disk_index = 1 .. n
  <2>1. m.size \in Sizes /\ m.size \in Nat \ {0}
    BY DiskAssumption DEF Message
  <2>2. data_file \in Seq(Record) /\ disk_index \in Seq(Entry) /\ Len(disk_index) = n
    BY DEF FilesInv, FilesTyped, DiskInv, DiskTyped, IndexTiles
  <2>3. FileSize \in Nat
    BY FileSizeValue DEF FilesInv
  <2>. QED
    BY <2>1, <2>2, <2>3
<1>3. /\ data_file' \in Seq(Record) /\ disk_index' \in Seq(Entry)
      /\ Len(data_file') = n + 1 /\ Len(disk_index') = n + 1
      /\ DOMAIN data_file' = 1 .. n + 1 /\ DOMAIN disk_index' = 1 .. n + 1
      /\ \A k \in 1 .. n : data_file'[k] = data_file[k] /\ disk_index'[k] = disk_index[k]
      /\ data_file'[n + 1] = NewRecord(m)
      /\ data_file'[n + 1].off = FileSize /\ data_file'[n + 1].msg = m
      /\ disk_index'[n + 1] = [offset |-> TellP, size |-> m.size]
  <2>1. NewRecord(m) \in Record /\ [offset |-> TellP, size |-> m.size] \in Entry
    <3>1. writer_open \in BOOLEAN /\ AppendTellsEnd \in BOOLEAN
      BY SwitchAssumption DEF DiskInv, DiskTyped
    <3>2. (writer_open \/ AppendTellsEnd \/ data_file = <<>>) \in BOOLEAN
      OBVIOUS
    <3>3. TellP \in Nat
      BY <1>2 DEF TellP
    <3>. QED
      BY <1>2, <3>2, <3>3 DEF Record, Entry, NewRecord
  <2>2. NewRecord(m).off = FileSize /\ NewRecord(m).msg = m
    BY DEF NewRecord
  <2>. QED
    BY <1>1, <1>2, <2>1, <2>2
<1>4. FileSize' = FileSize + m.size
  <2>1. data_file' # <<>>
    BY <1>2, <1>3
  <2>. QED
    BY <1>2, <1>3, <2>1 DEF FileSize
<1>5. FilesTyped' /\ DiskTyped' /\ IndexTiles'
  <2>1. Describes([offset |-> TellP, size |-> m.size], NewRecord(m))
    BY FileSizeValue DEF Describes, NewRecord, TellP, FilesInv
  <2>2. \A k \in 1 .. n : Describes(disk_index[k], data_file[k])
    BY <1>2 DEF DiskInv, IndexTiles
  <2>3. \A k \in 1 .. n + 1 : Describes(disk_index'[k], data_file'[k])
    BY <1>2, <1>3, <2>1, <2>2
  <2>4. IndexTiles'
    BY <1>3, <2>3 DEF IndexTiles, Describes
  <2>5. disk_read_pos' \in 0 .. Len(disk_index') /\ current_disk_size' \in Nat
    BY <1>1, <1>2, <1>3 DEF DiskInv, DiskTyped
  <2>. QED
    BY <1>1, <1>2, <1>3, <2>4, <2>5 DEF FilesInv, FilesTyped, DiskTyped
<1>6. FileTiled'
  <2> SUFFICES ASSUME NEW k \in 1 .. n + 1
               PROVE  data_file'[k].off = IF k = 1 THEN 0
                        ELSE data_file'[k - 1].off + data_file'[k - 1].msg.size
    BY <1>3 DEF FileTiled
  <2>1. CASE k <= n
    <3>1. k \in 1 .. n /\ (k = 1 \/ k - 1 \in 1 .. n)
      BY <1>2, <2>1
    <3>2. data_file[k].off = IF k = 1 THEN 0
                             ELSE data_file[k - 1].off + data_file[k - 1].msg.size
      BY <1>2, <3>1 DEF FilesInv, FileTiled
    <3>. QED
      BY <1>3, <3>1, <3>2
  <2>2. CASE k = n + 1 /\ n = 0
    BY <1>2, <1>3, <2>2 DEF FileSize
  <2>3. CASE k = n + 1 /\ n > 0
    <3>1. data_file # <<>> /\ k - 1 = n /\ n \in 1 .. n /\ k # 1
      BY <1>2, <2>3
    <3>. QED
      BY <1>2, <1>3, <2>3, <3>1 DEF FileSize
  <2>. QED
    BY <1>2, <2>1, <2>2, <2>3
<1>7. FileOrdered'
  <2>1. \A k \in 1 .. n : data_file[k].off + data_file[k].msg.size <= FileSize
    BY <1>2, FileSizeValue DEF FilesInv
  <2>2. \A j, k \in 1 .. n : j < k => data_file[j].off + data_file[j].msg.size <= data_file[k].off
    BY <1>2 DEF FilesInv, FileOrdered
  <2> SUFFICES ASSUME NEW j \in 1 .. n + 1, NEW k \in 1 .. n + 1, j < k
               PROVE  data_file'[j].off + data_file'[j].msg.size <= data_file'[k].off
    BY <1>3 DEF FileOrdered
  <2>3. CASE k \in 1 .. n
    BY <1>2, <1>3, <2>2, <2>3
  <2>4. CASE k = n + 1
    <3>1. j \in 1 .. n /\ data_file'[j] = data_file[j] /\ data_file'[k].off = FileSize
      BY <1>2, <1>3, <2>4
    <3>. QED
      BY <2>1, <3>1
  <2>. QED
    BY <1>2, <2>3, <2>4
<1>8. IndexFileIsPrefix'
  <2> SUFFICES ASSUME index_file.kind # "none"
               PROVE  IndexFileIsPrefix'
    BY <1>1 DEF IndexFileIsPrefix
  <2> DEFINE e == index_file.entries
  <2>1. e \in Seq(Entry) /\ Len(e) \in Nat /\ DOMAIN e = 1 .. Len(e) /\ index_file.total \in Nat
    BY DEF FilesInv, FilesTyped
  <2>2. /\ Len(e) <= n
        /\ \A k \in 1 .. Len(e) : Describes(e[k], data_file[k])
        /\ index_file.total <= IF Len(e) = n THEN FileSize ELSE data_file[Len(e) + 1].off
    BY <2>1 DEF FilesInv, IndexFileIsPrefix
  <2>3. index_file.total <= data_file'[Len(e) + 1].off
    <3>1. CASE Len(e) = n
      BY <1>3, <2>2, <3>1
    <3>2. CASE Len(e) < n
      BY <1>2, <1>3, <2>1, <2>2, <3>2
    <3>. QED
      BY <1>2, <2>1, <2>2, <3>1, <3>2
  <2>. QED
    BY <1>1, <1>2, <1>3, <2>1, <2>2, <2>3 DEF IndexFileIsPrefix, Describes
<1>9. Accounted'
  <2>1. \A k \in 1 .. n : data_file[k].off \in Nat
    BY <1>2, FileSizeValue DEF FilesInv
  <2>2. disk_read_pos \in 0 .. n /\ current_disk_size \in Nat
    BY <1>2 DEF DiskInv, DiskTyped
  <2>3. CASE disk_read_pos < n
    <3>1. PendingBytes = FileSize - data_file[disk_read_pos + 1].off
      BY <1>2, <2>3 DEF PendingBytes, DiskPending, HeadRecord
    <3>2. PendingBytes' = FileSize' - data_file[disk_read_pos + 1].off
      <4>1. DiskPending' /\ HeadRecord' = data_file[disk_read_pos + 1]
        BY <1>1, <1>2, <1>3, <2>2, <2>3 DEF DiskPending, HeadRecord
      <4>. QED
        BY <4>1 DEF PendingBytes
    <3>3. data_file[disk_read_pos + 1].off \in Nat
      BY <2>1, <2>2, <2>3, <1>2
    <3>4. PendingBytes' = PendingBytes + m.size /\ PendingBytes \in Int
      <4>1. FileSize \in Nat /\ m.size \in Nat /\ FileSize' = FileSize + m.size
        BY <1>2, <1>4
      <4>2. \A x, y, z \in Nat : (x + y) - z = (x - z) + y /\ x - z \in Int
        OBVIOUS
      <4>3. /\ (FileSize + m.size) - data_file[disk_read_pos + 1].off
                  = (FileSize - data_file[disk_read_pos + 1].off) + m.size
            /\ FileSize - data_file[disk_read_pos + 1].off \in Int
        BY <3>3, <4>1, <4>2
      <4>. QED
        BY <3>1, <3>2, <4>1, <4>3
    <3>. QED
      BY <1>1, <1>2, <1>4, <2>2, <3>4 DEF DiskInv, Accounted
  <2>4. CASE disk_read_pos = n
    <3>1. PendingBytes = 0
      BY <1>2, <2>4 DEF PendingBytes, DiskPending
    <3>2. PendingBytes' = m.size
      BY <1>1, <1>2, <1>3, <1>4, <2>2, <2>4 DEF PendingBytes, DiskPending, HeadRecord
    <3>. QED
      BY <1>1, <1>2, <1>4, <2>1, <2>2, <3>1, <3>2 DEF DiskInv, Accounted
  <2>. QED
    BY <2>2, <2>3, <2>4
<1>10. PendingUids' = PendingUids \union {m.uid}
  <2>1. disk_read_pos \in 0 .. n
    BY <1>2 DEF DiskInv, DiskTyped
  <2>2. PendingUids' = {data_file'[k].msg.uid : k \in disk_read_pos + 1 .. n + 1}
    BY <1>1, <1>3 DEF PendingUids
  <2>3. PendingUids = {data_file[k].msg.uid : k \in disk_read_pos + 1 .. n}
    BY <1>2 DEF PendingUids
  <2>4. \A k \in disk_read_pos + 1 .. n : data_file'[k] = data_file[k]
    BY <1>3, <2>1
  <2>5. disk_read_pos + 1 .. n + 1 = (disk_read_pos + 1 .. n) \union {n + 1}
    BY <1>2, <2>1
  <2>. QED
    BY <1>3, <2>2, <2>3, <2>4, <2>5
<1>11. FileUids' = FileUids \union {m.uid}
  <2>1. FileUids' = {data_file'[k].msg.uid : k \in 1 .. n + 1}
    BY <1>3 DEF FileUids
  <2>2. FileUids = {data_file[k].msg.uid : k \in 1 .. n}
    BY <1>2 DEF FileUids
  <2>3. 1 .. n + 1 = (1 .. n) \union {n + 1}
    BY <1>2
  <2>. QED
    BY <1>3, <2>1, <2>2, <2>3
<1>. QED
  BY <1>2, <1>3, <1>5, <1>6, <1>7, <1>8, <1>9, <1>10, <1>11 DEF FilesInv, DiskInv

(* The bytes and the messages the disk side is left with without its head. *)
LEMMA ConsumeHeadEffect ==
  ASSUME FilesInv, DiskTyped, IndexTiles, DiskPending,
         UNCHANGED <<data_file, disk_index>>, disk_read_pos' = disk_read_pos + 1
  PROVE  /\ HeadRecord.msg \in Message /\ HeadRecord \in {data_file[k] : k \in DOMAIN data_file}
         /\ HeadEntry.size \in Nat \ {0}
         /\ PendingBytes \in Nat /\ PendingBytes' \in Nat
         /\ PendingBytes' = PendingBytes - HeadEntry.size
         /\ PendingUids = PendingUids' \union {HeadRecord.msg.uid}
<1> DEFINE n   == Len(data_file)
           h   == disk_read_pos + 1
           off == data_file[h].off
           sz  == data_file[h].msg.size
<1>1. /\ n \in Nat /\ DOMAIN data_file = 1 .. n /\ DOMAIN disk_index = 1 .. n
      /\ Len(disk_index) = n
      /\ disk_read_pos \in Nat /\ h \in 1 .. n
      /\ data_file[h] \in Record
  BY DEF FilesInv, FilesTyped, DiskTyped, IndexTiles, DiskPending
<1>2. HeadRecord.msg \in Message /\ HeadRecord \in {data_file[k] : k \in DOMAIN data_file}
  BY <1>1 DEF HeadRecord, Record
<1>3. /\ FileSize \in Nat /\ FileSize' = FileSize
      /\ \A k \in 1 .. n : /\ data_file[k].off \in Nat /\ data_file[k].msg.size \in Nat \ {0}
                           /\ data_file[k].off + data_file[k].msg.size <= FileSize
      /\ data_file[n].off + data_file[n].msg.size = FileSize
  BY <1>1, FileSizeValue DEF FilesInv, FileSize
<1>4. /\ off \in Nat /\ sz \in Nat \ {0} /\ HeadEntry.size = sz
      /\ off + sz <= FileSize
  BY <1>1, <1>3 DEF IndexTiles, Describes, HeadEntry
<1>5. PendingBytes = FileSize - off
  BY DEF PendingBytes, HeadRecord
<1>6. PendingBytes' = PendingBytes - sz
  <2>1. CASE h < n
    <3>1. PendingBytes' = FileSize - data_file[h + 1].off
      <4>1. DiskPending' /\ HeadRecord' = data_file[h + 1]
        BY <1>1, <2>1 DEF DiskPending, HeadRecord
      <4>. QED
        BY <1>3, <4>1 DEF PendingBytes
    <3>2. data_file[h + 1].off = off + sz
      <4>1. h + 1 \in DOMAIN data_file /\ h + 1 # 1 /\ (h + 1) - 1 = h
        BY <1>1, <2>1
      <4>. QED
        BY <4>1 DEF FilesInv, FileTiled
    <3>. QED
      BY <1>3, <1>4, <1>5, <3>1, <3>2
  <2>2. CASE h = n
    <3>1. PendingBytes' = 0
      BY <1>1, <2>2 DEF PendingBytes, DiskPending
    <3>. QED
      BY <1>3, <1>4, <1>5, <2>2, <3>1
  <2>3. h < n \/ h = n
    <3>1. n \in Int /\ h \in Int /\ h <= n
      BY <1>1
    <3>. QED
      BY <3>1
  <2>. QED
    BY <2>1, <2>2, <2>3
<1>7. PendingBytes \in Nat /\ PendingBytes' \in Nat
  <2>1. FileSize - off \in Nat /\ (FileSize - off) - sz \in Nat
    <3>1. FileSize \in Nat
      BY <1>3
    <3>. HIDE DEF off, sz
    <3>. QED
      BY <1>4, <3>1
  <2>. QED
    BY <1>5, <1>6, <2>1
<1>8. PendingUids = PendingUids' \union {HeadRecord.msg.uid}
  <2>1. PendingUids' = {data_file[k].msg.uid : k \in disk_read_pos + 2 .. n}
    BY <1>1 DEF PendingUids
  <2>2. PendingUids = {data_file[k].msg.uid : k \in disk_read_pos + 1 .. n}
    BY <1>1 DEF PendingUids
  <2>3. disk_read_pos + 1 .. n = {disk_read_pos + 1} \union (disk_read_pos + 2 .. n)
    BY <1>1
  <2>. QED
    BY <2>1, <2>2, <2>3 DEF HeadRecord
<1>. QED
  BY <1>2, <1>4, <1>6, <1>7, <1>8

(* Consuming the head gives back its bytes.                                *)
LEMMA AdvanceDiskEffect ==
  ASSUME FilesInv, DiskInv, DiskPending, AdvanceDisk
  PROVE  FilesInv' /\ DiskInv'
<1>1. /\ UNCHANGED <<data_file, index_file, disk_index, writer_open>>
      /\ disk_read_pos' = disk_read_pos + 1
      /\ current_disk_size' = current_disk_size - HeadEntry.size
  BY DEF AdvanceDisk, files
<1>2. /\ HeadEntry.size \in Nat \ {0} /\ PendingBytes \in Nat /\ PendingBytes' \in Nat
      /\ PendingBytes' = PendingBytes - HeadEntry.size
  BY <1>1, ConsumeHeadEffect DEF DiskInv
<1>3. FilesInv'
  BY <1>1 DEF FilesInv, FilesTyped, FileTiled, FileOrdered, IndexFileIsPrefix, FileSize
<1>4. FileSize \in Nat /\ FileSize' = FileSize
  BY <1>1, FileSizeValue DEF FilesInv, FileSize
<1>5. /\ current_disk_size \in Nat /\ PendingBytes <= current_disk_size
      /\ current_disk_size <= FileSize
      /\ ("load_from_disk" \notin Calls => current_disk_size = PendingBytes)
  BY DEF DiskInv, DiskTyped, Accounted
<1>6. current_disk_size' \in Nat
  BY <1>1, <1>2, <1>5
<1>7. Accounted'
  BY <1>1, <1>2, <1>4, <1>5 DEF Accounted
<1>8. DiskTyped' /\ IndexTiles'
  BY <1>1, <1>6 DEF DiskInv, DiskTyped, IndexTiles, DiskPending
<1>. QED
  BY <1>3, <1>7, <1>8 DEF DiskInv

(* An entry that says where its record starts can be read, and what is     *)
(* read is that record: no other starts at its offset.                     *)
LEMMA ReadRecord ==
  ASSUME FilesInv, IndexTiles, NEW h \in DOMAIN disk_index,
         disk_index[h].offset = data_file[h].off
  PROVE  Readable(disk_index[h]) /\ ReadMessage(disk_index[h]) = data_file[h].msg
<1> DEFINE entry == disk_index[h]
<1>1. h \in DOMAIN data_file /\ DOMAIN data_file \subseteq Int
  BY DEF FilesInv, FilesTyped, IndexTiles
<1>2. data_file[h].off = entry.offset /\ data_file[h].msg.size = entry.size
  BY DEF IndexTiles, Describes
<1>3. ASSUME NEW k \in DOMAIN data_file, data_file[k].off = entry.offset
      PROVE  k = h
  <2>1. /\ data_file[k].off \in Nat /\ data_file[k].msg.size \in Nat \ {0}
        /\ data_file[h].off \in Nat /\ data_file[h].msg.size \in Nat \ {0}
    BY <1>1, FileSizeValue DEF FilesInv
  <2>2. /\ k < h => data_file[k].off + data_file[k].msg.size <= data_file[h].off
        /\ h < k => data_file[h].off + data_file[h].msg.size <= data_file[k].off
    BY <1>1 DEF FilesInv, FileOrdered
  <2>3. ~(k < h) /\ ~(h < k)
    BY <1>2, <1>3, <2>1, <2>2
  <2>. QED
    BY <1>1, <2>3
<1>4. (CHOOSE k \in DOMAIN data_file : data_file[k].off = entry.offset) = h
  BY <1>1, <1>2, <1>3
<1>. QED
  BY <1>1, <1>2, <1>4 DEF Readable, ReadMessage

(* Whatever can be read is a message of the file.                          *)
LEMMA ReadSomething ==
  ASSUME NEW e, Readable(e)
  PROVE  \E k \in DOMAIN data_file : ReadMessage(e) = data_file[k].msg
BY DEF Readable, ReadMessage

-----------------------------------------------------------------------------
(* The invariant, in the parts the steps disturb separately.               *)

RingGood ==
  /\ RingTyped /\ SlotsReady
  /\ \A i \in 0 .. memory_size - 1 :
       memory_buffer[RingSlot(i)] \in Message /\ memory_buffer[RingSlot(i)].uid \in 1 .. offered

FileGood ==
  FilesInv /\ \A k \in DOMAIN data_file : data_file[k].msg.uid \in 1 .. offered

CountsTyped ==
  /\ next_message_id \in Nat /\ total_enqueued \in Nat /\ total_dequeued \in Nat
  /\ restarts \in 0 .. MaxRestarts
  /\ offered \in 0 .. MaxMessages
  /\ accepted \subseteq 1 .. offered
  /\ popped \subseteq 1 .. offered /\ session_popped \subseteq 1 .. offered
  /\ forgotten \subseteq 1 .. offered
  /\ base \in Int

(* The inductive invariant, part by part, as the lemmas cite it. *)
LEMMA IInvParts ==
  IInv <=> /\ phase \in Phases /\ PhaseReached /\ DownIsBlank
           /\ RingGood /\ FileGood /\ CountsTyped /\ DiskTyped
           /\ phase # "down" => DiskInv
BY DEF IInv, TypeOK, LiveTyped, RingGood, RingTyped, FileGood, FilesInv, FilesTyped,
       CountsTyped, DiskTyped, DiskInv, IndexTilesFile, IndexTiles, DiskAccounting, Accounted

(* The same of the next state. *)
LEMMA IInvPartsNext ==
  IInv' <=> /\ phase' \in Phases /\ PhaseReached' /\ DownIsBlank'
            /\ RingGood' /\ FileGood' /\ CountsTyped' /\ DiskTyped'
            /\ phase' # "down" => DiskInv'
BY DEF IInv, TypeOK, LiveTyped, RingGood, RingTyped, FileGood, FilesInv, FilesTyped,
       CountsTyped, DiskTyped, DiskInv, IndexTilesFile, IndexTiles, DiskAccounting, Accounted

(* The identities the queue holds are among those offered.                 *)
LEMMA HeldUids ==
  ASSUME RingGood, FileGood
  PROVE  RingUids \subseteq 1 .. offered /\ FileUids \subseteq 1 .. offered
BY DEF RingGood, FileGood, RingUids, FileUids

(* What is pending on the disk side is in the data file. *)
LEMMA PendingInFile ==
  ASSUME FileGood, DiskInv
  PROVE  PendingUids \subseteq FileUids
<1>1. disk_read_pos \in Nat /\ Len(disk_index) = Len(data_file)
      /\ DOMAIN data_file = 1 .. Len(data_file)
  BY DEF FileGood, FilesInv, FilesTyped, DiskInv, DiskTyped, IndexTiles
<1>2. disk_read_pos + 1 .. Len(disk_index) \subseteq DOMAIN data_file
  BY <1>1
<1>. QED
  BY <1>2 DEF PendingUids, FileUids

(* Parts that keep when the variables they are about do.                   *)
LEMMA RingKept ==
  ASSUME RingGood, offered \in Nat, offered' \in Nat, offered <= offered', UNCHANGED ring
  PROVE  RingGood' /\ RingUids' = RingUids /\ memory_size' = memory_size
<1>1. /\ memory_buffer' = memory_buffer /\ ready' = ready
      /\ write_pos' = write_pos /\ read_pos' = read_pos
  BY DEF ring
<1>2. memory_size' = memory_size /\ RingUids' = RingUids
  BY <1>1 DEF memory_size, RingUids, RingSlot
<1>3. RingTyped' /\ SlotsReady'
  BY <1>1 DEF RingGood, RingTyped, SlotsReady, RingSlot, memory_size
<1>4. ASSUME NEW i \in 0 .. memory_size - 1
      PROVE  /\ memory_buffer'[RingSlot(i)'] \in Message
             /\ memory_buffer'[RingSlot(i)'].uid \in 1 .. offered'
  <2>1. RingSlot(i)' = RingSlot(i)
    BY <1>1 DEF RingSlot
  <2>2. /\ memory_buffer[RingSlot(i)] \in Message
        /\ memory_buffer[RingSlot(i)].uid \in 1 .. offered
    BY DEF RingGood
  <2>. QED
    BY <1>1, <2>1, <2>2
<1>. QED
  BY <1>2, <1>3, <1>4 DEF RingGood

(* A step that leaves both files alone keeps what is said of them. *)
LEMMA FilesKept ==
  ASSUME FileGood, offered \in Nat, offered' \in Nat, offered <= offered',
         UNCHANGED data_file, UNCHANGED index_file
  PROVE  FileGood' /\ FileUids' = FileUids /\ FileSize' = FileSize
<1>1. FileUids' = FileUids /\ FileSize' = FileSize
  BY DEF FileUids, FileSize
<1>2. FilesInv'
  BY <1>1 DEF FileGood, FilesInv, FilesTyped, FileTiled, FileOrdered, IndexFileIsPrefix
<1>3. \A k \in DOMAIN data_file' : data_file'[k].msg.uid \in 1 .. offered'
  BY DEF FileGood
<1>. QED
  BY <1>1, <1>2, <1>3 DEF FileGood

(* A step that leaves the disk side and the files alone keeps the index
   aligned and the bytes counted. *)
LEMMA DiskKept ==
  ASSUME UNCHANGED disk, UNCHANGED data_file
  PROVE  /\ DiskTyped => DiskTyped'
         /\ DiskInv => DiskInv'
         /\ PendingUids' = PendingUids
<1>1. /\ disk_index' = disk_index /\ disk_read_pos' = disk_read_pos
      /\ current_disk_size' = current_disk_size /\ writer_open' = writer_open
      /\ data_file' = data_file
  BY DEF disk
<1>2. PendingBytes' = PendingBytes /\ FileSize' = FileSize /\ PendingUids' = PendingUids
  BY <1>1 DEF PendingBytes, FileSize, PendingUids, DiskPending, HeadRecord
<1>. QED
  BY <1>1, <1>2 DEF DiskTyped, DiskInv, IndexTiles, Accounted

(* The ring parts of a store and of a release.                             *)
LEMMA StoreKeepsRingGood ==
  ASSUME RingGood, ~RingFull, NEW m \in Message, StoreInRing(m),
         offered \in Nat, offered' \in Nat, offered <= offered', m.uid \in 1 .. offered'
  PROVE  RingGood' /\ RingUids' = RingUids \union {m.uid}
<1>1. RingTyped
  BY DEF RingGood
<1>2. /\ RingTyped' /\ memory_size' = memory_size + 1 /\ memory_size \in Nat
      /\ \A i \in 0 .. memory_size - 1 :
           /\ memory_buffer'[RingSlot(i)'] = memory_buffer[RingSlot(i)]
           /\ ready'[RingSlot(i)'] = ready[RingSlot(i)]
      /\ memory_buffer'[SlotAt(read_pos', memory_size)] = m
      /\ ready'[SlotAt(read_pos', memory_size)]
      /\ RingUids' = RingUids \union {m.uid}
  BY <1>1, StoreInRingEffect, MemorySizeValue, CapacityAssumption DEF Slots
<1>3. ASSUME NEW i \in 0 .. memory_size
      PROVE  /\ ready'[RingSlot(i)']
             /\ memory_buffer'[RingSlot(i)'] \in Message
             /\ memory_buffer'[RingSlot(i)'].uid \in 1 .. offered'
  <2>1. CASE i \in 0 .. memory_size - 1
    <3>1. /\ ready[RingSlot(i)] /\ memory_buffer[RingSlot(i)] \in Message
          /\ memory_buffer[RingSlot(i)].uid \in 1 .. offered
      BY <2>1 DEF RingGood, SlotsReady
    <3>. QED
      BY <1>2, <2>1, <3>1
  <2>2. CASE i = memory_size
    BY <1>2, <2>2 DEF RingSlot
  <2>. QED
    BY <1>2, <2>1, <2>2
<1>4. \A i \in 0 .. memory_size' - 1 : i \in 0 .. memory_size
  BY <1>2
<1>5. SlotsReady'
  BY <1>3, <1>4 DEF SlotsReady
<1>. QED
  BY <1>2, <1>3, <1>4, <1>5 DEF RingGood

(* Releasing the front slot keeps the rest of the ring in order. *)
LEMMA ReleaseKeepsRingGood ==
  ASSUME RingGood, ~RingEmpty, ReleaseFront, UNCHANGED offered
  PROVE  /\ RingGood'
         /\ memory_buffer[read_pos] \in Message /\ memory_buffer[read_pos].uid \in 1 .. offered
         /\ RingUids = RingUids' \union {memory_buffer[read_pos].uid}
<1>1. RingTyped
  BY DEF RingGood
<1>2. /\ RingTyped' /\ memory_size > 0 /\ memory_size' = memory_size - 1 /\ memory_size \in Nat
      /\ memory_buffer[RingSlot(0)] = memory_buffer[read_pos]
      /\ \A i \in 0 .. memory_size - 2 :
           /\ memory_buffer'[RingSlot(i)'] = memory_buffer[RingSlot(i + 1)]
           /\ ready'[RingSlot(i)'] = ready[RingSlot(i + 1)]
      /\ RingUids = RingUids' \union {memory_buffer[read_pos].uid}
  BY <1>1, ReleaseFrontEffect, MemorySizeValue, CapacityAssumption DEF Slots
<1>3. ASSUME NEW i \in 0 .. memory_size' - 1
      PROVE  /\ ready'[RingSlot(i)']
             /\ memory_buffer'[RingSlot(i)'] \in Message
             /\ memory_buffer'[RingSlot(i)'].uid \in 1 .. offered'
  <2>1. i \in 0 .. memory_size - 2 /\ i + 1 \in 0 .. memory_size - 1
    BY <1>2
  <2>2. /\ ready[RingSlot(i + 1)] /\ memory_buffer[RingSlot(i + 1)] \in Message
        /\ memory_buffer[RingSlot(i + 1)].uid \in 1 .. offered
    BY <2>1 DEF RingGood, SlotsReady
  <2>. QED
    BY <1>2, <2>1, <2>2
<1>4. 0 \in 0 .. memory_size - 1
  BY <1>2
<1>5. memory_buffer[read_pos] \in Message /\ memory_buffer[read_pos].uid \in 1 .. offered
  BY <1>2, <1>4 DEF RingGood
<1>6. SlotsReady'
  BY <1>3 DEF SlotsReady
<1>. QED
  BY <1>2, <1>3, <1>5, <1>6 DEF RingGood

(* An append to the data file, of a message that was offered.              *)
LEMMA WriteKeepsFileGood ==
  ASSUME FileGood, DiskInv, NEW m \in Message, WriteToDisk(m),
         offered \in Nat, offered' \in Nat, offered <= offered', m.uid \in 1 .. offered'
  PROVE  /\ FileGood' /\ DiskInv'
         /\ PendingUids' = PendingUids \union {m.uid}
<1>1. /\ FilesInv' /\ DiskInv'
      /\ PendingUids' = PendingUids \union {m.uid}
      /\ FileUids' = FileUids \union {m.uid}
  BY WriteToDiskEffect DEF FileGood
<1>2. FileUids \subseteq 1 .. offered
  BY DEF FileGood, FileUids
<1>3. FileUids' \subseteq 1 .. offered'
  <2>1. 1 .. offered \subseteq 1 .. offered'
    OBVIOUS
  <2>. QED
    BY <1>1, <1>2, <2>1
<1>4. \A k \in DOMAIN data_file' : data_file'[k].msg.uid \in FileUids'
  BY DEF FileUids
<1>. QED
  BY <1>1, <1>3, <1>4 DEF FileGood

(* An index file load_disk_index() accepts describes all of the data file: *)
(* were it shorter, its total would end before the last record.            *)
LEMMA AcceptedIndexIsWhole ==
  ASSUME FilesInv, IndexAccepted
  PROVE  /\ Len(index_file.entries) = Len(data_file)
         /\ \A k \in DOMAIN data_file : Describes(index_file.entries[k], data_file[k])
<1> DEFINE e == index_file.entries
           n == Len(data_file)
<1>1. /\ e \in Seq(Entry) /\ Len(e) \in Nat /\ DOMAIN e = 1 .. Len(e)
      /\ n \in Nat /\ DOMAIN data_file = 1 .. n
      /\ index_file.total = FileSize /\ index_file.kind # "none"
  BY DEF FilesInv, FilesTyped, IndexAccepted
<1>2. /\ Len(e) <= n
      /\ \A k \in DOMAIN e : Describes(e[k], data_file[k])
      /\ Len(e) # n => FileSize <= data_file[Len(e) + 1].off
  BY <1>1 DEF FilesInv, IndexFileIsPrefix
<1>3. Len(e) = n
  <2> SUFFICES ASSUME Len(e) # n
               PROVE  FALSE
    OBVIOUS
  <2>1. Len(e) + 1 \in DOMAIN data_file
    BY <1>1, <1>2
  <2>2. /\ FileSize \in Nat /\ data_file[Len(e) + 1].off \in Nat
        /\ data_file[Len(e) + 1].msg.size \in Nat \ {0}
        /\ data_file[Len(e) + 1].off + data_file[Len(e) + 1].msg.size <= FileSize
    BY <2>1, FileSizeValue DEF FilesInv
  <2>. QED
    BY <1>2, <2>2
<1>. QED
  BY <1>1, <1>2, <1>3

-----------------------------------------------------------------------------
(* Each action keeps the invariant, and loses no accepted message.         *)

Kept == IInv' /\ (NoSilentLoss => NoSilentLoss')

(* enqueue(), to the ring or to the data file, keeps the invariant. *)
LEMMA EnqueueKeeps ==
  ASSUME IInv, NEW s \in Sizes,
         EnqueueMemory(s) \/ EnqueueDisk(s)
  PROVE  Kept
<1> DEFINE m == NewMessage(s)
<1>1. /\ phase = "run" /\ phase' = phase /\ offered < MaxMessages /\ offered' = offered + 1
      /\ next_message_id' = next_message_id + 1 /\ total_enqueued' = total_enqueued + 1
      /\ accepted' = accepted \union {m.uid}
      /\ UNCHANGED <<restarts, total_dequeued, popped, session_popped, forgotten, base>>
      /\ index_file' = index_file
  BY DEF EnqueueMemory, EnqueueDisk, Offer, Accept, NewMessage, WriteToDisk, files
<1>2. /\ PhaseReached /\ RingGood /\ FileGood /\ CountsTyped /\ DiskTyped /\ DiskInv
  BY <1>1, IInvParts
<1>3. /\ offered \in Nat /\ offered' \in Nat /\ offered <= offered' /\ m.uid = offered'
      /\ m.uid \in 1 .. offered' /\ m \in Message
  BY <1>1, <1>2 DEF CountsTyped, NewMessage, Message
<1>4. CountsTyped'
  <2>1. 1 .. offered' = (1 .. offered) \union {m.uid}
    BY <1>1, <1>3
  <2>2. offered' \in 0 .. MaxMessages
    BY <1>1, <1>2, BoundsAssumption DEF CountsTyped
  <2>3. accepted' \subseteq 1 .. offered'
    BY <1>1, <1>2, <2>1 DEF CountsTyped
  <2>4. /\ popped' \subseteq 1 .. offered' /\ session_popped' \subseteq 1 .. offered'
        /\ forgotten' \subseteq 1 .. offered'
    BY <1>1, <1>2, <2>1 DEF CountsTyped
  <2>. QED
    BY <1>1, <1>2, <2>2, <2>3, <2>4 DEF CountsTyped
<1>5. /\ RingGood' /\ FileGood' /\ DiskInv'
      /\ RingUids' \union PendingUids' = (RingUids \union PendingUids) \union {m.uid}
  <2>1. CASE EnqueueMemory(s)
    <3>1. ~RingFull /\ StoreInRing(m) /\ UNCHANGED disk /\ UNCHANGED <<data_file, index_file>>
      BY <2>1 DEF EnqueueMemory, files
    <3>2. RingGood' /\ RingUids' = RingUids \union {m.uid}
      BY <1>2, <1>3, <3>1, StoreKeepsRingGood
    <3>3. FileGood' /\ DiskInv' /\ PendingUids' = PendingUids
      BY <1>2, <1>3, <3>1, FilesKept, DiskKept
    <3>. QED
      BY <3>2, <3>3
  <2>2. CASE EnqueueDisk(s)
    <3>1. WriteToDisk(m) /\ UNCHANGED ring
      BY <2>2 DEF EnqueueDisk
    <3>2. RingGood' /\ RingUids' = RingUids
      BY <1>2, <1>3, <3>1, RingKept
    <3>3. FileGood' /\ DiskInv' /\ PendingUids' = PendingUids \union {m.uid}
      BY <1>2, <1>3, <3>1, WriteKeepsFileGood
    <3>. QED
      BY <3>2, <3>3
  <2>. QED
    BY <2>1, <2>2
<1>6. IInv'
  <2>1. PhaseReached' /\ DownIsBlank' /\ phase' \in Phases
    BY <1>1 DEF PhaseReached, DownIsBlank, Phases
  <2>2. DiskTyped'
    BY <1>5 DEF DiskInv
  <2>. QED
    BY <1>4, <1>5, <2>1, <2>2, IInvPartsNext
<1>7. NoSilentLoss => NoSilentLoss'
  BY <1>1, <1>5 DEF NoSilentLoss, Live
<1>. QED
  BY <1>6, <1>7 DEF Kept

(* An enqueue() refused because the disk is full keeps the invariant. *)
LEMMA RefusalKeeps ==
  ASSUME IInv, EnqueueRefused
  PROVE  Kept
<1>1. /\ phase = "run" /\ phase' = phase /\ offered < MaxMessages /\ offered' = offered + 1
      /\ next_message_id' = next_message_id + 1
      /\ UNCHANGED <<restarts, total_dequeued, popped, session_popped, forgotten, base>>
      /\ UNCHANGED <<total_enqueued, accepted, data_file, index_file>>
      /\ UNCHANGED ring /\ UNCHANGED disk
  BY DEF EnqueueRefused, Offer, files
<1>2. /\ PhaseReached /\ RingGood /\ FileGood /\ CountsTyped /\ DiskTyped /\ DiskInv
  BY <1>1, IInvParts
<1>3. offered \in Nat /\ offered' \in Nat /\ offered <= offered' /\ offered' \in 0 .. MaxMessages
      /\ 1 .. offered \subseteq 1 .. offered'
  BY <1>1, <1>2, BoundsAssumption DEF CountsTyped
<1>4. CountsTyped'
  BY <1>1, <1>2, <1>3 DEF CountsTyped
<1>5. RingGood' /\ RingUids' = RingUids
  BY <1>1, <1>2, <1>3, RingKept
<1>6. FileGood' /\ DiskInv' /\ DiskTyped' /\ PendingUids' = PendingUids
  BY <1>1, <1>2, <1>3, FilesKept, DiskKept
<1>7. PhaseReached' /\ DownIsBlank' /\ phase' \in Phases
  BY <1>1 DEF PhaseReached, DownIsBlank, Phases
<1>8. IInv'
  BY <1>4, <1>5, <1>6, <1>7, IInvPartsNext
<1>9. NoSilentLoss => NoSilentLoss'
  BY <1>1, <1>5, <1>6 DEF NoSilentLoss, Live
<1>. QED
  BY <1>8, <1>9 DEF Kept

(* pop_front() of the ring keeps the invariant. *)
LEMMA PopMemoryKeeps ==
  ASSUME IInv, PopMemory
  PROVE  Kept
<1> DEFINE u == memory_buffer[read_pos].uid
<1>1. /\ phase = "run" /\ phase' = phase /\ ~RingEmpty /\ ReleaseFront
      /\ UNCHANGED disk /\ UNCHANGED <<data_file, index_file>>
      /\ total_dequeued' = total_dequeued + 1
      /\ popped' = popped \union {u} /\ session_popped' = session_popped \union {u}
      /\ UNCHANGED <<restarts, next_message_id, total_enqueued, offered, accepted, forgotten, base>>
  BY DEF PopMemory, CountRemoved, files
<1>2. /\ PhaseReached /\ RingGood /\ FileGood /\ CountsTyped /\ DiskTyped /\ DiskInv
  BY <1>1, IInvParts
<1>3. RingGood' /\ RingUids = RingUids' \union {u} /\ u \in 1 .. offered
  BY <1>1, <1>2, ReleaseKeepsRingGood
<1>4. offered \in Nat
  BY <1>2 DEF CountsTyped
<1>5. FileGood' /\ DiskInv' /\ DiskTyped' /\ PendingUids' = PendingUids
  BY <1>1, <1>2, <1>4, FilesKept, DiskKept
<1>6. CountsTyped'
  <2>1. popped' \subseteq 1 .. offered' /\ session_popped' \subseteq 1 .. offered'
    BY <1>1, <1>2, <1>3 DEF CountsTyped
  <2>. QED
    BY <1>1, <1>2, <2>1 DEF CountsTyped
<1>7. PhaseReached' /\ DownIsBlank' /\ phase' \in Phases
  BY <1>1 DEF PhaseReached, DownIsBlank, Phases
<1>8. IInv'
  BY <1>3, <1>5, <1>6, <1>7, IInvPartsNext
<1>9. NoSilentLoss => NoSilentLoss'
  BY <1>1, <1>3, <1>5 DEF NoSilentLoss, Live
<1>. QED
  BY <1>8, <1>9 DEF Kept

(* pop_front() and dequeue() of the disk side keep the invariant. *)
LEMMA RemoveFromDiskKeeps ==
  ASSUME IInv, PopDisk \/ DequeueDisk
  PROVE  Kept
<1> DEFINE u == HeadRecord.msg.uid
<1>1. /\ phase = "run" /\ phase' = phase /\ DiskPending /\ AdvanceDisk
      /\ UNCHANGED ring /\ UNCHANGED restarts
      /\ CountRemoved(u)
  BY DEF PopDisk, DequeueDisk
<1>2. /\ PhaseReached /\ RingGood /\ FileGood /\ CountsTyped /\ DiskTyped /\ DiskInv
  BY <1>1, IInvParts
<1>3. /\ total_dequeued' = total_dequeued + 1
      /\ popped' = popped \union {u} /\ session_popped' = session_popped \union {u}
      /\ UNCHANGED <<restarts, next_message_id, total_enqueued, offered, accepted, forgotten, base>>
  BY <1>1 DEF CountRemoved
<1>4. /\ UNCHANGED <<data_file, index_file, disk_index>> /\ disk_read_pos' = disk_read_pos + 1
  BY <1>1 DEF AdvanceDisk, files
<1>5. /\ PendingUids = PendingUids' \union {u}
      /\ HeadRecord \in {data_file[k] : k \in DOMAIN data_file}
  BY <1>1, <1>2, <1>4, ConsumeHeadEffect DEF FileGood, DiskInv
<1>6. DiskInv' /\ DiskTyped'
  BY <1>1, <1>2, AdvanceDiskEffect DEF FileGood, DiskInv
<1>7. offered \in Nat
  BY <1>2 DEF CountsTyped
<1>8. RingGood' /\ RingUids' = RingUids /\ FileGood'
  BY <1>1, <1>2, <1>3, <1>4, <1>7, RingKept, FilesKept
<1>9. CountsTyped'
  <2>1. u \in 1 .. offered
    BY <1>2, <1>5 DEF FileGood
  <2>2. popped' \subseteq 1 .. offered' /\ session_popped' \subseteq 1 .. offered'
    BY <1>2, <1>3, <2>1 DEF CountsTyped
  <2>. QED
    BY <1>2, <1>3, <2>2 DEF CountsTyped
<1>10. PhaseReached' /\ DownIsBlank' /\ phase' \in Phases
  BY <1>1 DEF PhaseReached, DownIsBlank, Phases
<1>11. IInv'
  BY <1>6, <1>8, <1>9, <1>10, IInvPartsNext
<1>12. NoSilentLoss => NoSilentLoss'
  BY <1>1, <1>3, <1>5, <1>8 DEF NoSilentLoss, Live
<1>. QED
  BY <1>11, <1>12 DEF Kept

(* load_from_disk() moves the head of the disk side into the ring.         *)
LEMMA LoadStepKeeps ==
  ASSUME IInv, LoadStep
  PROVE  Kept
<1> DEFINE m == HeadRecord.msg
<1>1. /\ phase = "load" /\ phase' = phase /\ DiskPending /\ ~RingFull
      /\ disk_read_pos' = disk_read_pos + 1
      /\ UNCHANGED <<disk_index, current_disk_size, writer_open, data_file, index_file>>
      /\ UNCHANGED <<next_message_id, total_enqueued, total_dequeued, restarts,
                     offered, accepted, popped, session_popped>>
      /\ forgotten' = IF HeadRecord.told THEN forgotten ELSE forgotten \union {m.uid}
  BY DEF LoadStep, files, counts
<1>2. /\ PhaseReached /\ RingGood /\ FileGood /\ CountsTyped /\ DiskTyped /\ DiskInv
  BY <1>1, IInvParts
<1>3. HeadRecord.told => Readable(HeadEntry) /\ ReadMessage(HeadEntry) = m
  <2>1. disk_read_pos + 1 \in DOMAIN disk_index
    BY <1>1, <1>2 DEF DiskTyped, DiskPending
  <2>2. HeadRecord.told => HeadEntry.offset = HeadRecord.off
    BY <1>2, <2>1 DEF DiskInv, IndexTiles, Describes, HeadEntry, HeadRecord
  <2>. QED
    BY <1>2, <2>1, <2>2, ReadRecord DEF FileGood, DiskInv, HeadEntry, HeadRecord
<1>4. \/ /\ Readable(HeadEntry) /\ StoreInRing(ReadMessage(HeadEntry)) /\ UNCHANGED base
      \/ /\ ~HeadRecord.told /\ UNCHANGED ring /\ base' = base - 1
  BY <1>3 DEF LoadStep
<1>5. /\ m \in Message /\ HeadRecord \in {data_file[k] : k \in DOMAIN data_file}
      /\ HeadEntry.size \in Nat \ {0}
      /\ PendingBytes \in Nat /\ PendingBytes' \in Nat
      /\ PendingBytes' = PendingBytes - HeadEntry.size
      /\ PendingUids = PendingUids' \union {m.uid}
  BY <1>1, <1>2, ConsumeHeadEffect DEF FileGood, DiskInv
<1>6. offered \in Nat
  BY <1>2 DEF CountsTyped
<1>7. /\ RingGood' /\ RingUids \subseteq RingUids'
      /\ HeadRecord.told => m.uid \in RingUids'
      /\ base' \in Int
  <2>1. offered' \in Nat /\ offered <= offered' /\ base \in Int
    BY <1>1, <1>2, <1>6 DEF CountsTyped
  <2>2. CASE Readable(HeadEntry) /\ StoreInRing(ReadMessage(HeadEntry)) /\ UNCHANGED base
    <3>1. PICK k \in DOMAIN data_file : ReadMessage(HeadEntry) = data_file[k].msg
      BY <2>2, ReadSomething
    <3>2. data_file[k].msg \in Message /\ data_file[k].msg.uid \in 1 .. offered'
      <4>1. data_file[k] \in Record
        BY <1>2 DEF FileGood, FilesInv, FilesTyped
      <4>. QED
        BY <1>1, <1>2, <4>1 DEF FileGood, Record
    <3>3. RingGood' /\ RingUids' = RingUids \union {data_file[k].msg.uid}
      BY <1>1, <1>2, <1>6, <2>1, <2>2, <3>1, <3>2, StoreKeepsRingGood
    <3>. QED
      BY <1>3, <2>1, <2>2, <3>1, <3>3
  <2>3. CASE ~HeadRecord.told /\ UNCHANGED ring /\ base' = base - 1
    BY <1>2, <1>6, <2>1, <2>3, RingKept
  <2>. QED
    BY <1>4, <2>2, <2>3
<1>8. FileGood' /\ FileSize' = FileSize
  BY <1>1, <1>2, <1>6, FilesKept
<1>9. DiskInv'
  <2>1. "load_from_disk" \in Calls
    BY <1>1, <1>2 DEF PhaseReached
  <2>2. /\ current_disk_size \in Nat /\ PendingBytes <= current_disk_size
        /\ current_disk_size <= FileSize
    BY <1>2 DEF DiskInv, DiskTyped, Accounted
  <2>3. PendingBytes' <= current_disk_size'
    BY <1>1, <1>5, <2>2
  <2>4. Accounted'
    BY <1>1, <1>8, <2>1, <2>2, <2>3 DEF Accounted
  <2>5. DiskTyped' /\ IndexTiles'
    BY <1>1, <1>2 DEF DiskInv, DiskTyped, IndexTiles, DiskPending
  <2>. QED
    BY <2>4, <2>5 DEF DiskInv
<1>10. CountsTyped'
  <2>1. m.uid \in 1 .. offered
    BY <1>2, <1>5 DEF FileGood
  <2>2. forgotten' \subseteq 1 .. offered'
    BY <1>1, <1>2, <2>1 DEF CountsTyped
  <2>. QED
    BY <1>1, <1>2, <1>7, <2>2 DEF CountsTyped
<1>11. PhaseReached' /\ DownIsBlank' /\ phase' \in Phases /\ DiskTyped'
  BY <1>1, <1>2, <1>9 DEF PhaseReached, DownIsBlank, Phases, DiskInv
<1>12. IInv'
  BY <1>7, <1>8, <1>9, <1>10, <1>11, IInvPartsNext
<1>13. NoSilentLoss => NoSilentLoss'
  <2>1. forgotten \subseteq forgotten' /\ m.uid \in RingUids' \union forgotten'
    BY <1>1, <1>7
  <2>. QED
    BY <1>1, <1>5, <1>7, <2>1 DEF NoSilentLoss, Live
<1>. QED
  BY <1>12, <1>13 DEF Kept

(* flush_to_disk() moves the front of the ring to the data file.           *)
LEMMA FlushStepKeeps ==
  ASSUME IInv, FlushStep
  PROVE  Kept
<1> DEFINE m == memory_buffer[read_pos]
<1>1. /\ phase \in {"flush", "dtor_flush"} /\ phase' = phase /\ ~RingEmpty
      /\ WriteToDisk(m) /\ ReleaseFront
      /\ UNCHANGED <<next_message_id, total_enqueued, total_dequeued, restarts,
                     offered, accepted, popped, session_popped, forgotten, base>>
      /\ index_file' = index_file
  BY DEF FlushStep, WriteToDisk, counts, ghosts
<1>2. /\ PhaseReached /\ RingGood /\ FileGood /\ CountsTyped /\ DiskTyped /\ DiskInv
  BY <1>1, IInvParts
<1>3. RingGood' /\ m \in Message /\ m.uid \in 1 .. offered /\ RingUids = RingUids' \union {m.uid}
  BY <1>1, <1>2, ReleaseKeepsRingGood
<1>4. offered \in Nat /\ offered' \in Nat /\ offered <= offered' /\ m.uid \in 1 .. offered'
  BY <1>1, <1>2, <1>3 DEF CountsTyped
<1>5. FileGood' /\ DiskInv' /\ PendingUids' = PendingUids \union {m.uid}
  BY <1>1, <1>2, <1>3, <1>4, WriteKeepsFileGood
<1>6. CountsTyped'
  BY <1>1, <1>2 DEF CountsTyped
<1>7. PhaseReached' /\ DownIsBlank' /\ phase' \in Phases /\ DiskTyped'
  BY <1>1, <1>2, <1>5 DEF PhaseReached, DownIsBlank, Phases, DiskInv
<1>8. IInv'
  BY <1>3, <1>5, <1>6, <1>7, IInvPartsNext
<1>9. NoSilentLoss => NoSilentLoss'
  BY <1>1, <1>3, <1>5 DEF NoSilentLoss, Live
<1>. QED
  BY <1>8, <1>9 DEF Kept

(* Steps that only start or end a call.                                    *)
LEMMA PhaseStepKeeps ==
  ASSUME IInv,
         \/ LoadFromDisk \/ LoadReturn \/ FlushToDisk \/ FlushReturn \/ Shutdown
         \/ UNCHANGED vars
  PROVE  Kept
<1>1. /\ UNCHANGED ring /\ UNCHANGED disk /\ UNCHANGED <<data_file, index_file>>
      /\ UNCHANGED <<next_message_id, total_enqueued, total_dequeued, restarts,
                     offered, accepted, popped, session_popped, forgotten, base>>
  BY DEF LoadFromDisk, LoadReturn, FlushToDisk, FlushReturn, Shutdown, vars, files,
         counts, ghosts
<1>2. /\ RingGood /\ FileGood /\ CountsTyped /\ DiskTyped /\ (phase # "down" => DiskInv)
      /\ phase \in Phases /\ PhaseReached /\ DownIsBlank
  BY IInvParts
<1>3. offered \in Nat /\ offered' \in Nat /\ offered <= offered'
  BY <1>1, <1>2 DEF CountsTyped
<1>4. RingGood' /\ RingUids' = RingUids
  BY <1>1, <1>2, <1>3, RingKept
<1>5. FileGood' /\ FileUids' = FileUids
  BY <1>1, <1>2, <1>3, FilesKept
<1>6. DiskTyped' /\ (DiskInv => DiskInv') /\ PendingUids' = PendingUids
  BY <1>1, <1>2, DiskKept
<1>7. CountsTyped'
  BY <1>1, <1>2 DEF CountsTyped
<1>8. /\ phase' \in Phases
      /\ phase' = "down" <=> phase = "down"
      /\ phase' # "clear"
      /\ phase' = "load" => "load_from_disk" \in Calls
      /\ phase' = "dtor_crc" => phase = "dtor_crc"
  BY <1>2 DEF LoadFromDisk, LoadReturn, FlushToDisk, FlushReturn, Shutdown, vars,
              Phases, PhaseReached
<1>9. PhaseReached' /\ DownIsBlank'
  <2>1. PhaseReached'
    BY <1>1, <1>2, <1>8 DEF PhaseReached
  <2>2. DownIsBlank'
    BY <1>1, <1>2, <1>8 DEF DownIsBlank, ring, disk
  <2>. QED
    BY <2>1, <2>2
<1>10. IInv'
  BY <1>2, <1>4, <1>5, <1>6, <1>7, <1>8, <1>9, IInvPartsNext
<1>11. NoSilentLoss => NoSilentLoss'
  BY <1>1, <1>4, <1>5, <1>6, <1>8 DEF NoSilentLoss, Live
<1>. QED
  BY <1>10, <1>11 DEF Kept

(* The destructor writes an index file that describes the whole data file. *)
LEMMA SaveIndexKeeps ==
  ASSUME IInv, SaveIndex
  PROVE  Kept
<1>1. /\ phase = "dtor_save" /\ phase' = "dtor_crc"
      /\ index_file' = [kind |-> "partial", entries |-> disk_index, total |-> current_disk_size]
      /\ data_file' = data_file /\ UNCHANGED ring /\ UNCHANGED disk
      /\ UNCHANGED <<next_message_id, total_enqueued, total_dequeued, restarts,
                     offered, accepted, popped, session_popped, forgotten, base>>
  BY DEF SaveIndex, counts, ghosts
<1>2. /\ RingGood /\ FileGood /\ CountsTyped /\ DiskTyped /\ DiskInv
  BY <1>1, IInvParts
<1>3. offered \in Nat /\ offered' \in Nat /\ offered <= offered'
  BY <1>1, <1>2 DEF CountsTyped
<1>4. RingGood' /\ RingUids' = RingUids
  BY <1>1, <1>2, <1>3, RingKept
<1>5. DiskTyped' /\ DiskInv' /\ PendingUids' = PendingUids
  BY <1>1, <1>2, DiskKept
<1>6. FileSize' = FileSize
  BY <1>1 DEF FileSize
<1>7. FilesTyped' /\ FileTiled' /\ FileOrdered'
  BY <1>1, <1>2 DEF FileGood, FilesInv, FilesTyped, FileTiled, FileOrdered, DiskTyped
<1>8. IndexFileIsPrefix'
  <2>1. /\ Len(disk_index) = Len(data_file) /\ current_disk_size <= FileSize
        /\ Len(data_file) \in Nat
        /\ \A k \in DOMAIN disk_index : Describes(disk_index[k], data_file[k])
    BY <1>2 DEF DiskInv, IndexTiles, Accounted, FileGood, FilesInv, FilesTyped
  <2>. QED
    BY <1>1, <1>6, <2>1 DEF IndexFileIsPrefix, Describes
<1>9. FileGood'
  <2>1. \A k \in DOMAIN data_file' : data_file'[k].msg.uid \in 1 .. offered'
    BY <1>1, <1>2 DEF FileGood
  <2>. QED
    BY <1>7, <1>8, <2>1 DEF FileGood, FilesInv
<1>10. CountsTyped'
  BY <1>1, <1>2 DEF CountsTyped
<1>11. PhaseReached' /\ DownIsBlank' /\ phase' \in Phases
  BY <1>1 DEF PhaseReached, DownIsBlank, Phases
<1>12. IInv'
  BY <1>4, <1>5, <1>9, <1>10, <1>11, IInvPartsNext
<1>13. NoSilentLoss => NoSilentLoss'
  BY <1>1, <1>4, <1>5 DEF NoSilentLoss, Live
<1>. QED
  BY <1>12, <1>13 DEF Kept

(* The end of the process: the files stay, the ring counts as forgotten.   *)
LEMMA ProcessGoneKeeps ==
  ASSUME IInv, SaveChecksum \/ ExitWithoutIndex \/ Crash
  PROVE  Kept
<1>1. /\ phase # "down" /\ phase' = "down" /\ ProcessGone
      /\ \/ index_file' = index_file
         \/ phase = "dtor_crc" /\ index_file' = [index_file EXCEPT !.kind = "whole"]
  BY DEF SaveChecksum, ExitWithoutIndex, Crash, ProcessGone
<1>2. /\ memory_buffer' = [i \in Slots |-> NoMessage]
      /\ ready' = [i \in Slots |-> FALSE]
      /\ write_pos' = 0 /\ read_pos' = 0
      /\ disk_index' = <<>> /\ disk_read_pos' = 0 /\ current_disk_size' = 0
      /\ writer_open' = FALSE
      /\ next_message_id' = 1 /\ total_enqueued' = 0 /\ total_dequeued' = 0
      /\ session_popped' = {} /\ base' = 0
      /\ forgotten' = forgotten \union RingUids
      /\ UNCHANGED <<data_file, restarts, offered, accepted, popped>>
  BY <1>1 DEF ProcessGone
<1>3. /\ RingGood /\ FileGood /\ CountsTyped /\ DiskTyped /\ DiskInv /\ PhaseReached
  BY <1>1, IInvParts
<1>4. RingGood'
  <2>1. 0 \in Slots /\ memory_size' = 0
    BY <1>2, CapacityAssumption DEF Slots, memory_size, Used
  <2>2. RingTyped'
    BY <1>2, <2>1 DEF RingTyped
  <2>. QED
    BY <2>1, <2>2 DEF RingGood, SlotsReady
<1>5. FileUids' = FileUids /\ FileSize' = FileSize
  BY <1>2 DEF FileUids, FileSize
<1>6. FilesTyped' /\ IndexFileIsPrefix'
  <2>1. CASE index_file' = index_file
    BY <1>2, <1>3, <1>5, <2>1 DEF FileGood, FilesInv, FilesTyped, IndexFileIsPrefix
  <2>2. CASE phase = "dtor_crc" /\ index_file' = [index_file EXCEPT !.kind = "whole"]
    <3>1. /\ FilesTyped' /\ index_file.kind = "partial"
          /\ index_file'.entries = index_file.entries /\ index_file'.total = index_file.total
      BY <1>2, <1>3, <2>2 DEF FileGood, FilesInv, FilesTyped, PhaseReached
    <3>2. IndexFileIsPrefix
      BY <1>3 DEF FileGood, FilesInv
    <3>. QED
      BY <1>2, <1>5, <3>1, <3>2 DEF IndexFileIsPrefix
  <2>. QED
    BY <1>1, <2>1, <2>2
<1>7. FileGood'
  <2>1. FileTiled' /\ FileOrdered'
    BY <1>2, <1>3 DEF FileGood, FilesInv, FileTiled, FileOrdered
  <2>2. \A k \in DOMAIN data_file' : data_file'[k].msg.uid \in 1 .. offered'
    BY <1>2, <1>3 DEF FileGood
  <2>. QED
    BY <1>6, <2>1, <2>2 DEF FileGood, FilesInv
<1>8. DiskTyped' /\ DownIsBlank' /\ PhaseReached' /\ phase' \in Phases
  <2>1. DiskTyped'
    <3>1. <<>> \in Seq(Entry) /\ 0 \in 0 .. Len(<<>>)
      OBVIOUS
    <3>2. disk_index' \in Seq(Entry) /\ disk_read_pos' \in 0 .. Len(disk_index')
      BY <1>2, <3>1
    <3>. QED
      BY <1>2, <3>2 DEF DiskTyped
  <2>2. DownIsBlank' /\ PhaseReached' /\ phase' \in Phases
    BY <1>1, <1>2 DEF DownIsBlank, PhaseReached, Phases
  <2>. QED
    BY <2>1, <2>2
<1>9. CountsTyped'
  <2>1. RingUids \subseteq 1 .. offered
    BY <1>3, HeldUids
  <2>2. forgotten' \subseteq 1 .. offered'
    BY <1>2, <1>3, <2>1 DEF CountsTyped
  <2>. QED
    BY <1>2, <1>3, <2>2 DEF CountsTyped
<1>10. IInv'
  BY <1>1, <1>4, <1>7, <1>8, <1>9, IInvPartsNext
<1>11. NoSilentLoss => NoSilentLoss'
  <2>1. PendingUids \subseteq FileUids
    BY <1>3, PendingInFile
  <2>. QED
    BY <1>1, <1>2, <1>5, <2>1 DEF NoSilentLoss, Live
<1>. QED
  BY <1>10, <1>11 DEF Kept

(* The next start finds every record of the data file, by either path.     *)
LEMMA RestartKeeps ==
  ASSUME IInv, Restart
  PROVE  Kept
<1> DEFINE n == Len(data_file)
<1>1. /\ phase = "down" /\ phase' = "run" /\ restarts < MaxRestarts /\ restarts' = restarts + 1
      /\ base' = Len(disk_index')
      /\ UNCHANGED ring
      /\ UNCHANGED <<disk_read_pos, writer_open, data_file, index_file>>
      /\ UNCHANGED <<next_message_id, total_enqueued, total_dequeued,
                     offered, accepted, popped, session_popped, forgotten>>
  BY DEF Restart, files, counts
<1>2. /\ RingGood /\ FileGood /\ CountsTyped /\ DiskTyped /\ DownIsBlank
  BY <1>1, IInvParts
<1>3. /\ current_disk_size' = FileSize
      /\ disk_index' = IF IndexAccepted THEN index_file.entries ELSE ScannedIndex
  BY DEF Restart, IndexAccepted
<1>4. n \in Nat /\ DOMAIN data_file = 1 .. n /\ FileSize \in Nat /\ FileSize' = FileSize
  BY <1>1, <1>2, FileSizeValue DEF FileGood, FilesInv, FilesTyped, FileSize
<1>5. /\ disk_index' \in Seq(Entry) /\ Len(disk_index') = n /\ DOMAIN disk_index' = 1 .. n
      /\ \A k \in 1 .. n : Describes(disk_index'[k], data_file[k])
  <2>1. CASE IndexAccepted
    <3>1. disk_index' \in Seq(Entry)
      BY <1>2, <1>3, <2>1 DEF FileGood, FilesInv, FilesTyped
    <3>2. /\ Len(disk_index') = n
          /\ \A k \in 1 .. n : Describes(disk_index'[k], data_file[k])
      BY <1>2, <1>3, <1>4, <2>1, AcceptedIndexIsWhole DEF FileGood
    <3>. QED
      BY <3>1, <3>2
  <2>2. CASE ~IndexAccepted
    <3>1. \A k \in 1 .. n :
            [offset |-> data_file[k].off, size |-> data_file[k].msg.size] \in Entry
      <4> SUFFICES ASSUME NEW k \in 1 .. n
                   PROVE  data_file[k].off \in Nat /\ data_file[k].msg.size \in Sizes
        BY DEF Entry
      <4>1. data_file[k] \in Record
        BY <1>2, <1>4 DEF FileGood, FilesInv, FilesTyped
      <4>2. data_file[k].off \in Nat /\ data_file[k].msg \in Message
        BY <4>1 DEF Record
      <4>. QED
        BY <4>2 DEF Message
    <3>2. disk_index' = [k \in 1 .. n |-> [offset |-> data_file[k].off,
                                          size |-> data_file[k].msg.size]]
      BY <1>3, <1>4, <2>2 DEF ScannedIndex
    <3>. QED
      BY <1>4, <3>1, <3>2 DEF Describes
  <2>. QED
    BY <2>1, <2>2
<1>6. disk_read_pos' = 0 /\ write_pos = 0 /\ read_pos = 0
  BY <1>1, <1>2 DEF DownIsBlank
<1>7. Accounted'
  <2>1. CASE n = 0
    <3>1. PendingBytes' = 0 /\ FileSize = 0
      BY <1>2, <1>4, <1>5, <1>6, <2>1 DEF PendingBytes, DiskPending, FileSize, FileGood,
         FilesInv, FilesTyped
    <3>. QED
      BY <1>3, <1>4, <3>1 DEF Accounted
  <2>2. CASE n > 0
    <3>1. DiskPending' /\ HeadRecord' = data_file[1]
      BY <1>1, <1>4, <1>5, <1>6, <2>2 DEF DiskPending, HeadRecord
    <3>2. data_file[1].off = 0
      BY <1>2, <1>4, <2>2 DEF FileGood, FilesInv, FileTiled
    <3>3. PendingBytes' = FileSize
      BY <1>4, <3>1, <3>2 DEF PendingBytes
    <3>. QED
      BY <1>3, <1>4, <3>3 DEF Accounted
  <2>. QED
    BY <1>4, <2>1, <2>2
<1>8. DiskTyped' /\ IndexTiles' /\ DiskInv'
  <2>1. IndexTiles'
    BY <1>1, <1>5 DEF IndexTiles, Describes
  <2>. QED
    BY <1>1, <1>2, <1>3, <1>4, <1>5, <1>6, <1>7, <2>1 DEF DiskTyped, DiskInv
<1>9. offered \in Nat /\ offered' \in Nat /\ offered <= offered'
  BY <1>1, <1>2 DEF CountsTyped
<1>10. RingGood' /\ FileGood' /\ FileUids' = FileUids
  BY <1>1, <1>2, <1>9, RingKept, FilesKept
<1>11. CountsTyped'
  <2>1. restarts' \in 0 .. MaxRestarts /\ base' \in Int
    BY <1>1, <1>2, <1>4, <1>5, BoundsAssumption DEF CountsTyped
  <2>. QED
    BY <1>1, <1>2, <2>1 DEF CountsTyped
<1>12. PhaseReached' /\ DownIsBlank' /\ phase' \in Phases
  BY <1>1 DEF PhaseReached, DownIsBlank, Phases
<1>13. IInv'
  BY <1>8, <1>10, <1>11, <1>12, IInvPartsNext
<1>14. PendingUids' = FileUids
  BY <1>1, <1>4, <1>5, <1>6 DEF PendingUids, FileUids
<1>15. NoSilentLoss => NoSilentLoss'
  BY <1>1, <1>14 DEF NoSilentLoss, Live
<1>. QED
  BY <1>13, <1>15 DEF Kept

-----------------------------------------------------------------------------
(* The invariant holds in every state of every behaviour.                  *)

(* The queue starts within the invariant. *)
LEMMA InitIInv == Init => IInv /\ NoSilentLoss
<1> SUFFICES ASSUME Init
             PROVE  IInv /\ NoSilentLoss
  OBVIOUS
<1> USE DEF Init
<1>1. 0 \in Slots /\ memory_size = 0
  BY CapacityAssumption DEF Slots, memory_size, Used
<1>2. RingGood
  <2>1. RingTyped
    BY <1>1 DEF RingTyped
  <2>. QED
    BY <1>1, <2>1 DEF RingGood, SlotsReady
<1>3. FileSize = 0 /\ PendingBytes = 0
  BY DEF FileSize, PendingBytes, DiskPending
<1>4. FileGood
  <2>1. data_file \in Seq(Record) /\ DOMAIN data_file = {}
    OBVIOUS
  <2>2. index_file \in [kind : {"none", "partial", "whole"}, entries : Seq(Entry), total : Nat]
    <3>1. <<>> \in Seq(Entry)
      OBVIOUS
    <3>. QED
      BY <3>1 DEF NoIndex
  <2>3. FilesTyped /\ FileTiled /\ FileOrdered
    BY <2>1, <2>2 DEF FilesTyped, FileTiled, FileOrdered
  <2>4. IndexFileIsPrefix
    BY DEF IndexFileIsPrefix, NoIndex
  <2>. QED
    BY <2>1, <2>3, <2>4 DEF FileGood, FilesInv
<1>5. DiskTyped /\ DiskInv
  <2>1. disk_index \in Seq(Entry) /\ disk_read_pos \in 0 .. Len(disk_index)
    <3>1. <<>> \in Seq(Entry) /\ 0 \in 0 .. Len(<<>>)
      OBVIOUS
    <3>. QED
      BY <3>1
  <2>2. DiskTyped
    BY <2>1 DEF DiskTyped
  <2>3. IndexTiles /\ Accounted
    BY <1>3 DEF IndexTiles, Accounted
  <2>. QED
    BY <2>2, <2>3 DEF DiskInv
<1>6. CountsTyped
  BY BoundsAssumption DEF CountsTyped
<1>7. phase \in Phases /\ PhaseReached /\ DownIsBlank
  BY DEF Phases, PhaseReached, DownIsBlank
<1>8. IInv
  BY <1>2, <1>4, <1>5, <1>6, <1>7, IInvParts
<1>. QED
  BY <1>8 DEF NoSilentLoss

(* Every step keeps the invariant and loses no accepted message. *)
LEMMA StepKeeps ==
  ASSUME ClientUse, IInv, [Next]_vars
  PROVE  Kept
<1>1. ASSUME NEW s \in Sizes, EnqueueMemory(s) \/ EnqueueDisk(s)
      PROVE  Kept
  BY <1>1, EnqueueKeeps
<1>2. CASE EnqueueRefused
  BY <1>2, RefusalKeeps
<1>3. CASE PopMemory
  BY <1>3, PopMemoryKeeps
<1>4. CASE PopDisk \/ DequeueDisk
  BY <1>4, RemoveFromDiskKeeps
<1>5. CASE LoadStep
  BY <1>5, LoadStepKeeps
<1>6. CASE FlushStep
  BY <1>6, FlushStepKeeps
<1>7. CASE Clear \/ ClearIndexFile
  BY <1>7, IInvParts DEF Clear, ClearIndexFile, ClientUse, PhaseReached
<1>8. CASE \/ LoadFromDisk \/ LoadReturn \/ FlushToDisk \/ FlushReturn \/ Shutdown
           \/ UNCHANGED vars
  BY <1>8, PhaseStepKeeps
<1>9. CASE SaveIndex
  BY <1>9, SaveIndexKeeps
<1>10. CASE SaveChecksum \/ ExitWithoutIndex \/ Crash
  BY <1>10, ProcessGoneKeeps
<1>11. CASE Restart
  BY <1>11, RestartKeeps
<1>. QED
  BY <1>1, <1>2, <1>3, <1>4, <1>5, <1>6, <1>7, <1>8, <1>9, <1>10, <1>11
     DEF Next, Operation, Lifecycle

(* The inductive invariant, whatever the ring's capacity, the disk limit,  *)
(* the record sizes and the C library's tellp(), and wherever a crash      *)
(* falls, for an owner that calls any operation but clear().               *)
THEOREM Invariance ==
  ASSUME ClientUse
  PROVE  Spec => [](IInv /\ NoSilentLoss)
<1>1. Init => IInv /\ NoSilentLoss
  BY InitIInv
<1>2. IInv /\ NoSilentLoss /\ [Next]_vars => IInv' /\ NoSilentLoss'
  BY StepKeeps DEF Kept
<1>. QED
  BY <1>1, <1>2, PTL DEF Spec

(* Type correctness: positions stay inside the ring and the index, and the *)
(* unsigned current_disk_size_ never goes below zero.                      *)
THEOREM TypeCorrect ==
  ASSUME ClientUse
  PROVE  Spec => []TypeOK
<1>1. IInv => TypeOK
  BY DEF IInv
<1>. QED
  BY <1>1, Invariance, PTL

(* A call that has the queue to itself never spins on a ready flag: the    *)
(* slot it waits for is ready.                                             *)
THEOREM FrontIsReady ==
  ASSUME ClientUse
  PROVE  Spec => []SlotsReady
<1>1. IInv => SlotsReady
  BY DEF IInv
<1>. QED
  BY <1>1, Invariance, PTL

(* disk_index_ and the data file stay aligned through appends, restarts,   *)
(* crashes and reloaded index files: with a library whose append streams   *)
(* say 0 at first (MSVC's), the entry made of that says 0 and every other  *)
(* designates its record; with one that tells the end, all do.             *)
THEOREM IndexStaysAligned ==
  ASSUME ClientUse
  PROVE  Spec => []IndexTilesFile
<1>1. IInv => IndexTilesFile
  BY DEF IInv
<1>. QED
  BY <1>1, Invariance, PTL

(* current_disk_size_ is the bytes still pending, or too large when        *)
(* load_from_disk() is used, never too small.                              *)
THEOREM DiskSizeCorrect ==
  ASSUME ClientUse
  PROVE  Spec => []DiskAccounting
<1>1. IInv => DiskAccounting
  BY DEF IInv
<1>. QED
  BY <1>1, Invariance, PTL

(* The size comparison of load_disk_index() is enough to tell a current    *)
(* index file from a stale one: what it accepts has an entry for every     *)
(* record, each right but for an offset that tellp() misreported.          *)
THEOREM FastPathCorrect ==
  ASSUME ClientUse
  PROVE  Spec => []FastPathAgrees
<1>1. IInv => FastPathAgrees
  BY IInvParts, AcceptedIndexIsWhole DEF FileGood, FastPathAgrees
<1>. QED
  BY <1>1, Invariance, PTL

(* An accepted message is removed by the consumer, still has its place, or *)
(* was in the memory ring when the process ended.                          *)
THEOREM NothingLostSilently ==
  ASSUME ClientUse
  PROVE  Spec => []NoSilentLoss
BY Invariance, PTL

=============================================================================
