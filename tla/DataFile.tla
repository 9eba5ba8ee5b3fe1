------------------------------ MODULE DataFile ------------------------------
(***************************************************************************)
(* messages.dat as PersistentMessageQueue writes and reads it, below the   *)
(* level of whole records: a crash may cut an append anywhere, a volume    *)
(* may take only the beginning of one, and no stream is asked whether it   *)
(* succeeded.  The operations on disk run one at a time under disk_mutex_; *)
(* the memory ring is PersistentMessageQueue's subject and left out here.  *)
(*                                                                         *)
(* The file is a sequence of cells: a record is one cell for id, timestamp *)
(* and priority, one for data_size, and the data.  A message's id is its   *)
(* number over all runs, to tell messages apart.                           *)
(***************************************************************************)
EXTENDS Integers, Sequences, FiniteSets, SequencesExt

CONSTANTS
  DataSizes,    \* cells of data a message may have
  MaxDiskSize,
  SizeRange,    \* values of current_disk_size_, 2^64 in the code
  TellsEnd,     \* what the C++ library may do: TRUE if the position of a stream
                \* opened for appending is the end of the file from the start,
                \* FALSE if it is 0 until the first write
  MaxMessages,  \* bound: messages appended
  MaxStarts     \* bound: runs of the process

ASSUME SizesAssumption == DataSizes \subseteq Nat \ {0}
ASSUME LibraryAssumption == TellsEnd \subseteq BOOLEAN
ASSUME RangeAssumption == MaxDiskSize \in Nat /\ SizeRange \in Nat \ {0}
ASSUME BoundsAssumption == MaxMessages \in Nat /\ MaxStarts \in Nat

VARIABLES
  data_file,
  index_file,         \* messages.idx, as the last exit that wrote it left it
  disk_index,
  disk_read_pos,
  current_disk_size,
  writer,             \* data_writer_: "closed", "good" or "failed"
  reader_failed,      \* the fail bit of data_reader_
  alive,
  append_tells_end,   \* the library; never changes
  records,            \* ghost: every message write_to_disk() was given, in order
  appended,           \* ghost: which of them the entries after the found ones are
  found,              \* ghost: entries the constructor found
  delivered,          \* ghost: what this run took from each entry it consumed
  starts              \* ghost: runs

files   == <<data_file, index_file>>
index   == <<disk_index, disk_read_pos, current_disk_size>>
streams == <<writer, reader_failed>>
process == <<alive, append_tells_end, found, starts>>
vars    == <<files, index, streams, process, records, appended, delivered>>

HeaderSize == 2
NoPos      == -1     \* tellp() of a stream that failed
NoMessage  == [id |-> 0, data |-> <<>>]
NoIndex    == [total |-> -1, entries |-> <<>>]
-----------------------------------------------------------------------------
(* serialize_message() and deserialize_message(). *)
Serialize(m) == <<m.id, Len(m.data)>> \o m.data

Deserialize(b) ==
  IF Len(b) < HeaderSize \/ HeaderSize + b[2] # Len(b) THEN NoMessage
  ELSE [id |-> b[1], data |-> SubSeq(b, HeaderSize + 1, Len(b))]

(* seekg(), a buffer of zeros, read() without a look at gcount().          *)
ReadAt(e) ==
  [j \in 1 .. e.size |->
     IF e.offset # NoPos /\ e.offset + j <= Len(data_file) THEN data_file[e.offset + j] ELSE 0]

Zeros(e) == [j \in 1 .. e.size |-> 0]

ComesShort(e) == e.offset = NoPos \/ e.offset + e.size > Len(data_file)

(* rebuild_disk_index_from_data(): hop from length to length, while there  *)
(* is a whole one to read.                                                 *)
(* Mutant: hop by the length of the data. *)
ScannedIndex_DataOnly(f) ==
  LET from[o \in Nat] ==
        IF o + HeaderSize > Len(f) THEN <<>>
        ELSE <<[offset |-> o, size |-> HeaderSize + f[o + HeaderSize]]>>
               \o from[o + 1 + f[o + HeaderSize]]
  IN from[0]

ScannedIndex(f) ==
  LET from[o \in Nat] ==
        IF o + HeaderSize > Len(f) THEN <<>>
        ELSE <<[offset |-> o, size |-> HeaderSize + f[o + HeaderSize]]>>
               \o from[o + HeaderSize + f[o + HeaderSize]]
  IN from[0]

EndOfScan(entries) ==
  IF entries = <<>> THEN 0 ELSE Last(entries).offset + Last(entries).size
-----------------------------------------------------------------------------
(* write_to_disk(). *)
Message(n) == LET id == Len(records) + 1 IN [id |-> id, data |-> [j \in 1 .. n |-> id]]

HasRoom == alive /\ current_disk_size < MaxDiskSize /\ Len(records) < MaxMessages

(* Mutant: the counter, which is smaller than the file once something was consumed. *)
TellP_Counter == current_disk_size

TellP ==
  IF writer = "failed" THEN NoPos
  ELSE IF writer = "closed" /\ ~append_tells_end THEN 0
  ELSE Len(data_file)

(* The first k cells of m reach the file. *)
Reaches(m, k) ==
  /\ data_file' = data_file \o SubSeq(Serialize(m), 1, k)
  /\ records' = Append(records,
       [msg |-> m, at |-> Len(data_file), cells |-> k,
        told |-> append_tells_end \/ writer # "closed" \/ data_file = <<>>])

(* The entry and the counter, whatever became of the write. *)
AddEntry(m) ==
  LET size == Len(Serialize(m)) IN
  /\ disk_index' = Append(disk_index, [offset |-> TellP, size |-> size])
  /\ current_disk_size' = (current_disk_size + size) % SizeRange
  /\ appended' = Append(appended, Len(records) + 1)

(* The stream writes the record; or only the beginning of it, and fails,   *)
(* what it still held being lost; or has failed before and writes nothing. *)
WriteToDisk(n) ==
  LET m == Message(n) IN
  /\ HasRoom
  /\ \E k \in 0 .. HeaderSize + n :
       /\ writer = "failed" => k = 0
       /\ Reaches(m, k)
       /\ writer' = IF k = HeaderSize + n THEN "good" ELSE "failed"
  /\ AddEntry(m)
  /\ UNCHANGED <<index_file, disk_read_pos, reader_failed, process, delivered>>
-----------------------------------------------------------------------------
(* The three ways a record is consumed.                                    *)
Pending == alive /\ disk_read_pos < Len(disk_index)
HeadEntry == disk_index[disk_read_pos + 1]

Consume(m) ==
  /\ disk_read_pos' = disk_read_pos + 1
  /\ delivered' = Append(delivered, m)

(* What peek() returns, which opens a stream of its own. *)
ReadHead == Deserialize(ReadAt(HeadEntry))

(* The client: peek(), send, pop_front(). *)
SendHead ==
  /\ Pending /\ ReadHead # NoMessage
  /\ Consume(ReadHead)
  /\ current_disk_size' = (current_disk_size - HeadEntry.size) % SizeRange
  /\ UNCHANGED <<files, disk_index, streams, process, records, appended>>

(* What data_reader_ gives: a stream that failed once seeks and reads no more. *)
ReaderReads == Deserialize(IF reader_failed THEN Zeros(HeadEntry) ELSE ReadAt(HeadEntry))

(* read_from_disk(), of dequeue(). *)
ReadFromDisk ==
  /\ Pending
  /\ reader_failed' = (reader_failed \/ ComesShort(HeadEntry))
  /\ IF ReaderReads = NoMessage
     THEN UNCHANGED <<disk_read_pos, current_disk_size, delivered>>
     ELSE Consume(ReaderReads) /\ current_disk_size' = (current_disk_size - HeadEntry.size) % SizeRange
  /\ UNCHANGED <<files, disk_index, writer, process, records, appended>>

(* Mutant: a record that cannot be read is stepped over twice. *)
LoadStep_NoContinue ==
  /\ Pending
  /\ reader_failed' = (reader_failed \/ ComesShort(HeadEntry))
  /\ disk_read_pos' = disk_read_pos + (IF ReaderReads = NoMessage THEN 2 ELSE 1)
  /\ delivered' = Append(delivered, ReaderReads)
  /\ UNCHANGED <<files, disk_index, current_disk_size, writer, process, records, appended>>

(* One turn of load_from_disk(): a record that cannot be read is skipped,  *)
(* and the counter keeps its bytes in any case.                            *)
LoadStep ==
  /\ Pending
  /\ reader_failed' = (reader_failed \/ ComesShort(HeadEntry))
  /\ Consume(ReaderReads)
  /\ UNCHANGED <<files, disk_index, current_disk_size, writer, process, records, appended>>
-----------------------------------------------------------------------------
Blank ==
  /\ alive' = FALSE
  /\ disk_index' = <<>> /\ disk_read_pos' = 0 /\ current_disk_size' = 0
  /\ writer' = "closed" /\ reader_failed' = FALSE
  /\ found' = 0 /\ appended' = <<>> /\ delivered' = <<>>
  /\ UNCHANGED <<append_tells_end, starts>>

(* The process dies, in the middle of an append or between operations. *)
CrashInAppend(n) ==
  /\ HasRoom /\ writer # "failed"
  /\ \E k \in 0 .. HeaderSize + n : Reaches(Message(n), k)
  /\ Blank
  /\ UNCHANGED index_file

Crash ==
  /\ alive
  /\ Blank
  /\ UNCHANGED <<files, records>>

(* The destructor: the index file if anything is pending. *)
Shutdown ==
  /\ alive
  /\ index_file' = IF Pending THEN [total |-> current_disk_size, entries |-> disk_index]
                   ELSE index_file
  /\ Blank
  /\ UNCHANGED <<data_file, records>>

(* The constructor: the index file if its total is the size of the data    *)
(* file, and the scan otherwise.                                           *)
(* Mutant: the sizes are not compared. *)
IndexAccepted_AnySize == index_file # NoIndex

IndexAccepted == index_file # NoIndex /\ index_file.total = Len(data_file)

FoundIndex == IF IndexAccepted THEN index_file.entries ELSE ScannedIndex(data_file)

Start ==
  /\ ~alive /\ starts < MaxStarts
  /\ alive' = TRUE /\ starts' = starts + 1
  /\ disk_index' = FoundIndex /\ found' = Len(FoundIndex)
  /\ current_disk_size' =
       (IF IndexAccepted THEN index_file.total ELSE EndOfScan(FoundIndex)) % SizeRange
  /\ UNCHANGED <<files, disk_read_pos, streams, append_tells_end, records, appended, delivered>>

Init ==
  /\ data_file = <<>> /\ index_file = NoIndex
  /\ disk_index = <<>> /\ disk_read_pos = 0 /\ current_disk_size = 0
  /\ writer = "closed" /\ reader_failed = FALSE
  /\ alive = FALSE /\ append_tells_end \in TellsEnd
  /\ records = <<>> /\ appended = <<>> /\ found = 0 /\ delivered = <<>> /\ starts = 0

Next ==
  \/ \E n \in DataSizes : WriteToDisk(n) \/ CrashInAppend(n)
  \/ SendHead \/ ReadFromDisk \/ LoadStep
  \/ Crash \/ Shutdown \/ Start

Spec == Init /\ [][Next]_vars
-----------------------------------------------------------------------------
Entry == [offset : {NoPos} \union Nat, size : Nat \ {0}]

(* Types; the read position stays inside the index, which holds the found  *)
(* entries and then those appended.                                        *)
TypeOK ==
  /\ data_file \in Seq(Nat)
  /\ index_file \in [total : {-1} \union Nat, entries : Seq(Entry)]
  /\ disk_index \in Seq(Entry) /\ disk_read_pos \in 0 .. Len(disk_index)
  /\ current_disk_size \in 0 .. SizeRange - 1
  /\ writer \in {"closed", "good", "failed"}
  /\ reader_failed \in BOOLEAN /\ alive \in BOOLEAN /\ append_tells_end \in TellsEnd
  /\ found \in Nat /\ appended \in Seq(Nat)
  /\ delivered \in Seq([id : Nat, data : Seq(Nat)])
  /\ Len(disk_index) = found + Len(appended) /\ Len(delivered) = disk_read_pos
  /\ Len(records) <= MaxMessages /\ starts \in 0 .. MaxStarts

Whole(r) == r.cells = Len(Serialize(r.msg))

(* Records with nothing torn or missing before them. *)
Intact(rs, i) == \A j \in 1 .. i : Whole(rs[j])

(* Of the first k messages, those of which anything reached the file. *)
OnFile(k) == {j \in 1 .. k : records[j].cells > 0}

(* Whatever crashes and failed writes left in the file, a scan finds every *)
(* record in front of the first torn one, where it is, and reads it back.  *)
(* Nothing is promised behind: a torn record is indexed with the length    *)
(* its header says, and what was appended after it is read as its data.    *)
ScanFindsIntact ==
  LET scan == ScannedIndex(data_file) IN
  \A k \in DOMAIN records :
    LET i == Cardinality(OnFile(k)) IN
    k \in OnFile(k) /\ (\A j \in OnFile(k) : Whole(records[j])) =>
      /\ i <= Len(scan)
      /\ scan[i].offset = records[k].at
      /\ Deserialize(ReadAt(scan[i])) = records[k].msg

(* The run that appended a record finds it again, behind torn records as   *)
(* well, unless the library told it the position 0 when it opened a file   *)
(* that was not empty.                                                     *)
AppendedReadsBack ==
  \A i \in DOMAIN appended :
    LET r == records[appended[i]] IN
    Whole(r) /\ r.told => Deserialize(ReadAt(disk_index[found + i])) = r.msg

(* Every run gets the records in front of the first damage out of the      *)
(* file as they went in, by index file or scan and through each of the     *)
(* three ways of reading, although an index file may be stale, sizes and   *)
(* counter run ahead of the file, and data_reader_ stay failed: all that   *)
(* reaches only what comes after the damage.                               *)
IntactDelivered ==
  \A i \in DOMAIN delivered :
    i <= Len(records) /\ Intact(records, i) /\ (\A j \in 1 .. i : records[j].told)
      => delivered[i] = records[i].msg
=============================================================================
