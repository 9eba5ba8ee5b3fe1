---------------------------- MODULE DataFile_proofs ----------------------------
(***************************************************************************)
(* Proofs about DataFile, for all sizes, libraries and numbers of messages *)
(* and runs: what lies in front of the first damage is found by a scan and *)
(* read back, and every run gets it as it went in.                         *)
(***************************************************************************)
EXTENDS DataFile, SharedLemmas, FiniteSetTheorems, TLAPS

Messages == [id : Nat, data : Seq(Nat)]
Size(m)  == HeaderSize + Len(m.data)

(* Where the record of the k-th message ends. *)
EndAt(rs, k) == IF k = 0 THEN 0 ELSE rs[k].at + rs[k].cells

Records == [msg : Messages, at : Nat, cells : Nat, told : BOOLEAN]

RecordsTyped ==
  /\ records \in Seq(Records)
  /\ data_file \in Seq(Nat)

(* The file is the records one behind the other, as far as they went. *)
Layout ==
  /\ \A k \in 1 .. Len(records) :
       /\ records[k].msg.id = k /\ Len(records[k].msg.data) > 0
       /\ records[k].at = EndAt(records, k - 1)
       /\ records[k].cells <= Size(records[k].msg)
       /\ EndAt(records, k) <= Len(data_file)
       /\ \A i \in 1 .. records[k].cells :
            data_file[records[k].at + i] = Serialize(records[k].msg)[i]
  /\ EndAt(records, Len(records)) = Len(data_file)

DownIsBlank ==
  ~alive => /\ disk_index = <<>> /\ disk_read_pos = 0 /\ current_disk_size = 0
            /\ writer = "closed" /\ reader_failed = FALSE
            /\ found = 0 /\ appended = <<>> /\ delivered = <<>>

(* An entry that leads to a record. *)
Leads(e, r) == e.size = Size(r.msg) /\ (r.told => e.offset = r.at)

Sound == Intact(records, Len(records))

(* The counter is the file but for what was consumed. *)
Counted ==
  \E c \in 0 .. EndAt(records, disk_read_pos) : current_disk_size = (Len(data_file) - c) % SizeRange

IndexRight ==
  alive =>
    /\ \A i \in 1 .. Len(records) :
         Intact(records, i) => i <= Len(disk_index) /\ Leads(disk_index[i], records[i])
    /\ Sound => Len(disk_index) = Len(records) /\ Counted

IndexFileRight ==
  index_file # NoIndex =>
    /\ \A i \in 1 .. Len(records) :
         Intact(records, i) => IF i <= Len(index_file.entries) THEN Leads(index_file.entries[i], records[i])
                               ELSE index_file.total < EndAt(records, i)
    /\ Sound => Len(index_file.entries) <= Len(records) /\ index_file.total <= Len(data_file)

AppendedRight ==
  \A i \in 1 .. Len(appended) :
    /\ appended[i] \in 1 .. Len(records)
    /\ LET r == records[appended[i]] IN
         /\ disk_index[found + i].size = Size(r.msg)
         /\ Whole(r) /\ r.told => disk_index[found + i].offset = r.at

ReaderRight ==
  reader_failed =>
    \E j \in 1 .. Len(records) : j <= disk_read_pos + 1 /\ ~(Whole(records[j]) /\ records[j].told)

DeliveredRight ==
  \A i \in 1 .. disk_read_pos :
    i <= Len(records) /\ Intact(records, i) /\ (\A j \in 1 .. i : records[j].told)
      => delivered[i] = records[i].msg

FileInv  == RecordsTyped /\ Layout
IndexInv == IndexRight /\ IndexFileRight
ReadInv  == AppendedRight /\ ReaderRight /\ DeliveredRight
IInv     == TypeOK /\ FileInv /\ DownIsBlank /\ IndexInv /\ ReadInv
-----------------------------------------------------------------------------
(* A record as it is written and read.                                     *)

LEMMA Serialized ==
  ASSUME NEW m \in Messages
  PROVE  /\ Serialize(m) \in Seq(Nat) /\ Len(Serialize(m)) = Size(m) /\ Size(m) \in Nat
         /\ Size(m) = 2 + Len(m.data) /\ Len(m.data) \in Nat
         /\ Serialize(m)[1] = m.id /\ Serialize(m)[2] = Len(m.data)
         /\ \A j \in 1 .. Len(m.data) : Serialize(m)[2 + j] = m.data[j]
<1>. DEFINE h == <<m.id, Len(m.data)>>
            d == m.data
<1>1. m.id \in Nat /\ d \in Seq(Nat) /\ Len(d) \in Nat
  BY DEF Messages
<1>2. h \in Seq(Nat) /\ Len(h) = 2 /\ h[1] = m.id /\ h[2] = Len(d)
  BY <1>1
<1>. HIDE DEF h, d
<1>0. h \in Seq(Nat) /\ d \in Seq(Nat)
  BY <1>1, <1>2
<1>3. /\ h \o d \in Seq(Nat) /\ Len(h \o d) = Len(h) + Len(d)
      /\ \A i \in 1 .. Len(h) : (h \o d)[i] = h[i]
      /\ \A i \in 1 .. Len(d) : (h \o d)[Len(h) + i] = d[i]
  BY <1>0, Joined
<1>4. Serialize(m) = h \o d
  BY DEF Serialize, h, d
<1>5. Size(m) = 2 + Len(d)
  BY DEF Size, HeaderSize, d
<1>. QED
  BY <1>1, <1>2, <1>3, <1>4, <1>5 DEF d

(* What is read is a message in any case. *)
LEMMA ReadTyped ==
  ASSUME RecordsTyped, NEW e \in Entry
  PROVE  /\ ReadAt(e) \in Seq(Nat) /\ Len(ReadAt(e)) = e.size
         /\ Zeros(e) \in Seq(Nat) /\ Len(Zeros(e)) = e.size
         /\ Deserialize(ReadAt(e)) \in Messages /\ Deserialize(Zeros(e)) \in Messages
<1>1. e.size \in Nat /\ data_file \in Seq(Nat) /\ e.offset \in Int
  BY DEF Entry, NoPos, RecordsTyped
<1>2. ReadAt(e) \in Seq(Nat) /\ Len(ReadAt(e)) = e.size
  <2>1. ASSUME NEW j \in 1 .. e.size, e.offset # NoPos, e.offset + j <= Len(data_file)
        PROVE  data_file[e.offset + j] \in Nat
    BY <1>1, <2>1 DEF Entry, NoPos
  <2>2. ReadAt(e) \in [1 .. e.size -> Nat]
    BY <2>1 DEF ReadAt
  <2>. QED
    BY <1>1, <2>2
<1>3. Zeros(e) \in Seq(Nat) /\ Len(Zeros(e)) = e.size
  BY <1>1 DEF Zeros
<1>4. ASSUME NEW b \in Seq(Nat)
      PROVE  Deserialize(b) \in Messages
  <2>1. NoMessage \in Messages
    BY DEF NoMessage, Messages
  <2>2. CASE Len(b) >= 2
    <3>1. b[1] \in Nat /\ Len(b) \in Nat
      BY <2>2
    <3>2. SubSeq(b, 3, Len(b)) \in Seq(Nat)
      BY <2>2, <3>1
    <3>3. [id |-> b[1], data |-> SubSeq(b, HeaderSize + 1, Len(b))] \in Messages
      BY <3>1, <3>2 DEF Messages, HeaderSize
    <3>. QED
      BY <2>1, <3>3 DEF Deserialize
  <2>3. CASE Len(b) < 2
    BY <2>1, <2>3 DEF Deserialize, HeaderSize
  <2>. QED
    BY <2>2, <2>3
<1>. QED
  BY <1>2, <1>3, <1>4

(* data_reader_ after a failure: nothing but zeros is no message. *)
LEMMA ZerosAreNoMessage ==
  ASSUME NEW e, e.size \in Nat, e.size > HeaderSize
  PROVE  Deserialize(Zeros(e)) = NoMessage
<1>1. Len(Zeros(e)) = e.size /\ Zeros(e)[2] = 0
  BY DEF Zeros, HeaderSize
<1>. QED
  BY <1>1 DEF Deserialize, HeaderSize

(* A whole record is read back by an entry that leads to it. *)
LEMMA ReadBack ==
  ASSUME FileInv, NEW k \in 1 .. Len(records), Whole(records[k]),
         NEW e, e.offset = records[k].at, e.size = Size(records[k].msg)
  PROVE  /\ Deserialize(ReadAt(e)) = records[k].msg
         /\ records[k].msg # NoMessage /\ ~ComesShort(e)
<1>. DEFINE r == records[k]
            m == records[k].msg
            b == ReadAt(e)
            n == Size(m)
            o == records[k].at
<1>1. m \in Messages /\ o \in Nat /\ r.cells \in Nat /\ data_file \in Seq(Nat)
  <2>1. records \in Seq(Records)
    BY DEF FileInv, RecordsTyped
  <2>2. r \in Records
    BY <2>1
  <2>. HIDE DEF r
  <2>3. r.msg \in Messages /\ r.at \in Nat /\ r.cells \in Nat
    BY <2>2 DEF Records
  <2>. QED
    BY <2>3 DEF r, FileInv, RecordsTyped
<1>2. /\ Serialize(m) \in Seq(Nat) /\ Len(Serialize(m)) = n /\ n \in Nat
      /\ n = 2 + Len(m.data) /\ Len(m.data) \in Nat
      /\ Serialize(m)[1] = m.id /\ Serialize(m)[2] = Len(m.data)
      /\ \A j \in 1 .. Len(m.data) : Serialize(m)[2 + j] = m.data[j]
  BY <1>1, Serialized
<1>3. m.id = k /\ Len(m.data) > 0 /\ r.cells = n
  BY <1>2 DEF FileInv, Layout, Whole
<1>4. o + n <= Len(data_file) /\ \A i \in 1 .. n : data_file[o + i] = Serialize(m)[i]
  <2>1. EndAt(records, k) = o + r.cells /\ EndAt(records, k) <= Len(data_file)
    BY DEF FileInv, Layout, EndAt
  <2>2. \A i \in 1 .. r.cells : data_file[o + i] = Serialize(m)[i]
    BY DEF FileInv, Layout
  <2>. QED
    BY <1>3, <2>1, <2>2
<1>. HIDE DEF n, m, r, o
<1>5. e.offset = o /\ e.size = n
  BY DEF n, m, o
<1>6. b = [j \in 1 .. n |-> Serialize(m)[j]]
  <2>1. b = [j \in 1 .. n |-> IF o # NoPos /\ o + j <= Len(data_file)
                              THEN data_file[o + j] ELSE 0]
    BY <1>5 DEF ReadAt
  <2>2. ASSUME NEW j \in 1 .. n
        PROVE  o # NoPos /\ o + j <= Len(data_file)
    <3>1. Len(data_file) \in Nat /\ j \in Nat /\ j <= n /\ n \in Nat /\ o \in Nat
      BY <1>1, <1>2
    <3>2. o + n <= Len(data_file)
      BY <1>4
    <3>. QED
      BY <3>1, <3>2 DEF NoPos
  <2>. HIDE DEF b
  <2>. QED
    BY <1>4, <2>1, <2>2
<1>. HIDE DEF b
<1>7. b \in Seq(Nat) /\ Len(b) = n /\ \A j \in 1 .. n : b[j] = Serialize(m)[j]
  BY <1>2, <1>6
<1>8. b[1] = m.id /\ b[2] = Len(m.data) /\ \A j \in 1 .. Len(m.data) : b[2 + j] = m.data[j]
  BY <1>2, <1>7
<1>9. SubSeq(b, 3, n) = m.data
  <2>. DEFINE c == SubSeq(b, 3, n)
  <2>1. /\ c \in Seq(Nat) /\ Len(c) = (n - 3) + 1
        /\ \A i \in 1 .. (n - 3) + 1 : c[i] = b[(3 - 1) + i]
    <3>1. 3 \in 1 .. Len(b) + 1 /\ n \in 3 - 1 .. Len(b)
      BY <1>2, <1>3, <1>7
    <3>. QED
      BY <1>7, <3>1, Cut
  <2>2. (n - 3) + 1 = Len(m.data) /\ 3 - 1 = 2 /\ m.data \in Seq(Nat)
    BY <1>1, <1>2 DEF Messages
  <2>. HIDE DEF c
  <2>3. \A i \in 1 .. Len(c) : c[i] = m.data[i]
    BY <1>8, <2>1, <2>2
  <2>4. c = m.data
    BY <2>1, <2>2, <2>3, SameSequence
  <2>. QED
    BY <2>4 DEF c
<1>10. Deserialize(b) = [id |-> m.id, data |-> m.data]
  <2>1. /\ ~(Len(b) < HeaderSize \/ HeaderSize + b[2] # Len(b))
        /\ HeaderSize + 1 = 3
    BY <1>2, <1>7, <1>8 DEF HeaderSize
  <2>2. Deserialize(b) = [id |-> b[1], data |-> SubSeq(b, 3, Len(b))]
    BY <2>1 DEF Deserialize
  <2>. QED
    BY <1>7, <1>8, <1>9, <2>2
<1>11. m = [id |-> m.id, data |-> m.data]
  BY <1>1 DEF Messages
<1>12. m # NoMessage
  BY <1>3 DEF NoMessage
<1>13. ~ComesShort(e)
  <2>1. o # NoPos /\ ~(o + n > Len(data_file))
    BY <1>1, <1>2, <1>4 DEF NoPos
  <2>. QED
    BY <1>5, <2>1 DEF ComesShort
<1>. QED
  BY <1>10, <1>11, <1>12, <1>13 DEF b, m
-----------------------------------------------------------------------------
(* The file grows by what reaches it of a record.                          *)

LEMMA FileStays ==
  ASSUME FileInv, UNCHANGED <<data_file, records>>
  PROVE  FileInv'
BY DEF FileInv, RecordsTyped, Layout, EndAt

LEMMA EndTyped ==
  ASSUME FileInv
  PROVE  /\ Len(records) \in Nat /\ Len(data_file) \in Nat /\ data_file \in Seq(Nat)
         /\ \A k \in 1 .. Len(records) :
              /\ records[k] \in Records /\ records[k].msg \in Messages
              /\ records[k].at \in Nat /\ records[k].cells \in Nat
              /\ Size(records[k].msg) \in Nat /\ Size(records[k].msg) > HeaderSize
         /\ \A k \in 0 .. Len(records) : EndAt(records, k) \in Nat /\ EndAt(records, k) <= Len(data_file)
<1>1. records \in Seq(Records) /\ data_file \in Seq(Nat)
  BY DEF FileInv, RecordsTyped
<1>2. Len(records) \in Nat /\ Len(data_file) \in Nat
  BY <1>1
<1>3. ASSUME NEW k \in 1 .. Len(records)
      PROVE  /\ records[k] \in Records /\ records[k].msg \in Messages
             /\ records[k].at \in Nat /\ records[k].cells \in Nat
             /\ Size(records[k].msg) \in Nat /\ Size(records[k].msg) > HeaderSize
  <2>. DEFINE r == records[k]
              l == Len(records[k].msg.data)
  <2>1. r \in Records
    BY <1>1
  <2>2. r.msg \in Messages /\ r.at \in Nat /\ r.cells \in Nat
    <3>. HIDE DEF r
    <3>. QED
      BY <2>1 DEF Records
  <2>3. l > 0 /\ l \in Nat /\ Size(r.msg) = 2 + l
    BY <2>2, Serialized DEF FileInv, Layout
  <2>. HIDE DEF l, r
  <2>4. Size(r.msg) \in Nat /\ Size(r.msg) > HeaderSize
    BY <2>3 DEF HeaderSize
  <2>. QED
    BY <2>1, <2>2, <2>4 DEF r
<1>4. ASSUME NEW k \in 0 .. Len(records)
      PROVE  EndAt(records, k) \in Nat /\ EndAt(records, k) <= Len(data_file)
  <2>1. CASE k = 0
    BY <1>2, <2>1 DEF EndAt
  <2>2. CASE k # 0
    <3>1. k \in 1 .. Len(records)
      BY <1>2, <2>2
    <3>2. EndAt(records, k) = records[k].at + records[k].cells /\ EndAt(records, k) <= Len(data_file)
      BY <2>2, <3>1 DEF EndAt, FileInv, Layout
    <3>3. records[k].at \in Nat /\ records[k].cells \in Nat
      BY <1>3, <3>1
    <3>. QED
      BY <3>2, <3>3
  <2>. QED
    BY <2>1, <2>2
<1>. QED
  BY <1>1, <1>2, <1>3, <1>4

LEMMA Reached ==
  ASSUME FileInv, NEW m \in Messages, m.id = Len(records) + 1, Len(m.data) > 0,
         NEW k \in 0 .. Size(m), Reaches(m, k)
  PROVE  LET n == Len(records) IN
         /\ FileInv' /\ Len(records') = n + 1
         /\ \A j \in 1 .. n : records'[j] = records[j]
         /\ \A j \in 0 .. n : EndAt(records', j) = EndAt(records, j)
         /\ records'[n + 1].msg = m /\ records'[n + 1].cells = k
         /\ records'[n + 1].at = Len(data_file)
         /\ records'[n + 1].told =
              (append_tells_end \/ writer # "closed" \/ data_file = <<>>)
         /\ Len(data_file') = Len(data_file) + k
<1>. DEFINE n == Len(records)
            L == Len(data_file)
            told == append_tells_end \/ writer # "closed" \/ data_file = <<>>
            new == [msg |-> m, at |-> L, cells |-> k, told |-> told]
            s == SubSeq(Serialize(m), 1, k)
<1>1. n \in Nat /\ L \in Nat /\ data_file \in Seq(Nat) /\ records \in Seq(Records)
  BY EndTyped DEF FileInv, RecordsTyped
<1>2. /\ Serialize(m) \in Seq(Nat) /\ Len(Serialize(m)) = Size(m) /\ Size(m) \in Nat
      /\ k \in Nat /\ k <= Size(m)
  BY Serialized
<1>3. s \in Seq(Nat) /\ Len(s) = k /\ \A i \in 1 .. k : s[i] = Serialize(m)[i]
  <2>. DEFINE z == Serialize(m)
  <2>1. z \in Seq(Nat) /\ k \in 0 .. Len(z)
    BY <1>2
  <2>. HIDE DEF z
  <2>2. SubSeq(z, 1, k) \in Seq(Nat) /\ Len(SubSeq(z, 1, k)) = k
    BY <2>1, CutFront
  <2>3. \A i \in 1 .. k : SubSeq(z, 1, k)[i] = z[i]
    BY <2>1
  <2>. QED
    BY <2>2, <2>3 DEF z
<1>4. data_file' = data_file \o s /\ records' = Append(records, new)
  BY DEF Reaches
<1>5. new \in Records
  <2>1. told \in BOOLEAN
    OBVIOUS
  <2>. HIDE DEF told, L
  <2>. QED
    BY <1>1, <1>2, <2>1 DEF Records
<1>6. new.msg = m /\ new.at = L /\ new.cells = k /\ new.told = told
  OBVIOUS
<1>. HIDE DEF s, new, told
<1>7. /\ data_file' \in Seq(Nat) /\ Len(data_file') = L + k
      /\ \A i \in 1 .. L : data_file'[i] = data_file[i]
      /\ \A i \in 1 .. k : data_file'[L + i] = Serialize(m)[i]
  <2>1. /\ data_file \o s \in Seq(Nat) /\ Len(data_file \o s) = L + Len(s)
        /\ \A i \in 1 .. L : (data_file \o s)[i] = data_file[i]
        /\ \A i \in 1 .. Len(s) : (data_file \o s)[L + i] = s[i]
    <3>1. data_file \in Seq(Nat) /\ s \in Seq(Nat)
      BY <1>1, <1>3
    <3>. QED
      BY <3>1, Joined
  <2>. HIDE DEF L
  <2>. QED
    BY <1>3, <1>4, <2>1
<1>8. /\ records' \in Seq(Records) /\ Len(records') = n + 1 /\ records'[n + 1] = new
      /\ \A j \in 1 .. n : records'[j] = records[j]
  <2>. HIDE DEF L
  <2>. QED
    BY <1>1, <1>4, <1>5
<1>9. \A j \in 0 .. n : EndAt(records', j) = EndAt(records, j)
  <2>. HIDE DEF n
  <2>. QED
    BY <1>1, <1>8 DEF EndAt
<1>10. EndAt(records', n + 1) = L + k
  BY <1>1, <1>6, <1>8 DEF EndAt
<1>11. EndAt(records, n) = L
  BY DEF FileInv, Layout
<1>12. ASSUME NEW j \in 1 .. n
       PROVE  /\ records'[j].msg.id = j /\ Len(records'[j].msg.data) > 0
              /\ records'[j].at = EndAt(records', j - 1)
              /\ records'[j].cells <= Size(records'[j].msg)
              /\ EndAt(records', j) <= Len(data_file')
              /\ \A i \in 1 .. records'[j].cells :
                   data_file'[records'[j].at + i] = Serialize(records'[j].msg)[i]
  <2>1. /\ records[j].msg.id = j /\ Len(records[j].msg.data) > 0
        /\ records[j].at = EndAt(records, j - 1)
        /\ records[j].cells <= Size(records[j].msg)
        /\ EndAt(records, j) <= L
        /\ \A i \in 1 .. records[j].cells :
             data_file[records[j].at + i] = Serialize(records[j].msg)[i]
    BY DEF FileInv, Layout
  <2>2. records'[j] = records[j] /\ EndAt(records', j) = EndAt(records, j) /\ EndAt(records', j - 1) = EndAt(records, j - 1)
    <3>1. j \in 0 .. n /\ j - 1 \in 0 .. n
      BY <1>1
    <3>. QED
      BY <1>8, <1>9, <3>1
  <2>3. EndAt(records, j) <= Len(data_file')
    <3>1. EndAt(records, j) \in Nat
      BY EndTyped
    <3>. HIDE DEF L
    <3>. QED
      BY <1>1, <1>2, <1>7, <2>1, <3>1
  <2>4. ASSUME NEW i \in 1 .. records[j].cells
        PROVE  data_file'[records[j].at + i] = Serialize(records[j].msg)[i]
    <3>. DEFINE o == records[j].at
                c == records[j].cells
    <3>1. o \in Nat /\ c \in Nat /\ o + c <= L
      <4>1. EndAt(records, j) = o + c
        BY DEF EndAt
      <4>. QED
        BY <2>1, <4>1, EndTyped
    <3>2. data_file[o + i] = Serialize(records[j].msg)[i]
      BY <2>1
    <3>3. o + i \in 1 .. L
      <4>1. i \in 1 .. c
        OBVIOUS
      <4>. HIDE DEF o, c, L
      <4>. QED
        BY <1>1, <3>1, <4>1
    <3>. HIDE DEF o
    <3>4. data_file'[o + i] = data_file[o + i]
      BY <1>7, <3>3
    <3>. QED
      BY <3>2, <3>4 DEF o
  <2>. QED
    BY <2>1, <2>2, <2>3, <2>4
<1>13. /\ records'[n + 1].msg.id = n + 1 /\ Len(records'[n + 1].msg.data) > 0
       /\ records'[n + 1].at = EndAt(records', (n + 1) - 1)
       /\ records'[n + 1].cells <= Size(records'[n + 1].msg)
       /\ EndAt(records', n + 1) <= Len(data_file')
       /\ \A i \in 1 .. records'[n + 1].cells :
            data_file'[records'[n + 1].at + i] = Serialize(records'[n + 1].msg)[i]
  <2>1. (n + 1) - 1 = n /\ n \in 0 .. n
    BY <1>1
  <2>2. EndAt(records', (n + 1) - 1) = L
    BY <1>9, <1>11, <2>1
  <2>. HIDE DEF L
  <2>3. EndAt(records', n + 1) <= Len(data_file')
    BY <1>1, <1>2, <1>7, <1>10
  <2>. QED
    BY <1>2, <1>6, <1>7, <1>8, <2>2, <2>3
<1>14. Layout'
  <2>1. EndAt(records', Len(records')) = Len(data_file')
    <3>1. EndAt(records', Len(records')) = EndAt(records', n + 1)
      BY <1>8
    <3>. QED
      BY <1>7, <1>10, <3>1
  <2>2. \A j \in 1 .. n + 1 : j \in 1 .. n \/ j = n + 1
    BY <1>1
  <2>. HIDE DEF n
  <2>. QED
    BY <1>8, <1>12, <1>13, <2>1, <2>2 DEF Layout
<1>15. FileInv'
  BY <1>7, <1>8, <1>14 DEF FileInv, RecordsTyped
<1>. QED
  BY <1>6, <1>7, <1>8, <1>9, <1>15 DEF told
-----------------------------------------------------------------------------
(* The scan, hop by hop.                                                   *)

EntryAt(f, o) == [offset |-> o, size |-> HeaderSize + f[o + HeaderSize]]
After(f, o)   == o + HeaderSize + f[o + HeaderSize]
Over(f, o)    == o + HeaderSize > Len(f)

IsScan(from, f) ==
  /\ from \in [Nat -> Seq(Entry)]
  /\ \A o \in Nat : from[o] = IF Over(f, o) THEN <<>> ELSE <<EntryAt(f, o)>> \o from[After(f, o)]

LEMMA HopTyped ==
  ASSUME NEW f \in Seq(Nat), NEW o \in Nat, ~Over(f, o)
  PROVE  /\ EntryAt(f, o) \in Entry /\ After(f, o) \in Nat /\ After(f, o) > o
         /\ EntryAt(f, o).offset = o /\ EntryAt(f, o).size = HeaderSize + f[o + HeaderSize]
<1>1. o + 2 \in 1 .. Len(f)
  BY DEF Over, HeaderSize
<1>2. f[o + 2] \in Nat
  BY <1>1
<1>3. 2 + f[o + 2] \in Nat \ {0}
  BY <1>2
<1>. QED
  BY <1>2, <1>3 DEF EntryAt, After, Entry, HeaderSize

LEMMA ScanSteps ==
  ASSUME NEW f \in Seq(Nat)
  PROVE  \E from : IsScan(from, f) /\ ScannedIndex(f) = from[0]
<1>. DEFINE D == Nat
            V == Seq(Entry)
            L == Len(f)
            stop == {o \in D : Over(f, o)}
            len == [o \in D |-> IF o < L THEN L - o ELSE 0]
            next == [o \in D |-> IF Over(f, o) THEN o ELSE After(f, o)]
            base == [o \in D |-> <<>>]
            step == [p \in D \X V |-> IF Over(f, p[1]) THEN <<>> ELSE <<EntryAt(f, p[1])>> \o p[2]]
            Is(g) == g = [o \in Nat |->
                            IF o + HeaderSize > Len(f) THEN <<>>
                            ELSE <<[offset |-> o, size |-> HeaderSize + f[o + HeaderSize]]>>
                                   \o g[o + HeaderSize + f[o + HeaderSize]]]
<1>1. stop \subseteq D /\ len \in [D -> Nat] /\ L \in Nat
  OBVIOUS
<1>2. next \in [D -> D]
  BY HopTyped
<1>3. ASSUME NEW o \in D \ stop
      PROVE  len[next[o]] < len[o]
  <2>1. ~Over(f, o) /\ o \in Nat
    OBVIOUS
  <2>2. After(f, o) \in Nat /\ After(f, o) > o /\ next[o] = After(f, o)
    BY <2>1, HopTyped
  <2>3. o < L
    BY <2>1, <1>1 DEF Over, HeaderSize
  <2>. HIDE DEF next, L
  <2>. QED
    BY <1>1, <2>1, <2>2, <2>3
<1>4. base \in [D -> V]
  OBVIOUS
<1>5. step \in [D \X V -> V]
  <2>1. ASSUME NEW o \in D, NEW r \in V, ~Over(f, o)
        PROVE  <<EntryAt(f, o)>> \o r \in V
    <3>1. <<EntryAt(f, o)>> \in Seq(Entry) /\ r \in Seq(Entry)
      <4>1. EntryAt(f, o) \in Entry
        BY <2>1, HopTyped
      <4>. QED
        BY <4>1
    <3>. QED
      BY <3>1, Joined
  <2>2. <<>> \in V
    OBVIOUS
  <2>. HIDE DEF V, D
  <2>. QED
    BY <2>1, <2>2
<1>6. PICK g : RunsAlong(g, D, V, stop, next, base, step)
  <2>. HIDE DEF D, V, stop, len, next, base, step
  <2>. QED
    BY <1>1, <1>2, <1>3, <1>4, <1>5, TailRecursion
<1>7. /\ g \in [D -> V]
      /\ \A d \in D : g[d] = IF d \in stop THEN base[d] ELSE step[<<d, g[next[d]]>>]
  <2>. HIDE DEF D, V, stop, next, base, step
  <2>. QED
    BY <1>6 DEF RunsAlong
<1>8. ASSUME NEW o \in D
      PROVE  g[o] = IF Over(f, o) THEN <<>> ELSE <<EntryAt(f, o)>> \o g[After(f, o)]
  <2>1. CASE Over(f, o)
    <3>1. g[o] = base[o]
      <4>1. o \in stop
        BY <2>1
      <4>. HIDE DEF D, V, stop, next, base, step
      <4>. QED
        BY <1>7, <4>1
    <3>. QED
      BY <2>1, <3>1
  <2>2. CASE ~Over(f, o)
    <3>1. g[o] = step[<<o, g[After(f, o)]>>]
      <4>1. o \notin stop /\ next[o] = After(f, o)
        BY <2>2
      <4>. HIDE DEF D, V, stop, next, base, step
      <4>. QED
        BY <1>7, <4>1
    <3>2. g[After(f, o)] \in V
      <4>1. After(f, o) \in D
        BY <2>2, HopTyped
      <4>. HIDE DEF D, V
      <4>. QED
        BY <1>7, <4>1
    <3>3. step[<<o, g[After(f, o)]>>] = <<EntryAt(f, o)>> \o g[After(f, o)]
      <4>. HIDE DEF D, V
      <4>. QED
        BY <2>2, <3>2
    <3>. HIDE DEF step
    <3>. QED
      BY <2>2, <3>1, <3>3
  <2>. QED
    BY <2>1, <2>2
<1>9. Is(g)
  <2>. HIDE DEF V
  <2>. QED
    BY <1>7, <1>8 DEF Over, EntryAt, After
<1>. DEFINE e == CHOOSE h : Is(h)
<1>10. Is(e)
  <2>1. \E h : Is(h)
    BY <1>9
  <2>. HIDE DEF Is
  <2>. QED
    BY <2>1
<1>11. ScannedIndex(f) = e[0]
  BY DEF ScannedIndex
<1>. HIDE DEF e
<1>12. ASSUME NEW o \in D
       PROVE  e[o] = IF Over(f, o) THEN <<>> ELSE <<EntryAt(f, o)>> \o e[After(f, o)]
  BY <1>10 DEF Over, EntryAt, After
<1>13. e \in [Nat -> Seq(Entry)]
  <2>. DEFINE S == {n \in 0 .. L : \A o \in Nat : L - o <= n => e[o] \in Seq(Entry)}
  <2>1. 0 \in S
    <3>1. ASSUME NEW o \in Nat, L - o <= 0
          PROVE  e[o] \in Seq(Entry)
      <4>1. Over(f, o)
        BY <1>1, <3>1 DEF Over, HeaderSize
      <4>2. e[o] = <<>>
        BY <1>12, <4>1
      <4>. QED
        BY <4>2
    <3>. QED
      BY <1>1, <3>1
  <2>2. ASSUME NEW n \in 0 .. L - 1, n \in S
        PROVE  n + 1 \in S
    <3>1. ASSUME NEW o \in Nat, L - o <= n + 1
          PROVE  e[o] \in Seq(Entry)
      <4>1. CASE Over(f, o)
        <5>1. e[o] = <<>>
          BY <1>12, <4>1
        <5>. QED
          BY <5>1
      <4>2. CASE ~Over(f, o)
        <5>1. EntryAt(f, o) \in Entry /\ After(f, o) \in Nat /\ After(f, o) > o
          BY <4>2, HopTyped
        <5>2. L - After(f, o) <= n
          <6>. HIDE DEF L
          <6>. QED
            BY <1>1, <3>1, <5>1
        <5>3. e[After(f, o)] \in Seq(Entry)
          BY <2>2, <5>1, <5>2
        <5>4. <<EntryAt(f, o)>> \in Seq(Entry)
          BY <5>1
        <5>5. <<EntryAt(f, o)>> \o e[After(f, o)] \in Seq(Entry)
          BY <5>3, <5>4, Joined
        <5>6. e[o] = <<EntryAt(f, o)>> \o e[After(f, o)]
          BY <1>12, <4>2
        <5>. QED
          BY <5>5, <5>6
      <4>. QED
        BY <4>1, <4>2
    <3>2. n + 1 \in 0 .. L
      BY <1>1
    <3>. HIDE DEF L
    <3>. QED
      BY <3>1, <3>2
  <2>3. \A n \in 0 .. L : n \in S
    <3>. HIDE DEF S, L
    <3>. QED
      BY <1>1, <2>1, <2>2, Induction
  <2>4. ASSUME NEW o \in Nat
        PROVE  e[o] \in Seq(Entry)
    <3>1. L \in S /\ L - o <= L
      BY <1>1, <2>3
    <3>. HIDE DEF L
    <3>. QED
      BY <3>1
  <2>5. DOMAIN e = Nat /\ e = [o \in Nat |-> e[o]]
    BY <1>10
  <2>. HIDE DEF Is
  <2>. QED
    BY <2>4, <2>5
<1>14. IsScan(e, f)
  BY <1>12, <1>13 DEF IsScan
<1>. QED
  BY <1>11, <1>14
LEMMA Hop ==
  ASSUME FileInv, NEW k \in 1 .. Len(records), Whole(records[k])
  PROVE  LET o == EndAt(records, k - 1) IN
         /\ o \in Nat /\ o = records[k].at /\ ~Over(data_file, o)
         /\ After(data_file, o) = EndAt(records, k)
         /\ EntryAt(data_file, o).offset = o
         /\ EntryAt(data_file, o).size = Size(records[k].msg)
         /\ EndAt(records, k) = o + Size(records[k].msg)
         /\ records[k].cells > 0
<1>. DEFINE o == records[k].at
            m == records[k].msg
            c == records[k].cells
            l == Len(records[k].msg.data)
            E == EndAt(records, k)
<1>1. /\ m \in Messages /\ o \in Nat /\ c \in Nat /\ data_file \in Seq(Nat)
      /\ E \in Nat /\ E <= Len(data_file) /\ Len(data_file) \in Nat
  <2>1. k \in 0 .. Len(records)
    OBVIOUS
  <2>. HIDE DEF E
  <2>. QED
    BY <2>1, EndTyped DEF E
<1>2. /\ Len(Serialize(m)) = Size(m) /\ Size(m) = 2 + l /\ l \in Nat
      /\ Serialize(m)[2] = l
  BY <1>1, Serialized
<1>3. o = EndAt(records, k - 1) /\ \A i \in 1 .. c : data_file[o + i] = Serialize(m)[i]
  BY DEF FileInv, Layout
<1>4. E = o + c
  BY DEF EndAt
<1>5. c = Size(m)
  BY <1>2 DEF Whole
<1>. HIDE DEF o, m, c, l, E
<1>6. data_file[o + 2] = l
  <2>1. 2 \in 1 .. c
    BY <1>2, <1>5
  <2>. QED
    BY <1>2, <1>3, <2>1
<1>7. ~Over(data_file, o) /\ After(data_file, o) = E
  BY <1>1, <1>2, <1>4, <1>5, <1>6 DEF Over, After, HeaderSize
<1>8. EntryAt(data_file, o).offset = o /\ EntryAt(data_file, o).size = Size(m)
  BY <1>2, <1>6 DEF EntryAt, HeaderSize
<1>9. c > 0
  BY <1>2, <1>5
<1>. QED
  BY <1>1, <1>3, <1>4, <1>5, <1>7, <1>8, <1>9 DEF o, m, c, E

LEMMA OnFileGrows ==
  ASSUME FileInv, NEW n \in 0 .. Len(records)
  PROVE  /\ OnFile(0) = {}
         /\ IsFiniteSet(OnFile(n)) /\ Cardinality(OnFile(n)) \in Nat
         /\ n < Len(records) =>
              /\ records[n + 1].cells > 0 =>
                   /\ OnFile(n + 1) = OnFile(n) \union {n + 1} /\ n + 1 \notin OnFile(n)
                   /\ Cardinality(OnFile(n + 1)) = Cardinality(OnFile(n)) + 1
              /\ ~(records[n + 1].cells > 0) => OnFile(n + 1) = OnFile(n)
<1>1. n \in Nat
  BY EndTyped
<1>2. IsFiniteSet(OnFile(n)) /\ Cardinality(OnFile(n)) \in Nat
  <2>1. IsFiniteSet(1 .. n)
    BY <1>1, FS_Interval
  <2>2. OnFile(n) \in SUBSET (1 .. n)
    BY DEF OnFile
  <2>3. IsFiniteSet(OnFile(n))
    BY <2>1, <2>2, FS_Subset
  <2>. QED
    BY <2>3, FS_CardinalityType
<1>3. OnFile(0) = {}
  BY DEF OnFile
<1>4. ASSUME records[n + 1].cells > 0
      PROVE  OnFile(n + 1) = OnFile(n) \union {n + 1} /\ n + 1 \notin OnFile(n)
  BY <1>1, <1>4 DEF OnFile
<1>5. ASSUME ~(records[n + 1].cells > 0)
      PROVE  OnFile(n + 1) = OnFile(n)
  BY <1>1, <1>5 DEF OnFile
<1>6. ASSUME records[n + 1].cells > 0
      PROVE  Cardinality(OnFile(n + 1)) = Cardinality(OnFile(n)) + 1
  BY <1>2, <1>4, <1>6, FS_AddElement
<1>. QED
  BY <1>2, <1>3, <1>4, <1>5, <1>6

(* The entries p lead over the first n messages as far as they are on the file. *)
Leading(from, n, p) ==
  /\ p \in Seq(Entry) /\ from[0] = p \o from[EndAt(records, n)]
  /\ Len(p) = Cardinality(OnFile(n))
  /\ n \in OnFile(n) =>
       /\ Len(p) > 0 /\ p[Len(p)].offset = records[n].at
       /\ p[Len(p)].size = Size(records[n].msg)

LEMMA ScanLeads ==
  ASSUME FileInv, NEW from, IsScan(from, data_file), NEW N \in 0 .. Len(records),
         \A j \in OnFile(N) : Whole(records[j])
  PROVE  \E p : Leading(from, N, p)
<1>. DEFINE S == {n \in 0 .. N : \E p : Leading(from, n, p)}
<1>0. N \in Nat /\ Len(records) \in Nat /\ N <= Len(records)
  BY EndTyped
<1>1. 0 \in S
  <2>1. EndAt(records, 0) = 0 /\ OnFile(0) = {} /\ Cardinality(OnFile(0)) = 0
    <3>1. 0 \in 0 .. Len(records)
      BY <1>0
    <3>2. OnFile(0) = {}
      BY <3>1, OnFileGrows
    <3>. QED
      BY <3>2, FS_EmptySet DEF EndAt
  <2>2. from[0] \in Seq(Entry)
    BY DEF IsScan
  <2>3. <<>> \in Seq(Entry) /\ from[0] = <<>> \o from[0] /\ Len(<<>>) = 0
    BY <2>2
  <2>4. Leading(from, 0, <<>>)
    BY <2>1, <2>3 DEF Leading
  <2>. HIDE DEF Leading
  <2>. QED
    BY <1>0, <2>4
<1>2. ASSUME NEW n \in 0 .. N - 1, n \in S
      PROVE  n + 1 \in S
  <2>1. PICK p : Leading(from, n, p)
    BY <1>2
  <2>2. n \in 0 .. Len(records) /\ n < Len(records) /\ n + 1 \in 1 .. Len(records)
        /\ n + 1 \in 0 .. N /\ (n + 1) - 1 = n /\ n + 1 \in Nat /\ n + 1 # 0
        /\ n \in Nat /\ n + 1 \in 1 .. N
    BY <1>0
  <2>. DEFINE r == records[n + 1]
  <2>3. r.cells \in Nat /\ r.at \in Nat /\ r.at = EndAt(records, n)
        /\ EndAt(records, n + 1) = r.at + r.cells
    <3>1. r.cells \in Nat /\ r.at \in Nat
      BY <2>2, EndTyped
    <3>2. r.at = EndAt(records, (n + 1) - 1)
      BY <2>2 DEF FileInv, Layout
    <3>3. EndAt(records, n + 1) = r.at + r.cells
      BY <2>2 DEF EndAt
    <3>. HIDE DEF r
    <3>. QED
      BY <2>2, <3>1, <3>2, <3>3
  <2>4. CASE ~(r.cells > 0)
    <3>1. OnFile(n + 1) = OnFile(n)
      BY <2>2, <2>4, OnFileGrows
    <3>2. n + 1 \notin OnFile(n)
      BY <2>2 DEF OnFile
    <3>3. EndAt(records, n + 1) = EndAt(records, n)
      <4>. HIDE DEF r
      <4>. QED
        BY <2>3, <2>4
    <3>4. Leading(from, n + 1, p)
      BY <2>1, <3>1, <3>2, <3>3 DEF Leading
    <3>. HIDE DEF Leading
    <3>. QED
      BY <2>2, <3>4
  <2>5. CASE r.cells > 0
    <3>. DEFINE o == EndAt(records, n)
                e == EntryAt(data_file, o)
                q == Append(p, e)
                t == from[EndAt(records, n + 1)]
    <3>1. Whole(r)
      <4>1. n + 1 \in OnFile(N)
        BY <2>2, <2>5 DEF OnFile
      <4>. QED
        BY <4>1
    <3>2. /\ o \in Nat /\ o = r.at /\ ~Over(data_file, o)
          /\ After(data_file, o) = EndAt(records, n + 1)
          /\ e.offset = o /\ e.size = Size(r.msg)
      BY <2>2, <3>1, Hop
    <3>3. e \in Entry /\ EndAt(records, n + 1) \in Nat
      <4>1. data_file \in Seq(Nat)
        BY EndTyped
      <4>. QED
        BY <3>2, <4>1, HopTyped
    <3>4. from[o] = <<e>> \o t /\ t \in Seq(Entry)
      <4>. HIDE DEF e
      <4>. QED
        BY <3>2, <3>3 DEF IsScan, e
    <3>5. p \in Seq(Entry) /\ from[0] = p \o from[o] /\ Len(p) = Cardinality(OnFile(n))
      BY <2>1 DEF Leading
    <3>. HIDE DEF e, t, o
    <3>6. q \in Seq(Entry) /\ Len(q) = Len(p) + 1 /\ q[Len(p) + 1] = e
      BY <3>3, <3>5
    <3>7. p \o (<<e>> \o t) = q \o t
      <4>1. p \in Seq(Entry) /\ t \in Seq(Entry) /\ e \in Entry
        BY <3>3, <3>4, <3>5
      <4>. QED
        BY <4>1
    <3>8. Len(q) = Cardinality(OnFile(n + 1)) /\ Len(q) > 0
      <4>1. Cardinality(OnFile(n)) \in Nat
            /\ Cardinality(OnFile(n + 1)) = Cardinality(OnFile(n)) + 1
        BY <2>2, <2>5, OnFileGrows
      <4>. HIDE DEF q
      <4>. QED
        BY <3>5, <3>6, <4>1
    <3>9. q[Len(q)].offset = r.at /\ q[Len(q)].size = Size(r.msg)
      <4>. HIDE DEF q, r
      <4>. QED
        BY <3>2, <3>6
    <3>10. from[0] = q \o t
      <4>. HIDE DEF q
      <4>. QED
        BY <3>4, <3>5, <3>7
    <3>. HIDE DEF q
    <3>11. Leading(from, n + 1, q)
      BY <3>6, <3>8, <3>9, <3>10 DEF Leading, t
    <3>. HIDE DEF Leading
    <3>. QED
      BY <2>2, <3>11
  <2>. QED
    BY <2>4, <2>5
<1>3. \A n \in 0 .. N : n \in S
  <2>. HIDE DEF S
  <2>. QED
    BY <1>0, <1>1, <1>2, Induction
<1>. QED
  BY <1>0, <1>3

(* What the scan finds in front of the first damage, ... *)
LEMMA ScanFinds ==
  ASSUME FileInv, NEW k \in 1 .. Len(records), k \in OnFile(k),
         \A j \in OnFile(k) : Whole(records[j])
  PROVE  LET scan == ScannedIndex(data_file)
             i == Cardinality(OnFile(k))
         IN  /\ scan \in Seq(Entry) /\ i \in 1 .. Len(scan)
             /\ scan[i].offset = records[k].at /\ scan[i].size = Size(records[k].msg)
<1>1. data_file \in Seq(Nat)
  BY EndTyped
<1>2. PICK from : IsScan(from, data_file) /\ ScannedIndex(data_file) = from[0]
  BY <1>1, ScanSteps
<1>3. k \in 0 .. Len(records)
  OBVIOUS
<1>4. PICK p : Leading(from, k, p)
  BY <1>2, <1>3, ScanLeads
<1>. DEFINE t == from[EndAt(records, k)]
<1>5. p \in Seq(Entry) /\ t \in Seq(Entry) /\ from[0] = p \o t
  <2>1. EndAt(records, k) \in Nat
    BY <1>3, EndTyped
  <2>. QED
    BY <1>2, <1>4, <2>1 DEF IsScan, Leading
<1>6. /\ Len(p) = Cardinality(OnFile(k)) /\ Len(p) > 0
      /\ p[Len(p)].offset = records[k].at /\ p[Len(p)].size = Size(records[k].msg)
  BY <1>4 DEF Leading
<1>. HIDE DEF t
<1>7. /\ p \o t \in Seq(Entry) /\ Len(p \o t) = Len(p) + Len(t)
      /\ \A i \in 1 .. Len(p) : (p \o t)[i] = p[i]
  BY <1>5, Joined
<1>8. Len(p) \in 1 .. Len(p \o t) /\ (p \o t)[Len(p)] = p[Len(p)]
  <2>1. Len(p) \in Nat /\ Len(t) \in Nat
    BY <1>5
  <2>. QED
    BY <1>6, <1>7, <2>1
<1>. QED
  BY <1>2, <1>5, <1>6, <1>7, <1>8
LEMMA IntactOnFile ==
  ASSUME FileInv, NEW i \in 0 .. Len(records), Intact(records, i)
  PROVE  /\ OnFile(i) = 1 .. i /\ Cardinality(OnFile(i)) = i
         /\ \A j \in OnFile(i) : Whole(records[j])
<1>1. i \in Nat /\ i <= Len(records) /\ Len(records) \in Nat
  BY EndTyped
<1>2. ASSUME NEW j \in 1 .. i
      PROVE  records[j].cells > 0 /\ Whole(records[j])
  <2>1. j \in 1 .. Len(records) /\ Whole(records[j])
    BY <1>1 DEF Intact
  <2>. QED
    BY <2>1, Hop
<1>3. OnFile(i) = 1 .. i
  BY <1>2 DEF OnFile
<1>4. Cardinality(1 .. i) = i
  BY <1>1, FS_Interval
<1>. QED
  BY <1>2, <1>3, <1>4

(* ... which is the index as far as the records are intact, ... *)
LEMMA ScanOfIntact ==
  ASSUME FileInv, NEW i \in 1 .. Len(records), Intact(records, i)
  PROVE  LET scan == ScannedIndex(data_file) IN i <= Len(scan) /\ Leads(scan[i], records[i])
<1>1. i \in 0 .. Len(records) /\ i \in 1 .. i
  OBVIOUS
<1>2. /\ OnFile(i) = 1 .. i /\ Cardinality(OnFile(i)) = i
      /\ \A j \in OnFile(i) : Whole(records[j])
  BY <1>1, IntactOnFile
<1>3. LET scan == ScannedIndex(data_file)
      IN  /\ i \in 1 .. Len(scan)
          /\ scan[i].offset = records[i].at /\ scan[i].size = Size(records[i].msg)
  BY <1>1, <1>2, ScanFinds
<1>. QED
  BY <1>3 DEF Leads

(* ... and the whole of it if all of them are. *)
LEMMA ScanOfSound ==
  ASSUME FileInv, Sound
  PROVE  LET scan == ScannedIndex(data_file)
         IN  Len(scan) = Len(records) /\ EndOfScan(scan) = Len(data_file)
<1>. DEFINE n == Len(records)
            L == Len(data_file)
<1>1. data_file \in Seq(Nat) /\ n \in Nat /\ L \in Nat /\ n \in 0 .. n
  BY EndTyped
<1>2. PICK from : IsScan(from, data_file) /\ ScannedIndex(data_file) = from[0]
  BY <1>1, ScanSteps
<1>3. /\ OnFile(n) = 1 .. n /\ Cardinality(OnFile(n)) = n
      /\ \A j \in OnFile(n) : Whole(records[j])
  BY <1>1, IntactOnFile DEF Sound
<1>4. PICK p : Leading(from, n, p)
  BY <1>1, <1>2, <1>3, ScanLeads
<1>5. from[L] = <<>>
  <2>1. Over(data_file, L)
    BY <1>1 DEF Over, HeaderSize
  <2>. HIDE DEF L
  <2>. QED
    BY <1>1, <1>2, <2>1 DEF IsScan
<1>6. EndAt(records, n) = L
  BY DEF FileInv, Layout
<1>7. p \in Seq(Entry) /\ from[0] = p
  <2>1. p \in Seq(Entry) /\ from[0] = p \o <<>>
    BY <1>4, <1>5, <1>6 DEF Leading
  <2>2. p \o <<>> = p
    BY <2>1
  <2>. QED
    BY <2>1, <2>2
<1>8. Len(p) = n
  BY <1>3, <1>4 DEF Leading
<1>9. EndOfScan(p) = L
  <2>1. CASE n = 0
    <3>1. p = <<>>
      BY <1>7, <1>8, <2>1
    <3>2. L = 0
      BY <1>6, <2>1 DEF EndAt
    <3>. QED
      BY <3>1, <3>2 DEF EndOfScan
  <2>2. CASE n # 0
    <3>1. n \in OnFile(n) /\ n \in 1 .. n
      BY <1>1, <1>3, <2>2
    <3>2. p[n].offset = records[n].at /\ p[n].size = Size(records[n].msg) /\ Len(p) > 0
      BY <1>4, <1>8, <3>1 DEF Leading
    <3>3. records[n].at = EndAt(records, n - 1)
          /\ EndAt(records, n) = EndAt(records, n - 1) + Size(records[n].msg)
      <4>1. Whole(records[n])
        BY <1>3, <3>1
      <4>. QED
        BY <3>1, <4>1, Hop
    <3>4. p # <<>> /\ Last(p) = p[n]
      BY <1>7, <1>8, <3>2 DEF Last
    <3>. QED
      BY <1>6, <3>2, <3>3, <3>4 DEF EndOfScan
  <2>. QED
    BY <2>1, <2>2
<1>. QED
  BY <1>2, <1>7, <1>8, <1>9

LEMMA ScanIsRight ==
  ASSUME FileInv
  PROVE  ScanFindsIntact
<1>. DEFINE scan == ScannedIndex(data_file)
<1>1. ASSUME NEW k \in DOMAIN records, k \in OnFile(k), \A j \in OnFile(k) : Whole(records[j])
      PROVE  LET i == Cardinality(OnFile(k)) IN
             /\ i <= Len(scan) /\ scan[i].offset = records[k].at
             /\ Deserialize(ReadAt(scan[i])) = records[k].msg
  <2>. DEFINE i == Cardinality(OnFile(k))
  <2>1. k \in 1 .. Len(records) /\ Whole(records[k])
    <3>1. records \in Seq(Records)
      BY DEF FileInv, RecordsTyped
    <3>. QED
      BY <1>1, <3>1
  <2>2. /\ i \in 1 .. Len(scan)
        /\ scan[i].offset = records[k].at /\ scan[i].size = Size(records[k].msg)
    BY <1>1, <2>1, ScanFinds
  <2>. HIDE DEF scan, i
  <2>3. Deserialize(ReadAt(scan[i])) = records[k].msg
    BY <2>1, <2>2, ReadBack
  <2>4. i <= Len(scan)
    BY <2>2
  <2>. QED
    BY <2>2, <2>3, <2>4 DEF scan, i
<1>. QED
  BY <1>1 DEF ScanFindsIntact
-----------------------------------------------------------------------------
(* The steps.                                                              *)

LEMMA NewMessage ==
  ASSUME TypeOK, FileInv, NEW n \in DataSizes
  PROVE  /\ Message(n) \in Messages /\ Message(n).id = Len(records) + 1
         /\ Message(n).data \in Seq(Nat) /\ Len(Message(n).data) = n /\ n > 0 /\ n \in Nat
         /\ Size(Message(n)) = HeaderSize + n
<1>1. n \in Nat /\ n > 0 /\ Len(records) + 1 \in Nat
  BY EndTyped, SizesAssumption
<1>. DEFINE id == Len(records) + 1
            d == [j \in 1 .. n |-> id]
<1>2. Message(n) = [id |-> id, data |-> d]
  BY DEF Message
<1>3. d \in Seq(Nat) /\ Len(d) = n /\ id \in Nat
  BY <1>1
<1>. HIDE DEF id, d
<1>4. Message(n).id = id /\ Message(n).data = d
  BY <1>2
<1>5. Message(n) \in Messages
  BY <1>2, <1>3 DEF Messages
<1>6. Size(Message(n)) = HeaderSize + n
  BY <1>3, <1>4 DEF Size
<1>. QED
  BY <1>1, <1>3, <1>4, <1>5, <1>6 DEF id

LEMMA FileStep ==
  ASSUME TypeOK, FileInv, [Next]_vars
  PROVE  FileInv'
<1>1. ASSUME NEW n \in DataSizes, NEW k \in 0 .. HeaderSize + n, Reaches(Message(n), k)
      PROVE  FileInv'
  <2>. DEFINE m == Message(n)
  <2>1. m \in Messages /\ m.id = Len(records) + 1 /\ Len(m.data) > 0 /\ k \in 0 .. Size(m)
    BY NewMessage
  <2>. HIDE DEF m
  <2>2. Reaches(m, k)
    BY <1>1 DEF m
  <2>. QED
    BY <2>1, <2>2, Reached
<1>2. ASSUME NEW n \in DataSizes, WriteToDisk(n) \/ CrashInAppend(n)
      PROVE  FileInv'
  BY <1>1, <1>2 DEF WriteToDisk, CrashInAppend
<1>3. CASE SendHead \/ ReadFromDisk \/ LoadStep \/ Crash \/ Shutdown \/ Start \/ UNCHANGED vars
  <2>1. UNCHANGED <<data_file, records>>
    BY <1>3 DEF SendHead, ReadFromDisk, LoadStep, Crash, Shutdown, Start, vars, files
  <2>. QED
    BY <2>1, FileStays
<1>. QED
  BY <1>2, <1>3 DEF Next
LEMMA InRange ==
  ASSUME NEW a \in Int
  PROVE  a % SizeRange \in 0 .. SizeRange - 1
BY RangeAssumption

LEMMA HeadTyped ==
  ASSUME TypeOK, FileInv, Pending
  PROVE  /\ HeadEntry \in Entry /\ HeadEntry.size \in Nat
         /\ ReadHead \in Messages /\ ReaderReads \in Messages
         /\ disk_read_pos + 1 \in 1 .. Len(disk_index)
         /\ disk_read_pos \in Nat /\ Len(disk_index) \in Nat
<1>1. /\ disk_read_pos + 1 \in 1 .. Len(disk_index) /\ disk_index \in Seq(Entry)
      /\ disk_read_pos \in Nat /\ Len(disk_index) \in Nat
  BY DEF TypeOK, Pending
<1>2. HeadEntry \in Entry
  BY <1>1 DEF HeadEntry
<1>3. HeadEntry.size \in Nat
  BY <1>2 DEF Entry
<1>4. Deserialize(ReadAt(HeadEntry)) \in Messages /\ Deserialize(Zeros(HeadEntry)) \in Messages
  BY <1>2, ReadTyped DEF FileInv
<1>. QED
  BY <1>1, <1>2, <1>3, <1>4 DEF ReadHead, ReaderReads

LEMMA ConsumeTyped ==
  ASSUME TypeOK, FileInv, Pending, NEW m \in Messages, Consume(m)
  PROVE  /\ disk_read_pos' \in 0 .. Len(disk_index)
         /\ delivered' \in Seq(Messages) /\ Len(delivered') = disk_read_pos'
         /\ Len(delivered) = disk_read_pos
         /\ delivered'[disk_read_pos + 1] = m
         /\ \A i \in 1 .. disk_read_pos : delivered'[i] = delivered[i]
<1>1. /\ disk_read_pos + 1 \in 1 .. Len(disk_index) /\ disk_read_pos \in Nat
      /\ Len(disk_index) \in Nat
  BY HeadTyped
<1>2. delivered \in Seq(Messages) /\ Len(delivered) = disk_read_pos
  BY DEF TypeOK, Messages
<1>3. disk_read_pos' = disk_read_pos + 1 /\ delivered' = Append(delivered, m)
  BY DEF Consume
<1>4. /\ Append(delivered, m) \in Seq(Messages)
      /\ Len(Append(delivered, m)) = Len(delivered) + 1
      /\ Append(delivered, m)[Len(delivered) + 1] = m
      /\ \A i \in 1 .. Len(delivered) : Append(delivered, m)[i] = delivered[i]
  BY <1>2
<1>. QED
  BY <1>1, <1>2, <1>3, <1>4

LEMMA Added ==
  ASSUME TypeOK, FileInv, NEW n \in DataSizes, AddEntry(Message(n))
  PROVE  LET l == Len(disk_index)
             e == disk_index'[l + 1]
         IN  /\ disk_index' \in Seq(Entry) /\ Len(disk_index') = l + 1 /\ l \in Nat
             /\ \A i \in 1 .. l : disk_index'[i] = disk_index[i]
             /\ e.offset = TellP /\ e.size = Size(Message(n))
             /\ current_disk_size' = (current_disk_size + Size(Message(n))) % SizeRange
             /\ current_disk_size' \in 0 .. SizeRange - 1
             /\ appended' \in Seq(Nat) /\ Len(appended') = Len(appended) + 1
             /\ appended'[Len(appended) + 1] = Len(records) + 1
             /\ \A i \in 1 .. Len(appended) : appended'[i] = appended[i]
             /\ Len(appended) \in Nat
<1>. DEFINE l == Len(disk_index)
            m == Message(n)
            new == [offset |-> TellP, size |-> Size(m)]
<1>1. disk_index \in Seq(Entry) /\ appended \in Seq(Nat) /\ current_disk_size \in Nat
      /\ Len(records) + 1 \in Nat
  BY EndTyped DEF TypeOK
<1>2. Len(Serialize(m)) = Size(m) /\ Size(m) \in Nat /\ Size(m) # 0
  <2>1. m \in Messages /\ n > 0 /\ n \in Nat /\ Size(m) = HeaderSize + n
    BY NewMessage
  <2>. HIDE DEF m
  <2>2. Len(Serialize(m)) = Size(m)
    BY <2>1, Serialized
  <2>. QED
    BY <2>1, <2>2 DEF HeaderSize
<1>3. new \in Entry
  <2>1. TellP \in {NoPos} \union Nat
    <3>1. Len(data_file) \in Nat
      BY EndTyped
    <3>. QED
      BY <3>1 DEF TellP
  <2>. HIDE DEF m
  <2>. QED
    BY <1>2, <2>1 DEF Entry
<1>4. /\ disk_index' = Append(disk_index, new)
      /\ current_disk_size' = (current_disk_size + Size(m)) % SizeRange
      /\ appended' = Append(appended, Len(records) + 1)
  BY <1>2 DEF AddEntry
<1>5. current_disk_size' \in 0 .. SizeRange - 1
  <2>. HIDE DEF m
  <2>1. current_disk_size + Size(m) \in Int
    BY <1>1, <1>2
  <2>. QED
    BY <1>4, <2>1, InRange
<1>6. new.offset = TellP /\ new.size = Size(m)
  OBVIOUS
<1>. HIDE DEF new, m
<1>7. /\ disk_index' \in Seq(Entry) /\ Len(disk_index') = l + 1 /\ l \in Nat
      /\ disk_index'[l + 1] = new /\ \A i \in 1 .. l : disk_index'[i] = disk_index[i]
  BY <1>1, <1>3, <1>4
<1>8. /\ appended' \in Seq(Nat) /\ Len(appended') = Len(appended) + 1
      /\ appended'[Len(appended) + 1] = Len(records) + 1 /\ Len(appended) \in Nat
      /\ \A i \in 1 .. Len(appended) : appended'[i] = appended[i]
  BY <1>1, <1>4
<1>. QED
  BY <1>4, <1>5, <1>6, <1>7, <1>8 DEF m

LEMMA FoundTyped ==
  ASSUME TypeOK, FileInv
  PROVE  /\ FoundIndex \in Seq(Entry)
         /\ IndexAccepted => index_file.total \in Nat
         /\ EndOfScan(FoundIndex) \in Int
<1>1. index_file.entries \in Seq(Entry) /\ index_file.total \in {-1} \union Nat
  BY DEF TypeOK
<1>2. data_file \in Seq(Nat) /\ Len(data_file) \in Nat
  BY EndTyped
<1>3. ScannedIndex(data_file) \in Seq(Entry)
  <2>1. PICK from : IsScan(from, data_file) /\ ScannedIndex(data_file) = from[0]
    BY <1>2, ScanSteps
  <2>. QED
    BY <2>1 DEF IsScan
<1>4. FoundIndex \in Seq(Entry)
  BY <1>1, <1>3 DEF FoundIndex
<1>5. IndexAccepted => index_file.total \in Nat
  BY <1>2 DEF IndexAccepted
<1>6. ASSUME NEW s \in Seq(Entry)
      PROVE  EndOfScan(s) \in Int
  <2>1. CASE s = <<>>
    BY <2>1 DEF EndOfScan
  <2>2. CASE s # <<>>
    <3>1. Last(s) \in Entry
      <4>1. Len(s) \in 1 .. Len(s)
        BY <2>2
      <4>. QED
        BY <4>1 DEF Last
    <3>2. Last(s).offset \in Int /\ Last(s).size \in Int
      BY <3>1 DEF Entry, NoPos
    <3>. QED
      BY <2>2, <3>2 DEF EndOfScan
  <2>. QED
    BY <2>1, <2>2
<1>. QED
  BY <1>4, <1>5, <1>6
LEMMA BlankTyped ==
  ASSUME TypeOK, Blank, data_file' \in Seq(Nat), Len(records') <= MaxMessages,
         index_file' \in [total : {-1} \union Nat, entries : Seq(Entry)]
  PROVE  TypeOK' /\ DownIsBlank'
<1>1. /\ alive' = FALSE
      /\ disk_index' = <<>> /\ disk_read_pos' = 0 /\ current_disk_size' = 0
      /\ writer' = "closed" /\ reader_failed' = FALSE
      /\ found' = 0 /\ appended' = <<>> /\ delivered' = <<>>
      /\ append_tells_end' = append_tells_end /\ starts' = starts
  BY DEF Blank
<1>2. DownIsBlank'
  BY <1>1 DEF DownIsBlank
<1>3. /\ disk_index' \in Seq(Entry) /\ disk_read_pos' \in 0 .. Len(disk_index')
      /\ current_disk_size' \in 0 .. SizeRange - 1 /\ found' \in Nat
      /\ appended' \in Seq(Nat) /\ delivered' \in Seq([id : Nat, data : Seq(Nat)])
      /\ Len(disk_index') = found' + Len(appended') /\ Len(delivered') = disk_read_pos'
  BY <1>1, RangeAssumption
<1>4. append_tells_end' \in TellsEnd /\ starts' \in 0 .. MaxStarts
  BY <1>1 DEF TypeOK
<1>5. reader_failed' \in BOOLEAN /\ alive' \in BOOLEAN /\ writer' \in {"closed", "good", "failed"}
  BY <1>1
<1>. QED
  BY <1>2, <1>3, <1>4, <1>5 DEF TypeOK

LEMMA TypeStep ==
  ASSUME TypeOK, FileInv, DownIsBlank, [Next]_vars
  PROVE  TypeOK' /\ DownIsBlank'
<1>1. data_file' \in Seq(Nat) /\ data_file \in Seq(Nat)
  <2>1. FileInv'
    BY FileStep
  <2>. QED
    BY <2>1 DEF FileInv, RecordsTyped
<1>2. /\ index_file \in [total : {-1} \union Nat, entries : Seq(Entry)]
      /\ starts \in 0 .. MaxStarts /\ Len(records) <= MaxMessages
      /\ append_tells_end \in TellsEnd
      /\ writer \in {"closed", "good", "failed"}
      /\ reader_failed \in BOOLEAN /\ alive \in BOOLEAN
  BY DEF TypeOK
<1>3. /\ disk_index \in Seq(Entry) /\ disk_read_pos \in 0 .. Len(disk_index)
      /\ current_disk_size \in 0 .. SizeRange - 1 /\ current_disk_size \in Nat
      /\ found \in Nat /\ appended \in Seq(Nat)
      /\ delivered \in Seq([id : Nat, data : Seq(Nat)])
      /\ Len(disk_index) = found + Len(appended) /\ Len(delivered) = disk_read_pos
  BY DEF TypeOK
<1>4. ASSUME NEW n \in DataSizes, NEW k \in 0 .. HeaderSize + n, Reaches(Message(n), k), HasRoom
      PROVE  Len(records') <= MaxMessages
  <2>. DEFINE m == Message(n)
  <2>1. m \in Messages /\ m.id = Len(records) + 1 /\ Len(m.data) > 0 /\ k \in 0 .. Size(m)
    BY NewMessage
  <2>. HIDE DEF m
  <2>2. Len(records') = Len(records) + 1
    BY <1>4, <2>1, Reached DEF m
  <2>3. Len(records) < MaxMessages /\ Len(records) \in Nat
    BY <1>4, EndTyped DEF HasRoom
  <2>. QED
    BY <2>2, <2>3, BoundsAssumption
<1>5. ASSUME NEW n \in DataSizes, WriteToDisk(n)
      PROVE  TypeOK' /\ DownIsBlank'
  <2>1. PICK k \in 0 .. HeaderSize + n :
          /\ Reaches(Message(n), k)
          /\ writer' = IF k = HeaderSize + n THEN "good" ELSE "failed"
    BY <1>5 DEF WriteToDisk
  <2>2. /\ HasRoom /\ AddEntry(Message(n))
        /\ UNCHANGED <<index_file, disk_read_pos, reader_failed, delivered>>
        /\ UNCHANGED <<alive, append_tells_end, found, starts>>
    BY <1>5 DEF WriteToDisk, process
  <2>3. Len(records') <= MaxMessages
    BY <1>4, <2>1, <2>2
  <2>4. /\ disk_index' \in Seq(Entry) /\ Len(disk_index') = Len(disk_index) + 1
        /\ Len(disk_index) \in Nat /\ Len(appended) \in Nat
        /\ current_disk_size' \in 0 .. SizeRange - 1
        /\ appended' \in Seq(Nat) /\ Len(appended') = Len(appended) + 1
    BY <2>2, Added
  <2>5. /\ disk_read_pos' \in 0 .. Len(disk_index') /\ found' \in Nat
        /\ Len(disk_index') = found' + Len(appended')
    BY <1>3, <2>2, <2>4
  <2>6. writer' \in {"closed", "good", "failed"}
    BY <2>1
  <2>7. alive
    BY <2>2 DEF HasRoom
  <2>8. TypeOK'
    BY <1>1, <1>2, <1>3, <2>2, <2>3, <2>4, <2>5, <2>6 DEF TypeOK
  <2>. QED
    BY <2>2, <2>7, <2>8 DEF DownIsBlank
<1>6. ASSUME Pending, Consume(ReadHead) \/ Consume(ReaderReads) \/ UNCHANGED <<disk_read_pos, delivered>>,
             current_disk_size' = current_disk_size
               \/ current_disk_size' = (current_disk_size - HeadEntry.size) % SizeRange,
             reader_failed' = reader_failed
               \/ reader_failed' = (reader_failed \/ ComesShort(HeadEntry)),
             UNCHANGED <<data_file, index_file, disk_index, writer, alive, append_tells_end,
                         found, starts, records, appended>>
      PROVE  TypeOK' /\ DownIsBlank'
  <2>1. alive /\ alive'
    BY <1>6 DEF Pending
  <2>2. current_disk_size' \in 0 .. SizeRange - 1
    <3>1. HeadEntry.size \in Nat
      BY <1>6, HeadTyped
    <3>2. current_disk_size - HeadEntry.size \in Int
      BY <1>3, <3>1
    <3>3. (current_disk_size - HeadEntry.size) % SizeRange \in 0 .. SizeRange - 1
      BY <3>2, InRange
    <3>. QED
      BY <1>3, <1>6, <3>3
  <2>3. reader_failed' \in BOOLEAN
    <3>1. (reader_failed \/ ComesShort(HeadEntry)) \in BOOLEAN
      OBVIOUS
    <3>. QED
      BY <1>2, <1>6, <3>1
  <2>4. /\ disk_read_pos' \in 0 .. Len(disk_index) /\ Len(delivered') = disk_read_pos'
        /\ delivered' \in Seq([id : Nat, data : Seq(Nat)])
    <3>1. CASE UNCHANGED <<disk_read_pos, delivered>>
      BY <1>3, <3>1
    <3>2. CASE Consume(ReadHead) \/ Consume(ReaderReads)
      <4>1. PICK m \in Messages : Consume(m)
        BY <1>6, <3>2, HeadTyped
      <4>2. disk_read_pos' \in 0 .. Len(disk_index) /\ Len(delivered') = disk_read_pos'
            /\ delivered' \in Seq(Messages)
        BY <1>6, <4>1, ConsumeTyped
      <4>. QED
        BY <4>2 DEF Messages
    <3>. QED
      BY <1>6, <3>1, <3>2
  <2>5. TypeOK'
    BY <1>1, <1>2, <1>3, <1>6, <2>2, <2>3, <2>4 DEF TypeOK
  <2>. QED
    BY <2>1, <2>5 DEF DownIsBlank
<1>7. CASE SendHead
  BY <1>6, <1>7 DEF SendHead, files, streams, process
<1>8. CASE ReadFromDisk
  BY <1>6, <1>8 DEF ReadFromDisk, files, process
<1>9. CASE LoadStep
  BY <1>6, <1>9 DEF LoadStep, files, process
<1>10. ASSUME NEW n \in DataSizes, CrashInAppend(n)
       PROVE  TypeOK' /\ DownIsBlank'
  <2>1. Len(records') <= MaxMessages /\ Blank /\ UNCHANGED index_file
    BY <1>4, <1>10 DEF CrashInAppend
  <2>. QED
    BY <1>1, <1>2, <2>1, BlankTyped
<1>11. CASE Crash
  <2>1. Blank /\ UNCHANGED <<index_file, records>>
    BY <1>11 DEF Crash, files
  <2>. QED
    BY <1>1, <1>2, <2>1, BlankTyped
<1>12. CASE Shutdown
  <2>1. Blank /\ UNCHANGED records
        /\ index_file' = IF Pending THEN [total |-> current_disk_size, entries |-> disk_index]
                         ELSE index_file
    BY <1>12 DEF Shutdown
  <2>2. index_file' \in [total : {-1} \union Nat, entries : Seq(Entry)]
    BY <1>2, <1>3, <2>1
  <2>. QED
    BY <1>1, <1>2, <2>1, <2>2, BlankTyped
<1>13. CASE Start
  <2>1. /\ starts < MaxStarts /\ alive' = TRUE /\ starts' = starts + 1 /\ ~alive
        /\ disk_index' = FoundIndex /\ found' = Len(FoundIndex)
        /\ current_disk_size' =
             (IF IndexAccepted THEN index_file.total ELSE EndOfScan(FoundIndex)) % SizeRange
        /\ UNCHANGED <<index_file, disk_read_pos, writer, reader_failed, append_tells_end,
                       records, appended, delivered>>
    BY <1>13 DEF Start, files, streams
  <2>2. /\ FoundIndex \in Seq(Entry)
        /\ (IF IndexAccepted THEN index_file.total ELSE EndOfScan(FoundIndex)) \in Int
    BY FoundTyped
  <2>3. disk_read_pos = 0 /\ appended = <<>> /\ delivered = <<>>
    BY <2>1 DEF DownIsBlank
  <2>4. /\ disk_index' \in Seq(Entry) /\ disk_read_pos' \in 0 .. Len(disk_index')
        /\ found' \in Nat /\ Len(disk_index') = found' + Len(appended')
    BY <2>1, <2>2, <2>3
  <2>5. current_disk_size' \in 0 .. SizeRange - 1
    BY <2>1, <2>2, InRange
  <2>6. starts' \in 0 .. MaxStarts /\ alive' \in BOOLEAN
    BY <1>2, <2>1, BoundsAssumption
  <2>7. TypeOK'
    BY <1>1, <1>2, <1>3, <2>1, <2>4, <2>5, <2>6 DEF TypeOK
  <2>. QED
    BY <2>1, <2>7 DEF DownIsBlank
<1>14. CASE UNCHANGED vars
  BY <1>14 DEF vars, files, index, streams, process, TypeOK, DownIsBlank
<1>. QED
  BY <1>5, <1>7, <1>8, <1>9, <1>10, <1>11, <1>12, <1>13, <1>14 DEF Next
(* What an append leaves of the earlier records, and what it adds. *)
LEMMA Extended ==
  ASSUME TypeOK, FileInv, NEW n \in DataSizes, NEW k \in 0 .. HeaderSize + n, Reaches(Message(n), k)
  PROVE  LET N == Len(records)
             r == records'[N + 1]
         IN  /\ N \in Nat /\ N + 1 \in 1 .. N + 1 /\ Len(records') = N + 1
             /\ \A j \in 1 .. N : records'[j] = records[j]
             /\ \A j \in 0 .. N : EndAt(records', j) = EndAt(records, j)
             /\ \A i \in 0 .. N : Intact(records', i) <=> Intact(records, i)
             /\ Intact(records', N + 1) <=> Sound /\ Whole(r)
             /\ Sound' <=> Sound /\ Whole(r)
             /\ Whole(r) <=> k = HeaderSize + n
             /\ r.msg = Message(n) /\ r.cells = k /\ r.at = Len(data_file)
             /\ r.told = (append_tells_end \/ writer # "closed" \/ data_file = <<>>)
             /\ Len(data_file') = Len(data_file) + k /\ Len(data_file) \in Nat
             /\ EndAt(records', N + 1) = Len(data_file) + k
<1>. DEFINE N == Len(records)
            m == Message(n)
            r == records'[N + 1]
<1>1. N \in Nat /\ Len(data_file) \in Nat /\ k \in Nat
  <2>1. HeaderSize + n \in Nat
    BY SizesAssumption DEF HeaderSize
  <2>. QED
    BY <2>1, EndTyped
<1>2. /\ m \in Messages /\ m.id = Len(records) + 1 /\ Len(m.data) > 0
      /\ k \in 0 .. Size(m) /\ Size(m) = HeaderSize + n
  BY NewMessage
<1>. HIDE DEF m
<1>3. /\ Len(records') = N + 1 /\ \A j \in 1 .. N : records'[j] = records[j]
      /\ \A j \in 0 .. N : EndAt(records', j) = EndAt(records, j)
      /\ r.msg = m /\ r.cells = k /\ r.at = Len(data_file)
      /\ r.told = (append_tells_end \/ writer # "closed" \/ data_file = <<>>)
      /\ Len(data_file') = Len(data_file) + k
  <2>1. Reaches(m, k)
    BY DEF m
  <2>. QED
    BY <1>2, <2>1, Reached
<1>4. Whole(r) <=> k = HeaderSize + n
  <2>1. Len(Serialize(m)) = Size(m)
    BY <1>2, Serialized
  <2>. HIDE DEF r
  <2>. QED
    BY <1>2, <1>3, <2>1 DEF Whole
<1>5. EndAt(records', N + 1) = Len(data_file) + k
  <2>1. N + 1 # 0
    BY <1>1
  <2>2. EndAt(records', N + 1) = r.at + r.cells
    BY <2>1 DEF EndAt
  <2>. HIDE DEF r
  <2>. QED
    BY <1>3, <2>2
<1>6. ASSUME NEW i \in 0 .. N
      PROVE  Intact(records', i) <=> Intact(records, i)
  <2>1. \A j \in 1 .. i : j \in 1 .. N
    BY <1>1
  <2>. HIDE DEF N
  <2>. QED
    BY <1>3, <2>1 DEF Intact
<1>7. Intact(records', N + 1) <=> Sound /\ Whole(r)
  <2>1. \A j : j \in 1 .. N + 1 <=> j \in 1 .. N \/ j = N + 1
    BY <1>1
  <2>2. Intact(records', N + 1) <=> Intact(records', N) /\ Whole(r)
    <3>. HIDE DEF N
    <3>. QED
      BY <2>1 DEF Intact, r
  <2>3. Intact(records', N) <=> Intact(records, N)
    <3>. HIDE DEF N
    <3>. QED
      BY <1>1, <1>6
  <2>. HIDE DEF r
  <2>. QED
    BY <2>2, <2>3 DEF Sound
<1>8. Sound' <=> Intact(records', N + 1)
  <2>1. Sound' <=> Intact(records', Len(records'))
    BY DEF Sound
  <2>. HIDE DEF N
  <2>. QED
    BY <1>3, <2>1
<1>9. N + 1 \in 1 .. N + 1
  BY <1>1
<1>. HIDE DEF r, N
<1>. QED
  BY <1>1, <1>3, <1>4, <1>5, <1>6, <1>7, <1>8, <1>9 DEF r, N, m

(* The run that appends a record points to it. *)
LEMMA PointsTo ==
  ASSUME TypeOK, FileInv, NEW n \in DataSizes, NEW k \in 0 .. HeaderSize + n,
         Reaches(Message(n), k), AddEntry(Message(n)), writer = "failed" => k = 0
  PROVE  LET r == records'[Len(records) + 1]
             e == disk_index'[Len(disk_index) + 1]
         IN  e.size = Size(r.msg) /\ (Whole(r) => Leads(e, r))
<1>. DEFINE r == records'[Len(records) + 1]
            e == disk_index'[Len(disk_index) + 1]
<1>1. e.offset = TellP /\ e.size = Size(Message(n))
  BY Added
<1>2. /\ r.msg = Message(n) /\ r.at = Len(data_file)
      /\ Whole(r) <=> k = HeaderSize + n
      /\ r.told = (append_tells_end \/ writer # "closed" \/ data_file = <<>>)
  BY Extended
<1>. HIDE DEF r, e
<1>3. ASSUME Whole(r), r.told
      PROVE  TellP = r.at
  <2>1. writer # "failed"
    <3>1. k # 0
      BY <1>2, <1>3, SizesAssumption DEF HeaderSize
    <3>. QED
      BY <3>1
  <2>2. data_file = <<>> => Len(data_file) = 0
    OBVIOUS
  <2>. QED
    BY <1>2, <1>3, <2>1, <2>2 DEF TellP
<1>4. e.size = Size(r.msg) /\ (Whole(r) => Leads(e, r))
  BY <1>1, <1>2, <1>3 DEF Leads
<1>. QED
  BY <1>4 DEF r, e

LEMMA AppendedStep ==
  ASSUME TypeOK, FileInv, DownIsBlank, AppendedRight, [Next]_vars
  PROVE  AppendedRight'
<1>0. /\ Len(disk_index) = found + Len(appended) /\ found \in Nat /\ appended \in Seq(Nat)
      /\ Len(appended) \in Nat
  BY DEF TypeOK
<1>1. ASSUME NEW n \in DataSizes, WriteToDisk(n)
      PROVE  AppendedRight'
  <2>1. PICK k \in 0 .. HeaderSize + n : Reaches(Message(n), k) /\ (writer = "failed" => k = 0)
    BY <1>1 DEF WriteToDisk
  <2>2. AddEntry(Message(n)) /\ found' = found
    BY <1>1 DEF WriteToDisk, process
  <2>. DEFINE N == Len(records)
              a == Len(appended)
  <2>3. /\ N \in Nat /\ N + 1 \in 1 .. N + 1 /\ Len(records') = N + 1
        /\ \A j \in 1 .. N : records'[j] = records[j]
    BY <2>1, Extended
  <2>4. /\ Len(appended') = a + 1 /\ appended'[a + 1] = N + 1
        /\ \A i \in 1 .. a : appended'[i] = appended[i]
        /\ \A i \in 1 .. Len(disk_index) : disk_index'[i] = disk_index[i]
    BY <2>2, Added
  <2>5. LET r == records'[N + 1]
            e == disk_index'[Len(disk_index) + 1]
        IN  e.size = Size(r.msg) /\ (Whole(r) => Leads(e, r))
    BY <2>1, <2>2, PointsTo
  <2>6. ASSUME NEW i \in 1 .. a + 1
        PROVE  /\ appended'[i] \in 1 .. N + 1
               /\ disk_index'[found + i].size = Size(records'[appended'[i]].msg)
               /\ Whole(records'[appended'[i]]) /\ records'[appended'[i]].told =>
                    disk_index'[found + i].offset = records'[appended'[i]].at
    <3>1. CASE i = a + 1
      <4>1. found + i = Len(disk_index) + 1
        BY <1>0, <3>1
      <4>2. appended'[i] = N + 1
        BY <2>4, <3>1
      <4>. HIDE DEF N, a
      <4>. QED
        BY <2>3, <2>5, <4>1, <4>2 DEF Leads
    <3>2. CASE i # a + 1
      <4>1. i \in 1 .. a /\ found + i \in 1 .. Len(disk_index)
        BY <1>0, <3>2
      <4>2. appended[i] \in 1 .. N
        BY <4>1 DEF AppendedRight
      <4>3. /\ disk_index[found + i].size = Size(records[appended[i]].msg)
            /\ Whole(records[appended[i]]) /\ records[appended[i]].told =>
                 disk_index[found + i].offset = records[appended[i]].at
        BY <4>1 DEF AppendedRight
      <4>4. /\ appended'[i] = appended[i] /\ disk_index'[found + i] = disk_index[found + i]
            /\ records'[appended[i]] = records[appended[i]]
        BY <2>3, <2>4, <4>1, <4>2
      <4>5. appended[i] \in 1 .. N + 1
        BY <2>3, <4>2
      <4>. HIDE DEF N, a
      <4>. QED
        BY <4>3, <4>4, <4>5
    <3>. QED
      BY <3>1, <3>2
  <2>. HIDE DEF N, a
  <2>. QED
    BY <2>2, <2>3, <2>4, <2>6 DEF AppendedRight
<1>2. ASSUME appended' = <<>>
      PROVE  AppendedRight'
  BY <1>2 DEF AppendedRight
<1>3. CASE Crash \/ Shutdown \/ \E n \in DataSizes : CrashInAppend(n)
  BY <1>2, <1>3 DEF Crash, Shutdown, CrashInAppend, Blank
<1>4. CASE Start
  BY <1>2, <1>4 DEF Start, DownIsBlank
<1>5. CASE SendHead \/ ReadFromDisk \/ LoadStep \/ UNCHANGED vars
  <2>1. UNCHANGED <<records, appended, found, disk_index>>
    BY <1>5 DEF SendHead, ReadFromDisk, LoadStep, vars, index, process
  <2>. QED
    BY <2>1 DEF AppendedRight
<1>. QED
  BY <1>1, <1>3, <1>4, <1>5 DEF Next

LEMMA ReadsBackFromAppended ==
  ASSUME TypeOK, FileInv, AppendedRight
  PROVE  AppendedReadsBack
<1>1. ASSUME NEW i \in DOMAIN appended, Whole(records[appended[i]]), records[appended[i]].told
      PROVE  Deserialize(ReadAt(disk_index[found + i])) = records[appended[i]].msg
  <2>. DEFINE k == appended[i]
              e == disk_index[found + i]
  <2>1. i \in 1 .. Len(appended)
    BY DEF TypeOK
  <2>2. k \in 1 .. Len(records) /\ e.size = Size(records[k].msg) /\ e.offset = records[k].at
        /\ Whole(records[k])
    BY <1>1, <2>1 DEF AppendedRight
  <2>. HIDE DEF k, e
  <2>3. Deserialize(ReadAt(e)) = records[k].msg
    BY <2>2, ReadBack
  <2>. QED
    BY <2>3 DEF k, e
<1>. QED
  BY <1>1 DEF AppendedReadsBack
-----------------------------------------------------------------------------
(* The index in memory and the index file, in front of the first damage.   *)

LEMMA IntactPrefix ==
  ASSUME TypeOK, FileInv
  PROVE  /\ \A i \in 1 .. Len(records) : Sound => Intact(records, i)
         /\ Sound => \A i \in 1 .. Len(records) : Whole(records[i])
<1>1. Len(records) \in Nat
  BY EndTyped
<1>. QED
  BY <1>1 DEF Sound, Intact

LEMMA CountedSmall ==
  ASSUME TypeOK, FileInv, disk_read_pos \in 0 .. Len(records), Counted
  PROVE  current_disk_size <= Len(data_file)
<1>1. PICK c \in 0 .. EndAt(records, disk_read_pos) :
        current_disk_size = (Len(data_file) - c) % SizeRange
  BY DEF Counted
<1>2. /\ EndAt(records, disk_read_pos) \in Nat /\ Len(data_file) \in Nat
      /\ EndAt(records, disk_read_pos) <= Len(data_file)
  BY EndTyped
<1>. DEFINE x == Len(data_file) - c
<1>3. x \in Nat /\ x <= Len(data_file)
  BY <1>1, <1>2
<1>. HIDE DEF x
<1>4. x % SizeRange <= x
  BY <1>3, RangeAssumption, RemainderSmall
<1>5. current_disk_size = x % SizeRange
  BY <1>1 DEF x
<1>6. x % SizeRange \in Int
  BY <1>3, RangeAssumption
<1>. QED
  BY <1>2, <1>3, <1>4, <1>5, <1>6

LEMMA IndexFileExtended ==
  ASSUME TypeOK, FileInv, IndexFileRight,
         NEW n \in DataSizes, NEW k \in 0 .. HeaderSize + n, Reaches(Message(n), k),
         UNCHANGED index_file
  PROVE  IndexFileRight'
<1>. DEFINE N == Len(records)
            L == Len(data_file)
            l == Len(index_file.entries)
            r == records'[N + 1]
<1>1. /\ N \in Nat /\ N + 1 \in 1 .. N + 1 /\ Len(records') = N + 1 /\ L \in Nat
      /\ \A j \in 1 .. N : records'[j] = records[j]
      /\ \A j \in 0 .. N : EndAt(records', j) = EndAt(records, j)
      /\ \A i \in 0 .. N : Intact(records', i) <=> Intact(records, i)
      /\ Intact(records', N + 1) <=> Sound /\ Whole(r)
      /\ Sound' <=> Sound /\ Whole(r)
      /\ Whole(r) <=> k = HeaderSize + n
      /\ Len(data_file') = L + k /\ EndAt(records', N + 1) = L + k
  BY Extended
<1>2. l \in Nat /\ index_file.total \in Int
  BY DEF TypeOK
<1>3. k \in Nat /\ HeaderSize + n > 0
  BY SizesAssumption DEF HeaderSize
<1>4. SUFFICES ASSUME index_file # NoIndex
               PROVE  /\ \A i \in 1 .. N + 1 :
                           Intact(records', i) =>
                             IF i <= l THEN Leads(index_file.entries[i], records'[i])
                             ELSE index_file.total < EndAt(records', i)
                      /\ Sound' => l <= N + 1 /\ index_file.total <= L + k
  <2>. HIDE DEF N, L, r
  <2>. QED
    BY <1>1 DEF IndexFileRight
<1>5. /\ \A i \in 1 .. N :
           Intact(records, i) => IF i <= l THEN Leads(index_file.entries[i], records[i])
                                 ELSE index_file.total < EndAt(records, i)
      /\ Sound => l <= N /\ index_file.total <= L
  BY <1>4 DEF IndexFileRight
<1>. HIDE DEF N, L, l, r
<1>6. ASSUME Sound'
      PROVE  l <= N + 1 /\ index_file.total <= L + k
  <2>1. l <= N /\ index_file.total <= L
    BY <1>1, <1>5, <1>6
  <2>2. N \in Nat /\ L \in Nat
    BY <1>1
  <2>. QED
    BY <1>2, <1>3, <2>1, <2>2
<1>7. ASSUME NEW i \in 1 .. N + 1, Intact(records', i)
      PROVE  IF i <= l THEN Leads(index_file.entries[i], records'[i])
             ELSE index_file.total < EndAt(records', i)
  <2>1. CASE i = N + 1
    <3>1. Sound /\ Whole(r)
      BY <1>1, <1>7, <2>1
    <3>2. l <= N /\ index_file.total <= L /\ k = HeaderSize + n
      BY <1>1, <1>5, <3>1
    <3>3. N \in Nat /\ L \in Nat /\ EndAt(records', N + 1) = L + k
      BY <1>1
    <3>4. ~(N + 1 <= l) /\ index_file.total < L + k
      BY <1>2, <1>3, <3>2, <3>3
    <3>. QED
      BY <2>1, <3>3, <3>4
  <2>2. CASE i # N + 1
    <3>1. i \in 1 .. N /\ i \in 0 .. N
      <4>1. N \in Nat
        BY <1>1
      <4>. QED
        BY <2>2, <4>1
    <3>2. records'[i] = records[i] /\ EndAt(records', i) = EndAt(records, i) /\ Intact(records, i)
      BY <1>1, <1>7, <3>1
    <3>. QED
      BY <1>5, <3>1, <3>2
  <2>. QED
    BY <2>1, <2>2
<1>. QED
  BY <1>6, <1>7

LEMMA IndexFileStep ==
  ASSUME TypeOK, FileInv, DownIsBlank, IndexInv, [Next]_vars
  PROVE  IndexFileRight'
<1>1. IndexRight /\ IndexFileRight
  BY DEF IndexInv
<1>2. ASSUME NEW n \in DataSizes, WriteToDisk(n) \/ CrashInAppend(n)
      PROVE  IndexFileRight'
  <2>1. PICK k \in 0 .. HeaderSize + n : Reaches(Message(n), k)
    BY <1>2 DEF WriteToDisk, CrashInAppend
  <2>2. UNCHANGED index_file
    BY <1>2 DEF WriteToDisk, CrashInAppend
  <2>. QED
    BY <1>1, <2>1, <2>2, IndexFileExtended
<1>3. CASE SendHead \/ ReadFromDisk \/ LoadStep \/ Crash \/ Start \/ UNCHANGED vars
  <2>1. UNCHANGED <<data_file, index_file, records>>
    BY <1>3 DEF SendHead, ReadFromDisk, LoadStep, Crash, Start, vars, files
  <2>. QED
    BY <1>1, <2>1 DEF IndexFileRight, Sound
<1>4. CASE Shutdown
  <2>1. UNCHANGED <<data_file, records>> /\ alive
        /\ index_file' = IF Pending THEN [total |-> current_disk_size, entries |-> disk_index]
                         ELSE index_file
    BY <1>4 DEF Shutdown
  <2>2. CASE ~Pending
    BY <1>1, <2>1, <2>2 DEF IndexFileRight, Sound
  <2>3. CASE Pending
    <3>1. index_file'.total = current_disk_size /\ index_file'.entries = disk_index
      BY <2>1, <2>3
    <3>2. /\ \A i \in 1 .. Len(records) :
               Intact(records, i) => i <= Len(disk_index) /\ Leads(disk_index[i], records[i])
          /\ Sound => Len(disk_index) = Len(records) /\ Counted
      BY <1>1, <2>1 DEF IndexRight
    <3>3. Len(records) \in Nat
      BY EndTyped
    <3>4. ASSUME Sound
          PROVE  Len(disk_index) <= Len(records) /\ current_disk_size <= Len(data_file)
      <4>1. Len(disk_index) = Len(records) /\ Counted
        BY <3>2, <3>4
      <4>2. disk_read_pos \in 0 .. Len(records)
        BY <4>1 DEF TypeOK
      <4>. QED
        BY <3>3, <4>1, <4>2, CountedSmall
    <3>5. /\ \A i \in 1 .. Len(records) :
               Intact(records, i) => IF i <= Len(disk_index) THEN Leads(disk_index[i], records[i])
                                     ELSE current_disk_size < EndAt(records, i)
          /\ Sound => Len(disk_index) <= Len(records) /\ current_disk_size <= Len(data_file)
      BY <3>2, <3>4
    <3>. QED
      BY <2>1, <3>1, <3>5 DEF IndexFileRight, Sound
  <2>. QED
    BY <2>2, <2>3
<1>. QED
  BY <1>2, <1>3, <1>4 DEF Next
LEMMA IndexAppend ==
  ASSUME TypeOK, FileInv, IndexRight, NEW n \in DataSizes, WriteToDisk(n)
  PROVE  IndexRight'
<1>1. PICK k \in 0 .. HeaderSize + n : Reaches(Message(n), k) /\ (writer = "failed" => k = 0)
  BY DEF WriteToDisk
<1>2. AddEntry(Message(n)) /\ disk_read_pos' = disk_read_pos /\ alive
  BY DEF WriteToDisk, HasRoom
<1>. DEFINE N == Len(records)
            L == Len(data_file)
            l == Len(disk_index)
            r == records'[N + 1]
<1>3. /\ N \in Nat /\ N + 1 \in 1 .. N + 1 /\ Len(records') = N + 1 /\ L \in Nat
      /\ \A j \in 1 .. N : records'[j] = records[j]
      /\ \A j \in 0 .. N : EndAt(records', j) = EndAt(records, j)
      /\ \A i \in 0 .. N : Intact(records', i) <=> Intact(records, i)
      /\ Intact(records', N + 1) <=> Sound /\ Whole(r)
      /\ Sound' <=> Sound /\ Whole(r)
      /\ Whole(r) <=> k = HeaderSize + n
      /\ Len(data_file') = L + k
  BY <1>1, Extended
<1>4. /\ Len(disk_index') = l + 1 /\ l \in Nat
      /\ \A i \in 1 .. l : disk_index'[i] = disk_index[i]
      /\ current_disk_size' = (current_disk_size + Size(Message(n))) % SizeRange
  BY <1>2, Added
<1>5. Whole(r) => Leads(disk_index'[l + 1], r)
  BY <1>1, <1>2, PointsTo
<1>6. /\ \A i \in 1 .. N : Intact(records, i) => i <= l /\ Leads(disk_index[i], records[i])
      /\ Sound => l = N /\ Counted
  BY <1>2 DEF IndexRight
<1>7. Size(Message(n)) = HeaderSize + n /\ HeaderSize + n \in Int
  BY NewMessage, SizesAssumption DEF HeaderSize
<1>8. disk_read_pos \in 0 .. l /\ current_disk_size \in Nat /\ SizeRange \in Nat \ {0}
  BY RangeAssumption DEF TypeOK
<1>9. \A j \in 0 .. N : EndAt(records, j) \in Nat
  BY EndTyped
<1>. HIDE DEF N, L, l, r
<1>10. ASSUME NEW i \in 1 .. N + 1, Intact(records', i)
       PROVE  i <= l + 1 /\ Leads(disk_index'[i], records'[i])
  <2>1. CASE i = N + 1
    <3>1. Sound /\ Whole(r)
      BY <1>3, <1>10, <2>1
    <3>2. l = N
      BY <1>6, <3>1
    <3>3. i = l + 1 /\ i \in Nat
      BY <2>1, <3>2
    <3>. QED
      BY <1>5, <2>1, <3>1, <3>3 DEF r
  <2>2. CASE i # N + 1
    <3>1. i \in 1 .. N /\ i \in 0 .. N
      <4>1. N \in Nat
        BY <1>3
      <4>. QED
        BY <2>2, <4>1
    <3>2. records'[i] = records[i] /\ Intact(records, i)
      BY <1>3, <1>10, <3>1
    <3>3. i <= l /\ Leads(disk_index[i], records[i])
      BY <1>6, <3>1, <3>2
    <3>4. i \in 1 .. l /\ i <= l + 1
      BY <1>4, <3>1, <3>3
    <3>5. disk_index'[i] = disk_index[i]
      BY <1>4, <3>4
    <3>. QED
      BY <3>2, <3>3, <3>4, <3>5
  <2>. QED
    BY <2>1, <2>2
<1>11. ASSUME Sound'
       PROVE  l + 1 = N + 1 /\ Counted'
  <2>1. l = N /\ Counted /\ k = HeaderSize + n
    BY <1>3, <1>6, <1>11
  <2>2. PICK c \in 0 .. EndAt(records, disk_read_pos) : current_disk_size = (L - c) % SizeRange
    BY <2>1 DEF Counted, L
  <2>3. disk_read_pos \in 0 .. N
    BY <1>8, <2>1
  <2>4. EndAt(records, disk_read_pos) \in Nat
        /\ EndAt(records', disk_read_pos) = EndAt(records, disk_read_pos)
    BY <1>3, <1>9, <2>3
  <2>5. c \in Nat /\ L \in Nat
    BY <1>3, <2>2, <2>4
  <2>6. current_disk_size' = (((L - c) % SizeRange) + (HeaderSize + n)) % SizeRange
    BY <1>4, <1>7, <2>2
  <2>7. (((L - c) % SizeRange) + (HeaderSize + n)) % SizeRange
          = ((L - c) + (HeaderSize + n)) % SizeRange
    <3>1. L - c \in Int /\ HeaderSize + n \in Int /\ SizeRange \in Nat \ {0}
      BY <1>7, <1>8, <2>5
    <3>. QED
      BY <3>1, Reduced
  <2>8. (L - c) + (HeaderSize + n) = Len(data_file') - c
    <3>1. Len(data_file') = L + (HeaderSize + n)
      BY <1>3, <2>1
    <3>. QED
      BY <1>7, <2>5, <3>1
  <2>9. current_disk_size' = (Len(data_file') - c) % SizeRange
    BY <2>6, <2>7, <2>8
  <2>10. c \in 0 .. EndAt(records', disk_read_pos')
    BY <1>2, <2>2, <2>4
  <2>11. Counted'
    BY <2>9, <2>10 DEF Counted
  <2>. QED
    BY <2>1, <2>11
<1>. QED
  BY <1>3, <1>4, <1>10, <1>11 DEF IndexRight

LEMMA IndexRead ==
  ASSUME TypeOK, FileInv, IndexRight, Pending,
         UNCHANGED <<data_file, disk_index, alive, records>>,
         \/ UNCHANGED <<disk_read_pos, current_disk_size>>
         \/ disk_read_pos' = disk_read_pos + 1 /\ UNCHANGED current_disk_size
         \/ /\ disk_read_pos' = disk_read_pos + 1
            /\ current_disk_size' = (current_disk_size - HeadEntry.size) % SizeRange
  PROVE  IndexRight'
<1>. DEFINE N == Len(records)
            L == Len(data_file)
            p == disk_read_pos
            E(j) == EndAt(records, j)
<1>1. /\ alive /\ N \in Nat /\ L \in Nat /\ SizeRange \in Nat \ {0}
      /\ p \in Nat /\ p + 1 \in 1 .. Len(disk_index) /\ HeadEntry.size \in Nat
  BY HeadTyped, EndTyped, RangeAssumption DEF Pending
<1>2. /\ \A i \in 1 .. N : Intact(records, i) =>
           i <= Len(disk_index) /\ Leads(disk_index[i], records[i])
      /\ Sound => Len(disk_index) = N /\ Counted
  BY <1>1 DEF IndexRight
<1>3. ASSUME Sound
      PROVE  Counted'
  <2>1. Len(disk_index) = N /\ Counted
    BY <1>2, <1>3
  <2>2. p + 1 \in 1 .. N /\ p \in 0 .. N /\ p + 1 \in 0 .. N /\ (p + 1) - 1 = p
    BY <1>1, <2>1
  <2>3. PICK c \in 0 .. E(p) : current_disk_size = (L - c) % SizeRange
    BY <2>1 DEF Counted
  <2>4. Intact(records, p + 1) /\ Whole(records[p + 1])
    BY <1>3, <2>2, IntactPrefix
  <2>5. HeadEntry.size = Size(records[p + 1].msg)
    BY <1>2, <2>2, <2>4 DEF Leads, HeadEntry
  <2>6. E(p + 1) = E(p) + HeadEntry.size /\ E(p) \in Nat
    BY <2>2, <2>4, <2>5, Hop
  <2>. HIDE DEF N, L, E
  <2>7. c \in Nat /\ c <= E(p) /\ HeadEntry.size \in Nat
    BY <1>1, <2>3, <2>6
  <2>. DEFINE h == HeadEntry.size
  <2>8. CASE UNCHANGED <<disk_read_pos, current_disk_size>>
    BY <2>3, <2>8 DEF Counted, E, L
  <2>9. CASE disk_read_pos' = disk_read_pos + 1 /\ UNCHANGED current_disk_size
    <3>1. c \in 0 .. E(p + 1)
      BY <2>6, <2>7
    <3>. QED
      BY <2>3, <2>9, <3>1 DEF Counted, E, L
  <2>10. CASE disk_read_pos' = disk_read_pos + 1
              /\ current_disk_size' = (current_disk_size - HeadEntry.size) % SizeRange
    <3>1. c + h \in 0 .. E(p + 1) /\ L - c \in Int /\ 0 - h \in Int
          /\ (L - c) + (0 - h) = L - (c + h)
      BY <1>1, <2>6, <2>7
    <3>2. current_disk_size \in Int
      BY DEF TypeOK
    <3>3. current_disk_size - h = ((L - c) % SizeRange) + (0 - h)
      BY <2>3, <2>7, <3>2
    <3>4. (((L - c) % SizeRange) + (0 - h)) % SizeRange = ((L - c) + (0 - h)) % SizeRange
      <4>1. L - c \in Int /\ 0 - h \in Int /\ SizeRange \in Nat \ {0}
        BY <1>1, <3>1
      <4>. HIDE DEF h
      <4>. QED
        BY <4>1, Reduced
    <3>5. current_disk_size' = (L - (c + h)) % SizeRange
      BY <2>10, <3>1, <3>3, <3>4
    <3>. HIDE DEF h
    <3>. QED
      BY <2>10, <3>1, <3>5 DEF Counted, E, L
  <2>. QED
    BY <2>8, <2>9, <2>10
<1>. HIDE DEF Counted
<1>4. Sound' <=> Sound
  BY DEF Sound
<1>. QED
  BY <1>2, <1>3, <1>4 DEF IndexRight

LEMMA IndexFound ==
  ASSUME TypeOK, FileInv, DownIsBlank, IndexFileRight, Start
  PROVE  IndexRight'
<1>. DEFINE N == Len(records)
            L == Len(data_file)
<1>1. /\ ~alive /\ disk_index' = FoundIndex /\ disk_read_pos' = disk_read_pos
      /\ UNCHANGED <<data_file, records>>
      /\ current_disk_size' =
           (IF IndexAccepted THEN index_file.total ELSE EndOfScan(FoundIndex)) % SizeRange
  BY DEF Start, files
<1>2. N \in Nat /\ L \in Nat
  BY EndTyped
<1>3. ASSUME NEW i \in 1 .. N, Intact(records, i)
      PROVE  i <= Len(FoundIndex) /\ Leads(FoundIndex[i], records[i])
  <2>1. CASE IndexAccepted
    <3>1. /\ index_file # NoIndex /\ index_file.total = L
          /\ FoundIndex = index_file.entries
      BY <2>1 DEF IndexAccepted, FoundIndex
    <3>2. IF i <= Len(index_file.entries) THEN Leads(index_file.entries[i], records[i])
          ELSE index_file.total < EndAt(records, i)
      BY <1>3, <3>1 DEF IndexFileRight
    <3>3. EndAt(records, i) \in Nat /\ EndAt(records, i) <= L
      <4>1. i \in 0 .. N
        BY <1>2
      <4>. QED
        BY <4>1, EndTyped
    <3>4. ~(L < EndAt(records, i))
      BY <1>2, <3>3
    <3>. QED
      BY <3>1, <3>2, <3>4
  <2>2. CASE ~IndexAccepted
    BY <1>3, <2>2, ScanOfIntact DEF FoundIndex
  <2>. QED
    BY <2>1, <2>2
<1>4. ASSUME Sound
      PROVE  /\ Len(FoundIndex) = N
             /\ (IF IndexAccepted THEN index_file.total ELSE EndOfScan(FoundIndex)) = L
  <2>1. CASE IndexAccepted
    <3>1. /\ index_file # NoIndex /\ index_file.total = L
          /\ FoundIndex = index_file.entries
      BY <2>1 DEF IndexAccepted, FoundIndex
    <3>2. Len(FoundIndex) <= N /\ Len(FoundIndex) \in Nat
      BY <1>4, <3>1, FoundTyped DEF IndexFileRight
    <3>3. N # 0 => N <= Len(FoundIndex)
      <4>1. ASSUME N # 0
            PROVE  N <= Len(FoundIndex)
        <5>1. N \in 1 .. N /\ Intact(records, N)
          BY <1>2, <1>4, <4>1 DEF Sound
        <5>. HIDE DEF N
        <5>. QED
          BY <1>3, <5>1
      <4>. QED
        BY <4>1
    <3>4. Len(FoundIndex) = N
      BY <1>2, <3>2, <3>3
    <3>. QED
      BY <2>1, <3>1, <3>4
  <2>2. CASE ~IndexAccepted
    BY <1>4, <2>2, ScanOfSound DEF FoundIndex
  <2>. QED
    BY <2>1, <2>2
<1>5. ASSUME Sound
      PROVE  Counted'
  <2>1. current_disk_size' = (L - 0) % SizeRange
    <3>1. current_disk_size' = L % SizeRange
      BY <1>1, <1>4, <1>5
    <3>2. L - 0 = L
      BY <1>2
    <3>. QED
      BY <3>1, <3>2
  <2>2. disk_read_pos' = 0 /\ EndAt(records', 0) = 0
    BY <1>1 DEF DownIsBlank, EndAt
  <2>3. Len(data_file') = L
    BY <1>1
  <2>4. 0 \in 0 .. EndAt(records', disk_read_pos')
    BY <2>2
  <2>. HIDE DEF L
  <2>. QED
    BY <2>1, <2>3, <2>4 DEF Counted
<1>. HIDE DEF Counted
<1>6. Sound' <=> Sound
  BY <1>1 DEF Sound
<1>. QED
  BY <1>1, <1>3, <1>4, <1>5, <1>6 DEF IndexRight

LEMMA IndexStep ==
  ASSUME TypeOK, FileInv, DownIsBlank, IndexInv, [Next]_vars
  PROVE  IndexInv'
<1>1. IndexRight /\ IndexFileRight
  BY DEF IndexInv
<1>2. SUFFICES IndexRight'
  BY IndexFileStep DEF IndexInv
<1>3. ASSUME NEW n \in DataSizes, WriteToDisk(n)
      PROVE  IndexRight'
  BY <1>1, <1>3, IndexAppend
<1>4. CASE SendHead \/ ReadFromDisk \/ LoadStep
  <2>1. /\ Pending /\ UNCHANGED <<data_file, disk_index, alive, records>>
        /\ \/ UNCHANGED <<disk_read_pos, current_disk_size>>
           \/ disk_read_pos' = disk_read_pos + 1 /\ UNCHANGED current_disk_size
           \/ /\ disk_read_pos' = disk_read_pos + 1
              /\ current_disk_size' = (current_disk_size - HeadEntry.size) % SizeRange
    BY <1>4 DEF SendHead, ReadFromDisk, LoadStep, Consume, files, process
  <2>. QED
    BY <1>1, <2>1, IndexRead
<1>5. CASE Crash \/ Shutdown \/ \E n \in DataSizes : CrashInAppend(n)
  BY <1>5 DEF Crash, Shutdown, CrashInAppend, Blank, IndexRight
<1>6. CASE Start
  BY <1>1, <1>6, IndexFound
<1>7. CASE UNCHANGED vars
  <2>1. UNCHANGED <<data_file, disk_index, disk_read_pos, current_disk_size, alive, records>>
    BY <1>7 DEF vars, files, index, process
  <2>. QED
    BY <1>1, <2>1 DEF IndexRight, Sound, Counted
<1>. QED
  BY <1>3, <1>4, <1>5, <1>6, <1>7 DEF Next
-----------------------------------------------------------------------------
(* Reading: data_reader_ fails at a damage only, and what is in front of   *)
(* the first damage is delivered as it went in.                            *)

LEMMA HeadRight ==
  ASSUME TypeOK, FileInv, IndexRight, Pending,
         \A j \in 1 .. Len(records) :
           j <= disk_read_pos + 1 => Whole(records[j]) /\ records[j].told
  PROVE  /\ disk_read_pos + 1 \in 1 .. Len(records)
         /\ Deserialize(ReadAt(HeadEntry)) = records[disk_read_pos + 1].msg
         /\ ~ComesShort(HeadEntry)
<1>. DEFINE N == Len(records)
            p == disk_read_pos + 1
<1>1. N \in Nat /\ p \in 1 .. Len(disk_index) /\ p \in Nat /\ Len(disk_index) \in Nat
  BY HeadTyped, EndTyped
<1>2. /\ \A i \in 1 .. N : Intact(records, i) =>
           i <= Len(disk_index) /\ Leads(disk_index[i], records[i])
      /\ Sound => Len(disk_index) = N
  BY DEF IndexRight, Pending
<1>3. p <= N
  <2>1. SUFFICES ASSUME ~(p <= N)
                 PROVE  FALSE
    OBVIOUS
  <2>2. \A j \in 1 .. N : j <= p
    BY <1>1, <2>1
  <2>3. Sound
    BY <2>2 DEF Sound, Intact
  <2>4. Len(disk_index) = N
    BY <1>2, <2>3
  <2>. HIDE DEF N, p
  <2>. QED
    BY <1>1, <2>1, <2>4
<1>4. p \in 1 .. N
  BY <1>1, <1>3
<1>5. Intact(records, p) /\ Whole(records[p]) /\ records[p].told
  <2>1. \A j \in 1 .. p : j \in 1 .. N /\ j <= p
    BY <1>1, <1>4
  <2>2. p <= p
    BY <1>1
  <2>. QED
    BY <1>4, <2>1, <2>2 DEF Intact
<1>6. HeadEntry.offset = records[p].at /\ HeadEntry.size = Size(records[p].msg)
  BY <1>2, <1>4, <1>5 DEF Leads, HeadEntry
<1>. HIDE DEF p
<1>7. Deserialize(ReadAt(HeadEntry)) = records[p].msg /\ ~ComesShort(HeadEntry)
  BY <1>4, <1>5, <1>6, ReadBack
<1>. QED
  BY <1>4, <1>7 DEF p

LEMMA ReaderStep ==
  ASSUME TypeOK, FileInv, DownIsBlank, IndexRight, ReaderRight, [Next]_vars
  PROVE  ReaderRight'
<1>. DEFINE Bad(r) == ~(Whole(r) /\ r.told)
<1>0. disk_read_pos \in Nat
  BY DEF TypeOK
<1>1. ASSUME NEW n \in DataSizes, WriteToDisk(n)
      PROVE  ReaderRight'
  <2>1. PICK k \in 0 .. HeaderSize + n : Reaches(Message(n), k)
    BY <1>1 DEF WriteToDisk
  <2>2. reader_failed' = reader_failed /\ disk_read_pos' = disk_read_pos
    BY <1>1 DEF WriteToDisk
  <2>3. /\ Len(records) \in Nat /\ Len(records') = Len(records) + 1
        /\ \A j \in 1 .. Len(records) : records'[j] = records[j]
    BY <2>1, Extended
  <2>4. ASSUME reader_failed
        PROVE  \E j \in 1 .. Len(records') : j <= disk_read_pos + 1 /\ Bad(records'[j])
    <3>1. PICK j \in 1 .. Len(records) : j <= disk_read_pos + 1 /\ Bad(records[j])
      BY <2>4 DEF ReaderRight
    <3>2. j \in 1 .. Len(records') /\ records'[j] = records[j]
      BY <2>3
    <3>. QED
      BY <3>1, <3>2
  <2>. QED
    BY <2>2, <2>4 DEF ReaderRight
<1>2. CASE SendHead \/ ReadFromDisk \/ LoadStep
  <2>1. /\ Pending /\ UNCHANGED records
        /\ disk_read_pos' = disk_read_pos \/ disk_read_pos' = disk_read_pos + 1
        /\ reader_failed' => reader_failed \/ ComesShort(HeadEntry)
    <3>1. CASE SendHead
      BY <3>1 DEF SendHead, Consume, streams
    <3>2. CASE ReadFromDisk
      <4>1. reader_failed' = (reader_failed \/ ComesShort(HeadEntry))
        BY <3>2 DEF ReadFromDisk
      <4>2. disk_read_pos' = disk_read_pos \/ disk_read_pos' = disk_read_pos + 1
        BY <3>2 DEF ReadFromDisk, Consume
      <4>. QED
        BY <3>2, <4>1, <4>2 DEF ReadFromDisk
    <3>3. CASE LoadStep
      <4>1. reader_failed' = (reader_failed \/ ComesShort(HeadEntry))
        BY <3>3 DEF LoadStep
      <4>. QED
        BY <3>3, <4>1 DEF LoadStep, Consume
    <3>. QED
      BY <1>2, <3>1, <3>2, <3>3
  <2>2. ASSUME reader_failed'
        PROVE  \E j \in 1 .. Len(records) : j <= disk_read_pos + 1 /\ Bad(records[j])
    <3>1. CASE reader_failed
      BY <3>1 DEF ReaderRight
    <3>2. CASE ComesShort(HeadEntry)
      BY <2>1, <3>2, HeadRight
    <3>. QED
      BY <2>1, <2>2, <3>1, <3>2
  <2>3. ASSUME reader_failed'
        PROVE  \E j \in 1 .. Len(records') : j <= disk_read_pos' + 1 /\ Bad(records'[j])
    <3>1. PICK j \in 1 .. Len(records) : j <= disk_read_pos + 1 /\ Bad(records[j])
      BY <2>2, <2>3
    <3>2. j <= disk_read_pos' + 1
      BY <1>0, <2>1, <3>1
    <3>. QED
      BY <2>1, <3>1, <3>2
  <2>. QED
    BY <2>3 DEF ReaderRight
<1>3. CASE Crash \/ Shutdown \/ \E n \in DataSizes : CrashInAppend(n)
  BY <1>3 DEF Crash, Shutdown, CrashInAppend, Blank, ReaderRight
<1>4. CASE Start
  BY <1>4 DEF Start, DownIsBlank, streams, ReaderRight
<1>5. CASE UNCHANGED vars
  BY <1>5 DEF vars, index, streams, ReaderRight
<1>. QED
  BY <1>1, <1>2, <1>3, <1>4, <1>5 DEF Next

LEMMA DeliveredStep ==
  ASSUME TypeOK, FileInv, DownIsBlank, IndexRight, ReaderRight, DeliveredRight, [Next]_vars
  PROVE  DeliveredRight'
<1>. DEFINE N == Len(records)
            p == disk_read_pos
<1>0. p \in Nat /\ p \in 0 .. Len(disk_index) /\ N \in Nat /\ Len(disk_index) \in Nat
  BY EndTyped DEF TypeOK
<1>1. ASSUME NEW n \in DataSizes, WriteToDisk(n)
      PROVE  DeliveredRight'
  <2>1. PICK k \in 0 .. HeaderSize + n : Reaches(Message(n), k)
    BY <1>1 DEF WriteToDisk
  <2>2. UNCHANGED <<disk_read_pos, delivered>> /\ alive
    BY <1>1 DEF WriteToDisk, HasRoom
  <2>3. /\ Len(records') = N + 1 /\ \A j \in 1 .. N : records'[j] = records[j]
        /\ \A i \in 0 .. N : Intact(records', i) <=> Intact(records, i)
        /\ Intact(records', N + 1) => Sound
    BY <2>1, Extended
  <2>4. Sound => Len(disk_index) = N
    BY <2>2 DEF IndexRight
  <2>5. ASSUME NEW i \in 1 .. p, i <= N + 1, Intact(records', i),
               \A j \in 1 .. i : records'[j].told
        PROVE  delivered[i] = records'[i].msg
    <3>. HIDE DEF N, p
    <3>1. i <= N
      <4>1. i = N + 1 => Len(disk_index) = N
        BY <2>3, <2>4, <2>5
      <4>2. i \in Nat /\ i <= p /\ p <= Len(disk_index)
        BY <1>0
      <4>. QED
        BY <1>0, <2>5, <4>1, <4>2
    <3>2. i \in 1 .. N /\ i \in 0 .. N /\ \A j \in 1 .. i : j \in 1 .. N
      BY <1>0, <3>1
    <3>3. Intact(records, i) /\ records'[i] = records[i] /\ \A j \in 1 .. i : records[j].told
      BY <2>3, <2>5, <3>2
    <3>. QED
      BY <3>1, <3>3 DEF DeliveredRight, N, p
  <2>. HIDE DEF N
  <2>. QED
    BY <2>2, <2>3, <2>5 DEF DeliveredRight
<1>2. ASSUME Pending, UNCHANGED <<records, alive>>, NEW m \in Messages, Consume(m),
             m = ReadHead \/ m = ReaderReads
      PROVE  DeliveredRight'
  <2>1. /\ disk_read_pos' = p + 1 /\ delivered'[p + 1] = m
        /\ \A i \in 1 .. p : delivered'[i] = delivered[i]
    BY <1>2, ConsumeTyped DEF Consume
  <2>2. ASSUME NEW i \in 1 .. p + 1, i <= N, Intact(records, i), \A j \in 1 .. i : records[j].told
        PROVE  delivered'[i] = records[i].msg
    <3>1. CASE i \in 1 .. p
      BY <2>1, <2>2, <3>1 DEF DeliveredRight
    <3>2. CASE i \notin 1 .. p
      <4>1. i = p + 1
        BY <1>0, <3>2
      <4>2. \A j \in 1 .. N : j <= p + 1 => Whole(records[j]) /\ records[j].told
        <5>1. \A j \in 1 .. N : j <= p + 1 => j \in 1 .. i
          BY <1>0, <4>1
        <5>. QED
          BY <2>2, <5>1 DEF Intact
      <4>3. Deserialize(ReadAt(HeadEntry)) = records[p + 1].msg
        BY <1>2, <4>2, HeadRight
      <4>4. ~reader_failed
        BY <4>2 DEF ReaderRight
      <4>5. m = records[p + 1].msg
        BY <1>2, <4>3, <4>4 DEF ReadHead, ReaderReads
      <4>. QED
        BY <2>1, <4>1, <4>5
    <3>. QED
      BY <3>1, <3>2
  <2>. QED
    BY <1>2, <2>1, <2>2 DEF DeliveredRight
<1>3. CASE SendHead
  BY <1>2, <1>3, HeadTyped DEF SendHead, process
<1>4. CASE LoadStep
  BY <1>2, <1>4, HeadTyped DEF LoadStep, process
<1>5. CASE ReadFromDisk
  <2>1. CASE ReaderReads = NoMessage
    <3>1. UNCHANGED <<disk_read_pos, delivered, records>>
      BY <1>5, <2>1 DEF ReadFromDisk
    <3>. QED
      BY <3>1 DEF DeliveredRight
  <2>2. CASE ReaderReads # NoMessage
    BY <1>2, <1>5, <2>2, HeadTyped DEF ReadFromDisk, process
  <2>. QED
    BY <2>1, <2>2
<1>6. ASSUME disk_read_pos' = 0
      PROVE  DeliveredRight'
  BY <1>6 DEF DeliveredRight
<1>7. CASE Crash \/ Shutdown \/ \E n \in DataSizes : CrashInAppend(n)
  BY <1>6, <1>7 DEF Crash, Shutdown, CrashInAppend, Blank
<1>8. CASE Start
  BY <1>6, <1>8 DEF Start, DownIsBlank
<1>9. CASE UNCHANGED vars
  <2>1. UNCHANGED <<disk_read_pos, delivered, records>>
    BY <1>9 DEF vars, index
  <2>. QED
    BY <2>1 DEF DeliveredRight
<1>. QED
  BY <1>1, <1>3, <1>4, <1>5, <1>7, <1>8, <1>9 DEF Next
-----------------------------------------------------------------------------
(* The invariant and what follows from it.                                 *)

LEMMA Initially ==
  ASSUME Init
  PROVE  IInv
<1>1. /\ data_file = <<>> /\ index_file = NoIndex /\ records = <<>> /\ appended = <<>>
      /\ disk_index = <<>> /\ disk_read_pos = 0 /\ current_disk_size = 0
      /\ writer = "closed" /\ reader_failed = FALSE /\ alive = FALSE
      /\ append_tells_end \in TellsEnd /\ found = 0 /\ delivered = <<>> /\ starts = 0
  BY DEF Init
<1>2. FileInv
  BY <1>1 DEF FileInv, RecordsTyped, Layout, EndAt
<1>3. TypeOK
  <2>1. index_file \in [total : {-1} \union Nat, entries : Seq(Entry)]
    BY <1>1 DEF NoIndex
  <2>2. /\ disk_index \in Seq(Entry) /\ appended \in Seq(Nat)
        /\ delivered \in Seq([id : Nat, data : Seq(Nat)]) /\ data_file \in Seq(Nat)
        /\ Len(disk_index) = 0 /\ Len(appended) = 0 /\ Len(delivered) = 0 /\ Len(records) = 0
    BY <1>1
  <2>3. 0 \in 0 .. SizeRange - 1 /\ 0 <= MaxMessages /\ 0 \in 0 .. MaxStarts
    BY RangeAssumption, BoundsAssumption
  <2>4. /\ writer \in {"closed", "good", "failed"} /\ reader_failed \in BOOLEAN
        /\ alive \in BOOLEAN /\ found \in Nat
    BY <1>1
  <2>5. /\ disk_read_pos \in 0 .. Len(disk_index) /\ Len(delivered) = disk_read_pos
        /\ Len(disk_index) = found + Len(appended)
    BY <1>1, <2>2
  <2>. QED
    BY <1>1, <2>1, <2>2, <2>3, <2>4, <2>5 DEF TypeOK
<1>4. DownIsBlank
  BY <1>1 DEF DownIsBlank
<1>5. IndexInv
  BY <1>1 DEF IndexInv, IndexRight, IndexFileRight
<1>6. ReadInv
  BY <1>1 DEF ReadInv, AppendedRight, ReaderRight, DeliveredRight
<1>. QED
  BY <1>2, <1>3, <1>4, <1>5, <1>6 DEF IInv

LEMMA InvariantStep ==
  ASSUME IInv, [Next]_vars
  PROVE  IInv'
<1>1. /\ TypeOK /\ FileInv /\ DownIsBlank /\ IndexInv /\ IndexRight
      /\ AppendedRight /\ ReaderRight /\ DeliveredRight
  BY DEF IInv, IndexInv, ReadInv
<1>2. FileInv'
  BY <1>1, FileStep
<1>3. TypeOK' /\ DownIsBlank'
  BY <1>1, TypeStep
<1>4. IndexInv'
  BY <1>1, IndexStep
<1>5. ReadInv'
  BY <1>1, AppendedStep, ReaderStep, DeliveredStep DEF ReadInv
<1>. QED
  BY <1>2, <1>3, <1>4, <1>5 DEF IInv

LEMMA Invariant == Spec => []IInv
<1>1. Init => IInv
  BY Initially
<1>2. IInv /\ [Next]_vars => IInv'
  BY InvariantStep
<1>. QED
  BY <1>1, <1>2, PTL DEF Spec

(* Types; the read position stays inside the index, which holds the found  *)
(* entries and then those appended.                                        *)
THEOREM TypeCorrect == Spec => []TypeOK
<1>1. IInv => TypeOK
  BY DEF IInv
<1>. QED
  BY <1>1, Invariant, PTL

(* rebuild_disk_index_from_data() finds every record in front of the first *)
(* torn one, where it is, and reads it back, whatever crashes and failed   *)
(* writes left in the file.                                                *)
THEOREM RebuildFindsTheIntact == Spec => []ScanFindsIntact
<1>1. IInv => ScanFindsIntact
  BY ScanIsRight DEF IInv
<1>. QED
  BY <1>1, Invariant, PTL

(* What write_to_disk() appended is read back by the run that appended it. *)
THEOREM AppendsAreReadBack == Spec => []AppendedReadsBack
<1>1. IInv => AppendedReadsBack
  BY ReadsBackFromAppended DEF IInv, ReadInv
<1>. QED
  BY <1>1, Invariant, PTL

(* Every run gets the records in front of the first damage out of the file *)
(* as they went in, however it found and however it reads them.            *)
THEOREM TheIntactIsDelivered == Spec => []IntactDelivered
<1>1. IInv => IntactDelivered
  <2>1. IInv => DOMAIN delivered = 1 .. disk_read_pos
    BY DEF IInv, TypeOK
  <2>. QED
    BY <2>1 DEF IInv, ReadInv, DeliveredRight, IntactDelivered
<1>. QED
  BY <1>1, Invariant, PTL
=============================================================================
