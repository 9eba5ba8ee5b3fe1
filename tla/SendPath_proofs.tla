---------------------------- MODULE SendPath_proofs ----------------------------
(***************************************************************************)
(* Proofs about SendPath, for every size of the ring and the disk and any  *)
(* number of messages and failures: is_sending_ is a lock, every accepted  *)
(* message is held once, and without the disk messages go out in order.    *)
(***************************************************************************)
EXTENDS SendPath, SharedLemmas, TLAPS

Holds(t) == pc[t] \in Sending

(* Written out for the two threads. *)
Lock ==
  /\ is_sending <=> (Holds("notify") \/ Holds("io") \/ writing # <<>>)
  /\ writing # <<>> => ~Holds("notify") /\ ~Holds("io")
  /\ ~(Holds("notify") /\ Holds("io"))

Shapes ==
  /\ pc \in [Threads -> Labels]
  /\ is_sending \in BOOLEAN
  /\ writing = <<>> \/ \E w : writing = <<w>>

IInv == Shapes /\ Lock

LEMMA IInvIsLock == IInv => OneSender
<1>. SUFFICES ASSUME IInv
              PROVE  OneSender
  OBVIOUS
<1>. DEFINE holders == {t \in Threads : pc[t] \in Sending}
<1>1. /\ "notify" \in holders <=> Holds("notify")
      /\ "io" \in holders <=> Holds("io")
      /\ holders \subseteq Threads
  BY DEF Threads, Holds
<1>2. holders # {} <=> Holds("notify") \/ Holds("io")
  BY <1>1 DEF Threads
<1>3. holders = Threads <=> Holds("notify") /\ Holds("io")
  BY <1>1 DEF Threads
<1>4. Len(writing) <= 1
  <2>1. Len(<<>>) <= 1 /\ \A w : Len(<<w>>) <= 1
    OBVIOUS
  <2>. QED
    BY <2>1 DEF IInv, Shapes
<1>. QED
  BY <1>2, <1>3, <1>4 DEF IInv, Lock, OneSender
-----------------------------------------------------------------------------
(* A step of one thread to a label on the same side of the lock. *)
LEMMA SameSide ==
  ASSUME IInv, NEW t \in Threads, NEW l \in Labels, Goto(t, l),
         l \in Sending <=> pc[t] \in Sending, UNCHANGED <<is_sending, writing>>
  PROVE  IInv'
<1>1. \A u \in Threads : Holds(u)' <=> Holds(u)
  BY DEF IInv, Shapes, Goto, Holds
<1>2. Shapes'
  BY DEF IInv, Shapes, Goto
<1>3. Lock'
  BY <1>1 DEF IInv, Lock, Threads
<1>. QED
  BY <1>2, <1>3 DEF IInv

(* The exchange lets a thread in only if nobody else is. *)
LEMMA ExchangeKeeps ==
  ASSUME IInv, NEW t \in Threads, Exchange(t)
  PROVE  IInv'
<1>. DEFINE l == IF is_sending THEN "idle" ELSE "check"
<1>1. pc[t] = "exchange" /\ is_sending' = TRUE /\ Goto(t, l) /\ writing' = writing
  BY DEF Exchange
<1>2. l \in Labels /\ (l \in Sending <=> ~is_sending) /\ ~Holds(t)
  BY <1>1 DEF Labels, Sending, Holds
<1>3. Shapes'
  BY <1>1, <1>2 DEF IInv, Shapes, Goto
<1>4. /\ Holds(t)' <=> ~is_sending
      /\ \A u \in Threads : u # t => (Holds(u)' <=> Holds(u))
  BY <1>1, <1>2 DEF IInv, Shapes, Goto, Holds
<1>5. Lock'
  BY <1>1, <1>2, <1>4 DEF IInv, Lock, Threads
<1>. QED
  BY <1>3, <1>5 DEF IInv

LEMMA GiveUpKeeps ==
  ASSUME IInv, NEW t \in Threads, GiveUp(t)
  PROVE  IInv'
<1>1. pc[t] = "give_up" /\ is_sending' = FALSE /\ Goto(t, "idle") /\ writing' = writing
  BY DEF GiveUp
<1>2. Holds(t)
  BY <1>1 DEF Holds, Sending
<1>3. Shapes'
  BY <1>1 DEF IInv, Shapes, Goto, Labels
<1>4. ~Holds(t)' /\ \A u \in Threads : u # t => (Holds(u)' <=> Holds(u))
  BY <1>1 DEF IInv, Shapes, Goto, Holds, Sending
<1>5. Lock'
  BY <1>1, <1>2, <1>4 DEF IInv, Lock, Threads
<1>. QED
  BY <1>3, <1>5 DEF IInv

(* The lock passes from the thread to the write it starts. *)
LEMMA StartWriteKeeps ==
  ASSUME IInv, NEW t \in Threads, StartWrite(t)
  PROVE  IInv'
<1>. DEFINE w == [message |-> front[t], live |-> is_connected]
<1>1. /\ pc[t] = "write" /\ writing' = Append(writing, w)
      /\ Goto(t, "idle") /\ is_sending' = is_sending
  BY DEF StartWrite
<1>2. Holds(t)
  BY <1>1 DEF Holds, Sending
<1>3. writing = <<>>
  BY <1>2 DEF IInv, Lock, Threads
<1>4. writing' = <<w>> /\ <<w>> # <<>>
  BY <1>1, <1>3
<1>5. Shapes'
  BY <1>1, <1>4 DEF IInv, Shapes, Goto, Labels
<1>6. ~Holds(t)' /\ \A u \in Threads : u # t => (Holds(u)' <=> Holds(u))
  BY <1>1 DEF IInv, Shapes, Goto, Holds, Sending
<1>7. Lock'
  BY <1>1, <1>2, <1>4, <1>6 DEF IInv, Lock, Threads
<1>. QED
  BY <1>5, <1>7 DEF IInv

(* The completion of a write releases the lock. *)
LEMMA WriteEndsKeeps ==
  ASSUME IInv, WriteSucceeds \/ WriteFails
  PROVE  IInv'
<1>1. /\ pc["io"] = "idle" /\ writing # <<>> /\ writing' = Tail(writing) /\ is_sending' = FALSE
      /\ \E l \in {"pop", "exchange", "idle"} : Goto("io", l)
  BY DEF WriteSucceeds, WriteFails
<1>2. writing' = <<>>
  <2>1. \A w : Tail(<<w>>) = <<>>
    OBVIOUS
  <2>. QED
    BY <1>1, <2>1 DEF IInv, Shapes
<1>3. Shapes'
  BY <1>1, <1>2 DEF IInv, Shapes, Goto, Labels, Popping, Threads
<1>4. ~Holds("io")' /\ (Holds("notify")' <=> Holds("notify"))
  BY <1>1 DEF IInv, Shapes, Goto, Holds, Sending, Threads
<1>5. Lock'
  BY <1>1, <1>2, <1>4 DEF IInv, Lock
<1>. QED
  BY <1>3, <1>5 DEF IInv

(* What try_reconnect() makes of the writes under way. *)
Aborted(s) == [i \in DOMAIN s |-> [s[i] EXCEPT !.live = FALSE]]

LEMMA AbortedWrite ==
  Aborted(<<>>) = <<>> /\ \A w : Aborted(<<w>>) = <<[w EXCEPT !.live = FALSE]>>
<1>1. Aborted(<<>>) = <<>>
  BY DEF Aborted
<1>2. \A x : [i \in 1 .. 1 |-> x] = <<x>>
  OBVIOUS
<1>3. ASSUME NEW w
      PROVE  Aborted(<<w>>) = <<[w EXCEPT !.live = FALSE]>>
  <2>. DEFINE v == <<w>>
  <2>1. DOMAIN v = 1 .. 1 /\ \A i \in 1 .. 1 : v[i] = w
    OBVIOUS
  <2>2. Aborted(v) = [i \in 1 .. 1 |-> [v[i] EXCEPT !.live = FALSE]]
    BY <2>1 DEF Aborted
  <2>. HIDE DEF v
  <2>3. [i \in 1 .. 1 |-> [v[i] EXCEPT !.live = FALSE]] = [i \in 1 .. 1 |-> [w EXCEPT !.live = FALSE]]
    BY <2>1, Zenon
  <2>. QED
    BY <1>2, <2>2, <2>3 DEF v
<1>. QED
  BY <1>1, <1>3

(* Aborting a write is not its completion: its handler still has to run. *)
LEMMA ReplaceSocketKeeps ==
  ASSUME IInv, ReplaceSocket
  PROVE  IInv'
<1>1. writing' = Aborted(writing) /\ UNCHANGED <<is_sending, pc>>
  BY DEF ReplaceSocket, Aborted
<1>4. \A w : <<w>> # <<>>
  OBVIOUS
<1>5. Shapes' /\ (writing' = <<>> <=> writing = <<>>)
  BY <1>1, <1>4, AbortedWrite DEF IInv, Shapes
<1>6. Lock'
  BY <1>1, <1>5 DEF IInv, Lock, Holds
<1>. QED
  BY <1>5, <1>6 DEF IInv
-----------------------------------------------------------------------------
LEMMA DoSendKeeps ==
  ASSUME IInv, NEW t \in Threads, DoSend(t)
  PROVE  IInv'
<1>1. CASE CheckConnected(t) \/ PeekRead(t) \/ PeekWrite(t) \/ PeekDisk(t) \/ PeekSpin(t)
  <2>1. /\ \E l \in Sending : Goto(t, l)
        /\ pc[t] \in Sending
        /\ UNCHANGED <<is_sending, writing>>
    BY <1>1 DEF CheckConnected, PeekRead, PeekWrite, PeekDisk, PeekSpin, Sending, wire
  <2>. QED
    BY <2>1, SameSide DEF Labels
<1>. QED
  BY <1>1, ExchangeKeeps, GiveUpKeeps, StartWriteKeeps DEF DoSend

LEMMA OutsideKeeps ==
  ASSUME IInv,
         Send \/ EnqueueMemory \/ EnqueueDisk \/ EnqueueRefused \/ PopFront \/ Connected
  PROVE  IInv'
<1>1. PICK t \in Threads, l \in {"enqueue", "exchange", "idle"} \union Popping :
        Goto(t, l) /\ pc[t] \notin Sending /\ UNCHANGED <<is_sending, writing>>
  <2>1. CASE Send \/ EnqueueMemory \/ EnqueueDisk \/ EnqueueRefused
    BY <2>1 DEF Send, EnqueueMemory, EnqueueDisk, EnqueueRefused, Threads, Sending, wire
  <2>2. CASE PopFront \/ Connected
    BY <2>2 DEF PopFront, Pop, PopDisk, PopSpin, PopRelease, Connected, Threads, Sending,
       Popping, wire
  <2>. QED
    BY <2>1, <2>2
<1>2. l \in Labels /\ l \notin Sending
  BY DEF Labels, Sending, Popping
<1>. QED
  BY <1>1, <1>2, SameSide

LEMMA InitHolds == Init => IInv
<1>. SUFFICES ASSUME Init
              PROVE  IInv
  OBVIOUS
<1>1. is_sending = FALSE /\ writing = <<>> /\ pc = [t \in Threads |-> "idle"]
  BY DEF Init
<1>2. ~Holds("notify") /\ ~Holds("io")
  BY <1>1 DEF Holds, Sending, Threads
<1>3. Shapes
  BY <1>1 DEF Shapes, Labels
<1>. QED
  BY <1>1, <1>2, <1>3 DEF IInv, Lock

LEMMA StepKeeps == IInv /\ [Next]_vars => IInv'
<1>. SUFFICES ASSUME IInv, [Next]_vars
              PROVE  IInv'
  OBVIOUS
<1>1. CASE UNCHANGED vars \/ StartConnect
  BY <1>1 DEF vars, wire, StartConnect, IInv, Shapes, Lock, Holds
<1>2. CASE Notify \/ Io
  BY <1>2, DoSendKeeps, OutsideKeeps, WriteEndsKeeps DEF Notify, Io, Threads
<1>. QED
  BY <1>1, <1>2, ReplaceSocketKeeps, OutsideKeeps DEF Next, Network

(* One async_write at a time: is_sending_ is held by one thread, or by the *)
(* write it started, whatever sockets and writes fail meanwhile.           *)
THEOREM SendingIsExclusive == Spec => []OneSender
<1>1. Spec => []IInv
  BY InitHolds, StepKeeps, PTL DEF Spec
<1>. QED
  BY <1>1, IInvIsLock, PTL
-----------------------------------------------------------------------------
(* Types of the variables, grouped by the steps that change them.          *)

RingTyped ==
  /\ slot \in [Slots -> {0} \union Messages] /\ ready \in [Slots -> BOOLEAN]
  /\ write_pos \in Slots /\ read_pos \in Slots

DiskTyped == disk \in Seq(Messages) /\ Len(disk) <= DiskCapacity

Writes == [message : Messages, live : BOOLEAN]

WireTyped ==
  /\ socket \in {"closed", "connecting", "connected"}
  /\ failures \in 0 .. MaxFailures
  /\ writing = <<>> \/ \E w \in Writes : writing = <<w>>

PcTyped ==
  pc \in [Threads -> Labels] /\ pc["notify"] \notin Popping /\ pc["io"] # "enqueue"

LocalTyped == read_idx \in [Threads -> Slots] /\ front \in [Threads -> {0} \union Messages]

GhostTyped ==
  /\ offered \in 0 .. MaxMessages
  /\ accepted \subseteq 1 .. offered /\ spilled \subseteq accepted
  /\ sent \in Seq(Messages)

(* A slot that is ready holds a message, and so does the local of a thread *)
(* about to write it; enqueue() is called for the latest message offered.  *)
SlotsFilled == \A i \in Slots : ready[i] => slot[i] \in Messages
FrontFilled == \A t \in Threads : pc[t] = "write" => front[t] \in Messages
Offering    == pc["notify"] = "enqueue" => offered \in Messages /\ offered \notin accepted

Typed ==
  /\ RingTyped /\ DiskTyped /\ WireTyped /\ PcTyped /\ LocalTyped /\ GhostTyped
  /\ SlotsFilled /\ FrontFilled /\ Offering

(* Where a thread goes, and that the other stays. *)
LEMMA GotoEffect ==
  ASSUME PcTyped, NEW t \in Threads, NEW l \in Labels, Goto(t, l)
  PROVE  /\ pc'[t] = l /\ \A u \in Threads : u # t => pc'[u] = pc[u]
         /\ pc' \in [Threads -> Labels]
BY DEF PcTyped, Goto

(* A step of do_send_from_queue(). *)
LEMMA DoSendTyped ==
  ASSUME Typed, IInv, NEW t \in Threads, DoSend(t)
  PROVE  Typed'
<1>1. PICK l \in Sending \union {"idle"} : Goto(t, l)
  BY DEF DoSend, Exchange, CheckConnected, PeekRead, PeekWrite, PeekDisk, PeekSpin, GiveUp,
     StartWrite, Sending
<1>2. l \in Labels /\ l \notin Popping /\ l # "enqueue"
  BY DEF Labels, Sending, Popping
<1>3. pc'[t] = l /\ (\A u \in Threads : u # t => pc'[u] = pc[u]) /\ pc' \in [Threads -> Labels]
  BY <1>1, <1>2, GotoEffect DEF Typed
<1>4. PcTyped' /\ (pc'["notify"] = "enqueue" => pc["notify"] = "enqueue")
  BY <1>2, <1>3 DEF Typed, PcTyped, Threads
<1>5. /\ UNCHANGED <<slot, ready, write_pos, read_pos, disk, socket, failures>>
      /\ UNCHANGED <<offered, accepted, spilled, sent, removed>>
  BY DEF DoSend, Exchange, CheckConnected, PeekRead, PeekWrite, PeekDisk, PeekSpin, GiveUp,
     StartWrite, ring, wire, ghost
<1>6. RingTyped' /\ DiskTyped' /\ GhostTyped' /\ SlotsFilled' /\ Offering'
  BY <1>4, <1>5 DEF Typed, RingTyped, DiskTyped, GhostTyped, SlotsFilled, Offering
<1>7. WireTyped' /\ LocalTyped' /\ FrontFilled'
  <2>1. CASE Exchange(t) \/ CheckConnected(t) \/ PeekWrite(t) \/ GiveUp(t)
    <3>1. UNCHANGED <<writing, read_idx, front>> /\ pc'[t] # "write"
      <4>1. UNCHANGED <<writing, read_idx, front>>
        BY <2>1 DEF Exchange, CheckConnected, PeekWrite, GiveUp, local, wire
      <4>2. pc'[t] # "write"
        BY <2>1 DEF Exchange, CheckConnected, PeekWrite, GiveUp, Goto, Typed, PcTyped
      <4>. QED
        BY <4>1, <4>2
    <3>. QED
      BY <1>3, <1>5, <3>1 DEF Typed, WireTyped, LocalTyped, FrontFilled
  <2>2. CASE PeekRead(t)
    <3>1. /\ UNCHANGED <<writing, front>> /\ pc'[t] # "write"
          /\ read_idx' = [read_idx EXCEPT ![t] = read_pos]
      BY <2>2 DEF PeekRead, Goto, Typed, PcTyped, wire
    <3>. QED
      BY <1>3, <1>5, <3>1 DEF Typed, WireTyped, LocalTyped, FrontFilled, RingTyped
  <2>3. CASE PeekDisk(t)
    <3>1. /\ UNCHANGED <<writing, read_idx>>
          /\ \/ pc'[t] # "write" /\ UNCHANGED front
             \/ disk # <<>> /\ front' = [front EXCEPT ![t] = Head(disk)]
      BY <2>3 DEF PeekDisk, Goto, Typed, PcTyped, wire
    <3>2. disk # <<>> => Head(disk) \in Messages
      BY DEF Typed, DiskTyped
    <3>. QED
      BY <1>3, <1>5, <3>1, <3>2 DEF Typed, WireTyped, LocalTyped, FrontFilled
  <2>4. CASE PeekSpin(t)
    <3>1. /\ UNCHANGED <<writing, read_idx>> /\ ready[read_idx[t]]
          /\ front' = [front EXCEPT ![t] = slot[read_idx[t]]]
      BY <2>4 DEF PeekSpin, wire
    <3>2. slot[read_idx[t]] \in Messages
      BY <3>1 DEF Typed, LocalTyped, SlotsFilled
    <3>. QED
      BY <1>3, <1>5, <3>1, <3>2 DEF Typed, WireTyped, LocalTyped, FrontFilled
  <2>5. CASE StartWrite(t)
    <3> DEFINE w == [message |-> front[t], live |-> is_connected]
    <3>1. /\ UNCHANGED <<front, read_idx>> /\ pc'[t] # "write" /\ pc[t] = "write"
          /\ writing' = Append(writing, w)
      BY <2>5 DEF StartWrite, Goto, Typed, PcTyped, local
    <3>2. front[t] \in Messages
      BY <3>1 DEF Typed, FrontFilled
    <3>3. is_connected \in BOOLEAN
      BY DEF is_connected
    <3>4. w \in Writes
      BY <3>2, <3>3 DEF Writes
    <3>5. writing = <<>>
      BY <3>1 DEF IInv, Lock, Holds, Sending, Threads
    <3>6. writing' = <<w>>
      BY <3>1, <3>5
    <3>7. WireTyped'
      BY <1>5, <3>4, <3>6 DEF Typed, WireTyped
    <3>. QED
      BY <1>3, <3>1, <3>7 DEF Typed, LocalTyped, FrontFilled
  <2>. QED
    BY <2>1, <2>2, <2>3, <2>4, <2>5 DEF DoSend
<1>. QED
  BY <1>4, <1>6, <1>7 DEF Typed

(* enqueue(), on the notification thread. *)
LEMMA EnqueueTyped ==
  ASSUME Typed, Send \/ EnqueueMemory \/ EnqueueDisk \/ EnqueueRefused
  PROVE  Typed'
<1>1. PICK l \in {"enqueue", "exchange", "idle"} : Goto("notify", l)
  BY DEF Send, EnqueueMemory, EnqueueDisk, EnqueueRefused
<1>2. l \in Labels /\ l \notin Popping /\ l # "write"
  BY DEF Labels, Popping
<1>3. pc'["notify"] = l /\ pc'["io"] = pc["io"] /\ pc' \in [Threads -> Labels]
  BY <1>1, <1>2, GotoEffect DEF Typed, Threads
<1>4. PcTyped'
  BY <1>2, <1>3 DEF Typed, PcTyped
<1>5. UNCHANGED <<front, read_pos, socket, writing, failures, sent>>
  BY DEF Send, EnqueueMemory, EnqueueDisk, EnqueueRefused, ring, wire, local, ghost
<1>6. WireTyped' /\ FrontFilled'
  BY <1>2, <1>3, <1>5 DEF Typed, WireTyped, FrontFilled, Threads
<1>7. CASE Send
  <2>1. /\ UNCHANGED <<slot, ready, write_pos, disk, accepted, spilled>>
        /\ offered' = offered + 1 /\ offered < MaxMessages
        /\ read_idx' = [read_idx EXCEPT !["notify"] = read_pos]
    BY <1>7 DEF Send, ring
  <2>2. offered' \in Messages /\ offered' \in 0 .. MaxMessages /\ offered' \notin 1 .. offered
        /\ 1 .. offered \subseteq 1 .. offered'
    BY <2>1, BoundsAssumption DEF Typed, GhostTyped, Messages
  <2>3. GhostTyped' /\ Offering'
    BY <1>5, <2>1, <2>2 DEF Typed, GhostTyped, Offering
  <2>4. RingTyped' /\ DiskTyped' /\ LocalTyped' /\ SlotsFilled'
    BY <1>5, <2>1 DEF Typed, RingTyped, DiskTyped, LocalTyped, SlotsFilled
  <2>. QED
    BY <1>4, <1>6, <2>3, <2>4 DEF Typed
<1>8. CASE EnqueueMemory
  <2>1. /\ pc["notify"] = "enqueue" /\ pc'["notify"] = "exchange"
        /\ slot' = [slot EXCEPT ![write_pos] = offered]
        /\ ready' = [ready EXCEPT ![write_pos] = TRUE]
        /\ write_pos' = Following(MemoryCapacity, write_pos)
        /\ accepted' = accepted \union {offered}
        /\ UNCHANGED <<disk, read_idx, offered, spilled>>
    BY <1>8 DEF EnqueueMemory, Goto, Typed, PcTyped, local, next_index, Following, Threads
  <2>2. offered \in Messages /\ offered \in 1 .. offered
    BY <2>1 DEF Typed, Offering, Messages
  <2>3. write_pos' \in Slots
    BY <2>1, FollowingValue, CapacityAssumption DEF Typed, RingTyped, Slots
  <2>4. RingTyped' /\ SlotsFilled'
    <3>1. slot' \in [Slots -> {0} \union Messages]
      BY <2>1, <2>2 DEF Typed, RingTyped
    <3>2. ready' \in [Slots -> BOOLEAN]
      BY <2>1 DEF Typed, RingTyped
    <3>3. SlotsFilled'
      BY <2>1, <2>2 DEF Typed, RingTyped, SlotsFilled
    <3>. QED
      BY <1>5, <2>3, <3>1, <3>2, <3>3 DEF Typed, RingTyped
  <2>5. GhostTyped' /\ Offering' /\ DiskTyped' /\ LocalTyped'
    BY <1>5, <2>1, <2>2 DEF Typed, GhostTyped, Offering, DiskTyped, LocalTyped
  <2>. QED
    BY <1>4, <1>6, <2>4, <2>5 DEF Typed
<1>9. CASE EnqueueDisk \/ EnqueueRefused
  <2>1. /\ pc["notify"] = "enqueue" /\ pc'["notify"] # "enqueue"
        /\ UNCHANGED <<slot, ready, write_pos, read_idx, offered>>
        /\ \/ UNCHANGED <<disk, accepted, spilled>>
           \/ /\ disk' = Append(disk, offered) /\ Len(disk) < DiskCapacity
              /\ spilled' = spilled \union {offered} /\ accepted' = accepted \union {offered}
    BY <1>9 DEF EnqueueDisk, EnqueueRefused, Goto, Typed, PcTyped, local, ring, ghost, Threads
  <2>2. offered \in Messages /\ offered \in 1 .. offered
    BY <2>1 DEF Typed, Offering, Messages
  <2>3. GhostTyped' /\ Offering' /\ RingTyped' /\ LocalTyped' /\ SlotsFilled'
    BY <1>5, <2>1, <2>2 DEF Typed, GhostTyped, Offering, RingTyped, LocalTyped, SlotsFilled
  <2>4. DiskTyped'
    BY <2>1, <2>2, BoundsAssumption DEF Typed, DiskTyped
  <2>. QED
    BY <1>4, <1>6, <2>3, <2>4 DEF Typed
<1>. QED
  BY <1>7, <1>8, <1>9

(* pop_front(), the completion handlers and the connection, on the         *)
(* io_context thread.                                                      *)
LEMMA IoTyped ==
  ASSUME Typed, PopFront \/ WriteSucceeds \/ WriteFails \/ Network
  PROVE  Typed'
<1>1. /\ UNCHANGED <<slot, write_pos, front, offered, accepted, spilled>>
      /\ \/ UNCHANGED pc
         \/ \E l \in {"idle", "exchange"} \union Popping : Goto("io", l)
  BY DEF PopFront, Pop, PopDisk, PopSpin, PopRelease, WriteSucceeds, WriteFails, Network,
     ReplaceSocket, StartConnect, Connected, ring, wire, local, ghost, Popping
<1>2. /\ PcTyped'
      /\ pc'["notify"] = pc["notify"]
      /\ pc'["io"] = pc["io"] \/ pc'["io"] \in {"idle", "exchange"} \union Popping
  <2>1. ASSUME NEW l \in {"idle", "exchange"} \union Popping, Goto("io", l)
        PROVE  /\ pc'["io"] = l /\ pc'["notify"] = pc["notify"] /\ pc' \in [Threads -> Labels]
               /\ l # "enqueue"
    BY <2>1, GotoEffect DEF Typed, Labels, Threads, Popping
  <2>. QED
    BY <1>1, <2>1 DEF Typed, PcTyped
<1>3. FrontFilled' /\ Offering'
  BY <1>1, <1>2 DEF Typed, FrontFilled, Offering, Threads, Popping
<1>4. CASE PopFront
  <2>1. /\ UNCHANGED <<socket, writing, failures, sent>>
        /\ disk' = disk \/ (disk # <<>> /\ disk' = Tail(disk))
        /\ ready' \in [Slots -> BOOLEAN] /\ \A i \in Slots : ready'[i] => ready[i]
        /\ read_pos' = read_pos \/ read_pos' = Following(MemoryCapacity, read_idx["io"])
        /\ read_idx' = read_idx \/ read_idx' = [read_idx EXCEPT !["io"] = read_pos]
    <3>1. CASE Pop
      BY <3>1 DEF Pop, ring, wire, ghost, Typed, RingTyped
    <3>2. CASE PopDisk
      BY <3>2 DEF PopDisk, ring, wire, local, Typed, RingTyped
    <3>3. CASE PopSpin
      BY <3>3 DEF PopSpin, wire, local, ghost, Typed, RingTyped
    <3>4. CASE PopRelease
      BY <3>4 DEF PopRelease, wire, local, next_index, Following, Typed, RingTyped
    <3>. QED
      BY <1>4, <3>1, <3>2, <3>3, <3>4 DEF PopFront
  <2>2. LocalTyped' /\ WireTyped' /\ GhostTyped'
    BY <1>1, <2>1 DEF Typed, LocalTyped, RingTyped, WireTyped, GhostTyped
  <2>3. DiskTyped'
    <3>1. CASE disk # <<>>
      <4>1. /\ Tail(disk) \in Seq(Messages) /\ Len(Tail(disk)) = Len(disk) - 1
            /\ Len(disk) \in Nat /\ Len(disk) <= DiskCapacity /\ disk \in Seq(Messages)
        BY <3>1 DEF Typed, DiskTyped
      <4>2. Len(Tail(disk)) <= DiskCapacity
        BY <4>1, BoundsAssumption
      <4>. QED
        BY <2>1, <4>1, <4>2 DEF DiskTyped
    <3>2. CASE disk = <<>>
      BY <2>1, <3>2 DEF Typed, DiskTyped
    <3>. QED
      BY <3>1, <3>2
  <2>4. RingTyped' /\ SlotsFilled'
    <3>1. read_idx["io"] \in Slots /\ Following(MemoryCapacity, read_idx["io"]) \in Slots
      BY FollowingValue, CapacityAssumption DEF Typed, LocalTyped, Slots, Threads
    <3>. QED
      BY <1>1, <2>1, <3>1 DEF Typed, RingTyped, SlotsFilled
  <2>. QED
    BY <1>2, <1>3, <2>2, <2>3, <2>4 DEF Typed
<1>5. CASE WriteSucceeds \/ WriteFails \/ Network
  <2>1. /\ UNCHANGED <<ready, read_pos, disk, read_idx>>
        /\ \/ WriteSucceeds \/ sent' = sent
    BY <1>5 DEF WriteSucceeds, WriteFails, Network, ReplaceSocket, StartConnect, Connected,
       ring, local, ghost
  <2>2. \A w : Tail(<<w>>) = <<>> /\ Head(<<w>>) = w
    OBVIOUS
  <2>3. RingTyped' /\ SlotsFilled' /\ DiskTyped' /\ LocalTyped'
    BY <1>1, <2>1 DEF Typed, RingTyped, SlotsFilled, DiskTyped, LocalTyped
  <2>4. GhostTyped'
    <3>1. CASE WriteSucceeds
      <4>1. sent' = Append(sent, Head(writing).message) /\ writing # <<>>
        BY <3>1 DEF WriteSucceeds
      <4>2. Head(writing).message \in Messages
        BY <2>2, <4>1 DEF Typed, WireTyped, Writes
      <4>. QED
        BY <1>1, <4>1, <4>2 DEF Typed, GhostTyped
    <3>2. CASE sent' = sent
      BY <1>1, <3>2 DEF Typed, GhostTyped
    <3>. QED
      BY <2>1, <3>1, <3>2
  <2>5. WireTyped'
    <3>1. socket' \in {"closed", "connecting", "connected"}
      BY <1>5 DEF Typed, WireTyped, WriteSucceeds, WriteFails, Network, ReplaceSocket,
         StartConnect, Connected
    <3>2. failures' \in 0 .. MaxFailures
      <4>1. failures' = failures \/ (failures' = failures + 1 /\ failures < MaxFailures)
        <5>1. CASE WriteFails
          <6>1. (Head(writing).live => failures' = failures + 1 /\ failures < MaxFailures)
                /\ (~Head(writing).live => failures' = failures)
            BY <5>1 DEF WriteFails
          <6>. QED
            BY <6>1
        <5>2. CASE WriteSucceeds \/ Network
          BY <5>2 DEF WriteSucceeds, Network, ReplaceSocket, StartConnect, Connected
        <5>. QED
          BY <1>5, <5>1, <5>2
      <4>. QED
        BY <4>1, BoundsAssumption DEF Typed, WireTyped
    <3>3. writing' = <<>> \/ \E w \in Writes : writing' = <<w>>
      <4>1. CASE WriteSucceeds \/ WriteFails
        BY <2>2, <4>1 DEF Typed, WireTyped, WriteSucceeds, WriteFails
      <4>2. CASE ReplaceSocket
        <5>1. writing' = Aborted(writing)
          BY <4>2 DEF ReplaceSocket, Aborted
        <5>2. \A w \in Writes : [w EXCEPT !.live = FALSE] \in Writes
          BY DEF Writes
        <5>. QED
          BY <5>1, <5>2, AbortedWrite DEF Typed, WireTyped
      <4>3. CASE StartConnect \/ Connected
        BY <4>3 DEF Typed, WireTyped, StartConnect, Connected
      <4>. QED
        BY <1>5, <4>1, <4>2, <4>3 DEF Network
    <3>. QED
      BY <3>1, <3>2, <3>3 DEF WireTyped
  <2>. QED
    BY <1>2, <1>3, <2>3, <2>4, <2>5 DEF Typed
<1>. QED
  BY <1>4, <1>5

LEMMA InitTyped == Init => Typed
<1>. SUFFICES ASSUME Init
              PROVE  Typed
  OBVIOUS
<1>1. 0 \in Slots
  BY CapacityAssumption DEF Slots
<1>2. RingTyped /\ SlotsFilled
  <2>1. slot \in [Slots -> {0} \union Messages] /\ ready \in [Slots -> BOOLEAN]
    BY DEF Init
  <2>2. \A i \in Slots : ready[i] = FALSE
    BY DEF Init
  <2>. QED
    BY <1>1, <2>1, <2>2 DEF Init, RingTyped, SlotsFilled
<1>3. PcTyped /\ FrontFilled /\ Offering
  BY DEF Init, PcTyped, FrontFilled, Offering, Labels, Popping, Threads
<1>4. LocalTyped
  BY <1>1 DEF Init, LocalTyped
<1>5. DiskTyped /\ WireTyped /\ GhostTyped
  BY BoundsAssumption DEF Init, DiskTyped, WireTyped, GhostTyped
<1>. QED
  BY <1>2, <1>3, <1>4, <1>5 DEF Typed

LEMMA StepTyped == IInv /\ Typed /\ [Next]_vars => Typed'
<1>. SUFFICES ASSUME IInv, Typed, [Next]_vars
              PROVE  Typed'
  OBVIOUS
<1>1. CASE UNCHANGED vars
  BY <1>1 DEF vars, ring, wire, local, ghost, Typed, RingTyped, DiskTyped, WireTyped, PcTyped,
     LocalTyped, GhostTyped, SlotsFilled, FrontFilled, Offering
<1>2. CASE DoSend("notify") \/ DoSend("io")
  BY <1>2, DoSendTyped DEF Threads
<1>. QED
  BY <1>1, <1>2, EnqueueTyped, IoTyped DEF Next, Notify, Io
-----------------------------------------------------------------------------
(* The ring as the sequence it holds.                                      *)

RingOf(s, w, r) ==
  [i \in 1 .. Distance(MemoryCapacity, w, r) |-> s[Nth(MemoryCapacity, r, i - 1)]]

LEMMA RingIsRingOf == RingTyped => RingMessages = RingOf(slot, write_pos, read_pos)
<1>. SUFFICES ASSUME RingTyped
              PROVE  RingMessages = RingOf(slot, write_pos, read_pos)
  OBVIOUS
<1>1. write_pos \in Int /\ read_pos \in Int /\ MemoryCapacity \in Int
  BY CapacityAssumption DEF RingTyped, Slots
<1>2. Used = Distance(MemoryCapacity, write_pos, read_pos)
  BY DEF Used, Distance
<1>3. \A i \in 1 .. Used : (read_pos + i - 1) % MemoryCapacity = Nth(MemoryCapacity, read_pos, i - 1)
  <2>1. \A i \in 1 .. Used : read_pos + i - 1 = read_pos + (i - 1)
    BY <1>1 DEF Used
  <2>. QED
    BY <2>1 DEF Nth
<1>. QED
  BY <1>2, <1>3 DEF RingMessages, RingOf

(* t is s with x at its end; t is s without its first element. *)
Grown(s, t, x) == /\ Len(t) = Len(s) + 1 /\ t[Len(t)] = x
                  /\ \A i \in 1 .. Len(s) : t[i] = s[i]
Shifted(s, t)  == Len(s) > 0 /\ Len(t) = Len(s) - 1 /\ \A i \in 1 .. Len(t) : t[i] = s[i + 1]

LEMMA RingOfValue ==
  ASSUME NEW s \in [Slots -> {0} \union Messages], NEW w \in Slots, NEW r \in Slots
  PROVE  /\ RingOf(s, w, r) \in Seq({0} \union Messages)
         /\ Len(RingOf(s, w, r)) = Distance(MemoryCapacity, w, r)
         /\ Distance(MemoryCapacity, w, r) \in 0 .. MemoryCapacity - 1
         /\ \A i \in 1 .. Distance(MemoryCapacity, w, r) :
              RingOf(s, w, r)[i] = s[Nth(MemoryCapacity, r, i - 1)]
<1>. DEFINE n == Distance(MemoryCapacity, w, r)
<1>1. n \in 0 .. MemoryCapacity - 1
  BY DistanceValue, CapacityAssumption DEF Slots
<1>2. ASSUME NEW i \in 1 .. n
      PROVE  s[Nth(MemoryCapacity, r, i - 1)] \in {0} \union Messages
  <2>1. i - 1 \in 0 .. MemoryCapacity - 1
    BY <1>1, CapacityAssumption
  <2>2. Nth(MemoryCapacity, r, i - 1) \in Slots
    BY <2>1, NthValue, CapacityAssumption DEF Slots
  <2>. QED
    BY <2>2
<1>3. RingOf(s, w, r) = [i \in 1 .. n |-> s[Nth(MemoryCapacity, r, i - 1)]] /\ n \in Nat
  BY <1>1, CapacityAssumption DEF RingOf
<1>. HIDE DEF n
<1>4. RingOf(s, w, r) \in Seq({0} \union Messages) /\ Len(RingOf(s, w, r)) = n
  BY <1>2, <1>3
<1>. QED
  BY <1>1, <1>3, <1>4 DEF n

(* Storing a message at the write position puts it at the end. *)
LEMMA StoreGrows ==
  ASSUME NEW s \in [Slots -> {0} \union Messages], NEW w \in Slots, NEW r \in Slots,
         NEW m \in Messages, Following(MemoryCapacity, w) # r
  PROVE  Grown(RingOf(s, w, r), RingOf([s EXCEPT ![w] = m], Following(MemoryCapacity, w), r), m)
<1>. DEFINE n == Distance(MemoryCapacity, w, r)
            x == Following(MemoryCapacity, w)
            t == [s EXCEPT ![w] = m]
<1>1. x \in Slots /\ t \in [Slots -> {0} \union Messages]
  BY FollowingValue, CapacityAssumption DEF Slots
<1>2. /\ Distance(MemoryCapacity, x, r) = n + 1 /\ n \in Nat
      /\ Nth(MemoryCapacity, r, n) = w
      /\ \A i \in 0 .. n - 1 : Nth(MemoryCapacity, r, i) \in Slots
                               /\ Nth(MemoryCapacity, r, i) # w
  BY StoreMoves, DistanceValue, CapacityAssumption DEF Slots
<1>. HIDE DEF n, x
<1>3. /\ Len(RingOf(s, w, r)) = n
      /\ \A i \in 1 .. n : RingOf(s, w, r)[i] = s[Nth(MemoryCapacity, r, i - 1)]
  BY RingOfValue DEF n
<1>4. t[w] = m /\ \A i \in Slots : i # w => t[i] = s[i]
  OBVIOUS
<1>. HIDE DEF t
<1>5. /\ Len(RingOf(t, x, r)) = n + 1
      /\ \A i \in 1 .. n + 1 : RingOf(t, x, r)[i] = t[Nth(MemoryCapacity, r, i - 1)]
  <2>1. /\ Len(RingOf(t, x, r)) = Distance(MemoryCapacity, x, r)
        /\ \A i \in 1 .. Distance(MemoryCapacity, x, r) :
             RingOf(t, x, r)[i] = t[Nth(MemoryCapacity, r, i - 1)]
    BY <1>1, RingOfValue
  <2>. QED
    BY <1>2, <2>1
<1>6. RingOf(t, x, r)[n + 1] = m
  BY <1>2, <1>4, <1>5
<1>7. ASSUME NEW i \in 1 .. n
      PROVE  RingOf(t, x, r)[i] = RingOf(s, w, r)[i]
  <2>1. i - 1 \in 0 .. n - 1 /\ i \in 1 .. n + 1
    BY <1>2
  <2>2. t[Nth(MemoryCapacity, r, i - 1)] = s[Nth(MemoryCapacity, r, i - 1)]
    BY <1>2, <1>4, <2>1
  <2>. QED
    BY <1>3, <1>5, <2>1, <2>2
<1>. QED
  BY <1>3, <1>5, <1>6, <1>7 DEF Grown, t, x

(* Moving the read position past a message drops the first. *)
LEMMA ReleaseShifts ==
  ASSUME NEW s \in [Slots -> {0} \union Messages], NEW w \in Slots, NEW r \in Slots, w # r
  PROVE  /\ Shifted(RingOf(s, w, r), RingOf(s, w, Following(MemoryCapacity, r)))
         /\ RingOf(s, w, r)[1] = s[r]
<1>. DEFINE n == Distance(MemoryCapacity, w, r)
            x == Following(MemoryCapacity, r)
<1>1. x \in Slots
  BY FollowingValue, CapacityAssumption DEF Slots
<1>2. /\ Distance(MemoryCapacity, w, x) = n - 1 /\ n \in Nat /\ n > 0
      /\ Nth(MemoryCapacity, r, 0) = r
      /\ \A i \in 0 .. n - 2 : Nth(MemoryCapacity, x, i) = Nth(MemoryCapacity, r, i + 1)
  <2>1. n \in Nat /\ n # 0
    BY DistanceValue, CapacityAssumption DEF Slots
  <2>. QED
    BY <2>1, ReleaseMoves, CapacityAssumption DEF Slots
<1>. HIDE DEF n, x
<1>3. /\ Len(RingOf(s, w, r)) = n
      /\ \A i \in 1 .. n : RingOf(s, w, r)[i] = s[Nth(MemoryCapacity, r, i - 1)]
  BY RingOfValue DEF n
<1>4. /\ Len(RingOf(s, w, x)) = n - 1
      /\ \A i \in 1 .. n - 1 : RingOf(s, w, x)[i] = s[Nth(MemoryCapacity, x, i - 1)]
  BY <1>1, <1>2, RingOfValue
<1>5. RingOf(s, w, r)[1] = s[r]
  <2>1. RingOf(s, w, r)[1] = s[Nth(MemoryCapacity, r, 1 - 1)] /\ 1 - 1 = 0
    BY <1>2, <1>3
  <2>. QED
    BY <1>2, <2>1
<1>6. ASSUME NEW i \in 1 .. n - 1
      PROVE  RingOf(s, w, x)[i] = RingOf(s, w, r)[i + 1]
  <2>1. i - 1 \in 0 .. n - 2 /\ i + 1 \in 1 .. n /\ (i - 1) + 1 = i /\ (i + 1) - 1 = i
    BY <1>2
  <2>2. Nth(MemoryCapacity, x, i - 1) = Nth(MemoryCapacity, r, i)
    BY <1>2, <2>1
  <2>. QED
    BY <1>3, <1>4, <2>1, <2>2
<1>. QED
  BY <1>2, <1>3, <1>4, <1>5, <1>6 DEF Shifted, x
-----------------------------------------------------------------------------
(* Sequences whose entries are all different.                              *)

Entries(s)  == {s[i] : i \in 1 .. Len(s)}
Distinct(s) == \A i, j \in 1 .. Len(s) : i # j => s[i] # s[j]

LEMMA GrownEntries ==
  ASSUME NEW S, NEW T, NEW s \in Seq(S), NEW t \in Seq(T), NEW x, Grown(s, t, x)
  PROVE  /\ Entries(t) = Entries(s) \union {x}
         /\ Distinct(s) /\ x \notin Entries(s) => Distinct(t)
<1>. DEFINE n == Len(s)
<1>1. n \in Nat /\ Len(t) = n + 1 /\ t[n + 1] = x /\ \A i \in 1 .. n : t[i] = s[i]
  BY DEF Grown
<1>2. 1 .. Len(t) = (1 .. n) \union {n + 1}
  BY <1>1
<1>3. Entries(t) = Entries(s) \union {x}
  BY <1>1, <1>2 DEF Entries
<1>4. ASSUME Distinct(s), x \notin Entries(s)
      PROVE  Distinct(t)
  BY <1>1, <1>2, <1>4 DEF Entries, Distinct
<1>. QED
  BY <1>3, <1>4

LEMMA ShiftedEntries ==
  ASSUME NEW S, NEW T, NEW s \in Seq(S), NEW t \in Seq(T), Shifted(s, t)
  PROVE  /\ Entries(s) = Entries(t) \union {s[1]}
         /\ Distinct(s) => Distinct(t) /\ s[1] \notin Entries(t)
<1>. DEFINE n == Len(s)
<1>1. n \in Nat /\ n > 0 /\ Len(t) = n - 1 /\ \A i \in 1 .. n - 1 : t[i] = s[i + 1]
  BY DEF Shifted
<1>2. \A i \in 1 .. n : i = 1 \/ (i - 1 \in 1 .. n - 1 /\ t[i - 1] = s[i])
  BY <1>1
<1>3. \A i \in 1 .. n - 1 : i + 1 \in 1 .. n /\ i + 1 # 1
  BY <1>1
<1>4. Entries(s) \subseteq Entries(t) \union {s[1]}
  <2>1. ASSUME NEW i \in 1 .. n
        PROVE  s[i] \in Entries(t) \union {s[1]}
    <3>1. i = 1 \/ (i - 1 \in 1 .. Len(t) /\ t[i - 1] = s[i])
      BY <1>1, <1>2
    <3>. QED
      BY <3>1 DEF Entries
  <2>. QED
    BY <2>1 DEF Entries
<1>5. Entries(t) \union {s[1]} \subseteq Entries(s)
  BY <1>1, <1>3 DEF Entries
<1>6. ASSUME Distinct(s)
      PROVE  Distinct(t) /\ s[1] \notin Entries(t)
  BY <1>1, <1>3, <1>6 DEF Entries, Distinct
<1>. QED
  BY <1>4, <1>5, <1>6

LEMMA AppendGrows ==
  ASSUME NEW S, NEW s \in Seq(S), NEW x \in S
  PROVE  Append(s, x) \in Seq(S) /\ Grown(s, Append(s, x), x)
BY DEF Grown

LEMMA TailShifts ==
  ASSUME NEW S, NEW s \in Seq(S), s # <<>>
  PROVE  Tail(s) \in Seq(S) /\ Shifted(s, Tail(s)) /\ Head(s) = s[1]
BY DEF Shifted
-----------------------------------------------------------------------------
(* The positions the threads loaded, against the positions now.            *)

(* enqueue() loaded read_pos before it tests for a full ring: since then   *)
(* the other thread may have freed slots, never taken one.                 *)
LoadedByEnqueue ==
  pc["notify"] = "enqueue" =>
    Distance(MemoryCapacity, write_pos, read_pos)
      <= Distance(MemoryCapacity, write_pos, read_idx["notify"])

(* Only the io_context thread moves read_pos: what it loaded is current.   *)
LoadedByPop ==
  /\ pc["io"] \in {"pop_spin", "pop_release"} => read_idx["io"] = read_pos /\ read_pos # write_pos
  /\ pc["io"] = "pop_release" => ~ready[read_pos]

(* peek() on the notification thread may hold a slot that was released, but *)
(* then the slot is not ready: the thread waits and never copies it.       *)
LoadedByPeek ==
  /\ pc["io"] \in {"peek_write", "peek_spin"} => read_idx["io"] = read_pos
  /\ pc["notify"] \in {"peek_write", "peek_spin"} =>
       read_idx["notify"] = read_pos \/ ~ready[read_idx["notify"]]
  /\ pc["io"] = "peek_spin" => read_idx["io"] # write_pos
  /\ pc["notify"] = "peek_spin" => read_idx["notify"] # write_pos

Positions == LoadedByEnqueue /\ LoadedByPop /\ LoadedByPeek

(* The slot peek() copies is the front of the ring. *)
LEMMA PeekIsFront ==
  ASSUME Positions, NEW t \in Threads, PeekSpin(t)
  PROVE  read_idx[t] = read_pos /\ read_pos # write_pos
BY DEF Positions, LoadedByPeek, PeekSpin, Threads

LEMMA SlotDistance ==
  ASSUME NEW w \in Slots, NEW r \in Slots
  PROVE  /\ Distance(MemoryCapacity, w, r) \in 0 .. MemoryCapacity - 1
         /\ Following(MemoryCapacity, w) = r
              <=> Distance(MemoryCapacity, w, r) = MemoryCapacity - 1
BY DistanceValue, CapacityAssumption DEF Slots

(* The store goes into a free slot. *)
LEMMA StoreHasRoom ==
  ASSUME Typed, Positions, EnqueueMemory
  PROVE  Following(MemoryCapacity, write_pos) # read_pos
<1>. DEFINE loaded == Distance(MemoryCapacity, write_pos, read_idx["notify"])
            now    == Distance(MemoryCapacity, write_pos, read_pos)
<1>1. write_pos \in Slots /\ read_pos \in Slots /\ read_idx["notify"] \in Slots
  BY DEF Typed, RingTyped, LocalTyped, Threads
<1>2. Following(MemoryCapacity, write_pos) # read_idx["notify"]
  BY DEF EnqueueMemory, LooksFull, next_index, Following
<1>3. loaded \in 0 .. MemoryCapacity - 1 /\ loaded # MemoryCapacity - 1
  BY <1>1, <1>2, SlotDistance
<1>4. now \in 0 .. MemoryCapacity - 1 /\ now <= loaded
  BY <1>1, SlotDistance DEF Positions, LoadedByEnqueue, EnqueueMemory
<1>5. now # MemoryCapacity - 1
  BY <1>3, <1>4, CapacityAssumption
<1>. QED
  BY <1>1, <1>5, SlotDistance

LEMMA DoSendPositions ==
  ASSUME Typed, Positions, NEW t \in Threads, DoSend(t)
  PROVE  Positions'
<1>1. UNCHANGED <<slot, ready, write_pos, read_pos>>
  BY DEF DoSend, Exchange, CheckConnected, PeekRead, PeekWrite, PeekDisk, PeekSpin, GiveUp,
     StartWrite, ring
<1>2. PICK l \in Sending \union {"idle"} : Goto(t, l)
  BY DEF DoSend, Exchange, CheckConnected, PeekRead, PeekWrite, PeekDisk, PeekSpin, GiveUp,
     StartWrite, Sending
<1>3. pc'[t] = l /\ (\A u \in Threads : u # t => pc'[u] = pc[u])
  BY <1>2, GotoEffect DEF Typed, Labels
<1>4. CASE PeekRead(t)
  <2>1. read_idx' = [read_idx EXCEPT ![t] = read_pos] /\ pc'[t] = "peek_write"
    BY <1>4 DEF PeekRead, Goto, Typed, PcTyped
  <2>2. read_idx'[t] = read_pos /\ \A u \in Threads : u # t => read_idx'[u] = read_idx[u]
    BY <2>1 DEF Typed, LocalTyped
  <2>. QED
    BY <1>1, <1>3, <2>1, <2>2 DEF Positions, LoadedByEnqueue, LoadedByPop, LoadedByPeek, Threads
<1>5. CASE PeekWrite(t)
  <2>1. /\ read_idx' = read_idx /\ pc[t] = "peek_write"
        /\ pc'[t] = "peek_disk" \/ (pc'[t] = "peek_spin" /\ read_idx[t] # write_pos)
    BY <1>5 DEF PeekWrite, Goto, Typed, PcTyped, local
  <2>. QED
    BY <1>1, <1>3, <2>1 DEF Positions, LoadedByEnqueue, LoadedByPop, LoadedByPeek, Threads
<1>6. CASE ~PeekRead(t) /\ ~PeekWrite(t)
  <2>1. read_idx' = read_idx
    BY <1>6 DEF DoSend, Exchange, CheckConnected, PeekDisk, PeekSpin, GiveUp, StartWrite, local
  <2>2. pc'[t] \notin {"peek_write", "peek_spin", "enqueue"} \union Popping
    BY <1>6 DEF DoSend, Exchange, CheckConnected, PeekDisk, PeekSpin, GiveUp, StartWrite, Goto,
       Typed, PcTyped, Popping
  <2>. QED
    BY <1>1, <1>3, <2>1, <2>2 DEF Positions, LoadedByEnqueue, LoadedByPop, LoadedByPeek, Threads,
       Popping
<1>. QED
  BY <1>4, <1>5, <1>6

LEMMA EnqueuePositions ==
  ASSUME Typed, Positions, Send \/ EnqueueMemory \/ EnqueueDisk \/ EnqueueRefused
  PROVE  Positions'
<1>1. read_pos' = read_pos /\ \E l \in {"enqueue", "exchange", "idle"} : Goto("notify", l)
  BY DEF Send, EnqueueMemory, EnqueueDisk, EnqueueRefused, ring
<1>2. pc'["io"] = pc["io"] /\ pc'["notify"] \notin {"peek_write", "peek_spin"}
  BY <1>1, GotoEffect DEF Typed, Threads, Labels
<1>3. CASE Send
  <2>1. /\ UNCHANGED <<ready, write_pos>> /\ read_idx' = [read_idx EXCEPT !["notify"] = read_pos]
    BY <1>3 DEF Send, ring
  <2>2. read_idx'["notify"] = read_pos /\ read_idx'["io"] = read_idx["io"]
    BY <2>1 DEF Typed, LocalTyped, Threads
  <2>3. Distance(MemoryCapacity, write_pos, read_pos) \in 0 .. MemoryCapacity - 1
    BY DistanceValue, CapacityAssumption DEF Typed, RingTyped, Slots
  <2>4. LoadedByEnqueue'
    BY <1>1, <2>1, <2>2, <2>3, CapacityAssumption DEF LoadedByEnqueue
  <2>. QED
    BY <1>1, <1>2, <2>1, <2>2, <2>4 DEF Positions, LoadedByPop, LoadedByPeek
<1>4. CASE EnqueueMemory
  <2>1. /\ ready' = [ready EXCEPT ![write_pos] = TRUE] /\ pc'["notify"] = "exchange"
        /\ write_pos' = Following(MemoryCapacity, write_pos) /\ read_idx' = read_idx
    BY <1>4 DEF EnqueueMemory, Goto, Typed, PcTyped, local, next_index, Following, Threads
  <2>2. write_pos' # read_pos
    BY <1>4, <2>1, StoreHasRoom
  <2>3. read_pos # write_pos => ready'[read_pos] = ready[read_pos]
    BY <2>1 DEF Typed, RingTyped
  <2>4. LoadedByPop' /\ LoadedByPeek'
    BY <1>1, <1>2, <2>1, <2>2, <2>3 DEF Positions, LoadedByPop, LoadedByPeek
  <2>. QED
    BY <2>1, <2>4 DEF Positions, LoadedByEnqueue
<1>5. CASE EnqueueDisk \/ EnqueueRefused
  <2>1. UNCHANGED <<ready, write_pos, read_idx>> /\ pc'["notify"] # "enqueue"
    BY <1>5 DEF EnqueueDisk, EnqueueRefused, Goto, Typed, PcTyped, ring, local, Threads
  <2>. QED
    BY <1>1, <1>2, <2>1 DEF Positions, LoadedByEnqueue, LoadedByPop, LoadedByPeek
<1>. QED
  BY <1>3, <1>4, <1>5

LEMMA PopPositions ==
  ASSUME Typed, Positions, PopFront
  PROVE  Positions'
<1>1. write_pos' = write_pos /\ pc[ "io"] \in Popping
      /\ \E l \in {"exchange", "pop_disk", "pop_spin", "pop_release"} : Goto("io", l)
  BY DEF PopFront, Pop, PopDisk, PopSpin, PopRelease, ring, Popping
<1>2. pc'["notify"] = pc["notify"] /\ pc'["io"] \notin {"peek_write", "peek_spin"}
  BY <1>1, GotoEffect DEF Typed, Threads, Labels, Popping
<1>3. CASE Pop
  <2>1. /\ UNCHANGED <<ready, read_pos>> /\ read_idx' = [read_idx EXCEPT !["io"] = read_pos]
        /\ pc'["io"] = IF read_pos = write_pos THEN "pop_disk" ELSE "pop_spin"
    BY <1>3 DEF Pop, ring, Goto, Typed, PcTyped, Threads
  <2>2. read_idx'["io"] = read_pos /\ read_idx'["notify"] = read_idx["notify"]
    BY <2>1 DEF Typed, LocalTyped, Threads
  <2>. QED
    BY <1>1, <1>2, <2>1, <2>2 DEF Positions, LoadedByEnqueue, LoadedByPop, LoadedByPeek
<1>4. CASE PopDisk
  <2>1. UNCHANGED <<ready, read_pos, read_idx>> /\ pc'["io"] = "exchange"
    BY <1>4 DEF PopDisk, ring, local, Goto, Typed, PcTyped, Threads
  <2>. QED
    BY <1>1, <1>2, <2>1 DEF Positions, LoadedByEnqueue, LoadedByPop, LoadedByPeek
<1>5. CASE PopSpin
  <2>1. /\ UNCHANGED <<read_pos, read_idx>> /\ pc["io"] = "pop_spin" /\ pc'["io"] = "pop_release"
        /\ ready' = [ready EXCEPT ![read_idx["io"]] = FALSE]
    BY <1>5 DEF PopSpin, local, Goto, Typed, PcTyped, Threads
  <2>2. read_idx["io"] = read_pos /\ read_pos # write_pos
    BY <2>1 DEF Positions, LoadedByPop
  <2>3. ~ready'[read_pos] /\ \A i \in Slots : ~ready[i] => ~ready'[i]
    BY <2>1, <2>2 DEF Typed, RingTyped
  <2>4. read_idx["notify"] \in Slots
    BY DEF Typed, LocalTyped, Threads
  <2>. QED
    BY <1>1, <1>2, <2>1, <2>2, <2>3, <2>4 DEF Positions, LoadedByEnqueue, LoadedByPop, LoadedByPeek
<1>6. CASE PopRelease
  <2>1. /\ UNCHANGED <<ready, read_idx>> /\ pc["io"] = "pop_release" /\ pc'["io"] = "exchange"
        /\ read_pos' = Following(MemoryCapacity, read_idx["io"])
    BY <1>6 DEF PopRelease, local, Goto, Typed, PcTyped, Threads, next_index, Following
  <2>2. read_idx["io"] = read_pos /\ read_pos # write_pos /\ ~ready[read_pos]
    BY <2>1 DEF Positions, LoadedByPop
  <2>3. LoadedByEnqueue'
    <3>1. /\ write_pos \in 0 .. MemoryCapacity - 1 /\ read_pos \in 0 .. MemoryCapacity - 1
          /\ read_idx["notify"] \in 0 .. MemoryCapacity - 1
      BY DEF Typed, RingTyped, LocalTyped, Slots, Threads
    <3>2. Distance(MemoryCapacity, write_pos, read_pos')
            = Distance(MemoryCapacity, write_pos, read_pos) - 1
      BY <2>1, <2>2, <3>1, ReleaseMoves, CapacityAssumption
    <3>3. /\ Distance(MemoryCapacity, write_pos, read_pos) \in Int
          /\ Distance(MemoryCapacity, write_pos, read_idx["notify"]) \in Int
      <4>1. write_pos \in Slots /\ read_pos \in Slots /\ read_idx["notify"] \in Slots
        BY DEF Typed, RingTyped, LocalTyped, Threads
      <4>. QED
        BY <4>1, SlotDistance
    <3>. QED
      BY <1>1, <1>2, <2>1, <3>2, <3>3 DEF Positions, LoadedByEnqueue
  <2>4. LoadedByPop' /\ LoadedByPeek'
    BY <1>1, <1>2, <2>1, <2>2 DEF Positions, LoadedByPop, LoadedByPeek
  <2>. QED
    BY <2>3, <2>4 DEF Positions
<1>. QED
  BY <1>3, <1>4, <1>5, <1>6 DEF PopFront

LEMMA HandlerPositions ==
  ASSUME Typed, Positions, WriteSucceeds \/ WriteFails \/ Network
  PROVE  Positions'
<1>1. /\ UNCHANGED <<ready, write_pos, read_pos, read_idx>>
      /\ UNCHANGED pc \/ \E l \in {"pop", "exchange", "idle"} : Goto("io", l)
  BY DEF WriteSucceeds, WriteFails, Network, ReplaceSocket, StartConnect, Connected, ring, local
<1>2. /\ pc'["notify"] = pc["notify"]
      /\ pc'["io"] = pc["io"] \/ pc'["io"] \in {"pop", "exchange", "idle"}
  <2>1. ASSUME NEW l \in {"pop", "exchange", "idle"}, Goto("io", l)
        PROVE  pc'["io"] = l /\ pc'["notify"] = pc["notify"]
    BY <2>1, GotoEffect DEF Typed, Labels, Threads, Popping
  <2>. QED
    BY <1>1, <2>1
<1>. QED
  BY <1>1, <1>2 DEF Positions, LoadedByEnqueue, LoadedByPop, LoadedByPeek
-----------------------------------------------------------------------------
(* What a step does to the ring and to the disk, as sequences.             *)

LEMMA RingIsSeq == RingTyped => RingMessages \in Seq({0} \union Messages)
BY RingIsRingOf, RingOfValue DEF RingTyped

RingShown ==
  /\ RingMessages = RingOf(slot, write_pos, read_pos)
  /\ RingMessages \in Seq({0} \union Messages)

LEMMA RingIsShown == RingTyped => RingShown
BY RingIsRingOf, RingIsSeq DEF RingShown

LEMMA RingIsRingOfNext ==
  RingTyped' => /\ RingMessages' = RingOf(slot', write_pos', read_pos')
                /\ RingMessages' \in Seq({0} \union Messages)
<1>1. RingTyped' => RingShown'
  BY RingIsShown, PTL
<1>2. RingShown' => /\ RingMessages' = RingOf(slot', write_pos', read_pos')
                    /\ RingMessages' \in Seq({0} \union Messages)
  BY DEF RingShown
<1>. QED
  BY <1>1, <1>2

LEMMA StoreEffect ==
  ASSUME Typed, Typed', Positions, EnqueueMemory
  PROVE  Grown(RingMessages, RingMessages', offered)
<1>1. /\ slot' = [slot EXCEPT ![write_pos] = offered] /\ read_pos' = read_pos
      /\ write_pos' = Following(MemoryCapacity, write_pos)
  BY DEF EnqueueMemory, next_index, Following
<1>2. /\ slot \in [Slots -> {0} \union Messages] /\ write_pos \in Slots /\ read_pos \in Slots
      /\ offered \in Messages
  BY DEF Typed, RingTyped, Offering, EnqueueMemory
<1>3. Following(MemoryCapacity, write_pos) # read_pos
  BY StoreHasRoom
<1>4. RingMessages' = RingOf([slot EXCEPT ![write_pos] = offered],
                             Following(MemoryCapacity, write_pos), read_pos)
  BY <1>1, RingIsRingOfNext DEF Typed
<1>. QED
  BY <1>2, <1>3, <1>4, StoreGrows, RingIsRingOf DEF Typed

LEMMA ReleaseEffect ==
  ASSUME Typed, Typed', Positions, PopRelease
  PROVE  Shifted(RingMessages, RingMessages') /\ RingMessages[1] = slot[read_idx["io"]]
<1>1. /\ UNCHANGED <<slot, write_pos>> /\ read_idx["io"] = read_pos /\ read_pos # write_pos
      /\ read_pos' = Following(MemoryCapacity, read_pos)
  BY DEF PopRelease, next_index, Following, Positions, LoadedByPop
<1>2. slot \in [Slots -> {0} \union Messages] /\ write_pos \in Slots /\ read_pos \in Slots
  BY DEF Typed, RingTyped
<1>3. RingMessages' = RingOf(slot, write_pos, Following(MemoryCapacity, read_pos))
  BY <1>1, RingIsRingOfNext DEF Typed
<1>. QED
  BY <1>1, <1>2, <1>3, ReleaseShifts, RingIsRingOf DEF Typed

LEMMA RingStays ==
  ASSUME Typed, Typed', [Next]_vars, ~EnqueueMemory, ~PopRelease
  PROVE  RingMessages' = RingMessages
<1>1. UNCHANGED <<slot, write_pos, read_pos>>
  <2>1. CASE UNCHANGED vars
    BY <2>1 DEF vars, ring
  <2>2. CASE Send \/ EnqueueDisk \/ EnqueueRefused \/ Pop \/ PopDisk \/ PopSpin
    BY <2>2 DEF Send, EnqueueDisk, EnqueueRefused, Pop, PopDisk, PopSpin, ring
  <2>3. ASSUME NEW t \in Threads, DoSend(t)
        PROVE  UNCHANGED <<slot, write_pos, read_pos>>
    BY <2>3 DEF DoSend, Exchange, CheckConnected, PeekRead, PeekWrite, PeekDisk, PeekSpin,
       GiveUp, StartWrite, ring
  <2>4. CASE WriteSucceeds \/ WriteFails \/ Network
    BY <2>4 DEF WriteSucceeds, WriteFails, Network, ReplaceSocket, StartConnect, Connected, ring
  <2>. QED
    BY <2>1, <2>2, <2>3, <2>4 DEF Next, Notify, Io, PopFront, Threads
<1>. QED
  BY <1>1, RingIsRingOf, RingIsRingOfNext DEF Typed

(* The front of the ring, as a thread at its slot finds it. *)
LEMMA FrontOfRing ==
  ASSUME Typed, read_pos # write_pos
  PROVE  1 \in 1 .. Len(RingMessages) /\ RingMessages[1] = slot[read_pos]
<1>1. slot \in [Slots -> {0} \union Messages] /\ write_pos \in Slots /\ read_pos \in Slots
  BY DEF Typed, RingTyped
<1>2. RingMessages = RingOf(slot, write_pos, read_pos)
  BY RingIsRingOf DEF Typed
<1>3. Shifted(RingMessages, RingOf(slot, write_pos, Following(MemoryCapacity, read_pos)))
      /\ RingMessages[1] = slot[read_pos]
  BY <1>1, <1>2, ReleaseShifts
<1>4. RingMessages \in Seq({0} \union Messages)
  BY RingIsSeq DEF Typed
<1>. QED
  BY <1>3, <1>4 DEF Shifted
-----------------------------------------------------------------------------
(* Where the accepted messages are.                                        *)

Placed ==
  /\ Entries(RingMessages) \union Entries(disk) = accepted \ removed
  /\ Entries(RingMessages) \intersect Entries(disk) = {}
  /\ Distinct(RingMessages) /\ Distinct(disk)
  /\ removed \subseteq accepted
  /\ Entries(disk) \subseteq spilled

LEMMA InitPlaced == Init => Placed
<1>. SUFFICES ASSUME Init
              PROVE  Placed
  OBVIOUS
<1>1. write_pos = 0 /\ read_pos = 0 /\ disk = <<>> /\ accepted = {} /\ removed = {}
  BY DEF Init
<1>2. RingMessages \in Seq({0} \union Messages) /\ Len(RingMessages) = 0
  <2>1. RingTyped /\ 0 \in Slots
    BY <1>1, InitTyped DEF Typed, RingTyped
  <2>2. Distance(MemoryCapacity, 0, 0) = 0
    BY DEF Distance
  <2>. QED
    BY <1>1, <2>1, <2>2, RingIsSeq, RingIsRingOf, RingOfValue DEF RingTyped
<1>3. Entries(RingMessages) = {} /\ Distinct(RingMessages)
  BY <1>2 DEF Entries, Distinct
<1>4. Entries(disk) = {} /\ Distinct(disk)
  BY <1>1 DEF Entries, Distinct
<1>. QED
  BY <1>1, <1>3, <1>4 DEF Placed

LEMMA StepPlaced ==
  ASSUME Typed, Typed', Positions, Placed, [Next]_vars
  PROVE  Placed'
<1>1. /\ RingMessages \in Seq({0} \union Messages) /\ RingMessages' \in Seq({0} \union Messages)
      /\ disk \in Seq(Messages) /\ disk' \in Seq(Messages)
  BY RingIsSeq, RingIsRingOfNext DEF Typed, DiskTyped
<1>2. CASE EnqueueMemory
  <2>1. /\ UNCHANGED <<disk, removed, spilled>> /\ accepted' = accepted \union {offered}
        /\ offered \notin accepted
    BY <1>2 DEF EnqueueMemory, Typed, Offering
  <2>2. /\ Entries(RingMessages') = Entries(RingMessages) \union {offered}
        /\ offered \notin Entries(RingMessages) => Distinct(RingMessages')
    BY <1>1, <1>2, StoreEffect, GrownEntries DEF Placed
  <2>. QED
    BY <2>1, <2>2 DEF Placed
<1>3. CASE EnqueueDisk
  <2>1. /\ disk' = Append(disk, offered) /\ spilled' = spilled \union {offered}
        /\ accepted' = accepted \union {offered} /\ removed' = removed
        /\ offered \notin accepted /\ offered \in Messages /\ RingMessages' = RingMessages
    <3>1. ~EnqueueMemory /\ ~PopRelease
      BY <1>3 DEF EnqueueDisk, EnqueueMemory, PopRelease, Typed, PcTyped, ring
    <3>. QED
      BY <1>3, <3>1, RingStays DEF EnqueueDisk, Typed, Offering
  <2>2. Grown(disk, disk', offered)
    BY <1>1, <2>1, AppendGrows
  <2>3. /\ Entries(disk') = Entries(disk) \union {offered}
        /\ offered \notin Entries(disk) => Distinct(disk')
    BY <1>1, <2>2, GrownEntries DEF Placed
  <2>. QED
    BY <2>1, <2>3 DEF Placed
<1>4. CASE PopRelease
  <2>1. UNCHANGED <<disk, accepted, spilled>> /\ removed' = removed \union {slot[read_idx["io"]]}
    BY <1>4 DEF PopRelease
  <2>2. /\ Entries(RingMessages) = Entries(RingMessages') \union {slot[read_idx["io"]]}
        /\ Distinct(RingMessages') /\ slot[read_idx["io"]] \notin Entries(RingMessages')
    BY <1>1, <1>4, ReleaseEffect, ShiftedEntries DEF Placed
  <2>. QED
    BY <2>1, <2>2 DEF Placed
<1>5. CASE PopDisk /\ disk # <<>>
  <2>1. /\ UNCHANGED <<accepted, spilled>> /\ RingMessages' = RingMessages
        /\ disk' = Tail(disk) /\ removed' = removed \union {disk[1]}
    <3>1. ~EnqueueMemory /\ ~PopRelease
      BY <1>5 DEF PopDisk, EnqueueMemory, PopRelease, Goto, Typed, PcTyped, Threads
    <3>2. Head(disk) = disk[1]
      BY <1>1, <1>5, TailShifts
    <3>. QED
      BY <1>5, <3>1, <3>2, RingStays DEF PopDisk
  <2>2. Shifted(disk, disk')
    BY <1>1, <1>5, <2>1, TailShifts
  <2>3. /\ Entries(disk) = Entries(disk') \union {disk[1]}
        /\ Distinct(disk') /\ disk[1] \notin Entries(disk')
    BY <1>1, <2>2, ShiftedEntries DEF Placed
  <2>. QED
    BY <2>1, <2>3 DEF Placed
<1>6. CASE ~EnqueueMemory /\ ~EnqueueDisk /\ ~PopRelease /\ ~(PopDisk /\ disk # <<>>)
  <2>1. RingMessages' = RingMessages
    BY <1>6, RingStays
  <2>2. UNCHANGED <<disk, accepted, spilled, removed>>
    <3>1. CASE UNCHANGED vars
      BY <3>1 DEF vars, ghost
    <3>2. CASE Send \/ EnqueueRefused \/ Pop \/ PopDisk \/ PopSpin
      BY <1>6, <3>2 DEF Send, EnqueueRefused, Pop, PopDisk, PopSpin, ghost
    <3>3. ASSUME NEW t \in Threads, DoSend(t)
          PROVE  UNCHANGED <<disk, accepted, spilled, removed>>
      BY <3>3 DEF DoSend, Exchange, CheckConnected, PeekRead, PeekWrite, PeekDisk, PeekSpin,
         GiveUp, StartWrite, ghost
    <3>4. CASE WriteSucceeds \/ WriteFails \/ Network
      BY <3>4 DEF WriteSucceeds, WriteFails, Network, ReplaceSocket, StartConnect, Connected,
         ghost
    <3>. QED
      BY <1>6, <3>1, <3>2, <3>3, <3>4 DEF Next, Notify, Io, PopFront, Threads
  <2>. QED
    BY <2>1, <2>2 DEF Placed
<1>. QED
  BY <1>2, <1>3, <1>4, <1>5, <1>6
LEMMA Concatenated ==
  ASSUME NEW S, NEW s \in Seq(S), NEW t \in Seq(S), Distinct(s), Distinct(t),
         Entries(s) \intersect Entries(t) = {}
  PROVE  /\ s \o t \in Seq(S) /\ Distinct(s \o t)
         /\ Entries(s \o t) = Entries(s) \union Entries(t)
<1>. DEFINE m == Len(s)
            n == Len(t)
            h == s \o t
<1>1. /\ h \in Seq(S) /\ m \in Nat /\ n \in Nat /\ Len(h) = m + n
      /\ \A i \in 1 .. m + n : h[i] = IF i <= m THEN s[i] ELSE t[i - m]
  OBVIOUS
<1>. HIDE DEF h
<1>2. /\ \A i \in 1 .. m : i \in 1 .. m + n /\ h[i] = s[i]
      /\ \A j \in 1 .. n : j + m \in 1 .. m + n /\ h[j + m] = t[j]
      /\ \A i \in 1 .. m + n : i \in 1 .. m \/ (i - m \in 1 .. n /\ h[i] = t[i - m])
  BY <1>1
<1>3. \A i \in 1 .. m, j \in 1 .. n : s[i] # t[j]
  BY DEF Entries
<1>. HIDE DEF m, n
<1>4. Entries(h) = {h[i] : i \in 1 .. m + n}
  BY <1>1 DEF Entries
<1>5. Entries(s) = {s[i] : i \in 1 .. m} /\ Entries(t) = {t[j] : j \in 1 .. n}
  BY DEF Entries, m, n
<1>6. Entries(h) = Entries(s) \union Entries(t)
  <2>1. Entries(h) \subseteq Entries(s) \union Entries(t)
    <3>1. ASSUME NEW i \in 1 .. m + n
          PROVE  h[i] \in Entries(s) \union Entries(t)
      BY <1>2, <1>5
    <3>. QED
      BY <1>4, <3>1
  <2>2. Entries(s) \subseteq Entries(h)
    BY <1>2, <1>4, <1>5
  <2>3. Entries(t) \subseteq Entries(h)
    <3>1. ASSUME NEW j \in 1 .. n
          PROVE  t[j] \in Entries(h)
      BY <1>2, <1>4
    <3>. QED
      BY <1>5, <3>1
  <2>. QED
    BY <2>1, <2>2, <2>3
<1>7. ASSUME NEW i \in 1 .. m + n, NEW j \in 1 .. m + n, i # j
      PROVE  h[i] # h[j]
  <2>1. (\A a, b \in 1 .. m : a # b => s[a] # s[b]) /\ (\A a, b \in 1 .. n : a # b => t[a] # t[b])
    BY DEF Distinct, m, n
  <2>2. i - m # j - m
    BY <1>1, <1>7
  <2>. QED
    BY <1>2, <1>3, <1>7, <2>1, <2>2
<1>8. Distinct(h)
  BY <1>1, <1>7 DEF Distinct
<1>. QED
  BY <1>1, <1>6, <1>8 DEF h

LEMMA PlacedIsHeldOnce == Typed /\ Placed => HeldOnce
<1>. SUFFICES ASSUME Typed, Placed
              PROVE  HeldOnce
  OBVIOUS
<1>. DEFINE held == RingMessages \o disk
            InHeld(m) == {i \in DOMAIN held : held[i] = m}
<1>1. RingMessages \in Seq({0} \union Messages) /\ disk \in Seq({0} \union Messages)
  <2>1. disk \in Seq(Messages) /\ Messages \subseteq {0} \union Messages
    BY DEF Typed, DiskTyped
  <2>. QED
    BY <2>1, RingIsSeq DEF Typed
<1>2. /\ held \in Seq({0} \union Messages) /\ Distinct(held)
      /\ Entries(held) = accepted \ removed
  BY <1>1, Concatenated DEF Placed
<1>. HIDE DEF held
<1>3. DOMAIN held = 1 .. Len(held)
  BY <1>2
<1>4. ASSUME NEW m \in accepted, m \in removed
      PROVE  InHeld(m) = {}
  <2>1. m \notin Entries(held)
    BY <1>2, <1>4
  <2>. QED
    BY <1>3, <2>1 DEF Entries
<1>5. ASSUME NEW m \in accepted, m \notin removed
      PROVE  \E i \in DOMAIN held : InHeld(m) = {i}
  <2>1. PICK i \in 1 .. Len(held) : held[i] = m
    BY <1>2, <1>5 DEF Entries
  <2>2. InHeld(m) = {i}
    BY <1>2, <1>3, <2>1 DEF Distinct
  <2>. QED
    BY <1>3, <2>1, <2>2
<1>. QED
  BY <1>4, <1>5 DEF HeldOnce, held
SafeInv == IInv /\ Typed /\ Positions /\ Placed

LEMMA SafeInvInductive == (Init => SafeInv) /\ (SafeInv /\ [Next]_vars => SafeInv')
<1>1. Init => SafeInv
  <2>1. Init => Positions
    BY DEF Init, Positions, LoadedByEnqueue, LoadedByPop, LoadedByPeek, Threads
  <2>. QED
    BY <2>1, InitHolds, InitTyped, InitPlaced DEF SafeInv
<1>2. ASSUME SafeInv, [Next]_vars
      PROVE  SafeInv'
  <2>1. IInv' /\ Typed'
    BY <1>2, StepKeeps, StepTyped DEF SafeInv
  <2>2. Positions'
    <3>1. CASE UNCHANGED vars
      BY <1>2, <3>1 DEF vars, ring, local, SafeInv, Positions, LoadedByEnqueue, LoadedByPop,
         LoadedByPeek
    <3>2. CASE DoSend("notify") \/ DoSend("io")
      BY <1>2, <3>2, DoSendPositions DEF SafeInv, Threads
    <3>. QED
      BY <1>2, <3>1, <3>2, EnqueuePositions, PopPositions, HandlerPositions
      DEF SafeInv, Next, Notify, Io
  <2>3. Placed'
    BY <1>2, <2>1, StepPlaced DEF SafeInv
  <2>. QED
    BY <2>1, <2>2, <2>3 DEF SafeInv
<1>. QED
  BY <1>1, <1>2

LEMMA TypedIsTypeOK == SafeInv => TypeOK
<1>. SUFFICES ASSUME SafeInv
              PROVE  TypeOK
  OBVIOUS
<1>1. writing \in Seq([message : Messages, live : BOOLEAN])
  <2>1. <<>> \in Seq(Writes) /\ \A w \in Writes : <<w>> \in Seq(Writes)
    OBVIOUS
  <2>2. writing \in Seq(Writes)
    BY <2>1 DEF SafeInv, Typed, WireTyped
  <2>. QED
    BY <2>2 DEF Writes
<1>2. is_sending \in BOOLEAN
  BY DEF SafeInv, IInv, Shapes
<1>. QED
  BY <1>1, <1>2 DEF SafeInv, Typed, RingTyped, DiskTyped, WireTyped, PcTyped, LocalTyped,
     GhostTyped, Placed, TypeOK

(* Every variable keeps its type: the positions stay slots of the ring and *)
(* the data file within its capacity, however the two threads interleave.  *)
THEOREM TypeCorrect == Spec => []TypeOK
<1>1. Spec => []SafeInv
  BY SafeInvInductive, PTL DEF Spec
<1>. QED
  BY <1>1, TypedIsTypeOK, PTL

(* No interleaving of enqueue(), peek() and pop_front() loses an accepted  *)
(* message or holds it twice.                                              *)
THEOREM NothingLostNorTwice == Spec => []HeldOnce
<1>1. Spec => []SafeInv
  BY SafeInvInductive, PTL DEF Spec
<1>2. SafeInv => HeldOnce
  BY PlacedIsHeldOnce DEF SafeInv
<1>. QED
  BY <1>1, <1>2, PTL
-----------------------------------------------------------------------------
(* What the threads carry was accepted.                                    *)

Known ==
  /\ Entries(sent) \subseteq accepted
  /\ \A t \in Threads : pc[t] = "write" => front[t] \in accepted
  /\ writing # <<>> => Head(writing).message \in accepted

(* A step of do_send_from_queue() carries the front of the queue to the    *)
(* write.                                                                  *)
LEMMA DoSendEffect ==
  ASSUME SafeInv, NEW t \in Threads, DoSend(t)
  PROVE  /\ UNCHANGED <<ring, disk, accepted, spilled, sent>>
         /\ \A u \in Threads : u # t => pc'[u] = pc[u] /\ front'[u] = front[u]
         /\ pc'[t] = "write" =>
              \/ disk # <<>> /\ front'[t] = Head(disk)
              \/ read_pos # write_pos /\ front'[t] = slot[read_pos]
         /\ \/ writing' = writing
            \/ /\ pc[t] = "write" /\ writing' # <<>>
               /\ Head(writing').message = front[t] /\ pc'[t] # "write"
<1>1. UNCHANGED <<ring, disk, accepted, spilled, sent>>
  BY DEF DoSend, Exchange, CheckConnected, PeekRead, PeekWrite, PeekDisk, PeekSpin, GiveUp,
     StartWrite, ghost
<1>2. \A u \in Threads : u # t => pc'[u] = pc[u]
  <2>1. PICK l \in Sending \union {"idle"} : Goto(t, l)
    BY DEF DoSend, Exchange, CheckConnected, PeekRead, PeekWrite, PeekDisk, PeekSpin, GiveUp,
       StartWrite, Sending
  <2>. QED
    BY <2>1, GotoEffect DEF SafeInv, Typed, Labels
<1>3. CASE PeekDisk(t)
  <2>1. /\ \/ front' = front /\ pc'[t] # "write"
           \/ disk # <<>> /\ front' = [front EXCEPT ![t] = Head(disk)]
        /\ writing' = writing
    BY <1>3 DEF PeekDisk, wire, Goto, SafeInv, Typed, PcTyped
  <2>. QED
    BY <1>1, <1>2, <2>1 DEF SafeInv, Typed, LocalTyped
<1>4. CASE PeekSpin(t)
  <2>1. front' = [front EXCEPT ![t] = slot[read_idx[t]]] /\ writing' = writing
    BY <1>4 DEF PeekSpin, wire
  <2>2. read_idx[t] = read_pos /\ read_pos # write_pos
    BY <1>4, PeekIsFront DEF SafeInv
  <2>. QED
    BY <1>1, <1>2, <2>1, <2>2 DEF SafeInv, Typed, LocalTyped
<1>5. CASE StartWrite(t)
  <2>. DEFINE w == [message |-> front[t], live |-> is_connected]
  <2>1. /\ front' = front /\ pc[t] = "write" /\ pc'[t] # "write"
        /\ writing' = Append(writing, w)
    BY <1>5 DEF StartWrite, local, Goto, SafeInv, Typed, PcTyped
  <2>2. writing = <<>>
    BY <2>1 DEF SafeInv, IInv, Lock, Holds, Sending, Threads
  <2>3. writing' = <<w>> /\ <<w>> # <<>> /\ Head(<<w>>) = w /\ w.message = front[t]
    BY <2>1, <2>2
  <2>. QED
    BY <1>1, <1>2, <2>1, <2>3
<1>6. CASE Exchange(t) \/ CheckConnected(t) \/ PeekRead(t) \/ PeekWrite(t) \/ GiveUp(t)
  <2>1. front' = front /\ writing' = writing
    BY <1>6 DEF Exchange, CheckConnected, PeekRead, PeekWrite, GiveUp, local, wire
  <2>2. pc'[t] # "write"
    BY <1>6 DEF Exchange, CheckConnected, PeekRead, PeekWrite, GiveUp, Goto, SafeInv, Typed,
       PcTyped
  <2>. QED
    BY <1>1, <1>2, <2>1, <2>2
<1>. QED
  BY <1>3, <1>4, <1>5, <1>6 DEF DoSend

(* No other step makes a thread carry anything; a write that ends well     *)
(* leaves its message on the wire.                                         *)
LEMMA OtherEffect ==
  ASSUME SafeInv, [Next]_vars, \A t \in Threads : ~DoSend(t)
  PROVE  /\ front' = front /\ \A t \in Threads : pc'[t] = "write" => pc[t] = "write"
         /\ accepted \subseteq accepted' /\ spilled \subseteq spilled'
         /\ writing' # <<>> =>
              writing # <<>> /\ Head(writing').message = Head(writing).message
         /\ \/ sent' = sent
            \/ /\ WriteSucceeds /\ writing # <<>> /\ writing' = <<>>
               /\ sent' = Append(sent, Head(writing).message)
<1>. USE DEF SafeInv, Typed
<1>1. CASE UNCHANGED vars
  BY <1>1 DEF vars, wire, local, ghost
<1>2. CASE Send \/ EnqueueMemory \/ EnqueueDisk \/ EnqueueRefused
  <2>1. PICK l \in {"enqueue", "exchange", "idle"} : Goto("notify", l)
    BY <1>2 DEF Send, EnqueueMemory, EnqueueDisk, EnqueueRefused
  <2>2. \A t \in Threads : pc'[t] = "write" => pc[t] = "write"
    BY <2>1, GotoEffect DEF Threads, Labels
  <2>3. UNCHANGED <<front, writing, sent>> /\ accepted \subseteq accepted' /\ spilled \subseteq spilled'
    BY <1>2 DEF Send, EnqueueMemory, EnqueueDisk, EnqueueRefused, wire, local, ghost
  <2>. QED
    BY <2>2, <2>3
<1>3. CASE PopFront \/ WriteSucceeds \/ WriteFails \/ Network
  <2>1. UNCHANGED pc \/ \E l \in {"idle", "exchange"} \union Popping : Goto("io", l)
    BY <1>3 DEF PopFront, Pop, PopDisk, PopSpin, PopRelease, WriteSucceeds, WriteFails, Network,
       ReplaceSocket, StartConnect, Connected, Popping
  <2>2. \A t \in Threads : pc'[t] = "write" => pc[t] = "write"
    <3>1. ASSUME NEW l \in {"idle", "exchange"} \union Popping, Goto("io", l)
          PROVE  \A t \in Threads : pc'[t] = "write" => pc[t] = "write"
      BY <3>1, GotoEffect DEF Threads, Labels, Popping
    <3>. QED
      BY <2>1, <3>1
  <2>3. UNCHANGED <<front, accepted, spilled>>
    BY <1>3 DEF PopFront, Pop, PopDisk, PopSpin, PopRelease, WriteSucceeds, WriteFails, Network,
       ReplaceSocket, StartConnect, Connected, local, ghost
  <2>4. \A w : Tail(<<w>>) = <<>> /\ Head(<<w>>) = w /\ <<w>> # <<>>
    OBVIOUS
  <2>5. CASE WriteSucceeds \/ WriteFails
    <3>1. writing # <<>> /\ writing' = Tail(writing)
      BY <2>5 DEF WriteSucceeds, WriteFails
    <3>2. writing' = <<>>
      BY <2>4, <3>1 DEF WireTyped
    <3>3. sent' = sent \/ (WriteSucceeds /\ sent' = Append(sent, Head(writing).message))
      BY <2>5 DEF WriteSucceeds, WriteFails, ghost
    <3>. QED
      BY <2>2, <2>3, <3>1, <3>2, <3>3
  <2>6. CASE ReplaceSocket
    <3>1. writing' = Aborted(writing) /\ sent' = sent
      BY <2>6 DEF ReplaceSocket, Aborted, ghost
    <3>2. writing' # <<>> => writing # <<>> /\ Head(writing').message = Head(writing).message
      <4>1. \A w \in Writes : [w EXCEPT !.live = FALSE].message = w.message
        BY DEF Writes
      <4>2. CASE writing = <<>>
        BY <3>1, <4>2, AbortedWrite
      <4>3. ASSUME NEW w \in Writes, writing = <<w>>
            PROVE  writing # <<>> /\ Head(writing').message = Head(writing).message
        <5>1. writing' = <<[w EXCEPT !.live = FALSE]>>
          BY <3>1, <4>3, AbortedWrite
        <5>. QED
          BY <2>4, <4>1, <4>3, <5>1
      <4>. QED
        BY <4>2, <4>3 DEF WireTyped
    <3>. QED
      BY <2>2, <2>3, <3>1, <3>2
  <2>7. CASE PopFront \/ StartConnect \/ Connected
    <3>1. writing' = writing /\ sent' = sent
      BY <2>7 DEF PopFront, Pop, PopDisk, PopSpin, PopRelease, StartConnect, Connected, wire, ghost
    <3>. QED
      BY <2>2, <2>3, <3>1
  <2>. QED
    BY <1>3, <2>5, <2>6, <2>7 DEF Network
<1>. QED
  BY <1>1, <1>2, <1>3 DEF Next, Notify, Io, Threads
LEMMA FrontAccepted ==
  ASSUME SafeInv
  PROVE  /\ read_pos # write_pos => slot[read_pos] \in Entries(RingMessages)
         /\ disk # <<>> => Head(disk) \in Entries(disk)
         /\ Entries(RingMessages) \subseteq accepted /\ Entries(disk) \subseteq accepted
<1>1. read_pos # write_pos => slot[read_pos] \in Entries(RingMessages)
  BY FrontOfRing DEF SafeInv, Entries
<1>2. ASSUME disk # <<>>
      PROVE  Head(disk) \in Entries(disk)
  <2>1. Head(disk) = disk[1] /\ 1 \in 1 .. Len(disk)
    BY <1>2 DEF SafeInv, Typed, DiskTyped
  <2>. QED
    BY <2>1 DEF Entries
<1>3. Entries(RingMessages) \subseteq accepted /\ Entries(disk) \subseteq accepted
  BY DEF SafeInv, Placed
<1>. QED
  BY <1>1, <1>2, <1>3

LEMMA SentEntries ==
  ASSUME sent \in Seq(Messages), NEW m \in Messages, sent' = Append(sent, m)
  PROVE  Entries(sent') = Entries(sent) \union {m}
<1>. DEFINE t == Append(sent, m)
<1>1. t \in Seq(Messages) /\ Grown(sent, t, m)
  BY AppendGrows
<1>. HIDE DEF t
<1>2. Entries(t) = Entries(sent) \union {m}
  BY <1>1, GrownEntries
<1>. QED
  BY <1>2 DEF t

LEMMA StepKnown ==
  ASSUME SafeInv, Known, [Next]_vars
  PROVE  Known'
<1>1. ASSUME NEW t \in Threads, DoSend(t)
      PROVE  Known'
  <2>1. pc'[t] = "write" => front'[t] \in accepted
    BY <1>1, DoSendEffect, FrontAccepted
  <2>2. UNCHANGED <<accepted, sent>>
    BY <1>1, DoSendEffect
  <2>3. \A u \in Threads : u # t => pc'[u] = pc[u] /\ front'[u] = front[u]
    BY <1>1, DoSendEffect
  <2>4. \/ writing' = writing
        \/ pc[t] = "write" /\ Head(writing').message = front[t]
    BY <1>1, DoSendEffect
  <2>. QED
    BY <2>1, <2>2, <2>3, <2>4 DEF Known
<1>2. ASSUME \A t \in Threads : ~DoSend(t)
      PROVE  Known'
  <2>1. /\ front' = front /\ \A t \in Threads : pc'[t] = "write" => pc[t] = "write"
        /\ accepted \subseteq accepted'
        /\ writing' # <<>> =>
             writing # <<>> /\ Head(writing').message = Head(writing).message
    BY <1>2, OtherEffect
  <2>2. Entries(sent') \subseteq accepted'
    <3>1. CASE sent' = sent
      BY <2>1, <3>1 DEF Known
    <3>2. CASE writing # <<>> /\ sent' = Append(sent, Head(writing).message)
      <4>1. Head(writing).message \in accepted /\ accepted \subseteq Messages
        <5>1. accepted \subseteq Messages
          BY BoundsAssumption DEF SafeInv, Typed, GhostTyped, Messages
        <5>. QED
          BY <3>2, <5>1 DEF Known
      <4>2. Entries(sent') = Entries(sent) \union {Head(writing).message}
        BY <3>2, <4>1, SentEntries DEF SafeInv, Typed, GhostTyped
      <4>. QED
        BY <2>1, <4>1, <4>2 DEF Known
    <3>. QED
      BY <1>2, <3>1, <3>2, OtherEffect
  <2>. QED
    BY <2>1, <2>2 DEF Known
<1>. QED
  BY <1>1, <1>2
-----------------------------------------------------------------------------
(* The order of what is sent, while no message went to the disk.           *)

Ascending == \A i, j \in 1 .. Len(RingMessages) : i < j => RingMessages[i] < RingMessages[j]
InTurn(m) == /\ \A x \in Entries(sent) : x <= m
             /\ \A y \in Entries(RingMessages) : m <= y

Ordered ==
  /\ Ascending
  /\ \A i, j \in 1 .. Len(sent) : i < j => sent[i] <= sent[j]
  /\ \A x \in Entries(sent), y \in Entries(RingMessages) : x <= y
  /\ \A t \in Threads : pc[t] = "write" => InTurn(front[t])
  /\ writing # <<>> => InTurn(Head(writing).message)

(* A step adds to the ring only a message later than every accepted one.   *)
LEMMA RingStaysAscending ==
  ASSUME SafeInv, SafeInv', [Next]_vars, Ascending
  PROVE  /\ Ascending'
         /\ \A y \in Entries(RingMessages') :
              y \in Entries(RingMessages) \/ \A x \in accepted : x <= y
<1>1. RingMessages \in Seq({0} \union Messages) /\ RingMessages' \in Seq({0} \union Messages)
  BY RingIsSeq, RingIsRingOfNext DEF SafeInv, Typed
<1>2. CASE EnqueueMemory
  <2>1. Grown(RingMessages, RingMessages', offered)
    BY <1>2, StoreEffect DEF SafeInv
  <2>2. accepted \subseteq 1 .. offered /\ offered \notin accepted /\ offered \in Int
    BY <1>2 DEF SafeInv, Typed, GhostTyped, Offering, EnqueueMemory
  <2>3. \A x \in accepted : x < offered
    BY <2>2
  <2>4. \A i \in 1 .. Len(RingMessages) : RingMessages[i] < offered
    BY <2>3, FrontAccepted DEF Entries
  <2>5. /\ Len(RingMessages) \in Nat /\ Len(RingMessages') = Len(RingMessages) + 1
        /\ RingMessages'[Len(RingMessages')] = offered
        /\ \A i \in 1 .. Len(RingMessages) : RingMessages'[i] = RingMessages[i]
    BY <1>1, <2>1 DEF Grown
  <2>6. Ascending'
    <3>1. ASSUME NEW i \in 1 .. Len(RingMessages'), NEW j \in 1 .. Len(RingMessages'), i < j
          PROVE  RingMessages'[i] < RingMessages'[j]
      <4>1. i \in 1 .. Len(RingMessages) /\ (j \in 1 .. Len(RingMessages) \/ j = Len(RingMessages'))
        BY <2>5, <3>1
      <4>. QED
        BY <2>4, <2>5, <3>1, <4>1 DEF Ascending
    <3>. QED
      BY <3>1 DEF Ascending
  <2>7. Entries(RingMessages') = Entries(RingMessages) \union {offered}
    BY <1>1, <2>1, GrownEntries
  <2>8. \A x \in accepted : x <= offered
    BY <2>2
  <2>. QED
    BY <2>6, <2>7, <2>8
<1>3. CASE PopRelease
  <2>1. Shifted(RingMessages, RingMessages')
    BY <1>3, ReleaseEffect DEF SafeInv
  <2>2. Entries(RingMessages') \subseteq Entries(RingMessages)
    BY <1>1, <2>1, ShiftedEntries
  <2>3. /\ Len(RingMessages) \in Nat /\ Len(RingMessages') = Len(RingMessages) - 1
        /\ \A i \in 1 .. Len(RingMessages') : RingMessages'[i] = RingMessages[i + 1]
    BY <1>1, <2>1 DEF Shifted
  <2>4. Ascending'
    <3>1. ASSUME NEW i \in 1 .. Len(RingMessages'), NEW j \in 1 .. Len(RingMessages'), i < j
          PROVE  RingMessages'[i] < RingMessages'[j]
      <4>1. i + 1 \in 1 .. Len(RingMessages) /\ j + 1 \in 1 .. Len(RingMessages) /\ i + 1 < j + 1
        BY <2>3, <3>1
      <4>. QED
        BY <2>3, <4>1 DEF Ascending
    <3>. QED
      BY <3>1 DEF Ascending
  <2>. QED
    BY <2>2, <2>4
<1>4. CASE ~EnqueueMemory /\ ~PopRelease
  <2>1. RingMessages' = RingMessages
    BY <1>4, RingStays DEF SafeInv
  <2>. QED
    BY <2>1 DEF Ascending
<1>. QED
  BY <1>2, <1>3, <1>4

(* The front of an ascending ring is in turn. *)
LEMMA FrontInTurn ==
  ASSUME SafeInv, Ordered, read_pos # write_pos
  PROVE  InTurn(slot[read_pos])
<1>1. slot[read_pos] \in Entries(RingMessages)
  BY FrontAccepted
<1>2. 1 \in 1 .. Len(RingMessages) /\ RingMessages[1] = slot[read_pos]
      /\ Len(RingMessages) \in Nat
  BY FrontOfRing, RingIsSeq DEF SafeInv, Typed
<1>3. \A i \in 1 .. Len(RingMessages) : RingMessages[i] \in accepted /\ accepted \subseteq Int
  BY FrontAccepted DEF Entries, SafeInv, Typed, GhostTyped
<1>4. \A i \in 1 .. Len(RingMessages) : RingMessages[1] <= RingMessages[i]
  <2>1. ASSUME NEW i \in 1 .. Len(RingMessages)
        PROVE  RingMessages[1] <= RingMessages[i]
    <3>1. i = 1 \/ RingMessages[1] < RingMessages[i]
      BY <1>2 DEF Ordered, Ascending
    <3>2. RingMessages[1] \in Int /\ RingMessages[i] \in Int
      BY <1>2, <1>3
    <3>. QED
      BY <3>1, <3>2
  <2>. QED
    BY <2>1
<1>. QED
  BY <1>1, <1>2, <1>4 DEF Ordered, InTurn, Entries
(* Appending a message in turn keeps what was sent in order. *)
LEMMA SentStaysAscending ==
  ASSUME sent \in Seq(Messages), NEW m \in Messages, sent' = Append(sent, m),
         \A x \in Entries(sent) : x <= m,
         \A i, j \in 1 .. Len(sent) : i < j => sent[i] <= sent[j]
  PROVE  \A i, j \in 1 .. Len(sent') : i < j => sent'[i] <= sent'[j]
<1>1. /\ Len(sent) \in Nat /\ Len(sent') = Len(sent) + 1 /\ sent'[Len(sent) + 1] = m
      /\ \A i \in 1 .. Len(sent) : sent'[i] = sent[i]
  OBVIOUS
<1>2. \A i \in 1 .. Len(sent) : sent[i] <= m
  BY DEF Entries
<1>3. ASSUME NEW i \in 1 .. Len(sent'), NEW j \in 1 .. Len(sent'), i < j
      PROVE  sent'[i] <= sent'[j]
  <2>1. i \in 1 .. Len(sent) /\ (j \in 1 .. Len(sent) \/ j = Len(sent) + 1)
    BY <1>1, <1>3
  <2>. QED
    BY <1>1, <1>2, <1>3, <2>1
<1>. QED
  BY <1>3

LEMMA DoSendOrdered ==
  ASSUME SafeInv, SafeInv', Ordered, spilled = {}, NEW t \in Threads, DoSend(t)
  PROVE  Ordered'
<1>1. /\ UNCHANGED <<ring, disk, sent>>
      /\ \A u \in Threads : u # t => pc'[u] = pc[u] /\ front'[u] = front[u]
      /\ pc'[t] = "write" =>
           \/ disk # <<>> /\ front'[t] = Head(disk)
           \/ read_pos # write_pos /\ front'[t] = slot[read_pos]
      /\ \/ writing' = writing
         \/ pc[t] = "write" /\ Head(writing').message = front[t]
  BY DoSendEffect
<1>2. RingMessages' = RingMessages /\ sent' = sent
  BY <1>1, RingIsRingOf, RingIsRingOfNext DEF ring, SafeInv, Typed
<1>3. disk = <<>>
  BY FrontAccepted DEF SafeInv, Placed
<1>4. pc'[t] = "write" => InTurn(front'[t])
  BY <1>1, <1>3, FrontInTurn
<1>5. \A m : InTurn(m)' <=> InTurn(m)
  BY <1>2 DEF InTurn
<1>6. \A u \in Threads : pc'[u] = "write" => InTurn(front'[u])
  BY <1>1, <1>4 DEF Ordered
<1>7. writing' # <<>> => InTurn(Head(writing').message)
  BY <1>1 DEF Ordered
<1>. QED
  BY <1>2, <1>6, <1>7 DEF Ordered, Ascending, InTurn

LEMMA OtherOrdered ==
  ASSUME SafeInv, SafeInv', Known, Ordered, [Next]_vars, \A t \in Threads : ~DoSend(t)
  PROVE  Ordered'
<1>1. /\ front' = front /\ \A t \in Threads : pc'[t] = "write" => pc[t] = "write"
      /\ writing' # <<>> =>
           writing # <<>> /\ Head(writing').message = Head(writing).message
  BY OtherEffect
<1>2. /\ Ascending'
      /\ \A y \in Entries(RingMessages') :
           y \in Entries(RingMessages) \/ \A x \in accepted : x <= y
  BY RingStaysAscending DEF Ordered
<1>3. CASE sent' = sent
  <2>. DEFINE StillInTurn(m) == /\ \A x \in Entries(sent') : x <= m
                                /\ \A y \in Entries(RingMessages') : m <= y
  <2>1. \A m \in accepted : InTurn(m) => StillInTurn(m)
    BY <1>2, <1>3 DEF InTurn
  <2>. HIDE DEF StillInTurn
  <2>2. \A t \in Threads : pc'[t] = "write" => StillInTurn(front'[t])
    BY <1>1, <2>1 DEF Ordered, Known
  <2>3. writing' # <<>> => StillInTurn(Head(writing').message)
    <3>1. ASSUME writing' # <<>>
          PROVE  StillInTurn(Head(writing').message)
      <4>1. Head(writing).message \in accepted /\ InTurn(Head(writing).message)
        BY <1>1, <3>1 DEF Ordered, Known
      <4>. QED
        BY <1>1, <2>1, <3>1, <4>1
    <3>. QED
      BY <3>1
  <2>4. \A x \in Entries(sent'), y \in Entries(RingMessages') : x <= y
    <3>1. \A x \in Entries(sent) : x \in accepted
      BY DEF Known
    <3>. QED
      BY <1>2, <1>3, <3>1 DEF Ordered
  <2>5. \A i, j \in 1 .. Len(sent') : i < j => sent'[i] <= sent'[j]
    BY <1>3 DEF Ordered
  <2>. QED
    BY <1>2, <2>2, <2>3, <2>4, <2>5 DEF Ordered, InTurn, StillInTurn
<1>4. CASE /\ WriteSucceeds /\ writing # <<>> /\ writing' = <<>>
           /\ sent' = Append(sent, Head(writing).message)
  <2>. DEFINE m == Head(writing).message
  <2>1. m \in accepted /\ InTurn(m)
    <3>1. Head(writing).message \in accepted
      BY <1>4 DEF Known
    <3>2. InTurn(Head(writing).message)
      BY <1>4 DEF Ordered
    <3>. QED
      BY <3>1, <3>2
  <2>. HIDE DEF m
  <2>2. sent \in Seq(Messages) /\ m \in Messages
    <3>1. accepted \subseteq Messages
      BY BoundsAssumption DEF SafeInv, Typed, GhostTyped, Messages
    <3>. QED
      BY <2>1, <3>1 DEF SafeInv, Typed, GhostTyped
  <2>3. sent' = Append(sent, m)
    BY <1>4 DEF m
  <2>4. Entries(sent') = Entries(sent) \union {m}
    BY <2>2, <2>3, SentEntries
  <2>5. \A i, j \in 1 .. Len(sent') : i < j => sent'[i] <= sent'[j]
    BY <2>1, <2>2, <2>3, SentStaysAscending DEF Ordered, InTurn
  <2>6. \A x \in Entries(sent'), y \in Entries(RingMessages') : x <= y
    BY <1>2, <2>1, <2>4 DEF Ordered, InTurn, Known
  <2>7. \A t \in Threads : pc'[t] # "write"
    BY <1>1, <1>4 DEF SafeInv, IInv, Lock, Holds, Sending, Threads
  <2>. QED
    BY <1>2, <1>4, <2>5, <2>6, <2>7 DEF Ordered
<1>. QED
  BY <1>3, <1>4, OtherEffect

(* A message that went to the disk stays in the record of those that did. *)
LEMMA SpilledGrows ==
  ASSUME SafeInv, [Next]_vars
  PROVE  spilled \subseteq spilled'
<1>1. ASSUME NEW t \in Threads, DoSend(t)
      PROVE  spilled' = spilled
  BY <1>1, DoSendEffect
<1>. QED
  BY <1>1, OtherEffect

OrderInv == SafeInv /\ Known /\ (spilled = {} => Ordered)

LEMMA OrderInvInductive == (Init => OrderInv) /\ (OrderInv /\ [Next]_vars => OrderInv')
<1>1. ASSUME Init
      PROVE  OrderInv
  <2>1. SafeInv
    BY <1>1, SafeInvInductive
  <2>2. /\ sent = <<>> /\ writing = <<>> /\ accepted = {}
        /\ \A t \in Threads : pc[t] # "write"
    BY <1>1 DEF Init
  <2>3. Entries(sent) = {} /\ Len(sent) = 0
    BY <2>2 DEF Entries
  <2>4. Entries(RingMessages) = {}
    BY <2>1, <2>2 DEF SafeInv, Placed
  <2>5. Ascending
    BY <2>4 DEF Entries, Ascending
  <2>. QED
    BY <2>1, <2>2, <2>3, <2>5 DEF OrderInv, Known, Ordered
<1>2. ASSUME OrderInv, [Next]_vars
      PROVE  OrderInv'
  <2>1. SafeInv' /\ Known'
    BY <1>2, SafeInvInductive, StepKnown DEF OrderInv
  <2>2. spilled' = {} => spilled = {}
    BY <1>2, SpilledGrows DEF OrderInv
  <2>3. spilled' = {} => Ordered'
    BY <1>2, <2>1, <2>2, DoSendOrdered, OtherOrdered DEF OrderInv
  <2>. QED
    BY <2>1, <2>3 DEF OrderInv
<1>. QED
  BY <1>1, <1>2

(* As long as the disk was not used, messages go out in the order of the   *)
(* calls of send(), whatever fails and is written again.                   *)
THEOREM OrderedWithoutDisk == Spec => []SentInOrder
<1>1. Spec => []OrderInv
  BY OrderInvInductive, PTL DEF Spec
<1>2. OrderInv => SentInOrder
  <2>1. sent \in Seq(Messages) => DOMAIN sent = 1 .. Len(sent)
    OBVIOUS
  <2>. QED
    BY <2>1 DEF OrderInv, SafeInv, Typed, GhostTyped, Ordered, SentInOrder
<1>. QED
  BY <1>1, <1>2, PTL
=============================================================================
