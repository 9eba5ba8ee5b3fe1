------------------------------ MODULE SendPath ------------------------------
(***************************************************************************)
(* The send path of the IPC client: Lusp_AsioLoopbackIpcClient::send() on  *)
(* the notification thread, the completion handlers of async_write and     *)
(* async_connect on the io_context thread, and the PersistentMessageQueue  *)
(* both of them use.  PersistentMessageQueue takes the queue's operations  *)
(* one at a time; here they are cut at every load and store of a shared    *)
(* atomic, and the two threads interleave.  Operations under disk_mutex_   *)
(* are one step.                                                           *)
(*                                                                         *)
(* A message is its number in the order of the calls of send().            *)
(***************************************************************************)
EXTENDS Integers, Sequences

CONSTANTS
  MemoryCapacity,  \* slots of the ring, one of them always free
  DiskCapacity,    \* messages the data file takes before it is full
  MaxMessages,     \* bound: calls of send()
  MaxFailures      \* bound: failed writes, failed connects and lost sockets

ASSUME CapacityAssumption == MemoryCapacity \in Nat \ {0}
ASSUME BoundsAssumption == DiskCapacity \in Nat /\ MaxMessages \in Nat /\ MaxFailures \in Nat

VARIABLES
  slot,        \* the message in each slot of memory_buffer_
  ready,       \* their ready flags
  write_pos,
  read_pos,
  disk,        \* messages of the data file not yet consumed
  is_sending,
  socket,      \* "closed", "connecting" or "connected"; open in the last two
  writing,     \* async_writes under way: message, and whether its socket is socket_
  pc,          \* where each thread is
  read_idx,    \* its local of that name
  front,       \* what peek() returned to it
  offered,     \* ghost: calls of send() so far
  accepted,    \* ghost: messages enqueue() returned true for
  spilled,     \* ghost: those of them that went to the disk
  sent,        \* ghost: messages written to a socket, in that order
  removed,     \* ghost: messages pop_front() removed
  failures     \* ghost

ring  == <<slot, ready, write_pos, read_pos>>
wire  == <<is_sending, socket, writing, failures>>
local == <<read_idx, front>>
ghost == <<offered, accepted, spilled, sent, removed>>
vars  == <<ring, disk, wire, pc, local, ghost>>

Threads  == {"notify", "io"}
Slots    == 0 .. MemoryCapacity - 1
Messages == 1 .. MaxMessages

(* Inside do_send_from_queue(), from the exchange that took is_sending_.   *)
Sending == {"check", "peek_read", "peek_write", "peek_disk", "peek_spin", "write", "give_up"}
(* Inside pop_front(). *)
Popping == {"pop", "pop_disk", "pop_spin", "pop_release"}

(* Mutant: the position does not wrap. *)
next_index_NoWrap(i) == i + 1

next_index(i) == (i + 1) % MemoryCapacity
is_connected  == socket # "closed"

Goto(t, label) == pc' = [pc EXCEPT ![t] = label]

Used == IF write_pos >= read_pos
        THEN write_pos - read_pos ELSE MemoryCapacity - read_pos + write_pos
RingMessages == [i \in 1 .. Used |-> slot[(read_pos + i - 1) % MemoryCapacity]]
-----------------------------------------------------------------------------
(* send() on the notification thread: enqueue() loads both positions, then *)
(* stores into the ring, overflows to the disk, or refuses.                *)
Send ==
  /\ pc["notify"] = "idle" /\ offered < MaxMessages
  /\ offered' = offered + 1
  /\ read_idx' = [read_idx EXCEPT !["notify"] = read_pos]
  /\ Goto("notify", "enqueue")
  /\ UNCHANGED <<ring, disk, wire, front, accepted, spilled, sent, removed>>

(* Mutant: the oldest message is overwritten. *)
LooksFull_Never == FALSE

LooksFull == next_index(write_pos) = read_idx["notify"]

EnqueueMemory ==
  /\ pc["notify"] = "enqueue" /\ ~LooksFull
  /\ slot' = [slot EXCEPT ![write_pos] = offered]
  /\ ready' = [ready EXCEPT ![write_pos] = TRUE]
  /\ write_pos' = next_index(write_pos)
  /\ accepted' = accepted \union {offered}
  /\ Goto("notify", "exchange")
  /\ UNCHANGED <<read_pos, disk, wire, local, offered, spilled, sent, removed>>

EnqueueDisk ==
  /\ pc["notify"] = "enqueue" /\ LooksFull /\ Len(disk) < DiskCapacity
  /\ disk' = Append(disk, offered)
  /\ spilled' = spilled \union {offered}
  /\ accepted' = accepted \union {offered}
  /\ Goto("notify", "exchange")
  /\ UNCHANGED <<ring, wire, local, offered, sent, removed>>

EnqueueRefused ==
  /\ pc["notify"] = "enqueue" /\ LooksFull /\ Len(disk) >= DiskCapacity
  /\ Goto("notify", "idle")
  /\ UNCHANGED <<ring, disk, wire, local, ghost>>

-----------------------------------------------------------------------------
(* do_send_from_queue(), on either thread.                                 *)
(* Mutant: the flag is set without being tested. *)
Exchange_Untested(t) ==
  /\ pc[t] = "exchange"
  /\ is_sending' = TRUE
  /\ Goto(t, "check")
  /\ UNCHANGED <<ring, disk, socket, writing, failures, local, ghost>>

Exchange(t) ==
  /\ pc[t] = "exchange"
  /\ is_sending' = TRUE
  /\ Goto(t, IF is_sending THEN "idle" ELSE "check")
  /\ UNCHANGED <<ring, disk, socket, writing, failures, local, ghost>>

CheckConnected(t) ==
  /\ pc[t] = "check"
  /\ Goto(t, IF is_connected THEN "peek_read" ELSE "give_up")
  /\ UNCHANGED <<ring, disk, wire, local, ghost>>

PeekRead(t) ==
  /\ pc[t] = "peek_read"
  /\ read_idx' = [read_idx EXCEPT ![t] = read_pos]
  /\ Goto(t, "peek_write")
  /\ UNCHANGED <<ring, disk, wire, front, ghost>>

PeekWrite(t) ==
  /\ pc[t] = "peek_write"
  /\ Goto(t, IF read_idx[t] = write_pos THEN "peek_disk" ELSE "peek_spin")
  /\ UNCHANGED <<ring, disk, wire, local, ghost>>

PeekDisk(t) ==
  /\ pc[t] = "peek_disk"
  /\ IF disk = <<>>
     THEN Goto(t, "give_up") /\ UNCHANGED front
     ELSE Goto(t, "write") /\ front' = [front EXCEPT ![t] = Head(disk)]
  /\ UNCHANGED <<ring, disk, wire, read_idx, ghost>>

(* The loop ends when the slot is ready: its message is copied. *)
PeekSpin(t) ==
  /\ pc[t] = "peek_spin" /\ ready[read_idx[t]]
  /\ front' = [front EXCEPT ![t] = slot[read_idx[t]]]
  /\ Goto(t, "write")
  /\ UNCHANGED <<ring, disk, wire, read_idx, ghost>>

GiveUp(t) ==
  /\ pc[t] = "give_up"
  /\ is_sending' = FALSE
  /\ Goto(t, "idle")
  /\ UNCHANGED <<ring, disk, socket, writing, failures, local, ghost>>

StartWrite(t) ==
  /\ pc[t] = "write"
  /\ writing' = Append(writing, [message |-> front[t], live |-> is_connected])
  /\ Goto(t, "idle")
  /\ UNCHANGED <<ring, disk, is_sending, socket, failures, local, ghost>>

-----------------------------------------------------------------------------
(* handle_send_result() on the io_context thread: is_sending_ is cleared   *)
(* first; then the front of the queue, whatever it is, is removed.         *)
WriteSucceeds ==
  /\ pc["io"] = "idle" /\ writing # <<>>
  /\ socket = "connected" /\ Head(writing).live
  /\ sent' = Append(sent, Head(writing).message)
  /\ writing' = Tail(writing)
  /\ is_sending' = FALSE
  /\ Goto("io", "pop")
  /\ UNCHANGED <<ring, disk, socket, failures, local, offered, accepted, spilled, removed>>

(* A failed write leaves its message in the queue.  An error that calls    *)
(* for no reconnection is followed by another attempt; any other waits for *)
(* the connection to come back.                                            *)
WriteFails ==
  /\ pc["io"] = "idle" /\ writing # <<>>
  /\ failures < MaxFailures \/ ~Head(writing).live
  /\ failures' = IF Head(writing).live THEN failures + 1 ELSE failures
  /\ writing' = Tail(writing)
  /\ is_sending' = FALSE
  /\ \E next \in {"exchange", "idle"} : Goto("io", next)
  /\ UNCHANGED <<ring, disk, socket, local, ghost>>

(* pop_front(). *)
Pop ==
  /\ pc["io"] = "pop"
  /\ read_idx' = [read_idx EXCEPT !["io"] = read_pos]
  /\ Goto("io", IF read_pos = write_pos THEN "pop_disk" ELSE "pop_spin")
  /\ UNCHANGED <<ring, disk, wire, front, ghost>>

PopDisk ==
  /\ pc["io"] = "pop_disk"
  /\ IF disk = <<>>
     THEN UNCHANGED <<disk, removed>>
     ELSE disk' = Tail(disk) /\ removed' = removed \union {Head(disk)}
  /\ Goto("io", "exchange")
  /\ UNCHANGED <<ring, wire, local, offered, accepted, spilled, sent>>

(* Mutant: the wrong slot is marked free. *)
PopSpin_NextSlot ==
  /\ pc["io"] = "pop_spin" /\ ready[read_idx["io"]]
  /\ ready' = [ready EXCEPT ![next_index(read_idx["io"])] = FALSE]
  /\ Goto("io", "pop_release")
  /\ UNCHANGED <<slot, write_pos, read_pos, disk, wire, local, ghost>>

PopSpin ==
  /\ pc["io"] = "pop_spin" /\ ready[read_idx["io"]]
  /\ ready' = [ready EXCEPT ![read_idx["io"]] = FALSE]
  /\ Goto("io", "pop_release")
  /\ UNCHANGED <<slot, write_pos, read_pos, disk, wire, local, ghost>>

PopRelease ==
  /\ pc["io"] = "pop_release"
  /\ read_pos' = next_index(read_idx["io"])
  /\ removed' = removed \union {slot[read_idx["io"]]}
  /\ Goto("io", "exchange")
  /\ UNCHANGED <<slot, ready, write_pos, disk, wire, local, offered, accepted, spilled, sent>>

-----------------------------------------------------------------------------
(* The connection, as far as the send path sees it; IpcClient models when  *)
(* each of these happens.  try_reconnect() replaces socket_, which aborts  *)
(* the write under way.                                                    *)
ReplaceSocket ==
  /\ pc["io"] = "idle" /\ socket # "closed" /\ failures < MaxFailures
  /\ failures' = failures + 1
  /\ socket' = "closed"
  /\ writing' = [i \in DOMAIN writing |-> [writing[i] EXCEPT !.live = FALSE]]
  /\ UNCHANGED <<ring, disk, is_sending, pc, local, ghost>>

StartConnect ==
  /\ pc["io"] = "idle" /\ socket = "closed"
  /\ socket' = "connecting"
  /\ UNCHANGED <<ring, disk, is_sending, writing, failures, pc, local, ghost>>

(* handle_connect_result() of a connection that came up. *)
Connected ==
  /\ pc["io"] = "idle" /\ socket = "connecting"
  /\ socket' = "connected"
  /\ Goto("io", "exchange")
  /\ UNCHANGED <<ring, disk, is_sending, writing, failures, local, ghost>>

-----------------------------------------------------------------------------
(* The notification service's constructor calls connect() before start().  *)
Init ==
  /\ slot = [i \in Slots |-> 0] /\ ready = [i \in Slots |-> FALSE]
  /\ write_pos = 0 /\ read_pos = 0 /\ disk = <<>>
  /\ is_sending = FALSE /\ socket = "connecting" /\ writing = <<>> /\ failures = 0
  /\ pc = [t \in Threads |-> "idle"]
  /\ read_idx = [t \in Threads |-> 0] /\ front = [t \in Threads |-> 0]
  /\ offered = 0 /\ accepted = {} /\ spilled = {} /\ sent = <<>> /\ removed = {}

DoSend(t) ==
  \/ Exchange(t) \/ CheckConnected(t) \/ PeekRead(t) \/ PeekWrite(t)
  \/ PeekDisk(t) \/ PeekSpin(t) \/ GiveUp(t) \/ StartWrite(t)

Notify   == Send \/ EnqueueMemory \/ EnqueueDisk \/ EnqueueRefused \/ DoSend("notify")
PopFront == Pop \/ PopDisk \/ PopSpin \/ PopRelease
Io       == DoSend("io") \/ PopFront \/ WriteSucceeds \/ WriteFails
Network  == ReplaceSocket \/ StartConnect \/ Connected

Next == Notify \/ Io \/ Network

(* Both threads keep running, a write under way completes and a socket     *)
(* that is connecting connects or fails.                                   *)
Fairness ==
  /\ WF_vars(Notify) /\ WF_vars(Io)
  /\ WF_vars(StartConnect) /\ WF_vars(Connected)

Spec == Init /\ [][Next]_vars /\ Fairness
-----------------------------------------------------------------------------
Labels == {"idle", "enqueue", "exchange"} \union Sending \union Popping

(* Every variable keeps its type; only the notification thread enqueues    *)
(* and only the io_context thread pops.                                    *)
TypeOK ==
  /\ slot \in [Slots -> {0} \union Messages] /\ ready \in [Slots -> BOOLEAN]
  /\ write_pos \in Slots /\ read_pos \in Slots
  /\ disk \in Seq(Messages) /\ Len(disk) <= DiskCapacity
  /\ is_sending \in BOOLEAN /\ socket \in {"closed", "connecting", "connected"}
  /\ writing \in Seq([message : Messages, live : BOOLEAN])
  /\ failures \in 0 .. MaxFailures
  /\ pc \in [Threads -> Labels]
  /\ pc["notify"] \notin Popping /\ pc["io"] # "enqueue"
  /\ read_idx \in [Threads -> Slots] /\ front \in [Threads -> {0} \union Messages]
  /\ offered \in 0 .. MaxMessages
  /\ accepted \subseteq 1 .. offered /\ removed \subseteq accepted
  /\ spilled \subseteq accepted
  /\ sent \in Seq(Messages)

(* is_sending_ is a lock: it is set exactly while one thread is inside     *)
(* do_send_from_queue() or one write of a queued message is under way,     *)
(* never two of these at once.  asio forbids two async_writes on a stream. *)
OneSender ==
  LET holders == {t \in Threads : pc[t] \in Sending}
  IN  /\ is_sending <=> (holders # {} \/ writing # <<>>)
      /\ writing # <<>> => holders = {}
      /\ holders # Threads
      /\ Len(writing) <= 1

(* Whatever the two threads do to the positions and the flags, an accepted *)
(* message is in the ring, on the disk side or removed, in one of them and *)
(* once.                                                                   *)
HeldOnce ==
  LET held == RingMessages \o disk
      InHeld(m) == {i \in DOMAIN held : held[i] = m}
  IN  \A m \in accepted :
        IF m \in removed
        THEN InHeld(m) = {}
        ELSE \E i \in DOMAIN held : InHeld(m) = {i}

(* The ring alone keeps the order of send(): until a message overflowed to *)
(* the disk, what goes out never goes back to an earlier message, though   *)
(* one may go out twice.                                                   *)
SentInOrder ==
  spilled = {} =>
    \A i, j \in DOMAIN sent : i < j => sent[i] <= sent[j]

(* The consumer's half: once it is in pop_front() the io_context thread    *)
(* leaves it, whatever the notification thread is doing to the flags.      *)
PopFrontReturns == pc["io"] \in Popping ~> pc["io"] \notin Popping

-----------------------------------------------------------------------------
(* What a comment says and the code does not do.                           *)

(* PersistentMessageQueue.h:88: the front is removed after it was sent.    *)
RemovedWasSent == \A m \in removed : \E i \in DOMAIN sent : sent[i] = m
=============================================================================
