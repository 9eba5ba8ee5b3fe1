----------------------------- MODULE IpcServer -----------------------------
(***************************************************************************)
(* Lusp_AsioLoopbackIpcServer: accepting connections, cutting the byte     *)
(* stream of each into messages, telling heartbeats from uploads, and      *)
(* dropping clients that fell silent.  One thread runs the io_context: a   *)
(* handler is one step.  A read completes before its handler runs; the     *)
(* heartbeat checker may run in between.                                   *)
(*                                                                         *)
(* A socket is one connection, used once; a client that reconnects takes   *)
(* another.  The stream is a sequence of cells: a message is a header of   *)
(* HeaderSize digits, little endian, and a body that begins with field 0   *)
(* of its FlatBuffers table.                                               *)
(***************************************************************************)
EXTENDS Integers, Sequences, FiniteSets

CONSTANTS
  Sockets,
  Base,         \* values of a digit of the length, 256 in the code
  HeaderSize,   \* digits of the length, 4 in the code
  BufferSize,   \* cells one read takes at most
  Timeout,      \* heartbeat_timeout_ms
  TimeRange,    \* values of a time in milliseconds, 2^64 in the code
  BodySize,     \* cells of the body behind field 0, by kind of message
  MaxMessages,  \* bound: messages sent on each socket
  MaxTime       \* bound: the clock

Kinds == {"ping", "document", "image"}

(* What a digit of the length is worth, and the values of the length. *)
Power[i \in 0 .. HeaderSize] == IF i = 0 THEN 1 ELSE Base * Power[i - 1]
LengthRange == Power[HeaderSize]

ASSUME HeaderAssumption == Base \in Nat \ {0, 1} /\ HeaderSize \in Nat \ {0}
ASSUME BodyAssumption == BodySize \in [Kinds -> Nat \ {0}]
ASSUME LengthAssumption == \A k \in Kinds : HeaderSize + 1 + BodySize[k] < LengthRange
ASSUME ReadAssumption == BufferSize \in Nat \ {0}
ASSUME TimeAssumption ==
  Timeout \in Nat /\ MaxTime \in Nat /\ TimeRange \in Nat /\ MaxTime + Timeout < TimeRange
ASSUME MessagesAssumption == MaxMessages \in [Sockets -> Nat]

VARIABLES
  clients,   \* clients_, a set of sockets
  states,    \* the sockets that are keys of socket_states_
  buffer,    \* the receive buffer of a ConnState
  last,      \* its last_heartbeat_time_ms
  conn,      \* "none", "backlog", "open" or "closed", as the server has it
  read,      \* its read: "none", "pending", "data" or "error" (completed, unhandled)
  chunk,     \* what a completed read put into temp_buffer
  peer,      \* the client's end: "up", "shut" (end of stream) or "reset"
  wire,      \* cells sent and not yet read
  checker,   \* heartbeat_checker_timer_ is set
  now,       \* the system clock
  sent,      \* ghost: kinds of the messages sent, in order
  handled,   \* ghost: messages taken out of the stream: body, and who got it
  received,  \* ghost: cells appended to the buffer
  since,     \* ghost: ticks since the last heartbeat or the accept
  stepped    \* ghost: the clock was set back

server == <<clients, states, buffer, last, conn, read, chunk, checker, handled, received>>
network == <<peer, wire, sent>>
time == <<now, since, stepped>>
vars == <<server, network, time>>
-----------------------------------------------------------------------------
(* What a client writes for its i-th message: do_send_from_queue() and     *)
(* send_heartbeat_ping() put the length before the body.                   *)
Digit(n, i) == (n \div Power[i - 1]) % Base
Header(n) == [i \in 1 .. HeaderSize |-> Digit(n, i)]

(* Field 0 is the type of a heartbeat, a byte, PING being 0, and the type  *)
(* of an upload, an int, documents being 0.  Zero is the default of both   *)
(* and left out of the buffer.                                             *)
FieldZero(kind) == IF kind = "image" THEN 1 ELSE 0

Body(kind, i) == <<FieldZero(kind)>> \o [j \in 1 .. BodySize[kind] |-> Base + i]
Frame(kind, i) == LET b == Body(kind, i) IN Header(Len(b)) \o b

(* The framing loop of do_read(). *)
(* Mutant: big endian. *)
Value_BigEndian(digits) ==
  LET v[i \in 0 .. Len(digits)] == IF i = 0 THEN 0 ELSE digits[i] + Base * v[i - 1]
  IN v[Len(digits)]

Value(digits) ==
  LET v[i \in 0 .. HeaderSize] == IF i = 0 THEN 0 ELSE digits[i] * Power[i - 1] + v[i - 1]
  IN v[HeaderSize]

MsgLen(b) == Value(SubSeq(b, 1, HeaderSize))

(* Mutant: the message has to be followed by one more cell. *)
Complete_OneMore(b) ==
  Len(b) >= HeaderSize /\ Len(b) > (HeaderSize + MsgLen(b)) % LengthRange

(* The sum of header and length is computed in 32 bits. *)
Complete(b) ==
  Len(b) >= HeaderSize /\ Len(b) >= (HeaderSize + MsgLen(b)) % LengthRange

(* GetRoot<FBS_HeartbeatMessage> verifies nothing: any table has a type. *)
IsPing(msg) == msg[1] = 0

Message(b) == SubSeq(b, HeaderSize + 1, HeaderSize + MsgLen(b))
Rest(b) == SubSeq(b, HeaderSize + MsgLen(b) + 1, Len(b))

(* The messages of a buffer, and what the loop leaves of it. *)
Loop[b \in Seq(Nat)] ==
  IF ~Complete(b) THEN [msgs |-> <<>>, rest |-> b]
  ELSE LET r == Loop[Rest(b)]
       IN [msgs |-> <<Message(b)>> \o r.msgs, rest |-> r.rest]

Handled(msg) == [body |-> msg, by |-> IF IsPing(msg) THEN "heartbeat" ELSE "callback"]
-----------------------------------------------------------------------------
(* do_accept(): both maps, the time of the heartbeat, the first read. *)
(* Mutant: the time is left at zero. *)
Accept_NoTime(s) ==
  /\ conn[s] = "backlog"
  /\ clients' = clients \union {s} /\ states' = states \union {s}
  /\ conn' = [conn EXCEPT ![s] = "open"]
  /\ read' = [read EXCEPT ![s] = "pending"]
  /\ since' = [since EXCEPT ![s] = 0]
  /\ UNCHANGED <<buffer, last, chunk, checker, handled, received, network, now, stepped>>

Accept(s) ==
  /\ conn[s] = "backlog"
  /\ clients' = clients \union {s} /\ states' = states \union {s}
  /\ last' = [last EXCEPT ![s] = now]
  /\ conn' = [conn EXCEPT ![s] = "open"]
  /\ read' = [read EXCEPT ![s] = "pending"]
  /\ since' = [since EXCEPT ![s] = 0]
  /\ UNCHANGED <<buffer, chunk, checker, handled, received, network, now, stepped>>

(* Mutant: the read takes all there is. *)
ReadData_Unbounded(s) ==
  /\ read[s] = "pending" /\ peer[s] # "reset" /\ wire[s] # <<>>
  /\ chunk' = [chunk EXCEPT ![s] = wire[s]]
  /\ wire' = [wire EXCEPT ![s] = <<>>]
  /\ read' = [read EXCEPT ![s] = "data"]
  /\ UNCHANGED <<clients, states, buffer, last, conn, checker, handled, received, peer, sent, time>>

(* async_read_some() completes with as much as the network gives, or fails. *)
ReadData(s) ==
  /\ read[s] = "pending" /\ peer[s] # "reset"
  /\ \E n \in 1 .. BufferSize :
       /\ n <= Len(wire[s])
       /\ chunk' = [chunk EXCEPT ![s] = SubSeq(wire[s], 1, n)]
       /\ wire' = [wire EXCEPT ![s] = SubSeq(@, n + 1, Len(@))]
  /\ read' = [read EXCEPT ![s] = "data"]
  /\ UNCHANGED <<clients, states, buffer, last, conn, checker, handled, received, peer, sent, time>>

ReadEnds(s) ==
  /\ read[s] = "pending"
  /\ peer[s] = "reset" \/ (peer[s] = "shut" /\ wire[s] = <<>>)
  /\ read' = [read EXCEPT ![s] = "error"]
  /\ UNCHANGED <<clients, states, buffer, last, conn, chunk, checker, handled, received, network, time>>

(* do_read() again; on a socket closed meanwhile it fails. *)
NextRead(s) == IF conn[s] = "open" THEN "pending" ELSE "error"

(* The handler of the read, handle_heartbeat_ping() included; the PONG it  *)
(* writes is not followed up, no client looks at it.                       *)
HandleData(s) ==
  LET loop == Loop[buffer[s] \o chunk[s]]
      pings == \E i \in DOMAIN loop.msgs : IsPing(loop.msgs[i])
  IN /\ read[s] = "data"
     /\ buffer' = [buffer EXCEPT ![s] = loop.rest]
     /\ received' = [received EXCEPT ![s] = @ + Len(chunk[s])]
     /\ handled' = [handled EXCEPT ![s] = @ \o [i \in DOMAIN loop.msgs |-> Handled(loop.msgs[i])]]
     /\ last' = IF pings THEN [last EXCEPT ![s] = now] ELSE last
     /\ since' = IF pings THEN [since EXCEPT ![s] = 0] ELSE since
     /\ chunk' = [chunk EXCEPT ![s] = <<>>]
     /\ read' = [read EXCEPT ![s] = NextRead(s)]
     /\ UNCHANGED <<clients, states, conn, checker, network, now, stepped>>

(* Mutant: the state is kept. *)
HandleError_KeepsState(s) ==
  /\ read[s] = "error"
  /\ clients' = clients \ {s}
  /\ read' = [read EXCEPT ![s] = "none"]
  /\ UNCHANGED <<states, buffer, last, conn, chunk, checker, handled, received, network, time>>

HandleError(s) ==
  /\ read[s] = "error"
  /\ clients' = clients \ {s} /\ states' = states \ {s}
  /\ read' = [read EXCEPT ![s] = "none"]
  /\ UNCHANGED <<buffer, last, conn, chunk, checker, handled, received, network, time>>

(* The heartbeat checker: an unsigned difference of two times.  A read     *)
(* that is pending on a socket it closes is aborted.                       *)
Elapsed(s) == (now - last[s]) % TimeRange

TimedOut == {s \in states : Elapsed(s) > Timeout}

(* Mutant: the timer is not set again. *)
CheckHeartbeats_Once ==
  /\ checker
  /\ conn' = [s \in Sockets |-> IF s \in TimedOut THEN "closed" ELSE conn[s]]
  /\ read' = [s \in Sockets |-> IF s \in TimedOut /\ read[s] = "pending" THEN "error" ELSE read[s]]
  /\ clients' = clients \ TimedOut /\ states' = states \ TimedOut
  /\ checker' = FALSE
  /\ UNCHANGED <<buffer, last, chunk, handled, received, network, time>>

CheckHeartbeats ==
  /\ checker
  /\ conn' = [s \in Sockets |-> IF s \in TimedOut THEN "closed" ELSE conn[s]]
  /\ read' = [s \in Sockets |-> IF s \in TimedOut /\ read[s] = "pending" THEN "error" ELSE read[s]]
  /\ clients' = clients \ TimedOut /\ states' = states \ TimedOut
  /\ UNCHANGED <<buffer, last, chunk, checker, handled, received, network, time>>
-----------------------------------------------------------------------------
(* The clients, the network and the clock. *)
Connect(s) ==
  /\ conn[s] = "none"
  /\ conn' = [conn EXCEPT ![s] = "backlog"]
  /\ UNCHANGED <<clients, states, buffer, last, read, chunk, checker, handled, received, network, time>>

Send(s, kind) ==
  /\ conn[s] # "none" /\ peer[s] = "up" /\ Len(sent[s]) < MaxMessages[s]
  /\ wire' = [wire EXCEPT ![s] = @ \o Frame(kind, Len(sent[s]) + 1)]
  /\ sent' = [sent EXCEPT ![s] = Append(@, kind)]
  /\ UNCHANGED <<server, peer, time>>

Shut(s) ==
  /\ conn[s] # "none" /\ peer[s] = "up"
  /\ peer' = [peer EXCEPT ![s] = "shut"]
  /\ UNCHANGED <<server, wire, sent, time>>

Reset(s) ==
  /\ conn[s] # "none" /\ peer[s] # "reset"
  /\ peer' = [peer EXCEPT ![s] = "reset"]
  /\ UNCHANGED <<server, wire, sent, time>>

Tick ==
  /\ now < MaxTime
  /\ now' = now + 1
  /\ since' = [s \in Sockets |-> since[s] + 1]
  /\ UNCHANGED <<server, network, stepped>>

StepBack ==
  /\ ~stepped /\ now > 0
  /\ now' = now - 1
  /\ stepped' = TRUE
  /\ UNCHANGED <<server, network, since>>

(* The constructor and start(). *)
Init ==
  /\ clients = {} /\ states = {}
  /\ buffer = [s \in Sockets |-> <<>>] /\ last = [s \in Sockets |-> 0]
  /\ conn = [s \in Sockets |-> "none"] /\ read = [s \in Sockets |-> "none"]
  /\ chunk = [s \in Sockets |-> <<>>] /\ checker = TRUE
  /\ peer = [s \in Sockets |-> "up"] /\ wire = [s \in Sockets |-> <<>>]
  /\ sent = [s \in Sockets |-> <<>>] /\ handled = [s \in Sockets |-> <<>>]
  /\ received = [s \in Sockets |-> 0] /\ since = [s \in Sockets |-> 0]
  /\ now = 0 /\ stepped = FALSE

Handler(s) == ReadData(s) \/ ReadEnds(s) \/ HandleData(s) \/ HandleError(s)
Client(s) == Connect(s) \/ (\E kind \in Kinds : Send(s, kind)) \/ Shut(s) \/ Reset(s)

Next ==
  \/ \E s \in Sockets : Accept(s) \/ Handler(s) \/ Client(s)
  \/ CheckHeartbeats \/ Tick \/ StepBack

(* The io_context runs what is due, and what was sent on a connection that *)
(* stays arrives.  Nothing is assumed of the clients and the clock.        *)
Fairness ==
  /\ \A s \in Sockets : WF_vars(Accept(s)) /\ WF_vars(Handler(s))
  /\ WF_vars(CheckHeartbeats)

Spec == Init /\ [][Next]_vars /\ Fairness
-----------------------------------------------------------------------------
(* Types: cells of the stream, the state of each connection, the ghosts.   *)
TypeOK ==
  /\ clients \subseteq Sockets /\ states \subseteq Sockets
  /\ buffer \in [Sockets -> Seq(Nat)] /\ chunk \in [Sockets -> Seq(Nat)]
  /\ wire \in [Sockets -> Seq(Nat)]
  /\ last \in [Sockets -> 0 .. MaxTime] /\ now \in 0 .. MaxTime
  /\ conn \in [Sockets -> {"none", "backlog", "open", "closed"}]
  /\ read \in [Sockets -> {"none", "pending", "data", "error"}]
  /\ peer \in [Sockets -> {"up", "shut", "reset"}]
  /\ checker \in BOOLEAN /\ stepped \in BOOLEAN
  /\ sent \in [Sockets -> Seq(Kinds)]
  /\ handled \in [Sockets -> Seq([body : Seq(Nat), by : {"heartbeat", "callback"}])]
  /\ received \in [Sockets -> Nat] /\ since \in [Sockets -> Nat]
  /\ \A s \in Sockets : Len(chunk[s]) <= BufferSize /\ (chunk[s] # <<>>) = (read[s] = "data")

(* The cells of the first n of the messages sent on a connection. *)
EndOf(msgs, n) ==
  LET e[i \in 0 .. Len(msgs)] == IF i = 0 THEN 0 ELSE e[i - 1] + Len(Frame(msgs[i], i))
  IN e[n]

(* However the network cuts the stream into reads, what the server has     *)
(* handled of a connection is what was sent, in order, up to the last      *)
(* message that arrived whole, and no message that is whole waits.         *)
HandledAsReceived ==
  \A s \in Sockets :
    /\ Len(handled[s]) <= Len(sent[s])
    /\ \A i \in DOMAIN handled[s] : handled[s][i].body = Body(sent[s][i], i)
    /\ \A n \in DOMAIN sent[s] : n <= Len(handled[s]) <=> EndOf(sent[s], n) <= received[s]

(* The two maps, which two mutexes guard, hold the same clients, and every *)
(* one of them is being read: none is left in the maps that nobody would   *)
(* ever hear of again.                                                     *)
RegisteredIsRead ==
  /\ clients = states
  /\ \A s \in clients : conn[s] = "open" /\ read[s] # "none"

(* The server closes a connection only when it handled no heartbeat of it  *)
(* for the time it allows, unless the clock was set back.  A heartbeat on  *)
(* the wire, or read and not handled yet, does not save the client.        *)
LiveClientKept ==
  [][\A s \in Sockets :
       conn[s] = "open" /\ conn'[s] = "closed" => since[s] > Timeout \/ stepped]_vars

(* A client that stays silent is dropped. *)
SilentClientDropped ==
  \A s \in Sockets :
    (s \in clients /\ since[s] > Timeout /\ ~stepped)
       ~> (s \notin clients \/ since[s] <= Timeout \/ stepped)

(* What was sent on a connection that stays is handled. *)
SentIsHandled ==
  \A s \in Sockets : \A n \in 1 .. MaxMessages[s] :
    (Len(sent[s]) >= n) ~> (Len(handled[s]) >= n \/ peer[s] = "reset" \/ conn[s] = "closed")

(* A message that is no heartbeat is given to the program. *)
UploadsReachCallback ==
  \A s \in Sockets : \A i \in DOMAIN handled[s] :
    sent[s][i] # "ping" => handled[s][i].by = "callback"
=============================================================================
