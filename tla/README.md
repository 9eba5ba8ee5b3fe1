# Verification of HighPerformanceUploadServer

TLA+ models of the upload client and its local server, the TLC runs that check
them and the TLAPS proofs about them. Paths are relative to the repository.

## The system

A Qt client queues the files a user picks and sends a description of each, as a
FlatBuffers message, over a TCP connection on the loopback to a local server
process. What `doc/` describes beyond that (SDK layer, worker pool, remote
server) has no code.

| Component | State | Operations | Talks to |
|---|---|---|---|
| `ThreadSafeRowLockQueue` | queue, two mutexes, `mSize`, `mStopping` | push, waitAndPop, notifyAll | UI thread, notification thread |
| `SyncUploadQueue` | singleton around it | push of paths | user interface |
| `NotificationService` | `shouldStop`, two threads, io_context | loop, start, stop, destructor | the queue, the IPC client |
| `PersistentMessageQueue` | ring, ready flags, disk index, data file, index file | enqueue, dequeue, peek, pop_front, load, flush, clear, start, exit | the IPC client, the file system |
| `ConnectionMonitor` | state, reconnecting flag, statistics | set_state, record_*, try_trigger_reconnect | the IPC client (callback) |
| `AsioLoopbackIpcClient` | socket, `is_sending_`, reconnection and heartbeat state, two timers | connect, send, disconnect, handlers | all of the above, the server |
| `AsioLoopbackIpcServer` | two maps of clients, receive buffers, checker timer | accept, read, broadcast, heartbeat check | the client |
| `ClientConfigManager`, `FileInfo`, Qt widgets, logging | values | load, validate, show | - |

Three threads matter in the client: the *notification thread* takes files from the
row-lock queue and calls `send()`; the *io_context thread* runs the handlers of
every asynchronous operation and both timers; the *main thread* starts and stops
both, and calls `disconnect()` while the io_context still runs. The first two share
the persistent queue and `is_sending_`, the last two the connection, without a lock.

What is hard here:

- the **persistent queue** lives longer than the process. It must survive a crash
  between any two steps, and decides by one comparison of sizes whether an index
  file is current;
- the **send path** is a protocol of atomics between two threads;
- the **connection** is a set of handlers whose order the network decides:
  operations of a replaced socket report after the next attempt began, and
  `disconnect()` runs beside them;
- the **start and stop** of the threads around a condition variable.

The hazards, each at its line, are in `PROJECT.json`.

## What makes each component correct

- PersistentMessageQueue: an accepted message is delivered, held, or was in
  memory when the process ended; each record of the file has its entry in the
  index, at its place; the size counter is the bytes pending; an accepted index
  file is current; the whole behaves like a two-tier FIFO queue, but for one
  message of a process that `tellp()` misplaces.
- Send path: one write of a queued message at a time; a message held once;
  removed only after it was sent; no thread waits for ever.
- Data file: what lies in front of the first damage is found and read back,
  whatever crashes and failed writes left behind it.
- Connection: while it is neither connected nor stopped, an attempt is pending;
  stopped stays quiet once nothing begun before is under way. A lost connection
  should be replaced and `disconnect()` should hold: neither does.
- Row-lock queue and notification service: no file is sent twice; none is lost
  unless a push and a pop raced; the counter does not wrap; stop ends the thread.
- IPC server: messages come out of the byte stream as they went in; a client
  whose accept or last heartbeat was handled within the timeout is not dropped, a
  silent one is; both maps hold the same clients, all of them being read.
- Configuration: what passes validation is in range after the narrowing.

## Modules

| Module | What it is |
|---|---|
| `PersistentMessageQueue` | the queue, operations one at a time, over several runs of the process |
| `TwoTierQueue` | what the queue promises: memory tier, disk tier, log |
| `PersistentQueueRefinement` | the refinement mapping between the two |
| `PersistentMessageQueue_proofs` | the queue's invariant, and the safety properties that follow from it |
| `QueueDelivery_proofs` | counters, delivery once, and the refinement |
| `SendPath` | the send path of two threads, cut at every access to a shared atomic |
| `DataFile` | the queue's data file cell by cell: torn records, failed writes, short reads |
| `IpcClient` | connection, reconnection, heartbeat, with the connection monitor |
| `UploadNotification` | row-lock queue, notification thread, start, stop and destruction |
| `IpcServer` | accept, byte stream, framing, heartbeats and their checker |
| `SendPath_proofs`, `DataFile_proofs`, `IpcClient_proofs`, `UploadNotification_proofs`, `IpcServer_proofs` | theorems about those |
| `SharedLemmas` | numbers, induction, recursion and sequences, for all the proofs |
| `MCPersistentMessageQueue`, `MCIpcClient`, `MCIpcServer` | values of constants for TLC |

Operators named `X_Something` before an `X`, commented "Mutant", are faulty
versions of `X`: the properties are known to fail with them. No specification
uses them.

### PersistentMessageQueue

Variables carry the names of the members without the underscore. `data_file` is
`messages.dat` as a sequence of records, each with the offset it starts at;
`index_file` is `messages.idx`, `partial` until its checksum is written. A
message is an identity, the id the queue gave it and its size in bytes. `phase`
is the call under way: `load_from_disk`, `flush_to_disk`, `clear` and the
destructor take several steps, so that a crash can fall between them; a crash
between the steps of the other operations has the effect of one before or after.
`Restart` is the constructor: it accepts the index file or scans the data file.

Ghost variables record what happened: `accepted`, `popped`, `forgotten` (in the
ring when the process ended, cleared, or read past by `load_from_disk()`).

`AppendTellsEnd` says what `tellp()` returns on a stream just opened for
appending, which the C++ library decides: its end (glibc), or 0 (MSVC) until the
first write. The program builds with MSVC only (`rpcrt4`, `/SUBSYSTEM:WINDOWS`), so
both runs take `FALSE`; the proofs take either. The ghost `told` of a record says
whether its offset was right. In the first process it always is, as the file is
empty; in a later one all are but the first it appends. `Describes` is what holds of
an entry in both cases. The entry that says 0 makes a read return the first record of
the file, or fail if the sizes differ: `PeekDeliversHead` is that finding
(`queue_peek`). A start that scans the file finds the right offset again, one that
loads the index file keeps the wrong one.

`pop_front()` and `dequeue()` consume the head's entry and with it, by position, its
record: `popped` holds the message that the entry was written for, whatever was read
in its place. `load_from_disk()` puts what it reads into the ring; when that is
another message, the one whose entry it was is `forgotten`.

`PersistentMessageQueue.h:46` says that messages are recovered by priority. No line
compares priorities: the model has none, and the refinement shows that a start
recovers what the file holds in the order of the file.

`TwoTierQueue` states the same abstractly: one message of a process, the first it
appends to a log that earlier ones left, may be `Misread`, keeps its place and may be
readable again after a start. `PersistentQueueRefinement` maps the disk tier to what
reads through the index return, `Misread` where that is another record.

Three facts follow from the model and are no property of it: `disk_read_pos_` is in
no file, so that messages popped before an exit are pending again after a start;
no operation but `clear()` shortens the data file, which outgrows `max_disk_size`;
`load_from_disk()` consumes records and leaves their bytes counted.

### DataFile

The same file below the level of records, as a sequence of cells: one for the
fixed part of a header, one for the length of the data, the data. `WriteToDisk`
writes a record or the beginning of one, after which the stream has failed and
writes nothing more in this run; `CrashInAppend` dies at any cell. The entry and
the size counter advance in any case, as no stream is asked. `SendHead`,
`ReadFromDisk` and `LoadStep` are the three ways a record is consumed: `peek()`
with a stream of its own followed by `pop_front()`, `dequeue()`, and a turn of
`load_from_disk()`; the last two use `data_reader_`, which stays failed after its
first short read. `Start` accepts the index file or hops through the file from
length to length. `append_tells_end` is the library, chosen once from `TellsEnd`.

`SendHead` is disabled while the head cannot be read: the client is then stuck
until the next start, although messages behind it are good. And a counter that
ran ahead of the file can come back to its size by consumption; the index file
saved then is accepted, counts too little, and the counter wraps below zero, so
that the disk looks full. TLC reaches both states; no property that holds
excludes them.

### SendPath

One `pc` per thread. Loads and stores of `write_pos_`, `read_pos_`, the ready
flags and `is_sending_` are steps of their own wherever the other thread could
tell the difference: `enqueue()` is one step after its load of `read_pos_`, as
only its final store of `write_pos_` publishes what it did, and only the
notification thread writes there. Operations under `disk_mutex_` are one step.
Sequential consistency is assumed; the code uses acquire and release on the
positions and flags and the default order on `is_sending_`. The data file is a
bounded sequence of messages: its details are the other module's subject. The
socket connects, is replaced and comes back; `IpcClient` says when.

`is_sending_` is cleared before the head is removed, so that both threads may be at
the same head. `send_path_loss` shows what is lost by it. It has a second consequence:
`peek()` on the notification thread may wait for the ready flag of a slot that
`pop_front()` released after its position was read, and only the waiting thread would
ever set it: the model reaches that state, in which `PeekSpin` is disabled for good,
against the "no deadlock" of `MessageQueue-Architecture.md:171`. The runs keep to the
loss, which comes from the same two lines.

### IpcClient

`io` is the io_context thread: one action per handler (`Handler`), and where the
owner's stores can make a difference the rest of the handler is a step of its own
(`HandlerStep`): `Retry` behind the tests of `try_reconnect()`, `LoseConnection` behind
the test of `record_send_failure()`, the state and the socket of `connect()`, the
heartbeat and the read of `handle_connect_result()`. `owner` is the main thread in
`disconnect()`, which goes store by store: the stop flag, the state, the heartbeat
(whose timer may be set again by its handler, if that is due or runs), the socket.
That is what `~Lusp_SyncFilesNotificationService()` does before it stops the
io_context.

`connect()` begins with its test of `is_connecting_` and nothing else, so an attempt
may begin while handlers of earlier ones are still to come. `live` counts the
operations of the present socket, `orphaned` those whose socket was closed or
destroyed. asio is in the repository (`client/3rdParty/include/asio/asio`): its
`close()` (`detail/impl/win_iocp_socket_service_base.ipp`, 164) takes back no
completion, so an orphaned handler comes with the error or with the success that its
operation had reached; only a connect fails in any case, as its operation asks
whether the socket is open first (`impl/connect.hpp`, 334). Handlers run in any order,
with one exception: the completion port is a queue
(`detail/impl/win_iocp_io_context.ipp`, 437), so the completions of closed sockets,
which entered it before the next socket was opened, are handled before that one's
connect can succeed (`AllSurfaced`). Timers are taken from the same loop at any
moment (line 427) and have no durations here: one that is set may fire at once.

The constructor of the service calls `connect()` before it starts the io thread,
which is `Init`; in the program only the reconnect timer calls it later. `Connect` is
an owner's further call, taken to run on the io thread. The server's name stands for
one address. A write of a queued message may start whenever the socket is open,
connecting included, as `is_connected()` only asks that. `HeartbeatTimer` sends the
PING, checks the time since the last PONG and sets the timer again; no handler calls
`handle_heartbeat_pong()`, so once the timeout passed (`silent`) only a new connection
resets the clock. A read or write on a destroyed socket is undefined in C++; it is
modelled as one on a closed socket.

Two statements of the repository fail. A connection that breaks gets no attempt
(`ipc_client_lost`): the flag that guards against double reconnections is set by the
change of state, and in the end the heartbeat's own timeout stops the client. And
`disconnect()` does not prevent a reconnection, although its comment (line 205) says so: of
`Retry`, `Disconnect` and the three steps behind it, `ReconnectTimer`, in this order after
a connect that failed, the last connects a client that was disconnected, as the
timer survives and its handler asks nothing. The program stops the io_context next,
so that the attempt ends with it; a caller that only disconnects is connected again.
No run is spent on those few steps. `StoppedStaysQuiet` says what is left: a client at
rest, with no such timer and no attempt under way, stays so.

### UploadNotification

Two threads, one step per access to the deque, the atomic counter and flags, or
the condition variable. `push()` and `waitAndPop()` hold different mutexes, which
exclude nothing of each other, and touch one `std::queue`; what the race does is
read from the deque of the library the project builds with (external in the map):
a map of cells, the offset of the first element and the count. `raced` records
that a push and a pop were inside together; what the properties promise only
without a race is marked so. A file moved out of its cell leaves an empty name,
which the loop takes for the sentinel; a cell never used ends the process.

`main` follows `main.cpp`: pushes of the user interface, `stop()` with the task that
joins and its time limit, the destructor with the io_context thread. The waiter
is `block` between its false test and its wait: neither `push()` nor `notifyAll()` holds
its mutex, so a notification there is lost. Pushes that the user makes later wake
it; `stop()` has no later one, and the future of `std::async` waits for the thread
beyond the time limit (`notification_stop`).

### IpcServer

One thread, one action per handler. A read completes (`ReadData`, `ReadEnds`) before
its handler runs, so that the checker may close the socket in between. `Loop` is
the framing loop of `do_read()`, `Value` and `Header` are the length on the wire in
digits of base `Base`, the sum of header and length is cut to 32 bits as in the
code. A message is a heartbeat if field 0 of its table is 0, as
the server asks no more; documents are uploads with that value
(`server_misread`). The clock may be set back once.

## Runs

| Run | Instance | Shows |
|---|---|---|
| `queue_client` | 3 slots, limit 3, sizes 1 and 2, 5 messages, 2 restarts, crashes | the queue as the client uses it |
| `queue_api` | 3 slots, limit 2, sizes 1 and 2, 4 messages, 1 restart, every operation | every operation in every order |
| `queue_peek` | as `queue_client` | `peek()` shows another message than the head |
| `data_file` | data of 1 and 2 cells, limit 8, 3 messages, 3 runs, both libraries | crashes and failed writes inside records |
| `send_path` | 3 slots, 1 on disk, 5 messages, 2 failures | the two threads interleaved |
| `send_path_loss` | 3 slots, 4 messages, no failure | a message removed and never sent |
| `ipc_client` | 2 attempts, 2 heartbeat failures, 3 events, 2 pings at a time | the connection, both threads |
| `ipc_client_lost` | 1 event, no call of the owner | a broken connection is never replaced |
| `notification` | 4 files, 8 cells, 2 starts | the two threads around the row-lock queue |
| `notification_stop` | 2 files, 1 start | `stop()` never returns |
| `ipc_server` | 1 connection, 2 messages, reads of up to 3 cells, base 3 | the stream, the maps, the checker |
| `server_misread` | the same | a document taken for a heartbeat |

The runs that end in a violation check one statement of a header, comment or
document against the code; `PROJECT.json` quotes it under "findings".

**Why the bounds are enough.** Three slots hold two messages, the least where
the ring wraps while non-empty. Five messages fill the ring and the disk and
still leave one to refuse or to store in a slot used before. Sizes 1 and 2 make
offsets differ from positions and let a record cross the limit. Two restarts are
the least for an index file of the first run to be stale in the third. In
`send_path` five messages wrap the ring and overflow while a write is under way;
two failures lose the socket and a write. In `ipc_client` two attempts are the least
where one is followed by another and the limit is still met; three events are a
connection lost, a `disconnect()` and a `connect()` or a second loss; two pings may have
handlers to come, as many as the failures that trigger a reconnection.

`data_file` needs two messages for damage with something behind it, a third for
what is appended after the next start, and three runs for an index file that is
stale when it is accepted. `notification` has four files for the deque to empty,
start again at its first cell and race; the map has more cells than files, as it
grows before it is full. In `ipc_server` a message is four or five cells, two of
them its length, and a read takes one to three: every cut inside a length, inside
a body and across messages occurs. Connections share the two maps and the checker
only, which treats each by itself; two sockets exceed what TLC can enumerate, and
`IpcServer_proofs` proves the safety properties for any number of them. The clock runs to 3 with a timeout of 1.

`queue_api` has one restart and does not check `FastPathAgrees`. With `clear()`, two
sizes and two restarts that does not hold: a crash between the removals of the two
files leaves an index file that a data file of the same size, written later,
makes look current. The program calls `clear()` nowhere; the theorems name the
assumption (`ClientUse`), the only one they make of the owner.

No run checks for deadlock: the counters are bounded, and a client that gave up,
or a queue with nothing more offered, stops.

**Fairness.** Safety needs none. `SendPath` assumes that both threads are
scheduled (weak fairness of each thread as a whole), that a write under way ends
and that a socket which is closed is connected again. `IpcClient` assumes that
the io_context runs each handler that is due and goes on with it (it is a single
thread that waits for nothing but its operations), that a `disconnect()` once begun
goes on, and that the clock advances: timers fire and the heartbeat's timeout passes.
Nothing is assumed of the server, the network or the owner's calls. `UploadNotification`
assumes that both threads are scheduled, that a push or a stop once begun goes on
and that the five seconds pass; wake-ups without a cause may come but are not
relied on, and the user need not push or quit. `IpcServer` assumes the same of its
io_context and nothing of clients, network and clock. `DataFile` has safety
properties only.

## Proofs

Every invariant and every action property that a passing run checks is proved,
for every value of the constants that satisfies the modules' assumptions, and so
is the refinement. What remains to TLC is liveness. Each proof has the same form:
an invariant that is inductive, one lemma per step or kind of step, and theorems
that read the properties off the invariant.

### The queue

`PersistentMessageQueue_proofs` proves for every capacity, limit, set of record
sizes, number of messages and restarts, every combination of operations but
`clear()` (`ClientUse`), and append streams of either kind:
`TypeCorrect`, `FrontIsReady`, `IndexStaysAligned`, `DiskSizeCorrect`,
`FastPathCorrect` and `NothingLostSilently`, all from `Invariance`, which says
that `IInv /\ NoSilentLoss` holds in every state.

None of the properties is inductive alone. That an accepted index file is
current is a fact about the past: it was whole and right when written, and the
data file has only grown since. `IndexFileIsPrefix` says what of that is still
visible: its entries describe the first records, and its total reaches at most
to the record after them. A data file of exactly that size then has no further
record (`AcceptedIndexIsWhole`). That the total is no larger rests on
`DiskAccounting`, which needs `IndexTilesFile` and `FileTiled` to tell the bytes
of one record from the next; `IndexTilesFile` in turn needs the accepted index
file at a restart. `LiveTyped`, `DownIsBlank` and `PhaseReached` close the gaps.

`QueueDelivery_proofs` continues:

- `CountersAgree` (`CountersMatch`): each step changes the sizes of ring and disk
  side by what it counts; a process that is down has counted nothing.
- `DeliveredOnce` (`SessionExactlyOnce`): no message is twice in the ring, in the
  pending records or in both (`NoneTwice`), nor twice in the whole file, which the
  next start finds pending (`FileOnce`). `load_from_disk()` followed by
  `flush_to_disk()` writes a second record of a message, and a restart then holds
  it twice: with that call and restarts together the property is false, as TLC
  finds at once. The theorem's assumption `OnceUse` excludes just that; the client
  never calls `load_from_disk()`.
- `Refinement` (`ImplementsTwoTierQueue`): `Init` maps to `Promise!Init` and each
  action to the step of `TwoTierQueue` it stands for, or to a stutter. An append
  shows as `Misread` exactly if the stream was just opened on a file with records
  (`WriteShows`); what a read through a right entry returns is its record, as the
  records tile the file (`ReadRecord`); that the appends of the first process are
  never misreported (`FirstRunTold`) is what `DeliveredOnce` needs with
  `load_from_disk()`.

### The data file

`DataFile_proofs` proves for every size, library and number of messages and runs
`TypeCorrect`, `RebuildFindsTheIntact` (`ScanFindsIntact`), `AppendsAreReadBack`
(`AppendedReadsBack`) and `TheIntactIsDelivered` (`IntactDelivered`).

`Layout` says that the file is the records one behind the other, each as far as it
got. A whole record is read back by an entry with its place and size (`ReadBack`);
the scan arrives at the end of each record in front of the first torn one
(`ScanLeads`, by induction on the records; `Hop` is one step). What a run is told of
the file without a scan is `IndexFileRight`: an index file has the right entry for
an intact record, or its total ends before that record, and then the comparison of
sizes rejects it. To keep this at the exit, the counter must not exceed the file,
which `Counted` shows as long as nothing is damaged; the records appended after a
damage no longer matter. `ReaderRight` says that `data_reader_` has failed only if a
damaged record is at or before the read position.

### The send path

`SendPath_proofs` proves for every ring, disk and number of messages and failures
`SendingIsExclusive` (`OneSender`), `TypeCorrect`, `NothingLostNorTwice` (`HeldOnce`)
and `OrderedWithoutDisk` (`SentInOrder`).

The flag, the threads inside and the writes under way are one lock, written out for
the two threads in `Lock`; it passes from thread to write (`StartWriteKeeps`) and is
released by the handler (`WriteEndsKeeps`), not by the socket that is replaced
(`ReplaceSocketKeeps`). `Positions` says what the threads' copies of the positions are
worth while the other moves on: what `enqueue()` loaded is too full, never too empty;
what `pop_front()` loaded is current; what `peek()` loaded is current, or its slot is
no longer ready and is never copied. `Placed` then gives each accepted message one
place, and `Known` and `Ordered` relate the messages written to those removed.

### The notification thread

`UploadNotification_proofs` proves for every number of files and starts, and every
map that holds the files, `TypeCorrect`, `NoFileTwice` (`SentAtMostOnce`), `OneFilePerStop`
(`StopDropsAtMostOne`), `NoFileLost` (`NothingLostUnlessRaced`), `LoopLastsUntilStop`
(`EndsOnlyWhenStopped`) and `CounterStaysAboveZero` (`CounterNeverWraps`).

The first three hold although pushes and pops race: `Deque` bounds offset and count
by the cells used, whatever stale value a thread stores, and `InOnePlace` says that a
file is in one cell, in the loop's hand or sent. `Costs` counts the file in hand at
the end of each run. The others are about runs without a race: `Fifo` (the cells from
the offset on are the files after those taken, and the registers of both threads
are current) and `CounterInv` (the counter is what was added less what was taken).

### The connection

`IpcClient_proofs` proves `TypeCorrect`, `ConnectingStandsForConnect`
(`ConnectingIsPending`), `AttemptAlwaysPending` (`NoDeadEnd`) and `StoppedIsQuiet`
(`StoppedStaysQuiet`) for every limit and any number of events, with both threads
interleaved. The first three are inductive together: that a connect is pending when
`connect()` did nothing is `ConnectingIsPending`, and where the threads are (`io`,
`owner`) says which stores are still to come. The functions the handlers call have
lemmas of their own.

### The server

`IpcServer_proofs` proves for any number of connections `TypeCorrect`, `MapsAgree`
(`RegisteredIsRead`), `NoLiveClientDropped` (`LiveClientKept`) and
`MessagesSurviveTheStream` (`HandledAsReceived`).

`RegisteredIsRead` is inductive with the shapes of the variables. That the checker
closes no client whose heartbeat was handled in time is a fact about an unsigned
difference of clock readings;
`HeartbeatTimed` adds what it lacks: until the clock is set back, the last heartbeat
and the time since add up to the present, so that the difference is that time and
does not wrap.

For the framing, `LengthReadBack` shows that the digits of a length give it back.
`Framed` says of each connection that buffer, chunk and network hold the rest of the
stream of frames, behind those handled, and that the buffer between two reads is
less than a frame. The loop takes whole frames from the front and stops at the first
that is not whole (`LoopTakes`, by induction on the messages left), wherever the
reads cut the stream.

### Recursion

The theorems of the library on induction take an operator as a parameter, which the
installed provers cannot instantiate. `SharedLemmas` states induction with a set
instead (`Induction`, from the least element of a set of naturals), and derives that
a recursion on the naturals (`Recursion`) or along a measure that decreases
(`TailRecursion`) defines a function. The framing loop, the ends of frames and the
scan of the data file are such recursions.

### Only model-checked

Liveness, which fairness puts out of the prover's reach: `PopFrontReturns`,
`ConnectsOrGivesUp`, `StopEndsLoop`, `BacklogDrains`, `SilentClientDropped`, `SentIsHandled`.
The queue's theorems exclude `clear()`, and `DeliveredOnce` excludes
`load_from_disk()` across restarts; `queue_api` checks `SlotsReady`, `DiskAccounting`,
`NoSilentLoss`, `CountersMatch` and the refinement with both calls.

## Not modelled, and why

- The backoff of reconnections and every duration: timers have no length. The
  shift and product overflow for many attempts, which is arithmetic of one line.
- The configuration: loaded once before any thread starts, conversions and
  comparisons of single values.
- The PING on the stream of a message under way: `async_write` of less than the
  socket's buffer goes out in one piece, so that only large messages can be cut;
  `SendPath` leaves the PING out, `IpcClient` has it as an operation.
- The PONG: its bytes lie in a local buffer that is gone when the write happens,
  and no client reads them as more than the end of a read.
- `socket_` is a shared pointer that one thread replaces while another reads it, and
  a pending connect keeps a reference to the socket it replaces: both are undefined
  in C++. The models take the pointer as one value and the old socket as closed.
- Weak memory beyond the orders above; exceptions of the resolver, of callbacks
  and of the loop's body; statistics, log lines.
- Operations nothing calls: `tryPop`, `clear` and `reset` of the row-lock queue,
  `broadcast` and `enable_heartbeat_check` of the server, `set_heartbeat_interval`.
- File information, widgets, generated code and third-party libraries: they hold
  no protocol of their own. They are nearly all of the repository's lines.

## Plan

Done: all modules above, and the proof of every safety property the passing runs
check. Open:

1. The queue's theorems with `clear()`: those that hold between two crashes.
2. What else can be said of a message behind a damaged record, beyond that the
   run that wrote it reads it back.
