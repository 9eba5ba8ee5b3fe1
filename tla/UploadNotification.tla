------------------------- MODULE UploadNotification -------------------------
(***************************************************************************)
(* The first stage of the client: the main thread puts the files the user  *)
(* picked into ThreadSafeRowLockQueue, the notification thread of          *)
(* Lusp_SyncFilesNotificationService takes them out and hands them to the  *)
(* IPC client.  main.cpp starts the service, runs the user interface,      *)
(* calls stop() and destroys the service, all on the main thread.          *)
(*                                                                         *)
(* push() and waitAndPop() hold different mutexes, so that they exclude    *)
(* nothing of each other, and share a std::queue.  What the race does is   *)
(* taken from the deque of the Microsoft library, which the build uses: a  *)
(* map of MapSize cells, the offset of the first element and a count,      *)
(* each read and written by plain loads and stores.                        *)
(*                                                                         *)
(* A file is its number in the order of the pushes.                        *)
(***************************************************************************)
EXTENDS Integers, Sequences, Functions

CONSTANTS
  MapSize,    \* cells of the deque's map; it grows when all but one are used
  SizeRange,  \* values of the atomic counter mSize, 2^64 in the code
  MaxFiles,   \* bound: files pushed
  MaxStarts   \* bound: calls of start(); main.cpp makes one

ASSUME MapAssumption == MapSize \in Nat /\ MaxFiles \in Nat /\ MaxFiles + 1 < MapSize
ASSUME RangeAssumption == SizeRange \in Nat /\ MaxFiles < SizeRange
ASSUME StartsAssumption == MaxStarts \in Nat \ {0}

VARIABLES
  cells,       \* the map: a file, Gone after it was moved out, Raw before any use
  off,         \* _Myoff, the cell of the first element
  count,       \* _Mysize
  mSize,
  mStopping,
  shouldStop,
  main,        \* where the main thread is
  main_reg,    \* its registers: the offset and the count it loaded
  loop,        \* where the notification thread is
  loop_reg,    \* its registers: the item and the count
  io,          \* the io_context thread: "running" or "ended"
  pushed,      \* ghost: files pushed
  taken,       \* ghost: what waitAndPop() returned, in order
  sent,        \* ghost: files handed to the IPC client, in order
  starts,      \* ghost: calls of start()
  raced        \* ghost: a push and a pop have been inside the deque together

deque == <<cells, off, count>>
flags == <<mStopping, shouldStop>>
ghost == <<pushed, taken, sent, starts, raced>>
vars  == <<deque, mSize, flags, main, main_reg, loop, loop_reg, io, ghost>>

Gone  == 0
Raw   == -1
Files == 1 .. MaxFiles

Pushing == {"place", "load_count", "store_count"}
Popping == {"front", "load_size", "store_size", "store_off"}
Alive   == main # "crashed"
-----------------------------------------------------------------------------
(* push() on the main thread: emplace_back of the deque under              *)
(* mEnqueueMutex, the counter, and the notification after the unlock.      *)
PushBegin ==
  /\ main = "ui" /\ pushed < MaxFiles
  /\ pushed' = pushed + 1
  /\ main_reg' = [main_reg EXCEPT !.off = off]
  /\ raced' = (raced \/ loop \in Popping)
  /\ main' = "place"
  /\ UNCHANGED <<deque, mSize, flags, loop, loop_reg, io, taken, sent, starts>>

(* The offset is cut to the map and stored back, and the element built. *)
PushPlace ==
  /\ main = "place"
  /\ off' = main_reg.off % MapSize
  /\ cells' = [cells EXCEPT ![(main_reg.off + count) % MapSize] = pushed]
  /\ main' = "load_count"
  /\ UNCHANGED <<count, mSize, flags, main_reg, loop, loop_reg, io, ghost>>

PushLoadCount ==
  /\ main = "load_count"
  /\ main_reg' = [main_reg EXCEPT !.count = count]
  /\ main' = "store_count"
  /\ UNCHANGED <<deque, mSize, flags, loop, loop_reg, io, ghost>>

PushStoreCount ==
  /\ main = "store_count"
  /\ count' = main_reg.count + 1
  /\ main' = "add"
  /\ UNCHANGED <<cells, off, mSize, flags, main_reg, loop, loop_reg, io, ghost>>

PushAdd ==
  /\ main = "add"
  /\ mSize' = (mSize + 1) % SizeRange
  /\ main' = "notify"
  /\ UNCHANGED <<deque, flags, main_reg, loop, loop_reg, io, ghost>>

(* A notification reaches a thread that is blocked, and nobody else. *)
Notify == loop' = IF loop = "blocked" THEN "test" ELSE loop

NotifyOne ==
  /\ main = "notify"
  /\ Notify
  /\ main' = "ui"
  /\ UNCHANGED <<deque, mSize, flags, main_reg, loop_reg, io, ghost>>
-----------------------------------------------------------------------------
(* stop() and the destructor on the main thread, after the event loop.     *)
StopExchange ==
  /\ main = "ui"
  /\ shouldStop' = TRUE
  /\ main' = IF shouldStop THEN "stopped" ELSE "notify_all"
  /\ UNCHANGED <<deque, mSize, mStopping, main_reg, loop, loop_reg, io, ghost>>

(* Mutant: the flag is not set, the waiter only woken. *)
NotifyAll_NoFlag ==
  /\ main = "notify_all"
  /\ main' = "wake_all"
  /\ UNCHANGED <<deque, mSize, flags, main_reg, loop, loop_reg, io, ghost>>

NotifyAll ==
  /\ main = "notify_all"
  /\ mStopping' = TRUE
  /\ main' = "wake_all"
  /\ UNCHANGED <<deque, mSize, shouldStop, main_reg, loop, loop_reg, io, ghost>>

WakeAll ==
  /\ main = "wake_all"
  /\ Notify
  /\ main' = "join"
  /\ UNCHANGED <<deque, mSize, flags, main_reg, loop_reg, io, ghost>>

(* The task that joins the thread finishes within five seconds. *)
JoinReturns ==
  /\ main = "join" /\ loop = "ended"
  /\ main' = "stopped"
  /\ UNCHANGED <<deque, mSize, flags, main_reg, loop, loop_reg, io, ghost>>

(* wait_for() times out and the thread is detached.  The future came from  *)
(* std::async: its destructor waits for the task, that is for the thread.  *)
JoinTimesOut ==
  /\ main = "join" /\ loop # "ended"
  /\ main' = "future"
  /\ UNCHANGED <<deque, mSize, flags, main_reg, loop, loop_reg, io, ghost>>

FutureDestroyed ==
  /\ main = "future" /\ loop = "ended"
  /\ main' = "stopped"
  /\ UNCHANGED <<deque, mSize, flags, main_reg, loop, loop_reg, io, ghost>>

(* The destructor calls stop() again, which does nothing, disconnects the  *)
(* client, stops the io_context and joins its thread the same way.         *)
Destroy ==
  /\ main = "stopped"
  /\ main' = "io_join"
  /\ UNCHANGED <<deque, mSize, flags, main_reg, loop, loop_reg, io, ghost>>

IoThreadEnds ==
  /\ main = "io_join" /\ io = "running"
  /\ io' = "ended"
  /\ UNCHANGED <<deque, mSize, flags, main, main_reg, loop, loop_reg, ghost>>

IoJoined ==
  /\ main = "io_join" /\ io = "ended"
  /\ main' = "destroyed"
  /\ UNCHANGED <<deque, mSize, flags, main_reg, loop, loop_reg, io, ghost>>

(* start() once more: mStopping stays set, as nothing calls reset(). *)
Start ==
  /\ main = "stopped" /\ starts < MaxStarts
  /\ shouldStop' = FALSE
  /\ loop' = "while"
  /\ main' = "ui"
  /\ starts' = starts + 1
  /\ UNCHANGED <<deque, mSize, mStopping, main_reg, loop_reg, io, pushed, taken, sent, raced>>
-----------------------------------------------------------------------------
(* notificationLoop() with waitAndPop() on the notification thread.        *)
LoopTest ==
  /\ Alive /\ loop = "while"
  /\ loop' = IF shouldStop THEN "ended" ELSE "test"
  /\ UNCHANGED <<deque, mSize, flags, main, main_reg, loop_reg, io, ghost>>

(* Mutant: the predicate asks the deque. *)
Ready_Deque == count > 0 \/ mStopping

(* Mutant: the last file is left. *)
Ready_OffByOne == mSize > 1 \/ mStopping

(* The predicate of the wait. *)
Ready == mSize > 0 \/ mStopping

WaitTest ==
  /\ Alive /\ loop = "test"
  /\ loop' = IF Ready THEN "check" ELSE "block"
  /\ UNCHANGED <<deque, mSize, flags, main, main_reg, loop_reg, io, ghost>>

(* The predicate was false: the thread becomes a waiter a moment later.    *)
(* Neither push() nor notifyAll() hold mDequeueMutex.                      *)
Block ==
  /\ Alive /\ loop = "block"
  /\ loop' = "blocked"
  /\ UNCHANGED <<deque, mSize, flags, main, main_reg, loop_reg, io, ghost>>

SpuriousWake ==
  /\ Alive /\ loop = "blocked"
  /\ loop' = "test"
  /\ UNCHANGED <<deque, mSize, flags, main, main_reg, loop_reg, io, ghost>>

(* Mutant: pop without asking whether the deque is empty. *)
CheckEmpty_Unchecked ==
  /\ Alive /\ loop = "check"
  /\ loop' = "front"
  /\ raced' = (raced \/ main \in Pushing)
  /\ UNCHANGED <<deque, mSize, flags, main, main_reg, loop_reg, io, pushed, taken, sent, starts>>

(* waitAndPop() returns false when the deque looks empty, stopping or not. *)
CheckEmpty ==
  /\ Alive /\ loop = "check"
  /\ loop' = IF count = 0 THEN "false" ELSE "front"
  /\ raced' = (raced \/ (count # 0 /\ main \in Pushing))
  /\ UNCHANGED <<deque, mSize, flags, main, main_reg, loop_reg, io, pushed, taken, sent, starts>>

(* Mutant: false is taken for a stop. *)
ReturnedFalse_Ends ==
  /\ Alive /\ loop = "false"
  /\ loop' = "ended"
  /\ UNCHANGED <<deque, mSize, flags, main, main_reg, loop_reg, io, ghost>>

ReturnedFalse ==
  /\ Alive /\ loop = "false"
  /\ loop' = IF shouldStop THEN "ended" ELSE "while"
  /\ UNCHANGED <<deque, mSize, flags, main, main_reg, loop_reg, io, ghost>>

(* Moving out of a cell never used is an access to memory nobody built an  *)
(* object in, and ends the process.                                        *)
TakeRaw ==
  /\ Alive /\ loop = "front" /\ cells[off % MapSize] = Raw
  /\ main' = "crashed"
  /\ UNCHANGED <<deque, mSize, flags, main_reg, loop, loop_reg, io, ghost>>

(* Mutant: the element is copied and stays. *)
TakeFront_Copies ==
  /\ Alive /\ loop = "front" /\ cells[off % MapSize] # Raw
  /\ loop_reg' = [loop_reg EXCEPT !.item = cells[off % MapSize]]
  /\ loop' = "load_size"
  /\ UNCHANGED <<deque, mSize, flags, main, main_reg, io, ghost>>

TakeFront ==
  /\ Alive /\ loop = "front" /\ cells[off % MapSize] # Raw
  /\ loop_reg' = [loop_reg EXCEPT !.item = cells[off % MapSize]]
  /\ cells' = [cells EXCEPT ![off % MapSize] = Gone]
  /\ loop' = "load_size"
  /\ UNCHANGED <<off, count, mSize, flags, main, main_reg, io, ghost>>

PopLoadSize ==
  /\ Alive /\ loop = "load_size"
  /\ loop_reg' = [loop_reg EXCEPT !.count = count]
  /\ loop' = "store_size"
  /\ UNCHANGED <<deque, mSize, flags, main, main_reg, io, ghost>>

PopStoreSize ==
  /\ Alive /\ loop = "store_size"
  /\ count' = loop_reg.count - 1
  /\ loop' = "store_off"
  /\ UNCHANGED <<cells, off, mSize, flags, main, main_reg, loop_reg, io, ghost>>

(* An empty deque starts again at its first cell. *)
NextOff == IF loop_reg.count = 1 THEN 0 ELSE off + 1

PopStoreOff ==
  /\ Alive /\ loop = "store_off"
  /\ off' = NextOff
  /\ mSize' = (mSize - 1) % SizeRange
  /\ taken' = Append(taken, loop_reg.item)
  /\ loop' = "got"
  /\ UNCHANGED <<cells, count, flags, main, main_reg, loop_reg, io, pushed, sent, starts, raced>>

(* Mutant: after a stop the queue is emptied before the loop ends. *)
Got_Drains ==
  /\ Alive /\ loop = "got"
  /\ IF shouldStop \/ loop_reg.item = Gone
     THEN loop' = (IF count = 0 THEN "ended" ELSE "check") /\ UNCHANGED sent
     ELSE loop' = "while" /\ sent' = Append(sent, loop_reg.item)
  /\ UNCHANGED <<deque, mSize, flags, main, main_reg, loop_reg, io, pushed, taken, starts, raced>>

(* waitAndPop() returned true.  A stop seen here drops the file, an empty  *)
(* name, which a string moved from has, ends the loop like a sentinel.     *)
Got ==
  /\ Alive /\ loop = "got"
  /\ IF shouldStop \/ loop_reg.item = Gone
     THEN loop' = "ended" /\ UNCHANGED sent
     ELSE loop' = "while" /\ sent' = Append(sent, loop_reg.item)
  /\ UNCHANGED <<deque, mSize, flags, main, main_reg, loop_reg, io, pushed, taken, starts, raced>>
-----------------------------------------------------------------------------
(* The constructor and the first start(). *)
Init ==
  /\ cells = [i \in 0 .. MapSize - 1 |-> Raw] /\ off = 0 /\ count = 0
  /\ mSize = 0 /\ mStopping = FALSE /\ shouldStop = FALSE
  /\ main = "ui" /\ main_reg = [off |-> 0, count |-> 0]
  /\ loop = "while" /\ loop_reg = [item |-> Gone, count |-> 0]
  /\ io = "running"
  /\ pushed = 0 /\ taken = <<>> /\ sent = <<>> /\ starts = 1 /\ raced = FALSE

Push == PushBegin \/ PushPlace \/ PushLoadCount \/ PushStoreCount \/ PushAdd \/ NotifyOne
Join == JoinReturns \/ JoinTimesOut \/ FutureDestroyed
Stop == StopExchange \/ NotifyAll \/ WakeAll \/ Join
Exit == Destroy \/ IoThreadEnds \/ IoJoined
Pop  == TakeRaw \/ TakeFront \/ PopLoadSize \/ PopStoreSize \/ PopStoreOff
Loop == LoopTest \/ WaitTest \/ Block \/ CheckEmpty \/ ReturnedFalse \/ Pop \/ Got

Next == Push \/ Stop \/ Exit \/ Start \/ Loop \/ SpuriousWake

(* Both threads are scheduled and the five seconds pass.  The user need    *)
(* neither push nor quit, and no wake-up without a cause is relied on.     *)
Fairness ==
  /\ WF_vars(Loop)
  /\ WF_vars(Push /\ main # "ui")
  /\ WF_vars((Stop /\ main # "ui") \/ Exit)

Spec == Init /\ [][Next]_vars /\ Fairness
-----------------------------------------------------------------------------
(* Types; the offset and the count stay inside the map, race or no race.   *)
TypeOK ==
  /\ cells \in [0 .. MapSize - 1 -> Files \union {Gone, Raw}]
  /\ off \in 0 .. MapSize /\ count \in 0 .. MaxFiles
  /\ mSize \in 0 .. SizeRange - 1
  /\ mStopping \in BOOLEAN /\ shouldStop \in BOOLEAN /\ raced \in BOOLEAN
  /\ main \in Pushing \union {"ui", "add", "notify", "notify_all", "wake_all", "join",
                              "future", "stopped", "io_join", "destroyed", "crashed"}
  /\ main_reg \in [off : 0 .. MapSize, count : 0 .. MaxFiles]
  /\ loop \in Popping \union {"while", "test", "block", "blocked", "check", "false", "got", "ended"}
  /\ loop_reg \in [item : Files \union {Gone}, count : 0 .. MaxFiles]
  /\ io \in {"running", "ended"}
  /\ pushed \in 0 .. MaxFiles /\ starts \in 1 .. MaxStarts
  /\ taken \in Seq(Files \union {Gone}) /\ sent \in Seq(Files)

(* Whatever the race does to the deque, no file goes to the IPC client     *)
(* twice: stale offsets lead back to cells whose file was moved out.       *)
SentAtMostOnce == IsInjective(sent)

(* The elements of the deque as the pop sees them; between the steps of a  *)
(* push or a pop it is neither here nor there.                             *)
Contents == [i \in 1 .. count |-> cells[(off + i - 1) % MapSize]]
Quiet == main \notin Pushing /\ loop \notin Popping

(* As long as no push met a pop inside the deque every file is accounted   *)
(* for, in order: what waitAndPop() returned, then what the deque holds.   *)
(* None is lost, doubled or overtaken, through resets of the offset, stops *)
(* and restarts.  With a race this is false: a count stored over another   *)
(* hides a file, or makes the pop read a cell that holds none.             *)
NothingLostUnlessRaced == Quiet /\ ~raced => taken \o Contents = [i \in 1 .. pushed |-> i]

(* The loop ends by itself only after such a race: the empty name that     *)
(* waitAndPop() then returns is taken for the sentinel.                    *)
EndsOnlyWhenStopped == ~raced => (loop = "ended" => shouldStop) /\ main # "crashed"

(* The counter the wait and the window go by does not wrap below zero: the *)
(* wait lets a pop through only after the push it matches was counted.     *)
(* Once mStopping is set it lets every pop through; then it takes that the *)
(* deque holds nothing uncounted, which a race or a second start() undo.   *)
CounterNeverWraps == ~mStopping \/ (starts = 1 /\ ~raced) => mSize <= pushed

(* A file taken and not sent is lost for good: the stop costs at most the  *)
(* one file in hand, also when more are queued, race or no race: an empty  *)
(* name ends the loop as well.                                             *)
StopDropsAtMostOne == Len(taken) - Len(sent) <= starts

(* The loop ends after stop() if it is not between the test and the wait   *)
(* at the moment of the notification.                                      *)
StopEndsLoop ==
  (main = "wake_all" /\ loop # "block") ~> (loop = "ended" \/ main = "crashed" \/ starts > 1)

(* Files counted and not yet taken are taken while the loop is awake: only *)
(* the window before the wait can leave them lying.                        *)
BacklogDrains ==
  (mSize > 0 /\ loop \notin {"block", "blocked"})
     ~> (mSize = 0 \/ raced \/ shouldStop)

(* stop() waits for the thread no longer than five seconds. *)
StopReturns == (main = "join") ~> (main = "stopped")
=============================================================================
