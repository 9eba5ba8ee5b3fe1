---------------------- MODULE UploadNotification_proofs ----------------------
(***************************************************************************)
(* Proofs about UploadNotification, for every number of files and starts   *)
(* and every size of the map that the files fit in.                        *)
(***************************************************************************)
EXTENDS UploadNotification, FiniteSetTheorems, TLAPS

(***************************************************************************)
(* Where the threads are.                                                  *)
(***************************************************************************)
Stopping == {"notify_all", "wake_all", "join", "future", "stopped", "io_join", "destroyed",
             "crashed"}
MainLabels == Pushing \union Stopping \union {"ui", "add", "notify"}
LoopLabels == Popping \union {"while", "test", "block", "blocked", "check", "false", "got", "ended"}

Control ==
  /\ main \in MainLabels /\ loop \in LoopLabels /\ io \in {"running", "ended"}
  /\ mStopping \in BOOLEAN /\ shouldStop \in BOOLEAN /\ raced \in BOOLEAN
  /\ pushed \in 0 .. MaxFiles /\ starts \in 1 .. MaxStarts
  /\ main \in Pushing \union {"add"} => pushed > 0

(* Once the flag is set the main thread pushes no more; it is reset only   *)
(* after the notification thread ended.                                    *)
Stopped ==
  /\ shouldStop => main \in Stopping
  /\ main \in Stopping => shouldStop \/ main = "crashed"
  /\ mStopping => shouldStop \/ starts > 1
  /\ main = "stopped" => loop = "ended"

LEMMA InitControl == Init => Control /\ Stopped
<1>. SUFFICES ASSUME Init
              PROVE  Control /\ Stopped
  OBVIOUS
<1>1. /\ main = "ui" /\ loop = "while" /\ io = "running" /\ pushed = 0 /\ starts = 1
      /\ mStopping = FALSE /\ shouldStop = FALSE /\ raced = FALSE
  BY DEF Init
<1>2. /\ main \in MainLabels /\ loop \in LoopLabels
      /\ main \notin Pushing \union Stopping \union {"add"}
  BY <1>1 DEF MainLabels, LoopLabels, Pushing, Stopping
<1>3. pushed \in 0 .. MaxFiles /\ starts \in 1 .. MaxStarts
  BY <1>1, MapAssumption, StartsAssumption
<1>. QED
  BY <1>1, <1>2, <1>3 DEF Control, Stopped

LEMMA MainControl ==
  ASSUME Control, Stopped, Push \/ Stop \/ Exit \/ Start
  PROVE  Control' /\ Stopped'
<1>1. CASE Push
  <2>1. CASE PushBegin
    BY <2>1, MapAssumption DEF Control, Stopped, PushBegin, flags, MainLabels, Pushing, Stopping
  <2>2. CASE NotifyOne
    BY <2>2 DEF NotifyOne, Notify, flags, ghost, Control, Stopped, MainLabels, LoopLabels, Pushing,
       Stopping
  <2>3. CASE PushPlace \/ PushLoadCount \/ PushStoreCount \/ PushAdd
    BY <2>3 DEF PushPlace, PushLoadCount, PushStoreCount, PushAdd, flags, ghost, Control, Stopped,
       MainLabels, Pushing, Stopping
  <2>. QED
    BY <1>1, <2>1, <2>2, <2>3 DEF Push
<1>2. CASE Stop
  <2>1. CASE StopExchange
    <3>1. /\ shouldStop' = TRUE /\ main' = "notify_all"
          /\ UNCHANGED <<mStopping, loop, io, raced, pushed, starts>>
      BY <2>1 DEF StopExchange, ghost, Stopped, Stopping
    <3>. QED
      BY <3>1 DEF Control, Stopped, MainLabels, Pushing, Stopping
  <2>2. CASE NotifyAll
    BY <2>2 DEF NotifyAll, ghost, Control, Stopped, MainLabels, Pushing, Stopping
  <2>3. CASE WakeAll
    BY <2>3 DEF WakeAll, Notify, flags, ghost, Control, Stopped, MainLabels, LoopLabels, Pushing,
       Stopping
  <2>4. CASE Join
    BY <2>4 DEF Join, JoinReturns, JoinTimesOut, FutureDestroyed, flags, ghost, Control, Stopped,
       MainLabels, Pushing, Stopping
  <2>. QED
    BY <1>2, <2>1, <2>2, <2>3, <2>4 DEF Stop
<1>3. CASE Exit
  BY <1>3 DEF Exit, Destroy, IoThreadEnds, IoJoined, flags, ghost, Control, Stopped, MainLabels,
     Pushing, Stopping
<1>4. CASE Start
  <2>1. /\ main' = "ui" /\ loop' = "while" /\ shouldStop' = FALSE /\ starts' = starts + 1
        /\ starts' \in 1 .. MaxStarts /\ starts' > 1
        /\ UNCHANGED <<mStopping, io, raced, pushed>>
    BY <1>4, StartsAssumption DEF Start, Control
  <2>2. main' \in MainLabels /\ loop' \in LoopLabels /\ main' \notin Pushing \union Stopping
    BY <2>1 DEF MainLabels, LoopLabels, Pushing, Stopping
  <2>. QED
    BY <2>1, <2>2 DEF Control, Stopped
<1>. QED
  BY <1>1, <1>2, <1>3, <1>4

LEMMA LoopControl ==
  ASSUME Control, Stopped, Loop \/ SpuriousWake
  PROVE  Control' /\ Stopped'
<1>1. CASE LoopTest \/ WaitTest \/ Block \/ ReturnedFalse \/ SpuriousWake
  BY <1>1 DEF LoopTest, WaitTest, Block, ReturnedFalse, SpuriousWake, flags, ghost, Control,
     Stopped, LoopLabels
<1>2. CASE CheckEmpty
  BY <1>2 DEF Control, Stopped, CheckEmpty, flags, LoopLabels, Popping
<1>3. CASE TakeRaw
  BY <1>3 DEF Control, Stopped, TakeRaw, flags, ghost, MainLabels, Pushing, Stopping
<1>4. CASE TakeFront \/ PopLoadSize \/ PopStoreSize
  BY <1>4 DEF TakeFront, PopLoadSize, PopStoreSize, flags, ghost, Control, Stopped, LoopLabels,
     Popping
<1>5. CASE PopStoreOff \/ Got
  BY <1>5 DEF Control, Stopped, PopStoreOff, Got, flags, LoopLabels
<1>. QED
  BY <1>1, <1>2, <1>3, <1>4, <1>5 DEF Loop, Pop

LEMMA StepControl == Control /\ Stopped /\ [Next]_vars => Control' /\ Stopped'
<1>1. Control /\ Stopped /\ UNCHANGED vars => Control' /\ Stopped'
  BY DEF vars, flags, ghost, Control, Stopped
<1>. QED
  BY <1>1, MainControl, LoopControl DEF Next
-----------------------------------------------------------------------------
(* The steps that touch neither the deque nor what was taken and sent.     *)

ControlOnly ==
  /\ UNCHANGED <<cells, off, count, mSize, main_reg, loop_reg, pushed, taken, sent>>
  /\ main' = main \/ main' \notin Pushing \union {"add"}
  /\ \/ loop' = loop
     \/ loop' \notin Popping \union {"check", "got"}
     \/ loop = "test" /\ loop' = "check" /\ Ready
     \/ loop = "check" /\ loop' = "front" /\ count # 0

DataStep ==
  \/ PushBegin \/ PushPlace \/ PushLoadCount \/ PushStoreCount \/ PushAdd
  \/ TakeFront \/ PopLoadSize \/ PopStoreSize \/ PopStoreOff \/ Got

LEMMA ControlOrData ==
  ASSUME Control, [Next]_vars
  PROVE  ControlOnly \/ DataStep
<1>1. CASE UNCHANGED vars
  BY <1>1 DEF vars, deque, ghost, ControlOnly
<1>2. CASE NotifyOne \/ Stop \/ Exit \/ Start
  <2>1. UNCHANGED <<cells, off, count, mSize, main_reg, loop_reg, pushed, taken, sent>>
    BY <1>2 DEF NotifyOne, Stop, StopExchange, NotifyAll, WakeAll, Join, JoinReturns,
       JoinTimesOut, FutureDestroyed, Exit, Destroy, IoThreadEnds, IoJoined, Start, deque, ghost
  <2>2. main' = main \/ main' \notin Pushing \union {"add"}
    BY <1>2 DEF NotifyOne, Stop, StopExchange, NotifyAll, WakeAll, Join, JoinReturns,
       JoinTimesOut, FutureDestroyed, Exit, Destroy, IoThreadEnds, IoJoined, Start, Pushing
  <2>3. loop' = loop \/ loop' \notin Popping \union {"check", "got"}
    BY <1>2 DEF NotifyOne, Notify, Stop, StopExchange, NotifyAll, WakeAll, Join, JoinReturns,
       JoinTimesOut, FutureDestroyed, Exit, Destroy, IoThreadEnds, IoJoined, Start, Popping
  <2>. QED
    BY <2>1, <2>2, <2>3 DEF ControlOnly
<1>3. CASE LoopTest \/ Block \/ SpuriousWake \/ ReturnedFalse \/ TakeRaw
  BY <1>3 DEF LoopTest, Block, SpuriousWake, ReturnedFalse, TakeRaw, deque, ghost, ControlOnly,
     Pushing, Popping
<1>4. CASE WaitTest \/ CheckEmpty
  BY <1>4 DEF WaitTest, CheckEmpty, deque, ghost, ControlOnly, Popping
<1>. QED
  BY <1>1, <1>2, <1>3, <1>4 DEF Next, Push, Loop, Pop, DataStep
-----------------------------------------------------------------------------
(* The values, the count and the offset.                                   *)

Cells == 0 .. MapSize - 1

Values ==
  /\ cells \in [Cells -> Files \union {Gone, Raw}]
  /\ mSize \in 0 .. SizeRange - 1
  /\ main_reg \in [off : 0 .. MaxFiles, count : 0 .. MaxFiles]
  /\ loop_reg \in [item : Files \union {Gone}, count : 0 .. MaxFiles]
  /\ taken \in Seq(Files \union {Gone}) /\ sent \in Seq(Files)

(* Files whose push has stored its count. *)
Counted == IF main \in Pushing THEN pushed - 1 ELSE pushed

(* The count may be wrong after a race, but never above the pushes, and a  *)
(* pop that found it positive never stores it below zero.                  *)
Counts ==
  /\ count \in 0 .. Counted
  /\ main = "store_count" => main_reg.count \in 0 .. Counted
  /\ loop \in {"front", "load_size"} => count >= 1
  /\ loop \in {"store_size", "store_off"} => loop_reg.count \in 1 .. Counted

(* Cells in use once are never raw again, and no more of them than files   *)
(* were placed; the offset advances over such cells only.                  *)
UsedCells     == {i \in Cells : cells[i] # Raw}
UsedBefore(x) == \A i \in 0 .. x - 1 : cells[i] # Raw
PlacedFiles   == IF main = "place" THEN pushed - 1 ELSE pushed
Removing      == {"load_size", "store_size", "store_off"}

Offsets ==
  /\ Cardinality(UsedCells) <= PlacedFiles
  /\ off \in 0 .. MaxFiles /\ UsedBefore(off)
  /\ main = "place" => UsedBefore(main_reg.off) /\ (off = main_reg.off \/ cells[main_reg.off] # Raw)
  /\ loop \in Removing => cells[off] # Raw

LEMMA SmallMod == \A x \in Cells : x % MapSize = x
BY MapAssumption DEF Cells

LEMMA CellOf == \A x \in Int : x % MapSize \in Cells
BY MapAssumption DEF Cells

(* There are at least as many used cells as the offset says. *)
LEMMA UsedBound ==
  ASSUME NEW n \in 0 .. MapSize, UsedBefore(n)
  PROVE  IsFiniteSet(UsedCells) /\ Cardinality(UsedCells) \in Nat /\ n <= Cardinality(UsedCells)
<1>1. IsFiniteSet(Cells)
  BY FS_Interval, MapAssumption DEF Cells
<1>2. IsFiniteSet(UsedCells) /\ Cardinality(UsedCells) \in Nat
  BY <1>1, FS_Subset, FS_CardinalityType DEF UsedCells
<1>3. 0 .. n - 1 \subseteq UsedCells
  BY MapAssumption DEF UsedCells, UsedBefore, Cells
<1>4. n \in Int /\ Cardinality(0 .. n - 1) = n
  <2>1. n \in Nat /\ n - 1 \in Int
    BY MapAssumption
  <2>2. Cardinality(0 .. n - 1) = IF 0 > n - 1 THEN 0 ELSE (n - 1) - 0 + 1
    BY <2>1, FS_Interval
  <2>. QED
    BY <2>1, <2>2
<1>5. Cardinality(0 .. n - 1) <= Cardinality(UsedCells)
  BY <1>2, <1>3, FS_Subset
<1>. QED
  BY <1>2, <1>4, <1>5

Deque == Values /\ Counts /\ Offsets

LEMMA InitDeque == Init => Deque
<1>. SUFFICES ASSUME Init
              PROVE  Deque
  OBVIOUS
<1>1. Values
  BY MapAssumption, RangeAssumption DEF Init, Values, Cells, Files
<1>2. Counts
  BY MapAssumption DEF Init, Counts, Counted, Pushing
<1>3. Offsets
  <2>1. UsedCells = {}
    BY DEF Init, UsedCells, Cells, Raw
  <2>2. Cardinality(UsedCells) = 0
    BY <2>1, FS_EmptySet
  <2>. QED
    BY <2>2, MapAssumption DEF Init, Offsets, UsedBefore, PlacedFiles, Removing
<1>. QED
  BY <1>1, <1>2, <1>3 DEF Deque

LEMMA ControlDeque ==
  ASSUME Control, Control', Deque, ControlOnly
  PROVE  Deque'
<1>. USE DEF Deque, ControlOnly
<1>1. Values'
  BY DEF Values
<1>2. Counted \in Int /\ Counted' \in Int /\ Counted <= Counted'
  BY MapAssumption DEF Control, Counted
<1>3. Counts'
  <2>1. count' \in 0 .. Counted'
    BY <1>2 DEF Counts
  <2>2. main' = "store_count" => main_reg'.count \in 0 .. Counted'
    BY <1>2 DEF Counts, Pushing
  <2>3. loop' \in {"front", "load_size"} => count' >= 1
    BY <1>2 DEF Counts, Popping
  <2>4. loop' \in {"store_size", "store_off"} => loop_reg'.count \in 1 .. Counted'
    BY <1>2 DEF Counts, Popping
  <2>. QED
    BY <2>1, <2>2, <2>3, <2>4 DEF Counts
<1>4. Offsets'
  <2>1. PlacedFiles \in Int /\ PlacedFiles' \in Int /\ PlacedFiles <= PlacedFiles'
    BY MapAssumption DEF Control, PlacedFiles, Pushing
  <2>2. UsedCells' = UsedCells /\ \A x : UsedBefore(x)' <=> UsedBefore(x)
    BY DEF UsedCells, UsedBefore
  <2>3. IsFiniteSet(UsedCells) /\ Cardinality(UsedCells) \in Nat
    BY UsedBound, MapAssumption DEF Offsets
  <2>4. Cardinality(UsedCells') <= PlacedFiles'
    BY <2>1, <2>2, <2>3 DEF Offsets
  <2>5. main' = "place" => main = "place"
    BY DEF Pushing
  <2>6. loop' \in Removing => loop \in Removing
    BY DEF Removing, Popping
  <2>. QED
    BY <2>2, <2>4, <2>5, <2>6 DEF Offsets, UsedBefore
<1>. QED
  BY <1>1, <1>3, <1>4
LEMMA PushValues ==
  ASSUME Control, Deque, PushBegin \/ PushPlace \/ PushLoadCount \/ PushStoreCount \/ PushAdd
  PROVE  Values' /\ Counts'
<1>. USE DEF Deque
<1>1. /\ UNCHANGED <<loop, loop_reg, taken, sent>>
      /\ count \in Int /\ off \in 0 .. MaxFiles /\ pushed \in 0 .. MaxFiles
      /\ main_reg \in [off : 0 .. MaxFiles, count : 0 .. MaxFiles]
  BY MapAssumption DEF PushBegin, PushPlace, PushLoadCount, PushStoreCount, PushAdd, ghost,
     Control, Counts, Offsets, Counted, Values
<1>2. CASE PushBegin
  <2>1. /\ UNCHANGED <<cells, off, count, mSize>> /\ pushed' = pushed + 1 /\ pushed < MaxFiles
        /\ main = "ui" /\ main' = "place" /\ main_reg' = [main_reg EXCEPT !.off = off]
    BY <1>2 DEF PushBegin, deque
  <2>2. main_reg' \in [off : 0 .. MaxFiles, count : 0 .. MaxFiles]
    BY <1>1, <2>1
  <2>3. Counted = pushed /\ Counted' = pushed
    BY <1>1, <2>1 DEF Counted, Pushing
  <2>. QED
    BY <1>1, <2>1, <2>2, <2>3 DEF Values, Counts
<1>3. CASE PushPlace
  <2>1. /\ UNCHANGED <<count, mSize, main_reg, pushed>> /\ main = "place" /\ main' = "load_count"
        /\ cells' = [cells EXCEPT ![(main_reg.off + count) % MapSize] = pushed]
    BY <1>3 DEF PushPlace, ghost
  <2>2. pushed \in Files
    BY <1>1, <2>1 DEF Control, Pushing, Files
  <2>3. cells' \in [Cells -> Files \union {Gone, Raw}]
    BY <2>1, <2>2 DEF Values
  <2>4. Counted' = Counted
    BY <2>1 DEF Counted, Pushing
  <2>. QED
    BY <1>1, <2>1, <2>3, <2>4 DEF Values, Counts
<1>4. CASE PushLoadCount
  <2>1. /\ UNCHANGED <<cells, count, mSize, pushed>> /\ main = "load_count" /\ main' = "store_count"
        /\ main_reg' = [main_reg EXCEPT !.count = count]
    BY <1>4 DEF PushLoadCount, deque, ghost
  <2>2. Counted' = Counted /\ Counted = pushed - 1
    BY <2>1 DEF Counted, Pushing
  <2>3. count \in 0 .. MaxFiles
    BY <1>1, <2>2, MapAssumption DEF Counts
  <2>4. main_reg' \in [off : 0 .. MaxFiles, count : 0 .. MaxFiles] /\ main_reg'.count = count
    BY <1>1, <2>1, <2>3
  <2>. QED
    BY <1>1, <2>1, <2>2, <2>4 DEF Values, Counts
<1>5. CASE PushStoreCount
  <2>1. /\ UNCHANGED <<cells, mSize, pushed, main_reg>> /\ main = "store_count" /\ main' = "add"
        /\ count' = main_reg.count + 1
    BY <1>5 DEF PushStoreCount, ghost
  <2>2. Counted' = pushed /\ Counted = pushed - 1
    BY <2>1 DEF Counted, Pushing
  <2>3. main_reg.count \in 0 .. pushed - 1
    BY <2>1, <2>2 DEF Counts
  <2>4. count' \in 0 .. Counted' /\ count' >= 1
    BY <1>1, <2>1, <2>2, <2>3
  <2>5. loop' \in {"store_size", "store_off"} => loop_reg'.count \in 1 .. Counted'
    BY <1>1, <2>2 DEF Counts
  <2>. QED
    BY <1>1, <2>1, <2>4, <2>5 DEF Values, Counts
<1>6. CASE PushAdd
  <2>1. /\ UNCHANGED <<cells, count, pushed, main_reg>> /\ main = "add" /\ main' = "notify"
        /\ mSize' = (mSize + 1) % SizeRange
    BY <1>6 DEF PushAdd, deque, ghost
  <2>2. mSize' \in 0 .. SizeRange - 1
    BY <2>1, RangeAssumption, MapAssumption DEF Values
  <2>3. Counted' = Counted
    BY <2>1 DEF Counted, Pushing
  <2>. QED
    BY <1>1, <2>1, <2>2, <2>3 DEF Values, Counts
<1>. QED
  BY <1>2, <1>3, <1>4, <1>5, <1>6

LEMMA PopValues ==
  ASSUME Control, Deque, TakeFront \/ PopLoadSize \/ PopStoreSize \/ PopStoreOff \/ Got
  PROVE  Values' /\ Counts'
<1>. USE DEF Deque
<1>1. /\ UNCHANGED <<main, main_reg, pushed>> /\ Counted' = Counted
      /\ count \in 0 .. Counted /\ off \in 0 .. MaxFiles /\ Counted \in Int /\ Counted <= MaxFiles
      /\ loop_reg \in [item : Files \union {Gone}, count : 0 .. MaxFiles]
  BY MapAssumption DEF TakeFront, PopLoadSize, PopStoreSize, PopStoreOff, Got, ghost,
     Control, Counts, Offsets, Counted, Values
<1>2. CASE TakeFront
  <2>1. /\ UNCHANGED <<count, mSize, taken, sent>> /\ loop = "front" /\ loop' = "load_size"
        /\ cells[off % MapSize] # Raw
        /\ cells' = [cells EXCEPT ![off % MapSize] = Gone]
        /\ loop_reg' = [loop_reg EXCEPT !.item = cells[off % MapSize]]
    BY <1>2 DEF TakeFront, ghost
  <2>2. off % MapSize \in Cells
    BY <1>1, CellOf, MapAssumption
  <2>3. cells[off % MapSize] \in Files \union {Gone}
    BY <2>1, <2>2 DEF Values
  <2>4. loop_reg' \in [item : Files \union {Gone}, count : 0 .. MaxFiles]
    BY <1>1, <2>1, <2>3
  <2>5. cells' \in [Cells -> Files \union {Gone, Raw}]
    BY <2>1 DEF Values
  <2>. QED
    BY <1>1, <2>1, <2>4, <2>5 DEF Values, Counts
<1>3. CASE PopLoadSize
  <2>1. /\ UNCHANGED <<cells, count, mSize, taken, sent>> /\ loop = "load_size" /\ loop' = "store_size"
        /\ loop_reg' = [loop_reg EXCEPT !.count = count]
    BY <1>3 DEF PopLoadSize, deque, ghost
  <2>2. count \in 0 .. MaxFiles /\ count >= 1
    BY <1>1, <2>1, MapAssumption DEF Counts
  <2>3. loop_reg' \in [item : Files \union {Gone}, count : 0 .. MaxFiles] /\ loop_reg'.count = count
    BY <1>1, <2>1, <2>2
  <2>4. loop_reg'.count \in 1 .. Counted'
    BY <1>1, <2>2, <2>3
  <2>. QED
    BY <1>1, <2>1, <2>3, <2>4 DEF Values, Counts
<1>4. CASE PopStoreSize
  <2>1. /\ UNCHANGED <<cells, mSize, taken, sent, loop_reg>> /\ loop = "store_size" /\ loop' = "store_off"
        /\ count' = loop_reg.count - 1
    BY <1>4 DEF PopStoreSize, ghost
  <2>2. loop_reg.count \in 1 .. Counted
    BY <2>1 DEF Counts
  <2>3. count' \in 0 .. Counted'
    BY <1>1, <2>1, <2>2
  <2>. QED
    BY <1>1, <2>1, <2>2, <2>3 DEF Values, Counts
<1>5. CASE PopStoreOff
  <2>1. /\ UNCHANGED <<cells, count, sent, loop_reg>> /\ loop' = "got"
        /\ mSize' = (mSize - 1) % SizeRange /\ taken' = Append(taken, loop_reg.item)
    BY <1>5 DEF PopStoreOff
  <2>2. mSize' \in 0 .. SizeRange - 1
    BY <2>1, RangeAssumption, MapAssumption DEF Values
  <2>3. taken' \in Seq(Files \union {Gone})
    BY <1>1, <2>1 DEF Values
  <2>. QED
    BY <1>1, <2>1, <2>2, <2>3 DEF Values, Counts
<1>6. CASE Got
  <2>1. /\ UNCHANGED <<cells, count, mSize, taken, loop_reg>> /\ loop' \in {"ended", "while"}
        /\ sent' = sent \/ (loop_reg.item # Gone /\ sent' = Append(sent, loop_reg.item))
    BY <1>6 DEF Got, deque
  <2>2. sent' \in Seq(Files)
    BY <1>1, <2>1 DEF Values
  <2>. QED
    BY <1>1, <2>1, <2>2 DEF Values, Counts
<1>. QED
  BY <1>2, <1>3, <1>4, <1>5, <1>6

LEMMA PushOffsets ==
  ASSUME Control, Deque, PushBegin \/ PushPlace \/ PushLoadCount \/ PushStoreCount \/ PushAdd
  PROVE  Offsets'
<1>. USE DEF Deque
<1>1. /\ UNCHANGED <<loop, loop_reg>> /\ pushed \in Int
      /\ main_reg \in [off : 0 .. MaxFiles, count : 0 .. MaxFiles] /\ count \in Int
      /\ IsFiniteSet(UsedCells) /\ Cardinality(UsedCells) \in Nat
  <2>1. UNCHANGED <<loop, loop_reg>>
    BY DEF PushBegin, PushPlace, PushLoadCount, PushStoreCount, PushAdd
  <2>2. /\ pushed \in Int /\ main_reg \in [off : 0 .. MaxFiles, count : 0 .. MaxFiles]
        /\ count \in Int
    BY MapAssumption DEF Control, Values, Counts, Counted
  <2>. QED
    BY <2>1, <2>2, UsedBound, MapAssumption DEF Offsets
<1>2. CASE PushPlace
  <2>. DEFINE c == (main_reg.off + count) % MapSize
  <2>1. /\ main = "place" /\ main' = "load_count" /\ pushed' = pushed
        /\ cells' = [cells EXCEPT ![c] = pushed] /\ off' = main_reg.off % MapSize
    BY <1>2 DEF PushPlace, ghost
  <2>2. main_reg.off \in 0 .. MaxFiles /\ main_reg.off \in Cells /\ off' = main_reg.off
    BY <1>1, <2>1, SmallMod, MapAssumption DEF Cells
  <2>3. c \in Cells /\ pushed # Raw
    BY <1>1, CellOf, MapAssumption DEF Control, Raw
  <2>. HIDE DEF c
  <2>4. \A i \in Cells : cells[i] # Raw => cells'[i] # Raw
    BY <2>1, <2>3 DEF Values
  <2>5. Cardinality(UsedCells') <= PlacedFiles'
    <3>1. UsedCells' = UsedCells \union {c}
      BY <2>1, <2>3 DEF Values, UsedCells
    <3>2. Cardinality(UsedCells \union {c}) <= Cardinality(UsedCells) + 1
      <4>1. Cardinality(UsedCells \union {c})
              = IF c \in UsedCells THEN Cardinality(UsedCells) ELSE Cardinality(UsedCells) + 1
        BY <1>1, FS_AddElement
      <4>. QED
        BY <1>1, <4>1
    <3>3. PlacedFiles' = pushed /\ Cardinality(UsedCells) <= pushed - 1
      BY <2>1 DEF Offsets, PlacedFiles
    <3>4. Cardinality(UsedCells') <= Cardinality(UsedCells) + 1 /\ Cardinality(UsedCells') \in Nat
      BY <1>1, <3>1, <3>2, FS_AddElement, FS_CardinalityType
    <3>. QED
      BY <1>1, <3>3, <3>4
  <2>6. UsedBefore(main_reg.off) /\ (off = main_reg.off \/ cells[main_reg.off] # Raw)
    BY <2>1 DEF Offsets
  <2>7. \A i \in 0 .. off' - 1 : cells'[i] # Raw
    BY <2>2, <2>4, <2>6, MapAssumption DEF UsedBefore, Cells
  <2>8. loop' \in Removing => cells'[off'] # Raw
    BY <1>1, <2>2, <2>4, <2>6 DEF Offsets
  <2>. QED
    BY <2>1, <2>2, <2>5, <2>7, <2>8 DEF Offsets, UsedBefore
<1>3. CASE PushBegin
  <2>1. /\ UNCHANGED <<cells, off>> /\ main = "ui" /\ main' = "place" /\ pushed' = pushed + 1
        /\ main_reg' = [main_reg EXCEPT !.off = off]
    BY <1>3 DEF PushBegin, deque
  <2>2. main_reg'.off = off
    BY <1>1, <2>1
  <2>3. UsedCells' = UsedCells /\ PlacedFiles' = PlacedFiles
    BY <1>1, <2>1 DEF UsedCells, PlacedFiles
  <2>4. \A x : UsedBefore(x)' <=> UsedBefore(x)
    BY <2>1 DEF UsedBefore
  <2>. QED
    BY <1>1, <2>1, <2>2, <2>3, <2>4 DEF Offsets, UsedBefore
<1>4. CASE PushLoadCount \/ PushStoreCount \/ PushAdd
  <2>1. /\ UNCHANGED <<cells, off, pushed>> /\ main # "place" /\ main' # "place"
    BY <1>4 DEF PushLoadCount, PushStoreCount, PushAdd, deque, ghost
  <2>2. UsedCells' = UsedCells /\ PlacedFiles' = PlacedFiles
    BY <2>1 DEF UsedCells, PlacedFiles
  <2>. QED
    BY <1>1, <2>1, <2>2 DEF Offsets, UsedBefore
<1>. QED
  BY <1>2, <1>3, <1>4

LEMMA PopOffsets ==
  ASSUME Control, Deque, TakeFront \/ PopLoadSize \/ PopStoreSize \/ PopStoreOff \/ Got
  PROVE  Offsets'
<1>. USE DEF Deque
<1>1. UNCHANGED <<main, main_reg, pushed>> /\ off \in Cells /\ off \in 0 .. MaxFiles
  BY MapAssumption DEF TakeFront, PopLoadSize, PopStoreSize, PopStoreOff, Got, ghost, Offsets, Cells
<1>2. PlacedFiles' = PlacedFiles
  BY <1>1 DEF PlacedFiles
<1>3. CASE TakeFront
  <2>1. /\ off' = off /\ cells[off] # Raw /\ cells' = [cells EXCEPT ![off] = Gone]
    BY <1>1, <1>3, SmallMod DEF TakeFront
  <2>2. \A i \in Cells : cells'[i] # Raw <=> cells[i] # Raw
    BY <1>1, <2>1 DEF Values, Gone, Raw
  <2>3. UsedCells' = UsedCells
    BY <2>2 DEF UsedCells
  <2>4. (\A i \in 0 .. off - 1 : cells'[i] # Raw) /\ cells'[off] # Raw
    BY <1>1, <2>1, <2>2, MapAssumption DEF Offsets, UsedBefore, Cells
  <2>5. main' = "place" => /\ \A i \in 0 .. main_reg.off - 1 : cells'[i] # Raw
                           /\ off = main_reg.off \/ cells'[main_reg.off] # Raw
    <3>1. main_reg.off \in 0 .. MaxFiles
      BY DEF Values
    <3>2. \A i \in 0 .. main_reg.off : i \in Cells
      BY <3>1, MapAssumption DEF Cells
    <3>3. main_reg.off \in 0 .. main_reg.off /\ 0 .. main_reg.off - 1 \subseteq 0 .. main_reg.off
      BY <3>1, MapAssumption
    <3>. QED
      BY <1>1, <2>2, <3>2, <3>3 DEF Offsets, UsedBefore
  <2>. QED
    BY <1>1, <1>2, <2>1, <2>3, <2>4, <2>5 DEF Offsets, UsedBefore
<1>4. CASE PopStoreOff
  <2>1. /\ cells' = cells /\ loop = "store_off" /\ loop' = "got" /\ (off' = 0 \/ off' = off + 1)
    BY <1>4 DEF PopStoreOff, NextOff
  <2>2. cells[off] # Raw /\ UsedBefore(off)
    BY <2>1 DEF Offsets, Removing
  <2>3. UsedBefore(off + 1) /\ UsedBefore(0) /\ off + 1 \in 0 .. MapSize
    BY <1>1, <2>2, MapAssumption DEF UsedBefore
  <2>4. off + 1 <= Cardinality(UsedCells) /\ Cardinality(UsedCells) \in Nat
    BY <2>3, UsedBound
  <2>5. Cardinality(UsedCells) <= pushed /\ pushed <= MaxFiles /\ pushed \in Int
    BY <2>4, MapAssumption DEF Offsets, PlacedFiles, Control
  <2>6. off' \in 0 .. MaxFiles
    BY <1>1, <2>1, <2>4, <2>5, MapAssumption
  <2>7. \A i \in 0 .. off' - 1 : cells'[i] # Raw
    BY <2>1, <2>3 DEF UsedBefore
  <2>8. main' = "place" => cells'[main_reg.off] # Raw
    BY <1>1, <2>1, <2>2 DEF Offsets
  <2>9. UsedCells' = UsedCells
    BY <2>1 DEF UsedCells
  <2>. QED
    BY <1>1, <1>2, <2>1, <2>6, <2>7, <2>8, <2>9 DEF Offsets, UsedBefore, Removing
<1>5. CASE PopLoadSize \/ PopStoreSize \/ Got
  <2>1. UNCHANGED <<cells, off>> /\ (loop' \in Removing => loop \in Removing)
    BY <1>5 DEF PopLoadSize, PopStoreSize, Got, deque, Removing
  <2>2. UsedCells' = UsedCells
    BY <2>1 DEF UsedCells
  <2>. QED
    BY <1>1, <1>2, <2>1, <2>2 DEF Offsets, UsedBefore
<1>. QED
  BY <1>3, <1>4, <1>5
LEMMA StepDeque == Control /\ Stopped /\ Deque /\ [Next]_vars => Deque'
<1>. SUFFICES ASSUME Control, Stopped, Deque, [Next]_vars
              PROVE  Deque'
  OBVIOUS
<1>1. Control'
  BY StepControl
<1>2. ASSUME DataStep
      PROVE  Deque'
  BY <1>2, PushValues, PopValues, PushOffsets, PopOffsets DEF DataStep, Deque
<1>. QED
  BY <1>1, <1>2, ControlOrData, ControlDeque

Base == Control /\ Stopped /\ Deque

LEMMA BaseInductive == (Init => Base) /\ (Base /\ [Next]_vars => Base')
BY InitControl, InitDeque, StepControl, StepDeque DEF Base

(* Every variable keeps its type, race or no race: the offset and the      *)
(* count stay inside the map, and no count below zero is stored.           *)
THEOREM TypeCorrect == Spec => []TypeOK
<1>1. Spec => []Base
  BY BaseInductive, PTL DEF Spec
<1>2. Base => TypeOK
  <2>. SUFFICES ASSUME Base
                PROVE  TypeOK
    OBVIOUS
  <2>1. main_reg \in [off : 0 .. MapSize, count : 0 .. MaxFiles] /\ off \in 0 .. MapSize
    BY MapAssumption DEF Base, Deque, Values, Offsets
  <2>2. count \in 0 .. MaxFiles
    BY MapAssumption DEF Base, Deque, Counts, Counted, Control
  <2>3. main \in Pushing \union {"ui", "add", "notify", "notify_all", "wake_all", "join",
                                 "future", "stopped", "io_join", "destroyed", "crashed"}
    BY DEF Base, Control, MainLabels, Stopping
  <2>4. /\ mStopping \in BOOLEAN /\ shouldStop \in BOOLEAN /\ raced \in BOOLEAN
        /\ io \in {"running", "ended"} /\ pushed \in 0 .. MaxFiles /\ starts \in 1 .. MaxStarts
    BY DEF Base, Control
  <2>5. loop \in Popping \union {"while", "test", "block", "blocked", "check", "false", "got",
                                 "ended"}
    BY DEF Base, Control, LoopLabels
  <2>6. /\ cells \in [0 .. MapSize - 1 -> Files \union {Gone, Raw}] /\ mSize \in 0 .. SizeRange - 1
        /\ loop_reg \in [item : Files \union {Gone}, count : 0 .. MaxFiles]
        /\ taken \in Seq(Files \union {Gone}) /\ sent \in Seq(Files)
    BY DEF Base, Deque, Values, Cells
  <2>. QED
    BY <2>1, <2>2, <2>3, <2>4, <2>5, <2>6, Zenon DEF TypeOK
<1>. QED
  BY <1>1, <1>2, PTL
-----------------------------------------------------------------------------
(* No file is in two places.                                               *)

InHand == loop \in Removing \union {"got"}

SentFiles == {sent[k] : k \in DOMAIN sent}

InOnePlace ==
  /\ \A i \in Cells : cells[i] <= PlacedFiles
  /\ \A i, j \in Cells : cells[i] \in Files /\ cells[i] = cells[j] => i = j
  /\ \A i \in Cells : cells[i] \notin SentFiles
  /\ \A f \in SentFiles : f <= PlacedFiles
  /\ InHand => /\ loop_reg.item <= PlacedFiles
               /\ loop_reg.item \notin SentFiles
               /\ loop_reg.item \in Files => \A i \in Cells : cells[i] # loop_reg.item
  /\ IsInjective(sent)

LEMMA AllNumbers ==
  ASSUME Values
  PROVE  /\ \A i \in Cells : cells[i] \in Int
         /\ loop_reg.item \in Int /\ SentFiles \subseteq Files
         /\ \A f \in Files : f \in Int /\ f > 0
<1>1. Files \union {Gone, Raw} \subseteq Int /\ \A f \in Files : f \in Int /\ f > 0
  BY MapAssumption DEF Files, Gone, Raw
<1>2. \A i \in Cells : cells[i] \in Int
  BY <1>1 DEF Values
<1>3. loop_reg.item \in Int
  BY <1>1 DEF Values
<1>4. SentFiles \subseteq Files
  <2>1. sent \in Seq(Files) => \A k \in DOMAIN sent : sent[k] \in Files
    OBVIOUS
  <2>. QED
    BY <2>1 DEF Values, SentFiles
<1>. QED
  BY <1>1, <1>2, <1>3, <1>4

LEMMA InitInOnePlace == Init => InOnePlace
<1>. SUFFICES ASSUME Init
              PROVE  InOnePlace
  OBVIOUS
<1>1. SentFiles = {} /\ IsInjective(sent)
  BY DEF Init, SentFiles, IsInjective
<1>2. \A i \in Cells : cells[i] = Raw
  BY DEF Init, Cells
<1>3. PlacedFiles = 0 /\ ~InHand
  BY DEF Init, PlacedFiles, InHand, Removing
<1>4. Raw <= 0 /\ Raw \notin Files
  BY DEF Raw, Files
<1>. QED
  BY <1>1, <1>2, <1>3, <1>4 DEF InOnePlace

LEMMA StepInOnePlace ==
  ASSUME Base, Base', InOnePlace, [Next]_vars
  PROVE  InOnePlace'
<1>. USE DEF Base, Deque
<1>1. CASE ControlOnly
  <2>1. PlacedFiles \in Int /\ PlacedFiles' \in Int /\ PlacedFiles <= PlacedFiles'
    BY <1>1, MapAssumption DEF ControlOnly, Control, PlacedFiles, Pushing
  <2>2. InHand' => InHand
    BY <1>1 DEF ControlOnly, InHand, Removing, Popping
  <2>3. /\ SentFiles' = SentFiles /\ UNCHANGED <<cells, sent, loop_reg>>
    BY <1>1 DEF ControlOnly, SentFiles
  <2>4. \A x \in Int : x <= PlacedFiles => x <= PlacedFiles'
    BY <2>1
  <2>5. /\ \A i \in Cells : cells[i] <= PlacedFiles'
        /\ \A f \in SentFiles : f <= PlacedFiles'
        /\ InHand => loop_reg.item <= PlacedFiles'
    BY <2>4, AllNumbers DEF InOnePlace
  <2>. QED
    BY <2>2, <2>3, <2>5 DEF InOnePlace
<1>2. CASE PushPlace
  <2>. DEFINE c == (main_reg.off + count) % MapSize
  <2>1. /\ main = "place" /\ main' = "load_count" /\ UNCHANGED <<pushed, sent, loop, loop_reg>>
        /\ cells' = [cells EXCEPT ![c] = pushed]
    BY <1>2 DEF PushPlace, ghost
  <2>2. c \in Cells /\ pushed \in Int
    <3>1. pushed \in Int /\ Counted \in Int
      BY MapAssumption DEF Control, Counted
    <3>2. main_reg.off \in Int /\ count \in Int
      BY <3>1, MapAssumption DEF Values, Counts
    <3>3. main_reg.off + count \in Int
      BY <3>2
    <3>. QED
      BY <3>1, <3>3, CellOf
  <2>. HIDE DEF c
  <2>3. PlacedFiles = pushed - 1 /\ PlacedFiles' = pushed /\ SentFiles' = SentFiles /\ (InHand' <=> InHand)
    BY <2>1 DEF PlacedFiles, SentFiles, InHand
  <2>4. /\ \A i \in Cells : cells[i] \in Int /\ cells[i] # pushed /\ cells[i] <= pushed
        /\ \A f \in SentFiles : f # pushed /\ f <= pushed
        /\ InHand => loop_reg.item # pushed /\ loop_reg.item <= pushed
    <3>1. \A x \in Int : x <= pushed - 1 => x # pushed /\ x <= pushed
      BY <2>2
    <3>. QED
      BY <2>3, <3>1, AllNumbers DEF InOnePlace
  <2>5. /\ cells'[c] = pushed /\ \A i \in Cells : i # c => cells'[i] = cells[i]
    BY <2>1, <2>2 DEF Values
  <2>6. (\A i \in Cells : cells'[i] <= pushed /\ cells'[i] \notin SentFiles)
    BY <2>2, <2>4, <2>5 DEF InOnePlace
  <2>7. \A i, j \in Cells : cells'[i] \in Files /\ cells'[i] = cells'[j] => i = j
    BY <2>2, <2>4, <2>5 DEF InOnePlace
  <2>8. InHand /\ loop_reg.item \in Files => \A i \in Cells : cells'[i] # loop_reg.item
    BY <2>2, <2>4, <2>5 DEF InOnePlace
  <2>. QED
    BY <2>1, <2>3, <2>4, <2>6, <2>7, <2>8 DEF InOnePlace
<1>3. CASE PushBegin \/ PushLoadCount \/ PushStoreCount \/ PushAdd
  <2>1. /\ UNCHANGED <<cells, sent, loop, loop_reg>>
        /\ \/ main' # "place" /\ main # "place" /\ pushed' = pushed
           \/ main' = "place" /\ main # "place" /\ pushed' = pushed + 1
    BY <1>3 DEF PushBegin, PushLoadCount, PushStoreCount, PushAdd, deque, ghost
  <2>2. SentFiles' = SentFiles /\ (InHand' <=> InHand)
    BY <2>1 DEF SentFiles, InHand
  <2>3. PlacedFiles' = PlacedFiles
    <3>1. pushed \in Int
      BY MapAssumption DEF Control
    <3>. QED
      BY <2>1, <3>1 DEF PlacedFiles
  <2>. QED
    BY <2>1, <2>2, <2>3 DEF InOnePlace
<1>4. CASE TakeFront
  <2>0. off % MapSize = off /\ off \in Cells
    <3>1. off \in Cells
      BY MapAssumption DEF Offsets, Cells
    <3>. QED
      BY <3>1, SmallMod
  <2>1. /\ UNCHANGED <<main, pushed, sent>> /\ loop = "front" /\ loop' = "load_size"
        /\ off \in Cells /\ cells[off] # Raw
        /\ cells' = [cells EXCEPT ![off] = Gone]
        /\ loop_reg' = [loop_reg EXCEPT !.item = cells[off]]
    BY <1>4, <2>0 DEF TakeFront, ghost
  <2>2. loop_reg'.item = cells[off]
    BY <2>1 DEF Values
  <2>3. PlacedFiles' = PlacedFiles /\ SentFiles' = SentFiles
    BY <2>1 DEF PlacedFiles, SentFiles
  <2>4. cells'[off] = Gone /\ \A i \in Cells : i # off => cells'[i] = cells[i]
    BY <2>1 DEF Values
  <2>5. Gone \notin Files /\ Gone \notin SentFiles /\ Gone <= PlacedFiles
    <3>1. Gone \notin Files /\ Gone \notin SentFiles
      BY AllNumbers DEF Gone
    <3>2. Gone <= PlacedFiles
      BY MapAssumption DEF Gone, PlacedFiles, Control, Pushing
    <3>. QED
      BY <3>1, <3>2
  <2>6. \A i \in Cells : cells'[i] <= PlacedFiles /\ cells'[i] \notin SentFiles
    BY <2>1, <2>4, <2>5 DEF InOnePlace
  <2>7. \A i, j \in Cells : cells'[i] \in Files /\ cells'[i] = cells'[j] => i = j
    BY <2>1, <2>4, <2>5 DEF InOnePlace
  <2>8. loop_reg'.item \in Files => \A i \in Cells : cells'[i] # loop_reg'.item
    BY <2>1, <2>2, <2>4, <2>5 DEF InOnePlace
  <2>. QED
    BY <2>1, <2>2, <2>3, <2>6, <2>7, <2>8 DEF InOnePlace
<1>5. CASE PopLoadSize \/ PopStoreSize \/ PopStoreOff
  <2>1. UNCHANGED <<cells, main, pushed, sent>> /\ loop \in Removing
        /\ \/ loop_reg' = loop_reg \/ loop_reg' = [loop_reg EXCEPT !.count = count]
    BY <1>5 DEF PopLoadSize, PopStoreSize, PopStoreOff, deque, ghost, Removing
  <2>2. loop_reg'.item = loop_reg.item
    BY <2>1 DEF Values
  <2>3. PlacedFiles' = PlacedFiles /\ SentFiles' = SentFiles /\ InHand
    BY <2>1 DEF PlacedFiles, SentFiles, InHand
  <2>. QED
    BY <2>1, <2>2, <2>3 DEF InOnePlace
<1>6. CASE Got
  <2>1. /\ UNCHANGED <<cells, main, pushed>> /\ loop = "got" /\ loop' \in {"ended", "while"}
        /\ sent' = sent \/ (loop_reg.item # Gone /\ sent' = Append(sent, loop_reg.item))
    BY <1>6 DEF Got, deque
  <2>2. PlacedFiles' = PlacedFiles /\ InHand /\ ~InHand'
    BY <2>1 DEF PlacedFiles, InHand, Removing
  <2>3. CASE sent' = sent
    <3>1. SentFiles' = SentFiles
      BY <2>3 DEF SentFiles
    <3>. QED
      BY <2>1, <2>2, <2>3, <3>1 DEF InOnePlace
  <2>4. CASE loop_reg.item # Gone /\ sent' = Append(sent, loop_reg.item)
    <3>. DEFINE n == Len(sent)
                x == loop_reg.item
    <3>1. /\ sent \in Seq(Files) /\ x \in Files /\ x \notin SentFiles
      BY <2>2, <2>4 DEF Values, InOnePlace
    <3>2. /\ n \in Nat /\ DOMAIN sent = 1 .. n /\ DOMAIN sent' = 1 .. n + 1
          /\ sent'[n + 1] = x /\ \A k \in 1 .. n : sent'[k] = sent[k]
      BY <2>4, <3>1
    <3>. HIDE DEF n, x
    <3>3. \A k \in 1 .. n + 1 : k \in 1 .. n \/ k = n + 1
      BY <3>2
    <3>4. SentFiles' = SentFiles \union {x}
      BY <3>2, <3>3 DEF SentFiles
    <3>5. IsInjective(sent')
      <4>1. \A k \in 1 .. n : sent[k] # x
        BY <3>1, <3>2 DEF SentFiles
      <4>2. \A j, k \in 1 .. n : sent[j] = sent[k] => j = k
        BY <3>2 DEF InOnePlace, IsInjective
      <4>. QED
        BY <3>2, <3>3, <4>1, <4>2 DEF IsInjective
    <3>6. /\ \A i \in Cells : cells[i] # x
          /\ x <= PlacedFiles
      BY <2>2, <3>1 DEF InOnePlace, x
    <3>. QED
      BY <2>1, <2>2, <3>4, <3>5, <3>6 DEF InOnePlace
  <2>. QED
    BY <2>1, <2>3, <2>4
<1>. QED
  BY <1>1, <1>2, <1>3, <1>4, <1>5, <1>6, ControlOrData DEF DataStep

(* Whatever the race does to the deque, no file is handed to the IPC       *)
(* client twice.                                                           *)
THEOREM NoFileTwice == Spec => []SentAtMostOnce
<1>1. Init => Base /\ InOnePlace
  BY BaseInductive, InitInOnePlace
<1>2. Base /\ InOnePlace /\ [Next]_vars => Base' /\ InOnePlace'
  BY BaseInductive, StepInOnePlace
<1>3. InOnePlace => SentAtMostOnce
  BY DEF InOnePlace, SentAtMostOnce
<1>. QED
  BY <1>1, <1>2, <1>3, PTL DEF Spec
-----------------------------------------------------------------------------
(* What the steps of control do to the flags, the starts and the places.   *)

LEMMA ControlFacts ==
  ASSUME Control, Stopped, [Next]_vars, ~DataStep
  PROVE  /\ ControlOnly
         /\ raced => raced'
         /\ mStopping => mStopping'
         /\ main' = "crashed" => main = "crashed" \/ TakeRaw
         /\ main \in Pushing \union {"add"} => main' = main \/ TakeRaw
         /\ loop \in Popping \union {"got"} => loop' = loop
         /\ loop' = "front" /\ ~raced' => loop = "front" \/ main' \notin Pushing
         /\ loop' = "ended" => (loop = "ended" /\ (shouldStop => shouldStop')) \/ shouldStop'
         /\ \/ starts' = starts /\ (loop \in {"got", "ended"} => loop' = loop)
            \/ starts' = starts + 1
<1>1. ControlOnly
  BY ControlOrData
<1>2. CASE UNCHANGED vars
  BY <1>1, <1>2 DEF vars, flags, ghost
<1>3. CASE NotifyOne \/ WakeAll
  <2>1. /\ UNCHANGED <<raced, mStopping, shouldStop, starts>>
        /\ main' \notin Pushing \union {"crashed"} /\ main \notin Pushing \union {"add"}
    BY <1>3 DEF NotifyOne, WakeAll, flags, ghost, Pushing
  <2>2. /\ loop' = loop \/ (loop = "blocked" /\ loop' = "test")
        /\ loop \in Popping \union {"got"} => loop' = loop
    BY <1>3 DEF NotifyOne, WakeAll, Notify, Popping
  <2>. QED
    BY <1>1, <2>1, <2>2
<1>4. CASE NotifyAll \/ Join \/ Exit
  <2>1. /\ UNCHANGED <<raced, shouldStop, starts, loop>> /\ (mStopping => mStopping')
        /\ main' \notin Pushing \union {"crashed"} \/ main' = main
        /\ main \notin Pushing \union {"add"}
    BY <1>4 DEF NotifyAll, Join, JoinReturns, JoinTimesOut, FutureDestroyed, Exit, Destroy,
       IoThreadEnds, IoJoined, flags, ghost, Pushing
  <2>. QED
    BY <1>1, <2>1
<1>5. CASE StopExchange
  <2>1. /\ UNCHANGED <<raced, mStopping, starts, loop>> /\ shouldStop' = TRUE
        /\ main' \notin Pushing \union {"crashed"} /\ main \notin Pushing \union {"add"}
    BY <1>5 DEF StopExchange, ghost, Pushing
  <2>. QED
    BY <1>1, <2>1
<1>6. CASE Start
  <2>1. /\ UNCHANGED <<raced, mStopping>> /\ main' \notin Pushing \union {"crashed"}
        /\ main \notin Pushing \union {"add"} /\ main = "stopped"
        /\ starts' = starts + 1 /\ loop' = "while"
    BY <1>6 DEF Start, Pushing
  <2>2. loop \notin Popping \union {"got"}
    BY <2>1 DEF Stopped, Popping
  <2>. QED
    BY <1>1, <2>1, <2>2
<1>7. CASE LoopTest \/ WaitTest \/ Block \/ SpuriousWake \/ ReturnedFalse
  <2>1. /\ UNCHANGED <<raced, mStopping, shouldStop, starts, main>>
        /\ loop \notin {"got", "ended"} /\ loop \notin Popping \union {"got"}
        /\ loop' # "front" /\ (loop' = "ended" => shouldStop)
    BY <1>7 DEF LoopTest, WaitTest, Block, SpuriousWake, ReturnedFalse, flags, ghost, Popping
  <2>. QED
    BY <1>1, <2>1
<1>8. CASE CheckEmpty
  <2>1. /\ UNCHANGED <<mStopping, shouldStop, starts, main>>
        /\ loop = "check" /\ loop' # "ended" /\ loop \notin Popping \union {"got"}
        /\ raced' = (raced \/ (count # 0 /\ main \in Pushing))
        /\ loop' = "front" => count # 0
    BY <1>8 DEF CheckEmpty, flags, Popping
  <2>2. (raced => raced') /\ (loop' = "front" /\ ~raced' => main \notin Pushing)
    BY <2>1, Zenon
  <2>. QED
    BY <1>1, <2>1, <2>2
<1>9. CASE TakeRaw
  <2>1. UNCHANGED <<raced, mStopping, shouldStop, starts, loop>> /\ loop = "front"
    BY <1>9 DEF TakeRaw, flags, ghost
  <2>. QED
    BY <1>1, <1>9, <2>1
<1>. QED
  BY <1>2, <1>3, <1>4, <1>5, <1>6, <1>7, <1>8, <1>9 DEF Next, Push, Stop, Loop, Pop, DataStep

(* Every start costs at most one file: the one in hand when the loop ends. *)
Costs == Len(taken) - Len(sent) <= IF loop \in {"got", "ended"} THEN starts ELSE starts - 1

LEMMA StepCosts ==
  ASSUME Base, Costs, [Next]_vars
  PROVE  Costs'
<1>1. Len(taken) \in Nat /\ Len(sent) \in Nat /\ starts \in Int
  BY StartsAssumption DEF Base, Deque, Values, Control
<1>2. CASE ~DataStep
  <2>1. UNCHANGED <<taken, sent>>
    BY <1>2, ControlFacts DEF Base, ControlOnly
  <2>2. \/ starts' = starts /\ (loop \in {"got", "ended"} => loop' = loop)
        \/ starts' = starts + 1
    BY <1>2, ControlFacts DEF Base
  <2>. QED
    BY <1>1, <2>1, <2>2 DEF Costs
<1>3. CASE PushBegin \/ PushPlace \/ PushLoadCount \/ PushStoreCount \/ PushAdd
  BY <1>3 DEF PushBegin, PushPlace, PushLoadCount, PushStoreCount, PushAdd, ghost, Costs
<1>4. CASE TakeFront \/ PopLoadSize \/ PopStoreSize
  BY <1>4 DEF TakeFront, PopLoadSize, PopStoreSize, ghost, Costs
<1>5. CASE PopStoreOff
  <2>1. UNCHANGED <<sent, starts>> /\ loop = "store_off" /\ loop' = "got"
        /\ taken' = Append(taken, loop_reg.item)
    BY <1>5 DEF PopStoreOff
  <2>2. Len(taken') = Len(taken) + 1
    BY <2>1 DEF Base, Deque, Values
  <2>. QED
    BY <1>1, <2>1, <2>2 DEF Costs
<1>6. CASE Got
  <2>1. /\ UNCHANGED <<taken, starts>> /\ loop = "got"
        /\ \/ loop' = "ended" /\ sent' = sent
           \/ loop' = "while" /\ sent' = Append(sent, loop_reg.item)
    BY <1>6 DEF Got
  <2>2. Len(Append(sent, loop_reg.item)) = Len(sent) + 1
    BY DEF Base, Deque, Values
  <2>. QED
    BY <1>1, <2>1, <2>2 DEF Costs
<1>. QED
  BY <1>2, <1>3, <1>4, <1>5, <1>6 DEF DataStep

(* The stops cost at most one file each, however many are queued and       *)
(* whatever the race does.                                                 *)
THEOREM OneFilePerStop == Spec => []StopDropsAtMostOne
<1>1. Init => Base /\ Costs
  BY BaseInductive DEF Init, Costs
<1>2. Base /\ Costs /\ [Next]_vars => Base' /\ Costs'
  BY BaseInductive, StepCosts
<1>3. Base /\ Costs => StopDropsAtMostOne
  <2>1. Base => Len(taken) \in Nat /\ Len(sent) \in Nat /\ starts \in Int
    BY StartsAssumption DEF Base, Deque, Values, Control
  <2>. QED
    BY <2>1 DEF Costs, StopDropsAtMostOne
<1>. QED
  BY <1>1, <1>2, <1>3, PTL DEF Spec
-----------------------------------------------------------------------------
(* While no push met a pop in the deque it is a queue.                     *)

(* The first file still in the deque: the one at the front was moved out   *)
(* while the pop has not stored the offset.                                *)
FirstFile == IF loop \in Removing THEN Len(taken) + 2 ELSE Len(taken) + 1

InOrder ==
  /\ \A i \in 1 .. Len(taken) : taken[i] = i
  /\ off <= Len(taken)
  /\ \A f \in FirstFile .. PlacedFiles : cells[off + f - Len(taken) - 1] = f

Exclusive ==
  /\ main # "crashed" /\ ~(main \in Pushing /\ loop \in Popping)
  /\ loop = "ended" => shouldStop

Registers ==
  /\ count = Counted - Len(taken) - (IF loop = "store_off" THEN 1 ELSE 0)
  /\ main = "place" => main_reg.off = off
  /\ main = "store_count" => main_reg.count = count
  /\ loop = "store_size" => loop_reg.count = count
  /\ loop = "store_off" => loop_reg.count = count + 1
  /\ loop \in Removing => loop_reg.item = Len(taken) + 1
  /\ loop = "got" => loop_reg.item = Len(taken) /\ Len(taken) > 0

Fifo == InOrder /\ Exclusive /\ Registers

LEMMA InitFifo == Init => Fifo
<1>. SUFFICES ASSUME Init
              PROVE  Fifo
  OBVIOUS
<1>1. /\ taken = <<>> /\ off = 0 /\ count = 0 /\ pushed = 0 /\ main = "ui" /\ loop = "while"
  BY DEF Init
<1>2. Len(taken) = 0 /\ FirstFile = 1 /\ PlacedFiles = 0 /\ Counted = 0
  BY <1>1 DEF FirstFile, Removing, PlacedFiles, Counted, Pushing
<1>3. InOrder
  <2>1. 1 .. Len(taken) = {} /\ FirstFile .. PlacedFiles = {}
    BY <1>2
  <2>. QED
    BY <1>1, <1>2, <2>1 DEF InOrder
<1>4. Exclusive
  BY <1>1 DEF Exclusive, Pushing
<1>5. Registers
  <2>1. /\ loop \notin Removing /\ loop # "store_off" /\ loop # "store_size" /\ loop # "got"
        /\ main # "place" /\ main # "store_count"
    BY <1>1 DEF Removing
  <2>2. count = Counted - Len(taken) - 0
    <3>1. count = 0 /\ Counted = 0 /\ Len(taken) = 0
      BY <1>1, <1>2
    <3>2. 0 = 0 - 0 - 0
      OBVIOUS
    <3>. QED
      BY <3>1, <3>2, Zenon
  <2>. QED
    BY <2>1, <2>2 DEF Registers
<1>. QED
  BY <1>3, <1>4, <1>5 DEF Fifo

(* The pop finds the next file in the front cell. *)
LEMMA FrontIsNext ==
  ASSUME Base, Fifo, loop = "front"
  PROVE  /\ off \in Cells /\ off % MapSize = off
         /\ cells[off] = Len(taken) + 1 /\ cells[off] \in Files
         /\ main \notin Pushing
<1>1. off \in Cells /\ off % MapSize = off
  <2>1. off \in Cells
    BY MapAssumption DEF Base, Deque, Offsets, Cells
  <2>. QED
    BY <2>1, SmallMod
<1>2. main \notin Pushing
  BY DEF Fifo, Exclusive, Popping
<1>3. Len(taken) \in Nat /\ pushed \in Int /\ pushed <= MaxFiles /\ off \in Int
  BY <1>1, MapAssumption DEF Base, Control, Deque, Values, Cells
<1>4. count >= 1 /\ count = pushed - Len(taken)
  BY <1>2, <1>3 DEF Base, Deque, Counts, Counted, Fifo, Registers
<1>5. FirstFile = Len(taken) + 1 /\ PlacedFiles = pushed
  BY <1>2 DEF FirstFile, Removing, PlacedFiles, Pushing
<1>6. Len(taken) + 1 \in FirstFile .. PlacedFiles
  BY <1>3, <1>4, <1>5
<1>7. cells[off + (Len(taken) + 1) - Len(taken) - 1] = Len(taken) + 1
  BY <1>6 DEF Fifo, InOrder
<1>8. off + (Len(taken) + 1) - Len(taken) - 1 = off
  BY <1>3
<1>9. Len(taken) + 1 \in Files
  BY <1>3, <1>4, MapAssumption DEF Files
<1>. QED
  BY <1>1, <1>2, <1>7, <1>8, <1>9

LEMMA ControlFifo ==
  ASSUME Base, Base', Fifo, [Next]_vars, ~DataStep, ~raced'
  PROVE  Fifo'
<1>1. /\ ControlOnly
      /\ main' = "crashed" => main = "crashed" \/ TakeRaw
      /\ main \in Pushing \union {"add"} => main' = main \/ TakeRaw
      /\ loop \in Popping \union {"got"} => loop' = loop
      /\ loop' = "front" => loop = "front" \/ main' \notin Pushing
      /\ loop' = "ended" => (loop = "ended" /\ (shouldStop => shouldStop')) \/ shouldStop'
  BY ControlFacts DEF Base
<1>2. ~TakeRaw
  BY FrontIsNext DEF TakeRaw, Files, Raw
<1>3. UNCHANGED <<cells, off, count, main_reg, loop_reg, pushed, taken>>
  BY <1>1 DEF ControlOnly
<1>4. /\ main \in Pushing => main' = main
      /\ main' \in Pushing => main' = main
  BY <1>1, <1>2 DEF ControlOnly
<1>5. /\ loop \in Popping \union {"got"} => loop' = loop
      /\ loop' \in Popping \union {"got"} => loop' = loop \/ loop' = "front"
  BY <1>1 DEF ControlOnly, Popping
<1>6. Exclusive'
  <2>1. main' # "crashed"
    BY <1>1, <1>2 DEF Fifo, Exclusive
  <2>2. ~(main' \in Pushing /\ loop' \in Popping)
    BY <1>1, <1>4, <1>5 DEF Fifo, Exclusive, Popping
  <2>3. loop' = "ended" => shouldStop'
    BY <1>1 DEF Fifo, Exclusive
  <2>. QED
    BY <2>1, <2>2, <2>3 DEF Exclusive
<1>7. /\ loop' \in Removing <=> loop \in Removing
      /\ \A l \in Removing \union {"got"} : loop' = l <=> loop = l
  BY <1>5 DEF Removing, Popping
<1>8. /\ main' \in Pushing <=> main \in Pushing
      /\ \A l \in Pushing : main' = l <=> main = l
  BY <1>4
<1>9. FirstFile' = FirstFile /\ PlacedFiles' = PlacedFiles /\ Counted' = Counted
  <2>1. main' = "place" <=> main = "place"
    BY <1>8 DEF Pushing
  <2>. QED
    BY <1>3, <1>7, <1>8, <2>1 DEF FirstFile, PlacedFiles, Counted
<1>10. InOrder'
  BY <1>3, <1>9 DEF Fifo, InOrder
<1>11. Registers'
  <2>1. /\ loop' = "store_off" <=> loop = "store_off"
        /\ loop' = "store_size" <=> loop = "store_size"
        /\ loop' = "got" <=> loop = "got"
        /\ main' = "place" <=> main = "place"
        /\ main' = "store_count" <=> main = "store_count"
    BY <1>7, <1>8 DEF Removing, Pushing
  <2>. QED
    BY <1>3, <1>7, <1>9, <2>1 DEF Fifo, Registers
<1>. QED
  BY <1>6, <1>10, <1>11 DEF Fifo
LEMMA PushFifo ==
  ASSUME Base, Fifo, PushBegin \/ PushPlace \/ PushLoadCount \/ PushStoreCount \/ PushAdd, ~raced'
  PROVE  Fifo'
<1>. DEFINE T == Len(taken)
<1>1. /\ T \in Nat /\ pushed \in Int /\ pushed <= MaxFiles /\ off \in 0 .. MaxFiles /\ off <= T
      /\ main_reg \in [off : 0 .. MaxFiles, count : 0 .. MaxFiles]
      /\ UNCHANGED <<loop, loop_reg, taken, shouldStop>> /\ FirstFile' = FirstFile
  <2>1. UNCHANGED <<loop, loop_reg, taken, shouldStop>>
    BY DEF PushBegin, PushPlace, PushLoadCount, PushStoreCount, PushAdd, flags, ghost
  <2>. QED
    BY <2>1, MapAssumption DEF Base, Control, Deque, Values, Offsets, Fifo, InOrder, FirstFile
<1>2. CASE PushBegin
  <2>1. /\ UNCHANGED <<cells, off, count>> /\ pushed' = pushed + 1
        /\ main = "ui" /\ main' = "place" /\ main_reg' = [main_reg EXCEPT !.off = off]
    BY <1>2 DEF PushBegin, deque
  <2>2. loop \notin Popping
    BY <1>2, Zenon DEF PushBegin
  <2>3. main_reg'.off = off
    BY <1>1, <2>1
  <2>4. PlacedFiles' = PlacedFiles /\ Counted' = Counted
    BY <1>1, <2>1 DEF PlacedFiles, Counted, Pushing
  <2>5. InOrder'
    BY <1>1, <2>1, <2>4 DEF Fifo, InOrder
  <2>6. Exclusive'
    BY <1>1, <2>1, <2>2 DEF Fifo, Exclusive
  <2>7. Registers'
    BY <1>1, <2>1, <2>3, <2>4 DEF Fifo, Registers, Removing
  <2>. QED
    BY <2>5, <2>6, <2>7 DEF Fifo
<1>3. CASE PushPlace
  <2>. DEFINE c == off + count
  <2>1. /\ UNCHANGED <<count, main_reg, pushed>> /\ main = "place" /\ main' = "load_count"
        /\ off' = main_reg.off % MapSize
        /\ cells' = [cells EXCEPT ![(main_reg.off + count) % MapSize] = pushed]
    BY <1>3 DEF PushPlace, ghost
  <2>2. loop \notin Popping
    BY <2>1 DEF Fifo, Exclusive, Pushing
  <2>3. /\ FirstFile = T + 1 /\ PlacedFiles = pushed - 1 /\ Counted = pushed - 1
        /\ PlacedFiles' = pushed /\ Counted' = Counted
    BY <2>1, <2>2 DEF FirstFile, Removing, Popping, PlacedFiles, Counted, Pushing
  <2>4. main_reg.off = off /\ count = pushed - 1 - T /\ count \in Int /\ count >= 0
    <3>1. count = Counted - T - 0
      BY <2>2 DEF Fifo, Registers, Popping
    <3>2. count \in 0 .. Counted
      BY DEF Base, Deque, Counts
    <3>3. main_reg.off = off
      BY <2>1 DEF Fifo, Registers
    <3>. HIDE DEF T
    <3>. QED
      BY <1>1, <2>3, <3>1, <3>2, <3>3
  <2>5. c \in Cells /\ off \in Cells
    BY <1>1, <2>4, MapAssumption DEF Cells
  <2>6. c % MapSize = c /\ off % MapSize = off
    BY <2>5, SmallMod
  <2>7. /\ off' = off /\ cells' = [cells EXCEPT ![c] = pushed] /\ DOMAIN cells = Cells
    BY <2>1, <2>4, <2>6 DEF Base, Deque, Values
  <2>8. InOrder'
    <3>1. ASSUME NEW f \in T + 1 .. pushed
          PROVE  cells'[off + f - T - 1] = f
      <4>1. CASE f = pushed
        <5>1. off + f - T - 1 = c
          BY <1>1, <2>4, <4>1
        <5>. QED
          BY <2>5, <2>7, <4>1, <5>1
      <4>2. CASE f # pushed
        <5>1. /\ f \in FirstFile .. PlacedFiles
              /\ off + f - T - 1 \in Cells /\ off + f - T - 1 # c
          BY <1>1, <2>3, <2>4, <4>2, MapAssumption DEF Cells
        <5>2. cells[off + f - T - 1] = f
          BY <5>1 DEF Fifo, InOrder
        <5>. QED
          BY <2>7, <5>1, <5>2
      <4>. QED
        BY <4>1, <4>2
    <3>2. FirstFile' .. PlacedFiles' = T + 1 .. pushed /\ Len(taken') = T
      BY <1>1, <2>3
    <3>. QED
      BY <1>1, <2>7, <3>1, <3>2 DEF Fifo, InOrder
  <2>9. Exclusive'
    BY <1>1, <2>1, <2>2 DEF Fifo, Exclusive
  <2>10. Registers'
    BY <1>1, <2>1, <2>3 DEF Fifo, Registers
  <2>. QED
    BY <2>8, <2>9, <2>10 DEF Fifo
<1>4. CASE PushLoadCount
  <2>1. /\ UNCHANGED <<cells, off, count, pushed>> /\ main = "load_count" /\ main' = "store_count"
        /\ main_reg' = [main_reg EXCEPT !.count = count]
    BY <1>4 DEF PushLoadCount, deque, ghost
  <2>2. main \in Pushing /\ main' \in Pushing
    BY <2>1 DEF Pushing
  <2>3. PlacedFiles' = PlacedFiles /\ Counted' = Counted
    BY <2>1, <2>2 DEF PlacedFiles, Counted
  <2>4. main_reg'.count = count
    BY <1>1, <2>1
  <2>5. InOrder'
    BY <1>1, <2>1, <2>3 DEF Fifo, InOrder
  <2>6. Exclusive'
    BY <1>1, <2>1, <2>2 DEF Fifo, Exclusive
  <2>7. Registers'
    BY <1>1, <2>1, <2>3, <2>4 DEF Fifo, Registers, Removing
  <2>. QED
    BY <2>5, <2>6, <2>7 DEF Fifo
<1>5. CASE PushStoreCount
  <2>1. /\ UNCHANGED <<cells, off, main_reg, pushed>> /\ main = "store_count" /\ main' = "add"
        /\ count' = main_reg.count + 1
    BY <1>5 DEF PushStoreCount, ghost
  <2>2. main \in Pushing /\ main' \notin Pushing /\ loop \notin Popping
    BY <2>1 DEF Pushing, Fifo, Exclusive
  <2>3. PlacedFiles' = PlacedFiles /\ Counted = pushed - 1 /\ Counted' = pushed
    BY <2>1, <2>2 DEF PlacedFiles, Counted
  <2>4. count = pushed - 1 - T - 0 /\ main_reg.count = count
    BY <2>1, <2>2, <2>3 DEF Fifo, Registers, Popping
  <2>5. InOrder'
    BY <1>1, <2>1, <2>3 DEF Fifo, InOrder
  <2>6. Exclusive'
    BY <1>1, <2>1, <2>2 DEF Fifo, Exclusive
  <2>7. count' = pushed - T - 0
    <3>. HIDE DEF T
    <3>. QED
      BY <1>1, <2>1, <2>4
  <2>8. loop # "store_off" /\ loop # "store_size" /\ loop \notin Removing
    BY <2>2 DEF Popping, Removing
  <2>9. Registers'
    BY <1>1, <2>1, <2>3, <2>7, <2>8 DEF Fifo, Registers
  <2>. QED
    BY <2>5, <2>6, <2>9 DEF Fifo
<1>6. CASE PushAdd
  <2>1. UNCHANGED <<cells, off, count, main_reg, pushed>> /\ main = "add" /\ main' = "notify"
    BY <1>6 DEF PushAdd, deque, ghost
  <2>2. main \notin Pushing /\ main' \notin Pushing
    BY <2>1 DEF Pushing
  <2>3. PlacedFiles' = PlacedFiles /\ Counted' = Counted
    BY <2>1, <2>2 DEF PlacedFiles, Counted
  <2>5. InOrder'
    BY <1>1, <2>1, <2>3 DEF Fifo, InOrder
  <2>6. Exclusive'
    BY <1>1, <2>1, <2>2 DEF Fifo, Exclusive
  <2>7. Registers'
    BY <1>1, <2>1, <2>3 DEF Fifo, Registers, Removing
  <2>. QED
    BY <2>5, <2>6, <2>7 DEF Fifo
<1>. QED
  BY <1>2, <1>3, <1>4, <1>5, <1>6
LEMMA PopFifo ==
  ASSUME Base, Fifo, TakeFront \/ PopLoadSize \/ PopStoreSize \/ PopStoreOff \/ Got, ~raced'
  PROVE  Fifo'
<1>. DEFINE T == Len(taken)
<1>1. /\ T \in Nat /\ pushed \in Int /\ pushed <= MaxFiles /\ off \in 0 .. MaxFiles /\ off <= T
      /\ loop_reg \in [item : Files \union {Gone}, count : 0 .. MaxFiles]
      /\ taken \in Seq(Files \union {Gone}) /\ count \in Int
      /\ UNCHANGED <<main, main_reg, pushed, shouldStop>>
      /\ PlacedFiles' = PlacedFiles /\ Counted' = Counted
  <2>1. UNCHANGED <<main, main_reg, pushed, shouldStop>>
    BY DEF TakeFront, PopLoadSize, PopStoreSize, PopStoreOff, Got, flags, ghost
  <2>2. pushed \in Int /\ Counted \in Int
    BY MapAssumption DEF Base, Control, Counted
  <2>. QED
    BY <2>1, <2>2, MapAssumption DEF Base, Control, Deque, Values, Offsets, Counts, Fifo, InOrder,
       PlacedFiles, Counted
<1>2. CASE TakeFront
  <2>1. /\ off \in Cells /\ off % MapSize = off /\ cells[off] = T + 1 /\ main \notin Pushing
    BY <1>2, FrontIsNext DEF TakeFront
  <2>2. /\ UNCHANGED <<off, count, taken>> /\ loop = "front" /\ loop' = "load_size"
        /\ loop_reg' = [loop_reg EXCEPT !.item = T + 1]
        /\ cells' = [cells EXCEPT ![off] = Gone]
    BY <1>2, <2>1 DEF TakeFront, ghost
  <2>3. loop_reg'.item = T + 1
    BY <1>1, <2>2
  <2>4. FirstFile = T + 1 /\ FirstFile' = T + 2 /\ PlacedFiles = pushed
    BY <2>1, <2>2 DEF FirstFile, Removing, PlacedFiles, Pushing
  <2>5. InOrder'
    <3>1. ASSUME NEW f \in T + 2 .. pushed
          PROVE  cells'[off + f - T - 1] = f
      <4>1. /\ f \in FirstFile .. PlacedFiles
            /\ off + f - T - 1 \in Cells /\ off + f - T - 1 # off
        BY <1>1, <2>4, MapAssumption DEF Cells
      <4>2. cells[off + f - T - 1] = f
        BY <4>1 DEF Fifo, InOrder
      <4>. QED
        BY <2>2, <4>1, <4>2 DEF Base, Deque, Values
    <3>2. FirstFile' .. PlacedFiles' = T + 2 .. pushed /\ Len(taken') = T
      BY <1>1, <2>2, <2>4
    <3>. QED
      BY <1>1, <2>2, <3>1, <3>2 DEF Fifo, InOrder
  <2>6. Exclusive'
    BY <1>1, <2>1, <2>2 DEF Fifo, Exclusive
  <2>7. Registers'
    BY <1>1, <2>2, <2>3 DEF Fifo, Registers, Removing
  <2>. QED
    BY <2>5, <2>6, <2>7 DEF Fifo
<1>3. CASE PopLoadSize
  <2>1. /\ UNCHANGED <<cells, off, count, taken>> /\ loop = "load_size" /\ loop' = "store_size"
        /\ loop_reg' = [loop_reg EXCEPT !.count = count]
    BY <1>3 DEF PopLoadSize, deque, ghost
  <2>2. /\ loop \in Removing /\ loop' \in Removing /\ main \notin Pushing
        /\ loop_reg'.count = count /\ loop_reg'.item = loop_reg.item
    BY <1>1, <2>1 DEF Removing, Fifo, Exclusive, Popping
  <2>3. FirstFile' = FirstFile
    BY <2>1, <2>2 DEF FirstFile
  <2>4. InOrder'
    BY <1>1, <2>1, <2>3 DEF Fifo, InOrder
  <2>5. Exclusive'
    BY <1>1, <2>1, <2>2 DEF Fifo, Exclusive
  <2>6. Registers'
    BY <1>1, <2>1, <2>2 DEF Fifo, Registers
  <2>. QED
    BY <2>4, <2>5, <2>6 DEF Fifo
<1>4. CASE PopStoreSize
  <2>1. /\ UNCHANGED <<cells, off, loop_reg, taken>> /\ loop = "store_size" /\ loop' = "store_off"
        /\ count' = loop_reg.count - 1
    BY <1>4 DEF PopStoreSize, ghost
  <2>2. loop \in Removing /\ loop' \in Removing /\ main \notin Pushing
    BY <1>1, <2>1 DEF Removing, Fifo, Exclusive, Popping
  <2>3. FirstFile' = FirstFile
    BY <2>1, <2>2 DEF FirstFile
  <2>4. InOrder'
    BY <1>1, <2>1, <2>3 DEF Fifo, InOrder
  <2>5. Exclusive'
    BY <1>1, <2>1, <2>2 DEF Fifo, Exclusive
  <2>6. Counted = pushed /\ count = Counted - T - 0 /\ loop_reg.count = count
    BY <2>1, <2>2 DEF Fifo, Registers, Counted
  <2>7. count' = Counted - T - 1 /\ loop_reg.count = count' + 1
    <3>. HIDE DEF T
    <3>. QED
      BY <1>1, <2>1, <2>6
  <2>8. main # "place" /\ main # "store_count"
    BY <2>2 DEF Pushing
  <2>9. Registers'
    BY <1>1, <2>1, <2>2, <2>7, <2>8 DEF Fifo, Registers
  <2>. QED
    BY <2>4, <2>5, <2>9 DEF Fifo
<1>5. CASE PopStoreOff
  <2>1. /\ UNCHANGED <<cells, count, loop_reg>> /\ loop = "store_off" /\ loop' = "got"
        /\ off' = NextOff /\ taken' = Append(taken, loop_reg.item)
    BY <1>5 DEF PopStoreOff
  <2>2. loop \in Removing /\ loop' \notin Removing /\ loop' \notin Popping /\ main \notin Pushing
    BY <1>1, <2>1 DEF Removing, Fifo, Exclusive, Popping
  <2>3. FirstFile = T + 2 /\ PlacedFiles = pushed /\ Counted = pushed
    BY <2>2 DEF FirstFile, PlacedFiles, Counted, Pushing
  <2>4. /\ count = pushed - T - 1 /\ loop_reg.count = count + 1 /\ loop_reg.item = T + 1
    BY <2>1, <2>2, <2>3 DEF Fifo, Registers
  <2>5. /\ Len(taken') = T + 1 /\ taken'[T + 1] = T + 1
        /\ \A i \in 1 .. T : taken'[i] = taken[i]
    BY <1>1, <2>1, <2>4
  <2>6. FirstFile' = T + 2
    <3>1. FirstFile' = Len(taken') + 1
      BY <2>2 DEF FirstFile
    <3>. HIDE DEF T
    <3>. QED
      BY <1>1, <2>5, <3>1
  <2>7. InOrder'
    <3>1. ASSUME NEW i \in 1 .. T + 1
          PROVE  taken'[i] = i
      <4>1. CASE i = T + 1
        BY <2>5, <4>1
      <4>2. CASE i # T + 1
        <5>1. i \in 1 .. T
          BY <1>1, <4>2
        <5>. QED
          BY <2>5, <5>1 DEF Fifo, InOrder
      <4>. QED
        BY <4>1, <4>2
    <3>2. off' <= T + 1
      BY <1>1, <2>1 DEF NextOff
    <3>3. ASSUME NEW f \in T + 2 .. pushed
          PROVE  cells'[off' + f - (T + 1) - 1] = f
      <4>1. off' = off + 1
        <5>1. count # 0
          BY <1>1, <2>4
        <5>2. loop_reg.count # 1
          BY <1>1, <2>4, <5>1
        <5>. QED
          BY <2>1, <5>2 DEF NextOff
      <4>2. off' + f - (T + 1) - 1 = off + f - T - 1
        BY <1>1, <4>1
      <4>3. f \in FirstFile .. PlacedFiles
        BY <2>3
      <4>4. cells[off + f - T - 1] = f
        BY <4>3 DEF Fifo, InOrder
      <4>. QED
        BY <2>1, <4>2, <4>4
    <3>4. FirstFile' .. PlacedFiles' = T + 2 .. pushed
      BY <1>1, <2>3, <2>6
    <3>. HIDE DEF T
    <3>. QED
      BY <2>5, <3>1, <3>2, <3>3, <3>4 DEF InOrder
  <2>8. Exclusive'
    BY <1>1, <2>1, <2>2 DEF Fifo, Exclusive
  <2>9. count' = Counted' - Len(taken') - 0 /\ loop_reg'.item = Len(taken') /\ Len(taken') > 0
    <3>. HIDE DEF T
    <3>. QED
      BY <1>1, <2>1, <2>3, <2>4, <2>5
  <2>10. main # "place" /\ main # "store_count"
    BY <2>2 DEF Pushing
  <2>11. Registers'
    BY <1>1, <2>1, <2>2, <2>9, <2>10 DEF Registers
  <2>. QED
    BY <2>7, <2>8, <2>11 DEF Fifo
<1>6. CASE Got
  <2>1. /\ UNCHANGED <<cells, off, count, main, main_reg, pushed, taken>>
        /\ loop = "got" /\ loop' \in {"while", "ended"}
        /\ loop' = "ended" => shouldStop \/ loop_reg.item = Gone
    BY <1>6 DEF Got, deque
  <2>2. loop_reg.item # Gone
    BY <1>1, <2>1 DEF Fifo, Registers, Gone
  <2>3. loop \notin Removing /\ loop' \notin Removing /\ loop' \notin Popping
    BY <2>1 DEF Removing, Popping
  <2>4. FirstFile' = FirstFile
    BY <2>1, <2>3 DEF FirstFile
  <2>5. InOrder'
    BY <1>1, <2>1, <2>4 DEF Fifo, InOrder
  <2>6. Exclusive'
    BY <1>1, <2>1, <2>2, <2>3 DEF Fifo, Exclusive
  <2>7. Registers'
    BY <1>1, <2>1, <2>3 DEF Fifo, Registers
  <2>. QED
    BY <2>5, <2>6, <2>7 DEF Fifo
<1>. QED
  BY <1>2, <1>3, <1>4, <1>5, <1>6
QueueInv == ~raced => Fifo

LEMMA RacedStays == Base /\ [Next]_vars /\ raced => raced'
<1>. SUFFICES ASSUME Base, [Next]_vars, raced
              PROVE  raced'
  OBVIOUS
<1>1. CASE ~DataStep
  BY <1>1, ControlFacts DEF Base
<1>2. CASE PushBegin
  BY <1>2, Zenon DEF PushBegin
<1>3. CASE PushPlace \/ PushLoadCount \/ PushStoreCount \/ PushAdd \/ TakeFront \/ PopLoadSize
             \/ PopStoreSize \/ PopStoreOff \/ Got
  BY <1>3 DEF PushPlace, PushLoadCount, PushStoreCount, PushAdd, TakeFront, PopLoadSize,
     PopStoreSize, PopStoreOff, Got, ghost
<1>. QED
  BY <1>1, <1>2, <1>3 DEF DataStep

LEMMA StepQueueInv ==
  ASSUME Base, QueueInv, [Next]_vars
  PROVE  QueueInv'
<1>. SUFFICES ASSUME ~raced'
              PROVE  Fifo'
  BY DEF QueueInv
<1>1. Fifo
  BY RacedStays DEF QueueInv
<1>2. Base'
  BY BaseInductive
<1>3. CASE ~DataStep
  BY <1>1, <1>2, <1>3, ControlFifo
<1>4. CASE DataStep
  BY <1>1, <1>4, PushFifo, PopFifo DEF DataStep
<1>. QED
  BY <1>3, <1>4

LEMMA QueueInductive == Spec => [](Base /\ QueueInv)
<1>1. Init => Base /\ QueueInv
  BY BaseInductive, InitFifo DEF QueueInv
<1>2. Base /\ QueueInv /\ [Next]_vars => Base' /\ QueueInv'
  BY BaseInductive, StepQueueInv
<1>. QED
  BY <1>1, <1>2, PTL DEF Spec

(* As long as no push met a pop inside the deque, what waitAndPop()        *)
(* returned followed by what the deque holds are the files, in the order   *)
(* of their pushes.                                                        *)
THEOREM NoFileLost == Spec => []NothingLostUnlessRaced
<1>1. Base /\ QueueInv => NothingLostUnlessRaced
  <2>. SUFFICES ASSUME Base, Fifo, Quiet
                PROVE  taken \o Contents = [i \in 1 .. pushed |-> i]
    BY DEF QueueInv, NothingLostUnlessRaced
  <2>. DEFINE T == Len(taken)
  <2>1. /\ T \in Nat /\ pushed \in Nat /\ pushed <= MaxFiles /\ off \in 0 .. MaxFiles /\ off <= T
        /\ taken \in Seq(Files \union {Gone}) /\ count \in Nat /\ count = pushed - T
    <3>1. /\ T \in Nat /\ pushed \in Nat /\ pushed <= MaxFiles /\ off \in 0 .. MaxFiles
          /\ off <= T /\ taken \in Seq(Files \union {Gone}) /\ Counted = pushed
      BY MapAssumption DEF Base, Control, Deque, Values, Offsets, Fifo, InOrder, Quiet, Counted
    <3>2. count = Counted - T - 0
      BY DEF Fifo, Registers, Quiet, Popping
    <3>3. count \in 0 .. Counted
      BY DEF Base, Deque, Counts
    <3>. HIDE DEF T
    <3>. QED
      BY <3>1, <3>2, <3>3
  <2>2. FirstFile .. PlacedFiles = T + 1 .. pushed
    BY DEF Quiet, FirstFile, Removing, Popping, PlacedFiles, Pushing
  <2>3. ASSUME NEW i \in 1 .. count
        PROVE  cells[(off + i - 1) % MapSize] = T + i
    <3>1. off + i - 1 \in Cells /\ T + i \in T + 1 .. pushed
      BY <2>1, MapAssumption DEF Cells
    <3>2. (off + i - 1) % MapSize = off + i - 1 /\ off + (T + i) - T - 1 = off + i - 1
      BY <2>1, <3>1, SmallMod
    <3>3. cells[off + (T + i) - T - 1] = T + i
      BY <2>2, <3>1 DEF Fifo, InOrder
    <3>. QED
      BY <3>2, <3>3
  <2>4. Contents = [i \in 1 .. count |-> T + i] /\ Contents \in Seq(Int) /\ Len(Contents) = count
    <3>1. Contents = [i \in 1 .. count |-> T + i]
      BY <2>3 DEF Contents
    <3>2. [i \in 1 .. count |-> T + i] \in Seq(Int) /\ Len([i \in 1 .. count |-> T + i]) = count
      BY <2>1
    <3>. QED
      BY <3>1, <3>2
  <2>. DEFINE all == taken \o Contents
  <2>5. /\ DOMAIN all = 1 .. pushed /\ all = [i \in 1 .. pushed |-> all[i]]
        /\ \A i \in 1 .. T : all[i] = taken[i]
        /\ \A i \in T + 1 .. pushed : all[i] = Contents[i - T]
    <3>1. /\ DOMAIN all = 1 .. T + count /\ all = [i \in 1 .. T + count |-> all[i]]
          /\ \A i \in 1 .. T + count : all[i] = IF i <= T THEN taken[i] ELSE Contents[i - T]
      BY <2>1, <2>4
    <3>2. T + count = pushed
      BY <2>1
    <3>. HIDE DEF all
    <3>. QED
      BY <2>1, <3>1, <3>2
  <2>6. ASSUME NEW i \in 1 .. pushed
        PROVE  all[i] = i
    <3>. HIDE DEF all
    <3>1. CASE i \in 1 .. T
      BY <2>5, <3>1 DEF Fifo, InOrder
    <3>2. CASE i \in T + 1 .. pushed
      <4>1. i - T \in 1 .. count /\ T + (i - T) = i
        BY <2>1, <3>2
      <4>. QED
        BY <2>4, <2>5, <3>2, <4>1
    <3>. QED
      BY <2>1, <3>1, <3>2
  <2>. HIDE DEF all
  <2>7. all = [i \in 1 .. pushed |-> i]
    BY <2>5, <2>6
  <2>. QED
    BY <2>7 DEF all
<1>. QED
  BY <1>1, QueueInductive, PTL

(* Without such a race the loop ends only for a stop and the process does  *)
(* not crash.                                                              *)
THEOREM LoopLastsUntilStop == Spec => []EndsOnlyWhenStopped
<1>1. Base /\ QueueInv => EndsOnlyWhenStopped
  BY DEF QueueInv, Fifo, Exclusive, EndsOnlyWhenStopped
<1>. QED
  BY <1>1, QueueInductive, PTL
-----------------------------------------------------------------------------
(* The counter.                                                            *)

(* Files the main thread has counted in mSize. *)
Added == IF main \in Pushing \union {"add"} THEN pushed - 1 ELSE pushed

(* Before the stop the wait lets a pop through only while the counter is   *)
(* positive, race or no race.                                              *)
Passed == ~mStopping => /\ mSize <= Added
                        /\ loop \in Popping \union {"check"} => mSize >= 1

(* The counter is what was counted less what was taken. *)
Exact == ~raced /\ (~mStopping \/ starts = 1) => mSize = Added - Len(taken)

CounterInv == Passed /\ Exact

LEMMA Numbers ==
  ASSUME Base
  PROVE  /\ mSize \in Nat /\ mSize < SizeRange /\ SizeRange \in Nat /\ MaxFiles < SizeRange
         /\ pushed \in Nat /\ pushed <= MaxFiles /\ MaxFiles \in Nat /\ Len(taken) \in Nat
         /\ Added \in Nat /\ Added <= pushed
         /\ taken \in Seq(Files \union {Gone})
         /\ mStopping \in BOOLEAN /\ raced \in BOOLEAN
<1>1. main \in Pushing \union {"add"} => pushed - 1 \in Nat
  BY MapAssumption DEF Base, Control
<1>. QED
  BY <1>1, MapAssumption, RangeAssumption DEF Base, Control, Deque, Values, Added

LEMMA StepCounter ==
  ASSUME Base, Base', QueueInv, QueueInv', CounterInv, [Next]_vars
  PROVE  CounterInv'
<1>1. /\ mSize \in Nat /\ mSize < SizeRange /\ SizeRange \in Nat /\ MaxFiles < SizeRange
      /\ pushed \in Nat /\ pushed <= MaxFiles /\ MaxFiles \in Nat /\ Len(taken) \in Nat
      /\ Added \in Nat /\ Added <= pushed
  BY Numbers
<1>2. raced => raced'
  BY RacedStays
<1>3. CASE ~DataStep
  <2>1. /\ UNCHANGED <<mSize, pushed, taken>>
        /\ mStopping => mStopping'
        /\ main' = "crashed" => main = "crashed" \/ TakeRaw
        /\ main' = main \/ main' \notin Pushing \union {"add"}
        /\ main \in Pushing \union {"add"} => main' = main \/ TakeRaw
        /\ \/ loop' = loop \/ loop' \notin Popping \union {"check"}
           \/ Ready
           \/ loop = "check"
        /\ starts' = starts \/ starts' = starts + 1
    BY <1>3, ControlFacts DEF Base, ControlOnly
  <2>2. Added' \in Nat /\ (Added' = Added \/ (Added' > Added /\ TakeRaw /\ main' # main))
    <3>1. CASE main \in Pushing \union {"add"} /\ main' = main
      BY <1>1, <2>1, <3>1 DEF Added
    <3>2. CASE main \in Pushing \union {"add"} /\ main' # main
      BY <1>1, <2>1, <3>2 DEF Added
    <3>3. CASE main \notin Pushing \union {"add"}
      BY <1>1, <2>1, <3>3 DEF Added
    <3>. QED
      BY <3>1, <3>2, <3>3
  <2>3. Passed'
    <3>. SUFFICES ASSUME ~mStopping'
                  PROVE  mSize' <= Added' /\ (loop' \in Popping \union {"check"} => mSize' >= 1)
      BY DEF Passed
    <3>1. ~mStopping /\ mSize <= Added /\ (loop \in Popping \union {"check"} => mSize >= 1)
      BY <2>1 DEF CounterInv, Passed
    <3>2. Ready => mSize >= 1
      BY <1>1, <3>1 DEF Ready
    <3>3. mSize' <= Added'
      BY <1>1, <2>1, <2>2, <3>1
    <3>. QED
      BY <2>1, <3>1, <3>2, <3>3
  <2>4. Exact'
    <3>. SUFFICES ASSUME ~raced', ~mStopping' \/ starts' = 1
                  PROVE  mSize' = Added' - Len(taken')
      BY DEF Exact
    <3>1. starts \in Int /\ starts >= 1
      BY StartsAssumption DEF Base, Control
    <3>2. ~mStopping \/ starts = 1
      BY <2>1, <3>1
    <3>3. mSize = Added - Len(taken)
      BY <1>2, <3>2 DEF CounterInv, Exact
    <3>4. ~TakeRaw
      <4>1. main' # "crashed"
        BY DEF QueueInv, Fifo, Exclusive
      <4>. QED
        BY <4>1 DEF TakeRaw
    <3>. QED
      BY <2>1, <2>2, <3>3, <3>4
  <2>. QED
    BY <2>3, <2>4 DEF CounterInv
<1>4. CASE PushBegin
  <2>1. /\ UNCHANGED <<mSize, mStopping, loop, taken, starts>> /\ pushed' = pushed + 1
        /\ main = "ui" /\ main' = "place"
    BY <1>4 DEF PushBegin, flags
  <2>2. Added' = Added
    BY <1>1, <2>1 DEF Added, Pushing
  <2>. QED
    BY <1>2, <2>1, <2>2 DEF CounterInv, Passed, Exact
<1>5. CASE PushPlace \/ PushLoadCount \/ PushStoreCount
  <2>1. /\ UNCHANGED <<mSize, mStopping, loop, taken, starts, pushed>>
        /\ main \in Pushing \union {"add"} /\ main' \in Pushing \union {"add"}
    BY <1>5 DEF PushPlace, PushLoadCount, PushStoreCount, flags, ghost, Pushing
  <2>2. Added' = Added
    BY <2>1 DEF Added
  <2>. QED
    BY <1>2, <2>1, <2>2 DEF CounterInv, Passed, Exact
<1>6. CASE PushAdd
  <2>1. /\ UNCHANGED <<mStopping, loop, taken, starts, pushed>> /\ main = "add" /\ main' = "notify"
        /\ mSize' = (mSize + 1) % SizeRange
    BY <1>6 DEF PushAdd, flags, ghost
  <2>2. Added' = pushed /\ Added = pushed - 1
    BY <2>1 DEF Added, Pushing
  <2>3. mSize <= Added => mSize' = mSize + 1
    BY <1>1, <2>1, <2>2
  <2>4. Passed'
    BY <1>1, <2>1, <2>2, <2>3 DEF CounterInv, Passed
  <2>5. Exact'
    <3>. SUFFICES ASSUME ~raced', ~mStopping' \/ starts' = 1
                  PROVE  mSize' = Added' - Len(taken')
      BY DEF Exact
    <3>1. mSize = Added - Len(taken)
      BY <1>2, <2>1 DEF CounterInv, Exact
    <3>2. mSize <= Added
      BY <1>1, <3>1
    <3>. QED
      BY <1>1, <2>1, <2>2, <2>3, <3>1, <3>2
  <2>. QED
    BY <2>4, <2>5 DEF CounterInv
<1>7. CASE TakeFront \/ PopLoadSize \/ PopStoreSize
  <2>1. /\ UNCHANGED <<mSize, mStopping, main, taken, starts, pushed>> /\ loop \in Popping
    BY <1>7 DEF TakeFront, PopLoadSize, PopStoreSize, flags, ghost, Popping
  <2>2. Added' = Added
    BY <2>1 DEF Added
  <2>. QED
    BY <1>2, <2>1, <2>2 DEF CounterInv, Passed, Exact
<1>8. CASE Got
  <2>1. /\ UNCHANGED <<mSize, mStopping, main, taken, starts, pushed>>
        /\ loop' \notin Popping \union {"check"}
    BY <1>8 DEF Got, flags, Popping
  <2>2. Added' = Added
    BY <2>1 DEF Added
  <2>. QED
    BY <1>2, <2>1, <2>2 DEF CounterInv, Passed, Exact
<1>9. CASE PopStoreOff
  <2>1. /\ UNCHANGED <<mStopping, main, starts, pushed>> /\ loop = "store_off" /\ loop' = "got"
        /\ mSize' = (mSize - 1) % SizeRange /\ taken' = Append(taken, loop_reg.item)
    BY <1>9 DEF PopStoreOff, flags
  <2>2. /\ Added' = Added /\ loop' \notin Popping \union {"check"} /\ loop \in Popping
        /\ Len(taken') = Len(taken) + 1
    BY <2>1, Numbers DEF Added, Popping
  <2>3. mSize >= 1 => mSize' = mSize - 1
    BY <1>1, <2>1
  <2>4. ~mStopping => mSize >= 1 /\ mSize <= Added
    BY <2>2 DEF CounterInv, Passed
  <2>5. Passed'
    BY <1>1, <2>1, <2>2, <2>3, <2>4 DEF Passed
  <2>6. Exact'
    <3>. SUFFICES ASSUME ~raced', ~mStopping \/ starts = 1
                  PROVE  mSize' = Added' - Len(taken')
      BY <2>1 DEF Exact
    <3>1. mSize = Added - Len(taken)
      BY <1>2 DEF CounterInv, Exact
    <3>2. CASE mStopping
      <4>1. main \notin Pushing \union {"add"}
        BY <3>2, StartsAssumption DEF Base, Control, Stopped, Pushing, Stopping
      <4>2. Added = pushed /\ Counted = pushed
        BY <4>1 DEF Added, Counted
      <4>3. count = pushed - Len(taken) - 1 /\ count >= 0
        BY <1>1, <1>2, <2>1, <4>2 DEF QueueInv, Fifo, Registers, Base, Deque, Counts
      <4>4. mSize >= 1
        BY <1>1, <3>1, <4>2, <4>3
      <4>. QED
        BY <1>1, <2>2, <2>3, <3>1, <4>4
    <3>3. CASE ~mStopping
      BY <1>1, <2>2, <2>3, <2>4, <3>1, <3>3
    <3>. QED
      BY <3>2, <3>3
  <2>. QED
    BY <2>5, <2>6 DEF CounterInv
<1>. QED
  BY <1>3, <1>4, <1>5, <1>6, <1>7, <1>8, <1>9 DEF DataStep

(* The counter never wraps below zero: until the stop whatever the race    *)
(* does, after it as long as the service was started once and nothing      *)
(* raced.                                                                  *)
THEOREM CounterStaysAboveZero == Spec => []CounterNeverWraps
<1>1. Init => CounterInv
  <2>. SUFFICES ASSUME Init
                PROVE  CounterInv
    OBVIOUS
  <2>1. mSize = 0 /\ pushed = 0 /\ taken = <<>> /\ main = "ui" /\ loop = "while"
    BY DEF Init
  <2>2. Added = 0 /\ Len(taken) = 0 /\ loop \notin Popping \union {"check"}
    BY <2>1 DEF Added, Pushing, Popping
  <2>3. mSize <= Added /\ mSize = Added - Len(taken)
    <3>1. 0 <= 0 /\ 0 = 0 - 0
      OBVIOUS
    <3>. QED
      BY <2>1, <2>2, <3>1, Zenon
  <2>. QED
    BY <2>2, <2>3 DEF CounterInv, Passed, Exact
<1>2. (Base /\ QueueInv) /\ (Base /\ QueueInv)' /\ CounterInv /\ [Next]_vars => CounterInv'
  BY StepCounter
<1>3. Base /\ CounterInv => CounterNeverWraps
  <2>. SUFFICES ASSUME Base, CounterInv, ~mStopping \/ (starts = 1 /\ ~raced)
                PROVE  mSize <= pushed
    BY DEF CounterNeverWraps
  <2>1. mSize <= Added \/ mSize = Added - Len(taken)
    BY DEF CounterInv, Passed, Exact
  <2>. QED
    BY <2>1, Numbers
<1>. QED
  BY <1>1, <1>2, <1>3, QueueInductive, PTL DEF Spec
=============================================================================
