---------------------------- MODULE TwoTierQueue ----------------------------
(***************************************************************************)
(* What PersistentMessageQueue promises, without ring positions, byte      *)
(* offsets, size counters or an index file: a bounded first-in first-out   *)
(* memory tier, a disk tier consumed only when the memory tier is empty,   *)
(* and a log of everything the disk tier ever held.  A process that ends,  *)
(* by a crash or in good order, loses its memory tier; the next one finds  *)
(* the whole log pending again, in its order and in no other, whatever     *)
(* priorities the messages have.                                           *)
(*                                                                         *)
(* One message of a process may be misread: the first it appends to a log  *)
(* that earlier ones left.  It keeps its place, and a later start may find *)
(* it readable again.                                                      *)
(***************************************************************************)
EXTENDS Naturals, Sequences

CONSTANTS
  Message,       \* messages
  Misread,       \* in the place of one that cannot be read back
  MemoryBound    \* messages the memory tier holds at most

VARIABLES
  mem,           \* the memory tier
  pending,       \* what the disk tier has still to deliver, Misread ones included
  log,           \* what survives the process: messages, and whether they are sure
                 \* to be read back
  appended       \* this process has appended to the log

vars == <<mem, pending, log, appended>>

Init == mem = <<>> /\ pending = <<>> /\ log = <<>> /\ appended = FALSE

Accept(m) ==
  /\ Len(mem) < MemoryBound
  /\ mem' = Append(mem, m)
  /\ UNCHANGED <<pending, log, appended>>

AppendToLog(m) ==
  /\ appended' = TRUE
  /\ \/ /\ pending' = Append(pending, m)
        /\ log' = Append(log, [msg |-> m, sure |-> TRUE])
     \/ /\ ~appended /\ log # <<>>
        /\ pending' = Append(pending, Misread)
        /\ log' = Append(log, [msg |-> m, sure |-> FALSE])

(* Only a full memory tier sends a new message to the disk. *)
Overflow(m) ==
  /\ Len(mem) = MemoryBound
  /\ AppendToLog(m)
  /\ UNCHANGED mem

TakeMemory ==
  /\ mem # <<>>
  /\ mem' = Tail(mem)
  /\ UNCHANGED <<pending, log, appended>>

TakePending ==
  /\ mem = <<>> /\ pending # <<>>
  /\ pending' = Tail(pending)
  /\ UNCHANGED <<mem, log, appended>>

(* In the place of a misread message the log's first is loaded, or none. *)
Load ==
  /\ pending # <<>> /\ Len(mem) < MemoryBound
  /\ \/ Head(pending) # Misread /\ mem' = Append(mem, Head(pending))
     \/ Head(pending) = Misread /\ mem' \in {mem, Append(mem, Head(log).msg)}
  /\ pending' = Tail(pending)
  /\ UNCHANGED <<log, appended>>

Flush ==
  /\ mem # <<>>
  /\ mem' = Tail(mem)
  /\ AppendToLog(Head(mem))

Clear == mem' = <<>> /\ pending' = <<>> /\ log' = <<>> /\ appended' = FALSE

ProcessEnds ==
  /\ mem' = <<>> /\ pending' = <<>> /\ appended' = FALSE
  /\ UNCHANGED log

(* A start finds all of the log pending, what is not sure perhaps misread. *)
ProcessStarts ==
  /\ mem = <<>> /\ pending = <<>>
  /\ DOMAIN pending' = DOMAIN log
  /\ \A k \in DOMAIN log :
       pending'[k] = log[k].msg \/ (~log[k].sure /\ pending'[k] = Misread)
  /\ UNCHANGED <<mem, log, appended>>

Next ==
  \/ \E m \in Message : Accept(m) \/ Overflow(m)
  \/ TakeMemory \/ TakePending \/ Load \/ Flush
  \/ Clear \/ ProcessEnds \/ ProcessStarts

Spec == Init /\ [][Next]_vars
=============================================================================
