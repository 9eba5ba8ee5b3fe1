--------------------------- MODULE IpcServer_proofs ---------------------------
(***************************************************************************)
(* Proofs about IpcServer, for any number of connections and messages and  *)
(* all sizes: the two maps of clients; what the heartbeat checker may      *)
(* close; and what the framing loop takes out of the streams.              *)
(***************************************************************************)
EXTENDS IpcServer, SharedLemmas, TLAPS

(* The part of the types that the maps and the checker need. *)
Shapes ==
  /\ clients \subseteq Sockets /\ states \subseteq Sockets
  /\ conn \in [Sockets -> {"none", "backlog", "open", "closed"}]
  /\ read \in [Sockets -> {"none", "pending", "data", "error"}]
  /\ last \in [Sockets -> 0 .. MaxTime] /\ now \in 0 .. MaxTime
  /\ since \in [Sockets -> Nat]
  /\ stepped \in BOOLEAN

(* Until the clock is set back, a client's time of the last heartbeat and  *)
(* the time since then add up to the present.                              *)
HeartbeatTimed == ~stepped => \A s \in states : last[s] + since[s] = now

IInv == Shapes /\ RegisteredIsRead /\ HeartbeatTimed
-----------------------------------------------------------------------------
(* What each step keeps. *)

LEMMA AcceptKeeps ==
  ASSUME IInv, NEW s \in Sockets, Accept(s)
  PROVE  IInv'
<1>. USE DEF IInv, Accept
<1>1. Shapes'
  BY DEF Shapes
<1>2. RegisteredIsRead'
  BY DEF Shapes, RegisteredIsRead
<1>3. HeartbeatTimed'
  BY TimeAssumption DEF Shapes, HeartbeatTimed
<1>. QED
  BY <1>1, <1>2, <1>3

LEMMA ReadDataKeeps ==
  ASSUME IInv, NEW s \in Sockets, ReadData(s)
  PROVE  IInv'
<1>1. /\ read' = [read EXCEPT ![s] = "data"]
      /\ UNCHANGED <<clients, states, conn, last, time>>
  BY DEF ReadData
<1>2. Shapes'
  BY <1>1 DEF IInv, Shapes, time
<1>3. RegisteredIsRead'
  BY <1>1 DEF IInv, Shapes, RegisteredIsRead
<1>4. HeartbeatTimed'
  BY <1>1 DEF IInv, HeartbeatTimed, time
<1>. QED
  BY <1>2, <1>3, <1>4 DEF IInv

LEMMA ReadEndsKeeps ==
  ASSUME IInv, NEW s \in Sockets, ReadEnds(s)
  PROVE  IInv'
<1>. USE DEF IInv, ReadEnds, time
<1>1. Shapes'
  BY DEF Shapes
<1>2. RegisteredIsRead'
  BY DEF Shapes, RegisteredIsRead
<1>3. HeartbeatTimed'
  BY DEF HeartbeatTimed
<1>. QED
  BY <1>1, <1>2, <1>3

(* A heartbeat sets both times; whether the messages hold one is open. *)
LEMMA HandleDataKeeps ==
  ASSUME IInv, NEW s \in Sockets, HandleData(s)
  PROVE  IInv'
<1>1. /\ read' = [read EXCEPT ![s] = NextRead(s)]
      /\ UNCHANGED <<clients, states, conn, now, stepped>>
      /\ \/ last' = [last EXCEPT ![s] = now] /\ since' = [since EXCEPT ![s] = 0]
         \/ UNCHANGED <<last, since>>
  BY DEF HandleData
<1>2. NextRead(s) \in {"pending", "error"}
  BY DEF NextRead
<1>3. Shapes'
  BY <1>1, <1>2 DEF IInv, Shapes
<1>4. RegisteredIsRead'
  BY <1>1, <1>2 DEF IInv, Shapes, RegisteredIsRead
<1>5. HeartbeatTimed'
  BY <1>1 DEF IInv, Shapes, HeartbeatTimed
<1>. QED
  BY <1>3, <1>4, <1>5 DEF IInv

LEMMA HandleErrorKeeps ==
  ASSUME IInv, NEW s \in Sockets, HandleError(s)
  PROVE  IInv'
<1>. USE DEF IInv, HandleError, time
<1>1. Shapes'
  BY DEF Shapes
<1>2. RegisteredIsRead'
  BY DEF Shapes, RegisteredIsRead
<1>3. HeartbeatTimed'
  BY DEF HeartbeatTimed
<1>. QED
  BY <1>1, <1>2, <1>3

LEMMA CheckHeartbeatsKeeps ==
  ASSUME IInv, CheckHeartbeats
  PROVE  IInv'
<1>. USE DEF IInv, CheckHeartbeats, time
<1>1. Shapes'
  BY DEF Shapes
<1>2. RegisteredIsRead'
  BY DEF Shapes, RegisteredIsRead
<1>3. HeartbeatTimed'
  BY DEF HeartbeatTimed
<1>. QED
  BY <1>1, <1>2, <1>3

(* What the clients do reaches the server only through its reads. *)
LEMMA ClientKeeps ==
  ASSUME IInv, NEW s \in Sockets, Client(s)
  PROVE  IInv'
<1>1. CASE Connect(s)
  <2>. USE <1>1 DEF IInv, Connect, time
  <2>1. Shapes'
    BY DEF Shapes
  <2>2. RegisteredIsRead'
    BY DEF Shapes, RegisteredIsRead
  <2>3. HeartbeatTimed'
    BY DEF HeartbeatTimed
  <2>. QED
    BY <2>1, <2>2, <2>3
<1>2. CASE UNCHANGED <<server, time>>
  BY <1>2 DEF IInv, Shapes, RegisteredIsRead, HeartbeatTimed, server, time
<1>. QED
  BY <1>1, <1>2 DEF Client, Send, Shut, Reset

LEMMA TickKeeps ==
  ASSUME IInv, Tick
  PROVE  IInv'
<1>. USE DEF IInv, Tick, server
<1>1. Shapes'
  BY TimeAssumption DEF Shapes
<1>2. RegisteredIsRead'
  BY DEF RegisteredIsRead
<1>3. HeartbeatTimed'
  BY TimeAssumption DEF Shapes, HeartbeatTimed
<1>. QED
  BY <1>1, <1>2, <1>3

LEMMA StepBackKeeps ==
  ASSUME IInv, StepBack
  PROVE  IInv'
<1>. USE DEF IInv, StepBack, server
<1>1. Shapes'
  BY TimeAssumption DEF Shapes
<1>2. RegisteredIsRead'
  BY DEF RegisteredIsRead
<1>3. HeartbeatTimed'
  BY DEF HeartbeatTimed
<1>. QED
  BY <1>1, <1>2, <1>3

LEMMA InitHolds == Init => IInv
<1>. SUFFICES ASSUME Init
              PROVE  IInv
  OBVIOUS
<1>1. clients = {} /\ states = {} /\ now = 0 /\ stepped = FALSE
  BY DEF Init
<1>2. /\ conn \in [Sockets -> {"none", "backlog", "open", "closed"}]
      /\ read \in [Sockets -> {"none", "pending", "data", "error"}]
  BY DEF Init
<1>3. last \in [Sockets -> 0 .. MaxTime] /\ since \in [Sockets -> Nat]
  BY TimeAssumption DEF Init
<1>4. Shapes
  <2>1. clients \subseteq Sockets /\ states \subseteq Sockets /\ stepped \in BOOLEAN
    BY <1>1
  <2>2. now \in 0 .. MaxTime
    BY <1>1, TimeAssumption
  <2>. QED
    BY <1>2, <1>3, <2>1, <2>2 DEF Shapes
<1>5. RegisteredIsRead /\ HeartbeatTimed
  BY <1>1 DEF RegisteredIsRead, HeartbeatTimed
<1>. QED
  BY <1>4, <1>5 DEF IInv

LEMMA StepKeeps == IInv /\ [Next]_vars => IInv'
<1>. SUFFICES ASSUME IInv, [Next]_vars
              PROVE  IInv'
  OBVIOUS
<1>1. CASE UNCHANGED vars
  BY <1>1 DEF vars, server, time, IInv, Shapes, RegisteredIsRead, HeartbeatTimed
<1>2. CASE \E s \in Sockets : Accept(s) \/ Handler(s) \/ Client(s)
  BY <1>2, AcceptKeeps, ReadDataKeeps, ReadEndsKeeps, HandleDataKeeps, HandleErrorKeeps,
     ClientKeeps DEF Handler
<1>. QED
  BY <1>1, <1>2, CheckHeartbeatsKeeps, TickKeeps, StepBackKeeps DEF Next

LEMMA Invariance == Spec => []IInv
BY InitHolds, StepKeeps, PTL DEF Spec
-----------------------------------------------------------------------------
(* Both maps hold the same clients and each of them is being read, with    *)
(* any number of connections that come, end and time out in any order.     *)
THEOREM MapsAgree == Spec => []RegisteredIsRead
<1>1. IInv => RegisteredIsRead
  BY DEF IInv
<1>. QED
  BY <1>1, Invariance, PTL

(* The unsigned difference of the checker is the time since the heartbeat, *)
(* as long as the clock was not set back.                                  *)
LEMMA ElapsedValue ==
  ASSUME IInv, ~stepped, NEW s \in states
  PROVE  Elapsed(s) = since[s]
<1>1. now - last[s] = since[s] /\ since[s] \in 0 .. TimeRange - 1
  BY TimeAssumption DEF IInv, Shapes, HeartbeatTimed
<1>2. \A n \in 0 .. TimeRange - 1 : n % TimeRange = n
  BY TimeAssumption
<1>. QED
  BY <1>1, <1>2 DEF Elapsed

(* Only the checker closes a connection. *)
LEMMA ClosedByChecker ==
  ASSUME IInv, Next, NEW s \in Sockets, conn[s] = "open", conn'[s] = "closed"
  PROVE  s \in TimedOut
<1>1. CASE CheckHeartbeats
  BY <1>1 DEF IInv, Shapes, CheckHeartbeats
<1>2. CASE \E t \in Sockets : Accept(t) \/ Connect(t)
  BY <1>2 DEF IInv, Shapes, Accept, Connect
<1>3. CASE UNCHANGED conn
  BY <1>3
<1>. QED
  BY <1>1, <1>2, <1>3 DEF Next, Handler, Client, ReadData, ReadEnds, HandleData, HandleError,
     Send, Shut, Reset, Tick, StepBack, server

(* The checker drops no client whose accept or whose last handled          *)
(* heartbeat is within the timeout, unless the clock was set back: its     *)
(* unsigned difference is the time since, whatever the other connections   *)
(* do meanwhile.  One that was sent and not handled yet does not count.    *)
THEOREM NoLiveClientDropped == Spec => LiveClientKept
<1>1. IInv /\ [Next]_vars =>
        [\A s \in Sockets :
           conn[s] = "open" /\ conn'[s] = "closed" => since[s] > Timeout \/ stepped]_vars
  BY ClosedByChecker, ElapsedValue DEF TimedOut, IInv, Shapes
<1>. QED
  BY <1>1, Invariance, PTL DEF Spec, LiveClientKept
-----------------------------------------------------------------------------
(* The length on the wire.                                                 *)

LEMMA PowerValue ==
  /\ Power \in [0 .. HeaderSize -> Nat \ {0}]
  /\ Power[0] = 1
  /\ \A i \in 1 .. HeaderSize : Power[i] = Base * Power[i - 1]
<1>. DEFINE V == Nat \ {0}
            step == [p \in (1 .. HeaderSize) \X V |-> Base * p[2]]
            Is(g) == g = [i \in 0 .. HeaderSize |-> IF i = 0 THEN 1 ELSE Base * g[i - 1]]
<1>1. \A v \in V : Base * v \in V
  BY HeaderAssumption
<1>2. step \in [(1 .. HeaderSize) \X V -> V]
  BY <1>1
<1>3. HeaderSize \in Nat /\ 1 \in V
  BY HeaderAssumption
<1>4. PICK g : RunsUpTo(g, HeaderSize, V, 1, step)
  <2>. HIDE DEF step, V
  <2>. QED
    BY <1>2, <1>3, Recursion
<1>5. /\ g \in [0 .. HeaderSize -> V] /\ g[0] = 1
      /\ \A i \in 1 .. HeaderSize : g[i] = Base * g[i - 1]
  <2>1. /\ g \in [0 .. HeaderSize -> V] /\ g[0] = 1
        /\ \A i \in 1 .. HeaderSize : g[i] = step[<<i, g[i - 1]>>]
    BY <1>4 DEF RunsUpTo
  <2>2. ASSUME NEW i \in 1 .. HeaderSize
        PROVE  step[<<i, g[i - 1]>>] = Base * g[i - 1]
    <3>1. g[i - 1] \in V
      BY <1>3, <2>1
    <3>. HIDE DEF V
    <3>. QED
      BY <3>1
  <2>. QED
    BY <2>1, <2>2
<1>6. Is(g)
  BY <1>3, <1>5
<1>7. Is(Power)
  <2>1. \E h : Is(h)
    BY <1>6
  <2>2. Is(CHOOSE h : Is(h))
    <3>. HIDE DEF Is
    <3>. QED
      BY <2>1
  <2>. QED
    BY <2>2 DEF Power
<1>8. \A i \in 0 .. HeaderSize : i \in {k \in 0 .. HeaderSize : Power[k] \in V}
  <2>. DEFINE S == {k \in 0 .. HeaderSize : Power[k] \in V}
  <2>1. 0 \in S /\ \A i \in 0 .. HeaderSize - 1 : i \in S => i + 1 \in S
    BY <1>1, <1>3, <1>7
  <2>. HIDE DEF S
  <2>2. \A i \in 0 .. HeaderSize : i \in S
    BY <1>3, <2>1, Induction
  <2>. QED
    BY <2>2 DEF S
<1>. QED
  BY <1>3, <1>7, <1>8

(* The partial sums of the digits. *)
LEMMA ValueSums ==
  ASSUME NEW d \in Seq(Nat), Len(d) = HeaderSize
  PROVE  \E v \in [0 .. HeaderSize -> Nat] :
           /\ v[0] = 0 /\ Value(d) = v[HeaderSize]
           /\ \A i \in 1 .. HeaderSize : v[i] = d[i] * Power[i - 1] + v[i - 1]
<1>. DEFINE step == [p \in (1 .. HeaderSize) \X Nat |-> d[p[1]] * Power[p[1] - 1] + p[2]]
            Is(g) == g = [i \in 0 .. HeaderSize |->
                            IF i = 0 THEN 0 ELSE d[i] * Power[i - 1] + g[i - 1]]
<1>1. HeaderSize \in Nat
  BY HeaderAssumption
<1>2. \A i \in 1 .. HeaderSize : d[i] \in Nat /\ Power[i - 1] \in Nat
  BY <1>1, PowerValue
<1>3. ASSUME NEW i \in 1 .. HeaderSize, NEW x \in Nat
      PROVE  d[i] * Power[i - 1] + x \in Nat
  <2>1. \A a, b \in Nat : a * b + x \in Nat
    OBVIOUS
  <2>. QED
    BY <1>2, <2>1
<1>4. step \in [(1 .. HeaderSize) \X Nat -> Nat]
  BY <1>3
<1>5. PICK g : RunsUpTo(g, HeaderSize, Nat, 0, step)
  <2>. HIDE DEF step
  <2>. QED
    BY <1>1, <1>4, Recursion
<1>6. /\ g \in [0 .. HeaderSize -> Nat] /\ g[0] = 0
      /\ \A i \in 1 .. HeaderSize : g[i] = d[i] * Power[i - 1] + g[i - 1]
  <2>1. /\ g \in [0 .. HeaderSize -> Nat] /\ g[0] = 0
        /\ \A i \in 1 .. HeaderSize : g[i] = step[<<i, g[i - 1]>>]
    BY <1>5 DEF RunsUpTo
  <2>2. ASSUME NEW i \in 1 .. HeaderSize
        PROVE  step[<<i, g[i - 1]>>] = d[i] * Power[i - 1] + g[i - 1]
    <3>1. g[i - 1] \in Nat
      BY <1>1, <2>1
    <3>. QED
      BY <3>1
  <2>. QED
    BY <2>1, <2>2
<1>7. Is(g)
  BY <1>1, <1>6
<1>. DEFINE v == CHOOSE h : Is(h)
<1>8. Is(v)
  <2>1. \E h : Is(h)
    BY <1>7
  <2>. HIDE DEF Is
  <2>. QED
    BY <2>1
<1>9. Value(d) = v[HeaderSize]
  BY DEF Value
<1>. HIDE DEF v
<1>10. \A i \in 0 .. HeaderSize : i \in {k \in 0 .. HeaderSize : v[k] \in Nat}
  <2>. DEFINE S == {k \in 0 .. HeaderSize : v[k] \in Nat}
  <2>1. 0 \in S
    BY <1>1, <1>8
  <2>2. ASSUME NEW i \in 0 .. HeaderSize - 1, i \in S
        PROVE  i + 1 \in S
    <3>1. v[i + 1] = d[i + 1] * Power[(i + 1) - 1] + v[(i + 1) - 1]
      BY <1>1, <1>8
    <3>2. i + 1 \in 1 .. HeaderSize /\ (i + 1) - 1 = i
      BY <1>1
    <3>3. v[i] \in Nat
      BY <2>2
    <3>4. d[i + 1] * Power[(i + 1) - 1] + v[i] \in Nat
      BY <1>3, <3>2, <3>3
    <3>. QED
      BY <3>1, <3>2, <3>4
  <2>. HIDE DEF S
  <2>3. \A i \in 0 .. HeaderSize : i \in S
    BY <1>1, <2>1, <2>2, Induction
  <2>. QED
    BY <2>3 DEF S
<1>11. v \in [0 .. HeaderSize -> Nat]
  BY <1>8, <1>10
<1>12. v[0] = 0 /\ \A i \in 1 .. HeaderSize : v[i] = d[i] * Power[i - 1] + v[i - 1]
  BY <1>1, <1>8
<1>. QED
  BY <1>9, <1>11, <1>12

LEMMA HeaderTyped ==
  ASSUME NEW n \in Nat
  PROVE  /\ Header(n) \in Seq(Nat) /\ Len(Header(n)) = HeaderSize
         /\ \A i \in 1 .. HeaderSize : Header(n)[i] = (n \div Power[i - 1]) % Base
<1>1. ASSUME NEW i \in 1 .. HeaderSize
      PROVE  (n \div Power[i - 1]) % Base \in Nat
  <2>1. Power[i - 1] \in Nat \ {0} /\ Base \in Nat \ {0}
    BY PowerValue, HeaderAssumption
  <2>2. n \div Power[i - 1] \in Nat
    BY <2>1, Division
  <2>. QED
    BY <2>1, <2>2, Division
<1>. QED
  BY <1>1, HeaderAssumption DEF Header, Digit

(* The server reads the length that the client wrote. *)
LEMMA LengthReadBack ==
  ASSUME NEW n \in Nat, n < LengthRange
  PROVE  Value(Header(n)) = n
<1>. DEFINE d == Header(n)
<1>1. HeaderSize \in Nat \ {0} /\ Base \in Nat \ {0}
  BY HeaderAssumption
<1>2. /\ d \in Seq(Nat) /\ Len(d) = HeaderSize
      /\ \A i \in 1 .. HeaderSize : d[i] = (n \div Power[i - 1]) % Base
  BY HeaderTyped
<1>. HIDE DEF d
<1>3. PICK v \in [0 .. HeaderSize -> Nat] :
        /\ v[0] = 0 /\ Value(d) = v[HeaderSize]
        /\ \A i \in 1 .. HeaderSize : v[i] = d[i] * Power[i - 1] + v[i - 1]
  BY <1>2, ValueSums
<1>. DEFINE S == {i \in 0 .. HeaderSize : v[i] = n % Power[i]}
<1>4. 0 \in S
  <2>1. n % 1 = 0
    OBVIOUS
  <2>. QED
    BY <1>1, <1>3, <2>1, PowerValue
<1>5. ASSUME NEW i \in 0 .. HeaderSize - 1, i \in S
      PROVE  i + 1 \in S
  <2>1. i + 1 \in 1 .. HeaderSize /\ (i + 1) - 1 = i /\ i \in 0 .. HeaderSize
    BY <1>1
  <2>2. /\ Power[i] \in Nat \ {0} /\ Power[i + 1] = Base * Power[i]
        /\ d[i + 1] = (n \div Power[i]) % Base
        /\ v[i + 1] = d[i + 1] * Power[i] + v[i]
    BY <1>2, <1>3, <2>1, PowerValue
  <2>3. n % (Base * Power[i]) = ((n \div Power[i]) % Base) * Power[i] + (n % Power[i])
    BY <1>1, <2>2, NextDigit
  <2>4. v[i] = n % Power[i]
    BY <1>5
  <2>. QED
    BY <2>1, <2>2, <2>3, <2>4
<1>6. HeaderSize \in S
  <2>. HIDE DEF S
  <2>1. \A i \in 0 .. HeaderSize : i \in S
    BY <1>1, <1>4, <1>5, Induction
  <2>. QED
    BY <1>1, <2>1
<1>7. n % LengthRange = n
  <2>1. LengthRange \in Nat \ {0}
    BY <1>1, PowerValue DEF LengthRange
  <2>. QED
    BY <2>1
<1>. QED
  BY <1>3, <1>6, <1>7 DEF LengthRange, d
-----------------------------------------------------------------------------
(* Frames, and where they end in the stream of a connection.               *)

LEMMA FrameCells ==
  ASSUME NEW k \in Kinds, NEW i \in Nat
  PROVE  /\ Body(k, i) \in Seq(Nat) /\ Len(Body(k, i)) = 1 + BodySize[k]
         /\ Len(Body(k, i)) \in Nat \ {0}
         /\ Frame(k, i) \in Seq(Nat) /\ Len(Frame(k, i)) = HeaderSize + Len(Body(k, i))
         /\ \A j \in 1 .. HeaderSize : Frame(k, i)[j] = Header(Len(Body(k, i)))[j]
         /\ \A j \in 1 .. Len(Body(k, i)) : Frame(k, i)[HeaderSize + j] = Body(k, i)[j]
<1>. DEFINE b == Body(k, i)
<1>1. BodySize[k] \in Nat /\ Base \in Nat /\ HeaderSize \in Nat
  BY BodyAssumption, HeaderAssumption
<1>2. b \in Seq(Nat) /\ Len(b) = 1 + BodySize[k]
  <2>1. FieldZero(k) \in Nat
    BY DEF FieldZero
  <2>. DEFINE t == [j \in 1 .. BodySize[k] |-> Base + i]
  <2>2. t \in Seq(Nat) /\ Len(t) = BodySize[k]
    BY <1>1
  <2>3. b = <<FieldZero(k)>> \o t
    BY DEF Body
  <2>4. <<FieldZero(k)>> \in Seq(Nat) /\ Len(<<FieldZero(k)>>) = 1
    BY <2>1
  <2>. HIDE DEF t, b
  <2>. QED
    BY <2>2, <2>3, <2>4, Joined
<1>3. /\ Header(Len(b)) \in Seq(Nat) /\ Len(Header(Len(b))) = HeaderSize
  BY <1>1, <1>2, HeaderTyped
<1>4. Frame(k, i) = Header(Len(b)) \o b
  BY DEF Frame
<1>. HIDE DEF b
<1>5. /\ Frame(k, i) \in Seq(Nat) /\ Len(Frame(k, i)) = HeaderSize + Len(b)
      /\ \A j \in 1 .. HeaderSize : Frame(k, i)[j] = Header(Len(b))[j]
      /\ \A j \in 1 .. Len(b) : Frame(k, i)[HeaderSize + j] = b[j]
  <2>. DEFINE h == Header(Len(b))
  <2>1. h \in Seq(Nat) /\ Len(h) = HeaderSize /\ Frame(k, i) = h \o b
    BY <1>3, <1>4
  <2>. HIDE DEF h
  <2>2. h \in Seq(Nat) /\ b \in Seq(Nat)
    BY <1>2, <2>1
  <2>3. /\ h \o b \in Seq(Nat) /\ Len(h \o b) = Len(h) + Len(b)
        /\ \A j \in 1 .. Len(h) : (h \o b)[j] = h[j]
        /\ \A j \in 1 .. Len(b) : (h \o b)[Len(h) + j] = b[j]
    BY <2>2, Joined
  <2>. QED
    BY <2>1, <2>3 DEF h
<1>. QED
  BY <1>1, <1>2, <1>5 DEF b

FrameLen(msgs, i) == Len(Frame(msgs[i], i))

LEMMA EndValue ==
  ASSUME NEW msgs \in Seq(Kinds)
  PROVE  /\ \A n \in 0 .. Len(msgs) : EndOf(msgs, n) \in Nat
         /\ EndOf(msgs, 0) = 0
         /\ \A n \in 1 .. Len(msgs) :
              /\ FrameLen(msgs, n) \in Nat /\ FrameLen(msgs, n) > HeaderSize
              /\ EndOf(msgs, n) = EndOf(msgs, n - 1) + FrameLen(msgs, n)
<1>. DEFINE L == Len(msgs)
            step == [p \in (1 .. L) \X Nat |-> p[2] + FrameLen(msgs, p[1])]
            Is(g) == g = [i \in 0 .. L |->
                            IF i = 0 THEN 0 ELSE g[i - 1] + Len(Frame(msgs[i], i))]
<1>1. L \in Nat
  OBVIOUS
<1>2. ASSUME NEW i \in 1 .. L
      PROVE  FrameLen(msgs, i) \in Nat /\ FrameLen(msgs, i) > HeaderSize
  <2>1. msgs[i] \in Kinds /\ i \in Nat
    OBVIOUS
  <2>. QED
    BY <2>1, FrameCells, HeaderAssumption DEF FrameLen
<1>3. step \in [(1 .. L) \X Nat -> Nat]
  BY <1>2
<1>4. PICK g : RunsUpTo(g, L, Nat, 0, step)
  <2>. HIDE DEF step, L
  <2>. QED
    BY <1>1, <1>3, Recursion
<1>5. /\ g \in [0 .. L -> Nat] /\ g[0] = 0
      /\ \A i \in 1 .. L : g[i] = g[i - 1] + FrameLen(msgs, i)
  <2>. HIDE DEF L
  <2>1. /\ g \in [0 .. L -> Nat] /\ g[0] = 0
        /\ \A i \in 1 .. L : g[i] = step[<<i, g[i - 1]>>]
    BY <1>4 DEF RunsUpTo
  <2>2. ASSUME NEW i \in 1 .. L
        PROVE  step[<<i, g[i - 1]>>] = g[i - 1] + FrameLen(msgs, i)
    <3>1. g[i - 1] \in Nat
      BY <1>1, <2>1
    <3>. QED
      BY <3>1
  <2>. QED
    BY <2>1, <2>2
<1>6. Is(g)
  BY <1>1, <1>5 DEF FrameLen
<1>. DEFINE e == CHOOSE h : Is(h)
<1>7. Is(e)
  <2>1. \E h : Is(h)
    BY <1>6
  <2>. HIDE DEF Is
  <2>. QED
    BY <2>1
<1>8. \A n : EndOf(msgs, n) = e[n]
  BY DEF EndOf
<1>. HIDE DEF e
<1>9. e[0] = 0 /\ \A i \in 1 .. L : e[i] = e[i - 1] + FrameLen(msgs, i)
  BY <1>1, <1>7 DEF FrameLen
<1>10. \A i \in 0 .. L : e[i] \in Nat
  <2>. DEFINE S == {k \in 0 .. L : e[k] \in Nat}
  <2>1. 0 \in S
    BY <1>1, <1>9
  <2>2. ASSUME NEW i \in 0 .. L - 1, i \in S
        PROVE  i + 1 \in S
    <3>. HIDE DEF L
    <3>1. i + 1 \in 1 .. L /\ (i + 1) - 1 = i
      BY <1>1
    <3>2. e[i + 1] = e[i] + FrameLen(msgs, i + 1)
      BY <1>9, <3>1
    <3>. QED
      BY <1>2, <2>2, <3>1, <3>2
  <2>. HIDE DEF S, L
  <2>3. \A i \in 0 .. L : i \in S
    BY <1>1, <2>1, <2>2, Induction
  <2>. QED
    BY <2>3 DEF S
<1>. HIDE DEF L
<1>. QED
  BY <1>2, <1>8, <1>9, <1>10 DEF L

LEMMA EndGrows ==
  ASSUME NEW msgs \in Seq(Kinds), NEW m \in 0 .. Len(msgs), NEW n \in 0 .. m
  PROVE  EndOf(msgs, n) <= EndOf(msgs, m)
<1>. DEFINE S == {k \in 0 .. m : k < n \/ EndOf(msgs, n) <= EndOf(msgs, k)}
<1>1. Len(msgs) \in Nat /\ m \in Nat /\ n \in Nat /\ EndOf(msgs, n) \in Nat
  BY EndValue
<1>2. 0 \in S
  BY <1>1
<1>3. ASSUME NEW k \in 0 .. m - 1, k \in S
      PROVE  k + 1 \in S
  <2>1. k + 1 \in 1 .. Len(msgs) /\ (k + 1) - 1 = k /\ k \in 0 .. Len(msgs)
    BY <1>1
  <2>2. /\ EndOf(msgs, k + 1) = EndOf(msgs, k) + FrameLen(msgs, k + 1)
        /\ EndOf(msgs, k) \in Nat /\ FrameLen(msgs, k + 1) \in Nat
    BY <2>1, EndValue
  <2>. QED
    BY <1>1, <1>3, <2>1, <2>2
<1>4. \A k \in 0 .. m : k \in S
  <2>. HIDE DEF S
  <2>. QED
    BY <1>1, <1>2, <1>3, Induction
<1>5. m \in S
  BY <1>1, <1>4
<1>. QED
  BY <1>1, <1>5

(* A message sent leaves the ends of those before it where they are. *)
LEMMA EndStays ==
  ASSUME NEW msgs \in Seq(Kinds), NEW kind \in Kinds, NEW n \in 0 .. Len(msgs)
  PROVE  EndOf(Append(msgs, kind), n) = EndOf(msgs, n)
<1>. DEFINE more == Append(msgs, kind)
            L == Len(msgs)
            S == {k \in 0 .. L : EndOf(more, k) = EndOf(msgs, k)}
<1>1. /\ L \in Nat /\ more \in Seq(Kinds) /\ Len(more) = L + 1
      /\ \A i \in 1 .. L : more[i] = msgs[i]
  OBVIOUS
<1>2. 0 \in S
  <2>. HIDE DEF more
  <2>. QED
    BY <1>1, EndValue
<1>3. ASSUME NEW k \in 0 .. L - 1, k \in S
      PROVE  k + 1 \in S
  <2>. HIDE DEF more
  <2>1. k + 1 \in 1 .. Len(msgs) /\ k + 1 \in 1 .. Len(more) /\ (k + 1) - 1 = k /\ k + 1 \in 0 .. L
    BY <1>1
  <2>2. EndOf(msgs, k + 1) = EndOf(msgs, k) + FrameLen(msgs, k + 1)
    BY <2>1, EndValue
  <2>3. EndOf(more, k + 1) = EndOf(more, k) + FrameLen(more, k + 1)
    BY <1>1, <2>1, EndValue
  <2>4. FrameLen(more, k + 1) = FrameLen(msgs, k + 1)
    BY <1>1, <2>1 DEF FrameLen
  <2>. QED
    BY <1>3, <2>1, <2>2, <2>3, <2>4
<1>4. \A k \in 0 .. L : k \in S
  <2>. HIDE DEF S, L
  <2>. QED
    BY <1>1, <1>2, <1>3, Induction
<1>. QED
  BY <1>4
-----------------------------------------------------------------------------
(* The cells b are those of the stream of the messages msgs behind the     *)
(* first o.                                                                *)
Carries(msgs, o, b) ==
  \A m \in 1 .. Len(msgs) : \A k \in 1 .. FrameLen(msgs, m) :
    LET p == (EndOf(msgs, m - 1) + k) - o
    IN p \in 1 .. Len(b) => b[p] = Frame(msgs[m], m)[k]

(* A part of them is carried from where it begins. *)
LEMMA CarriesPart ==
  ASSUME NEW msgs \in Seq(Kinds), NEW o \in Nat, NEW b \in Seq(Nat), Carries(msgs, o, b),
         NEW m \in 1 .. Len(b) + 1, NEW n \in m - 1 .. Len(b)
  PROVE  Carries(msgs, o + (m - 1), SubSeq(b, m, n))
<1>. DEFINE c == SubSeq(b, m, n)
<1>1. /\ Len(c) = (n - m) + 1
      /\ \A i \in 1 .. (n - m) + 1 : c[i] = b[(m - 1) + i]
  BY Cut
<1>2. Len(b) \in Nat /\ m \in Nat /\ n \in Nat
  OBVIOUS
<1>. HIDE DEF c
<1>3. ASSUME NEW i \in 1 .. Len(msgs), NEW k \in 1 .. FrameLen(msgs, i),
             (EndOf(msgs, i - 1) + k) - (o + (m - 1)) \in 1 .. Len(c)
      PROVE  c[(EndOf(msgs, i - 1) + k) - (o + (m - 1))] = Frame(msgs[i], i)[k]
  <2>1. i - 1 \in 0 .. Len(msgs) /\ k \in Int
    BY EndValue
  <2>2. EndOf(msgs, i - 1) \in Nat
    BY <2>1, EndValue
  <2>. DEFINE p == (EndOf(msgs, i - 1) + k) - (o + (m - 1))
              q == (EndOf(msgs, i - 1) + k) - o
  <2>3. q = (m - 1) + p /\ p \in 1 .. (n - m) + 1 /\ q \in 1 .. Len(b)
    <3>. DEFINE e == EndOf(msgs, i - 1)
    <3>1. e \in Nat /\ (e + k) - (o + (m - 1)) \in 1 .. (n - m) + 1
      BY <1>1, <1>3, <2>2
    <3>. HIDE DEF e
    <3>2. /\ (e + k) - o = (m - 1) + ((e + k) - (o + (m - 1)))
          /\ (e + k) - o \in 1 .. Len(b)
      BY <1>2, <2>1, <3>1
    <3>. QED
      BY <3>1, <3>2 DEF e
  <2>4. b[q] = Frame(msgs[i], i)[k]
    BY <2>3 DEF Carries
  <2>. HIDE DEF p, q
  <2>5. c[p] = b[q]
    BY <1>1, <2>3
  <2>. QED
    BY <2>4, <2>5 DEF p
<1>. QED
  BY <1>3 DEF Carries, c

(* Two pieces that follow each other are carried together. *)
LEMMA CarriesBoth ==
  ASSUME NEW msgs \in Seq(Kinds), NEW o \in Nat, NEW b \in Seq(Nat), NEW c \in Seq(Nat),
         Carries(msgs, o, b), Carries(msgs, o + Len(b), c)
  PROVE  Carries(msgs, o, b \o c)
<1>. DEFINE d == b \o c
<1>1. /\ d \in Seq(Nat) /\ Len(d) = Len(b) + Len(c)
      /\ \A i \in 1 .. Len(b) : d[i] = b[i]
      /\ \A i \in 1 .. Len(c) : d[Len(b) + i] = c[i]
  BY Joined
<1>2. Len(b) \in Nat /\ Len(c) \in Nat
  OBVIOUS
<1>. HIDE DEF d
<1>3. ASSUME NEW i \in 1 .. Len(msgs), NEW k \in 1 .. FrameLen(msgs, i),
             (EndOf(msgs, i - 1) + k) - o \in 1 .. Len(d)
      PROVE  d[(EndOf(msgs, i - 1) + k) - o] = Frame(msgs[i], i)[k]
  <2>1. i - 1 \in 0 .. Len(msgs) /\ k \in Int
    BY EndValue
  <2>2. EndOf(msgs, i - 1) \in Nat
    BY <2>1, EndValue
  <2>. DEFINE p == (EndOf(msgs, i - 1) + k) - o
              q == (EndOf(msgs, i - 1) + k) - (o + Len(b))
  <2>3. p = Len(b) + q /\ (p \in 1 .. Len(b) \/ q \in 1 .. Len(c))
    <3>. DEFINE e == EndOf(msgs, i - 1)
    <3>1. e \in Nat /\ (e + k) - o \in 1 .. Len(b) + Len(c)
      BY <1>1, <1>3, <2>2
    <3>. HIDE DEF e
    <3>2. /\ (e + k) - o = Len(b) + ((e + k) - (o + Len(b)))
          /\ (e + k) - o \in 1 .. Len(b) \/ (e + k) - (o + Len(b)) \in 1 .. Len(c)
      BY <1>2, <2>1, <3>1
    <3>. QED
      BY <3>1, <3>2 DEF e
  <2>4. CASE p \in 1 .. Len(b)
    <3>1. b[p] = Frame(msgs[i], i)[k]
      BY <2>4 DEF Carries
    <3>. HIDE DEF p
    <3>2. d[p] = b[p]
      BY <1>1, <2>4
    <3>. QED
      BY <3>1, <3>2 DEF p
  <2>5. CASE q \in 1 .. Len(c)
    <3>1. c[q] = Frame(msgs[i], i)[k]
      BY <2>5 DEF Carries
    <3>. HIDE DEF p, q
    <3>2. d[p] = c[q]
      BY <1>1, <2>3, <2>5
    <3>. QED
      BY <3>1, <3>2 DEF p
  <2>. QED
    BY <2>3, <2>4, <2>5
<1>. QED
  BY <1>3 DEF Carries, d

(* What is carried is so still when another message is sent. *)
LEMMA CarriesMore ==
  ASSUME NEW msgs \in Seq(Kinds), NEW kind \in Kinds, NEW o \in Nat, NEW b \in Seq(Nat),
         Carries(msgs, o, b), o + Len(b) <= EndOf(msgs, Len(msgs))
  PROVE  Carries(Append(msgs, kind), o, b)
<1>. DEFINE more == Append(msgs, kind)
            L == Len(msgs)
<1>1. /\ L \in Nat /\ more \in Seq(Kinds) /\ Len(more) = L + 1
      /\ \A i \in 1 .. L : more[i] = msgs[i]
  OBVIOUS
<1>2. \A n \in 0 .. L : EndOf(more, n) = EndOf(msgs, n)
  BY EndStays
<1>. HIDE DEF more
<1>3. ASSUME NEW i \in 1 .. Len(more), NEW k \in 1 .. FrameLen(more, i),
             (EndOf(more, i - 1) + k) - o \in 1 .. Len(b)
      PROVE  b[(EndOf(more, i - 1) + k) - o] = Frame(more[i], i)[k]
  <2>1. i - 1 \in 0 .. L /\ EndOf(more, i - 1) = EndOf(msgs, i - 1)
    BY <1>1, <1>2
  <2>2. CASE i \in 1 .. L
    <3>1. more[i] = msgs[i] /\ FrameLen(more, i) = FrameLen(msgs, i)
      BY <1>1, <2>2 DEF FrameLen
    <3>. QED
      BY <1>3, <2>1, <2>2, <3>1 DEF Carries
  <2>3. CASE i = L + 1
    <3>1. EndOf(more, i - 1) = EndOf(msgs, L) /\ EndOf(msgs, L) \in Nat
      <4>1. L \in 0 .. L /\ i - 1 = L
        BY <1>1, <2>3
      <4>. QED
        BY <2>1, <4>1, EndValue
    <3>2. k >= 1 /\ k \in Int /\ Len(b) \in Nat
      BY <1>1, EndValue
    <3>. QED
      BY <1>3, <3>1, <3>2
  <2>. QED
    BY <1>1, <2>2, <2>3
<1>. QED
  BY <1>3 DEF Carries, more
-----------------------------------------------------------------------------
(* One turn of the framing loop.                                           *)

(* The next frame of the stream is at the front. *)
LEMMA FrontCells ==
  ASSUME NEW msgs \in Seq(Kinds), NEW h \in 0 .. Len(msgs) - 1, NEW b \in Seq(Nat),
         Carries(msgs, EndOf(msgs, h), b),
         NEW k \in 1 .. FrameLen(msgs, h + 1), k <= Len(b)
  PROVE  b[k] = Frame(msgs[h + 1], h + 1)[k]
<1>. DEFINE e == EndOf(msgs, h)
<1>1. h + 1 \in 1 .. Len(msgs) /\ (h + 1) - 1 = h /\ h \in 0 .. Len(msgs)
  OBVIOUS
<1>2. e \in Nat /\ k \in Nat
  BY <1>1, EndValue
<1>. HIDE DEF e
<1>3. (e + k) - e = k /\ k \in 1 .. Len(b)
  BY <1>2
<1>4. \A j \in 1 .. FrameLen(msgs, h + 1) :
        LET p == (e + j) - e
        IN p \in 1 .. Len(b) => b[p] = Frame(msgs[h + 1], h + 1)[j]
  BY <1>1 DEF Carries, e
<1>. QED
  BY <1>3, <1>4

LEMMA NextFrame ==
  ASSUME NEW msgs \in Seq(Kinds), NEW h \in 0 .. Len(msgs) - 1, NEW b \in Seq(Nat),
         Carries(msgs, EndOf(msgs, h), b)
  PROVE  /\ FrameLen(msgs, h + 1) > Len(b) => ~Complete(b)
         /\ FrameLen(msgs, h + 1) <= Len(b) =>
              /\ Complete(b) /\ Message(b) = Body(msgs[h + 1], h + 1)
              /\ Rest(b) = SubSeq(b, FrameLen(msgs, h + 1) + 1, Len(b))
<1>. DEFINE kind == msgs[h + 1]
            body == Body(kind, h + 1)
            f == Frame(kind, h + 1)
            n == FrameLen(msgs, h + 1)
<1>1. kind \in Kinds /\ h + 1 \in Nat /\ HeaderSize \in Nat \ {0}
  BY HeaderAssumption
<1>2. /\ body \in Seq(Nat) /\ Len(body) \in Nat \ {0} /\ Len(body) = 1 + BodySize[kind]
      /\ n = HeaderSize + Len(body)
      /\ \A j \in 1 .. HeaderSize : f[j] = Header(Len(body))[j]
      /\ \A j \in 1 .. Len(body) : f[HeaderSize + j] = body[j]
  <2>. HIDE DEF kind
  <2>. QED
    BY <1>1, FrameCells DEF FrameLen, kind
<1>3. \A k \in 1 .. n : k <= Len(b) => b[k] = f[k]
  BY FrontCells
<1>4. Len(b) \in Nat
  OBVIOUS
<1>5. n < LengthRange /\ LengthRange \in Nat /\ n \in Nat
  <2>1. BodySize[kind] \in Nat /\ HeaderSize + 1 + BodySize[kind] < LengthRange
    <3>. HIDE DEF kind
    <3>. QED
      BY <1>1, BodyAssumption, LengthAssumption
  <2>2. LengthRange \in Nat
    BY <1>1, PowerValue DEF LengthRange
  <2>. HIDE DEF kind, body, n
  <2>. QED
    BY <1>1, <1>2, <2>1, <2>2
<1>. HIDE DEF kind, body, f, n
<1>6. ASSUME Len(b) >= HeaderSize
      PROVE  MsgLen(b) = Len(body)
  <2>. DEFINE d == SubSeq(b, 1, HeaderSize)
              g == Header(Len(body))
  <2>1. /\ d \in Seq(Nat) /\ Len(d) = HeaderSize
        /\ \A i \in 1 .. HeaderSize : d[i] = b[i]
    BY <1>1, <1>4, <1>6, Cut
  <2>2. g \in Seq(Nat) /\ Len(g) = HeaderSize
    BY <1>2, HeaderTyped
  <2>. HIDE DEF d, g
  <2>3. \A i \in 1 .. HeaderSize : d[i] = g[i]
    <3>1. \A i \in 1 .. HeaderSize : i \in 1 .. n /\ i <= Len(b)
      BY <1>1, <1>2, <1>4, <1>6
    <3>. QED
      BY <1>2, <1>3, <2>1, <3>1 DEF g
  <2>4. d = g
    BY <2>1, <2>2, <2>3, SameSequence
  <2>5. Value(g) = Len(body)
    BY <1>1, <1>2, <1>5, LengthReadBack DEF g
  <2>. QED
    BY <2>4, <2>5 DEF MsgLen, d
<1>7. n % LengthRange = n
  BY <1>5
<1>8. ASSUME n > Len(b)
      PROVE  ~Complete(b)
  BY <1>1, <1>2, <1>4, <1>5, <1>6, <1>7, <1>8 DEF Complete
<1>9. ASSUME n <= Len(b)
      PROVE  /\ Complete(b) /\ Message(b) = body
             /\ Rest(b) = SubSeq(b, n + 1, Len(b))
  <2>1. Len(b) >= HeaderSize /\ MsgLen(b) = Len(body) /\ HeaderSize + MsgLen(b) = n
    BY <1>1, <1>2, <1>4, <1>6, <1>9
  <2>2. Complete(b)
    BY <1>7, <1>9, <2>1 DEF Complete
  <2>3. Message(b) = body
    <3>. DEFINE c == SubSeq(b, HeaderSize + 1, n)
    <3>1. /\ (n - (HeaderSize + 1)) + 1 = Len(body) /\ (HeaderSize + 1) - 1 = HeaderSize
          /\ HeaderSize + 1 \in 1 .. Len(b) + 1 /\ n \in (HeaderSize + 1) - 1 .. Len(b)
      <4>. HIDE DEF c
      <4>. QED
        BY <1>1, <1>2, <1>4, <1>5, <1>9
    <3>2. /\ c \in Seq(Nat) /\ Len(c) = (n - (HeaderSize + 1)) + 1
          /\ \A i \in 1 .. (n - (HeaderSize + 1)) + 1 : c[i] = b[((HeaderSize + 1) - 1) + i]
      BY <3>1, Cut
    <3>. HIDE DEF c
    <3>3. ASSUME NEW i \in 1 .. Len(body)
          PROVE  c[i] = body[i]
      <4>. DEFINE l == Len(body)
      <4>1. l \in Nat /\ HeaderSize \in Nat /\ HeaderSize + l <= Len(b) /\ n = HeaderSize + l
        BY <1>1, <1>2, <1>9
      <4>2. HeaderSize + i \in 1 .. n /\ HeaderSize + i <= Len(b)
        <5>. HIDE DEF l
        <5>1. i \in 1 .. l
          BY DEF l
        <5>. QED
          BY <1>4, <4>1, <5>1
      <4>. QED
        BY <1>2, <1>3, <3>1, <3>2, <4>2
    <3>4. c = body
      BY <1>2, <3>1, <3>2, <3>3, SameSequence
    <3>. QED
      BY <2>1, <3>4 DEF Message, c
  <2>. QED
    BY <2>1, <2>2, <2>3 DEF Rest
<1>. QED
  BY <1>8, <1>9 DEF kind, body, n

LEMMA NothingComplete ==
  ASSUME NEW b \in Seq(Nat), Len(b) < HeaderSize
  PROVE  ~Complete(b)
BY HeaderAssumption DEF Complete

(* A turn of the loop takes at least the header away, whatever the length  *)
(* says.                                                                   *)
LEMMA RestShorter ==
  ASSUME NEW b \in Seq(Nat), Complete(b)
  PROVE  Rest(b) \in Seq(Nat) /\ Len(Rest(b)) < Len(b)
<1>1. HeaderSize \in Nat \ {0} /\ Len(b) \in Nat /\ Len(b) >= HeaderSize
  BY HeaderAssumption DEF Complete
<1>2. MsgLen(b) \in Nat
  <2>. DEFINE d == SubSeq(b, 1, HeaderSize)
  <2>1. d \in Seq(Nat) /\ Len(d) = HeaderSize
    BY <1>1, Cut
  <2>. HIDE DEF d
  <2>2. PICK v \in [0 .. HeaderSize -> Nat] : Value(d) = v[HeaderSize]
    BY <2>1, ValueSums
  <2>3. Value(d) \in Nat
    BY <1>1, <2>2
  <2>. QED
    BY <2>3 DEF MsgLen, d
<1>. DEFINE m == HeaderSize + MsgLen(b) + 1
<1>3. m \in Nat /\ m > HeaderSize
  BY <1>1, <1>2
<1>. HIDE DEF m
<1>4. CASE m <= Len(b)
  <2>1. m \in 1 .. Len(b) + 1 /\ Len(b) \in m - 1 .. Len(b)
    BY <1>1, <1>3, <1>4
  <2>2. SubSeq(b, m, Len(b)) \in Seq(Nat) /\ Len(SubSeq(b, m, Len(b))) = (Len(b) - m) + 1
    BY <2>1, Cut
  <2>. QED
    BY <1>1, <1>3, <1>4, <2>2 DEF Rest, m
<1>5. CASE m > Len(b)
  <2>1. SubSeq(b, m, Len(b)) = <<>>
    BY <1>1, <1>3, <1>5
  <2>2. <<>> \in Seq(Nat) /\ Len(<<>>) = 0
    OBVIOUS
  <2>3. Rest(b) = <<>>
    BY <2>1 DEF Rest, m
  <2>. QED
    BY <1>1, <2>2, <2>3
<1>. QED
  BY <1>1, <1>3, <1>4, <1>5

LEMMA LoopValue ==
  \A b \in Seq(Nat) :
    Loop[b] = IF ~Complete(b) THEN [msgs |-> <<>>, rest |-> b]
              ELSE [msgs |-> <<Message(b)>> \o Loop[Rest(b)].msgs, rest |-> Loop[Rest(b)].rest]
<1>. DEFINE D == Seq(Nat)
            M == {Message(b) : b \in D}
            V == [msgs : Seq(M), rest : D]
            stop == {b \in D : ~Complete(b)}
            len == [b \in D |-> Len(b)]
            next == [b \in D |-> IF Complete(b) THEN Rest(b) ELSE b]
            base == [b \in D |-> [msgs |-> <<>>, rest |-> b]]
            step == [p \in D \X V |-> [msgs |-> <<Message(p[1])>> \o p[2].msgs, rest |-> p[2].rest]]
            Is(g) == g = [b \in D |-> IF ~Complete(b) THEN [msgs |-> <<>>, rest |-> b]
                                      ELSE [msgs |-> <<Message(b)>> \o g[Rest(b)].msgs,
                                            rest |-> g[Rest(b)].rest]]
<1>1. stop \subseteq D /\ len \in [D -> Nat]
  OBVIOUS
<1>2. next \in [D -> D] /\ \A d \in D \ stop : len[next[d]] < len[d]
  BY RestShorter
<1>3. base \in [D -> V]
  <2>1. <<>> \in Seq(M)
    <3>. HIDE DEF M
    <3>. QED
      OBVIOUS
  <2>. HIDE DEF M
  <2>. QED
    BY <2>1
<1>4. step \in [D \X V -> V]
  <2>1. ASSUME NEW b \in D, NEW r \in V
        PROVE  [msgs |-> <<Message(b)>> \o r.msgs, rest |-> r.rest] \in V
    <3>1. <<Message(b)>> \in Seq(M) /\ r.msgs \in Seq(M) /\ r.rest \in D
      <4>1. Message(b) \in M
        OBVIOUS
      <4>. HIDE DEF M, D
      <4>. QED
        BY <4>1
    <3>2. <<Message(b)>> \o r.msgs \in Seq(M)
      <4>. HIDE DEF M
      <4>. QED
        BY <3>1, Joined
    <3>. HIDE DEF M, D
    <3>. QED
      BY <3>1, <3>2
  <2>. HIDE DEF V, D
  <2>. QED
    BY <2>1
<1>5. PICK g : RunsAlong(g, D, V, stop, next, base, step)
  <2>. HIDE DEF D, V, stop, len, next, base, step
  <2>. QED
    BY <1>1, <1>2, <1>3, <1>4, TailRecursion
<1>6. /\ g \in [D -> V]
      /\ \A d \in D : g[d] = IF d \in stop THEN base[d] ELSE step[<<d, g[next[d]]>>]
  <2>. HIDE DEF D, V, stop, next, base, step
  <2>. QED
    BY <1>5 DEF RunsAlong
<1>7. ASSUME NEW b \in D
      PROVE  g[b] = IF ~Complete(b) THEN [msgs |-> <<>>, rest |-> b]
                    ELSE [msgs |-> <<Message(b)>> \o g[Rest(b)].msgs, rest |-> g[Rest(b)].rest]
  <2>1. CASE ~Complete(b)
    <3>1. g[b] = base[b]
      <4>1. b \in stop
        BY <2>1
      <4>. HIDE DEF D, V, stop, next, base, step
      <4>. QED
        BY <1>6, <4>1
    <3>. QED
      BY <2>1, <3>1
  <2>2. CASE Complete(b)
    <3>1. g[b] = step[<<b, g[Rest(b)]>>]
      <4>1. b \notin stop /\ next[b] = Rest(b)
        BY <2>2
      <4>. HIDE DEF D, V, stop, next, base, step
      <4>. QED
        BY <1>6, <4>1
    <3>2. g[Rest(b)] \in V
      <4>1. Rest(b) \in D
        BY <2>2, RestShorter
      <4>. HIDE DEF D, V
      <4>. QED
        BY <1>6, <4>1
    <3>3. step[<<b, g[Rest(b)]>>] =
            [msgs |-> <<Message(b)>> \o g[Rest(b)].msgs, rest |-> g[Rest(b)].rest]
      <4>. HIDE DEF D, V
      <4>. QED
        BY <3>2
    <3>. HIDE DEF step
    <3>. QED
      BY <2>2, <3>1, <3>3
  <2>. QED
    BY <2>1, <2>2
<1>8. Is(g)
  <2>. HIDE DEF V
  <2>. QED
    BY <1>6, <1>7
<1>9. Is(Loop)
  <2>1. \E h : Is(h)
    BY <1>8
  <2>2. Is(CHOOSE h : Is(h))
    <3>. HIDE DEF Is
    <3>. QED
      BY <2>1
  <2>. QED
    BY <2>2 DEF Loop
<1>. QED
  BY <1>9
-----------------------------------------------------------------------------
(* The whole loop.  A buffer that begins behind h messages, and the g up   *)
(* to which the loop takes them out of it.                                 *)
Ready(msgs, h, b) ==
  /\ h \in 0 .. Len(msgs) /\ b \in Seq(Nat)
  /\ Carries(msgs, EndOf(msgs, h), b)
  /\ EndOf(msgs, h) + Len(b) <= EndOf(msgs, Len(msgs))

Takes(msgs, h, b, g) ==
  /\ g \in h .. Len(msgs)
  /\ Loop[b].msgs \in Seq(Seq(Nat)) /\ Len(Loop[b].msgs) = g - h
  /\ \A i \in 1 .. g - h : Loop[b].msgs[i] = Body(msgs[h + i], h + i)
  /\ Ready(msgs, g, Loop[b].rest)
  /\ EndOf(msgs, g) + Len(Loop[b].rest) = EndOf(msgs, h) + Len(b)
  /\ g < Len(msgs) => EndOf(msgs, h) + Len(b) < EndOf(msgs, g + 1)

LEMMA LoopStops ==
  ASSUME NEW msgs \in Seq(Kinds), NEW h, NEW b, Ready(msgs, h, b),
         h < Len(msgs) => Len(b) < FrameLen(msgs, h + 1)
  PROVE  Takes(msgs, h, b, h)
<1>1. h \in 0 .. Len(msgs) /\ b \in Seq(Nat) /\ Len(b) \in Nat /\ Len(msgs) \in Nat
  BY DEF Ready
<1>2. EndOf(msgs, h) \in Nat
  BY <1>1, EndValue
<1>3. ~Complete(b) /\ (h < Len(msgs) => EndOf(msgs, h) + Len(b) < EndOf(msgs, h + 1))
  <2>1. CASE h < Len(msgs)
    <3>1. h \in 0 .. Len(msgs) - 1 /\ h + 1 \in 1 .. Len(msgs) /\ (h + 1) - 1 = h
      BY <1>1, <2>1
    <3>2. /\ EndOf(msgs, h + 1) = EndOf(msgs, h) + FrameLen(msgs, h + 1)
          /\ FrameLen(msgs, h + 1) \in Nat
      BY <3>1, EndValue
    <3>3. FrameLen(msgs, h + 1) > Len(b)
      BY <1>1, <2>1, <3>2
    <3>4. ~Complete(b)
      BY <1>1, <3>1, <3>3, NextFrame DEF Ready
    <3>5. EndOf(msgs, h) + Len(b) < EndOf(msgs, h + 1)
      BY <1>1, <1>2, <3>2, <3>3
    <3>. QED
      BY <3>4, <3>5
  <2>2. CASE h = Len(msgs)
    <3>1. Len(b) = 0
      BY <1>1, <1>2, <2>2 DEF Ready
    <3>2. Len(b) < HeaderSize
      BY <3>1, HeaderAssumption
    <3>3. ~Complete(b)
      BY <1>1, <3>2, NothingComplete
    <3>. QED
      BY <1>1, <2>2, <3>3
  <2>. QED
    BY <1>1, <2>1, <2>2
<1>4. Loop[b].msgs = <<>> /\ Loop[b].rest = b
  <2>1. Loop[b] = [msgs |-> <<>>, rest |-> b]
    BY <1>1, <1>3, LoopValue
  <2>. QED
    BY <2>1
<1>5. <<>> \in Seq(Seq(Nat)) /\ Len(<<>>) = 0 /\ h - h = 0 /\ h \in h .. Len(msgs)
  BY <1>1
<1>. QED
  BY <1>1, <1>3, <1>4, <1>5 DEF Takes

LEMMA LoopTurns ==
  ASSUME NEW msgs \in Seq(Kinds), NEW h, NEW b, Ready(msgs, h, b),
         h < Len(msgs), Len(b) >= FrameLen(msgs, h + 1)
  PROVE  /\ Ready(msgs, h + 1, Rest(b))
         /\ \A g : Takes(msgs, h + 1, Rest(b), g) => Takes(msgs, h, b, g)
<1>. DEFINE n == FrameLen(msgs, h + 1)
            r == Rest(b)
<1>1. /\ h \in 0 .. Len(msgs) - 1 /\ b \in Seq(Nat) /\ Len(b) \in Nat /\ Len(msgs) \in Nat
      /\ h \in 0 .. Len(msgs) /\ h + 1 \in 1 .. Len(msgs) /\ (h + 1) - 1 = h
  BY DEF Ready
<1>2. /\ EndOf(msgs, h) \in Nat /\ n \in Nat /\ n > HeaderSize
      /\ EndOf(msgs, h + 1) = EndOf(msgs, h) + n
  BY <1>1, EndValue
<1>3. Complete(b) /\ Message(b) = Body(msgs[h + 1], h + 1) /\ r = SubSeq(b, n + 1, Len(b))
  BY <1>1, NextFrame DEF Ready
<1>. HIDE DEF n, r
<1>4. n <= Len(b) /\ n \in Nat
  BY <1>2 DEF n
<1>5. r \in Seq(Nat) /\ Len(r) = Len(b) - n
  <2>1. n \in 0 .. Len(b)
    BY <1>1, <1>4
  <2>. QED
    BY <1>1, <1>3, <2>1, CutBack
<1>6. Carries(msgs, EndOf(msgs, h + 1), r)
  <2>1. /\ n + 1 \in 1 .. Len(b) + 1 /\ Len(b) \in (n + 1) - 1 .. Len(b)
        /\ EndOf(msgs, h) + ((n + 1) - 1) = EndOf(msgs, h + 1)
    BY <1>1, <1>2, <1>4
  <2>2. Carries(msgs, EndOf(msgs, h), b)
    BY DEF Ready
  <2>3. Carries(msgs, EndOf(msgs, h) + ((n + 1) - 1), SubSeq(b, n + 1, Len(b)))
    BY <1>1, <1>2, <2>1, <2>2, CarriesPart
  <2>. QED
    BY <1>3, <2>1, <2>3
<1>7. EndOf(msgs, h + 1) + Len(r) = EndOf(msgs, h) + Len(b)
  BY <1>1, <1>2, <1>4, <1>5
<1>8. Ready(msgs, h + 1, r)
  BY <1>1, <1>5, <1>6, <1>7 DEF Ready
<1>9. ASSUME NEW g, Takes(msgs, h + 1, r, g)
      PROVE  Takes(msgs, h, b, g)
  <2>. DEFINE t == Loop[r].msgs
              u == Loop[b].msgs
              m == Message(b)
  <2>1. u = <<m>> \o t /\ Loop[b].rest = Loop[r].rest
    <3>1. Loop[b] = [msgs |-> <<Message(b)>> \o Loop[r].msgs, rest |-> Loop[r].rest]
      BY <1>1, <1>3, LoopValue DEF r
    <3>. QED
      BY <3>1
  <2>2. /\ g \in h + 1 .. Len(msgs) /\ t \in Seq(Seq(Nat)) /\ Len(t) = g - (h + 1)
        /\ \A i \in 1 .. g - (h + 1) : t[i] = Body(msgs[(h + 1) + i], (h + 1) + i)
    BY <1>9 DEF Takes
  <2>3. m \in Seq(Nat)
    <3>1. msgs[h + 1] \in Kinds /\ h + 1 \in Nat
      BY <1>1
    <3>. QED
      BY <1>3, <3>1, FrameCells
  <2>. HIDE DEF t, u, m
  <2>4. <<m>> \in Seq(Seq(Nat)) /\ Len(<<m>>) = 1 /\ <<m>>[1] = m
    BY <2>3
  <2>5. /\ u \in Seq(Seq(Nat)) /\ Len(u) = Len(<<m>>) + Len(t)
        /\ \A i \in 1 .. Len(<<m>>) : u[i] = <<m>>[i]
        /\ \A i \in 1 .. Len(t) : u[Len(<<m>>) + i] = t[i]
    BY <2>1, <2>2, <2>4, Joined
  <2>6. g \in Nat /\ g \in h .. Len(msgs) /\ Len(u) = g - h
    BY <1>1, <2>2, <2>4, <2>5
  <2>7. ASSUME NEW i \in 1 .. g - h
        PROVE  u[i] = Body(msgs[h + i], h + i)
    <3>1. CASE i = 1
      BY <1>3, <2>4, <2>5, <3>1 DEF m
    <3>2. CASE i # 1
      <4>1. i - 1 \in 1 .. g - (h + 1) /\ 1 + (i - 1) = i /\ (h + 1) + (i - 1) = h + i
        BY <1>1, <2>6, <3>2
      <4>2. u[i] = t[i - 1]
        BY <2>2, <2>4, <2>5, <4>1
      <4>3. t[i - 1] = Body(msgs[(h + 1) + (i - 1)], (h + 1) + (i - 1))
        BY <2>2, <4>1
      <4>. QED
        BY <4>1, <4>2, <4>3
    <3>. QED
      BY <3>1, <3>2
  <2>8. /\ Ready(msgs, g, Loop[b].rest)
        /\ EndOf(msgs, g) + Len(Loop[b].rest) = EndOf(msgs, h) + Len(b)
        /\ g < Len(msgs) => EndOf(msgs, h) + Len(b) < EndOf(msgs, g + 1)
    BY <1>7, <1>9, <2>1 DEF Takes
  <2>. QED
    BY <2>5, <2>6, <2>7, <2>8 DEF Takes, u
<1>. QED
  BY <1>8, <1>9 DEF r

LEMMA LoopTakes ==
  ASSUME NEW msgs \in Seq(Kinds), NEW h, NEW b, Ready(msgs, h, b)
  PROVE  \E g : Takes(msgs, h, b, g)
<1>. DEFINE L == Len(msgs)
            S == {n \in 0 .. L : \A k \in 0 .. L : \A c \in Seq(Nat) :
                                   L - k <= n /\ Ready(msgs, k, c) => \E g : Takes(msgs, k, c, g)}
<1>1. L \in Nat
  OBVIOUS
<1>2. ASSUME NEW n \in 0 .. L, NEW k \in 0 .. L, NEW c \in Seq(Nat), L - k <= n,
             Ready(msgs, k, c), n = 0 \/ n - 1 \in S
      PROVE  \E g : Takes(msgs, k, c, g)
  <2>1. CASE k < Len(msgs) => Len(c) < FrameLen(msgs, k + 1)
    BY <1>2, <2>1, LoopStops
  <2>2. CASE k < Len(msgs) /\ ~(Len(c) < FrameLen(msgs, k + 1))
    <3>1. /\ k + 1 \in 1 .. Len(msgs) /\ FrameLen(msgs, k + 1) \in Nat /\ Len(c) \in Nat
      <4>1. k + 1 \in 1 .. Len(msgs) /\ Len(c) \in Nat
        BY <2>2
      <4>. QED
        BY <4>1, EndValue
    <3>2. Len(c) >= FrameLen(msgs, k + 1)
      BY <2>2, <3>1
    <3>3. /\ Ready(msgs, k + 1, Rest(c))
          /\ \A g : Takes(msgs, k + 1, Rest(c), g) => Takes(msgs, k, c, g)
      BY <1>2, <2>2, <3>2, LoopTurns
    <3>4. n - 1 \in S /\ L - (k + 1) <= n - 1 /\ k + 1 \in 0 .. L /\ Rest(c) \in Seq(Nat)
      <4>1. Rest(c) \in Seq(Nat)
        BY <3>3 DEF Ready
      <4>2. n # 0 /\ L - (k + 1) <= n - 1 /\ k + 1 \in 0 .. L
        BY <1>1, <1>2, <2>2
      <4>. QED
        BY <1>2, <4>1, <4>2
    <3>5. \E g : Takes(msgs, k + 1, Rest(c), g)
      BY <3>3, <3>4
    <3>. QED
      BY <3>3, <3>5
  <2>. QED
    BY <2>1, <2>2
<1>3. 0 \in S
  BY <1>1, <1>2
<1>4. ASSUME NEW n \in 0 .. L - 1, n \in S
      PROVE  n + 1 \in S
  <2>1. n + 1 \in 0 .. L /\ (n + 1) - 1 = n
    BY <1>1
  <2>2. ASSUME NEW k \in 0 .. L, NEW c \in Seq(Nat), L - k <= n + 1, Ready(msgs, k, c)
        PROVE  \E g : Takes(msgs, k, c, g)
    <3>. HIDE DEF S, L
    <3>. QED
      BY <1>2, <1>4, <2>1, <2>2
  <2>. QED
    BY <2>1, <2>2
<1>5. L \in S
  <2>. HIDE DEF S, L
  <2>1. \A n \in 0 .. L : n \in S
    BY <1>1, <1>3, <1>4, Induction
  <2>. QED
    BY <1>1, <2>1
<1>6. h \in 0 .. L /\ b \in Seq(Nat) /\ L - h <= L
  BY <1>1 DEF Ready
<1>. QED
  BY <1>5, <1>6
-----------------------------------------------------------------------------
(* A connection: the messages sent on it, those taken out of its stream,   *)
(* what waits for the rest of a message, the cells a read has brought and  *)
(* those still on the way, and the count of the cells received.            *)
Notes == [body : Seq(Nat), by : {"heartbeat", "callback"}]

Framed(msgs, done, b, c, w, r) ==
  /\ Ready(msgs, Len(done), b)
  /\ \A i \in 1 .. Len(done) : done[i].body = Body(msgs[i], i)
  /\ Len(done) < Len(msgs) => r < EndOf(msgs, Len(done) + 1)
  /\ r = EndOf(msgs, Len(done)) + Len(b)
  /\ Carries(msgs, r, c) /\ Carries(msgs, r + Len(c), w)
  /\ (r + Len(c)) + Len(w) = EndOf(msgs, Len(msgs))

LEMMA FramedFirst == Framed(<<>>, <<>>, <<>>, <<>>, <<>>, 0)
<1>1. <<>> \in Seq(Kinds) /\ <<>> \in Seq(Nat) /\ Len(<<>>) = 0
  OBVIOUS
<1>2. EndOf(<<>>, 0) = 0
  BY <1>1, EndValue
<1>3. \A o : Carries(<<>>, o, <<>>)
  BY DEF Carries
<1>. QED
  BY <1>1, <1>2, <1>3 DEF Framed, Ready

(* A read takes cells off the wire. *)
LEMMA FramedRead ==
  ASSUME NEW msgs \in Seq(Kinds), NEW done \in Seq(Notes), NEW b \in Seq(Nat), NEW w \in Seq(Nat),
         NEW r \in Nat, Framed(msgs, done, b, <<>>, w, r), NEW n \in 1 .. Len(w)
  PROVE  Framed(msgs, done, b, SubSeq(w, 1, n), SubSeq(w, n + 1, Len(w)), r)
<1>. DEFINE c == SubSeq(w, 1, n)
            v == SubSeq(w, n + 1, Len(w))
<1>1. Len(w) \in Nat /\ n \in Nat /\ Len(<<>>) = 0
  OBVIOUS
<1>2. c \in Seq(Nat) /\ Len(c) = n /\ v \in Seq(Nat) /\ Len(v) = Len(w) - n
  <2>1. n \in 0 .. Len(w)
    BY <1>1
  <2>. QED
    BY <2>1, CutFront, CutBack
<1>3. Carries(msgs, r, w)
  <2>1. r + Len(<<>>) = r
    BY <1>1
  <2>. QED
    BY <2>1 DEF Framed
<1>4. Carries(msgs, r, c)
  <2>1. 1 \in 1 .. Len(w) + 1 /\ n \in 1 - 1 .. Len(w) /\ r + (1 - 1) = r
    BY <1>1
  <2>2. Carries(msgs, r + (1 - 1), SubSeq(w, 1, n))
    BY <1>3, <2>1, CarriesPart
  <2>. QED
    BY <2>1, <2>2
<1>5. Carries(msgs, r + Len(c), v)
  <2>1. n + 1 \in 1 .. Len(w) + 1 /\ Len(w) \in (n + 1) - 1 .. Len(w) /\ (n + 1) - 1 = n
    BY <1>1
  <2>2. Carries(msgs, r + ((n + 1) - 1), SubSeq(w, n + 1, Len(w)))
    BY <1>3, <2>1, CarriesPart
  <2>. QED
    BY <1>2, <2>1, <2>2
<1>6. (r + Len(c)) + Len(v) = EndOf(msgs, Len(msgs))
  <2>1. (r + 0) + Len(w) = EndOf(msgs, Len(msgs))
    BY <1>1 DEF Framed
  <2>2. (r + n) + (Len(w) - n) = (r + 0) + Len(w)
    BY <1>1
  <2>. QED
    BY <1>2, <2>1, <2>2
<1>. HIDE DEF c, v
<1>7. Framed(msgs, done, b, c, v, r)
  BY <1>4, <1>5, <1>6 DEF Framed
<1>. QED
  BY <1>7 DEF c, v

(* The handler of the read runs the loop over what has come together. *)
LEMMA FramedHandle ==
  ASSUME NEW msgs \in Seq(Kinds), NEW done \in Seq(Notes), NEW b \in Seq(Nat),
         NEW c \in Seq(Nat), NEW w \in Seq(Nat), NEW r \in Nat, Framed(msgs, done, b, c, w, r)
  PROVE  LET loop == Loop[b \o c]
             more == done \o [i \in DOMAIN loop.msgs |-> Handled(loop.msgs[i])]
         IN /\ more \in Seq(Notes) /\ loop.rest \in Seq(Nat)
            /\ Framed(msgs, more, loop.rest, <<>>, w, r + Len(c))
<1>. DEFINE bc == b \o c
            loop == Loop[bc]
            h == Len(done)
            took == [i \in DOMAIN loop.msgs |-> Handled(loop.msgs[i])]
            more == done \o took
<1>1. Len(b) \in Nat /\ Len(c) \in Nat /\ Len(w) \in Nat /\ h \in 0 .. Len(msgs) /\ Len(msgs) \in Nat
  BY DEF Framed, Ready
<1>2. EndOf(msgs, h) \in Nat /\ EndOf(msgs, Len(msgs)) \in Nat
  BY <1>1, EndValue
<1>3. bc \in Seq(Nat) /\ Len(bc) = Len(b) + Len(c)
  BY Joined
<1>4. EndOf(msgs, h) + Len(bc) = r + Len(c)
  <2>. HIDE DEF bc
  <2>. QED
    BY <1>1, <1>2, <1>3 DEF Framed
<1>5. Ready(msgs, h, bc)
  <2>1. Carries(msgs, EndOf(msgs, h), b) /\ Carries(msgs, EndOf(msgs, h) + Len(b), c)
    BY DEF Framed, Ready
  <2>2. Carries(msgs, EndOf(msgs, h), bc)
    BY <1>2, <2>1, CarriesBoth
  <2>3. EndOf(msgs, h) + Len(bc) <= EndOf(msgs, Len(msgs))
    <3>1. (r + Len(c)) + Len(w) = EndOf(msgs, Len(msgs))
      BY DEF Framed
    <3>. QED
      BY <1>1, <1>2, <1>4, <3>1
  <2>. HIDE DEF bc
  <2>. QED
    BY <1>1, <1>3, <2>2, <2>3 DEF Ready
<1>6. PICK g : Takes(msgs, h, bc, g)
  <2>. HIDE DEF bc, h
  <2>. QED
    BY <1>5, LoopTakes
<1>. HIDE DEF bc
<1>7. /\ g \in h .. Len(msgs) /\ g - h \in Nat
      /\ loop.msgs \in Seq(Seq(Nat)) /\ Len(loop.msgs) = g - h
      /\ \A i \in 1 .. g - h : loop.msgs[i] = Body(msgs[h + i], h + i)
      /\ Ready(msgs, g, loop.rest)
      /\ EndOf(msgs, g) + Len(loop.rest) = r + Len(c)
      /\ g < Len(msgs) => r + Len(c) < EndOf(msgs, g + 1)
  BY <1>1, <1>4, <1>6 DEF Takes
<1>. DEFINE ms == loop.msgs
<1>. HIDE DEF loop
<1>8. /\ took \in Seq(Notes) /\ Len(took) = g - h
      /\ \A i \in 1 .. g - h : took[i].body = Body(msgs[h + i], h + i)
  <2>1. DOMAIN ms = 1 .. g - h /\ \A i \in 1 .. g - h : ms[i] \in Seq(Nat)
    BY <1>7
  <2>2. took = [i \in 1 .. g - h |-> Handled(ms[i])]
    BY <2>1
  <2>3. \A m \in Seq(Nat) : Handled(m) \in Notes /\ Handled(m).body = m
    BY DEF Handled, Notes
  <2>. HIDE DEF took, ms
  <2>4. \A i \in 1 .. g - h : took[i] \in Notes /\ took[i].body = ms[i]
    BY <2>1, <2>2, <2>3
  <2>5. took \in Seq(Notes) /\ Len(took) = g - h
    <3>. DEFINE d == g - h
    <3>1. d \in Nat /\ took = [i \in 1 .. d |-> Handled(ms[i])] /\ \A i \in 1 .. d : took[i] \in Notes
      BY <1>7, <2>2, <2>4
    <3>. HIDE DEF d
    <3>2. took \in [1 .. d -> Notes]
      BY <3>1
    <3>3. took \in Seq(Notes) /\ Len(took) = d
      BY <3>1, <3>2
    <3>. QED
      BY <3>3 DEF d
  <2>. QED
    BY <1>7, <2>4, <2>5 DEF ms
<1>. HIDE DEF took
<1>9. /\ more \in Seq(Notes) /\ Len(more) = h + Len(took)
      /\ \A i \in 1 .. h : more[i] = done[i]
      /\ \A i \in 1 .. Len(took) : more[h + i] = took[i]
  <2>1. took \in Seq(Notes)
    BY <1>8
  <2>. QED
    BY <2>1, Joined
<1>10. Len(more) = g /\ \A i \in 1 .. g : more[i].body = Body(msgs[i], i)
  <2>. HIDE DEF more
  <2>1. Len(more) = g
    BY <1>1, <1>7, <1>8, <1>9
  <2>2. ASSUME NEW i \in 1 .. g
        PROVE  more[i].body = Body(msgs[i], i)
    <3>1. CASE i \in 1 .. h
      BY <1>9, <3>1 DEF Framed
    <3>2. CASE i \notin 1 .. h
      <4>1. i - h \in 1 .. g - h /\ h + (i - h) = i
        BY <1>1, <1>7, <3>2
      <4>. QED
        BY <1>8, <1>9, <4>1
    <3>. QED
      BY <3>1, <3>2
  <2>. QED
    BY <2>1, <2>2
<1>. HIDE DEF more
<1>11. Framed(msgs, more, loop.rest, <<>>, w, r + Len(c))
  <2>1. Len(<<>>) = 0 /\ (r + Len(c)) + 0 = r + Len(c)
    BY <1>1
  <2>2. Carries(msgs, r + Len(c), <<>>)
    BY <2>1 DEF Carries
  <2>3. Carries(msgs, r + Len(c), w) /\ (r + Len(c)) + Len(w) = EndOf(msgs, Len(msgs))
    BY DEF Framed
  <2>. QED
    BY <1>7, <1>10, <2>1, <2>2, <2>3 DEF Framed
<1>. QED
  BY <1>7, <1>9, <1>11 DEF Ready, more, took, loop, bc
(* Another message is put behind what is on the way. *)
LEMMA FramedSend ==
  ASSUME NEW msgs \in Seq(Kinds), NEW done \in Seq(Notes), NEW b \in Seq(Nat),
         NEW c \in Seq(Nat), NEW w \in Seq(Nat), NEW r \in Nat, NEW kind \in Kinds,
         Framed(msgs, done, b, c, w, r)
  PROVE  LET v == w \o Frame(kind, Len(msgs) + 1)
         IN v \in Seq(Nat) /\ Framed(Append(msgs, kind), done, b, c, v, r)
<1>. DEFINE L == Len(msgs)
            h == Len(done)
            more == Append(msgs, kind)
            f == Frame(kind, L + 1)
            v == w \o f
<1>1. /\ L \in Nat /\ more \in Seq(Kinds) /\ Len(more) = L + 1 /\ more[L + 1] = kind
      /\ \A i \in 1 .. L : more[i] = msgs[i]
  OBVIOUS
<1>2. /\ Len(b) \in Nat /\ Len(c) \in Nat /\ Len(w) \in Nat /\ h \in 0 .. L
  BY DEF Framed, Ready
<1>3. \A n \in 0 .. L : EndOf(more, n) = EndOf(msgs, n) /\ EndOf(msgs, n) \in Nat
  BY EndStays, EndValue
<1>4. f \in Seq(Nat) /\ Len(f) \in Nat /\ Len(f) = FrameLen(more, L + 1)
  <2>. HIDE DEF more
  <2>. QED
    BY <1>1, FrameCells DEF FrameLen
<1>5. EndOf(more, L + 1) = EndOf(msgs, L) + Len(f) /\ Len(f) > 0
  <2>1. L + 1 \in 1 .. Len(more) /\ (L + 1) - 1 = L /\ L \in 0 .. L
    BY <1>1
  <2>2. /\ FrameLen(more, L + 1) \in Nat /\ FrameLen(more, L + 1) > HeaderSize
        /\ EndOf(more, L + 1) = EndOf(more, L) + FrameLen(more, L + 1)
    <3>. HIDE DEF more
    <3>1. EndOf(more, (L + 1) - 1) = EndOf(more, L)
      BY <2>1
    <3>. QED
      BY <1>1, <2>1, <3>1, EndValue
  <2>3. EndOf(more, L) = EndOf(msgs, L)
    BY <1>3, <2>1
  <2>. QED
    BY <1>4, <2>2, <2>3, HeaderAssumption
<1>6. (r + Len(c)) + Len(w) = EndOf(msgs, L) /\ r = EndOf(msgs, h) + Len(b)
  BY DEF Framed
<1>7. v \in Seq(Nat) /\ Len(v) = Len(w) + Len(f)
  BY <1>4, Joined
<1>. HIDE DEF f, v
<1>8. Carries(more, EndOf(msgs, L), f)
  <2>. HIDE DEF more
  <2>1. ASSUME NEW m \in 1 .. Len(more), NEW k \in 1 .. FrameLen(more, m),
               (EndOf(more, m - 1) + k) - EndOf(msgs, L) \in 1 .. Len(f)
        PROVE  f[(EndOf(more, m - 1) + k) - EndOf(msgs, L)] = Frame(more[m], m)[k]
    <3>1. CASE m \in 1 .. L
      <4>1. m \in 1 .. Len(more) /\ m - 1 \in 0 .. L /\ m \in 0 .. L /\ L \in 0 .. Len(msgs)
        BY <1>1, <3>1
      <4>2. /\ EndOf(more, m) = EndOf(more, m - 1) + FrameLen(more, m)
            /\ FrameLen(more, m) \in Nat
        BY <1>1, <4>1, EndValue
      <4>3. EndOf(msgs, m) <= EndOf(msgs, L)
        <5>1. m \in 0 .. L
          BY <4>1
        <5>. HIDE DEF L
        <5>. QED
          BY <4>1, <5>1, EndGrows
      <4>4. /\ EndOf(more, m) = EndOf(msgs, m) /\ EndOf(msgs, m) \in Nat /\ EndOf(msgs, L) \in Nat
            /\ EndOf(more, m - 1) \in Nat
        BY <1>1, <1>3, <4>1
      <4>5. k <= FrameLen(more, m) /\ k \in Nat
        BY <4>2
      <4>6. (EndOf(more, m - 1) + k) - EndOf(msgs, L) <= 0
        BY <4>2, <4>3, <4>4, <4>5
      <4>. QED
        BY <2>1, <4>6, <1>4
    <3>2. CASE m = L + 1
      <4>1. EndOf(more, m - 1) = EndOf(msgs, L) /\ EndOf(msgs, L) \in Nat /\ k \in Int
        <5>1. m - 1 = L /\ L \in 0 .. L
          BY <1>1, <3>2
        <5>. QED
          BY <1>3, <1>4, <3>2, <5>1
      <4>2. (EndOf(more, m - 1) + k) - EndOf(msgs, L) = k
        BY <4>1
      <4>. QED
        BY <1>1, <3>2, <4>2 DEF f
    <3>. QED
      BY <1>1, <3>1, <3>2
  <2>. QED
    BY <2>1 DEF Carries
<1>9. Carries(more, r + Len(c), v)
  <2>1. Carries(msgs, r + Len(c), w) /\ r + Len(c) \in Nat
    BY <1>2 DEF Framed
  <2>2. (r + Len(c)) + Len(w) <= EndOf(msgs, Len(msgs))
    BY <1>1, <1>3, <1>6
  <2>3. Carries(more, r + Len(c), w)
    BY <2>1, <2>2, CarriesMore
  <2>4. Carries(more, (r + Len(c)) + Len(w), f)
    BY <1>6, <1>8
  <2>. HIDE DEF more
  <2>. QED
    BY <1>1, <1>4, <2>1, <2>3, <2>4, CarriesBoth DEF v
<1>10. Carries(more, r, c)
  <2>1. Carries(msgs, r, c)
    BY DEF Framed
  <2>2. r + Len(c) <= EndOf(msgs, Len(msgs))
    BY <1>1, <1>2, <1>3, <1>6
  <2>. QED
    BY <2>1, <2>2, CarriesMore
<1>11. Ready(more, h, b)
  <2>1. Carries(msgs, EndOf(msgs, h), b) /\ b \in Seq(Nat)
    BY DEF Framed, Ready
  <2>2. EndOf(msgs, h) \in Nat /\ EndOf(msgs, h) + Len(b) <= EndOf(msgs, Len(msgs))
    BY <1>2, <1>3 DEF Framed, Ready
  <2>3. Carries(more, EndOf(msgs, h), b)
    BY <2>1, <2>2, CarriesMore
  <2>4. EndOf(more, h) = EndOf(msgs, h)
    BY <1>2, <1>3
  <2>5. EndOf(msgs, h) + Len(b) <= EndOf(more, Len(more)) /\ h \in 0 .. Len(more)
    <3>1. EndOf(msgs, L) \in Nat
      BY <1>1, <1>3
    <3>. HIDE DEF more, h
    <3>. QED
      BY <1>1, <1>2, <1>4, <1>5, <2>2, <3>1
  <2>. HIDE DEF more, h
  <2>. QED
    BY <2>1, <2>3, <2>4, <2>5 DEF Ready
<1>12. h < Len(more) => r < EndOf(more, h + 1)
  <2>1. CASE h < L
    <3>1. h + 1 \in 0 .. L
      BY <1>1, <1>2, <2>1
    <3>2. EndOf(more, h + 1) = EndOf(msgs, h + 1)
      BY <1>3, <3>1
    <3>3. r < EndOf(msgs, h + 1)
      BY <2>1 DEF Framed
    <3>. QED
      BY <3>2, <3>3
  <2>2. CASE h = L
    <3>1. r <= EndOf(msgs, L) /\ EndOf(msgs, L) \in Nat
      BY <1>1, <1>2, <1>3, <1>6
    <3>2. r < EndOf(more, L + 1)
      BY <1>4, <1>5, <3>1
    <3>. QED
      BY <2>2, <3>2
  <2>. QED
    BY <1>1, <1>2, <2>1, <2>2
<1>13. r = EndOf(more, h) + Len(b) /\ \A i \in 1 .. h : done[i].body = Body(more[i], i)
  <2>1. EndOf(more, h) = EndOf(msgs, h)
    BY <1>2, <1>3
  <2>2. \A i \in 1 .. h : i \in 1 .. L /\ more[i] = msgs[i] /\ done[i].body = Body(msgs[i], i)
    BY <1>1, <1>2 DEF Framed
  <2>. QED
    BY <1>6, <2>1, <2>2
<1>14. (r + Len(c)) + Len(v) = EndOf(more, Len(more))
  <2>. HIDE DEF more
  <2>1. EndOf(msgs, L) \in Nat
    BY <1>1, <1>3
  <2>. QED
    BY <1>1, <1>2, <1>4, <1>5, <1>6, <1>7, <2>1
<1>15. Framed(more, done, b, c, v, r)
  <2>. HIDE DEF more
  <2>. QED
    BY <1>9, <1>10, <1>11, <1>12, <1>13, <1>14 DEF Framed
<1>. QED
  BY <1>7, <1>15 DEF v, f
-----------------------------------------------------------------------------
(* The invariant: every connection is framed, a chunk waits exactly while  *)
(* its read is completed and unhandled, and no read is made before the     *)
(* accept.                                                                 *)
Streams ==
  /\ buffer \in [Sockets -> Seq(Nat)] /\ chunk \in [Sockets -> Seq(Nat)]
  /\ wire \in [Sockets -> Seq(Nat)]
  /\ sent \in [Sockets -> Seq(Kinds)] /\ handled \in [Sockets -> Seq(Notes)]
  /\ received \in [Sockets -> Nat]
  /\ peer \in [Sockets -> {"up", "shut", "reset"}] /\ checker \in BOOLEAN

Chunks ==
  \A s \in Sockets :
    /\ Len(chunk[s]) <= BufferSize
    /\ read[s] = "data" => chunk[s] # <<>>
    /\ read[s] # "data" => chunk[s] = <<>>
    /\ conn[s] \in {"none", "backlog"} => read[s] = "none"

Framing ==
  \A s \in Sockets : Framed(sent[s], handled[s], buffer[s], chunk[s], wire[s], received[s])

StreamInv == Shapes /\ Streams /\ Chunks /\ Framing

(* The streams are as they were, whatever becomes of the connections. *)
LEMMA StreamsStay ==
  ASSUME StreamInv, Shapes', UNCHANGED <<buffer, chunk, wire, sent, handled, received, checker>>,
         peer' \in [Sockets -> {"up", "shut", "reset"}],
         \A s \in Sockets : read'[s] = "data" <=> read[s] = "data",
         \A s \in Sockets : conn'[s] \in {"none", "backlog"} => read'[s] = "none"
  PROVE  StreamInv'
<1>1. Streams'
  BY DEF StreamInv, Streams
<1>2. Chunks'
  BY DEF StreamInv, Chunks
<1>3. Framing'
  BY DEF StreamInv, Framing
<1>. QED
  BY <1>1, <1>2, <1>3 DEF StreamInv

LEMMA StreamsRead ==
  ASSUME StreamInv, Shapes', NEW s \in Sockets, ReadData(s)
  PROVE  StreamInv'
<1>1. PICK n \in 1 .. BufferSize :
        /\ n <= Len(wire[s])
        /\ chunk' = [chunk EXCEPT ![s] = SubSeq(wire[s], 1, n)]
        /\ wire' = [wire EXCEPT ![s] = SubSeq(wire[s], n + 1, Len(wire[s]))]
  BY DEF ReadData
<1>2. /\ read[s] = "pending" /\ read' = [read EXCEPT ![s] = "data"]
      /\ UNCHANGED <<buffer, conn, checker, handled, received, peer, sent>>
  BY DEF ReadData
<1>. DEFINE c == SubSeq(wire[s], 1, n)
            w == SubSeq(wire[s], n + 1, Len(wire[s]))
<1>3. wire[s] \in Seq(Nat) /\ n \in 1 .. Len(wire[s])
  <2>1. wire[s] \in Seq(Nat)
    BY DEF StreamInv, Streams
  <2>. QED
    BY <1>1, <2>1
<1>4. c \in Seq(Nat) /\ Len(c) = n /\ w \in Seq(Nat)
  <2>1. n \in 0 .. Len(wire[s])
    BY <1>3
  <2>. QED
    BY <1>3, <2>1, CutFront, CutBack
<1>5. Framed(sent[s], handled[s], buffer[s], c, w, received[s])
  <2>1. /\ sent[s] \in Seq(Kinds) /\ handled[s] \in Seq(Notes) /\ buffer[s] \in Seq(Nat)
        /\ received[s] \in Nat
    BY DEF StreamInv, Streams
  <2>2. chunk[s] = <<>>
    BY <1>2 DEF StreamInv, Chunks
  <2>3. Framed(sent[s], handled[s], buffer[s], <<>>, wire[s], received[s])
    BY <2>2 DEF StreamInv, Framing
  <2>. QED
    BY <1>3, <2>1, <2>3, FramedRead
<1>6. c # <<>> /\ Len(c) <= BufferSize
  <2>1. Len(<<>>) = 0 /\ n # 0 /\ n <= BufferSize
    OBVIOUS
  <2>. HIDE DEF c
  <2>. QED
    BY <1>4, <2>1
<1>7. chunk' = [chunk EXCEPT ![s] = c] /\ wire' = [wire EXCEPT ![s] = w]
  BY <1>1
<1>. HIDE DEF c, w
<1>8. Streams'
  BY <1>2, <1>4, <1>7 DEF StreamInv, Streams
<1>9. Chunks'
  BY <1>2, <1>6, <1>7 DEF StreamInv, Streams, Chunks, Shapes
<1>10. Framing'
  BY <1>2, <1>5, <1>7 DEF StreamInv, Streams, Framing
<1>. QED
  BY <1>8, <1>9, <1>10 DEF StreamInv

LEMMA StreamsHandle ==
  ASSUME StreamInv, Shapes', NEW s \in Sockets, HandleData(s)
  PROVE  StreamInv'
<1>. DEFINE loop == Loop[buffer[s] \o chunk[s]]
            done == handled[s] \o [i \in DOMAIN loop.msgs |-> Handled(loop.msgs[i])]
            rest == loop.rest
            r == received[s] + Len(chunk[s])
<1>1. /\ buffer' = [buffer EXCEPT ![s] = rest]
      /\ received' = [received EXCEPT ![s] = r]
      /\ handled' = [handled EXCEPT ![s] = done]
      /\ chunk' = [chunk EXCEPT ![s] = <<>>]
      /\ read' = [read EXCEPT ![s] = NextRead(s)]
      /\ UNCHANGED <<conn, checker, wire, peer, sent>>
  BY DEF HandleData, network
<1>2. /\ sent[s] \in Seq(Kinds) /\ handled[s] \in Seq(Notes) /\ buffer[s] \in Seq(Nat)
      /\ chunk[s] \in Seq(Nat) /\ wire[s] \in Seq(Nat) /\ received[s] \in Nat
      /\ Framed(sent[s], handled[s], buffer[s], chunk[s], wire[s], received[s])
  BY DEF StreamInv, Streams, Framing
<1>3. /\ done \in Seq(Notes) /\ rest \in Seq(Nat)
      /\ Framed(sent[s], done, rest, <<>>, wire[s], r)
  BY <1>2, FramedHandle
<1>4. r \in Nat /\ <<>> \in Seq(Nat) /\ Len(<<>>) = 0
  BY <1>2
<1>. HIDE DEF done, rest, r
<1>5. Streams'
  BY <1>1, <1>3, <1>4 DEF StreamInv, Streams
<1>6. NextRead(s) \in {"pending", "error"} /\ conn[s] \notin {"none", "backlog"}
  <2>1. read[s] = "data"
    BY DEF HandleData
  <2>. QED
    BY <2>1 DEF NextRead, StreamInv, Chunks
<1>7. Chunks'
  <2>1. 0 <= BufferSize
    BY ReadAssumption
  <2>. QED
    BY <1>1, <1>4, <1>6, <2>1 DEF StreamInv, Streams, Chunks, Shapes
<1>8. Framing'
  BY <1>1, <1>3 DEF StreamInv, Streams, Framing
<1>. QED
  BY <1>5, <1>7, <1>8 DEF StreamInv

LEMMA StreamsSend ==
  ASSUME StreamInv, Shapes', NEW s \in Sockets, NEW kind \in Kinds, Send(s, kind)
  PROVE  StreamInv'
<1>. DEFINE w == wire[s] \o Frame(kind, Len(sent[s]) + 1)
            ms == Append(sent[s], kind)
<1>1. /\ wire' = [wire EXCEPT ![s] = w] /\ sent' = [sent EXCEPT ![s] = ms]
      /\ UNCHANGED <<buffer, conn, read, chunk, checker, handled, received, peer>>
  BY DEF Send, server
<1>2. /\ sent[s] \in Seq(Kinds) /\ handled[s] \in Seq(Notes) /\ buffer[s] \in Seq(Nat)
      /\ chunk[s] \in Seq(Nat) /\ wire[s] \in Seq(Nat) /\ received[s] \in Nat
      /\ Framed(sent[s], handled[s], buffer[s], chunk[s], wire[s], received[s])
  BY DEF StreamInv, Streams, Framing
<1>3. w \in Seq(Nat) /\ Framed(ms, handled[s], buffer[s], chunk[s], w, received[s])
  BY <1>2, FramedSend
<1>4. ms \in Seq(Kinds)
  BY <1>2
<1>. HIDE DEF w, ms
<1>5. Streams'
  BY <1>1, <1>3, <1>4 DEF StreamInv, Streams
<1>6. Chunks'
  BY <1>1 DEF StreamInv, Chunks
<1>7. Framing'
  BY <1>1, <1>3 DEF StreamInv, Streams, Framing
<1>. QED
  BY <1>5, <1>6, <1>7 DEF StreamInv

LEMMA StreamStep == IInv /\ IInv' /\ StreamInv /\ [Next]_vars => StreamInv'
<1>. SUFFICES ASSUME IInv, IInv', StreamInv, [Next]_vars
              PROVE  StreamInv'
  OBVIOUS
<1>1. Shapes /\ Shapes'
  BY DEF IInv
<1>2. CASE UNCHANGED vars
  <2>1. UNCHANGED <<buffer, chunk, wire, sent, handled, received, checker, peer, read, conn>>
    BY <1>2 DEF vars, server, network
  <2>. QED
    BY <1>1, <2>1, StreamsStay DEF StreamInv, Streams, Chunks
<1>3. ASSUME NEW s \in Sockets, Accept(s)
      PROVE  StreamInv'
  <2>1. /\ UNCHANGED <<buffer, chunk, wire, sent, handled, received, checker, peer>>
        /\ conn[s] = "backlog"
        /\ conn' = [conn EXCEPT ![s] = "open"] /\ read' = [read EXCEPT ![s] = "pending"]
    BY <1>3 DEF Accept, network
  <2>2. read[s] = "none"
    BY <2>1 DEF StreamInv, Chunks
  <2>. QED
    BY <1>1, <2>1, <2>2, StreamsStay DEF StreamInv, Streams, Chunks, Shapes
<1>4. ASSUME NEW s \in Sockets, ReadEnds(s) \/ HandleError(s)
      PROVE  StreamInv'
  <2>1. /\ UNCHANGED <<buffer, chunk, wire, sent, handled, received, checker, peer, conn>>
        /\ \/ read[s] = "pending" /\ read' = [read EXCEPT ![s] = "error"]
           \/ read[s] = "error" /\ read' = [read EXCEPT ![s] = "none"]
    BY <1>4 DEF ReadEnds, HandleError, network
  <2>. QED
    BY <1>1, <2>1, StreamsStay DEF StreamInv, Streams, Chunks, Shapes
<1>5. ASSUME NEW s \in Sockets, Connect(s)
      PROVE  StreamInv'
  <2>1. /\ UNCHANGED <<buffer, chunk, wire, sent, handled, received, checker, peer, read>>
        /\ conn[s] = "none" /\ conn' = [conn EXCEPT ![s] = "backlog"]
    BY <1>5 DEF Connect, network
  <2>. QED
    BY <1>1, <2>1, StreamsStay DEF StreamInv, Streams, Chunks, Shapes
<1>6. ASSUME NEW s \in Sockets, Shut(s) \/ Reset(s)
      PROVE  StreamInv'
  <2>1. /\ UNCHANGED <<buffer, chunk, wire, sent, handled, received, checker, read, conn>>
        /\ \/ peer' = [peer EXCEPT ![s] = "shut"]
           \/ peer' = [peer EXCEPT ![s] = "reset"]
    BY <1>6 DEF Shut, Reset, server
  <2>2. peer' \in [Sockets -> {"up", "shut", "reset"}]
    BY <2>1 DEF StreamInv, Streams
  <2>. QED
    BY <1>1, <2>1, <2>2, StreamsStay DEF StreamInv, Chunks
<1>7. CASE CheckHeartbeats
  <2>1. /\ UNCHANGED <<buffer, chunk, wire, sent, handled, received, checker, peer>>
        /\ conn' = [t \in Sockets |-> IF t \in TimedOut THEN "closed" ELSE conn[t]]
        /\ read' = [t \in Sockets |->
                      IF t \in TimedOut /\ read[t] = "pending" THEN "error" ELSE read[t]]
    BY <1>7 DEF CheckHeartbeats, network
  <2>2. \A t \in Sockets : read'[t] = "data" <=> read[t] = "data"
    BY <2>1
  <2>3. \A t \in Sockets : conn'[t] \in {"none", "backlog"} => read'[t] = "none"
    BY <2>1 DEF StreamInv, Chunks
  <2>. QED
    BY <1>1, <2>1, <2>2, <2>3, StreamsStay DEF StreamInv, Streams
<1>8. CASE Tick \/ StepBack
  <2>1. UNCHANGED <<buffer, chunk, wire, sent, handled, received, checker, peer, read, conn>>
    BY <1>8 DEF Tick, StepBack, server, network
  <2>. QED
    BY <1>1, <2>1, StreamsStay DEF StreamInv, Streams, Chunks
<1>9. ASSUME NEW s \in Sockets, Handler(s) \/ Client(s)
      PROVE  StreamInv'
  BY <1>1, <1>4, <1>5, <1>6, <1>9, StreamsRead, StreamsHandle, StreamsSend DEF Handler, Client
<1>. QED
  BY <1>2, <1>3, <1>7, <1>8, <1>9 DEF Next

LEMMA StreamFirst == Init => StreamInv
<1>. SUFFICES ASSUME Init
              PROVE  StreamInv
  OBVIOUS
<1>1. Shapes
  BY InitHolds DEF IInv
<1>2. <<>> \in Seq(Nat) /\ <<>> \in Seq(Kinds) /\ <<>> \in Seq(Notes) /\ Len(<<>>) = 0
  OBVIOUS
<1>3. Streams
  BY <1>2 DEF Init, Streams
<1>4. Chunks
  <2>1. 0 <= BufferSize
    BY ReadAssumption
  <2>. QED
    BY <1>2, <2>1 DEF Init, Chunks
<1>5. Framing
  BY FramedFirst DEF Init, Framing
<1>. QED
  BY <1>1, <1>3, <1>4, <1>5 DEF StreamInv

LEMMA StreamInvariance == Spec => []StreamInv
<1>1. IInv /\ StreamInv /\ [Next]_vars => IInv' /\ StreamInv'
  BY StepKeeps, StreamStep
<1>. QED
  BY <1>1, InitHolds, StreamFirst, PTL DEF Spec

(* The types hold for any number of connections, messages and sizes. *)
THEOREM TypeCorrect == Spec => []TypeOK
<1>1. IInv /\ StreamInv => TypeOK
  <2>. SUFFICES ASSUME IInv, StreamInv
                PROVE  TypeOK
    OBVIOUS
  <2>1. Shapes /\ Streams /\ Chunks
    BY DEF StreamInv
  <2>2. \A s \in Sockets : Len(chunk[s]) <= BufferSize /\ ((chunk[s] # <<>>) = (read[s] = "data"))
    BY <2>1 DEF Chunks
  <2>. QED
    BY <2>1, <2>2 DEF TypeOK, Shapes, Streams, Notes
<1>. QED
  BY <1>1, Invariance, StreamInvariance, PTL

(* However the network cuts the streams into reads, and whatever closes    *)
(* meanwhile, the loop of do_read() takes out of each the messages sent,   *)
(* in order, each as soon as it is whole and none before: for any size of  *)
(* the read buffer, of the bodies and of the length's digits.              *)
THEOREM MessagesSurviveTheStream == Spec => []HandledAsReceived
<1>1. StreamInv => HandledAsReceived
  <2>. SUFFICES ASSUME StreamInv, NEW s \in Sockets
                PROVE  /\ Len(handled[s]) <= Len(sent[s])
                       /\ \A i \in DOMAIN handled[s] : handled[s][i].body = Body(sent[s][i], i)
                       /\ \A n \in DOMAIN sent[s] :
                            n <= Len(handled[s]) <=> EndOf(sent[s], n) <= received[s]
    BY DEF HandledAsReceived
  <2>. DEFINE msgs == sent[s]
              done == handled[s]
              h == Len(done)
              r == received[s]
  <2>1. msgs \in Seq(Kinds) /\ done \in Seq(Notes) /\ r \in Nat
    BY DEF StreamInv, Streams
  <2>2. Framed(msgs, done, buffer[s], chunk[s], wire[s], r)
    BY DEF StreamInv, Framing
  <2>. HIDE DEF msgs, done, r
  <2>3. /\ h \in 0 .. Len(msgs) /\ Len(msgs) \in Nat /\ Len(buffer[s]) \in Nat
        /\ r = EndOf(msgs, h) + Len(buffer[s])
        /\ h < Len(msgs) => r < EndOf(msgs, h + 1)
    BY <2>1, <2>2 DEF Framed, Ready
  <2>4. \A i \in DOMAIN done : done[i].body = Body(msgs[i], i)
    BY <2>1, <2>2 DEF Framed
  <2>5. ASSUME NEW n \in DOMAIN msgs
        PROVE  n <= h <=> EndOf(msgs, n) <= r
    <3>1. n \in 1 .. Len(msgs) /\ n \in 0 .. Len(msgs) /\ n \in Nat /\ h \in Nat
      BY <2>1, <2>3
    <3>2. EndOf(msgs, n) \in Nat /\ EndOf(msgs, h) \in Nat
      BY <2>1, <2>3, <3>1, EndValue
    <3>3. CASE n <= h
      <4>1. EndOf(msgs, n) <= EndOf(msgs, h)
        <5>1. n \in 0 .. h
          BY <3>1, <3>3
        <5>. HIDE DEF h
        <5>. QED
          BY <2>1, <2>3, <5>1, EndGrows
      <4>. QED
        BY <2>3, <3>2, <3>3, <4>1
    <3>4. CASE n > h
      <4>1. h + 1 \in 0 .. n /\ h + 1 \in 0 .. Len(msgs) /\ h < Len(msgs)
        BY <2>3, <3>1, <3>4
      <4>2. EndOf(msgs, h + 1) <= EndOf(msgs, n) /\ EndOf(msgs, h + 1) \in Nat
        <5>. HIDE DEF h
        <5>. QED
          BY <2>1, <3>1, <4>1, EndGrows, EndValue
      <4>3. ~(EndOf(msgs, n) <= r)
        BY <2>1, <2>3, <3>2, <4>1, <4>2
      <4>. QED
        BY <3>1, <3>4, <4>3
    <3>. QED
      BY <3>1, <3>3, <3>4
  <2>. QED
    BY <2>3, <2>4, <2>5 DEF msgs, done, r
<1>. QED
  BY <1>1, StreamInvariance, PTL
=============================================================================
