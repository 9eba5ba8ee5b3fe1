--------------------------- MODULE IpcClient_proofs ---------------------------
(***************************************************************************)
(* Proofs about IpcClient, for every limit of attempts, of heartbeat       *)
(* failures, of pings and of events, with disconnect() interleaved with    *)
(* the handlers: is_connecting_ never blocks connect() for ever, the next  *)
(* attempt is pending, and a client at rest stays so.                      *)
(***************************************************************************)
EXTENDS IpcClient, TLAPS

(* disconnect() under way is the owner's last call. *)
OwnerStops == owner # "idle" => stop_asked

(* Past the tests of try_reconnect(), there is an attempt left. *)
RetryAllowed == io = "retry" => current_reconnect_attempts < MaxReconnectAttempts

IInv == TypeOK /\ ConnectingIsPending /\ NoDeadEnd /\ OwnerStops /\ RetryAllowed

(* Handlers of connect() still to come. *)
Connects == live["connect"] + orphaned["connect"]

OpsTyped == live \in [Operations -> Nat] /\ orphaned \in [Operations -> Nat]

LEMMA OperationsKnown ==
  "connect" \in Operations /\ "read" \in Operations /\ "write" \in Operations /\ "ping" \in Operations
BY DEF Operations
-----------------------------------------------------------------------------
(* What the helpers do to the operations.                                  *)

LEMMA EndsResult ==
  ASSUME OpsTyped, NEW k \in Operations, EndsLive(k) \/ EndsOrphaned(k)
  PROVE  /\ OpsTyped'
         /\ k # "connect" => Connects' = Connects /\ live'["connect"] = live["connect"]
         /\ live'["connect"] <= live["connect"]
<1>1. CASE EndsLive(k)
  <2>1. live[k] \in Nat /\ live[k] > 0 /\ live' = [live EXCEPT ![k] = live[k] - 1]
        /\ orphaned' = orphaned
    BY <1>1 DEF EndsLive, OpsTyped
  <2>2. live[k] - 1 \in Nat
    BY <2>1
  <2>. QED
    BY <2>1, <2>2, OperationsKnown DEF OpsTyped, Connects
<1>2. CASE EndsOrphaned(k)
  <2>1. orphaned[k] \in Nat /\ orphaned[k] > 0 /\ orphaned' = [orphaned EXCEPT ![k] = orphaned[k] - 1]
        /\ live' = live
    BY <1>2 DEF EndsOrphaned, OpsTyped
  <2>2. orphaned[k] - 1 \in Nat
    BY <2>1
  <2>3. live["connect"] \in Nat
    BY OperationsKnown DEF OpsTyped
  <2>. QED
    BY <2>1, <2>2, <2>3, OperationsKnown DEF OpsTyped, Connects
<1>. QED
  BY <1>1, <1>2

LEMMA OrphanResult ==
  ASSUME OpsTyped, Orphan
  PROVE  OpsTyped' /\ Connects' = Connects /\ live'["connect"] = 0
<1>1. \A k \in Operations : live[k] \in Nat /\ orphaned[k] \in Nat /\ orphaned[k] + live[k] \in Nat
  BY DEF OpsTyped
<1>2. OpsTyped'
  BY <1>1 DEF Orphan, OpsTyped
<1>3. live'["connect"] = 0 /\ orphaned'["connect"] = orphaned["connect"] + live["connect"]
  BY OperationsKnown DEF Orphan
<1>. QED
  BY <1>1, <1>2, <1>3, OperationsKnown DEF Connects

(* A connect that is due is one of Connects, or the io thread gets to it. *)
LEMMA ConnectDueIs == ConnectDue <=> (Connects > 0 \/ io \in {"connecting", "opening"})
BY DEF ConnectDue, Connects

(* The steps that only move operations other than connects, or the rest of *)
(* the state that the invariants do not look at.                           *)
connection == <<state, client, reconnect_timer, owner, stop_asked>>

LEMMA QuietKeeps ==
  ASSUME IInv, TypeOK', UNCHANGED connection, Connects' = Connects,
         io' = io \/ (io \notin {"retry", "connecting", "opening"} /\ io' # "retry")
  PROVE  IInv'
BY DEF IInv, ConnectingIsPending, NoDeadEnd, OwnerStops, RetryAllowed, connection, client,
   ConnectDue, Connects

(* What a call that may reconnect does: gives up, or goes on to Retry. *)
LEMMA TryReconnectResult ==
  ASSUME TypeOK, TryReconnect
  PROVE  /\ is_permanently_stopped' \in BOOLEAN /\ io' \in {"idle", "retry"}
         /\ \/ is_permanently_stopped' = TRUE /\ io' = "idle"
            \/ /\ is_permanently_stopped' = is_permanently_stopped /\ io' = "retry"
               /\ ~is_permanently_stopped
               /\ current_reconnect_attempts < MaxReconnectAttempts
<1>1. /\ is_permanently_stopped \in BOOLEAN
      /\ current_reconnect_attempts \in Int /\ MaxReconnectAttempts \in Int
  BY LimitsAssumption DEF TypeOK
<1>2. CASE is_permanently_stopped \/ current_reconnect_attempts >= MaxReconnectAttempts
  BY <1>2 DEF TryReconnect
<1>3. CASE ~(is_permanently_stopped \/ current_reconnect_attempts >= MaxReconnectAttempts)
  <2>1. current_reconnect_attempts < MaxReconnectAttempts
    BY <1>1, <1>3
  <2>. QED
    BY <1>1, <1>3, <2>1 DEF TryReconnect
<1>. QED
  BY <1>2, <1>3

LEMMA RecordFailureResult ==
  ASSUME TypeOK, RecordFailure \/ TryTriggerReconnect
  PROVE  /\ is_reconnecting_flag' \in BOOLEAN /\ is_permanently_stopped' \in BOOLEAN
         /\ io' \in {"idle", "retry", "lost"}
         /\ is_permanently_stopped => is_permanently_stopped' /\ io' # "retry"
         /\ is_permanently_stopped' = is_permanently_stopped \/ is_permanently_stopped' = TRUE
         /\ io' = "retry" => current_reconnect_attempts < MaxReconnectAttempts
<1>1. CASE TryTriggerReconnect
  BY <1>1, TryReconnectResult DEF TryTriggerReconnect, TypeOK
<1>2. CASE RecordFailure
  BY <1>1, <1>2 DEF RecordFailure, TypeOK
<1>. QED
  BY <1>1, <1>2
-----------------------------------------------------------------------------
(* The handlers, and what goes on after their first step.                  *)

LEMMA ConnectHandlersKeep ==
  ASSUME IInv, ConnectSucceeds \/ ConnectFails \/ ReconnectTimer
  PROVE  IInv'
<1>. OpsTyped /\ "connect" \in Operations
  BY OperationsKnown DEF IInv, TypeOK, OpsTyped
<1>1. CASE ConnectSucceeds
  <2>1. OpsTyped'
    BY <1>1, EndsResult DEF ConnectSucceeds
  <2>2. current_reconnect_attempts' \in 0 .. MaxReconnectAttempts
    BY <1>1, LimitsAssumption DEF ConnectSucceeds
  <2>3. TypeOK'
    BY <1>1, <2>1, <2>2 DEF ConnectSucceeds, IInv, TypeOK, OpsTyped, heartbeat, calls, world
  <2>. QED
    BY <1>1, <2>3 DEF ConnectSucceeds, IInv, ConnectingIsPending, NoDeadEnd, OwnerStops,
       RetryAllowed, calls
<1>2. CASE ConnectFails
  <2>1. OpsTyped'
    BY <1>2, EndsResult DEF ConnectFails
  <2>2. /\ is_permanently_stopped' \in BOOLEAN /\ io' \in {"idle", "retry"}
        /\ is_permanently_stopped' = TRUE \/ io' = "retry"
        /\ io' = "retry" => current_reconnect_attempts < MaxReconnectAttempts
    BY <1>2, TryReconnectResult DEF ConnectFails, IInv
  <2>3. TypeOK'
    BY <1>2, <2>1, <2>2 DEF ConnectFails, IInv, TypeOK, OpsTyped, heartbeat, calls, world
  <2>. QED
    BY <1>2, <2>2, <2>3 DEF ConnectFails, IInv, ConnectingIsPending, NoDeadEnd, OwnerStops,
       RetryAllowed, calls
<1>3. CASE ReconnectTimer
  <2>1. /\ is_connecting' \in BOOLEAN /\ is_permanently_stopped' \in BOOLEAN
        /\ io' \in {"idle", "connecting"}
    BY <1>3 DEF ReconnectTimer, BeginConnect, IInv, TypeOK
  <2>2. TypeOK'
    <3>1. TypeOK
      BY DEF IInv
    <3>2. /\ reconnect_timer' = FALSE
          /\ UNCHANGED <<state, is_reconnecting_flag, current_reconnect_attempts, socket, live,
                         orphaned, heartbeat, calls, world>>
      BY <1>3 DEF ReconnectTimer, monitor, network
    <3>3. UNCHANGED <<heartbeat_timer, heartbeat_enabled, heartbeat_failure_count, silent, owner,
                     stop_asked, server_up, events>>
      BY <3>2 DEF heartbeat, calls, world
    <3>4. reconnect_timer' \in BOOLEAN
      BY <3>2
    <3>. QED
      BY <2>1, <3>1, <3>2, <3>3, <3>4 DEF TypeOK
  <2>. QED
    BY <1>3, <2>2 DEF ReconnectTimer, BeginConnect, IInv, ConnectingIsPending, NoDeadEnd,
       OwnerStops, RetryAllowed, ConnectDue, network, calls
<1>. QED
  BY <1>1, <1>2, <1>3

LEMMA OperationsKeep ==
  ASSUME IInv,
         ReadContinues \/ ReadFails \/ ReadAborted \/ WriteEnds \/ WriteFails \/ PingEnds \/ Write
  PROVE  IInv'
<1>. OpsTyped
  BY DEF IInv, TypeOK, OpsTyped
<1>1. CASE ReadContinues \/ ReadAborted \/ WriteEnds \/ PingEnds
  <2>1. PICK k \in {"read", "write", "ping"} :
          /\ EndsLive(k) \/ EndsOrphaned(k)
          /\ io = "idle" /\ io' \in {"idle", "read"}
          /\ UNCHANGED <<monitor, client, socket, reconnect_timer, heartbeat, calls, world>>
    BY <1>1 DEF ReadContinues, ReadAborted, WriteEnds, PingEnds
  <2>2. OpsTyped' /\ Connects' = Connects
    BY <2>1, EndsResult, OperationsKnown
  <2>3. TypeOK'
    BY <2>1, <2>2 DEF IInv, TypeOK, OpsTyped, monitor, client, heartbeat, calls, world
  <2>. QED
    BY <2>1, <2>2, <2>3, QuietKeeps DEF connection, monitor, calls
<1>2. CASE ReadFails \/ WriteFails
  <2>1. PICK k \in {"read", "write"} :
          /\ EndsLive(k) \/ EndsOrphaned(k)
          /\ io = "idle" /\ RecordFailure
          /\ UNCHANGED <<state, is_connecting, current_reconnect_attempts, socket,
                         reconnect_timer, heartbeat, calls, world>>
    BY <1>2 DEF ReadFails, WriteFails, EndsFailed
  <2>2. OpsTyped' /\ Connects' = Connects
    BY <2>1, EndsResult, OperationsKnown
  <2>3. /\ is_reconnecting_flag' \in BOOLEAN /\ is_permanently_stopped' \in BOOLEAN
        /\ io' \in {"idle", "retry", "lost"}
        /\ is_permanently_stopped' = is_permanently_stopped \/ is_permanently_stopped' = TRUE
        /\ io' = "retry" => current_reconnect_attempts < MaxReconnectAttempts
    BY <2>1, RecordFailureResult DEF IInv
  <2>4. TypeOK'
    BY <2>1, <2>2, <2>3 DEF IInv, TypeOK, OpsTyped, heartbeat, calls, world
  <2>. QED
    BY <2>1, <2>2, <2>3, <2>4 DEF IInv, ConnectingIsPending, NoDeadEnd, OwnerStops, RetryAllowed,
       ConnectDue, Connects, calls
<1>3. CASE Write
  <2>1. live' = [live EXCEPT !["write"] = 1] /\ orphaned' = orphaned
    BY <1>3 DEF Write
  <2>2. OpsTyped' /\ Connects' = Connects
    BY <2>1, OperationsKnown DEF OpsTyped, Connects
  <2>3. TypeOK'
    BY <1>3, <2>2 DEF Write, IInv, TypeOK, OpsTyped, monitor, client, heartbeat, calls, world
  <2>. QED
    BY <1>3, <2>2, <2>3, QuietKeeps DEF Write, connection, monitor, calls
<1>. QED
  BY <1>1, <1>2, <1>3
LEMMA HeartbeatKeeps ==
  ASSUME IInv, HeartbeatTimer \/ PingFails
  PROVE  IInv'
<1>. OpsTyped
  BY DEF IInv, TypeOK, OpsTyped
<1>1. CASE PingFails
  <2>1. /\ EndsLive("ping") \/ EndsOrphaned("ping")
        /\ io = "idle"
        /\ UNCHANGED <<state, is_connecting, current_reconnect_attempts, socket, reconnect_timer,
                       heartbeat_timer, heartbeat_enabled, silent, calls, world>>
    BY <1>1 DEF PingFails, EndsFailed
  <2>2. OpsTyped' /\ Connects' = Connects
    BY <2>1, EndsResult, OperationsKnown
  <2>3. heartbeat_failure_count' \in 0 .. HeartbeatMaxFailures
    BY <1>1, LimitsAssumption DEF PingFails, IInv, TypeOK
  <2>4. TryTriggerReconnect \/ UNCHANGED <<io, is_reconnecting_flag, is_permanently_stopped>>
    BY <1>1 DEF PingFails
  <2>5. /\ is_reconnecting_flag' \in BOOLEAN /\ is_permanently_stopped' \in BOOLEAN
        /\ io' \in {"idle", "retry", "lost"}
        /\ is_permanently_stopped' = is_permanently_stopped \/ is_permanently_stopped' = TRUE
        /\ io' = "retry" => current_reconnect_attempts < MaxReconnectAttempts
    <3>1. CASE TryTriggerReconnect
      BY <3>1, RecordFailureResult DEF IInv
    <3>2. CASE UNCHANGED <<io, is_reconnecting_flag, is_permanently_stopped>>
      BY <2>1, <3>2 DEF IInv, TypeOK
    <3>. QED
      BY <2>4, <3>1, <3>2
  <2>6. TypeOK'
    BY <2>1, <2>2, <2>3, <2>5 DEF IInv, TypeOK, OpsTyped, calls, world
  <2>. QED
    BY <2>1, <2>2, <2>5, <2>6 DEF IInv, ConnectingIsPending, NoDeadEnd, OwnerStops, RetryAllowed,
       ConnectDue, Connects, calls
<1>2. CASE HeartbeatTimer
  <2>. DEFINE pinged == [live EXCEPT !["ping"] = @ + 1]
  <2>1. /\ io = "idle"
        /\ UNCHANGED <<is_connecting, current_reconnect_attempts, reconnect_timer, silent, io,
                       calls, world>>
    BY <1>2 DEF HeartbeatTimer
  <2>2. /\ pinged \in [Operations -> Nat] /\ pinged["connect"] = live["connect"]
        /\ orphaned \in [Operations -> Nat]
    BY OperationsKnown DEF OpsTyped
  <2>3. \/ /\ heartbeat_timer' = FALSE
           /\ UNCHANGED <<monitor, is_permanently_stopped, network, heartbeat_enabled,
                          heartbeat_failure_count>>
        \/ /\ is_permanently_stopped' = TRUE
           /\ state' = "Disconnected" /\ is_reconnecting_flag' = TRUE
           /\ heartbeat_enabled' = FALSE
           /\ socket' = "closed"
           /\ live' = [k \in Operations |-> 0]
           /\ orphaned' = [k \in Operations |-> orphaned[k] + pinged[k]]
           /\ UNCHANGED heartbeat_timer
        \/ /\ live' = pinged
           /\ UNCHANGED <<monitor, is_permanently_stopped, heartbeat_enabled, socket, orphaned>>
           /\ UNCHANGED heartbeat_timer
    BY <1>2 DEF HeartbeatTimer
  <2>4. heartbeat_failure_count' \in 0 .. HeartbeatMaxFailures
    <3>1. heartbeat_failure_count \in 0 .. HeartbeatMaxFailures
      BY DEF IInv, TypeOK
    <3>2. \/ heartbeat_failure_count' = heartbeat_failure_count
          \/ /\ heartbeat_failure_count' = heartbeat_failure_count + 1
             /\ heartbeat_failure_count + 1 <= HeartbeatMaxFailures
      BY <1>2 DEF HeartbeatTimer
    <3>. QED
      BY <3>1, <3>2, LimitsAssumption
  <2>5. OpsTyped' /\ Connects' = Connects
    <3>. HIDE DEF pinged
    <3>1. CASE UNCHANGED network
      BY <3>1 DEF network, OpsTyped, Connects
    <3>2. CASE live' = pinged /\ UNCHANGED orphaned
      BY <2>2, <3>2 DEF OpsTyped, Connects
    <3>3. CASE /\ live' = [k \in Operations |-> 0]
               /\ orphaned' = [k \in Operations |-> orphaned[k] + pinged[k]]
      <4>1. \A k \in Operations : orphaned[k] \in Nat /\ pinged[k] \in Nat
        BY <2>2
      <4>2. \A k \in Operations : orphaned[k] + pinged[k] \in Nat
        BY <4>1
      <4>3. OpsTyped'
        BY <3>3, <4>2 DEF OpsTyped
      <4>4. /\ live'["connect"] = 0
            /\ orphaned'["connect"] = orphaned["connect"] + live["connect"]
        BY <2>2, <3>3, OperationsKnown
      <4>5. live["connect"] \in Nat /\ orphaned["connect"] \in Nat
        BY OperationsKnown DEF OpsTyped
      <4>. QED
        BY <4>3, <4>4, <4>5 DEF Connects
    <3>. QED
      BY <2>3, <3>1, <3>2, <3>3
  <2>. HIDE DEF pinged
  <2>6. /\ state' = state \/ (state' = "Disconnected" /\ is_permanently_stopped' = TRUE)
        /\ is_permanently_stopped' = is_permanently_stopped \/ is_permanently_stopped' = TRUE
        /\ socket' = socket \/ socket' = "closed"
        /\ is_reconnecting_flag' = is_reconnecting_flag \/ is_reconnecting_flag' = TRUE
        /\ heartbeat_timer' = heartbeat_timer \/ heartbeat_timer' = FALSE
        /\ heartbeat_enabled' = heartbeat_enabled \/ heartbeat_enabled' = FALSE
    BY <2>3 DEF monitor, network
  <2>7. TypeOK'
    <3>1. TypeOK
      BY DEF IInv
    <3>2. /\ state' \in {"Disconnected", "Connecting", "Connected", "Reconnecting"}
          /\ is_reconnecting_flag' \in BOOLEAN /\ is_permanently_stopped' \in BOOLEAN
          /\ socket' \in {"closed", "connecting", "up", "broken"}
          /\ heartbeat_timer' \in BOOLEAN /\ heartbeat_enabled' \in BOOLEAN
      BY <2>6, <3>1 DEF TypeOK
    <3>. QED
      BY <2>1, <2>4, <2>5, <3>1, <3>2 DEF TypeOK, OpsTyped, calls, world
  <2>. QED
    BY <2>1, <2>5, <2>6, <2>7 DEF IInv, ConnectingIsPending, NoDeadEnd, OwnerStops, RetryAllowed,
       ConnectDue, Connects, calls
<1>. QED
  BY <1>1, <1>2

LEMMA HandlerStepKeeps ==
  ASSUME IInv, HandlerStep
  PROVE  IInv'
<1>. OpsTyped
  BY DEF IInv, TypeOK, OpsTyped
<1>1. CASE Retry
  <2>1. OpsTyped' /\ Connects' = Connects
    BY <1>1, OrphanResult DEF Retry, CloseSocket
  <2>2. current_reconnect_attempts' \in 0 .. MaxReconnectAttempts
    BY <1>1, LimitsAssumption DEF Retry, IInv, TypeOK, RetryAllowed
  <2>3. TypeOK'
    BY <1>1, <2>1, <2>2 DEF Retry, CloseSocket, IInv, TypeOK, OpsTyped, monitor, heartbeat, calls,
       world
  <2>. QED
    BY <1>1, <2>3 DEF Retry, IInv, ConnectingIsPending, NoDeadEnd, OwnerStops, RetryAllowed, calls
<1>2. CASE LoseConnection
  <2>1. TypeOK'
    BY <1>2 DEF LoseConnection, IInv, TypeOK, client, network, heartbeat, calls, world
  <2>. QED
    BY <1>2, <2>1 DEF LoseConnection, IInv, ConnectingIsPending, NoDeadEnd, OwnerStops,
       RetryAllowed, ConnectDue, client, network, calls
<1>3. CASE SetConnecting
  <2>1. TypeOK'
    BY <1>3 DEF SetConnecting, IInv, TypeOK, client, network, heartbeat, calls, world
  <2>. QED
    BY <1>3, <2>1 DEF SetConnecting, IInv, ConnectingIsPending, NoDeadEnd, OwnerStops,
       RetryAllowed, ConnectDue, calls
<1>4. CASE OpenSocket
  <2>1. \A k \in Operations : live[k] \in Nat /\ orphaned[k] \in Nat
    BY DEF OpsTyped
  <2>2. \A k \in Operations : orphaned[k] + live[k] \in Nat
    BY <2>1
  <2>3. OpsTyped'
    BY <1>4, <2>2 DEF OpenSocket, OpsTyped
  <2>4. live'["connect"] = 1 /\ orphaned'["connect"] \in Nat
    BY <1>4, <2>3, OperationsKnown DEF OpenSocket, OpsTyped
  <2>5. Connects' > 0
    BY <2>4 DEF Connects
  <2>6. TypeOK'
    BY <1>4, <2>3 DEF OpenSocket, IInv, TypeOK, OpsTyped, monitor, client, heartbeat, calls, world
  <2>. QED
    BY <1>4, <2>5, <2>6 DEF OpenSocket, IInv, ConnectingIsPending, NoDeadEnd, OwnerStops,
       RetryAllowed, ConnectDue, Connects, calls
<1>5. CASE StartHeartbeat
  <2>1. TypeOK'
    BY <1>5 DEF StartHeartbeat, IInv, TypeOK, monitor, client, network, calls, world
  <2>2. UNCHANGED connection /\ Connects' = Connects
    BY <1>5 DEF StartHeartbeat, connection, Connects, monitor, network, calls
  <2>. QED
    BY <1>5, <2>1, <2>2, QuietKeeps DEF StartHeartbeat
<1>6. CASE StartRead
  <2>1. orphaned' = orphaned /\ (live' = live \/ live' = [live EXCEPT !["read"] = @ + 1])
    BY <1>6 DEF StartRead
  <2>2. OpsTyped' /\ Connects' = Connects
    BY <2>1, OperationsKnown DEF OpsTyped, Connects
  <2>3. TypeOK'
    BY <1>6, <2>2 DEF StartRead, IInv, TypeOK, OpsTyped, monitor, client, heartbeat, calls, world
  <2>4. UNCHANGED connection
    BY <1>6 DEF StartRead, connection, monitor, calls
  <2>. QED
    BY <1>6, <2>2, <2>3, <2>4, QuietKeeps DEF StartRead
<1>. QED
  BY <1>1, <1>2, <1>3, <1>4, <1>5, <1>6 DEF HandlerStep

(* The owner's calls: every store of disconnect() finds stop_asked set.    *)
LEMMA OwnerKeeps ==
  ASSUME IInv, Connect \/ Disconnect \/ OwnerStep
  PROVE  IInv'
<1>. OpsTyped
  BY DEF IInv, TypeOK, OpsTyped
<1>1. CASE Connect
  <2>1. /\ is_connecting' \in BOOLEAN /\ is_permanently_stopped' \in BOOLEAN
        /\ io' \in {"idle", "connecting"}
    BY <1>1 DEF Connect, BeginConnect, IInv, TypeOK
  <2>2. events' \in 0 .. MaxEvents
    BY <1>1, EventsAssumption DEF Connect, IInv, TypeOK
  <2>3. TypeOK'
    BY <1>1, <2>1, <2>2 DEF Connect, IInv, TypeOK, monitor, network, heartbeat
  <2>. QED
    BY <1>1, <2>3 DEF Connect, BeginConnect, IInv, ConnectingIsPending, NoDeadEnd, OwnerStops,
       RetryAllowed, ConnectDue, monitor, network
<1>2. CASE Disconnect
  <2>1. events' \in 0 .. MaxEvents
    BY <1>2, EventsAssumption DEF Disconnect, IInv, TypeOK
  <2>2. TypeOK'
    BY <1>2, <2>1 DEF Disconnect, IInv, TypeOK, monitor, network, heartbeat
  <2>. QED
    BY <1>2, <2>2 DEF Disconnect, IInv, ConnectingIsPending, NoDeadEnd, OwnerStops,
       RetryAllowed, ConnectDue, monitor, network
<1>3. CASE DisconnectState
  <2>1. TypeOK'
    BY <1>3 DEF DisconnectState, IInv, TypeOK, client, network, heartbeat, world
  <2>. QED
    BY <1>3, <2>1 DEF DisconnectState, IInv, ConnectingIsPending, NoDeadEnd, OwnerStops,
       RetryAllowed, ConnectDue, client, network
<1>4. CASE DisconnectHeartbeat
  <2>1. heartbeat_timer' \in BOOLEAN
    BY <1>4 DEF DisconnectHeartbeat, IInv, TypeOK
  <2>2. TypeOK'
    <3>1. TypeOK /\ heartbeat_enabled' = FALSE /\ owner' = "close"
      BY <1>4 DEF IInv, DisconnectHeartbeat
    <3>2. UNCHANGED <<monitor, client, network, reconnect_timer, heartbeat_failure_count, silent,
                     io, stop_asked, world>>
      BY <1>4 DEF DisconnectHeartbeat
    <3>3. UNCHANGED <<state, is_reconnecting_flag, is_connecting, is_permanently_stopped,
                     current_reconnect_attempts, socket, live, orphaned, server_up, events>>
      BY <3>2 DEF monitor, client, network, world
    <3>4. heartbeat_enabled' \in BOOLEAN
      BY <3>1
    <3>. QED
      BY <2>1, <3>1, <3>2, <3>3, <3>4 DEF TypeOK
  <2>. QED
    BY <1>4, <2>2 DEF DisconnectHeartbeat, IInv, ConnectingIsPending, NoDeadEnd, OwnerStops,
       RetryAllowed, ConnectDue, monitor, client, network
<1>5. CASE DisconnectClose
  <2>1. OpsTyped' /\ Connects' = Connects
    BY <1>5, OrphanResult DEF DisconnectClose, CloseSocket
  <2>2. TypeOK'
    BY <1>5, <2>1 DEF DisconnectClose, CloseSocket, IInv, TypeOK, OpsTyped, monitor, client,
       heartbeat, world
  <2>. QED
    BY <1>5, <2>1, <2>2 DEF DisconnectClose, IInv, ConnectingIsPending, NoDeadEnd, OwnerStops,
       RetryAllowed, ConnectDue, Connects, monitor, client
<1>. QED
  BY <1>1, <1>2, <1>3, <1>4, <1>5 DEF OwnerStep

LEMMA WorldKeeps ==
  ASSUME IInv, TimeoutPasses \/ (\E up \in BOOLEAN : Break(up)) \/ UNCHANGED vars
  PROVE  IInv'
<1>1. CASE TimeoutPasses
  <2>1. TypeOK'
    BY <1>1 DEF TimeoutPasses, IInv, TypeOK, monitor, client, network, calls, world
  <2>2. UNCHANGED connection /\ Connects' = Connects /\ io' = io
    BY <1>1 DEF TimeoutPasses, connection, Connects, monitor, network, calls
  <2>. QED
    BY <2>1, <2>2, QuietKeeps
<1>2. ASSUME NEW up \in BOOLEAN, Break(up) PROVE IInv'
  <2>1. events' \in 0 .. MaxEvents /\ socket' \in {socket, "broken"}
    BY <1>2, EventsAssumption DEF Break, IInv, TypeOK
  <2>2. TypeOK'
    BY <1>2, <2>1 DEF Break, IInv, TypeOK, monitor, client, heartbeat, calls
  <2>3. UNCHANGED connection /\ Connects' = Connects /\ io' = io
    BY <1>2 DEF Break, connection, Connects, monitor, calls
  <2>. QED
    BY <2>2, <2>3, QuietKeeps
<1>3. CASE UNCHANGED vars
  <2>1. TypeOK'
    BY <1>3 DEF IInv, TypeOK, vars, monitor, client, network, heartbeat, calls, world
  <2>2. UNCHANGED connection /\ Connects' = Connects /\ io' = io
    BY <1>3 DEF connection, Connects, vars, monitor, network, calls
  <2>. QED
    BY <2>1, <2>2, QuietKeeps
<1>. QED
  BY <1>1, <1>2, <1>3
-----------------------------------------------------------------------------
LEMMA InitHolds == Init => IInv
<1>. SUFFICES ASSUME Init PROVE IInv
  OBVIOUS
<1>1. OpsTyped /\ live["connect"] = 1 /\ orphaned["connect"] = 0
  BY OperationsKnown DEF Init, OpsTyped
<1>2. TypeOK
  <2>1. /\ current_reconnect_attempts \in 0 .. MaxReconnectAttempts
        /\ heartbeat_failure_count \in 0 .. HeartbeatMaxFailures
        /\ events \in 0 .. MaxEvents
    BY LimitsAssumption, EventsAssumption DEF Init
  <2>. QED
    BY <1>1, <2>1 DEF Init, TypeOK, OpsTyped
<1>. QED
  BY <1>1, <1>2 DEF Init, IInv, ConnectingIsPending, NoDeadEnd, OwnerStops, RetryAllowed, ConnectDue

LEMMA StepKeeps == IInv /\ [Next]_vars => IInv'
BY ConnectHandlersKeep, OperationsKeep, HeartbeatKeeps, HandlerStepKeeps, OwnerKeeps, WorldKeeps
   DEF Next, Handler

LEMMA Invariance == Spec => []IInv
BY InitHolds, StepKeeps, PTL DEF Spec

(* Every variable keeps its type; the attempts stay within their limit.    *)
THEOREM TypeCorrect == Spec => []TypeOK
<1>1. IInv => TypeOK
  BY DEF IInv
<1>. QED
  BY <1>1, Invariance, PTL

(* is_connecting_, which turns connect() away, is set only while an        *)
(* attempt's handler, which clears it, is still to come: with disconnect() *)
(* running beside the handlers, and a new attempt begun while handlers of  *)
(* the sockets of earlier ones have yet to run.                            *)
THEOREM ConnectingStandsForConnect == Spec => []ConnectingIsPending
<1>1. IInv => ConnectingIsPending
  BY DEF IInv
<1>. QED
  BY <1>1, Invariance, PTL

(* A client that is down, has attempts left and was not disconnected has   *)
(* its next attempt coming.                                                *)
THEOREM AttemptAlwaysPending == Spec => []NoDeadEnd
<1>1. IInv => NoDeadEnd
  BY DEF IInv
<1>. QED
  BY <1>1, Invariance, PTL
-----------------------------------------------------------------------------
(* A client at rest: its connects that are left are all orphaned, and what *)
(* they call finds it stopped.                                             *)
LEMMA RestKept ==
  ASSUME TypeOK, AtRest, [Next]_vars
  PROVE  AtRest' \/ Connect
<1>. OpsTyped
  BY DEF TypeOK, OpsTyped
<1>1. live["connect"] = 0 /\ ~reconnect_timer /\ is_permanently_stopped
      /\ io \notin {"retry", "connecting", "opening"}
  BY DEF AtRest
<1>2. CASE HandlerStep
  BY <1>1, <1>2, OperationsKnown DEF HandlerStep, Retry, LoseConnection, SetConnecting, OpenSocket,
     StartHeartbeat, StartRead, AtRest, client, network, OpsTyped
<1>3. CASE ConnectSucceeds \/ ReconnectTimer
  BY <1>1, <1>3 DEF ConnectSucceeds, ReconnectTimer, EndsLive
<1>4. CASE ConnectFails
  <2>1. is_permanently_stopped' = TRUE /\ io' = "idle"
    BY <1>1, <1>4 DEF ConnectFails, TryReconnect
  <2>2. live' = live
    BY <1>1, <1>4 DEF ConnectFails, EndsLive, EndsOrphaned
  <2>. QED
    BY <1>1, <1>4, <2>1, <2>2 DEF ConnectFails, AtRest
<1>5. CASE ReadContinues \/ ReadAborted \/ WriteEnds \/ PingEnds
  <2>1. PICK k \in {"read", "write", "ping"} :
          /\ EndsLive(k) \/ EndsOrphaned(k)
          /\ io' \in {"idle", "read"}
          /\ UNCHANGED <<client, reconnect_timer>>
    BY <1>1, <1>5 DEF ReadContinues, ReadAborted, WriteEnds, PingEnds
  <2>2. live'["connect"] = 0
    BY <1>1, <2>1, EndsResult, OperationsKnown
  <2>. QED
    BY <1>1, <2>1, <2>2 DEF AtRest, client
<1>6. CASE ReadFails \/ WriteFails \/ PingFails
  <2>1. PICK k \in {"read", "write", "ping"} :
          /\ EndsLive(k) \/ EndsOrphaned(k)
          /\ \/ RecordFailure \/ TryTriggerReconnect
             \/ UNCHANGED <<io, is_permanently_stopped>>
          /\ UNCHANGED reconnect_timer
    BY <1>6 DEF ReadFails, WriteFails, PingFails, EndsFailed
  <2>2. live'["connect"] = 0
    BY <1>1, <2>1, EndsResult, OperationsKnown
  <2>3. is_permanently_stopped' /\ io' \notin {"retry", "connecting", "opening"}
    <3>1. CASE RecordFailure \/ TryTriggerReconnect
      BY <1>1, <3>1, RecordFailureResult
    <3>2. CASE UNCHANGED <<io, is_permanently_stopped>>
      BY <1>1, <3>2
    <3>. QED
      BY <2>1, <3>1, <3>2
  <2>. QED
    BY <1>1, <2>1, <2>2, <2>3 DEF AtRest
<1>7. CASE HeartbeatTimer
  <2>1. UNCHANGED <<reconnect_timer, io>>
    BY <1>7 DEF HeartbeatTimer
  <2>2. is_permanently_stopped'
    BY <1>1, <1>7 DEF HeartbeatTimer
  <2>3. \/ live' = live \/ live' = [live EXCEPT !["ping"] = @ + 1]
        \/ live' = [k \in Operations |-> 0]
    BY <1>7 DEF HeartbeatTimer, network
  <2>4. live'["connect"] = 0
    BY <1>1, <2>3, OperationsKnown DEF OpsTyped
  <2>. QED
    BY <1>1, <2>1, <2>2, <2>4 DEF AtRest
<1>8. CASE Write
  BY <1>1, <1>8, OperationsKnown DEF Write, AtRest, client, OpsTyped
<1>9. CASE Disconnect
  BY <1>1, <1>9 DEF Disconnect, AtRest, network
<1>10. CASE OwnerStep
  <2>1. CASE DisconnectClose
    BY <1>1, <2>1, OrphanResult DEF DisconnectClose, CloseSocket, AtRest, client
  <2>2. CASE DisconnectState \/ DisconnectHeartbeat
    BY <1>1, <2>2 DEF DisconnectState, DisconnectHeartbeat, AtRest, client, network
  <2>. QED
    BY <1>10, <2>1, <2>2 DEF OwnerStep
<1>11. CASE TimeoutPasses \/ \E up \in BOOLEAN : Break(up)
  BY <1>1, <1>11 DEF TimeoutPasses, Break, AtRest, client, network
<1>12. CASE UNCHANGED vars
  BY <1>1, <1>12 DEF AtRest, vars, client, network
<1>. QED
  BY <1>2, <1>3, <1>4, <1>5, <1>6, <1>7, <1>8, <1>9, <1>10, <1>11, <1>12 DEF Next, Handler

(* A client at rest stays so until its owner connects it, whatever handler *)
(* still comes and wherever disconnect() has got to on the other thread.   *)
THEOREM StoppedIsQuiet == Spec => StoppedStaysQuiet
<1>1. TypeOK /\ [Next]_vars => [AtRest => AtRest' \/ Connect]_vars
  BY RestKept
<1>2. Spec => []TypeOK
  BY TypeCorrect
<1>. QED
  BY <1>1, <1>2, PTL DEF Spec, StoppedStaysQuiet
=============================================================================
