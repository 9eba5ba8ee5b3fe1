----------------------------- MODULE IpcClient ------------------------------
(***************************************************************************)
(* The connection of the upload client: Lusp_AsioLoopbackIpcClient with    *)
(* its ConnectionMonitor, both timers and the asynchronous operations on   *)
(* its socket.  Messages are SendPath's subject; here a write of a queued  *)
(* message is under way or not.                                            *)
(*                                                                         *)
(* Two threads: io runs the handlers of the io_context, one at a time, and *)
(* the owner's calls disconnect(), as the notification service's           *)
(* destructor does before it stops the io_context.  Nothing orders the     *)
(* two, so disconnect() goes store by store, and a handler stops where one *)
(* of those stores makes a difference.  A timer may fire as soon as it is  *)
(* set, and the only order assumed among handlers is that of AllSurfaced.  *)
(*                                                                         *)
(* Configuration: automatic reconnection and the heartbeat are enabled, as *)
(* by default, and the server's name has one address.                      *)
(***************************************************************************)
EXTENDS Integers

CONSTANTS
  MaxReconnectAttempts,
  HeartbeatMaxFailures,
  Calls,      \* what the owner calls after construction: "connect", "disconnect"
  MaxEvents,  \* bound: connections lost, servers stopped, calls of the owner
  MaxPings    \* bound: pings whose handlers have not run

ASSUME LimitsAssumption == MaxReconnectAttempts \in Nat /\ HeartbeatMaxFailures \in Nat \ {0}
ASSUME EventsAssumption ==
  MaxEvents \in Nat /\ MaxPings \in Nat /\ Calls \subseteq {"connect", "disconnect"}

VARIABLES
  state,                    \* ConnectionMonitor::state_
  is_reconnecting_flag,
  is_connecting,
  is_permanently_stopped,
  current_reconnect_attempts,
  socket,                   \* "closed"; open: "connecting" (or failed to), "up", "broken"
  live,                     \* asynchronous operations on the socket, by kind
  orphaned,                 \* those whose socket was closed before their handlers ran
  reconnect_timer,          \* set
  heartbeat_timer,          \* set
  heartbeat_enabled,
  heartbeat_failure_count,
  silent,                   \* heartbeatTimeoutMs has passed since last_pong_time_ms_
  io,                       \* "idle", or what the handler under way does next
  owner,                    \* "idle", or what disconnect() does next
  stop_asked,               \* ghost: the owner's last call is a disconnect()
  server_up,                \* environment: the server accepts connections
  events                    \* bound

monitor   == <<state, is_reconnecting_flag>>
client    == <<is_connecting, is_permanently_stopped, current_reconnect_attempts>>
network   == <<socket, live, orphaned>>
heartbeat == <<heartbeat_timer, heartbeat_enabled, heartbeat_failure_count, silent>>
calls     == <<owner, stop_asked>>
world     == <<server_up, events>>
vars      == <<monitor, client, network, reconnect_timer, heartbeat, io, calls, world>>

Operations   == {"connect", "read", "write", "ping"}
is_connected == socket # "closed"

(* Closing or destroying the socket takes back no completion that was      *)
(* queued: the handlers come with operation_aborted, or with the success   *)
(* or the error the operation had reached.                                 *)
Orphan ==
  /\ live' = [k \in Operations |-> 0]
  /\ orphaned' = [k \in Operations |-> orphaned[k] + live[k]]

CloseSocket == socket' = "closed" /\ Orphan

(* Completions leave the port in the order they entered it: those of a     *)
(* closed socket are there when the next one is opened, so their handlers  *)
(* run before that one's connect can end well.                             *)
AllSurfaced == \A k \in Operations : orphaned[k] = 0

(* The handler of an operation of kind k is called. *)
EndsLive(k)     == live[k] > 0 /\ live' = [live EXCEPT ![k] = @ - 1] /\ UNCHANGED orphaned
EndsOrphaned(k) == orphaned[k] > 0 /\ orphaned' = [orphaned EXCEPT ![k] = @ - 1] /\ UNCHANGED live

(* Not connected, or no longer: what is read and written there fails. *)
EndsFailed(k) ==
  \/ socket \in {"connecting", "broken"} /\ EndsLive(k)
  \/ EndsOrphaned(k)

-----------------------------------------------------------------------------
(* The functions the handlers call.                                        *)

(* Mutants: whether it was stopped is not asked; one attempt too many. *)
TryReconnect_IgnoresStop ==
  IF current_reconnect_attempts >= MaxReconnectAttempts
  THEN is_permanently_stopped' = TRUE /\ io' = "idle"
  ELSE io' = "retry" /\ UNCHANGED is_permanently_stopped

TryReconnect_OneMore ==
  IF is_permanently_stopped \/ current_reconnect_attempts > MaxReconnectAttempts
  THEN is_permanently_stopped' = TRUE /\ io' = "idle"
  ELSE io' = "retry" /\ UNCHANGED is_permanently_stopped

(* try_reconnect() up to its tests; Retry is the rest. *)
TryReconnect ==
  IF is_permanently_stopped \/ current_reconnect_attempts >= MaxReconnectAttempts
  THEN is_permanently_stopped' = TRUE /\ io' = "idle"
  ELSE io' = "retry" /\ UNCHANGED is_permanently_stopped

(* Mutant: the timer is set the first time only. *)
Retry_NoTimer ==
  /\ io = "retry" /\ io' = "idle"
  /\ current_reconnect_attempts' = current_reconnect_attempts + 1
  /\ is_connecting' = FALSE
  /\ CloseSocket
  /\ reconnect_timer' = (current_reconnect_attempts = 0)
  /\ UNCHANGED <<monitor, is_permanently_stopped, heartbeat, calls, world>>

Retry ==
  /\ io = "retry" /\ io' = "idle"
  /\ current_reconnect_attempts' = current_reconnect_attempts + 1
  /\ is_connecting' = FALSE
  /\ CloseSocket
  /\ reconnect_timer' = TRUE
  /\ UNCHANGED <<monitor, is_permanently_stopped, heartbeat, calls, world>>

(* ConnectionMonitor::try_trigger_reconnect(). *)
TryTriggerReconnect ==
  /\ is_reconnecting_flag' = TRUE
  /\ IF is_reconnecting_flag
     THEN io' = "idle" /\ UNCHANGED is_permanently_stopped
     ELSE TryReconnect

(* ConnectionMonitor::record_send_failure() of an error that calls for a   *)
(* reconnection, up to what it finds in state_.                            *)
RecordFailure ==
  IF state = "Connected"
  THEN io' = "lost" /\ UNCHANGED <<is_reconnecting_flag, is_permanently_stopped>>
  ELSE TryTriggerReconnect

(* set_state(Reconnecting) sets the flag that try_trigger_reconnect() then *)
(* finds set.                                                              *)
LoseConnection ==
  /\ io = "lost" /\ io' = "idle"
  /\ state' = "Reconnecting" /\ is_reconnecting_flag' = TRUE
  /\ UNCHANGED <<client, network, reconnect_timer, heartbeat, calls, world>>

(* connect(): its test and the two flags, the state, async_connect().      *)
BeginConnect ==
  IF is_connecting
  THEN io' = "idle" /\ UNCHANGED <<is_connecting, is_permanently_stopped>>
  ELSE io' = "connecting" /\ is_connecting' = TRUE /\ is_permanently_stopped' = FALSE

SetConnecting ==
  /\ io = "connecting" /\ io' = "opening"
  /\ state' = "Connecting"
  /\ UNCHANGED <<is_reconnecting_flag, client, network, reconnect_timer, heartbeat, calls, world>>

(* async_connect() closes the socket it is given before it opens it. *)
OpenSocket ==
  /\ io = "opening" /\ io' = "idle"
  /\ socket' = "connecting"
  /\ live' = [k \in Operations |-> IF k = "connect" THEN 1 ELSE 0]
  /\ orphaned' = [k \in Operations |-> orphaned[k] + live[k]]
  /\ UNCHANGED <<monitor, client, reconnect_timer, heartbeat, calls, world>>

-----------------------------------------------------------------------------
(* handle_connect_result(): the state, the heartbeat, the first read.      *)
ConnectSucceeds ==
  /\ io = "idle" /\ io' = "beat"
  /\ server_up /\ AllSurfaced /\ EndsLive("connect")
  /\ is_connecting' = FALSE /\ current_reconnect_attempts' = 0
  /\ state' = "Connected" /\ is_reconnecting_flag' = FALSE
  /\ socket' = "up"
  /\ UNCHANGED <<is_permanently_stopped, reconnect_timer, heartbeat, calls, world>>

StartHeartbeat ==
  /\ io = "beat" /\ io' = "read"
  /\ heartbeat_enabled' = TRUE /\ heartbeat_timer' = TRUE /\ silent' = FALSE
  /\ UNCHANGED <<monitor, client, network, reconnect_timer, heartbeat_failure_count, calls, world>>

(* do_read(). *)
StartRead ==
  /\ io = "read" /\ io' = "idle"
  /\ live' = IF is_connected THEN [live EXCEPT !["read"] = @ + 1] ELSE live
  /\ UNCHANGED <<monitor, client, socket, orphaned, reconnect_timer, heartbeat, calls, world>>

(* Mutant: is_connecting_ stays set. *)
ConnectFails_StillConnecting ==
  /\ io = "idle"
  /\ EndsOrphaned("connect") \/ (~server_up /\ EndsLive("connect"))
  /\ state' = "Disconnected"
  /\ TryReconnect
  /\ UNCHANGED <<is_reconnecting_flag, is_connecting, current_reconnect_attempts, socket,
                 reconnect_timer, heartbeat, calls, world>>

ConnectFails ==
  /\ io = "idle"
  /\ EndsOrphaned("connect") \/ (~server_up /\ EndsLive("connect"))
  /\ is_connecting' = FALSE
  /\ state' = "Disconnected"
  /\ TryReconnect
  /\ UNCHANGED <<is_reconnecting_flag, current_reconnect_attempts, socket,
                 reconnect_timer, heartbeat, calls, world>>

(* The reconnect timer's handler. *)
ReconnectTimer ==
  /\ io = "idle" /\ reconnect_timer
  /\ reconnect_timer' = FALSE
  /\ BeginConnect
  /\ UNCHANGED <<monitor, current_reconnect_attempts, network, heartbeat, calls, world>>

(* handle_read_result(): data, after which it reads on, an error that      *)
(* calls for a reconnection, or operation_aborted, which does not.  No     *)
(* handler passes a PONG to handle_heartbeat_pong().                       *)
ReadContinues ==
  /\ io = "idle" /\ io' = "read"
  /\ EndsOrphaned("read") \/ (socket = "up" /\ EndsLive("read"))
  /\ UNCHANGED <<monitor, client, socket, reconnect_timer, heartbeat, calls, world>>

ReadFails ==
  /\ io = "idle" /\ EndsFailed("read")
  /\ RecordFailure
  /\ UNCHANGED <<state, is_connecting, current_reconnect_attempts, socket, reconnect_timer,
                 heartbeat, calls, world>>

ReadAborted ==
  /\ io = "idle" /\ EndsOrphaned("read")
  /\ UNCHANGED <<monitor, client, socket, reconnect_timer, heartbeat, io, calls, world>>

(* do_send_from_queue() finds a message: it only asks that the socket is   *)
(* open, which it is while connecting, and that no write is under way.     *)
Write ==
  /\ live["write"] + orphaned["write"] = 0 /\ is_connected
  /\ live' = [live EXCEPT !["write"] = 1]
  /\ UNCHANGED <<monitor, client, socket, orphaned, reconnect_timer, heartbeat, io, calls, world>>

(* handle_send_result(): written, or aborted, an application error that    *)
(* does not call for a reconnection; it goes on with do_send_from_queue(). *)
WriteEnds ==
  /\ io = "idle"
  /\ EndsOrphaned("write") \/ (socket = "up" /\ EndsLive("write"))
  /\ UNCHANGED <<monitor, client, socket, reconnect_timer, heartbeat, io, calls, world>>

WriteFails ==
  /\ io = "idle" /\ EndsFailed("write")
  /\ RecordFailure
  /\ UNCHANGED <<state, is_connecting, current_reconnect_attempts, socket, reconnect_timer,
                 heartbeat, calls, world>>

(* The heartbeat timer's handler: a PING, then the check of the time since *)
(* the last PONG, which may call disconnect(), then the timer again.       *)
HeartbeatTimer ==
  LET failed   == heartbeat_failure_count + 1
      pinged   == [live EXCEPT !["ping"] = @ + 1]
      timedout == silent /\ failed >= HeartbeatMaxFailures
  IN
  /\ io = "idle" /\ heartbeat_timer
  /\ \/ /\ ~heartbeat_enabled \/ ~is_connected
        /\ heartbeat_timer' = FALSE
        /\ UNCHANGED <<monitor, is_permanently_stopped, network, heartbeat_enabled,
                       heartbeat_failure_count>>
     \/ /\ heartbeat_enabled /\ is_connected
        /\ live["ping"] + orphaned["ping"] < MaxPings
        /\ heartbeat_failure_count' =
             IF silent /\ failed <= HeartbeatMaxFailures THEN failed ELSE heartbeat_failure_count
        /\ \/ /\ timedout
              /\ is_permanently_stopped' = TRUE
              /\ state' = "Disconnected" /\ is_reconnecting_flag' = TRUE
              /\ heartbeat_enabled' = FALSE
              /\ socket' = "closed"
              /\ live' = [k \in Operations |-> 0]
              /\ orphaned' = [k \in Operations |-> orphaned[k] + pinged[k]]
           \/ /\ ~timedout
              /\ live' = pinged
              /\ UNCHANGED <<monitor, is_permanently_stopped, heartbeat_enabled, socket, orphaned>>
        /\ UNCHANGED heartbeat_timer
  /\ UNCHANGED <<is_connecting, current_reconnect_attempts, reconnect_timer, silent, io, calls, world>>

PingEnds ==
  /\ io = "idle"
  /\ EndsOrphaned("ping") \/ (socket = "up" /\ EndsLive("ping"))
  /\ UNCHANGED <<monitor, client, socket, reconnect_timer, heartbeat, io, calls, world>>

PingFails ==
  LET failed == heartbeat_failure_count + 1 IN
  /\ io = "idle" /\ EndsFailed("ping")
  /\ heartbeat_failure_count' =
       IF failed <= HeartbeatMaxFailures THEN failed ELSE heartbeat_failure_count
  /\ IF failed >= HeartbeatMaxFailures
     THEN TryTriggerReconnect
     ELSE UNCHANGED <<io, is_reconnecting_flag, is_permanently_stopped>>
  /\ UNCHANGED <<state, is_connecting, current_reconnect_attempts, socket, reconnect_timer,
                 heartbeat_timer, heartbeat_enabled, silent, calls, world>>

-----------------------------------------------------------------------------
(* The owner's connect() after construction, on the io thread: nothing in  *)
(* it is synchronised with the handlers.                                   *)
Connect ==
  /\ "connect" \in Calls /\ io = "idle" /\ owner = "idle"
  /\ events < MaxEvents /\ events' = events + 1
  /\ stop_asked' = FALSE
  /\ BeginConnect
  /\ UNCHANGED <<monitor, current_reconnect_attempts, network, reconnect_timer, heartbeat,
                 owner, server_up>>

(* disconnect() on the owner's thread, store by store: the stop flag, the  *)
(* state, the heartbeat and the socket.  reconnect_timer_ keeps running.   *)
Disconnect ==
  /\ "disconnect" \in Calls /\ owner = "idle"
  /\ events < MaxEvents /\ events' = events + 1
  /\ owner' = "state" /\ stop_asked' = TRUE
  /\ is_permanently_stopped' = TRUE
  /\ UNCHANGED <<monitor, is_connecting, current_reconnect_attempts, network, reconnect_timer,
                 heartbeat, io, server_up>>

DisconnectState ==
  /\ owner = "state" /\ owner' = "heartbeat"
  /\ state' = "Disconnected"
  /\ UNCHANGED <<is_reconnecting_flag, client, network, reconnect_timer, heartbeat, io,
                 stop_asked, world>>

(* There is nothing to cancel while the timer's handler is due or runs,    *)
(* which sets the timer again.                                             *)
DisconnectHeartbeat ==
  /\ owner = "heartbeat" /\ owner' = "close"
  /\ heartbeat_enabled' = FALSE
  /\ heartbeat_timer' \in {FALSE, heartbeat_timer}
  /\ UNCHANGED <<monitor, client, network, reconnect_timer, heartbeat_failure_count, silent, io,
                 stop_asked, world>>

DisconnectClose ==
  /\ owner = "close" /\ owner' = "idle"
  /\ CloseSocket
  /\ UNCHANGED <<monitor, client, reconnect_timer, heartbeat, io, stop_asked, world>>

(* The environment: the server stops or starts, a connection breaks, the   *)
(* heartbeat timeout passes.                                               *)
Break(up) ==
  /\ events < MaxEvents /\ events' = events + 1
  /\ server_up' = up
  /\ socket' = IF socket = "up" THEN "broken" ELSE socket
  /\ UNCHANGED <<monitor, client, live, orphaned, reconnect_timer, heartbeat, io, calls>>

TimeoutPasses ==
  /\ heartbeat_enabled /\ ~silent
  /\ silent' = TRUE
  /\ UNCHANGED <<monitor, client, network, reconnect_timer, heartbeat_timer, heartbeat_enabled,
                 heartbeat_failure_count, io, calls, world>>

-----------------------------------------------------------------------------
(* The notification service's constructor has called connect(), before it  *)
(* starts the io thread.                                                   *)
Init ==
  /\ state = "Connecting" /\ is_reconnecting_flag = FALSE
  /\ is_connecting = TRUE /\ is_permanently_stopped = FALSE
  /\ current_reconnect_attempts = 0
  /\ socket = "connecting"
  /\ live = [k \in Operations |-> IF k = "connect" THEN 1 ELSE 0]
  /\ orphaned = [k \in Operations |-> 0]
  /\ reconnect_timer = FALSE
  /\ heartbeat_timer = FALSE /\ heartbeat_enabled = FALSE
  /\ heartbeat_failure_count = 0 /\ silent = FALSE
  /\ io = "idle" /\ owner = "idle" /\ stop_asked = FALSE
  /\ server_up \in BOOLEAN /\ events = 0

(* A handler begins, or the one under way goes on. *)
Handler ==
  \/ ConnectSucceeds \/ ConnectFails \/ ReconnectTimer
  \/ ReadContinues \/ ReadFails \/ ReadAborted
  \/ WriteEnds \/ WriteFails
  \/ HeartbeatTimer \/ PingEnds \/ PingFails

HandlerStep ==
  \/ Retry \/ LoseConnection \/ SetConnecting \/ OpenSocket
  \/ StartHeartbeat \/ StartRead

OwnerStep == DisconnectState \/ DisconnectHeartbeat \/ DisconnectClose

Next ==
  \/ Handler \/ HandlerStep \/ Write
  \/ Connect \/ Disconnect \/ OwnerStep
  \/ TimeoutPasses \/ \E up \in BOOLEAN : Break(up)

(* The io_context runs every handler that stays due, both threads go on    *)
(* with what they began, and the clock advances.                           *)
Fairness ==
  /\ WF_vars(ConnectSucceeds) /\ WF_vars(ConnectFails) /\ WF_vars(ReconnectTimer)
  /\ WF_vars(ReadFails \/ ReadAborted) /\ WF_vars(WriteEnds \/ WriteFails)
  /\ WF_vars(HeartbeatTimer) /\ WF_vars(PingEnds \/ PingFails)
  /\ WF_vars(HandlerStep) /\ WF_vars(OwnerStep)
  /\ WF_vars(TimeoutPasses)

Spec == Init /\ [][Next]_vars /\ Fairness
-----------------------------------------------------------------------------
(* Every variable keeps its type; the attempts stay within their limit.    *)
TypeOK ==
  /\ state \in {"Disconnected", "Connecting", "Connected", "Reconnecting"}
  /\ is_reconnecting_flag \in BOOLEAN
  /\ is_connecting \in BOOLEAN /\ is_permanently_stopped \in BOOLEAN
  /\ current_reconnect_attempts \in 0 .. MaxReconnectAttempts
  /\ socket \in {"closed", "connecting", "up", "broken"}
  /\ live \in [Operations -> Nat] /\ orphaned \in [Operations -> Nat]
  /\ reconnect_timer \in BOOLEAN
  /\ heartbeat_timer \in BOOLEAN /\ heartbeat_enabled \in BOOLEAN
  /\ heartbeat_failure_count \in 0 .. HeartbeatMaxFailures /\ silent \in BOOLEAN
  /\ io \in {"idle", "lost", "retry", "connecting", "opening", "beat", "read"}
  /\ owner \in {"idle", "state", "heartbeat", "close"} /\ stop_asked \in BOOLEAN
  /\ server_up \in BOOLEAN /\ events \in 0 .. MaxEvents

(* A handler of connect() is due, or the io thread is on its way to one.   *)
ConnectDue == live["connect"] + orphaned["connect"] > 0 \/ io \in {"connecting", "opening"}

(* is_connecting_ makes connect() return at once, so it must never outlive *)
(* the operation it stands for: whichever socket was closed or replaced    *)
(* under it, and whichever attempt's handler comes first, one that clears  *)
(* it is still to come.                                                    *)
ConnectingIsPending == is_connecting => ConnectDue

(* While it is not connected, has not given up and was not disconnected by *)
(* its owner, the client has its next attempt coming: whatever failed, and *)
(* in whatever order the handlers left over from closed sockets run.       *)
NoDeadEnd ==
  state \in {"Disconnected", "Connecting"} /\ ~is_permanently_stopped /\ ~stop_asked
    => reconnect_timer \/ io = "retry" \/ ConnectDue

(* The client connects or uses up its attempts, however the server comes   *)
(* and goes and whatever is sent meanwhile, unless it is disconnected.     *)
ConnectsOrGivesUp ==
  state \in {"Disconnected", "Connecting"}
    ~> state = "Connected" \/ is_permanently_stopped \/ stop_asked

(* The client is stopped and nothing under way began before: no reconnect  *)
(* timer is set, no connect runs, and the io thread is neither in          *)
(* connect() nor past the test of the stop flag in try_reconnect().        *)
AtRest ==
  /\ is_permanently_stopped /\ ~reconnect_timer
  /\ live["connect"] = 0 /\ io \notin {"retry", "connecting", "opening"}

(* A client at rest stays so until the owner connects it: no handler that  *)
(* still comes, of an operation on a closed socket, of a timer, of a write *)
(* or a ping that fails, begins another attempt, wherever the owner's      *)
(* disconnect() has got to meanwhile.                                      *)
StoppedStaysQuiet == [][AtRest => AtRest' \/ Connect]_vars

-----------------------------------------------------------------------------
(* What a document says and the code does not do.                          *)

(* MessageQueue-Architecture.md:16: a network error triggers reconnection: *)
(* a connection that was lost is followed by an attempt.                   *)
AutoReconnects ==
  state = "Reconnecting" ~> reconnect_timer \/ socket = "connecting"
=============================================================================
