--------------------------- MODULE MqttConnection ---------------------------
(***************************************************************************)
(* The life of the MQTT connection: the loop of uiot_mqtt_yield, the       *)
(* keep-alive pings, the automatic reconnection with its back-off, and     *)
(* connecting and disconnecting by the application.                        *)
(*                                                                         *)
(* Time is discrete: a timer is the number of ticks left, -1 once it has   *)
(* expired (HAL_Timer_Expired is strict: end_time < now).  Time passes     *)
(* where the code waits: in a read, in the reconnect delay, and in the     *)
(* application between two calls of uiot_mqtt_yield.                       *)
(***************************************************************************)
EXTENDS Integers

CONSTANTS RequestedKeepAlive,  \* MQTTInitParams.keep_alive_interval, 32 bits
          KeepAliveRange,      \* 2^16: MQTTConnectParams holds 16 bits of it
          MQTT_PING_RETRY_TIMES,
          PingWait,            \* the 5 seconds a PINGRESP may take at most
          MIN_RECONNECT_WAIT_INTERVAL,
          MAX_RECONNECT_WAIT_INTERVAL,
          ENABLE_INFINITE_RECONNECT,
          AutoConnect,         \* options.auto_connect_enable
          YieldTimeout,        \* timeout_ms of uiot_mqtt_yield
          RemainWait,          \* UIOT_MQTT_MAX_REMAIN_WAIT_MS: for a packet begun
          MaxPause,            \* longest time between two yields
          AppThread            \* does another thread disconnect?

ASSUME ConnectionAssumption ==
    /\ RequestedKeepAlive \in Nat /\ KeepAliveRange \in Nat \ {0}
    /\ MQTT_PING_RETRY_TIMES \in Nat \ {0} /\ PingWait \in Nat
    /\ MIN_RECONNECT_WAIT_INTERVAL \in Nat \ {0}
    /\ MAX_RECONNECT_WAIT_INTERVAL \in Nat
    /\ MIN_RECONNECT_WAIT_INTERVAL <= MAX_RECONNECT_WAIT_INTERVAL
    /\ ENABLE_INFINITE_RECONNECT \in BOOLEAN
    /\ AutoConnect \in BOOLEAN /\ AppThread \in BOOLEAN
    /\ YieldTimeout \in Nat \ {0} /\ RemainWait \in Nat /\ MaxPause \in Nat

Lesser(a, b) == IF a <= b THEN a ELSE b

\* The assignment to the 16-bit field of MQTTConnectParams.
KeepAlive == RequestedKeepAlive % KeepAliveRange
\* Min(5, keep_alive_interval / 2)
PingTimeout == Lesser(PingWait, KeepAlive \div 2)

VARIABLES
    isConnected,   \* is_connected
    manual,        \* was_manually_disconnected
    outstanding,   \* is_ping_outstanding
    pingLeft,      \* ping_timer
    interval,      \* current_reconnect_wait_interval
    delayLeft,     \* reconnect_delay_timer
    ypc,           \* where the yield thread is, "out" = not in uiot_mqtt_yield
    yieldLeft,     \* the timer of uiot_mqtt_yield
    apc,           \* where the application's uiot_mqtt_disconnect is
    wish,          \* the application disconnected and did not connect again
    told,          \* what events and calls told the application last
    silence,       \* time since the last byte from the broker
    unanswered,    \* time since the last packet that shows the link is good
    gap,           \* time since the last byte or keep-alive check
    sinceTry       \* time since the connection was lost or not regained

connVars == <<isConnected, manual, outstanding, pingLeft>>
backVars == <<interval, delayLeft>>
appVars  == <<apc, wish, told>>
timeVars == <<silence, unanswered, gap, sinceTry>>
vars == <<connVars, backVars, ypc, yieldLeft, appVars, timeVars>>

YieldPc == {"out", "loop", "connect", "resubscribe", "read", "alive",
            "disconnect", "event"}

\* The longest time without a keep-alive check, and without a byte.
MaxGap == MaxPause + YieldTimeout + RemainWait
MaxSilence == KeepAlive + MQTT_PING_RETRY_TIMES * (PingTimeout + MaxGap) + MaxGap
\* The shortest time in which every ping can go unanswered.
PingPatience == MQTT_PING_RETRY_TIMES * (PingTimeout + 1)

\* The types of the variables: the pings outstanding within MQTT_PING_RETRY_TIMES,
\* the timers and the wait interval within their ranges.
TypeOK ==
    /\ isConnected \in BOOLEAN /\ manual \in BOOLEAN
    /\ outstanding \in 0 .. MQTT_PING_RETRY_TIMES
    /\ pingLeft \in -1 .. KeepAlive
    /\ interval \in 0 .. 2 * MAX_RECONNECT_WAIT_INTERVAL
    /\ ENABLE_INFINITE_RECONNECT => interval <= MAX_RECONNECT_WAIT_INTERVAL
    /\ delayLeft \in -1 .. MAX_RECONNECT_WAIT_INTERVAL
    /\ ypc \in YieldPc
    /\ yieldLeft \in -1 .. YieldTimeout
    /\ apc \in {"idle", "close", "flag"}
    /\ wish \in BOOLEAN /\ told \in {"up", "down"}
    /\ silence \in Nat /\ unanswered \in Nat /\ gap \in Nat /\ sinceTry \in Nat

\* Connected, as IOT_MQTT_Construct returns the client: the reconnect timer
\* was initialised and never started, the wait interval is zero.
Init ==
    /\ isConnected = TRUE /\ manual = FALSE
    /\ outstanding = 0 /\ pingLeft = KeepAlive
    /\ interval = 0 /\ delayLeft = -1
    /\ ypc = "out" /\ yieldLeft = -1
    /\ apc = "idle" /\ wish = FALSE /\ told = "up"
    /\ silence = 0 /\ unanswered = 0 /\ gap = 0 /\ sinceTry = 0

-----------------------------------------------------------------------------
(* Time *)

Later(left, d) == IF left - d >= 0 THEN left - d ELSE -1

\* d ticks pass in the timers of the loop.  sinceTry and unanswered saturate:
\* they are compared with the wait intervals and with KeepAlive and PingPatience.
Pass(d) ==
    /\ delayLeft' = Later(delayLeft, d)
    /\ sinceTry' = Lesser(sinceTry + d, MAX_RECONNECT_WAIT_INTERVAL + 1)

Unanswered(d) ==
    /\ pingLeft' = Later(pingLeft, d)
    /\ unanswered' = Lesser(unanswered + d, KeepAlive + PingPatience)

\* d ticks pass without a byte from the broker.
Quiet(d) ==
    /\ Unanswered(d)
    /\ silence' = IF isConnected THEN silence + d ELSE 0
    /\ gap' = IF isConnected THEN gap + d ELSE 0

\* A byte from the broker has just been read.
Heard == silence' = 0 /\ gap' = 0

\* What a read may take: network_stack.read waits for the rest of the yield
\* timer, 1 ms at least.
ReadTime == 0 .. (IF yieldLeft > 1 THEN yieldLeft ELSE 1)
PacketTime == 0 .. (IF yieldLeft > 1 THEN yieldLeft ELSE 1) + RemainWait

-----------------------------------------------------------------------------
(* uiot_mqtt_yield *)

\* Mutant: no check that the client was disconnected by hand.
YieldEnterMutant(d) ==
    /\ ypc = "out"
    /\ AppThread \/ apc = "idle"
    /\ Pass(d) /\ Quiet(d)
    /\ IF ~isConnected /\ ~AutoConnect
         THEN UNCHANGED <<ypc, yieldLeft>>
         ELSE ypc' = "loop" /\ yieldLeft' = YieldTimeout
    /\ UNCHANGED <<isConnected, manual, outstanding, interval, appVars>>

\* The application calls uiot_mqtt_yield d ticks after its last call.  A client
\* that was disconnected by hand, or that may not reconnect, returns at once.
YieldEnter(d) ==
    /\ ypc = "out"
    /\ AppThread \/ apc = "idle"
    /\ Pass(d) /\ Quiet(d)
    /\ IF ~isConnected /\ (manual \/ ~AutoConnect)
         THEN UNCHANGED <<ypc, yieldLeft>>
         ELSE ypc' = "loop" /\ yieldLeft' = YieldTimeout
    /\ UNCHANGED <<isConnected, manual, outstanding, interval, appVars>>

\* while (!has_expired(&timer))
LoopExit ==
    /\ ypc = "loop" /\ yieldLeft < 0
    /\ ypc' = "out"
    /\ UNCHANGED <<connVars, backVars, yieldLeft, appVars, timeVars>>

\* One more pass over the loop of a connected client.
LoopRead ==
    /\ ypc = "loop" /\ yieldLeft >= 0 /\ isConnected
    /\ ypc' = "read"
    /\ UNCHANGED <<connVars, backVars, yieldLeft, appVars, timeVars>>

\* Mutant: giving up starts the back-off afresh.
GiveUpMutant ==
    /\ ypc = "loop" /\ yieldLeft >= 0 /\ ~isConnected
    /\ interval > MAX_RECONNECT_WAIT_INTERVAL
    /\ interval' = MIN_RECONNECT_WAIT_INTERVAL
    /\ delayLeft' = MIN_RECONNECT_WAIT_INTERVAL
    /\ ypc' = "out"
    /\ UNCHANGED <<connVars, yieldLeft, appVars, timeVars>>

\* ERR_MQTT_RECONNECT_TIMEOUT: the wait interval outgrew its maximum.
GiveUp ==
    /\ ypc = "loop" /\ yieldLeft >= 0 /\ ~isConnected
    /\ interval > MAX_RECONNECT_WAIT_INTERVAL
    /\ ypc' = "out"
    /\ UNCHANGED <<connVars, backVars, yieldLeft, appVars, timeVars>>

\* _handle_reconnect: the delay has not expired; the loop spins for d ticks.
WaitReconnect(d) ==
    /\ ypc = "loop" /\ yieldLeft >= 0 /\ ~isConnected
    /\ interval <= MAX_RECONNECT_WAIT_INTERVAL
    /\ delayLeft >= 0
    /\ Pass(d) /\ Quiet(d)
    /\ yieldLeft' = Later(yieldLeft, d)
    /\ UNCHANGED <<isConnected, manual, outstanding, interval, ypc, appVars>>

TryReconnect ==
    /\ ypc = "loop" /\ yieldLeft >= 0 /\ ~isConnected
    /\ interval <= MAX_RECONNECT_WAIT_INTERVAL
    /\ delayLeft < 0
    /\ ypc' = "connect"
    /\ UNCHANGED <<connVars, backVars, yieldLeft, appVars, timeVars>>

-----------------------------------------------------------------------------
(* Connecting, reconnecting *)

\* What _mqtt_connect sets once the broker has accepted.
Connected ==
    /\ isConnected' = TRUE /\ manual' = FALSE
    /\ outstanding' = 0 /\ pingLeft' = KeepAlive
    /\ Heard /\ unanswered' = 0

ConnectOk ==
    /\ ypc = "connect"
    /\ Connected
    /\ ypc' = "resubscribe"
    /\ UNCHANGED <<backVars, yieldLeft, appVars, sinceTry>>

\* Mutant: no maximum.
NextIntervalMutant(i) == 2 * i

\* The tail of _handle_reconnect after an attempt that failed: double the wait
\* interval up to its maximum, or past it and start no timer.
NextInterval(i) ==
    IF 2 * i > MAX_RECONNECT_WAIT_INTERVAL /\ ENABLE_INFINITE_RECONNECT
      THEN MAX_RECONNECT_WAIT_INTERVAL ELSE 2 * i

BackOff ==
    /\ interval' = NextInterval(interval)
    /\ delayLeft' = IF interval' > MAX_RECONNECT_WAIT_INTERVAL
                      THEN delayLeft ELSE interval'
    /\ sinceTry' = 0
    /\ ypc' = "loop"

\* No network, no CONNACK in time, or a CONNACK that refuses.
ConnectFail ==
    /\ ypc = "connect"
    /\ BackOff
    /\ UNCHANGED <<connVars, yieldLeft, appVars, silence, unanswered, gap>>

\* Every topic was subscribed again: MQTT_RECONNECTED and the RECONNECT event.
ResubscribeOk ==
    /\ ypc = "resubscribe"
    /\ told' = "up"
    /\ ypc' = "loop"
    /\ UNCHANGED <<connVars, backVars, yieldLeft, apc, wish, timeVars>>

\* uiot_mqtt_resubscribe failed: to _handle_reconnect the attempt failed, the
\* connection stays up, and no event is raised.
ResubscribeFail ==
    /\ ypc = "resubscribe"
    /\ BackOff
    /\ UNCHANGED <<connVars, yieldLeft, appVars, silence, unanswered, gap>>

-----------------------------------------------------------------------------
(* Reading *)

\* ERR_MQTT_NOTHING_TO_READ
NothingToRead(d) ==
    /\ ypc = "read"
    /\ Pass(d) /\ Quiet(d)
    /\ yieldLeft' = Later(yieldLeft, d)
    /\ ypc' = "alive"
    /\ UNCHANGED <<isConnected, manual, outstanding, interval, appVars>>

\* Where uiot_mqtt_yield goes on once cycle_for_read has a packet handled:
\* to the keep-alive check, or, the handler having failed, to the next pass
\* (FAILURE_RET) or to its return (any other error).
Handled == {"alive", "loop", "out"}

\* PUBACK, SUBACK, UNSUBACK or PINGRESP: _handle_pingresp_packet.
ReadAck(d) ==
    /\ ypc = "read" /\ isConnected
    /\ Pass(d) /\ Heard
    /\ yieldLeft' = Later(yieldLeft, d)
    /\ outstanding' = 0 /\ unanswered' = 0
    /\ pingLeft' = KeepAlive
    /\ ypc' \in Handled
    /\ UNCHANGED <<isConnected, manual, interval, appVars>>

\* PUBLISH: "we still need to send PING request".
ReadPublish(d) ==
    /\ ypc = "read" /\ isConnected
    /\ Pass(d) /\ Heard
    /\ yieldLeft' = Later(yieldLeft, d)
    /\ outstanding' = 0 /\ unanswered' = 0
    /\ pingLeft' = Later(pingLeft, d)
    /\ ypc' \in Handled
    /\ UNCHANGED <<isConnected, manual, interval, appVars>>

\* Bytes that are no packet cycle_for_read handles (one too long for read_buf,
\* an unknown type, a bad length): FAILURE_RET or another error; a CONNACK,
\* PUBREC, PUBREL or PUBCOMP, none of which counts as the answer to a ping.
ReadOther(d) ==
    /\ ypc = "read" /\ isConnected
    /\ Pass(d) /\ Heard
    /\ yieldLeft' = Later(yieldLeft, d)
    /\ Unanswered(d)
    /\ ypc' \in Handled
    /\ UNCHANGED <<isConnected, manual, outstanding, interval, appVars>>

\* ERR_TCP_READ_FAILED and the like.
ReadFailed(d) ==
    /\ ypc = "read"
    /\ Pass(d) /\ Quiet(d)
    /\ yieldLeft' = Later(yieldLeft, d)
    /\ ypc' = "disconnect"
    /\ UNCHANGED <<isConnected, manual, outstanding, interval, appVars>>

-----------------------------------------------------------------------------
(* _mqtt_keep_alive *)

\* Must the connection be checked now?
PingDue == KeepAlive # 0 /\ pingLeft < 0

NoPingDue ==
    /\ ypc = "alive" /\ ~PingDue
    /\ gap' = 0
    /\ ypc' = "loop"
    /\ UNCHANGED <<connVars, backVars, yieldLeft, appVars, silence, unanswered, sinceTry>>

\* The pings have all gone unanswered.
PingUnanswered ==
    /\ ypc = "alive" /\ PingDue
    /\ outstanding >= MQTT_PING_RETRY_TIMES
    /\ ypc' = "disconnect"
    /\ UNCHANGED <<connVars, backVars, yieldLeft, appVars, timeVars>>

\* Mutant: is_ping_outstanding is a flag, set once.
PingOkMutant ==
    /\ ypc = "alive" /\ PingDue
    /\ outstanding < MQTT_PING_RETRY_TIMES
    /\ outstanding' = 1
    /\ pingLeft' = PingTimeout
    /\ gap' = 0
    /\ ypc' = "loop"
    /\ UNCHANGED <<isConnected, manual, backVars, yieldLeft, appVars, silence, unanswered, sinceTry>>

\* Mutant: ping_timer is not started again.
PingOkNoTimer ==
    /\ ypc = "alive" /\ PingDue
    /\ outstanding < MQTT_PING_RETRY_TIMES
    /\ outstanding' = outstanding + 1
    /\ gap' = 0
    /\ ypc' = "loop"
    /\ UNCHANGED <<isConnected, manual, pingLeft, backVars, yieldLeft, appVars, silence,
                   unanswered, sinceTry>>

\* A PINGREQ is sent and PingTimeout allowed for the answer.
PingOk ==
    /\ ypc = "alive" /\ PingDue
    /\ outstanding < MQTT_PING_RETRY_TIMES
    /\ outstanding' = outstanding + 1
    /\ pingLeft' = PingTimeout
    /\ gap' = 0
    /\ ypc' = "loop"
    /\ UNCHANGED <<isConnected, manual, backVars, yieldLeft, appVars, silence, unanswered, sinceTry>>

\* All four sends of a PINGREQ failed.
PingFail ==
    /\ ypc = "alive" /\ PingDue
    /\ outstanding < MQTT_PING_RETRY_TIMES
    /\ ypc' = "disconnect"
    /\ UNCHANGED <<connVars, backVars, yieldLeft, appVars, timeVars>>

-----------------------------------------------------------------------------
(* _handle_disconnect *)

\* Mutant: the delay timer is not started.
LostMutant ==
    IF AutoConnect
      THEN /\ interval' = MIN_RECONNECT_WAIT_INTERVAL
           /\ ypc' = "loop"
           /\ UNCHANGED delayLeft
      ELSE ypc' = "out" /\ UNCHANGED backVars

\* ERR_MQTT_NO_CONN in uiot_mqtt_yield: start waiting, or return.
Lost ==
    IF AutoConnect
      THEN /\ interval' = MIN_RECONNECT_WAIT_INTERVAL
           /\ delayLeft' = MIN_RECONNECT_WAIT_INTERVAL
           /\ ypc' = "loop"
      ELSE ypc' = "out" /\ UNCHANGED backVars

\* Another thread has disconnected already: no event, was_manually_disconnected
\* as it is.
AlreadyDisconnected ==
    /\ ypc = "disconnect" /\ ~isConnected
    /\ Lost
    /\ sinceTry' = 0
    /\ UNCHANGED <<connVars, yieldLeft, appVars, silence, unanswered, gap>>

\* Mutant: the event's handler is not called.
DisconnectMutant ==
    /\ ypc = "disconnect" /\ isConnected
    /\ isConnected' = FALSE /\ manual' = TRUE
    /\ silence' = 0 /\ gap' = 0
    /\ ypc' = "event"
    /\ UNCHANGED <<outstanding, pingLeft, backVars, yieldLeft, appVars, unanswered, sinceTry>>

\* uiot_mqtt_disconnect, which takes the client for disconnected by hand, and
\* the call of the DISCONNECT event's handler.
Disconnect ==
    /\ ypc = "disconnect" /\ isConnected
    /\ isConnected' = FALSE /\ manual' = TRUE
    /\ silence' = 0 /\ gap' = 0
    /\ told' = "down"
    /\ ypc' = "event"
    /\ UNCHANGED <<outstanding, pingLeft, backVars, yieldLeft, apc, wish, unanswered,
                   sinceTry>>

\* Mutant: was_manually_disconnected stays set.
EventReturnMutant ==
    /\ ypc = "event"
    /\ Lost
    /\ sinceTry' = 0
    /\ UNCHANGED <<connVars, yieldLeft, appVars, silence, unanswered, gap>>

\* The handler has returned.
EventReturn ==
    /\ ypc = "event"
    /\ manual' = FALSE
    /\ Lost
    /\ sinceTry' = 0
    /\ UNCHANGED <<isConnected, outstanding, pingLeft, yieldLeft, appVars, silence, unanswered,
                   gap>>

-----------------------------------------------------------------------------
(* The application's own uiot_mqtt_disconnect and uiot_mqtt_connect *)

\* It finds the client connected and waits for lock_write_buf.
AppDisconnect ==
    /\ apc = "idle" /\ isConnected
    /\ AppThread \/ ypc = "out"
    /\ apc' = "close"
    /\ UNCHANGED <<connVars, backVars, ypc, yieldLeft, wish, told, timeVars>>

\* The DISCONNECT is sent or not, the socket closed, is_connected cleared.
AppClose ==
    /\ apc = "close"
    /\ isConnected' = FALSE
    /\ silence' = 0 /\ gap' = 0
    /\ apc' = "flag"
    /\ UNCHANGED <<manual, outstanding, pingLeft, backVars, ypc, yieldLeft, wish, told,
                   unanswered, sinceTry>>

\* was_manually_disconnected, and SUCCESS_RET to the application.
AppFlag ==
    /\ apc = "flag"
    /\ manual' = TRUE
    /\ wish' = TRUE /\ told' = "down"
    /\ apc' = "idle"
    /\ UNCHANGED <<isConnected, outstanding, pingLeft, backVars, ypc, yieldLeft, timeVars>>

\* A successful uiot_mqtt_connect; one that fails changes nothing here.
AppConnect ==
    /\ apc = "idle" /\ ypc = "out" /\ ~isConnected
    /\ Connected
    /\ wish' = FALSE /\ told' = "up"
    /\ UNCHANGED <<backVars, ypc, yieldLeft, apc, sinceTry>>

-----------------------------------------------------------------------------

Read ==
    \/ \E d \in ReadTime : NothingToRead(d) \/ ReadFailed(d)
    \/ \E d \in PacketTime : ReadAck(d) \/ ReadPublish(d) \/ ReadOther(d)

YieldNext ==
    \/ \E d \in 0 .. MaxPause : YieldEnter(d)
    \/ LoopExit \/ LoopRead \/ GiveUp \/ TryReconnect
    \/ WaitReconnect(1)
    \/ ConnectOk \/ ConnectFail \/ ResubscribeOk \/ ResubscribeFail
    \/ Read
    \/ NoPingDue \/ PingUnanswered \/ PingOk \/ PingFail
    \/ AlreadyDisconnected \/ Disconnect \/ EventReturn

AppNext == AppDisconnect \/ AppClose \/ AppFlag \/ AppConnect

Next == YieldNext \/ AppNext

Spec == Init /\ [][Next]_vars

\* The application keeps calling uiot_mqtt_yield and finishes the calls it
\* makes; a broker that is tried for ever accepts a connection some time.
FairSpec ==
    /\ Spec
    /\ WF_vars(YieldNext)
    /\ WF_vars(AppClose) /\ WF_vars(AppFlag)
    /\ SF_vars(ConnectOk)

-----------------------------------------------------------------------------
(* Properties *)

\* The yield thread is about to take the connection for dead.
Condemned ==
    /\ isConnected /\ ypc = "alive"
    /\ PingDue /\ outstanding >= MQTT_PING_RETRY_TIMES

\* A peer that has fallen silent is found out: as long as the client holds itself
\* connected, the time since the last byte from the broker is bounded, however
\* reads, pauses of the application, pings and downlink messages are interleaved
\* (_mqtt_keep_alive, _handle_pingresp_packet).
DeadPeerDetected ==
    isConnected /\ RequestedKeepAlive > 0 => silence <= MaxSilence

\* A connection is given up for want of an answer only after every ping has had
\* its full time, also when a PUBLISH cleared is_ping_outstanding and left
\* ping_timer alone (cycle_for_read).
PatientDisconnect == Condemned => unanswered >= PingPatience

\* No attempt to reconnect comes earlier than the wait interval after the loss of
\* the connection or the last attempt, nor than the minimum interval
\* (_handle_reconnect, uiot_mqtt_yield).
NoEarlyRetry ==
    ypc = "connect" =>
      /\ interval >= MIN_RECONNECT_WAIT_INTERVAL
      /\ sinceTry > interval

\* Between its calls, an application told that the client is connected (by
\* uiot_mqtt_connect or the RECONNECT event, and no DISCONNECT event since) has a
\* connected client (_handle_disconnect, _reconnect_callback).
ToldIsTrue == ypc = "out" /\ apc = "idle" /\ told = "up" => isConnected

\* A client that the application disconnected is not connected again behind its
\* back (the first check of uiot_mqtt_yield).
ManualStays == wish => ~isConnected /\ ypc # "connect"

\* What the application was told, or asked for, is what the client does.
AppViewSound == ToldIsTrue /\ ManualStays

\* The wait interval has outgrown its maximum without a connection.
GivenUp ==
    /\ ~isConnected /\ interval > MAX_RECONNECT_WAIT_INTERVAL
    /\ ypc \in {"loop", "out"}

\* Once automatic reconnection is given up, no later call of uiot_mqtt_yield
\* starts it again: only the application's uiot_mqtt_connect ends that state
\* (_handle_reconnect without ENABLE_INFINITE_RECONNECT).
StaysDown == [][GivenUp => GivenUp' \/ AppConnect]_vars

\* A lost connection that the application did not end is made again (the loop of
\* uiot_mqtt_yield with auto_connect_enable and ENABLE_INFINITE_RECONNECT).
ReconnectsEventually == ~isConnected /\ ~wish ~> isConnected \/ wish
=============================================================================
