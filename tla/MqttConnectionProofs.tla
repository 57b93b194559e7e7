----------------------- MODULE MqttConnectionProofs ------------------------
(***************************************************************************)
(* Proofs about MqttConnection, for every choice of the intervals: its     *)
(* type invariant, that a silent peer is found out in bounded time, that   *)
(* no connection is given up before every ping had its time, that no       *)
(* attempt to reconnect comes too early, that the application is told the  *)
(* truth, and that a client that gave up stays down.                       *)
(***************************************************************************)
EXTENDS MqttConnection, TLAPS

\* How long the broker may have been silent, with k pings sent since, when the
\* next one falls due.
Base(k) == KeepAlive + k * (PingTimeout + MaxGap)

\* What k pings that were given their full time amount to.
Patience(k) == k * (PingTimeout + 1)

\* An attempt is only made with an interval that did not outgrow its maximum.
IntervalInv == ypc \in {"connect", "resubscribe"} => interval <= MAX_RECONNECT_WAIT_INTERVAL

\* The time since the last keep-alive check, place by place: nothing has passed
\* when uiot_mqtt_yield returns, a pause when it reads, a read after that.
GapInv ==
    /\ ~isConnected \/ ypc \in {"out", "connect", "resubscribe", "event"} => gap = 0
    /\ ypc = "loop" => gap <= MaxPause /\ (yieldLeft < 0 => gap = 0)
    /\ ypc = "read" => gap <= MaxPause
    /\ gap <= MaxGap

\* The ping timer bounds the silence: what has passed of it and what is left.
SilenceInv ==
    KeepAlive # 0 /\ isConnected =>
      /\ pingLeft >= 0 => silence + pingLeft <= Base(outstanding)
      /\ pingLeft < 0 => silence <= Base(outstanding) + gap

\* Every ping sent has been waited for, but for what is left of the timer.
PatienceInv == Patience(outstanding) <= unanswered + pingLeft + 1

IInv == TypeOK /\ IntervalInv /\ GapInv /\ SilenceInv /\ PatienceInv

-----------------------------------------------------------------------------
(* Arithmetic on the constants *)

\* The two intervals of the keep-alive check, and when 16 bits hold the first.
LEMMA KeepAliveFacts ==
    /\ KeepAlive \in Nat
    /\ PingTimeout \in Nat /\ PingTimeout <= KeepAlive
    /\ RequestedKeepAlive < KeepAliveRange => KeepAlive = RequestedKeepAlive
<1>1. KeepAlive \in Nat
  BY ConnectionAssumption DEF KeepAlive
<1>2. RequestedKeepAlive < KeepAliveRange => KeepAlive = RequestedKeepAlive
  BY ConnectionAssumption DEF KeepAlive
<1> HIDE DEF KeepAlive
<1>3. PingTimeout \in Nat /\ PingTimeout <= KeepAlive
  BY <1>1, ConnectionAssumption DEF PingTimeout, Lesser
<1> QED
  BY <1>1, <1>2, <1>3

\* A pause and a read without a packet fit between two checks.
LEMMA GapFacts ==
    /\ MaxGap \in Nat
    /\ \A g \in Nat, d \in Nat :
         g <= MaxPause /\ d <= YieldTimeout => g + d <= MaxGap
BY ConnectionAssumption DEF MaxGap

\* One more ping allows for one more ping timeout and one more gap.
LEMMA BaseFacts ==
    ASSUME NEW k \in Nat
    PROVE  /\ Base(k) \in Nat /\ Base(k) >= KeepAlive
           /\ Base(k + 1) = Base(k) + PingTimeout + MaxGap
           /\ Base(0) = KeepAlive
           /\ k <= MQTT_PING_RETRY_TIMES => Base(k) + MaxGap <= MaxSilence
<1> DEFINE w == PingTimeout + MaxGap
<1>1. KeepAlive \in Nat /\ w \in Nat /\ MaxGap \in Nat /\ MQTT_PING_RETRY_TIMES \in Nat
  BY KeepAliveFacts, GapFacts, ConnectionAssumption
<1>2. Base(k) = KeepAlive + k * w /\ Base(k + 1) = KeepAlive + (k + 1) * w /\ Base(0) = KeepAlive + 0 * w
  BY DEF Base
<1>3. MaxSilence = KeepAlive + MQTT_PING_RETRY_TIMES * w + MaxGap
  BY DEF MaxSilence
<1>4. PingTimeout + MaxGap = w
  OBVIOUS
<1> HIDE DEF w
<1>5. k * w \in Nat /\ (k + 1) * w = k * w + w /\ 0 * w = 0
  BY <1>1
<1>6. k <= MQTT_PING_RETRY_TIMES => k * w <= MQTT_PING_RETRY_TIMES * w
  BY <1>1
<1>7. PingTimeout \in Nat /\ MQTT_PING_RETRY_TIMES * w \in Nat
  BY <1>1, KeepAliveFacts
<1> QED
  BY <1>1, <1>2, <1>3, <1>4, <1>5, <1>6, <1>7

\* One more ping is one more full ping timeout.
LEMMA PatienceFacts ==
    ASSUME NEW k \in Nat
    PROVE  /\ Patience(k) \in Nat
           /\ Patience(k + 1) = Patience(k) + PingTimeout + 1
           /\ Patience(0) = 0
           /\ k <= MQTT_PING_RETRY_TIMES => Patience(k) <= PingPatience
           /\ PingPatience = Patience(MQTT_PING_RETRY_TIMES)
           /\ PingPatience \in Nat
<1> DEFINE w == PingTimeout + 1
<1>1. w \in Nat /\ MQTT_PING_RETRY_TIMES \in Nat /\ PingTimeout \in Nat
  BY KeepAliveFacts, ConnectionAssumption
<1>2. /\ Patience(k) = k * w /\ Patience(k + 1) = (k + 1) * w /\ Patience(0) = 0 * w
      /\ PingPatience = MQTT_PING_RETRY_TIMES * w
      /\ Patience(MQTT_PING_RETRY_TIMES) = MQTT_PING_RETRY_TIMES * w
  BY DEF Patience, PingPatience
<1>3. PingTimeout + 1 = w
  OBVIOUS
<1> HIDE DEF w
<1>4. k * w \in Nat /\ (k + 1) * w = k * w + w /\ 0 * w = 0
      /\ MQTT_PING_RETRY_TIMES * w \in Nat
  BY <1>1
<1>5. k <= MQTT_PING_RETRY_TIMES => k * w <= MQTT_PING_RETRY_TIMES * w
  BY <1>1
<1> QED
  BY <1>1, <1>2, <1>3, <1>4, <1>5

-----------------------------------------------------------------------------
(* The steps *)

\* A timer d ticks later.
LEMMA LaterFacts ==
    ASSUME NEW left \in Int, left >= -1, NEW d \in Nat
    PROVE  /\ Later(left, d) \in Int
           /\ -1 <= Later(left, d) /\ Later(left, d) <= left
           /\ Later(left, d) >= 0 => Later(left, d) = left - d
           /\ left <= Later(left, d) + d
BY DEF Later

\* What a read takes, and what it takes before a packet's first byte.
LEMMA TimeFacts ==
    ASSUME TypeOK
    PROVE  /\ \A d \in ReadTime : d \in Nat /\ d <= YieldTimeout
           /\ \A d \in PacketTime : d \in Nat
           /\ \A d \in 0 .. MaxPause : d \in Nat /\ d <= MaxPause
BY ConnectionAssumption DEF TypeOK, ReadTime, PacketTime

\* The timers of the loop after d ticks.
LEMMA PassFacts ==
    ASSUME TypeOK, NEW d \in Nat, Pass(d)
    PROVE  delayLeft' \in -1 .. MAX_RECONNECT_WAIT_INTERVAL /\ sinceTry' \in Nat
<1>1. delayLeft \in Int /\ delayLeft >= -1 /\ delayLeft <= MAX_RECONNECT_WAIT_INTERVAL /\ sinceTry \in Nat
  BY DEF TypeOK
<1>2. Later(delayLeft, d) \in Int /\ -1 <= Later(delayLeft, d) /\ Later(delayLeft, d) <= delayLeft
  BY <1>1, LaterFacts
<1>3. Lesser(sinceTry + d, MAX_RECONNECT_WAIT_INTERVAL + 1) \in Nat
  BY <1>1, ConnectionAssumption DEF Lesser
<1> QED
  BY <1>1, <1>2, <1>3, ConnectionAssumption DEF Pass

\* The timer of uiot_mqtt_yield after d ticks.
LEMMA YieldTimerFacts ==
    ASSUME TypeOK, NEW d \in Nat
    PROVE  Later(yieldLeft, d) \in -1 .. YieldTimeout
<1>1. yieldLeft \in Int /\ yieldLeft >= -1 /\ yieldLeft <= YieldTimeout
  BY DEF TypeOK
<1> QED
  BY <1>1, LaterFacts, ConnectionAssumption

\* What one clock loses, the other gains.
LEMMA Shift ==
    ASSUME NEW u \in Int, NEW p \in Int, NEW q \in Int, NEW e \in Int, p <= q + e
    PROVE  u + p <= u + e + q
OBVIOUS

\* The ping timer and the clock of the missing answer after d ticks.
LEMMA UnansweredFacts ==
    ASSUME TypeOK, NEW d \in Nat, Unanswered(d)
    PROVE  /\ pingLeft' \in -1 .. KeepAlive
           /\ pingLeft' >= 0 => pingLeft' = pingLeft - d
           /\ pingLeft < 0 => pingLeft' < 0
           /\ unanswered' \in Nat
           /\ \/ unanswered + pingLeft <= unanswered' + pingLeft'
              \/ unanswered' = KeepAlive + PingPatience
<1>1. pingLeft \in Int /\ pingLeft >= -1 /\ pingLeft <= KeepAlive /\ unanswered \in Nat
  BY KeepAliveFacts DEF TypeOK
<1>2. PingPatience \in Nat
  BY PatienceFacts, ConnectionAssumption
<1>3. pingLeft' = Later(pingLeft, d)
  BY DEF Unanswered
<1>4. /\ pingLeft' \in Int /\ -1 <= pingLeft' /\ pingLeft' <= pingLeft
      /\ pingLeft' >= 0 => pingLeft' = pingLeft - d
      /\ pingLeft <= pingLeft' + d
  BY <1>1, <1>3, LaterFacts
<1>5. unanswered' \in Nat /\ (unanswered' = unanswered + d \/ unanswered' = KeepAlive + PingPatience)
  BY <1>1, <1>2, KeepAliveFacts DEF Unanswered, Lesser
<1>6. pingLeft' \in -1 .. KeepAlive /\ (pingLeft < 0 => pingLeft' < 0)
  BY <1>1, <1>4, KeepAliveFacts
<1>7. /\ pingLeft \in Int /\ pingLeft' \in Int /\ unanswered \in Int /\ d \in Int
      /\ pingLeft <= pingLeft' + d
  <2>1. pingLeft \in Int /\ unanswered \in Int
    BY <1>1
  <2>2. pingLeft' \in Int /\ pingLeft <= pingLeft' + d
    BY <1>4
  <2>3. d \in Int
    OBVIOUS
  <2> QED
    BY <2>1, <2>2, <2>3
<1>8. unanswered + pingLeft <= unanswered + d + pingLeft'
  BY <1>7, Shift
<1> QED
  BY <1>4, <1>5, <1>6, <1>8

\* The clocks of the silence after d ticks without a byte.
LEMMA QuietFacts ==
    ASSUME TypeOK, NEW d \in Nat, Quiet(d)
    PROVE  /\ Unanswered(d)
           /\ silence' \in Nat /\ gap' \in Nat
           /\ isConnected => silence' = silence + d /\ gap' = gap + d
           /\ ~isConnected => silence' = 0 /\ gap' = 0
BY DEF TypeOK, Quiet

\* Silence lasts: what the ping timer loses, the silence gains.
LEMMA SilenceQuiet ==
    ASSUME TypeOK, SilenceInv, NEW d \in Nat, Quiet(d),
           isConnected' = isConnected, outstanding' = outstanding
    PROVE  SilenceInv'
<1> SUFFICES ASSUME KeepAlive # 0, isConnected
             PROVE  /\ pingLeft' >= 0 => silence' + pingLeft' <= Base(outstanding)
                    /\ pingLeft' < 0 => silence' <= Base(outstanding) + gap'
  BY DEF SilenceInv
<1>1. silence \in Nat /\ gap \in Nat /\ pingLeft \in Int /\ outstanding \in Nat
  BY KeepAliveFacts, ConnectionAssumption DEF TypeOK
<1>2. Base(outstanding) \in Nat
  BY <1>1, BaseFacts
<1>3. silence' = silence + d /\ gap' = gap + d
  BY QuietFacts
<1>4. /\ pingLeft' \in Int
      /\ pingLeft' >= 0 => pingLeft' = pingLeft - d
      /\ pingLeft < 0 => pingLeft' < 0
  BY QuietFacts, UnansweredFacts, KeepAliveFacts
<1>5. /\ pingLeft >= 0 => silence + pingLeft <= Base(outstanding)
      /\ pingLeft < 0 => silence <= Base(outstanding) + gap
  BY DEF SilenceInv
<1> QED
  BY <1>1, <1>2, <1>3, <1>4, <1>5

\* What the ping timer loses, the wait for an answer gains.
LEMMA PatienceUnanswered ==
    ASSUME TypeOK, PatienceInv, NEW d \in Nat, Unanswered(d), outstanding' = outstanding
    PROVE  PatienceInv'
<1>1. /\ unanswered \in Nat /\ pingLeft \in Int
      /\ outstanding \in Nat /\ outstanding <= MQTT_PING_RETRY_TIMES
  BY KeepAliveFacts, ConnectionAssumption DEF TypeOK
<1>2. /\ Patience(outstanding) \in Nat /\ PingPatience \in Nat
      /\ Patience(outstanding) <= PingPatience
  BY <1>1, PatienceFacts
<1>3. /\ pingLeft' \in Int /\ pingLeft' >= -1 /\ unanswered' \in Nat
      /\ \/ unanswered + pingLeft <= unanswered' + pingLeft'
         \/ unanswered' = KeepAlive + PingPatience
  BY UnansweredFacts, KeepAliveFacts
<1>4. Patience(outstanding) <= unanswered + pingLeft + 1
  BY DEF PatienceInv
<1> DEFINE p == Patience(outstanding)
           u == unanswered'
           l == pingLeft'
<1>5. p \in Int /\ u \in Int /\ l \in Int /\ l >= -1
  BY <1>2, <1>3
<1> HIDE DEF p, u, l
<1>6. unanswered + pingLeft <= u + l => p <= u + l + 1
  BY <1>1, <1>4, <1>5 DEF p
<1>7. u = KeepAlive + PingPatience => p <= u + l + 1
  BY <1>2, <1>5, KeepAliveFacts DEF p
<1>8. Patience(outstanding) <= unanswered' + pingLeft' + 1
  BY <1>3, <1>6, <1>7 DEF p, u, l
<1> QED
  BY <1>8 DEF PatienceInv

\* No ping has been sent since the broker was last heard.
LEMMA FreshInv ==
    ASSUME TypeOK, TypeOK', outstanding' = 0
    PROVE  PatienceInv' /\ (silence' = 0 => SilenceInv')
<1>1. /\ unanswered' \in Nat /\ gap' \in Nat
      /\ pingLeft' \in Int /\ -1 <= pingLeft' /\ pingLeft' <= KeepAlive
  BY KeepAliveFacts DEF TypeOK
<1>2. Patience(0) = 0 /\ Base(0) = KeepAlive
  BY PatienceFacts, BaseFacts
<1>3. PatienceInv'
  BY <1>1, <1>2 DEF PatienceInv
<1>4. silence' = 0 => SilenceInv'
  BY <1>1, <1>2, KeepAliveFacts DEF SilenceInv
<1> QED
  BY <1>3, <1>4

\* A client that has just connected satisfies the inductive invariant.
LEMMA InitInv == Init => IInv
<1> SUFFICES ASSUME Init PROVE IInv
  OBVIOUS
<1>1. TypeOK
  <2>1. isConnected \in BOOLEAN /\ manual \in BOOLEAN /\ wish \in BOOLEAN
    BY DEF Init
  <2>2. ypc \in YieldPc /\ apc \in {"idle", "close", "flag"} /\ told \in {"up", "down"}
    BY DEF Init, YieldPc
  <2> QED
    BY <2>1, <2>2, KeepAliveFacts, ConnectionAssumption DEF Init, TypeOK
<1>2. IntervalInv /\ GapInv
  BY GapFacts, ConnectionAssumption DEF Init, IntervalInv, GapInv
<1>3. SilenceInv
  BY BaseFacts, KeepAliveFacts DEF Init, SilenceInv
<1>4. PatienceInv
  BY PatienceFacts, KeepAliveFacts DEF Init, PatienceInv
<1> QED
  BY <1>1, <1>2, <1>3, <1>4 DEF IInv

\* The types of the variables, and the bound on the wait interval.
LEMMA TypeNext ==
    ASSUME TypeOK, IntervalInv, [Next]_vars
    PROVE  (TypeOK /\ IntervalInv)'
<1>1. ASSUME NEW d \in 0 .. MaxPause, YieldEnter(d)
      PROVE  (TypeOK /\ IntervalInv)'
  BY <1>1, TimeFacts, PassFacts, QuietFacts, UnansweredFacts, ConnectionAssumption DEF
      YieldEnter, appVars, TypeOK, YieldPc, IntervalInv
<1>2. CASE LoopExit
  BY <1>2, ConnectionAssumption DEF LoopExit, connVars, backVars, appVars, timeVars, TypeOK,
      YieldPc, IntervalInv
<1>3. CASE LoopRead
  BY <1>3, ConnectionAssumption DEF LoopRead, connVars, backVars, appVars, timeVars, TypeOK,
      YieldPc, IntervalInv
<1>4. CASE GiveUp
  BY <1>4, ConnectionAssumption DEF GiveUp, connVars, backVars, appVars, timeVars, TypeOK,
      YieldPc, IntervalInv
<1>5. CASE TryReconnect
  BY <1>5, ConnectionAssumption DEF TryReconnect, connVars, backVars, appVars, timeVars,
      TypeOK, YieldPc, IntervalInv
<1>6. CASE WaitReconnect(1)
  BY <1>6, TimeFacts, PassFacts, YieldTimerFacts, QuietFacts, UnansweredFacts, ConnectionAssumption DEF
      WaitReconnect, appVars, TypeOK, YieldPc, IntervalInv
<1>7. CASE ConnectOk
  <2>1. isConnected' \in BOOLEAN /\ manual' \in BOOLEAN /\ wish' \in BOOLEAN
    BY <1>7 DEF ConnectOk, Connected, Heard, TypeOK, appVars
  <2>2. pingLeft' \in -1 .. KeepAlive /\ outstanding' \in 0 .. MQTT_PING_RETRY_TIMES
    BY <1>7, KeepAliveFacts, ConnectionAssumption DEF ConnectOk, Connected
  <2> QED
    BY <1>7, <2>1, <2>2 DEF ConnectOk, Connected, Heard, backVars, appVars, TypeOK, YieldPc,
      IntervalInv
<1>8. CASE ConnectFail
  BY <1>8, ConnectionAssumption DEF ConnectFail, BackOff, NextInterval, connVars, appVars,
      TypeOK, YieldPc, IntervalInv
<1>9. CASE ResubscribeOk
  BY <1>9, ConnectionAssumption DEF ResubscribeOk, connVars, backVars, timeVars, TypeOK,
      YieldPc, IntervalInv
<1>10. CASE ResubscribeFail
  BY <1>10, ConnectionAssumption DEF ResubscribeFail, BackOff, NextInterval, connVars,
      appVars, TypeOK, YieldPc, IntervalInv
<1>11. ASSUME NEW d \in ReadTime, NothingToRead(d)
       PROVE  (TypeOK /\ IntervalInv)'
  BY <1>11, TimeFacts, PassFacts, YieldTimerFacts, QuietFacts, UnansweredFacts, ConnectionAssumption DEF
      NothingToRead, appVars, TypeOK, YieldPc, IntervalInv
<1>12. ASSUME NEW d \in ReadTime, ReadFailed(d)
       PROVE  (TypeOK /\ IntervalInv)'
  BY <1>12, TimeFacts, PassFacts, YieldTimerFacts, QuietFacts, UnansweredFacts, ConnectionAssumption DEF
      ReadFailed, appVars, TypeOK, YieldPc, IntervalInv
<1>13. ASSUME NEW d \in PacketTime, ReadAck(d)
       PROVE  (TypeOK /\ IntervalInv)'
  BY <1>13, TimeFacts, PassFacts, YieldTimerFacts, KeepAliveFacts, ConnectionAssumption DEF
      ReadAck, Heard, Handled, appVars, TypeOK, YieldPc, IntervalInv
<1>14. ASSUME NEW d \in PacketTime, ReadPublish(d)
       PROVE  (TypeOK /\ IntervalInv)'
  <2>1. d \in Nat
    BY TimeFacts
  <2>2. pingLeft \in Int /\ pingLeft >= -1 /\ pingLeft <= KeepAlive
    BY KeepAliveFacts DEF TypeOK
  <2>3. pingLeft' \in -1 .. KeepAlive
    BY <1>14, <2>1, <2>2, LaterFacts, KeepAliveFacts DEF ReadPublish
  <2> QED
    BY <1>14, <2>1, <2>3, PassFacts, YieldTimerFacts, ConnectionAssumption
    DEF ReadPublish, Heard, Handled, appVars, TypeOK, YieldPc, IntervalInv
<1>15. ASSUME NEW d \in PacketTime, ReadOther(d)
       PROVE  (TypeOK /\ IntervalInv)'
  BY <1>15, TimeFacts, PassFacts, YieldTimerFacts, UnansweredFacts, ConnectionAssumption DEF
      ReadOther, Heard, Handled, appVars, TypeOK, YieldPc, IntervalInv
<1>16. CASE NoPingDue
  BY <1>16, ConnectionAssumption DEF NoPingDue, connVars, backVars, appVars, TypeOK,
      YieldPc, IntervalInv
<1>17. CASE PingUnanswered
  BY <1>17, ConnectionAssumption DEF PingUnanswered, connVars, backVars, appVars, timeVars,
      TypeOK, YieldPc, IntervalInv
<1>18. CASE PingOk
  BY <1>18, KeepAliveFacts, ConnectionAssumption DEF PingOk, backVars, appVars, TypeOK,
      YieldPc, IntervalInv
<1>19. CASE PingFail
  BY <1>19, ConnectionAssumption DEF PingFail, connVars, backVars, appVars, timeVars,
      TypeOK, YieldPc, IntervalInv
<1>20. CASE AlreadyDisconnected
  BY <1>20, ConnectionAssumption DEF AlreadyDisconnected, Lost, connVars, backVars, appVars,
      TypeOK, YieldPc, IntervalInv
<1>21. CASE Disconnect
  BY <1>21, ConnectionAssumption DEF Disconnect, backVars, TypeOK, YieldPc, IntervalInv
<1>22. CASE EventReturn
  <2>1. manual' \in BOOLEAN
    BY <1>22 DEF EventReturn
  <2>2. interval' \in 0 .. 2 * MAX_RECONNECT_WAIT_INTERVAL
        /\ (ENABLE_INFINITE_RECONNECT => interval' <= MAX_RECONNECT_WAIT_INTERVAL)
        /\ delayLeft' \in -1 .. MAX_RECONNECT_WAIT_INTERVAL /\ ypc' \in {"loop", "out"}
    BY <1>22, ConnectionAssumption DEF EventReturn, Lost, TypeOK, backVars
  <2> QED
    BY <1>22, <2>1, <2>2 DEF EventReturn, appVars, TypeOK, YieldPc, IntervalInv
<1>23. CASE AppDisconnect
  BY <1>23, ConnectionAssumption DEF AppDisconnect, connVars, backVars, timeVars, TypeOK,
      YieldPc, IntervalInv
<1>24. CASE AppClose
  BY <1>24, ConnectionAssumption DEF AppClose, backVars, TypeOK, YieldPc, IntervalInv
<1>25. CASE AppFlag
  BY <1>25, ConnectionAssumption DEF AppFlag, backVars, timeVars, TypeOK, YieldPc,
      IntervalInv
<1>26. CASE AppConnect
  <2>1. isConnected' \in BOOLEAN /\ manual' \in BOOLEAN /\ wish' \in BOOLEAN
    BY <1>26 DEF AppConnect, Connected, Heard, TypeOK
  <2>2. pingLeft' \in -1 .. KeepAlive /\ outstanding' \in 0 .. MQTT_PING_RETRY_TIMES
    BY <1>26, KeepAliveFacts, ConnectionAssumption DEF AppConnect, Connected
  <2> QED
    BY <1>26, <2>1, <2>2 DEF AppConnect, Connected, Heard, backVars, appVars, TypeOK, YieldPc,
      IntervalInv
<1>27. CASE UNCHANGED vars
  BY <1>27 DEF vars, connVars, backVars, appVars, timeVars, TypeOK, YieldPc, IntervalInv
<1> QED
  BY <1>1, <1>2, <1>3, <1>4, <1>5, <1>6, <1>7, <1>8, <1>9, <1>10, <1>11, <1>12, <1>13,
      <1>14, <1>15, <1>16, <1>17, <1>18, <1>19, <1>20, <1>21, <1>22, <1>23, <1>24, <1>25,
      <1>26, <1>27 DEF Next, YieldNext, AppNext, Read

\* The time since the last keep-alive check.
LEMMA GapNext ==
    ASSUME TypeOK, GapInv, [Next]_vars
    PROVE  GapInv'
<1>1. ASSUME NEW d \in 0 .. MaxPause, YieldEnter(d)
      PROVE  GapInv'
  BY <1>1, TimeFacts, QuietFacts, GapFacts, ConnectionAssumption DEF YieldEnter, appVars,
      TypeOK, GapInv
<1>2. CASE LoopExit
  BY <1>2, GapFacts, ConnectionAssumption DEF LoopExit, connVars, backVars, appVars,
      timeVars, TypeOK, GapInv
<1>3. CASE LoopRead
  BY <1>3, GapFacts, ConnectionAssumption DEF LoopRead, connVars, backVars, appVars,
      timeVars, TypeOK, GapInv
<1>4. CASE GiveUp
  BY <1>4, GapFacts, ConnectionAssumption DEF GiveUp, connVars, backVars, appVars, timeVars,
      TypeOK, GapInv
<1>5. CASE TryReconnect
  BY <1>5, GapFacts, ConnectionAssumption DEF TryReconnect, connVars, backVars, appVars,
      timeVars, TypeOK, GapInv
<1>6. CASE WaitReconnect(1)
  BY <1>6, TimeFacts, QuietFacts, GapFacts, ConnectionAssumption DEF WaitReconnect, appVars,
      TypeOK, GapInv
<1>7. CASE ConnectOk
  BY <1>7, GapFacts, ConnectionAssumption DEF ConnectOk, Connected, Heard, backVars,
      appVars, TypeOK, GapInv
<1>8. CASE ConnectFail
  BY <1>8, GapFacts, ConnectionAssumption DEF ConnectFail, BackOff, NextInterval, connVars,
      appVars, TypeOK, GapInv
<1>9. CASE ResubscribeOk
  BY <1>9, GapFacts, ConnectionAssumption DEF ResubscribeOk, connVars, backVars, timeVars,
      TypeOK, GapInv
<1>10. CASE ResubscribeFail
  BY <1>10, GapFacts, ConnectionAssumption DEF ResubscribeFail, BackOff, NextInterval,
      connVars, appVars, TypeOK, GapInv
<1>11. ASSUME NEW d \in ReadTime, NothingToRead(d)
       PROVE  GapInv'
  BY <1>11, TimeFacts, QuietFacts, GapFacts, ConnectionAssumption DEF NothingToRead,
      appVars, TypeOK, GapInv
<1>12. ASSUME NEW d \in ReadTime, ReadFailed(d)
       PROVE  GapInv'
  BY <1>12, TimeFacts, QuietFacts, GapFacts, ConnectionAssumption DEF ReadFailed, appVars,
      TypeOK, GapInv
<1>13. ASSUME NEW d \in PacketTime, ReadAck(d)
       PROVE  GapInv'
  BY <1>13, GapFacts, ConnectionAssumption DEF ReadAck, Heard, Handled, appVars, TypeOK,
      GapInv
<1>14. ASSUME NEW d \in PacketTime, ReadPublish(d)
       PROVE  GapInv'
  BY <1>14, GapFacts, ConnectionAssumption DEF ReadPublish, Heard, Handled, appVars, TypeOK,
      GapInv
<1>15. ASSUME NEW d \in PacketTime, ReadOther(d)
       PROVE  GapInv'
  BY <1>15, GapFacts, ConnectionAssumption DEF ReadOther, Heard, Handled, appVars, TypeOK,
      GapInv
<1>16. CASE NoPingDue
  BY <1>16, GapFacts, ConnectionAssumption DEF NoPingDue, connVars, backVars, appVars,
      TypeOK, GapInv
<1>17. CASE PingUnanswered
  BY <1>17, GapFacts, ConnectionAssumption DEF PingUnanswered, connVars, backVars, appVars,
      timeVars, TypeOK, GapInv
<1>18. CASE PingOk
  BY <1>18, GapFacts, ConnectionAssumption DEF PingOk, backVars, appVars, TypeOK, GapInv
<1>19. CASE PingFail
  BY <1>19, GapFacts, ConnectionAssumption DEF PingFail, connVars, backVars, appVars,
      timeVars, TypeOK, GapInv
<1>20. CASE AlreadyDisconnected
  BY <1>20, GapFacts, ConnectionAssumption DEF AlreadyDisconnected, Lost, connVars,
      backVars, appVars, TypeOK, GapInv
<1>21. CASE Disconnect
  BY <1>21, GapFacts, ConnectionAssumption DEF Disconnect, backVars, TypeOK, GapInv
<1>22. CASE EventReturn
  BY <1>22, GapFacts, ConnectionAssumption DEF EventReturn, Lost, backVars, appVars, TypeOK,
      GapInv
<1>23. CASE AppDisconnect
  BY <1>23, GapFacts, ConnectionAssumption DEF AppDisconnect, connVars, backVars, timeVars,
      TypeOK, GapInv
<1>24. CASE AppClose
  BY <1>24, GapFacts, ConnectionAssumption DEF AppClose, backVars, TypeOK, GapInv
<1>25. CASE AppFlag
  BY <1>25, GapFacts, ConnectionAssumption DEF AppFlag, backVars, timeVars, TypeOK, GapInv
<1>26. CASE AppConnect
  BY <1>26, GapFacts, ConnectionAssumption DEF AppConnect, Connected, Heard, backVars,
      TypeOK, GapInv
<1>27. CASE UNCHANGED vars
  BY <1>27 DEF vars, connVars, backVars, appVars, timeVars, TypeOK, GapInv
<1> QED
  BY <1>1, <1>2, <1>3, <1>4, <1>5, <1>6, <1>7, <1>8, <1>9, <1>10, <1>11, <1>12, <1>13,
      <1>14, <1>15, <1>16, <1>17, <1>18, <1>19, <1>20, <1>21, <1>22, <1>23, <1>24, <1>25,
      <1>26, <1>27 DEF Next, YieldNext, AppNext, Read

\* The silence of the broker.
LEMMA SilenceNext ==
    ASSUME TypeOK, TypeOK', GapInv, SilenceInv, [Next]_vars
    PROVE  SilenceInv'
<1>1. ASSUME NEW d \in 0 .. MaxPause, YieldEnter(d)
      PROVE  SilenceInv'
  BY <1>1, TimeFacts, SilenceQuiet DEF YieldEnter
<1>2. CASE LoopExit
  BY <1>2 DEF LoopExit, connVars, backVars, appVars, timeVars, SilenceInv
<1>3. CASE LoopRead
  BY <1>3 DEF LoopRead, connVars, backVars, appVars, timeVars, SilenceInv
<1>4. CASE GiveUp
  BY <1>4 DEF GiveUp, connVars, backVars, appVars, timeVars, SilenceInv
<1>5. CASE TryReconnect
  BY <1>5 DEF TryReconnect, connVars, backVars, appVars, timeVars, SilenceInv
<1>6. CASE WaitReconnect(1)
  BY <1>6, TimeFacts, SilenceQuiet DEF WaitReconnect
<1>7. CASE ConnectOk
  BY <1>7, FreshInv DEF ConnectOk, Connected, Heard
<1>8. CASE ConnectFail
  BY <1>8 DEF ConnectFail, BackOff, NextInterval, connVars, appVars, SilenceInv
<1>9. CASE ResubscribeOk
  BY <1>9 DEF ResubscribeOk, connVars, backVars, timeVars, SilenceInv
<1>10. CASE ResubscribeFail
  BY <1>10 DEF ResubscribeFail, BackOff, NextInterval, connVars, appVars, SilenceInv
<1>11. ASSUME NEW d \in ReadTime, NothingToRead(d)
       PROVE  SilenceInv'
  BY <1>11, TimeFacts, SilenceQuiet DEF NothingToRead
<1>12. ASSUME NEW d \in ReadTime, ReadFailed(d)
       PROVE  SilenceInv'
  BY <1>12, TimeFacts, SilenceQuiet DEF ReadFailed
<1>13. ASSUME NEW d \in PacketTime, ReadAck(d)
       PROVE  SilenceInv'
  BY <1>13, FreshInv DEF ReadAck, Heard
<1>14. ASSUME NEW d \in PacketTime, ReadPublish(d)
       PROVE  SilenceInv'
  BY <1>14, FreshInv DEF ReadPublish, Heard
<1>15. ASSUME NEW d \in PacketTime, ReadOther(d)
       PROVE  SilenceInv'
  <2>1. d \in Nat
    BY TimeFacts
  <2>2. outstanding \in Nat /\ pingLeft' \in Int /\ pingLeft' <= KeepAlive
    BY <1>15, <2>1, UnansweredFacts, KeepAliveFacts, ConnectionAssumption DEF ReadOther, TypeOK
  <2>3. Base(outstanding) \in Nat /\ Base(outstanding) >= KeepAlive
    BY <2>2, BaseFacts
  <2> QED
    BY <1>15, <2>2, <2>3, KeepAliveFacts DEF ReadOther, Heard, SilenceInv
<1>16. CASE NoPingDue
  <2>1. pingLeft \in Int /\ (KeepAlive # 0 => pingLeft >= 0)
    BY <1>16, KeepAliveFacts DEF NoPingDue, PingDue, TypeOK
  <2> QED
    BY <1>16, <2>1 DEF NoPingDue, connVars, SilenceInv
<1>17. CASE PingUnanswered
  BY <1>17 DEF PingUnanswered, connVars, backVars, appVars, timeVars, SilenceInv
<1>18. CASE PingOk
  <2>1. outstanding \in Nat /\ silence \in Nat /\ gap \in Nat /\ pingLeft \in Int
    BY KeepAliveFacts, ConnectionAssumption DEF TypeOK
  <2>2. Base(outstanding) \in Nat /\ Base(outstanding + 1) = Base(outstanding) + PingTimeout + MaxGap
    BY <2>1, BaseFacts
  <2>3. gap <= MaxGap /\ pingLeft < 0
    BY <1>18 DEF PingOk, PingDue, GapInv
  <2>4. isConnected' = isConnected /\ silence' = silence /\ outstanding' = outstanding + 1
        /\ pingLeft' = PingTimeout
    BY <1>18 DEF PingOk
  <2> QED
    BY <2>1, <2>2, <2>3, <2>4, KeepAliveFacts, GapFacts DEF SilenceInv
<1>19. CASE PingFail
  BY <1>19 DEF PingFail, connVars, backVars, appVars, timeVars, SilenceInv
<1>20. CASE AlreadyDisconnected
  BY <1>20 DEF AlreadyDisconnected, Lost, connVars, backVars, appVars, SilenceInv
<1>21. CASE Disconnect
  BY <1>21 DEF Disconnect, backVars, SilenceInv
<1>22. CASE EventReturn
  BY <1>22 DEF EventReturn, Lost, backVars, appVars, SilenceInv
<1>23. CASE AppDisconnect
  BY <1>23 DEF AppDisconnect, connVars, backVars, timeVars, SilenceInv
<1>24. CASE AppClose
  BY <1>24 DEF AppClose, backVars, SilenceInv
<1>25. CASE AppFlag
  BY <1>25 DEF AppFlag, backVars, timeVars, SilenceInv
<1>26. CASE AppConnect
  BY <1>26, FreshInv DEF AppConnect, Connected, Heard
<1>27. CASE UNCHANGED vars
  BY <1>27 DEF vars, connVars, backVars, appVars, timeVars, SilenceInv
<1> QED
  BY <1>1, <1>2, <1>3, <1>4, <1>5, <1>6, <1>7, <1>8, <1>9, <1>10, <1>11, <1>12, <1>13,
      <1>14, <1>15, <1>16, <1>17, <1>18, <1>19, <1>20, <1>21, <1>22, <1>23, <1>24, <1>25,
      <1>26, <1>27 DEF Next, YieldNext, AppNext, Read

\* The time every ping is given.
LEMMA PatienceNext ==
    ASSUME TypeOK, TypeOK', PatienceInv, [Next]_vars
    PROVE  PatienceInv'
<1>1. ASSUME NEW d \in 0 .. MaxPause, YieldEnter(d)
      PROVE  PatienceInv'
  BY <1>1, TimeFacts, QuietFacts, PatienceUnanswered DEF YieldEnter
<1>2. CASE LoopExit
  BY <1>2 DEF LoopExit, connVars, backVars, appVars, timeVars, PatienceInv
<1>3. CASE LoopRead
  BY <1>3 DEF LoopRead, connVars, backVars, appVars, timeVars, PatienceInv
<1>4. CASE GiveUp
  BY <1>4 DEF GiveUp, connVars, backVars, appVars, timeVars, PatienceInv
<1>5. CASE TryReconnect
  BY <1>5 DEF TryReconnect, connVars, backVars, appVars, timeVars, PatienceInv
<1>6. CASE WaitReconnect(1)
  BY <1>6, TimeFacts, QuietFacts, PatienceUnanswered DEF WaitReconnect
<1>7. CASE ConnectOk
  BY <1>7, FreshInv DEF ConnectOk, Connected, Heard
<1>8. CASE ConnectFail
  BY <1>8 DEF ConnectFail, BackOff, NextInterval, connVars, appVars, PatienceInv
<1>9. CASE ResubscribeOk
  BY <1>9 DEF ResubscribeOk, connVars, backVars, timeVars, PatienceInv
<1>10. CASE ResubscribeFail
  BY <1>10 DEF ResubscribeFail, BackOff, NextInterval, connVars, appVars, PatienceInv
<1>11. ASSUME NEW d \in ReadTime, NothingToRead(d)
       PROVE  PatienceInv'
  BY <1>11, TimeFacts, QuietFacts, PatienceUnanswered DEF NothingToRead
<1>12. ASSUME NEW d \in ReadTime, ReadFailed(d)
       PROVE  PatienceInv'
  BY <1>12, TimeFacts, QuietFacts, PatienceUnanswered DEF ReadFailed
<1>13. ASSUME NEW d \in PacketTime, ReadAck(d)
       PROVE  PatienceInv'
  BY <1>13, FreshInv DEF ReadAck, Heard
<1>14. ASSUME NEW d \in PacketTime, ReadPublish(d)
       PROVE  PatienceInv'
  BY <1>14, FreshInv DEF ReadPublish, Heard
<1>15. ASSUME NEW d \in PacketTime, ReadOther(d)
       PROVE  PatienceInv'
  BY <1>15, TimeFacts, PatienceUnanswered DEF ReadOther
<1>16. CASE NoPingDue
  BY <1>16 DEF NoPingDue, connVars, backVars, appVars, PatienceInv
<1>17. CASE PingUnanswered
  BY <1>17 DEF PingUnanswered, connVars, backVars, appVars, timeVars, PatienceInv
<1>18. CASE PingOk
  <2>1. outstanding \in Nat /\ unanswered \in Nat /\ pingLeft = -1
    BY <1>18, KeepAliveFacts, ConnectionAssumption DEF PingOk, PingDue, TypeOK
  <2>2. Patience(outstanding + 1) = Patience(outstanding) + PingTimeout + 1
        /\ Patience(outstanding) \in Nat
    BY <2>1, PatienceFacts
  <2> QED
    BY <1>18, <2>1, <2>2, KeepAliveFacts DEF PingOk, PatienceInv
<1>19. CASE PingFail
  BY <1>19 DEF PingFail, connVars, backVars, appVars, timeVars, PatienceInv
<1>20. CASE AlreadyDisconnected
  BY <1>20 DEF AlreadyDisconnected, Lost, connVars, backVars, appVars, PatienceInv
<1>21. CASE Disconnect
  BY <1>21 DEF Disconnect, backVars, PatienceInv
<1>22. CASE EventReturn
  BY <1>22 DEF EventReturn, Lost, backVars, appVars, PatienceInv
<1>23. CASE AppDisconnect
  BY <1>23 DEF AppDisconnect, connVars, backVars, timeVars, PatienceInv
<1>24. CASE AppClose
  BY <1>24 DEF AppClose, backVars, PatienceInv
<1>25. CASE AppFlag
  BY <1>25 DEF AppFlag, backVars, timeVars, PatienceInv
<1>26. CASE AppConnect
  BY <1>26, FreshInv DEF AppConnect, Connected, Heard
<1>27. CASE UNCHANGED vars
  BY <1>27 DEF vars, connVars, backVars, appVars, timeVars, PatienceInv
<1> QED
  BY <1>1, <1>2, <1>3, <1>4, <1>5, <1>6, <1>7, <1>8, <1>9, <1>10, <1>11, <1>12, <1>13,
      <1>14, <1>15, <1>16, <1>17, <1>18, <1>19, <1>20, <1>21, <1>22, <1>23, <1>24, <1>25,
      <1>26, <1>27 DEF Next, YieldNext, AppNext, Read

-----------------------------------------------------------------------------
(* The theorems *)

\* The inductive invariant of the connection.
LEMMA Invariance == Spec => []IInv
<1>1. ASSUME IInv, [Next]_vars
      PROVE  IInv'
  BY <1>1, TypeNext, GapNext, SilenceNext, PatienceNext DEF IInv
<1> QED
  BY <1>1, InitInv, PTL DEF Spec

\* The flags, counters and timers of the connection keep their types; with
\* ENABLE_INFINITE_RECONNECT the wait interval never passes its maximum
\* (_handle_reconnect).
THEOREM TypeCorrect == Spec => []TypeOK
<1>1. IInv => TypeOK
  BY DEF IInv
<1> QED
  BY <1>1, Invariance, PTL

\* For a keep-alive interval that fits its 16-bit field: whatever the intervals
\* and however the application's pauses fall, a client that holds itself connected
\* heard from the broker within MaxSilence (_mqtt_keep_alive, cycle_for_read).
THEOREM DeadPeerDetectedHolds ==
    ASSUME RequestedKeepAlive < KeepAliveRange
    PROVE  Spec => []DeadPeerDetected
<1>1. ASSUME IInv
      PROVE  DeadPeerDetected
  <2> SUFFICES ASSUME isConnected, RequestedKeepAlive > 0
               PROVE  silence <= MaxSilence
    BY DEF DeadPeerDetected
  <2>1. KeepAlive # 0
    BY KeepAliveFacts, ConnectionAssumption
  <2>2. /\ silence \in Nat /\ gap \in Nat /\ pingLeft \in Int
        /\ outstanding \in Nat /\ outstanding <= MQTT_PING_RETRY_TIMES
    BY <1>1, KeepAliveFacts, ConnectionAssumption DEF IInv, TypeOK
  <2>3. Base(outstanding) \in Nat /\ Base(outstanding) + MaxGap <= MaxSilence
    BY <2>2, BaseFacts
  <2>4. gap <= MaxGap
    BY <1>1 DEF IInv, GapInv
  <2>5. \/ pingLeft >= 0 /\ silence + pingLeft <= Base(outstanding)
        \/ silence <= Base(outstanding) + gap
    BY <1>1, <2>1, <2>2 DEF IInv, SilenceInv
  <2>6. MaxSilence \in Int
    BY KeepAliveFacts, GapFacts, ConnectionAssumption DEF MaxSilence
  <2> QED
    BY <2>2, <2>3, <2>4, <2>5, <2>6, GapFacts
<1> QED
  BY <1>1, Invariance, PTL

\* Whatever the intervals, no connection is taken for dead before each of its
\* MQTT_PING_RETRY_TIMES pings has had its full time (_mqtt_keep_alive).
THEOREM PatientDisconnectHolds == Spec => []PatientDisconnect
<1>1. ASSUME IInv
      PROVE  PatientDisconnect
  <2> SUFFICES ASSUME Condemned
               PROVE  unanswered >= PingPatience
    BY DEF PatientDisconnect
  <2>1. /\ unanswered \in Nat /\ pingLeft = -1
        /\ outstanding = MQTT_PING_RETRY_TIMES /\ outstanding \in Nat
    BY <1>1, KeepAliveFacts, ConnectionAssumption DEF IInv, TypeOK, Condemned, PingDue
  <2>2. PingPatience = Patience(outstanding) /\ PingPatience \in Nat
    BY <2>1, PatienceFacts
  <2> QED
    BY <1>1, <2>1, <2>2 DEF IInv, PatienceInv
<1> QED
  BY <1>1, Invariance, PTL

-----------------------------------------------------------------------------
(* The application's view, when it disconnects between its yields only *)

\* Where the client is connected, where it is not, and what that means for the
\* calls of the application: a call of uiot_mqtt_disconnect and one of
\* uiot_mqtt_yield exclude each other.
ViewInv ==
    /\ apc # "idle" => ypc = "out"
    /\ apc = "close" => isConnected
    /\ apc = "flag" => ~isConnected
    /\ ypc \in {"read", "alive", "disconnect", "resubscribe"} => isConnected
    /\ ypc \in {"connect", "event"} => ~isConnected
    /\ wish => ~isConnected /\ ypc = "out" /\ (apc = "idle" => manual)
    /\ told = "up" => isConnected \/ apc = "flag"

\* A client that may try to reconnect.
Retrying ==
    /\ ~isConnected
    /\ \/ ypc \in {"loop", "connect"}
       \/ ypc = "out" /\ apc = "idle" /\ ~manual /\ AutoConnect

\* The wait before the next attempt: what has passed of it and what is left.
Waited ==
    /\ delayLeft >= 0 => sinceTry + delayLeft >= interval
    /\ delayLeft < 0 => sinceTry > interval

\* Such a client waits for its interval, unless that outgrew its maximum.
RetryInv ==
    /\ Retrying => interval >= MIN_RECONNECT_WAIT_INTERVAL
    /\ Retrying /\ interval <= MAX_RECONNECT_WAIT_INTERVAL => Waited
    /\ ypc = "connect" => delayLeft < 0

\* What the delay timer loses, the time since the last attempt gains.
LEMMA WaitedPass ==
    ASSUME TypeOK, NEW d \in Nat, Pass(d), interval' = interval,
           interval <= MAX_RECONNECT_WAIT_INTERVAL, Waited
    PROVE  Waited'
<1>1. /\ delayLeft \in Int /\ delayLeft >= -1
      /\ sinceTry \in Nat /\ interval \in Nat
      /\ MAX_RECONNECT_WAIT_INTERVAL \in Nat
  BY ConnectionAssumption DEF TypeOK
<1>2. /\ delayLeft' = IF delayLeft - d >= 0 THEN delayLeft - d ELSE -1
      /\ sinceTry' = IF sinceTry + d <= MAX_RECONNECT_WAIT_INTERVAL + 1
                       THEN sinceTry + d ELSE MAX_RECONNECT_WAIT_INTERVAL + 1
  BY DEF Pass, Later, Lesser
<1> QED
  BY <1>1, <1>2 DEF Waited

\* Every step keeps what the application was told true.
LEMMA ViewNext ==
    ASSUME AppThread = FALSE, TypeOK, ViewInv, [Next]_vars
    PROVE  ViewInv'
<1> USE DEF ViewInv, connVars, backVars, appVars, timeVars
<1>1. ASSUME NEW d \in 0 .. MaxPause, YieldEnter(d)
      PROVE  ViewInv'
  BY <1>1 DEF YieldEnter
<1>2. CASE LoopExit \/ LoopRead \/ GiveUp \/ TryReconnect \/ WaitReconnect(1)
  BY <1>2 DEF LoopExit, LoopRead, GiveUp, TryReconnect, WaitReconnect
<1>3. CASE ConnectOk \/ ConnectFail \/ ResubscribeOk \/ ResubscribeFail
  BY <1>3 DEF ConnectOk, Connected, ConnectFail, ResubscribeOk, ResubscribeFail, BackOff
<1>4. CASE Read
  BY <1>4 DEF Read, NothingToRead, ReadFailed, ReadAck, ReadPublish, ReadOther, Handled
<1>5. CASE NoPingDue \/ PingUnanswered \/ PingOk \/ PingFail
  BY <1>5 DEF NoPingDue, PingUnanswered, PingOk, PingFail
<1>6. CASE AlreadyDisconnected \/ Disconnect \/ EventReturn
  BY <1>6 DEF AlreadyDisconnected, Disconnect, EventReturn, Lost
<1>7. CASE AppNext
  BY <1>7 DEF AppNext, AppDisconnect, AppClose, AppFlag, AppConnect, Connected, TypeOK
<1>8. CASE UNCHANGED vars
  BY <1>8 DEF vars
<1> QED
  BY <1>1, <1>2, <1>3, <1>4, <1>5, <1>6, <1>7, <1>8 DEF Next, YieldNext

\* Every step keeps the wait before the next attempt.
LEMMA RetryNext ==
    ASSUME AppThread = FALSE, TypeOK, IntervalInv, ViewInv, RetryInv, [Next]_vars
    PROVE  RetryInv'
<1> USE ConnectionAssumption DEF RetryInv, Retrying, connVars, backVars, appVars, timeVars
<1>1. ASSUME NEW d \in 0 .. MaxPause, YieldEnter(d)
      PROVE  RetryInv'
  <2>1. d \in Nat /\ Pass(d) /\ interval' = interval
    BY <1>1, TimeFacts DEF YieldEnter
  <2>2. Retrying' => Retrying /\ ypc' # "connect"
    BY <1>1 DEF YieldEnter
  <2>3. ypc' # "connect"
    BY <1>1 DEF YieldEnter
  <2>4. QED
    BY <2>1, <2>2, <2>3, WaitedPass
<1>2. CASE LoopExit \/ LoopRead \/ GiveUp
  BY <1>2 DEF LoopExit, LoopRead, GiveUp, Waited
<1>3. CASE TryReconnect
  BY <1>3 DEF TryReconnect, Waited
<1>4. CASE WaitReconnect(1)
  <2>1. Pass(1) /\ interval' = interval /\ Retrying /\ ypc' = "loop"
    BY <1>4 DEF WaitReconnect
  <2>2. interval <= MAX_RECONNECT_WAIT_INTERVAL
    BY <1>4 DEF WaitReconnect
  <2>3. QED
    BY <2>1, <2>2, WaitedPass
<1>5. CASE ConnectOk \/ ResubscribeOk \/ ResubscribeFail
  BY <1>5 DEF ConnectOk, Connected, ResubscribeOk, ResubscribeFail, BackOff, ViewInv
<1>6. CASE ConnectFail
  <2>1. interval \in Nat /\ interval >= MIN_RECONNECT_WAIT_INTERVAL
    BY <1>6 DEF ConnectFail, ViewInv, TypeOK
  <2>2. interval' \in Nat /\ interval' >= MIN_RECONNECT_WAIT_INTERVAL
    BY <1>6, <2>1 DEF ConnectFail, BackOff, NextInterval
  <2>3. interval' <= MAX_RECONNECT_WAIT_INTERVAL => delayLeft' = interval' /\ sinceTry' = 0
    BY <1>6, <2>2 DEF ConnectFail, BackOff
  <2>4. ypc' = "loop"
    BY <1>6 DEF ConnectFail, BackOff
  <2>5. QED
    BY <2>2, <2>3, <2>4 DEF Waited
<1>7. CASE Read
  BY <1>7 DEF Read, NothingToRead, ReadFailed, ReadAck, ReadPublish, ReadOther, Handled, ViewInv
<1>8. CASE NoPingDue \/ PingUnanswered \/ PingOk \/ PingFail
  BY <1>8 DEF NoPingDue, PingUnanswered, PingOk, PingFail, ViewInv
<1>9. CASE AlreadyDisconnected \/ Disconnect \/ EventReturn
  BY <1>9 DEF AlreadyDisconnected, Disconnect, EventReturn, Lost, Waited
<1>10. CASE AppNext
  BY <1>10 DEF AppNext, AppDisconnect, AppClose, AppFlag, AppConnect, Connected, ViewInv, TypeOK
<1>11. CASE UNCHANGED vars
  BY <1>11 DEF vars, Waited
<1> QED
  BY <1>1, <1>2, <1>3, <1>4, <1>5, <1>6, <1>7, <1>8, <1>9, <1>10, <1>11 DEF Next, YieldNext

\* The two hold together in every state.
LEMMA ViewInvariance ==
    ASSUME AppThread = FALSE
    PROVE  Spec => [](ViewInv /\ RetryInv)
<1>1. Init => ViewInv /\ RetryInv
  BY DEF Init, ViewInv, RetryInv, Retrying
<1>2. ASSUME IInv, ViewInv, RetryInv, [Next]_vars
      PROVE  ViewInv' /\ RetryInv'
  BY <1>2, ViewNext, RetryNext DEF IInv
<1> QED
  BY <1>1, <1>2, Invariance, PTL DEF Spec

\* If the application disconnects from the thread that yields: whatever the
\* intervals, no attempt to reconnect comes before its wait interval is over
\* (_handle_disconnect, _handle_reconnect).
THEOREM NoEarlyRetryHolds ==
    ASSUME AppThread = FALSE
    PROVE  Spec => []NoEarlyRetry
<1>1. IInv /\ ViewInv /\ RetryInv => NoEarlyRetry
  BY DEF IInv, IntervalInv, ViewInv, RetryInv, Retrying, Waited, NoEarlyRetry
<1> QED
  BY <1>1, Invariance, ViewInvariance, PTL

\* If the application disconnects from the thread that yields: between its calls
\* it is right about the connection, and a client it disconnected stays so
\* (uiot_mqtt_yield, _handle_disconnect, uiot_mqtt_disconnect).
THEOREM AppViewSoundHolds ==
    ASSUME AppThread = FALSE
    PROVE  Spec => []AppViewSound
<1>1. ViewInv => AppViewSound
  BY DEF ViewInv, AppViewSound, ToldIsTrue, ManualStays
<1> QED
  BY <1>1, ViewInvariance, PTL

\* Whatever the intervals and whichever thread disconnects: a client that gave up
\* reconnecting stays down until the application connects it (_handle_reconnect).
THEOREM StaysDownHolds == Spec => StaysDown
<1>1. ASSUME TypeOK, Next, GivenUp
      PROVE  GivenUp' \/ AppConnect
  <2>1. ~isConnected /\ ypc \in {"loop", "out"} /\ ~(interval <= MAX_RECONNECT_WAIT_INTERVAL)
    BY <1>1, ConnectionAssumption DEF GivenUp, TypeOK
  <2> USE DEF GivenUp, connVars, backVars
  <2>2. CASE \E d \in 0 .. MaxPause : YieldEnter(d)
    BY <1>1, <2>2 DEF YieldEnter
  <2>3. CASE LoopExit \/ GiveUp
    BY <1>1, <2>3 DEF LoopExit, GiveUp
  <2>4. CASE AppNext
    BY <1>1, <2>4 DEF AppNext, AppDisconnect, AppClose, AppFlag
  <2>5. ~(\/ LoopRead \/ TryReconnect \/ WaitReconnect(1)
          \/ ConnectOk \/ ConnectFail \/ ResubscribeOk \/ ResubscribeFail \/ Read
          \/ NoPingDue \/ PingUnanswered \/ PingOk \/ PingFail
          \/ AlreadyDisconnected \/ Disconnect \/ EventReturn)
    BY <2>1 DEF LoopRead, TryReconnect, WaitReconnect, ConnectOk, ConnectFail, ResubscribeOk,
       ResubscribeFail, Read, NothingToRead, ReadFailed, ReadAck, ReadPublish, ReadOther,
       NoPingDue, PingUnanswered, PingOk, PingFail, AlreadyDisconnected, Disconnect, EventReturn
  <2> QED
    BY <1>1, <2>2, <2>3, <2>4, <2>5 DEF Next, YieldNext
<1>2. TypeOK /\ [Next]_vars => [GivenUp => GivenUp' \/ AppConnect]_vars
  BY <1>1
<1> QED
  BY <1>2, TypeCorrect, PTL DEF Spec, StaysDown
=============================================================================
