------------------------- MODULE MqttPublishProofs -------------------------
(* Proofs about MqttPublish, for any number of threads and any bounds. *)
EXTENDS MqttPublish, FiniteSetTheorems, WellFoundedInduction, TLAPS

\* The calls that were counted in started but have no packet id yet.
Pending == {t \in Thread : pc[t] \in {"lock", "id"} /\ qos[t] = 1}

\* Every started QoS1 call has an id or will take one: ids never run out.
Budget == issued + Cardinality(Pending) = started

\* Where a thread is inside uiot_mqtt_publish it owns lock_write_buf; the
\* yield loop owns it while sending and owns lock_list_pub while iterating.
LockInv ==
    /\ \A t \in Thread :
          pc[t] \in {"id", "serialize", "push", "send", "remove"} => lockWriteBuf = t
    /\ ypc = "wsend" => lockWriteBuf = Yielder
    /\ pc[Yielder] # "idle" => ypc \in {"read", "proc", "handler"}
    /\ lockListPub = IF ypc \in {"scan", "handler"} THEN Yielder ELSE NoThread

\* The owner of lock_write_buf works on the latest serial.
CallInv ==
    \A t \in Thread :
        /\ pc[t] \in {"id", "push", "remove"} => qos[t] = 1
        /\ qos[t] = 1 /\ pc[t] = "serialize" => issued >= 1
        /\ qos[t] = 1 /\ pc[t] \in {"push", "send", "remove"} =>
              mine[t] = issued /\ issued >= 1
        /\ qos[t] = 0 /\ pc[t] = "send" => mine[t] = 0

\* While a node is being timed out, the iterator knows it.
ScanInv == ypc \in {"window", "handler"} => current \in Serial

Core == TypeOK /\ LockInv /\ CallInv /\ ScanInv /\ Budget

-----------------------------------------------------------------------------
\* There are finitely many threads.
LEMMA ThreadFinite == IsFiniteSet(Thread)
BY PublishAssumption, FS_AddElement DEF Thread

\* So a set of threads can be counted.
LEMMA PendingFinite ==
    ASSUME NEW S \in SUBSET Thread
    PROVE  IsFiniteSet(S) /\ Cardinality(S) \in Nat
BY ThreadFinite, FS_Subset, FS_CardinalityType

\* A non-empty bounded set of serials has a largest member.
LEMMA LargestSerial ==
    ASSUME NEW S \in SUBSET Serial, S # {}
    PROVE  \E m \in S : \A k \in S : k <= m
<1> DEFINE T == {MaxPublish - m : m \in S}
<1>1. MaxPublish \in Nat /\ \A m \in S : m \in 1 .. MaxPublish
  BY PublishAssumption DEF Serial
<1>2. T \subseteq Nat /\ T # {}
  BY <1>1
<1> HIDE DEF T
<1>3. \E x \in T : \A y \in T : ~(<<y, x>> \in OpToRel(<, Nat))
  BY <1>2, NatLessThanWellFounded, WFMin
<1>4. PICK x \in T : \A y \in T : ~(y < x)
  BY <1>2, <1>3 DEF OpToRel
<1>5. PICK m \in S : x = MaxPublish - m
  BY <1>4 DEF T
<1>6. ASSUME NEW k \in S
      PROVE  k <= m
  <2>1. MaxPublish - k \in T
    BY DEF T
  <2>2. ~(MaxPublish - k < MaxPublish - m)
    BY <1>4, <1>5, <2>1
  <2>3. QED
    BY <1>1, <2>2
<1>7. QED
  BY <1>5, <1>6

\* ListNode.prev of a node is an earlier node of the list, or NULL.
LEMMA PrevInList ==
    ASSUME list \subseteq Serial, NEW n \in Int
    PROVE  /\ Prev(n) \in list \cup {0} /\ Prev(n) \in 0 .. MaxPublish
           /\ Prev(n) # 0 => Prev(n) < n
<1> DEFINE before == {m \in list : m < n}
<1>1. CASE before = {}
  BY <1>1, PublishAssumption DEF Prev
<1>2. CASE before # {}
  <2>1. before \in SUBSET Serial
    OBVIOUS
  <2>2. \E m \in before : \A k \in before : k <= m
    BY <1>2, <2>1, LargestSerial
  <2>3. Prev(n) \in before
    BY <1>2, <2>2 DEF Prev
  <2>4. QED
    BY <2>1, <2>3 DEF Serial
<1>3. QED
  BY <1>1, <1>2

-----------------------------------------------------------------------------
(* The core invariant *)

\* The client that IOT_MQTT_Construct returns satisfies the core invariant.
LEMMA CoreInit == Init => Core
<1> SUFFICES ASSUME Init PROVE Core
  OBVIOUS
<1>1. TypeOK
  <2>1. /\ nextPacketId \in 1 .. MAX_PACKET_ID
        /\ issued \in 0 .. MaxPublish /\ started \in 0 .. MaxPublish
        /\ cursor \in 0 .. MaxPublish /\ current \in 0 .. MaxPublish
        /\ writeBuf \in [by : Thread \cup {NoThread}, serial : 0 .. MaxPublish]
    BY PublishAssumption DEF Init
  <2>2. /\ nodeState \in [Serial -> {"NORMAL", "INVALID"}]
        /\ msgId \in [Serial -> 0 .. MAX_PACKET_ID]
        /\ pc \in [Thread -> PubPc]
        /\ qos \in [Thread -> 0 .. 1]
        /\ mine \in [Thread -> 0 .. MaxPublish]
    BY PublishAssumption DEF Init, PubPc
  <2>3. QED
    BY <2>1, <2>2 DEF Init, TypeOK, YieldPc, YieldPacket
<1>2. LockInv /\ CallInv /\ ScanInv
  BY PublishAssumption DEF Init, LockInv, CallInv, ScanInv, Thread
<1>3. Budget
  <2>1. Pending = {}
    BY DEF Init, Pending
  <2>2. QED
    BY <2>1, FS_EmptySet DEF Init, Budget
<1>4. QED
  BY <1>1, <1>2, <1>3 DEF Core

\* A call enters: one more pending call, one more started.
LEMMA EnterCore ==
    ASSUME Core, NEW t \in Thread, NEW q \in QosLevel, PublishEnter(t, q)
    PROVE  Core'
<1> USE PublishAssumption DEF Core, connVars, nodeVars, yieldVars, repVars
<1>1. q \in 0 .. 1 /\ t \in Thread /\ pc[t] = "idle"
  BY DEF PublishEnter, MayPublish, At
<1>2. TypeOK'
  BY <1>1 DEF PublishEnter, Goto, TypeOK, PubPc
<1>3. LockInv' /\ CallInv' /\ ScanInv'
  BY <1>1 DEF PublishEnter, MayPublish, At, Goto, TypeOK, LockInv, CallInv, ScanInv
<1>4. Budget'
  <2>1. IsFiniteSet(Pending) /\ Cardinality(Pending) \in Nat
    BY PendingFinite DEF Pending
  <2>2. t \notin Pending
    BY <1>1 DEF Pending
  <2>3. CASE q = 0
    <3>1. Pending' = Pending
      BY <1>1, <2>3 DEF PublishEnter, Goto, TypeOK, Pending
    <3>2. QED
      BY <2>3, <3>1 DEF PublishEnter, Budget, TypeOK
  <2>4. CASE q = 1
    <3>1. Pending' = Pending \cup {t}
      BY <1>1, <2>4 DEF PublishEnter, Goto, TypeOK, Pending
    <3>2. Cardinality(Pending') = Cardinality(Pending) + 1
      BY <2>1, <2>2, <3>1, FS_AddElement
    <3>3. QED
      BY <2>1, <2>4, <3>2 DEF PublishEnter, Budget, TypeOK
  <2>5. QED
    BY <1>1, <2>3, <2>4
<1>5. QED
  BY <1>2, <1>3, <1>4

\* The owner of lock_write_buf takes an id: one call is pending no more.
LEMMA GetIdCore ==
    ASSUME Core, NEW t \in Thread, GetNextPacketId(t)
    PROVE  Core'
<1> USE PublishAssumption DEF Core, connVars, nodeVars, yieldVars, repVars
<1>1. pc[t] = "id" /\ qos[t] = 1 /\ t \in Pending
  BY DEF GetNextPacketId, At, CallInv, Pending
<1>2. IsFiniteSet(Pending) /\ Cardinality(Pending) \in Nat
  BY PendingFinite DEF Pending
<1>3. Pending' = Pending \ {t}
  BY <1>1 DEF GetNextPacketId, Goto, TypeOK, Pending
<1>4. Cardinality(Pending') = Cardinality(Pending) - 1 /\ Cardinality(Pending') \in Nat
  <2>1. Cardinality(Pending') = Cardinality(Pending) - 1
    BY <1>1, <1>2, <1>3, FS_RemoveElement
  <2>2. Cardinality(Pending') \in Nat
    BY <1>2, <1>3, FS_RemoveElement, FS_CardinalityType
  <2>3. QED
    BY <2>1, <2>2
<1>5. Budget'
  BY <1>2, <1>4 DEF GetNextPacketId, Budget, TypeOK
<1>6. issued' \in 0 .. MaxPublish
  BY <1>4, <1>5 DEF GetNextPacketId, Budget, TypeOK
<1>7. TypeOK'
  BY <1>1, <1>6 DEF GetNextPacketId, Goto, NextId, TypeOK, PubPc
<1>8. LockInv' /\ ScanInv'
  BY <1>1 DEF GetNextPacketId, Goto, TypeOK, LockInv, ScanInv
<1>9. CallInv'
  BY <1>1 DEF GetNextPacketId, Goto, TypeOK, LockInv, CallInv
<1>10. QED
  BY <1>5, <1>7, <1>8, <1>9

\* The other steps of uiot_mqtt_publish keep the pending calls as they are.
LEMMA PublishCore ==
    ASSUME Core, NEW t \in Thread,
           \/ LockWriteBuf(t)
           \/ Serialize(t)
           \/ SerializeFail(t)
           \/ PushPubInfo(t)
           \/ PushFail(t)
           \/ SendOk(t)
           \/ \E delivered \in BOOLEAN : SendFail(t, delivered)
           \/ ListRemove(t)
    PROVE  Core'
<1> USE PublishAssumption DEF Core, connVars, idVars, nodeVars, yieldVars, repVars
<1>a. qos[t] = 1 /\ pc[t] \in {"push", "send", "remove"} => mine[t] \in Serial
  BY DEF CallInv, TypeOK, Serial
<1>b. Acked \subseteq Serial
  <2>1. writeBuf.serial \in 0 .. MaxPublish /\ acks \subseteq Serial
    BY DEF TypeOK
  <2>2. writeBuf.serial # 0 => writeBuf.serial \in Serial
    BY <2>1 DEF Serial
  <2>3. QED
    BY <2>1, <2>2 DEF Acked
<1>1. CASE LockWriteBuf(t)
  <2>1. TypeOK'
    BY <1>1 DEF LockWriteBuf, At, Goto, Free, TypeOK, PubPc, Thread
  <2>2. LockInv' /\ ScanInv'
    BY <1>1 DEF LockWriteBuf, At, Goto, Free, TypeOK, LockInv, ScanInv, Thread
  <2>3. CallInv'
    BY <1>1 DEF LockWriteBuf, At, Goto, Free, TypeOK, LockInv, CallInv, Thread
  <2>4. Pending' = Pending /\ UNCHANGED <<issued, started>>
    BY <1>1 DEF LockWriteBuf, At, Goto, Free, TypeOK, CallInv, Pending
  <2>5. QED
    BY <2>1, <2>2, <2>3, <2>4 DEF Budget
<1>2. CASE Serialize(t)
  <2>1. TypeOK'
    <3>1. qos[t] = 1 => issued \in Serial
      BY <1>2 DEF Serialize, At, TypeOK, CallInv, Serial
    <3>2. pc' \in [Thread -> PubPc]
      BY <1>2 DEF Serialize, Goto, TypeOK, PubPc
    <3>3. /\ mine' \in [Thread -> 0 .. MaxPublish]
          /\ writeBuf' \in [by : Thread \cup {NoThread}, serial : 0 .. MaxPublish]
      BY <1>2, <3>1 DEF Serialize, TypeOK, Serial
    <3>4. msgId' \in [Serial -> 0 .. MAX_PACKET_ID]
      BY <1>2, <3>1 DEF Serialize, TypeOK, Serial
    <3>5. QED
      BY <1>2, <3>2, <3>3, <3>4 DEF Serialize, TypeOK
  <2>2. LockInv' /\ ScanInv'
    BY <1>2 DEF Serialize, At, Goto, TypeOK, LockInv, ScanInv, Thread
  <2>3. CallInv'
    BY <1>2 DEF Serialize, At, Goto, TypeOK, LockInv, CallInv, Thread
  <2>4. Pending' = Pending /\ UNCHANGED <<issued, started>>
    BY <1>2 DEF Serialize, At, Goto, TypeOK, CallInv, Pending
  <2>5. QED
    BY <2>1, <2>2, <2>3, <2>4 DEF Budget
<1>3. CASE SerializeFail(t)
  <2>1. TypeOK'
    BY <1>3 DEF SerializeFail, At, Goto, Return, TypeOK, PubPc
  <2>2. LockInv' /\ ScanInv'
    BY <1>3 DEF SerializeFail, At, Goto, Return, TypeOK, LockInv, ScanInv, Thread
  <2>3. CallInv'
    BY <1>3 DEF SerializeFail, At, Goto, Return, TypeOK, LockInv, CallInv, Thread
  <2>4. Pending' = Pending /\ UNCHANGED <<issued, started>>
    BY <1>3 DEF SerializeFail, At, Goto, Return, TypeOK, CallInv, Pending
  <2>5. QED
    BY <2>1, <2>2, <2>3, <2>4 DEF Budget
<1>4. CASE PushPubInfo(t)
  <2>1. TypeOK'
    BY <1>a, <1>4 DEF PushPubInfo, At, Goto, TypeOK, CallInv, PubPc
  <2>2. LockInv' /\ ScanInv'
    BY <1>4 DEF PushPubInfo, At, Goto, TypeOK, LockInv, ScanInv, Thread
  <2>3. CallInv'
    BY <1>4 DEF PushPubInfo, At, Goto, TypeOK, LockInv, CallInv, Thread
  <2>4. Pending' = Pending /\ UNCHANGED <<issued, started>>
    BY <1>4 DEF PushPubInfo, At, Goto, TypeOK, CallInv, Pending
  <2>5. QED
    BY <2>1, <2>2, <2>3, <2>4 DEF Budget
<1>5. CASE PushFail(t)
  <2>1. TypeOK'
    BY <1>a, <1>5 DEF PushFail, At, Goto, Return, TypeOK, CallInv, PubPc
  <2>2. LockInv' /\ ScanInv'
    BY <1>5 DEF PushFail, At, Goto, Return, TypeOK, LockInv, ScanInv, Thread
  <2>3. CallInv'
    BY <1>5 DEF PushFail, At, Goto, Return, TypeOK, LockInv, CallInv, Thread
  <2>4. Pending' = Pending /\ UNCHANGED <<issued, started>>
    BY <1>5 DEF PushFail, At, Goto, Return, TypeOK, CallInv, Pending
  <2>5. QED
    BY <2>1, <2>2, <2>3, <2>4 DEF Budget
<1>6. CASE SendOk(t)
  <2>1. TypeOK'
    BY <1>a, <1>b, <1>6 DEF SendOk, At, Goto, Return, TypeOK, CallInv, PubPc
  <2>2. LockInv' /\ ScanInv'
    BY <1>6 DEF SendOk, At, Goto, Return, Acked, TypeOK, LockInv, ScanInv, Thread
  <2>3. CallInv'
    BY <1>6 DEF SendOk, At, Goto, Return, Acked, TypeOK, LockInv, CallInv, Thread
  <2>4. Pending' = Pending /\ UNCHANGED <<issued, started>>
    BY <1>6 DEF SendOk, At, Goto, Return, Acked, TypeOK, CallInv, Pending
  <2>5. QED
    BY <2>1, <2>2, <2>3, <2>4 DEF Budget
<1>7. ASSUME NEW delivered \in BOOLEAN, SendFail(t, delivered)
      PROVE  Core'
  <2>1. TypeOK'
    BY <1>a, <1>b, <1>7 DEF SendFail, At, Goto, Return, TypeOK, CallInv, PubPc
  <2>2. LockInv' /\ ScanInv'
    BY <1>7 DEF SendFail, At, Goto, Return, Acked, TypeOK, LockInv, ScanInv, Thread
  <2>3. CallInv'
    BY <1>7 DEF SendFail, At, Goto, Return, Acked, TypeOK, LockInv, CallInv, Thread
  <2>4. Pending' = Pending /\ UNCHANGED <<issued, started>>
    BY <1>7 DEF SendFail, At, Goto, Return, Acked, TypeOK, CallInv, Pending
  <2>5. QED
    BY <2>1, <2>2, <2>3, <2>4 DEF Budget
<1>8. CASE ListRemove(t)
  <2>1. TypeOK'
    BY <1>a, <1>8 DEF ListRemove, At, Goto, Return, TypeOK, CallInv, PubPc
  <2>2. LockInv' /\ ScanInv'
    BY <1>8 DEF ListRemove, At, Goto, Return, TypeOK, LockInv, ScanInv, Thread
  <2>3. CallInv'
    BY <1>8 DEF ListRemove, At, Goto, Return, TypeOK, LockInv, CallInv, Thread
  <2>4. Pending' = Pending /\ UNCHANGED <<issued, started>>
    BY <1>8 DEF ListRemove, At, Goto, Return, TypeOK, CallInv, Pending
  <2>5. QED
    BY <2>1, <2>2, <2>3, <2>4 DEF Budget
<1>9. QED
  BY <1>1, <1>2, <1>3, <1>4, <1>5, <1>6, <1>7, <1>8

\* The steps of the yield loop and of the environment leave the calls alone.
LEMMA CallsUntouched ==
    ASSUME YieldStep \/ Environment
    PROVE  UNCHANGED <<pc, qos, mine, nextPacketId, issued, started>>
<1> USE DEF callVars, idVars
<1>1. CASE YieldStep
  BY <1>1 DEF YieldStep, NothingToRead, HandlePuback, HandlePublish, ReadFailed,
     NetworkConnect, YieldLockWriteBuf, YieldSendOk, YieldSendFail, Connack,
     KeepAlive, PingUnanswered, ProcBegin, ScanEnd, ScanInvalid,
     ScanSkip, ScanTimeout, TimeoutEvent, WindowFreed, HandlerReturn
<1>2. CASE Environment
  BY <1>2 DEF Environment, TimerExpires, LinkLoss
<1>3. QED
  BY <1>1, <1>2

\* Every step of uiot_mqtt_yield and of the environment keeps the core invariant.
LEMMA YieldCore ==
    ASSUME Core, YieldStep \/ Environment
    PROVE  Core'
<1> USE PublishAssumption DEF Core, InYield, At, connVars, idVars, nodeVars, callVars, yieldVars, repVars
<1>1. CallInv' /\ Budget'
  BY CallsUntouched DEF CallInv, Budget, Pending
<1> DEFINE Rest == TypeOK' /\ LockInv' /\ ScanInv'
<1>2. \A n \in Int : Prev(n) \in list \cup {0} /\ Prev(n) \in 0 .. MaxPublish
  BY PrevInList DEF TypeOK
<1>3. ASSUME NothingToRead
      PROVE  Rest
  <2>1. TypeOK'
    BY <1>3 DEF NothingToRead, TypeOK, YieldPc, YieldPacket
  <2>2. LockInv' /\ ScanInv'
    BY <1>3 DEF NothingToRead, TypeOK, LockInv, ScanInv, Thread
  <2>3. QED
    BY <2>1, <2>2
<1>4. ASSUME NEW n \in Serial, HandlePuback(n)
      PROVE  Rest
  <2>1. TypeOK'
    BY <1>4 DEF HandlePuback, Masked, TypeOK, YieldPc, YieldPacket
  <2>2. LockInv' /\ ScanInv'
    BY <1>4 DEF HandlePuback, Masked, TypeOK, LockInv, ScanInv, Thread
  <2>3. QED
    BY <2>1, <2>2
<1>5. ASSUME HandlePublish
      PROVE  Rest
  <2>1. TypeOK'
    BY <1>5 DEF HandlePublish, StartWrite, TypeOK, YieldPc, YieldPacket
  <2>2. LockInv' /\ ScanInv'
    BY <1>5 DEF HandlePublish, StartWrite, TypeOK, LockInv, ScanInv, Thread
  <2>3. QED
    BY <2>1, <2>2
<1>6. ASSUME ReadFailed
      PROVE  Rest
  <2>1. TypeOK'
    BY <1>6 DEF ReadFailed, StartWrite, TypeOK, YieldPc, YieldPacket
  <2>2. LockInv' /\ ScanInv'
    BY <1>6 DEF ReadFailed, StartWrite, TypeOK, LockInv, ScanInv, Thread
  <2>3. QED
    BY <2>1, <2>2
<1>7. ASSUME NetworkConnect
      PROVE  Rest
  <2>1. TypeOK'
    BY <1>7 DEF NetworkConnect, StartWrite, TypeOK, YieldPc, YieldPacket
  <2>2. LockInv' /\ ScanInv'
    BY <1>7 DEF NetworkConnect, StartWrite, TypeOK, LockInv, ScanInv, Thread
  <2>3. QED
    BY <2>1, <2>2
<1>8. ASSUME YieldLockWriteBuf
      PROVE  Rest
  <2>1. TypeOK'
    BY <1>8 DEF YieldLockWriteBuf, Free, TypeOK, YieldPc, YieldPacket, Thread
  <2>2. LockInv' /\ ScanInv'
    BY <1>8 DEF YieldLockWriteBuf, Free, TypeOK, LockInv, ScanInv, Thread
  <2>3. QED
    BY <2>1, <2>2
<1>9. ASSUME YieldSendOk
      PROVE  Rest
  <2>1. TypeOK'
    BY <1>9 DEF YieldSendOk, WriteDone, Disconnected, TypeOK, YieldPc, YieldPacket
  <2>2. LockInv' /\ ScanInv'
    BY <1>9 DEF YieldSendOk, WriteDone, Disconnected, TypeOK, LockInv, ScanInv, Thread
  <2>3. QED
    BY <2>1, <2>2
<1>10. ASSUME YieldSendFail
      PROVE  Rest
  <2>1. TypeOK'
    BY <1>10 DEF YieldSendFail, StartWrite, WriteDone, Disconnected, TypeOK, YieldPc, YieldPacket
  <2>2. LockInv' /\ ScanInv'
    BY <1>10 DEF YieldSendFail, StartWrite, WriteDone, Disconnected, TypeOK, LockInv, ScanInv, Thread
  <2>3. QED
    BY <2>1, <2>2
<1>11. ASSUME NEW ok \in BOOLEAN, Connack(ok)
      PROVE  Rest
  <2>1. TypeOK'
    BY <1>11 DEF Connack, TypeOK, YieldPc, YieldPacket
  <2>2. LockInv' /\ ScanInv'
    BY <1>11 DEF Connack, TypeOK, LockInv, ScanInv, Thread
  <2>3. QED
    BY <2>1, <2>2
<1>12. ASSUME KeepAlive
      PROVE  Rest
  <2>1. TypeOK'
    BY <1>12 DEF KeepAlive, StartWrite, TypeOK, YieldPc, YieldPacket
  <2>2. LockInv' /\ ScanInv'
    BY <1>12 DEF KeepAlive, StartWrite, TypeOK, LockInv, ScanInv, Thread
  <2>3. QED
    BY <2>1, <2>2
<1>13. ASSUME PingUnanswered
      PROVE  Rest
  <2>1. TypeOK'
    BY <1>13 DEF PingUnanswered, StartWrite, TypeOK, YieldPc, YieldPacket
  <2>2. LockInv' /\ ScanInv'
    BY <1>13 DEF PingUnanswered, StartWrite, TypeOK, LockInv, ScanInv, Thread
  <2>3. QED
    BY <2>1, <2>2
<1>14. ASSUME ProcBegin
      PROVE  Rest
  <2>1. TypeOK'
    BY <1>2, <1>14 DEF ProcBegin, Free, TypeOK, YieldPc, YieldPacket, Thread
  <2>2. LockInv' /\ ScanInv'
    BY <1>2, <1>14 DEF ProcBegin, Free, TypeOK, LockInv, ScanInv, Thread
  <2>3. QED
    BY <2>1, <2>2
<1>15. ASSUME ScanEnd
      PROVE  Rest
  <2>1. TypeOK'
    BY <1>15 DEF ScanEnd, TypeOK, YieldPc, YieldPacket
  <2>2. LockInv' /\ ScanInv'
    BY <1>15 DEF ScanEnd, TypeOK, LockInv, ScanInv, Thread
  <2>3. QED
    BY <2>1, <2>2
<1>16. ASSUME ScanInvalid
      PROVE  Rest
  <2>1. TypeOK'
    BY <1>2, <1>16 DEF ScanInvalid, TypeOK, YieldPc, YieldPacket
  <2>2. LockInv' /\ ScanInv'
    BY <1>2, <1>16 DEF ScanInvalid, TypeOK, LockInv, ScanInv, Thread
  <2>3. QED
    BY <2>1, <2>2
<1>17. ASSUME ScanSkip
      PROVE  Rest
  <2>1. TypeOK'
    BY <1>2, <1>17 DEF ScanSkip, TypeOK, YieldPc, YieldPacket
  <2>2. LockInv' /\ ScanInv'
    BY <1>2, <1>17 DEF ScanSkip, TypeOK, LockInv, ScanInv, Thread
  <2>3. QED
    BY <2>1, <2>2
<1>18. ASSUME ScanTimeout
      PROVE  Rest
  <2>1. TypeOK'
    BY <1>2, <1>18 DEF ScanTimeout, TypeOK, YieldPc, YieldPacket
  <2>2. LockInv' /\ ScanInv'
    BY <1>2, <1>18 DEF ScanTimeout, TypeOK, LockInv, ScanInv, Thread, Serial
  <2>3. QED
    BY <2>1, <2>2
<1>19. ASSUME TimeoutEvent
      PROVE  Rest
  <2>1. TypeOK'
    BY <1>19 DEF TimeoutEvent, Free, TypeOK, YieldPc, YieldPacket, Thread
  <2>2. LockInv' /\ ScanInv'
    BY <1>19 DEF TimeoutEvent, Free, TypeOK, LockInv, ScanInv, Thread
  <2>3. QED
    BY <2>1, <2>2
<1>20. ASSUME WindowFreed
      PROVE  Rest
  <2>1. TypeOK'
    BY <1>20 DEF WindowFreed, Free, TypeOK, ScanInv, YieldPc, YieldPacket, Thread
  <2>2. LockInv' /\ ScanInv'
    BY <1>20 DEF WindowFreed, Free, TypeOK, LockInv, ScanInv, Thread
  <2>3. QED
    BY <2>1, <2>2
<1>21. ASSUME HandlerReturn
      PROVE  Rest
  <2>1. TypeOK'
    BY <1>21 DEF HandlerReturn, TypeOK, YieldPc, YieldPacket
  <2>2. LockInv' /\ ScanInv'
    BY <1>21 DEF HandlerReturn, TypeOK, LockInv, ScanInv, Thread
  <2>3. QED
    BY <2>1, <2>2
<1>22. ASSUME NEW n \in Serial, TimerExpires(n)
      PROVE  Rest
  <2>1. TypeOK'
    BY <1>22 DEF TimerExpires, TypeOK, YieldPc, YieldPacket
  <2>2. LockInv' /\ ScanInv'
    BY <1>22 DEF TimerExpires, TypeOK, LockInv, ScanInv, Thread
  <2>3. QED
    BY <2>1, <2>2
<1>23. ASSUME LinkLoss
      PROVE  Rest
  <2>1. TypeOK'
    BY <1>23 DEF LinkLoss, TypeOK, YieldPc, YieldPacket
  <2>2. LockInv' /\ ScanInv'
    BY <1>23 DEF LinkLoss, TypeOK, LockInv, ScanInv, Thread
  <2>3. QED
    BY <2>1, <2>2
<1>24. Rest
  BY <1>3, <1>4, <1>5, <1>6, <1>7, <1>8, <1>9, <1>10, <1>11, <1>12,
     <1>13, <1>14, <1>15, <1>16, <1>17, <1>18, <1>19, <1>20, <1>21, <1>22, <1>23
     DEF YieldStep, Environment
<1>25. QED
  BY <1>1, <1>24

\* Every step keeps the core invariant.
LEMMA CoreNext == Core /\ [Next]_vars => Core'
<1> SUFFICES ASSUME Core, [Next]_vars PROVE Core'
  OBVIOUS
<1>1. ASSUME NEW t \in Thread, CallStep(t)
      PROVE  Core'
  BY <1>1, EnterCore, GetIdCore, PublishCore DEF CallStep
<1>2. CASE YieldStep \/ Environment
  BY <1>2, YieldCore
<1>3. CASE UNCHANGED vars
  BY <1>3 DEF vars, connVars, idVars, nodeVars, callVars, yieldVars, repVars, Core,
     TypeOK, LockInv, CallInv, ScanInv, Budget, Pending
<1>4. QED
  BY <1>1, <1>2, <1>3 DEF Next

\* Type correctness and lock ownership: whoever works on write_buf owns
\* lock_write_buf, whoever iterates over the list owns lock_list_pub.
THEOREM CoreInvariant == Spec => []Core
<1>1. QED
  BY CoreInit, CoreNext, PTL DEF Spec

\* Every variable keeps its type: in particular next_packet_id stays within
\* 1 .. MAX_PACKET_ID and no more ids are handed out than publishes started.
THEOREM TypeCorrect == Spec => []TypeOK
<1>1. Core => TypeOK
  BY DEF Core
<1>2. QED
  BY <1>1, CoreInvariant, PTL

-----------------------------------------------------------------------------
(* The list never grows past its bound *)

\* A set of serials is finite, so list_pub_wait_ack has a length.
LEMMA ListFinite ==
    ASSUME NEW S \in SUBSET Serial
    PROVE  IsFiniteSet(S) /\ Cardinality(S) \in Nat
<1>1. IsFiniteSet(1 .. MaxPublish)
  <2>1. 1 \in Int /\ MaxPublish \in Int
    BY PublishAssumption
  <2>2. QED
    BY <2>1, FS_Interval
<1>2. QED
  BY <1>1, FS_Subset, FS_CardinalityType DEF Serial

\* A step keeps the list, shortens it, or appends one node where there is room.
LEMMA ListSteps ==
    ASSUME Next
    PROVE  \/ list' \subseteq list
           \/ \E n : list' = list \cup {n} /\ HasRoom
<1> USE DEF nodeVars
<1>1. ASSUME NEW t \in Thread, CallStep(t)
      PROVE  \/ list' \subseteq list
             \/ \E n : list' = list \cup {n} /\ HasRoom
  BY <1>1 DEF CallStep, PublishEnter, LockWriteBuf, GetNextPacketId, Serialize,
     SerializeFail, PushPubInfo, PushFail, SendOk, SendFail, ListRemove
<1>2. CASE YieldStep
  BY <1>2 DEF YieldStep, NothingToRead, HandlePuback, HandlePublish, ReadFailed,
     NetworkConnect, YieldLockWriteBuf, YieldSendOk, YieldSendFail, Connack,
     KeepAlive, PingUnanswered, ProcBegin, ScanEnd, ScanInvalid,
     ScanSkip, ScanTimeout, TimeoutEvent, WindowFreed, HandlerReturn
<1>3. CASE Environment
  BY <1>3 DEF Environment, TimerExpires, LinkLoss
<1>4. QED
  BY <1>1, <1>2, <1>3 DEF Next

\* list_pub_wait_ack holds at most MAX_REPUB_NUM nodes in every state, for any
\* number of publishing threads.
THEOREM ListBoundHolds == Spec => []ListBound
<1>1. Init => ListBound
  BY FS_EmptySet, PublishAssumption DEF Init, ListBound
<1>2. Core /\ Core' /\ ListBound /\ [Next]_vars => ListBound'
  <2> SUFFICES ASSUME Core, Core', ListBound, [Next]_vars PROVE ListBound'
    OBVIOUS
  <2>1. list \in SUBSET Serial /\ list' \in SUBSET Serial
    BY DEF Core, TypeOK
  <2>2. /\ IsFiniteSet(list) /\ Cardinality(list) \in Nat
        /\ IsFiniteSet(list') /\ Cardinality(list') \in Nat
    BY <2>1, ListFinite
  <2>3. CASE list' \subseteq list
    <3>1. Cardinality(list') <= Cardinality(list)
      BY <2>2, <2>3, FS_Subset
    <3>2. QED
      BY <2>2, <3>1, PublishAssumption DEF ListBound
  <2>4. CASE \E n : list' = list \cup {n} /\ HasRoom
    <3>1. PICK n : list' = list \cup {n} /\ HasRoom
      BY <2>4
    <3>2. Cardinality(list') <= Cardinality(list) + 1
      BY <2>2, <3>1, FS_AddElement
    <3>3. QED
      BY <2>2, <3>1, <3>2, PublishAssumption DEF ListBound, HasRoom
  <2>5. CASE UNCHANGED vars
    BY <2>5 DEF vars, nodeVars, ListBound
  <2>6. QED
    BY <2>3, <2>4, <2>5, ListSteps
<1>3. QED
  BY <1>1, <1>2, CoreInvariant, PTL DEF Spec

-----------------------------------------------------------------------------
(* write_buf is never overwritten under its owner *)

\* Whoever is between serialising and sending finds its own packet in
\* write_buf, since only the owner of lock_write_buf writes to it.
THEOREM WriteBufOwnedHolds == Spec => []WriteBufOwned
<1>1. Init => WriteBufOwned
  BY DEF Init, WriteBufOwned
<1>2. Core /\ WriteBufOwned /\ [Next]_vars => WriteBufOwned'
  <2> SUFFICES ASSUME Core, WriteBufOwned, [Next]_vars PROVE WriteBufOwned'
    OBVIOUS
  <2> USE PublishAssumption DEF Core, yieldVars
  <2>1. ASSUME NEW t \in Thread, CallStep(t)
        PROVE  WriteBufOwned'
    BY <2>1 DEF CallStep, PublishEnter, LockWriteBuf, GetNextPacketId, Serialize,
       SerializeFail, PushPubInfo, PushFail, SendOk, SendFail, ListRemove,
       MayPublish, At, Goto, Return, TypeOK, LockInv, CallInv, WriteBufOwned
  <2>2. CASE YieldStep
    <3>1. CASE YieldLockWriteBuf
      BY <3>1 DEF YieldLockWriteBuf, InYield, At, Free, callVars, LockInv,
         WriteBufOwned, Thread
    <3>2. CASE ~YieldLockWriteBuf
      BY <2>2, <3>2 DEF YieldStep, callVars, NothingToRead, HandlePuback,
         HandlePublish, ReadFailed, NetworkConnect, YieldSendOk, YieldSendFail,
         Connack, KeepAlive, PingUnanswered, ProcBegin, ScanEnd,
         ScanInvalid, ScanSkip, ScanTimeout, TimeoutEvent, WindowFreed,
         HandlerReturn, StartWrite, WriteDone, Disconnected, WriteBufOwned
    <3>3. QED
      BY <3>1, <3>2
  <2>3. CASE Environment
    BY <2>3 DEF Environment, TimerExpires, LinkLoss, callVars, WriteBufOwned
  <2>4. CASE UNCHANGED vars
    BY <2>4 DEF vars, callVars, WriteBufOwned
  <2>5. QED
    BY <2>1, <2>2, <2>3, <2>4 DEF Next
<1>3. QED
  BY <1>1, <1>2, CoreInvariant, PTL DEF Spec

-----------------------------------------------------------------------------
(* No circular wait, as long as the timeout handler does not publish *)

\* The yield thread publishes only while it holds no list lock.
QuietHandler == pc[Yielder] # "idle" => ypc \in {"read", "proc"}

\* If the PUBLISH_TIMEOUT handler does not publish, no two threads ever wait
\* for each other, however many publish.
THEOREM NoCircularWaitHolds == ~Republish => (Spec => []NoCircularWait)
<1> SUFFICES ASSUME ~Republish PROVE Spec => []NoCircularWait
  OBVIOUS
<1>1. Init => QuietHandler
  BY DEF Init, QuietHandler, Thread
<1>2. Core /\ QuietHandler /\ [Next]_vars => QuietHandler'
  <2> SUFFICES ASSUME Core, QuietHandler, [Next]_vars PROVE QuietHandler'
    OBVIOUS
  <2> USE DEF Core, yieldVars
  <2>1. ASSUME NEW t \in Thread, CallStep(t)
        PROVE  QuietHandler'
    BY <2>1 DEF CallStep, PublishEnter, LockWriteBuf, GetNextPacketId, Serialize,
       SerializeFail, PushPubInfo, PushFail, SendOk, SendFail, ListRemove,
       MayPublish, At, Goto, Return, TypeOK, QuietHandler, Thread
  <2>2. CASE YieldStep
    BY <2>2, CallsUntouched DEF YieldStep, InYield, At, NothingToRead,
       HandlePuback, HandlePublish, ReadFailed, NetworkConnect,
       YieldLockWriteBuf, YieldSendOk, YieldSendFail, Connack, KeepAlive,
       PingUnanswered, ProcBegin, ScanEnd, ScanInvalid, ScanSkip,
       ScanTimeout, TimeoutEvent, WindowFreed, HandlerReturn, QuietHandler
  <2>3. CASE Environment
    BY <2>3 DEF Environment, TimerExpires, LinkLoss, callVars, QuietHandler
  <2>4. CASE UNCHANGED vars
    BY <2>4 DEF vars, callVars, QuietHandler
  <2>5. QED
    BY <2>1, <2>2, <2>3, <2>4 DEF Next
<1>3. Core /\ QuietHandler => NoCircularWait
  <2> SUFFICES ASSUME Core, QuietHandler,
                      NEW t \in Thread, NEW u \in Thread, t # u,
                      WaitsFor(t) = u, WaitsFor(u) = t
               PROVE  FALSE
    BY DEF NoCircularWait
  <2> USE PublishAssumption DEF Core, LockInv, QuietHandler, Thread
  <2>1. ASSUME NEW v \in Thread, NEW w \in Thread, WaitsFor(v) = w, v # w
        PROVE  \/ w = lockWriteBuf
               \/ w = Yielder /\ ypc \in {"scan", "handler"}
    BY <2>1 DEF WaitsFor
  <2>2. ypc \in {"scan", "handler"} => WaitsFor(Yielder) = NoThread
    BY DEF WaitsFor
  <2>3. QED
    BY <2>1, <2>2
<1>4. QED
  BY <1>1, <1>2, <1>3, CoreInvariant, PTL DEF Spec

-----------------------------------------------------------------------------
(* The iterator survives the release of lock_list_pub *)

\* Nodes carry serials handed out already; the iterator points to a node, or to
\* NULL, and while a node is timed out that is an older one.
IterInv ==
    /\ \A n \in list : n <= issued
    /\ IteratorValid
    /\ ypc \in {"window", "handler"} => cursor < current /\ current <= issued

\* A publish that fails removes the newest node, which the iterator has passed.
LEMMA RemoveIter ==
    ASSUME Core, IterInv, NEW t \in Thread, ListRemove(t)
    PROVE  IterInv'
<1> USE PublishAssumption DEF Core, yieldVars, idVars
<1>1. /\ pc[t] = "remove" /\ (lockListPub = NoThread \/ lockListPub = t)
      /\ list' = list \ {mine[t]} /\ UNCHANGED <<issued, ypc, cursor, current>>
  BY DEF ListRemove, At, Free
<1>2. mine[t] = issued /\ issued >= 1
  BY <1>1 DEF CallInv
<1>3. ypc # "scan"
  <2>1. SUFFICES ASSUME ypc = "scan" PROVE FALSE
    OBVIOUS
  <2>2. t = Yielder
    BY <1>1, <2>1 DEF LockInv, Thread
  <2>3. QED
    BY <1>1, <2>1, <2>2 DEF LockInv
<1>4. ypc \in {"window", "handler"} => cursor # issued
  BY DEF IterInv, TypeOK
<1>5. QED
  BY <1>1, <1>2, <1>3, <1>4 DEF IterInv, IteratorValid

\* The other steps of a publish append the newest node or leave the list alone.
LEMMA CallIter ==
    ASSUME Core, IterInv, NEW t \in Thread, CallStep(t), ~ListRemove(t)
    PROVE  IterInv'
<1> USE PublishAssumption DEF Core, yieldVars, idVars, nodeVars
<1>1. UNCHANGED <<ypc, cursor, current>>
  BY DEF CallStep, PublishEnter, LockWriteBuf, GetNextPacketId, Serialize,
     SerializeFail, PushPubInfo, PushFail, SendOk, SendFail
<1>2. issued' = issued \/ issued' = issued + 1
  BY DEF CallStep, PublishEnter, LockWriteBuf, GetNextPacketId, Serialize,
     SerializeFail, PushPubInfo, PushFail, SendOk, SendFail
<1>3. list' = list \/ (list' = list \cup {issued} /\ issued' = issued)
  <2>1. CASE PushPubInfo(t)
    BY <2>1 DEF PushPubInfo, At, CallInv
  <2>2. CASE ~PushPubInfo(t)
    BY <2>2 DEF CallStep, PublishEnter, LockWriteBuf, GetNextPacketId, Serialize,
       SerializeFail, PushFail, SendOk, SendFail
  <2>3. QED
    BY <2>1, <2>2
<1>4. issued \in Nat /\ current \in Nat /\ \A n \in list : n \in Nat
  BY DEF TypeOK, Serial
<1>5. QED
  BY <1>1, <1>2, <1>3, <1>4 DEF IterInv, IteratorValid

\* The yield loop moves the iterator on before it removes a node.
LEMMA YieldIter ==
    ASSUME Core, IterInv, YieldStep \/ Environment
    PROVE  IterInv'
<1> USE PublishAssumption DEF Core, yieldVars, idVars, nodeVars, InYield
<1>1. \A n \in Int : /\ Prev(n) \in list \cup {0}
                     /\ Prev(n) # 0 => Prev(n) < n
  BY PrevInList DEF TypeOK
<1>2. issued' = issued /\ issued \in Nat /\ \A n \in list : n \in Nat /\ n >= 1
  BY CallsUntouched DEF TypeOK, Serial
<1>3. CASE ProcBegin
  BY <1>1, <1>2, <1>3 DEF ProcBegin, IterInv, IteratorValid
<1>4. CASE ScanInvalid
  BY <1>1, <1>2, <1>4 DEF ScanInvalid, IterInv, IteratorValid
<1>5. CASE ScanSkip
  BY <1>1, <1>2, <1>5 DEF ScanSkip, IterInv, IteratorValid
<1>6. CASE ScanTimeout
  BY <1>1, <1>2, <1>6 DEF ScanTimeout, IterInv, IteratorValid
<1>7. CASE TimeoutEvent
  BY <1>2, <1>7 DEF TimeoutEvent, IterInv, IteratorValid
<1>8. CASE HandlerReturn
  BY <1>2, <1>8 DEF HandlerReturn, IterInv, IteratorValid, TypeOK
<1>9. CASE WindowFreed
  BY <1>2, <1>9 DEF WindowFreed, IterInv, IteratorValid
<1>10. CASE Environment
  BY <1>2, <1>10 DEF Environment, TimerExpires, LinkLoss, IterInv, IteratorValid
<1>11. CASE \/ NothingToRead \/ (\E n \in Serial : HandlePuback(n)) \/ HandlePublish
            \/ ReadFailed \/ NetworkConnect \/ YieldLockWriteBuf \/ YieldSendOk
            \/ YieldSendFail \/ (\E ok \in BOOLEAN : Connack(ok)) \/ KeepAlive
            \/ PingUnanswered \/ ScanEnd
  <2>1. list' = list /\ ypc' \notin {"scan", "window", "handler"}
    BY <1>11 DEF NothingToRead, HandlePuback, HandlePublish, ReadFailed,
       NetworkConnect, YieldLockWriteBuf, YieldSendOk, YieldSendFail, Connack,
       KeepAlive, PingUnanswered, ScanEnd, StartWrite, WriteDone, Disconnected
  <2>2. QED
    BY <1>2, <2>1 DEF IterInv, IteratorValid
<1>12. QED
  BY <1>3, <1>4, <1>5, <1>6, <1>7, <1>8, <1>9, <1>10, <1>11 DEF YieldStep

\* uiot_mqtt_pub_info_proc never follows the iterator to a freed node, for any
\* number of publishing threads, whether or not its handler publishes.
THEOREM IteratorValidHolds == Spec => []IteratorValid
<1>1. Init => IterInv
  BY DEF Init, IterInv, IteratorValid
<1>2. Core /\ IterInv /\ [Next]_vars => IterInv'
  <2> SUFFICES ASSUME Core, IterInv, [Next]_vars PROVE IterInv'
    OBVIOUS
  <2>1. ASSUME NEW t \in Thread, CallStep(t)
        PROVE  IterInv'
    BY <2>1, RemoveIter, CallIter
  <2>2. CASE YieldStep \/ Environment
    BY <2>2, YieldIter
  <2>3. CASE UNCHANGED vars
    BY <2>3 DEF vars, idVars, nodeVars, yieldVars, IterInv, IteratorValid
  <2>4. QED
    BY <2>1, <2>2, <2>3 DEF Next
<1>3. IterInv => IteratorValid
  BY DEF IterInv
<1>4. QED
  BY <1>1, <1>2, <1>3, CoreInvariant, PTL DEF Spec

\* list_pub_wait_ack stays within MAX_REPUB_NUM and the iteration of
\* uiot_mqtt_pub_info_proc on its nodes, whatever other threads push and remove.
THEOREM WaitListSoundHolds == Spec => []WaitListSound
BY ListBoundHolds, IteratorValidHolds, PTL DEF WaitListSound

-----------------------------------------------------------------------------
(* Packet ids and the serials that carry them *)

\* The serial s was handed out and its packet serialised.
Issued(s) ==
    /\ s <= issued
    /\ \A t \in Thread : qos[t] = 1 /\ pc[t] = "serialize" => s # issued

\* A serial has an id once it was issued.  Counting on from the id of a recent
\* serial leads to the counter, or past it by one round.
IdInv ==
    /\ \A s \in Serial : msgId[s] # 0 => Issued(s)
    /\ \A s \in Serial : msgId[s] # 0 /\ issued - s < MAX_PACKET_ID =>
           \/ msgId[s] + (issued - s) = nextPacketId
           \/ msgId[s] + (issued - s) = nextPacketId + MAX_PACKET_ID
    /\ \A m, n \in Serial : m < n /\ msgId[m] # 0 /\ msgId[m] = msgId[n] =>
           n - m >= MAX_PACKET_ID
    /\ \A t \in Thread : qos[t] = 1 /\ pc[t] \in {"push", "send", "remove"} =>
           msgId[mine[t]] # 0
    /\ \A n \in list : msgId[n] # 0

\* At first no id has been handed out.
LEMMA IdInit == Init => IdInv
<1> SUFFICES ASSUME Init PROVE IdInv
  OBVIOUS
<1>1. \A s \in Serial : msgId[s] = 0
  BY DEF Init
<1>2. list = {} /\ \A t \in Thread : pc[t] = "idle"
  BY DEF Init
<1>3. QED
  BY <1>1, <1>2 DEF IdInv

\* Every step keeps the relation between serials and packet ids.
LEMMA IdNext == Core /\ IdInv /\ [Next]_vars => IdInv'
<1> SUFFICES ASSUME Core, IdInv, [Next]_vars PROVE IdInv'
  OBVIOUS
<1> USE PublishAssumption DEF Core, idVars, nodeVars
<1>1. ASSUME NEW t \in Thread, GetNextPacketId(t)
      PROVE  IdInv'
  <2>1. /\ pc[t] = "id" /\ issued' = issued + 1 /\ nextPacketId' = NextId(nextPacketId)
        /\ UNCHANGED <<list, msgId, qos, mine>>
        /\ pc' = [pc EXCEPT ![t] = "serialize"]
    BY <1>1 DEF GetNextPacketId, At, Goto
  <2>2. /\ issued \in Nat /\ nextPacketId \in 1 .. MAX_PACKET_ID
        /\ msgId \in [Serial -> 0 .. MAX_PACKET_ID]
        /\ \A s \in Serial : s \in Nat
    BY DEF TypeOK, Serial
  <2>3. \A u \in Thread : u # t => pc[u] \notin {"serialize", "push", "send", "remove"}
    BY <2>1 DEF LockInv
  <2>4. \A s \in Serial : msgId'[s] # 0 => Issued(s)'
    BY <2>1, <2>2, <2>3 DEF IdInv, Issued
  <2>5. ASSUME NEW s \in Serial, msgId[s] # 0, issued + 1 - s < MAX_PACKET_ID
        PROVE  \/ msgId[s] + (issued + 1 - s) = nextPacketId'
               \/ msgId[s] + (issued + 1 - s) = nextPacketId' + MAX_PACKET_ID
    <3>1. s <= issued /\ issued - s < MAX_PACKET_ID
      BY <2>2, <2>5 DEF IdInv, Issued
    <3>2. \/ msgId[s] + (issued - s) = nextPacketId
          \/ msgId[s] + (issued - s) = nextPacketId + MAX_PACKET_ID
      BY <2>5, <3>1 DEF IdInv
    <3>3. msgId[s] \in 1 .. MAX_PACKET_ID
      BY <2>2, <2>5
    <3>4. QED
      BY <2>1, <2>2, <2>5, <3>1, <3>2, <3>3 DEF NextId
  <2>6. \A u \in Thread : qos'[u] = 1 /\ pc'[u] \in {"push", "send", "remove"} => FALSE
    BY <2>1, <2>3 DEF TypeOK
  <2>7. QED
    BY <2>1, <2>2, <2>4, <2>5, <2>6 DEF IdInv
<1>2. ASSUME NEW t \in Thread, Serialize(t), qos[t] = 1
      PROVE  IdInv'
  <2>1. /\ pc[t] = "serialize" /\ UNCHANGED <<list, qos, issued, nextPacketId>>
        /\ mine' = [mine EXCEPT ![t] = issued]
        /\ msgId' = [msgId EXCEPT ![issued] = nextPacketId]
        /\ pc' = [pc EXCEPT ![t] = "push"]
        /\ issued \in Serial
    BY <1>2 DEF Serialize, At, Goto, CallInv, TypeOK, Serial
  <2>2. /\ nextPacketId \in 1 .. MAX_PACKET_ID
        /\ msgId \in [Serial -> 0 .. MAX_PACKET_ID]
        /\ \A s \in Serial : s \in Nat
    BY DEF TypeOK, Serial
  <2>3. /\ \A u \in Thread : u # t => pc[u] \notin {"serialize", "push", "send", "remove"}
        /\ msgId[issued] = 0
        /\ \A s \in Serial : msgId[s] # 0 => s < issued
    BY <1>2, <2>1, <2>2 DEF LockInv, IdInv, Issued
  <2>4. \A s \in Serial : msgId'[s] # 0 => Issued(s)'
    BY <2>1, <2>2, <2>3 DEF Issued, TypeOK
  <2>5. \A s \in Serial : msgId'[s] # 0 /\ issued' - s < MAX_PACKET_ID =>
            \/ msgId'[s] + (issued' - s) = nextPacketId'
            \/ msgId'[s] + (issued' - s) = nextPacketId' + MAX_PACKET_ID
    BY <2>1, <2>2 DEF IdInv
  <2>6. ASSUME NEW m \in Serial, NEW n \in Serial, m < n, msgId'[m] # 0,
               msgId'[m] = msgId'[n]
        PROVE  n - m >= MAX_PACKET_ID
    <3>1. CASE n = issued
      <4>1. msgId[m] = nextPacketId /\ msgId[m] # 0
        BY <2>1, <2>2, <2>6, <3>1
      <4>2. issued - m < MAX_PACKET_ID =>
               \/ msgId[m] + (issued - m) = nextPacketId
               \/ msgId[m] + (issued - m) = nextPacketId + MAX_PACKET_ID
        BY <4>1 DEF IdInv
      <4>3. QED
        BY <2>1, <2>2, <2>6, <3>1, <4>1, <4>2
    <3>2. CASE n # issued
      <4>1. msgId[n] # 0 /\ n < issued
        BY <2>1, <2>2, <2>3, <2>6, <3>2
      <4>2. m # issued
        BY <2>2, <2>1, <2>6, <4>1
      <4>3. QED
        BY <2>1, <2>2, <2>6, <3>2, <4>2 DEF IdInv
    <3>3. QED
      BY <3>1, <3>2
  <2>7. \A u \in Thread : qos'[u] = 1 /\ pc'[u] \in {"push", "send", "remove"} =>
            msgId'[mine'[u]] # 0
    BY <2>1, <2>2, <2>3 DEF TypeOK
  <2>8. \A n \in list' : msgId'[n] # 0
    BY <2>1, <2>2, <2>3 DEF IdInv, TypeOK
  <2>9. QED
    BY <2>4, <2>5, <2>6, <2>7, <2>8 DEF IdInv
<1> DEFINE Held(t) == qos[t] = 1 /\ pc[t] \in {"push", "send", "remove"}
           Kept == /\ UNCHANGED <<nextPacketId, issued, msgId>>
                   /\ \A n \in list' : \/ n \in list
                                       \/ \E t \in Thread : Held(t) /\ n = mine[t]
                   /\ \A t \in Thread : qos'[t] = 1 /\ pc'[t] = "serialize" =>
                         qos[t] = 1 /\ pc[t] = "serialize"
                   /\ \A t \in Thread : qos'[t] = 1 /\ pc'[t] \in {"push", "send", "remove"} =>
                         Held(t) /\ mine'[t] = mine[t]
<1>3. ASSUME Kept
      PROVE  IdInv'
  BY <1>3 DEF IdInv, Issued
<1>4. ASSUME NEW t \in Thread, CallStep(t), ~GetNextPacketId(t),
             ~(Serialize(t) /\ qos[t] = 1)
      PROVE  Kept
  <2>1. CASE \/ \E q \in QosLevel : PublishEnter(t, q)
             \/ LockWriteBuf(t)
             \/ Serialize(t)
    BY <1>4, <2>1 DEF PublishEnter, MayPublish, LockWriteBuf, Serialize, At,
       Goto, TypeOK
  <2>2. CASE PushPubInfo(t)
    BY <2>2 DEF PushPubInfo, At, Goto, CallInv, TypeOK
  <2>3. CASE \/ SerializeFail(t)
             \/ PushFail(t)
             \/ SendOk(t)
             \/ \E delivered \in BOOLEAN : SendFail(t, delivered)
             \/ ListRemove(t)
    BY <2>3 DEF SerializeFail, PushFail, SendOk, SendFail, ListRemove, At, Goto,
       Return, TypeOK
  <2>4. QED
    BY <1>4, <2>1, <2>2, <2>3 DEF CallStep
<1>5. ASSUME YieldStep \/ Environment
      PROVE  Kept
  <2>1. UNCHANGED msgId /\ list' \subseteq list
    BY <1>5 DEF YieldStep, Environment, NothingToRead, HandlePuback,
       HandlePublish, ReadFailed, NetworkConnect, YieldLockWriteBuf,
       YieldSendOk, YieldSendFail, Connack, KeepAlive, PingUnanswered,
       ProcBegin, ScanEnd, ScanInvalid, ScanSkip, ScanTimeout,
       TimeoutEvent, WindowFreed, HandlerReturn, TimerExpires, LinkLoss
  <2>2. QED
    BY <1>5, <2>1, CallsUntouched
<1>6. CASE UNCHANGED vars
  BY <1>3, <1>6 DEF vars, callVars
<1>7. QED
  BY <1>1, <1>2, <1>3, <1>4, <1>5, <1>6 DEF Next

\* Two waiting publishes never share a packet id unless the 16-bit counter
\* went all the way round between them, for any number of threads.
THEOREM PacketIdReuseHolds == Spec => []PacketIdReuse
<1>1. Core /\ IdInv => PacketIdReuse
  BY DEF Core, TypeOK, IdInv, PacketIdReuse
<1>2. QED
  BY <1>1, IdInit, IdNext, CoreInvariant, PTL DEF Spec

-----------------------------------------------------------------------------
(* What becomes of a publish *)

\* The serials that something was said or done about.
Known == list \cup accepted \cup failed \cup succeeded \cup acks

\* From its packet id to its return, nothing is said of a call's serial before
\* its node is listed, nor is it accepted or failed before the call returns.
FreshInv ==
    /\ \A n \in Known : n <= issued
    /\ \A t \in Thread : qos[t] = 1 /\ pc[t] \in {"serialize", "push"} => issued \notin Known
    /\ \A t \in Thread : qos[t] = 1 /\ pc[t] \in {"send", "remove"} =>
           issued \notin accepted \cup failed

\* A node of the list did not fail, and is INVALID when its success was reported;
\* a call that sends has a node, unless that node had its outcome already.
FateInv ==
    /\ \A n \in list : n \notin failed /\ (nodeState[n] = "INVALID" <=> n \in succeeded)
    /\ \A t \in Thread : qos[t] = 1 /\ pc[t] = "send" =>
           mine[t] \in list \cup succeeded \cup timedOut
    /\ ypc = "window" /\ current \in list => nodeState[current] = "NORMAL"
    /\ ypc = "handler" /\ ~fault => current \in timedOut
    /\ AcceptedIsAccounted

\* A step of a call keeps what is known of the serials.
LEMMA CallFate ==
    ASSUME Core, WriteBufOwned, FreshInv, FateInv, NEW t \in Thread, CallStep(t)
    PROVE  FreshInv' /\ FateInv'
<1> USE PublishAssumption DEF Core, nodeVars, yieldVars, repVars, idVars
<1>1. issued \in Nat /\ \A u \in Thread : mine[u] \in Nat
  BY DEF TypeOK
<1>2. ASSUME pc[t] \in {"id", "serialize", "push", "send", "remove"},
             NEW u \in Thread, u # t
      PROVE  pc[u] \notin {"id", "serialize", "push", "send", "remove"}
  BY <1>2 DEF LockInv
<1>3. CASE \E q \in QosLevel : PublishEnter(t, q)
  BY <1>3 DEF PublishEnter, Goto, TypeOK, FreshInv, FateInv, Known, AcceptedIsAccounted
<1>4. CASE LockWriteBuf(t)
  BY <1>4 DEF LockWriteBuf, Goto, TypeOK, FreshInv, FateInv, Known, AcceptedIsAccounted, CallInv
<1>5. CASE GetNextPacketId(t)
  <2>1. /\ issued' = issued + 1
        /\ pc' = [pc EXCEPT ![t] = "serialize"]
        /\ UNCHANGED <<qos, mine, list, nodeState, acks, ypc, current, succeeded, timedOut,
                       accepted, failed, fault>>
    BY <1>5 DEF GetNextPacketId, Goto
  <2>2. pc[t] = "id"
    BY <1>5 DEF GetNextPacketId, At
  <2>3. \A n \in Known : n \in Nat /\ n <= issued
    BY DEF TypeOK, FreshInv, Known, Serial
  <2>4. Known' = Known
    BY <2>1 DEF Known
  <2>5. \A n \in Known : n <= issued + 1 /\ n # issued + 1
    BY <1>1, <2>3
  <2>6. \A u \in Thread : u # t => pc'[u] = pc[u]
                                  /\ pc[u] \notin {"serialize", "push", "send", "remove"}
    BY <1>2, <2>1, <2>2 DEF TypeOK
  <2>7. pc'[t] = "serialize"
    BY <2>1 DEF TypeOK
  <2>8. FreshInv'
    BY <2>1, <2>4, <2>5, <2>6, <2>7 DEF FreshInv
  <2>9. FateInv'
    BY <2>1, <2>6, <2>7 DEF FateInv, AcceptedIsAccounted
  <2>10. QED
    BY <2>8, <2>9
<1>6. CASE Serialize(t) \/ SerializeFail(t)
  BY <1>2, <1>6 DEF Serialize, SerializeFail, At, Goto, Return, TypeOK, FreshInv, FateInv, Known,
     AcceptedIsAccounted
<1>7. CASE PushPubInfo(t)
  BY <1>1, <1>2, <1>7 DEF PushPubInfo, At, Goto, TypeOK, CallInv, FreshInv, FateInv, Known,
     AcceptedIsAccounted, Serial
<1>8. CASE PushFail(t)
  BY <1>1, <1>2, <1>8 DEF PushFail, At, Goto, Return, TypeOK, CallInv, FreshInv, FateInv, Known,
     AcceptedIsAccounted
<1>9. CASE SendOk(t)
  BY <1>1, <1>2, <1>9 DEF SendOk, Acked, At, Goto, Return, TypeOK, CallInv, WriteBufOwned,
     FreshInv, FateInv, Known, AcceptedIsAccounted
<1>10. CASE \E delivered \in BOOLEAN : SendFail(t, delivered)
  BY <1>1, <1>2, <1>10 DEF SendFail, Acked, At, Goto, Return, TypeOK, CallInv, WriteBufOwned,
     FreshInv, FateInv, Known, AcceptedIsAccounted
<1>11. CASE ListRemove(t)
  BY <1>1, <1>2, <1>11 DEF ListRemove, At, Goto, Return, TypeOK, CallInv,
     FreshInv, FateInv, Known, AcceptedIsAccounted
<1>12. QED
  BY <1>3, <1>4, <1>5, <1>6, <1>7, <1>8, <1>9, <1>10, <1>11 DEF CallStep

\* So does a step of the yield loop, of the timers and of the network.
LEMMA YieldFate ==
    ASSUME Core, FreshInv, FateInv, YieldStep \/ Environment
    PROVE  FreshInv' /\ FateInv'
<1> USE DEF Core, nodeVars, yieldVars, repVars, callVars, idVars
<1>1. CASE \E s \in Serial : HandlePuback(s)
  BY <1>1 DEF HandlePuback, InYield, Masked, TypeOK, FreshInv, FateInv, Known, AcceptedIsAccounted
<1>2. CASE ScanInvalid \/ HandlerReturn
  BY <1>2 DEF ScanInvalid, HandlerReturn, InYield, At, FreshInv, FateInv, Known, AcceptedIsAccounted
<1>3. CASE ScanTimeout \/ TimeoutEvent
  BY <1>3 DEF ScanTimeout, TimeoutEvent, InYield, Due, FreshInv, FateInv, Known,
     AcceptedIsAccounted
<1>4. CASE NothingToRead \/ HandlePublish \/ ReadFailed \/ NetworkConnect
             \/ YieldLockWriteBuf \/ YieldSendOk \/ YieldSendFail
             \/ (\E ok \in BOOLEAN : Connack(ok)) \/ KeepAlive \/ PingUnanswered
  BY <1>4 DEF NothingToRead, HandlePublish, ReadFailed, NetworkConnect,
     YieldLockWriteBuf, YieldSendOk, YieldSendFail, Connack, KeepAlive,
     PingUnanswered, StartWrite, WriteDone, Disconnected,
     FreshInv, FateInv, Known, AcceptedIsAccounted
<1>5. CASE ProcBegin \/ ScanEnd \/ ScanSkip \/ WindowFreed
  BY <1>5 DEF ProcBegin, ScanEnd, ScanSkip, WindowFreed, FreshInv, FateInv, Known,
     AcceptedIsAccounted
<1>6. CASE Environment
  BY <1>6 DEF Environment, TimerExpires, LinkLoss, FreshInv, FateInv, Known,
     AcceptedIsAccounted
<1>7. QED
  BY <1>1, <1>2, <1>3, <1>4, <1>5, <1>6 DEF YieldStep

\* What is known of the serials is so in every state.
THEOREM FateInvariant == Spec => [](FreshInv /\ FateInv)
<1>1. Init => FreshInv /\ FateInv
  BY DEF Init, FreshInv, FateInv, Known, AcceptedIsAccounted
<1>2. Core /\ WriteBufOwned /\ FreshInv /\ FateInv /\ [Next]_vars => FreshInv' /\ FateInv'
  <2> SUFFICES ASSUME Core, WriteBufOwned, FreshInv, FateInv, [Next]_vars
               PROVE  FreshInv' /\ FateInv'
    OBVIOUS
  <2>1. CASE UNCHANGED vars
    BY <2>1 DEF vars, nodeVars, yieldVars, repVars, callVars, idVars, FreshInv, FateInv, Known,
       AcceptedIsAccounted
  <2>2. QED
    BY <2>1, CallFate, YieldFate DEF Next
<1>3. QED
  BY <1>1, <1>2, CoreInvariant, WriteBufOwnedHolds, PTL DEF Spec

\* No publish that was accepted is lost: it waits, or its success or its timeout
\* was reported, for any number of threads and whatever the broker answers.
THEOREM AcceptedIsAccountedHolds == Spec => []AcceptedIsAccounted
<1>1. FateInv => AcceptedIsAccounted
  BY DEF FateInv
<1>2. QED
  BY <1>1, FateInvariant, PTL

\* A publish whose success was reported, or that returned an error, is not
\* reported timed out later, unless by a report made from a freed node.
THEOREM OutcomeIsFinalHolds == Spec => OutcomeIsFinal
<1>1. Core /\ FateInv /\ [Next]_vars =>
          [~fault' => timedOut' \cap (succeeded \cup failed) \subseteq timedOut]_vars
  <2> SUFFICES ASSUME Core, FateInv, Next, ~fault'
               PROVE  timedOut' \cap (succeeded \cup failed) \subseteq timedOut
    OBVIOUS
  <2>1. CASE TimeoutEvent
    BY <2>1 DEF TimeoutEvent, InYield, FateInv
  <2>2. CASE ~TimeoutEvent
    <3>1. timedOut' = timedOut
      BY <2>2 DEF Next, repVars, CallStep, PublishEnter, LockWriteBuf, GetNextPacketId, Serialize,
         SerializeFail, PushPubInfo, PushFail, SendOk, SendFail, ListRemove,
         YieldStep, NothingToRead, HandlePuback, HandlePublish, ReadFailed,
         NetworkConnect, YieldLockWriteBuf, YieldSendOk, YieldSendFail, Connack,
         KeepAlive, PingUnanswered, ProcBegin, ScanEnd, ScanInvalid,
         ScanSkip, ScanTimeout, WindowFreed, HandlerReturn,
         Environment, TimerExpires, LinkLoss
    <3>2. QED
      BY <3>1
  <2>3. QED
    BY <2>1, <2>2
<1>2. QED
  BY <1>1, CoreInvariant, FateInvariant, PTL DEF Spec, OutcomeIsFinal

-----------------------------------------------------------------------------
(* One thread *)

\* A call that sends, or has failed to, finds its node in the list, and so does
\* the iteration find the node that it is timing out.
NodeInv ==
    /\ ~fault
    /\ qos[Yielder] = 1 /\ pc[Yielder] \in {"send", "remove"} => mine[Yielder] \in list
    /\ ypc = "window" => current \in list

\* If only the thread that yields publishes, also from its handlers, no freed node
\* is ever used.
THEOREM NoUseAfterFreeHolds ==
    ASSUME Caller \subseteq {Yielder}
    PROVE  Spec => []NoUseAfterFree
<1>1. Thread = {Yielder}
  BY DEF Thread
<1>2. Init => NodeInv
  BY <1>1 DEF Init, NodeInv
<1>3. Core /\ NodeInv /\ [Next]_vars => NodeInv'
  <2> SUFFICES ASSUME Core, NodeInv, [Next]_vars PROVE NodeInv'
    OBVIOUS
  <2> USE <1>1 DEF Core, NodeInv, nodeVars, yieldVars, callVars
  <2>1. ASSUME CallStep(Yielder)
        PROVE  NodeInv'
    BY <2>1 DEF CallStep, PublishEnter, LockWriteBuf, GetNextPacketId, Serialize,
       SerializeFail, PushPubInfo, PushFail, SendOk, SendFail, ListRemove,
       MayPublish, At, Goto, Return, TypeOK, LockInv, CallInv
  <2>2. CASE YieldStep
    BY <2>2 DEF YieldStep, InYield, At, NothingToRead,
       HandlePuback, HandlePublish, ReadFailed, NetworkConnect,
       YieldLockWriteBuf, YieldSendOk, YieldSendFail, Connack, KeepAlive,
       PingUnanswered, ProcBegin, ScanEnd, ScanInvalid, ScanSkip,
       ScanTimeout, TimeoutEvent, WindowFreed, HandlerReturn, StartWrite, WriteDone, Disconnected
  <2>3. CASE Environment
    BY <2>3 DEF Environment, TimerExpires, LinkLoss
  <2>4. CASE UNCHANGED vars
    BY <2>4 DEF vars
  <2>5. QED
    BY <2>1, <2>2, <2>3, <2>4 DEF Next
<1>4. NodeInv => NoUseAfterFree
  BY DEF NodeInv, NoUseAfterFree
<1>5. QED
  BY <1>2, <1>3, <1>4, CoreInvariant, PTL DEF Spec

\* On one thread no report is made from a freed node: the first outcome of a publish
\* is its last one, without an exception.
THEOREM OutcomeIsFinalOnOneThread ==
    ASSUME Caller \subseteq {Yielder}
    PROVE  Spec => [][timedOut' \cap (succeeded \cup failed) \subseteq timedOut]_vars
<1>1. NoUseAfterFree' /\ [~fault' => timedOut' \cap (succeeded \cup failed) \subseteq timedOut]_vars
          => [timedOut' \cap (succeeded \cup failed) \subseteq timedOut]_vars
  BY DEF NoUseAfterFree
<1>2. Spec => []NoUseAfterFree
  BY NoUseAfterFreeHolds
<1>3. QED
  BY <1>1, <1>2, OutcomeIsFinalHolds, PTL DEF OutcomeIsFinal
=============================================================================
