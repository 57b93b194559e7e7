---------------------------- MODULE MqttPublish ----------------------------
(***************************************************************************)
(* QoS0/QoS1 publishing of the MQTT client: uiot_mqtt_publish run by any   *)
(* number of application threads, against the one thread that runs         *)
(* uiot_mqtt_yield (reading PUBACKs, expiring the nodes that wait for one,  *)
(* pinging, disconnecting, reconnecting).                                  *)
(*                                                                         *)
(* The threads share write_buf (lock_write_buf), next_packet_id and the    *)
(* list of publishes that wait for a PUBACK, list_pub_wait_ack             *)
(* (lock_list_pub).  A node of that list is named by the serial number of  *)
(* the packet id it carries: nodes are appended at the tail, so the list   *)
(* is the set of its nodes in ascending order.  RT-Thread mutexes are      *)
(* recursive: a thread never waits for a lock that it holds.               *)
(***************************************************************************)
EXTENDS Integers, FiniteSets

CONSTANTS Caller,         \* the threads that call uiot_mqtt_publish
          Yielder,        \* the thread that calls uiot_mqtt_yield
          NoThread,       \* owner of a free lock
          MAX_REPUB_NUM,  \* capacity of list_pub_wait_ack
          MAX_PACKET_ID,  \* largest packet id (65535)
          QosLevel,       \* the QoS levels the application uses, of {0, 1}
          MaxPublish,     \* bound: QoS1 publishes started
          Republish       \* does the PUBLISH_TIMEOUT handler publish again?

ASSUME PublishAssumption ==
    /\ MAX_REPUB_NUM \in Nat \ {0}
    /\ MAX_PACKET_ID \in Nat \ {0}
    /\ QosLevel \subseteq {0, 1}
    /\ MaxPublish \in Nat
    /\ Republish \in BOOLEAN
    /\ IsFiniteSet(Caller)
    /\ NoThread \notin Caller \cup {Yielder}

Thread == Caller \cup {Yielder}
Serial == 1 .. MaxPublish

VARIABLES
    isConnected,    \* is_connected
    link,           \* the socket: "down", "tcp" (no CONNECT yet), "up"
    nextPacketId,   \* next_packet_id
    issued,         \* how many packet ids were handed out
    started,        \* how many QoS1 publishes were started
    lockWriteBuf,   \* owner of lock_write_buf
    lockListPub,    \* owner of lock_list_pub
    writeBuf,       \* write_buf: who serialised, and for which serial
    list,           \* list_pub_wait_ack
    nodeState,      \* UIoTPubInfo.node_state
    expired,        \* the serials with left_ms(pub_start_time) <= 0
    msgId,          \* UIoTPubInfo.msg_id
    pc,             \* where each thread is inside uiot_mqtt_publish
    qos,            \* PublishParams.qos of that call
    mine,           \* the serial of that call (its local node pointer)
    ypc,            \* where the yield loop is
    ykind,          \* the packet the yield loop is writing
    cursor,         \* ListIterator.next of uiot_mqtt_pub_info_proc, 0 = NULL
    current,        \* its local node / temp_node
    acks,           \* PUBACKs on their way, by serial
    succeeded,      \* serials reported by MQTT_EVENT_PUBLISH_SUCCESS
    timedOut,       \* serials reported by MQTT_EVENT_PUBLISH_TIMEOUT
    accepted,       \* serials whose uiot_mqtt_publish returned the packet id
    failed,         \* serials whose uiot_mqtt_publish returned an error
    fault           \* a freed node was used

connVars  == <<isConnected, link>>
idVars    == <<nextPacketId, issued, started>>
nodeVars  == <<list, nodeState, expired, msgId>>
callVars  == <<pc, qos, mine>>
yieldVars == <<ypc, ykind, cursor, current>>
repVars   == <<succeeded, timedOut, accepted, failed>>

vars == <<connVars, idVars, lockWriteBuf, lockListPub, writeBuf, nodeVars,
          callVars, yieldVars, acks, repVars, fault>>

\* HAL_MutexLock lets t pass; the mutant never makes it wait.
FreeMutant(lock, t) == TRUE
Free(lock, t) == lock \in {NoThread, t}

PubPc == {"idle", "lock", "id", "serialize", "push", "send", "remove"}
YieldPc == {"read", "proc", "scan", "window", "handler", "alive",
            "wlock", "wsend", "connack"}
YieldPacket == {"none", "PUBACK", "PINGREQ", "DISCONNECT", "CONNECT"}

\* The types of the variables: packet ids from 1 to MAX_PACKET_ID, each lock free
\* or owned by a thread.
TypeOK ==
    /\ isConnected \in BOOLEAN
    /\ link \in {"down", "tcp", "up"}
    /\ nextPacketId \in 1 .. MAX_PACKET_ID
    /\ issued \in 0 .. MaxPublish
    /\ started \in 0 .. MaxPublish
    /\ lockWriteBuf \in Thread \cup {NoThread}
    /\ lockListPub \in Thread \cup {NoThread}
    /\ writeBuf \in [by : Thread \cup {NoThread}, serial : 0 .. MaxPublish]
    /\ list \subseteq Serial
    /\ nodeState \in [Serial -> {"NORMAL", "INVALID"}]
    /\ expired \subseteq Serial
    /\ msgId \in [Serial -> 0 .. MAX_PACKET_ID]
    /\ pc \in [Thread -> PubPc]
    /\ qos \in [Thread -> 0 .. 1]
    /\ mine \in [Thread -> 0 .. MaxPublish]
    /\ ypc \in YieldPc
    /\ ykind \in YieldPacket
    /\ cursor \in 0 .. MaxPublish
    /\ current \in 0 .. MaxPublish
    /\ acks \subseteq Serial
    /\ succeeded \subseteq Serial
    /\ timedOut \subseteq Serial
    /\ accepted \subseteq Serial
    /\ failed \subseteq Serial
    /\ fault \in BOOLEAN

\* A connected client, as IOT_MQTT_Construct returns it.
Init ==
    /\ isConnected = TRUE /\ link = "up"
    /\ nextPacketId = 1 /\ issued = 0 /\ started = 0
    /\ lockWriteBuf = NoThread /\ lockListPub = NoThread
    /\ writeBuf = [by |-> NoThread, serial |-> 0]
    /\ list = {}
    /\ nodeState = [n \in Serial |-> "NORMAL"]
    /\ expired = {}
    /\ msgId = [n \in Serial |-> 0]
    /\ pc = [t \in Thread |-> "idle"]
    /\ qos = [t \in Thread |-> 0]
    /\ mine = [t \in Thread |-> 0]
    /\ ypc = "read" /\ ykind = "none" /\ cursor = 0 /\ current = 0
    /\ acks = {} /\ succeeded = {} /\ timedOut = {}
    /\ accepted = {} /\ failed = {}
    /\ fault = FALSE

-----------------------------------------------------------------------------
(* uiot_mqtt_publish, run by thread t *)

\* What follows the use of a freed node is undefined: no step is described.
At(t, where) == pc[t] = where /\ ~fault
Goto(t, where) == pc' = [pc EXCEPT ![t] = where]

\* t returns from uiot_mqtt_publish, releasing lock_write_buf on the way;
\* its locals are gone.
Return(t) == /\ Goto(t, "idle")
             /\ qos' = [qos EXCEPT ![t] = 0]
             /\ mine' = [mine EXCEPT ![t] = 0]
             /\ lockWriteBuf' = NoThread

\* The yield thread publishes from the application's code between two calls
\* of uiot_mqtt_yield, from a message or PUBLISH_SUCCESS handler, or (if
\* Republish) from the PUBLISH_TIMEOUT handler.
MayPublish(t) ==
    /\ t \in Caller /\ At(t, "idle")
    /\ t = Yielder => \/ ypc \in {"read", "proc"}
                      \/ ypc = "handler" /\ Republish

\* Parameter checks and the connection check, before any lock is taken.
PublishEnter(t, q) ==
    /\ MayPublish(t) /\ isConnected
    /\ q = 1 => started < MaxPublish
    /\ started' = started + q
    /\ qos' = [qos EXCEPT ![t] = q]
    /\ Goto(t, "lock")
    /\ UNCHANGED <<connVars, nextPacketId, issued, lockWriteBuf, lockListPub,
                   writeBuf, nodeVars, mine, yieldVars, acks, repVars, fault>>

LockWriteBuf(t) ==
    /\ At(t, "lock") /\ Free(lockWriteBuf, t)
    /\ lockWriteBuf' = t
    /\ Goto(t, IF qos[t] = 1 THEN "id" ELSE "serialize")
    /\ UNCHANGED <<connVars, idVars, lockListPub, writeBuf, nodeVars, qos,
                   mine, yieldVars, acks, repVars, fault>>

\* Mutants: no wrap at all, and a wrap one too early.
NextIdNoWrap(id) == id + 1
NextIdEarlyWrap(id) == IF id >= MAX_PACKET_ID - 1 THEN 1 ELSE id + 1
NextId(id) == IF id = MAX_PACKET_ID THEN 1 ELSE id + 1

\* The increment of get_next_packet_id; its value is read one step later.
GetNextPacketId(t) ==
    /\ At(t, "id")
    /\ nextPacketId' = NextId(nextPacketId)
    /\ issued' = issued + 1
    /\ Goto(t, "serialize")
    /\ UNCHANGED <<connVars, started, lockWriteBuf, lockListPub, writeBuf,
                   nodeVars, qos, mine, yieldVars, acks, repVars, fault>>

\* pParams->id and _serialize_publish_packet into the shared buffer.
Serialize(t) ==
    /\ At(t, "serialize")
    /\ LET s == IF qos[t] = 1 THEN issued ELSE 0
       IN /\ writeBuf' = [by |-> t, serial |-> s]
          /\ mine' = [mine EXCEPT ![t] = s]
          /\ msgId' = IF s = 0 THEN msgId
                               ELSE [msgId EXCEPT ![s] = nextPacketId]
    /\ Goto(t, IF qos[t] = 1 THEN "push" ELSE "send")
    /\ UNCHANGED <<connVars, idVars, lockWriteBuf, lockListPub, list,
                   nodeState, expired, qos, yieldVars, acks, repVars, fault>>

\* The packet does not fit write_buf: the id is spent, nothing else happened.
SerializeFail(t) ==
    /\ At(t, "serialize")
    /\ Return(t)
    /\ UNCHANGED <<connVars, idVars, lockListPub, writeBuf, nodeVars,
                   yieldVars, acks, repVars, fault>>

\* Mutant: an off-by-one in the test of the list's length.
HasRoomMutant == Cardinality(list) <= MAX_REPUB_NUM
HasRoom == Cardinality(list) < MAX_REPUB_NUM

\* _mask_push_pubInfo_to: the bound is checked and the node appended under
\* one hold of lock_list_pub.
PushPubInfo(t) ==
    /\ At(t, "push") /\ Free(lockListPub, t)
    /\ HasRoom
    /\ list' = list \cup {mine[t]}
    /\ nodeState' = [nodeState EXCEPT ![mine[t]] = "NORMAL"]
    /\ expired' = expired \ {mine[t]}
    /\ Goto(t, "send")
    /\ UNCHANGED <<connVars, idVars, lockWriteBuf, lockListPub, writeBuf,
                   msgId, qos, mine, yieldVars, acks, repVars, fault>>

\* Mutant: the way out is that of a failed send, and removes a node that was
\* never in the list.
PushFailMutant(t) ==
    /\ At(t, "push") /\ Free(lockListPub, t)
    /\ Goto(t, "remove")
    /\ UNCHANGED <<connVars, idVars, lockWriteBuf, lockListPub, writeBuf,
                   nodeVars, qos, mine, yieldVars, acks, repVars, fault>>

\* The list is full, or memory is.
PushFail(t) ==
    /\ At(t, "push") /\ Free(lockListPub, t)
    /\ failed' = failed \cup {mine[t]}
    /\ Return(t)
    /\ UNCHANGED <<connVars, idVars, lockListPub, writeBuf, nodeVars,
                   yieldVars, acks, succeeded, timedOut, accepted, fault>>

\* What a broker that received the bytes of write_buf will acknowledge.
Acked == IF writeBuf.serial = 0 THEN acks ELSE acks \cup {writeBuf.serial}

SendOk(t) ==
    /\ At(t, "send") /\ link # "down"
    /\ acks' = Acked
    /\ accepted' = IF qos[t] = 1 THEN accepted \cup {mine[t]} ELSE accepted
    /\ Return(t)
    /\ UNCHANGED <<connVars, idVars, lockListPub, writeBuf, nodeVars,
                   yieldVars, succeeded, timedOut, failed, fault>>

\* send_mqtt_packet fails.  After a partial write it passes the full length
\* again, so a failure may have delivered the whole packet (and more).
SendFail(t, delivered) ==
    /\ At(t, "send")
    /\ delivered => link # "down"
    /\ acks' = IF delivered THEN Acked ELSE acks
    /\ IF qos[t] = 1 THEN Goto(t, "remove") /\ UNCHANGED <<qos, mine, lockWriteBuf>>
                     ELSE Return(t)
    /\ UNCHANGED <<connVars, idVars, lockListPub, writeBuf, nodeVars,
                   yieldVars, repVars, fault>>

\* Mutant: the failed publish leaves its node in the list.
ListRemoveMutant(t) ==
    /\ At(t, "remove") /\ Free(lockListPub, t)
    /\ failed' = failed \cup {mine[t]}
    /\ Return(t)
    /\ UNCHANGED <<connVars, idVars, lockListPub, writeBuf, nodeVars, yieldVars,
                   acks, succeeded, timedOut, accepted, fault>>

\* list_remove of the call's own node, which it does not look up first.
ListRemove(t) ==
    /\ At(t, "remove") /\ Free(lockListPub, t)
    /\ fault' = (mine[t] \notin list)
    /\ list' = list \ {mine[t]}
    /\ failed' = failed \cup {mine[t]}
    /\ Return(t)
    /\ UNCHANGED <<connVars, idVars, lockListPub, writeBuf, nodeState, expired,
                   msgId, yieldVars, acks, succeeded, timedOut, accepted>>

-----------------------------------------------------------------------------
(* uiot_mqtt_yield, run by Yielder *)

\* The yield thread is in the loop, not inside a publish of a handler.
InYield(where) == ypc = where /\ At(Yielder, "idle")

\* cycle_for_read finds no packet.
NothingToRead ==
    /\ InYield("read") /\ isConnected
    /\ ypc' = "proc"
    /\ UNCHANGED <<connVars, idVars, lockWriteBuf, lockListPub, writeBuf,
                   nodeVars, callVars, ykind, cursor, current, acks, repVars,
                   fault>>

\* The nodes _mask_pubInfo_from marks for the PUBACK of serial s.  Mutants:
\* every node, whatever its id, and none.
MaskedAll(s) == list
MaskedNone(s) == {}
Masked(s) == {n \in list : msgId[n] = msgId[s]}

\* _handle_puback_packet: every node with that id becomes INVALID, and the
\* handler is told of the id's success whether or not there was such a node.
HandlePuback(s) ==
    /\ InYield("read") /\ isConnected /\ s \in acks
    /\ Free(lockListPub, Yielder)
    /\ nodeState' = [n \in Serial |-> IF n \in Masked(s) THEN "INVALID"
                                                          ELSE nodeState[n]]
    /\ succeeded' = succeeded \cup {s} \cup {n \in list : msgId[n] = msgId[s]}
    /\ acks' = acks \ {s}
    /\ ypc' = "proc"
    /\ UNCHANGED <<connVars, idVars, lockWriteBuf, lockListPub, writeBuf, list,
                   expired, msgId, callVars, ykind, cursor, current, timedOut,
                   accepted, failed, fault>>

\* The yield loop turns to writing a packet of its own: the PUBACK of a
\* QoS1 message it delivered, a DISCONNECT after a read error, a CONNECT once
\* the network is up again.
StartWrite(kind) == ypc' = "wlock" /\ ykind' = kind
WriteDone(where) == ypc' = where /\ ykind' = "none"

HandlePublish ==
    /\ InYield("read") /\ isConnected
    /\ StartWrite("PUBACK")
    /\ UNCHANGED <<connVars, idVars, lockWriteBuf, lockListPub, writeBuf,
                   nodeVars, callVars, cursor, current, acks, repVars, fault>>

ReadFailed ==
    /\ InYield("read") /\ isConnected
    /\ StartWrite("DISCONNECT")
    /\ UNCHANGED <<connVars, idVars, lockWriteBuf, lockListPub, writeBuf,
                   nodeVars, callVars, cursor, current, acks, repVars, fault>>

NetworkConnect ==
    /\ InYield("read") /\ ~isConnected
    /\ link' = "tcp"
    /\ StartWrite("CONNECT")
    /\ UNCHANGED <<isConnected, idVars, lockWriteBuf, lockListPub, writeBuf,
                   nodeVars, callVars, cursor, current, acks, repVars, fault>>

YieldLockWriteBuf ==
    /\ InYield("wlock") /\ Free(lockWriteBuf, Yielder)
    /\ lockWriteBuf' = Yielder
    /\ writeBuf' = [by |-> Yielder, serial |-> 0]
    /\ ypc' = "wsend"
    /\ UNCHANGED <<connVars, idVars, lockListPub, nodeVars, callVars, ykind,
                   cursor, current, acks, repVars, fault>>

\* Both ends of uiot_mqtt_disconnect: the socket is closed whatever the send
\* of DISCONNECT returned; PUBACKs on their way are lost.
Disconnected == /\ isConnected' = FALSE /\ link' = "down" /\ acks' = {}
                /\ WriteDone("read")

YieldSendOk ==
    /\ InYield("wsend") /\ link # "down"
    /\ lockWriteBuf' = NoThread
    /\ \/ ykind = "PUBACK" /\ WriteDone("proc") /\ UNCHANGED <<connVars, acks>>
       \/ ykind = "PINGREQ" /\ WriteDone("read") /\ UNCHANGED <<connVars, acks>>
       \/ ykind = "DISCONNECT" /\ Disconnected
       \/ /\ ykind = "CONNECT" /\ WriteDone("connack") /\ link' = "up"
          /\ UNCHANGED <<isConnected, acks>>
    /\ UNCHANGED <<idVars, lockListPub, writeBuf, nodeVars, callVars, cursor,
                   current, repVars, fault>>

YieldSendFail ==
    /\ InYield("wsend")
    /\ lockWriteBuf' = NoThread
    /\ \/ ykind = "PUBACK" /\ WriteDone("read") /\ UNCHANGED <<connVars, acks>>
       \/ ykind = "PINGREQ" /\ StartWrite("DISCONNECT") /\ UNCHANGED <<connVars, acks>>
       \/ ykind \in {"DISCONNECT", "CONNECT"} /\ Disconnected
    /\ UNCHANGED <<idVars, lockListPub, writeBuf, nodeVars, callVars, cursor,
                   current, repVars, fault>>

\* wait_for_read(CONNACK) in _mqtt_connect, accepted or not.
Connack(ok) ==
    /\ InYield("connack")
    /\ isConnected' = ok
    /\ link' = IF ok THEN link ELSE "down"
    /\ acks' = {}
    /\ ypc' = "read"
    /\ UNCHANGED <<idVars, lockWriteBuf, lockListPub, writeBuf, nodeVars,
                   callVars, ykind, cursor, current, repVars, fault>>

\* _mqtt_keep_alive: nothing to do yet, or a PINGREQ is due ...
KeepAlive ==
    /\ InYield("alive")
    /\ \/ ypc' = "read" /\ UNCHANGED ykind
       \/ StartWrite("PINGREQ")
    /\ UNCHANGED <<connVars, idVars, lockWriteBuf, lockListPub, writeBuf,
                   nodeVars, callVars, cursor, current, acks, repVars, fault>>

\* ... or too many PINGREQs stayed unanswered.
PingUnanswered ==
    /\ InYield("alive")
    /\ StartWrite("DISCONNECT")
    /\ UNCHANGED <<connVars, idVars, lockWriteBuf, lockListPub, writeBuf,
                   nodeVars, callVars, cursor, current, acks, repVars, fault>>

-----------------------------------------------------------------------------
(* uiot_mqtt_pub_info_proc: from the tail of the list to its head *)

\* The node before n in the list, 0 if n is its head (ListNode.prev).
Prev(n) == LET before == {m \in list : m < n}
           IN IF before = {} THEN 0 ELSE CHOOSE m \in before : \A k \in before : k <= m

\* list_iterator_new(LIST_TAIL) under lock_list_pub.
ProcBegin ==
    /\ InYield("proc") /\ Free(lockListPub, Yielder)
    /\ IF list = {} THEN ypc' = "alive" /\ UNCHANGED <<lockListPub, cursor>>
       ELSE /\ lockListPub' = Yielder
            /\ cursor' = Prev(MaxPublish + 1)
            /\ ypc' = "scan"
    /\ UNCHANGED <<connVars, idVars, lockWriteBuf, writeBuf, nodeVars,
                   callVars, ykind, current, acks, repVars, fault>>

\* Mutant: lock_list_pub is not released at the end of the iteration.
ScanEndMutant ==
    /\ InYield("scan") /\ cursor = 0
    /\ ypc' = "alive"
    /\ UNCHANGED <<connVars, idVars, lockWriteBuf, lockListPub, writeBuf,
                   nodeVars, callVars, ykind, cursor, current, acks, repVars,
                   fault>>

ScanEnd ==
    /\ InYield("scan") /\ cursor = 0
    /\ lockListPub' = NoThread
    /\ ypc' = "alive"
    /\ UNCHANGED <<connVars, idVars, lockWriteBuf, writeBuf, nodeVars,
                   callVars, ykind, cursor, current, acks, repVars, fault>>

ScanInvalid ==
    /\ InYield("scan") /\ cursor \in list /\ nodeState[cursor] = "INVALID"
    /\ list' = list \ {cursor}
    /\ cursor' = Prev(cursor)
    /\ UNCHANGED <<connVars, idVars, lockWriteBuf, lockListPub, writeBuf,
                   nodeState, expired, msgId, callVars, ypc, ykind, current,
                   acks, repVars, fault>>

\* The node is to be reported timed out.  Mutant: the test of is_connected
\* is the wrong way round.
DueMutant(n) == nodeState[n] = "NORMAL" /\ ~isConnected /\ n \in expired
Due(n) == nodeState[n] = "NORMAL" /\ isConnected /\ n \in expired

ScanSkip ==
    /\ InYield("scan") /\ cursor \in list
    /\ nodeState[cursor] = "NORMAL" /\ ~Due(cursor)
    /\ cursor' = Prev(cursor)
    /\ UNCHANGED <<connVars, idVars, lockWriteBuf, lockListPub, writeBuf,
                   nodeVars, callVars, ypc, ykind, current, acks, repVars,
                   fault>>

\* Mutant: the iterator is not moved on before the lock is released.
ScanTimeoutMutant ==
    /\ InYield("scan") /\ cursor \in list /\ Due(cursor)
    /\ lockListPub' = NoThread
    /\ current' = cursor
    /\ ypc' = "window"
    /\ UNCHANGED <<connVars, idVars, lockWriteBuf, writeBuf, nodeVars,
                   callVars, ykind, cursor, acks, repVars, fault>>

\* A node timed out: the lock is released ...
ScanTimeout ==
    /\ InYield("scan") /\ cursor \in list /\ Due(cursor)
    /\ lockListPub' = NoThread
    /\ current' = cursor
    /\ cursor' = Prev(cursor)
    /\ ypc' = "window"
    /\ UNCHANGED <<connVars, idVars, lockWriteBuf, writeBuf, nodeVars,
                   callVars, ykind, acks, repVars, fault>>

\* ... and taken again, then the handler is called with the lock held.
TimeoutEvent ==
    /\ InYield("window") /\ Free(lockListPub, Yielder)
    /\ current \in list
    /\ lockListPub' = Yielder
    /\ expired' = expired \ {current}
    /\ timedOut' = timedOut \cup {current}
    /\ ypc' = "handler"
    /\ UNCHANGED <<connVars, idVars, lockWriteBuf, writeBuf, list, nodeState,
                   msgId, callVars, ykind, cursor, current, acks, succeeded,
                   accepted, failed, fault>>

\* The node was freed in between: its timer is set and its msg_id read and reported
\* regardless.  The block still holds the id, or that of a waiting publish whose node it
\* was used for since, or no id of any publish.
WindowFreed ==
    /\ InYield("window") /\ Free(lockListPub, Yielder)
    /\ current \notin list
    /\ fault' = TRUE
    /\ lockListPub' = Yielder
    /\ \/ UNCHANGED timedOut
       \/ \E n \in list \cup {current} : timedOut' = timedOut \cup {n}
    /\ ypc' = "handler"
    /\ UNCHANGED <<connVars, idVars, lockWriteBuf, writeBuf, nodeVars, callVars,
                   ykind, cursor, current, acks, succeeded, accepted, failed>>

\* The handler returned: the node is removed as the iteration goes on.
HandlerReturn ==
    /\ InYield("handler")
    /\ list' = list \ {current}
    /\ current' = 0
    /\ ypc' = "scan"
    /\ UNCHANGED <<connVars, idVars, lockWriteBuf, lockListPub, writeBuf,
                   nodeState, expired, msgId, callVars, ykind, cursor, acks,
                   repVars, fault>>

-----------------------------------------------------------------------------
(* The environment *)

\* command_timeout_ms of a waiting node runs out (nobody looks at the timer
\* of an INVALID one).
TimerExpires(n) ==
    /\ ~fault
    /\ n \in list /\ nodeState[n] = "NORMAL" /\ n \notin expired
    /\ expired' = expired \cup {n}
    /\ UNCHANGED <<connVars, idVars, lockWriteBuf, lockListPub, writeBuf, list,
                   nodeState, msgId, callVars, yieldVars, acks, repVars,
                   fault>>

\* The peer or the network drops the connection; the client finds out later.
LinkLoss ==
    /\ ~fault /\ link # "down"
    /\ link' = "down"
    /\ UNCHANGED <<isConnected, idVars, lockWriteBuf, lockListPub, writeBuf,
                   nodeVars, callVars, yieldVars, acks, repVars, fault>>

-----------------------------------------------------------------------------
CallStep(t) ==
    \/ \E q \in QosLevel : PublishEnter(t, q)
    \/ LockWriteBuf(t)
    \/ GetNextPacketId(t)
    \/ Serialize(t)
    \/ SerializeFail(t)
    \/ PushPubInfo(t)
    \/ PushFail(t)
    \/ SendOk(t)
    \/ \E delivered \in BOOLEAN : SendFail(t, delivered)
    \/ ListRemove(t)

YieldStep ==
    \/ NothingToRead
    \/ \E s \in Serial : HandlePuback(s)
    \/ HandlePublish
    \/ ReadFailed
    \/ NetworkConnect
    \/ YieldLockWriteBuf
    \/ YieldSendOk
    \/ YieldSendFail
    \/ \E ok \in BOOLEAN : Connack(ok)
    \/ KeepAlive
    \/ PingUnanswered
    \/ ProcBegin
    \/ ScanEnd
    \/ ScanInvalid
    \/ ScanSkip
    \/ ScanTimeout
    \/ TimeoutEvent
    \/ WindowFreed
    \/ HandlerReturn

Environment == \/ \E n \in Serial : TimerExpires(n)
               \/ LinkLoss

Next == \/ \E t \in Thread : CallStep(t)
        \/ YieldStep
        \/ Environment

Spec == Init /\ [][Next]_vars

-----------------------------------------------------------------------------
(* Properties *)

\* _mask_push_pubInfo_to never lets list_pub_wait_ack grow past MAX_REPUB_NUM,
\* however many threads publish: the test and the append share one hold of
\* lock_list_pub.
ListBound == Cardinality(list) <= MAX_REPUB_NUM

\* "Returns the unique packet id": two publishes that wait for a PUBACK carry
\* the same packet id only if the counter went all the way round between them,
\* although get_next_packet_id reads its result after releasing lock_generic.
PacketIdReuse ==
    \A m, n \in list :
        m < n /\ msgId[m] = msgId[n] => n - m >= MAX_PACKET_ID

\* From serialising to sending, write_buf holds that thread's own packet: the
\* packets of publishers, pings, PUBACKs, CONNECT and DISCONNECT never mix.
WriteBufOwned ==
    /\ \A t \in Thread : pc[t] \in {"push", "send"} =>
                            writeBuf = [by |-> t, serial |-> mine[t]]
    /\ ypc = "wsend" => writeBuf = [by |-> Yielder, serial |-> 0]

\* A QoS1 publish for which uiot_mqtt_publish returned a packet id is waiting,
\* was reported acknowledged, or was reported timed out: none is lost.
AcceptedIsAccounted == accepted \subseteq list \cup succeeded \cup timedOut

\* A publish that was reported by PUBLISH_SUCCESS, or that returned an error, is
\* not reported by PUBLISH_TIMEOUT afterwards: the node is in the list before its
\* packet can be acknowledged, and left it before the call returned the error.  The
\* exception is the report made from a node that another thread has freed while
\* lock_list_pub was released (WindowFreed, a fault): it names a publish whose call
\* has returned an error, or any other.
OutcomeIsFinal ==
    [][~fault' => timedOut' \cap (succeeded \cup failed) \subseteq timedOut]_vars

\* No step reads, unlinks or frees a list node that was freed before.
NoUseAfterFree == ~fault

\* The iterator of uiot_mqtt_pub_info_proc points to a node of the list or to
\* NULL, although lock_list_pub is released while a node is timed out: a publish
\* that fails there holds lock_write_buf and so removes the newest node, and the
\* iteration goes from newer to older ones.
IteratorValid ==
    ypc \in {"scan", "window", "handler"} => cursor \in list \cup {0}

\* list_pub_wait_ack stays within its bound and the iteration inside it, however
\* many threads push, remove and time out nodes.
WaitListSound == ListBound /\ IteratorValid

\* The lock each thread waits for, as the thread that owns it.
WaitsFor(t) ==
    IF pc[t] = "lock" \/ (t = Yielder /\ pc[t] = "idle" /\ ypc = "wlock") THEN lockWriteBuf
    ELSE IF \/ pc[t] \in {"push", "remove"}
            \/ t = Yielder /\ pc[t] = "idle" /\ ypc \in {"proc", "window"}
         THEN lockListPub
    ELSE NoThread

\* No two threads wait for each other's lock: lock_write_buf may be held while
\* lock_list_pub is taken, never the other way round.
NoCircularWait ==
    \A t, u \in Thread : t # u => ~(WaitsFor(t) = u /\ WaitsFor(u) = t)

-----------------------------------------------------------------------------
(* Fairness: every thread is scheduled, the mutexes are first-come          *)
(* first-served (RT_IPC_FLAG_FIFO), a send ends, timers run out, and an     *)
(* application that publishes from the thread that yields keeps yielding.   *)
Fairness ==
    /\ \A t \in Thread : /\ SF_vars(LockWriteBuf(t))
                         /\ SF_vars(PushPubInfo(t) \/ PushFail(t))
                         /\ SF_vars(ListRemove(t))
                         /\ WF_vars(\/ GetNextPacketId(t) \/ Serialize(t)
                                    \/ SendOk(t) \/ SendFail(t, FALSE))
    /\ SF_vars(YieldLockWriteBuf)
    /\ SF_vars(ProcBegin)
    /\ SF_vars(TimeoutEvent \/ WindowFreed)
    /\ SF_vars(\/ NothingToRead \/ NetworkConnect \/ Connack(TRUE)
               \/ YieldSendOk \/ YieldSendFail \/ KeepAlive
               \/ ScanEnd \/ ScanInvalid \/ ScanSkip \/ ScanTimeout
               \/ HandlerReturn)
    /\ \A n \in Serial : WF_vars(TimerExpires(n))

FairSpec == Spec /\ Fairness

\* From some point on the network neither loses the connection nor fails a
\* read or a write of the yield loop.
NetworkStabilises ==
    <>[][~(LinkLoss \/ ReadFailed \/ YieldSendFail \/ PingUnanswered
           \/ Connack(FALSE))]_vars

\* If the network stabilises, every publish leaves the list of waiting ones,
\* whatever disconnections came before and also if its PUBACK never comes
\* (unless a freed node is used first).
WaitingEnds ==
    NetworkStabilises =>
        \A n \in Serial : n \in list ~> (n \notin list \/ fault)
=============================================================================
