--------------------------- MODULE MqttSubscribe ---------------------------
(***************************************************************************)
(* Subscribing, unsubscribing and resubscribing of the MQTT client.        *)
(* uiot_mqtt_subscribe and uiot_mqtt_unsubscribe are run by application    *)
(* threads; the thread that runs uiot_mqtt_yield reads SUBACKs and          *)
(* UNSUBACKs, expires the nodes that wait for one (uiot_mqtt_sub_info_proc) *)
(* and subscribes again after a reconnection (uiot_mqtt_resubscribe).       *)
(*                                                                         *)
(* A request is named by its serial number, which is also its packet id    *)
(* (MqttPublish covers the counter's wrap), the node it pushes on          *)
(* list_sub_wait_ack and the heap block topic_filter_stored it allocates:  *)
(* nodes are appended in the order of their ids, so the list is the set of *)
(* its nodes in ascending order.  Who owns the block moves from the call   *)
(* to the node to a slot of sub_handles, and it has to be freed once.      *)
(***************************************************************************)
EXTENDS Integers, FiniteSets

CONSTANTS Caller,          \* the threads that subscribe and unsubscribe
          Yielder,         \* the thread that calls uiot_mqtt_yield
          NoThread,        \* owner of a free lock
          NULL,            \* no handle, no handler
          Topic,           \* topic filters
          Wildcard,        \* those that contain "/#" or "/+"
          Handler,         \* message handlers
          MAX_SUB_TOPICS,  \* size of sub_handles and of list_sub_wait_ack
          MaxRequest,      \* bound: subscribe and unsubscribe requests
          HandlerCalls     \* do event handlers subscribe and unsubscribe?

ASSUME SubscribeAssumption ==
    /\ MAX_SUB_TOPICS \in Nat \ {0}
    /\ MaxRequest \in Nat
    /\ Wildcard \subseteq Topic
    /\ HandlerCalls \in BOOLEAN
    /\ IsFiniteSet(Caller)
    /\ NoThread \notin Caller \cup {Yielder}
    /\ NULL \notin Handler

Thread == Caller \cup {Yielder}
Request == 1 .. MaxRequest
Slot == 1 .. MAX_SUB_TOPICS

\* SubTopicHandle, with the type of the request it was made for.
SubTopicHandle == [type : {"SUBSCRIBE", "UNSUBSCRIBE"}, topic : Topic,
                   handler : Handler \cup {NULL}]

VARIABLES
    isConnected,   \* is_connected
    asked,         \* filters subscribed to on the current connection
    aborted,       \* uiot_mqtt_resubscribe failed on this connection
    lockWriteBuf,  \* owner of lock_write_buf
    lockGeneric,   \* owner of lock_generic
    lockListSub,   \* owner of lock_list_sub
    started,       \* requests entered
    count,         \* requests that got their packet id
    req,           \* the handle of each request
    list,          \* list_sub_wait_ack
    invalid,       \* its nodes with MQTT_NODE_STATE_INVALID
    expired,       \* the nodes with left_ms(sub_start_time) <= 0
    slot,          \* sub_handles[i].topic_filter, 0 = NULL
    freed,         \* the requests whose topic filter was freed
    pc,            \* where each thread is inside its call
    arg,           \* the arguments of that call
    mine,          \* its request
    ypc,           \* where the yield loop is
    yreq,          \* the request it works on
    handle,        \* the topic filter of its local handle, 0 = NULL
    subNack,       \* sub_nack of _handle_suback_packet
    cursor,        \* ListIterator.next of uiot_mqtt_sub_info_proc, 0 = NULL
    itr,           \* itr of uiot_mqtt_resubscribe
    acks,          \* the SUBACKs (granted or refused) and UNSUBACKs that may come
    accepted,      \* requests whose call returned the packet id
    succeeded,     \* requests reported by an event of success
    refused,       \* requests reported by MQTT_EVENT_SUBSCRIBE_NACK
    timedOut,      \* requests reported by an event of timeout
    dropped,       \* acknowledged subscriptions that found no free slot
    fault          \* what undefined behaviour was met

connVars   == <<isConnected, asked, aborted>>
lockVars   == <<lockWriteBuf, lockGeneric, lockListSub>>
listVars   == <<list, invalid, expired>>
callVars   == <<pc, arg, mine>>
yieldVars  == <<ypc, yreq, handle, subNack, cursor, itr>>
reportVars == <<succeeded, refused, timedOut, dropped>>

vars == <<connVars, lockVars, started, count, req, listVars, slot, freed,
          callVars, yieldVars, acks, accepted, reportVars, fault>>

CallPc == {"idle", "clear", "check", "lock", "id", "push", "send", "remove"}
YieldPc == {"read", "mask", "install", "nack", "unsuback", "unsubscribed",
            "proc", "scan", "timeout", "resubscribe", "copy", "calling"}
Fault == {"none", "node", "filter", "uninitialised"}

\* The types of the variables: requests and slots within their bounds, each
\* lock free or owned by a thread.
TypeOK ==
    /\ isConnected \in BOOLEAN /\ aborted \in BOOLEAN
    /\ asked \subseteq Topic
    /\ lockWriteBuf \in Thread \cup {NoThread}
    /\ lockGeneric \in Thread \cup {NoThread}
    /\ lockListSub \in Thread \cup {NoThread}
    /\ started \in 0 .. MaxRequest /\ count \in 0 .. MaxRequest
    /\ req \in [Request -> SubTopicHandle \cup {NULL}]
    /\ list \subseteq Request /\ invalid \subseteq list /\ expired \subseteq list
    /\ slot \in [Slot -> 0 .. MaxRequest]
    /\ freed \subseteq Request
    /\ pc \in [Thread -> CallPc]
    /\ arg \in [Thread -> SubTopicHandle \cup {NULL}]
    /\ mine \in [Thread -> 0 .. MaxRequest]
    /\ ypc \in YieldPc /\ subNack \in BOOLEAN
    /\ yreq \in 0 .. MaxRequest /\ handle \in 0 .. MaxRequest
    /\ cursor \in 0 .. MaxRequest
    /\ itr \in 1 .. MAX_SUB_TOPICS + 1
    /\ acks \subseteq [request : Request, granted : BOOLEAN]
    /\ accepted \subseteq Request /\ succeeded \subseteq Request
    /\ refused \subseteq Request /\ timedOut \subseteq Request
    /\ dropped \subseteq Request
    /\ fault \in Fault

\* A connected client without subscriptions, as IOT_MQTT_Construct returns it.
Init ==
    /\ isConnected = TRUE /\ asked = {} /\ aborted = FALSE
    /\ lockWriteBuf = NoThread /\ lockGeneric = NoThread /\ lockListSub = NoThread
    /\ started = 0 /\ count = 0 /\ req = [r \in Request |-> NULL]
    /\ list = {} /\ invalid = {} /\ expired = {}
    /\ slot = [s \in Slot |-> 0] /\ freed = {}
    /\ pc = [t \in Thread |-> "idle"]
    /\ arg = [t \in Thread |-> NULL]
    /\ mine = [t \in Thread |-> 0]
    /\ ypc = "read" /\ yreq = 0 /\ handle = 0 /\ subNack = FALSE
    /\ cursor = 0 /\ itr = 1
    /\ acks = {} /\ accepted = {}
    /\ succeeded = {} /\ refused = {} /\ timedOut = {} /\ dropped = {}
    /\ fault = "none"

-----------------------------------------------------------------------------
(* uiot_mqtt_subscribe and uiot_mqtt_unsubscribe, run by thread t *)

Free(lock, t) == lock \in {NoThread, t}

\* What follows undefined behaviour is unknown: no step is described.
At(t, where) == pc[t] = where /\ fault = "none"
Goto(t, where) == pc' = [pc EXCEPT ![t] = where]

\* The yield thread calls from the application's code between two calls of
\* uiot_mqtt_yield or, if HandlerCalls, from an event handler.
MayCall(t) ==
    /\ t \in Caller /\ At(t, "idle") /\ started < MaxRequest
    /\ t = Yielder => \/ ypc = "read"
                      \/ ypc \in {"nack", "unsubscribed", "timeout"} /\ HandlerCalls

\* t's call returns; its locals are gone.  A failed call of
\* uiot_mqtt_resubscribe ends the loop over sub_handles, a successful one
\* moves it on.
Return(t, ok) ==
    /\ Goto(t, "idle")
    /\ arg' = [arg EXCEPT ![t] = NULL]
    /\ mine' = [mine EXCEPT ![t] = 0]
    /\ lockWriteBuf' = NoThread
    /\ IF t = Yielder /\ ypc = "calling"
       THEN IF ok THEN /\ ypc' = "resubscribe" /\ itr' = itr + 1
                       /\ UNCHANGED aborted
                  ELSE ypc' = "read" /\ itr' = 1 /\ aborted' = TRUE
       ELSE UNCHANGED <<ypc, itr, aborted>>

Subscribe(topic, handler) ==
    [type |-> "SUBSCRIBE", topic |-> topic, handler |-> handler]
Unsubscribe(topic) ==
    [type |-> "UNSUBSCRIBE", topic |-> topic, handler |-> NULL]

\* Parameter checks and the connection check, before any lock is taken.
SubscribeEnter(t, topic, handler) ==
    /\ MayCall(t) /\ isConnected
    /\ started' = started + 1
    /\ arg' = [arg EXCEPT ![t] = Subscribe(topic, handler)]
    /\ Goto(t, "lock")
    /\ UNCHANGED <<connVars, lockVars, count, req, listVars, slot, freed, mine,
                   yieldVars, acks, accepted, reportVars, fault>>

UnsubscribeEnter(t, topic) ==
    /\ MayCall(t)
    /\ started' = started + 1
    /\ arg' = [arg EXCEPT ![t] = Unsubscribe(topic)]
    /\ Goto(t, "clear")
    /\ UNCHANGED <<connVars, lockVars, count, req, listVars, slot, freed, mine,
                   yieldVars, acks, accepted, reportVars, fault>>

\* The slots an unsubscription from topic clears: those with that filter, or
\* every slot, used or not, if topic contains a wildcard.
Cleared(topic) ==
    {s \in Slot : \/ slot[s] # 0 /\ req[slot[s]].topic = topic
                  \/ topic \in Wildcard}
Occupied == {s \in Slot : slot[s] # 0}

\* Mutant: the filter is freed and the slot left as it is.
ClearHandlesMutant(t) ==
    /\ At(t, "clear") /\ Free(lockGeneric, t)
    /\ LET topic == arg[t].topic
           filters == {slot[s] : s \in Cleared(topic) \cap Occupied}
       IN /\ UNCHANGED slot
          /\ freed' = freed \cup filters
          /\ fault' = IF filters \cap freed # {} THEN "filter" ELSE fault
          /\ IF Cleared(topic) = {}
             THEN Goto(t, "idle") /\ arg' = [arg EXCEPT ![t] = NULL]
             ELSE Goto(t, "check") /\ UNCHANGED arg
    /\ UNCHANGED <<connVars, lockVars, started, count, req, listVars, mine,
                   yieldVars, acks, accepted, reportVars>>

\* Under lock_generic, and before the connection is checked.
ClearHandles(t) ==
    /\ At(t, "clear") /\ Free(lockGeneric, t)
    /\ LET topic == arg[t].topic
           filters == {slot[s] : s \in Cleared(topic) \cap Occupied}
       IN /\ slot' = [s \in Slot |-> IF s \in Cleared(topic) THEN 0 ELSE slot[s]]
          /\ freed' = freed \cup filters
          /\ fault' = IF filters \cap freed # {} THEN "filter" ELSE fault
          /\ IF Cleared(topic) = {}
             THEN Goto(t, "idle") /\ arg' = [arg EXCEPT ![t] = NULL]
             ELSE Goto(t, "check") /\ UNCHANGED arg
    /\ UNCHANGED <<connVars, lockVars, started, count, req, listVars, mine,
                   yieldVars, acks, accepted, reportVars>>

\* On to the packet; or ERR_MQTT_NO_CONN, or no memory for the filter, although
\* the handles are gone.
UnsubscribeCheck(t) ==
    /\ At(t, "check")
    /\ \/ isConnected /\ Goto(t, "lock") /\ UNCHANGED arg
       \/ Goto(t, "idle") /\ arg' = [arg EXCEPT ![t] = NULL]
    /\ UNCHANGED <<connVars, lockVars, started, count, req, listVars, slot,
                   freed, mine, yieldVars, acks, accepted, reportVars, fault>>

LockWriteBuf(t) ==
    /\ At(t, "lock") /\ Free(lockWriteBuf, t)
    /\ lockWriteBuf' = t
    /\ Goto(t, "id")
    /\ UNCHANGED <<connVars, lockGeneric, lockListSub, started, count, req,
                   listVars, slot, freed, arg, mine, yieldVars, acks, accepted,
                   reportVars, fault>>

\* get_next_packet_id takes lock_generic; the topic filter was copied to the
\* heap before.
GetNextPacketId(t) ==
    /\ At(t, "id") /\ Free(lockGeneric, t)
    /\ count' = count + 1
    /\ req' = [req EXCEPT ![count + 1] = arg[t]]
    /\ mine' = [mine EXCEPT ![t] = count + 1]
    /\ Goto(t, "push")
    /\ UNCHANGED <<connVars, lockVars, started, listVars, slot, freed, arg,
                   yieldVars, acks, accepted, reportVars, fault>>

HasRoom == Cardinality(list) < MAX_SUB_TOPICS

\* push_sub_info_to.
PushSubInfo(t) ==
    /\ At(t, "push") /\ Free(lockListSub, t) /\ HasRoom
    /\ list' = list \cup {mine[t]}
    /\ Goto(t, "send")
    /\ UNCHANGED <<connVars, lockVars, started, count, req, invalid, expired,
                   slot, freed, arg, mine, yieldVars, acks, accepted,
                   reportVars, fault>>

\* Mutant: the error path forgets the filter.
PushFailMutant(t) ==
    /\ At(t, "push")
    /\ Return(t, FALSE)
    /\ UNCHANGED <<isConnected, asked, lockGeneric, lockListSub, started,
                   count, req, listVars, slot, freed, yreq, handle, subNack, cursor, acks, accepted,
                   reportVars, fault>>

\* The packet does not fit, the list is full, or memory is.
PushFail(t) ==
    /\ At(t, "push")
    /\ freed' = freed \cup {mine[t]}
    /\ Return(t, FALSE)
    /\ UNCHANGED <<isConnected, asked, lockGeneric, lockListSub, started,
                   count, req, listVars, slot, yreq, handle, subNack, cursor, acks, accepted,
                   reportVars, fault>>

\* External: a broker that gets request r may answer it, granted or refused
\* (an UNSUBACK refuses nothing).  An answer that is never read stands for a
\* request or an answer that was lost.
BrokerAnswers(r, granted) ==
    /\ req[r].type = "UNSUBSCRIBE" => granted
    /\ acks' = acks \cup {[request |-> r, granted |-> granted]}

SendOk(t, granted) ==
    /\ At(t, "send") /\ isConnected
    /\ BrokerAnswers(mine[t], granted)
    /\ asked' = IF req[mine[t]].type = "SUBSCRIBE" THEN asked \cup {req[mine[t]].topic}
                                                  ELSE asked
    /\ accepted' = accepted \cup {mine[t]}
    /\ Return(t, TRUE)
    /\ UNCHANGED <<isConnected, lockGeneric, lockListSub, started, count, req,
                   listVars, slot, freed, yreq, handle, subNack, cursor,
                   reportVars, fault>>

\* send_mqtt_packet fails, which does not mean that the broker got nothing.
SendFail(t, granted) ==
    /\ At(t, "send")
    /\ IF isConnected THEN BrokerAnswers(mine[t], granted)
                      ELSE granted /\ UNCHANGED acks
    /\ Goto(t, "remove")
    /\ UNCHANGED <<connVars, lockVars, started, count, req, listVars, slot,
                   freed, arg, mine, yieldVars, accepted, reportVars, fault>>

\* list_remove and HAL_Free of the call's own node and filter, which it does
\* not look up first.
ListRemove(t) ==
    /\ At(t, "remove") /\ Free(lockListSub, t)
    /\ list' = list \ {mine[t]}
    /\ invalid' = invalid \ {mine[t]} /\ expired' = expired \ {mine[t]}
    /\ freed' = freed \cup {mine[t]}
    /\ fault' = IF mine[t] \notin list THEN "node"
                ELSE IF mine[t] \in freed THEN "filter" ELSE fault
    /\ Return(t, FALSE)
    /\ UNCHANGED <<isConnected, asked, lockGeneric, lockListSub, started,
                   count, req, slot, yreq, handle, subNack, cursor, acks, accepted, reportVars>>

-----------------------------------------------------------------------------
(* SUBACK and UNSUBACK, read by the yield loop *)

InYield(where) == ypc = where /\ At(Yielder, "idle")

\* _handle_suback_packet takes lock_generic ...
ReadSuback(a) ==
    /\ InYield("read") /\ isConnected
    /\ a \in acks /\ req[a.request].type = "SUBSCRIBE"
    /\ Free(lockGeneric, Yielder)
    /\ lockGeneric' = Yielder
    /\ yreq' = a.request /\ subNack' = ~a.granted
    /\ ypc' = "mask"
    /\ acks' = acks \ {a}
    /\ UNCHANGED <<connVars, lockWriteBuf, lockListSub, started, count, req,
                   listVars, slot, freed, callVars, handle, cursor, itr,
                   accepted, reportVars, fault>>

\* The yield loop is done with a packet and goes on at where: only a packet
\* handled with success is followed by uiot_mqtt_sub_info_proc.
Handled(where) == ypc' = where /\ yreq' = 0 /\ handle' = 0 /\ subNack' = FALSE

\* ... and under it lock_list_sub, to mark the node and copy its handle.
\* Without a node the packet is an error.
MaskSubInfo ==
    /\ InYield("mask") /\ Free(lockListSub, Yielder)
    /\ IF yreq \in list
       THEN /\ invalid' = invalid \cup {yreq}
            /\ handle' = yreq
            /\ ypc' = IF subNack THEN "nack" ELSE "install"
            /\ refused' = IF subNack THEN refused \cup {yreq} ELSE refused
            /\ UNCHANGED <<lockGeneric, yreq, subNack>>
       ELSE /\ lockGeneric' = NoThread
            /\ Handled("read")
            /\ UNCHANGED <<invalid, refused>>
    /\ UNCHANGED <<connVars, lockWriteBuf, lockListSub, started, count, req, list,
                   expired, slot, freed, callVars, cursor, itr, acks, accepted,
                   succeeded, timedOut, dropped, fault>>

\* HAL_Free of a filter that may have been freed already.
FreeFilter(f) == /\ freed' = freed \cup {f}
                 /\ fault' = IF f \in freed THEN "filter" ELSE fault

\* The SUBSCRIBE_NACK handler ran with lock_generic held.
NackReturn ==
    /\ InYield("nack")
    /\ FreeFilter(handle)
    /\ lockGeneric' = NoThread
    /\ Handled("read")
    /\ UNCHANGED <<connVars, lockWriteBuf, lockListSub, started, count, req,
                   listVars, slot, callVars, cursor, itr, acks, accepted,
                   reportVars>>

\* _check_handle_is_identical holds for some slot.  Mutant: it never does.
IdenticalMutant(f) == FALSE
Identical(f) ==
    \E s \in Occupied : /\ req[slot[s]].topic = req[f].topic
                        /\ req[slot[s]].handler = req[f].handler

\* i_free: the first free slot.
FirstFree == CHOOSE s \in Slot \ Occupied : \A u \in Slot \ Occupied : s <= u

\* The SUBACK was granted: the handle is a duplicate and its filter freed, or
\* finds no slot and is forgotten, or is stored.
SubackInstall ==
    /\ InYield("install")
    /\ fault' = IF ({handle} \cup {slot[s] : s \in Occupied}) \cap freed # {}
                THEN "filter" ELSE fault
    /\ IF Identical(handle)
       THEN /\ freed' = freed \cup {handle}
            /\ succeeded' = succeeded \cup {yreq}
            /\ Handled("proc")
            /\ UNCHANGED <<slot, dropped>>
       ELSE IF Occupied = Slot
       THEN /\ dropped' = dropped \cup {yreq}
            /\ Handled("read")
            /\ UNCHANGED <<slot, freed, succeeded>>
       ELSE /\ slot' = [slot EXCEPT ![FirstFree] = handle]
            /\ succeeded' = succeeded \cup {yreq}
            /\ Handled("proc")
            /\ UNCHANGED <<freed, dropped>>
    /\ lockGeneric' = NoThread
    /\ UNCHANGED <<connVars, lockWriteBuf, lockListSub, started, count, req,
                   listVars, callVars, cursor, itr, acks, accepted, refused,
                   timedOut>>

\* _handle_unsuback_packet: without a node the handle it goes on with is an
\* uninitialised local, NULL or not.
ReadUnsuback(a, garbage) ==
    /\ InYield("read") /\ isConnected
    /\ a \in acks /\ req[a.request].type = "UNSUBSCRIBE"
    /\ Free(lockListSub, Yielder)
    /\ garbage => a.request \notin list
    /\ fault' = IF garbage THEN "uninitialised" ELSE fault
    /\ invalid' = invalid \cup ({a.request} \cap list)
    /\ handle' = IF a.request \in list THEN a.request ELSE 0
    /\ yreq' = a.request
    /\ acks' = acks \ {a}
    /\ ypc' = "unsuback"
    /\ UNCHANGED <<connVars, lockVars, started, count, req, list, expired, slot,
                   freed, callVars, subNack, cursor, itr, accepted, reportVars>>

UnsubackFree ==
    /\ InYield("unsuback") /\ Free(lockGeneric, Yielder)
    /\ lockGeneric' = Yielder
    /\ IF handle = 0 THEN UNCHANGED <<freed, fault>> ELSE FreeFilter(handle)
    /\ succeeded' = succeeded \cup {yreq}
    /\ ypc' = "unsubscribed"
    /\ UNCHANGED <<connVars, lockWriteBuf, lockListSub, started, count, req,
                   listVars, slot, callVars, yreq, handle, subNack, cursor, itr,
                   acks, accepted, refused, timedOut, dropped>>

\* The UNSUBSCRIBE_SUCCESS handler ran with lock_generic held.
UnsubackReturn ==
    /\ InYield("unsubscribed")
    /\ lockGeneric' = NoThread
    /\ Handled("proc")
    /\ UNCHANGED <<connVars, lockWriteBuf, lockListSub, started, count, req,
                   listVars, slot, freed, callVars, cursor, itr, acks, accepted,
                   reportVars, fault>>

NothingToRead ==
    /\ InYield("read") /\ isConnected
    /\ ypc' = "proc"
    /\ UNCHANGED <<connVars, lockVars, started, count, req, listVars, slot, freed,
                   callVars, yreq, handle, subNack, cursor, itr, acks, accepted,
                   reportVars, fault>>

-----------------------------------------------------------------------------
(* uiot_mqtt_sub_info_proc: from the tail of the list to its head, with      *)
(* lock_list_sub held all along                                             *)

\* The node before n in the list, 0 if n is its head (ListNode.prev).
Prev(n) == LET before == {m \in list : m < n}
           IN IF before = {} THEN 0
              ELSE CHOOSE m \in before : \A k \in before : k <= m

ProcBegin ==
    /\ InYield("proc") /\ Free(lockListSub, Yielder)
    /\ lockListSub' = Yielder
    /\ cursor' = Prev(MaxRequest + 1)
    /\ ypc' = "scan"
    /\ UNCHANGED <<connVars, lockWriteBuf, lockGeneric, started, count, req,
                   listVars, slot, freed, callVars, yreq, handle, subNack, itr, acks,
                   accepted, reportVars, fault>>

\* Mutant: lock_list_sub is not released at the end of the iteration.
ScanEndMutant ==
    /\ InYield("scan") /\ cursor = 0
    /\ ypc' = "read"
    /\ UNCHANGED <<connVars, lockVars, started, count, req,
                   listVars, slot, freed, callVars, yreq, handle, subNack, cursor, itr,
                   acks, accepted, reportVars, fault>>

ScanEnd ==
    /\ InYield("scan") /\ cursor = 0
    /\ lockListSub' = NoThread
    /\ ypc' = "read"
    /\ UNCHANGED <<connVars, lockWriteBuf, lockGeneric, started, count, req,
                   listVars, slot, freed, callVars, yreq, handle, subNack, cursor, itr,
                   acks, accepted, reportVars, fault>>

\* Mutant: the flags of the node stay behind.
RemoveMutant(n) == list' = list \ {n} /\ UNCHANGED <<invalid, expired>>

\* list_remove of node n.
Remove(n) == /\ list' = list \ {n}
             /\ invalid' = invalid \ {n}
             /\ expired' = expired \ {n}

\* An acknowledged node is removed; its filter belongs to a slot, was freed,
\* or was dropped.
ScanInvalid ==
    /\ InYield("scan") /\ cursor \in invalid
    /\ Remove(cursor)
    /\ cursor' = Prev(cursor)
    /\ UNCHANGED <<connVars, lockVars, started, count, req, slot, freed,
                   callVars, ypc, yreq, handle, subNack, itr, acks, accepted,
                   reportVars, fault>>

\* The node is to be reported timed out.  Mutant: an acknowledged one, too.
DueMutant(n) == isConnected /\ n \in expired
Due(n) == n \notin invalid /\ isConnected /\ n \in expired

ScanSkip ==
    /\ InYield("scan") /\ cursor \in list \ invalid /\ ~Due(cursor)
    /\ cursor' = Prev(cursor)
    /\ UNCHANGED <<connVars, lockVars, started, count, req, listVars, slot,
                   freed, callVars, ypc, yreq, handle, subNack, itr, acks, accepted,
                   reportVars, fault>>

\* The timeout handler is called with lock_list_sub held ...
ScanTimeout ==
    /\ InYield("scan") /\ cursor \in list /\ Due(cursor)
    /\ timedOut' = timedOut \cup {cursor}
    /\ yreq' = cursor
    /\ cursor' = Prev(cursor)
    /\ ypc' = "timeout"
    /\ UNCHANGED <<connVars, lockVars, started, count, req, listVars, slot,
                   freed, callVars, handle, subNack, itr, acks, accepted, succeeded,
                   refused, dropped, fault>>

\* Mutant: the timed out node stays in the list.
TimeoutReturnMutant ==
    /\ InYield("timeout")
    /\ FreeFilter(yreq)
    /\ yreq' = 0
    /\ ypc' = "scan"
    /\ UNCHANGED <<connVars, lockVars, started, count, req, listVars, slot, callVars,
                   handle, subNack, cursor, itr, acks, accepted, reportVars>>

\* ... and the node and its filter are freed when it returns.
TimeoutReturn ==
    /\ InYield("timeout")
    /\ Remove(yreq)
    /\ FreeFilter(yreq)
    /\ yreq' = 0
    /\ ypc' = "scan"
    /\ UNCHANGED <<connVars, lockVars, started, count, req, slot, callVars,
                   handle, subNack, cursor, itr, acks, accepted, reportVars>>

-----------------------------------------------------------------------------
(* Disconnection, reconnection and uiot_mqtt_resubscribe *)

\* Mutant: the waiting requests are forgotten as well.
DisconnectMutant ==
    /\ InYield("read") /\ isConnected
    /\ isConnected' = FALSE
    /\ acks' = {} /\ list' = {} /\ invalid' = {} /\ expired' = {}
    /\ UNCHANGED <<asked, aborted, lockVars, started, count, req,
                   slot, freed, callVars, yieldVars, accepted,
                   reportVars, fault>>

\* A read or a ping failed; acknowledgements on their way are lost.
Disconnect ==
    /\ InYield("read") /\ isConnected
    /\ isConnected' = FALSE
    /\ acks' = {}
    /\ UNCHANGED <<asked, aborted, lockVars, started, count, req,
                   listVars, slot, freed, callVars, yieldVars, accepted,
                   reportVars, fault>>

\* uiot_mqtt_attempt_reconnect: connected again, resubscribe.  Bound: there
\* are requests left for every slot.
Reconnect ==
    /\ InYield("read") /\ ~isConnected
    /\ started + MAX_SUB_TOPICS <= MaxRequest
    /\ isConnected' = TRUE
    /\ asked' = {} /\ aborted' = FALSE
    /\ ypc' = "resubscribe" /\ itr' = 1
    /\ UNCHANGED <<lockVars, started, count, req, listVars, slot, freed,
                   callVars, yreq, handle, subNack, cursor, acks, accepted,
                   reportVars, fault>>

\* The next slot; its filter is read without lock_generic.  Mutant: the loop
\* stops one slot early.
ResubscribeNextMutant ==
    /\ InYield("resubscribe")
    /\ IF itr >= MAX_SUB_TOPICS
       THEN ypc' = "read" /\ itr' = 1 /\ UNCHANGED handle
       ELSE IF slot[itr] = 0 THEN itr' = itr + 1 /\ UNCHANGED <<ypc, handle>>
       ELSE ypc' = "copy" /\ handle' = slot[itr] /\ UNCHANGED itr
    /\ UNCHANGED <<connVars, lockVars, started, count, req, listVars, slot,
                   freed, callVars, yreq, subNack, cursor, acks, accepted,
                   reportVars, fault>>

ResubscribeNext ==
    /\ InYield("resubscribe")
    /\ IF itr > MAX_SUB_TOPICS
       THEN ypc' = "read" /\ itr' = 1 /\ UNCHANGED handle
       ELSE IF slot[itr] = 0 THEN itr' = itr + 1 /\ UNCHANGED <<ypc, handle>>
       ELSE ypc' = "copy" /\ handle' = slot[itr] /\ UNCHANGED itr
    /\ UNCHANGED <<connVars, lockVars, started, count, req, listVars, slot,
                   freed, callVars, yreq, subNack, cursor, acks, accepted,
                   reportVars, fault>>

\* uiot_mqtt_subscribe copies the filter: it must not have been freed.
ResubscribeCopy ==
    /\ InYield("copy") /\ started < MaxRequest
    /\ fault' = IF handle \in freed THEN "filter" ELSE fault
    /\ started' = started + 1
    /\ arg' = [arg EXCEPT ![Yielder] = Subscribe(req[handle].topic, req[handle].handler)]
    /\ Goto(Yielder, "lock")
    /\ handle' = 0
    /\ ypc' = "calling"
    /\ UNCHANGED <<connVars, lockVars, count, req, listVars, slot, freed, mine,
                   yreq, subNack, cursor, itr, acks, accepted, reportVars>>

\* command_timeout_ms of a waiting node runs out.
TimerExpires(n) ==
    /\ fault = "none" /\ n \in list \ (invalid \cup expired)
    /\ expired' = expired \cup {n}
    /\ UNCHANGED <<connVars, lockVars, started, count, req, list, invalid, slot,
                   freed, callVars, yieldVars, acks, accepted, reportVars, fault>>

-----------------------------------------------------------------------------
CallStep(t) ==
    \/ \E f \in Topic, h \in Handler : SubscribeEnter(t, f, h)
    \/ \E f \in Topic : UnsubscribeEnter(t, f)
    \/ ClearHandles(t)
    \/ UnsubscribeCheck(t)
    \/ LockWriteBuf(t)
    \/ GetNextPacketId(t)
    \/ PushSubInfo(t)
    \/ PushFail(t)
    \/ \E granted \in BOOLEAN : SendOk(t, granted)
    \/ \E granted \in BOOLEAN : SendFail(t, granted)
    \/ ListRemove(t)

YieldStep ==
    \/ \E a \in acks : ReadSuback(a)
    \/ MaskSubInfo
    \/ NackReturn
    \/ SubackInstall
    \/ \E a \in acks, garbage \in BOOLEAN : ReadUnsuback(a, garbage)
    \/ UnsubackFree
    \/ UnsubackReturn
    \/ NothingToRead
    \/ ProcBegin
    \/ ScanEnd
    \/ ScanInvalid
    \/ ScanSkip
    \/ ScanTimeout
    \/ TimeoutReturn
    \/ Disconnect
    \/ Reconnect
    \/ ResubscribeNext
    \/ ResubscribeCopy

Next == \/ \E t \in Thread : CallStep(t)
        \/ YieldStep
        \/ \E n \in Request : TimerExpires(n)

Spec == Init /\ [][Next]_vars

-----------------------------------------------------------------------------
(* Properties *)

\* The requests whose filter a call in progress still has to free or to hand
\* to a node.
InCall == {mine[t] : t \in {u \in Thread : pc[u] \in {"push", "send", "remove"}}}

\* The filter of a stored subscription is valid for as long as it is stored:
\* no slot of sub_handles points to a filter that was freed, and no two slots
\* share one.
SlotFilterValid ==
    \A s, u \in Occupied : /\ slot[s] \notin freed
                           /\ slot[s] = slot[u] => s = u

\* Every topic filter allocated for a request is freed, or owned by its call,
\* its waiting node, a slot or the handler of its SUBACK; only a subscription
\* that found all slots taken leaks it.
NoFilterLeak ==
    \A r \in 1 .. count :
        \/ r \in freed \cup dropped \cup InCall \cup (list \ invalid) \cup {handle}
        \/ \E s \in Slot : slot[s] = r

\* No topic filter is freed twice or used after it was freed, and no node of
\* list_sub_wait_ack is unlinked after it was freed.
NoUseAfterFree == fault \notin {"filter", "node"}

\* One slot per topic filter and handler: a subscription that is repeated, by
\* the application or after a reconnection, does not use up sub_handles.
NoDuplicateSlot ==
    \A s, u \in Occupied :
        /\ req[slot[s]].topic = req[slot[u]].topic
        /\ req[slot[s]].handler = req[slot[u]].handler
        => s = u

\* Each topic filter has one owner, which frees it once; sub_handles holds valid
\* ones, each subscription once, whatever was subscribed, repeated, refused,
\* cleared and subscribed again.
FiltersSound == SlotFilterValid /\ NoDuplicateSlot /\ NoFilterLeak /\ NoUseAfterFree

\* A subscription whose call returned a packet id is waiting, was reported
\* granted, refused or timed out, or was dropped for want of a slot.
AcceptedIsAccounted ==
    accepted \subseteq list \cup succeeded \cup refused \cup timedOut \cup dropped
                     \cup {yreq}

\* The outcomes of a subscription exclude each other: a SUBACK that comes after
\* the timeout is ignored, a timeout never follows a SUBACK.
OneOutcome ==
    \A r \in 1 .. count : req[r].type = "SUBSCRIBE" =>
        /\ r \in timedOut => r \notin succeeded \cup refused \cup dropped
        /\ r \in succeeded => r \notin refused \cup dropped
        /\ r \in refused => r \notin dropped

\* Every subscription that was accepted has exactly one outcome, or waits.
OutcomesSound == AcceptedIsAccounted /\ OneOutcome

\* After a reconnection whose resubscription did not fail, every stored
\* subscription was asked for again on the new connection.
ResubscribeComplete ==
    isConnected /\ ypc = "read" /\ ~aborted =>
        \A s \in Occupied : req[slot[s]].topic \in asked

\* The owner of the lock that t waits for.
WaitsFor(t) ==
    CASE pc[t] = "lock" -> lockWriteBuf
      [] pc[t] \in {"clear", "id"} -> lockGeneric
      [] pc[t] \in {"push", "remove"} -> lockListSub
      [] t = Yielder /\ pc[t] = "idle" /\ ypc \in {"mask", "proc"} -> lockListSub
      [] t = Yielder /\ pc[t] = "idle" /\ ypc = "unsuback" -> lockGeneric
      [] OTHER -> NoThread

\* No two threads wait for each other's lock.
NoCircularWait ==
    \A t, u \in Thread : t # u => ~(WaitsFor(t) = u /\ WaitsFor(u) = t)
=============================================================================
