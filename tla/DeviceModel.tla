---------------------------- MODULE DeviceModel ----------------------------
(***************************************************************************)
(* The device model (uiot/dev_model) on top of MqttReceive.  The           *)
(* application registers a callback for each type of message; each         *)
(* registration subscribes to the type's topic.  The cloud's requests      *)
(* (PROPERTY_SET, COMMAND) are answered with what the callback returns.    *)
(* Reports are built by HAL_Snprintf in buffers of fixed sizes.            *)
(*                                                                         *)
(* A JSON object is a sequence of key and value bytes; punctuation is one  *)
(* byte.  The application registers its callbacks and then yields, in one  *)
(* thread, as its samples do.                                              *)
(***************************************************************************)
EXTENDS MqttReceive

CONSTANTS
    Registered,     \* the types the application registers, in its order
    Down, Up,       \* each type's downstream and upstream topic
    MaxSlot,        \* MAX_SUB_TOPICS
    ReportBufLen,   \* DM_MSG_REPORT_BUF_LEN, DM_EVENT_POST_BUF_LEN, DM_CMD_REPLY_BUF_LEN
    ReplyBufLen,    \* DM_MSG_REPLY_BUF_LEN
    Report,         \* what the application reports: sequences of properties
    RetCode         \* what its callbacks return

DM_Type == {"RESTORE", "POST", "SET", "DESIRED_GET", "DESIRED_DELETE", "EVENT_POST", "COMMAND"}

\* A report has a property, and what is made of members has one.
NonEmpty(S) == Seq(S) \ {<<>>}
IsProperty(p) ==
    \/ p \in [type : {"NODE"}, value : Seq(Byte)]
    \/ p \in [type : {"STRUCT", "ARRAY_BASE"}, value : NonEmpty(Seq(Byte))]
    \/ p \in [type : {"ARRAY_STRUCT"}, value : NonEmpty(NonEmpty(Seq(Byte)))]

\* A downstream topic has no wildcards.  A topic fix_topic cuts does not become
\* one: those of the same beginning are shorter than that.
ASSUME DeviceModelAssumption ==
    /\ {MaxSlot, ReportBufLen, ReplyBufLen} \subseteq Nat \ {0}
    /\ Registered \in Seq(DM_Type)
    /\ \A t \in DM_Type :
        /\ Down[t] \in Seq(Byte \ {Plus, Hash}) /\ Up[t] \in Seq(Byte)
        /\ \A m \in Message : FixTopic(m.topic) = Down[t] => m.topic = Down[t]
    /\ \A r \in Report : r # <<>> /\ r \in Seq({r[i] : i \in DOMAIN r})
                       /\ \A i \in DOMAIN r : IsProperty(r[i])

VARIABLES
    callbacks,  \* how many of Registered have their callback
    calls,      \* history: the calls of the callbacks in this connection
    answers,    \* history: the answer the cloud got to each call, or Dropped
    report      \* a report published by the last step: as meant and as the cloud got it

dvars == <<callbacks, calls, answers, report>>
vars == <<rvars, dvars>>

Replying == {"SET", "COMMAND"}
Dropped == <<>>

RequestID  == 1
RetCodeKey == 2
Property   == 3
Desired    == 4
Identifier == 5
Input      == 6
NotInt8    == 9     \* a RetCode LITE_get_int8 refuses

\* The fields each handler needs before it calls the callback.
Needs(t) ==
    CASE t = "SET"         -> {RequestID, Property}
      [] t = "COMMAND"     -> {RequestID, Identifier, Input}
      [] t = "RESTORE"     -> {RetCodeKey, RequestID, Property}
      [] t = "DESIRED_GET" -> {RetCodeKey, RequestID, Desired}
      [] OTHER             -> {RetCodeKey, RequestID}

Places(key, json) == {i \in DOMAIN json : i % 2 = 1 /\ json[i] = key /\ i < Len(json)}
LITE_json_value_of(key, json) == json[1 + CHOOSE i \in Places(key, json) : TRUE]

Complete(t, json) ==
    /\ \A key \in Needs(t) : Places(key, json) # {}
    /\ RetCodeKey \in Needs(t) => LITE_json_value_of(RetCodeKey, json) # NotInt8

-----------------------------------------------------------------------------
(* Building payloads.  A text being built has the bytes written, the room  *)
(* remain_size says is left, and whether bytes went past the buffer: a      *)
(* negative remain_size is a huge size_t.                                   *)

Open  == 10
Close == 11
Sep   == 12
Key   == 13
Ver   == 14

Cut(s, size) == SubSeq(s, 1, Min2(Len(s), size - 1))     \* HAL_Snprintf

Put(text, s) ==
    [str  |-> text.str \o (IF text.room < 0 THEN s ELSE Cut(s, text.room)),
     room |-> text.room - Len(s),
     over |-> text.over \/ text.room < 0]

Empty(size) == [str |-> <<>>, room |-> size, over |-> FALSE]
Start(s, size) == Put(Empty(size), s)
Failed(text) == text.room < 0

NodeText(node, vk) == IF vk THEN <<Key, Open>> \o node \o <<Close>> ELSE <<Key>> \o node

dm_gen_node_payload(node, vk, size) == [Start(NodeText(node, vk), size) EXCEPT !.room = @ - 1]

\* The parts of a text, written one after the other.
Chain(parts, size) ==
    LET T[k \in 0 .. Len(parts)] ==
          IF k = 0 THEN Empty(size) ELSE Put(T[k - 1], parts[k])
    IN  T[Len(parts)]

\* The members, made into texts, between pre and post.  A single member is
\* written without looking at the room.
Enclose(texts, pre, post, size) ==
    LET n == Len(texts)
        s == [i \in 1 .. n |-> (IF i = 1 THEN pre ELSE <<Sep>>) \o texts[i].str
                               \o (IF i = n THEN post ELSE <<>>)]
        over == \E i \in 1 .. n : texts[i].over
        all == IF n = 1 THEN [Start(s[1], size) EXCEPT !.room = 0]
               ELSE Chain(s, size)
    IN  IF \E i \in 1 .. n : Failed(texts[i])
        THEN [str |-> <<>>, room |-> -1, over |-> over]
        ELSE [all EXCEPT !.over = @ \/ over]

Pre(vk)  == IF vk THEN <<Key, Open, Open>> ELSE <<Key, Open>>
Post(vk) == IF vk THEN <<Close, Close>> ELSE <<Close>>

Nodes(nodes, size) == [i \in DOMAIN nodes |-> dm_gen_node_payload(nodes[i], FALSE, size)]

dm_gen_struct_payload(nodes, vk, size) == Enclose(Nodes(nodes, size), Pre(vk), Post(vk), size)

dm_gen_array_base_payload(nodes, vk, size) == Enclose(Nodes(nodes, size), Pre(vk), Post(vk), size)

\* The structures of an array have no key.
dm_gen_array_struct_payload(structs, vk, size) ==
    Enclose([i \in DOMAIN structs |-> Enclose(Nodes(structs[i], size), <<Open>>, <<Close>>, size)],
            Pre(vk), Post(vk), size)

dm_gen_property_post_payload(p, vk, size) ==
    CASE p.type = "NODE"         -> dm_gen_node_payload(p.value, vk, size)
      [] p.type = "STRUCT"       -> dm_gen_struct_payload(p.value, vk, size)
      [] p.type = "ARRAY_BASE"   -> dm_gen_array_base_payload(p.value, vk, size)
      [] p.type = "ARRAY_STRUCT" -> dm_gen_array_struct_payload(p.value, vk, size)

dm_gen_properties_payload(props, t, vk, size) ==
    LET texts == [i \in DOMAIN props |->
            CASE t = "DESIRED_GET"    -> Start(<<Key>>, size)
              [] t = "DESIRED_DELETE" -> Start(<<Key, Open, Ver, Close>>, size)
              [] OTHER                -> dm_gen_property_post_payload(props[i], vk, size)]
        over == \E i \in DOMAIN texts : texts[i].over
        s == [i \in DOMAIN texts |-> (IF i = 1 THEN <<>> ELSE <<Sep>>) \o texts[i].str]
    IN  IF \E i \in DOMAIN texts : Failed(texts[i])
        THEN [str |-> <<>>, room |-> -1, over |-> over]
        ELSE [Chain(s, size) EXCEPT !.over = @ \/ over]

\* The text meant, without a buffer: the members with separators between them.
Joined(texts) ==
    LET J[k \in 0 .. Len(texts)] ==
          IF k = 0 THEN <<>> ELSE J[k - 1] \o (IF k = 1 THEN <<>> ELSE <<Sep>>) \o texts[k]
    IN  J[Len(texts)]

NodeTexts(nodes) == [i \in DOMAIN nodes |-> NodeText(nodes[i], FALSE)]

PropertyText(p, vk) ==
    IF p.type = "NODE" THEN NodeText(p.value, vk)
    ELSE Pre(vk) \o Joined(IF p.type # "ARRAY_STRUCT" THEN NodeTexts(p.value)
                           ELSE [i \in DOMAIN p.value |->
                                   <<Open>> \o Joined(NodeTexts(p.value[i])) \o <<Close>>])
                 \o Post(vk)

ReportText(props, t, vk) ==
    Joined([i \in DOMAIN props |->
              CASE t = "DESIRED_GET"    -> <<Key>>
                [] t = "DESIRED_DELETE" -> <<Key, Open, Ver, Close>>
                [] OTHER                -> PropertyText(props[i], vk)])

\* _dm_mqtt_gen_property_payload, _dm_mqtt_gen_event_payload
Wrap(t, text) ==
    <<RequestID, 0>> \o CASE t = "RESTORE"    -> <<>>
                          [] t = "EVENT_POST" -> <<Identifier, 0, Open>> \o text \o <<Close>>
                          [] OTHER            -> <<Property, Open>> \o text \o <<Close>>

\* Mutant: the text is measured before it is wrapped.
AcceptsMutant(t, text) == Len(text) < ReportBufLen

Accepts(t, text) == Len(Wrap(t, text)) < ReportBufLen

-----------------------------------------------------------------------------
(* Publishing, and what the cloud decodes.                                 *)

Publication(topic, payload) ==
    [topic |-> topic, qos |-> 1, dup |-> 0, id |-> 1, payload |-> payload]

_dm_mqtt_publish(topic, payload) ==
    up /\ Len(topic) <= MaxTopic /\ FitsWriteBuf(Publication(topic, payload))

Decoded(topic, payload) ==
    LET m == Publication(topic, payload)
        r == _get_publish_packet_len(m)
    IN  deserialize_publish_packet(_serialize_publish_packet(m),
            1 + Len(mqtt_write_packet_rem_len[r]), r).payload

-----------------------------------------------------------------------------
NoReport == [meant |-> <<>>, got |-> <<>>]

OthersUnchanged == report' = NoReport /\ UNCHANGED <<callbacks, calls, answers>>

Init ==
    /\ ReceiveInit
    /\ callbacks = 0 /\ calls = <<>> /\ answers = <<>> /\ report = NoReport

\* The callback is stored first; whether the subscription succeeds is not told.
_dsc_mqtt_register_callback ==
    /\ phase = "idle" /\ callbacks < Len(Registered)
    /\ callbacks' = callbacks + 1
    /\ LET t == Registered[callbacks'] IN
        slots' = IF up /\ Len(slots) < MaxSlot
                 THEN Append(slots, [filter |-> Down[t], handler |-> t]) ELSE slots
    /\ UNCHANGED <<up, wire, broker, buf, phase, rem, cnt, msg, at, delivered, faults,
                   calls, answers>>
    /\ report' = NoReport

\* A report's upstream topic is known once its type's callback is registered.
IsRegistered(t) == \E i \in 1 .. callbacks : Registered[i] = t

\* A report that fails changes nothing, unless it wrote past a buffer, which may
\* do anything: the device is then "down".
ReportEx(t, props) ==
    LET vk   == t # "EVENT_POST"
        text == dm_gen_properties_payload(props, t, vk, ReportBufLen)
    IN
    /\ phase = "idle" /\ IsRegistered(t)
    /\ \/ /\ ~Failed(text) /\ Accepts(t, text.str)
          /\ _dm_mqtt_publish(Up[t], Wrap(t, text.str))
          /\ UNCHANGED <<phase, up>>
          /\ report' = [meant |-> Wrap(t, ReportText(props, t, vk)), got |-> Decoded(Up[t], Wrap(t, text.str))]
       \/ text.over /\ phase' = "down" /\ up' = FALSE /\ report' = NoReport
    /\ UNCHANGED <<wire, broker, buf, rem, cnt, msg, at, slots, delivered, faults,
                   callbacks, calls, answers>>

-----------------------------------------------------------------------------
(* The message handlers, dm_mqtt_..._cb.                                   *)

\* A message without the needed fields is ignored.
Incomplete ==
    /\ phase = "handler" /\ HandlerType # "app" /\ ~Complete(HandlerType, msg.payload)
    /\ HandlerReturns
    /\ OthersUnchanged

\* What the callback of a command writes to output: nothing or what
\* IOT_DM_GenCommandOutput makes of a report.
Output == {<<>>} \cup {dm_gen_properties_payload(r, "POST", FALSE, ReportBufLen).str :
            r \in {q \in Report : ~dm_gen_properties_payload(q, "POST", FALSE, ReportBufLen).over}}

\* Mutant: the packet's identifier is taken for the request's.
CallbackMutant ==
    /\ phase = "handler" /\ HandlerType # "app" /\ Complete(HandlerType, msg.payload)
    /\ calls' = Append(calls, [type |-> HandlerType, pid |-> msg.id, code |-> 0, out |-> <<>>,
                               id |-> msg.id])
    /\ phase' = "reply"
    /\ report' = NoReport
    /\ UNCHANGED <<up, wire, broker, buf, rem, cnt, msg, at, slots, delivered, faults,
                   callbacks, answers>>

Callback ==
    /\ phase = "handler" /\ HandlerType # "app" /\ Complete(HandlerType, msg.payload)
    /\ \E code \in RetCode, out \in IF HandlerType = "COMMAND" THEN Output ELSE {<<>>} :
        calls' = Append(calls, [type |-> HandlerType, pid |-> msg.id, code |-> code, out |-> out,
                                id |-> LITE_json_value_of(RequestID, msg.payload)])
    /\ IF HandlerType \in Replying
       THEN /\ phase' = "reply"
            /\ UNCHANGED <<up, wire, broker, buf, rem, cnt, msg, at, slots, delivered, faults>>
            /\ UNCHANGED answers
       ELSE HandlerReturns /\ answers' = Append(answers, Dropped)
    /\ report' = NoReport /\ UNCHANGED callbacks

ReplyText(c) ==
    <<RequestID, c.id, RetCodeKey, c.code>>
    \o IF c.type = "SET" THEN <<>> ELSE <<Identifier, 0, Open>> \o c.out \o <<Close>>

\* The reply, as far as its buffer holds it.  The check of the command's is off
\* by one: a reply as long as the buffer is published without its last byte.
ReplyBuf(c) == IF c.type = "SET" THEN ReplyBufLen ELSE ReportBufLen

\* Mutant: the reply is published however long it was.
ReplyAcceptedMutant(c) == Len(ReplyText(c)) > 0

ReplyAccepted(c) ==
    IF c.type = "SET" THEN Len(ReplyText(c)) < ReplyBufLen ELSE Len(ReplyText(c)) <= ReportBufLen

Reply ==
    LET c == calls[Len(calls)]
        text == Cut(ReplyText(c), ReplyBuf(c))
    IN
    /\ phase = "reply"
    /\ answers' = Append(answers,
                         IF ReplyAccepted(c) /\ _dm_mqtt_publish(Up[c.type], text)
                         THEN Decoded(Up[c.type], text) ELSE Dropped)
    /\ HandlerReturns
    /\ report' = NoReport /\ UNCHANGED <<callbacks, calls>>

\* The application stops yielding and destroys the device model and the client.
IOT_DM_Destroy ==
    /\ phase = "idle"
    /\ phase' = "down" /\ up' = FALSE
    /\ UNCHANGED <<wire, broker, buf, rem, cnt, msg, at, slots, delivered, faults>>
    /\ OthersUnchanged

Next ==
    \/ Network /\ OthersUnchanged
    \/ callbacks = Len(Registered) /\ cycle_for_read /\ OthersUnchanged
    \/ Reconnect /\ calls' = <<>> /\ answers' = <<>> /\ report' = NoReport /\ UNCHANGED callbacks
    \/ _dsc_mqtt_register_callback
    \/ \E t \in {"POST", "DESIRED_GET", "DESIRED_DELETE", "EVENT_POST"}, r \in Report : ReportEx(t, r)
    \/ Incomplete \/ Callback \/ Reply
    \/ IOT_DM_Destroy

Spec == Init /\ [][Next]_vars

\* The application registers its callbacks and then keeps yielding, whatever it
\* does in between.
Yield ==
    \/ callbacks = Len(Registered) /\ cycle_for_read /\ OthersUnchanged
    \/ Incomplete \/ Callback \/ Reply

FairSpec == Spec /\ WF_vars(Yield) /\ WF_vars(_dsc_mqtt_register_callback)

-----------------------------------------------------------------------------
(* Properties                                                              *)

\* The types of the variables; a body that is read fits read_buf, and
\* sub_handles never exceeds its limit.
TypeOK ==
    /\ up \in BOOLEAN /\ torn \in BOOLEAN
    /\ wire \in Seq(Byte) /\ buf \in [1 .. ReadBufSize -> Byte]
    /\ phase \in {"idle", "remlen", "discard", "body", "packet", "handler", "reply", "ack", "down"}
    /\ rem \in Nat /\ cnt \in 0 .. 4 /\ (phase = "body" => rem < ReadBufSize)
    /\ at \in 0 .. Len(slots) /\ Len(slots) <= MaxSlot /\ callbacks \in 0 .. Len(Registered)
    /\ stalls \in 0 .. MaxStall /\ losses \in 0 .. MaxLoss
    /\ count \in 0 .. MaxSend

\* A callback is only called for a message the cloud published on its type's
\* topic, with that message's request identifier.  Unless a read timed out
\* inside a packet: what is left in read_buf is then taken for the rest of it.
CallsMatchRequests == stalls = 0 =>
    \A i \in DOMAIN calls : \E m \in Message :
        /\ m.topic = Down[calls[i].type] /\ Complete(calls[i].type, m.payload)
        /\ calls[i].id = LITE_json_value_of(RequestID, m.payload)

\* Each call of a PROPERTY_SET or COMMAND callback has one answer, which tells the
\* cloud the request's identifier and the callback's code and output, or is
\* dropped; another call has none.  Except that a command's reply as long as its
\* buffer loses its last byte.
AnswersMatchCalls ==
    /\ Len(answers) = Len(calls) - (IF phase = "reply" THEN 1 ELSE 0)
    /\ \A i \in DOMAIN answers :
        \/ answers[i] = Dropped
        \/ calls[i].type \in Replying /\ answers[i] = ReplyText(calls[i])
        \/ calls[i].type = "COMMAND" /\ Len(ReplyText(calls[i])) = ReportBufLen

\* A request is acknowledged to the broker, which then forgets it, only when
\* its callback has returned and its answer was published or dropped.
AckAfterAnswer ==
    phase = "ack" /\ HandlerType \in Replying /\ Complete(HandlerType, msg.payload) =>
        \E i \in DOMAIN calls : calls[i].pid = msg.id /\ calls[i].type = HandlerType

\* From a request to the acknowledgement of it: the callback, its answer and the
\* PUBACK belong together and come in this order.
RequestsAnswered == CallsMatchRequests /\ AnswersMatchCalls /\ AckAfterAnswer

\* A report reaches the cloud as it was meant, never cut short: a text that one
\* of the builders truncated without noticing does not survive its wrapping.
PublishedComplete == report.got = report.meant

\* The messages that fit read_buf, were sent on this connection and not acknowledged.
Unacknowledged ==
    {n \in 1 .. MaxSend \ (acked \cup unsent) : \E i \in DOMAIN sent : sent[i].id = n /\ Fits(sent[i])}

\* A message that fits read_buf is acknowledged in the end, whatever the packets around
\* it, so that none stays unacknowledged on a connection that lasts, unless a read times
\* out inside a packet, or the PUBACK finds no time left of the yield it would go out
\* in: it is then not sent at all, and the broker repeats the message on another
\* connection only.
AcknowledgedEventually == []<>(Unacknowledged = {} \/ ~up \/ torn)
=============================================================================
