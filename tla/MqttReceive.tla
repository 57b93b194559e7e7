---------------------------- MODULE MqttReceive ----------------------------
(***************************************************************************)
(* Receiving MQTT packets: framing the byte stream into read_buf           *)
(* (_read_mqtt_packet), decoding PUBLISH, finding the subscription whose   *)
(* handler gets the message (_deliver_message) and acknowledging it        *)
(* (_handle_publish_packet).  One thread yields; what its handlers do is   *)
(* left to the modules that own them (DeviceModel).                        *)
(*                                                                         *)
(* The wire carries bytes, topic characters are their ASCII codes.  The    *)
(* remaining length is written in digits of base Base (128 in the code) so *)
(* that short packets have lengths of several digits.                      *)
(***************************************************************************)
EXTENDS Integers, Sequences, SequencesExt

CONSTANTS
    Base,          \* 128: a byte of the remaining length holds a digit and a flag
    ReadBufSize,   \* UIOT_MQTT_RX_BUF_LEN
    WriteBufSize,  \* UIOT_MQTT_TX_BUF_LEN
    MaxTopic,      \* MAX_SIZE_OF_CLOUD_TOPIC
    Message,       \* messages the broker publishes: records topic, qos, payload
    AppFilter,     \* filters the application may have subscribed to first
    MaxSend,       \* bound: messages published by the broker
    MaxStall,      \* bound: reads that time out although bytes are to come
    MaxLoss        \* bound: lost connections

Byte == 0 .. 255
UINT16_MAX == 65535

\* What four digits can say: MAX_NO_OF_REMAINING_LENGTH_BYTES.
RemLenLimit == Base * Base * Base * Base

Slash == 47
Plus  == 43
Hash  == 35

\* A filter as the standard allows it: the broker grants no other.
IsFilter(f) ==
    /\ f \in Seq(Byte)
    /\ \A i \in 1 .. Len(f) : f[i] \in {Plus, Hash} =>
        /\ i = 1 \/ f[i - 1] = Slash
        /\ i = Len(f) \/ (f[i] = Plus /\ f[i + 1] = Slash)

\* A length is written in 16 bits, the remaining length in four digits.
ASSUME ReceiveAssumption ==
    /\ {Base, ReadBufSize, WriteBufSize, MaxTopic} \subseteq Nat \ {0, 1}
    /\ {MaxSend, MaxStall, MaxLoss} \subseteq Nat
    /\ Base <= 128 /\ MaxTopic <= UINT16_MAX /\ MaxSend <= UINT16_MAX
    /\ \A m \in Message :
        /\ m \in [topic : Seq(Byte), qos : 0 .. 2, payload : Seq(Byte)]
        /\ Len(m.topic) <= UINT16_MAX
        /\ Len(m.topic) + Len(m.payload) + 4 < RemLenLimit
    /\ \A f \in AppFilter : IsFilter(f)

VARIABLES
    up,         \* the connection
    wire,       \* bytes on their way to the device
    sent,       \* packets the broker sent in this connection
    unacked,    \* messages of QoS above 0 whose PUBACK the broker waits for
    buf,        \* read_buf
    phase,      \* where the yielding thread is
    rem, cnt,   \* the remaining length, and how many bytes of it are read
    msg,        \* the message being handled
    at,         \* the slot of sub_handles it goes to, 0 for the event handler
    slots,      \* sub_handles in use: filter and handler
    delivered,  \* messages handed to a handler in this connection
    acked,      \* identifiers the broker got a PUBACK (PUBREC) for
    torn,       \* history: a read timed out inside a packet of this connection
    unsent,     \* history: identifiers of this connection whose PUBACK was not sent
    stalls, losses, count

rvars == <<up, wire, sent, unacked, buf, phase, rem, cnt, msg, at, slots,
           delivered, acked, torn, unsent, stalls, losses, count>>

broker == <<sent, unacked, acked, count>>
faults == <<torn, unsent, stalls, losses>>

PUBLISH == 3
PINGRESP == 13

-----------------------------------------------------------------------------
(* Encoding.                                                               *)

mqtt_write_packet_rem_len[n \in Nat] ==
    IF n < Base THEN <<n>>
    ELSE <<(n % Base) + Base>> \o mqtt_write_packet_rem_len[n \div Base]

get_mqtt_packet_len(rem_len) ==
    LET n == rem_len + 1 IN
    n + (IF n < Base THEN 1 ELSE IF n < Base ^ 2 THEN 2
         ELSE IF n < Base ^ 3 - 1 THEN 3 ELSE 4)

mqtt_write_uint_16(n) == <<(n \div 256) % 256, n % 256>>
mqtt_read_uint16_t(b, i) == 256 * b[i] + b[i + 1]

mqtt_init_packet_header(type, qos, dup) == type * 16 + dup * 8 + qos * 2

_get_publish_packet_len(m) ==
    2 + Len(m.topic) + Len(m.payload) + (IF m.qos > 0 THEN 2 ELSE 0)

_serialize_publish_packet(m) ==
    <<mqtt_init_packet_header(PUBLISH, m.qos, m.dup)>>
    \o mqtt_write_packet_rem_len[_get_publish_packet_len(m)]
    \o mqtt_write_uint_16(Len(m.topic)) \o m.topic
    \o (IF m.qos > 0 THEN mqtt_write_uint_16(m.id) ELSE <<>>) \o m.payload

\* What a publication needs of write_buf; send_mqtt_packet refuses a packet
\* that fills it.
FitsWriteBuf(m) ==
    /\ get_mqtt_packet_len(_get_publish_packet_len(m)) <= WriteBufSize
    /\ Len(_serialize_publish_packet(m)) < WriteBufSize

\* b[i] and the byte after it; read_buf has a neighbour in the structure, whose
\* bytes are taken to be 0.
Id(b, i) == mqtt_read_uint16_t(b \o <<0, 0>>, i)

\* deserialize_publish_packet on the packet in b, whose header takes h bytes
\* and whose remaining length is r.
Decodable(b, h, r) == r >= 2 /\ mqtt_read_uint16_t(b, h + 1) <= r - 2
deserialize_publish_packet(b, h, r) ==
    LET tl == mqtt_read_uint16_t(b, h + 1)
        qos == (b[1] \div 2) % 4
        p == h + 2 + tl + (IF qos > 0 THEN 2 ELSE 0)
    IN  [qos |-> qos, dup |-> (b[1] \div 8) % 2, topic |-> SubSeq(b, h + 3, h + 2 + tl),
         id |-> IF qos > 0 THEN Id(b, h + 3 + tl) ELSE 0,
         payload |-> SubSeq(b, p + 1, h + r)]

-----------------------------------------------------------------------------
(* Topic filters.                                                          *)

\* Where the filter and the topic are read.
Cells(f, n) == (1 .. Len(f) + 1) \X (1 .. Len(n) + 1)

NextLevel(n, j) == CHOOSE k \in j + 1 .. Len(n) + 1 :
                     /\ k = Len(n) + 1 \/ n[k] = Slash
                     /\ \A l \in j + 1 .. k - 1 : n[l] # Slash

\* The loop of _is_topic_matched stops at f[i] and n[j], or goes on with
\* f[i + 1] and n[After].
Stuck(f, n, i, j) ==
    \/ i > Len(f) \/ j > Len(n)
    \/ f[i] # n[j] /\ (IF n[j] = Slash THEN f[i] # Plus ELSE f[i] \notin {Plus, Hash})

After(f, n, i, j) ==
    IF f[i] = Plus THEN IF n[j] = Slash THEN j ELSE NextLevel(n, j)
    ELSE IF f[i] = Hash THEN Len(n) + 1
    ELSE j + 1

\* Where curf and curn are at the end of the loop.
Scan(f, n) ==
    LET W[p \in Cells(f, n)] == IF Stuck(f, n, p[1], p[2]) THEN p
                               ELSE W[<<p[1] + 1, After(f, n, p[1], p[2])>>]
    IN  W[<<1, 1>>]

\* Mutant: a filter's parent level is forgotten.
TopicMatchedMutant(f, n) ==
    LET i == Scan(f, n)[1]
        j == Scan(f, n)[2]
    IN  IF i > Len(f) THEN j > Len(n) ELSE f[i] = Hash

_is_topic_matched(f, n) ==
    LET i == Scan(f, n)[1]
        j == Scan(f, n)[2]
    IN  IF i > Len(f) THEN j > Len(n)
        ELSE \/ f[i] = Hash
             \/ i < Len(f) /\ f[i + 1] = Hash
             \/ f[i] = Plus /\ j > 1 /\ n[j - 1] = Slash

\* The rule of the MQTT standard (4.7.1).
Matches(f, n) ==
    LET M[p \in Cells(f, n)] ==
          LET i == p[1]
              j == p[2]
          IN  IF i > Len(f) THEN j > Len(n)
              ELSE IF f[i] = Hash THEN TRUE
              ELSE IF f[i] = Plus THEN
                   \E k \in j .. Len(n) + 1 :
                     M[<<i + 1, k>>] /\ \A l \in j .. k - 1 : n[l] # Slash
              ELSE IF f[i] = Slash /\ i < Len(f) /\ f[i + 1] = Hash THEN j > Len(n) \/ n[j] = Slash
              ELSE j <= Len(n) /\ f[i] = n[j] /\ M[<<i + 1, j + 1>>]
    IN  M[<<1, 1>>]

\* Mutant: the loop's index is used although nothing matched.
FirstMatchMutant(n) ==
    LET S == {i \in DOMAIN slots : _is_topic_matched(slots[i].filter, n)}
    IN  IF S = {} THEN Len(slots) + 1 ELSE CHOOSE i \in S : \A j \in S : i <= j

\* The slot _deliver_message stops at.
FirstMatch(n) ==
    LET S == {i \in DOMAIN slots : _is_topic_matched(slots[i].filter, n)}
    IN  IF S = {} THEN 0 ELSE CHOOSE i \in S : \A j \in S : i <= j

-----------------------------------------------------------------------------
NoMsg == [topic |-> <<>>, qos |-> 0, dup |-> 0, id |-> 0, payload |-> <<>>]

ReceiveInit ==
    /\ up = TRUE /\ wire = <<>> /\ sent = <<>> /\ unacked = {}
    /\ buf = [i \in 1 .. ReadBufSize |-> 0]
    /\ phase = "idle" /\ rem = 0 /\ cnt = 0 /\ msg = NoMsg /\ at = 0
    /\ \E f \in AppFilter : slots = <<[filter |-> f, handler |-> "app"]>>
    /\ delivered = <<>> /\ acked = {}
    /\ torn = FALSE /\ unsent = {} /\ stalls = 0 /\ losses = 0 /\ count = 0

Ping == [NoMsg EXCEPT !.qos = 3]

(* The broker and the network.                                             *)

BrokerPublish(m) ==
    LET p == [topic |-> m.topic, qos |-> m.qos, payload |-> m.payload,
              dup |-> 0, id |-> IF m.qos > 0 THEN count + 1 ELSE 0] IN
    /\ up /\ count < MaxSend
    /\ count' = count + 1
    /\ sent' = Append(sent, p)
    /\ wire' = wire \o _serialize_publish_packet(p)
    /\ unacked' = IF m.qos > 0 THEN unacked \cup {p} ELSE unacked
    /\ UNCHANGED <<up, buf, phase, rem, cnt, msg, at, slots, delivered, acked, faults>>

\* After a lost connection the broker may send again what was not acknowledged.
BrokerRepeat(m) ==
    LET p == [m EXCEPT !.dup = 1] IN
    /\ up /\ m \in unacked /\ \A i \in DOMAIN sent : sent[i].id # m.id
    /\ sent' = Append(sent, p)
    /\ wire' = wire \o _serialize_publish_packet(p)
    /\ UNCHANGED <<up, unacked, buf, phase, rem, cnt, msg, at, slots, delivered, acked,
                   faults, count>>

\* PINGRESP has no variable header: its remaining length is 0.
BrokerPing ==
    /\ up /\ wire = <<>> /\ phase = "idle" /\ count < MaxSend
    /\ count' = count + 1
    /\ sent' = Append(sent, Ping)
    /\ wire' = <<mqtt_init_packet_header(PINGRESP, 0, 0)>> \o mqtt_write_packet_rem_len[0]
    /\ UNCHANGED <<up, unacked, acked, buf, phase, rem, cnt, msg, at, slots,
                   delivered, faults>>

ConnectionLost ==
    /\ up /\ losses < MaxLoss
    /\ up' = FALSE /\ wire' = <<>> /\ losses' = losses + 1
    /\ UNCHANGED <<broker, buf, phase, rem, cnt, msg, at, slots, delivered,
                   torn, unsent, stalls>>

Reconnect ==
    /\ ~up /\ phase = "idle"
    /\ up' = TRUE /\ sent' = <<>> /\ delivered' = <<>> /\ torn' = FALSE /\ unsent' = {}
    /\ UNCHANGED <<wire, unacked, acked, count, buf, phase, rem, cnt, msg, at, slots,
                   stalls, losses>>

-----------------------------------------------------------------------------
(* _read_mqtt_packet.                                                      *)

Min2(a, b) == IF a < b THEN a ELSE b

\* network_stack.read of n bytes to offset o of read_buf (elsewhere when o is its
\* size) returns k: all of them, or fewer when it times out.
NetRead(n, o, k) ==
    LET m == Min2(n, Len(wire)) IN
    /\ k \in 0 .. m
    /\ k < m => stalls < MaxStall
    /\ stalls' = stalls + (IF k < m THEN 1 ELSE 0)
    /\ torn' = (torn \/ k < n)
    /\ wire' = SubSeq(wire, k + 1, Len(wire))
    /\ buf' = [i \in DOMAIN buf |-> IF i \in o + 1 .. o + k THEN wire[i - o] ELSE buf[i]]
    /\ UNCHANGED <<up, broker, msg, at, slots, delivered, unsent, losses>>

\* _read_mqtt_packet returns an error.
PacketDone == phase' = "idle" /\ rem' = 0 /\ cnt' = 0

ReadHeader ==
    /\ phase = "idle" /\ wire # <<>>
    /\ NetRead(1, 0, 1)
    /\ phase' = "remlen" /\ rem' = 0 /\ cnt' = 0

\* Mutant: the multiplier of the digits stays 1.
DecodeMutant ==
    /\ phase = "remlen" /\ wire # <<>>
    /\ NetRead(1, ReadBufSize, 1)
    /\ cnt' = cnt + 1
    /\ rem' = rem + (wire[1] % Base)
    /\ phase' = IF (wire[1] \div Base) % 2 = 1 THEN "remlen" ELSE "body"

multiplier == <<1, Base, Base * Base, Base * Base * Base>>

_decode_packet_rem_len_with_net_read ==
    /\ phase = "remlen"
    /\ \/ /\ cnt = 4                       \* MAX_NO_OF_REMAINING_LENGTH_BYTES
          /\ PacketDone
          /\ UNCHANGED <<up, wire, broker, buf, msg, at, slots, delivered, faults>>
       \/ /\ cnt < 4 /\ NetRead(1, ReadBufSize, 0)
          /\ PacketDone
       \/ /\ cnt < 4 /\ wire # <<>>
          /\ NetRead(1, ReadBufSize, 1)
          /\ cnt' = cnt + 1
          /\ rem' = rem + (wire[1] % Base) * multiplier[cnt + 1]
          /\ phase' = IF (wire[1] \div Base) % 2 = 1 THEN "remlen"
                      ELSE IF rem' >= ReadBufSize THEN "discard" ELSE "body"

\* One read of the loop that drops a packet longer than read_buf; rem is what
\* is left of it.
DiscardLong ==
    /\ phase = "discard"
    /\ \E k \in 0 .. ReadBufSize :
        /\ NetRead(Min2(rem, ReadBufSize), 0, k)
        /\ IF k \in {0, rem} THEN PacketDone
           ELSE rem' = rem - k /\ UNCHANGED <<phase, cnt>>

HeaderLen == 1 + Len(mqtt_write_packet_rem_len[rem])

DiscardUnfit ==
    /\ phase = "body" /\ rem > 0 /\ HeaderLen + rem > ReadBufSize
    /\ \E k \in 0 .. rem : NetRead(rem, 0, k)
    /\ PacketDone

\* A body cut short by a timeout is taken for a whole one.
ReadBody ==
    /\ phase = "body" /\ (rem = 0 \/ HeaderLen + rem <= ReadBufSize)
    /\ \E k \in 0 .. rem :
        /\ NetRead(rem, HeaderLen, k)
        /\ IF rem > 0 /\ k = 0 THEN PacketDone
           ELSE phase' = "packet" /\ UNCHANGED <<rem, cnt>>

-----------------------------------------------------------------------------
(* _handle_publish_packet.  The other packets' handlers are in MqttPublish, *)
(* MqttSubscribe and MqttConnection.                                       *)

HandleOther ==
    /\ phase = "packet"
    /\ buf[1] \div 16 = PUBLISH => ~Decodable(buf, HeaderLen, rem)
    /\ PacketDone
    /\ UNCHANGED <<up, wire, broker, buf, msg, at, slots, delivered, faults>>

\* fix_topic
FixTopic(t) == IF Len(t) > MaxTopic THEN SubSeq(t, 1, MaxTopic - 1) ELSE t

\* Mutant: the message is acknowledged before its handler is called.
DeliverMutant ==
    /\ phase = "packet" /\ buf[1] \div 16 = PUBLISH /\ Decodable(buf, HeaderLen, rem)
    /\ msg' = deserialize_publish_packet(buf, HeaderLen, rem)
    /\ at' = FirstMatch(msg'.topic)
    /\ phase' = IF msg'.qos = 0 THEN "handler" ELSE "ack"
    /\ rem' = 0 /\ cnt' = 0
    /\ UNCHANGED <<up, wire, broker, buf, slots, delivered, faults>>

_deliver_message ==
    /\ phase = "packet" /\ buf[1] \div 16 = PUBLISH /\ Decodable(buf, HeaderLen, rem)
    /\ LET m == deserialize_publish_packet(buf, HeaderLen, rem) IN
        /\ msg' = [m EXCEPT !.topic = FixTopic(m.topic)]
        /\ at' = FirstMatch(msg'.topic)
        /\ delivered' = Append(delivered, msg')
    /\ phase' = "handler" /\ rem' = 0 /\ cnt' = 0
    /\ UNCHANGED <<up, wire, broker, buf, slots, faults>>

HandlerReturns ==
    /\ IF msg.qos = 0 THEN phase' = "idle" /\ msg' = NoMsg /\ at' = 0
       ELSE phase' = "ack" /\ UNCHANGED <<msg, at>>
    /\ UNCHANGED <<up, wire, broker, buf, rem, cnt, slots, delivered, faults>>

HandlerType == IF at = 0 THEN "app" ELSE slots[at].handler

\* The application's handler, or its event handler when no filter matches.
AppHandler ==
    /\ phase = "handler" /\ HandlerType = "app"
    /\ HandlerReturns

\* Mutant: a repeated message is not acknowledged again.
SendAckMutant ==
    /\ phase = "ack"
    /\ phase' = "idle" /\ msg' = NoMsg /\ at' = 0
    /\ acked' = IF up /\ msg.dup = 0 THEN acked \cup {msg.id} ELSE acked
    /\ unacked' = {m \in unacked : m.id \notin acked'}
    /\ UNCHANGED <<up, wire, sent, count, buf, rem, cnt, slots, delivered, faults>>

\* The PUBACK (PUBREC for QoS 2).  Sending it fails when the connection is lost.  And it
\* has what is left of the timer of uiot_mqtt_yield: when a slow read or handler has used
\* that up, nothing is written and the connection stays up.
SendAck ==
    /\ phase = "ack"
    /\ phase' = "idle" /\ msg' = NoMsg /\ at' = 0
    /\ \/ /\ acked' = IF up THEN acked \cup {msg.id} ELSE acked
          /\ UNCHANGED unsent
       \/ unsent' = unsent \cup {msg.id} /\ UNCHANGED acked
    /\ unacked' = {m \in unacked : m.id \notin acked'}
    /\ UNCHANGED <<up, wire, sent, count, buf, rem, cnt, slots, delivered, torn, stalls, losses>>

cycle_for_read ==
    \/ ReadHeader \/ _decode_packet_rem_len_with_net_read
    \/ DiscardLong \/ DiscardUnfit \/ ReadBody
    \/ HandleOther \/ _deliver_message \/ AppHandler \/ SendAck

Network ==
    \/ \E m \in Message : BrokerPublish(m)
    \/ \E m \in unacked : BrokerRepeat(m)
    \/ BrokerPing \/ ConnectionLost

-----------------------------------------------------------------------------
Fits(p) == p # Ping /\ Len(_serialize_publish_packet(p)) <= ReadBufSize

\* The handlers get the messages of a connection as the broker sent them, in
\* that order, each once, and without those read_buf has no room for: dropping
\* a long packet (both ways _read_mqtt_packet drops one) leaves the stream at
\* the next packet.  Unless a read timed out inside a packet.
DeliveredInOrder == ~torn =>
    \E k \in 0 .. Len(sent) : \E f \in [DOMAIN delivered -> 1 .. k] :
        /\ {f[i] : i \in DOMAIN delivered} = {j \in 1 .. k : Fits(sent[j])}
        /\ \A i, j \in DOMAIN delivered : i < j => f[i] < f[j]
        /\ \A i \in DOMAIN delivered :
            delivered[i] = [sent[f[i]] EXCEPT !.topic = FixTopic(@)]

\* _is_topic_matched misses no match: a message goes to the first slot whose
\* filter the MQTT standard says matches, or to an earlier one.
NoMissedMatch == phase = "handler" /\ msg.topic # <<>> =>
    \A i \in DOMAIN slots : Matches(slots[i].filter, msg.topic) => at \in 1 .. i

\* Each message goes, in order and once, to a subscription it matches first.
DeliverySound == DeliveredInOrder /\ NoMissedMatch
=============================================================================
