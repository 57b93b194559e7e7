------------------------- MODULE DeviceModelProofs -------------------------
(***************************************************************************)
(* Theorems about MqttReceive and DeviceModel, for any messages, filters,  *)
(* reports and sizes of buffers:                                           *)
(*                                                                         *)
(*  - types, sub_handles within its limit, one call per message;           *)
(*  - a packet that is written is decoded as it was (Decodes), and the     *)
(*    stream stays framed: DeliveredInOrder;                               *)
(*  - _is_topic_matched accepts what the standard accepts: NoMissedMatch;  *)
(*  - a callback is called for a request of the cloud, its answer tells    *)
(*    what it returned, and the PUBACK follows: RequestsAnswered;          *)
(*  - the texts built in buffers are whole when they are published:        *)
(*    PublishedComplete.                                                   *)
(***************************************************************************)
EXTENDS DeviceModel, RecursionTheorems, SequenceTheorems, TLAPS

Slot == [filter : AppFilter, handler : {"app"}] \cup {[filter |-> Down[t], handler |-> t] : t \in DM_Type}

\* sub_handles and the slot a message goes to, which stays as it is until the
\* message is done with.
SlotInv ==
    /\ slots \in Seq(Slot) /\ Len(slots) <= MaxSlot
    /\ callbacks \in 0 .. Len(Registered)
    /\ at \in 0 .. Len(slots)

\* q is a sequence, whatever of.
IsSeq(q) == q \in Seq({q[i] : i \in 1 .. Len(q)})

\* The messages handed to a handler, the calls and the answers, counted where
\* the yielding thread is.
CountInv ==
    /\ IsSeq(calls) /\ IsSeq(answers) /\ IsSeq(delivered)
    /\ Len(answers) = Len(calls) - (IF phase = "reply" THEN 1 ELSE 0)
    /\ Len(calls) <= Len(delivered)
    /\ phase = "handler" => Len(calls) < Len(delivered)

\* While its answer is built, the last call is that of the message in hand.
CallInv ==
    /\ phase = "reply" =>
         \E i \in DOMAIN calls : calls[i].pid = msg.id /\ calls[i].type = HandlerType
    /\ AckAfterAnswer

LEMMA Sizes == MaxSlot \in Nat /\ MaxSlot >= 1 /\ Registered \in Seq(DM_Type)
BY DeviceModelAssumption

\* The slot _deliver_message stops at is one of sub_handles, or none.
LEMMA FirstMatchInSlots ==
    ASSUME slots \in Seq(Slot), NEW n
    PROVE  FirstMatch(n) \in 0 .. Len(slots)
<1> DEFINE S == {i \in DOMAIN slots : _is_topic_matched(slots[i].filter, n)}
<1>1. S \in SUBSET Nat /\ S \subseteq 1 .. Len(slots)
  OBVIOUS
<1> HIDE DEF S
<1>2. CASE S # {}
  <2>1. \E x \in S : \A y \in S : ~(<<y, x>> \in OpToRel(<, Nat))
    BY <1>1, <1>2, NatLessThanWellFounded, WFMin
  <2>2. PICK x \in S : \A y \in S : ~(y < x)
    BY <1>1, <2>1 DEF OpToRel
  <2>3. \A y \in S : x <= y
    BY <1>1, <2>2
  <2>4. (CHOOSE i \in S : \A j \in S : i <= j) \in S
    BY <2>3
  <2>5. FirstMatch(n) = CHOOSE i \in S : \A j \in S : i <= j
    BY <1>2 DEF FirstMatch, S
  <2>6. FirstMatch(n) \in S
    BY <2>4, <2>5
  <2>7. \A i \in S : i \in 0 .. Len(slots)
    BY <1>1
  <2> QED
    BY <2>6, <2>7
<1>3. CASE S = {}
  <2>1. FirstMatch(n) = 0
    BY <1>3 DEF FirstMatch, S
  <2> QED
    BY <2>1
<1> QED
  BY <1>2, <1>3

-----------------------------------------------------------------------------
(* sub_handles *)

LEMMA SlotInit == Init => SlotInv
<1> SUFFICES ASSUME Init PROVE SlotInv
  OBVIOUS
<1>1. PICK f \in AppFilter : slots = <<[filter |-> f, handler |-> "app"]>>
  BY DEF Init, ReceiveInit
<1>2. [filter |-> f, handler |-> "app"] \in Slot
  BY DEF Slot
<1>3. slots \in Seq(Slot) /\ Len(slots) = 1
  BY <1>1, <1>2
<1>4. callbacks = 0 /\ at = 0 /\ Len(Registered) \in Nat
  BY Sizes DEF Init, ReceiveInit
<1> QED
  BY <1>3, <1>4, Sizes DEF SlotInv

\* What the reading of a packet leaves alone.
LEMMA ReadSteps ==
    ASSUME ReadHeader \/ _decode_packet_rem_len_with_net_read \/ DiscardLong \/ DiscardUnfit
             \/ ReadBody \/ HandleOther
    PROVE  /\ UNCHANGED <<slots, at, msg, delivered>>
           /\ phase \in {"idle", "remlen", "discard", "body", "packet"}
           /\ phase' \in {"idle", "remlen", "discard", "body", "packet"}
BY DEF ReadHeader, _decode_packet_rem_len_with_net_read, DiscardLong, DiscardUnfit, ReadBody,
       HandleOther, NetRead, PacketDone

LEMMA NetworkSteps ==
    ASSUME Network
    PROVE  UNCHANGED <<slots, at, msg, delivered, phase>>
BY DEF Network, BrokerPublish, BrokerRepeat, BrokerPing, ConnectionLost

LEMMA ReturnStep ==
    ASSUME HandlerReturns
    PROVE  /\ UNCHANGED <<slots, delivered>>
           /\ \/ phase' = "idle" /\ at' = 0
              \/ phase' = "ack" /\ UNCHANGED <<msg, at>>
BY DEF HandlerReturns

LEMMA SlotNext == SlotInv /\ [Next]_vars => SlotInv'
<1> SUFFICES ASSUME SlotInv, [Next]_vars PROVE SlotInv'
  OBVIOUS
<1>0. slots \in Seq(Slot) /\ Len(slots) \in Nat /\ 0 \in 0 .. Len(slots)
  BY DEF SlotInv
<1>1. CASE Network /\ OthersUnchanged
  BY <1>1, NetworkSteps DEF OthersUnchanged, SlotInv
<1>2. CASE cycle_for_read /\ OthersUnchanged
  <2>1. CASE ReadHeader \/ _decode_packet_rem_len_with_net_read \/ DiscardLong \/ DiscardUnfit
             \/ ReadBody \/ HandleOther
    BY <1>2, <2>1, ReadSteps DEF OthersUnchanged, SlotInv
  <2>2. CASE _deliver_message
    <3>1. \E n : at' = FirstMatch(n)
      BY <2>2 DEF _deliver_message
    <3>2. at' \in 0 .. Len(slots)
      BY <1>0, <3>1, FirstMatchInSlots
    <3>3. UNCHANGED <<slots, callbacks>>
      BY <1>2, <2>2 DEF _deliver_message, OthersUnchanged
    <3> QED
      BY <3>2, <3>3 DEF SlotInv
  <2>3. CASE AppHandler
    BY <1>0, <1>2, <2>3, ReturnStep DEF AppHandler, OthersUnchanged, SlotInv
  <2>4. CASE SendAck
    BY <1>0, <1>2, <2>4 DEF SendAck, OthersUnchanged, SlotInv
  <2> QED
    BY <1>2, <2>1, <2>2, <2>3, <2>4 DEF cycle_for_read
<1>3. CASE Reconnect /\ UNCHANGED callbacks
  BY <1>3 DEF Reconnect, SlotInv
<1>4. CASE _dsc_mqtt_register_callback
  <2>1. /\ callbacks < Len(Registered) /\ callbacks' = callbacks + 1 /\ UNCHANGED at
        /\ slots' = IF up /\ Len(slots) < MaxSlot
                    THEN Append(slots, [filter |-> Down[Registered[callbacks']],
                                        handler |-> Registered[callbacks']]) ELSE slots
    BY <1>4 DEF _dsc_mqtt_register_callback
  <2>2. callbacks' \in 1 .. Len(Registered)
    BY <2>1, Sizes DEF SlotInv
  <2>3. Registered[callbacks'] \in DM_Type
    BY <2>2, Sizes
  <2> DEFINE s == [filter |-> Down[Registered[callbacks']], handler |-> Registered[callbacks']]
  <2>4. s \in Slot
    BY <2>3 DEF Slot
  <2> HIDE DEF s
  <2>5. \/ slots' = slots
        \/ slots' = Append(slots, s) /\ Len(slots) < MaxSlot
    BY <2>1 DEF s
  <2>6. slots' \in Seq(Slot) /\ Len(slots') <= MaxSlot /\ Len(slots) <= Len(slots') /\ Len(slots') \in Nat
    BY <1>0, <2>4, <2>5, Sizes DEF SlotInv
  <2>7. at' \in 0 .. Len(slots')
    BY <1>0, <2>1, <2>6 DEF SlotInv
  <2> QED
    BY <2>2, <2>6, <2>7 DEF SlotInv
<1>5. ASSUME NEW t, NEW r, ReportEx(t, r) PROVE SlotInv'
  BY <1>5 DEF ReportEx, SlotInv
<1>6. CASE Incomplete
  BY <1>0, <1>6, ReturnStep DEF Incomplete, OthersUnchanged, SlotInv
<1>7. CASE Callback
  <2>1. UNCHANGED <<slots, callbacks>> /\ (at' = at \/ at' = 0)
    BY <1>7, ReturnStep DEF Callback
  <2> QED
    BY <1>0, <2>1 DEF SlotInv
<1>8. CASE Reply
  <2>1. UNCHANGED <<slots, callbacks>> /\ (at' = at \/ at' = 0)
    BY <1>8, ReturnStep DEF Reply
  <2> QED
    BY <1>0, <2>1 DEF SlotInv
<1>9. CASE IOT_DM_Destroy \/ UNCHANGED vars
  BY <1>9 DEF IOT_DM_Destroy, OthersUnchanged, vars, rvars, dvars, SlotInv
<1> QED
  BY <1>1, <1>2, <1>3, <1>4, <1>5, <1>6, <1>7, <1>8, <1>9 DEF Next

\* sub_handles never holds more than MAX_SUB_TOPICS subscriptions, and
\* _deliver_message hands a message to one of them, or to the event handler:
\* never to a slot that is not in use.
SlotsSound == Len(slots) <= MaxSlot /\ at \in 0 .. Len(slots)

\* This is so whatever the application registers and whatever arrives.
THEOREM SlotsSoundHolds == Spec => []SlotsSound
<1>1. SlotInv => SlotsSound
  BY DEF SlotInv, SlotsSound
<1> QED
  BY <1>1, SlotInit, SlotNext, PTL DEF Spec

-----------------------------------------------------------------------------
(* From a message to its call, its answer and its acknowledgement *)

LEMMA AppendSeq ==
    ASSUME NEW q, IsSeq(q), NEW e
    PROVE  /\ IsSeq(Append(q, e)) /\ Len(q) \in Nat
           /\ Len(Append(q, e)) = Len(q) + 1 /\ DOMAIN Append(q, e) = 1 .. Len(q) + 1
           /\ \A i \in 1 .. Len(q) : Append(q, e)[i] = q[i]
           /\ Append(q, e)[Len(q) + 1] = e
<1> DEFINE T == {q[i] : i \in 1 .. Len(q)} \cup {e}
           p == Append(q, e)
<1>1. q \in Seq(T) /\ e \in T
  BY DEF IsSeq
<1> HIDE DEF T
<1>2. p \in Seq(T)
  BY <1>1
<1>3. /\ Len(q) \in Nat /\ Len(p) = Len(q) + 1 /\ DOMAIN p = 1 .. Len(q) + 1
      /\ \A i \in 1 .. Len(q) : p[i] = q[i]
      /\ p[Len(q) + 1] = e
  BY <1>1
<1> HIDE DEF p
<1>4. p \in Seq({p[i] : i \in 1 .. Len(p)})
  BY <1>2
<1> QED
  BY <1>3, <1>4 DEF IsSeq, p

LEMMA EmptyIsSeq ==
    ASSUME NEW q, NEW T, q = <<>>
    PROVE  q \in Seq(T)
OBVIOUS

\* The call of a callback: one more call, of the message in hand.
LEMMA CallbackStep ==
    ASSUME Callback
    PROVE  \E c : /\ calls' = Append(calls, c)
                  /\ c.pid = msg.id /\ c.type = HandlerType
BY DEF Callback

LEMMA CountNext == CountInv /\ [Next]_vars => CountInv'
<1> SUFFICES ASSUME CountInv, [Next]_vars PROVE CountInv'
  OBVIOUS
<1>0. Len(calls) \in Nat /\ Len(answers) \in Nat /\ Len(delivered) \in Nat
  BY AppendSeq DEF CountInv
<1>1. CASE Network /\ OthersUnchanged
  BY <1>1, NetworkSteps DEF OthersUnchanged, CountInv
<1>2. CASE cycle_for_read /\ OthersUnchanged
  <2>1. CASE ReadHeader \/ _decode_packet_rem_len_with_net_read \/ DiscardLong \/ DiscardUnfit
             \/ ReadBody \/ HandleOther
    BY <1>2, <2>1, ReadSteps DEF OthersUnchanged, CountInv
  <2>2. CASE _deliver_message
    <3>1. /\ delivered' = Append(delivered, msg') /\ UNCHANGED <<calls, answers>>
          /\ phase = "packet" /\ phase' = "handler"
      BY <1>2, <2>2 DEF _deliver_message, OthersUnchanged
    <3>2. IsSeq(delivered') /\ Len(delivered') = Len(delivered) + 1
      BY <3>1, AppendSeq DEF CountInv
    <3>3. Len(calls') < Len(delivered')
      BY <1>0, <3>1, <3>2 DEF CountInv
    <3> QED
      BY <1>0, <3>1, <3>2, <3>3 DEF CountInv
  <2>3. CASE AppHandler
    BY <1>2, <2>3, ReturnStep DEF AppHandler, OthersUnchanged, CountInv
  <2>4. CASE SendAck
    BY <1>2, <2>4 DEF SendAck, OthersUnchanged, CountInv
  <2> QED
    BY <1>2, <2>1, <2>2, <2>3, <2>4 DEF cycle_for_read
<1>3. CASE Reconnect /\ calls' = <<>> /\ answers' = <<>>
  <2>1. phase' = "idle" /\ delivered' = <<>>
    BY <1>3 DEF Reconnect
  <2>2. IsSeq(calls') /\ IsSeq(answers') /\ IsSeq(delivered')
    BY <1>3, <2>1, EmptyIsSeq DEF IsSeq
  <2>3. Len(calls') = 0 /\ Len(answers') = 0 /\ Len(delivered') = 0
    BY <1>3, <2>1
  <2> QED
    BY <2>1, <2>2, <2>3 DEF CountInv
<1>4. CASE _dsc_mqtt_register_callback
  BY <1>4 DEF _dsc_mqtt_register_callback, CountInv
<1>5. ASSUME NEW t, NEW r, ReportEx(t, r) PROVE CountInv'
  <2>1. phase = "idle" /\ phase' \in {"idle", "down"} /\ UNCHANGED <<calls, answers, delivered>>
    BY <1>5 DEF ReportEx
  <2> QED
    BY <2>1 DEF CountInv
<1>6. CASE Incomplete
  BY <1>6, ReturnStep DEF Incomplete, OthersUnchanged, CountInv
<1>7. CASE Callback
  <2>1. PICK c : calls' = Append(calls, c)
    BY <1>7, CallbackStep
  <2>2. IsSeq(calls') /\ Len(calls') = Len(calls) + 1
    BY <2>1, AppendSeq DEF CountInv
  <2>3. phase = "handler" /\ phase' # "handler" /\ UNCHANGED delivered
    BY <1>7, ReturnStep DEF Callback
  <2>4. Len(calls') <= Len(delivered')
    BY <1>0, <2>2, <2>3 DEF CountInv
  <2>5. CASE phase' = "reply" /\ UNCHANGED answers
    BY <1>0, <2>2, <2>3, <2>4, <2>5 DEF CountInv
  <2>6. CASE phase' # "reply" /\ answers' = Append(answers, Dropped)
    <3>1. IsSeq(answers') /\ Len(answers') = Len(answers) + 1
      BY <2>6, AppendSeq DEF CountInv
    <3> QED
      BY <1>0, <2>2, <2>3, <2>4, <2>6, <3>1 DEF CountInv
  <2> QED
    BY <1>7, <2>5, <2>6, ReturnStep DEF Callback
<1>8. CASE Reply
  <2>1. \E e : answers' = Append(answers, e)
    BY <1>8 DEF Reply
  <2>2. IsSeq(answers') /\ Len(answers') = Len(answers) + 1
    BY <2>1, AppendSeq DEF CountInv
  <2>3. phase = "reply" /\ phase' \in {"idle", "ack"} /\ UNCHANGED <<calls, delivered>>
    BY <1>8, ReturnStep DEF Reply
  <2> QED
    BY <1>0, <2>2, <2>3 DEF CountInv
<1>9. CASE IOT_DM_Destroy \/ UNCHANGED vars
  BY <1>9 DEF IOT_DM_Destroy, OthersUnchanged, vars, rvars, dvars, CountInv
<1> QED
  BY <1>1, <1>2, <1>3, <1>4, <1>5, <1>6, <1>7, <1>8, <1>9 DEF Next

LEMMA CountHolds == Spec => []CountInv
<1>1. Init => CountInv
  <2> SUFFICES ASSUME Init PROVE CountInv
    OBVIOUS
  <2>1. calls = <<>> /\ answers = <<>> /\ delivered = <<>> /\ phase = "idle"
    BY DEF Init, ReceiveInit
  <2>2. IsSeq(calls) /\ IsSeq(answers) /\ IsSeq(delivered)
    BY <2>1, EmptyIsSeq DEF IsSeq
  <2>3. Len(calls) = 0 /\ Len(answers) = 0 /\ Len(delivered) = 0
    BY <2>1
  <2> QED
    BY <2>1, <2>2, <2>3 DEF CountInv
<1> QED
  BY <1>1, CountNext, PTL DEF Spec

\* No message calls a callback twice and no call is answered twice: the calls
\* of a connection are no more than the messages it delivered, and the answers
\* no more than the calls.
OneCallPerMessage == Len(answers) <= Len(calls) /\ Len(calls) <= Len(delivered)

\* This is so for any messages and types, also those that are repeated,
\* malformed or cut short.
THEOREM OneCallPerMessageHolds == Spec => []OneCallPerMessage
<1>1. CountInv => OneCallPerMessage
  BY AppendSeq DEF CountInv, OneCallPerMessage
<1> QED
  BY <1>1, CountHolds, PTL

\* The acknowledgement of a request needs its call: the slot of sub_handles and
\* the message stay the same from the handler to the acknowledgement.
LEMMA CallNext == CountInv /\ CallInv /\ [Next]_vars => CallInv'
<1> SUFFICES ASSUME CountInv, CallInv, [Next]_vars PROVE CallInv'
  OBVIOUS
<1> USE DEF CallInv, AckAfterAnswer
<1>1. CASE Network /\ OthersUnchanged
  <2>1. UNCHANGED <<slots, at, msg, phase, calls>>
    BY <1>1, NetworkSteps DEF OthersUnchanged
  <2> QED
    BY <2>1 DEF HandlerType
<1>2. CASE cycle_for_read /\ OthersUnchanged
  <2>1. CASE ReadHeader \/ _decode_packet_rem_len_with_net_read \/ DiscardLong \/ DiscardUnfit
             \/ ReadBody \/ HandleOther
    BY <2>1, ReadSteps
  <2>2. CASE _deliver_message
    BY <2>2 DEF _deliver_message
  <2>3. CASE AppHandler
    <3>1. HandlerType = "app" /\ phase' \in {"idle", "ack"} /\ (phase' = "ack" => HandlerType' = HandlerType)
      BY <2>3, ReturnStep DEF AppHandler, HandlerType
    <3> QED
      BY <3>1 DEF Replying
  <2>4. CASE SendAck
    BY <2>4 DEF SendAck
  <2> QED
    BY <1>2, <2>1, <2>2, <2>3, <2>4 DEF cycle_for_read
<1>3. CASE Reconnect
  BY <1>3 DEF Reconnect
<1>4. CASE _dsc_mqtt_register_callback
  BY <1>4 DEF _dsc_mqtt_register_callback
<1>5. ASSUME NEW t, NEW r, ReportEx(t, r) PROVE CallInv'
  <2>1. phase' \in {"idle", "down"}
    BY <1>5 DEF ReportEx
  <2> QED
    BY <2>1
<1>6. CASE Incomplete
  <2>1. /\ ~Complete(HandlerType, msg.payload)
        /\ \/ phase' = "idle"
           \/ phase' = "ack" /\ UNCHANGED <<msg, at, slots>>
    BY <1>6, ReturnStep DEF Incomplete
  <2>2. phase' = "ack" => HandlerType' = HandlerType /\ msg' = msg
    BY <2>1 DEF HandlerType
  <2> QED
    BY <2>1, <2>2
<1>7. CASE Callback
  <2>1. PICK c : calls' = Append(calls, c) /\ c.pid = msg.id /\ c.type = HandlerType
    BY <1>7, CallbackStep
  <2>2. Len(calls) + 1 \in DOMAIN calls' /\ calls'[Len(calls) + 1] = c
    BY <2>1, AppendSeq DEF CountInv
  <2>3. \/ phase' = "idle"
        \/ phase' \in {"ack", "reply"} /\ UNCHANGED <<msg, at, slots>>
    BY <1>7, ReturnStep DEF Callback
  <2>4. phase' # "idle" => HandlerType' = HandlerType /\ msg' = msg
    BY <2>3 DEF HandlerType
  <2> QED
    BY <2>1, <2>2, <2>3, <2>4
<1>8. CASE Reply
  <2>1. /\ phase = "reply" /\ UNCHANGED calls
        /\ \/ phase' = "idle"
           \/ phase' = "ack" /\ UNCHANGED <<msg, at, slots>>
    BY <1>8, ReturnStep DEF Reply
  <2>2. phase' = "ack" => HandlerType' = HandlerType /\ msg' = msg
    BY <2>1 DEF HandlerType
  <2> QED
    BY <2>1, <2>2
<1>9. CASE IOT_DM_Destroy
  BY <1>9 DEF IOT_DM_Destroy
<1>10. CASE UNCHANGED vars
  BY <1>10 DEF vars, rvars, dvars, HandlerType
<1> QED
  BY <1>1, <1>2, <1>3, <1>4, <1>5, <1>6, <1>7, <1>8, <1>9, <1>10 DEF Next

\* A PROPERTY_SET or COMMAND that has what its handler needs is acknowledged to
\* the broker, which then forgets it, only after its callback was called with
\* it, whatever is lost, stalls or is registered on the way.
THEOREM AckAfterAnswerHolds == Spec => []AckAfterAnswer
<1>1. Init => CallInv
  BY DEF Init, ReceiveInit, CallInv, AckAfterAnswer
<1>2. CallInv => AckAfterAnswer
  BY DEF CallInv
<1> QED
  BY <1>1, <1>2, CallNext, CountHolds, PTL DEF Spec

-----------------------------------------------------------------------------
(* The remaining length *)

RL(n) == mqtt_write_packet_rem_len[n]

LEMMA BaseFacts == Base \in Nat /\ Base >= 2 /\ Base <= 128
BY ReceiveAssumption

LEMMA Quotient ==
    ASSUME NEW n \in Nat, NEW s \in Nat, s >= 2
    PROVE  /\ n \div s \in Nat /\ n % s \in Nat /\ n % s < s
           /\ n = (n \div s) * s + (n % s)
           /\ n >= s => n \div s < n /\ n \div s >= 1
           /\ n < s => n \div s = 0 /\ n % s = n
<1>1. n \div s \in Nat /\ n % s \in 0 .. (s - 1) /\ n = (n \div s) * s + (n % s)
  OBVIOUS
<1>2. n >= s => n \div s < n /\ n \div s >= 1
  OBVIOUS
<1>3. n < s => n \div s = 0 /\ n % s = n
  OBVIOUS
<1> QED
  BY <1>1, <1>2, <1>3

\* mqtt_write_packet_rem_len writes bytes: every digit but the last with the
\* flag that more follow.
LEMMA RemLenWritten ==
    /\ mqtt_write_packet_rem_len \in [Nat -> Seq(Byte)]
    /\ \A n \in Nat : RL(n) = IF n < Base THEN <<n>>
                              ELSE <<(n % Base) + Base>> \o RL(n \div Base)
<1> DEFINE S == Seq(Byte)
           b == [n \in Nat |-> IF n < Base THEN <<n>> ELSE <<>>]
           d == [n \in Nat |-> IF n < Base THEN n ELSE n \div Base]
           G == [n \in Nat |-> [s \in S |-> <<(n % Base) + Base>> \o s]]
           Is(w) == w = [n \in Nat |-> IF n < Base THEN <<n>>
                                       ELSE <<(n % Base) + Base>> \o w[n \div Base]]
<1>1. b \in [Nat -> S]
  <2>1. \A n \in Nat : n < Base => n \in Byte
    BY BaseFacts DEF Byte
  <2>2. \A n \in Byte : <<n>> \in S
    OBVIOUS
  <2>3. \A n \in Nat : b[n] \in S
    BY <2>1, <2>2
  <2> QED
    BY <2>3
<1>2. d \in [Nat -> Nat] /\ \A n \in Nat : d[n] < n <=> ~(n < Base)
  BY BaseFacts, Quotient
<1>3. ASSUME NEW n \in Nat, NEW s \in S
      PROVE  G[n][s] = <<(n % Base) + Base>> \o s /\ G[n][s] \in S
  <2>1. (n % Base) + Base \in Byte
    BY BaseFacts, Quotient DEF Byte
  <2>2. <<(n % Base) + Base>> \o s \in S
    BY <2>1
  <2> QED
    BY <2>2
<1>4. PICK f \in [Nat -> S] : \A n \in Nat : f[n] = IF d[n] < n THEN G[n][f[d[n]]] ELSE b[n]
  <2>1. G \in [Nat -> [S -> S]]
    BY <1>3
  <2> HIDE DEF S, b, d, G
  <2>2. IsDescent(S, b, d, G)
    BY <1>1, <1>2, <2>1 DEF IsDescent
  <2>3. \E f : Descends(f, S, b, d, G)
    BY <2>2, DescentExists
  <2> QED
    BY <2>3 DEF Descends
<1>5. ASSUME NEW n \in Nat
      PROVE  f[n] = IF n < Base THEN <<n>> ELSE <<(n % Base) + Base>> \o f[n \div Base]
  <2>1. CASE n < Base
    BY <1>2, <1>4, <2>1
  <2>2. CASE ~(n < Base)
    <3>1. d[n] < n /\ d[n] = n \div Base
      BY <1>2, <2>2
    <3>2. n \div Base \in Nat
      BY BaseFacts, Quotient
    <3>3. f[n \div Base] \in S
      BY <1>4, <3>2
    <3>4. G[n][f[n \div Base]] = <<(n % Base) + Base>> \o f[n \div Base]
      BY <1>3, <3>3
    <3>5. f[n] = G[n][f[d[n]]]
      BY <1>4, <3>1
    <3> QED
      BY <2>2, <3>1, <3>4, <3>5
  <2> QED
    BY <2>1, <2>2
<1>6. Is(f)
  <2>1. f = [n \in Nat |-> f[n]]
    OBVIOUS
  <2> QED
    BY <1>5, <2>1
<1>7. mqtt_write_packet_rem_len = CHOOSE w : Is(w)
  BY DEF mqtt_write_packet_rem_len
<1>8. Is(mqtt_write_packet_rem_len)
  BY <1>6, <1>7, Zenon
<1> DEFINE w == mqtt_write_packet_rem_len
<1>9. w = [n \in Nat |-> IF n < Base THEN <<n>> ELSE <<(n % Base) + Base>> \o w[n \div Base]]
  BY <1>8
<1> HIDE DEF w
<1>10. \A n \in Nat : w[n] = IF n < Base THEN <<n>> ELSE <<(n % Base) + Base>> \o w[n \div Base]
  BY <1>9
<1> DEFINE T == {n \in Nat : w[n] \in S}
<1>11. ASSUME NEW n \in Nat, \A m \in Nat : m < n => m \in T
       PROVE  n \in T
  <2>1. CASE n < Base
    <3>1. n \in Byte
      BY <2>1, BaseFacts DEF Byte
    <3>2. w[n] = <<n>>
      BY <1>10, <2>1
    <3>3. w[n] \in S
      BY <3>1, <3>2
    <3> QED
      BY <3>3
  <2>2. CASE ~(n < Base)
    <3>1. n \div Base \in Nat /\ n \div Base < n
      BY <2>2, BaseFacts, Quotient
    <3>2. w[n \div Base] \in S
      BY <1>11, <3>1
    <3>3. w[n] = <<(n % Base) + Base>> \o w[n \div Base]
      BY <1>10, <2>2
    <3>4. (n % Base) + Base \in Byte
      BY BaseFacts, Quotient DEF Byte
    <3>5. w[n] \in S
      BY <3>2, <3>3, <3>4
    <3> QED
      BY <3>5
  <2> QED
    BY <2>1, <2>2
<1> HIDE DEF T
<1>12. \A n \in Nat : n \in T
  BY <1>11, StrongSetInduction
<1>13. w \in [Nat -> S]
  BY <1>9, <1>12 DEF T
<1> QED
  BY <1>10, <1>13 DEF w, RL

LEMMA RemLenFacts ==
    ASSUME NEW n \in Nat
    PROVE  /\ RL(n) \in Seq(Byte) /\ Len(RL(n)) \in Nat /\ Len(RL(n)) >= 1
           /\ n < Base => RL(n) = <<n>> /\ Len(RL(n)) = 1 /\ RL(n)[1] = n
           /\ n >= Base =>
                /\ n \div Base \in Nat /\ Len(RL(n)) = 1 + Len(RL(n \div Base))
                /\ RL(n)[1] = (n % Base) + Base
                /\ \A j \in 1 .. Len(RL(n \div Base)) : RL(n)[1 + j] = RL(n \div Base)[j]
<1>1. RL(n) \in Seq(Byte)
  BY RemLenWritten DEF RL
<1>2. CASE n < Base
  <2>1. RL(n) = <<n>> /\ Len(<<n>>) = 1 /\ <<n>>[1] = n
    BY <1>2, RemLenWritten
  <2> QED
    BY <1>1, <1>2, <2>1, BaseFacts
<1>3. CASE ~(n < Base)
  <2>1. n \div Base \in Nat
    BY BaseFacts, Quotient
  <2> DEFINE t == RL(n \div Base)
             e == (n % Base) + Base
  <2>2. t \in Seq(Byte)
    BY <2>1, RemLenWritten DEF RL
  <2>3. RL(n) = <<e>> \o t
    BY <1>3, RemLenWritten
  <2> HIDE DEF t
  <2>4. e \in Byte
    BY BaseFacts, Quotient DEF Byte
  <2> HIDE DEF e
  <2>5. /\ Len(<<e>> \o t) = 1 + Len(t) /\ Len(t) \in Nat /\ (<<e>> \o t)[1] = e
        /\ \A j \in 1 .. Len(t) : (<<e>> \o t)[1 + j] = t[j]
    BY <2>2, <2>4
  <2> QED
    BY <1>1, <1>3, <2>1, <2>3, <2>5, BaseFacts DEF e, t
<1> QED
  BY <1>2, <1>3

-----------------------------------------------------------------------------
(* A PUBLISH packet and its bytes *)

LEMMA RemLenSize ==
    ASSUME NEW n \in Nat
    PROVE  RL(n) \in Seq(Byte) /\ Len(RL(n)) \in Nat /\ Len(RL(n)) >= 1
BY RemLenFacts

\* Six texts one after the other.
Parted(b, a, d, u, t, y, l) ==
    /\ Len(b) = Len(a) + Len(d) + Len(u) + Len(t) + Len(y) + Len(l)
    /\ \A j \in 1 .. Len(a) : b[j] = a[j]
    /\ \A j \in 1 .. Len(d) : b[Len(a) + j] = d[j]
    /\ \A j \in 1 .. Len(u) : b[Len(a) + Len(d) + j] = u[j]
    /\ \A j \in 1 .. Len(t) : b[Len(a) + Len(d) + Len(u) + j] = t[j]
    /\ \A j \in 1 .. Len(y) : b[Len(a) + Len(d) + Len(u) + Len(t) + j] = y[j]
    /\ \A j \in 1 .. Len(l) : b[Len(a) + Len(d) + Len(u) + Len(t) + Len(y) + j] = l[j]

LEMMA SixParts ==
    ASSUME NEW S, NEW a \in Seq(S), NEW d \in Seq(S), NEW u \in Seq(S),
           NEW t \in Seq(S), NEW y \in Seq(S), NEW l \in Seq(S)
    PROVE  /\ a \o d \o u \o t \o y \o l \in Seq(S)
           /\ Parted(a \o d \o u \o t \o y \o l, a, d, u, t, y, l)
<1> DEFINE x2 == a \o d
           x3 == x2 \o u
           x4 == x3 \o t
           x5 == x4 \o y
           b == x5 \o l
           h == Len(a) + Len(d)
<1>1. x2 \in Seq(S)
  OBVIOUS
<1>2. /\ Len(x2) = h /\ Len(a) \in Nat /\ Len(d) \in Nat
      /\ \A j \in 1 .. Len(a) : x2[j] = a[j]
      /\ \A j \in 1 .. Len(d) : x2[Len(a) + j] = d[j]
  OBVIOUS
<1> HIDE DEF x2
<1>3. x3 \in Seq(S)
  BY <1>1
<1>4. /\ Len(x3) = Len(x2) + Len(u) /\ Len(u) \in Nat
      /\ \A j \in 1 .. Len(x2) : x3[j] = x2[j]
      /\ \A j \in 1 .. Len(u) : x3[Len(x2) + j] = u[j]
  BY <1>1
<1> HIDE DEF x3
<1>5. x4 \in Seq(S)
  BY <1>3
<1>6. /\ Len(x4) = Len(x3) + Len(t) /\ Len(t) \in Nat
      /\ \A j \in 1 .. Len(x3) : x4[j] = x3[j]
      /\ \A j \in 1 .. Len(t) : x4[Len(x3) + j] = t[j]
  BY <1>3
<1> HIDE DEF x4
<1>7. x5 \in Seq(S)
  BY <1>5
<1>8. /\ Len(x5) = Len(x4) + Len(y) /\ Len(y) \in Nat
      /\ \A j \in 1 .. Len(x4) : x5[j] = x4[j]
      /\ \A j \in 1 .. Len(y) : x5[Len(x4) + j] = y[j]
  BY <1>5
<1> HIDE DEF x5
<1>9. b \in Seq(S)
  BY <1>7
<1>10. /\ Len(b) = Len(x5) + Len(l) /\ Len(l) \in Nat
       /\ \A j \in 1 .. Len(x5) : b[j] = x5[j]
       /\ \A j \in 1 .. Len(l) : b[Len(x5) + j] = l[j]
  BY <1>7
<1> HIDE DEF b
<1>11. Len(x3) = h + Len(u) /\ Len(x4) = h + Len(u) + Len(t) /\ Len(x5) = h + Len(u) + Len(t) + Len(y)
  BY <1>2, <1>4, <1>6, <1>8
<1>12. \A j \in 1 .. Len(x4) : b[j] = x4[j]
  BY <1>2, <1>4, <1>6, <1>8, <1>10
<1>13. \A j \in 1 .. Len(x3) : b[j] = x3[j]
  BY <1>2, <1>4, <1>6, <1>12
<1>14. \A j \in 1 .. Len(x2) : b[j] = x2[j]
  BY <1>2, <1>4, <1>13
<1>15. \A j \in 1 .. Len(a) : b[j] = a[j]
  BY <1>2, <1>14
<1>16. \A j \in 1 .. Len(d) : b[Len(a) + j] = d[j]
  BY <1>2, <1>14
<1>17. \A j \in 1 .. Len(u) : b[h + j] = u[j]
  BY <1>2, <1>4, <1>13
<1>18. \A j \in 1 .. Len(t) : b[h + Len(u) + j] = t[j]
  BY <1>2, <1>4, <1>6, <1>12
<1>19. \A j \in 1 .. Len(y) : b[h + Len(u) + Len(t) + j] = y[j]
  <2>1. \A j \in 1 .. Len(y) : Len(x4) + j \in 1 .. Len(x5)
    BY <1>2, <1>4, <1>6, <1>8
  <2>2. \A j \in 1 .. Len(y) : b[Len(x4) + j] = y[j]
    BY <1>8, <1>10, <2>1
  <2> QED
    BY <1>11, <2>2
<1>20. \A j \in 1 .. Len(l) : b[h + Len(u) + Len(t) + Len(y) + j] = l[j]
  BY <1>10, <1>11
<1>21. Len(b) = h + Len(u) + Len(t) + Len(y) + Len(l)
  BY <1>10, <1>11
<1>22. b = a \o d \o u \o t \o y \o l
  BY DEF b, x5, x4, x3, x2
<1>23. Parted(b, a, d, u, t, y, l)
  BY <1>15, <1>16, <1>17, <1>18, <1>19, <1>20, <1>21 DEF Parted
<1> QED
  BY <1>9, <1>22, <1>23

LEMMA TwoBytes ==
    ASSUME NEW n \in Nat, n <= UINT16_MAX
    PROVE  /\ mqtt_write_uint_16(n) \in Seq(Byte) /\ Len(mqtt_write_uint_16(n)) = 2
           /\ mqtt_write_uint_16(n)[1] \in Byte /\ mqtt_write_uint_16(n)[2] \in Byte
           /\ 256 * mqtt_write_uint_16(n)[1] + mqtt_write_uint_16(n)[2] = n
<1> DEFINE a == (n \div 256) % 256
           b == n % 256
<1>1. a \in Byte /\ b \in Byte /\ 256 * a + b = n
  BY SMT DEF Byte, UINT16_MAX
<1> HIDE DEF a, b
<1>2. mqtt_write_uint_16(n) = <<a, b>>
  BY DEF mqtt_write_uint_16, a, b
<1>3. <<a, b>> \in Seq(Byte) /\ Len(<<a, b>>) = 2 /\ <<a, b>>[1] = a /\ <<a, b>>[2] = b
  BY <1>1
<1> QED
  BY <1>1, <1>2, <1>3

HeadByte(p) == mqtt_init_packet_header(PUBLISH, p.qos, p.dup)
IdBytes(p) == IF p.qos > 0 THEN mqtt_write_uint_16(p.id) ELSE <<>>

\* What the packets of this system have in common; a text of S is more than bytes.
IsPublish(p, S) ==
    /\ Byte \subseteq S
    /\ p = [topic |-> p.topic, qos |-> p.qos, payload |-> p.payload, dup |-> p.dup, id |-> p.id]
    /\ p.topic \in Seq(S) /\ p.payload \in Seq(S)
    /\ p.qos \in 0 .. 2 /\ p.dup \in 0 .. 1 /\ p.id \in Nat /\ p.id <= UINT16_MAX
    /\ Len(p.topic) <= UINT16_MAX /\ (p.qos = 0 => p.id = 0)

LEMMA HeadFacts ==
    ASSUME NEW p, p.qos \in 0 .. 2, p.dup \in 0 .. 1
    PROVE  /\ HeadByte(p) \in Byte /\ HeadByte(p) \div 16 = PUBLISH
           /\ (HeadByte(p) \div 2) % 4 = p.qos /\ (HeadByte(p) \div 8) % 2 = p.dup
<1> DEFINE q == p.qos
           u == p.dup
           h == 48 + u * 8 + q * 2
<1>1. q \in {0, 1, 2} /\ u \in {0, 1}
  OBVIOUS
<1>2. HeadByte(p) = h
  BY DEF HeadByte, mqtt_init_packet_header, PUBLISH
<1> HIDE DEF q, u
<1>3. h \in Byte /\ h \div 16 = 3 /\ (h \div 2) % 4 = q /\ (h \div 8) % 2 = u
  BY <1>1 DEF Byte
<1> QED
  BY <1>2, <1>3 DEF q, u, PUBLISH

LEMMA IdFacts ==
    ASSUME NEW S, NEW p, IsPublish(p, S)
    PROVE  /\ IdBytes(p) \in Seq(S) /\ Len(IdBytes(p)) = IF p.qos > 0 THEN 2 ELSE 0
           /\ p.qos > 0 => IdBytes(p) = mqtt_write_uint_16(p.id)
<1>1. CASE p.qos > 0
  <2>1. IdBytes(p) = mqtt_write_uint_16(p.id)
    BY <1>1 DEF IdBytes
  <2>2. IdBytes(p) \in Seq(Byte) /\ Len(IdBytes(p)) = 2
    BY <2>1, TwoBytes DEF IsPublish
  <2>3. Byte \subseteq S
    BY DEF IsPublish
  <2>4. IdBytes(p) \in Seq(S)
    BY <2>2, <2>3
  <2> QED
    BY <1>1, <2>1, <2>2, <2>4
<1>2. CASE ~(p.qos > 0)
  <2>1. IdBytes(p) = <<>>
    BY <1>2 DEF IdBytes
  <2>2. IdBytes(p) \in Seq(S) /\ Len(IdBytes(p)) = 0
    BY <2>1, EmptyIsSeq
  <2> QED
    BY <1>2, <2>2
<1> QED
  BY <1>1, <1>2

LEMMA LengthFacts ==
    ASSUME NEW S, NEW p, IsPublish(p, S)
    PROVE  /\ _get_publish_packet_len(p) \in Nat /\ Len(p.topic) \in Nat /\ Len(p.payload) \in Nat
           /\ _get_publish_packet_len(p) = 2 + Len(p.topic) + Len(IdBytes(p)) + Len(p.payload)
<1> DEFINE t == Len(p.topic)
           l == Len(p.payload)
           i == IF p.qos > 0 THEN 2 ELSE 0
<1>1. t \in Nat /\ l \in Nat
  BY DEF IsPublish
<1>2. i \in Nat /\ Len(IdBytes(p)) = i
  BY IdFacts
<1>3. _get_publish_packet_len(p) = 2 + t + l + i
  BY DEF _get_publish_packet_len
<1> HIDE DEF t, l, i
<1>4. 2 + t + l + i \in Nat /\ 2 + t + l + i = 2 + t + i + l
  BY <1>1, <1>2
<1> QED
  BY <1>1, <1>2, <1>3, <1>4 DEF t, l

\* The bytes of a packet: its header, its remaining length in digits, and as
\* many bytes as that says: the topic after its length, the identifier of a
\* message above QoS 0, the payload.
LEMMA Serialized ==
    ASSUME NEW S, NEW p, IsPublish(p, S)
    PROVE  /\ _serialize_publish_packet(p) \in Seq(S)
           /\ Parted(_serialize_publish_packet(p), <<HeadByte(p)>>, RL(_get_publish_packet_len(p)),
                     mqtt_write_uint_16(Len(p.topic)), p.topic, IdBytes(p), p.payload)
<1> DEFINE r == _get_publish_packet_len(p)
           a == <<HeadByte(p)>>
           d == RL(r)
           u == mqtt_write_uint_16(Len(p.topic))
           t == p.topic
           y == IdBytes(p)
           l == p.payload
<1>1. t \in Seq(S) /\ l \in Seq(S) /\ Byte \subseteq S /\ Len(t) \in Nat /\ Len(l) \in Nat
  BY DEF IsPublish
<1>2. y \in Seq(S)
  BY <1>1, IdFacts
<1>3. r \in Nat
  BY <1>1, LengthFacts
<1>4. d \in Seq(S)
  <2>1. d \in Seq(Byte)
    BY <1>3, RemLenFacts
  <2> HIDE DEF d
  <2> QED
    BY <1>1, <2>1
<1>5. u \in Seq(S)
  <2>1. u \in Seq(Byte)
    BY <1>1, TwoBytes DEF IsPublish
  <2> HIDE DEF u
  <2> QED
    BY <1>1, <2>1
<1>6. a \in Seq(S)
  <2>1. HeadByte(p) \in S
    BY <1>1, HeadFacts DEF IsPublish
  <2> QED
    BY <2>1
<1>7. _serialize_publish_packet(p) = a \o d \o u \o t \o y \o l
  BY DEF _serialize_publish_packet, HeadByte, IdBytes, RL
<1> HIDE DEF a, d, u, t, y, l
<1>8. /\ a \o d \o u \o t \o y \o l \in Seq(S)
      /\ Parted(a \o d \o u \o t \o y \o l, a, d, u, t, y, l)
  BY <1>1, <1>2, <1>4, <1>5, <1>6, SixParts
<1> QED
  BY <1>7, <1>8 DEF a, d, u, t, y, l, r

LEMMA Slice ==
    ASSUME NEW S, NEW b \in Seq(S), NEW x \in Seq(S), NEW o \in Nat, o + Len(x) <= Len(b),
           \A j \in 1 .. Len(x) : b[o + j] = x[j]
    PROVE  SubSeq(b, o + 1, o + Len(x)) = x
<1> DEFINE n == Len(x)
           y == SubSeq(b, o + 1, o + n)
<1>1. n \in Nat /\ o + n <= Len(b)
  OBVIOUS
<1>2. y = [j \in 1 .. n |-> b[o + j]]
  <2>1. y = [j \in 1 .. (o + n) - (o + 1) + 1 |-> b[o + 1 + j - 1]]
    OBVIOUS
  <2>2. (o + n) - (o + 1) + 1 = n /\ \A j \in 1 .. n : o + 1 + j - 1 = o + j
    BY <1>1
  <2> QED
    BY <2>1, <2>2
<1>3. x = [j \in 1 .. n |-> x[j]]
  OBVIOUS
<1> HIDE DEF n
<1> QED
  BY <1>2, <1>3 DEF n

\* deserialize_publish_packet gives back what _serialize_publish_packet wrote,
\* from a buffer that has its header and its body at their places.
LEMMA Decodes ==
    ASSUME NEW S, NEW p, IsPublish(p, S), NEW b \in Seq(S),
           NEW r, r = _get_publish_packet_len(p), NEW h, h = 1 + Len(RL(r)),
           h + r <= Len(b), b[1] = HeadByte(p),
           \A j \in 1 .. r : b[h + j] = _serialize_publish_packet(p)[h + j]
    PROVE  Decodable(b, h, r) /\ deserialize_publish_packet(b, h, r) = p
<1> DEFINE c == _serialize_publish_packet(p)
           u == mqtt_write_uint_16(Len(p.topic))
           t == p.topic
           y == IdBytes(p)
           l == p.payload
<1>1. Parted(c, <<HeadByte(p)>>, RL(r), u, t, y, l)
  BY Serialized
<1>2. Len(<<HeadByte(p)>>) = 1
  OBVIOUS
<1>3. /\ t \in Seq(S) /\ l \in Seq(S) /\ Byte \subseteq S /\ Len(t) \in Nat /\ Len(t) <= UINT16_MAX
      /\ Len(l) \in Nat /\ p.qos \in 0 .. 2 /\ p.dup \in 0 .. 1 /\ p.id \in Nat /\ p.id <= UINT16_MAX
  BY DEF IsPublish
<1>4. /\ y \in Seq(S) /\ Len(y) = (IF p.qos > 0 THEN 2 ELSE 0) /\ Len(y) \in Nat
      /\ p.qos > 0 => y = mqtt_write_uint_16(p.id)
  BY IdFacts
<1>5. r \in Nat /\ r = 2 + Len(t) + Len(y) + Len(l)
  BY LengthFacts
<1>6. h \in Nat /\ h >= 2 /\ h = 1 + Len(RL(r))
  <2>1. Len(RL(r)) \in Nat /\ Len(RL(r)) >= 1
    BY <1>5, RemLenSize
  <2> QED
    BY <2>1
<1>7. Len(u) = 2 /\ u[1] \in Byte /\ u[2] \in Byte /\ 256 * u[1] + u[2] = Len(t)
  BY <1>3, TwoBytes
<1> HIDE DEF c, u, t, y, l
<1>8. /\ \A j \in 1 .. 2 : c[h + j] = u[j]
      /\ \A j \in 1 .. Len(t) : c[h + 2 + j] = t[j]
      /\ \A j \in 1 .. Len(y) : c[h + 2 + Len(t) + j] = y[j]
      /\ \A j \in 1 .. Len(l) : c[h + 2 + Len(t) + Len(y) + j] = l[j]
  BY <1>1, <1>2, <1>6, <1>7 DEF Parted
<1>9. b[h + 1] = u[1] /\ b[h + 2] = u[2]
  <2>1. 1 \in 1 .. r /\ 2 \in 1 .. r
    BY <1>3, <1>4, <1>5
  <2> QED
    BY <1>8, <2>1 DEF c
<1>10. mqtt_read_uint16_t(b, h + 1) = Len(t)
  <2>1. h + 1 + 1 = h + 2
    BY <1>6
  <2> QED
    BY <1>7, <1>9, <2>1 DEF mqtt_read_uint16_t
<1>11. Decodable(b, h, r)
  BY <1>3, <1>4, <1>5, <1>10 DEF Decodable
<1>12. /\ \A j \in 1 .. Len(t) : b[(h + 2) + j] = t[j]
       /\ \A j \in 1 .. Len(y) : b[(h + (2 + Len(t))) + j] = y[j]
       /\ \A j \in 1 .. Len(l) : b[(h + (2 + Len(t) + Len(y))) + j] = l[j]
  <2>1. \A j \in 1 .. r : b[h + j] = c[h + j]
    BY DEF c
  <2>0. /\ Len(t) \in Nat /\ Len(y) \in Nat /\ Len(l) \in Nat /\ h \in Nat
        /\ r = 2 + Len(t) + Len(y) + Len(l)
    BY <1>3, <1>4, <1>5, <1>6
  <2>2. ASSUME NEW j \in 1 .. Len(t) PROVE b[(h + 2) + j] = t[j]
    <3>1. 2 + j \in 1 .. r /\ h + (2 + j) = (h + 2) + j /\ h + (2 + j) = h + 2 + j
      BY <2>0
    <3>2. b[h + (2 + j)] = c[h + (2 + j)]
      BY <2>1, <3>1
    <3>3. c[h + 2 + j] = t[j]
      BY <1>8
    <3> QED
      BY <3>1, <3>2, <3>3
  <2>3. ASSUME NEW j \in 1 .. Len(y) PROVE b[(h + (2 + Len(t))) + j] = y[j]
    <3>1. 2 + Len(t) + j \in 1 .. r /\ h + (2 + Len(t) + j) = (h + (2 + Len(t))) + j /\ h + (2 + Len(t) + j) = h + 2 + Len(t) + j
      BY <2>0
    <3>2. b[h + (2 + Len(t) + j)] = c[h + (2 + Len(t) + j)]
      BY <2>1, <3>1
    <3>3. c[h + 2 + Len(t) + j] = y[j]
      BY <1>8
    <3> QED
      BY <3>1, <3>2, <3>3
  <2>4. ASSUME NEW j \in 1 .. Len(l) PROVE b[(h + (2 + Len(t) + Len(y))) + j] = l[j]
    <3>1. 2 + Len(t) + Len(y) + j \in 1 .. r /\ h + (2 + Len(t) + Len(y) + j) = (h + (2 + Len(t) + Len(y))) + j /\ h + (2 + Len(t) + Len(y) + j) = h + 2 + Len(t) + Len(y) + j
      BY <2>0
    <3>2. b[h + (2 + Len(t) + Len(y) + j)] = c[h + (2 + Len(t) + Len(y) + j)]
      BY <2>1, <3>1
    <3>3. c[h + 2 + Len(t) + Len(y) + j] = l[j]
      BY <1>8
    <3> QED
      BY <3>1, <3>2, <3>3
  <2> QED
    BY <2>2, <2>3, <2>4
<1>13. SubSeq(b, h + 3, h + 2 + Len(t)) = t
  <2>1. h + 2 \in Nat /\ (h + 2) + Len(t) <= Len(b) /\ h + 2 + 1 = h + 3
    BY <1>3, <1>4, <1>5, <1>6
  <2>2. SubSeq(b, (h + 2) + 1, (h + 2) + Len(t)) = t
    BY <1>3, <1>12, <2>1, Slice
  <2> QED
    BY <2>1, <2>2
<1>14. SubSeq(b, h + 2 + Len(t) + Len(y) + 1, h + r) = l
  <2> DEFINE o == h + (2 + Len(t) + Len(y))
  <2>1. /\ o \in Nat /\ o + Len(l) <= Len(b) /\ o + Len(l) = h + r
        /\ o + 1 = h + 2 + Len(t) + Len(y) + 1
    BY <1>3, <1>4, <1>5, <1>6
  <2>2. \A j \in 1 .. Len(l) : b[o + j] = l[j]
    BY <1>12
  <2> HIDE DEF o
  <2>3. l \in Seq(S)
    BY <1>3
  <2>4. SubSeq(b, o + 1, o + Len(l)) = l
    BY <2>1, <2>2, <2>3, Slice
  <2> QED
    BY <2>1, <2>4
<1>15. (b[1] \div 2) % 4 = p.qos /\ (b[1] \div 8) % 2 = p.dup
  BY <1>3, HeadFacts
<1>16. p.qos > 0 => Id(b, h + 3 + Len(t)) = p.id
  <2> SUFFICES ASSUME p.qos > 0 PROVE Id(b, h + 3 + Len(t)) = p.id
    OBVIOUS
  <2> DEFINE i == h + 2 + Len(t)
             z == b \o <<0, 0>>
  <2>1. y = mqtt_write_uint_16(p.id) /\ Len(y) = 2
    BY <1>4
  <2>2. 256 * y[1] + y[2] = p.id
    BY <1>3, <2>1, TwoBytes
  <2>3. i \in Nat /\ i + 1 \in 1 .. Len(b) /\ i + 2 \in 1 .. Len(b) /\ h + 3 + Len(t) = i + 1
    BY <1>3, <1>5, <1>6, <2>1
  <2>4. b[i + 1] = y[1] /\ b[i + 2] = y[2]
    BY <1>12, <2>1
  <2> HIDE DEF i
  <2>5. \A j \in 1 .. Len(b) : z[j] = b[j]
    <3>1. 0 \in S
      BY <1>3 DEF Byte
    <3>2. <<0, 0>> \in Seq(S)
      BY <3>1
    <3> QED
      BY <3>2
  <2>6. z[i + 1] = y[1] /\ z[i + 1 + 1] = y[2]
    BY <2>3, <2>4, <2>5
  <2> HIDE DEF z
  <2>7. Id(b, i + 1) = 256 * z[i + 1] + z[i + 1 + 1]
    BY DEF Id, mqtt_read_uint16_t, z
  <2> QED
    BY <2>2, <2>3, <2>6, <2>7
<1>17. p = [topic |-> t, qos |-> p.qos, payload |-> l, dup |-> p.dup, id |-> p.id]
       /\ (p.qos = 0 => p.id = 0)
  BY DEF IsPublish, t, l
<1> DEFINE q == p.qos
           pp == h + 2 + Len(t) + (IF q > 0 THEN 2 ELSE 0)
<1>18. deserialize_publish_packet(b, h, r) =
         [qos |-> q, dup |-> p.dup, topic |-> t,
          id |-> IF q > 0 THEN Id(b, h + 3 + Len(t)) ELSE 0,
          payload |-> SubSeq(b, pp + 1, h + r)]
  BY <1>10, <1>13, <1>15 DEF deserialize_publish_packet
<1>19. SubSeq(b, pp + 1, h + r) = l
  BY <1>4, <1>14
<1>20. (IF q > 0 THEN Id(b, h + 3 + Len(t)) ELSE 0) = p.id
  BY <1>3, <1>16, <1>17
<1> HIDE DEF pp
<1> QED
  BY <1>11, <1>17, <1>18, <1>19, <1>20

-----------------------------------------------------------------------------
(* The types *)

\* The PUBLISH packets of the broker, sent for the first time or again.
Packet == {p \in [topic : Seq(Byte), qos : 0 .. 2, payload : Seq(Byte), dup : 0 .. 1,
                  id : 0 .. MaxSend] :
             /\ p.qos = 0 => p.id = 0
             /\ \E m \in Message : p.topic = m.topic /\ p.payload = m.payload}

LEMMA ReceiveSizes ==
    /\ ReadBufSize \in Nat /\ ReadBufSize >= 2 /\ MaxTopic \in Nat /\ MaxTopic >= 2
    /\ MaxSend \in Nat /\ MaxSend <= UINT16_MAX /\ MaxStall \in Nat /\ MaxLoss \in Nat
    /\ MaxTopic <= UINT16_MAX /\ UINT16_MAX \in Nat
BY ReceiveAssumption DEF UINT16_MAX

LEMMA LimitFacts == RemLenLimit \in Nat
BY BaseFacts DEF RemLenLimit

LEMMA MessageFacts ==
    ASSUME NEW m \in Message
    PROVE  /\ m.topic \in Seq(Byte) /\ m.payload \in Seq(Byte) /\ m.qos \in 0 .. 2
           /\ Len(m.topic) <= UINT16_MAX
           /\ Len(m.topic) + Len(m.payload) + 4 < RemLenLimit
<1>1. m \in [topic : Seq(Byte), qos : 0 .. 2, payload : Seq(Byte)]
  BY ReceiveAssumption
<1>2. Len(m.topic) <= UINT16_MAX /\ Len(m.topic) + Len(m.payload) + 4 < RemLenLimit
  BY ReceiveAssumption
<1>3. m.topic \in Seq(Byte) /\ m.payload \in Seq(Byte) /\ m.qos \in 0 .. 2
  BY <1>1
<1> QED
  BY <1>2, <1>3, Zenon

LEMMA PacketFacts ==
    ASSUME NEW p \in Packet
    PROVE  IsPublish(p, Byte) /\ _get_publish_packet_len(p) < RemLenLimit
<1>1. PICK m \in Message : p.topic = m.topic /\ p.payload = m.payload
  BY DEF Packet
<1>2. /\ p.topic \in Seq(Byte) /\ p.payload \in Seq(Byte) /\ p.qos \in 0 .. 2
      /\ p.dup \in 0 .. 1 /\ p.id \in 0 .. MaxSend /\ (p.qos = 0 => p.id = 0)
      /\ p = [topic |-> p.topic, qos |-> p.qos, payload |-> p.payload, dup |-> p.dup, id |-> p.id]
  BY DEF Packet
<1>3. p.id \in Nat /\ p.id <= UINT16_MAX
  BY <1>2, ReceiveSizes
<1>4. /\ Len(p.topic) <= UINT16_MAX
      /\ Len(p.topic) + Len(p.payload) + 4 < RemLenLimit
  BY <1>1, MessageFacts, Zenon
<1>5. IsPublish(p, Byte)
  BY <1>2, <1>3, <1>4 DEF IsPublish
<1>6. _get_publish_packet_len(p) = 2 + Len(p.topic) + Len(p.payload) + (IF p.qos > 0 THEN 2 ELSE 0)
  BY DEF _get_publish_packet_len
<1>7. Len(p.topic) \in Nat /\ Len(p.payload) \in Nat /\ RemLenLimit \in Nat
  BY <1>2, LimitFacts
<1>8. _get_publish_packet_len(p) < RemLenLimit
  <2> DEFINE t == Len(p.topic)
             l == Len(p.payload)
             i == IF p.qos > 0 THEN 2 ELSE 0
  <2>0. i \in 0 .. 2
    OBVIOUS
  <2>1. t \in Nat /\ l \in Nat /\ t + l + 4 < RemLenLimit
    BY <1>4, <1>7, Zenon
  <2> HIDE DEF t, l, i
  <2>2. 2 + t + l + i < RemLenLimit
    BY <1>7, <2>0, <2>1
  <2> QED
    BY <1>6, <2>2 DEF t, l, i
<1> QED
  BY <1>5, <1>8

LEMMA PacketBytes ==
    ASSUME NEW p \in Packet
    PROVE  _serialize_publish_packet(p) \in Seq(Byte)
BY PacketFacts, Serialized

\* A packet sent for the first time, and sent again.
LEMMA NewPacket ==
    ASSUME NEW m \in Message, NEW n \in 0 .. MaxSend
    PROVE  [topic |-> m.topic, qos |-> m.qos, payload |-> m.payload, dup |-> 0,
            id |-> IF m.qos > 0 THEN n ELSE 0] \in Packet
<1> DEFINE i == IF m.qos > 0 THEN n ELSE 0
           p == [topic |-> m.topic, qos |-> m.qos, payload |-> m.payload, dup |-> 0, id |-> i]
<1>1. m.topic \in Seq(Byte) /\ m.payload \in Seq(Byte) /\ m.qos \in 0 .. 2
  BY MessageFacts, Zenon
<1>2. i \in 0 .. MaxSend /\ (m.qos = 0 => i = 0)
  BY <1>1, ReceiveSizes
<1> HIDE DEF i
<1>3. p \in [topic : Seq(Byte), qos : 0 .. 2, payload : Seq(Byte), dup : 0 .. 1, id : 0 .. MaxSend]
  BY <1>1, <1>2
<1>4. p \in Packet
  BY <1>2, <1>3 DEF Packet
<1> QED
  BY <1>4 DEF i

LEMMA RepeatedPacket ==
    ASSUME NEW p \in Packet
    PROVE  [p EXCEPT !.dup = 1] \in Packet
<1> DEFINE q == [p EXCEPT !.dup = 1]
<1>1. p \in [topic : Seq(Byte), qos : 0 .. 2, payload : Seq(Byte), dup : 0 .. 1, id : 0 .. MaxSend]
  BY DEF Packet
<1>2. q \in [topic : Seq(Byte), qos : 0 .. 2, payload : Seq(Byte), dup : 0 .. 1, id : 0 .. MaxSend]
      /\ q.topic = p.topic /\ q.payload = p.payload /\ q.qos = p.qos /\ q.id = p.id
  BY <1>1
<1> HIDE DEF q
<1>3. q \in Packet
  BY <1>2 DEF Packet
<1> QED
  BY <1>3 DEF q

\* What travels, what is read, and what went wrong.
WireTypes ==
    /\ up \in BOOLEAN /\ wire \in Seq(Byte) /\ count \in 0 .. MaxSend
    /\ sent \in Seq(Packet \cup {Ping}) /\ unacked \subseteq Packet

ReadTypes ==
    /\ buf \in [1 .. ReadBufSize -> Byte]
    /\ phase \in {"idle", "remlen", "discard", "body", "packet", "handler", "reply", "ack", "down"}
    /\ rem \in Nat /\ cnt \in 0 .. 4 /\ (phase = "body" => rem < ReadBufSize)

FaultTypes == torn \in BOOLEAN /\ stalls \in 0 .. MaxStall /\ losses \in 0 .. MaxLoss

TypeInv == WireTypes /\ ReadTypes /\ FaultTypes /\ SlotInv

\* A read of the network leaves bytes on the wire and in read_buf.
LEMMA NetReadTypes ==
    ASSUME TypeInv, NEW n \in Nat, NEW o \in Nat, NEW k, NetRead(n, o, k)
    PROVE  /\ wire' \in Seq(Byte) /\ buf' \in [1 .. ReadBufSize -> Byte]
           /\ stalls' \in 0 .. MaxStall /\ torn' \in BOOLEAN
           /\ k \in Nat /\ k <= n /\ k <= Len(wire)
           /\ wire' = SubSeq(wire, k + 1, Len(wire))
           /\ Len(wire') = Len(wire) - k
           /\ \A j \in 1 .. Len(wire') : wire'[j] = wire[k + j]
           /\ UNCHANGED <<up, sent, unacked, acked, count, msg, at, slots, delivered, losses>>
<1>1. wire \in Seq(Byte) /\ Len(wire) \in Nat /\ buf \in [1 .. ReadBufSize -> Byte]
      /\ stalls \in 0 .. MaxStall /\ torn \in BOOLEAN
  BY DEF TypeInv, WireTypes, ReadTypes, FaultTypes
<1> DEFINE m == Min2(n, Len(wire))
<1>2. m \in Nat /\ m <= n /\ m <= Len(wire)
  BY <1>1 DEF Min2
<1>3. k \in 0 .. m /\ (k < m => stalls < MaxStall)
      /\ stalls' = stalls + (IF k < m THEN 1 ELSE 0)
  BY DEF NetRead
<1>4. /\ torn' = (torn \/ k < n) /\ wire' = SubSeq(wire, k + 1, Len(wire))
      /\ buf' = [i \in DOMAIN buf |-> IF i \in o + 1 .. o + k THEN wire[i - o] ELSE buf[i]]
      /\ UNCHANGED <<up, sent, unacked, acked, count, msg, at, slots, delivered, losses>>
  BY DEF NetRead, broker
<1> HIDE DEF m
<1>5. k \in Nat /\ k <= n /\ k <= Len(wire)
  BY <1>1, <1>2, <1>3
<1>6. stalls' \in 0 .. MaxStall
  BY <1>1, <1>2, <1>3, ReceiveSizes
<1>7. torn' \in BOOLEAN
  BY <1>4, Zenon
<1>8. /\ wire' \in Seq(Byte) /\ Len(wire') = Len(wire) - k
      /\ \A j \in 1 .. Len(wire') : wire'[j] = wire[k + j]
  BY <1>1, <1>4, <1>5
<1>9. buf' \in [1 .. ReadBufSize -> Byte]
  <2>1. \A i \in 1 .. ReadBufSize : i \in o + 1 .. o + k => i - o \in 1 .. Len(wire)
    BY <1>1, <1>5
  <2>2. \A i \in 1 .. ReadBufSize : buf[i] \in Byte /\ DOMAIN buf = 1 .. ReadBufSize
    BY <1>1
  <2>3. \A j \in 1 .. Len(wire) : wire[j] \in Byte
    BY <1>1
  <2>4. DOMAIN buf = 1 .. ReadBufSize
    BY <1>1
  <2> QED
    BY <1>4, <2>1, <2>2, <2>3, <2>4
<1> QED
  BY <1>4, <1>5, <1>6, <1>7, <1>8, <1>9

LEMMA MultiplierFacts ==
    /\ \A i \in 1 .. 4 : multiplier[i] \in Nat /\ multiplier[i] >= 1
    /\ multiplier[1] = 1 /\ \A i \in 1 .. 3 : multiplier[i + 1] = multiplier[i] * Base
<1>1. /\ multiplier[1] = 1 /\ multiplier[2] = Base /\ multiplier[3] = Base * Base
      /\ multiplier[4] = Base * Base * Base
  BY DEF multiplier
<1>2. Base * Base \in Nat /\ Base * Base >= 1 /\ Base * Base * Base \in Nat /\ Base * Base * Base >= 1
  BY BaseFacts
<1>3. \A i \in 1 .. 4 : i = 1 \/ i = 2 \/ i = 3 \/ i = 4
  OBVIOUS
<1>4. \A i \in 1 .. 3 : (i = 1 /\ i + 1 = 2) \/ (i = 2 /\ i + 1 = 3) \/ (i = 3 /\ i + 1 = 4)
  OBVIOUS
<1> DEFINE w2 == Base * Base
           w3 == Base * Base * Base
<1>5. w3 = w2 * Base /\ Base = 1 * Base
  BY BaseFacts
<1> HIDE DEF w2, w3
<1>6. multiplier[3] = w2 /\ multiplier[4] = w3 /\ w2 \in Nat /\ w2 >= 1 /\ w3 \in Nat /\ w3 >= 1
  BY <1>1, <1>2 DEF w2, w3
<1>7. \A i \in 1 .. 4 : multiplier[i] \in Nat /\ multiplier[i] >= 1
  BY <1>1, <1>3, <1>6, BaseFacts
<1>8. \A i \in 1 .. 3 : multiplier[i + 1] = multiplier[i] * Base
  <2>1. w2 = Base * Base
    BY DEF w2
  <2> QED
    BY <1>1, <1>4, <1>5, <1>6, <2>1
<1> QED
  BY <1>1, <1>7, <1>8

PingHead == mqtt_init_packet_header(PINGRESP, 0, 0)
PingPacket == <<PingHead>> \o RL(0)

LEMMA PingBytes ==
    /\ PingPacket \in Seq(Byte) /\ Len(PingPacket) = 1 + Len(RL(0)) /\ RL(0) = <<0>>
    /\ PingPacket[1] = PingHead /\ PingHead \in Byte /\ PingHead \div 16 = PINGRESP
    /\ \A j \in 1 .. Len(RL(0)) : PingPacket[1 + j] = RL(0)[j]
<1>1. RL(0) = <<0>> /\ RL(0) \in Seq(Byte)
  BY RemLenFacts, BaseFacts
<1>2. PingHead = 208
  BY DEF PingHead, mqtt_init_packet_header, PINGRESP
<1>3. PingHead \in Byte /\ PingHead \div 16 = PINGRESP
  BY <1>2, SMT DEF Byte, PINGRESP
<1> DEFINE a == PingHead
           d == RL(0)
<1> HIDE DEF a, d
<1>4. a \in Byte /\ d \in Seq(Byte)
  BY <1>1, <1>3 DEF a, d
<1>5. <<a>> \in Seq(Byte)
  BY <1>4
<1>6. /\ <<a>> \o d \in Seq(Byte) /\ Len(<<a>> \o d) = 1 + Len(d)
      /\ (<<a>> \o d)[1] = a /\ \A j \in 1 .. Len(d) : (<<a>> \o d)[1 + j] = d[j]
  BY <1>4, <1>5
<1>7. PingPacket = <<a>> \o d
  BY DEF PingPacket, a, d
<1> QED
  BY <1>1, <1>3, <1>6, <1>7 DEF a, d

\* The broker and the network.
LEMMA NetworkTypes == TypeInv /\ Network => WireTypes' /\ ReadTypes' /\ FaultTypes'
<1> SUFFICES ASSUME TypeInv, Network PROVE WireTypes' /\ ReadTypes' /\ FaultTypes'
  OBVIOUS
<1>0. /\ up \in BOOLEAN /\ wire \in Seq(Byte) /\ count \in 0 .. MaxSend
      /\ sent \in Seq(Packet \cup {Ping}) /\ unacked \subseteq Packet
  BY DEF TypeInv, WireTypes
<1>1. ASSUME NEW m \in Message, BrokerPublish(m)
      PROVE  WireTypes' /\ ReadTypes' /\ FaultTypes'
  <2> DEFINE p == [topic |-> m.topic, qos |-> m.qos, payload |-> m.payload,
                   dup |-> 0, id |-> IF m.qos > 0 THEN count + 1 ELSE 0]
  <2>1. /\ up /\ count < MaxSend /\ count' = count + 1 /\ sent' = Append(sent, p)
        /\ wire' = wire \o _serialize_publish_packet(p)
        /\ unacked' = IF m.qos > 0 THEN unacked \cup {p} ELSE unacked
        /\ UNCHANGED <<up, buf, phase, rem, cnt, torn, stalls, losses>>
    BY <1>1 DEF BrokerPublish, faults
  <2>2. count' \in 0 .. MaxSend
    BY <1>0, <2>1, ReceiveSizes
  <2>3. p \in Packet
    BY <2>1, <2>2, NewPacket
  <2> HIDE DEF p
  <2>4. _serialize_publish_packet(p) \in Seq(Byte)
    BY <2>3, PacketBytes
  <2>5. wire' \in Seq(Byte)
    BY <1>0, <2>1, <2>4
  <2>6. sent' \in Seq(Packet \cup {Ping}) /\ unacked' \subseteq Packet
    BY <1>0, <2>1, <2>3
  <2> QED
    BY <1>0, <2>1, <2>2, <2>5, <2>6 DEF TypeInv, WireTypes, ReadTypes, FaultTypes
<1>2. ASSUME NEW m \in unacked, BrokerRepeat(m)
      PROVE  WireTypes' /\ ReadTypes' /\ FaultTypes'
  <2> DEFINE p == [m EXCEPT !.dup = 1]
  <2>1. /\ sent' = Append(sent, p) /\ wire' = wire \o _serialize_publish_packet(p)
        /\ UNCHANGED <<up, unacked, buf, phase, rem, cnt, torn, stalls, losses, count>>
    BY <1>2 DEF BrokerRepeat, faults
  <2>2. p \in Packet
    BY <1>0, RepeatedPacket
  <2> HIDE DEF p
  <2>3. _serialize_publish_packet(p) \in Seq(Byte)
    BY <2>2, PacketBytes
  <2>4. wire' \in Seq(Byte)
    BY <1>0, <2>1, <2>3
  <2>5. sent' \in Seq(Packet \cup {Ping})
    BY <1>0, <2>1, <2>2
  <2> QED
    BY <1>0, <2>1, <2>4, <2>5 DEF TypeInv, WireTypes, ReadTypes, FaultTypes
<1>3. CASE BrokerPing
  <2>1. /\ count < MaxSend /\ count' = count + 1 /\ sent' = Append(sent, Ping)
        /\ wire' = <<mqtt_init_packet_header(PINGRESP, 0, 0)>> \o mqtt_write_packet_rem_len[0]
        /\ UNCHANGED <<up, unacked, buf, phase, rem, cnt, torn, stalls, losses>>
    BY <1>3 DEF BrokerPing, faults
  <2>2. wire' \in Seq(Byte)
    BY <2>1, PingBytes DEF PingPacket, PingHead, RL
  <2>3. count' \in 0 .. MaxSend
    BY <1>0, <2>1, ReceiveSizes
  <2>4. sent' \in Seq(Packet \cup {Ping})
    BY <1>0, <2>1
  <2> QED
    BY <1>0, <2>1, <2>2, <2>3, <2>4 DEF TypeInv, WireTypes, ReadTypes, FaultTypes
<1>4. CASE ConnectionLost
  <2>1. /\ losses < MaxLoss /\ up' = FALSE /\ wire' = <<>> /\ losses' = losses + 1
        /\ UNCHANGED <<sent, unacked, count, buf, phase, rem, cnt, torn, stalls>>
    BY <1>4 DEF ConnectionLost, broker
  <2>2. wire' \in Seq(Byte)
    BY <2>1, EmptyIsSeq
  <2>3. losses' \in 0 .. MaxLoss
    BY <2>1, ReceiveSizes DEF TypeInv, FaultTypes
  <2> QED
    BY <1>0, <2>1, <2>2, <2>3 DEF TypeInv, WireTypes, ReadTypes, FaultTypes
<1> QED
  BY <1>1, <1>2, <1>3, <1>4 DEF Network

\* The reading of a packet.
LEMMA ReadingTypes ==
    ASSUME TypeInv, cycle_for_read
    PROVE  WireTypes' /\ ReadTypes' /\ FaultTypes'
<1>0. /\ rem \in Nat /\ cnt \in 0 .. 4 /\ wire \in Seq(Byte)
      /\ buf \in [1 .. ReadBufSize -> Byte] /\ ReadBufSize \in Nat /\ ReadBufSize >= 2
      /\ sent \in Seq(Packet \cup {Ping}) /\ unacked \subseteq Packet
      /\ count \in 0 .. MaxSend /\ up \in BOOLEAN /\ losses \in 0 .. MaxLoss
      /\ torn \in BOOLEAN /\ stalls \in 0 .. MaxStall
  BY ReceiveSizes DEF TypeInv, WireTypes, ReadTypes, FaultTypes
<1>1. ASSUME NEW n \in Nat, NEW o \in Nat, NEW k, NetRead(n, o, k)
      PROVE  WireTypes' /\ FaultTypes' /\ buf' \in [1 .. ReadBufSize -> Byte] /\ k \in Nat /\ k <= n
  BY <1>0, <1>1, NetReadTypes DEF WireTypes, FaultTypes
<1>2. PacketDone => phase' = "idle" /\ rem' \in Nat /\ cnt' \in 0 .. 4
  BY DEF PacketDone
<1>3. CASE ReadHeader
  <2>1. NetRead(1, 0, 1) /\ phase' = "remlen" /\ rem' = 0 /\ cnt' = 0
    BY <1>3 DEF ReadHeader
  <2> QED
    BY <1>1, <2>1 DEF ReadTypes
<1>4. CASE _decode_packet_rem_len_with_net_read
  <2>1. CASE /\ PacketDone
             /\ UNCHANGED <<up, wire, sent, unacked, count, buf, torn, stalls, losses>>
    BY <1>0, <1>2, <2>1 DEF WireTypes, ReadTypes, FaultTypes
  <2>2. CASE NetRead(1, ReadBufSize, 0) /\ PacketDone
    BY <1>0, <1>1, <1>2, <2>2 DEF ReadTypes
  <2>3. CASE /\ cnt < 4 /\ wire # <<>> /\ NetRead(1, ReadBufSize, 1) /\ cnt' = cnt + 1
             /\ rem' = rem + (wire[1] % Base) * multiplier[cnt + 1]
             /\ phase' = IF (wire[1] \div Base) % 2 = 1 THEN "remlen"
                         ELSE IF rem' >= ReadBufSize THEN "discard" ELSE "body"
    <3>1. WireTypes' /\ FaultTypes' /\ buf' \in [1 .. ReadBufSize -> Byte]
      BY <1>0, <1>1, <2>3
    <3>2. cnt' \in 0 .. 4 /\ cnt + 1 \in 1 .. 4
      BY <1>0, <2>3
    <3>3. wire[1] % Base \in Nat
      <4>1. wire[1] \in Byte
        BY <1>0, <2>3
      <4>2. wire[1] \in Nat
        BY <4>1 DEF Byte
      <4> QED
        BY <4>2, BaseFacts, Quotient
    <3>4. multiplier[cnt + 1] \in Nat
      BY <3>2, MultiplierFacts
    <3>5. rem' \in Nat
      <4> DEFINE x == wire[1] % Base
                 y == multiplier[cnt + 1]
      <4>1. x \in Nat /\ y \in Nat /\ rem' = rem + x * y
        BY <2>3, <3>3, <3>4
      <4> HIDE DEF x, y
      <4>2. x * y \in Nat
        BY <4>1
      <4> QED
        BY <1>0, <4>1, <4>2
    <3>6. phase' \in {"remlen", "discard"} \/ (phase' = "body" /\ ~(rem' >= ReadBufSize))
      BY <2>3
    <3>7. phase' = "body" => rem' < ReadBufSize
      BY <1>0, <3>5, <3>6
    <3> QED
      BY <3>1, <3>2, <3>5, <3>6, <3>7 DEF ReadTypes
  <2> QED
    BY <1>4, <2>1, <2>2, <2>3 DEF _decode_packet_rem_len_with_net_read, broker, faults
<1>5. CASE DiscardLong
  <2>1. PICK k \in 0 .. ReadBufSize : /\ NetRead(Min2(rem, ReadBufSize), 0, k)
                                      /\ IF k \in {0, rem} THEN PacketDone
                                         ELSE rem' = rem - k /\ UNCHANGED <<phase, cnt>>
    BY <1>5 DEF DiscardLong
  <2>2. Min2(rem, ReadBufSize) \in Nat /\ Min2(rem, ReadBufSize) <= rem
    BY <1>0 DEF Min2
  <2>3. WireTypes' /\ FaultTypes' /\ buf' \in [1 .. ReadBufSize -> Byte]
        /\ k \in Nat /\ k <= Min2(rem, ReadBufSize)
    BY <1>1, <2>1, <2>2
  <2>4. CASE PacketDone
    BY <1>2, <2>3, <2>4 DEF ReadTypes
  <2>5. CASE rem' = rem - k /\ UNCHANGED <<phase, cnt>>
    <3>1. rem - k \in Nat
      BY <1>0, <2>2, <2>3
    <3>2. phase = "discard"
      BY <1>5 DEF DiscardLong
    <3> QED
      BY <1>0, <2>3, <2>5, <3>1, <3>2 DEF ReadTypes
  <2> QED
    BY <2>1, <2>4, <2>5
<1>6. CASE DiscardUnfit
  <2>1. PICK k \in 0 .. rem : NetRead(rem, 0, k)
    BY <1>6 DEF DiscardUnfit
  <2>2. WireTypes' /\ FaultTypes' /\ buf' \in [1 .. ReadBufSize -> Byte]
    BY <1>0, <1>1, <2>1
  <2> QED
    BY <1>2, <1>6, <2>2 DEF DiscardUnfit, ReadTypes
<1>7. CASE ReadBody
  <2>1. PICK k \in 0 .. rem : /\ NetRead(rem, HeaderLen, k)
                              /\ IF rem > 0 /\ k = 0 THEN PacketDone
                                 ELSE phase' = "packet" /\ UNCHANGED <<rem, cnt>>
    BY <1>7 DEF ReadBody
  <2>2. HeaderLen \in Nat
    BY <1>0, RemLenSize DEF HeaderLen, RL
  <2>3. WireTypes' /\ FaultTypes' /\ buf' \in [1 .. ReadBufSize -> Byte]
    BY <1>0, <1>1, <2>1, <2>2
  <2>4. CASE PacketDone
    BY <1>2, <2>3, <2>4 DEF ReadTypes
  <2>5. CASE phase' = "packet" /\ UNCHANGED <<rem, cnt>>
    BY <1>0, <2>3, <2>5 DEF ReadTypes
  <2> QED
    BY <2>1, <2>4, <2>5
<1>8. CASE HandleOther
  BY <1>0, <1>2, <1>8 DEF HandleOther, broker, faults, WireTypes, ReadTypes, FaultTypes
<1>9. CASE _deliver_message
  <2>1. /\ phase' = "handler" /\ rem' = 0 /\ cnt' = 0
        /\ UNCHANGED <<up, wire, sent, unacked, count, buf, torn, stalls, losses>>
    BY <1>9 DEF _deliver_message, broker, faults
  <2> QED
    BY <1>0, <2>1 DEF WireTypes, ReadTypes, FaultTypes
<1>10. CASE AppHandler
  <2>1. /\ phase' \in {"idle", "ack"}
        /\ UNCHANGED <<up, wire, sent, unacked, count, buf, rem, cnt, torn, stalls, losses>>
    BY <1>10 DEF AppHandler, HandlerReturns, broker, faults
  <2> QED
    BY <1>0, <2>1 DEF WireTypes, ReadTypes, FaultTypes
<1>11. CASE SendAck
  <2>1. /\ phase' = "idle" /\ unacked' \subseteq unacked
        /\ UNCHANGED <<up, wire, sent, count, buf, rem, cnt, torn, stalls, losses>>
    BY <1>11 DEF SendAck, faults
  <2> QED
    BY <1>0, <2>1 DEF WireTypes, ReadTypes, FaultTypes
<1> QED
  BY <1>3, <1>4, <1>5, <1>6, <1>7, <1>8, <1>9, <1>10, <1>11 DEF cycle_for_read

LEMMA TypeNext == TypeInv /\ [Next]_vars => TypeInv'
<1> SUFFICES ASSUME TypeInv, [Next]_vars PROVE WireTypes' /\ ReadTypes' /\ FaultTypes'
  BY SlotNext DEF TypeInv
<1>0. WireTypes /\ ReadTypes /\ FaultTypes
  BY DEF TypeInv
<1>1. CASE Network
  BY <1>1, NetworkTypes
<1>2. CASE cycle_for_read
  BY <1>2, ReadingTypes
<1>3. CASE Reconnect
  <2>1. /\ up' = TRUE /\ sent' = <<>> /\ torn' = FALSE
        /\ UNCHANGED <<wire, unacked, count, buf, phase, rem, cnt, stalls, losses>>
    BY <1>3 DEF Reconnect
  <2>2. sent' \in Seq(Packet \cup {Ping})
    BY <2>1, EmptyIsSeq
  <2> QED
    BY <1>0, <2>1, <2>2 DEF WireTypes, ReadTypes, FaultTypes
<1>4. CASE _dsc_mqtt_register_callback
  BY <1>0, <1>4 DEF _dsc_mqtt_register_callback, broker, faults, WireTypes, ReadTypes, FaultTypes
<1>5. ASSUME NEW t, NEW r, ReportEx(t, r) PROVE WireTypes' /\ ReadTypes' /\ FaultTypes'
  <2>1. /\ phase = "idle" /\ (UNCHANGED <<phase, up>> \/ (phase' = "down" /\ up' = FALSE))
        /\ UNCHANGED <<wire, sent, unacked, count, buf, rem, cnt, torn, stalls, losses>>
    BY <1>5 DEF ReportEx, broker, faults
  <2> QED
    BY <1>0, <2>1 DEF WireTypes, ReadTypes, FaultTypes
<1>6. CASE HandlerReturns
  <2>1. /\ phase' \in {"idle", "ack"}
        /\ UNCHANGED <<up, wire, sent, unacked, count, buf, rem, cnt, torn, stalls, losses>>
    BY <1>6 DEF HandlerReturns, broker, faults
  <2> QED
    BY <1>0, <2>1 DEF WireTypes, ReadTypes, FaultTypes
<1>7. CASE Callback
  <2>1. \/ HandlerReturns
        \/ /\ phase' = "reply"
           /\ UNCHANGED <<up, wire, sent, unacked, count, buf, rem, cnt, torn, stalls, losses>>
    BY <1>7 DEF Callback, broker, faults
  <2> QED
    BY <1>0, <1>6, <2>1 DEF WireTypes, ReadTypes, FaultTypes
<1>8. CASE IOT_DM_Destroy
  BY <1>0, <1>8 DEF IOT_DM_Destroy, broker, faults, WireTypes, ReadTypes, FaultTypes
<1>9. CASE UNCHANGED vars
  BY <1>0, <1>9 DEF vars, rvars, WireTypes, ReadTypes, FaultTypes
<1> QED
  BY <1>1, <1>2, <1>3, <1>4, <1>5, <1>6, <1>7, <1>8, <1>9 DEF Next, Incomplete, Reply

LEMMA TypeHolds == Spec => []TypeInv
<1>1. Init => TypeInv
  <2> SUFFICES ASSUME Init PROVE WireTypes /\ ReadTypes /\ FaultTypes
    BY SlotInit DEF TypeInv
  <2>1. /\ up = TRUE /\ wire = <<>> /\ sent = <<>> /\ unacked = {} /\ count = 0
        /\ buf = [i \in 1 .. ReadBufSize |-> 0] /\ phase = "idle" /\ rem = 0 /\ cnt = 0
        /\ torn = FALSE /\ stalls = 0 /\ losses = 0
    BY DEF Init, ReceiveInit
  <2>2. wire \in Seq(Byte) /\ sent \in Seq(Packet \cup {Ping})
    BY <2>1, EmptyIsSeq
  <2>3. buf \in [1 .. ReadBufSize -> Byte]
    BY <2>1 DEF Byte
  <2>4. count \in 0 .. MaxSend /\ cnt \in 0 .. 4 /\ rem \in Nat /\ (phase = "body" => rem < ReadBufSize)
    BY <2>1, ReceiveSizes
  <2>5. FaultTypes
    <3>1. stalls \in 0 .. MaxStall /\ losses \in 0 .. MaxLoss
      BY <2>1, ReceiveSizes
    <3> QED
      BY <2>1, <3>1 DEF FaultTypes
  <2>6. WireTypes
    BY <2>1, <2>2, <2>4 DEF WireTypes
  <2>7. ReadTypes
    BY <2>1, <2>3, <2>4 DEF ReadTypes
  <2> QED
    BY <2>5, <2>6, <2>7
<1> QED
  BY <1>1, TypeNext, PTL DEF Spec

\* Every variable keeps its type, whatever is sent, lost, cut short or
\* registered: only bytes are on the wire and in read_buf, a body is only read
\* when it fits read_buf, sub_handles stays within its limit, and a message is
\* at one of its slots.
THEOREM TypeOKHolds == Spec => []TypeOK
<1>1. TypeInv => TypeOK
  BY DEF TypeInv, WireTypes, ReadTypes, FaultTypes, SlotInv, TypeOK
<1> QED
  BY <1>1, TypeHolds, PTL

-----------------------------------------------------------------------------
(* The stream of packets *)

Sendable == Packet \cup {Ping}

Bytes(p) == IF p = Ping THEN PingPacket ELSE _serialize_publish_packet(p)
Head1(p) == IF p = Ping THEN PingHead ELSE HeadByte(p)
RemLen(p) == IF p = Ping THEN 0 ELSE _get_publish_packet_len(p)
HeadLen(p) == 1 + Len(RL(RemLen(p)))

LEMMA FrameFacts ==
    ASSUME NEW p \in Sendable
    PROVE  /\ Bytes(p) \in Seq(Byte) /\ RemLen(p) \in Nat /\ RemLen(p) < RemLenLimit
           /\ HeadLen(p) \in Nat /\ HeadLen(p) >= 2 /\ Len(RL(RemLen(p))) \in Nat
           /\ Len(Bytes(p)) = HeadLen(p) + RemLen(p) /\ Len(Bytes(p)) \in Nat
           /\ Bytes(p)[1] = Head1(p)
           /\ \A j \in 1 .. Len(RL(RemLen(p))) : Bytes(p)[1 + j] = RL(RemLen(p))[j]
<1>1. CASE p = Ping
  <2>1. Bytes(p) = PingPacket /\ Head1(p) = PingHead /\ RemLen(p) = 0 /\ HeadLen(p) = 1 + Len(RL(0))
    BY <1>1 DEF Bytes, Head1, RemLen, HeadLen
  <2>2. Len(RL(0)) \in Nat /\ Len(RL(0)) >= 1
    BY RemLenSize
  <2>3. 0 < RemLenLimit
    <3>1. Base * Base >= 1 /\ Base * Base \in Nat
      BY BaseFacts
    <3>2. Base * Base * Base >= 1 /\ Base * Base * Base \in Nat
      BY BaseFacts
    <3> QED
      BY BaseFacts, <3>2 DEF RemLenLimit
  <2>4. /\ PingPacket \in Seq(Byte) /\ Len(PingPacket) = 1 + Len(RL(0)) /\ PingPacket[1] = PingHead
        /\ \A j \in 1 .. Len(RL(0)) : PingPacket[1 + j] = RL(0)[j]
    BY PingBytes
  <2> QED
    BY <2>1, <2>2, <2>3, <2>4
<1>2. CASE p # Ping
  <2> DEFINE r == _get_publish_packet_len(p)
             c == _serialize_publish_packet(p)
             u == mqtt_write_uint_16(Len(p.topic))
  <2>1. Bytes(p) = c /\ Head1(p) = HeadByte(p) /\ RemLen(p) = r /\ HeadLen(p) = 1 + Len(RL(r))
    BY <1>2 DEF Bytes, Head1, RemLen, HeadLen
  <2>2. IsPublish(p, Byte) /\ r < RemLenLimit
    BY <1>2, PacketFacts DEF Sendable
  <2>3. c \in Seq(Byte) /\ Parted(c, <<HeadByte(p)>>, RL(r), u, p.topic, IdBytes(p), p.payload)
    BY <2>2, Serialized
  <2>4. r \in Nat /\ Len(p.topic) \in Nat /\ Len(p.payload) \in Nat
        /\ r = 2 + Len(p.topic) + Len(IdBytes(p)) + Len(p.payload)
    BY <2>2, LengthFacts
  <2>5. Len(u) = 2
    BY <2>2, <2>4, TwoBytes DEF IsPublish
  <2>6. Len(RL(r)) \in Nat /\ Len(RL(r)) >= 1
    BY <2>4, RemLenSize
  <2>7. Len(IdBytes(p)) \in Nat
    BY <2>2, IdFacts
  <2>8. Len(<<HeadByte(p)>>) = 1 /\ <<HeadByte(p)>>[1] = HeadByte(p)
    OBVIOUS
  <2> DEFINE a == <<HeadByte(p)>>
  <2> HIDE DEF r, c, u, a
  <2>9. Len(c) = 1 + Len(RL(r)) + r
    <3>1. Len(c) = Len(a) + Len(RL(r)) + Len(u) + Len(p.topic) + Len(IdBytes(p)) + Len(p.payload)
      BY <2>3 DEF Parted, a
    <3>2. Len(a) = 1
      BY <2>8 DEF a
    <3> DEFINE d == Len(RL(r))
               x == Len(p.topic)
               y == Len(IdBytes(p))
               l == Len(p.payload)
    <3>3. d \in Nat /\ x \in Nat /\ y \in Nat /\ l \in Nat /\ r = 2 + x + y + l
      BY <2>4, <2>6, <2>7
    <3>4. Len(c) = 1 + d + 2 + x + y + l
      BY <2>5, <3>1, <3>2
    <3> HIDE DEF d, x, y, l
    <3>5. Len(c) = 1 + d + r
      BY <3>3, <3>4
    <3> QED
      BY <3>5 DEF d
  <2>10. c[1] = HeadByte(p) /\ \A j \in 1 .. Len(RL(r)) : c[1 + j] = RL(r)[j]
    <3>1. /\ \A j \in 1 .. Len(a) : c[j] = a[j]
          /\ \A j \in 1 .. Len(RL(r)) : c[Len(a) + j] = RL(r)[j]
      BY <2>3 DEF Parted, a
    <3>2. Len(a) = 1 /\ a[1] = HeadByte(p)
      BY <2>8 DEF a
    <3> QED
      BY <3>1, <3>2
  <2>11. Len(c) \in Nat
    BY <2>3
  <2>12. r < RemLenLimit
    BY <2>2 DEF r
  <2>13. HeadLen(p) \in Nat /\ HeadLen(p) >= 2 /\ Len(c) = HeadLen(p) + r
    <3> DEFINE d == Len(RL(r))
    <3>1. d \in Nat /\ d >= 1 /\ HeadLen(p) = 1 + d /\ Len(c) = 1 + d + r
      BY <2>1, <2>6, <2>9
    <3>2. r \in Nat
      BY <2>4
    <3> HIDE DEF d
    <3> QED
      BY <3>1, <3>2
  <2> QED
    BY <2>1, <2>3, <2>4, <2>6, <2>10, <2>11, <2>12, <2>13
<1> QED
  BY <1>1, <1>2

\* The wire w carries the last o bytes of packet k of s and the packets after
\* it: e says where each of them ends.
Ends(e, k, o, w, s) ==
    /\ e \in [k .. Len(s) -> 0 .. Len(w)]
    /\ e[k] = o /\ e[Len(s)] = Len(w) /\ (k = 0 => o = 0)
    /\ \A i, j \in k .. Len(s) : i <= j => e[i] <= e[j]
    /\ \A i \in k + 1 .. Len(s) :
        /\ e[i] = e[i - 1] + Len(Bytes(s[i]))
        /\ \A j \in 1 .. Len(Bytes(s[i])) : w[e[i - 1] + j] = Bytes(s[i])[j]
    /\ \A j \in 1 .. o : w[j] = Bytes(s[k])[Len(Bytes(s[k])) - o + j]

Ahead(k, o, w, s) == \E e : Ends(e, k, o, w, s)

LEMMA AheadFits ==
    ASSUME NEW s \in Seq(Sendable), NEW w \in Seq(Byte), NEW k \in 0 .. Len(s), NEW o,
           Ahead(k, o, w, s)
    PROVE  /\ o \in Nat /\ o <= Len(w) /\ (k = Len(s) => o = Len(w))
           /\ \A j \in 1 .. o : w[j] = Bytes(s[k])[Len(Bytes(s[k])) - o + j]
<1>1. PICK e : Ends(e, k, o, w, s)
  BY DEF Ahead
<1>2. Len(s) \in Nat /\ Len(w) \in Nat
  OBVIOUS
<1>3. k \in k .. Len(s)
  BY <1>2
<1>4. e[k] = o /\ e[k] \in 0 .. Len(w) /\ e[Len(s)] = Len(w)
  BY <1>1, <1>3 DEF Ends
<1>5. \A j \in 1 .. o : w[j] = Bytes(s[k])[Len(Bytes(s[k])) - o + j]
  BY <1>1 DEF Ends
<1>6. o \in Nat /\ o <= Len(w) /\ (k = Len(s) => o = Len(w))
  BY <1>2, <1>4
<1> QED
  BY <1>5, <1>6

LEMMA AheadByte ==
    ASSUME NEW s \in Seq(Sendable), NEW w \in Seq(Byte), NEW k \in 0 .. Len(s), NEW o \in Nat,
           Ahead(k, o, w, s), NEW j \in 1 .. o
    PROVE  w[j] = Bytes(s[k])[Len(Bytes(s[k])) - o + j]
<1>1. PICK e : Ends(e, k, o, w, s)
  BY DEF Ahead
<1> QED
  BY <1>1 DEF Ends

\* A packet added at the end.
LEMMA AheadAppend ==
    ASSUME NEW s \in Seq(Sendable), NEW w \in Seq(Byte), NEW k \in 0 .. Len(s), NEW o,
           Ahead(k, o, w, s), NEW p \in Sendable
    PROVE  Ahead(k, o, w \o Bytes(p), Append(s, p))
<1>1. PICK e : Ends(e, k, o, w, s)
  BY DEF Ahead
<1> DEFINE n == Len(s)
           b == Bytes(p)
           w2 == w \o b
           s2 == Append(s, p)
           g == [i \in k .. n + 1 |-> IF i = n + 1 THEN Len(w) + Len(b) ELSE e[i]]
<1>2. n \in Nat /\ Len(w) \in Nat
  OBVIOUS
<1>3. b \in Seq(Byte) /\ Len(b) \in Nat
  BY FrameFacts
<1>4. Len(s2) = n + 1 /\ s2[n + 1] = p /\ \A i \in 1 .. n : s2[i] = s[i]
  OBVIOUS
<1> HIDE DEF b
<1>5. /\ Len(w2) = Len(w) + Len(b)
      /\ \A j \in 1 .. Len(w) : w2[j] = w[j]
      /\ \A j \in 1 .. Len(b) : w2[Len(w) + j] = b[j]
  BY <1>2, <1>3
<1> HIDE DEF w2, s2
<1>6. \A i \in k .. n : e[i] \in 0 .. Len(w)
  BY <1>1 DEF Ends
<1>7. \A i \in k .. n + 1 : (i = n + 1 /\ g[i] = Len(w) + Len(b)) \/ (i \in k .. n /\ i # n + 1 /\ g[i] = e[i])
  BY <1>2
<1>8. g \in [k .. n + 1 -> 0 .. Len(w2)]
  <2>1. \A i \in k .. n + 1 : g[i] \in 0 .. Len(w2)
    BY <1>2, <1>3, <1>5, <1>6, <1>7
  <2> QED
    BY <2>1
<1>9. k \in k .. n + 1 /\ k # n + 1 /\ n + 1 \in k .. n + 1 /\ k \in k .. n /\ n \in k .. n /\ n \in k .. n + 1
  BY <1>2
<1>10. g[k] = o /\ g[n + 1] = Len(w2)
  BY <1>1, <1>5, <1>9 DEF Ends
<1> HIDE DEF g
<1>11. ASSUME NEW i \in k .. n + 1, NEW j \in k .. n + 1, i <= j
       PROVE  g[i] <= g[j]
  <2>1. CASE j = n + 1
    <3>1. g[i] \in 0 .. Len(w2)
      BY <1>8
    <3>2. g[j] = Len(w2)
      BY <1>10, <2>1
    <3>3. Len(w2) \in Nat
      BY <1>2, <1>3, <1>5
    <3> QED
      BY <3>1, <3>2, <3>3
  <2>2. CASE j # n + 1
    <3>1. j \in k .. n /\ i # n + 1
      BY <1>2, <1>11, <2>2
    <3>2. i \in k .. n /\ g[i] = e[i]
      BY <1>7, <3>1
    <3>3. g[j] = e[j]
      BY <1>7, <2>2
    <3> QED
      BY <1>1, <1>11, <3>1, <3>2, <3>3 DEF Ends
  <2> QED
    BY <2>1, <2>2
<1>12. ASSUME NEW i \in k + 1 .. n + 1
       PROVE  /\ g[i] = g[i - 1] + Len(Bytes(s2[i]))
              /\ \A j \in 1 .. Len(Bytes(s2[i])) : w2[g[i - 1] + j] = Bytes(s2[i])[j]
  <2>1. i \in k .. n + 1 /\ i - 1 \in k .. n + 1 /\ i - 1 # n + 1
    BY <1>2
  <2>2. g[i - 1] = e[i - 1] /\ i - 1 \in k .. n
    BY <1>7, <2>1
  <2>3. CASE i = n + 1
    <3>1. i - 1 = n /\ e[n] = Len(w) /\ g[i] = Len(w) + Len(b) /\ s2[i] = p
      BY <1>1, <1>2, <1>4, <1>5, <1>10, <2>3 DEF Ends
    <3> QED
      BY <1>5, <2>2, <3>1 DEF b
  <2>4. CASE i # n + 1
    <3>1. i \in k + 1 .. n /\ i \in 1 .. n /\ i \in k .. n
      BY <1>2, <2>4
    <3>0. s2[i] = s[i]
      BY <1>4, <3>1
    <3>5. g[i] = e[i]
      BY <1>7, <2>1, <2>4
    <3>2. /\ e[i] = e[i - 1] + Len(Bytes(s[i]))
          /\ \A j \in 1 .. Len(Bytes(s[i])) : w[e[i - 1] + j] = Bytes(s[i])[j]
      BY <1>1, <3>1 DEF Ends
    <3>3. Len(Bytes(s[i])) \in Nat
      BY <3>1, FrameFacts
    <3>4. \A j \in 1 .. Len(Bytes(s[i])) : e[i - 1] + j \in 1 .. Len(w)
      <4>1. e[i] \in 0 .. Len(w) /\ e[i - 1] \in 0 .. Len(w) /\ e[i] = e[i - 1] + Len(Bytes(s[i]))
        BY <1>6, <2>2, <3>1, <3>2
      <4> QED
        BY <1>2, <3>3, <4>1
    <3>6. \A j \in 1 .. Len(Bytes(s[i])) : w2[e[i - 1] + j] = Bytes(s[i])[j]
      BY <1>5, <3>2, <3>4
    <3> QED
      BY <2>2, <3>0, <3>2, <3>5, <3>6
  <2> QED
    BY <2>3, <2>4
<1>13. ASSUME NEW j \in 1 .. o PROVE w2[j] = Bytes(s2[k])[Len(Bytes(s2[k])) - o + j]
  <2>1. o \in Nat /\ o <= Len(w) /\ w[j] = Bytes(s[k])[Len(Bytes(s[k])) - o + j]
    BY AheadFits
  <2>2. j \in 1 .. Len(w)
    BY <1>2, <2>1
  <2>3. k # 0
    BY <1>1, <2>1 DEF Ends
  <2>4. s2[k] = s[k]
    BY <1>2, <1>4, <2>3
  <2> QED
    BY <1>5, <2>1, <2>2, <2>4
<1>14. k = 0 => o = 0
  BY <1>1 DEF Ends
<1>15. Ends(g, k, o, w2, s2)
  <2> HIDE DEF n
  <2> QED
    BY <1>4, <1>8, <1>10, <1>11, <1>12, <1>13, <1>14 DEF Ends
<1> QED
  BY <1>15 DEF Ahead, w2, s2, b

\* c bytes of packet k read.
LEMMA AheadRead ==
    ASSUME NEW s \in Seq(Sendable), NEW w \in Seq(Byte), NEW k \in 0 .. Len(s), NEW o,
           Ahead(k, o, w, s), NEW c \in Nat, c <= o
    PROVE  Ahead(k, o - c, SubSeq(w, c + 1, Len(w)), s)
<1>1. PICK e : Ends(e, k, o, w, s)
  BY DEF Ahead
<1> DEFINE n == Len(s)
           g == [i \in k .. n |-> e[i] - c]
           w2 == SubSeq(w, c + 1, Len(w))
<1>2. n \in Nat /\ Len(w) \in Nat
  OBVIOUS
<1>3. o \in Nat /\ o <= Len(w)
  BY AheadFits
<1>0. Len(w2) = Len(w) - c /\ \A j \in 1 .. Len(w) - c : w2[j] = w[c + j]
  BY <1>2, <1>3
<1> HIDE DEF w2
<1>4. k \in k .. n /\ n \in k .. n
  BY <1>2
<1>5. \A i \in k .. n : e[i] \in 0 .. Len(w) /\ o <= e[i]
  <2>1. ASSUME NEW i \in k .. n PROVE e[i] \in 0 .. Len(w) /\ e[k] = o /\ e[k] <= e[i]
    <3>1. k <= i
      BY <1>2
    <3> QED
      BY <1>1, <1>4, <3>1 DEF Ends
  <2> QED
    BY <2>1
<1>6. \A i \in k .. n : g[i] = e[i] - c /\ g[i] \in 0 .. Len(w) - c
  BY <1>2, <1>3, <1>5
<1>7. g \in [k .. n -> 0 .. Len(w2)]
  BY <1>0, <1>6
<1> HIDE DEF g
<1>8. g[k] = o - c /\ g[n] = Len(w2)
  BY <1>0, <1>1, <1>4, <1>6 DEF Ends
<1>9. ASSUME NEW i \in k .. n, NEW j \in k .. n, i <= j
      PROVE  g[i] <= g[j]
  <2>1. e[i] <= e[j] /\ e[i] \in Nat /\ e[j] \in Nat
    BY <1>1, <1>2, <1>5, <1>9 DEF Ends
  <2> QED
    BY <1>6, <2>1
<1>10. ASSUME NEW i \in k + 1 .. n
       PROVE  /\ g[i] = g[i - 1] + Len(Bytes(s[i]))
              /\ \A j \in 1 .. Len(Bytes(s[i])) : w2[g[i - 1] + j] = Bytes(s[i])[j]
  <2>1. i \in k .. n /\ i - 1 \in k .. n /\ i \in 1 .. n
    BY <1>2
  <2>2. /\ e[i] = e[i - 1] + Len(Bytes(s[i]))
        /\ \A j \in 1 .. Len(Bytes(s[i])) : w[e[i - 1] + j] = Bytes(s[i])[j]
    BY <1>1, <1>10 DEF Ends
  <2>3. Len(Bytes(s[i])) \in Nat
    BY <2>1, FrameFacts
  <2>4. g[i] = e[i] - c /\ g[i - 1] = e[i - 1] - c
    BY <1>6, <2>1
  <2>7. e[i] \in 0 .. Len(w) /\ e[i - 1] \in 0 .. Len(w) /\ o <= e[i - 1]
    BY <1>5, <2>1
  <2>8. e[i] \in Nat /\ e[i - 1] \in Nat /\ e[i] <= Len(w) /\ c <= e[i - 1]
    BY <1>2, <1>3, <2>7
  <2>5. g[i] = g[i - 1] + Len(Bytes(s[i]))
    BY <2>2, <2>3, <2>4, <2>8
  <2>6. ASSUME NEW j \in 1 .. Len(Bytes(s[i]))
        PROVE  w2[g[i - 1] + j] = Bytes(s[i])[j]
    <3>0. e[i] = e[i - 1] + Len(Bytes(s[i]))
      BY <2>2
    <3>1. g[i - 1] + j \in 1 .. Len(w) - c /\ c + (g[i - 1] + j) = e[i - 1] + j
      <4> DEFINE l == Len(Bytes(s[i]))
                 x == e[i - 1]
      <4>1. l \in Nat /\ x \in Nat /\ e[i] = x + l /\ c <= x /\ g[i - 1] = x - c /\ e[i] <= Len(w)
        BY <2>3, <2>4, <2>8, <3>0
      <4>2. j \in 1 .. l
        OBVIOUS
      <4> HIDE DEF l, x
      <4>3. x - c + j \in 1 .. Len(w) - c /\ c + (x - c + j) = x + j
        BY <1>2, <4>1, <4>2
      <4> QED
        BY <4>1, <4>3 DEF x
    <3> QED
      BY <1>0, <2>2, <3>1
  <2> QED
    BY <2>5, <2>6
<1>11. ASSUME NEW j \in 1 .. o - c PROVE w2[j] = Bytes(s[k])[Len(Bytes(s[k])) - (o - c) + j]
  <2>1. j \in 1 .. Len(w) - c /\ c + j \in 1 .. o
    BY <1>2, <1>3
  <2>2. w[c + j] = Bytes(s[k])[Len(Bytes(s[k])) - o + (c + j)]
    <3>1. PICK i \in 1 .. o : i = c + j
      BY <2>1
    <3>2. w[i] = Bytes(s[k])[Len(Bytes(s[k])) - o + i]
      BY <1>3, AheadByte
    <3> QED
      BY <3>1, <3>2, Zenon
  <2>3. k # 0
    BY <1>1, <1>3, <2>1 DEF Ends
  <2>4. k \in 1 .. n
    BY <1>2, <2>3
  <2>5. Len(Bytes(s[k])) \in Nat
    BY <2>4, FrameFacts
  <2>6. Len(Bytes(s[k])) - o + (c + j) = Len(Bytes(s[k])) - (o - c) + j
    BY <1>3, <2>5
  <2> QED
    BY <1>0, <2>1, <2>2, <2>6
<1>12. k = 0 => o - c = 0
  BY <1>1, <1>3 DEF Ends
<1>13. Ends(g, k, o - c, w2, s)
  BY <1>7, <1>8, <1>9, <1>10, <1>11, <1>12 DEF Ends
<1> QED
  BY <1>13 DEF Ahead, w2

\* At the end of packet k, bytes on the wire are those of packet k + 1.
LEMMA AheadNext ==
    ASSUME NEW s \in Seq(Sendable), NEW w \in Seq(Byte), NEW k \in 0 .. Len(s),
           Ahead(k, 0, w, s), w # <<>>
    PROVE  k + 1 \in 1 .. Len(s) /\ Ahead(k + 1, Len(Bytes(s[k + 1])), w, s)
<1>1. PICK e : Ends(e, k, 0, w, s)
  BY DEF Ahead
<1> DEFINE n == Len(s)
           g == [i \in k + 1 .. n |-> e[i]]
           b == Bytes(s[k + 1])
<1>2. n \in Nat /\ Len(w) \in Nat
  OBVIOUS
<1>3. Len(w) # 0
  OBVIOUS
<1>4. k # n
  BY <1>3, AheadFits
<1>5. k + 1 \in 1 .. n /\ k + 1 \in k + 1 .. n /\ k \in k .. n /\ n \in k + 1 .. n
  BY <1>2, <1>4
<1>6. Len(b) \in Nat
  BY <1>5, FrameFacts
<1>7. e[k] = 0 /\ k + 1 - 1 = k
  BY <1>1, <1>2 DEF Ends
<1>0. /\ e[k + 1] = e[k + 1 - 1] + Len(b)
      /\ \A j \in 1 .. Len(b) : w[e[k + 1 - 1] + j] = b[j]
  <2> DEFINE P(i) == /\ e[i] = e[i - 1] + Len(Bytes(s[i]))
                     /\ \A j \in 1 .. Len(Bytes(s[i])) : w[e[i - 1] + j] = Bytes(s[i])[j]
  <2>1. \A i \in k + 1 .. n : P(i)
    BY <1>1 DEF Ends
  <2> HIDE DEF P
  <2>2. P(k + 1)
    BY <1>5, <2>1
  <2> QED
    BY <2>2 DEF P
<1>8. e[k + 1] = Len(b) /\ \A j \in 1 .. Len(b) : w[j] = b[Len(b) - Len(b) + j]
  <2>1. \A j \in 1 .. Len(b) : 0 + j = j /\ Len(b) - Len(b) + j = j
    BY <1>6
  <2>2. e[k + 1] = 0 + Len(b) /\ \A j \in 1 .. Len(b) : w[0 + j] = b[j]
    BY <1>0, <1>7
  <2> QED
    BY <1>6, <2>1, <2>2
<1>9. \A i \in k + 1 .. n : i \in k .. n /\ g[i] = e[i]
  BY <1>2
<1>10. g \in [k + 1 .. n -> 0 .. Len(w)]
  BY <1>1, <1>9 DEF Ends
<1> HIDE DEF g
<1>11. ASSUME NEW i \in k + 1 + 1 .. n
       PROVE  /\ i \in k + 1 .. n /\ g[i] = e[i] /\ g[i - 1] = e[i - 1]
  <2>1. i \in k + 1 .. n /\ i - 1 \in k + 1 .. n
    BY <1>2
  <2> QED
    BY <1>9, <2>1
<1>12. Ends(g, k + 1, Len(b), w, s)
  <2>1. g[k + 1] = Len(b) /\ g[n] = Len(w)
    BY <1>1, <1>5, <1>8, <1>9 DEF Ends
  <2>2. \A i, j \in k + 1 .. n : i <= j => g[i] <= g[j]
    BY <1>1, <1>9 DEF Ends
  <2>3. \A i \in k + 1 + 1 .. n :
          /\ g[i] = g[i - 1] + Len(Bytes(s[i]))
          /\ \A j \in 1 .. Len(Bytes(s[i])) : w[g[i - 1] + j] = Bytes(s[i])[j]
    BY <1>1, <1>11 DEF Ends
  <2>4. k + 1 # 0
    BY <1>2
  <2> QED
    BY <1>8, <1>10, <2>1, <2>2, <2>3, <2>4 DEF Ends
<1> QED
  BY <1>5, <1>12 DEF Ahead

(* The messages handed over *)

\* A message as its handler gets it.
Given(p) == [p EXCEPT !.topic = FixTopic(@)]

Hands(f, d, s, k) ==
    /\ f \in [DOMAIN d -> 1 .. k]
    /\ \A i \in DOMAIN d : Fits(s[f[i]]) /\ d[i] = Given(s[f[i]])
    /\ \A j \in 1 .. k : Fits(s[j]) => \E i \in DOMAIN d : f[i] = j
    /\ \A i, j \in DOMAIN d : i < j => f[i] < f[j]

\* The deliveries d are those of the packets of s up to k.
Handed(d, s, k) == \E f : Hands(f, d, s, k)

LEMMA HandedNone ==
    ASSUME NEW s
    PROVE  Handed(<<>>, s, 0)
<1>1. DOMAIN <<>> = {}
  OBVIOUS
<1>2. Hands([i \in {} |-> 0], <<>>, s, 0)
  BY <1>1 DEF Hands
<1> QED
  BY <1>2 DEF Handed

LEMMA HandedAppend ==
    ASSUME NEW d, NEW s \in Seq(Sendable), NEW k \in 0 .. Len(s), Handed(d, s, k), NEW p \in Sendable
    PROVE  Handed(d, Append(s, p), k)
<1>1. PICK f : Hands(f, d, s, k)
  BY DEF Handed
<1> DEFINE s2 == Append(s, p)
<1>2. \A j \in 1 .. k : s2[j] = s[j]
  OBVIOUS
<1> HIDE DEF s2
<1>3. \A i \in DOMAIN d : f[i] \in 1 .. k
  BY <1>1 DEF Hands
<1>4. \A i \in DOMAIN d : Fits(s2[f[i]]) /\ d[i] = Given(s2[f[i]])
  BY <1>1, <1>2, <1>3 DEF Hands
<1>5. \A j \in 1 .. k : Fits(s2[j]) => \E i \in DOMAIN d : f[i] = j
  BY <1>1, <1>2 DEF Hands
<1>6. Hands(f, d, s2, k)
  BY <1>1, <1>4, <1>5 DEF Hands
<1> QED
  BY <1>6 DEF Handed, s2

\* A packet that is not handed over.
LEMMA HandedSkip ==
    ASSUME NEW d, NEW s, NEW k \in Nat, k >= 1, Handed(d, s, k - 1), ~Fits(s[k])
    PROVE  Handed(d, s, k)
<1>1. PICK f : Hands(f, d, s, k - 1)
  BY DEF Handed
<1>2. f \in [DOMAIN d -> 1 .. k]
  <2>1. f \in [DOMAIN d -> 1 .. k - 1]
    BY <1>1 DEF Hands
  <2>2. \A j \in 1 .. k - 1 : j \in 1 .. k
    OBVIOUS
  <2> QED
    BY <2>1, <2>2
<1>3. \A j \in 1 .. k : Fits(s[j]) => \E i \in DOMAIN d : f[i] = j
  <2>1. \A j \in 1 .. k : j = k \/ j \in 1 .. k - 1
    OBVIOUS
  <2> QED
    BY <1>1, <2>1 DEF Hands
<1>4. Hands(f, d, s, k)
  BY <1>1, <1>2, <1>3 DEF Hands
<1> QED
  BY <1>4 DEF Handed

\* A packet that is.
LEMMA HandedTake ==
    ASSUME NEW d, IsSeq(d), NEW s, NEW k \in Nat, k >= 1, Handed(d, s, k - 1), Fits(s[k])
    PROVE  Handed(Append(d, Given(s[k])), s, k)
<1>1. PICK f : Hands(f, d, s, k - 1)
  BY DEF Handed
<1> DEFINE n == Len(d)
           x == Given(s[k])
           d2 == Append(d, x)
           g == [i \in 1 .. n + 1 |-> IF i = n + 1 THEN k ELSE f[i]]
<1>2. /\ n \in Nat /\ DOMAIN d2 = 1 .. n + 1
      /\ \A i \in 1 .. n : d2[i] = d[i]
      /\ d2[n + 1] = x
  BY AppendSeq
<1>3. DOMAIN d = 1 .. n
  BY DEF IsSeq
<1> HIDE DEF d2, x, n
<1>4. \A i \in 1 .. n : f[i] \in 1 .. k - 1
  BY <1>1, <1>3 DEF Hands
<1>5. \A i \in 1 .. n + 1 : (i = n + 1 /\ g[i] = k) \/ (i \in 1 .. n /\ i # n + 1 /\ g[i] = f[i])
  BY <1>2
<1>6. \A i \in 1 .. n + 1 : g[i] \in 1 .. k
  BY <1>4, <1>5
<1>7. g \in [DOMAIN d2 -> 1 .. k]
  BY <1>2, <1>6
<1>8. \A i \in 1 .. n : i \in 1 .. n + 1 /\ g[i] = f[i]
  BY <1>2
<1>9. n + 1 \in 1 .. n + 1 /\ g[n + 1] = k
  BY <1>2
<1> HIDE DEF g
<1>10. ASSUME NEW i \in DOMAIN d2 PROVE Fits(s[g[i]]) /\ d2[i] = Given(s[g[i]])
  <2>1. CASE i = n + 1
    BY <1>2, <1>9, <2>1 DEF x
  <2>2. CASE i \in 1 .. n
    <3>1. Fits(s[f[i]]) /\ d[i] = Given(s[f[i]])
      BY <1>1, <1>3, <2>2 DEF Hands
    <3> QED
      BY <1>2, <1>8, <2>2, <3>1
  <2> QED
    BY <1>2, <1>5, <2>1, <2>2
<1>11. ASSUME NEW j \in 1 .. k, Fits(s[j]) PROVE \E i \in DOMAIN d2 : g[i] = j
  <2>1. CASE j = k
    BY <1>2, <1>9, <2>1
  <2>2. CASE j # k
    <3>1. j \in 1 .. k - 1
      BY <2>2
    <3>2. PICK i \in 1 .. n : f[i] = j
      BY <1>1, <1>3, <1>11, <3>1 DEF Hands
    <3> QED
      BY <1>2, <1>8, <3>2
  <2> QED
    BY <2>1, <2>2
<1>12. ASSUME NEW i \in DOMAIN d2, NEW j \in DOMAIN d2, i < j PROVE g[i] < g[j]
  <2>1. i \in 1 .. n /\ g[i] = f[i] /\ f[i] \in 1 .. k - 1
    BY <1>2, <1>4, <1>5, <1>12
  <2>2. CASE j = n + 1
    BY <1>9, <2>1, <2>2
  <2>3. CASE j \in 1 .. n
    <3>1. g[j] = f[j]
      BY <1>8, <2>3
    <3> QED
      BY <1>1, <1>3, <1>12, <2>1, <2>3, <3>1 DEF Hands
  <2> QED
    BY <1>2, <1>5, <2>2, <2>3
<1>13. Hands(g, d2, s, k)
  BY <1>7, <1>10, <1>11, <1>12 DEF Hands
<1> QED
  BY <1>13 DEF Handed, d2, x

\* What the broker and the network do to the stream.
LEMMA NetworkStream ==
    ASSUME TypeInv, Network
    PROVE  /\ UNCHANGED <<buf, phase, rem, cnt, msg, at, slots, delivered, torn, stalls>>
           /\ \/ up /\ up' /\ \E p \in Sendable : sent' = Append(sent, p) /\ wire' = wire \o Bytes(p)
              \/ ~up' /\ wire' = <<>> /\ sent' = sent
<1>0. /\ up \in BOOLEAN /\ wire \in Seq(Byte) /\ count \in 0 .. MaxSend /\ unacked \subseteq Packet
  BY DEF TypeInv, WireTypes
<1>1. ASSUME NEW p \in Packet PROVE p \in Sendable /\ Bytes(p) = _serialize_publish_packet(p)
  <2>1. p.qos \in 0 .. 2
    BY DEF Packet
  <2>2. Ping.qos = 3
    BY DEF Ping, NoMsg
  <2>3. p # Ping
    BY <2>1, <2>2
  <2> QED
    BY <2>3 DEF Bytes, Sendable
<1>2. ASSUME NEW m \in Message, BrokerPublish(m)
      PROVE  up /\ up' /\ \E p \in Sendable : sent' = Append(sent, p) /\ wire' = wire \o Bytes(p)
  <2> DEFINE p == [topic |-> m.topic, qos |-> m.qos, payload |-> m.payload,
                   dup |-> 0, id |-> IF m.qos > 0 THEN count + 1 ELSE 0]
  <2>1. /\ up /\ count < MaxSend /\ sent' = Append(sent, p)
        /\ wire' = wire \o _serialize_publish_packet(p) /\ UNCHANGED up
    BY <1>2 DEF BrokerPublish
  <2>2. count + 1 \in 0 .. MaxSend
    BY <1>0, <2>1, ReceiveSizes
  <2>3. p \in Packet
    BY <2>2, NewPacket
  <2> HIDE DEF p
  <2> QED
    BY <1>1, <2>1, <2>3
<1>3. ASSUME NEW m \in unacked, BrokerRepeat(m)
      PROVE  up /\ up' /\ \E p \in Sendable : sent' = Append(sent, p) /\ wire' = wire \o Bytes(p)
  <2> DEFINE p == [m EXCEPT !.dup = 1]
  <2>1. up /\ sent' = Append(sent, p) /\ wire' = wire \o _serialize_publish_packet(p) /\ UNCHANGED up
    BY <1>3 DEF BrokerRepeat
  <2>2. p \in Packet
    BY <1>0, RepeatedPacket
  <2> HIDE DEF p
  <2> QED
    BY <1>1, <2>1, <2>2
<1>4. ASSUME BrokerPing
      PROVE  up /\ up' /\ \E p \in Sendable : sent' = Append(sent, p) /\ wire' = wire \o Bytes(p)
  <2>1. /\ up /\ wire = <<>> /\ sent' = Append(sent, Ping) /\ UNCHANGED up
        /\ wire' = PingPacket
    BY <1>4 DEF BrokerPing, PingPacket, PingHead, RL
  <2>2. Ping \in Sendable /\ Bytes(Ping) = PingPacket
    BY DEF Sendable, Bytes
  <2>3. <<>> \o PingPacket = PingPacket
    BY PingBytes
  <2> QED
    BY <2>1, <2>2, <2>3
<1>5. ConnectionLost => ~up' /\ wire' = <<>> /\ sent' = sent
  BY DEF ConnectionLost, broker
<1>6. UNCHANGED <<buf, phase, rem, cnt, msg, at, slots, delivered, torn, stalls>>
  BY DEF Network, BrokerPublish, BrokerRepeat, BrokerPing, ConnectionLost, faults
<1> QED
  BY <1>2, <1>3, <1>4, <1>5, <1>6 DEF Network

(* Where the reading is *)

Reading == {"remlen", "discard", "body", "packet"}

\* Of packet k, o bytes are still to come; a lost connection brings none.
Stream(k, o) == up => Ahead(k, o, wire, sent)

\* The digits of q are what is left of the remaining length of packet k.
Digits(k, q) ==
    /\ q \in Nat /\ rem + multiplier[cnt + 1] * q = RemLen(sent[k])
    /\ Ahead(k, Len(RL(q)) + RemLen(sent[k]), wire, sent)
    /\ \A j \in 1 .. Len(RL(q)) : wire[j] = RL(q)[j]

InRemLen(k) ==
    /\ cnt \in 0 .. 3 /\ buf[1] = Head1(sent[k])
    /\ up => \E q : Digits(k, q)

InDiscard(k) == RemLen(sent[k]) >= ReadBufSize /\ rem > 0 /\ Stream(k, rem)

InBody(k) == rem = RemLen(sent[k]) /\ buf[1] = Head1(sent[k]) /\ Stream(k, rem)

\* Packet k is in read_buf.
Whole(k) ==
    /\ rem = RemLen(sent[k]) /\ buf[1] = Head1(sent[k])
    /\ rem = 0 \/ HeadLen(sent[k]) + rem <= ReadBufSize
    /\ \A j \in 1 .. rem : buf[HeadLen(sent[k]) + j] = Bytes(sent[k])[HeadLen(sent[k]) + j]
    /\ Stream(k, 0)

Inside(k) ==
    /\ k >= 1 /\ Handed(delivered, sent, k - 1)
    /\ phase = "remlen" => InRemLen(k)
    /\ phase = "discard" => InDiscard(k)
    /\ phase = "body" => InBody(k)
    /\ phase = "packet" => Whole(k)

Between(k) == Handed(delivered, sent, k) /\ Stream(k, 0)

\* Packet k is being read, or is the last that was.
Frame(k) == k \in 0 .. Len(sent) /\ IF phase \in Reading THEN Inside(k) ELSE Between(k)

\* Without a stall only a lost connection ends a packet before its end, and
\* nothing is read of it then.
StallInv ==
    /\ ~up => wire = <<>> \/ phase = "down"
    /\ phase = "down" => ~up
    /\ stalls = 0 /\ torn => ~up /\ phase \in {"idle", "down"}

FrameInv == StallInv /\ (~torn => \E k : Frame(k))

LEMMA StreamTypes ==
    ASSUME TypeInv
    PROVE  /\ sent \in Seq(Sendable) /\ Len(sent) \in Nat /\ wire \in Seq(Byte) /\ Len(wire) \in Nat
           /\ buf \in [1 .. ReadBufSize -> Byte] /\ rem \in Nat /\ up \in BOOLEAN /\ torn \in BOOLEAN
BY DEF TypeInv, WireTypes, ReadTypes, FaultTypes, Sendable

\* A handler, the acknowledgement and the calls of the application leave the
\* stream as it is.
LEMMA FrameQuiet ==
    ASSUME FrameInv, UNCHANGED <<up, wire, sent, delivered, torn, stalls>>,
           phase \notin Reading \cup {"down"}, phase' \notin Reading \cup {"down"},
           phase' = phase \/ phase # "idle"
    PROVE  FrameInv'
<1>1. StallInv'
  BY DEF FrameInv, StallInv
<1>2. ASSUME ~torn' PROVE \E k : Frame(k)'
  <2>1. PICK k : Frame(k)
    BY <1>2 DEF FrameInv
  <2>2. k \in 0 .. Len(sent) /\ Between(k)
    BY <2>1 DEF Frame
  <2>3. Between(k)'
    BY <2>2 DEF Between, Stream
  <2>4. Frame(k)'
    BY <2>2, <2>3 DEF Frame
  <2> QED
    BY <2>4
<1> QED
  BY <1>1, <1>2 DEF FrameInv

\* The end of the device, by IOT_DM_Destroy or a write past a buffer.
LEMMA FrameDown ==
    ASSUME FrameInv, UNCHANGED <<wire, sent, delivered, torn, stalls>>,
           phase = "idle", phase' = "down", up' = FALSE
    PROVE  FrameInv'
<1>1. StallInv'
  BY DEF FrameInv, StallInv
<1>2. ASSUME ~torn' PROVE \E k : Frame(k)'
  <2>1. PICK k : Frame(k)
    BY <1>2 DEF FrameInv
  <2>2. k \in 0 .. Len(sent) /\ Between(k)
    BY <2>1 DEF Frame, Reading
  <2>3. Between(k)'
    BY <2>2 DEF Between, Stream
  <2>4. Frame(k)'
    BY <2>2, <2>3 DEF Frame, Reading
  <2> QED
    BY <2>4
<1> QED
  BY <1>1, <1>2 DEF FrameInv

LEMMA NothingAhead == Ahead(0, 0, <<>>, <<>>)
<1> DEFINE e == [i \in {0} |-> 0]
<1>1. Len(<<>>) = 0 /\ 0 .. 0 = {0} /\ 1 .. 0 = {} /\ 0 + 1 .. 0 = {}
  OBVIOUS
<1>2. Ends(e, 0, 0, <<>>, <<>>)
  BY <1>1 DEF Ends
<1> QED
  BY <1>2 DEF Ahead

LEMMA FrameReconnect ==
    ASSUME FrameInv, Reconnect
    PROVE  FrameInv'
<1>1. /\ phase = "idle" /\ phase' = "idle" /\ up' /\ sent' = <<>> /\ delivered' = <<>> /\ torn' = FALSE
      /\ wire' = wire /\ wire = <<>>
  BY DEF Reconnect, FrameInv, StallInv
<1>2. StallInv'
  BY <1>1 DEF StallInv
<1>3. Between(0)'
  BY <1>1, HandedNone, NothingAhead DEF Between, Stream
<1>4. Frame(0)'
  BY <1>1, <1>3 DEF Frame, Reading
<1> QED
  BY <1>2, <1>4 DEF FrameInv

\* What is sent comes after what is on its way, which a lost connection loses.
LEMMA FrameNetwork ==
    ASSUME TypeInv, FrameInv, Network
    PROVE  FrameInv'
<1>0. /\ UNCHANGED <<buf, phase, rem, cnt, msg, at, slots, delivered, torn, stalls>>
      /\ \/ up /\ up' /\ \E p \in Sendable : sent' = Append(sent, p) /\ wire' = wire \o Bytes(p)
         \/ ~up' /\ wire' = <<>> /\ sent' = sent
  BY NetworkStream
<1>1. CASE ~up' /\ wire' = <<>> /\ sent' = sent
  <2>1. StallInv'
    BY <1>0, <1>1 DEF FrameInv, StallInv
  <2>2. ASSUME ~torn' PROVE \E k : Frame(k)'
    <3>1. PICK k : Frame(k)
      BY <1>0, <2>2 DEF FrameInv
    <3>2. Inside(k) => Inside(k)'
      BY <1>0, <1>1 DEF Inside, InRemLen, InDiscard, InBody, Whole, Stream
    <3>3. Between(k) => Between(k)'
      BY <1>0, <1>1 DEF Between, Stream
    <3>4. Frame(k)'
      BY <1>0, <1>1, <3>1, <3>2, <3>3 DEF Frame
    <3> QED
      BY <3>4
  <2> QED
    BY <2>1, <2>2 DEF FrameInv
<1>2. ASSUME up, up', NEW p \in Sendable, sent' = Append(sent, p), wire' = wire \o Bytes(p)
      PROVE  FrameInv'
  <2>1. StallInv'
    BY <1>0, <1>2 DEF FrameInv, StallInv
  <2>2. ASSUME ~torn' PROVE \E k : Frame(k)'
    <3>1. PICK k : Frame(k)
      BY <1>0, <2>2 DEF FrameInv
    <3>2. /\ sent \in Seq(Sendable) /\ Len(sent) \in Nat /\ wire \in Seq(Byte) /\ Len(wire) \in Nat
          /\ k \in 0 .. Len(sent)
      BY <3>1, StreamTypes DEF Frame
    <3>3. Len(sent') = Len(sent) + 1 /\ \A i \in 1 .. Len(sent) : sent'[i] = sent[i]
      BY <1>2, <3>2
    <3>4. k \in 0 .. Len(sent') /\ (k >= 1 => k \in 1 .. Len(sent) /\ k - 1 \in 0 .. Len(sent))
      BY <3>2, <3>3
    <3>5. k >= 1 => sent'[k] = sent[k]
      BY <3>3, <3>4
    <3>6. ASSUME NEW o, Ahead(k, o, wire, sent) PROVE Ahead(k, o, wire', sent')
      BY <1>2, <3>2, <3>6, AheadAppend
    <3>7. ASSUME Inside(k) PROVE Inside(k)'
      <4>1. k >= 1 /\ Handed(delivered, sent, k - 1)
        BY <3>7 DEF Inside
      <4>2. Handed(delivered, sent', k - 1)
        BY <1>2, <3>2, <3>4, <4>1, HandedAppend
      <4>3. Handed(delivered, sent, k - 1)'
        BY <1>0, <4>2
      <4>4. ASSUME InRemLen(k) PROVE InRemLen(k)'
        <5>1. PICK q : Digits(k, q)
          BY <1>2, <4>4 DEF InRemLen
        <5>2. /\ q \in Nat /\ rem + multiplier[cnt + 1] * q = RemLen(sent[k])
              /\ Ahead(k, Len(RL(q)) + RemLen(sent[k]), wire, sent)
              /\ \A j \in 1 .. Len(RL(q)) : wire[j] = RL(q)[j]
          BY <5>1 DEF Digits
        <5>3. Len(RL(q)) + RemLen(sent[k]) <= Len(wire)
          BY <3>2, <5>2, AheadFits
        <5>4. RemLen(sent[k]) \in Nat /\ Len(RL(q)) \in Nat
          <6>1. sent[k] \in Sendable
            BY <3>2, <3>4, <4>1
          <6> QED
            BY <5>2, <6>1, FrameFacts, RemLenSize
        <5>5. \A j \in 1 .. Len(RL(q)) : j \in 1 .. Len(wire)
          BY <3>2, <5>3, <5>4
        <5>6. Bytes(p) \in Seq(Byte)
          BY FrameFacts
        <5>7. \A j \in 1 .. Len(wire) : wire'[j] = wire[j]
          BY <1>2, <3>2, <5>6
        <5>8. \A j \in 1 .. Len(RL(q)) : wire'[j] = RL(q)[j]
          BY <5>2, <5>5, <5>7
        <5>9. Ahead(k, Len(RL(q)) + RemLen(sent[k]), wire', sent')
          BY <3>6, <5>2
        <5>10. Digits(k, q)'
          BY <1>0, <3>5, <4>1, <5>2, <5>8, <5>9 DEF Digits
        <5> QED
          BY <1>0, <3>5, <4>1, <4>4, <5>10 DEF InRemLen
      <4>5. InDiscard(k) => InDiscard(k)'
        BY <1>0, <1>2, <3>5, <3>6, <4>1 DEF InDiscard, Stream
      <4>6. InBody(k) => InBody(k)'
        BY <1>0, <1>2, <3>5, <3>6, <4>1 DEF InBody, Stream
      <4>7. Whole(k) => Whole(k)'
        BY <1>0, <1>2, <3>5, <3>6, <4>1 DEF Whole, Stream
      <4> QED
        BY <1>0, <3>7, <4>1, <4>3, <4>4, <4>5, <4>6, <4>7 DEF Inside
    <3>8. ASSUME Between(k) PROVE Between(k)'
      <4>1. Handed(delivered, sent', k)
        BY <1>2, <3>2, <3>8, HandedAppend DEF Between
      <4> QED
        BY <1>0, <1>2, <3>6, <3>8, <4>1 DEF Between, Stream
    <3>9. Frame(k)'
      BY <1>0, <3>1, <3>4, <3>7, <3>8 DEF Frame
    <3> QED
      BY <3>9
  <2> QED
    BY <2>1, <2>2 DEF FrameInv
<1> QED
  BY <1>0, <1>1, <1>2

\* A read that got all it asked for.
LEMMA SureRead ==
    ASSUME TypeInv, NEW n \in Nat, NEW o \in Nat, NEW c, NetRead(n, o, c), ~torn'
    PROVE  /\ ~torn /\ c = n /\ n <= Len(wire)
           /\ wire' = SubSeq(wire, n + 1, Len(wire)) /\ Len(wire') = Len(wire) - n
           /\ \A j \in 1 .. Len(wire') : wire'[j] = wire[n + j]
           /\ \A i \in 1 .. ReadBufSize : i \in o + 1 .. o + n => buf'[i] = wire[i - o]
           /\ \A i \in 1 .. ReadBufSize : i \notin o + 1 .. o + n => buf'[i] = buf[i]
           /\ UNCHANGED <<up, sent, delivered>>
<1>1. /\ c \in Nat /\ c <= n /\ c <= Len(wire) /\ wire' = SubSeq(wire, c + 1, Len(wire))
      /\ Len(wire') = Len(wire) - c
      /\ \A j \in 1 .. Len(wire') : wire'[j] = wire[c + j]
      /\ UNCHANGED <<up, sent, delivered>>
  BY NetReadTypes
<1>2. /\ torn' = (torn \/ c < n)
      /\ buf' = [i \in DOMAIN buf |-> IF i \in o + 1 .. o + c THEN wire[i - o] ELSE buf[i]]
  BY DEF NetRead
<1>3. ~torn /\ ~(c < n)
  BY <1>2
<1>4. c = n
  BY <1>1, <1>3
<1>5. DOMAIN buf = 1 .. ReadBufSize
  BY StreamTypes
<1> QED
  BY <1>1, <1>2, <1>3, <1>4, <1>5

\* A read that got less, without a stall, comes after the connection was lost.
LEMMA StallRead ==
    ASSUME TypeInv, StallInv, NEW n \in Nat, NEW o \in Nat, NEW c, NetRead(n, o, c),
           up /\ ~torn => n <= Len(wire), phase # "down", phase' # "down",
           phase = "idle" => wire # <<>>, c = 0 /\ n # 0 => phase' = "idle"
    PROVE  StallInv'
<1>0. wire \in Seq(Byte) /\ Len(wire) \in Nat /\ up \in BOOLEAN /\ torn \in BOOLEAN
      /\ stalls \in 0 .. MaxStall /\ MaxStall \in Nat
  BY StreamTypes, ReceiveSizes DEF TypeInv, FaultTypes
<1>1. c \in Nat /\ c <= n /\ c <= Len(wire) /\ Len(wire') = Len(wire) - c /\ up' = up /\ wire' \in Seq(Byte)
  BY NetReadTypes
<1> DEFINE m == Min2(n, Len(wire))
<1>2. /\ torn' = (torn \/ c < n) /\ (c < m => stalls < MaxStall)
      /\ stalls' = stalls + (IF c < m THEN 1 ELSE 0)
  BY DEF NetRead
<1>3. m \in Nat /\ m <= n /\ m <= Len(wire) /\ (m = n \/ m = Len(wire))
  BY <1>0 DEF Min2
<1> HIDE DEF m
<1>4. ~up => wire = <<>>
  BY DEF StallInv
<1>5. ~up' => wire' = <<>>
  <2> SUFFICES ASSUME ~up' PROVE wire' = <<>>
    OBVIOUS
  <2>1. Len(wire) = 0
    BY <1>1, <1>4
  <2>2. Len(wire') = 0
    BY <1>1, <2>1
  <2> QED
    BY <1>1, <2>2
<1>6. ASSUME stalls' = 0, torn' PROVE ~up' /\ phase' \in {"idle", "down"}
  <2>1. stalls = 0 /\ c = m
    BY <1>0, <1>1, <1>2, <1>3, <1>6
  <2>2. ~torn
    BY <1>4, <2>1 DEF StallInv
  <2>3. c < n
    BY <1>2, <1>6, <2>2
  <2>4. ~up
    BY <1>0, <1>1, <1>3, <2>1, <2>2, <2>3
  <2>5. Len(wire) = 0
    BY <1>4, <2>4
  <2>6. c = 0 /\ n # 0
    BY <1>0, <1>1, <2>3, <2>5
  <2> QED
    BY <1>1, <2>4, <2>6
<1> QED
  BY <1>5, <1>6 DEF StallInv

\* The first byte of a packet.
LEMMA FrameHeader ==
    ASSUME TypeInv, FrameInv, ReadHeader
    PROVE  FrameInv'
<1>0. /\ phase = "idle" /\ wire # <<>> /\ NetRead(1, 0, 1) /\ phase' = "remlen" /\ rem' = 0 /\ cnt' = 0
  BY DEF ReadHeader
<1>1. wire \in Seq(Byte) /\ Len(wire) \in Nat /\ sent \in Seq(Sendable) /\ ReadBufSize \in Nat
      /\ ReadBufSize >= 2 /\ Len(sent) \in Nat /\ up \in BOOLEAN
  BY StreamTypes, ReceiveSizes
<1>2. 1 <= Len(wire)
  BY <1>0, <1>1
<1>3. StallInv'
  <2>1. StallInv /\ phase # "down" /\ phase' # "down"
    BY <1>0 DEF FrameInv
  <2> QED
    BY <1>0, <1>2, <2>1, StallRead
<1>4. ASSUME ~torn' PROVE \E k : Frame(k)'
  <2>1. /\ ~torn /\ wire' = SubSeq(wire, 2, Len(wire)) /\ Len(wire') = Len(wire) - 1
        /\ UNCHANGED <<up, sent, delivered>>
    BY <1>0, <1>4, SureRead
  <2>2. /\ \A j \in 1 .. Len(wire') : wire'[j] = wire[1 + j]
        /\ buf'[1] = wire[1]
    <3>1. /\ \A j \in 1 .. Len(wire') : wire'[j] = wire[1 + j]
          /\ \A i \in 1 .. ReadBufSize : i \in 0 + 1 .. 0 + 1 => buf'[i] = wire[i - 0]
      BY <1>0, <1>4, SureRead
    <3>2. 1 \in 1 .. ReadBufSize /\ 1 \in 0 + 1 .. 0 + 1 /\ 1 - 0 = 1
      BY <1>1
    <3> QED
      BY <3>1, <3>2
  <2>3. PICK k : Frame(k)
    BY <2>1 DEF FrameInv
  <2>4. k \in 0 .. Len(sent) /\ Between(k)
    BY <1>0, <2>3 DEF Frame, Reading
  <2>5. up
    BY <1>0 DEF FrameInv, StallInv
  <2>6. Ahead(k, 0, wire, sent)
    BY <2>4, <2>5 DEF Between, Stream
  <2>7. k + 1 \in 1 .. Len(sent) /\ Ahead(k + 1, Len(Bytes(sent[k + 1])), wire, sent)
    BY <1>0, <1>1, <2>4, <2>6, AheadNext
  <2> DEFINE i == k + 1
             p == sent[i]
             l == Len(Bytes(p))
  <2>8. i \in 1 .. Len(sent) /\ i \in 0 .. Len(sent) /\ i - 1 = k /\ p \in Sendable /\ i >= 1
    BY <1>1, <2>4, <2>7
  <2>9. Ahead(i, l, wire, sent)
    BY <2>7
  <2> HIDE DEF i, p
  <2>25. PICK r : r = RemLen(p)
    OBVIOUS
  <2>10. /\ r \in Nat /\ Len(RL(r)) \in Nat /\ Len(RL(r)) >= 1 /\ l \in Nat
         /\ HeadLen(p) \in Nat /\ l = HeadLen(p) + r /\ Bytes(p)[1] = Head1(p)
    <3>1. /\ RemLen(p) \in Nat /\ Len(RL(RemLen(p))) \in Nat /\ HeadLen(p) \in Nat
          /\ Len(Bytes(p)) \in Nat /\ Len(Bytes(p)) = HeadLen(p) + RemLen(p) /\ Bytes(p)[1] = Head1(p)
      BY <2>8, FrameFacts
    <3>2. Len(RL(RemLen(p))) >= 1
      BY <3>1, RemLenSize
    <3> QED
      BY <2>25, <3>1, <3>2, Zenon
  <2>11. \A j \in 1 .. Len(RL(r)) : Bytes(p)[1 + j] = RL(r)[j]
    BY <2>8, <2>25, FrameFacts
  <2>12. HeadLen(p) = 1 + Len(RL(r))
    BY <2>25 DEF HeadLen
  <2>13. 1 <= l /\ l - 1 = Len(RL(r)) + r
    BY <2>10, <2>12
  <2>14. Ahead(i, l - 1, SubSeq(wire, 1 + 1, Len(wire)), sent)
    BY <1>1, <2>8, <2>9, <2>13, AheadRead
  <2>15. Ahead(i, Len(RL(r)) + r, wire', sent)
    BY <2>1, <2>13, <2>14
  <2>16. l <= Len(wire) /\ \A j \in 1 .. l : wire[j] = Bytes(sent[i])[Len(Bytes(sent[i])) - l + j]
    BY <1>1, <2>8, <2>9, AheadFits
  <2>17. \A j \in 1 .. l : wire[j] = Bytes(p)[j]
    <3>1. p = sent[i]
      BY DEF p
    <3>2. \A j \in 1 .. l : l - l + j = j
      BY <2>10
    <3> QED
      BY <2>16, <3>1, <3>2
  <2> HIDE DEF l
  <2>18. wire[1] = Head1(p)
    BY <2>10, <2>13, <2>17
  <2>19. \A j \in 1 .. Len(RL(r)) : wire'[j] = RL(r)[j]
    <3>1. \A j \in 1 .. Len(RL(r)) : j \in 1 .. Len(wire') /\ 1 + j \in 1 .. l
      BY <1>1, <2>1, <2>10, <2>12, <2>16
    <3> QED
      BY <2>2, <2>11, <2>17, <3>1
  <2>20. Digits(i, r)'
    <3>1. 0 + multiplier[0 + 1] * r = r
      BY <2>10, MultiplierFacts
    <3>2. sent'[i] = p /\ RemLen(p) = r
      BY <2>1, <2>25 DEF p
    <3>3. rem' + multiplier[cnt' + 1] * r = RemLen(sent'[i])
      BY <1>0, <3>1, <3>2
    <3>4. Ahead(i, Len(RL(r)) + RemLen(sent'[i]), wire', sent')
      BY <2>1, <2>15, <3>2
    <3>5. r \in Nat /\ \A j \in 1 .. Len(RL(r)) : wire'[j] = RL(r)[j]
      BY <2>10, <2>19
    <3> QED
      BY <3>3, <3>4, <3>5 DEF Digits
  <2>21. InRemLen(i)'
    <3>1. buf'[1] = Head1(sent'[i])
      BY <2>1, <2>2, <2>18 DEF p
    <3> QED
      BY <1>0, <2>20, <3>1 DEF InRemLen
  <2>22. Handed(delivered, sent, i - 1)
    BY <2>4, <2>8 DEF Between
  <2>23. Inside(i)'
    BY <1>0, <2>1, <2>8, <2>21, <2>22 DEF Inside
  <2>24. Frame(i)'
    BY <1>0, <2>1, <2>8, <2>23 DEF Frame, Reading
  <2> QED
    BY <2>24
<1> QED
  BY <1>3, <1>4 DEF FrameInv

\* One digit of the remaining length: the rest of it is a smaller number.
LEMMA DigitStep ==
    ASSUME NEW q \in Nat, NEW x \in Nat, NEW r \in Nat, NEW i \in 0 .. 3,
           x + multiplier[i + 1] * q = r, r < RemLenLimit,
           NEW b, b = RL(q)[1]
    PROVE  /\ q < Base => (b \div Base) % 2 = 0 /\ x + (b % Base) * multiplier[i + 1] = r
           /\ q >= Base => /\ (b \div Base) % 2 = 1 /\ i + 1 \in 0 .. 3
                           /\ x + (b % Base) * multiplier[i + 1] + multiplier[i + 1 + 1] * (q \div Base) = r
<1> DEFINE m == multiplier[i + 1]
<1>1. m \in Nat /\ m >= 1
  <2>1. i + 1 \in 1 .. 4
    OBVIOUS
  <2> QED
    BY <2>1, MultiplierFacts
<1>2. ASSUME q < Base PROVE (b \div Base) % 2 = 0 /\ x + (b % Base) * m = r
  <2>1. b = q
    BY <1>2, RemLenFacts
  <2>2. q \div Base = 0 /\ q % Base = q
    BY <1>2, BaseFacts, Quotient
  <2>3. 0 % 2 = 0
    OBVIOUS
  <2>4. q * m = m * q
    BY <1>1
  <2> QED
    BY <2>1, <2>2, <2>3, <2>4
<1>3. ASSUME q >= Base
      PROVE  /\ (b \div Base) % 2 = 1 /\ i + 1 \in 0 .. 3
             /\ x + (b % Base) * m + multiplier[i + 1 + 1] * (q \div Base) = r
  <2> DEFINE d == q % Base
             y == q \div Base
  <2>1. b = d + Base
    BY <1>3, RemLenFacts
  <2>2. d \in Nat /\ d < Base /\ y \in Nat /\ q = y * Base + d
    BY BaseFacts, Quotient
  <2> HIDE DEF d, y
  <2>3. b % Base = d /\ b \div Base = 1
    <3>1. b \in Nat /\ b \div Base \in Nat /\ b % Base \in Nat /\ b % Base < Base /\ b = (b \div Base) * Base + (b % Base)
          /\ b \div Base >= 1
      BY <2>1, <2>2, BaseFacts, Quotient
    <3> DEFINE u == b \div Base
               v == b % Base
    <3>2. u \in Nat /\ v \in Nat /\ v < Base /\ u >= 1 /\ d + Base = u * Base + v
      BY <2>1, <3>1
    <3> HIDE DEF u, v
    <3>3. u = 1
      <4> SUFFICES ASSUME u >= 2 PROVE FALSE
        BY <3>2
      <4>1. PICK z \in Nat : u = z + 2
        <5>1. u - 2 \in Nat /\ u = (u - 2) + 2
          BY <3>2
        <5> QED
          BY <5>1
      <4>2. u * Base = z * Base + 2 * Base
        BY <4>1, BaseFacts
      <4>3. z * Base \in Nat
        BY BaseFacts
      <4> QED
        BY <2>2, <3>2, <4>2, <4>3, BaseFacts
    <3>4. v = d
      BY <2>2, <3>2, <3>3, BaseFacts
    <3> QED
      BY <3>3, <3>4 DEF u, v
  <2>4. i # 3
    <3> SUFFICES ASSUME i = 3 PROVE FALSE
      OBVIOUS
    <3>1. m = Base * Base * Base
      BY DEF multiplier
    <3>2. RemLenLimit = m * Base
      BY <3>1, BaseFacts DEF RemLenLimit
    <3> HIDE DEF m
    <3>3. m * q >= m * Base
      <4>1. PICK z \in Nat : q = z + Base
        <5>1. q - Base \in Nat /\ q = (q - Base) + Base
          BY <1>3, BaseFacts
        <5> QED
          BY <5>1
      <4>2. m * q = m * z + m * Base
        BY <1>1, <4>1, BaseFacts
      <4>3. m * z \in Nat /\ m * Base \in Nat
        BY <1>1, BaseFacts
      <4> QED
        BY <4>2, <4>3
    <3>4. x + m * q = r
      BY DEF m
    <3>5. m * q \in Nat /\ m * Base \in Nat
      BY <1>1, BaseFacts
    <3> QED
      BY <3>2, <3>3, <3>4, <3>5
  <2>5. i + 1 \in 1 .. 3
    BY <2>4
  <2>6. multiplier[i + 1 + 1] = m * Base
    BY <2>5, MultiplierFacts
  <2>7. x + m * q = r
    OBVIOUS
  <2> HIDE DEF m
  <2>8. m * q = d * m + m * Base * y
    <3>1. m * (y * Base + d) = d * m + m * Base * y
      BY <1>1, <2>2, BaseFacts
    <3> QED
      BY <2>2, <3>1
  <2>9. d * m \in Nat /\ m * Base * y \in Nat
    BY <1>1, <2>2, BaseFacts
  <2>10. x + d * m + m * Base * y = r
    BY <2>7, <2>8, <2>9
  <2>11. 1 % 2 = 1 /\ i + 1 \in 0 .. 3
    BY <2>5
  <2> QED
    BY <2>3, <2>6, <2>10, <2>11 DEF y
<1> QED
  BY <1>2, <1>3

\* While a packet is read, its bytes are there or the connection is lost.
LEMMA FrameDigits ==
    ASSUME TypeInv, FrameInv, _decode_packet_rem_len_with_net_read
    PROVE  FrameInv'
<1>0. phase = "remlen" /\ phase \in Reading /\ phase # "idle" /\ phase # "down"
  BY DEF _decode_packet_rem_len_with_net_read, Reading
<1>1. /\ wire \in Seq(Byte) /\ Len(wire) \in Nat /\ sent \in Seq(Sendable) /\ ReadBufSize \in Nat
      /\ ReadBufSize >= 2 /\ Len(sent) \in Nat /\ up \in BOOLEAN /\ rem \in Nat /\ StallInv
      /\ (~up => wire = <<>>)
  BY <1>0, StreamTypes, ReceiveSizes DEF FrameInv, StallInv
<1>2. ASSUME ~torn
      PROVE  \E k : k \in 1 .. Len(sent) /\ Handed(delivered, sent, k - 1) /\ InRemLen(k)
  <2>1. PICK k : Frame(k)
    BY <1>2 DEF FrameInv
  <2>2. k \in 0 .. Len(sent) /\ Inside(k)
    BY <1>0, <2>1 DEF Frame
  <2>3. k >= 1 /\ Handed(delivered, sent, k - 1) /\ InRemLen(k)
    BY <1>0, <2>2 DEF Inside
  <2>4. k \in 1 .. Len(sent)
    BY <1>1, <2>2, <2>3
  <2> QED
    BY <2>3, <2>4
<1>3. up /\ ~torn => 1 <= Len(wire)
  <2> SUFFICES ASSUME up, ~torn PROVE 1 <= Len(wire)
    OBVIOUS
  <2>1. PICK k : k \in 1 .. Len(sent) /\ InRemLen(k)
    BY <1>2
  <2>2. PICK q : Digits(k, q)
    BY <2>1 DEF InRemLen
  <2>3. q \in Nat /\ Ahead(k, Len(RL(q)) + RemLen(sent[k]), wire, sent)
    BY <2>2 DEF Digits
  <2>4. Len(RL(q)) \in Nat /\ Len(RL(q)) >= 1 /\ k \in 0 .. Len(sent) /\ sent[k] \in Sendable
    BY <1>1, <2>1, <2>3, RemLenSize
  <2>5. RemLen(sent[k]) \in Nat
    BY <2>4, FrameFacts
  <2>6. Len(RL(q)) + RemLen(sent[k]) <= Len(wire)
    BY <1>1, <2>3, <2>4, AheadFits
  <2> QED
    BY <1>1, <2>4, <2>5, <2>6
<1>4. CASE cnt = 4 /\ PacketDone /\ UNCHANGED <<up, wire, delivered, sent, torn, stalls>>
  <2>1. torn
    <3> SUFFICES ASSUME ~torn PROVE FALSE
      OBVIOUS
    <3> QED
      BY <1>2, <1>4 DEF InRemLen
  <2>2. StallInv'
    BY <1>0, <1>1, <1>4, <2>1 DEF StallInv, PacketDone
  <2> QED
    BY <1>4, <2>1, <2>2 DEF FrameInv
<1>5. CASE NetRead(1, ReadBufSize, 0) /\ PacketDone
  <2>1. torn'
    <3>1. torn' = (torn \/ 0 < 1)
      BY <1>5 DEF NetRead
    <3>2. 0 < 1
      OBVIOUS
    <3> QED
      BY <3>1, <3>2, Zenon
  <2>2. phase' = "idle"
    BY <1>5 DEF PacketDone
  <2>3. StallInv'
    BY <1>0, <1>1, <1>3, <1>5, <2>2, StallRead
  <2> QED
    BY <2>1, <2>3 DEF FrameInv
<1>6. CASE /\ cnt < 4 /\ wire # <<>> /\ NetRead(1, ReadBufSize, 1) /\ cnt' = cnt + 1
           /\ rem' = rem + (wire[1] % Base) * multiplier[cnt + 1]
           /\ phase' = IF (wire[1] \div Base) % 2 = 1 THEN "remlen"
                       ELSE IF rem' >= ReadBufSize THEN "discard" ELSE "body"
  <2>0. phase' # "down" /\ phase' \in Reading
    BY <1>6 DEF Reading
  <2>1. StallInv'
    BY <1>0, <1>1, <1>3, <1>6, <2>0, StallRead
  <2>2. ASSUME ~torn' PROVE \E k : Frame(k)'
    <3>1. /\ ~torn /\ wire' = SubSeq(wire, 1 + 1, Len(wire)) /\ Len(wire') = Len(wire) - 1
          /\ UNCHANGED <<up, sent, delivered>>
      BY <1>1, <1>6, <2>2, SureRead
    <3>2. /\ \A j \in 1 .. Len(wire') : wire'[j] = wire[1 + j]
          /\ buf'[1] = buf[1]
      <4>1. /\ \A j \in 1 .. Len(wire') : wire'[j] = wire[1 + j]
            /\ \A i \in 1 .. ReadBufSize : i \notin ReadBufSize + 1 .. ReadBufSize + 1 => buf'[i] = buf[i]
        BY <1>1, <1>6, <2>2, SureRead
      <4>2. 1 \in 1 .. ReadBufSize /\ 1 \notin ReadBufSize + 1 .. ReadBufSize + 1
        BY <1>1
      <4> QED
        BY <4>1, <4>2
    <3>3. PICK k : k \in 1 .. Len(sent) /\ Handed(delivered, sent, k - 1) /\ InRemLen(k)
      BY <1>2, <3>1
    <3>4. up
      BY <1>1, <1>6
    <3>5. PICK q : Digits(k, q)
      BY <3>3, <3>4 DEF InRemLen
    <3>6. PICK p : p = sent[k]
      OBVIOUS
    <3>7. PICK r : r = RemLen(p)
      OBVIOUS
    <3>8. /\ q \in Nat /\ rem + multiplier[cnt + 1] * q = r
          /\ Ahead(k, Len(RL(q)) + r, wire, sent)
          /\ \A j \in 1 .. Len(RL(q)) : wire[j] = RL(q)[j]
      BY <3>5, <3>6, <3>7 DEF Digits
    <3>9. k \in 0 .. Len(sent) /\ k >= 1 /\ p \in Sendable
      BY <1>1, <3>3, <3>6
    <3>10. r \in Nat /\ r < RemLenLimit
      BY <3>7, <3>9, FrameFacts
    <3>11. Len(RL(q)) \in Nat /\ Len(RL(q)) >= 1
      BY <3>8, RemLenSize
    <3>12. wire[1] = RL(q)[1]
      BY <3>8, <3>11
    <3>13. cnt \in 0 .. 3 /\ buf[1] = Head1(p)
      BY <3>3, <3>6 DEF InRemLen
    <3>14. /\ q < Base => (wire[1] \div Base) % 2 = 0 /\ rem' = r
           /\ q >= Base => /\ (wire[1] \div Base) % 2 = 1 /\ cnt + 1 \in 0 .. 3
                           /\ rem' + multiplier[cnt + 1 + 1] * (q \div Base) = r
      <4>1. PICK b : b = wire[1]
        OBVIOUS
      <4>2. rem + multiplier[cnt + 1] * q = r /\ q \in Nat /\ b = RL(q)[1]
        BY <3>8, <3>12, <4>1
      <4>3. /\ q < Base => (b \div Base) % 2 = 0 /\ rem + (b % Base) * multiplier[cnt + 1] = r
            /\ q >= Base => /\ (b \div Base) % 2 = 1 /\ cnt + 1 \in 0 .. 3
                            /\ rem + (b % Base) * multiplier[cnt + 1]
                               + multiplier[cnt + 1 + 1] * (q \div Base) = r
        BY <1>1, <3>10, <3>13, <4>2, DigitStep
      <4>4. rem' = rem + (b % Base) * multiplier[cnt + 1]
        BY <1>6, <4>1
      <4> QED
        BY <4>1, <4>3, <4>4
    <3>15. Ahead(k, Len(RL(q)) + r - 1, wire', sent)
      <4>1. 1 <= Len(RL(q)) + r
        BY <3>10, <3>11
      <4> QED
        <5>1. PICK o : o = Len(RL(q)) + r
          OBVIOUS
        <5>2. Ahead(k, o, wire, sent) /\ 1 <= o
          BY <3>8, <4>1, <5>1
        <5>3. Ahead(k, o - 1, SubSeq(wire, 1 + 1, Len(wire)), sent)
          BY <1>1, <3>9, <5>2, AheadRead
        <5>4. o - 1 = Len(RL(q)) + r - 1
          BY <3>10, <3>11, <5>1
        <5>5. wire' = SubSeq(wire, 1 + 1, Len(wire))
          BY <3>1
        <5> QED
          BY <5>3, <5>4, <5>5, Zenon
    <3>16. sent'[k] = p /\ Handed(delivered, sent, k - 1)' /\ buf'[1] = Head1(p) /\ up'
      BY <3>1, <3>2, <3>3, <3>4, <3>6, <3>13
    <3>17. CASE q < Base
      <4>1. rem' = r /\ phase' = IF r >= ReadBufSize THEN "discard" ELSE "body"
        BY <1>6, <3>14, <3>17
      <4>2. Ahead(k, r, wire', sent)
        <5>1. Len(RL(q)) + r - 1 = r
          <6>1. Len(RL(q)) = 1
            BY <3>8, <3>17, RemLenFacts
          <6> QED
            BY <3>10, <6>1
        <5> QED
          BY <3>15, <5>1
      <4>3. Stream(k, rem)'
        BY <3>1, <4>1, <4>2 DEF Stream
      <4>4. InBody(k)'
        BY <3>7, <3>16, <4>1, <4>3 DEF InBody
      <4>5. phase' = "discard" => InDiscard(k)'
        <5>1. r >= ReadBufSize => r > 0
          BY <1>1, <3>10
        <5> QED
          BY <3>7, <3>16, <4>1, <4>3, <5>1 DEF InDiscard
      <4>6. Inside(k)'
        BY <3>9, <3>16, <4>1, <4>4, <4>5 DEF Inside
      <4>7. Frame(k)'
        BY <2>0, <3>1, <3>9, <4>6 DEF Frame
      <4> QED
        BY <4>7
    <3>18. CASE ~(q < Base)
      <4>0. q >= Base
        BY <3>8, <3>18, BaseFacts
      <4>1. PICK y : y = q \div Base
        OBVIOUS
      <4>2. /\ y \in Nat /\ Len(RL(q)) = 1 + Len(RL(y))
            /\ \A j \in 1 .. Len(RL(y)) : RL(q)[1 + j] = RL(y)[j]
        BY <3>8, <4>0, <4>1, RemLenFacts
      <4>3. phase' = "remlen" /\ cnt' \in 0 .. 3 /\ rem' + multiplier[cnt' + 1] * y = r
        BY <1>6, <3>14, <4>0, <4>1
      <4>4. Len(RL(y)) \in Nat
        BY <4>2, RemLenSize
      <4>5. Ahead(k, Len(RL(y)) + r, wire', sent)
        <5>1. Len(RL(q)) + r - 1 = Len(RL(y)) + r
          BY <3>10, <4>2, <4>4
        <5> QED
          BY <3>15, <5>1
      <4>6. \A j \in 1 .. Len(RL(y)) : wire'[j] = RL(y)[j]
        <5>1. Len(RL(y)) + r <= Len(wire')
          <6>1. Len(RL(q)) + r <= Len(wire)
            BY <1>1, <3>8, <3>9, AheadFits
          <6> QED
            BY <1>1, <3>1, <3>10, <4>2, <4>4, <6>1
        <5>2. \A j \in 1 .. Len(RL(y)) : j \in 1 .. Len(wire') /\ 1 + j \in 1 .. Len(RL(q))
          BY <1>1, <3>1, <3>10, <4>2, <4>4, <5>1
        <5> QED
          BY <3>2, <3>8, <4>2, <5>2
      <4>7. Digits(k, y)'
        BY <3>1, <3>7, <3>16, <4>2, <4>3, <4>5, <4>6 DEF Digits
      <4>8. InRemLen(k)'
        BY <3>16, <4>3, <4>7 DEF InRemLen
      <4>9. Inside(k)'
        BY <3>9, <3>16, <4>3, <4>8 DEF Inside
      <4>10. Frame(k)'
        BY <2>0, <3>1, <3>9, <4>9 DEF Frame
      <4> QED
        BY <4>10
    <3> QED
      BY <3>17, <3>18
  <2> QED
    BY <2>1, <2>2 DEF FrameInv
<1> QED
  BY <1>4, <1>5, <1>6 DEF _decode_packet_rem_len_with_net_read, faults, broker

\* A packet read whole that is not handed over.
LEMMA FrameSkipped ==
    ASSUME NEW k \in 1 .. Len(sent), Handed(delivered, sent, k - 1), ~Fits(sent[k]),
           UNCHANGED <<sent, delivered>>, phase' = "idle", Stream(k, 0)', Len(sent) \in Nat
    PROVE  Frame(k)'
<1>1. Handed(delivered, sent, k)
  <2>1. k \in Nat /\ k >= 1
    OBVIOUS
  <2> QED
    BY <2>1, HandedSkip
<1>2. Between(k)'
  BY <1>1 DEF Between
<1>3. k \in 0 .. Len(sent)
  OBVIOUS
<1> QED
  BY <1>2, <1>3 DEF Frame, Reading

\* What of a packet is left of it when n of its last o bytes are read.
LEMMA StreamRead ==
    ASSUME TypeInv, NEW k \in 0 .. Len(sent), NEW o, Stream(k, o), NEW n \in Nat,
           wire' = SubSeq(wire, n + 1, Len(wire)), UNCHANGED <<up, sent>>, n <= o,
           NEW x, x = o - n
    PROVE  Stream(k, x)'
<1>1. wire \in Seq(Byte) /\ sent \in Seq(Sendable)
  BY StreamTypes
<1>2. up => Ahead(k, o - n, SubSeq(wire, n + 1, Len(wire)), sent)
  BY <1>1, AheadRead DEF Stream
<1> QED
  BY <1>2 DEF Stream

LEMMA TooLong ==
    ASSUME NEW p \in Sendable, HeadLen(p) + RemLen(p) > ReadBufSize
    PROVE  ~Fits(p)
<1>1. Len(Bytes(p)) = HeadLen(p) + RemLen(p) /\ HeadLen(p) \in Nat /\ RemLen(p) \in Nat
  BY FrameFacts
<1>2. p # Ping => Bytes(p) = _serialize_publish_packet(p)
  BY DEF Bytes
<1>3. Fits(p) => p # Ping /\ Len(Bytes(p)) <= ReadBufSize
  BY <1>2 DEF Fits
<1> QED
  BY <1>1, <1>3, ReceiveSizes

LEMMA FrameDiscard ==
    ASSUME TypeInv, FrameInv, DiscardLong
    PROVE  FrameInv'
<1>0. phase = "discard" /\ phase \in Reading /\ phase # "idle" /\ phase # "down"
  BY DEF DiscardLong, Reading
<1>1. /\ wire \in Seq(Byte) /\ Len(wire) \in Nat /\ sent \in Seq(Sendable) /\ ReadBufSize \in Nat
      /\ ReadBufSize >= 2 /\ Len(sent) \in Nat /\ up \in BOOLEAN /\ rem \in Nat /\ StallInv
  BY <1>0, StreamTypes, ReceiveSizes DEF FrameInv
<1>2. PICK c : /\ NetRead(Min2(rem, ReadBufSize), 0, c)
               /\ IF c \in {0, rem} THEN PacketDone ELSE rem' = rem - c /\ UNCHANGED <<phase, cnt>>
  BY DEF DiscardLong
<1> DEFINE n == Min2(rem, ReadBufSize)
<1>3. n \in Nat /\ n <= rem /\ (rem > 0 => n > 0)
  BY <1>1 DEF Min2
<1>4. ASSUME ~torn
      PROVE  \E k : k \in 1 .. Len(sent) /\ Handed(delivered, sent, k - 1) /\ InDiscard(k)
  <2>1. PICK k : Frame(k)
    BY <1>4 DEF FrameInv
  <2>2. k \in 0 .. Len(sent) /\ Inside(k)
    BY <1>0, <2>1 DEF Frame
  <2>3. k >= 1 /\ Handed(delivered, sent, k - 1) /\ InDiscard(k)
    BY <1>0, <2>2 DEF Inside
  <2>4. k \in 1 .. Len(sent)
    BY <1>1, <2>2, <2>3
  <2> QED
    BY <2>3, <2>4
<1>5. up /\ ~torn => n <= Len(wire)
  <2> SUFFICES ASSUME up, ~torn PROVE n <= Len(wire)
    OBVIOUS
  <2>1. PICK k : k \in 1 .. Len(sent) /\ InDiscard(k)
    BY <1>4
  <2>2. k \in 0 .. Len(sent) /\ Ahead(k, rem, wire, sent)
    BY <1>1, <2>1 DEF InDiscard, Stream
  <2>3. rem <= Len(wire)
    BY <1>1, <2>2, AheadFits
  <2> QED
    BY <1>1, <1>3, <2>3
<1> HIDE DEF n
<1>6. phase' \in {"idle", "discard"} /\ (phase' # "idle" => c # 0 /\ rem' = rem - c)
  BY <1>0, <1>2 DEF PacketDone
<1>7. NetRead(n, 0, c)
  BY <1>2 DEF n
<1>8. StallInv'
  BY <1>0, <1>1, <1>3, <1>5, <1>6, <1>7, StallRead
<1>9. ASSUME ~torn' PROVE \E k : Frame(k)'
  <2>1. /\ ~torn /\ c = n /\ wire' = SubSeq(wire, n + 1, Len(wire)) /\ UNCHANGED <<up, sent, delivered>>
    BY <1>3, <1>7, <1>9, SureRead
  <2>2. PICK k : k \in 1 .. Len(sent) /\ Handed(delivered, sent, k - 1) /\ InDiscard(k)
    BY <1>4, <2>1
  <2>3. RemLen(sent[k]) >= ReadBufSize /\ rem > 0 /\ Stream(k, rem)
    BY <2>2 DEF InDiscard
  <2>4. k \in 0 .. Len(sent) /\ k >= 1 /\ sent[k] \in Sendable
    BY <1>1, <2>2
  <2>8. PICK x : x = rem - n
    OBVIOUS
  <2>5. Stream(k, x)'
    BY <1>3, <2>1, <2>3, <2>4, <2>8, StreamRead
  <2>6. CASE PacketDone /\ c = rem
    <3>1. ~Fits(sent[k])
      <4>1. HeadLen(sent[k]) \in Nat /\ HeadLen(sent[k]) >= 2 /\ RemLen(sent[k]) \in Nat
        BY <2>4, FrameFacts
      <4> QED
        BY <1>1, <2>3, <2>4, <4>1, TooLong
    <3>2. x = 0 /\ phase' = "idle"
      <4>1. x = rem - rem /\ rem \in Nat
        BY <1>1, <2>1, <2>6, <2>8
      <4>2. phase' = "idle"
        BY <2>6 DEF PacketDone
      <4> QED
        BY <4>1, <4>2
    <3>3. Stream(k, 0)'
      BY <2>5, <3>2
    <3>4. Frame(k)'
      BY <1>1, <2>1, <2>2, <3>1, <3>2, <3>3, FrameSkipped
    <3> QED
      BY <3>4
  <2>7. CASE c # rem
    <3>1. phase' = "discard" /\ rem' = rem - n /\ rem' > 0
      <4>1. c \notin {0, rem}
        BY <1>1, <1>3, <2>1, <2>3, <2>7
      <4> QED
        BY <1>0, <1>1, <1>2, <1>3, <2>1, <2>7, <4>1
    <3>2. Stream(k, rem)'
      BY <2>5, <2>8, <3>1 DEF Stream
    <3>3. InDiscard(k)'
      BY <2>1, <2>3, <3>1, <3>2 DEF InDiscard
    <3>4. Inside(k)'
      BY <2>1, <2>2, <2>4, <3>1, <3>3 DEF Inside
    <3>5. Frame(k)'
      BY <2>1, <2>4, <3>1, <3>4 DEF Frame, Reading
    <3> QED
      BY <3>5
  <2> QED
    BY <1>1, <1>2, <1>3, <2>1, <2>3, <2>6, <2>7
<1> QED
  BY <1>8, <1>9 DEF FrameInv

LEMMA FrameUnfit ==
    ASSUME TypeInv, FrameInv, DiscardUnfit
    PROVE  FrameInv'
<1>0. /\ phase = "body" /\ phase \in Reading /\ phase # "idle" /\ phase # "down"
      /\ rem > 0 /\ HeaderLen + rem > ReadBufSize /\ PacketDone /\ phase' = "idle"
  BY DEF DiscardUnfit, Reading, PacketDone
<1>1. /\ wire \in Seq(Byte) /\ Len(wire) \in Nat /\ sent \in Seq(Sendable) /\ ReadBufSize \in Nat
      /\ Len(sent) \in Nat /\ up \in BOOLEAN /\ rem \in Nat /\ StallInv
  BY <1>0, StreamTypes, ReceiveSizes DEF FrameInv
<1>2. PICK c : NetRead(rem, 0, c)
  BY DEF DiscardUnfit
<1>3. ASSUME ~torn
      PROVE  \E k : k \in 1 .. Len(sent) /\ Handed(delivered, sent, k - 1) /\ InBody(k)
  <2>1. PICK k : Frame(k)
    BY <1>3 DEF FrameInv
  <2>2. k \in 0 .. Len(sent) /\ Inside(k)
    BY <1>0, <2>1 DEF Frame
  <2>3. k >= 1 /\ Handed(delivered, sent, k - 1) /\ InBody(k)
    BY <1>0, <2>2 DEF Inside
  <2>4. k \in 1 .. Len(sent)
    BY <1>1, <2>2, <2>3
  <2> QED
    BY <2>3, <2>4
<1>4. up /\ ~torn => rem <= Len(wire)
  <2> SUFFICES ASSUME up, ~torn PROVE rem <= Len(wire)
    OBVIOUS
  <2>1. PICK k : k \in 1 .. Len(sent) /\ InBody(k)
    BY <1>3
  <2>2. k \in 0 .. Len(sent) /\ Ahead(k, rem, wire, sent)
    BY <1>1, <2>1 DEF InBody, Stream
  <2> QED
    BY <1>1, <2>2, AheadFits
<1>5. StallInv'
  <2>1. phase' # "down"
    BY <1>0
  <2> QED
    BY <1>0, <1>1, <1>2, <1>4, <2>1, StallRead
<1>6. ASSUME ~torn' PROVE \E k : Frame(k)'
  <2>1. /\ ~torn /\ wire' = SubSeq(wire, rem + 1, Len(wire)) /\ UNCHANGED <<up, sent, delivered>>
    BY <1>1, <1>2, <1>6, SureRead
  <2>2. PICK k : k \in 1 .. Len(sent) /\ Handed(delivered, sent, k - 1) /\ InBody(k)
    BY <1>3, <2>1
  <2>3. rem = RemLen(sent[k]) /\ Stream(k, rem)
    BY <2>2 DEF InBody
  <2>4. k \in 0 .. Len(sent) /\ sent[k] \in Sendable
    BY <1>1, <2>2
  <2>5. 0 = rem - rem /\ rem <= rem
    BY <1>1
  <2>6. Stream(k, 0)'
    BY <1>1, <2>1, <2>3, <2>4, <2>5, StreamRead
  <2>7. ~Fits(sent[k])
    <3>1. HeadLen(sent[k]) = HeaderLen
      BY <2>3 DEF HeadLen, HeaderLen, RL
    <3> QED
      BY <1>0, <2>3, <2>4, <3>1, TooLong
  <2>8. Frame(k)'
    BY <1>0, <1>1, <2>1, <2>2, <2>6, <2>7, FrameSkipped
  <2> QED
    BY <2>8
<1> QED
  BY <1>5, <1>6 DEF FrameInv

LEMMA FrameBody ==
    ASSUME TypeInv, FrameInv, ReadBody
    PROVE  FrameInv'
<1>0. /\ phase = "body" /\ phase \in Reading /\ phase # "idle" /\ phase # "down"
      /\ (rem = 0 \/ HeaderLen + rem <= ReadBufSize)
  BY DEF ReadBody, Reading
<1>1. /\ wire \in Seq(Byte) /\ Len(wire) \in Nat /\ sent \in Seq(Sendable) /\ ReadBufSize \in Nat
      /\ Len(sent) \in Nat /\ up \in BOOLEAN /\ rem \in Nat /\ StallInv /\ ReadBufSize >= 2
  BY <1>0, StreamTypes, ReceiveSizes DEF FrameInv
<1>2. PICK c : /\ NetRead(rem, HeaderLen, c)
               /\ IF rem > 0 /\ c = 0 THEN PacketDone ELSE phase' = "packet" /\ UNCHANGED <<rem, cnt>>
  BY DEF ReadBody
<1>3. ASSUME ~torn
      PROVE  \E k : k \in 1 .. Len(sent) /\ Handed(delivered, sent, k - 1) /\ InBody(k)
  <2>1. PICK k : Frame(k)
    BY <1>3 DEF FrameInv
  <2>2. k \in 0 .. Len(sent) /\ Inside(k)
    BY <1>0, <2>1 DEF Frame
  <2>3. k >= 1 /\ Handed(delivered, sent, k - 1) /\ InBody(k)
    BY <1>0, <2>2 DEF Inside
  <2>4. k \in 1 .. Len(sent)
    BY <1>1, <2>2, <2>3
  <2> QED
    BY <2>3, <2>4
<1>4. up /\ ~torn => rem <= Len(wire)
  <2> SUFFICES ASSUME up, ~torn PROVE rem <= Len(wire)
    OBVIOUS
  <2>1. PICK k : k \in 1 .. Len(sent) /\ InBody(k)
    BY <1>3
  <2>2. k \in 0 .. Len(sent) /\ Ahead(k, rem, wire, sent)
    BY <1>1, <2>1 DEF InBody, Stream
  <2> QED
    BY <1>1, <2>2, AheadFits
<1>5. phase' \in {"idle", "packet"} /\ (c = 0 /\ rem # 0 => phase' = "idle")
  BY <1>1, <1>2 DEF PacketDone
<1>6. HeaderLen \in Nat /\ HeaderLen >= 2
  <2>1. Len(RL(rem)) \in Nat /\ Len(RL(rem)) >= 1
    BY <1>1, RemLenSize
  <2>2. HeaderLen = 1 + Len(RL(rem))
    BY DEF HeaderLen, RL
  <2> QED
    BY <2>1, <2>2
<1>7. StallInv'
  <2>1. phase' # "down"
    BY <1>5
  <2> QED
    BY <1>0, <1>1, <1>2, <1>4, <1>5, <1>6, <2>1, StallRead
<1>8. ASSUME ~torn' PROVE \E k : Frame(k)'
  <2>1. /\ ~torn /\ c = rem /\ wire' = SubSeq(wire, rem + 1, Len(wire)) /\ UNCHANGED <<up, sent, delivered>>
        /\ rem <= Len(wire)
    BY <1>1, <1>2, <1>6, <1>8, SureRead
  <2>2. /\ \A i \in 1 .. ReadBufSize : i \in HeaderLen + 1 .. HeaderLen + rem => buf'[i] = wire[i - HeaderLen]
        /\ \A i \in 1 .. ReadBufSize : i \notin HeaderLen + 1 .. HeaderLen + rem => buf'[i] = buf[i]
    BY <1>1, <1>2, <1>6, <1>8, SureRead
  <2>3. PICK k : k \in 1 .. Len(sent) /\ Handed(delivered, sent, k - 1) /\ InBody(k)
    BY <1>3, <2>1
  <2>4. PICK p : p = sent[k]
    OBVIOUS
  <2>5. rem = RemLen(p) /\ Stream(k, rem) /\ buf[1] = Head1(p)
    BY <2>3, <2>4 DEF InBody
  <2>6. k \in 0 .. Len(sent) /\ p \in Sendable /\ k >= 1
    BY <1>1, <2>3, <2>4
  <2>7. 0 = rem - rem /\ rem <= rem
    BY <1>1
  <2>8. Stream(k, 0)'
    BY <1>1, <2>1, <2>5, <2>6, <2>7, StreamRead
  <2>9. PICK h : h = HeadLen(p)
    OBVIOUS
  <2>10. HeaderLen = h
    BY <2>5, <2>9 DEF HeadLen, HeaderLen, RL
  <2>11. phase' = "packet" /\ rem' = rem
    BY <1>1, <1>2, <2>1
  <2>12. buf'[1] = Head1(p)
    <3>1. 1 \in 1 .. ReadBufSize /\ 1 \notin HeaderLen + 1 .. HeaderLen + rem
      BY <1>1, <1>6
    <3> QED
      BY <2>2, <2>5, <3>1
  <2>13. rem = 0 \/ h + rem <= ReadBufSize
    BY <1>0, <2>10
  <2>14. \A j \in 1 .. rem : buf'[h + j] = Bytes(p)[h + j]
    <3> SUFFICES ASSUME NEW j \in 1 .. rem PROVE buf'[h + j] = Bytes(p)[h + j]
      OBVIOUS
    <3>1. rem > 0
      BY <1>1
    <3>2. ~(up = FALSE)
      <4> SUFFICES ASSUME ~up PROVE FALSE
        OBVIOUS
      <4>1. wire = <<>>
        BY <1>0, <1>1 DEF StallInv
      <4>2. Len(wire) = 0
        BY <4>1
      <4> QED
        BY <1>1, <2>1, <3>1, <4>2
    <3>3. Ahead(k, rem, wire, sent)
      BY <1>1, <2>5, <3>2 DEF Stream
    <3>4. wire[j] = Bytes(p)[Len(Bytes(p)) - rem + j]
      <4>1. wire[j] = Bytes(sent[k])[Len(Bytes(sent[k])) - rem + j]
        BY <1>1, <2>6, <3>3, AheadByte
      <4> QED
        BY <2>4, <4>1, Zenon
    <3>5. Len(Bytes(p)) = h + rem /\ h \in Nat
      <4>1. Len(Bytes(p)) = HeadLen(p) + RemLen(p) /\ HeadLen(p) \in Nat
        BY <2>6, FrameFacts
      <4> QED
        BY <2>5, <2>9, <4>1
    <3>6. Len(Bytes(p)) - rem + j = h + j
      BY <1>1, <3>5
    <3>7. h + j \in 1 .. ReadBufSize /\ h + j \in h + 1 .. h + rem /\ h + j - h = j
      BY <1>1, <2>13, <3>1, <3>5
    <3>8. buf'[h + j] = wire[j]
      <4>1. \A i \in 1 .. ReadBufSize : i \in h + 1 .. h + rem => buf'[i] = wire[i - h]
        BY <2>2, <2>10
      <4>2. PICK i : i = h + j
        OBVIOUS
      <4>3. i \in 1 .. ReadBufSize /\ i \in h + 1 .. h + rem /\ i - h = j
        BY <3>5, <3>7, <4>2
      <4> QED
        BY <4>1, <4>2, <4>3, Zenon
    <3> QED
      BY <3>4, <3>6, <3>8
  <2>15. sent'[k] = p
    BY <2>1, <2>4
  <2>16. Whole(k)'
    BY <2>5, <2>8, <2>9, <2>11, <2>12, <2>13, <2>14, <2>15 DEF Whole
  <2>17. Inside(k)'
    BY <2>1, <2>3, <2>6, <2>11, <2>16 DEF Inside
  <2>18. Frame(k)'
    BY <2>1, <2>6, <2>11, <2>17 DEF Frame, Reading
  <2> QED
    BY <2>18
<1> QED
  BY <1>7, <1>8 DEF FrameInv

\* A packet in read_buf.
LEMMA WholePacket ==
    ASSUME TypeInv, FrameInv, phase = "packet", ~torn
    PROVE  \E k \in 1 .. Len(sent) :
             /\ Handed(delivered, sent, k - 1) /\ Stream(k, 0) /\ sent[k] \in Sendable
             /\ IF sent[k] = Ping THEN buf[1] \div 16 # PUBLISH
                ELSE /\ buf[1] \div 16 = PUBLISH /\ Fits(sent[k])
                     /\ Decodable(buf, HeaderLen, rem)
                     /\ deserialize_publish_packet(buf, HeaderLen, rem) = sent[k]
<1>1. PICK k : Frame(k)
  BY DEF FrameInv
<1>2. k \in 0 .. Len(sent) /\ Inside(k)
  BY <1>1 DEF Frame, Reading
<1>3. k >= 1 /\ Handed(delivered, sent, k - 1) /\ Whole(k)
  BY <1>2 DEF Inside
<1>4. k \in 1 .. Len(sent) /\ sent[k] \in Sendable
  BY <1>2, <1>3, StreamTypes
<1>5. PICK p : p = sent[k]
  OBVIOUS
<1>6. /\ rem = RemLen(p) /\ buf[1] = Head1(p) /\ Stream(k, 0)
      /\ (rem = 0 \/ HeadLen(p) + rem <= ReadBufSize)
  BY <1>3, <1>5 DEF Whole
<1>7. \A j \in 1 .. rem : buf[HeadLen(p) + j] = Bytes(p)[HeadLen(p) + j]
  BY <1>3, <1>5 DEF Whole
<1>8. HeaderLen = HeadLen(p)
  BY <1>6 DEF HeadLen, HeaderLen, RL
<1>9. CASE p = Ping
  <2>1. buf[1] = PingHead
    BY <1>6, <1>9 DEF Head1
  <2>2. buf[1] \div 16 # PUBLISH
    BY <2>1, PingBytes DEF PINGRESP, PUBLISH
  <2> QED
    BY <1>3, <1>4, <1>5, <1>6, <1>9, <2>2
<1>10. CASE p # Ping
  <2>1. IsPublish(p, Byte)
    BY <1>4, <1>5, <1>10, PacketFacts DEF Sendable
  <2>2. buf[1] = HeadByte(p) /\ rem = _get_publish_packet_len(p) /\ Bytes(p) = _serialize_publish_packet(p)
    BY <1>6, <1>10 DEF Head1, RemLen, Bytes
  <2>3. HeadByte(p) \div 16 = PUBLISH
    <3>1. p.qos \in 0 .. 2 /\ p.dup \in 0 .. 1
      BY <2>1 DEF IsPublish
    <3> QED
      BY <3>1, HeadFacts
  <2>4. rem \in Nat /\ rem >= 2
    <3>1. /\ Len(p.topic) \in Nat /\ Len(p.payload) \in Nat
          /\ rem = 2 + Len(p.topic) + Len(IdBytes(p)) + Len(p.payload)
      BY <2>1, <2>2, LengthFacts
    <3>2. Len(IdBytes(p)) \in Nat
      BY <2>1, IdFacts
    <3> DEFINE x == Len(p.topic)
               y == Len(IdBytes(p))
               z == Len(p.payload)
    <3>3. x \in Nat /\ y \in Nat /\ z \in Nat /\ rem = 2 + x + y + z
      BY <3>1, <3>2
    <3> HIDE DEF x, y, z
    <3> QED
      BY <3>3
  <2>5. HeadLen(p) + rem <= ReadBufSize
    BY <1>6, <2>4
  <2>6. HeadLen(p) = 1 + Len(RL(rem))
    BY <1>6 DEF HeadLen
  <2>7. buf \in Seq(Byte) /\ Len(buf) = ReadBufSize
    BY StreamTypes, ReceiveSizes, EmptyIsSeq
  <2>8. \A j \in 1 .. rem : buf[HeadLen(p) + j] = _serialize_publish_packet(p)[HeadLen(p) + j]
    BY <1>7, <2>2
  <2>9. Decodable(buf, HeadLen(p), rem) /\ deserialize_publish_packet(buf, HeadLen(p), rem) = p
    BY <2>1, <2>2, <2>5, <2>6, <2>7, <2>8, Decodes
  <2>10. Fits(p)
    <3>1. Len(Bytes(p)) = HeadLen(p) + RemLen(p)
      BY <1>4, <1>5, FrameFacts
    <3> QED
      BY <1>6, <1>10, <2>2, <2>5, <3>1 DEF Fits
  <2> QED
    BY <1>3, <1>4, <1>5, <1>6, <1>8, <1>10, <2>2, <2>3, <2>9, <2>10
<1> QED
  BY <1>9, <1>10

LEMMA FrameOther ==
    ASSUME TypeInv, FrameInv, HandleOther
    PROVE  FrameInv'
<1>0. /\ phase = "packet" /\ phase' = "idle" /\ UNCHANGED <<up, wire, sent, delivered, torn, stalls>>
      /\ (buf[1] \div 16 = PUBLISH => ~Decodable(buf, HeaderLen, rem))
  BY DEF HandleOther, PacketDone, broker, faults
<1>1. StallInv'
  BY <1>0 DEF FrameInv, StallInv
<1>2. ASSUME ~torn' PROVE \E k : Frame(k)'
  <2>1. PICK k \in 1 .. Len(sent) :
             /\ Handed(delivered, sent, k - 1) /\ Stream(k, 0) /\ sent[k] \in Sendable
             /\ IF sent[k] = Ping THEN buf[1] \div 16 # PUBLISH
                ELSE /\ buf[1] \div 16 = PUBLISH /\ Fits(sent[k])
                     /\ Decodable(buf, HeaderLen, rem)
                     /\ deserialize_publish_packet(buf, HeaderLen, rem) = sent[k]
    BY <1>0, <1>2, WholePacket
  <2>2. sent[k] = Ping
    BY <1>0, <2>1
  <2>3. ~Fits(sent[k])
    BY <2>2 DEF Fits
  <2>4. Stream(k, 0)'
    BY <1>0, <2>1 DEF Stream
  <2>5. Frame(k)'
    BY <1>0, <2>1, <2>3, <2>4, FrameSkipped, StreamTypes
  <2> QED
    BY <2>5
<1> QED
  BY <1>1, <1>2 DEF FrameInv

\* What a handler is given is what the broker sent.
LEMMA DeliverStep ==
    ASSUME TypeInv, FrameInv, _deliver_message, ~torn
    PROVE  \E k \in 1 .. Len(sent) :
             /\ Handed(delivered, sent, k - 1) /\ Stream(k, 0) /\ sent[k] \in Packet
             /\ Fits(sent[k]) /\ msg' = Given(sent[k])
<1>0. /\ phase = "packet" /\ buf[1] \div 16 = PUBLISH /\ Decodable(buf, HeaderLen, rem)
      /\ msg' = Given(deserialize_publish_packet(buf, HeaderLen, rem))
  BY DEF _deliver_message, Given
<1>1. PICK k \in 1 .. Len(sent) :
           /\ Handed(delivered, sent, k - 1) /\ Stream(k, 0) /\ sent[k] \in Sendable
           /\ IF sent[k] = Ping THEN buf[1] \div 16 # PUBLISH
              ELSE /\ buf[1] \div 16 = PUBLISH /\ Fits(sent[k])
                   /\ Decodable(buf, HeaderLen, rem)
                   /\ deserialize_publish_packet(buf, HeaderLen, rem) = sent[k]
  BY <1>0, WholePacket
<1>2. sent[k] # Ping
  BY <1>0, <1>1
<1> QED
  BY <1>0, <1>1, <1>2 DEF Sendable

LEMMA FrameDeliver ==
    ASSUME TypeInv, CountInv, FrameInv, _deliver_message
    PROVE  FrameInv'
<1>0. /\ phase = "packet" /\ phase' = "handler" /\ UNCHANGED <<up, wire, sent, torn, stalls>>
      /\ delivered' = Append(delivered, msg')
  BY DEF _deliver_message, broker, faults
<1>1. StallInv'
  BY <1>0 DEF FrameInv, StallInv
<1>2. ASSUME ~torn' PROVE \E k : Frame(k)'
  <2>1. PICK k \in 1 .. Len(sent) :
             /\ Handed(delivered, sent, k - 1) /\ Stream(k, 0) /\ sent[k] \in Packet
             /\ Fits(sent[k]) /\ msg' = Given(sent[k])
    BY <1>0, <1>2, DeliverStep
  <2>2. k \in Nat /\ k >= 1 /\ k \in 0 .. Len(sent)
    BY <2>1, StreamTypes
  <2>3. IsSeq(delivered)
    BY DEF CountInv
  <2>4. Handed(Append(delivered, Given(sent[k])), sent, k)
    BY <2>1, <2>2, <2>3, HandedTake
  <2>5. Between(k)'
    BY <1>0, <2>1, <2>4 DEF Between, Stream
  <2>6. Frame(k)'
    BY <1>0, <2>2, <2>5 DEF Frame, Reading
  <2> QED
    BY <2>6
<1> QED
  BY <1>1, <1>2 DEF FrameInv

LEMMA FrameNext == TypeInv /\ CountInv /\ FrameInv /\ [Next]_vars => FrameInv'
<1> SUFFICES ASSUME TypeInv, CountInv, FrameInv, [Next]_vars PROVE FrameInv'
  OBVIOUS
<1>1. CASE Network
  BY <1>1, FrameNetwork
<1>2. CASE cycle_for_read
  <2>1. CASE AppHandler
    <3>1. /\ UNCHANGED <<up, wire, sent, delivered, torn, stalls>>
          /\ phase = "handler" /\ phase' \in {"idle", "ack"}
      BY <2>1 DEF AppHandler, HandlerReturns, broker, faults
    <3> QED
      BY <3>1, FrameQuiet DEF Reading
  <2>2. CASE SendAck
    <3>1. /\ UNCHANGED <<up, wire, sent, delivered, torn, stalls>>
          /\ phase = "ack" /\ phase' = "idle"
      BY <2>2 DEF SendAck, faults
    <3> QED
      BY <3>1, FrameQuiet DEF Reading
  <2> QED
    BY <1>2, <2>1, <2>2, FrameHeader, FrameDigits, FrameDiscard, FrameUnfit, FrameBody, FrameOther,
       FrameDeliver DEF cycle_for_read
<1>3. CASE Reconnect
  BY <1>3, FrameReconnect
<1>4. CASE _dsc_mqtt_register_callback
  <2>1. UNCHANGED <<up, wire, sent, delivered, torn, stalls, phase>> /\ phase = "idle"
    BY <1>4 DEF _dsc_mqtt_register_callback, broker, faults
  <2> QED
    BY <2>1, FrameQuiet DEF Reading
<1>5. ASSUME NEW t, NEW r, ReportEx(t, r) PROVE FrameInv'
  <2>1. /\ UNCHANGED <<wire, sent, delivered, torn, stalls>> /\ phase = "idle"
        /\ (UNCHANGED <<phase, up>> \/ (phase' = "down" /\ up' = FALSE))
    BY <1>5 DEF ReportEx, broker, faults
  <2>2. CASE UNCHANGED <<phase, up>>
    BY <2>1, <2>2, FrameQuiet DEF Reading
  <2>3. CASE phase' = "down" /\ up' = FALSE
    BY <2>1, <2>3, FrameDown
  <2> QED
    BY <2>1, <2>2, <2>3
<1>6. CASE Incomplete \/ Callback \/ Reply
  <2>1. /\ UNCHANGED <<up, wire, sent, delivered, torn, stalls>>
        /\ phase \in {"handler", "reply"} /\ phase' \in {"idle", "ack", "reply"}
    BY <1>6 DEF Incomplete, Callback, Reply, HandlerReturns, broker, faults
  <2> QED
    BY <2>1, FrameQuiet DEF Reading
<1>7. CASE IOT_DM_Destroy
  <2>1. /\ UNCHANGED <<wire, sent, delivered, torn, stalls>> /\ phase = "idle"
        /\ phase' = "down" /\ up' = FALSE
    BY <1>7 DEF IOT_DM_Destroy, broker, faults
  <2> QED
    BY <2>1, FrameDown
<1>8. CASE UNCHANGED vars
  <2>1. UNCHANGED <<up, wire, sent, delivered, torn, stalls, phase, buf, rem, cnt>>
    BY <1>8 DEF vars, rvars
  <2>2. StallInv'
    BY <2>1 DEF FrameInv, StallInv
  <2>3. ASSUME NEW k, Frame(k) PROVE Frame(k)'
    BY <2>1, <2>3 DEF Frame, Inside, Between, InRemLen, InDiscard, InBody, Whole, Stream, Digits
  <2>4. ASSUME ~torn' PROVE \E k : Frame(k)'
    <3>1. PICK k : Frame(k)
      BY <2>1, <2>4 DEF FrameInv
    <3> QED
      BY <2>3, <3>1
  <2> QED
    BY <2>2, <2>4 DEF FrameInv
<1> QED
  BY <1>1, <1>2, <1>3, <1>4, <1>5, <1>6, <1>7, <1>8 DEF Next

LEMMA FrameHolds == Spec => []FrameInv
<1>1. Init => FrameInv
  <2> SUFFICES ASSUME Init PROVE FrameInv
    OBVIOUS
  <2>1. up = TRUE /\ wire = <<>> /\ sent = <<>> /\ delivered = <<>> /\ phase = "idle" /\ torn = FALSE
    BY DEF Init, ReceiveInit
  <2>2. Between(0)
    BY <2>1, HandedNone, NothingAhead DEF Between, Stream
  <2>3. Frame(0)
    BY <2>1, <2>2 DEF Frame, Reading
  <2>4. StallInv
    BY <2>1 DEF StallInv
  <2> QED
    BY <2>3, <2>4 DEF FrameInv
<1> QED
  BY <1>1, FrameNext, TypeHolds, CountHolds, PTL DEF Spec

\* Whatever the sizes of the packets and the buffer, and however the stream is
\* cut into reads: as long as no read timed out inside a packet, the handlers
\* got the messages of the connection that fit read_buf, each once, in the order
\* the broker sent them, and as it sent them.
THEOREM DeliveredInOrderHolds == Spec => []DeliveredInOrder
<1>1. FrameInv => DeliveredInOrder
  <2> SUFFICES ASSUME FrameInv, ~torn
               PROVE  \E k \in 0 .. Len(sent) : \E f \in [DOMAIN delivered -> 1 .. k] :
                        /\ {f[i] : i \in DOMAIN delivered} = {j \in 1 .. k : Fits(sent[j])}
                        /\ \A i, j \in DOMAIN delivered : i < j => f[i] < f[j]
                        /\ \A i \in DOMAIN delivered :
                            delivered[i] = [sent[f[i]] EXCEPT !.topic = FixTopic(@)]
    BY DEF DeliveredInOrder
  <2>1. PICK k : Frame(k)
    BY DEF FrameInv
  <2>2. \E c \in 0 .. Len(sent) : Handed(delivered, sent, c)
    <3>1. CASE Inside(k)
      <4>1. k >= 1 /\ Handed(delivered, sent, k - 1) /\ k \in 0 .. Len(sent)
        BY <2>1, <3>1 DEF Inside, Frame
      <4>2. k - 1 \in 0 .. Len(sent)
        BY <4>1
      <4> QED
        BY <4>1, <4>2
    <3>2. CASE Between(k)
      BY <2>1, <3>2 DEF Between, Frame
    <3> QED
      BY <2>1, <3>1, <3>2 DEF Frame
  <2>3. PICK c \in 0 .. Len(sent) : Handed(delivered, sent, c)
    BY <2>2
  <2>4. PICK f : Hands(f, delivered, sent, c)
    BY <2>3 DEF Handed
  <2>5. f \in [DOMAIN delivered -> 1 .. c]
    BY <2>4 DEF Hands
  <2>6. {f[i] : i \in DOMAIN delivered} = {j \in 1 .. c : Fits(sent[j])}
    <3>1. \A i \in DOMAIN delivered : f[i] \in 1 .. c /\ Fits(sent[f[i]])
      BY <2>4, <2>5 DEF Hands
    <3>2. \A j \in 1 .. c : Fits(sent[j]) => \E i \in DOMAIN delivered : f[i] = j
      BY <2>4 DEF Hands
    <3> QED
      BY <3>1, <3>2
  <2>7. \A i, j \in DOMAIN delivered : i < j => f[i] < f[j]
    BY <2>4 DEF Hands
  <2>8. \A i \in DOMAIN delivered : delivered[i] = [sent[f[i]] EXCEPT !.topic = FixTopic(@)]
    BY <2>4 DEF Hands, Given
  <2> QED
    BY <2>3, <2>5, <2>6, <2>7, <2>8
<1> QED
  BY <1>1, FrameHolds, PTL

-----------------------------------------------------------------------------
(* Matching topics *)

\* The next slash of a topic, or its end.
LEMMA NextLevelFacts ==
    ASSUME NEW n \in Seq(Byte), NEW j \in 1 .. Len(n)
    PROVE  /\ NextLevel(n, j) \in j + 1 .. Len(n) + 1
           /\ NextLevel(n, j) = Len(n) + 1 \/ n[NextLevel(n, j)] = Slash
           /\ \A l \in j + 1 .. NextLevel(n, j) - 1 : n[l] # Slash
<1> DEFINE T == {k \in j + 1 .. Len(n) + 1 : k = Len(n) + 1 \/ n[k] = Slash}
<1>1. Len(n) + 1 \in T /\ T \subseteq Nat
  OBVIOUS
<1>2. PICK k \in T : \A l \in T : k <= l
  BY <1>1, LeastNumber
<1>3. ASSUME NEW l \in j + 1 .. k - 1 PROVE n[l] # Slash
  BY <1>2
<1>4. \E x \in j + 1 .. Len(n) + 1 :
        /\ x = Len(n) + 1 \/ n[x] = Slash
        /\ \A l \in j + 1 .. x - 1 : n[l] # Slash
  BY <1>2, <1>3
<1> QED
  BY <1>4 DEF NextLevel

\* There is one.
LEMMA NextLevelIs ==
    ASSUME NEW n \in Seq(Byte), NEW j \in 1 .. Len(n), NEW k \in j + 1 .. Len(n) + 1,
           k = Len(n) + 1 \/ n[k] = Slash, \A l \in j + 1 .. k - 1 : n[l] # Slash
    PROVE  NextLevel(n, j) = k
<1> DEFINE x == NextLevel(n, j)
<1>1. /\ x \in j + 1 .. Len(n) + 1
      /\ x = Len(n) + 1 \/ n[x] = Slash
      /\ \A l \in j + 1 .. x - 1 : n[l] # Slash
  BY NextLevelFacts
<1> HIDE DEF x
<1>2. ~(x < k)
  <2> SUFFICES ASSUME x < k PROVE FALSE
    OBVIOUS
  <2>1. x \in j + 1 .. k - 1 /\ x # Len(n) + 1
    BY <1>1
  <2> QED
    BY <1>1, <2>1
<1>3. ~(k < x)
  <2> SUFFICES ASSUME k < x PROVE FALSE
    OBVIOUS
  <2>1. k \in j + 1 .. x - 1 /\ k # Len(n) + 1
    BY <1>1
  <2> QED
    BY <1>1, <2>1
<1>4. x = k
  BY <1>1, <1>2, <1>3
<1> QED
  BY <1>4 DEF x

LEMMA CellFacts ==
    ASSUME NEW f \in Seq(Byte), NEW n \in Seq(Byte), NEW i \in 1 .. Len(f) + 1,
           NEW j \in 1 .. Len(n) + 1, ~Stuck(f, n, i, j)
    PROVE  i <= Len(f) /\ j <= Len(n) /\ After(f, n, i, j) \in 1 .. Len(n) + 1
           /\ i + 1 \in 1 .. Len(f) + 1
<1>1. i <= Len(f) /\ j <= Len(n) /\ j \in 1 .. Len(n)
  BY DEF Stuck
<1>2. NextLevel(n, j) \in j + 1 .. Len(n) + 1
  BY <1>1, NextLevelFacts
<1>3. After(f, n, i, j) \in {j, j + 1, NextLevel(n, j), Len(n) + 1}
  BY DEF After
<1> QED
  BY <1>1, <1>2, <1>3

\* A table of l rows, each made from the next one.
IsTable(t, S, l, G) == t \in [1 .. l + 1 -> S] /\ \A i \in 1 .. l : t[i] = G[i][t[i + 1]]

LEMMA TableExists ==
    ASSUME NEW S, NEW b \in S, NEW l \in Nat, NEW G \in [1 .. l -> [S -> S]]
    PROVE  \E t : IsTable(t, S, l, G)
<1> DEFINE H == [k \in 1 .. l |-> G[l + 1 - k]]
<1>1. \A k \in 1 .. l : l + 1 - k \in 1 .. l
  OBVIOUS
<1>2. H \in [1 .. l -> [S -> S]] /\ \A k \in 1 .. l : H[k] = G[l + 1 - k]
  BY <1>1
<1> HIDE DEF H
<1>3. \A i \in 1 .. l : H[l + 1 - i] = G[i]
  <2>1. \A i \in 1 .. l : l + 1 - (l + 1 - i) = i
    OBVIOUS
  <2> QED
    BY <1>1, <1>2, <2>1
<1>4. \E F \in [0 .. l -> S] : F[0] = b /\ \A k \in 1 .. l : F[k] = H[k][F[k - 1]]
  BY <1>2, RecursionExists
<1>5. PICK F \in [0 .. l -> S] : F[0] = b /\ \A k \in 1 .. l : F[k] = H[k][F[k - 1]]
  BY <1>4
<1> DEFINE t == [i \in 1 .. l + 1 |-> F[l + 1 - i]]
<1>6. \A i \in 1 .. l + 1 : l + 1 - i \in 0 .. l
  OBVIOUS
<1>7. t \in [1 .. l + 1 -> S] /\ \A i \in 1 .. l + 1 : t[i] = F[l + 1 - i]
  BY <1>5, <1>6
<1> HIDE DEF t
<1>8. ASSUME NEW i \in 1 .. l PROVE t[i] = G[i][t[i + 1]]
  <2>1. i \in 1 .. l + 1 /\ i + 1 \in 1 .. l + 1 /\ l + 1 - (i + 1) = l + 1 - i - 1
    OBVIOUS
  <2>2. t[i] = F[l + 1 - i] /\ t[i + 1] = F[l + 1 - i - 1]
    BY <1>7, <2>1
  <2>3. F[l + 1 - i] = H[l + 1 - i][F[l + 1 - i - 1]]
    BY <1>1, <1>5
  <2> QED
    BY <1>3, <2>2, <2>3
<1> QED
  BY <1>7, <1>8 DEF IsTable

\* Where _is_topic_matched stops, from any place of the filter and the topic.
IsScan(w, f, n) ==
    /\ w \in [Cells(f, n) -> Cells(f, n)]
    /\ \A i \in 1 .. Len(f) + 1, j \in 1 .. Len(n) + 1 :
         w[<<i, j>>] = IF Stuck(f, n, i, j) THEN <<i, j>> ELSE w[<<i + 1, After(f, n, i, j)>>]

LEMMA ScanExists ==
    ASSUME NEW f \in Seq(Byte), NEW n \in Seq(Byte)
    PROVE  \E w : IsScan(w, f, n) /\ Scan(f, n) = w[<<1, 1>>]
<1> DEFINE C == Cells(f, n)
           m == Len(n) + 1
           l == Len(f) + 1
           S == [1 .. m -> C]
           Val(r, i, j) == IF Stuck(f, n, i, j) THEN <<i, j>> ELSE r[After(f, n, i, j)]
           G == [i \in 1 .. l |-> [r \in S |-> [j \in 1 .. m |-> Val(r, i, j)]]]
           b == [j \in 1 .. m |-> <<1, 1>>]
           Is(w) == w = [p \in C |-> IF Stuck(f, n, p[1], p[2]) THEN p
                                     ELSE w[<<p[1] + 1, After(f, n, p[1], p[2])>>]]
<1>1. m \in Nat /\ l \in Nat /\ l >= 1 /\ m >= 1
  OBVIOUS
<1>2. C = (1 .. l) \X (1 .. m)
  BY DEF Cells
<1>3. b \in S
  BY <1>1, <1>2
<1>4. ASSUME NEW i \in 1 .. l, NEW r \in S
      PROVE  [j \in 1 .. m |-> Val(r, i, j)] \in S
  <2>1. ASSUME NEW j \in 1 .. m PROVE Val(r, i, j) \in C
    <3>1. <<i, j>> \in C
      BY <1>2
    <3>2. ~Stuck(f, n, i, j) => After(f, n, i, j) \in 1 .. m
      BY CellFacts
    <3> QED
      BY <3>1, <3>2
  <2> HIDE DEF Val, C, m
  <2> QED
    BY <2>1
<1>5. G \in [1 .. l -> [S -> S]]
  BY <1>4
<1>6. PICK t \in [1 .. l + 1 -> S] : \A i \in 1 .. l : t[i] = G[i][t[i + 1]]
  <2> HIDE DEF S, m, l, G, b
  <2>0. l \in Nat /\ b \in S /\ G \in [1 .. l -> [S -> S]]
    BY <1>1, <1>3, <1>5
  <2>1. \E t : IsTable(t, S, l, G)
    BY <2>0, TableExists
  <2> QED
    BY <2>1 DEF IsTable
<1>7. ASSUME NEW i \in 1 .. l, NEW j \in 1 .. m
      PROVE  t[i][j] = Val(t[i + 1], i, j) /\ t[i][j] \in C
  <2>1. i + 1 \in 1 .. l + 1 /\ i \in 1 .. l + 1
    BY <1>1
  <2> HIDE DEF C, m, l, Val
  <2>2. t[i + 1] \in S /\ t[i] \in S
    BY <1>6, <2>1
  <2>3. G[i][t[i + 1]] = [x \in 1 .. m |-> Val(t[i + 1], i, x)]
    BY <2>2
  <2> QED
    BY <1>6, <2>2, <2>3
<1> DEFINE w == [p \in C |-> t[p[1]][p[2]]]
<1>8. \A i \in 1 .. l, j \in 1 .. m : <<i, j>> \in C /\ w[<<i, j>>] = t[i][j]
  BY <1>2
<1>9. w \in [C -> C]
  <2>1. \A p \in C : p[1] \in 1 .. l /\ p[2] \in 1 .. m
    BY <1>2
  <2> HIDE DEF C, m, l
  <2> QED
    BY <1>7, <2>1
<1> HIDE DEF w
<1>10. ASSUME NEW i \in 1 .. l, NEW j \in 1 .. m
       PROVE  w[<<i, j>>] = IF Stuck(f, n, i, j) THEN <<i, j>>
                            ELSE w[<<i + 1, After(f, n, i, j)>>]
  <2>1. CASE Stuck(f, n, i, j)
    BY <1>7, <1>8, <2>1
  <2>2. CASE ~Stuck(f, n, i, j)
    <3>1. i + 1 \in 1 .. l /\ After(f, n, i, j) \in 1 .. m
      BY <2>2, CellFacts
    <3>2. w[<<i + 1, After(f, n, i, j)>>] = t[i + 1][After(f, n, i, j)]
      BY <1>8, <3>1
    <3>3. w[<<i, j>>] = t[i + 1][After(f, n, i, j)]
      BY <1>7, <1>8, <2>2
    <3> QED
      BY <2>2, <3>2, <3>3
  <2> QED
    BY <2>1, <2>2
<1>11. Is(w)
  <2>1. ASSUME NEW p \in C
        PROVE  w[p] = IF Stuck(f, n, p[1], p[2]) THEN p
                      ELSE w[<<p[1] + 1, After(f, n, p[1], p[2])>>]
    <3>1. PICK i \in 1 .. l, j \in 1 .. m : p = <<i, j>>
      BY <1>2
    <3>2. p[1] = i /\ p[2] = j
      BY <3>1
    <3> QED
      BY <1>10, <3>1, <3>2, Zenon
  <2> HIDE DEF C
  <2> QED
    BY <1>9, <2>1
<1>12. Scan(f, n) = (CHOOSE v : Is(v))[<<1, 1>>]
  BY DEF Scan
<1>13. ASSUME NEW v, Is(v) PROVE v = w
  <2> DEFINE P(i) == \A j \in 1 .. m : v[<<i, j>>] = w[<<i, j>>]
             T == {k \in Nat : k < l => P(l - k)}
  <2>1. ASSUME NEW i \in 1 .. l, NEW j \in 1 .. m
        PROVE  v[<<i, j>>] = IF Stuck(f, n, i, j) THEN <<i, j>>
                             ELSE v[<<i + 1, After(f, n, i, j)>>]
    <3>1. <<i, j>> \in C /\ <<i, j>>[1] = i /\ <<i, j>>[2] = j
      BY <1>2
    <3> DEFINE p == <<i, j>>
    <3>2. p \in C /\ p[1] = i /\ p[2] = j
      BY <3>1
    <3> HIDE DEF p, C
    <3>3. v[p] = IF Stuck(f, n, p[1], p[2]) THEN p
                 ELSE v[<<p[1] + 1, After(f, n, p[1], p[2])>>]
      BY <1>13, <3>2
    <3> QED
      BY <3>2, <3>3 DEF p
  <2>2. ASSUME NEW i \in 1 .. l, i < l => P(i + 1)
        PROVE  P(i)
    <3> SUFFICES ASSUME NEW j \in 1 .. m PROVE v[<<i, j>>] = w[<<i, j>>]
      OBVIOUS
    <3>1. CASE Stuck(f, n, i, j)
      BY <1>10, <2>1, <3>1
    <3>2. CASE ~Stuck(f, n, i, j)
      <4>1. i < l /\ After(f, n, i, j) \in 1 .. m
        BY <3>2, CellFacts
      <4>2. v[<<i + 1, After(f, n, i, j)>>] = w[<<i + 1, After(f, n, i, j)>>]
        BY <2>2, <4>1
      <4> QED
        BY <1>10, <2>1, <3>2, <4>2
    <3> QED
      BY <3>1, <3>2
  <2> HIDE DEF P, l, m, C
  <2>3. 0 \in T
    <3>1. l \in 1 .. l /\ l - 0 = l /\ ~(l < l)
      BY <1>1
    <3> QED
      BY <2>2, <3>1
  <2>4. ASSUME NEW k \in Nat, k \in T PROVE k + 1 \in T
    <3> SUFFICES ASSUME k + 1 < l PROVE P(l - (k + 1))
      OBVIOUS
    <3> DEFINE i == l - (k + 1)
    <3>1. i \in 1 .. l /\ i + 1 = l - k /\ k < l
      BY <1>1
    <3> HIDE DEF i
    <3>2. P(i)
      BY <2>2, <2>4, <3>1
    <3> QED
      BY <3>2 DEF i
  <2> HIDE DEF T
  <2>5. \A k \in Nat : k \in T
    BY <2>3, <2>4, SetInduction
  <2>6. ASSUME NEW i \in 1 .. l PROVE P(i)
    <3>1. l - i \in Nat /\ l - i < l /\ l - (l - i) = i
      BY <1>1
    <3> QED
      BY <2>5, <3>1 DEF T
  <2>7. \A p \in C : v[p] = w[p]
    <3>1. ASSUME NEW p \in C PROVE \E i \in 1 .. l, j \in 1 .. m : p = <<i, j>>
      BY <1>2
    <3> QED
      BY <2>6, <3>1 DEF P
  <2>8. v = [p \in C |-> v[p]]
    <3> DEFINE E(p) == IF Stuck(f, n, p[1], p[2]) THEN p
                       ELSE v[<<p[1] + 1, After(f, n, p[1], p[2])>>]
    <3>1. v = [p \in C |-> E(p)]
      BY <1>13
    <3> HIDE DEF E
    <3> QED
      BY <3>1
  <2> QED
    BY <1>9, <2>7, <2>8
<1>14. Scan(f, n) = w[<<1, 1>>]
  <2> HIDE DEF Is
  <2> QED
    BY <1>11, <1>12, <1>13, Zenon
<1>15. IsScan(w, f, n)
  BY <1>9, <1>10 DEF IsScan
<1> QED
  BY <1>14, <1>15

\* Whether the rest of the filter, from f[i], matches the rest of the topic, from
\* n[j], given what does from f[i + 1].
MatchStep(M, f, n, i, j) ==
    IF i > Len(f) THEN j > Len(n)
    ELSE IF f[i] = Hash THEN TRUE
    ELSE IF f[i] = Plus THEN
         \E k \in j .. Len(n) + 1 : M[<<i + 1, k>>] /\ \A l \in j .. k - 1 : n[l] # Slash
    ELSE IF f[i] = Slash /\ i < Len(f) /\ f[i + 1] = Hash THEN j > Len(n) \/ n[j] = Slash
    ELSE j <= Len(n) /\ f[i] = n[j] /\ M[<<i + 1, j + 1>>]

IsMatch(M, f, n) ==
    \A i \in 1 .. Len(f) + 1, j \in 1 .. Len(n) + 1 : M[<<i, j>>] = MatchStep(M, f, n, i, j)

LEMMA MatchExists ==
    ASSUME NEW f \in Seq(Byte), NEW n \in Seq(Byte)
    PROVE  \E M : IsMatch(M, f, n) /\ Matches(f, n) = M[<<1, 1>>]
<1> DEFINE C == Cells(f, n)
           m == Len(n) + 1
           l == Len(f) + 1
           S == [1 .. m -> BOOLEAN]
           Val(r, i, j) ==
             IF i > Len(f) THEN j > Len(n)
             ELSE IF f[i] = Hash THEN TRUE
             ELSE IF f[i] = Plus THEN
                  \E k \in j .. Len(n) + 1 : r[k] /\ \A x \in j .. k - 1 : n[x] # Slash
             ELSE IF f[i] = Slash /\ i < Len(f) /\ f[i + 1] = Hash THEN j > Len(n) \/ n[j] = Slash
             ELSE j <= Len(n) /\ f[i] = n[j] /\ r[j + 1]
           G == [i \in 1 .. l |-> [r \in S |-> [j \in 1 .. m |-> Val(r, i, j)]]]
           b == [j \in 1 .. m |-> TRUE]
           Is(M) == M = [p \in C |-> MatchStep(M, f, n, p[1], p[2])]
<1>1. m \in Nat /\ l \in Nat /\ l >= 1 /\ m >= 1
  OBVIOUS
<1>2. C = (1 .. l) \X (1 .. m)
  BY DEF Cells
<1>3. b \in S
  BY <1>1
<1>4. ASSUME NEW i \in 1 .. l, NEW r \in S
      PROVE  [j \in 1 .. m |-> Val(r, i, j)] \in S
  <2>1. ASSUME NEW j \in 1 .. m PROVE Val(r, i, j) \in BOOLEAN
    <3> DEFINE A1 == j > Len(n)
               A2 == \E k \in j .. Len(n) + 1 : r[k] /\ \A x \in j .. k - 1 : n[x] # Slash
               A3 == j > Len(n) \/ n[j] = Slash
               A4 == j <= Len(n) /\ f[i] = n[j] /\ r[j + 1]
    <3>1. A1 \in BOOLEAN /\ A2 \in BOOLEAN /\ A3 \in BOOLEAN /\ A4 \in BOOLEAN
      OBVIOUS
    <3>2. Val(r, i, j) = IF i > Len(f) THEN A1
                         ELSE IF f[i] = Hash THEN TRUE
                         ELSE IF f[i] = Plus THEN A2
                         ELSE IF f[i] = Slash /\ i < Len(f) /\ f[i + 1] = Hash THEN A3
                         ELSE A4
      OBVIOUS
    <3> HIDE DEF A1, A2, A3, A4, Val
    <3> QED
      BY <3>1, <3>2
  <2> HIDE DEF Val, m
  <2> QED
    BY <2>1
<1>5. G \in [1 .. l -> [S -> S]]
  <2> HIDE DEF Val, S
  <2> QED
    BY <1>4
<1>6. PICK t \in [1 .. l + 1 -> S] : \A i \in 1 .. l : t[i] = G[i][t[i + 1]]
  <2> HIDE DEF S, m, l, G, b
  <2>0. l \in Nat /\ b \in S /\ G \in [1 .. l -> [S -> S]]
    BY <1>1, <1>3, <1>5
  <2>1. \E t : IsTable(t, S, l, G)
    BY <2>0, TableExists
  <2> QED
    BY <2>1 DEF IsTable
<1>7. ASSUME NEW i \in 1 .. l, NEW j \in 1 .. m
      PROVE  t[i][j] = Val(t[i + 1], i, j) /\ t[i][j] \in BOOLEAN
  <2>1. i + 1 \in 1 .. l + 1 /\ i \in 1 .. l + 1
    BY <1>1
  <2> HIDE DEF C, m, l, Val
  <2>2. t[i + 1] \in S /\ t[i] \in S
    BY <1>6, <2>1
  <2>3. G[i][t[i + 1]] = [x \in 1 .. m |-> Val(t[i + 1], i, x)]
    BY <2>2
  <2> QED
    BY <1>6, <2>2, <2>3
<1> DEFINE w == [p \in C |-> t[p[1]][p[2]]]
<1>8. \A i \in 1 .. l, j \in 1 .. m : <<i, j>> \in C /\ w[<<i, j>>] = t[i][j]
  BY <1>2
<1>9. w = [p \in C |-> w[p]]
  OBVIOUS
<1> HIDE DEF w
<1>10. ASSUME NEW i \in 1 .. l, NEW j \in 1 .. m
       PROVE  w[<<i, j>>] = MatchStep(w, f, n, i, j)
  <2>1. \A k \in j .. Len(n) + 1 : k \in 1 .. m
    OBVIOUS
  <2>2. j <= Len(n) => j + 1 \in 1 .. m
    OBVIOUS
  <2>3. ~(i > Len(f)) => i + 1 \in 1 .. l
    OBVIOUS
  <2>4. ~(i > Len(f)) => \A k \in 1 .. m : w[<<i + 1, k>>] = t[i + 1][k]
    BY <1>8, <2>3
  <2>5. MatchStep(w, f, n, i, j) = Val(t[i + 1], i, j)
    BY <2>1, <2>2, <2>4, Zenon DEF MatchStep
  <2> HIDE DEF Val
  <2> QED
    BY <1>7, <1>8, <2>5
<1>11. Is(w)
  <2>1. ASSUME NEW p \in C PROVE w[p] = MatchStep(w, f, n, p[1], p[2])
    <3>1. PICK i \in 1 .. l, j \in 1 .. m : p = <<i, j>>
      BY <1>2
    <3>2. p[1] = i /\ p[2] = j
      BY <3>1
    <3> QED
      BY <1>10, <3>1, <3>2, Zenon
  <2> HIDE DEF C
  <2> QED
    BY <1>9, <2>1
<1>12. Matches(f, n) = (CHOOSE v : Is(v))[<<1, 1>>]
  BY DEF Matches, MatchStep
<1>13. ASSUME NEW v, Is(v) PROVE IsMatch(v, f, n)
  <2> SUFFICES ASSUME NEW i \in 1 .. l, NEW j \in 1 .. m
               PROVE  v[<<i, j>>] = MatchStep(v, f, n, i, j)
    BY DEF IsMatch
  <2> DEFINE p == <<i, j>>
  <2>1. p \in C /\ p[1] = i /\ p[2] = j
    BY <1>2
  <2> HIDE DEF p, C
  <2>2. v[p] = MatchStep(v, f, n, p[1], p[2])
    BY <1>13, <2>1
  <2> QED
    BY <2>1, <2>2 DEF p
<1> HIDE DEF Is
<1>14. Is(CHOOSE v : Is(v))
  BY <1>11
<1> QED
  BY <1>12, <1>13, <1>14

\* A place of the filter and the topic the matching comes to: at the beginning of
\* a level of the filter, it is at that of one of the topic.
Begin(f, n, i, j) ==
    /\ i = 1 => j = 1
    /\ i > 1 /\ f[i - 1] = Slash => j > 1 /\ n[j - 1] = Slash

\* _is_topic_matched takes the end of the loop at p for a match.
Accepted(f, n, p) ==
    IF p[1] > Len(f) THEN p[2] > Len(n)
    ELSE \/ f[p[1]] = Hash
         \/ p[1] < Len(f) /\ f[p[1] + 1] = Hash
         \/ f[p[1]] = Plus /\ p[2] > 1 /\ n[p[2] - 1] = Slash

\* What the rule lets match from f[i] on, the loop takes for a match.
Misses(M, w, f, n, i) ==
    \E j \in 1 .. Len(n) + 1 :
        M[<<i, j>>] /\ Begin(f, n, i, j) /\ ~Accepted(f, n, w[<<i, j>>])

LEMMA MatchAccepted ==
    ASSUME NEW f, IsFilter(f), NEW n \in Seq(Byte), Len(n) > 0, NEW M, IsMatch(M, f, n),
           NEW w, IsScan(w, f, n), NEW i \in 1 .. Len(f) + 1,
           i <= Len(f) => ~Misses(M, w, f, n, i + 1)
    PROVE  ~Misses(M, w, f, n, i)
<1> SUFFICES ASSUME NEW j \in 1 .. Len(n) + 1, M[<<i, j>>], Begin(f, n, i, j)
             PROVE  Accepted(f, n, w[<<i, j>>])
  BY DEF Misses
<1>1. f \in Seq(Byte) /\ Len(f) \in Nat /\ Len(n) \in Nat /\ i \in Int /\ j \in Int
  BY DEF IsFilter
<1>2. MatchStep(M, f, n, i, j)
  BY DEF IsMatch
<1>3. Stuck(f, n, i, j) => w[<<i, j>>] = <<i, j>>
  BY DEF IsScan
<1>4. ~Stuck(f, n, i, j) => w[<<i, j>>] = w[<<i + 1, After(f, n, i, j)>>]
  BY DEF IsScan
<1>5. ASSUME ~Stuck(f, n, i, j), i <= Len(f), NEW k \in 1 .. Len(n) + 1,
             After(f, n, i, j) = k, M[<<i + 1, k>>], Begin(f, n, i + 1, k)
      PROVE  Accepted(f, n, w[<<i, j>>])
  BY <1>4, <1>5 DEF Misses
<1>6. i \in 1 .. Len(f) /\ f[i] \in {Plus, Hash} =>
        /\ i = 1 \/ f[i - 1] = Slash
        /\ i = Len(f) \/ (f[i] = Plus /\ f[i + 1] = Slash)
  BY DEF IsFilter
<1>7. Accepted(f, n, <<i, j>>) <=>
        IF i > Len(f) THEN j > Len(n)
        ELSE \/ f[i] = Hash
             \/ i < Len(f) /\ f[i + 1] = Hash
             \/ f[i] = Plus /\ j > 1 /\ n[j - 1] = Slash
  BY DEF Accepted
<1>8. CASE i > Len(f)
  <2>1. Stuck(f, n, i, j) /\ j > Len(n)
    BY <1>2, <1>8 DEF MatchStep, Stuck
  <2> QED
    BY <1>3, <1>7, <1>8, <2>1
<1>9. CASE i <= Len(f) /\ f[i] = Hash
  <2>1. i = Len(f) /\ ~(i > Len(f))
    BY <1>1, <1>6, <1>9 DEF Plus, Hash
  <2>2. CASE Stuck(f, n, i, j)
    BY <1>3, <1>7, <1>9, <2>1, <2>2
  <2>3. CASE ~Stuck(f, n, i, j)
    <3>1. After(f, n, i, j) = Len(n) + 1
      BY <1>9 DEF After, Plus, Hash
    <3>2. i + 1 \in 1 .. Len(f) + 1 /\ Len(n) + 1 \in 1 .. Len(n) + 1 /\ i + 1 > Len(f)
      BY <1>1, <2>1
    <3>3. Stuck(f, n, i + 1, Len(n) + 1)
      BY <3>2 DEF Stuck
    <3>4. w[<<i + 1, Len(n) + 1>>] = <<i + 1, Len(n) + 1>>
      BY <3>2, <3>3 DEF IsScan
    <3>5. Len(n) + 1 > Len(n)
      BY <1>1
    <3>6. Accepted(f, n, <<i + 1, Len(n) + 1>>)
      BY <3>2, <3>5 DEF Accepted
    <3> QED
      BY <1>4, <2>3, <3>1, <3>4, <3>6
  <2> QED
    BY <2>2, <2>3
<1>10. CASE i <= Len(f) /\ f[i] = Plus
  <2>1. /\ i \in 1 .. Len(f) /\ ~(i > Len(f)) /\ f[i] # Hash /\ f[i] # Slash
        /\ i = 1 \/ f[i - 1] = Slash
        /\ i = Len(f) \/ f[i + 1] = Slash
    BY <1>1, <1>6, <1>10 DEF Plus, Hash, Slash
  <2>2. PICK k \in j .. Len(n) + 1 : M[<<i + 1, k>>] /\ \A l \in j .. k - 1 : n[l] # Slash
    BY <1>2, <1>10, <2>1 DEF MatchStep
  <2>3. k \in 1 .. Len(n) + 1 /\ i + 1 \in 1 .. Len(f) + 1 /\ k \in Int
    BY <1>1, <2>1
  <2>4. MatchStep(M, f, n, i + 1, k)
    BY <2>2, <2>3 DEF IsMatch
  <2>5. k = Len(n) + 1 \/ n[k] = Slash
    <3>1. CASE i = Len(f)
      <4>1. i + 1 > Len(f)
        BY <1>1, <3>1
      <4>2. k > Len(n)
        BY <2>4, <4>1 DEF MatchStep
      <4> QED
        BY <1>1, <2>3, <4>2
    <3>2. CASE i < Len(f)
      <4>1. ~(i + 1 > Len(f)) /\ f[i + 1] = Slash
        BY <1>1, <2>1, <3>2
      <4>2. f[i + 1] # Hash /\ f[i + 1] # Plus
        BY <4>1 DEF Slash, Hash, Plus
      <4>3. k > Len(n) \/ n[k] = Slash
        BY <2>4, <4>1, <4>2 DEF MatchStep
      <4> QED
        BY <1>1, <2>3, <4>3
    <3> QED
      BY <2>1, <3>1, <3>2
  <2>6. Begin(f, n, i + 1, k)
    <3>1. i + 1 # 1 /\ i + 1 - 1 = i
      BY <1>1, <2>1
    <3> QED
      BY <2>1, <3>1 DEF Begin
  <2>7. CASE j > Len(n)
    <3>1. Stuck(f, n, i, j)
      BY <2>7 DEF Stuck
    <3>2. i # 1
      BY <1>1, <2>7 DEF Begin
    <3>3. i > 1 /\ f[i - 1] = Slash
      BY <1>1, <2>1, <3>2
    <3>4. j > 1 /\ n[j - 1] = Slash
      BY <3>3 DEF Begin
    <3> QED
      BY <1>3, <1>7, <1>10, <2>1, <3>1, <3>4
  <2>8. CASE j <= Len(n) /\ n[j] = Slash
    <3>1. k = j
      BY <1>1, <2>2, <2>3, <2>8
    <3>2. ~Stuck(f, n, i, j) /\ After(f, n, i, j) = j
      BY <1>1, <1>10, <2>1, <2>8 DEF Stuck, After
    <3>3. After(f, n, i, j) = k /\ k \in 1 .. Len(n) + 1 /\ i <= Len(f)
      BY <1>10, <2>3, <3>1, <3>2
    <3> QED
      BY <1>5, <2>2, <2>6, <3>2, <3>3, Zenon
  <2>9. CASE j <= Len(n) /\ n[j] # Slash
    <3>1. k # j
      BY <1>1, <2>5, <2>9
    <3>2. j \in 1 .. Len(n) /\ k \in j + 1 .. Len(n) + 1 /\ \A l \in j + 1 .. k - 1 : l \in j .. k - 1
      BY <1>1, <2>9, <3>1
    <3>3. NextLevel(n, j) = k
      BY <2>2, <2>5, <3>2, NextLevelIs
    <3>4. ~Stuck(f, n, i, j) /\ After(f, n, i, j) = k
      BY <1>1, <1>10, <2>1, <2>9, <3>3 DEF Stuck, After
    <3>5. k \in 1 .. Len(n) + 1 /\ i <= Len(f)
      BY <1>10, <2>3
    <3> QED
      BY <1>5, <2>2, <2>6, <3>4, <3>5, Zenon
  <2> QED
    BY <1>1, <2>7, <2>8, <2>9
<1>11. CASE i <= Len(f) /\ f[i] \notin {Plus, Hash}
  <2>1. ~(i > Len(f)) /\ f[i] # Hash /\ f[i] # Plus /\ i + 1 \in 1 .. Len(f) + 1
    BY <1>1, <1>11
  <2>2. ASSUME j <= Len(n), f[i] = n[j], M[<<i + 1, j + 1>>]
        PROVE  Accepted(f, n, w[<<i, j>>])
    <3>1. j + 1 \in 1 .. Len(n) + 1 /\ ~(j > Len(n))
      BY <1>1, <2>2
    <3>2. ~Stuck(f, n, i, j) /\ After(f, n, i, j) = j + 1
      BY <2>1, <2>2, <3>1 DEF Stuck, After
    <3>3. i + 1 # 1 /\ i + 1 - 1 = i /\ j + 1 - 1 = j /\ j + 1 > 1
      BY <1>1
    <3>4. Begin(f, n, i + 1, j + 1)
      BY <2>2, <3>3 DEF Begin
    <3> QED
      BY <1>5, <1>11, <2>2, <3>1, <3>2, <3>4
  <2>3. CASE f[i] = Slash /\ i < Len(f) /\ f[i + 1] = Hash
    <3>1. j > Len(n) \/ n[j] = Slash
      BY <1>2, <2>1, <2>3 DEF MatchStep
    <3>2. CASE j > Len(n)
      <4>1. Stuck(f, n, i, j)
        BY <3>2 DEF Stuck
      <4> QED
        BY <1>3, <1>7, <2>1, <2>3, <4>1
    <3>3. CASE j <= Len(n) /\ n[j] = Slash
      <4>1. j + 1 \in 1 .. Len(n) + 1 /\ ~(i + 1 > Len(f))
        BY <1>1, <2>3, <3>3
      <4>2. MatchStep(M, f, n, i + 1, j + 1)
        BY <2>3, <4>1 DEF MatchStep
      <4>3. M[<<i + 1, j + 1>>]
        BY <2>1, <4>1, <4>2 DEF IsMatch
      <4> QED
        BY <2>2, <2>3, <3>3, <4>3
    <3> QED
      BY <1>1, <3>1, <3>2, <3>3
  <2>4. CASE ~(f[i] = Slash /\ i < Len(f) /\ f[i + 1] = Hash)
    BY <1>2, <2>1, <2>2, <2>4 DEF MatchStep
  <2> QED
    BY <2>3, <2>4
<1> QED
  BY <1>1, <1>8, <1>9, <1>10, <1>11

\* _is_topic_matched takes for a match whatever the MQTT standard does.
THEOREM MatchNotMissed ==
    ASSUME NEW f, IsFilter(f), NEW n \in Seq(Byte), Len(n) > 0, Matches(f, n)
    PROVE  _is_topic_matched(f, n)
<1>1. f \in Seq(Byte) /\ Len(f) \in Nat /\ Len(n) \in Nat
  BY DEF IsFilter
<1>2. PICK w : IsScan(w, f, n) /\ Scan(f, n) = w[<<1, 1>>]
  BY <1>1, ScanExists
<1>3. PICK M : IsMatch(M, f, n) /\ Matches(f, n) = M[<<1, 1>>]
  BY <1>1, MatchExists
<1> DEFINE l == Len(f) + 1
           P(i) == ~Misses(M, w, f, n, i)
           T == {k \in Nat : k < l => P(l - k)}
<1>4. ASSUME NEW i \in 1 .. l, i < l => P(i + 1) PROVE P(i)
  <2>1. i <= Len(f) => i < l
    BY <1>1
  <2> QED
    BY <1>2, <1>3, <1>4, <2>1, MatchAccepted
<1>5. l \in Nat /\ l >= 1
  BY <1>1
<1> HIDE DEF P, l
<1>6. 0 \in T
  <2>1. l \in 1 .. l /\ l - 0 = l /\ ~(l < l)
    BY <1>5
  <2> QED
    BY <1>4, <2>1
<1>7. ASSUME NEW k \in Nat, k \in T PROVE k + 1 \in T
  <2> SUFFICES ASSUME k + 1 < l PROVE P(l - (k + 1))
    OBVIOUS
  <2> DEFINE i == l - (k + 1)
  <2>1. i \in 1 .. l /\ i + 1 = l - k /\ k < l
    BY <1>5
  <2> HIDE DEF i
  <2>2. P(i)
    BY <1>4, <1>7, <2>1
  <2> QED
    BY <2>2 DEF i
<1> HIDE DEF T
<1>8. \A k \in Nat : k \in T
  BY <1>6, <1>7, SetInduction
<1>9. P(1)
  <2>1. l - 1 \in Nat /\ l - 1 < l /\ l - (l - 1) = 1
    BY <1>5
  <2> QED
    BY <1>8, <2>1 DEF T
<1>10. Accepted(f, n, w[<<1, 1>>])
  <2>1. 1 \in 1 .. Len(n) + 1 /\ ~(1 > 1) /\ Begin(f, n, 1, 1)
    BY <1>1 DEF Begin
  <2> QED
    BY <1>3, <1>9, <2>1 DEF P, Misses
<1> QED
  BY <1>2, <1>10 DEF _is_topic_matched, Accepted

-----------------------------------------------------------------------------
(* The slot a message goes to *)

\* A body that was read is inside read_buf.  A message at its handler has the
\* slot its topic was found to match, and without a stall it is one the broker
\* published.
MatchInv ==
    /\ phase = "packet" => rem = 0 \/ HeaderLen + rem <= ReadBufSize
    /\ phase = "handler" =>
        /\ msg.topic \in Seq(Byte) /\ at = FirstMatch(msg.topic)
        /\ stalls = 0 => \E m \in Message : msg.topic = FixTopic(m.topic) /\ msg.payload = m.payload

LEMMA FixTopicFacts ==
    ASSUME NEW t \in Seq(Byte)
    PROVE  FixTopic(t) \in Seq(Byte)
<1>1. MaxTopic \in Nat /\ MaxTopic >= 2
  BY ReceiveSizes
<1> QED
  BY <1>1 DEF FixTopic

LEMMA DeliveredTopic ==
    ASSUME TypeInv, MatchInv, phase = "packet", Decodable(buf, HeaderLen, rem)
    PROVE  deserialize_publish_packet(buf, HeaderLen, rem).topic \in Seq(Byte)
<1> DEFINE h == HeaderLen
           tl == mqtt_read_uint16_t(buf, h + 1)
<1>1. /\ buf \in [1 .. ReadBufSize -> Byte] /\ rem \in Nat
      /\ ReadBufSize \in Nat
  BY ReceiveSizes DEF TypeInv, ReadTypes
<1>2. h \in Nat /\ h >= 2
  <2>1. HeaderLen = 1 + Len(RL(rem))
    BY DEF HeaderLen, RL
  <2>2. Len(RL(rem)) \in Nat /\ Len(RL(rem)) >= 1
    BY <1>1, RemLenSize
  <2> QED
    BY <2>1, <2>2
<1>3. rem >= 2 /\ tl <= rem - 2 /\ h + rem <= ReadBufSize
  BY <1>1 DEF Decodable, MatchInv
<1> HIDE DEF h
<1>4. tl \in Nat
  <2>1. h + 1 \in 1 .. ReadBufSize /\ h + 1 + 1 \in 1 .. ReadBufSize
    BY <1>1, <1>2, <1>3
  <2>2. buf[h + 1] \in Byte /\ buf[h + 1 + 1] \in Byte
    BY <1>1, <2>1
  <2>3. tl = 256 * buf[h + 1] + buf[h + 1 + 1]
    BY DEF mqtt_read_uint16_t
  <2>4. \A x, y \in Byte : 256 * x + y \in Nat
    BY DEF Byte
  <2> QED
    BY <2>2, <2>3, <2>4
<1> HIDE DEF tl
<1>5. buf \in Seq(Byte) /\ Len(buf) = ReadBufSize
  BY <1>1
<1>6. h + 3 \in Nat /\ h + 3 >= 1 /\ h + 2 + tl \in Nat /\ h + 2 + tl <= Len(buf)
  BY <1>1, <1>2, <1>3, <1>4, <1>5
<1>7. SubSeq(buf, h + 3, h + 2 + tl) \in Seq(Byte)
  BY <1>5, <1>6
<1> QED
  BY <1>7 DEF deserialize_publish_packet, h, tl

LEMMA MatchNext == TypeInv /\ FrameInv /\ MatchInv /\ [Next]_vars => MatchInv'
<1> SUFFICES ASSUME TypeInv, FrameInv, MatchInv, [Next]_vars PROVE MatchInv'
  OBVIOUS
<1>1. ASSUME UNCHANGED <<phase, rem, msg, at, slots>>, stalls' = 0 => stalls = 0
      PROVE  MatchInv'
  BY <1>1 DEF MatchInv, HeaderLen, FirstMatch
<1>2. ASSUME phase' \notin {"packet", "handler"} PROVE MatchInv'
  BY <1>2 DEF MatchInv
<1>3. CASE Network
  BY <1>1, <1>3 DEF Network, BrokerPublish, BrokerRepeat, BrokerPing, ConnectionLost, faults
<1>4. CASE cycle_for_read
  <2>1. CASE ReadHeader
    BY <1>2, <2>1 DEF ReadHeader
  <2>2. CASE _decode_packet_rem_len_with_net_read
    BY <1>2, <2>2 DEF _decode_packet_rem_len_with_net_read, PacketDone
  <2>3. CASE DiscardLong
    BY <1>2, <2>3 DEF DiscardLong, PacketDone
  <2>4. CASE DiscardUnfit
    BY <1>2, <2>4 DEF DiscardUnfit, PacketDone
  <2>5. CASE ReadBody
    <3>1. \/ phase' = "idle"
          \/ phase' = "packet" /\ rem' = rem /\ (rem = 0 \/ HeaderLen + rem <= ReadBufSize)
      BY <2>5 DEF ReadBody, PacketDone
    <3> QED
      BY <1>2, <3>1 DEF MatchInv, HeaderLen
  <2>6. CASE HandleOther
    BY <1>2, <2>6 DEF HandleOther, PacketDone
  <2>7. CASE _deliver_message
    <3> DEFINE m == deserialize_publish_packet(buf, HeaderLen, rem)
    <3>1. /\ phase = "packet" /\ phase' = "handler" /\ Decodable(buf, HeaderLen, rem)
          /\ msg' = [m EXCEPT !.topic = FixTopic(m.topic)]
          /\ at' = FirstMatch(msg'.topic) /\ slots' = slots /\ UNCHANGED <<stalls, torn>>
      BY <2>7 DEF _deliver_message, faults
    <3>2. msg'.topic = FixTopic(m.topic)
      BY <3>1 DEF deserialize_publish_packet
    <3>3. msg'.topic \in Seq(Byte)
      BY <3>1, <3>2, DeliveredTopic, FixTopicFacts
    <3>4. at' = FirstMatch(msg.topic)'
      BY <3>1 DEF FirstMatch
    <3>5. ASSUME stalls = 0
          PROVE  \E x \in Message : msg'.topic = FixTopic(x.topic) /\ msg'.payload = x.payload
      <4>1. ~torn
        BY <3>1, <3>5 DEF FrameInv, StallInv
      <4>2. PICK k \in 1 .. Len(sent) : sent[k] \in Packet /\ msg' = Given(sent[k])
        BY <2>7, <4>1, DeliverStep
      <4>3. PICK x \in Message : sent[k].topic = x.topic /\ sent[k].payload = x.payload
        BY <4>2 DEF Packet
      <4>4. msg'.topic = FixTopic(sent[k].topic) /\ msg'.payload = sent[k].payload
        BY <4>2 DEF Given, Packet
      <4> QED
        BY <4>3, <4>4
    <3> QED
      BY <3>1, <3>3, <3>4, <3>5 DEF MatchInv
  <2>8. CASE AppHandler
    BY <1>2, <2>8, ReturnStep DEF AppHandler
  <2>9. CASE SendAck
    BY <1>2, <2>9 DEF SendAck
  <2> QED
    BY <1>4, <2>1, <2>2, <2>3, <2>4, <2>5, <2>6, <2>7, <2>8, <2>9 DEF cycle_for_read
<1>5. CASE Reconnect
  BY <1>2, <1>5 DEF Reconnect
<1>6. CASE _dsc_mqtt_register_callback
  BY <1>2, <1>6 DEF _dsc_mqtt_register_callback
<1>7. ASSUME NEW t, NEW r, ReportEx(t, r) PROVE MatchInv'
  BY <1>2, <1>7 DEF ReportEx
<1>8. CASE Incomplete \/ Callback \/ Reply
  <2>1. phase' \in {"idle", "ack", "reply"}
    BY <1>8, ReturnStep DEF Incomplete, Callback, Reply
  <2> QED
    BY <1>2, <2>1
<1>9. CASE IOT_DM_Destroy
  BY <1>2, <1>9 DEF IOT_DM_Destroy
<1>10. CASE UNCHANGED vars
  BY <1>1, <1>10 DEF vars, rvars
<1> QED
  BY <1>3, <1>4, <1>5, <1>6, <1>7, <1>8, <1>9, <1>10 DEF Next

LEMMA MatchHolds == Spec => []MatchInv
<1>1. Init => MatchInv
  BY DEF Init, ReceiveInit, MatchInv
<1> QED
  BY <1>1, MatchNext, TypeHolds, FrameHolds, PTL DEF Spec

\* The filters of sub_handles are as the standard allows them.
LEMMA SlotFilters ==
    ASSUME SlotInv, NEW i \in DOMAIN slots
    PROVE  IsFilter(slots[i].filter)
<1>1. slots[i] \in Slot
  BY DEF SlotInv
<1>2. CASE slots[i].filter \in AppFilter
  BY <1>2, ReceiveAssumption
<1>3. ASSUME NEW t \in DM_Type, slots[i].filter = Down[t] PROVE IsFilter(slots[i].filter)
  <2>1. Down[t] \in Seq(Byte \ {Plus, Hash})
    BY DeviceModelAssumption
  <2>2. \A x \in 1 .. Len(Down[t]) : Down[t][x] \in Byte \ {Plus, Hash}
    BY <2>1
  <2>3. Down[t] \in Seq(Byte)
    BY <2>1
  <2> QED
    BY <1>3, <2>2, <2>3 DEF IsFilter
<1> QED
  BY <1>1, <1>2, <1>3 DEF Slot

\* The slot _deliver_message stops at is the first whose filter it takes for a
\* match.
LEMMA FirstMatchIs ==
    ASSUME slots \in Seq(Slot), NEW n, NEW i \in DOMAIN slots,
           _is_topic_matched(slots[i].filter, n)
    PROVE  FirstMatch(n) \in 1 .. i
<1> DEFINE S == {x \in DOMAIN slots : _is_topic_matched(slots[x].filter, n)}
<1>1. S \subseteq Nat /\ i \in S /\ S \subseteq 1 .. Len(slots) /\ i \in Nat
  OBVIOUS
<1>2. FirstMatch(n) = CHOOSE x \in S : \A y \in S : x <= y
  BY <1>1 DEF FirstMatch
<1> HIDE DEF S
<1>3. \E x \in S : \A y \in S : x <= y
  BY <1>1, LeastNumber
<1>4. FirstMatch(n) \in S /\ FirstMatch(n) <= i
  BY <1>1, <1>2, <1>3
<1>5. FirstMatch(n) \in 1 .. Len(slots)
  BY <1>1, <1>4
<1>6. Len(slots) \in Nat
  OBVIOUS
<1> QED
  BY <1>1, <1>4, <1>5, <1>6

\* A slot _deliver_message stops at matches.
LEMMA FirstMatchMatches ==
    ASSUME slots \in Seq(Slot), NEW n, FirstMatch(n) # 0
    PROVE  FirstMatch(n) \in DOMAIN slots /\ _is_topic_matched(slots[FirstMatch(n)].filter, n)
<1> DEFINE S == {x \in DOMAIN slots : _is_topic_matched(slots[x].filter, n)}
<1>1. S \subseteq Nat
  OBVIOUS
<1>2. S # {} /\ FirstMatch(n) = CHOOSE x \in S : \A y \in S : x <= y
  BY DEF FirstMatch
<1>3. FirstMatch(n) \in S
  <2> HIDE DEF S
  <2>1. \E x \in S : \A y \in S : x <= y
    BY <1>1, <1>2, LeastNumber
  <2> QED
    BY <1>2, <2>1
<1> QED
  BY <1>3

\* Whatever is subscribed to and whatever arrives, also cut short: a message with
\* a topic goes to no later subscription than the first whose filter matches it
\* by the rule of the MQTT standard.
THEOREM NoMissedMatchHolds == Spec => []NoMissedMatch
<1>1. SlotInv /\ MatchInv => NoMissedMatch
  <2> SUFFICES ASSUME SlotInv, MatchInv, phase = "handler", msg.topic # <<>>,
                      NEW i \in DOMAIN slots, Matches(slots[i].filter, msg.topic)
               PROVE  at \in 1 .. i
    BY DEF NoMissedMatch
  <2>1. msg.topic \in Seq(Byte) /\ at = FirstMatch(msg.topic) /\ slots \in Seq(Slot)
    BY DEF MatchInv, SlotInv
  <2>2. Len(msg.topic) > 0
    BY <2>1
  <2>3. _is_topic_matched(slots[i].filter, msg.topic)
    BY <2>1, <2>2, SlotFilters, MatchNotMissed
  <2> QED
    BY <2>1, <2>3, FirstMatchIs
<1>2. Spec => []SlotInv
  BY TypeHolds, PTL DEF TypeInv
<1> QED
  BY <1>1, <1>2, MatchHolds, PTL

\* What the handlers get is what the broker sent, in its order and at the first
\* subscription that matches.
THEOREM DeliverySoundHolds == Spec => []DeliverySound
BY DeliveredInOrderHolds, NoMissedMatchHolds, PTL DEF DeliverySound

-----------------------------------------------------------------------------
(* The calls and the messages of the cloud *)

\* From f[i] and n[i] on, a filter without wildcards only matches itself.
Apart(w, f, n, i) ==
    /\ i <= Len(n) + 1 /\ Accepted(f, n, w[<<i, i>>])
    /\ ~(Len(f) = Len(n) /\ \A x \in i .. Len(f) : f[x] = n[x])

LEMMA ExactStep ==
    ASSUME NEW f \in Seq(Byte \ {Plus, Hash}), NEW n \in Seq(Byte), NEW w, IsScan(w, f, n),
           NEW i \in 1 .. Len(f) + 1, i <= Len(f) => ~Apart(w, f, n, i + 1)
    PROVE  ~Apart(w, f, n, i)
<1> SUFFICES ASSUME i <= Len(n) + 1, Accepted(f, n, w[<<i, i>>])
             PROVE  Len(f) = Len(n) /\ \A x \in i .. Len(f) : f[x] = n[x]
  BY DEF Apart
<1>1. Len(f) \in Nat /\ Len(n) \in Nat /\ i \in Int /\ i \in 1 .. Len(n) + 1
  OBVIOUS
<1>2. \A x \in 1 .. Len(f) : f[x] # Plus /\ f[x] # Hash
  OBVIOUS
<1>3. w[<<i, i>>] = IF Stuck(f, n, i, i) THEN <<i, i>> ELSE w[<<i + 1, After(f, n, i, i)>>]
  BY <1>1 DEF IsScan
<1>4. CASE Stuck(f, n, i, i)
  <2>1. Accepted(f, n, <<i, i>>)
    BY <1>3, <1>4
  <2>2. IF i > Len(f) THEN i > Len(n)
        ELSE \/ f[i] = Hash
             \/ i < Len(f) /\ f[i + 1] = Hash
             \/ f[i] = Plus /\ i > 1 /\ n[i - 1] = Slash
    BY <2>1 DEF Accepted
  <2>3. i > Len(f)
    <3> SUFFICES ASSUME ~(i > Len(f)) PROVE FALSE
      OBVIOUS
    <3>1. i \in 1 .. Len(f) /\ (i < Len(f) => i + 1 \in 1 .. Len(f))
      BY <1>1
    <3> QED
      BY <1>2, <2>2, <3>1
  <2>4. i > Len(n)
    BY <2>2, <2>3
  <2> QED
    BY <1>1, <2>3, <2>4
<1>5. CASE ~Stuck(f, n, i, i)
  <2>1. i \in 1 .. Len(f) /\ i <= Len(f) /\ i <= Len(n)
    BY <1>1, <1>5 DEF Stuck
  <2>2. f[i] # Plus /\ f[i] # Hash
    BY <1>2, <2>1
  <2>3. f[i] = n[i]
    BY <1>5, <2>2 DEF Stuck
  <2>4. After(f, n, i, i) = i + 1
    BY <2>2 DEF After
  <2>5. i + 1 <= Len(n) + 1
    BY <1>1, <2>1
  <2>6. Len(f) = Len(n) /\ \A x \in i + 1 .. Len(f) : f[x] = n[x]
    BY <1>3, <1>5, <2>1, <2>4, <2>5 DEF Apart
  <2>7. \A x \in i .. Len(f) : x = i \/ x \in i + 1 .. Len(f)
    BY <1>1
  <2> QED
    BY <2>3, <2>6, <2>7
<1> QED
  BY <1>4, <1>5

LEMMA ExactMatch ==
    ASSUME NEW f \in Seq(Byte \ {Plus, Hash}), NEW n \in Seq(Byte), _is_topic_matched(f, n)
    PROVE  f = n
<1>1. f \in Seq(Byte) /\ Len(f) \in Nat /\ Len(n) \in Nat
  OBVIOUS
<1>2. PICK w : IsScan(w, f, n) /\ Scan(f, n) = w[<<1, 1>>]
  BY <1>1, ScanExists
<1> DEFINE l == Len(f) + 1
           P(i) == ~Apart(w, f, n, i)
           T == {k \in Nat : k < l => P(l - k)}
<1>4. ASSUME NEW i \in 1 .. l, i < l => P(i + 1) PROVE P(i)
  <2>1. i <= Len(f) => i < l
    BY <1>1
  <2> QED
    BY <1>2, <1>4, <2>1, ExactStep
<1>5. l \in Nat /\ l >= 1
  BY <1>1
<1> HIDE DEF P, l
<1>6. 0 \in T
  <2>1. l \in 1 .. l /\ l - 0 = l /\ ~(l < l)
    BY <1>5
  <2> QED
    BY <1>4, <2>1
<1>7. ASSUME NEW k \in Nat, k \in T PROVE k + 1 \in T
  <2> SUFFICES ASSUME k + 1 < l PROVE P(l - (k + 1))
    OBVIOUS
  <2> DEFINE i == l - (k + 1)
  <2>1. i \in 1 .. l /\ i + 1 = l - k /\ k < l
    BY <1>5
  <2> HIDE DEF i
  <2>2. P(i)
    BY <1>4, <1>7, <2>1
  <2> QED
    BY <2>2 DEF i
<1> HIDE DEF T
<1>8. \A k \in Nat : k \in T
  BY <1>6, <1>7, SetInduction
<1>9. P(1)
  <2>1. l - 1 \in Nat /\ l - 1 < l /\ l - (l - 1) = 1
    BY <1>5
  <2> QED
    BY <1>8, <2>1 DEF T
<1>10. Accepted(f, n, w[<<1, 1>>])
  BY <1>2 DEF _is_topic_matched, Accepted
<1>11. Len(f) = Len(n) /\ \A x \in 1 .. Len(f) : f[x] = n[x]
  BY <1>1, <1>9, <1>10 DEF P, Apart
<1>12. f = [x \in 1 .. Len(f) |-> f[x]] /\ n = [x \in 1 .. Len(n) |-> n[x]]
  OBVIOUS
<1> QED
  BY <1>11, <1>12

\* A stall is never taken back.
LEMMA StallsStay ==
    ASSUME TypeInv, [Next]_vars, stalls' = 0
    PROVE  stalls = 0
<1>1. stalls \in Nat
  BY ReceiveSizes DEF TypeInv, FaultTypes
<1>2. ASSUME NEW n, NEW o, NEW k, NetRead(n, o, k) PROVE stalls = 0
  <2>1. stalls' = stalls \/ stalls' = stalls + 1
    BY <1>1, <1>2 DEF NetRead
  <2> QED
    BY <1>1, <2>1
<1>3. CASE UNCHANGED stalls
  BY <1>3
<1>4. CASE Network
  BY <1>3, <1>4 DEF Network, BrokerPublish, BrokerRepeat, BrokerPing, ConnectionLost, faults
<1>5. CASE cycle_for_read
  <2>1. CASE ReadHeader \/ _decode_packet_rem_len_with_net_read \/ DiscardLong \/ DiscardUnfit
             \/ ReadBody \/ HandleOther
    BY <1>2, <1>3, <2>1 DEF ReadHeader, _decode_packet_rem_len_with_net_read, DiscardLong,
       DiscardUnfit, ReadBody, HandleOther, faults
  <2>2. CASE _deliver_message \/ AppHandler \/ SendAck
    BY <1>3, <2>2 DEF _deliver_message, AppHandler, SendAck, HandlerReturns, faults
  <2> QED
    BY <1>5, <2>1, <2>2 DEF cycle_for_read
<1>6. CASE Reconnect \/ _dsc_mqtt_register_callback
  BY <1>3, <1>6 DEF Reconnect, _dsc_mqtt_register_callback, faults
<1>7. ASSUME NEW t, NEW r, ReportEx(t, r) PROVE stalls = 0
  BY <1>3, <1>7 DEF ReportEx, faults
<1>8. CASE Incomplete \/ Callback \/ Reply \/ IOT_DM_Destroy
  BY <1>3, <1>8 DEF Incomplete, Callback, Reply, IOT_DM_Destroy, HandlerReturns, faults
<1>9. CASE UNCHANGED vars
  BY <1>3, <1>9 DEF vars, rvars
<1> QED
  BY <1>4, <1>5, <1>6, <1>7, <1>8, <1>9 DEF Next

\* The calls only change by a callback, or are forgotten with their connection.
LEMMA CallSteps ==
    ASSUME [Next]_vars, ~Callback
    PROVE  UNCHANGED calls \/ calls' = <<>>
BY DEF Next, vars, dvars, OthersUnchanged, _dsc_mqtt_register_callback, ReportEx, Incomplete, Reply,
       IOT_DM_Destroy

\* The call c is that of a message of the cloud.
Requested(c) == \E m \in Message :
    /\ m.topic = Down[c.type] /\ Complete(c.type, m.payload)
    /\ c.id = LITE_json_value_of(RequestID, m.payload)

LEMMA CallbackRequested ==
    ASSUME SlotInv, MatchInv, Callback, stalls = 0
    PROVE  \E c : calls' = Append(calls, c) /\ Requested(c)
<1>1. /\ phase = "handler" /\ HandlerType # "app" /\ Complete(HandlerType, msg.payload)
  BY DEF Callback
<1>2. PICK c : /\ calls' = Append(calls, c) /\ c.type = HandlerType
               /\ c.id = LITE_json_value_of(RequestID, msg.payload)
  BY DEF Callback
<1>3. PICK m \in Message : msg.topic = FixTopic(m.topic) /\ msg.payload = m.payload
  BY <1>1 DEF MatchInv
<1>4. at # 0 /\ HandlerType = slots[at].handler /\ at = FirstMatch(msg.topic) /\ msg.topic \in Seq(Byte)
      /\ slots \in Seq(Slot)
  BY <1>1 DEF HandlerType, MatchInv, SlotInv
<1>5. at \in DOMAIN slots /\ _is_topic_matched(slots[at].filter, msg.topic)
  BY <1>4, FirstMatchMatches
<1>6. slots[at] \in Slot
  BY <1>4, <1>5
<1>7. PICK t \in DM_Type : slots[at] = [filter |-> Down[t], handler |-> t]
  BY <1>1, <1>4, <1>6 DEF Slot
<1>8. slots[at].filter = Down[t] /\ HandlerType = t
  BY <1>4, <1>7
<1>9. Down[t] \in Seq(Byte \ {Plus, Hash}) /\ (FixTopic(m.topic) = Down[t] => m.topic = Down[t])
  BY DeviceModelAssumption
<1>10. Down[t] = msg.topic
  BY <1>4, <1>5, <1>8, <1>9, ExactMatch
<1>11. m.topic = Down[c.type]
  BY <1>2, <1>3, <1>8, <1>9, <1>10
<1>12. Requested(c)
  BY <1>1, <1>2, <1>3, <1>11 DEF Requested
<1> QED
  BY <1>2, <1>12

LEMMA RequestsNext ==
    CountInv /\ TypeInv /\ MatchInv /\ CallsMatchRequests /\ [Next]_vars => CallsMatchRequests'
<1> SUFFICES ASSUME CountInv, TypeInv, MatchInv, CallsMatchRequests, [Next]_vars, stalls' = 0
             PROVE  \A i \in DOMAIN calls' : Requested(calls'[i])
  BY DEF CallsMatchRequests, Requested
<1>1. stalls = 0
  BY StallsStay
<1>2. \A i \in DOMAIN calls : Requested(calls[i])
  BY <1>1 DEF CallsMatchRequests, Requested
<1>3. CASE Callback
  <2>1. PICK c : calls' = Append(calls, c) /\ Requested(c)
    BY <1>1, <1>3, CallbackRequested DEF TypeInv
  <2>2. IsSeq(calls)
    BY DEF CountInv
  <2>3. \A i \in DOMAIN calls' : calls'[i] = c \/ (i \in DOMAIN calls /\ calls'[i] = calls[i])
    BY <2>1, <2>2, AppendSeq
  <2> QED
    BY <1>2, <2>1, <2>3
<1>4. CASE calls' = <<>>
  BY <1>4
<1> QED
  BY <1>2, <1>3, <1>4, CallSteps

\* A callback is only called for what the cloud published on its type's topic:
\* whatever the topics, the messages and the filters, no other message is taken
\* for a request, as long as no read times out inside a packet.
THEOREM CallsMatchRequestsHolds == Spec => []CallsMatchRequests
<1>1. Init => CallsMatchRequests
  BY DEF Init, CallsMatchRequests
<1> QED
  BY <1>1, RequestsNext, CountHolds, TypeHolds, MatchHolds, PTL DEF Spec

-----------------------------------------------------------------------------
(* The texts of reports and replies *)

Str == Seq(Byte)
Text == [str : Str, room : Int, over : BOOLEAN]

LEMMA StrJoin ==
    ASSUME NEW a \in Str, NEW b \in Str
    PROVE  /\ a \o b \in Str /\ Len(a) \in Nat /\ Len(b) \in Nat /\ Len(a \o b) = Len(a) + Len(b)
           /\ \A i \in 1 .. Len(a) : (a \o b)[i] = a[i]
           /\ \A i \in 1 .. Len(b) : (a \o b)[Len(a) + i] = b[i]
           /\ a \o <<>> = a /\ <<>> \o a = a
BY DEF Str

LEMMA StrAssoc ==
    ASSUME NEW a \in Str, NEW b \in Str, NEW c \in Str
    PROVE  (a \o b) \o c = a \o (b \o c)
BY ConcatAssociative DEF Str

\* The texts a and b begin with the same n bytes, or are the same.
Alike(a, b, n) ==
    \A i \in 1 .. n : (i <= Len(a) <=> i <= Len(b)) /\ (i <= Len(a) => a[i] = b[i])

LEMMA AlikeSame ==
    ASSUME NEW a, NEW n
    PROVE  Alike(a, a, n)
BY DEF Alike

LEMMA AlikeTrans ==
    ASSUME NEW a, NEW b, NEW c, NEW n, Alike(a, b, n), Alike(b, c, n)
    PROVE  Alike(a, c, n)
BY DEF Alike

LEMMA AlikeJoin ==
    ASSUME NEW a \in Str, NEW f \in Str, NEW b \in Str, NEW g \in Str, NEW n \in Nat,
           Alike(a, f, n), Alike(b, g, n)
    PROVE  Alike(a \o b, f \o g, n)
<1> DEFINE x == a \o b
           y == f \o g
           la == Len(a)
           lf == Len(f)
           lb == Len(b)
           lg == Len(g)
<1>1. /\ la \in Nat /\ lb \in Nat /\ Len(x) = la + lb
      /\ \A i \in 1 .. la : x[i] = a[i]
      /\ \A i \in 1 .. lb : x[la + i] = b[i]
  BY StrJoin
<1>2. /\ lf \in Nat /\ lg \in Nat /\ Len(y) = lf + lg
      /\ \A i \in 1 .. lf : y[i] = f[i]
      /\ \A i \in 1 .. lg : y[lf + i] = g[i]
  BY StrJoin
<1>3. \A i \in 1 .. n : (i <= la <=> i <= lf) /\ (i <= la => a[i] = f[i])
  BY DEF Alike
<1>4. \A i \in 1 .. n : (i <= lb <=> i <= lg) /\ (i <= lb => b[i] = g[i])
  BY DEF Alike
<1> HIDE DEF x, y, la, lf, lb, lg
<1>5. ASSUME NEW i \in 1 .. n
      PROVE  (i <= Len(x) <=> i <= Len(y)) /\ (i <= Len(x) => x[i] = y[i])
  <2>1. CASE i <= la
    <3>1. i <= lf /\ a[i] = f[i] /\ i \in 1 .. la /\ i \in 1 .. lf
      BY <1>1, <1>2, <1>3, <2>1
    <3>2. x[i] = y[i]
      BY <1>1, <1>2, <3>1
    <3>3. i <= Len(x) /\ i <= Len(y)
      BY <1>1, <1>2, <2>1, <3>1
    <3> QED
      BY <3>2, <3>3
  <2>2. CASE i > la
    <3>1. i > lf
      BY <1>1, <1>2, <1>3, <2>2
    <3>2. la = lf
      <4>1. ~(la < lf)
        <5> SUFFICES ASSUME la < lf PROVE FALSE
          OBVIOUS
        <5>1. la + 1 \in 1 .. n /\ la + 1 <= lf /\ ~(la + 1 <= la)
          BY <1>1, <1>2, <2>2
        <5> QED
          BY <1>3, <5>1
      <4>2. ~(lf < la)
        <5> SUFFICES ASSUME lf < la PROVE FALSE
          OBVIOUS
        <5>1. lf + 1 \in 1 .. n /\ lf + 1 <= la /\ ~(lf + 1 <= lf)
          BY <1>1, <1>2, <3>1
        <5> QED
          BY <1>3, <5>1
      <4> QED
        BY <1>1, <1>2, <4>1, <4>2
    <3> DEFINE j == i - la
    <3>3. j \in 1 .. n /\ i = la + j /\ i = lf + j /\ j \in Int
      BY <1>1, <2>2, <3>2
    <3> HIDE DEF j
    <3>4. (j <= lb <=> j <= lg) /\ (j <= lb => b[j] = g[j])
      BY <1>4, <3>3
    <3>5. (i <= Len(x) <=> j <= lb) /\ (i <= Len(y) <=> j <= lg)
      BY <1>1, <1>2, <3>3
    <3>6. j <= lb => x[la + j] = b[j]
      BY <1>1, <3>3
    <3>7. j <= lg => y[lf + j] = g[j]
      BY <1>2, <3>3
    <3> QED
      BY <3>3, <3>4, <3>5, <3>6, <3>7
  <2> QED
    BY <1>1, <2>1, <2>2
<1>6. Alike(x, y, n)
  BY <1>5 DEF Alike
<1> QED
  BY <1>6 DEF x, y

\* A text that is not cut is all of what it is like.
LEMMA AlikeWhole ==
    ASSUME NEW a \in Str, NEW b \in Str, NEW n \in Nat, Alike(a, b, n), Len(a) < n
    PROVE  a = b
<1> DEFINE la == Len(a)
           lb == Len(b)
<1>1. la \in Nat /\ lb \in Nat /\ la < n
  BY DEF Str
<1>2. \A i \in 1 .. n : (i <= la <=> i <= lb) /\ (i <= la => a[i] = b[i])
  BY DEF Alike
<1>3. a = [i \in 1 .. la |-> a[i]] /\ b = [i \in 1 .. lb |-> b[i]]
  BY DEF Str
<1> HIDE DEF la, lb
<1>4. la = lb
  <2>1. ~(la < lb)
    <3> SUFFICES ASSUME la < lb PROVE FALSE
      OBVIOUS
    <3>1. la + 1 \in 1 .. n /\ la + 1 <= lb /\ ~(la + 1 <= la)
      BY <1>1
    <3> QED
      BY <1>2, <3>1
  <2>2. ~(lb < la)
    <3> SUFFICES ASSUME lb < la PROVE FALSE
      OBVIOUS
    <3>1. lb + 1 \in 1 .. n /\ lb + 1 <= la /\ ~(lb + 1 <= lb)
      BY <1>1
    <3> QED
      BY <1>2, <3>1
  <2> QED
    BY <1>1, <2>1, <2>2
<1>5. \A i \in 1 .. la : a[i] = b[i]
  <2>1. \A i \in 1 .. la : i \in 1 .. n /\ i <= la
    BY <1>1
  <2> QED
    BY <1>2, <2>1
<1> QED
  BY <1>3, <1>4, <1>5

\* What HAL_Snprintf leaves of a text.
LEMMA CutFacts ==
    ASSUME NEW s \in Str, NEW z \in Int
    PROVE  /\ Cut(s, z) \in Str /\ Len(Cut(s, z)) \in Nat
           /\ Len(s) < z => Cut(s, z) = s
           /\ z <= 1 => Cut(s, z) = <<>>
           /\ z >= 1 /\ z <= Len(s) => Len(Cut(s, z)) = z - 1
           /\ z >= 1 => Alike(Cut(s, z), s, z - 1)
<1> DEFINE l == Len(s)
           m == IF l < z - 1 THEN l ELSE z - 1
           c == Cut(s, z)
<1>1. l \in Nat /\ s \in Seq(Byte)
  BY DEF Str
<1>2. c = SubSeq(s, 1, m)
  BY DEF Cut, Min2
<1>3. m \in Int /\ m <= l
  BY <1>1
<1>4. c = [i \in 1 .. m |-> s[i]]
  <2>1. SubSeq(s, 1, m) = [i \in 1 .. m - 1 + 1 |-> s[1 + i - 1]]
    BY <1>1, <1>3
  <2>2. m - 1 + 1 = m /\ \A i \in 1 .. m : 1 + i - 1 = i
    BY <1>3
  <2> QED
    BY <1>2, <2>1, <2>2
<1>5. CASE m >= 0
  <2>1. m \in Nat
    BY <1>3, <1>5
  <2>2. c \in Seq(Byte) /\ Len(c) = m
    <3>1. \A i \in 1 .. m : s[i] \in Byte
      BY <1>1, <1>3
    <3> HIDE DEF m, c
    <3> QED
      BY <1>4, <2>1, <3>1
  <2>3. l < z => m = l
    BY <1>1
  <2>4. l < z => c = s
    <3>1. s = [i \in 1 .. l |-> s[i]]
      BY <1>1
    <3> QED
      BY <1>4, <2>3, <3>1
  <2>5. z <= 1 => m = 0
    BY <1>1, <1>5
  <2>6. z <= 1 => c = <<>>
    BY <2>2, <2>5
  <2>7. z >= 1 /\ z <= l => m = z - 1
    BY <1>1
  <2>8. z >= 1 => \A i \in 1 .. z - 1 : (i <= m <=> i <= l) /\ (i <= m => i \in 1 .. m)
    BY <1>1
  <2> HIDE DEF m, c
  <2>9. \A i \in 1 .. m : c[i] = s[i]
    BY <1>4
  <2>10. z >= 1 => Alike(c, s, z - 1)
    BY <2>2, <2>8, <2>9 DEF Alike, l
  <2> QED
    BY <2>1, <2>2, <2>4, <2>6, <2>7, <2>10 DEF c, Str, l
<1>6. CASE m < 0
  <2>1. z < 1 /\ 1 .. m = {}
    BY <1>1, <1>3, <1>6
  <2>2. c = <<>>
    BY <1>4, <2>1
  <2>3. <<>> \in Str /\ Len(<<>>) = 0
    BY DEF Str
  <2>4. ~(l < z) /\ ~(z >= 1)
    BY <1>1, <2>1
  <2> HIDE DEF m, c
  <2> QED
    BY <2>2, <2>3, <2>4 DEF c, l
<1> QED
  BY <1>3, <1>5, <1>6

\* The text t was built as far as f in a buffer of z bytes: it is like f unless
\* it failed, and its room is what f left of the buffer.
Building(t, f, z) ==
    /\ t \in Text /\ f \in Str
    /\ t.room >= 0 =>
        /\ Alike(t.str, f, z - 1)
        /\ Len(t.str) = IF t.room = 0 THEN z - 1 ELSE z - t.room

LEMMA PutFacts ==
    ASSUME NEW t \in Text, NEW s \in Str
    PROVE  /\ Put(t, s) \in Text /\ Put(t, s).room = t.room - Len(s)
           /\ t.room >= 0 => Put(t, s).str = t.str \o Cut(s, t.room)
<1>1. t.str \in Str /\ t.room \in Int /\ t.over \in BOOLEAN /\ Len(s) \in Nat
  BY DEF Text, Str
<1>2. t.str \o s \in Str /\ t.str \o Cut(s, t.room) \in Str
  BY <1>1, StrJoin, CutFacts
<1>3. t.room >= 0 => ~(t.room < 0)
  BY <1>1
<1>4. t.room - Len(s) \in Int /\ (t.over \/ t.room < 0) \in BOOLEAN
  BY <1>1
<1>5. t.str \o (IF t.room < 0 THEN s ELSE Cut(s, t.room)) \in Str
  BY <1>2
<1> QED
  BY <1>3, <1>4, <1>5 DEF Put, Text

\* A part is written after the text.
LEMMA PutBuilds ==
    ASSUME NEW z \in Nat, z >= 1, NEW t, NEW f, Building(t, f, z), NEW s \in Str, NEW q \in Str,
           Alike(s, q, z - 1)
    PROVE  Building(Put(t, s), f \o q, z)
<1> DEFINE u == Put(t, s)
           r == t.room
           l == Len(s)
           lt == Len(t.str)
           c == Cut(s, r)
<1>1. /\ t \in Text /\ f \in Str /\ t.str \in Str /\ r \in Int /\ l \in Nat /\ lt \in Nat
      /\ f \o q \in Str /\ z - 1 \in Nat
  BY StrJoin DEF Building, Text, Str
<1>2. u \in Text /\ u.room = r - l /\ (r >= 0 => u.str = t.str \o c)
  BY <1>1, PutFacts
<1>3. /\ c \in Str /\ (l < r => c = s) /\ (r <= 1 => c = <<>>)
      /\ (r >= 1 /\ r <= l => Len(c) = r - 1)
  BY <1>1, CutFacts
<1>4. r >= 0 => Alike(t.str, f, z - 1) /\ lt = IF r = 0 THEN z - 1 ELSE z - r
  BY DEF Building
<1>5. /\ Len(t.str \o c) = lt + Len(c) /\ Len(t.str \o s) = lt + l /\ t.str \o s \in Str
      /\ \A i \in 1 .. lt : (t.str \o c)[i] = t.str[i] /\ (t.str \o s)[i] = t.str[i]
  BY <1>1, <1>3, StrJoin
<1>8. /\ \A i \in 1 .. Len(c) : (t.str \o c)[lt + i] = c[i]
      /\ \A i \in 1 .. l : (t.str \o s)[lt + i] = s[i]
  BY <1>1, <1>3, StrJoin
<1>6. r >= 0 => Alike(t.str \o s, f \o q, z - 1)
  BY <1>1, <1>4, AlikeJoin
<1> HIDE DEF u, r, l, lt, c
<1>7. ASSUME u.room >= 0
      PROVE  Alike(u.str, f \o q, z - 1) /\ Len(u.str) = IF u.room = 0 THEN z - 1 ELSE z - u.room
  <2>1. r >= 0 /\ l <= r
    BY <1>1, <1>2, <1>7
  <2>2. CASE l < r
    <3>1. u.str = t.str \o s /\ r # 0 /\ u.room # 0
      BY <1>1, <1>2, <1>3, <2>1, <2>2
    <3>2. lt + l = z - (r - l)
      BY <1>1, <1>4, <2>1, <3>1
    <3> QED
      BY <1>2, <1>5, <1>6, <2>1, <3>1, <3>2
  <2>3. CASE l = r /\ r >= 1
    <3>1. Len(c) = r - 1 /\ u.room = 0 /\ lt = z - r
      BY <1>1, <1>2, <1>3, <1>4, <2>3
    <3>2. Len(u.str) = z - 1 /\ Len(t.str \o s) = z /\ u.str = t.str \o c
      <4>1. u.str = t.str \o c
        BY <1>2, <2>1
      <4>2. lt + Len(c) = z - 1 /\ lt + l = z
        BY <1>1, <2>3, <3>1
      <4> QED
        BY <1>5, <4>1, <4>2
    <3>3. Alike(c, s, r - 1)
      BY <1>1, <2>3, CutFacts DEF c
    <3>4. ASSUME NEW i \in 1 .. z - 1
          PROVE  i <= Len(u.str) /\ i <= Len(t.str \o s) /\ u.str[i] = (t.str \o s)[i]
      <4>1. i <= z - 1 /\ i <= z
        OBVIOUS
      <4>2. CASE i <= lt
        <5>1. i \in 1 .. lt
          BY <4>2
        <5> QED
          BY <1>5, <3>2, <4>1, <5>1
      <4>3. CASE i > lt
        <5> DEFINE j == i - lt
        <5>1. j \in 1 .. r - 1 /\ i = lt + j /\ j \in 1 .. Len(c) /\ j \in 1 .. l /\ j <= Len(c)
          BY <1>1, <2>3, <3>1, <4>1, <4>3
        <5> HIDE DEF j
        <5>2. (t.str \o c)[lt + j] = c[j] /\ (t.str \o s)[lt + j] = s[j]
          BY <1>8, <5>1
        <5>3. c[j] = s[j]
          BY <3>3, <5>1 DEF Alike
        <5> QED
          BY <3>2, <4>1, <5>1, <5>2, <5>3
      <4> QED
        BY <1>1, <4>2, <4>3
    <3>5. Alike(u.str, t.str \o s, z - 1)
      BY <3>4 DEF Alike
    <3> QED
      BY <1>6, <2>1, <3>1, <3>2, <3>5, AlikeTrans
  <2>4. CASE l = r /\ r = 0
    <3>1. s = <<>> /\ c = <<>>
      BY <1>3, <2>4 DEF l, Str
    <3>2. u.str = t.str \o s /\ u.room = 0
      BY <1>1, <1>2, <2>1, <2>4, <3>1
    <3>3. lt + l = z - 1
      BY <1>1, <1>4, <2>4
    <3> QED
      BY <1>5, <1>6, <2>1, <3>2, <3>3
  <2> QED
    BY <1>1, <2>1, <2>2, <2>3, <2>4
<1> QED
  BY <1>1, <1>2, <1>7 DEF Building, u

LEMMA EmptyBuilds ==
    ASSUME NEW z \in Nat, z >= 1
    PROVE  Building(Empty(z), <<>>, z)
<1>1. <<>> \in Str /\ Len(<<>>) = 0
  BY DEF Str
<1>2. Empty(z).str = <<>> /\ Empty(z).room = z /\ Empty(z) \in Text
  BY <1>1 DEF Empty, Text
<1>3. z # 0 /\ z - z = 0
  OBVIOUS
<1> QED
  BY <1>1, <1>2, <1>3, AlikeSame DEF Building

\* The first text is what fits of it, whatever its length.
LEMMA StartFacts ==
    ASSUME NEW z \in Nat, z >= 1, NEW s \in Str
    PROVE  Start(s, z) \in Text /\ Alike(Start(s, z).str, s, z - 1)
<1>0. Empty(z) \in Text /\ Empty(z).room = z /\ Empty(z).str = <<>>
  BY EmptyBuilds DEF Building, Empty
<1>1. Empty(z) \in Text /\ Empty(z).room = z /\ Empty(z).room >= 0 /\ Empty(z).str = <<>>
  BY <1>0
<1>2. Start(s, z) \in Text /\ Start(s, z).str = <<>> \o Cut(s, z)
  BY <1>1, PutFacts DEF Start
<1>3. Cut(s, z) \in Str /\ Alike(Cut(s, z), s, z - 1)
  BY CutFacts
<1>4. <<>> \o Cut(s, z) = Cut(s, z)
  BY <1>3, StrJoin
<1> QED
  BY <1>2, <1>3, <1>4

\* The text t was made of f in a buffer of z bytes.
Built(t, f, z) == t \in Text /\ f \in Str /\ (~Failed(t) => Alike(t.str, f, z - 1))

LEMMA BuildingIsBuilt ==
    ASSUME NEW t, NEW f, NEW z, Building(t, f, z)
    PROVE  Built(t, f, z)
<1>1. t.room \in Int
  BY DEF Building, Text
<1> QED
  BY <1>1 DEF Building, Built, Failed

LEMMA NodeTextFacts ==
    ASSUME NEW v \in Str, NEW vk
    PROVE  NodeText(v, vk) \in Str
<1>1. <<Key, Open>> \in Str /\ <<Close>> \in Str /\ <<Key>> \in Str
  BY DEF Str, Key, Open, Close, Byte
<1>2. <<Key, Open>> \o v \o <<Close>> \in Str
  BY <1>1, StrJoin
<1> QED
  BY <1>1, <1>2, StrJoin DEF NodeText

LEMMA NodeBuilt ==
    ASSUME NEW v \in Str, NEW vk, NEW z \in Nat, z >= 1
    PROVE  Built(dm_gen_node_payload(v, vk, z), NodeText(v, vk), z)
<1> DEFINE s == NodeText(v, vk)
           t == Start(s, z)
           u == dm_gen_node_payload(v, vk, z)
<1>1. s \in Str
  BY NodeTextFacts
<1>2. t \in Text /\ Alike(t.str, s, z - 1)
  BY <1>1, StartFacts
<1>3. u = [t EXCEPT !.room = @ - 1]
  BY DEF dm_gen_node_payload
<1> HIDE DEF s, t, u
<1>4. u \in Text /\ u.str = t.str
  BY <1>2, <1>3 DEF Text
<1> QED
  BY <1>1, <1>2, <1>4 DEF Built, s, t, u

\* The parts of a text, one after the other.
Chained(T, parts, z) ==
    T[0] = Empty(z) /\ \A k \in 1 .. Len(parts) : T[k] = Put(T[k - 1], parts[k])

LEMMA ChainExists ==
    ASSUME NEW parts \in Seq(Str), NEW z \in Nat, z >= 1
    PROVE  \E T : Chained(T, parts, z) /\ Chain(parts, z) = T[Len(parts)]
<1> DEFINE n == Len(parts)
           b == Empty(z)
           G == [k \in 1 .. n |-> [t \in Text |-> Put(t, parts[k])]]
           Is(w) == w = [k \in 0 .. n |-> IF k = 0 THEN Empty(z) ELSE Put(w[k - 1], parts[k])]
<1>1. n \in Nat
  OBVIOUS
<1>2. b \in Text
  BY EmptyBuilds DEF Building
<1>3. G \in [1 .. n -> [Text -> Text]] /\ \A k \in 1 .. n, t \in Text : G[k][t] = Put(t, parts[k])
  <2>1. \A k \in 1 .. n, t \in Text : Put(t, parts[k]) \in Text
    <3>1. \A k \in 1 .. n : parts[k] \in Str
      OBVIOUS
    <3> QED
      BY <3>1, PutFacts
  <2> HIDE DEF n
  <2> QED
    BY <2>1
<1> HIDE DEF n, b, G
<1>4. PICK F \in [0 .. n -> Text] : F[0] = b /\ \A k \in 1 .. n : F[k] = G[k][F[k - 1]]
  <2> DEFINE S == Text
  <2>1. n \in Nat /\ b \in S /\ G \in [1 .. n -> [S -> S]]
    BY <1>1, <1>2, <1>3
  <2> HIDE DEF S
  <2>2. \E F \in [0 .. n -> S] : F[0] = b /\ \A k \in 1 .. n : F[k] = G[k][F[k - 1]]
    BY <2>1, RecursionExists
  <2> QED
    BY <2>2 DEF S
<1>5. ASSUME NEW k \in 0 .. n
      PROVE  F[k] = IF k = 0 THEN Empty(z) ELSE Put(F[k - 1], parts[k])
  <2>1. CASE k = 0
    BY <1>4, <2>1 DEF b
  <2>2. CASE k # 0
    <3>1. k \in 1 .. n /\ k - 1 \in 0 .. n
      BY <1>1, <2>2
    <3> QED
      BY <1>3, <1>4, <2>2, <3>1
  <2> QED
    BY <2>1, <2>2
<1>6. Is(F)
  BY <1>4, <1>5
<1>7. Chain(parts, z) = (CHOOSE w : Is(w))[n]
  BY DEF Chain, n
<1>8. ASSUME NEW v, Is(v) PROVE Chained(v, parts, z)
  <2>1. ASSUME NEW k \in 0 .. n
        PROVE  v[k] = IF k = 0 THEN Empty(z) ELSE Put(v[k - 1], parts[k])
    BY <1>8
  <2>2. 0 \in 0 .. n /\ \A k \in 1 .. n : k \in 0 .. n /\ k # 0
    BY <1>1
  <2>3. v[0] = Empty(z)
    BY <2>1, <2>2
  <2>4. \A k \in 1 .. n : v[k] = Put(v[k - 1], parts[k])
    BY <2>1, <2>2
  <2> QED
    BY <2>3, <2>4 DEF Chained, n
<1> HIDE DEF Is
<1>9. Is(CHOOSE w : Is(w))
  BY <1>6
<1> QED
  BY <1>7, <1>8, <1>9 DEF n

\* The separator before member k.
Comma(k) == IF k = 1 THEN <<>> ELSE <<Sep>>

Joins(J, texts) ==
    /\ J[0] = <<>>
    /\ \A k \in 1 .. Len(texts) : J[k] = J[k - 1] \o Comma(k) \o texts[k] /\ J[k] \in Str

LEMMA CommaFacts ==
    ASSUME NEW k
    PROVE  Comma(k) \in Str
<1>1. <<>> \in Str /\ <<Sep>> \in Str
  BY DEF Str, Sep, Byte
<1> QED
  BY <1>1 DEF Comma

LEMMA JoinedExists ==
    ASSUME NEW texts \in Seq(Str)
    PROVE  \E J : Joins(J, texts) /\ Joined(texts) = J[Len(texts)]
<1> DEFINE n == Len(texts)
           b == <<>>
           G == [k \in 1 .. n |-> [t \in Str |-> t \o Comma(k) \o texts[k]]]
           Is(w) == w = [k \in 0 .. n |-> IF k = 0 THEN <<>>
                           ELSE w[k - 1] \o (IF k = 1 THEN <<>> ELSE <<Sep>>) \o texts[k]]
<1>1. n \in Nat
  OBVIOUS
<1>2. b \in Str
  BY DEF Str
<1>3. G \in [1 .. n -> [Str -> Str]] /\ \A k \in 1 .. n, t \in Str : G[k][t] = t \o Comma(k) \o texts[k]
  <2>1. ASSUME NEW k \in 1 .. n, NEW t \in Str PROVE t \o Comma(k) \o texts[k] \in Str
    <3>1. texts[k] \in Str
      OBVIOUS
    <3>2. t \o Comma(k) \in Str
      BY CommaFacts, StrJoin
    <3> QED
      BY <3>1, <3>2, StrJoin
  <2> HIDE DEF n
  <2> QED
    BY <2>1
<1> HIDE DEF n, b, G
<1>4. PICK F \in [0 .. n -> Str] : F[0] = b /\ \A k \in 1 .. n : F[k] = G[k][F[k - 1]]
  <2> DEFINE S == Str
  <2>1. n \in Nat /\ b \in S /\ G \in [1 .. n -> [S -> S]]
    BY <1>1, <1>2, <1>3
  <2> HIDE DEF S
  <2>2. \E F \in [0 .. n -> S] : F[0] = b /\ \A k \in 1 .. n : F[k] = G[k][F[k - 1]]
    BY <2>1, RecursionExists
  <2> QED
    BY <2>2 DEF S
<1>5. ASSUME NEW k \in 0 .. n
      PROVE  F[k] = IF k = 0 THEN <<>> ELSE F[k - 1] \o (IF k = 1 THEN <<>> ELSE <<Sep>>) \o texts[k]
  <2>1. CASE k = 0
    BY <1>4, <2>1 DEF b
  <2>2. CASE k # 0
    <3>1. k \in 1 .. n /\ k - 1 \in 0 .. n
      BY <1>1, <2>2
    <3>2. F[k - 1] \in Str
      BY <1>4, <3>1
    <3>3. F[k] = F[k - 1] \o Comma(k) \o texts[k]
      BY <1>3, <1>4, <3>1, <3>2
    <3> QED
      BY <2>2, <3>3 DEF Comma
  <2> QED
    BY <2>1, <2>2
<1>6. Is(F)
  BY <1>4, <1>5
<1>7. Joined(texts) = (CHOOSE w : Is(w))[n]
  BY DEF Joined, n
<1>8. ASSUME NEW v, Is(v) PROVE Joins(v, texts)
  <2>1. ASSUME NEW k \in 0 .. n
        PROVE  v[k] = IF k = 0 THEN <<>> ELSE v[k - 1] \o (IF k = 1 THEN <<>> ELSE <<Sep>>) \o texts[k]
    BY <1>8
  <2>2. 0 \in 0 .. n /\ \A k \in 1 .. n : k \in 0 .. n /\ k # 0
    BY <1>1
  <2>3. v[0] = <<>>
    BY <2>1, <2>2
  <2>4. ASSUME NEW k \in 1 .. n PROVE v[k] = v[k - 1] \o Comma(k) \o texts[k]
    BY <2>1, <2>2 DEF Comma
  <2> DEFINE T == {k \in Nat : k <= n => v[k] \in Str}
  <2>5. 0 \in T
    BY <1>2, <2>3 DEF b
  <2>6. ASSUME NEW k \in Nat, k \in T PROVE k + 1 \in T
    <3> SUFFICES ASSUME k + 1 <= n PROVE v[k + 1] \in Str
      OBVIOUS
    <3>1. k + 1 \in 1 .. n /\ k + 1 - 1 = k /\ k <= n
      BY <1>1
    <3>5. PICK i \in 1 .. n : i = k + 1 /\ i - 1 = k
      BY <3>1
    <3>6. v[i] = v[i - 1] \o Comma(i) \o texts[i]
      BY <2>4
    <3>2. v[k + 1] = v[k] \o Comma(k + 1) \o texts[k + 1]
      BY <3>5, <3>6, Zenon
    <3>3. v[k] \in Str /\ texts[k + 1] \in Str
      BY <2>6, <3>1 DEF n
    <3>4. v[k] \o Comma(k + 1) \in Str
      BY <3>3, CommaFacts, StrJoin
    <3> QED
      BY <3>2, <3>3, <3>4, StrJoin
  <2> HIDE DEF T
  <2>7. \A k \in Nat : k \in T
    BY <2>5, <2>6, SetInduction
  <2>8. \A k \in 1 .. n : v[k] \in Str
    BY <1>1, <2>7 DEF T
  <2> QED
    BY <2>3, <2>4, <2>8 DEF Joins, n
<1> HIDE DEF Is
<1>9. Is(CHOOSE w : Is(w))
  BY <1>6
<1> QED
  BY <1>7, <1>8, <1>9 DEF n

Assoc(a, b, c) == (a \o b) \o c = a \o (b \o c)

LEMMA AssocHolds ==
    ASSUME NEW a \in Str, NEW b \in Str, NEW c \in Str
    PROVE  Assoc(a, b, c)
BY StrAssoc DEF Assoc

Regroups(a, b, c, x, p) == (a \o (b \o c \o x)) \o p = (a \o b) \o (c \o x \o p)

LEMMA Regroup ==
    ASSUME NEW a \in Str, NEW b \in Str, NEW c \in Str, NEW x \in Str, NEW p \in Str
    PROVE  Regroups(a, b, c, x, p)
<1> DEFINE d == c \o x
           e == a \o b
<1>1. d \in Str /\ e \in Str
  BY StrJoin
<1> HIDE DEF d, e
<1>2. Assoc(b, c, x) /\ Assoc(a, b, d) /\ Assoc(e, d, p)
  BY <1>1, AssocHolds
<1>3. (b \o c) \o x = b \o d /\ e \o d = a \o (b \o d) /\ (e \o d) \o p = e \o (d \o p)
  BY <1>2, Zenon DEF Assoc, d, e
<1>4. (a \o ((b \o c) \o x)) \o p = e \o (d \o p)
  BY <1>3, Zenon
<1> QED
  BY <1>4, Zenon DEF Regroups, d, e

\* Member k of n with what is written around it.
Part(pre, x, post, k, n) == (IF k = 1 THEN pre ELSE <<Sep>>) \o x \o (IF k = n THEN post ELSE <<>>)

LEMMA PartFacts ==
    ASSUME NEW pre \in Str, NEW x \in Str, NEW y \in Str, NEW post \in Str, NEW k, NEW n,
           NEW m \in Nat, Alike(x, y, m)
    PROVE  /\ Part(pre, x, post, k, n) \in Str /\ Part(pre, y, post, k, n) \in Str
           /\ Alike(Part(pre, x, post, k, n), Part(pre, y, post, k, n), m)
<1> DEFINE a == IF k = 1 THEN pre ELSE <<Sep>>
           b == IF k = n THEN post ELSE <<>>
<1>1. <<Sep>> \in Str /\ <<>> \in Str
  BY DEF Str, Sep, Byte
<1>2. a \in Str /\ b \in Str
  BY <1>1
<1> HIDE DEF a, b
<1>3. a \o x \in Str /\ a \o y \in Str /\ a \o x \o b \in Str /\ a \o y \o b \in Str
  BY <1>2, StrJoin
<1>4. Alike(a \o x, a \o y, m)
  BY <1>2, AlikeSame, AlikeJoin
<1>5. Alike(a \o x \o b, a \o y \o b, m)
  BY <1>2, <1>3, <1>4, AlikeSame, AlikeJoin
<1> QED
  BY <1>3, <1>5 DEF Part, a, b

\* The first k of n members with what is written around them.
UpTo(pre, J, post, k, n) == IF k = 0 THEN <<>> ELSE (pre \o J[k]) \o (IF k = n THEN post ELSE <<>>)

LEMMA UpToNext ==
    ASSUME NEW pre \in Str, NEW post \in Str, NEW F \in Seq(Str), NEW J, Joins(J, F),
           NEW k \in 1 .. Len(F)
    PROVE  UpTo(pre, J, post, k, Len(F)) =
             UpTo(pre, J, post, k - 1, Len(F)) \o Part(pre, F[k], post, k, Len(F))
<1> DEFINE n == Len(F)
           p == IF k = n THEN post ELSE <<>>
           x == F[k]
<1>1. n \in Nat /\ x \in Str
  OBVIOUS
<1>2. <<Sep>> \in Str /\ <<>> \in Str
  BY DEF Str, Sep, Byte
<1>3. p \in Str
  BY <1>2
<1>4. J[k] = J[k - 1] \o Comma(k) \o x
  BY DEF Joins
<1>5. UpTo(pre, J, post, k, n) = (pre \o J[k]) \o p
  <2>1. k # 0
    OBVIOUS
  <2> QED
    BY <2>1, Zenon DEF UpTo, p
<1> HIDE DEF n, p, x
<1>6. CASE k = 1
  <2>1. k - 1 = 0
    BY <1>6
  <2>2. J[0] = <<>> /\ Comma(k) = <<>>
    BY <1>6 DEF Joins, Comma
  <2>3. J[k] = <<>> \o <<>> \o x
    BY <1>4, <2>1, <2>2, Zenon
  <2>4. J[k] = x
    BY <1>1, <1>2, <2>3, StrJoin
  <2>5. Part(pre, x, post, k, n) = pre \o x \o p /\ UpTo(pre, J, post, k - 1, n) = <<>>
    BY <1>6, <2>1 DEF Part, UpTo, p
  <2>6. pre \o x \o p \in Str
    BY <1>1, <1>3, StrJoin
  <2>7. <<>> \o (pre \o x \o p) = pre \o x \o p
    BY <2>6, StrJoin
  <2> QED
    BY <1>5, <2>4, <2>5, <2>7 DEF n, x
<1>7. CASE k # 1
  <2>1. k - 1 \in 1 .. n /\ k - 1 # 0 /\ k - 1 # n
    BY <1>1, <1>7 DEF n
  <2>2. J[k - 1] \in Str
    BY <2>1 DEF Joins, n
  <2> DEFINE b == J[k - 1]
  <2>3. UpTo(pre, J, post, k - 1, n) = (pre \o b) \o <<>>
    BY <2>1 DEF UpTo
  <2>4. (pre \o b) \o <<>> = pre \o b
    BY <2>2, StrJoin
  <2>5. Comma(k) = <<Sep>> /\ Part(pre, x, post, k, n) = <<Sep>> \o x \o p
    BY <1>7 DEF Comma, Part, p
  <2>8. b \in Str
    BY <2>2
  <2> DEFINE c == <<Sep>>
  <2>9. c \in Str
    BY <1>2
  <2> HIDE DEF b, c
  <2>6. J[k] = b \o <<Sep>> \o x
    BY <1>4, <2>5 DEF b
  <2>10. Regroups(pre, b, c, x, p)
    BY <1>1, <1>3, <2>8, <2>9, Regroup
  <2>7. (pre \o (b \o c \o x)) \o p = (pre \o b) \o (c \o x \o p)
    BY <2>10, Zenon DEF Regroups
  <2> QED
    BY <1>5, <2>3, <2>4, <2>5, <2>6, <2>7, Zenon DEF n, x, c
<1> QED
  BY <1>6, <1>7

\* The texts of the members, each like what it should be, make a text that is.
LEMMA ChainBuilt ==
    ASSUME NEW z \in Nat, z >= 1, NEW pre \in Str, NEW post \in Str, NEW F \in Seq(Str), Len(F) >= 1,
           NEW texts \in Seq(Str), Len(texts) = Len(F),
           \A i \in 1 .. Len(F) : Alike(texts[i], F[i], z - 1)
    PROVE  Built(Chain([i \in 1 .. Len(F) |-> Part(pre, texts[i], post, i, Len(F))], z),
                 pre \o Joined(F) \o post, z)
<1> DEFINE n == Len(F)
           parts == [i \in 1 .. n |-> Part(pre, texts[i], post, i, n)]
<1>1. n \in Nat /\ n >= 1 /\ z - 1 \in Nat
  OBVIOUS
<1>2. ASSUME NEW i \in 1 .. n
      PROVE  /\ Part(pre, texts[i], post, i, n) \in Str /\ Part(pre, F[i], post, i, n) \in Str
             /\ Alike(Part(pre, texts[i], post, i, n), Part(pre, F[i], post, i, n), z - 1)
  <2>1. texts[i] \in Str /\ F[i] \in Str /\ Alike(texts[i], F[i], z - 1)
    OBVIOUS
  <2> HIDE DEF n
  <2> QED
    BY <1>1, <2>1, PartFacts
<1>3. parts \in Seq(Str) /\ Len(parts) = n /\ \A i \in 1 .. n : parts[i] = Part(pre, texts[i], post, i, n)
  <2> HIDE DEF n
  <2> QED
    BY <1>1, <1>2
<1>4. PICK J : Joins(J, F) /\ Joined(F) = J[n]
  BY JoinedExists
<1> HIDE DEF parts
<1>5. PICK T : Chained(T, parts, z) /\ Chain(parts, z) = T[n]
  BY <1>3, ChainExists
<1> DEFINE U(k) == UpTo(pre, J, post, k, n)
           S == {k \in Nat : k <= n => Building(T[k], U(k), z)}
<1>6. \A k \in 1 .. n : U(k) = U(k - 1) \o Part(pre, F[k], post, k, n)
  BY <1>4, UpToNext
<1>7. U(0) = <<>>
  BY DEF UpTo
<1>8. U(n) = (pre \o Joined(F)) \o post
  BY <1>1, <1>4 DEF UpTo
<1> HIDE DEF U, n
<1>9. 0 \in S
  BY <1>5, <1>7, EmptyBuilds DEF Chained
<1>10. ASSUME NEW k \in Nat, k \in S PROVE k + 1 \in S
  <2> SUFFICES ASSUME k + 1 <= n PROVE Building(T[k + 1], U(k + 1), z)
    OBVIOUS
  <2>1. PICK i \in 1 .. n : i = k + 1 /\ i - 1 = k /\ k <= n
    BY <1>1
  <2> DEFINE s == Part(pre, texts[i], post, i, n)
             q == Part(pre, F[i], post, i, n)
  <2>2. s \in Str /\ q \in Str /\ Alike(s, q, z - 1) /\ parts[i] = s
    BY <1>2, <1>3
  <2>3. T[i] = Put(T[i - 1], parts[i])
    BY <1>3, <1>5 DEF Chained
  <2>4. U(i) = U(i - 1) \o q
    BY <1>6
  <2> HIDE DEF s, q
  <2>5. Building(T[k], U(k), z)
    BY <1>10, <2>1
  <2>6. Building(Put(T[k], s), U(k) \o q, z)
    BY <2>2, <2>5, PutBuilds
  <2>7. T[i] = Put(T[k], s) /\ U(i) = U(k) \o q
    BY <2>1, <2>2, <2>3, <2>4, Zenon
  <2> QED
    BY <2>1, <2>6, <2>7, Zenon
<1> HIDE DEF S
<1>11. \A k \in Nat : k \in S
  BY <1>9, <1>10, SetInduction
<1>12. Building(T[n], U(n), z)
  BY <1>1, <1>11 DEF S
<1> QED
  BY <1>5, <1>8, <1>12, BuildingIsBuilt DEF parts, n

\* The members without a failure: their texts, and what is meant by them.
LEMMA JoinedFacts ==
    ASSUME NEW F \in Seq(Str), Len(F) >= 1, NEW pre \in Str, NEW post \in Str
    PROVE  /\ Joined(F) \in Str /\ pre \o Joined(F) \o post \in Str
           /\ Len(F) = 1 => pre \o Joined(F) \o post = Part(pre, F[1], post, 1, 1)
<1> DEFINE n == Len(F)
<1>1. PICK J : Joins(J, F) /\ Joined(F) = J[n]
  BY JoinedExists
<1>2. n \in 1 .. n
  OBVIOUS
<1>3. Joined(F) \in Str
  BY <1>1, <1>2 DEF Joins
<1>4. pre \o Joined(F) \in Str
  BY <1>3, StrJoin
<1>5. pre \o Joined(F) \o post \in Str
  BY <1>4, StrJoin
<1>6. ASSUME n = 1
      PROVE  pre \o Joined(F) \o post = Part(pre, F[1], post, 1, 1)
  <2>1. 1 \in 1 .. Len(F) /\ 1 - 1 = 0
    BY <1>6
  <2>2. UpTo(pre, J, post, 1, 1) = UpTo(pre, J, post, 0, 1) \o Part(pre, F[1], post, 1, 1)
    <3>1. PICK k \in 1 .. Len(F) : k = 1 /\ k - 1 = 0
      BY <2>1
    <3>2. UpTo(pre, J, post, k, Len(F)) =
             UpTo(pre, J, post, k - 1, Len(F)) \o Part(pre, F[k], post, k, Len(F))
      BY <1>1, UpToNext
    <3> QED
      BY <1>6, <3>1, <3>2, Zenon
  <2>3. UpTo(pre, J, post, 0, 1) = <<>> /\ UpTo(pre, J, post, 1, 1) = (pre \o J[1]) \o post
    BY DEF UpTo
  <2>4. F[1] \in Str
    BY <2>1
  <2> DEFINE q == Part(pre, F[1], post, 1, 1)
  <2>5. q \in Str
    BY <2>4, PartFacts, AlikeSame
  <2> HIDE DEF q
  <2>6. <<>> \o q = q
    BY <2>5, StrJoin
  <2>7. J[1] = Joined(F)
    BY <1>1, <1>6
  <2> QED
    BY <2>2, <2>3, <2>6, <2>7, Zenon DEF q
<1> QED
  BY <1>3, <1>5, <1>6

\* Members built in buffers of z bytes, enclosed in one of z bytes.
LEMMA EnclosedBuilt ==
    ASSUME NEW z \in Nat, z >= 1, NEW pre \in Str, NEW post \in Str, NEW F \in Seq(Str), Len(F) >= 1,
           NEW texts \in Seq(Text), Len(texts) = Len(F),
           \A i \in 1 .. Len(F) : Built(texts[i], F[i], z)
    PROVE  Built(Enclose(texts, pre, post, z), pre \o Joined(F) \o post, z)
<1> DEFINE n == Len(F)
           f == pre \o Joined(F) \o post
           strs == [i \in 1 .. n |-> texts[i].str]
           s == [i \in 1 .. n |-> Part(pre, strs[i], post, i, n)]
           over == \E i \in 1 .. n : texts[i].over
           all == IF n = 1 THEN [Start(s[1], z) EXCEPT !.room = 0] ELSE Chain(s, z)
           fails == \E i \in 1 .. n : Failed(texts[i])
           e == Enclose(texts, pre, post, z)
<1>1. n \in Nat /\ n >= 1 /\ z - 1 \in Nat /\ over \in BOOLEAN
  OBVIOUS
<1>2. f \in Str /\ (n = 1 => f = Part(pre, F[1], post, 1, 1))
  BY JoinedFacts
<1>3. \A i \in 1 .. n : texts[i] \in Text /\ F[i] \in Str
  OBVIOUS
<1>4. \A i \in 1 .. n : texts[i].str \in Str
  BY <1>3 DEF Text
<1>5. strs \in Seq(Str) /\ Len(strs) = n /\ \A i \in 1 .. n : strs[i] = texts[i].str
  <2> HIDE DEF n
  <2> QED
    BY <1>1, <1>4
<1>6. e = IF fails THEN [str |-> <<>>, room |-> -1, over |-> over] ELSE [all EXCEPT !.over = @ \/ over]
  <2>1. s = [i \in 1 .. n |-> (IF i = 1 THEN pre ELSE <<Sep>>) \o texts[i].str
                               \o (IF i = n THEN post ELSE <<>>)]
    BY DEF Part
  <2> DEFINE s0 == [i \in 1 .. n |-> (IF i = 1 THEN pre ELSE <<Sep>>) \o texts[i].str
                               \o (IF i = n THEN post ELSE <<>>)]
  <2>2. e = IF fails THEN [str |-> <<>>, room |-> -1, over |-> over]
            ELSE [(IF n = 1 THEN [Start(s0[1], z) EXCEPT !.room = 0] ELSE Chain(s0, z)) EXCEPT !.over = @ \/ over]
    <3> DEFINE E(m) ==
                 LET o == \E i \in 1 .. m : texts[i].over
                     w == [i \in 1 .. m |-> (IF i = 1 THEN pre ELSE <<Sep>>) \o texts[i].str
                                            \o (IF i = m THEN post ELSE <<>>)]
                 IN  IF \E i \in 1 .. m : Failed(texts[i]) THEN [str |-> <<>>, room |-> -1, over |-> o]
                     ELSE [(IF m = 1 THEN [Start(w[1], z) EXCEPT !.room = 0] ELSE Chain(w, z))
                             EXCEPT !.over = @ \/ o]
    <3>1. e = E(Len(texts))
      BY Zenon DEF Enclose
    <3>2. Len(texts) = n
      OBVIOUS
    <3>3. E(Len(texts)) = E(n)
      <4> HIDE DEF E, n
      <4> QED
        BY <3>2, Zenon
    <3> QED
      BY <3>1, <3>3
  <2>3. s = s0
    BY <2>1
  <2> HIDE DEF s, s0, fails, over, n, e
  <2> QED
    BY <2>2, <2>3, Zenon
<1>7. CASE fails
  <2>1. e = [str |-> <<>>, room |-> -1, over |-> over]
    BY <1>6, <1>7
  <2>2. <<>> \in Str
    BY DEF Str
  <2> HIDE DEF e, over, f
  <2>3. e \in Text /\ e.room = -1
    BY <1>1, <2>1, <2>2 DEF Text
  <2>4. Failed(e)
    BY <2>3 DEF Failed
  <2> QED
    BY <1>2, <2>3, <2>4 DEF Built, e, f
<1>8. CASE ~fails
  <2>1. \A i \in 1 .. n : Alike(strs[i], F[i], z - 1)
    BY <1>5, <1>8 DEF Built
  <2>2. e = [all EXCEPT !.over = @ \/ over]
    BY <1>6, <1>8
  <2>3. all \in Text /\ (~Failed(all) => Alike(all.str, f, z - 1))
    <3>1. CASE n = 1
      <4> DEFINE x == Part(pre, strs[1], post, 1, 1)
                 y == Part(pre, F[1], post, 1, 1)
                 u == Start(x, z)
      <4>1. 1 \in 1 .. n
        BY <3>1
      <4>2. strs[1] \in Str /\ F[1] \in Str /\ Alike(strs[1], F[1], z - 1)
        BY <1>3, <1>4, <1>5, <2>1, <4>1
      <4>3. x \in Str /\ y \in Str /\ Alike(x, y, z - 1)
        BY <1>1, <4>2, PartFacts
      <4>4. s[1] = x
        BY <3>1, <4>1
      <4> HIDE DEF x, y
      <4>5. u \in Text /\ Alike(u.str, x, z - 1)
        BY <4>3, StartFacts
      <4>6. Alike(u.str, y, z - 1)
        BY <4>3, <4>5, AlikeTrans
      <4>7. all = [u EXCEPT !.room = 0]
        BY <3>1, <4>4
      <4> HIDE DEF u, all
      <4>8. all \in Text /\ all.str = u.str
        BY <4>5, <4>7 DEF Text
      <4> QED
        BY <1>2, <3>1, <4>6, <4>8 DEF y
    <3>2. CASE n # 1
      <4>1. Built(Chain(s, z), f, z)
        <5>1. /\ strs \in Seq(Str) /\ Len(strs) = Len(F)
              /\ \A i \in 1 .. Len(F) : Alike(strs[i], F[i], z - 1)
          BY <1>5, <2>1
        <5> HIDE DEF strs
        <5> QED
          BY <5>1, ChainBuilt
      <4>2. all = Chain(s, z)
        BY <3>2
      <4> HIDE DEF all, s, f
      <4> QED
        BY <4>1, <4>2 DEF Built
    <3> QED
      BY <3>1, <3>2
  <2> HIDE DEF all, e, over, f
  <2>4. e \in Text /\ e.str = all.str /\ e.room = all.room
    BY <1>1, <2>2, <2>3 DEF Text
  <2>5. Failed(e) <=> Failed(all)
    BY <2>4 DEF Failed
  <2> QED
    BY <1>2, <2>3, <2>4, <2>5 DEF Built, e, f
<1> QED
  BY <1>7, <1>8

LEMMA MarkFacts ==
    ASSUME NEW vk
    PROVE  /\ Pre(vk) \in Str /\ Post(vk) \in Str /\ <<Open>> \in Str /\ <<Close>> \in Str /\ <<>> \in Str
           /\ <<Key>> \in Str /\ <<Key, Open, Ver, Close>> \in Str
<1>1. /\ <<Key, Open, Open>> \in Str /\ <<Key, Open>> \in Str /\ <<Close, Close>> \in Str /\ <<Close>> \in Str
      /\ <<Open>> \in Str /\ <<>> \in Str /\ <<Key>> \in Str /\ <<Key, Open, Ver, Close>> \in Str
  BY DEF Str, Key, Open, Close, Ver, Byte
<1> QED
  BY <1>1 DEF Pre, Post

\* The nodes of a structure or an array, enclosed.
LEMMA NodesBuilt ==
    ASSUME NEW nodes \in NonEmpty(Str), NEW z \in Nat, z >= 1, NEW pre \in Str, NEW post \in Str
    PROVE  Built(Enclose(Nodes(nodes, z), pre, post, z), pre \o Joined(NodeTexts(nodes)) \o post, z)
<1> DEFINE n == Len(nodes)
           texts == Nodes(nodes, z)
           F == NodeTexts(nodes)
<1>1. nodes \in Seq(Str) /\ n \in Nat /\ n >= 1 /\ DOMAIN nodes = 1 .. n
  BY DEF NonEmpty
<1>2. \A i \in 1 .. n : nodes[i] \in Str
  BY <1>1
<1>3. /\ texts = [i \in 1 .. n |-> dm_gen_node_payload(nodes[i], FALSE, z)]
      /\ F = [i \in 1 .. n |-> NodeText(nodes[i], FALSE)]
  BY <1>1, Zenon DEF Nodes, NodeTexts
<1> HIDE DEF n, texts, F
<1>4. \A i \in 1 .. n : Built(dm_gen_node_payload(nodes[i], FALSE, z), NodeText(nodes[i], FALSE), z)
  BY <1>2, NodeBuilt
<1>5. \A i \in 1 .. n : dm_gen_node_payload(nodes[i], FALSE, z) \in Text /\ NodeText(nodes[i], FALSE) \in Str
  BY <1>4 DEF Built
<1>6. /\ texts \in Seq(Text) /\ Len(texts) = n /\ F \in Seq(Str) /\ Len(F) = n
      /\ \A i \in 1 .. n : texts[i] = dm_gen_node_payload(nodes[i], FALSE, z) /\ F[i] = NodeText(nodes[i], FALSE)
  <2> DEFINE a(i) == dm_gen_node_payload(nodes[i], FALSE, z)
             b(i) == NodeText(nodes[i], FALSE)
  <2>1. /\ texts = [i \in 1 .. n |-> a(i)] /\ F = [i \in 1 .. n |-> b(i)]
        /\ \A i \in 1 .. n : a(i) \in Text /\ b(i) \in Str
    BY <1>3, <1>5
  <2> HIDE DEF a, b
  <2>2. /\ texts \in Seq(Text) /\ Len(texts) = n /\ F \in Seq(Str) /\ Len(F) = n
        /\ \A i \in 1 .. n : texts[i] = a(i) /\ F[i] = b(i)
    BY <1>1, <2>1
  <2> QED
    BY <2>2 DEF a, b
<1>7. /\ Len(F) >= 1 /\ Len(texts) = Len(F)
      /\ \A i \in 1 .. Len(F) : Built(texts[i], F[i], z)
  BY <1>1, <1>4, <1>6
<1>8. Built(Enclose(texts, pre, post, z), pre \o Joined(F) \o post, z)
  BY <1>6, <1>7, EnclosedBuilt
<1> QED
  BY <1>8 DEF texts, F

\* The text of a property is like what is meant by it.
LEMMA PropertyBuilt ==
    ASSUME NEW p, IsProperty(p), NEW vk, NEW z \in Nat, z >= 1
    PROVE  Built(dm_gen_property_post_payload(p, vk, z), PropertyText(p, vk), z)
<1>1. CASE p \in [type : {"NODE"}, value : Seq(Byte)]
  <2>1. p.type = "NODE" /\ p.value \in Str
    BY <1>1 DEF Str
  <2> DEFINE v == p.value
  <2>2. dm_gen_property_post_payload(p, vk, z) = dm_gen_node_payload(v, vk, z)
    BY <2>1 DEF dm_gen_property_post_payload
  <2>3. PropertyText(p, vk) = NodeText(v, vk)
    BY <2>1 DEF PropertyText
  <2>4. v \in Str
    BY <2>1
  <2> HIDE DEF v
  <2> QED
    BY <2>2, <2>3, <2>4, NodeBuilt
<1>2. CASE p \in [type : {"STRUCT", "ARRAY_BASE"}, value : NonEmpty(Seq(Byte))]
  <2>1. p.type \in {"STRUCT", "ARRAY_BASE"} /\ p.value \in NonEmpty(Str)
    BY <1>2 DEF Str
  <2> DEFINE v == p.value
  <2>2. dm_gen_property_post_payload(p, vk, z) = Enclose(Nodes(v, z), Pre(vk), Post(vk), z)
    BY <2>1 DEF dm_gen_property_post_payload, dm_gen_struct_payload, dm_gen_array_base_payload
  <2>3. PropertyText(p, vk) = Pre(vk) \o Joined(NodeTexts(v)) \o Post(vk)
    BY <2>1 DEF PropertyText
  <2>4. v \in NonEmpty(Str)
    BY <2>1
  <2> HIDE DEF v
  <2>5. Built(Enclose(Nodes(v, z), Pre(vk), Post(vk), z), Pre(vk) \o Joined(NodeTexts(v)) \o Post(vk), z)
    BY <2>4, NodesBuilt, MarkFacts
  <2> QED
    BY <2>2, <2>3, <2>5, Zenon
<1>3. CASE p \in [type : {"ARRAY_STRUCT"}, value : NonEmpty(NonEmpty(Seq(Byte)))]
  <2> DEFINE v == p.value
             n == Len(v)
             texts == [i \in DOMAIN v |-> Enclose(Nodes(v[i], z), <<Open>>, <<Close>>, z)]
             F == [i \in DOMAIN v |-> <<Open>> \o Joined(NodeTexts(v[i])) \o <<Close>>]
  <2>1. p.type = "ARRAY_STRUCT" /\ v \in NonEmpty(NonEmpty(Str))
    BY <1>3 DEF Str
  <2>2. dm_gen_property_post_payload(p, vk, z) = Enclose(texts, Pre(vk), Post(vk), z)
    BY <2>1 DEF dm_gen_property_post_payload, dm_gen_array_struct_payload
  <2>3. PropertyText(p, vk) = Pre(vk) \o Joined(F) \o Post(vk)
    BY <2>1 DEF PropertyText
  <2> HIDE DEF v
  <2>4. n \in Nat /\ n >= 1 /\ DOMAIN v = 1 .. n /\ \A i \in 1 .. n : v[i] \in NonEmpty(Str)
    <3> DEFINE N == NonEmpty(Str)
    <3>1. v \in Seq(N) /\ v # <<>>
      BY <2>1 DEF NonEmpty
    <3> HIDE DEF N
    <3>2. n \in Nat /\ n >= 1 /\ DOMAIN v = 1 .. n /\ \A i \in 1 .. n : v[i] \in N
      BY <3>1
    <3> QED
      BY <3>2 DEF N
  <2> HIDE DEF n
  <2>5. \A i \in 1 .. n : Built(Enclose(Nodes(v[i], z), <<Open>>, <<Close>>, z),
                                <<Open>> \o Joined(NodeTexts(v[i])) \o <<Close>>, z)
    BY <2>4, NodesBuilt, MarkFacts
  <2>6. \A i \in 1 .. n : /\ Enclose(Nodes(v[i], z), <<Open>>, <<Close>>, z) \in Text
                          /\ <<Open>> \o Joined(NodeTexts(v[i])) \o <<Close>> \in Str
    BY <2>5 DEF Built
  <2>7. texts \in Seq(Text) /\ Len(texts) = n /\ F \in Seq(Str) /\ Len(F) = n
    <3> DEFINE a(i) == Enclose(Nodes(v[i], z), <<Open>>, <<Close>>, z)
               b(i) == <<Open>> \o Joined(NodeTexts(v[i])) \o <<Close>>
    <3>1. /\ texts = [i \in 1 .. n |-> a(i)] /\ F = [i \in 1 .. n |-> b(i)]
          /\ \A i \in 1 .. n : a(i) \in Text /\ b(i) \in Str
      BY <2>4, <2>6
    <3> HIDE DEF a, b, texts, F
    <3> QED
      BY <2>4, <3>1
  <2>8. \A i \in 1 .. n : Built(texts[i], F[i], z)
    BY <2>4, <2>5
  <2> HIDE DEF texts, F
  <2>9. Len(F) >= 1 /\ Len(texts) = Len(F) /\ \A i \in 1 .. Len(F) : Built(texts[i], F[i], z)
    BY <2>4, <2>7, <2>8
  <2>10. Built(Enclose(texts, Pre(vk), Post(vk), z), Pre(vk) \o Joined(F) \o Post(vk), z)
    BY <2>7, <2>9, EnclosedBuilt, MarkFacts
  <2> QED
    BY <2>2, <2>3, <2>10, Zenon
<1> QED
  BY <1>1, <1>2, <1>3 DEF IsProperty

\* So is the text of a report.
LEMMA ReportBuilt ==
    ASSUME NEW props \in Report, NEW t, NEW vk, NEW z \in Nat, z >= 1
    PROVE  Built(dm_gen_properties_payload(props, t, vk, z), ReportText(props, t, vk), z)
<1> DEFINE n == Len(props)
           D == DOMAIN props
           A(i) == CASE t = "DESIRED_GET"    -> Start(<<Key>>, z)
                     [] t = "DESIRED_DELETE" -> Start(<<Key, Open, Ver, Close>>, z)
                     [] OTHER                -> dm_gen_property_post_payload(props[i], vk, z)
           B(i) == CASE t = "DESIRED_GET"    -> <<Key>>
                     [] t = "DESIRED_DELETE" -> <<Key, Open, Ver, Close>>
                     [] OTHER                -> PropertyText(props[i], vk)
           texts == [i \in D |-> A(i)]
           F == [i \in D |-> B(i)]
           strs == [i \in D |-> texts[i].str]
           s == [i \in D |-> (IF i = 1 THEN <<>> ELSE <<Sep>>) \o texts[i].str]
           over == \E i \in D : texts[i].over
           fails == \E i \in D : Failed(texts[i])
           e == dm_gen_properties_payload(props, t, vk, z)
           c == Chain(s, z)
<1>1. n \in Nat /\ n >= 1 /\ D = 1 .. n /\ \A i \in D : IsProperty(props[i])
  <2> DEFINE P == {props[i] : i \in DOMAIN props}
  <2>1. props # <<>> /\ props \in Seq(P) /\ \A i \in D : IsProperty(props[i])
    BY DeviceModelAssumption
  <2> HIDE DEF P
  <2> QED
    BY <2>1
<1>2. ASSUME NEW i \in D
      PROVE  Built(A(i), B(i), z) /\ A(i) \in Text /\ B(i) \in Str
  <2>1. CASE t = "DESIRED_GET"
    <3>1. A(i) = Start(<<Key>>, z) /\ B(i) = <<Key>>
      BY <2>1
    <3> DEFINE k == <<Key>>
    <3>2. k \in Str
      BY MarkFacts
    <3> HIDE DEF k
    <3>3. Built(Start(k, z), k, z)
      BY <3>2, StartFacts DEF Built
    <3> HIDE DEF A, B
    <3> QED
      BY <3>1, <3>3 DEF Built, k
  <2>2. CASE t = "DESIRED_DELETE"
    <3>1. A(i) = Start(<<Key, Open, Ver, Close>>, z) /\ B(i) = <<Key, Open, Ver, Close>>
      BY <2>2
    <3> DEFINE k == <<Key, Open, Ver, Close>>
    <3>2. k \in Str
      BY MarkFacts
    <3> HIDE DEF k
    <3>3. Built(Start(k, z), k, z)
      BY <3>2, StartFacts DEF Built
    <3> HIDE DEF A, B
    <3> QED
      BY <3>1, <3>3 DEF Built, k
  <2>3. CASE t # "DESIRED_GET" /\ t # "DESIRED_DELETE"
    <3>1. A(i) = dm_gen_property_post_payload(props[i], vk, z) /\ B(i) = PropertyText(props[i], vk)
      BY <2>3
    <3>2. Built(dm_gen_property_post_payload(props[i], vk, z), PropertyText(props[i], vk), z)
      BY <1>1, PropertyBuilt
    <3> HIDE DEF A, B
    <3> QED
      BY <3>1, <3>2 DEF Built
  <2> QED
    BY <2>1, <2>2, <2>3
<1>3. ReportText(props, t, vk) = Joined(F)
  BY Zenon DEF ReportText
<1>4. e = IF fails THEN [str |-> <<>>, room |-> -1, over |-> over] ELSE [c EXCEPT !.over = @ \/ over]
  <2>1. DOMAIN texts = D
    OBVIOUS
  <2> DEFINE E(d) == IF \E i \in d : Failed(texts[i])
                     THEN [str |-> <<>>, room |-> -1, over |-> \E i \in d : texts[i].over]
                     ELSE [Chain([i \in d |-> (IF i = 1 THEN <<>> ELSE <<Sep>>) \o texts[i].str], z)
                             EXCEPT !.over = @ \/ (\E i \in d : texts[i].over)]
  <2>2. e = E(DOMAIN texts)
    BY Zenon DEF dm_gen_properties_payload
  <2>3. E(DOMAIN texts) = E(D)
    <3> HIDE DEF E, texts, D
    <3> QED
      BY <2>1, Zenon
  <2> QED
    BY <2>2, <2>3, Zenon
<1> HIDE DEF A, B, e, n
<1>5. /\ texts \in Seq(Text) /\ Len(texts) = n /\ F \in Seq(Str) /\ Len(F) = n
      /\ \A i \in 1 .. n : Built(texts[i], F[i], z)
  <2> HIDE DEF D
  <2> QED
    BY <1>1, <1>2
<1> HIDE DEF texts, F
<1>6. Joined(F) \in Str /\ <<>> \o Joined(F) \o <<>> = Joined(F)
  <2> DEFINE j == Joined(F)
             m == <<>>
  <2>1. m \in Str
    BY MarkFacts
  <2> HIDE DEF m
  <2>2. j \in Str
    BY <1>1, <1>5, <2>1, JoinedFacts
  <2> HIDE DEF j
  <2>3. <<>> \o j = j /\ j \o <<>> = j
    BY <2>2, StrJoin
  <2> QED
    BY <2>2, <2>3, Zenon DEF j
<1>7. CASE fails
  <2>1. e = [str |-> <<>>, room |-> -1, over |-> over]
    BY <1>4, <1>7
  <2>2. <<>> \in Str /\ over \in BOOLEAN
    BY MarkFacts
  <2> HIDE DEF over
  <2>3. e \in Text /\ e.room = -1
    BY <2>1, <2>2 DEF Text
  <2>4. Failed(e)
    BY <2>3 DEF Failed
  <2> QED
    BY <1>3, <1>6, <2>3, <2>4 DEF Built, e
<1>8. CASE ~fails
  <2>1. e = [c EXCEPT !.over = @ \/ over]
    BY <1>4, <1>8
  <2>2. \A i \in 1 .. n : texts[i].str \in Str /\ Alike(texts[i].str, F[i], z - 1)
    <3>1. \A i \in 1 .. n : texts[i] \in Text /\ ~Failed(texts[i])
      BY <1>1, <1>5, <1>8
    <3>2. \A i \in 1 .. n : texts[i].str \in Str
      BY <3>1 DEF Text
    <3> QED
      BY <1>5, <3>1, <3>2 DEF Built
  <2>3. strs \in Seq(Str) /\ Len(strs) = n /\ \A i \in 1 .. n : strs[i] = texts[i].str
    <3> HIDE DEF D
    <3> QED
      BY <1>1, <2>2
  <2>4. s = [i \in 1 .. n |-> Part(<<>>, strs[i], <<>>, i, n)]
    <3>1. ASSUME NEW i \in 1 .. n
          PROVE  (IF i = 1 THEN <<>> ELSE <<Sep>>) \o texts[i].str = Part(<<>>, strs[i], <<>>, i, n)
      <4> DEFINE x == (IF i = 1 THEN <<>> ELSE <<Sep>>) \o texts[i].str
                 b == IF i = n THEN <<>> ELSE <<>>
      <4>1. x \in Str
        <5>1. <<>> \in Str /\ <<Sep>> \in Str
          BY DEF Str, Sep, Byte
        <5>2. (IF i = 1 THEN <<>> ELSE <<Sep>>) \in Str /\ texts[i].str \in Str
          BY <2>2, <5>1
        <5> QED
          BY <5>2, StrJoin
      <4>2. Part(<<>>, strs[i], <<>>, i, n) = x \o b
        BY <2>3, Zenon DEF Part
      <4>3. b = <<>>
        OBVIOUS
      <4> HIDE DEF x, b
      <4>4. x \o <<>> = x
        BY <4>1, StrJoin
      <4>5. Part(<<>>, strs[i], <<>>, i, n) = x
        BY <4>2, <4>3, <4>4, Zenon
      <4> QED
        BY <4>5 DEF x
    <3> HIDE DEF strs, D
    <3> QED
      BY <1>1, <3>1
  <2> HIDE DEF strs, s
  <2>5. Built(c, Joined(F), z)
    <3> DEFINE m == <<>>
    <3>1. m \in Str
      BY MarkFacts
    <3> HIDE DEF m
    <3>2. /\ Len(F) >= 1 /\ Len(strs) = Len(F) /\ \A i \in 1 .. Len(F) : Alike(strs[i], F[i], z - 1)
      BY <1>1, <1>5, <2>2, <2>3
    <3>3. Built(Chain([i \in 1 .. Len(F) |-> Part(m, strs[i], m, i, Len(F))], z), m \o Joined(F) \o m, z)
      BY <1>5, <2>3, <3>1, <3>2, ChainBuilt
    <3>4. c = Chain([i \in 1 .. Len(F) |-> Part(m, strs[i], m, i, Len(F))], z)
      BY <1>5, <2>4, Zenon DEF m
    <3> QED
      BY <1>6, <3>3, <3>4, Zenon DEF m
  <2>6. c \in Text /\ (~Failed(c) => Alike(c.str, Joined(F), z - 1)) /\ over \in BOOLEAN
    BY <2>5 DEF Built
  <2> HIDE DEF c, over
  <2>7. e \in Text /\ e.str = c.str /\ e.room = c.room
    BY <2>1, <2>6 DEF Text
  <2>8. Failed(e) <=> Failed(c)
    BY <2>7 DEF Failed
  <2> QED
    BY <1>3, <1>6, <2>6, <2>7, <2>8 DEF Built, e
<1> QED
  BY <1>7, <1>8

-----------------------------------------------------------------------------
(* What the cloud gets of reports and replies *)

LEMMA BufferSizes == /\ ReportBufLen \in Nat /\ ReportBufLen >= 1
                     /\ ReplyBufLen \in Nat /\ ReplyBufLen >= 1
BY DeviceModelAssumption

\* What the device publishes is what the cloud decodes.
LEMMA DecodedIs ==
    ASSUME NEW t \in DM_Type, NEW S, Byte \subseteq S, NEW text \in Seq(S), _dm_mqtt_publish(Up[t], text)
    PROVE  Decoded(Up[t], text) = text
<1> DEFINE o == Up[t]
           m == Publication(o, text)
           r == _get_publish_packet_len(m)
           h == 1 + Len(RL(r))
           b == _serialize_publish_packet(m)
<1>1. o \in Seq(Byte) /\ Len(o) <= MaxTopic
  BY DeviceModelAssumption DEF _dm_mqtt_publish
<1>2. o \in Seq(S) /\ Len(o) \in Nat
  <2> HIDE DEF o
  <2> QED
    BY <1>1
<1>3. Len(o) <= UINT16_MAX
  <2>1. MaxTopic \in Nat /\ MaxTopic <= UINT16_MAX /\ UINT16_MAX \in Nat
    BY ReceiveAssumption DEF UINT16_MAX
  <2> DEFINE l == Len(o)
  <2>2. l \in Nat /\ l <= MaxTopic
    BY <1>1, <1>2
  <2> HIDE DEF l
  <2>3. l <= UINT16_MAX
    BY <2>1, <2>2
  <2> QED
    BY <2>3 DEF l
<1> HIDE DEF o
<1>4. /\ m = [topic |-> m.topic, qos |-> m.qos, payload |-> m.payload, dup |-> m.dup, id |-> m.id]
      /\ m.topic = o /\ m.payload = text /\ m.qos = 1 /\ m.dup = 0 /\ m.id = 1
  BY DEF Publication
<1>5. 1 \in 0 .. 2 /\ 0 \in 0 .. 1 /\ 1 \in Nat /\ 1 <= UINT16_MAX
  BY DEF UINT16_MAX
<1> HIDE DEF m
<1>6. IsPublish(m, S)
  BY <1>2, <1>3, <1>4, <1>5 DEF IsPublish
<1>7. b \in Seq(S) /\ Parted(b, <<HeadByte(m)>>, RL(r), mqtt_write_uint_16(Len(m.topic)), m.topic,
                             IdBytes(m), m.payload)
  BY <1>6, Serialized
<1>8. r \in Nat /\ r = 2 + Len(m.topic) + Len(IdBytes(m)) + Len(m.payload)
  BY <1>6, LengthFacts
<1>9. /\ Len(m.topic) \in Nat /\ Len(m.payload) \in Nat /\ Len(IdBytes(m)) \in Nat
      /\ Len(mqtt_write_uint_16(Len(m.topic))) = 2 /\ Len(RL(r)) \in Nat
  <2>1. Len(mqtt_write_uint_16(Len(m.topic))) = 2
    BY <1>2, <1>3, <1>4, TwoBytes
  <2>2. Len(RL(r)) \in Nat
    BY <1>8, RemLenSize
  <2> QED
    BY <1>4, <1>6, <2>1, <2>2, LengthFacts, IdFacts
<1>10. h + r <= Len(b)
  <2> DEFINE a1 == Len(RL(r))
             a2 == Len(m.topic)
             a3 == Len(IdBytes(m))
             a4 == Len(m.payload)
  <2>1. Len(b) = 1 + a1 + 2 + a2 + a3 + a4
    <3>1. Len(<<HeadByte(m)>>) = 1
      OBVIOUS
    <3> QED
      BY <1>7, <1>9, <3>1, Zenon DEF Parted
  <2>2. a1 \in Nat /\ a2 \in Nat /\ a3 \in Nat /\ a4 \in Nat /\ r = 2 + a2 + a3 + a4 /\ h = 1 + a1
    BY <1>8, <1>9
  <2> HIDE DEF a1, a2, a3, a4, r, h, b
  <2> QED
    BY <2>1, <2>2
<1>11. b[1] = HeadByte(m)
  <2>1. Len(<<HeadByte(m)>>) = 1 /\ <<HeadByte(m)>>[1] = HeadByte(m) /\ 1 \in 1 .. 1
    OBVIOUS
  <2> QED
    BY <1>7, <2>1 DEF Parted
<1>12. deserialize_publish_packet(b, h, r) = m
  BY <1>6, <1>7, <1>10, <1>11, Decodes
<1>13. Decoded(o, text) = deserialize_publish_packet(b, h, r).payload
  BY DEF Decoded, RL, m
<1> QED
  BY <1>4, <1>12, <1>13 DEF o

LEMMA CutWhole ==
    ASSUME NEW S, NEW s \in Seq(S), NEW z \in Nat, Len(s) < z
    PROVE  Cut(s, z) = s
<1> DEFINE l == Len(s)
<1>1. l \in Nat /\ l < z /\ s = [i \in 1 .. l |-> s[i]]
  OBVIOUS
<1>2. Min2(l, z - 1) = l
  BY <1>1 DEF Min2
<1>3. Cut(s, z) = SubSeq(s, 1, l)
  BY <1>2 DEF Cut
<1>4. SubSeq(s, 1, l) = [i \in 1 .. l - 1 + 1 |-> s[1 + i - 1]]
  BY <1>1
<1>5. l - 1 + 1 = l /\ \A i \in 1 .. l : 1 + i - 1 = i
  BY <1>1
<1> QED
  BY <1>1, <1>3, <1>4, <1>5

\* A report's payload, and that it is longer than its text.
LEMMA WrapFacts ==
    ASSUME NEW t, t # "RESTORE", NEW s \in Str
    PROVE  Wrap(t, s) \in Str /\ Len(Wrap(t, s)) \in Nat /\ Len(s) + 1 < Len(Wrap(t, s))
<1> DEFINE a == <<RequestID, 0>>
           b == IF t = "EVENT_POST" THEN <<Identifier, 0, Open>> ELSE <<Property, Open>>
           c == <<Close>>
<1>1. a \in Str /\ b \in Str /\ c \in Str /\ Len(a) = 2 /\ Len(b) >= 2 /\ Len(c) = 1
  <2>1. a \in Str /\ c \in Str /\ Len(a) = 2 /\ Len(c) = 1
    BY DEF Str, Byte, RequestID, Close
  <2>2. <<Identifier, 0, Open>> \in Str /\ Len(<<Identifier, 0, Open>>) = 3
    BY DEF Str, Byte, Identifier, Open
  <2>3. <<Property, Open>> \in Str /\ Len(<<Property, Open>>) = 2
    BY DEF Str, Byte, Property, Open
  <2>4. b \in Str /\ (Len(b) = 3 \/ Len(b) = 2)
    BY <2>2, <2>3
  <2> HIDE DEF a, b, c
  <2>5. \A n : n = 3 \/ n = 2 => n >= 2
    OBVIOUS
  <2> QED
    BY <2>1, <2>4, <2>5, Zenon
<1>2. Wrap(t, s) = a \o (b \o s \o c)
  BY DEF Wrap
<1> HIDE DEF a, b, c
<1>3. b \o s \in Str /\ Len(b \o s) = Len(b) + Len(s) /\ Len(b) \in Nat /\ Len(s) \in Nat
  BY <1>1, StrJoin
<1> DEFINE x == b \o s
           y == x \o c
<1>7. x \in Str /\ Len(x) = Len(b) + Len(s)
  BY <1>3
<1> HIDE DEF x
<1>8. y \in Str /\ Len(y) = Len(x) + Len(c)
  BY <1>1, <1>7, StrJoin
<1> HIDE DEF y
<1>4. y \in Str /\ Len(y) = Len(b) + Len(s) + 1
  BY <1>1, <1>7, <1>8
<1>9. a \o y \in Str /\ Len(a \o y) = Len(a) + Len(y) /\ Len(y) \in Nat
  BY <1>1, <1>4, StrJoin
<1>5. a \o y \in Str /\ Len(a \o y) = 2 + Len(y) /\ Len(y) \in Nat
  BY <1>1, <1>9
<1>6. Len(s) + 1 < 2 + Len(y) /\ 2 + Len(y) \in Nat
  BY <1>1, <1>3, <1>4
<1> QED
  BY <1>2, <1>5, <1>6 DEF x, y

\* A report that is published is whole.
LEMMA ReportWhole ==
    ASSUME NEW t \in DM_Type, t # "RESTORE", NEW props \in Report, ReportEx(t, props)
    PROVE  report'.got = report'.meant
<1> DEFINE vk == t # "EVENT_POST"
           z == ReportBufLen
           text == dm_gen_properties_payload(props, t, vk, z)
           f == ReportText(props, t, vk)
<1>1. z \in Nat /\ z >= 1 /\ z - 1 \in Nat
  BY BufferSizes
<1>2. Built(text, f, z)
  BY <1>1, ReportBuilt
<1>3. CASE report' = NoReport
  BY <1>3 DEF NoReport
<1>4. CASE /\ ~Failed(text) /\ Accepts(t, text.str) /\ _dm_mqtt_publish(Up[t], Wrap(t, text.str))
           /\ report' = [meant |-> Wrap(t, f), got |-> Decoded(Up[t], Wrap(t, text.str))]
  <2> DEFINE s == text.str
  <2>1. Alike(s, f, z - 1) /\ s \in Str /\ f \in Str
    BY <1>2, <1>4 DEF Built, Text
  <2>2. Len(Wrap(t, s)) < z
    BY <1>4 DEF Accepts
  <2>3. report'.meant = Wrap(t, f) /\ report'.got = Decoded(Up[t], Wrap(t, s))
    BY <1>4
  <2>4. _dm_mqtt_publish(Up[t], Wrap(t, s))
    BY <1>4
  <2> HIDE DEF s, f
  <2>5. Wrap(t, s) \in Str /\ Len(Wrap(t, s)) \in Nat /\ Len(s) + 1 < Len(Wrap(t, s)) /\ Len(s) \in Nat
    BY <2>1, WrapFacts DEF Str
  <2>6. Len(s) < z - 1
    BY <1>1, <2>2, <2>5
  <2>7. s = f
    BY <1>1, <2>1, <2>6, AlikeWhole
  <2>8. Decoded(Up[t], Wrap(t, s)) = Wrap(t, s)
    <3> DEFINE w == Wrap(t, s)
    <3>1. w \in Seq(Byte) /\ _dm_mqtt_publish(Up[t], w)
      BY <2>4, <2>5 DEF Str
    <3> HIDE DEF w
    <3>2. Decoded(Up[t], w) = w
      BY <3>1, DecodedIs
    <3> QED
      BY <3>2 DEF w
  <2> QED
    BY <2>3, <2>7, <2>8
<1> QED
  BY <1>3, <1>4, Zenon DEF ReportEx

LEMMA PublishedNext == PublishedComplete /\ [Next]_vars => PublishedComplete'
<1> SUFFICES ASSUME PublishedComplete, [Next]_vars PROVE report'.got = report'.meant
  BY DEF PublishedComplete
<1>1. CASE report' = NoReport
  BY <1>1 DEF NoReport
<1>2. CASE UNCHANGED report
  BY <1>2 DEF PublishedComplete
<1>3. ASSUME NEW t \in {"POST", "DESIRED_GET", "DESIRED_DELETE", "EVENT_POST"}, NEW r \in Report, ReportEx(t, r)
      PROVE  report'.got = report'.meant
  <2>1. t \in DM_Type /\ t # "RESTORE"
    BY DEF DM_Type
  <2> QED
    BY <1>3, <2>1, ReportWhole
<1>4. CASE Next /\ ~\E t \in {"POST", "DESIRED_GET", "DESIRED_DELETE", "EVENT_POST"}, r \in Report : ReportEx(t, r)
  <2>1. report' = NoReport
    BY <1>4 DEF Next, OthersUnchanged, _dsc_mqtt_register_callback, Incomplete, Callback, Reply, IOT_DM_Destroy
  <2> QED
    BY <1>1, <2>1
<1> QED
  BY <1>2, <1>3, <1>4 DEF vars, dvars

\* A report reaches the cloud as it was meant, whatever its properties and the
\* sizes of the buffers: HAL_Snprintf cuts texts and the builders do not always
\* see it, but a text that was cut fills its buffer and has no room to be wrapped.
THEOREM PublishedCompleteHolds == Spec => []PublishedComplete
<1>1. Init => PublishedComplete
  BY DEF Init, PublishedComplete, NoReport
<1> QED
  BY <1>1, PublishedNext, PTL DEF Spec

\* What the callback of a command may write is a text.
LEMMA OutputFacts == Output \subseteq Str
<1>1. ASSUME NEW r \in Report
      PROVE  dm_gen_properties_payload(r, "POST", FALSE, ReportBufLen).str \in Str
  BY BufferSizes, ReportBuilt DEF Built, Text
<1>2. <<>> \in Str
  BY MarkFacts
<1> QED
  BY <1>1, <1>2 DEF Output

\* The answer a is that to the call c.
Answered(a, c) ==
    \/ a = Dropped
    \/ c.type \in Replying /\ a = ReplyText(c)
    \/ c.type = "COMMAND" /\ Len(ReplyText(c)) = ReportBufLen

\* The calls and their answers; the thread that replies has a request in hand.
AnswerInv ==
    /\ \A i \in DOMAIN calls : calls[i].type \in DM_Type /\ calls[i].out \in Str
    /\ phase = "reply" => calls[Len(calls)].type \in Replying
    /\ \A i \in DOMAIN answers : Answered(answers[i], calls[i])

LEMMA ReplyTextFacts ==
    ASSUME NEW c, c.out \in Str
    PROVE  ReplyText(c) \in Seq(Byte \cup {c.id, c.code}) /\ Len(ReplyText(c)) \in Nat
<1> DEFINE S == Byte \cup {c.id, c.code}
           a == <<RequestID, c.id, RetCodeKey, c.code>>
           o == c.out
           x == <<Identifier, 0, Open>> \o o
           y == x \o <<Close>>
           e == IF c.type = "SET" THEN <<>> ELSE y
<1>1. Byte \subseteq S /\ RequestID \in S /\ RetCodeKey \in S /\ c.id \in S /\ c.code \in S
      /\ Identifier \in S /\ 0 \in S /\ Open \in S /\ Close \in S
  BY DEF Byte, RequestID, RetCodeKey, Identifier, Open, Close
<1>2. ReplyText(c) = a \o e
  BY DEF ReplyText
<1>3. o \in Seq(Byte)
  BY DEF Str
<1> HIDE DEF S, o
<1>4. o \in Seq(S)
  BY <1>1, <1>3
<1>5. a \in Seq(S) /\ <<Identifier, 0, Open>> \in Seq(S) /\ <<Close>> \in Seq(S) /\ <<>> \in Seq(S)
  BY <1>1
<1>6. x \in Seq(S)
  BY <1>4, <1>5
<1> HIDE DEF x
<1>7. y \in Seq(S)
  BY <1>5, <1>6
<1> HIDE DEF y
<1>8. e \in Seq(S)
  BY <1>5, <1>7
<1> HIDE DEF a, e
<1>9. a \o e \in Seq(S) /\ Len(a \o e) \in Nat
  BY <1>5, <1>8
<1> QED
  BY <1>2, <1>9 DEF S

\* A call is that of a registered type's callback, with a text as its output.
LEMMA CallbackCall ==
    ASSUME SlotInv, Callback
    PROVE  \E c : /\ calls' = Append(calls, c) /\ c.type \in DM_Type /\ c.out \in Str
                  /\ phase' = "reply" => c.type \in Replying
                  /\ \/ phase' = "reply" /\ UNCHANGED answers
                     \/ answers' = Append(answers, Dropped)
<1>1. HandlerType # "app"
  BY DEF Callback
<1>2. at # 0 /\ HandlerType = slots[at].handler
  BY <1>1 DEF HandlerType
<1>3. slots[at] \in Slot
  BY <1>2 DEF SlotInv
<1>4. HandlerType \in DM_Type
  BY <1>1, <1>2, <1>3 DEF Slot
<1>5. PICK code \in RetCode, out \in IF HandlerType = "COMMAND" THEN Output ELSE {<<>>} :
        calls' = Append(calls, [type |-> HandlerType, pid |-> msg.id, code |-> code, out |-> out,
                                id |-> LITE_json_value_of(RequestID, msg.payload)])
  BY DEF Callback
<1>6. out \in Str
  BY <1>5, OutputFacts, MarkFacts
<1> DEFINE c == [type |-> HandlerType, pid |-> msg.id, code |-> code, out |-> out,
                 id |-> LITE_json_value_of(RequestID, msg.payload)]
<1>7. c.type = HandlerType /\ c.out = out
  OBVIOUS
<1>8. \/ HandlerType \in Replying /\ phase' = "reply" /\ UNCHANGED answers
      \/ phase' # "reply" /\ answers' = Append(answers, Dropped)
  BY ReturnStep DEF Callback
<1>9. calls' = Append(calls, c)
  BY <1>5
<1> HIDE DEF c
<1> QED
  BY <1>4, <1>6, <1>7, <1>8, <1>9

\* The reply the cloud gets is the whole reply, but for the one that is as long
\* as its buffer.
LEMMA ReplyAnswers ==
    ASSUME NEW c, c.type \in Replying, c.out \in Str,
           ReplyAccepted(c), _dm_mqtt_publish(Up[c.type], Cut(ReplyText(c), ReplyBuf(c)))
    PROVE  Answered(Decoded(Up[c.type], Cut(ReplyText(c), ReplyBuf(c))), c)
<1> DEFINE s == ReplyText(c)
           z == ReplyBuf(c)
           S == Byte \cup {c.id, c.code}
           t == c.type
<1>1. s \in Seq(S) /\ Len(s) \in Nat
  BY ReplyTextFacts
<1>2. z \in Nat /\ (t = "SET" => Len(s) < z) /\ (t # "SET" => Len(s) <= z /\ z = ReportBufLen)
  BY BufferSizes DEF ReplyBuf, ReplyAccepted
<1>3. t \in DM_Type /\ (t = "SET" \/ t = "COMMAND") /\ Byte \subseteq S
  BY DEF Replying, DM_Type
<1>4. CASE Len(s) < z
  <2> HIDE DEF s, z, S
  <2>1. Cut(s, z) = s
    BY <1>1, <1>2, <1>4, CutWhole
  <2>2. _dm_mqtt_publish(Up[t], s)
    BY <2>1 DEF s, z
  <2> HIDE DEF t
  <2>3. Decoded(Up[t], s) = s
    BY <1>1, <1>3, <2>2, DecodedIs
  <2>4. Decoded(Up[t], Cut(s, z)) = s
    BY <2>1, <2>3
  <2> QED
    BY <2>4 DEF Answered, s, z, t
<1>5. CASE ~(Len(s) < z)
  <2>1. t = "COMMAND" /\ Len(s) = ReportBufLen
    <3> DEFINE l == Len(s)
    <3>1. l \in Nat /\ (t = "SET" => l < z) /\ (t # "SET" => l <= z /\ z = ReportBufLen) /\ ~(l < z)
      BY <1>1, <1>2, <1>5
    <3> HIDE DEF l, z, t
    <3>2. t = "COMMAND" /\ l = ReportBufLen
      BY <1>2, <1>3, <3>1
    <3> QED
      BY <3>2 DEF l
  <2> QED
    BY <2>1 DEF Answered
<1> QED
  BY <1>4, <1>5

\* Calls and answers only change by a callback or a reply, or are forgotten
\* with their connection.
LEMMA AnswerSteps ==
    ASSUME [Next]_vars, ~Callback, ~Reply
    PROVE  UNCHANGED <<calls, answers>> \/ (calls' = <<>> /\ answers' = <<>>)
BY DEF Next, vars, dvars, OthersUnchanged, _dsc_mqtt_register_callback, ReportEx, Incomplete, IOT_DM_Destroy

LEMMA AnswerNext ==
    CountInv /\ CountInv' /\ SlotInv /\ AnswerInv /\ [Next]_vars => AnswerInv'
<1> SUFFICES ASSUME CountInv, CountInv', SlotInv, AnswerInv, [Next]_vars PROVE AnswerInv'
  OBVIOUS
<1>0. /\ IsSeq(calls) /\ IsSeq(answers) /\ Len(calls) \in Nat /\ Len(answers) \in Nat
      /\ DOMAIN calls = 1 .. Len(calls) /\ DOMAIN answers = 1 .. Len(answers)
  <2>1. IsSeq(calls) /\ IsSeq(answers)
    BY DEF CountInv
  <2>2. ASSUME NEW q, IsSeq(q) PROVE Len(q) \in Nat /\ DOMAIN q = 1 .. Len(q)
    <3> DEFINE T == {q[i] : i \in 1 .. Len(q)}
    <3>1. q \in Seq(T)
      BY <2>2 DEF IsSeq
    <3> HIDE DEF T
    <3> QED
      BY <3>1
  <2> QED
    BY <2>1, <2>2
<1> DEFINE nc == Len(calls)
           na == Len(answers)
<1>1. CASE Callback
  <2>1. PICK c : /\ calls' = Append(calls, c) /\ c.type \in DM_Type /\ c.out \in Str
                 /\ phase' = "reply" => c.type \in Replying
                 /\ \/ phase' = "reply" /\ UNCHANGED answers
                    \/ answers' = Append(answers, Dropped)
    BY <1>1, CallbackCall
  <2>2. /\ Len(calls') = nc + 1 /\ DOMAIN calls' = 1 .. nc + 1 /\ calls'[nc + 1] = c
        /\ \A i \in 1 .. nc : calls'[i] = calls[i]
    BY <1>0, <2>1, AppendSeq
  <2>3. na = nc
    BY <1>0, <1>1 DEF CountInv, Callback
  <2>4. ASSUME NEW i \in DOMAIN calls'
        PROVE  calls'[i].type \in DM_Type /\ calls'[i].out \in Str
    <3>1. CASE i = nc + 1
      BY <2>1, <2>2, <3>1
    <3>2. CASE i \in 1 .. nc
      BY <1>0, <2>2, <3>2 DEF AnswerInv
    <3>3. i = nc + 1 \/ i \in 1 .. nc
      BY <1>0, <2>2
    <3> QED
      BY <3>1, <3>2, <3>3
  <2>5. phase' = "reply" => calls'[Len(calls')].type \in Replying
    BY <2>1, <2>2
  <2>6. \A i \in DOMAIN answers : Answered(answers[i], calls'[i])
    BY <1>0, <2>2, <2>3 DEF AnswerInv
  <2>7. \A i \in DOMAIN answers' : Answered(answers'[i], calls'[i])
    <3>1. CASE UNCHANGED answers
      BY <2>6, <3>1
    <3>2. CASE answers' = Append(answers, Dropped)
      <4>1. /\ DOMAIN answers' = 1 .. na + 1 /\ answers'[na + 1] = Dropped
            /\ \A i \in 1 .. na : answers'[i] = answers[i]
        BY <1>0, <3>2, AppendSeq
      <4>2. ASSUME NEW i \in DOMAIN answers' PROVE Answered(answers'[i], calls'[i])
        <5>1. i = na + 1 \/ i \in DOMAIN answers
          BY <1>0, <4>1
        <5>2. CASE i = na + 1
          BY <4>1, <5>2 DEF Answered
        <5>3. CASE i \in DOMAIN answers
          BY <1>0, <2>6, <4>1, <5>3
        <5> QED
          BY <5>1, <5>2, <5>3
      <4> QED
        BY <4>2
    <3> QED
      BY <2>1, <3>1, <3>2
  <2> QED
    BY <2>4, <2>5, <2>7 DEF AnswerInv
<1>2. CASE Reply
  <2> DEFINE c == calls[nc]
             text == Cut(ReplyText(c), ReplyBuf(c))
             e == IF ReplyAccepted(c) /\ _dm_mqtt_publish(Up[c.type], text)
                  THEN Decoded(Up[c.type], text) ELSE Dropped
  <2>1. phase = "reply" /\ answers' = Append(answers, e) /\ UNCHANGED calls
    BY <1>2 DEF Reply
  <2>2. na = nc - 1 /\ nc \in DOMAIN calls /\ nc = na + 1
    BY <1>0, <2>1 DEF CountInv
  <2>3. c.type \in Replying /\ c.out \in Str
    BY <2>1, <2>2 DEF AnswerInv
  <2>4. Answered(e, c)
    <3>1. CASE ReplyAccepted(c) /\ _dm_mqtt_publish(Up[c.type], text)
      <4>1. e = Decoded(Up[c.type], text)
        BY <3>1
      <4> HIDE DEF c, e
      <4> QED
        BY <2>3, <3>1, <4>1, ReplyAnswers
    <3>2. CASE ~(ReplyAccepted(c) /\ _dm_mqtt_publish(Up[c.type], text))
      <4>1. e = Dropped
        BY <3>2
      <4> HIDE DEF e
      <4> QED
        BY <4>1 DEF Answered
    <3> QED
      BY <3>1, <3>2
  <2> HIDE DEF e
  <2>5. /\ DOMAIN answers' = 1 .. na + 1 /\ answers'[na + 1] = e
        /\ \A i \in 1 .. na : answers'[i] = answers[i]
    BY <1>0, <2>1, AppendSeq
  <2>6. ASSUME NEW i \in DOMAIN answers' PROVE Answered(answers'[i], calls'[i])
    <3>1. i = na + 1 \/ i \in DOMAIN answers
      BY <1>0, <2>5
    <3>2. CASE i = na + 1
      BY <2>1, <2>2, <2>4, <2>5, <3>2
    <3>3. CASE i \in DOMAIN answers
      BY <1>0, <2>1, <2>5, <3>3 DEF AnswerInv
    <3> QED
      BY <3>1, <3>2, <3>3
  <2>7. phase' # "reply"
    BY <1>2, ReturnStep DEF Reply
  <2> QED
    BY <2>1, <2>6, <2>7 DEF AnswerInv
<1>3. CASE ~Callback /\ ~Reply
  <2>1. CASE UNCHANGED <<calls, answers>>
    <3>1. phase' = "reply" => phase = "reply"
      BY <1>0, <2>1 DEF CountInv
    <3> QED
      BY <2>1, <3>1 DEF AnswerInv
  <2>2. CASE calls' = <<>> /\ answers' = <<>>
    <3>1. Len(calls') = 0 /\ Len(answers') = 0 /\ DOMAIN calls' = {} /\ DOMAIN answers' = {}
      BY <2>2
    <3>2. phase' # "reply"
      BY <3>1 DEF CountInv
    <3> QED
      BY <3>1, <3>2 DEF AnswerInv
  <2> QED
    BY <1>3, <2>1, <2>2, AnswerSteps
<1> QED
  BY <1>1, <1>2, <1>3

LEMMA AnswerHolds == Spec => []AnswerInv
<1>1. Init => AnswerInv
  BY DEF Init, ReceiveInit, AnswerInv
<1>2. TypeInv => SlotInv
  BY DEF TypeInv
<1> QED
  BY <1>1, <1>2, AnswerNext, CountHolds, TypeHolds, PTL DEF Spec

\* From a request to its acknowledgement, for any messages, reports and sizes of
\* buffers: the call is that of a message on its type's topic, the cloud decodes
\* the request's identifier and the callback's code and output from the answer,
\* and the PUBACK is sent after it.
THEOREM RequestsAnsweredHolds == Spec => []RequestsAnswered
<1>1. CountInv /\ AnswerInv => AnswersMatchCalls
  BY DEF CountInv, AnswerInv, Answered, AnswersMatchCalls
<1>2. CallsMatchRequests /\ AnswersMatchCalls /\ AckAfterAnswer => RequestsAnswered
  BY DEF RequestsAnswered
<1> QED
  BY <1>1, <1>2, CallsMatchRequestsHolds, CountHolds, AnswerHolds, AckAfterAnswerHolds, PTL
=============================================================================
