------------------------ MODULE MqttSubscribeProofs ------------------------
(***************************************************************************)
(* Proofs about MqttSubscribe.  The types, the outcomes of the requests    *)
(* and the lock order are proved for any number of threads; who owns a     *)
(* topic filter, and that a resubscription is complete, for a client that  *)
(* is used by one thread: with two, an acknowledgement may be handled      *)
(* while the call that sent its request is still in its error path.        *)
(***************************************************************************)
EXTENDS MqttSubscribe, FiniteSetTheorems, WellFoundedInduction, TLAPS

-----------------------------------------------------------------------------
(* The invariant for any number of threads *)

\* Who owns which lock; what the yield thread may call from.
LockInv ==
    /\ \A t \in Thread : pc[t] \in {"id", "push", "send", "remove"} <=> lockWriteBuf = t
    /\ lockGeneric = IF ypc \in {"mask", "install", "nack", "unsubscribed"} THEN Yielder ELSE NoThread
    /\ lockListSub = IF ypc \in {"scan", "timeout"} THEN Yielder ELSE NoThread
    /\ pc[Yielder] # "idle" => ypc \in {"read", "nack", "unsubscribed", "timeout", "calling"}
    /\ ypc = "calling" => pc[Yielder] \in {"lock", "id", "push", "send", "remove"}

\* The calls that were counted in started and have no packet id yet: ids do
\* not run out.
Pending == {t \in Thread : pc[t] \in {"clear", "check", "lock", "id"}}
Budget == count + Cardinality(Pending) <= started

\* Nothing refers to a request that was not made.
RangeInv ==
    /\ \A r \in 1 .. count : req[r] \in SubTopicHandle
    /\ list \subseteq 1 .. count /\ freed \subseteq 1 .. count
    /\ \A s \in Slot : slot[s] <= count
    /\ handle <= count /\ yreq <= count
    /\ \A a \in acks : a.request <= count
    /\ \A t \in Thread :
         /\ pc[t] # "idle" => arg[t] \in SubTopicHandle
         /\ pc[t] \in {"push", "send", "remove"} =>
              mine[t] \in 1 .. count /\ req[mine[t]] = arg[t]
    /\ ypc \in {"copy", "calling"} => itr <= MAX_SUB_TOPICS
    /\ ypc \in {"copy", "install", "nack"} => handle # 0
    /\ ypc \in {"mask", "install", "nack", "unsuback", "unsubscribed", "timeout"} => yreq # 0

Core == TypeOK /\ LockInv /\ Budget /\ RangeInv

\* The requests with an answer that may come; those that were reported.
Answered == {a.request : a \in acks}
Done == succeeded \cup refused \cup dropped

\* The yield loop handles the answer to yreq.
Acking == ypc \in {"mask", "install", "nack", "unsuback", "unsubscribed"}

\* The request of a call in progress was not answered, handled or accepted yet.
CallInv ==
    \A t \in Thread :
        /\ pc[t] \in {"push", "send", "remove"} => mine[t] \notin accepted
        /\ pc[t] \in {"push", "send"} =>
             /\ mine[t] \notin Answered \cup Done \cup invalid
             /\ Acking => mine[t] # yreq
        /\ pc[t] = "push" => mine[t] \notin list \cup timedOut
        /\ pc[t] = "send" => mine[t] \in list \cup timedOut

\* An answer comes once, and is the first one to its request.
AnswerInv ==
    /\ \A a, b \in acks : a.request = b.request => a = b
    /\ \A a \in acks : a.request \notin Done \cup invalid /\ (Acking => a.request # yreq)
    /\ ypc \in {"mask", "install"} => yreq \notin Done
    /\ ypc \in {"mask", "install", "nack"} => req[yreq].type = "SUBSCRIBE"
    /\ ypc \in {"unsuback", "unsubscribed"} => req[yreq].type = "UNSUBSCRIBE"
    /\ ypc = "mask" => yreq \notin invalid
    /\ ypc \in {"install", "nack"} => handle = yreq /\ yreq \notin timedOut
    /\ ypc \in {"install", "unsuback"} => (yreq \in list => yreq \in invalid)

\* A node leaves the list after its outcome was reported.
NodeInv ==
    /\ \A r \in list \cap timedOut : ypc = "timeout" /\ yreq = r
    /\ ypc = "timeout" => yreq \in timedOut
    /\ list \cap Done \subseteq invalid
    /\ \A r \in invalid \ Done : ypc \in {"install", "unsuback"} /\ yreq = r
    /\ accepted \subseteq list \cup Done \cup timedOut
    /\ Done \cup timedOut \subseteq 1 .. count

OutcomeInv == CallInv /\ AnswerInv /\ NodeInv /\ OneOutcome

-----------------------------------------------------------------------------
(* The invariant for one thread *)

InUse == {slot[s] : s \in Occupied}
Waiting == list \ invalid
Sending == pc[Yielder] \in {"push", "send", "remove"}

\* The owners of a topic filter exclude each other: it is freed, stored in a
\* slot, in a waiting node, or held by the handler of its answer or by the call.
OwnerInv ==
    /\ fault \in {"none", "uninitialised"}
    /\ freed \cap (InUse \cup Waiting) = {} /\ InUse \cap Waiting = {}
    /\ ypc \in {"install", "nack", "unsuback"} => handle \notin freed \cup InUse \cup Waiting
    /\ ypc = "unsuback" => handle \in {0, yreq}
    /\ ypc = "unsubscribed" => handle \in freed \cup {0}
    /\ ypc = "copy" => itr \in Occupied /\ handle = slot[itr]
    /\ ypc \notin {"install", "nack", "unsuback", "unsubscribed", "copy"} => handle = 0
    /\ ypc = "timeout" => yreq \in Waiting
    /\ pc[Yielder] = "push" => mine[Yielder] \notin freed \cup InUse
    /\ pc[Yielder] \in {"send", "remove"} => mine[Yielder] \in Waiting /\ mine[Yielder] \notin timedOut

\* No two slots share a filter or a subscription.
StoreInv ==
    /\ \A s, u \in Occupied : slot[s] = slot[u] => s = u
    /\ NoDuplicateSlot

\* Every filter has an owner, or was dropped.
LeakInv ==
    \A r \in 1 .. count :
        \/ r \in freed \cup dropped \cup Waiting \cup InUse \cup {handle}
        \/ Sending /\ r = mine[Yielder]

FilterInv == OwnerInv /\ StoreInv /\ LeakInv

\* Everything stored was asked for on this connection, but for the slots that
\* uiot_mqtt_resubscribe has not come to.
Resubscribing == ypc \in {"resubscribe", "copy", "calling"}
AskedFor(r) == req[r].topic \in asked

\* What an answer that may come, or is handled, will store.
AnswerAsked ==
    /\ ~isConnected => acks = {}
    /\ \A a \in acks : req[a.request].type = "SUBSCRIBE" /\ a.request \in list =>
         AskedFor(a.request) \/ (pc[Yielder] = "remove" /\ mine[Yielder] = a.request)
    /\ ypc = "mask" /\ yreq \in list => AskedFor(yreq)
    /\ ypc = "install" => AskedFor(handle)

SlotsAsked ==
    /\ ypc = "calling" => /\ itr \in Occupied /\ arg[Yielder].type = "SUBSCRIBE"
                          /\ arg[Yielder].topic = req[slot[itr]].topic
    /\ Resubscribing => \A s \in Occupied : s < itr => AskedFor(slot[s])
    /\ isConnected /\ ~aborted /\ ~Resubscribing => \A s \in Occupied : AskedFor(slot[s])

AskedInv == AnswerAsked /\ SlotsAsked

-----------------------------------------------------------------------------
(* Counting and choosing *)

\* A set of threads can be counted.
LEMMA ThreadsFinite ==
    ASSUME NEW S \in SUBSET Thread
    PROVE  IsFiniteSet(S) /\ Cardinality(S) \in Nat
BY SubscribeAssumption, FS_AddElement, FS_Subset, FS_CardinalityType DEF Thread

\* A non-empty set of numbers up to N has a largest and a smallest member.
LEMMA Extrema ==
    ASSUME NEW N \in Nat, NEW S \in SUBSET (1 .. N), S # {}
    PROVE  /\ \E m \in S : \A k \in S : k <= m
           /\ \E m \in S : \A k \in S : m <= k
<1> DEFINE T == {N - m : m \in S}
<1>1. T \subseteq Nat /\ T # {} /\ S \subseteq Nat
  OBVIOUS
<1>2. \A U \in SUBSET Nat : U # {} => \E x \in U : \A y \in U : ~(y < x)
  <2> SUFFICES ASSUME NEW U \in SUBSET Nat, U # {}
               PROVE  \E x \in U : \A y \in U : ~(y < x)
    OBVIOUS
  <2>1. \E x \in U : \A y \in U : ~(<<y, x>> \in OpToRel(<, Nat))
    BY NatLessThanWellFounded, WFMin
  <2> QED
    BY <2>1 DEF OpToRel
<1>3. PICK m \in S : \A k \in S : ~(k < m)
  BY <1>1, <1>2
<1>4. PICK x \in T : \A y \in T : ~(y < x)
  BY <1>1, <1>2
<1>5. PICK n \in S : x = N - n
  BY <1>4
<1>6. ASSUME NEW k \in S
      PROVE  k <= n
  <2>1. N - k \in T
    OBVIOUS
  <2>2. ~(N - k < N - n)
    BY <1>4, <1>5, <2>1
  <2> QED
    BY <2>2
<1>7. \A k \in S : m <= k
  BY <1>1, <1>3
<1> QED
  BY <1>6, <1>7

\* ListNode.prev of a node is an earlier node of the list, or NULL.
LEMMA PrevInList ==
    ASSUME list \subseteq Request, NEW n \in Int
    PROVE  Prev(n) \in list \cup {0} /\ Prev(n) \in 0 .. MaxRequest
<1> DEFINE before == {m \in list : m < n}
<1>1. CASE before = {}
  BY <1>1, SubscribeAssumption DEF Prev
<1>2. CASE before # {}
  <2>1. before \in SUBSET (1 .. MaxRequest) /\ MaxRequest \in Nat
    BY SubscribeAssumption DEF Request
  <2>2. \E m \in before : \A k \in before : k <= m
    BY <1>2, <2>1, Extrema
  <2>3. Prev(n) \in before
    BY <1>2, <2>2 DEF Prev
  <2> QED
    BY <2>1, <2>3
<1> QED
  BY <1>1, <1>2

\* i_free is a free slot if there is one.
LEMMA FirstFreeFacts ==
    ASSUME TypeOK, Occupied # Slot
    PROVE  FirstFree \in Slot /\ slot[FirstFree] = 0
<1> DEFINE S == Slot \ Occupied
<1>1. S \in SUBSET (1 .. MAX_SUB_TOPICS) /\ MAX_SUB_TOPICS \in Nat /\ S # {}
  BY SubscribeAssumption DEF Slot, Occupied
<1>2. \E m \in S : \A k \in S : m <= k
  BY <1>1, Extrema
<1>3. FirstFree \in S
  BY <1>2 DEF FirstFree
<1> QED
  BY <1>3 DEF Occupied

\* One thread enters, leaves or stays in the part of a call before its id.
LEMMA PendingStep ==
    ASSUME TypeOK, NEW t \in Thread, NEW where \in CallPc, pc' = [pc EXCEPT ![t] = where]
    PROVE  /\ Cardinality(Pending) \in Nat /\ Cardinality(Pending') \in Nat
           /\ Cardinality(Pending') <= Cardinality(Pending) + 1
           /\ t \in Pending => Cardinality(Pending') <= Cardinality(Pending)
           /\ where \notin {"clear", "check", "lock", "id"} =>
                Cardinality(Pending') <= Cardinality(Pending)
           /\ t \in Pending /\ where \notin {"clear", "check", "lock", "id"} =>
                Cardinality(Pending') + 1 <= Cardinality(Pending)
<1> DEFINE P == Pending
           Q == Pending'
<1>1. /\ P \in SUBSET Thread /\ Q \in SUBSET Thread
      /\ \A u \in Thread : u # t => (u \in Q <=> u \in P)
      /\ t \in Q <=> where \in {"clear", "check", "lock", "id"}
  BY DEF Pending, TypeOK
<1> HIDE DEF P, Q
<1>2. IsFiniteSet(P) /\ Cardinality(P) \in Nat /\ IsFiniteSet(Q) /\ Cardinality(Q) \in Nat
  BY <1>1, ThreadsFinite
<1>3. CASE t \in P /\ t \in Q
  <2>1. Q = P
    BY <1>1, <1>3
  <2> QED
    BY <1>1, <1>2, <1>3, <2>1 DEF P, Q
<1>4. CASE t \in P /\ t \notin Q
  <2>1. Q = P \ {t}
    BY <1>1, <1>4
  <2>2. Cardinality(Q) = Cardinality(P) - 1
    BY <1>2, <1>4, <2>1, FS_RemoveElement
  <2> QED
    BY <1>1, <1>2, <1>4, <2>2 DEF P, Q
<1>5. CASE t \notin P /\ t \in Q
  <2>1. Q = P \cup {t}
    BY <1>1, <1>5
  <2>2. Cardinality(Q) = Cardinality(P) + 1
    BY <1>2, <1>5, <2>1, FS_AddElement
  <2> QED
    BY <1>1, <1>2, <1>5, <2>2 DEF P, Q
<1>6. CASE t \notin P /\ t \notin Q
  <2>1. Q = P
    BY <1>1, <1>6
  <2> QED
    BY <1>1, <1>2, <1>6, <2>1 DEF P, Q
<1> QED
  BY <1>3, <1>4, <1>5, <1>6

\* A step of a call keeps the ids within the calls that were counted.
LEMMA BudgetStep ==
    ASSUME TypeOK, Budget, NEW t \in Thread, NEW where \in CallPc,
           pc' = [pc EXCEPT ![t] = where], count' = count,
           \/ started' = started + 1
           \/ /\ started' = started
              /\ t \in Pending \/ where \notin {"clear", "check", "lock", "id"}
    PROVE  Budget'
<1> DEFINE c == Cardinality(Pending)
           d == Cardinality(Pending')
<1>1. /\ c \in Nat /\ d \in Nat /\ d <= c + 1
      /\ (t \in Pending \/ where \notin {"clear", "check", "lock", "id"}) => d <= c
  BY PendingStep
<1>2. count \in Nat /\ started \in Nat /\ count + c <= started
  BY SubscribeAssumption DEF TypeOK, Budget
<1>3. d <= c + (started' - started) /\ started' \in Nat
  BY <1>1, <1>2
<1>4. count' + d <= started'
  <2> HIDE DEF c, d
  <2> QED
    BY <1>1, <1>2, <1>3
<1> QED
  BY <1>4 DEF Budget

-----------------------------------------------------------------------------
(* Types, locks and ranges *)

\* The client that IOT_MQTT_Construct returns.
LEMMA CoreInit == Init => Core
<1> SUFFICES ASSUME Init
             PROVE  Core
  OBVIOUS
<1> USE SubscribeAssumption
<1>1. TypeOK
  <2>1. /\ req \in [Request -> SubTopicHandle \cup {NULL}]
        /\ slot \in [Slot -> 0 .. MaxRequest]
        /\ pc \in [Thread -> CallPc]
        /\ arg \in [Thread -> SubTopicHandle \cup {NULL}]
        /\ mine \in [Thread -> 0 .. MaxRequest]
    BY DEF Init, CallPc
  <2>2. started \in 0 .. MaxRequest /\ count \in 0 .. MaxRequest /\ yreq \in 0 .. MaxRequest
        /\ handle \in 0 .. MaxRequest /\ cursor \in 0 .. MaxRequest /\ itr \in 1 .. MAX_SUB_TOPICS + 1
    BY DEF Init
  <2> QED
    BY <2>1, <2>2 DEF Init, TypeOK, YieldPc, Fault
<1>2. LockInv /\ RangeInv
  BY DEF Init, LockInv, RangeInv, Thread
<1>3. Budget
  <2>1. Pending = {}
    BY DEF Init, Pending
  <2> QED
    BY <2>1, FS_EmptySet DEF Init, Budget
<1> QED
  BY <1>1, <1>2, <1>3 DEF Core

\* The end of a call that holds lock_write_buf.
LEMMA ReturnCore ==
    ASSUME Core, NEW t \in Thread, NEW ok \in BOOLEAN, Return(t, ok),
           pc[t] \in {"push", "send", "remove"}, UNCHANGED <<lockGeneric, lockListSub>>
    PROVE  /\ pc' \in [Thread -> CallPc] /\ arg' \in [Thread -> SubTopicHandle \cup {NULL}]
           /\ mine' \in [Thread -> 0 .. MaxRequest] /\ ypc' \in YieldPc
           /\ itr' \in 1 .. MAX_SUB_TOPICS + 1 /\ aborted' \in BOOLEAN
           /\ lockWriteBuf' = NoThread /\ LockInv'
           /\ Cardinality(Pending') \in Nat /\ Cardinality(Pending') <= Cardinality(Pending)
           /\ \A u \in Thread : pc'[u] # "idle" =>
                u # t /\ pc'[u] = pc[u] /\ arg'[u] = arg[u] /\ mine'[u] = mine[u]
           /\ \/ ypc' = ypc /\ itr' = itr
              \/ t = Yielder /\ ypc = "calling" /\ ypc' \in {"resubscribe", "read"}
<1> USE SubscribeAssumption
<1>1. /\ pc' = [pc EXCEPT ![t] = "idle"] /\ arg' = [arg EXCEPT ![t] = NULL]
      /\ mine' = [mine EXCEPT ![t] = 0] /\ lockWriteBuf' = NoThread
      /\ IF t = Yielder /\ ypc = "calling"
           THEN IF ok THEN ypc' = "resubscribe" /\ itr' = itr + 1 /\ aborted' = aborted
                      ELSE ypc' = "read" /\ itr' = 1 /\ aborted' = TRUE
           ELSE ypc' = ypc /\ itr' = itr /\ aborted' = aborted
  BY DEF Return, Goto
<1>2. /\ pc' \in [Thread -> CallPc] /\ arg' \in [Thread -> SubTopicHandle \cup {NULL}]
      /\ mine' \in [Thread -> 0 .. MaxRequest]
  BY <1>1 DEF Core, TypeOK, CallPc
<1>3. itr' \in 1 .. MAX_SUB_TOPICS + 1
  BY <1>1 DEF Core, TypeOK, RangeInv
<1>4. aborted' \in BOOLEAN /\ ypc' \in YieldPc
  BY <1>1 DEF Core, TypeOK, YieldPc
<1>5. /\ Cardinality(Pending') \in Nat /\ Cardinality(Pending') <= Cardinality(Pending)
  BY <1>1, PendingStep DEF Core, CallPc
<1>6. \A u \in Thread : pc'[u] # "idle" =>
        u # t /\ pc'[u] = pc[u] /\ arg'[u] = arg[u] /\ mine'[u] = mine[u]
  BY <1>1 DEF Core, TypeOK
<1>7. LockInv'
  <2>1. \A u \in Thread : pc'[u] \in {"id", "push", "send", "remove"} <=> lockWriteBuf' = u
    <3>1. lockWriteBuf = t
      BY DEF Core, LockInv
    <3> QED
      BY <1>1, <1>2, <1>6, <3>1 DEF Core, LockInv, TypeOK, Thread
  <2>2. /\ pc[Yielder] # "idle" => ypc \in {"read", "nack", "unsubscribed", "timeout", "calling"}
        /\ Yielder \in Thread
    BY DEF Core, LockInv, Thread
  <2>3. pc'[Yielder] # "idle" => ypc' \in {"read", "nack", "unsubscribed", "timeout", "calling"}
    BY <1>1, <1>6, <2>2
  <2>4. ypc' = "calling" => pc'[Yielder] \in {"lock", "id", "push", "send", "remove"}
    <3>1. ypc' = "calling" => t # Yielder /\ ypc = "calling"
      BY <1>1
    <3>2. ypc = "calling" => pc[Yielder] \in {"lock", "id", "push", "send", "remove"}
      BY DEF Core, LockInv
    <3> QED
      BY <1>1, <2>2, <3>1, <3>2 DEF Core, TypeOK
  <2>5. /\ lockGeneric' = IF ypc' \in {"mask", "install", "nack", "unsubscribed"} THEN Yielder ELSE NoThread
        /\ lockListSub' = IF ypc' \in {"scan", "timeout"} THEN Yielder ELSE NoThread
    BY <1>1 DEF Core, LockInv
  <2> QED
    BY <2>1, <2>3, <2>4, <2>5 DEF LockInv
<1> QED
  BY <1>1, <1>2, <1>3, <1>4, <1>5, <1>6, <1>7

\* The requests and their types do not change: what RangeInv says of the
\* other variables is all there is to show.
LEMMA CoreCall ==
    ASSUME Core, NEW t \in Thread, CallStep(t)
    PROVE  Core'
<1> USE SubscribeAssumption
        DEF connVars, lockVars, listVars, callVars, yieldVars, reportVars
<1>0. /\ TypeOK /\ LockInv /\ Budget /\ RangeInv /\ Yielder \in Thread
  BY DEF Core, Thread
<1>1. ASSUME NEW f \in Topic, NEW h \in Handler, SubscribeEnter(t, f, h)
      PROVE  Core'
  <2>1. /\ pc[t] = "idle" /\ pc' = [pc EXCEPT ![t] = "lock"]
        /\ started' = started + 1 /\ started < MaxRequest
        /\ arg' = [arg EXCEPT ![t] = Subscribe(f, h)]
        /\ t = Yielder => ypc \in {"read", "nack", "unsubscribed", "timeout"}
    BY <1>1 DEF SubscribeEnter, MayCall, At, Goto
  <2>2. Subscribe(f, h) \in SubTopicHandle
    BY DEF Subscribe, SubTopicHandle
  <2>3. UNCHANGED <<connVars, lockVars, count, req, listVars, slot, freed, mine,
                   yieldVars, acks, accepted, reportVars, fault>>
    BY <1>1 DEF SubscribeEnter
  <2>4. TypeOK'
    BY <1>0, <2>1, <2>2, <2>3 DEF TypeOK, CallPc
  <2>5. LockInv'
    BY <1>0, <2>1, <2>3 DEF LockInv, TypeOK
  <2>6. Budget'
    BY <1>0, <2>1, <2>3, BudgetStep DEF CallPc
  <2>7. RangeInv'
    BY <1>0, <2>1, <2>2, <2>3 DEF RangeInv, TypeOK
  <2> QED
    BY <2>4, <2>5, <2>6, <2>7 DEF Core
<1>2. ASSUME NEW f \in Topic, UnsubscribeEnter(t, f)
      PROVE  Core'
  <2>1. /\ pc[t] = "idle" /\ pc' = [pc EXCEPT ![t] = "clear"]
        /\ started' = started + 1 /\ started < MaxRequest
        /\ arg' = [arg EXCEPT ![t] = Unsubscribe(f)]
        /\ t = Yielder => ypc \in {"read", "nack", "unsubscribed", "timeout"}
    BY <1>2 DEF UnsubscribeEnter, MayCall, At, Goto
  <2>2. Unsubscribe(f) \in SubTopicHandle
    BY DEF Unsubscribe, SubTopicHandle
  <2>3. UNCHANGED <<connVars, lockVars, count, req, listVars, slot, freed, mine,
                   yieldVars, acks, accepted, reportVars, fault>>
    BY <1>2 DEF UnsubscribeEnter
  <2>4. TypeOK'
    BY <1>0, <2>1, <2>2, <2>3 DEF TypeOK, CallPc
  <2>5. LockInv'
    BY <1>0, <2>1, <2>3 DEF LockInv, TypeOK
  <2>6. Budget'
    BY <1>0, <2>1, <2>3, BudgetStep DEF CallPc
  <2>7. RangeInv'
    BY <1>0, <2>1, <2>2, <2>3 DEF RangeInv, TypeOK
  <2> QED
    BY <2>4, <2>5, <2>6, <2>7 DEF Core
<1>3. CASE ClearHandles(t)
  <2>1. /\ pc[t] = "clear"
        /\ slot' = [s \in Slot |-> IF s \in Cleared(arg[t].topic) THEN 0 ELSE slot[s]]
        /\ freed' = freed \cup {slot[s] : s \in Cleared(arg[t].topic) \cap Occupied}
        /\ fault' \in {"filter", fault}
        /\ \/ pc' = [pc EXCEPT ![t] = "idle"] /\ arg' = [arg EXCEPT ![t] = NULL]
           \/ pc' = [pc EXCEPT ![t] = "check"] /\ arg' = arg
    BY <1>3 DEF ClearHandles, At, Goto
  <2>2. {slot[s] : s \in Cleared(arg[t].topic) \cap Occupied} \subseteq (1 .. count) \cap Request
    BY <1>0 DEF Cleared, Occupied, RangeInv, TypeOK, Request
  <2>3. UNCHANGED <<connVars, lockVars, started, count, req, listVars, mine,
                   yieldVars, acks, accepted, reportVars>>
    BY <1>3 DEF ClearHandles
  <2>4. TypeOK'
    <3>1. slot' \in [Slot -> 0 .. MaxRequest]
      BY <1>0, <2>1 DEF TypeOK
    <3>2. freed' \subseteq Request
      BY <1>0, <2>1, <2>2 DEF TypeOK
    <3>3. pc' \in [Thread -> CallPc] /\ arg' \in [Thread -> SubTopicHandle \cup {NULL}]
      BY <1>0, <2>1 DEF TypeOK, CallPc
    <3> QED
      BY <1>0, <2>1, <2>3, <3>1, <3>2, <3>3 DEF TypeOK, Fault
  <2>5. LockInv'
    <3>1. CASE pc' = [pc EXCEPT ![t] = "idle"]
      BY <1>0, <2>1, <2>3, <3>1 DEF LockInv, TypeOK
    <3>2. CASE pc' = [pc EXCEPT ![t] = "check"]
      BY <1>0, <2>1, <2>3, <3>2 DEF LockInv, TypeOK
    <3> QED
      BY <2>1, <3>1, <3>2
  <2>6. Budget'
    <3>1. t \in Pending
      BY <2>1 DEF Pending
    <3> QED
      BY <1>0, <2>1, <2>3, <3>1, BudgetStep DEF CallPc
  <2>7. RangeInv'
    <3>1. \A s \in Slot : slot'[s] <= count'
      BY <1>0, <2>1, <2>3 DEF RangeInv, TypeOK
    <3>2. freed' \subseteq 1 .. count'
      BY <1>0, <2>1, <2>2, <2>3 DEF RangeInv
    <3> QED
      BY <1>0, <2>1, <2>3, <3>1, <3>2 DEF RangeInv, TypeOK
  <2> QED
    BY <2>4, <2>5, <2>6, <2>7 DEF Core
<1>4. CASE UnsubscribeCheck(t)
  <2>1. /\ pc[t] = "check"
        /\ \/ pc' = [pc EXCEPT ![t] = "idle"] /\ arg' = [arg EXCEPT ![t] = NULL]
           \/ pc' = [pc EXCEPT ![t] = "lock"] /\ arg' = arg
        /\ UNCHANGED <<connVars, lockVars, started, count, req, listVars, slot,
                       freed, mine, yieldVars, acks, accepted, reportVars, fault>>
    BY <1>4 DEF UnsubscribeCheck, At, Goto
  <2>2. TypeOK'
    <3>1. pc' \in [Thread -> CallPc] /\ arg' \in [Thread -> SubTopicHandle \cup {NULL}]
      BY <1>0, <2>1 DEF TypeOK, CallPc
    <3> QED
      BY <1>0, <2>1, <3>1 DEF TypeOK
  <2>3. LockInv'
    <3>1. CASE pc' = [pc EXCEPT ![t] = "idle"]
      BY <1>0, <2>1, <3>1 DEF LockInv, TypeOK
    <3>2. CASE pc' = [pc EXCEPT ![t] = "lock"]
      BY <1>0, <2>1, <3>2 DEF LockInv, TypeOK
    <3> QED
      BY <2>1, <3>1, <3>2
  <2>4. Budget'
    <3>1. t \in Pending
      BY <2>1 DEF Pending
    <3> QED
      BY <1>0, <2>1, <3>1, BudgetStep DEF CallPc
  <2>5. RangeInv'
    BY <1>0, <2>1 DEF RangeInv, TypeOK
  <2> QED
    BY <2>2, <2>3, <2>4, <2>5 DEF Core
<1>5. CASE LockWriteBuf(t)
  <2>1. /\ pc[t] = "lock" /\ lockWriteBuf \in {NoThread, t} /\ lockWriteBuf' = t
        /\ pc' = [pc EXCEPT ![t] = "id"]
        /\ UNCHANGED <<connVars, lockGeneric, lockListSub, started, count, req,
                   listVars, slot, freed, arg, mine, yieldVars, acks, accepted,
                   reportVars, fault>>
    BY <1>5 DEF LockWriteBuf, At, Goto, Free
  <2>2. TypeOK'
    BY <1>0, <2>1 DEF TypeOK, CallPc
  <2>3. LockInv'
    BY <1>0, <2>1 DEF LockInv, TypeOK, Thread
  <2>4. Budget'
    <3>1. t \in Pending
      BY <2>1 DEF Pending
    <3> QED
      BY <1>0, <2>1, <3>1, BudgetStep DEF CallPc
  <2>5. RangeInv'
    BY <1>0, <2>1 DEF RangeInv, TypeOK
  <2> QED
    BY <2>2, <2>3, <2>4, <2>5 DEF Core
<1>6. CASE GetNextPacketId(t)
  <2>1. /\ pc[t] = "id" /\ pc' = [pc EXCEPT ![t] = "push"] /\ count' = count + 1
        /\ req' = [req EXCEPT ![count + 1] = arg[t]]
        /\ mine' = [mine EXCEPT ![t] = count + 1]
        /\ UNCHANGED <<connVars, lockVars, started, listVars, slot, freed, arg,
                   yieldVars, acks, accepted, reportVars, fault>>
    BY <1>6 DEF GetNextPacketId, At, Goto
  <2>2. t \in Pending
    BY <2>1 DEF Pending
  <2>3. /\ Cardinality(Pending) \in Nat /\ Cardinality(Pending') \in Nat
        /\ Cardinality(Pending') + 1 <= Cardinality(Pending)
    BY <1>0, <2>1, <2>2, PendingStep DEF CallPc
  <2>4. count \in Nat /\ count + 1 <= MaxRequest /\ MaxRequest \in Nat
        /\ started \in 0 .. MaxRequest
    BY <1>0, <2>3 DEF Budget, TypeOK
  <2>5. arg[t] \in SubTopicHandle
    BY <1>0, <2>1 DEF RangeInv
  <2>6. TypeOK'
    <3>1. count' \in 0 .. MaxRequest /\ mine' \in [Thread -> 0 .. MaxRequest]
      BY <1>0, <2>1, <2>4 DEF TypeOK
    <3>2. req' \in [Request -> SubTopicHandle \cup {NULL}] /\ pc' \in [Thread -> CallPc]
      BY <1>0, <2>1, <2>5 DEF TypeOK, CallPc
    <3> QED
      BY <1>0, <2>1, <3>1, <3>2 DEF TypeOK
  <2>7. LockInv'
    BY <1>0, <2>1 DEF LockInv, TypeOK
  <2>8. Budget'
    BY <1>0, <2>1, <2>3, <2>4 DEF Budget
  <2>9. RangeInv'
    <3>1. \A r \in 1 .. count : req'[r] = req[r]
      BY <1>0, <2>1, <2>4 DEF TypeOK, Request
    <3>2. req'[count + 1] = arg[t] /\ count + 1 \in Request
      BY <1>0, <2>1, <2>4 DEF TypeOK, Request
    <3>3. \A r \in 1 .. count' : req'[r] \in SubTopicHandle
      BY <1>0, <2>1, <2>4, <2>5, <3>1, <3>2 DEF RangeInv
    <3>4. /\ list' \subseteq 1 .. count' /\ freed' \subseteq 1 .. count'
          /\ \A s \in Slot : slot'[s] <= count'
          /\ handle' <= count' /\ yreq' <= count' /\ \A a \in acks' : a.request <= count'
      BY <1>0, <2>1, <2>4 DEF RangeInv, TypeOK, Request
    <3>5. ASSUME NEW u \in Thread
          PROVE  /\ pc'[u] # "idle" => arg'[u] \in SubTopicHandle
                 /\ pc'[u] \in {"push", "send", "remove"} =>
                      mine'[u] \in 1 .. count' /\ req'[mine'[u]] = arg'[u]
      <4>1. CASE u = t
        BY <1>0, <2>1, <2>4, <2>5, <3>2, <4>1 DEF TypeOK
      <4>2. CASE u # t
        BY <1>0, <2>1, <2>4, <3>1, <4>2 DEF TypeOK, RangeInv
      <4> QED
        BY <4>1, <4>2
    <3> QED
      BY <1>0, <2>1, <3>3, <3>4, <3>5 DEF RangeInv
  <2> QED
    BY <2>6, <2>7, <2>8, <2>9 DEF Core
<1>7. CASE PushSubInfo(t)
  <2>1. /\ pc[t] = "push" /\ pc' = [pc EXCEPT ![t] = "send"] /\ list' = list \cup {mine[t]}
        /\ UNCHANGED <<connVars, lockVars, started, count, req, invalid, expired,
                   slot, freed, arg, mine, yieldVars, acks, accepted,
                   reportVars, fault>>
    BY <1>7 DEF PushSubInfo, At, Goto
  <2>2. mine[t] \in 1 .. count /\ mine[t] \in Request
    BY <1>0, <2>1 DEF RangeInv, TypeOK, Request
  <2>3. TypeOK'
    BY <1>0, <2>1, <2>2 DEF TypeOK, CallPc
  <2>4. LockInv'
    BY <1>0, <2>1 DEF LockInv, TypeOK
  <2>5. Budget'
    BY <1>0, <2>1, BudgetStep DEF CallPc
  <2>6. RangeInv'
    BY <1>0, <2>1, <2>2 DEF RangeInv, TypeOK
  <2> QED
    BY <2>3, <2>4, <2>5, <2>6 DEF Core
<1>8. CASE PushFail(t)
  <2>1. /\ pc[t] \in {"push", "send", "remove"} /\ Return(t, FALSE)
        /\ freed' = freed \cup {mine[t]}
        /\ UNCHANGED <<isConnected, asked, lockGeneric, lockListSub, started,
                   count, req, listVars, slot, yreq, handle, subNack, cursor, acks, accepted,
                   reportVars, fault>>
    BY <1>8 DEF PushFail, At
  <2>2. mine[t] \in 1 .. count /\ mine[t] \in Request
    BY <1>0, <2>1 DEF RangeInv, TypeOK, Request
  <2>3. TypeOK' /\ LockInv'
    BY <1>0, <2>1, <2>2, ReturnCore DEF TypeOK
  <2>4. Budget'
    BY <1>0, <2>1, BudgetStep DEF Return, Goto, CallPc
  <2>5. RangeInv'
    BY <1>0, <2>1, <2>2, ReturnCore DEF RangeInv, TypeOK
  <2> QED
    BY <2>3, <2>4, <2>5 DEF Core
<1>9. ASSUME NEW granted \in BOOLEAN, SendOk(t, granted)
      PROVE  Core'
  <2>1. /\ pc[t] \in {"push", "send", "remove"} /\ Return(t, TRUE)
        /\ acks' = acks \cup {[request |-> mine[t], granted |-> granted]}
        /\ asked' \in {asked, asked \cup {req[mine[t]].topic}}
        /\ accepted' = accepted \cup {mine[t]}
        /\ UNCHANGED <<isConnected, lockGeneric, lockListSub, started, count, req,
                   listVars, slot, freed, yreq, handle, subNack, cursor,
                   reportVars, fault>>
    BY <1>9 DEF SendOk, At, BrokerAnswers
  <2>2. mine[t] \in 1 .. count /\ mine[t] \in Request /\ req[mine[t]].topic \in Topic
    BY <1>0, <2>1 DEF RangeInv, TypeOK, Request, SubTopicHandle
  <2>3. TypeOK' /\ LockInv'
    <3>1. acks' \subseteq [request : Request, granted : BOOLEAN] /\ asked' \subseteq Topic
      BY <1>0, <2>1, <2>2 DEF TypeOK
    <3> QED
      BY <1>0, <2>1, <2>2, <3>1, ReturnCore DEF TypeOK
  <2>4. Budget'
    BY <1>0, <2>1, BudgetStep DEF Return, Goto, CallPc
  <2>5. RangeInv'
    <3>1. \A a \in acks' : a.request <= count'
      BY <1>0, <2>1, <2>2 DEF RangeInv, TypeOK
    <3> QED
      BY <1>0, <2>1, <3>1, ReturnCore DEF RangeInv, TypeOK
  <2> QED
    BY <2>3, <2>4, <2>5 DEF Core
<1>10. ASSUME NEW granted \in BOOLEAN, SendFail(t, granted)
       PROVE  Core'
  <2>1. /\ pc[t] = "send" /\ pc' = [pc EXCEPT ![t] = "remove"]
        /\ acks' \in {acks, acks \cup {[request |-> mine[t], granted |-> granted]}}
        /\ UNCHANGED <<connVars, lockVars, started, count, req, listVars, slot,
                   freed, arg, mine, yieldVars, accepted, reportVars, fault>>
    BY <1>10 DEF SendFail, At, BrokerAnswers, Goto
  <2>2. mine[t] \in 1 .. count /\ mine[t] \in Request
    BY <1>0, <2>1 DEF RangeInv, TypeOK, Request
  <2>3. TypeOK'
    <3>1. acks' \subseteq [request : Request, granted : BOOLEAN]
      BY <1>0, <2>1, <2>2 DEF TypeOK
    <3> QED
      BY <1>0, <2>1, <3>1 DEF TypeOK, CallPc
  <2>4. LockInv'
    BY <1>0, <2>1 DEF LockInv, TypeOK
  <2>5. Budget'
    BY <1>0, <2>1, BudgetStep DEF CallPc
  <2>6. RangeInv'
    BY <1>0, <2>1, <2>2 DEF RangeInv, TypeOK
  <2> QED
    BY <2>3, <2>4, <2>5, <2>6 DEF Core
<1>11. CASE ListRemove(t)
  <2>1. /\ pc[t] \in {"push", "send", "remove"} /\ Return(t, FALSE)
        /\ list' = list \ {mine[t]} /\ invalid' = invalid \ {mine[t]}
        /\ expired' = expired \ {mine[t]} /\ freed' = freed \cup {mine[t]}
        /\ fault' \in {"node", "filter", fault}
        /\ UNCHANGED <<isConnected, asked, lockGeneric, lockListSub, started,
                   count, req, slot, yreq, handle, subNack, cursor, acks, accepted, reportVars>>
    BY <1>11 DEF ListRemove, At
  <2>2. mine[t] \in 1 .. count /\ mine[t] \in Request
    BY <1>0, <2>1 DEF RangeInv, TypeOK, Request
  <2>3. TypeOK' /\ LockInv'
    BY <1>0, <2>1, <2>2, ReturnCore DEF TypeOK, Fault
  <2>4. Budget'
    BY <1>0, <2>1, BudgetStep DEF Return, Goto, CallPc
  <2>5. RangeInv'
    BY <1>0, <2>1, <2>2, ReturnCore DEF RangeInv, TypeOK
  <2> QED
    BY <2>3, <2>4, <2>5 DEF Core
<1> QED
  BY <1>1, <1>2, <1>3, <1>4, <1>5, <1>6, <1>7, <1>8, <1>9, <1>10, <1>11 DEF CallStep

\* A step of the yield loop.
LEMMA CoreYield ==
    ASSUME Core, YieldStep
    PROVE  Core'
<1> USE SubscribeAssumption
        DEF connVars, lockVars, listVars, callVars, yieldVars, reportVars
<1>0. TypeOK /\ LockInv /\ Budget /\ RangeInv /\ Yielder \in Thread
  BY DEF Core, Thread
<1>b. UNCHANGED <<pc, started, count>> => Budget'
  BY <1>0 DEF Budget, Pending
<1>z. 0 \in 0 .. MaxRequest /\ 1 \in 1 .. MAX_SUB_TOPICS + 1
  OBVIOUS
<1>1. ASSUME NEW a \in acks, ReadSuback(a)
     PROVE  Core'
  <2>5. a.request \in Request /\ a.request <= count /\ a.request \in 0 .. MaxRequest
    BY <1>0 DEF RangeInv, TypeOK, Request
  <2>1. TypeOK'
    BY <1>0, <1>1, <2>5 DEF ReadSuback, InYield, At, Free, TypeOK, YieldPc, Fault
  <2>2. LockInv'
    BY <1>0, <1>1 DEF ReadSuback, InYield, At, Free, LockInv, TypeOK
  <2>3. Budget'
    BY <1>b, <1>1 DEF ReadSuback
  <2>4. RangeInv'
    <3>1. yreq' = a.request /\ handle' = handle /\ ypc' = "mask" /\ acks' \subseteq acks
      BY <1>1 DEF ReadSuback
    <3>2. handle' <= count /\ yreq' <= count /\ yreq' # 0
      BY <1>0, <2>5, <3>1 DEF RangeInv, TypeOK, Request
    <3>3. \A b \in acks' : b.request <= count
      BY <1>0, <3>1 DEF RangeInv
    <3> QED
      BY <1>0, <1>1, <3>1, <3>2, <3>3 DEF ReadSuback, RangeInv
  <2> QED
    BY <2>1, <2>2, <2>3, <2>4 DEF Core
<1>2. ASSUME NEW a \in acks, NEW garbage \in BOOLEAN, ReadUnsuback(a, garbage)
     PROVE  Core'
  <2>5. a.request \in Request /\ a.request <= count /\ a.request \in 0 .. MaxRequest
    BY <1>0 DEF RangeInv, TypeOK, Request
  <2>1. TypeOK'
    BY <1>0, <1>2, <2>5 DEF ReadUnsuback, InYield, At, Free, TypeOK, YieldPc, Fault
  <2>2. LockInv'
    BY <1>0, <1>2 DEF ReadUnsuback, InYield, At, Free, LockInv, TypeOK
  <2>3. Budget'
    BY <1>b, <1>2 DEF ReadUnsuback
  <2>4. RangeInv'
    <3>1. yreq' = a.request /\ handle' \in {a.request, 0} /\ ypc' = "unsuback" /\ acks' \subseteq acks
      BY <1>2 DEF ReadUnsuback
    <3>2. handle' <= count /\ yreq' <= count /\ yreq' # 0
      BY <1>0, <2>5, <3>1 DEF RangeInv, TypeOK, Request
    <3>3. \A b \in acks' : b.request <= count
      BY <1>0, <3>1 DEF RangeInv
    <3> QED
      BY <1>0, <1>2, <3>1, <3>2, <3>3 DEF ReadUnsuback, RangeInv
  <2> QED
    BY <2>1, <2>2, <2>3, <2>4 DEF Core
<1>3. CASE MaskSubInfo
  <2>5. yreq \in (1 .. count) \cap Request /\ (handle # 0 => handle \in (1 .. count) \cap Request)
    BY <1>0, <1>3 DEF MaskSubInfo, InYield, RangeInv, TypeOK, Request
  <2>1. TypeOK'
    <3>1. CASE yreq \in list
      <4>1. /\ invalid' = invalid \cup {yreq} /\ handle' = yreq /\ ypc' \in {"nack", "install"}
            /\ refused' \in {refused, refused \cup {yreq}} /\ lockGeneric' = lockGeneric
            /\ yreq' = yreq /\ subNack' = subNack
        BY <1>3, <3>1 DEF MaskSubInfo
      <4> QED
        BY <1>0, <1>3, <2>5, <3>1, <4>1 DEF MaskSubInfo, TypeOK, YieldPc
    <3>2. CASE yreq \notin list
      BY <1>0, <1>z, <1>3, <3>2 DEF MaskSubInfo, Handled, TypeOK, YieldPc
    <3> QED
      BY <3>1, <3>2
  <2>2. LockInv'
    BY <1>0, <1>3 DEF MaskSubInfo, InYield, At, Handled, Free, LockInv, TypeOK
  <2>3. Budget'
    BY <1>b, <1>3 DEF MaskSubInfo
  <2>4. RangeInv'
    BY <1>0, <1>3, <2>5 DEF MaskSubInfo, InYield, At, Handled, Free, RangeInv, TypeOK
  <2> QED
    BY <2>1, <2>2, <2>3, <2>4 DEF Core
<1>4. CASE NackReturn
  <2>5. yreq \in (1 .. count) \cap Request /\ (handle # 0 => handle \in (1 .. count) \cap Request)
    BY <1>0, <1>4 DEF NackReturn, InYield, RangeInv, TypeOK, Request
  <2>1. TypeOK'
    <3>1. /\ freed' = freed \cup {handle} /\ fault' \in {"filter", fault} /\ handle \in Request
          /\ lockGeneric' = NoThread /\ ypc' = "read" /\ yreq' = 0 /\ handle' = 0 /\ subNack' = FALSE
      BY <1>0, <1>4, <2>5 DEF NackReturn, InYield, Handled, FreeFilter, RangeInv
    <3> QED
      BY <1>0, <1>z, <1>4, <3>1 DEF NackReturn, TypeOK, YieldPc, Fault
  <2>2. LockInv'
    BY <1>0, <1>4 DEF NackReturn, InYield, At, Handled, FreeFilter, LockInv, TypeOK
  <2>3. Budget'
    BY <1>b, <1>4 DEF NackReturn
  <2>4. RangeInv'
    BY <1>0, <1>4, <2>5 DEF NackReturn, InYield, At, Handled, FreeFilter, RangeInv, TypeOK
  <2> QED
    BY <2>1, <2>2, <2>3, <2>4 DEF Core
<1>5. CASE SubackInstall
  <2>5. Occupied # Slot => FirstFree \in Slot
    BY <1>0, FirstFreeFacts
  <2>6. handle \in (1 .. count) \cap Request /\ yreq \in Request
    BY <1>0, <1>5 DEF SubackInstall, InYield, RangeInv, TypeOK, Request
  <2>1. TypeOK'
    <3>1. /\ slot' \in [Slot -> 0 .. MaxRequest] /\ freed' \subseteq Request
          /\ succeeded' \subseteq Request /\ dropped' \subseteq Request
      <4>1. CASE Identical(handle)
        BY <1>0, <1>5, <2>6, <4>1 DEF SubackInstall, TypeOK
      <4>2. CASE ~Identical(handle) /\ Occupied = Slot
        BY <1>0, <1>5, <2>6, <4>2 DEF SubackInstall, TypeOK
      <4>3. CASE ~Identical(handle) /\ Occupied # Slot
        BY <1>0, <1>5, <2>5, <2>6, <4>3 DEF SubackInstall, TypeOK
      <4> QED
        BY <4>1, <4>2, <4>3
    <3>2. /\ ypc' \in {"proc", "read"} /\ yreq' = 0 /\ handle' = 0 /\ subNack' = FALSE
          /\ fault' \in {"filter", fault} /\ lockGeneric' = NoThread
      BY <1>5 DEF SubackInstall, Handled
    <3> QED
      BY <1>0, <1>z, <1>5, <3>1, <3>2 DEF SubackInstall, TypeOK, YieldPc, Fault
  <2>2. LockInv'
    BY <1>0, <1>5 DEF SubackInstall, InYield, At, Handled, LockInv, TypeOK
  <2>3. Budget'
    BY <1>b, <1>5 DEF SubackInstall
  <2>4. RangeInv'
    <3>1. freed' \subseteq 1 .. count /\ \A s \in Slot : slot'[s] <= count
      <4>1. CASE Identical(handle)
        BY <1>0, <1>5, <2>6, <4>1 DEF SubackInstall, RangeInv
      <4>2. CASE ~Identical(handle) /\ Occupied = Slot
        BY <1>0, <1>5, <4>2 DEF SubackInstall, RangeInv
      <4>3. CASE ~Identical(handle) /\ Occupied # Slot
        BY <1>0, <1>5, <2>5, <2>6, <4>3 DEF SubackInstall, TypeOK, RangeInv
      <4> QED
        BY <4>1, <4>2, <4>3
    <3>2. ypc' \in {"proc", "read"} /\ yreq' = 0 /\ handle' = 0
          /\ UNCHANGED <<count, req, list, acks, pc, arg, mine, itr>>
      BY <1>5 DEF SubackInstall, Handled
    <3>3. 0 <= count
      BY <1>0 DEF TypeOK
    <3> QED
      BY <1>0, <3>1, <3>2, <3>3 DEF RangeInv
  <2> QED
    BY <2>1, <2>2, <2>3, <2>4 DEF Core
<1>6. CASE UnsubackFree
  <2>5. yreq \in (1 .. count) \cap Request /\ (handle # 0 => handle \in (1 .. count) \cap Request)
    BY <1>0, <1>6 DEF UnsubackFree, InYield, RangeInv, TypeOK, Request
  <2>1. TypeOK'
    BY <1>0, <1>6, <2>5 DEF UnsubackFree, InYield, At, Free, FreeFilter, TypeOK, YieldPc, Fault
  <2>2. LockInv'
    BY <1>0, <1>6 DEF UnsubackFree, InYield, At, Free, FreeFilter, LockInv, TypeOK
  <2>3. Budget'
    BY <1>b, <1>6 DEF UnsubackFree
  <2>4. RangeInv'
    <3>1. freed' \subseteq 1 .. count /\ ypc' = "unsubscribed"
      BY <1>0, <1>6, <2>5 DEF UnsubackFree, FreeFilter, RangeInv
    <3> QED
      BY <1>0, <1>6, <2>5, <3>1 DEF UnsubackFree, RangeInv
  <2> QED
    BY <2>1, <2>2, <2>3, <2>4 DEF Core
<1>7. CASE UnsubackReturn
  <2>1. TypeOK'
    BY <1>0, <1>z, <1>7 DEF UnsubackReturn, Handled, TypeOK, YieldPc
  <2>2. LockInv'
    BY <1>0, <1>7 DEF UnsubackReturn, InYield, At, Handled, LockInv, TypeOK
  <2>3. Budget'
    BY <1>b, <1>7 DEF UnsubackReturn
  <2>4. RangeInv'
    BY <1>0, <1>7 DEF UnsubackReturn, InYield, At, Handled, RangeInv, TypeOK
  <2> QED
    BY <2>1, <2>2, <2>3, <2>4 DEF Core
<1>8. CASE NothingToRead
  <2>1. TypeOK'
    BY <1>0, <1>8 DEF NothingToRead, InYield, At, TypeOK, YieldPc, Fault
  <2>2. LockInv'
    BY <1>0, <1>8 DEF NothingToRead, InYield, At, LockInv, TypeOK
  <2>3. Budget'
    BY <1>b, <1>8 DEF NothingToRead
  <2>4. RangeInv'
    BY <1>0, <1>8 DEF NothingToRead, InYield, At, RangeInv, TypeOK
  <2> QED
    BY <2>1, <2>2, <2>3, <2>4 DEF Core
<1>9. CASE ProcBegin
  <2>5. Prev(MaxRequest + 1) \in list \cup {0} /\ Prev(MaxRequest + 1) \in 0 .. MaxRequest
    BY <1>0, PrevInList DEF TypeOK
  <2>1. TypeOK'
    BY <1>0, <1>9, <2>5 DEF ProcBegin, InYield, At, Free, TypeOK, YieldPc, Fault
  <2>2. LockInv'
    BY <1>0, <1>9 DEF ProcBegin, InYield, At, Free, LockInv, TypeOK
  <2>3. Budget'
    BY <1>b, <1>9 DEF ProcBegin
  <2>4. RangeInv'
    BY <1>0, <1>9, <2>5 DEF ProcBegin, InYield, At, Free, RangeInv, TypeOK
  <2> QED
    BY <2>1, <2>2, <2>3, <2>4 DEF Core
<1>10. CASE ScanEnd
  <2>1. TypeOK'
    BY <1>0, <1>10 DEF ScanEnd, InYield, At, TypeOK, YieldPc, Fault
  <2>2. LockInv'
    BY <1>0, <1>10 DEF ScanEnd, InYield, At, LockInv, TypeOK
  <2>3. Budget'
    BY <1>b, <1>10 DEF ScanEnd
  <2>4. RangeInv'
    BY <1>0, <1>10 DEF ScanEnd, InYield, At, RangeInv, TypeOK
  <2> QED
    BY <2>1, <2>2, <2>3, <2>4 DEF Core
<1>11. CASE ScanInvalid
  <2>5. Prev(cursor) \in list \cup {0} /\ Prev(cursor) \in 0 .. MaxRequest
    BY <1>0, PrevInList DEF TypeOK
  <2>1. TypeOK'
    BY <1>0, <1>11, <2>5 DEF ScanInvalid, InYield, At, Remove, TypeOK, YieldPc, Fault
  <2>2. LockInv'
    BY <1>0, <1>11 DEF ScanInvalid, InYield, At, Remove, LockInv, TypeOK
  <2>3. Budget'
    BY <1>b, <1>11 DEF ScanInvalid
  <2>4. RangeInv'
    BY <1>0, <1>11, <2>5 DEF ScanInvalid, InYield, At, Remove, RangeInv, TypeOK
  <2> QED
    BY <2>1, <2>2, <2>3, <2>4 DEF Core
<1>12. CASE ScanSkip
  <2>5. Prev(cursor) \in list \cup {0} /\ Prev(cursor) \in 0 .. MaxRequest
    BY <1>0, PrevInList DEF TypeOK
  <2>1. TypeOK'
    BY <1>0, <1>12, <2>5 DEF ScanSkip, InYield, At, TypeOK, YieldPc, Fault
  <2>2. LockInv'
    BY <1>0, <1>12 DEF ScanSkip, InYield, At, LockInv, TypeOK
  <2>3. Budget'
    BY <1>b, <1>12 DEF ScanSkip
  <2>4. RangeInv'
    BY <1>0, <1>12, <2>5 DEF ScanSkip, InYield, At, RangeInv, TypeOK
  <2> QED
    BY <2>1, <2>2, <2>3, <2>4 DEF Core
<1>13. CASE ScanTimeout
  <2>5. Prev(cursor) \in list \cup {0} /\ Prev(cursor) \in 0 .. MaxRequest
    BY <1>0, PrevInList DEF TypeOK
  <2>6. cursor \in (1 .. count) \cap Request
    BY <1>0, <1>13 DEF ScanTimeout, RangeInv, TypeOK, Request
  <2>1. TypeOK'
    BY <1>0, <1>13, <2>5, <2>6 DEF ScanTimeout, InYield, At, TypeOK, YieldPc, Fault
  <2>2. LockInv'
    BY <1>0, <1>13 DEF ScanTimeout, InYield, At, LockInv, TypeOK
  <2>3. Budget'
    BY <1>b, <1>13 DEF ScanTimeout
  <2>4. RangeInv'
    BY <1>0, <1>13, <2>5, <2>6 DEF ScanTimeout, InYield, At, RangeInv, TypeOK
  <2> QED
    BY <2>1, <2>2, <2>3, <2>4 DEF Core
<1>14. CASE TimeoutReturn
  <2>5. yreq \in (1 .. count) \cap Request /\ (handle # 0 => handle \in (1 .. count) \cap Request)
    BY <1>0, <1>14 DEF TimeoutReturn, InYield, RangeInv, TypeOK, Request
  <2>1. TypeOK'
    BY <1>0, <1>14, <2>5 DEF TimeoutReturn, InYield, At, Remove, FreeFilter, TypeOK, YieldPc, Fault
  <2>2. LockInv'
    BY <1>0, <1>14 DEF TimeoutReturn, InYield, At, Remove, FreeFilter, LockInv, TypeOK
  <2>3. Budget'
    BY <1>b, <1>14 DEF TimeoutReturn
  <2>4. RangeInv'
    BY <1>0, <1>14, <2>5 DEF TimeoutReturn, InYield, At, Remove, FreeFilter, RangeInv, TypeOK
  <2> QED
    BY <2>1, <2>2, <2>3, <2>4 DEF Core
<1>15. CASE Disconnect
  <2>1. TypeOK'
    BY <1>0, <1>15 DEF Disconnect, InYield, At, TypeOK, YieldPc, Fault
  <2>2. LockInv'
    BY <1>0, <1>15 DEF Disconnect, InYield, At, LockInv, TypeOK
  <2>3. Budget'
    BY <1>b, <1>15 DEF Disconnect
  <2>4. RangeInv'
    BY <1>0, <1>15 DEF Disconnect, InYield, At, RangeInv, TypeOK
  <2> QED
    BY <2>1, <2>2, <2>3, <2>4 DEF Core
<1>16. CASE Reconnect
  <2>1. TypeOK'
    BY <1>0, <1>z, <1>16 DEF Reconnect, TypeOK, YieldPc
  <2>2. LockInv'
    BY <1>0, <1>16 DEF Reconnect, InYield, At, LockInv, TypeOK
  <2>3. Budget'
    BY <1>b, <1>16 DEF Reconnect
  <2>4. RangeInv'
    BY <1>0, <1>16 DEF Reconnect, InYield, At, RangeInv, TypeOK
  <2> QED
    BY <2>1, <2>2, <2>3, <2>4 DEF Core
<1>17. CASE ResubscribeNext
  <2>1. TypeOK'
    <3>1. CASE itr > MAX_SUB_TOPICS
      BY <1>0, <1>z, <1>17, <3>1 DEF ResubscribeNext, TypeOK, YieldPc
    <3>2. CASE ~(itr > MAX_SUB_TOPICS)
      <4>1. itr \in Slot /\ itr + 1 \in 1 .. MAX_SUB_TOPICS + 1 /\ slot[itr] \in 0 .. MaxRequest
        BY <1>0, <3>2 DEF TypeOK, Slot
      <4>2. /\ itr' \in {itr, itr + 1} /\ handle' \in {handle, slot[itr]} /\ ypc' \in {ypc, "copy"}
        BY <1>17, <3>2 DEF ResubscribeNext
      <4> QED
        BY <1>0, <1>17, <4>1, <4>2 DEF ResubscribeNext, TypeOK, YieldPc
    <3> QED
      BY <3>1, <3>2
  <2>2. LockInv'
    BY <1>0, <1>17 DEF ResubscribeNext, InYield, At, LockInv, TypeOK
  <2>3. Budget'
    BY <1>b, <1>17 DEF ResubscribeNext
  <2>4. RangeInv'
    <3>1. /\ ypc' \in {"read", "copy", "resubscribe"} /\ (ypc' = "copy" => itr' = itr /\ handle' = slot[itr])
          /\ handle' # handle => ypc' = "copy"
          /\ ypc' = "copy" => itr <= MAX_SUB_TOPICS /\ slot[itr] # 0
      BY <1>0, <1>17 DEF ResubscribeNext, InYield, TypeOK
    <3>2. ypc' = "copy" => slot[itr] <= count
      BY <1>0, <3>1 DEF RangeInv, TypeOK, Slot
    <3>3. handle' <= count
      BY <1>0, <3>1, <3>2 DEF RangeInv
    <3> QED
      BY <1>0, <1>17, <3>1, <3>3 DEF ResubscribeNext, RangeInv
  <2> QED
    BY <2>1, <2>2, <2>3, <2>4 DEF Core
<1>18. CASE ResubscribeCopy
  <2>1. /\ pc[Yielder] = "idle" /\ ypc = "copy" /\ started < MaxRequest /\ started' = started + 1
        /\ fault' \in {"filter", fault}
        /\ arg' = [arg EXCEPT ![Yielder] = Subscribe(req[handle].topic, req[handle].handler)]
        /\ pc' = [pc EXCEPT ![Yielder] = "lock"] /\ handle' = 0 /\ ypc' = "calling"
        /\ UNCHANGED <<connVars, lockVars, count, req, listVars, slot, freed, mine,
                       yreq, subNack, cursor, itr, acks, accepted, reportVars>>
    BY <1>18 DEF ResubscribeCopy, InYield, At, Goto
  <2>2. Subscribe(req[handle].topic, req[handle].handler) \in SubTopicHandle
    <3>1. handle \in 1 .. count
      BY <1>0, <2>1 DEF RangeInv, TypeOK
    <3>2. req[handle] \in SubTopicHandle
      BY <1>0, <3>1 DEF RangeInv
    <3> QED
      BY <3>2 DEF Subscribe, SubTopicHandle
  <2>3. TypeOK'
    <3>1. pc' \in [Thread -> CallPc] /\ arg' \in [Thread -> SubTopicHandle \cup {NULL}]
      BY <1>0, <2>1, <2>2 DEF TypeOK, CallPc
    <3> QED
      BY <1>0, <2>1, <3>1 DEF TypeOK, YieldPc, Fault
  <2>4. LockInv'
    BY <1>0, <2>1 DEF LockInv, TypeOK
  <2>5. Budget'
    BY <1>0, <2>1, BudgetStep DEF CallPc
  <2>6. RangeInv'
    BY <1>0, <2>1, <2>2 DEF RangeInv, TypeOK
  <2> QED
    BY <2>3, <2>4, <2>5, <2>6 DEF Core
<1> QED
  BY <1>1, <1>2, <1>3, <1>4, <1>5, <1>6, <1>7, <1>8, <1>9, <1>10, <1>11, <1>12, <1>13, <1>14, <1>15, <1>16, <1>17, <1>18 DEF YieldStep

\* Types, lock ownership and ranges, for any number of threads.
LEMMA CoreNext == Core /\ [Next]_vars => Core'
<1> SUFFICES ASSUME Core, [Next]_vars
             PROVE  Core'
  OBVIOUS
<1> USE DEF connVars, lockVars, listVars, callVars, yieldVars, reportVars
<1>1. ASSUME NEW t \in Thread, CallStep(t)
      PROVE  Core'
  BY <1>1, CoreCall
<1>2. CASE YieldStep
  BY <1>2, CoreYield
<1>3. ASSUME NEW n \in Request, TimerExpires(n)
      PROVE  Core'
  BY <1>3 DEF TimerExpires, Core, TypeOK, LockInv, Budget, Pending, RangeInv
<1>4. CASE UNCHANGED vars
  BY <1>4 DEF vars, Core, TypeOK, LockInv, Budget, Pending, RangeInv
<1> QED
  BY <1>1, <1>2, <1>3, <1>4 DEF Next

\* Core holds always.
LEMMA CoreHolds == Spec => []Core
BY CoreInit, CoreNext, PTL DEF Spec

\* The variables keep their types whatever the threads do: in particular no
\* packet id beyond those counted is given out, no slot, node or handle refers
\* to a request that was not made, and a lock belongs to one thread.
THEOREM TypeCorrect == Spec => []TypeOK
<1>1. Core => TypeOK
  BY DEF Core
<1> QED
  BY <1>1, CoreHolds, PTL

-----------------------------------------------------------------------------
(* The order of the locks *)

\* With event handlers that do not call the client, the yield thread calls it
\* between two yields or to subscribe again, in either case without a lock.
QuietInv == pc[Yielder] # "idle" => ypc \in {"read", "calling"}

\* QuietInv is kept by every step.
LEMMA QuietNext ==
    ASSUME HandlerCalls = FALSE, Core, QuietInv, [Next]_vars
    PROVE  QuietInv'
<1> USE DEF connVars, lockVars, listVars, callVars, yieldVars, reportVars
<1>0. TypeOK /\ LockInv /\ Yielder \in Thread
  BY DEF Core, Thread
<1>1. ASSUME NEW t \in Thread, CallStep(t)
      PROVE  QuietInv'
  <2>1. /\ \A u \in Thread : u # t => pc'[u] = pc[u]
        /\ pc'[t] # "idle" => ypc' = ypc /\ (pc[t] # "idle" \/ MayCall(t))
        /\ \/ ypc' = ypc
           \/ ypc' \in {"read", "resubscribe"} /\ t = Yielder /\ pc'[t] = "idle"
    <3> DEFINE Moves(where) == /\ pc' = [pc EXCEPT ![t] = where]
                               /\ pc[t] # "idle" \/ MayCall(t)
                               /\ \/ ypc' = ypc
                                  \/ where = "idle" /\ t = Yielder /\ ypc' \in {"read", "resubscribe"}
    <3>1. ASSUME NEW f \in Topic, NEW h \in Handler, SubscribeEnter(t, f, h)
          PROVE  \E where \in CallPc : Moves(where)
      BY <3>1 DEF SubscribeEnter, Goto, CallPc
    <3>2. ASSUME NEW f \in Topic, UnsubscribeEnter(t, f)
          PROVE  \E where \in CallPc : Moves(where)
      BY <3>2 DEF UnsubscribeEnter, Goto, CallPc
    <3>3. ASSUME ClearHandles(t) \/ UnsubscribeCheck(t) \/ LockWriteBuf(t) \/ GetNextPacketId(t)
               \/ PushSubInfo(t) \/ \E granted \in BOOLEAN : SendFail(t, granted)
          PROVE  \E where \in CallPc : Moves(where)
      BY <3>3 DEF ClearHandles, UnsubscribeCheck, LockWriteBuf, GetNextPacketId, PushSubInfo,
                  SendFail, At, Goto, CallPc
    <3>4. ASSUME PushFail(t) \/ ListRemove(t) \/ \E granted \in BOOLEAN : SendOk(t, granted)
          PROVE  \E where \in CallPc : Moves(where)
      <4>1. pc[t] # "idle" /\ (Return(t, TRUE) \/ Return(t, FALSE))
        BY <3>4 DEF PushFail, ListRemove, SendOk, At
      <4> QED
        BY <4>1 DEF Return, Goto, CallPc
    <3>5. PICK where \in CallPc : Moves(where)
      BY <1>1, <3>1, <3>2, <3>3, <3>4 DEF CallStep
    <3>6. pc'[t] = where /\ \A u \in Thread : u # t => pc'[u] = pc[u]
      BY <1>0, <3>5 DEF TypeOK
    <3> QED
      BY <3>5, <3>6
  <2>2. MayCall(t) /\ t = Yielder => ypc = "read"
    BY DEF MayCall
  <2> QED
    BY <1>0, <2>1, <2>2 DEF QuietInv
<1>2. CASE YieldStep
  <2>1. pc[Yielder] = "idle" /\ (pc' = pc \/ ypc' = "calling")
    BY <1>2 DEF YieldStep, ReadSuback, ReadUnsuback, MaskSubInfo, NackReturn, SubackInstall,
                UnsubackFree, UnsubackReturn, NothingToRead, ProcBegin, ScanEnd, ScanInvalid,
                ScanSkip, ScanTimeout, TimeoutReturn, Disconnect, Reconnect, ResubscribeNext,
                ResubscribeCopy, InYield, At
  <2> QED
    BY <2>1 DEF QuietInv
<1>3. ASSUME NEW n \in Request, TimerExpires(n)
      PROVE  QuietInv'
  BY <1>3 DEF TimerExpires, QuietInv
<1>4. CASE UNCHANGED vars
  BY <1>4 DEF vars, QuietInv
<1> QED
  BY <1>1, <1>2, <1>3, <1>4 DEF Next

\* The locks are taken in an order, if no event handler calls the client.
LEMMA QuietNoCircularWait ==
    ASSUME Core, QuietInv
    PROVE  NoCircularWait
<1> SUFFICES ASSUME NEW t \in Thread, NEW u \in Thread, t # u,
                    WaitsFor(t) = u, WaitsFor(u) = t
             PROVE  FALSE
  BY DEF NoCircularWait
<1>0. TypeOK /\ LockInv /\ NoThread \notin Thread /\ Yielder \in Thread
  BY SubscribeAssumption DEF Core, Thread
<1>1. ASSUME NEW v \in Thread, WaitsFor(v) \in Thread
      PROVE  \/ pc[v] = "lock" /\ WaitsFor(v) = lockWriteBuf
             \/ pc[v] \in {"clear", "id"} /\ WaitsFor(v) = lockGeneric
             \/ pc[v] \in {"push", "remove"} /\ WaitsFor(v) = lockListSub
             \/ v = Yielder /\ pc[v] = "idle" /\ ypc \in {"mask", "proc"} /\ WaitsFor(v) = lockListSub
             \/ v = Yielder /\ pc[v] = "idle" /\ ypc = "unsuback" /\ WaitsFor(v) = lockGeneric
  BY <1>0, <1>1 DEF WaitsFor
<1>2. ASSUME NEW v \in Thread, WaitsFor(v) \in Thread, WaitsFor(v) # v
      PROVE  \/ v # Yielder /\ WaitsFor(v) = Yielder
             \/ pc[v] = "lock" /\ WaitsFor(v) = lockWriteBuf
  BY <1>0, <1>1, <1>2 DEF LockInv
<1>3. ASSUME NEW v \in Thread, NEW w \in Thread, v # w, WaitsFor(v) = w, WaitsFor(w) = v,
             pc[v] = "lock" /\ w = lockWriteBuf
      PROVE  FALSE
  <2>1. pc[w] \in {"id", "push", "send", "remove"}
    BY <1>0, <1>3 DEF LockInv
  <2>2. w # Yielder /\ v = Yielder
    BY <1>2, <1>3, <2>1
  <2>3. v = lockGeneric \/ v = lockListSub
    BY <1>1, <1>3, <2>1
  <2>4. ypc \notin {"read", "calling"}
    BY <1>0, <2>2, <2>3 DEF LockInv
  <2> QED
    BY <1>3, <2>2, <2>4 DEF QuietInv
<1>4. pc[t] # "lock" \/ u # lockWriteBuf
  BY <1>3
<1>5. pc[u] # "lock" \/ t # lockWriteBuf
  BY <1>3
<1> QED
  BY <1>2, <1>4, <1>5

\* No two threads wait for each other's lock, however many threads there are,
\* when no event handler calls the client: lock_write_buf is taken first, the
\* other two are held by the yield thread only, which then waits for nothing
\* but lock_list_sub under lock_generic.
THEOREM NoCircularWaitHolds ==
    ASSUME HandlerCalls = FALSE
    PROVE  Spec => []NoCircularWait
<1>1. Init => QuietInv
  BY DEF Init, QuietInv, Thread
<1>2. Core /\ QuietInv /\ [Next]_vars => QuietInv'
  BY QuietNext
<1>3. Core /\ QuietInv => NoCircularWait
  BY QuietNoCircularWait
<1> QED
  BY <1>1, <1>2, <1>3, CoreHolds, PTL DEF Spec

-----------------------------------------------------------------------------
(* The outcomes of the requests *)

\* A client without requests.
LEMMA OutcomeInit == Init => OutcomeInv
BY SubscribeAssumption DEF Init, OutcomeInv, CallInv, AnswerInv, NodeInv, OneOutcome, Answered, Done, Acking

\* At most one call is past the lock on the write buffer.
LEMMA OneSender ==
    ASSUME Core
    PROVE  \A t, u \in Thread :
             pc[t] \in {"push", "send", "remove"} /\ pc[u] \in {"push", "send", "remove"} => t = u
BY DEF Core, LockInv

\* A step of a call that is not past that lock, or a step that changes nothing
\* the outcomes are about.
LEMMA OutcomeKept ==
    ASSUME OutcomeInv,
           \A u \in Thread : pc'[u] \in {"push", "send", "remove"} => pc'[u] = pc[u] /\ mine'[u] = mine[u],
           UNCHANGED <<count, req, list, invalid, acks, accepted, reportVars, yreq, handle>>,
           \/ ypc' = ypc
           \/ ypc' \in {"read", "proc", "scan", "resubscribe", "copy", "calling"} /\ ypc \notin {"install", "unsuback", "timeout"}
    PROVE  OutcomeInv'
<1> USE DEF reportVars
<1>1. Done' = Done /\ Answered' = Answered /\ (Acking' => Acking)
  BY DEF Done, Answered, Acking
<1>2. CallInv'
  BY <1>1 DEF OutcomeInv, CallInv
<1>3. AnswerInv'
  BY <1>1 DEF OutcomeInv, AnswerInv
<1>4. NodeInv'
  BY <1>1 DEF OutcomeInv, NodeInv
<1>5. OneOutcome'
  BY DEF OutcomeInv, OneOutcome
<1> QED
  BY <1>2, <1>3, <1>4, <1>5 DEF OutcomeInv

\* The steps of a call.
LEMMA OutcomeCall ==
    ASSUME Core, OutcomeInv, NEW t \in Thread, CallStep(t)
    PROVE  OutcomeInv'
<1> USE DEF connVars, lockVars, listVars, callVars, yieldVars, reportVars
<1>0. /\ TypeOK /\ LockInv /\ RangeInv /\ Yielder \in Thread
      /\ CallInv /\ AnswerInv /\ NodeInv /\ OneOutcome
  BY DEF Core, OutcomeInv, Thread
<1>1. ASSUME NEW f \in Topic, NEW h \in Handler, SubscribeEnter(t, f, h)
      PROVE  OutcomeInv'
  BY <1>0, <1>1, OutcomeKept DEF SubscribeEnter, Goto, TypeOK
<1>2. ASSUME NEW f \in Topic, UnsubscribeEnter(t, f)
      PROVE  OutcomeInv'
  BY <1>0, <1>2, OutcomeKept DEF UnsubscribeEnter, Goto, TypeOK
<1>3. CASE ClearHandles(t)
  BY <1>0, <1>3, OutcomeKept DEF ClearHandles, Goto, TypeOK
<1>4. CASE UnsubscribeCheck(t)
  BY <1>0, <1>4, OutcomeKept DEF UnsubscribeCheck, Goto, TypeOK
<1>5. CASE LockWriteBuf(t)
  BY <1>0, <1>5, OutcomeKept DEF LockWriteBuf, Goto, TypeOK
<1>6. CASE GetNextPacketId(t)
  <2>1. /\ pc[t] = "id" /\ pc' = [pc EXCEPT ![t] = "push"] /\ count' = count + 1
        /\ req' = [req EXCEPT ![count + 1] = arg[t]]
        /\ mine' = [mine EXCEPT ![t] = count + 1]
        /\ UNCHANGED <<listVars, acks, accepted, reportVars, yieldVars>>
    BY <1>6 DEF GetNextPacketId, At, Goto
  <2>2. /\ count \in Nat /\ pc'[t] = "push" /\ mine'[t] = count + 1
        /\ \A u \in Thread : u # t => pc'[u] = pc[u] /\ mine'[u] = mine[u]
        /\ \A r \in 1 .. count : req'[r] = req[r]
    BY <1>0, <2>1, SubscribeAssumption DEF TypeOK, Request
  <2>3. count + 1 \notin Answered \cup Done \cup invalid \cup list \cup timedOut \cup accepted /\ yreq # count + 1
    BY <1>0, <2>2 DEF NodeInv, RangeInv, TypeOK, Answered, Request
  <2>4. Done' = Done /\ Answered' = Answered /\ Acking' = Acking
    BY <2>1 DEF Done, Answered, Acking
  <2>5. CallInv'
    BY <1>0, <2>1, <2>2, <2>3, <2>4 DEF CallInv
  <2>6. AnswerInv'
    <3>1. Acking => yreq \in 1 .. count
      BY <1>0, <2>2 DEF RangeInv, TypeOK, Acking
    <3> QED
      BY <1>0, <2>1, <2>2, <2>4, <3>1 DEF AnswerInv, Acking
  <2>7. NodeInv'
    BY <1>0, <2>1, <2>2, <2>4 DEF NodeInv
  <2>8. OneOutcome'
    BY <1>0, <2>1, <2>2, <2>3 DEF OneOutcome, Done
  <2> QED
    BY <2>5, <2>6, <2>7, <2>8 DEF OutcomeInv
<1>7. CASE PushSubInfo(t)
  <2>1. /\ pc[t] = "push" /\ pc' = [pc EXCEPT ![t] = "send"] /\ list' = list \cup {mine[t]}
        /\ UNCHANGED <<count, req, invalid, mine, yieldVars, acks, accepted, reportVars>>
    BY <1>7 DEF PushSubInfo, At, Goto
  <2>2. /\ pc'[t] = "send" /\ \A u \in Thread : u # t => pc'[u] = pc[u]
    BY <1>0, <2>1 DEF TypeOK
  <2>3. Done' = Done /\ Answered' = Answered /\ Acking' = Acking
    BY <2>1 DEF Done, Answered, Acking
  <2>4. CallInv'
    BY <1>0, <2>1, <2>2, <2>3, OneSender DEF CallInv
  <2>5. AnswerInv'
    BY <1>0, <2>1, <2>3 DEF AnswerInv, CallInv, Acking
  <2>6. NodeInv'
    BY <1>0, <2>1, <2>3 DEF NodeInv, CallInv
  <2>7. OneOutcome'
    BY <1>0, <2>1 DEF OneOutcome
  <2> QED
    BY <2>4, <2>5, <2>6, <2>7 DEF OutcomeInv
<1>8. CASE PushFail(t)
  <2>1. /\ pc[t] = "push" /\ Return(t, FALSE)
        /\ UNCHANGED <<count, req, listVars, acks, accepted, reportVars, yreq, handle, lockGeneric, lockListSub>>
    BY <1>8 DEF PushFail, At
  <2>2. /\ \A u \in Thread : pc'[u] # "idle" => u # t /\ pc'[u] = pc[u] /\ mine'[u] = mine[u]
        /\ ypc' = ypc \/ (ypc = "calling" /\ ypc' \in {"resubscribe", "read"})
    BY <2>1, ReturnCore
  <2> QED
    BY <2>1, <2>2, OutcomeKept
<1>9. ASSUME NEW granted \in BOOLEAN, SendOk(t, granted)
      PROVE  OutcomeInv'
  <2>1. /\ pc[t] = "send" /\ Return(t, TRUE)
        /\ acks' = acks \cup {[request |-> mine[t], granted |-> granted]}
        /\ accepted' = accepted \cup {mine[t]}
        /\ UNCHANGED <<count, req, listVars, reportVars, yreq, handle, lockGeneric, lockListSub>>
    BY <1>9 DEF SendOk, At, BrokerAnswers
  <2>2. /\ \A u \in Thread : pc'[u] # "idle" => u # t /\ pc'[u] = pc[u] /\ mine'[u] = mine[u]
        /\ ypc' = ypc \/ (ypc = "calling" /\ ypc' \in {"resubscribe", "read"})
    BY <2>1, ReturnCore
  <2>3. Done' = Done /\ Answered' = Answered \cup {mine[t]} /\ Acking' = Acking
    <3> DEFINE b == [request |-> mine[t], granted |-> granted]
    <3>0. acks' = acks \cup {b} /\ b.request = mine[t]
      BY <2>1
    <3> HIDE DEF b
    <3>1. Answered' = Answered \cup {mine[t]}
      <4>1. Answered' = {a.request : a \in acks \cup {b}}
        BY <3>0 DEF Answered
      <4>2. {a.request : a \in acks \cup {b}} = {a.request : a \in acks} \cup {b.request}
        OBVIOUS
      <4> QED
        BY <3>0, <4>1, <4>2 DEF Answered
    <3> QED
      BY <2>1, <2>2, <3>1 DEF Done, Acking
  <2>4. CallInv'
    BY <1>0, <2>1, <2>2, <2>3, OneSender DEF CallInv
  <2>5. AnswerInv'
    <3>1. mine[t] \notin Answered \cup Done \cup invalid /\ (Acking => mine[t] # yreq)
      BY <1>0, <2>1 DEF CallInv
    <3>2. /\ \A a, b \in acks' : a.request = b.request => a = b
          /\ \A a \in acks' : a.request \notin Done \cup invalid /\ (Acking => a.request # yreq)
      BY <1>0, <2>1, <3>1 DEF AnswerInv, Answered
    <3> QED
      BY <1>0, <2>1, <2>2, <2>3, <3>2 DEF AnswerInv
  <2>6. NodeInv'
    BY <1>0, <2>1, <2>2, <2>3 DEF NodeInv, CallInv
  <2>7. OneOutcome'
    BY <1>0, <2>1 DEF OneOutcome
  <2> QED
    BY <2>4, <2>5, <2>6, <2>7 DEF OutcomeInv
<1>10. ASSUME NEW granted \in BOOLEAN, SendFail(t, granted)
       PROVE  OutcomeInv'
  <2>1. /\ pc[t] = "send" /\ pc' = [pc EXCEPT ![t] = "remove"]
        /\ acks' \in {acks, acks \cup {[request |-> mine[t], granted |-> granted]}}
        /\ UNCHANGED <<count, req, listVars, mine, yieldVars, accepted, reportVars>>
    BY <1>10 DEF SendFail, At, BrokerAnswers, Goto
  <2>2. /\ pc'[t] = "remove" /\ \A u \in Thread : u # t => pc'[u] = pc[u]
    BY <1>0, <2>1 DEF TypeOK
  <2>3. Done' = Done /\ Answered' \subseteq Answered \cup {mine[t]} /\ Acking' = Acking
    BY <2>1 DEF Done, Answered, Acking
  <2>4. CallInv'
    BY <1>0, <2>1, <2>2, <2>3, OneSender DEF CallInv
  <2>5. AnswerInv'
    <3>1. mine[t] \notin Answered \cup Done \cup invalid /\ (Acking => mine[t] # yreq)
      BY <1>0, <2>1 DEF CallInv
    <3>2. /\ \A a, b \in acks' : a.request = b.request => a = b
          /\ \A a \in acks' : a.request \notin Done \cup invalid /\ (Acking => a.request # yreq)
      BY <1>0, <2>1, <3>1 DEF AnswerInv, Answered
    <3> QED
      BY <1>0, <2>1, <2>3, <3>2 DEF AnswerInv
  <2>6. NodeInv'
    BY <1>0, <2>1, <2>3 DEF NodeInv
  <2>7. OneOutcome'
    BY <1>0, <2>1 DEF OneOutcome
  <2> QED
    BY <2>4, <2>5, <2>6, <2>7 DEF OutcomeInv
<1>11. CASE ListRemove(t)
  <2>1. /\ pc[t] = "remove" /\ Return(t, FALSE)
        /\ list' = list \ {mine[t]} /\ invalid' = invalid \ {mine[t]}
        /\ UNCHANGED <<count, req, acks, accepted, reportVars, yreq, handle, lockGeneric, lockListSub>>
    BY <1>11 DEF ListRemove, At
  <2>2. /\ \A u \in Thread : pc'[u] # "idle" => u # t /\ pc'[u] = pc[u] /\ mine'[u] = mine[u]
        /\ ypc' = ypc \/ (ypc = "calling" /\ ypc' \in {"resubscribe", "read"})
    BY <2>1, ReturnCore
  <2>3. Done' = Done /\ Answered' = Answered /\ Acking' = Acking
    BY <2>1, <2>2 DEF Done, Answered, Acking
  <2>4. CallInv'
    BY <1>0, <2>1, <2>2, <2>3, OneSender DEF CallInv
  <2>5. AnswerInv'
    BY <1>0, <2>1, <2>2, <2>3 DEF AnswerInv
  <2>6. NodeInv'
    BY <1>0, <2>1, <2>2, <2>3 DEF NodeInv, CallInv
  <2>7. OneOutcome'
    BY <1>0, <2>1 DEF OneOutcome
  <2> QED
    BY <2>4, <2>5, <2>6, <2>7 DEF OutcomeInv
<1> QED
  BY <1>1, <1>2, <1>3, <1>4, <1>5, <1>6, <1>7, <1>8, <1>9, <1>10, <1>11 DEF CallStep

\* The loop over sub_handles reads a slot into its handle.
LEMMA ResubscribeKept ==
    ASSUME OutcomeInv, ypc \in {"resubscribe", "copy"},
           ypc' \in {"read", "resubscribe", "copy", "calling"},
           \A u \in Thread : pc'[u] \in {"push", "send", "remove"} => pc'[u] = pc[u] /\ mine'[u] = mine[u],
           UNCHANGED <<count, req, list, invalid, acks, accepted, reportVars, yreq>>
    PROVE  OutcomeInv'
<1> USE DEF reportVars
<1>1. Done' = Done /\ Answered' = Answered /\ ~Acking'
  BY DEF Done, Answered, Acking
<1>2. CallInv'
  BY <1>1 DEF OutcomeInv, CallInv
<1>3. AnswerInv'
  BY <1>1 DEF OutcomeInv, AnswerInv
<1>4. NodeInv'
  BY <1>1 DEF OutcomeInv, NodeInv
<1>5. OneOutcome'
  BY DEF OutcomeInv, OneOutcome
<1> QED
  BY <1>2, <1>3, <1>4, <1>5 DEF OutcomeInv

\* The handler of an acknowledgement returns and has reported it, or found no node.
LEMMA MaskErrorKept ==
    ASSUME OutcomeInv, ypc \in {"mask", "nack", "unsubscribed"}, ypc' \in {"read", "proc"}, yreq' = 0, handle' = 0,
           UNCHANGED <<count, req, list, invalid, acks, accepted, reportVars, pc, mine>>
    PROVE  OutcomeInv'
<1> USE DEF reportVars
<1>1. Done' = Done /\ Answered' = Answered /\ ~Acking'
  BY DEF Done, Answered, Acking
<1>2. CallInv'
  BY <1>1 DEF OutcomeInv, CallInv
<1>3. AnswerInv'
  BY <1>1 DEF OutcomeInv, AnswerInv
<1>4. NodeInv'
  BY <1>1 DEF OutcomeInv, NodeInv
<1>5. OneOutcome'
  BY DEF OutcomeInv, OneOutcome
<1> QED
  BY <1>2, <1>3, <1>4, <1>5 DEF OutcomeInv

\* The steps of the yield loop.
LEMMA OutcomeYield ==
    ASSUME Core, OutcomeInv, YieldStep
    PROVE  OutcomeInv'
<1> USE DEF connVars, lockVars, listVars, callVars, yieldVars, reportVars
<1>0. /\ TypeOK /\ LockInv /\ RangeInv /\ Yielder \in Thread
      /\ CallInv /\ AnswerInv /\ NodeInv /\ OneOutcome
  BY DEF Core, OutcomeInv, Thread
<1>1. ASSUME NEW a \in acks, ReadSuback(a)
      PROVE  OutcomeInv'
  <2>1. /\ ypc = "read" /\ ypc' = "mask" /\ yreq' = a.request /\ acks' = acks \ {a}
        /\ req[a.request].type = "SUBSCRIBE"
        /\ UNCHANGED <<count, req, listVars, callVars, handle, accepted, reportVars>>
    BY <1>1 DEF ReadSuback, InYield
  <2>2. Done' = Done /\ Acking' /\ a.request \in Answered /\ a.request \notin Done \cup invalid
    BY <1>0, <2>1 DEF Done, Answered, Acking, AnswerInv
  <2>3. Answered' \subseteq Answered /\ a.request \notin Answered'
    BY <1>0, <2>1 DEF Answered, AnswerInv
  <2>4. CallInv'
    BY <1>0, <2>1, <2>2, <2>3 DEF CallInv
  <2>5. AnswerInv'
    BY <1>0, <2>1, <2>2, <2>3 DEF AnswerInv, Answered
  <2>6. NodeInv'
    BY <1>0, <2>1, <2>2, <2>3 DEF NodeInv
  <2>7. OneOutcome'
    BY <1>0, <2>1, <2>2, <2>3 DEF OneOutcome
  <2> QED
    BY <2>4, <2>5, <2>6, <2>7 DEF OutcomeInv
<1>2. ASSUME NEW a \in acks, NEW garbage \in BOOLEAN, ReadUnsuback(a, garbage)
      PROVE  OutcomeInv'
  <2>1. /\ ypc = "read" /\ ypc' = "unsuback" /\ yreq' = a.request /\ acks' = acks \ {a}
        /\ req[a.request].type = "UNSUBSCRIBE" /\ invalid' = invalid \cup ({a.request} \cap list)
        /\ UNCHANGED <<count, req, list, callVars, accepted, reportVars>>
    BY <1>2 DEF ReadUnsuback, InYield
  <2>2. Done' = Done /\ Acking' /\ a.request \in Answered /\ a.request \notin Done \cup invalid
    BY <1>0, <2>1 DEF Done, Answered, Acking, AnswerInv
  <2>3. Answered' \subseteq Answered /\ a.request \notin Answered'
    BY <1>0, <2>1 DEF Answered, AnswerInv
  <2>4. CallInv'
    BY <1>0, <2>1, <2>2, <2>3 DEF CallInv
  <2>5. AnswerInv'
    BY <1>0, <2>1, <2>2, <2>3 DEF AnswerInv, Answered
  <2>6. NodeInv'
    BY <1>0, <2>1, <2>2, <2>3 DEF NodeInv
  <2>7. OneOutcome'
    BY <1>0, <2>1, <2>2, <2>3 DEF OneOutcome
  <2> QED
    BY <2>4, <2>5, <2>6, <2>7 DEF OutcomeInv
<1>3. CASE MaskSubInfo
  <2>0. /\ ypc = "mask" /\ Acking
        /\ UNCHANGED <<count, req, list, callVars, acks, accepted, succeeded, timedOut, dropped>>
    BY <1>3 DEF MaskSubInfo, InYield, Acking
  <2>1. CASE yreq \notin list
    BY <1>0, <1>3, <2>0, <2>1, MaskErrorKept DEF MaskSubInfo, Handled
  <2>2. CASE yreq \in list /\ subNack
    <3>1. /\ invalid' = invalid \cup {yreq} /\ handle' = yreq /\ ypc' = "nack"
          /\ refused' = refused \cup {yreq} /\ yreq' = yreq
      BY <1>3, <2>2 DEF MaskSubInfo
    <3>2. Done' = Done \cup {yreq} /\ Answered' = Answered /\ Acking' /\ yreq \notin Done \cup timedOut
      BY <1>0, <2>0, <2>2, <3>1 DEF Done, Answered, Acking, AnswerInv, NodeInv
    <3>3. CallInv'
      BY <1>0, <2>0, <3>1, <3>2 DEF CallInv
    <3>4. AnswerInv'
      BY <1>0, <2>0, <3>1, <3>2 DEF AnswerInv
    <3>5. NodeInv'
      BY <1>0, <2>0, <2>2, <3>1, <3>2 DEF NodeInv, RangeInv
    <3>6. OneOutcome'
      BY <1>0, <2>0, <3>1, <3>2 DEF OneOutcome, Done
    <3> QED
      BY <3>3, <3>4, <3>5, <3>6 DEF OutcomeInv
  <2>3. CASE yreq \in list /\ ~subNack
    <3>1. /\ invalid' = invalid \cup {yreq} /\ handle' = yreq /\ ypc' = "install"
          /\ refused' = refused /\ yreq' = yreq
      BY <1>3, <2>3 DEF MaskSubInfo
    <3>2. Done' = Done /\ Answered' = Answered /\ Acking' /\ yreq \notin Done \cup timedOut
      BY <1>0, <2>0, <2>3, <3>1 DEF Done, Answered, Acking, AnswerInv, NodeInv
    <3>3. CallInv'
      BY <1>0, <2>0, <3>1, <3>2 DEF CallInv
    <3>4. AnswerInv'
      BY <1>0, <2>0, <3>1, <3>2 DEF AnswerInv
    <3>5. NodeInv'
      BY <1>0, <2>0, <3>1, <3>2 DEF NodeInv
    <3>6. OneOutcome'
      BY <1>0, <2>0, <3>1 DEF OneOutcome
    <3> QED
      BY <3>3, <3>4, <3>5, <3>6 DEF OutcomeInv
  <2> QED
    BY <2>1, <2>2, <2>3
<1>4. CASE NackReturn
  BY <1>0, <1>4, MaskErrorKept DEF NackReturn, Handled, InYield
<1>5. CASE SubackInstall
  <2>1. /\ ypc = "install" /\ ypc' \in {"read", "proc"} /\ yreq' = 0 /\ handle' = 0
        /\ \/ succeeded' = succeeded \cup {yreq} /\ dropped' = dropped
           \/ dropped' = dropped \cup {yreq} /\ succeeded' = succeeded
        /\ UNCHANGED <<count, req, listVars, callVars, acks, accepted, refused, timedOut>>
    BY <1>5 DEF SubackInstall, InYield, Handled
  <2>2. /\ Done' = Done \cup {yreq} /\ Answered' = Answered /\ Acking /\ ~Acking'
        /\ yreq \notin Done \cup timedOut /\ yreq \in 1 .. count
    BY <1>0, <2>1 DEF Done, Answered, Acking, AnswerInv, RangeInv, TypeOK
  <2>4. CallInv'
    BY <1>0, <2>1, <2>2 DEF CallInv
  <2>5. AnswerInv'
    BY <1>0, <2>1, <2>2 DEF AnswerInv
  <2>6. NodeInv'
    BY <1>0, <2>1, <2>2 DEF NodeInv, AnswerInv
  <2>7. OneOutcome'
    BY <1>0, <2>1, <2>2 DEF OneOutcome, Done
  <2> QED
    BY <2>4, <2>5, <2>6, <2>7 DEF OutcomeInv
<1>6. CASE UnsubackFree
  <2>1. /\ ypc = "unsuback" /\ ypc' = "unsubscribed" /\ succeeded' = succeeded \cup {yreq}
        /\ UNCHANGED <<count, req, listVars, callVars, acks, accepted, yreq, handle, refused, timedOut, dropped>>
    BY <1>6 DEF UnsubackFree, InYield
  <2>2. /\ Done' = Done \cup {yreq} /\ Answered' = Answered /\ Acking /\ Acking'
        /\ yreq \in 1 .. count /\ req[yreq].type = "UNSUBSCRIBE"
    BY <1>0, <2>1 DEF Done, Answered, Acking, AnswerInv, RangeInv, TypeOK
  <2>4. CallInv'
    BY <1>0, <2>1, <2>2 DEF CallInv
  <2>5. AnswerInv'
    BY <1>0, <2>1, <2>2 DEF AnswerInv
  <2>6. NodeInv'
    BY <1>0, <2>1, <2>2 DEF NodeInv, AnswerInv
  <2>7. OneOutcome'
    BY <1>0, <2>1, <2>2 DEF OneOutcome
  <2> QED
    BY <2>4, <2>5, <2>6, <2>7 DEF OutcomeInv
<1>7. CASE UnsubackReturn
  BY <1>0, <1>7, MaskErrorKept DEF UnsubackReturn, Handled, InYield
<1>8. CASE NothingToRead
  BY <1>8, OutcomeKept DEF NothingToRead, InYield
<1>9. CASE ProcBegin
  BY <1>9, OutcomeKept DEF ProcBegin, InYield
<1>10. CASE ScanEnd
  BY <1>10, OutcomeKept DEF ScanEnd, InYield
<1>11. CASE ScanInvalid
  <2>1. /\ ypc = "scan" /\ cursor \in invalid /\ list' = list \ {cursor} /\ invalid' = invalid \ {cursor}
        /\ UNCHANGED <<count, req, callVars, acks, accepted, reportVars, ypc, yreq, handle>>
    BY <1>11 DEF ScanInvalid, InYield, Remove
  <2>2. Done' = Done /\ Answered' = Answered /\ (Acking' <=> Acking) /\ cursor \in Done
    BY <1>0, <2>1 DEF Done, Answered, Acking, NodeInv
  <2>4. CallInv'
    BY <1>0, <2>1, <2>2 DEF CallInv
  <2>5. AnswerInv'
    BY <1>0, <2>1, <2>2 DEF AnswerInv
  <2>6. NodeInv'
    BY <1>0, <2>1, <2>2 DEF NodeInv
  <2>7. OneOutcome'
    BY <1>0, <2>1, <2>2 DEF OneOutcome
  <2> QED
    BY <2>4, <2>5, <2>6, <2>7 DEF OutcomeInv
<1>12. CASE ScanSkip
  BY <1>12, OutcomeKept DEF ScanSkip
<1>13. CASE ScanTimeout
  <2>1. /\ ypc = "scan" /\ ypc' = "timeout" /\ cursor \in list \ invalid /\ timedOut' = timedOut \cup {cursor}
        /\ yreq' = cursor
        /\ UNCHANGED <<count, req, listVars, callVars, handle, acks, accepted, succeeded, refused, dropped>>
    BY <1>13 DEF ScanTimeout, InYield, Due
  <2>2. Done' = Done /\ Answered' = Answered /\ ~Acking' /\ cursor \notin Done /\ cursor \in 1 .. count
    BY <1>0, <2>1 DEF Done, Answered, Acking, NodeInv, RangeInv
  <2>4. CallInv'
    BY <1>0, <2>1, <2>2 DEF CallInv
  <2>5. AnswerInv'
    BY <1>0, <2>1, <2>2 DEF AnswerInv
  <2>6. NodeInv'
    BY <1>0, <2>1, <2>2 DEF NodeInv
  <2>7. OneOutcome'
    BY <1>0, <2>1, <2>2 DEF OneOutcome, Done
  <2> QED
    BY <2>4, <2>5, <2>6, <2>7 DEF OutcomeInv
<1>14. CASE TimeoutReturn
  <2>1. /\ ypc = "timeout" /\ ypc' = "scan" /\ list' = list \ {yreq} /\ invalid' = invalid \ {yreq} /\ yreq' = 0
        /\ UNCHANGED <<count, req, callVars, handle, acks, accepted, reportVars>>
    BY <1>14 DEF TimeoutReturn, InYield, Remove
  <2>2. Done' = Done /\ Answered' = Answered /\ ~Acking'
    BY <2>1 DEF Done, Answered, Acking
  <2>4. CallInv'
    BY <1>0, <2>1, <2>2 DEF CallInv, NodeInv
  <2>5. AnswerInv'
    BY <1>0, <2>1, <2>2 DEF AnswerInv
  <2>6. NodeInv'
    BY <1>0, <2>1, <2>2 DEF NodeInv
  <2>7. OneOutcome'
    BY <1>0, <2>1, <2>2 DEF OneOutcome
  <2> QED
    BY <2>4, <2>5, <2>6, <2>7 DEF OutcomeInv
<1>15. CASE Disconnect
  <2>1. ypc' = ypc /\ acks' = {} /\ UNCHANGED <<count, req, listVars, callVars, accepted, reportVars, yreq, handle>>
    BY <1>15 DEF Disconnect
  <2>2. Done' = Done /\ Answered' = {} /\ (Acking' <=> Acking)
    BY <2>1 DEF Done, Answered, Acking
  <2>4. CallInv'
    BY <1>0, <2>1, <2>2 DEF CallInv
  <2>5. AnswerInv'
    BY <1>0, <2>1, <2>2 DEF AnswerInv
  <2>6. NodeInv'
    BY <1>0, <2>1, <2>2 DEF NodeInv
  <2>7. OneOutcome'
    BY <1>0, <2>1, <2>2 DEF OneOutcome
  <2> QED
    BY <2>4, <2>5, <2>6, <2>7 DEF OutcomeInv
<1>16. CASE Reconnect
  BY <1>16, OutcomeKept DEF Reconnect, InYield
<1>17. CASE ResubscribeNext
  BY <1>17, ResubscribeKept DEF ResubscribeNext, InYield
<1>18. CASE ResubscribeCopy
  <2>1. /\ ypc = "copy" /\ ypc' = "calling" /\ pc' = [pc EXCEPT ![Yielder] = "lock"]
        /\ UNCHANGED <<count, req, listVars, acks, accepted, reportVars, yreq, mine>>
    BY <1>18 DEF ResubscribeCopy, InYield, Goto
  <2>2. \A u \in Thread : pc'[u] \in {"push", "send", "remove"} => pc'[u] = pc[u]
    BY <1>0, <2>1 DEF TypeOK
  <2> QED
    BY <2>1, <2>2, ResubscribeKept
<1> QED
  BY <1>1, <1>2, <1>3, <1>4, <1>5, <1>6, <1>7, <1>8, <1>9, <1>10, <1>11, <1>12, <1>13, <1>14, <1>15, <1>16, <1>17, <1>18 DEF YieldStep

\* The outcomes are kept by every step.
LEMMA OutcomeNext == Core /\ OutcomeInv /\ [Next]_vars => OutcomeInv'
<1> SUFFICES ASSUME Core, OutcomeInv, [Next]_vars
             PROVE  OutcomeInv'
  OBVIOUS
<1> USE DEF connVars, lockVars, listVars, callVars, yieldVars, reportVars
<1>1. ASSUME NEW t \in Thread, CallStep(t)
      PROVE  OutcomeInv'
  BY <1>1, OutcomeCall
<1>2. CASE YieldStep
  BY <1>2, OutcomeYield
<1>3. ASSUME NEW n \in Request, TimerExpires(n)
      PROVE  OutcomeInv'
  BY <1>3, OutcomeKept DEF TimerExpires
<1>4. CASE UNCHANGED vars
  BY <1>4, OutcomeKept DEF vars
<1> QED
  BY <1>1, <1>2, <1>3, <1>4 DEF Next

\* Who was answered, reported and accepted, for any number of threads.
LEMMA OutcomeHolds == Spec => []OutcomeInv
BY CoreHolds, OutcomeInit, OutcomeNext, PTL DEF Spec

\* Every subscription or unsubscription that was accepted waits in
\* list_sub_wait_ack or was reported, and a subscription has one outcome: an
\* acknowledgement that comes after the timeout is ignored, one that is handled
\* excludes the timeout, whatever the application threads, their error paths
\* and the event handlers do meanwhile.
THEOREM OutcomesSoundHolds == Spec => []OutcomesSound
<1>1. OutcomeInv => OutcomesSound
  BY DEF OutcomeInv, NodeInv, Done, OutcomesSound, AcceptedIsAccounted
<1> QED
  BY <1>1, OutcomeHolds, PTL

-----------------------------------------------------------------------------
(* The owner of a topic filter, with one thread *)

\* What is to be shown follows from the invariant.
LEMMA FilterImplies ==
    ASSUME Caller \subseteq {Yielder}, Core, FilterInv
    PROVE  FiltersSound
<1>1. Thread = {Yielder}
  BY DEF Thread
<1>2. SlotFilterValid
  BY DEF FilterInv, OwnerInv, StoreInv, SlotFilterValid, InUse
<1>3. NoFilterLeak
  <2>1. Sending => mine[Yielder] \in InCall
    BY <1>1 DEF Sending, InCall
  <2>2. \A r \in InUse : \E s \in Slot : slot[s] = r
    BY DEF InUse, Occupied
  <2> QED
    BY <2>1, <2>2 DEF FilterInv, LeakInv, NoFilterLeak, Waiting
<1> QED
  BY <1>2, <1>3 DEF FilterInv, OwnerInv, StoreInv, FiltersSound, NoUseAfterFree

\* A client without filters.
LEMMA FilterInit == Init => FilterInv
<1> SUFFICES ASSUME Init
             PROVE  FilterInv
  OBVIOUS
<1>1. Occupied = {} /\ InUse = {}
  BY DEF Init, Occupied, InUse
<1> QED
  BY <1>1, SubscribeAssumption DEF Init, FilterInv, OwnerInv, StoreInv, LeakInv, NoDuplicateSlot, Thread, Waiting

\* A step that moves no filter and no call past or before its packet id.
LEMMA FilterKept ==
    ASSUME FilterInv,
           UNCHANGED <<count, req, list, invalid, slot, freed, handle, mine, timedOut, dropped, fault>>,
           pc'[Yielder] = "push" <=> pc[Yielder] = "push",
           pc'[Yielder] \in {"send", "remove"} <=> pc[Yielder] \in {"send", "remove"},
           \/ UNCHANGED <<ypc, yreq, itr>>
           \/ /\ ypc \notin {"install", "nack", "unsuback", "unsubscribed", "copy", "timeout"}
              /\ ypc' \notin {"install", "nack", "unsuback", "unsubscribed", "copy", "timeout"}
    PROVE  FilterInv'
<1>1. Occupied' = Occupied /\ InUse' = InUse /\ Waiting' = Waiting /\ (Sending' <=> Sending)
  BY DEF Occupied, InUse, Waiting, Sending
<1>2. OwnerInv'
  BY <1>1 DEF FilterInv, OwnerInv
<1>3. StoreInv'
  BY <1>1 DEF FilterInv, StoreInv, NoDuplicateSlot
<1>4. LeakInv'
  BY <1>1 DEF FilterInv, LeakInv
<1> QED
  BY <1>2, <1>3, <1>4 DEF FilterInv

\* A step of the call, which the yield thread makes.
LEMMA FilterCall ==
    ASSUME Core, OutcomeInv, FilterInv, CallStep(Yielder)
    PROVE  FilterInv'
<1> USE DEF connVars, lockVars, listVars, callVars, yieldVars, reportVars
<1>0. /\ TypeOK /\ LockInv /\ RangeInv /\ Yielder \in Thread
      /\ CallInv /\ AnswerInv /\ NodeInv
      /\ OwnerInv /\ StoreInv /\ LeakInv
  BY DEF Core, OutcomeInv, FilterInv, Thread
<1>u. UNCHANGED slot => Occupied' = Occupied /\ InUse' = InUse
  BY DEF Occupied, InUse
<1>1. ASSUME NEW f \in Topic, NEW h \in Handler, SubscribeEnter(Yielder, f, h)
      PROVE  FilterInv'
  <2>1. pc[Yielder] = "idle" /\ pc'[Yielder] = "lock"
    BY <1>0, <1>1 DEF SubscribeEnter, MayCall, At, Goto, TypeOK
  <2> QED
    BY <1>1, <2>1, FilterKept DEF SubscribeEnter
<1>2. ASSUME NEW f \in Topic, UnsubscribeEnter(Yielder, f)
      PROVE  FilterInv'
  <2>1. pc[Yielder] = "idle" /\ pc'[Yielder] = "clear"
    BY <1>0, <1>2 DEF UnsubscribeEnter, MayCall, At, Goto, TypeOK
  <2> QED
    BY <1>2, <2>1, FilterKept DEF UnsubscribeEnter
<1>3. CASE ClearHandles(Yielder)
  <2> DEFINE C == Cleared(arg[Yielder].topic)
             filters == {slot[s] : s \in C \cap Occupied}
  <2>1. /\ pc[Yielder] = "clear" /\ fault = "none"
        /\ slot' = [s \in Slot |-> IF s \in C THEN 0 ELSE slot[s]]
        /\ freed' = freed \cup filters
        /\ fault' = IF filters \cap freed # {} THEN "filter" ELSE fault
        /\ UNCHANGED <<count, req, listVars, mine, yieldVars, reportVars>>
    BY <1>3 DEF ClearHandles, At
  <2>2. pc'[Yielder] \in {"idle", "check"}
    BY <1>0, <1>3 DEF ClearHandles, Goto, TypeOK
  <2>3. /\ Occupied' = Occupied \ C /\ \A s \in Occupied \ C : slot'[s] = slot[s]
    BY <1>0, <2>1 DEF Occupied, Cleared
  <2>4. filters \subseteq InUse
    BY DEF InUse
  <2>5. InUse' = InUse \ filters
    <3>1. InUse' = {slot[s] : s \in Occupied \ C}
      BY <2>3 DEF InUse
    <3> QED
      BY <1>0, <3>1 DEF InUse, StoreInv
  <2>6. Waiting' = Waiting /\ ~Sending /\ ~Sending'
    BY <2>1, <2>2 DEF Waiting, Sending
  <2> HIDE DEF C, filters
  <2>7. ypc \notin {"install", "unsuback", "copy"}
    BY <1>0, <2>1 DEF LockInv
  <2>8. OwnerInv'
    <3>1. fault' = fault
      BY <1>0, <2>1, <2>4 DEF OwnerInv
    <3>2. ypc = "nack" => handle = yreq /\ handle \notin InUse
      BY <1>0 DEF AnswerInv, OwnerInv
    <3> QED
      BY <1>0, <2>1, <2>2, <2>4, <2>5, <2>6, <2>7, <3>1, <3>2 DEF OwnerInv
  <2>9. StoreInv'
    BY <1>0, <2>1, <2>3 DEF StoreInv, NoDuplicateSlot
  <2>10. LeakInv'
    BY <1>0, <2>1, <2>5, <2>6 DEF LeakInv
  <2> QED
    BY <2>8, <2>9, <2>10 DEF FilterInv
<1>4. CASE UnsubscribeCheck(Yielder)
  <2>1. pc[Yielder] = "check" /\ pc'[Yielder] \in {"idle", "lock"}
    BY <1>0, <1>4 DEF UnsubscribeCheck, At, Goto, TypeOK
  <2> QED
    BY <1>4, <2>1, FilterKept DEF UnsubscribeCheck
<1>5. CASE LockWriteBuf(Yielder)
  <2>1. pc[Yielder] = "lock" /\ pc'[Yielder] = "id"
    BY <1>0, <1>5 DEF LockWriteBuf, At, Goto, TypeOK
  <2> QED
    BY <1>5, <2>1, FilterKept DEF LockWriteBuf
<1>6. CASE GetNextPacketId(Yielder)
  <2>1. /\ pc[Yielder] = "id" /\ count' = count + 1
        /\ req' = [req EXCEPT ![count + 1] = arg[Yielder]]
        /\ UNCHANGED <<listVars, slot, freed, yieldVars, reportVars, fault>>
    BY <1>6 DEF GetNextPacketId, At
  <2>2. /\ pc'[Yielder] = "push" /\ mine'[Yielder] = count + 1 /\ count \in Nat
        /\ \A r \in 1 .. count : req'[r] = req[r]
    BY <1>0, <1>6, SubscribeAssumption DEF GetNextPacketId, Goto, TypeOK, Request
  <2>3. /\ InUse' = InUse /\ Occupied' = Occupied /\ Waiting' = Waiting /\ ~Sending /\ Sending'
    BY <1>u, <2>1, <2>2 DEF Waiting, Sending
  <2>4. \A s \in Occupied : slot[s] \in 1 .. count
    BY <1>0, <2>2 DEF RangeInv, TypeOK, Occupied
  <2>5. count + 1 \notin freed \cup InUse
    BY <1>0, <2>2, <2>4 DEF RangeInv, InUse
  <2>6. OwnerInv'
    BY <1>0, <2>1, <2>2, <2>3, <2>5 DEF OwnerInv
  <2>7. StoreInv'
    BY <1>0, <2>1, <2>2, <2>3, <2>4 DEF StoreInv, NoDuplicateSlot
  <2>8. LeakInv'
    BY <1>0, <2>1, <2>2, <2>3 DEF LeakInv
  <2> QED
    BY <2>6, <2>7, <2>8 DEF FilterInv
<1>7. CASE PushSubInfo(Yielder)
  <2>1. /\ pc[Yielder] = "push" /\ list' = list \cup {mine[Yielder]}
        /\ UNCHANGED <<count, req, invalid, slot, freed, mine, yieldVars, reportVars, fault>>
    BY <1>7 DEF PushSubInfo, At
  <2>2. pc'[Yielder] = "send"
    BY <1>0, <1>7 DEF PushSubInfo, Goto, TypeOK
  <2>3. mine[Yielder] \notin invalid \cup timedOut /\ (ypc = "nack" => mine[Yielder] # handle)
    BY <1>0, <2>1 DEF CallInv, AnswerInv, Acking
  <2>4. /\ InUse' = InUse /\ Occupied' = Occupied /\ Waiting' = Waiting \cup {mine[Yielder]} /\ Sending /\ Sending'
    BY <1>u, <2>1, <2>2, <2>3 DEF Waiting, Sending
  <2>5. ypc \notin {"install", "unsuback", "copy"}
    BY <1>0, <2>1 DEF LockInv
  <2>6. OwnerInv'
    BY <1>0, <2>1, <2>2, <2>3, <2>4, <2>5 DEF OwnerInv
  <2>7. StoreInv'
    BY <1>0, <2>1, <2>4 DEF StoreInv, NoDuplicateSlot
  <2>8. LeakInv'
    BY <1>0, <2>1, <2>4 DEF LeakInv
  <2> QED
    BY <2>6, <2>7, <2>8 DEF FilterInv
<1>8. CASE PushFail(Yielder)
  <2>1. /\ pc[Yielder] = "push" /\ Return(Yielder, FALSE) /\ freed' = freed \cup {mine[Yielder]}
        /\ UNCHANGED <<count, req, listVars, slot, yreq, handle, lockGeneric, lockListSub, reportVars, fault>>
    BY <1>8 DEF PushFail, At
  <2>2. /\ pc'[Yielder] = "idle"
        /\ \/ ypc' = ypc /\ itr' = itr
           \/ ypc = "calling" /\ ypc' \in {"resubscribe", "read"}
    BY <1>0, <2>1 DEF Return, Goto, TypeOK
  <2>3. mine[Yielder] \notin list /\ (ypc = "nack" => mine[Yielder] # handle)
    BY <1>0, <2>1 DEF CallInv, AnswerInv, Acking
  <2>4. /\ InUse' = InUse /\ Occupied' = Occupied /\ Waiting' = Waiting /\ Sending /\ ~Sending'
    BY <1>u, <2>1, <2>2 DEF Waiting, Sending
  <2>5. ypc \notin {"install", "unsuback", "copy"} /\ mine[Yielder] \notin Waiting
    BY <1>0, <2>1, <2>3 DEF LockInv, Waiting
  <2>6. OwnerInv'
    BY <1>0, <2>1, <2>2, <2>3, <2>4, <2>5 DEF OwnerInv
  <2>7. StoreInv'
    BY <1>0, <2>1, <2>4 DEF StoreInv, NoDuplicateSlot
  <2>8. LeakInv'
    BY <1>0, <2>1, <2>4 DEF LeakInv
  <2> QED
    BY <2>6, <2>7, <2>8 DEF FilterInv
<1>9. ASSUME NEW granted \in BOOLEAN, SendOk(Yielder, granted)
      PROVE  FilterInv'
  <2>1. /\ pc[Yielder] = "send" /\ Return(Yielder, TRUE)
        /\ UNCHANGED <<count, req, listVars, slot, freed, yreq, handle, lockGeneric, lockListSub, reportVars, fault>>
    BY <1>9 DEF SendOk, At
  <2>2. /\ pc'[Yielder] = "idle"
        /\ \/ ypc' = ypc /\ itr' = itr
           \/ ypc = "calling" /\ ypc' \in {"resubscribe", "read"}
    BY <1>0, <2>1 DEF Return, Goto, TypeOK
  <2>3. /\ InUse' = InUse /\ Occupied' = Occupied /\ Waiting' = Waiting /\ mine[Yielder] \in Waiting /\ ~Sending'
    BY <1>0, <1>u, <2>1, <2>2 DEF Waiting, Sending, OwnerInv
  <2>4. OwnerInv'
    BY <1>0, <2>1, <2>2, <2>3 DEF OwnerInv
  <2>5. StoreInv'
    BY <1>0, <2>1, <2>3 DEF StoreInv, NoDuplicateSlot
  <2>6. LeakInv'
    BY <1>0, <2>1, <2>3 DEF LeakInv
  <2> QED
    BY <2>4, <2>5, <2>6 DEF FilterInv
<1>10. ASSUME NEW granted \in BOOLEAN, SendFail(Yielder, granted)
       PROVE  FilterInv'
  <2>1. pc[Yielder] = "send" /\ pc'[Yielder] = "remove"
    BY <1>0, <1>10 DEF SendFail, At, Goto, TypeOK
  <2> QED
    BY <1>10, <2>1, FilterKept DEF SendFail
<1>11. CASE ListRemove(Yielder)
  <2>1. /\ pc[Yielder] = "remove" /\ Return(Yielder, FALSE) /\ freed' = freed \cup {mine[Yielder]}
        /\ list' = list \ {mine[Yielder]} /\ invalid' = invalid \ {mine[Yielder]}
        /\ fault' = IF mine[Yielder] \notin list THEN "node"
                    ELSE IF mine[Yielder] \in freed THEN "filter" ELSE fault
        /\ UNCHANGED <<count, req, slot, yreq, handle, lockGeneric, lockListSub, reportVars>>
    BY <1>11 DEF ListRemove, At
  <2>2. /\ pc'[Yielder] = "idle"
        /\ \/ ypc' = ypc /\ itr' = itr
           \/ ypc = "calling" /\ ypc' \in {"resubscribe", "read"}
    BY <1>0, <2>1 DEF Return, Goto, TypeOK
  <2>3. mine[Yielder] \in Waiting /\ mine[Yielder] \notin freed \cup timedOut
    BY <1>0, <2>1 DEF OwnerInv
  <2>4. /\ InUse' = InUse /\ Occupied' = Occupied /\ Waiting' = Waiting \ {mine[Yielder]} /\ ~Sending'
        /\ fault' = fault
    BY <1>u, <2>1, <2>2, <2>3 DEF Waiting, Sending
  <2>5. ypc \notin {"install", "unsuback", "copy"} /\ (ypc = "timeout" => yreq # mine[Yielder])
    BY <1>0, <2>1, <2>3 DEF LockInv, NodeInv
  <2>6. OwnerInv'
    BY <1>0, <2>1, <2>2, <2>3, <2>4, <2>5 DEF OwnerInv
  <2>7. StoreInv'
    BY <1>0, <2>1, <2>4 DEF StoreInv, NoDuplicateSlot
  <2>8. LeakInv'
    BY <1>0, <2>1, <2>4 DEF LeakInv
  <2> QED
    BY <2>6, <2>7, <2>8 DEF FilterInv
<1> QED
  BY <1>1, <1>2, <1>3, <1>4, <1>5, <1>6, <1>7, <1>8, <1>9, <1>10, <1>11 DEF CallStep

\* A step of the yield loop.
LEMMA FilterYield ==
    ASSUME Core, OutcomeInv, FilterInv, YieldStep
    PROVE  FilterInv'
<1> USE DEF connVars, lockVars, listVars, callVars, yieldVars, reportVars
<1>0. /\ TypeOK /\ LockInv /\ RangeInv /\ Yielder \in Thread
      /\ CallInv /\ AnswerInv /\ NodeInv
      /\ OwnerInv /\ StoreInv /\ LeakInv
  BY DEF Core, OutcomeInv, FilterInv, Thread
<1>u. /\ UNCHANGED slot => Occupied' = Occupied /\ InUse' = InUse
      /\ UNCHANGED <<slot, req>> => StoreInv'
      /\ UNCHANGED callVars => (Sending' <=> Sending)
  <2>1. UNCHANGED slot => Occupied' = Occupied /\ InUse' = InUse
    BY DEF Occupied, InUse
  <2> QED
    BY <1>0, <2>1 DEF StoreInv, NoDuplicateSlot, Sending
<1>1. ASSUME NEW a \in acks, ReadSuback(a)
      PROVE  FilterInv'
  BY <1>1, FilterKept DEF ReadSuback, InYield
<1>2. ASSUME NEW a \in acks, NEW garbage \in BOOLEAN, ReadUnsuback(a, garbage)
      PROVE  FilterInv'
  <2>1. /\ ypc = "read" /\ ypc' = "unsuback" /\ yreq' = a.request /\ pc[Yielder] = "idle"
        /\ handle' = IF a.request \in list THEN a.request ELSE 0
        /\ invalid' = invalid \cup ({a.request} \cap list) /\ fault' \in {"uninitialised", fault}
        /\ UNCHANGED <<count, req, list, slot, freed, callVars, reportVars>>
    BY <1>2 DEF ReadUnsuback, InYield, At
  <2>2. a.request \notin invalid /\ 0 \notin freed \cup InUse \cup list
    BY <1>0 DEF AnswerInv, RangeInv, InUse, Occupied, TypeOK
  <2>3. /\ InUse' = InUse /\ Waiting' = Waiting \ {a.request} /\ (Sending' <=> Sending)
        /\ a.request \in list => a.request \in Waiting
    BY <1>u, <2>1, <2>2 DEF Waiting
  <2>4. OwnerInv'
    <3>1. /\ handle' \notin freed' \cup InUse' \cup Waiting' /\ handle' \in {0, yreq'}
      <4>1. CASE a.request \in list
        BY <1>0, <2>1, <2>3, <4>1 DEF OwnerInv
      <4>2. CASE a.request \notin list
        BY <1>0, <2>1, <2>2, <2>3, <4>2 DEF Waiting
      <4> QED
        BY <4>1, <4>2
    <3> QED
      BY <1>0, <2>1, <2>3, <3>1 DEF OwnerInv
  <2>5. StoreInv'
    BY <1>u, <2>1
  <2>6. LeakInv'
    BY <1>0, <2>1, <2>2, <2>3 DEF LeakInv, OwnerInv, Waiting
  <2> QED
    BY <2>4, <2>5, <2>6 DEF FilterInv
<1>3. CASE MaskSubInfo
  <2>1. /\ ypc = "mask" /\ pc[Yielder] = "idle"
        /\ UNCHANGED <<count, req, list, slot, freed, callVars, succeeded, timedOut, dropped, fault>>
    BY <1>3 DEF MaskSubInfo, InYield, At
  <2>2. CASE yreq \in list
    <3>1. invalid' = invalid \cup {yreq} /\ handle' = yreq /\ ypc' \in {"nack", "install"}
      BY <1>3, <2>2 DEF MaskSubInfo
    <3>2. yreq \in Waiting
      BY <1>0, <2>1, <2>2 DEF AnswerInv, Waiting
    <3>3. /\ InUse' = InUse /\ Waiting' = Waiting \ {yreq} /\ (Sending' <=> Sending)
      BY <1>u, <2>1, <3>1 DEF Waiting
    <3>4. OwnerInv'
      BY <1>0, <2>1, <3>1, <3>2, <3>3 DEF OwnerInv
    <3>5. LeakInv'
      BY <1>0, <2>1, <3>1, <3>3 DEF LeakInv, OwnerInv
    <3> QED
      BY <1>u, <2>1, <3>4, <3>5 DEF FilterInv
  <2>3. CASE yreq \notin list
    <3>1. handle = 0
      BY <1>0, <2>1 DEF OwnerInv
    <3> QED
      BY <1>3, <2>1, <2>3, <3>1, FilterKept DEF MaskSubInfo, Handled
  <2> QED
    BY <2>2, <2>3
<1>4. CASE NackReturn
  <2>1. /\ ypc = "nack" /\ ypc' = "read" /\ pc[Yielder] = "idle" /\ handle' = 0
        /\ freed' = freed \cup {handle} /\ fault' = IF handle \in freed THEN "filter" ELSE fault
        /\ UNCHANGED <<count, req, listVars, slot, callVars, reportVars>>
    BY <1>4 DEF NackReturn, InYield, At, Handled, FreeFilter
  <2>2. handle \notin freed \cup InUse \cup Waiting
    BY <1>0, <2>1 DEF OwnerInv
  <2>3. /\ InUse' = InUse /\ Waiting' = Waiting /\ (Sending' <=> Sending) /\ fault' = fault
    BY <1>u, <2>1, <2>2 DEF Waiting
  <2>4. OwnerInv'
    BY <1>0, <2>1, <2>2, <2>3 DEF OwnerInv
  <2>5. StoreInv'
    BY <1>u, <2>1
  <2>6. LeakInv'
    BY <1>0, <2>1, <2>2, <2>3 DEF LeakInv
  <2> QED
    BY <2>4, <2>5, <2>6 DEF FilterInv
<1>5. CASE SubackInstall
  <2>1. /\ ypc = "install" /\ ypc' \in {"read", "proc"} /\ pc[Yielder] = "idle" /\ handle' = 0
        /\ fault' = IF ({handle} \cup InUse) \cap freed # {} THEN "filter" ELSE fault
        /\ UNCHANGED <<count, req, listVars, callVars, refused, timedOut>>
    BY <1>5 DEF SubackInstall, InYield, At, Handled, InUse
  <2>2. handle \notin freed \cup InUse \cup Waiting /\ handle = yreq /\ handle # 0
    BY <1>0, <2>1 DEF OwnerInv, AnswerInv, RangeInv
  <2>3. /\ Waiting' = Waiting /\ (Sending' <=> Sending) /\ fault' = fault
    BY <1>0, <1>u, <2>1, <2>2 DEF Waiting, OwnerInv
  <2>4. CASE Identical(handle)
    <3>1. freed' = freed \cup {handle} /\ UNCHANGED <<slot, dropped>>
      BY <1>5, <2>4 DEF SubackInstall
    <3>2. OwnerInv'
      BY <1>0, <1>u, <2>1, <2>2, <2>3, <3>1 DEF OwnerInv
    <3>3. LeakInv'
      BY <1>0, <1>u, <2>1, <2>2, <2>3, <3>1 DEF LeakInv
    <3> QED
      BY <1>u, <2>1, <3>1, <3>2, <3>3 DEF FilterInv
  <2>5. CASE ~Identical(handle) /\ Occupied = Slot
    <3>1. dropped' = dropped \cup {handle} /\ UNCHANGED <<slot, freed>>
      BY <1>5, <2>2, <2>5 DEF SubackInstall
    <3>2. OwnerInv'
      BY <1>0, <1>u, <2>1, <2>2, <2>3, <3>1 DEF OwnerInv
    <3>3. LeakInv'
      BY <1>0, <1>u, <2>1, <2>2, <2>3, <3>1 DEF LeakInv
    <3> QED
      BY <1>u, <2>1, <3>1, <3>2, <3>3 DEF FilterInv
  <2>6. CASE ~Identical(handle) /\ Occupied # Slot
    <3>1. slot' = [slot EXCEPT ![FirstFree] = handle] /\ UNCHANGED <<freed, dropped>>
      BY <1>5, <2>6 DEF SubackInstall
    <3>2. FirstFree \in Slot /\ FirstFree \notin Occupied
      BY <1>0, <2>6, FirstFreeFacts DEF Occupied
    <3>3. PICK i \in Slot : i = FirstFree
      BY <3>2
    <3>4. /\ Occupied' = Occupied \cup {i} /\ slot'[i] = handle
          /\ \A s \in Occupied : slot'[s] = slot[s] /\ s # i
      BY <1>0, <2>2, <3>1, <3>2, <3>3 DEF TypeOK, Occupied
    <3>5. InUse' = InUse \cup {handle}
      <4>1. InUse' = {slot'[s] : s \in Occupied \cup {i}}
        BY <3>4 DEF InUse
      <4>2. {slot'[s] : s \in Occupied \cup {i}} = {slot[s] : s \in Occupied} \cup {handle}
        BY <3>4
      <4> QED
        BY <4>1, <4>2 DEF InUse
    <3>6. OwnerInv'
      BY <1>0, <2>1, <2>2, <2>3, <3>1, <3>5 DEF OwnerInv
    <3>7. StoreInv'
      <4>1. \A s \in Occupied : slot[s] # handle
        BY <2>2 DEF InUse
      <4>2. \A s \in Occupied : ~(req[slot[s]].topic = req[handle].topic /\ req[slot[s]].handler = req[handle].handler)
        BY <2>6 DEF Identical
      <4>3. \A s, u \in Occupied' : slot'[s] = slot'[u] => s = u
        BY <1>0, <3>4, <4>1 DEF StoreInv
      <4>4. NoDuplicateSlot'
        BY <1>0, <2>1, <3>4, <4>2 DEF StoreInv, NoDuplicateSlot
      <4> QED
        BY <4>3, <4>4 DEF StoreInv
    <3>8. LeakInv'
      BY <1>0, <2>1, <2>3, <3>1, <3>5 DEF LeakInv
    <3> QED
      BY <3>6, <3>7, <3>8 DEF FilterInv
  <2> QED
    BY <2>4, <2>5, <2>6
<1>6. CASE UnsubackFree
  <2>1. /\ ypc = "unsuback" /\ ypc' = "unsubscribed" /\ pc[Yielder] = "idle"
        /\ \/ handle = 0 /\ UNCHANGED <<freed, fault>>
           \/ /\ handle # 0 /\ freed' = freed \cup {handle}
              /\ fault' = IF handle \in freed THEN "filter" ELSE fault
        /\ UNCHANGED <<count, req, listVars, slot, callVars, yreq, handle, timedOut, dropped>>
    BY <1>6 DEF UnsubackFree, InYield, At, FreeFilter
  <2>2. handle \notin freed \cup InUse \cup Waiting
    BY <1>0, <2>1 DEF OwnerInv
  <2>3. /\ InUse' = InUse /\ Waiting' = Waiting /\ (Sending' <=> Sending) /\ fault' = fault
    BY <1>u, <2>1, <2>2 DEF Waiting
  <2>4. OwnerInv'
    BY <1>0, <2>1, <2>2, <2>3 DEF OwnerInv
  <2>5. StoreInv'
    BY <1>u, <2>1
  <2>6. LeakInv'
    BY <1>0, <2>1, <2>2, <2>3 DEF LeakInv
  <2> QED
    BY <2>4, <2>5, <2>6 DEF FilterInv
<1>7. CASE UnsubackReturn
  <2>1. /\ ypc = "unsubscribed" /\ ypc' = "proc" /\ pc[Yielder] = "idle" /\ handle' = 0
        /\ UNCHANGED <<count, req, listVars, slot, freed, callVars, reportVars, fault>>
    BY <1>7 DEF UnsubackReturn, InYield, At, Handled
  <2>2. handle \in freed \cup {0}
    BY <1>0, <2>1 DEF OwnerInv
  <2>3. /\ InUse' = InUse /\ Waiting' = Waiting /\ (Sending' <=> Sending)
    BY <1>u, <2>1 DEF Waiting
  <2>4. OwnerInv'
    BY <1>0, <2>1, <2>2, <2>3 DEF OwnerInv
  <2>5. StoreInv'
    BY <1>u, <2>1
  <2>6. LeakInv'
    BY <1>0, <2>1, <2>2, <2>3 DEF LeakInv
  <2> QED
    BY <2>4, <2>5, <2>6 DEF FilterInv
<1>8. CASE NothingToRead
  BY <1>8, FilterKept DEF NothingToRead, InYield
<1>9. CASE ProcBegin
  BY <1>9, FilterKept DEF ProcBegin, InYield
<1>10. CASE ScanEnd
  BY <1>10, FilterKept DEF ScanEnd, InYield
<1>11. CASE ScanInvalid
  <2>1. /\ ypc = "scan" /\ cursor \in invalid /\ pc[Yielder] = "idle"
        /\ list' = list \ {cursor} /\ invalid' = invalid \ {cursor}
        /\ UNCHANGED <<count, req, slot, freed, callVars, ypc, yreq, handle, itr, reportVars, fault>>
    BY <1>11 DEF ScanInvalid, InYield, At, Remove
  <2>2. /\ InUse' = InUse /\ Waiting' = Waiting /\ (Sending' <=> Sending)
    BY <1>u, <2>1 DEF Waiting
  <2>4. OwnerInv'
    BY <1>0, <2>1, <2>2 DEF OwnerInv
  <2>5. StoreInv'
    BY <1>u, <2>1
  <2>6. LeakInv'
    BY <1>0, <2>1, <2>2 DEF LeakInv
  <2> QED
    BY <2>4, <2>5, <2>6 DEF FilterInv
<1>12. CASE ScanSkip
  BY <1>12, FilterKept DEF ScanSkip, InYield
<1>13. CASE ScanTimeout
  <2>1. /\ ypc = "scan" /\ ypc' = "timeout" /\ cursor \in list \ invalid /\ pc[Yielder] = "idle" /\ yreq' = cursor
        /\ UNCHANGED <<count, req, listVars, slot, freed, callVars, handle, dropped, fault>>
    BY <1>13 DEF ScanTimeout, InYield, At, Due
  <2>2. /\ InUse' = InUse /\ Waiting' = Waiting /\ (Sending' <=> Sending) /\ cursor \in Waiting
    BY <1>u, <2>1 DEF Waiting
  <2>4. OwnerInv'
    BY <1>0, <2>1, <2>2 DEF OwnerInv
  <2>5. StoreInv'
    BY <1>u, <2>1
  <2>6. LeakInv'
    BY <1>0, <2>1, <2>2 DEF LeakInv
  <2> QED
    BY <2>4, <2>5, <2>6 DEF FilterInv
<1>14. CASE TimeoutReturn
  <2>1. /\ ypc = "timeout" /\ ypc' = "scan" /\ pc[Yielder] = "idle"
        /\ list' = list \ {yreq} /\ invalid' = invalid \ {yreq}
        /\ freed' = freed \cup {yreq} /\ fault' = IF yreq \in freed THEN "filter" ELSE fault
        /\ UNCHANGED <<count, req, slot, callVars, handle, reportVars>>
    BY <1>14 DEF TimeoutReturn, InYield, At, Remove, FreeFilter
  <2>2. yreq \in Waiting /\ yreq \notin freed \cup InUse
    BY <1>0, <2>1 DEF OwnerInv
  <2>3. /\ InUse' = InUse /\ Waiting' = Waiting \ {yreq} /\ (Sending' <=> Sending) /\ fault' = fault
    BY <1>u, <2>1, <2>2 DEF Waiting
  <2>4. OwnerInv'
    BY <1>0, <2>1, <2>2, <2>3 DEF OwnerInv
  <2>5. StoreInv'
    BY <1>u, <2>1
  <2>6. LeakInv'
    BY <1>0, <2>1, <2>2, <2>3 DEF LeakInv
  <2> QED
    BY <2>4, <2>5, <2>6 DEF FilterInv
<1>15. CASE Disconnect
  BY <1>15, FilterKept DEF Disconnect, InYield
<1>16. CASE Reconnect
  BY <1>16, FilterKept DEF Reconnect, InYield
<1>17. CASE ResubscribeNext
  <2>0. /\ ypc = "resubscribe" /\ UNCHANGED <<count, req, listVars, slot, freed, callVars, yreq, reportVars, fault>>
    BY <1>17 DEF ResubscribeNext, InYield
  <2>1. CASE ypc' # "copy"
    BY <1>17, <2>0, <2>1, FilterKept DEF ResubscribeNext
  <2>2. CASE ypc' = "copy"
    <3>1. handle' = slot[itr] /\ itr' = itr /\ itr \in Occupied
      <4>1. handle' = slot[itr] /\ itr' = itr /\ ~(itr > MAX_SUB_TOPICS) /\ slot[itr] # 0
        BY <1>17, <2>0, <2>2 DEF ResubscribeNext
      <4>2. itr \in Slot
        BY <1>0, <4>1, SubscribeAssumption DEF TypeOK, Slot
      <4> QED
        BY <4>1, <4>2 DEF Occupied
    <3>2. /\ InUse' = InUse /\ Occupied' = Occupied /\ Waiting' = Waiting /\ (Sending' <=> Sending) /\ StoreInv'
      BY <1>u, <2>0 DEF Waiting
    <3>3. OwnerInv'
      BY <1>0, <2>0, <2>2, <3>1, <3>2 DEF OwnerInv
    <3>4. LeakInv'
      BY <1>0, <2>0, <3>2 DEF LeakInv, OwnerInv
    <3> QED
      BY <3>2, <3>3, <3>4 DEF FilterInv
  <2> QED
    BY <2>1, <2>2
<1>18. CASE ResubscribeCopy
  <2>1. /\ ypc = "copy" /\ ypc' = "calling" /\ pc[Yielder] = "idle" /\ handle' = 0
        /\ fault' = IF handle \in freed THEN "filter" ELSE fault
        /\ UNCHANGED <<count, req, listVars, slot, freed, mine, reportVars>>
    BY <1>18 DEF ResubscribeCopy, InYield, At
  <2>2. pc'[Yielder] = "lock"
    BY <1>0, <1>18 DEF ResubscribeCopy, Goto, TypeOK
  <2>3. handle \in InUse /\ handle \notin freed
    BY <1>0, <2>1 DEF OwnerInv, InUse
  <2>7. /\ InUse' = InUse /\ Waiting' = Waiting /\ ~Sending /\ ~Sending' /\ fault' = fault
    BY <1>u, <2>1, <2>2, <2>3 DEF Waiting, Sending
  <2>4. OwnerInv'
    BY <1>0, <2>1, <2>2, <2>3, <2>7 DEF OwnerInv
  <2>5. StoreInv'
    BY <1>u, <2>1
  <2>6. LeakInv'
    BY <1>0, <2>1, <2>2, <2>3, <2>7 DEF LeakInv
  <2> QED
    BY <2>4, <2>5, <2>6 DEF FilterInv
<1> QED
  BY <1>1, <1>2, <1>3, <1>4, <1>5, <1>6, <1>7, <1>8, <1>9, <1>10, <1>11, <1>12, <1>13, <1>14, <1>15, <1>16, <1>17, <1>18 DEF YieldStep

\* The owners are kept by every step.
LEMMA FilterNext ==
    ASSUME Caller \subseteq {Yielder}, Core, OutcomeInv, FilterInv, [Next]_vars
    PROVE  FilterInv'
<1> USE DEF connVars, lockVars, listVars, callVars, yieldVars, reportVars
<1>1. ASSUME NEW t \in Thread, CallStep(t)
      PROVE  FilterInv'
  <2>1. t = Yielder
    BY DEF Thread
  <2> QED
    BY <1>1, <2>1, FilterCall
<1>2. CASE YieldStep
  BY <1>2, FilterYield
<1>3. ASSUME NEW n \in Request, TimerExpires(n)
      PROVE  FilterInv'
  BY <1>3, FilterKept DEF TimerExpires
<1>4. CASE UNCHANGED vars
  BY <1>4, FilterKept DEF vars
<1> QED
  BY <1>1, <1>2, <1>3, <1>4 DEF Next

\* Who owns which filter, in a client that one thread uses.
LEMMA FilterHolds ==
    ASSUME Caller \subseteq {Yielder}
    PROVE  Spec => []FilterInv
<1>1. Core /\ OutcomeInv /\ FilterInv /\ [Next]_vars => FilterInv'
  BY FilterNext
<1> QED
  BY <1>1, FilterInit, CoreHolds, OutcomeHolds, PTL DEF Spec

\* In a client that one thread uses, event handlers included, every topic
\* filter has one owner at a time (call, waiting node, handler of the answer,
\* slot) and is freed once: no slot refers to a freed filter, none holds a
\* subscription twice, and only a subscription that found no slot leaks.
THEOREM FiltersSoundHolds ==
    ASSUME Caller \subseteq {Yielder}
    PROVE  Spec => []FiltersSound
<1>1. Core /\ FilterInv => FiltersSound
  BY FilterImplies
<1> QED
  BY <1>1, FilterHolds, CoreHolds, PTL

-----------------------------------------------------------------------------
(* The subscriptions of a connection, with one thread *)

\* A step that changes neither the connection nor what is stored, and takes the
\* yield loop neither into nor out of the handling of a SUBACK or the loop over
\* sub_handles.
LEMMA AskedKept ==
    ASSUME AskedInv, UNCHANGED <<isConnected, asked, aborted, req, slot>>,
           acks' \subseteq acks, list' \subseteq list,
           pc[Yielder] = "remove" => pc'[Yielder] = "remove" /\ mine'[Yielder] = mine[Yielder],
           \/ UNCHANGED <<ypc, yreq, handle, itr>> /\ (ypc = "calling" => arg'[Yielder] = arg[Yielder])
           \/ /\ ypc \notin {"mask", "install", "resubscribe", "copy", "calling"}
              /\ ypc' \notin {"mask", "install", "resubscribe", "copy", "calling"}
    PROVE  AskedInv'
<1>1. Occupied' = Occupied /\ (Resubscribing' <=> Resubscribing) /\ \A r : AskedFor(r)' <=> AskedFor(r)
  BY DEF Occupied, Resubscribing, AskedFor
<1>2. AnswerAsked'
  BY <1>1 DEF AskedInv, AnswerAsked, AskedFor
<1>3. SlotsAsked'
  BY <1>1 DEF AskedInv, SlotsAsked, AskedFor, Resubscribing
<1> QED
  BY <1>2, <1>3 DEF AskedInv

\* A slot holds a request that was made.
LEMMA StoredInRange ==
    ASSUME TypeOK, RangeInv
    PROVE  \A s \in Occupied : s \in Slot /\ slot[s] \in 1 .. count
BY SubscribeAssumption DEF TypeOK, RangeInv, Occupied

\* A step of the call, which the yield thread makes.
LEMMA AskedCall ==
    ASSUME Core, OutcomeInv, AskedInv, CallStep(Yielder)
    PROVE  AskedInv'
<1> USE DEF connVars, lockVars, listVars, callVars, yieldVars, reportVars
<1>0. /\ TypeOK /\ LockInv /\ RangeInv /\ Yielder \in Thread
      /\ CallInv /\ AnswerInv /\ NodeInv /\ AnswerAsked /\ SlotsAsked
  BY DEF Core, OutcomeInv, AskedInv, Thread
<1>1. ASSUME NEW f \in Topic, NEW h \in Handler, SubscribeEnter(Yielder, f, h)
      PROVE  AskedInv'
  <2>1. pc[Yielder] = "idle" /\ ypc # "calling"
    BY <1>1 DEF SubscribeEnter, MayCall, At
  <2> QED
    BY <1>1, <2>1, AskedKept DEF SubscribeEnter
<1>2. ASSUME NEW f \in Topic, UnsubscribeEnter(Yielder, f)
      PROVE  AskedInv'
  <2>1. pc[Yielder] = "idle" /\ ypc # "calling"
    BY <1>2 DEF UnsubscribeEnter, MayCall, At
  <2> QED
    BY <1>2, <2>1, AskedKept DEF UnsubscribeEnter
<1>3. CASE ClearHandles(Yielder)
  <2> DEFINE C == Cleared(arg[Yielder].topic)
  <2>1. /\ pc[Yielder] = "clear" /\ slot' = [s \in Slot |-> IF s \in C THEN 0 ELSE slot[s]]
        /\ UNCHANGED <<connVars, req, listVars, mine, yieldVars, acks>>
    BY <1>3 DEF ClearHandles, At
  <2>2. /\ Occupied' \subseteq Occupied /\ \A s \in Occupied' : slot'[s] = slot[s]
    BY <2>1 DEF Occupied
  <2>3. ypc \notin {"mask", "install", "resubscribe", "copy", "calling"}
    BY <1>0, <2>1 DEF LockInv
  <2>4. AnswerAsked'
    BY <1>0, <2>1, <2>3 DEF AnswerAsked, AskedFor
  <2>5. SlotsAsked'
    BY <1>0, <2>1, <2>2, <2>3 DEF SlotsAsked, AskedFor, Resubscribing
  <2> QED
    BY <2>4, <2>5 DEF AskedInv
<1>4. CASE UnsubscribeCheck(Yielder)
  <2>1. pc[Yielder] = "check" /\ ypc # "calling"
    BY <1>0, <1>4 DEF UnsubscribeCheck, At, LockInv
  <2> QED
    BY <1>4, <2>1, AskedKept DEF UnsubscribeCheck
<1>5. CASE LockWriteBuf(Yielder)
  <2>1. pc[Yielder] = "lock"
    BY <1>5 DEF LockWriteBuf, At
  <2> QED
    BY <1>5, <2>1, AskedKept DEF LockWriteBuf
<1>6. CASE GetNextPacketId(Yielder)
  <2>1. /\ pc[Yielder] = "id" /\ req' = [req EXCEPT ![count + 1] = arg[Yielder]]
        /\ UNCHANGED <<connVars, listVars, slot, arg, yieldVars, acks>>
    BY <1>6 DEF GetNextPacketId, At
  <2>2. /\ count \in Nat /\ \A r \in 1 .. count : req'[r] = req[r]
    BY <1>0, <2>1, SubscribeAssumption DEF TypeOK, Request
  <2>3. Occupied' = Occupied /\ (Resubscribing' <=> Resubscribing) /\ \A s \in Occupied : slot[s] \in 1 .. count
    BY <1>0, <2>1, StoredInRange DEF Occupied, Resubscribing
  <2>4. /\ \A a \in acks : a.request \in 1 .. count
        /\ ypc \notin {"mask", "install"}
    BY <1>0, <2>1, <2>2 DEF RangeInv, TypeOK, Request, LockInv
  <2>5. AnswerAsked'
    BY <1>0, <2>1, <2>2, <2>4 DEF AnswerAsked, AskedFor
  <2>6. SlotsAsked'
    BY <1>0, <2>1, <2>2, <2>3 DEF SlotsAsked, AskedFor
  <2> QED
    BY <2>5, <2>6 DEF AskedInv
<1>7. CASE PushSubInfo(Yielder)
  <2>1. /\ pc[Yielder] = "push" /\ list' = list \cup {mine[Yielder]}
        /\ UNCHANGED <<connVars, req, slot, arg, mine, yieldVars, acks>>
    BY <1>7 DEF PushSubInfo, At
  <2>2. \A a \in acks : a.request # mine[Yielder]
    BY <1>0, <2>1 DEF CallInv, Answered
  <2>3. Occupied' = Occupied /\ (Resubscribing' <=> Resubscribing) /\ ypc \notin {"mask", "install"}
    BY <1>0, <2>1 DEF Occupied, Resubscribing, LockInv
  <2>4. AnswerAsked'
    BY <1>0, <2>1, <2>2, <2>3 DEF AnswerAsked, AskedFor
  <2>5. SlotsAsked'
    BY <1>0, <2>1, <2>3 DEF SlotsAsked, AskedFor
  <2> QED
    BY <2>4, <2>5 DEF AskedInv
<1>8. ASSUME PushFail(Yielder) \/ ListRemove(Yielder)
      PROVE  AskedInv'
  <2>1. /\ pc[Yielder] \in {"push", "remove"} /\ Return(Yielder, FALSE)
        /\ \/ pc[Yielder] = "push" /\ list' = list
           \/ pc[Yielder] = "remove" /\ list' = list \ {mine[Yielder]}
        /\ UNCHANGED <<isConnected, asked, req, slot, yreq, handle, acks>>
    BY <1>8 DEF PushFail, ListRemove, At
  <2>2. \/ ypc' = ypc /\ itr' = itr /\ aborted' = aborted /\ ypc # "calling"
        \/ ypc = "calling" /\ ypc' = "read" /\ aborted' = TRUE
    BY <2>1 DEF Return
  <2>3. Occupied' = Occupied /\ ypc \notin {"mask", "install", "resubscribe", "copy"}
    BY <1>0, <2>1 DEF Occupied, LockInv
  <2>4. AnswerAsked'
    BY <1>0, <2>1, <2>2, <2>3 DEF AnswerAsked, AskedFor
  <2>5. SlotsAsked'
    BY <1>0, <2>1, <2>2, <2>3 DEF SlotsAsked, AskedFor, Resubscribing
  <2> QED
    BY <2>4, <2>5 DEF AskedInv
<1>9. ASSUME NEW granted \in BOOLEAN, SendOk(Yielder, granted)
      PROVE  AskedInv'
  <2> DEFINE b == [request |-> mine[Yielder], granted |-> granted]
  <2>1. /\ pc[Yielder] = "send" /\ Return(Yielder, TRUE) /\ isConnected
        /\ acks' = acks \cup {b} /\ b.request = mine[Yielder]
        /\ asked \subseteq asked'
        /\ req[mine[Yielder]].type = "SUBSCRIBE" => req[mine[Yielder]].topic \in asked'
        /\ UNCHANGED <<isConnected, req, listVars, slot, yreq, handle>>
    BY <1>9 DEF SendOk, At, BrokerAnswers
  <2> HIDE DEF b
  <2>2. \/ ypc' = ypc /\ itr' = itr /\ aborted' = aborted /\ ypc # "calling"
        \/ ypc = "calling" /\ ypc' = "resubscribe" /\ itr' = itr + 1 /\ aborted' = aborted
    BY <2>1 DEF Return
  <2>3. Occupied' = Occupied /\ ypc \notin {"mask", "install", "resubscribe", "copy"}
    BY <1>0, <2>1 DEF Occupied, LockInv
  <2>4. AnswerAsked'
    <3>1. \A a \in acks' : req[a.request].type = "SUBSCRIBE" /\ a.request \in list => req[a.request].topic \in asked'
      BY <1>0, <2>1 DEF AnswerAsked, AskedFor
    <3> QED
      BY <2>1, <2>2, <2>3, <3>1 DEF AnswerAsked, AskedFor
  <2>5. SlotsAsked'
    <3>1. CASE ypc # "calling"
      BY <1>0, <2>1, <2>2, <2>3, <3>1 DEF SlotsAsked, AskedFor, Resubscribing
    <3>2. CASE ypc = "calling"
      <4>1. req[slot[itr]].topic \in asked'
        BY <1>0, <2>1, <3>2 DEF SlotsAsked, RangeInv
      <4>2. \A s \in Occupied : s < itr => req[slot[s]].topic \in asked'
        BY <1>0, <2>1, <3>2 DEF SlotsAsked, AskedFor, Resubscribing
      <4>3. \A s \in Occupied : s < itr + 1 => s < itr \/ s = itr
        BY <1>0 DEF TypeOK, Occupied, Slot
      <4> QED
        BY <2>1, <2>2, <2>3, <3>2, <4>1, <4>2, <4>3 DEF SlotsAsked, AskedFor, Resubscribing
    <3> QED
      BY <3>1, <3>2
  <2> QED
    BY <2>4, <2>5 DEF AskedInv
<1>10. ASSUME NEW granted \in BOOLEAN, SendFail(Yielder, granted)
       PROVE  AskedInv'
  <2> DEFINE b == [request |-> mine[Yielder], granted |-> granted]
  <2>1. /\ pc[Yielder] = "send" /\ b.request = mine[Yielder]
        /\ acks' = acks \/ (isConnected /\ acks' = acks \cup {b})
        /\ UNCHANGED <<connVars, req, listVars, slot, arg, mine, yieldVars>>
    BY <1>10 DEF SendFail, At, BrokerAnswers
  <2> HIDE DEF b
  <2>2. pc'[Yielder] = "remove"
    BY <1>0, <1>10 DEF SendFail, Goto, TypeOK
  <2>3. Occupied' = Occupied /\ (Resubscribing' <=> Resubscribing) /\ ypc \notin {"mask", "install"}
    BY <1>0, <2>1 DEF Occupied, Resubscribing, LockInv
  <2>4. AnswerAsked'
    BY <1>0, <2>1, <2>2, <2>3 DEF AnswerAsked, AskedFor
  <2>5. SlotsAsked'
    BY <1>0, <2>1, <2>3 DEF SlotsAsked, AskedFor
  <2> QED
    BY <2>4, <2>5 DEF AskedInv
<1> QED
  BY <1>1, <1>2, <1>3, <1>4, <1>5, <1>6, <1>7, <1>8, <1>9, <1>10 DEF CallStep

\* A step of the yield loop.
LEMMA AskedYield ==
    ASSUME Core, OutcomeInv, OwnerInv, AskedInv, YieldStep
    PROVE  AskedInv'
<1> USE DEF connVars, lockVars, listVars, callVars, yieldVars, reportVars
<1>0. /\ TypeOK /\ LockInv /\ RangeInv /\ Yielder \in Thread /\ AnswerInv /\ AnswerAsked /\ SlotsAsked
  BY DEF Core, OutcomeInv, AskedInv, Thread
<1>i. pc[Yielder] = "idle"
  BY DEF YieldStep, ReadSuback, ReadUnsuback, MaskSubInfo, NackReturn, SubackInstall,
         UnsubackFree, UnsubackReturn, NothingToRead, ProcBegin, ScanEnd, ScanInvalid,
         ScanSkip, ScanTimeout, TimeoutReturn, Disconnect, Reconnect, ResubscribeNext,
         ResubscribeCopy, InYield, At
<1>u. UNCHANGED slot => Occupied' = Occupied
  BY DEF Occupied
<1>1. ASSUME NEW a \in acks, ReadSuback(a)
      PROVE  AskedInv'
  <2>1. /\ ypc = "read" /\ ypc' = "mask" /\ yreq' = a.request /\ req[a.request].type = "SUBSCRIBE"
        /\ acks' \subseteq acks /\ UNCHANGED <<connVars, req, listVars, slot, callVars>>
    BY <1>1 DEF ReadSuback, InYield
  <2>2. AnswerAsked'
    BY <1>0, <1>i, <2>1 DEF AnswerAsked, AskedFor
  <2>3. SlotsAsked'
    BY <1>0, <1>u, <2>1 DEF SlotsAsked, AskedFor, Resubscribing
  <2> QED
    BY <2>2, <2>3 DEF AskedInv
<1>2. ASSUME NEW a \in acks, NEW garbage \in BOOLEAN, ReadUnsuback(a, garbage)
      PROVE  AskedInv'
  BY <1>2, <1>i, AskedKept DEF ReadUnsuback, InYield
<1>3. CASE MaskSubInfo
  <2>1. /\ ypc = "mask" /\ ypc' \in {"nack", "install", "read"} /\ (ypc' = "install" => yreq \in list /\ handle' = yreq)
        /\ UNCHANGED <<connVars, req, list, slot, callVars, acks>>
    BY <1>3 DEF MaskSubInfo, InYield, Handled
  <2>2. AnswerAsked'
    BY <1>0, <1>i, <2>1 DEF AnswerAsked, AskedFor
  <2>3. SlotsAsked'
    BY <1>0, <1>u, <2>1 DEF SlotsAsked, AskedFor, Resubscribing
  <2> QED
    BY <2>2, <2>3 DEF AskedInv
<1>4. CASE NackReturn
  BY <1>4, <1>i, AskedKept DEF NackReturn, InYield, Handled
<1>5. CASE SubackInstall
  <2>1. /\ ypc = "install" /\ ypc' \in {"read", "proc"}
        /\ slot' = slot \/ (Occupied # Slot /\ slot' = [slot EXCEPT ![FirstFree] = handle])
        /\ UNCHANGED <<connVars, req, listVars, callVars, acks>>
    BY <1>5 DEF SubackInstall, InYield, Handled
  <2>2. AnswerAsked'
    BY <1>0, <1>i, <2>1 DEF AnswerAsked, AskedFor
  <2>3. \A s \in Occupied' : (s \in Occupied /\ slot'[s] = slot[s]) \/ slot'[s] = handle
    <3>1. CASE slot' = slot
      BY <1>u, <3>1
    <3>2. CASE Occupied # Slot /\ slot' = [slot EXCEPT ![FirstFree] = handle]
      <4>1. PICK i \in Slot : i = FirstFree
        BY <1>0, <3>2, FirstFreeFacts
      <4> QED
        BY <1>0, <3>2, <4>1 DEF TypeOK, Occupied
    <3> QED
      BY <2>1, <3>1, <3>2
  <2>4. SlotsAsked'
    BY <1>0, <2>1, <2>3 DEF SlotsAsked, AnswerAsked, AskedFor, Resubscribing
  <2> QED
    BY <2>2, <2>4 DEF AskedInv
<1>6. CASE UnsubackFree
  BY <1>6, <1>i, AskedKept DEF UnsubackFree, InYield
<1>7. CASE UnsubackReturn
  BY <1>7, <1>i, AskedKept DEF UnsubackReturn, InYield, Handled
<1>8. CASE NothingToRead
  BY <1>8, <1>i, AskedKept DEF NothingToRead, InYield
<1>9. CASE ProcBegin
  BY <1>9, <1>i, AskedKept DEF ProcBegin, InYield
<1>10. CASE ScanEnd
  BY <1>10, <1>i, AskedKept DEF ScanEnd, InYield
<1>11. CASE ScanInvalid
  BY <1>11, <1>i, AskedKept DEF ScanInvalid, InYield, Remove
<1>12. CASE ScanSkip
  BY <1>12, <1>i, AskedKept DEF ScanSkip, InYield
<1>13. CASE ScanTimeout
  BY <1>13, <1>i, AskedKept DEF ScanTimeout, InYield
<1>14. CASE TimeoutReturn
  BY <1>14, <1>i, AskedKept DEF TimeoutReturn, InYield, Remove
<1>15. CASE Disconnect
  <2>1. /\ ypc = "read" /\ ypc' = "read" /\ isConnected' = FALSE /\ acks' = {}
    BY <1>15 DEF Disconnect, InYield
  <2> QED
    BY <2>1 DEF AskedInv, AnswerAsked, SlotsAsked, Resubscribing
<1>16. CASE Reconnect
  <2>1. /\ ypc = "read" /\ ypc' = "resubscribe" /\ itr' = 1 /\ ~isConnected /\ UNCHANGED <<slot, acks>>
    BY <1>16 DEF Reconnect, InYield
  <2>2. \A s \in Occupied' : ~(s < 1)
    BY SubscribeAssumption DEF Occupied, Slot
  <2>3. AnswerAsked'
    BY <1>0, <2>1 DEF AnswerAsked
  <2>4. SlotsAsked'
    BY <2>1, <2>2 DEF SlotsAsked, Resubscribing
  <2> QED
    BY <2>3, <2>4 DEF AskedInv
<1>17. CASE ResubscribeNext
  <2>1. /\ ypc = "resubscribe" /\ UNCHANGED <<connVars, req, listVars, slot, callVars, acks>>
        /\ \/ itr > MAX_SUB_TOPICS /\ ypc' = "read"
           \/ slot[itr] = 0 /\ itr' = itr + 1 /\ ypc' = ypc
           \/ itr' = itr /\ ypc' = "copy"
    BY <1>17 DEF ResubscribeNext, InYield
  <2>2. AnswerAsked'
    BY <1>0, <1>i, <2>1 DEF AnswerAsked, AskedFor
  <2>3. \A s \in Occupied : s < itr => AskedFor(slot[s])
    BY <1>0, <2>1 DEF SlotsAsked, Resubscribing
  <2>4. itr > MAX_SUB_TOPICS => \A s \in Occupied : s < itr
    BY <1>0, SubscribeAssumption DEF Occupied, Slot, TypeOK
  <2>5. slot[itr] = 0 => \A s \in Occupied : s < itr + 1 => s < itr
    BY <1>0 DEF Occupied, Slot, TypeOK
  <2>6. SlotsAsked'
    BY <1>u, <2>1, <2>3, <2>4, <2>5 DEF SlotsAsked, Resubscribing, AskedFor
  <2> QED
    BY <2>2, <2>6 DEF AskedInv
<1>18. CASE ResubscribeCopy
  <2>1. /\ ypc = "copy" /\ ypc' = "calling" /\ UNCHANGED <<connVars, req, listVars, slot, mine, itr, acks>>
    BY <1>18 DEF ResubscribeCopy, InYield
  <2>2. arg'[Yielder] = Subscribe(req[handle].topic, req[handle].handler)
    BY <1>0, <1>18 DEF ResubscribeCopy, TypeOK
  <2>3. itr \in Occupied /\ handle = slot[itr]
    BY <2>1 DEF OwnerInv
  <2>4. AnswerAsked'
    BY <1>0, <1>i, <2>1 DEF AnswerAsked, AskedFor
  <2>5. SlotsAsked'
    BY <1>0, <1>u, <2>1, <2>2, <2>3 DEF SlotsAsked, Resubscribing, AskedFor, Subscribe
  <2> QED
    BY <2>4, <2>5 DEF AskedInv
<1> QED
  BY <1>1, <1>2, <1>3, <1>4, <1>5, <1>6, <1>7, <1>8, <1>9, <1>10, <1>11, <1>12, <1>13, <1>14, <1>15, <1>16, <1>17, <1>18 DEF YieldStep

\* What was asked for is kept by every step.
LEMMA AskedNext ==
    ASSUME Caller \subseteq {Yielder}, Core, OutcomeInv, FilterInv, AskedInv, [Next]_vars
    PROVE  AskedInv'
<1> USE DEF connVars, lockVars, listVars, callVars, yieldVars, reportVars
<1>1. ASSUME NEW t \in Thread, CallStep(t)
      PROVE  AskedInv'
  <2>1. t = Yielder
    BY DEF Thread
  <2> QED
    BY <1>1, <2>1, AskedCall
<1>2. CASE YieldStep
  BY <1>2, AskedYield DEF FilterInv
<1>3. ASSUME NEW n \in Request, TimerExpires(n)
      PROVE  AskedInv'
  BY <1>3, AskedKept DEF TimerExpires
<1>4. CASE UNCHANGED vars
  BY <1>4, AskedKept DEF vars
<1> QED
  BY <1>1, <1>2, <1>3, <1>4 DEF Next

\* In a client that one thread uses: after a reconnection whose resubscription
\* did not fail, every stored subscription was asked for again on the new
\* connection, those that an acknowledgement stores meanwhile included.
THEOREM ResubscribeCompleteHolds ==
    ASSUME Caller \subseteq {Yielder}
    PROVE  Spec => []ResubscribeComplete
<1>1. Init => AskedInv
  <2>1. Init => Occupied = {}
    BY DEF Init, Occupied
  <2> QED
    BY <2>1 DEF Init, AskedInv, AnswerAsked, SlotsAsked, Resubscribing
<1>2. Core /\ OutcomeInv /\ FilterInv /\ AskedInv /\ [Next]_vars => AskedInv'
  BY AskedNext
<1>3. AskedInv => ResubscribeComplete
  BY DEF AskedInv, SlotsAsked, Resubscribing, AskedFor, ResubscribeComplete
<1> QED
  BY <1>1, <1>2, <1>3, FilterHolds, CoreHolds, OutcomeHolds, PTL DEF Spec
=============================================================================
