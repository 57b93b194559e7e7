---------------------------- MODULE ShadowProofs ----------------------------
(***************************************************************************)
(* Proofs about Shadow, for any requests, properties, limits and messages: *)
(* its type invariant, that traversals stay on listed nodes, that the      *)
(* local values follow the reported ones, and that request_list implements *)
(* the safety part of ShadowRequests.                                      *)
(***************************************************************************)
EXTENDS Shadow, FiniteSetTheorems, SequenceTheorems, TLAPS

-----------------------------------------------------------------------------
(* Lists without duplicates *)

\* An empty list.
LEMMA EmptyFacts ==
    ASSUME NEW S
    PROVE  <<>> \in Seq(S) /\ Len(<<>>) = 0 /\ Range(<<>>) = {} /\ IsInjective(<<>>)
BY DEF Range, IsInjective

\* list_rpush.
LEMMA AppendFacts ==
    ASSUME NEW S, NEW s \in Seq(S), NEW e \in S, IsInjective(s), e \notin Range(s)
    PROVE  /\ Append(s, e) \in Seq(S) /\ Len(Append(s, e)) = Len(s) + 1
           /\ Range(Append(s, e)) = Range(s) \cup {e}
           /\ IsInjective(Append(s, e))
<1> DEFINE t == Append(s, e)
<1>1. /\ t \in Seq(S) /\ Len(t) = Len(s) + 1 /\ Len(s) \in Nat
      /\ DOMAIN t = 1 .. Len(s) + 1 /\ DOMAIN s = 1 .. Len(s)
      /\ \A i \in 1 .. Len(s) : t[i] = s[i]
      /\ t[Len(s) + 1] = e
  OBVIOUS
<1> HIDE DEF t
<1>2. Range(t) = Range(s) \cup {e}
  <2>1. \A x \in Range(t) : x \in Range(s) \cup {e}
    BY <1>1 DEF Range
  <2>2. \A x \in Range(s) : x \in Range(t)
    BY <1>1 DEF Range
  <2>3. e \in Range(t)
    BY <1>1 DEF Range
  <2> QED
    BY <2>1, <2>2, <2>3
<1>3. IsInjective(t)
  BY <1>1 DEF IsInjective, Range
<1> QED
  BY <1>1, <1>2, <1>3 DEF t

\* The step of a list_iterator that goes from the tail to the head.
LEMMA FrontFacts ==
    ASSUME NEW S, NEW s \in Seq(S), s # <<>>, IsInjective(s)
    PROVE  /\ Front(s) \in Seq(S) /\ IsInjective(Front(s))
           /\ Range(Front(s)) = Range(s) \ {Last(s)}
           /\ Last(s) \in Range(s) /\ Last(s) \in S
<1> DEFINE t == Front(s)
<1>1. Len(s) \in Nat /\ Len(s) > 0 /\ DOMAIN s = 1 .. Len(s)
  OBVIOUS
<1>2. /\ t \in Seq(S) /\ DOMAIN t = 1 .. (Len(s) - 1)
      /\ \A i \in 1 .. (Len(s) - 1) : t[i] = s[i]
  BY <1>1, SubSeqProperties DEF Front
<1>3. Last(s) = s[Len(s)] /\ Len(s) \in DOMAIN s
  BY <1>1 DEF Last
<1> HIDE DEF t
<1>4. Last(s) \in Range(s) /\ Last(s) \in S
  BY <1>1, <1>3 DEF Range
<1>5. IsInjective(t)
  BY <1>1, <1>2 DEF IsInjective
<1>6. Range(t) = Range(s) \ {Last(s)}
  <2>1. \A x \in Range(t) : x \in Range(s) /\ x # Last(s)
    BY <1>1, <1>2, <1>3 DEF Range, IsInjective
  <2>2. \A x \in Range(s) : x # Last(s) => x \in Range(t)
    BY <1>1, <1>2, <1>3 DEF Range
  <2> QED
    BY <2>1, <2>2
<1> QED
  BY <1>2, <1>4, <1>5, <1>6 DEF t

\* list_remove.
LEMMA RemoveFacts ==
    ASSUME NEW S, NEW s \in Seq(S), IsInjective(s), NEW e \in Range(s)
    PROVE  /\ RemoveFirst(s, e) \in Seq(S) /\ Len(RemoveFirst(s, e)) = Len(s) - 1
           /\ Range(RemoveFirst(s, e)) = Range(s) \ {e}
           /\ IsInjective(RemoveFirst(s, e))
<1>1. Len(s) \in Nat /\ DOMAIN s = 1 .. Len(s)
  OBVIOUS
<1>2. PICK k \in 1 .. Len(s) : s[k] = e
  BY <1>1 DEF Range
<1> DEFINE I == {i \in 1 .. Len(s) : s[i] = e}
<1>3. I = {k}
  BY <1>1, <1>2 DEF IsInjective
<1>4. Min(I) = k
  <2>1. \E x \in I : \A y \in I : x <= y
    BY <1>1, <1>2, <1>3
  <2> HIDE DEF I
  <2>2. Min(I) \in I
    BY <2>1 DEF Min
  <2> QED
    BY <1>3, <2>2
<1>5. RemoveFirst(s, e) = RemoveAt(s, k)
  <2>1. SelectInSeq(s, LAMBDA v : v = e) = k
    BY <1>3, <1>4 DEF SelectInSeq
  <2> QED
    BY <1>2, <2>1 DEF RemoveFirst
<1> DEFINE a == SubSeq(s, 1, k - 1)
           b == SubSeq(s, k + 1, Len(s))
           t == a \o b
<1>6. /\ a \in Seq(S) /\ Len(a) = k - 1
      /\ \A i \in 1 .. (k - 1) : a[i] = s[i]
  BY <1>1, <1>2, SubSeqProperties
<1>7. /\ b \in Seq(S) /\ Len(b) = Len(s) - k
      /\ \A i \in 1 .. (Len(s) - k) : b[i] = s[k + i]
  <2>1. k + 1 \in Int /\ Len(s) \in Int /\ \A i \in (k + 1) .. Len(s) : s[i] \in S
    BY <1>1, <1>2
  <2>2. /\ b \in Seq(S)
        /\ Len(b) = IF k + 1 <= Len(s) THEN Len(s) - (k + 1) + 1 ELSE 0
    BY <2>1, SubSeqProperties
  <2>3. \A i \in 1 .. Len(s) - (k + 1) + 1 : b[i] = s[(k + 1) + i - 1]
    BY <2>1, SubSeqProperties
  <2>4. k \in Int /\ Len(s) \in Int /\ k <= Len(s)
    BY <1>1, <1>2
  <2> HIDE DEF b
  <2>5. Len(b) = Len(s) - k
    BY <2>2, <2>4
  <2>6. ASSUME NEW i \in 1 .. (Len(s) - k)
        PROVE  b[i] = s[k + i]
    <3>1. i \in 1 .. Len(s) - (k + 1) + 1 /\ (k + 1) + i - 1 = k + i
      BY <2>4
    <3> QED
      BY <2>3, <3>1
  <2> QED
    BY <2>2, <2>5, <2>6
<1> HIDE DEF a, b
<1>8. /\ t \in Seq(S) /\ Len(t) = Len(s) - 1 /\ DOMAIN t = 1 .. (Len(s) - 1)
      /\ \A i \in 1 .. (Len(s) - 1) : t[i] = IF i < k THEN s[i] ELSE s[i + 1]
  <2>1. t \in Seq(S) /\ Len(t) = Len(a) + Len(b)
    BY <1>6, <1>7, ConcatProperties
  <2>4. \A i \in 1 .. Len(a) + Len(b) : t[i] = IF i <= Len(a) THEN a[i] ELSE b[i - Len(a)]
    BY <1>6, <1>7, ConcatProperties, Zenon
  <2>2. Len(t) = Len(s) - 1
    BY <1>1, <1>2, <1>6, <1>7, <2>1
  <2>3. ASSUME NEW i \in 1 .. (Len(s) - 1)
        PROVE  t[i] = IF i < k THEN s[i] ELSE s[i + 1]
    <3> HIDE DEF t
    <3>1. CASE i < k
      <4>1. i \in 1 .. k - 1 /\ i \in 1 .. Len(a) + Len(b) /\ i <= Len(a)
        BY <1>1, <1>2, <1>6, <1>7, <3>1
      <4>2. t[i] = a[i]
        BY <2>4, <4>1
      <4> QED
        BY <1>6, <3>1, <4>1, <4>2
    <3>2. CASE ~(i < k)
      <4>1. i - (k - 1) \in 1 .. (Len(s) - k) /\ k + (i - (k - 1)) = i + 1
        BY <1>1, <1>2, <3>2
      <4>2. i \in 1 .. Len(a) + Len(b) /\ ~(i <= Len(a)) /\ Len(a) = k - 1
        BY <1>1, <1>2, <1>6, <1>7, <3>2
      <4>3. t[i] = b[i - (k - 1)]
        BY <2>4, <4>2
      <4> QED
        BY <1>7, <3>2, <4>1, <4>3
    <3> QED
      BY <3>1, <3>2
  <2> HIDE DEF t
  <2> QED
    BY <2>1, <2>2, <2>3
<1> HIDE DEF t
<1>9. IsInjective(t)
  BY <1>1, <1>2, <1>8 DEF IsInjective
<1>10. Range(t) = Range(s) \ {e}
  <2>1. ASSUME NEW x \in Range(t)
        PROVE  x \in Range(s) /\ x # e
    <3>1. PICK i \in 1 .. (Len(s) - 1) : t[i] = x
      BY <1>8 DEF Range
    <3>2. PICK j \in 1 .. Len(s) : j # k /\ s[j] = x
      BY <1>1, <1>2, <1>8, <3>1
    <3> QED
      BY <1>1, <1>2, <3>2 DEF Range, IsInjective
  <2>2. ASSUME NEW x \in Range(s), x # e
        PROVE  x \in Range(t)
    <3>1. PICK i \in 1 .. Len(s) : s[i] = x
      BY <1>1 DEF Range
    <3>2. CASE i < k
      BY <1>1, <1>2, <1>8, <3>1, <3>2 DEF Range
    <3>3. CASE i > k
      <4>1. i - 1 \in 1 .. (Len(s) - 1) /\ t[i - 1] = x
        BY <1>1, <1>2, <1>8, <3>1, <3>3
      <4> QED
        BY <1>8, <4>1 DEF Range
    <3> QED
      BY <1>2, <2>2, <3>1, <3>2, <3>3
  <2> QED
    BY <2>1, <2>2
<1> QED
  BY <1>5, <1>8, <1>9, <1>10 DEF RemoveAt, t, a, b

\* The properties registered at first, each once.
LEMMA SetToSeqFacts ==
    ASSUME NEW S, IsFiniteSet(S)
    PROVE  SetToSeq(S) \in Seq(S) /\ IsInjective(SetToSeq(S)) /\ Range(SetToSeq(S)) = S
<1> DEFINE n == Cardinality(S)
           f == SetToSeq(S)
<1>1. n \in Nat /\ ExistsBijection(1 .. n, S)
  BY FS_CardinalityType
<1>2. \E g \in [1 .. n -> S] : IsInjective(g)
  BY <1>1 DEF ExistsBijection, Bijection, Injection, IsInjective
<1>3. f \in [1 .. n -> S] /\ IsInjective(f)
  BY <1>2 DEF SetToSeq
<1>4. f \in Seq(S)
  BY <1>1, <1>3
<1>5. f \in Injection(1 .. n, S)
  BY <1>3 DEF Injection, IsInjective
<1>6. IsFiniteSet(1 .. n) /\ Cardinality(1 .. n) = n
  BY <1>1, FS_Interval
<1>7. f \in Surjection(1 .. n, S)
  BY <1>5, <1>6, FS_Injection
<1>8. Range(f) = S
  BY <1>3, <1>7 DEF Surjection, Range
<1> QED
  BY <1>3, <1>4, <1>8

-----------------------------------------------------------------------------
(* The invariants *)

Node == Request \cup {Ctl}
Traversing == yield.pc \in {"expire", "answer"}

\* request_list: a request on it was told nothing, unless its callback is running;
\* a reply stays on it only until the traversal that follows has passed it.
OnList ==
    /\ \A r \in Request : r \in Listed => \/ told[r] = "idle"
                                          \/ Traversing /\ yield.within /\ r = Current
    /\ Ctl \in Listed => \/ yield.pc \in {"reply", "replied"}
                         \/ yield.pc = "answer" /\ Ctl \in Range(yield.todo)

\* The iterators move over listed nodes, each once, and over none that a callback
\* or the other thread has added.
Iterators ==
    /\ IsInjective(yield.todo)
    /\ Traversing => /\ yield.todo \in Seq(Node)
                     /\ Range(yield.todo) \subseteq Listed
                     /\ fresh \cap Range(yield.todo) = {}
    /\ yield.pc = "delta" => /\ yield.todo \in Seq(Property)
                             /\ Range(yield.todo) \subseteq Range(props)
    /\ yield.pc \in {"reply", "replied"} => yield.todo = <<>>
    /\ fresh # {} => Traversing
    /\ FreshNotAnswered

\* A callback runs at a node that was told its answer.
Within ==
    yield.within =>
        /\ yield.pc \in {"expire", "answer", "delta"} /\ yield.todo # <<>>
        /\ Traversing => Current \in Request /\ told[Current] # "idle"

\* Each thread's call is about a request with a callback, but for the reply.
Calls ==
    /\ call["app"].pc # "idle" => call["app"].req \in Request
    /\ call["yield"].pc # "idle" =>
         \/ yield.within /\ call["yield"].req \in Request
         \/ /\ call["yield"].req = Ctl /\ call["yield"].method \in Replies
            /\ \/ yield.pc = "reply" /\ call["yield"].pc = "publish"
               \/ yield.pc = "replied" /\ call["yield"].pc = "update"
    /\ yield.pc = "reply" => /\ call["yield"].pc = "publish" /\ call["yield"].req = Ctl
                             /\ call["yield"].props \subseteq yield.desired

ListInv == OnList /\ Iterators /\ Within /\ Calls

\* p's callback was called for the message under way; it took the desired value.
Passed(p) == /\ yield.pc \in {"delta", "reply"} /\ p \in yield.desired
             /\ p \notin Range(yield.todo) \/ (yield.within /\ p = Current)
Taken(p) == Passed(p) /\ p \notin Hold

\* A property whose sides did not come apart is registered, and its values agree
\* but for what one of the threads has begun.
Together(p) ==
    /\ p \in Range(props)
    /\ \A t \in Thread : Pending(t, p) =>
         /\ ~Pending(Other(t), p) /\ ~Passed(p)
         /\ reported[p] = IF call[t].method \in Deleting THEN "null" ELSE "dev"
    /\ Taken(p) => local[p] = "cloud"
    /\ ~Passed(p) /\ (\A t \in Thread : ~Pending(t, p)) => local[p] = reported[p]
    /\ yield.pc = "reply" => (p \in call["yield"].props <=> p \in yield.desired \cap Hold)

ValueInv == life = "up" => \A p \in Property \ odd : Together(p)

-----------------------------------------------------------------------------
(* What the steps do to request_list *)

\* shadow_add_request_to_list appends the request, or leaves a full list alone.
LEMMA AddFacts ==
    ASSUME TypeOK, NEW r \in Node, r \notin Listed
    PROVE  LET l == shadow_add_request_to_list(list, r) IN
           /\ l \in Seq(Node) /\ Len(l) <= MaxRequest /\ IsInjective(l)
           /\ \/ Range(l) = Listed \cup {r} /\ Len(list) < MaxRequest
              \/ Range(l) = Listed
<1> DEFINE l == shadow_add_request_to_list(list, r)
<1>1. list \in Seq(Node) /\ Len(list) \in Nat /\ Len(list) <= MaxRequest /\ IsInjective(list)
  BY DEF TypeOK, Node
<1>2. MaxRequest \in Nat
  BY ShadowAssumption
<1>3. CASE Len(list) >= MaxRequest
  <2>1. l = list
    BY <1>3 DEF shadow_add_request_to_list
  <2> QED
    BY <1>1, <2>1 DEF Listed
<1>4. CASE ~(Len(list) >= MaxRequest)
  <2>1. l = Append(list, r)
    BY <1>4 DEF shadow_add_request_to_list
  <2>2. /\ Append(list, r) \in Seq(Node) /\ Len(Append(list, r)) = Len(list) + 1
        /\ Range(Append(list, r)) = Range(list) \cup {r}
        /\ IsInjective(Append(list, r))
    BY <1>1, AppendFacts DEF Listed
  <2>3. Len(list) + 1 <= MaxRequest /\ Len(list) < MaxRequest
    BY <1>1, <1>2, <1>4
  <2> QED
    BY <2>1, <2>2, <2>3 DEF Listed
<1> QED
  BY <1>3, <1>4

\* The node that a traversal has reached.
LEMMA CurrentFacts ==
    ASSUME TypeOK, ListInv, Traversing, yield.todo # <<>>
    PROVE  /\ Current \in Node /\ Current \in Listed /\ Current \in Range(yield.todo)
           /\ Front(yield.todo) \in Seq(Node) /\ IsInjective(Front(yield.todo))
           /\ Range(Front(yield.todo)) = Range(yield.todo) \ {Current}
<1>1. yield.todo \in Seq(Node) /\ IsInjective(yield.todo) /\ Range(yield.todo) \subseteq Listed
  BY DEF ListInv, Iterators
<1> QED
  BY <1>1, FrontFacts DEF Current

\* A callback: its node is removed, the application is told, and a request made in
\* the callback is listed or not.
Removed(ack) ==
    /\ Listed' = Listed \ {Current}

Outcome == {"idle", "untracked", "accepted", "rejected", "timeout", "dropped"}
Place == [pc : {"idle", "expire", "answer", "delta", "reply", "replied"},
          todo : Seq(Node) \cup Seq(Property), within : BOOLEAN,
          ack : {"accepted", "rejected", "timeout"}, desired : SUBSET Property,
          method : Replies]
Calling == [pc : {"idle", "publish", "update"}, req : Node,
            method : AppMethod \cup {"GET"} \cup Replies, props : SUBSET Property]
Content == [Property -> {"dev", "cloud", "null", "other"}]

\* Types of what the steps change.
LEMMA TypeFacts ==
    ASSUME TypeOK
    PROVE  /\ list \in Seq(Node) /\ IsInjective(list) /\ Len(list) \in Nat /\ Len(list) <= MaxRequest
           /\ told \in [Request -> Outcome] /\ fresh \subseteq Request /\ due \subseteq Listed
           /\ yield \in Place /\ call \in [Thread -> Calling]
           /\ call["app"] \in Calling /\ call["yield"] \in Calling
           /\ local \in Content /\ reported \in Content
           /\ props \in Seq(Property) /\ IsInjective(props) /\ MaxRequest \in Nat
BY ShadowAssumption DEF TypeOK, Outcome, Place, Calling, Content, Node, Thread

\* list_remove of the node whose callback has returned, or of a reply.
LEMMA RemoveStep ==
    ASSUME TypeOK, ListInv, Traversing, yield.todo # <<>>, RemoveCurrent,
           Current = Ctl \/ yield.within, call["yield"].pc = "idle"
    PROVE  TypeOK' /\ ListInv'
<1> USE DEF values, server
<1>1. /\ list' = RemoveFirst(list, Current) /\ due' = due \ {Current}
      /\ yield' = [yield EXCEPT !.todo = Front(yield.todo), !.within = FALSE]
      /\ UNCHANGED <<life, told, fresh, props, local, reported, cloud_send_method, odd, call,
                     published, received>>
  BY DEF RemoveCurrent, NextNode
<1>2. /\ Current \in Node /\ Current \in Range(list) /\ Current \in Range(yield.todo)
      /\ Front(yield.todo) \in Seq(Node) /\ IsInjective(Front(yield.todo))
      /\ Range(Front(yield.todo)) = Range(yield.todo) \ {Current}
  BY CurrentFacts DEF Listed
<1>3. /\ yield' \in Place /\ yield'.pc = yield.pc /\ yield'.todo = Front(yield.todo)
      /\ yield'.within = FALSE
  BY <1>1, <1>2, TypeFacts DEF Place
<1>4. /\ list' \in Seq(Node) /\ Len(list') = Len(list) - 1 /\ IsInjective(list')
      /\ Listed' = Listed \ {Current}
  BY <1>1, <1>2, TypeFacts, RemoveFacts DEF Listed
<1>5. Len(list') <= MaxRequest
  BY <1>4, TypeFacts
<1>6. TypeOK'
  BY <1>1, <1>3, <1>4, <1>5 DEF TypeOK, Place, Node
<1>7. OnList'
  <2>1. \A r \in Request : r \in Listed' => told[r] = "idle"
    BY <1>4 DEF ListInv, OnList
  <2>2. Ctl \in Listed' => yield.pc = "answer" /\ Ctl \in Range(Front(yield.todo))
    BY <1>2, <1>4 DEF ListInv, OnList, Traversing
  <2> QED
    BY <1>1, <1>3, <2>1, <2>2 DEF OnList
<1>8. Iterators'
  <2>1. Range(yield'.todo) \subseteq Listed' /\ fresh' \cap Range(yield'.todo) = {}
    BY <1>1, <1>2, <1>3, <1>4 DEF ListInv, Iterators
  <2> QED
    BY <1>1, <1>2, <1>3, <2>1 DEF ListInv, Iterators, Traversing, FreshNotAnswered
<1>9. Within' /\ Calls'
  BY <1>1, <1>3 DEF Within, ListInv, Calls, Traversing
<1> QED
  BY <1>6, <1>7, <1>8, <1>9 DEF ListInv

\* The callback is told the answer.
LEMMA TellStep ==
    ASSUME TypeOK, ListInv, Traversing, yield.todo # <<>>, ~yield.within,
           NEW ack \in {"accepted", "rejected", "timeout"}, Current # Ctl,
           told' = [told EXCEPT ![Current] = ack], yield' = [yield EXCEPT !.within = TRUE],
           UNCHANGED <<life, list, due, fresh, values, call, server>>
    PROVE  TypeOK' /\ ListInv'
<1> USE DEF values, server
<1>1. /\ Current \in Request /\ Current \in Range(yield.todo)
      /\ \A r \in Request : r # Current => told'[r] = told[r]
      /\ told'[Current] = ack /\ told' \in [Request -> Outcome]
  BY CurrentFacts, TypeFacts DEF Node, Outcome
<1>2. /\ yield' \in Place /\ yield'.pc = yield.pc /\ yield'.todo = yield.todo
      /\ yield'.within = TRUE /\ yield'.desired = yield.desired
  BY TypeFacts DEF Place
<1>3. Current' = Current /\ Listed' = Listed
  BY <1>2 DEF Current, Listed
<1>4. TypeOK'
  BY <1>1, <1>2, <1>3 DEF TypeOK, Outcome, Place, Node
<1>5. OnList'
  BY <1>1, <1>2, <1>3 DEF ListInv, OnList, Traversing
<1>6. Iterators'
  BY <1>1, <1>2, <1>3 DEF ListInv, Iterators, Traversing, FreshNotAnswered
<1>7. Within' /\ Calls'
  BY <1>1, <1>2, <1>3, ShadowAssumption DEF ListInv, Within, Calls, Traversing
<1> QED
  BY <1>4, <1>5, <1>6, <1>7 DEF ListInv

\* The iterator passes a node without a callback.
LEMMA PassStep ==
    ASSUME TypeOK, ListInv, yield.pc = "expire", yield.todo # <<>>, ~yield.within,
           yield' = NextNode, UNCHANGED <<life, requests, values, call, server>>
    PROVE  TypeOK' /\ ListInv'
<1> USE DEF requests, values, server
<1>1. /\ Traversing /\ Current \in Node /\ Front(yield.todo) \in Seq(Node)
      /\ IsInjective(Front(yield.todo))
      /\ Range(Front(yield.todo)) = Range(yield.todo) \ {Current}
  BY CurrentFacts DEF Traversing
<1>2. /\ yield' \in Place /\ yield'.pc = yield.pc /\ yield'.todo = Front(yield.todo)
      /\ yield'.within = FALSE
  BY <1>1, TypeFacts DEF Place, NextNode
<1>3. TypeOK'
  BY <1>2 DEF TypeOK, Place, Node, Listed
<1>4. OnList' /\ Iterators'
  BY <1>1, <1>2 DEF ListInv, OnList, Iterators, Traversing, FreshNotAnswered, Listed
<1>5. Within' /\ Calls'
  BY <1>2 DEF ListInv, Within, Calls, Traversing
<1> QED
  BY <1>3, <1>4, <1>5 DEF ListInv

\* The steps of _traverse_list.
LEMMA TraverseStep ==
    ASSUME TypeOK, ListInv,
           _handle_request_callback \/ _handle_expired_request_callback
    PROVE  TypeOK' /\ ListInv'
<1>1. Traversing /\ yield.todo # <<>> /\ ~yield.within
  BY DEF _handle_request_callback, _handle_expired_request_callback, Traversing
<1>2. call["yield"].pc = "idle"
  BY <1>1 DEF ListInv, Calls, Traversing, TypeOK
<1>3. ASSUME NEW ack \in {"accepted", "rejected", "timeout"}, RequestCallback(ack)
      PROVE  TypeOK' /\ ListInv'
  BY <1>1, <1>2, <1>3, RemoveStep, TellStep DEF RequestCallback
<1>4. yield.ack \in {"accepted", "rejected", "timeout"}
  BY DEF TypeOK
<1> QED
  BY <1>1, <1>3, <1>4, PassStep DEF _handle_request_callback, _handle_expired_request_callback

\* A traversal begins.
LEMMA StartStep ==
    ASSUME TypeOK, ListInv, NEW pc \in {"expire", "answer"},
           NEW ack \in {"accepted", "rejected", "timeout"}, StartTraverse(pc, ack),
           yield.pc \in {"idle", "replied"}, yield.pc = "replied" => pc = "answer",
           call["yield"].pc = "idle",
           due' \subseteq Listed, received' \in 0 .. MaxReceive,
           UNCHANGED <<life, list, told, values, call, published>>
    PROVE  TypeOK' /\ ListInv'
<1> USE DEF values
<1>1. /\ yield' \in Place /\ yield'.pc = pc /\ yield'.todo = list /\ yield'.within = FALSE
      /\ fresh' = {}
  BY TypeFacts DEF StartTraverse, AtRest, Place, Replies
<1>2. TypeOK'
  BY <1>1 DEF TypeOK, Place, Node, Listed
<1>3. OnList'
  BY <1>1 DEF ListInv, OnList, Within, Traversing, Listed
<1>4. Iterators'
  BY <1>1, TypeFacts DEF ListInv, Iterators, Traversing, FreshNotAnswered, Listed
<1>5. Within' /\ Calls'
  BY <1>1 DEF ListInv, Within, Calls, Traversing
<1> QED
  BY <1>2, <1>3, <1>4, <1>5 DEF ListInv

\* The callback of a property, and the step past it.
LEMMA PropertyStep ==
    ASSUME TypeOK, ListInv,
           \/ PropertyCallback \/ NullPropertyCallback
           \/ CallbackReturns /\ yield.pc = "delta"
    PROVE  TypeOK' /\ ListInv'
<1> USE DEF requests, values, server
<1>1. /\ yield.pc = "delta" /\ yield.todo # <<>> /\ yield.todo \in Seq(Property)
      /\ IsInjective(yield.todo) /\ Range(yield.todo) \subseteq Range(props)
      /\ UNCHANGED <<list, due, told, fresh, props, reported, cloud_send_method, call,
                     published, received>>
  BY DEF PropertyCallback, NullPropertyCallback, CallbackReturns, ListInv, Iterators, Within
<1>2. /\ Front(yield.todo) \in Seq(Property) /\ IsInjective(Front(yield.todo))
      /\ Range(Front(yield.todo)) \subseteq Range(yield.todo) /\ Current \in Property
  BY <1>1, FrontFacts DEF Current
<1>3. life' \in {"up", "down", "crashed"} /\ local' \in Content /\ odd' \subseteq Property
  <2>1. CASE PropertyCallback
    <3>1. local' \in Content
      BY <1>2, <2>1, TypeFacts DEF PropertyCallback, IOT_Shadow_Direct_Update_Value, Content
    <3>2. life' = life /\ odd' \subseteq odd \cup {Current}
      BY <2>1 DEF PropertyCallback
    <3> QED
      BY <1>2, <3>1, <3>2 DEF TypeOK
  <2>2. CASE ~PropertyCallback
    BY <1>1, <2>2, TypeFacts DEF NullPropertyCallback, CallbackReturns, TypeOK
  <2> QED
    BY <2>1, <2>2
<1>7. \/ yield' = yield
      \/ yield' = NextNode /\ (~yield.within \/ call["yield"] = NoCall)
      \/ yield' = [yield EXCEPT !.within = TRUE] /\ ~yield.within
  BY <1>1 DEF PropertyCallback, NullPropertyCallback, CallbackReturns
<1>4. CASE yield' = yield
  BY <1>1, <1>3, <1>4 DEF TypeOK, Content, ListInv, OnList, Iterators, Within, Calls, Traversing, Listed,
     FreshNotAnswered, Current
<1>5. CASE yield' = NextNode /\ (~yield.within \/ call["yield"] = NoCall)
  <2>1. /\ yield' \in Place /\ yield'.pc = "delta" /\ yield'.todo = Front(yield.todo)
        /\ yield'.within = FALSE
    BY <1>1, <1>2, <1>5, TypeFacts DEF Place, NextNode
  <2>2. TypeOK'
    BY <1>1, <1>3, <2>1 DEF TypeOK, Place, Node, Content, Listed
  <2>3. ListInv'
    BY <1>1, <1>2, <1>5, <2>1 DEF ListInv, OnList, Iterators, Within, Calls, Traversing, Listed,
       FreshNotAnswered, NoCall
  <2> QED
    BY <2>2, <2>3
<1>6. CASE yield' = [yield EXCEPT !.within = TRUE] /\ ~yield.within
  <2>1. /\ yield' \in Place /\ yield'.pc = "delta" /\ yield'.todo = yield.todo
        /\ yield'.within = TRUE
    BY <1>1, <1>6, TypeFacts DEF Place
  <2>2. TypeOK'
    BY <1>1, <1>3, <2>1 DEF TypeOK, Place, Node, Content, Listed
  <2>3. ListInv'
    BY <1>1, <1>6, <2>1 DEF ListInv, OnList, Iterators, Within, Calls, Traversing, Listed,
       FreshNotAnswered
  <2> QED
    BY <2>2, <2>3
<1> QED
  BY <1>4, <1>5, <1>6, <1>7

\* The other steps of the yield thread.
LEMMA YieldStep ==
    ASSUME TypeOK, ListInv,
           \/ _handle_expired_request \/ EndTraverse \/ CallbackReturns
           \/ AddReply \/ ReplyDone \/ \E m \in Message : Receive(m)
    PROVE  TypeOK' /\ ListInv'
<1> USE DEF requests, values, server
<1>0. /\ <<>> \in Seq(Node) /\ Range(<<>>) = {} /\ IsInjective(<<>>)
  BY EmptyFacts
<1>1. CASE _handle_expired_request
  <2>1. call["yield"].pc = "idle" /\ received \in 0 .. MaxReceive
    BY <1>1 DEF _handle_expired_request, ListInv, Within, Calls, TypeOK
  <2> QED
    BY <1>1, <2>1, StartStep DEF _handle_expired_request
<1>2. CASE EndTraverse
  <2>1. /\ yield' = AtRest /\ fresh' = {} /\ Traversing /\ yield.todo = <<>> /\ yield.within = FALSE
        /\ UNCHANGED <<life, list, due, told, props, local, reported, cloud_send_method, odd, call,
                       published, received>>
    BY <1>2 DEF EndTraverse, Traversing, ListInv, Within, TypeOK
  <2>2. TypeOK'
    BY <1>0, <2>1 DEF TypeOK, AtRest, Listed, Node, Replies
  <2>3. OnList' /\ Iterators'
    BY <1>0, <2>1 DEF ListInv, OnList, Iterators, Traversing, AtRest, FreshNotAnswered, Listed
  <2>4. Within' /\ Calls'
    BY <2>1 DEF ListInv, Within, Calls, Traversing, AtRest
  <2> QED
    BY <2>2, <2>3, <2>4 DEF ListInv
<1>3. CASE CallbackReturns
  <2>1. yield.within /\ call["yield"].pc = "idle" /\ yield.todo # <<>>
    BY <1>3 DEF CallbackReturns, NoCall, ListInv, Within
  <2> QED
    BY <1>3, <2>1, PropertyStep, RemoveStep DEF CallbackReturns, Traversing
<1>4. CASE AddReply
  <2>1. /\ yield.pc = "delta" /\ yield.todo = <<>> /\ yield' = [yield EXCEPT !.pc = "reply"]
        /\ list' = shadow_add_request_to_list(list, Ctl)
        /\ call' = [call EXCEPT !["yield"] = [pc |-> "publish", req |-> Ctl, method |-> yield.method,
                                             props |-> yield.desired \cap Hold \cap Range(props)]]
        /\ UNCHANGED <<life, due, told, fresh, props, local, reported, cloud_send_method, odd,
                       published, received>>
    BY <1>4 DEF AddReply
  <2>2. Ctl \notin Listed /\ yield.within = FALSE
    BY <2>1 DEF ListInv, OnList, Within, TypeOK
  <2>3. /\ list' \in Seq(Node) /\ Len(list') <= MaxRequest /\ IsInjective(list')
        /\ Listed' = Listed \cup {Ctl} \/ Listed' = Listed
    BY <2>1, <2>2, AddFacts DEF Node, Listed
  <2>4. /\ yield' \in Place /\ yield'.pc = "reply" /\ yield'.todo = <<>> /\ yield'.within = FALSE
        /\ yield'.desired = yield.desired
    BY <2>1, <2>2, TypeFacts DEF Place
  <2>5. /\ call' \in [Thread -> Calling] /\ call'["app"] = call["app"]
        /\ call'["yield"].pc = "publish" /\ call'["yield"].req = Ctl
        /\ call'["yield"].method \in Replies /\ call'["yield"].props \subseteq yield.desired
    <3>1. yield.method \in Replies /\ yield.desired \subseteq Property
      BY TypeFacts DEF Place
    <3>2. [pc |-> "publish", req |-> Ctl, method |-> yield.method,
           props |-> yield.desired \cap Hold \cap Range(props)] \in Calling
      BY <3>1 DEF Calling, Node
    <3> QED
      BY <2>1, <3>1, <3>2, TypeFacts DEF Thread
  <2>6. TypeOK'
    BY <2>1, <2>3, <2>4, <2>5 DEF TypeOK, Place, Calling, Node
  <2>7. OnList' /\ Iterators'
    BY <1>0, <2>1, <2>2, <2>3, <2>4, ShadowAssumption
       DEF ListInv, OnList, Iterators, Traversing, FreshNotAnswered
  <2>8. Within' /\ Calls'
    BY <2>4, <2>5 DEF ListInv, Within, Calls
  <2> QED
    BY <2>6, <2>7, <2>8 DEF ListInv
<1>5. CASE ReplyDone
  <2>1. /\ yield.pc = "replied" /\ call["yield"].pc = "idle" /\ due \subseteq Listed
        /\ yield.ack \in {"accepted", "rejected", "timeout"} /\ received \in 0 .. MaxReceive
    BY <1>5 DEF ReplyDone, NoCall, TypeOK
  <2> QED
    BY <1>5, <2>1, StartStep DEF ReplyDone
<1>6. ASSUME NEW m \in Message, Receive(m)
      PROVE  TypeOK' /\ ListInv'
  <2>1. m.desired \in SUBSET Property /\ Ack(m) \in {"accepted", "rejected", "timeout"}
    BY ShadowAssumption DEF Message, Ack
  <2>2. /\ yield.pc = "idle" /\ received' \in 0 .. MaxReceive /\ call["yield"].pc = "idle"
        /\ yield.within = FALSE /\ due' \subseteq Listed
        /\ UNCHANGED <<life, list, due, told, props, local, reported, cloud_send_method, odd, call, published>>
    BY <1>6, ShadowAssumption DEF Receive, TypeOK, ListInv, Within, Calls, Listed
  <2>3. CASE UNCHANGED <<yield, fresh>>
    BY <2>2, <2>3 DEF TypeOK, ListInv, OnList, Iterators, Within, Calls, FreshNotAnswered, Traversing, Listed
  <2>4. CASE StartTraverse("answer", Ack(m))
    BY <2>1, <2>2, <2>4, StartStep
  <2>5. CASE yield' = [pc |-> "delta", todo |-> props, within |-> FALSE, ack |-> Ack(m),
                       desired |-> m.desired, method |-> ReplyMethod] /\ UNCHANGED fresh
    <3>1. TypeOK'
      BY <2>1, <2>2, <2>5 DEF TypeOK, ReplyMethod, Replies, Listed
    <3>2. OnList' /\ Iterators'
      BY <2>2, <2>5, TypeFacts DEF ListInv, OnList, Iterators, FreshNotAnswered, Traversing, Listed
    <3>3. Within' /\ Calls'
      BY <2>2, <2>5 DEF ListInv, Within, Calls, Traversing
    <3> QED
      BY <3>1, <3>2, <3>3 DEF ListInv
  <2> QED
    BY <1>6, <2>3, <2>4, <2>5 DEF Receive
<1> QED
  BY <1>1, <1>2, <1>3, <1>4, <1>5, <1>6

\* A request is listed.
LEMMA BeginStep ==
    ASSUME TypeOK, ListInv, NEW t \in Thread, NEW r \in Request, NEW method \in AppMethod,
           NEW named \in {{}} \cup {{p} : p \in Property}, BeginRequest(t, r, method, named)
    PROVE  TypeOK' /\ ListInv'
<1> USE DEF values, server
<1> DEFINE c == [pc |-> "publish", req |-> r, method |-> method, props |-> named]
<1>1. /\ call[t] = NoCall /\ told[r] = "idle" /\ r \notin Listed
      /\ IF t = "yield" THEN yield.within ELSE ~Traversing
      /\ list' = shadow_add_request_to_list(list, r)
      /\ told' = [told EXCEPT ![r] = IF r \in Range(list') THEN told[r] ELSE "untracked"]
      /\ fresh' = IF Traversing THEN fresh \cup {r} ELSE fresh
      /\ call' = [call EXCEPT ![t] = c]
      /\ UNCHANGED <<life, due, props, local, reported, cloud_send_method, odd, yield,
                     published, received>>
  BY DEF BeginRequest, RequestMutexFree, Traversing
<1>2. /\ list' \in Seq(Node) /\ Len(list') <= MaxRequest /\ IsInjective(list')
      /\ Listed' = Listed \cup {r} \/ Listed' = Listed
  BY <1>1, AddFacts DEF Node, Listed
<1>3. /\ told' \in [Request -> Outcome]
      /\ \A q \in Request : q # r => told'[q] = told[q]
      /\ told'[r] \in {"idle", "untracked"} /\ (r \in Listed' => told'[r] = "idle")
  BY <1>1, TypeFacts DEF Outcome, Listed
<1>4. /\ call' \in [Thread -> Calling] /\ call'[t].req \in Request /\ call'[t].pc = "publish"
      /\ \A u \in Thread : u # t => call'[u] = call[u]
  <2>1. c \in Calling
    BY DEF Calling, Node
  <2> QED
    BY <1>1, <2>1, TypeFacts
<1>5. TypeOK'
  BY <1>1, <1>2, <1>3, <1>4 DEF TypeOK, Outcome, Calling, Node, Listed
<1>6. Ctl # r
  BY ShadowAssumption
<1>7. Current' = Current /\ Traversing' = Traversing
  BY <1>1 DEF Current, Traversing
<1>8. OnList'
  BY <1>1, <1>2, <1>3, <1>6, <1>7 DEF ListInv, OnList
<1>9. Iterators'
  BY <1>1, <1>2, <1>3, <1>7, TypeFacts DEF ListInv, Iterators, FreshNotAnswered
<1>10. Within'
  BY <1>1, <1>3, <1>7 DEF ListInv, Within
<1>11. Calls'
  <2>1. CASE t = "app"
    BY <1>1, <1>4, <2>1 DEF ListInv, Calls, Thread
  <2>2. CASE t = "yield"
    <3>1. yield.within /\ yield.pc # "reply"
      BY <1>1, <2>2 DEF ListInv, Within
    <3> QED
      BY <1>1, <1>4, <2>2, <3>1 DEF ListInv, Calls, Thread
  <2> QED
    BY <2>1, <2>2 DEF Thread
<1> QED
  BY <1>5, <1>8, <1>9, <1>10, <1>11 DEF ListInv

\* Every document has a value for each property.
LEMMA DocumentFacts ==
    ASSUME TypeOK, NEW c \in Calling, NEW document \in shadow_json(c)
    PROVE  /\ document \in Content
           /\ \A p \in Property : p \notin DOMAIN Intended(c) => document[p] = reported[p]
<1>1. \A p \in Property : Value(c, p) \in {"dev", "cloud", "null", "other"}
  BY TypeFacts DEF Value, Content
<1>2. \A p \in DOMAIN Intended(c) : Intended(c)[p] \in {"dev", "cloud", "null", "other"}
  <2>1. Names(c) \subseteq Property
    BY DEF Names, Calling
  <2> QED
    BY <1>1, <2>1 DEF Intended
<1>3. PICK lost \in SUBSET (IF PutsNodes(c) THEN DOMAIN Intended(c) ELSE {}),
           cut \in SUBSET (IF c.method \in Deleting THEN {} ELSE Names(c)) :
        document = [p \in Property |->
                      CASE p \in lost \/ p \notin DOMAIN Intended(c) -> reported[p]
                        [] p \in cut \ lost -> "other"
                        [] p \in DOMAIN Intended(c) \ (lost \cup cut) -> Intended(c)[p]]
  BY DEF shadow_json
<1>4. Names(c) \subseteq DOMAIN Intended(c)
  BY DEF Intended
<1> DEFINE as == Intended(c)
<1> HIDE DEF as
<1>5. ASSUME NEW p \in Property
      PROVE  /\ document[p] \in {"dev", "cloud", "null", "other"}
             /\ p \notin DOMAIN as => document[p] = reported[p]
  <2>1. document[p] = CASE p \in lost \/ p \notin DOMAIN as -> reported[p]
                        [] p \in cut \ lost -> "other"
                        [] p \in DOMAIN as \ (lost \cup cut) -> as[p]
    BY <1>3 DEF as
  <2>2. CASE p \in lost \/ p \notin DOMAIN as
    <3>1. ~(p \in cut \ lost) /\ ~(p \in DOMAIN as \ (lost \cup cut))
      BY <1>3, <1>4, <2>2 DEF as
    <3>2. document[p] = reported[p]
      BY <2>1, <2>2, <3>1
    <3> QED
      BY <3>2, TypeFacts DEF Content
  <2>3. CASE p \notin lost /\ p \in DOMAIN as /\ p \in cut
    BY <2>1, <2>3
  <2>4. CASE p \notin lost /\ p \in DOMAIN as /\ p \notin cut
    <3>1. document[p] = as[p]
      BY <2>1, <2>4
    <3> QED
      BY <1>2, <2>4, <3>1 DEF as
  <2> QED
    BY <2>2, <2>3, <2>4
<1> QED
  BY <1>3, <1>5 DEF Content, as

\* A request is published, fails, overruns its buffer, or updates the local values.
LEMMA CallSteps ==
    ASSUME TypeOK, ListInv, NEW t \in Thread, CallStep(t)
    PROVE  TypeOK' /\ ListInv'
<1> USE DEF requests, values, server
<1>0. call[t] \in Calling /\ call \in [Thread -> Calling] /\ NoCall \in Calling
  BY TypeFacts DEF NoCall, Calling, Node
<1>1. CASE PublishRequest(t)
  <2>1. /\ call[t].pc = "publish" /\ yield' = Replied(t)
        /\ UNCHANGED <<life, list, due, told, fresh, props, local, received>>
    BY <1>1 DEF PublishRequest
  <2>2. /\ cloud_send_method' \in {"update", "delete"} /\ reported' \in Content
        /\ odd' \subseteq Property /\ published' \subseteq Request
    <3>1. CASE /\ cloud_send_method' = Kind(call[t].method)
               /\ \E document \in shadow_json(call[t]) :
                    /\ reported' = document
                    /\ odd' = (odd \ Settled(t)) \cup Strayed(t, document)
               /\ published' = published \cup ({call[t].req} \ {Ctl})
      <4>1. DOMAIN Intended(call[t]) \subseteq Property /\ Names(call[t]) \subseteq Property
        <5>1. Names(call[t]) \subseteq Property
          BY <1>0 DEF Names, Calling
        <5>2. Accepted(call[t]) \subseteq Property
          BY DEF Accepted, TypeOK
        <5> QED
          BY <5>1, <5>2 DEF Intended
      <4>2. odd' \subseteq Property
        BY <3>1, <4>1 DEF Strayed, Overlap, TypeOK
      <4>3. reported' \in Content
        BY <1>0, <3>1, DocumentFacts
      <4>4. published' \subseteq Request
        BY <1>0, <3>1 DEF TypeOK, Calling, Node
      <4> QED
        BY <3>1, <4>2, <4>3, <4>4 DEF Kind
    <3>2. CASE /\ cloud_send_method' \in {cloud_send_method, Kind(call[t].method)}
               /\ odd' = IF call[t].req = Ctl THEN odd \cup yield.desired ELSE odd
               /\ UNCHANGED <<reported, published>>
      BY <3>2, TypeFacts DEF TypeOK, Kind
    <3> QED
      BY <1>1, <3>1, <3>2 DEF PublishRequest
  <2>3. /\ call' \in [Thread -> Calling]
        /\ \A u \in Thread : u # t => call'[u] = call[u]
        /\ \/ call'[t] = NoCall
           \/ /\ call'[t].pc = "update" /\ call'[t].req = call[t].req
              /\ call'[t].method = call[t].method
    <3>1. [call[t] EXCEPT !.pc = "update"] \in Calling
      BY <1>0 DEF Calling
    <3>2. \/ call' = [call EXCEPT ![t] = NoCall]
          \/ call' = [call EXCEPT ![t] = [call[t] EXCEPT !.pc = "update"]]
      BY <1>1 DEF PublishRequest
    <3>3. /\ [call[t] EXCEPT !.pc = "update"].pc = "update"
          /\ [call[t] EXCEPT !.pc = "update"].req = call[t].req
          /\ [call[t] EXCEPT !.pc = "update"].method = call[t].method
      BY <1>0 DEF Calling
    <3> QED
      BY <1>0, <3>1, <3>2, <3>3
  <2>4. CASE call[t].req # Ctl
    <3>1. yield' = yield /\ (yield.pc # "reply" \/ t = "app")
      BY <2>1, <2>4 DEF Replied, ListInv, Calls, Thread
    <3>2. yield' = yield
      BY <2>1, <2>4 DEF Replied
    <3>3. TypeOK'
      BY <2>1, <2>2, <2>3, <3>2 DEF TypeOK, Content, Calling, Node, Listed
    <3>4. OnList' /\ Iterators' /\ Within'
      BY <2>1, <3>2 DEF ListInv, OnList, Iterators, Within, FreshNotAnswered, Traversing, Current, Listed
    <3>5. Calls'
      BY <2>1, <2>3, <2>4, <3>1, <3>2 DEF ListInv, Calls, Thread, NoCall
    <3> QED
      BY <3>3, <3>4, <3>5 DEF ListInv
  <2>5. CASE call[t].req = Ctl
    <3>1. t = "yield" /\ yield.pc = "reply" /\ yield' = [yield EXCEPT !.pc = "replied"]
          /\ yield.within = FALSE /\ yield.todo = <<>> /\ call[t].method \in Replies
      BY <2>1, <2>5, ShadowAssumption DEF Replied, ListInv, Calls, Within, Iterators, Thread, TypeOK
    <3>2. /\ yield' \in Place /\ yield'.pc = "replied" /\ yield'.todo = yield.todo
          /\ yield'.within = FALSE
      BY <3>1, TypeFacts DEF Place
    <3>3. TypeOK'
      BY <2>1, <2>2, <2>3, <3>2 DEF TypeOK, Content, Calling, Node, Listed, Place
    <3>4. OnList' /\ Iterators'
      BY <2>1, <3>1, <3>2 DEF ListInv, OnList, Iterators, FreshNotAnswered, Traversing, Listed
    <3>5. Within' /\ Calls'
      BY <2>1, <2>3, <2>5, <3>1, <3>2 DEF ListInv, Within, Calls, Thread, NoCall
    <3> QED
      BY <3>3, <3>4, <3>5 DEF ListInv
  <2> QED
    BY <2>4, <2>5
<1>2. CASE OverrunDocument(t)
  BY <1>2 DEF OverrunDocument, TypeOK, ListInv, OnList, Iterators, Within, Calls, FreshNotAnswered,
     Traversing, Current, Listed
<1>3. CASE UpdateLocal(t)
  <2>1. /\ call[t].pc = "update" /\ local' = uiot_shadow_update_property(call[t])
        /\ call' = [call EXCEPT ![t] = NoCall]
        /\ UNCHANGED <<life, list, due, told, fresh, props, reported, cloud_send_method, odd, yield,
                       published, received>>
    BY <1>3 DEF UpdateLocal
  <2>2. local' \in Content
    BY <2>1, TypeFacts DEF uiot_shadow_update_property, Value, Content
  <2>3. /\ call' \in [Thread -> Calling] /\ call'[t] = NoCall
        /\ \A u \in Thread : u # t => call'[u] = call[u]
    BY <1>0, <2>1
  <2>4. TypeOK'
    BY <2>1, <2>2, <2>3 DEF TypeOK, Content, Calling, Node, Listed
  <2>5. OnList' /\ Iterators' /\ Within'
    BY <2>1 DEF ListInv, OnList, Iterators, Within, FreshNotAnswered, Traversing, Current, Listed
  <2>6. Calls'
    BY <2>1, <2>3 DEF ListInv, Calls, Thread, NoCall
  <2> QED
    BY <2>4, <2>5, <2>6 DEF ListInv
<1> QED
  BY <1>1, <1>2, <1>3 DEF CallStep

\* Registering, unregistering, and the end.
LEMMA ListStep ==
    ASSUME TypeOK, ListInv,
           \/ IOT_Shadow_Destroy
           \/ \E p \in Property : IOT_Shadow_Register_Property(p) \/ IOT_Shadow_UnRegister_Property(p)
    PROVE  TypeOK' /\ ListInv'
<1> USE DEF requests, values, server
<1>0. /\ <<>> \in Seq(Node) /\ Range(<<>>) = {} /\ IsInjective(<<>>) /\ Len(<<>>) = 0
      /\ <<>> \in Seq(Property)
  BY EmptyFacts
<1>1. CASE IOT_Shadow_Destroy
  <2>1. told' \in [Request -> Outcome]
    BY <1>1, TypeFacts DEF IOT_Shadow_Destroy, Outcome
  <2>2. TypeOK'
    BY <1>0, <1>1, <2>1, TypeFacts DEF IOT_Shadow_Destroy, TypeOK, Listed, Node, Outcome
  <2>3. fresh = {} /\ yield.within = FALSE
    BY <1>1 DEF IOT_Shadow_Destroy, ListInv, Iterators, Within, Traversing, TypeOK
  <2>4. OnList' /\ Iterators'
    BY <1>0, <1>1, <2>3 DEF IOT_Shadow_Destroy, ListInv, OnList, Iterators, FreshNotAnswered, Traversing, Listed
  <2>5. Within' /\ Calls'
    BY <1>1, <2>3 DEF IOT_Shadow_Destroy, ListInv, Within, Calls
  <2> QED
    BY <2>2, <2>4, <2>5 DEF ListInv
<1>2. ASSUME NEW p \in Property, IOT_Shadow_Register_Property(p)
      PROVE  TypeOK' /\ ListInv'
  <2>1. /\ props' = Append(props, p) /\ p \notin Range(props)
        /\ UNCHANGED <<life, list, due, told, fresh, local, reported, cloud_send_method, odd, call,
                       yield, published, received>>
    BY <1>2 DEF IOT_Shadow_Register_Property
  <2>2. props' \in Seq(Property) /\ IsInjective(props') /\ Range(props') = Range(props) \cup {p}
    BY <2>1, AppendFacts, TypeFacts
  <2>3. TypeOK'
    BY <2>1, <2>2 DEF TypeOK, Listed
  <2>4. ListInv'
    BY <2>1, <2>2 DEF ListInv, OnList, Iterators, Within, Calls, FreshNotAnswered, Traversing, Current, Listed
  <2> QED
    BY <2>3, <2>4
<1>3. ASSUME NEW p \in Property, IOT_Shadow_UnRegister_Property(p)
      PROVE  TypeOK' /\ ListInv'
  <2>1. /\ props' = RemoveFirst(props, p) /\ p \in Range(props) /\ yield.pc # "delta"
        /\ odd' = odd \cup {p}
        /\ UNCHANGED <<life, list, due, told, fresh, local, reported, cloud_send_method, call,
                       yield, published, received>>
    BY <1>3 DEF IOT_Shadow_UnRegister_Property, PropertyMutexFree
  <2>2. props' \in Seq(Property) /\ IsInjective(props')
    BY <2>1, RemoveFacts, TypeFacts
  <2>3. TypeOK'
    BY <2>1, <2>2 DEF TypeOK, Listed
  <2>4. ListInv'
    BY <2>1, <2>2 DEF ListInv, OnList, Iterators, Within, Calls, FreshNotAnswered, Traversing, Current, Listed
  <2> QED
    BY <2>3, <2>4
<1> QED
  BY <1>1, <1>2, <1>3

-----------------------------------------------------------------------------
(* The theorems about lists *)

\* Types and lists in every state.
THEOREM ListInvariant == Spec => [](TypeOK /\ ListInv)
<1>1. Init => TypeOK /\ ListInv
  <2> SUFFICES ASSUME Init PROVE TypeOK /\ ListInv
    OBVIOUS
  <2>1. props \in Seq(Property) /\ IsInjective(props)
    BY SetToSeqFacts, ShadowAssumption DEF Init
  <2>2. /\ list = <<>> /\ list \in Seq(Request \cup {Ctl}) /\ Len(list) = 0 /\ Listed = {}
        /\ IsInjective(<<>>) /\ <<>> \in Seq(Property)
    BY EmptyFacts DEF Init, Listed
  <2>3. TypeOK
    BY <2>1, <2>2, ShadowAssumption DEF Init, TypeOK, NoCall, AtRest, Kind, Deleting, Replies
  <2>4. ListInv
    BY <2>2 DEF Init, ListInv, OnList, Iterators, Within, Calls, FreshNotAnswered, Traversing,
       NoCall, AtRest, Thread
  <2> QED
    BY <2>3, <2>4
<1>2. TypeOK /\ ListInv /\ [Next]_vars => TypeOK' /\ ListInv'
  <2> SUFFICES ASSUME TypeOK, ListInv, [Next]_vars PROVE TypeOK' /\ ListInv'
    OBVIOUS
  <2>1. CASE UNCHANGED vars
    BY <2>1 DEF vars, TypeOK, ListInv, OnList, Iterators, Within, Calls, FreshNotAnswered,
       Traversing, Current, Listed
  <2>2. CASE YieldThread \/ \E m \in Message : Receive(m)
    BY <2>2, TraverseStep, PropertyStep, YieldStep, CallSteps DEF YieldThread, Thread
  <2>3. CASE AppThread
    BY <2>3, CallSteps DEF AppThread, Thread
  <2> QED
    BY <2>1, <2>2, <2>3, BeginStep, ListStep DEF Next
<1> QED
  BY <1>1, <1>2, PTL DEF Spec

\* The lists, the values and the two threads' places keep their types, for any
\* requests and properties: request_list never grows past its limit, and no node
\* is on a list twice (shadow_add_request_to_list, list_remove).
THEOREM TypeCorrect == Spec => []TypeOK
BY ListInvariant, PTL

\* However callbacks and the application's thread change the lists: a traversal
\* stays on listed nodes and never answers a request made in its own callbacks
\* (_traverse_list, _handle_delta).
THEOREM TraversalSoundHolds == Spec => []TraversalSound
<1>1. ListInv => TraversalSound
  BY DEF ListInv, Iterators, Traversing, TraversalSound, IteratorsValid
<1> QED
  BY <1>1, ListInvariant, PTL

-----------------------------------------------------------------------------
(* Local and reported values *)

\* A property that stays out of the step, and whose values no step changes.
LEMMA TogetherKept ==
    ASSUME NEW p \in Property, Together(p), p \in Range(props'),
           local'[p] = local[p], reported'[p] = reported[p],
           \A t \in Thread : /\ Pending(t, p)' <=> Pending(t, p)
                             /\ Pending(t, p) => call'[t].method = call[t].method,
           Passed(p)' <=> Passed(p),
           yield'.pc = "reply" => /\ yield.pc = "reply" /\ yield'.desired = yield.desired
                                  /\ call'["yield"].props = call["yield"].props
    PROVE  Together(p)'
<1>1. \A t \in Thread : Other(t) \in Thread
  BY DEF Thread, Other
<1>2. Taken(p)' <=> Taken(p)
  BY DEF Taken
<1>3. \A t \in Thread : Pending(Other(t), p)' <=> Pending(Other(t), p)
  BY <1>1
<1>4. \A t \in Thread : Pending(t, p)' =>
         /\ ~Pending(Other(t), p)' /\ ~Passed(p)'
         /\ reported'[p] = IF call'[t].method \in Deleting THEN "null" ELSE "dev"
  BY <1>3 DEF Together
<1>5. Taken(p)' => local'[p] = "cloud"
  BY <1>2 DEF Together
<1>6. ~Passed(p)' /\ (\A t \in Thread : ~Pending(t, p)') => local'[p] = reported'[p]
  BY DEF Together
<1>7. yield'.pc = "reply" => (p \in call'["yield"].props <=> p \in yield'.desired \cap Hold)
  BY DEF Together
<1> QED
  BY <1>4, <1>5, <1>6, <1>7 DEF Together

\* A step that changes neither values nor calls.
LEMMA ValuesKept ==
    ASSUME ValueInv, UNCHANGED <<life, props, local, reported, odd, call>>,
           \/ yield' = yield
           \/ yield.pc \notin {"delta", "reply"} /\ yield'.pc \notin {"delta", "reply"}
    PROVE  ValueInv'
<1> SUFFICES ASSUME life = "up", NEW p \in Property \ odd PROVE Together(p)'
  BY DEF ValueInv
<1>1. Together(p)
  BY DEF ValueInv
<1>2. \A t \in Thread : Pending(t, p)' <=> Pending(t, p)
  BY DEF Pending
<1>3. Passed(p)' <=> Passed(p)
  BY DEF Passed, Current
<1>4. p \in Range(props')
  BY <1>1 DEF Together
<1> QED
  BY <1>1, <1>2, <1>3, <1>4, TogetherKept

\* A request is published, or fails.
LEMMA ValuePublish ==
    ASSUME TypeOK, ListInv, ValueInv, NEW t \in Thread, PublishRequest(t)
    PROVE  ValueInv'
<1> USE DEF requests
<1> DEFINE c == call[t]
           as == Intended(c)
<1>1. /\ c.pc = "publish" /\ yield' = Replied(t) /\ c \in Calling
      /\ UNCHANGED <<life, list, due, told, fresh, props, local, received>>
  BY TypeFacts DEF PublishRequest
<1>2. /\ \A u \in Thread : u # t => call'[u] = call[u]
      /\ \/ call' = [call EXCEPT ![t] = NoCall] /\ call'[t] = NoCall
         \/ /\ call' = [call EXCEPT ![t].pc = "update"]
            /\ call'[t] = [c EXCEPT !.pc = "update"]
  BY TypeFacts DEF PublishRequest
<1>3. Other(t) \in Thread /\ Other(t) # t /\ Thread = {t, Other(t)} /\ Other(Other(t)) = t
  BY DEF Other, Thread
<1>4. \A p \in Property : ~Pending(t, p)
  BY <1>1 DEF Pending
<1>5. \A p \in Property : Pending(Other(t), p)' <=> Pending(Other(t), p)
  BY <1>2, <1>3 DEF Pending, Names
\* where the yield thread is
<1>6. \/ c.req # Ctl /\ yield' = yield
      \/ /\ c.req = Ctl /\ t = "yield" /\ yield.pc = "reply" /\ yield.todo = <<>> /\ ~yield.within
         /\ c.props \subseteq yield.desired /\ c.method \in Replies
         /\ yield'.pc = "replied"
  <2>1. CASE c.req # Ctl
    BY <1>1, <2>1 DEF Replied
  <2>2. CASE c.req = Ctl
    <3>1. t = "yield" /\ yield.pc = "reply" /\ c.method \in Replies /\ ~yield.within
      BY <1>1, <2>2, ShadowAssumption DEF ListInv, Calls, Within, Thread
    <3>2. yield'.pc = "replied"
      BY <1>1, <2>2, <3>1, TypeFacts DEF Replied, Place
    <3> QED
      BY <2>2, <3>1, <3>2 DEF ListInv, Calls, Iterators
  <2> QED
    BY <2>1, <2>2
<1>7. \A p \in Property : Passed(p)' <=> Passed(p) /\ c.req # Ctl
  BY <1>6 DEF Passed, Current
<1>8. CASE \E document \in shadow_json(c) :
             /\ reported' = document
             /\ odd' = (odd \ Settled(t)) \cup Strayed(t, document)
             /\ call' = [call EXCEPT ![t].pc = "update"]
  <2>1. PICK document \in shadow_json(c) :
             /\ reported' = document
             /\ odd' = (odd \ Settled(t)) \cup Strayed(t, document)
             /\ call' = [call EXCEPT ![t].pc = "update"]
    BY <1>8
  <2>2. call'[t] = [c EXCEPT !.pc = "update"]
    BY <2>1, TypeFacts
  <2>3. /\ call'[t].pc = "update" /\ call'[t].method = c.method /\ call'[t].props = c.props
        /\ call'[t].req = c.req
    BY <1>1, <2>2 DEF Calling
  <2>4. \A p \in Property : Pending(t, p)' <=> p \in Names(c) /\ c.method # "REPLY_CONTROL_UPDATE"
    BY <2>3 DEF Pending, Names
  <2>5. \A p \in Property : p \notin DOMAIN as => reported'[p] = reported[p]
    BY <1>1, <2>1, DocumentFacts
  <2> SUFFICES ASSUME life = "up", NEW p \in Property \ odd' PROVE Together(p)'
    BY <1>1 DEF ValueInv
  <2>6. p \notin Strayed(t, document) /\ (p \notin odd \/ p \in Settled(t))
    BY <2>1
  <2>7. p \in DOMAIN as => reported'[p] = as[p]
    BY <2>1, <2>6 DEF Strayed
  <2>8. DOMAIN as = Names(c) \cup Accepted(c)
    BY DEF Intended
  \* a request of the application about p
  <2>9. CASE c.req # Ctl /\ p \in Names(c)
    <3>1. p \in Range(props)
      BY <1>1, <2>6, <2>9 DEF Settled, ValueInv, Together
    <3>2. ~Pending(Other(t), p) /\ ~(yield.pc \in {"delta", "reply"} /\ p \in yield.desired)
      BY <2>6, <2>9 DEF Strayed, Overlap
    <3>3. reported'[p] = Value(c, p)
      BY <2>7, <2>8, <2>9 DEF Intended
    <3>4. yield' = yield /\ yield'.pc = yield.pc /\ ~Passed(p)'
      BY <1>6, <1>7, <2>9, <3>2 DEF Passed
    <3>5. ~Pending(Other(t), p)'
      BY <1>5, <3>2
    <3>6. Pending(t, p)' => reported'[p] = IF call'[t].method \in Deleting THEN "null" ELSE "dev"
      BY <2>3, <2>4, <3>3 DEF Value
    <3>7. ~Pending(t, p)' => local'[p] = reported'[p]
      BY <1>1, <2>4, <2>9, <3>3 DEF Value, Deleting
    <3>9. \A u \in Thread : Pending(u, p)' =>
             /\ ~Pending(Other(u), p)' /\ ~Passed(p)'
             /\ reported'[p] = IF call'[u].method \in Deleting THEN "null" ELSE "dev"
      BY <1>3, <3>4, <3>5, <3>6
    <3>10. yield'.pc = "reply" => (p \in call'["yield"].props <=> p \in yield'.desired \cap Hold)
      <4>1. CASE t = "yield"
        BY <1>1, <2>9, <3>4, <4>1 DEF ListInv, Calls
      <4>2. CASE t # "yield"
        BY <1>2, <2>9, <3>2, <3>4, <4>2, <1>3 DEF ListInv, Calls, Thread
      <4> QED
        BY <4>1, <4>2
    <3> QED
      BY <1>1, <1>3, <3>1, <3>4, <3>7, <3>9, <3>10 DEF Together, Taken
  \* a request of the application that does not name p
  <2>10. CASE c.req # Ctl /\ p \notin Names(c)
    <3>1. Together(p) /\ p \notin DOMAIN as
      BY <1>1, <2>6, <2>8, <2>10 DEF Settled, Accepted, ValueInv
    <3>2. \A u \in Thread : /\ Pending(u, p)' <=> Pending(u, p)
                            /\ Pending(u, p) => call'[u].method = call[u].method
      BY <1>2, <1>3, <1>4, <1>5, <2>3, <2>4, <2>10
    <3>3. yield' = yield /\ (yield.pc = "reply" => call'["yield"] = call["yield"])
      BY <1>1, <1>2, <1>6, <2>10, <1>3 DEF ListInv, Calls, Thread
    <3>4. reported'[p] = reported[p]
      BY <2>5, <3>1
    <3> QED
      BY <1>1, <1>7, <2>10, <3>1, <3>2, <3>3, <3>4, TogetherKept DEF Together
  \* the reply
  <2>11. CASE c.req = Ctl
    <3>1. /\ Together(p) /\ p \in Range(props) /\ t = "yield" /\ yield.pc = "reply"
          /\ c.props \subseteq yield.desired /\ c.method \in Replies /\ ~Passed(p)'
          /\ yield'.pc = "replied"
      BY <1>1, <1>6, <1>7, <2>6, <2>11 DEF Settled, ValueInv, Together
    <3>2. Passed(p) <=> p \in yield.desired
      BY <1>6, <2>11, EmptyFacts DEF Passed
    <3>3. Names(c) = c.props /\ Accepted(c) = yield.desired \ c.props
      BY <2>11, <3>1 DEF Names, Accepted, Replies
    <3>4. p \in c.props <=> p \in yield.desired \cap Hold
      BY <3>1 DEF Together
    <3>5. local'[p] = local[p]
      BY <1>1
    <3>6. CASE p \in c.props
      <4>1. reported'[p] = Value(c, p)
        BY <2>7, <2>8, <3>3, <3>6 DEF Intended
      <4>2. ~Pending(Other(t), p)'
        BY <1>3, <1>5, <3>1, <3>2, <3>6 DEF Together
      <4>3. Pending(t, p)' => reported'[p] = IF call'[t].method \in Deleting THEN "null" ELSE "dev"
        BY <2>3, <2>4, <4>1 DEF Value
      <4>4. ~Pending(t, p)' => local'[p] = reported'[p]
        BY <2>4, <3>3, <3>5, <3>6, <4>1 DEF Value, Deleting
      <4>5. \A u \in Thread : Pending(u, p)' =>
               /\ ~Pending(Other(u), p)' /\ ~Passed(p)'
               /\ reported'[p] = IF call'[u].method \in Deleting THEN "null" ELSE "dev"
        BY <1>3, <3>1, <4>2, <4>3
      <4> QED
        BY <1>1, <1>3, <3>1, <4>4, <4>5 DEF Together, Taken
    <3>7. CASE p \notin c.props /\ p \in yield.desired
      <4>1. reported'[p] = "cloud"
        BY <2>7, <2>8, <3>3, <3>7 DEF Intended
      <4>2. local[p] = "cloud"
        BY <3>1, <3>2, <3>4, <3>7 DEF Together, Taken
      <4>3. \A u \in Thread : ~Pending(u, p)'
        BY <1>3, <1>5, <2>4, <3>1, <3>2, <3>3, <3>7 DEF Together
      <4> QED
        BY <1>1, <3>1, <3>5, <4>1, <4>2, <4>3 DEF Together, Taken
    <3>8. CASE p \notin yield.desired
      <4>1. p \notin DOMAIN as /\ p \notin Names(c)
        BY <2>8, <3>1, <3>3, <3>8
      <4>2. reported'[p] = reported[p]
        BY <2>5, <4>1
      <4>3. \A u \in Thread : /\ Pending(u, p)' <=> Pending(u, p)
                              /\ Pending(u, p) => call'[u].method = call[u].method
        BY <1>2, <1>3, <1>4, <1>5, <2>3, <2>4, <4>1
      <4> QED
        BY <1>1, <3>1, <3>2, <3>5, <3>8, <4>2, <4>3, TogetherKept
    <3> QED
      BY <3>6, <3>7, <3>8
  <2> QED
    BY <2>9, <2>10, <2>11
<1>9. CASE /\ odd' = IF c.req = Ctl THEN odd \cup yield.desired ELSE odd
           /\ call' = [call EXCEPT ![t] = NoCall]
           /\ UNCHANGED reported
  <2> SUFFICES ASSUME life = "up", NEW p \in Property \ odd' PROVE Together(p)'
    BY <1>1 DEF ValueInv
  <2>1. Together(p) /\ p \in Range(props)
    BY <1>9 DEF ValueInv, Together
  <2>2. \A u \in Thread : /\ Pending(u, p)' <=> Pending(u, p)
                          /\ Pending(u, p) => call'[u].method = call[u].method
    <3>1. call'[t].pc # "update"
      BY <1>9, TypeFacts DEF NoCall
    <3>2. ~Pending(t, p)'
      BY <3>1 DEF Pending
    <3> QED
      BY <1>2, <1>3, <1>4, <1>5, <3>2
  <2>3. Passed(p)' <=> Passed(p)
    BY <1>7, <1>9 DEF Passed
  <2>4. yield'.pc = "reply" => /\ yield.pc = "reply" /\ yield'.desired = yield.desired
                               /\ call'["yield"].props = call["yield"].props
    BY <1>1, <1>2, <1>6, <1>3 DEF ListInv, Calls, Thread
  <2> QED
    BY <1>1, <1>9, <2>1, <2>2, <2>3, <2>4, TogetherKept
<1> QED
  BY <1>8, <1>9 DEF PublishRequest

\* A desired value is handed to its property's callback, or the callback returns.
LEMMA ValueProperty ==
    ASSUME TypeOK, ListInv, ValueInv,
           PropertyCallback \/ (CallbackReturns /\ yield.pc = "delta")
    PROVE  ValueInv'
<1> USE DEF requests, values, server
<1>1. /\ yield.pc = "delta" /\ yield.todo # <<>> /\ yield.todo \in Seq(Property)
      /\ Range(Front(yield.todo)) = Range(yield.todo) \ {Current}
      /\ Current \in Property /\ Current \in Range(yield.todo)
      /\ UNCHANGED <<life, props, reported, call>> /\ call["yield"].pc = "idle"
      /\ local \in Content /\ yield \in Place
  <2>1. /\ yield.pc = "delta" /\ yield.todo # <<>> /\ UNCHANGED <<life, props, reported, call>>
    BY DEF PropertyCallback, CallbackReturns, ListInv, Within
  <2>2. yield.todo \in Seq(Property) /\ IsInjective(yield.todo)
    BY <2>1 DEF ListInv, Iterators
  <2>3. call["yield"].pc = "idle"
    BY <2>1 DEF PropertyCallback, CallbackReturns, ListInv, Calls, NoCall
  <2> QED
    BY <2>1, <2>2, <2>3, FrontFacts, TypeFacts DEF Current
<1>2. \A t \in Thread, p \in Property :
         /\ Pending(t, p)' <=> Pending(t, p)
         /\ Pending(t, p) => t = "app" /\ call'[t].method = call[t].method
  BY <1>1 DEF Pending, Names, Thread
<1>3. Range(yield'.todo) \subseteq Range(yield.todo) /\ yield'.pc = "delta" /\ yield'.desired = yield.desired
  BY <1>1 DEF PropertyCallback, CallbackReturns, NextNode, Place
<1> SUFFICES ASSUME life = "up", NEW p \in Property \ odd' PROVE Together(p)'
  BY <1>1 DEF ValueInv
<1>4. p \notin odd /\ Together(p)
  BY <1>1 DEF PropertyCallback, CallbackReturns, ValueInv
<1>5. p \in Range(props')
  BY <1>1, <1>4 DEF Together
<1>6. CASE CallbackReturns \/ Current \notin yield.desired
  <2>1. /\ UNCHANGED <<local, odd>> /\ yield' = NextNode
        /\ Current \in yield.desired => yield.within
    BY <1>1, <1>6 DEF PropertyCallback, CallbackReturns
  <2>2. yield'.todo = Front(yield.todo) /\ yield'.within = FALSE
    BY <1>1, <2>1 DEF NextNode, Place
  <2>3. Passed(p)' <=> Passed(p)
    BY <1>1, <1>3, <2>1, <2>2 DEF Passed
  <2> QED
    BY <1>1, <1>2, <1>3, <1>4, <1>5, <2>1, <2>3, TogetherKept
<1>7. CASE PropertyCallback /\ Current \in yield.desired
  <2>1. /\ yield' = [yield EXCEPT !.within = TRUE] /\ ~yield.within
        /\ IF Current \in Hold
             THEN local' \in {local, [local EXCEPT ![Current] = "dev"]}
             ELSE local' \in IOT_Shadow_Direct_Update_Value(Current)
        /\ odd' = odd \cup {q \in {Current} : Pending("app", q) \/ (q \notin Hold /\ local'[q] # "cloud")}
    BY <1>7 DEF PropertyCallback
  <2>2. /\ yield'.todo = yield.todo /\ yield'.within = TRUE
    BY <1>1, <2>1 DEF Place
  <2>3. Current' = Current
    BY <2>2 DEF Current
  <2>4. CASE p = Current
    <3>1. ~Pending("app", p) /\ (p \notin Hold => local'[p] = "cloud")
      BY <1>4, <2>1, <2>4
    <3>2. \A t \in Thread : ~Pending(t, p)'
      BY <1>2, <3>1
    <3>3. Passed(p)'
      BY <1>3, <1>7, <2>2, <2>3, <2>4 DEF Passed
    <3> QED
      BY <1>3, <1>5, <3>1, <3>2, <3>3 DEF Together, Taken
  <2>5. CASE p # Current
    <3>1. local'[p] = local[p]
      BY <1>1, <2>1, <2>5 DEF IOT_Shadow_Direct_Update_Value, Content
    <3>2. Passed(p)' <=> Passed(p)
      BY <1>1, <1>3, <2>1, <2>2, <2>3, <2>5 DEF Passed
    <3> QED
      BY <1>1, <1>2, <1>3, <1>4, <1>5, <3>1, <3>2, TogetherKept
  <2> QED
    BY <2>4, <2>5
<1> QED
  BY <1>6, <1>7

\* The local values follow a request.
LEMMA ValueUpdate ==
    ASSUME TypeOK, ListInv, ValueInv, NEW t \in Thread, UpdateLocal(t)
    PROVE  ValueInv'
<1> USE DEF requests, server
<1> DEFINE c == call[t]
<1>1. /\ c.pc = "update" /\ local' = uiot_shadow_update_property(c)
      /\ call' = [call EXCEPT ![t] = NoCall] /\ call'[t] = NoCall
      /\ \A u \in Thread : u # t => call'[u] = call[u]
      /\ UNCHANGED <<life, props, reported, odd, yield>>
  BY TypeFacts DEF UpdateLocal
<1>2. Other(t) \in Thread /\ Other(t) # t /\ Thread = {t, Other(t)} /\ Other(Other(t)) = t
  BY DEF Other, Thread
<1> SUFFICES ASSUME life = "up", NEW p \in Property \ odd PROVE Together(p)'
  BY <1>1 DEF ValueInv
<1>3. Together(p) /\ p \in Range(props)
  BY DEF ValueInv, Together
<1>4. local'[p] = IF p \in Names(c) THEN Value(c, p) ELSE local[p]
  BY <1>1, <1>3 DEF uiot_shadow_update_property
<1>5. ~Pending(t, p)'
  BY <1>1 DEF Pending, NoCall
<1>6. Pending(Other(t), p)' <=> Pending(Other(t), p)
  BY <1>1, <1>2 DEF Pending, Names
<1>7. Passed(p)' <=> Passed(p)
  BY <1>1 DEF Passed, Current
<1>8. yield.pc = "reply" => t # "yield" /\ call'["yield"] = call["yield"]
  BY <1>1 DEF ListInv, Calls, Thread
<1>9. CASE Pending(t, p)
  <2>1. /\ ~Pending(Other(t), p) /\ ~Passed(p) /\ p \in Names(c) /\ c.method # "REPLY_CONTROL_UPDATE"
        /\ reported[p] = IF c.method \in Deleting THEN "null" ELSE "dev"
    BY <1>3, <1>9 DEF Together, Pending
  <2>2. local'[p] = reported'[p]
    BY <1>1, <1>4, <2>1 DEF Value
  <2>3. yield'.pc = "reply" => (p \in call'["yield"].props <=> p \in yield'.desired \cap Hold)
    BY <1>1, <1>3, <1>8 DEF Together
  <2>4. \A u \in Thread : ~Pending(u, p)'
    BY <1>2, <1>5, <1>6, <2>1
  <2> QED
    BY <1>1, <1>3, <1>7, <2>1, <2>2, <2>3, <2>4 DEF Together, Taken
<1>10. CASE ~Pending(t, p)
  <2>1. local'[p] = local[p]
    BY <1>1, <1>4, <1>10 DEF Pending, Value, Deleting
  <2>2. \A u \in Thread : /\ Pending(u, p)' <=> Pending(u, p)
                          /\ Pending(u, p) => call'[u].method = call[u].method
    BY <1>1, <1>2, <1>5, <1>6, <1>10
  <2> QED
    BY <1>1, <1>3, <1>7, <1>8, <2>1, <2>2, TogetherKept
<1> QED
  BY <1>9, <1>10

\* Where a traversal begins.
LEMMA StartFacts ==
    ASSUME NEW pc, NEW ack, StartTraverse(pc, ack)
    PROVE  yield'.pc = pc
BY DEF StartTraverse, AtRest

\* Every step keeps the values of a property together.
LEMMA ValueNext ==
    ASSUME TypeOK, ListInv, ValueInv, [Next]_vars
    PROVE  ValueInv'
<1> USE DEF requests, values, server
<1>1. CASE \/ _handle_request_callback \/ _handle_expired_request_callback
           \/ (CallbackReturns /\ yield.pc # "delta")
  <2>1. /\ UNCHANGED <<life, props, local, reported, odd, call>> /\ Traversing
        /\ \/ yield' = NextNode
           \/ yield' = [yield EXCEPT !.within = TRUE]
    BY <1>1 DEF _handle_request_callback, _handle_expired_request_callback, CallbackReturns,
       RequestCallback, RemoveCurrent, Traversing
  <2>2. yield'.pc = yield.pc
    BY <2>1, TypeFacts DEF NextNode, Place
  <2> QED
    BY <2>1, <2>2, ValuesKept DEF Traversing
<1>2. CASE _handle_expired_request \/ EndTraverse \/ ReplyDone
  <2>1. /\ UNCHANGED <<life, props, local, reported, odd, call>>
        /\ yield.pc \notin {"delta", "reply"} /\ yield'.pc \notin {"delta", "reply"}
    BY <1>2, StartFacts DEF _handle_expired_request, EndTraverse, ReplyDone, AtRest
  <2> QED
    BY <2>1, ValuesKept
<1>3. CASE NullPropertyCallback \/ (\E t \in Thread : OverrunDocument(t)) \/ IOT_Shadow_Destroy
  BY <1>3 DEF NullPropertyCallback, OverrunDocument, IOT_Shadow_Destroy, ValueInv
<1>4. CASE AddReply
  <2>1. /\ yield.pc = "delta" /\ yield.todo = <<>> /\ yield' = [yield EXCEPT !.pc = "reply"]
        /\ call' = [call EXCEPT !["yield"] = [pc |-> "publish", req |-> Ctl, method |-> yield.method,
                                             props |-> yield.desired \cap Hold \cap Range(props)]]
        /\ UNCHANGED <<life, props, local, reported, odd>>
    BY <1>4 DEF AddReply
  <2>2. /\ yield'.pc = "reply" /\ yield'.desired = yield.desired /\ yield'.todo = yield.todo
        /\ yield'.within = yield.within /\ ~yield.within /\ call["yield"].pc = "idle"
    BY <2>1, TypeFacts DEF Place, ListInv, Within, Calls
  <2>3. /\ call'["yield"].pc = "publish" /\ call'["app"] = call["app"]
        /\ call'["yield"].props = yield.desired \cap Hold \cap Range(props)
    BY <2>1, TypeFacts DEF Thread
  <2> SUFFICES ASSUME life = "up", NEW p \in Property \ odd PROVE Together(p)'
    BY <2>1 DEF ValueInv
  <2>4. Together(p) /\ p \in Range(props)
    BY DEF ValueInv, Together
  <2>5. Passed(p)' <=> Passed(p)
    BY <2>1, <2>2 DEF Passed
  <2>6. \A t \in Thread : Pending(t, p)' <=> Pending(t, p)
    BY <2>2, <2>3 DEF Pending, Names, Thread
  <2>7. \A t \in Thread : Pending(t, p) => call'[t] = call[t]
    BY <2>2, <2>3 DEF Pending, Thread
  <2>8. "app" \in Thread /\ "yield" \in Thread /\ \A t \in Thread : Other(t) \in Thread
    BY DEF Thread, Other
  <2>9. \A t \in Thread : Pending(t, p)' =>
           /\ ~Pending(Other(t), p)' /\ ~Passed(p)'
           /\ reported'[p] = IF call'[t].method \in Deleting THEN "null" ELSE "dev"
    BY <2>1, <2>4, <2>5, <2>6, <2>7, <2>8 DEF Together
  <2> QED
    BY <2>1, <2>2, <2>3, <2>4, <2>5, <2>6, <2>9 DEF Together, Taken
<1>5. ASSUME NEW m \in Message, Receive(m)
      PROVE  ValueInv'
  <2>1. yield.pc = "idle" /\ UNCHANGED <<life, props, local, reported, odd, call>>
    BY <1>5 DEF Receive
  <2>2. \/ yield'.pc \notin {"delta", "reply"}
        \/ yield'.pc = "delta" /\ yield'.todo = props /\ yield'.within = FALSE
    BY <1>5, <2>1, StartFacts DEF Receive
  <2>3. CASE yield'.pc = "delta" /\ yield'.todo = props /\ yield'.within = FALSE
    <3> SUFFICES ASSUME life = "up", NEW p \in Property \ odd PROVE Together(p)'
      BY <2>1 DEF ValueInv
    <3>1. Together(p) /\ p \in Range(props)
      BY DEF ValueInv, Together
    <3>2. ~Passed(p)' /\ ~Passed(p)
      BY <2>1, <2>3, <3>1 DEF Passed
    <3>3. \A t \in Thread : Pending(t, p)' <=> Pending(t, p)
      BY <2>1 DEF Pending
    <3> QED
      BY <2>1, <2>3, <3>1, <3>2, <3>3, TogetherKept
  <2> QED
    BY <2>1, <2>2, <2>3, ValuesKept
<1>6. ASSUME NEW t \in Thread, NEW r \in Request, NEW method \in AppMethod,
             NEW named \in {{}} \cup {{p} : p \in Property}, BeginRequest(t, r, method, named)
      PROVE  ValueInv'
  <2>1. /\ call[t] = NoCall /\ call'[t].pc = "publish" /\ (\A u \in Thread : u # t => call'[u] = call[u])
        /\ UNCHANGED <<life, props, local, reported, odd, yield>>
        /\ IF t = "yield" THEN yield.within ELSE TRUE
    BY <1>6, TypeFacts DEF BeginRequest
  <2> SUFFICES ASSUME life = "up", NEW p \in Property \ odd PROVE Together(p)'
    BY <2>1 DEF ValueInv
  <2>2. Together(p) /\ p \in Range(props)
    BY DEF ValueInv, Together
  <2>3. \A u \in Thread : /\ Pending(u, p)' <=> Pending(u, p)
                          /\ Pending(u, p) => call'[u] = call[u]
    BY <2>1 DEF Pending, Names, NoCall
  <2>4. Passed(p)' <=> Passed(p)
    BY <2>1 DEF Passed, Current
  <2>5. yield.pc = "reply" => call'["yield"] = call["yield"]
    BY <2>1 DEF ListInv, Within, Thread
  <2> QED
    BY <2>1, <2>2, <2>3, <2>4, <2>5, TogetherKept
<1>7. ASSUME NEW q \in Property, IOT_Shadow_Register_Property(q) \/ IOT_Shadow_UnRegister_Property(q)
      PROVE  ValueInv'
  <2>1. /\ UNCHANGED <<life, local, reported, call, yield>>
        /\ odd \subseteq odd' /\ \A p \in Property \ odd' : p \in Range(props) => p \in Range(props')
    <3>1. CASE IOT_Shadow_Register_Property(q)
      <4>1. props' = Append(props, q) /\ q \notin Range(props)
        BY <3>1 DEF IOT_Shadow_Register_Property
      <4>2. Range(props') = Range(props) \cup {q}
        BY <4>1, AppendFacts, TypeFacts
      <4> QED
        BY <3>1, <4>2 DEF IOT_Shadow_Register_Property
    <3>2. CASE IOT_Shadow_UnRegister_Property(q)
      <4>1. props' = RemoveFirst(props, q) /\ q \in Range(props) /\ odd' = odd \cup {q}
        BY <3>2 DEF IOT_Shadow_UnRegister_Property
      <4>2. Range(props') = Range(props) \ {q}
        BY <4>1, RemoveFacts, TypeFacts
      <4> QED
        BY <3>2, <4>1, <4>2 DEF IOT_Shadow_UnRegister_Property
    <3> QED
      BY <1>7, <3>1, <3>2
  <2> SUFFICES ASSUME life = "up", NEW p \in Property \ odd' PROVE Together(p)'
    BY <2>1 DEF ValueInv
  <2>2. Together(p) /\ p \in Range(props')
    BY <2>1 DEF ValueInv, Together
  <2>3. \A u \in Thread : Pending(u, p)' <=> Pending(u, p)
    BY <2>1 DEF Pending
  <2>4. Passed(p)' <=> Passed(p)
    BY <2>1 DEF Passed, Current
  <2> QED
    BY <2>1, <2>2, <2>3, <2>4, TogetherKept
<1>8. CASE UNCHANGED vars
  BY <1>8, ValuesKept DEF vars
<1>9. ASSUME NEW t \in Thread, CallStep(t)
      PROVE  ValueInv'
  BY <1>3, <1>9, ValuePublish, ValueUpdate DEF CallStep
<1> QED
  BY <1>1, <1>2, <1>3, <1>4, <1>5, <1>6, <1>7, <1>8, <1>9, ValueProperty
     DEF Next, YieldThread, AppThread, Thread

\* Whatever the requests, the messages, the callbacks and the order of the two
\* threads' steps: between calls a property has locally the value it last
\* reported, unless its exchanges overlapped, a desired value was not stored, its
\* part of a document was lost, the reply failed, or it was unregistered for a
\* time, and no request about it has been published since
\* (uiot_shadow_make_request, _handle_delta).
THEOREM LocalMatchesReportedHolds == Spec => []LocalMatchesReported
<1>1. Init => ValueInv
  <2> SUFFICES ASSUME Init PROVE ValueInv
    OBVIOUS
  <2>1. Range(props) = Property
    BY SetToSeqFacts, ShadowAssumption DEF Init
  <2> QED
    BY <2>1 DEF Init, ValueInv, Together, NoCall, AtRest, Pending, Passed, Taken, Thread
<1>2. TypeOK /\ ListInv /\ ValueInv /\ [Next]_vars => ValueInv'
  BY ValueNext
<1>3. ValueInv => LocalMatchesReported
  BY DEF ValueInv, Together, LocalMatchesReported, NoCall, Pending, Passed, Taken, Thread
<1> QED
  BY <1>1, <1>2, <1>3, ListInvariant, PTL DEF Spec
-----------------------------------------------------------------------------
(* request_list implements ShadowRequests *)

\* A list has no more elements than nodes.
LEMMA CardinalityOfList ==
    ASSUME NEW S, NEW s \in Seq(S)
    PROVE  IsFiniteSet(Range(s)) /\ Cardinality(Range(s)) \in Nat /\ Cardinality(Range(s)) <= Len(s)
<1>1. Len(s) \in Nat /\ IsFiniteSet(1 .. Len(s)) /\ Cardinality(1 .. Len(s)) = Len(s)
  <2>1. Len(s) \in Nat
    OBVIOUS
  <2> QED
    BY <2>1, FS_Interval
<1>2. s \in Surjection(1 .. Len(s), Range(s))
  BY DEF Surjection, Range
<1>3. IsFiniteSet(Range(s)) /\ Cardinality(Range(s)) <= Len(s)
  BY <1>1, <1>2, FS_Surjection
<1> QED
  BY <1>3, FS_CardinalityType

\* A step that changes neither the listed requests nor what they were told.
LEMMA StatusKept ==
    ASSUME TypeOK, told' = told, \A r \in Request : told[r] = "idle" => (r \in Listed' <=> r \in Listed),
           life' = "crashed" <=> life = "crashed"
    PROVE  Status' = Status
BY DEF Status

\* A program that crashes answers none of the open requests.
LEMMA StatusCrash ==
    ASSUME TypeOK, life # "crashed", life' = "crashed", UNCHANGED <<told, list>>
    PROVE  Requests!Destroy
<1>1. \A r \in Request : r \in Requests!Open <=> r \in Listed /\ told[r] = "idle"
  BY DEF Requests!Open, Status, TypeOK
<1>2. Listed' = Listed
  BY DEF Listed
<1>3. Status' = [r \in Request |-> IF r \in Requests!Open THEN "dropped" ELSE Status[r]]
  BY <1>1, <1>2 DEF Status
<1> QED
  BY <1>3 DEF Requests!Destroy

\* A callback is told the answer.
LEMMA StatusTell ==
    ASSUME TypeOK, ListInv, Traversing, yield.todo # <<>>, ~yield.within, life # "crashed",
           NEW ack \in {"accepted", "rejected", "timeout"}, RequestCallback(ack)
    PROVE  Requests!Next \/ Status' = Status
<1>1. Current \in Node /\ Current \in Listed
  BY CurrentFacts
<1>2. CASE Current = Ctl /\ RemoveCurrent
  <2>1. Listed' = Listed \ {Ctl} /\ UNCHANGED <<told, life>>
    BY <1>1, <1>2, RemoveFacts, TypeFacts DEF RemoveCurrent, Listed
  <2> QED
    BY <2>1, StatusKept, ShadowAssumption
<1>3. CASE Current # Ctl /\ told' = [told EXCEPT ![Current] = ack] /\ UNCHANGED <<life, list>>
  <2>1. Current \in Request /\ told[Current] = "idle" /\ Listed' = Listed
    BY <1>1, <1>3 DEF Node, ListInv, OnList, Listed
  <2>2. Status[Current] = "open"
    BY <1>1, <2>1 DEF Status
  <2>3. Status'[Current] = ack /\ \A r \in Request : r # Current => Status'[r] = Status[r]
    BY <1>3, <2>1, TypeFacts DEF Status
  <2>4. Status' = [Status EXCEPT ![Current] = ack]
    BY <2>1, <2>3 DEF Status
  <2>5. Requests!Answer(Current)
    BY <2>2, <2>4 DEF Requests!Answer, Requests!Answers
  <2> QED
    BY <2>1, <2>5 DEF Requests!Next
<1> QED
  BY <1>2, <1>3 DEF RequestCallback

\* A request is listed, or is not tracked.
LEMMA StatusBegin ==
    ASSUME TypeOK, ListInv, NEW t \in Thread, NEW r \in Request, NEW method, NEW named,
           BeginRequest(t, r, method, named)
    PROVE  Requests!Next
<1>1. /\ told[r] = "idle" /\ r \notin Listed /\ life = "up" /\ life' = life
      /\ list' = shadow_add_request_to_list(list, r)
      /\ told' = [told EXCEPT ![r] = IF r \in Range(list') THEN told[r] ELSE "untracked"]
  BY DEF BeginRequest
<1>2. told \in [Request -> Outcome] /\ list \in Seq(Node)
  BY TypeFacts
<1>3. Status[r] = "idle"
  BY <1>1 DEF Status
<1>4. \/ Listed' = Listed \cup {r} /\ Len(list) < MaxRequest
      \/ Listed' = Listed
  BY <1>1, AddFacts DEF Node, Listed
<1>5. \A q \in Request : q # r => Status'[q] = Status[q]
  BY <1>1, <1>2, <1>4 DEF Status
<1>6. Status' = [Status EXCEPT ![r] = Status'[r]]
  BY <1>5 DEF Status
<1>7. CASE Listed' = Listed
  <2>1. Status'[r] = "untracked"
    BY <1>1, <1>2, <1>7 DEF Status, Listed
  <2>2. Requests!NotTracked(r)
    BY <1>3, <1>6, <2>1 DEF Requests!NotTracked
  <2> QED
    BY <2>2 DEF Requests!Next
<1>8. CASE Listed' = Listed \cup {r} /\ Len(list) < MaxRequest
  <2>1. Status'[r] = "open"
    BY <1>1, <1>2, <1>8 DEF Status, Listed
  <2>2. Requests!Open \subseteq Listed
    BY DEF Requests!Open, Status, TypeOK
  <2>3. IsFiniteSet(Listed) /\ Cardinality(Listed) \in Nat /\ Cardinality(Listed) <= Len(list)
    BY <1>2, CardinalityOfList DEF Listed
  <2>4. Cardinality(Requests!Open) \in Nat /\ Cardinality(Requests!Open) <= Cardinality(Listed)
    BY <2>2, <2>3, FS_Subset, FS_CardinalityType
  <2>5. Cardinality(Requests!Open) < MaxRequest
    <3>1. Len(list) \in Nat /\ MaxRequest \in Nat
      BY <1>2, ShadowAssumption
    <3> QED
      BY <1>8, <2>3, <2>4, <3>1
  <2>6. Requests!Cardinality(Requests!Open) = Cardinality(Requests!Open)
    BY DEF Requests!Cardinality, Cardinality
  <2>7. Requests!Track(r)
    BY <1>3, <1>6, <2>1, <2>5, <2>6 DEF Requests!Track
  <2> QED
    BY <2>7 DEF Requests!Next
<1> QED
  BY <1>4, <1>7, <1>8

\* Every step of Shadow is a step of ShadowRequests or leaves the status alone.
LEMMA RefinementNext ==
    ASSUME TypeOK, ListInv, [Next]_vars
    PROVE  Requests!Next \/ Status' = Status
<1> USE DEF requests, values, server
<1>1. CASE life # "crashed" /\ (_handle_request_callback \/ _handle_expired_request_callback)
  <2>1. yield.ack \in {"accepted", "rejected", "timeout"}
    BY DEF TypeOK
  <2>2. Traversing /\ yield.todo # <<>> /\ ~yield.within
    BY <1>1 DEF _handle_request_callback, _handle_expired_request_callback, Traversing
  <2>3. UNCHANGED <<told, list, life>> => Status' = Status
    BY StatusKept DEF Listed
  <2> QED
    BY <1>1, <2>1, <2>2, <2>3, StatusTell DEF _handle_request_callback, _handle_expired_request_callback
<1>2. CASE CallbackReturns
  <2>1. CASE Traversing /\ RemoveCurrent
    <3>1. yield.todo # <<>> /\ Current \in Listed /\ Current \in Request /\ told[Current] # "idle"
      BY <1>2, <2>1, CurrentFacts DEF CallbackReturns, ListInv, Within
    <3>2. Listed' = Listed \ {Current} /\ UNCHANGED <<told, life>>
      BY <2>1, <3>1, RemoveFacts, TypeFacts DEF RemoveCurrent, Listed
    <3> QED
      BY <3>1, <3>2, StatusKept
  <2>2. CASE UNCHANGED <<told, list, life>>
    BY <2>2, StatusKept DEF Listed
  <2> QED
    BY <1>2, <2>1, <2>2 DEF CallbackReturns, Traversing
<1>3. CASE life # "crashed" /\ (NullPropertyCallback \/ \E t \in Thread : OverrunDocument(t))
  BY <1>3, StatusCrash DEF NullPropertyCallback, OverrunDocument, Requests!Next
<1>4. CASE IOT_Shadow_Destroy
  <2>1. /\ told' = [r \in Request |-> IF r \in Listed THEN "dropped" ELSE told[r]]
        /\ Listed' = {} /\ life = "up" /\ life' = "down" /\ yield.pc = "idle"
    BY <1>4, EmptyFacts DEF IOT_Shadow_Destroy, Listed
  <2>2. \A r \in Request : r \in Listed => told[r] = "idle"
    BY <2>1 DEF ListInv, OnList, Traversing
  <2>3. \A r \in Request : r \in Requests!Open <=> r \in Listed
    BY <2>1, <2>2 DEF Requests!Open, Status, TypeOK
  <2>4. \A r \in Request : Status'[r] = IF r \in Requests!Open THEN "dropped" ELSE Status[r]
    BY <2>1, <2>3 DEF Status
  <2>5. Requests!Destroy
    BY <2>4 DEF Requests!Destroy, Status
  <2> QED
    BY <2>5 DEF Requests!Next
<1>5. CASE AddReply
  <2>1. /\ Ctl \notin Listed /\ told' = told /\ life' = life
        /\ list' = shadow_add_request_to_list(list, Ctl)
    BY <1>5 DEF AddReply, ListInv, OnList
  <2>2. Listed' = Listed \cup {Ctl} \/ Listed' = Listed
    BY <2>1, AddFacts DEF Node, Listed
  <2> QED
    BY <2>1, <2>2, StatusKept, ShadowAssumption
<1>6. CASE \/ _handle_expired_request \/ EndTraverse \/ PropertyCallback \/ ReplyDone
           \/ (\E t \in Thread : PublishRequest(t) \/ UpdateLocal(t))
           \/ (\E p \in Property : IOT_Shadow_Register_Property(p) \/ IOT_Shadow_UnRegister_Property(p))
           \/ (\E m \in Message : Receive(m)) \/ UNCHANGED vars
  <2>1. told' = told /\ list' = list /\ life' = life
    BY <1>6 DEF _handle_expired_request, EndTraverse, PropertyCallback, ReplyDone, PublishRequest,
       UpdateLocal, IOT_Shadow_Register_Property, IOT_Shadow_UnRegister_Property, Receive, vars
  <2> QED
    BY <2>1, StatusKept DEF Listed
<1> QED
  BY <1>1, <1>2, <1>3, <1>4, <1>5, <1>6, StatusBegin DEF Next, YieldThread, AppThread, CallStep, Thread

\* For any requests and any limit: every request that was listed is answered at
\* most once and by an answer, the destruction of the shadow or a crash, none is
\* open unless there was room for it, and an answered request stays answered:
\* request_list implements the safety part of ShadowRequests.
THEOREM Refinement == Spec => Requests!Safety
<1>1. Init => Requests!Init
  <2> SUFFICES ASSUME Init PROVE Status = [r \in Request |-> "idle"]
    BY DEF Requests!Init
  <2>1. Listed = {} /\ told = [r \in Request |-> "idle"]
    BY EmptyFacts DEF Init, Listed
  <2> QED
    BY <2>1 DEF Status
<1>2. TypeOK /\ ListInv /\ [Next]_vars => [Requests!Next]_Status
  BY RefinementNext
<1> QED
  BY <1>1, <1>2, ListInvariant, PTL DEF Spec, Requests!Safety
=============================================================================
