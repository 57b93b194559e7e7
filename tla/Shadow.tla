------------------------------- MODULE Shadow -------------------------------
(***************************************************************************)
(* The device shadow (uiot/shadow).  The yield thread runs IOT_Shadow_Yield: *)
(* it expires requests, then receives messages, whose handlers traverse    *)
(* request_list under request_mutex and property_list under                *)
(* property_mutex and call the application.  An application thread makes   *)
(* requests and registers properties meanwhile, and the callbacks of the   *)
(* yield thread make requests too: the mutexes are recursive, so that one  *)
(* held by the yield thread does not stop the calls its callbacks make.    *)
(*                                                                         *)
(* A value is abstracted to who set it: "dev", "cloud", "null" (after a    *)
(* delete), or "other" for a part of a value.  The version number is left  *)
(* out: it is copied from each message and sent back, and nothing else     *)
(* reads it.  A step of undefined behaviour makes life "crashed", and what *)
(* follows is not described.                                               *)
(***************************************************************************)
EXTENDS Integers, Sequences, SequencesExt

CONSTANTS
    Request,    \* requests the application may make, each with a callback
    AppMethod,  \* their methods
    Property,   \* properties, all registered at first
    Hold,       \* those whose callback keeps the device's value
    Volatile,   \* those the application unregisters and registers again
    Desired,    \* sets of properties a message's desired state may name
    MAX_APPENDING_REQUEST_AT_ANY_GIVEN_TIME,
    MaxReceive  \* bound: messages received

MaxRequest == MAX_APPENDING_REQUEST_AT_ANY_GIVEN_TIME

Ctl == "ctl"      \* a request without callback: the reply to desired values

ASSUME ShadowAssumption ==
    /\ MaxRequest \in Nat \ {0} /\ MaxReceive \in Nat
    /\ Ctl \notin Request /\ IsFiniteSet(Property)
    /\ Hold \subseteq Property /\ Volatile \subseteq Property
    /\ Desired \subseteq SUBSET Property
    /\ AppMethod \subseteq {"GET", "UPDATE", "UPDATE_AND_RESET_VER", "DELETE", "DELETE_ALL"}

VARIABLES
    life,       \* "up" until IOT_Shadow_Destroy ("down") or undefined behaviour ("crashed")
    list,       \* request_list, the head first
    due,        \* during the expiry traversal: requests whose timer has expired
    told,       \* what each request's callback was told
    props,      \* property_list
    local,      \* the local values
    reported,   \* the values last reported to the server
    cloud_send_method,   \* what matters of it: "update", or "delete" for the deleting ones
    call,       \* each thread's call of uiot_shadow_make_request
    yield,      \* the yield thread's place in IOT_Shadow_Yield
    fresh,      \* history: requests listed since the current traversal began
    odd,        \* history: properties whose two sides may have come apart
    published,  \* requests that reached the server
    received    \* messages received

vars == <<life, list, due, told, props, local, reported, cloud_send_method, call,
          yield, fresh, odd, published, received>>

requests == <<list, due, told, fresh>>
values   == <<props, local, reported, cloud_send_method, odd>>
server   == <<published, received>>

Thread == {"app", "yield"}
Other(t) == IF t = "app" THEN "yield" ELSE "app"

Deleting == {"DELETE", "DELETE_ALL", "REPLY_CONTROL_DELETE"}
Replies == {"REPLY_CONTROL_UPDATE", "REPLY_CONTROL_DELETE"}
Kind(method) == IF method \in Deleting THEN "delete" ELSE "update"

Message ==
    [topic : {"request"}, method : {"reply"}, ret : {"0", "error"}, desired : {{}}]
      \cup [topic : {"request"}, method : {"control"}, ret : {"missing"}, desired : Desired]
      \cup [topic : {"sync"}, method : {"get_reply"}, ret : {"missing"}, desired : Desired]
      \cup [topic : {"request"}, method : {"other"}, ret : {"missing"}, desired : {{}}]

Listed == Range(list)
NoCall == [pc |-> "idle", req |-> Ctl, method |-> "GET", props |-> {}]
AtRest == [pc |-> "idle", todo |-> <<>>, within |-> FALSE, ack |-> "timeout", desired |-> {},
           method |-> "REPLY_CONTROL_UPDATE"]

\* IOT_Shadow_Construct and uiot_shadow_init, with both topics subscribed and
\* the properties registered.
Init ==
    /\ life = "up" /\ list = <<>> /\ due = {} /\ fresh = {} /\ odd = {}
    /\ told = [r \in Request |-> "idle"]
    /\ props = SetToSeq(Property)
    /\ local = [p \in Property |-> "dev"] /\ reported = local
    /\ cloud_send_method = Kind("GET")
    /\ call = [t \in Thread |-> NoCall] /\ yield = AtRest
    /\ published = {} /\ received = 0

-----------------------------------------------------------------------------
(* uiot_shadow_make_request                                                *)

RequestMutexFree(t) == t = "yield" \/ yield.pc \notin {"expire", "answer"}
\* Mutant: the property list is used without its mutex.
PropertyMutexFreeMutant(t) == TRUE
PropertyMutexFree(t) == t = "yield" \/ yield.pc # "delta"

\* Mutant: one request too many.
AddMutant(l, r) == IF Len(l) > MaxRequest THEN l ELSE Append(l, r)

\* shadow_add_request_to_list; its result is overwritten by the caller.
shadow_add_request_to_list(l, r) == IF Len(l) >= MaxRequest THEN l ELSE Append(l, r)

\* The properties a request names: all of them for DELETE_ALL, none for GET.
Names(c) == CASE c.method = "GET" -> {} [] c.method = "DELETE_ALL" -> Property [] OTHER -> c.props

\* The values a request is to report: the device's own, null when it deletes,
\* and in a reply to desired values those that were kept.
Value(c, p) ==
    CASE c.method \in Deleting -> "null"
      [] c.method = "REPLY_CONTROL_UPDATE" -> local[p]
      [] OTHER -> "dev"

\* A reply ends with "Desired":null (shadow_json_finalize): what was desired and
\* not kept counts as reported.
Accepted(c) == IF c.req = Ctl THEN yield.desired \ c.props ELSE {}
Intended(c) == [p \in Names(c) \cup Accepted(c) |-> IF p \in Names(c) THEN Value(c, p) ELSE "cloud"]

\* Documents but those of GET and DELETE_ALL are built by put_json_node.
PutsNodes(c) == c.method # "DELETE_ALL" /\ Names(c) # {}

\* What the server may make of the document (shadow_json_init, _set_content): no
\* error of put_json_node is noticed, so that properties may be missing, values
\* be cut, or the whole be unreadable.
shadow_json(c) ==
    LET as == Intended(c) IN
    {[p \in Property |-> CASE p \in lost \/ p \notin DOMAIN as -> reported[p]
                           [] p \in cut \ lost -> "other"
                           [] p \in DOMAIN as \ (lost \cup cut) -> as[p]] :
       lost \in SUBSET (IF PutsNodes(c) THEN DOMAIN as ELSE {}),
       cut \in SUBSET (IF c.method \in Deleting THEN {} ELSE Names(c))}

\* uiot_shadow_update_property: the local values follow what was published.
uiot_shadow_update_property(c) ==
    [p \in Property |-> IF p \in Names(c) \cap Range(props) THEN Value(c, p) ELSE local[p]]

\* A thread calls IOT_Shadow_Get_Sync, _Update, _Delete or _Delete_All while the
\* client is connected (otherwise they return ERR_MQTT_NO_CONN): the request is
\* listed first.  The yield thread does so in a callback.
BeginRequest(t, r, method, named) ==
    /\ life = "up" /\ call[t] = NoCall /\ told[r] = "idle" /\ r \notin Listed
    /\ IF t = "yield" THEN yield.within ELSE RequestMutexFree(t)
    /\ method \in {"GET", "DELETE_ALL"} <=> named = {}
    /\ list' = shadow_add_request_to_list(list, r)
    /\ told' = [told EXCEPT ![r] = IF r \in Range(list') THEN @ ELSE "untracked"]
    /\ fresh' = IF yield.pc \in {"expire", "answer"} THEN fresh \cup {r} ELSE fresh
    /\ call' = [call EXCEPT ![t] = [pc |-> "publish", req |-> r, method |-> method, props |-> named]]
    /\ UNCHANGED <<life, due, values, yield, server>>

\* Published, and not yet followed by the local value.
Pending(t, p) == call[t].pc = "update" /\ p \in Names(call[t])
                 /\ call[t].method # "REPLY_CONTROL_UPDATE"

\* The properties about which another exchange is under way.
Overlap(t) ==
    {p \in Names(call[t]) :
       \/ Pending(Other(t), p)
       \/ yield.pc \in {"delta", "reply"} /\ call[t].req # Ctl /\ p \in yield.desired}

\* The properties whose sides come apart, and those a request of the application
\* brings together again.
Strayed(t, document) ==
    Overlap(t) \cup {p \in DOMAIN Intended(call[t]) : document[p] # Intended(call[t])[p]}
Settled(t) == IF call[t].req = Ctl THEN {} ELSE Names(call[t]) \cap Range(props)

\* The reply was made; the call itself goes on.
Replied(t) == IF call[t].req = Ctl THEN [yield EXCEPT !.pc = "replied"] ELSE yield

\* Mutant: the local values follow although publishing failed.
PublishRequestMutant(t) ==
    /\ call[t].pc = "publish"
    /\ \/ /\ cloud_send_method' = Kind(call[t].method)
          /\ \E document \in shadow_json(call[t]) :
               /\ reported' = document
               /\ odd' = (odd \ Settled(t)) \cup Strayed(t, document)
          /\ published' = published \cup ({call[t].req} \ {Ctl})
       \/ UNCHANGED <<cloud_send_method, reported, published, odd>>
    /\ call' = [call EXCEPT ![t].pc = "update"] /\ yield' = Replied(t)
    /\ UNCHANGED <<life, requests, props, local, received>>

\* The document is built and published, or the request fails: it stays listed.
PublishRequest(t) ==
    /\ call[t].pc = "publish"
    /\ \/ /\ cloud_send_method' = Kind(call[t].method)
          /\ \E document \in shadow_json(call[t]) :
               /\ reported' = document
               /\ odd' = (odd \ Settled(t)) \cup Strayed(t, document)
          /\ published' = published \cup ({call[t].req} \ {Ctl})
          /\ call' = [call EXCEPT ![t].pc = "update"]
       \/ /\ cloud_send_method' \in {cloud_send_method, Kind(call[t].method)}
          /\ odd' = IF call[t].req = Ctl THEN odd \cup yield.desired ELSE odd
          /\ call' = [call EXCEPT ![t] = NoCall]
          /\ UNCHANGED <<reported, published>>
    /\ yield' = Replied(t)
    /\ UNCHANGED <<life, requests, props, local, received>>

\* put_json_node takes the length of the text away twice: once the text is longer
\* than half the buffer its limit wraps round, and it may write past the end.
OverrunDocument(t) ==
    /\ call[t].pc = "publish" /\ PutsNodes(call[t])
    /\ life' = "crashed"
    /\ UNCHANGED <<requests, values, call, yield, server>>

UpdateLocal(t) ==
    /\ call[t].pc = "update" /\ PropertyMutexFree(t)
    /\ local' = uiot_shadow_update_property(call[t])
    /\ call' = [call EXCEPT ![t] = NoCall]
    /\ UNCHANGED <<life, requests, props, reported, cloud_send_method, odd, yield, server>>

-----------------------------------------------------------------------------
(* Registering properties                                                  *)

IOT_Shadow_Register_Property(p) ==
    /\ life = "up" /\ call["app"] = NoCall /\ PropertyMutexFree("app") /\ p \notin Range(props)
    /\ props' = Append(props, p)
    /\ UNCHANGED <<life, requests, local, reported, cloud_send_method, odd, call, yield, server>>

IOT_Shadow_UnRegister_Property(p) ==
    /\ life = "up" /\ call["app"] = NoCall /\ PropertyMutexFree("app") /\ p \in Range(props)
    /\ p \in Volatile
    /\ props' = RemoveFirst(props, p) /\ odd' = odd \cup {p}
    /\ UNCHANGED <<life, requests, local, reported, cloud_send_method, call, yield, server>>

-----------------------------------------------------------------------------
(* _traverse_list: from the tail to the head, under request_mutex          *)

StartTraverse(pc, ack) ==
    /\ yield' = [AtRest EXCEPT !.pc = pc, !.todo = list, !.ack = ack] /\ fresh' = {}

EndTraverse ==
    /\ yield.pc \in {"expire", "answer"} /\ yield.todo = <<>>
    /\ yield' = AtRest /\ fresh' = {}
    /\ UNCHANGED <<life, list, due, told, values, call, server>>

\* The node the iterator has reached; its step to the node before is taken
\* before the callback runs.
Current == Last(yield.todo)
\* Mutant: from the head to the tail, where callbacks append.
NextNodeMutant == [yield EXCEPT !.todo = IF yield.pc = "answer" THEN list' ELSE Front(@), !.within = FALSE]
NextNode == [yield EXCEPT !.todo = Front(@), !.within = FALSE]

\* list_remove, after the callback.
RemoveCurrent ==
    /\ list' = RemoveFirst(list, Current) /\ due' = due \ {Current} /\ yield' = NextNode
    /\ UNCHANGED <<life, told, fresh, values, call, server>>

\* The callback is told the answer; until it returns it may make any requests,
\* which go to the tail.  A reply has no callback.
RequestCallback(ack) ==
    \/ Current = Ctl /\ RemoveCurrent
    \/ /\ Current # Ctl
       /\ told' = [told EXCEPT ![Current] = ack]
       /\ yield' = [yield EXCEPT !.within = TRUE]
       /\ UNCHANGED <<life, list, due, fresh, values, call, server>>

CallbackReturns ==
    /\ yield.within /\ call["yield"] = NoCall
    /\ \/ yield.pc \in {"expire", "answer"} /\ RemoveCurrent
       \/ yield.pc = "delta" /\ yield' = NextNode /\ UNCHANGED <<life, requests, values, call, server>>

\* _handle_request_callback: every request listed gets the answer.
_handle_request_callback ==
    /\ yield.pc = "answer" /\ yield.todo # <<>> /\ ~yield.within
    /\ RequestCallback(yield.ack)

\* Mutant: the expired request stays listed.
ExpiredMutant ==
    /\ yield.pc = "expire" /\ yield.todo # <<>> /\ ~yield.within
    /\ told' = IF Current \in due \ {Ctl} THEN [told EXCEPT ![Current] = "timeout"] ELSE told
    /\ yield' = NextNode
    /\ UNCHANGED <<life, list, due, fresh, values, call, server>>

\* _handle_expired_request_callback
_handle_expired_request_callback ==
    /\ yield.pc = "expire" /\ yield.todo # <<>> /\ ~yield.within
    /\ IF Current \in due
         THEN RequestCallback("timeout")
         ELSE yield' = NextNode /\ UNCHANGED <<life, requests, values, call, server>>

-----------------------------------------------------------------------------
(* IOT_Shadow_Yield                                                        *)

\* Some timers have expired by now (has_expired).
_handle_expired_request ==
    /\ life = "up" /\ yield.pc = "idle"
    /\ due' \in SUBSET Listed
    /\ StartTraverse("expire", "timeout")
    /\ UNCHANGED <<life, list, told, values, call, server>>

\* The answer the requests get: a reply with an error code never comes here; a
\* control message without one counts as a rejection.
Ack(m) == IF m.method = "get_reply" \/ m.ret = "0" THEN "accepted" ELSE "rejected"

\* The reply to desired values is of the kind of the last request sent, as
\* _handle_delta finds it when it begins.
ReplyMethod == IF cloud_send_method = "delete" THEN "REPLY_CONTROL_DELETE" ELSE "REPLY_CONTROL_UPDATE"

\* topic_request_result_handler and topic_sync_handler, called by the
\* IOT_MQTT_Yield that follows.  The message answers a request, now or again,
\* or the server sent it of its own accord; one that is lost is never received.
Receive(m) ==
    /\ life = "up" /\ yield.pc = "idle" /\ received < MaxReceive /\ received' = received + 1
    /\ IF m.method = "other" \/ (m.method = "reply" /\ m.ret # "0")
         THEN UNCHANGED <<yield, fresh>>
         ELSE IF m.desired = {}
           THEN StartTraverse("answer", Ack(m))
           ELSE /\ yield' = [pc |-> "delta", todo |-> props, within |-> FALSE, ack |-> Ack(m),
                             desired |-> m.desired, method |-> ReplyMethod]
                /\ UNCHANGED fresh
    /\ UNCHANGED <<life, list, due, told, values, call, published>>

(* _handle_delta: property_list from its tail to its head, under property_mutex *)

\* A string, an object or a value of another type leaves the property as it is,
\* or stores a part, and the error is not looked at.
IOT_Shadow_Direct_Update_Value(p) ==
    {[local EXCEPT ![p] = v] : v \in IF local[p] = "null" THEN {"null"} ELSE {"cloud", "other", local[p]}}

\* The callback of a property the desired state names takes the new value
\* (IOT_Shadow_Direct_Update_Value), or has the reply report the value it keeps
\* or sets.  It may make requests, too.
PropertyCallback ==
    /\ yield.pc = "delta" /\ yield.todo # <<>> /\ ~yield.within
    /\ IF Current \notin yield.desired
         THEN yield' = NextNode /\ UNCHANGED <<local, odd>>
         ELSE /\ yield' = [yield EXCEPT !.within = TRUE]
              /\ IF Current \in Hold
                   THEN local' \in {local, [local EXCEPT ![Current] = "dev"]}
                   ELSE local' \in IOT_Shadow_Direct_Update_Value(Current)
              /\ odd' = odd \cup {p \in {Current} : Pending("app", p) \/ (p \notin Hold /\ local'[p] # "cloud")}
    /\ UNCHANGED <<life, requests, props, reported, cloud_send_method, call, server>>

\* A deleted property has no data: a number is written to address 0.
NullPropertyCallback ==
    /\ yield.pc = "delta" /\ yield.todo # <<>> /\ ~yield.within
    /\ Current \in yield.desired \ Hold /\ local[Current] = "null"
    /\ life' = "crashed"
    /\ UNCHANGED <<requests, values, call, yield, server>>

\* The reply is a request as well; then the message answers every request, this
\* reply among them.
AddReply ==
    /\ yield.pc = "delta" /\ yield.todo = <<>>
    /\ list' = shadow_add_request_to_list(list, Ctl)
    /\ call' = [call EXCEPT !["yield"] = [pc |-> "publish", req |-> Ctl, method |-> yield.method,
                                         props |-> yield.desired \cap Hold \cap Range(props)]]
    /\ yield' = [yield EXCEPT !.pc = "reply"]
    /\ UNCHANGED <<life, due, told, fresh, values, server>>

ReplyDone ==
    /\ yield.pc = "replied" /\ call["yield"] = NoCall
    /\ StartTraverse("answer", yield.ack)
    /\ UNCHANGED <<life, list, due, told, values, call, server>>

-----------------------------------------------------------------------------
\* uiot_shadow_reset and the rest of IOT_Shadow_Destroy, called when nothing
\* else is under way: requests still listed are freed without a word.
IOT_Shadow_Destroy ==
    /\ life = "up" /\ call["app"] = NoCall /\ yield.pc = "idle"
    /\ life' = "down" /\ props' = <<>> /\ list' = <<>> /\ due' = {}
    /\ told' = [r \in Request |-> IF r \in Listed THEN "dropped" ELSE told[r]]
    /\ UNCHANGED <<local, reported, cloud_send_method, odd, call, yield, fresh, server>>

\* The steps of a call of uiot_shadow_make_request.
CallStep(t) == PublishRequest(t) \/ OverrunDocument(t) \/ UpdateLocal(t)

YieldThread ==
    /\ life # "crashed"
    /\ \/ _handle_expired_request \/ _handle_expired_request_callback \/ EndTraverse
       \/ _handle_request_callback \/ CallbackReturns
       \/ PropertyCallback \/ NullPropertyCallback \/ AddReply \/ ReplyDone
       \/ CallStep("yield")

AppThread == life # "crashed" /\ CallStep("app")

Next ==
    \/ YieldThread \/ AppThread \/ IOT_Shadow_Destroy
    \/ \E t \in Thread, r \in Request, method \in AppMethod, named \in {{}} \cup {{p} : p \in Property} :
         BeginRequest(t, r, method, named)
    \/ \E p \in Property : IOT_Shadow_Register_Property(p) \/ IOT_Shadow_UnRegister_Property(p)
    \/ \E m \in Message : Receive(m)

Spec == Init /\ [][Next]_vars

\* Both threads are scheduled, the yield thread calls IOT_Shadow_Yield again
\* and again, callbacks return.  A request is made once and its timer runs out: from
\* some call on those listed have all expired.
FairSpec ==
    /\ Spec
    /\ WF_vars(YieldThread) /\ WF_vars(AppThread)
    /\ SF_vars(_handle_expired_request /\ Listed \ {Ctl} \subseteq due')

-----------------------------------------------------------------------------
(* Properties                                                              *)

\* The types of the variables; request_list never exceeds its limit.
TypeOK ==
    /\ life \in {"up", "down", "crashed"}
    /\ list \in Seq(Request \cup {Ctl}) /\ Len(list) <= MaxRequest /\ IsInjective(list)
    /\ due \subseteq Listed /\ fresh \subseteq Request /\ odd \subseteq Property
    /\ told \in [Request -> {"idle", "untracked", "accepted", "rejected", "timeout", "dropped"}]
    /\ props \in Seq(Property) /\ IsInjective(props)
    /\ local \in [Property -> {"dev", "cloud", "null", "other"}]
    /\ reported \in [Property -> {"dev", "cloud", "null", "other"}]
    /\ cloud_send_method \in {"update", "delete"} /\ published \subseteq Request
    /\ received \in 0 .. MaxReceive
    /\ call \in [Thread -> [pc : {"idle", "publish", "update"}, req : Request \cup {Ctl},
                            method : AppMethod \cup {"GET"} \cup Replies, props : SUBSET Property]]
    /\ yield \in [pc : {"idle", "expire", "answer", "delta", "reply", "replied"},
                 todo : Seq(Request \cup {Ctl}) \cup Seq(Property), within : BOOLEAN,
                 ack : {"accepted", "rejected", "timeout"}, desired : SUBSET Property,
                 method : Replies]

\* The status of a request, as ShadowRequests sees it.
Status ==
    [r \in Request |->
        IF told[r] # "idle" \/ r \notin Listed THEN told[r]
        ELSE IF life = "crashed" THEN "dropped" ELSE "open"]

Requests == INSTANCE ShadowRequests WITH MaxOpen <- MaxRequest, status <- Status

\* Every request that was listed is answered exactly once, and eventually,
\* unless the shadow is destroyed or the program crashes: request_list
\* implements ShadowRequests.
ImplementsRequests == Requests!Spec

\* A request made in a callback is not answered by the message that callback
\* is about: _traverse_list goes from the tail to the head, list_rpush appends
\* at the tail.
FreshNotAnswered == \A r \in fresh : told[r] \in {"idle", "untracked"}

\* No iterator is left on a node that was removed: the other thread's calls and
\* the requests made in callbacks leave the nodes ahead of it alone.
IteratorsValid ==
    /\ yield.pc = "delta" => Range(yield.todo) \subseteq Range(props)
    /\ yield.pc \in {"expire", "answer"} => Range(yield.todo) \subseteq Listed

\* A traversal calls the callbacks of the nodes that were listed when it began,
\* each once, although callbacks and the other thread change the lists.
TraversalSound == FreshNotAnswered /\ IteratorsValid

\* Between calls the local value of a property is the one last reported, even
\* when publishing failed, unless the exchanges of the two threads about it
\* overlapped, a desired value was not stored or the reply not sent, its part of
\* a document was lost, or the property was unregistered for a time; and the next
\* request about a registered property ends the exception
\* (uiot_shadow_make_request updates the local values after publishing).
LocalMatchesReported ==
    call = [t \in Thread |-> NoCall] /\ yield.pc = "idle" /\ life = "up"
        => \A p \in Property \ odd : local[p] = reported[p]

\* "每次文档请求响应的回调函数", with "ACK_ACCEPTED = 0 // 请求接受": a callback
\* is about the response to its own request, and a request that never reached
\* the server is not reported as accepted.
AcceptedWasSent == \A r \in Request : told[r] = "accepted" => r \in published

=============================================================================
