# TLA+ models of the UCloud IoT SDK for RT-Thread

The SDK connects a device to the UCloud IoT platform over MQTT 3.1.1. It is a C
library (about 15 000 lines under `src/uiot`, with ports under `src/ports`) that an
application calls from one or several RT-Thread threads. It has no thread of its own:
whatever must happen in the background (reading, acknowledging, timing out, pinging,
reconnecting) happens inside `IOT_MQTT_Yield`, when the application calls it.

This directory holds models of that library (the MQTT client, message reception, the
device model, the device shadow, the OTA update and the HTTP client), the configurations
that check them with TLC, and proofs checked by TLAPS.

## 1. Inventory

| Part | State it keeps | Operations | What is hard about it |
|---|---|---|---|
| Publishing (`mqtt_client_publish.c`, `_common.c`, `_yield.c`) | `write_buf`, `next_packet_id`, `list_pub_wait_ack` | `uiot_mqtt_publish`, `_handle_puback_packet`, `uiot_mqtt_pub_info_proc` | several threads on one buffer and one list; sends that fail late; a lock released in the middle of an iteration; handlers called with a lock held |
| Subscriptions (`_subscribe.c`, `_unsubscribe.c`, `_common.c`, `_yield.c`) | `sub_handles`, `list_sub_wait_ack`, the heap copy of each topic filter | subscribe, unsubscribe, SUBACK, UNSUBACK, `uiot_mqtt_sub_info_proc`, `uiot_mqtt_resubscribe` | who owns a topic filter; acknowledgements after a timeout or an unsubscription; a resubscription that fails half way |
| Connection (`_connect.c`, `_yield.c`) | `is_connected`, `was_manually_disconnected`, `is_ping_outstanding`, `ping_timer`, `reconnect_delay_timer`, the wait interval | `uiot_mqtt_yield`, `_mqtt_keep_alive`, `_handle_disconnect`, `_handle_reconnect`, connect, disconnect | pings, late answers and other packets against timers; back-off; disconnection by hand during the loop |
| Life cycle, dynamic registration (`mqtt_client.c`) | the client itself | construct, destroy, register | destruction while a thread is inside a call |
| Encoding, topic matching, delivery (`_common.c`) | `read_buf`, `sub_handles` | read a packet, decode it, `_deliver_message`, acknowledge | remaining lengths and buffers at their limits, reads that time out inside a packet, wildcards |
| Device model (`src/uiot/dev_model`) | callbacks, topics | register, seven message handlers, reports, replies, destroy | texts built in buffers of fixed sizes; answers that must follow their requests; an acknowledgement after the answer |
| Device shadow (`src/uiot/shadow`) | `request_list`, `property_list`, local values | get, update, delete, replies, desired values, expiry, (un)registration, destroy | traversals that call the application, which makes requests; expiry against answers; two sides that must agree |
| OTA update (`src/uiot/ota`, `HAL_Flash`) | state, parameters, bytes fetched, digest, fetch channel, `msg_list`, the flash partition | update, cancel, fetch, retry, check, report, clear, reset | callbacks that nest, because a download yields; a channel used after it was freed; power loss |
| HTTP client and upload (`utils_httpc.c`, `utils_net.c`, `src/uiot/http`, `ota_fetch.c`, TCP and TLS ports) | socket, request buffer, body in progress, allocations of a call | connect, send, receive, ranged fetch, four one-shot calls | lengths at boundaries, short writes, stalls, cut answers, the cleanup after each failure |
| Utilities and ports | lists, timers, mutexes, sockets, TLS, flash, JSON, digests | | tick counter wrap, mutex wait limit |

The parts above the MQTT client (OTA, shadow, device model) call
`IOT_MQTT_Publish`/`Subscribe` and get their messages from handlers that the yield
loop calls; they share no state with it otherwise. The OTA update fetches its firmware
through the HTTP client. Inside the MQTT client, publishing, subscriptions and connection
share `lock_write_buf` with `write_buf`, `lock_generic`, `is_connected`
and the one yield loop. `PROJECT.json` lists every part and its status, and the
hazards, each at its line.

What makes each modelled part correct:

- *Publishing*: a publish that was accepted (a packet id was returned) is acknowledged,
  timed out or still waiting, never lost; packets of different threads never mix in
  `write_buf`; the wait list stays within its bound and no node is used after it was
  freed; packet ids of waiting publishes differ; threads never wait for each other in a
  circle; waiting ends.
- *Subscriptions*: each topic filter has one owner and is freed once; one slot per
  filter and handler; one outcome per request; after a reconnection every stored
  subscription is asked for again.
- *Connection*: a dead peer is found out in bounded time and a live one is not given up
  early; retries keep their distance; the application is told the truth; a client
  disconnected by hand stays so; a lost connection comes back.
- *Reception and device model*: packets stay framed whatever their length; no subscriber
  misses a message that matches; a callback is called for a request the cloud made, its
  answer carries that request's identifier, and the broker gets its acknowledgement after
  the answer; no report goes out cut short; every message that fits is acknowledged while
  there is time to write.
- *Device shadow*: each listed request is answered exactly once and eventually; an answer
  does not reach a request made after it; iterators stay on listed nodes; local and
  reported values agree wherever what was meant could be stored and sent.
- *OTA*: the device only ever resets into the firmware that was announced, whatever the
  server sent, a power loss left behind, or messages did meanwhile; a cancelled update
  does not boot; no queued update is forgotten; every download ends,
  unless the server falls silent inside a header.
- *HTTP*: the pieces handed over make up the file; no socket or block leaks on any error
  path; success means that the request of this call was answered; every call ends, with the
  same exception.

## 2. Modules

| Module | Role |
|---|---|
| `MqttPublish` | publishing, any number of threads beside the yield thread |
| `MqttSubscribe` | subscribing, unsubscribing, resubscribing |
| `MqttConnection` | yield loop, keep-alive, reconnection, with discrete time |
| `MqttReceive` | from the byte stream to the handler of a subscription and the PUBACK |
| `DeviceModel` | the device model, composed with `MqttReceive`, which it extends |
| `ShadowRequests` | abstract: what the shadow promises for a request |
| `Shadow` | the device shadow on two threads; implements `ShadowRequests` |
| `OtaUpdate` | update messages, download, check and reset |
| `HttpClient` | HTTP requests, answers and ranged downloads over TCP and TLS |
| `MC...` | each of them for TLC: instances, symmetry sets |
| `MqttPublishProofs`, `MqttSubscribeProofs`, `MqttConnectionProofs`, `DeviceModelProofs`, `ShadowProofs`, `OtaUpdateProofs`, `HttpClientProofs` | theorems about the module of that name (`DeviceModelProofs` also about `MqttReceive`) |
| `RecursionTheorems` | induction and recursion in a form the provers can use; `DeviceModelProofs` and `HttpClientProofs` extend it |

`map` in `PROJECT.json` names the lines each definition stands for. Definitions whose
name ends in `Mutant` (or that a comment calls a mutant) are broken variants used to
check that each property can fail; no specification uses them.

### MqttPublish

A thread inside `uiot_mqtt_publish` has a place `pc[t]`: waiting for `lock_write_buf`
("lock"), about to take a packet id ("id"), serialising, pushing its node on the wait
list ("push"), sending, or removing its node after a failed send ("remove"). Every
place is a point where another thread can run. The yield thread has `ypc`, and may
itself publish: between two yields, from a message handler, or, if `Republish`, from
the `PUBLISH_TIMEOUT` handler, with `lock_list_pub` held.

- A packet id is identified with the number of ids handed out before it, its *serial*;
  `msgId` maps a serial to the 16-bit id. The wait list, to which nodes are only
  appended, is the set of its nodes' serials in ascending order, and `Prev` is the
  `prev` pointer.
- `writeBuf` records who serialised into `write_buf` last and for which serial: that is
  all that ownership of the buffer needs.
- RT-Thread mutexes are recursive: `Free(lock, t)` holds if `t` owns the lock already.
  `lock_generic` is held only for single assignments in this part, which are atomic
  steps here. `get_next_packet_id` reads its result after releasing `lock_generic`, so
  increment and read are two steps.
- `SendFail` may have delivered the packet: `send_mqtt_packet` passes the full length
  again after a partial write and reports a failure after all bytes went out.
- `uiot_mqtt_subscribe` takes ids from the same counter under the same lock. For this
  module such a call is a publish that does not fit the buffer (`SerializeFail`): it
  takes the lock, spends an id and returns.
- A downlink QoS0 message is `NothingToRead` here: its handler runs and nothing else
  changes.
- Use of a freed node sets `fault`. In the window in which the iteration has released
  `lock_list_pub` (`WindowFreed`) the code goes on with the freed node: it reads some packet
  id from it and raises `PUBLISH_TIMEOUT` for that publish, which may have had its outcome.
  The model takes this step too; no step is described after it, nor after the other faults.

### MqttSubscribe

A request is named by its serial, which stands for its packet id, its node and its
heap-allocated topic filter. `freed` holds the filters that were freed, `slot` what
`sub_handles` points to, and `handle` the local handle of the packet in progress; an
owner is the call, the node, the local handle or a slot. `fault` tells which undefined
behaviour was met: a freed node, a freed filter, or the uninitialised local of
`_handle_unsuback_packet`, whose value is chosen freely (`garbage`). Disconnection and
reconnection are reduced to what this part sees; `uiot_mqtt_resubscribe` calls
`uiot_mqtt_subscribe` from the yield thread, slot by slot, reading each slot without a
lock. Topic filters and handlers are model values; a filter in `Wildcard` is one that
contains `/#` or `/+`. `asked`, `accepted`, `succeeded`, `refused`,
`timedOut` and `dropped` record what was sent and reported.

### MqttConnection

One action per branch of `uiot_mqtt_yield` and the functions it calls. Time is counted
in ticks. A timer is the number of ticks left, and -1 once it has expired:
`HAL_Timer_Expired` compares with `<`, so a timer is still running at 0. Time passes
where the code waits, in a read (at most the rest of the yield timer, one tick at
least, and `UIOT_MQTT_MAX_REMAIN_WAIT_MS` more once a packet has begun), in the loop that
waits for the reconnect delay, and in the application between two calls. Sends,
handlers and connection attempts take no time. `silence`, `unanswered`, `gap` and
`sinceTry` are clocks that the code does not have; the properties speak about them.
`counter_network_disconnected` is left out, as nothing reads it. `uiot_mqtt_connect` and
`uiot_mqtt_disconnect` are called by the application between yields or, if `AppThread`,
`uiot_mqtt_disconnect` from another thread at any time.

### MqttReceive

`wire` holds the bytes on their way to the device, `buf` is `read_buf`, and `phase` the
place of the yielding thread: fixed header, remaining length digit by digit, body (or
`discard` for a packet that does not fit), decoding, handler, acknowledgement. The
remaining length has digits of base `Base`, so that a packet of a few bytes has a length
of several digits; `mqtt_write_packet_rem_len` and `get_mqtt_packet_len` are the code's
functions with 128 replaced by `Base`. A read may time out although bytes are to come
(`MaxStall`), and the connection may be lost (`MaxLoss`), after which the broker sends
what was not acknowledged again. The acknowledgement (`SendAck`) has the time that is left of
the timer of the yield: when a slow read or handler has used it up, the loop of
`send_mqtt_packet` is not entered, nothing is written, and the connection stays up (`unsent`
records the message). `_is_topic_matched` is translated character by
character (`Scan` is its loop, from one pair of positions in filter and topic to the next)
and compared with a definition of MQTT's matching rule (`Matches`).

### DeviceModel

Extends `MqttReceive`: its `cycle_for_read` is a step here, and the handler of a slot is
a type of the device model. `_dsc_mqtt_register_callback` subscribes and registers one
type; `Incomplete` and `Callback` are the message handlers, with the fields each type
needs; `Reply` builds and publishes the answer. A text under construction has its bytes,
the room that `remain_size` says is left and whether something was written past the
buffer (`Put`), so that truncation by `HAL_Snprintf` and the arithmetic around it are
what the code computes. JSON punctuation is one byte and a key or value is one byte.
`ReportText` is what a report should say, defined without buffers: the members with
separators between them. `report` compares it with what the cloud decodes.

### Shadow and ShadowRequests

The yield thread runs `IOT_Shadow_Yield`: expiry, then one message, each a traversal of
`request_list` from tail to head under `request_mutex`, one node per step; desired values
first traverse `property_list` under `property_mutex`. The application thread makes
requests in three steps (listed, published, local values updated) and registers and
unregisters properties between the steps of the yield thread. Until a callback returns it
may make requests of any kind on the yield thread, step by step like the other thread's
(`call` has a place for each). A value is abstracted to who set it; "other" is a part of a
value. `shadow_json` gives every document that the server may get: as errors of
`put_json_node` are not looked at, properties may be missing from it and values be cut.
`IOT_Shadow_Direct_Update_Value` may store the desired value, part of it, or nothing. Its
write through the NULL pointer of a deleted property, and the write of `put_json_node` past
its buffer, end in `life = "crashed"`. `odd` records the properties whose two sides may have
come apart by one of these; the next request about a property takes it out again.

`ShadowRequests` has one variable, the status of each request. The refinement mapping
takes a request to "open" if it is listed and was not told anything, and otherwise to
what it was told ("dropped" after a crash). `ImplementsRequests` covers the fairness of the abstract specification
too: every open request is answered in the end.

### OtaUpdate

There is one thread. `stack` holds the callbacks under way: `_ota_callback` runs inside
`IOT_MQTT_Yield`, downloads, and yields after each block, so that another callback may
run inside it. `par` records whose url, module, version, digest and size the handle has.
Firmware is a sequence of blocks, the digest the blocks it was fed, the partition what
was written to each block since it was erased. The server may send any block, a body
that is not the firmware, nothing, or break the connection; power may be lost at any
step, which leaves the partition as it is. `uaf` is set when a freed or NULL pointer is
followed; `odd` records the four things that the code does not provide for (see the
observations below), and the properties that fail after them say so. A fetch may end in
every way `HttpClient` knows; over TCP it may also not end at all (`FetchMute`), or write a
header past the end of its buffer (`FetchOverrun`).

### HttpClient

One thread calls; server and network act on their own. Texts are sequences of units of a
few bytes: enough to fall on either side of the send buffer (`_utils_fill_tx_buffer`),
the read-head size, the chunk size, the header buffer and the response buffer. `Longest`, in `TypeOK`, is
the longest body that is sent with a length. `SendRequest` is the loop
that fills and flushes the buffer piece by piece when every write goes through. `SendSpoilt`
is what becomes of a request whose line was cut, of which a fill failed unnoticed (then
`send_idx` is what it was before, and bytes are lost or sent twice) or whose last write or body
was short: the call goes on or fails, and the server gets nothing or a `Spoilt` text, to which
it may answer as to the whole one, with an error page, or without regard to the `Range`.
`ReadHeader` and
`_http_parse_response_header` read until the blank line, or past the end of the buffer (place
"overrun", after which nothing is described), `FillBody` and `ReadBody` are
the loops of `_utils_fill_rx_buf` and `_http_get_response_body`. `BeginFetch` to `FetchFails` are
`ofc_fetch` with its reconnection; `BeginCall` to `CallReturns` are the calls that make
one request, `heap` their allocations. What a port function returns for a closed, reset
or silent peer differs between TCP and TLS (`build`).

## 3. Runs

Every run takes a few minutes at most. A property in parentheses is a part of the one before
it; each part has a mutant of its own that breaks it.

| Run | Checks | Result |
|---|---|---|
| `publish_threads` | `TypeOK`, `WriteBufOwned`, `NoCircularWait`, `PacketIdReuse`, `AcceptedIsAccounted`, `WaitListSound` (`ListBound`, `IteratorValid`), `OutcomeIsFinal` | hold |
| `publish_single` | `NoUseAfterFree`, `WaitingEnds` on one thread | hold |
| `subscribe_single` | `FiltersSound` (`SlotFilterValid`, `NoDuplicateSlot`, `NoFilterLeak`, `NoUseAfterFree`), `ResubscribeComplete` on one thread | hold |
| `subscribe_threads` | `TypeOK`, `OutcomesSound` (`AcceptedIsAccounted`, `OneOutcome`), `NoCircularWait` | hold |
| `connection_threads` | `DeadPeerDetected`, `PatientDisconnect`, `StaysDown` | hold |
| `connection_live` | `TypeOK`, `NoEarlyRetry`, `AppViewSound` (`ToldIsTrue`, `ManualStays`), `ReconnectsEventually` on one thread | hold |
| `device_model` | `TypeOK`, `DeliverySound` (`DeliveredInOrder`, `NoMissedMatch`), `RequestsAnswered` (`CallsMatchRequests`, `AnswersMatchCalls`, `AckAfterAnswer`), `PublishedComplete`, `AcknowledgedEventually` | hold |
| `ota` | `TypeOK`, `BootsRight` (`BootsIntact`, `CancelledNeverBoots`, `SuccessNamesImage`), `IdleQueueEmpty`, `NoUseAfterFree`, `DownloadProgresses` (`DownloadEnds`, `ProgressMonotone`) | hold |
| `ota_nested` | `OneDownload` | violated |
| `shadow` | `TypeOK`, `ImplementsRequests`, `TraversalSound` (`FreshNotAnswered`, `IteratorsValid`), `LocalMatchesReported` | hold |
| `shadow_answers` | `AcceptedWasSent` | violated |
| `http` | `TypeOK`, `FetchedIsPrefix`, `NoLeak` (`NoSocketLeak`, `NoMemoryLeak`), `ExchangeSound` (`RequestIntact`, `SuccessWasAnswered`), `CallEnds` | hold |

The two violated runs state what a comment or a header says; `findings` in `PROJECT.json`
quotes the lines. An update message that arrives in the yield after the last block of a
download finds the state FETCHED, not FETCHING, and starts a second download inside the
first. And a shadow message answers every request that is listed, also one that has not
been published.

Further observations. No run is kept for what follows. Where the third column names a
property or a definition, the models reach it and the column says how; "reading" marks
what was met in the code while modelling it.

| What the code does | Where | How it shows |
|---|---|---|
| a node that is freed in the window in which the iteration has released `lock_list_pub` is read, and a second outcome, `PUBLISH_TIMEOUT`, is raised for a publish whose call returned an error, or for any other | `mqtt_client_yield.c:314` | `WindowFreed`; `OutcomeIsFinal` without `~fault'` |
| a failed send removes and frees a node that the yield thread has freed meanwhile (its PUBACK came, or it timed out) | `mqtt_client_publish.c:342` | `MqttPublish!NoUseAfterFree` with a second thread |
| a `PUBLISH_TIMEOUT` handler that publishes waits for `lock_write_buf` with `lock_list_pub` held, while the thread that owns the former waits for the latter | `mqtt_client_yield.c:326` | `MqttPublish!NoCircularWait` with `Republish = TRUE` and a second thread |
| `is_connected` is checked before `lock_write_buf` is waited for and not again: a PUBLISH may go out on a new socket before the CONNECT packet | `mqtt_client_publish.c:306` | `publish_threads`: `link = "tcp"` with a thread at "send" |
| an UNSUBACK for a request that has timed out frees an uninitialised pointer | `mqtt_client_common.c:1018`, `:1039` | `MqttSubscribe`: `fault = "uninitialised"` |
| a failed send frees a topic filter that a SUBACK read meanwhile has stored in `sub_handles` | `mqtt_client_subscribe.c:166` | `SlotFilterValid` with an application thread |
| unsubscribing from a filter that contains a wildcard clears every slot | `mqtt_client_unsubscribe.c:112` | `Cleared(topic)` for `topic` in `Wildcard` |
| resubscribing stops at the first failure, and nothing tries again on that connection | `mqtt_client_subscribe.c:198` | `ResubscribeComplete` without its premise `~aborted` |
| a SUBACK read after the unsubscription brings the handle back, and the next reconnection subscribes again | `mqtt_client_common.c:982` | `SubackInstall` after `ClearHandles` of the same topic |
| a PUBLISH clears the count of pings outstanding but leaves `ping_timer` alone: a connection may be given up earlier than `keep_alive_interval` after the last packet | `mqtt_client_common.c:1289`, `mqtt_client_yield.c:135` | `PatientDisconnect` counts ping timeouts, not the keep-alive interval, for this reason |
| a client that another thread disconnects during `uiot_mqtt_yield` is connected again by its loop | `mqtt_client_yield.c:199` | `ManualStays` with `AppThread = TRUE` |
| a reconnection whose resubscription fails leaves the client connected and raises no RECONNECT event | `mqtt_client_connect.c:346` | `ResubscribeFail`: `isConnected` with `told = "down"` |
| a keep-alive interval that is a multiple of 2^16 is cut to 0, which turns the check off | `mqtt_client.c:112` | `DeadPeerDetected` with `KeepAliveRange = RequestedKeepAlive` |
| topic matching has false positives: `a/#` gets `ab`, `/#` gets `b`, `/+/` gets `/`; there are no false negatives | `mqtt_client_common.c`, `_is_topic_matched` | `NoMissedMatch` holds, its converse does not |
| a body cut short by a time-out is handled with what an earlier packet left in `read_buf` | `mqtt_client_common.c`, `_read_mqtt_packet` | `CallsMatchRequests` without `stalls = 0` |
| a PUBACK that is due when the timer of `uiot_mqtt_yield` has run out is not written, and the connection stays up: the broker gets none, and repeats the message on another connection only | `mqtt_client_common.c:1165` with `:484` | `unsent` in `AcknowledgedEventually` |
| a command's reply that is exactly as long as its buffer is published without its last byte | `dm_mqtt.c:456` | the exception in `AnswersMatchCalls` |
| a reply that cannot be built or published is dropped, its request is acknowledged all the same | `dm_mqtt.c` | `Dropped` in `answers` |
| a negative `remain_size` becomes a huge `size_t`, so later parts are written past the buffer | `dm_mqtt.c` | `over` in `Put` |
| `uiot_register_for_X` returns 0 when subscribing failed; `IOT_DM_Destroy` leaves its topics subscribed with a freed context; a PROPERTY_RESTORE report sends an uninitialised buffer | `dm_mqtt.c`, `dm_client.c` | reading |
| `IOT_OTA_Destroy` follows `ch_fetch` when no download was made (NULL) or after one (freed), and leaves the topic subscribed | `ota_client.c` | `OtaUpdate!NoUseAfterFree` without "destroyed" in `odd` |
| a malformed update leaves its fields in the handle; a cancellation that names them follows the freed `ch_fetch` | `ota_client.c` | `NoUseAfterFree` without "malformed" |
| a cancellation of an update that waits in `msg_list` is lost | `ota_client.c` | `CancelUpdate` with the update in `queue` |
| failures of the network are never reported to the server; the percentage divides by a size that may be 0, and its product wraps for files above 42 MB | `ota_client.c:604` | reading |
| a request that finds `request_list` full is published all the same and never answered | `shadow_client_manager.c` | "untracked" in `told` |
| a request whose publishing failed stays listed: the caller has the error and the callback comes later | `shadow_client_manager.c` | `AcceptedWasSent` |
| a reply with an error code answers nobody: the request waits for its expiry | `shadow_client_manager.c` | `Receive` with `ret = "error"` |
| `IOT_Shadow_Destroy` drops the requests listed without a call | `shadow_client.c` | "dropped" in `told` |
| `IOT_Shadow_Direct_Update_Value` leaves strings and objects as they are, ignores a value that does not parse, and writes to address 0 for a property that was deleted; the reply says that the value was taken | `shadow_client.c:378` | `odd` in `LocalMatchesReported`; `NullPropertyCallback` |
| `put_json_node` takes the length of the text away twice, and its error is not looked at: properties are missing from a document or cut, or the limit wraps round and the text is written past the buffer | `shadow_client_json.c:65`, `shadow_client_manager.c:928` | `shadow_json`, `OverrunDocument` |
| an update without properties is malformed JSON; the path without a connection leaks `pParams` | `shadow_client.c` | reading |
| a request line longer than its buffer, a fill of the send buffer that fails, a short last write or a short body go unnoticed: the server gets part of a request, and the call returns SUCCESS for its error page | `utils_httpc.c:113`, `:142`, `:158`, `:171` | `SendSpoilt`; `SuccessWasAnswered` promises no more than some answer |
| the status code of an answer is not looked at: an error page is taken for the file, and so is the whole file after a reconnection to a server that ignores ranges | `utils_httpc.c`, `ota_fetch.c` | the exceptions in `FetchedIsPrefix` |
| the header loop ignores time-outs: a server that falls silent inside a header over TCP keeps the call, and a download in the callback it runs in, for ever | `utils_httpc.c:342` | `CallEnds` without `seen.mute`, `DownloadEnds` without `At("mute")` |
| a header is read into a buffer of fixed size on the stack without looking at its end | `utils_httpc.c:345` | place "overrun" in `HttpClient`, "overrun" in `odd` of `OtaUpdate` |
| a range request asks for one byte more than `HTTP_OTA_RANGE_LEN`; with the final 0 the buffer must exceed it by more than 2, where `ota_client.c:33` asks only for more | `ota_fetch.c` | `HttpAssumption` |
| a request header of a multiple of the send buffer ends with a write of 0 bytes, which counts as a failure | `utils_httpc.c` | `SendRequest` of TOKEN in `MCPieces` |
| `IOT_HTTP_Publish` leaks its url when the POST fails | `http_client.c` | the exception in `NoMemoryLeak` |
| an answer without the expected field, or a failed allocation of the url, returns SUCCESS; the upload checks the wrong pointer after an allocation | `http_client.c`, `http_upload_file.c` | reading |

Bounds. The publishing runs use a list of one or two nodes and two or three QoS1
publishes, with ids 1 and 2: enough for a full list, for two threads at different places
of a call with the yield thread in the list, and for an id to be used again while its
first publish still waits. QoS0 publishes, which take no id and no node, occur in
`publish_single`; the theorems cover them beside other threads. The
subscription runs use one or two slots, two topics, and three or four requests: enough to fill the slots, to repeat a subscription, to
unsubscribe and to reconnect (which needs a request per slot). The connection runs use
a keep-alive interval of a few ticks, ping timeouts of one, two pings, and a wait
interval that doubles and overflows its maximum; a yield of two ticks and pauses of one
let every order of expiry of the timers occur. `MaxPublish` and `MaxRequest` bound the
number of calls and are the only bounds on counters; runs of `MqttSubscribe`, and of
`MqttPublish` with a fault, may therefore stop, which is why those do not check for
deadlock. `MAX_PACKET_ID`, `KeepAliveRange` and the intervals are constants of the code
with small values here.

`device_model` lets the broker publish two messages out of five (a property request, a
command, one that does not fit `read_buf` with its header, one longer than `read_buf`, one
with a topic longer than `MaxTopic`), with one stalled read and one lost connection, to an
application with three callbacks and a wildcard filter; the reports lie on both sides of
every buffer's size. Lengths of base 4 make packets of 4 and 16 bytes need a second and a
third digit. `ota` has three firmwares of one and two blocks, one of them with a bad url,
four messages (so that one nests, one waits and one cancels) and one power loss. `shadow`
has two requests, an UPDATE or a DELETE_ALL each, which differ in all that documents and
local values depend on (a GET differs from an UPDATE only in what it names); two places in
the list, two properties (one whose callback keeps its value, one that comes and goes) and
one message, before, between or after the requests and any number of expiry traversals; the
list is full when both requests are made and a reply is added. `http` has two calls or downloads, one reconnection and three faults, a
file of 7 units in ranges of 3, and buffers of 3 to 6 units; a header may be longer than any
of them. `MaxSend`, `MaxStall`,
`MaxLoss`, `MaxDeliver`, `MaxCrash`, `MaxReceive`, `MaxCall`, `MaxReconnect` and
`MaxFault` bound what the environment does; when they are used up these systems may rest,
and so may one that was destroyed or has reset, hence no deadlock check.

Fairness. RT-Thread schedules every thread, and the mutexes are created with
`RT_IPC_FLAG_FIFO`: a thread that waits for a lock that is released again and again gets
it in its turn, hence strong fairness of the steps that take a lock and weak fairness of
the others. The application keeps calling `uiot_mqtt_yield` (without which the SDK does
nothing), also one that publishes from the thread that yields: each time it publishes it
comes back to the yield, hence strong fairness of the yield steps in `MqttPublish`. In
`DeviceModel` the application registers its callbacks and keeps yielding (weak fairness
of `Yield` and of the registration). In `OtaUpdate` and `HttpClient` the one thread runs on
(weak fairness of `Client`): every connect, read, write, sleep and yield has a time limit,
and server and network owe it nothing. The loop that reads a header goes back to its read
when one times out; `HttpClient` takes these steps and `CallEnds` excepts what the server does
there (`seen.mute`), `OtaUpdate` has a place for a fetch that does not come back ("mute"), which
`DownloadEnds` excepts. In `Shadow` both threads are scheduled, and as a request is made
once and its timer runs out, the timers of all that are listed have expired from some traversal
on (strong fairness of the expiry of all of them).
`WaitingEnds` has as a premise that the network stabilises; `ReconnectsEventually`
assumes that a broker that is tried for ever accepts some attempt (`SF(ConnectOk)`).

## 4. Proofs

The theorems hold for every value of the constants that satisfies the `ASSUME` of their
module: any finite set of threads, any list capacity, packet id range and number of
requests, any intervals, any firmwares, properties and messages, any sizes of buffers and
texts. The assumptions say that sizes and bounds are natural numbers and that sets of
names are the ones the code has; beyond that, `ShadowAssumption` says that the node of a
reply is not a request and that there are finitely many properties, `SizeAssumption` of
`OtaUpdate` that a firmware is none of the marks for "no firmware", `HttpAssumption` that a
range with its final 0 fits `response_buf` (see section 3) and that
`HTTP_CLIENT_READ_HEAD_SIZE` and `HTTP_CLIENT_CHUNK_SIZE` are at least 2 and the former no longer
than `response_buf` and shorter than the header buffer, as they are in the code. `ReceiveAssumption` says that a message's
topic fits its 16-bit length and a packet the four digits of its remaining length, and that
the filters of the application are well formed (the broker grants no others).
`DeviceModelAssumption` says that the platform's downstream topics have no wildcards and
that no longer topic of the platform becomes one of them when `fix_topic` cuts it (only the
reply to a deletion of desired values is long enough to begin such a topic, and the platform
has none below it), and that a report, a structure and an array have a member. A theorem that needs
more of the constants says so in its statement. There are three such hypotheses, and each
is needed, for TLC finds the violation without it (section 3):

- *one thread* (`Caller \subseteq {Yielder}` in `MqttPublish` and `MqttSubscribe`,
  `AppThread = FALSE` in `MqttConnection`), for `NoUseAfterFree`, `OutcomeIsFinal` without its exception, `FiltersSound`,
  `ResubscribeComplete`, `NoEarlyRetry` and `AppViewSound`: with a second thread an
  acknowledgement may be handled, or a node time out, while the call that made the request is in its error path, and a
  disconnection by hand may fall inside the yield loop;
- *quiet handlers* (`~Republish`, `HandlerCalls = FALSE`), for the two `NoCircularWait`:
  an event handler that calls the client does so with a list lock held;
- *an interval that fits* its 16-bit field, for `DeadPeerDetected`.

**`MqttPublishProofs`.** The inductive invariant `Core` adds to `TypeOK`:

- `LockInv`: whoever is between taking and releasing a lock owns it, so at most one
  thread is inside the part of `uiot_mqtt_publish` that uses `write_buf`;
- `CallInv`: what a call in progress holds; in particular the id that a call is working
  with is the last one that was handed out, which is why reading `next_packet_id` after
  releasing `lock_generic` is harmless;
- `ScanInv`: the iterator has a node in hand while it times one out;
- `Budget`: the ids handed out and the calls that still have to take one do not exceed
  the publishes started (by counting the pending calls), needed for the type of `issued`.

From it follow `TypeCorrect`, `ListBoundHolds`, `WriteBufOwnedHolds` and
`NoCircularWaitHolds`. `PacketIdReuseHolds` needs `IdInv` besides: serials and ids advance
together, so equal ids of two serials mean that they are a multiple of `MAX_PACKET_ID`
apart. `IteratorValidHolds` rests on `IterInv`: a publish that fails still owns
`lock_write_buf`, so the node it removes is the newest, while the iterator has gone on to
an older one before it releases `lock_list_pub`; the node being timed out is not safe in
that gap (the first observation of section 3), the iterator is. `WaitListSoundHolds` puts
the bound and the iterator together.

`FateInvariant` follows each publish from its packet id to its outcome. `FreshInv`:
nothing is said of a serial before its node is listed. `FateInv`: a node that is listed
did not fail, is INVALID exactly when its success was reported, and a call that sends has
its node in the list unless the outcome came already. From it follow
`AcceptedIsAccountedHolds` and `OutcomeIsFinalHolds`, for any number of threads; the latter
excepts the report that is made from a freed node.
`NoUseAfterFreeHolds` adds `NodeInv`: on one thread the call that sends, and the iteration
that times a node out, find it in the list. `OutcomeIsFinalOnOneThread` puts the two together: there
the exception never comes.

**`MqttSubscribeProofs`.** For any number of threads `Core` is `TypeOK` with `LockInv`
(who owns which of the three locks, and from where the yield thread may call), `Budget` as
above and `RangeInv` (nothing refers to a request that was not made). `OutcomeInv` says
why an outcome is unique: an answer is the first one to its request (`AnswerInv`), a call
in progress was not answered before it was sent (`CallInv`), and a node leaves the list
only after its outcome was reported (`NodeInv`). `OutcomesSoundHolds` follows; it has no
hypothesis on threads or handlers. `NoCircularWaitHolds` needs `QuietInv`: the yield
thread calls only where it owns no lock.

On one thread `FilterInv` gives each topic filter one owner (freed, in a slot, in a waiting
node, with the handler of its answer, or with the call), no two slots the same filter, and
no filter none; `FiltersSoundHolds` follows. `AskedInv` says that what is stored, or may
still be stored by an answer, was asked for on this connection, but for the slots that the
resubscription has not come to; `ResubscribeCompleteHolds` follows.

**`MqttConnectionProofs`.** The bound on the silence of a peer is not inductive: it
depends on how often the keep-alive check runs and on what is left of the ping timer.
`IInv` is `TypeOK` with

- `IntervalInv`: an attempt is made only with an interval within its maximum;
- `GapInv`: how much time can have passed since the last check, place by place;
- `SilenceInv`: silence plus what is left of the ping timer is at most the keep-alive
  interval and one ping timeout and gap per ping sent;
- `PatienceInv`: each ping that was sent has been waited for, but for what is left of
  the timer.

`DeadPeerDetectedHolds` and `PatientDisconnectHolds` follow. `ViewInv` says at which places
of the loop the client is connected, and that a call of `uiot_mqtt_disconnect` and one of
`uiot_mqtt_yield` exclude each other; `AppViewSoundHolds` follows. `RetryInv` says that what
the delay timer has lost the time since the last attempt has gained; `NoEarlyRetryHolds`
follows. `StaysDownHolds` is an action property and holds for both settings of `AppThread`.

**`RecursionTheorems`.** The induction theorems of the library have an operator as a
parameter, which the provers cannot instantiate. Here what holds of a number is a set of
numbers (`SetInduction`, `StrongSetInduction`) and a step of a recursion is a function
(`RecursionExists`, `DescentExists`), so that induction over lengths and positions, and the
existence of the functions that the models define recursively, are within reach. They are
used for the digits of the remaining length, the loop of topic matching, the pieces of a
request header and the parts of a report.

**`DeviceModelProofs`.** `SlotInv`: `sub_handles` is within its limit and the slot of the
message in hand is one of them. `CountInv` counts the messages delivered, the calls and the
answers place by place; `OneCallPerMessageHolds` follows. `CallInv`: while its answer is
built the last call is that of the message in hand; with the slot and the message unchanged
from the handler to the acknowledgement, `AckAfterAnswerHolds` follows. `TypeInv` gives
`TypeOKHolds`; that a body read fits `read_buf` needs the check of the remaining length
before it and what its digits can say.

- *Framing.* The lemma `Decodes`: what `deserialize_publish_packet` makes of the bytes of
  `_serialize_publish_packet` is the packet, for any topic, payload and length. `FrameInv` says
  which packet is being read and that the wire holds the rest of it and then the packets
  after it, place by place: in `InRemLen` the digits read and the ones to come make up the
  remaining length, in `InDiscard` what is left to drop is what is left of the packet, in
  `Whole` the packet is in `read_buf`. `StallInv` says that without a stalled read only a
  lost connection ends a packet early. `DeliveredInOrderHolds` follows.
- *Matching.* `MatchNotMissed` is a theorem about `_is_topic_matched` alone: by induction from
  the end of the filter, if the rest of the filter matches the rest of the topic by the
  standard's rule, the loop from there ends where the code answers yes. `MatchInv` takes it
  to the message at its handler: `NoMissedMatchHolds` and `DeliverySoundHolds`.
- *Requests.* A filter without wildcards matches only itself (`ExactMatch`), so without a
  stall a message at the handler of a type is one the cloud published on that type's topic:
  `CallsMatchRequestsHolds`. `AnswerInv` ties the answers to the calls; the reply the cloud
  decodes is the whole one by `Decodes` and the length check, but for the one as long as its
  buffer. `RequestsAnsweredHolds` puts the three together.
- *Texts.* `Building(t, f, z)`: a text under construction begins with the same `z - 1` bytes as
  the text meant so far, and its room is what that left of the buffer, until the room is
  negative. `Put` keeps this (`PutBuilds`), hence a chain of parts (`ChainBuilt`), the members of a
  structure or an array (`EnclosedBuilt`, also where the room is not looked at), and a report of
  any nested properties (`ReportBuilt`). A text that was cut unnoticed fills its buffer, and one
  that passes the check of its wrapped length is shorter: it is all of what was meant.
  `PublishedCompleteHolds` follows.

**`ShadowProofs`.** `ListInvariant` is `TypeOK` with `ListInv`: a listed request was told
nothing; a reply is listed only until the traversal after it has passed it; iterators move
over listed nodes, each once, and over none that a callback has added (the list grows at
the tail, the traversal goes to the head). `TraversalSoundHolds` follows, and `Refinement`:
under the mapping of `Status`, every step of `Shadow` is a step of `ShadowRequests` or
leaves the status alone, because a step that answers removes the node in the same step.
`Requests!Safety` is `ShadowRequests` without its fairness. `LocalMatchesReportedHolds`
needs `ValueInv`: outside calls the two values of a property agree, and inside they differ
only by what one of the threads has published and not yet stored, or a callback has taken and
not yet reported; it is the same as `LocalMatchesReported` about the properties in `odd`, and a
request has to bring both values of a property together before it leaves `odd`. The lemmas on sequences (append, front, remove-first on an injective
sequence) are stated once in front.

**`OtaUpdateProofs`.** `OtaInvariant` is `TypeOK` with

- `StackInv`: callbacks nest only in the yield of a download;
- `DownloadInv`: for the innermost download, either it is over (cancelled, or another one
  ended inside it, so it will be refused) or the partition holds the last blocks that the
  digest was fed, those this download fetched, is erased behind them, and the handle still
  names its update; this is what makes a digest that fits a proof of the image, although
  nested callbacks share one handle and one digest;
- `BootInv`: a boot is of what `BootsRight` says;
- `QueueInv`: state FETCHING and queued updates belong to the download at the bottom;
- `FetchInv`: without one of the things in `odd` there is one download, its channel is
  live, and no message names a handle whose channel is dangling.

`TypeCorrect`, `BootsRightHolds`, `IdleQueueEmptyHolds`, `NoUseAfterFreeHolds` and
`ProgressMonotoneHolds` follow.

**`HttpClientProofs`.** `NoLeak` speaks about the time between calls only for the memory,
and says nothing of what a call may still open. `SocketInv` adds that nothing is open
before a connection is made, so that a new one never displaces another in the handle;
`HeapInv` adds that what a call under way has allocated is within what its end frees, plus
the url that an earlier `IOT_HTTP_Publish` may have left. `NoLeakHolds` follows. `TypeInv`
is `TextInv` (what travels is units, `response_buf` is not overrun), `CallInv` and
`LengthInv`; the last ties `response_content_len`, `retrieve_len` and the value a call of
`ofc_fetch` began with to the length of `response_buf`, which is not a matter of one
assignment because a body may be spread over several calls. `TypeCorrect` and
`FetchedLengthHolds` follow. `AnswerInv` says that the connection of a one-shot call is its
own: nothing is on it before the request, and no blank line comes before the server has
answered with at least a whole header; `SuccessWasAnsweredHolds` follows. `FetchInv` says where each unit of the file is
during a download: what was handed over is its beginning, and `response_buf`, the buffer on
the stack and the wire continue it, in the header (`InHeader`) and in the body (`InBody`) of
the answer that is due, across calls that leave a body unfinished and across a reconnection;
`FetchedIsPrefixHolds` follows. `RequestIntactHolds` rests on `_utils_fill_tx_buffer` keeping what was
sent and what is in the buffer together the text so far, by induction over the pieces, when the
writes go through (`SendSpoilt` is the other case);
`ExchangeSoundHolds` puts it together with the answer.

Every invariant and every safety property of steps that a run checks is stated by a theorem.
Only model-checked is liveness under fairness: `WaitingEnds`, `ReconnectsEventually`,
`AcknowledgedEventually`, `DownloadEnds` (a part of `DownloadProgresses`; the other,
`ProgressMonotone`, is proved), `CallEnds` and the fairness part of `ImplementsRequests` (`Refinement`
is its safety part). It is out of the prover's reach, as is `ENABLED`.

## 5. Not modelled

- `IOT_MQTT_Destroy` and `IOT_MQTT_Dynamic_Register`. The first deletes the mutexes and lists
  and is only safe when no other thread is inside a call; the second is a client like the
  others that waits for one message, and returns what its last yield returned.
- The bytes of CONNECT, SUBSCRIBE, UNSUBSCRIBE and their acknowledgements: records of what
  they are for. QoS2 is refused by the client for publishing; a received QoS2 message is
  answered with PUBREC and its handshake never completed.
- The buffer of repeated packet ids: `MQTT_CHECK_REPEAT_MSG` is defined nowhere.
- The TLS handshake, mbedtls and its configuration, the flash driver, sockets: the models
  let a read, a write, a connect or an allocation do what their callers see of it. `recv`
  returning 0 (the peer has closed) is ignored over TCP; only the keep-alive check ends such
  an MQTT connection.
- The JSON tokeniser, string helpers, base64 and the digests: pure functions on bytes.
- The mutex wait is unlimited here, while `HAL_MutexLock` gives up after 0xFFFF ticks and
  ignores it; the tick counter does not wrap here (`HAL_Timer_rtthread.c:26`).
- `_deliver_message` reads its slot after it has released `lock_generic`
  (`mqtt_client_common.c:750`); `MqttReceive` has one thread and does not show that race.
- The pointers of `utils_list.c` and allocation failures of list iterators.
- The version number of the shadow (copied from each message), `counter_network_disconnected`
  (nothing reads it), logging, samples, certificates and tools.

## 6. Plan

1. An abstract QoS1 publisher (accepted, then acknowledged or timed out, once) that
   `MqttPublish` implements under a refinement mapping, proved from `FateInvariant`; a
   pointer-level list that implements the sets and sequences used here; mutexes with a
   time limit.
2. Destruction of the client while calls are under way, and dynamic registration.
