----------------------------- MODULE HttpClient -----------------------------
(***************************************************************************)
(* The HTTP client (utils_httpc.c), the network interface under it         *)
(* (utils_net.c, the TCP and TLS ports) and its users: the ranged download *)
(* of a firmware (ota_fetch.c) and the calls that post one request         *)
(* (http_client.c, http_upload_file.c).  One thread calls; the server and  *)
(* the network move on their own.                                          *)
(*                                                                         *)
(* Text is a sequence of units of a few bytes.  A request is <<1, 2, ...>>.*)
(* An answer is a status line, CRLF, perhaps Content-Length, the blank     *)
(* line, and the body; byte i of the file is <<"file", i>>.                *)
(***************************************************************************)
EXTENDS Integers, Sequences, SequencesExt

CONSTANTS
    Build,         \* which of "tcp", "tls" are modelled (PKG_USING_UCLOUD_TLS)
    Server,        \* how a server takes a Range: "range" honours it, "whole" ignores it
    OneShot,       \* the calls that make one request: a subset of DOMAIN Blocks
    Pieces,        \* Pieces[c]: lengths of the texts that make up the request header
    SendBufSize,   \* HTTP_CLIENT_SEND_BUF_SIZE
    ReadBufSize,   \* HTTP_CLIENT_READ_BUF_SIZE
    HeadSize,      \* HTTP_CLIENT_READ_HEAD_SIZE
    ChunkSize,     \* HTTP_CLIENT_CHUNK_SIZE
    BufLen,        \* response_buf_len (HTTP_OTA_BUFF_LEN)
    RangeLen,      \* HTTP_OTA_RANGE_LEN
    FileLen,       \* length of the file
    RetryMax,      \* retry_max of _http_connect
    MaxExtend,     \* 2 * MAX_RETRY_COUNT
    MaxCall,       \* bound: one-shot calls and download sessions
    MaxReconnect,  \* bound: reconnections of a download
    MaxFault       \* bound: spoilt requests, stalls, odd or cut answers, resets

ASSUME HttpAssumption ==
    /\ Build \subseteq {"tcp", "tls"} /\ Server \subseteq {"range", "whole"}
    /\ OneShot \subseteq {"TOKEN", "PUBLISH", "AUTH", "UPLOAD"}
    /\ {SendBufSize, ReadBufSize, HeadSize, ChunkSize, BufLen, RangeLen, FileLen, RetryMax} \subseteq Nat \ {0}
    /\ {MaxExtend, MaxCall, MaxReconnect, MaxFault} \subseteq Nat
    /\ Pieces \in [OneShot \cup {"FETCH"} -> Seq(Nat)]
    /\ HeadSize >= 2 /\ ReadBufSize > HeadSize /\ ChunkSize >= 2 /\ BufLen > RangeLen + 2 /\ BufLen >= HeadSize

VARIABLES
    build, server,
    handle,     \* client->net.handle: 0, -1, or the number of a connection
    open,       \* connections that hold a socket (or a TLS context)
    peer,       \* the other end: "up", "closed" (it sent a FIN), "reset"
    wire,       \* what has arrived from it and is not read
    inbox,      \* requests it has not answered
    pc, call,   \* where the thread is, and in which call; "overrun": it has written
                \* past the end of its buffer, and what follows is not described
    tries,      \* retry_cnt of _http_connect
    d,          \* http_client_data_t: is_more, retrieve_len, response_content_len
    old,        \* retrieve_len when ofc_fetch began (its -diff)
    data,       \* what is in the buffer on the stack, of ReadBufSize
    resp,       \* response_buf
    extends,    \* extend_count
    got,        \* what a download has handed over
    heap,       \* blocks allocated by the call under way
    ret,        \* what the last call returned
    calls, reconnects, faults,
    seen        \* history of the call: the server sent something else than it was
                \* meant to be asked for, the download was moved to a new connection,
                \* the server fell silent within a header, it answered the last request

vars == <<build, server, handle, open, peer, wire, inbox, pc, call, tries, d, old, data,
          resp, extends, got, heap, ret, calls, reconnects, faults, seen>>

net    == <<handle, open, peer, wire, inbox, tries>>
reply  == <<d, old, data, resp, extends>>
setup  == <<build, server>>
counts == <<calls, reconnects, faults>>

SUCCESS == 0
FAILURE == -1
CONN_ERROR == -2     \* ERR_HTTP_CONN_ERROR
INVALID == -3        \* ERR_PARAM_INVALID, ERR_HTTP_UNRESOLVED_DNS
MORE == 1            \* HTTP_RETRIEVE_MORE_DATA

Small(x, y) == IF x < y THEN x ELSE y
From(s, n) == SubSeq(s, n, Len(s))
Cleared == [is_more |-> FALSE, retrieve_len |-> 0, content_len |-> 0]
Unseen == [page |-> FALSE, moved |-> FALSE, mute |-> FALSE, answered |-> FALSE]

\* The blocks a one-shot call allocates, in the order it does.
Blocks == [TOKEN   |-> <<"client", "data", "response", "post", "header">>,
           PUBLISH |-> <<"client", "data", "response", "post", "header", "url">>,
           AUTH    |-> <<"client", "data", "response", "post", "header">>,
           UPLOAD  |-> <<"client", "data", "response", "header", "post">>]

Init ==
    /\ build \in Build /\ server \in Server
    /\ handle = 0 /\ open = {} /\ peer = "closed" /\ wire = <<>> /\ inbox = <<>>
    /\ pc = "idle" /\ call = "none" /\ tries = 1
    /\ d = Cleared /\ old = 0 /\ data = <<>> /\ resp = <<>> /\ extends = 0 /\ got = <<>>
    /\ heap = {} /\ ret = SUCCESS /\ calls = 0 /\ reconnects = 0 /\ faults = 0
    /\ seen = Unseen

-----------------------------------------------------------------------------
(* Connecting. *)

\* _utils_parse_url refuses a url without "://" or without a path.
Url == {"good", "bad"}
_utils_parse_url(url) == url = "good"

\* ofc_init and ofc_connect on the fresh handle, or http_client_common on it.
Connect(url) ==
    /\ handle' = 0 /\ tries' = 1 /\ d' = Cleared /\ old' = 0
    /\ pc' = IF _utils_parse_url(url) THEN "connect" ELSE "end"
    /\ ret' = IF _utils_parse_url(url) THEN SUCCESS ELSE INVALID

\* connect_tcp, connect_ssl, and HAL_TCP_Connect, HAL_TLS_Connect under them.
Connected ==
    /\ pc = "connect"
    /\ handle' = calls + reconnects /\ open' = open \cup {handle'}
    /\ peer' = "up" /\ wire' = <<>> /\ inbox' = <<>> /\ pc' = "send"
    /\ UNCHANGED <<setup, call, tries, reply, got, heap, ret, counts, seen>>

\* disconnect_tcp, after a connection that failed, leaves -1 in the handle;
\* disconnect_ssl leaves 0.
Disconnected == IF build = "tcp" THEN -1 ELSE 0

\* Mutant: one try too many.
ConnectFailedMutant ==
    /\ pc = "connect" /\ faults < MaxFault
    /\ handle' = Disconnected
    /\ tries' = tries + 1 /\ faults' = IF tries > RetryMax THEN faults + 1 ELSE faults
    /\ pc' = IF tries > RetryMax THEN "send" ELSE pc
    /\ UNCHANGED <<setup, open, peer, wire, inbox, call, reply, got, heap, ret, calls, reconnects, seen>>

\* A try fails.  After the last one _http_connect still returns SUCCESS_RET.
ConnectFailed ==
    /\ pc = "connect" /\ faults < MaxFault
    /\ handle' = Disconnected
    /\ tries' = tries + 1 /\ faults' = IF tries = RetryMax THEN faults + 1 ELSE faults
    /\ pc' = IF tries = RetryMax THEN "send" ELSE pc
    /\ UNCHANGED <<setup, open, peer, wire, inbox, call, reply, got, heap, ret, calls, reconnects, seen>>

\* Mutant: the socket is forgotten.
CloseMutant == handle' = 0 /\ UNCHANGED open

http_client_close == handle' = 0 /\ open' = open \ {handle}

-----------------------------------------------------------------------------
(* A request. *)

\* Mutant: what is left of a text after a full buffer is sent stays unsent.
FillMutant(s, piece) ==
    LET all == s.buf \o piece IN
    IF Len(all) < SendBufSize THEN [s EXCEPT !.buf = all]
    ELSE [out |-> s.out \o SubSeq(all, 1, SendBufSize), buf |-> <<>>]

\* Fill the send buffer, sending it whenever it is full.
_utils_fill_tx_buffer(s, piece) ==
    LET all == s.buf \o piece
        full == (Len(all) \div SendBufSize) * SendBufSize
    IN [out |-> s.out \o SubSeq(all, 1, full), buf |-> From(all, full + 1)]

\* Where the texts that make up the header of call c end, one after the other.
Ends(c) == LET at[k \in 0..Len(Pieces[c])] == IF k = 0 THEN 0 ELSE at[k - 1] + Pieces[c][k]
           IN at
Text == [c \in DOMAIN Pieces |-> [i \in 1..Ends(c)[Len(Pieces[c])] |-> i]]

\* Text k of the header, and what has become of the first k.
Stretch(c, k) == [i \in 1..Pieces[c][k] |-> Ends(c)[k - 1] + i]
Filled(c) == LET sent[k \in 0..Len(Pieces[c])] ==
                   IF k = 0 THEN [out |-> <<>>, buf |-> <<>>]
                   ELSE _utils_fill_tx_buffer(sent[k - 1], Stretch(c, k))
             IN sent
_http_send_header == [c \in DOMAIN Pieces |-> Filled(c)[Len(Pieces[c])]]

\* ofc_fetch asks for RangeLen + 1 bytes: the bounds of a Range are inclusive.
Request == LET s == _http_send_header[call]
           IN [call |-> call, from |-> Len(got), text |-> s.out \o s.buf]

\* _http_send_request has returned rc; http_client_common closes on an error.
\* IOT_HTTP_Publish frees its url here, and only when the request was sent.
Sent(rc) ==
    IF rc = SUCCESS
      THEN pc' = "recv" /\ heap' = heap \ {"url"} /\ UNCHANGED <<handle, open, ret>>
      ELSE /\ pc' = "end" /\ ret' = rc /\ UNCHANGED heap
           /\ IF call = "FETCH" THEN UNCHANGED <<handle, open>> ELSE http_client_close

\* Every write went through, and the request line fitted.  A header that fills
\* the buffer exactly leaves a last write of no bytes, which both ports report
\* as a failure.
SendRequest ==
    /\ pc = "send" /\ handle > 0 /\ peer # "reset"
    /\ Sent(IF _http_send_header[call].buf = <<>> THEN CONN_ERROR ELSE SUCCESS)
    /\ inbox' = IF peer = "up" THEN Append(inbox, Request) ELSE inbox
    /\ seen' = [seen EXCEPT !.answered = FALSE]
    /\ UNCHANGED <<setup, peer, wire, tries, call, reply, got, counts>>

\* Text that is not the request's.
Spoilt == <<>>

\* HAL_Snprintf cuts a request line that HTTP_CLIENT_REQUEST_BUF_SIZE does not
\* hold, or a write fails or is cut short by its time-out.  That is an error in
\* the first text, and in a write of which nothing went through; else the call
\* goes on: after a failed fill with send_idx as it was, so that bytes are lost
\* or sent twice, after a short last write or a short body without the rest.
\* Something of it arrives at the server, or nothing.
SendSpoilt ==
    /\ pc = "send" /\ handle > 0 /\ faults < MaxFault
    /\ \E rc \in {SUCCESS, CONN_ERROR} : Sent(rc)
    /\ \/ UNCHANGED inbox
       \/ peer = "up" /\ inbox' = Append(inbox, [Request EXCEPT !.text = Spoilt])
    /\ faults' = faults + 1 /\ seen' = [seen EXCEPT !.answered = FALSE]
    /\ UNCHANGED <<setup, peer, wire, tries, call, reply, got, calls, reconnects>>

\* There is no connection: 0 is refused at once, -1 or one that was reset by
\* the socket.
SendUnconnected ==
    /\ pc = "send" /\ (handle <= 0 \/ peer = "reset")
    /\ Sent(IF handle = 0 THEN FAILURE ELSE CONN_ERROR)
    /\ seen' = [seen EXCEPT !.answered = FALSE]
    /\ UNCHANGED <<setup, peer, wire, inbox, tries, call, reply, got, counts>>

-----------------------------------------------------------------------------
(* The server and the network. *)

Status == <<"status", 0>>
Crlf   == <<"crlf", 0>>
Blank  == <<"blank", 0>>
Length(n) == <<"length", n>>
Good   == <<"good", 0>>
Field  == <<"field", 0>>
File(i, j) == [k \in 1..(j - i + 1) |-> <<"file", i + k - 1>>]
Page   == << <<"page", 0>>, <<"page", 1>> >>

\* What the request is meant to ask for.
Body(r) ==
    CASE r.call # "FETCH"   -> <<Good, Good, Good>>
      [] server = "whole"   -> File(0, FileLen - 1)
      [] OTHER              -> File(r.from, Small(r.from + RangeLen, FileLen - 1))
Answer(body) == <<Status, Crlf, Length(Len(body)), Blank>> \o body
Chunked == <<Status, Crlf, Blank, Good>>

\* A header that goes on beyond HTTP_CLIENT_READ_BUF_SIZE.
Lengthy == <<Status, Crlf>> \o [i \in 1..ReadBufSize |-> Field]

\* The answer meant, an error page in its place, a body in chunks, a header
\* without end; to a request that lost its Range, the whole file.
Answers(r) ==
    {Answer(Body(r)), Answer(Page), Chunked, Lengthy}
      \cup (IF r.call = "FETCH" /\ r.text = Spoilt THEN {Answer(File(0, FileLen - 1))} ELSE {})

\* The server answers the request, perhaps dying on the way.  Something else
\* than the answer meant is a fault of its own, but not of a spoilt request.
ServerAnswers ==
    /\ inbox # <<>> /\ peer = "up" /\ Len(wire) <= 2 * FileLen
    /\ \E odd \in BOOLEAN, text \in Answers(inbox[1]) :
         LET proper == text = Answer(Body(inbox[1])) IN
         /\ odd => faults < MaxFault
         /\ faults' = IF odd THEN faults + 1 ELSE faults
         /\ \E n \in IF odd /\ proper THEN 0..(Len(text) - 1) ELSE {Len(text)} :
              /\ proper \/ odd \/ inbox[1].text = Spoilt
              /\ wire' = wire \o SubSeq(text, 1, n)
              /\ peer' = IF n < Len(text) THEN "closed" ELSE peer
              /\ seen' = [seen EXCEPT !.page = @ \/ ~proper, !.answered = text # Lengthy /\ n >= 4,
                                      !.mute = @ \/ n \in 1..3]
    /\ inbox' = Tail(inbox)
    /\ UNCHANGED <<setup, handle, open, tries, pc, call, reply, got, heap, ret, calls, reconnects>>

PeerCloses ==
    /\ peer = "up" /\ open # {} /\ faults < MaxFault /\ faults' = faults + 1
    /\ peer' \in {"closed", "reset"}
    /\ UNCHANGED <<setup, handle, open, wire, inbox, tries, pc, call, reply, got, heap, ret,
                   calls, reconnects, seen>>

\* HAL_TCP_Read and HAL_TLS_Read wait for n units until the time-out; TCP
\* returns what came before an error and takes a FIN for silence, TLS loses it.
Reads(n) ==
    LET some == Small(n, Len(wire)) IN
    IF handle < 0 THEN {CONN_ERROR}
    ELSE IF some = n \/ peer = "up" \/ (build = "tcp" /\ (peer = "closed" \/ some > 0))
      THEN {some}
      ELSE {CONN_ERROR}

\* Mutant: a time-out is taken for an answer.
RecvMutant(n) == IF n < 0 THEN CONN_ERROR ELSE SUCCESS

_http_recv(n) == IF n > 0 THEN SUCCESS ELSE IF n = 0 THEN FAILURE ELSE CONN_ERROR

\* Read up to n units, k of them in time; a stall is a fault.
Read(n, k) ==
    /\ \/ k \in Reads(n) /\ UNCHANGED faults
       \/ /\ faults < MaxFault /\ faults' = faults + 1
          /\ handle > 0 /\ k \in 0..(Small(n, Len(wire)) - 1)
    /\ wire' = IF k >= 0 THEN From(wire, k + 1) ELSE wire

-----------------------------------------------------------------------------
(* An answer. *)

\* http_client_recv_data closes the connection on an error.
Received(rc) ==
    /\ pc' = "end" /\ ret' = Small(rc, SUCCESS)
    /\ IF rc < 0 THEN http_client_close ELSE UNCHANGED <<handle, open>>

\* ofc_fetch, or the call, asks for the answer.  When the last one was not
\* read to its end, its body goes on; else is_more is set and a header is read.
RecvResponse ==
    /\ pc = "recv"
    /\ old' = d.retrieve_len /\ resp' = <<>> /\ data' = <<>> /\ extends' = 0
    /\ d' = [d EXCEPT !.content_len = 0, !.is_more = TRUE]
    /\ pc' = IF d.is_more THEN "fill" ELSE "first"
    /\ UNCHANGED <<setup, net, call, got, heap, ret, counts, seen>>

FirstRead ==
    /\ pc = "first"
    /\ \E k \in -2..HeadSize :
         LET rc == _http_recv(k)
             text == SubSeq(wire, 1, k)
         IN /\ Read(HeadSize, k)
            /\ IF rc # SUCCESS THEN Received(rc) /\ UNCHANGED <<d, data>>
               ELSE IF k > 0 /\ Crlf \notin Range(text)
                 THEN Received(INVALID) /\ d' = [d EXCEPT !.content_len = -1] /\ UNCHANGED data
               ELSE /\ pc' = IF k > 0 THEN "header" ELSE "end"
                    /\ data' = From(text, 3) /\ d' = [d EXCEPT !.content_len = -1]
                    /\ UNCHANGED <<handle, open, ret>>
    /\ UNCHANGED <<setup, peer, inbox, tries, call, old, resp, extends, got, heap, calls, reconnects, seen>>

\* Read on until the blank line; a time-out is not noticed here, nor the end of
\* the buffer, which a final 0 must fit into as well.
ReadHeader ==
    /\ pc = "header" /\ Blank \notin Range(data)
    /\ \E k \in -2..HeadSize :
         /\ Read(HeadSize, k)
         /\ IF k < 0 THEN Received(CONN_ERROR) /\ UNCHANGED data
            ELSE /\ data' = data \o SubSeq(wire, 1, k)
                 /\ pc' = IF Len(data') >= ReadBufSize THEN "overrun" ELSE pc
                 /\ UNCHANGED <<handle, open, ret>>
    /\ UNCHANGED <<setup, peer, inbox, tries, call, d, old, resp, extends, got, heap, calls, reconnects, seen>>

\* The header is complete: take its Content-Length, keep what follows it.
_http_parse_response_header ==
    /\ pc = "header" /\ Blank \in Range(data)
    /\ LET end == CHOOSE i \in DOMAIN data : data[i] = Blank
           fields == {i \in 1..end : data[i][1] = "length"}
           length == data[Min(fields)][2]
       IN IF fields = {}
            THEN Received(CONN_ERROR) /\ UNCHANGED <<d, data>>
            ELSE /\ d' = [d EXCEPT !.content_len = length, !.retrieve_len = length]
                 /\ data' = From(data, end + 1) /\ pc' = "fill"
                 /\ UNCHANGED <<handle, open, ret>>
    /\ UNCHANGED <<setup, peer, wire, inbox, tries, call, old, resp, extends, got, heap, counts, seen>>

\* How much of n received units is copied, and whether response_buf is full.
_utils_fill_rx_buf(n) ==
    LET room == BufLen - 1 - Len(resp) IN
    IF n < room THEN [n |-> n, rc |-> SUCCESS] ELSE [n |-> room, rc |-> MORE]

\* _http_get_response_body: move what was received into response_buf.
FillBody ==
    /\ pc = "fill"
    /\ LET f == _utils_fill_rx_buf(Small(Len(data), d.retrieve_len))
           left == d.retrieve_len - f.n
       IN /\ resp' = resp \o SubSeq(data, 1, f.n)
          /\ d' = [d EXCEPT !.retrieve_len = left, !.is_more = f.rc = MORE \/ left > 0]
          /\ IF f.rc = MORE \/ left = 0 THEN Received(f.rc)
             ELSE pc' = "body" /\ UNCHANGED <<handle, open, ret>>
    /\ data' = <<>>
    /\ UNCHANGED <<setup, peer, wire, inbox, tries, call, old, extends, got, heap, counts, seen>>

\* Mutant: the time-outs of a body are not counted.
DeadloopMutant(k, e) == SUCCESS

\* The timer is extended again and again: after MaxExtend times, give up.
_utils_check_deadloop(k, e) == IF k = 0 /\ e > MaxExtend THEN CONN_ERROR ELSE SUCCESS

\* Mutant: more is read than there is room for.
MaxLenMutant == Small(ChunkSize - 1, d.retrieve_len)

max_len_to_receive == Small(Small(ChunkSize - 1, BufLen - 1 - Len(resp)), d.retrieve_len)

\* _http_get_response_body: read more of the body.  A read that timed out has
\* used up the timer, another one may have.
ReadBody ==
    /\ pc = "body"
    /\ LET n == max_len_to_receive IN
       \E k \in -2..n, late \in BOOLEAN :
         LET e == IF late THEN extends + 1 ELSE extends IN
         /\ Read(n, k) /\ (0 <= k /\ k < n => late) /\ (k < 0 => ~late)
         /\ extends' = Small(e, MaxExtend + 1)
         /\ IF k < 0 \/ _utils_check_deadloop(k, e) # SUCCESS
              THEN Received(CONN_ERROR) /\ UNCHANGED data
              ELSE /\ data' = SubSeq(wire, 1, k) /\ pc' = "fill"
                   /\ UNCHANGED <<handle, open, ret>>
    /\ UNCHANGED <<setup, peer, inbox, tries, call, d, old, resp, got, heap, calls, reconnects, seen>>

-----------------------------------------------------------------------------
(* The callers. *)

\* A download begins: ofc_init, ofc_connect.
BeginFetch ==
    /\ pc = "idle" /\ calls < MaxCall
    /\ \E url \in Url : Connect(url)
    /\ call' = "FETCH" /\ calls' = calls + 1 /\ heap' = heap \cup {"ofc"} /\ got' = <<>>
    /\ seen' = Unseen
    /\ UNCHANGED <<setup, open, peer, wire, inbox, data, resp, extends, reconnects, faults>>

ofc_deinit == http_client_close /\ heap' = heap \ {"ofc"}

\* ofc_fetch returns a length: response_content_len - retrieve_len - diff.
ofc_fetch == d.content_len - d.retrieve_len + old

FetchReturns ==
    /\ pc = "end" /\ call = "FETCH" /\ ret = SUCCESS
    /\ got' = got \o SubSeq(resp, 1, ofc_fetch)
    /\ resp' = <<>>
    /\ \/ /\ ofc_fetch > 0 /\ Len(got') < FileLen /\ pc' = "send"
          /\ UNCHANGED <<handle, open, heap, call>>
       \/ /\ ofc_fetch <= 0 \/ Len(got') >= FileLen
          /\ ofc_deinit /\ pc' = "idle" /\ call' = "none"
    /\ UNCHANGED <<setup, peer, wire, inbox, tries, d, old, data, extends, ret, counts, seen>>

\* ERR_HTTP_CONN_ERROR: drop the client for a new one, and ask again from here.
FetchReconnects ==
    /\ pc = "end" /\ call = "FETCH" /\ ret = CONN_ERROR /\ reconnects < MaxReconnect
    /\ handle' = 0 /\ open' = open \ {handle} /\ tries' = 1 /\ d' = Cleared /\ old' = 0
    /\ pc' = "connect" /\ ret' = SUCCESS /\ reconnects' = reconnects + 1
    /\ seen' = [seen EXCEPT !.moved = @ \/ got # <<>>]
    /\ UNCHANGED <<setup, peer, wire, inbox, call, data, resp, extends, got, heap, calls, faults>>

FetchFails ==
    /\ pc = "end" /\ call = "FETCH" /\ ret < 0
    /\ ret = CONN_ERROR => reconnects = MaxReconnect
    /\ ofc_deinit /\ pc' = "idle" /\ call' = "none" /\ resp' = <<>>
    /\ UNCHANGED <<setup, peer, wire, inbox, tries, d, old, data, extends, got, ret, counts, seen>>

\* A one-shot call allocates what it needs and calls http_client_common.
BeginCall ==
    /\ pc = "idle" /\ calls < MaxCall /\ calls' = calls + 1
    /\ \E c \in OneShot, url \in Url :
         /\ url = "bad" => c = "UPLOAD"
         /\ call' = c /\ heap' = heap \cup Range(Blocks[c]) /\ Connect(url)
    /\ got' = <<>> /\ seen' = Unseen
    /\ UNCHANGED <<setup, open, peer, wire, inbox, data, resp, extends, reconnects, faults>>

\* Mutant: response_buf is forgotten when the allocation after it fails.
FreedOnFailureMutant(c, k) == {Blocks[c][i] : i \in 1..(k - 1)} \ {"response"}

FreedOnFailure(c, k) == {Blocks[c][i] : i \in 1..(k - 1)}

\* An allocation fails: what was allocated before it is freed.  IOT_HTTP_Publish
\* does not tell its caller when it is the url's; IOT_HTTP_UPLOAD_FILE does not
\* look at two of its own and would stop on the NULL pointer.
AllocFails ==
    /\ pc = "idle" /\ calls < MaxCall /\ calls' = calls + 1
    /\ \E c \in OneShot : \E k \in DOMAIN Blocks[c] :
         /\ ~(c = "UPLOAD" /\ Blocks[c][k] \in {"response", "header"})
         /\ heap' = heap \cup ({Blocks[c][i] : i \in 1..(k - 1)} \ FreedOnFailure(c, k))
         /\ ret' = IF Blocks[c][k] = "url" THEN SUCCESS ELSE FAILURE
    /\ UNCHANGED <<setup, net, pc, call, reply, got, reconnects, faults, seen>>

\* What a call frees at its end, on every path.
Freed(c) == Range(Blocks[c]) \ {"url"}

CallReturns ==
    /\ pc = "end" /\ call \in OneShot
    /\ heap' = heap \ Freed(call) /\ http_client_close
    /\ pc' = "idle" /\ call' = "none" /\ resp' = <<>>
    /\ UNCHANGED <<setup, peer, wire, inbox, tries, d, old, data, extends, got, ret, counts, seen>>

Next ==
    \/ Connected \/ ConnectFailed \/ SendRequest \/ SendSpoilt \/ SendUnconnected
    \/ ServerAnswers \/ PeerCloses
    \/ RecvResponse \/ FirstRead \/ ReadHeader \/ _http_parse_response_header
    \/ FillBody \/ ReadBody
    \/ BeginFetch \/ FetchReturns \/ FetchReconnects \/ FetchFails
    \/ BeginCall \/ AllocFails \/ CallReturns

Client ==
    \/ Connected \/ SendRequest \/ SendUnconnected \/ RecvResponse \/ FirstRead \/ ReadHeader
    \/ _http_parse_response_header \/ FillBody \/ ReadBody
    \/ FetchReturns \/ FetchReconnects \/ FetchFails \/ CallReturns

Spec == Init /\ [][Next]_vars

\* The calling thread runs on; the server owes it nothing.  Every read times
\* out, so that the thread comes back from each (and in ReadHeader goes on to
\* the next, see CallEnds).
FairSpec == Spec /\ WF_vars(Client)

-----------------------------------------------------------------------------
(* Properties. *)

\* The longest body that is not read in chunks: the file, or an answer of three units.
Longest == IF FileLen < 3 THEN 3 ELSE FileLen

\* Type correctness, and _utils_fill_rx_buf keeps room for the final 0 in response_buf.
TypeOK ==
    /\ handle \in -1..(MaxCall + MaxReconnect) /\ open \subseteq 1..(MaxCall + MaxReconnect)
    /\ peer \in {"up", "closed", "reset"} /\ tries \in 1..(RetryMax + 1)
    /\ d.is_more \in BOOLEAN /\ d.retrieve_len \in 0..Longest /\ d.content_len \in -1..Longest
    /\ old \in 0..Longest /\ extends \in 0..(MaxExtend + 1)
    /\ Len(resp) <= BufLen - 1
    /\ ret \in {SUCCESS, FAILURE, CONN_ERROR, INVALID}

\* What the calls of ofc_fetch have handed over is the file from its beginning:
\* no byte lost between a header and its body, none taken from another answer,
\* whatever stalls, breaks and is asked for again.  (The status code is not
\* looked at, so an error page is taken for the file, and so is the file from
\* its beginning, when the Range was lost or, after a reconnection, ignored.)
FetchedIsPrefix ==
    (seen.page \/ (server = "whole" /\ seen.moved)) \/ got = File(0, Len(got) - 1)

\* Every socket (or TLS context) is reachable: nothing stays open but the
\* connection in the handle, whichever connect, send or receive failed.
NoSocketLeak == open \subseteq {handle}

\* Between calls nothing is allocated, whichever allocation, write or read
\* failed, but the url of an IOT_HTTP_Publish whose request was not sent.
NoMemoryLeak == pc = "idle" => heap \subseteq {"url"}

\* Every error path cleans up: no socket and no block stays behind.
NoLeak == NoSocketLeak /\ NoMemoryLeak

\* A one-shot call that waited for an answer and returns SUCCESS_RET got one to
\* its own request, whatever was cut short, timed out or reset on the way.  It
\* may be an error page to a request that arrived in part: the status code is
\* not looked at.
SuccessWasAnswered == pc = "end" /\ call \in OneShot /\ ret = SUCCESS => seen.answered

\* A request all of whose writes went through, and whose line fitted, arrives as
\* the text that was meant, however its pieces fall on the limits of the send
\* buffer of _utils_fill_tx_buffer.  (Any other may arrive spoilt, unnoticed.)
RequestIntact == \A i \in DOMAIN inbox : inbox[i].text \in {Text[inbox[i].call], Spoilt}

\* The exchange is sound as far as the code makes it so: only a fault of the
\* connection or a line too long spoils a request, and a success that is
\* returned is its answer.
ExchangeSound == RequestIntact /\ SuccessWasAnswered

\* Every call and every download ends, unless the server falls silent in the
\* middle of a header or goes on with it past the end of the buffer: reads time
\* out, and _utils_check_deadloop counts them.
CallEnds == []<>(pc \in {"idle", "overrun"} \/ seen.mute)
=============================================================================
