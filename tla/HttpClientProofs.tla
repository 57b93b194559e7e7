-------------------------- MODULE HttpClientProofs --------------------------
(***************************************************************************)
(* Theorems about HttpClient, whatever the sizes of the buffers, the       *)
(* texts, the number of calls and of faults: no socket and no block stays  *)
(* behind, the types are kept, a length that ofc_fetch returns is what     *)
(* response_buf holds, what a download hands over is the file from its     *)
(* beginning, a request that no fault spoilt arrives as it was meant, and  *)
(* a success is an answer to it.                                           *)
(***************************************************************************)
EXTENDS HttpClient, RecursionTheorems, SequenceTheorems, TLAPS

\* What is open is in the handle; nothing is open before a connection is made
\* and between calls.
SocketInv ==
    /\ open \subseteq {handle}
    /\ pc \in {"idle", "connect"} => open = {}

\* What a call under way has allocated is what it frees at its end; a url that
\* an earlier IOT_HTTP_Publish left behind may be there as well.
HeapInv ==
    /\ pc = "idle" => heap \subseteq {"url"}
    /\ pc # "idle" =>
         \/ call = "FETCH" /\ heap \subseteq {"url", "ofc"}
         \/ call \in OneShot /\ heap \subseteq Range(Blocks[call]) \cup {"url"}

-----------------------------------------------------------------------------
(* Sockets *)

\* Every step keeps the socket in the handle or closes it.
LEMMA SocketNext == SocketInv /\ [Next]_vars => SocketInv'
<1> SUFFICES ASSUME SocketInv, [Next]_vars PROVE SocketInv'
  OBVIOUS
<1> USE DEF SocketInv
<1>1. CASE Connected
  BY <1>1 DEF Connected
<1>2. CASE ConnectFailed
  BY <1>2 DEF ConnectFailed
<1>3. CASE SendRequest \/ SendSpoilt \/ SendUnconnected
  BY <1>3 DEF SendRequest, SendSpoilt, SendUnconnected, Sent, http_client_close
<1>4. CASE ServerAnswers \/ PeerCloses
  BY <1>4 DEF ServerAnswers, PeerCloses
<1>5. CASE RecvResponse
  BY <1>5 DEF RecvResponse, net
<1>6. CASE FirstRead
  BY <1>6 DEF FirstRead, Received, http_client_close
<1>7. CASE ReadHeader
  BY <1>7 DEF ReadHeader, Received, http_client_close
<1>8. CASE _http_parse_response_header
  BY <1>8 DEF _http_parse_response_header, Received, http_client_close
<1>9. CASE FillBody
  BY <1>9 DEF FillBody, Received, http_client_close
<1>10. CASE ReadBody
  BY <1>10 DEF ReadBody, Received, http_client_close
<1>11. CASE BeginFetch \/ BeginCall
  BY <1>11 DEF BeginFetch, BeginCall, Connect
<1>12. CASE FetchReturns \/ FetchFails \/ CallReturns
  BY <1>12 DEF FetchReturns, FetchFails, CallReturns, ofc_deinit, http_client_close
<1>13. CASE FetchReconnects
  BY <1>13 DEF FetchReconnects
<1>14. CASE AllocFails
  BY <1>14 DEF AllocFails, net
<1>15. CASE UNCHANGED vars
  BY <1>15 DEF vars
<1>16. QED
  BY <1>1, <1>2, <1>3, <1>4, <1>5, <1>6, <1>7, <1>8, <1>9, <1>10, <1>11, <1>12,
     <1>13, <1>14, <1>15 DEF Next

\* Every socket (or TLS context) is reachable through the handle, whichever
\* connect, send or receive failed.
THEOREM NoSocketLeakHolds == Spec => []NoSocketLeak
<1>1. Init => SocketInv
  BY DEF Init, SocketInv
<1>2. SocketInv => NoSocketLeak
  BY DEF SocketInv, NoSocketLeak
<1>3. QED
  BY <1>1, <1>2, SocketNext, PTL DEF Spec

-----------------------------------------------------------------------------
(* Memory *)

\* Every step keeps what the call under way has allocated, or frees it.
LEMMA HeapNext == HeapInv /\ [Next]_vars => HeapInv'
<1> SUFFICES ASSUME HeapInv, [Next]_vars PROVE HeapInv'
  OBVIOUS
<1> USE DEF HeapInv
<1>1. CASE Connected \/ ConnectFailed
  BY <1>1 DEF Connected, ConnectFailed
<1>2. CASE SendRequest \/ SendSpoilt \/ SendUnconnected
  BY <1>2 DEF SendRequest, SendSpoilt, SendUnconnected, Sent
<1>3. CASE ServerAnswers \/ PeerCloses
  BY <1>3 DEF ServerAnswers, PeerCloses
<1>4. CASE RecvResponse
  BY <1>4 DEF RecvResponse
<1>5. CASE FirstRead
  BY <1>5 DEF FirstRead, Received
<1>6. CASE ReadHeader
  BY <1>6 DEF ReadHeader, Received
<1>7. CASE _http_parse_response_header
  BY <1>7 DEF _http_parse_response_header, Received
<1>8. CASE FillBody
  BY <1>8 DEF FillBody, Received
<1>9. CASE ReadBody
  BY <1>9 DEF ReadBody, Received
<1>10. CASE BeginFetch
  BY <1>10 DEF BeginFetch, Connect
<1>11. CASE BeginCall
  <2>1. PICK c \in OneShot : call' = c /\ heap' = heap \cup Range(Blocks[c])
    BY <1>11 DEF BeginCall
  <2>2. pc = "idle" /\ pc' # "idle"
    BY <1>11 DEF BeginCall, Connect
  <2>3. QED
    BY <2>1, <2>2
<1>12. CASE FetchReturns
  BY <1>12, HttpAssumption DEF FetchReturns, ofc_deinit
<1>13. CASE FetchReconnects
  BY <1>13 DEF FetchReconnects
<1>14. CASE FetchFails
  BY <1>14, HttpAssumption DEF FetchFails, ofc_deinit
<1>15. CASE AllocFails
  <2>1. PICK c \in OneShot : \E k \in DOMAIN Blocks[c] :
           heap' = heap \cup ({Blocks[c][i] : i \in 1..(k - 1)} \ FreedOnFailure(c, k))
    BY <1>15 DEF AllocFails
  <2>2. heap' = heap
    BY <2>1 DEF FreedOnFailure
  <2>3. pc' = pc /\ call' = call
    BY <1>15 DEF AllocFails
  <2>4. QED
    BY <2>2, <2>3
<1>16. CASE CallReturns
  <2>1. pc # "idle" /\ pc' = "idle" /\ call \in OneShot /\ heap' = heap \ Freed(call)
    BY <1>16 DEF CallReturns
  <2>2. heap \subseteq Range(Blocks[call]) \cup {"url"}
    BY <2>1, HttpAssumption
  <2>3. QED
    BY <2>1, <2>2 DEF Freed
<1>17. CASE UNCHANGED vars
  BY <1>17 DEF vars
<1>18. QED
  BY <1>1, <1>2, <1>3, <1>4, <1>5, <1>6, <1>7, <1>8, <1>9, <1>10, <1>11, <1>12,
     <1>13, <1>14, <1>15, <1>16, <1>17 DEF Next

\* Between calls nothing is allocated but the url of an IOT_HTTP_Publish whose
\* request was not sent.
THEOREM NoMemoryLeakHolds == Spec => []NoMemoryLeak
<1>1. Init => HeapInv
  BY DEF Init, HeapInv
<1>2. HeapInv => NoMemoryLeak
  BY DEF HeapInv, NoMemoryLeak
<1>3. QED
  BY <1>1, <1>2, HeapNext, PTL DEF Spec

\* Every error path of the HTTP client and its callers cleans up, for any sizes
\* of buffers and texts and any number of calls and faults.
THEOREM NoLeakHolds == Spec => []NoLeak
BY NoSocketLeakHolds, NoMemoryLeakHolds, PTL DEF NoLeak

-----------------------------------------------------------------------------
(* Types and lengths *)

\* What travels: units of text, and requests.
Kind == {"status", "crlf", "blank", "length", "field", "good", "page", "file"}
Unit == Kind \X (0 .. Longest)
Call == {"FETCH"} \cup OneShot
Message == [call : Call, from : Nat,
            text : {_http_send_header[c].out \o _http_send_header[c].buf : c \in Call} \cup {Spoilt}]

ResponseData == [is_more : BOOLEAN, retrieve_len : 0..Longest, content_len : -1..Longest]
History == [page : BOOLEAN, moved : BOOLEAN, mute : BOOLEAN, answered : BOOLEAN]
ClientPc == {"idle", "connect", "send", "recv", "first", "header", "fill", "body", "end",
             "overrun"}

\* The text on the way and in the buffers.
TextInv ==
    /\ wire \in Seq(Unit) /\ data \in Seq(Unit) /\ resp \in Seq(Unit) /\ got \in Seq(Unit)
    /\ inbox \in Seq(Message)
    /\ Len(resp) <= BufLen - 1

\* The connections, and which call is under way.
CallInv ==
    /\ handle \in -1..(MaxCall + MaxReconnect) /\ open \subseteq 1..(MaxCall + MaxReconnect)
    /\ peer \in {"up", "closed", "reset"} /\ tries \in 1..(RetryMax + 1)
    /\ pc = "connect" => tries <= RetryMax
    /\ calls \in 0..MaxCall /\ reconnects \in 0..MaxReconnect
    /\ pc \in ClientPc /\ (pc # "idle" => call \in Call /\ calls >= 1)
    /\ ret \in {SUCCESS, FAILURE, CONN_ERROR, INVALID}
    /\ seen \in History /\ extends \in 0..(MaxExtend + 1)

\* The lengths a download goes by: what is left of a body, and what ofc_fetch
\* will return.
LengthInv ==
    /\ d \in ResponseData /\ old \in 0..Longest
    /\ pc \in {"connect", "send", "recv"} \/ (pc = "end" /\ ret = SUCCESS) =>
         (~d.is_more => d.retrieve_len = 0)
    /\ pc \in {"first", "header"} => resp = <<>> /\ old = 0
    /\ pc \in {"fill", "body"} \/ (pc = "end" /\ ret = SUCCESS) => ofc_fetch = Len(resp)

TypeInv == TextInv /\ CallInv /\ LengthInv

\* The units of a sequence.
Units(q) == {q[i] : i \in 1 .. Len(q)}

\* A one-shot call: its connection is its own, nothing but the answer to its
\* request comes over it, and without a complete header there is no blank line.
AnswerInv ==
    call \in OneShot =>
      /\ pc \in {"connect", "send", "recv"} => ~d.is_more
      /\ pc = "send" /\ handle > 0 => wire = <<>> /\ inbox = <<>>
      /\ pc \in {"recv", "first"} => Len(inbox) <= 1
      /\ pc \in {"recv", "first"} /\ inbox # <<>> => wire = <<>> /\ ~seen.answered
      /\ pc \in {"recv", "first", "header"} /\ ~seen.answered => Blank \notin Units(wire)
      /\ pc = "header" => inbox = <<>> /\ (~seen.answered => Blank \notin Units(data))
      /\ pc \in {"fill", "body"} \/ (pc = "end" /\ ret = SUCCESS) =>
           inbox = <<>> /\ seen.answered

LEMMA Sizes ==
    /\ HeadSize \in Nat /\ ChunkSize \in Nat /\ BufLen \in Nat /\ RangeLen \in Nat
    /\ FileLen \in Nat /\ RetryMax \in Nat /\ MaxExtend \in Nat /\ MaxCall \in Nat
    /\ MaxReconnect \in Nat /\ MaxFault \in Nat /\ Longest \in Nat
    /\ ChunkSize >= 2 /\ HeadSize >= 2 /\ BufLen > RangeLen + 2 /\ BufLen >= HeadSize
    /\ RetryMax >= 1
    /\ FileLen >= 1 /\ FileLen <= Longest /\ 3 <= Longest
    /\ "FETCH" \notin OneShot /\ "none" \notin OneShot
BY HttpAssumption DEF Longest

LEMMA UnitText ==
    ASSUME NEW a \in Kind, NEW n \in 0 .. Longest
    PROVE  <<a, n>> \in Unit
BY DEF Unit

\* The least of a non-empty set of positions is one of them.
LEMMA MinInSet ==
    ASSUME NEW S \in SUBSET Nat, S # {}
    PROVE  Min(S) \in S
<1>1. \E x \in S : \A y \in S : ~(<<y, x>> \in OpToRel(<, Nat))
  BY NatLessThanWellFounded, WFMin
<1>2. PICK x \in S : \A y \in S : ~(y < x)
  BY <1>1 DEF OpToRel
<1>3. \A y \in S : x <= y
  BY <1>2
<1> QED
  BY <1>3 DEF Min

\* What a stretch of a text is made of.
LEMMA Stretches ==
    ASSUME NEW q \in Seq(Unit), NEW m \in Int, NEW n \in Int, 1 <= m, n <= Len(q)
    PROVE  /\ SubSeq(q, m, n) \in Seq(Unit)
           /\ Len(SubSeq(q, m, n)) = IF m <= n THEN n - m + 1 ELSE 0
           /\ Units(SubSeq(q, m, n)) \subseteq Units(q)
<1>1. \A i \in m .. n : i \in 1 .. Len(q) /\ q[i] \in Unit
  OBVIOUS
<1>2. /\ SubSeq(q, m, n) \in Seq(Unit)
      /\ Len(SubSeq(q, m, n)) = IF m <= n THEN n - m + 1 ELSE 0
      /\ \A i \in 1 .. n - m + 1 : SubSeq(q, m, n)[i] = q[m + i - 1]
  BY <1>1, SubSeqProperties
<1>3. ASSUME NEW i \in 1 .. Len(SubSeq(q, m, n))
      PROVE  SubSeq(q, m, n)[i] \in Units(q)
  <2>1. i \in 1 .. n - m + 1
    BY <1>2, <1>3
  <2>2. SubSeq(q, m, n)[i] = q[m + i - 1]
    BY <1>2, <2>1
  <2>3. m + i - 1 \in 1 .. Len(q)
    BY <2>1
  <2> QED
    BY <2>2, <2>3 DEF Units
<1> QED
  BY <1>2, <1>3 DEF Units

\* What is left of a text.
LEMMA Rests ==
    ASSUME NEW q \in Seq(Unit), NEW m \in Int, 1 <= m
    PROVE  From(q, m) \in Seq(Unit) /\ Units(From(q, m)) \subseteq Units(q)
BY Stretches DEF From

LEMMA JoinedUnits ==
    ASSUME NEW p \in Seq(Unit), NEW q \in Seq(Unit)
    PROVE  /\ p \o q \in Seq(Unit) /\ Len(p \o q) = Len(p) + Len(q)
           /\ Units(p \o q) = Units(p) \cup Units(q)
<1>1. p \o q \in Seq(Unit) /\ Len(p \o q) = Len(p) + Len(q)
  OBVIOUS
<1>2. \A i \in 1 .. Len(p) + Len(q) :
        (p \o q)[i] = IF i <= Len(p) THEN p[i] ELSE q[i - Len(p)]
  OBVIOUS
<1>3. Units(p \o q) \subseteq Units(p) \cup Units(q)
  BY <1>1, <1>2 DEF Units
<1>4. Units(p) \subseteq Units(p \o q)
  BY <1>1, <1>2 DEF Units
<1>5. ASSUME NEW i \in 1 .. Len(q)
      PROVE  q[i] \in Units(p \o q)
  <2>1. Len(p) + i \in 1 .. Len(p \o q)
    BY <1>1
  <2>2. (p \o q)[Len(p) + i] = q[i]
    BY <1>1, <1>2, <2>1
  <2> QED
    BY <2>1, <2>2 DEF Units
<1> QED
  BY <1>1, <1>3, <1>4, <1>5 DEF Units

\* HAL_TCP_Read and HAL_TLS_Read take no more than was asked for, nor than there is.
LEMMA ReadFacts ==
    ASSUME NEW n \in Nat, NEW k \in Int, wire \in Seq(Unit), Read(n, k)
    PROVE  /\ k <= n /\ k <= Len(wire)
           /\ SubSeq(wire, 1, k) \in Seq(Unit) /\ (k >= 0 => Len(SubSeq(wire, 1, k)) = k)
           /\ Units(SubSeq(wire, 1, k)) \subseteq Units(wire)
           /\ wire' \in Seq(Unit) /\ Units(wire') \subseteq Units(wire)
<1>1. Len(wire) \in Nat
  OBVIOUS
<1>2. k <= n /\ k <= Len(wire)
  BY <1>1 DEF Read, Reads, Small, CONN_ERROR
<1>3. wire' = IF k >= 0 THEN From(wire, k + 1) ELSE wire
  BY DEF Read
<1>4. wire' \in Seq(Unit) /\ Units(wire') \subseteq Units(wire)
  BY <1>3, Rests
<1> QED
  BY <1>1, <1>2, <1>4, Stretches

-----------------------------------------------------------------------------
(* What the server sends *)

\* A stretch of the file.
LEMMA FileText ==
    ASSUME NEW i \in Nat, NEW j \in Int, j < FileLen
    PROVE  File(i, j) \in Seq(Unit) /\ Len(File(i, j)) <= Longest
<1> DEFINE n == IF j - i + 1 > 0 THEN j - i + 1 ELSE 0
<1>1. n \in Nat /\ n <= Longest /\ 1 .. n = 1 .. (j - i + 1)
  BY Sizes
<1>2. File(i, j) = [k \in 1 .. n |-> <<"file", i + k - 1>>]
  BY <1>1 DEF File
<1> HIDE DEF n
<1>3. \A k \in 1 .. n : <<"file", i + k - 1>> \in Unit
  <2> SUFFICES ASSUME NEW k \in 1 .. n PROVE <<"file", i + k - 1>> \in Unit
    OBVIOUS
  <2>1. i + k - 1 \in 0 .. Longest
    BY <1>1, Sizes DEF n
  <2> QED
    BY <2>1, UnitText DEF Kind
<1>4. File(i, j) \in [1 .. n -> Unit]
  BY <1>2, <1>3
<1>5. File(i, j) \in Seq(Unit)
  BY <1>1, <1>4
<1>6. Len(File(i, j)) = n
  BY <1>1, <1>2
<1> QED
  BY <1>1, <1>5, <1>6

LEMMA BodyText ==
    ASSUME NEW r \in Message
    PROVE  Body(r) \in Seq(Unit) /\ Len(Body(r)) <= Longest
<1>1. <<Good, Good, Good>> \in Seq(Unit) /\ Len(<<Good, Good, Good>>) <= Longest
  <2>1. Good \in Unit
    BY Sizes, UnitText DEF Good, Kind
  <2> QED
    BY <2>1, Sizes
<1>2. File(0, FileLen - 1) \in Seq(Unit) /\ Len(File(0, FileLen - 1)) <= Longest
  <2>1. 0 \in Nat /\ FileLen - 1 \in Int /\ FileLen - 1 < FileLen
    BY Sizes
  <2> QED
    BY <2>1, FileText
<1>3. r.from \in Nat
  BY DEF Message
<1> DEFINE j == Small(r.from + RangeLen, FileLen - 1)
<1>4. j \in Int /\ j < FileLen
  BY <1>3, Sizes DEF Small
<1> HIDE DEF j
<1>5. File(r.from, j) \in Seq(Unit) /\ Len(File(r.from, j)) <= Longest
  BY <1>3, <1>4, FileText
<1> QED
  BY <1>1, <1>2, <1>5 DEF Body, j

\* The header of an answer with a length ends with its fourth unit.
LEMMA AnswerText ==
    ASSUME NEW b \in Seq(Unit), Len(b) <= Longest
    PROVE  /\ Answer(b) \in Seq(Unit) /\ Len(Answer(b)) >= 4
           /\ \A i \in 1 .. 3 : Answer(b)[i] # Blank
<1> DEFINE h == <<Status, Crlf, Length(Len(b)), Blank>>
<1>1. Status \in Unit /\ Crlf \in Unit /\ Blank \in Unit /\ Length(Len(b)) \in Unit
  BY Sizes, UnitText DEF Status, Crlf, Blank, Length, Kind
<1>2. h \in Seq(Unit) /\ Len(h) = 4
  BY <1>1
<1>3. h[1] # Blank /\ h[2] # Blank /\ h[3] # Blank
  BY DEF Status, Crlf, Blank, Length
<1>4. Answer(b) = h \o b
  BY DEF Answer
<1> HIDE DEF h
<1>5. \A i \in 1 .. 3 : (h \o b)[i] = h[i]
  <2>1. Len(b) \in Nat /\ \A i \in 1 .. 3 : i <= Len(h) /\ i \in 1 .. Len(h) + Len(b)
    BY <1>2
  <2>2. \A i \in 1 .. Len(h) + Len(b) : (h \o b)[i] = IF i <= Len(h) THEN h[i] ELSE b[i - Len(h)]
    BY <1>2, ConcatProperties, Zenon
  <2> QED
    BY <2>1, <2>2
<1>6. h \o b \in Seq(Unit) /\ Len(h \o b) >= 4
  <2>1. h \o b \in Seq(Unit) /\ Len(h \o b) = Len(h) + Len(b)
    BY <1>2, ConcatProperties, Zenon
  <2>2. Len(b) \in Nat
    OBVIOUS
  <2> QED
    BY <1>2, <2>1, <2>2
<1>7. \A i \in 1 .. 3 : h[i] # Blank
  BY <1>3
<1> QED
  BY <1>4, <1>5, <1>6, <1>7

LEMMA PageText == Answer(Page) \in Seq(Unit) /\ Len(Answer(Page)) >= 4
<1>1. Page \in Seq(Unit) /\ Len(Page) <= Longest
  <2>1. <<"page", 0>> \in Unit /\ <<"page", 1>> \in Unit
    BY Sizes, UnitText DEF Kind
  <2> QED
    BY <2>1, Sizes DEF Page
<1> QED
  BY <1>1, AnswerText

LEMMA ChunkedText == Chunked \in Seq(Unit) /\ Len(Chunked) = 4
<1>1. Status \in Unit /\ Crlf \in Unit /\ Blank \in Unit /\ Good \in Unit
  BY Sizes, UnitText DEF Status, Crlf, Blank, Good, Kind
<1> QED
  BY <1>1 DEF Chunked

\* A header without end has no blank line.
LEMMA LengthyText ==
    /\ Lengthy \in Seq(Unit) /\ Len(Lengthy) >= 4
    /\ \A i \in 1 .. Len(Lengthy) : Lengthy[i] # Blank
<1> DEFINE h == <<Status, Crlf>>
           f == [i \in 1..ReadBufSize |-> Field]
<1>1. Status \in Unit /\ Crlf \in Unit /\ Field \in Unit
  BY Sizes, UnitText DEF Status, Crlf, Field, Kind
<1>2. ReadBufSize \in Nat /\ ReadBufSize >= 2
  BY HttpAssumption
<1>3. h \in Seq(Unit) /\ Len(h) = 2 /\ \A i \in 1 .. 2 : h[i] # Blank
  <2>1. Status # Blank /\ Crlf # Blank
    BY DEF Status, Crlf, Blank
  <2> QED
    BY <1>1, <2>1
<1>4. f \in Seq(Unit) /\ Len(f) = ReadBufSize /\ \A i \in 1 .. ReadBufSize : f[i] # Blank
  <2>1. f \in [1 .. ReadBufSize -> Unit]
    BY <1>1
  <2>2. Field # Blank
    BY DEF Field, Blank
  <2> QED
    BY <1>2, <2>1, <2>2
<1>5. Lengthy = h \o f
  BY DEF Lengthy
<1> HIDE DEF h, f
<1>6. /\ h \o f \in Seq(Unit) /\ Len(h \o f) = Len(h) + Len(f)
      /\ \A i \in 1 .. Len(h) + Len(f) : (h \o f)[i] = IF i <= Len(h) THEN h[i] ELSE f[i - Len(h)]
  BY <1>3, <1>4, ConcatProperties, Zenon
<1>7. ASSUME NEW i \in 1 .. 2 + ReadBufSize
      PROVE  (h \o f)[i] # Blank
  <2>1. (h \o f)[i] = IF i <= 2 THEN h[i] ELSE f[i - 2]
    BY <1>3, <1>4, <1>6
  <2>2. i <= 2 => i \in 1 .. 2
    BY <1>2
  <2>3. ~(i <= 2) => i - 2 \in 1 .. ReadBufSize
    BY <1>2
  <2> QED
    BY <1>3, <1>4, <2>1, <2>2, <2>3
<1> QED
  BY <1>2, <1>3, <1>4, <1>5, <1>6, <1>7

\* Whatever the server answers is text; the answer meant has no blank line before
\* its fourth unit, a header without end has none at all.
LEMMA AnswersText ==
    ASSUME NEW r \in Message, NEW t \in Answers(r)
    PROVE  /\ t \in Seq(Unit) /\ Len(t) >= 4 /\ Len(t) \in Nat
           /\ t = Answer(Body(r)) => \A i \in 1 .. 3 : t[i] # Blank
           /\ t = Lengthy => \A i \in 1 .. Len(t) : t[i] # Blank
<1>1. /\ Answer(Body(r)) \in Seq(Unit) /\ Len(Answer(Body(r))) >= 4
      /\ \A i \in 1 .. 3 : Answer(Body(r))[i] # Blank
  BY BodyText, AnswerText
<1>2. Answer(File(0, FileLen - 1)) \in Seq(Unit) /\ Len(Answer(File(0, FileLen - 1))) >= 4
  <2>1. 0 \in Nat /\ FileLen - 1 \in Int /\ FileLen - 1 < FileLen
    BY Sizes
  <2>2. File(0, FileLen - 1) \in Seq(Unit) /\ Len(File(0, FileLen - 1)) <= Longest
    BY <2>1, FileText
  <2> QED
    BY <2>2, AnswerText
<1>3. t \in {Answer(Body(r)), Answer(Page), Chunked, Lengthy, Answer(File(0, FileLen - 1))}
  BY DEF Answers
<1>4. t \in Seq(Unit) /\ Len(t) >= 4
  <2>1. CASE t = Answer(Body(r))
    BY <1>1, <2>1
  <2>2. CASE t = Answer(Page)
    BY <2>2, PageText
  <2>3. CASE t = Chunked
    BY <2>3, ChunkedText
  <2>4. CASE t = Lengthy
    BY <2>4, LengthyText
  <2>5. CASE t = Answer(File(0, FileLen - 1))
    BY <1>2, <2>5
  <2> QED
    BY <1>3, <2>1, <2>2, <2>3, <2>4, <2>5
<1>5. Len(t) \in Nat
  BY <1>4
<1>6. t = Answer(Body(r)) => \A i \in 1 .. 3 : t[i] # Blank
  BY <1>1, Zenon
<1>7. t = Lengthy => \A i \in 1 .. Len(t) : t[i] # Blank
  BY LengthyText, Zenon
<1> QED
  BY <1>4, <1>5, <1>6, <1>7

\* What the server puts on the wire: a stretch of an answer.  It has answered
\* unless the stretch holds no blank line.
LEMMA ServerFacts ==
    ASSUME TextInv, CallInv, ServerAnswers
    PROVE  \E t \in Seq(Unit) :
             /\ wire' = wire \o t
             /\ ~seen'.answered => Blank \notin Units(t)
             /\ seen' \in History
             /\ peer' \in {"up", "closed", "reset"}
<1>1. inbox # <<>> /\ inbox[1] \in Message
  BY DEF ServerAnswers, TextInv
<1> DEFINE good == Answer(Body(inbox[1]))
<1>3. PICK odd \in BOOLEAN, text \in Answers(inbox[1]) :
        /\ odd => faults < MaxFault
        /\ faults' = IF odd THEN faults + 1 ELSE faults
        /\ \E n \in IF odd /\ text = good THEN 0 .. (Len(text) - 1) ELSE {Len(text)} :
             /\ text = good \/ odd \/ inbox[1].text = Spoilt
             /\ wire' = wire \o SubSeq(text, 1, n)
             /\ peer' = IF n < Len(text) THEN "closed" ELSE peer
             /\ seen' = [seen EXCEPT !.page = @ \/ ~(text = good),
                                     !.answered = text # Lengthy /\ n >= 4,
                                     !.mute = @ \/ n \in 1..3]
  BY Zenon DEF ServerAnswers, good
<1>4. /\ text \in Seq(Unit) /\ Len(text) >= 4 /\ Len(text) \in Nat
      /\ text = good => \A i \in 1 .. 3 : text[i] # Blank
      /\ text = Lengthy => \A i \in 1 .. Len(text) : text[i] # Blank
  BY <1>1, AnswersText, Zenon DEF good
<1> HIDE DEF good
<1>5. PICK n \in IF odd /\ text = good THEN 0 .. (Len(text) - 1) ELSE {Len(text)} :
          /\ wire' = wire \o SubSeq(text, 1, n)
          /\ peer' = IF n < Len(text) THEN "closed" ELSE peer
          /\ seen' = [seen EXCEPT !.page = @ \/ ~(text = good),
                                  !.answered = text # Lengthy /\ n >= 4,
                                  !.mute = @ \/ n \in 1..3]
  BY <1>3
<1>6. n \in Nat /\ n <= Len(text) /\ (n < 4 => text = good)
  BY <1>4, <1>5
<1>7. SubSeq(text, 1, n) \in Seq(Unit) /\ Len(SubSeq(text, 1, n)) = n
  BY <1>4, <1>6, Stretches
<1>8. ASSUME n < 4 \/ text = Lengthy
      PROVE  Blank \notin Units(SubSeq(text, 1, n))
  <2>1. \A i \in 1 .. n : SubSeq(text, 1, n)[i] = text[i]
    BY <1>4, <1>6
  <2>2. \A i \in 1 .. n : text[i] # Blank
    <3>1. CASE text = Lengthy
      BY <1>4, <1>6, <3>1
    <3>2. CASE n < 4 /\ text = good
      BY <1>4, <1>6, <3>2
    <3> QED
      BY <1>6, <1>8, <3>1, <3>2
  <2> QED
    BY <1>7, <2>1, <2>2 DEF Units
<1> DEFINE answered == text # Lengthy /\ n >= 4
<1>9. seen'.answered = answered
  BY <1>5 DEF CallInv, History
<1>10. ~answered => n < 4 \/ text = Lengthy
  BY <1>6
<1>11. seen' \in History
  <2>1. (seen.page \/ ~(text = good)) \in BOOLEAN /\ answered \in BOOLEAN
        /\ (seen.mute \/ n \in 1 .. 3) \in BOOLEAN
    OBVIOUS
  <2> QED
    BY <1>5, <2>1 DEF CallInv, History
<1>12. peer' \in {"up", "closed", "reset"}
  BY <1>5 DEF CallInv
<1> HIDE DEF answered
<1> QED
  BY <1>5, <1>7, <1>8, <1>9, <1>10, <1>11, <1>12

-----------------------------------------------------------------------------
(* Types *)

\* _utils_fill_rx_buf copies no more than there is, than is left of the body,
\* and than there is room for.
LEMMA FillFacts ==
    ASSUME TextInv, LengthInv
    PROVE  LET f == _utils_fill_rx_buf(Small(Len(data), d.retrieve_len)) IN
           /\ f.n \in Nat /\ f.rc \in {SUCCESS, MORE}
           /\ f.n <= Len(data) /\ f.n <= d.retrieve_len /\ f.n <= BufLen - 1 - Len(resp)
<1> DEFINE n == Small(Len(data), d.retrieve_len)
           room == BufLen - 1 - Len(resp)
<1>1. d.retrieve_len \in Nat /\ Len(data) \in Nat /\ Len(resp) \in Nat
  BY Sizes DEF TextInv, LengthInv, ResponseData
<1>2. n \in Nat /\ n <= Len(data) /\ n <= d.retrieve_len
  BY <1>1 DEF Small
<1>3. room \in Nat
  BY <1>1, Sizes DEF TextInv
<1> HIDE DEF n
<1>4. _utils_fill_rx_buf(n) = IF n < room THEN [n |-> n, rc |-> SUCCESS]
                              ELSE [n |-> room, rc |-> MORE]
  BY DEF _utils_fill_rx_buf
<1> HIDE DEF room
<1>5. /\ _utils_fill_rx_buf(n).n = IF n < room THEN n ELSE room
      /\ _utils_fill_rx_buf(n).rc = IF n < room THEN SUCCESS ELSE MORE
  BY <1>4
<1>6. /\ _utils_fill_rx_buf(n).n \in Nat /\ _utils_fill_rx_buf(n).rc \in {SUCCESS, MORE}
      /\ _utils_fill_rx_buf(n).n <= n /\ _utils_fill_rx_buf(n).n <= room
  BY <1>2, <1>3, <1>5
<1> QED
  BY <1>1, <1>2, <1>6 DEF n, room

\* The texts are kept: what is read, copied and handed over is units, and
\* response_buf is not overrun.
LEMMA TextNext == TypeInv /\ [Next]_vars => TextInv'
<1> SUFFICES ASSUME TextInv, CallInv, LengthInv, [Next]_vars PROVE TextInv'
  BY DEF TypeInv
<1>0. /\ wire \in Seq(Unit) /\ data \in Seq(Unit) /\ resp \in Seq(Unit) /\ got \in Seq(Unit)
      /\ inbox \in Seq(Message) /\ Len(resp) <= BufLen - 1
      /\ <<>> \in Seq(Unit) /\ Len(<<>>) <= BufLen - 1 /\ <<>> \in Seq(Message)
  BY Sizes DEF TextInv
<1>1. CASE Connected
  BY <1>0, <1>1 DEF Connected, reply, TextInv
<1>2. CASE ConnectFailed \/ SendUnconnected \/ PeerCloses \/ AllocFails \/ FetchReconnects
           \/ UNCHANGED vars
  BY <1>0, <1>2 DEF ConnectFailed, SendUnconnected, PeerCloses, AllocFails, FetchReconnects,
                    reply, net, vars, TextInv
<1>3. CASE SendRequest \/ SendSpoilt
  <2>1. pc = "send" /\ UNCHANGED <<wire, data, resp, got>>
        /\ \/ inbox' = inbox
           \/ inbox' = Append(inbox, Request)
           \/ inbox' = Append(inbox, [Request EXCEPT !.text = Spoilt])
    BY <1>3 DEF SendRequest, SendSpoilt, reply
  <2>2. call \in Call /\ Len(got) \in Nat
    BY <1>0, <2>1 DEF CallInv
  <2> DEFINE text == _http_send_header[call].out \o _http_send_header[call].buf
  <2>3. Request = [call |-> call, from |-> Len(got), text |-> text]
    BY DEF Request
  <2>4. text \in {_http_send_header[c].out \o _http_send_header[c].buf : c \in Call}
    BY <2>2, Zenon
  <2> HIDE DEF text
  <2>5. Request \in Message /\ [Request EXCEPT !.text = Spoilt] \in Message
    BY <2>2, <2>3, <2>4 DEF Message
  <2>6. inbox' \in Seq(Message)
    <3>1. \A r \in Message : Append(inbox, r) \in Seq(Message)
      BY <1>0
    <3> QED
      BY <1>0, <2>1, <2>5, <3>1, Zenon
  <2> QED
    BY <1>0, <2>1, <2>6 DEF TextInv
<1>4. CASE ServerAnswers
  <2>1. PICK t \in Seq(Unit) : wire' = wire \o t
    BY <1>4, ServerFacts
  <2>2. UNCHANGED <<data, resp, got>> /\ inbox' = Tail(inbox) /\ inbox # <<>>
    BY <1>4 DEF ServerAnswers, reply
  <2>3. inbox' \in Seq(Message)
    BY <1>0, <2>2
  <2>4. wire' \in Seq(Unit)
    BY <1>0, <2>1
  <2> QED
    BY <1>0, <2>2, <2>3, <2>4 DEF TextInv
<1>5. CASE RecvResponse
  BY <1>0, <1>5 DEF RecvResponse, net, TextInv
<1>6. CASE FirstRead
  <2>1. PICK k \in -2 .. HeadSize :
          /\ Read(HeadSize, k)
          /\ data' = data \/ data' = From(SubSeq(wire, 1, k), 3)
    BY <1>6 DEF FirstRead
  <2>2. SubSeq(wire, 1, k) \in Seq(Unit) /\ wire' \in Seq(Unit)
    BY <1>0, <2>1, Sizes, ReadFacts
  <2> DEFINE text == SubSeq(wire, 1, k)
  <2>3. From(text, 3) \in Seq(Unit)
    <3>1. text \in Seq(Unit) /\ 3 \in Int /\ 1 <= 3
      BY <2>2
    <3> HIDE DEF text
    <3> QED
      BY <3>1, Rests
  <2>4. UNCHANGED <<inbox, resp, got>>
    BY <1>6 DEF FirstRead
  <2> QED
    BY <1>0, <2>1, <2>2, <2>3, <2>4 DEF TextInv
<1>7. CASE ReadHeader
  <2>1. PICK k \in -2 .. HeadSize :
          /\ Read(HeadSize, k)
          /\ data' = data \/ data' = data \o SubSeq(wire, 1, k)
    BY <1>7 DEF ReadHeader
  <2>2. SubSeq(wire, 1, k) \in Seq(Unit) /\ wire' \in Seq(Unit)
    BY <1>0, <2>1, Sizes, ReadFacts
  <2> DEFINE text == SubSeq(wire, 1, k)
  <2>3. data' \in Seq(Unit)
    <3>1. text \in Seq(Unit) /\ (data' = data \/ data' = data \o text)
      BY <2>1, <2>2
    <3> HIDE DEF text
    <3>2. data \o text \in Seq(Unit)
      BY <1>0, <3>1
    <3> QED
      BY <1>0, <3>1, <3>2
  <2>4. UNCHANGED <<inbox, resp, got>>
    BY <1>7 DEF ReadHeader
  <2> QED
    BY <1>0, <2>2, <2>3, <2>4 DEF TextInv
<1>8. CASE _http_parse_response_header
  <2> DEFINE end == CHOOSE i \in DOMAIN data : data[i] = Blank
  <2>1. \E i \in DOMAIN data : data[i] = Blank
    BY <1>8 DEF _http_parse_response_header, Range
  <2>2. end \in DOMAIN data
    BY <2>1
  <2> HIDE DEF end
  <2>3. data' = data \/ data' = From(data, end + 1)
    BY <1>8 DEF _http_parse_response_header, end
  <2>4. From(data, end + 1) \in Seq(Unit)
    BY <1>0, <2>2, Rests
  <2>5. UNCHANGED <<wire, inbox, resp, got>>
    BY <1>8 DEF _http_parse_response_header
  <2> QED
    BY <1>0, <2>3, <2>4, <2>5 DEF TextInv
<1>9. CASE FillBody
  <2> DEFINE f == _utils_fill_rx_buf(Small(Len(data), d.retrieve_len))
  <2>1. f.n \in Nat /\ f.n <= Len(data) /\ f.n <= BufLen - 1 - Len(resp)
    BY FillFacts
  <2>2. resp' = resp \o SubSeq(data, 1, f.n) /\ data' = <<>> /\ UNCHANGED <<wire, inbox, got>>
    BY <1>9 DEF FillBody
  <2> HIDE DEF f
  <2>3. SubSeq(data, 1, f.n) \in Seq(Unit) /\ Len(SubSeq(data, 1, f.n)) = f.n
    BY <1>0, <2>1, Stretches
  <2>4. resp' \in Seq(Unit) /\ Len(resp') = Len(resp) + f.n
    BY <1>0, <2>2, <2>3
  <2>5. Len(resp') <= BufLen - 1
    BY <1>0, <2>1, <2>4, Sizes
  <2> QED
    BY <1>0, <2>2, <2>4, <2>5 DEF TextInv
<1>10. CASE ReadBody
  <2>1. PICK k \in -2 .. max_len_to_receive :
          /\ Read(max_len_to_receive, k)
          /\ data' = data \/ data' = SubSeq(wire, 1, k)
    BY <1>10 DEF ReadBody
  <2>2. max_len_to_receive \in Nat
    BY <1>0, Sizes DEF max_len_to_receive, Small, LengthInv, ResponseData
  <2>3. SubSeq(wire, 1, k) \in Seq(Unit) /\ wire' \in Seq(Unit)
    BY <1>0, <2>1, <2>2, ReadFacts
  <2>4. UNCHANGED <<inbox, resp, got>>
    BY <1>10 DEF ReadBody
  <2> QED
    BY <1>0, <2>1, <2>3, <2>4 DEF TextInv
<1>11. CASE BeginFetch \/ BeginCall
  BY <1>0, <1>11 DEF BeginFetch, BeginCall, TextInv
<1>12. CASE FetchReturns
  <2>1. got' = got \o SubSeq(resp, 1, ofc_fetch) /\ resp' = <<>> /\ UNCHANGED <<wire, inbox, data>>
    BY <1>12 DEF FetchReturns
  <2>2. ofc_fetch = Len(resp)
    BY <1>12 DEF FetchReturns, LengthInv
  <2>3. SubSeq(resp, 1, ofc_fetch) \in Seq(Unit)
    BY <1>0, <2>2, Stretches
  <2>4. got' \in Seq(Unit)
    BY <1>0, <2>1, <2>3
  <2> QED
    BY <1>0, <2>1, <2>4 DEF TextInv
<1>13. CASE FetchFails \/ CallReturns
  BY <1>0, <1>13 DEF FetchFails, CallReturns, TextInv
<1> QED
  BY <1>1, <1>2, <1>3, <1>4, <1>5, <1>6, <1>7, <1>8, <1>9, <1>10, <1>11, <1>12, <1>13 DEF Next

\* The connections, the tries, the calls and what they return are kept in range.
LEMMA CallNext == TypeInv /\ [Next]_vars => CallInv'
<1> SUFFICES ASSUME TextInv, CallInv, LengthInv, [Next]_vars PROVE CallInv'
  BY DEF TypeInv
<1> USE Sizes DEF CallInv, ClientPc, SUCCESS, FAILURE, CONN_ERROR, INVALID
<1>0. /\ seen.page \in BOOLEAN /\ seen.moved \in BOOLEAN /\ seen.mute \in BOOLEAN
      /\ [seen EXCEPT !.answered = FALSE] \in History /\ Unseen \in History
  BY DEF History, Unseen
<1>1. CASE Connected
  BY <1>1 DEF Connected, reply, counts
<1>2. CASE ConnectFailed
  BY <1>2 DEF ConnectFailed, Disconnected, reply
<1>3. CASE SendRequest
  <2>1. /\ pc = "send" /\ pc' \in {"recv", "end"} /\ ret' \in {ret, CONN_ERROR}
        /\ handle' \in {handle, 0} /\ open' \subseteq open
        /\ seen' = [seen EXCEPT !.answered = FALSE]
        /\ UNCHANGED <<peer, tries, call, extends, calls, reconnects>>
    BY <1>3 DEF SendRequest, Sent, http_client_close, reply, counts
  <2> QED
    BY <1>0, <2>1
<1>4. CASE SendSpoilt
  <2>1. /\ pc = "send" /\ pc' \in {"recv", "end"} /\ ret' \in {ret, CONN_ERROR}
        /\ handle' \in {handle, 0} /\ open' \subseteq open
        /\ seen' = [seen EXCEPT !.answered = FALSE]
        /\ UNCHANGED <<peer, tries, call, extends, calls, reconnects>>
    BY <1>4 DEF SendSpoilt, Sent, http_client_close, reply
  <2> QED
    BY <1>0, <2>1
<1>5. CASE SendUnconnected
  BY <1>0, <1>5 DEF SendUnconnected, Sent, http_client_close, reply, counts
<1>6. CASE ServerAnswers
  <2>1. seen' \in History /\ peer' \in {"up", "closed", "reset"}
    BY <1>6, ServerFacts
  <2>2. UNCHANGED <<handle, open, tries, pc, call, extends, ret, calls, reconnects>>
    BY <1>6 DEF ServerAnswers, reply
  <2> QED
    BY <2>1, <2>2
<1>7. CASE PeerCloses
  BY <1>7 DEF PeerCloses, reply
<1>8. CASE RecvResponse
  <2>1. /\ pc = "recv" /\ pc' \in {"fill", "first"} /\ extends' = 0
        /\ UNCHANGED <<handle, open, peer, tries, call, ret, calls, reconnects, seen>>
    BY <1>8 DEF RecvResponse, net, counts
  <2> QED
    BY <2>1
<1>9. CASE FirstRead
  <2>1. /\ pc = "first" /\ pc' \in {"header", "end"}
        /\ handle' \in {handle, 0} /\ open' \subseteq open
        /\ UNCHANGED <<peer, tries, call, extends, calls, reconnects, seen>>
    BY <1>9 DEF FirstRead, Received, http_client_close
  <2>2. ret' \in {SUCCESS, FAILURE, CONN_ERROR, INVALID}
    BY <1>9 DEF FirstRead, Received, _http_recv, Small
  <2> QED
    BY <2>1, <2>2
<1>10. CASE ReadHeader
  <2>1. /\ pc = "header" /\ pc' \in {"header", "end", "overrun"} /\ ret' \in {ret, CONN_ERROR}
        /\ handle' \in {handle, 0} /\ open' \subseteq open
        /\ UNCHANGED <<peer, tries, call, extends, calls, reconnects, seen>>
    BY <1>10 DEF ReadHeader, Received, http_client_close, Small
  <2> QED
    BY <2>1
<1>11. CASE _http_parse_response_header
  BY <1>11 DEF _http_parse_response_header, Received, http_client_close, Small, counts
<1>12. CASE FillBody
  <2> DEFINE f == _utils_fill_rx_buf(Small(Len(data), d.retrieve_len))
  <2>1. f.rc \in {SUCCESS, MORE}
    BY FillFacts
  <2>2. /\ pc = "fill" /\ pc' \in {"body", "end"}
        /\ handle' \in {handle, 0} /\ open' \subseteq open
        /\ UNCHANGED <<peer, tries, call, extends, calls, reconnects, seen>>
        /\ ret' = ret \/ ret' = Small(f.rc, SUCCESS) \/ ret' = Small(SUCCESS, SUCCESS)
    BY <1>12 DEF FillBody, Received, http_client_close, counts
  <2> HIDE DEF f
  <2>3. ret' \in {SUCCESS, FAILURE, CONN_ERROR, INVALID}
    BY <2>1, <2>2 DEF Small, MORE
  <2> QED
    BY <2>2, <2>3
<1>13. CASE ReadBody
  <2>1. /\ pc = "body" /\ pc' \in {"fill", "end"}
        /\ handle' \in {handle, 0} /\ open' \subseteq open
        /\ UNCHANGED <<peer, tries, call, calls, reconnects, seen>>
        /\ ret' = ret \/ ret' = Small(CONN_ERROR, SUCCESS)
    BY <1>13 DEF ReadBody, Received, http_client_close
  <2>2. \E late \in BOOLEAN :
           extends' = Small(IF late THEN extends + 1 ELSE extends, MaxExtend + 1)
    BY <1>13 DEF ReadBody
  <2>3. extends' \in 0 .. (MaxExtend + 1)
    BY <2>2 DEF Small
  <2> QED
    BY <2>1, <2>3 DEF Small
<1>14. CASE BeginFetch
  <2>1. /\ pc' \in {"connect", "end"} /\ ret' \in {SUCCESS, INVALID} /\ tries' = 1
        /\ handle' = 0 /\ call' = "FETCH" /\ calls < MaxCall /\ calls' = calls + 1
        /\ seen' = Unseen /\ UNCHANGED <<open, peer, extends, reconnects>>
    BY <1>14 DEF BeginFetch, Connect
  <2>2. calls' \in 0 .. MaxCall /\ calls' >= 1
    BY <2>1
  <2>3. tries' \in 1 .. (RetryMax + 1) /\ tries' <= RetryMax /\ call' \in Call
    BY <2>1 DEF Call
  <2> QED
    BY <1>0, <2>1, <2>2, <2>3
<1>15. CASE FetchReturns
  <2>1. /\ pc = "end" /\ (pc' = "idle" \/ (pc' = "send" /\ call' = call))
        /\ handle' \in {handle, 0} /\ open' \subseteq open
        /\ UNCHANGED <<peer, tries, extends, ret, calls, reconnects, seen>>
    BY <1>15 DEF FetchReturns, ofc_deinit, http_client_close, counts
  <2> QED
    BY <2>1
<1>16. CASE FetchReconnects
  <2>1. [seen EXCEPT !.moved = @ \/ got # <<>>] \in History
    <3>1. (seen.moved \/ got # <<>>) \in BOOLEAN
      OBVIOUS
    <3> QED
      BY <3>1 DEF History
  <2>2. /\ pc = "end" /\ pc' = "connect" /\ ret' = SUCCESS /\ tries' = 1
        /\ handle' = 0 /\ open' \subseteq open
        /\ reconnects < MaxReconnect /\ reconnects' = reconnects + 1
        /\ UNCHANGED <<peer, call, extends, calls>>
    BY <1>16 DEF FetchReconnects
  <2>3. seen' \in History
    BY <1>16, <2>1, Zenon DEF FetchReconnects
  <2>4. reconnects' \in 0 .. MaxReconnect /\ tries' \in 1 .. (RetryMax + 1) /\ tries' <= RetryMax
    BY <2>2
  <2> QED
    BY <2>2, <2>3, <2>4
<1>17. CASE FetchFails
  BY <1>17 DEF FetchFails, ofc_deinit, http_client_close, counts
<1>18. CASE BeginCall
  <2>1. /\ pc' \in {"connect", "end"} /\ ret' \in {SUCCESS, INVALID} /\ tries' = 1
        /\ handle' = 0 /\ call' \in OneShot /\ calls < MaxCall /\ calls' = calls + 1
        /\ seen' = Unseen /\ UNCHANGED <<open, peer, extends, reconnects>>
    BY <1>18 DEF BeginCall, Connect
  <2>2. calls' \in 0 .. MaxCall /\ calls' >= 1
    BY <2>1
  <2>3. tries' \in 1 .. (RetryMax + 1) /\ tries' <= RetryMax /\ call' \in Call
    BY <2>1 DEF Call
  <2> QED
    BY <1>0, <2>1, <2>2, <2>3
<1>19. CASE AllocFails
  BY <1>19 DEF AllocFails, net, reply
<1>20. CASE CallReturns
  BY <1>20 DEF CallReturns, http_client_close, counts
<1>21. CASE UNCHANGED vars
  BY <1>21 DEF vars
<1> QED
  BY <1>1, <1>2, <1>3, <1>4, <1>5, <1>6, <1>7, <1>8, <1>9, <1>10, <1>11, <1>12, <1>13, <1>14,
     <1>15, <1>16, <1>17, <1>18, <1>19, <1>20, <1>21 DEF Next

\* What ofc_fetch will return is what is in response_buf, and nothing is left
\* of a body unless is_more says so.
LEMMA LengthNext == TypeInv /\ [Next]_vars => LengthInv'
<1> SUFFICES ASSUME TextInv, CallInv, LengthInv, [Next]_vars PROVE LengthInv'
  BY DEF TypeInv
<1>0. /\ d.is_more \in BOOLEAN /\ d.retrieve_len \in 0 .. Longest /\ d.content_len \in -1 .. Longest
      /\ DOMAIN d = {"is_more", "retrieve_len", "content_len"}
      /\ Cleared \in ResponseData /\ ~Cleared.is_more /\ Cleared.retrieve_len = 0
  BY Sizes DEF LengthInv, ResponseData, Cleared
<1>1. CASE Connected \/ ConnectFailed
  BY <1>1 DEF Connected, ConnectFailed, reply, LengthInv, ofc_fetch
<1>2. CASE SendRequest \/ SendSpoilt \/ SendUnconnected
  <2>1. UNCHANGED reply /\ pc = "send" /\ (pc' = "recv" \/ (pc' = "end" /\ ret' # SUCCESS))
    BY <1>2 DEF SendRequest, SendSpoilt, SendUnconnected, Sent, SUCCESS, FAILURE, CONN_ERROR
  <2> QED
    BY <2>1 DEF reply, LengthInv
<1>3. CASE ServerAnswers \/ PeerCloses \/ UNCHANGED vars
  BY <1>3 DEF ServerAnswers, PeerCloses, vars, reply, LengthInv, ofc_fetch
<1>4. CASE RecvResponse
  <2>1. /\ pc = "recv" /\ old' = d.retrieve_len /\ resp' = <<>>
        /\ pc' = IF d.is_more THEN "fill" ELSE "first"
        /\ d' = [d EXCEPT !.content_len = 0, !.is_more = TRUE]
    BY <1>4 DEF RecvResponse
  <2>2. d' \in ResponseData /\ d'.retrieve_len = d.retrieve_len /\ d'.content_len = 0
    <3>1. 0 \in -1 .. Longest
      BY Sizes
    <3> QED
      BY <2>1, <3>1 DEF LengthInv, ResponseData
  <2>3. d'.content_len - d'.retrieve_len + old' = 0
    BY <1>0, <2>1, <2>2, Sizes
  <2>4. ~d.is_more => old' = 0
    BY <2>1 DEF LengthInv
  <2> QED
    BY <1>0, <2>1, <2>2, <2>3, <2>4 DEF LengthInv, ofc_fetch
<1>5. CASE FirstRead
  <2>1. /\ pc = "first" /\ (pc' = "header" \/ (pc' = "end" /\ ret' # SUCCESS))
        /\ UNCHANGED <<old, resp>> /\ (d' = d \/ d' = [d EXCEPT !.content_len = -1])
    BY <1>5 DEF FirstRead, Received, _http_recv, Small, SUCCESS, FAILURE, CONN_ERROR, INVALID
  <2>2. d' \in ResponseData
    <3>1. -1 \in -1 .. Longest
      BY Sizes
    <3> QED
      BY <2>1, <3>1 DEF LengthInv, ResponseData
  <2> QED
    BY <2>1, <2>2 DEF LengthInv
<1>6. CASE ReadHeader
  <2>1. /\ pc = "header" /\ (pc' \in {"header", "overrun"} \/ (pc' = "end" /\ ret' # SUCCESS))
        /\ UNCHANGED <<old, resp, d>>
    BY <1>6 DEF ReadHeader, Received, Small, SUCCESS, CONN_ERROR
  <2> QED
    BY <2>1 DEF LengthInv
<1>7. CASE _http_parse_response_header
  <2> DEFINE end == CHOOSE i \in DOMAIN data : data[i] = Blank
             fields == {i \in 1..end : data[i][1] = "length"}
             length == data[Min(fields)][2]
  <2>1. \E i \in DOMAIN data : data[i] = Blank
    BY <1>7 DEF _http_parse_response_header, Range
  <2>2. end \in DOMAIN data
    BY <2>1
  <2>3. /\ pc = "header" /\ UNCHANGED <<old, resp>>
        /\ \/ pc' = "end" /\ ret' # SUCCESS /\ UNCHANGED d
           \/ /\ pc' = "fill" /\ fields # {}
              /\ d' = [d EXCEPT !.content_len = length, !.retrieve_len = length]
    <3>1. pc = "header" /\ UNCHANGED <<old, resp>>
      BY <1>7 DEF _http_parse_response_header
    <3>2. IF fields = {}
            THEN Received(CONN_ERROR) /\ UNCHANGED <<d, data>>
            ELSE /\ d' = [d EXCEPT !.content_len = length, !.retrieve_len = length]
                 /\ data' = From(data, end + 1) /\ pc' = "fill"
                 /\ UNCHANGED <<handle, open, ret>>
      BY <1>7, Zenon DEF _http_parse_response_header
    <3>3. CASE fields = {}
      BY <3>1, <3>2, <3>3 DEF Received, Small, SUCCESS, CONN_ERROR
    <3>4. CASE fields # {}
      BY <3>1, <3>2, <3>4, Zenon
    <3> QED
      BY <3>3, <3>4
  <2>4. CASE pc' = "end" /\ ret' # SUCCESS /\ UNCHANGED d
    BY <2>3, <2>4 DEF LengthInv
  <2>5. CASE /\ pc' = "fill" /\ fields # {}
             /\ d' = [d EXCEPT !.content_len = length, !.retrieve_len = length]
    <3> HIDE DEF end
    <3>1. fields \in SUBSET Nat /\ fields # {} /\ fields \subseteq 1 .. Len(data)
      BY <2>2, <2>5 DEF TextInv
    <3> HIDE DEF fields
    <3>2. Min(fields) \in 1 .. Len(data)
      BY <3>1, MinInSet
    <3>3. data[Min(fields)] \in Unit
      BY <3>2 DEF TextInv
    <3>4. length \in 0 .. Longest
      BY <3>3 DEF Unit
    <3> HIDE DEF length
    <3>5. d' \in ResponseData /\ d'.content_len = length /\ d'.retrieve_len = length
      <4>1. length \in -1 .. Longest
        BY <3>4, Sizes
      <4> QED
        BY <2>5, <3>4, <4>1 DEF LengthInv, ResponseData
    <3>6. resp' = <<>> /\ old' = 0 /\ pc' = "fill"
      BY <2>3, <2>5 DEF LengthInv
    <3>7. ofc_fetch' = Len(resp')
      BY <3>4, <3>5, <3>6, Sizes DEF ofc_fetch
    <3> QED
      BY <3>5, <3>6, <3>7, Sizes DEF LengthInv
  <2> QED
    BY <2>3, <2>4, <2>5
<1>8. CASE FillBody
  <2> DEFINE f == _utils_fill_rx_buf(Small(Len(data), d.retrieve_len))
             left == d.retrieve_len - f.n
  <2>1. /\ f.n \in Nat /\ f.rc \in {SUCCESS, MORE}
        /\ f.n <= Len(data) /\ f.n <= d.retrieve_len
    BY FillFacts
  <2>2. /\ pc = "fill" /\ UNCHANGED old
        /\ resp' = resp \o SubSeq(data, 1, f.n)
        /\ d' = [d EXCEPT !.retrieve_len = left, !.is_more = f.rc = MORE \/ left > 0]
        /\ pc' \in {"body", "end"}
    BY <1>8 DEF FillBody, Received
  <2> HIDE DEF f
  <2>3. left \in 0 .. Longest
    BY <1>0, <2>1, Sizes
  <2>4. (f.rc = MORE \/ left > 0) \in BOOLEAN
    OBVIOUS
  <2> DEFINE more == f.rc = MORE \/ left > 0
  <2>5. ~more => left = 0
    BY <2>3, Sizes
  <2> HIDE DEF left
  <2>6. /\ d'.retrieve_len = left /\ d'.content_len = d.content_len /\ (d'.is_more = more)
        /\ d' \in ResponseData
    <3>1. more \in BOOLEAN /\ d' = [d EXCEPT !.retrieve_len = left, !.is_more = more]
      BY <2>2, <2>4
    <3> HIDE DEF more
    <3> QED
      BY <2>3, <3>1 DEF LengthInv, ResponseData
  <2>7. SubSeq(data, 1, f.n) \in Seq(Unit) /\ Len(SubSeq(data, 1, f.n)) = f.n
    <3>1. data \in Seq(Unit) /\ f.n \in Int /\ f.n <= Len(data)
      BY <2>1 DEF TextInv
    <3> QED
      BY <2>1, <3>1, Stretches
  <2>8. Len(resp') = Len(resp) + f.n
    BY <2>2, <2>7 DEF TextInv
  <2>9. ofc_fetch = Len(resp) /\ Len(resp) \in Nat
    BY <2>2 DEF LengthInv, TextInv
  <2>10. ofc_fetch' = Len(resp')
    <3>1. old \in Int /\ d.content_len \in Int /\ d.retrieve_len \in Int
      BY <1>0, Sizes DEF LengthInv
    <3> QED
      BY <2>1, <2>2, <2>6, <2>8, <2>9, <3>1 DEF ofc_fetch, left
  <2> HIDE DEF more
  <2> QED
    BY <2>2, <2>5, <2>6, <2>10 DEF LengthInv
<1>9. CASE ReadBody
  <2>1. /\ pc = "body" /\ (pc' = "fill" \/ (pc' = "end" /\ ret' # SUCCESS))
        /\ UNCHANGED <<old, resp, d>>
    BY <1>9 DEF ReadBody, Received, Small, SUCCESS, CONN_ERROR
  <2> QED
    BY <2>1 DEF LengthInv, ofc_fetch
<1>10. CASE BeginFetch \/ BeginCall
  <2>1. d' = Cleared /\ old' = 0 /\ (pc' = "connect" \/ (pc' = "end" /\ ret' # SUCCESS))
    BY <1>10 DEF BeginFetch, BeginCall, Connect, SUCCESS, INVALID
  <2> QED
    BY <1>0, <2>1, Sizes DEF LengthInv
<1>11. CASE FetchReconnects
  <2>1. d' = Cleared /\ old' = 0 /\ pc' = "connect"
    BY <1>11 DEF FetchReconnects
  <2> QED
    BY <1>0, <2>1, Sizes DEF LengthInv
<1>12. CASE FetchReturns
  <2>1. UNCHANGED <<d, old>> /\ pc' \in {"send", "idle"} /\ pc = "end" /\ ret = SUCCESS
    BY <1>12 DEF FetchReturns
  <2> QED
    BY <2>1 DEF LengthInv
<1>13. CASE FetchFails \/ CallReturns \/ AllocFails
  <2>1. UNCHANGED <<d, old>> /\ pc' = "idle"
    BY <1>13 DEF FetchFails, CallReturns, AllocFails, reply
  <2> QED
    BY <2>1 DEF LengthInv
<1> QED
  BY <1>1, <1>2, <1>3, <1>4, <1>5, <1>6, <1>7, <1>8, <1>9, <1>10, <1>11, <1>12, <1>13 DEF Next

LEMMA TypeInit == Init => TypeInv
<1> SUFFICES ASSUME Init PROVE TypeInv
  OBVIOUS
<1>1. TextInv
  BY Sizes DEF Init, TextInv
<1>2. CallInv
  BY Sizes DEF Init, CallInv, ClientPc, Unseen, History, SUCCESS
<1>3. LengthInv
  BY Sizes DEF Init, LengthInv, ResponseData, Cleared
<1> QED
  BY <1>1, <1>2, <1>3 DEF TypeInv

LEMMA TypeInvariant == Spec => []TypeInv
<1>1. TypeInv /\ [Next]_vars => TypeInv'
  BY TextNext, CallNext, LengthNext DEF TypeInv
<1> QED
  BY <1>1, TypeInit, PTL DEF Spec

\* Types are kept and response_buf is never overrun, for any sizes of buffers
\* and of the file, any number of calls, reconnections and faults.
THEOREM TypeCorrect == Spec => []TypeOK
<1>1. TypeInv => TypeOK
  BY DEF TypeInv, TextInv, CallInv, LengthInv, ResponseData, TypeOK
<1> QED
  BY <1>1, TypeInvariant, PTL

\* A length that ofc_fetch returns is the number of units in response_buf,
\* although it is worked out from response_content_len, retrieve_len and the
\* retrieve_len the call began with.
FetchedLength == pc = "end" /\ ret = SUCCESS => ofc_fetch = Len(resp)

\* ofc_fetch returns what was received, whether its call read a whole body, the
\* beginning of one, or the rest of the one before.
THEOREM FetchedLengthHolds == Spec => []FetchedLength
<1>1. TypeInv => FetchedLength
  BY DEF TypeInv, LengthInv, FetchedLength
<1> QED
  BY <1>1, TypeInvariant, PTL

-----------------------------------------------------------------------------
(* A success is an answer *)

\* Range and Units say the same of a text.
LEMMA UnitsAreRange == ASSUME NEW q \in Seq(Unit) PROVE Range(q) = Units(q)
BY DEF Range, Units

\* The one connection of a one-shot call carries the answer to its request and
\* nothing else, and a blank line only once the server has answered.
LEMMA AnswerNext == TypeInv /\ AnswerInv /\ [Next]_vars => AnswerInv'
<1> SUFFICES ASSUME TextInv, CallInv, LengthInv, AnswerInv, [Next]_vars, call' \in OneShot
             PROVE  AnswerInv'
  BY DEF TypeInv, AnswerInv
<1> DEFINE A == /\ pc \in {"connect", "send", "recv"} => ~d.is_more
                /\ pc = "send" /\ handle > 0 => wire = <<>> /\ inbox = <<>>
                /\ pc \in {"recv", "first"} => Len(inbox) <= 1
                /\ pc \in {"recv", "first"} /\ inbox # <<>> => wire = <<>> /\ ~seen.answered
                /\ pc \in {"recv", "first", "header"} /\ ~seen.answered => Blank \notin Units(wire)
                /\ pc = "header" => inbox = <<>> /\ (~seen.answered => Blank \notin Units(data))
                /\ pc \in {"fill", "body"} \/ (pc = "end" /\ ret = SUCCESS) =>
                     inbox = <<>> /\ seen.answered
<1>0. SUFFICES A'
  BY DEF AnswerInv
<1>00. /\ wire \in Seq(Unit) /\ data \in Seq(Unit) /\ inbox \in Seq(Message)
       /\ Units(<<>>) = {}
  BY DEF TextInv, Units
<1>a. ASSUME call' = call PROVE A
  BY <1>a DEF AnswerInv
<1> HIDE DEF A
<1>1. CASE Connected
  <2>1. /\ pc = "connect" /\ pc' = "send" /\ wire' = <<>> /\ inbox' = <<>>
        /\ UNCHANGED <<call, d>>
    BY <1>1 DEF Connected, reply
  <2> QED
    BY <1>a, <2>1 DEF A
<1>2. CASE ConnectFailed
  <2>1. /\ pc = "connect" /\ (pc' = pc \/ pc' = "send") /\ UNCHANGED <<call, d>>
        /\ handle' \in {-1, 0}
    BY <1>2 DEF ConnectFailed, reply, Disconnected
  <2>2. ~(handle' > 0)
    BY <2>1
  <2> QED
    BY <1>a, <2>1, <2>2 DEF A
<1>3. CASE SendRequest \/ SendSpoilt \/ SendUnconnected
  <2>1. /\ pc = "send" /\ UNCHANGED <<call, d, wire>> /\ ~seen'.answered
        /\ pc' = "recv" \/ (pc' = "end" /\ ret' # SUCCESS)
        /\ inbox' = inbox \/ \E r : inbox' = Append(inbox, r)
    <3>1. ~[seen EXCEPT !.answered = FALSE].answered
      BY DEF CallInv, History
    <3> QED
      BY <1>3, <3>1 DEF SendRequest, SendSpoilt, SendUnconnected, Sent, reply, SUCCESS, FAILURE,
                        CONN_ERROR
  <2>2. pc' = "recv" => handle > 0
    BY <1>3 DEF SendRequest, SendSpoilt, SendUnconnected, Sent, SUCCESS, FAILURE, CONN_ERROR
  <2>3. CASE pc' = "recv"
    <3>1. wire = <<>> /\ inbox = <<>>
      BY <1>a, <2>1, <2>2, <2>3 DEF A
    <3>2. Len(inbox') <= 1
      <4>1. inbox' = <<>> \/ \E r : inbox' = Append(<<>>, r)
        BY <2>1, <3>1
      <4>2. CASE inbox' = <<>>
        BY <4>2
      <4>3. CASE \E r : inbox' = Append(<<>>, r)
        <5>1. PICK r : inbox' = Append(<<>>, r)
          BY <4>3
        <5>2. Len(inbox') = 1
          BY <5>1
        <5> QED
          BY <5>2
      <4> QED
        BY <4>1, <4>2, <4>3
    <3> QED
      BY <1>00, <1>a, <2>1, <2>3, <3>1, <3>2 DEF A
  <2> QED
    BY <2>1, <2>3 DEF A
<1>4. CASE ServerAnswers
  <2>1. PICK t \in Seq(Unit) :
          /\ wire' = wire \o t
          /\ ~seen'.answered => Blank \notin Units(t)
    BY <1>4, ServerFacts
  <2>2. /\ inbox # <<>> /\ inbox' = Tail(inbox)
        /\ UNCHANGED <<handle, pc, call, d, data, ret>>
    BY <1>4 DEF ServerAnswers, reply
  <2>3. pc \notin {"header", "fill", "body"} /\ ~(pc = "end" /\ ret = SUCCESS)
        /\ ~(pc = "send" /\ handle > 0)
    BY <1>a, <2>2 DEF A
  <2>4. CASE pc \in {"recv", "first"}
    <3>1. wire = <<>> /\ Len(inbox) <= 1
      BY <1>a, <2>2, <2>4 DEF A
    <3>2. inbox' = <<>>
      BY <1>00, <2>2, <3>1
    <3>3. Units(wire') = Units(t)
      BY <1>00, <2>1, <3>1, JoinedUnits
    <3>4. Blank \in Units(wire') => seen'.answered
      BY <2>1, <3>3, Zenon
    <3>5. Len(inbox') <= 1
      BY <3>2
    <3> QED
      BY <1>a, <2>2, <2>4, <3>2, <3>4, <3>5 DEF A
  <2> QED
    BY <1>a, <2>2, <2>3, <2>4 DEF A
<1>5. CASE PeerCloses \/ UNCHANGED vars
  BY <1>a, <1>5 DEF PeerCloses, vars, reply, A
<1>6. CASE RecvResponse
  <2>1. /\ pc = "recv" /\ pc' = (IF d.is_more THEN "fill" ELSE "first")
        /\ UNCHANGED <<call, wire, inbox, seen>>
    BY <1>6 DEF RecvResponse, net
  <2> QED
    BY <1>a, <2>1 DEF A
<1>7. CASE FirstRead
  <2>1. PICK k \in -2 .. HeadSize :
          /\ Read(HeadSize, k)
          /\ \/ pc' = "end" /\ ret' # SUCCESS
             \/ pc' = "header" /\ k > 0 /\ data' = From(SubSeq(wire, 1, k), 3)
    BY <1>7 DEF FirstRead, Received, _http_recv, Small, SUCCESS, FAILURE, CONN_ERROR, INVALID
  <2>2. pc = "first" /\ UNCHANGED <<call, inbox, seen>>
    BY <1>7 DEF FirstRead
  <2>3. CASE pc' = "header"
    <3> DEFINE text == SubSeq(wire, 1, k)
    <3>1. /\ k <= Len(wire) /\ text \in Seq(Unit) /\ Units(text) \subseteq Units(wire)
          /\ Units(wire') \subseteq Units(wire)
      BY <1>00, <2>1, Sizes, ReadFacts
    <3>2. wire # <<>>
      BY <2>1, <2>3, <3>1
    <3>3. inbox = <<>>
      BY <1>a, <2>2, <3>2 DEF A
    <3>4. data' = From(text, 3)
      BY <2>1, <2>3
    <3> HIDE DEF text
    <3>5. Units(data') \subseteq Units(wire)
      <4>1. 3 \in Int /\ 1 <= 3
        OBVIOUS
      <4> QED
        BY <3>1, <3>4, <4>1, Rests
    <3>6. ~seen.answered => Blank \notin Units(wire)
      BY <1>a, <2>2 DEF A
    <3> QED
      BY <2>2, <2>3, <3>1, <3>3, <3>5, <3>6 DEF A
  <2> QED
    BY <2>1, <2>3 DEF A
<1>8. CASE ReadHeader
  <2>1. PICK k \in -2 .. HeadSize :
          /\ Read(HeadSize, k)
          /\ \/ pc' = "end" /\ ret' # SUCCESS
             \/ pc' = "overrun"
             \/ pc' = "header" /\ data' = data \o SubSeq(wire, 1, k)
    BY <1>8 DEF ReadHeader, Received, Small, SUCCESS, CONN_ERROR
  <2>2. pc = "header" /\ UNCHANGED <<call, inbox, seen>>
    BY <1>8 DEF ReadHeader
  <2>3. CASE pc' = "header"
    <3> DEFINE text == SubSeq(wire, 1, k)
    <3>1. /\ text \in Seq(Unit) /\ Units(text) \subseteq Units(wire)
          /\ Units(wire') \subseteq Units(wire)
      BY <1>00, <2>1, Sizes, ReadFacts
    <3>2. data' = data \o text
      BY <2>1, <2>3
    <3> HIDE DEF text
    <3>3. Units(data') = Units(data) \cup Units(text)
      BY <1>00, <3>1, <3>2, JoinedUnits
    <3>4. inbox = <<>> /\ (~seen.answered => Blank \notin Units(wire) /\ Blank \notin Units(data))
      BY <1>a, <2>2 DEF A
    <3> QED
      BY <2>2, <2>3, <3>1, <3>3, <3>4 DEF A
  <2> QED
    BY <2>1, <2>3 DEF A
<1>9. CASE _http_parse_response_header
  <2>1. /\ pc = "header" /\ Blank \in Range(data) /\ UNCHANGED <<call, inbox, seen>>
        /\ pc' = "fill" \/ (pc' = "end" /\ ret' # SUCCESS)
    BY <1>9 DEF _http_parse_response_header, Received, Small, SUCCESS, CONN_ERROR
  <2>2. Blank \in Units(data)
    BY <1>00, <2>1, UnitsAreRange
  <2>3. inbox = <<>> /\ seen.answered
    BY <1>a, <2>1, <2>2 DEF A
  <2> QED
    BY <2>1, <2>3 DEF A
<1>10. CASE FillBody \/ ReadBody
  <2>1. /\ pc \in {"fill", "body"} /\ pc' \in {"fill", "body", "end"}
        /\ UNCHANGED <<call, inbox, seen>>
    BY <1>10 DEF FillBody, ReadBody, Received
  <2> QED
    BY <1>a, <2>1 DEF A
<1>11. CASE BeginCall
  <2>1. d' = Cleared /\ (pc' = "connect" \/ (pc' = "end" /\ ret' # SUCCESS))
    BY <1>11 DEF BeginCall, Connect, SUCCESS, INVALID
  <2> QED
    BY <2>1 DEF A, Cleared
<1>12. CASE BeginFetch
  BY <1>12, Sizes DEF BeginFetch
<1>13. CASE FetchReturns \/ FetchFails \/ FetchReconnects \/ CallReturns
  BY <1>13, Sizes DEF FetchReturns, FetchFails, FetchReconnects, CallReturns
<1>14. CASE AllocFails
  BY <1>14 DEF AllocFails, A
<1> QED
  BY <1>1, <1>2, <1>3, <1>4, <1>5, <1>6, <1>7, <1>8, <1>9, <1>10, <1>11, <1>12, <1>13, <1>14 DEF Next

\* A one-shot call (IOT_HTTP_Get_Token, IOT_HTTP_Publish, IOT_GET_URL_AND_AUTH,
\* IOT_HTTP_UPLOAD_FILE) that returns SUCCESS_RET after its exchange got an answer to
\* its own request, whatever was cut short, timed out or reset on the way: perhaps an
\* error page, to a request of which only a part arrived.
THEOREM SuccessWasAnsweredHolds == Spec => []SuccessWasAnswered
<1>1. Init => AnswerInv
  BY Sizes DEF Init, AnswerInv
<1>2. TypeInv /\ AnswerInv => SuccessWasAnswered
  BY DEF AnswerInv, SuccessWasAnswered
<1> QED
  BY <1>1, <1>2, AnswerNext, TypeInvariant, PTL DEF Spec

-----------------------------------------------------------------------------
(* What is handed over is the file *)

\* The file is asked for from byte n on; the answer ends before byte End(n).
End(n) == IF server = "whole" THEN FileLen ELSE Small(n + RangeLen + 1, FileLen)
Due(n) == Answer(File(n, End(n) - 1))

\* x is what text has after its first p units.
Follows(x, text, p) ==
    /\ p + Len(x) <= Len(text)
    /\ \A i \in 1 .. Len(x) : x[i] = text[p + i]

\* x is the file from byte p on, as far as it is looked at: before byte e.
Carries(x, p, e) == \A i \in 1 .. Len(x) : p + i - 1 < e => x[i] = <<"file", p + i - 1>>

\* The file is not promised once something else than was meant was sent (an error page,
\* the file from its beginning), nor when a server that
\* ignores a Range is asked on a new connection for the rest.
Excused == seen.page \/ (server = "whole" /\ seen.moved)

\* A request is made, or its answer waited for; a body is taken.
Asking == (pc = "send" /\ handle > 0) \/ pc = "recv"
Taking == pc \in {"fill", "body"} \/ (pc = "end" /\ ret = SUCCESS)

\* Nothing of an answer was read: the wire holds as much of it as came.  A
\* server that ignores the Range is asked once only.
Fresh ==
    /\ server = "whole" => got = <<>>
    /\ pc = "send" => inbox = <<>> /\ wire = <<>>
    /\ Len(inbox) <= 1 /\ (inbox # <<>> => wire = <<>>)
    /\ server = "range" /\ inbox # <<>> => inbox[1].from = Len(got)
    /\ Follows(wire, Due(Len(got)), 0)
    /\ peer = "up" /\ wire # <<>> => Len(wire) = Len(Due(Len(got)))

\* The header is being read: what is in the buffer and on the wire is the
\* answer after its status line.
InHeader ==
    /\ server = "whole" => got = <<>>
    /\ inbox = <<>>
    /\ Len(data) <= HeadSize + 1
    /\ Follows(data, Due(Len(got)), 2) /\ Follows(wire, Due(Len(got)), 2 + Len(data))
    /\ peer = "up" => 2 + Len(data) + Len(wire) = Len(Due(Len(got)))

\* The body is being read, or a later call will go on with it: response_buf, the
\* buffer and the wire hold the file one after the other, and retrieve_len is
\* what is to come.  A live server has sent all of it, so that the answer to
\* another request comes after it.
InBody ==
    LET p == Len(got) + Len(resp)
        e == End(Len(got))
    IN  /\ p + d.retrieve_len = e
        /\ Carries(resp, Len(got), e) /\ Carries(data, p, e) /\ Carries(wire, p + Len(data), e)
        /\ peer = "up" => Len(data) + Len(wire) >= d.retrieve_len
        /\ server = "range" => inbox = <<>> /\ Len(data) + Len(wire) <= d.retrieve_len
        /\ Len(data) <= BufLen - 1 - Len(resp)
        /\ pc # "fill" => data = <<>>
        /\ pc \in {"send", "recv"} => resp = <<>> /\ server = "whole"
        /\ pc = "end" /\ server = "range" => ~d.is_more

\* The requests the server has not answered are those of the download.
OwnRequests == \A i \in 1 .. Len(inbox) : inbox[i].call = "FETCH"

\* A download, from one connection to the next.
Stream ==
    /\ pc = "connect" => ~d.is_more /\ (server = "whole" => got = <<>>)
    /\ Asking \/ pc \in {"first", "header"} \/ Taking => OwnRequests
    /\ (Asking /\ ~d.is_more) \/ pc = "first" => Fresh
    /\ pc = "header" => InHeader
    /\ (Asking /\ d.is_more) \/ Taking => InBody

GotInv ==
    /\ server \in {"range", "whole"}
    /\ ~Excused => Carries(got, 0, Len(got))
    /\ call = "FETCH" /\ pc # "idle" => Len(got) < FileLen
    /\ call \in OneShot => got = <<>>

FetchInv == GotInv /\ (call = "FETCH" /\ ~Excused => Stream)

\* A text cut in two.
LEMMA Halves ==
    ASSUME NEW q \in Seq(Unit), NEW k \in 0 .. Len(q)
    PROVE  /\ SubSeq(q, 1, k) \in Seq(Unit) /\ Len(SubSeq(q, 1, k)) = k
           /\ \A i \in 1 .. k : SubSeq(q, 1, k)[i] = q[i]
           /\ From(q, k + 1) \in Seq(Unit) /\ Len(From(q, k + 1)) = Len(q) - k
           /\ \A i \in 1 .. Len(q) - k : From(q, k + 1)[i] = q[k + i]
<1>1. Len(q) \in Nat /\ k \in Int
  OBVIOUS
<1>2. \A i \in 1 .. Len(q) : q[i] \in Unit
  OBVIOUS
<1>3. /\ SubSeq(q, 1, k) \in Seq(Unit) /\ Len(SubSeq(q, 1, k)) = IF 1 <= k THEN k - 1 + 1 ELSE 0
      /\ \A i \in 1 .. k - 1 + 1 : SubSeq(q, 1, k)[i] = q[1 + i - 1]
  BY <1>1, <1>2, SubSeqProperties
<1>4. /\ SubSeq(q, k + 1, Len(q)) \in Seq(Unit)
      /\ Len(SubSeq(q, k + 1, Len(q))) = IF k + 1 <= Len(q) THEN Len(q) - (k + 1) + 1 ELSE 0
      /\ \A i \in 1 .. Len(q) - (k + 1) + 1 : SubSeq(q, k + 1, Len(q))[i] = q[k + 1 + i - 1]
  BY <1>1, <1>2, SubSeqProperties
<1> QED
  BY <1>1, <1>3, <1>4 DEF From

\* Two texts put together.
LEMMA Joined ==
    ASSUME NEW x \in Seq(Unit), NEW y \in Seq(Unit)
    PROVE  /\ x \o y \in Seq(Unit) /\ Len(x \o y) = Len(x) + Len(y)
           /\ \A i \in 1 .. Len(x) : (x \o y)[i] = x[i]
           /\ \A i \in 1 .. Len(y) : (x \o y)[Len(x) + i] = y[i]
<1>1. Len(x) \in Nat /\ Len(y) \in Nat
  OBVIOUS
<1>2. /\ x \o y \in Seq(Unit) /\ Len(x \o y) = Len(x) + Len(y)
      /\ \A i \in 1 .. Len(x) + Len(y) : (x \o y)[i] = IF i <= Len(x) THEN x[i] ELSE y[i - Len(x)]
  BY ConcatProperties, Zenon
<1>3. \A i \in 1 .. Len(x) : i \in 1 .. Len(x) + Len(y) /\ i <= Len(x)
  BY <1>1
<1>4. \A i \in 1 .. Len(y) : /\ Len(x) + i \in 1 .. Len(x) + Len(y) /\ ~(Len(x) + i <= Len(x))
                             /\ Len(x) + i - Len(x) = i
  BY <1>1
<1> QED
  BY <1>2, <1>3, <1>4

\* A read takes the next units of the answer, and leaves the ones after them.
LEMMA FollowsRead ==
    ASSUME NEW x \in Seq(Unit), NEW text \in Seq(Unit), NEW p \in Nat, Follows(x, text, p),
           NEW k \in 0 .. Len(x)
    PROVE  Follows(SubSeq(x, 1, k), text, p) /\ Follows(From(x, k + 1), text, p + k)
<1>1. Len(x) \in Nat /\ Len(text) \in Nat /\ k \in Nat
  OBVIOUS
<1>2. \A i \in 1 .. k : i \in 1 .. Len(x)
  BY <1>1
<1>3. \A i \in 1 .. Len(x) - k : k + i \in 1 .. Len(x) /\ p + k + i = p + (k + i)
  BY <1>1
<1> DEFINE a == SubSeq(x, 1, k)
           b == From(x, k + 1)
<1>4. /\ Len(a) = k /\ (\A i \in 1 .. k : a[i] = x[i])
      /\ Len(b) = Len(x) - k /\ (\A i \in 1 .. Len(x) - k : b[i] = x[k + i])
  BY Halves
<1> HIDE DEF a, b
<1>5. p + Len(x) <= Len(text) /\ \A i \in 1 .. Len(x) : x[i] = text[p + i]
  BY DEF Follows
<1>6. Follows(a, text, p)
  BY <1>1, <1>2, <1>4, <1>5 DEF Follows
<1>7. \A i \in 1 .. Len(x) - k : b[i] = text[p + k + i]
  BY <1>3, <1>4, <1>5
<1>8. Follows(b, text, p + k)
  BY <1>1, <1>4, <1>5, <1>7 DEF Follows
<1> QED
  BY <1>6, <1>8 DEF a, b

LEMMA FollowsJoined ==
    ASSUME NEW x \in Seq(Unit), NEW y \in Seq(Unit), NEW text \in Seq(Unit), NEW p \in Nat,
           Follows(x, text, p), Follows(y, text, p + Len(x))
    PROVE  Follows(x \o y, text, p)
<1>1. Len(x) \in Nat /\ Len(y) \in Nat /\ Len(text) \in Nat
  OBVIOUS
<1>2. ASSUME NEW i \in 1 .. Len(x) + Len(y)
      PROVE  (x \o y)[i] = text[p + i]
  <2>1. CASE i <= Len(x)
    BY <1>1, <2>1, Joined DEF Follows
  <2>2. CASE ~(i <= Len(x))
    <3>1. i - Len(x) \in 1 .. Len(y) /\ Len(x) + (i - Len(x)) = i
          /\ p + Len(x) + (i - Len(x)) = p + i
      BY <1>1, <2>2
    <3>2. (x \o y)[Len(x) + (i - Len(x))] = y[i - Len(x)]
      BY <3>1, Joined
    <3>3. y[i - Len(x)] = text[p + Len(x) + (i - Len(x))]
      BY <3>1 DEF Follows
    <3> QED
      BY <3>1, <3>2, <3>3
  <2> QED
    BY <2>1, <2>2
<1>3. Len(x \o y) = Len(x) + Len(y)
  BY Joined
<1> QED
  BY <1>1, <1>2, <1>3 DEF Follows

\* The same of the file.
LEMMA CarriesRead ==
    ASSUME NEW x \in Seq(Unit), NEW p \in Nat, NEW e \in Nat, Carries(x, p, e),
           NEW k \in 0 .. Len(x)
    PROVE  Carries(SubSeq(x, 1, k), p, e) /\ Carries(From(x, k + 1), p + k, e)
<1>1. Len(x) \in Nat /\ k \in Nat
  OBVIOUS
<1>2. \A i \in 1 .. k : i \in 1 .. Len(x)
  BY <1>1
<1>3. \A i \in 1 .. Len(x) - k : k + i \in 1 .. Len(x) /\ p + k + i - 1 = p + (k + i) - 1
  BY <1>1
<1>4. Carries(SubSeq(x, 1, k), p, e)
  <2> DEFINE a == SubSeq(x, 1, k)
  <2>1. Len(a) = k /\ (\A i \in 1 .. k : a[i] = x[i])
    BY Halves
  <2> HIDE DEF a
  <2>2. Carries(a, p, e)
    BY <1>2, <2>1 DEF Carries
  <2> QED
    BY <2>2 DEF a
<1>5. ASSUME NEW i \in 1 .. Len(From(x, k + 1)), p + k + i - 1 < e
      PROVE  From(x, k + 1)[i] = <<"file", p + k + i - 1>>
  <2>1. i \in 1 .. Len(x) - k
    BY Halves
  <2>2. From(x, k + 1)[i] = x[k + i]
    BY <2>1, Halves
  <2>3. k + i \in 1 .. Len(x) /\ p + k + i - 1 = p + (k + i) - 1
    BY <1>3, <2>1
  <2> HIDE DEF From
  <2> QED
    BY <1>5, <2>2, <2>3 DEF Carries
<1> QED
  BY <1>4, <1>5 DEF Carries

LEMMA CarriesJoined ==
    ASSUME NEW x \in Seq(Unit), NEW y \in Seq(Unit), NEW p \in Nat, NEW e \in Nat,
           Carries(x, p, e), Carries(y, p + Len(x), e)
    PROVE  Carries(x \o y, p, e)
<1>1. Len(x) \in Nat /\ Len(y) \in Nat
  OBVIOUS
<1>2. ASSUME NEW i \in 1 .. Len(x) + Len(y), p + i - 1 < e
      PROVE  (x \o y)[i] = <<"file", p + i - 1>>
  <2>1. CASE i <= Len(x)
    <3>1. i \in 1 .. Len(x)
      BY <1>1, <2>1
    <3>2. (x \o y)[i] = x[i]
      BY <3>1, Joined
    <3> QED
      BY <1>2, <3>1, <3>2 DEF Carries
  <2>2. CASE ~(i <= Len(x))
    <3>1. i - Len(x) \in 1 .. Len(y) /\ Len(x) + (i - Len(x)) = i
          /\ p + Len(x) + (i - Len(x)) - 1 = p + i - 1
      BY <1>1, <2>2
    <3>2. (x \o y)[Len(x) + (i - Len(x))] = y[i - Len(x)]
      BY <3>1, Joined
    <3>3. y[i - Len(x)] = <<"file", p + Len(x) + (i - Len(x)) - 1>>
      BY <1>2, <3>1 DEF Carries
    <3> QED
      BY <3>1, <3>2, <3>3
  <2> QED
    BY <2>1, <2>2
<1>3. Len(x \o y) = Len(x) + Len(y)
  BY Joined
<1> QED
  BY <1>2, <1>3 DEF Carries

\* An answer that is due: its header of four units, and the file.
LEMMA DueFacts ==
    ASSUME server \in {"range", "whole"}, NEW n \in Nat, n < FileLen
    PROVE  /\ End(n) \in Nat /\ n < End(n) /\ End(n) <= FileLen
           /\ server = "range" => End(n) <= n + RangeLen + 1
           /\ Due(n) \in Seq(Unit) /\ Len(Due(n)) = 4 + End(n) - n
           /\ Due(n)[1] = Status /\ Due(n)[2] = Crlf /\ Due(n)[3] = Length(End(n) - n)
           /\ Due(n)[4] = Blank
           /\ \A i \in 1 .. End(n) - n : Due(n)[4 + i] = <<"file", n + i - 1>>
<1>1. /\ End(n) \in Nat /\ n < End(n) /\ End(n) <= FileLen
      /\ server = "range" => End(n) <= n + RangeLen + 1
  BY Sizes DEF End, Small
<1> DEFINE e == End(n)
           f == File(n, e - 1)
<1> HIDE DEF e
<1>2. e \in Nat /\ n < e /\ e <= FileLen
  BY <1>1 DEF e
<1>3. f = [k \in 1 .. (e - n) |-> <<"file", n + k - 1>>]
  <2>1. e - 1 - n + 1 = e - n
    BY <1>2
  <2> QED
    BY <2>1 DEF File
<1>4. f \in Seq(Unit) /\ Len(f) <= Longest
  <2>1. e - 1 \in Int /\ e - 1 < FileLen
    BY <1>2, Sizes
  <2> QED
    BY <2>1, FileText
<1>5. Len(f) = e - n
  <2>1. e - n \in Nat
    BY <1>2
  <2> QED
    BY <1>3, <2>1
<1>6. \A i \in 1 .. e - n : f[i] = <<"file", n + i - 1>>
  BY <1>3
<1> HIDE DEF f
<1> DEFINE h == <<Status, Crlf, Length(Len(f)), Blank>>
<1>7. h \in Seq(Unit) /\ Len(h) = 4
  <2>1. Status \in Unit /\ Crlf \in Unit /\ Blank \in Unit /\ Length(Len(f)) \in Unit
    BY <1>4, Sizes, UnitText DEF Status, Crlf, Blank, Length, Kind
  <2> QED
    BY <2>1
<1>8. h[1] = Status /\ h[2] = Crlf /\ h[3] = Length(Len(f)) /\ h[4] = Blank
  OBVIOUS
<1>9. Due(n) = h \o f
  BY DEF Due, Answer, f, e
<1> HIDE DEF h
<1>10. /\ h \o f \in Seq(Unit) /\ Len(h \o f) = 4 + Len(f)
       /\ \A i \in 1 .. 4 : (h \o f)[i] = h[i]
       /\ \A i \in 1 .. Len(f) : (h \o f)[4 + i] = f[i]
  <2>1. /\ h \o f \in Seq(Unit) /\ Len(h \o f) = Len(h) + Len(f)
        /\ \A i \in 1 .. Len(h) : (h \o f)[i] = h[i]
        /\ \A i \in 1 .. Len(f) : (h \o f)[Len(h) + i] = f[i]
    BY <1>4, <1>7, Joined, Zenon
  <2> QED
    BY <1>7, <2>1, Zenon
<1>11. 4 + Len(f) = 4 + e - n
  BY <1>2, <1>5
<1> QED
  BY <1>1, <1>5, <1>6, <1>8, <1>9, <1>10, <1>11 DEF e

\* What the server sends in place of an error page is the text of the answer, or
\* its beginning, and then the connection is closed.
LEMMA ProperAnswer ==
    ASSUME TextInv, CallInv, ServerAnswers, ~seen'.page
    PROVE  LET good == Answer(Body(inbox[1])) IN
           /\ peer = "up" /\ inbox # <<>> /\ inbox' = Tail(inbox) /\ good \in Seq(Unit)
           /\ \E n \in 0 .. Len(good) : /\ wire' = wire \o SubSeq(good, 1, n)
                                        /\ peer' = "up" => n = Len(good)
<1>1. inbox # <<>> /\ inbox[1] \in Message
  BY DEF ServerAnswers, TextInv
<1> DEFINE good == Answer(Body(inbox[1]))
<1>2. good \in Seq(Unit) /\ Len(good) >= 4
  BY <1>1, BodyText, AnswerText
<1>3. Len(good) \in Nat
  BY <1>2
<1>4. PICK odd \in BOOLEAN, text \in Answers(inbox[1]) :
        /\ odd => faults < MaxFault
        /\ faults' = IF odd THEN faults + 1 ELSE faults
        /\ \E n \in IF odd /\ text = good THEN 0 .. (Len(text) - 1) ELSE {Len(text)} :
             /\ text = good \/ odd \/ inbox[1].text = Spoilt
             /\ wire' = wire \o SubSeq(text, 1, n)
             /\ peer' = IF n < Len(text) THEN "closed" ELSE peer
             /\ seen' = [seen EXCEPT !.page = @ \/ ~(text = good),
                                     !.answered = text # Lengthy /\ n >= 4,
                                     !.mute = @ \/ n \in 1..3]
  BY Zenon DEF ServerAnswers, good
<1> HIDE DEF good
<1>5. PICK n \in IF odd /\ text = good THEN 0 .. (Len(text) - 1) ELSE {Len(text)} :
             /\ wire' = wire \o SubSeq(text, 1, n)
             /\ peer' = IF n < Len(text) THEN "closed" ELSE peer
             /\ seen' = [seen EXCEPT !.page = @ \/ ~(text = good),
                                     !.answered = text # Lengthy /\ n >= 4,
                                     !.mute = @ \/ n \in 1..3]
  BY <1>4
<1>6. seen'.page = (seen.page \/ ~(text = good))
  BY <1>5 DEF CallInv, History
<1>7. text = good
  BY <1>6
<1>8. n \in 0 .. Len(good) /\ wire' = wire \o SubSeq(good, 1, n)
      /\ peer' = IF n < Len(good) THEN "closed" ELSE peer
  BY <1>3, <1>5, <1>7
<1>9. peer' = "up" => n = Len(good)
  BY <1>3, <1>8
<1>10. peer = "up" /\ inbox' = Tail(inbox)
  BY DEF ServerAnswers
<1> QED
  BY <1>1, <1>2, <1>8, <1>9, <1>10 DEF good

\* An excuse stays one for the rest of the download.
LEMMA ExcusedKept ==
    ASSUME CallInv, [Next]_vars, ~BeginFetch, ~BeginCall
    PROVE  server' = server /\ (Excused => Excused')
<1>1. DOMAIN seen = {"page", "moved", "mute", "answered"} /\ seen \in History
  BY DEF CallInv, History
<1>2. CASE UNCHANGED <<server, seen>>
  BY <1>2 DEF Excused
<1>3. CASE SendRequest \/ SendSpoilt \/ SendUnconnected
  <2>1. server' = server /\ seen' = [seen EXCEPT !.answered = FALSE]
    BY <1>3 DEF SendRequest, SendSpoilt, SendUnconnected, setup
  <2>2. seen'.page = seen.page /\ seen'.moved = seen.moved
    BY <1>1, <2>1 DEF History
  <2> QED
    BY <2>1, <2>2 DEF Excused
<1>4. CASE ServerAnswers
  <2>1. server' = server
    BY <1>4 DEF ServerAnswers, setup
  <2>2. \E p, a, m : seen' = [seen EXCEPT !.page = @ \/ p, !.answered = a, !.mute = m]
    BY <1>4, Zenon DEF ServerAnswers
  <2>3. (seen.page => seen'.page) /\ seen'.moved = seen.moved
    BY <1>1, <2>2 DEF History
  <2> QED
    BY <2>1, <2>3 DEF Excused
<1>5. CASE FetchReconnects
  <2>1. server' = server /\ seen' = [seen EXCEPT !.moved = @ \/ got # <<>>]
    BY <1>5 DEF FetchReconnects, setup
  <2>2. seen'.page = seen.page /\ (seen.moved => seen'.moved)
    BY <1>1, <2>1 DEF History
  <2> QED
    BY <2>1, <2>2 DEF Excused
<1>6. CASE Connected \/ ConnectFailed \/ PeerCloses \/ RecvResponse
  BY <1>2, <1>6 DEF Connected, ConnectFailed, PeerCloses, RecvResponse, setup
<1>7. CASE FirstRead \/ ReadHeader \/ _http_parse_response_header \/ FillBody \/ ReadBody
  BY <1>2, <1>7 DEF FirstRead, ReadHeader, _http_parse_response_header, FillBody, ReadBody, setup
<1>8. CASE FetchReturns \/ FetchFails \/ AllocFails \/ CallReturns \/ UNCHANGED vars
  BY <1>2, <1>8 DEF FetchReturns, FetchFails, AllocFails, CallReturns, vars, setup
<1> QED
  BY <1>3, <1>4, <1>5, <1>6, <1>7, <1>8 DEF Next

\* A download that has reached byte n.
LEMMA StreamFacts ==
    ASSUME TextInv, CallInv, LengthInv, GotInv, call = "FETCH", pc # "idle"
    PROVE  /\ Len(got) \in Nat /\ Len(got) < FileLen /\ server \in {"range", "whole"}
           /\ Len(wire) \in Nat /\ Len(data) \in Nat /\ Len(resp) \in Nat /\ Len(inbox) \in Nat
           /\ d.retrieve_len \in Nat /\ d.is_more \in BOOLEAN
           /\ Len(resp) <= BufLen - 1 /\ Len(<<>>) = 0
           /\ d \in ResponseData
BY Sizes DEF TextInv, GotInv, LengthInv, ResponseData

\* Both ends of a request keep the stream.
LEMMA StreamSend ==
    ASSUME TextInv, CallInv, LengthInv, GotInv, call = "FETCH", Stream,
           SendRequest \/ SendSpoilt \/ SendUnconnected
    PROVE  Stream'
<1>1. /\ pc = "send" /\ UNCHANGED <<call, d, wire, peer, got, server, resp, data>>
      /\ \/ pc' = "recv" /\ handle > 0
         \/ pc' = "end" /\ ret' # SUCCESS
      /\ \/ inbox' = inbox
         \/ inbox' = Append(inbox, Request)
         \/ inbox' = Append(inbox, [Request EXCEPT !.text = Spoilt])
  BY DEF SendRequest, SendSpoilt, SendUnconnected, Sent, reply, setup, SUCCESS, FAILURE, CONN_ERROR
<1>2. CASE pc' = "end" /\ ret' # SUCCESS
  BY <1>2 DEF Stream, Asking, Taking
<1>3. CASE pc' = "recv" /\ handle > 0
  <2>1. Asking /\ pc' = "recv"
    BY <1>1, <1>3 DEF Asking
  <2>2. PICK r \in {Request, [Request EXCEPT !.text = Spoilt]} :
          inbox' = inbox \/ inbox' = Append(inbox, r)
    BY <1>1
  <2>a. r.call = "FETCH" /\ r.from = Len(got)
    <3>1. Request = [call |-> call, from |-> Len(got), text |-> Request.text]
      BY DEF Request
    <3>2. r = Request \/ r = [Request EXCEPT !.text = Spoilt]
      BY <2>2
    <3> QED
      BY <3>1, <3>2
  <2>3. inbox \in Seq(Message) /\ OwnRequests
    BY <2>1 DEF TextInv, Stream
  <2>4. OwnRequests'
    <3>1. CASE inbox' = inbox
      BY <2>3, <3>1 DEF OwnRequests
    <3>2. CASE inbox' = Append(inbox, r)
      <4>1. Len(inbox') = Len(inbox) + 1 /\ Len(inbox) \in Nat
        BY <2>a, <2>3, <3>2
      <4>2. \A i \in 1 .. Len(inbox) + 1 :
              inbox'[i] = IF i <= Len(inbox) THEN inbox[i] ELSE r
        BY <2>a, <2>3, <3>2
      <4> QED
        BY <2>a, <2>3, <4>1, <4>2 DEF OwnRequests
    <3> QED
      BY <2>2, <3>1, <3>2
  <2>5. Due(Len(got))' = Due(Len(got)) /\ End(Len(got))' = End(Len(got))
    BY <1>1 DEF Due, End
  <2>6. CASE ~d.is_more
    <3>1. Fresh
      BY <2>1, <2>6 DEF Stream
    <3>2. inbox = <<>> /\ wire = <<>>
      BY <1>1, <3>1 DEF Fresh
    <3>3. inbox' = <<>> \/ (Len(inbox') = 1 /\ inbox'[1] = r)
      <4>1. CASE inbox' = Append(inbox, r)
        BY <2>a, <3>2, <4>1
      <4> QED
        BY <2>2, <3>2, <4>1
    <3>4. Len(inbox') <= 1 /\ (inbox' # <<>> => inbox'[1].from = Len(got))
      <4>1. Len(<<>>) = 0
        OBVIOUS
      <4>2. CASE inbox' = <<>>
        BY <4>1, <4>2
      <4>3. CASE Len(inbox') = 1 /\ inbox'[1] = r
        BY <2>a, <4>3
      <4> QED
        BY <3>3, <4>2, <4>3
    <3>5. Fresh'
      <4>1. (Len(got))' = Len(got) /\ pc' # "send"
        BY <1>1, <2>1
      <4> QED
        BY <1>1, <2>5, <3>1, <3>2, <3>4, <4>1 DEF Fresh, Follows
    <3> QED
      BY <1>1, <2>1, <2>4, <2>6, <3>5 DEF Stream, Taking
  <2>7. CASE d.is_more
    <3>1. InBody
      BY <2>1, <2>7 DEF Stream
    <3>2. InBody'
      BY <1>1, <2>1, <2>5, <3>1 DEF InBody, Carries
    <3> QED
      BY <1>1, <2>1, <2>4, <2>7, <3>2 DEF Stream, Taking
  <2> QED
    BY <2>6, <2>7
<1> QED
  BY <1>1, <1>2, <1>3

\* The answer of the server comes after what it has sent before.
LEMMA StreamServer ==
    ASSUME TextInv, CallInv, LengthInv, GotInv, call = "FETCH", Stream, ServerAnswers, ~seen'.page
    PROVE  Stream'
<1> DEFINE good == Answer(Body(inbox[1]))
<1>1. /\ peer = "up" /\ inbox # <<>> /\ inbox' = Tail(inbox) /\ good \in Seq(Unit)
      /\ \E k \in 0 .. Len(good) : /\ wire' = wire \o SubSeq(good, 1, k)
                                   /\ peer' = "up" => k = Len(good)
  BY ProperAnswer
<1>2. PICK k \in 0 .. Len(good) : /\ wire' = wire \o SubSeq(good, 1, k)
                                  /\ peer' = "up" => k = Len(good)
  BY <1>1
<1>3. UNCHANGED <<server, handle, pc, call, d, old, data, resp, got, ret>>
  BY DEF ServerAnswers, setup, reply
<1>4. /\ inbox \in Seq(Message) /\ Len(inbox) \in Nat \ {0} /\ Len(inbox') = Len(inbox) - 1
      /\ \A i \in 1 .. Len(inbox') : inbox'[i] = inbox[i + 1]
  BY <1>1 DEF TextInv
<1>5. wire \in Seq(Unit)
  BY DEF TextInv
<1>6. Asking' = Asking /\ Taking' = Taking /\ (pc = "connect" => pc' = "connect")
  BY <1>3 DEF Asking, Taking
<1>7. Due(Len(got))' = Due(Len(got)) /\ End(Len(got))' = End(Len(got))
  BY <1>3 DEF Due, End
<1>8. OwnRequests => OwnRequests'
  BY <1>4 DEF OwnRequests
<1> DEFINE t == SubSeq(good, 1, k)
<1>9. t \in Seq(Unit) /\ Len(t) = k /\ \A i \in 1 .. k : t[i] = good[i]
  BY <1>1, Halves
<1>10. CASE (Asking /\ ~d.is_more) \/ pc = "first"
  <2>1. Fresh /\ OwnRequests /\ pc # "idle"
    BY <1>10 DEF Stream, Asking
  <2>2. /\ pc # "send" /\ Len(inbox) = 1 /\ wire = <<>>
        /\ (server = "range" => inbox[1].from = Len(got))
    BY <1>1, <1>4, <2>1 DEF Fresh
  <2>3. inbox[1].call = "FETCH"
    BY <1>4, <2>1 DEF OwnRequests
  <2>4. good = Due(Len(got))
    <3>1. CASE server = "whole"
      <4>1. Len(got) = 0
        BY <2>1, <3>1 DEF Fresh
      <4> QED
        BY <2>3, <3>1, <4>1 DEF Body, Due, End
    <3>2. CASE server = "range"
      <4>1. Small(Len(got) + RangeLen, FileLen - 1) = Small(Len(got) + RangeLen + 1, FileLen) - 1
        BY <2>1, StreamFacts, Sizes DEF Small
      <4> QED
        BY <2>2, <2>3, <3>2, <4>1 DEF Body, Due, End
    <3> QED
      BY <3>1, <3>2 DEF GotInv
  <2> HIDE DEF good, t
  <2>5. wire' = t
    BY <1>2, <1>9, <2>2 DEF t
  <2>6. Follows(t, Due(Len(got)), 0)
    <3>1. Len(good) \in Nat /\ k <= Len(good)
      BY <1>1
    <3> QED
      BY <1>9, <2>4, <3>1 DEF Follows
  <2>7. peer' = "up" => Len(wire') = Len(Due(Len(got)))
    BY <1>2, <1>9, <2>4, <2>5
  <2>8. inbox' = <<>> /\ Len(inbox') = 0
    <3>1. inbox' \in Seq(Message) /\ Len(inbox') = 0
      BY <1>1, <1>4, <2>2
    <3> QED
      BY <3>1
  <2>9. Fresh'
    <3>1. (Len(got))' = Len(got) /\ pc' # "send"
      BY <1>3, <2>2
    <3> QED
      BY <1>3, <1>7, <2>1, <2>5, <2>6, <2>7, <2>8, <3>1 DEF Fresh
  <2> QED
    BY <1>3, <1>6, <1>8, <1>10, <2>1, <2>9 DEF Stream, Asking, Taking
<1>11. CASE (Asking /\ d.is_more) \/ Taking
  <2>1. InBody /\ OwnRequests /\ pc # "idle"
    BY <1>11 DEF Stream, Asking, Taking
  <2>2. server # "range"
    BY <1>1, <2>1 DEF InBody
  <2> HIDE DEF good, t
  <2>3. Len(wire') = Len(wire) + k /\ \A i \in 1 .. Len(wire) : wire'[i] = wire[i]
    BY <1>2, <1>5, <1>9, Joined DEF t
  <2>4. Len(data) + Len(wire) >= d.retrieve_len
    BY <1>1, <2>1 DEF InBody
  <2> DEFINE p == Len(got) + Len(resp) + Len(data)
             e == End(Len(got))
  <2>5. p \in Nat /\ e \in Nat /\ p + Len(wire) >= e /\ Carries(wire, p, e) /\ Len(wire) \in Nat
    <3>1. Len(got) + Len(resp) + d.retrieve_len = e
      BY <2>1 DEF InBody
    <3>2. Carries(wire, p, e)
      BY <2>1 DEF InBody
    <3> QED
      BY <2>1, <2>4, <3>1, <3>2, StreamFacts
  <2> HIDE DEF p, e
  <2>6. Carries(wire', p, e)
    <3> SUFFICES ASSUME NEW i \in 1 .. Len(wire'), p + i - 1 < e
                 PROVE  wire'[i] = <<"file", p + i - 1>>
      BY DEF Carries
    <3>1. i \in 1 .. Len(wire)
      BY <2>3, <2>5
    <3> QED
      BY <2>3, <2>5, <3>1 DEF Carries
  <2>7. Len(wire') >= Len(wire) /\ Len(wire') \in Nat
    BY <2>3, <2>5
  <2>8. InBody'
    <3>1. Carries(wire, Len(got) + Len(resp) + Len(data), End(Len(got)))'
      <4>1. (Len(got) + Len(resp) + Len(data))' = p
        BY <1>3 DEF p
      <4>2. Carries(wire', (Len(got) + Len(resp) + Len(data))', e)
        BY <2>6, <4>1
      <4> QED
        BY <1>7, <4>2 DEF e, Carries
    <3>2. (peer = "up" => Len(data) + Len(wire) >= d.retrieve_len)'
      BY <1>3, <2>1, <2>4, <2>7, StreamFacts
    <3>3. /\ Carries(resp, Len(got), End(Len(got)))'
          /\ Carries(data, Len(got) + Len(resp), End(Len(got)))'
      BY <1>3, <1>7, <2>1 DEF InBody, Carries
    <3>4. (Len(got) + Len(resp) + d.retrieve_len = End(Len(got)))'
      BY <1>3, <1>7, <2>1 DEF InBody
    <3> QED
      BY <1>3, <2>1, <2>2, <3>1, <3>2, <3>3, <3>4 DEF InBody
  <2> QED
    BY <1>3, <1>6, <1>8, <1>11, <2>1, <2>8 DEF Stream, Asking, Taking
<1>12. CASE pc = "header"
  BY <1>1, <1>12 DEF Stream, InHeader
<1>13. CASE ~Asking /\ ~Taking /\ pc \notin {"first", "header"}
  BY <1>3, <1>6, <1>13 DEF Stream
<1>14. d.is_more \in BOOLEAN
  BY DEF LengthInv, ResponseData
<1> QED
  BY <1>10, <1>11, <1>12, <1>13, <1>14

\* How much a read takes, and what it leaves.
LEMMA ReadTakes ==
    ASSUME NEW n \in Nat, NEW k \in Int, wire \in Seq(Unit), Read(n, k), k >= 0
    PROVE  k \in 0 .. Len(wire) /\ k <= n /\ wire' = From(wire, k + 1)
<1>1. k <= n /\ k <= Len(wire)
  BY ReadFacts
<1>2. Len(wire) \in Nat
  OBVIOUS
<1> QED
  BY <1>1, <1>2 DEF Read

\* The status line: what comes after it is the rest of the header.
LEMMA StreamFirst ==
    ASSUME TextInv, CallInv, LengthInv, GotInv, call = "FETCH", Stream, FirstRead
    PROVE  Stream'
<1>1. PICK k \in -2 .. HeadSize :
        /\ Read(HeadSize, k)
        /\ \/ pc' = "end" /\ ret' # SUCCESS
           \/ /\ pc' = "header" /\ k > 0 /\ data' = From(SubSeq(wire, 1, k), 3)
              /\ Crlf \in Range(SubSeq(wire, 1, k))
  BY DEF FirstRead, Received, _http_recv, Small, SUCCESS, FAILURE, CONN_ERROR, INVALID
<1>2. pc = "first" /\ UNCHANGED <<server, peer, inbox, call, got>>
  BY DEF FirstRead, setup
<1>3. CASE pc' = "end" /\ ret' # SUCCESS
  BY <1>3 DEF Stream, Asking, Taking
<1>4. CASE /\ pc' = "header" /\ k > 0 /\ data' = From(SubSeq(wire, 1, k), 3)
           /\ Crlf \in Range(SubSeq(wire, 1, k))
  <2> DEFINE t == SubSeq(wire, 1, k)
             u == Due(Len(got))
  <2>1. wire \in Seq(Unit) /\ k \in Int /\ HeadSize \in Nat /\ Len(wire) \in Nat
    BY Sizes DEF TextInv
  <2>2. k \in 0 .. Len(wire) /\ k <= HeadSize /\ wire' = From(wire, k + 1) /\ k > 0
    BY <1>1, <1>4, <2>1, ReadTakes
  <2>3. Fresh /\ OwnRequests
    BY <1>2 DEF Stream
  <2>4. wire # <<>> /\ inbox = <<>>
    BY <2>1, <2>2, <2>3 DEF Fresh
  <2>5. u \in Seq(Unit) /\ Len(u) \in Nat /\ u[1] = Status /\ u[2] = Crlf
    BY <1>2, StreamFacts, DueFacts
  <2>6. t \in Seq(Unit) /\ Len(t) = k /\ Follows(t, u, 0) /\ Follows(wire', u, 0 + k)
        /\ Len(wire') = Len(wire) - k
    <3>1. Follows(wire, u, 0)
      BY <2>3 DEF Fresh
    <3> HIDE DEF u
    <3> QED
      BY <2>1, <2>2, <2>5, <3>1, Halves, FollowsRead
  <2>7. Len(u) = Len(wire) \/ peer # "up"
    BY <2>3, <2>4 DEF Fresh
  <2> HIDE DEF u, t
  <2>8. k >= 2
    <3>1. Crlf \in Range(t)
      BY <1>4 DEF t
    <3>2. Crlf \in Units(t)
      BY <2>6, <3>1, UnitsAreRange
    <3>3. PICK i \in 1 .. k : t[i] = Crlf
      BY <2>6, <3>2 DEF Units
    <3>4. t[i] = u[0 + i] /\ 0 + i = i
      BY <2>6, <3>3 DEF Follows
    <3>5. i # 1
      BY <2>5, <3>3, <3>4 DEF Status, Crlf
    <3> QED
      BY <2>2, <3>3, <3>5
  <2>9. /\ data' = From(t, 2 + 1) /\ 2 \in 0 .. Len(t)
    BY <1>4, <2>2, <2>6, <2>8 DEF t
  <2>10. Follows(data', u, 2) /\ Len(data') = k - 2
    <3>1. Follows(From(t, 2 + 1), u, 0 + 2) /\ Len(From(t, 2 + 1)) = Len(t) - 2
      BY <2>5, <2>6, <2>9, FollowsRead, Halves
    <3> QED
      BY <2>6, <2>9, <3>1
  <2>11. InHeader'
    <3>1. Due(Len(got))' = u
      BY <1>2 DEF Due, End, u
    <3>2. Follows(data, Due(Len(got)), 2)'
      BY <2>10, <3>1 DEF Follows
    <3>3. 2 + Len(data') = 0 + k
      BY <2>2, <2>10
    <3>4. Follows(wire, Due(Len(got)), 2 + Len(data))'
      BY <2>6, <3>1, <3>3 DEF Follows
    <3>5. (Len(data) <= HeadSize + 1)'
      BY <2>1, <2>2, <2>10
    <3>6. (peer = "up" => 2 + Len(data) + Len(wire) = Len(Due(Len(got))))'
      BY <1>2, <2>1, <2>2, <2>6, <2>7, <2>10, <3>1
    <3> QED
      BY <1>2, <2>3, <2>4, <3>2, <3>4, <3>5, <3>6 DEF InHeader, Fresh
  <2>12. OwnRequests'
    BY <1>2, <2>3 DEF OwnRequests
  <2> QED
    BY <1>4, <2>11, <2>12 DEF Stream, Asking, Taking
<1> QED
  BY <1>1, <1>3, <1>4

\* The blank line of an answer is where the first two units after its status line
\* have been read.
LEMMA HeaderUnits ==
    ASSUME TextInv, CallInv, LengthInv, GotInv, call = "FETCH", pc = "header", InHeader
    PROVE  /\ Len(data) >= 1 => data[1] = Length(End(Len(got)) - Len(got))
           /\ Len(data) >= 2 => data[2] = Blank
           /\ \A i \in 1 .. Len(data) : data[i] = Blank => i = 2
           /\ Blank \in Range(data) <=> Len(data) >= 2
<1> DEFINE n == Len(got)
           e == End(n)
           u == Due(n)
<1>1. /\ n \in Nat /\ e \in Nat /\ n < e /\ Len(u) = 4 + e - n /\ u[3] = Length(e - n)
      /\ u[4] = Blank /\ \A i \in 1 .. e - n : u[4 + i] = <<"file", n + i - 1>>
  BY StreamFacts, DueFacts
<1>2. Follows(data, u, 2)
  BY DEF InHeader
<1>3. data \in Seq(Unit) /\ Len(data) \in Nat
  BY DEF TextInv
<1> HIDE DEF n, e, u
<1>4. 2 + Len(data) <= Len(u) /\ \A i \in 1 .. Len(data) : data[i] = u[2 + i]
  BY <1>2 DEF Follows
<1>5. Len(data) >= 1 => data[1] = Length(e - n)
  BY <1>1, <1>3, <1>4
<1>6. Len(data) >= 2 => data[2] = Blank
  BY <1>1, <1>3, <1>4
<1>7. ASSUME NEW i \in 1 .. Len(data), data[i] = Blank
      PROVE  i = 2
  <2>1. CASE i = 1
    BY <1>5, <1>7, <2>1 DEF Length, Blank
  <2>2. CASE i >= 3
    <3>1. i - 2 \in 1 .. e - n /\ 2 + i = 4 + (i - 2)
      BY <1>1, <1>3, <1>4, <2>2
    <3>2. data[i] = <<"file", n + (i - 2) - 1>>
      BY <1>1, <1>4, <3>1
    <3> QED
      BY <1>7, <3>2 DEF Blank
  <2> QED
    BY <2>1, <2>2
<1>8. Blank \in Units(data) <=> Len(data) >= 2
  BY <1>3, <1>6, <1>7 DEF Units
<1> QED
  BY <1>3, <1>5, <1>6, <1>7, <1>8, UnitsAreRange DEF n, e, u

LEMMA StreamHeader ==
    ASSUME TextInv, CallInv, LengthInv, GotInv, call = "FETCH", Stream, ReadHeader
    PROVE  Stream'
<1>1. PICK k \in -2 .. HeadSize :
        /\ Read(HeadSize, k)
        /\ \/ (pc' = "end" /\ ret' # SUCCESS) \/ pc' = "overrun"
           \/ pc' = "header" /\ k >= 0 /\ data' = data \o SubSeq(wire, 1, k)
  BY DEF ReadHeader, Received, Small, SUCCESS, CONN_ERROR
<1>2. /\ pc = "header" /\ Blank \notin Range(data)
      /\ UNCHANGED <<server, peer, inbox, call, got>>
  BY DEF ReadHeader, setup
<1>3. CASE (pc' = "end" /\ ret' # SUCCESS) \/ pc' = "overrun"
  BY <1>3 DEF Stream, Asking, Taking
<1>4. CASE pc' = "header" /\ k >= 0 /\ data' = data \o SubSeq(wire, 1, k)
  <2> DEFINE t == SubSeq(wire, 1, k)
             u == Due(Len(got))
  <2>1. /\ wire \in Seq(Unit) /\ data \in Seq(Unit) /\ k \in Int /\ HeadSize \in Nat
        /\ Len(wire) \in Nat /\ Len(data) \in Nat
    BY Sizes DEF TextInv
  <2>2. k \in 0 .. Len(wire) /\ k <= HeadSize /\ wire' = From(wire, k + 1)
    BY <1>1, <1>4, <2>1, ReadTakes
  <2>3. InHeader /\ OwnRequests
    BY <1>2 DEF Stream
  <2>4. Len(data) < 2
    BY <1>2, <2>1, <2>3, HeaderUnits
  <2>5. u \in Seq(Unit) /\ Len(u) \in Nat
    BY <1>2, StreamFacts, DueFacts
  <2>6. /\ t \in Seq(Unit) /\ Len(t) = k /\ Follows(t, u, 2 + Len(data))
        /\ Follows(wire', u, 2 + Len(data) + k) /\ Len(wire') = Len(wire) - k
    <3>1. Follows(wire, u, 2 + Len(data)) /\ 2 + Len(data) \in Nat
      BY <2>1, <2>3 DEF InHeader
    <3> HIDE DEF u
    <3> QED
      BY <2>1, <2>2, <2>5, <3>1, Halves, FollowsRead
  <2>7. data' = data \o t
    BY <1>4
  <2> HIDE DEF t
  <2>8. Len(data') = Len(data) + k
    <3>1. Len(data \o t) = Len(data) + Len(t)
      BY <2>1, <2>6, Joined
    <3> QED
      BY <2>6, <2>7, <3>1, Zenon
  <2>9. Follows(data', u, 2)
    <3>1. Follows(data, u, 2)
      BY <2>3 DEF InHeader
    <3> HIDE DEF u
    <3> QED
      BY <2>1, <2>5, <2>6, <2>7, <3>1, FollowsJoined
  <2>10. InHeader'
    <3>1. Due(Len(got))' = u
      BY <1>2 DEF Due, End
    <3>2. Follows(data, Due(Len(got)), 2)'
      BY <2>9, <3>1 DEF Follows
    <3>3. 2 + Len(data') = 2 + Len(data) + k
      BY <2>1, <2>8
    <3>4. Follows(wire, Due(Len(got)), 2 + Len(data))'
      BY <2>6, <3>1, <3>3 DEF Follows
    <3>5. (Len(data) <= HeadSize + 1)'
      BY <2>1, <2>2, <2>4, <2>8
    <3>6. (peer = "up" => 2 + Len(data) + Len(wire) = Len(Due(Len(got))))'
      <4>1. peer = "up" => 2 + Len(data) + Len(wire) = Len(u)
        BY <2>3 DEF InHeader
      <4> HIDE DEF u
      <4>2. 2 + (Len(data) + k) + (Len(wire) - k) = 2 + Len(data) + Len(wire)
        BY <2>1, <2>2
      <4>3. peer' = "up" => 2 + Len(data') + Len(wire') = Len(u)
        BY <1>2, <2>6, <2>8, <4>1, <4>2, Zenon
      <4> QED
        BY <3>1, <4>3, Zenon
    <3> QED
      BY <1>2, <2>3, <3>2, <3>4, <3>5, <3>6 DEF InHeader
  <2>11. OwnRequests'
    BY <1>2, <2>3 DEF OwnRequests
  <2> QED
    BY <1>4, <2>10, <2>11 DEF Stream, Asking, Taking
<1> QED
  BY <1>1, <1>3, <1>4

\* The header is complete: its Content-Length is the length of the file's part, and
\* what was read after it is where that begins.
LEMMA StreamParse ==
    ASSUME TextInv, CallInv, LengthInv, GotInv, call = "FETCH", Stream,
           _http_parse_response_header
    PROVE  Stream'
<1> DEFINE end == CHOOSE i \in DOMAIN data : data[i] = Blank
           fields == {i \in 1..end : data[i][1] = "length"}
           length == data[Min(fields)][2]
           n == Len(got)
           e == End(n)
           u == Due(n)
<1>1. /\ pc = "header" /\ Blank \in Range(data)
      /\ UNCHANGED <<server, peer, inbox, call, got, wire, resp>>
  BY DEF _http_parse_response_header, setup
<1>2. InHeader /\ OwnRequests
  BY <1>1 DEF Stream
<1>3. data \in Seq(Unit) /\ Len(data) \in Nat /\ DOMAIN data = 1 .. Len(data)
  BY DEF TextInv
<1>4. /\ Len(data) >= 2 /\ data[1] = Length(e - n) /\ data[2] = Blank
      /\ \A i \in 1 .. Len(data) : data[i] = Blank => i = 2
  <2>1. Len(data) >= 2
    BY <1>1, <1>2, HeaderUnits
  <2>2. Len(data) >= 1
    BY <1>3, <2>1
  <2> QED
    BY <1>1, <1>2, <2>1, <2>2, HeaderUnits
<1>5. end = 2
  <2>1. 2 \in DOMAIN data
    BY <1>3, <1>4
  <2>2. end \in DOMAIN data /\ data[end] = Blank
    BY <1>4, <2>1
  <2> QED
    BY <1>3, <1>4, <2>2
<1>6. fields = {1}
  <2>1. data[1][1] = "length" /\ data[2][1] # "length"
    BY <1>4 DEF Length, Blank
  <2>2. fields = {i \in 1 .. 2 : data[i][1] = "length"}
    BY <1>5
  <2>3. 1 .. 2 = {1, 2}
    OBVIOUS
  <2> QED
    BY <2>1, <2>2, <2>3
<1>7. length = e - n
  <2>1. Min(fields) = 1
    <3>1. fields \in SUBSET Nat /\ fields # {}
      BY <1>6
    <3>2. Min(fields) \in fields
      BY <3>1, MinInSet
    <3> QED
      BY <1>6, <3>2
  <2> QED
    BY <1>4, <2>1 DEF Length
<1>8. /\ d' = [d EXCEPT !.content_len = length, !.retrieve_len = length]
      /\ data' = From(data, end + 1) /\ pc' = "fill"
  <2>1. IF fields = {}
          THEN Received(CONN_ERROR) /\ UNCHANGED <<d, data>>
          ELSE /\ d' = [d EXCEPT !.content_len = length, !.retrieve_len = length]
               /\ data' = From(data, end + 1) /\ pc' = "fill"
               /\ UNCHANGED <<handle, open, ret>>
    BY Zenon DEF _http_parse_response_header
  <2> QED
    BY <1>6, <2>1
<1> HIDE DEF end, fields, length, n, e, u
<1>9. /\ n \in Nat /\ e \in Nat /\ n < e /\ Len(u) = 4 + e - n /\ u \in Seq(Unit)
      /\ \A i \in 1 .. e - n : u[4 + i] = <<"file", n + i - 1>>
      /\ server = "range" => e <= n + RangeLen + 1
  BY <1>1, StreamFacts, DueFacts DEF n, e, u
<1>10. d'.retrieve_len = e - n
  BY <1>7, <1>8 DEF LengthInv, ResponseData
<1>11. 2 \in 0 .. Len(data) /\ data' = From(data, 2 + 1)
  BY <1>3, <1>4, <1>5, <1>8
<1>12. data' \in Seq(Unit) /\ Len(data') = Len(data) - 2 /\ Follows(data', u, 2 + 2)
  <2>1. Follows(data, u, 2)
    BY <1>2 DEF InHeader, u, n
  <2> QED
    BY <1>3, <1>9, <1>11, <2>1, Halves, FollowsRead
<1>13. Follows(wire, u, 2 + Len(data)) /\ Len(wire) \in Nat
  BY <1>2 DEF InHeader, u, n, TextInv
<1>14. resp = <<>> /\ Len(resp) = 0
  BY <1>1 DEF LengthInv
<1>15. Carries(data', n, e)
  <2> SUFFICES ASSUME NEW i \in 1 .. Len(data') PROVE data'[i] = <<"file", n + i - 1>>
    BY DEF Carries
  <2>1. data'[i] = u[4 + i] /\ i \in 1 .. e - n
    BY <1>3, <1>9, <1>12 DEF Follows
  <2> QED
    BY <1>9, <2>1
<1>16. Carries(wire, n + Len(data'), e)
  <2> SUFFICES ASSUME NEW i \in 1 .. Len(wire)
               PROVE  wire[i] = <<"file", n + Len(data') + i - 1>>
    BY DEF Carries
  <2> DEFINE j == Len(data') + i
  <2>1. wire[i] = u[2 + Len(data) + i]
    BY <1>13 DEF Follows
  <2>2. j \in 1 .. e - n /\ 2 + Len(data) + i = 4 + j /\ n + Len(data') + i - 1 = n + j - 1
    BY <1>3, <1>9, <1>12, <1>13 DEF Follows
  <2> HIDE DEF j
  <2>3. u[4 + j] = <<"file", n + j - 1>>
    BY <1>9, <2>2
  <2> QED
    BY <2>1, <2>2, <2>3
<1>17. InBody'
  <2>1. End(Len(got))' = e /\ (Len(got))' = n /\ n + 0 = n /\ Len(got') = n
    BY <1>1 DEF End, e, n
  <2>2. Len(resp') = 0 /\ resp' = <<>> /\ Carries(resp', n, e)
    BY <1>1, <1>14 DEF Carries
  <2>3. n + Len(resp') = n /\ n + Len(resp') + Len(data') = n + Len(data')
    BY <1>9, <1>12, <1>3, <2>2
  <2>4. (Len(got) + Len(resp) + d.retrieve_len = End(Len(got)))'
    BY <1>9, <1>10, <2>1, <2>3
  <2>5. /\ Carries(resp, Len(got), End(Len(got)))'
        /\ Carries(data, Len(got) + Len(resp), End(Len(got)))'
        /\ Carries(wire, Len(got) + Len(resp) + Len(data), End(Len(got)))'
    <3>1. Carries(resp, Len(got), End(Len(got)))'
      BY <2>1, <2>2 DEF Carries
    <3>2. Carries(data, Len(got) + Len(resp), End(Len(got)))'
      <4>1. Carries(data', n + Len(resp'), e)
        BY <1>15, <2>3
      <4> QED
        BY <2>1, <4>1 DEF Carries
    <3>3. Carries(wire, Len(got) + Len(resp) + Len(data), End(Len(got)))'
      <4>1. Carries(wire, n + Len(resp') + Len(data'), e)
        BY <1>16, <2>3
      <4> QED
        BY <1>1, <2>1, <4>1 DEF Carries
    <3> QED
      BY <3>1, <3>2, <3>3
  <2>6. (peer = "up" => Len(data) + Len(wire) >= d.retrieve_len)'
    <3>1. peer = "up" => 2 + Len(data) + Len(wire) = Len(u)
      BY <1>2 DEF InHeader, u, n
    <3> QED
      BY <1>1, <1>3, <1>9, <1>10, <1>12, <1>13, <3>1
  <2>7. (server = "range" => inbox = <<>> /\ Len(data) + Len(wire) <= d.retrieve_len)'
    <3>1. 2 + Len(data) + Len(wire) <= Len(u) /\ inbox = <<>>
      BY <1>2, <1>13 DEF InHeader, Follows
    <3> QED
      BY <1>1, <1>3, <1>9, <1>10, <1>12, <1>13, <3>1
  <2>8. (Len(data) <= BufLen - 1 - Len(resp))'
    <3>1. Len(data) <= HeadSize + 1
      BY <1>2 DEF InHeader
    <3> QED
      BY <1>3, <1>12, <2>2, <3>1, Sizes
  <2> QED
    BY <1>8, <2>4, <2>5, <2>6, <2>7, <2>8 DEF InBody
<1>18. OwnRequests'
  BY <1>1, <1>2 DEF OwnRequests
<1> QED
  BY <1>8, <1>17, <1>18 DEF Stream, Asking, Taking

\* What was received fits into response_buf: all of it is kept, or all that was due.
LEMMA FillTakes ==
    ASSUME TextInv, CallInv, LengthInv, GotInv, call = "FETCH", pc = "fill", InBody
    PROVE  LET f == _utils_fill_rx_buf(Small(Len(data), d.retrieve_len)) IN
           /\ f.n \in Nat /\ f.n <= Len(data) /\ f.n <= d.retrieve_len
           /\ f.n <= BufLen - 1 - Len(resp)
           /\ f.n = Len(data) \/ f.n = d.retrieve_len
           /\ f.rc \in {SUCCESS, MORE} /\ (server = "range" => f.rc = SUCCESS)
<1> DEFINE n == Small(Len(data), d.retrieve_len)
           room == BufLen - 1 - Len(resp)
           e == End(Len(got))
<1>1. /\ d.retrieve_len \in Nat /\ Len(data) \in Nat /\ Len(resp) \in Nat /\ Len(got) \in Nat
      /\ BufLen \in Nat /\ RangeLen \in Nat /\ BufLen > RangeLen + 2
  BY Sizes, StreamFacts
<1>2. n \in Nat /\ n <= Len(data) /\ n <= d.retrieve_len /\ (n = Len(data) \/ n = d.retrieve_len)
  BY <1>1 DEF Small
<1>3. room \in Int /\ Len(data) <= room /\ Len(got) + Len(resp) + d.retrieve_len = e
  BY <1>1 DEF InBody
<1>4. e \in Nat /\ (server = "range" => e <= Len(got) + RangeLen + 1)
  BY StreamFacts, DueFacts
<1> HIDE DEF n, e
<1>5. server = "range" => n < room
  BY <1>1, <1>2, <1>3, <1>4
<1>6. _utils_fill_rx_buf(n) = IF n < room THEN [n |-> n, rc |-> SUCCESS]
                              ELSE [n |-> room, rc |-> MORE]
  BY DEF _utils_fill_rx_buf
<1> HIDE DEF room
<1>7. /\ _utils_fill_rx_buf(n).n = IF n < room THEN n ELSE room
      /\ _utils_fill_rx_buf(n).rc = IF n < room THEN SUCCESS ELSE MORE
  BY <1>6
<1>8. /\ _utils_fill_rx_buf(n).n \in Nat /\ _utils_fill_rx_buf(n).n <= Len(data)
      /\ _utils_fill_rx_buf(n).n <= d.retrieve_len /\ _utils_fill_rx_buf(n).n <= room
      /\ _utils_fill_rx_buf(n).n = Len(data) \/ _utils_fill_rx_buf(n).n = d.retrieve_len
  BY <1>1, <1>2, <1>3, <1>7
<1>9. /\ _utils_fill_rx_buf(n).rc \in {SUCCESS, MORE}
      /\ server = "range" => _utils_fill_rx_buf(n).rc = SUCCESS
  BY <1>5, <1>7
<1> QED
  BY <1>8, <1>9 DEF n, room

\* A part of the body is moved into response_buf.
LEMMA StreamFill ==
    ASSUME TextInv, CallInv, LengthInv, GotInv, call = "FETCH", Stream, FillBody
    PROVE  Stream'
<1> DEFINE f == _utils_fill_rx_buf(Small(Len(data), d.retrieve_len))
           left == d.retrieve_len - f.n
           p == Len(got) + Len(resp)
           e == End(Len(got))
<1>1. /\ pc = "fill" /\ data' = <<>> /\ UNCHANGED <<server, peer, inbox, call, got, wire>>
      /\ resp' = resp \o SubSeq(data, 1, f.n)
      /\ d' = [d EXCEPT !.retrieve_len = left, !.is_more = f.rc = MORE \/ left > 0]
      /\ IF f.rc = MORE \/ left = 0 THEN Received(f.rc)
         ELSE pc' = "body" /\ UNCHANGED <<handle, open, ret>>
  BY Zenon DEF FillBody, setup
<1>2. InBody /\ OwnRequests
  BY <1>1 DEF Stream, Taking
<1>3. /\ f.n \in Nat /\ f.n <= Len(data) /\ f.n <= d.retrieve_len
      /\ f.n <= BufLen - 1 - Len(resp)
      /\ f.n = Len(data) \/ f.n = d.retrieve_len
      /\ f.rc \in {SUCCESS, MORE} /\ (server = "range" => f.rc = SUCCESS)
  BY <1>1, <1>2, FillTakes
<1> HIDE DEF f
<1>4. /\ Len(got) \in Nat /\ Len(wire) \in Nat /\ Len(data) \in Nat /\ Len(resp) \in Nat
      /\ d.retrieve_len \in Nat /\ d \in ResponseData /\ BufLen \in Nat
      /\ data \in Seq(Unit) /\ resp \in Seq(Unit) /\ wire \in Seq(Unit)
  BY <1>1, Sizes, StreamFacts DEF TextInv
<1>5. p \in Nat /\ e \in Nat /\ p + d.retrieve_len = e
  <2>1. e \in Nat
    BY <1>1, StreamFacts, DueFacts
  <2> QED
    BY <1>2, <1>4, <2>1 DEF InBody
<1>6. Carries(resp, Len(got), e) /\ Carries(data, p, e) /\ Carries(wire, p + Len(data), e)
  BY <1>2 DEF InBody
<1>7. End(Len(got))' = e /\ Len(got') = Len(got)
  BY <1>1 DEF End
<1> HIDE DEF e
<1>8. /\ d'.retrieve_len = d.retrieve_len - f.n
      /\ d'.is_more = (f.rc = MORE \/ left > 0)
  BY <1>1, <1>4 DEF ResponseData
<1>9. /\ pc' = "body" \/ (pc' = "end" /\ ret' = SUCCESS)
      /\ pc' = "end" => f.rc = MORE \/ left = 0
  BY <1>1, <1>3 DEF Received, Small, SUCCESS, MORE
<1> DEFINE t == SubSeq(data, 1, f.n)
<1>10. t \in Seq(Unit) /\ Len(t) = f.n /\ Carries(t, p, e)
  <2>1. f.n \in 0 .. Len(data)
    BY <1>3, <1>4
  <2> QED
    BY <1>4, <1>5, <1>6, <2>1, Halves, CarriesRead
<1>11. resp' = resp \o t
  BY <1>1
<1> HIDE DEF t
<1>12. Len(resp') = Len(resp) + f.n
  <2>1. Len(resp \o t) = Len(resp) + Len(t)
    BY <1>4, <1>10, Joined
  <2> QED
    BY <1>10, <1>11, <2>1, Zenon
<1>13. Carries(resp', Len(got), e)
  BY <1>4, <1>5, <1>6, <1>10, <1>11, CarriesJoined
<1>14. Len(got) + Len(resp') = p + f.n /\ p + f.n + (d.retrieve_len - f.n) = e
  <2>1. Len(got) + Len(resp') = p + f.n
    <3>1. Len(got) + (Len(resp) + f.n) = Len(got) + Len(resp) + f.n
      BY <1>3, <1>4
    <3> QED
      BY <1>12, <3>1, Zenon
  <2> HIDE DEF p
  <2>2. p + f.n + (d.retrieve_len - f.n) = e
    BY <1>3, <1>4, <1>5
  <2> QED
    BY <2>1, <2>2
<1>15. Carries(wire, p + f.n, e)
  <2>1. CASE f.n = Len(data)
    BY <1>6, <2>1
  <2>2. CASE f.n = d.retrieve_len
    BY <1>4, <1>5, <2>2 DEF Carries
  <2> QED
    BY <1>3, <2>1, <2>2
<1>16. Len(data') = 0 /\ p + f.n + 0 = p + f.n
  BY <1>1, <1>3, <1>5
<1> HIDE DEF p
<1>17. InBody'
  <2>1. (Len(got) + Len(resp) + d.retrieve_len = End(Len(got)))'
    BY <1>7, <1>8, <1>14
  <2>2. Carries(resp, Len(got), End(Len(got)))'
    BY <1>7, <1>13 DEF Carries
  <2>3. Carries(data, Len(got) + Len(resp), End(Len(got)))'
    BY <1>16 DEF Carries
  <2>4. Carries(wire, Len(got) + Len(resp) + Len(data), End(Len(got)))'
    <3>1. (Len(got) + Len(resp) + Len(data))' = p + f.n
      BY <1>7, <1>14, <1>16
    <3>2. Carries(wire, (Len(got) + Len(resp) + Len(data))', e)
      BY <1>15, <3>1
    <3> QED
      BY <1>1, <1>7, <3>2 DEF Carries
  <2>5. (peer = "up" => Len(data) + Len(wire) >= d.retrieve_len)'
    <3>1. peer = "up" => Len(data) + Len(wire) >= d.retrieve_len
      BY <1>2 DEF InBody
    <3> QED
      BY <1>1, <1>3, <1>4, <1>8, <1>16, <3>1
  <2>6. (server = "range" => inbox = <<>> /\ Len(data) + Len(wire) <= d.retrieve_len)'
    <3>1. server = "range" => inbox = <<>> /\ Len(data) + Len(wire) <= d.retrieve_len
      BY <1>2 DEF InBody
    <3> QED
      BY <1>1, <1>3, <1>4, <1>8, <1>16, <3>1
  <2>7. (Len(data) <= BufLen - 1 - Len(resp))'
    BY <1>3, <1>4, <1>12, <1>16
  <2>8. (pc = "end" /\ server = "range" => ~d.is_more)'
    <3> SUFFICES ASSUME pc' = "end", server' = "range" PROVE ~d'.is_more
      OBVIOUS
    <3>1. f.rc # MORE
      BY <1>1, <1>3 DEF SUCCESS, MORE
    <3>2. ~(left > 0)
      BY <1>9, <3>1
    <3> QED
      BY <1>8, <3>1, <3>2, Zenon
  <2> QED
    BY <1>1, <1>9, <2>1, <2>2, <2>3, <2>4, <2>5, <2>6, <2>7, <2>8 DEF InBody
<1>18. OwnRequests'
  BY <1>1, <1>2 DEF OwnRequests
<1> QED
  BY <1>9, <1>17, <1>18 DEF Stream, Asking, Taking

\* More of the body is read.
LEMMA StreamBody ==
    ASSUME TextInv, CallInv, LengthInv, GotInv, call = "FETCH", Stream, ReadBody
    PROVE  Stream'
<1> DEFINE p == Len(got) + Len(resp)
           e == End(Len(got))
<1>1. PICK k \in -2 .. max_len_to_receive :
        /\ Read(max_len_to_receive, k)
        /\ \/ pc' = "end" /\ ret' # SUCCESS
           \/ pc' = "fill" /\ k >= 0 /\ data' = SubSeq(wire, 1, k)
  BY DEF ReadBody, Received, Small, SUCCESS, CONN_ERROR
<1>2. pc = "body" /\ UNCHANGED <<server, peer, inbox, call, got, resp, d>>
  BY DEF ReadBody, setup
<1>3. CASE pc' = "end" /\ ret' # SUCCESS
  BY <1>3 DEF Stream, Asking, Taking
<1>4. CASE pc' = "fill" /\ k >= 0 /\ data' = SubSeq(wire, 1, k)
  <2>1. /\ Len(got) \in Nat /\ Len(wire) \in Nat /\ Len(resp) \in Nat
        /\ d.retrieve_len \in Nat /\ BufLen \in Nat /\ ChunkSize \in Nat /\ ChunkSize >= 2
        /\ Len(resp) <= BufLen - 1 /\ wire \in Seq(Unit)
    BY <1>2, Sizes, StreamFacts DEF TextInv
  <2>2. InBody /\ OwnRequests /\ data = <<>> /\ Len(data) = 0
    BY <1>2 DEF Stream, Taking, InBody
  <2>3. max_len_to_receive \in Nat /\ max_len_to_receive <= BufLen - 1 - Len(resp)
    BY <2>1 DEF max_len_to_receive, Small
  <2>4. k \in 0 .. Len(wire) /\ k <= max_len_to_receive /\ wire' = From(wire, k + 1)
    BY <1>1, <1>4, <2>1, <2>3, ReadTakes
  <2>5. p \in Nat /\ e \in Nat /\ p + d.retrieve_len = e
    <3>1. e \in Nat
      BY <1>2, StreamFacts, DueFacts
    <3> QED
      BY <2>1, <2>2, <3>1 DEF InBody
  <2>6. Carries(resp, Len(got), e) /\ Carries(wire, p, e)
    <3>1. p + Len(data) = p
      BY <2>2, <2>5
    <3> QED
      BY <2>2, <3>1 DEF InBody
  <2>7. End(Len(got))' = e /\ Len(got') = Len(got)
    BY <1>2 DEF End
  <2> HIDE DEF e
  <2>8. /\ Len(data') = k /\ Carries(data', p, e)
        /\ Len(wire') = Len(wire) - k /\ Carries(wire', p + k, e)
    BY <1>4, <2>1, <2>4, <2>5, <2>6, Halves, CarriesRead
  <2>9. (Len(got) + Len(resp))' = p
    BY <1>2
  <2>10. InBody'
    <3>1. (Len(got) + Len(resp) + d.retrieve_len = End(Len(got)))'
      BY <1>2, <2>5, <2>7
    <3>2. Carries(resp, Len(got), End(Len(got)))'
      BY <1>2, <2>6, <2>7 DEF Carries
    <3> HIDE DEF p
    <3>3. Carries(data, Len(got) + Len(resp), End(Len(got)))'
      <4>1. Carries(data', (Len(got) + Len(resp))', e)
        BY <2>8, <2>9
      <4> QED
        BY <2>7, <4>1 DEF Carries
    <3>4. Carries(wire, Len(got) + Len(resp) + Len(data), End(Len(got)))'
      <4>1. (Len(got) + Len(resp) + Len(data))' = p + k
        BY <2>8, <2>9
      <4>2. Carries(wire', (Len(got) + Len(resp) + Len(data))', e)
        BY <2>8, <4>1
      <4> QED
        BY <2>7, <4>2 DEF Carries
    <3>5. (peer = "up" => Len(data) + Len(wire) >= d.retrieve_len)'
      <4>1. peer = "up" => Len(data) + Len(wire) >= d.retrieve_len
        BY <2>2 DEF InBody
      <4> QED
        BY <1>2, <2>1, <2>2, <2>4, <2>8, <4>1
    <3>6. (server = "range" => inbox = <<>> /\ Len(data) + Len(wire) <= d.retrieve_len)'
      <4>1. server = "range" => inbox = <<>> /\ Len(data) + Len(wire) <= d.retrieve_len
        BY <2>2 DEF InBody
      <4> QED
        BY <1>2, <2>1, <2>2, <2>4, <2>8, <4>1
    <3>7. (Len(data) <= BufLen - 1 - Len(resp))'
      BY <1>2, <2>1, <2>3, <2>4, <2>8
    <3> QED
      BY <1>4, <3>1, <3>2, <3>3, <3>4, <3>5, <3>6, <3>7 DEF InBody
  <2>11. OwnRequests'
    BY <1>2, <2>2 DEF OwnRequests
  <2> QED
    BY <1>4, <2>10, <2>11 DEF Stream, Asking, Taking
<1> QED
  BY <1>1, <1>3, <1>4

\* The answer is asked for: nothing of it was read, or its body goes on.
LEMMA StreamRecv ==
    ASSUME TextInv, CallInv, LengthInv, GotInv, call = "FETCH", Stream, RecvResponse
    PROVE  Stream'
<1>1. /\ pc = "recv" /\ resp' = <<>> /\ data' = <<>>
      /\ d' = [d EXCEPT !.content_len = 0, !.is_more = TRUE]
      /\ pc' = IF d.is_more THEN "fill" ELSE "first"
      /\ UNCHANGED <<server, peer, inbox, call, got, wire>>
  BY DEF RecvResponse, setup, net
<1>2. OwnRequests' /\ d'.retrieve_len = d.retrieve_len /\ d.is_more \in BOOLEAN
  BY <1>1 DEF Stream, Asking, OwnRequests, LengthInv, ResponseData
<1>3. End(Len(got))' = End(Len(got)) /\ Due(Len(got))' = Due(Len(got))
  BY <1>1 DEF End, Due
<1>4. CASE d.is_more
  <2>1. InBody /\ resp = <<>> /\ data = <<>>
    BY <1>1, <1>4 DEF Stream, Asking, InBody
  <2>2. UNCHANGED <<resp, data>> /\ pc' = "fill"
    BY <1>1, <1>4, <2>1
  <2>3. InBody'
    BY <1>1, <1>2, <1>3, <2>1, <2>2 DEF InBody, Carries
  <2> QED
    BY <1>2, <2>2, <2>3 DEF Stream, Asking, Taking
<1>5. CASE ~d.is_more
  <2>1. Fresh /\ pc' = "first"
    BY <1>1, <1>5 DEF Stream, Asking
  <2>2. Fresh'
    BY <1>1, <1>3, <2>1 DEF Fresh, Follows
  <2> QED
    BY <1>2, <2>1, <2>2 DEF Stream, Asking, Taking
<1> QED
  BY <1>2, <1>4, <1>5

\* A connection is made, or is not, or is lost.
LEMMA StreamConnect ==
    ASSUME TextInv, CallInv, LengthInv, GotInv, call = "FETCH", Stream,
           Connected \/ ConnectFailed \/ PeerCloses
    PROVE  Stream'
<1>1. CASE Connected
  <2>1. /\ pc = "connect" /\ pc' = "send" /\ wire' = <<>> /\ inbox' = <<>>
        /\ UNCHANGED <<server, d, got>>
    BY <1>1 DEF Connected, setup, reply
  <2>2. ~d'.is_more /\ (server' = "whole" => got' = <<>>)
    BY <2>1 DEF Stream
  <2>3. Len(got) \in Nat /\ Len(got) < FileLen /\ server \in {"range", "whole"}
    BY <2>1, StreamFacts
  <2>4. Due(Len(got))' = Due(Len(got)) /\ Len(Due(Len(got))) \in Nat
    <3>1. Due(Len(got)) \in Seq(Unit)
      BY <2>3, DueFacts
    <3> QED
      BY <2>1, <3>1 DEF Due, End
  <2>5. Follows(wire, Due(Len(got)), 0)'
    BY <2>1, <2>4 DEF Follows
  <2>6. Fresh'
    BY <2>1, <2>2, <2>5 DEF Fresh
  <2>7. OwnRequests'
    BY <2>1 DEF OwnRequests
  <2> QED
    BY <2>1, <2>2, <2>6, <2>7 DEF Stream, Asking, Taking
<1>2. CASE ConnectFailed
  <2>1. /\ pc = "connect" /\ pc' \in {"connect", "send"} /\ handle' \in {-1, 0}
        /\ UNCHANGED <<server, d, got>>
    BY <1>2 DEF ConnectFailed, Disconnected, setup, reply
  <2>2. ~(handle' > 0)
    BY <2>1
  <2> QED
    BY <2>1, <2>2 DEF Stream, Asking, Taking
<1>3. CASE PeerCloses
  <2>1. /\ peer' # "up"
        /\ UNCHANGED <<server, handle, wire, inbox, pc, call, d, data, resp, got, ret>>
    BY <1>3 DEF PeerCloses, setup, reply
  <2>2. End(Len(got))' = End(Len(got)) /\ Due(Len(got))' = Due(Len(got))
    BY <2>1 DEF End, Due
  <2>3. /\ OwnRequests => OwnRequests' /\ (Fresh => Fresh') /\ (InHeader => InHeader')
        /\ InBody => InBody'
    <3>1. OwnRequests => OwnRequests'
      BY <2>1 DEF OwnRequests
    <3>2. Fresh => Fresh'
      BY <2>1, <2>2 DEF Fresh, Follows
    <3>3. InHeader => InHeader'
      BY <2>1, <2>2 DEF InHeader, Follows
    <3>4. InBody => InBody'
      BY <2>1, <2>2 DEF InBody, Carries
    <3> QED
      BY <3>1, <3>2, <3>3, <3>4
  <2> QED
    BY <2>1, <2>3 DEF Stream, Asking, Taking
<1> QED
  BY <1>1, <1>2, <1>3

\* ofc_fetch returns what is in response_buf.
LEMMA HandedOver ==
    ASSUME TextInv, CallInv, LengthInv, GotInv, call = "FETCH", Stream, ~Excused, FetchReturns
    PROVE  /\ InBody /\ OwnRequests /\ pc = "end" /\ got' \in Seq(Unit)
           /\ Len(got') = Len(got) + Len(resp)
           /\ Carries(got', 0, Len(got'))
<1>1. pc = "end" /\ ret = SUCCESS /\ got' = got \o SubSeq(resp, 1, ofc_fetch)
  BY DEF FetchReturns
<1>2. ofc_fetch = Len(resp) /\ InBody /\ OwnRequests
  BY <1>1 DEF LengthInv, Stream, Taking
<1>3. /\ resp \in Seq(Unit) /\ got \in Seq(Unit) /\ Len(resp) \in Nat /\ Len(got) \in Nat
      /\ d.retrieve_len \in Nat
  BY <1>1, StreamFacts DEF TextInv
<1> DEFINE t == SubSeq(resp, 1, Len(resp))
           e == End(Len(got))
<1>4. e \in Nat /\ Len(got) + Len(resp) + d.retrieve_len = e /\ Carries(resp, Len(got), e)
  <2>1. e \in Nat
    BY <1>1, StreamFacts, DueFacts
  <2> QED
    BY <1>2, <2>1 DEF InBody
<1> HIDE DEF e
<1>5. t \in Seq(Unit) /\ Len(t) = Len(resp) /\ Carries(t, Len(got), e)
  <2>1. Len(resp) \in 0 .. Len(resp)
    BY <1>3
  <2> QED
    BY <1>3, <1>4, <2>1, Halves, CarriesRead
<1>6. got' = got \o t
  BY <1>1, <1>2
<1> HIDE DEF t
<1>7. got' \in Seq(Unit) /\ Len(got') = Len(got) + Len(resp)
  <2>1. got \o t \in Seq(Unit) /\ Len(got \o t) = Len(got) + Len(t)
    BY <1>3, <1>5, Joined
  <2> QED
    BY <1>5, <1>6, <2>1, Zenon
<1>8. Carries(got, 0, e) /\ Carries(t, 0 + Len(got), e)
  <2>1. Carries(got, 0, Len(got)) /\ 0 + Len(got) = Len(got)
    BY <1>3 DEF GotInv
  <2>2. \A i \in 1 .. Len(got) : 0 + i - 1 < Len(got)
    BY <1>3
  <2> QED
    BY <1>5, <2>1, <2>2 DEF Carries
<1>9. Carries(got', 0, e)
  BY <1>3, <1>4, <1>5, <1>6, <1>8, CarriesJoined
<1>10. \A i \in 1 .. Len(got') : 0 + i - 1 < Len(got') => 0 + i - 1 < e
  BY <1>3, <1>4, <1>7
<1> QED
  BY <1>1, <1>2, <1>7, <1>9, <1>10 DEF Carries

\* The next call asks for the rest, or goes on with the answer it has.
LEMMA StreamReturns ==
    ASSUME TextInv, CallInv, LengthInv, GotInv, call = "FETCH", Stream, ~Excused, FetchReturns,
           call' = "FETCH"
    PROVE  Stream'
<1>1. /\ ret = SUCCESS /\ resp' = <<>> /\ Len(got') < FileLen /\ pc' = "send"
      /\ UNCHANGED <<server, peer, wire, inbox, d, data>>
  BY DEF FetchReturns, setup
<1>2. /\ InBody /\ OwnRequests /\ pc = "end" /\ got' \in Seq(Unit)
      /\ Len(got') = Len(got) + Len(resp)
  BY HandedOver
<1>3. /\ Len(got) \in Nat /\ Len(resp) \in Nat /\ Len(wire) \in Nat /\ Len(got') \in Nat
      /\ d.retrieve_len \in Nat /\ d.is_more \in BOOLEAN /\ server \in {"range", "whole"}
      /\ data = <<>> /\ Len(data) = 0 /\ BufLen \in Nat /\ BufLen > 2 /\ wire \in Seq(Unit)
      /\ RangeLen \in Nat /\ FileLen \in Nat
  BY <1>2, Sizes, StreamFacts DEF InBody, TextInv
<1>4. Len(got') + d.retrieve_len = End(Len(got))
  BY <1>2 DEF InBody
<1>5. ~d.is_more => d.retrieve_len = 0
  BY <1>1, <1>2 DEF LengthInv
<1>6. OwnRequests'
  BY <1>1, <1>2 DEF OwnRequests
<1>7. CASE server = "range"
  <2>1. ~d.is_more /\ inbox = <<>> /\ Len(wire) <= 0
    BY <1>2, <1>3, <1>5, <1>7 DEF InBody
  <2>2. wire = <<>>
    BY <1>3, <2>1
  <2>3. Len(Due(Len(got'))) \in Nat /\ Due(Len(got))' = Due(Len(got'))
    <3>1. Due(Len(got')) \in Seq(Unit)
      BY <1>1, <1>3, DueFacts
    <3> QED
      BY <1>1, <3>1 DEF Due, End
  <2>4. Follows(wire, Due(Len(got)), 0)'
    BY <1>1, <2>2, <2>3 DEF Follows
  <2>5. Fresh'
    BY <1>1, <1>7, <2>1, <2>2, <2>4 DEF Fresh
  <2> QED
    BY <1>1, <1>6, <2>1, <2>5 DEF Stream, Asking, Taking
<1>8. CASE server = "whole"
  <2>1. End(Len(got)) = FileLen /\ End(Len(got))' = FileLen
    BY <1>1, <1>8 DEF End
  <2>2. d.is_more
    BY <1>1, <1>3, <1>4, <1>5, <2>1
  <2>3. Len(resp') = 0 /\ Len(got') + 0 = Len(got')
    BY <1>1, <1>3
  <2>4. InBody'
    <3>1. (Len(got) + Len(resp) + d.retrieve_len = End(Len(got)))'
      BY <1>1, <1>3, <1>4, <2>1, <2>3
    <3>2. /\ Carries(resp, Len(got), End(Len(got)))'
          /\ Carries(data, Len(got) + Len(resp), End(Len(got)))'
      BY <1>1, <1>3, <2>3 DEF Carries
    <3>3. Carries(wire, Len(got) + Len(resp) + Len(data), End(Len(got)))'
      <4>1. Carries(wire, Len(got) + Len(resp) + Len(data), FileLen)
        BY <1>2, <2>1 DEF InBody
      <4>2. (Len(got) + Len(resp) + Len(data))' = Len(got) + Len(resp) + Len(data)
        BY <1>1, <1>2, <1>3, <2>3
      <4>3. Carries(wire, (Len(got) + Len(resp) + Len(data))', FileLen)
        BY <4>1, <4>2
      <4> QED
        BY <1>1, <2>1, <4>3 DEF Carries
    <3>4. peer = "up" => Len(data) + Len(wire) >= d.retrieve_len
      BY <1>2 DEF InBody
    <3>5. (Len(data) <= BufLen - 1 - Len(resp))'
      BY <1>1, <1>3, <2>3
    <3> QED
      BY <1>1, <1>3, <1>8, <3>1, <3>2, <3>3, <3>4, <3>5 DEF InBody
  <2> QED
    BY <1>1, <1>6, <2>2, <2>4 DEF Stream, Asking, Taking
<1> QED
  BY <1>3, <1>7, <1>8

\* What a download has handed over.
LEMMA GotNext ==
    ASSUME TypeInv, FetchInv, [Next]_vars
    PROVE  GotInv'
<1>1. TextInv /\ CallInv /\ LengthInv /\ GotInv
  BY DEF TypeInv, FetchInv
<1>2. "FETCH" \notin OneShot /\ "none" \notin OneShot /\ FileLen \in Nat /\ FileLen >= 1
  BY Sizes
<1>3. CASE BeginFetch \/ BeginCall
  <2>1. server' = server /\ got' = <<>> /\ Len(got') = 0
    BY <1>3 DEF BeginFetch, BeginCall, setup
  <2>2. Carries(got', 0, Len(got'))
    BY <2>1 DEF Carries
  <2> QED
    BY <1>1, <1>2, <2>1, <2>2 DEF GotInv, Carries
<1>4. CASE FetchReturns
  <2>1. ~BeginFetch /\ ~BeginCall
    BY <1>4 DEF FetchReturns, BeginFetch, BeginCall
  <2>2. server' = server /\ (Excused => Excused')
    BY <1>1, <2>1, ExcusedKept
  <2>3. /\ call = "FETCH" /\ (call' = "FETCH" => Len(got') < FileLen)
        /\ call' \in {"FETCH", "none"}
    BY <1>4 DEF FetchReturns
  <2>4. ~Excused' => Carries(got', 0, Len(got'))
    <3> SUFFICES ASSUME ~Excused PROVE Carries(got', 0, Len(got'))
      BY <2>2
    <3>1. Stream
      BY <2>3 DEF FetchInv
    <3> QED
      BY <1>1, <1>4, <2>3, <3>1, HandedOver
  <2>5. Carries(got, 0, Len(got))' <=> Carries(got', 0, Len(got'))
    BY DEF Carries
  <2> QED
    BY <1>1, <1>2, <2>2, <2>3, <2>4, <2>5 DEF GotInv
<1>5. CASE ~BeginFetch /\ ~BeginCall /\ ~FetchReturns
  <2>1. server' = server /\ (Excused => Excused')
    BY <1>1, <1>5, ExcusedKept
  <2>2. /\ got' = got /\ call' \in {call, "none"}
        /\ call' = "FETCH" /\ pc' # "idle" => pc # "idle"
    <3>1. CASE Connected \/ ConnectFailed \/ SendRequest \/ SendSpoilt \/ SendUnconnected
      BY <3>1 DEF Connected, ConnectFailed, SendRequest, SendSpoilt, SendUnconnected, reply
    <3>2. CASE ServerAnswers \/ PeerCloses \/ AllocFails \/ UNCHANGED vars
      BY <3>2 DEF ServerAnswers, PeerCloses, AllocFails, vars, reply
    <3>3. CASE RecvResponse \/ FirstRead \/ ReadHeader
      BY <3>3 DEF RecvResponse, FirstRead, ReadHeader, net
    <3>4. CASE _http_parse_response_header \/ FillBody \/ ReadBody
      BY <3>4 DEF _http_parse_response_header, FillBody, ReadBody
    <3>5. CASE FetchReconnects \/ FetchFails \/ CallReturns
      BY <3>5 DEF FetchReconnects, FetchFails, CallReturns
    <3> QED
      BY <1>5, <3>1, <3>2, <3>3, <3>4, <3>5 DEF Next
  <2> QED
    BY <1>1, <1>2, <2>1, <2>2 DEF GotInv, Carries
<1> QED
  BY <1>3, <1>4, <1>5

LEMMA FetchNext == TypeInv /\ FetchInv /\ [Next]_vars => FetchInv'
<1> SUFFICES ASSUME TypeInv, FetchInv, [Next]_vars, call' = "FETCH", ~Excused'
             PROVE  Stream'
  BY GotNext DEF FetchInv
<1>1. TextInv /\ CallInv /\ LengthInv /\ GotInv
  BY DEF TypeInv, FetchInv
<1>2. "FETCH" \notin OneShot
  BY Sizes
<1>3. CASE BeginFetch
  <2>1. /\ pc' = "connect" \/ (pc' = "end" /\ ret' # SUCCESS)
        /\ d' = Cleared /\ got' = <<>>
    BY <1>3 DEF BeginFetch, Connect, SUCCESS, INVALID
  <2> QED
    BY <2>1 DEF Stream, Asking, Taking, Cleared
<1>4. CASE BeginCall
  BY <1>2, <1>4 DEF BeginCall
<1>5. CASE ~BeginFetch /\ ~BeginCall
  <2>1. ~Excused
    BY <1>1, <1>5, ExcusedKept
  <2>2. ~seen'.page
    BY DEF Excused
  <2>3. call = "FETCH" => Stream
    BY <2>1 DEF FetchInv
  <2>4. CASE Connected \/ ConnectFailed \/ PeerCloses
    <3>1. call = "FETCH"
      BY <2>4 DEF Connected, ConnectFailed, PeerCloses
    <3> QED
      BY <1>1, <2>3, <2>4, <3>1, StreamConnect
  <2>5. CASE SendRequest \/ SendSpoilt \/ SendUnconnected
    <3>1. call = "FETCH"
      BY <2>5 DEF SendRequest, SendSpoilt, SendUnconnected
    <3> QED
      BY <1>1, <2>3, <2>5, <3>1, StreamSend
  <2>6. CASE ServerAnswers
    <3>1. call = "FETCH"
      BY <2>6 DEF ServerAnswers
    <3> QED
      BY <1>1, <2>2, <2>3, <2>6, <3>1, StreamServer
  <2>7. CASE RecvResponse
    <3>1. call = "FETCH"
      BY <2>7 DEF RecvResponse
    <3> QED
      BY <1>1, <2>3, <2>7, <3>1, StreamRecv
  <2>8. CASE FirstRead
    <3>1. call = "FETCH"
      BY <2>8 DEF FirstRead
    <3> QED
      BY <1>1, <2>3, <2>8, <3>1, StreamFirst
  <2>9. CASE ReadHeader
    <3>1. call = "FETCH"
      BY <2>9 DEF ReadHeader
    <3> QED
      BY <1>1, <2>3, <2>9, <3>1, StreamHeader
  <2>10. CASE _http_parse_response_header
    <3>1. call = "FETCH"
      BY <2>10 DEF _http_parse_response_header
    <3> QED
      BY <1>1, <2>3, <2>10, <3>1, StreamParse
  <2>11. CASE FillBody
    <3>1. call = "FETCH"
      BY <2>11 DEF FillBody
    <3> QED
      BY <1>1, <2>3, <2>11, <3>1, StreamFill
  <2>12. CASE ReadBody
    <3>1. call = "FETCH"
      BY <2>12 DEF ReadBody
    <3> QED
      BY <1>1, <2>3, <2>12, <3>1, StreamBody
  <2>13. CASE FetchReturns
    <3>1. call = "FETCH"
      BY <2>13 DEF FetchReturns
    <3> QED
      BY <1>1, <2>1, <2>3, <2>13, <3>1, StreamReturns
  <2>14. CASE FetchReconnects
    <3>1. /\ pc' = "connect" /\ d' = Cleared /\ got' = got /\ server' = server
          /\ seen' = [seen EXCEPT !.moved = @ \/ got # <<>>]
      BY <2>14 DEF FetchReconnects, setup
    <3>2. seen'.moved = (seen.moved \/ got # <<>>)
      BY <1>1, <3>1 DEF CallInv, History
    <3>3. server' = "whole" => got' = <<>>
      BY <3>1, <3>2 DEF Excused
    <3> QED
      BY <3>1, <3>3 DEF Stream, Asking, Taking, Cleared
  <2>15. CASE FetchFails \/ CallReturns
    BY <2>15 DEF FetchFails, CallReturns
  <2>16. CASE AllocFails
    <3>1. pc' = "idle"
      BY <2>16 DEF AllocFails
    <3> QED
      BY <3>1 DEF Stream, Asking, Taking
  <2>17. CASE UNCHANGED vars
    <3>1. UNCHANGED <<server, handle, peer, wire, inbox, pc, call, d, data, resp, got, ret>>
      BY <2>17 DEF vars
    <3> QED
      BY <2>3, <3>1
      DEF Stream, Asking, Taking, OwnRequests, Fresh, InHeader, InBody, Follows, Carries, Due, End
  <2> QED
    BY <1>5, <2>4, <2>5, <2>6, <2>7, <2>8, <2>9, <2>10, <2>11, <2>12, <2>13, <2>14, <2>15,
       <2>16, <2>17 DEF Next
<1> QED
  BY <1>3, <1>4, <1>5

\* What ofc_fetch has handed over is the file from its beginning, of any length and in
\* answers of any length, however the reads of header and body fall on the limits of the
\* buffers, whatever stalls, breaks off and is asked for again; unless the server sent
\* something else than was meant (an error page, or the whole file because the Range was
\* lost), or ignores the Range of a request that was moved to a new connection.
THEOREM FetchedIsPrefixHolds == Spec => []FetchedIsPrefix
<1>1. Init => FetchInv
  <2> SUFFICES ASSUME Init PROVE FetchInv
    OBVIOUS
  <2>1. server \in {"range", "whole"} /\ got = <<>> /\ pc = "idle" /\ call = "none"
    BY HttpAssumption DEF Init
  <2>2. Len(got) = 0
    BY <2>1
  <2> QED
    BY <2>1, <2>2, Sizes DEF FetchInv, GotInv, Carries
<1>2. TypeInv /\ FetchInv => FetchedIsPrefix
  <2> SUFFICES ASSUME TypeInv, FetchInv, ~Excused PROVE got = File(0, Len(got) - 1)
    BY DEF FetchedIsPrefix, Excused
  <2>1. got \in Seq(Unit) /\ Carries(got, 0, Len(got))
    BY DEF TypeInv, TextInv, FetchInv, GotInv
  <2>2. Len(got) \in Nat /\ Len(got) - 1 - 0 + 1 = Len(got)
    BY <2>1
  <2>3. File(0, Len(got) - 1) = [k \in 1 .. Len(got) |-> <<"file", 0 + k - 1>>]
    BY <2>2 DEF File
  <2>4. \A k \in 1 .. Len(got) : got[k] = <<"file", 0 + k - 1>>
    BY <2>1, <2>2 DEF Carries
  <2>5. got = [k \in 1 .. Len(got) |-> got[k]]
    BY <2>1
  <2> QED
    BY <2>3, <2>4, <2>5
<1> QED
  BY <1>1, <1>2, FetchNext, TypeInvariant, PTL DEF Spec

-----------------------------------------------------------------------------
(* The request that arrives *)

\* What _utils_fill_tx_buffer works on: what was sent and what is in the buffer.
Buffers == [out : Seq(Nat), buf : Seq(Nat)]

LEMMA PiecesFacts ==
    ASSUME NEW c \in Call
    PROVE  /\ Pieces[c] \in Seq(Nat) /\ Len(Pieces[c]) \in Nat /\ c \in DOMAIN Pieces
           /\ \A k \in 1 .. Len(Pieces[c]) : Pieces[c][k] \in Nat
<1>1. c \in DOMAIN Pieces /\ Pieces[c] \in Seq(Nat)
  BY HttpAssumption DEF Call
<1> QED
  BY <1>1

\* Where the texts of a header end.
LEMMA EndsFacts ==
    ASSUME NEW c \in Call
    PROVE  /\ Ends(c) \in [0 .. Len(Pieces[c]) -> Nat] /\ Ends(c)[0] = 0
           /\ \A k \in 1 .. Len(Pieces[c]) : Ends(c)[k] = Ends(c)[k - 1] + Pieces[c][k]
<1> DEFINE P == Pieces[c]
           N == Len(P)
           G == [k \in 1 .. N |-> [x \in Nat |-> x + P[k]]]
           Is(at) == at = [k \in 0 .. N |-> IF k = 0 THEN 0 ELSE at[k - 1] + P[k]]
<1>1. N \in Nat /\ \A k \in 1 .. N : P[k] \in Nat
  BY PiecesFacts
<1> HIDE DEF P, N
<1>2. G \in [1 .. N -> [Nat -> Nat]]
  BY <1>1
<1>3. \A k \in 1 .. N, x \in Nat : G[k][x] = x + P[k]
  OBVIOUS
<1> HIDE DEF G
<1>4. PICK f \in [0 .. N -> Nat] : f[0] = 0 /\ \A k \in 1 .. N : f[k] = G[k][f[k - 1]]
  <2> DEFINE S == Nat
  <2>1. 0 \in S /\ G \in [1 .. N -> [S -> S]]
    BY <1>2
  <2> HIDE DEF S
  <2>2. \E f \in [0 .. N -> S] : f[0] = 0 /\ \A k \in 1 .. N : f[k] = G[k][f[k - 1]]
    BY <1>1, <2>1, RecursionExists
  <2> QED
    BY <2>2 DEF S
<1>5. ASSUME NEW k \in 0 .. N
      PROVE  f[k] = IF k = 0 THEN 0 ELSE f[k - 1] + P[k]
  <2>1. CASE k = 0
    BY <1>4, <2>1
  <2>2. CASE k # 0
    <3>1. k \in 1 .. N /\ k - 1 \in 0 .. N
      BY <1>1, <2>2
    <3> QED
      BY <1>3, <1>4, <2>2, <3>1
  <2> QED
    BY <2>1, <2>2
<1>6. Is(f)
  <2>1. f = [k \in 0 .. N |-> f[k]]
    OBVIOUS
  <2> QED
    BY <1>5, <2>1
<1>7. Ends(c) = CHOOSE at : Is(at)
  BY DEF Ends, P, N
<1>8. Is(Ends(c))
  BY <1>6, <1>7, Zenon
<1> DEFINE e == Ends(c)
<1>9. e = [k \in 0 .. N |-> IF k = 0 THEN 0 ELSE e[k - 1] + P[k]]
  BY <1>8
<1> HIDE DEF e
<1>10. e[0] = 0 /\ \A k \in 1 .. N : e[k] = e[k - 1] + P[k]
  <2>1. 0 \in 0 .. N /\ \A k \in 1 .. N : k \in 0 .. N /\ k # 0
    BY <1>1
  <2>2. \A k \in 0 .. N : e[k] = IF k = 0 THEN 0 ELSE e[k - 1] + P[k]
    BY <1>9
  <2> QED
    BY <2>1, <2>2
<1> DEFINE T == {n \in Nat : n <= N => e[n] \in Nat}
<1>11. 0 \in T
  BY <1>10
<1>12. ASSUME NEW n \in Nat, n \in T
       PROVE  n + 1 \in T
  <2> SUFFICES ASSUME n + 1 <= N PROVE e[n + 1] \in Nat
    OBVIOUS
  <2>1. n + 1 \in 1 .. N /\ n + 1 - 1 = n /\ e[n] \in Nat
    BY <1>1, <1>12
  <2>2. e[n + 1] = e[n + 1 - 1] + P[n + 1]
    BY <1>10, <2>1
  <2> QED
    BY <1>1, <2>1, <2>2
<1> HIDE DEF T
<1>13. \A n \in Nat : n \in T
  BY <1>11, <1>12, SetInduction
<1>14. \A n \in 0 .. N : e[n] \in Nat
  BY <1>1, <1>13 DEF T
<1>15. e \in [0 .. N -> Nat]
  BY <1>9, <1>14
<1> QED
  BY <1>10, <1>15 DEF e, P, N

LEMMA Regrouped ==
    ASSUME NEW x \in Seq(Nat), NEW y \in Seq(Nat), NEW z \in Seq(Nat)
    PROVE  (x \o y) \o z = x \o (y \o z)
OBVIOUS

\* Nothing is lost between the send buffer and the wire.
LEMMA FillKeeps ==
    ASSUME NEW s \in Buffers, NEW piece \in Seq(Nat)
    PROVE  LET t == _utils_fill_tx_buffer(s, piece) IN
           t \in Buffers /\ t.out \o t.buf = (s.out \o s.buf) \o piece
<1> DEFINE all == s.buf \o piece
           full == (Len(all) \div SendBufSize) * SendBufSize
           t == _utils_fill_tx_buffer(s, piece)
<1>1. s.out \in Seq(Nat) /\ s.buf \in Seq(Nat)
  BY DEF Buffers
<1>2. all \in Seq(Nat)
  BY <1>1, ConcatProperties
<1>3. t = [out |-> s.out \o SubSeq(all, 1, full), buf |-> SubSeq(all, full + 1, Len(all))]
  BY DEF _utils_fill_tx_buffer, From
<1> HIDE DEF all
<1>4. full \in 0 .. Len(all)
  <2>1. SendBufSize \in Nat \ {0} /\ Len(all) \in Nat
    BY <1>2, HttpAssumption
  <2> QED
    BY <2>1
<1> HIDE DEF full
<1> DEFINE a == SubSeq(all, 1, full)
           b == SubSeq(all, full + 1, Len(all))
<1>5. a \in Seq(Nat) /\ b \in Seq(Nat)
  <2>1. Len(all) \in Nat /\ full \in Int /\ \A i \in 1 .. Len(all) : all[i] \in Nat
    BY <1>2, <1>4
  <2>2. \A i \in 1 .. full : all[i] \in Nat
    BY <1>4, <2>1
  <2>3. \A i \in full + 1 .. Len(all) : all[i] \in Nat
    BY <1>4, <2>1
  <2> QED
    BY <2>1, <2>2, <2>3, SubSeqProperties
<1>6. a \o b = all
  <2>1. 1 \in 1 .. Len(all) + 1 /\ full \in 1 - 1 .. Len(all) /\ Len(all) \in full .. Len(all)
    BY <1>2, <1>4
  <2>2. a \o b = SubSeq(all, 1, Len(all))
    BY <1>2, <2>1, ConcatAdjacentSubSeq
  <2> QED
    BY <1>2, <2>2, SubSeqFull
<1> HIDE DEF a, b
<1>7. t = [out |-> s.out \o a, buf |-> b]
  BY <1>3 DEF a, b
<1> HIDE DEF t
<1>8. s.out \o a \in Seq(Nat)
  BY <1>1, <1>5, ConcatProperties
<1>9. t \in Buffers /\ t.out = s.out \o a /\ t.buf = b
  BY <1>5, <1>7, <1>8 DEF Buffers
<1>10. (s.out \o a) \o b = s.out \o all
  <2>1. (s.out \o a) \o b = s.out \o (a \o b)
    BY <1>1, <1>5, Regrouped
  <2> QED
    BY <1>6, <2>1
<1>11. s.out \o all = (s.out \o s.buf) \o piece
  BY <1>1, Regrouped DEF all
<1> QED
  BY <1>9, <1>10, <1>11 DEF t

\* The stretches of a text are numbered one after the other.
LEMMA Numbered ==
    ASSUME NEW m \in Nat, NEW n \in Nat
    PROVE  /\ [i \in 1 .. m |-> i] \in Seq(Nat)
           /\ [i \in 1 .. n |-> m + i] \in Seq(Nat)
           /\ [i \in 1 .. m |-> i] \o [i \in 1 .. n |-> m + i] = [i \in 1 .. m + n |-> i]
<1> DEFINE x == [i \in 1 .. m |-> i]
           y == [i \in 1 .. n |-> m + i]
           z == [i \in 1 .. m + n |-> i]
<1>1. x \in Seq(Nat) /\ y \in Seq(Nat) /\ z \in Seq(Nat)
  OBVIOUS
<1>2. Len(x) = m /\ Len(y) = n /\ Len(z) = m + n
  OBVIOUS
<1>3. /\ \A i \in 1 .. m : x[i] = i
      /\ \A i \in 1 .. n : y[i] = m + i
      /\ \A i \in 1 .. m + n : z[i] = i
  OBVIOUS
<1> HIDE DEF x, y, z
<1>4. /\ x \o y \in Seq(Nat) /\ Len(x \o y) = m + n
      /\ \A i \in 1 .. m + n : (x \o y)[i] = IF i <= m THEN x[i] ELSE y[i - m]
  <2>1. /\ x \o y \in Seq(Nat) /\ Len(x \o y) = Len(x) + Len(y)
        /\ \A i \in 1 .. Len(x) + Len(y) :
             (x \o y)[i] = IF i <= Len(x) THEN x[i] ELSE y[i - Len(x)]
    BY <1>1, ConcatProperties, Zenon
  <2> QED
    BY <1>2, <2>1
<1>5. ASSUME NEW i \in 1 .. m + n
      PROVE  (x \o y)[i] = z[i]
  <2>1. CASE i <= m
    BY <1>3, <1>4, <2>1
  <2>2. CASE ~(i <= m)
    <3>1. i - m \in 1 .. n /\ m + (i - m) = i
      BY <2>2
    <3> QED
      BY <1>3, <1>4, <2>2, <3>1
  <2> QED
    BY <2>1, <2>2
<1>6. x \o y = z
  <2>1. Len(x \o y) = Len(z) /\ \A i \in 1 .. Len(x \o y) : (x \o y)[i] = z[i]
    BY <1>2, <1>4, <1>5
  <2> QED
    BY <1>1, <1>4, <2>1, SeqEqual
<1> QED
  BY <1>1, <1>6 DEF x, y, z

\* The texts that make up a header, sent and still in the buffer.
LEMMA FilledFacts ==
    ASSUME NEW c \in Call
    PROVE  /\ Filled(c)[0] = [out |-> <<>>, buf |-> <<>>]
           /\ \A k \in 1 .. Len(Pieces[c]) :
                Filled(c)[k] = _utils_fill_tx_buffer(Filled(c)[k - 1], Stretch(c, k))
<1> DEFINE N == Len(Pieces[c])
           b == [out |-> <<>>, buf |-> <<>>]
           G == [k \in 1 .. N |-> [s \in Buffers |-> _utils_fill_tx_buffer(s, Stretch(c, k))]]
           Is(sent) == sent = [k \in 0 .. N |-> IF k = 0 THEN b
                                 ELSE _utils_fill_tx_buffer(sent[k - 1], Stretch(c, k))]
<1>1. N \in Nat /\ \A k \in 1 .. N : Stretch(c, k) \in Seq(Nat)
  <2>1. N \in Nat /\ \A k \in 1 .. N : Pieces[c][k] \in Nat
    BY PiecesFacts
  <2>2. ASSUME NEW k \in 1 .. N
        PROVE  Stretch(c, k) \in Seq(Nat)
    <3>1. k - 1 \in 0 .. N
      BY <2>1
    <3>2. Ends(c)[k - 1] \in Nat
      BY <3>1, EndsFacts
    <3> QED
      BY <2>1, <3>2, Numbered DEF Stretch
  <2> QED
    BY <2>1, <2>2
<1> HIDE DEF N
<1>2. b \in Buffers
  BY DEF Buffers
<1> HIDE DEF b
<1>3. G \in [1 .. N -> [Buffers -> Buffers]]
  BY <1>1, FillKeeps
<1>4. \A k \in 1 .. N, s \in Buffers : G[k][s] = _utils_fill_tx_buffer(s, Stretch(c, k))
  OBVIOUS
<1> HIDE DEF G
<1>5. PICK f \in [0 .. N -> Buffers] : f[0] = b /\ \A k \in 1 .. N : f[k] = G[k][f[k - 1]]
  <2> DEFINE S == Buffers
  <2>1. N \in Nat /\ b \in S /\ G \in [1 .. N -> [S -> S]]
    BY <1>1, <1>2, <1>3
  <2> HIDE DEF S
  <2>2. \E f \in [0 .. N -> S] : f[0] = b /\ \A k \in 1 .. N : f[k] = G[k][f[k - 1]]
    BY <2>1, RecursionExists
  <2> QED
    BY <2>2 DEF S
<1>6. ASSUME NEW k \in 0 .. N
      PROVE  f[k] = IF k = 0 THEN b ELSE _utils_fill_tx_buffer(f[k - 1], Stretch(c, k))
  <2>1. CASE k = 0
    BY <1>5, <2>1
  <2>2. CASE k # 0
    <3>1. k \in 1 .. N /\ k - 1 \in 0 .. N
      BY <1>1, <2>2
    <3> QED
      BY <1>4, <1>5, <2>2, <3>1
  <2> QED
    BY <2>1, <2>2
<1>7. Is(f)
  <2>1. f = [k \in 0 .. N |-> f[k]]
    OBVIOUS
  <2> QED
    BY <1>6, <2>1
<1>8. Filled(c) = CHOOSE sent : Is(sent)
  BY DEF Filled, b, N
<1>9. Is(Filled(c))
  BY <1>7, <1>8, Zenon
<1> DEFINE e == Filled(c)
<1>10. e = [k \in 0 .. N |-> IF k = 0 THEN b ELSE _utils_fill_tx_buffer(e[k - 1], Stretch(c, k))]
  BY <1>9
<1> HIDE DEF e
<1>11. e[0] = b /\ \A k \in 1 .. N : e[k] = _utils_fill_tx_buffer(e[k - 1], Stretch(c, k))
  <2>1. 0 \in 0 .. N /\ \A k \in 1 .. N : k \in 0 .. N /\ k # 0
    BY <1>1
  <2>2. \A k \in 0 .. N :
          e[k] = IF k = 0 THEN b ELSE _utils_fill_tx_buffer(e[k - 1], Stretch(c, k))
    BY <1>10, Zenon
  <2> QED
    BY <2>1, <2>2
<1> QED
  BY <1>11 DEF e, b, N

\* What is written to the connection is the text of the header, wherever its pieces
\* fall on the limits of the send buffer.
LEMMA HeaderIntact ==
    ASSUME NEW c \in Call
    PROVE  _http_send_header[c].out \o _http_send_header[c].buf = Text[c]
<1> DEFINE N == Len(Pieces[c])
           F == Filled(c)
           E == Ends(c)
           Intact(k) == F[k] \in Buffers /\ F[k].out \o F[k].buf = [i \in 1 .. E[k] |-> i]
           T == {k \in Nat : k <= N => Intact(k)}
<1>1. N \in Nat /\ c \in DOMAIN Pieces /\ (\A k \in 1 .. N : Pieces[c][k] \in Nat)
  BY PiecesFacts
<1>2. /\ F[0] = [out |-> <<>>, buf |-> <<>>]
      /\ \A k \in 1 .. N : F[k] = _utils_fill_tx_buffer(F[k - 1], Stretch(c, k))
  BY FilledFacts
<1>3. /\ E \in [0 .. N -> Nat] /\ E[0] = 0
      /\ \A k \in 1 .. N : E[k] = E[k - 1] + Pieces[c][k]
  BY EndsFacts
<1>4. \A k \in 1 .. N : Stretch(c, k) = [i \in 1 .. Pieces[c][k] |-> E[k - 1] + i]
  BY DEF Stretch
<1>5. _http_send_header[c] = F[N] /\ Text[c] = [i \in 1 .. E[N] |-> i]
  BY <1>1 DEF _http_send_header, Text
<1> HIDE DEF N, F, E
<1>6. 0 \in T
  <2>1. F[0] \in Buffers /\ F[0].out = <<>> /\ F[0].buf = <<>>
    BY <1>2 DEF Buffers
  <2>2. <<>> \o <<>> = [i \in 1 .. E[0] |-> i]
    BY <1>3
  <2> QED
    BY <2>1, <2>2
<1>7. ASSUME NEW k \in Nat, k \in T
      PROVE  k + 1 \in T
  <2> HIDE DEF Intact
  <2> SUFFICES ASSUME k + 1 <= N PROVE Intact(k + 1)
    OBVIOUS
  <2>1. k + 1 \in 1 .. N /\ k + 1 - 1 = k /\ k \in 0 .. N /\ Intact(k)
    BY <1>1, <1>7
  <2>2. F[k] \in Buffers /\ F[k].out \o F[k].buf = [i \in 1 .. E[k] |-> i]
    BY <2>1 DEF Intact
  <2> DEFINE n == Pieces[c][k + 1]
             y == [i \in 1 .. n |-> E[k] + i]
  <2>3. n \in Nat /\ E[k] \in Nat /\ E[k + 1] = E[k] + n
    BY <1>1, <1>3, <2>1
  <2>4. F[k + 1] = _utils_fill_tx_buffer(F[k], y)
    <3> DEFINE j == k + 1
    <3>1. j \in 1 .. N /\ j - 1 = k
      BY <2>1
    <3> HIDE DEF j
    <3>2. F[j] = _utils_fill_tx_buffer(F[j - 1], Stretch(c, j))
      BY <1>2, <3>1, Zenon
    <3>3. Stretch(c, j) = [i \in 1 .. Pieces[c][j] |-> E[j - 1] + i]
      BY <1>4, <3>1, Zenon
    <3>4. F[j] = _utils_fill_tx_buffer(F[k], [i \in 1 .. Pieces[c][j] |-> E[k] + i])
      BY <3>1, <3>2, <3>3, Zenon
    <3> QED
      BY <3>4 DEF j
  <2>5. y \in Seq(Nat) /\ [i \in 1 .. E[k] |-> i] \o y = [i \in 1 .. E[k + 1] |-> i]
    BY <2>3, Numbered
  <2> HIDE DEF y, n
  <2>6. F[k + 1] \in Buffers /\ F[k + 1].out \o F[k + 1].buf = (F[k].out \o F[k].buf) \o y
    BY <2>2, <2>4, <2>5, FillKeeps
  <2> QED
    BY <2>2, <2>5, <2>6 DEF Intact
<1> HIDE DEF T
<1>8. N \in T
  BY <1>1, <1>6, <1>7, SetInduction
<1> HIDE DEF Intact
<1>9. Intact(N)
  <2>1. N <= N
    BY <1>1
  <2> QED
    BY <1>8, <2>1 DEF T
<1> USE DEF Intact
<1> QED
  BY <1>5, <1>9, Zenon

IntactInv == \A i \in 1 .. Len(inbox) : /\ inbox[i].call \in Call
                                        /\ inbox[i].text \in {Text[inbox[i].call], Spoilt}

LEMMA IntactNext == TypeInv /\ IntactInv /\ [Next]_vars => IntactInv'
<1> SUFFICES ASSUME TypeInv, IntactInv, [Next]_vars PROVE IntactInv'
  OBVIOUS
<1>1. inbox \in Seq(Message) /\ Len(inbox) \in Nat /\ (pc # "idle" => call \in Call)
  BY DEF TypeInv, TextInv, CallInv
<1>2. CASE inbox' = inbox
  BY <1>2 DEF IntactInv
<1>3. CASE Connected
  <2>1. Len(inbox') = 0
    BY <1>3 DEF Connected
  <2> QED
    BY <2>1 DEF IntactInv
<1>4. CASE SendRequest \/ SendSpoilt
  <2>1. pc = "send" /\ \/ inbox' = inbox
                       \/ inbox' = Append(inbox, Request)
                       \/ inbox' = Append(inbox, [Request EXCEPT !.text = Spoilt])
    BY <1>4 DEF SendRequest, SendSpoilt
  <2>2. Request.call = call /\ Request.text = Text[call] /\ call \in Call
    BY <1>1, <2>1, HeaderIntact DEF Request
  <2>a. PICK r \in {Request, [Request EXCEPT !.text = Spoilt]} :
          inbox' = inbox \/ inbox' = Append(inbox, r)
    BY <2>1
  <2>b. r.call = call /\ r.text \in {Text[call], Spoilt}
    BY <2>2, <2>a DEF Request
  <2>3. ASSUME inbox' = Append(inbox, r), NEW i \in 1 .. Len(inbox')
        PROVE  inbox'[i].call \in Call /\ inbox'[i].text \in {Text[inbox'[i].call], Spoilt}
    <3>1. Len(inbox') = Len(inbox) + 1
      BY <1>1, <2>3
    <3>2. CASE i = Len(inbox) + 1
      <4>1. inbox'[i] = r
        BY <1>1, <2>3, <3>2
      <4> QED
        BY <2>2, <2>b, <4>1
    <3>3. CASE i # Len(inbox) + 1
      <4>1. i \in 1 .. Len(inbox)
        BY <1>1, <3>1, <3>3
      <4>2. inbox'[i] = inbox[i]
        BY <1>1, <2>3, <4>1
      <4> QED
        BY <4>1, <4>2 DEF IntactInv
    <3> QED
      BY <3>2, <3>3
  <2> QED
    BY <1>2, <2>a, <2>3 DEF IntactInv
<1>5. CASE ServerAnswers
  <2>1. inbox # <<>> /\ inbox' = Tail(inbox)
    BY <1>5 DEF ServerAnswers
  <2>2. Len(inbox') = Len(inbox) - 1 /\ \A i \in 1 .. Len(inbox) - 1 : inbox'[i] = inbox[i + 1]
    BY <1>1, <2>1
  <2>3. \A i \in 1 .. Len(inbox) - 1 : i + 1 \in 1 .. Len(inbox)
    BY <1>1
  <2> QED
    BY <2>2, <2>3 DEF IntactInv
<1>6. CASE ConnectFailed \/ SendUnconnected \/ PeerCloses \/ RecvResponse
  BY <1>2, <1>6 DEF ConnectFailed, SendUnconnected, PeerCloses, RecvResponse, net
<1>7. CASE FirstRead \/ ReadHeader \/ _http_parse_response_header \/ FillBody \/ ReadBody
  BY <1>2, <1>7 DEF FirstRead, ReadHeader, _http_parse_response_header, FillBody, ReadBody
<1>8. CASE BeginFetch \/ FetchReturns \/ FetchReconnects \/ FetchFails
  BY <1>2, <1>8 DEF BeginFetch, FetchReturns, FetchReconnects, FetchFails
<1>9. CASE BeginCall \/ AllocFails \/ CallReturns \/ UNCHANGED vars
  BY <1>2, <1>9 DEF BeginCall, AllocFails, CallReturns, vars, net
<1> QED
  BY <1>3, <1>4, <1>5, <1>6, <1>7, <1>8, <1>9 DEF Next

\* A request whose writes all went through arrives as the text that was meant, for
\* headers of any number of pieces of any length and a send buffer of any size.
THEOREM RequestIntactHolds == Spec => []RequestIntact
<1>1. Init => IntactInv
  BY DEF Init, IntactInv
<1>2. TypeInv /\ IntactInv => RequestIntact
  <2>1. TypeInv => DOMAIN inbox = 1 .. Len(inbox)
    BY DEF TypeInv, TextInv
  <2> QED
    BY <2>1 DEF IntactInv, RequestIntact
<1> QED
  BY <1>1, <1>2, IntactNext, TypeInvariant, PTL DEF Spec

\* Only a failed or short write, or a line too long, spoils a request, and a success
\* that a one-shot call returns is an answer to the request it made.
THEOREM ExchangeSoundHolds == Spec => []ExchangeSound
BY RequestIntactHolds, SuccessWasAnsweredHolds, PTL DEF ExchangeSound
=============================================================================
