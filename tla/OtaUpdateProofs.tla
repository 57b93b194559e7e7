-------------------------- MODULE OtaUpdateProofs --------------------------
(***************************************************************************)
(* Proofs about OtaUpdate, for any firmwares, sizes and partition, and for *)
(* any number of messages, malformed, nested and queued ones included.     *)
(***************************************************************************)
EXTENDS OtaUpdate, SequenceTheorems, TLAPS

-----------------------------------------------------------------------------
(* The inductive invariant *)

\* Callbacks nest in the yield of a download only, a try is never left half
\* way, and a callback starts clean; nothing runs on a handle that is not up.
StackInv ==
    /\ \A i \in 1..Len(stack) : stack[i].pc = "callback" =>
         stack[i].total = 0 /\ stack[i].tries = 0 /\ ~stack[i].cancelled
    /\ \A i \in 1..Len(stack) : stack[i].pc = "yield" => stack[i].tries = 0
    /\ \A i \in 1..(Len(stack) - 1) : stack[i].pc = "yield"
    /\ life # "up" => stack = <<>>

\* The strings and the size of the handle are those of the update of d.
Named(d) == \A x \in DOMAIN Field : par[x] = d.msg.fw

\* Another download has ended since, or a cancellation came: d will be refused.
Over(d) == d.tries = 0 /\ state \in {"INITED", "DISCONNECTED"}

\* The partition holds the last blocks fed to the digest, those d fetched, and
\* is erased behind them.
Written(d) ==
    /\ d.total <= fetched
    /\ \A i \in 0..(PartSize - 1) :
         IF i < d.total
           THEN flash[i] = md5[fetched - d.total + i + 1] /\ flash[i][1] \in {Blank, d.msg.fw}
           ELSE flash[i] = Erased

\* What was reported is at most what was fetched.
Reported(d) == progress * Size[d.msg.fw] <= fetched * 100

\* d has the handle to itself and was not cancelled.
Alive(d) == ~d.cancelled /\ Written(d)

\* What holds of the innermost download d.
Sound(d) ==
    /\ d.pc = "init" => d.total = 0 /\ d.tries = 0 /\ ~d.cancelled
                        /\ state = "FETCHING" /\ Named(d) /\ progress = -1
    /\ d.pc = "fetch" => 
         \/ Over(d)
         \/ Alive(d) /\ Named(d) /\ Reported(d) /\ state \in {"FETCHING", "FETCHED"}
    /\ d.pc = "yield" =>
         \/ Over(d)
         \/ /\ Alive(d)
            /\ state = "FETCHING" => Reported(d)
            /\ state = "FETCHING" \/ "malformed" \notin odd => Named(d)
            /\ state \in {"FETCHING", "FETCHED"}
    /\ d.pc = "check" => Alive(d) /\ state = "FETCHED" /\ ("malformed" \notin odd => Named(d))
    /\ d.pc = "pop" => state \in {"INITED", "DISCONNECTED"}

\* The innermost download is the last callback, or the one the last callback
\* was called from.
Innermost(i) ==
    /\ Downloading(stack[i])
    /\ i = Len(stack) \/ (i = Len(stack) - 1 /\ stack[i + 1].pc = "callback")

DownloadInv == \A i \in 1..Len(stack) : Innermost(i) => Sound(stack[i])

\* boot is written once, by the last step of all.
BootInv == BootsRight /\ (boot # NoBoot => life = "booted")

\* State FETCHING belongs to a download, and queued updates to the one at the
\* bottom of the stack, which starts the next of them when it ends.
QueueInv ==
    /\ \A i \in 1..Len(queue) : queue[i].type = "update"
    /\ life = "none" => queue = <<>>
    /\ state = "FETCHING" => stack # <<>> /\ Downloading(stack[1])
    /\ queue # <<>> /\ life = "up" /\ "malformed" \notin odd =>
         /\ stack # <<>>
         /\ \/ Downloading(stack[1])
            \/ stack[1].msg.type = "update" /\ state # "FETCHING"

\* Without anything the code does not provide for: one download at a time,
\* ch_fetch is there until IOT_OTA_Clear frees it, and no message names the
\* handle once it is dangling.
FetchInv ==
    /\ life = "destroyed" => odd # {}
    /\ odd = {} =>
         /\ ~uaf
         /\ \A i \in 1..Len(stack) : i > 1 => ~Downloading(stack[i])
         /\ \A i \in 1..Len(stack) : Downloading(stack[i]) /\ stack[i].pc # "pop" => ch = "live"
         /\ ch = "freed" => \A x \in DOMAIN Field : par[x] \notin Firmware

IInv == TypeOK /\ StackInv /\ DownloadInv /\ BootInv /\ QueueInv /\ FetchInv

-----------------------------------------------------------------------------
(* The stack *)

\* The frame below the last one is reached by dropping it.
LEMMA BelowFacts ==
    ASSUME TypeOK, stack # <<>>
    PROVE  /\ Len(stack) \in Nat \ {0} /\ Top \in Frame
           /\ \A i \in 1..Len(stack) : stack[i] \in Frame
           /\ Below \in Seq(Frame) /\ Len(Below) = Len(stack) - 1
           /\ Below = <<>> <=> Len(stack) = 1
           /\ \A i \in 1..(Len(stack) - 1) : Below[i] = stack[i]
<1>1. Len(stack) \in Nat \ {0} /\ \A i \in 1..Len(stack) : stack[i] \in Frame
  BY DEF TypeOK
<1>2. Top \in Frame
  BY <1>1 DEF Top
<1>3. Below \in Seq(Frame) /\ Len(Below) = Len(stack) - 1
  <2>1. stack \in Seq(Frame) /\ 1 \in Int /\ Len(stack) - 1 \in Int
        /\ \A i \in 1..(Len(stack) - 1) : stack[i] \in Frame
    BY <1>1 DEF TypeOK
  <2>2. /\ Below \in Seq(Frame)
        /\ Len(Below) = IF 1 <= Len(stack) - 1 THEN (Len(stack) - 1) - 1 + 1 ELSE 0
    BY <2>1, SubSeqProperties DEF Below
  <2>3. Len(stack) \in Int /\ 1 <= Len(stack)
    BY <1>1
  <2> DEFINE n == Len(stack)
             m == Len(Below)
  <2>4. n \in Int /\ 1 <= n /\ m = IF 1 <= n - 1 THEN (n - 1) - 1 + 1 ELSE 0
    BY <2>2, <2>3
  <2> HIDE DEF n, m
  <2>5. m = n - 1
    BY <2>4
  <2> QED
    BY <2>2, <2>5 DEF n, m
<1>4. \A i \in 1..(Len(stack) - 1) : Below[i] = stack[i]
  BY <1>1, SubSeqProperties DEF Below
<1>5. Below = <<>> <=> Len(stack) = 1
  BY <1>1, <1>3
<1> QED
  BY <1>1, <1>2, <1>3, <1>4, <1>5

\* A step that leaves the stack alone puts its last frame back.
LEMMA StayFacts ==
    ASSUME TypeOK, stack # <<>>, stack' = stack
    PROVE  Goto(Top)
<1>1. /\ Len(stack) \in Nat \ {0} /\ Below \in Seq(Frame) /\ Len(Below) = Len(stack) - 1
      /\ \A i \in 1..(Len(stack) - 1) : Below[i] = stack[i]
      /\ Top \in Frame /\ Top = stack[Len(stack)] /\ stack \in Seq(Frame)
  BY BelowFacts DEF Top, TypeOK
<1> HIDE DEF Below, Top
<1>2. /\ Append(Below, Top) \in Seq(Frame) /\ Len(Append(Below, Top)) = Len(stack)
      /\ \A i \in 1..Len(stack) : Append(Below, Top)[i] = stack[i]
  BY <1>1
<1>3. Append(Below, Top) = stack
  BY <1>1, <1>2, SeqEqual
<1> QED
  BY <1>3 DEF Goto

\* The last callback goes on.
LEMMA GotoFacts ==
    ASSUME TypeOK, stack # <<>>, NEW frame \in Frame, Goto(frame)
    PROVE  /\ stack' \in Seq(Frame) /\ Len(stack') = Len(stack)
           /\ stack'[Len(stack)] = frame
           /\ \A i \in 1..(Len(stack) - 1) : stack'[i] = stack[i]
<1>1. /\ Len(stack) \in Nat \ {0} /\ Below \in Seq(Frame) /\ Len(Below) = Len(stack) - 1
      /\ \A i \in 1..(Len(stack) - 1) : Below[i] = stack[i]
  BY BelowFacts
<1> HIDE DEF Below
<1>2. stack' = Append(Below, frame)
  BY DEF Goto
<1>3. /\ stack' \in Seq(Frame) /\ Len(stack') = Len(Below) + 1
      /\ stack'[Len(Below) + 1] = frame
      /\ \A i \in 1..Len(Below) : stack'[i] = Below[i]
  BY <1>1, <1>2
<1> QED
  BY <1>1, <1>3

\* A cancellation marks the download that received it.
LEMMA CancelledFacts ==
    ASSUME TypeOK, stack # <<>>
    PROVE  LET c == Cancelled(Below) IN
           /\ c \in Seq(Frame) /\ Len(c) = Len(stack) - 1
           /\ \A i \in 1..(Len(stack) - 1) :
                \E b \in BOOLEAN : c[i] = [stack[i] EXCEPT !.cancelled = b]
<1> DEFINE c == Cancelled(Below)
<1>1. /\ Len(stack) \in Nat \ {0} /\ Below \in Seq(Frame) /\ Len(Below) = Len(stack) - 1
      /\ \A i \in 1..(Len(stack) - 1) : Below[i] = stack[i]
      /\ \A i \in 1..Len(stack) : stack[i] \in Frame
  BY BelowFacts
<1> HIDE DEF Below
<1>2. DOMAIN Below = 1..(Len(stack) - 1)
  BY <1>1
<1>3. c = [i \in 1..(Len(stack) - 1) |->
              [Below[i] EXCEPT !.cancelled = @ \/ (i = Len(Below) /\ Downloading(Below[i]))]]
  BY <1>2, Zenon DEF Cancelled
<1> HIDE DEF c
<1>4. ASSUME NEW i \in 1..(Len(stack) - 1)
      PROVE  /\ c[i] \in Frame
             /\ \E b \in BOOLEAN : c[i] = [stack[i] EXCEPT !.cancelled = b]
  <2> DEFINE b == stack[i].cancelled \/ (i = Len(Below) /\ Downloading(stack[i]))
  <2>1. c[i] = [stack[i] EXCEPT !.cancelled = b]
    BY <1>1, <1>3
  <2>2. b \in BOOLEAN /\ stack[i] \in Frame
    BY <1>1
  <2> HIDE DEF b
  <2>3. [stack[i] EXCEPT !.cancelled = b] \in Frame
    BY <2>2 DEF Frame
  <2> QED
    BY <2>1, <2>2, <2>3
<1>5. c \in Seq(Frame) /\ Len(c) = Len(stack) - 1
  <2>1. c \in [1..(Len(stack) - 1) -> Frame] /\ Len(stack) - 1 \in Nat
    BY <1>1, <1>3, <1>4
  <2> QED
    BY <2>1, LenProperties, IsASeq
<1> QED
  BY <1>4, <1>5 DEF c

-----------------------------------------------------------------------------
(* Types *)

\* The frames a step puts on the stack.
LEMMA FrameFacts ==
    ASSUME NEW f \in Frame
    PROVE  /\ f.msg \in Message /\ f.total \in 0..PartSize /\ f.tries \in 0..(MaxTries - 1)
           /\ f.ok \in BOOLEAN /\ f.cancelled \in BOOLEAN
           /\ \A p \in {"callback", "init", "fetch", "yield", "check", "exit", "pop", "mute"} :
                [f EXCEPT !.pc = p] \in Frame
           /\ \A b \in BOOLEAN : [f EXCEPT !.pc = "exit", !.ok = b] \in Frame
           /\ f.tries + 1 # MaxTries => [f EXCEPT !.tries = @ + 1] \in Frame
           /\ \A n \in 0..PartSize : [f EXCEPT !.pc = "yield", !.tries = 0, !.total = n] \in Frame
<1>1. /\ f.msg \in Message /\ f.total \in 0..PartSize /\ f.tries \in 0..(MaxTries - 1)
      /\ f.ok \in BOOLEAN /\ f.cancelled \in BOOLEAN
  BY DEF Frame
<1>2. ASSUME NEW p \in {"callback", "init", "fetch", "yield", "check", "exit", "pop", "mute"}
      PROVE  [f EXCEPT !.pc = p] \in Frame
  BY DEF Frame
<1>3. ASSUME NEW b \in BOOLEAN
      PROVE  [f EXCEPT !.pc = "exit", !.ok = b] \in Frame
  BY DEF Frame
<1>4. ASSUME f.tries + 1 # MaxTries
      PROVE  [f EXCEPT !.tries = @ + 1] \in Frame
  <2>1. f.tries + 1 \in 0..(MaxTries - 1)
    BY <1>1, <1>4, SizeAssumption
  <2> DEFINE n == f.tries + 1
  <2> HIDE DEF n
  <2>2. [f EXCEPT !.tries = n] \in Frame
    BY <2>1 DEF Frame, n
  <2> QED
    BY <2>2 DEF n
<1>5. ASSUME NEW n \in 0..PartSize
      PROVE  [f EXCEPT !.pc = "yield", !.tries = 0, !.total = n] \in Frame
  <2>1. 0 \in 0..(MaxTries - 1)
    BY SizeAssumption
  <2> QED
    BY <2>1 DEF Frame
<1> QED
  BY <1>1, <1>2, <1>3, <1>4, <1>5

\* The frame of a callback that begins.
LEMMA NewFrameFacts ==
    ASSUME NEW m \in Message
    PROVE  NewFrame(m) \in Frame
BY SizeAssumption DEF NewFrame, Frame

\* What a message carries.
LEMMA MessageFacts ==
    ASSUME NEW m \in Message
    PROVE  m.fw \in Firmware /\ m.lacks \in 1..6 /\ m.type \in {"update", "cancel", "other"}
<1>1. CASE m \in [type : {"update"}, fw : Firmware, lacks : Missing]
  BY <1>1, SizeAssumption
<1>2. CASE m \in [type : {"cancel"}, fw : Firmware, lacks : {2, 6}]
  BY <1>2
<1>3. CASE m \in [type : {"other"}, fw : Firmware, lacks : {6}]
  BY <1>3
<1> QED
  BY <1>1, <1>2, <1>3 DEF Message

\* What a server may answer with, while the handle names a firmware.
LEMMA BodyFacts ==
    ASSUME TypeOK, NEW data \in Bodies
    PROVE  /\ data \in Seq(Block) /\ Len(data) \in {1, 2}
           /\ \A i \in 1..Len(data) : data[i][1] \in {Blank, par.url}
<1>1. Junk \in Block /\ Junk[1] = Blank
  BY DEF Block, Junk
<1> HIDE DEF Junk
<1>2. CASE data = <<Junk>>
  BY <1>1, <1>2
<1>4. CASE data = <<Junk, Junk>>
  <2>1. data \in Seq(Block) /\ Len(data) = 2
    BY <1>1, <1>4
  <2>2. data[1] = Junk /\ data[2] = Junk
    BY <1>4
  <2>3. ASSUME NEW i \in 1..Len(data) PROVE data[i] = Junk
    <3>1. i = 1 \/ i = 2
      BY <2>1
    <3> QED
      BY <3>1, <2>2
  <2> QED
    BY <1>1, <2>1, <2>3
<1>3. CASE data \in {<<<<f, fetched>>>> : f \in {g \in Firmware : g = par.url /\ fetched < Size[g]}}
  <2>1. PICK f \in Firmware : f = par.url /\ fetched < Size[f] /\ data = <<<<f, fetched>>>>
    BY <1>3
  <2>2. <<f, fetched>> \in Block
    BY <2>1, SizeAssumption DEF Block, TypeOK
  <2> DEFINE b == <<f, fetched>>
  <2>3. b \in Block /\ b[1] = par.url /\ data = <<b>>
    BY <2>1, <2>2
  <2> HIDE DEF b
  <2> QED
    BY <2>3
<1> QED
  BY <1>2, <1>3, <1>4 DEF Bodies

\* The types hold at first, ...
LEMMA TypeInit == Init => TypeOK
<1> SUFFICES ASSUME Init PROVE TypeOK
  OBVIOUS
<1>1. par \in [DOMAIN Field -> Firmware \cup {None, Blank}]
  BY DEF Init
<1>2. flash \in [0..(PartSize - 1) -> Block \cup {Erased}]
  BY DEF Init
<1>3. md5 \in Seq(Block) /\ Len(md5) = fetched /\ fetched \in Nat
  BY DEF Init
<1>4. queue \in Seq(Message) /\ stack \in Seq(Frame)
  BY DEF Init
<1>5. progress \in -1..100
  BY DEF Init
<1>7. uaf \in BOOLEAN /\ odd \subseteq {"destroyed", "malformed", "nested"}
  BY DEF Init
<1>6. /\ life \in {"none", "up", "destroyed", "booted"}
      /\ state \in {"INITED", "FETCHING", "FETCHED", "DISCONNECTED"}
      /\ ch \in {"null", "live", "freed"} /\ link \in {"shut", "dead", "up"}
  BY DEF Init
<1> QED
  BY <1>1, <1>2, <1>3, <1>4, <1>5, <1>6, <1>7 DEF TypeOK

\* The steps of a callback keep the types.
LEMMA TypeClient ==
    ASSUME TypeOK, Client
    PROVE  TypeOK'
<1>1. ~uaf /\ stack # <<>>
  BY DEF Client, IgnoreMessage, CancelUpdate, _ota_push_upload_msg, RejectUpdate, BeginDownload,
         HAL_Download_Init, FetchRefused, Reconnect, FetchFailed,
         FetchMute, FetchOverrun, FetchNothing, FetchData,
         YieldDone, RejectImage, BootImage, IOT_OTA_Clear, _ota_pop_upload_msg, CanTry, At
<1>2. /\ Len(stack) \in Nat \ {0} /\ Top \in Frame /\ Below \in Seq(Frame)
  BY <1>1, BelowFacts
<1>3. \A f \in Frame : Goto(f) => stack' \in Seq(Frame)
  BY <1>1, GotoFacts
<1>4. /\ Top.msg \in Message /\ Top.total \in 0..PartSize
      /\ \A p \in {"callback", "init", "fetch", "yield", "check", "exit", "pop", "mute"} :
           [Top EXCEPT !.pc = p] \in Frame
      /\ \A b \in BOOLEAN : [Top EXCEPT !.pc = "exit", !.ok = b] \in Frame
      /\ Top.tries + 1 # MaxTries => [Top EXCEPT !.tries = @ + 1] \in Frame
      /\ \A n \in 0..PartSize : [Top EXCEPT !.pc = "yield", !.tries = 0, !.total = n] \in Frame
  BY <1>2, FrameFacts
<1>5. Top.msg.fw \in Firmware
  BY <1>4, MessageFacts
<1>6. \A m \in Message : ota_lib_get_params(m) \in [DOMAIN Field -> Firmware \cup {None, Blank}]
  BY MessageFacts DEF ota_lib_get_params, TypeOK
<1>7. \A f : ofc_connect(f) \subseteq {"shut", "dead", "up"}
  BY DEF ofc_connect
<1>8. \A b \in BOOLEAN : Leave(b) => stack' \in Seq(Frame)
  BY <1>3, <1>4 DEF Leave
<1>9. NextTry => stack' \in Seq(Frame)
  BY <1>3, <1>4, <1>8 DEF NextTry
<1> USE DEF handle, device
<1> HIDE DEF Top, Below
<1>10. CASE IgnoreMessage
  BY <1>2, <1>10 DEF IgnoreMessage, TypeOK
<1>11. CASE CancelUpdate
  <2>1. Cancelled(Below) \in Seq(Frame)
    BY <1>1, CancelledFacts
  <2> QED
    BY <1>2, <1>11, <2>1 DEF CancelUpdate, TypeOK
<1>12. CASE _ota_push_upload_msg
  <2>1. queue' \in Seq(Message)
    <3>1. queue \in Seq(Message) /\ Top.msg \in Message /\ queue' = Append(queue, Top.msg)
      BY <1>4, <1>12 DEF _ota_push_upload_msg, TypeOK
    <3> QED
      BY <3>1
  <2> QED
    BY <1>2, <1>12, <2>1 DEF _ota_push_upload_msg, TypeOK
<1>13. CASE RejectUpdate
  BY <1>2, <1>4, <1>6, <1>13 DEF RejectUpdate, TypeOK
<1>14. CASE BeginDownload
  <2>1. stack' \in Seq(Frame)
    BY <1>2, <1>3, <1>4, <1>14 DEF BeginDownload
  <2>2. par' \in [DOMAIN Field -> Firmware \cup {None, Blank}]
    BY <1>4, <1>6, <1>14 DEF BeginDownload
  <2> QED
    <3>1. link' \in {"shut", "dead", "up"} /\ ch' \in {"null", "live", "freed"}
      BY <1>7, <1>14 DEF BeginDownload, TypeOK
    <3> QED
      BY <1>14, <2>1, <2>2, <3>1 DEF BeginDownload, TypeOK
<1>15. CASE HAL_Download_Init
  <2>1. stack' \in Seq(Frame)
    BY <1>3, <1>4, <1>8, <1>15 DEF HAL_Download_Init
  <2>2. flash' \in [0..(PartSize - 1) -> Block \cup {Erased}]
    BY <1>15 DEF HAL_Download_Init, TypeOK
  <2> QED
    BY <1>15, <2>1, <2>2 DEF HAL_Download_Init, TypeOK
<1>16. CASE FetchRefused
  BY <1>8, <1>16 DEF FetchRefused, TypeOK
<1>17. CASE Reconnect
  BY <1>7, <1>9, <1>17 DEF Reconnect, TypeOK
<1>18. CASE FetchFailed
  BY <1>9, <1>18 DEF FetchFailed, TypeOK
<1>19. CASE FetchNothing
  <2>1. progress' = 0 \/ progress' = progress
    BY <1>19 DEF FetchNothing
  <2>2. progress' \in -1..100
    <3>1. progress \in -1..100
      BY DEF TypeOK
    <3> QED
      BY <2>1, <3>1
  <2>3. stack' \in Seq(Frame)
    BY <1>8, <1>19 DEF FetchNothing
  <2> QED
    BY <1>19, <2>2, <2>3 DEF FetchNothing, TypeOK
<1>31. CASE FetchMute
  BY <1>3, <1>4, <1>31 DEF FetchMute, TypeOK
<1>32. CASE FetchOverrun
  BY <1>32 DEF FetchOverrun, TypeOK
<1>20. CASE FetchData
  <2>1. PICK data \in Bodies :
          /\ fetched' = fetched + Len(data) /\ md5' = md5 \o data
          /\ progress' \in {IF fetched = 0 THEN 0 ELSE progress}
                             \cup IOT_OTA_ReportProgress(Percent(fetched + Len(data)))
          /\ state' = IF fetched + Len(data) >= SizeFile THEN "FETCHED" ELSE state
          /\ \/ /\ Top.total + Len(data) <= PartSize
                /\ flash' = HAL_Download_Write(Top.total, data)
                /\ Goto([Top EXCEPT !.pc = "yield", !.tries = 0, !.total = @ + Len(data)])
             \/ UNCHANGED flash /\ Leave(FALSE)
    BY <1>20 DEF FetchData, ota_lib_md5_update
  <2>2. data \in Seq(Block) /\ Len(data) \in {1, 2}
    BY <2>1, BodyFacts
  <2>3. fetched' \in Nat /\ md5' \in Seq(Block) /\ Len(md5') = fetched'
    <3>1. md5 \in Seq(Block) /\ Len(md5) = fetched /\ fetched \in Nat
      BY DEF TypeOK
    <3>2. md5 \o data \in Seq(Block) /\ Len(md5 \o data) = Len(md5) + Len(data)
      BY <2>2, <3>1, ConcatProperties
    <3> QED
      BY <2>1, <2>2, <3>1, <3>2
  <2>4. progress' \in -1..100
    BY <2>1 DEF IOT_OTA_ReportProgress, TypeOK
  <2>5. stack' \in Seq(Frame)
    <3>1. CASE Leave(FALSE)
      BY <1>8, <3>1
    <3>2. CASE /\ Top.total + Len(data) <= PartSize
               /\ Goto([Top EXCEPT !.pc = "yield", !.tries = 0, !.total = @ + Len(data)])
      <4>1. Top.total + Len(data) \in 0..PartSize
        <5>1. Top.total \in 0..PartSize /\ Len(data) \in {1, 2}
              /\ Top.total + Len(data) <= PartSize
          BY <1>4, <2>2, <3>2
        <5> QED
          BY <5>1, SizeAssumption
      <4> QED
        BY <1>3, <1>4, <3>2, <4>1
    <3> QED
      BY <2>1, <3>1, <3>2
  <2>6. flash' \in [0..(PartSize - 1) -> Block \cup {Erased}]
    <3>1. CASE UNCHANGED flash
      BY <3>1 DEF TypeOK
    <3>2. CASE flash' = HAL_Download_Write(Top.total, data)
      <4>1. DOMAIN flash = 0..(PartSize - 1) /\ Junk \in Block
        BY DEF TypeOK, Block
      <4>2. ASSUME NEW i \in DOMAIN flash, i \in Top.total..(Top.total + Len(data) - 1)
            PROVE  data[i - Top.total + 1] \in Block
        <5>1. i - Top.total + 1 \in 1..Len(data)
          <6>1. Top.total \in 0..PartSize /\ Len(data) \in {1, 2} /\ PartSize \in Nat
                /\ i \in Top.total..(Top.total + Len(data) - 1)
            BY <1>4, <2>2, <4>2, SizeAssumption
          <6> QED
            BY <6>1
        <5> QED
          BY <2>2, <5>1
      <4> QED
        BY <3>2, <4>1, <4>2 DEF HAL_Download_Write, TypeOK
    <3> QED
      BY <2>1, <3>1, <3>2
  <2>7. state' \in {"INITED", "FETCHING", "FETCHED", "DISCONNECTED"}
    BY <2>1 DEF TypeOK
  <2>8. UNCHANGED <<life, boot, delivered, crashes, par, ch, link, queue, uaf, odd>>
    BY <1>20 DEF FetchData
  <2> QED
    BY <2>3, <2>4, <2>5, <2>6, <2>7, <2>8 DEF TypeOK
<1>21. CASE YieldDone
  <2>1. stack' \in Seq(Frame)
    BY <1>3, <1>4, <1>21 DEF YieldDone
  <2> QED
    BY <1>21, <2>1 DEF YieldDone, TypeOK
<1>22. CASE RejectImage
  <2>1. stack' \in Seq(Frame)
    BY <1>8, <1>22 DEF RejectImage
  <2> QED
    BY <1>22, <2>1 DEF RejectImage, TypeOK
<1>23. CASE BootImage
  BY <1>23 DEF BootImage, TypeOK
<1>24. CASE IOT_OTA_Clear
  <2>1. stack' \in Seq(Frame)
    BY <1>3, <1>4, <1>24 DEF IOT_OTA_Clear
  <2> QED
    BY <1>24, <2>1 DEF IOT_OTA_Clear, ofc_deinit, TypeOK
<1>25. CASE _ota_pop_upload_msg
  <2>1. CASE queue = <<>>
    BY <1>2, <1>25, <2>1 DEF _ota_pop_upload_msg, TypeOK
  <2>2. CASE queue # <<>>
    <3>1. Head(queue) \in Message /\ Tail(queue) \in Seq(Message)
      BY <2>2 DEF TypeOK
    <3>2. stack' \in Seq(Frame)
      BY <1>3, <1>25, <2>2, <3>1, NewFrameFacts DEF _ota_pop_upload_msg
    <3> QED
      BY <1>25, <2>2, <3>1, <3>2 DEF _ota_pop_upload_msg, TypeOK
  <2> QED
    BY <2>1, <2>2
<1> QED
  BY <1>10, <1>11, <1>12, <1>13, <1>14, <1>15, <1>16, <1>17, <1>18, <1>19, <1>20, <1>21, <1>22, <1>31, <1>32,
     <1>23, <1>24, <1>25 DEF Client

\* ... and all other steps do, too.
LEMMA TypeNext ==
    ASSUME TypeOK, [Next]_vars
    PROVE  TypeOK'
<1>1. CASE IOT_OTA_Init
  BY <1>1 DEF IOT_OTA_Init, osc_init, TypeOK
<1>2. CASE IOT_OTA_Destroy
  BY <1>2 DEF IOT_OTA_Destroy, ofc_deinit, osc_deinit, TypeOK
<1>3. CASE PowerLoss
  BY <1>3 DEF PowerLoss, TypeOK
<1>4. ASSUME NEW m \in Message, _ota_mqtt_upgrade_cb(m)
      PROVE  TypeOK'
  <2>1. NewFrame(m) \in Frame
    BY NewFrameFacts
  <2>2. stack \in Seq(Frame) /\ (stack' = stack \/ stack' = Append(stack, NewFrame(m)))
        /\ (uaf' = TRUE \/ uaf' = uaf)
    BY <1>4 DEF _ota_mqtt_upgrade_cb, TypeOK
  <2>3. stack' \in Seq(Frame)
    BY <2>1, <2>2
  <2>4. uaf' \in BOOLEAN
    BY <2>2 DEF TypeOK
  <2> QED
    BY <1>4, <2>3, <2>4 DEF _ota_mqtt_upgrade_cb, TypeOK
<1>5. CASE UNCHANGED vars
  BY <1>5 DEF vars, TypeOK
<1> QED
  BY <1>1, <1>2, <1>3, <1>4, <1>5, TypeClient DEF Next

-----------------------------------------------------------------------------
(* How a step changes the stack *)

\* The last callback returns to the download it was called from.
Returned ==
    /\ Len(stack') = Len(stack) - 1
    /\ \A i \in 1..(Len(stack) - 1) :
         /\ stack'[i].pc = stack[i].pc /\ stack'[i].msg = stack[i].msg
         /\ stack'[i].total = stack[i].total /\ stack'[i].tries = stack[i].tries

\* It goes on with frame f.
WentOn(f) ==
    /\ Len(stack') = Len(stack) /\ stack'[Len(stack)] = f
    /\ \A i \in 1..(Len(stack) - 1) : stack'[i] = stack[i]

\* Only a cancellation changes a frame on the way out: its mark.
LEMMA ReturnFacts ==
    ASSUME TypeOK, stack # <<>>, stack' \in {Below, Cancelled(Below)}
    PROVE  Returned /\ (stack' = Below => \A i \in 1..(Len(stack) - 1) : stack'[i] = stack[i])
<1>1. /\ Len(Below) = Len(stack) - 1
      /\ \A i \in 1..(Len(stack) - 1) : Below[i] = stack[i]
      /\ \A i \in 1..Len(stack) : stack[i] \in Frame
      /\ Len(stack) \in Nat \ {0}
  BY BelowFacts
<1>2. CASE stack' = Below
  BY <1>1, <1>2 DEF Returned
<1>3. CASE stack' = Cancelled(Below) /\ stack' # Below
  <2> DEFINE c == Cancelled(Below)
  <2>1. /\ Len(c) = Len(stack) - 1
        /\ \A i \in 1..(Len(stack) - 1) :
             \E b \in BOOLEAN : c[i] = [stack[i] EXCEPT !.cancelled = b]
    BY CancelledFacts
  <2> HIDE DEF c
  <2>2. ASSUME NEW i \in 1..(Len(stack) - 1)
        PROVE  /\ c[i].pc = stack[i].pc /\ c[i].msg = stack[i].msg
               /\ c[i].total = stack[i].total /\ c[i].tries = stack[i].tries
    <3>1. PICK b \in BOOLEAN : c[i] = [stack[i] EXCEPT !.cancelled = b]
      BY <2>1
    <3>2. stack[i] \in Frame
      BY <1>1
    <3> QED
      BY <3>1, <3>2 DEF Frame
  <2> QED
    BY <1>3, <2>1, <2>2 DEF Returned, c
<1> QED
  BY <1>2, <1>3

\* The steps of a callback, by what they do to the stack.  The last callback
\* starts a download, goes on with it, takes up a queued message, or ends.
LEMMA ClientShape ==
    ASSUME TypeOK, Client
    PROVE  /\ ~uaf /\ stack # <<>> /\ Len(stack) \in Nat \ {0} /\ Top \in Frame
           /\ Top = stack[Len(stack)]
           /\ \/ Returned /\ Top.pc = "callback"
              \/ Returned /\ Top.pc = "pop" /\ queue = <<>>
              \/ BootImage
              \/ \E f \in Frame :
                   /\ WentOn(f) /\ Goto(f)
                   /\ f.pc = "yield" => f.tries = 0
                   /\ \/ f.pc # "callback"
                      \/ \E m \in Message : f = NewFrame(m) /\ Top.pc = "pop"
           /\ (life' = "booted" /\ stack' = <<>>) \/ life' = life
<1>1. ~uaf /\ stack # <<>>
  BY DEF Client, IgnoreMessage, CancelUpdate, _ota_push_upload_msg, RejectUpdate, BeginDownload,
         HAL_Download_Init, FetchRefused, Reconnect, FetchFailed,
         FetchMute, FetchOverrun, FetchNothing, FetchData,
         YieldDone, RejectImage, BootImage, IOT_OTA_Clear, _ota_pop_upload_msg, CanTry, At
<1>2. Len(stack) \in Nat \ {0} /\ Top \in Frame /\ Top = stack[Len(stack)]
  BY <1>1, BelowFacts DEF Top
<1>3. stack' \in {Below, Cancelled(Below)} => Returned
  BY <1>1, ReturnFacts
<1>4. \A f \in Frame : Goto(f) => WentOn(f)
  BY <1>1, GotoFacts DEF WentOn
<1>5. /\ Top.msg \in Message /\ Top.total \in 0..PartSize
      /\ \A p \in {"callback", "init", "fetch", "yield", "check", "exit", "pop", "mute"} :
           [Top EXCEPT !.pc = p] \in Frame
      /\ \A b \in BOOLEAN : [Top EXCEPT !.pc = "exit", !.ok = b] \in Frame
      /\ Top.tries + 1 # MaxTries => [Top EXCEPT !.tries = @ + 1] \in Frame
      /\ \A n \in 0..PartSize : [Top EXCEPT !.pc = "yield", !.tries = 0, !.total = n] \in Frame
  BY <1>2, FrameFacts
<1>20. (life' = "booted" /\ stack' = <<>>) \/ life' = life
  BY DEF Client, IgnoreMessage, CancelUpdate, _ota_push_upload_msg, RejectUpdate, BeginDownload,
         HAL_Download_Init, FetchRefused, Reconnect, FetchFailed,
         FetchMute, FetchOverrun, FetchNothing, FetchData,
         YieldDone, RejectImage, BootImage, IOT_OTA_Clear, _ota_pop_upload_msg, device
<1> DEFINE Taken == \E f \in Frame : /\ WentOn(f) /\ Goto(f)
                                     /\ \E m \in Message : f = NewFrame(m) /\ Top.pc = "pop"
<1> DEFINE Moves == \E f \in Frame : /\ WentOn(f) /\ Goto(f)
                                     /\ f.pc = "yield" => f.tries = 0
                                     /\ f.pc # "callback"
<1>6. ASSUME NEW p \in {"init", "fetch", "check", "exit", "pop", "mute"}, Goto([Top EXCEPT !.pc = p])
      PROVE  Moves
  <2>1. [Top EXCEPT !.pc = p].pc = p
    BY <1>2 DEF Frame
  <2> QED
    BY <1>4, <1>5, <1>6, <2>1
<1>7. ASSUME NEW b \in BOOLEAN, Leave(b)
      PROVE  Moves
  <2>1. [Top EXCEPT !.pc = "exit", !.ok = b].pc = "exit"
    BY <1>2 DEF Frame
  <2> QED
    BY <1>4, <1>5, <1>7, <2>1 DEF Leave
<1>8. ASSUME NextTry, Top.pc = "fetch"
      PROVE  Moves
  <2>1. CASE Leave(FALSE)
    BY <1>7, <2>1
  <2>2. CASE Top.tries + 1 # MaxTries /\ Goto([Top EXCEPT !.tries = @ + 1])
    <3>1. [Top EXCEPT !.tries = @ + 1].pc = "fetch"
      BY <1>2, <1>8 DEF Frame
    <3> QED
      BY <1>4, <1>5, <2>2, <3>1
  <2> QED
    BY <1>8, <2>1, <2>2 DEF NextTry
<1> HIDE DEF Moves, Taken
<1> DEFINE Shape == \/ Returned /\ Top.pc = "callback"
                    \/ Returned /\ Top.pc = "pop" /\ queue = <<>>
                    \/ BootImage \/ Moves \/ Taken
<1>19. SUFFICES Shape
  <2>1. Taken => \E f \in Frame :
          /\ WentOn(f) /\ Goto(f) /\ (f.pc = "yield" => f.tries = 0)
          /\ \E m \in Message : f = NewFrame(m) /\ Top.pc = "pop"
    BY DEF Taken, NewFrame
  <2> QED
    BY <1>1, <1>2, <1>20, <2>1, Zenon DEF Moves
<1>9. CASE IgnoreMessage \/ CancelUpdate \/ _ota_push_upload_msg \/ RejectUpdate
  BY <1>3, <1>9 DEF IgnoreMessage, CancelUpdate, _ota_push_upload_msg, RejectUpdate, At
<1>10. CASE BeginDownload
  BY <1>3, <1>6, <1>10 DEF BeginDownload, At
<1>11. CASE HAL_Download_Init
  BY <1>6, <1>7, <1>11 DEF HAL_Download_Init
<1>12. CASE FetchRefused \/ FetchNothing \/ RejectImage
  <2>1. \E b \in BOOLEAN : Leave(b)
    BY <1>12, Zenon DEF FetchRefused, FetchNothing, RejectImage
  <2> QED
    BY <1>7, <2>1
<1>13. CASE Reconnect \/ FetchFailed
  BY <1>8, <1>13 DEF Reconnect, FetchFailed, CanTry, At
<1>21. CASE FetchMute
  BY <1>6, <1>21 DEF FetchMute
<1>22. CASE FetchOverrun
  <2>1. Goto(Top) /\ Top.pc = "fetch"
    BY <1>1, <1>22, StayFacts DEF FetchOverrun, CanTry, At
  <2> QED
    BY <1>2, <1>4, <2>1 DEF Moves
<1>14. CASE FetchData
  <2>1. PICK data \in Bodies :
          \/ /\ Top.total + Len(data) <= PartSize
             /\ Goto([Top EXCEPT !.pc = "yield", !.tries = 0, !.total = @ + Len(data)])
          \/ Leave(FALSE)
    BY <1>14 DEF FetchData
  <2>2. Len(data) \in {1, 2}
    BY BodyFacts
  <2>3. CASE Leave(FALSE)
    BY <1>7, <2>3
  <2>4. CASE /\ Top.total + Len(data) <= PartSize
             /\ Goto([Top EXCEPT !.pc = "yield", !.tries = 0, !.total = @ + Len(data)])
    <3>1. Top.total + Len(data) \in 0..PartSize
      <4>1. Top.total \in 0..PartSize /\ Len(data) \in {1, 2} /\ Top.total + Len(data) <= PartSize
        BY <1>5, <2>2, <2>4
      <4> QED
        BY <4>1, SizeAssumption
    <3> DEFINE f == [Top EXCEPT !.pc = "yield", !.tries = 0, !.total = @ + Len(data)]
    <3>2. f.pc = "yield" /\ f.tries = 0
      BY <1>2 DEF Frame
    <3>3. f \in Frame /\ Goto(f)
      BY <1>5, <2>4, <3>1
    <3> HIDE DEF f
    <3> QED
      BY <1>4, <3>2, <3>3 DEF Moves
  <2> QED
    BY <2>1, <2>3, <2>4
<1>15. CASE YieldDone
  BY <1>6, <1>15 DEF YieldDone
<1>16. CASE BootImage
  BY <1>16
<1>17. CASE IOT_OTA_Clear
  BY <1>6, <1>17 DEF IOT_OTA_Clear
<1>18. CASE _ota_pop_upload_msg
  <2>1. CASE queue = <<>>
    BY <1>3, <1>18, <2>1 DEF _ota_pop_upload_msg, At
  <2>2. CASE queue # <<>>
    <3>1. PICK m \in Message : Goto(NewFrame(m)) /\ Top.pc = "pop"
      BY <1>18, <2>2 DEF _ota_pop_upload_msg, At, TypeOK
    <3>2. NewFrame(m) \in Frame /\ NewFrame(m).pc = "callback"
      BY NewFrameFacts DEF NewFrame
    <3> DEFINE f == NewFrame(m)
    <3>3. f \in Frame /\ WentOn(f) /\ Goto(f) /\ f.pc = "callback" /\ f = NewFrame(m)
      BY <1>4, <3>1, <3>2
    <3> HIDE DEF f
    <3> QED
      BY <3>1, <3>3 DEF Taken
  <2> QED
    BY <2>1, <2>2
<1> QED
  BY <1>9, <1>10, <1>11, <1>12, <1>13, <1>14, <1>15, <1>16, <1>17, <1>18, <1>21, <1>22 DEF Client

-----------------------------------------------------------------------------
(* Each part of the invariant is kept *)

\* Frames are pushed on a yield, replaced at the top, and popped.
LEMMA StackNext ==
    ASSUME TypeOK, StackInv, [Next]_vars
    PROVE  StackInv'
<1> DEFINE Clean(d) == d.pc = "callback" => d.total = 0 /\ d.tries = 0 /\ ~d.cancelled
           Tried(d) == d.pc = "yield" => d.tries = 0
<1>1. CASE IOT_OTA_Init \/ IOT_OTA_Destroy \/ PowerLoss
  BY <1>1 DEF IOT_OTA_Init, IOT_OTA_Destroy, PowerLoss, StackInv
<1>2. ASSUME NEW m \in Message, _ota_mqtt_upgrade_cb(m)
      PROVE  StackInv'
  <2>1. CASE stack' = stack
    BY <1>2, <2>1 DEF _ota_mqtt_upgrade_cb, StackInv
  <2>2. CASE stack' # stack
    <3>1. /\ stack \in Seq(Frame) /\ stack' = Append(stack, NewFrame(m)) /\ NewFrame(m) \in Frame
          /\ life = "up" /\ life' = life
          /\ stack = <<>> \/ stack[Len(stack)].pc = "yield"
      BY <1>2, <2>2, NewFrameFacts DEF _ota_mqtt_upgrade_cb, Yielding, At, Top, TypeOK
    <3>2. /\ Len(stack) \in Nat /\ Len(stack') = Len(stack) + 1
          /\ \A i \in 1..Len(stack) : stack'[i] = stack[i]
          /\ stack'[Len(stack) + 1] = NewFrame(m)
      BY <3>1
    <3>3. Clean(NewFrame(m)) /\ Tried(NewFrame(m))
      BY DEF NewFrame
    <3>4. stack # <<>> => Len(stack) > 0
      BY <3>1
    <3>5. \A i \in 1..Len(stack') : Clean(stack'[i]) /\ Tried(stack'[i])
      BY <3>2, <3>3 DEF StackInv
    <3>6. \A i \in 1..(Len(stack') - 1) : stack'[i].pc = "yield"
      BY <3>1, <3>2, <3>4 DEF StackInv
    <3> QED
      BY <3>1, <3>5, <3>6 DEF StackInv
  <2> QED
    BY <2>1, <2>2
<1>3. CASE Client
  <2>1. /\ stack # <<>> /\ Len(stack) \in Nat \ {0}
        /\ (life' = "booted" /\ stack' = <<>>) \/ life' = life
    BY <1>3, ClientShape
  <2>2. life = "up"
    BY <2>1 DEF StackInv
  <2>3. CASE stack' = <<>>
    BY <2>3 DEF StackInv
  <2>4. CASE Returned /\ stack' # <<>>
    <3>1. \A i \in 1..(Len(stack) - 1) : stack'[i].pc = "yield" /\ stack'[i].tries = 0
      BY <2>1, <2>4 DEF StackInv, Returned
    <3> QED
      BY <2>1, <2>2, <2>4, <3>1 DEF StackInv, Returned
  <2>5. CASE stack' # <<>> /\ ~Returned
    <3>1. PICK f \in Frame :
            /\ WentOn(f) /\ Tried(f)
            /\ f.pc # "callback" \/ \E m \in Message : f = NewFrame(m)
      BY <1>3, <2>5, ClientShape DEF BootImage
    <3>2. Clean(f)
      BY <3>1 DEF NewFrame
    <3>3. \A i \in 1..Len(stack') : Clean(stack'[i]) /\ Tried(stack'[i])
      BY <2>1, <3>1, <3>2 DEF StackInv, WentOn
    <3>4. \A i \in 1..(Len(stack') - 1) : stack'[i].pc = "yield"
      BY <2>1, <3>1 DEF StackInv, WentOn
    <3> QED
      BY <2>1, <2>2, <2>5, <3>3, <3>4 DEF StackInv
  <2> QED
    BY <2>3, <2>4, <2>5
<1>4. CASE UNCHANGED vars
  BY <1>4 DEF vars, StackInv
<1> QED
  BY <1>1, <1>2, <1>3, <1>4 DEF Next

\* What the invariant says of the last callback, and of the download below it.
LEMMA TopSound ==
    ASSUME TypeOK, StackInv, DownloadInv, stack # <<>>
    PROVE  /\ Downloading(Top) => Sound(Top)
           /\ Top.pc = "callback" /\ Len(stack) > 1 =>
                stack[Len(stack) - 1].pc = "yield" /\ Sound(stack[Len(stack) - 1])
<1>1. Len(stack) \in Nat \ {0}
  BY BelowFacts
<1>2. Downloading(Top) => Sound(Top)
  <2>1. Len(stack) \in 1..Len(stack)
    BY <1>1
  <2> QED
    BY <2>1, Zenon DEF DownloadInv, Innermost, Top
<1>3. ASSUME Top.pc = "callback", Len(stack) > 1
      PROVE  stack[Len(stack) - 1].pc = "yield" /\ Sound(stack[Len(stack) - 1])
  <2> DEFINE k == Len(stack) - 1
  <2>1. k \in 1..Len(stack) /\ k \in 1..(Len(stack) - 1) /\ k + 1 = Len(stack)
    BY <1>1, <1>3
  <2>2. stack[k].pc = "yield" /\ stack[k + 1].pc = "callback"
    BY <1>3, <2>1 DEF StackInv, Top
  <2> HIDE DEF k
  <2>3. Innermost(k)
    BY <2>1, <2>2 DEF Innermost, Downloading, k
  <2>4. Sound(stack[k])
    BY <2>1, <2>3, Zenon DEF DownloadInv
  <2> QED
    BY <2>2, <2>4 DEF k
<1> QED
  BY <1>2, <1>3

\* An update is queued during a download only, and the download that is at the
\* bottom of the stack takes up the queue before it returns.
LEMMA QueueNext ==
    ASSUME TypeOK, StackInv, DownloadInv, QueueInv, [Next]_vars
    PROVE  QueueInv'
<1>1. CASE IOT_OTA_Init \/ IOT_OTA_Destroy \/ PowerLoss
  <2>1. life # "up" => stack = <<>>
    BY DEF StackInv
  <2> QED
    BY <1>1, <2>1 DEF IOT_OTA_Init, IOT_OTA_Destroy, PowerLoss, osc_init, osc_deinit, QueueInv
<1>2. ASSUME NEW m \in Message, _ota_mqtt_upgrade_cb(m)
      PROVE  QueueInv'
  <2>1. CASE stack' = stack
    BY <1>2, <2>1 DEF _ota_mqtt_upgrade_cb, QueueInv, Downloading
  <2>2. CASE stack' # stack
    <3>1. /\ stack \in Seq(Frame) /\ stack' = Append(stack, NewFrame(m)) /\ NewFrame(m) \in Frame
          /\ UNCHANGED <<life, state, queue, odd>>
      BY <1>2, <2>2, NewFrameFacts DEF _ota_mqtt_upgrade_cb, TypeOK
    <3>2. stack' # <<>> /\ (stack # <<>> => stack'[1] = stack[1])
      BY <3>1
    <3> QED
      BY <3>1, <3>2 DEF QueueInv, Downloading
  <2> QED
    BY <2>1, <2>2
<1>3. CASE Client
  <2>1. /\ stack # <<>> /\ Len(stack) \in Nat \ {0} /\ Top = stack[Len(stack)]
        /\ (life' = "booted" /\ stack' = <<>>) \/ life' = life
        /\ Downloading(Top) => Sound(Top)
    BY <1>3, ClientShape, TopSound
  <2>2. stack' = <<>> \/ (Len(stack') \in Nat \ {0} /\ stack' # <<>>)
    BY TypeNext DEF TypeOK
  <2>3. /\ life = "up" /\ life' # "none"
    BY <2>1 DEF StackInv
  <2>4. \A i \in 1..Len(queue') : queue'[i].type = "update"
    <3>1. CASE UNCHANGED queue
      BY <3>1 DEF QueueInv
    <3>2. CASE _ota_push_upload_msg
      <4>1. queue \in Seq(Message) /\ Top.msg \in Message
        BY <1>3, ClientShape, FrameFacts DEF TypeOK
      <4>2. queue' = Append(queue, Top.msg) /\ Top.msg.type = "update"
        BY <3>2 DEF _ota_push_upload_msg
      <4> QED
        BY <4>1, <4>2 DEF QueueInv
    <3>3. CASE _ota_pop_upload_msg
      <4>1. queue \in Seq(Message) /\ (queue' = queue \/ (queue # <<>> /\ queue' = Tail(queue)))
        BY <3>3 DEF _ota_pop_upload_msg, TypeOK
      <4>2. queue # <<>> => \A i \in 1..Len(Tail(queue)) : i + 1 \in 1..Len(queue) /\ Tail(queue)[i] = queue[i + 1]
        BY <4>1
      <4> QED
        BY <4>1, <4>2 DEF QueueInv
    <3> QED
      BY <1>3, <3>1, <3>2, <3>3
         DEF Client, IgnoreMessage, CancelUpdate, RejectUpdate, BeginDownload,
             HAL_Download_Init, FetchRefused, Reconnect, FetchFailed,
             FetchMute, FetchOverrun, FetchNothing, FetchData,
             YieldDone, RejectImage, BootImage, IOT_OTA_Clear
  <2>5. ASSUME stack' # <<>>, Downloading(stack'[1])
        PROVE  QueueInv'
    BY <2>3, <2>4, <2>5 DEF QueueInv, Downloading
  <2>6. Len(stack) > 1 => stack[1].pc = "yield"
    BY <2>1 DEF StackInv
  <2>15. Len(stack) > 1 \/ Len(stack) = 1
    <3>1. \A n \in Nat \ {0} : n > 1 \/ n = 1
      OBVIOUS
    <3> QED
      BY <2>1, <3>1
  <2>7. CASE BootImage
    <3>1. Top.pc = "check" /\ state' = state /\ life' = "booted" /\ stack' = <<>>
      BY <2>7 DEF BootImage, At
    <3>2. state' # "FETCHING"
      BY <2>1, <3>1 DEF Sound, Downloading
    <3> QED
      BY <2>3, <2>4, <3>1, <3>2 DEF QueueInv
  <2>8. CASE Returned /\ Len(stack) > 1
    <3>1. Len(stack') = Len(stack) - 1 /\ stack'[1].pc = "yield"
      BY <2>1, <2>6, <2>8 DEF Returned
    <3>2. stack' # <<>>
      BY <2>1, <2>8, <3>1
    <3> QED
      BY <2>5, <3>1, <3>2 DEF Downloading
  <2>9. CASE Returned /\ Len(stack) = 1 /\ Top.pc = "callback"
    <3>1. Top = stack[1] /\ stack' = <<>> /\ ~Downloading(stack[1])
      BY <2>1, <2>2, <2>9 DEF Returned, Downloading
    <3>2. state # "FETCHING"
      BY <3>1 DEF QueueInv
    <3>3. IgnoreMessage \/ CancelUpdate \/ RejectUpdate \/ BeginDownload
      BY <1>3, <2>9, <3>2
         DEF Client, _ota_push_upload_msg, HAL_Download_Init, FetchRefused, Reconnect, FetchFailed,
             FetchMute, FetchOverrun, FetchNothing, FetchData, YieldDone, RejectImage, BootImage, IOT_OTA_Clear,
             _ota_pop_upload_msg, CanTry, At
    <3>4. CASE IgnoreMessage \/ CancelUpdate
      <4>1. /\ queue' = queue /\ odd' = odd /\ Top.msg.type # "update"
            /\ state' = state \/ state' = "DISCONNECTED"
        BY <3>4 DEF IgnoreMessage, CancelUpdate
      <4> QED
        BY <2>3, <2>4, <3>1, <3>2, <4>1 DEF QueueInv
    <3>5. CASE RejectUpdate
      <4>1. state' = state /\ "malformed" \in odd'
        BY <3>5 DEF RejectUpdate
      <4> QED
        BY <2>3, <2>4, <3>1, <3>2, <4>1 DEF QueueInv
    <3>6. CASE BeginDownload
      <4>1. CASE Top.msg.fw \in BadUrl
        <5>1. state' = "DISCONNECTED" /\ "malformed" \in odd'
          BY <3>6, <4>1 DEF BeginDownload
        <5> QED
          BY <2>3, <2>4, <3>1, <5>1 DEF QueueInv
      <4>2. CASE Top.msg.fw \notin BadUrl
        <5>1. Goto([Top EXCEPT !.pc = "init"])
          BY <3>6, <4>2 DEF BeginDownload
        <5>2. stack' # <<>>
          BY <5>1, BelowFacts, <2>1 DEF Goto
        <5> QED
          BY <3>1, <5>2
      <4> QED
        BY <4>1, <4>2
    <3> QED
      BY <3>3, <3>4, <3>5, <3>6
  <2>10. ASSUME Top.pc = "pop"
         PROVE  /\ _ota_pop_upload_msg /\ UNCHANGED <<state, odd, life>>
                /\ state' # "FETCHING"
    <3>1. _ota_pop_upload_msg
      BY <1>3, <2>10
         DEF Client, IgnoreMessage, CancelUpdate, RejectUpdate, BeginDownload, _ota_push_upload_msg,
             HAL_Download_Init, FetchRefused, Reconnect, FetchFailed, FetchMute, FetchOverrun,
             FetchNothing, FetchData, YieldDone, RejectImage, BootImage, IOT_OTA_Clear, CanTry, At
    <3>2. state \in {"INITED", "DISCONNECTED"}
      BY <2>1, <2>10 DEF Sound, Downloading
    <3> QED
      BY <3>1, <3>2 DEF _ota_pop_upload_msg, device
  <2>11. CASE Returned /\ Len(stack) = 1 /\ Top.pc = "pop" /\ queue = <<>>
    <3>1. queue' = <<>>
      BY <2>10, <2>11 DEF _ota_pop_upload_msg
    <3> QED
      BY <2>3, <2>4, <2>10, <2>11, <3>1 DEF QueueInv
  <2>12. ASSUME NEW f \in Frame, WentOn(f), f.pc # "callback"
         PROVE  QueueInv'
    <3>1. Len(stack') = Len(stack) /\ Downloading(stack'[1])
      BY <2>1, <2>6, <2>12 DEF WentOn, Downloading
    <3>2. stack' # <<>>
      BY <2>1, <3>1
    <3> QED
      BY <2>5, <3>1, <3>2
  <2>13. ASSUME NEW f \in Frame, WentOn(f), NEW m \in Message, Goto(f), f = NewFrame(m), Top.pc = "pop"
         PROVE  QueueInv'
    <3>1. Len(stack') = Len(stack)
      BY <2>13 DEF WentOn
    <3>2. stack' # <<>>
      BY <2>1, <3>1
    <3>3. CASE Len(stack) > 1
      <4>1. stack'[1].pc = "yield"
        BY <2>1, <2>6, <2>13, <3>3 DEF WentOn
      <4> QED
        BY <2>5, <3>2, <4>1 DEF Downloading
    <3>4. CASE Len(stack) = 1
      <4>1. queue \in Seq(Message) /\ queue # <<>> /\ Goto(NewFrame(Head(queue)))
        <5>1. queue = <<>> => stack' = Below
          BY <2>10, <2>13 DEF _ota_pop_upload_msg
        <5>2. Below = <<>>
          BY <2>1, <3>4, BelowFacts
        <5> QED
          BY <2>10, <2>13, <3>2, <5>1, <5>2 DEF _ota_pop_upload_msg, TypeOK
      <4>2. Head(queue) \in Message /\ Head(queue).type = "update"
        BY <4>1 DEF QueueInv
      <4>3. stack'[1] = NewFrame(Head(queue))
        BY <2>1, <3>4, <4>1, <4>2, NewFrameFacts, GotoFacts
      <4>4. stack'[1].msg.type = "update"
        BY <4>2, <4>3 DEF NewFrame
      <4> QED
        BY <2>3, <2>4, <2>10, <2>13, <3>2, <4>4 DEF QueueInv
    <3> QED
      BY <2>15, <3>3, <3>4
  <2>14. CASE Returned /\ (Top.pc = "callback" \/ (Top.pc = "pop" /\ queue = <<>>))
    BY <2>8, <2>9, <2>11, <2>14, <2>15
  <2> QED
    BY <1>3, <2>7, <2>12, <2>13, <2>14, ClientShape
<1>4. CASE UNCHANGED vars
  BY <1>4 DEF vars, QueueInv, Downloading
<1> QED
  BY <1>1, <1>2, <1>3, <1>4 DEF Next

\* ch_fetch is followed only while it is there.
LEMMA FetchNext ==
    ASSUME TypeOK, StackInv, FetchInv, [Next]_vars
    PROVE  FetchInv'
<1>1. CASE IOT_OTA_Init \/ IOT_OTA_Destroy \/ PowerLoss
  <2>1. life # "up" => stack = <<>>
    BY DEF StackInv
  <2> QED
    BY <1>1, <2>1 DEF IOT_OTA_Init, IOT_OTA_Destroy, PowerLoss, osc_init, FetchInv
<1>2. ASSUME NEW m \in Message, _ota_mqtt_upgrade_cb(m)
      PROVE  FetchInv'
  <2>1. UNCHANGED <<life, odd, ch, par>>
    BY <1>2 DEF _ota_mqtt_upgrade_cb
  <2>2. CASE odd # {}
    BY <2>1, <2>2 DEF FetchInv
  <2>3. CASE odd = {}
    <3>1. /\ stack \in Seq(Frame) /\ stack' = Append(stack, NewFrame(m)) /\ NewFrame(m) \in Frame
          /\ uaf' = uaf /\ ~uaf
      BY <1>2, <2>3, NewFrameFacts DEF _ota_mqtt_upgrade_cb, TypeOK, FetchInv
    <3>2. /\ Len(stack) \in Nat /\ Len(stack') = Len(stack) + 1
          /\ \A i \in 1..Len(stack) : stack'[i] = stack[i]
          /\ stack'[Len(stack) + 1] = NewFrame(m)
      BY <3>1
    <3>3. ~Downloading(NewFrame(m))
      BY DEF NewFrame, Downloading
    <3>4. \A i \in 1..Len(stack') : i > 1 => ~Downloading(stack'[i])
      BY <2>3, <3>2, <3>3 DEF FetchInv
    <3>5. \A i \in 1..Len(stack') : Downloading(stack'[i]) /\ stack'[i].pc # "pop" => ch = "live"
      BY <2>3, <3>2, <3>3 DEF FetchInv
    <3> QED
      BY <2>1, <2>3, <3>1, <3>4, <3>5 DEF FetchInv, Downloading
  <2> QED
    BY <2>2, <2>3
<1>3. CASE Client
  <2>1. /\ stack # <<>> /\ Len(stack) \in Nat \ {0} /\ Top = stack[Len(stack)] /\ Top \in Frame
        /\ (life' = "booted" /\ stack' = <<>>) \/ life' = life
    BY <1>3, ClientShape
  <2>2. life = "up"
    BY <2>1 DEF StackInv
  <2>3. odd \subseteq odd'
    BY <1>3 DEF Client, IgnoreMessage, CancelUpdate, RejectUpdate, BeginDownload,
           _ota_push_upload_msg, HAL_Download_Init, FetchRefused, Reconnect, FetchFailed,
           FetchMute, FetchOverrun, FetchNothing, FetchData, YieldDone, RejectImage, BootImage, IOT_OTA_Clear,
           _ota_pop_upload_msg
  <2>4. CASE odd' # {}
    BY <2>4, <2>2, <2>1 DEF FetchInv
  <2>5. CASE odd' = {}
    <3>1. /\ odd = {} /\ ~uaf
          /\ \A i \in 1..Len(stack) : i > 1 => ~Downloading(stack[i])
          /\ \A i \in 1..Len(stack) : Downloading(stack[i]) /\ stack[i].pc # "pop" => ch = "live"
          /\ ch = "freed" => \A x \in DOMAIN Field : par[x] \notin Firmware
      BY <2>3, <2>5 DEF FetchInv
    <3>15. Len(stack) \in 1..Len(stack) /\ (Len(stack) > 1 \/ Len(stack) = 1)
      <4>1. \A n \in Nat \ {0} : n \in 1..n /\ (n > 1 \/ n = 1)
        OBVIOUS
      <4> QED
        BY <2>1, <4>1
    <3>2. Downloading(Top) => Len(stack) = 1
      BY <2>1, <3>1, <3>15, Zenon
    <3>3. Downloading(Top) /\ Top.pc # "pop" => ch = "live"
      BY <2>1, <3>1
    <3> DEFINE One == \A i \in 1..Len(stack') : i > 1 => ~Downloading(stack'[i])
               Live == \A i \in 1..Len(stack') : Downloading(stack'[i]) /\ stack'[i].pc # "pop" => ch' = "live"
               Dead == ch' = "freed" => \A x \in DOMAIN Field : par'[x] \notin Firmware
    <3>4. ASSUME One, Live, Dead, ~uaf'
          PROVE  FetchInv'
      BY <2>1, <2>2, <2>5, <3>4 DEF FetchInv, Downloading
    <3>5. ASSUME Returned, ch' = ch
          PROVE  One /\ Live
      BY <2>1, <3>1, <3>5 DEF Returned, Downloading
    <3>6. ASSUME NEW f \in Frame, Goto(f), Len(stack) = 1, f.pc \in {"pop", "callback"} \/ ch' = "live"
          PROVE  One /\ Live
      <4>1. Len(stack') = 1 /\ stack'[1] = f
        BY <2>1, <3>6, GotoFacts
      <4> QED
        BY <3>6, <4>1 DEF Downloading
    <3> HIDE DEF One, Live, Dead
    <3>7. CASE CancelUpdate
      <4>1. par.module = Top.msg.fw => ch # "freed"
        <5>1. Top.msg.fw \in Firmware
          BY <2>1, FrameFacts, MessageFacts
        <5> QED
          BY <3>1, <5>1 DEF Field
      <4>2. UNCHANGED <<ch, par>> /\ ~uaf' /\ stack' \in {Below, Cancelled(Below)}
        BY <3>1, <3>7, <4>1 DEF CancelUpdate, Matches
      <4> QED
        BY <2>1, <3>1, <3>4, <3>5, <4>2, ReturnFacts DEF Dead
    <3>8. CASE IgnoreMessage \/ _ota_push_upload_msg
      <4>1. UNCHANGED <<ch, par>> /\ ~uaf' /\ stack' \in {Below, Cancelled(Below)}
        BY <3>1, <3>8 DEF IgnoreMessage, _ota_push_upload_msg, handle
      <4> QED
        BY <2>1, <3>1, <3>4, <3>5, <4>1, ReturnFacts DEF Dead
    <3>9. CASE RejectUpdate
      BY <2>5, <3>9 DEF RejectUpdate
    <3>10. CASE BeginDownload
      <4>1. ch' = "live" /\ Below = <<>> /\ Goto([Top EXCEPT !.pc = "init"]) /\ uaf' = uaf
        BY <2>5, <3>10 DEF BeginDownload
      <4>2. Len(stack) = 1 /\ [Top EXCEPT !.pc = "init"] \in Frame
        BY <2>1, <4>1, BelowFacts, FrameFacts
      <4> QED
        BY <3>1, <3>4, <3>6, <4>1, <4>2 DEF Dead
    <3>11. CASE /\ ~BootImage
                /\ \/ HAL_Download_Init \/ FetchRefused \/ Reconnect \/ FetchFailed \/ FetchNothing
                   \/ FetchMute \/ FetchData \/ YieldDone \/ RejectImage
      <4>1. UNCHANGED <<ch, par, uaf>> /\ Downloading(Top) /\ Top.pc # "pop"
        BY <3>11 DEF HAL_Download_Init, FetchRefused, Reconnect, FetchFailed,
                     FetchMute, FetchNothing,
                     FetchData, YieldDone, RejectImage, handle, CanTry, At, Downloading
      <4>2. Len(stack) = 1 /\ ch' = "live"
        BY <3>2, <3>3, <4>1
      <4>3. PICK f \in Frame : Goto(f)
        BY <1>3, <3>11, <4>1, ClientShape DEF Downloading
      <4> QED
        BY <3>1, <3>4, <3>6, <4>1, <4>2, <4>3 DEF Dead
    <3>12. CASE BootImage
      <4>1. stack' = <<>> /\ UNCHANGED <<ch, par, uaf>>
        BY <3>12 DEF BootImage, handle
      <4> QED
        BY <3>1, <3>4, <4>1 DEF One, Live, Dead
    <3>13. CASE IOT_OTA_Clear
      <4>1. /\ Top.pc = "exit" /\ Goto([Top EXCEPT !.pc = "pop"])
            /\ ch' = "freed" /\ uaf' = (uaf \/ ch # "live")
            /\ par' = [x \in DOMAIN Field |-> Blank]
        BY <3>13 DEF IOT_OTA_Clear, At, ofc_deinit
      <4>2. Len(stack) = 1 /\ ch = "live"
        BY <3>2, <3>3, <4>1 DEF Downloading
      <4>3. [Top EXCEPT !.pc = "pop"] \in Frame
        BY <2>1, FrameFacts
      <4>6. [Top EXCEPT !.pc = "pop"].pc = "pop"
        BY <2>1 DEF Frame
      <4>4. One /\ Live
        BY <3>6, <4>1, <4>2, <4>3, <4>6
      <4>5. Dead
        BY <4>1, SizeAssumption DEF Dead
      <4> QED
        BY <3>1, <3>4, <4>1, <4>2, <4>4, <4>5
    <3>14. CASE _ota_pop_upload_msg
      <4>1. Top.pc = "pop" /\ UNCHANGED <<ch, par, uaf>>
        BY <3>14 DEF _ota_pop_upload_msg, At, handle
      <4>2. CASE queue = <<>>
        BY <2>1, <3>1, <3>4, <3>5, <3>14, <4>1, <4>2, ReturnFacts DEF _ota_pop_upload_msg, Dead
      <4>3. CASE queue # <<>>
        <5>1. Head(queue) \in Message /\ Goto(NewFrame(Head(queue)))
          BY <3>14, <4>3 DEF _ota_pop_upload_msg, TypeOK
        <5>2. NewFrame(Head(queue)) \in Frame /\ NewFrame(Head(queue)).pc = "callback"
          BY <5>1, NewFrameFacts DEF NewFrame
        <5>3. Len(stack) = 1
          BY <3>2, <4>1 DEF Downloading
        <5> QED
          BY <3>1, <3>4, <3>6, <4>1, <5>1, <5>2, <5>3 DEF Dead
      <4> QED
        BY <4>2, <4>3
    <3> QED
      BY <1>3, <2>5, <3>7, <3>8, <3>9, <3>10, <3>11, <3>12, <3>13, <3>14 DEF Client, FetchOverrun
  <2> QED
    BY <2>4, <2>5
<1>4. CASE UNCHANGED vars
  BY <1>4 DEF vars, FetchInv, Downloading
<1> QED
  BY <1>1, <1>2, <1>3, <1>4 DEF Next

\* The innermost download after a step: the last callback, ...
LEMMA InnerGoto ==
    ASSUME TypeOK, StackInv, stack # <<>>, NEW f \in Frame, Goto(f), f.pc # "callback", Sound(f)'
    PROVE  DownloadInv'
<1>1. Len(stack) \in Nat \ {0} /\ Len(stack') = Len(stack) /\ stack'[Len(stack)] = f
  BY BelowFacts, GotoFacts
<1>2. SUFFICES ASSUME NEW i \in 1..Len(stack'), Innermost(i)'
               PROVE  Sound(stack[i])'
  BY DEF DownloadInv
<1>3. i = Len(stack)
  BY <1>1, <1>2 DEF Innermost
<1>4. stack'[i] = f
  BY <1>1, <1>3
<1> QED
  BY <1>4 DEF Sound, Over, Alive, Written, Named, Reported

\* ... or the download it returns to, ...
LEMMA InnerReturn ==
    ASSUME TypeOK, StackInv, stack # <<>>, Returned,
           \A i \in 1..(Len(stack) - 1) : i = Len(stack) - 1 => Sound(stack[i])'
    PROVE  DownloadInv'
<1>1. Len(stack) \in Nat \ {0} /\ Len(stack') = Len(stack) - 1
  BY BelowFacts DEF Returned
<1>2. \A i \in 1..(Len(stack) - 1) : stack'[i].pc = "yield"
  BY <1>1 DEF Returned, StackInv
<1>3. SUFFICES ASSUME NEW i \in 1..Len(stack'), Innermost(i)'
               PROVE  Sound(stack[i])'
  BY DEF DownloadInv
<1>4. i \in 1..(Len(stack) - 1) /\ i = Len(stack) - 1
  BY <1>1, <1>2, <1>3 DEF Innermost
<1> QED
  BY <1>4

\* ... or the download that was called from.
LEMMA InnerCallback ==
    ASSUME TypeOK, StackInv, stack # <<>>, NEW m \in Message, Goto(NewFrame(m)),
           \A i \in 1..(Len(stack) - 1) : i = Len(stack) - 1 => Sound(stack[i])'
    PROVE  DownloadInv'
<1>1. /\ Len(stack) \in Nat \ {0} /\ Len(stack') = Len(stack)
      /\ stack'[Len(stack)] = NewFrame(m)
  BY BelowFacts, GotoFacts, NewFrameFacts
<1>2. ~Downloading(NewFrame(m))
  BY DEF NewFrame, Downloading
<1>3. SUFFICES ASSUME NEW i \in 1..Len(stack'), Innermost(i)'
               PROVE  Sound(stack[i])'
  BY DEF DownloadInv
<1>4. i \in 1..(Len(stack) - 1) /\ i = Len(stack) - 1
  BY <1>1, <1>2, <1>3 DEF Innermost, Downloading
<1> QED
  BY <1>4

\* A download that finds the handle cleared or disconnected is over.
LEMMA OverSound ==
    ASSUME TypeOK, StackInv, NEW i \in 1..(Len(stack) - 1), state' \in {"INITED", "DISCONNECTED"},
           stack'[i].pc = "yield", stack'[i].tries = 0
    PROVE  Sound(stack[i])'
BY DEF Sound, Over

\* The percentage is rounded down, and grows with what was fetched.
LEMMA PercentFacts ==
    ASSUME NEW a \in Nat, NEW size \in Nat \ {0}
    PROVE  /\ (a * 100) \div size \in Int
           /\ ((a * 100) \div size) * size <= a * 100
           /\ \A p \in Int : p * size <= a * 100 => p <= (a * 100) \div size
<1> DEFINE n == a * 100
           q == n \div size
<1>1. n \in Nat
  OBVIOUS
<1> HIDE DEF n
<1>2. q \in Int /\ q * size <= n /\ n < q * size + size
  BY <1>1, SMT
<1> HIDE DEF q
<1>3. ASSUME NEW p \in Int, p * size <= n
      PROVE  p <= q
  <2> SUFFICES ASSUME p >= q + 1
               PROVE  FALSE
    BY <1>2
  <2>1. p * size >= (q + 1) * size
    BY <1>2
  <2>2. (q + 1) * size = q * size + size
    BY <1>2
  <2> QED
    BY <1>1, <1>2, <1>3, <2>1, <2>2
<1> QED
  BY <1>2, <1>3 DEF n, q

\* A try is made by a download that has the handle to itself.
LEMMA TrySound ==
    ASSUME TypeOK, StackInv, DownloadInv, CanTry
    PROVE  /\ Top \in Frame /\ Top.pc = "fetch" /\ stack # <<>>
           /\ Alive(Top) /\ Named(Top) /\ Reported(Top) /\ state \in {"FETCHING", "FETCHED"}
<1>1. Top.pc = "fetch" /\ stack # <<>> /\ (Top.tries > 0 \/ state = "FETCHING")
  BY DEF CanTry, At
<1>2. Top \in Frame
  BY <1>1, BelowFacts
<1>3. Sound(Top)
  BY <1>1, TopSound DEF Downloading
<1> QED
  BY <1>1, <1>2, <1>3 DEF Sound, Over

\* What FetchData writes, feeds to the digest and reports.
LEMMA FetchDataFacts ==
    ASSUME TypeOK, StackInv, DownloadInv, FetchData
    PROVE  /\ progress' >= progress
           /\ \/ Leave(FALSE)
              \/ \E f \in Frame : Goto(f) /\ f.pc = "yield" /\ Sound(f)'
<1>1. /\ Top \in Frame /\ Top.pc = "fetch" /\ stack # <<>>
      /\ Alive(Top) /\ Named(Top) /\ Reported(Top) /\ state \in {"FETCHING", "FETCHED"}
  BY TrySound DEF FetchData
<1> DEFINE fw == Top.msg.fw
<1>2. /\ fw \in Firmware /\ Top.total \in 0..PartSize /\ Top.msg \in Message
      /\ Size[fw] \in Nat \ {0}
  BY <1>1, FrameFacts, MessageFacts, SizeAssumption
<1>3. par.url = fw /\ SizeFile = Size[fw]
  BY <1>1, <1>2 DEF Named, Field, SizeFile
<1>4. PICK data \in Bodies :
        /\ fetched' = fetched + Len(data) /\ md5' = md5 \o data
        /\ progress' \in {IF fetched = 0 THEN 0 ELSE progress}
                           \cup IOT_OTA_ReportProgress(Percent(fetched + Len(data)))
        /\ state' = IF fetched + Len(data) >= SizeFile THEN "FETCHED" ELSE state
        /\ \/ /\ Top.total + Len(data) <= PartSize
              /\ flash' = HAL_Download_Write(Top.total, data)
              /\ Goto([Top EXCEPT !.pc = "yield", !.tries = 0, !.total = @ + Len(data)])
           \/ UNCHANGED flash /\ Leave(FALSE)
  BY DEF FetchData, ota_lib_md5_update
<1>5. /\ data \in Seq(Block) /\ Len(data) \in {1, 2}
      /\ \A i \in 1..Len(data) : data[i][1] \in {Blank, fw}
  BY <1>3, BodyFacts
<1>6. UNCHANGED <<par, odd>>
  BY DEF FetchData
<1>7. md5 \in Seq(Block) /\ Len(md5) = fetched /\ fetched \in Nat /\ progress \in -1..100
      /\ DOMAIN flash = 0..(PartSize - 1) /\ PartSize \in Nat
  BY SizeAssumption DEF TypeOK
<1> HIDE DEF fw
<1>8. progress' >= progress /\ progress' * Size[fw] <= fetched' * 100
  <2> DEFINE now == fetched + Len(data)
             size == Size[fw]
             p == Percent(now)
  <2>1. now \in Nat /\ now >= fetched /\ size \in Nat \ {0} /\ p = (now * 100) \div size
    BY <1>2, <1>3, <1>5, <1>7 DEF Percent
  <2>2. progress' = progress \/ (fetched = 0 /\ progress' = 0) \/ progress' = p
    BY <1>4 DEF IOT_OTA_ReportProgress
  <2>3. progress * size <= fetched * 100 /\ progress \in Int /\ fetched \in Nat
    BY <1>1, <1>7 DEF Reported, fw
  <2>4. fetched' = now
    BY <1>4
  <2> HIDE DEF now, size, p
  <2>5. progress * size <= now * 100
    BY <2>1, <2>3
  <2>6. p \in Int /\ p * size <= now * 100 /\ progress <= p
    BY <2>1, <2>3, <2>5, PercentFacts
  <2>7. fetched = 0 => progress <= 0
    BY <2>1, <2>3
  <2>8. progress' >= progress /\ progress' * size <= now * 100
    BY <2>1, <2>2, <2>3, <2>5, <2>6, <2>7
  <2> QED
    BY <2>4, <2>8 DEF size
<1>9. CASE Leave(FALSE)
  BY <1>8, <1>9
<1>10. CASE /\ Top.total + Len(data) <= PartSize
            /\ flash' = HAL_Download_Write(Top.total, data)
            /\ Goto([Top EXCEPT !.pc = "yield", !.tries = 0, !.total = @ + Len(data)])
  <2>1. Top.total + Len(data) \in 0..PartSize
    <3>1. Top.total \in 0..PartSize /\ Len(data) \in {1, 2} /\ Top.total + Len(data) <= PartSize
      BY <1>2, <1>5, <1>10
    <3> QED
      BY <3>1, SizeAssumption
  <2>2. PICK f \in Frame : f = [Top EXCEPT !.pc = "yield", !.tries = 0, !.total = @ + Len(data)]
    BY <1>1, <2>1, FrameFacts
  <2>3. /\ f.pc = "yield" /\ f.tries = 0 /\ f.total = Top.total + Len(data)
        /\ f.msg = Top.msg /\ f.cancelled = Top.cancelled
    BY <1>1, <2>2 DEF Frame
  <2>4. Goto(f)
    BY <1>10, <2>2
  <2>5. f.total <= fetched' /\ fetched' - f.total = fetched - Top.total
    <3>1. Top.total <= fetched
      BY <1>1 DEF Alive, Written
    <3> QED
      BY <1>2, <1>4, <1>5, <1>7, <2>3, <3>1
  <2>6. ASSUME NEW i \in 0..(PartSize - 1)
        PROVE  IF i < f.total
                 THEN flash'[i] = md5'[fetched' - f.total + i + 1] /\ flash'[i][1] \in {Blank, fw}
                 ELSE flash'[i] = Erased
    <3>1. IF i < Top.total
            THEN flash[i] = md5[fetched - Top.total + i + 1] /\ flash[i][1] \in {Blank, fw}
            ELSE flash[i] = Erased
      BY <1>1 DEF Alive, Written, fw
    <3>2. flash'[i] = IF i \in Top.total..(Top.total + Len(data) - 1)
                        THEN IF flash[i] = Erased THEN data[i - Top.total + 1] ELSE Junk
                        ELSE flash[i]
      BY <1>7, <1>10 DEF HAL_Download_Write
    <3>3. /\ Top.total \in Nat /\ fetched \in Nat /\ Top.total <= fetched /\ Len(data) \in Nat
          /\ f.total = Top.total + Len(data) /\ i \in Nat
      BY <1>1, <1>2, <1>5, <1>7, <2>3 DEF Alive, Written
    <3>4. \A j \in 1..(Len(md5) + Len(data)) :
            md5'[j] = IF j <= Len(md5) THEN md5[j] ELSE data[j - Len(md5)]
      BY <1>4, <1>5, <1>7, ConcatProperties, Zenon
    <3> DEFINE j == fetched - Top.total + i + 1
    <3>5. CASE i < Top.total
      <4>1. j \in 1..(Len(md5) + Len(data)) /\ j <= Len(md5)
        BY <1>7, <3>3, <3>5
      <4>2. i < f.total /\ i \notin Top.total..(Top.total + Len(data) - 1)
        BY <3>3, <3>5
      <4>3. fetched' - f.total + i + 1 = j
        BY <2>5
      <4>4. md5'[j] = md5[j]
        BY <3>4, <4>1
      <4> HIDE DEF j
      <4>5. flash[i] = md5[j] /\ flash[i][1] \in {Blank, fw}
        BY <3>1, <3>5 DEF j
      <4> QED
        BY <3>2, <4>2, <4>3, <4>4, <4>5
    <3>6. CASE i >= Top.total /\ i < f.total
      <4>1. /\ j \in 1..(Len(md5) + Len(data)) /\ ~(j <= Len(md5))
            /\ j - Len(md5) = i - Top.total + 1
            /\ i - Top.total + 1 \in 1..Len(data)
        BY <1>7, <3>3, <3>6
      <4>2. i \in Top.total..(Top.total + Len(data) - 1) /\ ~(i < Top.total)
        BY <3>3, <3>6
      <4>3. fetched' - f.total + i + 1 = j
        BY <2>5
      <4> HIDE DEF j
      <4>4. md5'[j] = data[i - Top.total + 1]
        BY <3>4, <4>1
      <4>5. flash'[i] = data[i - Top.total + 1]
        BY <3>1, <3>2, <4>2
      <4>6. data[i - Top.total + 1][1] \in {Blank, fw}
        BY <1>5, <4>1
      <4> QED
        BY <3>6, <4>3, <4>4, <4>5, <4>6
    <3>7. CASE ~(i < f.total)
      <4>1. i \notin Top.total..(Top.total + Len(data) - 1) /\ ~(i < Top.total)
        BY <3>3, <3>7
      <4> QED
        BY <3>1, <3>2, <3>7, <4>1
    <3> QED
      BY <3>3, <3>5, <3>6, <3>7
  <2>7. Alive(f)'
    <3>1. ~f.cancelled /\ f.msg.fw = fw
      BY <1>1, <2>3 DEF Alive, fw
    <3> QED
      BY <2>5, <2>6, <3>1 DEF Alive, Written
  <2>8. Named(f)' /\ Reported(f)'
    BY <1>1, <1>6, <1>8, <2>3 DEF Named, Reported, fw
  <2>9. state' \in {"FETCHING", "FETCHED"}
    BY <1>1, <1>4
  <2>10. Sound(f)'
    BY <2>3, <2>7, <2>8, <2>9 DEF Sound
  <2> QED
    BY <1>8, <2>3, <2>4, <2>10
<1> QED
  BY <1>4, <1>9, <1>10

\* Every step leaves the innermost download sound.
LEMMA DownloadNext ==
    ASSUME TypeOK, StackInv, DownloadInv, [Next]_vars
    PROVE  DownloadInv'
<1>1. CASE IOT_OTA_Init \/ IOT_OTA_Destroy \/ PowerLoss
  <2>1. life # "up" => stack = <<>>
    BY DEF StackInv
  <2>2. stack' = <<>>
    BY <1>1, <2>1 DEF IOT_OTA_Init, IOT_OTA_Destroy, PowerLoss
  <2> QED
    BY <2>2 DEF DownloadInv
<1>2. ASSUME NEW m \in Message, _ota_mqtt_upgrade_cb(m)
      PROVE  DownloadInv'
  <2>1. UNCHANGED <<state, par, fetched, md5, flash, progress, odd>>
    BY <1>2 DEF _ota_mqtt_upgrade_cb
  <2>2. CASE stack' = stack
    BY <2>1, <2>2
       DEF DownloadInv, Innermost, Downloading, Sound, Over, Alive, Written, Named, Reported
  <2>3. CASE stack' # stack
    <3>1. /\ stack \in Seq(Frame) /\ stack' = Append(stack, NewFrame(m)) /\ NewFrame(m) \in Frame
          /\ stack = <<>> \/ stack[Len(stack)].pc = "yield"
      BY <1>2, <2>3, NewFrameFacts DEF _ota_mqtt_upgrade_cb, Yielding, At, Top, TypeOK
    <3>2. /\ Len(stack) \in Nat /\ Len(stack') = Len(stack) + 1
          /\ \A i \in 1..Len(stack) : stack'[i] = stack[i]
          /\ stack'[Len(stack) + 1] = NewFrame(m)
      BY <3>1
    <3>3. ~Downloading(NewFrame(m))
      BY DEF NewFrame, Downloading
    <3>4. SUFFICES ASSUME NEW i \in 1..Len(stack'), Innermost(i)'
                   PROVE  Sound(stack[i])'
      BY DEF DownloadInv
    <3>5. i \in 1..Len(stack) /\ i = Len(stack) /\ stack'[i] = stack[i] /\ Downloading(stack[i])
      BY <3>2, <3>3, <3>4 DEF Innermost, Downloading
    <3>6. Sound(stack[i])
      BY <3>5, Zenon DEF DownloadInv, Innermost
    <3> QED
      BY <2>1, <3>5, <3>6 DEF Sound, Over, Alive, Written, Named, Reported
  <2> QED
    BY <2>2, <2>3
<1>3. CASE Client
  <2>1. /\ stack # <<>> /\ Len(stack) \in Nat \ {0} /\ Top \in Frame
        /\ Downloading(Top) => Sound(Top)
    BY <1>3, ClientShape, TopSound
  <2>2. /\ \A p \in {"callback", "init", "fetch", "yield", "check", "exit", "pop", "mute"} :
             [Top EXCEPT !.pc = p] \in Frame
        /\ \A b \in BOOLEAN : [Top EXCEPT !.pc = "exit", !.ok = b] \in Frame
        /\ Top.tries + 1 # MaxTries => [Top EXCEPT !.tries = @ + 1] \in Frame
        /\ Top.msg \in Message /\ Top.tries \in 0..(MaxTries - 1)
    BY <2>1, FrameFacts
  <2>3. ASSUME NEW b \in BOOLEAN, Leave(b)
        PROVE  DownloadInv'
    <3>1. PICK f \in Frame : f = [Top EXCEPT !.pc = "exit", !.ok = b]
      BY <2>2
    <3>2. f.pc = "exit" /\ Goto(f)
      BY <2>1, <2>3, <3>1 DEF Frame, Leave
    <3>3. Sound(f)'
      BY <3>2 DEF Sound
    <3> QED
      BY <2>1, <3>2, <3>3, InnerGoto
  <2>4. ASSUME Top.pc = "callback", NEW i \in 1..(Len(stack) - 1), i = Len(stack) - 1
        PROVE  stack[i].pc = "yield" /\ stack[i].tries = 0 /\ Sound(stack[i])
    <3>1. Len(stack) > 1 /\ i \in 1..Len(stack)
      BY <2>1, <2>4
    <3> QED
      BY <2>1, <2>4, <3>1, TopSound DEF StackInv
  <2>5. ASSUME Top.pc = "callback", stack' = Below, UNCHANGED <<state, par, fetched, md5, flash, progress, odd>>
        PROVE  DownloadInv'
    <3>1. ASSUME NEW i \in 1..(Len(stack) - 1), i = Len(stack) - 1
          PROVE  Sound(stack[i])'
      <4>1. stack'[i] = stack[i] /\ Sound(stack[i])
        BY <2>1, <2>4, <2>5, <3>1, ReturnFacts
      <4> QED
        BY <2>5, <4>1 DEF Sound, Over, Alive, Written, Named, Reported
    <3> QED
      BY <2>1, <2>5, <3>1, InnerReturn, ReturnFacts
  <2>6. ASSUME stack' \in {Below, Cancelled(Below)}, state' \in {"INITED", "DISCONNECTED"}
        PROVE  DownloadInv'
    <3>1. Returned
      BY <2>1, <2>6, ReturnFacts
    <3>2. ASSUME NEW i \in 1..(Len(stack) - 1)
          PROVE  Sound(stack[i])'
      <4>1. stack'[i].pc = "yield" /\ stack'[i].tries = 0
        BY <2>1, <3>1 DEF Returned, StackInv
      <4> QED
        BY <2>6, <4>1, OverSound
    <3> QED
      BY <2>1, <3>1, <3>2, InnerReturn
  <2>7. CASE IgnoreMessage \/ _ota_push_upload_msg
    BY <2>5, <2>7 DEF IgnoreMessage, _ota_push_upload_msg, At, handle, device
  <2>8. CASE CancelUpdate
    <3>1. CASE Matches(Top.msg)
      BY <2>6, <2>8, <3>1 DEF CancelUpdate
    <3>2. CASE ~Matches(Top.msg)
      BY <2>5, <2>8, <3>2 DEF CancelUpdate, At, device
    <3> QED
      BY <3>1, <3>2
  <2>9. CASE RejectUpdate
    <3>1. /\ Top.pc = "callback" /\ stack' = Below /\ state # "FETCHING" /\ "malformed" \in odd'
          /\ UNCHANGED <<state, fetched, md5, flash, progress>>
      BY <2>9 DEF RejectUpdate, At, device
    <3>2. ASSUME NEW i \in 1..(Len(stack) - 1), i = Len(stack) - 1
          PROVE  Sound(stack[i])'
      <4>1. stack'[i] = stack[i] /\ stack[i].pc = "yield" /\ Sound(stack[i])
        BY <2>1, <2>4, <3>1, <3>2, ReturnFacts
      <4> QED
        BY <3>1, <4>1 DEF Sound, Over, Alive, Written
    <3> QED
      BY <2>1, <3>1, <3>2, InnerReturn, ReturnFacts
  <2>10. CASE BeginDownload
    <3>1. CASE Top.msg.fw \in BadUrl
      BY <2>6, <2>10, <3>1 DEF BeginDownload
    <3>2. CASE Top.msg.fw \notin BadUrl
      <4>1. /\ Top.pc = "callback" /\ Top.msg.lacks = 6 /\ Goto([Top EXCEPT !.pc = "init"])
            /\ par' = ota_lib_get_params(Top.msg) /\ state' = "FETCHING" /\ progress' = -1
        BY <2>10, <3>2 DEF BeginDownload, At
      <4>2. PICK f \in Frame : f = [Top EXCEPT !.pc = "init"]
        BY <2>2
      <4>3. /\ f.pc = "init" /\ Goto(f) /\ f.msg = Top.msg /\ f.total = Top.total
            /\ f.tries = Top.tries /\ f.cancelled = Top.cancelled
        BY <2>1, <4>1, <4>2 DEF Frame
      <4>4. Top.total = 0 /\ Top.tries = 0 /\ ~Top.cancelled
        <5>1. Len(stack) \in 1..Len(stack) /\ Top = stack[Len(stack)]
          BY <2>1 DEF Top
        <5> QED
          BY <4>1, <5>1 DEF StackInv
      <4>5. \A x \in DOMAIN Field : par'[x] = f.msg.fw
        BY <4>1, <4>3 DEF ota_lib_get_params, Field
      <4>6. Sound(f)'
        BY <4>1, <4>3, <4>4, <4>5 DEF Sound, Named
      <4> QED
        BY <2>1, <4>3, <4>6, InnerGoto
    <3> QED
      BY <3>1, <3>2
  <2>11. CASE HAL_Download_Init
    <3>1. CASE Leave(FALSE)
      BY <2>3, <3>1
    <3>2. CASE flash' = [i \in DOMAIN flash |-> Erased] /\ Goto([Top EXCEPT !.pc = "fetch"])
      <4>1. Top.pc = "init" /\ UNCHANGED <<state, par, fetched, md5, progress, odd>>
        BY <2>11 DEF HAL_Download_Init, At, handle
      <4>2. PICK f \in Frame : f = [Top EXCEPT !.pc = "fetch"]
        BY <2>2
      <4>3. /\ f.pc = "fetch" /\ Goto(f) /\ f.msg = Top.msg /\ f.total = Top.total
            /\ f.tries = Top.tries /\ f.cancelled = Top.cancelled
        BY <2>1, <3>2, <4>2 DEF Frame
      <4>4. /\ Top.total = 0 /\ ~Top.cancelled /\ state = "FETCHING" /\ Named(Top) /\ progress = -1
        BY <2>1, <4>1 DEF Sound, Downloading
      <4>5. Alive(f)'
        BY <3>2, <4>1, <4>3, <4>4 DEF Alive, Written, TypeOK
      <4>6. Reported(f)'
        <5>1. f.msg.fw \in Firmware
          BY <2>2, <4>3, MessageFacts
        <5>2. Size[f.msg.fw] \in Nat /\ fetched' \in Nat /\ progress' = -1
          BY <4>1, <4>4, <5>1, SizeAssumption DEF TypeOK
        <5> QED
          BY <5>2 DEF Reported
      <4>7. Sound(f)'
        BY <4>1, <4>3, <4>4, <4>5, <4>6 DEF Sound, Named
      <4> QED
        BY <2>1, <4>3, <4>7, InnerGoto
    <3> QED
      BY <2>11, <3>1, <3>2 DEF HAL_Download_Init
  <2>12. CASE FetchRefused \/ FetchNothing \/ RejectImage
    <3>1. \E b \in BOOLEAN : Leave(b)
      BY <2>12, Zenon DEF FetchRefused, FetchNothing, RejectImage
    <3> QED
      BY <2>3, <3>1
  <2>13. CASE Reconnect \/ FetchFailed
    <3>1. /\ CanTry /\ NextTry /\ state' \in {"FETCHING", "FETCHED"}
          /\ UNCHANGED <<par, fetched, md5, flash, progress, odd>>
      BY <2>13 DEF Reconnect, FetchFailed, device
    <3>2. CASE Leave(FALSE)
      BY <2>3, <3>2
    <3>3. CASE Top.tries + 1 # MaxTries /\ Goto([Top EXCEPT !.tries = @ + 1])
      <4>1. Top.pc = "fetch" /\ Alive(Top) /\ Named(Top) /\ Reported(Top)
        BY <3>1, TrySound
      <4>2. PICK f \in Frame : f = [Top EXCEPT !.tries = @ + 1]
        BY <2>2, <3>3
      <4>3. /\ f.pc = "fetch" /\ Goto(f) /\ f.msg = Top.msg /\ f.total = Top.total
            /\ f.cancelled = Top.cancelled
        BY <2>1, <3>3, <4>1, <4>2 DEF Frame
      <4>4. Sound(f)'
        BY <3>1, <4>1, <4>3 DEF Sound, Alive, Written, Named, Reported
      <4> QED
        BY <2>1, <4>3, <4>4, InnerGoto
    <3> QED
      BY <3>1, <3>2, <3>3 DEF NextTry
  <2>31. CASE FetchMute
    <3>1. PICK f \in Frame : f = [Top EXCEPT !.pc = "mute"]
      BY <2>2
    <3>2. f.pc = "mute" /\ Goto(f)
      BY <2>1, <2>31, <3>1 DEF Frame, FetchMute
    <3>3. Sound(f)'
      BY <3>2 DEF Sound
    <3> QED
      BY <2>1, <3>2, <3>3, InnerGoto
  <2>32. CASE FetchOverrun
    <3>1. /\ Goto(Top) /\ Top.pc = "fetch" /\ Sound(Top)
          /\ UNCHANGED <<state, par, fetched, md5, flash, progress>> /\ odd \subseteq odd'
      BY <2>1, <2>32, StayFacts DEF FetchOverrun, CanTry, At, handle, device, Downloading
    <3>2. PICK f \in Frame : f = Top
      BY <2>1
    <3>3. Goto(f) /\ f.pc = "fetch" /\ Sound(f)'
      BY <3>1, <3>2 DEF Sound, Over, Alive, Written, Named, Reported
    <3> QED
      BY <2>1, <3>3, InnerGoto
  <2>14. CASE FetchData
    BY <2>1, <2>3, <2>14, FetchDataFacts, InnerGoto
  <2>15. CASE YieldDone
    <3>1. Top.pc = "yield" /\ UNCHANGED <<state, par, fetched, md5, flash, progress, odd>>
      BY <2>15 DEF YieldDone, At, handle, device
    <3>2. PICK f \in Frame : f = [Top EXCEPT !.pc = IF IOT_OTA_IsFetchFinish THEN "check" ELSE "fetch"]
      BY <2>2
    <3>3. /\ f.pc = (IF state = "FETCHED" THEN "check" ELSE "fetch") /\ Goto(f)
          /\ f.msg = Top.msg /\ f.total = Top.total
          /\ f.tries = Top.tries /\ f.cancelled = Top.cancelled
      BY <2>1, <2>15, <3>2 DEF Frame, YieldDone, IOT_OTA_IsFetchFinish
    <3>4. Sound(f)'
      BY <2>1, <3>1, <3>3 DEF Sound, Downloading, Over, Alive, Written, Named, Reported
    <3>5. f.pc # "callback"
      BY <3>3
    <3> QED
      BY <2>1, <3>3, <3>4, <3>5, InnerGoto
  <2>16. CASE BootImage
    BY <2>16 DEF BootImage, DownloadInv
  <2>17. CASE IOT_OTA_Clear
    <3>1. PICK f \in Frame : f = [Top EXCEPT !.pc = "pop"]
      BY <2>2
    <3>2. f.pc = "pop" /\ Goto(f) /\ state' \in {"INITED", "DISCONNECTED"}
      BY <2>1, <2>17, <3>1 DEF Frame, IOT_OTA_Clear
    <3>3. Sound(f)'
      BY <3>2 DEF Sound
    <3> QED
      BY <2>1, <3>2, <3>3, InnerGoto
  <2>18. CASE _ota_pop_upload_msg
    <3>1. Top.pc = "pop" /\ state' = state /\ state \in {"INITED", "DISCONNECTED"}
      BY <2>1, <2>18 DEF _ota_pop_upload_msg, At, Sound, Downloading
    <3>2. CASE queue = <<>>
      BY <2>6, <2>18, <3>1, <3>2 DEF _ota_pop_upload_msg
    <3>3. CASE queue # <<>>
      <4>1. Head(queue) \in Message /\ Goto(NewFrame(Head(queue)))
        BY <2>18, <3>3 DEF _ota_pop_upload_msg, TypeOK
      <4>2. ASSUME NEW i \in 1..(Len(stack) - 1)
            PROVE  Sound(stack[i])'
        <5>1. stack'[i] = stack[i]
          BY <2>1, <4>1, GotoFacts, NewFrameFacts
        <5>2. stack[i].pc = "yield" /\ stack[i].tries = 0
          BY <2>1 DEF StackInv
        <5> QED
          BY <3>1, <5>1, <5>2, OverSound
      <4> QED
        BY <2>1, <4>1, <4>2, InnerCallback
    <3> QED
      BY <3>2, <3>3
  <2> QED
    BY <1>3, <2>7, <2>8, <2>9, <2>10, <2>11, <2>12, <2>13, <2>14, <2>15, <2>16, <2>17, <2>18,
       <2>31, <2>32
       DEF Client
<1>4. CASE UNCHANGED vars
  BY <1>4
     DEF vars, DownloadInv, Innermost, Downloading, Sound, Over, Alive, Written, Named, Reported
<1> QED
  BY <1>1, <1>2, <1>3, <1>4 DEF Next

\* The image that passes the check is the announced one: its last block was
\* fetched for the update of this download, so the digest is that update's, and
\* nothing was fed to the digest but what is in the partition.
LEMMA CheckedImage ==
    ASSUME TypeOK, NEW d \in Frame, Alive(d), d.total = Size[d.msg.fw], Valid
    PROVE  [i \in 1..d.total |-> flash[i - 1]] = Image(d.msg.fw)
<1> DEFINE fw == d.msg.fw
           g == par.md5
           n == d.total
<1>1. fw \in Firmware /\ n \in Nat \ {0} /\ n <= PartSize /\ n = Size[fw] /\ PartSize \in Nat
  BY FrameFacts, MessageFacts, SizeAssumption
<1>2. g \in Firmware /\ md5 = Image(g) /\ Len(md5) = fetched /\ md5 \in Seq(Block) /\ fetched \in Nat
  BY DEF Valid, TypeOK
<1>3. /\ n <= fetched
      /\ \A i \in 0..(PartSize - 1) :
           i < n => flash[i] = md5[fetched - n + i + 1] /\ flash[i][1] \in {Blank, fw}
  BY DEF Alive, Written
<1>4. fetched = Size[g] /\ \A i \in 1..Size[g] : md5[i] = <<g, i - 1>>
  <2>1. Size[g] \in Nat
    BY <1>2, SizeAssumption
  <2>2. DOMAIN md5 = 1..fetched
    BY <1>2
  <2>3. DOMAIN md5 = 1..Size[g] /\ \A i \in 1..Size[g] : md5[i] = <<g, i - 1>>
    BY <1>2 DEF Image
  <2> QED
    BY <1>2, <2>1, <2>2, <2>3
<1> HIDE DEF fw, g, n
<1>5. g = fw
  <2>1. n - 1 \in 0..(PartSize - 1) /\ n - 1 < n /\ fetched - n + (n - 1) + 1 = fetched
        /\ fetched \in 1..Size[g]
    <3>1. n \in Nat \ {0} /\ n <= PartSize /\ PartSize \in Nat /\ fetched \in Nat /\ n <= fetched
          /\ Size[g] = fetched
      BY <1>1, <1>2, <1>3, <1>4
    <3> QED
      BY <3>1
  <2>2. flash[n - 1] = <<g, fetched - 1>> /\ flash[n - 1][1] \in {Blank, fw}
    BY <1>3, <1>4, <2>1
  <2>3. g \in {Blank, fw}
    BY <2>2
  <2> QED
    BY <1>2, <2>3, SizeAssumption
<1>6. ASSUME NEW i \in 1..n
      PROVE  flash[i - 1] = <<fw, i - 1>>
  <2>1. i - 1 \in 0..(PartSize - 1) /\ i - 1 < n /\ fetched - n + (i - 1) + 1 = i /\ i \in 1..Size[g]
    BY <1>1, <1>2, <1>4, <1>5
  <2>2. flash[i - 1] = md5[i]
    BY <1>3, <2>1
  <2> QED
    BY <1>4, <1>5, <2>1, <2>2
<1>7. [i \in 1..n |-> flash[i - 1]] = [i \in 1..n |-> <<fw, i - 1>>]
  BY <1>6
<1> QED
  BY <1>1, <1>7 DEF Image, fw, n

\* boot is written by BootImage, when no step is left.
LEMMA BootNext ==
    ASSUME TypeOK, StackInv, DownloadInv, BootInv, [Next]_vars
    PROVE  BootInv'
<1>1. CASE BootImage
  <2>1. stack # <<>> /\ Top.pc = "check" /\ Top.total = Size[Top.msg.fw] /\ Valid
        /\ boot' = [fw |-> Top.msg.fw, image |-> [i \in 1..Top.total |-> flash[i - 1]],
                    told |-> IOT_OTA_ReportSuccess, cancelled |-> Top.cancelled]
        /\ life' = "booted" /\ odd' = odd
    BY <1>1 DEF BootImage, At
  <2>2. Top \in Frame /\ Alive(Top) /\ ("malformed" \notin odd => Named(Top))
    BY <2>1, BelowFacts, TopSound DEF Sound, Downloading
  <2>3. boot'.image = Image(boot'.fw)
    BY <2>1, <2>2, CheckedImage
  <2>4. ~boot'.cancelled
    BY <2>1, <2>2 DEF Alive
  <2>5. "malformed" \notin odd => boot'.told = boot'.fw
    <3>1. Top.msg.fw \in Firmware
      BY <2>2, FrameFacts, MessageFacts
    <3>2. "malformed" \notin odd => par.version = Top.msg.fw
      BY <2>2 DEF Named, Field
    <3> QED
      BY <2>1, <3>1, <3>2, SizeAssumption
         DEF IOT_OTA_ReportSuccess, send_upstream_msg_with_version
  <2> QED
    BY <2>1, <2>3, <2>4, <2>5
       DEF BootInv, BootsRight, BootsIntact, CancelledNeverBoots, SuccessNamesImage
<1>2. CASE UNCHANGED vars
  BY <1>2 DEF vars, BootInv, BootsRight, BootsIntact, CancelledNeverBoots, SuccessNamesImage
<1>3. CASE ~BootImage /\ ~UNCHANGED vars
  <2>1. boot' = boot
    BY <1>3 DEF Next, Client, IOT_OTA_Init, IOT_OTA_Destroy, PowerLoss, _ota_mqtt_upgrade_cb,
           IgnoreMessage, CancelUpdate, _ota_push_upload_msg, RejectUpdate, BeginDownload,
           HAL_Download_Init, FetchRefused, Reconnect, FetchFailed,
           FetchMute, FetchOverrun, FetchNothing, FetchData,
           YieldDone, RejectImage, IOT_OTA_Clear, _ota_pop_upload_msg, device
  <2>2. life # "booted"
    <3>1. CASE Client
      BY <3>1, ClientShape DEF StackInv
    <3>2. CASE ~Client
      BY <1>3, <3>2 DEF Next, IOT_OTA_Init, IOT_OTA_Destroy, PowerLoss, _ota_mqtt_upgrade_cb
    <3> QED
      BY <3>1, <3>2
  <2>3. boot = NoBoot
    BY <2>2 DEF BootInv
  <2> QED
    BY <2>1, <2>3
       DEF BootInv, BootsRight, BootsIntact, CancelledNeverBoots, SuccessNamesImage, NoBoot
<1> QED
  BY <1>1, <1>2, <1>3

-----------------------------------------------------------------------------
(* The theorems *)

\* A handle that does not exist yet satisfies all parts.
LEMMA InvInit == Init => IInv
<1> SUFFICES ASSUME Init
             PROVE  IInv
  OBVIOUS
<1>1. TypeOK
  BY TypeInit
<1>2. stack = <<>> /\ queue = <<>> /\ boot = NoBoot /\ uaf = FALSE /\ odd = {}
      /\ life = "none" /\ state = "INITED" /\ ch = "null"
  BY DEF Init
<1>3. StackInv /\ DownloadInv
  BY <1>2 DEF StackInv, DownloadInv
<1>4. BootInv
  BY <1>2 DEF BootInv, BootsRight, BootsIntact, CancelledNeverBoots, SuccessNamesImage, NoBoot
<1>5. QueueInv
  BY <1>2 DEF QueueInv
<1>6. FetchInv
  BY <1>2 DEF FetchInv
<1> QED
  BY <1>1, <1>3, <1>4, <1>5, <1>6 DEF IInv

\* The inductive invariant of the OTA client: what the stack, the handle, the
\* digest, the partition and msg_list say of each other.
THEOREM OtaInvariant == Spec => []IInv
<1>1. Init => IInv
  BY InvInit
<1>2. IInv /\ [Next]_vars => IInv'
  BY TypeNext, StackNext, DownloadNext, BootNext, QueueNext, FetchNext DEF IInv
<1> QED
  BY <1>1, <1>2, PTL DEF Spec

\* The variables keep their types: in particular the writes of
\* IOT_OTA_fw_download stay inside the partition, its tries below MaxTries, and
\* the digest is fed exactly size_fetched blocks.
THEOREM TypeCorrect == Spec => []TypeOK
<1>1. IInv => TypeOK
  BY DEF IInv
<1> QED
  BY <1>1, OtaInvariant, PTL

\* The device resets only into the complete firmware the update message of
\* that download announced, never after a cancellation, and reports it by its
\* own version: for any firmwares and sizes, whatever the servers send, and
\* however messages are repeated, malformed, queued or nested.
THEOREM BootsRightHolds == Spec => []BootsRight
<1>1. IInv => BootsRight
  BY DEF IInv, BootInv
<1> QED
  BY <1>1, OtaInvariant, PTL

\* No update is left in msg_list once _ota_callback has returned, unless one
\* was malformed.
THEOREM IdleQueueEmptyHolds == Spec => []IdleQueueEmpty
<1>1. IInv => IdleQueueEmpty
  BY DEF IInv, QueueInv, IdleQueueEmpty
<1> QED
  BY <1>1, OtaInvariant, PTL

\* The dangling ch_fetch is followed only after a malformed update, a download
\* inside another one, or IOT_OTA_Destroy.
THEOREM NoUseAfterFreeHolds == Spec => []NoUseAfterFree
<1>1. IInv => NoUseAfterFree
  BY DEF IInv, FetchInv, NoUseAfterFree
<1> QED
  BY <1>1, OtaInvariant, PTL

\* The percentage reported for a download never goes back, across retries,
\* reconnections and other downloads inside it.
THEOREM ProgressMonotoneHolds == Spec => ProgressMonotone
<1>1. ASSUME TypeOK, StackInv, DownloadInv, [Next]_vars
      PROVE  progress' >= progress \/ progress' = -1
  <2>0. progress \in Int /\ fetched \in Nat
    BY <1>1 DEF TypeOK
  <2>1. CASE FetchData
    BY <1>1, <2>1, FetchDataFacts
  <2>2. CASE FetchNothing
    <3>1. Top \in Frame /\ Reported(Top)
      BY <1>1, <2>2, TrySound DEF FetchNothing
    <3>2. Size[Top.msg.fw] \in Nat \ {0}
      BY <3>1, FrameFacts, MessageFacts, SizeAssumption
    <3>3. fetched = 0 => progress <= 0
      BY <2>0, <3>1, <3>2 DEF Reported
    <3> QED
      BY <2>0, <2>2, <3>3 DEF FetchNothing
  <2>3. CASE ~FetchData /\ ~FetchNothing
    <3>1. progress' = progress \/ progress' = -1
      BY <1>1, <2>3
         DEF Next, Client, IOT_OTA_Init, IOT_OTA_Destroy, PowerLoss, _ota_mqtt_upgrade_cb,
             IgnoreMessage, CancelUpdate, _ota_push_upload_msg, RejectUpdate, BeginDownload,
             HAL_Download_Init, FetchRefused, Reconnect, FetchFailed, FetchMute, FetchOverrun,
             YieldDone, RejectImage, BootImage, IOT_OTA_Clear, _ota_pop_upload_msg, vars
    <3> QED
      BY <2>0, <3>1
  <2> QED
    BY <2>1, <2>2, <2>3
<1>2. IInv /\ [Next]_vars => [progress' >= progress \/ progress' = -1]_vars
  BY <1>1 DEF IInv
<1> QED
  BY <1>2, OtaInvariant, PTL DEF Spec, ProgressMonotone
=============================================================================
