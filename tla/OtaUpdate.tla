----------------------------- MODULE OtaUpdate -----------------------------
(***************************************************************************)
(* The OTA client (uiot/ota).  A message on the OTA topic runs             *)
(* _ota_callback inside IOT_MQTT_Yield; an update message starts a         *)
(* download there, and the download itself calls IOT_MQTT_Yield after      *)
(* every block, so that callbacks nest.  There is one thread: `stack'      *)
(* holds the callbacks under way, the innermost last.                      *)
(*                                                                         *)
(* Data is abstracted to blocks: a firmware f is the blocks <<f, 0>>,      *)
(* <<f, 1>>, ...; a server may also answer with a body that is not the     *)
(* firmware (the status code is not looked at), which is `Junk'.  The      *)
(* digest is the sequence of blocks it was fed.  Allocations succeed.      *)
(***************************************************************************)
EXTENDS Integers, Sequences

CONSTANTS
    Firmware,      \* firmwares the server may announce: module and version, url, md5
    Size,          \* Size[f]: blocks of f, the announced file size
    Missing,       \* which field an update message may lack (1..5), 6 when none
    BadUrl,        \* firmwares announced with a url that _utils_parse_url refuses
    PartSize,      \* blocks of the download partition
    MaxTries,      \* tries of IOT_OTA_FetchYield (5)
    Tls,           \* PKG_USING_UCLOUD_TLS
    MaxDeliver,    \* bound: messages delivered
    MaxCrash       \* bound: power losses

None  == "none"      \* a NULL pointer
Blank == ""          \* an emptied string, a zero size

ASSUME SizeAssumption ==
    /\ Firmware \cap {None, Blank} = {}
    /\ Size \in [Firmware -> Nat \ {0}] /\ \A f \in Firmware : Size[f] <= PartSize
    /\ Missing \subseteq 1..6 /\ BadUrl \subseteq Firmware
    /\ PartSize \in Nat /\ MaxTries \in Nat \ {0} /\ Tls \in BOOLEAN

VARIABLES
    life,      \* the handle: "none", "up", "destroyed", or "booted" once the device has reset
    state,     \* h_ota->state
    par,       \* url, module, version, md5sum, size_file: whose value each one is
    fetched,   \* size_fetched, in blocks
    md5,       \* the blocks fed to the digest
    ch,        \* ch_fetch: "null", "live", or "freed" (a dangling pointer)
    link,      \* its net.handle: "shut" (0), "dead" (-1), "up"
    queue,     \* msg_list: update messages received while FETCHING
    stack,     \* the callbacks under way
    flash,     \* the download partition
    progress,  \* the last percentage reported for the current download, -1 before
    boot,      \* what the device was reset into, and the download that did it
    uaf,       \* memory has been misused: a freed (or NULL) pointer, a buffer's end
    odd,       \* history: what happened that the code does not provide for
    delivered, crashes

vars == <<life, state, par, fetched, md5, ch, link, queue, stack, flash,
          progress, boot, uaf, odd, delivered, crashes>>

handle == <<par, fetched, md5, ch, link>>
device == <<life, flash, boot, delivered, crashes>>

Junk   == <<Blank, 0>>
Erased == <<None, 0>>

Field == [module |-> 1, version |-> 2, url |-> 3, md5 |-> 4, size |-> 5]

Message ==
    [type : {"update"}, fw : Firmware, lacks : Missing]
        \cup [type : {"cancel"}, fw : Firmware, lacks : {2, 6}]
        \cup [type : {"other"}, fw : Firmware, lacks : {6}]

Block == (Firmware \X (0..PartSize)) \cup {Junk}
Image(f) == [i \in 1..Size[f] |-> <<f, i - 1>>]

Frame == [pc : {"callback", "init", "fetch", "yield", "check", "exit", "pop", "mute"},
          msg : Message, total : 0..PartSize, tries : 0..(MaxTries - 1),
          ok : BOOLEAN, cancelled : BOOLEAN]
NewFrame(m) == [pc |-> "callback", msg |-> m, total |-> 0, tries |-> 0,
                ok |-> TRUE, cancelled |-> FALSE]

\* After a misuse of memory anything may happen: nothing is said of it.
Top    == stack[Len(stack)]
Below  == SubSeq(stack, 1, Len(stack) - 1)
At(pc) == ~uaf /\ stack # <<>> /\ Top.pc = pc
Goto(frame) == stack' = Append(Below, frame)
Downloading(frame) == frame.pc # "callback"
SizeFile == IF par.size \in Firmware THEN Size[par.size] ELSE 0

NoBoot == [fw |-> None, image |-> <<>>, told |-> None, cancelled |-> FALSE]

Init ==
    /\ life = "none" /\ state = "INITED"
    /\ par = [x \in DOMAIN Field |-> None]
    /\ fetched = 0 /\ md5 = <<>> /\ ch = "null" /\ link = "shut"
    /\ queue = <<>> /\ stack = <<>>
    /\ flash = [i \in 0..(PartSize - 1) |-> Erased]
    /\ progress = -1 /\ boot = NoBoot /\ uaf = FALSE /\ odd = {}
    /\ delivered = 0 /\ crashes = 0

-----------------------------------------------------------------------------
(* The life of the handle                                                  *)

\* osc_init subscribes to the OTA topic; when that fails the handle is freed.
osc_init == {"none", "up"}

IOT_OTA_Init ==
    /\ life = "none" /\ life' \in osc_init
    /\ UNCHANGED <<state, par, fetched, md5, ch, link, queue, stack, flash,
                   progress, boot, uaf, odd, delivered, crashes>>

\* osc_deinit: the messages of msg_list go with it, the subscription does not.
osc_deinit == queue' = <<>>

\* ofc_deinit closes what is behind ch_fetch and frees it, whatever ch_fetch is.
ofc_deinit == ch' = "freed" /\ uaf' = (uaf \/ ch # "live")

\* IOT_OTA_Destroy.  ofc_deinit is given ch_fetch as it is: NULL when nothing
\* was ever downloaded, dangling after IOT_OTA_Clear.  The OTA topic stays
\* subscribed.
IOT_OTA_Destroy ==
    /\ life = "up" /\ stack = <<>> /\ ~uaf
    /\ life' = "destroyed" /\ ofc_deinit /\ osc_deinit
    /\ odd' = odd \cup {"destroyed"}
    /\ UNCHANGED <<state, par, fetched, md5, link, stack, flash, progress, boot,
                   delivered, crashes>>

\* The MQTT layer delivers a message, at QoS 1, so perhaps again: while the
\* application yields, or while a download does.
Yielding == ~uaf /\ (stack = <<>> \/ At("yield"))

_ota_mqtt_upgrade_cb(m) ==
    /\ life \in {"up", "destroyed"} /\ Yielding /\ delivered < MaxDeliver
    /\ delivered' = delivered + 1
    /\ IF life = "destroyed"
         THEN uaf' = TRUE /\ UNCHANGED stack
         ELSE stack' = Append(stack, NewFrame(m)) /\ UNCHANGED uaf
    /\ UNCHANGED <<life, state, par, fetched, md5, ch, link, queue, flash,
                   progress, boot, odd, crashes>>

-----------------------------------------------------------------------------
(* _ota_callback                                                           *)

\* A type that is not known, or a cancellation before any download.
IgnoreMessage ==
    /\ At("callback")
    /\ Top.msg.type = "other" \/ (Top.msg.type = "cancel" /\ ch = "null")
    /\ stack' = Below
    /\ UNCHANGED <<state, handle, device, queue, progress, uaf, odd>>

\* A cancellation that names the module and version of the handle closes the
\* http connection behind ch_fetch; any other one has no effect.
Matches(m) == m.lacks = 6 /\ par.module = m.fw /\ par.version = m.fw

Cancelled(frames) ==
    [i \in DOMAIN frames |->
        [frames[i] EXCEPT !.cancelled = @ \/ (i = Len(frames) /\ Downloading(frames[i]))]]

\* Mutant: the connection is closed and the state left as it is.
CancelUpdateMutant ==
    /\ At("callback") /\ Top.msg.type = "cancel" /\ ch # "null"
    /\ IF Matches(Top.msg)
         THEN link' = "shut" /\ uaf' = (uaf \/ ch = "freed") /\ stack' = Cancelled(Below)
         ELSE stack' = Below /\ UNCHANGED <<link, uaf>>
    /\ UNCHANGED <<state, par, fetched, md5, ch, device, queue, progress, odd>>

CancelUpdate ==
    /\ At("callback") /\ Top.msg.type = "cancel" /\ ch # "null"
    /\ IF Matches(Top.msg)
         THEN /\ link' = "shut" /\ state' = "DISCONNECTED" /\ uaf' = (uaf \/ ch = "freed")
              /\ stack' = Cancelled(Below)
         ELSE stack' = Below /\ UNCHANGED <<link, state, uaf>>
    /\ UNCHANGED <<par, fetched, md5, ch, device, queue, progress, odd>>

\* An update while a file is being fetched waits in msg_list.
_ota_push_upload_msg ==
    /\ At("callback") /\ Top.msg.type = "update" /\ state = "FETCHING"
    /\ queue' = Append(queue, Top.msg) /\ stack' = Below
    /\ UNCHANGED <<state, handle, device, progress, uaf, odd>>

\* Mutant: a version string that is there is kept.
GetParamsMutant(m) ==
    [x \in DOMAIN Field |-> IF Field[x] < m.lacks /\ ~(x = "version" /\ par[x] # None)
                              THEN m.fw ELSE par[x]]

\* ota_lib_get_params replaces the fields one by one and gives up at the
\* first one that is missing.
ota_lib_get_params(m) ==
    [x \in DOMAIN Field |-> IF Field[x] < m.lacks THEN m.fw ELSE par[x]]

RejectUpdate ==
    /\ At("callback") /\ Top.msg.type = "update" /\ state # "FETCHING" /\ Top.msg.lacks < 6
    /\ par' = ota_lib_get_params(Top.msg)
    /\ stack' = Below /\ odd' = odd \cup {"malformed"}
    /\ UNCHANGED <<state, fetched, md5, ch, link, device, queue, progress, uaf>>

\* What net.handle is after _http_connect, which reports success even when
\* all its tries failed.
ofc_connect(f) == IF f \in BadUrl THEN {"shut"} ELSE {"up", IF Tls THEN "shut" ELSE "dead"}

\* Nothing here resets size_fetched or the digest: the previous download did.
BeginDownload ==
    /\ At("callback") /\ Top.msg.type = "update" /\ state # "FETCHING" /\ Top.msg.lacks = 6
    /\ par' = ota_lib_get_params(Top.msg) /\ ch' = "live"
    /\ link' \in ofc_connect(Top.msg.fw)
    /\ IF Top.msg.fw \in BadUrl
         THEN /\ state' = "DISCONNECTED" /\ stack' = Below /\ odd' = odd \cup {"malformed"}
              /\ UNCHANGED progress
         ELSE /\ state' = "FETCHING" /\ Goto([Top EXCEPT !.pc = "init"]) /\ progress' = -1
              /\ odd' = IF Below # <<>> THEN odd \cup {"nested"} ELSE odd
    /\ UNCHANGED <<fetched, md5, device, queue, uaf>>

-----------------------------------------------------------------------------
(* IOT_OTA_fw_download                                                     *)

Leave(ok) == Goto([Top EXCEPT !.pc = "exit", !.ok = ok])

\* HAL_Download_Init erases the partition, or fails.
HAL_Download_Init ==
    /\ At("init")
    /\ \/ /\ flash' = [i \in DOMAIN flash |-> Erased] /\ Goto([Top EXCEPT !.pc = "fetch"])
       \/ UNCHANGED flash /\ Leave(FALSE)
    /\ UNCHANGED <<life, boot, delivered, crashes, state, handle, queue, progress, uaf, odd>>

\* IOT_OTA_FetchYield is entered in another state than FETCHING: the download
\* was cancelled.
FetchRefused ==
    /\ At("fetch") /\ Top.tries = 0 /\ state # "FETCHING"
    /\ Leave(FALSE)
    /\ UNCHANGED <<state, handle, device, queue, progress, uaf, odd>>

CanTry == At("fetch") /\ (Top.tries > 0 \/ state = "FETCHING")
NextTry == IF Top.tries + 1 = MaxTries THEN Leave(FALSE) ELSE Goto([Top EXCEPT !.tries = @ + 1])

\* How a try of ofc_fetch may end, by the connection it finds.  A header may be
\* too long for the buffer on the stack; and inside a header the time-outs of a
\* TCP connection are ignored (a TLS connection's end the call), so that a silent
\* server keeps the call for ever: `mute'.
ofc_fetch ==
    [up |-> {"conn_error", "error", "empty", "body", "overrun"}
                \cup (IF Tls THEN {} ELSE {"mute"}),
     dead |-> {"conn_error"}, shut |-> {"error"}]

\* Mutants: a reconnection is not counted; it starts the file from its beginning.
ReconnectUncounted ==
    /\ CanTry /\ "conn_error" \in ofc_fetch[link]
    /\ link' \in ofc_connect(par.url) /\ state' = "FETCHING"
    /\ UNCHANGED <<par, fetched, md5, ch, device, queue, progress, uaf, odd, stack>>

ReconnectFromStart ==
    /\ CanTry /\ "conn_error" \in ofc_fetch[link]
    /\ link' \in ofc_connect(par.url) /\ state' = "FETCHING" /\ NextTry
    /\ fetched' = 0 /\ md5' = <<>>
    /\ UNCHANGED <<par, ch, device, queue, progress, uaf, odd>>

\* The connection broke (ERR_HTTP_CONN_ERROR): connect anew and try again.
Reconnect ==
    /\ CanTry /\ "conn_error" \in ofc_fetch[link]
    /\ link' \in ofc_connect(par.url) /\ state' = "FETCHING" /\ NextTry
    /\ UNCHANGED <<par, fetched, md5, ch, device, queue, progress, uaf, odd>>

\* Any other error closes the connection, and the tries left fail at once.
FetchFailed ==
    /\ CanTry /\ "error" \in ofc_fetch[link]
    /\ link' = "shut" /\ state' = "FETCHED" /\ NextTry
    /\ UNCHANGED <<par, fetched, md5, ch, device, queue, progress, uaf, odd>>

\* An answer without a body.
FetchNothing ==
    /\ CanTry /\ "empty" \in ofc_fetch[link]
    /\ progress' = IF fetched = 0 THEN 0 ELSE progress
    /\ Leave(FALSE)
    /\ UNCHANGED <<state, handle, device, queue, uaf, odd>>

\* The try never ends.
FetchMute ==
    /\ CanTry /\ "mute" \in ofc_fetch[link]
    /\ Goto([Top EXCEPT !.pc = "mute"])
    /\ UNCHANGED <<state, handle, device, queue, progress, uaf, odd>>

\* The header is written past the end of its buffer.
FetchOverrun ==
    /\ CanTry /\ "overrun" \in ofc_fetch[link]
    /\ uaf' = TRUE /\ odd' = odd \cup {"overrun"}
    /\ UNCHANGED <<state, handle, device, queue, stack, progress>>

\* A body: the block asked for, or something else, perhaps longer.
Bodies == {<<Junk>>, <<Junk, Junk>>}
            \cup {<<<<f, fetched>>>> : f \in {g \in Firmware : g = par.url /\ fetched < Size[g]}}

Percent(n) == (n * 100) \div SizeFile

\* IOT_OTA_ReportProgress refuses anything but a percentage.
IOT_OTA_ReportProgress(p) == {p} \cap (0..100)

ota_lib_md5_update(data) == md5 \o data

\* Flash that is not erased is garbled by a write.
HAL_Download_Write(offset, data) ==
    [i \in DOMAIN flash |-> IF i \in offset..(offset + Len(data) - 1)
                              THEN IF flash[i] = Erased THEN data[i - offset + 1] ELSE Junk
                              ELSE flash[i]]

\* The rest of IOT_OTA_FetchYield and HAL_Download_Write.  The percentage is
\* reported at 0, at 100 and whenever report_timer has expired.
FetchData ==
    /\ CanTry /\ "body" \in ofc_fetch[link]
    /\ \E data \in Bodies :
         LET now == fetched + Len(data) IN
         /\ fetched' = now /\ md5' = ota_lib_md5_update(data)
         /\ progress' \in {IF fetched = 0 THEN 0 ELSE progress}
                            \cup IOT_OTA_ReportProgress(Percent(now))
         /\ Percent(now) = 100 => progress' = 100
         /\ state' = IF now >= SizeFile THEN "FETCHED" ELSE state
         /\ \/ /\ Top.total + Len(data) <= PartSize
               /\ flash' = HAL_Download_Write(Top.total, data)
               /\ Goto([Top EXCEPT !.pc = "yield", !.tries = 0, !.total = @ + Len(data)])
            \/ UNCHANGED flash /\ Leave(FALSE)
    /\ UNCHANGED <<life, boot, delivered, crashes, par, ch, link, queue, uaf, odd>>

IOT_OTA_IsFetchFinish == state = "FETCHED"

\* IOT_OTA_Yield returns: go round the loop until IOT_OTA_IsFetchFinish.
YieldDone ==
    /\ At("yield")
    /\ Goto([Top EXCEPT !.pc = IF IOT_OTA_IsFetchFinish THEN "check" ELSE "fetch"])
    /\ UNCHANGED <<state, handle, device, queue, progress, uaf, odd>>

\* Mutant: only the length of what was downloaded is compared.
ValidMutant == par.md5 \in Firmware /\ Len(md5) = Size[par.md5]

\* OTA_IOCTL_CHECK_FIRMWARE; an image of another length is dropped unchecked.
Valid == par.md5 \in Firmware /\ md5 = Image(par.md5)

RejectImage ==
    /\ At("check") /\ (Top.total # Size[Top.msg.fw] \/ ~Valid)
    /\ Leave(Top.total # Size[Top.msg.fw])
    /\ UNCHANGED <<state, handle, device, queue, progress, uaf, odd>>

\* A report names a version of at least one character, or is not sent.
send_upstream_msg_with_version(v) == IF v \in {None, Blank} THEN None ELSE v
IOT_OTA_ReportSuccess == send_upstream_msg_with_version(par.version)

\* The success is reported and HAL_Download_End resets the device.
BootImage ==
    /\ At("check") /\ Top.total = Size[Top.msg.fw] /\ Valid
    /\ boot' = [fw |-> Top.msg.fw, image |-> [i \in 1..Top.total |-> flash[i - 1]],
                told |-> IOT_OTA_ReportSuccess, cancelled |-> Top.cancelled]
    /\ life' = "booted" /\ stack' = <<>>
    /\ UNCHANGED <<state, handle, queue, flash, progress, uaf, odd, delivered, crashes>>

\* Mutants: the digest goes on; the strings of the finished download stay.
ClearKeepsDigest ==
    /\ At("exit")
    /\ ofc_deinit /\ link' = "shut"
    /\ par' = [x \in DOMAIN Field |-> Blank] /\ fetched' = 0
    /\ state' = IF Top.ok THEN "INITED" ELSE "DISCONNECTED"
    /\ Goto([Top EXCEPT !.pc = "pop"])
    /\ UNCHANGED <<md5, device, queue, progress, odd>>

ClearKeepsNames ==
    /\ At("exit")
    /\ ofc_deinit /\ link' = "shut"
    /\ fetched' = 0 /\ md5' = <<>>
    /\ state' = IF Top.ok THEN "INITED" ELSE "DISCONNECTED"
    /\ Goto([Top EXCEPT !.pc = "pop"])
    /\ UNCHANGED <<par, device, queue, progress, odd>>

\* IOT_OTA_Clear: ch_fetch is freed and not set to NULL.
IOT_OTA_Clear ==
    /\ At("exit")
    /\ ofc_deinit /\ link' = "shut"
    /\ par' = [x \in DOMAIN Field |-> Blank] /\ fetched' = 0 /\ md5' = <<>>
    /\ state' = IF Top.ok THEN "INITED" ELSE "DISCONNECTED"
    /\ Goto([Top EXCEPT !.pc = "pop"])
    /\ UNCHANGED <<device, queue, progress, odd>>

\* Mutant: msg_list is looked at after a successful download only.
PopMutant ==
    /\ At("pop")
    /\ IF queue = <<>> \/ ~Top.ok
         THEN stack' = Below /\ UNCHANGED queue
         ELSE Goto(NewFrame(Head(queue))) /\ queue' = Tail(queue)
    /\ UNCHANGED <<state, handle, device, progress, uaf, odd>>

\* After a download the first message of msg_list is handled like a new one.
_ota_pop_upload_msg ==
    /\ At("pop")
    /\ IF queue = <<>> THEN stack' = Below /\ UNCHANGED queue
                       ELSE Goto(NewFrame(Head(queue))) /\ queue' = Tail(queue)
    /\ UNCHANGED <<state, handle, device, progress, uaf, odd>>

-----------------------------------------------------------------------------
\* Power is lost: memory is gone, the partition keeps what was written.
PowerLoss ==
    /\ crashes < MaxCrash /\ life = "up" /\ ~uaf
    /\ crashes' = crashes + 1 /\ life' = "none" /\ state' = "INITED"
    /\ par' = [x \in DOMAIN Field |-> None]
    /\ fetched' = 0 /\ md5' = <<>> /\ ch' = "null" /\ link' = "shut"
    /\ queue' = <<>> /\ stack' = <<>> /\ progress' = -1 /\ odd' = {}
    /\ UNCHANGED <<flash, boot, uaf, delivered>>

Client ==
    \/ IgnoreMessage \/ CancelUpdate \/ _ota_push_upload_msg \/ RejectUpdate \/ BeginDownload
    \/ HAL_Download_Init \/ FetchRefused \/ Reconnect \/ FetchFailed \/ FetchNothing \/ FetchData
    \/ FetchMute \/ FetchOverrun
    \/ YieldDone \/ RejectImage \/ BootImage \/ IOT_OTA_Clear \/ _ota_pop_upload_msg

Next ==
    \/ IOT_OTA_Init \/ IOT_OTA_Destroy \/ PowerLoss
    \/ \E m \in Message : _ota_mqtt_upgrade_cb(m)
    \/ Client

Spec == Init /\ [][Next]_vars

\* The thread inside a callback goes on running: every wait of the download
\* (connect, read, write, sleep, yield) has a time limit, but for the one for the
\* rest of a header over TCP, which is not waited out here (FetchMute).
FairSpec == Spec /\ WF_vars(Client)

-----------------------------------------------------------------------------
(* Properties                                                              *)

\* The types of the variables.
TypeOK ==
    /\ life \in {"none", "up", "destroyed", "booted"}
    /\ state \in {"INITED", "FETCHING", "FETCHED", "DISCONNECTED"}
    /\ par \in [DOMAIN Field -> Firmware \cup {None, Blank}]
    /\ fetched \in Nat /\ md5 \in Seq(Block) /\ Len(md5) = fetched
    /\ ch \in {"null", "live", "freed"} /\ link \in {"shut", "dead", "up"}
    /\ queue \in Seq(Message) /\ stack \in Seq(Frame)
    /\ flash \in [0..(PartSize - 1) -> Block \cup {Erased}]
    /\ progress \in -1..100 /\ uaf \in BOOLEAN
    /\ odd \subseteq {"destroyed", "malformed", "nested", "overrun"}

\* The device resets only into the complete firmware its update message
\* announced, whatever the server sent, whatever was cancelled, queued or
\* nested on the way, and whatever an earlier, interrupted download left in
\* the partition (IOT_OTA_fw_download, HAL_Download_Init).
BootsIntact == boot # NoBoot => boot.image = Image(boot.fw)

\* A download that was cancelled by a message naming it never boots, even
\* when the cancellation comes with the last block (_ota_callback sets
\* DISCONNECTED, IOT_OTA_IsFetchFinish is then false).
CancelledNeverBoots == ~boot.cancelled

\* The success report names the firmware that was installed, unless a
\* malformed update message overwrote the handle's version meanwhile.
SuccessNamesImage == boot # NoBoot /\ "malformed" \notin odd => boot.told = boot.fw

\* What the device resets into is the firmware its update message announced, not
\* cancelled, and the one it reports.
BootsRight == BootsIntact /\ CancelledNeverBoots /\ SuccessNamesImage

\* No update waits in msg_list while no download is under way, as long as
\* every update message was well formed (the pop at the end of _ota_callback
\* is skipped by its error exits).
IdleQueueEmpty == stack = <<>> /\ life = "up" /\ "malformed" \notin odd => queue = <<>>

\* ch_fetch is dangling after every download; the emptied module and version
\* are all that keeps a late cancellation from using it.  Freed memory is used
\* only after one of the things the code does not provide for: a download
\* inside another one, a malformed update, IOT_OTA_Destroy (and a header longer than
\* its buffer, after which nothing is said).
NoUseAfterFree == uaf => odd # {}

\* Every callback returns, whatever message is nested or queued and whatever the
\* server does, but for one thing: a server that falls silent inside a header keeps
\* the client in _ota_callback for ever (over TCP).
DownloadEnds == (stack # <<>>) ~> (stack = <<>> \/ uaf \/ At("mute"))

\* The percentage reported for one download never goes back, across retries
\* and reconnections too.
ProgressMonotone == [][progress' >= progress \/ progress' = -1]_vars

\* A download goes on to its end and never back.
DownloadProgresses == DownloadEnds /\ ProgressMonotone

\* "downloading, push update msg to list": an update received during a
\* download waits for its end (comment in _ota_callback).
OneDownload == \A i, j \in DOMAIN stack :
    Downloading(stack[i]) /\ Downloading(stack[j]) => i = j

=============================================================================
