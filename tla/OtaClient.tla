----------------------------- MODULE OtaClient ------------------------------
(***************************************************************************)
(* The over-the-air upgrade (zcl_ota.c): a client that downloads an image  *)
(* block by block, the server that reads the blocks from its console, the  *)
(* radio between them, which loses, delays and reorders, and below the     *)
(* client the two image areas (OtaFlash) and the boot loader (OtaBoot).    *)
(* Time is left out: a running timer may expire at any moment.  Left out   *)
(* are the signature (OTA_MMO_SIGN), the server's address, the poll rate   *)
(* the application changes, the timeout of a query, which only tells the   *)
(* application, and an image that is nothing but a header, which is        *)
(* downloaded but never installed (zclOTA_UpgradeComplete).                *)
(***************************************************************************)
EXTENDS OtaBoot, FiniteSets

CONSTANTS
  Offered,          \* the versions the server's console has images of
  MaxBlockRetries,  \* OTA_MAX_BLOCK_RETRIES
  MaxEndRetries,    \* OTA_MAX_END_REQ_RETRIES
  HourMinutes,      \* minutes of the hour between two upgrade end requests
  NetMax,           \* bound on the frames on their way in each direction
  MaxWaits,         \* bound on the reads the server has no memory for
  BlockBeforeReset  \* a block may come between the end of the wait and the
                    \* reset, though another download began only after it

ASSUME ClientAssumption ==
  /\ Offered \subseteq Versions
  /\ MaxBlockRetries \in Nat /\ MaxEndRetries \in Nat
  /\ HourMinutes \in Nat \ {0} /\ NetMax \in Nat /\ MaxWaits \in Nat
  /\ BlockBeforeReset \in BOOLEAN

VARIABLES
  status,        \* zclOTA_ImageUpgradeStatus
  fileOffset,    \* zclOTA_FileOffset, in blocks
  dlVersion,     \* zclOTA_DownloadedFileVersion
  blockRetry,    \* zclOTA_BlockRetry
  endRetry,      \* zclOTA_UpgradeEndRetry
  updateDelay,   \* zclOTA_UpdateDelay: minutes, for two different timers
  timers,        \* the OSAL timers running for the task
  events,        \* the events set for the task
  told,          \* the application has not yet handled a success callback
  toServer,      \* frames on their way to the server
  toClient,      \* frames on their way to the client
  waits          \* reads the server had no memory for

volatileVars == <<status, fileOffset, dlVersion, blockRetry, endRetry,
                  updateDelay, timers, events, told>>
clientVars == <<volatileVars, flashVars>>
netVars == <<toServer, toClient>>
vars == <<clientVars, netVars, waits>>

\* The order in which zclOTA_event_loop looks at the events.
EventOrder == <<"blockWait", "upgradeWait", "blockRspTo">>
Events == {EventOrder[i] : i \in 1 .. 3}
NoVersion == "none"
WaitForever == HourMinutes + 1    \* stands for OTA_UPGRADE_TIME_WAIT
Delays == {0, 1, WaitForever}     \* upgradeTime less currentTime, in minutes

Query(v) == [type |-> "query", version |-> v]
BlockReq(v, b) == [type |-> "block", version |-> v, block |-> b]
EndReq(v, ok) == [type |-> "end", version |-> v, ok |-> ok]
QueryRsp(v) == [type |-> "query", version |-> v]
Data(v, b) == [type |-> "data", version |-> v, block |-> b]
EndRsp(v, d) == [type |-> "end", version |-> v, delay |-> d]
Signal(t) == [type |-> t]         \* "notify", "wait" and "abort"

ToServer ==
  {Query(v) : v \in Versions} \cup
  {BlockReq(v, b) : v \in Versions, b \in 0 .. NBlocks} \cup
  {EndReq(v, ok) : v \in Versions, ok \in BOOLEAN}
ToClient ==
  {QueryRsp(v) : v \in Versions \cup {NoVersion}} \cup
  {Data(v, b) : v \in Versions, b \in 0 .. NBlocks} \cup
  {EndRsp(v, d) : v \in Versions, d \in Delays} \cup
  {Signal(t) : t \in {"notify", "wait", "abort"}}

\* A frame the network has no room for is lost.
With(net, m) == IF Cardinality(net) < NetMax THEN net \cup {m} ELSE net

Reset ==
  /\ status' = "normal" /\ fileOffset' = 0 /\ dlVersion' = First
  /\ blockRetry' = 0 /\ endRetry' = 0 /\ updateDelay' = 0
  /\ timers' = {} /\ events' = {} /\ told' = FALSE

Init ==
  /\ status = "normal" /\ fileOffset = 0 /\ dlVersion = First
  /\ blockRetry = 0 /\ endRetry = 0 /\ updateDelay = 0
  /\ timers = {} /\ events = {} /\ told = FALSE
  /\ FlashInit
  /\ toServer = {} /\ toClient = {}
  /\ waits = 0
-----------------------------------------------------------------------------
(***************************************************************************)
(* What the client's handlers do with timers and frames.                   *)
(***************************************************************************)

Alive == mode = "run"

\* zclOTA_CurrentFileVersion, a constant of the image that runs.
running == rc[0]

\* zclOTA_StartTimer: the whole minutes are counted in updateDelay.
StartTimer(e, minutes, running1) ==
  updateDelay' = minutes /\ timers' = running1 \cup {e}

\* sendImageBlockReq, with the frames there are without it.
SendBlockReq(v, b, running1) ==
  /\ toServer' = With(toServer, BlockReq(v, b))
  /\ timers' = running1 \cup {"blockRspTo"}

\* The client takes a frame of type t from the network.
Take(m, t) == Alive /\ m \in toClient /\ m.type = t /\ toClient' = toClient \ {m}
-----------------------------------------------------------------------------
(***************************************************************************)
(* Frames the client receives, handled by the task of the cluster library. *)
(***************************************************************************)

ProcessImageNotify(m) ==
  /\ Take(m, "notify")
  /\ toServer' = IF status = "normal" THEN With(toServer, Query(running))
                                      ELSE toServer
  /\ UNCHANGED <<clientVars, waits>>

StartDownload(v) ==
  /\ dlVersion' = v /\ fileOffset' = 0 /\ status' = "progress"
  /\ SendBlockReq(v, 0, timers)
  /\ UNCHANGED <<blockRetry, endRetry, updateDelay, events, told, flashVars>>

ProcessQueryNextImageRsp(m) ==
  /\ Take(m, "query")
  /\ IF status = "progress" \/ m.version = NoVersion
       THEN UNCHANGED <<clientVars, toServer>>
       ELSE StartDownload(m.version)
  /\ UNCHANGED waits

\* A block of another version: the timer goes on running.
RefuseImage(v) ==
  /\ status' = "normal"
  /\ toServer' = With(toServer, EndReq(v, FALSE))

ReceiveOtherVersion(m) ==
  /\ m.version # dlVersion
  /\ RefuseImage(m.version)
  /\ UNCHANGED <<fileOffset, blockRetry, timers, dl>>

\* Mutant: the offset of a block is not compared.
ExpectedVersion(m) == m.version = dlVersion

Expected(m) == m.version = dlVersion /\ m.block = fileOffset

ReceiveDuplicate(m) ==
  /\ m.version = dlVersion /\ ~Expected(m)
  /\ UNCHANGED <<status, fileOffset, blockRetry, timers, dl, toServer>>

\* What zclOTA_ProcessImageData finds wrong in the data: magic, header and
\* lengths in any block of a corrupt file, with the last block the CRC.
InvalidImage(b, img) ==
  dlVersion \in Corrupt \/ (b + 1 = NBlocks /\ ~HalOTAChkDL(img))

\* zclOTA_ProcessImageData writes the data where the client is, then looks at
\* them.
ReceiveBlock(m) ==
  LET b == fileOffset
      img == HalOTAWrite(dl, b, IF m.block = b THEN m.version ELSE "garbage")
      still == timers \ {"blockRspTo"}
  IN /\ Expected(m)
     /\ dl' = img /\ blockRetry' = 0
     /\ \/ /\ b + 1 < NBlocks
           /\ fileOffset' = b + 1 /\ status' = status
           /\ SendBlockReq(dlVersion, b + 1, still)
        \/ /\ b + 1 = NBlocks /\ HalOTAChkDL(img)
           /\ fileOffset' = b + 1 /\ status' = "complete" /\ timers' = still
           /\ toServer' = With(toServer, EndReq(dlVersion, TRUE))
        \/ /\ InvalidImage(b, img)
           /\ fileOffset' = fileOffset /\ timers' = still
           /\ RefuseImage(dlVersion)

ProcessImageBlockRsp(m) ==
  /\ Take(m, "data") /\ (told => BlockBeforeReset)
  /\ IF status = "progress"
       THEN ReceiveOtherVersion(m) \/ ReceiveDuplicate(m) \/ ReceiveBlock(m)
       ELSE UNCHANGED <<status, fileOffset, blockRetry, timers, dl, toServer>>
  /\ UNCHANGED <<dlVersion, endRetry, updateDelay, events, told,
                 loaderVars, waits>>

\* Mutant: the answer stops the timer and starts none.
ProcessWaitForDataOnly(m) ==
  /\ Take(m, "wait")
  /\ IF status = "progress"
       THEN blockRetry' = 0 /\ timers' = timers \ {"blockRspTo"}
       ELSE UNCHANGED <<blockRetry, timers>>
  /\ UNCHANGED <<status, fileOffset, dlVersion, endRetry, updateDelay, events,
                 told, flashVars, toServer, waits>>

ProcessWaitForData(m) ==
  /\ Take(m, "wait")
  /\ IF status = "progress"
       THEN /\ blockRetry' = 0
            /\ StartTimer("blockWait", 0, timers \ {"blockRspTo"})
       ELSE UNCHANGED <<blockRetry, updateDelay, timers>>
  /\ UNCHANGED <<status, fileOffset, dlVersion, endRetry, events, told,
                 flashVars, toServer, waits>>

ProcessAbort(m) ==
  /\ Take(m, "abort")
  /\ IF status = "progress"
       THEN /\ status' = "normal" /\ blockRetry' = 0
            /\ timers' = timers \ {"blockRspTo"}
       ELSE UNCHANGED <<status, blockRetry, timers>>
  /\ UNCHANGED <<fileOffset, dlVersion, endRetry, updateDelay, events, told,
                 flashVars, toServer, waits>>

Countdown(m) ==
  /\ m.delay # WaitForever /\ status \in {"complete", "wait"}
  /\ status' = "countdown"
  /\ StartTimer("upgradeWait", m.delay, timers)
  /\ UNCHANGED endRetry

WaitForUpgrade(m) ==
  /\ m.delay = WaitForever /\ status = "complete"
  /\ status' = "wait" /\ endRetry' = 0
  /\ StartTimer("upgradeWait", HourMinutes, timers)

EndRspCounts(m) ==
  /\ m.version = dlVersion
  /\ status = "complete" \/ (status = "wait" /\ m.delay # WaitForever)

ProcessUpgradeEndRsp(m) ==
  /\ Take(m, "end")
  /\ IF EndRspCounts(m)
       THEN Countdown(m) \/ WaitForUpgrade(m)
       ELSE UNCHANGED <<status, endRetry, updateDelay, timers>>
  /\ UNCHANGED <<fileOffset, dlVersion, blockRetry, events, told, flashVars,
                 toServer, waits>>

ClientHdlIncoming ==
  \E m \in toClient :
     \/ ProcessImageNotify(m) \/ ProcessQueryNextImageRsp(m)
     \/ ProcessImageBlockRsp(m) \/ ProcessWaitForData(m) \/ ProcessAbort(m)
     \/ ProcessUpgradeEndRsp(m)
-----------------------------------------------------------------------------
(***************************************************************************)
(* The client task's events.  The application's task has a higher          *)
(* priority: the task runs only when no callback is left to handle.        *)
(***************************************************************************)

TimerExpires(e) ==
  /\ Alive /\ e \in timers
  /\ timers' = timers \ {e} /\ events' = events \cup {e}
  /\ UNCHANGED <<status, fileOffset, dlVersion, blockRetry, endRetry,
                 updateDelay, told, flashVars, netVars, waits>>

\* zclOTA_event_loop handles one event of those that are set.
Handle(e) ==
  /\ Alive /\ ~told /\ e \in events
  /\ \A i, j \in 1 .. 3 : EventOrder[j] = e /\ i < j => EventOrder[i] \notin events
  /\ events' = events \ {e}

\* The minutes are counted down by restarting the timer.
NextMinute(e) ==
  /\ updateDelay > 0
  /\ StartTimer(e, updateDelay - 1, timers)
  /\ UNCHANGED <<status, endRetry, told, toServer>>

ImageBlockWaitExpired ==
  /\ updateDelay = 0
  /\ IF status = "progress"
       THEN SendBlockReq(dlVersion, fileOffset, timers)
       ELSE UNCHANGED <<timers, toServer>>
  /\ UNCHANGED <<status, endRetry, updateDelay, told>>

BlockWaitEvent ==
  /\ Handle("blockWait")
  /\ NextMinute("blockWait") \/ ImageBlockWaitExpired
  /\ UNCHANGED <<fileOffset, dlVersion, blockRetry, flashVars, toClient,
                 waits>>

\* zclOTA_UpgradeComplete(ZSuccess): without memory for the callback nobody is
\* told, and the download is forgotten.
UpgradeComplete == status' = "normal" /\ told' \in BOOLEAN

UpgradeNow ==
  /\ updateDelay = 0
  /\ status = "countdown" \/ (status = "wait" /\ endRetry = MaxEndRetries)
  /\ UpgradeComplete
  /\ endRetry' = IF status = "wait" THEN endRetry + 1 ELSE endRetry
  /\ UNCHANGED <<updateDelay, timers, toServer>>

AskAgain ==
  /\ updateDelay = 0 /\ status = "wait" /\ endRetry < MaxEndRetries
  /\ endRetry' = endRetry + 1
  /\ toServer' = With(toServer, EndReq(dlVersion, TRUE))
  /\ StartTimer("upgradeWait", HourMinutes, timers)
  /\ UNCHANGED <<status, told>>

NothingToUpgrade ==
  /\ updateDelay = 0 /\ status \notin {"countdown", "wait"}
  /\ UNCHANGED <<status, endRetry, updateDelay, timers, told, toServer>>

UpgradeWaitEvent ==
  /\ Handle("upgradeWait")
  /\ NextMinute("upgradeWait") \/ UpgradeNow \/ AskAgain \/ NothingToUpgrade
  /\ UNCHANGED <<fileOffset, dlVersion, blockRetry, flashVars, toClient,
                 waits>>

\* No block response in time.  The status is not looked at.  The counter
\* stays above the bound until a response is accepted (its wrap at 256 is
\* left out).
GiveUp ==
  /\ blockRetry >= MaxBlockRetries
  /\ blockRetry' = MaxBlockRetries + 1
  /\ toServer' = With(toServer, EndReq(dlVersion, FALSE))
  /\ status' = "normal"
  /\ UNCHANGED timers

Retry ==
  /\ blockRetry < MaxBlockRetries
  /\ blockRetry' = blockRetry + 1
  /\ SendBlockReq(dlVersion, fileOffset, timers)
  /\ UNCHANGED status

BlockRspTimeout ==
  /\ Handle("blockRspTo")
  /\ GiveUp \/ Retry
  /\ UNCHANGED <<fileOffset, dlVersion, endRetry, updateDelay, told, flashVars,
                 toClient, waits>>

\* The last event looked at, set by zclOTA_RequestNextUpdate.
QueryServer ==
  /\ Alive /\ ~told /\ events = {}
  /\ toServer' = With(toServer, Query(running))
  /\ UNCHANGED <<clientVars, toClient, waits>>

EventLoop == BlockWaitEvent \/ UpgradeWaitEvent \/ BlockRspTimeout
-----------------------------------------------------------------------------
(***************************************************************************)
(* The application.                                                        *)
(***************************************************************************)

\* The callback of a success.
\* Mutant: the running image is invalidated by any callback, such as the one
\* of a download that was given up.
ProcessOTAMsgsAny ==
  /\ HalOTAInvRC /\ (told \/ blockRetry > MaxBlockRetries)
  /\ Reset
  /\ UNCHANGED <<netVars, waits>>

ProcessOTAMsgs ==
  /\ told
  /\ HalOTAInvRC
  /\ Reset
  /\ UNCHANGED <<netVars, waits>>

\* The boot loader.  The network stands still meanwhile: its steps and the
\* boot loader's do not see each other.
BootLoader == Boot /\ UNCHANGED <<volatileVars, netVars, waits>>

PowerFail ==
  /\ FlashPowerFail /\ Reset
  /\ UNCHANGED <<netVars, waits>>
-----------------------------------------------------------------------------
(***************************************************************************)
(* The server and its console, which answers a query with any image but    *)
(* the one the client has, or with none.  The console's answer is taken    *)
(* together with the frame that asked for it.                              *)
(***************************************************************************)

Serve(m, t) == m \in toServer /\ m.type = t /\ toServer' = toServer \ {m}

SrvQueryNextImage(m) ==
  /\ Serve(m, "query")
  /\ \E v \in (Offered \ {m.version}) \cup {NoVersion} :
       toClient' = With(toClient, QueryRsp(v))
  /\ UNCHANGED <<clientVars, waits>>

\* The server keeps the version of its last query only (queryResponse), which
\* may be another client's: then it answers a request with a default response,
\* which the client ignores.  Otherwise it sends the block, or says that the
\* console has no such file, or that there is no memory for the read.
SrvImageBlock(m) ==
  /\ Serve(m, "block")
  /\ \/ /\ toClient' \in {toClient, With(toClient, Data(m.version, m.block)),
                          With(toClient, Signal("abort"))}
        /\ UNCHANGED waits
     \/ /\ waits < MaxWaits /\ waits' = waits + 1
        /\ toClient' = With(toClient, Signal("wait"))
  /\ UNCHANGED clientVars

\* currentTime + OTA_UPGRADE_DELAY, which may wrap, or be by chance the value
\* that means to wait for another response.
SrvUpgradeEnd(m) ==
  /\ Serve(m, "end")
  /\ IF m.ok THEN \E d \in Delays : toClient' = With(toClient, EndRsp(m.version, d))
             ELSE UNCHANGED toClient
  /\ UNCHANGED <<clientVars, waits>>

SendImageNotify ==
  /\ toClient' = With(toClient, Signal("notify"))
  /\ UNCHANGED <<clientVars, toServer, waits>>

Server ==
  \/ \E m \in toServer : SrvQueryNextImage(m) \/ SrvImageBlock(m) \/ SrvUpgradeEnd(m)
  \/ SendImageNotify

Lose ==
  /\ \/ \E m \in toServer : toServer' = toServer \ {m} /\ UNCHANGED toClient
     \/ \E m \in toClient : toClient' = toClient \ {m} /\ UNCHANGED toServer
  /\ UNCHANGED <<clientVars, waits>>
-----------------------------------------------------------------------------
\* What the device does of itself.
Run == EventLoop \/ (\E e \in Events : TimerExpires(e)) \/ ProcessOTAMsgs

Next ==
  \/ ClientHdlIncoming \/ Run \/ QueryServer
  \/ BootLoader \/ PowerFail
  \/ Alive /\ (Server \/ Lose)

\* The OSAL clock and run loop do not stop while there is a timer running, an
\* event set or a message waiting, and the boot loader goes on.  Nothing is
\* assumed of the radio and the server.
Fairness == WF_vars(Run) /\ WF_vars(BootLoader)

Spec == Init /\ [][Next]_vars /\ Fairness
-----------------------------------------------------------------------------
TypeOK ==
  /\ status \in {"normal", "progress", "complete", "wait", "countdown"}
  /\ fileOffset \in 0 .. NBlocks /\ dlVersion \in Versions
  /\ blockRetry \in 0 .. (MaxBlockRetries + 1)
  /\ endRetry \in 0 .. (MaxEndRetries + 1)
  /\ updateDelay \in 0 .. HourMinutes
  /\ timers \subseteq Events /\ events \subseteq Events /\ told \in BOOLEAN
  /\ FlashTypeOK
  /\ toServer \subseteq ToServer /\ toClient \subseteq ToClient
  /\ waits \in 0 .. MaxWaits

\* However late, often or out of order the blocks come, what is written so far
\* is the beginning of one version, and an image waiting for its upgrade is
\* whole and has the right CRC.
ImageInOrder ==
  /\ status = "progress" =>
       fileOffset < NBlocks /\ \A b \in 0 .. (fileOffset - 1) : dl[b] = dlVersion
  /\ status \in {"complete", "wait", "countdown"} => CrcMatches(dl, dlVersion)

\* The client's state is well formed, what it has written is in order, and
\* what runs is one whole image.
DownloadOK == TypeOK /\ ImageInOrder /\ RunsWholeImage

\* The image the application has been told to install, if it is whole.
Staged ==
  IF ~told THEN NoVersion
  ELSE IF HalOTAChkDL(dl) THEN dl[CrcBlock] ELSE "broken"

Promise == INSTANCE Install
  WITH version <- Committed, staged <- Staged, up <- Alive

\* From the first block to the start of the new image (zclOTA_UpgradeComplete,
\* HalOTAInvRC, main, dl2rc): only a whole image that was checked is ever
\* committed to, that is a single step, no loss of power takes it back or leaves
\* it half done, and the device comes up again with it.  But for two windows,
\* which the README describes: power that fails while both CRC words are erased
\* (WindowFails, hal_ota.c:173-177 and 128), and a block of another download
\* between the callback and the reset (BlockBeforeReset).
ImplementsInstall == Promise!Spec

\* A download that is in progress is not left hanging, whatever is lost: it is
\* completed, refused or given up.  A server that answers "wait" for ever would
\* keep it in progress, asking: MaxWaits bounds that.
DownloadEnds == status = "progress" ~> status # "progress"

\* A download that was completed is upgraded to or replaced by another; it is
\* not given up for a block response that is no longer waited for.
CompletedNotGivenUp ==
  [][(status \in {"complete", "wait", "countdown"} /\ status' = "normal")
       => (UpgradeWaitEvent \/ PowerFail)]_vars
=============================================================================
