-------------------------- MODULE OtaClient_proofs --------------------------
(***************************************************************************)
(* Proofs about OtaClient, for images and pages of any size, any versions, *)
(* any retries and any network.  Two things are assumed where a theorem    *)
(* says so, and the README tells what happens without them: the power does *)
(* not fail while both CRC words are erased (~WindowFails), and no block   *)
(* comes between the end of the wait and the reset (~BlockBeforeReset).    *)
(***************************************************************************)
EXTENDS OtaClient, TLAPS

\* The rest of the page a block is in the middle of is erased.
RestErased(img, b) ==
  b \in Blocks /\ ~FirstOfPage(b) =>
    \A c \in Blocks : c >= b /\ SamePage(c, b) => img[c] = "erased"

ClientType ==
  /\ status \in {"normal", "progress", "complete", "wait", "countdown"}
  /\ fileOffset \in 0 .. NBlocks /\ dlVersion \in Versions
  /\ blockRetry \in 0 .. (MaxBlockRetries + 1)
  /\ endRetry \in 0 .. (MaxEndRetries + 1)
  /\ updateDelay \in 0 .. HourMinutes
  /\ timers \subseteq Events /\ events \subseteq Events /\ told \in BOOLEAN
  /\ waits \in 0 .. MaxWaits

NetType == toServer \subseteq ToServer /\ toClient \subseteq ToClient

\* What holds of the download and the boot loader without any assumption.
Download ==
  /\ ImageInOrder
  /\ status = "progress" => RestErased(dl, fileOffset)

ClientInv ==
  ClientType /\ NetType /\ FlashTypeOK /\ Download /\ (mode = "run" => Whole)

LEMMA Sizes ==
  /\ First \in Versions \ Corrupt
  /\ "erased" \notin Versions /\ "garbage" \notin Versions
  /\ "zero" \notin Versions /\ "none" \notin Versions
  /\ NBlocks \in Nat /\ NBlocks > 0 /\ PageBlocks \in Nat /\ PageBlocks > 0
  /\ CrcBlock \in Nat /\ CrcBlock < NBlocks /\ CrcBlock < PageBlocks
  /\ MaxFails \in Nat /\ WindowFails \in BOOLEAN /\ BlockBeforeReset \in BOOLEAN
  /\ Offered \subseteq Versions
  /\ MaxBlockRetries \in Nat /\ MaxEndRetries \in Nat
  /\ HourMinutes \in Nat /\ HourMinutes > 0 /\ NetMax \in Nat /\ MaxWaits \in Nat
BY OtaAssumption, BootAssumption, ClientAssumption
-----------------------------------------------------------------------------
(***************************************************************************)
(* Pages and blocks.                                                       *)
(***************************************************************************)

\* The first block of a page is the least of its page.
LEMMA FirstIsLeast ==
  ASSUME NEW b \in Nat, NEW c \in Nat, FirstOfPage(b), SamePage(b, c)
  PROVE  b <= c
BY Sizes DEF FirstOfPage, SamePage

\* A block that is not the first of its page is in that of the one before.
LEMMA NextInPage ==
  ASSUME NEW b \in Nat, ~FirstOfPage(b + 1)
  PROVE  SamePage(b, b + 1)
BY Sizes DEF FirstOfPage, SamePage

\* Writing the next block of an image leaves what is written before, and the
\* rest of the page erased.
LEMMA WriteGoesOn ==
  ASSUME NEW img \in [Blocks -> Contents], NEW b \in Blocks, NEW v \in Versions,
         \A c \in 0 .. (b - 1) : img[c] = v, RestErased(img, b)
  PROVE  /\ HalOTAWrite(img, b, v) \in [Blocks -> Contents]
         /\ \A c \in 0 .. b : HalOTAWrite(img, b, v)[c] = v
         /\ RestErased(HalOTAWrite(img, b, v), b + 1)
<1> DEFINE new == HalOTAWrite(img, b, v)
<1>1. b \in Nat /\ 0 .. b \subseteq Blocks /\ Blocks \subseteq Nat
  BY Sizes DEF Blocks
<1>2. ASSUME NEW c \in Blocks
      PROVE  /\ c = b /\ FirstOfPage(b) => new[c] = v
             /\ c = b /\ ~FirstOfPage(b) => new[c] = Overwrite(img[b], v)
             /\ c # b /\ FirstOfPage(b) /\ SamePage(b, c) => new[c] = "erased"
             /\ c # b /\ ~(FirstOfPage(b) /\ SamePage(b, c)) => new[c] = img[c]
  BY DEF HalOTAWrite
<1>3. new = [c \in Blocks |-> new[c]]
  BY DEF HalOTAWrite
<1>4. Overwrite(img[b], v) \in Contents
  BY DEF Overwrite, Contents
<1> HIDE DEF new
<1>5. new \in [Blocks -> Contents]
  <2>1. ASSUME NEW c \in Blocks PROVE new[c] \in Contents
    BY <1>2, <1>4 DEF Contents
  <2> QED
    BY <1>3, <2>1
<1>6. new[b] = v
  <2>1. CASE FirstOfPage(b)
    BY <1>2, <2>1
  <2>2. CASE ~FirstOfPage(b)
    <3>1. img[b] = "erased"
      BY <1>1, <2>2 DEF RestErased, SamePage
    <3> QED
      BY <1>2, <2>2, <3>1 DEF Overwrite
  <2> QED
    BY <2>1, <2>2
<1>7. ASSUME NEW c \in 0 .. (b - 1) PROVE new[c] = v
  <2>1. c \in Blocks /\ c # b /\ c \in Nat /\ ~(b <= c)
    BY <1>1
  <2>2. ~(FirstOfPage(b) /\ SamePage(b, c))
    BY <1>1, <2>1, FirstIsLeast
  <2> QED
    BY <1>2, <2>1, <2>2
<1>8. ASSUME b + 1 \in Blocks, ~FirstOfPage(b + 1),
             NEW c \in Blocks, c >= b + 1, SamePage(c, b + 1)
      PROVE  new[c] = "erased"
  <2>1. SamePage(b, c) /\ SamePage(c, b) /\ c # b /\ c >= b
    BY <1>1, <1>8, NextInPage DEF SamePage
  <2>2. CASE FirstOfPage(b)
    BY <1>2, <2>1, <2>2
  <2>3. CASE ~FirstOfPage(b)
    BY <1>2, <2>1, <2>3 DEF RestErased
  <2> QED
    BY <2>2, <2>3
<1>9. \A c \in 0 .. b : new[c] = v
  BY <1>1, <1>6, <1>7
<1> QED
  BY <1>5, <1>8, <1>9 DEF RestErased, new
-----------------------------------------------------------------------------
(***************************************************************************)
(* Frames.                                                                 *)
(***************************************************************************)

\* What a frame to the client carries.
LEMMA ToClientFields ==
  ASSUME NEW m \in ToClient
  PROVE  /\ m.type = "query" => m.version \in Versions \cup {NoVersion}
         /\ m.type = "data" => m.version \in Versions /\ m.block \in 0 .. NBlocks
         /\ m.type = "end" => m.version \in Versions /\ m.delay \in Delays
BY DEF ToClient, QueryRsp, Data, EndRsp, Signal

\* What a frame to the server carries.
LEMMA ToServerFields ==
  ASSUME NEW m \in ToServer
  PROVE  /\ m.version \in Versions
         /\ m.type = "block" => m.block \in 0 .. NBlocks
BY DEF ToServer, Query, BlockReq, EndReq

\* The frames there are to the server.
LEMMA ServerFrames ==
  ASSUME NEW v \in Versions
  PROVE  /\ Query(v) \in ToServer
         /\ \A b \in 0 .. NBlocks : BlockReq(v, b) \in ToServer
         /\ \A ok \in BOOLEAN : EndReq(v, ok) \in ToServer
BY DEF ToServer

\* The frames there are to the client.
LEMMA ClientFrames ==
  /\ \A v \in Versions \cup {NoVersion} : QueryRsp(v) \in ToClient
  /\ \A v \in Versions, b \in 0 .. NBlocks : Data(v, b) \in ToClient
  /\ \A v \in Versions, d \in Delays : EndRsp(v, d) \in ToClient
  /\ \A t \in {"notify", "wait", "abort"} : Signal(t) \in ToClient
BY DEF ToClient

\* A frame is added to those on their way, or lost.
LEMMA WithType ==
  ASSUME NEW S, NEW net, net \subseteq S, NEW m \in S
  PROVE  With(net, m) \subseteq S
BY DEF With

\* What runs is of a version there is.
LEMMA RunningType ==
  ASSUME Whole
  PROVE  running \in Versions
BY Sizes DEF Whole, running, Blocks
-----------------------------------------------------------------------------
(***************************************************************************)
(* A step that leaves the flash alone.                                     *)
(***************************************************************************)

\* The images are as they were.
LEMMA FlashStays ==
  ASSUME FlashTypeOK, mode = "run" => Whole, UNCHANGED flashVars
  PROVE  FlashTypeOK' /\ (mode' = "run" => Whole')
BY DEF FlashTypeOK, Whole, flashVars, loaderVars

\* The download is as it was.
LEMMA DownloadStays ==
  ASSUME Download, UNCHANGED <<dl, status, fileOffset, dlVersion>>
  PROVE  Download'
BY DEF Download, ImageInOrder, CrcMatches, RestErased

\* There is no download any more.
LEMMA DownloadOver == status' = "normal" => Download'
BY DEF Download, ImageInOrder

LEMMA NotifyStep ==
  ASSUME ClientInv, NEW m \in toClient, ProcessImageNotify(m)
  PROVE  ClientInv'
<1> USE DEF ProcessImageNotify, Take, Alive, clientVars, volatileVars
<1>1. FlashTypeOK' /\ (mode' = "run" => Whole')
  BY FlashStays DEF ClientInv
<1>2. Download'
  BY DownloadStays DEF ClientInv, flashVars
<1>3. NetType'
  BY RunningType, ServerFrames, WithType DEF ClientInv, NetType
<1>4. ClientType'
  BY DEF ClientInv, ClientType
<1> QED
  BY <1>1, <1>2, <1>3, <1>4 DEF ClientInv

\* A download begins with nothing written.
LEMMA DownloadBegins ==
  ASSUME status' = "progress", fileOffset' = 0
  PROVE  Download'
<1>1. FirstOfPage(0) /\ 0 \in Nat /\ 0 < NBlocks
  BY Sizes DEF FirstOfPage
<1>2. RestErased(dl, fileOffset)'
  BY <1>1 DEF RestErased
<1>3. ImageInOrder'
  BY <1>1 DEF ImageInOrder
<1> QED
  BY <1>2, <1>3 DEF Download

LEMMA QueryRspStep ==
  ASSUME ClientInv, NEW m \in toClient, ProcessQueryNextImageRsp(m)
  PROVE  ClientInv'
<1> USE DEF ProcessQueryNextImageRsp, Take, Alive
<1>1. CASE UNCHANGED <<clientVars, toServer>>
  BY <1>1, FlashStays, DownloadStays
  DEF ClientInv, ClientType, NetType, clientVars, volatileVars, flashVars
<1>2. CASE m.version # NoVersion /\ StartDownload(m.version)
  <2>1. m.version \in Versions /\ m \in ToClient
    BY <1>2, ToClientFields DEF ClientInv, NetType
  <2>2. FlashTypeOK' /\ (mode' = "run" => Whole')
    BY <1>2, FlashStays DEF ClientInv, StartDownload
  <2>3. Download'
    BY <1>2, DownloadBegins DEF StartDownload
  <2>4. NetType'
    BY <1>2, <2>1, ServerFrames, WithType, Sizes
    DEF ClientInv, NetType, StartDownload, SendBlockReq
  <2>5. "blockRspTo" \in Events
    BY DEF Events, EventOrder
  <2>6. ClientType'
    BY <1>2, <2>1, <2>5, Sizes DEF ClientInv, ClientType, StartDownload, SendBlockReq
  <2> QED
    BY <2>2, <2>3, <2>4, <2>6 DEF ClientInv
<1> QED
  BY <1>1, <1>2
\* A download is refused: its version was one there is.
LEMMA BlockOfOther ==
  ASSUME ClientInv, NEW m \in toClient, ProcessImageBlockRsp(m),
         ReceiveOtherVersion(m)
  PROVE  ClientInv'
<1> USE DEF ProcessImageBlockRsp, Take, Alive, ReceiveOtherVersion, RefuseImage
<1>1. m \in ToClient /\ m.version \in Versions
  BY ToClientFields DEF ClientInv, NetType
<1>2. FlashTypeOK' /\ (mode' = "run" => Whole')
  BY FlashStays DEF ClientInv, flashVars
<1>3. NetType'
  BY <1>1, ServerFrames, WithType DEF ClientInv, NetType
<1>4. ClientType'
  BY DEF ClientInv, ClientType
<1> QED
  BY <1>2, <1>3, <1>4, DownloadOver DEF ClientInv

\* The offsets of a download in progress.
LEMMA InProgress ==
  ASSUME ClientInv, status = "progress"
  PROVE  /\ fileOffset \in Blocks /\ fileOffset \in Nat /\ fileOffset < NBlocks
         /\ dlVersion \in Versions
         /\ \A b \in 0 .. (fileOffset - 1) : dl[b] = dlVersion
         /\ RestErased(dl, fileOffset)
<1>1. fileOffset \in 0 .. NBlocks /\ fileOffset < NBlocks
  BY DEF ClientInv, ClientType, Download, ImageInOrder
<1>2. fileOffset \in Blocks /\ fileOffset \in Nat
  BY <1>1, Sizes DEF Blocks
<1> QED
  BY <1>1, <1>2 DEF ClientInv, ClientType, Download, ImageInOrder

\* The image a block is written into.
Written == HalOTAWrite(dl, fileOffset, dlVersion)

\* Writing the expected block: what is written before stays.
LEMMA WrittenGoesOn ==
  ASSUME ClientInv, status = "progress"
  PROVE  /\ Written \in [Blocks -> Contents]
         /\ \A b \in 0 .. fileOffset : Written[b] = dlVersion
         /\ RestErased(Written, fileOffset + 1)
<1>1. dl \in [Blocks -> Contents]
  BY DEF ClientInv, FlashTypeOK
<1> QED
  BY <1>1, InProgress, WriteGoesOn DEF Written

\* The last block of a whole image: it is of the version asked for.
LEMMA WholeIsDownloaded ==
  ASSUME ClientInv, status = "progress", fileOffset + 1 = NBlocks,
         HalOTAChkDL(Written)
  PROVE  CrcMatches(Written, dlVersion)
<1>1. CrcBlock \in Blocks /\ CrcBlock \in 0 .. fileOffset
  BY Sizes, InProgress DEF Blocks
<1> QED
  BY <1>1, WrittenGoesOn DEF HalOTAChkDL

\* A block that was expected, at an offset before the last or at the last.
LEMMA ExpectedBlock ==
  ASSUME ClientInv, NEW m \in toClient, ProcessImageBlockRsp(m),
         status = "progress", ReceiveBlock(m)
  PROVE  /\ dl' = Written /\ blockRetry' = 0 /\ fileOffset' \in 0 .. NBlocks
         /\ timers' \subseteq Events
         /\ toServer' \subseteq ToServer /\ toClient' \subseteq ToClient
         /\ Download'
<1> DEFINE b == fileOffset  still == timers \ {"blockRspTo"}
<1>1. /\ m.version = dlVersion /\ m.block = b /\ dl' = Written
      /\ blockRetry' = 0
      /\ \/ /\ b + 1 < NBlocks /\ fileOffset' = b + 1 /\ status' = status
            /\ SendBlockReq(dlVersion, b + 1, still)
         \/ /\ b + 1 = NBlocks /\ HalOTAChkDL(Written)
            /\ fileOffset' = b + 1 /\ status' = "complete" /\ timers' = still
            /\ toServer' = With(toServer, EndReq(dlVersion, TRUE))
         \/ /\ fileOffset' = fileOffset /\ timers' = still
            /\ RefuseImage(dlVersion)
  BY DEF ReceiveBlock, Expected, Written
<1>2. /\ toClient' \subseteq ToClient /\ dlVersion' = dlVersion
      /\ toServer \subseteq ToServer /\ still \subseteq Events
      /\ "blockRspTo" \in Events
  BY DEF ClientInv, ClientType, NetType, ProcessImageBlockRsp, Take, Events, EventOrder
<1>3. CASE /\ b + 1 < NBlocks /\ fileOffset' = b + 1 /\ status' = status
           /\ SendBlockReq(dlVersion, b + 1, still)
  <2>1. b + 1 \in 0 .. NBlocks /\ b + 1 - 1 = b
    BY <1>3, InProgress, Sizes
  <2>2. ImageInOrder'
    <3>1. \A c \in 0 .. b : Written[c] = dlVersion
      BY WrittenGoesOn
    <3>2. fileOffset' - 1 = b /\ fileOffset' < NBlocks
      BY <1>3, InProgress, Sizes
    <3>3. dl' = Written /\ dlVersion' = dlVersion
      BY <1>1, <1>2
    <3>4. status' = "progress"
      BY <1>3
    <3> HIDE DEF b
    <3>5. \A c \in 0 .. (fileOffset' - 1) : dl'[c] = dlVersion'
      BY <3>1, <3>2, <3>3
    <3> QED
      BY <3>2, <3>4, <3>5 DEF ImageInOrder
  <2>3. RestErased(dl, fileOffset)'
    BY <1>1, <1>3, WrittenGoesOn DEF RestErased
  <2>4. BlockReq(dlVersion, b + 1) \in ToServer
    BY <2>1, InProgress, ServerFrames
  <2>5. timers' \subseteq Events /\ toServer' \subseteq ToServer
    BY <1>2, <1>3, <2>4, WithType DEF SendBlockReq
  <2> QED
    BY <1>1, <1>2, <1>3, <2>1, <2>2, <2>3, <2>5 DEF Download
<1>4. CASE /\ b + 1 = NBlocks /\ HalOTAChkDL(Written)
           /\ fileOffset' = b + 1 /\ status' = "complete" /\ timers' = still
           /\ toServer' = With(toServer, EndReq(dlVersion, TRUE))
  <2>1. CrcMatches(dl, dlVersion)'
    BY <1>1, <1>2, <1>4, WholeIsDownloaded DEF CrcMatches
  <2>2. b + 1 \in 0 .. NBlocks
    BY <1>4, Sizes
  <2>3. EndReq(dlVersion, TRUE) \in ToServer
    BY InProgress, ServerFrames
  <2>4. Download'
    BY <1>4, <2>1 DEF Download, ImageInOrder
  <2> QED
    BY <1>1, <1>2, <1>4, <2>2, <2>3, <2>4, WithType
<1>5. CASE /\ fileOffset' = fileOffset /\ timers' = still
           /\ RefuseImage(dlVersion)
  <2>1. EndReq(dlVersion, FALSE) \in ToServer
    BY InProgress, ServerFrames
  <2>2. fileOffset \in 0 .. NBlocks
    BY DEF ClientInv, ClientType
  <2> QED
    BY <1>1, <1>2, <1>5, <2>1, <2>2, WithType, DownloadOver DEF RefuseImage
<1> QED
  BY <1>1, <1>3, <1>4, <1>5

LEMMA BlockRspStep ==
  ASSUME ClientInv, NEW m \in toClient, ProcessImageBlockRsp(m)
  PROVE  ClientInv'
<1>1. CASE UNCHANGED <<status, fileOffset, blockRetry, timers, dl, toServer>>
  BY <1>1, FlashStays, DownloadStays
  DEF ClientInv, ClientType, NetType, ProcessImageBlockRsp, Take, flashVars
<1>2. CASE ReceiveOtherVersion(m)
  BY <1>2, BlockOfOther
<1>3. CASE status = "progress" /\ ReceiveBlock(m)
  <2> DEFINE after == <<dlVersion, endRetry, updateDelay, events, told, loaderVars, waits>>
  <2>1. UNCHANGED after
    BY DEF ProcessImageBlockRsp
  <2>2. FlashTypeOK' /\ (mode' = "run" => Whole')
    BY <1>3, <2>1, ExpectedBlock, WrittenGoesOn
    DEF ClientInv, FlashTypeOK, Whole, loaderVars
  <2>3. status' \in {"normal", "progress", "complete"}
    BY <1>3 DEF ReceiveBlock, RefuseImage
  <2>4. ClientType'
    BY <1>3, <2>1, <2>3, ExpectedBlock, Sizes DEF ClientInv, ClientType
  <2> QED
    BY <1>3, <2>2, <2>4, ExpectedBlock DEF ClientInv, NetType
<1> QED
  BY <1>1, <1>2, <1>3 DEF ProcessImageBlockRsp, ReceiveDuplicate
\* The names of the timers.
LEMMA EventNames ==
  /\ "blockWait" \in Events /\ "upgradeWait" \in Events
  /\ "blockRspTo" \in Events
BY DEF Events, EventOrder

LEMMA WaitStep ==
  ASSUME ClientInv, NEW m \in toClient,
         ProcessWaitForData(m) \/ ProcessAbort(m)
  PROVE  ClientInv'
<1> USE DEF ProcessWaitForData, ProcessAbort, Take, Alive
<1>1. FlashTypeOK' /\ (mode' = "run" => Whole')
  BY FlashStays DEF ClientInv
<1>2. Download'
  BY DownloadStays, DownloadOver DEF ClientInv, flashVars
<1>3. NetType'
  BY DEF ClientInv, NetType
<1>4. ClientType'
  BY EventNames, Sizes DEF ClientInv, ClientType, StartTimer
<1> QED
  BY <1>1, <1>2, <1>3, <1>4 DEF ClientInv

LEMMA EndRspStep ==
  ASSUME ClientInv, NEW m \in toClient, ProcessUpgradeEndRsp(m)
  PROVE  ClientInv'
<1> USE DEF ProcessUpgradeEndRsp, Take, Alive
<1>1. FlashTypeOK' /\ (mode' = "run" => Whole')
  BY FlashStays DEF ClientInv
<1>2. NetType'
  BY DEF ClientInv, NetType
<1>3. CASE UNCHANGED <<status, endRetry, updateDelay, timers>>
  <2>1. Download'
    BY <1>3, DownloadStays DEF ClientInv, flashVars
  <2>2. ClientType'
    BY <1>3 DEF ClientInv, ClientType
  <2> QED
    BY <1>1, <1>2, <2>1, <2>2 DEF ClientInv
<1>4. CASE Countdown(m) \/ WaitForUpgrade(m)
  <2>1. status \in {"complete", "wait"} /\ status' \in {"wait", "countdown"}
    BY <1>4 DEF Countdown, WaitForUpgrade
  <2>2. CrcMatches(dl, dlVersion)
    BY <2>1 DEF ClientInv, Download, ImageInOrder
  <2>3. CrcMatches(dl, dlVersion)'
    BY <2>2 DEF CrcMatches, flashVars
  <2>4. Download'
    BY <2>1, <2>3 DEF Download, ImageInOrder
  <2>5. m.type = "end" /\ m \in ToClient
    BY DEF ClientInv, NetType
  <2>6. m.delay # WaitForever => m.delay \in 0 .. HourMinutes
    BY <2>5, ToClientFields, Sizes DEF Delays
  <2>7. ClientType'
    BY <1>4, <2>6, EventNames, Sizes
    DEF ClientInv, ClientType, Countdown, WaitForUpgrade, StartTimer
  <2> QED
    BY <1>1, <1>2, <2>4, <2>7 DEF ClientInv
<1> QED
  BY <1>3, <1>4

LEMMA TimerStep ==
  ASSUME ClientInv, NEW e \in Events, TimerExpires(e)
  PROVE  ClientInv'
<1> USE DEF TimerExpires
<1>1. FlashTypeOK' /\ (mode' = "run" => Whole')
  BY FlashStays DEF ClientInv
<1>2. Download'
  BY DownloadStays DEF ClientInv, flashVars
<1>3. ClientType' /\ NetType'
  BY DEF ClientInv, ClientType, NetType, netVars
<1> QED
  BY <1>1, <1>2, <1>3 DEF ClientInv

LEMMA BlockWaitStep ==
  ASSUME ClientInv, BlockWaitEvent
  PROVE  ClientInv'
<1> USE DEF BlockWaitEvent, Handle
<1>1. FlashTypeOK' /\ (mode' = "run" => Whole')
  BY FlashStays DEF ClientInv
<1>2. UNCHANGED status
  BY DEF NextMinute, ImageBlockWaitExpired
<1>3. Download'
  BY <1>2, DownloadStays DEF ClientInv, flashVars
<1>4. BlockReq(dlVersion, fileOffset) \in ToServer
  BY ServerFrames DEF ClientInv, ClientType
<1>5. NetType'
  BY <1>4, WithType
  DEF ClientInv, NetType, NextMinute, ImageBlockWaitExpired, SendBlockReq
<1>6. updateDelay > 0 => updateDelay - 1 \in 0 .. HourMinutes
  BY Sizes DEF ClientInv, ClientType
<1>7. ClientType'
  BY <1>2, <1>6, EventNames
  DEF ClientInv, ClientType, NextMinute, ImageBlockWaitExpired, StartTimer,
      SendBlockReq
<1> QED
  BY <1>1, <1>3, <1>5, <1>7 DEF ClientInv

LEMMA UpgradeWaitStep ==
  ASSUME ClientInv, UpgradeWaitEvent
  PROVE  ClientInv'
<1> USE DEF UpgradeWaitEvent, Handle
<1>1. FlashTypeOK' /\ (mode' = "run" => Whole')
  BY FlashStays DEF ClientInv
<1>2. status' = status \/ status' = "normal"
  BY DEF NextMinute, UpgradeNow, UpgradeComplete, AskAgain, NothingToUpgrade
<1>3. Download'
  BY <1>2, DownloadStays, DownloadOver DEF ClientInv, flashVars
<1>4. EndReq(dlVersion, TRUE) \in ToServer
  BY ServerFrames DEF ClientInv, ClientType
<1>5. NetType'
  BY <1>4, WithType
  DEF ClientInv, NetType, NextMinute, UpgradeNow, AskAgain, NothingToUpgrade
<1>6. updateDelay > 0 => updateDelay - 1 \in 0 .. HourMinutes
  BY Sizes DEF ClientInv, ClientType
<1>7. endRetry' \in 0 .. (MaxEndRetries + 1)
  <2>1. \/ endRetry' = endRetry
        \/ endRetry' = endRetry + 1 /\ endRetry = MaxEndRetries
        \/ endRetry' = endRetry + 1 /\ endRetry < MaxEndRetries
    <3>1. UpgradeNow => \/ endRetry' = endRetry
                        \/ endRetry' = endRetry + 1 /\ endRetry = MaxEndRetries
      BY DEF UpgradeNow
    <3> QED
      BY <3>1 DEF NextMinute, AskAgain, NothingToUpgrade
  <2>2. endRetry \in 0 .. (MaxEndRetries + 1) /\ MaxEndRetries \in Nat
    BY Sizes DEF ClientInv, ClientType
  <2> HIDE DEF UpgradeWaitEvent, Handle
  <2> QED
    BY <2>1, <2>2
<1>8. updateDelay' \in 0 .. HourMinutes /\ timers' \subseteq Events
  <2>1. \/ updateDelay' = updateDelay - 1 /\ updateDelay > 0
        \/ updateDelay' = updateDelay
        \/ updateDelay' = HourMinutes
    BY DEF NextMinute, UpgradeNow, AskAgain, NothingToUpgrade, StartTimer
  <2>2. timers' \in {timers, timers \cup {"upgradeWait"}}
    BY DEF NextMinute, UpgradeNow, AskAgain, NothingToUpgrade, StartTimer
  <2>3. updateDelay \in 0 .. HourMinutes /\ timers \subseteq Events
    BY DEF ClientInv, ClientType
  <2>4. HourMinutes \in 0 .. HourMinutes
    BY Sizes
  <2> HIDE DEF UpgradeWaitEvent, Handle
  <2>5. updateDelay' \in 0 .. HourMinutes
    BY <1>6, <2>1, <2>3, <2>4
  <2>6. timers' \subseteq Events
    BY <2>2, <2>3, EventNames
  <2> QED
    BY <2>5, <2>6
<1>9. told' \in BOOLEAN
  BY DEF ClientInv, ClientType, NextMinute, UpgradeNow, UpgradeComplete,
         AskAgain, NothingToUpgrade
<1>10. ClientType'
  BY <1>2, <1>7, <1>8, <1>9 DEF ClientInv, ClientType
<1> QED
  BY <1>1, <1>3, <1>5, <1>10 DEF ClientInv

LEMMA BlockTimeoutStep ==
  ASSUME ClientInv, BlockRspTimeout
  PROVE  ClientInv'
<1> USE DEF BlockRspTimeout, Handle
<1>1. FlashTypeOK' /\ (mode' = "run" => Whole')
  BY FlashStays DEF ClientInv
<1>2. status' = status \/ status' = "normal"
  BY DEF GiveUp, Retry
<1>3. Download'
  BY <1>2, DownloadStays, DownloadOver DEF ClientInv, flashVars
<1>4. BlockReq(dlVersion, fileOffset) \in ToServer
      /\ EndReq(dlVersion, FALSE) \in ToServer
  BY ServerFrames DEF ClientInv, ClientType
<1>5. NetType'
  BY <1>4, WithType DEF ClientInv, NetType, GiveUp, Retry, SendBlockReq
<1>6. blockRetry' \in 0 .. (MaxBlockRetries + 1)
  <2>1. \/ blockRetry' = MaxBlockRetries + 1
        \/ blockRetry' = blockRetry + 1 /\ blockRetry < MaxBlockRetries
    BY DEF GiveUp, Retry
  <2>2. blockRetry \in 0 .. (MaxBlockRetries + 1) /\ MaxBlockRetries \in Nat
    BY Sizes DEF ClientInv, ClientType
  <2> HIDE DEF BlockRspTimeout, Handle
  <2> QED
    BY <2>1, <2>2
<1>7. ClientType'
  BY <1>2, <1>6, EventNames
  DEF ClientInv, ClientType, GiveUp, Retry, SendBlockReq
<1> QED
  BY <1>1, <1>3, <1>5, <1>7 DEF ClientInv

LEMMA QueryStep ==
  ASSUME ClientInv, QueryServer
  PROVE  ClientInv'
<1> USE DEF QueryServer, Alive
<1>1. FlashTypeOK' /\ (mode' = "run" => Whole')
  BY FlashStays DEF ClientInv, clientVars
<1>2. Download'
  BY DownloadStays DEF ClientInv, clientVars, volatileVars, flashVars
<1>3. NetType'
  BY RunningType, ServerFrames, WithType DEF ClientInv, NetType
<1>4. ClientType'
  BY DEF ClientInv, ClientType, clientVars, volatileVars
<1> QED
  BY <1>1, <1>2, <1>3, <1>4 DEF ClientInv
-----------------------------------------------------------------------------
(***************************************************************************)
(* The server and the radio.                                               *)
(***************************************************************************)

\* The client does not take part.
LEMMA ClientStays ==
  ASSUME ClientInv, UNCHANGED clientVars, NetType', waits' \in 0 .. MaxWaits
  PROVE  ClientInv'
<1> USE DEF clientVars, volatileVars
<1>1. FlashTypeOK' /\ (mode' = "run" => Whole')
  BY FlashStays DEF ClientInv
<1>2. Download'
  BY DownloadStays DEF ClientInv, flashVars
<1>3. ClientType'
  BY DEF ClientInv, ClientType
<1> QED
  BY <1>1, <1>2, <1>3 DEF ClientInv

LEMMA ServerStep ==
  ASSUME ClientInv, Server
  PROVE  ClientInv'
<1>1. /\ toServer \subseteq ToServer /\ toClient \subseteq ToClient
      /\ waits \in 0 .. MaxWaits
  BY DEF ClientInv, ClientType, NetType
<1>2. CASE \E m \in toServer : SrvQueryNextImage(m)
  <2>1. PICK m \in toServer : SrvQueryNextImage(m)
    BY <1>2
  <2>2. PICK v \in (Offered \ {m.version}) \cup {NoVersion} :
          toClient' = With(toClient, QueryRsp(v))
    BY <2>1 DEF SrvQueryNextImage
  <2>3. QueryRsp(v) \in ToClient
    BY Sizes, ClientFrames
  <2>4. NetType'
    BY <1>1, <2>1, <2>2, <2>3, WithType DEF NetType, SrvQueryNextImage, Serve
  <2> QED
    BY <1>1, <2>1, <2>4, ClientStays DEF SrvQueryNextImage
<1>3. CASE \E m \in toServer : SrvImageBlock(m)
  <2>1. PICK m \in toServer : SrvImageBlock(m)
    BY <1>3
  <2>2. m.version \in Versions /\ m.block \in 0 .. NBlocks
    BY <1>1, <2>1, ToServerFields DEF SrvImageBlock, Serve
  <2>3. /\ Data(m.version, m.block) \in ToClient
        /\ Signal("abort") \in ToClient /\ Signal("wait") \in ToClient
    BY <2>2, ClientFrames
  <2>4. NetType'
    BY <1>1, <2>1, <2>3, WithType DEF NetType, SrvImageBlock, Serve
  <2>5. waits' \in 0 .. MaxWaits
    BY <1>1, <2>1, Sizes DEF SrvImageBlock
  <2> QED
    BY <2>1, <2>4, <2>5, ClientStays DEF SrvImageBlock
<1>4. CASE \E m \in toServer : SrvUpgradeEnd(m)
  <2>1. PICK m \in toServer : SrvUpgradeEnd(m)
    BY <1>4
  <2>2. m.version \in Versions
    BY <1>1, ToServerFields
  <2>3. toClient' = toClient
        \/ \E d \in Delays : toClient' = With(toClient, EndRsp(m.version, d))
    BY <2>1 DEF SrvUpgradeEnd
  <2>4. toClient' \subseteq ToClient
    BY <1>1, <2>2, <2>3, ClientFrames, WithType
  <2>5. NetType'
    BY <1>1, <2>1, <2>4 DEF NetType, SrvUpgradeEnd, Serve
  <2> QED
    BY <1>1, <2>1, <2>5, ClientStays DEF SrvUpgradeEnd
<1>5. CASE SendImageNotify
  <2>1. Signal("notify") \in ToClient
    BY ClientFrames
  <2>2. NetType'
    BY <1>1, <1>5, <2>1, WithType DEF NetType, SendImageNotify
  <2> QED
    BY <1>1, <1>5, <2>2, ClientStays DEF SendImageNotify
<1> QED
  BY <1>2, <1>3, <1>4, <1>5 DEF Server

LEMMA LoseStep ==
  ASSUME ClientInv, Lose
  PROVE  ClientInv'
<1>1. NetType'
  BY DEF ClientInv, NetType, Lose
<1> QED
  BY <1>1, ClientStays DEF ClientInv, ClientType, Lose
-----------------------------------------------------------------------------
(***************************************************************************)
(* The boot loader and the power.                                          *)
(***************************************************************************)

\* What a write leaves is something a block may hold.
LEMMA OverwriteType ==
  ASSUME NEW S, "garbage" \in S, NEW old \in S, NEW new \in S
  PROVE  Overwrite(old, new) \in S
BY DEF Overwrite

\* The state after a reset.
LEMMA ResetType ==
  ASSUME Reset, waits' \in 0 .. MaxWaits
  PROVE  ClientType' /\ Download'
<1>1. First \in Versions
  BY Sizes
<1>2. ClientType'
  <2>1. /\ 0 \in 0 .. NBlocks /\ 0 \in 0 .. (MaxBlockRetries + 1)
        /\ 0 \in 0 .. (MaxEndRetries + 1) /\ 0 \in 0 .. HourMinutes
    BY Sizes
  <2> QED
    BY <1>1, <2>1 DEF Reset, ClientType
<1> QED
  BY <1>2, DownloadOver DEF Reset

LEMMA CrcType ==
  FlashTypeOK <=>
    /\ dl \in [Blocks -> Contents] /\ rc \in [Blocks -> Contents]
    /\ crc = <<crc[1], crc[2]>>
    /\ crc[1] \in Contents \cup {"zero"} /\ crc[2] \in Contents \cup {"zero"}
    /\ oset \in 0 .. NBlocks
    /\ mode \in {"run", "boot", "copy", "dead"}
    /\ blank \in BOOLEAN /\ fails \in 0 .. MaxFails
BY DEF FlashTypeOK

LEMMA BootType ==
  ASSUME FlashTypeOK, Boot
  PROVE  FlashTypeOK' /\ (mode' = "run" => Whole') /\ dl' = dl
<1> DEFINE Words == Contents \cup {"zero"}
<1>1. /\ crc[1] \in Words /\ crc[2] \in Words
      /\ rc \in [Blocks -> Contents] /\ dl \in [Blocks -> Contents]
      /\ "erased" \in Contents /\ "garbage" \in Contents
  BY CrcType DEF Contents
<1>2. CASE Jump
  <2>1. FlashTypeOK'
    BY <1>2, Sizes DEF FlashTypeOK, Jump
  <2>2. mode' = "run" => Whole'
    BY <1>2 DEF Jump, Whole
  <2> QED
    BY <1>2, <2>1, <2>2 DEF Jump
<1>3. CASE Validate
  <2>1. Overwrite(crc[2], crc[1]) \in Words
    BY <1>1, OverwriteType
  <2>2. crc' \in Words \X Words
    BY <1>1, <1>3, <2>1 DEF Validate
  <2> QED
    BY <1>3, <2>2 DEF FlashTypeOK, Validate
<1>4. CASE StartCopy
  <2>1. 0 \in 0 .. NBlocks
    BY Sizes
  <2>2. FlashTypeOK'
    BY <1>4, <2>1 DEF FlashTypeOK, StartCopy
  <2> QED
    BY <1>4, <2>2 DEF StartCopy
<1>5. CASE ErasePage
  <2>1. rc' \in [Blocks -> Contents]
    BY <1>1, <1>5 DEF ErasePage
  <2>2. crc' \in Words \X Words
    BY <1>1, <1>5 DEF ErasePage, FlashTypeOK
  <2> QED
    BY <1>5, <2>1, <2>2 DEF FlashTypeOK, ErasePage
<1>6. CASE WriteBlock
  <2>1. oset \in Blocks /\ oset + 1 \in 0 .. NBlocks
    BY <1>6, Sizes DEF WriteBlock, Blocks
  <2>2. rc[oset] \in Contents /\ dl[oset] \in Contents
    BY <1>1, <2>1
  <2>3. Overwrite(rc[oset], dl[oset]) \in Contents
    BY <1>1, <2>2, OverwriteType
  <2>4. rc' \in [Blocks -> Contents]
    BY <1>1, <1>6, <2>1, <2>3 DEF WriteBlock
  <2>5. crc' \in Words \X Words
    BY <1>1, <1>6, <2>2 DEF WriteBlock, FlashTypeOK
  <2> QED
    BY <1>6, <2>1, <2>4, <2>5 DEF FlashTypeOK, WriteBlock
<1>7. CASE EndCopy
  BY <1>7 DEF FlashTypeOK, EndCopy
<1> QED
  BY <1>2, <1>3, <1>4, <1>5, <1>6, <1>7 DEF Boot

LEMMA BootStep ==
  ASSUME ClientInv, BootLoader
  PROVE  ClientInv'
<1> USE DEF BootLoader, volatileVars, netVars
<1>1. FlashTypeOK' /\ (mode' = "run" => Whole') /\ dl' = dl
  BY BootType DEF ClientInv
<1>2. Download'
  BY <1>1, DownloadStays DEF ClientInv
<1>3. ClientType' /\ NetType'
  BY DEF ClientInv, ClientType, NetType
<1> QED
  BY <1>1, <1>2, <1>3 DEF ClientInv

LEMMA ResetStep ==
  ASSUME ClientInv, ProcessOTAMsgs \/ PowerFail
  PROVE  ClientInv'
<1>1. Reset /\ UNCHANGED <<netVars, waits>>
  BY DEF ProcessOTAMsgs, PowerFail
<1>2. ClientType' /\ Download' /\ NetType'
  BY <1>1, ResetType DEF ClientInv, ClientType, NetType, netVars
<1>3. mode' = "boot"
  BY DEF ProcessOTAMsgs, PowerFail, HalOTAInvRC, FlashPowerFail
<1>4. CASE ProcessOTAMsgs
  <2>1. crc'[1] = "zero" /\ crc'[2] = crc[2] /\ crc' = <<crc'[1], crc'[2]>>
    BY <1>4 DEF ProcessOTAMsgs, HalOTAInvRC
  <2>2. FlashTypeOK
    BY DEF ClientInv
  <2>3. FlashTypeOK'
    BY <1>3, <1>4, <2>1, <2>2, CrcType DEF ProcessOTAMsgs, HalOTAInvRC, FlashTypeOK
  <2> QED
    BY <1>2, <1>3, <2>3 DEF ClientInv
<1>5. CASE PowerFail
  <2>1. 0 \in 0 .. NBlocks
    BY Sizes
  <2>2. fails \in 0 .. MaxFails /\ fails' = fails + 1 /\ fails < MaxFails
    BY <1>5 DEF ClientInv, FlashTypeOK, PowerFail, FlashPowerFail
  <2>3. fails' \in 0 .. MaxFails
    BY <2>2, Sizes
  <2>4. UNCHANGED <<dl, rc, crc>> /\ oset' = 0 /\ blank' = FALSE
    BY <1>5 DEF PowerFail, FlashPowerFail
  <2>5. FlashTypeOK
    BY DEF ClientInv
  <2>6. FlashTypeOK'
    BY <1>3, <2>1, <2>3, <2>4, <2>5 DEF FlashTypeOK
  <2> QED
    BY <1>2, <1>3, <2>6 DEF ClientInv
<1> QED
  BY <1>4, <1>5
-----------------------------------------------------------------------------
LEMMA InitIsOrdered == Init => ClientInv
<1> SUFFICES ASSUME Init PROVE ClientInv
  OBVIOUS
<1>1. /\ 0 \in 0 .. NBlocks /\ 0 \in 0 .. (MaxBlockRetries + 1)
      /\ 0 \in 0 .. (MaxEndRetries + 1) /\ 0 \in 0 .. HourMinutes
      /\ 0 \in 0 .. MaxWaits /\ 0 \in 0 .. MaxFails
  BY Sizes
<1>2. ClientType
  BY <1>1, Sizes DEF Init, ClientType
<1>3. NetType
  BY DEF Init, NetType
<1>4. First \in Contents /\ "erased" \in Contents
  BY Sizes DEF Contents
<1>5. FlashTypeOK
  BY <1>1, <1>4 DEF Init, FlashInit, FlashTypeOK, AllOf
<1>6. Whole
  BY Sizes DEF Init, FlashInit, Whole, AllOf
<1>7. Download
  BY DEF Init, Download, ImageInOrder
<1> QED
  BY <1>2, <1>3, <1>5, <1>6, <1>7 DEF ClientInv

LEMMA StutterStep ==
  ASSUME ClientInv, UNCHANGED vars
  PROVE  ClientInv'
<1>1. NetType' /\ waits' \in 0 .. MaxWaits
  BY DEF ClientInv, ClientType, NetType, vars, netVars
<1> QED
  BY <1>1, ClientStays DEF vars

LEMMA NextIsOrdered == ClientInv /\ [Next]_vars => ClientInv'
<1> SUFFICES ASSUME ClientInv, [Next]_vars PROVE ClientInv'
  OBVIOUS
<1>1. CASE ClientHdlIncoming
  BY <1>1, NotifyStep, QueryRspStep, BlockRspStep, WaitStep, EndRspStep
  DEF ClientHdlIncoming
<1>2. CASE Run
  BY <1>2, BlockWaitStep, UpgradeWaitStep, BlockTimeoutStep, TimerStep, ResetStep
  DEF Run, EventLoop
<1>3. CASE QueryServer
  BY <1>3, QueryStep
<1>4. CASE BootLoader
  BY <1>4, BootStep
<1>5. CASE PowerFail
  BY <1>5, ResetStep
<1>6. CASE Server
  BY <1>6, ServerStep
<1>7. CASE Lose
  BY <1>7, LoseStep
<1>8. CASE UNCHANGED vars
  BY <1>8, StutterStep
<1> QED
  BY <1>1, <1>2, <1>3, <1>4, <1>5, <1>6, <1>7, <1>8 DEF Next

LEMMA ClientInvType == ClientInv => TypeOK
BY DEF ClientInv, ClientType, NetType, TypeOK

\* Whatever frames are lost, late, repeated or overtaken, and wherever the
\* power fails (zclOTA_ProcessImageBlockRsp, HalOTAWrite): a download in
\* progress has written the beginning of one version and nothing else, and an
\* image that waits for its upgrade is whole and has the right CRC.
THEOREM DownloadInOrder == Spec => [](TypeOK /\ ImageInOrder)
<1>1. ClientInv => TypeOK /\ ImageInOrder
  BY ClientInvType DEF ClientInv, Download
<1> QED
  BY <1>1, InitIsOrdered, NextIsOrdered, PTL DEF Spec
-----------------------------------------------------------------------------
(***************************************************************************)
(* What the device is committed to.                                        *)
(***************************************************************************)

\* The running image is whole and its CRC words vouch for it.
Settled ==
  \E v \in Versions \ Corrupt : rc = AllOf(v) /\ crc = <<v, v>>

\* The downloaded image is to be copied, and its copy is not yet vouched for:
\* the running image is invalidated, or its CRC comes from the copy.
Pending ==
  /\ HalOTAChkDL(dl)
  /\ \/ crc[1] = "zero" /\ crc[2] \in Versions
     \/ crc = <<dl[CrcBlock], "erased">>

\* dl2rc is at the block oset: what is before it is copied, what is left of a
\* page that is begun is erased, and the CRC words go with the first page.
Copied == \A b \in 0 .. (oset - 1) : rc[b] = dl[CrcBlock]

RestBlank ==
  oset \in Blocks /\ (blank \/ ~FirstOfPage(oset)) =>
    \A c \in Blocks : c >= oset /\ SamePage(c, oset) => rc[c] = "erased"

Copying ==
  /\ HalOTAChkDL(dl) /\ Copied /\ RestBlank
  /\ oset = 0 /\ ~blank => Pending
  /\ oset <= CrcBlock /\ (oset > 0 \/ blank) => crc = <<"erased", "erased">>
  /\ oset > CrcBlock => crc = <<dl[CrcBlock], "erased">>

CommitInv ==
  /\ told => mode = "run" /\ HalOTAChkDL(dl)
  /\ mode = "run" => Settled
  /\ mode = "boot" => Settled \/ Pending
  /\ mode = "copy" => Copying
  /\ mode # "dead"

\* What a checked image consists of.
LEMMA CheckedImage ==
  ASSUME HalOTAChkDL(dl)
  PROVE  /\ dl[CrcBlock] \in Versions \ Corrupt /\ dl[0] = dl[CrcBlock]
         /\ \A b \in Blocks : dl[b] = dl[CrcBlock]
BY Sizes DEF HalOTAChkDL, CrcMatches, Blocks

\* An image that waits for its upgrade is a checked one.
LEMMA WaitingIsChecked ==
  ASSUME ClientInv, status \in {"complete", "wait", "countdown"}
  PROVE  HalOTAChkDL(dl)
<1>1. CrcBlock \in Blocks
  BY Sizes DEF Blocks
<1> QED
  BY <1>1 DEF ClientInv, Download, ImageInOrder, HalOTAChkDL, CrcMatches

\* What runs is one whole image.
LEMMA SettledIsWhole == Settled => Whole
BY DEF Settled, Whole, AllOf

\* Outside the application the two ways to be committed exclude each other.
LEMMA PendingCrc ==
  ASSUME Pending
  PROVE  crc[1] # crc[2] /\ (RightCrc => crc = <<dl[CrcBlock], "erased">>)
<1>1. dl[CrcBlock] # "erased"
  BY CheckedImage, Sizes DEF Pending
<1> QED
  BY <1>1, Sizes DEF Pending, RightCrc

\* A step of the running application that leaves the running image alone.
LEMMA RunsOn ==
  ASSUME CommitInv, Alive, UNCHANGED loaderVars, told' => HalOTAChkDL(dl)'
  PROVE  CommitInv'
<1>1. mode = "run" /\ mode' = "run" /\ Settled
  BY DEF CommitInv, Alive, loaderVars
<1>2. Settled'
  BY <1>1 DEF Settled, loaderVars
<1> QED
  BY <1>1, <1>2 DEF CommitInv

\* The downloaded image is left alone, too.
LEMMA ImageStays ==
  ASSUME CommitInv, Alive, UNCHANGED <<flashVars, told>>
  PROVE  CommitInv' /\ UNCHANGED loaderVars
<1>1. told' => HalOTAChkDL(dl)'
  BY DEF CommitInv, HalOTAChkDL, CrcMatches, flashVars
<1> QED
  BY <1>1, RunsOn DEF flashVars

LEMMA IncomingCommits ==
  ASSUME ~BlockBeforeReset, ClientInv, CommitInv, ClientHdlIncoming
  PROVE  CommitInv' /\ UNCHANGED loaderVars
<1>1. PICK m \in toClient :
        \/ ProcessImageNotify(m) \/ ProcessQueryNextImageRsp(m)
        \/ ProcessImageBlockRsp(m) \/ ProcessWaitForData(m) \/ ProcessAbort(m)
        \/ ProcessUpgradeEndRsp(m)
  BY DEF ClientHdlIncoming
<1>2. Alive
  BY <1>1 DEF ProcessImageNotify, ProcessQueryNextImageRsp, ProcessImageBlockRsp,
    ProcessWaitForData, ProcessAbort, ProcessUpgradeEndRsp, Take
<1>3. CASE ProcessImageBlockRsp(m)
  <2>1. ~told /\ UNCHANGED <<told, loaderVars>>
    BY <1>3 DEF ProcessImageBlockRsp
  <2> QED
    BY <1>2, <2>1, RunsOn
<1>4. CASE ~ProcessImageBlockRsp(m)
  <2>1. UNCHANGED <<flashVars, told>>
    BY <1>1, <1>4 DEF ProcessImageNotify, ProcessQueryNextImageRsp, StartDownload,
      ProcessWaitForData, ProcessAbort, ProcessUpgradeEndRsp, clientVars,
      volatileVars
  <2> QED
    BY <1>2, <2>1, ImageStays
<1> QED
  BY <1>3, <1>4

\* The application is told of an image only when it is whole and checked.
LEMMA EventCommits ==
  ASSUME ClientInv, CommitInv,
         EventLoop \/ (\E e \in Events : TimerExpires(e)) \/ QueryServer
  PROVE  CommitInv' /\ UNCHANGED loaderVars
<1>1. CASE UpgradeWaitEvent /\ UpgradeNow
  <2>1. Alive /\ UNCHANGED flashVars
    BY <1>1 DEF UpgradeWaitEvent, Handle
  <2>2. status \in {"countdown", "wait"}
    BY <1>1 DEF UpgradeNow
  <2>3. HalOTAChkDL(dl)'
    BY <2>1, <2>2, WaitingIsChecked DEF HalOTAChkDL, CrcMatches, flashVars
  <2> QED
    BY <2>1, <2>3, RunsOn DEF flashVars
<1>2. CASE ~(UpgradeWaitEvent /\ UpgradeNow)
  <2>1. Alive
    BY DEF EventLoop, BlockWaitEvent, UpgradeWaitEvent, BlockRspTimeout, Handle,
      TimerExpires, QueryServer
  <2>2. UNCHANGED <<flashVars, told>>
    BY <1>2 DEF EventLoop, BlockWaitEvent, UpgradeWaitEvent, BlockRspTimeout,
      NextMinute, ImageBlockWaitExpired, AskAgain, NothingToUpgrade,
      TimerExpires, QueryServer, clientVars, volatileVars
  <2> QED
    BY <2>1, <2>2, ImageStays
<1> QED
  BY <1>1, <1>2

LEMMA NetworkCommits ==
  ASSUME CommitInv, Alive, Server \/ Lose
  PROVE  CommitInv' /\ UNCHANGED loaderVars
<1>1. UNCHANGED <<flashVars, told>>
  BY DEF Server, SrvQueryNextImage, SrvImageBlock, SrvUpgradeEnd,
    SendImageNotify, Lose, clientVars, volatileVars
<1> QED
  BY <1>1, ImageStays
\* The application commits itself to the image it was told of.
LEMMA InvalidateCommits ==
  ASSUME CommitInv, ProcessOTAMsgs
  PROVE  CommitInv'
<1>1. /\ told /\ mode = "run" /\ mode' = "boot" /\ told' = FALSE
      /\ crc' = <<"zero", crc[2]>> /\ dl' = dl
  BY DEF ProcessOTAMsgs, HalOTAInvRC, Reset
<1>2. HalOTAChkDL(dl) /\ Settled
  BY <1>1 DEF CommitInv
<1>3. crc'[1] = "zero" /\ crc'[2] \in Versions
  BY <1>1, <1>2 DEF Settled
<1>4. HalOTAChkDL(dl)'
  BY <1>1, <1>2 DEF HalOTAChkDL, CrcMatches
<1>5. Pending'
  BY <1>3, <1>4 DEF Pending
<1> QED
  BY <1>1, <1>5 DEF CommitInv

\* Where the copy may be interrupted it is still known what to copy.
LEMMA InterruptedCopy ==
  ASSUME ClientInv, Copying, crc # <<"erased", "erased">>
  PROVE  Pending
<1>1. oset \in Nat /\ CrcBlock \in Nat
  BY Sizes DEF ClientInv, FlashTypeOK
<1>2. CASE oset > CrcBlock
  BY <1>2 DEF Copying, Pending
<1>3. CASE ~(oset > CrcBlock)
  <2>1. oset <= CrcBlock
    BY <1>1, <1>3
  <2>2. oset = 0 /\ ~blank
    BY <1>1, <2>1 DEF Copying
  <2> QED
    BY <2>2 DEF Copying
<1> QED
  BY <1>2, <1>3

LEMMA PowerFailCommits ==
  ASSUME ~WindowFails, ClientInv, CommitInv, PowerFail
  PROVE  CommitInv'
<1>1. /\ mode' = "boot" /\ told' = FALSE /\ UNCHANGED <<dl, rc, crc>>
      /\ crc # <<"erased", "erased">> /\ mode # "dead"
  BY DEF PowerFail, FlashPowerFail, Reset
<1>2. Settled \/ Pending
  BY <1>1, InterruptedCopy DEF CommitInv, ClientInv, FlashTypeOK
<1>3. Settled' \/ Pending'
  BY <1>1, <1>2 DEF Settled, Pending, HalOTAChkDL, CrcMatches
<1> QED
  BY <1>1, <1>3 DEF CommitInv

LEMMA JumpCommits ==
  ASSUME CommitInv, BootLoader, Jump
  PROVE  CommitInv' /\ mode' = "run"
<1>1. Settled
  BY PendingCrc DEF CommitInv, Jump
<1>2. mode' = "run" /\ UNCHANGED <<rc, crc, told>>
  BY <1>1, SettledIsWhole DEF Jump, BootLoader, volatileVars
<1>3. Settled' /\ ~told
  BY <1>1, <1>2 DEF Settled, CommitInv, Jump
<1> QED
  BY <1>2, <1>3 DEF CommitInv

LEMMA ValidateCommits ==
  ASSUME ClientInv, CommitInv, BootLoader, Validate
  PROVE  CommitInv' /\ Pending /\ Settled'
<1>1. mode = "boot" /\ mode' = "boot" /\ crc[1] # crc[2] /\ RightCrc
  BY DEF Validate
<1>2. Pending
  BY <1>1 DEF CommitInv, Settled
<1>3. crc[1] = dl[CrcBlock] /\ crc[2] = "erased"
  BY <1>1, <1>2, PendingCrc
<1>4. crc' = <<crc[1], crc[1]>> /\ rc' = rc
  BY <1>3 DEF Validate, Overwrite
<1>5. crc[1] \in Versions \ Corrupt /\ \A b \in Blocks : rc[b] = crc[1]
  BY <1>1 DEF RightCrc, CrcMatches
<1>6. rc = AllOf(crc[1])
  BY <1>5 DEF AllOf, ClientInv, FlashTypeOK
<1>7. Settled'
  BY <1>4, <1>5, <1>6 DEF Settled
<1>8. ~told'
  BY <1>1 DEF CommitInv, BootLoader, volatileVars
<1> QED
  BY <1>1, <1>2, <1>7, <1>8 DEF CommitInv

LEMMA StartCommits ==
  ASSUME CommitInv, BootLoader, StartCopy
  PROVE  CommitInv' /\ Pending
<1>1. /\ mode = "boot" /\ mode' = "copy" /\ oset' = 0 /\ blank' = FALSE
      /\ crc[1] # crc[2] /\ UNCHANGED <<dl, rc, crc, told>>
  BY DEF StartCopy, BootLoader, volatileVars
<1>2. Pending
  BY <1>1 DEF CommitInv, Settled
<1>3. Pending'
  BY <1>1, <1>2 DEF Pending, HalOTAChkDL, CrcMatches
<1>4. Copied'
  BY <1>1 DEF Copied
<1>5. FirstOfPage(0)
  BY Sizes DEF FirstOfPage
<1>6. RestBlank'
  BY <1>1, <1>5 DEF RestBlank
<1>7. ~(0 > CrcBlock)
  BY Sizes
<1>8. Copying'
  BY <1>1, <1>3, <1>4, <1>6, <1>7 DEF Copying, Pending
<1> QED
  BY <1>1, <1>2, <1>8 DEF CommitInv

\* The block dl2rc is at, with what it has done so far.
LEMMA CopyState ==
  ASSUME ClientInv, CommitInv, mode = "copy"
  PROVE  /\ Copying /\ HalOTAChkDL(dl) /\ ~told
         /\ oset \in Nat /\ oset <= NBlocks /\ (oset \in Blocks <=> oset < NBlocks)
         /\ rc \in [Blocks -> Contents] /\ Blocks \subseteq Nat
<1>1. oset \in 0 .. NBlocks /\ NBlocks \in Nat
  BY Sizes DEF ClientInv, FlashTypeOK
<1>2. oset \in Nat /\ oset <= NBlocks /\ (oset \in Blocks <=> oset < NBlocks)
  BY <1>1 DEF Blocks
<1>3. rc \in [Blocks -> Contents] /\ Blocks \subseteq Nat
  BY DEF ClientInv, FlashTypeOK, Blocks
<1> QED
  BY <1>2, <1>3 DEF CommitInv, Copying

\* The first block of a page is in the page of the CRC only if it is the first
\* of all.
LEMMA CrcPage ==
  ASSUME NEW b \in Nat, FirstOfPage(b)
  PROVE  SamePage(CrcBlock, b) <=> b = 0
<1>1. SamePage(CrcBlock, 0)
  BY Sizes DEF SamePage
<1>2. SamePage(CrcBlock, b) => SamePage(b, 0)
  BY <1>1 DEF SamePage
<1>3. SamePage(b, 0) => b <= 0
  BY FirstIsLeast
<1> QED
  BY <1>1, <1>2, <1>3

LEMMA EraseCommits ==
  ASSUME ClientInv, CommitInv, BootLoader, ErasePage
  PROVE  CommitInv' /\ Copying /\ Copying'
<1>1. /\ mode = "copy" /\ mode' = "copy" /\ blank' = TRUE /\ ~blank
      /\ FirstOfPage(oset) /\ oset \in Blocks
      /\ rc' = [b \in Blocks |-> IF SamePage(b, oset) THEN "erased" ELSE rc[b]]
      /\ UNCHANGED <<dl, oset, told>>
      /\ crc' = IF SamePage(CrcBlock, oset) THEN <<"erased", "erased">> ELSE crc
  BY DEF ErasePage, BootLoader, volatileVars
<1>2. Copying /\ HalOTAChkDL(dl) /\ ~told /\ oset \in Nat /\ Blocks \subseteq Nat
      /\ oset < NBlocks
  BY <1>1, CopyState
<1>3. HalOTAChkDL(dl)'
  BY <1>1, <1>2 DEF HalOTAChkDL, CrcMatches
<1>4. Copied'
  <2>1. ASSUME NEW b \in 0 .. (oset - 1) PROVE rc'[b] = dl[CrcBlock]
    <3>1. b \in Nat /\ ~(oset <= b) /\ b < NBlocks
      BY <1>2, Sizes
    <3>2. b \in Blocks
      BY <3>1, Sizes DEF Blocks
    <3>3. ~SamePage(b, oset)
      BY <1>1, <1>2, <3>1, FirstIsLeast DEF SamePage
    <3> QED
      BY <1>1, <1>2, <3>2, <3>3 DEF Copying, Copied
  <2> QED
    BY <1>1, <2>1 DEF Copied
<1>5. RestBlank'
  BY <1>1 DEF RestBlank
<1>6. CASE oset = 0
  <2>1. crc' = <<"erased", "erased">>
    BY <1>1, <1>2, <1>6, CrcPage
  <2>2. ~(oset > CrcBlock)
    BY <1>6, Sizes
  <2>3. Copying'
    BY <1>1, <1>3, <1>4, <1>5, <2>1, <2>2 DEF Copying
  <2> QED
    BY <1>1, <1>2, <2>3 DEF CommitInv
<1>7. CASE oset # 0
  <2>1. crc' = crc
    BY <1>1, <1>2, <1>7, CrcPage
  <2>2. oset > 0
    BY <1>2, <1>7
  <2>3. /\ oset <= CrcBlock => crc = <<"erased", "erased">>
        /\ oset > CrcBlock => crc = <<dl[CrcBlock], "erased">>
    BY <1>2, <2>2 DEF Copying
  <2>4. Copying'
    BY <1>1, <1>3, <1>4, <1>5, <1>7, <2>1, <2>3 DEF Copying
  <2> QED
    BY <1>1, <1>2, <2>4 DEF CommitInv
<1> QED
  BY <1>6, <1>7

LEMMA WriteCommits ==
  ASSUME ClientInv, CommitInv, BootLoader, WriteBlock
  PROVE  CommitInv' /\ Copying /\ Copying'
<1> DEFINE w == dl[CrcBlock]
<1>1. /\ mode = "copy" /\ mode' = "copy" /\ blank' = FALSE
      /\ FirstOfPage(oset) => blank
      /\ oset \in Blocks /\ oset' = oset + 1 /\ UNCHANGED <<dl, told>>
      /\ rc' = [rc EXCEPT ![oset] = Overwrite(@, dl[oset])]
      /\ crc' = IF oset = CrcBlock THEN <<dl[oset], "erased">> ELSE crc
  BY DEF WriteBlock, BootLoader, volatileVars
<1>2. /\ Copying /\ HalOTAChkDL(dl) /\ ~told /\ oset \in Nat
      /\ Blocks \subseteq Nat /\ oset < NBlocks /\ rc \in [Blocks -> Contents]
  BY <1>1, CopyState
<1>3. HalOTAChkDL(dl)' /\ dl[oset] = w
  BY <1>1, <1>2, CheckedImage DEF HalOTAChkDL, CrcMatches
<1>4. rc[oset] = "erased"
  <2>1. oset >= oset /\ SamePage(oset, oset)
    BY <1>2 DEF SamePage
  <2> QED
    BY <1>1, <1>2, <2>1 DEF Copying, RestBlank
<1>5. rc'[oset] = w /\ \A b \in Blocks : b # oset => rc'[b] = rc[b]
  BY <1>1, <1>2, <1>3, <1>4 DEF Overwrite
<1>6. Copied'
  <2>1. ASSUME NEW b \in 0 .. oset PROVE rc'[b] = w
    <3>1. b \in Nat /\ b < NBlocks /\ (b = oset \/ b \in 0 .. (oset - 1))
      BY <1>2, Sizes
    <3>2. b \in Blocks
      BY <3>1, Sizes DEF Blocks
    <3> QED
      BY <1>2, <1>5, <3>1, <3>2 DEF Copying, Copied
  <2>2. oset' - 1 = oset
    BY <1>1, <1>2
  <2>3. \A b \in 0 .. (oset' - 1) : rc'[b] = w
    BY <2>1, <2>2
  <2> QED
    BY <1>1, <2>3 DEF Copied
<1>7. RestBlank'
  <2> SUFFICES ASSUME oset + 1 \in Blocks, ~FirstOfPage(oset + 1),
                      NEW c \in Blocks, c >= oset + 1, SamePage(c, oset + 1)
               PROVE  rc'[c] = "erased"
    BY <1>1 DEF RestBlank
  <2>1. c >= oset /\ c # oset /\ SamePage(c, oset)
    BY <1>2, NextInPage DEF SamePage
  <2>2. rc[c] = "erased"
    BY <1>1, <1>2, <2>1 DEF Copying, RestBlank
  <2> QED
    BY <1>5, <2>1, <2>2
<1>8. ~(oset' = 0)
  BY <1>1, <1>2
<1>9. oset' <= CrcBlock => crc' = <<"erased", "erased">>
  <2> SUFFICES ASSUME oset + 1 <= CrcBlock PROVE crc' = <<"erased", "erased">>
    BY <1>1
  <2>1. oset < CrcBlock /\ oset <= CrcBlock
    BY <1>2, Sizes
  <2>2. oset > 0 \/ blank
    <3>1. oset = 0 => FirstOfPage(oset)
      BY Sizes DEF FirstOfPage
    <3> QED
      BY <1>1, <1>2, <3>1
  <2>3. crc' = crc
    BY <1>1, <1>2, <2>1, Sizes
  <2> QED
    BY <1>2, <2>1, <2>2, <2>3 DEF Copying
<1>10. oset' > CrcBlock => crc' = <<w, "erased">>
  <2>1. CASE oset = CrcBlock
    BY <1>1, <2>1
  <2>2. CASE oset # CrcBlock
    <3>1. oset' > CrcBlock => oset > CrcBlock
      BY <1>1, <1>2, <2>2, Sizes
    <3>2. crc' = crc
      BY <1>1, <2>2
    <3> QED
      BY <1>2, <3>1, <3>2 DEF Copying
  <2> QED
    BY <2>1, <2>2
<1>11. Copying'
  BY <1>1, <1>3, <1>6, <1>7, <1>8, <1>9, <1>10 DEF Copying
<1> QED
  BY <1>1, <1>2, <1>11 DEF CommitInv

LEMMA EndCommits ==
  ASSUME ClientInv, CommitInv, BootLoader, EndCopy
  PROVE  CommitInv' /\ Copying /\ Pending'
<1>1. /\ mode = "copy" /\ mode' = "boot" /\ oset = NBlocks
      /\ UNCHANGED <<dl, rc, crc, told>>
  BY DEF EndCopy, BootLoader, volatileVars
<1>2. Copying /\ ~told
  BY <1>1, CopyState
<1>3. Pending
  BY <1>1, <1>2, Sizes DEF Copying, Pending
<1>4. Pending'
  BY <1>1, <1>3 DEF Pending, HalOTAChkDL, CrcMatches
<1> QED
  BY <1>1, <1>2, <1>4 DEF CommitInv
-----------------------------------------------------------------------------
LEMMA BootCommits ==
  ASSUME ClientInv, CommitInv, BootLoader
  PROVE  CommitInv'
BY JumpCommits, ValidateCommits, StartCommits, EraseCommits, WriteCommits,
   EndCommits
DEF BootLoader, Boot

LEMMA InitCommits == Init => CommitInv
<1> SUFFICES ASSUME Init PROVE CommitInv
  OBVIOUS
<1>1. Settled
  BY Sizes DEF Init, FlashInit, Settled
<1> QED
  BY <1>1 DEF Init, FlashInit, CommitInv

LEMMA NextCommits ==
  ASSUME ~WindowFails, ~BlockBeforeReset
  PROVE  ClientInv /\ CommitInv /\ [Next]_vars => CommitInv'
<1> SUFFICES ASSUME ClientInv, CommitInv, [Next]_vars PROVE CommitInv'
  OBVIOUS
<1>1. CASE ClientHdlIncoming
  BY <1>1, IncomingCommits
<1>2. CASE EventLoop \/ (\E e \in Events : TimerExpires(e)) \/ QueryServer
  BY <1>2, EventCommits
<1>3. CASE ProcessOTAMsgs
  BY <1>3, InvalidateCommits
<1>4. CASE BootLoader
  BY <1>4, BootCommits
<1>5. CASE PowerFail
  BY <1>5, PowerFailCommits
<1>6. CASE Alive /\ (Server \/ Lose)
  BY <1>6, NetworkCommits
<1>7. CASE UNCHANGED vars
  BY <1>7 DEF CommitInv, Settled, Pending, Copying, Copied, RestBlank,
    HalOTAChkDL, CrcMatches, vars, clientVars, volatileVars, flashVars, loaderVars
<1> QED
  BY <1>1, <1>2, <1>3, <1>4, <1>5, <1>6, <1>7 DEF Next, Run

\* The device's promise (dl2rc, main): unless the power fails in the window in
\* which both CRC words are erased, or a block is written between the callback
\* and the reset, what is started is always one whole image with a right CRC.
THEOREM RunsOnlyWholeImages ==
  ASSUME ~WindowFails, ~BlockBeforeReset
  PROVE  Spec => []DownloadOK
<1>1. ClientInv /\ CommitInv => DownloadOK
  BY ClientInvType DEF ClientInv, Download, CommitInv, DownloadOK, RunsWholeImage
<1>2. ClientInv /\ CommitInv /\ [Next]_vars => CommitInv'
  BY NextCommits
<1> QED
  BY <1>1, <1>2, InitIsOrdered, NextIsOrdered, InitCommits, PTL DEF Spec
-----------------------------------------------------------------------------
(***************************************************************************)
(* The installation as one step.                                           *)
(***************************************************************************)

\* A settled device is committed to what it runs.
LEMMA SettledCommitted ==
  ASSUME Settled
  PROVE  Committed = rc[0] /\ crc[1] = rc[0]
<1>1. PICK v \in Versions \ Corrupt : rc = AllOf(v) /\ crc = <<v, v>>
  BY DEF Settled
<1>2. rc[0] = v /\ v # "erased"
  BY <1>1, Sizes DEF AllOf, Blocks
<1> QED
  BY <1>1, <1>2 DEF Committed

\* From the invalidation to the validation it is committed to the download.
LEMMA PendingCommitted ==
  ASSUME ClientInv, Pending \/ Copying
  PROVE  Committed = dl[CrcBlock]
<1> DEFINE w == dl[CrcBlock]
<1>1. HalOTAChkDL(dl) /\ w \in Versions \ Corrupt /\ dl[0] = w
  BY CheckedImage DEF Pending, Copying
<1>2. RightCrc => crc[1] # "erased" /\ crc[1] # "zero" /\ rc[0] = crc[1]
  BY Sizes DEF RightCrc, CrcMatches, Blocks
<1>3. CASE Pending
  <2>1. crc[1] # crc[2] /\ (RightCrc => crc[1] = w)
    BY <1>3, PendingCrc
  <2> QED
    BY <1>1, <1>2, <2>1 DEF Committed
<1>4. CASE crc = <<"erased", "erased">>
  BY <1>1, <1>2, <1>4 DEF Committed
<1> QED
  BY <1>3, <1>4, InterruptedCopy

\* The version staged is none, or one there is; told, it is a checked one.
LEMMA StagedType ==
  ASSUME CommitInv
  PROVE  /\ Staged \in Versions \cup {"none"}
         /\ ~told => Staged = "none"
         /\ told => Staged = dl[CrcBlock] /\ Staged # "none"
BY CheckedImage, Sizes DEF CommitInv, Staged, NoVersion

\* A step of the running application stages a version, or none.
LEMMA RunIsStage ==
  ASSUME CommitInv, CommitInv', Alive, UNCHANGED loaderVars
  PROVE  Promise!Stage
<1>1. Settled /\ Settled' /\ Alive'
  BY DEF CommitInv, Alive, loaderVars
<1>2. Committed' = Committed
  <2>1. Committed = rc[0]
    BY <1>1, SettledCommitted
  <2>2. (Committed = rc[0])'
    BY <1>1, SettledCommitted, PTL
  <2> QED
    BY <2>1, <2>2 DEF loaderVars
<1>3. (Staged \in Versions \cup {"none"})'
  BY StagedType, PTL
<1> QED
  BY <1>1, <1>2, <1>3 DEF Promise!Stage
\* The same, in the state after a step.
LEMMA CommittedNext ==
  ASSUME ClientInv', CommitInv'
  PROVE  /\ Settled' => Committed' = rc'[0]
         /\ Pending' \/ Copying' => Committed' = dl'[CrcBlock]
         /\ ~told' => Staged' = "none"
<1>1. (Settled => Committed = rc[0])'
  BY SettledCommitted, PTL
<1>2. (Pending \/ Copying => Committed = dl[CrcBlock])'
  BY PendingCommitted, PTL
<1>3. (~told => Staged = "none")'
  BY StagedType, PTL
<1> QED
  BY <1>1, <1>2, <1>3

\* The reset after the callback is the commitment.
LEMMA InvalidateIsCommit ==
  ASSUME ClientInv, CommitInv, ClientInv', CommitInv', ProcessOTAMsgs
  PROVE  Promise!Commit
<1>1. /\ told /\ ~told' /\ Alive /\ ~Alive' /\ dl' = dl
      /\ crc' = <<"zero", crc[2]>>
  BY DEF ProcessOTAMsgs, HalOTAInvRC, Reset, Alive
<1>2. Staged = dl[CrcBlock] /\ Staged # "none" /\ Settled
  BY <1>1, StagedType DEF CommitInv
<1>3. ~Settled'
  BY <1>1, Sizes DEF Settled
<1>4. Pending'
  BY <1>1, <1>3 DEF CommitInv, ProcessOTAMsgs, HalOTAInvRC
<1>5. Committed' = dl[CrcBlock] /\ Staged' = "none"
  BY <1>1, <1>4, CommittedNext
<1> QED
  BY <1>1, <1>2, <1>5 DEF Promise!Commit, Alive

\* Without power the device is down, and nothing is forgotten.
LEMMA PowerFailIsDown ==
  ASSUME ClientInv, CommitInv, ClientInv', CommitInv', PowerFail
  PROVE  Promise!Down \/ UNCHANGED Promise!vars
<1>1. ~told' /\ ~Alive' /\ UNCHANGED <<dl, rc, crc>>
  BY DEF PowerFail, FlashPowerFail, Reset, Alive
<1>2. Committed' = Committed
  BY <1>1 DEF Committed, RightCrc, CrcMatches
<1>3. Staged' = "none"
  BY <1>1, CommittedNext
<1>4. CASE Alive
  BY <1>1, <1>2, <1>3, <1>4 DEF Promise!Down, Alive
<1>5. CASE ~Alive
  <2>1. Staged = "none"
    BY <1>5, StagedType DEF CommitInv, Alive
  <2> QED
    BY <1>1, <1>2, <1>3, <1>5, <2>1 DEF Promise!vars, Alive
<1> QED
  BY <1>4, <1>5

\* The steps of the boot loader are seen only when it starts the image.
LEMMA BootIsUp ==
  ASSUME ClientInv, CommitInv, ClientInv', CommitInv', BootLoader
  PROVE  Promise!Up \/ UNCHANGED Promise!vars
<1>1. ~Alive /\ ~told /\ ~told'
  BY DEF BootLoader, Boot, Jump, Validate, StartCopy, ErasePage, WriteBlock,
    EndCopy, volatileVars, Alive, CommitInv
<1>2. Staged = "none" /\ Staged' = "none"
  BY <1>1, StagedType, CommittedNext
<1>3. CASE Jump
  <2>1. Alive' /\ UNCHANGED <<dl, rc, crc>>
    BY <1>3, JumpCommits DEF Alive, Jump
  <2>2. Committed' = Committed
    BY <2>1 DEF Committed, RightCrc, CrcMatches
  <2> QED
    BY <1>1, <1>2, <2>1, <2>2 DEF Promise!Up, Alive
<1>4. CASE Validate \/ StartCopy \/ ErasePage \/ WriteBlock \/ EndCopy
  <2>1. ~Alive' /\ dl' = dl
    BY <1>4 DEF Validate, StartCopy, ErasePage, WriteBlock, EndCopy, Alive
  <2>2. Committed = dl[CrcBlock]
    BY <1>4, ValidateCommits, StartCommits, EraseCommits, WriteCommits,
       EndCommits, PendingCommitted
  <2>3. Committed' = dl[CrcBlock]
    <3>1. CASE Validate
      <4>1. Pending /\ Settled' /\ rc' = rc /\ RightCrc
        BY <3>1, ValidateCommits DEF Validate
      <4>2. Committed' = rc[0] /\ Committed = rc[0]
        BY <4>1, CommittedNext DEF Committed
      <4> QED
        BY <2>2, <4>2
    <3>2. CASE StartCopy
      BY <3>2, <2>2 DEF StartCopy, Committed, RightCrc, CrcMatches
    <3>3. CASE ErasePage
      BY <2>1, <3>3, EraseCommits, CommittedNext
    <3>4. CASE WriteBlock
      BY <2>1, <3>4, WriteCommits, CommittedNext
    <3>5. CASE EndCopy
      BY <2>1, <3>5, EndCommits, CommittedNext
    <3> QED
      BY <1>4, <3>1, <3>2, <3>3, <3>4, <3>5
  <2> QED
    BY <1>1, <1>2, <2>1, <2>2, <2>3 DEF Promise!vars, Alive
<1> QED
  BY <1>3, <1>4 DEF BootLoader, Boot

LEMMA InitIsPromised == Init => Promise!Init
<1> SUFFICES ASSUME Init PROVE Promise!Init
  OBVIOUS
<1>1. Settled /\ rc[0] = First
  BY Sizes DEF Init, FlashInit, Settled, AllOf, Blocks
<1>2. Committed = First
  BY <1>1, SettledCommitted
<1>3. Staged = "none" /\ Alive
  BY DEF Init, FlashInit, Staged, NoVersion, Alive
<1> QED
  BY <1>2, <1>3 DEF Promise!Init, Alive

LEMMA NextIsPromised ==
  ASSUME ~WindowFails, ~BlockBeforeReset
  PROVE  /\ ClientInv /\ CommitInv /\ ClientInv' /\ CommitInv'
         /\ [Next]_vars
         => [Promise!Next]_Promise!vars
<1> SUFFICES ASSUME ClientInv, CommitInv, ClientInv', CommitInv', [Next]_vars
             PROVE  [Promise!Next]_Promise!vars
  OBVIOUS
<1>1. CASE ClientHdlIncoming
  <2>1. Alive
    BY <1>1 DEF ClientHdlIncoming, ProcessImageNotify, ProcessQueryNextImageRsp,
      ProcessImageBlockRsp, ProcessWaitForData, ProcessAbort,
      ProcessUpgradeEndRsp, Take
  <2> QED
    BY <1>1, <2>1, IncomingCommits, RunIsStage DEF Promise!Next
<1>2. CASE EventLoop \/ (\E e \in Events : TimerExpires(e)) \/ QueryServer
  <2>1. Alive
    BY <1>2 DEF EventLoop, BlockWaitEvent, UpgradeWaitEvent, BlockRspTimeout,
      Handle, TimerExpires, QueryServer
  <2> QED
    BY <1>2, <2>1, EventCommits, RunIsStage DEF Promise!Next
<1>3. CASE ProcessOTAMsgs
  BY <1>3, InvalidateIsCommit DEF Promise!Next
<1>4. CASE BootLoader
  BY <1>4, BootIsUp DEF Promise!Next
<1>5. CASE PowerFail
  BY <1>5, PowerFailIsDown DEF Promise!Next
<1>6. CASE Alive /\ (Server \/ Lose)
  BY <1>6, NetworkCommits, RunIsStage DEF Promise!Next
<1>7. CASE UNCHANGED vars
  <2>1. UNCHANGED <<dl, rc, crc, mode, told>>
    BY <1>7 DEF vars, clientVars, volatileVars, flashVars, loaderVars
  <2> QED
    BY <2>1 DEF Promise!vars, Committed, RightCrc, CrcMatches, Staged,
      HalOTAChkDL, Alive
<1> QED
  BY <1>1, <1>2, <1>3, <1>4, <1>5, <1>6, <1>7 DEF Next, Run

\* The safety part of ImplementsInstall: under the same two assumptions, from
\* the first block to the start of the new image (HalOTAInvRC, main, dl2rc),
\* the device commits itself to a whole checked image in a single step, no loss
\* of power takes that back, and it comes up with the image it is committed to.
THEOREM InstallsInOneStep ==
  ASSUME ~WindowFails, ~BlockBeforeReset
  PROVE  Spec => Promise!Steps
<1>1. ClientInv /\ CommitInv /\ [Next]_vars => CommitInv'
  BY NextCommits
<1>2. /\ ClientInv /\ CommitInv /\ ClientInv' /\ CommitInv' /\ [Next]_vars
      => [Promise!Next]_Promise!vars
  BY NextIsPromised
<1> QED
  BY <1>1, <1>2, InitIsOrdered, NextIsOrdered, InitCommits, InitIsPromised, PTL
  DEF Spec, Promise!Steps
=============================================================================
