------------------------------ MODULE MacRadio ------------------------------
(***************************************************************************)
(* The low level of the MAC (Components/mac/low_level/srf04): the transmit *)
(* logic of mac_tx.c, the receive state machine of mac_rx.c, the receiver  *)
(* on/off logic, the channel changes and the sleep of the radio, driven by *)
(* MAC tasks in the foreground and by the RF interrupts, which may come    *)
(* between any two steps of the foreground outside critical sections.      *)
(*                                                                         *)
(* The handlers call each other many levels deep within one interrupt, so  *)
(* each is an operator from the driver's record r to the record it leaves; *)
(* an action applies one.  The fields are the static variables of the      *)
(* files and the radio's registers.  A byte threshold of the receive FIFO  *)
(* is one segment of a frame.  Only unslotted CSMA is used without         *)
(* beacons.  Left out are slotted transmits, promiscuous mode, and         *)
(* macRxHardDisable, which in this source only macRxTxReset and the        *)
(* slotted transmit call: it would cut a transmit that is under way.       *)
(***************************************************************************)
EXTENDS Naturals, Sequences, FiniteSets

CONSTANTS
  Frames,        \* frames on the air: records [ack, ackReq, match, crcOK, payload]
  Channels,      \* channels of macRadioSetChannel
  MaxBackoffs,   \* macPib.maxCsmaBackoffs
  FifoSize,      \* segments the receive FIFO holds
  MaxTx,         \* bound: frames the MAC transmits
  MaxFrames,     \* bound: frames that arrive
  MaxRequests    \* bound: other requests of the MAC (enable, disable, channel, sleep)

ASSUME FramesAssumption ==
  \A f \in Frames : /\ {f.ack, f.ackReq, f.match, f.crcOK} \subseteq BOOLEAN
                    /\ f.payload \in Nat
ASSUME BoundsAssumption ==
  /\ {MaxBackoffs, FifoSize, MaxTx, MaxFrames, MaxRequests} \subseteq Nat
  /\ Channels # {}

VARIABLES
  r,          \* the driver's variables and the radio's registers
  pc,         \* where the foreground is within a call of the driver
  isr,        \* "out", or "fifop" when macMcuRfIsr is at its second half
  arrivals,   \* frames arrived so far
  requests,   \* other requests so far
  soft        \* history: macRxSoftEnable has enabled a receiver that was off,
              \* and nothing has turned it on since

vars == <<r, pc, isr, arrivals, requests, soft>>

Segments(f) ==
  IF f.ack THEN <<[part |-> "ack", of |-> f]>>
  ELSE [i \in 1 .. f.payload + 3 |->
         [part |-> CASE i = 1 -> "hdr" [] i = 2 -> "addr"
                     [] i = f.payload + 3 -> "fcs" [] OTHER -> "payload",
          of |-> f]]

Init ==
  /\ \E c \in Channels :
       r = [ \* mac_tx.c, and what the high level wants sent (pMacDataTx)
             macTxActive |-> "NO_ACTIVITY", nb |-> 0, txAckReq |-> FALSE,
             wanted |-> 0, sent |-> 0, status |-> "SUCCESS",
             \* mac_rx.c
             macRxActive |-> "NO_ACTIVITY", macRxOutgoingAckFlag |-> FALSE,
             rxState |-> "start", pRxBuf |-> FALSE, rxUnread |-> 0,
             rxIsrActiveFlag |-> FALSE, rxResetFlag |-> FALSE,
             \* mac_rx_onoff.c, mac_radio.c, mac_sleep.c
             macRxOnFlag |-> FALSE, macRxEnableFlags |-> FALSE,
             reqChannel |-> c, macPhyChannel |-> c, asleep |-> FALSE,
             \* interrupt flags and masks, strobe processor
             stopF |-> FALSE, stopM |-> FALSE, intF |-> FALSE, intM |-> FALSE,
             ackF |-> FALSE, ackM |-> FALSE, csp |-> "idle", cspz |-> "BUSY",
             \* receiver and FIFOs
             fifo |-> << >>, air |-> << >>, nack |-> FALSE, ackDue |-> FALSE,
             overflow |-> FALSE, rferr |-> FALSE,
             \* what went wrong: asserts that failed, and other events
             faults |-> {} ]
  /\ pc = "idle"
  /\ isr = "out"
  /\ arrivals = 0
  /\ requests = 0
  /\ soft = FALSE

EnabledAndOff(s) == s.macRxEnableFlags /\ ~s.macRxOnFlag

\* What every step but macRxSoftEnable's makes of the history.
FollowSoft == soft' = (soft /\ EnabledAndOff(r'))

-----------------------------------------------------------------------------
(* The radio                                                                *)

\* MAC_ASSERT, and other conditions whose failure is kept.
Require(s, cond, what) == IF cond THEN s ELSE [s EXCEPT !.faults = @ \cup {what}]

\* Flushing the receive FIFO also drops the frame being received.
FlushRxFifo(s) == [s EXCEPT !.fifo = << >>, !.air = << >>, !.overflow = FALSE]

\* MAC_RADIO_RXTX_OFF: everything on the air ends.
RxTxOff(s) == [s EXCEPT !.air = << >>, !.ackDue = FALSE]

\* SNACK: of no use once the frame has ended.
CancelTxAck(s) == [s EXCEPT !.nack = TRUE]

\* cspPrepForTxProgram
CspPrepForTxProgram(s) ==
  [Require(s, ~s.stopM, "cspActive") EXCEPT
     !.cspz = "BUSY", !.csp = "idle", !.stopF = FALSE, !.intF = FALSE]

\* macCspTxRequestAckTimeoutCallback
CspTxRequestAckTimeout(s) ==
  [Require(s, ~s.stopM, "cspActive") EXCEPT
     !.cspz = "TIMEOUT", !.csp = "ackwait", !.stopF = FALSE, !.stopM = TRUE]

\* macCspTxCancelAckTimeoutCallback: stopping a program raises the flag again.
CspTxCancelAckTimeout(s) == [s EXCEPT !.stopM = FALSE, !.csp = "idle", !.stopF = TRUE]

-----------------------------------------------------------------------------
(* Receiver on and off                                                      *)

RxIsPhysicallyActive(s) == s.macRxActive = "STARTED" \/ s.macRxOutgoingAckFlag
TxIsPhysicallyActive(s) ==
  s.macTxActive \in {"GO", "DONE", "LISTEN_FOR_ACK", "POST_ACK"}

MacRxOn(s) == [s EXCEPT !.macRxOnFlag = TRUE]

MacRxOff(s) ==
  IF s.macRxOnFlag
    THEN FlushRxFifo(RxTxOff([Require(s, s.csp # "tx", "txCut") EXCEPT !.macRxOnFlag = FALSE]))
    ELSE s

MacRxOnRequest(s) == IF s.macRxEnableFlags THEN MacRxOn(s) ELSE s

\* Mutant: an outgoing acknowledgement does not keep the receiver on.
MacRxOffRequestInAck(s) ==
  IF s.macRxEnableFlags \/ s.macRxActive = "STARTED" \/ TxIsPhysicallyActive(s) THEN s
  ELSE MacRxOff(s)

\* Turning off is refused while anything needs the receiver.
MacRxOffRequest(s) ==
  IF s.macRxEnableFlags \/ RxIsPhysicallyActive(s) \/ TxIsPhysicallyActive(s) THEN s
  ELSE MacRxOff(s)

-----------------------------------------------------------------------------
(* Transmit, first half: what starts a frame                                *)

\* macCspTxGoCsma
CspTxGoCsma(s) == [MacRxOn(s) EXCEPT !.stopM = TRUE, !.intM = TRUE, !.csp = "csma"]

\* The first half of txGo, which macTxFrame reaches with interrupts enabled.
CancelAckTxDone(s) == [s EXCEPT !.ackM = FALSE, !.macRxOutgoingAckFlag = FALSE]
TxGo(s) == CspTxGoCsma(CancelAckTxDone(s))

MacTxStartQueuedFrame(s) ==
  LET q == Require(s, s.macRxActive = "NO_ACTIVITY" /\ ~s.macRxOutgoingAckFlag, "queuedInRx")
  IN  IF q.macTxActive = "QUEUED" THEN TxGo([q EXCEPT !.macTxActive = "GO"]) ELSE q

RxPostRxUpdates(s) == MacTxStartQueuedFrame(MacRxOffRequest(s))

\* rxHaltCleanupFinalStep
RxHaltCleanupFinalStep(s) ==
  LET c == [FlushRxFifo(s) EXCEPT !.ackM = FALSE, !.pRxBuf = FALSE, !.rxState = "start"]
  IN  IF s.macRxActive # "NO_ACTIVITY" \/ s.macRxOutgoingAckFlag
        THEN RxPostRxUpdates([c EXCEPT !.macRxActive = "NO_ACTIVITY",
                                       !.macRxOutgoingAckFlag = FALSE])
        ELSE c

\* Within the receive interrupt the cleanup is left to its end.
MacRxHaltCleanup(s) ==
  IF s.rxIsrActiveFlag THEN [s EXCEPT !.rxResetFlag = TRUE] ELSE RxHaltCleanupFinalStep(s)

\* Mutant: the receiver is not turned on again on the new channel.
MacRadioUpdateChannelOff(s) ==
  LET a == Require(s, s.macTxActive = "NO_ACTIVITY", "channelInTx")
  IN  IF a.reqChannel = a.macPhyChannel THEN a
      ELSE MacRxHaltCleanup([MacRxOff(a) EXCEPT !.macPhyChannel = a.reqChannel])

MacRadioUpdateChannel(s) ==
  LET a == Require(s, s.macTxActive = "NO_ACTIVITY", "channelInTx")
  IN  IF a.reqChannel = a.macPhyChannel THEN a
      ELSE MacRxOnRequest(MacRxHaltCleanup(
             [MacRxOff(a) EXCEPT !.macPhyChannel = a.reqChannel]))

-----------------------------------------------------------------------------
(* Transmit, second half: what ends a frame                                 *)

\* txComplete, with the callback that tells the high level.
TxComplete(s, status) ==
  LET e == MacRadioUpdateChannel(MacRxOffRequest(
             [s EXCEPT !.macTxActive = "NO_ACTIVITY"]))
  IN  [Require(e, e.wanted # 0, "noRequest") EXCEPT !.status = status, !.wanted = 0]

\* Mutant: the channel was busy once more than allowed.
TooOftenBusyLoose(s) == s.nb > MaxBackoffs + 1
TooOftenBusy(s) == s.nb > MaxBackoffs

MacTxChannelBusyCallback(s) ==
  LET b == MacRxOffRequest([s EXCEPT !.macTxActive = "CHANNEL_BUSY"])
      n == [b EXCEPT !.nb = @ + 1]
  IN  IF TooOftenBusy(n) THEN TxComplete(n, "CHANNEL_ACCESS_FAILURE")
      ELSE CspTxGoCsma([CspPrepForTxProgram(n) EXCEPT !.macTxActive = "GO"])

MacTxDoneCallback(s) ==
  IF s.macTxActive # "GO" THEN s
  ELSE IF ~s.txAckReq THEN TxComplete([s EXCEPT !.macTxActive = "DONE"], "SUCCESS")
  ELSE CspTxRequestAckTimeout([s EXCEPT !.macTxActive = "LISTEN_FOR_ACK"])

\* Mutant: an acknowledgement, or another frame, ends any transmit.
MacTxAckEndUngated(s, status) ==
  TxComplete(CspTxCancelAckTimeout([s EXCEPT !.macTxActive = "POST_ACK"]), status)

\* macTxAckReceivedCallback and macTxAckNotReceivedCallback
MacTxAckEnd(s, status) ==
  IF s.macTxActive # "LISTEN_FOR_ACK" THEN s
  ELSE TxComplete(CspTxCancelAckTimeout([s EXCEPT !.macTxActive = "POST_ACK"]), status)

\* macCspForceTxDoneIfPending
CspForceTxDoneIfPending(s) ==
  IF s.cspz = "DONE" /\ s.stopM
    THEN MacTxDoneCallback([s EXCEPT !.stopM = FALSE, !.intM = FALSE])
    ELSE s

\* macCspTxStopIsr
CspTxStopIsr(s) ==
  LET d == [s EXCEPT !.stopF = FALSE, !.stopM = FALSE]
  IN  CASE d.cspz = "DONE" -> MacTxDoneCallback(d)
        [] d.cspz = "BUSY" -> MacTxChannelBusyCallback(d)
        [] OTHER -> MacTxAckEnd(d, "NO_ACK")

-----------------------------------------------------------------------------
(* Receive                                                                  *)

RxDone(s) ==
  LET d == [IF s.overflow THEN FlushRxFifo(s) ELSE s EXCEPT !.macRxActive = "NO_ACTIVITY"]
  IN  IF d.macRxOutgoingAckFlag THEN d ELSE RxPostRxUpdates(d)

\* rxDiscardFrame: the rest of the frame is read and dropped.
RxDiscardFrame(s, f) == [s EXCEPT !.rxState = "discard", !.rxUnread = f.payload + 2]

\* rxPrepPayload
RxPrepPayload(s) == [s EXCEPT !.rxState = IF s.rxUnread = 0 THEN "fcs" ELSE "payload"]

\* An acknowledgement is handled at once.
RxAck(s, f) ==
  RxDone(MacTxAckEnd(s, IF f.crcOK /\ f.match THEN "SUCCESS" ELSE "NO_ACK"))

\* Any other frame ends the wait for one; then the filter, the allocation of
\* the buffer and the outgoing acknowledgement.
RxFrame(s, f, fate) ==
  LET e == MacTxAckEnd(s, "NO_ACK")
      a == [e EXCEPT !.pRxBuf = TRUE, !.macRxOutgoingAckFlag = f.ackReq,
                     !.ackF = @ /\ ~f.ackReq, !.ackM = @ \/ f.ackReq,
                     !.rxState = "addr", !.rxUnread = f.payload]
  IN  CASE fate = "filtered" -> RxDiscardFrame(e, f)
        [] fate = "noBuffer" -> RxDiscardFrame(CancelTxAck(e), f)
        [] OTHER -> a

\* rxStartIsr.  Reading an empty FIFO gives bytes that mean nothing; the reset
\* that emptied it follows at the end of the interrupt.
RxStartIsr(s, fate) ==
  LET a == [Require(s, s.macRxActive = "NO_ACTIVITY", "rxOnRx") EXCEPT !.macRxActive = "STARTED"]
      b == CancelAckTxDone(CspForceTxDoneIfPending(a))
      h == Head(b.fifo)
      c == [b EXCEPT !.fifo = Tail(@)]
  IN  IF ~a.macRxOnFlag \/ a.fifo = << >>
        THEN RxPostRxUpdates([a EXCEPT !.macRxActive = "NO_ACTIVITY"])
      ELSE IF b.fifo = << >> THEN b
      ELSE IF h.part = "ack" THEN RxAck(c, h.of)
      ELSE RxFrame(c, h.of, fate)

\* rxAddrIsr, with the errors of the security header.
RxAddrIsr(s, fate) ==
  IF fate = "badSecurity" THEN MacRxHaltCleanup(CancelTxAck(s)) ELSE RxPrepPayload(s)

RxPayloadIsr(s) == RxPrepPayload([s EXCEPT !.rxUnread = @ - 1])

RxDiscardIsr(s) ==
  LET d == [s EXCEPT !.rxUnread = @ - 1]
  IN  IF d.rxUnread # 0 THEN d ELSE RxDone([d EXCEPT !.rxState = "start"])

\* rxFcsIsr: a good frame goes up, a bad one takes its acknowledgement back.
RxFcsIsr(s, f) ==
  LET done == IF f.crcOK THEN MacRxOffRequest([s EXCEPT !.macRxActive = "DONE"])
              ELSE CancelAckTxDone(s)
  IN  RxDone([done EXCEPT !.pRxBuf = FALSE, !.rxState = "start"])

\* The state behind pFuncRxState reads a segment and moves on.
RxStateIsr(s, fate) ==
  LET c == [s EXCEPT !.fifo = Tail(@)]
  IN  CASE s.rxState = "start"   -> RxStartIsr(s, fate)
        [] s.rxState = "addr"    -> RxAddrIsr(c, fate)
        [] s.rxState = "payload" -> RxPayloadIsr(c)
        [] s.rxState = "discard" -> RxDiscardIsr(c)
        [] s.rxState = "fcs"     -> RxFcsIsr(c, Head(s.fifo).of)

MacRxThresholdIsr(s, fate) ==
  LET d == [RxStateIsr([s EXCEPT !.rxIsrActiveFlag = TRUE], fate)
              EXCEPT !.rxIsrActiveFlag = FALSE]
  IN  IF d.rxResetFlag THEN [RxHaltCleanupFinalStep(d) EXCEPT !.rxResetFlag = FALSE] ELSE d

\* Mutant: the updates run although the next frame is being received.
MacRxAckTxDoneAlways(s) == RxPostRxUpdates([s EXCEPT !.macRxOutgoingAckFlag = FALSE])

MacRxAckTxDoneCallback(s) ==
  LET d == [s EXCEPT !.macRxOutgoingAckFlag = FALSE]
  IN  IF d.macRxActive = "NO_ACTIVITY" THEN RxPostRxUpdates(d) ELSE d

-----------------------------------------------------------------------------
(* The interrupts.  They are of one priority and do not nest; the radio     *)
(* goes on while they run.                                                  *)

RfPending ==
  \/ r.fifo # << >>
  \/ (r.intF /\ r.intM) \/ (r.stopF /\ r.stopM) \/ (r.ackF /\ r.ackM)

\* First half of macMcuRfIsr: at most one of three.
RfIsr ==
  /\ isr = "out"
  /\ RfPending
  /\ r' = IF r.intF /\ r.intM THEN [r EXCEPT !.intF = FALSE, !.intM = FALSE]
          ELSE IF r.stopF /\ r.stopM THEN CspTxStopIsr(r)
          ELSE IF r.ackF /\ r.ackM THEN MacRxAckTxDoneCallback([r EXCEPT !.ackM = FALSE])
          ELSE r
  /\ isr' = "fifop"
  /\ UNCHANGED <<pc, arrivals, requests>>
  /\ FollowSoft

\* Second half: as long as the receive FIFO is at its threshold.
RfIsrFifop ==
  /\ isr = "fifop"
  /\ IF r.fifo = << >> THEN isr' = "out" /\ r' = r
     ELSE /\ isr' = isr
          /\ \E fate \in {"accepted", "filtered", "noBuffer", "badSecurity"} :
               r' = MacRxThresholdIsr(r, fate)
  /\ UNCHANGED <<pc, arrivals, requests>>
  /\ FollowSoft

\* macMcuRfErrIsr, macRxFifoOverflowIsr
RfErrIsr ==
  /\ isr = "out"
  /\ r.rferr
  /\ r' = MacRxHaltCleanup([r EXCEPT !.rferr = FALSE])
  /\ UNCHANGED <<pc, isr, arrivals, requests>>
  /\ FollowSoft

-----------------------------------------------------------------------------
(* The foreground: calls of the MAC's high level                            *)

Foreground(at) == pc = at /\ isr = "out"

\* macTxFrame, or macTxFrameRetransmit of a frame that was not acknowledged.
TxFrame ==
  /\ Foreground("idle")
  /\ r.wanted = 0
  /\ LET a == [Require(r, r.macTxActive = "NO_ACTIVITY", "txOnTx")
                 EXCEPT !.macTxActive = "INITIALIZE"]
     IN  \/ /\ r.sent < MaxTx
            /\ \E ackReq \in BOOLEAN :
                 r' = [a EXCEPT !.wanted = r.sent + 1, !.sent = @ + 1, !.txAckReq = ackReq]
            /\ requests' = requests
         \/ /\ r.status = "NO_ACK"
            /\ requests < MaxRequests
            /\ r' = [a EXCEPT !.wanted = r.sent]
            /\ requests' = requests + 1
  /\ pc' = "init"
  /\ UNCHANGED <<isr, arrivals>>
  /\ FollowSoft

\* The rest of macTxFrame up to the critical section.
TxPrepare ==
  /\ Foreground("init")
  /\ IF r.asleep
       THEN r' = TxComplete(r, "TX_ABORTED") /\ pc' = "idle"
       ELSE r' = [CspPrepForTxProgram(r) EXCEPT !.nb = 0] /\ pc' = "load"
  /\ UNCHANGED <<isr, arrivals, requests>>
  /\ FollowSoft

\* The critical section at the end of macTxFrame.
TxDecide ==
  /\ Foreground("load")
  /\ IF r.macRxActive = "NO_ACTIVITY" /\ ~r.macRxOutgoingAckFlag
       THEN r' = [r EXCEPT !.macTxActive = "GO"] /\ pc' = "go"
       ELSE r' = [r EXCEPT !.macTxActive = "QUEUED"] /\ pc' = "idle"
  /\ UNCHANGED <<isr, arrivals, requests>>
  /\ FollowSoft

\* txGo outside the critical section, in its two parts.
TxGoCancel ==
  /\ Foreground("go")
  /\ r' = CancelAckTxDone(r)
  /\ pc' = "csma"
  /\ UNCHANGED <<isr, arrivals, requests>>
  /\ FollowSoft
TxGoCsma ==
  /\ Foreground("csma")
  /\ r' = CspTxGoCsma(r)
  /\ pc' = "idle"
  /\ UNCHANGED <<isr, arrivals, requests>>
  /\ FollowSoft

Request(s, next) ==
  /\ Foreground("idle")
  /\ requests < MaxRequests
  /\ requests' = requests + 1
  /\ r' = s
  /\ pc' = next
  /\ UNCHANGED <<isr, arrivals>>

RxEnable ==
  /\ ~r.asleep
  /\ Request(MacRxOn([r EXCEPT !.macRxEnableFlags = TRUE]), "idle")
  /\ FollowSoft

\* macRxSoftEnable leaves the receiver as it is, also that of a sleeping radio.
RxSoftEnable ==
  /\ Request([r EXCEPT !.macRxEnableFlags = TRUE], "idle")
  /\ soft' = EnabledAndOff(r')

\* macRxDisable clears the flags and asks in a second critical section.
RxDisable ==
  /\ r.macRxEnableFlags
  /\ Request([r EXCEPT !.macRxEnableFlags = FALSE], "rxoff")
  /\ FollowSoft
RxDisableOff ==
  /\ Foreground("rxoff")
  /\ r' = MacRxOffRequest(r)
  /\ pc' = "idle"
  /\ UNCHANGED <<isr, arrivals, requests>>
  /\ FollowSoft

\* macRadioSetChannel; TxComplete makes up for a change during a transmit.
SetChannel ==
  /\ ~r.asleep
  /\ \E c \in Channels \ {r.reqChannel} :
       LET s == [r EXCEPT !.reqChannel = c]
       IN  Request(IF s.macTxActive = "NO_ACTIVITY" THEN MacRadioUpdateChannel(s) ELSE s, "idle")
  /\ FollowSoft

\* What macSleep wants before it turns the radio off.
MaySleep ==
  /\ r.macRxActive = "NO_ACTIVITY"
  /\ ~r.macRxOutgoingAckFlag
  /\ r.macTxActive = "NO_ACTIVITY"
  /\ ~r.macRxEnableFlags

Sleep ==
  /\ ~r.asleep /\ MaySleep
  /\ Request([MacRxOff(r) EXCEPT !.asleep = TRUE], "idle")
  /\ FollowSoft
WakeUp ==
  /\ r.asleep
  /\ Foreground("idle")
  /\ r' = MacRxOnRequest([r EXCEPT !.asleep = FALSE])
  /\ UNCHANGED <<pc, isr, arrivals, requests>>
  /\ FollowSoft

-----------------------------------------------------------------------------
(* The radio and the air                                                    *)

Radio(s) ==
  /\ r' = s
  /\ UNCHANGED <<pc, isr, requests>>
  /\ FollowSoft

\* The receive interrupt is never so late that a whole frame begins before the
\* header of the last one is read: a refused acknowledgement is its own.
HeadersRead == \A i \in DOMAIN r.fifo : r.fifo[i].part \in {"payload", "fcs"}

\* A frame for this device begins, is received a segment at a time and, if it
\* is good and asks for it, acknowledged.
FrameStarts ==
  /\ r.macRxOnFlag
  /\ HeadersRead
  /\ r.air = << >> /\ r.csp # "tx" /\ ~r.ackDue /\ ~r.overflow
  /\ arrivals < MaxFrames
  /\ arrivals' = arrivals + 1
  /\ \E f \in Frames : Radio([r EXCEPT !.air = Segments(f), !.nack = FALSE])

SegmentArrives ==
  /\ r.air # << >>
  /\ LET seg == Head(r.air)
         f == seg.of
     IN  Radio(IF Len(r.fifo) = FifoSize
                 THEN [r EXCEPT !.air = << >>, !.overflow = TRUE, !.rferr = TRUE]
                 ELSE [r EXCEPT !.air = Tail(@), !.fifo = Append(@, seg),
                        !.ackDue = seg.part = "fcs" /\ f.crcOK /\ f.ackReq /\ ~r.nack])
  /\ UNCHANGED arrivals

AckSent ==
  /\ r.ackDue
  /\ Radio([r EXCEPT !.ackDue = FALSE, !.ackF = TRUE])
  /\ UNCHANGED arrivals

\* The CSMA program, which waits for a receiver that is on; the channel is not
\* clear while a frame or an acknowledgement is on the air.
CspBusy ==
  /\ r.csp = "csma" /\ r.macRxOnFlag
  /\ Radio([r EXCEPT !.csp = "idle", !.stopF = TRUE])
  /\ UNCHANGED arrivals
CspStrobe ==
  /\ r.csp = "csma" /\ r.macRxOnFlag
  /\ r.air = << >> /\ ~r.ackDue
  /\ Radio([r EXCEPT !.csp = "tx", !.intF = TRUE])
  /\ UNCHANGED arrivals
CspTxEnd ==
  /\ r.csp = "tx"
  /\ Radio([r EXCEPT !.csp = "idle", !.cspz = "DONE", !.stopF = TRUE])
  /\ UNCHANGED arrivals
CspAckTimeout ==
  /\ r.csp = "ackwait"
  /\ Radio([r EXCEPT !.csp = "idle", !.stopF = TRUE])
  /\ UNCHANGED arrivals

CspRuns == r.csp \in {"tx", "ackwait"} \/ (r.csp = "csma" /\ r.macRxOnFlag)
Csp == CspBusy \/ CspStrobe \/ CspTxEnd \/ CspAckTimeout
Continue == TxPrepare \/ TxDecide \/ TxGoCancel \/ TxGoCsma \/ RxDisableOff

Next ==
  \/ RfIsr \/ RfIsrFifop \/ RfErrIsr
  \/ TxFrame \/ TxPrepare \/ TxDecide \/ TxGoCancel \/ TxGoCsma
  \/ RxEnable \/ RxSoftEnable \/ RxDisable \/ RxDisableOff \/ SetChannel \/ Sleep \/ WakeUp
  \/ FrameStarts \/ SegmentArrives \/ AckSent
  \/ CspBusy \/ CspStrobe \/ CspTxEnd \/ CspAckTimeout

\* Interrupts are served, calls of the driver go on, and what is on the air
\* ends: weak fairness of these actions, each with the condition under which
\* it is enabled (and changes something) written out.
Fairness ==
  /\ []<>~(isr = "out" /\ RfPending)    \/ []<><<RfIsr>>_vars
  /\ []<>~(isr = "fifop")               \/ []<><<RfIsrFifop>>_vars
  /\ []<>~(isr = "out" /\ r.rferr)      \/ []<><<RfErrIsr>>_vars
  /\ []<>~(isr = "out" /\ pc # "idle")  \/ []<><<Continue>>_vars
  /\ []<>(r.air = << >>)                \/ []<><<SegmentArrives>>_vars
  /\ []<>~r.ackDue                      \/ []<><<AckSent>>_vars
  /\ []<>~CspRuns                       \/ []<><<Csp>>_vars

Spec == Init /\ [][Next]_vars /\ Fairness

-----------------------------------------------------------------------------
(* Properties                                                               *)

\* The driver's variables have their types; after an interrupt its two flags
\* are clear, and a transmit has backed off at most MaxBackoffs + 1 times.
TypeOK ==
  /\ r.macTxActive \in {"NO_ACTIVITY", "INITIALIZE", "QUEUED", "GO", "LISTEN_FOR_ACK"}
  /\ r.macRxActive \in {"NO_ACTIVITY", "STARTED"}
  /\ r.rxState \in {"start", "addr", "payload", "discard", "fcs"}
  /\ r.nb \in 0 .. MaxBackoffs + 1
  /\ {r.macRxOutgoingAckFlag, r.pRxBuf, r.macRxOnFlag, r.macRxEnableFlags,
      r.asleep, r.stopM, r.ackM} \subseteq BOOLEAN
  /\ r.reqChannel \in Channels /\ r.macPhyChannel \in Channels
  /\ ~r.rxIsrActiveFlag /\ ~r.rxResetFlag
  /\ Len(r.fifo) <= FifoSize
  /\ soft \in BOOLEAN

\* The conditions of the driver's MAC_ASSERTs hold whenever they are reached
\* (no transmit on a transmit, no receive on a receive, no queued frame started
\* in a receive, no strobe program loaded over an active one, no channel change
\* in a transmit), and turning the receiver off never cuts a transmit.
AssertsHold ==
  r.faults \cap {"txOnTx", "rxOnRx", "queuedInRx", "cspActive", "channelInTx", "txCut"} = {}

\* The next segment the receive state machine reads is the one it waits for,
\* whatever was flushed, discarded or reset before; a buffer is held exactly
\* while a frame is read into it.
NextPart == [start |-> {"hdr", "ack"}, addr |-> {"addr"}, payload |-> {"payload"},
             fcs |-> {"fcs"}, discard |-> {"addr", "payload", "fcs"}]
ReceiveInStep ==
  /\ r.overflow \/ r.fifo \o r.air = << >>
       \/ Head(r.fifo \o r.air).part \in NextPart[r.rxState]
  /\ r.rxState # "start" /\ ~r.overflow => r.fifo \o r.air # << >>
  /\ r.macRxActive = "STARTED" <=> r.rxState # "start"
  /\ r.pRxBuf <=> r.rxState \in {"addr", "payload", "fcs"}

\* The driver's variables are well formed, its assertions hold, and its receive
\* state machine is in step with the FIFO.
DriverOK == TypeOK /\ AssertsHold /\ ReceiveInStep

\* No transmit ends that the high level has not asked for or that has ended
\* already, however the callbacks of done, busy, timeout and received
\* acknowledgement race (the gates of the callbacks of mac_tx.c).
CompletedOnce == "noRequest" \notin r.faults

\* Nothing under way: no receive, no acknowledgement, no transmit, no call.
Quiet == /\ pc = "idle" /\ isr = "out"
         /\ r.macRxActive = "NO_ACTIVITY" /\ ~r.macRxOutgoingAckFlag
         /\ r.macTxActive = "NO_ACTIVITY"

\* Then the receiver is on exactly if it is enabled, but for one that
\* macRxSoftEnable has enabled without turning it on and nothing has turned on
\* since; and the radio is on the channel last asked for: every path that kept
\* the one or put off the other makes up for it.
QuietIsSettled ==
  Quiet => /\ r.macRxOnFlag = (r.macRxEnableFlags /\ ~soft)
           /\ r.macPhyChannel = r.reqChannel

\* Every transmit the high level asks for ends, at once or queued behind a
\* receive or an outgoing acknowledgement, however receives, channel changes
\* and the receiver's on and off fall in between.
EveryTransmitEnds == r.wanted # 0 ~> r.wanted = 0
=============================================================================
