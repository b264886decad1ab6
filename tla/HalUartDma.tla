---------------------------- MODULE HalUartDma -----------------------------
(***************************************************************************)
(* The serial port of the coordinator (_hal_uart_dma.c): bytes that arrive *)
(* are put into a ring by a DMA channel that nobody sees at work, bytes to *)
(* send are written into one of two buffers while another channel sends    *)
(* the other.  The run loop polls; the only interrupt is that of the       *)
(* sending channel at its end.  Both sides measure time with the lowest    *)
(* byte of the sleep timer, ST0.  A shadow of ST0 is kept here as the age  *)
(* ST0 - shadow, which wraps with it.  Not modelled: flow control, which   *)
(* the port is opened without, and suspending the port for sleep.          *)
(***************************************************************************)
EXTENDS Naturals, Sequences, FiniteSets

CONSTANTS
  RxMax,      \* HAL_UART_DMA_RX_MAX
  TxMax,      \* HAL_UART_DMA_TX_MAX
  High,       \* HAL_UART_DMA_HIGH
  Full,       \* HAL_UART_DMA_FULL
  IdleTicks,  \* HAL_UART_DMA_IDLE
  TxTick,     \* dmaCfg.txTick
  CharTicks,  \* ticks a character takes on the line
  St0Size,    \* values of ST0, 256
  MaxGap,     \* ticks the run loop takes at most from one poll to the next
  MaxTx,      \* bound: bytes accepted for sending
  MaxRx,      \* bound: bytes that arrive
  Lengths     \* lengths of the writes

ASSUME UartAssumption ==
  /\ {RxMax, TxMax, High, Full, IdleTicks, TxTick, CharTicks} \subseteq Nat \ {0}
  /\ {MaxGap, MaxTx, MaxRx} \subseteq Nat /\ Lengths \subseteq Nat \ {0}
  /\ CharTicks <= TxTick /\ St0Size \in Nat
  /\ IdleTicks < St0Size /\ TxTick + MaxGap < St0Size

\* A round of the run loop is not longer than the characters that the ring has
\* room for above High take to arrive (at least 64 characters, 67 ms, in ZigLight).
ASSUME PollsInTime == MaxGap <= CharTicks * (RxMax - High)

VARIABLES
  \* dmaCfg, receiving
  rxBuf,         \* the ring: the number of the byte in each cell, or NoByte
  rxHead, rxTail, rxTick,
  rxAge,         \* ST0 - rxShdw, as long as rxTick is not 0
  \* dmaCfg, sending
  txBuf, txIdx, txSel, txMT, txDMAPending, txShdwValid,
  txAge,         \* ST0 - txShdw, as long as txShdwValid
  \* where the foreground is
  pc,            \* "idle", "shadow", "fire", "call" (poll), "commit" (write)
  evt,           \* the poll has found something to report
  gap,           \* ticks since the last poll
  \* the hardware
  rxPos,         \* the cell the receiving channel writes next
  hw,            \* the sending channel and the transmitter
  lineAge,       \* ticks since the last byte arrived, up to CharTicks
  \* history: the bytes are numbered
  accepted, sent, arrived, taken

rxVars == <<rxBuf, rxHead, rxTail, rxTick, rxAge>>
txVars == <<txBuf, txIdx, txSel, txMT, txDMAPending, txShdwValid, txAge>>
loopVars == <<pc, evt, gap>>
lineVars == <<rxPos, lineAge, arrived>>
vars == <<rxVars, txVars, loopVars, lineVars, hw, accepted, sent, taken>>

NoByte == 0
Cells == 0 .. RxMax - 1
Other(sel) == 1 - sel
Older(age) == (age + 1) % St0Size

\* dbuf: the byte in UxDBUF; shift: the one on the line, left ticks before its
\* end; armed: the channel has bytes from pos to len of txBuf[src] to move.
Quiet == [dbuf |-> NoByte, shift |-> NoByte, left |-> 0,
          armed |-> FALSE, irq |-> FALSE, src |-> 0, len |-> 0, pos |-> 0]

Init ==
  /\ rxBuf = [c \in Cells |-> NoByte]
  /\ rxHead = 0 /\ rxTail = 0 /\ rxTick = 0 /\ rxAge = 0
  /\ txBuf = [s \in 0 .. 1 |-> [i \in 1 .. TxMax |-> NoByte]]
  /\ txIdx = [s \in 0 .. 1 |-> 0] /\ txSel = 0
  /\ txMT = FALSE /\ txDMAPending = FALSE /\ txShdwValid = FALSE /\ txAge = 0
  /\ pc = "idle" /\ evt = FALSE /\ gap = 0
  /\ rxPos = 0 /\ hw = Quiet /\ lineAge = CharTicks
  /\ accepted = 0 /\ sent = <<>> /\ arrived = 0 /\ taken = <<>>
-----------------------------------------------------------------------------
(***************************************************************************)
(* The hardware.  UxDBUF is ready for the next byte as soon as the last    *)
(* one has moved on to the line, and that triggers the sending channel.    *)
(***************************************************************************)

\* The channel moves a byte to UxDBUF, over the one that is there.
Load(h) ==
  LET moved == [h EXCEPT !.dbuf = txBuf[h.src][h.pos + 1], !.pos = @ + 1]
  IN IF moved.pos < h.len THEN moved
     ELSE [moved EXCEPT !.armed = FALSE, !.irq = TRUE, !.src = 0, !.len = 0, !.pos = 0]

\* A byte in UxDBUF goes to the line when that is free.
Shift(h) ==
  IF h.shift # NoByte \/ h.dbuf = NoByte THEN h
  ELSE LET on == [h EXCEPT !.shift = h.dbuf, !.dbuf = NoByte, !.left = CharTicks]
       IN IF on.armed THEN Load(on) ELSE on

\* (A poll is much shorter than a tick of the model.)
Tick ==
  /\ pc \in {"idle", "commit"}
  /\ gap < MaxGap /\ gap' = gap + 1
  /\ rxAge' = IF rxTick > 0 THEN Older(rxAge) ELSE rxAge
  /\ txAge' = IF txShdwValid THEN Older(txAge) ELSE txAge
  /\ lineAge' = IF lineAge < CharTicks THEN lineAge + 1 ELSE lineAge
  /\ IF hw.left = 1
       THEN /\ sent' = Append(sent, hw.shift)
            /\ hw' = Shift([hw EXCEPT !.shift = NoByte, !.left = 0])
       ELSE /\ hw' = IF hw.left > 1 THEN [hw EXCEPT !.left = @ - 1] ELSE hw
            /\ UNCHANGED sent
  /\ UNCHANGED <<rxBuf, rxHead, rxTail, rxTick, txBuf, txIdx, txSel, txMT,
                 txDMAPending, txShdwValid, pc, evt, rxPos, accepted, arrived, taken>>

\* The receiving channel does not look whether the cell has been read.
ReceiveByte ==
  /\ lineAge = CharTicks /\ arrived < MaxRx
  /\ arrived' = arrived + 1
  /\ rxBuf' = [rxBuf EXCEPT ![rxPos] = arrived + 1]
  /\ rxPos' = (rxPos + 1) % RxMax
  /\ lineAge' = 0
  /\ UNCHANGED <<rxHead, rxTail, rxTick, rxAge, txVars, loopVars, hw, accepted,
                 sent, taken>>
-----------------------------------------------------------------------------
(***************************************************************************)
(* Receiving.                                                              *)
(***************************************************************************)

New(c) == rxBuf[c] # NoByte
FromHead(i) == (rxHead + i) % RxMax

\* The bytes in the ring from rxHead on without a hole: findTail.
Run == CHOOSE k \in 0 .. RxMax :
         /\ \A i \in 0 .. RxMax - 1 : i < k => New(FromHead(i))
         /\ k < RxMax => ~New(FromHead(k))

findTail == FromHead(Run)

HalUARTRxAvail == IF New(rxHead) THEN Cardinality({c \in Cells : New(c)}) ELSE 0

\* Mutant: a timer that has run out is left as it is.
IdleTimerRunsOn ==
  \/ /\ ~New(rxHead)
     /\ rxTick' = 0 /\ rxAge' = 0 /\ UNCHANGED rxTail
  \/ /\ New(rxHead) /\ rxTail # findTail
     /\ rxTail' = findTail /\ rxTick' = IdleTicks /\ UNCHANGED rxAge
  \/ /\ New(rxHead) /\ rxTail = findTail
     /\ rxTick' = IF rxTick > rxAge THEN rxTick - rxAge ELSE rxTick
     /\ rxAge' = 0 /\ UNCHANGED rxTail

\* The idle timer at a poll: started anew by bytes that have come, else let
\* run by the time since the last poll.
IdleTimer ==
  \/ /\ ~New(rxHead)
     /\ rxTick' = 0 /\ rxAge' = 0 /\ UNCHANGED rxTail
  \/ /\ New(rxHead) /\ rxTail # findTail
     /\ rxTail' = findTail /\ rxTick' = IdleTicks /\ UNCHANGED rxAge
  \/ /\ New(rxHead) /\ rxTail = findTail
     /\ rxTick' = IF rxTick > rxAge THEN rxTick - rxAge ELSE 0
     /\ rxAge' = 0 /\ UNCHANGED rxTail

HalUARTRead(n) ==
  /\ taken' = taken \o [i \in 1 .. n |->
                          IF i <= Run THEN rxBuf[FromHead(i - 1)] ELSE NoByte]
  /\ LET k == IF Run < n THEN Run ELSE n
     IN /\ rxBuf' = [c \in Cells |->
                       IF \E i \in 0 .. RxMax - 1 : i < k /\ c = FromHead(i)
                       THEN NoByte ELSE rxBuf[c]]
        /\ rxHead' = FromHead(k)
-----------------------------------------------------------------------------
(***************************************************************************)
(* Sending.                                                                *)
(***************************************************************************)

\* Mutant: the bytes written meanwhile are left to the next write.
HalUARTIsrDMANoRestart ==
  /\ txIdx' = [txIdx EXCEPT ![Other(txSel)] = 0]
  /\ txMT' = TRUE
  /\ txAge' = 0 /\ txShdwValid' = TRUE
  /\ hw' = [hw EXCEPT !.irq = FALSE]
  /\ UNCHANGED <<txBuf, txSel, txDMAPending>>

\* HalUARTIsrDMA, from the interrupt at the channel's end or from the poll.
HalUARTIsrDMA ==
  /\ txIdx' = [txIdx EXCEPT ![Other(txSel)] = 0]
  /\ txMT' = TRUE
  /\ txAge' = 0 /\ txShdwValid' = TRUE
  /\ txDMAPending' = (txDMAPending \/ txIdx[txSel] > 0)
  /\ hw' = [hw EXCEPT !.irq = FALSE]
  /\ UNCHANGED <<txBuf, txSel>>

halDmaIsr ==
  /\ hw.irq
  /\ HalUARTIsrDMA
  /\ UNCHANGED <<rxVars, loopVars, lineVars, accepted, sent, taken>>

\* HalUARTWriteDMA, all or none: the bytes are copied with interrupts on.
\* txSel cannot change meanwhile, only the poll changes it.
WriteCopy ==
  /\ pc = "idle"
  /\ \E n \in Lengths :
       /\ n + txIdx[txSel] <= TxMax /\ accepted + n <= MaxTx
       /\ txBuf' = [txBuf EXCEPT ![txSel] = [i \in 1 .. TxMax |->
                      IF i \in txIdx[txSel] + 1 .. txIdx[txSel] + n
                      THEN accepted + i - txIdx[txSel] ELSE @[i]]]
       /\ accepted' = accepted + n
  /\ pc' = "commit"
  /\ UNCHANGED <<rxVars, txIdx, txSel, txMT, txDMAPending, txShdwValid, txAge, evt,
                 gap, lineVars, hw, sent, taken>>

\* The index after the bytes copied, which are the last ones accepted.
Written == CHOOSE i \in 1 .. TxMax : txBuf[txSel][i] = accepted

\* Mutant: a write starts the channel whether it is sending or not.
WriteCommitEager ==
  /\ pc = "commit" /\ pc' = "idle"
  /\ txIdx' = [txIdx EXCEPT ![txSel] = Written]
  /\ txDMAPending' = TRUE
  /\ UNCHANGED <<rxVars, txBuf, txSel, txMT, txShdwValid, txAge, evt, gap, lineVars,
                 hw, accepted, sent, taken>>

WriteCommit ==
  /\ pc = "commit" /\ pc' = "idle"
  /\ txIdx' = [txIdx EXCEPT ![txSel] = Written]
  /\ txDMAPending' = (txDMAPending \/ txIdx[Other(txSel)] = 0)
  /\ UNCHANGED <<rxVars, txBuf, txSel, txMT, txShdwValid, txAge, evt, gap, lineVars,
                 hw, accepted, sent, taken>>
-----------------------------------------------------------------------------
(***************************************************************************)
(* HalUARTPollDMA.                                                         *)
(***************************************************************************)

PollReceive ==
  /\ pc = "idle" /\ pc' = "shadow"
  /\ IdleTimer
  /\ LET cnt == HalUARTRxAvail
     IN evt' = \/ cnt >= Full \/ cnt >= High
               \/ cnt > 0 /\ rxTick' = 0
               \/ txMT
  /\ txMT' = FALSE
  /\ UNCHANGED <<rxBuf, rxHead, txBuf, txIdx, txSel, txDMAPending, txShdwValid,
                 txAge, gap, lineVars, hw, accepted, sent, taken>>

\* Mutant: the channel is started without waiting for UxDBUF.
PollShadowNoWait ==
  /\ pc = "shadow" /\ pc' = "fire"
  /\ txShdwValid' = FALSE /\ txAge' = 0
  /\ UNCHANGED <<rxVars, txBuf, txIdx, txSel, txMT, txDMAPending, evt, gap,
                 lineVars, hw, accepted, sent, taken>>

\* Has a character's time passed since the channel's end?
PollShadow ==
  /\ pc = "shadow" /\ pc' = "fire"
  /\ txShdwValid' = (txShdwValid /\ txAge <= TxTick)
  /\ txAge' = IF txShdwValid' THEN txAge ELSE 0
  /\ UNCHANGED <<rxVars, txBuf, txIdx, txSel, txMT, txDMAPending, evt, gap,
                 lineVars, hw, accepted, sent, taken>>

Fire ==
  /\ txDMAPending /\ ~txShdwValid
  /\ txDMAPending' = FALSE
  /\ txSel' = Other(txSel)
  /\ hw' = Shift(Load([hw EXCEPT !.armed = TRUE, !.irq = FALSE, !.src = txSel,
                                 !.len = txIdx[txSel], !.pos = 0]))
  /\ UNCHANGED <<txBuf, txIdx, txMT, txShdwValid, txAge>>

\* The poll does the interrupt's work if it finds the channel stopped.
Stopped == txIdx[txSel] > 0 /\ ~hw.armed /\ ~hw.irq

PollFire ==
  /\ pc = "fire" /\ pc' = "call"
  /\ \/ Fire
     \/ /\ ~(txDMAPending /\ ~txShdwValid)
        /\ IF Stopped THEN HalUARTIsrDMA ELSE UNCHANGED <<txVars, hw>>
  /\ UNCHANGED <<rxVars, evt, gap, lineVars, accepted, sent, taken>>

\* The callback, zigLight_uartProcess, whatever the event.
PollCall ==
  /\ pc = "call" /\ pc' = "idle" /\ evt' = FALSE /\ gap' = 0
  /\ IF evt THEN HalUARTRead(HalUARTRxAvail)
            ELSE UNCHANGED <<rxBuf, rxHead, taken>>
  /\ UNCHANGED <<rxTail, rxTick, rxAge, txVars, lineVars, hw, accepted, sent>>
-----------------------------------------------------------------------------
Poll == PollReceive \/ PollShadow \/ PollFire \/ PollCall

Next == Poll \/ WriteCopy \/ WriteCommit \/ halDmaIsr \/ Tick \/ ReceiveByte

Spec == Init /\ [][Next]_vars

\* The run loop polls again and again and finishes a write it has begun,
\* interrupts are served, and time passes.
FairSpec ==
  /\ Spec
  /\ WF_vars(Poll) /\ WF_vars(WriteCommit) /\ WF_vars(halDmaIsr) /\ SF_vars(Tick)
-----------------------------------------------------------------------------
Numbered(s) == \A i \in 1 .. Len(s) : s[i] = i

TypeOK ==
  /\ rxBuf \in [Cells -> 0 .. MaxRx] /\ rxHead \in Cells /\ rxTail \in Cells
  /\ rxTick \in 0 .. IdleTicks /\ rxAge \in 0 .. St0Size - 1
  /\ txBuf \in [0 .. 1 -> [1 .. TxMax -> 0 .. MaxTx]]
  /\ txIdx \in [0 .. 1 -> 0 .. TxMax] /\ txSel \in 0 .. 1
  /\ {txMT, txDMAPending, txShdwValid, evt} \subseteq BOOLEAN
  /\ txAge \in 0 .. St0Size - 1
  /\ pc \in {"idle", "shadow", "fire", "call", "commit"}
  /\ gap \in 0 .. MaxGap /\ rxPos \in Cells /\ lineAge \in 0 .. CharTicks
  /\ hw \in [dbuf : 0 .. MaxTx, shift : 0 .. MaxTx, left : 0 .. CharTicks,
             armed : BOOLEAN, irq : BOOLEAN,
             src : 0 .. 1, len : 0 .. TxMax, pos : 0 .. TxMax]
  /\ accepted \in 0 .. MaxTx /\ arrived \in 0 .. MaxRx
  /\ sent \in Seq(0 .. MaxTx) /\ taken \in Seq(0 .. MaxRx)

\* The two sides of a double buffer never meet (HalUARTWriteDMA,
\* HalUARTPollDMA, HalUARTIsrDMA): the channel sends the whole of the buffer
\* that is not written to, it is started only with bytes to send, and, as the
\* poll says of its interrupt (lines 663 to 665), that one cannot come while the
\* shadow is valid.
BuffersApart ==
  /\ hw.armed => hw.src = Other(txSel) /\ hw.len = txIdx[hw.src]
  /\ hw.armed \/ hw.irq => ~txShdwValid /\ ~txDMAPending
  /\ txDMAPending => txIdx[txSel] > 0 /\ txIdx[Other(txSel)] = 0

\* The variables have their types and the two buffers are kept apart.
UartOK == TypeOK /\ BuffersApart

\* What goes out on the line is what was accepted, in that order, none lost in
\* UxDBUF and none twice; what the callback takes out of the ring is what
\* arrived, in that order, none overwritten.
BytesInOrder == Numbered(sent) /\ Numbered(taken)

\* Every byte that arrives is handed to the application, also the last ones of
\* a burst, which only the idle timer reports (HalUARTPollDMA).
AllAreTaken == []<>(Len(taken) = arrived)

\* Every byte accepted is sent, if again and again the loop takes longer than a
\* character for a round.  (If its rounds are always shorter, the poll restarts
\* the wait for UxDBUF each time and the second buffer waits for ever.)
SlowPollsDrain ==
  []<><<PollReceive /\ gap > TxTick>>_vars => []<>(Len(sent) = accepted)
=============================================================================
