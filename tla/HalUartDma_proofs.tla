------------------------- MODULE HalUartDma_proofs -------------------------
(***************************************************************************)
(* Proofs about HalUartDma, for buffers, timers and rates of any size: the *)
(* two transmit buffers are kept apart, and bytes go out and come in in    *)
(* order.  The sending side needs of the rates only what UartAssumption    *)
(* says (a character is over within txTick, and ST0 does not wrap in a     *)
(* round); the receiving side needs PollsInTime, for otherwise the channel *)
(* runs over bytes that wait.                                              *)
(***************************************************************************)
EXTENDS HalUartDma, FiniteSetTheorems, SequenceTheorems,
        WellFoundedInduction, TLAPS

HwRec == [dbuf : 0 .. MaxTx, shift : 0 .. MaxTx, left : 0 .. CharTicks,
          armed : BOOLEAN, irq : BOOLEAN,
          src : 0 .. 1, len : 0 .. TxMax, pos : 0 .. TxMax]

TxBufs == [0 .. 1 -> [1 .. TxMax -> 0 .. MaxTx]]

\* The channel stands before a byte, and does not interrupt before its end.
Sound(h) == h \in HwRec /\ ~(h.armed /\ h.irq) /\ (h.armed => h.pos < h.len)

\* A later state of the channel on the same transfer, if on any.
Follows(h, g) ==
  /\ g.armed => h.armed /\ g.src = h.src /\ g.len = h.len
  /\ g.irq => h.irq \/ (h.armed /\ h.len > 0)

\* What has been copied and not yet committed ends with the last byte accepted.
Copied == pc = "commit" => \E i \in 1 .. TxMax : txBuf[txSel][i] = accepted

RxOK ==
  /\ rxBuf \in [Cells -> 0 .. MaxRx] /\ rxHead \in Cells /\ rxTail \in Cells
  /\ rxTick \in 0 .. IdleTicks /\ rxAge \in 0 .. St0Size - 1

TxOK ==
  /\ txBuf \in TxBufs /\ txIdx \in [0 .. 1 -> 0 .. TxMax] /\ txSel \in 0 .. 1
  /\ txMT \in BOOLEAN /\ txDMAPending \in BOOLEAN /\ txShdwValid \in BOOLEAN
  /\ txAge \in 0 .. St0Size - 1
  /\ BuffersApart
  /\ Sound(hw)
  /\ hw.irq => txIdx[Other(txSel)] > 0

RestOK ==
  /\ pc \in {"idle", "shadow", "fire", "call", "commit"} /\ evt \in BOOLEAN
  /\ gap \in 0 .. MaxGap /\ rxPos \in Cells /\ lineAge \in 0 .. CharTicks
  /\ accepted \in 0 .. MaxTx /\ arrived \in 0 .. MaxRx
  /\ sent \in Seq(0 .. MaxTx) /\ taken \in Seq(0 .. MaxRx)

IInv == RxOK /\ TxOK /\ RestOK /\ Copied

LEMMA Sizes ==
  /\ RxMax \in Nat \ {0} /\ TxMax \in Nat \ {0} /\ High \in Nat /\ Full \in Nat
  /\ IdleTicks \in Nat \ {0} /\ TxTick \in Nat /\ CharTicks \in Nat \ {0}
  /\ MaxGap \in Nat /\ MaxTx \in Nat /\ MaxRx \in Nat
  /\ Lengths \subseteq Nat \ {0}
  /\ St0Size \in Nat /\ IdleTicks < St0Size
BY UartAssumption

-----------------------------------------------------------------------------
(***************************************************************************)
(* The sending channel.  Its updates get names, and what each leaves of    *)
(* the record is stated once.                                              *)
(***************************************************************************)

Moved(h, b, p) == [h EXCEPT !.dbuf = b, !.pos = p]
Ended(h) == [h EXCEPT !.armed = FALSE, !.irq = TRUE, !.src = 0, !.len = 0, !.pos = 0]
OnLine(h) == [h EXCEPT !.shift = h.dbuf, !.dbuf = NoByte, !.left = CharTicks]
OffLine(h) == [h EXCEPT !.shift = NoByte, !.left = 0]
Elapsed(h) == [h EXCEPT !.left = @ - 1]
Served(h) == [h EXCEPT !.irq = FALSE]
Started(h, s, n) ==
  [h EXCEPT !.armed = TRUE, !.irq = FALSE, !.src = s, !.len = n, !.pos = 0]

SameTransfer(g, h) ==
  g.armed = h.armed /\ g.irq = h.irq /\ g.src = h.src /\ g.len = h.len /\ g.pos = h.pos

LEMMA UpdateReads ==
  ASSUME NEW h \in HwRec
  PROVE  /\ \A b, p : LET g == Moved(h, b, p)
                      IN  /\ g.armed = h.armed /\ g.irq = h.irq
                          /\ g.src = h.src /\ g.len = h.len /\ g.pos = p
         /\ ~Ended(h).armed /\ Ended(h).irq
         /\ SameTransfer(OnLine(h), h)
         /\ SameTransfer(OffLine(h), h)
         /\ SameTransfer(Elapsed(h), h)
         /\ LET g == Served(h)
            IN  ~g.irq /\ g.armed = h.armed /\ g.src = h.src /\ g.len = h.len /\ g.pos = h.pos
         /\ \A s, n : LET g == Started(h, s, n)
                      IN  g.armed /\ ~g.irq /\ g.src = s /\ g.len = n /\ g.pos = 0
<1>1. ASSUME NEW b, NEW p
      PROVE  LET g == Moved(h, b, p)
             IN  /\ g.armed = h.armed /\ g.irq = h.irq
                 /\ g.src = h.src /\ g.len = h.len /\ g.pos = p
  BY DEF HwRec, Moved
<1>2. ~Ended(h).armed /\ Ended(h).irq
  BY DEF HwRec, Ended
<1>3. SameTransfer(OnLine(h), h)
  BY DEF HwRec, OnLine, SameTransfer
<1>4. SameTransfer(OffLine(h), h)
  BY DEF HwRec, OffLine, SameTransfer
<1>5. SameTransfer(Elapsed(h), h)
  BY DEF HwRec, Elapsed, SameTransfer
<1>6. LET g == Served(h)
      IN  ~g.irq /\ g.armed = h.armed /\ g.src = h.src /\ g.len = h.len /\ g.pos = h.pos
  BY DEF HwRec, Served
<1>7. ASSUME NEW s, NEW n
      PROVE  LET g == Started(h, s, n)
             IN  g.armed /\ ~g.irq /\ g.src = s /\ g.len = n /\ g.pos = 0
  BY DEF HwRec, Started
<1> QED
  BY <1>1, <1>2, <1>3, <1>4, <1>5, <1>6, <1>7

LEMMA HwFields ==
  ASSUME NEW h \in HwRec
  PROVE  /\ h.dbuf \in 0 .. MaxTx /\ h.shift \in 0 .. MaxTx /\ h.left \in 0 .. CharTicks
         /\ h.armed \in BOOLEAN /\ h.irq \in BOOLEAN
         /\ h.src \in 0 .. 1 /\ h.len \in 0 .. TxMax /\ h.pos \in 0 .. TxMax
BY DEF HwRec

LEMMA UpdateTypes ==
  ASSUME NEW h \in HwRec
  PROVE  /\ \A b \in 0 .. MaxTx, p \in 0 .. TxMax : Moved(h, b, p) \in HwRec
         /\ Ended(h) \in HwRec
         /\ OnLine(h) \in HwRec
         /\ OffLine(h) \in HwRec
         /\ h.left > 1 => Elapsed(h) \in HwRec
         /\ Served(h) \in HwRec
         /\ \A s \in 0 .. 1, n \in 0 .. TxMax : Started(h, s, n) \in HwRec
<1>1. /\ NoByte \in 0 .. MaxTx /\ 0 \in 0 .. TxMax /\ 0 \in 0 .. 1
      /\ 0 \in 0 .. CharTicks /\ CharTicks \in 0 .. CharTicks
  BY Sizes DEF NoByte
<1>2. ASSUME NEW b \in 0 .. MaxTx, NEW p \in 0 .. TxMax PROVE Moved(h, b, p) \in HwRec
  BY Zenon DEF HwRec, Moved
<1>3. Ended(h) \in HwRec
  BY <1>1, Zenon DEF HwRec, Ended
<1>4. OnLine(h) \in HwRec /\ OffLine(h) \in HwRec
  BY <1>1, HwFields, Zenon DEF HwRec, OnLine, OffLine
<1>5. ASSUME h.left > 1 PROVE Elapsed(h) \in HwRec
  <2>1. h.left - 1 \in 0 .. CharTicks
    BY <1>5, HwFields, Sizes
  <2> QED
    BY <2>1, Zenon DEF HwRec, Elapsed
<1>6. Served(h) \in HwRec
  BY Zenon DEF HwRec, Served
<1>7. ASSUME NEW s \in 0 .. 1, NEW n \in 0 .. TxMax PROVE Started(h, s, n) \in HwRec
  BY <1>1, Zenon DEF HwRec, Started
<1> QED
  BY <1>2, <1>3, <1>4, <1>5, <1>6, <1>7

LEMMA LoadSound ==
  ASSUME txBuf \in TxBufs, NEW h \in HwRec, h.armed, ~h.irq, h.pos < h.len
  PROVE  Sound(Load(h)) /\ Follows(h, Load(h))
<1> DEFINE moved == Moved(h, txBuf[h.src][h.pos + 1], h.pos + 1)
<1>1. h.pos + 1 \in 1 .. TxMax /\ h.src \in 0 .. 1 /\ h.len > 0
  BY HwFields, Sizes
<1>2. txBuf[h.src][h.pos + 1] \in 0 .. MaxTx
  BY <1>1 DEF TxBufs
<1>3. moved \in HwRec
  <2>1. h.pos + 1 \in 0 .. TxMax
    BY <1>1, Sizes
  <2> QED
    BY <1>2, <2>1, UpdateTypes
<1>4. moved.armed /\ ~moved.irq /\ moved.src = h.src /\ moved.len = h.len
  BY UpdateReads
<1>5. Load(h) = IF moved.pos < h.len THEN moved ELSE Ended(moved)
  BY DEF Load, Moved, Ended
<1>6. Ended(moved) \in HwRec /\ ~Ended(moved).armed
  BY <1>3, UpdateTypes, UpdateReads
<1> HIDE DEF moved
<1>7. CASE moved.pos < h.len
  BY <1>3, <1>4, <1>5, <1>7 DEF Sound, Follows
<1>8. CASE ~(moved.pos < h.len)
  BY <1>1, <1>5, <1>6, <1>8 DEF Sound, Follows
<1> QED
  BY <1>7, <1>8

LEMMA ShiftSound ==
  ASSUME txBuf \in TxBufs, NEW h, Sound(h)
  PROVE  Sound(Shift(h)) /\ Follows(h, Shift(h))
<1>1. CASE h.shift # NoByte \/ h.dbuf = NoByte
  BY <1>1 DEF Shift, Sound, Follows
<1>2. CASE ~(h.shift # NoByte \/ h.dbuf = NoByte)
  <2>1. Shift(h) = IF OnLine(h).armed THEN Load(OnLine(h)) ELSE OnLine(h)
    BY <1>2 DEF Shift, OnLine
  <2>2. OnLine(h) \in HwRec /\ SameTransfer(OnLine(h), h)
    BY UpdateTypes, UpdateReads DEF Sound
  <2>3. CASE h.armed
    <3>1. Sound(Load(OnLine(h))) /\ Follows(OnLine(h), Load(OnLine(h)))
      BY <2>2, <2>3, LoadSound DEF Sound, SameTransfer
    <3> QED
      BY <2>1, <2>2, <2>3, <3>1 DEF Follows, SameTransfer
  <2>4. CASE ~h.armed
    BY <2>1, <2>2, <2>4 DEF Sound, Follows, SameTransfer
  <2> QED
    BY <2>3, <2>4
<1> QED
  BY <1>1, <1>2
-----------------------------------------------------------------------------
(***************************************************************************)
(* The receive ring.                                                       *)
(***************************************************************************)

LEMMA FromHeadCell ==
  ASSUME rxHead \in Cells, NEW i \in Nat
  PROVE  FromHead(i) \in Cells
BY Sizes DEF FromHead, Cells

LEMMA RunType == Run \in 0 .. RxMax
<1> DEFINE Ends == {k \in 0 .. RxMax : k < RxMax => ~New(FromHead(k))}
<1>1. RxMax \in Ends /\ Ends \subseteq Nat
  BY Sizes
<1>2. PICK k \in Ends : \A j \in Ends : ~(<<j, k>> \in OpToRel(<, Nat))
  <2> HIDE DEF Ends
  <2> QED
    BY <1>1, WFMin, NatLessThanWellFounded
<1>3. \A j \in Ends : ~(j < k)
  <2> SUFFICES ASSUME NEW j \in Ends, j < k PROVE FALSE
    OBVIOUS
  <2> QED
    BY <1>1, <1>2 DEF OpToRel
<1>4. \A i \in 0 .. RxMax - 1 : i < k => New(FromHead(i))
  <2> SUFFICES ASSUME NEW i \in 0 .. RxMax - 1, i < k, ~New(FromHead(i)) PROVE FALSE
    OBVIOUS
  <2>1. i \in Ends
    BY Sizes
  <2> QED
    BY <1>3, <2>1
<1>5. k \in 0 .. RxMax /\ (k < RxMax => ~New(FromHead(k)))
  OBVIOUS
<1> HIDE DEF Ends
<1> QED
  BY <1>4, <1>5 DEF Run

LEMMA AvailType == HalUARTRxAvail \in Nat
<1>1. IsFiniteSet(Cells)
  BY FS_Interval, Sizes DEF Cells
<1>2. IsFiniteSet({c \in Cells : New(c)})
  BY <1>1, FS_Subset
<1> QED
  BY <1>2, FS_CardinalityType DEF HalUARTRxAvail
-----------------------------------------------------------------------------
(***************************************************************************)
(* Every step keeps the invariant.                                         *)
(***************************************************************************)

LEMMA InitInv == Init => IInv
<1> SUFFICES ASSUME Init PROVE IInv
  OBVIOUS
<1>1. RxOK
  BY Sizes DEF Init, RxOK, Cells, NoByte
<1>2. TxOK
  <2>1. hw \in HwRec /\ ~hw.armed /\ ~hw.irq
    BY Sizes DEF Init, Quiet, HwRec, NoByte
  <2>2. txBuf \in TxBufs
    BY Sizes DEF Init, TxBufs, NoByte
  <2>3. /\ txIdx \in [0 .. 1 -> 0 .. TxMax] /\ txSel \in 0 .. 1
        /\ txAge \in 0 .. St0Size - 1
    BY Sizes DEF Init
  <2>4. txMT \in BOOLEAN /\ txDMAPending \in BOOLEAN /\ txShdwValid \in BOOLEAN
    BY Zenon DEF Init
  <2>5. BuffersApart /\ Sound(hw)
    BY <2>1 DEF Init, BuffersApart, Sound
  <2> QED
    BY <2>1, <2>2, <2>3, <2>4, <2>5, Zenon DEF TxOK
<1>3. RestOK
  <2>1. sent \in Seq(0 .. MaxTx) /\ taken \in Seq(0 .. MaxRx)
    BY DEF Init
  <2>2. /\ gap \in 0 .. MaxGap /\ rxPos \in Cells /\ lineAge \in 0 .. CharTicks
        /\ accepted \in 0 .. MaxTx /\ arrived \in 0 .. MaxRx
    BY Sizes DEF Init, Cells
  <2> QED
    BY <2>1, <2>2 DEF Init, RestOK
<1>4. Copied
  BY DEF Init, Copied
<1> QED
  BY <1>1, <1>2, <1>3, <1>4 DEF IInv

\* The hardware may go on with a transfer at any time, or have none.
LEMMA TxGoesOn ==
  ASSUME TxOK, Sound(hw'), Follows(hw, hw'),
         UNCHANGED <<txBuf, txIdx, txSel, txMT, txDMAPending, txShdwValid>>,
         txAge' \in 0 .. St0Size - 1
  PROVE  TxOK'
BY Sizes DEF TxOK, BuffersApart, Sound, Follows, Other

LEMMA TickInv == IInv /\ Tick => IInv'
<1> SUFFICES ASSUME IInv, Tick PROVE IInv'
  OBVIOUS
<1> USE DEF IInv
<1>1. \A age \in 0 .. St0Size - 1 : Older(age) \in 0 .. St0Size - 1
  BY Sizes DEF Older
<1>2. RxOK'
  BY <1>1 DEF Tick, RxOK
<1>3. txAge' \in 0 .. St0Size - 1
  BY <1>1 DEF Tick, TxOK
<1>4. hw \in HwRec /\ hw.shift \in 0 .. MaxTx /\ txBuf \in TxBufs
  BY HwFields DEF TxOK, Sound
<1>5. Sound(hw') /\ Follows(hw, hw')
  <2>1. CASE hw.left = 1
    <3>1. hw' = Shift(OffLine(hw))
      BY <2>1 DEF Tick, OffLine
    <3>2. OffLine(hw) \in HwRec /\ SameTransfer(OffLine(hw), hw)
      BY <1>4, UpdateTypes, UpdateReads
    <3>3. Sound(OffLine(hw))
      BY <3>2 DEF TxOK, Sound, SameTransfer
    <3>4. Sound(hw') /\ Follows(OffLine(hw), hw')
      BY <1>4, <3>1, <3>3, ShiftSound
    <3> QED
      BY <3>2, <3>4 DEF Follows, SameTransfer
  <2>2. CASE hw.left > 1
    <3>1. hw' = Elapsed(hw)
      BY <2>2 DEF Tick, Elapsed
    <3>2. Elapsed(hw) \in HwRec /\ SameTransfer(Elapsed(hw), hw)
      BY <1>4, <2>2, UpdateTypes, UpdateReads
    <3> QED
      BY <3>1, <3>2 DEF TxOK, Sound, Follows, SameTransfer
  <2>3. CASE hw.left # 1 /\ ~(hw.left > 1)
    BY <2>3 DEF Tick, TxOK, Sound, Follows
  <2> QED
    BY <2>1, <2>2, <2>3
<1>6. TxOK'
  BY <1>3, <1>5, TxGoesOn DEF Tick
<1>7. RestOK'
  <2>1. sent' = sent \/ sent' = Append(sent, hw.shift)
    BY DEF Tick
  <2>2. sent' \in Seq(0 .. MaxTx)
    <3>1. sent \in Seq(0 .. MaxTx) /\ hw.shift \in 0 .. MaxTx
      BY <1>4 DEF RestOK
    <3>2. Append(sent, hw.shift) \in Seq(0 .. MaxTx)
      BY <3>1, AppendProperties
    <3> QED
      BY <2>1, <3>1, <3>2, Zenon
  <2>3. /\ gap < MaxGap /\ gap' = gap + 1
        /\ lineAge' = IF lineAge < CharTicks THEN lineAge + 1 ELSE lineAge
    BY Zenon DEF Tick
  <2>4. gap' \in 0 .. MaxGap /\ lineAge' \in 0 .. CharTicks
    BY <2>3, Sizes DEF RestOK
  <2> QED
    BY <2>2, <2>4, Zenon DEF Tick, RestOK
<1>8. Copied'
  BY DEF Tick, Copied
<1> QED
  BY <1>2, <1>6, <1>7, <1>8

LEMMA ReceiveByteInv == IInv /\ ReceiveByte => IInv'
<1> SUFFICES ASSUME IInv, ReceiveByte PROVE IInv'
  OBVIOUS
<1> USE DEF IInv
<1>1. arrived + 1 \in 0 .. MaxRx /\ (rxPos + 1) % RxMax \in Cells
  BY Sizes DEF ReceiveByte, RestOK, Cells
<1>2. RxOK'
  BY <1>1 DEF ReceiveByte, RxOK
<1>3. TxOK'
  BY TxGoesOn DEF ReceiveByte, txVars, TxOK, Follows
<1>4. RestOK'
  BY <1>1, Sizes DEF ReceiveByte, RestOK, loopVars
<1>5. Copied'
  BY DEF ReceiveByte, loopVars, txVars, Copied
<1> QED
  BY <1>2, <1>3, <1>4, <1>5

LEMMA WriteCopyInv == IInv /\ WriteCopy => IInv'
<1> SUFFICES ASSUME IInv, WriteCopy PROVE IInv'
  OBVIOUS
<1> USE DEF IInv
<1>1. PICK n \in Lengths :
        /\ n + txIdx[txSel] <= TxMax /\ accepted + n <= MaxTx
        /\ txBuf' = [txBuf EXCEPT ![txSel] = [i \in 1 .. TxMax |->
                       IF i \in txIdx[txSel] + 1 .. txIdx[txSel] + n
                       THEN accepted + i - txIdx[txSel] ELSE txBuf[txSel][i]]]
        /\ accepted' = accepted + n
  BY DEF WriteCopy
<1>2. /\ n \in Nat \ {0} /\ accepted \in 0 .. MaxTx
      /\ txSel \in 0 .. 1 /\ txIdx[txSel] \in 0 .. TxMax /\ txBuf \in TxBufs
  BY Sizes DEF RestOK, TxOK
<1> DEFINE row == [i \in 1 .. TxMax |->
                     IF i \in txIdx[txSel] + 1 .. txIdx[txSel] + n
                     THEN accepted + i - txIdx[txSel] ELSE txBuf[txSel][i]]
<1>3. row \in [1 .. TxMax -> 0 .. MaxTx]
  <2> SUFFICES ASSUME NEW i \in 1 .. TxMax PROVE row[i] \in 0 .. MaxTx
    OBVIOUS
  <2>1. txBuf[txSel][i] \in 0 .. MaxTx
    BY <1>2 DEF TxBufs
  <2> QED
    BY <1>1, <1>2, <2>1, Sizes
<1>4. txIdx[txSel] + n \in 1 .. TxMax /\ row[txIdx[txSel] + n] = accepted'
  BY <1>1, <1>2, Sizes
<1>5. txBuf' = [txBuf EXCEPT ![txSel] = row]
  BY <1>1
<1> HIDE DEF row
<1>6. txBuf' \in TxBufs /\ txBuf'[txSel] = row
  BY <1>2, <1>3, <1>5 DEF TxBufs
<1>7. RxOK'
  BY DEF WriteCopy, RxOK, rxVars
<1>8. TxOK'
  BY <1>6 DEF WriteCopy, TxOK, BuffersApart
<1>9. RestOK'
  BY <1>1, <1>2, Sizes DEF WriteCopy, RestOK, lineVars
<1>10. Copied'
  BY <1>4, <1>6 DEF WriteCopy, Copied
<1> QED
  BY <1>7, <1>8, <1>9, <1>10

LEMMA WriteCommitInv == IInv /\ WriteCommit => IInv'
<1> SUFFICES ASSUME IInv, WriteCommit PROVE IInv'
  OBVIOUS
<1> USE DEF IInv
<1>1. Written \in 1 .. TxMax
  BY DEF WriteCommit, Copied, Written
<1>2. txIdx' = [txIdx EXCEPT ![txSel] = Written]
  BY DEF WriteCommit
<1> DEFINE other == Other(txSel)
<1>3. txSel \in 0 .. 1 /\ other \in 0 .. 1 /\ other # txSel
  BY DEF TxOK, Other
<1>4. /\ txIdx' \in [0 .. 1 -> 0 .. TxMax]
      /\ txIdx'[txSel] = Written /\ txIdx'[other] = txIdx[other]
  BY <1>1, <1>2, <1>3, Sizes DEF TxOK
<1>5. hw.armed \/ hw.irq => txIdx[other] > 0 /\ ~txDMAPending /\ ~txShdwValid
  BY HwFields, Sizes DEF TxOK, BuffersApart, Sound
<1>6. BuffersApart'
  <2>1. hw.armed => hw.src = other /\ hw.len = txIdx'[hw.src]
    BY <1>3, <1>4 DEF TxOK, BuffersApart
  <2>2. txDMAPending' => txIdx'[txSel] > 0 /\ txIdx'[other] = 0
    BY <1>1, <1>4 DEF WriteCommit, TxOK, BuffersApart
  <2>3. hw.armed \/ hw.irq => ~txDMAPending'
    BY <1>3, <1>4, <1>5 DEF WriteCommit, TxOK
  <2> QED
    BY <1>5, <2>1, <2>2, <2>3 DEF WriteCommit, BuffersApart
<1>7. TxOK'
  BY <1>4, <1>6 DEF WriteCommit, TxOK
<1>8. RxOK' /\ RestOK' /\ Copied'
  BY DEF WriteCommit, RxOK, RestOK, Copied, rxVars, lineVars
<1> QED
  BY <1>7, <1>8

\* The work of the interrupt, by whomever it is done.
LEMMA IsrTx == TxOK /\ ~hw.armed /\ HalUARTIsrDMA => TxOK'
<1> SUFFICES ASSUME TxOK, ~hw.armed, HalUARTIsrDMA PROVE TxOK'
  OBVIOUS
<1>1. Sound(hw') /\ ~hw'.armed /\ ~hw'.irq
  BY UpdateTypes, UpdateReads DEF HalUARTIsrDMA, TxOK, Sound, Served
<1>2. txSel \in 0 .. 1 /\ Other(txSel) \in 0 .. 1 /\ Other(txSel) # txSel
  BY DEF TxOK, Other
<1>3. /\ txIdx' \in [0 .. 1 -> 0 .. TxMax]
      /\ txIdx'[txSel] = txIdx[txSel] /\ txIdx'[Other(txSel)] = 0
  BY <1>2, Sizes DEF HalUARTIsrDMA, TxOK
<1>4. BuffersApart'
  BY <1>1, <1>3 DEF HalUARTIsrDMA, TxOK, BuffersApart
<1> QED
  BY <1>1, <1>3, <1>4, Sizes DEF HalUARTIsrDMA, TxOK

LEMMA halDmaIsrInv == IInv /\ halDmaIsr => IInv'
<1> SUFFICES ASSUME IInv, halDmaIsr PROVE IInv'
  OBVIOUS
<1> USE DEF IInv
<1>1. TxOK'
  BY IsrTx DEF halDmaIsr, TxOK, Sound
<1>2. RxOK' /\ RestOK'
  BY DEF halDmaIsr, RxOK, RestOK, rxVars, loopVars, lineVars
<1>3. Copied'
  BY DEF halDmaIsr, HalUARTIsrDMA, Copied, loopVars
<1> QED
  BY <1>1, <1>2, <1>3

LEMMA PollReceiveInv == IInv /\ PollReceive => IInv'
<1> SUFFICES ASSUME IInv, PollReceive PROVE IInv'
  OBVIOUS
<1> USE DEF IInv
<1>1. findTail \in Cells
  BY FromHeadCell, RunType, Sizes DEF findTail, RxOK
<1>2. rxTail' \in Cells /\ rxTick' \in 0 .. IdleTicks /\ rxAge' \in 0 .. St0Size - 1
  BY <1>1, Sizes DEF PollReceive, IdleTimer, RxOK
<1>3. RxOK'
  BY <1>2 DEF PollReceive, RxOK
<1>4. TxOK'
  BY DEF PollReceive, TxOK, BuffersApart
<1>5. RestOK'
  BY DEF PollReceive, RestOK, lineVars
<1>6. Copied'
  BY DEF PollReceive, Copied
<1> QED
  BY <1>3, <1>4, <1>5, <1>6

LEMMA PollShadowInv == IInv /\ PollShadow => IInv'
<1> SUFFICES ASSUME IInv, PollShadow PROVE IInv'
  OBVIOUS
<1> USE DEF IInv
<1>1. TxOK'
  BY Sizes DEF PollShadow, TxOK, BuffersApart
<1>2. RxOK' /\ RestOK' /\ Copied'
  BY DEF PollShadow, RxOK, RestOK, Copied, rxVars, lineVars
<1> QED
  BY <1>1, <1>2

\* The channel is started with the bytes of the buffer that was written to.
LEMMA FireTx == TxOK /\ Fire => TxOK'
<1> SUFFICES ASSUME TxOK, Fire PROVE TxOK'
  OBVIOUS
<1> DEFINE start == Started(hw, txSel, txIdx[txSel])
<1>1. /\ txSel \in 0 .. 1 /\ Other(txSel) \in 0 .. 1 /\ Other(Other(txSel)) = txSel
      /\ txIdx[txSel] \in 0 .. TxMax /\ txIdx[txSel] > 0
      /\ hw \in HwRec /\ txBuf \in TxBufs
  BY DEF Fire, TxOK, BuffersApart, Sound, Other
<1>2. start \in HwRec
  BY <1>1, UpdateTypes
<1>3. /\ start.armed /\ ~start.irq
      /\ start.src = txSel /\ start.len = txIdx[txSel] /\ start.pos = 0
  BY <1>1, UpdateReads
<1>4. hw' = Shift(Load(start))
  BY DEF Fire, Started
<1> HIDE DEF start
<1>5. Sound(Load(start)) /\ Follows(start, Load(start))
  BY <1>1, <1>2, <1>3, LoadSound
<1>6. Sound(hw') /\ Follows(Load(start), hw')
  BY <1>1, <1>4, <1>5, ShiftSound
<1>7. /\ hw'.armed => hw'.src = txSel /\ hw'.len = txIdx[txSel]
  BY <1>3, <1>5, <1>6 DEF Follows
<1> QED
  BY <1>1, <1>6, <1>7, Sizes DEF Fire, TxOK, BuffersApart

LEMMA PollFireInv == IInv /\ PollFire => IInv'
<1> SUFFICES ASSUME IInv, PollFire PROVE IInv'
  OBVIOUS
<1> USE DEF IInv
<1>1. TxOK'
  <2>1. CASE Fire
    BY <2>1, FireTx
  <2>2. CASE Stopped /\ HalUARTIsrDMA
    BY <2>2, IsrTx DEF Stopped
  <2>3. CASE UNCHANGED <<txVars, hw>>
    BY <2>3 DEF txVars, TxOK, BuffersApart
  <2> QED
    BY <2>1, <2>2, <2>3 DEF PollFire
<1>2. RxOK' /\ RestOK' /\ Copied'
  BY DEF PollFire, RxOK, RestOK, Copied, rxVars, lineVars
<1> QED
  BY <1>1, <1>2

LEMMA PollCallInv == IInv /\ PollCall => IInv'
<1> SUFFICES ASSUME IInv, PollCall PROVE IInv'
  OBVIOUS
<1> USE DEF IInv
<1> DEFINE n == HalUARTRxAvail
<1>1. /\ rxBuf' \in [Cells -> 0 .. MaxRx] /\ rxHead' \in Cells
      /\ taken' \in Seq(0 .. MaxRx)
  <2>1. CASE evt
    <3>1. HalUARTRead(n)
      BY <2>1 DEF PollCall
    <3>2. n \in Nat /\ Run \in 0 .. RxMax
      BY AvailType, RunType
    <3> HIDE DEF n
    <3>3. FromHead(IF Run < n THEN Run ELSE n) \in Cells
      BY <3>2, FromHeadCell, Sizes DEF RxOK
    <3>4. [i \in 1 .. n |-> IF i <= Run THEN rxBuf[FromHead(i - 1)] ELSE NoByte]
            \in Seq(0 .. MaxRx)
      <4> SUFFICES ASSUME NEW i \in 1 .. n
                   PROVE  (IF i <= Run THEN rxBuf[FromHead(i - 1)] ELSE NoByte) \in 0 .. MaxRx
        BY <3>2
      <4>1. FromHead(i - 1) \in Cells
        BY <3>2, FromHeadCell DEF RxOK
      <4> QED
        BY <4>1, Sizes DEF RxOK, NoByte
    <3>5. rxBuf' \in [Cells -> 0 .. MaxRx]
      BY <3>1, Sizes DEF HalUARTRead, RxOK, NoByte
    <3>6. taken' \in Seq(0 .. MaxRx)
      BY <3>1, <3>4 DEF HalUARTRead, RestOK
    <3> QED
      BY <3>1, <3>3, <3>5, <3>6 DEF HalUARTRead
  <2>2. CASE ~evt
    BY <2>2 DEF PollCall, RxOK, RestOK
  <2> QED
    BY <2>1, <2>2 DEF RestOK
<1>2. RxOK'
  BY <1>1 DEF PollCall, RxOK
<1>3. TxOK'
  BY DEF PollCall, txVars, TxOK, BuffersApart
<1>4. RestOK'
  <2>1. gap' \in 0 .. MaxGap
    BY Sizes DEF PollCall
  <2> QED
    BY <1>1, <2>1 DEF PollCall, RestOK, lineVars
<1>5. Copied'
  BY DEF PollCall, Copied
<1> QED
  BY <1>2, <1>3, <1>4, <1>5

LEMMA NextInv == IInv /\ [Next]_vars => IInv'
<1>1. IInv /\ UNCHANGED vars => IInv'
  BY DEF IInv, vars, rxVars, txVars, loopVars, lineVars,
         RxOK, TxOK, RestOK, Copied, BuffersApart
<1> QED
  BY <1>1, TickInv, ReceiveByteInv, WriteCopyInv, WriteCommitInv, halDmaIsrInv,
     PollReceiveInv, PollShadowInv, PollFireInv, PollCallInv DEF Next, Poll

\* The driver's two transmit buffers are never both in use, and no interrupt is
\* taken for another's, for every size and rate (HalUARTWriteDMA,
\* HalUARTPollDMA, HalUARTIsrDMA).
THEOREM BuffersStayApart == Spec => []UartOK
<1>1. IInv => UartOK
  BY DEF IInv, RxOK, TxOK, RestOK, UartOK, TypeOK, Sound, HwRec, TxBufs
<1> QED
  BY <1>1, InitInv, NextInv, PTL DEF Spec
-----------------------------------------------------------------------------
(***************************************************************************)
(* The bytes taken out of the ring.                                        *)
(***************************************************************************)

\* Bytes that have arrived and have not been taken.
Waiting == arrived - Len(taken)

\* They are in the ring, from rxHead on, and nothing else is.
RingOK ==
  /\ Waiting \in 0 .. RxMax
  /\ rxPos = FromHead(Waiting)
  /\ \A i \in Cells : rxBuf[FromHead(i)] = IF i < Waiting THEN Len(taken) + 1 + i ELSE NoByte

\* What is in the ring has taken its time to arrive: no more than High at the
\* last poll that reported nothing, and since then as much as has come meanwhile.
InTimeOK ==
  /\ Waiting * CharTicks + lineAge <= High * CharTicks + gap
  /\ pc \in {"shadow", "fire", "call"} /\ ~evt =>
       Waiting * CharTicks + lineAge <= High * CharTicks

RxOrder == Numbered(taken) /\ RingOK /\ InTimeOK

LEMMA FromHeadIs ==
  ASSUME rxHead \in Cells, NEW i \in 0 .. RxMax
  PROVE  FromHead(i) = IF rxHead + i < RxMax THEN rxHead + i ELSE rxHead + i - RxMax
<1>1. rxHead + i \in 0 .. 2 * RxMax - 1
  BY Sizes DEF Cells
<1>2. CASE rxHead + i < RxMax
  BY <1>1, <1>2, Sizes DEF FromHead
<1>3. CASE ~(rxHead + i < RxMax)
  <2>1. rxHead + i \in RxMax .. 2 * RxMax - 1
    BY <1>1, <1>3, Sizes
  <2>2. RxMax \in Nat \ {0} /\ rxHead \in Int /\ i \in Int
    BY Sizes DEF Cells
  <2>3. (rxHead + i) % RxMax = rxHead + i - RxMax
    BY <2>1, <2>2
  <2> QED
    BY <1>3, <2>3 DEF FromHead
<1> QED
  BY <1>2, <1>3

\* The cells of the ring, counted from the head, are all the cells.
LEMMA RingTurns ==
  ASSUME rxHead \in Cells
  PROVE  /\ \A i \in 0 .. RxMax : FromHead(i) \in Cells
         /\ \A i, j \in Cells : FromHead(i) = FromHead(j) => i = j
         /\ \A c \in Cells : \E i \in Cells : c = FromHead(i)
         /\ FromHead(0) = rxHead /\ FromHead(RxMax) = rxHead
         /\ \A i \in Cells : (FromHead(i) + 1) % RxMax = FromHead(i + 1)
<1>1. \A i \in 0 .. RxMax :
        FromHead(i) = IF rxHead + i < RxMax THEN rxHead + i ELSE rxHead + i - RxMax
  BY FromHeadIs
<1>2. \A i \in Cells : i \in 0 .. RxMax /\ i + 1 \in 0 .. RxMax
  BY Sizes DEF Cells
<1>3. \A i \in 0 .. RxMax : FromHead(i) \in Cells
  BY <1>1, Sizes DEF Cells
<1>4. \A i, j \in Cells : FromHead(i) = FromHead(j) => i = j
  BY <1>1, <1>2, Sizes DEF Cells
<1>5. ASSUME NEW c \in Cells
      PROVE  \E i \in Cells : c = FromHead(i)
  <2> DEFINE i == IF rxHead <= c THEN c - rxHead ELSE c - rxHead + RxMax
  <2>1. i \in Cells /\ (IF rxHead + i < RxMax THEN rxHead + i ELSE rxHead + i - RxMax) = c
    BY Sizes DEF Cells
  <2> HIDE DEF i
  <2> QED
    BY <1>1, <1>2, <2>1
<1>6. FromHead(0) = rxHead /\ FromHead(RxMax) = rxHead
  BY <1>1, Sizes DEF Cells
<1>7. ASSUME NEW i \in Cells
      PROVE  (FromHead(i) + 1) % RxMax = FromHead(i + 1)
  <2>1. \A n \in Nat \ {0} : \A x \in 0 .. n - 1 : (x + 1) % n = IF x + 1 < n THEN x + 1 ELSE 0
    OBVIOUS
  <2>2. FromHead(i) \in 0 .. RxMax - 1
    BY <1>2, <1>3 DEF Cells
  <2>3. (FromHead(i) + 1) % RxMax = IF FromHead(i) + 1 < RxMax THEN FromHead(i) + 1 ELSE 0
    BY <2>1, <2>2, Sizes
  <2>4. /\ FromHead(i) = IF rxHead + i < RxMax THEN rxHead + i ELSE rxHead + i - RxMax
        /\ FromHead(i + 1) = IF rxHead + (i + 1) < RxMax THEN rxHead + (i + 1)
                             ELSE rxHead + (i + 1) - RxMax
    BY <1>1, <1>2
  <2> QED
    BY <2>3, <2>4, Sizes DEF Cells
<1> QED
  BY <1>3, <1>4, <1>5, <1>6, <1>7

\* findTail and HalUARTRxAvail see exactly the bytes that wait.
LEMMA WaitingIsSeen ==
  ASSUME rxHead \in Cells, RingOK, Len(taken) \in Nat
  PROVE  Run = Waiting /\ HalUARTRxAvail = Waiting
<1> DEFINE w == Waiting
<1>1. w \in 0 .. RxMax
  BY DEF RingOK
<1>2. \A i \in Cells : New(FromHead(i)) <=> i < w
  BY Sizes DEF RingOK, New, NoByte, Cells
<1> HIDE DEF w
<1>3. Run = w
  <2> DEFINE P(k) == /\ \A i \in 0 .. RxMax - 1 : i < k => New(FromHead(i))
                     /\ k < RxMax => ~New(FromHead(k))
  <2>1. P(w)
    BY <1>1, <1>2, Sizes DEF Cells
  <2>2. \A k \in 0 .. RxMax : P(k) => k = w
    BY <1>1, <1>2, Sizes DEF Cells
  <2>3. Run = CHOOSE k \in 0 .. RxMax : P(k)
    BY DEF Run
  <2> HIDE DEF P
  <2> QED
    BY <1>1, <2>1, <2>2, <2>3
<1>4. CASE w = 0
  <2>1. ~New(rxHead)
    BY <1>2, <1>4, RingTurns, Sizes DEF Cells
  <2> QED
    BY <1>3, <1>4, <2>1 DEF HalUARTRxAvail, w
<1>5. CASE w # 0
  <2>1. New(rxHead)
    BY <1>1, <1>2, <1>5, RingTurns, Sizes DEF Cells
  <2> DEFINE N == {c \in Cells : New(c)}
             f == [i \in 0 .. w - 1 |-> FromHead(i)]
  <2>2. \A i \in 0 .. w - 1 : i \in Cells /\ FromHead(i) \in N
    <3>1. \A i \in 0 .. w - 1 : i \in Cells /\ i \in 0 .. RxMax /\ i < w
      BY <1>1, Sizes DEF Cells
    <3> QED
      BY <1>2, <3>1, RingTurns
  <2>3. f \in Bijection(0 .. w - 1, N)
    <3>1. f \in [0 .. w - 1 -> N]
      BY <2>2
    <3>2. \A i, j \in 0 .. w - 1 : f[i] = f[j] => i = j
      BY <2>2, RingTurns
    <3>3. \A c \in N : \E i \in 0 .. w - 1 : f[i] = c
      <4> SUFFICES ASSUME NEW c \in N PROVE \E i \in 0 .. w - 1 : f[i] = c
        OBVIOUS
      <4>1. PICK i \in Cells : c = FromHead(i)
        BY RingTurns
      <4>2. i \in 0 .. w - 1
        BY <1>1, <1>2, <4>1, Sizes DEF Cells
      <4> QED
        BY <4>1, <4>2
    <3> HIDE DEF f, N
    <3> QED
      BY <3>1, <3>2, <3>3 DEF Bijection, Injection, Surjection, IsInjective
  <2>4. IsFiniteSet(0 .. w - 1) /\ Cardinality(0 .. w - 1) = w
    <3>1. 0 \in Int /\ w - 1 \in Int /\ ~(0 > w - 1) /\ w - 1 - 0 + 1 = w
      BY <1>1, <1>5, Sizes
    <3> QED
      BY <3>1, FS_Interval
  <2>5. Cardinality(N) = w
    <3> HIDE DEF f, N
    <3> QED
      BY <2>3, <2>4, FS_Bijection DEF ExistsBijection
  <2> QED
    BY <1>3, <2>1, <2>5 DEF HalUARTRxAvail, w
<1> QED
  BY <1>4, <1>5
\* Waiting bytes in the time of the line, one more or less.
LEMMA CharTimes ==
  ASSUME NEW c \in Nat \ {0}, NEW k \in Nat
  PROVE  /\ k * c \in Nat
         /\ (k + 1) * c = k * c + c
         /\ \A m \in Nat : k + 1 <= m => k * c + c <= m * c
         /\ \A m \in Nat : k * c + c <= m * c => k + 1 <= m
<1>1. k * c \in Nat /\ (k + 1) * c = k * c + c
  OBVIOUS
<1>2. ASSUME NEW m \in Nat, k + 1 <= m PROVE k * c + c <= m * c
  BY <1>2
<1>3. ASSUME NEW m \in Nat, k * c + c <= m * c PROVE k + 1 <= m
  BY <1>3
<1> QED
  BY <1>1, <1>2, <1>3

\* PollsInTime, and that the ring is at least High long.
LEMMA PollsKeepUp == High * CharTicks + MaxGap <= RxMax * CharTicks
<1>1. \A a, b \in Nat, c \in Nat \ {0}, g \in Nat : g <= c * (a - b) => b * c + g <= a * c
  OBVIOUS
<1> QED
  BY <1>1, Sizes, PollsInTime

\* The receive side has not been touched.
LEMMA RxStays ==
  ASSUME RxOrder, UNCHANGED <<rxBuf, rxHead, rxPos, arrived, taken>>, InTimeOK'
  PROVE  RxOrder'
BY DEF RxOrder, RingOK, Waiting, FromHead, Numbered

LEMMA RxTick == IInv /\ RxOrder /\ Tick => RxOrder'
<1> SUFFICES ASSUME IInv, RxOrder, Tick PROVE RxOrder'
  OBVIOUS
<1>1. PICK total : total = Waiting * CharTicks
  OBVIOUS
<1>2. Waiting \in Nat /\ total \in Nat /\ High * CharTicks \in Nat
  BY <1>1, CharTimes, Sizes DEF RxOrder, RingOK
<1>3. gap' = gap + 1 /\ (lineAge' = lineAge + 1 \/ lineAge' = lineAge)
  BY DEF Tick
<1>4. Waiting' * CharTicks = total
  BY <1>1 DEF Tick, Waiting
<1>5. total + lineAge' <= High * CharTicks + gap'
  BY <1>1, <1>2, <1>3 DEF RxOrder, InTimeOK, IInv, RestOK
<1>6. InTimeOK'
  BY <1>4, <1>5 DEF Tick, InTimeOK
<1> QED
  BY <1>6, RxStays DEF Tick

\* The receiving channel finds a free cell: the poll comes in time.
LEMMA RxReceiveByte == IInv /\ RxOrder /\ ReceiveByte => RxOrder'
<1> SUFFICES ASSUME IInv, RxOrder, ReceiveByte PROVE RxOrder'
  OBVIOUS
<1>1. PICK w : w = Waiting
  OBVIOUS
<1>2. PICK t : t = Len(taken)
  OBVIOUS
<1>3. PICK total : total = w * CharTicks
  OBVIOUS
<1>4. w \in 0 .. RxMax /\ t \in Nat /\ arrived \in Nat /\ w = arrived - t /\ w \in Nat
  BY <1>1, <1>2, Sizes DEF RxOrder, RingOK, Waiting, IInv, RestOK
<1>5. total \in Nat /\ High * CharTicks \in Nat /\ (w + 1) * CharTicks = total + CharTicks
  BY <1>3, <1>4, CharTimes, Sizes
<1>6. w < RxMax
  <2>1. total + CharTicks <= High * CharTicks + MaxGap
    BY <1>1, <1>3, <1>5, Sizes DEF RxOrder, InTimeOK, IInv, RestOK, ReceiveByte
  <2>2. total + CharTicks <= RxMax * CharTicks
    <3>1. RxMax * CharTicks \in Nat
      BY CharTimes, Sizes
    <3> QED
      BY <1>5, <2>1, <3>1, PollsKeepUp, Sizes
  <2>3. w + 1 <= RxMax
    BY <1>3, <1>4, <2>2, CharTimes, Sizes
  <2> QED
    BY <1>4, <2>3, Sizes
<1>7. Waiting' = w + 1 /\ Len(taken)' = t
  BY <1>1, <1>2, <1>4 DEF ReceiveByte, Waiting
<1>8. \A i : FromHead(i)' = FromHead(i)
  BY DEF ReceiveByte, rxVars, FromHead
<1>9. RingOK'
  <2>1. rxHead \in Cells /\ w \in Cells
    BY <1>4, <1>6, Sizes DEF IInv, RxOK, Cells
  <2>2. rxPos = FromHead(w) /\ rxPos \in Cells /\ rxBuf \in [Cells -> 0 .. MaxRx]
    BY <1>1 DEF RxOrder, RingOK, IInv, RxOK, RestOK
  <2>3. rxPos' = FromHead(w + 1)
    BY <2>1, <2>2, RingTurns DEF ReceiveByte
  <2>4. ASSUME NEW i \in Cells
        PROVE  rxBuf'[FromHead(i)] = IF i < w + 1 THEN t + 1 + i ELSE NoByte
    <3>1. i \in 0 .. RxMax /\ i \in Nat
      BY Sizes DEF Cells
    <3>2. FromHead(i) \in Cells
      BY <2>1, <3>1, RingTurns
    <3>3. rxBuf' = [rxBuf EXCEPT ![rxPos] = arrived + 1]
      BY DEF ReceiveByte
    <3>4. CASE i = w
      <4>1. rxBuf'[FromHead(i)] = arrived + 1
        BY <2>2, <3>4, <3>3
      <4>2. arrived + 1 = t + 1 + i /\ i < w + 1
        BY <1>4, <3>4
      <4> QED
        BY <4>1, <4>2
    <3>5. CASE i # w
      <4>1. FromHead(i) # rxPos
        BY <2>1, <2>2, <3>5, RingTurns
      <4>2. rxBuf'[FromHead(i)] = rxBuf[FromHead(i)]
        BY <2>2, <3>2, <3>3, <4>1
      <4>3. rxBuf[FromHead(i)] = IF i < w THEN t + 1 + i ELSE NoByte
        BY <1>1, <1>2 DEF RxOrder, RingOK
      <4> QED
        BY <1>4, <3>1, <3>5, <4>2, <4>3
    <3> QED
      BY <3>4, <3>5
  <2>5. w + 1 \in 0 .. RxMax
    BY <1>4, <1>6, Sizes
  <2> QED
    BY <1>7, <1>8, <2>3, <2>4, <2>5 DEF RingOK
<1>10. InTimeOK'
  <2>1. lineAge = CharTicks /\ lineAge' = 0 /\ gap' = gap /\ pc' = pc /\ evt' = evt
    BY DEF ReceiveByte, loopVars
  <2>2. Waiting' * CharTicks + lineAge' = Waiting * CharTicks + lineAge
    BY <1>1, <1>3, <1>5, <1>7, <2>1, Sizes
  <2> QED
    BY <2>1, <2>2 DEF RxOrder, InTimeOK
<1> QED
  BY <1>9, <1>10 DEF RxOrder, ReceiveByte, Numbered

LEMMA RxPollReceive == IInv /\ RxOrder /\ PollReceive => RxOrder'
<1> SUFFICES ASSUME IInv, RxOrder, PollReceive PROVE RxOrder'
  OBVIOUS
<1>1. PICK w : w = Waiting
  OBVIOUS
<1>2. w \in Nat /\ w = HalUARTRxAvail
  BY <1>1, WaitingIsSeen, Sizes DEF RxOrder, RingOK, IInv, RxOK, RestOK
<1>3. Waiting' = w /\ lineAge' = lineAge /\ gap' = gap
  BY <1>1 DEF PollReceive, Waiting, lineVars
<1>4. ~evt' => w * CharTicks + lineAge <= High * CharTicks
  <2> SUFFICES ASSUME ~evt' PROVE w * CharTicks + lineAge <= High * CharTicks
    OBVIOUS
  <2>1. ~(w >= High)
    BY <1>2 DEF PollReceive
  <2>2. w * CharTicks + CharTicks <= High * CharTicks
    BY <1>2, <2>1, CharTimes, Sizes
  <2>3. w * CharTicks \in Nat /\ High * CharTicks \in Nat /\ lineAge \in 0 .. CharTicks
    BY <1>2, CharTimes, Sizes DEF IInv, RestOK
  <2> QED
    BY <2>2, <2>3, Sizes
<1>5. InTimeOK'
  BY <1>1, <1>3, <1>4 DEF RxOrder, InTimeOK
<1> QED
  BY <1>5, RxStays DEF PollReceive, lineVars
\* The callback takes all that waits, in the order of the ring.
LEMMA ReadTakesAll ==
  ASSUME IInv, RxOrder, HalUARTRead(HalUARTRxAvail)
  PROVE  /\ taken' = taken \o [i \in 1 .. Waiting |-> Len(taken) + i]
         /\ rxBuf' = [c \in Cells |-> NoByte]
         /\ rxHead' = rxPos
<1>1. PICK w : w = Waiting
  OBVIOUS
<1>2. PICK t : t = Len(taken)
  OBVIOUS
<1>3. w \in 0 .. RxMax /\ t \in Nat /\ rxHead \in Cells
  BY <1>1, <1>2, Sizes DEF RxOrder, RingOK, IInv, RestOK, RxOK
<1>4. Run = w /\ HalUARTRxAvail = w
  BY <1>1, <1>2, <1>3, WaitingIsSeen DEF RxOrder
<1>5. \A i \in Cells : rxBuf[FromHead(i)] = IF i < w THEN t + 1 + i ELSE NoByte
  BY <1>1, <1>2 DEF RxOrder, RingOK
<1>6. taken' = taken \o [i \in 1 .. w |-> t + i]
  <2>1. \A i \in 1 .. w :
          (IF i <= w THEN rxBuf[FromHead(i - 1)] ELSE NoByte) = t + i
    <3> SUFFICES ASSUME NEW i \in 1 .. w PROVE rxBuf[FromHead(i - 1)] = t + i
      BY <1>3, Sizes
    <3>1. i - 1 \in Cells /\ i - 1 < w /\ t + 1 + (i - 1) = t + i
      BY <1>3, Sizes DEF Cells
    <3> QED
      BY <1>5, <3>1
  <2>2. taken' = taken \o [i \in 1 .. w |->
                             IF i <= w THEN rxBuf[FromHead(i - 1)] ELSE NoByte]
    BY <1>4 DEF HalUARTRead
  <2>3. [i \in 1 .. w |-> IF i <= w THEN rxBuf[FromHead(i - 1)] ELSE NoByte]
          = [i \in 1 .. w |-> t + i]
    BY <2>1
  <2> QED
    BY <2>2, <2>3, Zenon
<1>7. rxBuf' = [c \in Cells |-> NoByte]
  <2>1. rxBuf' = [c \in Cells |-> IF \E i \in 0 .. RxMax - 1 : i < w /\ c = FromHead(i)
                                  THEN NoByte ELSE rxBuf[c]]
    BY <1>3, <1>4, Sizes DEF HalUARTRead
  <2>2. ASSUME NEW c \in Cells,
               ~(\E i \in 0 .. RxMax - 1 : i < w /\ c = FromHead(i))
        PROVE  rxBuf[c] = NoByte
    <3>1. PICK i \in Cells : c = FromHead(i)
      BY <1>3, RingTurns
    <3>2. ~(i < w)
      BY <2>2, <3>1 DEF Cells
    <3> QED
      BY <1>5, <3>1, <3>2
  <2> QED
    BY <2>1, <2>2
<1>8. rxHead' = FromHead(w)
  BY <1>3, <1>4, Sizes DEF HalUARTRead
<1>9. rxPos = FromHead(w)
  BY <1>1 DEF RxOrder, RingOK
<1> QED
  BY <1>1, <1>2, <1>6, <1>7, <1>8, <1>9

LEMMA RxPollCall == IInv /\ RxOrder /\ PollCall => RxOrder'
<1> SUFFICES ASSUME IInv, RxOrder, PollCall PROVE RxOrder'
  OBVIOUS
<1>1. CASE ~evt
  <2>1. InTimeOK'
    BY <1>1, Sizes DEF RxOrder, InTimeOK, PollCall, Waiting, lineVars
  <2> QED
    BY <1>1, <2>1, RxStays DEF PollCall, lineVars
<1>2. CASE evt
  <2>1. PICK w : w = Waiting
    OBVIOUS
  <2>2. PICK t : t = Len(taken)
    OBVIOUS
  <2> DEFINE more == [i \in 1 .. w |-> t + i]
  <2>3. /\ taken' = taken \o more
        /\ rxBuf' = [c \in Cells |-> NoByte]
        /\ rxHead' = rxPos
    BY <1>2, <2>1, <2>2, ReadTakesAll DEF PollCall
  <2>4. w \in Nat /\ t \in Nat /\ arrived = t + w /\ taken \in Seq(0 .. MaxRx)
    BY <2>1, <2>2, Sizes DEF RxOrder, RingOK, Waiting, IInv, RestOK
  <2>5. more \in Seq(Nat) /\ Len(more) = w /\ \A i \in 1 .. w : more[i] = t + i
    BY <2>4
  <2> HIDE DEF more
  <2>6. taken \in Seq(Nat)
    BY <2>4, Sizes
  <2>7. Len(taken') = t + w /\ \A i \in 1 .. t + w : taken'[i] = IF i <= t THEN taken[i] ELSE more[i - t]
    BY <2>2, <2>3, <2>4, <2>5, <2>6, ConcatProperties
  <2>8. Numbered(taken')
    <3> SUFFICES ASSUME NEW i \in 1 .. t + w PROVE taken'[i] = i
      BY <2>7 DEF Numbered
    <3>1. CASE i <= t
      BY <2>2, <2>4, <2>7, <3>1 DEF RxOrder, Numbered
    <3>2. CASE ~(i <= t)
      <4>1. i - t \in 1 .. w /\ t + (i - t) = i
        BY <2>4, <3>2
      <4> QED
        BY <2>5, <2>7, <3>2, <4>1
    <3> QED
      BY <3>1, <3>2
  <2>9. Waiting' = 0 /\ arrived' = arrived /\ rxPos' = rxPos /\ lineAge' = lineAge
    BY <2>4, <2>7 DEF PollCall, lineVars, Waiting
  <2>10. RingOK'
    <3>1. rxPos \in 0 .. RxMax - 1 /\ RxMax \in Nat \ {0}
      BY Sizes DEF IInv, RestOK, Cells
    <3>2. (rxPos + 0) % RxMax = rxPos
      BY <3>1
    <3>3. \A i \in Cells : (rxPos + i) % RxMax \in Cells
      BY <3>1 DEF Cells
    <3>4. \A i : FromHead(i)' = (rxPos + i) % RxMax
      BY <2>3 DEF FromHead
    <3>5. \A i \in Cells : rxBuf'[FromHead(i)'] = NoByte /\ ~(i < 0)
      BY <2>3, <3>3, <3>4, Sizes DEF Cells
    <3>6. rxPos' = FromHead(0)'
      BY <2>9, <3>2, <3>4
    <3> QED
      BY <2>9, <3>1, <3>5, <3>6 DEF RingOK
  <2>11. InTimeOK'
    <3>1. CharTicks <= High * CharTicks /\ 0 * CharTicks = 0
      BY UartAssumption
    <3>2. High * CharTicks \in Nat /\ lineAge \in 0 .. CharTicks
      BY CharTimes, Sizes, UartAssumption DEF IInv, RestOK
    <3> QED
      BY <2>9, <3>1, <3>2, Sizes DEF InTimeOK, PollCall
  <2> QED
    BY <2>8, <2>10, <2>11 DEF RxOrder
<1> QED
  BY <1>1, <1>2

LEMMA RxInit == Init => RxOrder
<1> SUFFICES ASSUME Init PROVE RxOrder
  OBVIOUS
<1>1. Waiting = 0 /\ Len(taken) = 0 /\ rxPos = 0 /\ lineAge = CharTicks /\ gap = 0
  <2>1. arrived = 0 /\ rxPos = 0 /\ lineAge = CharTicks /\ gap = 0
    BY Zenon DEF Init
  <2>2. Len(taken) = 0
    BY DEF Init
  <2>3. arrived - Len(taken) = 0
    BY <2>1, <2>2
  <2> QED
    BY <2>1, <2>2, <2>3, Zenon DEF Waiting
<1>2. RingOK
  <2>1. \A i \in 0 .. RxMax : FromHead(i) = IF i < RxMax THEN i ELSE 0
    <3>1. \A n \in Nat \ {0} : \A i \in 0 .. n : (0 + i) % n = IF i < n THEN i ELSE 0
      OBVIOUS
    <3> QED
      BY <3>1, Sizes DEF Init, FromHead
  <2>2. \A i \in Cells : FromHead(i) \in Cells /\ ~(i < 0)
    BY <2>1, Sizes DEF Cells
  <2>3. FromHead(0) = 0
    BY <2>1, Sizes
  <2> QED
    BY <1>1, <2>2, <2>3, Sizes DEF Init, RingOK
<1>3. InTimeOK
  <2>1. CharTicks <= High * CharTicks /\ 0 * CharTicks = 0 /\ High * CharTicks \in Nat
    BY UartAssumption
  <2> QED
    BY <1>1, <2>1, Sizes DEF Init, InTimeOK
<1> QED
  BY <1>1, <1>2, <1>3 DEF RxOrder, Init, Numbered

LEMMA RxNext == IInv /\ RxOrder /\ [Next]_vars => RxOrder'
<1> SUFFICES ASSUME IInv, RxOrder, [Next]_vars PROVE RxOrder'
  OBVIOUS
<1>1. ASSUME WriteCopy \/ WriteCommit \/ halDmaIsr \/ PollShadow \/ PollFire \/ UNCHANGED vars
      PROVE  RxOrder'
  <2>1. /\ UNCHANGED <<rxBuf, rxHead, rxPos, arrived, taken, lineAge, gap, evt>>
        /\ pc' \in {"shadow", "fire", "call"} => pc \in {"shadow", "fire", "call"}
    BY <1>1 DEF WriteCopy, WriteCommit, halDmaIsr, PollShadow, PollFire, vars,
                rxVars, loopVars, lineVars
  <2>2. InTimeOK'
    BY <2>1 DEF RxOrder, InTimeOK, Waiting
  <2> QED
    BY <2>1, <2>2, RxStays
<1> QED
  BY <1>1, RxTick, RxReceiveByte, RxPollReceive, RxPollCall DEF Next, Poll
-----------------------------------------------------------------------------
(***************************************************************************)
(* The bytes that go out.  A state h of the sending channel is looked at   *)
(* when n bytes have left the line.                                        *)
(***************************************************************************)

\* The last byte that has gone to the line, and the last one moved to UxDBUF.
Shifted(h, n) == IF h.shift = NoByte THEN n ELSE n + 1
Loaded(h, n) == IF h.dbuf = NoByte THEN Shifted(h, n) ELSE Shifted(h, n) + 1

\* The last byte of the transfer that is on, or of all before it.
Rest(h, n) == IF h.armed THEN Loaded(h, n) + (h.len - h.pos) ELSE Loaded(h, n)

\* The channel has the next bytes before it.
Upcoming(h, n) ==
  h.armed => \A i \in h.pos + 1 .. h.len : txBuf[h.src][i] = Loaded(h, n) + (i - h.pos)

\* UxDBUF and the line hold the next bytes.
Flowing(h, n) ==
  /\ h.shift # NoByte => h.shift = n + 1
  /\ h.dbuf # NoByte => h.dbuf = Shifted(h, n) + 1
  /\ h.shift # NoByte <=> h.left > 0
  /\ Upcoming(h, n)

\* And nothing waits that could go on.
LineOK(h, n) ==
  /\ Flowing(h, n)
  /\ h.dbuf # NoByte => h.shift # NoByte
  /\ h.armed => h.dbuf # NoByte

LEMMA UpdateBytes ==
  ASSUME NEW h \in HwRec
  PROVE  /\ \A b, p : LET g == Moved(h, b, p)
                      IN  g.dbuf = b /\ g.shift = h.shift /\ g.left = h.left
         /\ LET g == Ended(h)
            IN  g.dbuf = h.dbuf /\ g.shift = h.shift /\ g.left = h.left
         /\ LET g == OnLine(h)
            IN  g.dbuf = NoByte /\ g.shift = h.dbuf /\ g.left = CharTicks
         /\ LET g == OffLine(h)
            IN  g.dbuf = h.dbuf /\ g.shift = NoByte /\ g.left = 0
         /\ LET g == Elapsed(h)
            IN  g.dbuf = h.dbuf /\ g.shift = h.shift /\ g.left = h.left - 1
         /\ LET g == Served(h)
            IN  g.dbuf = h.dbuf /\ g.shift = h.shift /\ g.left = h.left
         /\ \A s, k : LET g == Started(h, s, k)
                      IN  g.dbuf = h.dbuf /\ g.shift = h.shift /\ g.left = h.left
<1>1. ASSUME NEW b, NEW p
      PROVE  LET g == Moved(h, b, p)
             IN  g.dbuf = b /\ g.shift = h.shift /\ g.left = h.left
  BY DEF HwRec, Moved
<1>2. LET g == Ended(h) IN g.dbuf = h.dbuf /\ g.shift = h.shift /\ g.left = h.left
  BY DEF HwRec, Ended
<1>3. LET g == OnLine(h) IN g.dbuf = NoByte /\ g.shift = h.dbuf /\ g.left = CharTicks
  BY DEF HwRec, OnLine
<1>4. LET g == OffLine(h) IN g.dbuf = h.dbuf /\ g.shift = NoByte /\ g.left = 0
  BY DEF HwRec, OffLine
<1>5. LET g == Elapsed(h)
      IN  g.dbuf = h.dbuf /\ g.shift = h.shift /\ g.left = h.left - 1
  BY DEF HwRec, Elapsed
<1>6. LET g == Served(h) IN g.dbuf = h.dbuf /\ g.shift = h.shift /\ g.left = h.left
  BY DEF HwRec, Served
<1>7. ASSUME NEW s, NEW k
      PROVE  LET g == Started(h, s, k)
             IN  g.dbuf = h.dbuf /\ g.shift = h.shift /\ g.left = h.left
  BY DEF HwRec, Started
<1> QED
  BY <1>1, <1>2, <1>3, <1>4, <1>5, <1>6, <1>7

\* A byte moved to an empty UxDBUF is the next one.
LEMMA LoadFlows ==
  ASSUME txBuf \in TxBufs, NEW h \in HwRec, NEW n \in Nat,
         h.armed, h.pos < h.len, h.dbuf = NoByte, Flowing(h, n)
  PROVE  LET g == Load(h)
         IN  /\ Flowing(g, n) /\ Rest(g, n) = Rest(h, n)
             /\ g.dbuf # NoByte /\ g.shift = h.shift /\ g.left = h.left
             /\ g.armed \/ g.irq
<1> DEFINE next == Shifted(h, n) + 1
           moved == Moved(h, txBuf[h.src][h.pos + 1], h.pos + 1)
<1>1. /\ h.pos \in 0 .. TxMax /\ h.len \in 0 .. TxMax /\ TxMax \in Nat
      /\ Shifted(h, n) \in Nat /\ Loaded(h, n) = Shifted(h, n)
  BY HwFields, Sizes DEF Shifted, Loaded
<1>2. txBuf[h.src][h.pos + 1] = next
  <2>1. h.pos + 1 \in h.pos + 1 .. h.len /\ (h.pos + 1) - h.pos = 1
    BY <1>1
  <2> QED
    BY <1>1, <2>1 DEF Flowing, Upcoming
<1>3. moved \in HwRec
  <2>1. h.pos + 1 \in 0 .. TxMax /\ h.pos + 1 \in 1 .. TxMax /\ h.src \in 0 .. 1
    BY <1>1, HwFields
  <2>2. txBuf[h.src][h.pos + 1] \in 0 .. MaxTx
    BY <2>1 DEF TxBufs
  <2> QED
    BY <2>1, <2>2, UpdateTypes
<1>4. /\ moved.dbuf = next /\ moved.shift = h.shift /\ moved.left = h.left
      /\ moved.armed /\ moved.src = h.src /\ moved.len = h.len
      /\ moved.pos = h.pos + 1
  <2>1. moved.dbuf = txBuf[h.src][h.pos + 1] /\ moved.shift = h.shift /\ moved.left = h.left
    BY UpdateBytes
  <2>2. moved.armed /\ moved.src = h.src /\ moved.len = h.len
    BY UpdateReads
  <2>3. moved.pos = h.pos + 1
    BY UpdateReads
  <2> QED
    BY <1>2, <2>1, <2>2, <2>3, Zenon
<1>5. Load(h) = IF moved.pos < h.len THEN moved ELSE Ended(moved)
  <2>1. moved.len = h.len
    BY <1>4
  <2> QED
    BY <2>1 DEF Load, Moved, Ended
<1> HIDE DEF moved
<1>6. next \in Nat /\ next # NoByte
  BY <1>1 DEF NoByte
<1> HIDE DEF next
<1>7. Shifted(moved, n) = Shifted(h, n) /\ Loaded(moved, n) = next
  BY <1>4, <1>6 DEF Shifted, Loaded, next
<1>8. CASE moved.pos < h.len
  <2>1. Upcoming(moved, n)
    <3> SUFFICES ASSUME NEW i \in h.pos + 2 .. h.len
                 PROVE  txBuf[h.src][i] = next + (i - (h.pos + 1))
      BY <1>1, <1>4, <1>7 DEF Upcoming
    <3>1. i \in h.pos + 1 .. h.len
      BY <1>1
    <3>2. txBuf[h.src][i] = Shifted(h, n) + (i - h.pos)
      BY <1>1, <3>1 DEF Flowing, Upcoming
    <3> QED
      BY <1>1, <3>2 DEF next
  <2>2. Rest(moved, n) = Rest(h, n)
    BY <1>1, <1>4, <1>7 DEF Rest, next
  <2>3. Flowing(moved, n)
    BY <1>4, <1>7, <2>1 DEF Flowing, next
  <2> QED
    BY <1>4, <1>5, <1>6, <1>8, <2>2, <2>3
<1>9. CASE ~(moved.pos < h.len)
  <2> DEFINE g == Ended(moved)
  <2>1. g.dbuf = next /\ g.shift = h.shift /\ g.left = h.left /\ ~g.armed /\ g.irq
    BY <1>3, <1>4, UpdateBytes, UpdateReads
  <2> HIDE DEF g
  <2>2. Shifted(g, n) = Shifted(h, n) /\ Loaded(g, n) = next
    BY <2>1, <1>6 DEF Shifted, Loaded, next
  <2>3. h.len - h.pos = 1
    BY <1>1, <1>4, <1>9
  <2>4. Rest(g, n) = Rest(h, n)
    BY <1>1, <2>1, <2>2, <2>3 DEF Rest, next
  <2>5. Flowing(g, n)
    BY <2>1, <2>2 DEF Flowing, Upcoming, next
  <2> QED
    BY <1>5, <1>6, <1>9, <2>1, <2>4, <2>5 DEF g
<1> QED
  BY <1>8, <1>9
\* The line takes the byte in UxDBUF, which then takes the channel's next one.
LEMMA ShiftFlows ==
  ASSUME txBuf \in TxBufs, NEW h, Sound(h), NEW n \in Nat,
         Flowing(h, n), h.armed => h.dbuf # NoByte
  PROVE  LET g == Shift(h)
         IN  /\ LineOK(g, n) /\ Rest(g, n) = Rest(h, n)
             /\ h.armed \/ h.irq => g.armed \/ g.irq
             /\ ~h.armed /\ h.shift = NoByte => g.dbuf = NoByte
<1>1. CASE h.shift # NoByte \/ h.dbuf = NoByte
  BY <1>1 DEF Shift, LineOK
<1>2. CASE ~(h.shift # NoByte \/ h.dbuf = NoByte)
  <2> DEFINE on == OnLine(h)
  <2>1. Shift(h) = IF on.armed THEN Load(on) ELSE on
    BY <1>2 DEF Shift, OnLine
  <2>2. on \in HwRec /\ SameTransfer(on, h)
    BY UpdateTypes, UpdateReads DEF Sound
  <2>3. on.dbuf = NoByte /\ on.shift = h.dbuf /\ on.left = CharTicks
    BY UpdateBytes DEF Sound
  <2> HIDE DEF on
  <2>4. h.dbuf = n + 1 /\ h.dbuf # NoByte
    BY <1>2 DEF Flowing, Shifted
  <2>5. Shifted(on, n) = n + 1 /\ Loaded(on, n) = n + 1 /\ Loaded(h, n) = n + 1
    BY <1>2, <2>3, <2>4 DEF Shifted, Loaded
  <2>6. Rest(on, n) = Rest(h, n)
    BY <2>2, <2>5 DEF Rest, SameTransfer
  <2>7. Upcoming(on, n)
    BY <2>2, <2>5 DEF Flowing, Upcoming, SameTransfer
  <2>8. Flowing(on, n)
    BY <2>3, <2>4, <2>7, Sizes DEF Flowing
  <2>9. CASE h.armed
    <3>1. on.armed /\ on.pos < on.len
      BY <2>2, <2>9 DEF Sound, SameTransfer
    <3>2. LET g == Load(on)
          IN  /\ Flowing(g, n) /\ Rest(g, n) = Rest(on, n)
              /\ g.dbuf # NoByte /\ g.shift = on.shift /\ g.left = on.left
              /\ g.armed \/ g.irq
      BY <2>2, <2>3, <2>8, <3>1, LoadFlows
    <3> QED
      BY <2>1, <2>3, <2>4, <2>6, <2>9, <3>1, <3>2 DEF LineOK
  <2>10. CASE ~h.armed
    <3>1. ~on.armed
      BY <2>2, <2>10 DEF SameTransfer
    <3> QED
      BY <2>1, <2>2, <2>3, <2>6, <2>8, <2>10, <3>1 DEF LineOK, SameTransfer
  <2> QED
    BY <2>9, <2>10
<1> QED
  BY <1>1, <1>2

\* What has been written to the buffer that is not being sent.
Added == accepted - Rest(hw, Len(sent))

\* Those are the bytes after the transfer, the last Written of them when a
\* write has copied and not committed.
AddedOK ==
  /\ Added \in 0 .. TxMax
  /\ \A i \in 1 .. Added : txBuf[txSel][i] = Rest(hw, Len(sent)) + i
  /\ pc # "commit" => Added = txIdx[txSel]
  /\ pc = "commit" =>
       /\ Added > txIdx[txSel]
       /\ \A i \in 1 .. TxMax : txBuf[txSel][i] = accepted => i = Added
  /\ \A s \in 0 .. 1 : \A i \in 1 .. TxMax : txBuf[s][i] <= accepted

\* While UxDBUF holds the last byte of a transfer the shadow is valid, and is
\* so for long enough: its age has not wrapped.
ShadowOK ==
  /\ ~hw.armed /\ ~hw.irq /\ ~txShdwValid => hw.dbuf = NoByte
  /\ txShdwValid /\ hw.dbuf # NoByte => hw.left + txAge <= CharTicks
  /\ txShdwValid => txAge <= TxTick + gap
  /\ txShdwValid /\ pc \in {"fire", "call"} => txAge <= TxTick

TxOrder == Numbered(sent) /\ LineOK(hw, Len(sent)) /\ AddedOK /\ ShadowOK

\* The hardware has the same bytes before it, in UxDBUF and on the line.
LEMMA LineStays ==
  ASSUME NEW h, NEW g, NEW n \in Nat, SameTransfer(g, h) \/ (~h.armed /\ ~g.armed),
         g.dbuf = h.dbuf, g.shift = h.shift, g.left > 0 <=> h.left > 0, LineOK(h, n)
  PROVE  LineOK(g, n) /\ Rest(g, n) = Rest(h, n)
<1>1. Shifted(g, n) = Shifted(h, n) /\ Loaded(g, n) = Loaded(h, n)
  BY DEF Shifted, Loaded
<1>2. Upcoming(g, n)
  BY <1>1 DEF LineOK, Flowing, Upcoming, SameTransfer
<1>3. Rest(g, n) = Rest(h, n)
  BY <1>1 DEF Rest, SameTransfer
<1> QED
  BY <1>1, <1>2, <1>3 DEF LineOK, Flowing, SameTransfer

LEMMA TxInit == Init => TxOrder
<1> SUFFICES ASSUME Init PROVE TxOrder
  OBVIOUS
<1>1. /\ hw.dbuf = NoByte /\ hw.shift = NoByte /\ hw.left = 0 /\ ~hw.armed /\ ~hw.irq
  BY DEF Init, Quiet
<1>2. /\ accepted = 0 /\ sent = <<>> /\ txIdx = [s \in 0 .. 1 |-> 0] /\ txSel = 0
      /\ txBuf = [s \in 0 .. 1 |-> [i \in 1 .. TxMax |-> NoByte]]
      /\ ~txShdwValid /\ pc = "idle"
  BY Zenon DEF Init
<1>3. Len(sent) = 0
  BY <1>2
<1>4. Rest(hw, Len(sent)) = 0
  BY <1>1, <1>3 DEF Rest, Loaded, Shifted
<1>5. LineOK(hw, Len(sent))
  BY <1>1 DEF LineOK, Flowing, Upcoming
<1>6. AddedOK
  BY <1>2, <1>4, Sizes DEF AddedOK, Added, NoByte
<1>7. ShadowOK
  BY <1>1, <1>2 DEF ShadowOK
<1> QED
  BY <1>3, <1>5, <1>6, <1>7 DEF TxOrder, Numbered
LEMMA LinePrimed ==
  ASSUME NEW h, NEW n, LineOK(h, n), txBuf' = txBuf, hw' = h, Len(sent)' = n
  PROVE  LineOK(hw, Len(sent))'
BY DEF LineOK, Flowing, Upcoming, Shifted, Loaded

\* What has been written stays what it was.
LEMMA AddedStays ==
  ASSUME AddedOK, UNCHANGED <<txBuf, txSel, accepted>>,
         (pc = "commit")' <=> pc = "commit",
         txIdx'[txSel] = txIdx[txSel], Rest(hw, Len(sent))' = Rest(hw, Len(sent))
  PROVE  AddedOK'
<1>1. Added' = Added
  BY DEF Added
<1> QED
  BY <1>1 DEF AddedOK

\* The send side has not been touched but for the shadow.
LEMMA TxStays ==
  ASSUME TxOrder, UNCHANGED <<txBuf, txIdx, txSel, hw, sent, accepted>>,
         (pc = "commit")' <=> pc = "commit", ShadowOK'
  PROVE  TxOrder'
<1>1. LineOK(hw, Len(sent))'
  BY LinePrimed DEF TxOrder
<1>2. Rest(hw, Len(sent))' = Rest(hw, Len(sent))
  BY DEF Rest, Loaded, Shifted
<1>3. AddedOK'
  BY <1>2, AddedStays DEF TxOrder
<1> QED
  BY <1>1, <1>3 DEF TxOrder, Numbered

\* A tick of the line.
LEMMA LineTicks ==
  ASSUME IInv, TxOrder, Tick
  PROVE  /\ LineOK(hw, Len(sent))' /\ Rest(hw, Len(sent))' = Rest(hw, Len(sent))
         /\ Numbered(sent)'
         /\ hw.armed \/ hw.irq => hw'.armed \/ hw'.irq
         /\ ~hw.armed /\ hw'.dbuf # NoByte => hw.dbuf # NoByte /\ hw'.left = hw.left - 1
<1> DEFINE n == Len(sent)
<1>1. /\ hw \in HwRec /\ Sound(hw) /\ txBuf \in TxBufs /\ n \in Nat
      /\ sent \in Seq(0 .. MaxTx) /\ hw.shift \in 0 .. MaxTx /\ hw.left \in 0 .. CharTicks
  BY HwFields DEF IInv, TxOK, RestOK, Sound
<1>2. LineOK(hw, n) /\ Numbered(sent) /\ txBuf' = txBuf
  BY DEF TxOrder, Tick
<1>3. CASE hw.left = 1
  <2> DEFINE off == OffLine(hw)
  <2>1. hw' = Shift(off) /\ sent' = Append(sent, hw.shift)
    BY <1>3 DEF Tick, OffLine
  <2>2. off \in HwRec /\ SameTransfer(off, hw)
    BY <1>1, UpdateTypes, UpdateReads
  <2>3. off.dbuf = hw.dbuf /\ off.shift = NoByte /\ off.left = 0
    BY <1>1, UpdateBytes
  <2> HIDE DEF off
  <2>4. hw.shift = n + 1 /\ hw.shift # NoByte
    BY <1>2, <1>3 DEF LineOK, Flowing
  <2>5. Len(sent') = n + 1 /\ \A i \in 1 .. n + 1 : sent'[i] = IF i <= n THEN sent[i] ELSE hw.shift
    BY <1>1, <2>1
  <2>6. Numbered(sent')
    BY <1>1, <1>2, <2>4, <2>5 DEF Numbered
  <2>7. Shifted(off, n + 1) = Shifted(hw, n)
    BY <2>3, <2>4 DEF Shifted
  <2>8. Loaded(off, n + 1) = Loaded(hw, n)
    BY <2>3, <2>7 DEF Loaded
  <2>9. Rest(off, n + 1) = Rest(hw, n)
    BY <2>2, <2>8 DEF Rest, SameTransfer
  <2>10. Upcoming(off, n + 1)
    BY <1>2, <2>2, <2>8 DEF LineOK, Flowing, Upcoming, SameTransfer
  <2>11. Flowing(off, n + 1) /\ (off.armed => off.dbuf # NoByte)
    BY <1>2, <2>2, <2>3, <2>7, <2>10 DEF LineOK, Flowing, SameTransfer
  <2>12. Sound(off)
    BY <1>1, <2>2 DEF Sound, SameTransfer
  <2>13. LET g == Shift(off)
         IN  /\ LineOK(g, n + 1) /\ Rest(g, n + 1) = Rest(off, n + 1)
             /\ off.armed \/ off.irq => g.armed \/ g.irq
             /\ ~off.armed /\ off.shift = NoByte => g.dbuf = NoByte
    BY <1>1, <2>11, <2>12, ShiftFlows
  <2>14. LineOK(hw', n + 1) /\ Rest(hw', n + 1) = Rest(hw, n)
    BY <2>1, <2>9, <2>13
  <2>15. LineOK(hw, Len(sent))' /\ Rest(hw, Len(sent))' = Rest(hw, Len(sent))
    <3>1. Rest(hw, Len(sent))' = Rest(hw', n + 1)
      BY <2>5 DEF Rest, Loaded, Shifted
    <3> QED
      BY <1>2, <2>5, <2>14, <3>1, LinePrimed
  <2> QED
    BY <2>1, <2>2, <2>3, <2>6, <2>13, <2>15 DEF SameTransfer
<1>4. CASE hw.left # 1
  <2>1. sent' = sent /\ Len(sent)' = n
    BY <1>4 DEF Tick
  <2>2. PICK g : g = hw'
    OBVIOUS
  <2>3. /\ g.dbuf = hw.dbuf /\ g.shift = hw.shift /\ SameTransfer(g, hw)
        /\ g.left = IF hw.left > 1 THEN hw.left - 1 ELSE hw.left
    <3>1. CASE hw.left > 1
      <4>1. g = Elapsed(hw)
        BY <1>4, <2>2, <3>1 DEF Tick, Elapsed
      <4>2. g.dbuf = hw.dbuf /\ g.shift = hw.shift /\ g.left = hw.left - 1
        BY <1>1, <4>1, UpdateBytes
      <4>3. SameTransfer(g, hw)
        BY <1>1, <4>1, UpdateReads
      <4> QED
        BY <3>1, <4>2, <4>3
    <3>2. CASE ~(hw.left > 1)
      BY <1>4, <2>2, <3>2 DEF Tick, SameTransfer
    <3> QED
      BY <3>1, <3>2
  <2>4. g.left > 0 <=> hw.left > 0
    BY <1>1, <1>4, <2>3
  <2>5. LineOK(g, n) /\ Rest(g, n) = Rest(hw, n)
    BY <1>1, <1>2, <2>3, <2>4, LineStays
  <2>6. LineOK(hw, Len(sent))'
    BY <1>2, <2>1, <2>2, <2>5, LinePrimed
  <2>7. Rest(hw, Len(sent))' = Rest(g, n)
    BY <2>1, <2>2 DEF Rest, Loaded, Shifted
  <2>8. hw.dbuf # NoByte => g.left = hw.left - 1
    BY <1>1, <1>2, <1>4, <2>3 DEF LineOK, Flowing
  <2>9. Numbered(sent)'
    BY <1>2, <2>1 DEF Numbered
  <2> QED
    BY <2>2, <2>3, <2>5, <2>6, <2>7, <2>8, <2>9 DEF SameTransfer
<1> QED
  BY <1>3, <1>4

LEMMA TxTicks == IInv /\ TxOrder /\ Tick => TxOrder'
<1> SUFFICES ASSUME IInv, TxOrder, Tick PROVE TxOrder'
  OBVIOUS
<1>1. /\ LineOK(hw, Len(sent))' /\ Rest(hw, Len(sent))' = Rest(hw, Len(sent))
      /\ Numbered(sent)'
  BY LineTicks
<1>2. AddedOK'
  BY <1>1, AddedStays DEF TxOrder, Tick
<1>3. ShadowOK'
  <2>1. /\ hw.armed \/ hw.irq => hw'.armed \/ hw'.irq
        /\ ~hw.armed /\ hw'.dbuf # NoByte => hw.dbuf # NoByte /\ hw'.left = hw.left - 1
    BY LineTicks
  <2>2. /\ pc' = pc /\ pc \in {"idle", "commit"} /\ txShdwValid' = txShdwValid
        /\ gap < MaxGap /\ gap' = gap + 1
        /\ txAge' = IF txShdwValid THEN Older(txAge) ELSE txAge
    BY Zenon DEF Tick
  <2>3. txAge \in Nat /\ gap \in Nat /\ hw.left \in 0 .. CharTicks
    BY Sizes, HwFields DEF IInv, TxOK, RestOK, Sound
  <2>4. txShdwValid => txAge' = txAge + 1 /\ txAge + 1 <= TxTick + (gap + 1) /\ ~hw.armed
    <3> SUFFICES ASSUME txShdwValid
                 PROVE  txAge' = txAge + 1 /\ txAge + 1 <= TxTick + (gap + 1) /\ ~hw.armed
      OBVIOUS
    <3>1. txAge <= TxTick + gap
      BY DEF TxOrder, ShadowOK
    <3>2. txAge + 1 < St0Size /\ txAge + 1 <= TxTick + (gap + 1) /\ St0Size \in Nat
      BY <2>2, <2>3, <3>1, UartAssumption
    <3>3. Older(txAge) = txAge + 1
      BY <2>3, <3>2 DEF Older
    <3> QED
      BY <2>2, <3>2, <3>3 DEF IInv, TxOK, BuffersApart
  <2>5. ~hw'.armed /\ ~hw'.irq /\ ~txShdwValid' => hw'.dbuf = NoByte
    BY <2>1, <2>2 DEF TxOrder, ShadowOK
  <2>6. txShdwValid' /\ hw'.dbuf # NoByte => hw'.left + txAge' <= CharTicks
    <3> SUFFICES ASSUME txShdwValid, hw'.dbuf # NoByte PROVE hw'.left + txAge' <= CharTicks
      BY <2>2
    <3>1. hw'.left = hw.left - 1 /\ txAge' = txAge + 1 /\ hw.left + txAge <= CharTicks
      BY <2>1, <2>4 DEF TxOrder, ShadowOK
    <3> QED
      BY <2>3, <3>1, Sizes
  <2>7. txShdwValid' => txAge' <= TxTick + gap'
    BY <2>2, <2>4
  <2> QED
    BY <2>2, <2>5, <2>6, <2>7 DEF ShadowOK
<1> QED
  BY <1>1, <1>2, <1>3 DEF TxOrder
LEMMA TxWriteCopy == IInv /\ TxOrder /\ WriteCopy => TxOrder'
<1> SUFFICES ASSUME IInv, TxOrder, WriteCopy PROVE TxOrder'
  OBVIOUS
<1>1. PICK n \in Lengths :
        /\ n + txIdx[txSel] <= TxMax /\ accepted + n <= MaxTx
        /\ txBuf' = [txBuf EXCEPT ![txSel] = [i \in 1 .. TxMax |->
                       IF i \in txIdx[txSel] + 1 .. txIdx[txSel] + n
                       THEN accepted + i - txIdx[txSel] ELSE txBuf[txSel][i]]]
        /\ accepted' = accepted + n
  BY DEF WriteCopy
<1>2. PICK k : k = txIdx[txSel]
  OBVIOUS
<1>3. PICK a : a = accepted
  OBVIOUS
<1>4. PICK r : r = Rest(hw, Len(sent))
  OBVIOUS
<1> DEFINE row == [i \in 1 .. TxMax |->
                     IF i \in k + 1 .. k + n THEN a + i - k ELSE txBuf[txSel][i]]
<1>5. /\ n \in Nat \ {0} /\ a \in Nat /\ k \in Nat /\ k + n <= TxMax /\ TxMax \in Nat
      /\ txSel \in 0 .. 1 /\ txBuf \in TxBufs
  BY <1>1, <1>2, <1>3, Sizes DEF IInv, RestOK, TxOK
<1>6. UNCHANGED <<txIdx, txSel, txShdwValid, txAge, gap, hw, sent>> /\ pc = "idle" /\ pc' = "commit"
  BY DEF WriteCopy, lineVars
<1>7. txBuf' = [txBuf EXCEPT ![txSel] = row] /\ accepted' = a + n
  BY <1>1, <1>2, <1>3
<1>8. \A i \in 1 .. TxMax : row[i] = IF i \in k + 1 .. k + n THEN a + i - k ELSE txBuf[txSel][i]
  OBVIOUS
<1> HIDE DEF row
<1>9. txBuf'[txSel] = row /\ \A s \in 0 .. 1 : s # txSel => txBuf'[s] = txBuf[s]
  BY <1>5, <1>7 DEF TxBufs
<1>10. a - r = k /\ \A i \in 1 .. k : txBuf[txSel][i] = r + i
  BY <1>2, <1>3, <1>4, <1>6 DEF TxOrder, AddedOK, Added
<1>11. r \in Int
  BY <1>4, HwFields, Sizes DEF IInv, TxOK, RestOK, Sound, Rest, Loaded, Shifted
<1>12. \A s \in 0 .. 1 : \A i \in 1 .. TxMax : txBuf[s][i] \in Nat /\ txBuf[s][i] <= a
  <2>1. \A s \in 0 .. 1 : \A i \in 1 .. TxMax : txBuf[s][i] \in Nat
    BY <1>5, Sizes DEF TxBufs
  <2> QED
    BY <1>3, <2>1 DEF TxOrder, AddedOK
<1>13. Rest(hw, Len(sent))' = r
  BY <1>4, <1>6 DEF Rest, Loaded, Shifted
<1>14. Added' = k + n
  BY <1>5, <1>7, <1>10, <1>11, <1>13 DEF Added
<1>15. AddedOK'
  <2>1. k + n \in 0 .. TxMax
    BY <1>5
  <2>2. ASSUME NEW i \in 1 .. k + n PROVE row[i] = r + i
    BY <1>5, <1>8, <1>10, <1>11
  <2>3. ASSUME NEW i \in 1 .. TxMax, row[i] = a + n PROVE i = k + n
    BY <1>5, <1>8, <1>12, <2>3
  <2>4. ASSUME NEW s \in 0 .. 1, NEW i \in 1 .. TxMax PROVE txBuf'[s][i] <= a + n
    <3>1. CASE s = txSel
      BY <1>5, <1>8, <1>9, <1>12, <3>1
    <3>2. CASE s # txSel
      BY <1>5, <1>9, <1>12, <3>2
    <3> QED
      BY <3>1, <3>2
  <2>5. k + n > txIdx'[txSel]
    BY <1>2, <1>5, <1>6
  <2> QED
    BY <1>6, <1>7, <1>9, <1>13, <1>14, <2>1, <2>2, <2>3, <2>4, <2>5 DEF AddedOK
<1>16. LineOK(hw, Len(sent))'
  <2>1. hw.armed => hw.src \in 0 .. 1 /\ hw.src # txSel
    BY DEF IInv, TxOK, BuffersApart, Other
  <2>2. hw.armed => txBuf'[hw.src] = txBuf[hw.src]
    BY <1>9, <2>1
  <2> QED
    BY <1>6, <2>2 DEF TxOrder, LineOK, Flowing, Upcoming, Shifted, Loaded
<1>17. ShadowOK'
  BY <1>6 DEF TxOrder, ShadowOK
<1> QED
  BY <1>6, <1>15, <1>16, <1>17 DEF TxOrder, Numbered

\* The index after the bytes copied is found by the last of them.
LEMMA TxWriteCommit == IInv /\ TxOrder /\ WriteCommit => TxOrder'
<1> SUFFICES ASSUME IInv, TxOrder, WriteCommit PROVE TxOrder'
  OBVIOUS
<1>1. PICK k : k = Added
  OBVIOUS
<1>2. UNCHANGED <<txBuf, txSel, txShdwValid, txAge, gap, hw, sent, accepted>> /\ pc = "commit" /\ pc' = "idle"
  BY DEF WriteCommit
<1>3. /\ txSel \in 0 .. 1 /\ txIdx \in [0 .. 1 -> 0 .. TxMax] /\ txIdx[txSel] \in Nat
  BY Sizes DEF IInv, TxOK
<1>4. k \in 1 .. TxMax
  BY <1>1, <1>2, <1>3, Sizes DEF TxOrder, AddedOK
<1>5. Written = k
  <2>1. \A i \in 1 .. TxMax : txBuf[txSel][i] = accepted => i = k
    BY <1>1, <1>2 DEF TxOrder, AddedOK
  <2>2. \E i \in 1 .. TxMax : txBuf[txSel][i] = accepted
    BY <1>2 DEF IInv, Copied
  <2> QED
    BY <1>4, <2>1, <2>2 DEF Written
<1>6. txIdx'[txSel] = k
  BY <1>3, <1>5 DEF WriteCommit
<1>7. Rest(hw, Len(sent))' = Rest(hw, Len(sent))
  BY <1>2 DEF Rest, Loaded, Shifted
<1>8. Added' = k
  BY <1>1, <1>2, <1>7 DEF Added
<1>9. AddedOK'
  <2>1. /\ k \in 0 .. TxMax
        /\ \A i \in 1 .. k : txBuf[txSel][i] = Rest(hw, Len(sent)) + i
        /\ \A s \in 0 .. 1 : \A i \in 1 .. TxMax : txBuf[s][i] <= accepted
    BY <1>1 DEF TxOrder, AddedOK
  <2> QED
    BY <1>2, <1>6, <1>7, <1>8, <2>1 DEF AddedOK
<1>10. LineOK(hw, Len(sent))'
  BY <1>2, LinePrimed DEF TxOrder
<1>11. ShadowOK'
  BY <1>2 DEF TxOrder, ShadowOK
<1> QED
  BY <1>2, <1>9, <1>10, <1>11 DEF TxOrder, Numbered

\* The channel has ended: the wait for UxDBUF begins.
LEMMA TxIsr ==
  ASSUME IInv, TxOrder, ~hw.armed, HalUARTIsrDMA, UNCHANGED <<gap, sent, accepted>>,
         (pc = "commit")' <=> pc = "commit"
  PROVE  TxOrder'
<1>1. hw \in HwRec /\ hw.left \in 0 .. CharTicks /\ Len(sent) \in Nat /\ gap \in Nat
  BY HwFields, Sizes DEF IInv, TxOK, RestOK, Sound
<1>2. hw' = Served(hw) /\ txShdwValid' /\ txAge' = 0 /\ UNCHANGED <<txBuf, txSel>>
  BY DEF HalUARTIsrDMA, Served
<1>3. PICK g : g = hw'
  OBVIOUS
<1>4. /\ ~g.armed /\ g.dbuf = hw.dbuf /\ g.shift = hw.shift /\ g.left = hw.left
  <2>1. g.dbuf = hw.dbuf /\ g.shift = hw.shift /\ g.left = hw.left
    BY <1>1, <1>2, <1>3, UpdateBytes
  <2>2. ~g.armed
    BY <1>1, <1>2, <1>3, UpdateReads
  <2> QED
    BY <2>1, <2>2
<1>5. LineOK(g, Len(sent)) /\ Rest(g, Len(sent)) = Rest(hw, Len(sent))
  BY <1>1, <1>4, LineStays DEF TxOrder
<1>6. LineOK(hw, Len(sent))'
  BY <1>2, <1>3, <1>5, LinePrimed
<1>7. Rest(hw, Len(sent))' = Rest(hw, Len(sent))
  BY <1>3, <1>5 DEF Rest, Loaded, Shifted
<1>8. txIdx'[txSel] = txIdx[txSel]
  BY DEF HalUARTIsrDMA, IInv, TxOK, Other
<1>9. AddedOK'
  BY <1>2, <1>7, <1>8, AddedStays DEF TxOrder
<1>10. ShadowOK'
  BY <1>1, <1>2, <1>3, <1>4, Sizes DEF ShadowOK
<1> QED
  BY <1>6, <1>9, <1>10 DEF TxOrder, Numbered

\* The channel starts with the other buffer when UxDBUF is empty.
LEMMA TxFire == IInv /\ TxOrder /\ PollFire /\ Fire => TxOrder'
<1> SUFFICES ASSUME IInv, TxOrder, PollFire, Fire PROVE TxOrder'
  OBVIOUS
<1> DEFINE n == Len(sent)
           start == Started(hw, txSel, txIdx[txSel])
<1>1. /\ hw \in HwRec /\ Sound(hw) /\ txBuf \in TxBufs /\ n \in Nat
      /\ txSel \in 0 .. 1 /\ txIdx \in [0 .. 1 -> 0 .. TxMax]
      /\ txIdx[txSel] \in 1 .. TxMax /\ txIdx[Other(txSel)] = 0
      /\ ~hw.armed /\ ~hw.irq /\ ~txShdwValid
  <2>1. txDMAPending /\ ~txShdwValid
    BY DEF Fire
  <2>2. /\ hw \in HwRec /\ Sound(hw) /\ txBuf \in TxBufs /\ n \in Nat
        /\ txSel \in 0 .. 1 /\ txIdx \in [0 .. 1 -> 0 .. TxMax]
    BY DEF IInv, TxOK, RestOK, Sound
  <2>3. txIdx[txSel] > 0 /\ txIdx[Other(txSel)] = 0 /\ ~hw.armed /\ ~hw.irq
    BY <2>1 DEF IInv, TxOK, BuffersApart
  <2>4. txIdx[txSel] \in 1 .. TxMax
    BY <2>2, <2>3, Sizes
  <2> QED
    BY <2>1, <2>2, <2>3, <2>4
<1>2. hw.dbuf = NoByte /\ LineOK(hw, n)
  BY <1>1 DEF TxOrder, ShadowOK
<1>3. /\ pc = "fire" /\ pc' = "call" /\ UNCHANGED <<sent, accepted, txBuf, txIdx, txShdwValid>>
      /\ txSel' = Other(txSel) /\ hw' = Shift(Load(start))
  BY DEF PollFire, Fire, Started
<1>4. start \in HwRec
  <2>1. txIdx[txSel] \in 0 .. TxMax
    BY <1>1
  <2> QED
    BY <1>1, <2>1, UpdateTypes
<1>5. start.armed /\ ~start.irq /\ start.src = txSel /\ start.len = txIdx[txSel] /\ start.pos = 0
  BY <1>1, UpdateReads
<1>6. start.dbuf = NoByte /\ start.shift = hw.shift /\ start.left = hw.left
  BY <1>1, <1>2, UpdateBytes
<1> HIDE DEF start
<1>7. PICK r : r = Rest(hw, n)
  OBVIOUS
<1>8. r = Shifted(hw, n) /\ r \in Nat
  BY <1>1, <1>2, <1>7 DEF Rest, Loaded, Shifted
<1>9. Shifted(start, n) = r /\ Loaded(start, n) = r
  BY <1>6, <1>8 DEF Shifted, Loaded
<1>10. PICK k : k = txIdx[txSel]
  OBVIOUS
<1>11. /\ k \in 1 .. TxMax /\ accepted - r = k /\ \A i \in 1 .. k : txBuf[txSel][i] = r + i
  BY <1>1, <1>3, <1>7, <1>10 DEF TxOrder, AddedOK, Added
<1>12. Upcoming(start, n)
  <2> SUFFICES ASSUME NEW i \in 0 + 1 .. k PROVE txBuf[txSel][i] = r + (i - 0)
    BY <1>5, <1>9, <1>10 DEF Upcoming
  <2> QED
    BY <1>11
<1>13. Flowing(start, n)
  BY <1>2, <1>6, <1>9, <1>8, <1>12 DEF LineOK, Flowing
<1>14. Rest(start, n) = r + k
  BY <1>5, <1>8, <1>9, <1>10, <1>11, Sizes DEF Rest
<1>15. /\ Sound(Load(start))
       /\ Flowing(Load(start), n) /\ Rest(Load(start), n) = r + k
       /\ Load(start).dbuf # NoByte
       /\ Load(start).armed \/ Load(start).irq
  <2>1. start.pos < start.len
    BY <1>1, <1>5
  <2> QED
    BY <1>1, <1>4, <1>5, <1>6, <1>13, <1>14, <2>1, LoadFlows, LoadSound
<1>16. LineOK(hw', n) /\ Rest(hw', n) = r + k /\ (hw'.armed \/ hw'.irq)
  BY <1>1, <1>3, <1>15, ShiftFlows
<1>17. LineOK(hw, Len(sent))'
  BY <1>3, <1>16, LinePrimed
<1>18. Rest(hw, Len(sent))' = r + k
  BY <1>3, <1>16 DEF Rest, Loaded, Shifted
<1>19. Added' = 0
  BY <1>3, <1>8, <1>11, <1>18, Sizes DEF Added, IInv, RestOK
<1>20. AddedOK'
  <2>1. txIdx'[txSel'] = 0
    BY <1>1, <1>3
  <2>2. \A s \in 0 .. 1 : \A i \in 1 .. TxMax : txBuf'[s][i] <= accepted'
    BY <1>3 DEF TxOrder, AddedOK
  <2> QED
    BY <1>3, <1>19, <2>1, <2>2, Sizes DEF AddedOK
<1>21. ShadowOK'
  BY <1>1, <1>3, <1>16 DEF ShadowOK
<1> QED
  BY <1>3, <1>17, <1>20, <1>21 DEF TxOrder, Numbered

\* A character's time after the channel's end UxDBUF is empty.
LEMMA TxPollShadow == IInv /\ TxOrder /\ PollShadow => TxOrder'
<1> SUFFICES ASSUME IInv, TxOrder, PollShadow PROVE TxOrder'
  OBVIOUS
<1>1. /\ pc = "shadow" /\ pc' = "fire" /\ UNCHANGED <<txBuf, txIdx, txSel, hw, sent, accepted, gap>>
  BY DEF PollShadow
<1>2. /\ txShdwValid' <=> txShdwValid /\ txAge <= TxTick
      /\ txShdwValid' => txAge' = txAge
  BY DEF PollShadow
<1>3. txAge \in Nat /\ gap \in Nat /\ hw.left \in 0 .. CharTicks
  BY Sizes, HwFields DEF IInv, TxOK, RestOK, Sound
<1>4. ASSUME txShdwValid, ~(txAge <= TxTick) PROVE hw.dbuf = NoByte
  <2> SUFFICES ASSUME hw.dbuf # NoByte PROVE FALSE
    OBVIOUS
  <2>1. hw.left > 0 /\ hw.left + txAge <= CharTicks
    BY <1>4 DEF TxOrder, LineOK, Flowing, ShadowOK
  <2> QED
    BY <1>3, <1>4, <2>1, UartAssumption
<1>5. ShadowOK'
  BY <1>1, <1>2, <1>3, <1>4, Sizes DEF TxOrder, ShadowOK
<1> QED
  BY <1>1, <1>5, TxStays

LEMMA TxNext == IInv /\ TxOrder /\ [Next]_vars => TxOrder'
<1> SUFFICES ASSUME IInv, TxOrder, [Next]_vars PROVE TxOrder'
  OBVIOUS
<1>1. ASSUME PollReceive \/ PollCall \/ ReceiveByte \/ UNCHANGED vars
      PROVE  TxOrder'
  <2>1. /\ UNCHANGED <<txBuf, txIdx, txSel, txShdwValid, txAge, hw, sent, accepted>>
        /\ (pc = "commit")' <=> pc = "commit"
        /\ pc' \in {"fire", "call"} => pc \in {"fire", "call"}
        /\ gap' = gap \/ (pc = "call" /\ gap' = 0)
    BY <1>1 DEF PollReceive, PollCall, ReceiveByte, vars, txVars, loopVars
  <2>2. txAge \in Nat
    BY Sizes DEF IInv, TxOK
  <2>3. ShadowOK'
    BY <2>1, <2>2, Sizes DEF TxOrder, ShadowOK
  <2> QED
    BY <2>1, <2>3, TxStays
<1>2. ASSUME halDmaIsr PROVE TxOrder'
  <2>1. ~hw.armed /\ HalUARTIsrDMA /\ UNCHANGED <<gap, sent, accepted, pc>>
    BY <1>2 DEF halDmaIsr, loopVars, IInv, TxOK, Sound
  <2> QED
    BY <2>1, TxIsr
<1>3. ASSUME PollFire PROVE TxOrder'
  <2>1. /\ pc = "fire" /\ pc' = "call" /\ UNCHANGED <<gap, sent, accepted>>
    BY <1>3 DEF PollFire
  <2>2. CASE Fire
    BY <1>3, <2>2, TxFire
  <2>3. CASE Stopped /\ HalUARTIsrDMA
    BY <2>1, <2>3, TxIsr DEF Stopped
  <2>4. CASE UNCHANGED <<txVars, hw>>
    <3>1. UNCHANGED <<txBuf, txIdx, txSel, txShdwValid, txAge, hw>>
      BY <2>4 DEF txVars
    <3>2. ShadowOK'
      BY <2>1, <3>1 DEF TxOrder, ShadowOK
    <3> QED
      BY <2>1, <3>1, <3>2, TxStays
  <2> QED
    BY <1>3, <2>2, <2>3, <2>4 DEF PollFire
<1> QED
  BY <1>1, <1>2, <1>3, TxTicks, TxWriteCopy, TxWriteCommit, TxPollShadow DEF Next, Poll

\* Bytes go out on the line and come out of the ring in the order they went in,
\* none lost and none twice, for every size and rate for which a round of the
\* run loop is not longer than the ring has room for (HalUARTWriteDMA,
\* HalUARTPollDMA, HalUARTReadDMA).
THEOREM BytesKeepOrder == Spec => []BytesInOrder
<1>1. Init => IInv /\ RxOrder /\ TxOrder
  BY InitInv, RxInit, TxInit
<1>2. IInv /\ RxOrder /\ TxOrder /\ [Next]_vars => (IInv /\ RxOrder /\ TxOrder)'
  BY NextInv, RxNext, TxNext
<1>3. RxOrder /\ TxOrder => BytesInOrder
  BY DEF RxOrder, TxOrder, BytesInOrder
<1> QED
  BY <1>1, <1>2, <1>3, PTL DEF Spec
=============================================================================
