-------------------------- MODULE MacRadio_proofs --------------------------
(***************************************************************************)
(* Proofs about MacRadio, for any frames and channels, a receive FIFO of   *)
(* any size and any number of backoffs, transmits and requests.            *)
(*                                                                         *)
(* The driver's record has many fields and its operators are applied to    *)
(* the results of others.  So there is a lemma for each operator that says *)
(* which fields it may change and what it makes of the parts of the        *)
(* invariant below; the lemmas of the operators above it use no more.      *)
(***************************************************************************)
EXTENDS MacRadio, SequenceTheorems, TLAPS

Fields ==
  {"macTxActive", "nb", "txAckReq", "wanted", "sent", "status", "macRxActive",
   "macRxOutgoingAckFlag", "rxState", "pRxBuf", "rxUnread", "rxIsrActiveFlag", "rxResetFlag",
   "macRxOnFlag", "macRxEnableFlags", "reqChannel", "macPhyChannel", "asleep", "stopF",
   "stopM", "intF", "intM", "ackF", "ackM", "csp", "cspz", "fifo", "air", "nack", "ackDue",
   "overflow", "rferr", "faults"}

\* A record of the driver, and one that differs from s in some fields only.
Driver(s) == s = [x \in Fields |-> s[x]]
Keeps(s, t, X) == Driver(t) /\ \A x \in Fields \ X : t[x] = s[x]

Parts == {"ack", "hdr", "addr", "payload", "fcs"}
Segs == Seq([part : Parts, of : Frames])

\* The types of the fields, within an interrupt as well.
Typed(s) ==
  /\ s.macTxActive \in {"NO_ACTIVITY", "INITIALIZE", "QUEUED", "GO", "DONE", "LISTEN_FOR_ACK",
                        "POST_ACK", "CHANNEL_BUSY"}
  /\ s.macRxActive \in {"NO_ACTIVITY", "STARTED", "DONE"}
  /\ s.rxState \in {"start", "addr", "payload", "discard", "fcs"}
  /\ s.nb \in 0 .. MaxBackoffs + 1
  /\ s.macRxOutgoingAckFlag \in BOOLEAN /\ s.pRxBuf \in BOOLEAN /\ s.macRxOnFlag \in BOOLEAN
  /\ s.macRxEnableFlags \in BOOLEAN /\ s.asleep \in BOOLEAN
  /\ s.stopF \in BOOLEAN /\ s.stopM \in BOOLEAN /\ s.ackM \in BOOLEAN
  /\ s.rxIsrActiveFlag \in BOOLEAN /\ s.rxResetFlag \in BOOLEAN /\ s.overflow \in BOOLEAN
  /\ s.reqChannel \in Channels /\ s.macPhyChannel \in Channels
  /\ s.rxUnread \in Nat /\ s.wanted \in Nat /\ s.sent \in Nat
  /\ s.fifo \in Segs /\ s.air \in Segs /\ Len(s.fifo) <= FifoSize

\* The transmit state and the strobe processor: a program runs, or its end is
\* awaited, exactly while a transmit is on the air or waits for its
\* acknowledgement, and what CSPZ says fits; and no assertion has failed.
Transmit(s) ==
  /\ s.csp \in {"idle", "csma", "tx", "ackwait"}
  /\ s.stopM => s.macTxActive \in {"GO", "LISTEN_FOR_ACK"}
  /\ s.csp # "idle" => s.stopM /\ ~s.stopF
  /\ s.csp \in {"csma", "tx"} => s.macTxActive = "GO" /\ s.cspz = "BUSY"
  /\ s.csp = "ackwait" => s.macTxActive = "LISTEN_FOR_ACK"
  /\ s.macTxActive = "GO" => s.cspz \in {"BUSY", "DONE"} /\ s.nb <= MaxBackoffs
  /\ s.macTxActive = "GO" /\ ~s.stopM => s.cspz = "BUSY" /\ ~s.stopF
  /\ s.macTxActive = "QUEUED" => s.cspz = "BUSY" /\ ~s.stopF /\ s.nb <= MaxBackoffs
  /\ s.macTxActive = "LISTEN_FOR_ACK" => s.cspz = "TIMEOUT" /\ s.stopM
  /\ s.wanted # 0 \/ s.status = "NO_ACK" => s.sent # 0
  /\ s.faults = {}

\* A receiver that is off receives nothing.
Receiving(s) == ~s.macRxOnFlag => s.fifo = <<>> /\ s.air = <<>>

\* What holds between any two of the operators.
Sound(s) == Driver(s) /\ Typed(s) /\ Transmit(s) /\ Receiving(s)

\* A receiver that is enabled is on, or only macRxSoftEnable has enabled it.
Enabled(s) == soft \/ (s.macRxEnableFlags => s.macRxOnFlag)

\* The high level waits exactly while there is a transmit.
Awaited(s) == s.wanted # 0 <=> s.macTxActive # "NO_ACTIVITY"

\* A change of channel is put off only as long as a transmit lasts.
Tuned(s) == s.macTxActive = "NO_ACTIVITY" => s.macPhyChannel = s.reqChannel

\* What keeps a receiver on that is not enabled; due says that macRxDisable
\* has still to ask.
NeedsReceiver(s) ==
  \/ s.macRxEnableFlags \/ s.macRxActive = "STARTED" \/ s.macRxOutgoingAckFlag
  \/ s.macTxActive \in {"GO", "DONE", "LISTEN_FOR_ACK", "POST_ACK"}
Needed(s, due) == s.macRxOnFlag => NeedsReceiver(s) \/ due

\* A frame is queued behind a receive or an acknowledgement that is under way.
Queue(s) == s.macTxActive = "QUEUED" => s.macRxActive = "STARTED" \/ s.macRxOutgoingAckFlag

\* The last n segments of a frame, and how many of a frame the receive state
\* machine has still to read.
Rest(f, n) == [i \in 1 .. n |-> Segments(f)[f.payload + 3 - n + i]]
Unread(s, f, n) ==
  /\ s.rxState # "start" /\ ~f.ack
  /\ n \in 1 .. f.payload + 2
  /\ s.rxState = "addr" => n = f.payload + 2 /\ s.rxUnread = f.payload
  /\ s.rxState = "payload" => n = s.rxUnread + 1 /\ s.rxUnread # 0 /\ n <= f.payload + 1
  /\ s.rxState = "discard" => n = s.rxUnread
  /\ s.rxState = "fcs" => n = 1

\* The segments received and on the air: the rest of the frame that is being
\* read, and at most one frame after it.
AtMostAFrame(q) == q = <<>> \/ \E f \in Frames : q = Segments(f)
Stream(s) ==
  ~s.overflow =>
    \/ s.rxState = "start" /\ AtMostAFrame(s.fifo \o s.air)
    \/ \E f \in Frames, n \in Nat, q \in Segs :
         /\ s.fifo \o s.air = Rest(f, n) \o q /\ AtMostAFrame(q)
         /\ Unread(s, f, n)
RxInStep(s) ==
  /\ s.macRxActive = "STARTED" <=> s.rxState # "start"
  /\ s.macRxActive # "DONE"
  /\ s.pRxBuf <=> s.rxState \in {"addr", "payload", "fcs"}
  /\ s.rxState \in {"payload", "discard"} => s.rxUnread # 0
  /\ Stream(s)

\* Where the foreground is in macTxFrame.
InCall(s) == s.macTxActive = "INITIALIZE"
InGo(s) == s.macTxActive = "GO" /\ ~s.stopM
ForegroundInv ==
  /\ pc \in {"idle", "init", "load", "go", "csma", "rxoff"}
  /\ InCall(r) <=> pc \in {"init", "load"}
  /\ InGo(r) <=> pc \in {"go", "csma"}
  /\ pc = "load" => r.cspz = "BUSY" /\ ~r.stopF /\ r.nb = 0

\* What an interrupt leaves, but for where the foreground is.
Settled(s, due) ==
  /\ Sound(s) /\ Enabled(s) /\ Awaited(s) /\ Tuned(s) /\ Needed(s, due) /\ Queue(s)
  /\ RxInStep(s)
  /\ s.macTxActive \notin {"DONE", "POST_ACK", "CHANNEL_BUSY"}
  /\ ~s.rxIsrActiveFlag /\ ~s.rxResetFlag

SoftInv == soft \in BOOLEAN /\ (soft => ~r.macRxOnFlag)

IInv == Settled(r, pc = "rxoff") /\ ForegroundInv /\ SoftInv

-----------------------------------------------------------------------------
(* The receiver on and off                                                  *)

Receiver == {"macRxOnFlag", "fifo", "air", "overflow", "ackDue"}

\* The FIFOs as they were, or empty.
Flow(s, t) ==
  \/ t.fifo = s.fifo /\ t.air = s.air /\ t.overflow = s.overflow
  \/ t.fifo = <<>> /\ t.air = <<>> /\ t.overflow = FALSE

\* A change of the receiver and of the FIFOs only.
LEMMA ReceiverOnly ==
  ASSUME NEW s, Sound(s), NEW t, Keeps(s, t, Receiver), Flow(s, t), t.macRxOnFlag \in BOOLEAN
  PROVE  /\ Driver(t) /\ Typed(t) /\ Transmit(t)
         /\ Receiving(t) => Sound(t)
<1>1. Driver(t)
  BY DEF Keeps
<1>2. Typed(t)
  <2>1. <<>> \in Segs /\ Len(<<>>) = 0 /\ 0 <= FifoSize
    BY BoundsAssumption DEF Segs
  <2>2. t.fifo \in Segs /\ t.air \in Segs /\ Len(t.fifo) <= FifoSize /\ t.overflow \in BOOLEAN
    BY <2>1 DEF Sound, Typed, Flow
  <2> QED BY <2>2 DEF Sound, Typed, Keeps, Receiver, Fields
<1>3. Transmit(t)
  BY DEF Sound, Transmit, Keeps, Receiver, Fields
<1> QED BY <1>1, <1>2, <1>3 DEF Sound

\* MacRxOff outside a transmit.
LEMMA RxOffEffect ==
  ASSUME NEW s, Sound(s), s.csp # "tx"
  PROVE  /\ Keeps(s, MacRxOff(s), Receiver) /\ Flow(s, MacRxOff(s))
         /\ MacRxOff(s).macRxOnFlag = FALSE
         /\ MacRxOff(s).fifo = <<>> /\ MacRxOff(s).air = <<>>
         /\ Sound(MacRxOff(s))
<1> DEFINE t == MacRxOff(s)
<1>1. Keeps(s, t, Receiver) /\ Flow(s, t) /\ t.macRxOnFlag = FALSE /\ t.fifo = <<>> /\ t.air = <<>>
  <2>1. CASE s.macRxOnFlag
    <3>1. t = FlushRxFifo(RxTxOff([s EXCEPT !.macRxOnFlag = FALSE]))
      BY <2>1 DEF MacRxOff, Require
    <3> HIDE DEF t
    <3>2. Driver(s)
      BY DEF Sound
    <3>3. Keeps(s, t, Receiver)
      BY ZenonT(40), <3>1, <3>2 DEF FlushRxFifo, RxTxOff, Driver, Keeps, Receiver, Fields
    <3>4. t.macRxOnFlag = FALSE /\ t.fifo = <<>> /\ t.air = <<>> /\ t.overflow = FALSE
      BY <3>1, <3>2 DEF FlushRxFifo, RxTxOff, Driver, Fields
    <3> QED BY <3>3, <3>4 DEF Flow
  <2>2. CASE s.macRxOnFlag = FALSE
    <3>1. t = s
      BY <2>2 DEF MacRxOff
    <3> QED BY <2>2, <3>1 DEF Flow, Keeps, Sound, Receiving
  <2> QED BY <2>1, <2>2 DEF Sound, Typed
<1> HIDE DEF t
<1>2. Driver(t) /\ Typed(t) /\ Transmit(t) /\ (Receiving(t) => Sound(t))
  BY <1>1, ReceiverOnly
<1> QED BY <1>1, <1>2 DEF t, Receiving

\* MacRxOffRequest is refused, or turns the receiver off.
LEMMA RxOffRequestEffect ==
  ASSUME NEW s, Sound(s)
  PROVE  /\ Sound(MacRxOffRequest(s)) /\ Keeps(s, MacRxOffRequest(s), Receiver)
         /\ Flow(s, MacRxOffRequest(s))
         /\ NeedsReceiver(s) => MacRxOffRequest(s) = s
         /\ ~NeedsReceiver(s) => MacRxOffRequest(s).macRxOnFlag = FALSE
<1>1. CASE NeedsReceiver(s)
  <2>1. MacRxOffRequest(s) = s
    BY <1>1 DEF MacRxOffRequest, RxIsPhysicallyActive, TxIsPhysicallyActive, NeedsReceiver
  <2> QED BY <1>1, <2>1 DEF Sound, Keeps, Flow
<1>2. CASE ~NeedsReceiver(s)
  <2>1. MacRxOffRequest(s) = MacRxOff(s)
    BY <1>2 DEF MacRxOffRequest, RxIsPhysicallyActive, TxIsPhysicallyActive, NeedsReceiver
  <2>2. s.csp # "tx"
    BY <1>2 DEF Sound, Transmit, NeedsReceiver
  <2> QED BY <1>2, <2>1, <2>2, RxOffEffect
<1> QED BY <1>1, <1>2

-----------------------------------------------------------------------------
(* What starts a frame, and what ends a receive                             *)

\* The fields of the receive state machine.
RxFields ==
  Receiver \cup {"macRxActive", "macRxOutgoingAckFlag", "rxState", "pRxBuf", "rxUnread",
                 "rxIsrActiveFlag", "rxResetFlag", "ackM", "ackF", "nack", "rferr",
                 "macPhyChannel"}
RxTyped(s) ==
  /\ s.macRxActive \in {"NO_ACTIVITY", "STARTED", "DONE"}
  /\ s.rxState \in {"start", "addr", "payload", "discard", "fcs"}
  /\ s.macRxOutgoingAckFlag \in BOOLEAN /\ s.pRxBuf \in BOOLEAN /\ s.macRxOnFlag \in BOOLEAN
  /\ s.rxIsrActiveFlag \in BOOLEAN /\ s.rxResetFlag \in BOOLEAN /\ s.overflow \in BOOLEAN
  /\ s.ackM \in BOOLEAN /\ s.macPhyChannel \in Channels /\ s.rxUnread \in Nat
  /\ s.fifo \in Segs /\ s.air \in Segs /\ Len(s.fifo) <= FifoSize

\* The parts of Sound the receive lemmas need.
LEMMA SoundIsTyped == ASSUME NEW s, Sound(s) PROVE Driver(s) /\ RxTyped(s)
BY DEF Sound, Typed, RxTyped

\* A FIFO that is flushed is still one.
LEMMA Emptied == <<>> \in Segs /\ Len(<<>>) <= FifoSize
BY BoundsAssumption DEF Segs

\* They have no part in the transmit state.
LEMMA RxOnly ==
  ASSUME NEW s, Sound(s), NEW t, Keeps(s, t, RxFields), RxTyped(t)
  PROVE  /\ Driver(t) /\ Typed(t) /\ Transmit(t)
         /\ Receiving(t) => Sound(t)
<1>1. Typed(t)
  BY DEF Sound, Typed, RxTyped, Keeps, RxFields, Receiver, Fields
<1>2. Transmit(t)
  BY DEF Sound, Transmit, Keeps, RxFields, Receiver, Fields
<1> QED BY <1>1, <1>2 DEF Sound, Keeps

\* The transmit is where it was, or a queued frame has started.
Moves(s, t) ==
  \/ t.macTxActive = s.macTxActive /\ t.stopM = s.stopM
  \/ s.macTxActive = "QUEUED" /\ t.macTxActive = "GO" /\ t.stopM = TRUE

Starting == {"macTxActive", "macRxOnFlag", "stopM", "intM", "csp", "ackM", "macRxOutgoingAckFlag"}

\* A queued frame is started once the receiver is free.
LEMMA StartQueuedEffect ==
  ASSUME NEW s, Sound(s), s.macRxActive = "NO_ACTIVITY", s.macRxOutgoingAckFlag = FALSE
  PROVE  /\ Sound(MacTxStartQueuedFrame(s)) /\ Keeps(s, MacTxStartQueuedFrame(s), Starting)
         /\ MacTxStartQueuedFrame(s).macRxOutgoingAckFlag = FALSE
         /\ Moves(s, MacTxStartQueuedFrame(s))
         /\ MacTxStartQueuedFrame(s).macTxActive # "QUEUED"
         /\ s.macTxActive # "QUEUED" => MacTxStartQueuedFrame(s) = s
         /\ Enabled(s) => Enabled(MacTxStartQueuedFrame(s))
<1> DEFINE t == MacTxStartQueuedFrame(s)
<1>1. CASE s.macTxActive = "QUEUED"
  <2>1. t = TxGo([s EXCEPT !.macTxActive = "GO"])
    BY <1>1 DEF MacTxStartQueuedFrame, Require
  <2> HIDE DEF t
  <2>2. Driver(s)
    BY DEF Sound
  <2>3. Keeps(s, t, Starting)
    BY ZenonT(40), <2>1, <2>2
        DEF TxGo, CspTxGoCsma, MacRxOn, CancelAckTxDone, Driver, Keeps, Starting, Fields
  <2>4. /\ t.macTxActive = "GO" /\ t.macRxOnFlag = TRUE /\ t.stopM = TRUE /\ t.csp = "csma"
        /\ t.ackM = FALSE /\ t.macRxOutgoingAckFlag = FALSE
    BY <2>1, <2>2 DEF TxGo, CspTxGoCsma, MacRxOn, CancelAckTxDone, Driver, Fields
  <2>5. Typed(t)
    BY ZenonT(40), <2>3, <2>4 DEF Sound, Typed, Keeps, Starting, Fields
  <2>6. Transmit(t)
    BY <1>1, <2>3, <2>4 DEF Sound, Transmit, Keeps, Starting, Fields
  <2>7. Receiving(t)
    BY <2>4 DEF Receiving
  <2> QED BY <1>1, <2>3, <2>4, <2>5, <2>6, <2>7 DEF t, Sound, Keeps, Moves, Enabled
<1>2. CASE s.macTxActive # "QUEUED"
  <2>1. t = s
    BY <1>2 DEF MacTxStartQueuedFrame, Require
  <2> QED BY <1>2, <2>1 DEF Keeps, Sound, Moves
<1> QED BY <1>1, <1>2

\* The updates after a receive settle the receiver and the queue.
LEMMA PostRxEffect ==
  ASSUME NEW s, Sound(s), s.macRxActive = "NO_ACTIVITY", s.macRxOutgoingAckFlag = FALSE
  PROVE  /\ Sound(RxPostRxUpdates(s)) /\ Keeps(s, RxPostRxUpdates(s), Receiver \cup Starting)
         /\ Flow(s, RxPostRxUpdates(s)) /\ Moves(s, RxPostRxUpdates(s))
         /\ RxPostRxUpdates(s).macRxOutgoingAckFlag = FALSE
         /\ Needed(RxPostRxUpdates(s), FALSE)
         /\ RxPostRxUpdates(s).macTxActive # "QUEUED"
         /\ Enabled(s) => Enabled(RxPostRxUpdates(s))
<1> DEFINE m == MacRxOffRequest(s)
           t == RxPostRxUpdates(s)
<1>1. t = MacTxStartQueuedFrame(m)
  BY DEF RxPostRxUpdates
<1>2. /\ Sound(m) /\ Keeps(s, m, Receiver) /\ Flow(s, m)
      /\ NeedsReceiver(s) => m = s
      /\ ~NeedsReceiver(s) => m.macRxOnFlag = FALSE
  BY RxOffRequestEffect
<1> HIDE DEF m, t
<1>3. /\ m.macRxActive = "NO_ACTIVITY" /\ m.macRxOutgoingAckFlag = FALSE
      /\ m.macTxActive = s.macTxActive /\ m.stopM = s.stopM
      /\ m.macRxEnableFlags = s.macRxEnableFlags
  BY <1>2 DEF Keeps, Receiver, Fields
<1>4. /\ Sound(t) /\ Keeps(m, t, Starting) /\ t.macRxOutgoingAckFlag = FALSE /\ Moves(m, t)
      /\ t.macTxActive # "QUEUED" /\ (m.macTxActive # "QUEUED" => t = m)
      /\ Enabled(m) => Enabled(t)
  BY <1>1, <1>2, <1>3, StartQueuedEffect
<1>5. Keeps(s, t, Receiver \cup Starting)
  BY <1>2, <1>4 DEF Keeps
<1>6. Flow(s, t)
  BY <1>2, <1>4 DEF Flow, Keeps, Starting, Fields
<1>7. Moves(s, t)
  BY <1>3, <1>4 DEF Moves
<1>8. Needed(t, FALSE)
  <2>1. CASE m.macTxActive = "QUEUED"
    BY <1>4, <2>1 DEF Moves, Needed, NeedsReceiver
  <2>2. CASE m.macTxActive # "QUEUED" /\ NeedsReceiver(s)
    BY <1>2, <1>4, <2>2 DEF Needed
  <2>3. CASE m.macTxActive # "QUEUED" /\ ~NeedsReceiver(s)
    BY <1>2, <1>4, <2>3 DEF Needed
  <2> QED BY <2>1, <2>2, <2>3
<1>9. Enabled(s) => Enabled(t)
  BY <1>2, <1>3, <1>4 DEF Enabled, NeedsReceiver
<1> QED BY <1>4, <1>5, <1>6, <1>7, <1>8, <1>9 DEF t

\* The fields a reset of the receive state machine changes.
Resetting == Receiver \cup Starting \cup {"rxState", "pRxBuf", "macRxActive"}

\* The receive state machine starts over.
StartsOver(s) ==
  /\ s.fifo = <<>> /\ s.air = <<>> /\ s.overflow = FALSE
  /\ s.rxState = "start" /\ s.pRxBuf = FALSE
  /\ s.macRxActive = "NO_ACTIVITY" /\ s.macRxOutgoingAckFlag = FALSE

\* The receive clean-up leaves the state machine at its start.
LEMMA FinalStepEffect ==
  ASSUME NEW s, Sound(s), NEW due \in BOOLEAN, Needed(s, due), Queue(s)
  PROVE  /\ Sound(RxHaltCleanupFinalStep(s)) /\ Keeps(s, RxHaltCleanupFinalStep(s), Resetting)
         /\ StartsOver(RxHaltCleanupFinalStep(s)) /\ Moves(s, RxHaltCleanupFinalStep(s))
         /\ Needed(RxHaltCleanupFinalStep(s), due) /\ Queue(RxHaltCleanupFinalStep(s))
         /\ Enabled(s) => Enabled(RxHaltCleanupFinalStep(s))
<1> DEFINE c == [FlushRxFifo(s) EXCEPT !.ackM = FALSE, !.pRxBuf = FALSE, !.rxState = "start"]
           e == [c EXCEPT !.macRxActive = "NO_ACTIVITY", !.macRxOutgoingAckFlag = FALSE]
           t == RxHaltCleanupFinalStep(s)
<1>1. Driver(s) /\ RxTyped(s)
  BY SoundIsTyped
<1>2. /\ Keeps(s, c, {"fifo", "air", "overflow", "ackM", "pRxBuf", "rxState"})
      /\ c.fifo = <<>> /\ c.air = <<>> /\ c.overflow = FALSE /\ c.ackM = FALSE
      /\ c.pRxBuf = FALSE /\ c.rxState = "start"
  <2>1. Keeps(s, c, {"fifo", "air", "overflow", "ackM", "pRxBuf", "rxState"})
    BY ZenonT(40), <1>1 DEF FlushRxFifo, Driver, Keeps, Fields
  <2> QED BY <1>1, <2>1 DEF FlushRxFifo, Driver, Fields
<1>3. /\ Keeps(c, e, {"macRxActive", "macRxOutgoingAckFlag"})
      /\ e.macRxActive = "NO_ACTIVITY" /\ e.macRxOutgoingAckFlag = FALSE
  <2> HIDE DEF c
  <2> QED BY <1>2 DEF Driver, Keeps, Fields
<1>4. t = IF s.macRxActive # "NO_ACTIVITY" \/ s.macRxOutgoingAckFlag THEN RxPostRxUpdates(e) ELSE c
  BY DEF RxHaltCleanupFinalStep
<1> HIDE DEF c, e, t
<1>5. Sound(c) /\ Sound(e)
  <2>1. Keeps(s, c, RxFields) /\ Keeps(s, e, RxFields)
    BY <1>2, <1>3 DEF Keeps, RxFields, Receiver
  <2>2. RxTyped(c)
    BY <1>1, <1>2, Emptied DEF RxTyped, Keeps, Fields
  <2>3. RxTyped(e)
    BY <1>3, <2>2 DEF RxTyped, Keeps, Fields
  <2>4. Receiving(c)
    BY <1>2 DEF Sound, Receiving, Keeps, Fields
  <2>5. Receiving(e)
    BY <1>3, <2>4 DEF Receiving, Keeps, Fields
  <2> QED BY <2>1, <2>2, <2>3, <2>4, <2>5, RxOnly
<1>6. CASE s.macRxActive # "NO_ACTIVITY" \/ s.macRxOutgoingAckFlag
  <2>1. /\ Sound(t) /\ Keeps(e, t, Receiver \cup Starting) /\ Flow(e, t) /\ Moves(e, t)
        /\ t.macRxOutgoingAckFlag = FALSE /\ Needed(t, FALSE) /\ t.macTxActive # "QUEUED"
        /\ Enabled(e) => Enabled(t)
    BY <1>3, <1>4, <1>5, <1>6, PostRxEffect
  <2>2. /\ e.macTxActive = s.macTxActive /\ e.stopM = s.stopM
        /\ e.macRxEnableFlags = s.macRxEnableFlags /\ e.macRxOnFlag = s.macRxOnFlag
    BY <1>2, <1>3 DEF Keeps, Fields
  <2>3. Keeps(s, t, Resetting)
    BY <1>2, <1>3, <2>1 DEF Keeps, Resetting, Receiver, Starting
  <2>4. StartsOver(t)
    <3>1. e.fifo = <<>> /\ e.air = <<>> /\ e.overflow = FALSE /\ e.pRxBuf = FALSE /\ e.rxState = "start"
      BY <1>2, <1>3 DEF Keeps, Fields
    <3>2. t.pRxBuf = FALSE /\ t.rxState = "start" /\ t.macRxActive = "NO_ACTIVITY"
      BY <1>3, <2>1, <3>1 DEF Keeps, Receiver, Starting, Fields
    <3> QED BY <2>1, <3>1, <3>2 DEF StartsOver, Flow
  <2> QED BY <2>1, <2>2, <2>3, <2>4 DEF t, Moves, Needed, Queue, Enabled
<1>7. CASE s.macRxActive = "NO_ACTIVITY" /\ ~s.macRxOutgoingAckFlag
  <2>1. t = c
    BY <1>4, <1>7
  <2>2. Keeps(s, t, Resetting)
    BY <1>2, <2>1 DEF Keeps, Resetting, Receiver, Starting
  <2>3. /\ t.macRxActive = s.macRxActive /\ t.macRxOutgoingAckFlag = s.macRxOutgoingAckFlag
        /\ t.macTxActive = s.macTxActive /\ t.stopM = s.stopM
        /\ t.macRxOnFlag = s.macRxOnFlag /\ t.macRxEnableFlags = s.macRxEnableFlags
    BY <1>2, <2>1 DEF Keeps, Fields
  <2>4. StartsOver(t)
    BY <1>1, <1>2, <1>7, <2>1, <2>3 DEF StartsOver, RxTyped
  <2> QED BY <1>5, <2>1, <2>2, <2>3, <2>4 DEF t, Moves, Needed, NeedsReceiver, Queue, Enabled
<1> QED BY <1>1, <1>6, <1>7 DEF RxTyped

-----------------------------------------------------------------------------
(* The end of a transmit                                                    *)

\* The receive state machine stays in step when the FIFOs are emptied between
\* two frames, and when it starts over.
LEMMA FlowInStep ==
  ASSUME NEW s, RxInStep(s), NEW t, Flow(s, t),
         t.macRxActive = s.macRxActive, t.rxState = s.rxState, t.pRxBuf = s.pRxBuf,
         t.rxUnread = s.rxUnread,
         s.macRxActive = "STARTED" => t.fifo = s.fifo /\ t.air = s.air /\ t.overflow = s.overflow
  PROVE  RxInStep(t)
<1>1. CASE t.fifo = s.fifo /\ t.air = s.air /\ t.overflow = s.overflow
  BY ZenonT(40), <1>1 DEF RxInStep, Stream, Unread
<1>2. CASE t.fifo = <<>> /\ t.air = <<>> /\ s.macRxActive # "STARTED"
  BY <1>2 DEF RxInStep, Stream, AtMostAFrame
<1> QED BY <1>1, <1>2 DEF Flow

\* A state machine at its start, with an empty FIFO, is in step.
LEMMA StartsOverInStep == ASSUME NEW s, StartsOver(s) PROVE RxInStep(s)
BY DEF StartsOver, RxInStep, Stream, AtMostAFrame

\* A change of channel, where there is one: the receiver is turned off, tuned
\* and, if it is enabled, turned on.
Retuning(s) == [MacRxOff(s) EXCEPT !.macPhyChannel = s.reqChannel]

\* MacRadioUpdateChannel up to the receive clean-up.
LEMMA RetuningEffect ==
  ASSUME NEW s, Sound(s), s.macTxActive = "NO_ACTIVITY"
  PROVE  /\ MacRadioUpdateChannel(s) =
              IF s.reqChannel = s.macPhyChannel THEN s
              ELSE MacRxOnRequest(MacRxHaltCleanup(Retuning(s)))
         /\ Sound(Retuning(s)) /\ Keeps(s, Retuning(s), Receiver \cup {"macPhyChannel"})
         /\ Retuning(s).macRxOnFlag = FALSE /\ Retuning(s).macPhyChannel = s.reqChannel
         /\ Retuning(s).fifo = <<>> /\ Retuning(s).air = <<>>
<1> DEFINE m == MacRxOff(s)
           t == Retuning(s)
<1>1. MacRadioUpdateChannel(s) =
        IF s.reqChannel = s.macPhyChannel THEN s
        ELSE MacRxOnRequest(MacRxHaltCleanup(Retuning(s)))
  BY DEF MacRadioUpdateChannel, Require, Retuning
<1>2. t = [m EXCEPT !.macPhyChannel = s.reqChannel]
  BY DEF Retuning
<1>3. s.csp # "tx"
  BY DEF Sound, Transmit
<1>4. /\ Keeps(s, m, Receiver) /\ m.macRxOnFlag = FALSE /\ m.fifo = <<>> /\ m.air = <<>>
      /\ Sound(m)
  BY <1>3, RxOffEffect
<1> HIDE DEF m, t
<1>5. /\ Keeps(m, t, {"macPhyChannel"}) /\ t.macPhyChannel = s.reqChannel
  <2>1. Driver(m)
    BY <1>4 DEF Keeps
  <2> QED BY <1>2, <2>1 DEF Driver, Keeps, Fields
<1>6. t.macRxOnFlag = FALSE /\ t.fifo = <<>> /\ t.air = <<>>
  BY <1>4, <1>5 DEF Keeps, Fields
<1>7. Sound(t)
  <2>1. RxTyped(m) /\ s.reqChannel \in Channels
    BY <1>4, SoundIsTyped DEF Sound, Typed
  <2>2. RxTyped(t)
    BY <1>5, <2>1 DEF RxTyped, Keeps, Fields
  <2>3. Keeps(m, t, RxFields)
    BY <1>5 DEF Keeps, RxFields
  <2> QED BY <1>4, <1>6, <2>2, <2>3, RxOnly DEF Receiving
<1>8. Keeps(s, t, Receiver \cup {"macPhyChannel"})
  BY <1>4, <1>5 DEF Keeps
<1> QED BY <1>1, <1>5, <1>6, <1>7, <1>8 DEF t

\* macRxOnRequest turns an enabled receiver on.
LEMMA OnRequestEffect ==
  ASSUME NEW s, Sound(s)
  PROVE  /\ Sound(MacRxOnRequest(s)) /\ Keeps(s, MacRxOnRequest(s), {"macRxOnFlag"})
         /\ Enabled(MacRxOnRequest(s))
         /\ \A due \in BOOLEAN : Needed(s, due) => Needed(MacRxOnRequest(s), due)
<1> DEFINE t == MacRxOnRequest(s)
<1>1. CASE s.macRxEnableFlags
  <2>1. t = [s EXCEPT !.macRxOnFlag = TRUE]
    BY <1>1 DEF MacRxOnRequest, MacRxOn
  <2> HIDE DEF t
  <2>2. Driver(s) /\ RxTyped(s)
    BY SoundIsTyped
  <2>3. Keeps(s, t, {"macRxOnFlag"}) /\ t.macRxOnFlag = TRUE
    BY <2>1, <2>2 DEF Driver, Keeps, Fields
  <2>4. RxTyped(t) /\ Keeps(s, t, RxFields)
    BY <2>2, <2>3 DEF RxTyped, Keeps, Fields, RxFields, Receiver
  <2>5. Sound(t)
    BY <2>3, <2>4, RxOnly DEF Receiving
  <2>6. t.macRxEnableFlags
    BY <1>1, <2>3 DEF Keeps, Fields
  <2> QED BY <2>3, <2>5, <2>6 DEF t, Enabled, Needed, NeedsReceiver
<1>2. CASE ~s.macRxEnableFlags
  <2>1. t = s
    BY <1>2 DEF MacRxOnRequest
  <2> QED BY <1>2, <2>1 DEF Keeps, Sound, Enabled
<1> QED BY <1>1, <1>2

\* Outside the receive interrupt a change of channel starts the receive state
\* machine over.
LEMMA UpdateChannelOutside ==
  ASSUME NEW s, Sound(s), Enabled(s), s.macTxActive = "NO_ACTIVITY", s.rxIsrActiveFlag = FALSE
  PROVE  /\ Sound(MacRadioUpdateChannel(s)) /\ Enabled(MacRadioUpdateChannel(s))
         /\ Keeps(s, MacRadioUpdateChannel(s), Resetting \cup {"macPhyChannel"})
         /\ MacRadioUpdateChannel(s).macTxActive = "NO_ACTIVITY"
         /\ MacRadioUpdateChannel(s).macPhyChannel = s.reqChannel
         /\ \/ MacRadioUpdateChannel(s) = s
            \/ StartsOver(MacRadioUpdateChannel(s)) /\ Needed(MacRadioUpdateChannel(s), FALSE)
<1> DEFINE m == Retuning(s)
           h == RxHaltCleanupFinalStep(m)
           t == MacRadioUpdateChannel(s)
<1>1. /\ t = IF s.reqChannel = s.macPhyChannel THEN s ELSE MacRxOnRequest(MacRxHaltCleanup(m))
      /\ Sound(m) /\ Keeps(s, m, Receiver \cup {"macPhyChannel"})
      /\ m.macRxOnFlag = FALSE /\ m.macPhyChannel = s.reqChannel
  BY RetuningEffect
<1>2. CASE s.reqChannel = s.macPhyChannel
  <2>1. t = s
    BY <1>1, <1>2
  <2> QED BY <1>2, <2>1 DEF Sound, Keeps
<1>3. CASE s.reqChannel # s.macPhyChannel
  <2> HIDE DEF m
  <2>1. m.rxIsrActiveFlag = FALSE /\ m.macTxActive = "NO_ACTIVITY"
    BY <1>1 DEF Keeps, Receiver, Fields
  <2>2. t = MacRxOnRequest(h)
    BY <1>1, <1>3, <2>1 DEF MacRxHaltCleanup
  <2>3. Needed(m, FALSE) /\ Queue(m)
    BY <1>1, <2>1 DEF Needed, Queue
  <2>4. /\ Sound(h) /\ Keeps(m, h, Resetting) /\ StartsOver(h) /\ Moves(m, h)
        /\ Needed(h, FALSE)
    BY <1>1, <2>3, FinalStepEffect
  <2> HIDE DEF h, t
  <2>5. /\ Sound(t) /\ Keeps(h, t, {"macRxOnFlag"}) /\ Enabled(t) /\ Needed(t, FALSE)
    BY <2>2, <2>4, OnRequestEffect
  <2>6. t.macTxActive = "NO_ACTIVITY" /\ StartsOver(t)
    BY <2>1, <2>4, <2>5 DEF Moves, Keeps, Fields, StartsOver
  <2>7. t.macPhyChannel = s.reqChannel
    BY <1>1, <2>4, <2>5 DEF Keeps, Resetting, Receiver, Starting, Fields
  <2>8. Keeps(s, t, Resetting \cup {"macPhyChannel"})
    BY <1>1, <2>4, <2>5 DEF Keeps, Resetting, Receiver
  <2> QED BY <2>5, <2>6, <2>7, <2>8 DEF t
<1> QED BY <1>2, <1>3

\* Within it the reset is left to the end of the interrupt.
LEMMA UpdateChannelInside ==
  ASSUME NEW s, Sound(s), Enabled(s), s.macTxActive = "NO_ACTIVITY", s.rxIsrActiveFlag = TRUE
  PROVE  /\ Sound(MacRadioUpdateChannel(s)) /\ Enabled(MacRadioUpdateChannel(s))
         /\ Keeps(s, MacRadioUpdateChannel(s), Receiver \cup {"macPhyChannel", "rxResetFlag"})
         /\ MacRadioUpdateChannel(s).macPhyChannel = s.reqChannel
         /\ \/ MacRadioUpdateChannel(s) = s
            \/ /\ MacRadioUpdateChannel(s).rxResetFlag = TRUE
               /\ MacRadioUpdateChannel(s).fifo = <<>> /\ MacRadioUpdateChannel(s).air = <<>>
<1> DEFINE m == Retuning(s)
           h == [m EXCEPT !.rxResetFlag = TRUE]
           t == MacRadioUpdateChannel(s)
<1>1. /\ t = IF s.reqChannel = s.macPhyChannel THEN s ELSE MacRxOnRequest(MacRxHaltCleanup(m))
      /\ Sound(m) /\ Keeps(s, m, Receiver \cup {"macPhyChannel"})
      /\ m.macRxOnFlag = FALSE /\ m.macPhyChannel = s.reqChannel
      /\ m.fifo = <<>> /\ m.air = <<>>
  BY RetuningEffect
<1>2. CASE s.reqChannel = s.macPhyChannel
  <2>1. t = s
    BY <1>1, <1>2
  <2> QED BY <1>2, <2>1 DEF Sound, Keeps
<1>3. CASE s.reqChannel # s.macPhyChannel
  <2> HIDE DEF m
  <2>1. m.rxIsrActiveFlag = TRUE
    BY <1>1 DEF Keeps, Receiver, Fields
  <2>2. t = MacRxOnRequest(h)
    BY <1>1, <1>3, <2>1 DEF MacRxHaltCleanup
  <2>3. Driver(m) /\ RxTyped(m)
    BY <1>1, SoundIsTyped
  <2>4. Keeps(m, h, {"rxResetFlag"}) /\ h.rxResetFlag = TRUE
    BY <2>3 DEF Driver, Keeps, Fields
  <2> HIDE DEF h, t
  <2>5. h.macRxOnFlag = FALSE /\ h.fifo = <<>> /\ h.air = <<>> /\ h.macPhyChannel = s.reqChannel
    BY <1>1, <2>4 DEF Keeps, Fields
  <2>6. RxTyped(h) /\ Keeps(m, h, RxFields)
    BY <2>3, <2>4 DEF RxTyped, Keeps, Fields, RxFields, Receiver
  <2>7. Sound(h)
    BY <1>1, <2>5, <2>6, RxOnly DEF Receiving
  <2>8. Sound(t) /\ Keeps(h, t, {"macRxOnFlag"}) /\ Enabled(t)
    BY <2>2, <2>7, OnRequestEffect
  <2>9. /\ t.rxResetFlag = TRUE /\ t.fifo = <<>> /\ t.air = <<>>
        /\ t.macPhyChannel = s.reqChannel
    BY <2>4, <2>5, <2>8 DEF Keeps, Fields
  <2>10. Keeps(s, t, Receiver \cup {"macPhyChannel", "rxResetFlag"})
    BY <1>1, <2>4, <2>8 DEF Keeps, Receiver
  <2> QED BY <2>8, <2>9, <2>10 DEF t
<1> QED BY <1>2, <1>3

\* A transmit that is about to end.
Ending(s) ==
  /\ Sound(s) /\ Enabled(s)
  /\ s.macTxActive \in {"INITIALIZE", "DONE", "POST_ACK", "CHANNEL_BUSY"} /\ s.wanted # 0

\* One that has ended.
Ended(s) ==
  /\ Sound(s) /\ Enabled(s) /\ Awaited(s) /\ Tuned(s)
  /\ s.macTxActive = "NO_ACTIVITY"

\* txComplete before the change of channel,
Completing(s) == MacRxOffRequest([s EXCEPT !.macTxActive = "NO_ACTIVITY"])

\* txComplete up to the change of channel it makes up for.
LEMMA CompletingEffect ==
  ASSUME NEW s, Ending(s)
  PROVE  /\ Sound(Completing(s)) /\ Enabled(Completing(s))
         /\ Keeps(s, Completing(s), Receiver \cup {"macTxActive"})
         /\ Completing(s).macTxActive = "NO_ACTIVITY"
         /\ Flow(s, Completing(s)) /\ Needed(Completing(s), FALSE)
         /\ s.macRxActive = "STARTED" => /\ Completing(s).fifo = s.fifo
                                         /\ Completing(s).air = s.air
                                         /\ Completing(s).overflow = s.overflow
<1> DEFINE e == [s EXCEPT !.macTxActive = "NO_ACTIVITY"]
           t == Completing(s)
<1>1. Keeps(s, e, {"macTxActive"}) /\ e.macTxActive = "NO_ACTIVITY"
  BY DEF Ending, Sound, Driver, Keeps, Fields
<1>2. t = MacRxOffRequest(e)
  BY DEF Completing
<1> HIDE DEF e, t
<1>3. Sound(e)
  <2>1. Typed(e)
    BY <1>1 DEF Ending, Sound, Typed, Keeps, Fields
  <2>2. Transmit(e)
    BY <1>1 DEF Ending, Sound, Transmit, Keeps, Fields
  <2>3. Receiving(e)
    BY <1>1 DEF Ending, Sound, Receiving, Keeps, Fields
  <2> QED BY <1>1, <2>1, <2>2, <2>3 DEF Sound, Keeps
<1>4. /\ Sound(t) /\ Keeps(e, t, Receiver) /\ Flow(e, t)
      /\ NeedsReceiver(e) => t = e
      /\ ~NeedsReceiver(e) => t.macRxOnFlag = FALSE
  BY <1>2, <1>3, RxOffRequestEffect
<1>5. t.macTxActive = "NO_ACTIVITY"
  BY <1>1, <1>4 DEF Keeps, Receiver, Fields
<1>6. /\ e.fifo = s.fifo /\ e.air = s.air /\ e.overflow = s.overflow
      /\ e.macRxEnableFlags = s.macRxEnableFlags /\ e.macRxOnFlag = s.macRxOnFlag
      /\ e.macRxActive = s.macRxActive
      /\ t.macRxEnableFlags = e.macRxEnableFlags
  BY <1>1, <1>4 DEF Keeps, Receiver, Fields
<1>7. Enabled(t)
  BY <1>4, <1>6 DEF Ending, Enabled, NeedsReceiver
<1>8. Needed(t, FALSE)
  BY <1>4 DEF Needed
<1>9. Keeps(s, t, Receiver \cup {"macTxActive"})
  BY <1>1, <1>4 DEF Keeps
<1>10. s.macRxActive = "STARTED" => t = e
  BY <1>4, <1>6 DEF NeedsReceiver
<1> QED BY <1>4, <1>5, <1>6, <1>7, <1>8, <1>9, <1>10 DEF t, Flow

\* and the callback after it.
LEMMA CallbackEffect ==
  ASSUME NEW s, Ending(s), NEW status \in {"SUCCESS", "NO_ACK", "CHANNEL_ACCESS_FAILURE", "TX_ABORTED"},
         NEW e, e = MacRadioUpdateChannel(Completing(s)), Sound(e), Enabled(e),
         e.wanted = s.wanted, e.sent = s.sent, e.macTxActive = "NO_ACTIVITY",
         e.macPhyChannel = e.reqChannel
  PROVE  /\ Ended(TxComplete(s, status))
         /\ Keeps(e, TxComplete(s, status), {"status", "wanted"})
<1> DEFINE t == TxComplete(s, status)
<1>1. Driver(e) /\ e.faults = {} /\ s.wanted # 0
  BY DEF Ending, Sound, Transmit
<1>2. t = [e EXCEPT !.status = status, !.wanted = 0]
  BY <1>1 DEF TxComplete, Completing, Require
<1> HIDE DEF t
<1>3. Keeps(e, t, {"status", "wanted"}) /\ t.wanted = 0 /\ t.status = status
  BY <1>1, <1>2 DEF Driver, Keeps, Fields
<1>4. Sound(t)
  <2>1. Typed(t)
    BY <1>3 DEF Sound, Typed, Keeps, Fields
  <2>2. e.sent # 0
    BY DEF Ending, Sound, Transmit
  <2>3. Transmit(t)
    BY <1>3, <2>2 DEF Sound, Transmit, Keeps, Fields
  <2>4. Receiving(t)
    BY <1>3 DEF Sound, Receiving, Keeps, Fields
  <2> QED BY <1>3, <2>1, <2>3, <2>4 DEF Sound, Keeps
<1>5. t.macTxActive = "NO_ACTIVITY" /\ t.macPhyChannel = t.reqChannel
  BY <1>3 DEF Keeps, Fields
<1>6. Enabled(t)
  BY <1>3 DEF Enabled, Keeps, Fields
<1> QED BY <1>3, <1>4, <1>5, <1>6 DEF t, Ended, Awaited, Tuned

\* Outside the receive interrupt a transmit that ends leaves everything settled,
LEMMA TxCompleteOutside ==
  ASSUME NEW s, Ending(s), s.rxIsrActiveFlag = FALSE, s.rxResetFlag = FALSE, RxInStep(s),
         NEW status \in {"SUCCESS", "NO_ACK", "CHANNEL_ACCESS_FAILURE", "TX_ABORTED"}
  PROVE  /\ Ended(TxComplete(s, status))
         /\ Settled(TxComplete(s, status), FALSE)
<1> DEFINE m == Completing(s)
           e == MacRadioUpdateChannel(m)
           t == TxComplete(s, status)
<1>1. /\ Sound(m) /\ Enabled(m) /\ Keeps(s, m, Receiver \cup {"macTxActive"})
      /\ m.macTxActive = "NO_ACTIVITY" /\ Flow(s, m) /\ Needed(m, FALSE)
      /\ s.macRxActive = "STARTED" => m.fifo = s.fifo /\ m.air = s.air /\ m.overflow = s.overflow
  BY CompletingEffect
<1> HIDE DEF m
<1>2. /\ m.rxIsrActiveFlag = FALSE /\ m.rxResetFlag = FALSE /\ m.wanted = s.wanted
      /\ m.sent = s.sent /\ m.macRxActive = s.macRxActive /\ m.rxState = s.rxState
      /\ m.pRxBuf = s.pRxBuf /\ m.rxUnread = s.rxUnread
  BY <1>1 DEF Keeps, Receiver, Fields
<1>3. /\ Sound(e) /\ Enabled(e) /\ Keeps(m, e, Resetting \cup {"macPhyChannel"})
      /\ e.macTxActive = "NO_ACTIVITY" /\ e.macPhyChannel = m.reqChannel
      /\ e = m \/ (StartsOver(e) /\ Needed(e, FALSE))
  BY <1>1, <1>2, UpdateChannelOutside
<1>4. RxInStep(m)
  BY <1>1, <1>2, FlowInStep
<1>5. RxInStep(e) /\ Needed(e, FALSE)
  BY <1>1, <1>3, <1>4, StartsOverInStep
<1> HIDE DEF e
<1>6. /\ e.wanted = s.wanted /\ e.sent = s.sent /\ e.macPhyChannel = e.reqChannel
      /\ e.rxIsrActiveFlag = FALSE /\ e.rxResetFlag = FALSE
  BY <1>2, <1>3 DEF Keeps, Resetting, Receiver, Starting, Fields
<1>7. Ended(t) /\ Keeps(e, t, {"status", "wanted"})
  BY <1>3, <1>6, CallbackEffect DEF e, m
<1> HIDE DEF t
<1>8. RxInStep(t)
  <2>1. /\ t.fifo = e.fifo /\ t.air = e.air /\ t.overflow = e.overflow
        /\ t.macRxActive = e.macRxActive /\ t.rxState = e.rxState /\ t.pRxBuf = e.pRxBuf
        /\ t.rxUnread = e.rxUnread
    BY <1>7 DEF Keeps, Fields
  <2> QED BY <1>5, <2>1, FlowInStep DEF Flow
<1>9. Needed(t, FALSE)
  BY <1>5, <1>7 DEF Needed, NeedsReceiver, Keeps, Fields
<1>10. t.rxIsrActiveFlag = FALSE /\ t.rxResetFlag = FALSE
  BY <1>6, <1>7 DEF Keeps, Fields
<1> QED BY <1>7, <1>8, <1>9, <1>10 DEF t, Ended, Settled, Queue

\* and within it what is being read is as it was, or will start over.
Completes == Receiver \cup {"macTxActive", "status", "wanted", "macPhyChannel", "rxResetFlag"}

\* Within the receive interrupt txComplete leaves the clean-up to its end.
LEMMA TxCompleteInside ==
  ASSUME NEW s, Ending(s), s.rxIsrActiveFlag = TRUE, s.macRxActive = "STARTED",
         NEW status \in {"SUCCESS", "NO_ACK", "CHANNEL_ACCESS_FAILURE", "TX_ABORTED"}
  PROVE  /\ Ended(TxComplete(s, status)) /\ Keeps(s, TxComplete(s, status), Completes)
         /\ \/ /\ TxComplete(s, status).fifo = s.fifo /\ TxComplete(s, status).air = s.air
               /\ TxComplete(s, status).overflow = s.overflow
               /\ TxComplete(s, status).rxResetFlag = s.rxResetFlag
            \/ TxComplete(s, status).rxResetFlag = TRUE /\ TxComplete(s, status).fifo = <<>>
<1> DEFINE m == Completing(s)
           e == MacRadioUpdateChannel(m)
           t == TxComplete(s, status)
<1>1. /\ Sound(m) /\ Enabled(m) /\ Keeps(s, m, Receiver \cup {"macTxActive"})
      /\ m.macTxActive = "NO_ACTIVITY"
      /\ m.fifo = s.fifo /\ m.air = s.air /\ m.overflow = s.overflow
  BY CompletingEffect
<1> HIDE DEF m
<1>2. /\ m.rxIsrActiveFlag = TRUE /\ m.rxResetFlag = s.rxResetFlag /\ m.wanted = s.wanted
      /\ m.sent = s.sent
  BY <1>1 DEF Keeps, Receiver, Fields
<1>3. /\ Sound(e) /\ Enabled(e) /\ Keeps(m, e, Receiver \cup {"macPhyChannel", "rxResetFlag"})
      /\ e.macPhyChannel = m.reqChannel
      /\ e = m \/ (e.rxResetFlag = TRUE /\ e.fifo = <<>> /\ e.air = <<>>)
  BY <1>1, <1>2, UpdateChannelInside
<1> HIDE DEF e
<1>4. /\ e.wanted = s.wanted /\ e.sent = s.sent /\ e.macPhyChannel = e.reqChannel
      /\ e.macTxActive = "NO_ACTIVITY"
  BY <1>1, <1>2, <1>3 DEF Keeps, Receiver, Fields
<1>5. Ended(t) /\ Keeps(e, t, {"status", "wanted"})
  BY <1>3, <1>4, CallbackEffect DEF e, m
<1> HIDE DEF t
<1>6. Keeps(s, t, Completes)
  BY <1>1, <1>3, <1>5 DEF Keeps, Completes
<1>7. /\ t.fifo = e.fifo /\ t.air = e.air /\ t.overflow = e.overflow
      /\ t.rxResetFlag = e.rxResetFlag
  BY <1>5 DEF Keeps, Fields
<1> QED BY <1>1, <1>2, <1>3, <1>5, <1>6, <1>7 DEF t

-----------------------------------------------------------------------------
(* The callbacks of the strobe processor                                    *)

\* An interrupt does not change what the foreground is at, nor what it has
\* prepared there.
Calm(s, t) ==
  /\ InCall(t) <=> InCall(s)
  /\ InGo(t) <=> InGo(s)
  /\ InCall(s) => t.cspz = s.cspz /\ t.stopF = s.stopF /\ t.nb = s.nb

\* The fields of the transmit state and of the strobe processor.
TxFields == {"macTxActive", "nb", "stopF", "stopM", "intF", "intM", "csp", "cspz"}

\* A change of the transmit fields only.
LEMMA TxOnly ==
  ASSUME NEW s, Sound(s), NEW t, Keeps(s, t, TxFields), Transmit(t),
         t.macTxActive \in {"NO_ACTIVITY", "INITIALIZE", "QUEUED", "GO", "DONE", "LISTEN_FOR_ACK",
                            "POST_ACK", "CHANNEL_BUSY"},
         t.nb \in 0 .. MaxBackoffs + 1, t.stopF \in BOOLEAN, t.stopM \in BOOLEAN
  PROVE  Sound(t) /\ (Enabled(s) => Enabled(t)) /\ (RxInStep(s) => RxInStep(t))
<1>1. Typed(t)
  BY DEF Sound, Typed, Keeps, TxFields, Fields
<1>2. Receiving(t)
  BY DEF Sound, Receiving, Keeps, TxFields, Fields
<1>3. Enabled(s) => Enabled(t)
  BY DEF Enabled, Keeps, TxFields, Fields
<1>4. /\ t.fifo = s.fifo /\ t.air = s.air /\ t.overflow = s.overflow
      /\ t.macRxActive = s.macRxActive /\ t.rxState = s.rxState /\ t.pRxBuf = s.pRxBuf
      /\ t.rxUnread = s.rxUnread
  BY DEF Keeps, TxFields, Fields
<1>5. RxInStep(s) => RxInStep(t)
  BY <1>4, FlowInStep DEF Flow
<1> QED BY <1>1, <1>2, <1>3, <1>5 DEF Sound, Keeps

\* What holds within the receive interrupt, and what its handlers may do to
\* the transmit: it stays where it is, or ends.
Working(s) ==
  /\ Sound(s) /\ Enabled(s) /\ Awaited(s) /\ Tuned(s)
  /\ s.rxIsrActiveFlag = TRUE
  /\ s.macTxActive \notin {"DONE", "POST_ACK", "CHANNEL_BUSY"}
TxInIsr == Completes \cup TxFields
SameOrReset(s, t) ==
  \/ t.fifo = s.fifo /\ t.air = s.air /\ t.overflow = s.overflow /\ t.rxResetFlag = s.rxResetFlag
  \/ t.rxResetFlag = TRUE /\ t.fifo = <<>>

\* The end of the wait for an acknowledgement, within the interrupt,
AckEndOf(s) == CspTxCancelAckTimeout([s EXCEPT !.macTxActive = "POST_ACK"])

\* MacTxAckEnd stops the wait before it completes the transmit.
LEMMA AckEndIsEnding ==
  ASSUME NEW s, Sound(s), Enabled(s), Awaited(s), s.macTxActive = "LISTEN_FOR_ACK"
  PROVE  /\ Ending(AckEndOf(s)) /\ Keeps(s, AckEndOf(s), TxFields)
         /\ RxInStep(s) => RxInStep(AckEndOf(s))
<1> DEFINE m == AckEndOf(s)
<1>1. Driver(s)
  BY DEF Sound
<1>2. Keeps(s, m, {"macTxActive", "stopM", "csp", "stopF"})
  BY ZenonT(40), <1>1 DEF AckEndOf, CspTxCancelAckTimeout, Driver, Keeps, Fields
<1>3. m.macTxActive = "POST_ACK" /\ m.stopM = FALSE /\ m.csp = "idle" /\ m.stopF = TRUE
  BY <1>1 DEF AckEndOf, CspTxCancelAckTimeout, Driver, Fields
<1> HIDE DEF m
<1>4. Transmit(m)
  BY <1>2, <1>3 DEF Sound, Transmit, Keeps, Fields
<1>5. Keeps(s, m, TxFields)
  BY <1>2 DEF Keeps, TxFields
<1>6. m.nb \in 0 .. MaxBackoffs + 1
  BY <1>2 DEF Sound, Typed, Keeps, Fields
<1>7. Sound(m) /\ Enabled(m) /\ (RxInStep(s) => RxInStep(m))
  BY <1>3, <1>4, <1>5, <1>6, TxOnly
<1>8. m.wanted # 0
  BY <1>2 DEF Awaited, Keeps, Fields
<1> QED BY <1>3, <1>5, <1>7, <1>8 DEF m, Ending

\* A frame that is not the awaited acknowledgement ends the wait for one.
LEMMA AckEndInside ==
  ASSUME NEW s, Working(s), s.macRxActive = "STARTED", NEW status \in {"SUCCESS", "NO_ACK"}
  PROVE  /\ Working(MacTxAckEnd(s, status)) /\ Keeps(s, MacTxAckEnd(s, status), TxInIsr)
         /\ Calm(s, MacTxAckEnd(s, status)) /\ SameOrReset(s, MacTxAckEnd(s, status))
<1> DEFINE m == AckEndOf(s)
           t == MacTxAckEnd(s, status)
<1>1. CASE s.macTxActive # "LISTEN_FOR_ACK"
  <2>1. t = s
    BY <1>1 DEF MacTxAckEnd
  <2> QED BY <2>1 DEF Working, Sound, Keeps, Calm, SameOrReset
<1>2. CASE s.macTxActive = "LISTEN_FOR_ACK"
  <2>1. t = TxComplete(m, status)
    BY <1>2 DEF MacTxAckEnd, AckEndOf
  <2>2. Ending(m) /\ Keeps(s, m, TxFields)
    BY <1>2, AckEndIsEnding DEF Working
  <2> HIDE DEF m
  <2>3. /\ m.rxIsrActiveFlag = TRUE /\ m.macRxActive = "STARTED" /\ m.fifo = s.fifo
        /\ m.air = s.air /\ m.overflow = s.overflow /\ m.rxResetFlag = s.rxResetFlag
    BY <2>2 DEF Working, Keeps, TxFields, Fields
  <2>4. Ended(t) /\ Keeps(m, t, Completes) /\ SameOrReset(m, t)
    BY ZenonT(40), <2>1, <2>2, <2>3, TxCompleteInside DEF SameOrReset
  <2> HIDE DEF t
  <2>5. t.rxIsrActiveFlag = TRUE
    BY <2>3, <2>4 DEF Keeps, Completes, Receiver, Fields
  <2>6. Working(t) /\ Calm(s, t)
    BY <1>2, <2>4, <2>5 DEF Working, Ended, Calm, InCall, InGo
  <2>7. Keeps(s, t, TxInIsr)
    BY <2>2, <2>4 DEF Keeps, TxInIsr
  <2>8. SameOrReset(s, t)
    BY <2>3, <2>4 DEF SameOrReset
  <2> QED BY <2>6, <2>7, <2>8 DEF t
<1> QED BY <1>1, <1>2

\* and outside it, with the mask of the interrupt cleared.
Masked(s, d) ==
  /\ Keeps(s, d, {"stopF", "stopM", "intM"})
  /\ d.stopM = FALSE /\ d.stopF \in BOOLEAN
  /\ s.csp = "idle" /\ s.stopM = TRUE

\* A strobe program that has ended leaves a transmit to complete.
LEMMA MaskedEnding ==
  ASSUME NEW s, Sound(s), Enabled(s), Awaited(s), NEW d, Masked(s, d), NEW m,
         Keeps(d, m, {"macTxActive", "stopM", "csp", "stopF"}),
         m.macTxActive \in {"DONE", "POST_ACK", "CHANNEL_BUSY"}, m.stopM = FALSE, m.csp = "idle",
         m.stopF \in BOOLEAN
  PROVE  Ending(m) /\ Keeps(s, m, TxFields) /\ (RxInStep(s) => RxInStep(m))
<1>1. Keeps(s, m, {"macTxActive", "stopF", "stopM", "intM", "csp"})
  BY DEF Masked, Keeps
<1>2. Transmit(m)
  BY <1>1 DEF Sound, Transmit, Keeps, Fields
<1>3. Keeps(s, m, TxFields)
  BY <1>1 DEF Keeps, TxFields
<1>4. m.nb \in 0 .. MaxBackoffs + 1
  BY <1>1 DEF Sound, Typed, Keeps, Fields
<1>5. Sound(m) /\ Enabled(m) /\ (RxInStep(s) => RxInStep(m))
  BY <1>2, <1>3, <1>4, TxOnly
<1>6. m.wanted # 0
  <2>1. s.macTxActive \in {"GO", "LISTEN_FOR_ACK"}
    BY DEF Masked, Sound, Transmit
  <2> QED BY <1>1, <2>1 DEF Awaited, Keeps, Fields
<1> QED BY <1>3, <1>5, <1>6 DEF Ending

\* A transmit that is done without an acknowledgement ends; one with waits.
LEMMA DoneListens ==
  ASSUME NEW s, Sound(s), Enabled(s), Awaited(s), s.macTxActive = "GO", NEW d, Masked(s, d),
         d.txAckReq
  PROVE  /\ Sound(MacTxDoneCallback(d)) /\ Enabled(MacTxDoneCallback(d))
         /\ Awaited(MacTxDoneCallback(d)) /\ Keeps(s, MacTxDoneCallback(d), TxFields)
         /\ MacTxDoneCallback(d).macTxActive = "LISTEN_FOR_ACK"
         /\ MacTxDoneCallback(d).stopM = TRUE
         /\ RxInStep(s) => RxInStep(MacTxDoneCallback(d))
<1> DEFINE t == MacTxDoneCallback(d)
<1>1. Driver(d) /\ d.macTxActive = "GO" /\ d.stopM = FALSE
  BY DEF Masked, Keeps, Fields
<1>2. t = [d EXCEPT !.macTxActive = "LISTEN_FOR_ACK", !.cspz = "TIMEOUT", !.csp = "ackwait",
                    !.stopF = FALSE, !.stopM = TRUE]
  <2>1. t = CspTxRequestAckTimeout([d EXCEPT !.macTxActive = "LISTEN_FOR_ACK"])
    BY <1>1 DEF MacTxDoneCallback
  <2>2. ~[d EXCEPT !.macTxActive = "LISTEN_FOR_ACK"].stopM
    BY <1>1 DEF Driver, Fields
  <2> QED BY <2>1, <2>2 DEF CspTxRequestAckTimeout, Require
<1>3. Keeps(d, t, {"macTxActive", "cspz", "csp", "stopF", "stopM"})
  BY <1>1, <1>2 DEF Driver, Keeps, Fields
<1>4. /\ t.macTxActive = "LISTEN_FOR_ACK" /\ t.cspz = "TIMEOUT" /\ t.csp = "ackwait"
      /\ t.stopF = FALSE /\ t.stopM = TRUE
  BY ZenonT(40), <1>1, <1>2 DEF Driver, Fields
<1> HIDE DEF t
<1>5. Keeps(s, t, {"macTxActive", "cspz", "csp", "stopF", "stopM", "intM"})
  BY <1>3 DEF Masked, Keeps
<1>6. Transmit(t)
  BY <1>4, <1>5 DEF Sound, Transmit, Keeps, Fields
<1>7. Keeps(s, t, TxFields)
  BY <1>5 DEF Keeps, TxFields
<1>8. t.nb \in 0 .. MaxBackoffs + 1
  BY <1>5 DEF Sound, Typed, Keeps, Fields
<1>9. Sound(t) /\ Enabled(t) /\ (RxInStep(s) => RxInStep(t))
  BY <1>4, <1>6, <1>7, <1>8, TxOnly
<1>10. Awaited(t)
  BY <1>4, <1>5 DEF Awaited, Keeps, Fields
<1> QED BY <1>4, <1>7, <1>9, <1>10 DEF t

\* A frame sent that asks for no acknowledgement is complete.
LEMMA DoneEnds ==
  ASSUME NEW s, Sound(s), Enabled(s), Awaited(s), s.macTxActive = "GO", NEW d, Masked(s, d),
         ~d.txAckReq
  PROVE  LET m == [d EXCEPT !.macTxActive = "DONE"]
         IN  /\ MacTxDoneCallback(d) = TxComplete(m, "SUCCESS")
             /\ Ending(m) /\ Keeps(s, m, TxFields)
             /\ RxInStep(s) => RxInStep(m)
<1> DEFINE m == [d EXCEPT !.macTxActive = "DONE"]
<1>1. Driver(d) /\ d.macTxActive = "GO" /\ d.stopM = FALSE /\ d.stopF \in BOOLEAN /\ d.csp = "idle"
  BY DEF Masked, Keeps, Fields
<1>2. MacTxDoneCallback(d) = TxComplete(m, "SUCCESS")
  BY <1>1 DEF MacTxDoneCallback
<1>3. Keeps(d, m, {"macTxActive"}) /\ m.macTxActive = "DONE"
  BY <1>1 DEF Driver, Keeps, Fields
<1> HIDE DEF m
<1>4. /\ Keeps(d, m, {"macTxActive", "stopM", "csp", "stopF"})
      /\ m.stopM = FALSE /\ m.csp = "idle" /\ m.stopF \in BOOLEAN
  BY <1>1, <1>3 DEF Keeps, Fields
<1>5. Ending(m) /\ Keeps(s, m, TxFields) /\ (RxInStep(s) => RxInStep(m))
  BY <1>3, <1>4, MaskedEnding
<1> QED BY <1>2, <1>5 DEF m

\* MacTxDoneCallback from the interrupt of the strobe processor.
LEMMA DoneOutside ==
  ASSUME NEW due \in BOOLEAN, NEW s, Settled(s, due), s.macTxActive = "GO",
         NEW d, Masked(s, d)
  PROVE  Settled(MacTxDoneCallback(d), due) /\ Calm(s, MacTxDoneCallback(d))
<1> DEFINE t == MacTxDoneCallback(d)
<1>1. Sound(s) /\ Enabled(s) /\ Awaited(s) /\ RxInStep(s) /\ s.stopM = TRUE
  BY DEF Settled, Masked
<1>2. CASE d.txAckReq
  <2>1. /\ Sound(t) /\ Enabled(t) /\ Awaited(t) /\ Keeps(s, t, TxFields)
        /\ t.macTxActive = "LISTEN_FOR_ACK" /\ t.stopM = TRUE /\ RxInStep(t)
    BY <1>1, <1>2, DoneListens
  <2> HIDE DEF t
  <2>2. t.rxIsrActiveFlag = FALSE /\ t.rxResetFlag = FALSE
    BY <2>1 DEF Settled, Sound, Typed, Keeps, TxFields, Fields
  <2>3. Settled(t, due)
    BY <2>1, <2>2 DEF Settled, Tuned, Needed, NeedsReceiver, Queue
  <2> QED BY <1>1, <2>1, <2>3 DEF t, Calm, InCall, InGo
<1>3. CASE ~d.txAckReq
  <2> DEFINE m == [d EXCEPT !.macTxActive = "DONE"]
  <2>1. t = TxComplete(m, "SUCCESS") /\ Ending(m) /\ Keeps(s, m, TxFields) /\ RxInStep(m)
    BY <1>1, <1>3, DoneEnds
  <2> HIDE DEF m
  <2>2. m.rxIsrActiveFlag = FALSE /\ m.rxResetFlag = FALSE
    BY <2>1 DEF Settled, Sound, Typed, Keeps, TxFields, Fields
  <2>3. Ended(t) /\ Settled(t, FALSE)
    BY <2>1, <2>2, TxCompleteOutside
  <2> HIDE DEF t
  <2>4. Settled(t, due)
    BY <2>3 DEF Settled, Needed
  <2> QED BY <1>1, <2>3, <2>4 DEF t, Ended, Calm, InCall, InGo
<1> QED BY <1>2, <1>3

\* MacTxDoneCallback forced by a frame that arrives first.
LEMMA DoneInside ==
  ASSUME NEW s, Working(s), s.macRxActive = "STARTED", s.macTxActive = "GO",
         NEW d, Masked(s, d)
  PROVE  /\ Working(MacTxDoneCallback(d)) /\ Keeps(s, MacTxDoneCallback(d), TxInIsr)
         /\ Calm(s, MacTxDoneCallback(d)) /\ SameOrReset(s, MacTxDoneCallback(d))
<1> DEFINE t == MacTxDoneCallback(d)
<1>1. Sound(s) /\ Enabled(s) /\ Awaited(s) /\ s.stopM = TRUE /\ s.rxIsrActiveFlag = TRUE
  BY DEF Working, Masked
<1>2. CASE d.txAckReq
  <2>1. /\ Sound(t) /\ Enabled(t) /\ Awaited(t) /\ Keeps(s, t, TxFields)
        /\ t.macTxActive = "LISTEN_FOR_ACK" /\ t.stopM = TRUE
    BY <1>1, <1>2, DoneListens
  <2> HIDE DEF t
  <2>2. t.rxIsrActiveFlag = TRUE /\ SameOrReset(s, t)
    BY <1>1, <2>1 DEF Keeps, TxFields, Fields, SameOrReset
  <2>3. Working(t) /\ Calm(s, t)
    BY <1>1, <2>1, <2>2 DEF Working, Tuned, Calm, InCall, InGo
  <2>4. Keeps(s, t, TxInIsr)
    BY <2>1 DEF Keeps, TxInIsr
  <2> QED BY <2>2, <2>3, <2>4 DEF t
<1>3. CASE ~d.txAckReq
  <2> DEFINE m == [d EXCEPT !.macTxActive = "DONE"]
  <2>1. t = TxComplete(m, "SUCCESS") /\ Ending(m) /\ Keeps(s, m, TxFields)
    BY <1>1, <1>3, DoneEnds
  <2> HIDE DEF m
  <2>2. /\ m.rxIsrActiveFlag = TRUE /\ m.macRxActive = "STARTED" /\ m.fifo = s.fifo
        /\ m.air = s.air /\ m.overflow = s.overflow /\ m.rxResetFlag = s.rxResetFlag
    BY <1>1, <2>1 DEF Keeps, TxFields, Fields
  <2>3. Ended(t) /\ Keeps(m, t, Completes) /\ SameOrReset(m, t)
    BY ZenonT(40), <2>1, <2>2, TxCompleteInside DEF SameOrReset
  <2> HIDE DEF t
  <2>4. t.rxIsrActiveFlag = TRUE
    BY <2>2, <2>3 DEF Keeps, Completes, Receiver, Fields
  <2>5. Working(t) /\ Calm(s, t)
    BY <1>1, <2>3, <2>4 DEF Working, Ended, Calm, InCall, InGo
  <2>6. Keeps(s, t, TxInIsr)
    BY <2>1, <2>3 DEF Keeps, TxInIsr
  <2>7. SameOrReset(s, t)
    BY <2>2, <2>3 DEF SameOrReset
  <2> QED BY <2>5, <2>6, <2>7 DEF t
<1> QED BY <1>2, <1>3

\* A busy channel is tried again after another backoff, or given up.
LEMMA BusyOutside ==
  ASSUME NEW due \in BOOLEAN, NEW s, Settled(s, due), s.macTxActive = "GO",
         NEW d, Masked(s, d)
  PROVE  Settled(MacTxChannelBusyCallback(d), due) /\ Calm(s, MacTxChannelBusyCallback(d))
<1> DEFINE m == [d EXCEPT !.macTxActive = "CHANNEL_BUSY"]
           b == MacRxOffRequest(m)
           n == [b EXCEPT !.nb = @ + 1]
           g == CspTxGoCsma([CspPrepForTxProgram(n) EXCEPT !.macTxActive = "GO"])
           t == MacTxChannelBusyCallback(d)
<1>1. /\ Sound(s) /\ Enabled(s) /\ Awaited(s) /\ RxInStep(s) /\ s.stopM = TRUE
      /\ s.rxIsrActiveFlag = FALSE /\ s.rxResetFlag = FALSE /\ s.nb \in 0 .. MaxBackoffs
  BY BoundsAssumption DEF Settled, Masked, Sound, Typed, Transmit
<1>2. Driver(d) /\ d.stopM = FALSE /\ d.stopF \in BOOLEAN /\ d.csp = "idle"
  BY DEF Masked, Keeps, Fields
<1>3. Keeps(d, m, {"macTxActive"}) /\ m.macTxActive = "CHANNEL_BUSY"
  BY <1>2 DEF Driver, Keeps, Fields
<1>4. t = IF TooOftenBusy(n) THEN TxComplete(n, "CHANNEL_ACCESS_FAILURE") ELSE g
  BY DEF MacTxChannelBusyCallback
<1> HIDE DEF m, b, n, g, t
<1>5. /\ Keeps(d, m, {"macTxActive", "stopM", "csp", "stopF"})
      /\ m.stopM = FALSE /\ m.csp = "idle" /\ m.stopF \in BOOLEAN
  BY <1>2, <1>3 DEF Keeps, Fields
<1>6. Ending(m) /\ Keeps(s, m, TxFields) /\ RxInStep(m)
  BY <1>1, <1>3, <1>5, MaskedEnding
<1>7. /\ Sound(b) /\ Keeps(m, b, Receiver) /\ Flow(m, b)
      /\ NeedsReceiver(m) => b = m
  BY <1>6, RxOffRequestEffect DEF b, Ending
<1>8. /\ b.macTxActive = "CHANNEL_BUSY" /\ b.stopM = FALSE /\ b.csp = "idle"
      /\ b.nb = s.nb /\ b.wanted = m.wanted /\ b.macRxActive = m.macRxActive
      /\ b.macRxEnableFlags = m.macRxEnableFlags /\ b.rxState = m.rxState
      /\ b.pRxBuf = m.pRxBuf /\ b.rxUnread = m.rxUnread
      /\ b.rxIsrActiveFlag = FALSE /\ b.rxResetFlag = FALSE
  <2>1. m.nb = s.nb /\ m.rxIsrActiveFlag = FALSE /\ m.rxResetFlag = FALSE
    BY <1>1, <1>3 DEF Masked, Keeps, Fields
  <2> QED BY <1>3, <1>5, <1>7, <2>1 DEF Keeps, Receiver, Fields
<1>9. Enabled(b)
  BY <1>6, <1>7, <1>8 DEF Ending, Enabled, NeedsReceiver
<1>10. RxInStep(b)
  <2>1. m.macRxActive = "STARTED" => b.fifo = m.fifo /\ b.air = m.air /\ b.overflow = m.overflow
    BY <1>7 DEF NeedsReceiver
  <2> QED BY <1>6, <1>7, <1>8, <2>1, FlowInStep
<1>11. /\ Keeps(b, n, {"nb"}) /\ n.nb = s.nb + 1
  <2>1. Driver(b)
    BY <1>7 DEF Keeps
  <2> QED BY <1>8, <2>1 DEF n, Driver, Keeps, Fields
<1>12. /\ n.macTxActive = "CHANNEL_BUSY" /\ n.stopM = FALSE /\ n.csp = "idle"
       /\ n.wanted # 0 /\ n.rxIsrActiveFlag = FALSE /\ n.rxResetFlag = FALSE
       /\ n.stopF \in BOOLEAN
  BY SMTT(20), <1>6, <1>7, <1>8, <1>11 DEF Ending, Sound, Typed, Keeps, Fields
<1>13. Sound(n) /\ Enabled(n) /\ RxInStep(n)
  <2>1. Transmit(n)
    BY <1>7, <1>11, <1>12 DEF Sound, Transmit, Keeps, Fields
  <2>2. Keeps(b, n, TxFields)
    BY <1>11 DEF Keeps, TxFields
  <2>3. n.nb \in 0 .. MaxBackoffs + 1
    BY <1>1, <1>11, BoundsAssumption
  <2> QED BY <1>7, <1>9, <1>10, <1>12, <2>1, <2>2, <2>3, TxOnly
<1>14. CASE TooOftenBusy(n)
  <2>1. Ending(n)
    BY <1>12, <1>13 DEF Ending
  <2>2. Ended(t) /\ Settled(t, FALSE)
    BY <1>4, <1>12, <1>13, <1>14, <2>1, TxCompleteOutside
  <2>3. Settled(t, due)
    BY <2>2 DEF Settled, Needed
  <2> QED BY <1>1, <2>2, <2>3 DEF t, Ended, Calm, InCall, InGo
<1>15. CASE ~TooOftenBusy(n)
  <2>1. t = g /\ n.nb \in 0 .. MaxBackoffs
    BY <1>1, <1>4, <1>11, <1>15, BoundsAssumption DEF TooOftenBusy
  <2>2. Driver(n)
    BY <1>13 DEF Sound
  <2> DEFINE p == CspPrepForTxProgram(n)
             q == [p EXCEPT !.macTxActive = "GO"]
  <2>3. /\ Keeps(n, p, {"cspz", "csp", "stopF", "intF"})
        /\ p.cspz = "BUSY" /\ p.stopF = FALSE
    <3>1. p = [n EXCEPT !.cspz = "BUSY", !.csp = "idle", !.stopF = FALSE, !.intF = FALSE]
      BY <1>12 DEF CspPrepForTxProgram, Require
    <3> HIDE DEF p
    <3> QED BY ZenonT(40), <2>2, <3>1 DEF Driver, Keeps, Fields
  <2>12. t = CspTxGoCsma(q)
    BY <2>1 DEF g
  <2> HIDE DEF p
  <2>13. Keeps(p, q, {"macTxActive"}) /\ q.macTxActive = "GO"
    BY <2>3 DEF Driver, Keeps, Fields
  <2> HIDE DEF q
  <2>14. /\ Keeps(q, t, {"macRxOnFlag", "stopM", "intM", "csp"})
         /\ t.macRxOnFlag = TRUE /\ t.stopM = TRUE /\ t.csp = "csma"
    <3>1. t = [q EXCEPT !.macRxOnFlag = TRUE, !.stopM = TRUE, !.intM = TRUE, !.csp = "csma"]
      BY <2>12 DEF CspTxGoCsma, MacRxOn
    <3> QED BY ZenonT(40), <2>13, <3>1 DEF Driver, Keeps, Fields
  <2>4. Keeps(n, t, TxFields \cup {"macRxOnFlag"})
    BY <2>3, <2>13, <2>14 DEF Keeps, TxFields
  <2>5. /\ t.cspz = "BUSY" /\ t.stopF = FALSE /\ t.macTxActive = "GO" /\ t.macRxOnFlag = TRUE
        /\ t.stopM = TRUE /\ t.csp = "csma" /\ t.nb = n.nb
    BY <2>3, <2>13, <2>14 DEF Keeps, Fields
  <2>6. Transmit(t)
    BY <1>13, <2>1, <2>4, <2>5 DEF Sound, Transmit, Keeps, TxFields, Fields
  <2>7. Typed(t)
    <3>1. Typed(n)
      BY <1>13 DEF Sound
    <3>2. RxTyped(t)
      <4>1. RxTyped(n)
        BY <1>13, SoundIsTyped
      <4>2. \A x \in RxFields \ {"macRxOnFlag"} : t[x] = n[x]
        BY <2>4 DEF Keeps, RxFields, Receiver, TxFields, Fields
      <4> QED BY <2>5, <4>1, <4>2 DEF RxTyped, RxFields, Receiver
    <3>3. /\ t.macRxEnableFlags = n.macRxEnableFlags /\ t.asleep = n.asleep
          /\ t.reqChannel = n.reqChannel /\ t.wanted = n.wanted /\ t.sent = n.sent
      BY <2>4 DEF Keeps, TxFields, Fields
    <3> QED BY <3>1, <3>2, <3>3, <2>5 DEF Typed, RxTyped
  <2>8. Sound(t) /\ Enabled(t)
    BY <2>4, <2>5, <2>6, <2>7 DEF Sound, Receiving, Enabled, Keeps
  <2>9. RxInStep(t)
    <3>1. /\ t.fifo = n.fifo /\ t.air = n.air /\ t.overflow = n.overflow
          /\ t.macRxActive = n.macRxActive /\ t.rxState = n.rxState /\ t.pRxBuf = n.pRxBuf
          /\ t.rxUnread = n.rxUnread
      BY <2>4 DEF Keeps, TxFields, Fields
    <3> QED BY <1>13, <3>1, FlowInStep DEF Flow
  <2>10. t.wanted # 0 /\ t.rxIsrActiveFlag = FALSE /\ t.rxResetFlag = FALSE
    BY <1>12, <2>4 DEF Keeps, TxFields, Fields
  <2>11. Settled(t, due)
    BY <2>5, <2>8, <2>9, <2>10 DEF Settled, Awaited, Tuned, Needed, NeedsReceiver, Queue
  <2> QED BY <1>1, <2>5, <2>11 DEF t, Calm, InCall, InGo
<1> QED BY <1>14, <1>15

\* macCspTxStopIsr
LEMMA StopIsrEffect ==
  ASSUME NEW due \in BOOLEAN, NEW s, Settled(s, due), s.stopF, s.stopM
  PROVE  Settled(CspTxStopIsr(s), due) /\ Calm(s, CspTxStopIsr(s))
<1> DEFINE d == [s EXCEPT !.stopF = FALSE, !.stopM = FALSE]
           m == CspTxCancelAckTimeout([d EXCEPT !.macTxActive = "POST_ACK"])
           t == CspTxStopIsr(s)
<1>1. Sound(s) /\ Enabled(s) /\ Awaited(s) /\ RxInStep(s) /\ Driver(s) /\ s.stopM = TRUE
  BY DEF Settled, Sound, Typed
<1>2. s.macTxActive \in {"GO", "LISTEN_FOR_ACK"} /\ s.csp = "idle"
  BY <1>1 DEF Sound, Transmit
<1>3. Keeps(s, d, {"stopF", "stopM"}) /\ d.stopF = FALSE /\ d.stopM = FALSE
  BY <1>1 DEF Driver, Keeps, Fields
<1>4. /\ d.cspz = "DONE" => t = MacTxDoneCallback(d)
      /\ d.cspz = "BUSY" => t = MacTxChannelBusyCallback(d)
      /\ d.cspz \notin {"DONE", "BUSY"} => t = MacTxAckEnd(d, "NO_ACK")
  BY DEF CspTxStopIsr
<1> HIDE DEF d, t
<1>5. Masked(s, d) /\ d.cspz = s.cspz /\ d.macTxActive = s.macTxActive
  BY <1>1, <1>2, <1>3 DEF Masked, Keeps, Fields
<1>6. CASE s.macTxActive = "GO"
  <2>1. d.cspz \in {"BUSY", "DONE"}
    BY <1>1, <1>5, <1>6 DEF Sound, Transmit
  <2> QED BY <1>4, <1>5, <1>6, <2>1, DoneOutside, BusyOutside DEF t
<1>7. CASE s.macTxActive = "LISTEN_FOR_ACK"
  <2>1. t = TxComplete(m, "NO_ACK")
    BY <1>1, <1>4, <1>5, <1>7 DEF MacTxAckEnd, Sound, Transmit
  <2>2. /\ Keeps(d, m, {"macTxActive", "stopM", "csp", "stopF"})
        /\ m.macTxActive = "POST_ACK" /\ m.stopM = FALSE /\ m.csp = "idle" /\ m.stopF = TRUE
    <3>1. Driver(d)
      BY <1>3 DEF Keeps
    <3>2. Keeps(d, m, {"macTxActive", "stopM", "csp", "stopF"})
      BY ZenonT(40), <3>1 DEF CspTxCancelAckTimeout, Driver, Keeps, Fields
    <3> QED BY <3>1, <3>2 DEF CspTxCancelAckTimeout, Driver, Fields
  <2> HIDE DEF m
  <2>3. Ending(m) /\ Keeps(s, m, TxFields) /\ RxInStep(m)
    BY <1>1, <1>5, <2>2, MaskedEnding
  <2>4. m.rxIsrActiveFlag = FALSE /\ m.rxResetFlag = FALSE
    BY <2>3 DEF Settled, Sound, Typed, Keeps, TxFields, Fields
  <2>5. Ended(t) /\ Settled(t, FALSE)
    BY <2>1, <2>3, <2>4, TxCompleteOutside
  <2>6. Settled(t, due)
    BY <2>5 DEF Settled, Needed
  <2> QED BY <1>1, <1>7, <2>5, <2>6 DEF t, Ended, Calm, InCall, InGo
<1> QED BY <1>2, <1>6, <1>7

-----------------------------------------------------------------------------
(* The segments of a frame                                                  *)

\* The segments of a frame.
LEMMA SegmentsAreSegs ==
  ASSUME NEW f \in Frames
  PROVE  /\ Segments(f) \in Segs /\ Segments(f) # <<>>
         /\ f.ack => /\ Head(Segments(f)).part = "ack" /\ Tail(Segments(f)) = <<>>
         /\ ~f.ack => /\ Len(Segments(f)) = f.payload + 3
                      /\ Head(Segments(f)).part = "hdr"
         /\ \A i \in 1 .. Len(Segments(f)) : Segments(f)[i].of = f
         /\ ~f.ack => \A i \in 1 .. Len(Segments(f)) :
              Segments(f)[i].part = CASE i = 1 -> "hdr" [] i = 2 -> "addr"
                                      [] i = f.payload + 3 -> "fcs" [] OTHER -> "payload"
<1>1. f.payload \in Nat /\ f.ack \in BOOLEAN
  BY FramesAssumption
<1>2. CASE f.ack
  <2>1. Segments(f) = <<[part |-> "ack", of |-> f]>>
    BY <1>2 DEF Segments
  <2> QED BY <1>2, <2>1 DEF Segs, Parts
<1>3. CASE ~f.ack
  <2> DEFINE part(i) == CASE i = 1 -> "hdr" [] i = 2 -> "addr"
                          [] i = f.payload + 3 -> "fcs" [] OTHER -> "payload"
             seg(i) == [part |-> part(i), of |-> f]
             S == [part : Parts, of : Frames]
  <2>1. Segments(f) = [i \in 1 .. f.payload + 3 |-> seg(i)]
    BY <1>3 DEF Segments
  <2>2. \A i \in 1 .. f.payload + 3 : part(i) \in Parts
    BY DEF Parts
  <2>3. part(1) = "hdr"
    BY <1>1
  <2>4. \A i \in 1 .. f.payload + 3 : seg(i) \in S /\ seg(i).of = f /\ seg(i).part = part(i)
    <3> HIDE DEF part
    <3> QED BY <2>2
  <2>5. f.payload + 3 \in Nat /\ 1 \in 1 .. f.payload + 3
    BY <1>1
  <2> HIDE DEF seg, S
  <2>6. Segments(f) \in [1 .. f.payload + 3 -> S]
    BY <2>1, <2>4
  <2>7. Segments(f) \in Seq(S)
    BY <2>5, <2>6, SeqDef
  <2>8. Len(Segments(f)) = f.payload + 3
    BY <2>5, <2>6, <2>7, LenProperties
  <2>9. Segments(f) # <<>> /\ Head(Segments(f)) = seg(1)
    BY <2>1, <2>5, <2>7, <2>8
  <2>10. Head(Segments(f)).part = "hdr"
    BY <2>3, <2>4, <2>5, <2>9
  <2>11. \A i \in 1 .. f.payload + 3 : Segments(f)[i].of = f /\ Segments(f)[i].part = part(i)
    BY <2>1, <2>4
  <2> QED BY <1>3, <2>7, <2>8, <2>9, <2>10, <2>11 DEF S, Segs
<1> QED BY <1>1, <1>2, <1>3

\* The last segments of a frame.
LEMMA RestIs ==
  ASSUME NEW f \in Frames, ~f.ack, NEW n \in 0 .. f.payload + 3
  PROVE  /\ Rest(f, n) \in Segs /\ Len(Rest(f, n)) = n
         /\ \A i \in 1 .. n : Rest(f, n)[i] = Segments(f)[f.payload + 3 - n + i]
<1>1. f.payload \in Nat
  BY FramesAssumption
<1>2. /\ Segments(f) \in Segs /\ Len(Segments(f)) = f.payload + 3
  BY SegmentsAreSegs
<1>3. \A i \in 1 .. n : f.payload + 3 - n + i \in 1 .. f.payload + 3
  BY <1>1
<1> DEFINE S == [part : Parts, of : Frames]
<1>4. \A i \in 1 .. n : Segments(f)[f.payload + 3 - n + i] \in S
  <2>1. \A j \in 1 .. f.payload + 3 : Segments(f)[j] \in S
    BY <1>2, ElementOfSeq DEF Segs
  <2> QED BY <1>3, <2>1
<1>5. n \in Nat
  BY <1>1
<1> HIDE DEF S
<1>6. Rest(f, n) \in [1 .. n -> S]
  BY <1>4 DEF Rest
<1>7. Rest(f, n) \in Seq(S)
  BY <1>5, <1>6, SeqDef
<1>8. Len(Rest(f, n)) = n
  BY <1>5, <1>6, <1>7, LenProperties
<1> QED BY <1>7, <1>8 DEF Rest, Segs, S

\* Reading a segment of the rest of a frame.
LEMMA RestTail ==
  ASSUME NEW f \in Frames, ~f.ack, NEW n \in 1 .. f.payload + 3, NEW q \in Segs
  PROVE  /\ Rest(f, n) \o q # <<>>
         /\ Head(Rest(f, n) \o q) = Segments(f)[f.payload + 4 - n]
         /\ Tail(Rest(f, n) \o q) = Rest(f, n - 1) \o q
<1> DEFINE S == [part : Parts, of : Frames]
           a == Rest(f, n)
           b == Rest(f, n - 1)
<1>1. f.payload \in Nat
  BY FramesAssumption
<1>2. a \in Seq(S) /\ Len(a) = n /\ \A i \in 1 .. n : a[i] = Segments(f)[f.payload + 3 - n + i]
  <2>1. n \in 0 .. f.payload + 3
    BY <1>1
  <2> QED BY <2>1, RestIs DEF Segs
<1>3. /\ b \in Seq(S) /\ Len(b) = n - 1
      /\ \A i \in 1 .. n - 1 : b[i] = Segments(f)[f.payload + 3 - (n - 1) + i]
  <2>1. n - 1 \in 0 .. f.payload + 3
    BY <1>1
  <2> QED BY <2>1, RestIs DEF Segs
<1>4. q \in Seq(S)
  BY DEF Segs
<1> HIDE DEF S, a, b
<1>5. /\ a \o q \in Seq(S) /\ Len(a \o q) = n + Len(q)
      /\ \A i \in 1 .. n + Len(q) : (a \o q)[i] = IF i <= n THEN a[i] ELSE q[i - n]
  BY <1>2, <1>4, ConcatProperties
<1>6. /\ b \o q \in Seq(S) /\ Len(b \o q) = n - 1 + Len(q)
      /\ \A i \in 1 .. n - 1 + Len(q) :
           (b \o q)[i] = IF i <= n - 1 THEN b[i] ELSE q[i - (n - 1)]
  <2>1. /\ b \o q \in Seq(S) /\ Len(b \o q) = Len(b) + Len(q)
        /\ \A i \in 1 .. Len(b) + Len(q) : (b \o q)[i] = IF i <= Len(b) THEN b[i] ELSE q[i - Len(b)]
    BY <1>3, <1>4, ConcatProperties
  <2>2. Len(b) = n - 1
    BY <1>3
  <2> QED BY <2>1, <2>2
<1>7. Len(q) \in Nat
  BY <1>4, LenProperties
<1>8. a \o q # <<>> /\ Head(a \o q) = (a \o q)[1]
  <2>1. Len(a \o q) # 0
    BY <1>1, <1>5, <1>7
  <2> QED BY <1>5, <2>1, EmptySeq
<1>9. Head(a \o q) = Segments(f)[f.payload + 4 - n]
  BY SMTT(20), <1>1, <1>2, <1>5, <1>7, <1>8
<1>10. /\ Tail(a \o q) \in Seq(S) /\ Len(Tail(a \o q)) = n - 1 + Len(q)
       /\ \A i \in 1 .. n - 1 + Len(q) : Tail(a \o q)[i] = (a \o q)[i + 1]
  <2>1. /\ Tail(a \o q) \in Seq(S) /\ Len(Tail(a \o q)) = Len(a \o q) - 1
        /\ \A i \in 1 .. Len(Tail(a \o q)) : Tail(a \o q)[i] = (a \o q)[i + 1]
    BY <1>5, <1>8, HeadTailProperties
  <2>2. Len(a \o q) - 1 = n - 1 + Len(q)
    BY <1>1, <1>5, <1>7
  <2> QED BY <2>1, <2>2
<1>11. \A i \in 1 .. n - 1 + Len(q) : Tail(a \o q)[i] = (b \o q)[i]
  <2> TAKE i \in 1 .. n - 1 + Len(q)
  <2>1. CASE i <= n - 1
    <3>1. a[i + 1] = Segments(f)[f.payload + 3 - n + (i + 1)]
      BY <1>2, <2>1
    <3>2. b[i] = Segments(f)[f.payload + 3 - (n - 1) + i]
      BY <1>3, <2>1
    <3>3. f.payload + 3 - n + (i + 1) = f.payload + 3 - (n - 1) + i
      BY SMTT(20), <1>1
    <3> QED BY <1>5, <1>6, <1>7, <1>10, <2>1, <3>1, <3>2, <3>3
  <2>2. CASE ~(i <= n - 1)
    <3>1. (i + 1) - n = i - (n - 1) /\ ~(i + 1 <= n) /\ i + 1 \in 1 .. n + Len(q)
      BY <1>7, <2>2
    <3> QED BY <1>5, <1>6, <1>10, <2>2, <3>1
  <2> QED BY <2>1, <2>2
<1>12. Tail(a \o q) = b \o q
  BY <1>6, <1>10, <1>11, SeqEqual
<1> QED BY <1>8, <1>9, <1>12 DEF a, b

\* All of a frame is still to come ...
LEMMA RestWhole ==
  ASSUME NEW f \in Frames, ~f.ack
  PROVE  Segments(f) = Rest(f, f.payload + 3) \o <<>>
<1>1. f.payload \in Nat
  BY FramesAssumption
<1>2. /\ Rest(f, f.payload + 3) \in Segs /\ Len(Rest(f, f.payload + 3)) = f.payload + 3
      /\ \A i \in 1 .. f.payload + 3 :
           Rest(f, f.payload + 3)[i] = Segments(f)[f.payload + 3 - (f.payload + 3) + i]
  <2>1. f.payload + 3 \in 0 .. f.payload + 3
    BY <1>1
  <2> QED BY <2>1, RestIs
<1>3. Segments(f) \in Segs /\ Len(Segments(f)) = f.payload + 3
  BY SegmentsAreSegs
<1>4. \A i \in 1 .. f.payload + 3 : f.payload + 3 - (f.payload + 3) + i = i
  BY <1>1
<1>5. Segments(f) = Rest(f, f.payload + 3)
  BY <1>2, <1>3, <1>4, SeqEqual DEF Segs
<1> QED BY <1>2, <1>5, ConcatEmptySeq DEF Segs

\* ... and nothing of it is.
LEMMA RestNone ==
  ASSUME NEW f \in Frames, NEW q \in Segs
  PROVE  Rest(f, 0) \o q = q
<1>1. Rest(f, 0) = <<>>
  BY DEF Rest
<1> QED BY <1>1, ConcatEmptySeq DEF Segs

\* The receive FIFO goes on where the air begins.
LEMMA PopStream ==
  ASSUME NEW x \in Segs, NEW y \in Segs, x # <<>>
  PROVE  /\ x \o y # <<>> /\ Head(x) = Head(x \o y) /\ Tail(x) \o y = Tail(x \o y)
         /\ Head(x) \in [part : Parts, of : Frames] /\ Tail(x) \in Segs
         /\ Len(Tail(x)) = Len(x) - 1
<1> DEFINE S == [part : Parts, of : Frames]
<1>1. x \in Seq(S) /\ y \in Seq(S)
  BY DEF Segs
<1> HIDE DEF S
<1>2. /\ Head(x) \in S /\ Tail(x) \in Seq(S) /\ Len(Tail(x)) = Len(x) - 1
      /\ \A i \in 1 .. Len(x) - 1 : Tail(x)[i] = x[i + 1]
  BY <1>1, HeadTailProperties
<1>3. Len(x) \in Nat /\ Len(x) # 0 /\ Len(y) \in Nat /\ Head(x) = x[1]
  BY <1>1, EmptySeq, LenProperties
<1>4. /\ x \o y \in Seq(S) /\ Len(x \o y) = Len(x) + Len(y)
      /\ \A i \in 1 .. Len(x) + Len(y) : (x \o y)[i] = IF i <= Len(x) THEN x[i] ELSE y[i - Len(x)]
  BY <1>1, ConcatProperties
<1>5. x \o y # <<>> /\ Head(x \o y) = (x \o y)[1]
  BY <1>3, <1>4
<1>6. /\ Tail(x \o y) \in Seq(S) /\ Len(Tail(x \o y)) = Len(x) + Len(y) - 1
      /\ \A i \in 1 .. Len(x) + Len(y) - 1 : Tail(x \o y)[i] = (x \o y)[i + 1]
  BY <1>3, <1>4, <1>5, HeadTailProperties
<1>7. /\ Tail(x) \o y \in Seq(S) /\ Len(Tail(x) \o y) = Len(x) - 1 + Len(y)
      /\ \A i \in 1 .. Len(x) - 1 + Len(y) :
           (Tail(x) \o y)[i] = IF i <= Len(x) - 1 THEN Tail(x)[i] ELSE y[i - (Len(x) - 1)]
  BY <1>1, <1>2, ConcatProperties
<1>8. \A i \in 1 .. Len(x) - 1 + Len(y) : (Tail(x) \o y)[i] = Tail(x \o y)[i]
  <2> TAKE i \in 1 .. Len(x) - 1 + Len(y)
  <2>1. CASE i <= Len(x) - 1
    BY <1>2, <1>3, <1>4, <1>6, <1>7, <2>1
  <2>2. CASE ~(i <= Len(x) - 1)
    <3>1. (i + 1) - Len(x) = i - (Len(x) - 1) /\ i + 1 \in 1 .. Len(x) + Len(y) /\ ~(i + 1 <= Len(x))
      BY <1>3, <2>2
    <3> QED BY <1>3, <1>4, <1>6, <1>7, <2>2, <3>1
  <2> QED BY <2>1, <2>2
<1>9. Tail(x) \o y = Tail(x \o y)
  BY <1>3, <1>6, <1>7, <1>8, SeqEqual
<1>10. Head(x) = Head(x \o y)
  BY <1>3, <1>4, <1>5
<1> QED BY <1>2, <1>5, <1>9, <1>10 DEF S, Segs

-----------------------------------------------------------------------------
(* Within the receive interrupt                                             *)

\* What the states of the receive state machine leave.
InIsr(s, due) ==
  /\ Working(s) /\ Needed(s, due) /\ Queue(s)
  /\ s.rxResetFlag \/ RxInStep(s)

\* The fields they change themselves.
RxLocal == {"macRxActive", "macRxOutgoingAckFlag", "rxState", "pRxBuf", "rxUnread",
            "rxResetFlag", "ackM", "ackF", "nack", "fifo", "air", "overflow"}

\* A change of the receive fields only.
LEMMA RxLocalEffect ==
  ASSUME NEW s, Working(s), NEW t, Keeps(s, t, RxLocal), RxTyped(t), Receiving(t)
  PROVE  Working(t) /\ Calm(s, t)
<1>1. Keeps(s, t, RxFields)
  BY DEF Keeps, RxLocal, RxFields, Receiver
<1>2. Sound(t)
  BY <1>1, RxOnly DEF Working
<1>3. /\ t.macRxEnableFlags = s.macRxEnableFlags /\ t.macRxOnFlag = s.macRxOnFlag
      /\ t.wanted = s.wanted /\ t.macTxActive = s.macTxActive /\ t.stopM = s.stopM
      /\ t.macPhyChannel = s.macPhyChannel /\ t.reqChannel = s.reqChannel
      /\ t.rxIsrActiveFlag = s.rxIsrActiveFlag
      /\ t.cspz = s.cspz /\ t.stopF = s.stopF /\ t.nb = s.nb
  BY DEF Keeps, RxLocal, Fields
<1> QED BY <1>2, <1>3 DEF Working, Enabled, Awaited, Tuned, Calm, InCall, InGo

\* rxDone settles the receive state machine for the next frame.
LEMMA RxDoneEffect ==
  ASSUME NEW due \in BOOLEAN, NEW s, Working(s), s.rxState = "start", s.pRxBuf = FALSE,
         s.rxResetFlag \/ s.overflow \/ AtMostAFrame(s.fifo \o s.air)
  PROVE  InIsr(RxDone(s), due) /\ Calm(s, RxDone(s))
<1> DEFINE m == IF s.overflow THEN FlushRxFifo(s) ELSE s
           d == [m EXCEPT !.macRxActive = "NO_ACTIVITY"]
           t == RxDone(s)
<1>1. Driver(s) /\ RxTyped(s)
  BY SoundIsTyped DEF Working
<1>2. /\ Keeps(s, m, {"fifo", "air", "overflow"})
      /\ s.overflow => m.fifo = <<>> /\ m.air = <<>> /\ m.overflow = FALSE
      /\ ~s.overflow => m = s
  <2>1. Keeps(s, m, {"fifo", "air", "overflow"})
    BY ZenonT(40), <1>1 DEF FlushRxFifo, Driver, Keeps, Fields
  <2> QED BY <1>1, <2>1 DEF FlushRxFifo, Driver, Fields
<1>3. t = IF d.macRxOutgoingAckFlag THEN d ELSE RxPostRxUpdates(d)
  BY DEF RxDone
<1> HIDE DEF m
<1>4. Keeps(m, d, {"macRxActive"}) /\ d.macRxActive = "NO_ACTIVITY"
  BY <1>2 DEF Driver, Keeps, Fields
<1> HIDE DEF d, t
<1>5. /\ d.rxState = "start" /\ d.pRxBuf = FALSE /\ d.rxResetFlag = s.rxResetFlag
      /\ d.fifo = m.fifo /\ d.air = m.air /\ d.overflow = m.overflow
      /\ d.macRxOnFlag = s.macRxOnFlag /\ d.macRxOutgoingAckFlag \in BOOLEAN
  BY <1>1, <1>2, <1>4 DEF Keeps, Fields, RxTyped
<1>6. Working(d) /\ Calm(s, d)
  <2>1. Keeps(s, d, RxLocal)
    BY <1>2, <1>4 DEF Keeps, RxLocal
  <2>2. RxTyped(m)
    BY <1>1, <1>2, Emptied DEF RxTyped, Keeps, Fields
  <2>3. RxTyped(d)
    BY <1>4, <2>2 DEF RxTyped, Keeps, Fields
  <2>4. Receiving(d)
    BY <1>1, <1>2, <1>5 DEF Working, Sound, Receiving, RxTyped
  <2> QED BY <2>1, <2>3, <2>4, RxLocalEffect
<1>7. d.rxResetFlag \/ RxInStep(d)
  <2>1. d.overflow \/ d.rxResetFlag \/ AtMostAFrame(d.fifo \o d.air)
    <3>1. CASE s.overflow
      <4>1. <<>> \o <<>> = <<>>
        BY Emptied, ConcatEmptySeq DEF Segs
      <4> QED BY <1>2, <1>5, <3>1, <4>1 DEF AtMostAFrame
    <3>2. CASE ~s.overflow
      BY <1>2, <1>5, <3>2
    <3> QED BY <3>1, <3>2
  <2> QED BY <1>4, <1>5, <2>1 DEF RxInStep, Stream
<1>8. CASE d.macRxOutgoingAckFlag
  BY <1>3, <1>6, <1>7, <1>8 DEF InIsr, Needed, NeedsReceiver, Queue, t
<1>9. CASE d.macRxOutgoingAckFlag = FALSE
  <2>1. /\ Sound(t) /\ Keeps(d, t, Receiver \cup Starting) /\ Flow(d, t) /\ Moves(d, t)
        /\ Needed(t, FALSE) /\ t.macTxActive # "QUEUED" /\ Enabled(t)
    BY <1>3, <1>4, <1>6, <1>9, PostRxEffect DEF Working
  <2>2. /\ t.rxIsrActiveFlag = d.rxIsrActiveFlag /\ t.rxResetFlag = d.rxResetFlag
        /\ t.wanted = d.wanted /\ t.macPhyChannel = d.macPhyChannel
        /\ t.reqChannel = d.reqChannel /\ t.macRxActive = d.macRxActive
        /\ t.rxState = d.rxState /\ t.pRxBuf = d.pRxBuf /\ t.rxUnread = d.rxUnread
        /\ t.cspz = d.cspz /\ t.stopF = d.stopF /\ t.nb = d.nb
    BY <2>1 DEF Keeps, Receiver, Starting, Fields
  <2>3. Working(t)
    BY <1>6, <2>1, <2>2 DEF Working, Moves, Awaited, Tuned
  <2>4. Calm(d, t)
    BY <2>1, <2>2 DEF Moves, Calm, InCall, InGo
  <2>5. RxInStep(d) => RxInStep(t)
    BY <1>4, <2>1, <2>2, FlowInStep
  <2>6. Needed(t, due) /\ Queue(t)
    BY <2>1 DEF Needed, Queue
  <2> QED BY <1>6, <1>7, <2>2, <2>3, <2>4, <2>5, <2>6 DEF InIsr, Calm, t
<1> QED BY <1>5, <1>8, <1>9

\* A segment is read.
Pop(s) == [s EXCEPT !.fifo = Tail(@)]

\* Reading a segment of the FIFO.
LEMMA PopEffect ==
  ASSUME NEW s, Working(s), s.fifo # <<>>
  PROVE  /\ Keeps(s, Pop(s), {"fifo"}) /\ Pop(s).fifo = Tail(s.fifo)
         /\ Working(Pop(s)) /\ Calm(s, Pop(s)) /\ RxTyped(Pop(s))
         /\ Head(s.fifo).of \in Frames /\ s.macRxOnFlag
         /\ s.fifo \o s.air # <<>> /\ Head(s.fifo) = Head(s.fifo \o s.air)
         /\ Pop(s).fifo \o Pop(s).air = Tail(s.fifo \o s.air)
<1> DEFINE t == Pop(s)
<1>1. Driver(s) /\ RxTyped(s)
  BY SoundIsTyped DEF Working
<1>2. Keeps(s, t, {"fifo"}) /\ t.fifo = Tail(s.fifo)
  BY <1>1 DEF Pop, Driver, Keeps, Fields
<1> HIDE DEF t
<1>3. /\ s.fifo \o s.air # <<>> /\ Head(s.fifo) = Head(s.fifo \o s.air)
      /\ Tail(s.fifo) \o s.air = Tail(s.fifo \o s.air)
      /\ Head(s.fifo).of \in Frames /\ Tail(s.fifo) \in Segs /\ Len(Tail(s.fifo)) = Len(s.fifo) - 1
  <2>1. s.fifo \in Segs /\ s.air \in Segs
    BY <1>1 DEF RxTyped
  <2> QED BY <2>1, PopStream
<1>4. s.macRxOnFlag
  BY DEF Working, Sound, Receiving
<1>5. Len(s.fifo) \in Nat
  BY <1>1, LenProperties DEF RxTyped, Segs
<1>6. RxTyped(t)
  <2>1. Len(t.fifo) <= FifoSize
    BY <1>1, <1>2, <1>3, <1>5, BoundsAssumption DEF RxTyped
  <2> QED BY <1>1, <1>2, <1>3, <2>1 DEF RxTyped, Keeps, Fields
<1>7. Keeps(s, t, RxLocal) /\ Receiving(t) /\ t.air = s.air
  BY <1>2, <1>4 DEF Keeps, RxLocal, Receiving, Fields
<1>8. Working(t) /\ Calm(s, t)
  BY <1>6, <1>7, RxLocalEffect
<1> QED BY <1>2, <1>3, <1>4, <1>6, <1>7, <1>8 DEF t

\* What is left of the frame that is being read.
LEMMA ReadOn ==
  ASSUME NEW s, Working(s), RxInStep(s), s.fifo # <<>>, s.rxState # "start", ~s.overflow
  PROVE  \E f \in Frames, n \in Nat, q \in Segs :
           /\ Pop(s).fifo \o Pop(s).air = Rest(f, n - 1) \o q /\ AtMostAFrame(q)
           /\ Unread(s, f, n)
<1>1. PICK f \in Frames, n \in Nat, q \in Segs :
        s.fifo \o s.air = Rest(f, n) \o q /\ AtMostAFrame(q) /\ Unread(s, f, n)
  BY DEF RxInStep, Stream
<1>2. n \in 1 .. f.payload + 3 /\ ~f.ack
  BY <1>1, FramesAssumption DEF Unread
<1>3. Tail(s.fifo \o s.air) = Rest(f, n - 1) \o q
  BY <1>1, <1>2, RestTail
<1>4. Pop(s).fifo \o Pop(s).air = Tail(s.fifo \o s.air)
  BY PopEffect
<1> QED BY <1>1, <1>3, <1>4

\* The payload is read, and then what follows it.
LEMMA PrepEffect ==
  ASSUME NEW due \in BOOLEAN, NEW s, Working(s), s.macRxActive = "STARTED", s.pRxBuf = TRUE,
         \/ s.overflow
         \/ \E f \in Frames, q \in Segs :
              /\ ~f.ack /\ s.rxUnread \in 0 .. f.payload
              /\ s.fifo \o s.air = Rest(f, s.rxUnread + 1) \o q /\ AtMostAFrame(q)
  PROVE  InIsr(RxPrepPayload(s), due) /\ Calm(s, RxPrepPayload(s))
<1> DEFINE t == RxPrepPayload(s)
<1>1. Driver(s) /\ RxTyped(s) /\ Receiving(s)
  BY SoundIsTyped DEF Working, Sound
<1>2. /\ Keeps(s, t, {"rxState"})
      /\ t.rxState = IF s.rxUnread = 0 THEN "fcs" ELSE "payload"
  BY <1>1 DEF RxPrepPayload, Driver, Keeps, Fields
<1> HIDE DEF t
<1>3. /\ t.macRxActive = "STARTED" /\ t.pRxBuf = TRUE /\ t.overflow = s.overflow
      /\ t.rxUnread = s.rxUnread /\ t.fifo = s.fifo /\ t.air = s.air
      /\ t.macRxOnFlag = s.macRxOnFlag
  BY <1>2 DEF Keeps, Fields
<1>4. Keeps(s, t, RxLocal) /\ RxTyped(t)
  BY <1>1, <1>2 DEF Keeps, RxLocal, RxTyped, Fields
<1>5. Working(t) /\ Calm(s, t)
  BY <1>1, <1>3, <1>4, RxLocalEffect DEF Receiving
<1>6. Stream(t)
  <2>1. CASE s.overflow
    BY <1>3, <2>1 DEF Stream
  <2>2. CASE ~s.overflow
    <3>1. PICK f \in Frames, q \in Segs :
            /\ ~f.ack /\ s.rxUnread \in 0 .. f.payload
            /\ s.fifo \o s.air = Rest(f, s.rxUnread + 1) \o q /\ AtMostAFrame(q)
      BY <2>2
    <3>2. /\ s.rxUnread + 1 \in Nat /\ s.rxUnread + 1 \in 1 .. f.payload + 2
          /\ s.rxUnread + 1 <= f.payload + 1 /\ s.rxUnread + 1 = t.rxUnread + 1
          /\ s.rxUnread = 0 => s.rxUnread + 1 = 1
      BY <1>3, <3>1, FramesAssumption
    <3>3. (t.rxState = "fcs" /\ s.rxUnread = 0) \/ (t.rxState = "payload" /\ s.rxUnread # 0)
      BY <1>2
    <3>4. Unread(t, f, s.rxUnread + 1)
      BY <1>3, <3>1, <3>2, <3>3 DEF Unread
    <3> QED BY <1>3, <3>1, <3>2, <3>4 DEF Stream
  <2> QED BY <2>1, <2>2
<1>7. RxInStep(t)
  BY <1>2, <1>3, <1>6 DEF RxInStep
<1> QED BY <1>3, <1>5, <1>7 DEF t, InIsr, Needed, NeedsReceiver, Queue

\* The states but the first.
LEMMA AddrEffect ==
  ASSUME NEW due \in BOOLEAN, NEW s, Working(s), RxInStep(s), s.fifo # <<>>,
         s.rxState = "addr", NEW fate
  PROVE  InIsr(RxAddrIsr(Pop(s), fate), due) /\ Calm(s, RxAddrIsr(Pop(s), fate))
<1> DEFINE c == Pop(s)
           t == RxAddrIsr(Pop(s), fate)
<1>1. /\ Keeps(s, c, {"fifo"}) /\ Working(c) /\ Calm(s, c) /\ RxTyped(c)
  BY PopEffect
<1>2. /\ c.macRxActive = "STARTED" /\ c.pRxBuf = TRUE /\ c.overflow = s.overflow
      /\ c.rxUnread = s.rxUnread /\ c.rxIsrActiveFlag = TRUE
  <2>1. s.macRxActive = "STARTED" /\ s.pRxBuf = TRUE /\ s.rxIsrActiveFlag = TRUE
    BY DEF RxInStep, Working, Sound, Typed
  <2> QED BY <1>1, <2>1 DEF Keeps, Fields
<1>3. s.overflow \/ \E f \in Frames, q \in Segs :
        /\ ~f.ack /\ s.rxUnread \in 0 .. f.payload
        /\ c.fifo \o c.air = Rest(f, s.rxUnread + 1) \o q /\ AtMostAFrame(q)
  <2> SUFFICES ASSUME ~s.overflow
               PROVE  \E f \in Frames, q \in Segs :
                        /\ ~f.ack /\ s.rxUnread \in 0 .. f.payload
                        /\ c.fifo \o c.air = Rest(f, s.rxUnread + 1) \o q /\ AtMostAFrame(q)
    OBVIOUS
  <2>1. PICK f \in Frames, n \in Nat, q \in Segs :
          c.fifo \o c.air = Rest(f, n - 1) \o q /\ AtMostAFrame(q) /\ Unread(s, f, n)
    BY ReadOn
  <2>2. ~f.ack /\ n - 1 = s.rxUnread + 1 /\ s.rxUnread \in 0 .. f.payload
    BY <2>1, FramesAssumption DEF Unread
  <2> QED BY <2>1, <2>2
<1> HIDE DEF c
<1>4. CASE fate = "badSecurity"
  <2>1. t = [c EXCEPT !.nack = TRUE, !.rxResetFlag = TRUE]
    <3>1. t = MacRxHaltCleanup(CancelTxAck(c))
      BY <1>4 DEF RxAddrIsr, c
    <3>2. CancelTxAck(c).rxIsrActiveFlag = TRUE
      BY <1>1, <1>2 DEF CancelTxAck, Keeps, Driver, Fields
    <3> QED BY <3>1, <3>2 DEF MacRxHaltCleanup, CancelTxAck
  <2> HIDE DEF t
  <2>2. Keeps(c, t, {"nack", "rxResetFlag"}) /\ t.rxResetFlag = TRUE
    BY <1>1, <2>1 DEF Keeps, Driver, Fields
  <2>3. Keeps(c, t, RxLocal) /\ RxTyped(t)
    BY <1>1, <2>2 DEF Keeps, RxLocal, RxTyped, Fields
  <2>4. Receiving(t) /\ t.macRxActive = "STARTED"
    BY <1>1, <1>2, <2>2 DEF Working, Sound, Receiving, Keeps, Fields
  <2>5. Working(t) /\ Calm(c, t)
    BY <1>1, <2>3, <2>4, RxLocalEffect
  <2> QED BY <1>1, <2>2, <2>4, <2>5 DEF InIsr, Needed, NeedsReceiver, Queue, Calm, t
<1>5. CASE fate # "badSecurity"
  <2>1. t = RxPrepPayload(c)
    BY <1>5 DEF RxAddrIsr, c
  <2>2. InIsr(t, due) /\ Calm(c, t)
    BY <1>1, <1>2, <1>3, <2>1, PrepEffect
  <2> QED BY <1>1, <2>2 DEF Calm
<1> QED BY <1>4, <1>5

\* A byte of the payload is read.
LEMMA PayloadEffect ==
  ASSUME NEW due \in BOOLEAN, NEW s, Working(s), RxInStep(s), s.fifo # <<>>,
         s.rxState = "payload"
  PROVE  InIsr(RxPayloadIsr(Pop(s)), due) /\ Calm(s, RxPayloadIsr(Pop(s)))
<1> DEFINE c == Pop(s)
           d == [c EXCEPT !.rxUnread = @ - 1]
           t == RxPayloadIsr(Pop(s))
<1>1. /\ Keeps(s, c, {"fifo"}) /\ Working(c) /\ Calm(s, c) /\ RxTyped(c)
  BY PopEffect
<1>2. /\ s.macRxActive = "STARTED" /\ s.pRxBuf = TRUE /\ s.rxUnread # 0 /\ s.rxUnread \in Nat
  BY DEF RxInStep, Working, Sound, Typed
<1>3. s.overflow \/ \E f \in Frames, q \in Segs :
        /\ ~f.ack /\ s.rxUnread - 1 \in 0 .. f.payload
        /\ c.fifo \o c.air = Rest(f, s.rxUnread - 1 + 1) \o q /\ AtMostAFrame(q)
  <2> SUFFICES ASSUME ~s.overflow
               PROVE  \E f \in Frames, q \in Segs :
                        /\ ~f.ack /\ s.rxUnread - 1 \in 0 .. f.payload
                        /\ c.fifo \o c.air = Rest(f, s.rxUnread - 1 + 1) \o q /\ AtMostAFrame(q)
    OBVIOUS
  <2>1. PICK f \in Frames, n \in Nat, q \in Segs :
          c.fifo \o c.air = Rest(f, n - 1) \o q /\ AtMostAFrame(q) /\ Unread(s, f, n)
    BY ReadOn
  <2>2. ~f.ack /\ n - 1 = s.rxUnread - 1 + 1 /\ s.rxUnread - 1 \in 0 .. f.payload
    BY <1>2, <2>1, FramesAssumption DEF Unread
  <2> QED BY <2>1, <2>2
<1>4. t = RxPrepPayload(d)
  BY DEF RxPayloadIsr
<1> HIDE DEF c
<1>5. Keeps(c, d, {"rxUnread"}) /\ d.rxUnread = s.rxUnread - 1
  <2>1. c.rxUnread = s.rxUnread
    BY <1>1 DEF Keeps, Fields
  <2> QED BY <1>1, <2>1 DEF Keeps, Driver, Fields
<1> HIDE DEF d, t
<1>6. /\ d.macRxActive = "STARTED" /\ d.pRxBuf = TRUE /\ d.overflow = s.overflow
      /\ d.fifo = c.fifo /\ d.air = c.air /\ d.macRxOnFlag = c.macRxOnFlag
  BY <1>1, <1>2, <1>5 DEF Keeps, Fields
<1>7. Working(d) /\ Calm(c, d)
  <2>1. s.rxUnread - 1 \in Nat
    BY <1>2
  <2>2. Keeps(c, d, RxLocal) /\ RxTyped(d)
    BY <1>1, <1>5, <2>1 DEF Keeps, RxLocal, RxTyped, Fields
  <2>3. Receiving(d)
    BY <1>1, <1>6 DEF Working, Sound, Receiving
  <2> QED BY <1>1, <2>2, <2>3, RxLocalEffect
<1>8. \/ d.overflow
      \/ \E f \in Frames, q \in Segs :
           /\ ~f.ack /\ d.rxUnread \in 0 .. f.payload
           /\ d.fifo \o d.air = Rest(f, d.rxUnread + 1) \o q /\ AtMostAFrame(q)
  BY <1>3, <1>5, <1>6
<1>9. InIsr(t, due) /\ Calm(d, t)
  BY <1>4, <1>6, <1>7, <1>8, PrepEffect
<1> QED BY <1>1, <1>7, <1>9 DEF t, Calm

\* After the last segment of a frame there is at most another frame.
LEMMA FrameRead ==
  ASSUME NEW s, Working(s), RxInStep(s), s.fifo # <<>>, s.rxState \in {"discard", "fcs"},
         s.rxState = "discard" => s.rxUnread = 1, ~s.overflow
  PROVE  AtMostAFrame(Pop(s).fifo \o Pop(s).air)
<1>1. PICK f \in Frames, n \in Nat, q \in Segs :
        /\ Pop(s).fifo \o Pop(s).air = Rest(f, n - 1) \o q /\ AtMostAFrame(q)
        /\ Unread(s, f, n)
  BY ReadOn
<1>2. n - 1 = 0
  BY <1>1 DEF Unread
<1>3. Rest(f, 0) \o q = q
  BY RestNone
<1> QED BY <1>1, <1>2, <1>3

\* A byte of a frame that is not kept is read.
LEMMA DiscardEffect ==
  ASSUME NEW due \in BOOLEAN, NEW s, Working(s), RxInStep(s), s.fifo # <<>>,
         s.rxState = "discard"
  PROVE  InIsr(RxDiscardIsr(Pop(s)), due) /\ Calm(s, RxDiscardIsr(Pop(s)))
<1> DEFINE c == Pop(s)
           d == [c EXCEPT !.rxUnread = @ - 1]
           e == [d EXCEPT !.rxState = "start"]
           t == RxDiscardIsr(Pop(s))
<1>1. /\ Keeps(s, c, {"fifo"}) /\ Working(c) /\ Calm(s, c) /\ RxTyped(c)
  BY PopEffect
<1>2. /\ s.macRxActive = "STARTED" /\ s.pRxBuf = FALSE /\ s.rxUnread # 0 /\ s.rxUnread \in Nat
  BY DEF RxInStep, Working, Sound, Typed
<1>3. t = IF d.rxUnread # 0 THEN d ELSE RxDone(e)
  BY DEF RxDiscardIsr
<1> HIDE DEF c
<1>4. Keeps(c, d, {"rxUnread"}) /\ d.rxUnread = s.rxUnread - 1
  <2>1. c.rxUnread = s.rxUnread
    BY <1>1 DEF Keeps, Fields
  <2> QED BY <1>1, <2>1 DEF Keeps, Driver, Fields
<1> HIDE DEF d
<1>5. Keeps(d, e, {"rxState"}) /\ e.rxState = "start"
  BY <1>4 DEF Keeps, Driver, Fields
<1> HIDE DEF e, t
<1>6. /\ d.macRxActive = "STARTED" /\ d.pRxBuf = FALSE /\ d.overflow = s.overflow
      /\ d.fifo = c.fifo /\ d.air = c.air /\ d.macRxOnFlag = c.macRxOnFlag
      /\ d.rxState = "discard"
      /\ e.fifo = c.fifo /\ e.air = c.air /\ e.macRxOnFlag = c.macRxOnFlag
      /\ e.pRxBuf = FALSE /\ e.overflow = s.overflow
  BY <1>1, <1>2, <1>4, <1>5 DEF Keeps, Fields
<1>7. Working(d) /\ Calm(c, d) /\ RxTyped(d)
  <2>1. s.rxUnread - 1 \in Nat
    BY <1>2
  <2>2. Keeps(c, d, RxLocal) /\ RxTyped(d)
    BY <1>1, <1>4, <2>1 DEF Keeps, RxLocal, RxTyped, Fields
  <2>3. Receiving(d)
    BY <1>1, <1>6 DEF Working, Sound, Receiving
  <2> QED BY <1>1, <2>2, <2>3, RxLocalEffect
<1>8. CASE d.rxUnread # 0
  <2>1. Stream(d)
    <3> SUFFICES ASSUME ~d.overflow PROVE Stream(d)
      BY DEF Stream
    <3>1. PICK f \in Frames, n \in Nat, q \in Segs :
            c.fifo \o c.air = Rest(f, n - 1) \o q /\ AtMostAFrame(q) /\ Unread(s, f, n)
      BY <1>6, ReadOn DEF c
    <3>2. n - 1 = d.rxUnread /\ n - 1 \in Nat /\ n - 1 \in 1 .. f.payload + 2 /\ ~f.ack
      BY <1>4, <1>8, <3>1, FramesAssumption DEF Unread
    <3>3. Unread(d, f, n - 1)
      BY <1>6, <3>2 DEF Unread
    <3> QED BY <1>6, <3>1, <3>2, <3>3 DEF Stream
  <2>2. RxInStep(d)
    BY <1>6, <1>8, <2>1 DEF RxInStep
  <2> QED BY <1>1, <1>3, <1>6, <1>7, <1>8, <2>2 DEF InIsr, Needed, NeedsReceiver, Queue, Calm, t
<1>9. CASE d.rxUnread = 0
  <2>1. s.overflow \/ AtMostAFrame(e.fifo \o e.air)
    <3>1. s.rxUnread = 1
      BY <1>2, <1>4, <1>9
    <3> QED BY <1>6, <3>1, FrameRead DEF c
  <2>2. Working(e) /\ Calm(d, e)
    <3>1. Keeps(d, e, RxLocal) /\ RxTyped(e)
      BY <1>5, <1>7 DEF Keeps, RxLocal, RxTyped, Fields
    <3>2. Receiving(e)
      BY <1>1, <1>6 DEF Working, Sound, Receiving
    <3> QED BY <1>7, <3>1, <3>2, RxLocalEffect
  <2>3. InIsr(t, due) /\ Calm(e, t)
    BY <1>3, <1>5, <1>6, <1>9, <2>1, <2>2, RxDoneEffect
  <2> QED BY <1>1, <1>7, <2>2, <2>3 DEF Calm, t
<1> QED BY <1>8, <1>9

\* The last byte of a frame is read.
LEMMA FcsEffect ==
  ASSUME NEW due \in BOOLEAN, NEW s, Working(s), RxInStep(s), s.fifo # <<>>,
         s.rxState = "fcs", NEW f
  PROVE  InIsr(RxFcsIsr(Pop(s), f), due) /\ Calm(s, RxFcsIsr(Pop(s), f))
<1> DEFINE c == Pop(s)
           u == [c EXCEPT !.macRxActive = "DONE"]
           done == IF f.crcOK THEN MacRxOffRequest(u) ELSE CancelAckTxDone(c)
           e == [done EXCEPT !.pRxBuf = FALSE, !.rxState = "start"]
           t == RxFcsIsr(Pop(s), f)
<1>1. /\ Keeps(s, c, {"fifo"}) /\ Working(c) /\ Calm(s, c) /\ RxTyped(c)
  BY PopEffect
<1>2. ~s.overflow => AtMostAFrame(c.fifo \o c.air)
  BY FrameRead
<1>3. t = RxDone(e)
  BY DEF RxFcsIsr
<1> HIDE DEF c
<1>4. c.overflow = s.overflow /\ Receiving(c) /\ Driver(c)
  BY <1>1 DEF Keeps, Working, Sound, Fields
<1>5. /\ Working(done) /\ Calm(c, done) /\ RxTyped(done)
      /\ Flow(c, done)
  <2>1. CASE f.crcOK
    <3>1. Keeps(c, u, {"macRxActive"}) /\ u.macRxActive = "DONE"
      BY <1>4 DEF Keeps, Driver, Fields
    <3>2. Keeps(c, u, RxLocal) /\ RxTyped(u) /\ Receiving(u)
      <4> HIDE DEF u
      <4> QED BY <1>1, <1>4, <3>1 DEF Keeps, RxLocal, RxTyped, Receiving, Fields
    <3> HIDE DEF u
    <3>3. Working(u) /\ Calm(c, u)
      BY <1>1, <3>2, RxLocalEffect
    <3>4. /\ Sound(done) /\ Keeps(u, done, Receiver) /\ Flow(u, done)
          /\ NeedsReceiver(u) => done = u
      BY <2>1, <3>3, RxOffRequestEffect DEF Working
    <3> HIDE DEF done
    <3>5. /\ done.macRxEnableFlags = u.macRxEnableFlags /\ done.wanted = u.wanted
          /\ done.macTxActive = u.macTxActive /\ done.stopM = u.stopM
          /\ done.macPhyChannel = u.macPhyChannel /\ done.reqChannel = u.reqChannel
          /\ done.rxIsrActiveFlag = u.rxIsrActiveFlag
          /\ done.cspz = u.cspz /\ done.stopF = u.stopF /\ done.nb = u.nb
      BY <3>4 DEF Keeps, Receiver, Fields
    <3>6. Enabled(done)
      BY <3>3, <3>4, <3>5 DEF Working, Enabled, NeedsReceiver
    <3>7. Working(done) /\ Calm(u, done)
      BY <3>3, <3>4, <3>5, <3>6 DEF Working, Awaited, Tuned, Calm, InCall, InGo
    <3>8. Flow(c, done)
      BY <3>1, <3>4 DEF Flow, Keeps, Fields
    <3> QED BY <3>3, <3>4, <3>7, <3>8, SoundIsTyped DEF Calm
  <2>2. CASE ~f.crcOK
    <3>1. Keeps(c, done, {"ackM", "macRxOutgoingAckFlag"}) /\ done.ackM = FALSE
          /\ done.macRxOutgoingAckFlag = FALSE
      <4>1. done = [c EXCEPT !.ackM = FALSE, !.macRxOutgoingAckFlag = FALSE]
        BY <2>2 DEF CancelAckTxDone
      <4> HIDE DEF done
      <4> QED BY <1>4, <4>1 DEF Keeps, Driver, Fields
    <3> HIDE DEF done
    <3>2. Keeps(c, done, RxLocal) /\ RxTyped(done) /\ Receiving(done) /\ Flow(c, done)
      BY <1>1, <1>4, <3>1 DEF Keeps, RxLocal, RxTyped, Receiving, Flow, Fields
    <3> QED BY <1>1, <3>2, RxLocalEffect
  <2> QED BY <2>1, <2>2
<1> HIDE DEF done
<1>6. /\ Keeps(done, e, {"pRxBuf", "rxState"}) /\ e.pRxBuf = FALSE /\ e.rxState = "start"
  BY ZenonT(40), <1>5 DEF Working, Sound, Keeps, Driver, Fields
<1> HIDE DEF e, t
<1>7. Working(e) /\ Calm(done, e)
  <2>1. Receiving(done)
    BY <1>5 DEF Working, Sound
  <2>2. Keeps(done, e, RxLocal) /\ RxTyped(e) /\ Receiving(e)
    BY ZenonT(40), <1>5, <1>6, <2>1 DEF Keeps, RxLocal, RxTyped, Receiving, Fields
  <2> QED BY <1>5, <2>2, RxLocalEffect
<1>8. e.overflow \/ AtMostAFrame(e.fifo \o e.air)
  <2>1. e.fifo = done.fifo /\ e.air = done.air /\ e.overflow = done.overflow
    BY <1>6 DEF Keeps, Fields
  <2>2. <<>> \o <<>> = <<>>
    BY Emptied, ConcatEmptySeq DEF Segs
  <2> QED BY <1>2, <1>4, <1>5, <2>1, <2>2 DEF Flow, AtMostAFrame
<1>9. InIsr(t, due) /\ Calm(e, t)
  BY <1>3, <1>6, <1>7, <1>8, RxDoneEffect
<1> QED BY <1>1, <1>5, <1>7, <1>9 DEF Calm, t

\* The first state.  A transmit whose end is pending is ended first,
LEMMA ForceDoneEffect ==
  ASSUME NEW s, Working(s), s.macRxActive = "STARTED"
  PROVE  /\ Working(CspForceTxDoneIfPending(s)) /\ Keeps(s, CspForceTxDoneIfPending(s), TxInIsr)
         /\ Calm(s, CspForceTxDoneIfPending(s)) /\ SameOrReset(s, CspForceTxDoneIfPending(s))
<1> DEFINE d == [s EXCEPT !.stopM = FALSE, !.intM = FALSE]
           t == CspForceTxDoneIfPending(s)
<1>1. Driver(s) /\ Transmit(s) /\ s.stopM \in BOOLEAN /\ s.stopF \in BOOLEAN
  BY DEF Working, Sound, Typed
<1>2. CASE s.cspz = "DONE" /\ s.stopM
  <2>1. t = MacTxDoneCallback(d)
    BY <1>2 DEF CspForceTxDoneIfPending
  <2>2. Keeps(s, d, {"stopM", "intM"}) /\ d.stopM = FALSE
    BY <1>1 DEF Keeps, Driver, Fields
  <2> HIDE DEF d
  <2>3. s.macTxActive = "GO" /\ s.csp = "idle"
    BY <1>1, <1>2 DEF Transmit
  <2>4. Masked(s, d)
    <3>1. Keeps(s, d, {"stopF", "stopM", "intM"})
      BY <2>2 DEF Keeps
    <3>2. d.stopF = s.stopF
      BY <2>2 DEF Keeps, Fields
    <3> QED BY <1>1, <1>2, <2>2, <2>3, <3>1, <3>2 DEF Masked
  <2> QED BY <2>1, <2>3, <2>4, DoneInside
<1>3. CASE ~(s.cspz = "DONE" /\ s.stopM)
  <2>1. t = s
    BY <1>3 DEF CspForceTxDoneIfPending
  <2> QED BY <1>1, <2>1 DEF Keeps, Calm, SameOrReset
<1> QED BY <1>2, <1>3

\* and no acknowledgement is awaited from here on.
LEMMA BeginEffect ==
  ASSUME NEW s, Working(s), RxInStep(s), s.fifo # <<>>, s.rxState = "start", NEW a,
         a = [s EXCEPT !.macRxActive = "STARTED"],
         NEW b, b = CancelAckTxDone(CspForceTxDoneIfPending(a))
  PROVE  /\ s.macRxActive = "NO_ACTIVITY" /\ a.macRxOnFlag /\ a.fifo # <<>>
         /\ Working(b) /\ Calm(s, b) /\ SameOrReset(s, b)
         /\ b.macRxActive = "STARTED" /\ b.rxState = "start" /\ b.pRxBuf = FALSE
         /\ b.macRxOutgoingAckFlag = FALSE
<1> DEFINE g == CspForceTxDoneIfPending(a)
<1>1. /\ Driver(s) /\ RxTyped(s) /\ Receiving(s) /\ s.macRxActive = "NO_ACTIVITY"
      /\ s.pRxBuf = FALSE /\ s.macRxOnFlag
  BY SoundIsTyped DEF Working, Sound, RxInStep, RxTyped, Receiving
<1>2. Keeps(s, a, {"macRxActive"}) /\ a.macRxActive = "STARTED"
  BY <1>1 DEF Keeps, Driver, Fields
<1>3. /\ a.fifo = s.fifo /\ a.air = s.air /\ a.overflow = s.overflow
      /\ a.rxResetFlag = s.rxResetFlag /\ a.macRxOnFlag = s.macRxOnFlag
      /\ a.rxState = "start" /\ a.pRxBuf = FALSE
  BY <1>1, <1>2 DEF Keeps, Fields
<1>4. Working(a) /\ Calm(s, a)
  <2>1. Keeps(s, a, RxLocal) /\ RxTyped(a) /\ Receiving(a)
    BY <1>1, <1>2 DEF Keeps, RxLocal, RxTyped, Receiving, Fields
  <2> QED BY <2>1, RxLocalEffect
<1>5. Working(g) /\ Keeps(a, g, TxInIsr) /\ Calm(a, g) /\ SameOrReset(a, g)
  BY <1>2, <1>4, ForceDoneEffect
<1> HIDE DEF g
<1>6. Driver(g) /\ RxTyped(g) /\ Receiving(g)
  BY <1>5, SoundIsTyped DEF Working, Sound
<1>7. /\ Keeps(g, b, {"ackM", "macRxOutgoingAckFlag"})
      /\ b.ackM = FALSE /\ b.macRxOutgoingAckFlag = FALSE
  <2>1. b = [g EXCEPT !.ackM = FALSE, !.macRxOutgoingAckFlag = FALSE]
    BY DEF CancelAckTxDone, g
  <2> QED BY <1>6, <2>1 DEF Keeps, Driver, Fields
<1>8. Working(b) /\ Calm(g, b)
  <2>1. Keeps(g, b, RxLocal) /\ RxTyped(b) /\ Receiving(b)
    BY <1>6, <1>7 DEF Keeps, RxLocal, RxTyped, Receiving, Fields
  <2> QED BY <1>5, <2>1, RxLocalEffect
<1>9. /\ b.macRxActive = "STARTED" /\ b.rxState = "start" /\ b.pRxBuf = FALSE
  <2>1. g.macRxActive = "STARTED" /\ g.rxState = "start" /\ g.pRxBuf = FALSE
    BY ZenonT(40), <1>2, <1>3, <1>5 DEF Keeps, TxInIsr, Completes, Receiver, TxFields, Fields
  <2> QED BY <1>7, <2>1 DEF Keeps, Fields
<1>10. /\ b.fifo = g.fifo /\ b.air = g.air /\ b.overflow = g.overflow
       /\ b.rxResetFlag = g.rxResetFlag
  BY <1>7 DEF Keeps, Fields
<1>11. SameOrReset(s, b)
  BY <1>3, <1>5, <1>10 DEF SameOrReset
<1> QED BY <1>1, <1>3, <1>4, <1>5, <1>7, <1>8, <1>9, <1>11 DEF Calm

\* What the first segment says: an acknowledgement is all there is of it, and
\* of any other frame the rest follows.
LEMMA FirstSegment ==
  ASSUME NEW s, Working(s), RxInStep(s), s.fifo # <<>>, s.rxState = "start", ~s.overflow
  PROVE  /\ Head(s.fifo).part = "ack" => Pop(s).fifo \o Pop(s).air = <<>>
         /\ Head(s.fifo).part # "ack" =>
              /\ ~Head(s.fifo).of.ack
              /\ Pop(s).fifo \o Pop(s).air =
                   Rest(Head(s.fifo).of, Head(s.fifo).of.payload + 2) \o <<>>
<1>1. /\ s.fifo \o s.air # <<>> /\ Head(s.fifo) = Head(s.fifo \o s.air)
      /\ Pop(s).fifo \o Pop(s).air = Tail(s.fifo \o s.air)
  BY PopEffect
<1>2. AtMostAFrame(s.fifo \o s.air)
  BY DEF RxInStep, Stream, Unread
<1>3. PICK f \in Frames : s.fifo \o s.air = Segments(f)
  BY <1>1, <1>2 DEF AtMostAFrame
<1>4. f.ack \in BOOLEAN /\ f.payload \in Nat
  BY FramesAssumption
<1>5. CASE f.ack
  <2>1. Head(Segments(f)).part = "ack" /\ Tail(Segments(f)) = <<>>
    BY <1>5, SegmentsAreSegs
  <2> QED BY <1>1, <1>3, <2>1
<1>6. CASE ~f.ack
  <2>1. Segments(f) = Rest(f, f.payload + 3) \o <<>>
    BY <1>6, RestWhole
  <2>2. Head(Segments(f)).part = "hdr"
    BY <1>6, SegmentsAreSegs
  <2>3. Head(Segments(f)).of = f
    <3>1. Len(Segments(f)) = f.payload + 3 /\ Segments(f) \in Segs /\ Segments(f) # <<>>
      BY <1>6, SegmentsAreSegs
    <3>2. Segments(f)[1].of = f
      BY <1>4, <3>1, SegmentsAreSegs
    <3> QED BY <3>1, <3>2 DEF Segs
  <2>4. Tail(Rest(f, f.payload + 3) \o <<>>) = Rest(f, f.payload + 2) \o <<>>
    <3>1. PICK n \in 1 .. f.payload + 3 : n = f.payload + 3
      BY <1>4
    <3>2. n - 1 = f.payload + 2
      BY <1>4, <3>1
    <3>3. Tail(Rest(f, n) \o <<>>) = Rest(f, n - 1) \o <<>>
      BY <1>6, Emptied, RestTail
    <3> QED BY <3>1, <3>2, <3>3
  <2> QED BY <1>1, <1>3, <1>6, <2>1, <2>2, <2>3, <2>4
<1> QED BY <1>4, <1>5, <1>6

\* An acknowledgement ends the wait for it.
LEMMA AckEffect ==
  ASSUME NEW due \in BOOLEAN, NEW s, Working(s), s.macRxActive = "STARTED", s.rxState = "start",
         s.pRxBuf = FALSE, ~s.overflow => s.fifo \o s.air = <<>>, NEW f
  PROVE  InIsr(RxAck(s, f), due) /\ Calm(s, RxAck(s, f))
<1> DEFINE status == IF f.crcOK /\ f.match THEN "SUCCESS" ELSE "NO_ACK"
           e == MacTxAckEnd(s, status)
           t == RxAck(s, f)
<1>1. t = RxDone(e)
  BY DEF RxAck
<1>2. status \in {"SUCCESS", "NO_ACK"}
  OBVIOUS
<1> HIDE DEF status
<1>3. Working(e) /\ Keeps(s, e, TxInIsr) /\ Calm(s, e) /\ SameOrReset(s, e)
  BY <1>2, AckEndInside
<1> HIDE DEF e, t
<1>4. e.rxState = "start" /\ e.pRxBuf = FALSE
  BY <1>3 DEF Keeps, TxInIsr, Completes, Receiver, TxFields, Fields
<1>5. e.rxResetFlag \/ e.overflow \/ AtMostAFrame(e.fifo \o e.air)
  BY <1>3 DEF SameOrReset, AtMostAFrame
<1>6. InIsr(t, due) /\ Calm(e, t)
  BY <1>1, <1>3, <1>4, <1>5, RxDoneEffect
<1> QED BY <1>3, <1>6 DEF Calm, t

\* Any other frame is read or discarded.
LEMMA FrameEffect ==
  ASSUME NEW due \in BOOLEAN, NEW s, Working(s), s.macRxActive = "STARTED", s.rxState = "start",
         s.pRxBuf = FALSE, s.macRxOutgoingAckFlag = FALSE,
         NEW f \in Frames, NEW fate,
         ~s.overflow => ~f.ack /\ s.fifo \o s.air = Rest(f, f.payload + 2) \o <<>>
  PROVE  InIsr(RxFrame(s, f, fate), due) /\ Calm(s, RxFrame(s, f, fate))
<1> DEFINE e == MacTxAckEnd(s, "NO_ACK")
           t == RxFrame(s, f, fate)
<1>1. Working(e) /\ Keeps(s, e, TxInIsr) /\ Calm(s, e) /\ SameOrReset(s, e)
  BY AckEndInside
<1>2. /\ fate = "filtered" => t = RxDiscardFrame(e, f)
      /\ fate = "noBuffer" => t = RxDiscardFrame(CancelTxAck(e), f)
      /\ fate \notin {"filtered", "noBuffer"} =>
           t = [e EXCEPT !.pRxBuf = TRUE, !.macRxOutgoingAckFlag = f.ackReq,
                         !.ackF = @ /\ ~f.ackReq, !.ackM = @ \/ f.ackReq,
                         !.rxState = "addr", !.rxUnread = f.payload]
  BY DEF RxFrame
<1> HIDE DEF e, t
<1>3. Driver(e) /\ RxTyped(e) /\ Receiving(e)
  BY <1>1, SoundIsTyped DEF Working, Sound
<1>4. e.macRxActive = "STARTED" /\ e.pRxBuf = FALSE
  BY <1>1 DEF Keeps, TxInIsr, Completes, Receiver, TxFields, Fields
<1>5. f.ackReq \in BOOLEAN /\ f.payload \in Nat /\ f.ack \in BOOLEAN
  BY FramesAssumption
<1>6. /\ Keeps(e, t, {"nack", "pRxBuf", "macRxOutgoingAckFlag", "ackF", "ackM", "rxState",
                      "rxUnread"})
      /\ \/ t.rxState = "discard" /\ t.rxUnread = f.payload + 2 /\ t.pRxBuf = FALSE
            /\ t.macRxOutgoingAckFlag = e.macRxOutgoingAckFlag /\ t.ackM = e.ackM
         \/ t.rxState = "addr" /\ t.rxUnread = f.payload /\ t.pRxBuf = TRUE
            /\ t.macRxOutgoingAckFlag \in BOOLEAN /\ t.ackM \in BOOLEAN
  <2>1. CASE fate = "filtered"
    <3>1. t = [e EXCEPT !.rxState = "discard", !.rxUnread = f.payload + 2]
      BY <1>2, <2>1 DEF RxDiscardFrame
    <3>2. Keeps(e, t, {"rxState", "rxUnread"}) /\ t.rxState = "discard" /\ t.rxUnread = f.payload + 2
      BY <1>3, <3>1 DEF Keeps, Driver, Fields
    <3> QED BY <1>4, <3>2 DEF Keeps, Fields
  <2>2. CASE fate = "noBuffer"
    <3>1. t = [[e EXCEPT !.nack = TRUE] EXCEPT !.rxState = "discard", !.rxUnread = f.payload + 2]
      BY <1>2, <2>2 DEF RxDiscardFrame, CancelTxAck
    <3>2. /\ Keeps(e, t, {"nack", "rxState", "rxUnread"}) /\ t.rxState = "discard"
          /\ t.rxUnread = f.payload + 2
      BY ZenonT(40), <1>3, <3>1 DEF Keeps, Driver, Fields
    <3> QED BY <1>4, <3>2 DEF Keeps, Fields
  <2>3. CASE fate \notin {"filtered", "noBuffer"}
    <3>1. t = [e EXCEPT !.pRxBuf = TRUE, !.macRxOutgoingAckFlag = f.ackReq,
                        !.ackF = @ /\ ~f.ackReq, !.ackM = @ \/ f.ackReq,
                        !.rxState = "addr", !.rxUnread = f.payload]
      BY <1>2, <2>3
    <3>2. Keeps(e, t, {"pRxBuf", "macRxOutgoingAckFlag", "ackF", "ackM", "rxState", "rxUnread"})
      BY ZenonT(40), <1>3, <3>1 DEF Keeps, Driver, Fields
    <3>3. /\ t.rxState = "addr" /\ t.rxUnread = f.payload /\ t.pRxBuf = TRUE
          /\ t.macRxOutgoingAckFlag = f.ackReq /\ t.ackM = (e.ackM \/ f.ackReq)
      BY <1>3, <3>1 DEF Driver, Fields
    <3> QED BY <1>5, <3>2, <3>3 DEF Keeps
  <2> QED BY <2>1, <2>2, <2>3
<1>7. /\ t.macRxActive = "STARTED" /\ t.fifo = e.fifo /\ t.air = e.air
      /\ t.overflow = e.overflow /\ t.macRxOnFlag = e.macRxOnFlag
      /\ t.rxResetFlag = e.rxResetFlag
  BY <1>4, <1>6 DEF Keeps, Fields
<1>8. Working(t) /\ Calm(e, t)
  <2>1. RxTyped(t)
    <3>1. /\ t.rxUnread \in Nat /\ t.rxState \in {"addr", "discard"}
          /\ t.pRxBuf \in BOOLEAN /\ t.ackM \in BOOLEAN /\ t.macRxOutgoingAckFlag \in BOOLEAN
      <4>1. e.ackM \in BOOLEAN /\ e.macRxOutgoingAckFlag \in BOOLEAN
        BY <1>3 DEF RxTyped
      <4>2. f.payload + 2 \in Nat
        BY <1>5
      <4>3. CASE t.rxState = "discard"
        BY <1>6, <4>1, <4>2, <4>3
      <4>4. CASE t.rxState = "addr"
        BY <1>5, <1>6, <4>4
      <4> QED BY <1>6, <4>3, <4>4
    <3>2. t.rxIsrActiveFlag = e.rxIsrActiveFlag /\ t.macPhyChannel = e.macPhyChannel
      BY <1>6 DEF Keeps, Fields
    <3>3. t.rxState \in {"start", "addr", "payload", "discard", "fcs"}
      BY <3>1
    <3> QED BY <1>3, <1>4, <1>7, <3>1, <3>2, <3>3 DEF RxTyped
  <2>2. Keeps(e, t, RxLocal)
    BY <1>6 DEF Keeps, RxLocal
  <2>3. Receiving(t)
    BY <1>3, <1>7 DEF Receiving
  <2> QED BY <1>1, <2>1, <2>2, <2>3, RxLocalEffect
<1>9. t.rxResetFlag \/ RxInStep(t)
  <2> SUFFICES ASSUME ~t.rxResetFlag PROVE RxInStep(t)
    OBVIOUS
  <2>1. e.fifo = s.fifo /\ e.air = s.air /\ e.overflow = s.overflow
    BY <1>1, <1>7 DEF SameOrReset
  <2>2. Stream(t)
    <3> SUFFICES ASSUME ~t.overflow PROVE Stream(t)
      BY DEF Stream
    <3>1. ~f.ack /\ t.fifo \o t.air = Rest(f, f.payload + 2) \o <<>>
      BY <1>7, <2>1
    <3>2. f.payload + 2 \in Nat /\ f.payload + 2 \in 1 .. f.payload + 2
      BY <1>5
    <3>3. Unread(t, f, f.payload + 2)
      BY <1>6, <3>1, <3>2 DEF Unread
    <3>4. <<>> \in Segs /\ AtMostAFrame(<<>>)
      BY Emptied DEF AtMostAFrame
    <3> QED BY <3>1, <3>2, <3>3, <3>4 DEF Stream
  <2>3. t.rxState = "discard" => t.rxUnread # 0
    BY <1>5, <1>6
  <2> QED BY <1>6, <1>7, <2>2, <2>3 DEF RxInStep
<1> QED BY <1>1, <1>7, <1>8, <1>9 DEF InIsr, Needed, NeedsReceiver, Queue, Calm, t

\* rxStartIsr, with the transmit it may end.
LEMMA StartEffect ==
  ASSUME NEW due \in BOOLEAN, NEW s, Working(s), RxInStep(s), s.fifo # <<>>,
         s.rxState = "start", NEW fate, s.rxResetFlag = FALSE
  PROVE  InIsr(RxStartIsr(s, fate), due) /\ Calm(s, RxStartIsr(s, fate))
<1> DEFINE a == [s EXCEPT !.macRxActive = "STARTED"]
           b == CancelAckTxDone(CspForceTxDoneIfPending(a))
           c == Pop(b)
           h == Head(b.fifo)
           t == RxStartIsr(s, fate)
<1>1. /\ s.macRxActive = "NO_ACTIVITY" /\ a.macRxOnFlag /\ a.fifo # <<>>
      /\ Working(b) /\ Calm(s, b) /\ SameOrReset(s, b)
      /\ b.macRxActive = "STARTED" /\ b.rxState = "start" /\ b.pRxBuf = FALSE
      /\ b.macRxOutgoingAckFlag = FALSE
  BY BeginEffect
<1>2. t = IF ~a.macRxOnFlag \/ a.fifo = <<>>
            THEN RxPostRxUpdates([a EXCEPT !.macRxActive = "NO_ACTIVITY"])
          ELSE IF b.fifo = <<>> THEN b
          ELSE IF h.part = "ack" THEN RxAck(c, h.of) ELSE RxFrame(c, h.of, fate)
  <2>1. Require(s, s.macRxActive = "NO_ACTIVITY", "rxOnRx") = s
    BY <1>1 DEF Require
  <2> QED BY <2>1 DEF RxStartIsr, Pop
<1> HIDE DEF a, b, h, t
<1>3. CASE b.fifo = <<>>
  <2>1. t = b
    BY <1>1, <1>2, <1>3
  <2>2. b.rxResetFlag = TRUE
    BY <1>1, <1>3 DEF SameOrReset
  <2> QED BY <1>1, <2>1, <2>2 DEF InIsr, Needed, NeedsReceiver, Queue, t
<1>4. CASE b.fifo # <<>>
  <2>1. b.fifo = s.fifo /\ b.air = s.air /\ b.overflow = s.overflow
    BY <1>1, <1>4 DEF SameOrReset
  <2>2. Keeps(b, c, {"fifo"}) /\ c.fifo = Tail(b.fifo) /\ Working(c) /\ Calm(b, c) /\ h.of \in Frames
    BY <1>1, <1>4, PopEffect DEF h
  <2>3. c.fifo \o c.air = Pop(s).fifo \o Pop(s).air
    <3>1. b.fifo \o b.air = s.fifo \o s.air
      BY <2>1
    <3>2. c.fifo \o c.air = Tail(b.fifo \o b.air) /\ Pop(s).fifo \o Pop(s).air = Tail(s.fifo \o s.air)
      BY <1>1, <1>4, PopEffect
    <3> QED BY <3>1, <3>2
  <2>4. ~s.overflow =>
          /\ h.part = "ack" => c.fifo \o c.air = <<>>
          /\ h.part # "ack" => ~h.of.ack /\ c.fifo \o c.air = Rest(h.of, h.of.payload + 2) \o <<>>
    BY <2>1, <2>3, FirstSegment DEF h
  <2> HIDE DEF c
  <2>5. /\ c.overflow = s.overflow /\ c.macRxActive = "STARTED" /\ c.rxState = "start"
        /\ c.pRxBuf = FALSE /\ c.macRxOutgoingAckFlag = FALSE
    BY <1>1, <2>1, <2>2 DEF Keeps, Fields
  <2>6. CASE h.part = "ack"
    <3>1. t = RxAck(c, h.of)
      BY <1>1, <1>2, <1>4, <2>6
    <3>2. InIsr(t, due) /\ Calm(c, t)
      BY <2>2, <2>4, <2>5, <2>6, <3>1, AckEffect
    <3> QED BY <1>1, <2>2, <3>2 DEF Calm, t
  <2>7. CASE h.part # "ack"
    <3>1. t = RxFrame(c, h.of, fate)
      BY <1>1, <1>2, <1>4, <2>7
    <3>2. InIsr(t, due) /\ Calm(c, t)
      BY <2>2, <2>4, <2>5, <2>7, <3>1, FrameEffect
    <3> QED BY <1>1, <2>2, <3>2 DEF Calm, t
  <2> QED BY <2>6, <2>7
<1> QED BY <1>3, <1>4

\* macMcuRfRxThresholdIsr, with the reset at its end.
LEMMA ThresholdEffect ==
  ASSUME NEW due \in BOOLEAN, NEW s, Settled(s, due), s.fifo # <<>>, NEW fate
  PROVE  Settled(MacRxThresholdIsr(s, fate), due) /\ Calm(s, MacRxThresholdIsr(s, fate))
<1> DEFINE a == [s EXCEPT !.rxIsrActiveFlag = TRUE]
           x == RxStateIsr(a, fate)
           d == [x EXCEPT !.rxIsrActiveFlag = FALSE]
           t == MacRxThresholdIsr(s, fate)
<1>1. Driver(s) /\ RxTyped(s) /\ s.rxResetFlag = FALSE
  BY SoundIsTyped DEF Settled, RxTyped
<1>2. Keeps(s, a, {"rxIsrActiveFlag"}) /\ a.rxIsrActiveFlag = TRUE
  BY <1>1 DEF Keeps, Driver, Fields
<1>3. t = IF d.rxResetFlag THEN [RxHaltCleanupFinalStep(d) EXCEPT !.rxResetFlag = FALSE] ELSE d
  BY DEF MacRxThresholdIsr
<1> HIDE DEF a
<1>4. /\ a.fifo = s.fifo /\ a.air = s.air /\ a.overflow = s.overflow /\ a.rxResetFlag = FALSE
      /\ a.macRxActive = s.macRxActive /\ a.rxState = s.rxState /\ a.pRxBuf = s.pRxBuf
      /\ a.rxUnread = s.rxUnread /\ a.macRxOnFlag = s.macRxOnFlag
      /\ a.macRxEnableFlags = s.macRxEnableFlags /\ a.wanted = s.wanted
      /\ a.macTxActive = s.macTxActive /\ a.stopM = s.stopM
      /\ a.macPhyChannel = s.macPhyChannel /\ a.reqChannel = s.reqChannel
      /\ a.cspz = s.cspz /\ a.stopF = s.stopF /\ a.nb = s.nb
  BY <1>1, <1>2 DEF Keeps, Fields
<1>5. Working(a) /\ RxInStep(a) /\ Calm(s, a)
  <2>1. RxTyped(a)
    BY <1>1, <1>2, <1>4 DEF Keeps, RxTyped, Fields
  <2>2. Keeps(s, a, RxFields)
    BY <1>2 DEF Keeps, RxFields
  <2>3. Sound(a)
    BY <1>4, <2>1, <2>2, RxOnly DEF Settled, Sound, Receiving
  <2>4. RxInStep(a)
    BY <1>4, FlowInStep DEF Settled, Flow
  <2> QED BY <1>2, <1>4, <2>3, <2>4
      DEF Settled, Working, Enabled, Awaited, Tuned, Calm, InCall, InGo
<1>6. InIsr(x, due) /\ Calm(a, x)
  <2>1. a.rxState \in {"start", "addr", "payload", "discard", "fcs"}
    BY <1>5 DEF Working, Sound, Typed
  <2>2. CASE a.rxState = "start"
    <3>1. x = RxStartIsr(a, fate)
      BY <2>2 DEF RxStateIsr
    <3> QED BY <1>4, <1>5, <2>2, <3>1, StartEffect
  <2>3. CASE a.rxState = "addr"
    <3>1. x = RxAddrIsr(Pop(a), fate)
      BY <2>3 DEF RxStateIsr, Pop
    <3> QED BY <1>4, <1>5, <2>3, <3>1, AddrEffect
  <2>4. CASE a.rxState = "payload"
    <3>1. x = RxPayloadIsr(Pop(a))
      BY <2>4 DEF RxStateIsr, Pop
    <3> QED BY <1>4, <1>5, <2>4, <3>1, PayloadEffect
  <2>5. CASE a.rxState = "discard"
    <3>1. x = RxDiscardIsr(Pop(a))
      BY <2>5 DEF RxStateIsr, Pop
    <3> QED BY <1>4, <1>5, <2>5, <3>1, DiscardEffect
  <2>6. CASE a.rxState = "fcs"
    <3>1. x = RxFcsIsr(Pop(a), Head(a.fifo).of)
      BY <2>6 DEF RxStateIsr, Pop
    <3> QED BY <1>4, <1>5, <2>6, <3>1, FcsEffect
  <2> QED BY <2>1, <2>2, <2>3, <2>4, <2>5, <2>6
<1> HIDE DEF x
<1>7. Keeps(x, d, {"rxIsrActiveFlag"}) /\ d.rxIsrActiveFlag = FALSE
  BY <1>6 DEF InIsr, Working, Sound, Keeps, Driver, Fields
<1> HIDE DEF d, t
<1>8. /\ d.fifo = x.fifo /\ d.air = x.air /\ d.overflow = x.overflow
      /\ d.rxResetFlag = x.rxResetFlag
      /\ d.macRxActive = x.macRxActive /\ d.rxState = x.rxState /\ d.pRxBuf = x.pRxBuf
      /\ d.rxUnread = x.rxUnread /\ d.macRxOnFlag = x.macRxOnFlag
      /\ d.macRxEnableFlags = x.macRxEnableFlags /\ d.wanted = x.wanted
      /\ d.macTxActive = x.macTxActive /\ d.stopM = x.stopM
      /\ d.macPhyChannel = x.macPhyChannel /\ d.reqChannel = x.reqChannel
      /\ d.macRxOutgoingAckFlag = x.macRxOutgoingAckFlag
      /\ d.cspz = x.cspz /\ d.stopF = x.stopF /\ d.nb = x.nb
  BY <1>7 DEF Keeps, Fields
<1>9. /\ Sound(d) /\ Enabled(d) /\ Awaited(d) /\ Tuned(d) /\ Needed(d, due) /\ Queue(d)
      /\ Calm(x, d) /\ d.macTxActive \notin {"DONE", "POST_ACK", "CHANNEL_BUSY"}
      /\ d.rxResetFlag \in BOOLEAN /\ (d.rxResetFlag \/ RxInStep(d))
  <2>1. RxTyped(x) /\ Receiving(x) /\ Sound(x)
    BY <1>6, SoundIsTyped DEF InIsr, Working, Sound
  <2>2. RxTyped(d)
    BY <1>7, <1>8, <2>1 DEF Keeps, RxTyped, Fields
  <2>3. Keeps(x, d, RxFields)
    BY <1>7 DEF Keeps, RxFields
  <2>4. Sound(d)
    BY <1>8, <2>1, <2>2, <2>3, RxOnly DEF Receiving
  <2>5. RxInStep(x) => RxInStep(d)
    BY <1>8, FlowInStep DEF Flow
  <2> QED BY <1>6, <1>8, <2>2, <2>4, <2>5
      DEF InIsr, Working, Enabled, Awaited, Tuned, Needed, NeedsReceiver, Queue, Calm, InCall,
          InGo, RxTyped
<1>10. CASE d.rxResetFlag = FALSE
  BY <1>3, <1>5, <1>6, <1>7, <1>9, <1>10 DEF Settled, Calm, t
<1>11. CASE d.rxResetFlag = TRUE
  <2> DEFINE h == RxHaltCleanupFinalStep(d)
  <2>1. /\ Sound(h) /\ Keeps(d, h, Resetting) /\ StartsOver(h) /\ Moves(d, h)
        /\ Needed(h, due) /\ Queue(h) /\ Enabled(h)
    BY <1>9, FinalStepEffect
  <2>2. t = [h EXCEPT !.rxResetFlag = FALSE]
    BY <1>3, <1>11
  <2> HIDE DEF h
  <2>3. Keeps(h, t, {"rxResetFlag"}) /\ t.rxResetFlag = FALSE
    BY <2>1, <2>2 DEF Sound, Keeps, Driver, Fields
  <2>4. /\ t.fifo = h.fifo /\ t.air = h.air /\ t.overflow = h.overflow
        /\ t.macRxActive = h.macRxActive /\ t.rxState = h.rxState /\ t.pRxBuf = h.pRxBuf
        /\ t.rxUnread = h.rxUnread /\ t.macRxOnFlag = h.macRxOnFlag
        /\ t.macRxEnableFlags = h.macRxEnableFlags /\ t.wanted = h.wanted
        /\ t.macTxActive = h.macTxActive /\ t.stopM = h.stopM
        /\ t.macPhyChannel = h.macPhyChannel /\ t.reqChannel = h.reqChannel
        /\ t.macRxOutgoingAckFlag = h.macRxOutgoingAckFlag
        /\ t.rxIsrActiveFlag = h.rxIsrActiveFlag
        /\ t.cspz = h.cspz /\ t.stopF = h.stopF /\ t.nb = h.nb
    BY <2>3 DEF Keeps, Fields
  <2>5. /\ h.wanted = d.wanted /\ h.macPhyChannel = d.macPhyChannel
        /\ h.reqChannel = d.reqChannel /\ h.rxIsrActiveFlag = FALSE
        /\ h.cspz = d.cspz /\ h.stopF = d.stopF /\ h.nb = d.nb
    BY <1>7, <2>1 DEF Keeps, Resetting, Receiver, Starting, Fields
  <2>6. Sound(t)
    <3>1. RxTyped(h) /\ Receiving(h)
      BY <2>1, SoundIsTyped DEF Sound
    <3>2. RxTyped(t)
      BY <2>3, <2>4, <3>1 DEF Keeps, RxTyped, Fields
    <3>3. Keeps(h, t, RxFields)
      BY <2>3 DEF Keeps, RxFields
    <3> QED BY <2>1, <2>4, <3>1, <3>2, <3>3, RxOnly DEF Receiving
  <2>7. RxInStep(t)
    BY <2>1, <2>4, StartsOverInStep DEF StartsOver
  <2>8. Settled(t, due)
    BY <1>9, <2>1, <2>3, <2>4, <2>5, <2>6, <2>7
    DEF Settled, Moves, Enabled, Awaited, Tuned, Needed, NeedsReceiver, Queue
  <2>9. Calm(d, t)
    BY <2>1, <2>4, <2>5 DEF Moves, Calm, InCall, InGo
  <2> QED BY <1>5, <1>6, <1>9, <2>8, <2>9 DEF Calm, t
<1> QED BY <1>9, <1>10, <1>11

-----------------------------------------------------------------------------
(* The other interrupts, and the steps of the radio                         *)

\* Fields that have no part in the invariant but for their types.
Aside == {"rferr", "nack", "ackDue", "ackF", "ackM", "intF", "intM", "asleep"}

\* A change of fields the invariant does not speak of.
LEMMA AsideEffect ==
  ASSUME NEW due \in BOOLEAN, NEW s, Settled(s, due), NEW t, Keeps(s, t, Aside),
         t.ackM \in BOOLEAN, t.asleep \in BOOLEAN
  PROVE  Settled(t, due) /\ Calm(s, t)
<1>1. \A x \in Fields \ Aside : t[x] = s[x]
  BY DEF Keeps
<1>2. /\ t.macTxActive = s.macTxActive /\ t.nb = s.nb /\ t.wanted = s.wanted /\ t.sent = s.sent
      /\ t.status = s.status /\ t.macRxActive = s.macRxActive
      /\ t.macRxOutgoingAckFlag = s.macRxOutgoingAckFlag /\ t.rxState = s.rxState
      /\ t.pRxBuf = s.pRxBuf /\ t.rxUnread = s.rxUnread
      /\ t.rxIsrActiveFlag = s.rxIsrActiveFlag /\ t.rxResetFlag = s.rxResetFlag
      /\ t.macRxOnFlag = s.macRxOnFlag /\ t.macRxEnableFlags = s.macRxEnableFlags
      /\ t.reqChannel = s.reqChannel /\ t.macPhyChannel = s.macPhyChannel
      /\ t.stopF = s.stopF /\ t.stopM = s.stopM /\ t.csp = s.csp /\ t.cspz = s.cspz
      /\ t.fifo = s.fifo /\ t.air = s.air /\ t.overflow = s.overflow /\ t.faults = s.faults
  BY <1>1 DEF Aside, Fields
<1>3. Typed(t)
  BY <1>2 DEF Settled, Sound, Typed
<1>4. Transmit(t) /\ Receiving(t)
  BY <1>2 DEF Settled, Sound, Transmit, Receiving
<1>5. RxInStep(t)
  BY <1>2, FlowInStep DEF Settled, Flow
<1>6. Enabled(t) /\ Awaited(t) /\ Tuned(t) /\ Needed(t, due) /\ Queue(t)
  BY <1>2 DEF Settled, Enabled, Awaited, Tuned, Needed, NeedsReceiver, Queue
<1> QED BY <1>2, <1>3, <1>4, <1>5, <1>6
    DEF Settled, Sound, Keeps, Calm, InCall, InGo

\* A step of the transmit.
Sending == TxFields \cup {"wanted", "sent", "status", "txAckReq"}

\* A change of the transmit fields by the foreground.
LEMMA SendingEffect ==
  ASSUME NEW due \in BOOLEAN, NEW s, Settled(s, due), NEW t, Keeps(s, t, Sending), Transmit(t),
         t.macTxActive \in {"NO_ACTIVITY", "INITIALIZE", "QUEUED", "GO", "LISTEN_FOR_ACK"},
         t.nb \in 0 .. MaxBackoffs + 1, t.stopF \in BOOLEAN, t.stopM \in BOOLEAN,
         t.wanted \in Nat, t.sent \in Nat, Awaited(t), Tuned(t), Queue(t),
         s.macTxActive \in {"GO", "LISTEN_FOR_ACK"} => t.macTxActive \in {"GO", "LISTEN_FOR_ACK"}
  PROVE  Settled(t, due)
<1>1. \A x \in Fields \ Sending : t[x] = s[x]
  BY DEF Keeps
<1>2. /\ t.macRxActive = s.macRxActive
      /\ t.macRxOutgoingAckFlag = s.macRxOutgoingAckFlag /\ t.rxState = s.rxState
      /\ t.pRxBuf = s.pRxBuf /\ t.rxUnread = s.rxUnread
      /\ t.rxIsrActiveFlag = s.rxIsrActiveFlag /\ t.rxResetFlag = s.rxResetFlag
      /\ t.macRxOnFlag = s.macRxOnFlag /\ t.macRxEnableFlags = s.macRxEnableFlags
      /\ t.reqChannel = s.reqChannel /\ t.macPhyChannel = s.macPhyChannel
      /\ t.asleep = s.asleep /\ t.ackM = s.ackM
      /\ t.fifo = s.fifo /\ t.air = s.air /\ t.overflow = s.overflow
  BY <1>1 DEF Sending, TxFields, Fields
<1>3. Typed(t)
  BY <1>2 DEF Settled, Sound, Typed
<1>4. Receiving(t)
  BY <1>2 DEF Settled, Sound, Receiving
<1>5. RxInStep(t)
  BY <1>2, FlowInStep DEF Settled, Flow
<1>6. Enabled(t) /\ Needed(t, due)
  BY <1>2 DEF Settled, Enabled, Needed, NeedsReceiver
<1> QED BY <1>2, <1>3, <1>4, <1>5, <1>6 DEF Settled, Sound, Keeps

\* A step of the receiver.
LEMMA ReceiverStep ==
  ASSUME NEW due \in BOOLEAN, NEW s, Settled(s, due), NEW t, NEW after \in BOOLEAN,
         Keeps(s, t, RxFields \cup {"macRxEnableFlags", "asleep"}),
         RxTyped(t), t.asleep \in BOOLEAN, t.macRxEnableFlags \in BOOLEAN,
         Receiving(t), Enabled(t), Tuned(t), Needed(t, after), Queue(t), RxInStep(t),
         t.rxIsrActiveFlag = FALSE, t.rxResetFlag = FALSE
  PROVE  Settled(t, after) /\ Calm(s, t)
<1>1. \A x \in Fields \ (RxFields \cup {"macRxEnableFlags", "asleep"}) : t[x] = s[x]
  BY DEF Keeps
<1>2. /\ t.macTxActive = s.macTxActive /\ t.nb = s.nb /\ t.wanted = s.wanted /\ t.sent = s.sent
      /\ t.status = s.status /\ t.reqChannel = s.reqChannel
      /\ t.stopF = s.stopF /\ t.stopM = s.stopM /\ t.csp = s.csp /\ t.cspz = s.cspz
      /\ t.faults = s.faults
  BY <1>1 DEF RxFields, Receiver, Fields
<1>3. Typed(t)
  BY <1>2 DEF Settled, Sound, Typed, RxTyped
<1>4. Transmit(t)
  BY <1>2 DEF Settled, Sound, Transmit
<1>5. Awaited(t)
  BY <1>2 DEF Settled, Awaited
<1> QED BY <1>2, <1>3, <1>4, <1>5 DEF Settled, Sound, Keeps, Calm, InCall, InGo

\* macRxAckTxDoneCallback
LEMMA AckTxDoneEffect ==
  ASSUME NEW due \in BOOLEAN, NEW s, Settled(s, due)
  PROVE  /\ Settled(MacRxAckTxDoneCallback(s), due) /\ Calm(s, MacRxAckTxDoneCallback(s))
<1> DEFINE d == [s EXCEPT !.macRxOutgoingAckFlag = FALSE]
           t == MacRxAckTxDoneCallback(s)
<1>1. Sound(s) /\ RxTyped(s) /\ Receiving(s) /\ Driver(s)
  BY SoundIsTyped DEF Settled, Sound
<1>2. Keeps(s, d, {"macRxOutgoingAckFlag"}) /\ d.macRxOutgoingAckFlag = FALSE
  BY <1>1 DEF Keeps, Driver, Fields
<1>3. t = IF d.macRxActive = "NO_ACTIVITY" THEN RxPostRxUpdates(d) ELSE d
  BY DEF MacRxAckTxDoneCallback
<1> HIDE DEF d, t
<1>4. Sound(d) /\ RxTyped(d) /\ Receiving(d)
  <2>1. Keeps(s, d, RxFields) /\ RxTyped(d) /\ Receiving(d)
    BY <1>1, <1>2 DEF Keeps, RxFields, RxTyped, Receiving, Fields
  <2> QED BY <1>1, <2>1, RxOnly
<1>5. /\ d.macTxActive = s.macTxActive /\ d.wanted = s.wanted /\ d.stopM = s.stopM
      /\ d.macPhyChannel = s.macPhyChannel /\ d.reqChannel = s.reqChannel
      /\ d.macRxEnableFlags = s.macRxEnableFlags /\ d.macRxOnFlag = s.macRxOnFlag
      /\ d.macRxActive = s.macRxActive /\ d.rxState = s.rxState /\ d.pRxBuf = s.pRxBuf
      /\ d.rxUnread = s.rxUnread /\ d.rxIsrActiveFlag = FALSE /\ d.rxResetFlag = FALSE
      /\ d.fifo = s.fifo /\ d.air = s.air /\ d.overflow = s.overflow
      /\ d.cspz = s.cspz /\ d.stopF = s.stopF /\ d.nb = s.nb /\ d.asleep = s.asleep
  BY <1>1, <1>2 DEF Keeps, Fields, Settled, RxTyped
<1>6. Enabled(d) /\ Awaited(d) /\ Tuned(d) /\ RxInStep(d)
  BY <1>5, FlowInStep DEF Settled, Enabled, Awaited, Tuned, Flow
<1>7. CASE d.macRxActive = "NO_ACTIVITY"
  <2>1. /\ Sound(t) /\ Keeps(d, t, Receiver \cup Starting) /\ Flow(d, t) /\ Moves(d, t)
        /\ Needed(t, FALSE) /\ t.macTxActive # "QUEUED" /\ Enabled(t)
    BY <1>2, <1>3, <1>4, <1>6, <1>7, PostRxEffect
  <2>2. /\ t.rxIsrActiveFlag = FALSE /\ t.rxResetFlag = FALSE
        /\ t.wanted = d.wanted /\ t.macPhyChannel = d.macPhyChannel
        /\ t.reqChannel = d.reqChannel /\ t.macRxActive = d.macRxActive
        /\ t.rxState = d.rxState /\ t.pRxBuf = d.pRxBuf /\ t.rxUnread = d.rxUnread
        /\ t.cspz = d.cspz /\ t.stopF = d.stopF /\ t.nb = d.nb
    BY <1>5, <2>1 DEF Keeps, Receiver, Starting, Fields
  <2>3. RxInStep(t)
    BY <1>6, <1>7, <2>1, <2>2, FlowInStep
  <2>4. Awaited(t) /\ Tuned(t) /\ Needed(t, due) /\ Queue(t)
    BY <1>6, <2>1, <2>2 DEF Awaited, Tuned, Moves, Needed, Queue
  <2>5. t.macTxActive \notin {"DONE", "POST_ACK", "CHANNEL_BUSY"}
    BY <1>5, <2>1 DEF Settled, Moves
  <2>6. Calm(s, t)
    BY <1>5, <2>1, <2>2 DEF Moves, Calm, InCall, InGo
  <2> QED BY <2>1, <2>2, <2>3, <2>4, <2>5, <2>6 DEF Settled, t
<1>8. CASE d.macRxActive # "NO_ACTIVITY"
  <2>1. t = d /\ d.macRxActive = "STARTED"
    BY <1>3, <1>4, <1>6, <1>8 DEF RxInStep, RxTyped
  <2>2. Settled(d, due)
    BY <1>4, <1>5, <1>6, <2>1 DEF Settled, Needed, NeedsReceiver, Queue
  <2> QED BY <1>5, <2>1, <2>2 DEF Calm, InCall, InGo, t
<1> QED BY <1>7, <1>8

\* macRxFifoOverflowIsr
LEMMA OverflowEffect ==
  ASSUME NEW due \in BOOLEAN, NEW s, Settled(s, due)
  PROVE  Settled(MacRxHaltCleanup(s), due) /\ Calm(s, MacRxHaltCleanup(s))
<1> DEFINE t == MacRxHaltCleanup(s)
<1>1. t = RxHaltCleanupFinalStep(s)
  BY DEF Settled, MacRxHaltCleanup
<1>2. /\ Sound(t) /\ Keeps(s, t, Resetting) /\ StartsOver(t) /\ Moves(s, t)
      /\ Needed(t, due) /\ Queue(t) /\ Enabled(t)
  BY <1>1, FinalStepEffect DEF Settled
<1> HIDE DEF t
<1>3. /\ t.wanted = s.wanted /\ t.macPhyChannel = s.macPhyChannel
      /\ t.reqChannel = s.reqChannel /\ t.rxIsrActiveFlag = s.rxIsrActiveFlag
      /\ t.rxResetFlag = s.rxResetFlag
      /\ t.cspz = s.cspz /\ t.stopF = s.stopF /\ t.nb = s.nb
  BY <1>2 DEF Keeps, Resetting, Receiver, Starting, Fields
<1>4. RxInStep(t)
  BY <1>2, StartsOverInStep
<1> QED BY <1>2, <1>3, <1>4
    DEF Settled, Awaited, Tuned, Moves, Calm, InCall, InGo, t

\* The actions: the interrupts,
LEMMA RfIsrStep ==
  ASSUME NEW due \in BOOLEAN, Settled(r, due), RfIsr
  PROVE  Settled(r', due) /\ Calm(r, r')
<1>1. Driver(r) /\ RxTyped(r) /\ r.asleep \in BOOLEAN
  BY SoundIsTyped DEF Settled, Sound, Typed
<1>2. CASE r.intF /\ r.intM
  <2>1. r' = [r EXCEPT !.intF = FALSE, !.intM = FALSE]
    BY <1>2 DEF RfIsr
  <2>2. Keeps(r, r', Aside) /\ r'.ackM = r.ackM /\ r'.asleep = r.asleep
    BY <1>1, <2>1 DEF Keeps, Driver, Aside, Fields
  <2> QED BY <1>1, <2>2, AsideEffect DEF RxTyped
<1>3. CASE ~(r.intF /\ r.intM) /\ r.stopF /\ r.stopM
  BY <1>3, StopIsrEffect DEF RfIsr
<1>4. CASE ~(r.intF /\ r.intM) /\ ~(r.stopF /\ r.stopM) /\ r.ackF /\ r.ackM
  <2> DEFINE d == [r EXCEPT !.ackM = FALSE]
  <2>1. r' = MacRxAckTxDoneCallback(d)
    BY <1>4 DEF RfIsr
  <2>2. Keeps(r, d, Aside) /\ d.ackM = FALSE /\ d.asleep = r.asleep
    BY <1>1 DEF Keeps, Driver, Aside, Fields
  <2> HIDE DEF d
  <2>3. Settled(d, due) /\ Calm(r, d)
    BY <1>1, <2>2, AsideEffect
  <2>4. Settled(r', due) /\ Calm(d, r')
    BY <2>1, <2>3, AckTxDoneEffect
  <2> QED BY <2>3, <2>4 DEF Calm
<1>5. CASE ~(r.intF /\ r.intM) /\ ~(r.stopF /\ r.stopM) /\ ~(r.ackF /\ r.ackM)
  <2>1. r' = r
    BY <1>5 DEF RfIsr
  <2> QED BY <2>1 DEF Calm
<1> QED BY <1>2, <1>3, <1>4, <1>5

LEMMA RfIsrFifopStep ==
  ASSUME NEW due \in BOOLEAN, Settled(r, due), RfIsrFifop
  PROVE  Settled(r', due) /\ Calm(r, r')
<1>1. CASE r.fifo = <<>>
  BY <1>1 DEF RfIsrFifop, Calm
<1>2. CASE r.fifo # <<>>
  BY <1>2, ThresholdEffect DEF RfIsrFifop
<1> QED BY <1>1, <1>2

LEMMA RfErrIsrStep ==
  ASSUME NEW due \in BOOLEAN, Settled(r, due), RfErrIsr
  PROVE  Settled(r', due) /\ Calm(r, r')
<1> DEFINE d == [r EXCEPT !.rferr = FALSE]
<1>1. r' = MacRxHaltCleanup(d)
  BY DEF RfErrIsr
<1>2. Driver(r) /\ r.ackM \in BOOLEAN /\ r.asleep \in BOOLEAN
  BY DEF Settled, Sound, Typed
<1>3. Keeps(r, d, Aside) /\ d.ackM = r.ackM /\ d.asleep = r.asleep
  BY <1>2 DEF Keeps, Driver, Aside, Fields
<1> HIDE DEF d
<1>4. Settled(d, due) /\ Calm(r, d)
  BY <1>2, <1>3, AsideEffect
<1>5. Settled(r', due) /\ Calm(d, r')
  BY <1>1, <1>4, OverflowEffect
<1> QED BY <1>4, <1>5 DEF Calm

\* A frame that begins follows what is read of the last one.
LEMMA FollowOn ==
  ASSUME NEW s, RxInStep(s), s.fifo \in Segs, s.air = <<>>, s.overflow = FALSE,
         \A i \in DOMAIN s.fifo : s.fifo[i].part \in {"payload", "fcs"},
         NEW g \in Frames, NEW t, t.fifo = s.fifo, t.air = Segments(g), t.overflow = FALSE,
         t.macRxActive = s.macRxActive, t.rxState = s.rxState, t.pRxBuf = s.pRxBuf,
         t.rxUnread = s.rxUnread
  PROVE  RxInStep(t)
<1> DEFINE S == [part : Parts, of : Frames]
<1>1. s.fifo \in Seq(S) /\ s.fifo \o s.air = s.fifo
  BY ConcatEmptySeq DEF Segs
<1>2. /\ Segments(g) \in Segs /\ AtMostAFrame(Segments(g)) /\ <<>> \o Segments(g) = Segments(g)
  BY SegmentsAreSegs, ConcatEmptySeq DEF AtMostAFrame, Segs
<1>3. \A f \in Frames : /\ Segments(f) \in Seq(S) /\ Len(Segments(f)) \in Nat \ {0}
                        /\ Segments(f)[1].part \notin {"payload", "fcs"}
  <2> TAKE f \in Frames
  <2>1. Segments(f) \in Seq(S) /\ Segments(f) # <<>>
    BY SegmentsAreSegs DEF Segs
  <2>2. Len(Segments(f)) \in Nat \ {0} /\ Head(Segments(f)) = Segments(f)[1]
    BY <2>1, EmptySeq
  <2>3. f.ack \in BOOLEAN
    BY FramesAssumption
  <2>4. Head(Segments(f)).part \in {"ack", "hdr"}
    BY <2>3, SegmentsAreSegs
  <2> QED BY <2>1, <2>2, <2>4
<1>4. Stream(t)
  <2>1. CASE s.rxState = "start" /\ AtMostAFrame(s.fifo \o s.air)
    <3>1. s.fifo = <<>>
      <4> SUFFICES ASSUME s.fifo # <<>> PROVE FALSE
        OBVIOUS
      <4>1. PICK f \in Frames : s.fifo = Segments(f)
        BY <1>1, <2>1 DEF AtMostAFrame
      <4>2. DOMAIN s.fifo = 1 .. Len(s.fifo)
        BY <1>1, LenProperties
      <4>3. 1 \in DOMAIN s.fifo
        BY <1>3, <4>1, <4>2
      <4> QED BY <1>3, <4>1, <4>3
    <3>2. t.fifo \o t.air = Segments(g)
      BY <1>2, <3>1
    <3> QED BY <1>2, <2>1, <3>2 DEF Stream
  <2>2. CASE \E f \in Frames, n \in Nat, q \in Segs :
               /\ s.fifo \o s.air = Rest(f, n) \o q /\ AtMostAFrame(q)
               /\ Unread(s, f, n)
    <3>1. PICK f \in Frames, n \in Nat, q \in Segs :
            /\ s.fifo \o s.air = Rest(f, n) \o q /\ AtMostAFrame(q)
            /\ Unread(s, f, n)
      BY <2>2
    <3>2. n \in 0 .. f.payload + 3 /\ ~f.ack
      BY <3>1, FramesAssumption DEF Unread
    <3>3. Rest(f, n) \in Seq(S) /\ Len(Rest(f, n)) = n /\ q \in Seq(S)
      BY <3>2, RestIs DEF Segs
    <3>4. q = <<>>
      <4> SUFFICES ASSUME q # <<>> PROVE FALSE
        OBVIOUS
      <4>1. PICK h \in Frames : q = Segments(h)
        BY <3>1 DEF AtMostAFrame
      <4>2. /\ Len(Rest(f, n) \o q) = n + Len(q) /\ Rest(f, n) \o q \in Seq(S)
            /\ \A i \in 1 .. n + Len(q) :
                 (Rest(f, n) \o q)[i] = IF i <= n THEN Rest(f, n)[i] ELSE q[i - n]
        <5>1. /\ Len(Rest(f, n) \o q) = Len(Rest(f, n)) + Len(q) /\ Rest(f, n) \o q \in Seq(S)
              /\ \A i \in 1 .. Len(Rest(f, n)) + Len(q) :
                   (Rest(f, n) \o q)[i] =
                      IF i <= Len(Rest(f, n)) THEN Rest(f, n)[i] ELSE q[i - Len(Rest(f, n))]
          BY <3>3, ConcatProperties
        <5> QED BY <3>3, <5>1
      <4>3. n + 1 \in 1 .. n + Len(q) /\ ~(n + 1 <= n) /\ (n + 1) - n = 1
        BY <1>3, <3>1, <4>1
      <4>4. (Rest(f, n) \o q)[n + 1] = q[1]
        BY <4>2, <4>3
      <4>5. DOMAIN s.fifo = 1 .. n + Len(q)
        BY <1>1, <3>1, <4>2, LenProperties
      <4>6. s.fifo[n + 1].part \in {"payload", "fcs"}
        BY <4>3, <4>5
      <4>7. s.fifo[n + 1] = q[1]
        BY <1>1, <3>1, <4>4
      <4> QED BY <1>3, <4>1, <4>6, <4>7
    <3>5. t.fifo \o t.air = Rest(f, n) \o Segments(g)
      <4>1. Rest(f, n) \o <<>> = Rest(f, n)
        BY <3>3, ConcatEmptySeq
      <4> QED BY <1>1, <3>1, <3>4, <4>1
    <3>6. Unread(t, f, n)
      BY <3>1 DEF Unread
    <3> QED BY <1>2, <3>5, <3>6 DEF Stream
  <2> QED BY <2>1, <2>2 DEF RxInStep, Stream
<1> QED BY <1>4 DEF RxInStep

\* the air,
LEMMA FrameStartsStep ==
  ASSUME NEW due \in BOOLEAN, Settled(r, due), FrameStarts
  PROVE  Settled(r', due) /\ Calm(r, r')
<1>1. PICK g \in Frames : r' = [r EXCEPT !.air = Segments(g), !.nack = FALSE]
  BY DEF FrameStarts, Radio
<1>2. Driver(r) /\ RxTyped(r) /\ r.asleep \in BOOLEAN /\ r.macRxEnableFlags \in BOOLEAN
  BY SoundIsTyped DEF Settled, Sound, Typed
<1>3. Keeps(r, r', {"air", "nack"}) /\ r'.air = Segments(g)
  BY <1>1, <1>2 DEF Keeps, Driver, Fields
<1>4. /\ r'.fifo = r.fifo /\ r'.overflow = FALSE /\ r.overflow = FALSE
      /\ r'.macRxActive = r.macRxActive /\ r'.rxState = r.rxState /\ r'.pRxBuf = r.pRxBuf
      /\ r'.rxUnread = r.rxUnread /\ r'.macRxOnFlag = r.macRxOnFlag /\ r.macRxOnFlag
      /\ r'.macRxEnableFlags = r.macRxEnableFlags /\ r'.asleep = r.asleep
      /\ r'.macTxActive = r.macTxActive /\ r'.macRxOutgoingAckFlag = r.macRxOutgoingAckFlag
      /\ r'.macPhyChannel = r.macPhyChannel /\ r'.reqChannel = r.reqChannel
      /\ r'.rxIsrActiveFlag = r.rxIsrActiveFlag /\ r'.rxResetFlag = r.rxResetFlag
  BY <1>2, <1>3 DEF Keeps, Fields, RxTyped, FrameStarts
<1>5. RxTyped(r')
  BY <1>2, <1>3, <1>4, SegmentsAreSegs DEF RxTyped, Keeps, Fields
<1>6. RxInStep(r')
  BY <1>2, <1>3, <1>4, FollowOn DEF Settled, FrameStarts, HeadersRead, RxTyped
<1>7. Keeps(r, r', RxFields \cup {"macRxEnableFlags", "asleep"})
  BY <1>3 DEF Keeps, RxFields, Receiver
<1>8. /\ Receiving(r') /\ Enabled(r') /\ Tuned(r') /\ Needed(r', due) /\ Queue(r')
      /\ r'.rxIsrActiveFlag = FALSE /\ r'.rxResetFlag = FALSE
  BY <1>2, <1>4
  DEF Settled, Receiving, Enabled, Tuned, Needed, NeedsReceiver, Queue, RxTyped
<1> QED BY <1>2, <1>4, <1>5, <1>6, <1>7, <1>8, ReceiverStep

\* A segment moves from the air to the FIFO.
LEMMA Appended ==
  ASSUME NEW x \in Segs, NEW y \in Segs, y # <<>>
  PROVE  /\ Append(x, Head(y)) \in Segs /\ Len(Append(x, Head(y))) = Len(x) + 1
         /\ Tail(y) \in Segs
         /\ Append(x, Head(y)) \o Tail(y) = x \o y
<1> DEFINE S == [part : Parts, of : Frames]
           a == Append(x, Head(y))
<1>1. x \in Seq(S) /\ y \in Seq(S)
  BY DEF Segs
<1> HIDE DEF S
<1>2. /\ Head(y) \in S /\ Tail(y) \in Seq(S) /\ Len(Tail(y)) = Len(y) - 1
      /\ \A i \in 1 .. Len(y) - 1 : Tail(y)[i] = y[i + 1]
  BY <1>1, HeadTailProperties
<1>3. Len(x) \in Nat /\ Len(y) \in Nat /\ Len(y) # 0 /\ Head(y) = y[1]
  BY <1>1, EmptySeq, LenProperties
<1>4. /\ a \in Seq(S) /\ Len(a) = Len(x) + 1 /\ a[Len(x) + 1] = Head(y)
      /\ \A i \in 1 .. Len(x) : a[i] = x[i]
  BY <1>1, <1>2, <1>3
<1> HIDE DEF a
<1>5. /\ a \o Tail(y) \in Seq(S) /\ Len(a \o Tail(y)) = Len(x) + Len(y)
      /\ \A i \in 1 .. Len(x) + Len(y) :
           (a \o Tail(y))[i] = IF i <= Len(x) + 1 THEN a[i] ELSE Tail(y)[i - (Len(x) + 1)]
  <2>1. /\ a \o Tail(y) \in Seq(S) /\ Len(a \o Tail(y)) = Len(a) + Len(Tail(y))
        /\ \A i \in 1 .. Len(a) + Len(Tail(y)) :
             (a \o Tail(y))[i] = IF i <= Len(a) THEN a[i] ELSE Tail(y)[i - Len(a)]
    BY <1>2, <1>4, ConcatProperties
  <2>2. Len(a) + Len(Tail(y)) = Len(x) + Len(y)
    BY <1>2, <1>3, <1>4
  <2> QED BY <1>4, <2>1, <2>2
<1>6. /\ x \o y \in Seq(S) /\ Len(x \o y) = Len(x) + Len(y)
      /\ \A i \in 1 .. Len(x) + Len(y) : (x \o y)[i] = IF i <= Len(x) THEN x[i] ELSE y[i - Len(x)]
  BY <1>1, ConcatProperties
<1>7. \A i \in 1 .. Len(x) + Len(y) : (a \o Tail(y))[i] = (x \o y)[i]
  <2> TAKE i \in 1 .. Len(x) + Len(y)
  <2>1. CASE i <= Len(x)
    <3>1. i <= Len(x) + 1 /\ i \in 1 .. Len(x)
      BY <1>3, <2>1
    <3> QED BY <1>4, <1>5, <1>6, <2>1, <3>1
  <2>2. CASE i = Len(x) + 1
    <3>1. i <= Len(x) + 1 /\ ~(i <= Len(x)) /\ i - Len(x) = 1
      BY <1>3, <2>2
    <3> QED BY <1>3, <1>4, <1>5, <1>6, <2>2, <3>1
  <2>3. CASE i > Len(x) + 1
    <3>1. /\ ~(i <= Len(x) + 1) /\ ~(i <= Len(x)) /\ i - (Len(x) + 1) \in 1 .. Len(y) - 1
          /\ i - (Len(x) + 1) + 1 = i - Len(x)
      BY <1>3, <2>3
    <3>2. Tail(y)[i - (Len(x) + 1)] = y[i - Len(x)]
      BY <1>2, <3>1
    <3>3. (a \o Tail(y))[i] = Tail(y)[i - (Len(x) + 1)]
      BY <1>5, <3>1
    <3>4. (x \o y)[i] = y[i - Len(x)]
      BY <1>6, <3>1
    <3> QED BY <3>2, <3>3, <3>4
  <2>4. i <= Len(x) \/ i = Len(x) + 1 \/ i > Len(x) + 1
    BY <1>3
  <2> QED BY <2>1, <2>2, <2>3, <2>4
<1>8. a \o Tail(y) = x \o y
  BY <1>5, <1>6, <1>7, SeqEqual
<1> QED BY <1>2, <1>4, <1>8 DEF a, S, Segs

LEMMA SegmentArrivesStep ==
  ASSUME NEW due \in BOOLEAN, Settled(r, due), SegmentArrives
  PROVE  Settled(r', due) /\ Calm(r, r')
<1>1. Driver(r) /\ RxTyped(r) /\ r.asleep \in BOOLEAN /\ r.macRxEnableFlags \in BOOLEAN
  BY SoundIsTyped DEF Settled, Sound, Typed
<1>2. r.air # <<>> /\ r.macRxOnFlag
  BY DEF SegmentArrives, Settled, Sound, Receiving
<1>3. /\ r.fifo \in Segs /\ r.air \in Segs /\ Len(r.fifo) \in Nat /\ Len(r.fifo) <= FifoSize
      /\ FifoSize \in Nat
  BY <1>1, LenProperties, BoundsAssumption DEF RxTyped, Segs
<1>4. /\ Keeps(r, r', {"air", "fifo", "overflow", "rferr", "ackDue"})
      /\ \/ /\ r'.air = <<>> /\ r'.fifo = r.fifo /\ r'.overflow = TRUE
         \/ /\ Len(r.fifo) # FifoSize /\ r'.air = Tail(r.air)
            /\ r'.fifo = Append(r.fifo, Head(r.air)) /\ r'.overflow = r.overflow
  <2>1. CASE Len(r.fifo) = FifoSize
    <3>1. r' = [r EXCEPT !.air = <<>>, !.overflow = TRUE, !.rferr = TRUE]
      BY <2>1 DEF SegmentArrives, Radio
    <3> QED BY ZenonT(40), <1>1, <3>1 DEF Keeps, Driver, Fields
  <2>2. CASE Len(r.fifo) # FifoSize
    <3>1. PICK due2 : r' = [r EXCEPT !.air = Tail(@), !.fifo = Append(@, Head(r.air)), !.ackDue = due2]
      BY <2>2 DEF SegmentArrives, Radio
    <3> QED BY ZenonT(40), <1>1, <2>2, <3>1 DEF Keeps, Driver, Fields
  <2> QED BY <2>1, <2>2
<1>5. /\ r'.macRxActive = r.macRxActive /\ r'.rxState = r.rxState /\ r'.pRxBuf = r.pRxBuf
      /\ r'.rxUnread = r.rxUnread /\ r'.macRxOnFlag = r.macRxOnFlag
      /\ r'.macRxEnableFlags = r.macRxEnableFlags /\ r'.asleep = r.asleep
      /\ r'.macTxActive = r.macTxActive /\ r'.macRxOutgoingAckFlag = r.macRxOutgoingAckFlag
      /\ r'.macPhyChannel = r.macPhyChannel /\ r'.reqChannel = r.reqChannel
      /\ r'.rxIsrActiveFlag = r.rxIsrActiveFlag /\ r'.rxResetFlag = r.rxResetFlag
      /\ r'.ackM = r.ackM
  BY <1>4 DEF Keeps, Fields
<1>6. /\ r'.fifo \in Segs /\ r'.air \in Segs /\ Len(r'.fifo) <= FifoSize
      /\ r'.overflow \in BOOLEAN
      /\ r'.overflow = TRUE \/ (r'.fifo \o r'.air = r.fifo \o r.air /\ r'.overflow = r.overflow)
  <2>1. CASE r'.air = <<>> /\ r'.fifo = r.fifo /\ r'.overflow = TRUE
    BY <1>3, <2>1, Emptied
  <2>2. CASE /\ Len(r.fifo) # FifoSize /\ r'.air = Tail(r.air)
             /\ r'.fifo = Append(r.fifo, Head(r.air)) /\ r'.overflow = r.overflow
    <3>1. /\ r'.fifo \in Segs /\ r'.air \in Segs /\ Len(r'.fifo) = Len(r.fifo) + 1
          /\ r'.fifo \o r'.air = r.fifo \o r.air
      <4>1. /\ Append(r.fifo, Head(r.air)) \in Segs /\ Tail(r.air) \in Segs
            /\ Len(Append(r.fifo, Head(r.air))) = Len(r.fifo) + 1
            /\ Append(r.fifo, Head(r.air)) \o Tail(r.air) = r.fifo \o r.air
        BY <1>2, <1>3, Appended
      <4> QED BY <2>2, <4>1
    <3>2. Len(r.fifo) + 1 <= FifoSize
      BY <1>3, <2>2
    <3>3. r'.overflow \in BOOLEAN
      BY <1>1, <2>2 DEF RxTyped
    <3> QED BY <2>2, <3>1, <3>2, <3>3
  <2> QED BY <1>4, <2>1, <2>2
<1>7. RxTyped(r')
  BY <1>1, <1>5, <1>6 DEF RxTyped
<1>8. RxInStep(r')
  BY ZenonT(40), <1>5, <1>6 DEF Settled, RxInStep, Stream, Unread
<1>9. Keeps(r, r', RxFields \cup {"macRxEnableFlags", "asleep"})
  BY <1>4 DEF Keeps, RxFields, Receiver
<1>10. /\ Receiving(r') /\ Enabled(r') /\ Tuned(r') /\ Needed(r', due) /\ Queue(r')
       /\ r'.rxIsrActiveFlag = FALSE /\ r'.rxResetFlag = FALSE
  BY <1>1, <1>2, <1>5
  DEF Settled, Receiving, Enabled, Tuned, Needed, NeedsReceiver, Queue, RxTyped
<1> QED BY <1>1, <1>5, <1>7, <1>8, <1>9, <1>10, ReceiverStep

LEMMA AckSentStep ==
  ASSUME NEW due \in BOOLEAN, Settled(r, due), AckSent
  PROVE  Settled(r', due) /\ Calm(r, r')
<1>1. r' = [r EXCEPT !.ackDue = FALSE, !.ackF = TRUE]
  BY DEF AckSent, Radio
<1>2. Driver(r) /\ r.ackM \in BOOLEAN /\ r.asleep \in BOOLEAN
  BY DEF Settled, Sound, Typed
<1>3. Keeps(r, r', Aside) /\ r'.ackM = r.ackM /\ r'.asleep = r.asleep
  BY <1>1, <1>2 DEF Keeps, Driver, Aside, Fields
<1> QED BY <1>2, <1>3, AsideEffect

\* The program of the strobe processor goes on, or ends.
LEMMA CspStep ==
  ASSUME NEW due \in BOOLEAN, Settled(r, due), Csp
  PROVE  Settled(r', due) /\ Calm(r, r')
<1>1. Sound(r) /\ Driver(r) /\ Typed(r) /\ Transmit(r)
  BY DEF Settled, Sound
<1>2. /\ Keeps(r, r', {"csp", "cspz", "stopF", "intF"})
      /\ r.csp \in {"csma", "tx", "ackwait"}
      /\ \/ /\ r.csp = "csma" /\ r'.csp = "idle" /\ r'.cspz = r.cspz /\ r'.stopF = TRUE
         \/ /\ r.csp = "csma" /\ r'.csp = "tx" /\ r'.cspz = r.cspz /\ r'.stopF = r.stopF
         \/ /\ r.csp = "tx" /\ r'.csp = "idle" /\ r'.cspz = "DONE" /\ r'.stopF = TRUE
         \/ /\ r.csp = "ackwait" /\ r'.csp = "idle" /\ r'.cspz = r.cspz /\ r'.stopF = TRUE
  <2>1. CASE CspBusy
    <3>1. r' = [r EXCEPT !.csp = "idle", !.stopF = TRUE] /\ r.csp = "csma"
      BY <2>1 DEF CspBusy, Radio
    <3> QED BY <1>1, <3>1 DEF Keeps, Driver, Fields
  <2>2. CASE CspStrobe
    <3>1. r' = [r EXCEPT !.csp = "tx", !.intF = TRUE] /\ r.csp = "csma"
      BY <2>2 DEF CspStrobe, Radio
    <3> QED BY <1>1, <3>1 DEF Keeps, Driver, Fields
  <2>3. CASE CspTxEnd
    <3>1. r' = [r EXCEPT !.csp = "idle", !.cspz = "DONE", !.stopF = TRUE] /\ r.csp = "tx"
      BY <2>3 DEF CspTxEnd, Radio
    <3> QED BY ZenonT(40), <1>1, <3>1 DEF Keeps, Driver, Fields
  <2>4. CASE CspAckTimeout
    <3>1. r' = [r EXCEPT !.csp = "idle", !.stopF = TRUE] /\ r.csp = "ackwait"
      BY <2>4 DEF CspAckTimeout, Radio
    <3> QED BY <1>1, <3>1 DEF Keeps, Driver, Fields
  <2> QED BY <2>1, <2>2, <2>3, <2>4 DEF Csp
<1>3. /\ r'.macTxActive = r.macTxActive /\ r'.nb = r.nb /\ r'.stopM = r.stopM
      /\ r'.wanted = r.wanted /\ r'.sent = r.sent /\ r'.status = r.status
      /\ r'.faults = r.faults /\ r'.macPhyChannel = r.macPhyChannel
      /\ r'.reqChannel = r.reqChannel /\ r'.macRxActive = r.macRxActive
      /\ r'.macRxOutgoingAckFlag = r.macRxOutgoingAckFlag
  BY <1>2 DEF Keeps, Fields
<1>4. r.macTxActive \in {"GO", "LISTEN_FOR_ACK"} /\ r.stopM
  BY <1>1, <1>2 DEF Transmit
<1>5. Transmit(r')
  BY <1>1, <1>2, <1>3, <1>4 DEF Transmit
<1>6. Keeps(r, r', Sending)
  BY <1>2 DEF Keeps, Sending, TxFields
<1>7. /\ r'.nb \in 0 .. MaxBackoffs + 1 /\ r'.stopF \in BOOLEAN /\ r'.stopM \in BOOLEAN
      /\ r'.wanted \in Nat /\ r'.sent \in Nat
  <2>1. r'.stopF = TRUE \/ r'.stopF = r.stopF
    BY <1>2
  <2> QED BY <1>1, <1>3, <2>1 DEF Typed
<1>8. Awaited(r') /\ Tuned(r') /\ Queue(r')
  BY <1>3 DEF Settled, Awaited, Tuned, Queue
<1>9. Settled(r', due)
  BY <1>3, <1>4, <1>5, <1>6, <1>7, <1>8, SendingEffect
<1> QED BY <1>3, <1>4, <1>9 DEF Calm, InCall, InGo

-----------------------------------------------------------------------------
(* The foreground                                                           *)

\* and the calls of the foreground.
LEMMA TxFrameStep ==
  ASSUME Settled(r, FALSE), TxFrame
  PROVE  Settled(r', FALSE) /\ InCall(r') /\ ~InGo(r')
<1>1. Sound(r) /\ Driver(r) /\ Typed(r) /\ Transmit(r)
  BY DEF Settled, Sound
<1>2. r.macTxActive = "NO_ACTIVITY"
  BY DEF TxFrame, Settled, Awaited
<1>3. /\ Keeps(r, r', {"macTxActive", "wanted", "sent", "txAckReq"})
      /\ r'.macTxActive = "INITIALIZE" /\ r'.wanted \in Nat \ {0} /\ r'.sent \in Nat \ {0}
  <2> DEFINE a == [r EXCEPT !.macTxActive = "INITIALIZE"]
  <2>1. Require(r, r.macTxActive = "NO_ACTIVITY", "txOnTx") = r
    BY <1>2 DEF Require
  <2>2. \/ \E ackReq : r' = [a EXCEPT !.wanted = r.sent + 1, !.sent = @ + 1, !.txAckReq = ackReq]
        \/ r.status = "NO_ACK" /\ r' = [a EXCEPT !.wanted = r.sent]
    BY <2>1 DEF TxFrame
  <2>3. Keeps(r, a, {"macTxActive"}) /\ a.macTxActive = "INITIALIZE"
    BY <1>1 DEF Keeps, Driver, Fields
  <2> HIDE DEF a
  <2>4. a.sent = r.sent /\ r.sent \in Nat
    BY <1>1, <2>3 DEF Keeps, Fields, Typed
  <2>5. CASE \E ackReq : r' = [a EXCEPT !.wanted = r.sent + 1, !.sent = @ + 1, !.txAckReq = ackReq]
    <3>1. PICK ackReq : r' = [a EXCEPT !.wanted = r.sent + 1, !.sent = @ + 1, !.txAckReq = ackReq]
      BY <2>5
    <3>2. /\ Keeps(a, r', {"wanted", "sent", "txAckReq"})
          /\ r'.wanted = r.sent + 1 /\ r'.sent = r.sent + 1
      BY ZenonT(40), <2>3, <2>4, <3>1 DEF Keeps, Driver, Fields
    <3> QED BY <2>3, <2>4, <3>2 DEF Keeps, Fields
  <2>6. CASE r.status = "NO_ACK" /\ r' = [a EXCEPT !.wanted = r.sent]
    <3>1. Keeps(a, r', {"wanted"}) /\ r'.wanted = r.sent
      BY <2>3, <2>6 DEF Keeps, Driver, Fields
    <3>2. r.sent # 0
      BY <1>1, <2>6 DEF Transmit
    <3> QED BY <2>3, <2>4, <3>1, <3>2 DEF Keeps, Fields
  <2> QED BY <2>2, <2>5, <2>6
<1>4. /\ r'.nb = r.nb /\ r'.stopM = r.stopM /\ r'.stopF = r.stopF /\ r'.csp = r.csp
      /\ r'.cspz = r.cspz /\ r'.status = r.status /\ r'.faults = r.faults
  BY <1>3 DEF Keeps, Fields
<1>5. ~r.stopM
  BY <1>1, <1>2 DEF Transmit
<1>6. Transmit(r')
  BY <1>1, <1>2, <1>3, <1>4, <1>5 DEF Transmit
<1>7. Keeps(r, r', Sending)
  BY <1>3 DEF Keeps, Sending, TxFields
<1>8. r'.nb \in 0 .. MaxBackoffs + 1 /\ r'.stopF \in BOOLEAN /\ r'.stopM \in BOOLEAN
  BY <1>1, <1>4 DEF Typed
<1>9. Awaited(r') /\ Tuned(r') /\ Queue(r')
  BY <1>3 DEF Awaited, Tuned, Queue
<1>10. Settled(r', FALSE)
  BY <1>2, <1>3, <1>6, <1>7, <1>8, <1>9, SendingEffect
<1> QED BY <1>3, <1>10 DEF InCall, InGo

LEMMA TxPrepareStep ==
  ASSUME Settled(r, FALSE), r.macTxActive = "INITIALIZE", TxPrepare
  PROVE  /\ Settled(r', FALSE) /\ ~InGo(r')
         /\ \/ pc' = "idle" /\ ~InCall(r')
            \/ /\ pc' = "load" /\ InCall(r')
               /\ r'.cspz = "BUSY" /\ ~r'.stopF /\ r'.nb = 0
<1>1. Sound(r) /\ Driver(r) /\ Typed(r) /\ Transmit(r)
  BY DEF Settled, Sound
<1>2. CASE r.asleep
  <2>1. r' = TxComplete(r, "TX_ABORTED") /\ pc' = "idle"
    BY <1>2 DEF TxPrepare
  <2>2. Ending(r) /\ r.rxIsrActiveFlag = FALSE /\ r.rxResetFlag = FALSE
    BY <1>1 DEF Settled, Ending, Awaited, Typed
  <2>3. Ended(r') /\ Settled(r', FALSE)
    BY <2>1, <2>2, TxCompleteOutside DEF Settled
  <2> QED BY <2>1, <2>3 DEF Ended, InCall, InGo
<1>3. CASE ~r.asleep
  <2> DEFINE p == CspPrepForTxProgram(r)
  <2>1. r' = [p EXCEPT !.nb = 0] /\ pc' = "load"
    BY <1>3 DEF TxPrepare
  <2>2. ~r.stopM
    BY <1>1 DEF Transmit
  <2>3. /\ Keeps(r, p, {"cspz", "csp", "stopF", "intF"})
        /\ p.cspz = "BUSY" /\ p.stopF = FALSE /\ p.csp = "idle"
    <3>1. p = [r EXCEPT !.cspz = "BUSY", !.csp = "idle", !.stopF = FALSE, !.intF = FALSE]
      BY <2>2 DEF CspPrepForTxProgram, Require
    <3> HIDE DEF p
    <3> QED BY ZenonT(40), <1>1, <3>1 DEF Driver, Keeps, Fields
  <2> HIDE DEF p
  <2>4. Keeps(p, r', {"nb"}) /\ r'.nb = 0
    BY <2>1, <2>3 DEF Driver, Keeps, Fields
  <2>5. /\ r'.cspz = "BUSY" /\ r'.stopF = FALSE /\ r'.csp = "idle"
        /\ r'.macTxActive = r.macTxActive /\ r'.stopM = r.stopM
        /\ r'.wanted = r.wanted /\ r'.sent = r.sent /\ r'.status = r.status
        /\ r'.faults = r.faults
    BY <2>3, <2>4 DEF Keeps, Fields
  <2>6. Transmit(r')
    BY <1>1, <2>2, <2>5 DEF Transmit
  <2>7. Keeps(r, r', Sending)
    BY <2>3, <2>4 DEF Keeps, Sending, TxFields
  <2>8. /\ r'.nb \in 0 .. MaxBackoffs + 1 /\ r'.stopF \in BOOLEAN /\ r'.stopM \in BOOLEAN
        /\ r'.wanted \in Nat /\ r'.sent \in Nat
    <3>1. r'.nb \in 0 .. MaxBackoffs + 1
      BY <2>4, BoundsAssumption
    <3> QED BY <1>1, <2>5, <3>1 DEF Typed
  <2>9. Awaited(r') /\ Tuned(r') /\ Queue(r')
    BY <2>5 DEF Settled, Awaited, Tuned, Queue
  <2>10. Settled(r', FALSE)
    BY <2>5, <2>6, <2>7, <2>8, <2>9, SendingEffect
  <2> QED BY <2>1, <2>4, <2>5, <2>10 DEF InCall, InGo
<1> QED BY <1>2, <1>3

LEMMA TxDecideStep ==
  ASSUME Settled(r, FALSE), r.macTxActive = "INITIALIZE", r.cspz = "BUSY", ~r.stopF, r.nb = 0,
         TxDecide
  PROVE  /\ Settled(r', FALSE) /\ ~InCall(r')
         /\ \/ pc' = "go" /\ InGo(r')
            \/ pc' = "idle" /\ ~InGo(r')
<1>1. Sound(r) /\ Driver(r) /\ Typed(r) /\ Transmit(r)
  BY DEF Settled, Sound
<1>2. /\ Keeps(r, r', {"macTxActive"})
      /\ \/ pc' = "go" /\ r'.macTxActive = "GO"
         \/ /\ pc' = "idle" /\ r'.macTxActive = "QUEUED"
            /\ r.macRxActive # "NO_ACTIVITY" \/ r.macRxOutgoingAckFlag
  <2>1. CASE r.macRxActive = "NO_ACTIVITY" /\ ~r.macRxOutgoingAckFlag
    <3>1. r' = [r EXCEPT !.macTxActive = "GO"] /\ pc' = "go"
      BY <2>1 DEF TxDecide
    <3> QED BY <1>1, <3>1 DEF Keeps, Driver, Fields
  <2>2. CASE ~(r.macRxActive = "NO_ACTIVITY" /\ ~r.macRxOutgoingAckFlag)
    <3>1. r' = [r EXCEPT !.macTxActive = "QUEUED"] /\ pc' = "idle"
      BY <2>2 DEF TxDecide
    <3> QED BY <1>1, <2>2, <3>1 DEF Keeps, Driver, Fields
  <2> QED BY <2>1, <2>2
<1>3. /\ r'.nb = 0 /\ r'.stopM = r.stopM /\ r'.stopF = r.stopF /\ r'.csp = r.csp
      /\ r'.cspz = "BUSY" /\ r'.status = r.status /\ r'.faults = r.faults
      /\ r'.wanted = r.wanted /\ r'.sent = r.sent /\ r'.macRxActive = r.macRxActive
      /\ r'.macRxOutgoingAckFlag = r.macRxOutgoingAckFlag
  BY <1>2 DEF Keeps, Fields
<1>4. ~r.stopM /\ 0 <= MaxBackoffs
  BY <1>1, BoundsAssumption DEF Transmit
<1>5. Transmit(r')
  BY <1>1, <1>2, <1>3, <1>4 DEF Transmit
<1>6. Keeps(r, r', Sending)
  BY <1>2 DEF Keeps, Sending, TxFields
<1>7. /\ r'.nb \in 0 .. MaxBackoffs + 1 /\ r'.stopF \in BOOLEAN /\ r'.stopM \in BOOLEAN
      /\ r'.wanted \in Nat /\ r'.sent \in Nat
  <2>1. r'.nb \in 0 .. MaxBackoffs + 1
    BY <1>3, BoundsAssumption
  <2> QED BY <1>1, <1>3, <2>1 DEF Typed
<1>8. Queue(r')
  <2>1. r.macRxActive \in {"NO_ACTIVITY", "STARTED"}
    BY <1>1 DEF Settled, RxInStep, Typed
  <2> QED BY <1>2, <1>3, <2>1 DEF Queue
<1>9. Awaited(r') /\ Tuned(r')
  BY <1>2, <1>3 DEF Settled, Awaited, Tuned
<1>10. Settled(r', FALSE)
  BY <1>2, <1>5, <1>6, <1>7, <1>8, <1>9, SendingEffect
<1>11. r'.macTxActive # "INITIALIZE" /\ ~r'.stopM
  BY <1>2, <1>3, <1>4
<1> QED BY <1>2, <1>10, <1>11 DEF InCall, InGo

LEMMA TxGoCancelStep ==
  ASSUME Settled(r, FALSE), InGo(r), TxGoCancel
  PROVE  Settled(r', FALSE) /\ Calm(r, r')
<1>1. Driver(r) /\ RxTyped(r) /\ r.asleep \in BOOLEAN /\ r.macRxEnableFlags \in BOOLEAN
  BY SoundIsTyped DEF Settled, Sound, Typed
<1>2. r' = [r EXCEPT !.ackM = FALSE, !.macRxOutgoingAckFlag = FALSE]
  BY DEF TxGoCancel, CancelAckTxDone
<1>3. /\ Keeps(r, r', {"ackM", "macRxOutgoingAckFlag"})
      /\ r'.ackM = FALSE /\ r'.macRxOutgoingAckFlag = FALSE
  BY <1>1, <1>2 DEF Keeps, Driver, Fields
<1>4. /\ r'.macRxActive = r.macRxActive /\ r'.rxState = r.rxState /\ r'.pRxBuf = r.pRxBuf
      /\ r'.rxUnread = r.rxUnread /\ r'.macRxOnFlag = r.macRxOnFlag
      /\ r'.macRxEnableFlags = r.macRxEnableFlags /\ r'.asleep = r.asleep
      /\ r'.macTxActive = "GO"
      /\ r'.macPhyChannel = r.macPhyChannel /\ r'.reqChannel = r.reqChannel
      /\ r'.rxIsrActiveFlag = r.rxIsrActiveFlag /\ r'.rxResetFlag = r.rxResetFlag
      /\ r'.fifo = r.fifo /\ r'.air = r.air /\ r'.overflow = r.overflow
  BY <1>3 DEF Keeps, Fields, InGo
<1>5. RxTyped(r')
  BY <1>1, <1>3, <1>4 DEF RxTyped
<1>6. RxInStep(r')
  BY <1>4, FlowInStep DEF Settled, Flow
<1>7. Keeps(r, r', RxFields \cup {"macRxEnableFlags", "asleep"})
  BY <1>3 DEF Keeps, RxFields
<1>8. /\ Receiving(r') /\ Enabled(r') /\ Tuned(r') /\ Needed(r', FALSE) /\ Queue(r')
      /\ r'.rxIsrActiveFlag = FALSE /\ r'.rxResetFlag = FALSE
  BY <1>1, <1>4
  DEF Settled, Sound, Receiving, Enabled, Tuned, Needed, NeedsReceiver, Queue, RxTyped
<1> QED BY <1>1, <1>4, <1>5, <1>6, <1>7, <1>8, ReceiverStep

LEMMA TxGoCsmaStep ==
  ASSUME Settled(r, FALSE), InGo(r), TxGoCsma
  PROVE  Settled(r', FALSE) /\ ~InCall(r') /\ ~InGo(r')
<1>1. Sound(r) /\ Driver(r) /\ Typed(r) /\ RxTyped(r) /\ Transmit(r)
  BY SoundIsTyped DEF Settled, Sound
<1>2. r' = [r EXCEPT !.macRxOnFlag = TRUE, !.stopM = TRUE, !.intM = TRUE, !.csp = "csma"]
  BY DEF TxGoCsma, CspTxGoCsma, MacRxOn
<1>3. /\ Keeps(r, r', {"macRxOnFlag", "stopM", "intM", "csp"})
      /\ r'.macRxOnFlag = TRUE /\ r'.stopM = TRUE /\ r'.csp = "csma"
  BY ZenonT(40), <1>1, <1>2 DEF Keeps, Driver, Fields
\* the receiver, and then the program
<1> DEFINE e == [r EXCEPT !.macRxOnFlag = TRUE]
<1>4. Keeps(r, e, {"macRxOnFlag"}) /\ e.macRxOnFlag = TRUE
  BY <1>1 DEF Keeps, Driver, Fields
<1> HIDE DEF e
<1>5. /\ e.macRxActive = r.macRxActive /\ e.rxState = r.rxState /\ e.pRxBuf = r.pRxBuf
      /\ e.rxUnread = r.rxUnread
      /\ e.macRxEnableFlags = r.macRxEnableFlags /\ e.asleep = r.asleep
      /\ e.macTxActive = "GO" /\ e.stopM = r.stopM
      /\ e.macPhyChannel = r.macPhyChannel /\ e.reqChannel = r.reqChannel
      /\ e.rxIsrActiveFlag = r.rxIsrActiveFlag /\ e.rxResetFlag = r.rxResetFlag
      /\ e.fifo = r.fifo /\ e.air = r.air /\ e.overflow = r.overflow
  BY <1>4 DEF Keeps, Fields, InGo
<1>6. Settled(e, FALSE)
  <2>1. RxTyped(e)
    BY <1>1, <1>4 DEF Keeps, RxTyped, Fields
  <2>2. RxInStep(e)
    BY <1>5, FlowInStep DEF Settled, Flow
  <2>3. Keeps(r, e, RxFields \cup {"macRxEnableFlags", "asleep"})
    BY <1>4 DEF Keeps, RxFields, Receiver
  <2>4. /\ Receiving(e) /\ Enabled(e) /\ Tuned(e) /\ Needed(e, FALSE) /\ Queue(e)
        /\ e.rxIsrActiveFlag = FALSE /\ e.rxResetFlag = FALSE
    BY <1>1, <1>4, <1>5 DEF Settled, Receiving, Enabled, Tuned, Needed, NeedsReceiver, Queue, RxTyped
  <2>5. e.asleep \in BOOLEAN /\ e.macRxEnableFlags \in BOOLEAN
    BY <1>1, <1>5 DEF Typed
  <2> QED BY <2>1, <2>2, <2>3, <2>4, <2>5, ReceiverStep
<1>7. /\ Keeps(e, r', {"stopM", "intM", "csp"})
  BY <1>3, <1>4 DEF Keeps
<1>8. /\ r'.macTxActive = "GO" /\ r'.nb = e.nb /\ r'.stopF = e.stopF /\ r'.cspz = e.cspz
      /\ r'.status = e.status /\ r'.faults = e.faults
      /\ r'.wanted = e.wanted /\ r'.sent = e.sent
  BY <1>5, <1>7 DEF Keeps, Fields
<1>9. ~e.stopM /\ Transmit(e) /\ Typed(e)
  BY <1>5, <1>6 DEF InGo, Settled, Sound
<1>10. Transmit(r')
  BY <1>3, <1>5, <1>8, <1>9 DEF Transmit
<1>11. Keeps(e, r', Sending)
  BY <1>7 DEF Keeps, Sending, TxFields
<1>12. /\ r'.nb \in 0 .. MaxBackoffs + 1 /\ r'.stopF \in BOOLEAN /\ r'.stopM \in BOOLEAN
       /\ r'.wanted \in Nat /\ r'.sent \in Nat
  BY <1>3, <1>8, <1>9 DEF Typed
<1>13. Awaited(r') /\ Tuned(r') /\ Queue(r')
  BY <1>5, <1>6, <1>8 DEF Settled, Awaited, Tuned, Queue
<1>14. Settled(r', FALSE)
  BY <1>6, <1>8, <1>10, <1>11, <1>12, <1>13, SendingEffect
<1> QED BY <1>3, <1>8, <1>14 DEF InCall, InGo

LEMMA RxEnableStep ==
  ASSUME Settled(r, FALSE), RxEnable
  PROVE  Settled(r', FALSE) /\ Calm(r, r')
<1>1. Driver(r) /\ RxTyped(r) /\ r.asleep \in BOOLEAN
  BY SoundIsTyped DEF Settled, Sound, Typed
<1>2. r' = [r EXCEPT !.macRxEnableFlags = TRUE, !.macRxOnFlag = TRUE]
  BY DEF RxEnable, Request, MacRxOn
<1>3. /\ Keeps(r, r', {"macRxEnableFlags", "macRxOnFlag"})
      /\ r'.macRxEnableFlags = TRUE /\ r'.macRxOnFlag = TRUE
  BY <1>1, <1>2 DEF Keeps, Driver, Fields
<1>4. /\ r'.macRxActive = r.macRxActive /\ r'.rxState = r.rxState /\ r'.pRxBuf = r.pRxBuf
      /\ r'.rxUnread = r.rxUnread /\ r'.asleep = r.asleep
      /\ r'.macTxActive = r.macTxActive /\ r'.macRxOutgoingAckFlag = r.macRxOutgoingAckFlag
      /\ r'.macPhyChannel = r.macPhyChannel /\ r'.reqChannel = r.reqChannel
      /\ r'.rxIsrActiveFlag = r.rxIsrActiveFlag /\ r'.rxResetFlag = r.rxResetFlag
      /\ r'.fifo = r.fifo /\ r'.air = r.air /\ r'.overflow = r.overflow
      /\ r'.ackM = r.ackM
  BY <1>3 DEF Keeps, Fields
<1>5. RxTyped(r')
  BY <1>1, <1>3, <1>4 DEF RxTyped
<1>6. RxInStep(r')
  BY <1>4, FlowInStep DEF Settled, Flow
<1>7. Keeps(r, r', RxFields \cup {"macRxEnableFlags", "asleep"})
  BY <1>3 DEF Keeps, RxFields, Receiver
<1>8. /\ Receiving(r') /\ Enabled(r') /\ Tuned(r') /\ Needed(r', FALSE) /\ Queue(r')
      /\ r'.rxIsrActiveFlag = FALSE /\ r'.rxResetFlag = FALSE
  BY <1>1, <1>3, <1>4
  DEF Settled, Receiving, Enabled, Tuned, Needed, NeedsReceiver, Queue, RxTyped
<1> QED BY <1>1, <1>3, <1>4, <1>5, <1>6, <1>7, <1>8, ReceiverStep

\* The receiver stays as it is; that it is enabled and off is what soft says.
LEMMA RxSoftEnableStep ==
  ASSUME Settled(r, FALSE), RxSoftEnable
  PROVE  Settled(r, FALSE)' /\ SoftInv' /\ Calm(r, r')
<1>1. Sound(r) /\ Driver(r) /\ Typed(r)
  BY DEF Settled, Sound
<1>2. r' = [r EXCEPT !.macRxEnableFlags = TRUE] /\ soft' = EnabledAndOff(r')
  BY DEF RxSoftEnable, Request
<1>3. Keeps(r, r', {"macRxEnableFlags"}) /\ r'.macRxEnableFlags = TRUE
  BY <1>1, <1>2 DEF Keeps, Driver, Fields
<1>4. \A x \in Fields \ {"macRxEnableFlags"} : r'[x] = r[x]
  BY <1>3 DEF Keeps
<1>5. Typed(r')
  BY <1>1, <1>3, <1>4 DEF Typed, Fields
<1>6. Transmit(r') /\ Receiving(r')
  BY <1>1, <1>4 DEF Sound, Transmit, Receiving, Fields
<1>7. Awaited(r') /\ Tuned(r') /\ Queue(r')
  BY <1>4 DEF Settled, Awaited, Tuned, Queue, Fields
<1>8. Needed(r', FALSE)
  BY <1>3 DEF Needed, NeedsReceiver
<1>9. /\ r'.macRxActive = r.macRxActive /\ r'.rxState = r.rxState /\ r'.pRxBuf = r.pRxBuf
      /\ r'.rxUnread = r.rxUnread /\ r'.macTxActive = r.macTxActive
      /\ r'.rxIsrActiveFlag = r.rxIsrActiveFlag /\ r'.rxResetFlag = r.rxResetFlag
      /\ r'.fifo = r.fifo /\ r'.air = r.air /\ r'.overflow = r.overflow
      /\ r'.stopM = r.stopM /\ r'.stopF = r.stopF /\ r'.cspz = r.cspz /\ r'.nb = r.nb
  BY <1>4 DEF Fields
<1>10. RxInStep(r')
  BY <1>9, FlowInStep DEF Settled, Flow
<1>11. Enabled(r)' /\ SoftInv'
  BY <1>2, <1>3, <1>5 DEF Enabled, EnabledAndOff, SoftInv, Typed
<1>12. Settled(r, FALSE)'
  BY <1>3, <1>5, <1>6, <1>7, <1>8, <1>9, <1>10, <1>11 DEF Settled, Sound, Keeps
<1> QED BY <1>9, <1>11, <1>12 DEF Calm, InCall, InGo

LEMMA RxDisableStep ==
  ASSUME Settled(r, FALSE), RxDisable
  PROVE  Settled(r', TRUE) /\ Calm(r, r')
<1>1. Driver(r) /\ RxTyped(r) /\ r.asleep \in BOOLEAN
  BY SoundIsTyped DEF Settled, Sound, Typed
<1>2. r' = [r EXCEPT !.macRxEnableFlags = FALSE]
  BY DEF RxDisable, Request
<1>3. Keeps(r, r', {"macRxEnableFlags"}) /\ r'.macRxEnableFlags = FALSE
  BY <1>1, <1>2 DEF Keeps, Driver, Fields
<1>4. /\ r'.macRxActive = r.macRxActive /\ r'.rxState = r.rxState /\ r'.pRxBuf = r.pRxBuf
      /\ r'.rxUnread = r.rxUnread /\ r'.asleep = r.asleep /\ r'.macRxOnFlag = r.macRxOnFlag
      /\ r'.macTxActive = r.macTxActive /\ r'.macRxOutgoingAckFlag = r.macRxOutgoingAckFlag
      /\ r'.macPhyChannel = r.macPhyChannel /\ r'.reqChannel = r.reqChannel
      /\ r'.rxIsrActiveFlag = r.rxIsrActiveFlag /\ r'.rxResetFlag = r.rxResetFlag
      /\ r'.fifo = r.fifo /\ r'.air = r.air /\ r'.overflow = r.overflow
      /\ r'.ackM = r.ackM
  BY <1>3 DEF Keeps, Fields
<1>5. RxTyped(r')
  BY <1>1, <1>4 DEF RxTyped
<1>6. RxInStep(r')
  BY <1>4, FlowInStep DEF Settled, Flow
<1>7. Keeps(r, r', RxFields \cup {"macRxEnableFlags", "asleep"})
  BY <1>3 DEF Keeps, RxFields
<1>8. /\ Receiving(r') /\ Enabled(r') /\ Tuned(r') /\ Needed(r', TRUE) /\ Queue(r')
      /\ r'.rxIsrActiveFlag = FALSE /\ r'.rxResetFlag = FALSE
  BY <1>1, <1>3, <1>4
  DEF Settled, Sound, Receiving, Enabled, Tuned, Needed, Queue, RxTyped
<1> QED BY <1>1, <1>3, <1>4, <1>5, <1>6, <1>7, <1>8, ReceiverStep

LEMMA RxDisableOffStep ==
  ASSUME Settled(r, TRUE), RxDisableOff
  PROVE  Settled(r', FALSE) /\ Calm(r, r')
<1>1. Sound(r) /\ RxTyped(r) /\ r.asleep \in BOOLEAN /\ r.macRxEnableFlags \in BOOLEAN
  BY SoundIsTyped DEF Settled, Sound, Typed
<1>2. r' = MacRxOffRequest(r)
  BY DEF RxDisableOff
<1>3. /\ Sound(r') /\ Keeps(r, r', Receiver) /\ Flow(r, r')
      /\ NeedsReceiver(r) => r' = r
      /\ ~NeedsReceiver(r) => r'.macRxOnFlag = FALSE
  BY <1>1, <1>2, RxOffRequestEffect
<1>4. /\ r'.macRxActive = r.macRxActive /\ r'.rxState = r.rxState /\ r'.pRxBuf = r.pRxBuf
      /\ r'.rxUnread = r.rxUnread /\ r'.macRxEnableFlags = r.macRxEnableFlags
      /\ r'.asleep = r.asleep /\ r'.macTxActive = r.macTxActive
      /\ r'.macRxOutgoingAckFlag = r.macRxOutgoingAckFlag
      /\ r'.macPhyChannel = r.macPhyChannel /\ r'.reqChannel = r.reqChannel
      /\ r'.rxIsrActiveFlag = r.rxIsrActiveFlag /\ r'.rxResetFlag = r.rxResetFlag
  BY <1>3 DEF Keeps, Receiver, Fields
<1>5. RxTyped(r') /\ Receiving(r')
  BY <1>3, SoundIsTyped DEF Sound
<1>6. RxInStep(r')
  BY <1>3, <1>4, FlowInStep DEF Settled, NeedsReceiver
<1>7. Keeps(r, r', RxFields \cup {"macRxEnableFlags", "asleep"})
  BY <1>3 DEF Keeps, RxFields
<1>8. Enabled(r') /\ Needed(r', FALSE)
  BY <1>3, <1>4 DEF Settled, Enabled, Needed, NeedsReceiver
<1>9. Tuned(r') /\ Queue(r') /\ r'.rxIsrActiveFlag = FALSE /\ r'.rxResetFlag = FALSE
  BY <1>1, <1>4 DEF Settled, Tuned, Queue, RxTyped
<1> QED BY <1>1, <1>4, <1>5, <1>6, <1>7, <1>8, <1>9, ReceiverStep

LEMMA SetChannelStep ==
  ASSUME Settled(r, FALSE), SetChannel
  PROVE  Settled(r', FALSE) /\ Calm(r, r')
<1>1. Sound(r) /\ Driver(r) /\ Typed(r) /\ RxTyped(r) /\ Enabled(r)
  BY SoundIsTyped DEF Settled, Sound
<1> DEFINE s(c) == [r EXCEPT !.reqChannel = c]
<1>2. PICK c \in Channels :
        r' = IF s(c).macTxActive = "NO_ACTIVITY" THEN MacRadioUpdateChannel(s(c)) ELSE s(c)
  BY DEF SetChannel, Request
<1> DEFINE a == s(c)
<1>3. Keeps(r, a, {"reqChannel"}) /\ a.reqChannel = c
  BY <1>1 DEF Keeps, Driver, Fields
<1>4. r' = IF a.macTxActive = "NO_ACTIVITY" THEN MacRadioUpdateChannel(a) ELSE a
  BY <1>2
<1> HIDE DEF a
<1>5. /\ a.macTxActive = r.macTxActive /\ a.nb = r.nb /\ a.wanted = r.wanted /\ a.sent = r.sent
      /\ a.status = r.status /\ a.macRxActive = r.macRxActive
      /\ a.macRxOutgoingAckFlag = r.macRxOutgoingAckFlag /\ a.rxState = r.rxState
      /\ a.pRxBuf = r.pRxBuf /\ a.rxUnread = r.rxUnread
      /\ a.rxIsrActiveFlag = FALSE /\ a.rxResetFlag = FALSE
      /\ a.macRxOnFlag = r.macRxOnFlag /\ a.macRxEnableFlags = r.macRxEnableFlags
      /\ a.macPhyChannel = r.macPhyChannel /\ a.asleep = r.asleep /\ a.ackM = r.ackM
      /\ a.stopF = r.stopF /\ a.stopM = r.stopM /\ a.csp = r.csp /\ a.cspz = r.cspz
      /\ a.fifo = r.fifo /\ a.air = r.air /\ a.overflow = r.overflow /\ a.faults = r.faults
  BY <1>1, <1>3 DEF Keeps, Fields, Settled, Typed
<1>6. Sound(a) /\ Enabled(a)
  <2>1. Typed(a)
    BY <1>1, <1>3, <1>5 DEF Settled, Typed
  <2>2. Transmit(a) /\ Receiving(a) /\ Enabled(a)
    BY <1>1, <1>5 DEF Sound, Transmit, Receiving, Enabled
  <2> QED BY <1>3, <2>1, <2>2 DEF Sound, Keeps
<1>7. RxInStep(a)
  BY <1>5, FlowInStep DEF Settled, Flow
<1>8. Awaited(a) /\ Needed(a, FALSE) /\ Queue(a)
      /\ a.macTxActive \notin {"DONE", "POST_ACK", "CHANNEL_BUSY"}
  BY <1>5 DEF Settled, Awaited, Needed, NeedsReceiver, Queue
<1>9. CASE r.macTxActive = "NO_ACTIVITY"
  <2>1. r' = MacRadioUpdateChannel(a) /\ a.macTxActive = "NO_ACTIVITY"
    BY <1>4, <1>5, <1>9
  <2>2. /\ Sound(r') /\ Enabled(r') /\ Keeps(a, r', Resetting \cup {"macPhyChannel"})
        /\ r'.macTxActive = "NO_ACTIVITY" /\ r'.macPhyChannel = a.reqChannel
        /\ r' = a \/ (StartsOver(r') /\ Needed(r', FALSE))
    BY <1>5, <1>6, <2>1, UpdateChannelOutside
  <2>3. RxInStep(r') /\ Needed(r', FALSE)
    BY <1>7, <1>8, <2>2, StartsOverInStep
  <2>4. /\ r'.wanted = a.wanted /\ r'.reqChannel = a.reqChannel
        /\ r'.rxIsrActiveFlag = FALSE /\ r'.rxResetFlag = FALSE
    BY <1>5, <2>2 DEF Keeps, Resetting, Receiver, Starting, Fields
  <2>5. Awaited(r') /\ Tuned(r') /\ Queue(r')
    BY <1>8, <2>1, <2>2, <2>4 DEF Awaited, Tuned, Queue
  <2> QED BY <1>9, <2>2, <2>3, <2>4, <2>5 DEF Settled, Calm, InCall, InGo
<1>10. CASE r.macTxActive # "NO_ACTIVITY"
  <2>1. r' = a
    BY <1>4, <1>5, <1>10
  <2>2. Tuned(a)
    BY <1>5, <1>10 DEF Tuned
  <2>3. Settled(a, FALSE) /\ Calm(r, a)
    BY <1>5, <1>6, <1>7, <1>8, <2>2 DEF Settled, Calm, InCall, InGo
  <2> QED BY <2>1, <2>3
<1> QED BY <1>9, <1>10

LEMMA SleepStep ==
  ASSUME Settled(r, FALSE), Sleep
  PROVE  Settled(r', FALSE) /\ Calm(r, r')
<1> DEFINE m == MacRxOff(r)
<1>1. /\ Sound(r) /\ RxTyped(r) /\ r.macTxActive = "NO_ACTIVITY" /\ r.macRxActive = "NO_ACTIVITY"
      /\ r.macRxEnableFlags = FALSE /\ r.csp # "tx"
  BY SoundIsTyped DEF Settled, Sleep, MaySleep, Sound, Typed, Transmit
<1>2. r' = [m EXCEPT !.asleep = TRUE]
  BY DEF Sleep, Request
<1>3. /\ Keeps(r, m, Receiver) /\ Flow(r, m) /\ m.macRxOnFlag = FALSE /\ Sound(m)
      /\ m.fifo = <<>> /\ m.air = <<>>
  BY <1>1, RxOffEffect
<1> HIDE DEF m
<1>4. Keeps(m, r', {"asleep"}) /\ r'.asleep = TRUE
  BY <1>2, <1>3 DEF Keeps, Driver, Fields
<1>5. /\ r'.macRxActive = r.macRxActive /\ r'.rxState = r.rxState /\ r'.pRxBuf = r.pRxBuf
      /\ r'.rxUnread = r.rxUnread /\ r'.macRxEnableFlags = FALSE
      /\ r'.macTxActive = r.macTxActive /\ r'.macRxOnFlag = FALSE
      /\ r'.macRxOutgoingAckFlag = r.macRxOutgoingAckFlag
      /\ r'.macPhyChannel = r.macPhyChannel /\ r'.reqChannel = r.reqChannel
      /\ r'.rxIsrActiveFlag = r.rxIsrActiveFlag /\ r'.rxResetFlag = r.rxResetFlag
      /\ r'.fifo = <<>> /\ r'.air = <<>> /\ r'.overflow = m.overflow
  BY <1>1, <1>3, <1>4 DEF Keeps, Receiver, Fields
<1>6. RxTyped(r')
  <2>1. RxTyped(m)
    BY <1>3, SoundIsTyped
  <2> QED BY <1>4, <2>1 DEF RxTyped, Keeps, Fields
<1>7. RxInStep(r')
  BY <1>1, <1>3, <1>5, FlowInStep DEF Settled, Flow
<1>8. Keeps(r, r', RxFields \cup {"macRxEnableFlags", "asleep"})
  BY <1>3, <1>4 DEF Keeps, RxFields
<1>9. /\ Receiving(r') /\ Enabled(r') /\ Tuned(r') /\ Needed(r', FALSE) /\ Queue(r')
      /\ r'.rxIsrActiveFlag = FALSE /\ r'.rxResetFlag = FALSE
  BY <1>1, <1>5 DEF Settled, Receiving, Enabled, Tuned, Needed, Queue, RxTyped
<1> QED BY <1>4, <1>5, <1>6, <1>7, <1>8, <1>9, ReceiverStep

LEMMA WakeUpStep ==
  ASSUME NEW due \in BOOLEAN, Settled(r, due), WakeUp
  PROVE  Settled(r', due) /\ Calm(r, r')
<1> DEFINE a == [r EXCEPT !.asleep = FALSE]
<1>1. Driver(r) /\ RxTyped(r) /\ r.macRxEnableFlags \in BOOLEAN
  BY SoundIsTyped DEF Settled, Sound, Typed
<1>2. r' = MacRxOnRequest(a)
  BY DEF WakeUp
<1>3. Keeps(r, a, Aside) /\ a.asleep = FALSE /\ a.ackM = r.ackM
  BY <1>1 DEF Keeps, Driver, Aside, Fields
<1> HIDE DEF a
<1>4. Settled(a, due) /\ Calm(r, a)
  BY <1>1, <1>3, AsideEffect DEF RxTyped
<1>5. /\ Sound(r') /\ Keeps(a, r', {"macRxOnFlag"}) /\ Enabled(r') /\ Needed(r', due)
  BY <1>2, <1>4, OnRequestEffect DEF Settled
<1>6. /\ r'.macRxActive = a.macRxActive /\ r'.rxState = a.rxState /\ r'.pRxBuf = a.pRxBuf
      /\ r'.rxUnread = a.rxUnread /\ r'.macTxActive = a.macTxActive
      /\ r'.macRxOutgoingAckFlag = a.macRxOutgoingAckFlag
      /\ r'.macPhyChannel = a.macPhyChannel /\ r'.reqChannel = a.reqChannel
      /\ r'.rxIsrActiveFlag = a.rxIsrActiveFlag /\ r'.rxResetFlag = a.rxResetFlag
      /\ r'.fifo = a.fifo /\ r'.air = a.air /\ r'.overflow = a.overflow
      /\ r'.asleep = a.asleep /\ r'.macRxEnableFlags = a.macRxEnableFlags
  BY <1>5 DEF Keeps, Fields
<1>7. RxTyped(r') /\ Receiving(r') /\ Typed(r')
  BY <1>5, SoundIsTyped DEF Sound
<1>8. RxInStep(r')
  BY <1>4, <1>6, FlowInStep DEF Settled, Flow
<1>9. Keeps(a, r', RxFields \cup {"macRxEnableFlags", "asleep"})
  BY <1>5 DEF Keeps, RxFields, Receiver
<1>10. Tuned(r') /\ Queue(r') /\ r'.rxIsrActiveFlag = FALSE /\ r'.rxResetFlag = FALSE
  BY <1>4, <1>6, <1>7 DEF Settled, Tuned, Queue, RxTyped
<1>11. Settled(r', due) /\ Calm(a, r')
  BY <1>4, <1>5, <1>7, <1>8, <1>9, <1>10, ReceiverStep DEF Typed
<1> QED BY <1>4, <1>11 DEF Calm

-----------------------------------------------------------------------------
(* The invariant of the driver                                              *)

\* It holds when the driver starts,
LEMMA InitInv == ASSUME Init PROVE IInv
<1>1. Driver(r)
  BY DEF Init, Driver, Fields
<1>2. Typed(r)
  <2>1. 0 \in 0 .. MaxBackoffs + 1
    BY BoundsAssumption
  <2> QED BY <2>1, Emptied DEF Init, Typed
<1>3. Transmit(r) /\ Receiving(r) /\ Enabled(r) /\ Awaited(r) /\ Tuned(r) /\ Queue(r)
  BY DEF Init, Transmit, Receiving, Enabled, Awaited, Tuned, Queue
<1>4. Needed(r, pc = "rxoff")
  BY DEF Init, Needed
<1>5. RxInStep(r)
  BY StartsOverInStep DEF Init, StartsOver
<1>6. /\ r.macTxActive = "NO_ACTIVITY" /\ r.rxIsrActiveFlag = FALSE /\ r.rxResetFlag = FALSE
      /\ pc = "idle"
  BY DEF Init
<1>7. Settled(r, pc = "rxoff")
  BY <1>1, <1>2, <1>3, <1>4, <1>5, <1>6 DEF Settled, Sound
<1>8. ForegroundInv
  BY <1>6 DEF ForegroundInv, InCall, InGo
<1>9. SoftInv
  BY DEF Init, SoftInv
<1> QED BY <1>7, <1>8, <1>9 DEF IInv

\* and is kept by every step.
LEMMA CalmForeground ==
  ASSUME ForegroundInv, Calm(r, r'), pc' = pc
  PROVE  ForegroundInv'
BY DEF ForegroundInv, Calm

\* What a step other than that of macRxSoftEnable leaves settled is so with the
\* history that goes on with it, too.
LEMMA NextInv ==
  ASSUME NEW due \in BOOLEAN, due = (pc' = "rxoff"), Settled(r', due), FollowSoft, ForegroundInv'
  PROVE  IInv'
<1>1. Enabled(r)'
  BY DEF Settled, Enabled, FollowSoft, EnabledAndOff
<1>2. SoftInv'
  <2>1. r'.macRxOnFlag \in BOOLEAN /\ r'.macRxEnableFlags \in BOOLEAN
    BY DEF Settled, Sound, Typed
  <2> QED BY <2>1 DEF SoftInv, FollowSoft, EnabledAndOff
<1>3. Settled(r, pc = "rxoff")'
  BY <1>1 DEF Settled
<1> QED BY <1>2, <1>3 DEF IInv

\* Every step keeps the invariant.
LEMMA StepInv == ASSUME IInv, [Next]_vars PROVE IInv'
<1> DEFINE due == pc = "rxoff"
<1>1. Settled(r, due) /\ ForegroundInv /\ due \in BOOLEAN
  BY DEF IInv
\* a step that leaves the foreground where it is
<1>2. ASSUME Settled(r', due), Calm(r, r'), pc' = pc, FollowSoft
      PROVE  IInv'
  BY <1>1, <1>2, CalmForeground, NextInv
<1>3. CASE UNCHANGED vars
  <2>1. r' = r /\ pc' = pc /\ soft' = soft
    BY <1>3 DEF vars
  <2> QED BY <2>1 DEF IInv, Settled, Enabled, ForegroundInv, SoftInv
<1> HIDE DEF due
<1>5. CASE RfIsr
  <2>1. pc' = pc /\ FollowSoft
    BY <1>5 DEF RfIsr
  <2> QED BY <1>1, <1>2, <1>5, <2>1, RfIsrStep
<1>6. CASE RfIsrFifop
  <2>1. pc' = pc /\ FollowSoft
    BY <1>6 DEF RfIsrFifop
  <2> QED BY <1>1, <1>2, <1>6, <2>1, RfIsrFifopStep
<1>7. CASE RfErrIsr
  <2>1. pc' = pc /\ FollowSoft
    BY <1>7 DEF RfErrIsr
  <2> QED BY <1>1, <1>2, <1>7, <2>1, RfErrIsrStep
<1>8. CASE FrameStarts
  <2>1. pc' = pc /\ FollowSoft
    BY <1>8 DEF FrameStarts, Radio
  <2> QED BY <1>1, <1>2, <1>8, <2>1, FrameStartsStep
<1>9. CASE SegmentArrives
  <2>1. pc' = pc /\ FollowSoft
    BY <1>9 DEF SegmentArrives, Radio
  <2> QED BY <1>1, <1>2, <1>9, <2>1, SegmentArrivesStep
<1>10. CASE AckSent
  <2>1. pc' = pc /\ FollowSoft
    BY <1>10 DEF AckSent, Radio
  <2> QED BY <1>1, <1>2, <1>10, <2>1, AckSentStep
<1>11. CASE Csp
  <2>1. pc' = pc /\ FollowSoft
    BY <1>11 DEF Csp, CspBusy, CspStrobe, CspTxEnd, CspAckTimeout, Radio
  <2> QED BY <1>1, <1>2, <1>11, <2>1, CspStep
<1>12. CASE WakeUp
  <2>1. pc' = pc /\ FollowSoft
    BY <1>12 DEF WakeUp
  <2> QED BY <1>1, <1>2, <1>12, <2>1, WakeUpStep
\* and those of the foreground
<1>13. ASSUME Settled(r', FALSE), Calm(r, r'), pc = "idle", pc' = "idle", FollowSoft
       PROVE  IInv'
  BY <1>1, <1>13, CalmForeground, NextInv
<1>14. ASSUME pc # "rxoff" PROVE Settled(r, FALSE)
  BY <1>1, <1>14 DEF due
<1>15. CASE RxEnable
  <2>1. pc = "idle" /\ pc' = "idle" /\ FollowSoft
    BY <1>15 DEF RxEnable, Request, Foreground
  <2> QED BY <1>13, <1>14, <1>15, <2>1, RxEnableStep
<1>16. CASE SetChannel
  <2>1. pc = "idle" /\ pc' = "idle" /\ FollowSoft
    BY <1>16 DEF SetChannel, Request, Foreground
  <2> QED BY <1>13, <1>14, <1>16, <2>1, SetChannelStep
<1>17. CASE Sleep
  <2>1. pc = "idle" /\ pc' = "idle" /\ FollowSoft
    BY <1>17 DEF Sleep, Request, Foreground
  <2> QED BY <1>13, <1>14, <1>17, <2>1, SleepStep
<1>18. CASE RxDisable
  <2>1. pc = "idle" /\ pc' = "rxoff" /\ FollowSoft
    BY <1>18 DEF RxDisable, Request, Foreground
  <2>2. Settled(r', TRUE) /\ Calm(r, r')
    BY <1>14, <1>18, <2>1, RxDisableStep
  <2>3. ForegroundInv'
    BY <1>1, <2>1, <2>2 DEF ForegroundInv, Calm
  <2> QED BY <2>1, <2>2, <2>3, NextInv
<1>19. CASE RxDisableOff
  <2>1. pc = "rxoff" /\ pc' = "idle" /\ FollowSoft
    BY <1>19 DEF RxDisableOff, Foreground
  <2>2. Settled(r', FALSE) /\ Calm(r, r')
    BY <1>1, <1>19, <2>1, RxDisableOffStep DEF due
  <2>3. ForegroundInv'
    BY <1>1, <2>1, <2>2 DEF ForegroundInv, Calm
  <2> QED BY <2>1, <2>2, <2>3, NextInv
<1>20. CASE TxFrame
  <2>1. pc = "idle" /\ pc' = "init" /\ FollowSoft
    BY <1>20 DEF TxFrame, Foreground
  <2>2. Settled(r', FALSE) /\ InCall(r') /\ ~InGo(r')
    BY <1>14, <1>20, <2>1, TxFrameStep
  <2>3. ForegroundInv'
    BY <2>1, <2>2 DEF ForegroundInv
  <2> QED BY <2>1, <2>2, <2>3, NextInv
<1>21. CASE TxPrepare
  <2>1. pc = "init" /\ InCall(r) /\ FollowSoft
    BY <1>1, <1>21 DEF TxPrepare, Foreground, ForegroundInv
  <2>2. /\ Settled(r', FALSE) /\ ~InGo(r')
        /\ \/ pc' = "idle" /\ ~InCall(r')
           \/ /\ pc' = "load" /\ InCall(r')
              /\ r'.cspz = "BUSY" /\ ~r'.stopF /\ r'.nb = 0
    BY <1>14, <1>21, <2>1, TxPrepareStep DEF InCall
  <2>3. ForegroundInv' /\ pc' # "rxoff"
    BY <2>2 DEF ForegroundInv
  <2> QED BY <2>1, <2>2, <2>3, NextInv
<1>22. CASE TxDecide
  <2>1. pc = "load" /\ InCall(r) /\ r.cspz = "BUSY" /\ ~r.stopF /\ r.nb = 0 /\ FollowSoft
    BY <1>1, <1>22 DEF TxDecide, Foreground, ForegroundInv
  <2>2. /\ Settled(r', FALSE) /\ ~InCall(r')
        /\ \/ pc' = "go" /\ InGo(r')
           \/ pc' = "idle" /\ ~InGo(r')
    BY <1>14, <1>22, <2>1, TxDecideStep DEF InCall
  <2>3. ForegroundInv' /\ pc' # "rxoff"
    BY <2>2 DEF ForegroundInv
  <2> QED BY <2>1, <2>2, <2>3, NextInv
<1>23. CASE TxGoCancel
  <2>1. pc = "go" /\ pc' = "csma" /\ InGo(r) /\ FollowSoft
    BY <1>1, <1>23 DEF TxGoCancel, Foreground, ForegroundInv
  <2>2. Settled(r', FALSE) /\ Calm(r, r')
    BY <1>14, <1>23, <2>1, TxGoCancelStep
  <2>3. ForegroundInv'
    BY <1>1, <2>1, <2>2 DEF ForegroundInv, Calm
  <2> QED BY <2>1, <2>2, <2>3, NextInv
<1>24. CASE TxGoCsma
  <2>1. pc = "csma" /\ pc' = "idle" /\ InGo(r) /\ FollowSoft
    BY <1>1, <1>24 DEF TxGoCsma, Foreground, ForegroundInv
  <2>2. Settled(r', FALSE) /\ ~InCall(r') /\ ~InGo(r')
    BY <1>14, <1>24, <2>1, TxGoCsmaStep
  <2>3. ForegroundInv'
    BY <2>1, <2>2 DEF ForegroundInv
  <2> QED BY <2>1, <2>2, <2>3, NextInv
\* and that of macRxSoftEnable
<1>25. CASE RxSoftEnable
  <2>1. pc = "idle" /\ pc' = "idle"
    BY <1>25 DEF RxSoftEnable, Request, Foreground
  <2>2. Settled(r, FALSE)' /\ SoftInv' /\ Calm(r, r')
    BY <1>14, <1>25, <2>1, RxSoftEnableStep
  <2>3. ForegroundInv'
    BY <1>1, <2>1, <2>2, CalmForeground
  <2>4. Settled(r, pc = "rxoff")'
    BY <2>1, <2>2 DEF Settled
  <2> QED BY <2>2, <2>3, <2>4 DEF IInv
<1> QED BY <1>3, <1>5, <1>6, <1>7, <1>8, <1>9, <1>10, <1>11, <1>12, <1>15, <1>16, <1>17,
           <1>18, <1>19, <1>20, <1>21, <1>22, <1>23, <1>24, <1>25 DEF Next, Csp

\* The invariant holds in every state: the transmit state fits the strobe
\* processor, the receive state what is still to come of a frame, and what
\* was put off (a queued frame, a channel, the receiver) has a cause that lasts.
THEOREM Invariance == Spec => []IInv
<1>1. Init => IInv
  BY InitInv
<1>2. IInv /\ [Next]_vars => IInv'
  BY StepInv
<1> QED BY <1>1, <1>2, PTL DEF Spec

-----------------------------------------------------------------------------
(* What follows from it                                                     *)

\* The next segment of what is being read is the one its state waits for.

\* What each state of the receive state machine waits for.
LEMMA NextParts ==
  /\ NextPart["start"] = {"hdr", "ack"}
  /\ NextPart["addr"] = {"addr"}
  /\ NextPart["payload"] = {"payload"}
  /\ NextPart["fcs"] = {"fcs"}
  /\ NextPart["discard"] = {"addr", "payload", "fcs"}
BY DEF NextPart

\* The next segment is the one the state machine waits for.
LEMMA HeadInStep ==
  ASSUME IInv, ~r.overflow, r.fifo \o r.air # <<>>
  PROVE  Head(r.fifo \o r.air).part \in NextPart[r.rxState]
<1>1. RxInStep(r) /\ r.rxState \in {"start", "addr", "payload", "discard", "fcs"}
      /\ r.rxUnread \in Nat
  BY DEF IInv, Settled, Sound, Typed
<1>2. CASE r.rxState = "start" /\ AtMostAFrame(r.fifo \o r.air)
  <2>1. PICK f \in Frames : r.fifo \o r.air = Segments(f)
    BY <1>2 DEF AtMostAFrame
  <2>2. f.ack \in BOOLEAN
    BY FramesAssumption
  <2>3. Head(Segments(f)).part \in {"hdr", "ack"}
    BY <2>2, SegmentsAreSegs
  <2> QED BY <1>2, <2>1, <2>3, NextParts
<1>3. CASE \E f \in Frames, n \in Nat, q \in Segs :
             /\ r.fifo \o r.air = Rest(f, n) \o q /\ AtMostAFrame(q)
             /\ Unread(r, f, n)
  <2>1. PICK f \in Frames, n \in Nat, q \in Segs :
          /\ r.fifo \o r.air = Rest(f, n) \o q /\ AtMostAFrame(q)
          /\ Unread(r, f, n)
    BY <1>3
  <2>2. f.payload \in Nat
    BY FramesAssumption
  <2>3. n \in 1 .. f.payload + 3 /\ ~f.ack /\ n \in 1 .. f.payload + 2 /\ r.rxState # "start"
    BY <2>1, <2>2 DEF Unread
  <2> DEFINE i == f.payload + 4 - n
             part(k) == CASE k = 1 -> "hdr" [] k = 2 -> "addr"
                          [] k = f.payload + 3 -> "fcs" [] OTHER -> "payload"
  <2>4. Head(r.fifo \o r.air) = Segments(f)[i]
    BY <2>1, <2>3, RestTail
  <2>5. i \in 2 .. f.payload + 3
    BY <2>2, <2>3
  <2>6. Segments(f)[i].part = part(i)
    <3>1. \A k \in 1 .. f.payload + 3 : Segments(f)[k].part = part(k)
      BY <2>3, SegmentsAreSegs
    <3> HIDE DEF i, part
    <3> QED BY <2>2, <2>5, <3>1
  <2> HIDE DEF i
  <2>7. /\ i = 2 => part(i) = "addr"
        /\ i = f.payload + 3 => part(i) = "fcs"
        /\ i # 2 /\ i # f.payload + 3 => part(i) = "payload"
    BY <2>2, <2>5
  <2> HIDE DEF part
  <2>8. CASE r.rxState = "addr"
    <3>1. i = 2
      BY <2>1, <2>2, <2>8 DEF Unread, i
    <3> QED BY ZenonT(40), <2>4, <2>6, <2>7, <2>8, <3>1, NextParts
  <2>9. CASE r.rxState = "payload"
    <3>1. n = r.rxUnread + 1 /\ r.rxUnread # 0 /\ r.rxUnread \in Nat /\ n <= f.payload + 1
      BY <1>1, <2>1, <2>9 DEF Unread
    <3>2. i # f.payload + 3 /\ i # 2
      BY SMTT(20), <2>2, <2>3, <3>1 DEF i
    <3> QED BY <2>4, <2>6, <2>7, <2>9, <3>1, <3>2, NextParts
  <2>10. CASE r.rxState = "fcs"
    <3>1. i = f.payload + 3
      BY <2>1, <2>2, <2>10 DEF Unread, i
    <3> QED BY <2>4, <2>6, <2>7, <2>10, <3>1, NextParts
  <2>11. CASE r.rxState = "discard"
    <3>1. part(i) \in {"addr", "payload", "fcs"}
      BY <2>7
    <3> QED BY <2>4, <2>6, <2>11, <3>1, NextParts
  <2> QED BY <1>1, <2>3, <2>8, <2>9, <2>10, <2>11
<1> QED BY <1>1, <1>2, <1>3 DEF RxInStep, Stream

\* While a frame is being read, some of it is still to come.
LEMMA RestIsThere ==
  ASSUME IInv, r.rxState # "start", ~r.overflow
  PROVE  r.fifo \o r.air # <<>>
<1>1. Stream(r)
  BY DEF IInv, Settled, RxInStep
<1>2. PICK f \in Frames, n \in Nat, q \in Segs :
        r.fifo \o r.air = Rest(f, n) \o q /\ AtMostAFrame(q) /\ Unread(r, f, n)
  BY <1>1 DEF Stream
<1>3. n \in 1 .. f.payload + 3 /\ ~f.ack
  BY <1>2, FramesAssumption DEF Unread
<1> QED BY <1>2, <1>3, RestTail

\* The invariant implies the three properties.
LEMMA InvIsDriverOK == ASSUME IInv PROVE DriverOK
<1>1. Sound(r) /\ RxInStep(r)
  BY DEF IInv, Settled
<1>2. TypeOK
  BY <1>1 DEF IInv, Settled, Sound, Typed, RxInStep, SoftInv, TypeOK
<1>3. AssertsHold
  BY <1>1 DEF Sound, Transmit, AssertsHold
<1>4. ReceiveInStep
  BY <1>1, HeadInStep, RestIsThere DEF RxInStep, ReceiveInStep
<1> QED BY <1>2, <1>3, <1>4 DEF DriverOK

LEMMA InvIsCompletedOnce == ASSUME IInv PROVE CompletedOnce
BY DEF IInv, Settled, Sound, Transmit, CompletedOnce

LEMMA InvIsSettled == ASSUME IInv PROVE QuietIsSettled
<1> SUFFICES ASSUME Quiet
             PROVE  /\ r.macRxOnFlag = (r.macRxEnableFlags /\ ~soft)
                    /\ r.macPhyChannel = r.reqChannel
  BY DEF QuietIsSettled
<1>1. /\ Typed(r) /\ Enabled(r) /\ Tuned(r) /\ Needed(r, pc = "rxoff") /\ SoftInv
  BY DEF IInv, Settled, Sound
<1>2. r.macPhyChannel = r.reqChannel
  BY <1>1 DEF Tuned, Quiet
<1>3. r.macRxOnFlag => r.macRxEnableFlags
  BY <1>1 DEF Needed, NeedsReceiver, Quiet
<1>4. r.macRxOnFlag \in BOOLEAN /\ r.macRxEnableFlags \in BOOLEAN
  BY <1>1 DEF Typed
<1> QED BY <1>1, <1>2, <1>3, <1>4 DEF Enabled, SoftInv

-----------------------------------------------------------------------------
(* The theorems                                                             *)

\* The driver's variables have their types, no MAC_ASSERT of the driver fails
\* and turning the receiver off never cuts a transmit, and the receive state
\* machine of mac_rx.c always reads the segment it waits for, with a buffer
\* held exactly while a frame is read into it: for any frames on the air, a
\* receive FIFO of any size, and however interrupts fall into the calls.
THEOREM DriverStaysOK == Spec => []DriverOK
<1>1. IInv => DriverOK
  BY InvIsDriverOK
<1> QED BY <1>1, Invariance, PTL

\* txComplete is reached once for each transmit the high level asks for,
\* however done, busy, time-out and received acknowledgement race.
THEOREM NoTransmitCompletesTwice == Spec => []CompletedOnce
<1>1. IInv => CompletedOnce
  BY InvIsCompletedOnce
<1> QED BY <1>1, Invariance, PTL

\* With nothing under way, the receiver is on exactly if macRxEnableFlags asks
\* for it, but for a receiver that macRxSoftEnable has enabled without turning
\* it on and that nothing has turned on since, and the radio is on the channel
\* last set: no path through mac_tx.c, mac_rx.c, mac_rx_onoff.c and mac_radio.c
\* forgets what it put off.
THEOREM RadioSettles == Spec => []QuietIsSettled
<1>1. IInv => QuietIsSettled
  BY InvIsSettled
<1> QED BY <1>1, Invariance, PTL
=============================================================================
