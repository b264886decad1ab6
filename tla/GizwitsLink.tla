----------------------------- MODULE GizwitsLink ---------------------------
(***************************************************************************)
(* The serial protocol between the coordinator and its WiFi module         *)
(* (gizwits_protocol.c): bytes through the ring buffer pRb into the packet *)
(* parser, and reports with one slot that waits for an acknowledgement.    *)
(* The line may lose bytes, and the ring refuses what it has no room for.  *)
(* A packet is shortened to the fields that are told apart: two header     *)
(* bytes, the length, the command, the sequence number and the sum.        *)
(***************************************************************************)
EXTENDS Naturals, SequencesExt

CONSTANTS
  RbCapacity,   \* RB_MAX_LEN
  Chunk,        \* TPBUF_LEN, bytes zigLight_uartProcess hands over at a time
  SendMax,      \* SEND_MAX_NUM
  FirstSn,      \* the module's sequence number at the start
  Values,       \* bound: times the data points change
  Extras,       \* bound: reports sent because 600 s have passed, and
                \* heartbeats of the module
  MaxLost       \* bound: bytes and reports lost on the line

ASSUME LinkAssumption ==
  /\ {RbCapacity, Chunk} \subseteq Nat \ {0}
  /\ {SendMax, Values, Extras, MaxLost} \subseteq Nat
  /\ FirstSn \in 0..255

ACK_REPORT_P0 == 6
CMD_HEARTBEAT == 7

VARIABLES
  \* the coordinator
  rb,        \* the bytes in pRb
  parser,    \* the static variables of gizProtocolGetOnePacket
  current,   \* the data points, as the number of their changes
  last,      \* gizLastDataPoint
  sn,        \* the next report's sequence number
  waitAck,   \* the report that waits for its acknowledgement
  late,      \* SEND_MAX_TIME has passed since waitAck.sendTime
  timed,     \* timed reports so far
  \* the line and the module
  line,      \* bytes on their way to the coordinator
  out,       \* sequence numbers of reports on their way to the module
  beats, lost,
  \* history
  packets,   \* packets the module has sent
  hurt,      \* those a byte of which never reached pRb
  handled,   \* those gizwitsHandle has taken
  acks       \* the acknowledgements among them: packet and report

device == <<rb, parser, current, last, sn, waitAck, late, timed>>
module == <<line, out, beats, lost>>
history == <<packets, hurt, handled, acks>>
vars == <<device, module, history>>

NoWait == [flag |-> 0, num |-> 0, sn |-> 0]
Start == [protocolFlag |-> 0, buf |-> <<>>, lastData |-> 0]

Init ==
  /\ rb = <<>> /\ parser = Start
  /\ current = 0 /\ last = 0 /\ sn = 0 /\ waitAck = NoWait /\ late = FALSE
  /\ timed = 0
  /\ line = <<>> /\ out = <<>> /\ beats = 0 /\ lost = 0
  /\ packets = 0 /\ hurt = {} /\ handled = {} /\ acks = {}
-----------------------------------------------------------------------------
(***************************************************************************)
(* Packets.  A byte has its value v and, for the properties, the number of *)
(* the packet it belongs to.                                               *)
(***************************************************************************)

\* gizProtocolSum: of all bytes but the header and the sum itself.
gizProtocolSum(buf) ==
  FoldLeft(LAMBDA s, b : (s + b.v) % 256, 0, SubSeq(buf, 3, Len(buf) - 1))

\* The module sends a packet; a byte 0xFF after the header is followed by 0x55.
Packet(cmd, number) ==
  LET bytes == <<255, 255, 0, 3, cmd, number>>
      tag(v) == [v |-> v, of |-> packets + 1]
      sum == gizProtocolSum([i \in 1..7 |-> tag(IF i = 7 THEN 0 ELSE bytes[i])])
      stuffed(v) == IF v = 255 THEN <<tag(255), tag(85)>> ELSE <<tag(v)>>
  IN <<tag(255), tag(255), tag(0), tag(3)>>
       \o stuffed(cmd) \o stuffed(number) \o stuffed(sum)

Send(cmd, number) ==
  /\ line' = line \o Packet(cmd, number)
  /\ packets' = packets + 1
-----------------------------------------------------------------------------
(***************************************************************************)
(* gizProtocolGetOnePacket, which reads the bytes that are in the ring.    *)
(* st: the static variables with tmpCount, which starts at 0 in every      *)
(* call, the number of bytes read, and whether a packet is complete.                 *)
(***************************************************************************)

\* A header: between packets, or inside one, which then has been cut.
\* Mutant: the parser always waits for the end of the packet it is in.
RestartsBetween(st) == st.protocolFlag = 0

Restarts(st) ==
  st.protocolFlag = 0 \/ (Len(st.buf) > 4 /\ Len(st.buf) # st.tmpCount)

Store(st, b) ==
  LET buf == Append(st.buf, b)
      tmpCount == IF Len(buf) > 4 THEN 256 * buf[3].v + buf[4].v + 4 ELSE st.tmpCount
  IN IF Len(buf) > 4 /\ Len(buf) = tmpCount
     THEN [st EXCEPT !.buf = buf, !.tmpCount = tmpCount, !.complete = TRUE]
     ELSE [st EXCEPT !.buf = buf, !.tmpCount = tmpCount, !.lastData = b.v]

Byte(st, b) ==
  CASE st.lastData = 255 /\ b.v = 255 ->
         IF Restarts(st)
         THEN [st EXCEPT !.buf = <<b, b>>, !.protocolFlag = 1, !.lastData = 255]
         ELSE st
    [] st.lastData = 255 /\ b.v = 85 -> [st EXCEPT !.lastData = 85]
    [] OTHER -> IF st.protocolFlag = 1 THEN Store(st, b) ELSE [st EXCEPT !.lastData = b.v]

Read(st, i, b) ==
  IF st.complete THEN st ELSE Byte([st EXCEPT !.read = i], b)

\* (The sets with one element make TLC evaluate every step once.)
Parse(bytes) ==
  LET start == [protocolFlag |-> parser.protocolFlag, buf |-> parser.buf,
                lastData |-> parser.lastData, tmpCount |-> 0, read |-> 0, complete |-> FALSE]
      after[i \in 0..Len(bytes)] ==
        IF i = 0 THEN start
        ELSE CHOOSE next \in {Read(st, i, bytes[i]) : st \in {after[i - 1]}} : TRUE
  IN after[Len(bytes)]

Statics(st) ==
  [protocolFlag |-> st.protocolFlag, buf |-> st.buf, lastData |-> st.lastData]

Good(st) == st.complete /\ Last(st.buf).v = gizProtocolSum(st.buf)

\* A good packet leaves nothing behind, a bad one everything.
\* Mutant: protocolCount is not reset.
AfterFlagOnly(st) ==
  IF Good(st) THEN [Statics(st) EXCEPT !.protocolFlag = 0] ELSE Statics(st)

After(st) == IF Good(st) THEN Start ELSE Statics(st)
-----------------------------------------------------------------------------
(***************************************************************************)
(* The acknowledgement slot.                                               *)
(***************************************************************************)

\* gizProtocolAckHandle: nothing, a retry, or the end of the report.
Waiting == waitAck.flag = 1
Retry == Waiting /\ waitAck.num < SendMax /\ late

\* Mutant: the report is kept when the retries are used up.
GiveUpOver == Waiting /\ waitAck.num > SendMax
GiveUp == Waiting /\ waitAck.num >= SendMax

AckHandle ==
  CASE GiveUp -> NoWait
    [] Retry -> [waitAck EXCEPT !.num = waitAck.num + 1]
    [] OTHER -> waitAck

\* gizProtocolWaitAckCheck compares the commands only.
\* Mutant: it does not even do that.
AckCheckAny(slot, cmd) == NoWait

AckCheck(slot, cmd) ==
  IF cmd = ACK_REPORT_P0 /\ slot.flag = 1 THEN NoWait ELSE slot
-----------------------------------------------------------------------------
(***************************************************************************)
(* A pass of osal_run_system: Hal_ProcessPoll hands what the driver has    *)
(* received to the ring, then gizwitsHandle handles at most one packet and *)
(* reports the data points if they have changed.                           *)
(***************************************************************************)

\* In a full ring the two ends meet, and rbCanRead takes it for empty.
Put(w, chunk) ==
  [w EXCEPT !.ring = IF Len(w.ring \o chunk) = RbCapacity THEN <<>> ELSE w.ring \o chunk]

\* rbWrite refuses a chunk that would fill the ring.
\* Mutant: only one that is larger than the room.
rbWriteFull(w, chunk) ==
  IF Len(chunk) > RbCapacity - Len(w.ring)
  THEN [w EXCEPT !.refused = @ \cup {b.of : b \in ToSet(chunk)}]
  ELSE Put(w, chunk)

rbWrite(w, chunk) ==
  IF Len(chunk) >= RbCapacity - Len(w.ring)
  THEN [w EXCEPT !.refused = @ \cup {b.of : b \in ToSet(chunk)}]
  ELSE Put(w, chunk)

\* zigLight_uartProcess, when n bytes have arrived.
UartProcess(n) ==
  LET chunks == [i \in 1..((n + Chunk - 1) \div Chunk) |->
                   SubSeq(line, Chunk * (i - 1) + 1, IF Chunk * i < n THEN Chunk * i ELSE n)]
  IN FoldLeft(rbWrite, [ring |-> rb, refused |-> {}], chunks)

\* The packets the bytes of the complete one come from.
Sources(st) == {b.of : b \in ToSet(st.buf)}

\* gizReportData, n times in a row: the slot keeps the last of the reports.
gizReportData(n) ==
  /\ last' = current
  /\ sn' = (sn + n) % 256
  /\ waitAck' = [flag |-> 1, num |-> 0, sn |-> (sn + n - 1) % 256]
  /\ late' = FALSE

\* The reports of gizDevReportPolicy: one if the data points have changed, and
\* one more, whatever has changed, in a pass that falls in a millisecond in
\* which the timer count is a multiple of 600000.
Due(timer) == (IF current # last THEN 1 ELSE 0) + (IF timer THEN 1 ELSE 0)

\* A packet with a wrong sum ends the call before any report.
gizwitsHandle(ring, timer) ==
  \E st \in {Parse(ring)} :
  LET good == Good(st)
      bad == st.complete /\ ~good
      slot == IF good THEN AckCheck(AckHandle, st.buf[5].v) ELSE AckHandle
      reports == IF bad THEN 0 ELSE Due(timer)
  IN /\ rb' = SubSeq(ring, st.read + 1, Len(ring))
     /\ parser' = After(st)
     /\ handled' = IF good THEN handled \cup Sources(st) ELSE handled
     /\ IF reports # 0 THEN gizReportData(reports)
        ELSE /\ waitAck' = slot
             /\ late' = (late /\ slot = waitAck)
             /\ UNCHANGED <<last, sn>>
     /\ out' = out \o (IF Retry THEN <<waitAck.sn>> ELSE <<>>)
                   \o [i \in 1..reports |-> (sn + i - 1) % 256]
     /\ UNCHANGED current

Pass(n) ==
  \E w \in {UartProcess(n)}, timer \in BOOLEAN :
    /\ timer => timed + beats < Extras
    /\ timed' = IF timer THEN timed + 1 ELSE timed
    /\ gizwitsHandle(w.ring, timer)
    /\ line' = SubSeq(line, n + 1, Len(line))
    /\ hurt' = hurt \cup w.refused
    /\ UNCHANGED <<beats, lost, packets, acks>>

\* gizwitsHandle writes the next part of the table into the data points, when
\* there is one (the module ZigLight says when).
Change ==
  /\ current < Values
  /\ current' = current + 1
  /\ UNCHANGED <<rb, parser, last, sn, waitAck, late, timed, module, history>>

\* SEND_MAX_TIME passes without an acknowledgement.
Expire ==
  /\ Waiting /\ ~late
  /\ late' = TRUE
  /\ UNCHANGED <<rb, parser, current, last, sn, waitAck, timed, module, history>>
-----------------------------------------------------------------------------
(***************************************************************************)
(* The module and the line.                                                *)
(***************************************************************************)

\* A report arrives and is acknowledged with its sequence number.
ModuleAck ==
  /\ out # <<>>
  /\ Send(ACK_REPORT_P0, Head(out))
  /\ acks' = acks \cup {[packet |-> packets + 1, report |-> Head(out)]}
  /\ out' = Tail(out)
  /\ UNCHANGED <<device, beats, lost, hurt, handled>>

ModuleBeat ==
  /\ timed + beats < Extras
  /\ Send(CMD_HEARTBEAT, (FirstSn + beats) % 256)
  /\ beats' = beats + 1
  /\ UNCHANGED <<device, out, lost, hurt, handled, acks>>

LoseByte(i) ==
  /\ lost < MaxLost
  /\ lost' = lost + 1
  /\ line' = RemoveAt(line, i)
  /\ hurt' = hurt \cup {line[i].of}
  /\ UNCHANGED <<device, out, beats, packets, handled, acks>>

LoseReport ==
  /\ lost < MaxLost /\ out # <<>>
  /\ lost' = lost + 1
  /\ out' = Tail(out)
  /\ UNCHANGED <<device, line, beats, history>>

Next ==
  \/ \E n \in 0..Len(line) : Pass(n)
  \/ Change \/ Expire \/ ModuleAck \/ ModuleBeat
  \/ \E i \in DOMAIN line : LoseByte(i)
  \/ LoseReport

Spec == Init /\ [][Next]_vars

\* The run loop goes round without a pause, time passes, and what has been
\* sent and not lost arrives.
FairSpec == Spec /\ WF_vars(Pass(Len(line))) /\ WF_vars(Expire) /\ WF_vars(ModuleAck)
-----------------------------------------------------------------------------
(***************************************************************************)
(* Properties.                                                             *)
(***************************************************************************)

Bytes == [v : 0..255, of : 1..packets]

\* Every variable has its type (rb_t, protocolWaitAck_t and the statics of
\* gizProtocolGetOnePacket), and the ring is never full.
TypeOK ==
  /\ rb \in Seq(Bytes) /\ Len(rb) < RbCapacity
  /\ parser.protocolFlag \in 0..1 /\ parser.lastData \in 0..255
  /\ parser.buf \in Seq(Bytes) /\ (parser.buf = <<>> <=> parser.protocolFlag = 0)
  /\ current \in 0..Values /\ last \in 0..current
  /\ sn \in 0..255 /\ late \in BOOLEAN /\ timed \in 0..Extras
  /\ waitAck \in [flag : 0..1, num : 0..SendMax, sn : 0..255]
  /\ line \in Seq(Bytes) /\ out \in Seq(0..255)
  /\ beats \in 0..(Extras - timed) /\ lost \in 0..MaxLost
  /\ packets \in Nat /\ hurt \subseteq 1..packets /\ handled \subseteq 1..packets
  /\ acks \subseteq [packet : 1..packets, report : 0..255]

\* A cut packet costs at most the packet after it (gizProtocolGetOnePacket):
\* when all bytes have been read, every packet that came whole, and after a
\* whole one, has been handled.
LossIsContained ==
  line = <<>> /\ rb = <<>> =>
    \A k \in 1..packets : {k - 1, k} \cap hurt = {} => k \in handled

\* Ring, parser and report slot are well formed and a loss is contained.
LinkOK == TypeOK /\ LossIsContained

\* Reporting comes to rest again and again (gizDevReportPolicy,
\* gizProtocolAckHandle): after each change and each timed report the data
\* points are reported as they are and the slot becomes free, whatever the line
\* does to reports and acknowledgements.  In the code this needs the next timed
\* report to be later, as it is by 600 s; here there are at most Extras of them.
Settles == []<>(last = current /\ waitAck.flag = 0)

\* The slot is freed for a reason (gizProtocolAckHandle, gizProtocolWaitAckCheck):
\* all retries are used, or an acknowledgement has come, that of this report or
\* the late one of another.
FreedForAReason ==
  [][Waiting /\ waitAck'.flag = 0 =>
       waitAck.num = SendMax \/ \E a \in acks : a.packet \in handled' \ handled]_vars

\* What the comment on gizProtocolAckHandle promises (gizwits_protocol.c:1079) and
\* the code does not keep: what has not been acknowledged is sent again, up to the
\* limit.  So when the slot is freed, all retries are used, or its report has
\* reached the module or is on its way.
ResentUntilAcknowledged ==
  [][Waiting /\ waitAck'.flag = 0 =>
       waitAck.num = SendMax \/ waitAck.sn \in {a.report : a \in acks} \cup ToSet(out)]_vars
=============================================================================
