--------------------------- MODULE ZigLight_proofs ---------------------------
(***************************************************************************)
(* Proofs about ZigLight, for any number of lights, any size of a report   *)
(* and any number of events.  ListInv says what the table is, TableInv what *)
(* the phone has been told of it, and CountInv how far a light that is      *)
(* heard is from being removed.                                            *)
(***************************************************************************)
EXTENDS ZigLight, FiniteSetTheorems, SequenceTheorems, WellFoundedInduction, TLAPS

\* The part of the type invariant the argument needs.
ListType ==
  /\ nodelist \in Seq(Nodes)
  /\ net \subseteq Messages
  /\ present \subseteq Devices
  /\ shortaddr \in [Devices -> Shorts]
  /\ MacToAppFlag \in 0..1

ListInv == ListType /\ OneNodePerDevice /\ CursorValid

-----------------------------------------------------------------------------
\* What the handlers of packets do with the table: its nodes stay where they
\* are, and at most one is added, of a light that had none.
Grows(list) ==
  /\ list \in Seq(Nodes)
  /\ Len(list) \in {Len(nodelist), Len(nodelist) + 1}
  /\ \A i \in DOMAIN nodelist : list[i].mac = nodelist[i].mac
  /\ Len(list) = Len(nodelist) + 1 => list[Len(list)].mac \notin Listed

LEMMA CountFirstGrows ==
  ASSUME nodelist \in Seq(Nodes), NEW S
  PROVE  Grows(CountFirst(S).list)
<1> DEFINE L == CountFirst(S).list
<1>1. L = [i \in DOMAIN nodelist |->
             IF i \in S /\ \A j \in S : i <= j
             THEN [nodelist[i] EXCEPT !.fresh = TRUE] ELSE nodelist[i]]
  BY DEF CountFirst, Same
<1>2. \A i \in DOMAIN nodelist : L[i] \in Nodes /\ L[i].mac = nodelist[i].mac
  <2> SUFFICES ASSUME NEW i \in DOMAIN nodelist
               PROVE  L[i] \in Nodes /\ L[i].mac = nodelist[i].mac
    OBVIOUS
  <2>1. nodelist[i] \in Nodes
    OBVIOUS
  <2>2. L[i] \in {nodelist[i], [nodelist[i] EXCEPT !.fresh = TRUE]}
    BY <1>1
  <2> QED BY <2>1, <2>2 DEF Nodes
<1>3. L \in [1..Len(nodelist) -> Nodes]
  BY <1>1, <1>2
<1>4. L \in Seq(Nodes) /\ Len(L) = Len(nodelist)
  BY <1>3
<1> QED BY <1>2, <1>4 DEF Grows

LEMMA SearchOrInsertGrows ==
  ASSUME nodelist \in Seq(Nodes), NEW d \in Devices, NEW s \in Shorts,
         NEW r \in SearchOrInsert(d, s)
  PROVE  Grows(r.list)
<1>1. CASE WithMac(d) # {}
  BY <1>1, CountFirstGrows DEF SearchOrInsert
<1>2. CASE WithMac(d) = {}
  <2>1. d \notin Listed
    BY <1>2 DEF WithMac, Listed, Macs
  <2>2. Grows(nodelist)
    BY DEF Grows
  <2>3. NewNode(d, s) \in Nodes
    BY NumbersAssumption DEF NewNode, Nodes
  <2>4. Grows(Append(nodelist, NewNode(d, s)))
    BY <2>1, <2>3 DEF Grows, NewNode
  <2> QED BY <1>2, <2>2, <2>4 DEF SearchOrInsert, InsertLast, Same
<1> QED BY <1>1, <1>2

LEMMA MacTableFreshGrows ==
  ASSUME nodelist \in Seq(Nodes), NEW m \in Messages, NEW r \in MacTableFresh(m)
  PROVE  Grows(r.list)
<1>1. m.dev \in Devices /\ m.short \in Shorts
  BY DEF Messages
<1>2. CASE m.dev \in known
  BY <1>1, <1>2, SearchOrInsertGrows DEF MacTableFresh
<1>3. CASE m.dev \notin known /\ WithShort(m.short) # {}
  BY <1>3, CountFirstGrows DEF MacTableFresh
<1>4. CASE m.dev \notin known /\ WithShort(m.short) = {}
  <2>1. r = [Same EXCEPT !.joinin = 3, !.ask = TRUE]
    BY <1>4 DEF MacTableFresh
  <2>2. r.list = nodelist
    BY <2>1 DEF Same
  <2> QED BY <2>2 DEF Grows
<1> QED BY <1>2, <1>3, <1>4

\* A table that has grown has one node per light if it had before, and every
\* light it had.
LEMMA GrowthIsSafe ==
  ASSUME ListInv, Grows(nodelist'), UNCHANGED <<nodeptr, MacToAppFlag>>
  PROVE  OneNodePerDevice' /\ CursorValid'
<1> USE DEF ListInv, ListType
<1>1. OneNodePerDevice'
  <2> SUFFICES ASSUME NEW i \in DOMAIN nodelist', NEW j \in DOMAIN nodelist',
                      nodelist'[i].mac = nodelist'[j].mac
               PROVE  i = j
    BY DEF OneNodePerDevice
  <2>1. CASE i \in DOMAIN nodelist /\ j \in DOMAIN nodelist
    BY <2>1 DEF Grows, OneNodePerDevice
  <2>2. CASE i \in DOMAIN nodelist /\ j \notin DOMAIN nodelist
    <3>1. nodelist'[j].mac \notin Listed
      BY <2>2 DEF Grows
    <3>2. nodelist'[i].mac \in Listed
      BY <2>2 DEF Grows, Listed, Macs
    <3> QED BY <3>1, <3>2
  <2>3. CASE i \notin DOMAIN nodelist /\ j \in DOMAIN nodelist
    <3>1. nodelist'[i].mac \notin Listed
      BY <2>3 DEF Grows
    <3>2. nodelist'[j].mac \in Listed
      BY <2>3 DEF Grows, Listed, Macs
    <3> QED BY <3>1, <3>2
  <2>4. CASE i \notin DOMAIN nodelist /\ j \notin DOMAIN nodelist
    BY <2>4 DEF Grows
  <2> QED BY <2>1, <2>2, <2>3, <2>4
<1>2. Listed \subseteq Listed'
  <2> SUFFICES ASSUME NEW i \in DOMAIN nodelist PROVE nodelist[i].mac \in Listed'
    BY DEF Listed, Macs
  <2>1. i \in DOMAIN nodelist'
    BY DEF Grows
  <2> QED BY <2>1 DEF Grows, Listed, Macs
<1>3. CursorValid'
  BY <1>2 DEF CursorValid
<1> QED BY <1>1, <1>3

-----------------------------------------------------------------------------
\* detectHandle keeps the order of the nodes it does not remove.
LEMMA DetectHandleKeepsOne ==
  ASSUME nodelist \in Seq(Nodes), OneNodePerDevice, DetectHandle
  PROVE  nodelist' \in Seq(Nodes) /\ OneNodePerDevice'
<1> DEFINE K == {i \in DOMAIN nodelist : ~Overdue(nodelist[i])}
           n == Cardinality(K)
<1>1. PICK kept \in InOrder(K) :
        nodelist' = [i \in DOMAIN kept |-> Detected(nodelist[kept[i]])]
  BY DEF DetectHandle
<1>2. n \in Nat
  <2>1. IsFiniteSet(1..Len(nodelist))
    BY FS_Interval
  <2>2. IsFiniteSet(K)
    BY <2>1, FS_Subset
  <2> QED BY <2>2, FS_CardinalityType
<1> HIDE DEF n
<1>3. kept \in [1..n -> K] /\ \A i, j \in 1..n : i < j => kept[i] < kept[j]
  BY <1>1 DEF InOrder, n
<1>4. \A i \in 1..n : nodelist'[i] = Detected(nodelist[kept[i]])
  BY <1>1, <1>3
<1>5. \A i \in 1..n : nodelist'[i] \in Nodes /\ nodelist'[i].mac = nodelist[kept[i]].mac
  <2> SUFFICES ASSUME NEW i \in 1..n
               PROVE  nodelist'[i] \in Nodes /\ nodelist'[i].mac = nodelist[kept[i]].mac
    OBVIOUS
  <2>1. kept[i] \in DOMAIN nodelist /\ ~Overdue(nodelist[kept[i]])
    BY <1>3
  <2>2. nodelist[kept[i]] \in Nodes
    BY <2>1
  <2>3. nodelist'[i] = Detected(nodelist[kept[i]])
    BY <1>4
  <2>4. ASSUME NEW x \in Nodes, ~Overdue(x)
        PROVE  Detected(x) \in Nodes /\ Detected(x).mac = x.mac
    <3>1. x.miss \in 0..(MaxMiss - 1) /\ x.fresh \in BOOLEAN
      BY DEF Nodes
    <3>2. x.fresh \/ x.miss + 1 \in 0..(MaxMiss - 1)
      BY <3>1, <2>4, NumbersAssumption DEF Overdue
    <3> DEFINE k == IF x.fresh THEN 0 ELSE x.miss + 1
    <3>3. k \in 0..(MaxMiss - 1)
      BY <3>2, NumbersAssumption
    <3>4. Detected(x) = [x EXCEPT !.miss = k, !.fresh = FALSE]
      BY DEF Detected
    <3> HIDE DEF k
    <3>5. [x EXCEPT !.miss = k, !.fresh = FALSE] \in Nodes
      BY <3>3 DEF Nodes
    <3>6. [x EXCEPT !.miss = k, !.fresh = FALSE].mac = x.mac
      BY DEF Nodes
    <3> QED BY <3>4, <3>5, <3>6
  <2> QED BY <2>1, <2>2, <2>3, <2>4
<1>6. nodelist' \in Seq(Nodes)
  <2>1. nodelist' \in [1..n -> Nodes]
    BY <1>1, <1>3, <1>5
  <2> QED BY <1>2, <2>1
<1>7. OneNodePerDevice'
  <2> SUFFICES ASSUME NEW i \in 1..n, NEW j \in 1..n,
                      nodelist'[i].mac = nodelist'[j].mac
               PROVE  i = j
    BY <1>1, <1>3 DEF OneNodePerDevice
  <2>1. kept[i] \in DOMAIN nodelist /\ kept[j] \in DOMAIN nodelist
    BY <1>3
  <2>2. kept[i] = kept[j]
    BY <1>5, <2>1 DEF OneNodePerDevice
  <2>3. ~(i < j) /\ ~(j < i)
    BY <1>3, <2>1, <2>2
  <2> QED BY <1>2, <2>3
<1> QED BY <1>6, <1>7

-----------------------------------------------------------------------------
LEMMA ListInit == Init => ListInv
<1> SUFFICES ASSUME Init PROVE ListInv
  OBVIOUS
<1>1. shortaddr \in [Devices -> Shorts]
  BY ShortsAssumption DEF Init
<1> QED BY <1>1 DEF Init, ListInv, ListType, OneNodePerDevice, CursorValid

LEMMA MessageType ==
  ASSUME NEW t \in MessageTypes, NEW d \in Devices, NEW s \in Shorts, NEW l \in BOOLEAN
  PROVE  [type |-> t, dev |-> d, short |-> s, late |-> l] \in Messages
  BY DEF Messages

LEMMA ListStep ==
  ASSUME ListInv, [Next]_vars
  PROVE  ListInv'
<1> USE DEF ListInv, ListType
<1>1. ASSUME NEW d \in Devices, Transmit(d)
      PROVE  ListInv'
  <2> DEFINE t == IF main_state[d] = "REQ" THEN "req" ELSE "beat"
             l == since[d] = MaxGap
  <2>2. t \in MessageTypes /\ l \in BOOLEAN /\ shortaddr[d] \in Shorts
    BY DEF MessageTypes
  <2>3. net' = net \cup {[type |-> t, dev |-> d, short |-> shortaddr[d], late |-> l]}
    BY <1>1 DEF Transmit
  <2> HIDE DEF t, l
  <2>1. net' \subseteq Messages
    BY <2>2, <2>3, MessageType
  <2> QED BY <1>1, <2>1 DEF Transmit, tableVars, reportVars, OneNodePerDevice, CursorValid,
                            Listed, Macs
<1>2. ASSUME NEW d \in Devices, SendCommand(d)
      PROVE  ListInv'
  <2>1. net' \subseteq Messages
    <3>1. shortaddr[d] \in Shorts /\ "command" \in MessageTypes
      BY DEF MessageTypes
    <3> QED BY <1>2, <3>1, MessageType DEF SendCommand
  <2> QED BY <1>2, <2>1 DEF SendCommand, deviceVars, tableVars, reportVars,
                            OneNodePerDevice, CursorValid, Listed, Macs
<1>3. ASSUME NEW d \in Devices, Leave(d)
      PROVE  ListInv'
  BY <1>3 DEF Leave, tableVars, reportVars, OneNodePerDevice, CursorValid, Listed, Macs
<1>4. ASSUME NEW d \in Devices, Join(d)
      PROVE  ListInv'
  BY <1>4 DEF Join, tableVars, reportVars, OneNodePerDevice, CursorValid, Listed, Macs
<1>5. ASSUME NEW m \in net, ReceiveRsq(m) \/ ReceiveCommand(m) \/ Lose(m)
      PROVE  ListInv'
  BY <1>5 DEF ReceiveRsq, ReceiveCommand, Lose, deviceVars, tableVars, reportVars,
              OneNodePerDevice, CursorValid, Listed, Macs
<1>6. ASSUME NEW m \in net, ReceiveIeeeReq(m)
      PROVE  ListInv'
  <2>1. \A d \in Receiver(m) : [Reply(m, "ieee_rsp") EXCEPT !.dev = d] \in Messages
    BY DEF Receiver, Reply, Messages, MessageTypes
  <2>2. net' \subseteq Messages
    BY <1>6, <2>1 DEF ReceiveIeeeReq
  <2> QED BY <1>6, <2>2 DEF ReceiveIeeeReq, deviceVars, tableVars, reportVars,
                            OneNodePerDevice, CursorValid, Listed, Macs
<1>7. ASSUME NEW m \in net, ReceivePacket(m)
      PROVE  ListInv'
  <2>1. PICK r \in MacTableFresh(m) :
          /\ nodelist' = r.list
          /\ net' \subseteq net \cup {Reply(m, "ieee_req"), Reply(m, "rsq")}
    BY <1>7 DEF ReceivePacket, SetTable
  <2>2. UNCHANGED <<present, shortaddr, nodeptr, MacToAppFlag>>
    BY <1>7 DEF ReceivePacket, deviceVars, reportVars
  <2>3. net' \subseteq Messages
    BY <2>1 DEF Reply, Messages, MessageTypes
  <2>4. Grows(nodelist')
    BY <2>1, MacTableFreshGrows
  <2>5. OneNodePerDevice' /\ CursorValid'
    BY <2>2, <2>4, GrowthIsSafe
  <2> QED BY <2>2, <2>3, <2>4, <2>5 DEF Grows
<1>8. ASSUME NEW m \in net, DropPacket(m)
      PROVE  ListInv'
  BY <1>8 DEF DropPacket, deviceVars, tableVars, reportVars, OneNodePerDevice, CursorValid,
              Listed, Macs
<1>9. ASSUME NEW m \in net, ReceiveIeeeRsp(m)
      PROVE  ListInv'
  <2>1. PICK r \in SearchOrInsert(m.dev, m.short) : nodelist' = r.list
    BY <1>9 DEF ReceiveIeeeRsp, SetTable
  <2>2. UNCHANGED <<present, shortaddr, nodeptr, MacToAppFlag>>
    BY <1>9 DEF ReceiveIeeeRsp, deviceVars, reportVars
  <2>3. net' \subseteq Messages
    BY <1>9 DEF ReceiveIeeeRsp, Reply, Messages, MessageTypes
  <2>4. m.dev \in Devices /\ m.short \in Shorts
    BY DEF Messages
  <2>5. Grows(nodelist')
    BY <2>1, <2>4, SearchOrInsertGrows
  <2>6. OneNodePerDevice' /\ CursorValid'
    BY <2>2, <2>5, GrowthIsSafe
  <2> QED BY <2>2, <2>3, <2>5, <2>6 DEF Grows
<1>10. CASE Sweep
  <2>1. net' \subseteq Messages
    BY <1>10 DEF Sweep, Messages
  <2>2. UNCHANGED <<present, shortaddr, nodeptr, MacToAppFlag>>
    BY <1>10 DEF Sweep, reportVars
  <2>3. CASE MacToAppFlag = 0
    <3>1. DetectHandle
      BY <1>10, <2>3 DEF Sweep, SweepTable
    <3>2. nodeptr' = NoMac
      BY <2>2, <2>3 DEF CursorValid
    <3> QED BY <2>1, <2>2, <3>1, <3>2, DetectHandleKeepsOne DEF CursorValid
  <2>4. CASE MacToAppFlag # 0
    <3>1. UNCHANGED nodelist
      BY <1>10, <2>4 DEF Sweep, SweepTable
    <3> QED BY <2>1, <2>2, <3>1 DEF OneNodePerDevice, CursorValid, Listed, Macs
  <2> QED BY <2>3, <2>4
<1>11. CASE RequestTable
  BY <1>11 DEF RequestTable, deviceVars, tableVars, OneNodePerDevice, CursorValid, Listed,
               Macs
<1>12. CASE ReportTable
  <2>1. UNCHANGED <<nodelist, net, present, shortaddr>>
    BY <1>12 DEF ReportTable, tableVars, deviceVars
  <2>2. \E next :
          /\ nodeptr' = IF next \in DOMAIN nodelist THEN nodelist[next].mac ELSE NoMac
          /\ MacToAppFlag' = IF next \in DOMAIN nodelist THEN 1 ELSE 0
    BY <1>12 DEF ReportTable
  <2>3. CursorValid' /\ MacToAppFlag' \in 0..1
    BY <2>1, <2>2 DEF CursorValid, Listed, Macs
  <2> QED BY <2>1, <2>3 DEF OneNodePerDevice
<1>13. CASE ReportDeleted
  BY <1>13 DEF ReportDeleted, deviceVars, OneNodePerDevice, CursorValid, Listed, Macs
<1>14. CASE ReportNew
  <2>1. UNCHANGED <<net, present, shortaddr, nodeptr, MacToAppFlag>>
    BY <1>14 DEF ReportNew, deviceVars
  <2>2. PICK batch :
          nodelist' = [i \in DOMAIN nodelist |->
                         IF i \in batch THEN [nodelist[i] EXCEPT !.element = 0]
                         ELSE nodelist[i]]
    BY <1>14 DEF ReportNew
  <2>3. \A i \in DOMAIN nodelist :
          nodelist'[i] \in Nodes /\ nodelist'[i].mac = nodelist[i].mac
    <3> SUFFICES ASSUME NEW i \in DOMAIN nodelist
                 PROVE  nodelist'[i] \in Nodes /\ nodelist'[i].mac = nodelist[i].mac
      OBVIOUS
    <3>1. nodelist[i] \in Nodes
      OBVIOUS
    <3>2. nodelist'[i] \in {nodelist[i], [nodelist[i] EXCEPT !.element = 0]}
      BY <2>2
    <3> QED BY <3>1, <3>2 DEF Nodes
  <2>4. nodelist' \in Seq(Nodes) /\ DOMAIN nodelist' = DOMAIN nodelist
    BY <2>2, <2>3
  <2>5. OneNodePerDevice' /\ Listed' = Listed
    BY <2>3, <2>4 DEF OneNodePerDevice, Listed, Macs
  <2> QED BY <2>1, <2>4, <2>5 DEF CursorValid
<1>15. CASE Restart
  <2>1. net' \subseteq Messages
    BY <1>15 DEF Restart, Messages
  <2>2. nodelist' = << >> /\ nodeptr' = NoMac /\ MacToAppFlag' = 0
    BY <1>15 DEF Restart
  <2>3. UNCHANGED <<present, shortaddr>>
    BY <1>15 DEF Restart
  <2> QED BY <2>1, <2>2, <2>3 DEF OneNodePerDevice, CursorValid
<1>16. CASE UNCHANGED vars
  BY <1>16 DEF vars, deviceVars, tableVars, reportVars, OneNodePerDevice, CursorValid,
               Listed, Macs
<1> QED BY <1>1, <1>2, <1>3, <1>4, <1>5, <1>6, <1>7, <1>8, <1>9, <1>10, <1>11, <1>12,
           <1>13, <1>14, <1>15, <1>16 DEF Next, Receive, Giz

\* A light never has two nodes in the coordinator's table: mac_table_fresh and
\* the handler of IEEE_addr_rsp insert only what their own search has not
\* found, and detectHandle keeps the order of what it leaves.
THEOREM OneNodeSafe == Spec => []OneNodePerDevice
<1>1. ListInv => OneNodePerDevice
  BY DEF ListInv
<1> QED BY ListInit, ListStep, <1>1, PTL DEF Spec

\* gizwitsHandle's cursor is never left on a node that detectHandle has
\* removed, and that a later pass frees.
THEOREM CursorSafe == Spec => []CursorValid
<1>1. ListInv => CursorValid
  BY DEF ListInv
<1> QED BY ListInit, ListStep, <1>1, PTL DEF Spec

-----------------------------------------------------------------------------
(* What the phone has been told.                                           *)

\* The part of the type invariant that OneNodePerDevice does without.
OtherTypes ==
  /\ main_state \in [Devices -> {"REQ", "HEARTBEAT"}]
  /\ since \in [Devices -> 0..MaxGap]
  /\ deletnodelist \in Seq(Devices)
  /\ newdevice_joinin \in 0..3
  /\ known \in SUBSET Devices
  /\ NewMacUpate \in 0..1
  /\ nodeptr \in Devices \cup {NoMac}
  /\ due \in BOOLEAN
  /\ appView \in SUBSET Devices
  /\ excused \in SUBSET Devices
  /\ forgotten \in SUBSET Devices
  /\ events \in 0..MaxEvents

TableInv == ListInv /\ OtherTypes /\ ReportsAreDue

\* What the handlers of packets leave of the marks, and the news of an added node.
Announces(r) ==
  /\ \A i \in DOMAIN nodelist : r.list[i].element = nodelist[i].element
  /\ \A i \in DOMAIN r.list \ DOMAIN nodelist : r.list[i].element = 1 /\ r.news = 1
  /\ r.news \in {NewMacUpate, 1}
  /\ r.joinin \in {newdevice_joinin, 1, 2, 3}

LEMMA CountFirstAnnounces ==
  ASSUME nodelist \in Seq(Nodes), NEW S
  PROVE  Announces(CountFirst(S))
<1> DEFINE L == [i \in DOMAIN nodelist |->
                   IF i \in S /\ \A j \in S : i <= j
                   THEN [nodelist[i] EXCEPT !.fresh = TRUE] ELSE nodelist[i]]
<1>1. \A i \in DOMAIN nodelist : L[i].element = nodelist[i].element
  <2> SUFFICES ASSUME NEW i \in DOMAIN nodelist PROVE L[i].element = nodelist[i].element
    OBVIOUS
  <2>1. nodelist[i] \in Nodes
    OBVIOUS
  <2>2. L[i] \in {nodelist[i], [nodelist[i] EXCEPT !.fresh = TRUE]}
    OBVIOUS
  <2> QED BY <2>1, <2>2 DEF Nodes
<1>2. DOMAIN L = DOMAIN nodelist
  OBVIOUS
<1>3. CountFirst(S) = [Same EXCEPT !.list = L]
  BY DEF CountFirst
<1> HIDE DEF L
<1>4. /\ CountFirst(S).list = L /\ CountFirst(S).news = NewMacUpate
      /\ CountFirst(S).joinin = newdevice_joinin
  BY <1>3 DEF Same
<1> QED BY <1>1, <1>2, <1>4 DEF Announces

LEMMA SearchOrInsertAnnounces ==
  ASSUME nodelist \in Seq(Nodes), NEW d, NEW s, NEW r \in SearchOrInsert(d, s)
  PROVE  Announces(r)
<1>1. CASE WithMac(d) # {}
  BY <1>1, CountFirstAnnounces DEF SearchOrInsert
<1>2. CASE WithMac(d) = {}
  <2> DEFINE n == NewNode(d, s)
  <2>1. \/ /\ r.list = Append(nodelist, n) /\ r.joinin = 1 /\ r.news = 1
        \/ r.list = nodelist /\ r.joinin = 2 /\ r.news = NewMacUpate
    BY <1>2 DEF SearchOrInsert, InsertLast, Same
  <2>2. n.element = 1
    BY DEF NewNode
  <2> HIDE DEF n
  <2>3. /\ \A i \in DOMAIN nodelist : Append(nodelist, n)[i] = nodelist[i]
        /\ \A i \in DOMAIN Append(nodelist, n) \ DOMAIN nodelist : Append(nodelist, n)[i] = n
    OBVIOUS
  <2> QED BY <2>1, <2>2, <2>3 DEF Announces
<1> QED BY <1>1, <1>2

LEMMA MacTableFreshAnnounces ==
  ASSUME nodelist \in Seq(Nodes), NEW m \in Messages, NEW r \in MacTableFresh(m)
  PROVE  Announces(r)
<1>1. CASE m.dev \in known
  BY <1>1, SearchOrInsertAnnounces DEF MacTableFresh
<1>2. CASE m.dev \notin known /\ WithShort(m.short) # {}
  BY <1>2, CountFirstAnnounces DEF MacTableFresh
<1>3. CASE m.dev \notin known /\ WithShort(m.short) = {}
  <2>1. r = [Same EXCEPT !.joinin = 3, !.ask = TRUE]
    BY <1>3 DEF MacTableFresh
  <2>2. r.list = nodelist /\ r.news = NewMacUpate /\ r.joinin = 3
    BY <2>1 DEF Same
  <2> QED BY <2>2 DEF Announces
<1> QED BY <1>1, <1>2, <1>3

\* What a handler that puts such a result into the table keeps.
LEMMA SetTableKeeps ==
  ASSUME TableInv, NEW r, Grows(r.list), Announces(r), NEW joinin \in 0..3,
         SetTable(r, joinin), UNCHANGED <<appView, deletnodelist>>
  PROVE  /\ ReportsAreDue'
         /\ newdevice_joinin' \in 0..3 /\ NewMacUpate' \in 0..1
         /\ forgotten' \in SUBSET Devices /\ events' \in 0..MaxEvents
<1> USE DEF TableInv, ListInv, ListType
<1>1. /\ nodelist' = r.list /\ NewMacUpate' = r.news /\ newdevice_joinin' = joinin
      /\ forgotten' = forgotten \ Listed'
  BY DEF SetTable, Listed
<1>2. NewMacUpate' \in 0..1 /\ forgotten' \in SUBSET Devices
  BY <1>1 DEF Announces, OtherTypes
<1>3. events' \in 0..MaxEvents
  BY NumbersAssumption DEF SetTable, Event, OtherTypes
<1>4. /\ \A i \in DOMAIN nodelist : /\ i \in DOMAIN nodelist'
                                    /\ nodelist'[i].mac = nodelist[i].mac
                                    /\ nodelist'[i].element = nodelist[i].element
      /\ \A i \in DOMAIN nodelist' \ DOMAIN nodelist :
           nodelist'[i].element = 1 /\ NewMacUpate' = 1
  BY <1>1 DEF Grows, Announces
<1>5. Listed \subseteq Listed'
  BY <1>4 DEF Listed, Macs
<1>6. \A i \in DOMAIN nodelist' : Reported(i)' => i \in DOMAIN nodelist /\ Reported(i)
  BY <1>4 DEF Reported
<1>7. \A i \in DOMAIN nodelist' :
        Reported(i)' => nodelist'[i].mac \in appView' \ ToSet(deletnodelist')
  BY <1>4, <1>6 DEF ReportsAreDue
<1>8. appView' \subseteq Listed' \cup ToSet(deletnodelist') \cup forgotten'
  BY <1>1, <1>5 DEF ReportsAreDue
<1>9. NewMacUpate' = 0 => \A i \in DOMAIN nodelist' : Reported(i)'
  <2> SUFFICES ASSUME NewMacUpate' = 0, NEW i \in DOMAIN nodelist' PROVE Reported(i)'
    OBVIOUS
  <2>1. i \in DOMAIN nodelist
    BY <1>4
  <2>2. NewMacUpate = 0
    BY <1>1, <1>2 DEF Announces, OtherTypes
  <2> QED BY <1>4, <2>1, <2>2 DEF ReportsAreDue, Reported
<1> QED BY <1>1, <1>2, <1>3, <1>7, <1>8, <1>9 DEF ReportsAreDue
-----------------------------------------------------------------------------
\* A walk through a set of positions in order reaches each of them.
LEMMA InOrderReachesAll ==
  ASSUME NEW S \in SUBSET Nat, IsFiniteSet(S), NEW f \in InOrder(S)
  PROVE  /\ Cardinality(S) \in Nat
         /\ f \in [1..Cardinality(S) -> S]
         /\ \A x \in S : \E i \in 1..Cardinality(S) : f[i] = x
<1> DEFINE n == Cardinality(S)
<1>1. n \in Nat
  BY FS_CardinalityType
<1>2. f \in [1..n -> S] /\ \A i, j \in 1..n : i < j => f[i] < f[j]
  BY DEF InOrder
<1> HIDE DEF n
<1>3. f \in Injection(1..n, S)
  <2>1. ASSUME NEW i \in 1..n, NEW j \in 1..n, f[i] = f[j] PROVE i = j
    <3>1. f[i] \in Nat /\ f[j] \in Nat
      BY <1>2
    <3>2. ~(i < j) /\ ~(j < i)
      BY <1>2, <2>1, <3>1
    <3> QED BY <1>1, <3>2
  <2> QED BY <1>2, <2>1 DEF Injection, IsInjective
<1>4. Cardinality(1..n) = n
  BY <1>1, FS_Interval
<1>5. f \in Surjection(1..n, S)
  BY <1>3, <1>4, FS_Injection, Zenon DEF n
<1> QED BY <1>1, <1>2, <1>5 DEF Surjection, n

\* A removed node waits to be taken back, and only removed nodes do.
LEMMA DetectHandleReports ==
  ASSUME TableInv, DetectHandle, UNCHANGED <<NewMacUpate, appView, forgotten>>
  PROVE  deletnodelist' \in Seq(Devices) /\ ReportsAreDue'
<1> USE DEF TableInv, ListInv, ListType
<1> DEFINE Gone == {i \in DOMAIN nodelist : Overdue(nodelist[i])}
           Kept == {i \in DOMAIN nodelist : ~Overdue(nodelist[i])}
           macs(f) == [i \in DOMAIN f |-> nodelist[f[i]].mac]
           g == Cardinality(Gone)
           k == Cardinality(Kept)
<1>1. PICK gone \in InOrder(Gone), kept \in InOrder(Kept) :
        /\ nodelist' = [i \in DOMAIN kept |-> Detected(nodelist[kept[i]])]
        /\ deletnodelist' = deletnodelist \o macs(gone)
  BY DEF DetectHandle
<1>2. IsFiniteSet(Gone) /\ IsFiniteSet(Kept)
  <2>1. IsFiniteSet(1..Len(nodelist))
    BY FS_Interval
  <2> QED BY <2>1, FS_Subset
<1>3. /\ g \in Nat /\ gone \in [1..g -> Gone]
      /\ \A x \in Gone : \E i \in 1..g : gone[i] = x
  <2>1. Gone \in SUBSET Nat
    OBVIOUS
  <2> HIDE DEF Gone
  <2> QED BY <1>1, <1>2, <2>1, InOrderReachesAll
<1>4. /\ k \in Nat /\ kept \in [1..k -> Kept]
      /\ \A x \in Kept : \E i \in 1..k : kept[i] = x
  <2>1. Kept \in SUBSET Nat
    OBVIOUS
  <2> HIDE DEF Kept
  <2> QED BY <1>1, <1>2, <2>1, InOrderReachesAll
<1>5. \A i \in DOMAIN nodelist : nodelist[i] \in Nodes /\ nodelist[i].mac \in Devices
  <2> SUFFICES ASSUME NEW i \in DOMAIN nodelist
               PROVE  nodelist[i] \in Nodes /\ nodelist[i].mac \in Devices
    OBVIOUS
  <2>1. nodelist[i] \in Nodes
    OBVIOUS
  <2> QED BY <2>1 DEF Nodes
<1> HIDE DEF g, k
<1>6. macs(gone) \in Seq(Devices) /\ Len(macs(gone)) = g
  <2>1. macs(gone) \in [1..g -> Devices]
    BY <1>3, <1>5
  <2> QED BY <1>3, <2>1
<1>7. \A i \in 1..g : macs(gone)[i] = nodelist[gone[i]].mac
  BY <1>3
<1> DEFINE Taken == {nodelist[i].mac : i \in Gone}
<1>8. /\ deletnodelist' \in Seq(Devices)
      /\ ToSet(deletnodelist') = ToSet(deletnodelist) \cup Taken
  <2> DEFINE M == macs(gone)
  <2>1. deletnodelist \in Seq(Devices)
    BY DEF OtherTypes
  <2>2. ToSet(M) = Taken
    <3>1. DOMAIN M = 1..g
      BY <1>3
    <3>2. ToSet(M) = {M[i] : i \in 1..g}
      BY <3>1 DEF ToSet
    <3>3. \A i \in 1..g : M[i] = nodelist[gone[i]].mac
      BY <1>7
    <3> HIDE DEF M
    <3>4. ToSet(M) \subseteq Taken
      <4> SUFFICES ASSUME NEW i \in 1..g PROVE M[i] \in Taken
        BY <3>2
      <4>1. gone[i] \in Gone
        BY <1>3
      <4> QED BY <3>3, <4>1
    <3>5. Taken \subseteq ToSet(M)
      <4> SUFFICES ASSUME NEW x \in Gone PROVE nodelist[x].mac \in ToSet(M)
        OBVIOUS
      <4>1. PICK i \in 1..g : gone[i] = x
        BY <1>3
      <4> QED BY <3>2, <3>3, <4>1
    <3> QED BY <3>4, <3>5
  <2> HIDE DEF M, Taken
  <2>3. /\ deletnodelist \o M \in Seq(Devices)
        /\ ToSet(deletnodelist \o M) = ToSet(deletnodelist) \cup ToSet(M)
    <3>1. M \in Seq(Devices)
      BY <1>6 DEF M
    <3>2. \A z : ToSet(z) = Range(z)
      BY DEF ToSet, Range
    <3> QED BY <2>1, <3>1, <3>2, ConcatProperties, RangeConcatenation
  <2> QED BY <1>1, <2>2, <2>3 DEF M
<1> HIDE DEF macs
<1>9. DOMAIN nodelist' = 1..k /\ \A i \in 1..k : nodelist'[i] = Detected(nodelist[kept[i]])
  BY <1>1, <1>4
<1>10. \A i \in 1..k : /\ nodelist'[i].mac = nodelist[kept[i]].mac
                       /\ nodelist'[i].element = nodelist[kept[i]].element
  <2> SUFFICES ASSUME NEW i \in 1..k
               PROVE  /\ nodelist'[i].mac = nodelist[kept[i]].mac
                      /\ nodelist'[i].element = nodelist[kept[i]].element
    OBVIOUS
  <2>1. nodelist[kept[i]] \in Nodes
    BY <1>4, <1>5
  <2>2. \A x \in Nodes : Detected(x).mac = x.mac /\ Detected(x).element = x.element
    BY DEF Detected, Nodes
  <2> QED BY <1>9, <2>1, <2>2
<1>11. ASSUME NEW i \in 1..k, Reported(i)'
       PROVE  nodelist'[i].mac \in appView' \ ToSet(deletnodelist')
  <2>1. kept[i] \in Kept /\ Reported(kept[i])
    BY <1>4, <1>10, <1>11 DEF Reported
  <2>2. nodelist[kept[i]].mac \in appView \ ToSet(deletnodelist)
    BY <2>1 DEF ReportsAreDue
  <2>3. nodelist[kept[i]].mac \notin Taken
    BY <2>1 DEF OneNodePerDevice
  <2> QED BY <1>8, <1>10, <2>2, <2>3
<1>12. Listed \subseteq Listed' \cup Taken
  <2> SUFFICES ASSUME NEW j \in DOMAIN nodelist, j \notin Gone
               PROVE  nodelist[j].mac \in Listed'
    BY DEF Listed, Macs
  <2>1. PICK i \in 1..k : kept[i] = j
    BY <1>4
  <2> QED BY <1>9, <1>10, <2>1 DEF Listed, Macs
<1>13. appView' \subseteq Listed' \cup ToSet(deletnodelist') \cup forgotten'
  BY <1>8, <1>12 DEF ReportsAreDue
<1>14. NewMacUpate' = 0 => \A i \in 1..k : Reported(i)'
  <2> SUFFICES ASSUME NewMacUpate = 0, NEW i \in 1..k PROVE Reported(i)'
    OBVIOUS
  <2>1. Reported(kept[i])
    BY <1>4 DEF ReportsAreDue
  <2> QED BY <1>10, <2>1 DEF Reported
<1> QED BY <1>8, <1>9, <1>11, <1>13, <1>14 DEF ReportsAreDue
\* A pass that tells the phone of nodes of the table, all of it or the new ones.
LEMMA ReportTableReports ==
  ASSUME TableInv, ReportTable
  PROVE  /\ ReportsAreDue'
         /\ nodeptr' \in Devices \cup {NoMac} /\ appView' \in SUBSET Devices
<1> USE DEF TableInv, ListInv, ListType
<1>1. UNCHANGED <<nodelist, deletnodelist, NewMacUpate, forgotten>>
  BY DEF ReportTable, tableVars
<1>2. PICK batch, next : /\ batch = {nodelist[i].mac : i \in DOMAIN nodelist \cap next}
                         /\ appView' = appView \cup batch
  BY DEF ReportTable
<1>3. \A i \in DOMAIN nodelist : nodelist[i].mac \in Devices
  <2> SUFFICES ASSUME NEW i \in DOMAIN nodelist PROVE nodelist[i].mac \in Devices
    OBVIOUS
  <2>1. nodelist[i] \in Nodes
    OBVIOUS
  <2> QED BY <2>1 DEF Nodes
<1>4. batch \subseteq Listed /\ Listed \subseteq Devices
  BY <1>2, <1>3 DEF Listed, Macs
<1>5. appView' \in SUBSET Devices
  BY <1>2, <1>4 DEF OtherTypes
<1>6. nodeptr' \in Devices \cup {NoMac}
  <2>1. \E i : nodeptr' = IF i \in DOMAIN nodelist THEN nodelist[i].mac ELSE NoMac
    BY DEF ReportTable
  <2> QED BY <1>3, <2>1
<1>7. ReportsAreDue'
  BY <1>1, <1>2, <1>4 DEF ReportsAreDue, Reported, Listed
<1> QED BY <1>5, <1>6, <1>7

\* A pass that takes back the first of the removed nodes.
LEMMA ReportDeletedReports ==
  ASSUME TableInv, ReportDeleted
  PROVE  /\ ReportsAreDue'
         /\ deletnodelist' \in Seq(Devices) /\ appView' \in SUBSET Devices
<1> USE DEF TableInv, ListInv, ListType
<1>1. UNCHANGED <<nodelist, NewMacUpate, forgotten>>
  BY DEF ReportDeleted
<1> DEFINE n == IF Len(deletnodelist) < Batch THEN Len(deletnodelist) ELSE Batch
           Told == {deletnodelist[i] : i \in 1..n}
<1>2. appView' = appView \ Told /\ deletnodelist' = SubSeq(deletnodelist, n + 1, Len(deletnodelist))
  BY DEF ReportDeleted, DeletedLeft
<1>3. deletnodelist \in Seq(Devices) /\ n \in 0..Len(deletnodelist)
  BY NumbersAssumption DEF OtherTypes
<1> HIDE DEF n
<1>4. /\ deletnodelist' \in Seq(Devices)
      /\ DOMAIN deletnodelist' = 1..(Len(deletnodelist) - n)
      /\ \A i \in 1..(Len(deletnodelist) - n) : deletnodelist'[i] = deletnodelist[n + i]
  BY <1>2, <1>3
<1>5. ToSet(deletnodelist') \subseteq ToSet(deletnodelist)
  <2> SUFFICES ASSUME NEW i \in 1..(Len(deletnodelist) - n)
               PROVE  deletnodelist'[i] \in ToSet(deletnodelist)
    BY <1>4 DEF ToSet
  <2>1. n + i \in DOMAIN deletnodelist
    BY <1>3
  <2> QED BY <1>4, <2>1 DEF ToSet
<1>6. ToSet(deletnodelist) \subseteq ToSet(deletnodelist') \cup Told
  <2> SUFFICES ASSUME NEW i \in 1..Len(deletnodelist), i \notin 1..n
               PROVE  deletnodelist[i] \in ToSet(deletnodelist')
    BY <1>3 DEF ToSet
  <2>1. i - n \in 1..(Len(deletnodelist) - n) /\ n + (i - n) = i
    BY <1>3
  <2> QED BY <1>4, <2>1 DEF ToSet
<1>7. Told \subseteq ToSet(deletnodelist)
  BY <1>3 DEF ToSet
<1> HIDE DEF Told
<1>8. \A i \in DOMAIN nodelist' :
        Reported(i)' => nodelist'[i].mac \in appView' \ ToSet(deletnodelist')
  BY <1>1, <1>2, <1>5, <1>7 DEF ReportsAreDue, Reported
<1>9. appView' \subseteq Listed' \cup ToSet(deletnodelist') \cup forgotten'
  <2>1. Listed' = Listed
    BY <1>1 DEF Listed
  <2> QED BY <1>1, <1>2, <1>6, <2>1 DEF ReportsAreDue
<1>10. NewMacUpate' = 0 => \A i \in DOMAIN nodelist' : Reported(i)'
  BY <1>1 DEF ReportsAreDue, Reported
<1>11. appView' \in SUBSET Devices
  BY <1>2 DEF OtherTypes
<1> QED BY <1>4, <1>8, <1>9, <1>10, <1>11 DEF ReportsAreDue
\* The new nodes are counted one by one.
LEMMA NewUpToCounts ==
  ASSUME NEW i \in Nat
  PROVE  /\ NewUpTo(0) = 0
         /\ NewUpTo(i) \in Nat
         /\ NewUpTo(i + 1) \in {NewUpTo(i), NewUpTo(i) + 1}
<1> DEFINE News(k) == {j \in 1..k : nodelist[j].element = 1}
<1>1. News(0) = {}
  OBVIOUS
<1>2. NewUpTo(0) = 0
  BY <1>1, FS_EmptySet DEF NewUpTo
<1>3. IsFiniteSet(News(i))
  <2>1. IsFiniteSet(1..i)
    BY FS_Interval
  <2> QED BY <2>1, FS_Subset
<1>4. News(i + 1) \in {News(i), News(i) \cup {i + 1}}
  <2>1. 1..(i + 1) = (1..i) \cup {i + 1}
    OBVIOUS
  <2> QED BY <2>1
<1>5. i + 1 \notin News(i)
  OBVIOUS
<1>6. NewUpTo(i) = Cardinality(News(i)) /\ NewUpTo(i + 1) = Cardinality(News(i + 1))
  BY DEF NewUpTo
<1> HIDE DEF News
<1>7. /\ Cardinality(News(i)) \in Nat
      /\ Cardinality(News(i) \cup {i + 1}) = Cardinality(News(i)) + 1
  BY <1>3, <1>5, FS_CardinalityType, FS_AddElement
<1> QED BY <1>2, <1>4, <1>6, <1>7

\* When the walk has not stopped before the tail it has passed every new node.
LEMMA NoMoreNew ==
  ASSUME nodelist \in Seq(Nodes), MoreNew = 0, NEW i \in DOMAIN nodelist
  PROVE  NewUpTo(i) <= Batch
<1> SUFFICES ASSUME NewUpTo(i) > Batch PROVE FALSE
  BY NewUpToCounts, NumbersAssumption
<1> DEFINE Over == {j \in Nat : NewUpTo(j) > Batch}
<1>1. i \in Over /\ Over \subseteq Nat
  OBVIOUS
<1>2. PICK j \in Over : \A k \in Over : ~(<<k, j>> \in OpToRel(<, Nat))
  <2> HIDE DEF Over
  <2> QED BY <1>1, WFMin, NatLessThanWellFounded
<1>3. \A k \in Over : ~(k < j)
  <2> SUFFICES ASSUME NEW k \in Over, k < j PROVE FALSE
    OBVIOUS
  <2> QED BY <1>1, <1>2 DEF OpToRel
<1>4. j \in Nat /\ NewUpTo(j) > Batch /\ j <= i
  BY <1>1, <1>3
<1>5. j # 0
  BY <1>4, NewUpToCounts, NumbersAssumption
<1> DEFINE b == j - 1
<1>6. b \in Nat /\ j = b + 1 /\ b < i
  BY <1>4, <1>5
<1>7. b \notin Over
  BY <1>3, <1>6
<1> HIDE DEF b
<1>8. /\ NewUpTo(b) \in Nat /\ NewUpTo(j) \in {NewUpTo(b), NewUpTo(b) + 1}
      /\ NewUpTo(0) = 0
  BY <1>6, NewUpToCounts
<1>9. NewUpTo(b) = Batch
  BY <1>4, <1>6, <1>7, <1>8, NumbersAssumption
<1>10. b \in DOMAIN nodelist /\ b < Len(nodelist)
  BY <1>6, <1>8, <1>9, NumbersAssumption
<1> QED BY <1>9, <1>10 DEF MoreNew

\* A pass that tells the phone of the first of the new nodes.
LEMMA ReportNewReports ==
  ASSUME TableInv, ReportNew
  PROVE  /\ ReportsAreDue'
         /\ NewMacUpate' \in 0..1 /\ appView' \in SUBSET Devices
<1> USE DEF TableInv, ListInv, ListType
<1> DEFINE Batched == {i \in DOMAIN nodelist : nodelist[i].element = 1 /\ NewUpTo(i) <= Batch}
           Told == {nodelist[i].mac : i \in Batched}
<1>1. /\ UNCHANGED <<deletnodelist, forgotten>> /\ deletnodelist = << >>
      /\ nodelist' = [i \in DOMAIN nodelist |->
                        IF i \in Batched THEN [nodelist[i] EXCEPT !.element = 0]
                        ELSE nodelist[i]]
      /\ appView' = appView \cup Told
      /\ NewMacUpate' = MoreNew
  BY DEF ReportNew
<1>2. \A i \in DOMAIN nodelist : nodelist[i] \in Nodes /\ nodelist[i].mac \in Devices
  <2> SUFFICES ASSUME NEW i \in DOMAIN nodelist
               PROVE  nodelist[i] \in Nodes /\ nodelist[i].mac \in Devices
    OBVIOUS
  <2>1. nodelist[i] \in Nodes
    OBVIOUS
  <2> QED BY <2>1 DEF Nodes
<1>3. Told \subseteq Listed /\ Listed \subseteq Devices
  BY <1>2 DEF Listed, Macs
<1>4. Batched \subseteq DOMAIN nodelist
  OBVIOUS
<1>5. \A i \in DOMAIN nodelist : i \notin Batched /\ NewUpTo(i) <= Batch => Reported(i)
  <2> SUFFICES ASSUME NEW i \in DOMAIN nodelist, nodelist[i].element # 1 PROVE Reported(i)
    OBVIOUS
  <2> QED BY <1>2 DEF Reported, Nodes
<1>6. \A i \in Batched : nodelist[i].mac \in Told
  OBVIOUS
<1> HIDE DEF Batched, Told
<1>7. /\ DOMAIN nodelist' = DOMAIN nodelist
      /\ \A i \in DOMAIN nodelist :
           /\ nodelist'[i].mac = nodelist[i].mac
           /\ nodelist'[i].element = IF i \in Batched THEN 0 ELSE nodelist[i].element
  <2> SUFFICES ASSUME NEW i \in DOMAIN nodelist
               PROVE  /\ nodelist'[i].mac = nodelist[i].mac
                      /\ nodelist'[i].element = IF i \in Batched THEN 0 ELSE nodelist[i].element
    BY <1>1
  <2>1. nodelist'[i] = IF i \in Batched THEN [nodelist[i] EXCEPT !.element = 0] ELSE nodelist[i]
    BY <1>1
  <2>2. \A x \in Nodes : /\ [x EXCEPT !.element = 0].mac = x.mac
                         /\ [x EXCEPT !.element = 0].element = 0
    BY DEF Nodes
  <2> QED BY <1>2, <2>1, <2>2
<1>8. Listed' = Listed /\ ToSet(deletnodelist') = {} /\ ToSet(deletnodelist) = {}
  BY <1>1, <1>7 DEF Listed, Macs, ToSet
<1>9. \A i \in DOMAIN nodelist' :
        Reported(i)' => nodelist'[i].mac \in appView' \ ToSet(deletnodelist')
  <2> SUFFICES ASSUME NEW i \in DOMAIN nodelist, i \in Batched \/ Reported(i)
               PROVE  nodelist[i].mac \in appView'
    BY <1>7, <1>8 DEF Reported
  <2> QED BY <1>1, <1>6 DEF ReportsAreDue
<1>10. appView' \subseteq Listed' \cup ToSet(deletnodelist') \cup forgotten'
  BY <1>1, <1>3, <1>8 DEF ReportsAreDue
<1>11. NewMacUpate' = 0 => \A i \in DOMAIN nodelist' : Reported(i)'
  <2> SUFFICES ASSUME MoreNew = 0, NEW i \in DOMAIN nodelist PROVE Reported(i)'
    BY <1>1, <1>7
  <2>1. NewUpTo(i) <= Batch
    BY NoMoreNew
  <2>2. i \in Batched \/ Reported(i)
    BY <1>5, <2>1
  <2> QED BY <1>7, <2>2 DEF Reported
<1>12. NewMacUpate' \in 0..1
  BY <1>1 DEF MoreNew
<1>13. appView' \in SUBSET Devices
  BY <1>1, <1>3 DEF OtherTypes
<1> QED BY <1>9, <1>10, <1>11, <1>12, <1>13 DEF ReportsAreDue
-----------------------------------------------------------------------------
LEMMA TableInit == Init => TableInv
<1> SUFFICES ASSUME Init PROVE TableInv
  OBVIOUS
<1>1. OtherTypes
  <2>1. due \in BOOLEAN
    BY Zenon DEF Init
  <2>2. deletnodelist \in Seq(Devices) /\ newdevice_joinin \in 0..3 /\ NewMacUpate \in 0..1
    BY DEF Init
  <2>3. since \in [Devices -> 0..MaxGap] /\ events \in 0..MaxEvents
    BY NumbersAssumption DEF Init
  <2> QED BY <2>1, <2>2, <2>3, ChildrenAssumption DEF Init, OtherTypes
<1>2. ReportsAreDue
  BY DEF Init, ReportsAreDue
<1> QED BY <1>1, <1>2, ListInit DEF TableInv

LEMMA ReportsStay ==
  ASSUME ReportsAreDue,
         UNCHANGED <<nodelist, deletnodelist, NewMacUpate, appView, forgotten>>
  PROVE  ReportsAreDue'
BY DEF ReportsAreDue, Reported, Listed

\* Event counts up to the bound.
LEMMA EventType == OtherTypes /\ Event => events' \in 0..MaxEvents
BY NumbersAssumption DEF OtherTypes, Event

LEMMA MessageFields ==
  ASSUME NEW m \in Messages
  PROVE  m.dev \in Devices /\ m.short \in Shorts
BY DEF Messages

LEMMA TableStep ==
  ASSUME TableInv, [Next]_vars
  PROVE  OtherTypes' /\ ReportsAreDue'
<1> USE DEF TableInv, ListInv, ListType
<1>a. \A m \in net : m.dev \in Devices /\ m.short \in Shorts
  BY MessageFields
<1>b. MaxGap \in Nat
  BY NumbersAssumption
<1>1. ASSUME NEW d \in Devices, Transmit(d)
      PROVE  OtherTypes' /\ ReportsAreDue'
  <2>1. since' \in [Devices -> 0..MaxGap]
    BY <1>1, <1>b DEF Transmit, OtherTypes
  <2> QED BY <1>1, <2>1, ReportsStay DEF Transmit, OtherTypes, tableVars, reportVars
<1>2. ASSUME NEW d \in Devices, SendCommand(d)
      PROVE  OtherTypes' /\ ReportsAreDue'
  BY <1>2, EventType, ReportsStay
     DEF SendCommand, OtherTypes, deviceVars, tableVars, reportVars
<1>3. ASSUME NEW d \in Devices, Leave(d)
      PROVE  OtherTypes' /\ ReportsAreDue'
  <2>1. since' \in [Devices -> 0..MaxGap]
    BY <1>3, <1>b DEF Leave, OtherTypes
  <2> QED BY <1>3, <2>1, EventType, ReportsStay DEF Leave, OtherTypes, tableVars, reportVars
<1>4. ASSUME NEW d \in Devices, Join(d)
      PROVE  OtherTypes' /\ ReportsAreDue'
  <2>1. main_state' \in [Devices -> {"REQ", "HEARTBEAT"}]
    BY <1>4 DEF Join, OtherTypes
  <2>2. known' \in SUBSET Devices /\ excused' \in SUBSET Devices
    BY <1>4 DEF Join, OtherTypes
  <2> QED BY <1>4, <2>1, <2>2, EventType, ReportsStay
          DEF Join, OtherTypes, tableVars, reportVars
<1>5. ASSUME NEW m \in net, ReceiveRsq(m)
      PROVE  OtherTypes' /\ ReportsAreDue'
  <2>1. main_state' \in [Devices -> {"REQ", "HEARTBEAT"}]
    BY <1>5 DEF ReceiveRsq, OtherTypes
  <2> QED BY <1>5, <2>1, ReportsStay DEF ReceiveRsq, OtherTypes, tableVars, reportVars
<1>6. ASSUME NEW m \in net, ReceiveCommand(m)
      PROVE  OtherTypes' /\ ReportsAreDue'
  <2>1. main_state' \in [Devices -> {"REQ", "HEARTBEAT"}]
    BY <1>6 DEF ReceiveCommand, OtherTypes
  <2>2. since' \in [Devices -> 0..MaxGap]
    BY <1>6, <1>b DEF ReceiveCommand, OtherTypes
  <2>3. excused' \in SUBSET Devices
    BY <1>6 DEF ReceiveCommand, OtherTypes, Receiver
  <2> QED BY <1>6, <2>1, <2>2, <2>3, ReportsStay
          DEF ReceiveCommand, OtherTypes, tableVars, reportVars
<1>7. ASSUME NEW m \in net, ReceiveIeeeReq(m)
      PROVE  OtherTypes' /\ ReportsAreDue'
  BY <1>7, ReportsStay DEF ReceiveIeeeReq, OtherTypes, deviceVars, tableVars, reportVars
<1>8. ASSUME NEW m \in net, Lose(m)
      PROVE  OtherTypes' /\ ReportsAreDue'
  <2>1. excused' \in SUBSET Devices
    BY <1>8, <1>a DEF Lose, OtherTypes
  <2> QED BY <1>8, <2>1, EventType, ReportsStay
          DEF Lose, OtherTypes, deviceVars, tableVars, reportVars
<1>9. ASSUME NEW m \in net, ReceivePacket(m)
      PROVE  OtherTypes' /\ ReportsAreDue'
  <2>1. PICK r \in MacTableFresh(m) : \E joinin \in {0, r.joinin} :
          SetTable(r, joinin) /\ excused' = Excused(m.dev, r)
    BY <1>9 DEF ReceivePacket
  <2>a. PICK joinin \in {0, r.joinin} : SetTable(r, joinin) /\ excused' = Excused(m.dev, r)
    BY <2>1
  <2>2. UNCHANGED <<main_state, since, deletnodelist, known, nodeptr, appView>>
    BY <1>9 DEF ReceivePacket, deviceVars, reportVars
  <2>3. Grows(r.list) /\ Announces(r)
    BY MacTableFreshGrows, MacTableFreshAnnounces
  <2>4. joinin \in 0..3
    BY <2>a, <2>3 DEF Announces, OtherTypes
  <2>5. /\ ReportsAreDue'
        /\ newdevice_joinin' \in 0..3 /\ NewMacUpate' \in 0..1
        /\ forgotten' \in SUBSET Devices /\ events' \in 0..MaxEvents
    BY <2>a, <2>2, <2>3, <2>4, SetTableKeeps
  <2>6. excused' \in SUBSET Devices
    BY <2>a, <1>a DEF Excused, OtherTypes
  <2>7. due' \in BOOLEAN
    BY <1>9, Zenon DEF ReceivePacket, Task
  <2> QED BY <2>2, <2>5, <2>6, <2>7 DEF OtherTypes
<1>10. ASSUME NEW m \in net, DropPacket(m)
      PROVE  OtherTypes' /\ ReportsAreDue'
  <2>1. excused' \in SUBSET Devices
    BY <1>10, <1>a DEF DropPacket, OtherTypes
  <2>2. due' \in BOOLEAN
    BY <1>10, Zenon DEF DropPacket, Task
  <2> QED BY <1>10, <2>1, <2>2, ReportsStay
          DEF DropPacket, OtherTypes, deviceVars, tableVars, reportVars
<1>11. ASSUME NEW m \in net, ReceiveIeeeRsp(m)
      PROVE  OtherTypes' /\ ReportsAreDue'
  <2>1. PICK r \in SearchOrInsert(m.dev, m.short) :
          SetTable(r, 0) /\ excused' = Excused(m.dev, r)
    BY <1>11 DEF ReceiveIeeeRsp
  <2>2. UNCHANGED <<main_state, since, deletnodelist, known, nodeptr, appView>>
    BY <1>11 DEF ReceiveIeeeRsp, deviceVars, reportVars
  <2>3. Grows(r.list) /\ Announces(r)
    BY <1>a, SearchOrInsertGrows, SearchOrInsertAnnounces
  <2>4. /\ ReportsAreDue'
        /\ newdevice_joinin' \in 0..3 /\ NewMacUpate' \in 0..1
        /\ forgotten' \in SUBSET Devices /\ events' \in 0..MaxEvents
    BY <2>1, <2>2, <2>3, SetTableKeeps
  <2>5. excused' \in SUBSET Devices
    BY <2>1, <1>a DEF Excused, OtherTypes
  <2>6. due' \in BOOLEAN
    BY <1>11, Zenon DEF ReceiveIeeeRsp, Task
  <2> QED BY <2>2, <2>4, <2>5, <2>6 DEF OtherTypes
<1>12. CASE Sweep
  <2>1. UNCHANGED <<main_state, newdevice_joinin, NewMacUpate, forgotten, known, nodeptr,
                    appView, excused, events>>
    BY <1>12 DEF Sweep, reportVars
  <2>2. since' \in [Devices -> 0..MaxGap]
    BY <1>12, <1>b DEF Sweep, OtherTypes
  <2>3. due' \in BOOLEAN
    BY <1>12, Zenon DEF Sweep, Task
  <2>4. deletnodelist' \in Seq(Devices) /\ ReportsAreDue'
    <3>1. CASE DetectHandle
      BY <2>1, <3>1, DetectHandleReports
    <3>2. CASE UNCHANGED <<nodelist, deletnodelist>>
      BY <2>1, <3>2, ReportsStay DEF OtherTypes
    <3> QED BY <1>12, <3>1, <3>2 DEF Sweep, SweepTable
  <2> QED BY <2>1, <2>2, <2>3, <2>4 DEF OtherTypes
<1>13. CASE RequestTable
  BY <1>13, EventType, ReportsStay DEF RequestTable, OtherTypes, deviceVars, tableVars
<1>14. CASE ReportTable
  BY <1>14, ReportTableReports DEF ReportTable, OtherTypes, deviceVars, tableVars
<1>15. CASE ReportDeleted
  BY <1>15, ReportDeletedReports DEF ReportDeleted, OtherTypes, deviceVars
<1>16. CASE ReportNew
  BY <1>16, ReportNewReports DEF ReportNew, OtherTypes, deviceVars
<1>17. CASE Restart
  <2>1. /\ nodelist' = << >> /\ deletnodelist' = << >> /\ newdevice_joinin' = 0
        /\ NewMacUpate' = 0 /\ nodeptr' = NoMac /\ due' = FALSE
    BY <1>17 DEF Restart
  <2>2. known' \subseteq known
    BY <1>17 DEF Restart
  <2>3. since' \in [Devices -> 0..MaxGap] /\ events' \in 0..MaxEvents
    BY <1>17, <1>b, EventType DEF Restart
  <2>4. excused' \in SUBSET Devices /\ forgotten' = forgotten \cup appView
    BY <1>17, <1>a DEF Restart, OtherTypes
  <2>5. UNCHANGED <<main_state, appView>>
    BY <1>17 DEF Restart
  <2>6. OtherTypes'
    <3>1. due' \in BOOLEAN
      BY <2>1, Zenon
    <3>2. deletnodelist' \in Seq(Devices) /\ newdevice_joinin' \in 0..3 /\ NewMacUpate' \in 0..1
      BY <2>1
    <3> QED BY <2>1, <2>2, <2>3, <2>4, <2>5, <3>1, <3>2 DEF OtherTypes
  <2>7. ReportsAreDue'
    BY <2>1, <2>4, <2>5 DEF ReportsAreDue
  <2> QED BY <2>6, <2>7
<1>18. CASE UNCHANGED vars
  BY <1>18, ReportsStay DEF vars, deviceVars, tableVars, reportVars, OtherTypes
<1> QED BY <1>1, <1>2, <1>3, <1>4, <1>5, <1>6, <1>7, <1>8, <1>9, <1>10, <1>11, <1>12,
           <1>13, <1>14, <1>15, <1>16, <1>17, <1>18 DEF Next, Receive, Giz

\* A node marked as reported is known to the phone, the phone knows of nobody
\* the coordinator has neither listed nor put among the removed nor forgotten
\* in a reset, and NewMacUpate is set as long as there is a new node to report
\* (gizwitsHandle, detectHandle and mac_table_fresh), and every variable keeps
\* its type.
THEOREM PhoneIsToldTheTruth == Spec => []TableOK
<1>1. TableInv => TableOK
  BY DEF TableInv, ListInv, ListType, OtherTypes, TableOK, TypeOK
<1>2. TableInv /\ [Next]_vars => TableInv'
  BY ListStep, TableStep DEF TableInv
<1> QED BY TableInit, <1>1, <1>2, PTL DEF Spec
-----------------------------------------------------------------------------
(* No light is removed that is heard.  A transmission of a light and what  *)
(* follows it up to the count are its exchange.                            *)

ExchangeTypes == {"req", "beat", "ieee_req", "ieee_rsp"}
Exchange(d) == {m \in net : m.type \in ExchangeTypes /\ m.dev = d}

OneExchange ==
  \A m, n \in net :
    m.type \in ExchangeTypes /\ n.type \in ExchangeTypes /\ m.dev = n.dev => m = n

\* A light has, has sent under or is remembered with a network address.
Bears(d, s) ==
  \/ shortaddr[d] = s
  \/ \E m \in net : m.dev = d /\ m.short = s
  \/ \E i \in DOMAIN nodelist : nodelist[i].mac = d /\ nodelist[i].short = s

AddressesApart == \A d, e \in Devices, s \in Shorts : Bears(d, s) /\ Bears(e, s) => d = e

\* Sweeps that have missed a node since it was counted, but for the first one.
Misses(n) == IF n.fresh THEN 0 ELSE n.miss

\* The node has missed no more sweeps than the light has let pass since it
\* last transmitted, or than will have passed when its exchange is over.
InTime(i) ==
  LET d == nodelist[i].mac IN
  d \in present \ excused =>
    \/ Exchange(d) = {} /\ Misses(nodelist[i]) <= since[d]
    \/ \E m \in Exchange(d) : /\ m.short = shortaddr[d]
                              /\ Misses(nodelist[i]) <= MaxGap
                              /\ ~m.late => Misses(nodelist[i]) < MaxGap

CountInv == AddressesApart /\ OneExchange /\ \A i \in DOMAIN nodelist : InTime(i)

\* What a handler of a packet of d, sent under s, does with the table: it
\* counts a node of d, which is the only one it adds.
Keeps(list, d, s) ==
  \A i \in DOMAIN list :
    \/ /\ i \in DOMAIN nodelist
       /\ list[i].mac = nodelist[i].mac /\ list[i].short = nodelist[i].short
       /\ Misses(list[i]) <= Misses(nodelist[i])
    \/ list[i].mac = d /\ list[i].short = s /\ Misses(list[i]) = 0

Counts(list, d) == \A i \in DOMAIN list : list[i].mac = d => Misses(list[i]) = 0

LEMMA MissesType == \A n \in Nodes : Misses(n) \in Nat
BY NumbersAssumption DEF Misses, Nodes

LEMMA CountFirstCounts ==
  ASSUME nodelist \in Seq(Nodes), NEW S, NEW d, NEW s
  PROVE  /\ Keeps(CountFirst(S).list, d, s)
         /\ ~CountFirst(S).ask
         /\ \A j \in S \cap DOMAIN nodelist : 
              S \subseteq {j} => Misses(CountFirst(S).list[j]) = 0
<1> DEFINE L == [i \in DOMAIN nodelist |->
                   IF i \in S /\ \A j \in S : i <= j
                   THEN [nodelist[i] EXCEPT !.fresh = TRUE] ELSE nodelist[i]]
<1>1. \A x \in Nodes : LET y == [x EXCEPT !.fresh = TRUE] IN
        y.mac = x.mac /\ y.short = x.short /\ y.fresh
  BY DEF Nodes
<1>2. \A i \in DOMAIN nodelist : nodelist[i] \in Nodes /\ Misses(nodelist[i]) \in Nat
  <2> SUFFICES ASSUME NEW i \in DOMAIN nodelist
               PROVE  nodelist[i] \in Nodes /\ Misses(nodelist[i]) \in Nat
    OBVIOUS
  <2>1. nodelist[i] \in Nodes
    OBVIOUS
  <2> QED BY <2>1, MissesType
<1>3. CountFirst(S) = [Same EXCEPT !.list = L]
  BY DEF CountFirst
<1>4. /\ DOMAIN L = DOMAIN nodelist
      /\ \A i \in DOMAIN nodelist : L[i] \in {nodelist[i], [nodelist[i] EXCEPT !.fresh = TRUE]}
      /\ \A i \in DOMAIN nodelist : i \in S /\ S \subseteq {i} =>
           L[i] = [nodelist[i] EXCEPT !.fresh = TRUE]
  <2>1. \A i \in DOMAIN nodelist : i \in S /\ S \subseteq {i} => \A j \in S : i <= j
    OBVIOUS
  <2> QED BY <2>1
<1> HIDE DEF L
<1>5. CountFirst(S).list = L /\ ~CountFirst(S).ask
  BY <1>3 DEF Same
<1>6. Keeps(L, d, s)
  <2> SUFFICES ASSUME NEW i \in DOMAIN nodelist
               PROVE  /\ L[i].mac = nodelist[i].mac /\ L[i].short = nodelist[i].short
                      /\ Misses(L[i]) <= Misses(nodelist[i])
    BY <1>4 DEF Keeps
  <2>1. CASE L[i] = nodelist[i]
    BY <1>2, <2>1
  <2>2. CASE L[i] = [nodelist[i] EXCEPT !.fresh = TRUE]
    <3>1. L[i].mac = nodelist[i].mac /\ L[i].short = nodelist[i].short /\ L[i].fresh
      BY <1>1, <1>2, <2>2
    <3>2. Misses(L[i]) = 0
      BY <3>1 DEF Misses
    <3> QED BY <1>2, <3>1, <3>2
  <2> QED BY <1>4, <2>1, <2>2
<1>7. \A j \in S \cap DOMAIN nodelist : S \subseteq {j} => Misses(L[j]) = 0
  <2> SUFFICES ASSUME NEW j \in S \cap DOMAIN nodelist, S \subseteq {j} PROVE Misses(L[j]) = 0
    OBVIOUS
  <2>1. L[j] = [nodelist[j] EXCEPT !.fresh = TRUE] /\ nodelist[j] \in Nodes
    BY <1>2, <1>4
  <2>2. L[j].fresh
    BY <1>1, <2>1
  <2> QED BY <2>2 DEF Misses
<1> QED BY <1>5, <1>6, <1>7

LEMMA SearchOrInsertCounts ==
  ASSUME ListInv, NEW d, NEW s, NEW r \in SearchOrInsert(d, s)
  PROVE  Keeps(r.list, d, s) /\ Counts(r.list, d) /\ ~r.ask
<1> USE DEF ListInv, ListType
<1>1. CASE WithMac(d) # {}
  <2>1. r = CountFirst(WithMac(d))
    BY <1>1 DEF SearchOrInsert
  <2>2. Keeps(r.list, d, s) /\ ~r.ask
    BY <2>1, CountFirstCounts
  <2>3. PICK j \in DOMAIN nodelist : WithMac(d) = {j}
    BY <1>1 DEF WithMac, OneNodePerDevice
  <2>4. Misses(r.list[j]) = 0
    BY <2>1, <2>3, CountFirstCounts
  <2>5. ASSUME NEW i \in DOMAIN r.list, r.list[i].mac = d PROVE Misses(r.list[i]) = 0
    <3>1. CASE i \in DOMAIN nodelist /\ r.list[i].mac = nodelist[i].mac
      <4>1. i = j
        BY <2>3, <2>5, <3>1 DEF WithMac
      <4> QED BY <2>4, <4>1
    <3>2. CASE Misses(r.list[i]) = 0
      BY <3>2
    <3> QED BY <2>2, <3>1, <3>2 DEF Keeps
  <2> QED BY <2>2, <2>5 DEF Counts
<1>2. CASE WithMac(d) = {}
  <2> DEFINE n == NewNode(d, s)
  <2>1. r.list \in {Append(nodelist, n), nodelist} /\ ~r.ask
    BY <1>2 DEF SearchOrInsert, InsertLast, Same
  <2>2. n.mac = d /\ n.short = s /\ Misses(n) = 0
    BY DEF NewNode, Misses
  <2> HIDE DEF n
  <2>3. \A i \in DOMAIN nodelist : nodelist[i].mac # d /\ Misses(nodelist[i]) \in Nat
    <3> SUFFICES ASSUME NEW i \in DOMAIN nodelist
                 PROVE  nodelist[i].mac # d /\ Misses(nodelist[i]) \in Nat
      OBVIOUS
    <3>1. nodelist[i] \in Nodes
      OBVIOUS
    <3> QED BY <1>2, <3>1, MissesType DEF WithMac
  <2>4. \A i \in DOMAIN Append(nodelist, n) :
          \/ i \in DOMAIN nodelist /\ Append(nodelist, n)[i] = nodelist[i]
          \/ Append(nodelist, n)[i] = n
    OBVIOUS
  <2>5. \A i \in DOMAIN r.list : \/ i \in DOMAIN nodelist /\ r.list[i] = nodelist[i]
                                 \/ r.list[i] = n
    BY <2>1, <2>4
  <2> QED BY <2>1, <2>2, <2>3, <2>5 DEF Keeps, Counts
<1> QED BY <1>1, <1>2

\* A packet that cannot be looked up is counted for the node that remembers its
\* address, which is the light's own.
LEMMA MacTableFreshCounts ==
  ASSUME ListInv, AddressesApart, NEW m \in net, NEW r \in MacTableFresh(m)
  PROVE  /\ Keeps(r.list, m.dev, m.short)
         /\ IF r.ask THEN r.list = nodelist /\ r.joinin = 3 /\ ~r.full
            ELSE Counts(r.list, m.dev)
<1> USE DEF ListInv, ListType
<1>1. CASE m.dev \in known
  BY <1>1, SearchOrInsertCounts DEF MacTableFresh
<1>2. CASE m.dev \notin known /\ WithShort(m.short) # {}
  <2>1. r = CountFirst(WithShort(m.short))
    BY <1>2 DEF MacTableFresh
  <2>2. Keeps(r.list, m.dev, m.short) /\ ~r.ask
    BY <2>1, CountFirstCounts
  <2>3. ASSUME NEW j \in WithShort(m.short)
        PROVE  j \in DOMAIN nodelist /\ nodelist[j].mac = m.dev
    <3>1. nodelist[j] \in Nodes /\ m.dev \in Devices /\ m.short \in Shorts
      BY MessageFields DEF WithShort
    <3>2. nodelist[j].mac \in Devices
      BY <3>1 DEF Nodes
    <3>3. Bears(nodelist[j].mac, m.short) /\ Bears(m.dev, m.short)
      BY DEF Bears, WithShort
    <3> QED BY <3>1, <3>2, <3>3 DEF AddressesApart, WithShort
  <2>4. PICK j \in DOMAIN nodelist : WithShort(m.short) = {j} /\ nodelist[j].mac = m.dev
    BY <1>2, <2>3 DEF OneNodePerDevice
  <2>5. Misses(r.list[j]) = 0
    BY <2>1, <2>4, CountFirstCounts
  <2>6. ASSUME NEW i \in DOMAIN r.list, r.list[i].mac = m.dev PROVE Misses(r.list[i]) = 0
    <3>1. CASE i \in DOMAIN nodelist /\ r.list[i].mac = nodelist[i].mac
      <4>1. i = j
        BY <2>4, <2>6, <3>1 DEF OneNodePerDevice
      <4> QED BY <2>5, <4>1
    <3>2. CASE Misses(r.list[i]) = 0
      BY <3>2
    <3> QED BY <2>2, <3>1, <3>2 DEF Keeps
  <2> QED BY <2>2, <2>6 DEF Counts
<1>3. CASE m.dev \notin known /\ WithShort(m.short) = {}
  <2>1. r = [Same EXCEPT !.joinin = 3, !.ask = TRUE]
    BY <1>3 DEF MacTableFresh
  <2>2. r.list = nodelist /\ r.joinin = 3 /\ r.ask /\ ~r.full
    BY <2>1 DEF Same
  <2>3. \A i \in DOMAIN nodelist : Misses(nodelist[i]) \in Nat
    <3> SUFFICES ASSUME NEW i \in DOMAIN nodelist PROVE Misses(nodelist[i]) \in Nat
      OBVIOUS
    <3>1. nodelist[i] \in Nodes
      OBVIOUS
    <3> QED BY <3>1, MissesType
  <2> QED BY <2>2, <2>3 DEF Keeps
<1> QED BY <1>1, <1>2, <1>3
-----------------------------------------------------------------------------
\* The nodes and the messages of a later state that carry no other addresses.
LEMMA AddressesStayApart ==
  ASSUME AddressesApart, UNCHANGED shortaddr,
         \A i \in DOMAIN nodelist' :
           \/ \E j \in DOMAIN nodelist : /\ nodelist'[i].mac = nodelist[j].mac
                                         /\ nodelist'[i].short = nodelist[j].short
           \/ \E m \in net : nodelist'[i].mac = m.dev /\ nodelist'[i].short = m.short,
         \A n \in net' :
           \/ \E m \in net : n.dev = m.dev /\ n.short = m.short
           \/ n.short = shortaddr[n.dev]
  PROVE  AddressesApart'
<1>1. \A d \in Devices, s \in Shorts : Bears(d, s)' => Bears(d, s)
  <2> SUFFICES ASSUME NEW d \in Devices, NEW s \in Shorts, Bears(d, s)' PROVE Bears(d, s)
    OBVIOUS
  <2>1. CASE shortaddr'[d] = s
    BY <2>1 DEF Bears
  <2>2. CASE \E m \in net' : m.dev = d /\ m.short = s
    BY <2>2 DEF Bears
  <2>3. CASE \E i \in DOMAIN nodelist' : nodelist'[i].mac = d /\ nodelist'[i].short = s
    BY <2>3 DEF Bears
  <2> QED BY <2>1, <2>2, <2>3 DEF Bears
<1> QED BY <1>1 DEF AddressesApart

\* A step that leaves a light, its exchange and what its node has missed alone.
LEMMA StaysInTime ==
  ASSUME NEW d, NEW i \in DOMAIN nodelist, InTime(i), nodelist[i].mac = d,
         NEW j \in DOMAIN nodelist', nodelist'[j].mac = d,
         d \in present' \ excused' =>
           /\ d \in present \ excused
           /\ Exchange(d)' = Exchange(d)
           /\ since'[d] = since[d] /\ shortaddr'[d] = shortaddr[d],
         Misses(nodelist[i]) \in Nat, Misses(nodelist'[j]) \in Nat,
         Misses(nodelist'[j]) <= Misses(nodelist[i]),
         TableInv
  PROVE  InTime(j)'
<1> SUFFICES ASSUME d \in present' \ excused'
             PROVE  \/ Exchange(d)' = {} /\ Misses(nodelist'[j]) <= since'[d]
                    \/ \E m \in Exchange(d)' :
                         /\ m.short = shortaddr'[d]
                         /\ Misses(nodelist'[j]) <= MaxGap
                         /\ ~m.late => Misses(nodelist'[j]) < MaxGap
  BY DEF InTime
<1>1. /\ Exchange(d)' = Exchange(d) /\ d \in present \ excused
      /\ since'[d] = since[d] /\ shortaddr'[d] = shortaddr[d]
  OBVIOUS
<1>2. since[d] \in Nat /\ MaxGap \in Nat
  BY <1>1, NumbersAssumption DEF TableInv, ListInv, ListType, OtherTypes
<1>3. CASE Exchange(d) = {} /\ Misses(nodelist[i]) <= since[d]
  BY <1>1, <1>2, <1>3
<1>4. CASE \E m \in Exchange(d) : /\ m.short = shortaddr[d]
                                  /\ Misses(nodelist[i]) <= MaxGap
                                  /\ ~m.late => Misses(nodelist[i]) < MaxGap
  BY <1>1, <1>2, <1>4
<1> QED BY <1>1, <1>3, <1>4 DEF InTime

LEMMA NodesMiss ==
  nodelist \in Seq(Nodes) => \A i \in DOMAIN nodelist :
    nodelist[i] \in Nodes /\ nodelist[i].mac \in Devices /\ Misses(nodelist[i]) \in Nat
<1> SUFFICES ASSUME nodelist \in Seq(Nodes), NEW i \in DOMAIN nodelist
             PROVE  /\ nodelist[i] \in Nodes /\ nodelist[i].mac \in Devices
                    /\ Misses(nodelist[i]) \in Nat
  OBVIOUS
<1>1. nodelist[i] \in Nodes
  OBVIOUS
<1> QED BY <1>1, MissesType DEF Nodes

LEMMA CountInit == Init => CountInv
<1> SUFFICES ASSUME Init PROVE CountInv
  OBVIOUS
<1>1. Distinct(shortaddr)
  BY ShortsAssumption DEF Init
<1>2. \A i \in DOMAIN nodelist : FALSE
  BY DEF Init
<1>3. net = {}
  BY DEF Init
<1>4. \A d, s : Bears(d, s) => shortaddr[d] = s
  BY <1>2, <1>3 DEF Bears
<1>5. AddressesApart
  BY <1>1, <1>4 DEF AddressesApart, Distinct
<1>6. OneExchange
  BY <1>3 DEF OneExchange
<1> QED BY <1>2, <1>5, <1>6 DEF CountInv

\* Steps of the table's report and of a light that leaves, and commands sent.
LEMMA ReportCounts ==
  ASSUME TableInv, TableInv', CountInv,
         UNCHANGED <<shortaddr, excused>>,
         \A d \in present' : d \in present /\ since'[d] = since[d],
         net \subseteq net',
         \A n \in net' \ net : n.type \notin ExchangeTypes /\ n.short = shortaddr[n.dev],
         DOMAIN nodelist' = DOMAIN nodelist,
         \A i \in DOMAIN nodelist : /\ nodelist'[i].mac = nodelist[i].mac
                                    /\ nodelist'[i].short = nodelist[i].short
                                    /\ Misses(nodelist'[i]) = Misses(nodelist[i])
  PROVE  CountInv'
<1>1. AddressesApart'
  BY AddressesStayApart DEF CountInv
<1>2. OneExchange'
  BY DEF CountInv, OneExchange
<1>3. ASSUME NEW i \in DOMAIN nodelist'
      PROVE  InTime(i)'
  <2>1. nodelist[i] \in Nodes /\ Misses(nodelist[i]) \in Nat
    BY NodesMiss DEF TableInv, ListInv, ListType
  <2>2. InTime(i)
    BY DEF CountInv
  <2>3. PICK d : d = nodelist[i].mac
    OBVIOUS
  <2>4. Exchange(d)' = Exchange(d)
    BY DEF Exchange
  <2> QED BY <2>1, <2>2, <2>3, <2>4, StaysInTime
<1> QED BY <1>1, <1>2, <1>3 DEF CountInv

LEMMA ReplyFields ==
  ASSUME NEW m \in Messages, NEW type
  PROVE  LET r == Reply(m, type) IN
         r.type = type /\ r.dev = m.dev /\ r.short = m.short /\ r.late = m.late
BY DEF Reply, Messages

\* A message arrives, or is lost, that ends an exchange or has no part in one.
LEMMA ExchangeEnds ==
  ASSUME TableInv, TableInv', CountInv, NEW m \in net,
         UNCHANGED <<present, shortaddr>>,
         net \ {m} \subseteq net', 
         \A n \in net' \ net : n.type \notin ExchangeTypes /\ n.dev = m.dev /\ n.short = m.short,
         \/ m \notin net'
         \/ m.type \notin ExchangeTypes,
         \A d \in Devices : since'[d] = since[d] \/ d \in excused',
         Keeps(nodelist', m.dev, m.short),
         excused \subseteq excused' \cup {m.dev},
         m.type \in ExchangeTypes => Counts(nodelist', m.dev) \/ m.dev \in excused',
         m.type \notin ExchangeTypes => nodelist' = nodelist /\ excused \subseteq excused'
  PROVE  CountInv'
<1> USE DEF TableInv, ListInv, ListType
<1>1. AddressesApart'
  BY AddressesStayApart, Zenon DEF CountInv, Keeps
<1>2. OneExchange'
  BY DEF CountInv, OneExchange
<1>3. \A d : d # m.dev \/ m.type \notin ExchangeTypes => Exchange(d)' = Exchange(d)
  BY DEF Exchange
<1>4. m.type \in ExchangeTypes => Exchange(m.dev)' = {}
  BY DEF Exchange, CountInv, OneExchange
<1>5. ASSUME NEW j \in DOMAIN nodelist'
      PROVE  InTime(j)'
  <2>1. nodelist'[j].mac \in Devices /\ Misses(nodelist'[j]) \in Nat
    <3>1. (nodelist \in Seq(Nodes) => \A i \in DOMAIN nodelist :
             nodelist[i] \in Nodes /\ nodelist[i].mac \in Devices /\ Misses(nodelist[i]) \in Nat)'
      BY NodesMiss, PTL
    <3> QED BY <3>1
  <2>2. PICK d : d = nodelist'[j].mac
    OBVIOUS
  <2>3. CASE d = m.dev /\ m.type \in ExchangeTypes
    <3>1. d \notin excused' => Misses(nodelist'[j]) = 0
      BY <2>2, <2>3 DEF Counts
    <3>2. since'[d] \in Nat
      BY <2>1, <2>2, NumbersAssumption DEF OtherTypes
    <3>3. Exchange(d)' = {}
      BY <1>4, <2>3
    <3> QED BY <2>2, <3>1, <3>2, <3>3 DEF InTime
  <2>4. CASE d # m.dev \/ m.type \notin ExchangeTypes
    <3>1. PICK i \in DOMAIN nodelist : /\ nodelist[i].mac = d
                                       /\ Misses(nodelist'[j]) <= Misses(nodelist[i])
      <4>1. CASE m.type \notin ExchangeTypes
        BY <2>1, <2>2, <4>1
      <4>2. CASE d # m.dev
        BY <2>2, <4>2 DEF Keeps
      <4> QED BY <2>4, <4>1, <4>2
    <3>2. InTime(i) /\ Misses(nodelist[i]) \in Nat
      BY NodesMiss DEF CountInv
    <3>3. Exchange(d)' = Exchange(d)
      BY <1>3, <2>4
    <3>4. d \in present' \ excused' => d \in present \ excused /\ since'[d] = since[d]
      BY <2>1, <2>2, <2>4
    <3> QED BY <2>1, <2>2, <3>1, <3>2, <3>3, <3>4, StaysInTime
  <2> QED BY <2>3, <2>4
<1> QED BY <1>1, <1>2, <1>5 DEF CountInv
\* An exchange goes on: its message is replaced by the next one.
LEMMA ExchangeGoesOn ==
  ASSUME TableInv, CountInv, NEW m \in net, NEW n, m.type \in ExchangeTypes,
         n.type \in ExchangeTypes, n.dev = m.dev, n.short = m.short, n.late = m.late,
         net' = (net \ {m}) \cup {n},
         UNCHANGED <<present, shortaddr, since, nodelist, excused>>
  PROVE  CountInv'
<1> USE DEF TableInv, ListInv, ListType
<1>1. AddressesApart'
  BY AddressesStayApart DEF CountInv
<1>2. OneExchange'
  BY DEF CountInv, OneExchange
<1>3. ASSUME NEW i \in DOMAIN nodelist'
      PROVE  InTime(i)'
  <2>1. InTime(i) /\ Misses(nodelist[i]) \in Nat
    BY NodesMiss DEF CountInv
  <2>2. PICK d : d = nodelist[i].mac
    OBVIOUS
  <2>3. CASE d = m.dev
    <3>1. Exchange(d) = {m} /\ Exchange(d)' = {n}
      BY <2>3 DEF Exchange, CountInv, OneExchange
    <3> QED BY <2>1, <2>2, <3>1 DEF InTime
  <2>4. CASE d # m.dev
    <3>1. Exchange(d)' = Exchange(d)
      BY <2>4 DEF Exchange
    <3> QED BY <2>1, <2>2, <3>1, StaysInTime
  <2> QED BY <2>3, <2>4
<1> QED BY <1>1, <1>2, <1>3 DEF CountInv

\* ZDO answers for the light that has the address, which is the one asked for.
LEMMA IeeeReqCounts ==
  ASSUME TableInv, TableInv', CountInv, NEW m \in net, ReceiveIeeeReq(m)
  PROVE  CountInv'
<1> USE DEF TableInv, ListInv, ListType
<1> DEFINE answer == Reply(m, "ieee_rsp")
<1>1. /\ m.type = "ieee_req"
      /\ net' = (net \ {m}) \cup {[answer EXCEPT !.dev = d] : d \in Receiver(m)}
      /\ UNCHANGED <<present, shortaddr, since, nodelist, excused>>
  BY DEF ReceiveIeeeReq, deviceVars, tableVars
<1>2. /\ answer.type = "ieee_rsp" /\ answer.dev = m.dev /\ answer.short = m.short
      /\ answer.late = m.late
  BY ReplyFields
<1>3. m.dev \in Devices /\ m.short \in Shorts /\ answer \in Messages
  BY MessageFields DEF Reply, Messages, MessageTypes
<1>4. [answer EXCEPT !.dev = answer.dev] = answer
  BY <1>3 DEF Messages
<1> HIDE DEF answer
<1>5. \A d \in Receiver(m) : d = m.dev
  <2> SUFFICES ASSUME NEW d \in present, shortaddr[d] = m.short PROVE d = m.dev
    BY DEF Receiver
  <2>1. Bears(d, m.short) /\ Bears(m.dev, m.short)
    BY DEF Bears
  <2> QED BY <1>3, <2>1 DEF CountInv, AddressesApart
<1>6. CASE m.dev \in Receiver(m)
  <2>1. Receiver(m) = {m.dev}
    BY <1>5, <1>6
  <2>2. net' = (net \ {m}) \cup {answer}
    BY <1>1, <1>2, <1>4, <2>1
  <2>3. m.type \in ExchangeTypes /\ answer.type \in ExchangeTypes
    BY <1>1, <1>2 DEF ExchangeTypes
  <2> QED BY <1>1, <1>2, <2>2, <2>3, ExchangeGoesOn
<1>7. CASE m.dev \notin Receiver(m)
  <2>1. net' = net \ {m}
    BY <1>1, <1>5, <1>7
  <2>2. AddressesApart'
    BY <1>1, <2>1, AddressesStayApart DEF CountInv
  <2>3. OneExchange'
    BY <2>1 DEF CountInv, OneExchange
  <2>4. ASSUME NEW i \in DOMAIN nodelist'
        PROVE  InTime(i)'
    <3>1. InTime(i) /\ Misses(nodelist[i]) \in Nat
      BY <1>1, NodesMiss DEF CountInv
    <3>2. PICK d : d = nodelist[i].mac
      OBVIOUS
    <3>3. CASE d = m.dev
      <4>1. Exchange(d) = {m}
        BY <1>1, <3>3 DEF Exchange, ExchangeTypes, CountInv, OneExchange
      <4>2. d \notin present \/ m.short # shortaddr[d]
        BY <1>7, <3>3 DEF Receiver
      <4>3. d \notin present \ excused
        BY <3>1, <3>2, <4>1, <4>2 DEF InTime
      <4> QED BY <1>1, <3>2, <4>3 DEF InTime
    <3>4. CASE d # m.dev
      <4>1. Exchange(d)' = Exchange(d)
        BY <2>1, <3>4 DEF Exchange
      <4> QED BY <1>1, <3>1, <3>2, <4>1, StaysInTime
    <3> QED BY <3>3, <3>4
  <2> QED BY <2>2, <2>3, <2>4 DEF CountInv
<1> QED BY <1>6, <1>7

\* A transmission leaves its light as much time as the next sweeps take.
LEMMA TransmitCounts ==
  ASSUME TableInv, CountInv, NEW d \in Devices, Transmit(d)
  PROVE  CountInv'
<1> USE DEF TableInv, ListInv, ListType
<1>1. PICK n : /\ n.type \in ExchangeTypes
               /\ n.dev = d /\ n.short = shortaddr[d] /\ n.late = (since[d] = MaxGap)
               /\ net' = net \cup {n}
  <2> DEFINE n == [type |-> IF main_state[d] = "REQ" THEN "req" ELSE "beat",
                   dev |-> d, short |-> shortaddr[d], late |-> since[d] = MaxGap]
  <2>1. n.type \in ExchangeTypes
    BY DEF ExchangeTypes
  <2>2. n.dev = d /\ n.short = shortaddr[d] /\ n.late = (since[d] = MaxGap)
    OBVIOUS
  <2>3. net' = net \cup {n}
    BY DEF Transmit
  <2> HIDE DEF n
  <2> QED BY <2>1, <2>2, <2>3
<1>2. /\ \A m \in net : m.dev # d
      /\ UNCHANGED <<present, shortaddr, nodelist, excused>>
      /\ since' = [since EXCEPT ![d] = 0]
  BY DEF Transmit, tableVars
<1>3. since \in [Devices -> 0..MaxGap] /\ MaxGap \in Nat
  BY NumbersAssumption DEF OtherTypes
<1>4. AddressesApart'
  BY <1>1, <1>2, AddressesStayApart DEF CountInv
<1>5. OneExchange'
  BY <1>1, <1>2 DEF CountInv, OneExchange
<1>6. ASSUME NEW i \in DOMAIN nodelist'
      PROVE  InTime(i)'
  <2>1. InTime(i) /\ Misses(nodelist[i]) \in Nat /\ nodelist[i].mac \in Devices
    BY <1>2, NodesMiss DEF CountInv
  <2>2. PICK e : e = nodelist[i].mac
    OBVIOUS
  <2>3. CASE e = d
    <3>1. Exchange(e) = {} /\ Exchange(e)' = {n}
      BY <1>1, <1>2, <2>3 DEF Exchange
    <3>2. e \in present \ excused => Misses(nodelist[i]) <= since[d]
      BY <2>1, <2>2, <2>3, <3>1 DEF InTime
    <3>3. e \in present \ excused => /\ Misses(nodelist[i]) <= MaxGap
                                     /\ since[d] # MaxGap => Misses(nodelist[i]) < MaxGap
      BY <1>3, <2>1, <3>2
    <3>4. n.short = shortaddr'[e] /\ n \in Exchange(e)'
      BY <1>1, <1>2, <2>3, <3>1
    <3>5. ~n.late => since[d] # MaxGap
      BY <1>1
    <3> QED BY <1>2, <2>2, <3>3, <3>4, <3>5 DEF InTime
  <2>4. CASE e # d
    <3>1. Exchange(e)' = Exchange(e)
      BY <1>1, <2>4 DEF Exchange
    <3>2. since'[e] = since[e]
      BY <1>2, <1>3, <2>1, <2>2, <2>4
    <3> QED BY <1>2, <2>1, <2>2, <3>1, <3>2, StaysInTime
  <2> QED BY <2>3, <2>4
<1> QED BY <1>4, <1>5, <1>6 DEF CountInv
\* A light that comes is given an address of its own.
LEMMA JoinCounts ==
  ASSUME TableInv, CountInv, NEW d \in Devices, Join(d)
  PROVE  CountInv'
<1> USE DEF TableInv, ListInv, ListType
<1>1. PICK s \in Shorts :
        /\ \A e \in Devices \ {d} : shortaddr[e] # s
        /\ \A i \in DOMAIN nodelist : nodelist[i].short = s => nodelist[i].mac = d
        /\ \A m \in net : m.short = s => m.dev = d
        /\ shortaddr' = [shortaddr EXCEPT ![d] = s]
  BY DEF Join
<1>2. /\ present' = present \cup {d} /\ excused' = excused \cup {d}
      /\ UNCHANGED <<since, nodelist, net>>
  BY DEF Join, tableVars
<1>3. \A e \in Devices : e # d => ~Bears(e, s)
  BY <1>1 DEF Bears
<1>4. \A e \in Devices, t \in Shorts : Bears(e, t)' => Bears(e, t) \/ (e = d /\ t = s)
  <2> SUFFICES ASSUME NEW e \in Devices, NEW t \in Shorts, Bears(e, t)', ~Bears(e, t)
               PROVE  e = d /\ t = s
    OBVIOUS
  <2>1. shortaddr'[e] = t /\ shortaddr[e] # t
    BY <1>2 DEF Bears
  <2> QED BY <1>1, <2>1
<1>5. AddressesApart'
  BY <1>3, <1>4 DEF CountInv, AddressesApart
<1>6. OneExchange'
  BY <1>2 DEF CountInv, OneExchange
<1>7. ASSUME NEW i \in DOMAIN nodelist'
      PROVE  InTime(i)'
  <2>1. InTime(i) /\ Misses(nodelist[i]) \in Nat
    BY <1>2, NodesMiss DEF CountInv
  <2>2. PICK e : e = nodelist[i].mac
    OBVIOUS
  <2>3. Exchange(e)' = Exchange(e)
    BY <1>2 DEF Exchange
  <2>4. e \in present' \ excused' => e \in present \ excused /\ shortaddr'[e] = shortaddr[e]
    BY <1>1, <1>2
  <2> QED BY <1>2, <2>1, <2>2, <2>3, <2>4, StaysInTime
<1> QED BY <1>5, <1>6, <1>7 DEF CountInv

\* A sweep counts once for every node it leaves.
LEMMA DetectedCounts ==
  ASSUME nodelist \in Seq(Nodes), DetectHandle, NEW j \in DOMAIN nodelist'
  PROVE  \E i \in DOMAIN nodelist : /\ nodelist'[j].mac = nodelist[i].mac
                                    /\ nodelist'[j].short = nodelist[i].short
                                    /\ Misses(nodelist'[j]) <= Misses(nodelist[i]) + 1
<1> DEFINE K == {i \in DOMAIN nodelist : ~Overdue(nodelist[i])}
<1>1. PICK kept \in InOrder(K) :
        nodelist' = [i \in DOMAIN kept |-> Detected(nodelist[kept[i]])]
  BY DEF DetectHandle
<1>2. kept \in [1..Cardinality(K) -> K]
  BY <1>1 DEF InOrder
<1>3. kept[j] \in DOMAIN nodelist /\ nodelist'[j] = Detected(nodelist[kept[j]])
  BY <1>1, <1>2
<1>4. ASSUME NEW x \in Nodes
      PROVE  /\ Detected(x).mac = x.mac /\ Detected(x).short = x.short
             /\ Misses(Detected(x)) <= Misses(x) + 1
  <2> DEFINE k == IF x.fresh THEN 0 ELSE x.miss + 1
             y == [x EXCEPT !.miss = k, !.fresh = FALSE]
  <2>1. Detected(x) = y
    BY DEF Detected
  <2>2. k \in Nat /\ k <= Misses(x) + 1
    BY NumbersAssumption DEF Nodes, Misses
  <2> HIDE DEF k
  <2>3. y.mac = x.mac /\ y.short = x.short /\ y.miss = k /\ y.fresh = FALSE
    BY DEF Nodes
  <2> HIDE DEF y
  <2> QED BY <2>1, <2>2, <2>3 DEF Misses
<1>5. nodelist[kept[j]] \in Nodes
  BY <1>3
<1> QED BY <1>3, <1>4, <1>5

LEMMA SweepCounts ==
  ASSUME TableInv, TableInv', CountInv, Sweep
  PROVE  CountInv'
<1> USE DEF TableInv, ListInv, ListType
<1> DEFINE Aged(m) == [m EXCEPT !.late = TRUE]
<1>1. /\ \A m \in net : ~m.late
      /\ \A d \in present : since[d] < MaxGap
      /\ SweepTable
      /\ net' = {Aged(m) : m \in net}
      /\ since' = [d \in Devices |-> since[d] + IF d \in present THEN 1 ELSE 0]
      /\ UNCHANGED <<present, shortaddr, excused>>
  BY DEF Sweep
<1>2. \A m \in net : /\ Aged(m).type = m.type /\ Aged(m).dev = m.dev
                    /\ Aged(m).short = m.short /\ Aged(m).late
  BY DEF Messages
<1> HIDE DEF Aged
<1>3. \A n \in net' : \E m \in net : /\ n = Aged(m)
                                     /\ n.type = m.type /\ n.dev = m.dev
                                     /\ n.short = m.short /\ n.late
  BY <1>1, <1>2
<1>4. since \in [Devices -> 0..MaxGap] /\ MaxGap \in Nat
  BY NumbersAssumption DEF OtherTypes
<1>5. \A j \in DOMAIN nodelist' :
        \E i \in DOMAIN nodelist : /\ nodelist'[j].mac = nodelist[i].mac
                                   /\ nodelist'[j].short = nodelist[i].short
                                   /\ Misses(nodelist'[j]) <= Misses(nodelist[i]) + 1
  <2>1. CASE DetectHandle
    BY <2>1, DetectedCounts
  <2>2. CASE nodelist' = nodelist
    <3>1. \A i \in DOMAIN nodelist : Misses(nodelist[i]) <= Misses(nodelist[i]) + 1
      BY NodesMiss
    <3> QED BY <2>2, <3>1
  <2> QED BY <1>1, <2>1, <2>2 DEF SweepTable
<1>6. AddressesApart'
  BY <1>1, <1>3, <1>5, AddressesStayApart, Zenon DEF CountInv
<1>7. OneExchange'
  <2> SUFFICES ASSUME NEW n1 \in net', NEW n2 \in net', n1.type \in ExchangeTypes,
                      n2.type \in ExchangeTypes, n1.dev = n2.dev
               PROVE  n1 = n2
    BY DEF OneExchange
  <2>1. PICK m1 \in net, m2 \in net :
          /\ n1 = Aged(m1) /\ n1.type = m1.type /\ n1.dev = m1.dev
          /\ n2 = Aged(m2) /\ n2.type = m2.type /\ n2.dev = m2.dev
    BY <1>3
  <2>2. m1 = m2
    BY <2>1 DEF CountInv, OneExchange
  <2> QED BY <2>1, <2>2
<1>a. (nodelist \in Seq(Nodes) => \A i \in DOMAIN nodelist :
         nodelist[i] \in Nodes /\ nodelist[i].mac \in Devices /\ Misses(nodelist[i]) \in Nat)'
  BY NodesMiss, PTL
<1>8. ASSUME NEW j \in DOMAIN nodelist'
      PROVE  InTime(j)'
  <2>1. PICK i \in DOMAIN nodelist : /\ nodelist'[j].mac = nodelist[i].mac
                                     /\ Misses(nodelist'[j]) <= Misses(nodelist[i]) + 1
    BY <1>5
  <2>2. InTime(i) /\ Misses(nodelist[i]) \in Nat /\ nodelist[i].mac \in Devices
    BY NodesMiss DEF CountInv
  <2>3. Misses(nodelist'[j]) \in Nat
    BY <1>a
  <2>4. PICK d : d = nodelist[i].mac
    OBVIOUS
  <2> SUFFICES ASSUME d \in present \ excused
               PROVE  \/ Exchange(d)' = {} /\ Misses(nodelist'[j]) <= since'[d]
                      \/ \E m \in Exchange(d)' : /\ m.short = shortaddr'[d]
                                                 /\ Misses(nodelist'[j]) <= MaxGap
                                                 /\ ~m.late => Misses(nodelist'[j]) < MaxGap
    BY <1>1, <2>1, <2>4 DEF InTime
  <2>5. since'[d] = since[d] + 1 /\ since[d] \in Nat
    BY <1>1, <1>4, <2>2, <2>4
  <2>6. CASE Exchange(d) = {} /\ Misses(nodelist[i]) <= since[d]
    <3>1. Exchange(d)' = {}
      BY <1>3, <2>6 DEF Exchange
    <3> QED BY <2>1, <2>2, <2>3, <2>5, <2>6, <3>1
  <2>7. CASE \E m \in Exchange(d) : /\ m.short = shortaddr[d]
                                    /\ ~m.late => Misses(nodelist[i]) < MaxGap
    <3>1. PICK m \in Exchange(d) : /\ m.short = shortaddr[d]
                                   /\ ~m.late => Misses(nodelist[i]) < MaxGap
      BY <2>7
    <3>2. m \in net /\ Misses(nodelist[i]) < MaxGap
      BY <1>1, <3>1 DEF Exchange
    <3>3. PICK n \in net' : /\ n.type = m.type /\ n.dev = m.dev
                            /\ n.short = m.short /\ n.late
      BY <1>1, <1>2, <3>2
    <3>4. n \in Exchange(d)' /\ n.short = shortaddr'[d]
      BY <1>1, <3>1, <3>3 DEF Exchange
    <3>5. Misses(nodelist'[j]) <= MaxGap
      BY <1>4, <2>1, <2>2, <2>3, <3>2
    <3> QED BY <3>3, <3>4, <3>5
  <2> QED BY <2>2, <2>4, <2>6, <2>7 DEF InTime
<1> QED BY <1>6, <1>7, <1>8 DEF CountInv
LEMMA ReceivePacketCounts ==
  ASSUME TableInv, TableInv', CountInv, NEW m \in net, ReceivePacket(m)
  PROVE  CountInv'
<1> USE DEF TableInv, ListInv, ListType
<1> DEFINE ask == Reply(m, "ieee_req")
           answer == Reply(m, "rsq")
<1>1. PICK r \in MacTableFresh(m) :
        /\ nodelist' = r.list
        /\ net' = (net \ {m}) \cup (IF r.ask THEN {ask} ELSE {})
                     \cup (IF r.joinin # 3 /\ m.type = "req" THEN {answer} ELSE {})
        /\ excused' = Excused(m.dev, r)
  BY DEF ReceivePacket, SetTable
<1>2. m.type \in {"req", "beat"} /\ UNCHANGED <<present, shortaddr, since>>
  BY DEF ReceivePacket, deviceVars
<1>3. /\ ask.type = "ieee_req" /\ ask.dev = m.dev /\ ask.short = m.short /\ ask.late = m.late
      /\ answer.type = "rsq" /\ answer.dev = m.dev /\ answer.short = m.short
  BY ReplyFields
<1> HIDE DEF ask, answer
<1>4. /\ Keeps(r.list, m.dev, m.short)
      /\ IF r.ask THEN r.list = nodelist /\ r.joinin = 3 /\ ~r.full
         ELSE Counts(r.list, m.dev)
  BY MacTableFreshCounts DEF CountInv
<1>5. CASE r.ask
  <2>1. nodelist' = nodelist /\ net' = (net \ {m}) \cup {ask} /\ excused' = excused
    BY <1>1, <1>4, <1>5 DEF Excused
  <2>2. m.type \in ExchangeTypes /\ ask.type \in ExchangeTypes
    BY <1>2, <1>3 DEF ExchangeTypes
  <2> QED BY <1>2, <1>3, <2>1, <2>2, ExchangeGoesOn
<1>6. CASE ~r.ask
  <2>1. m \notin net' /\ net \ {m} \subseteq net'
    BY <1>1, <1>2, <1>3, <1>6
  <2>2. \A n \in net' \ net : n = answer
    BY <1>1, <1>6
  <2>3. answer.type \notin ExchangeTypes
    BY <1>3 DEF ExchangeTypes
  <2>4. excused \subseteq excused' \cup {m.dev}
    BY <1>1 DEF Excused
  <2>5. Counts(nodelist', m.dev) /\ Keeps(nodelist', m.dev, m.short) /\ m.type \in ExchangeTypes
    BY <1>1, <1>2, <1>4, <1>6 DEF ExchangeTypes
  <2> QED BY <1>2, <1>3, <2>1, <2>2, <2>3, <2>4, <2>5, ExchangeEnds
<1> QED BY <1>5, <1>6

LEMMA ReceiveIeeeRspCounts ==
  ASSUME TableInv, TableInv', CountInv, NEW m \in net, ReceiveIeeeRsp(m)
  PROVE  CountInv'
<1> USE DEF TableInv, ListInv, ListType
<1> DEFINE answer == Reply(m, "rsq")
<1>1. PICK r \in SearchOrInsert(m.dev, m.short) :
        nodelist' = r.list /\ excused' = Excused(m.dev, r)
  BY DEF ReceiveIeeeRsp, SetTable
<1>2. /\ m.type = "ieee_rsp" /\ UNCHANGED <<present, shortaddr, since>>
      /\ net' = (net \ {m}) \cup {answer}
  BY DEF ReceiveIeeeRsp, deviceVars
<1>3. answer.type = "rsq" /\ answer.dev = m.dev /\ answer.short = m.short
  BY ReplyFields
<1> HIDE DEF answer
<1>4. Keeps(nodelist', m.dev, m.short) /\ Counts(nodelist', m.dev)
  BY <1>1, SearchOrInsertCounts
<1>5. m \notin net' /\ m.type \in ExchangeTypes /\ answer.type \notin ExchangeTypes
  BY <1>2, <1>3 DEF ExchangeTypes
<1>6. excused \subseteq excused' \cup {m.dev}
  BY <1>1 DEF Excused
<1> QED BY <1>2, <1>3, <1>4, <1>5, <1>6, ExchangeEnds

LEMMA KeepsSame == ASSUME nodelist \in Seq(Nodes), NEW d, NEW s PROVE Keeps(nodelist, d, s)
<1>1. \A i \in DOMAIN nodelist : Misses(nodelist[i]) <= Misses(nodelist[i])
  BY NodesMiss
<1> QED BY <1>1 DEF Keeps

\* A message that is received by a light, dropped or lost leaves the table alone.
LEMMA LossCounts ==
  ASSUME TableInv, TableInv', CountInv, NEW m \in net,
         UNCHANGED <<present, shortaddr, nodelist>>,
         net' = net \ {m},
         \A d \in Devices : since'[d] = since[d] \/ d \in excused',
         excused \subseteq excused',
         m.type \in ExchangeTypes => m.dev \in excused'
  PROVE  CountInv'
<1>1. Keeps(nodelist', m.dev, m.short)
  BY KeepsSame DEF TableInv, ListInv, ListType
<1> QED BY <1>1, ExchangeEnds

LEMMA RestartCounts ==
  ASSUME TableInv, CountInv, Restart
  PROVE  CountInv'
<1> USE DEF TableInv, ListInv, ListType
<1> DEFINE Fresh(m) == [m EXCEPT !.late = FALSE]
<1>1. /\ nodelist' = << >> /\ UNCHANGED shortaddr
      /\ net' = {Fresh(m) : m \in {m \in net : m.type \in {"rsq", "command", "ieee_req"}}}
  BY DEF Restart
<1>2. \A m \in net : /\ Fresh(m).type = m.type /\ Fresh(m).dev = m.dev
                     /\ Fresh(m).short = m.short
  BY DEF Messages
<1> HIDE DEF Fresh
<1>3. \A n \in net' : \E m \in net : /\ n = Fresh(m)
                                     /\ n.type = m.type /\ n.dev = m.dev /\ n.short = m.short
  BY <1>1, <1>2
<1>4. \A i \in DOMAIN nodelist' : FALSE
  BY <1>1
<1>5. AddressesApart'
  BY <1>1, <1>3, <1>4, AddressesStayApart, Zenon DEF CountInv
<1>6. OneExchange'
  <2> SUFFICES ASSUME NEW n1 \in net', NEW n2 \in net', n1.type \in ExchangeTypes,
                      n2.type \in ExchangeTypes, n1.dev = n2.dev
               PROVE  n1 = n2
    BY DEF OneExchange
  <2>1. PICK m1 \in net, m2 \in net :
          /\ n1 = Fresh(m1) /\ n1.type = m1.type /\ n1.dev = m1.dev
          /\ n2 = Fresh(m2) /\ n2.type = m2.type /\ n2.dev = m2.dev
    BY <1>3
  <2>2. m1 = m2
    BY <2>1 DEF CountInv, OneExchange
  <2> QED BY <2>1, <2>2
<1> QED BY <1>4, <1>5, <1>6 DEF CountInv

LEMMA CountStep ==
  ASSUME TableInv, TableInv', CountInv, [Next]_vars
  PROVE  CountInv'
<1>1. ASSUME NEW d \in Devices, Transmit(d) PROVE CountInv'
  BY <1>1, TransmitCounts
<1>2. ASSUME NEW d \in Devices, SendCommand(d) PROVE CountInv'
  <2>1. PICK n : /\ n.type = "command" /\ n.short = shortaddr[n.dev]
                 /\ net' = net \cup {n}
    <3> DEFINE n == [type |-> "command", dev |-> d, short |-> shortaddr[d], late |-> FALSE]
    <3>1. n.type = "command" /\ n.short = shortaddr[n.dev]
      OBVIOUS
    <3>2. net' = net \cup {n}
      BY <1>2 DEF SendCommand
    <3> HIDE DEF n
    <3> QED BY <3>1, <3>2
  <2>2. UNCHANGED <<present, since, shortaddr, excused, nodelist>>
    BY <1>2 DEF SendCommand, deviceVars, tableVars
  <2>3. n.type \notin ExchangeTypes
    BY <2>1 DEF ExchangeTypes
  <2> QED BY <2>1, <2>2, <2>3, ReportCounts
<1>3. ASSUME NEW d \in Devices, Leave(d) PROVE CountInv'
  <2>1. /\ UNCHANGED <<shortaddr, excused, net, nodelist>>
        /\ present' = present \ {d} /\ since' = [since EXCEPT ![d] = 0]
    BY <1>3 DEF Leave, tableVars
  <2>2. \A e \in present' : e \in present /\ since'[e] = since[e]
    BY <2>1 DEF TableInv, ListInv, ListType, OtherTypes
  <2> QED BY <2>1, <2>2, ReportCounts
<1>4. ASSUME NEW d \in Devices, Join(d) PROVE CountInv'
  BY <1>4, JoinCounts
<1>5. ASSUME NEW m \in net, ReceiveRsq(m) PROVE CountInv'
  BY <1>5, LossCounts DEF ReceiveRsq, ExchangeTypes, tableVars
<1>6. ASSUME NEW m \in net, ReceiveCommand(m) PROVE CountInv'
  BY <1>6, LossCounts DEF ReceiveCommand, ExchangeTypes, tableVars
<1>7. ASSUME NEW m \in net, ReceiveIeeeReq(m) PROVE CountInv'
  BY <1>7, IeeeReqCounts
<1>8. ASSUME NEW m \in net, ReceivePacket(m) PROVE CountInv'
  BY <1>8, ReceivePacketCounts
<1>9. ASSUME NEW m \in net, DropPacket(m) PROVE CountInv'
  BY <1>9, LossCounts DEF DropPacket, ExchangeTypes, tableVars, deviceVars
<1>10. ASSUME NEW m \in net, ReceiveIeeeRsp(m) PROVE CountInv'
  BY <1>10, ReceiveIeeeRspCounts
<1>11. ASSUME NEW m \in net, Lose(m) PROVE CountInv'
  BY <1>11, LossCounts DEF Lose, ExchangeTypes, tableVars, deviceVars
<1>12. CASE Sweep
  BY <1>12, SweepCounts
<1>13. CASE RequestTable \/ ReportTable \/ ReportDeleted \/ UNCHANGED vars
  BY <1>13, ReportCounts
     DEF RequestTable, ReportTable, ReportDeleted, vars, deviceVars, tableVars
<1>14. CASE ReportNew
  <2>1. PICK batch :
          nodelist' = [i \in DOMAIN nodelist |->
                         IF i \in batch THEN [nodelist[i] EXCEPT !.element = 0]
                         ELSE nodelist[i]]
    BY <1>14 DEF ReportNew
  <2>2. \A x \in Nodes : LET y == [x EXCEPT !.element = 0] IN
          y.mac = x.mac /\ y.short = x.short /\ y.fresh = x.fresh /\ y.miss = x.miss
    BY DEF Nodes
  <2>3. \A i \in DOMAIN nodelist : nodelist[i] \in Nodes
    BY NodesMiss DEF TableInv, ListInv, ListType
  <2>4. DOMAIN nodelist' = DOMAIN nodelist
    BY <2>1
  <2>5. ASSUME NEW i \in DOMAIN nodelist
        PROVE  /\ nodelist'[i].mac = nodelist[i].mac /\ nodelist'[i].short = nodelist[i].short
               /\ Misses(nodelist'[i]) = Misses(nodelist[i])
    <3>1. nodelist'[i] \in {nodelist[i], [nodelist[i] EXCEPT !.element = 0]}
      BY <2>1
    <3> QED BY <2>2, <2>3, <3>1 DEF Misses
  <2> QED BY <1>14, <2>4, <2>5, ReportCounts DEF ReportNew, deviceVars
<1>15. CASE Restart
  BY <1>15, RestartCounts
<1> QED BY <1>1, <1>2, <1>3, <1>4, <1>5, <1>6, <1>7, <1>8, <1>9, <1>10, <1>11, <1>12,
           <1>13, <1>14, <1>15 DEF Next, Receive, Giz

\* What detectHandle removes has missed more sweeps than a light in time can.
LEMMA RemovesOnlyLate ==
  ASSUME TableInv, CountInv, MaxGap < MaxMiss, Sweep
  PROVE  (Listed \ Macs(nodelist')) \cap present \subseteq excused
<1> USE DEF TableInv, ListInv, ListType
<1> SUFFICES ASSUME NEW i \in DOMAIN nodelist, nodelist[i].mac \notin Macs(nodelist'),
                    nodelist[i].mac \in present \ excused
             PROVE  FALSE
  BY DEF Listed, Macs
<1>1. DetectHandle
  BY DEF Sweep, SweepTable, Macs
<1> DEFINE K == {j \in DOMAIN nodelist : ~Overdue(nodelist[j])}
<1>2. PICK kept \in InOrder(K) :
        nodelist' = [j \in DOMAIN kept |-> Detected(nodelist[kept[j]])]
  BY <1>1 DEF DetectHandle
<1>3. nodelist[i] \in Nodes /\ Misses(nodelist[i]) \in Nat /\ nodelist[i].mac \in Devices
  BY NodesMiss
<1>4. i \notin K
  <2> SUFFICES ASSUME i \in K PROVE FALSE
    OBVIOUS
  <2>1. K \in SUBSET Nat /\ IsFiniteSet(K)
    <3>1. IsFiniteSet(1..Len(nodelist))
      BY FS_Interval
    <3> QED BY <3>1, FS_Subset
  <2> HIDE DEF K
  <2>2. PICK j \in DOMAIN kept : kept[j] = i
    BY <2>1, InOrderReachesAll
  <2>3. j \in DOMAIN nodelist' /\ nodelist'[j] = Detected(nodelist[i])
    BY <1>2, <2>2
  <2>4. Detected(nodelist[i]).mac = nodelist[i].mac
    BY <1>3 DEF Detected, Nodes
  <2> QED BY <2>3, <2>4 DEF Macs
<1>5. Misses(nodelist[i]) >= MaxGap
  BY <1>3, <1>4, NumbersAssumption DEF Overdue, Misses, Nodes
<1>6. /\ \A m \in net : ~m.late
      /\ since[nodelist[i].mac] < MaxGap
  BY DEF Sweep
<1>7. since[nodelist[i].mac] \in Nat /\ MaxGap \in Nat
  BY <1>3, NumbersAssumption DEF OtherTypes
<1>8. InTime(i)
  BY DEF CountInv
<1>9. CASE Misses(nodelist[i]) <= since[nodelist[i].mac]
  BY <1>3, <1>5, <1>6, <1>7, <1>9
<1>10. CASE Misses(nodelist[i]) < MaxGap
  BY <1>3, <1>5, <1>7, <1>10
<1> QED BY <1>6, <1>8, <1>9, <1>10 DEF InTime, Exchange

\* No jitter of the two periods, no order of packets, address requests, reports
\* and resets, and no change of addresses lets detectHandle remove a light whose
\* transmissions all reach the table (mac_table_fresh counts them for its own
\* node), as long as the periods leave room for fewer than MAX_MISS_HEARTBEAT_CNT
\* sweeps between two of them.
THEOREM HeardLightsStay ==
  ASSUME MaxGap < MaxMiss
  PROVE  Spec => RemovedOnlyIfSilent
<1>1. TableInv /\ [Next]_vars => TableInv'
  BY ListStep, TableStep DEF TableInv
<1>2. TableInv /\ CountInv /\ [Next]_vars => CountInv'
  BY <1>1, CountStep
<1>3. TableInv /\ CountInv /\ [Next]_vars =>
        [Sweep => (Listed \ Macs(nodelist')) \cap present \subseteq excused]_vars
  BY RemovesOnlyLate
<1> QED BY TableInit, CountInit, <1>1, <1>2, <1>3, PTL DEF Spec, RemovedOnlyIfSilent
=============================================================================
