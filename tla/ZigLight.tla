------------------------------ MODULE ZigLight ------------------------------
(***************************************************************************)
(* The ZigLight application: lights (ZigLightApp.c on a router or an end   *)
(* device), the coordinator's table of lights (ZigLightApp.c, List1.c) and *)
(* the part of gizwits_protocol.c that reports the table to the phone.     *)
(*                                                                         *)
(* A light asks to be accepted every 1 to 5 s, and beats every 10 to 14 s  *)
(* once it has been answered; the coordinator sweeps its table every 10 to *)
(* 14 s.  Instead of clocks the model keeps what these periods imply when  *)
(* an exchange of messages takes less than 5.9 s, the 20 s three sweeps    *)
(* take at least less the longest period of a beat: at most MaxGap sweeps  *)
(* pass between a transmission of a light and the end of the next one's    *)
(* exchange, and at most one during an exchange.  It is also assumed that  *)
(* an exchange is over, or lost, before its light transmits again: for a   *)
(* request this means in less than the 1 s the next one may follow after.  *)
(***************************************************************************)
EXTENDS Naturals, SequencesExt, FiniteSets

CONSTANTS
  Devices,   \* the lights, named by their IEEE address (extaddr)
  Shorts,    \* network addresses
  Children,  \* lights that have joined through the coordinator, which therefore
             \* has their addresses
  NoMac,     \* NULL
  MaxMiss,   \* MAX_MISS_HEARTBEAT_CNT
  MaxGap,    \* sweeps between two transmissions of a light: 14.1 s hold at
             \* most two sweeps, at least 10 s apart
  Batch,     \* nodes reported in one pass of gizwitsHandle (2 in the code)
  MaxEvents  \* bound: losses, arrivals, departures, commands, requests and restarts

ASSUME NoMacAssumption == NoMac \notin Devices
ASSUME ChildrenAssumption == Children \subseteq Devices
\* Lights with different addresses.
Distinct(f) == \A d, e \in Devices : f[d] = f[e] => d = e
ASSUME ShortsAssumption == \E f \in [Devices -> Shorts] : Distinct(f)
ASSUME NumbersAssumption ==
  MaxMiss \in Nat \ {0} /\ MaxGap \in Nat /\ Batch \in Nat \ {0} /\ MaxEvents \in Nat

VARIABLES
  \* the lights
  present,         \* those that are on the network
  shortaddr,       \* their network addresses
  main_state,      \* "REQ" (ESTABLISH_CONNECTION_REQ) or "HEARTBEAT"
  since,           \* sweeps since the light's last transmission
  \* the coordinator
  nodelist,        \* the table, from head to tail
  deletnodelist,   \* removed nodes that wait to be reported (their IEEE addresses)
  newdevice_joinin,
  known,           \* lights APSME_LookupExtAddr finds the IEEE address of
  MacToAppFlag, NewMacUpate,
  nodeptr,         \* where the report of the whole table has come to
  due,             \* gizwitsHandle is called before the next event of a task
  \* between them
  net,             \* messages under way
  appView,         \* the lights the phone has been told of
  \* history and bounds
  excused,         \* lights that since they were last counted have lost a
                   \* transmission, been kept from beating or come back
  forgotten,       \* lights the phone has been told of and the coordinator has
                   \* not had in its table since it was reset
  events

deviceVars == <<present, shortaddr, main_state, since>>
tableVars == <<nodelist, deletnodelist, newdevice_joinin, NewMacUpate, forgotten>>
reportVars == <<MacToAppFlag, nodeptr, appView>>
vars == <<deviceVars, tableVars, known, reportVars, due, net, excused, events>>

MessageTypes == {"req", "beat", "ieee_req", "ieee_rsp", "rsq", "command"}

\* dev: the light a message comes from or asks about; late: its exchange is
\* over, or lost, before the next sweep.
Messages == [type : MessageTypes, dev : Devices, short : Shorts, late : BOOLEAN]

\* fresh: heartbeatCnt # heartbeatCntOld; miss: detectHeartbeatCnt.
Nodes == [mac : Devices, short : Shorts, element : 0..1, fresh : BOOLEAN,
          miss : 0..(MaxMiss - 1)]

Macs(list) == {list[i].mac : i \in DOMAIN list}
Listed == Macs(nodelist)

Reply(m, type) == [m EXCEPT !.type = type]

\* An event of the coordinator's task.  The run loop calls gizwitsHandle before
\* it handles an event; the pass that has nothing to report is left out.
Task ==
  /\ ~due
  /\ due' = (MacToAppFlag' = 1 \/ deletnodelist' # << >> \/ NewMacUpate' = 1)

Event == events < MaxEvents /\ events' = events + 1

Init ==
  /\ present = Devices
  /\ shortaddr = CHOOSE f \in [Devices -> Shorts] : Distinct(f)
  /\ main_state = [d \in Devices |-> "REQ"]
  /\ since = [d \in Devices |-> 0]
  /\ nodelist = << >> /\ deletnodelist = << >>
  /\ newdevice_joinin = 0
  /\ known = Children
  /\ MacToAppFlag = 0 /\ NewMacUpate = 0
  /\ nodeptr = NoMac
  /\ due = FALSE
  /\ net = {}
  /\ appView = {}
  /\ excused = {} /\ forgotten = {}
  /\ events = 0

-----------------------------------------------------------------------------
(* The lights.                                                             *)

\* The periodic event of a light on the network.  The code does not wait for
\* the last exchange: that it is over is the assumption on time.
Transmit(d) ==
  /\ d \in present
  /\ \A m \in net : m.dev # d
  /\ net' = net \cup {[type |-> IF main_state[d] = "REQ" THEN "req" ELSE "beat",
                       dev |-> d, short |-> shortaddr[d], late |-> since[d] = MaxGap]}
  /\ since' = [since EXCEPT ![d] = 0]
  /\ UNCHANGED <<present, shortaddr, main_state, tableVars, known, reportVars, due,
                 excused, events>>

\* The light that has the address a message is sent to.
Receiver(m) == {d \in present : shortaddr[d] = m.short}

\* The answer to a request, and a command: the light beats from now on.  A
\* command starts the periodic timer again, for 3 s.
ReceiveRsq(m) ==
  /\ m.type = "rsq"
  /\ net' = net \ {m}
  /\ main_state' = [d \in Devices |-> IF d \in Receiver(m) THEN "HEARTBEAT"
                                      ELSE main_state[d]]
  /\ UNCHANGED <<present, shortaddr, since, tableVars, known, reportVars, due, excused,
                 events>>

ReceiveCommand(m) ==
  /\ m.type = "command"
  /\ net' = net \ {m}
  /\ main_state' = [d \in Devices |-> IF d \in Receiver(m) THEN "HEARTBEAT"
                                      ELSE main_state[d]]
  /\ since' = [d \in Devices |-> IF d \in Receiver(m) THEN 0 ELSE since[d]]
  /\ excused' = excused \cup Receiver(m)
  /\ UNCHANGED <<present, shortaddr, tableVars, known, reportVars, due, events>>

\* ZDO answers an address request on the light's behalf.
ReceiveIeeeReq(m) ==
  /\ m.type = "ieee_req"
  /\ net' = (net \ {m}) \cup
            {[Reply(m, "ieee_rsp") EXCEPT !.dev = d] : d \in Receiver(m)}
  /\ UNCHANGED <<deviceVars, tableVars, known, reportVars, due, excused, events>>

-----------------------------------------------------------------------------
(* The coordinator's table.  A result r of the operators below is the new  *)
(* list, newdevice_joinin and NewMacUpate, whether an address request is   *)
(* sent (ask) and whether the heap had no room for a node (full).          *)

Same == [list |-> nodelist, joinin |-> newdevice_joinin, news |-> NewMacUpate,
         ask |-> FALSE, full |-> FALSE]

\* The search counts the packet for the first node that matches, its caller
\* counts it once more.
CountFirst(matches) ==
  [Same EXCEPT !.list = [i \in DOMAIN nodelist |->
     IF i \in matches /\ \A j \in matches : i <= j
     THEN [nodelist[i] EXCEPT !.fresh = TRUE] ELSE nodelist[i]]]

\* searchfromList and searchshortaddfromList.
WithMac(d) == {i \in DOMAIN nodelist : nodelist[i].mac = d}
WithShort(short) == {i \in DOMAIN nodelist : nodelist[i].short = short}

NewNode(d, short) == [mac |-> d, short |-> short, element |-> 1, fresh |-> FALSE,
                      miss |-> 0]

\* insertLastList allocates a node or finds no room for it.
InsertLast(d, short) ==
  {[Same EXCEPT !.list = Append(@, NewNode(d, short)), !.joinin = 1, !.news = 1],
   [Same EXCEPT !.joinin = 2, !.full = TRUE]}

\* Mutant: the table is searched by network address.
SearchShortOrInsert(d, short) ==
  IF WithShort(short) # {} THEN {CountFirst(WithShort(short))} ELSE InsertLast(d, short)

SearchOrInsert(d, short) ==
  IF WithMac(d) # {} THEN {CountFirst(WithMac(d))} ELSE InsertLast(d, short)

MacTableFresh(m) ==
  IF m.dev \in known THEN SearchOrInsert(m.dev, m.short)
  ELSE IF WithShort(m.short) # {} THEN {CountFirst(WithShort(m.short))}
  ELSE {[Same EXCEPT !.joinin = 3, !.ask = TRUE]}

SetTable(r, joinin) ==
  /\ nodelist' = r.list
  /\ newdevice_joinin' = joinin
  /\ NewMacUpate' = r.news
  /\ forgotten' = forgotten \ Macs(r.list)
  /\ IF r.full THEN Event ELSE UNCHANGED events

\* A light is counted, unless its address is still asked for or the heap had
\* no room for its node.
Excused(d, r) == IF r.full THEN excused \cup {d} ELSE IF r.ask THEN excused ELSE excused \ {d}

\* ZigLightApp_MessageMSGCB: mac_table_fresh, then rfdata_handle, which answers
\* a request.
ReceivePacket(m) ==
  /\ m.type \in {"req", "beat"}
  /\ MacToAppFlag = 0
  /\ \E r \in MacTableFresh(m) :
       LET answers == r.joinin # 3 /\ m.type = "req" IN
       /\ SetTable(r, IF answers THEN 0 ELSE r.joinin)
       /\ net' = (net \ {m}) \cup (IF r.ask THEN {Reply(m, "ieee_req")} ELSE {})
                              \cup (IF answers THEN {Reply(m, "rsq")} ELSE {})
       /\ excused' = Excused(m.dev, r)
  /\ UNCHANGED <<deviceVars, deletnodelist, known, reportVars>>
  /\ Task

\* ZigLightApp_MessageMSGCB does nothing with a packet while the table is being reported.
DropPacket(m) ==
  /\ m.type \in {"req", "beat"}
  /\ MacToAppFlag = 1
  /\ net' = net \ {m}
  /\ excused' = excused \cup {m.dev}
  /\ UNCHANGED <<deviceVars, tableVars, known, reportVars, events>>
  /\ Task

\* ZigLightApp_ProcessZDOMsgs: the answer to an address request.
ReceiveIeeeRsp(m) ==
  /\ m.type = "ieee_rsp"
  /\ \E r \in SearchOrInsert(m.dev, m.short) :
       SetTable(r, 0) /\ excused' = Excused(m.dev, r)
  /\ net' = (net \ {m}) \cup {Reply(m, "rsq")}
  /\ UNCHANGED <<deviceVars, deletnodelist, known, reportVars>>
  /\ Task

-----------------------------------------------------------------------------
(* The coordinator's periodic event.                                       *)

\* detectHandle's count of a node, and whether it removes the node.
Overdue(n) == ~n.fresh /\ n.miss + 1 >= MaxMiss

\* Mutant: a packet does not end the count of the missing ones.
DetectedKeepsMiss(n) == [n EXCEPT !.miss = IF n.fresh THEN @ ELSE @ + 1, !.fresh = FALSE]

Detected(n) == [n EXCEPT !.miss = IF n.fresh THEN 0 ELSE @ + 1, !.fresh = FALSE]

\* The positions in S in increasing order (a set of one sequence).
InOrder(S) == {f \in [1..Cardinality(S) -> S] :
                 \A i, j \in 1..Cardinality(S) : i < j => f[i] < f[j]}

\* The removed nodes are appended to deletnodelist.
DetectHandle ==
  \E gone \in InOrder({i \in DOMAIN nodelist : Overdue(nodelist[i])}),
     kept \in InOrder({i \in DOMAIN nodelist : ~Overdue(nodelist[i])}) :
       /\ nodelist' = [i \in DOMAIN kept |-> Detected(nodelist[kept[i]])]
       /\ deletnodelist' = deletnodelist \o [i \in DOMAIN gone |-> nodelist[gone[i]].mac]

\* Mutant: also while the table is reported.
SweepTableAlways == DetectHandle

\* While the table is being reported it is left alone.
SweepTable ==
  IF MacToAppFlag = 0 THEN DetectHandle ELSE UNCHANGED <<nodelist, deletnodelist>>

Sweep ==
  /\ \A m \in net : ~m.late
  /\ \A d \in present : since[d] < MaxGap
  /\ SweepTable
  /\ net' = {[m EXCEPT !.late = TRUE] : m \in net}
  /\ since' = [d \in Devices |-> since[d] + IF d \in present THEN 1 ELSE 0]
  /\ UNCHANGED <<present, shortaddr, main_state, newdevice_joinin, NewMacUpate,
                 forgotten, known, reportVars, excused, events>>
  /\ Task

-----------------------------------------------------------------------------
(* gizwitsHandle, called once in every pass of the run loop.  A report that *)
(* equals the last one is not sent again; it would tell the phone nothing. *)

\* The phone asks for the table (gizwitsEventProcess).
RequestTable ==
  /\ due' = FALSE
  /\ Event
  /\ MacToAppFlag' = 1
  /\ UNCHANGED <<deviceVars, tableVars, known, nodeptr, appView, net, excused>>

PositionOf(mac) == CHOOSE i \in DOMAIN nodelist : nodelist[i].mac = mac

ReportTable ==
  /\ due' = FALSE
  /\ MacToAppFlag = 1
  /\ LET first == IF nodeptr = NoMac THEN 1 ELSE PositionOf(nodeptr)
         next == first + Batch
         batch == {nodelist[i].mac : i \in DOMAIN nodelist \cap first..(next - 1)}
     IN /\ appView' = appView \cup batch
        /\ nodeptr' = IF next \in DOMAIN nodelist THEN nodelist[next].mac ELSE NoMac
        /\ MacToAppFlag' = IF next \in DOMAIN nodelist THEN 1 ELSE 0
  /\ UNCHANGED <<deviceVars, tableVars, known, net, excused, events>>

\* Mutant: all of the list is freed after the first Batch nodes are reported.
DeletedLeftNone(n) == << >>

DeletedLeft(n) == SubSeq(deletnodelist, n + 1, Len(deletnodelist))

ReportDeleted ==
  /\ due' = FALSE
  /\ MacToAppFlag = 0
  /\ deletnodelist # << >>
  /\ LET n == IF Len(deletnodelist) < Batch THEN Len(deletnodelist) ELSE Batch IN
       /\ appView' = appView \ {deletnodelist[i] : i \in 1..n}
       /\ deletnodelist' = DeletedLeft(n)
  /\ UNCHANGED <<deviceVars, nodelist, newdevice_joinin, NewMacUpate, forgotten, known,
                 MacToAppFlag, nodeptr, net, excused, events>>

\* The new nodes up to position i.
NewUpTo(i) == Cardinality({j \in 1..i : nodelist[j].element = 1})

\* Mutant: one walk reports the last of them.
MoreNewNone == 0

\* The walk over the new nodes stops behind the Batch-th one and has to be
\* taken up again unless this is the tail.
MoreNew == IF \E i \in DOMAIN nodelist : i < Len(nodelist) /\ NewUpTo(i) = Batch
           THEN 1 ELSE 0

ReportNew ==
  /\ due' = FALSE
  /\ MacToAppFlag = 0 /\ deletnodelist = << >> /\ NewMacUpate = 1
  /\ LET batch == {i \in DOMAIN nodelist : nodelist[i].element = 1 /\ NewUpTo(i) <= Batch}
     IN /\ nodelist' = [i \in DOMAIN nodelist |->
                          IF i \in batch THEN [nodelist[i] EXCEPT !.element = 0]
                          ELSE nodelist[i]]
        /\ appView' = appView \cup {nodelist[i].mac : i \in batch}
  /\ NewMacUpate' = MoreNew
  /\ UNCHANGED <<deviceVars, deletnodelist, newdevice_joinin, forgotten, known,
                 MacToAppFlag, nodeptr, net, excused, events>>

-----------------------------------------------------------------------------
(* The surroundings.                                                       *)

Lose(m) ==
  /\ Event
  /\ net' = net \ {m}
  /\ excused' = IF m.type \in {"rsq", "command"} THEN excused ELSE excused \cup {m.dev}
  /\ UNCHANGED <<deviceVars, tableVars, known, reportVars, due>>

\* serial_data_handle: the phone commands a light whose address is known.
SendCommand(d) ==
  /\ Event
  /\ d \in known
  /\ net' = net \cup {[type |-> "command", dev |-> d, short |-> shortaddr[d],
                       late |-> FALSE]}
  /\ UNCHANGED <<deviceVars, tableVars, known, reportVars, due, excused>>

Leave(d) ==
  /\ Event
  /\ d \in present
  /\ present' = present \ {d}
  /\ since' = [since EXCEPT ![d] = 0]
  /\ UNCHANGED <<shortaddr, main_state, tableVars, known, reportVars, due, net, excused>>

\* A light comes (back), after a reset or not, with an address no other light
\* has, no other node of the table remembers and no other light's message carries.
Join(d) ==
  /\ Event
  /\ d \notin present
  /\ present' = present \cup {d}
  /\ \E s \in Shorts :
       /\ \A e \in Devices \ {d} : shortaddr[e] # s
       /\ \A i \in DOMAIN nodelist : nodelist[i].short = s => nodelist[i].mac = d
       /\ \A m \in net : m.short = s => m.dev = d
       /\ shortaddr' = [shortaddr EXCEPT ![d] = s]
  /\ \E state \in {"REQ", main_state[d]} : main_state' = [main_state EXCEPT ![d] = state]
  /\ UNCHANGED since
  /\ known' \in {known \cup {d}, known \ {d}}
  /\ excused' = excused \cup {d}
  /\ UNCHANGED <<tableVars, reportVars, due, net>>

\* The coordinator is reset and takes up its network again (NV_RESTORE): what
\* is under way to it is lost, and the table and the report with it.  (The
\* next sweep comes 3 s after it is back, and 10 s or more before another.)
Restart ==
  /\ Event
  /\ nodelist' = << >> /\ deletnodelist' = << >>
  /\ newdevice_joinin' = 0 /\ NewMacUpate' = 0
  /\ MacToAppFlag' = 0 /\ nodeptr' = NoMac
  /\ due' = FALSE
  /\ known' \in SUBSET known
  /\ net' = {[m EXCEPT !.late = FALSE] :
               m \in {m \in net : m.type \in {"rsq", "command", "ieee_req"}}}
  /\ since' = [d \in Devices |-> 0]
  /\ excused' = excused \cup {m.dev : m \in net}
  /\ forgotten' = forgotten \cup appView
  /\ UNCHANGED <<present, shortaddr, main_state, appView>>

Receive(m) ==
  \/ ReceiveRsq(m) \/ ReceiveCommand(m) \/ ReceiveIeeeReq(m)
  \/ ReceivePacket(m) \/ DropPacket(m) \/ ReceiveIeeeRsp(m)

Giz == ReportTable \/ ReportDeleted \/ ReportNew

Next ==
  \/ \E d \in Devices : Transmit(d) \/ SendCommand(d) \/ Leave(d) \/ Join(d)
  \/ \E m \in net : Receive(m) \/ Lose(m)
  \/ Sweep
  \/ Giz \/ RequestTable
  \/ Restart

Spec == Init /\ [][Next]_vars

\* The timers expire, the messages that are not lost arrive, and every pass of
\* the run loop calls gizwitsHandle.
Fairness ==
  /\ \A d \in Devices : WF_vars(Transmit(d))
  /\ \A d \in Devices : WF_vars(\E m \in net : m.dev = d /\ Receive(m))
  /\ WF_vars(Sweep)
  /\ WF_vars(Giz)

FairSpec == Spec /\ Fairness

-----------------------------------------------------------------------------
TypeOK ==
  /\ present \in SUBSET Devices
  /\ shortaddr \in [Devices -> Shorts]
  /\ main_state \in [Devices -> {"REQ", "HEARTBEAT"}]
  /\ since \in [Devices -> 0..MaxGap]
  /\ nodelist \in Seq(Nodes)
  /\ deletnodelist \in Seq(Devices)
  /\ newdevice_joinin \in 0..3
  /\ known \in SUBSET Devices
  /\ MacToAppFlag \in 0..1 /\ NewMacUpate \in 0..1
  /\ nodeptr \in Devices \cup {NoMac}
  /\ due \in BOOLEAN
  /\ net \in SUBSET Messages
  /\ appView \in SUBSET Devices
  /\ excused \in SUBSET Devices
  /\ forgotten \in SUBSET Devices
  /\ events \in 0..MaxEvents

Reported(i) == nodelist[i].element = 0

\* A light has one node, however its packets, the answers about its address,
\* removals and new requests follow each other (mac_table_fresh and
\* ZigLightApp_ProcessZDOMsgs insert after a search by IEEE address).
OneNodePerDevice ==
  \A i, j \in DOMAIN nodelist : nodelist[i].mac = nodelist[j].mac => i = j

\* The phone can trust what it has been told: a node marked as reported is
\* known to it, what it knows is in the table or waits to be taken back, unless
\* a reset has made the coordinator forget it, and a node it has not been told
\* of keeps NewMacUpate set.
ReportsAreDue ==
  /\ \A i \in DOMAIN nodelist : Reported(i) => nodelist[i].mac \in appView \ ToSet(deletnodelist)
  /\ appView \subseteq Listed \cup ToSet(deletnodelist) \cup forgotten
  /\ NewMacUpate = 0 => \A i \in DOMAIN nodelist : Reported(i)

\* The table and the cursors are well formed, every light has one node in it
\* and no change goes unreported.
TableOK == TypeOK /\ OneNodePerDevice /\ ReportsAreDue

\* The static cursor of gizwitsHandle never outlives the node it points at:
\* a node is removed only while no report of the table is under way.
CursorValid == nodeptr # NoMac => MacToAppFlag = 1 /\ nodeptr \in Listed

\* detectHandle removes no light whose transmissions all reach the table and
\* that is left to beat, whatever the jitter of the two periods.
RemovedOnlyIfSilent ==
  [][Sweep => (Listed \ Macs(nodelist')) \cap present \subseteq excused]_vars

\* Once the surroundings are quiet the table holds the lights on the network
\* and no others, also after a reset, and the phone knows exactly these and
\* those that left before a reset made the coordinator forget them: nothing
\* ever takes these back.
TableAndPhoneConverge ==
  <>[](Listed = present /\ present \subseteq appView /\ appView \subseteq present \cup forgotten)

\* A light that stays on the network is answered and starts to beat
\* (rfdata_handle's comments: a request is answered, the answer starts the
\* heartbeats).
EveryLightIsAnswered ==
  \A d \in Devices : d \in present ~> main_state[d] = "HEARTBEAT" \/ d \notin present
=============================================================================
