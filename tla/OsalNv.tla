------------------------------- MODULE OsalNv -------------------------------
(***************************************************************************)
(* The non-volatile item store of Components/osal/mcu/cc2530/OSAL_Nv.c.    *)
(*                                                                         *)
(* Flash is a set of pages of item records; one write of a flash word or   *)
(* one page erase is one step, and the power may fail before any of them.  *)
(* Between two of them the code only reads flash and changes RAM, which a  *)
(* power failure loses, and as long as flash works it takes no other turn  *)
(* depending on what it reads back: an operation is the sequence of flash  *)
(* operations (todo) it goes through; one that is read back names what is  *)
(* left to do if it has failed.  initNV's walk over the items, which       *)
(* does depend on what it finds, is modelled item by item.                 *)
(*                                                                         *)
(* pgOff is what a page's items add up to (Used), and pgLost what those    *)
(* zeroed do, but for the bytes initNV's walk leaves out (uncounted).      *)
(***************************************************************************)
EXTENDS Naturals, Sequences, SequencesExt, FiniteSets, FiniteSetsExt

CONSTANTS
  Ids,       \* item ids
  Values,    \* item contents
  HotIds,    \* hotIds: the items whose location is cached
  Deletable, \* the items osal_nv_delete is called for
  Size,      \* OSAL_NV_ITEM_SIZE of an item, header included
  PagesUsed, \* OSAL_NV_PAGES_USED
  Cap,       \* bytes of a page after its header, in units of Size
  Failing,   \* the writes that may fail and leave flash as it is: "pageXfer", not
             \* read back, or "data" and "checksum", which are
  PartialErases, \* what an interrupted erase may leave: is a header word kept,
             \* and are the items "kept", "damaged" or "gone"
  Missing    \* no value: an item that does not exist

PageNull == 0
Pages == 1 .. PagesUsed

ASSUME IdsAssumption == HotIds \subseteq Ids /\ Deletable \subseteq Ids /\ Missing \notin Values
ASSUME SizeAssumption == Size \in [Ids -> 1 .. Cap]
ASSUME PagesAssumption == PagesUsed \in Nat /\ PagesUsed >= 2 /\ Cap \in Nat
ASSUME ErasesAssumption ==
  PartialErases \subseteq [active : BOOLEAN, xfer : BOOLEAN, items : {"kept", "damaged", "gone"}]

ASSUME FailingAssumption == Failing \subseteq {"pageXfer", "data", "checksum"}

VARIABLES
  flash,     \* the pages: header members active and xfer, and the items
  pgRes,     \* the reserve page
  hot,       \* hotPg and hotOff: where a hot item is, {} if not known
  todo,      \* the flash operations still to come
  op,        \* the operation under way: {<<id, new value>>} or {}
  pc,        \* "off", "boot" (page headers), "scan" (items), "counted", "last",
             \* "idle", "busy"
  scan,      \* initNV's walk: the next place to look at, and findDups
  uncounted  \* bytes of zeroed items missing from pgLost

vars == <<flash, pgRes, hot, todo, op, pc, scan, uncounted>>

-----------------------------------------------------------------------------
(* Pages and items                                                          *)

BlankPage == [active |-> FALSE, xfer |-> FALSE, items |-> << >>]

\* A header just written: no data and no checksum, status erased.
NewItem(id) == [id |-> id, zeroed |-> FALSE, xfer |-> FALSE, good |-> FALSE, data |-> Missing]

Items(pg) == flash[pg].items
SizeOf(items) == FoldLeft(LAMBDA sum, it : sum + Size[it.id], 0, items)
Used(pg) == SizeOf(Items(pg))
Lost(pg) == SizeOf(SelectSeq(Items(pg), LAMBDA it : it.zeroed))
pgLost(pg) == Lost(pg) - uncounted[pg]

\* The items initPage and findItem see, as <<page, position>>; "old" are those
\* marked as transferred.
Places == {<<pg, i>> \in Pages \X (1 .. Cap) : i <= Len(Items(pg))}
At(place) == Items(place[1])[place[2]]
CopiesOf(id, old) == {p \in Places : At(p).id = id /\ ~At(p).zeroed /\ At(p).xfer = old}

Before(p, q) == p[1] < q[1] \/ (p[1] = q[1] /\ p[2] < q[2])
FirstOf(places) == {p \in places : \A q \in places : ~Before(q, p)}

\* findItem: the first new copy, else the first old one; the checksum is not
\* looked at.  A set of at most one place.
FindItem(id) ==
  IF CopiesOf(id, FALSE) # {} THEN FirstOf(CopiesOf(id, FALSE)) ELSE FirstOf(CopiesOf(id, TRUE))

-----------------------------------------------------------------------------
(* Flash operations and the sequences of them                               *)

Header(pg, id)    == <<[do |-> "header", pg |-> pg, id |-> id]>>
Data(pg, v, else) == <<[do |-> "data", pg |-> pg, v |-> v, else |-> else]>>
Checksum(pg, else) == <<[do |-> "checksum", pg |-> pg, else |-> else]>>
SetXfer(p)        == IF At(p).xfer THEN << >> ELSE <<[do |-> "xfer", pg |-> p[1], i |-> p[2]]>>
SetZero(p)        == <<[do |-> "zero", pg |-> p[1], i |-> p[2]]>>
SetPageXfer(pg)   == IF flash[pg].xfer THEN << >> ELSE <<[do |-> "pageXfer", pg |-> pg]>>
SetPageUse(pg)    == <<[do |-> "pageUse", pg |-> pg]>>
ErasePage(pg)     == <<[do |-> "erase", pg |-> pg]>>

\* writeItem with its data and checksum
WriteItem(pg, id, v, else) == Header(pg, id) \o Data(pg, v, else) \o Checksum(pg, else)

\* compactPage, one item: the old item is marked, then copied.  If that fails
\* the reserve page is erased again, and the operation is over.
MarkThenCopy(p, dst) == SetXfer(p) \o WriteItem(dst, At(p).id, At(p).data, ErasePage(dst))

\* compactPage: the valid items of src but skipId go to the reserve page.
Compact(src, dst, skipIds) ==
  FlattenSeq([i \in 1 .. Len(Items(src)) |->
    IF At(<<src, i>>).zeroed \/ ~At(<<src, i>>).good \/ At(<<src, i>>).id \in skipIds
      THEN << >>
      ELSE MarkThenCopy(<<src, i>>, dst)])

\* COMPACT_PAGE_CLEANUP
Cleanup(com, res) == SetPageUse(res) \o ErasePage(com)

\* initItem: the first page after the reserve page with room for the item, if
\* need be after compaction.
Distance(pg) == (pg + PagesUsed - pgRes) % PagesUsed
Room(pg, id) == Size[id] <= (Cap - Used(pg)) + pgLost(pg)
PageFor(id) ==
  {pg \in Pages \ {pgRes} :
     Room(pg, id) /\ \A q \in Pages \ {pgRes} : Room(q, id) => Distance(pg) <= Distance(q)}
NeedsCompaction(pg, id) == Size[id] > Cap - Used(pg)

\* osal_nv_item_init of a new item
CreateOps(pg, id, v) ==
  IF NeedsCompaction(pg, id)
    THEN SetPageXfer(pg) \o Compact(pg, pgRes, {id})
         \o WriteItem(pgRes, id, v, Cleanup(pg, pgRes)) \o Cleanup(pg, pgRes)
    ELSE WriteItem(pg, id, v, << >>)

\* Mutant: the old item is zeroed before the compacted page is cleaned up.
WriteOpsZeroFirst(pg, p, id, v) ==
  LET com == NeedsCompaction(pg, id)
      dst == IF com THEN pgRes ELSE pg
  IN  (IF com THEN SetPageXfer(pg) \o Compact(pg, pgRes, {id}) ELSE << >>)
      \o Header(dst, id) \o SetXfer(p) \o Data(dst, v, << >>) \o Checksum(dst, << >>)
      \o (IF com /\ p[1] = pg THEN << >> ELSE SetZero(p))
      \o (IF com THEN Cleanup(pg, pgRes) ELSE << >>)

\* osal_nv_write of a new value for the item found at p: the header of the new
\* copy, the old one marked, data, checksum, the compacted page cleaned up, and
\* only then the old copy zeroed (erased with its page if that was compacted).
\* If the checksum does not come out, the compaction is undone where the old
\* copy is on the compacted page, else finished.  It never comes out where the
\* old copy has none, as it is reckoned from the old one.
WriteOps(pg, p, id, v) ==
  LET com == NeedsCompaction(pg, id)
      dst == IF com THEN pgRes ELSE pg
      cleanup == IF com THEN Cleanup(pg, pgRes) ELSE << >>
      failed == IF com /\ p[1] = pg THEN ErasePage(pgRes) ELSE cleanup
  IN  (IF com THEN SetPageXfer(pg) \o Compact(pg, pgRes, {id}) ELSE << >>)
      \o Header(dst, id) \o SetXfer(p) \o Data(dst, v, failed)
      \o (IF At(p).good
            THEN Checksum(dst, failed) \o cleanup
                 \o (IF com /\ p[1] = pg THEN << >> ELSE SetZero(p))
            ELSE failed)

\* initNV, by the page headers: every erased page but the first is put in use;
\* a compaction that was under way is started again if there is a reserve page,
\* else finished; otherwise the reserve page is erased once more.
ErasedPages == {pg \in Pages : ~flash[pg].active}
XferPages == {pg \in Pages : flash[pg].active /\ flash[pg].xfer}
ReservePage == IF ErasedPages = {} THEN PageNull ELSE Min(ErasedPages)
UseOthers ==
  FlattenSeq([pg \in Pages |-> IF pg \in ErasedPages \ {ReservePage} THEN SetPageUse(pg) ELSE << >>])

\* Mutant: a reserve page whose erase was interrupted is not erased again.
BootOpsTrusting ==
  UseOthers \o
  (IF XferPages = {} THEN << >>
   ELSE IF ReservePage = PageNull THEN ErasePage(Max(XferPages))
   ELSE Compact(Max(XferPages), ReservePage, {}) \o Cleanup(Max(XferPages), ReservePage))

BootOps ==
  UseOthers \o
  (IF XferPages # {}
     THEN IF ReservePage # PageNull
            THEN ErasePage(ReservePage) \o Compact(Max(XferPages), ReservePage, {})
                 \o Cleanup(Max(XferPages), ReservePage)
            ELSE ErasePage(Max(XferPages))
     ELSE IF ReservePage # PageNull THEN ErasePage(ReservePage) ELSE << >>)

\* The page that lost most, if there is no reserve page after all.
MostLost == Min({pg \in Pages : \A q \in Pages : pgLost(q) <= pgLost(pg)})

NoScan == [at |-> <<1, 1>>, findDups |-> FALSE]

-----------------------------------------------------------------------------
Init ==
  /\ flash = [pg \in Pages |-> BlankPage]
  /\ pgRes = PageNull
  /\ hot = [id \in HotIds |-> {}]
  /\ todo = << >>
  /\ op = {}
  /\ pc = "off"
  /\ scan = NoScan
  /\ uncounted = [pg \in Pages |-> 0]

\* Of a zeroed item only the length matters any more.
Zeroed(it) == [NewItem(it.id) EXCEPT !.zeroed = TRUE]

\* The flash after one operation.
Last1(pg) == Len(Items(pg))
AfterFlashOp(f) ==
  CASE f.do = "header"   -> [flash EXCEPT ![f.pg].items = Append(@, NewItem(f.id))]
    [] f.do = "data"     -> [flash EXCEPT ![f.pg].items[Last1(f.pg)].data = f.v]
    [] f.do = "checksum" -> [flash EXCEPT ![f.pg].items[Last1(f.pg)].good = TRUE]
    [] f.do = "xfer"     -> [flash EXCEPT ![f.pg].items[f.i].xfer = TRUE]
    [] f.do = "zero"     -> [flash EXCEPT ![f.pg].items[f.i] = Zeroed(@)]
    [] f.do = "pageXfer" -> [flash EXCEPT ![f.pg].xfer = TRUE]
    [] f.do = "pageUse"  -> [flash EXCEPT ![f.pg].active = TRUE]
    [] f.do = "erase"    -> [flash EXCEPT ![f.pg] = BlankPage]

\* hotItemUpdate, when an item's checksum was written
HotItemUpdate(f) ==
  IF f.do = "checksum" /\ Items(f.pg)[Last1(f.pg)].id \in HotIds
    THEN [hot EXCEPT ![Items(f.pg)[Last1(f.pg)].id] = {<<f.pg, Last1(f.pg)>>}]
    ELSE hot

\* One flash operation; the page that was erased becomes the reserve page.
FlashStep ==
  /\ todo # << >>
  /\ flash' = AfterFlashOp(Head(todo))
  /\ hot' = HotItemUpdate(Head(todo))
  /\ pgRes' = IF Head(todo).do = "erase" THEN Head(todo).pg ELSE pgRes
  /\ uncounted' = IF Head(todo).do = "erase" THEN [uncounted EXCEPT ![Head(todo).pg] = 0]
                                            ELSE uncounted
  /\ todo' = Tail(todo)
  /\ UNCHANGED <<op, pc, scan>>

\* A write that leaves flash as it was, any number of times.  Where it is read
\* back, the operation has failed.
FlashFail ==
  /\ todo # << >> /\ Head(todo).do \in Failing
  /\ IF Head(todo).do \in {"data", "checksum"}
       THEN todo' = Head(todo).else /\ op' = {}
       ELSE todo' = Tail(todo) /\ UNCHANGED op
  /\ UNCHANGED <<flash, pgRes, hot, pc, scan, uncounted>>

\* osal_nv_init starts.
Boot ==
  /\ pc = "off"
  /\ pc' = "boot"
  /\ pgRes' = ReservePage
  /\ todo' = BootOps
  /\ UNCHANGED <<flash, hot, op, scan, uncounted>>

BootDone ==
  /\ pc = "boot" /\ todo = << >>
  /\ pc' = "scan"
  /\ UNCHANGED <<flash, pgRes, hot, todo, op, scan, uncounted>>

\* initPage over the items of all pages stops at an item with a bad checksum,
\* which is zeroed; at the first old one, which starts the walk again; and from
\* then on at each new one that has an old copy, which is zeroed.
Bad(it) == ~it.zeroed /\ ~it.good
Old(it) == ~it.zeroed /\ it.good /\ it.xfer

\* Mutant: only the first pass, without findDups.
StopsOnce ==
  {p \in Places :
     /\ ~Before(p, scan.at)
     /\ Bad(At(p)) \/ (Old(At(p)) /\ ~scan.findDups)}

Stops ==
  {p \in Places :
     /\ ~Before(p, scan.at)
     /\ \/ Bad(At(p))
        \/ Old(At(p)) /\ ~scan.findDups
        \/ ~At(p).zeroed /\ ~At(p).xfer /\ scan.findDups /\ CopiesOf(At(p).id, TRUE) # {}}

\* Mutant: the walk forgets why it started again.
ScanRestartForgets ==
  /\ pc = "scan" /\ todo = << >>
  /\ \E p \in FirstOf(Stops) : Old(At(p)) /\ ~scan.findDups
  /\ scan' = NoScan
  /\ uncounted' = [pg \in Pages |-> 0]
  /\ UNCHANGED <<flash, pgRes, hot, todo, op, pc>>

ScanRestart ==
  /\ pc = "scan" /\ todo = << >>
  /\ \E p \in FirstOf(Stops) : Old(At(p)) /\ ~scan.findDups
  /\ scan' = [at |-> <<1, 1>>, findDups |-> TRUE]
  /\ uncounted' = [pg \in Pages |-> 0]
  /\ UNCHANGED <<flash, pgRes, hot, todo, op, pc>>

\* A duplicate that lies before the item on the same page is not counted: the
\* walk has passed it, and assigns pgLost at the end of the page.
ScanZero ==
  /\ pc = "scan" /\ todo = << >>
  /\ \E p \in FirstOf(Stops) :
       /\ ~(Old(At(p)) /\ ~scan.findDups)
       /\ \E q \in IF Bad(At(p)) THEN {p} ELSE FirstOf(CopiesOf(At(p).id, TRUE)) :
            /\ todo' = SetZero(q)
            /\ uncounted' = IF q[1] = p[1] /\ q[2] < p[2]
                             THEN [uncounted EXCEPT ![q[1]] = @ + Size[At(q).id]]
                             ELSE uncounted
       /\ scan' = [scan EXCEPT !.at = <<p[1], p[2] + 1>>]
  /\ UNCHANGED <<flash, pgRes, hot, op, pc>>

\* The final pass counts again, but returns at once from a page that still has
\* an old item.
FinalPass == [pg \in Pages |-> IF \E i \in 1 .. Len(Items(pg)) : Old(Items(pg)[i])
                               THEN uncounted[pg] ELSE 0]

\* The walk is over, and counted again if there were duplicates; without a
\* reserve page one is made.
ScanCount ==
  /\ pc = "scan" /\ todo = << >> /\ Stops = {}
  /\ pc' = "counted"
  /\ uncounted' = FinalPass
  /\ UNCHANGED <<flash, pgRes, hot, todo, op, scan>>

ScanDone ==
  /\ pc = "counted"
  /\ pc' = "last"
  /\ todo' = IF pgRes = PageNull THEN ErasePage(MostLost) ELSE << >>
  /\ scan' = NoScan
  /\ UNCHANGED <<flash, pgRes, hot, op, uncounted>>

BootReturn ==
  /\ pc = "last" /\ todo = << >>
  /\ pc' = "idle"
  /\ UNCHANGED <<flash, pgRes, hot, todo, op, scan, uncounted>>

Start(effect, ops) ==
  /\ op' = effect
  /\ todo' = ops
  /\ pc' = "busy"
  /\ UNCHANGED <<flash, pgRes, hot, scan, uncounted>>

\* osal_nv_item_init of an item that exists only refreshes the hot items,
ItemInitFound(id) ==
  /\ pc = "idle"
  /\ FindItem(id) # {}
  /\ hot' = IF id \in HotIds THEN [hot EXCEPT ![id] = FindItem(id)] ELSE hot
  /\ UNCHANGED <<flash, pgRes, todo, op, pc, scan, uncounted>>

\* of one that does not, creates it, unless no page has room (NV_OPER_FAILED).
ItemInitNew(id, v) ==
  /\ pc = "idle"
  /\ FindItem(id) = {}
  /\ \E pg \in PageFor(id) : Start({<<id, v>>}, CreateOps(pg, id, v))

\* osal_nv_write; nothing is written if the value is the same.
Write(id, v) ==
  /\ pc = "idle"
  /\ \E p \in FindItem(id), pg \in PageFor(id) :
       /\ At(p).data # v
       /\ Start(IF At(p).good THEN {<<id, v>>} ELSE {}, WriteOps(pg, p, id, v))

\* osal_nv_delete zeroes the copy it finds, and fails if it still finds one.
Delete(id) ==
  /\ pc = "idle"
  /\ id \in Deletable
  /\ \E p \in FindItem(id) :
       LET others == (CopiesOf(id, FALSE) \cup CopiesOf(id, TRUE)) \ {p}
       IN  Start(IF \E q \in others : At(q).good THEN {} ELSE {<<id, Missing>>}, SetZero(p))

\* The operation returns SUCCESS (or NV_ITEM_UNINIT, created).
Return ==
  /\ pc = "busy" /\ todo = << >>
  /\ pc' = "idle"
  /\ op' = {}
  /\ UNCHANGED <<flash, pgRes, hot, todo, scan, uncounted>>

PowerOff ==
  /\ pc' = "off"
  /\ pgRes' = PageNull
  /\ hot' = [id \in HotIds |-> {}]
  /\ todo' = << >>
  /\ op' = {}
  /\ scan' = NoScan
  /\ uncounted' = [pg \in Pages |-> 0]

PowerFail == pc # "off" /\ PowerOff /\ UNCHANGED flash

\* The power fails during an erase, which leaves either word of the page header
\* and the items erased or not, or the items damaged.
Remains(items, how) ==
  CASE how = "kept"    -> items
    [] how = "damaged" -> [i \in 1 .. Len(items) |-> [items[i] EXCEPT !.good = FALSE]]
    [] how = "gone"    -> << >>
PowerFailErasing ==
  /\ todo # << >> /\ Head(todo).do = "erase"
  /\ LET pg == Head(todo).pg
     IN  \E r \in PartialErases :
           flash' = [flash EXCEPT ![pg] = [active |-> @.active /\ r.active,
                                           xfer   |-> @.xfer /\ r.xfer,
                                           items  |-> Remains(@.items, r.items)]]
  /\ PowerOff

Step == FlashStep \/ Boot \/ BootDone \/ ScanRestart \/ ScanZero \/ ScanCount \/ ScanDone \/ BootReturn \/ Return

Call ==
  \E id \in Ids :
    \/ ItemInitFound(id)
    \/ \E v \in Values : ItemInitNew(id, v) \/ Write(id, v)
    \/ Delete(id)

Next == Step \/ FlashFail \/ Call \/ PowerFail \/ PowerFailErasing

Spec == Init /\ [][Next]_vars

\* The processor keeps executing while it has power.
FairSpec == Spec /\ WF_vars(Step)

-----------------------------------------------------------------------------
(* Properties                                                               *)

Item == [id : Ids, zeroed : BOOLEAN, xfer : BOOLEAN, good : BOOLEAN, data : Values \cup {Missing}]

\* Every variable keeps its type, and no page overflows.
TypeOK ==
  /\ \A pg \in Pages :
       /\ flash[pg].active \in BOOLEAN /\ flash[pg].xfer \in BOOLEAN
       /\ \A i \in 1 .. Len(Items(pg)) : Items(pg)[i] \in Item
       /\ Used(pg) <= Cap
  /\ pgRes \in Pages \cup {PageNull}
  /\ hot \in [HotIds -> SUBSET (Pages \X (1 .. Cap))]
  /\ op \subseteq Ids \X (Values \cup {Missing})
  /\ pc \in {"off", "boot", "scan", "counted", "last", "idle", "busy"}
  /\ scan.at \in Pages \X (1 .. Cap + 1) /\ scan.findDups \in BOOLEAN

\* What a reset would leave of an item now: a copy with a good checksum on a
\* page in use, and the new one rather than the old one.
Durable(id) ==
  LET copies(old) == {p \in CopiesOf(id, old) : At(p).good /\ flash[p[1]].active}
  IN  IF copies(FALSE) # {} THEN At(CHOOSE p \in copies(FALSE) : TRUE).data
      ELSE IF copies(TRUE) # {} THEN At(CHOOSE p \in copies(TRUE) : TRUE).data
      ELSE Missing

\* Every operation takes effect by one flash operation, has done so when it
\* returns with success, and no power failure or recovery changes an item.
Store == INSTANCE NvStore WITH
  store <- [id \in Ids |-> Durable(id)], pending <- op,
  mode <- IF pc \in {"idle", "busy"} THEN pc ELSE "off"
ImplementsStore == Store!Spec

\* When no operation is under way there is exactly one reserve page, erased to
\* the last word, and all others are in use ("one erased reserve page will be
\* maintained").
OneReserve ==
  pc = "idle" =>
    /\ pgRes \in Pages /\ flash[pgRes] = BlankPage
    /\ \A pg \in Pages \ {pgRes} : flash[pg].active /\ ~flash[pg].xfer

\* The pages are well formed, none over-full, and one is the reserve.
PagesOK == TypeOK /\ OneReserve

\* osal_nv_read reads a hot item without looking for it: the place it has in
\* mind is the place where the item is, whatever was compacted since.
HotIsWhereItIs == \A id \in HotIds : hot[id] # {} => hot[id] = FindItem(id)

\* When no operation is under way every item has at most one copy, and that one
\* findItem finds without looking at checksums, and a read of a hot item without
\* looking at all.
ReadsAreDurable ==
  pc = "idle" =>
    /\ \A id \in Ids :
         /\ Cardinality(CopiesOf(id, FALSE) \cup CopiesOf(id, TRUE)) <= 1
         /\ \A p \in FindItem(id) : At(p).data = Durable(id)
         /\ FindItem(id) = {} => Durable(id) = Missing
    /\ HotIsWhereItIs

\* initNV comes to an end, unless the power fails again and again.
BootCompletes == <>[](pc # "off") => []<>(pc = "idle")

\* The page that initNV erases for want of a reserve page is the one that was
\* compacted: "such a page should only contain duplicate items", all of them
\* zeroed by then.
OnlyDuplicatesErased ==
  pc = "counted" /\ pgRes = PageNull =>
    \A i \in 1 .. Len(Items(MostLost)) : Items(MostLost)[i].zeroed

\* "Final pass to calculate page lost after invalidating duplicate items": when
\* initNV returns, pgLost counts every zeroed item.
LostIsExact == pc = "idle" => \A pg \in Pages : pgLost(pg) = Lost(pg)
=============================================================================
