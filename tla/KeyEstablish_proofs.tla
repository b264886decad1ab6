------------------------ MODULE KeyEstablish_proofs -------------------------
(***************************************************************************)
(* Proofs about KeyEstablish, for any number of devices, any tables, plans *)
(* and faults.                                                             *)
(***************************************************************************)
EXTENDS KeyEstablish, FiniteSetTheorems, WellFoundedInduction, TLAPS

LEMMA Sizes ==
  /\ INVALID_PARTNER_ADDR \notin Devices
  /\ MAX_KEY_ESTABLISHMENT_REC_ENTRY \in Nat /\ MAX_KEY_ESTABLISHMENT_REC_ENTRY > 0
  /\ RecExpiryTime \in Nat /\ 0 < RecExpiryTime /\ RecExpiryTime <= 255
  /\ {EKeyTime, EKeyTime + KeyTime, MacTime + KeyTime, MacTime * 2} \subseteq 1..RecExpiryTime
  /\ NoEntry \notin Entries /\ Entries \subseteq Nat
BY KeyEstablishAssumption DEF NoEntry, Entries
-----------------------------------------------------------------------------
(***************************************************************************)
(* Bags.                                                                   *)
(***************************************************************************)

LEMMA WithSet ==
  ASSUME NEW B, NEW x
  PROVE  BagToSet(With(B, x)) = BagToSet(B) \union {x}
BY DEF BagToSet, With, (+), SetToBag

LEMMA WithoutSet ==
  ASSUME NEW B, NEW x
  PROVE  BagToSet(Without(B, x)) \subseteq BagToSet(B)
BY DEF BagToSet, Without, (-), SetToBag

LEMMA EmptyBagSet == BagToSet(EmptyBag) = {}
BY DEF BagToSet, EmptyBag, SetToBag
-----------------------------------------------------------------------------
(***************************************************************************)
(* The first record that fits.                                             *)
(***************************************************************************)

\* Min of some natural numbers is the least of them.
LEMMA MinIsLeast ==
  ASSUME NEW Some, Some \subseteq Nat, Some # {}
  PROVE  Min(Some) \in Some /\ \A x \in Some : Min(Some) <= x
<1>1. PICK k \in Some : \A j \in Some : ~(<<j, k>> \in OpToRel(<, Nat))
  BY WFMin, NatLessThanWellFounded
<1>2. \A j \in Some : ~(j < k)
  <2> SUFFICES ASSUME NEW j \in Some, j < k PROVE FALSE
    OBVIOUS
  <2> QED
    BY <1>1 DEF OpToRel
<1>3. \A j \in Some : k <= j
  BY <1>2
<1> QED
  BY <1>3 DEF Min

LEMMA FirstInSet ==
  ASSUME NEW S, S \subseteq Entries
  PROVE  /\ S = {} => FirstIn(S) = NoEntry
         /\ S # {} => FirstIn(S) \in S
BY MinIsLeast, Sizes DEF FirstIn
-----------------------------------------------------------------------------
(***************************************************************************)
(* Records.  Ephemeral keys are counted by "gen", the values of generated. *)
(***************************************************************************)

\* The ephemeral keys a device has generated.
EphemeralsOf(gen, d) == {<<d, n>> : n \in 1 .. gen[d]}

AnyKey == {<<d, n>> : d \in Devices, n \in Nat} \union {NoKey}

RecSet ==
  [partner : Devices \union {INVALID_PARTNER_ADDR},
   role : {"Initiator", "Responder"}, state : States, age : 1..RecExpiryTime,
   ePublic : AnyKey, remote : AnyKey]

\* A record of the device d: the keys in it are its own and its partner's, and
\* those its state needs are there.
RecOK(gen, d, r) ==
  /\ r.partner # d
  /\ r.partner = INVALID_PARTNER_ADDR <=> r.state = "Idle"
  /\ r.ePublic # NoKey => r.ePublic \in EphemeralsOf(gen, d)
  /\ r.remote # NoKey =>
       r.partner \in Devices /\ r.remote \in EphemeralsOf(gen, r.partner)
  /\ r.state # "Idle" /\ r.role = "Initiator" => r.ePublic # NoKey
  /\ r.state \in {"KeyCalculatePending", "ConfirmPending"} =>
       r.ePublic # NoKey /\ r.remote # NoKey

Tables == [Entries -> RecSet]

\* No two records are of one partner.
Unique(table) ==
  \A i, j \in Entries :
    table[i].partner = table[j].partner /\ table[i].partner # INVALID_PARTNER_ADDR
      => i = j

TableOK(gen, d, table) ==
  /\ table \in Tables /\ Unique(table)
  /\ \A i \in Entries : RecOK(gen, d, table[i])

NoRecordOf(table, p) == \A i \in Entries : table[i].partner # p

\* The fields of a record in use.
SetAge(r, a) == [r EXCEPT !.age = a]
Set(r, s, a) == [r EXCEPT !.state = s, !.age = a]
SetRemote(r, s, k) == [r EXCEPT !.state = s, !.remote = k]
SetBoth(r, s, k, e) == [r EXCEPT !.state = s, !.remote = k, !.ePublic = e]

LEMMA Fields ==
  ASSUME NEW r \in RecSet
  PROVE  /\ r.partner \in Devices \union {INVALID_PARTNER_ADDR}
         /\ r.role \in {"Initiator", "Responder"} /\ r.state \in States
         /\ r.age \in 1..RecExpiryTime /\ r.ePublic \in AnyKey /\ r.remote \in AnyKey
BY DEF RecSet

LEMMA IdleFields ==
  /\ IdleRec.partner = INVALID_PARTNER_ADDR /\ IdleRec.role = "Initiator"
  /\ IdleRec.state = "Idle" /\ IdleRec.age = RecExpiryTime
  /\ IdleRec.ePublic = NoKey /\ IdleRec.remote = NoKey
  /\ IdleRec \in RecSet
<1>1. NoKey \in AnyKey /\ "Idle" \in States /\ RecExpiryTime \in 1..RecExpiryTime
  BY Sizes DEF AnyKey, States
<1> QED
  BY <1>1 DEF IdleRec, RecSet

LEMMA IdleOK == ASSUME NEW gen, NEW d \in Devices PROVE RecOK(gen, d, IdleRec)
BY IdleFields, Sizes DEF RecOK

LEMMA SetAgeFields ==
  ASSUME NEW r \in RecSet, NEW a \in 1..RecExpiryTime
  PROVE  /\ SetAge(r, a).partner = r.partner /\ SetAge(r, a).role = r.role
         /\ SetAge(r, a).state = r.state /\ SetAge(r, a).ePublic = r.ePublic
         /\ SetAge(r, a).remote = r.remote
         /\ SetAge(r, a) \in RecSet
BY DEF SetAge, RecSet

LEMMA SetFields ==
  ASSUME NEW r \in RecSet, NEW s \in States, NEW a \in 1..RecExpiryTime
  PROVE  /\ Set(r, s, a).partner = r.partner /\ Set(r, s, a).role = r.role
         /\ Set(r, s, a).state = s /\ Set(r, s, a).ePublic = r.ePublic
         /\ Set(r, s, a).remote = r.remote
         /\ Set(r, s, a) \in RecSet
BY DEF Set, RecSet

LEMMA SetRemoteFields ==
  ASSUME NEW r \in RecSet, NEW s \in States, NEW k \in AnyKey
  PROVE  /\ SetRemote(r, s, k).partner = r.partner
         /\ SetRemote(r, s, k).role = r.role
         /\ SetRemote(r, s, k).state = s /\ SetRemote(r, s, k).ePublic = r.ePublic
         /\ SetRemote(r, s, k).remote = k
         /\ SetRemote(r, s, k) \in RecSet
BY DEF SetRemote, RecSet

LEMMA SetBothFields ==
  ASSUME NEW r \in RecSet, NEW s \in States, NEW k \in AnyKey, NEW e \in AnyKey
  PROVE  /\ SetBoth(r, s, k, e).partner = r.partner
         /\ SetBoth(r, s, k, e).role = r.role
         /\ SetBoth(r, s, k, e).state = s /\ SetBoth(r, s, k, e).ePublic = e
         /\ SetBoth(r, s, k, e).remote = k
         /\ SetBoth(r, s, k, e) \in RecSet
BY DEF SetBoth, RecSet

LEMMA NewRecFields ==
  ASSUME NEW d \in Devices, NEW p \in Devices, generated[d] \in Nat
  PROVE  LET r == InitiatorRec(d, p)
         IN  /\ r.partner = p /\ r.role = "Initiator" /\ r.state = "InitiatePending"
             /\ r.ePublic = NewEphemeral(d) /\ r.remote = NoKey
             /\ r \in RecSet
<1>1. NewEphemeral(d) \in AnyKey /\ NoKey \in AnyKey /\ "InitiatePending" \in States
  BY DEF NewEphemeral, AnyKey, States
<1>2. RecExpiryTime \in 1..RecExpiryTime
  BY Sizes
<1> QED
  BY <1>1, <1>2 DEF InitiatorRec, IdleRec, RecSet
-----------------------------------------------------------------------------
(***************************************************************************)
(* Tables.                                                                 *)
(***************************************************************************)

\* The record of a partner is the one there is.
LEMMA IndexOfPartner ==
  ASSUME NEW table, NEW p
  PROVE  LET i == GetIndex(table, p)
         IN  /\ i \in Entries => table[i].partner = p
             /\ i \notin Entries => NoRecordOf(table, p) /\ i = NoEntry
<1> DEFINE Of == {i \in Entries : table[i].partner = p}
<1>1. Of \subseteq Entries /\ GetIndex(table, p) = FirstIn(Of)
  BY DEF GetIndex
<1>2. Of = {} => GetIndex(table, p) = NoEntry /\ NoRecordOf(table, p)
  BY <1>1, FirstInSet DEF NoRecordOf
<1>3. Of # {} => GetIndex(table, p) \in Of
  BY <1>1, FirstInSet
<1> QED
  BY <1>2, <1>3, Sizes

LEMMA IndexOfState ==
  ASSUME NEW table, NEW s, GetIndex_State(table, s) \in Entries
  PROVE  table[GetIndex_State(table, s)].state = s
<1> DEFINE Of == {i \in Entries : table[i].state = s}
<1>1. Of \subseteq Entries /\ GetIndex_State(table, s) = FirstIn(Of)
  BY DEF GetIndex_State
<1>2. Of # {}
  BY <1>1, FirstInSet, Sizes
<1>3. GetIndex_State(table, s) \in Of
  BY <1>1, <1>2, FirstInSet
<1> QED
  BY <1>3

\* A record is put where it is the only one of its partner.
LEMMA PutRecord ==
  ASSUME NEW gen, NEW d \in Devices, NEW table, TableOK(gen, d, table),
         NEW i \in Entries, NEW r \in RecSet, RecOK(gen, d, r),
         \/ r.partner = INVALID_PARTNER_ADDR
         \/ r.partner = table[i].partner
         \/ NoRecordOf(table, r.partner)
  PROVE  TableOK(gen, d, [table EXCEPT ![i] = r])
<1> DEFINE new == [table EXCEPT ![i] = r]
<1>1. /\ new \in Tables /\ new[i] = r
      /\ \A j \in Entries : j # i => new[j] = table[j]
  BY DEF TableOK, Tables
<1>2. \A j \in Entries : RecOK(gen, d, new[j])
  BY <1>1 DEF TableOK
<1>3. Unique(new)
  BY <1>1 DEF TableOK, Unique, NoRecordOf
<1> QED
  BY <1>1, <1>2, <1>3 DEF TableOK

\* A record is given up.
LEMMA ForgetOK ==
  ASSUME NEW gen, NEW d \in Devices, NEW table, TableOK(gen, d, table), NEW p \in Devices
  PROVE  /\ TableOK(gen, d, Forget(table, p)) /\ NoRecordOf(Forget(table, p), p)
         /\ \A i \in Entries : GetIndex(table, p) = i
              => Forget(table, p) = [table EXCEPT ![i] = IdleRec]
<1> DEFINE i == GetIndex(table, p)
<1>1. CASE i \in Entries
  <2>1. Forget(table, p) = [table EXCEPT ![i] = IdleRec]
    BY <1>1 DEF Forget, ResetRec
  <2>2. TableOK(gen, d, Forget(table, p))
    <3> HIDE DEF i
    <3>1. RecOK(gen, d, IdleRec)
      BY IdleOK
    <3>2. TableOK(gen, d, [table EXCEPT ![i] = IdleRec])
      BY <1>1, <3>1, PutRecord, IdleFields
    <3> QED
      BY <2>1, <3>2
  <2>3. table[i].partner = p /\ p # INVALID_PARTNER_ADDR
    BY <1>1, IndexOfPartner, Sizes
  <2>4. NoRecordOf(Forget(table, p), p)
    <3> SUFFICES ASSUME NEW j \in Entries PROVE Forget(table, p)[j].partner # p
      BY DEF NoRecordOf
    <3>1. CASE j = i
      BY <1>1, <2>1, <2>3, <3>1, IdleFields DEF TableOK, Tables
    <3>2. CASE j # i
      BY <1>1, <2>1, <2>3, <3>2 DEF TableOK, Tables, Unique
    <3> QED
      BY <3>1, <3>2
  <2> QED
    BY <2>1, <2>2, <2>4
<1>2. CASE i \notin Entries
  BY <1>2, IndexOfPartner DEF Forget, ResetRec
<1> QED
  BY <1>1, <1>2
\* A table in which all records have become older, and those of age 0 are gone.
LEMMA AgedOK ==
  ASSUME NEW gen, NEW d \in Devices, NEW table, TableOK(gen, d, table)
  PROVE  TableOK(gen, d, AgedTable(table))
<1> DEFINE new == AgedTable(table)
<1>1. ASSUME NEW i \in Entries
      PROVE  /\ new[i] \in RecSet /\ RecOK(gen, d, new[i])
             /\ new[i].partner \in {table[i].partner, INVALID_PARTNER_ADDR}
  <2> DEFINE age == (table[i].age + 255) % 256
  <2>1. table[i] \in RecSet /\ RecOK(gen, d, table[i])
    BY DEF TableOK, Tables
  <2>2. age # 0 => age \in 1..RecExpiryTime
    BY <2>1, Fields, Sizes
  <2>3. \/ new[i] = table[i]
        \/ new[i] = IdleRec
        \/ age # 0 /\ new[i] = [table[i] EXCEPT !.age = age]
    BY DEF AgedTable
  <2>4. CASE age # 0 /\ new[i] = [table[i] EXCEPT !.age = age]
    <3>1. new[i] = SetAge(table[i], age)
      BY <2>4 DEF SetAge
    <3>2. age \in 1..RecExpiryTime
      BY <2>2, <2>4
    <3> HIDE DEF age, new
    <3>3. /\ new[i].partner = table[i].partner /\ new[i].role = table[i].role
          /\ new[i].state = table[i].state /\ new[i].ePublic = table[i].ePublic
          /\ new[i].remote = table[i].remote /\ new[i] \in RecSet
      BY <2>1, <3>1, <3>2, SetAgeFields
    <3> QED
      BY <2>1, <3>3 DEF RecOK
  <2>5. CASE new[i] = IdleRec
    BY <2>5, IdleOK, IdleFields
  <2> QED
    BY <2>1, <2>3, <2>4, <2>5
<1>2. new = [i \in Entries |-> new[i]]
  BY DEF AgedTable
<1> HIDE DEF new
<1>3. new \in Tables
  BY <1>1, <1>2 DEF Tables
<1>4. Unique(new)
  BY <1>1 DEF Unique, TableOK
<1> QED
  BY <1>1, <1>3, <1>4 DEF TableOK, new
-----------------------------------------------------------------------------
(***************************************************************************)
(* The inductive invariant.                                                *)
(***************************************************************************)

\* A key that two devices derive.
KeyPair(gen, k) ==
  \E d, p \in Devices : d # p /\
    \E x \in EphemeralsOf(gen, d), y \in EphemeralsOf(gen, p) : k = {x, y}

MsgOK(gen, m) ==
  /\ m.from \in Devices /\ m.to \in Devices /\ m.from # m.to
  /\ m.cmd \in {"EDataReq", "EDataRsp"} => m.body \in EphemeralsOf(gen, m.from)

\* p had no room for a link key with d, or has stored k for it.
NoRoom(p, d) ==
  /\ linkKey[p][d] = {}
  /\ ~(Cardinality({q \in Devices : linkKey[p][q] # {}}) < KeyRoom)

Confirmed(p, d, k) == NoRoom(p, d) \/ <<p, d, "Responder", k>> \in stored

Counts ==
  /\ generated \in [Devices -> Nat]
  /\ timers \in [Devices -> SUBSET Events] /\ events \in [Devices -> SUBSET Events]
  /\ \A s \in DOMAIN starts : s \in Devices \X Devices /\ s[1] # s[2]

TablesOK ==
  /\ keyEstablishRec \in [Devices -> Tables]
  /\ \A d \in Devices : TableOK(generated, d, keyEstablishRec[d])

LinksOK ==
  /\ linkKey \in [Devices -> [Devices -> SUBSET AnyKey]]
  /\ \A d, p \in Devices : linkKey[d][p] # {} => KeyPair(generated, linkKey[d][p])

MessagesOK == \A m \in BagToSet(net) : MsgOK(generated, m)

\* A confirmation on its way stands for a key that is stored.
ConfirmationsOK ==
  \A m \in BagToSet(net) :
    m.cmd = "ConfirmRsp" /\ m.body # Garbage
      => Confirmed(m.from, m.to, {m.body[2], m.body[3]})

StoredOK ==
  \A s \in stored :
    /\ s[1] \in Devices /\ s[2] \in Devices
    /\ s[3] = "Initiator" => Confirmed(s[2], s[1], s[4])

KeyInv == Counts /\ TablesOK /\ LinksOK /\ MessagesOK /\ ConfirmationsOK /\ StoredOK

\* Ephemeral keys are only added.
Grows(gen, more) ==
  \A d \in Devices : gen[d] \in Nat /\ more[d] \in Nat /\ gen[d] <= more[d]

LEMMA KeysGrow ==
  ASSUME NEW gen, NEW more, Grows(gen, more), NEW d \in Devices
  PROVE  EphemeralsOf(gen, d) \subseteq EphemeralsOf(more, d)
<1>1. 1 .. gen[d] \subseteq 1 .. more[d]
  BY DEF Grows
<1> QED
  BY <1>1 DEF EphemeralsOf

LEMMA TableGrows ==
  ASSUME NEW gen, NEW more, Grows(gen, more), NEW d \in Devices, NEW table,
         TableOK(gen, d, table)
  PROVE  TableOK(more, d, table)
BY KeysGrow DEF TableOK, RecOK

LEMMA LinksStay ==
  ASSUME LinksOK, UNCHANGED linkKey, Grows(generated, generated')
  PROVE  LinksOK'
<1>1. ASSUME NEW k, KeyPair(generated, k) PROVE KeyPair(generated', k)
  BY <1>1, KeysGrow DEF KeyPair
<1> QED
  BY <1>1 DEF LinksOK

\* The messages on their way are old ones and some of S.
NetFrom(S) == BagToSet(net') \subseteq BagToSet(net) \union S

LEMMA MessagesStay ==
  ASSUME MessagesOK, Grows(generated, generated'), NEW S, NetFrom(S),
         \A x \in S : MsgOK(generated', x)
  PROVE  MessagesOK'
<1>1. ASSUME NEW m, MsgOK(generated, m) PROVE MsgOK(generated', m)
  BY <1>1, KeysGrow DEF MsgOK
<1> QED
  BY <1>1 DEF MessagesOK, NetFrom

LEMMA TablesStay ==
  ASSUME TablesOK, Grows(generated, generated'), NEW d \in Devices, NEW table,
         TableOK(generated', d, table), Put(d, table)
  PROVE  TablesOK'
<1>1. ASSUME NEW e \in Devices PROVE TableOK(generated', e, keyEstablishRec'[e])
  BY TableGrows DEF TablesOK, Put
<1>2. keyEstablishRec' \in [Devices -> Tables]
  BY DEF TablesOK, TableOK, Put
<1> QED
  BY <1>1, <1>2 DEF TablesOK

\* A step that writes no link key and confirms none.
LEMMA ConfirmedStays ==
  ASSUME ConfirmationsOK, StoredOK, UNCHANGED <<linkKey, stored>>, NEW S, NetFrom(S),
         \A x \in S : x.cmd # "ConfirmRsp" \/ x.body = Garbage
  PROVE  ConfirmationsOK' /\ StoredOK'
<1>1. ASSUME NEW p, NEW d, NEW k, Confirmed(p, d, k) PROVE Confirmed(p, d, k)'
  BY <1>1 DEF Confirmed, NoRoom
<1> QED
  BY <1>1 DEF ConfirmationsOK, StoredOK, NetFrom

\* A step of one device on one table.
LEMMA TableStep ==
  ASSUME KeyInv, Counts', Grows(generated, generated'), UNCHANGED <<linkKey, stored>>,
         NEW d \in Devices, NEW table, TableOK(generated', d, table), Put(d, table),
         NEW S, NetFrom(S),
         \A x \in S : MsgOK(generated', x) /\ (x.cmd # "ConfirmRsp" \/ x.body = Garbage)
  PROVE  KeyInv'
BY TablesStay, LinksStay, MessagesStay, ConfirmedStays DEF KeyInv
-----------------------------------------------------------------------------
(***************************************************************************)
(* What the steps have in common.                                          *)
(***************************************************************************)

LEMMA Generates ==
  ASSUME Counts, NEW d \in Devices, Generate(d)
  PROVE  /\ generated' \in [Devices -> Nat] /\ Grows(generated, generated')
         /\ NewEphemeral(d) \in EphemeralsOf(generated', d)
         /\ NewEphemeral(d) \in AnyKey /\ NewEphemeral(d) # NoKey
<1>1. generated'[d] = generated[d] + 1 /\ generated[d] \in Nat
  BY DEF Counts, Generate
<1>2. generated' \in [Devices -> Nat] /\ Grows(generated, generated')
  BY DEF Counts, Generate, Grows
<1>3. generated[d] + 1 \in 1 .. generated'[d] /\ generated[d] + 1 \in Nat
  BY <1>1
<1>4. NewEphemeral(d) \in EphemeralsOf(generated', d) /\ NewEphemeral(d) \in AnyKey
  BY <1>3 DEF NewEphemeral, EphemeralsOf, AnyKey
<1>5. NewEphemeral(d) # NoKey
  BY DEF NewEphemeral, NoKey
<1> QED
  BY <1>2, <1>4, <1>5

LEMMA GeneratesNone ==
  ASSUME Counts, UNCHANGED generated
  PROVE  Grows(generated, generated') /\ generated' \in [Devices -> Nat]
BY DEF Counts, Grows

\* An ephemeral key is one.
LEMMA EphemeralIsKey ==
  ASSUME NEW gen, NEW d \in Devices, gen[d] \in Nat
  PROVE  \A k \in EphemeralsOf(gen, d) : k \in AnyKey /\ k # NoKey
<1> SUFFICES ASSUME NEW n \in 1 .. gen[d] PROVE <<d, n>> \in AnyKey /\ <<d, n>> # NoKey
  BY DEF EphemeralsOf
<1>1. n \in Nat
  OBVIOUS
<1>2. <<d, n>> # <<>>
  OBVIOUS
<1> QED
  BY <1>1, <1>2 DEF AnyKey, NoKey

\* The table of a device.
LEMMA TableOf ==
  ASSUME KeyInv, Grows(generated, generated'), NEW d \in Devices
  PROVE  /\ TableOK(generated, d, keyEstablishRec[d])
         /\ TableOK(generated', d, keyEstablishRec[d])
         /\ \A i \in Entries : keyEstablishRec[d][i] \in RecSet
                            /\ RecOK(generated, d, keyEstablishRec[d][i])
                            /\ RecOK(generated', d, keyEstablishRec[d][i])
<1>1. TableOK(generated, d, keyEstablishRec[d])
  BY DEF KeyInv, TablesOK
<1>2. TableOK(generated', d, keyEstablishRec[d])
  BY <1>1, TableGrows
<1> QED
  BY <1>1, <1>2 DEF TableOK, Tables

\* A change of one record.
LEMMA ChangeIsPut ==
  ASSUME KeyInv, NEW d \in Devices, NEW i \in Entries, NEW r, Change(d, i, r)
  PROVE  Put(d, [keyEstablishRec[d] EXCEPT ![i] = r])
BY DEF Change, Put

\* A change of one record, that leaves its partner or makes it idle.
LEMMA RecordStep ==
  ASSUME KeyInv, Counts', Grows(generated, generated'), UNCHANGED <<linkKey, stored>>,
         NEW d \in Devices, NEW i \in Entries, NEW r \in RecSet, Change(d, i, r),
         RecOK(generated', d, r),
         r.partner \in {keyEstablishRec[d][i].partner, INVALID_PARTNER_ADDR},
         NEW S, NetFrom(S),
         \A x \in S : MsgOK(generated', x) /\ (x.cmd # "ConfirmRsp" \/ x.body = Garbage)
  PROVE  KeyInv'
<1>1. TableOK(generated', d, [keyEstablishRec[d] EXCEPT ![i] = r])
  BY TableOf, PutRecord
<1>2. Put(d, [keyEstablishRec[d] EXCEPT ![i] = r])
  BY ChangeIsPut
<1> QED
  BY <1>1, <1>2, TableStep

\* The record a message is meant for.
LEMMA Expected ==
  ASSUME NEW table, NEW p, NEW role, NEW state, Expects(table, p, role, state)
  PROVE  LET i == GetIndex(table, p)
         IN  /\ i \in Entries /\ table[i].partner = p /\ table[i].role = role
             /\ table[i].state = state
BY IndexOfPartner DEF Expects

\* The frame after a message is taken, sent or answered.
LEMMA NetSteps ==
  ASSUME NEW m
  PROVE  /\ Take(m) => NetFrom({})
         /\ Send(m) => NetFrom({m})
         /\ UNCHANGED net => NetFrom({})
         /\ \A cmd, body : Answer(m, cmd, body) => NetFrom({Msg(m.to, m.from, cmd, body)})
<1>1. ASSUME NEW cmd, NEW body, Answer(m, cmd, body)
      PROVE  NetFrom({Msg(m.to, m.from, cmd, body)})
  BY <1>1, WithSet, WithoutSet DEF Answer, NetFrom
<1> QED
  BY <1>1, WithSet, WithoutSet DEF Take, Send, NetFrom

\* A message other than a confirmation and those that carry an ephemeral key.
LEMMA PlainMsg ==
  ASSUME NEW gen, NEW d \in Devices, NEW p \in Devices, d # p, NEW cmd, NEW body,
         cmd \notin {"EDataReq", "EDataRsp"}
  PROVE  /\ MsgOK(gen, Msg(d, p, cmd, body))
         /\ Msg(d, p, cmd, body).cmd = cmd /\ Msg(d, p, cmd, body).body = body
BY DEF MsgOK, Msg

LEMMA EphemeralMsg ==
  ASSUME NEW gen, NEW d \in Devices, NEW p \in Devices, d # p,
         NEW cmd \in {"EDataReq", "EDataRsp"}, NEW body \in EphemeralsOf(gen, d)
  PROVE  MsgOK(gen, Msg(d, p, cmd, body)) /\ Msg(d, p, cmd, body).cmd # "ConfirmRsp"
BY DEF MsgOK, Msg

\* A message that no record waits for.
LEMMA UnexpectedStep ==
  ASSUME KeyInv, Counts', UNCHANGED <<generated, linkKey, stored>>,
         NEW m \in BagToSet(net), NEW role, NEW state, Unexpected(m, role, state)
  PROVE  KeyInv'
<1> DEFINE x == Msg(m.to, m.from, "Terminate", <<>>)
<1>1. m.from \in Devices /\ m.to \in Devices /\ m.from # m.to
  BY DEF KeyInv, MessagesOK, MsgOK
<1>2. Grows(generated, generated')
  BY GeneratesNone DEF KeyInv
<1>3. TableOK(generated', m.to, Forget(keyEstablishRec[m.to], m.from))
  BY <1>1, <1>2, TableOf, ForgetOK
<1>4. NetFrom({x}) /\ MsgOK(generated', x) /\ x.cmd # "ConfirmRsp"
  <2>1. Answer(m, "Terminate", <<>>)
    BY DEF Unexpected, Terminate
  <2>2. NetFrom({x})
    BY <2>1, NetSteps
  <2> QED
    BY <1>1, <2>2, PlainMsg
<1>5. Put(m.to, Forget(keyEstablishRec[m.to], m.from))
  BY DEF Unexpected
<1> HIDE DEF x
<1> QED
  BY <1>1, <1>2, <1>3, <1>4, <1>5, TableStep
\* The timers that run after a step.
LEMMA TimerSteps ==
  ASSUME Counts, NEW d \in Devices
  PROVE  /\ Start(d, "aging") => timers' \in [Devices -> SUBSET Events]
         /\ Stop(d, "aging") => timers' \in [Devices -> SUBSET Events]
         /\ UNCHANGED timers => timers' \in [Devices -> SUBSET Events]
         /\ \A e \in Events :
              timers' = [timers EXCEPT ![d] = (@ \ {"aging"}) \union {e}]
                => timers' \in [Devices -> SUBSET Events]
BY DEF Counts, Start, Stop, Events

LEMMA CountsStay ==
  ASSUME Counts, timers' \in [Devices -> SUBSET Events], UNCHANGED events,
         DOMAIN starts' = DOMAIN starts, generated' \in [Devices -> Nat]
  PROVE  Counts'
BY DEF Counts
-----------------------------------------------------------------------------
(***************************************************************************)
(* The application.                                                        *)
(***************************************************************************)

\* An application starts with a partner: its table without a record of it.
LEMMA CallOK ==
  ASSUME KeyInv, NEW s \in DOMAIN starts, Calls(s[1], s[2]), Grows(generated, generated')
  PROVE  LET d == s[1]  p == s[2]  table == Forget(keyEstablishRec[d], p)
         IN  /\ d \in Devices /\ p \in Devices /\ d # p /\ DOMAIN starts' = DOMAIN starts
             /\ UNCHANGED <<events, linkKey, stored>>
             /\ TableOK(generated', d, table) /\ NoRecordOf(table, p)
<1>1. s[1] \in Devices /\ s[2] \in Devices /\ s[1] # s[2]
  BY DEF KeyInv, Counts
<1>2. TableOK(generated', s[1], keyEstablishRec[s[1]])
  BY <1>1, TableOf
<1>3. /\ TableOK(generated', s[1], Forget(keyEstablishRec[s[1]], s[2]))
      /\ NoRecordOf(Forget(keyEstablishRec[s[1]], s[2]), s[2])
  BY <1>1, <1>2, ForgetOK
<1> QED
  BY <1>1, <1>3 DEF Calls

\* The new record of an initiator.
LEMMA InitiatorTable ==
  ASSUME KeyInv, NEW s \in DOMAIN starts, Calls(s[1], s[2]), Generate(s[1]),
         NEW i, i = GetIndex(Forget(keyEstablishRec[s[1]], s[2]), INVALID_PARTNER_ADDR),
         i \in Entries
  PROVE  TableOK(generated', s[1],
           [Forget(keyEstablishRec[s[1]], s[2]) EXCEPT ![i] = InitiatorRec(s[1], s[2])])
<1> DEFINE d == s[1]  p == s[2]  table == Forget(keyEstablishRec[d], p)
           r == InitiatorRec(d, p)
<1>1. s[1] \in Devices /\ s[2] \in Devices /\ s[1] # s[2] /\ Counts
  BY DEF KeyInv, Counts
<1>2. /\ Grows(generated, generated') /\ NewEphemeral(d) \in EphemeralsOf(generated', d)
      /\ NewEphemeral(d) # NoKey /\ generated[d] \in Nat
  BY <1>1, Generates DEF Counts
<1>3. TableOK(generated', d, table) /\ NoRecordOf(table, p)
  BY <1>2, CallOK
<1>4. /\ r.partner = p /\ r.role = "Initiator" /\ r.state = "InitiatePending"
      /\ r.ePublic = NewEphemeral(d) /\ r.remote = NoKey /\ r \in RecSet
  BY <1>1, <1>2, NewRecFields
<1> HIDE DEF d, p, table, r
<1>5. RecOK(generated', d, r)
  BY <1>1, <1>2, <1>4, Sizes DEF RecOK, d, p
<1>6. TableOK(generated', d, [table EXCEPT ![i] = r])
  BY <1>1, <1>3, <1>4, <1>5, PutRecord DEF d
<1> QED
  BY <1>6 DEF d, p, table, r

LEMMA InitiateStep ==
  ASSUME KeyInv, NEW s \in DOMAIN starts,
         \/ Initiate(s[1], s[2]) \/ InitiateNoRecord(s[1], s[2])
         \/ InitiateNoCertificate(s[1], s[2])
  PROVE  KeyInv'
<1> DEFINE d == s[1]  p == s[2]  table == Forget(keyEstablishRec[d], p)
           i == GetIndex(table, INVALID_PARTNER_ADDR)
           new == [table EXCEPT ![i] = InitiatorRec(d, p)]
           x == Msg(d, p, "Initiate", <<>>)
<1>1. d \in Devices /\ p \in Devices /\ d # p /\ Counts
  BY DEF KeyInv, Counts
<1>2. Calls(d, p)
  BY DEF Initiate, InitiateNoRecord, InitiateNoCertificate
<1>3. CASE Initiate(d, p) \/ InitiateNoCertificate(d, p)
  <2>1. i \in Entries /\ Put(d, new) /\ Generate(d)
    BY <1>3 DEF Initiate, InitiateNoCertificate
  <2>2. TableOK(generated', d, new)
    BY <1>2, <2>1, InitiatorTable
  <2>3. Grows(generated, generated') /\ generated' \in [Devices -> Nat]
    BY <1>1, <2>1, Generates
  <2>4. timers' \in [Devices -> SUBSET Events]
    BY <1>1, <1>3, TimerSteps DEF Initiate, InitiateNoCertificate
  <2>5. UNCHANGED <<events, linkKey, stored>> /\ DOMAIN starts' = DOMAIN starts
    BY <1>2, <2>3, CallOK
  <2>6. Counts'
    BY <1>1, <2>3, <2>4, <2>5, CountsStay
  <2>7. NetFrom({x})
    BY <1>3, NetSteps DEF Initiate, InitiateNoCertificate, NetFrom
  <2>8. MsgOK(generated', x) /\ x.cmd # "ConfirmRsp"
    BY <1>1 DEF MsgOK, Msg
  <2> HIDE DEF d, new, x
  <2> QED
    BY <1>1, <2>1, <2>2, <2>3, <2>5, <2>6, <2>7, <2>8, TableStep
<1>4. CASE InitiateNoRecord(d, p)
  <2>1. Put(d, table) /\ UNCHANGED <<timers, net, generated>>
    BY <1>4 DEF InitiateNoRecord
  <2>2. Grows(generated, generated') /\ generated' \in [Devices -> Nat]
    BY <1>1, <2>1, GeneratesNone
  <2>3. /\ UNCHANGED <<events, linkKey, stored>> /\ DOMAIN starts' = DOMAIN starts
        /\ TableOK(generated', d, table)
    BY <1>2, <2>2, CallOK
  <2>4. timers' \in [Devices -> SUBSET Events]
    BY <1>1, <2>1, TimerSteps
  <2>5. Counts'
    BY <1>1, <2>2, <2>3, <2>4, CountsStay
  <2>6. NetFrom({})
    BY <2>1, NetSteps
  <2> HIDE DEF d, table
  <2> QED
    BY <1>1, <2>1, <2>2, <2>3, <2>5, <2>6, TableStep
<1> QED
  BY <1>3, <1>4
-----------------------------------------------------------------------------
(***************************************************************************)
(* The messages.                                                           *)
(***************************************************************************)

LEMMA Ends ==
  ASSUME KeyInv, NEW m \in BagToSet(net)
  PROVE  /\ m.from \in Devices /\ m.to \in Devices /\ m.from # m.to /\ Counts
         /\ MsgOK(generated, m)
BY DEF KeyInv, MessagesOK, MsgOK

\* The new record of a responder.
ResponderRec(p) ==
  [IdleRec EXCEPT !.partner = p, !.role = "Responder", !.state = "EDataPending",
                  !.age = EphDataGenTime("Responder")]

LEMMA ResponderFields ==
  ASSUME NEW p \in Devices
  PROVE  LET r == ResponderRec(p)
         IN  /\ r.partner = p /\ r.role = "Responder" /\ r.state = "EDataPending"
             /\ r.ePublic = NoKey /\ r.remote = NoKey /\ r \in RecSet
<1>1. NoKey \in AnyKey /\ "EDataPending" \in States
  BY DEF AnyKey, States
<1>2. EphDataGenTime("Responder") \in 1..RecExpiryTime
  BY Sizes DEF EphDataGenTime
<1> QED
  BY <1>1, <1>2 DEF ResponderRec, IdleRec, RecSet

LEMMA ReceiveInitiateStep ==
  ASSUME KeyInv, NEW m \in BagToSet(net), ReceiveInitiate(m)
  PROVE  KeyInv'
<1> DEFINE d == m.to  p == m.from  table == Forget(keyEstablishRec[d], p)
           i == GetIndex(table, INVALID_PARTNER_ADDR)
           new == [table EXCEPT ![i] = ResponderRec(p)]
           rsp == Msg(d, p, "InitiateRsp", <<>>)
           stop == Msg(d, p, "Terminate", <<>>)
<1>1. d \in Devices /\ p \in Devices /\ d # p /\ Counts
  BY Ends
<1>2. UNCHANGED <<generated, linkKey, stored, events, starts>>
  BY DEF ReceiveInitiate, Arrives
<1>3. Grows(generated, generated') /\ generated' \in [Devices -> Nat]
  BY <1>1, <1>2, GeneratesNone
<1>4. TableOK(generated', d, table) /\ NoRecordOf(table, p)
  BY <1>1, <1>3, TableOf, ForgetOK
<1>5. timers' \in [Devices -> SUBSET Events]
  BY <1>1, TimerSteps DEF ReceiveInitiate
<1>6. Counts'
  BY <1>1, <1>2, <1>3, <1>5, CountsStay
<1>7. /\ MsgOK(generated', rsp) /\ rsp.cmd # "ConfirmRsp"
      /\ MsgOK(generated', stop) /\ stop.cmd # "ConfirmRsp"
  BY <1>1 DEF MsgOK, Msg
<1>8. CASE i \in Entries /\ Put(d, new) /\ Answer(m, "InitiateRsp", <<>>)
  <2>1. NetFrom({rsp})
    BY <1>8, NetSteps
  <2>2. RecOK(generated', d, ResponderRec(p))
    BY <1>1, ResponderFields, Sizes DEF RecOK
  <2>3. ResponderRec(p).partner = p /\ ResponderRec(p) \in RecSet
    BY <1>1, ResponderFields
  <2> HIDE DEF d, p, table, i, rsp
  <2>4. TableOK(generated', d, new)
    BY <1>1, <1>4, <1>8, <2>2, <2>3, PutRecord
  <2> HIDE DEF new
  <2> QED
    BY <1>1, <1>2, <1>3, <1>6, <1>7, <1>8, <2>1, <2>4, TableStep
<1>9. CASE Put(d, table) /\ (Terminate(m) \/ Take(m))
  <2>1. NetFrom({stop})
    BY <1>9, NetSteps DEF Terminate, NetFrom
  <2> HIDE DEF d, table, stop
  <2> QED
    BY <1>1, <1>2, <1>3, <1>4, <1>6, <1>7, <1>9, <2>1, TableStep
<1> QED
  BY <1>8, <1>9 DEF ReceiveInitiate, ResponderRec

LEMMA ReceiveInitiateRspStep ==
  ASSUME KeyInv, NEW m \in BagToSet(net), ReceiveInitiateRsp(m)
  PROVE  KeyInv'
<1> DEFINE d == m.to  p == m.from  i == GetIndex(keyEstablishRec[d], p)
           r == keyEstablishRec[d][i]
           new == Set(r, "EDataPending", EphDataGenTime("Initiator"))
           req == Msg(d, p, "EDataReq", r.ePublic)
           stop == Msg(d, p, "Terminate", <<>>)
<1>1. d \in Devices /\ p \in Devices /\ d # p /\ Counts
  BY Ends
<1>2. UNCHANGED <<generated, linkKey, stored, events, starts>>
  BY DEF ReceiveInitiateRsp, Arrives
<1>3. Grows(generated, generated') /\ generated' \in [Devices -> Nat]
  BY <1>1, <1>2, GeneratesNone
<1>4. timers' \in [Devices -> SUBSET Events]
  BY <1>1, TimerSteps DEF ReceiveInitiateRsp
<1>5. Counts'
  BY <1>1, <1>2, <1>3, <1>4, CountsStay
<1>6. CASE Unexpected(m, "Initiator", "InitiatePending")
  BY <1>2, <1>5, <1>6, UnexpectedStep
<1>7. CASE Expects(keyEstablishRec[d], p, "Initiator", "InitiatePending")
  <2>1. /\ i \in Entries /\ r.partner = p /\ r.role = "Initiator"
        /\ r.state = "InitiatePending"
    BY <1>7, Expected
  <2>2. r \in RecSet /\ RecOK(generated', d, r)
    BY <1>1, <1>3, <2>1, TableOf
  <2>3. \/ Change(d, i, new) /\ Answer(m, "EDataReq", r.ePublic)
        \/ Change(d, i, IdleRec) /\ (Terminate(m) \/ Take(m))
    BY <1>7 DEF ReceiveInitiateRsp, Unexpected, Set
  <2>4. CASE Change(d, i, new) /\ Answer(m, "EDataReq", r.ePublic)
    <3>1. NetFrom({req})
      BY <2>4, NetSteps
    <3>2. "EDataPending" \in States /\ EphDataGenTime("Initiator") \in 1..RecExpiryTime
      BY Sizes DEF States, EphDataGenTime
    <3>3. r.ePublic \in EphemeralsOf(generated', d)
      BY <2>1, <2>2 DEF RecOK
    <3>4. MsgOK(generated', req) /\ req.cmd # "ConfirmRsp"
      BY <1>1, <3>3 DEF MsgOK, Msg
    <3> HIDE DEF d, p, i, r, req
    <3>5. /\ new.partner = r.partner /\ new.role = r.role /\ new.state = "EDataPending"
          /\ new.ePublic = r.ePublic /\ new.remote = r.remote /\ new \in RecSet
      BY <2>2, <3>2, SetFields
    <3> HIDE DEF new
    <3>6. RecOK(generated', d, new)
      BY <2>1, <2>2, <3>5 DEF RecOK
    <3> QED
      BY <1>1, <1>2, <1>3, <1>5, <2>1, <2>4, <3>1, <3>4, <3>5, <3>6, RecordStep DEF r
  <2>5. CASE Change(d, i, IdleRec) /\ (Terminate(m) \/ Take(m))
    <3>1. NetFrom({stop})
      BY <2>5, NetSteps DEF Terminate, NetFrom
    <3>2. MsgOK(generated', stop) /\ stop.cmd # "ConfirmRsp"
      BY <1>1 DEF MsgOK, Msg
    <3>3. RecOK(generated', d, IdleRec) /\ IdleRec \in RecSet
          /\ IdleRec.partner = INVALID_PARTNER_ADDR
      BY <1>1, IdleOK, IdleFields
    <3> HIDE DEF d, i, stop
    <3> QED
      BY <1>1, <1>2, <1>3, <1>5, <2>1, <2>5, <3>1, <3>2, <3>3, RecordStep
  <2> QED
    BY <2>3, <2>4, <2>5
<1> QED
  BY <1>6, <1>7 DEF ReceiveInitiateRsp
LEMMA ReceiveEphemeralDataReqStep ==
  ASSUME KeyInv, NEW m \in BagToSet(net), ReceiveEphemeralDataReq(m)
  PROVE  KeyInv'
<1> DEFINE d == m.to  p == m.from  i == GetIndex(keyEstablishRec[d], p)
           r == keyEstablishRec[d][i]
           new == SetBoth(r, "KeyCalculatePending", m.body, NewEphemeral(d))
<1>1. d \in Devices /\ p \in Devices /\ d # p /\ Counts
  BY Ends
<1>2. UNCHANGED <<linkKey, stored, events, starts>> /\ m.cmd = "EDataReq"
  BY DEF ReceiveEphemeralDataReq, Arrives
<1>3. timers' \in [Devices -> SUBSET Events]
  <2>1. "cmd" \in Events
    BY DEF Events
  <2> QED
    BY <1>1, <2>1, TimerSteps DEF ReceiveEphemeralDataReq
<1>4. CASE Unexpected(m, "Responder", "EDataPending") /\ UNCHANGED generated
  <2>1. Counts'
    BY <1>1, <1>2, <1>3, <1>4, GeneratesNone, CountsStay
  <2> QED
    BY <1>2, <1>4, <2>1, UnexpectedStep
<1>5. CASE /\ Expects(keyEstablishRec[d], p, "Responder", "EDataPending")
           /\ Change(d, i, new) /\ Generate(d) /\ Take(m)
  <2>1. /\ generated' \in [Devices -> Nat] /\ Grows(generated, generated')
        /\ NewEphemeral(d) \in EphemeralsOf(generated', d)
        /\ NewEphemeral(d) \in AnyKey /\ NewEphemeral(d) # NoKey
    BY <1>1, <1>5, Generates
  <2>2. Counts'
    BY <1>1, <1>2, <1>3, <2>1, CountsStay
  <2>3. i \in Entries /\ r.partner = p /\ r.role = "Responder"
    BY <1>5, Expected
  <2>4. r \in RecSet /\ RecOK(generated', d, r)
    BY <1>1, <2>1, <2>3, TableOf
  <2>5. m.body \in EphemeralsOf(generated', p)
    BY <1>1, <1>2, <2>1, Ends, KeysGrow DEF MsgOK
  <2>6. m.body \in AnyKey /\ m.body # NoKey /\ "KeyCalculatePending" \in States
    BY <1>1, <2>1, <2>5, EphemeralIsKey DEF States
  <2>7. NetFrom({})
    BY <1>5, NetSteps
  <2> DEFINE k == m.body  e == NewEphemeral(d)
  <2> HIDE DEF d, p, i, r, k, e
  <2>8. /\ new.partner = r.partner /\ new.role = r.role
        /\ new.state = "KeyCalculatePending" /\ new.ePublic = e
        /\ new.remote = k /\ new \in RecSet
    BY <2>1, <2>4, <2>6, SetBothFields DEF k, e
  <2> HIDE DEF new
  <2>9. RecOK(generated', d, new)
    BY <1>1, <2>1, <2>3, <2>4, <2>5, <2>6, <2>8, Sizes DEF RecOK, k, e
  <2> QED
    BY <1>1, <1>2, <1>5, <2>1, <2>2, <2>3, <2>7, <2>8, <2>9, RecordStep DEF r
<1> QED
  BY <1>4, <1>5 DEF ReceiveEphemeralDataReq, SetBoth

LEMMA ReceiveEphemeralDataRspStep ==
  ASSUME KeyInv, NEW m \in BagToSet(net), ReceiveEphemeralDataRsp(m)
  PROVE  KeyInv'
<1> DEFINE d == m.to  p == m.from  i == GetIndex(keyEstablishRec[d], p)
           r == keyEstablishRec[d][i]
           new == SetRemote(r, "KeyCalculatePending", m.body)
<1>1. d \in Devices /\ p \in Devices /\ d # p /\ Counts
  BY Ends
<1>2. UNCHANGED <<linkKey, stored, events, starts, generated>> /\ m.cmd = "EDataRsp"
  BY DEF ReceiveEphemeralDataRsp, Arrives
<1>3. timers' \in [Devices -> SUBSET Events]
  <2>1. "rsp" \in Events
    BY DEF Events
  <2> QED
    BY <1>1, <2>1, TimerSteps DEF ReceiveEphemeralDataRsp
<1>4. /\ generated' \in [Devices -> Nat] /\ Grows(generated, generated') /\ Counts'
  BY <1>1, <1>2, <1>3, GeneratesNone, CountsStay
<1>5. CASE Unexpected(m, "Initiator", "EDataPending")
  BY <1>2, <1>4, <1>5, UnexpectedStep
<1>6. CASE /\ Expects(keyEstablishRec[d], p, "Initiator", "EDataPending")
           /\ Change(d, i, new) /\ Take(m)
  <2>1. /\ i \in Entries /\ r.partner = p /\ r.role = "Initiator"
        /\ r.state = "EDataPending"
    BY <1>6, Expected
  <2>2. r \in RecSet /\ RecOK(generated', d, r)
    BY <1>1, <1>4, <2>1, TableOf
  <2>3. m.body \in EphemeralsOf(generated', p)
    BY <1>1, <1>2, <1>4, Ends, KeysGrow DEF MsgOK
  <2>4. m.body \in AnyKey /\ m.body # NoKey /\ "KeyCalculatePending" \in States
    BY <1>1, <1>4, <2>3, EphemeralIsKey DEF States
  <2>5. NetFrom({})
    BY <1>6, NetSteps
  <2> DEFINE k == m.body
  <2> HIDE DEF d, p, i, r, k
  <2>6. /\ new.partner = r.partner /\ new.role = r.role
        /\ new.state = "KeyCalculatePending" /\ new.ePublic = r.ePublic
        /\ new.remote = k /\ new \in RecSet
    BY <2>2, <2>4, SetRemoteFields DEF k
  <2> HIDE DEF new
  <2>7. RecOK(generated', d, new)
    BY <1>1, <2>1, <2>2, <2>3, <2>4, <2>6, Sizes DEF RecOK, k
  <2> QED
    BY <1>1, <1>2, <1>4, <1>6, <2>1, <2>5, <2>6, <2>7, RecordStep DEF r
<1> QED
  BY <1>5, <1>6 DEF ReceiveEphemeralDataRsp, SetRemote

LEMMA ReceiveTerminateStep ==
  ASSUME KeyInv, NEW m \in BagToSet(net), ReceiveTerminate(m)
  PROVE  KeyInv'
<1>1. m.from \in Devices /\ m.to \in Devices /\ Counts
  BY Ends
<1>2. /\ UNCHANGED <<linkKey, stored, events, starts, timers, generated>>
      /\ Put(m.to, Forget(keyEstablishRec[m.to], m.from)) /\ Take(m)
  BY DEF ReceiveTerminate, Arrives
<1>3. Counts' /\ Grows(generated, generated')
  BY <1>1, <1>2, TimerSteps, GeneratesNone, CountsStay
<1>4. TableOK(generated', m.to, Forget(keyEstablishRec[m.to], m.from))
  BY <1>1, <1>3, TableOf, ForgetOK
<1>5. NetFrom({})
  BY <1>2, NetSteps
<1> QED
  BY <1>1, <1>2, <1>3, <1>4, <1>5, TableStep
-----------------------------------------------------------------------------
(***************************************************************************)
(* The confirmations.                                                      *)
(***************************************************************************)

\* What is confirmed stays so, and what has no room goes on having none.
LEMMA AddLinkKeyStays ==
  ASSUME LinksOK, NEW d \in Devices, NEW q \in Devices, NEW r,
         AddLinkKey(d, q, r) \/ UNCHANGED <<linkKey, stored>>
  PROVE  /\ stored \subseteq stored'
         /\ \A p, e \in Devices : NoRoom(p, e) => NoRoom(p, e)'
         /\ \A p, e \in Devices : \A k : Confirmed(p, e, k) => Confirmed(p, e, k)'
<1> DEFINE Held(p) == {e \in Devices : linkKey[p][e] # {}}
           Held2(p) == {e \in Devices : linkKey'[p][e] # {}}
<1>1. CASE UNCHANGED <<linkKey, stored>>
  BY <1>1 DEF Confirmed, NoRoom
<1>2. CASE /\ q \in Held(d) \/ Cardinality(Held(d)) < KeyRoom
           /\ linkKey' = [linkKey EXCEPT ![d][q] = Key(r)]
           /\ stored' = stored \union {<<d, q, r.role, Key(r)>>}
  <2>1. Key(r) # {}
    BY DEF Key
  <2>2. ASSUME NEW p \in Devices, NEW e \in Devices, NoRoom(p, e)
        PROVE  NoRoom(p, e)'
    <3>1. linkKey[p][e] = {} /\ ~(Cardinality(Held(p)) < KeyRoom)
      BY <2>2 DEF NoRoom
    <3>2. CASE p # d
      <4>1. linkKey'[p] = linkKey[p]
        BY <1>2, <3>2 DEF LinksOK
      <4> QED
        BY <3>1, <4>1 DEF NoRoom
    <3>3. CASE p = d
      <4>1. q \in Held(d)
        BY <1>2, <3>1, <3>3
      <4>2. linkKey'[d] = [linkKey[d] EXCEPT ![q] = Key(r)]
        BY <1>2 DEF LinksOK
      <4>3. \A f \in Devices : linkKey'[d][f] # {} <=> linkKey[d][f] # {}
        BY <2>1, <4>1, <4>2 DEF LinksOK
      <4>4. Held2(d) = Held(d)
        BY <4>3
      <4> QED
        BY <3>1, <3>3, <4>3, <4>4 DEF NoRoom
    <3> QED
      BY <3>2, <3>3
  <2> QED
    BY <1>2, <2>2 DEF Confirmed
<1> QED
  BY <1>1, <1>2 DEF AddLinkKey

\* The key a record in its last state stands for.
LEMMA RecordKey ==
  ASSUME NEW gen \in [Devices -> Nat], NEW d \in Devices, NEW r \in RecSet,
         RecOK(gen, d, r), r.state = "ConfirmPending"
  PROVE  KeyPair(gen, Key(r)) /\ Key(r) \in SUBSET AnyKey
<1>1. /\ r.ePublic \in EphemeralsOf(gen, d) /\ r.remote \in EphemeralsOf(gen, r.partner)
      /\ r.partner \in Devices /\ r.partner # d
  BY DEF RecOK
<1>2. r.ePublic \in AnyKey /\ r.remote \in AnyKey
  BY Fields
<1> QED
  BY <1>1, <1>2 DEF KeyPair, Key

\* The link keys after one is written.
LEMMA LinksAdd ==
  ASSUME LinksOK, UNCHANGED generated, NEW d \in Devices, NEW q \in Devices, NEW r,
         AddLinkKey(d, q, r) \/ UNCHANGED <<linkKey, stored>>,
         KeyPair(generated, Key(r)), Key(r) \in SUBSET AnyKey
  PROVE  LinksOK'
<1>1. CASE linkKey' = [linkKey EXCEPT ![d][q] = Key(r)]
  <2>1. linkKey' \in [Devices -> [Devices -> SUBSET AnyKey]]
    BY <1>1 DEF LinksOK
  <2>2. ASSUME NEW p \in Devices, NEW e \in Devices
        PROVE  linkKey'[p][e] = linkKey[p][e] \/ linkKey'[p][e] = Key(r)
    BY <1>1 DEF LinksOK
  <2> QED
    BY <2>1, <2>2 DEF LinksOK
<1>2. CASE UNCHANGED linkKey
  BY <1>2 DEF LinksOK
<1> QED
  BY <1>1, <1>2 DEF AddLinkKey
LEMMA MacFields ==
  ASSUME NEW r
  PROVE  /\ r.role = "Responder" => GenerateMAC(r, FALSE) = <<FALSE, r.ePublic, r.remote>>
         /\ r.role = "Initiator" => GenerateMAC(r, FALSE) = <<FALSE, r.remote, r.ePublic>>
<1>1. ASSUME r.role = "Responder"
      PROVE  GenerateMAC(r, FALSE) = <<FALSE, r.ePublic, r.remote>>
  <2>1. (r.role = "Initiator") = FALSE
    BY <1>1
  <2> QED
    BY <2>1 DEF GenerateMAC
<1>2. ASSUME r.role = "Initiator"
      PROVE  GenerateMAC(r, FALSE) = <<FALSE, r.remote, r.ePublic>>
  <2>1. ~((r.role = "Initiator") = FALSE)
    BY <1>2
  <2> QED
    BY <2>1 DEF GenerateMAC
<1> QED
  BY <1>1, <1>2

\* A confirmation with a MAC in it is not an empty one.
LEMMA MacIsNoGarbage == \A x, y : <<FALSE, x, y>> # Garbage
BY DEF Garbage

\* The ephemeral keys in a MAC.
LEMMA MacKeys ==
  ASSUME NEW mac, NEW x, NEW y, mac = <<FALSE, x, y>>
  PROVE  mac[2] = x /\ mac[3] = y
OBVIOUS

\* The key that a responder writes, or has no room for.
LEMMA ResponderConfirms ==
  ASSUME NEW d \in Devices, NEW q \in Devices, NEW r, NEW k, k = Key(r),
         r.role = "Responder", AddLinkKey(d, q, r)
  PROVE  Confirmed(d, q, k)'
<1> DEFINE held == {e \in Devices : linkKey[d][e] # {}}
<1>1. CASE q \in held \/ Cardinality(held) < KeyRoom
  BY <1>1 DEF AddLinkKey, Confirmed
<1>2. CASE ~(q \in held \/ Cardinality(held) < KeyRoom)
  BY <1>2 DEF AddLinkKey, Confirmed, NoRoom
<1> QED
  BY <1>1, <1>2

\* The tables, the messages and the link keys after a record in its last state
\* is given up and its key is written or not.
LEMMA FinishStep ==
  ASSUME KeyInv, Counts', UNCHANGED generated, NEW d \in Devices, NEW p \in Devices,
         NEW i \in Entries, Change(d, i, IdleRec),
         keyEstablishRec[d][i].partner = p,
         keyEstablishRec[d][i].state = "ConfirmPending",
         AddLinkKey(d, p, keyEstablishRec[d][i]) \/ UNCHANGED <<linkKey, stored>>,
         NEW S, NetFrom(S), \A x \in S : MsgOK(generated', x)
  PROVE  TablesOK' /\ MessagesOK' /\ LinksOK'
<1> DEFINE r == keyEstablishRec[d][i]
<1>1. Grows(generated, generated') /\ generated' \in [Devices -> Nat]
  BY GeneratesNone DEF KeyInv
<1>2. RecOK(generated', d, IdleRec) /\ IdleRec \in RecSet
      /\ IdleRec.partner = INVALID_PARTNER_ADDR
  BY IdleOK, IdleFields
<1>3. TableOK(generated', d, [keyEstablishRec[d] EXCEPT ![i] = IdleRec])
  BY <1>1, <1>2, TableOf, PutRecord
<1>4. Put(d, [keyEstablishRec[d] EXCEPT ![i] = IdleRec])
  BY ChangeIsPut
<1>5. TablesOK'
  BY <1>1, <1>3, <1>4, TablesStay DEF KeyInv
<1>6. MessagesOK'
  BY <1>1, MessagesStay DEF KeyInv
<1>7. r \in RecSet /\ RecOK(generated, d, r) /\ generated \in [Devices -> Nat]
  BY <1>1, TableOf
<1>8. KeyPair(generated, Key(r)) /\ Key(r) \in SUBSET AnyKey
  BY <1>7, RecordKey
<1>9. LinksOK'
  BY <1>8, LinksAdd DEF KeyInv
<1> QED
  BY <1>5, <1>6, <1>9

LEMMA ReceiveConfirmKeyStep ==
  ASSUME KeyInv, NEW m \in BagToSet(net), ReceiveConfirmKey(m)
  PROVE  KeyInv'
<1> DEFINE d == m.to  p == m.from  i == GetIndex(keyEstablishRec[d], p)
           r == keyEstablishRec[d][i]
           mac == GenerateMAC(r, FALSE)
           stop == Msg(d, p, "Terminate", <<>>)
           empty == Msg(d, p, "ConfirmRsp", Garbage)
           rsp == Msg(d, p, "ConfirmRsp", mac)
<1>1. d \in Devices /\ p \in Devices /\ d # p /\ Counts
  BY Ends
<1>2. UNCHANGED <<events, starts, generated>> /\ Stop(d, "aging")
  BY DEF ReceiveConfirmKey, Arrives
<1>3. Grows(generated, generated') /\ Counts'
  BY <1>1, <1>2, TimerSteps, GeneratesNone, CountsStay
<1>4. CASE Unexpected(m, "Responder", "ConfirmPending") /\ UNCHANGED <<linkKey, stored>>
  BY <1>2, <1>3, <1>4, UnexpectedStep
<1>5. CASE /\ Expects(keyEstablishRec[d], p, "Responder", "ConfirmPending")
           /\ Change(d, i, IdleRec)
           /\ \/ /\ AddLinkKey(d, p, r)
                 /\ Answer(m, "ConfirmRsp", mac) \/ Answer(m, "ConfirmRsp", Garbage)
              \/ Terminate(m) /\ UNCHANGED <<linkKey, stored>>
  <2>1. /\ i \in Entries /\ r.partner = p /\ r.role = "Responder"
        /\ r.state = "ConfirmPending"
    BY <1>5, Expected
  <2>2. NetFrom({stop, empty, rsp})
    BY <1>5, NetSteps DEF Terminate, NetFrom
  <2>3. /\ MsgOK(generated', stop) /\ MsgOK(generated', empty) /\ MsgOK(generated', rsp)
    BY <1>1 DEF MsgOK, Msg
  <2>4. TablesOK' /\ MessagesOK' /\ LinksOK'
    <3> HIDE DEF d, p, i, stop, empty, rsp
    <3> QED
      BY <1>1, <1>2, <1>3, <1>5, <2>1, <2>2, <2>3, FinishStep DEF r
  <2>5. /\ stored \subseteq stored'
        /\ \A a, e \in Devices : \A k : Confirmed(a, e, k) => Confirmed(a, e, k)'
    <3> HIDE DEF d, p, r
    <3> QED
      BY <1>1, <1>5, AddLinkKeyStays DEF KeyInv
  <2>6. CASE AddLinkKey(d, p, r)
    <3> PICK key : key = Key(r)
      OBVIOUS
    <3> PICK body : body = mac
      OBVIOUS
    <3>1. Confirmed(d, p, key)'
      BY <1>1, <2>1, <2>6, ResponderConfirms
    <3>2. \A s \in stored' : s \in stored \/ s = <<d, p, "Responder", key>>
      BY <2>1, <2>6 DEF AddLinkKey
    <3>3. body = <<FALSE, r.ePublic, r.remote>>
      BY <2>1, MacFields
    <3>4. {body[2], body[3]} = key
      BY <3>3, MacKeys DEF Key
    <3>5. \A x \in BagToSet(net') : x \in BagToSet(net) \/ x \in {stop, empty, rsp}
      BY <2>2 DEF NetFrom
    <3>6. /\ stop.cmd = "Terminate" /\ empty.body = Garbage
          /\ rsp.from = d /\ rsp.to = p /\ rsp.body = body
      BY DEF Msg
    <3> HIDE DEF d, p, i, r, mac, stop, empty, rsp
    <3>7. ConfirmationsOK'
      <4> SUFFICES ASSUME NEW x \in BagToSet(net'), x.cmd = "ConfirmRsp", x.body # Garbage
                   PROVE  Confirmed(x.from, x.to, {x.body[2], x.body[3]})'
        BY DEF ConfirmationsOK
      <4>1. CASE x \in BagToSet(net)
        <5>1. Confirmed(x.from, x.to, {x.body[2], x.body[3]})
          BY <4>1 DEF KeyInv, ConfirmationsOK
        <5> QED
          BY <2>5, <4>1, <5>1, Ends
      <4>2. CASE x = rsp
        BY <3>1, <3>4, <3>6, <4>2
      <4> QED
        BY <3>5, <3>6, <4>1, <4>2
    <3>8. StoredOK'
      BY <1>1, <2>5, <3>2 DEF KeyInv, StoredOK
    <3> QED
      BY <1>3, <2>4, <3>7, <3>8 DEF KeyInv
  <2>7. CASE ~AddLinkKey(d, p, r)
    <3>1. UNCHANGED <<linkKey, stored>> /\ Terminate(m)
      BY <1>5, <2>7
    <3>2. NetFrom({stop}) /\ stop.cmd # "ConfirmRsp"
      BY <3>1, NetSteps DEF Terminate, Msg
    <3> HIDE DEF stop
    <3>3. ConfirmationsOK' /\ StoredOK'
      BY <3>1, <3>2, ConfirmedStays DEF KeyInv
    <3> QED
      BY <1>3, <2>4, <3>3 DEF KeyInv
  <2> QED
    BY <2>6, <2>7
<1> QED
  BY <1>4, <1>5 DEF ReceiveConfirmKey

LEMMA ReceiveConfirmKeyRspStep ==
  ASSUME KeyInv, NEW m \in BagToSet(net), ReceiveConfirmKeyRsp(m)
  PROVE  KeyInv'
<1> DEFINE d == m.to  p == m.from  i == GetIndex(keyEstablishRec[d], p)
           r == keyEstablishRec[d][i]
           stop == Msg(d, p, "Terminate", <<>>)
<1>1. d \in Devices /\ p \in Devices /\ d # p /\ Counts /\ m.cmd = "ConfirmRsp"
  BY Ends DEF ReceiveConfirmKeyRsp, Arrives
<1>2. UNCHANGED <<events, starts, generated>> /\ Stop(d, "aging")
  BY DEF ReceiveConfirmKeyRsp, Arrives
<1>3. Grows(generated, generated') /\ Counts'
  BY <1>1, <1>2, TimerSteps, GeneratesNone, CountsStay
<1>4. CASE Unexpected(m, "Initiator", "ConfirmPending") /\ UNCHANGED <<linkKey, stored>>
  BY <1>2, <1>3, <1>4, UnexpectedStep
<1>5. CASE /\ Expects(keyEstablishRec[d], p, "Initiator", "ConfirmPending")
           /\ Change(d, i, IdleRec)
           /\ \/ AddLinkKey(d, p, r) /\ m.body = GenerateMAC(r, FALSE) /\ Take(m)
              \/ Terminate(m) /\ UNCHANGED <<linkKey, stored>>
  <2>1. /\ i \in Entries /\ r.partner = p /\ r.role = "Initiator"
        /\ r.state = "ConfirmPending"
    BY <1>5, Expected
  <2>2. NetFrom({stop})
    BY <1>5, NetSteps DEF Terminate, NetFrom
  <2>3. MsgOK(generated', stop) /\ stop.cmd # "ConfirmRsp"
    BY <1>1 DEF MsgOK, Msg
  <2>4. TablesOK' /\ MessagesOK' /\ LinksOK'
    <3> HIDE DEF d, p, i, stop
    <3> QED
      BY <1>1, <1>2, <1>3, <1>5, <2>1, <2>2, <2>3, FinishStep DEF r
  <2>5. /\ stored \subseteq stored'
        /\ \A a, e \in Devices : \A k : Confirmed(a, e, k) => Confirmed(a, e, k)'
    <3> HIDE DEF d, p, r
    <3> QED
      BY <1>1, <1>5, AddLinkKeyStays DEF KeyInv
  <2>6. ConfirmationsOK'
    <3> HIDE DEF stop
    <3> SUFFICES ASSUME NEW x \in BagToSet(net'), x.cmd = "ConfirmRsp", x.body # Garbage
                 PROVE  Confirmed(x.from, x.to, {x.body[2], x.body[3]})'
      BY DEF ConfirmationsOK
    <3>1. x \in BagToSet(net)
      BY <2>2, <2>3 DEF NetFrom
    <3>2. Confirmed(x.from, x.to, {x.body[2], x.body[3]})
      BY <3>1 DEF KeyInv, ConfirmationsOK
    <3> QED
      BY <2>5, <3>1, <3>2, Ends
  <2>7. CASE AddLinkKey(d, p, r) /\ m.body = GenerateMAC(r, FALSE)
    <3>1. m.body = <<FALSE, r.remote, r.ePublic>>
      BY <2>1, <2>7, MacFields
    <3> PICK key : key = Key(r)
      OBVIOUS
    <3>2. m.body # Garbage /\ {m.body[2], m.body[3]} = key
      <4>1. m.body # Garbage
        BY <3>1, MacIsNoGarbage
      <4>2. m.body[2] = r.remote /\ m.body[3] = r.ePublic
        BY <3>1, MacKeys
      <4> QED
        BY <4>1, <4>2 DEF Key
    <3>3. Confirmed(p, d, key)
      BY <1>1, <3>2 DEF KeyInv, ConfirmationsOK
    <3>4. \A s \in stored' : s \in stored \/ s = <<d, p, "Initiator", key>>
      BY <2>1, <2>7 DEF AddLinkKey
    <3> HIDE DEF d, p, r
    <3>5. Confirmed(p, d, key)'
      BY <1>1, <2>5, <3>3
    <3>6. StoredOK'
      BY <1>1, <2>5, <3>4, <3>5 DEF KeyInv, StoredOK
    <3> QED
      BY <1>3, <2>4, <2>6, <3>6 DEF KeyInv
  <2>8. CASE UNCHANGED <<linkKey, stored>>
    <3> HIDE DEF stop
    <3>1. StoredOK'
      BY <2>2, <2>3, <2>8, ConfirmedStays DEF KeyInv
    <3> QED
      BY <1>3, <2>4, <2>6, <3>1 DEF KeyInv
  <2> QED
    BY <1>5, <2>7, <2>8
<1> QED
  BY <1>4, <1>5 DEF ReceiveConfirmKeyRsp
-----------------------------------------------------------------------------
(***************************************************************************)
(* The timers and events of the task.                                      *)
(***************************************************************************)

\* A step that changes timers and events only.
LEMMA TimerStep ==
  ASSUME KeyInv, Counts',
         UNCHANGED <<keyEstablishRec, linkKey, net, generated, stored>>
  PROVE  KeyInv'
<1>1. TablesOK'
  BY DEF KeyInv, TablesOK
<1>2. LinksOK' /\ MessagesOK'
  BY DEF KeyInv, LinksOK, MessagesOK
<1>3. ConfirmationsOK' /\ StoredOK'
  BY DEF KeyInv, ConfirmationsOK, StoredOK, Confirmed, NoRoom
<1> QED
  BY <1>1, <1>2, <1>3 DEF KeyInv

LEMMA TimerExpiresStep ==
  ASSUME KeyInv, NEW d \in Devices, NEW e \in Events, TimerExpires(d, e)
  PROVE  KeyInv'
<1>1. Counts'
  BY DEF TimerExpires, KeyInv, Counts, bounds
<1> QED
  BY <1>1, TimerStep DEF TimerExpires, bounds

\* What the handling of an event has in common.
LEMMA HandlesCounts ==
  ASSUME KeyInv, NEW d \in Devices, NEW e, Handles(d, e),
         UNCHANGED timers \/ Start(d, "aging") \/ Stop(d, "aging")
  PROVE  /\ Counts' /\ Grows(generated, generated')
         /\ UNCHANGED <<linkKey, stored, generated>>
<1>1. Counts
  BY DEF KeyInv
<1>2. timers' \in [Devices -> SUBSET Events]
  BY <1>1, TimerSteps
<1>3. UNCHANGED <<linkKey, stored, generated, starts>>
      /\ events' = [events EXCEPT ![d] = @ \ {e}]
  BY DEF Handles
<1>4. Counts'
  BY <1>1, <1>2, <1>3 DEF Counts
<1> QED
  BY <1>1, <1>3, <1>4, GeneratesNone

LEMMA AgeKeyEstablishRecStep ==
  ASSUME KeyInv, NEW d \in Devices, AgeKeyEstablishRec(d)
  PROVE  KeyInv'
<1> DEFINE table == AgedTable(keyEstablishRec[d])
<1>1. Handles(d, "aging") /\ Put(d, table) /\ UNCHANGED net
  BY DEF AgeKeyEstablishRec
<1>2. UNCHANGED timers \/ Stop(d, "aging")
  BY DEF AgeKeyEstablishRec
<1>3. /\ Counts' /\ Grows(generated, generated')
      /\ UNCHANGED <<linkKey, stored, generated>>
  BY <1>1, <1>2, HandlesCounts
<1>4. TableOK(generated', d, table)
  BY <1>3, TableOf, AgedOK
<1>5. NetFrom({})
  BY <1>1, NetSteps
<1> HIDE DEF table
<1> QED
  BY <1>1, <1>3, <1>4, <1>5, TableStep

\* A calculation ends: its record, if there is one, waits for the confirmation
\* or is given up, and a message that is no confirmation is sent.
LEMMA CalculationStep ==
  ASSUME KeyInv, NEW d \in Devices, NEW e, Handles(d, e),
         UNCHANGED timers \/ Start(d, "aging"),
         NEW i, i = GetIndex_State(keyEstablishRec[d], "KeyCalculatePending"),
         NEW r, r = keyEstablishRec[d][i], i \in Entries,
         \/ Change(d, i, IdleRec)
         \/ Change(d, i, [r EXCEPT !.state = "ConfirmPending", !.age = ConfKeyGenTime(r.role)]),
         NEW cmd, cmd \in {"Terminate", "Confirm", "EDataRsp"}, NEW body,
         cmd = "EDataRsp" => body = r.ePublic,
         UNCHANGED net \/ Send(Msg(d, r.partner, cmd, body))
  PROVE  KeyInv'
<1> DEFINE x == Msg(d, r.partner, cmd, body)
           new == Set(r, "ConfirmPending", ConfKeyGenTime(r.role))
<1>1. Counts' /\ Grows(generated, generated') /\ UNCHANGED <<linkKey, stored, generated>>
  BY HandlesCounts
<1>2. r \in RecSet /\ RecOK(generated', d, r)
  BY <1>1, TableOf
<1>3. r.state = "KeyCalculatePending"
  BY IndexOfState
<1>4. /\ r.partner \in Devices /\ r.partner # d /\ r.ePublic # NoKey /\ r.remote # NoKey
      /\ r.ePublic \in EphemeralsOf(generated', d)
  BY <1>2, <1>3, Fields DEF RecOK
<1>5. MsgOK(generated', x) /\ x.cmd # "ConfirmRsp"
  BY <1>4 DEF MsgOK, Msg
<1>6. NetFrom({x})
  BY NetSteps DEF NetFrom
<1> HIDE DEF x
<1>7. CASE Change(d, i, IdleRec)
  <2>1. RecOK(generated', d, IdleRec) /\ IdleRec \in RecSet
        /\ IdleRec.partner = INVALID_PARTNER_ADDR
    BY IdleOK, IdleFields
  <2> QED
    BY <1>1, <1>5, <1>6, <1>7, <2>1, RecordStep
<1>8. CASE Change(d, i, new)
  <2>1. "ConfirmPending" \in States /\ ConfKeyGenTime(r.role) \in 1..RecExpiryTime
    BY Sizes DEF States, ConfKeyGenTime
  <2>2. /\ new.partner = r.partner /\ new.role = r.role /\ new.state = "ConfirmPending"
        /\ new.ePublic = r.ePublic /\ new.remote = r.remote /\ new \in RecSet
    BY <1>2, <2>1, SetFields
  <2> HIDE DEF new
  <2>3. RecOK(generated', d, new)
    BY <1>2, <1>3, <1>4, <2>2 DEF RecOK
  <2> QED
    BY <1>1, <1>5, <1>6, <1>8, <2>2, <2>3, RecordStep
<1> QED
  BY <1>7, <1>8 DEF Set
LEMMA Cmd_CalculateKeyStep ==
  ASSUME KeyInv, NEW d \in Devices, Cmd_CalculateKey(d)
  PROVE  KeyInv'
<1> DEFINE i == GetIndex_State(keyEstablishRec[d], "KeyCalculatePending")
           r == keyEstablishRec[d][i]
           new == [r EXCEPT !.state = "ConfirmPending", !.age = ConfKeyGenTime(r.role)]
           SendsOrNot(cmd, body) == UNCHANGED net \/ Send(Msg(d, r.partner, cmd, body))
<1>1. Handles(d, "cmd") /\ (UNCHANGED timers \/ Start(d, "aging"))
  BY DEF Cmd_CalculateKey
<1>2. CASE UNCHANGED <<keyEstablishRec, net>>
  <2>1. Counts' /\ UNCHANGED <<linkKey, stored, generated>>
    BY <1>1, HandlesCounts
  <2> QED
    BY <1>2, <2>1, TimerStep
<1>3. CASE i \in Entries /\ Change(d, i, new) /\ SendsOrNot("EDataRsp", r.ePublic)
  <2> HIDE DEF i
  <2> QED
    BY <1>1, <1>3, CalculationStep DEF i
<1>4. CASE i \in Entries /\ Change(d, i, IdleRec) /\ SendsOrNot("Terminate", <<>>)
  <2> QED
    BY <1>1, <1>4, CalculationStep
<1> QED
  BY <1>2, <1>3, <1>4 DEF Cmd_CalculateKey

LEMMA Rsp_CalculateKeyStep ==
  ASSUME KeyInv, NEW d \in Devices, Rsp_CalculateKey(d)
  PROVE  KeyInv'
<1> DEFINE i == GetIndex_State(keyEstablishRec[d], "KeyCalculatePending")
           r == keyEstablishRec[d][i]
           new == [r EXCEPT !.state = "ConfirmPending", !.age = ConfKeyGenTime(r.role)]
           SendsOrNot(cmd, body) == UNCHANGED net \/ Send(Msg(d, r.partner, cmd, body))
<1>1. Handles(d, "rsp") /\ (UNCHANGED timers \/ Start(d, "aging"))
  BY DEF Rsp_CalculateKey
<1>2. CASE UNCHANGED <<keyEstablishRec, net>>
  <2>1. Counts' /\ UNCHANGED <<linkKey, stored, generated>>
    BY <1>1, HandlesCounts
  <2> QED
    BY <1>2, <2>1, TimerStep
<1>3. CASE /\ i \in Entries /\ Change(d, i, new)
           /\ SendsOrNot("Confirm", GenerateMAC(r, TRUE)) \/ SendsOrNot("Confirm", Garbage)
  BY <1>1, <1>3, CalculationStep
<1>4. CASE i \in Entries /\ Change(d, i, IdleRec) /\ SendsOrNot("Terminate", <<>>)
  BY <1>1, <1>4, CalculationStep
<1> QED
  BY <1>2, <1>3, <1>4 DEF Rsp_CalculateKey
-----------------------------------------------------------------------------
(***************************************************************************)
(* The invariant holds, and what follows from it.                          *)
(***************************************************************************)

LEMMA InitOK == Init => KeyInv
<1> SUFFICES ASSUME Init PROVE KeyInv
  OBVIOUS
<1>1. Counts
  BY KeyEstablishAssumption DEF Init, Counts
<1>2. TablesOK
  <2>1. ASSUME NEW d \in Devices, NEW i \in Entries
        PROVE  keyEstablishRec[d][i] = IdleRec
    BY DEF Init
  <2>2. keyEstablishRec \in [Devices -> Tables]
    BY IdleFields DEF Init, Tables
  <2>3. ASSUME NEW d \in Devices PROVE TableOK(generated, d, keyEstablishRec[d])
    BY <2>1, <2>2, IdleOK, IdleFields DEF TableOK, Unique
  <2> QED
    BY <2>2, <2>3 DEF TablesOK
<1>3. LinksOK
  BY DEF Init, LinksOK
<1>4. MessagesOK /\ ConfirmationsOK
  BY EmptyBagSet DEF Init, MessagesOK, ConfirmationsOK
<1>5. StoredOK
  BY DEF Init, StoredOK
<1> QED
  BY <1>1, <1>2, <1>3, <1>4, <1>5 DEF KeyInv

LEMMA NextStep == KeyInv /\ [Next]_vars => KeyInv'
<1> SUFFICES ASSUME KeyInv, [Next]_vars PROVE KeyInv'
  OBVIOUS
<1>1. ASSUME NEW s \in DOMAIN starts,
             \/ Initiate(s[1], s[2]) \/ InitiateNoRecord(s[1], s[2])
             \/ InitiateNoCertificate(s[1], s[2])
      PROVE  KeyInv'
  BY <1>1, InitiateStep
<1>2. ASSUME NEW m \in BagToSet(net), Receive(m) PROVE KeyInv'
  <2>1. CASE ReceiveInitiate(m)
    BY <2>1, ReceiveInitiateStep
  <2>2. CASE ReceiveInitiateRsp(m)
    BY <2>2, ReceiveInitiateRspStep
  <2>3. CASE ReceiveEphemeralDataReq(m)
    BY <2>3, ReceiveEphemeralDataReqStep
  <2>4. CASE ReceiveEphemeralDataRsp(m)
    BY <2>4, ReceiveEphemeralDataRspStep
  <2>5. CASE ReceiveConfirmKey(m)
    BY <2>5, ReceiveConfirmKeyStep
  <2>6. CASE ReceiveConfirmKeyRsp(m)
    BY <2>6, ReceiveConfirmKeyRspStep
  <2>7. CASE ReceiveTerminate(m)
    BY <2>7, ReceiveTerminateStep
  <2> QED
    BY <1>2, <2>1, <2>2, <2>3, <2>4, <2>5, <2>6, <2>7 DEF Receive
<1>3. ASSUME NEW d \in Devices, NEW e \in Events, TimerExpires(d, e) PROVE KeyInv'
  BY <1>3, TimerExpiresStep
<1>4. ASSUME NEW d \in Devices, HandleEvent(d) PROVE KeyInv'
  <2>1. CASE AgeKeyEstablishRec(d)
    BY <2>1, AgeKeyEstablishRecStep
  <2>2. CASE Cmd_CalculateKey(d)
    BY <2>2, Cmd_CalculateKeyStep
  <2>3. CASE Rsp_CalculateKey(d)
    BY <2>3, Rsp_CalculateKeyStep
  <2> QED
    BY <1>4, <2>1, <2>2, <2>3 DEF HandleEvent
<1>5. CASE UNCHANGED vars
  <2>1. UNCHANGED <<tables, net, bounds, stored>>
    BY <1>5 DEF vars
  <2>2. UNCHANGED <<keyEstablishRec, timers, events, linkKey, net, generated, starts, stored>>
    BY <2>1 DEF tables, bounds
  <2>3. Counts'
    BY <2>2 DEF KeyInv, Counts
  <2> QED
    BY <2>2, <2>3, TimerStep
<1> QED
  BY <1>1, <1>2, <1>3, <1>4, <1>5 DEF Next

\* Two different ephemeral keys make a key of two.
LEMMA PairIsTwo ==
  ASSUME NEW gen, NEW k, KeyPair(gen, k)
  PROVE  Cardinality(k) = 2
<1>1. PICK d \in Devices, p \in Devices :
        d # p /\ \E x \in EphemeralsOf(gen, d), y \in EphemeralsOf(gen, p) : k = {x, y}
  BY DEF KeyPair
<1>2. PICK x \in EphemeralsOf(gen, d), y \in EphemeralsOf(gen, p) : k = {x, y}
  BY <1>1
<1>3. x # y
  BY <1>1 DEF EphemeralsOf
<1>4. IsFiniteSet({x}) /\ Cardinality({x}) = 1
  BY FS_Singleton
<1>5. Cardinality({x} \cup {y}) = 1 + 1
  BY <1>3, <1>4, FS_AddElement
<1>6. k = {x} \cup {y}
  BY <1>2
<1> QED
  BY <1>5, <1>6

LEMMA EphemeralsAre ==
  ASSUME NEW d \in Devices, NEW k \in EphemeralsOf(generated, d)
  PROVE  k \in Ephemerals
<1>1. k \in {d} \X (1..generated[d])
  BY DEF EphemeralsOf
<1> QED
  BY <1>1 DEF Ephemerals

LEMMA TypesFollow == KeyInv => TypeOK
<1> SUFFICES ASSUME KeyInv PROVE TypeOK
  OBVIOUS
<1>1. ASSUME NEW d \in Devices, NEW i \in Entries
      PROVE  LET r == keyEstablishRec[d][i]
             IN  /\ r.partner \in (Devices \ {d}) \union {INVALID_PARTNER_ADDR}
                 /\ r.role \in {"Initiator", "Responder"} /\ r.state \in States
                 /\ r.age \in 1..RecExpiryTime
                 /\ {r.ePublic, r.remote} \subseteq Ephemerals \union {NoKey}
                 /\ r.partner = INVALID_PARTNER_ADDR <=> r.state = "Idle"
                 /\ r.partner # INVALID_PARTNER_ADDR
                      => GetIndex(keyEstablishRec[d], r.partner) = i
  <2> DEFINE table == keyEstablishRec[d]  r == table[i]
  <2>1. /\ TableOK(generated, d, table) /\ table \in Tables /\ Unique(table)
        /\ r \in RecSet /\ RecOK(generated, d, r)
    BY DEF KeyInv, TablesOK, TableOK, Tables
  <2>2. GetIndex(table, r.partner) \in Entries
    BY IndexOfPartner DEF NoRecordOf
  <2>3. r.partner # INVALID_PARTNER_ADDR => GetIndex(table, r.partner) = i
    BY <2>1, <2>2, IndexOfPartner DEF Unique
  <2>4. {r.ePublic, r.remote} \subseteq Ephemerals \union {NoKey}
    BY <2>1, EphemeralsAre DEF RecOK
  <2> HIDE DEF r, table
  <2>5. /\ r.partner \in (Devices \ {d}) \union {INVALID_PARTNER_ADDR}
        /\ r.role \in {"Initiator", "Responder"} /\ r.state \in States
        /\ r.age \in 1..RecExpiryTime
        /\ r.partner = INVALID_PARTNER_ADDR <=> r.state = "Idle"
    BY <2>1, Fields DEF RecOK
  <2> QED
    BY <2>3, <2>4, <2>5 DEF r, table
<1>2. timers \in [Devices -> SUBSET Events] /\ events \in [Devices -> SUBSET Events]
  BY DEF KeyInv, Counts
<1>3. ASSUME NEW d \in Devices, NEW p \in Devices, linkKey[d][p] # {}
      PROVE  linkKey[d][p] \subseteq Ephemerals /\ Cardinality(linkKey[d][p]) = 2
  <2>1. KeyPair(generated, linkKey[d][p])
    BY <1>3 DEF KeyInv, LinksOK
  <2>2. linkKey[d][p] \subseteq Ephemerals
    BY <2>1, EphemeralsAre DEF KeyPair
  <2> QED
    BY <2>1, <2>2, PairIsTwo
<1>4. \A m \in BagToSet(net) : {m.from, m.to} \subseteq Devices
  BY Ends
<1> QED
  BY <1>1, <1>2, <1>3, <1>4 DEF TypeOK

LEMMA AgreementFollows == KeyInv => KeysAgree
BY DEF KeyInv, StoredOK, Confirmed, NoRoom, KeysAgree

\* In every run of any devices, with any plans, losses, delays and failures,
\* the tables stay well formed, and a key the initiator stores on a confirmation
\* is the one its responder has stored, unless that had no room for it.
THEOREM KeysAlwaysAgree == Spec => []SessionsOK
<1>1. Spec => []KeyInv
  BY InitOK, NextStep, PTL DEF Spec
<1>2. KeyInv => SessionsOK
  BY TypesFollow, AgreementFollows DEF SessionsOK
<1> QED
  BY <1>1, <1>2, PTL
=============================================================================
