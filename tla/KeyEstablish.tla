---------------------------- MODULE KeyEstablish ---------------------------
(***************************************************************************)
(* Certificate based key establishment (zcl_key_establish.c): an initiator *)
(* and a responder exchange certificates, ephemeral keys and MACs, each    *)
(* with a small table of records, one ageing timer for the whole table,    *)
(* and two timers that put the long calculations off.  Messages overtake   *)
(* each other, and one that is never delivered is a lost one: no fairness  *)
(* is asked of the network.                                                *)
(*                                                                         *)
(* An ephemeral key is its owner and a number; the key both ends derive is *)
(* the set of the two ephemeral keys; a MAC is what it is computed over.   *)
(* The devices all run this code, so the times they tell each other are    *)
(* valid.  Left out: an initiator does not refuse an invalid one, as it    *)
(* sets status where keyStatus is looked at (lines 1102 and 1112), and     *)
(* goes on with the value its record was made with.                        *)
(***************************************************************************)
EXTENDS Naturals, FiniteSets, FiniteSetsExt, Bags

CONSTANTS
  Devices,
  INVALID_PARTNER_ADDR,
  MAX_KEY_ESTABLISHMENT_REC_ENTRY,
  Plans,         \* what the applications may do: functions that say, by
                 \* <<device, partner>>, how often a device starts with a partner
  KeyRoom,       \* link keys the security manager can hold (ZDSECMGR_ENTRY_MAX)
  RecExpiryTime, \* KEY_ESTABLISHMENT_REC_EXPIRY_TIME
  EKeyTime, KeyTime, MacTime,  \* the ..._GENERATE_TIMEOUTs
  MaxFaults      \* bound: allocations, checks and calculations that fail

ASSUME KeyEstablishAssumption ==
  /\ INVALID_PARTNER_ADDR \notin Devices
  /\ {MAX_KEY_ESTABLISHMENT_REC_ENTRY, RecExpiryTime, EKeyTime, KeyTime, MacTime} \subseteq Nat \ {0}
  /\ RecExpiryTime <= 255    \* an age is a byte
  /\ {EKeyTime + KeyTime, MacTime + KeyTime, 2 * MacTime} \subseteq 1..RecExpiryTime
  /\ {KeyRoom, MaxFaults} \subseteq Nat
  /\ \A plan \in Plans : \A s \in DOMAIN plan :
       s \in Devices \X Devices /\ s[1] # s[2] /\ plan[s] \in Nat

Entries == 1..MAX_KEY_ESTABLISHMENT_REC_ENTRY
NoEntry == MAX_KEY_ESTABLISHMENT_REC_ENTRY + 1
Events == {"aging", "cmd", "rsp"}
States == {"Idle", "InitiatePending", "EDataPending", "KeyCalculatePending", "ConfirmPending"}

VARIABLES
  keyEstablishRec,  \* by device, the table
  timers,           \* by device, the timers of its task that run
  events,           \* by device, the events of its task that are set
  linkKey,          \* by device, the link key it holds with each other device, {} if none
  net,              \* the bag of messages on their way
  generated,        \* by device, ephemeral keys generated
  starts,           \* the part of the plan that is left
  faults,           \* what has failed
  wild,             \* devices that have written past their table
  unaged,           \* devices that kept a record without starting its timer
  stored            \* history: <<device, partner, role, key>> of every link key written

tables == <<keyEstablishRec, timers, events, linkKey>>
bounds == <<generated, starts, faults>>
vars == <<tables, net, bounds, wild, unaged, stored>>

NoKey == <<>>
Garbage == <<>>    \* what GenerateMAC leaves when it finds no memory

IdleRec == [partner |-> INVALID_PARTNER_ADDR, role |-> "Initiator", state |-> "Idle",
            age |-> RecExpiryTime, ePublic |-> NoKey, remote |-> NoKey]

Init ==
  /\ keyEstablishRec = [d \in Devices |-> [i \in Entries |-> IdleRec]]
  /\ timers = [d \in Devices |-> {}] /\ events = [d \in Devices |-> {}]
  /\ linkKey = [d \in Devices |-> [p \in Devices |-> {}]]
  /\ net = EmptyBag
  /\ generated = [d \in Devices |-> 0] /\ starts \in Plans
  /\ faults = 0 /\ wild = {} /\ unaged = {} /\ stored = {}

-----------------------------------------------------------------------------
(* Records, timers and messages *)

FirstIn(S) == IF S = {} THEN NoEntry ELSE Min(S)

GetIndex(table, p) == FirstIn({i \in Entries : table[i].partner = p})
GetIndex_State(table, s) == FirstIn({i \in Entries : table[i].state = s})

ResetRec(table, i) == IF i \in Entries THEN [table EXCEPT ![i] = IdleRec] ELSE table
Forget(table, p) == ResetRec(table, GetIndex(table, p))

\* the record of p in the role and the state a message is meant for
Expects(table, p, role, state) ==
  LET i == GetIndex(table, p)
  IN  i \in Entries /\ table[i].role = role /\ table[i].state = state

Put(d, table) == keyEstablishRec' = [keyEstablishRec EXCEPT ![d] = table]
Change(d, i, r) == keyEstablishRec' = [keyEstablishRec EXCEPT ![d][i] = r]

Start(d, e) == timers' = [timers EXCEPT ![d] = @ \union {e}]
Stop(d, e) == timers' = [timers EXCEPT ![d] = @ \ {e}]

Msg(d, p, cmd, body) == [from |-> d, to |-> p, cmd |-> cmd, body |-> body]
With(bag, m) == bag (+) SetToBag({m})
Without(bag, m) == bag (-) SetToBag({m})

Send(m) == net' = With(net, m)
Take(m) == net' = Without(net, m)
Answer(m, cmd, body) == net' = With(Without(net, m), Msg(m.to, m.from, cmd, body))
Terminate(m) == Answer(m, "Terminate", <<>>)

Fail == faults < MaxFaults /\ faults' = faults + 1

NewEphemeral(d) == <<d, generated[d] + 1>>
Generate(d) == generated' = [generated EXCEPT ![d] = @ + 1]

\* the partner's remoteEphDataGenTime and remoteConfKeyGenTime, as the two ends tell them
EphDataGenTime(role) == IF role = "Responder" THEN EKeyTime ELSE EKeyTime + KeyTime
ConfKeyGenTime(role) == IF role = "Responder" THEN MacTime + KeyTime ELSE MacTime * 2

Key(r) == {r.ePublic, r.remote}
\* Mutant: the responder's ephemeral key is not in the MAC.
GenerateMACInitiatorOnly(r, ifMACu) ==
  <<ifMACu, IF r.role = "Initiator" THEN r.ePublic ELSE r.remote>>

GenerateMAC(r, ifMACu) ==
  IF (r.role = "Initiator") = ifMACu
  THEN <<ifMACu, r.ePublic, r.remote>> ELSE <<ifMACu, r.remote, r.ePublic>>

AddLinkKey(d, p, r) ==
  LET held == {q \in Devices : linkKey[d][q] # {}}
  IN  IF p \in held \/ Cardinality(held) < KeyRoom
      THEN /\ linkKey' = [linkKey EXCEPT ![d][p] = Key(r)]
           /\ stored' = stored \union {<<d, p, r.role, Key(r)>>}
      ELSE UNCHANGED <<linkKey, stored>>

-----------------------------------------------------------------------------
(* The application starts a key establishment *)

Calls(d, p) ==
  /\ starts[<<d, p>>] > 0 /\ d \notin wild
  /\ starts' = [starts EXCEPT ![<<d, p>>] = @ - 1]
  /\ UNCHANGED <<events, linkKey, wild, stored>>

InitiatorRec(d, p) == [IdleRec EXCEPT !.partner = p, !.state = "InitiatePending",
                                      !.ePublic = NewEphemeral(d)]

Initiate(d, p) ==
  LET table == Forget(keyEstablishRec[d], p)
      i == GetIndex(table, INVALID_PARTNER_ADDR)
  IN  /\ Calls(d, p) /\ i \in Entries
      /\ Put(d, [table EXCEPT ![i] = InitiatorRec(d, p)])
      /\ Generate(d) /\ Start(d, "aging") /\ Send(Msg(d, p, "Initiate", <<>>))
      /\ UNCHANGED <<faults, unaged>>

\* no entry, or no memory for the keys
InitiateNoRecord(d, p) ==
  LET table == Forget(keyEstablishRec[d], p)
  IN  /\ Calls(d, p)
      /\ \/ GetIndex(table, INVALID_PARTNER_ADDR) = NoEntry /\ UNCHANGED faults
         \/ GetIndex(table, INVALID_PARTNER_ADDR) \in Entries /\ Fail
      /\ Put(d, table)
      /\ UNCHANGED <<timers, net, generated, unaged>>

\* no memory for the certificate: the record stays, nothing is sent
InitiateNoCertificate(d, p) ==
  LET table == Forget(keyEstablishRec[d], p)
      i == GetIndex(table, INVALID_PARTNER_ADDR)
  IN  /\ Calls(d, p) /\ i \in Entries /\ Fail
      /\ Put(d, [table EXCEPT ![i] = InitiatorRec(d, p)])
      /\ Generate(d) /\ unaged' = unaged \union {d}
      /\ UNCHANGED <<timers, net>>

-----------------------------------------------------------------------------
(* Messages *)

Arrives(m, cmd) ==
  /\ m.cmd = cmd /\ m.to \notin wild
  /\ UNCHANGED <<starts, unaged>>

ReceiveInitiate(m) ==
  LET table == Forget(keyEstablishRec[m.to], m.from)
      i == GetIndex(table, INVALID_PARTNER_ADDR)
  IN  /\ Arrives(m, "Initiate")
      /\ \/ /\ i \in Entries
            /\ Put(m.to, [table EXCEPT ![i] =
                 [IdleRec EXCEPT !.partner = m.from, !.role = "Responder",
                                 !.state = "EDataPending", !.age = EphDataGenTime("Responder")]])
            /\ Start(m.to, "aging") /\ Answer(m, "InitiateRsp", <<>>)
            /\ UNCHANGED faults
         \/ \* the table is full, a field is refused, or there is no memory for the keys
            /\ IF i \in Entries THEN Fail ELSE UNCHANGED faults
            /\ Put(m.to, table) /\ Terminate(m) /\ UNCHANGED timers
         \/ \* no memory for the certificate
            /\ i \in Entries /\ Fail /\ Put(m.to, table) /\ Take(m) /\ UNCHANGED timers
      /\ UNCHANGED <<events, linkKey, generated, wild, stored>>

\* Mutant: a record in the wrong state is kept.
UnexpectedKeepsRecord(m, role, state) ==
  /\ ~ Expects(keyEstablishRec[m.to], m.from, role, state)
  /\ Terminate(m) /\ UNCHANGED keyEstablishRec

\* a message no record waits for: every handler stops the ageing timer first
Unexpected(m, role, state) ==
  /\ ~ Expects(keyEstablishRec[m.to], m.from, role, state)
  /\ Put(m.to, Forget(keyEstablishRec[m.to], m.from)) /\ Terminate(m)

ReceiveInitiateRsp(m) ==
  LET d == m.to  i == GetIndex(keyEstablishRec[d], m.from)
  IN  /\ Arrives(m, "InitiateRsp")
      /\ \/ Unexpected(m, "Initiator", "InitiatePending") /\ Stop(d, "aging") /\ UNCHANGED faults
         \/ /\ Expects(keyEstablishRec[d], m.from, "Initiator", "InitiatePending")
            /\ \/ /\ Change(d, i, [keyEstablishRec[d][i] EXCEPT
                              !.state = "EDataPending", !.age = EphDataGenTime("Initiator")])
                  /\ Start(d, "aging")
                  /\ Answer(m, "EDataReq", keyEstablishRec[d][i].ePublic)
                  /\ UNCHANGED faults
               \/ \* the suite, the certificate's address or its issuer is refused, or
                  \* there is no memory for the certificate
                  /\ Fail /\ Change(d, i, IdleRec) /\ Stop(d, "aging")
                  /\ Terminate(m) \/ Take(m)
      /\ UNCHANGED <<events, linkKey, generated, wild, stored>>

ReceiveEphemeralDataReq(m) ==
  LET d == m.to  i == GetIndex(keyEstablishRec[d], m.from)
  IN  /\ Arrives(m, "EDataReq")
      /\ \/ Unexpected(m, "Responder", "EDataPending") /\ Stop(d, "aging") /\ UNCHANGED generated
         \/ /\ Expects(keyEstablishRec[d], m.from, "Responder", "EDataPending")
            /\ Change(d, i, [keyEstablishRec[d][i] EXCEPT !.state = "KeyCalculatePending",
                        !.remote = m.body, !.ePublic = NewEphemeral(d)])
            /\ Generate(d) /\ Take(m)
            /\ timers' = [timers EXCEPT ![d] = (@ \ {"aging"}) \union {"cmd"}]
      /\ UNCHANGED <<events, linkKey, faults, wild, stored>>

ReceiveEphemeralDataRsp(m) ==
  LET d == m.to  i == GetIndex(keyEstablishRec[d], m.from)
  IN  /\ Arrives(m, "EDataRsp")
      /\ \/ Unexpected(m, "Initiator", "EDataPending") /\ Stop(d, "aging")
         \/ /\ Expects(keyEstablishRec[d], m.from, "Initiator", "EDataPending")
            /\ Change(d, i, [keyEstablishRec[d][i] EXCEPT
                        !.state = "KeyCalculatePending", !.remote = m.body])
            /\ Take(m)
            /\ timers' = [timers EXCEPT ![d] = (@ \ {"aging"}) \union {"rsp"}]
      /\ UNCHANGED <<events, linkKey, generated, faults, wild, stored>>

ReceiveConfirmKey(m) ==
  LET d == m.to  i == GetIndex(keyEstablishRec[d], m.from)
  IN  /\ Arrives(m, "Confirm") /\ Stop(d, "aging")
      /\ \/ Unexpected(m, "Responder", "ConfirmPending") /\ UNCHANGED <<linkKey, stored, faults>>
         \/ LET r == keyEstablishRec[d][i]
            IN  /\ Expects(keyEstablishRec[d], m.from, "Responder", "ConfirmPending")
                /\ Change(d, i, IdleRec)
                /\ \/ /\ m.body = GenerateMAC(r, TRUE) /\ AddLinkKey(d, m.from, r)
                      /\ \/ Answer(m, "ConfirmRsp", GenerateMAC(r, FALSE)) /\ UNCHANGED faults
                         \/ Fail /\ Answer(m, "ConfirmRsp", Garbage)
                   \/ /\ IF m.body = GenerateMAC(r, TRUE) THEN Fail ELSE UNCHANGED faults
                      /\ Terminate(m) /\ UNCHANGED <<linkKey, stored>>
      /\ UNCHANGED <<events, generated, wild>>

\* without a record it goes on with index MAX_KEY_ESTABLISHMENT_REC_ENTRY:
\* what that overwrites is unknown, and the device is followed no further
ReceiveConfirmKeyRsp(m) ==
  LET d == m.to  i == GetIndex(keyEstablishRec[d], m.from)
  IN  /\ Arrives(m, "ConfirmRsp") /\ Stop(d, "aging")
      /\ \/ /\ Unexpected(m, "Initiator", "ConfirmPending")
            /\ wild' = IF i = NoEntry THEN wild \union {d} ELSE wild
            /\ UNCHANGED <<linkKey, stored, faults>>
         \/ LET r == keyEstablishRec[d][i]
            IN  /\ Expects(keyEstablishRec[d], m.from, "Initiator", "ConfirmPending")
                /\ Change(d, i, IdleRec)
                /\ \/ /\ m.body = GenerateMAC(r, FALSE) /\ AddLinkKey(d, m.from, r)
                      /\ Take(m) /\ UNCHANGED faults
                   \/ /\ IF m.body = GenerateMAC(r, FALSE) THEN Fail ELSE UNCHANGED faults
                      /\ Terminate(m) /\ UNCHANGED <<linkKey, stored>>
                /\ UNCHANGED wild
      /\ UNCHANGED <<events, generated>>

ReceiveTerminate(m) ==
  /\ Arrives(m, "Terminate")
  /\ Put(m.to, Forget(keyEstablishRec[m.to], m.from)) /\ Take(m)
  /\ UNCHANGED <<timers, events, linkKey, generated, faults, wild, stored>>

Receive(m) ==
  \/ ReceiveInitiate(m) \/ ReceiveInitiateRsp(m)
  \/ ReceiveEphemeralDataReq(m) \/ ReceiveEphemeralDataRsp(m)
  \/ ReceiveConfirmKey(m) \/ ReceiveConfirmKeyRsp(m)
  \/ ReceiveTerminate(m)

-----------------------------------------------------------------------------
(* The task's timers and events *)

TimerExpires(d, e) ==
  /\ e \in timers[d] /\ d \notin wild
  /\ timers' = [timers EXCEPT ![d] = IF e = "aging" THEN @ ELSE @ \ {e}]
  /\ events' = [events EXCEPT ![d] = @ \union {e}]
  /\ UNCHANGED <<keyEstablishRec, linkKey, net, bounds, wild, unaged, stored>>

\* the first event of the handler's chain that is set
Handles(d, e) ==
  /\ e \in events[d] /\ d \notin wild
  /\ e = "cmd" => "aging" \notin events[d]
  /\ e = "rsp" => events[d] = {"rsp"}
  /\ events' = [events EXCEPT ![d] = @ \ {e}]
  /\ UNCHANGED <<linkKey, generated, starts, wild, unaged, stored>>

AgedTable(table) ==
  [i \in Entries |->
     IF table[i].partner = INVALID_PARTNER_ADDR THEN table[i]
     ELSE LET age == (table[i].age + 255) % 256
          IN  IF age = 0 THEN IdleRec ELSE [table[i] EXCEPT !.age = age]]

AgeKeyEstablishRec(d) ==
  LET table == AgedTable(keyEstablishRec[d])
  IN  /\ Handles(d, "aging")
      /\ Put(d, table)
      /\ IF \E i \in Entries : table[i].partner # INVALID_PARTNER_ADDR
         THEN UNCHANGED timers ELSE Stop(d, "aging")
      /\ UNCHANGED <<net, faults>>

\* both calculations take the first record that waits for one, whatever its role
Cmd_CalculateKey(d) ==
  LET i == GetIndex_State(keyEstablishRec[d], "KeyCalculatePending")
      r == keyEstablishRec[d][i]
  IN  /\ Handles(d, "cmd")
      /\ \/ i = NoEntry /\ UNCHANGED <<keyEstablishRec, timers, net, faults>>
         \/ /\ i \in Entries
            /\ Change(d, i, [r EXCEPT !.state = "ConfirmPending", !.age = ConfKeyGenTime(r.role)])
            /\ Send(Msg(d, r.partner, "EDataRsp", r.ePublic))
            /\ Start(d, "aging") /\ UNCHANGED faults
         \/ /\ i \in Entries /\ Fail /\ Change(d, i, IdleRec) /\ UNCHANGED timers
            /\ Send(Msg(d, r.partner, "Terminate", <<>>)) \/ UNCHANGED net

Rsp_CalculateKey(d) ==
  LET i == GetIndex_State(keyEstablishRec[d], "KeyCalculatePending")
      r == keyEstablishRec[d][i]
  IN  /\ Handles(d, "rsp")
      /\ \/ i = NoEntry /\ UNCHANGED <<keyEstablishRec, timers, net, faults>>
         \/ /\ i \in Entries
            /\ Change(d, i, [r EXCEPT !.state = "ConfirmPending", !.age = ConfKeyGenTime(r.role)])
            /\ Start(d, "aging")
            /\ \/ Send(Msg(d, r.partner, "Confirm", GenerateMAC(r, TRUE))) /\ UNCHANGED faults
               \/ Fail /\ Send(Msg(d, r.partner, "Confirm", Garbage))
         \/ /\ i \in Entries /\ Fail /\ Change(d, i, IdleRec) /\ UNCHANGED timers
            /\ Send(Msg(d, r.partner, "Terminate", <<>>)) \/ UNCHANGED net

-----------------------------------------------------------------------------
HandleEvent(d) == AgeKeyEstablishRec(d) \/ Cmd_CalculateKey(d) \/ Rsp_CalculateKey(d)

Next ==
  \/ \E s \in DOMAIN starts :
       \/ Initiate(s[1], s[2]) \/ InitiateNoRecord(s[1], s[2]) \/ InitiateNoCertificate(s[1], s[2])
  \/ \E m \in BagToSet(net) : Receive(m)
  \/ \E d \in Devices :
       \/ \E e \in Events : TimerExpires(d, e)
       \/ HandleEvent(d)

Fairness == \A d \in Devices :
  /\ WF_vars(HandleEvent(d))
  /\ \A e \in Events : WF_vars(TimerExpires(d, e))

Spec == Init /\ [][Next]_vars /\ Fairness
-----------------------------------------------------------------------------
(* Properties *)

Ephemerals == UNION {{d} \X (1..generated[d]) : d \in Devices}

\* Every record, timer, event and message is well formed, and no device has
\* two records of one partner: keyEstablishRec and AddKeyEstablishRec.
TypeOK ==
  /\ \A d \in Devices, i \in Entries :
       LET r == keyEstablishRec[d][i]
       IN  /\ r.partner \in (Devices \ {d}) \union {INVALID_PARTNER_ADDR}
           /\ r.role \in {"Initiator", "Responder"} /\ r.state \in States
           /\ r.age \in 1..RecExpiryTime
           /\ {r.ePublic, r.remote} \subseteq Ephemerals \union {NoKey}
           /\ r.partner = INVALID_PARTNER_ADDR <=> r.state = "Idle"
           /\ r.partner # INVALID_PARTNER_ADDR => GetIndex(keyEstablishRec[d], r.partner) = i
  /\ timers \in [Devices -> SUBSET Events] /\ events \in [Devices -> SUBSET Events]
  /\ \A d, p \in Devices :
       linkKey[d][p] # {} => linkKey[d][p] \subseteq Ephemerals /\ Cardinality(linkKey[d][p]) = 2
  /\ \A m \in BagToSet(net) : {m.from, m.to} \subseteq Devices

\* When the initiator stores a link key on the responder's confirmation, the
\* responder has stored the very same key for it, however messages of earlier
\* attempts are delayed -- unless the responder had no room for it, which
\* zclGeneral_ProcessInCmd_ConfirmKey does not look at.
KeysAgree ==
  \A s \in stored :
    LET d == s[1]  p == s[2]
        room == linkKey[p][d] # {} \/ Cardinality({q \in Devices : linkKey[p][q] # {}}) < KeyRoom
    IN  s[3] = "Initiator" /\ room => <<p, d, "Responder", s[4]>> \in stored

\* The tables are well formed and keys agree.
SessionsOK == TypeOK /\ KeysAgree

Partners(d) == {p \in Devices : {<<d, p>>, <<p, d>>} \intersect DOMAIN starts # {}}
Followed(d) == d \notin wild \union unaged
Empty(d) == \A i \in Entries : keyEstablishRec[d][i] = IdleRec

\* A device that establishes keys with one partner only does not keep a record
\* for ever, whatever is lost or late: the handlers that stop the ageing timer
\* go on with that record, restart the timer, or give the record up.
RecordsExpire ==
  \A d \in Devices : Cardinality(Partners(d)) = 1 => <>[](Followed(d) => Empty(d))

\* The same for every device.
EveryRecordExpires == \A d \in Devices : <>[](Followed(d) => Empty(d))
=============================================================================
