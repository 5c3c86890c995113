----------------------------- MODULE DdnsProofs ------------------------------
(***************************************************************************)
(* Proofs about Ddns, for every set of slots, records, names, hosts and    *)
(* zones.                                                                  *)
(***************************************************************************)
EXTENDS DdnsRefines, FiniteSetTheorems, SequenceTheorems, WellFoundedInduction, TLAPS

(* A nonempty set of natural numbers has a least element.                  *)
LEMMA LeastElement ==
    ASSUME NEW S \in SUBSET Nat, S # {}
    PROVE  \E i \in S : \A j \in S : i <= j
<1> DEFINE R == OpToRel(<, Nat)
<1>1. \E i \in S : \A j \in S : ~ (<<j, i>> \in R)
  BY WFMin, NatLessThanWellFounded, Zenon
<1>2. \A i, j \in Nat : <<j, i>> \in R <=> j < i
  BY DEF OpToRel
<1>3. PICK i \in S : \A j \in S : ~ (<<j, i>> \in R)
  BY <1>1
<1> HIDE DEF R
<1>4. \A j \in S : ~ (j < i)
  BY <1>2, <1>3
<1> QED
  BY <1>3, <1>4

(* check_local_ip yields the empty text or a public address of the list    *)
(* that is of the wanted family.                                           *)
LEMMA LocalIpPicked ==
    ASSUME NEW list \in Seq(Ifaddr), NEW f \in Family
    PROVE  LET pick == check_local_ip(list, f)
           IN  \/ pick = NoText
               \/ /\ pick # NoText
                  /\ pick \in Address
                  /\ pick.fam = f
                  /\ ip_valid(pick)
                  /\ \E i \in DOMAIN list : list[i] = pick
<1> DEFINE C == Candidates(list, f)
           c == CHOOSE i \in C : \A j \in C : i <= j
<1>1. CASE C = {}
  BY <1>1 DEF check_local_ip
<1>2. CASE C # {}
  <2>1. C \in SUBSET Nat
    BY LenProperties DEF Candidates
  <2>2. c \in C
    BY <2>1, <1>2, LeastElement
  <2>3. /\ c \in DOMAIN list
        /\ list[c].fam = f
        /\ ip_valid(list[c])
    BY <2>2 DEF Candidates
  <2>4. list[c] \in Ifaddr
    BY <2>3, LenProperties, ElementOfSeq
  <2>5. list[c] \in Address /\ list[c] # NoText
    BY <2>3, <2>4 DEF Ifaddr, Packet, NoAddr, NoText, Family
  <2>6. check_local_ip(list, f) = list[c]
    BY <1>2 DEF check_local_ip
  <2> HIDE DEF c
  <2> QED
    BY <2>3, <2>5, <2>6
<1> QED
  BY <1>1, <1>2

-----------------------------------------------------------------------------
(* The constants the requests are built from are requests.                 *)
LEMMA TextTypes ==
    /\ NoText \in Text /\ Junk \in Text
    /\ NewIpaddress \in Ipaddress
BY DEF Text, NewIpaddress, Ipaddress

LEMMA ObjectUpdates ==
    ASSUME NEW o \in Ipaddress, NEW b \in BOOLEAN, NEW t \in Text
    PROVE  /\ [o EXCEPT !.valid_ipwan = b, !.ip_local = t] \in Ipaddress
           /\ [o EXCEPT !.ip_wan = t] \in Ipaddress
BY DEF Ipaddress

LEMMA Uint32Type == ASSUME NEW id \in RecordId PROVE Uint32(id) \in Nat
<1>1. RecordId \subseteq Nat /\ Word32 \in Nat \ {0}
  BY DdnsAssumption
<1>2. id \in Int /\ Word32 \in Int /\ Word32 > 0
  BY <1>1
<1> QED
  BY <1>2 DEF Uint32

(* An answer of the service is a list of entries.                          *)
LEMMA ListedFinite ==
    ASSUME NEW z PROVE IsFiniteSet(Listed(z)) /\ Cardinality(Listed(z)) \in Nat
BY DdnsAssumption, FS_Subset, FS_CardinalityType DEF Listed

LEMMA AnswerType ==
    ASSUME NEW z \in [RecordId -> Record], NEW rank,
           NEW p \in InOrder(Listed(z), rank)
    PROVE  /\ RecordList(p, z) \in Seq(Entry)
           /\ \A k \in DOMAIN RecordList(p, z) :
                 p[k] \in Listed(z) /\ RecordList(p, z)[k] = EntryOf(p[k], z)
           /\ \A i, j \in DOMAIN RecordList(p, z) : i < j => rank[p[i]] < rank[p[j]]
<1> DEFINE n == Cardinality(Listed(z))
           a == RecordList(p, z)
<1>1. n \in Nat
  BY ListedFinite
<1>2. ASSUME NEW k \in 1 .. n PROVE p[k] \in Listed(z) /\ EntryOf(p[k], z) \in Entry
  <2>1. p[k] \in Listed(z)
    BY DEF InOrder
  <2>2. p[k] \in RecordId
    BY <2>1 DEF Listed
  <2> QED
    BY <2>1, <2>2 DEF EntryOf, Entry, Record
<1>3. a \in [1 .. n -> Entry] /\ \A k \in 1 .. n : a[k] = EntryOf(p[k], z)
  BY <1>2 DEF RecordList
<1>4. \A i, j \in 1 .. n : i < j => rank[p[i]] < rank[p[j]]
  BY DEF InOrder
<1>5. a \in Seq(Entry)
  <2> HIDE DEF n, a
  <2> QED
    BY <1>1, <1>3, SeqDef
<1> HIDE DEF n, a
<1> QED
  BY <1>2, <1>3, <1>4, <1>5 DEF a

(* Init establishes the type invariant.                                    *)
LEMMA TypeInit == Init => TypeOK
<1> SUFFICES ASSUME Init PROVE TypeOK
  OBVIOUS
<1> USE DEF Init
<1>1. zone \in [RecordId -> Record] /\ host \in held /\ held \subseteq HostStates /\ calm \in BOOLEAN
  BY DdnsAssumption
<1>2. net \subseteq Request
  OBVIOUS
<1>3. pc \in [Run -> PcStates] /\ fam \in [Run -> Family]
  BY DEF PcStates, Family
<1>4. ip \in [Run -> [Family -> Ipaddress]]
  BY TextTypes
<1>5. resp \in [Run -> Seq(Entry)] /\ answered \in [Run -> BOOLEAN]
  BY EmptySeq
<1>6. rec \in [Run -> [Family -> Seq(Entry)]]
  BY EmptySeq
<1>7. \A r \in Run, f \in Family : DOMAIN rec[r][f] = {}
  BY EmptySeq, LenProperties
<1>8. it \in [Run -> Nat \ {0}]
  OBVIOUS
<1> QED
  BY <1>1, <1>2, <1>3, <1>4, <1>5, <1>6, <1>7, <1>8 DEF TypeOK

(* One stage of main is followed by the same stage for IPv6 or by the next.*)
LEMMA NextFamily ==
    ASSUME pc \in [Run -> PcStates], fam \in [Run -> Family],
           NEW r \in Run, NEW here \in PcStates, NEW next \in PcStates,
           NextFamilyOr(r, here, next)
    PROVE  /\ pc' \in [Run -> PcStates]
           /\ fam' \in [Run -> Family]
           /\ pc'[r] \in {here, next}
           /\ \A s \in Run : s # r => pc'[s] = pc[s]
BY DEF NextFamilyOr, Family

(* Every step of an invocation, of the service and of the rest of the      *)
(* world preserves it.                                                     *)
LEMMA TypeLocal ==
    ASSUME TypeOK, NEW r \in Run,
           Start(r) \/ CheckLocalIp(r) \/ CheckNatWanIp(r) \/ SendList(r) \/ RecvList(r)
    PROVE  TypeOK'
<1> USE DEF TypeOK, world
<1>1. CASE Start(r)
  BY <1>1 DEF Start, PcStates
<1>2. CASE CheckLocalIp(r)
  <2> DEFINE pick == check_local_ip(host.ifaddrs, fam[r])
  <2>1. host.ifaddrs \in Seq(Ifaddr)
    BY DdnsAssumption DEF Host
  <2>2. pick \in Text
    BY <2>1, LocalIpPicked DEF Text
  <2> DEFINE o == [ip[r][fam[r]] EXCEPT !.valid_ipwan = (pick # NoText),
                                        !.ip_local = pick]
  <2>3. o \in Ipaddress
    <3>1. ip[r][fam[r]] \in Ipaddress
      OBVIOUS
    <3>2. (pick # NoText) \in BOOLEAN
      OBVIOUS
    <3> HIDE DEF pick
    <3> QED
      BY <2>2, <3>1, <3>2, ObjectUpdates
  <2>4. ip' = [ip EXCEPT ![r][fam[r]] = o]
    BY <1>2 DEF CheckLocalIp
  <2>5. ip' \in [Run -> [Family -> Ipaddress]]
    <3> HIDE DEF o
    <3> QED
      BY <2>3, <2>4
  <2>6. NextFamilyOr(r, "local", "wan") /\ "local" \in PcStates /\ "wan" \in PcStates
    BY <1>2 DEF CheckLocalIp, PcStates
  <2> QED
    BY <1>2, <2>5, <2>6, NextFamily DEF CheckLocalIp
<1>3. CASE CheckNatWanIp(r)
  <2>1. PICK body \in EchoBodies(fam[r]) :
           ip' = [ip EXCEPT ![r][fam[r]] = [@ EXCEPT !.ip_wan = decode_ipwan(body)]]
    BY <1>3 DEF CheckNatWanIp
  <2>2. host \in Host
    BY DdnsAssumption
  <2>3. \A f \in Family : EchoSees(f) \in Text
    BY <2>2 DEF EchoSees, Host, Family
  <2>4. body.text \in Text
    <3>1. \/ body = Body(EchoSees(fam[r]), <<"\n">>)
          \/ \E t \in FailedBodies : body = Body(t, <<>>)
      BY <2>1 DEF EchoBodies
    <3>2. EchoSees(fam[r]) \in Text /\ FailedBodies \subseteq Text
      BY <2>3, DdnsAssumption, TextTypes
    <3> QED
      BY <3>1, <3>2 DEF Body
  <2>5. decode_ipwan(body) \in Text
    BY <2>4, TextTypes DEF decode_ipwan
  <2> DEFINE o == [ip[r][fam[r]] EXCEPT !.ip_wan = decode_ipwan(body)]
  <2>6. o \in Ipaddress
    <3>1. ip[r][fam[r]] \in Ipaddress
      OBVIOUS
    <3> QED
      BY <2>5, <3>1, ObjectUpdates
  <2>7. ip' = [ip EXCEPT ![r][fam[r]] = o]
    BY <2>1
  <2>8. ip' \in [Run -> [Family -> Ipaddress]]
    <3> HIDE DEF o
    <3> QED
      BY <2>6, <2>7
  <2>9. NextFamilyOr(r, "wan", "list") /\ "list" \in PcStates /\ "wan" \in PcStates
    BY <1>3 DEF CheckNatWanIp, PcStates
  <2> QED
    BY <1>3, <2>8, <2>9, NextFamily DEF CheckNatWanIp
<1>4. CASE SendList(r)
  <2>1. ListRequest(r) \in Request
    BY TextTypes DEF ListRequest, Request, RecordType
  <2> QED
    BY <1>4, <2>1 DEF SendList, PcStates
<1>5. CASE RecvList(r)
  BY <1>5 DEF RecvList, PcStates
<1> QED
  BY <1>1, <1>2, <1>3, <1>4, <1>5

(* A vector of records of one type stays one when a record is appended.    *)
LEMMA AppendKeepsType ==
    ASSUME NEW S, NEW old \in Seq(S), NEW new \in S, \A k \in DOMAIN old : old[k].type = new.type
    PROVE  \A k \in DOMAIN Append(old, new) : Append(old, new)[k].type = new.type
<1>1. PICK N \in Nat : N = Len(old) /\ DOMAIN old = 1 .. N
  BY LenProperties
<1>2. PICK w : w = Append(old, new)
  OBVIOUS
<1>3. /\ w \in Seq(S) /\ Len(w) = N + 1 /\ w[N + 1] = new
      /\ \A k \in 1 .. N : w[k] = old[k]
  BY <1>1, <1>2, AppendProperties
<1>4. DOMAIN w = 1 .. N + 1
  BY <1>3, LenProperties
<1>5. ASSUME NEW k \in 1 .. N + 1 PROVE w[k].type = new.type
  <2>1. k \in 1 .. N \/ k = N + 1
    BY <1>1
  <2> QED
    BY <1>1, <1>3, <2>1
<1> QED
  BY <1>2, <1>4, <1>5

LEMMA TypeList ==
    ASSUME TypeOK, NEW r \in Run,
           ListFails(r) \/ DecodeEntry(r) \/ DecodeEnds(r)
    PROVE  TypeOK'
<1> USE DEF TypeOK, world
<1>1. ASSUME BeginTrim(r)
      PROVE  /\ pc' \in [Run -> PcStates]
             /\ resp' \in [Run -> Seq(Entry)]
             /\ it' \in [Run -> Nat \ {0}]
             /\ \A s \in Run : pc'[s] \in {"delete", "deleting"} => it'[s] > 1
  BY <1>1, EmptySeq DEF BeginTrim, PcStates
<1>2. CASE ListFails(r)
  BY <1>1, <1>2 DEF ListFails
<1>3. CASE DecodeEntry(r)
  <2> DEFINE e == resp[r][it[r]]
  <2>1. it' \in [Run -> Nat \ {0}] /\ it'[r] = it[r] + 1 /\ \A s \in Run : s # r => it'[s] = it[s]
    BY <1>3 DEF DecodeEntry
  <2>2. CASE rec' = rec
    <3>1. UNCHANGED <<zone, host, held, calm, net, pc, fam, ip, resp, answered, rec>> /\ pc[r] = "decode"
      BY <1>3, <2>2 DEF DecodeEntry
    <3>2. \A s \in Run : pc'[s] \in {"delete", "deleting"} => it'[s] > 1
      BY <2>1, <3>1
    <3> QED
      BY <2>1, <3>1, <3>2
  <2>3. CASE e.type \in Family /\ rec' = [rec EXCEPT ![r][e.type] = Append(@, e)]
    <3>1. e \in Entry
      BY <1>3, ElementOfSeq, LenProperties DEF DecodeEntry
    <3> DEFINE v == Append(rec[r][e.type], e)
    <3>2. /\ v \in Seq(Entry)
          /\ \A k \in DOMAIN v : v[k].type = e.type
      <4>1. PICK old, new :
                /\ old = rec[r][e.type] /\ new = e /\ old \in Seq(Entry) /\ new \in Entry
                /\ \A k \in DOMAIN old : old[k].type = new.type
        BY <2>3, <3>1
      <4>2. Append(old, new) \in Seq(Entry)
        BY <4>1, AppendProperties
      <4>3. \A k \in DOMAIN Append(old, new) : Append(old, new)[k].type = new.type
        <5> HIDE DEF TypeOK, v, e
        <5> QED
          BY <4>1, AppendKeepsType
      <4> QED
        BY <4>1, <4>2, <4>3
    <3>3. rec' = [rec EXCEPT ![r][e.type] = v]
      BY <2>3
    <3>4. UNCHANGED <<zone, host, held, calm, net, pc, fam, ip, resp, answered>>
      BY <1>3 DEF DecodeEntry
    <3> HIDE DEF v, e
    <3>5. rec' \in [Run -> [Family -> Seq(Entry)]]
      BY <2>3, <3>2, <3>3
    <3>6. \A s \in Run, f \in Family : \A k \in DOMAIN rec'[s][f] : rec'[s][f][k].type = f
      BY <2>3, <3>2, <3>3, SMTT(30)
    <3>7. \A s \in Run : pc'[s] \in {"delete", "deleting"} => it'[s] > 1
      BY <1>3, <2>1, <3>4 DEF DecodeEntry
    <3> QED
      BY <2>1, <3>4, <3>5, <3>6, <3>7
  <2> QED
    BY <1>3, <2>2, <2>3 DEF DecodeEntry
<1>4. CASE DecodeEnds(r)
  BY <1>1, <1>4 DEF DecodeEnds
<1> QED
  BY <1>2, <1>3, <1>4

(* A terminated invocation leaves a slot as Init does.                     *)
LEMMA TypeTerminate ==
    ASSUME TypeOK, NEW r \in Run, Terminate(r), UNCHANGED world
    PROVE  TypeOK'
<1> USE DEF TypeOK, world, Terminate
<1>1. UNCHANGED <<zone, host, held, calm, net>>
  OBVIOUS
<1>2. pc' \in [Run -> PcStates] /\ fam' \in [Run -> Family]
  BY DEF PcStates, Family
<1>3. ip' \in [Run -> [Family -> Ipaddress]]
  BY TextTypes
<1>4. resp' \in [Run -> Seq(Entry)] /\ rec' \in [Run -> [Family -> Seq(Entry)]]
  BY EmptySeq
<1>5. answered' \in [Run -> BOOLEAN] /\ it' \in [Run -> Nat \ {0}]
  OBVIOUS
<1>6. DOMAIN <<>> = {}
  BY EmptySeq, LenProperties
<1>7. \A s \in Run, f \in Family : \A k \in DOMAIN rec'[s][f] : rec'[s][f][k].type = f
  BY <1>6
<1>8. \A s \in Run : pc'[s] \in {"delete", "deleting"} => it'[s] > 1
  OBVIOUS
<1> HIDE DEF Terminate
<1> QED
  BY <1>1, <1>2, <1>3, <1>4, <1>5, <1>7, <1>8

LEMMA TypeChange ==
    ASSUME TypeOK, NEW r \in Run,
           \/ SendDelete(r) \/ DeleteReturns(r) \/ TrimEnds(r)
           \/ SendModify(r) \/ SkipModify(r) \/ ModifyReturns(r) \/ Crash(r)
    PROVE  TypeOK'
<1> USE DEF TypeOK
<1>1. \A f \in Family : \A k \in DOMAIN rec[r][f] : rec[r][f][k] \in Entry
  BY ElementOfSeq, LenProperties
<1>2. CASE SendDelete(r)
  <2> DEFINE id == rec[r][fam[r]][it[r]].id
  <2>1. id \in RecordId
    BY <1>1, <1>2, LenProperties DEF SendDelete, Entry
  <2>2. Uint32(id) \in Nat
    BY <2>1, Uint32Type
  <2>3. DeleteRequest(r, id) \in Request
    BY <2>2, TextTypes DEF DeleteRequest, Request, RecordType
  <2> QED
    BY <1>2, <2>3 DEF SendDelete, PcStates
<1>3. CASE DeleteReturns(r)
  BY <1>3 DEF DeleteReturns, PcStates, world
<1>4. CASE TrimEnds(r)
  <2>1. NextFamilyOr(r, "delete", "match") /\ "delete" \in PcStates /\ "match" \in PcStates
    BY <1>4 DEF TrimEnds, PcStates
  <2> QED
    BY <1>4, <2>1, NextFamily DEF TrimEnds, world
<1>5. CASE SendModify(r)
  <2> DEFINE e == rec[r][fam[r]][1]
  <2>1. e \in Entry
    BY <1>1, <1>5, LenProperties, EmptySeq DEF SendModify
  <2>2. ip[r][fam[r]] \in Ipaddress
    OBVIOUS
  <2>3. ModifyRequest(r, e, ip[r][fam[r]].ip_local) \in Request
    BY <2>1, <2>2, DdnsAssumption DEF ModifyRequest, Request, Entry, Ipaddress
  <2> QED
    BY <1>5, <2>3 DEF SendModify, PcStates
<1>6. ASSUME NextMatchOrReturn(r), UNCHANGED world PROVE TypeOK'
  <2>1. CASE fam[r] = "A"
    <3>1. /\ UNCHANGED <<zone, host, held, calm, net, ip, resp, rec, it>>
          /\ fam' = [fam EXCEPT ![r] = "AAAA"]
          /\ pc' = [pc EXCEPT ![r] = "match"]
          /\ answered' = [answered EXCEPT ![r] = FALSE]
      BY <1>6, <2>1 DEF NextMatchOrReturn, world
    <3> QED
      BY <3>1 DEF PcStates, Family
  <2>2. CASE fam[r] # "A"
    BY <1>6, <2>2, TypeTerminate DEF NextMatchOrReturn
  <2> QED
    BY <2>1, <2>2
<1>7. CASE SkipModify(r)
  BY <1>6, <1>7 DEF SkipModify
<1>8. CASE ModifyReturns(r)
  BY <1>6, <1>8 DEF ModifyReturns
<1>9. CASE Crash(r)
  BY <1>9, TypeTerminate DEF Crash
<1> QED
  BY <1>2, <1>3, <1>4, <1>5, <1>7, <1>8, <1>9

LEMMA TypeService ==
    ASSUME TypeOK, NEW m \in net, ServeList(m) \/ ServeDelete(m) \/ ServeModify(m)
    PROVE  TypeOK'
<1> USE DEF TypeOK
<1>0. m \in Request /\ m.run \in Run /\ m.type \in RecordType /\ m.value \in Text
  BY DEF Request
<1>1. ASSUME Answer(m) PROVE net' \subseteq Request /\ answered' \in [Run -> BOOLEAN]
  BY <1>1 DEF Answer
<1>2. CASE ServeList(m)
  <2>1. resp' \in [Run -> Seq(Entry)]
    <3>1. PICK rank \in Ranks : \E p \in InOrder(Listed(zone), rank) :
            resp' = IF Waiting(m) THEN [resp EXCEPT ![m.run] = RecordList(p, zone)]
                                  ELSE resp
      BY <1>2 DEF ServeList
    <3>2. zone \in [RecordId -> Record] /\ resp \in [Run -> Seq(Entry)]
      OBVIOUS
    <3>3. \A p \in InOrder(Listed(zone), rank) : RecordList(p, zone) \in Seq(Entry)
      <4> HIDE DEF TypeOK
      <4> QED
        BY <3>2, AnswerType
    <3> HIDE DEF TypeOK
    <3> QED
      BY <1>0, <3>1, <3>2, <3>3
  <2> QED
    BY <1>1, <1>2, <2>1 DEF ServeList
<1>3. CASE ServeDelete(m)
  <2>1. ASSUME Exists(m.id)
        PROVE  [zone EXCEPT ![m.id] = [@ EXCEPT !.state = "gone", !.value = NoText]]
                  \in [RecordId -> Record]
    <3>1. m.id \in RecordId /\ zone[m.id] \in Record
      BY <2>1 DEF Exists
    <3> DEFINE d == [zone[m.id] EXCEPT !.state = "gone", !.value = NoText]
    <3>2. d \in Record
      BY <3>1, TextTypes DEF Record
    <3>3. [zone EXCEPT ![m.id] = d] \in [RecordId -> Record]
      <4> HIDE DEF d
      <4> QED
        BY <3>1, <3>2
    <3> QED
      BY <3>3
  <2>2. zone' \in [RecordId -> Record]
    BY <1>3, <2>1 DEF ServeDelete
  <2> QED
    BY <1>1, <1>3, <2>2 DEF ServeDelete
<1>4. CASE ServeModify(m)
  <2>1. ASSUME Exists(m.id)
        PROVE  [zone EXCEPT ![m.id] = [@ EXCEPT !.name = ServedName, !.type = m.type,
                                                !.value = m.value]]
                  \in [RecordId -> Record]
    <3>1. ServedName \in Name
      BY DdnsAssumption
    <3>2. m.id \in RecordId /\ zone[m.id] \in Record
      BY <2>1 DEF Exists
    <3> DEFINE d == [zone[m.id] EXCEPT !.name = ServedName, !.type = m.type,
                                       !.value = m.value]
    <3>3. d \in Record
      BY <1>0, <3>1, <3>2 DEF Record
    <3>4. [zone EXCEPT ![m.id] = d] \in [RecordId -> Record]
      <4> HIDE DEF d
      <4> QED
        BY <3>2, <3>3
    <3> QED
      BY <3>4
  <2>2. zone' \in [RecordId -> Record]
    BY <1>4, <2>1 DEF ServeModify
  <2> QED
    BY <1>1, <1>4, <2>2 DEF ServeModify
<1> QED
  BY <1>2, <1>3, <1>4

LEMMA TypeWorld ==
    ASSUME TypeOK,
           (\E m \in net : Lose(m)) \/ Redial \/ AddRecord \/ BecomeCalm
    PROVE  TypeOK'
<1> USE DEF TypeOK, mem
<1>1. CASE \E m \in net : Lose(m)
  BY <1>1 DEF Lose
<1>2. CASE Redial
  BY <1>2 DEF Redial
<1>3. CASE AddRecord
  <2>1. zone' \in [RecordId -> Record]
    BY <1>3, DdnsAssumption DEF AddRecord
  <2> QED
    BY <1>3, <2>1 DEF AddRecord
<1>4. CASE BecomeCalm
  BY <1>4 DEF BecomeCalm
<1> QED
  BY <1>1, <1>2, <1>3, <1>4

(* The variables keep their types, the two vectors stay apart and the      *)
(* trimming loop never stands on the first element, for every instance.    *)
THEOREM TypeCorrect == Spec => []TypeOK
<1>1. TypeOK /\ [Next]_vars => TypeOK'
  <2> SUFFICES ASSUME TypeOK, [Next]_vars PROVE TypeOK'
    OBVIOUS
  <2>1. CASE UNCHANGED vars
    BY <2>1 DEF vars, TypeOK
  <2>2. CASE \E r \in Run : Start(r) \/ Step(r) \/ Crash(r) \/ Serve(r)
    BY <2>2, TypeLocal, TypeList, TypeChange, TypeService DEF Step, Serve
  <2>3. CASE (\E m \in net : Lose(m)) \/ Redial \/ AddRecord \/ BecomeCalm
    BY <2>3, TypeWorld
  <2> QED
    BY <2>1, <2>2, <2>3 DEF Next
<1> QED
  BY <1>1, TypeInit, PTL DEF Spec

-----------------------------------------------------------------------------
(* One listing order for all is a strict order on the records.             *)
LEMMA BeforeIsOrder ==
    ASSUME FixedOrder, NEW i \in RecordId, NEW j \in RecordId, NEW k \in RecordId
    PROVE  /\ ~Before(i, i)
           /\ Before(i, j) /\ Before(j, k) => Before(i, k)
<1>1. PICK rank : Ranks = {rank}
  BY DEF FixedOrder
<1>2. rank \in [RecordId -> Nat]
  BY <1>1, DdnsAssumption
<1> QED
  BY <1>1, <1>2 DEF Before

(* What a change of the zone leaves valid: the knowledge of names and      *)
(* types, and every keeper or a keeper of that keeper.                     *)
ZoneKept(y, z) ==
    /\ \A id, n, t : Known(y, id, n, t) => Known(z, id, n, t)
    /\ \A id : \A f \in Family : HasKeeper(y, id, f) => HasKeeper(z, id, f)

(* DeleteRecord takes a record that has a keeper itself.                   *)
LEMMA DeleteKeeps ==
    ASSUME TypeOK, TwinsInv, FixedOrder, NEW m \in net, ServeDelete(m)
    PROVE  ZoneKept(zone, zone')
<1>1. CASE ~Exists(m.id)
  BY <1>1 DEF ServeDelete, ZoneKept
<1>2. CASE Exists(m.id)
  <2>1. zone \in [RecordId -> Record] /\ m.id \in RecordId
    BY <1>2 DEF TypeOK, Exists
  <2>2. zone' = [zone EXCEPT ![m.id] = [@ EXCEPT !.state = "gone", !.value = NoText]]
    BY <1>2 DEF ServeDelete
  <2>3. /\ \A id \in RecordId : id # m.id => zone'[id] = zone[id]
        /\ zone'[m.id].state = "gone"
        /\ zone'[m.id].name = zone[m.id].name
        /\ zone'[m.id].type = zone[m.id].type
    BY <2>1, <2>2 DEF Record
  <2>4. ASSUME NEW id, NEW n, NEW t, Known(zone, id, n, t) PROVE Known(zone', id, n, t)
    BY <2>3, <2>4 DEF Known
  <2>5. PICK g \in Family : HasKeeper(zone, m.id, g)
    BY DEF TwinsInv, Keepers, ServeDelete
  <2>6. PICK h \in Served(zone, g) : Before(h, m.id)
    BY <2>5 DEF HasKeeper
  <2>7. h \in RecordId /\ h # m.id /\ h \in Served(zone', g)
    BY <2>1, <2>3, <2>6, BeforeIsOrder DEF Served
  <2>8. ASSUME NEW id, NEW f \in Family, HasKeeper(zone, id, f)
        PROVE  HasKeeper(zone', id, f)
    <3>1. PICK k \in Served(zone, f) : Before(k, id)
      BY <2>8 DEF HasKeeper
    <3>2. Known(zone', id, ServedName, f) /\ id \in RecordId
      BY <2>4, <2>8 DEF HasKeeper, Known
    <3>3. CASE k # m.id
      BY <2>3, <3>1, <3>2, <3>3 DEF HasKeeper, Served
    <3>4. CASE k = m.id
      <4>1. f = g
        BY <2>5, <3>1, <3>4 DEF HasKeeper, Known, Served
      <4>2. Before(h, id)
        BY <2>1, <2>6, <2>7, <3>1, <3>2, <3>4, BeforeIsOrder
      <4> QED
        BY <2>7, <3>2, <4>1, <4>2 DEF HasKeeper
    <3> QED
      BY <3>3, <3>4
  <2> QED
    BY <2>4, <2>8 DEF ZoneKept
<1> QED
  BY <1>1, <1>2

(* ModifyRecord writes the name and type the record already has.           *)
LEMMA ModifyKeeps ==
    ASSUME TypeOK, TwinsInv, NEW m \in net, ServeModify(m)
    PROVE  ZoneKept(zone, zone')
<1>1. CASE ~Exists(m.id)
  BY <1>1 DEF ServeModify, ZoneKept
<1>2. CASE Exists(m.id)
  <2>1. zone \in [RecordId -> Record] /\ m.id \in RecordId
    BY <1>2 DEF TypeOK, Exists
  <2>2. zone' = [zone EXCEPT ![m.id] = [@ EXCEPT !.name = ServedName, !.type = m.type,
                                                !.value = m.value]]
    BY <1>2 DEF ServeModify
  <2>3. zone[m.id].name = ServedName /\ zone[m.id].type = m.type
    BY DEF TwinsInv, Knowledge, Known, ServeModify
  <2>4. \A id \in RecordId : /\ zone'[id].state = zone[id].state
                             /\ zone'[id].name = zone[id].name
                             /\ zone'[id].type = zone[id].type
    BY <2>1, <2>2, <2>3 DEF Record
  <2> QED
    BY <2>4 DEF ZoneKept, HasKeeper, Known, Served
<1> QED
  BY <1>1, <1>2

(* A new record takes a fresh id, which nobody knows.                      *)
LEMMA AddKeeps ==
    ASSUME TypeOK, AddRecord
    PROVE  ZoneKept(zone, zone')
<1>1. PICK id \in RecordId, new \in NewRecords :
         zone[id].state = "fresh" /\ zone' = [zone EXCEPT ![id] = new]
  BY DEF AddRecord
<1>2. \A i \in RecordId : zone[i].state # "fresh" => zone'[i] = zone[i]
  BY <1>1 DEF TypeOK
<1> QED
  BY <1>2 DEF ZoneKept, HasKeeper, Known, Served

(* A step that puts no delete or modify on the wire and adds nothing to    *)
(* what an invocation remembers preserves the keepers and the knowledge.   *)
LEMMA NothingLearnt ==
    ASSUME TwinsInv, ZoneKept(zone, zone'),
           \A m \in net' : m.op \in {"delete", "modify"} => m \in net,
           \A r \in Run, f \in Family : rec'[r][f] \in {rec[r][f], <<>>},
           \A r \in Run : resp'[r] \in {resp[r], <<>>}
    PROVE  Keepers' /\ Knowledge'
<1>1. DOMAIN <<>> = {}
  BY EmptySeq, LenProperties
<1>2. Keepers'
  <2>1. ASSUME NEW m \in net', m.op = "delete"
        PROVE  \E f \in Family : HasKeeper(zone', m.id, f)
    BY <2>1 DEF TwinsInv, Keepers, ZoneKept
  <2>2. ASSUME NEW r \in Run, NEW f \in Family, NEW k \in DOMAIN rec'[r][f], k > 1
        PROVE  HasKeeper(zone', rec'[r][f][k].id, f)
    BY <1>1, <2>2 DEF TwinsInv, Keepers, ZoneKept
  <2>3. ASSUME NEW r \in Run, NEW f \in Family,
               NEW i \in DOMAIN resp'[r], NEW j \in DOMAIN resp'[r],
               i < j, Matches(resp'[r][i], f), Matches(resp'[r][j], f)
        PROVE  HasKeeper(zone', resp'[r][j].id, f)
    BY <1>1, <2>3 DEF TwinsInv, Keepers, ZoneKept
  <2> QED
    BY <2>1, <2>2, <2>3 DEF Keepers
<1>3. Knowledge'
  <2>1. ASSUME NEW m \in net', m.op = "modify"
        PROVE  m.type \in Family /\ Known(zone', m.id, ServedName, m.type)
    BY <2>1 DEF TwinsInv, Knowledge, ZoneKept
  <2>2. ASSUME NEW r \in Run, NEW f \in Family, NEW k \in DOMAIN rec'[r][f]
        PROVE  Known(zone', rec'[r][f][k].id, ServedName, f)
    BY <1>1, <2>2 DEF TwinsInv, Knowledge, ZoneKept
  <2>3. ASSUME NEW r \in Run, NEW j \in DOMAIN resp'[r]
        PROVE  Known(zone', resp'[r][j].id, resp'[r][j].name, resp'[r][j].type)
    BY <1>1, <2>3 DEF TwinsInv, Knowledge, ZoneKept
  <2> QED
    BY <2>1, <2>2, <2>3 DEF Knowledge
<1> QED
  BY <1>2, <1>3

LEMMA SameZone == ZoneKept(zone, zone)
BY DEF ZoneKept

Early == {"idle", "local", "wan", "list", "listing"}
Late  == {"delete", "deleting", "match", "modifying"}

(* A step of one invocation that does not touch its vectors.               *)
LEMMA DecodingFrame ==
    ASSUME TypeOK, TypeOK', TwinsInv, NEW r \in Run, rec' = rec,
           \A s \in Run : s # r => pc'[s] = pc[s] /\ resp'[s] = resp[s] /\ it'[s] = it[s],
           pc[r] \in Early \/ pc'[r] \in Late
    PROVE  Decoding'
<1>1. ASSUME NEW s \in Run, NEW f \in Family, pc'[s] \in Early
      PROVE  rec'[s][f] = <<>>
  BY <1>1 DEF TwinsInv, Decoding, Early, Late
<1>2. ASSUME NEW s \in Run, NEW f \in Family, pc'[s] = "decode", rec'[s][f] # <<>>
      PROVE  \E i \in DOMAIN resp'[s] : i < it'[s] /\ Matches(resp'[s][i], f)
  BY <1>2 DEF TwinsInv, Decoding, Early, Late
<1> QED
  BY <1>1, <1>2 DEF Decoding, Early

(* The end of an invocation, by return or crash, forgets.                  *)
LEMMA TwinsTerminate ==
    ASSUME TypeOK, TwinsInv, NEW r \in Run, Terminate(r), UNCHANGED world
    PROVE  TwinsInv'
<1>1. UNCHANGED <<zone, net>>
  BY DEF world
<1>2. /\ \A s \in Run : s # r => /\ pc'[s] = pc[s] /\ rec'[s] = rec[s]
                                 /\ resp'[s] = resp[s] /\ it'[s] = it[s]
      /\ pc'[r] = "idle" /\ resp'[r] = <<>> /\ \A f \in Family : rec'[r][f] = <<>>
  BY DEF Terminate, TypeOK
<1>3. Keepers' /\ Knowledge'
  BY <1>1, <1>2, SameZone, NothingLearnt
<1>4. Decoding'
  BY <1>2 DEF TwinsInv, Decoding
<1> QED
  BY <1>3, <1>4 DEF TwinsInv

(* Steps of an invocation that remember nothing new.                       *)
LEMMA TwinsQuiet ==
    ASSUME TypeOK, TypeOK', TwinsInv, NEW r \in Run,
           \/ Start(r) \/ CheckLocalIp(r) \/ CheckNatWanIp(r) \/ SendList(r)
           \/ RecvList(r) \/ ListFails(r) \/ DecodeEnds(r) \/ DeleteReturns(r)
           \/ TrimEnds(r)
    PROVE  TwinsInv'
<1>1. UNCHANGED <<zone, rec>> /\ \A m \in net' : m.op # "list" => m \in net
  BY DEF Start, CheckLocalIp, CheckNatWanIp, SendList, RecvList, ListFails,
         DecodeEnds, DeleteReturns, TrimEnds, world, ListRequest
<1>2. \A s \in Run : s # r => pc'[s] = pc[s] /\ resp'[s] = resp[s] /\ it'[s] = it[s]
  <2>1. CASE CheckLocalIp(r) \/ CheckNatWanIp(r)
    BY <2>1 DEF CheckLocalIp, CheckNatWanIp, NextFamilyOr, TypeOK
  <2>2. CASE TrimEnds(r)
    BY <2>2 DEF TrimEnds, NextFamilyOr, TypeOK
  <2>3. CASE Start(r) \/ SendList(r)
    BY <2>3 DEF Start, SendList, TypeOK
  <2>4. CASE RecvList(r)
    BY <2>4 DEF RecvList, TypeOK
  <2>5. CASE DeleteReturns(r)
    BY <2>5 DEF DeleteReturns, TypeOK
  <2>6. CASE ListFails(r) \/ DecodeEnds(r)
    BY <2>6 DEF ListFails, DecodeEnds, BeginTrim, TypeOK
  <2> QED
    BY <2>1, <2>2, <2>3, <2>4, <2>5, <2>6
<1>3. resp'[r] \in {resp[r], <<>>}
  BY DEF Start, CheckLocalIp, CheckNatWanIp, SendList, RecvList, ListFails, BeginTrim,
         DecodeEnds, DeleteReturns, TrimEnds, TypeOK
<1>4. pc[r] \in Early \/ pc'[r] \in Late
  BY DEF Start, CheckLocalIp, CheckNatWanIp, SendList, RecvList, ListFails, BeginTrim,
         DecodeEnds, DeleteReturns, TrimEnds, NextFamilyOr, TypeOK, Early, Late
<1>5. Keepers' /\ Knowledge'
  BY <1>1, <1>2, <1>3, SameZone, NothingLearnt
<1>6. Decoding'
  BY <1>1, <1>2, <1>4, DecodingFrame
<1> QED
  BY <1>5, <1>6 DEF TwinsInv

(* What is appended behind another element was listed behind it.           *)
LEMMA TwinsDecode ==
    ASSUME TypeOK, TypeOK', TwinsInv, NEW r \in Run, DecodeEntry(r)
    PROVE  TwinsInv'
<1> DEFINE e == resp[r][it[r]]
           t == e.type
<1>1. /\ pc[r] = "decode"
      /\ it[r] \in DOMAIN resp[r]
      /\ it' = [it EXCEPT ![r] = @ + 1]
      /\ UNCHANGED <<zone, net, pc, resp>>
  <2>1. pc[r] = "decode" /\ it' = [it EXCEPT ![r] = @ + 1] /\ UNCHANGED <<zone, net, pc, resp>>
    BY DEF DecodeEntry, world
  <2>2. it[r] \in Nat \ {0} /\ resp[r] \in Seq(Entry)
    BY DEF TypeOK
  <2>3. it[r] <= Len(resp[r])
    BY DEF DecodeEntry
  <2>4. it[r] \in DOMAIN resp[r]
    BY <2>2, <2>3, LenProperties
  <2> QED
    BY <2>1, <2>4
<1>2. \A s \in Run : /\ DOMAIN resp[s] \subseteq Nat /\ it[s] \in Nat /\ it'[s] \in Nat
                     /\ it'[s] >= it[s] /\ (s = r => it'[s] > it[s])
  <2>1. \A s \in Run : DOMAIN resp[s] \subseteq Nat
    <3>1. \A s \in Run : resp[s] \in Seq(Entry)
      BY DEF TypeOK
    <3>2. \A s \in Run : Len(resp[s]) \in Nat /\ DOMAIN resp[s] = 1 .. Len(resp[s])
      BY <3>1, LenProperties
    <3> QED
      BY <3>2
  <2>2. it \in [Run -> Nat \ {0}]
    BY DEF TypeOK
  <2> QED
    BY <1>1, <2>1, <2>2
<1>3. CASE rec' = rec
  <2>1. Keepers' /\ Knowledge'
    BY <1>1, <1>3, SameZone, NothingLearnt
  <2>2. Decoding'
    BY <1>1, <1>3, SMTT(30) DEF TwinsInv, Decoding, TypeOK
  <2> QED
    BY <2>1, <2>2 DEF TwinsInv
<1>4. CASE /\ e.name = ServedName /\ t \in Family
           /\ rec' = [rec EXCEPT ![r][t] = Append(@, e)]
  <2> DEFINE v == rec[r][t]
             w == Append(v, e)
  <2>1. /\ v \in Seq(Entry) /\ e \in Entry
        /\ rec'[r][t] = w
        /\ \A s \in Run, f \in Family : s # r \/ f # t => rec'[s][f] = rec[s][f]
    <3>1. rec \in [Run -> [Family -> Seq(Entry)]] /\ resp[r] \in Seq(Entry)
      BY DEF TypeOK
    <3>2. e \in Entry
      BY <1>1, <3>1, ElementOfSeq, LenProperties
    <3> HIDE DEF e
    <3>3. v \in Seq(Entry)
      BY <1>4, <3>1
    <3>4. /\ rec'[r][t] = w
          /\ \A s \in Run, f \in Family : s # r \/ f # t => rec'[s][f] = rec[s][f]
      BY <1>4, <3>1
    <3> QED
      BY <3>2, <3>3, <3>4
  <2>2. Matches(e, t)
    BY <1>4 DEF Matches
  <2>3. \A k \in DOMAIN w : \/ k \in DOMAIN v /\ w[k] = v[k]
                            \/ k = Len(v) + 1 /\ w[k] = e
    <3> HIDE DEF v, e
    <3>1. w \in Seq(Entry) /\ Len(w) = Len(v) + 1 /\ w[Len(v) + 1] = e
          /\ \A k \in 1 .. Len(v) : w[k] = v[k]
      BY <2>1, AppendProperties
    <3>2. DOMAIN w = 1 .. Len(v) + 1 /\ DOMAIN v = 1 .. Len(v) /\ Len(v) \in Nat
      BY <2>1, <3>1, LenProperties
    <3> HIDE DEF w
    <3>3. \A k \in 1 .. Len(v) + 1 : k \in 1 .. Len(v) \/ k = Len(v) + 1
      BY <3>2
    <3> QED
      BY <3>1, <3>2, <3>3
  <2>4. Known(zone, e.id, ServedName, t)
    BY <1>1, <1>4 DEF TwinsInv, Knowledge
  <2>5. v # <<>> => HasKeeper(zone, e.id, t)
    BY <1>1, <1>4, <2>2 DEF TwinsInv, Keepers, Decoding
  <2> HIDE DEF w, e
  <2>6. Keepers'
    <3>1. ASSUME NEW k \in DOMAIN w, k > 1 PROVE HasKeeper(zone, w[k].id, t)
      <4>1. CASE k \in DOMAIN v /\ w[k] = v[k]
        BY <1>4, <3>1, <4>1 DEF TwinsInv, Keepers
      <4>2. CASE k = Len(v) + 1 /\ w[k] = e
        BY <2>1, <2>5, <3>1, <4>2, EmptySeq
      <4> QED
        BY <2>3, <4>1, <4>2
    <3>2. ASSUME NEW s \in Run, NEW f \in Family, NEW k \in DOMAIN rec'[s][f], k > 1
          PROVE  HasKeeper(zone, rec'[s][f][k].id, f)
      BY <2>1, <3>1, <3>2 DEF TwinsInv, Keepers
    <3> QED
      BY <1>1, <3>2 DEF TwinsInv, Keepers
  <2>7. Knowledge'
    <3>1. ASSUME NEW s \in Run, NEW f \in Family, NEW k \in DOMAIN rec'[s][f]
          PROVE  Known(zone, rec'[s][f][k].id, ServedName, f)
      BY <1>4, <2>1, <2>3, <2>4 DEF TwinsInv, Knowledge
    <3> QED
      BY <1>1, <3>1 DEF TwinsInv, Knowledge
  <2>8. Decoding'
    <3>1. ASSUME NEW s \in Run, NEW f \in Family, pc[s] = "decode", rec'[s][f] # <<>>
          PROVE  \E i \in DOMAIN resp[s] : i < it'[s] /\ Matches(resp[s][i], f)
      <4>1. CASE s = r /\ f = t
        BY <1>1, <1>2, <2>2, <4>1 DEF e
      <4>2. CASE ~(s = r /\ f = t)
        <5>1. PICK i \in DOMAIN resp[s] : i < it[s] /\ Matches(resp[s][i], f)
          BY <2>1, <3>1, <4>2 DEF TwinsInv, Decoding
        <5> QED
          BY <1>2, <5>1
      <4> QED
        BY <4>1, <4>2
    <3>2. \A s \in Run, f \in Family : pc[s] \in Early => rec'[s][f] = <<>>
      BY <1>1, <2>1 DEF TwinsInv, Decoding, Early
    <3> QED
      BY <1>1, <3>1, <3>2 DEF Decoding, Early
  <2> QED
    BY <2>6, <2>7, <2>8 DEF TwinsInv
<1> QED
  BY <1>3, <1>4 DEF DecodeEntry

(* A delete goes out only for an element behind the first.                 *)
LEMMA TwinsSendDelete ==
    ASSUME TypeOK, TypeOK', TwinsInv, IdsFit, NEW r \in Run, SendDelete(r)
    PROVE  TwinsInv'
<1> DEFINE f == fam[r]
           id == rec[r][f][it[r]].id
           m == DeleteRequest(r, id)
<1>1. /\ f \in Family /\ it[r] \in DOMAIN rec[r][f] /\ it[r] > 1
      /\ net' = net \cup {m}
      /\ pc'[r] = "deleting" /\ \A s \in Run : s # r => pc'[s] = pc[s]
      /\ UNCHANGED <<zone, rec, resp, it>>
  BY LenProperties DEF SendDelete, TypeOK
<1>2. HasKeeper(zone, id, f)
  BY <1>1 DEF TwinsInv, Keepers
<1>3. m.op = "delete" /\ m.id = id
  BY <1>2 DEF DeleteRequest, IdsFit, HasKeeper, Known
<1> HIDE DEF m, id, f
<1>4. Keepers'
  BY <1>1, <1>2, <1>3 DEF TwinsInv, Keepers
<1>5. Knowledge'
  BY <1>1, <1>3 DEF TwinsInv, Knowledge
<1>6. Decoding'
  BY <1>1, DecodingFrame DEF Late
<1> QED
  BY <1>4, <1>5, <1>6 DEF TwinsInv

(* A modify goes out for a remembered record, with its own type.           *)
LEMMA TwinsSendModify ==
    ASSUME TypeOK, TypeOK', TwinsInv, NEW r \in Run, SendModify(r)
    PROVE  TwinsInv'
<1> DEFINE f == fam[r]
           e == rec[r][f][1]
           m == ModifyRequest(r, e, ip[r][f].ip_local)
<1>1. /\ f \in Family /\ 1 \in DOMAIN rec[r][f]
      /\ net' = net \cup {m}
      /\ pc'[r] = "modifying" /\ \A s \in Run : s # r => pc'[s] = pc[s]
      /\ UNCHANGED <<zone, rec, resp, it>>
  BY LenProperties, EmptySeq DEF SendModify, TypeOK
<1>2. e.type = f /\ Known(zone, e.id, ServedName, f)
  BY <1>1 DEF TwinsInv, Knowledge, TypeOK
<1>3. m.op = "modify" /\ m.id = e.id /\ m.type = f
  BY <1>2 DEF ModifyRequest
<1> HIDE DEF m, e, f
<1>4. Keepers'
  BY <1>1, <1>3 DEF TwinsInv, Keepers
<1>5. Knowledge'
  BY <1>1, <1>2, <1>3 DEF TwinsInv, Knowledge
<1>6. Decoding'
  BY <1>1, DecodingFrame DEF Late
<1> QED
  BY <1>4, <1>5, <1>6 DEF TwinsInv

(* In an answer, the earlier of two served records of a type is a keeper   *)
(* of the later.                                                           *)
LEMMA TwinsServeList ==
    ASSUME TypeOK, TypeOK', TwinsInv, FixedOrder, NEW m \in net, ServeList(m)
    PROVE  TwinsInv'
<1>1. /\ net' \subseteq net /\ UNCHANGED <<zone, pc, rec, it>>
      /\ zone \in [RecordId -> Record] /\ resp \in [Run -> Seq(Entry)]
      /\ m.op = "list" /\ m.run \in Run
  BY DEF ServeList, Answer, TypeOK, Request
<1>2. CASE resp' = resp
  <2>1. Keepers' /\ Knowledge'
    BY <1>1, <1>2, SameZone, NothingLearnt
  <2>2. Decoding'
    BY <1>1, <1>2 DEF TwinsInv, Decoding
  <2> QED
    BY <2>1, <2>2 DEF TwinsInv
<1>3. CASE resp' # resp
  <2>1. PICK rank \in Ranks : \E q \in InOrder(Listed(zone), rank) :
          Waiting(m) /\ resp' = [resp EXCEPT ![m.run] = RecordList(q, zone)]
    BY <1>3 DEF ServeList
  <2>2. PICK p \in InOrder(Listed(zone), rank) :
          Waiting(m) /\ resp' = [resp EXCEPT ![m.run] = RecordList(p, zone)]
    BY <2>1
  <2> DEFINE a == RecordList(p, zone)
  <2>3. /\ a \in Seq(Entry)
        /\ \A k \in DOMAIN a : p[k] \in Listed(zone) /\ a[k] = EntryOf(p[k], zone)
        /\ \A i, j \in DOMAIN a : i < j => rank[p[i]] < rank[p[j]]
    BY <1>1, AnswerType
  <2>4. \A k \in DOMAIN a :
          /\ a[k].id = p[k] /\ a[k].id \in RecordId
          /\ zone[a[k].id].state = "live"
          /\ zone[a[k].id].name = a[k].name /\ zone[a[k].id].type = a[k].type
    <3>1. ASSUME NEW k \in Listed(zone)
          PROVE  /\ k \in RecordId /\ zone[k].state = "live"
                 /\ EntryOf(k, zone).id = k
                 /\ EntryOf(k, zone).name = zone[k].name
                 /\ EntryOf(k, zone).type = zone[k].type
      BY DEF EntryOf, Listed
    <3> HIDE DEF a
    <3> QED
      BY <2>3, <3>1
  <2>5. pc[m.run] = "listing"
    BY <1>1, <2>2 DEF Waiting
  <2>6. resp'[m.run] = a /\ \A s \in Run : s # m.run => resp'[s] = resp[s]
    BY <1>1, <2>2
  <2>7. \A i, j \in DOMAIN a : i < j => Before(a[i].id, a[j].id)
    <3>1. Ranks = {rank}
      BY <2>1 DEF FixedOrder
    <3> QED
      BY <2>3, <2>4, <3>1 DEF Before
  <2> HIDE DEF a
  <2>8. Keepers'
    <3>1. ASSUME NEW f \in Family, NEW i \in DOMAIN a, NEW j \in DOMAIN a,
                 i < j, Matches(a[i], f), Matches(a[j], f)
          PROVE  HasKeeper(zone, a[j].id, f)
      BY <2>4, <2>7, <3>1 DEF HasKeeper, Known, Served, Matches
    <3>2. ASSUME NEW s \in Run, NEW f \in Family,
                 NEW i \in DOMAIN resp'[s], NEW j \in DOMAIN resp'[s],
                 i < j, Matches(resp'[s][i], f), Matches(resp'[s][j], f)
          PROVE  HasKeeper(zone, resp'[s][j].id, f)
      BY <2>6, <3>1, <3>2 DEF TwinsInv, Keepers
    <3> QED
      BY <1>1, <3>2 DEF TwinsInv, Keepers
  <2>9. Knowledge'
    <3>1. ASSUME NEW s \in Run, NEW j \in DOMAIN resp'[s]
          PROVE  Known(zone, resp'[s][j].id, resp'[s][j].name, resp'[s][j].type)
      BY <2>4, <2>6 DEF TwinsInv, Knowledge, Known
    <3> QED
      BY <1>1, <3>1 DEF TwinsInv, Knowledge
  <2>10. Decoding'
    BY <1>1, <2>5, <2>6 DEF TwinsInv, Decoding
  <2> QED
    BY <2>8, <2>9, <2>10 DEF TwinsInv
<1> QED
  BY <1>2, <1>3

(* Steps outside the invocations that answer nothing they look at.         *)
LEMMA TwinsOutside ==
    ASSUME TypeOK, TwinsInv, FixedOrder,
           \/ \E m \in net : ServeDelete(m) \/ ServeModify(m) \/ Lose(m)
           \/ Redial \/ AddRecord \/ BecomeCalm
    PROVE  TwinsInv'
<1>1. net' \subseteq net /\ UNCHANGED <<pc, rec, resp, it>>
  BY DEF ServeDelete, ServeModify, Answer, Lose, Redial, AddRecord, BecomeCalm, mem
<1>2. ZoneKept(zone, zone')
  <2>1. CASE \E m \in net : ServeDelete(m)
    BY <2>1, DeleteKeeps
  <2>2. CASE \E m \in net : ServeModify(m)
    BY <2>2, ModifyKeeps
  <2>3. CASE AddRecord
    BY <2>3, AddKeeps
  <2>4. CASE UNCHANGED zone
    BY <2>4, SameZone
  <2> QED
    BY <2>1, <2>2, <2>3, <2>4 DEF Lose, Redial, BecomeCalm
<1>3. Keepers' /\ Knowledge'
  BY <1>1, <1>2, NothingLearnt
<1>4. Decoding'
  BY <1>1 DEF TwinsInv, Decoding
<1> QED
  BY <1>3, <1>4 DEF TwinsInv

LEMMA TwinsReturn ==
    ASSUME TypeOK, TypeOK', TwinsInv, NEW r \in Run,
           SkipModify(r) \/ ModifyReturns(r) \/ Crash(r)
    PROVE  TwinsInv'
<1>1. CASE Terminate(r) /\ UNCHANGED world
  BY <1>1, TwinsTerminate
<1>2. CASE pc[r] \in Late /\ fam[r] = "A" /\ NextMatchOrReturn(r) /\ UNCHANGED world
  <2>1. /\ UNCHANGED <<zone, net, rec, resp, it>> /\ pc'[r] = "match"
        /\ \A s \in Run : s # r => pc'[s] = pc[s]
    BY <1>2 DEF NextMatchOrReturn, world, TypeOK
  <2>2. Keepers' /\ Knowledge'
    BY <2>1, SameZone, NothingLearnt
  <2>3. Decoding'
    BY <2>1, DecodingFrame DEF Late
  <2> QED
    BY <2>2, <2>3 DEF TwinsInv
<1> QED
  BY <1>1, <1>2 DEF SkipModify, ModifyReturns, Crash, NextMatchOrReturn, Late

(* The keeper invariant, when one listing order holds for all invocations  *)
(* and record ids fit into 32 bits.                                        *)
THEOREM TwinsInvariant ==
    ASSUME FixedOrder, IdsFit
    PROVE  Spec => []TwinsInv
<1>1. Init => TwinsInv
  <2> SUFFICES ASSUME Init PROVE TwinsInv
    OBVIOUS
  <2>1. DOMAIN <<>> = {}
    BY EmptySeq, LenProperties
  <2> QED
    BY <2>1 DEF Init, TwinsInv, Keepers, Knowledge, Decoding
<1>2. TypeOK /\ TypeOK' /\ TwinsInv /\ [Next]_vars => TwinsInv'
  <2> SUFFICES ASSUME TypeOK, TypeOK', TwinsInv, [Next]_vars PROVE TwinsInv'
    OBVIOUS
  <2>1. CASE UNCHANGED vars
    BY <2>1 DEF vars, TwinsInv, Keepers, Knowledge, Decoding
  <2>2. ASSUME NEW r \in Run, Start(r) \/ Step(r) \/ Crash(r) PROVE TwinsInv'
    BY <2>2, TwinsQuiet, TwinsDecode, TwinsSendDelete, TwinsSendModify, TwinsReturn
       DEF Step
  <2>3. ASSUME NEW r \in Run, Serve(r) PROVE TwinsInv'
    BY <2>3, TwinsServeList, TwinsOutside DEF Serve
  <2>4. CASE (\E m \in net : Lose(m)) \/ Redial \/ AddRecord \/ BecomeCalm
    BY <2>4, TwinsOutside
  <2> QED
    BY <2>1, <2>2, <2>3, <2>4 DEF Next
<1> QED
  BY <1>1, <1>2, TypeCorrect, PTL DEF Spec

(* No step of an invocation itself writes to the zone or to the host.      *)
LEMMA StepsLeaveWorld ==
    ASSUME NEW r \in Run, Start(r) \/ Step(r) \/ Crash(r)
    PROVE  zone' = zone /\ held' = held
<1>1. CASE Start(r) \/ CheckLocalIp(r) \/ CheckNatWanIp(r) \/ SendList(r) \/ RecvList(r)
  BY <1>1 DEF Start, CheckLocalIp, CheckNatWanIp, SendList, RecvList, world
<1>2. CASE ListFails(r) \/ DecodeEntry(r) \/ DecodeEnds(r)
  BY <1>2 DEF ListFails, DecodeEntry, DecodeEnds, world
<1>3. CASE SendDelete(r) \/ DeleteReturns(r) \/ TrimEnds(r)
  BY <1>3 DEF SendDelete, DeleteReturns, TrimEnds, world
<1>4. CASE SendModify(r) \/ SkipModify(r) \/ ModifyReturns(r) \/ Crash(r)
  BY <1>4 DEF SendModify, SkipModify, ModifyReturns, Crash, world
<1> QED
  BY <1>1, <1>2, <1>3, <1>4 DEF Step

(* Only Redial gives the host another state.                               *)
LEMMA HeldWriter ==
    ASSUME Next, held' # held
    PROVE  Redial
<1>1. ASSUME NEW r \in Run, Serve(r) PROVE held' = held
  BY <1>1 DEF Serve, ServeList, ServeDelete, ServeModify
<1>2. ~AddRecord /\ ~BecomeCalm /\ ~(\E m \in net : Lose(m))
  BY DEF AddRecord, BecomeCalm, Lose
<1> QED
  BY <1>1, <1>2, StepsLeaveWorld DEF Next

(* Only these steps write to the zone.                                     *)
LEMMA ZoneWriters ==
    ASSUME Next, zone' # zone
    PROVE  (\E m \in net : ServeDelete(m) \/ ServeModify(m)) \/ AddRecord
<1>1. ASSUME NEW r \in Run, Start(r) \/ Step(r) \/ Crash(r) PROVE zone' = zone
  BY <1>1, StepsLeaveWorld
<1>2. ASSUME NEW r \in Run, Serve(r) PROVE \E m \in net : ServeDelete(m) \/ ServeModify(m)
  BY <1>2 DEF Serve, ServeList
<1>3. ~Redial /\ ~BecomeCalm /\ ~(\E m \in net : Lose(m))
  BY DEF Redial, BecomeCalm, Lose
<1> QED
  BY <1>1, <1>2, <1>3 DEF Next

(* A live record that changes is a served A or AAAA record, and if it is   *)
(* deleted, another one of its type stays.                                 *)
LEMMA ServedRecordsOnly ==
    ASSUME TypeOK, TwinsInv, FixedOrder, Next,
           NEW id \in RecordId, zone[id].state = "live", zone'[id] # zone[id]
    PROVE  \E f \in Family : /\ id \in Served(zone, f)
                             /\ zone'[id].state = "gone" => Served(zone', f) # {}
<1>1. zone \in [RecordId -> Record]
  BY DEF TypeOK
<1>2. CASE AddRecord
  BY <1>1, <1>2 DEF AddRecord
<1>3. CASE \E m \in net : ServeDelete(m)
  <2>1. PICK m \in net : ServeDelete(m)
    BY <1>3
  <2>2. id = m.id
    BY <1>1, <2>1 DEF ServeDelete
  <2>3. PICK f \in Family : HasKeeper(zone, id, f)
    BY <2>1, <2>2 DEF TwinsInv, Keepers, ServeDelete
  <2>4. HasKeeper(zone', id, f)
    BY <2>1, <2>3, DeleteKeeps DEF ZoneKept
  <2> QED
    BY <2>3, <2>4 DEF HasKeeper, Known, Served
<1>4. CASE \E m \in net : ServeModify(m)
  <2>1. PICK m \in net : ServeModify(m)
    BY <1>4
  <2>2. id = m.id /\ zone' = [zone EXCEPT ![id] = [@ EXCEPT !.name = ServedName,
                                                   !.type = m.type, !.value = m.value]]
    BY <1>1, <2>1 DEF ServeModify
  <2>3. m.type \in Family /\ Known(zone, id, ServedName, m.type)
    BY <2>1, <2>2 DEF TwinsInv, Knowledge, ServeModify
  <2>4. zone'[id].state = "live"
    BY <1>1, <2>2 DEF Record
  <2> QED
    BY <2>3, <2>4 DEF Known, Served
<1> QED
  BY <1>2, <1>3, <1>4, ZoneWriters

(* However invocations overlap, however late or out of order the requests  *)
(* are handled and wherever an invocation stops, record_delete_remain_one  *)
(* never takes the last record of the served name and type, nor any other  *)
(* record.                                                                 *)
THEOREM DeletesOnlyDuplicates ==
    ASSUME FixedOrder, IdsFit
    PROVE  Spec => OnlyDuplicatesDeleted
<1> DEFINE A == \A id \in RecordId :
                   zone[id].state = "live" /\ zone'[id].state = "gone" =>
                       \E f \in Family : id \in Served(zone, f) /\ Served(zone', f) # {}
<1>1. TypeOK /\ TwinsInv /\ [Next]_vars => [A]_vars
  <2> SUFFICES ASSUME TypeOK, TwinsInv, Next PROVE A
    OBVIOUS
  <2> QED
    BY ServedRecordsOnly
<1> QED
  BY <1>1, TypeCorrect, TwinsInvariant, PTL DEF Spec, OnlyDuplicatesDeleted

(* Under the same conditions no step changes a record of another name or   *)
(* of another type, although requests name records by remembered ids.      *)
THEOREM ForeignRecordsSafe ==
    ASSUME FixedOrder, IdsFit
    PROVE  Spec => ForeignRecordsUntouched
<1> DEFINE A == \A id \in RecordId :
                   zone[id].state = "live" /\ (\A f \in Family : id \notin Served(zone, f))
                       => zone'[id] = zone[id]
<1>1. TypeOK /\ TwinsInv /\ [Next]_vars => [A]_vars
  <2> SUFFICES ASSUME TypeOK, TwinsInv, Next PROVE A
    OBVIOUS
  <2> QED
    BY ServedRecordsOnly
<1> QED
  BY <1>1, TypeCorrect, TwinsInvariant, PTL DEF Spec, ForeignRecordsUntouched

-----------------------------------------------------------------------------
(* A public address of family f, on an interface in one of the states H.   *)
OwnAddress(a, f, H) ==
    /\ a.fam = f
    /\ ip_valid(a)
    /\ \E h \in H : \E i \in DOMAIN h.ifaddrs : h.ifaddrs[i] = a

LEMMA OwnKept ==
    ASSUME NEW a, NEW f, NEW H, NEW G, H \subseteq G, OwnAddress(a, f, H)
    PROVE  OwnAddress(a, f, G)
BY DEF OwnAddress

(* Where such an address is claimed: in an object whose valid_ipwan is set *)
(* and in a ModifyRecord request under way.                                *)
AddressInv ==
    /\ \A r \in Run, f \in Family :
          ip[r][f].valid_ipwan => OwnAddress(ip[r][f].ip_local, f, held)
    /\ \A m \in net : m.op = "modify" => OwnAddress(m.value, m.type, held)

LEMMA AddressFrame ==
    ASSUME AddressInv, held \subseteq held',
           \A m \in net' : m.op = "modify" => m \in net,
           \A r \in Run, f \in Family :
              \/ ip'[r][f].valid_ipwan = FALSE
              \/ /\ ip'[r][f].valid_ipwan = ip[r][f].valid_ipwan
                 /\ ip'[r][f].ip_local = ip[r][f].ip_local
    PROVE  AddressInv'
<1>1. ASSUME NEW r \in Run, NEW f \in Family, ip'[r][f].valid_ipwan
      PROVE  OwnAddress(ip'[r][f].ip_local, f, held')
  BY <1>1, OwnKept DEF AddressInv
<1>2. ASSUME NEW m \in net', m.op = "modify" PROVE OwnAddress(m.value, m.type, held')
  BY <1>2, OwnKept DEF AddressInv
<1> QED
  BY <1>1, <1>2 DEF AddressInv

(* check_local_ip is the only step that sets valid_ipwan.                  *)
LEMMA AddressCheckLocal ==
    ASSUME TypeOK, AddressInv, NEW r \in Run, CheckLocalIp(r)
    PROVE  AddressInv'
<1> DEFINE pick == check_local_ip(host.ifaddrs, fam[r])
           o == [ip[r][fam[r]] EXCEPT !.valid_ipwan = (pick # NoText), !.ip_local = pick]
<1>1. host \in held /\ host.ifaddrs \in Seq(Ifaddr) /\ fam[r] \in Family
  <2>1. host \in held /\ host \in HostStates /\ fam[r] \in Family
    BY DEF TypeOK
  <2> QED
    BY <2>1, DdnsAssumption DEF Host
<1>2. pick # NoText => OwnAddress(pick, fam[r], held)
  BY <1>1, LocalIpPicked DEF OwnAddress
<1>3. ip[r][fam[r]] \in Ipaddress /\ ip \in [Run -> [Family -> Ipaddress]]
  BY <1>1 DEF TypeOK
<1>4. ip' = [ip EXCEPT ![r][fam[r]] = o] /\ net' = net /\ held' = held
  BY DEF CheckLocalIp, world
<1>5. o.valid_ipwan = (pick # NoText) /\ o.ip_local = pick
  <2> HIDE DEF pick
  <2> QED
    BY <1>3 DEF Ipaddress
<1>6. o.valid_ipwan => OwnAddress(o.ip_local, fam[r], held)
  BY <1>2, <1>5
<1> HIDE DEF o, pick
<1>7. ASSUME NEW s \in Run, NEW f \in Family, ip'[s][f].valid_ipwan
      PROVE  OwnAddress(ip'[s][f].ip_local, f, held)
  BY <1>1, <1>3, <1>4, <1>6, <1>7 DEF AddressInv
<1> QED
  BY <1>4, <1>7 DEF AddressInv

(* A ModifyRecord request carries ip_local of an object whose flag is set. *)
LEMMA AddressSendModify ==
    ASSUME TypeOK, AddressInv, NEW r \in Run, SendModify(r)
    PROVE  AddressInv'
<1> DEFINE f == fam[r]
           m == ModifyRequest(r, rec[r][f][1], ip[r][f].ip_local)
<1>1. f \in Family /\ 1 \in DOMAIN rec[r][f]
  BY LenProperties, EmptySeq DEF SendModify, TypeOK
<1>2. m.type = f /\ m.value = ip[r][f].ip_local
  BY <1>1 DEF ModifyRequest, TypeOK
<1>3. OwnAddress(ip[r][f].ip_local, f, held)
  BY <1>1 DEF SendModify, Matched, match_wanip_with_localip, AddressInv
<1>4. net' = net \cup {m} /\ ip' = ip /\ held' = held
  BY DEF SendModify
<1> HIDE DEF m, f
<1> QED
  BY <1>2, <1>3, <1>4 DEF AddressInv

LEMMA AddressTerminate ==
    ASSUME TypeOK, AddressInv, NEW r \in Run, Terminate(r), UNCHANGED world
    PROVE  AddressInv'
<1>1. \A s \in Run, f \in Family : ip'[s][f] = ip[s][f] \/ ip'[s][f] = NewIpaddress
  BY DEF Terminate, TypeOK
<1>2. NewIpaddress.valid_ipwan = FALSE
  BY DEF NewIpaddress
<1> QED
  BY <1>1, <1>2, AddressFrame DEF world

LEMMA AddressCheckNat ==
    ASSUME TypeOK, AddressInv, NEW r \in Run, CheckNatWanIp(r)
    PROVE  AddressInv'
<1>1. PICK t : ip' = [ip EXCEPT ![r][fam[r]] = [@ EXCEPT !.ip_wan = t]]
  BY DEF CheckNatWanIp
<1>2. ip \in [Run -> [Family -> Ipaddress]] /\ fam[r] \in Family
  BY DEF TypeOK
<1>3. ASSUME NEW s \in Run, NEW f \in Family
      PROVE  /\ ip'[s][f].valid_ipwan = ip[s][f].valid_ipwan
             /\ ip'[s][f].ip_local = ip[s][f].ip_local
  BY <1>1, <1>2 DEF Ipaddress
<1> QED
  BY <1>3, AddressFrame DEF CheckNatWanIp, world

LEMMA AddressOther ==
    ASSUME AddressInv, NEW r \in Run,
           \/ Start(r) \/ SendList(r) \/ RecvList(r) \/ ListFails(r) \/ DecodeEntry(r)
           \/ DecodeEnds(r) \/ SendDelete(r) \/ DeleteReturns(r) \/ TrimEnds(r) \/ Serve(r)
    PROVE  AddressInv'
<1>1. CASE Start(r) \/ SendList(r) \/ RecvList(r) \/ ListFails(r) \/ DecodeEntry(r)
  <2>1. ip' = ip /\ held' = held /\ \A m \in net' : m.op = "modify" => m \in net
    <3>1. CASE Start(r) \/ RecvList(r) \/ ListFails(r)
      BY <3>1 DEF Start, RecvList, ListFails, world
    <3>2. CASE SendList(r)
      BY <3>2 DEF SendList, ListRequest
    <3>3. CASE DecodeEntry(r)
      BY <3>3 DEF DecodeEntry, world
    <3> QED
      BY <1>1, <3>1, <3>2, <3>3
  <2> QED
    BY <2>1, AddressFrame
<1>2. CASE DecodeEnds(r) \/ SendDelete(r) \/ DeleteReturns(r) \/ TrimEnds(r)
  <2>1. ip' = ip /\ held' = held /\ \A m \in net' : m.op = "modify" => m \in net
    <3>1. CASE DecodeEnds(r)
      BY <3>1 DEF DecodeEnds, world
    <3>2. CASE SendDelete(r)
      BY <3>2 DEF SendDelete, DeleteRequest
    <3>3. CASE DeleteReturns(r)
      BY <3>3 DEF DeleteReturns, world
    <3>4. CASE TrimEnds(r)
      BY <3>4 DEF TrimEnds, world
    <3> QED
      BY <1>2, <3>1, <3>2, <3>3, <3>4
  <2> QED
    BY <2>1, AddressFrame
<1>3. CASE Serve(r)
  <2>1. ip' = ip /\ held' = held /\ \A m \in net' : m.op = "modify" => m \in net
    BY <1>3 DEF Serve, ServeList, ServeDelete, ServeModify, Answer
  <2> QED
    BY <2>1, AddressFrame
<1> QED
  BY <1>1, <1>2, <1>3

LEMMA AddressReturn ==
    ASSUME TypeOK, AddressInv, NEW r \in Run,
           SkipModify(r) \/ ModifyReturns(r) \/ Crash(r)
    PROVE  AddressInv'
<1>1. CASE Terminate(r) /\ UNCHANGED world
  BY <1>1, AddressTerminate
<1>2. CASE UNCHANGED <<ip, net, held>>
  BY <1>2, AddressFrame
<1> QED
  BY <1>1, <1>2 DEF SkipModify, ModifyReturns, Crash, NextMatchOrReturn, world

(* AddressInv holds in every reachable state.                              *)
LEMMA AddressInvariant == Spec => []AddressInv
<1>1. Init => AddressInv
  BY DEF Init, AddressInv, NewIpaddress
<1>2. TypeOK /\ AddressInv /\ [Next]_vars => AddressInv'
  <2> SUFFICES ASSUME TypeOK, AddressInv, [Next]_vars PROVE AddressInv'
    OBVIOUS
  <2>1. CASE UNCHANGED vars
    BY <2>1, AddressFrame DEF vars
  <2>2. ASSUME NEW r \in Run, Start(r) \/ Step(r) \/ Crash(r) \/ Serve(r)
        PROVE  AddressInv'
    BY <2>2, AddressCheckLocal, AddressCheckNat, AddressSendModify, AddressReturn,
       AddressOther DEF Step
  <2>3. CASE (\E m \in net : Lose(m)) \/ Redial \/ AddRecord \/ BecomeCalm
    BY <2>3, AddressFrame DEF Lose, Redial, AddRecord, BecomeCalm, mem
  <2> QED
    BY <2>1, <2>2, <2>3 DEF Next
<1> QED
  BY <1>1, <1>2, TypeCorrect, PTL DEF Spec

(* A name is only ever pointed at a public address of the record's family  *)
(* that an interface of this host has held: match_wanip_with_localip and   *)
(* valid_ipwan keep empty, foreign and fallback answers of the echo        *)
(* services out, also for requests handled long after the check.           *)
THEOREM PointsAtOwnAddress == Spec => PointedAtOwnAddress
<1> DEFINE A == \A id \in RecordId :
                   zone[id].state = "live" /\ zone'[id].state = "live"
                       /\ zone'[id].value # zone[id].value =>
                           /\ zone'[id].value.fam = zone'[id].type
                           /\ ip_valid(zone'[id].value)
                           /\ HeldByHost(zone'[id].value)
<1>1. TypeOK /\ AddressInv /\ [Next]_vars => [A]_vars
  <2> SUFFICES ASSUME TypeOK, AddressInv, Next, NEW id \in RecordId,
                      zone[id].state = "live", zone'[id].state = "live",
                      zone'[id].value # zone[id].value
               PROVE  OwnAddress(zone'[id].value, zone'[id].type, held)
    BY DEF OwnAddress, HeldByHost
  <2>1. zone \in [RecordId -> Record]
    BY DEF TypeOK
  <2>2. ~AddRecord
    BY <2>1 DEF AddRecord
  <2>3. PICK m \in net : ServeDelete(m) \/ ServeModify(m)
    BY <2>2, ZoneWriters
  <2>4. ~ServeDelete(m)
    BY <2>1, ZenonT(60) DEF ServeDelete, Exists, Record
  <2>5. /\ id = m.id /\ m.op = "modify"
        /\ zone' = [zone EXCEPT ![id] = [@ EXCEPT !.name = ServedName,
                                          !.type = m.type, !.value = m.value]]
    BY <2>1, <2>3, <2>4 DEF ServeModify
  <2>6. zone'[id].type = m.type /\ zone'[id].value = m.value
    BY <2>1, <2>5 DEF Record
  <2> QED
    BY <2>5, <2>6 DEF AddressInv
<1> QED
  BY <1>1, TypeCorrect, AddressInvariant, PTL DEF Spec, PointedAtOwnAddress
-----------------------------------------------------------------------------
(* Ddns implements DnsName, for every set of slots, records, names, hosts  *)
(* and zones: one lemma for each step that writes the zone.                *)


(* The addresses the host has held change with held, and only grow.        *)
LEMMA OwnUnchanged == ASSUME UNCHANGED held PROVE UNCHANGED OwnAddresses
BY DEF OwnAddresses, Addresses

LEMMA OwnGrows ==
    ASSUME held \subseteq held'
    PROVE  /\ DOMAIN OwnAddresses' = Family
           /\ \A f \in Family : OwnAddresses[f] \subseteq OwnAddresses'[f]
BY DEF OwnAddresses, Addresses

LEMMA RedialRenumbers ==
    ASSUME Redial
    PROVE  Abstract!Next
<1>1. held \subseteq held' /\ zone' = zone
  BY DEF Redial
<1>2. UNCHANGED <<ServedIds, ServedValues, ForeignRecords>>
  BY <1>1 DEF ServedIds, ServedValues, ForeignRecords, IsServed
<1>3. Abstract!Renumber
  BY <1>1, <1>2, OwnGrows DEF Abstract!Renumber
<1> QED
  BY <1>3 DEF Abstract!Next

(* A handled DeleteRecord removes a duplicate of the served name.          *)
LEMMA DeleteDeduplicates ==
    ASSUME TypeOK, TwinsInv, FixedOrder, NEW m \in net, ServeDelete(m), zone' # zone
    PROVE  Abstract!Next
<1> DEFINE id == m.id
<1>1. /\ zone \in [RecordId -> Record] /\ id \in RecordId /\ zone[id].state = "live"
      /\ zone' = [zone EXCEPT ![id] = [@ EXCEPT !.state = "gone", !.value = NoText]]
  BY DEF ServeDelete, Exists, TypeOK
<1>2. PICK f \in Family : HasKeeper(zone, id, f)
  BY DEF TwinsInv, Keepers, ServeDelete
<1>3. PICK k \in Served(zone, f) : Before(k, id)
  BY <1>2 DEF HasKeeper
<1>4. id \in Served(zone, f) /\ Served(zone, f) # {id}
  <2>1. id \in Served(zone, f)
    BY <1>1, <1>2 DEF HasKeeper, Known, Served
  <2>2. k # id
    BY <1>1, <1>3, BeforeIsOrder
  <2> QED
    BY <1>3, <2>1, <2>2
<1>5. /\ zone'[id].state = "gone"
      /\ \A i \in RecordId : i # id => zone'[i] = zone[i]
  BY <1>1 DEF Record
<1>6. \A g \in Family : Served(zone', g) = IF g = f THEN Served(zone, f) \ {id}
                                                    ELSE Served(zone, g)
  BY <1>4, <1>5 DEF Served
<1>7. ServedIds' = [ServedIds EXCEPT ![f] = @ \ {id}]
  BY <1>2, <1>6 DEF ServedIds
<1>8. \A i \in RecordId : IsServed(zone', i) <=> (IsServed(zone, i) /\ i # id)
  BY <1>6, <1>4, <1>5 DEF IsServed, Served
<1>9. ServedValues' = [ServedValues EXCEPT ![id] = NoText]
  BY <1>1, <1>5, <1>8 DEF ServedValues
<1>10. UNCHANGED ForeignRecords
  <2>1. IsServed(zone, id)
    BY <1>4 DEF IsServed
  <2>2. \A i \in RecordId : (zone'[i].state = "live" /\ ~IsServed(zone', i))
                              <=> (zone[i].state = "live" /\ ~IsServed(zone, i))
    BY <1>5, <1>8, <2>1
  <2>3. \A i \in RecordId : zone[i].state = "live" /\ ~IsServed(zone, i) => zone'[i] = zone[i]
    BY <1>5, <2>1
  <2> QED
    BY <2>2, <2>3 DEF ForeignRecords
<1>11. UNCHANGED OwnAddresses
  BY OwnUnchanged DEF ServeDelete
<1>12. Abstract!Deduplicate(f, id)
  BY <1>2, <1>4, <1>7, <1>9, <1>10, <1>11 DEF Abstract!Deduplicate, ServedIds
<1> QED
  BY <1>1, <1>2, <1>4, <1>12 DEF Abstract!Next, ServedIds

(* A handled ModifyRecord points a record of the served name at an address *)
(* of the host.                                                            *)
LEMMA ModifyPoints ==
    ASSUME TypeOK, TwinsInv, AddressInv, NEW m \in net, ServeModify(m), zone' # zone
    PROVE  Abstract!Next
<1> DEFINE id == m.id
           f == m.type
<1>1. /\ zone \in [RecordId -> Record] /\ id \in RecordId /\ zone[id].state = "live"
      /\ zone' = [zone EXCEPT ![id] = [@ EXCEPT !.name = ServedName, !.type = f,
                                                !.value = m.value]]
  BY DEF ServeModify, Exists, TypeOK
<1>2. f \in Family /\ Known(zone, id, ServedName, f)
  BY DEF TwinsInv, Knowledge, ServeModify
<1>3. id \in Served(zone, f)
  BY <1>1, <1>2 DEF Known, Served
<1>4. /\ zone'[id].state = "live" /\ zone'[id].name = zone[id].name
      /\ zone'[id].type = zone[id].type /\ zone'[id].value = m.value
      /\ \A i \in RecordId : i # id => zone'[i] = zone[i]
  BY <1>1, <1>2 DEF Record, Known
<1>5. \A g \in Family : Served(zone', g) = Served(zone, g)
  BY <1>1, <1>4 DEF Served
<1>6. UNCHANGED ServedIds /\ \A i \in RecordId : IsServed(zone', i) <=> IsServed(zone, i)
  BY <1>5 DEF ServedIds, IsServed
<1>7. IsServed(zone, id)
  BY <1>2, <1>3 DEF IsServed
<1>8. ServedValues' = [ServedValues EXCEPT ![id] = m.value] /\ ServedValues'[id] = m.value
  BY <1>1, <1>4, <1>6, <1>7, ZenonT(60) DEF ServedValues
<1>9. UNCHANGED ForeignRecords
  <2>1. \A i \in RecordId : (zone'[i].state = "live" /\ ~IsServed(zone', i))
                              <=> (zone[i].state = "live" /\ ~IsServed(zone, i))
    BY <1>4, <1>6, <1>7
  <2>2. \A i \in RecordId : zone[i].state = "live" /\ ~IsServed(zone, i) => zone'[i] = zone[i]
    BY <1>4, <1>7
  <2> QED
    BY <2>1, <2>2 DEF ForeignRecords
<1>10. m.value \in OwnAddresses[f]
  <2>1. OwnAddress(m.value, f, held)
    BY DEF AddressInv, ServeModify
  <2>2. m.value \in Addresses
    BY <2>1 DEF OwnAddress, Addresses
  <2> QED
    BY <1>2, <2>1, <2>2 DEF OwnAddress, OwnAddresses
<1>11. UNCHANGED OwnAddresses
  BY OwnUnchanged DEF ServeModify
<1>12. Abstract!Point(f, id)
  BY <1>6, <1>8, <1>9, <1>10, <1>11 DEF Abstract!Point
<1> QED
  BY <1>2, <1>3, <1>12 DEF Abstract!Next, ServedIds

(* A record somebody adds is one of the served name or a foreign one.      *)
LEMMA AddRecordAdds ==
    ASSUME TypeOK, AddRecord
    PROVE  Abstract!Next
<1>1. PICK id \in RecordId, new \in NewRecords :
         zone[id].state = "fresh" /\ zone' = [zone EXCEPT ![id] = new]
  BY DEF AddRecord
<1>2. /\ zone \in [RecordId -> Record] /\ new \in Record /\ new.state = "live"
  BY DdnsAssumption DEF TypeOK
<1>3. zone'[id] = new /\ \A i \in RecordId : i # id => zone'[i] = zone[i]
  BY <1>1, <1>2
<1>4. \A g \in Family : id \notin Served(zone, g)
  BY <1>1 DEF Served
<1>5. id \in RecordId \ Abstract!Used
  BY <1>1, <1>4 DEF Abstract!Used, ServedIds, ForeignRecords
<1>6. ~IsServed(zone, id)
  BY <1>4 DEF IsServed
<1>7. UNCHANGED OwnAddresses
  BY OwnUnchanged DEF AddRecord
<1>8. CASE new.name = ServedName /\ new.type \in Family
  <2> DEFINE f == new.type
  <2>1. \A g \in Family : Served(zone', g) = IF g = f THEN Served(zone, f) \cup {id}
                                                      ELSE Served(zone, g)
    BY <1>2, <1>3, <1>4, <1>8 DEF Served
  <2>2. ServedIds' = [ServedIds EXCEPT ![f] = @ \cup {id}]
    BY <1>8, <2>1 DEF ServedIds
  <2>3. \A i \in RecordId : IsServed(zone', i) <=> (IsServed(zone, i) \/ i = id)
    BY <1>8, <2>1 DEF IsServed
  <2>4. ServedValues' = [ServedValues EXCEPT ![id] = ServedValues'[id]]
    <3>1. \A i \in RecordId : i # id => ServedValues'[i] = ServedValues[i]
      BY <1>3, <2>3 DEF ServedValues
    <3>2. ServedValues = [i \in RecordId |-> ServedValues[i]]
          /\ ServedValues' = [i \in RecordId |-> ServedValues'[i]]
      BY DEF ServedValues
    <3> HIDE DEF ServedValues
    <3> QED
      BY <3>1, <3>2
  <2>5. UNCHANGED ForeignRecords
    <3>1. \A i \in RecordId : (zone'[i].state = "live" /\ ~IsServed(zone', i))
                                <=> (zone[i].state = "live" /\ ~IsServed(zone, i))
      BY <1>1, <1>3, <2>3
    <3>2. \A i \in RecordId : zone[i].state = "live" /\ ~IsServed(zone, i) => zone'[i] = zone[i]
      BY <1>1, <1>3
    <3> QED
      BY <3>1, <3>2 DEF ForeignRecords
  <2>6. Abstract!AddServed(f, id)
    BY <1>7, <2>2, <2>4, <2>5 DEF Abstract!AddServed
  <2> QED
    BY <1>5, <1>8, <2>6 DEF Abstract!Next
<1>9. CASE ~(new.name = ServedName /\ new.type \in Family)
  <2>1. \A g \in Family : Served(zone', g) = Served(zone, g)
    BY <1>1, <1>3, <1>9 DEF Served
  <2>2. UNCHANGED ServedIds /\ \A i \in RecordId : IsServed(zone', i) <=> IsServed(zone, i)
    BY <2>1 DEF ServedIds, IsServed
  <2>3. UNCHANGED ServedValues
    BY <1>3, <1>6, <2>2 DEF ServedValues
  <2>4. ForeignRecords' = ForeignRecords \cup {<<id, new>>}
    <3>1. \A i \in RecordId : (zone'[i].state = "live" /\ ~IsServed(zone', i))
                                <=> (zone[i].state = "live" /\ ~IsServed(zone, i)) \/ i = id
      BY <1>2, <1>3, <1>6, <2>2
    <3>2. zone'[id] = new /\ \A i \in RecordId : zone[i].state = "live" => zone'[i] = zone[i]
      BY <1>1, <1>3
    <3> QED
      BY <3>1, <3>2 DEF ForeignRecords
  <2>5. Abstract!AddForeign(id)
    BY <1>2, <1>7, <2>2, <2>3, <2>4 DEF Abstract!AddForeign
  <2> QED
    BY <1>5, <2>5 DEF Abstract!Next
<1> QED
  BY <1>8, <1>9

(* However invocations overlap and however late their requests are         *)
(* handled, all that happens to the zone is what DnsName allows.           *)
THEOREM RefinesDnsName ==
    ASSUME FixedOrder, IdsFit
    PROVE  Spec => ImplementsDnsName
<1>1. Init => Abstract!Init
  <2> SUFFICES ASSUME Init PROVE Abstract!Init
    OBVIOUS
  <2>1. zone \in [RecordId -> Record]
    BY DdnsAssumption DEF Init
  <2>2. ServedIds \in [Family -> SUBSET RecordId]
    BY DEF ServedIds, Served
  <2>3. \A f, g \in Family : f # g => ServedIds[f] \cap ServedIds[g] = {}
    BY DEF ServedIds, Served
  <2>4. ForeignRecords \subseteq RecordId \X Record
    BY <2>1 DEF ForeignRecords
  <2>5. \A p \in ForeignRecords, f \in Family : p[1] \notin ServedIds[f]
    BY DEF ForeignRecords, IsServed, ServedIds
  <2>6. /\ DOMAIN ServedValues = RecordId
        /\ \A id \in RecordId :
              (\A f \in Family : id \notin ServedIds[f]) => ServedValues[id] = NoText
    BY DEF ServedValues, IsServed, ServedIds
  <2>7. DOMAIN OwnAddresses = Family
    BY DEF OwnAddresses
  <2> QED
    BY <2>2, <2>3, <2>4, <2>5, <2>6, <2>7 DEF Abstract!Init
<1>2. TypeOK /\ TwinsInv /\ AddressInv /\ [Next]_vars => [Abstract!Next]_(Abstract!vars)
  <2> SUFFICES ASSUME TypeOK, TwinsInv, AddressInv, [Next]_vars, ~UNCHANGED Abstract!vars
               PROVE  Abstract!Next
    OBVIOUS
  <2>1. zone' # zone \/ held' # held
    BY OwnUnchanged DEF Abstract!vars, ServedIds, ServedValues, ForeignRecords, IsServed
  <2>2. Next
    BY <2>1 DEF vars
  <2>3. CASE zone' # zone
    BY <2>2, <2>3, ZoneWriters, DeleteDeduplicates, ModifyPoints, AddRecordAdds
  <2>4. CASE held' # held
    BY <2>2, <2>4, HeldWriter, RedialRenumbers
  <2> QED
    BY <2>1, <2>3, <2>4
<1> QED
  BY <1>1, <1>2, TypeCorrect, TwinsInvariant, AddressInvariant, PTL
     DEF Spec, ImplementsDnsName, Abstract!Spec

(* A name that resolves never stops resolving: no step leaves it without a *)
(* record of a type it had one of.                                         *)
THEOREM NameStaysResolved ==
    ASSUME FixedOrder, IdsFit
    PROVE  Spec => Abstract!StaysResolved
<1> DEFINE A == \A f \in Family : ServedIds[f] # {} => ServedIds'[f] # {}
<1>1. ServedIds \in [Family -> SUBSET RecordId]
  BY DEF ServedIds, Served
<1>2. [Abstract!Next]_(Abstract!vars) => [A]_(Abstract!vars)
  <2> SUFFICES ASSUME Abstract!Next, NEW f \in Family, ServedIds[f] # {}
               PROVE  ServedIds'[f] # {}
    OBVIOUS
  <2>1. CASE UNCHANGED ServedIds
    BY <2>1
  <2>2. ASSUME NEW g \in Family, NEW id \in ServedIds[g], Abstract!Deduplicate(g, id)
        PROVE  ServedIds'[f] # {}
    BY <1>1, <2>2 DEF Abstract!Deduplicate
  <2>3. ASSUME NEW g \in Family, NEW id, Abstract!AddServed(g, id)
        PROVE  ServedIds'[f] # {}
    BY <1>1, <2>3 DEF Abstract!AddServed
  <2> QED
    BY <2>1, <2>2, <2>3 DEF Abstract!Next, Abstract!Point, Abstract!AddForeign,
       Abstract!Renumber
<1> QED
  BY <1>2, RefinesDnsName, PTL DEF ImplementsDnsName, Abstract!Spec, Abstract!StaysResolved
=============================================================================
