-------------------------------- MODULE Ddns ---------------------------------
(***************************************************************************)
(* The DDNS tool against its world.  Every slot of Run holds one           *)
(* invocation of main at a time: it finds the host's addresses, lists the  *)
(* records of the served name at DNSPod, deletes all but the first of each *)
(* type and points that one at the host.  Nothing stops a timer, or a      *)
(* second host, from starting an invocation while another is under way, so *)
(* slots run interleaved; an invocation keeps its slot until the service   *)
(* has handled, or the network has dropped, its last request.              *)
(*                                                                         *)
(* A request is in net from the moment it is sent.  It may be handled late *)
(* (after curl gave up on it), in any order, or never; curl's 30 second    *)
(* timeout only ends the waiting.  No answer other than the record list    *)
(* is looked at.                                                           *)
(***************************************************************************)
EXTENDS IpAddress, FiniteSets

CONSTANTS
    Run,             \* slots for invocations of main
    RecordId,        \* record ids of the zone (uint64_t)
    Word32,          \* 2^32, the modulus of uint32_t
    Name,            \* sub-domain labels of the zone
    domain_subname,  \* configured sub-domain, "" for the apex
    Ranks,           \* orders (id -> rank) the service may list records in
    FailedBodies,    \* what a failed transfer leaves of the echo answer
    HostStates,      \* interface list and outward addresses of the host
    InitialZones,    \* zones to start from
    NewRecords       \* records other parties may add to the zone

(* strcmp against the Name field: the apex is listed as "@".               *)
ServedName == IF domain_subname = "" THEN "@" ELSE domain_subname

RecordType == Family \cup {"TXT"}

(* A record of the zone; ids are never reused, so a deleted one stays      *)
(* "gone" and an unused one is "fresh".                                    *)
Record == [state : {"fresh", "live", "gone"}, name : Name,
           type : RecordType, value : Text]

(* One element of RecordList in the service's answer, and of the vectors   *)
(* record_ipv4 and record_ipv6.                                            *)
Entry == [id : RecordId, name : Name, type : RecordType, value : Text]

Host == [ifaddrs : Seq(Ifaddr), wan : [Family -> Text]]

Request == [run : Run, op : {"list", "delete", "modify"}, id : Nat,
            type : RecordType, value : Text]

ASSUME DdnsAssumption ==
    /\ RecordId \subseteq Nat
    /\ IsFiniteSet(RecordId)
    /\ Word32 \in Nat \ {0}
    /\ Ranks \subseteq [RecordId -> Nat]
    /\ \A rank \in Ranks, i, j \in RecordId : rank[i] = rank[j] => i = j
    /\ FailedBodies \subseteq {NoText, Junk}
    /\ HostStates \subseteq Host
    /\ InitialZones \subseteq [RecordId -> Record]
    /\ NewRecords \subseteq {new \in Record : new.state = "live"}
    /\ ServedName \in Name
    /\ domain_subname \in Name \cup {""}

VARIABLES
    zone,      \* the records at DNSPod
    host,      \* the host's interfaces and what the outside sees of it
    held,      \* the states the host has been in (history)
    calm,      \* TRUE once network, host and other parties stay put
    net,       \* requests sent and neither handled nor dropped
    pc,        \* where each invocation is; "idle" for an unused slot
    fam,       \* the family the current step of main works on
    ip,        \* the _IPv4 and _IPv6 objects of each invocation
    resp,      \* the RecordList received and not yet decoded
    answered,  \* whether the awaited answer has arrived
    rec,       \* record_ipv4 and record_ipv6 of each invocation
    it         \* position in resp or in the vector being trimmed

world == <<zone, host, held, calm, net>>
mem   == <<pc, fam, ip, resp, answered, rec, it>>
vars  == <<zone, host, held, calm, net, pc, fam, ip, resp, answered, rec, it>>

(* An Ipaddress object as its constructor leaves it.                       *)
NewIpaddress == [valid_ipwan |-> FALSE, ip_local |-> NoText, ip_wan |-> NoText]

Ipaddress == [valid_ipwan : BOOLEAN, ip_local : Text, ip_wan : Text]

PcStates == {"idle", "local", "wan", "list", "listing", "decode", "delete",
             "deleting", "match", "modifying"}

Init ==
    /\ zone \in InitialZones
    /\ host \in HostStates
    /\ held = {host}
    /\ calm = FALSE
    /\ net = {}
    /\ pc = [r \in Run |-> "idle"]
    /\ fam = [r \in Run |-> "A"]
    /\ ip = [r \in Run |-> [f \in Family |-> NewIpaddress]]
    /\ resp = [r \in Run |-> <<>>]
    /\ answered = [r \in Run |-> FALSE]
    /\ rec = [r \in Run |-> [f \in Family |-> <<>>]]
    /\ it = [r \in Run |-> 1]

-----------------------------------------------------------------------------
(* Control flow of main: each stage treats IPv4 first, then IPv6.          *)
NextFamilyOr(r, here, next) ==
    IF fam[r] = "A"
      THEN fam' = [fam EXCEPT ![r] = "AAAA"] /\ pc' = [pc EXCEPT ![r] = here]
      ELSE fam' = [fam EXCEPT ![r] = "A"]    /\ pc' = [pc EXCEPT ![r] = next]

(* The end of the process, by return or by a crash: its memory is gone.    *)
Terminate(r) ==
    /\ pc' = [pc EXCEPT ![r] = "idle"]
    /\ fam' = [fam EXCEPT ![r] = "A"]
    /\ ip' = [ip EXCEPT ![r] = [f \in Family |-> NewIpaddress]]
    /\ resp' = [resp EXCEPT ![r] = <<>>]
    /\ answered' = [answered EXCEPT ![r] = FALSE]
    /\ rec' = [rec EXCEPT ![r] = [f \in Family |-> <<>>]]
    /\ it' = [it EXCEPT ![r] = 1]

InFlight(r) == \E m \in net : m.run = r

(* main begins.                                                            *)
Start(r) ==
    /\ pc[r] = "idle"
    /\ ~InFlight(r)
    /\ pc' = [pc EXCEPT ![r] = "local"]
    /\ UNCHANGED <<world, fam, ip, resp, answered, rec, it>>

(* Ipaddress::check_local_ip of the object of the current family.          *)
CheckLocalIp(r) ==
    /\ pc[r] = "local"
    /\ LET pick == check_local_ip(host.ifaddrs, fam[r])
       IN  ip' = [ip EXCEPT ![r][fam[r]] =
                     [@ EXCEPT !.valid_ipwan = (pick # NoText), !.ip_local = pick]]
    /\ NextFamilyOr(r, "local", "wan")
    /\ UNCHANGED <<world, resp, answered, rec, it>>

(* The echo service answers with the address it sees; the IPv6 one falls   *)
(* back to IPv4.  A failed transfer leaves nothing, or something else.     *)
EchoSees(f) ==
    IF f = "AAAA" /\ host.wan[f] = NoText THEN host.wan["A"] ELSE host.wan[f]

EchoBodies(f) ==
    {Body(EchoSees(f), <<"\n">>)} \cup
    (IF calm THEN {} ELSE {Body(t, <<>>) : t \in FailedBodies})

(* check_nat_wan_ip of the object of the current family.  The request for  *)
(* the domain list that follows changes nothing main uses later.           *)
CheckNatWanIp(r) ==
    /\ pc[r] = "wan"
    /\ \E body \in EchoBodies(fam[r]) :
          ip' = [ip EXCEPT ![r][fam[r]] = [@ EXCEPT !.ip_wan = decode_ipwan(body)]]
    /\ NextFamilyOr(r, "wan", "list")
    /\ UNCHANGED <<world, resp, answered, rec, it>>

-----------------------------------------------------------------------------
ListRequest(r) ==
    [run |-> r, op |-> "list", id |-> 0, type |-> "TXT", value |-> NoText]

(* dnspod_record_list_filter up to curl_easy_perform.                      *)
SendList(r) ==
    /\ pc[r] = "list"
    /\ net' = net \cup {ListRequest(r)}
    /\ pc' = [pc EXCEPT ![r] = "listing"]
    /\ UNCHANGED <<zone, host, held, calm, fam, ip, resp, answered, rec, it>>

(* Mutated form: without CURLOPT_TIMEOUT.                                  *)
NoTimeout(r) == FALSE

(* curl stops waiting: the answer is not coming, or (in a network that is  *)
(* not calm) has not come in time or only in part.                         *)
TimedOut(r) == ~calm \/ (~answered[r] /\ ~InFlight(r))

(* The whole answer is there; tencentcloud_decode_record_list_filter       *)
(* starts on the first element of RecordList.                              *)
RecvList(r) ==
    /\ pc[r] = "listing"
    /\ answered[r]
    /\ pc' = [pc EXCEPT ![r] = "decode"]
    /\ answered' = [answered EXCEPT ![r] = FALSE]
    /\ it' = [it EXCEPT ![r] = 1]
    /\ UNCHANGED <<world, fam, ip, resp, rec>>

(* Mutated forms: trimming from the first element, and from the third.     *)
BeginTrimAtFirst(r) ==
    /\ pc' = [pc EXCEPT ![r] = "delete"]
    /\ resp' = [resp EXCEPT ![r] = <<>>]
    /\ it' = [it EXCEPT ![r] = 1]

BeginTrimAtThird(r) ==
    /\ pc' = [pc EXCEPT ![r] = "delete"]
    /\ resp' = [resp EXCEPT ![r] = <<>>]
    /\ it' = [it EXCEPT ![r] = 3]

(* record_delete_remain_one starts behind the first element.               *)
BeginTrim(r) ==
    /\ pc' = [pc EXCEPT ![r] = "delete"]
    /\ resp' = [resp EXCEPT ![r] = <<>>]
    /\ it' = [it EXCEPT ![r] = 2]

(* Nothing, an error object or half a document: the parse or the look-up   *)
(* of RecordList fails, main does not look at the result and goes on with  *)
(* empty vectors.                                                          *)
ListFails(r) ==
    /\ pc[r] = "listing"
    /\ TimedOut(r)
    /\ answered' = [answered EXCEPT ![r] = FALSE]
    /\ BeginTrim(r)
    /\ UNCHANGED <<world, fam, ip, rec>>

(* Mutated forms: the Name is not compared; the two vectors are swapped.   *)
DecodeEntryAnyName(r) ==
    /\ pc[r] = "decode"
    /\ it[r] <= Len(resp[r])
    /\ LET e == resp[r][it[r]]
       IN  rec' = IF e.type \in Family
                    THEN [rec EXCEPT ![r][e.type] = Append(@, e)]
                    ELSE rec
    /\ it' = [it EXCEPT ![r] = @ + 1]
    /\ UNCHANGED <<world, pc, fam, ip, resp, answered>>

DecodeEntrySwapped(r) ==
    /\ pc[r] = "decode"
    /\ it[r] <= Len(resp[r])
    /\ LET e == resp[r][it[r]]
       IN  rec' = IF e.name = ServedName /\ e.type \in Family
                    THEN [rec EXCEPT ![r][IF e.type = "A" THEN "AAAA" ELSE "A"] =
                                        Append(@, e)]
                    ELSE rec
    /\ it' = [it EXCEPT ![r] = @ + 1]
    /\ UNCHANGED <<world, pc, fam, ip, resp, answered>>

(* One element of RecordList: its Name is compared with the served name,   *)
(* its Type selects the vector it is appended to.                          *)
DecodeEntry(r) ==
    /\ pc[r] = "decode"
    /\ it[r] <= Len(resp[r])
    /\ LET e == resp[r][it[r]]
       IN  rec' = IF e.name = ServedName /\ e.type \in Family
                    THEN [rec EXCEPT ![r][e.type] = Append(@, e)]
                    ELSE rec
    /\ it' = [it EXCEPT ![r] = @ + 1]
    /\ UNCHANGED <<world, pc, fam, ip, resp, answered>>

(* The end of the loop; also an element without one of its fields, at      *)
(* which FUNC_JSON_CHECK returns and the elements before it are kept.      *)
DecodeEnds(r) ==
    /\ pc[r] = "decode"
    /\ it[r] > Len(resp[r]) \/ ~calm
    /\ BeginTrim(r)
    /\ UNCHANGED <<world, fam, ip, answered, rec>>

-----------------------------------------------------------------------------
(* dnspod_record_delete takes its record_id as uint32_t.                   *)
Uint32(id) == id % Word32

DeleteRequest(r, id) ==
    [run |-> r, op |-> "delete", id |-> Uint32(id), type |-> "TXT", value |-> NoText]

(* Mutated form: the iterator is one element behind.                       *)
SendDeleteShifted(r) ==
    /\ pc[r] = "delete"
    /\ it[r] <= Len(rec[r][fam[r]])
    /\ net' = net \cup {DeleteRequest(r, rec[r][fam[r]][it[r] - 1].id)}
    /\ pc' = [pc EXCEPT ![r] = "deleting"]
    /\ UNCHANGED <<zone, host, held, calm, fam, ip, resp, answered, rec, it>>

(* record_delete_remain_one: one request for every element but the first.  *)
SendDelete(r) ==
    /\ pc[r] = "delete"
    /\ it[r] <= Len(rec[r][fam[r]])
    /\ net' = net \cup {DeleteRequest(r, rec[r][fam[r]][it[r]].id)}
    /\ pc' = [pc EXCEPT ![r] = "deleting"]
    /\ UNCHANGED <<zone, host, held, calm, fam, ip, resp, answered, rec, it>>

(* Whatever came of it, the loop goes on to the next element.              *)
DeleteReturns(r) ==
    /\ pc[r] = "deleting"
    /\ answered[r] \/ TimedOut(r)
    /\ pc' = [pc EXCEPT ![r] = "delete"]
    /\ answered' = [answered EXCEPT ![r] = FALSE]
    /\ it' = [it EXCEPT ![r] = @ + 1]
    /\ UNCHANGED <<world, fam, ip, resp, rec>>

TrimEnds(r) ==
    /\ pc[r] = "delete"
    /\ it[r] > Len(rec[r][fam[r]])
    /\ NextFamilyOr(r, "delete", "match")
    /\ it' = [it EXCEPT ![r] = 2]
    /\ UNCHANGED <<world, ip, resp, answered, rec>>

-----------------------------------------------------------------------------
Matched(r) == match_wanip_with_localip(ip[r][fam[r]])

ModifyRequest(r, e, v) ==
    [run |-> r, op |-> "modify", id |-> e.id, type |-> e.type, value |-> v]

(* Mutated form: behind a NAT, the outward address is written (what        *)
(* README.md asks for).                                                    *)
SendModifyWan(r) ==
    /\ pc[r] = "match"
    /\ Matched(r) \/ (ip[r][fam[r]].ip_local = NoText /\ ip_valid(ip[r][fam[r]].ip_wan))
    /\ rec[r][fam[r]] # <<>>
    /\ net' = net \cup
              {ModifyRequest(r, rec[r][fam[r]][1], ip[r][fam[r]].ip_wan)}
    /\ pc' = [pc EXCEPT ![r] = "modifying"]
    /\ UNCHANGED <<zone, host, held, calm, fam, ip, resp, answered, rec, it>>

(* The host holds the public address: dnspod_record_modify on the first    *)
(* element of the vector.                                                  *)
SendModify(r) ==
    /\ pc[r] = "match"
    /\ Matched(r)
    /\ rec[r][fam[r]] # <<>>
    /\ net' = net \cup
              {ModifyRequest(r, rec[r][fam[r]][1], ip[r][fam[r]].ip_local)}
    /\ pc' = [pc EXCEPT ![r] = "modifying"]
    /\ UNCHANGED <<zone, host, held, calm, fam, ip, resp, answered, rec, it>>

(* After the IPv6 stage main returns.                                      *)
NextMatchOrReturn(r) ==
    IF fam[r] = "A"
      THEN /\ fam' = [fam EXCEPT ![r] = "AAAA"]
           /\ pc' = [pc EXCEPT ![r] = "match"]
           /\ answered' = [answered EXCEPT ![r] = FALSE]
           /\ UNCHANGED <<ip, resp, rec, it>>
      ELSE Terminate(r)

(* No match, or no record of this type to modify (_RETURN_FAIL).           *)
SkipModify(r) ==
    /\ pc[r] = "match"
    /\ ~Matched(r) \/ rec[r][fam[r]] = <<>>
    /\ NextMatchOrReturn(r)
    /\ UNCHANGED world

ModifyReturns(r) ==
    /\ pc[r] = "modifying"
    /\ answered[r] \/ TimedOut(r)
    /\ NextMatchOrReturn(r)
    /\ UNCHANGED world

(* Power loss, a signal, or std::terminate when curl_easy_init fails and   *)
(* curl_request builds a std::string from NULL.                            *)
Crash(r) ==
    /\ ~calm
    /\ pc[r] # "idle"
    /\ Terminate(r)
    /\ UNCHANGED world

-----------------------------------------------------------------------------
(* DNSPod, as the requests use it.  With a SubDomain the filter returns    *)
(* exactly the records of that name, without one those of the whole domain.*)
Listed(z) == {id \in RecordId : /\ z[id].state = "live"
                                /\ domain_subname # "" => z[id].name = domain_subname}

(* Enumerations of S by increasing rank.                                   *)
InOrder(S, rank) ==
    {p \in [1 .. Cardinality(S) -> S] :
        \A i, j \in DOMAIN p : i < j => rank[p[i]] < rank[p[j]]}

EntryOf(id, z) ==
    [id |-> id, name |-> z[id].name, type |-> z[id].type, value |-> z[id].value]

(* RecordList of the answer, for the records in the order of p.            *)
RecordList(p, z) == [k \in 1 .. Cardinality(Listed(z)) |-> EntryOf(p[k], z)]

(* The client still waits for the answer to this request.                  *)
Waiting(m) ==
    \/ m.op = "list"   /\ pc[m.run] = "listing"
    \/ m.op = "delete" /\ pc[m.run] = "deleting"
                       /\ m.id = Uint32(rec[m.run][fam[m.run]][it[m.run]].id)
    \/ m.op = "modify" /\ pc[m.run] = "modifying" /\ m.type = fam[m.run]

Answer(m) ==
    /\ net' = net \ {m}
    /\ answered' = IF Waiting(m) THEN [answered EXCEPT ![m.run] = TRUE] ELSE answered

ServeList(m) ==
    /\ m.op = "list"
    /\ \E rank \in Ranks : \E p \in InOrder(Listed(zone), rank) :
          resp' = IF Waiting(m)
                    THEN [resp EXCEPT ![m.run] = RecordList(p, zone)] ELSE resp
    /\ Answer(m)
    /\ UNCHANGED <<zone, host, held, calm, pc, fam, ip, rec, it>>

Exists(id) == id \in RecordId /\ zone[id].state = "live"

(* DeleteRecord and ModifyRecord answer with an error for an unknown id.   *)
ServeDelete(m) ==
    /\ m.op = "delete"
    /\ zone' = IF Exists(m.id)
                 THEN [zone EXCEPT ![m.id] = [@ EXCEPT !.state = "gone", !.value = NoText]]
                 ELSE zone
    /\ Answer(m)
    /\ UNCHANGED <<host, held, calm, pc, fam, ip, resp, rec, it>>

ServeModify(m) ==
    /\ m.op = "modify"
    /\ zone' = IF Exists(m.id)
                 THEN [zone EXCEPT ![m.id] = [@ EXCEPT !.name = ServedName,
                                              !.type = m.type, !.value = m.value]]
                 ELSE zone
    /\ Answer(m)
    /\ UNCHANGED <<host, held, calm, pc, fam, ip, resp, rec, it>>

Serve(r) ==
    \E m \in {n \in net : n.run = r} : ServeList(m) \/ ServeDelete(m) \/ ServeModify(m)

-----------------------------------------------------------------------------
(* The rest of the world, until it is calm.                                *)
Lose(m) ==
    /\ ~calm
    /\ net' = net \ {m}
    /\ UNCHANGED <<zone, host, held, calm, mem>>

Redial ==
    /\ ~calm
    /\ host' \in HostStates \ {host}
    /\ held' = held \cup {host'}
    /\ UNCHANGED <<zone, calm, net, mem>>

(* Someone adds a record by the console or with another tool.              *)
AddRecord ==
    /\ ~calm
    /\ \E id \in RecordId, new \in NewRecords :
          /\ zone[id].state = "fresh"
          /\ zone' = [zone EXCEPT ![id] = new]
    /\ UNCHANGED <<host, held, calm, net, mem>>

BecomeCalm ==
    /\ ~calm
    /\ calm' = TRUE
    /\ UNCHANGED <<zone, host, held, net, mem>>

(* What the program does on its own, once started.                         *)
Step(r) ==
    \/ CheckLocalIp(r) \/ CheckNatWanIp(r)
    \/ SendList(r) \/ RecvList(r) \/ ListFails(r)
    \/ DecodeEntry(r) \/ DecodeEnds(r)
    \/ SendDelete(r) \/ DeleteReturns(r) \/ TrimEnds(r)
    \/ SendModify(r) \/ SkipModify(r) \/ ModifyReturns(r)

Next ==
    \/ \E r \in Run : Start(r) \/ Step(r) \/ Crash(r) \/ Serve(r)
    \/ \E m \in net : Lose(m)
    \/ Redial \/ AddRecord \/ BecomeCalm

(* A process runs on, a request is handled or dropped at last, and the     *)
(* timer starts the tool again and again.                                  *)
Fairness == \A r \in Run : /\ WF_vars(Step(r))
                           /\ WF_vars(Serve(r))
                           /\ WF_vars(Start(r))

Spec     == Init /\ [][Next]_vars
FairSpec == Spec /\ Fairness

-----------------------------------------------------------------------------
(* Every variable has its type; record_ipv4 holds A records only and       *)
(* record_ipv6 AAAA records only, and the iterator of the trimming loop is *)
(* never on the first element.                                             *)
TypeOK ==
    /\ zone \in [RecordId -> Record]
    /\ host \in held /\ held \subseteq HostStates
    /\ calm \in BOOLEAN
    /\ net \subseteq Request
    /\ pc \in [Run -> PcStates]
    /\ fam \in [Run -> Family]
    /\ ip \in [Run -> [Family -> Ipaddress]]
    /\ resp \in [Run -> Seq(Entry)]
    /\ answered \in [Run -> BOOLEAN]
    /\ rec \in [Run -> [Family -> Seq(Entry)]]
    /\ \A r \in Run, f \in Family : \A k \in DOMAIN rec[r][f] : rec[r][f][k].type = f
    /\ it \in [Run -> Nat \ {0}]
    /\ \A r \in Run : pc[r] \in {"delete", "deleting"} => it[r] > 1

(* The live records of the served name and of one type.                    *)
Served(z, f) == {id \in RecordId : /\ z[id].state = "live"
                                   /\ z[id].name = ServedName
                                   /\ z[id].type = f}

(* What record_delete_remain_one is for ("delete the others, keep one"):   *)
(* a record is deleted only if it is an A or AAAA record of the served     *)
(* name and another live record of that name and type remains, however     *)
(* invocations overlap and however late a DeleteRecord request is handled. *)
OnlyDuplicatesDeleted ==
    [][\A id \in RecordId :
          zone[id].state = "live" /\ zone'[id].state = "gone" =>
              \E f \in Family : id \in Served(zone, f) /\ Served(zone', f) # {}]_vars

(* Records of other names and of other types are none of the tool's        *)
(* business: no step changes or deletes one, although deletes and modifies *)
(* name a record only by the id remembered from an older listing.          *)
ForeignRecordsUntouched ==
    [][\A id \in RecordId :
          zone[id].state = "live" /\ (\A f \in Family : id \notin Served(zone, f))
              => zone'[id] = zone[id]]_vars

(* An interface of the host has this address, or has had it before.        *)
HeldByHost(a) == \E h \in held : \E i \in DOMAIN h.ifaddrs : h.ifaddrs[i] = a

(* A record is only ever pointed at a public address of its own family     *)
(* that some interface of the host has held by then: never at an empty     *)
(* string, at junk, at the IPv4 address the IPv6 echo service falls back   *)
(* to, at the outward address of a NAT, or at an address still to come.    *)
PointedAtOwnAddress ==
    [][\A id \in RecordId :
          zone[id].state = "live" /\ zone'[id].state = "live"
              /\ zone'[id].value # zone[id].value =>
                  /\ zone'[id].value.fam = zone'[id].type
                  /\ ip_valid(zone'[id].value)
                  /\ HeldByHost(zone'[id].value)]_vars

-----------------------------------------------------------------------------
(* Why overlapping invocations are safe: the invariant behind              *)
(* OnlyDuplicatesDeleted and ForeignRecordsUntouched, when the service     *)
(* lists in one fixed order and record ids fit into 32 bits.               *)
FixedOrder == \E rank : Ranks = {rank}
IdsFit     == \A id \in RecordId : Uint32(id) = id

Before(i, j) == \A rank \in Ranks : rank[i] < rank[j]

(* What an invocation knows of a record's name and type stays true, as     *)
(* long as the record exists and after.                                    *)
Known(z, id, n, t) == /\ id \in RecordId
                      /\ z[id].state # "fresh"
                      /\ z[id].name = n
                      /\ z[id].type = t

Matches(e, f) == e.name = ServedName /\ e.type = f

(* An older record of the same name and type that is still there.          *)
HasKeeper(z, id, f) == Known(z, id, ServedName, f)
                       /\ \E k \in Served(z, f) : Before(k, id)

(* Every record some invocation is about to delete has a keeper: those of  *)
(* requests under way, those behind the first of a vector, and those in an *)
(* undecoded answer that will come behind another one.                     *)
Keepers ==
    /\ \A m \in net : m.op = "delete" => \E f \in Family : HasKeeper(zone, m.id, f)
    /\ \A r \in Run, f \in Family : \A k \in DOMAIN rec[r][f] :
          k > 1 => HasKeeper(zone, rec[r][f][k].id, f)
    /\ \A r \in Run, f \in Family : \A i, j \in DOMAIN resp[r] :
          i < j /\ Matches(resp[r][i], f) /\ Matches(resp[r][j], f)
              => HasKeeper(zone, resp[r][j].id, f)

Knowledge ==
    /\ \A m \in net : m.op = "modify" =>
          m.type \in Family /\ Known(zone, m.id, ServedName, m.type)
    /\ \A r \in Run, f \in Family : \A k \in DOMAIN rec[r][f] :
          Known(zone, rec[r][f][k].id, ServedName, f)
    /\ \A r \in Run : \A j \in DOMAIN resp[r] :
          Known(zone, resp[r][j].id, resp[r][j].name, resp[r][j].type)

(* The vectors are empty until decoding, and then hold elements of the     *)
(* answer that are already behind the loop.                                *)
Decoding ==
    /\ \A r \in Run, f \in Family :
          pc[r] \in {"idle", "local", "wan", "list", "listing"} => rec[r][f] = <<>>
    /\ \A r \in Run, f \in Family :
          pc[r] = "decode" /\ rec[r][f] # <<>> =>
              \E i \in DOMAIN resp[r] : i < it[r] /\ Matches(resp[r][i], f)

(* Every record in danger of deletion, anywhere in the memory of an        *)
(* invocation or on the wire, is a served A or AAAA record with an older   *)
(* live twin that no invocation will delete before it.                     *)
TwinsInv == Keepers /\ Knowledge /\ Decoding

-----------------------------------------------------------------------------
(* If the host's picked address is the one the outside sees and the name   *)
(* has a record of that type, it has exactly one, with that address.       *)
Converged ==
    \A f \in Family :
        LET a == check_local_ip(host.ifaddrs, f)
        IN  a # NoText /\ host.wan[f] = a /\ Served(zone, f) # {} =>
                \E id \in RecordId : Served(zone, f) = {id} /\ zone[id].value = a

(* The tool's purpose: once network, host and other parties stay put, the  *)
(* invocations the timer starts bring the name to the host's address and   *)
(* keep it there, whatever earlier invocations left behind: requests still *)
(* under way, duplicates of failed deletes, an address since given up.     *)
Converges == calm ~> []Converged

(* README.md, behind an IPv4 NAT: fetch the outward address, compare it    *)
(* with the name's record, "if different, update the IP address".  Then    *)
(* once all is calm some A record of the name has the outward address.     *)
BehindNat == /\ check_local_ip(host.ifaddrs, "A") = NoText
             /\ host.wan["A"] # NoText

NatAddressServed ==
    calm /\ BehindNat /\ Served(zone, "A") # {} ~>
        \E id \in Served(zone, "A") : zone[id].value = host.wan["A"]

(* Every invocation ends: no lost request or answer keeps curl_request     *)
(* waiting, thanks to CURLOPT_TIMEOUT.                                     *)
InvocationsEnd == \A r \in Run : pc[r] # "idle" ~> pc[r] = "idle"

=============================================================================
