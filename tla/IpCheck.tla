------------------------------- MODULE IpCheck -------------------------------
(***************************************************************************)
(* One Ipaddress object (_IPv4 or _IPv6) through one process: the walk of  *)
(* check_local_ip over the interface list, entry by entry, the question to *)
(* the address-echo service, and the decision whether the name is to be    *)
(* pointed at this host.                                                   *)
(***************************************************************************)
EXTENDS IpAddress

CONSTANTS
    IfLists,     \* the interface lists getifaddrs may return
    EchoTexts,   \* what an echo service may name: addresses, nothing, junk
    Tails        \* what may follow it in the body

ASSUME IpCheckAssumption ==
    /\ IfLists \subseteq Seq(Ifaddr)
    /\ EchoTexts \subseteq Text
    /\ Tails \subseteq Seq(LineEnd \cup {" "})

VARIABLES
    class_type_ip,    \* the family of the object, fixed by its constructor
    ifAddrStruct,     \* the list getifaddrs returned
    ifa,              \* the position of the walk in it
    valid_ipwan, ip_local, ip_wan, ip_ddns_modify,   \* the object's fields
    pc

vars == <<class_type_ip, ifAddrStruct, ifa, valid_ipwan, ip_local, ip_wan,
          ip_ddns_modify, pc>>

Init ==
    /\ class_type_ip \in Family
    /\ ifAddrStruct \in IfLists
    /\ ifa = 1
    /\ valid_ipwan = FALSE
    /\ ip_local = NoText
    /\ ip_wan = NoText
    /\ ip_ddns_modify = NoText
    /\ pc = "walk"

-----------------------------------------------------------------------------
(* addressBuffer is cleared for every entry and filled by inet_ntop only   *)
(* for an entry of the object's family.                                    *)
AddressBuffer(e) == IF e.fam = class_type_ip THEN e ELSE NoText

(* Mutated forms of the steps below: a walk that goes on after a hit, and  *)
(* a "continue" that advances twice.                                       *)
VisitEntryNoBreak ==
    /\ pc = "walk"
    /\ ifa <= Len(ifAddrStruct)
    /\ ifAddrStruct[ifa] # NoAddr
    /\ LET e  == ifAddrStruct[ifa]
           ok == e.fam = class_type_ip /\ ip_valid(e)
       IN  /\ valid_ipwan' = (valid_ipwan \/ ok)
           /\ ip_local' = IF valid_ipwan' THEN AddressBuffer(e) ELSE ip_local
    /\ ifa' = ifa + 1
    /\ UNCHANGED <<class_type_ip, ifAddrStruct, ip_wan, ip_ddns_modify, pc>>

SkipNullTwice ==
    /\ pc = "walk"
    /\ ifa <= Len(ifAddrStruct)
    /\ ifAddrStruct[ifa] = NoAddr
    /\ ifa' = ifa + 2
    /\ UNCHANGED <<class_type_ip, ifAddrStruct, valid_ipwan, ip_local, ip_wan,
                   ip_ddns_modify, pc>>

(* The body of the loop for an entry with an address.  The flag is FALSE   *)
(* whenever an entry is visited (the loop is left when it becomes TRUE and *)
(* main calls check_local_ip once), so the flag after it is the verdict on *)
(* this entry and the early "continue" is never taken.                     *)
VisitEntry ==
    /\ pc = "walk"
    /\ ifa <= Len(ifAddrStruct)
    /\ ifAddrStruct[ifa] # NoAddr
    /\ LET e  == ifAddrStruct[ifa]
           ok == e.fam = class_type_ip /\ ip_valid(e)
       IN  /\ valid_ipwan' = ok
           /\ IF ok
                THEN ip_local' = AddressBuffer(e) /\ pc' = "wan" /\ ifa' = ifa
                ELSE ip_local' = ip_local /\ pc' = "walk" /\ ifa' = ifa + 1
    /\ UNCHANGED <<class_type_ip, ifAddrStruct, ip_wan, ip_ddns_modify>>

(* An entry whose ifa_addr is null is passed over.                         *)
SkipNull ==
    /\ pc = "walk"
    /\ ifa <= Len(ifAddrStruct)
    /\ ifAddrStruct[ifa] = NoAddr
    /\ ifa' = ifa + 1
    /\ UNCHANGED <<class_type_ip, ifAddrStruct, valid_ipwan, ip_local, ip_wan,
                   ip_ddns_modify, pc>>

EndWalk ==
    /\ pc = "walk"
    /\ ifa > Len(ifAddrStruct)
    /\ pc' = "wan"
    /\ UNCHANGED <<class_type_ip, ifAddrStruct, ifa, valid_ipwan, ip_local,
                   ip_wan, ip_ddns_modify>>

(* curl_request returns whatever arrived, also when the transfer failed,   *)
(* and decode_ipwan takes it for the answer.                               *)
check_nat_wan_ip ==
    /\ pc = "wan"
    /\ \E t \in EchoTexts, tail \in Tails : ip_wan' = decode_ipwan(Body(t, tail))
    /\ pc' = "match"
    /\ UNCHANGED <<class_type_ip, ifAddrStruct, ifa, valid_ipwan, ip_local,
                   ip_ddns_modify>>

Object == [valid_ipwan |-> valid_ipwan, ip_local |-> ip_local, ip_wan |-> ip_wan]

(* match_wanip_with_localip, called once by main for each object.          *)
Match ==
    /\ pc = "match"
    /\ ip_ddns_modify' = IF match_wanip_with_localip(Object)
                           THEN ip_local ELSE ip_ddns_modify
    /\ pc' = IF match_wanip_with_localip(Object) THEN "succ" ELSE "fail"
    /\ UNCHANGED <<class_type_ip, ifAddrStruct, ifa, valid_ipwan, ip_local,
                   ip_wan>>

Next == VisitEntry \/ SkipNull \/ EndWalk \/ check_nat_wan_ip \/ Match

Spec == Init /\ [][Next]_vars

-----------------------------------------------------------------------------
(* The fields hold texts and flags, and the walk stays within one step of  *)
(* the end of the interface list.                                          *)
TypeOK ==
    /\ class_type_ip \in Family
    /\ ifAddrStruct \in IfLists
    /\ ifa \in 1 .. Len(ifAddrStruct) + 1
    /\ valid_ipwan \in BOOLEAN
    /\ ip_local \in Address \cup {NoText}
    /\ ip_wan \in Text
    /\ ip_ddns_modify \in Address \cup {NoText}
    /\ pc \in {"walk", "wan", "match", "succ", "fail"}

(* check_local_ip computes what its loop is there for: when the walk is    *)
(* over, ip_local is the first address of the object's family that         *)
(* ip_valid accepts, valid_ipwan says whether there is one, and an entry   *)
(* of the other family, a link-layer entry or a null entry in between      *)
(* never ends up in ip_local.                                              *)
WalkPicksFirstPublic ==
    pc # "walk" =>
        /\ ip_local = check_local_ip(ifAddrStruct, class_type_ip)
        /\ valid_ipwan <=> ip_local # NoText

(* match_wanip_with_localip hands main an address only if an interface     *)
(* holds it, it is of the object's own family and the echo service named   *)
(* exactly this address; in particular two empty strings (no public        *)
(* address, no answer) and an IPv4 answer of the IPv6 service are no match.*)
OnlyConfirmedAddress ==
    pc = "succ" =>
        /\ \E i \in DOMAIN ifAddrStruct : ifAddrStruct[i] = ip_ddns_modify
        /\ ip_ddns_modify.fam = class_type_ip
        /\ ip_ddns_modify = ip_wan

(* The ranges the comments of isIPv4_wan and isIPv6_wan name, ends included.*)
InRange(a, hi1, hi2) == hi1 <= a.hi /\ a.hi <= hi2

DocumentedPrivate(a) ==
    \/ InRange(a, 2560, 2815)      \* 10.0.0.0    - 10.255.255.255
    \/ InRange(a, 44048, 44063)    \* 172.16.0.0  - 172.31.255.255
    \/ InRange(a, 49320, 49320)    \* 192.168.0.0 - 192.168.255.255
    \/ InRange(a, 32512, 32767)    \* 127.0.0.0   - 127.255.255.255

RangeEnd(a) ==
    \/ a.hi \in {2560, 44048, 49320, 32512} /\ a.lo = 0
    \/ a.hi \in {2815, 44063, 49320, 32767} /\ a.lo = 65535

PassedOver ==
    {ifAddrStruct[i] : i \in {j \in DOMAIN ifAddrStruct :
                                /\ j < ifa
                                /\ ifAddrStruct[j].fam = class_type_ip}}

(* What the walk passed over was not public, and what it picked is:        *)
(* 2000::/3 for IPv6; for IPv4 everything outside the documented private   *)
(* and loopback ranges, up to the first and last address of each range.    *)
ClassifiedAsDocumented ==
    /\ \A a \in PassedOver :
          IF class_type_ip = "AAAA" THEN ~InRange(a, 8192, 16383)
                                    ELSE DocumentedPrivate(a)
    /\ valid_ipwan =>
          IF class_type_ip = "AAAA" THEN InRange(ip_local, 8192, 16383)
                                    ELSE DocumentedPrivate(ip_local) => RangeEnd(ip_local)

(* The comment above isIPv4_wan lists the private ranges with their first  *)
(* and last addresses (10.0.0.0 - 10.255.255.255, ...): an address in one  *)
(* of them is never taken for public.                                      *)
PrivateNeverPicked ==
    valid_ipwan /\ class_type_ip = "A" => ~DocumentedPrivate(ip_local)

(* The comment above match_wanip_with_localip: the WAN address is checked  *)
(* against the local addresses for any match; so the verdict is a match    *)
(* whenever some interface holds the public address the echo service named.*)
AnyLocalAddressMatches ==
    pc = "fail" =>
        ~ \E i \in DOMAIN ifAddrStruct :
             /\ ifAddrStruct[i].fam = class_type_ip
             /\ ip_valid(ifAddrStruct[i])
             /\ ifAddrStruct[i] = ip_wan

=============================================================================
