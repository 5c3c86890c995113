---------------------------- MODULE IpCheckProofs ----------------------------
(***************************************************************************)
(* Theorems about IpCheck: for every interface list, every answer of an    *)
(* echo service and both families, the walk of check_local_ip computes the *)
(* function check_local_ip, and match_wanip_with_localip lets pass only an *)
(* address that the host holds and the outside confirms.                   *)
(***************************************************************************)
EXTENDS IpCheck, TLAPS

(* What the loop has established when it stands at entry ifa.  It is not   *)
(* enough to know the result: that it is the first candidate needs the     *)
(* entries behind the position, and these must stay known after the loop.  *)
NoneBefore ==
    \A j \in DOMAIN ifAddrStruct :
        j < ifa => j \notin Candidates(ifAddrStruct, class_type_ip)

Picked ==
    IF valid_ipwan
      THEN /\ pc # "walk"
           /\ ifa \in Candidates(ifAddrStruct, class_type_ip)
           /\ ip_local = ifAddrStruct[ifa]
      ELSE /\ ip_local = NoText
           /\ pc # "walk" => ifa > Len(ifAddrStruct)

Confirmed ==
    pc = "succ" => valid_ipwan /\ ip_wan = ip_local /\ ip_ddns_modify = ip_local

WalkInv == TypeOK /\ NoneBefore /\ Picked /\ Confirmed

-----------------------------------------------------------------------------
(* Entries are addresses, link-layer entries or null entries; those of a   *)
(* served family are addresses.                                            *)
LEMMA EntryTypes ==
    ASSUME TypeOK
    PROVE  /\ Len(ifAddrStruct) \in Nat
           /\ DOMAIN ifAddrStruct = 1 .. Len(ifAddrStruct)
           /\ \A j \in DOMAIN ifAddrStruct :
                 /\ ifAddrStruct[j] \in Ifaddr
                 /\ ifAddrStruct[j].fam \in Family => ifAddrStruct[j] \in Address
<1>1. ifAddrStruct \in Seq(Ifaddr)
  BY IpCheckAssumption DEF TypeOK
<1>2. \A e \in Ifaddr : e.fam \in Family => e \in Address
  BY DEF Ifaddr, Packet, NoAddr, Family
<1> QED
  BY <1>1, <1>2

(* An address is neither empty nor a null entry.                           *)
LEMMA AddressIsText ==
    ASSUME NEW a \in Address
    PROVE  a # NoText /\ a # NoAddr /\ a.fam \in Family
           /\ a.hi \in Nat /\ a.hi < 65536 /\ a.lo \in Nat /\ a.lo < 65536
BY DEF Address, NoText, NoAddr, Family, Word16

LEMMA DecodedIsText ==
    ASSUME NEW t \in EchoTexts, NEW tail \in Tails
    PROVE  decode_ipwan(Body(t, tail)) \in Text
BY IpCheckAssumption DEF decode_ipwan, Body, Text

LEMMA WalkInvInit == Init => WalkInv
<1> SUFFICES ASSUME Init PROVE WalkInv
  OBVIOUS
<1>1. TypeOK
  <2>1. ifAddrStruct \in Seq(Ifaddr)
    BY IpCheckAssumption DEF Init
  <2>2. ifa \in 1 .. Len(ifAddrStruct) + 1
    BY <2>1 DEF Init
  <2> QED
    BY <2>2 DEF Init, TypeOK, Text
<1> QED
  BY <1>1, EntryTypes DEF Init, WalkInv, NoneBefore, Picked, Confirmed

LEMMA WalkInvNext == WalkInv /\ [Next]_vars => WalkInv'
<1> SUFFICES ASSUME WalkInv, [Next]_vars
             PROVE  WalkInv'
  OBVIOUS
<1> USE DEF WalkInv
<1>t. /\ Len(ifAddrStruct) \in Nat
      /\ DOMAIN ifAddrStruct = 1 .. Len(ifAddrStruct)
      /\ \A j \in DOMAIN ifAddrStruct :
            /\ ifAddrStruct[j] \in Ifaddr
            /\ ifAddrStruct[j].fam \in Family => ifAddrStruct[j] \in Address
  BY EntryTypes
<1>1. CASE VisitEntry
  <2> DEFINE e == ifAddrStruct[ifa]
  <2>1. ifa \in DOMAIN ifAddrStruct
    BY <1>1, <1>t DEF VisitEntry, TypeOK
  <2>2. CASE e.fam = class_type_ip /\ ip_valid(e)
    <3>1. ifa \in Candidates(ifAddrStruct, class_type_ip) /\ e \in Address
      BY <2>1, <2>2, <1>t DEF Candidates, TypeOK
    <3>2. /\ valid_ipwan' = TRUE /\ ip_local' = e /\ pc' = "wan"
          /\ UNCHANGED <<ifa, class_type_ip, ifAddrStruct, ip_wan, ip_ddns_modify>>
      BY <1>1, <2>2 DEF VisitEntry, AddressBuffer
    <3>3. TypeOK'
      BY <3>1, <3>2 DEF TypeOK
    <3> QED
      BY <3>1, <3>2, <3>3 DEF NoneBefore, Picked, Confirmed
  <2>3. CASE ~(e.fam = class_type_ip /\ ip_valid(e))
    <3>1. ifa \notin Candidates(ifAddrStruct, class_type_ip)
      BY <2>3 DEF Candidates
    <3>2. /\ valid_ipwan' = FALSE /\ pc' = "walk" /\ ifa' = ifa + 1
          /\ UNCHANGED <<ip_local, class_type_ip, ifAddrStruct, ip_wan, ip_ddns_modify>>
      BY <1>1, <2>3 DEF VisitEntry
    <3>3. ip_local = NoText
      BY <1>1 DEF VisitEntry, Picked
    <3>4. ifa' \in 1 .. Len(ifAddrStruct) + 1
      BY <3>2, <2>1, <1>t
    <3>5. TypeOK'
      BY <3>2, <3>4 DEF TypeOK
    <3>6. NoneBefore'
      BY <3>1, <3>2, <1>t DEF NoneBefore, TypeOK
    <3> QED
      BY <3>2, <3>3, <3>5, <3>6 DEF Picked, Confirmed
  <2> QED
    BY <2>2, <2>3
<1>2. CASE SkipNull
  <2>1. ifa \in DOMAIN ifAddrStruct
    BY <1>2, <1>t DEF SkipNull, TypeOK
  <2>2. ifa \notin Candidates(ifAddrStruct, class_type_ip)
    BY <1>2 DEF SkipNull, Candidates, NoAddr, TypeOK, Family
  <2>3. TypeOK'
    BY <1>2, <2>1, <1>t DEF SkipNull, TypeOK
  <2>4. NoneBefore'
    BY <1>2, <2>2, <1>t DEF SkipNull, NoneBefore, TypeOK
  <2>5. Picked' /\ Confirmed'
    BY <1>2 DEF SkipNull, Picked, Confirmed
  <2> QED
    BY <2>3, <2>4, <2>5
<1>3. CASE EndWalk
  BY <1>3 DEF EndWalk, TypeOK, NoneBefore, Picked, Confirmed
<1>4. CASE check_nat_wan_ip
  <2>1. ip_wan' \in Text
    BY <1>4, DecodedIsText DEF check_nat_wan_ip
  <2> QED
    BY <1>4, <2>1 DEF check_nat_wan_ip, TypeOK, NoneBefore, Picked, Confirmed
<1>5. CASE Match
  <2>1. TypeOK'
    BY <1>5 DEF Match, TypeOK
  <2>2. Confirmed'
    BY <1>5 DEF Match, Confirmed, match_wanip_with_localip, Object
  <2> QED
    BY <1>5, <2>1, <2>2 DEF Match, NoneBefore, Picked
<1>6. CASE UNCHANGED vars
  BY <1>6 DEF vars, TypeOK, NoneBefore, Picked, Confirmed
<1> QED
  BY <1>1, <1>2, <1>3, <1>4, <1>5, <1>6 DEF Next

LEMMA WalkInvariant == Spec => []WalkInv
BY WalkInvInit, WalkInvNext, PTL DEF Spec

-----------------------------------------------------------------------------
(* The fields of the object hold texts and flags, and the walk never       *)
(* leaves the interface list by more than its end, for every list that     *)
(* getifaddrs may return.                                                  *)
THEOREM TypeCorrect == Spec => []TypeOK
<1>1. WalkInv => TypeOK
  BY DEF WalkInv
<1> QED
  BY <1>1, WalkInvariant, PTL

(* When the walk of check_local_ip is over, ip_local is the first public   *)
(* address of the object's family and valid_ipwan tells whether there is   *)
(* one, however long the interface list and whatever it holds in between.  *)
THEOREM PicksFirstPublic == Spec => []WalkPicksFirstPublic
<1>1. WalkInv => WalkPicksFirstPublic
  <2> SUFFICES ASSUME WalkInv, pc # "walk"
               PROVE  /\ ip_local = check_local_ip(ifAddrStruct, class_type_ip)
                      /\ valid_ipwan <=> ip_local # NoText
    BY DEF WalkPicksFirstPublic
  <2> USE DEF WalkInv
  <2> DEFINE C == Candidates(ifAddrStruct, class_type_ip)
  <2>t. /\ Len(ifAddrStruct) \in Nat
        /\ DOMAIN ifAddrStruct = 1 .. Len(ifAddrStruct)
        /\ \A j \in DOMAIN ifAddrStruct :
              ifAddrStruct[j].fam \in Family => ifAddrStruct[j] \in Address
    BY EntryTypes
  <2>c. C \subseteq 1 .. Len(ifAddrStruct)
    BY <2>t DEF Candidates
  <2>1. CASE valid_ipwan
    <3>1. ifa \in C /\ \A j \in C : ifa <= j
      BY <2>1, <2>c, <2>t DEF Picked, NoneBefore, TypeOK
    <3>2. \A i \in C : (\A j \in C : i <= j) => i = ifa
      BY <3>1, <2>c, <2>t
    <3>3. (CHOOSE i \in C : \A j \in C : i <= j) = ifa
      BY <3>1, <3>2
    <3>4. ip_local = ifAddrStruct[ifa] /\ C # {}
      BY <2>1, <3>1 DEF Picked
    <3>5. ip_local # NoText
      BY <3>1, <3>4, <2>t, AddressIsText DEF Candidates, TypeOK
    <3>6. check_local_ip(ifAddrStruct, class_type_ip) = ifAddrStruct[ifa]
      BY <3>3, <3>4, Zenon DEF check_local_ip
    <3> QED
      BY <2>1, <3>4, <3>5, <3>6
  <2>2. CASE ~valid_ipwan
    <3>1. C = {}
      BY <2>2, <2>c, <2>t DEF Picked, NoneBefore, TypeOK
    <3> QED
      BY <2>2, <3>1 DEF check_local_ip, Picked
  <2> QED
    BY <2>1, <2>2
<1> QED
  BY <1>1, WalkInvariant, PTL

(* match_wanip_with_localip succeeds only for an address of the object's   *)
(* own family that an interface holds and that the echo service named: a   *)
(* failed or partial transfer never confirms anything.                     *)
THEOREM ConfirmsOnlyOwnAddress == Spec => []OnlyConfirmedAddress
<1>1. WalkInv => OnlyConfirmedAddress
  BY DEF WalkInv, OnlyConfirmedAddress, Confirmed, Picked, Candidates
<1> QED
  BY <1>1, WalkInvariant, PTL

-----------------------------------------------------------------------------
(* isIPv6_wan accepts 2000::/3 exactly: the number of characters before    *)
(* the first colon excludes nothing that the three top bits let pass.      *)
LEMMA GlobalUnicastExactly ==
    ASSUME NEW a \in Address
    PROVE  isIPv6_wan(a) <=> InRange(a, 8192, 16383)
<1>1. a.hi \in Nat
  BY AddressIsText
<1>2. a.hi \div 8192 = 1 <=> 8192 <= a.hi /\ a.hi <= 16383
  BY <1>1
<1> QED
  BY <1>1, <1>2 DEF isIPv6_wan, FirstGroupLen, InRange

(* isIPv4_wan and the documented ranges differ at the ends of the ranges   *)
(* and nowhere else.                                                       *)
LEMMA PrivateUpToRangeEnds ==
    ASSUME NEW a \in Address
    PROVE  ~isIPv4_wan(a) <=> DocumentedPrivate(a) /\ ~RangeEnd(a)
<1>1. a.hi \in Nat /\ a.lo \in Nat /\ a.lo < 65536
  BY AddressIsText
<1> QED
  BY <1>1 DEF isIPv4_wan, Above, Below, DocumentedPrivate, InRange, RangeEnd

(* Whatever the walk passed over was not public by the ranges the comments *)
(* of check_ip_wan.cpp name, and what it picked is, but for the first and  *)
(* last address of a private range; for all 2^32 IPv4 addresses and all    *)
(* first hextets of IPv6.                                                  *)
THEOREM ClassifiesAsDocumented == Spec => []ClassifiedAsDocumented
<1>1. WalkInv => ClassifiedAsDocumented
  <2> SUFFICES ASSUME WalkInv PROVE ClassifiedAsDocumented
    OBVIOUS
  <2> USE DEF WalkInv
  <2>t. /\ DOMAIN ifAddrStruct = 1 .. Len(ifAddrStruct)
        /\ \A j \in DOMAIN ifAddrStruct :
              ifAddrStruct[j].fam \in Family => ifAddrStruct[j] \in Address
    BY EntryTypes
  <2>f. class_type_ip \in {"A", "AAAA"}
    BY DEF TypeOK, Family
  <2>1. ASSUME NEW a \in PassedOver
        PROVE  IF class_type_ip = "AAAA" THEN ~InRange(a, 8192, 16383)
                                         ELSE DocumentedPrivate(a)
    <3>1. PICK j \in DOMAIN ifAddrStruct :
             j < ifa /\ ifAddrStruct[j].fam = class_type_ip /\ a = ifAddrStruct[j]
      BY <2>1 DEF PassedOver
    <3>2. a \in Address /\ a.fam = class_type_ip
      BY <3>1, <2>t DEF TypeOK
    <3>3. ~ip_valid(a)
      BY <3>1 DEF NoneBefore, Candidates
    <3> QED
      BY <3>2, <3>3, <2>f, GlobalUnicastExactly, PrivateUpToRangeEnds DEF ip_valid
  <2>2. ASSUME valid_ipwan
        PROVE  IF class_type_ip = "AAAA" THEN InRange(ip_local, 8192, 16383)
                                         ELSE DocumentedPrivate(ip_local) => RangeEnd(ip_local)
    <3>1. ip_local \in Address /\ ip_local.fam = class_type_ip /\ ip_valid(ip_local)
      BY <2>2, <2>t DEF Picked, Candidates, TypeOK
    <3> QED
      BY <3>1, <2>f, GlobalUnicastExactly, PrivateUpToRangeEnds DEF ip_valid
  <2> QED
    BY <2>1, <2>2 DEF ClassifiedAsDocumented
<1> QED
  BY <1>1, WalkInvariant, PTL
=============================================================================
