------------------------------- MODULE MCDdns --------------------------------
(* Instances of Ddns.                                                      *)
EXTENDS DdnsRefines, TLC

V4(h, l) == [fam |-> "A",    hi |-> h, lo |-> l]
V6(h, l) == [fam |-> "AAAA", hi |-> h, lo |-> l]

a1 == V4(57093, 1)
a2 == V4(57093, 2)
nat == V4(57093, 3)
lan == V4(49320, 261)
b1 == V6(9224, 1)
link == V6(65152, 1)

Live(n, t, v) == [state |-> "live", name |-> n, type |-> t, value |-> v]
Fresh(n) == [state |-> "fresh", name |-> n, type |-> "TXT", value |-> NoText]

ById == {[id \in RecordId |-> id]}
AnyOrder == {[id \in RecordId |-> id], [id \in RecordId |-> 9 - id]}

MCName == {"@", "video"}
None == {}

(* IPv4 by re-dialling; the old and the new address.                       *)
TwoAddresses ==
    {[ifaddrs |-> <<lan, a1>>, wan |-> [f \in Family |-> IF f = "A" THEN a1 ELSE NoText]],
     [ifaddrs |-> <<lan, a2>>, wan |-> [f \in Family |-> IF f = "A" THEN a2 ELSE NoText]]}

OneAddress == {h \in TwoAddresses : h.wan["A"] = a1}
Nothing == {NoText}
Slots == Permutations(Run)

(* The apex is served: an A record of it, one of another name, and a       *)
(* second one of the apex or an unused id in front of them in the listing. *)
Ids3 == {1, 2, 3}
Zones3 == {[i \in Ids3 |-> CASE i = 1 -> first
                             [] i = 2 -> Live("video", "A", lan)
                             [] i = 3 -> Live("@", "A", lan)]
             : first \in {Live("@", "A", lan), Fresh("@")}}
AnotherA == {Live("@", "A", lan)}

(* Two A records of the apex.                                              *)
Ids2 == {1, 2}
Duplicates == {[i \in Ids2 |-> Live("@", "A", lan)]}

(* Hosts: both addresses public; IPv4 behind a NAT and IPv6 public; IPv4   *)
(* only, after re-dialling.  The NAT's address is on no interface.         *)
HostAt(ifaddrs, wan4, wan6) ==
    [ifaddrs |-> ifaddrs, wan |-> [f \in Family |-> IF f = "A" THEN wan4 ELSE wan6]]

Hosts == {HostAt(<<Packet, lan, a1, link, b1>>, a1, b1),
          HostAt(<<lan, link, b1>>, nat, b1),
          HostAt(<<lan, a2, NoAddr>>, a2, NoText)}

BehindNatOnly == {h \in Hosts : h.wan["A"] = nat}

(* A and AAAA records of the apex, a record of another name, an unused id. *)
Ids4 == 1 .. 4
MixedZones == {[i \in Ids4 |-> CASE i = 1 -> Live("@", "A", lan)
                                 [] i = 2 -> Live("video", "A", a1)
                                 [] i = 3 -> Live("@", "AAAA", link)
                                 [] i = 4 -> Fresh("@")]}
AnotherAny == {Live("@", "AAAA", b1), Live("@", "TXT", Junk)}

(* Two A records of the apex, one of them with an id that does not fit     *)
(* into the word (here of two bits), and a record of another name.         *)
WideIds == {1, 2, 5}
WideZones == {[i \in WideIds |-> IF i = 1 THEN Live("video", "A", lan)
                                          ELSE Live("@", "A", lan)]}
=============================================================================
