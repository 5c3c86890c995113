------------------------------ MODULE MCIpCheck ------------------------------
(* Instances of IpCheck: interface lists over addresses at and around the  *)
(* ends of every range the code tells apart.                               *)
EXTENDS IpCheck

V4(h, l) == [fam |-> "A",    hi |-> h, lo |-> l]
V6(h, l) == [fam |-> "AAAA", hi |-> h, lo |-> l]

Public4  == {V4(57093, 1285), V4(25664, 1)}       \* 223.5.5.5, 100.64.0.1 (CGNAT)
Edges4   == {V4(h, l) : h \in {2559, 2560, 2815, 2816, 44047, 44048, 44063,
                               44064, 49319, 49320, 49321, 32511, 32512,
                               32767, 32768},
                        l \in {0, 1, 65534, 65535}}
Public6  == {V6(9224, 1), V6(9224, 2)}            \* two 2408:: addresses
Edges6   == {V6(h, 1) : h \in {0, 1, 15, 16, 255, 256, 4095, 4096, 8191, 8192,
                               16383, 16384, 64768, 65152, 65535}}

EdgeAddrs == Edges4 \cup Edges6
MixAddrs  == Public4 \cup Public6 \cup {V4(49320, 261), V6(65152, 1), Packet, NoAddr}

(* Every short list over a mixed set, and every edge address in front of   *)
(* and behind a public one.                                                *)
MCIfLists ==
    {<<>>} \cup [1 .. 1 -> MixAddrs] \cup [1 .. 2 -> MixAddrs]
           \cup [1 .. 3 -> MixAddrs \ {V4(25664, 1)}]
           \cup {<<a, p>> : a \in EdgeAddrs, p \in {V4(57093, 1285), V6(9224, 1)}}

MCEchoTexts == {V4(57093, 1285), V6(9224, 1), V6(9224, 2), NoText, Junk}

MCTails == {<<>>, <<"\n">>, <<"\r", "\n">>, <<" ", "\n">>}

(* One private address at the end of its range, and its neighbour.         *)
RangeEndLists == {<<V4(2815, 65535)>>, <<V4(2815, 65534)>>}

(* A host with a stable and a temporary global IPv6 address.               *)
TwoGlobalLists == {<<V6(65152, 1), V6(9224, 1), V6(9224, 2)>>}

=============================================================================
