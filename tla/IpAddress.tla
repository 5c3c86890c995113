------------------------------ MODULE IpAddress ------------------------------
(***************************************************************************)
(* Addresses, their text, and the pure functions of check_ip_wan.cpp:      *)
(* which interface address counts as public, which one is picked, and what *)
(* is left of the body an address-echo service sends back.                 *)
(*                                                                         *)
(* A text that is an address is a record.  For IPv4, hi and lo are the two *)
(* 16-bit halves of the host-order word; for IPv6, hi is the first hextet  *)
(* and lo stands for the remaining 112 bits, which no code looks at.       *)
(* Two texts are the same string exactly when the records are equal.       *)
(***************************************************************************)
EXTENDS Naturals, Sequences

Word16 == {n \in Nat : n < 65536}

(* The record types the tool serves; "A" also stands for AF_INET and       *)
(* CLASS_IPV4, "AAAA" for AF_INET6 and CLASS_IPV6.                         *)
Family == {"A", "AAAA"}

Address == [fam : Family, hi : Word16, lo : Word16]

(* The empty std::string, and a text that is no address at all (an error   *)
(* page, a body cut off in the middle, an address followed by blanks).     *)
NoText == [fam |-> "none", hi |-> 0, lo |-> 0]
Junk   == [fam |-> "junk", hi |-> 0, lo |-> 0]
Text   == Address \cup {NoText, Junk}

(* Entries of getifaddrs: addresses, entries of another family (AF_PACKET) *)
(* and entries whose ifa_addr is null.                                     *)
Packet == [fam |-> "packet", hi |-> 0, lo |-> 0]
NoAddr == [fam |-> "null",   hi |-> 0, lo |-> 0]
Ifaddr == Address \cup {Packet, NoAddr}

-----------------------------------------------------------------------------
(* isIPv4_wan: unsigned comparison of 32-bit words given by their halves.  *)
Below(a, hi, lo) == a.hi < hi \/ (a.hi = hi /\ a.lo < lo)
Above(a, hi, lo) == a.hi > hi \/ (a.hi = hi /\ a.lo > lo)

isIPv4_wan(a) ==
    ~ \/ Above(a, 2560, 0)  /\ Below(a, 2815, 65535)    \* 0x0A000000, 0x0AFFFFFF
      \/ Above(a, 44048, 0) /\ Below(a, 44063, 65535)   \* 0xAC100000, 0xAC1FFFFF
      \/ Above(a, 49320, 0) /\ Below(a, 49320, 65535)   \* 0xC0A80000, 0xC0A8FFFF
      \/ Above(a, 32512, 0) /\ Below(a, 32767, 65535)   \* 0x7F000000, 0x7FFFFFFF

(* Characters before the first ':' in what inet_ntop prints: hexadecimal   *)
(* without leading zeros.  A zero hextet prints as "0" or disappears into  *)
(* "::"; the code only tells four characters from any other number.        *)
FirstGroupLen(h) ==
    IF h >= 4096 THEN 4 ELSE IF h >= 256 THEN 3 ELSE IF h >= 16 THEN 2 ELSE 1

(* Mutated form: one bit too few is shifted out.                           *)
TopBitsShiftedBy14(a) == FirstGroupLen(a.hi) = 4 /\ a.hi \div 16384 = 1

(* isIPv6_wan: four characters, and the top three of the 16 bits are 001.  *)
isIPv6_wan(a) == FirstGroupLen(a.hi) = 4 /\ a.hi \div 8192 = 1

(* ip_valid: the first '.' or ':' of the text selects the test.            *)
ip_valid(a) ==
    \/ a.fam = "A"    /\ isIPv4_wan(a)
    \/ a.fam = "AAAA" /\ isIPv6_wan(a)

-----------------------------------------------------------------------------
(* check_local_ip as a function: the first entry of the object's family    *)
(* that ip_valid accepts, the empty string if there is none.               *)
Candidates(list, f) == {i \in DOMAIN list : list[i].fam = f /\ ip_valid(list[i])}

check_local_ip(list, f) ==
    IF Candidates(list, f) = {}
      THEN NoText
      ELSE list[CHOOSE i \in Candidates(list, f) :
                  \A j \in Candidates(list, f) : i <= j]

(* A body is a text followed by the characters after it.                   *)
Body(t, tail) == [text |-> t, tail |-> tail]

LineEnd == {"\n", "\r"}

(* decode_ipwan pops trailing '\n' and '\r' and keeps everything else; an  *)
(* empty text followed by other characters, or an address followed by      *)
(* them, is not the text of an address any more.                           *)
decode_ipwan(body) ==
    IF \A k \in DOMAIN body.tail : body.tail[k] \in LineEnd
      THEN body.text
      ELSE Junk

(* Mutated form: the flag is not looked at.                                *)
MatchTextOnly(o) == o.ip_wan = o.ip_local

(* match_wanip_with_localip: true for _RETURN_SUCC.                        *)
match_wanip_with_localip(o) == o.valid_ipwan /\ o.ip_wan = o.ip_local

=============================================================================
