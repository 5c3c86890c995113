----------------------------- MODULE ConfigFile ------------------------------
(***************************************************************************)
(* ddns_config.txt and what its two readers take from it: file_config_read *)
(* of main.cpp and cloudTencent_dnspod::file_security_config_read run the  *)
(* same loop over the lines and differ in the keys they know.              *)
(*                                                                         *)
(* A line is its key (the text up to '=', "other" for a line no reader     *)
(* knows, such as a blank one), the value meant, and the rest: the         *)
(* characters behind the value, of which only ';' and '\r' matter.         *)
(***************************************************************************)
EXTENDS Naturals, Sequences

ConfigKey   == {"domain_name", "domain_subname",
                "check_ip_url_ipv4", "check_ip_url_ipv6"}
SecurityKey == {"key", "keyid"}

Character == {"semicolon", "CR", "other"}

(* A value as read: the text meant and the characters left behind it.      *)
Value(t, extra) == [text |-> t, extra |-> extra]
EmptyValue == Value("", <<>>)

(* One '\r' at the end of the line is popped.                              *)
PopCR(s) ==
    IF s # <<>> /\ s[Len(s)] = "CR" THEN SubSeq(s, 1, Len(s) - 1) ELSE s

(* Mutated form: what follows the ';' is not cut off.                      *)
KeepComment(s) == s

(* ';' ends the entry.                                                     *)
CutAtSemicolon(s) ==
    LET Marks == {k \in DOMAIN s : s[k] = "semicolon"}
    IN  IF Marks = {} THEN s
        ELSE SubSeq(s, 1, (CHOOSE k \in Marks : \A j \in Marks : k <= j) - 1)

LineValue(line) == Value(line.value, CutAtSemicolon(PopCR(line.rest)))

(* The loop: the last line with the key wins, a key without a line keeps   *)
(* the empty string it was constructed with.                               *)
ReadKey(file, key) ==
    LET Lines == {k \in DOMAIN file : file[k].key = key}
    IN  IF Lines = {} THEN EmptyValue
        ELSE LineValue(file[CHOOSE k \in Lines : \A j \in Lines : j <= k])

(* g_file_config; domain_full is the pair the name is put together from,   *)
(* without the first part when there is no sub-domain.                     *)
file_config_read(file) ==
    LET Get(key) == ReadKey(file, key)
    IN  [keys |-> [key \in ConfigKey |-> Get(key)],
         domain_full |-> IF Get("domain_subname") # EmptyValue
                           THEN <<Get("domain_subname"), Get("domain_name")>>
                           ELSE <<Get("domain_name")>>]

file_security_config_read(file) == [key \in SecurityKey |-> ReadKey(file, key)]

=============================================================================
