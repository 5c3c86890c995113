------------------------------ MODULE MCBase64 -------------------------------
(* Bytes and characters at the ends of the tables and of the groups of six *)
(* bits.                                                                   *)
EXTENDS Base64

UpTo(len, S) == UNION {[1 .. k -> S] : k \in 0 .. len}

MCInputs == UpTo(4, {0, 63, 155, 255}) \cup {<<b>> : b \in 0 .. 255}

(* 'A', '/', 'a', '=', CR, LF, one that is not in the table, one above it. *)
MCTexts == UpTo(4, {65, 47, 97, PAD, CR, LF, 64, 200})
           \cup {<<65, 47>> \o t : t \in [1 .. 3 -> {47, PAD, LF, CR}]}
=============================================================================
