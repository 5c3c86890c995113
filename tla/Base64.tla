------------------------------- MODULE Base64 --------------------------------
(***************************************************************************)
(* tretap_base64_encode and tretap_base64_decode with their loops, as a    *)
(* caller uses them: offer a buffer, offer one of the size asked for if it *)
(* was too small, then decode what was encoded.  Characters are their      *)
(* ASCII codes; lengths and sizes are unsigned int and wrap at Word32.     *)
(***************************************************************************)
EXTENDS Integers, Sequences, FiniteSets

CONSTANTS
    Inputs,    \* byte sequences to encode
    Texts,     \* character sequences to decode
    Sizes,     \* buffer sizes a caller may offer at first
    Word32     \* 2^32, the modulus of unsigned int

ASSUME Base64Assumption ==
    /\ Word32 \in Nat /\ Word32 > 31
    /\ Inputs \cup Texts \subseteq Seq(0 .. 255)
    /\ \A s \in Inputs \cup Texts : Len(s) < Word32
    /\ Sizes \subseteq 0 .. Word32 - 1

VARIABLES
    pc, ret,
    input,     \* what the caller had encoded (history)
    src,       \* the argument of the call under way
    size,      \* bytes of the buffer dst
    dlen,      \* *dlen, in and out
    dst,       \* what has been written
    retried,   \* the buffer has the size a former call asked for
    i, j, n, x

vars == <<pc, ret, input, src, size, dlen, dst, retried, i, j, n, x>>

TOO_SMALL == -42
INVALID   == -44

CR  == 13
LF  == 10
PAD == 61

(* tretap_base64_enc_map: A-Z, a-z, 0-9, '+', '/'.                         *)
EncMap == [k \in 0 .. 63 |-> CASE k < 26 -> 65 + k
                               [] k \in 26 .. 51 -> 97 + (k - 26)
                               [] k \in 52 .. 61 -> 48 + (k - 52)
                               [] k = 62 -> 43
                               [] k = 63 -> 47]

(* tretap_base64_dec_map; 64 for '=', 127 for what is no character of it.  *)
DecMap == [c \in 0 .. 127 |-> CASE c \in 65 .. 90  -> c - 65
                                [] c \in 97 .. 122 -> c - 71
                                [] c \in 48 .. 57  -> c + 4
                                [] c = 43 -> 62
                                [] c = 47 -> 63
                                [] c = PAD -> 64
                                [] OTHER -> 127]

slen == Len(src)

Call(op, s, buffer) ==
    /\ pc' = op
    /\ src' = s
    /\ size' = buffer
    /\ dlen' = buffer
    /\ dst' = <<>>
    /\ i' = 0 /\ j' = 0 /\ n' = 0 /\ x' = 0

Return(code) == pc' = "returned" /\ ret' = code

Init ==
    /\ \/ pc = "encode" /\ src \in Inputs /\ input = src
       \/ pc = "decode" /\ src \in Texts /\ input = <<>>
    /\ size \in Sizes
    /\ dlen = size
    /\ dst = <<>>
    /\ ret = 0
    /\ retried = FALSE
    /\ i = 0 /\ j = 0 /\ n = 0 /\ x = 0

-----------------------------------------------------------------------------
(* The length of the encoded text, from len << 3.                          *)
EncodedLength(len) ==
    LET bits  == (len * 8) % Word32
        whole == bits \div 6
    IN  CASE bits - whole * 6 = 2 -> whole + 3
          [] bits - whole * 6 = 4 -> whole + 2
          [] OTHER -> whole

(* What *dlen must be at least: the text and a NUL.                        *)
EncodeSize(len) == EncodedLength(len) + 1

(* Mutated form: the NUL is forgotten in the size asked for.               *)
EncodeBeginsAskingLess ==
    /\ pc = "encode"
    /\ IF slen = 0
         THEN Return(0) /\ UNCHANGED dlen
       ELSE IF dlen < EncodeSize(slen)
         THEN dlen' = EncodedLength(slen) /\ Return(TOO_SMALL)
       ELSE pc' = "groups" /\ UNCHANGED <<dlen, ret>>
    /\ UNCHANGED <<input, src, size, dst, retried, i, j, n, x>>

EncodeBegins ==
    /\ pc = "encode"
    /\ IF slen = 0
         THEN Return(0) /\ UNCHANGED dlen
       ELSE IF dlen < EncodeSize(slen)
         THEN dlen' = EncodeSize(slen) /\ Return(TOO_SMALL)
       ELSE pc' = "groups" /\ UNCHANGED <<dlen, ret>>
    /\ UNCHANGED <<input, src, size, dst, retried, i, j, n, x>>

Byte(k) == src[k + 1]

(* Three bytes to four characters.                                         *)
EncodeGroup ==
    /\ pc = "groups"
    /\ i + 3 <= slen
    /\ LET C1 == Byte(i)  C2 == Byte(i + 1)  C3 == Byte(i + 2)
       IN  dst' = dst \o <<EncMap[C1 \div 4], EncMap[(C1 % 4) * 16 + C2 \div 16],
                           EncMap[(C2 % 16) * 4 + C3 \div 64], EncMap[C3 % 64]>>
    /\ i' = i + 3
    /\ UNCHANGED <<pc, ret, input, src, size, dlen, retried, j, n, x>>

(* Mutated form: a second byte left over is dropped.                       *)
EncodeEndsShort ==
    /\ pc = "groups"
    /\ i + 3 > slen
    /\ LET C1 == Byte(i)
           tail == IF i = slen THEN <<>>
                   ELSE <<EncMap[C1 \div 4], EncMap[(C1 % 4) * 16], PAD, PAD>>
       IN  /\ dst' = dst \o tail \o <<0>>
           /\ dlen' = Len(dst \o tail) % Word32
    /\ Return(0)
    /\ UNCHANGED <<input, src, size, retried, i, j, n, x>>

(* One or two bytes are left, or none; then the NUL, which *dlen does not  *)
(* count.                                                                  *)
EncodeEnds ==
    /\ pc = "groups"
    /\ i + 3 > slen
    /\ LET C1 == Byte(i)
           C2 == IF i + 1 < slen THEN Byte(i + 1) ELSE 0
           tail == IF i = slen THEN <<>>
                   ELSE <<EncMap[C1 \div 4], EncMap[(C1 % 4) * 16 + C2 \div 16],
                          IF i + 1 < slen THEN EncMap[(C2 % 16) * 4] ELSE PAD, PAD>>
       IN  /\ dst' = dst \o tail \o <<0>>
           /\ dlen' = Len(dst \o tail) % Word32
    /\ Return(0)
    /\ UNCHANGED <<input, src, size, retried, i, j, n, x>>

-----------------------------------------------------------------------------
(* Mutated form: characters may follow the padding.                        *)
ScanCharAfterPad ==
    /\ pc = "decode"
    /\ i < slen
    /\ LET c == Byte(i)
           pads == j + (IF c = PAD THEN 1 ELSE 0)
       IN  IF (c = CR /\ slen - i >= 2 /\ Byte(i + 1) = LF) \/ c = LF
             THEN i' = i + 1 /\ UNCHANGED <<pc, ret, j, n>>
           ELSE IF pads > 2 \/ c > 127 \/ DecMap[c] = 127
             THEN Return(INVALID) /\ UNCHANGED <<i, j, n>>
           ELSE i' = i + 1 /\ j' = pads /\ n' = n + 1 /\ UNCHANGED <<pc, ret>>
    /\ UNCHANGED <<input, src, size, dlen, dst, retried, x>>

(* First loop: line ends are skipped, '=' counted, everything validated.   *)
ScanChar ==
    /\ pc = "decode"
    /\ i < slen
    /\ LET c == Byte(i)
           pads == j + (IF c = PAD THEN 1 ELSE 0)
       IN  IF (c = CR /\ slen - i >= 2 /\ Byte(i + 1) = LF) \/ c = LF
             THEN i' = i + 1 /\ UNCHANGED <<pc, ret, j, n>>
           ELSE IF pads > 2 \/ c > 127 \/ DecMap[c] = 127 \/ (DecMap[c] < 64 /\ pads # 0)
             THEN Return(INVALID) /\ UNCHANGED <<i, j, n>>
           ELSE i' = i + 1 /\ j' = pads /\ n' = n + 1 /\ UNCHANGED <<pc, ret>>
    /\ UNCHANGED <<input, src, size, dlen, dst, retried, x>>

(* Mutated form: the padding is taken for granted.                         *)
DecodeSizePadded(chars) == (chars * 6) \div 8 - 2

(* Bytes needed, an upper bound.                                           *)
DecodeSize(chars) == ((chars * 6 + 7) % Word32) \div 8

ScanEnds ==
    /\ pc = "decode"
    /\ i = slen
    /\ IF n = 0
         THEN Return(0) /\ UNCHANGED <<dlen, i, j, n>>
       ELSE IF dlen < DecodeSize(n)
         THEN dlen' = DecodeSize(n) /\ Return(TOO_SMALL) /\ UNCHANGED <<i, j, n>>
       ELSE pc' = "chars" /\ i' = 0 /\ j' = 3 /\ n' = 0 /\ UNCHANGED <<dlen, ret>>
    /\ UNCHANGED <<input, src, size, dst, retried, x>>

(* Second loop: four characters make up to three bytes.  (Of x only the    *)
(* lower 24 bits are ever used.)                                           *)
DecodeChar ==
    /\ pc = "chars"
    /\ i < slen
    /\ IF Byte(i) \in {CR, LF}
         THEN UNCHANGED <<j, n, x, dst>>
         ELSE /\ j' = j - (IF DecMap[Byte(i)] = 64 THEN 1 ELSE 0)
              /\ x' = (x * 64 + (DecMap[Byte(i)] % 64)) % 2^24
              /\ n' = (n + 1) % 4
              /\ dst' = IF n' # 0 THEN dst
                        ELSE dst \o SubSeq(<<x' \div 2^16, (x' \div 2^8) % 256, x' % 256>>, 1, j')
    /\ i' = i + 1
    /\ UNCHANGED <<pc, ret, input, src, size, dlen, retried>>

DecodeEnds ==
    /\ pc = "chars"
    /\ i = slen
    /\ dlen' = Len(dst) % Word32
    /\ Return(0)
    /\ UNCHANGED <<input, src, size, dst, retried, i, j, n, x>>

-----------------------------------------------------------------------------
(* The caller: a larger buffer, or the way back, or the end.               *)
Encoding == src = input

Retry ==
    /\ pc = "returned"
    /\ ret = TOO_SMALL /\ ~retried
    /\ Call(IF Encoding THEN "encode" ELSE "decode", src, dlen)
    /\ retried' = TRUE
    /\ UNCHANGED <<ret, input>>

DecodeBack ==
    /\ pc = "returned"
    /\ ret = 0 /\ Encoding /\ src # <<>>
    /\ \E buffer \in Sizes : Call("decode", SubSeq(dst, 1, dlen), buffer)
    /\ retried' = FALSE
    /\ UNCHANGED <<ret, input>>

Finished ==
    /\ pc = "returned"
    /\ ~(ret = TOO_SMALL /\ ~retried) /\ ~(ret = 0 /\ Encoding /\ src # <<>>)
    /\ UNCHANGED vars

Next ==
    \/ EncodeBegins \/ EncodeGroup \/ EncodeEnds
    \/ ScanChar \/ ScanEnds \/ DecodeChar \/ DecodeEnds
    \/ Retry \/ DecodeBack \/ Finished

Spec == Init /\ [][Next]_vars

-----------------------------------------------------------------------------
(* No size that is computed from the lengths of these inputs and texts     *)
(* wraps.  (2^29 bytes or more to encode wrap, and 715827882 characters or *)
(* more to decode.)                                                        *)
LengthsFit ==
    /\ \A s \in Inputs : 8 * Len(s) + 23 < Word32
    /\ \A s \in Texts : 6 * Len(s) + 7 < Word32

(* Neither function writes behind the buffer, the NUL of the encoder       *)
(* included, whatever is decoded and whatever size is offered: for a       *)
(* buffer that is too small the answer is "Output buffer too small".       *)
StaysInBuffer == Len(dst) <= size

(* A buffer of the size that was asked for suffices.                       *)
SizeAskedForSuffices == retried /\ pc = "returned" => ret # TOO_SMALL

(* What was encoded is decoded to the same bytes, through the two tables   *)
(* and for every length modulo 3.                                          *)
RoundTrip ==
    pc = "returned" /\ input # <<>> /\ ~Encoding /\ ret # TOO_SMALL =>
        ret = 0 /\ dst = input

(* A text is decoded only if it is characters of the alphabet, then at     *)
(* most two '=', with line ends anywhere; then three bytes come out of     *)
(* every four characters, less one for each '='.                           *)
Letters == {k \in DOMAIN src : src[k] \notin {CR, LF, PAD}}
Pads    == {k \in DOMAIN src : src[k] = PAD}
WellFormed ==
    /\ \A k \in DOMAIN src : src[k] = CR => k < slen /\ src[k + 1] = LF
    /\ \A k \in Letters : src[k] \in {EncMap[v] : v \in 0 .. 63}
    /\ \A k \in Letters, p \in Pads : k < p
    /\ Cardinality(Pads) <= 2

DecodesWellFormedOnly ==
    LET chars == Cardinality(Letters \cup Pads)
    IN  pc = "returned" /\ ~Encoding =>
            /\ ret # INVALID <=> WellFormed
            /\ ret = 0 /\ chars % 4 = 0 =>
                  Len(dst) = (chars \div 4) * 3 - Cardinality(Pads)
=============================================================================
