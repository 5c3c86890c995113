---------------------------- MODULE Base64Proofs -----------------------------
(***************************************************************************)
(* Theorems about Base64: for inputs and texts of every length whose sizes *)
(* fit an unsigned int (LengthsFit), and buffers of every size.            *)
(***************************************************************************)
EXTENDS Base64, FiniteSetTheorems, SequenceTheorems, TLAPS

Octet == 0 .. 255

(* The characters of a text up to position k that no line end takes up,    *)
(* and those of them that are '='.                                         *)
CharsTo(s, k) == {p \in 1 .. k : s[p] \notin {CR, LF}}
PadsTo(s, k)  == {p \in 1 .. k : s[p] = PAD}

(* The second table has an entry for each of them.                         *)
Scanned(s, k) == \A p \in CharsTo(s, k) : s[p] <= 127

CharCount(s, k) == Cardinality(CharsTo(s, k))
PadCount(s, k)  == Cardinality(PadsTo(s, k))

-----------------------------------------------------------------------------
(* The two tables: what is encoded is decoded to the same six bits, and    *)
(* exactly the characters of the alphabet have six bits.                   *)
(* EncMap and DecMap, range by range.                                      *)
LEMMA EncMapRanges ==
    /\ \A v \in 0 .. 25  : EncMap[v] = v + 65
    /\ \A v \in 26 .. 51 : EncMap[v] = v + 71
    /\ \A v \in 52 .. 61 : EncMap[v] = v - 4
    /\ EncMap[62] = 43 /\ EncMap[63] = 47
BY DEF EncMap

LEMMA EncMapType ==
    ASSUME NEW v \in 0 .. 63
    PROVE  EncMap[v] \in 43 .. 122 /\ EncMap[v] # PAD
<1>1. CASE v \in 0 .. 25
  BY <1>1, EncMapRanges DEF PAD
<1>2. CASE v \in 26 .. 51
  BY <1>2, EncMapRanges DEF PAD
<1>3. CASE v \in 52 .. 61
  BY <1>3, EncMapRanges DEF PAD
<1>4. CASE v = 62 \/ v = 63
  BY <1>4, EncMapRanges DEF PAD
<1> QED
  BY <1>1, <1>2, <1>3, <1>4

LEMMA DecMapRanges ==
    /\ \A c \in 65 .. 90  : DecMap[c] = c - 65
    /\ \A c \in 97 .. 122 : DecMap[c] = c - 71
    /\ \A c \in 48 .. 57  : DecMap[c] = c + 4
    /\ DecMap[43] = 62 /\ DecMap[47] = 63
    /\ \A c \in 0 .. 127 :
          c \in 65 .. 90 \/ c \in 97 .. 122 \/ c \in 48 .. 57 \/ c = 43 \/ c = 47
          \/ DecMap[c] \in {64, 127}
BY DEF DecMap, PAD

LEMMA DecMapOfEncMap ==
    ASSUME NEW v \in 0 .. 63
    PROVE  DecMap[EncMap[v]] = v
<1>1. CASE v \in 0 .. 25
  <2>1. EncMap[v] = v + 65 /\ v + 65 \in 65 .. 90
    BY <1>1, EncMapRanges
  <2> QED
    BY <2>1, DecMapRanges
<1>2. CASE v \in 26 .. 51
  <2>1. EncMap[v] = v + 71 /\ v + 71 \in 97 .. 122
    BY <1>2, EncMapRanges
  <2> QED
    BY <2>1, DecMapRanges
<1>3. CASE v \in 52 .. 61
  <2>1. EncMap[v] = v - 4 /\ v - 4 \in 48 .. 57
    BY <1>3, EncMapRanges
  <2> QED
    BY <2>1, DecMapRanges
<1>4. CASE v = 62 \/ v = 63
  BY <1>4, EncMapRanges, DecMapRanges
<1> QED
  BY <1>1, <1>2, <1>3, <1>4

LEMMA DecMapType ==
    ASSUME NEW c \in Octet, c <= 127
    PROVE  /\ DecMap[c] \in Nat
           /\ DecMap[c] <= 127
           /\ DecMap[c] = 64 <=> c = PAD
           /\ c \in {CR, LF} => DecMap[c] = 127
BY DEF DecMap, PAD, CR, LF, Octet

LEMMA SixBitsExactly ==
    ASSUME NEW c \in Octet, c <= 127
    PROVE  DecMap[c] < 64 <=> c \in {EncMap[v] : v \in 0 .. 63}
<1>1. ASSUME NEW v \in 0 .. 63, c = EncMap[v] PROVE DecMap[c] < 64
  BY <1>1, DecMapOfEncMap
<1>2. ASSUME DecMap[c] < 64 PROVE DecMap[c] \in 0 .. 63 /\ EncMap[DecMap[c]] = c
  <2>1. CASE c \in 65 .. 90
    <3>1. DecMap[c] = c - 65 /\ c - 65 \in 0 .. 25
      BY <2>1, DecMapRanges
    <3> QED
      BY <3>1, EncMapRanges
  <2>2. CASE c \in 97 .. 122
    <3>1. DecMap[c] = c - 71 /\ c - 71 \in 26 .. 51
      BY <2>2, DecMapRanges
    <3> QED
      BY <3>1, EncMapRanges
  <2>3. CASE c \in 48 .. 57
    <3>1. DecMap[c] = c + 4 /\ c + 4 \in 52 .. 61
      BY <2>3, DecMapRanges
    <3>2. EncMap[c + 4] = (c + 4) - 4
      BY <3>1, EncMapRanges
    <3> QED
      BY <2>3, <3>1, <3>2
  <2>4. CASE c = 43 \/ c = 47
    BY <2>4, DecMapRanges, EncMapRanges
  <2>5. CASE ~ (c \in 65 .. 90 \/ c \in 97 .. 122 \/ c \in 48 .. 57 \/ c = 43 \/ c = 47)
    <3>1. c \in 0 .. 127
      BY DEF Octet
    <3>2. DecMap[c] \in {64, 127}
      BY <2>5, <3>1, DecMapRanges
    <3> QED
      BY <1>2, <3>2
  <2> QED
    BY <2>1, <2>2, <2>3, <2>4, <2>5
<1> QED
  BY <1>1, <1>2

(* The same sizes, computed in a word that never wraps.                    *)
PlainLength(len) ==
    LET bits  == len * 8
        whole == bits \div 6
    IN  CASE bits - whole * 6 = 2 -> whole + 3
          [] bits - whole * 6 = 4 -> whole + 2
          [] OTHER -> whole

PlainSize(len) == PlainLength(len) + 1

PlainDecodeSize(chars) == (chars * 6 + 7) \div 8

(* The length the encoder asks for is that of the groups it writes.        *)
LEMMA EncodedLengthOf ==
    ASSUME NEW g \in Nat
    PROVE  /\ PlainLength(3 * g) = 4 * g
           /\ PlainLength(3 * g + 1) = 4 * g + 4
           /\ PlainLength(3 * g + 2) = 4 * g + 4
<1>1. PlainLength(3 * g) = 4 * g
  <2>1. ((3 * g) * 8) \div 6 = 4 * g
    OBVIOUS
  <2> QED
    BY <2>1 DEF PlainLength
<1>2. PlainLength(3 * g + 1) = 4 * g + 4
  <2>1. ((3 * g + 1) * 8) \div 6 = 4 * g + 1
    OBVIOUS
  <2> QED
    BY <2>1 DEF PlainLength
<1>3. PlainLength(3 * g + 2) = 4 * g + 4
  <2>1. ((3 * g + 2) * 8) \div 6 = 4 * g + 2
    OBVIOUS
  <2> QED
    BY <2>1 DEF PlainLength
<1> QED
  BY <1>1, <1>2, <1>3

(* The size the decoder asks for holds three bytes for every four          *)
(* characters.                                                             *)
LEMMA DecodeSizeOf ==
    ASSUME NEW h \in Nat, NEW r \in Nat, NEW N \in Nat, 4 * h + r <= N
    PROVE  3 * h <= PlainDecodeSize(N) /\ PlainDecodeSize(N) \in Nat
BY DEF PlainDecodeSize

LEMMA NextInGroup ==
    ASSUME NEW r \in Nat, r < 4
    PROVE  (r + 1) % 4 = IF r = 3 THEN 0 ELSE r + 1
OBVIOUS

LEMMA Thirds ==
    ASSUME NEW len \in Nat
    PROVE  /\ \E h \in Nat : len = 3 * h \/ len = 3 * h + 1 \/ len = 3 * h + 2
           /\ PlainLength(len) \in Nat
<1>1. PICK h \in Nat : len = 3 * h \/ len = 3 * h + 1 \/ len = 3 * h + 2
  <2>1. PICK h \in Nat, r \in Nat : len \div 3 = h /\ len % 3 = r /\ r < 3
    OBVIOUS
  <2>2. len = 3 * h + r
    BY <2>1
  <2> QED
    BY <2>1, <2>2
<1>2. 4 * h \in Nat /\ 4 * h + 4 \in Nat
  OBVIOUS
<1>3. PlainLength(len) \in {4 * h, 4 * h + 4}
  BY <1>1, EncodedLengthOf
<1> QED
  BY <1>1, <1>2, <1>3

(* Where they fit the word, the sizes are the plain ones, and those of the *)
(* text an input is encoded to fit as well.                                *)
LEMMA ModOfSmall ==
    ASSUME NEW a \in Nat, NEW m \in Nat, a < m
    PROVE  a % m = a
OBVIOUS

LEMMA EncodeSizeFits ==
    ASSUME NEW len \in Nat, 8 * len + 23 < Word32
    PROVE  /\ EncodedLength(len) = PlainLength(len) /\ EncodeSize(len) = PlainSize(len)
           /\ PlainLength(len) < Word32
           /\ 6 * PlainLength(len) + 7 < Word32
<1>1. Word32 \in Nat
  BY Base64Assumption
<1>2. len * 8 \in Nat /\ len * 8 < Word32
  BY <1>1
<1>3. (len * 8) % Word32 = len * 8
  BY <1>1, <1>2, ModOfSmall
<1>4. EncodedLength(len) = PlainLength(len)
  BY <1>3 DEF EncodedLength, PlainLength
<1>5. PICK h \in Nat : len = 3 * h \/ len = 3 * h + 1 \/ len = 3 * h + 2
  BY Thirds
<1>6. 3 * PlainLength(len) <= 4 * len + 8 /\ PlainLength(len) \in Nat
  <2>1. CASE len = 3 * h
    BY <2>1, EncodedLengthOf
  <2>2. CASE len = 3 * h + 1
    BY <2>2, EncodedLengthOf
  <2>3. CASE len = 3 * h + 2
    BY <2>3, EncodedLengthOf
  <2> QED
    BY <1>5, <2>1, <2>2, <2>3
<1>7. PICK P \in Nat : P = PlainLength(len) /\ 3 * P <= 4 * len + 8
  BY <1>6
<1>8. P < Word32 /\ 6 * P + 7 < Word32
  BY <1>1, <1>7
<1> QED
  BY <1>4, <1>7, <1>8 DEF EncodeSize, PlainSize

LEMMA DecodeSizeFits ==
    ASSUME NEW N \in Nat, 6 * N + 7 < Word32
    PROVE  DecodeSize(N) = PlainDecodeSize(N)
<1>1. Word32 \in Nat /\ N * 6 + 7 \in Nat /\ N * 6 + 7 < Word32
  BY Base64Assumption
<1>2. (N * 6 + 7) % Word32 = N * 6 + 7
  BY <1>1, ModOfSmall
<1> QED
  BY <1>2 DEF DecodeSize, PlainDecodeSize

(* One more position is one more character or none.                        *)
LEMMA CountStart ==
    ASSUME NEW s
    PROVE  CharCount(s, 0) = 0 /\ PadCount(s, 0) = 0
<1>1. CharsTo(s, 0) = {} /\ PadsTo(s, 0) = {}
  BY DEF CharsTo, PadsTo
<1> QED
  BY <1>1, FS_EmptySet DEF CharCount, PadCount

LEMMA CountType ==
    ASSUME NEW s, NEW k \in Nat
    PROVE  /\ IsFiniteSet(CharsTo(s, k)) /\ CharCount(s, k) \in Nat
           /\ IsFiniteSet(PadsTo(s, k)) /\ PadCount(s, k) \in Nat
<1>1. IsFiniteSet(1 .. k)
  BY FS_Interval
<1>2. CharsTo(s, k) \subseteq 1 .. k /\ PadsTo(s, k) \subseteq 1 .. k
  BY DEF CharsTo, PadsTo
<1> QED
  BY <1>1, <1>2, FS_Subset, FS_CardinalityType DEF CharCount, PadCount

LEMMA CountNext ==
    ASSUME NEW s, NEW k \in Nat
    PROVE  /\ CharCount(s, k + 1) = CharCount(s, k) + (IF s[k + 1] \in {CR, LF} THEN 0 ELSE 1)
           /\ PadCount(s, k + 1) = PadCount(s, k) + (IF s[k + 1] = PAD THEN 1 ELSE 0)
<1>1. k + 1 \notin CharsTo(s, k) /\ k + 1 \notin PadsTo(s, k)
  BY DEF CharsTo, PadsTo
<1>2. CharsTo(s, k + 1) = IF s[k + 1] \in {CR, LF} THEN CharsTo(s, k)
                          ELSE CharsTo(s, k) \cup {k + 1}
  BY DEF CharsTo
<1>3. PadsTo(s, k + 1) = IF s[k + 1] = PAD THEN PadsTo(s, k) \cup {k + 1} ELSE PadsTo(s, k)
  BY DEF PadsTo
<1>4. /\ Cardinality(CharsTo(s, k) \cup {k + 1}) = CharCount(s, k) + 1
      /\ Cardinality(PadsTo(s, k) \cup {k + 1}) = PadCount(s, k) + 1
  BY <1>1, CountType, FS_AddElement DEF CharCount, PadCount
<1>5. CharCount(s, k) \in Nat /\ PadCount(s, k) \in Nat
  BY CountType
<1> QED
  BY <1>2, <1>3, <1>4, <1>5 DEF CharCount, PadCount

LEMMA CountMonotone ==
    ASSUME NEW s, NEW k \in Nat, NEW l \in Nat, k <= l
    PROVE  CharCount(s, k) <= CharCount(s, l)
<1>1. CharsTo(s, k) \subseteq CharsTo(s, l)
  BY DEF CharsTo
<1> QED
  BY <1>1, CountType, FS_Subset DEF CharCount

-----------------------------------------------------------------------------
(* The loops and the sizes.                                                *)
TypeInv ==
    /\ pc \in {"encode", "groups", "decode", "chars", "returned"}
    /\ ret \in {0, TOO_SMALL, INVALID}
    /\ input \in Seq(Octet) /\ src \in Seq(Octet) /\ dst \in Seq(Octet)
    /\ size \in Nat /\ dlen \in Nat
    /\ retried \in BOOLEAN
    /\ i \in 0 .. Len(src)
    /\ j \in Int /\ n \in Nat /\ x \in Nat

(* A call begins with an empty buffer of the size it is told.              *)
BeginInv ==
    /\ pc \in {"encode", "decode"} => dst = <<>> /\ dlen = size
    /\ pc = "encode" => i = 0

(* The encoder has written four characters for every three bytes.          *)
EncodeInv ==
    /\ pc \in {"encode", "groups"} => src = input
    /\ pc = "groups" =>
          /\ src # <<>>
          /\ PlainSize(slen) <= size
          /\ \E g \in Nat : i = 3 * g /\ Len(dst) = 4 * g

(* The first loop of the decoder counts the characters; the second has     *)
(* written three bytes at most for every four of them.                     *)
DecodeInv ==
    /\ pc \in {"decode", "chars"} => src # input \/ src = <<>>
    /\ pc = "decode" => n = CharCount(src, i) /\ Scanned(src, i)
    /\ pc = "chars" =>
          /\ Scanned(src, slen)
          /\ PlainDecodeSize(CharCount(src, slen)) <= size
          /\ n < 4 /\ j <= 3
          /\ \E g \in Nat : CharCount(src, i) = 4 * g + n /\ Len(dst) <= 3 * g

(* The size asked for, and a call that was given it.                       *)
Asked == IF Encoding THEN PlainSize(slen) ELSE PlainDecodeSize(CharCount(src, slen))

AskedInv ==
    /\ pc = "returned" /\ ret = TOO_SMALL => dlen = Asked
    /\ retried /\ pc \in {"encode", "decode"} => dlen = Asked

(* A text that was encoded, with the NUL behind it.                        *)
EncodedInv ==
    pc = "returned" /\ ret = 0 /\ Encoding /\ src # <<>> =>
        dlen = PlainLength(slen) /\ Len(dst) = dlen + 1

BufferInv ==
    /\ TypeInv /\ BeginInv /\ EncodeInv /\ DecodeInv /\ AskedInv /\ EncodedInv
    /\ StaysInBuffer /\ SizeAskedForSuffices

(* The sizes of what is encoded and of what is decoded fit the word.       *)
Fits == 8 * Len(input) + 23 < Word32 /\ 6 * Len(src) + 7 < Word32

(* Bytes are cut into six bits, and six bits put together to bytes.        *)
LEMMA SixBits ==
    ASSUME NEW b \in Octet, NEW c \in Octet
    PROVE  /\ b \div 4 \in 0 .. 63
           /\ (b % 4) * 16 + c \div 16 \in 0 .. 63
           /\ (b % 16) * 4 + c \div 64 \in 0 .. 63
           /\ (b % 4) * 16 \in 0 .. 63
           /\ (b % 16) * 4 \in 0 .. 63
           /\ b % 64 \in 0 .. 63
BY DEF Octet

LEMMA EncMapOctet ==
    ASSUME NEW v \in 0 .. 63
    PROVE  EncMap[v] \in Octet
BY EncMapType DEF Octet

Three(y) == <<y \div 2^16, (y \div 2^8) % 256, y % 256>>

LEMMA ThreeBytes ==
    ASSUME NEW y \in Nat, y < 2^24, NEW k \in Int, k <= 3
    PROVE  /\ SubSeq(Three(y), 1, k) \in Seq(Octet)
           /\ Len(SubSeq(Three(y), 1, k)) = IF 1 <= k THEN k ELSE 0
           /\ \A p \in 1 .. k : SubSeq(Three(y), 1, k)[p] = Three(y)[p]
<1> DEFINE three == Three(y)
<1>1. 2^24 = 16777216 /\ 2^16 = 65536 /\ 2^8 = 256
  OBVIOUS
<1>2. y \div 2^16 \in Octet /\ (y \div 2^8) % 256 \in Octet /\ y % 256 \in Octet
  BY <1>1 DEF Octet
<1>3. three \in Seq(Octet) /\ Len(three) = 3
  BY <1>2 DEF Three
<1> HIDE DEF three
<1>4. \A p \in 1 .. k : three[p] \in Octet
  <2>1. \A p \in 1 .. k : p \in 1 .. 3
    OBVIOUS
  <2> QED
    BY <1>3, <2>1, ElementOfSeq
<1>5. /\ SubSeq(three, 1, k) \in Seq(Octet)
      /\ Len(SubSeq(three, 1, k)) = IF 1 <= k THEN k ELSE 0
      /\ \A p \in 1 .. k : SubSeq(three, 1, k)[p] = three[p]
  BY <1>4, SubSeqProperties
<1> QED
  BY <1>3, <1>5 DEF three

(* A byte of the argument.                                                 *)
LEMMA ByteType ==
    ASSUME TypeInv, NEW k \in 0 .. slen - 1
    PROVE  Byte(k) \in Octet /\ Byte(k) = src[k + 1] /\ slen \in Nat
<1>1. slen \in Nat
  BY LenProperties DEF TypeInv, slen
<1>2. k + 1 \in 1 .. Len(src)
  BY <1>1 DEF slen
<1> QED
  BY <1>1, <1>2, ElementOfSeq DEF TypeInv, Byte

-----------------------------------------------------------------------------
LEMMA BufferInit == Init => BufferInv
<1> SUFFICES ASSUME Init PROVE BufferInv
  OBVIOUS
<1> USE DEF Init
<1>1. TypeInv
  <2>1. dst \in Seq(Octet)
    BY EmptySeq
  <2>2. src \in Seq(Octet) /\ input \in Seq(Octet)
    BY Base64Assumption, EmptySeq, ZenonT(60) DEF Octet
  <2>3. 0 \in 0 .. Len(src)
    BY <2>2, LenProperties
  <2>4. size \in Nat
    BY Base64Assumption
  <2>5. i \in 0 .. Len(src) /\ j \in Int /\ n \in Nat /\ x \in Nat /\ dlen \in Nat
    BY <2>3, <2>4
  <2>6. pc \in {"encode", "groups", "decode", "chars", "returned"}
    OBVIOUS
  <2>7. ret \in {0, TOO_SMALL, INVALID} /\ retried \in BOOLEAN
    OBVIOUS
  <2> QED
    BY <2>1, <2>2, <2>4, <2>5, <2>6, <2>7, Zenon DEF TypeInv
<1>2. BeginInv
  BY DEF BeginInv
<1>3. EncodeInv
  BY DEF EncodeInv
<1>4. DecodeInv
  BY CountStart DEF DecodeInv, Scanned, CharsTo
<1>5. AskedInv /\ EncodedInv /\ SizeAskedForSuffices
  BY DEF AskedInv, EncodedInv, SizeAskedForSuffices
<1>6. StaysInBuffer
  BY <1>1 DEF StaysInBuffer, TypeInv
<1> QED
  BY <1>1, <1>2, <1>3, <1>4, <1>5, <1>6 DEF BufferInv

LEMMA FitsInit ==
    ASSUME LengthsFit, Init
    PROVE  Fits
<1>1. Word32 \in Nat /\ Word32 > 31
  BY Base64Assumption
<1>2. CASE src \in Inputs /\ input = src
  <2>1. 8 * Len(src) + 23 < Word32
    BY <1>2 DEF LengthsFit
  <2>2. src \in Seq(0 .. 255)
    BY <1>2, Base64Assumption
  <2>3. Len(src) \in Nat
    BY <2>2, LenProperties
  <2> QED
    BY <1>1, <1>2, <2>1, <2>3 DEF Fits
<1>3. CASE src \in Texts /\ input = <<>>
  <2>1. 6 * Len(src) + 7 < Word32
    BY <1>3 DEF LengthsFit
  <2>2. Len(input) = 0
    BY <1>3
  <2> QED
    BY <1>1, <2>1, <2>2 DEF Fits
<1> QED
  BY <1>2, <1>3 DEF Init

(* The encoder looks at its arguments.                                     *)
LEMMA EncodeBeginsBuffer ==
    ASSUME BufferInv, Fits, EncodeBegins
    PROVE  BufferInv'
<1> USE DEF BufferInv, EncodeBegins, Return
<1>0. slen \in Nat /\ EncodeSize(slen) = PlainSize(slen)
  <2>1. slen \in Nat /\ 8 * slen + 23 < Word32
    BY LenProperties DEF TypeInv, EncodeInv, Fits, slen
  <2> QED
    BY <2>1, EncodeSizeFits
<1>1. slen \in Nat /\ PlainSize(slen) \in Nat /\ EncodeSize(slen) = PlainSize(slen)
  BY <1>0, Thirds DEF PlainSize
<1>2. TypeInv'
  BY <1>1 DEF TypeInv
<1>3. BeginInv'
  BY DEF BeginInv
<1>4. EncodeInv'
  <2>1. ASSUME pc' = "groups" PROVE src # <<>> /\ PlainSize(slen) <= size
    BY <1>1, <2>1 DEF slen, BeginInv, TypeInv
  <2>2. 0 \in Nat /\ i = 3 * 0 /\ Len(dst) = 4 * 0
    BY DEF BeginInv
  <2>3. src' = input'
    BY DEF EncodeInv
  <2> QED
    BY <2>1, <2>2, <2>3 DEF EncodeInv, slen
<1>5. DecodeInv'
  BY DEF DecodeInv
<1>6. AskedInv' /\ EncodedInv' /\ SizeAskedForSuffices'
  <2>1. Encoding /\ Asked = PlainSize(slen) /\ Asked' = Asked
    BY DEF EncodeInv, Encoding, Asked, slen
  <2>2. SizeAskedForSuffices'
    BY <1>1, <2>1 DEF SizeAskedForSuffices, AskedInv, TOO_SMALL
  <2>3. AskedInv'
    BY <1>1, <2>1 DEF AskedInv, TOO_SMALL
  <2>4. EncodedInv'
    BY DEF EncodedInv, TOO_SMALL, slen
  <2> QED
    BY <2>2, <2>3, <2>4
<1>7. StaysInBuffer'
  BY DEF StaysInBuffer
<1> QED
  BY <1>2, <1>3, <1>4, <1>5, <1>6, <1>7

(* Three bytes become four characters.                                     *)
LEMMA EncodeGroupBuffer ==
    ASSUME BufferInv, EncodeGroup
    PROVE  BufferInv'
<1> DEFINE tail == <<EncMap[Byte(i) \div 4],
                     EncMap[(Byte(i) % 4) * 16 + Byte(i + 1) \div 16],
                     EncMap[(Byte(i + 1) % 16) * 4 + Byte(i + 2) \div 64],
                     EncMap[Byte(i + 2) % 64]>>
<1>1. PICK g \in Nat : i = 3 * g /\ Len(dst) = 4 * g
  BY DEF BufferInv, EncodeInv, EncodeGroup
<1>2. slen \in Nat /\ i + 3 <= slen /\ i \in Nat
  BY LenProperties DEF BufferInv, TypeInv, slen, EncodeGroup
<1>3. Byte(i) \in Octet /\ Byte(i + 1) \in Octet /\ Byte(i + 2) \in Octet
  <2>1. i \in 0 .. slen - 1 /\ i + 1 \in 0 .. slen - 1 /\ i + 2 \in 0 .. slen - 1
    BY <1>2
  <2> QED
    BY <2>1, ByteType DEF BufferInv
<1>4. tail \in Seq(Octet) /\ Len(tail) = 4
  <2>1. tail[1] \in Octet /\ tail[2] \in Octet /\ tail[3] \in Octet /\ tail[4] \in Octet
    BY <1>3, SixBits, EncMapOctet
  <2> QED
    BY <2>1
<1>5. dst' = dst \o tail
  BY DEF EncodeGroup
<1> HIDE DEF tail
<1>6. dst' \in Seq(Octet) /\ Len(dst') = 4 * (g + 1)
  <2>1. dst \in Seq(Octet)
    BY DEF BufferInv, TypeInv
  <2>2. dst \o tail \in Seq(Octet) /\ Len(dst \o tail) = Len(dst) + Len(tail)
    BY <1>4, <2>1, ConcatProperties
  <2> QED
    BY <1>1, <1>4, <1>5, <2>2
<1> USE DEF BufferInv, EncodeGroup
<1>7. TypeInv'
  BY <1>2, <1>6 DEF TypeInv, slen
<1>8. i' = 3 * (g + 1)
  BY <1>1
<1>9. EncodeInv'
  <2>1. PlainSize(slen)' <= size' /\ src' # <<>> /\ src' = input'
    BY DEF EncodeInv, slen
  <2>2. g + 1 \in Nat
    OBVIOUS
  <2>3. \E h \in Nat : i' = 3 * h /\ Len(dst') = 4 * h
    BY <1>6, <1>8, <2>2
  <2> QED
    BY <2>1, <2>3 DEF EncodeInv
<1>10. BeginInv' /\ DecodeInv' /\ AskedInv' /\ EncodedInv' /\ SizeAskedForSuffices'
  BY DEF BeginInv, DecodeInv, AskedInv, EncodedInv, SizeAskedForSuffices
<1>11. StaysInBuffer'
  <2>1. 4 * (g + 1) <= PlainLength(slen)
    <3>1. PICK h \in Nat : slen = 3 * h \/ slen = 3 * h + 1 \/ slen = 3 * h + 2
      BY <1>2, Thirds
    <3>2. g + 1 <= h
      BY <1>1, <1>2, <3>1
    <3> QED
      BY <3>1, <3>2, EncodedLengthOf, SMTT(30)
  <2>2. PlainLength(slen) \in Nat /\ size \in Nat
    BY <1>2, Thirds DEF TypeInv
  <2>3. PlainLength(slen) + 1 <= size
    BY DEF EncodeInv, PlainSize
  <2> QED
    BY <1>6, <2>1, <2>2, <2>3 DEF StaysInBuffer
<1> QED
  BY <1>7, <1>9, <1>10, <1>11

(* What is left becomes four characters or none; the NUL still fits.       *)
LEMMA EncodeEndsBuffer ==
    ASSUME BufferInv, Fits, EncodeEnds
    PROVE  BufferInv'
<1> DEFINE C2 == IF i + 1 < slen THEN Byte(i + 1) ELSE 0
           four == <<EncMap[Byte(i) \div 4], EncMap[(Byte(i) % 4) * 16 + C2 \div 16],
                     IF i + 1 < slen THEN EncMap[(C2 % 16) * 4] ELSE PAD, PAD>>
           tail == IF i = slen THEN <<>> ELSE four
<1>1. PICK g \in Nat : i = 3 * g /\ Len(dst) = 4 * g
  BY DEF BufferInv, EncodeInv, EncodeEnds
<1>2. PICK L \in Nat : L = slen /\ i <= L /\ i + 3 > L
  BY LenProperties DEF BufferInv, TypeInv, slen, EncodeEnds
<1>3. tail \in Seq(Octet) /\ Len(tail) = IF i = slen THEN 0 ELSE 4
  <2>1. CASE i = slen
    BY <2>1, EmptySeq
  <2>2. CASE i # slen
    <3>1. i \in 0 .. slen - 1 /\ (i + 1 < slen => i + 1 \in 0 .. slen - 1)
      BY <1>1, <1>2, <2>2
    <3>2. Byte(i) \in Octet /\ (i + 1 < slen => Byte(i + 1) \in Octet)
      BY <3>1, ByteType DEF BufferInv
    <3>3. C2 \in Octet
      BY <3>2 DEF Octet
    <3>4. PAD \in Octet
      BY DEF PAD, Octet
    <3> HIDE DEF C2
    <3>5. four[1] \in Octet /\ four[2] \in Octet /\ four[3] \in Octet /\ four[4] \in Octet
      BY <3>2, <3>3, <3>4, SixBits, EncMapOctet
    <3>6. four \in Seq(Octet) /\ Len(four) = 4
      BY <3>5
    <3> QED
      BY <2>2, <3>6
  <2> QED
    BY <2>1, <2>2
<1>4. dst' = dst \o tail \o <<0>> /\ dlen' = Len(dst \o tail) % Word32
  BY DEF EncodeEnds
<1> HIDE DEF tail
<1>5. /\ dst \o tail \in Seq(Octet)
      /\ Len(dst \o tail) = 4 * g + (IF i = slen THEN 0 ELSE 4)
  <2>1. dst \in Seq(Octet)
    BY DEF BufferInv, TypeInv
  <2>2. dst \o tail \in Seq(Octet) /\ Len(dst \o tail) = Len(dst) + Len(tail)
    BY <1>3, <2>1, ConcatProperties
  <2> QED
    BY <1>1, <1>3, <2>2
<1>6. Len(dst \o tail) = PlainLength(L)
  <2>1. L = 3 * g \/ L = 3 * g + 1 \/ L = 3 * g + 2
    BY <1>1, <1>2
  <2>2. i = slen <=> L = 3 * g
    BY <1>1, <1>2
  <2>3. /\ PlainLength(3 * g) = 4 * g /\ PlainLength(3 * g + 1) = 4 * g + 4
        /\ PlainLength(3 * g + 2) = 4 * g + 4
    BY EncodedLengthOf
  <2>4. PICK N \in Nat : N = Len(dst \o tail) /\ N = 4 * g + (IF L = 3 * g THEN 0 ELSE 4)
    BY <1>5, <2>2
  <2>5. CASE L = 3 * g
    BY <2>3, <2>4, <2>5
  <2>6. CASE L = 3 * g + 1
    BY <2>3, <2>4, <2>6
  <2>7. CASE L = 3 * g + 2
    BY <2>3, <2>4, <2>7
  <2> QED
    BY <2>1, <2>5, <2>6, <2>7
<1>7. PlainLength(L) \in Nat /\ dlen' = PlainLength(L)
  <2>1. 8 * L + 23 < Word32
    BY <1>2 DEF BufferInv, EncodeInv, EncodeEnds, Fits, slen
  <2>2. PlainLength(L) \in Nat /\ PlainLength(L) < Word32 /\ Word32 \in Nat
    BY <1>2, <2>1, Thirds, EncodeSizeFits, Base64Assumption
  <2>3. PlainLength(L) % Word32 = PlainLength(L)
    BY <2>2, ModOfSmall
  <2> QED
    BY <1>4, <1>6, <2>2, <2>3
<1>8. dst' \in Seq(Octet) /\ Len(dst') = PlainLength(L) + 1
  <2>1. <<0>> \in Seq(Octet) /\ Len(<<0>>) = 1
    BY DEF Octet
  <2> QED
    BY <1>4, <1>5, <1>6, <2>1, ConcatProperties
<1> USE DEF BufferInv, EncodeEnds, Return
<1>9. TypeInv'
  BY <1>7, <1>8 DEF TypeInv
<1>10. EncodedInv'
  BY <1>2, <1>7, <1>8 DEF EncodedInv, slen
<1>11. BeginInv' /\ EncodeInv' /\ DecodeInv' /\ AskedInv' /\ SizeAskedForSuffices'
  BY DEF BeginInv, EncodeInv, DecodeInv, AskedInv, SizeAskedForSuffices, TOO_SMALL
<1>12. StaysInBuffer'
  <2>1. PlainLength(L) + 1 <= size
    BY <1>2 DEF EncodeInv, PlainSize
  <2> QED
    BY <1>8, <2>1 DEF StaysInBuffer
<1> QED
  BY <1>9, <1>10, <1>11, <1>12

(* The three ways of the first loop of the decoder.                        *)
PadsNow   == j + (IF Byte(i) = PAD THEN 1 ELSE 0)
AtLineEnd == (Byte(i) = CR /\ slen - i >= 2 /\ Byte(i + 1) = LF) \/ Byte(i) = LF
AtInvalid == \/ PadsNow > 2 \/ Byte(i) > 127 \/ DecMap[Byte(i)] = 127
             \/ DecMap[Byte(i)] < 64 /\ PadsNow # 0

LEMMA ScanCharCases ==
    ASSUME ScanChar
    PROVE  \/ AtLineEnd /\ i' = i + 1 /\ UNCHANGED <<pc, ret, j, n>>
           \/ ~ AtLineEnd /\ AtInvalid /\ Return(INVALID) /\ UNCHANGED <<i, j, n>>
           \/ /\ ~ AtLineEnd /\ ~ AtInvalid
              /\ i' = i + 1 /\ j' = PadsNow /\ n' = n + 1 /\ UNCHANGED <<pc, ret>>
<1>1. IF AtLineEnd THEN i' = i + 1 /\ UNCHANGED <<pc, ret, j, n>>
      ELSE IF AtInvalid THEN Return(INVALID) /\ UNCHANGED <<i, j, n>>
      ELSE i' = i + 1 /\ j' = PadsNow /\ n' = n + 1 /\ UNCHANGED <<pc, ret>>
  BY Zenon DEF ScanChar, AtLineEnd, AtInvalid, PadsNow
<1> QED
  BY <1>1

(* The first loop of the decoder counts every character that is no line    *)
(* end: a CR it counts is invalid.                                         *)
LEMMA ScanCharBuffer ==
    ASSUME BufferInv, ScanChar
    PROVE  BufferInv'
<1> USE DEF BufferInv
<1>1. i \in 0 .. slen - 1 /\ i \in Nat /\ slen \in Nat
  BY LenProperties DEF TypeInv, slen, ScanChar
<1>2. Byte(i) \in Octet /\ Byte(i) = src[i + 1]
  BY <1>1, ByteType
<1>3. \/ i' = i + 1 /\ Byte(i) \in {CR, LF} /\ UNCHANGED <<pc, ret, j, n>>
      \/ Return(INVALID) /\ UNCHANGED <<i, j, n>>
      \/ /\ i' = i + 1 /\ n' = n + 1 /\ j' = j + (IF Byte(i) = PAD THEN 1 ELSE 0)
         /\ Byte(i) \notin {CR, LF} /\ ~ (Byte(i) > 127) /\ UNCHANGED <<pc, ret>>
  <2>1. AtLineEnd => Byte(i) \in {CR, LF}
    BY DEF AtLineEnd
  <2>2. ~ AtLineEnd /\ ~ AtInvalid => Byte(i) \notin {CR, LF}
    <3>1. CR <= 127 /\ CR \in Octet
      BY DEF CR, Octet
    <3>2. DecMap[CR] = 127
      BY <3>1, DecMapType
    <3> QED
      BY <3>2 DEF AtLineEnd, AtInvalid
  <2>3. ~ AtInvalid => ~ (Byte(i) > 127)
    BY DEF AtInvalid
  <2> QED
    BY <2>1, <2>2, <2>3, ScanCharCases DEF PadsNow
<1>4. /\ pc = "decode"
      /\ UNCHANGED <<input, src, size, dlen, dst, retried, x>>
  BY DEF ScanChar
<1>5. TypeInv'
  <2>1. i' \in 0 .. Len(src)
    BY <1>1, <1>3 DEF TypeInv, slen
  <2>2. j' \in Int /\ n' \in Nat
    BY <1>3 DEF TypeInv
  <2>3. /\ pc' \in {"encode", "groups", "decode", "chars", "returned"}
        /\ ret' \in {0, TOO_SMALL, INVALID}
    BY <1>3 DEF TypeInv, Return
  <2> QED
    BY <1>4, <2>1, <2>2, <2>3 DEF TypeInv
<1>6. DecodeInv'
  <2>1. n = CharCount(src, i) /\ (src # input \/ src = <<>>)
    BY <1>4 DEF DecodeInv
  <2>2. CharCount(src, i + 1) = CharCount(src, i) + (IF src[i + 1] \in {CR, LF} THEN 0 ELSE 1)
    BY <1>1, CountNext
  <2>3. CharCount(src, i) \in Nat
    BY <1>1, CountType
  <2>4. pc' = "decode" => n' = CharCount(src, i')
    BY <1>2, <1>3, <2>1, <2>2, <2>3 DEF Return
  <2>5. pc' = "decode" => Scanned(src, i')
    <3>1. Scanned(src, i)
      BY <1>4 DEF DecodeInv
    <3>2. \A p \in 1 .. i + 1 : p \in 1 .. i \/ p = i + 1
      BY <1>1
    <3>3. src[i + 1] \notin {CR, LF} => src[i + 1] <= 127 \/ pc' # "decode"
      BY <1>2, <1>3 DEF Return, Octet
    <3>4. i' = i + 1 \/ i' = i
      BY <1>3
    <3> QED
      BY <3>1, <3>2, <3>3, <3>4 DEF Scanned, CharsTo
  <2> QED
    BY <1>3, <1>4, <2>1, <2>4, <2>5 DEF DecodeInv, Return
<1>7. BeginInv' /\ EncodeInv' /\ EncodedInv'
  BY <1>3, <1>4 DEF BeginInv, EncodeInv, EncodedInv, Return, INVALID
<1>8. AskedInv'
  <2>1. Asked' = Asked
    BY <1>4 DEF Asked, Encoding, slen
  <2> QED
    BY <1>3, <1>4, <2>1 DEF AskedInv, Return, INVALID, TOO_SMALL
<1>9. StaysInBuffer' /\ SizeAskedForSuffices'
  BY <1>3, <1>4 DEF StaysInBuffer, SizeAskedForSuffices, Return, INVALID, TOO_SMALL
<1> QED
  BY <1>5, <1>6, <1>7, <1>8, <1>9

(* The size needed is compared with the one offered.                       *)
LEMMA ScanEndsBuffer ==
    ASSUME BufferInv, Fits, ScanEnds
    PROVE  BufferInv'
<1> USE DEF BufferInv
<1>1. PICK N \in Nat : N = n /\ N = CharCount(src, slen) /\ N = CharCount(src, i)
  BY DEF ScanEnds, DecodeInv, TypeInv
<1>2. PlainDecodeSize(N) \in Nat /\ DecodeSize(N) = PlainDecodeSize(N)
  <2>1. PICK L \in Nat : L = slen /\ 6 * L + 7 < Word32
    BY LenProperties DEF TypeInv, Fits, slen
  <2>2. N <= L
    <3>1. CharsTo(src, L) \subseteq 1 .. L
      BY DEF CharsTo
    <3>2. IsFiniteSet(1 .. L) /\ Cardinality(1 .. L) = L
      <4>1. /\ IsFiniteSet(1 .. L)
            /\ Cardinality(1 .. L) = IF 1 > L THEN 0 ELSE L - 1 + 1
        BY FS_Interval
      <4> QED
        BY <4>1
    <3>3. Cardinality(CharsTo(src, L)) <= L
      BY <3>1, <3>2, FS_Subset
    <3> QED
      BY <1>1, <2>1, <3>3 DEF CharCount
  <2>3. 6 * N + 7 < Word32
    BY <2>1, <2>2, Base64Assumption
  <2> QED
    BY <2>3, DecodeSizeFits DEF PlainDecodeSize
<1>3. /\ pc = "decode" /\ i = slen
      /\ UNCHANGED <<input, src, size, dst, retried, x>>
      /\ dst = <<>> /\ dlen = size
  BY DEF ScanEnds, BeginInv
<1>4. \/ N = 0 /\ Return(0) /\ UNCHANGED <<dlen, i, j, n>>
      \/ /\ N # 0 /\ dlen < PlainDecodeSize(N)
         /\ dlen' = PlainDecodeSize(N) /\ Return(TOO_SMALL) /\ UNCHANGED <<i, j, n>>
      \/ /\ N # 0 /\ ~ (dlen < PlainDecodeSize(N))
         /\ pc' = "chars" /\ i' = 0 /\ j' = 3 /\ n' = 0 /\ UNCHANGED <<dlen, ret>>
  BY <1>1, <1>2 DEF ScanEnds
<1>5. N # 0 => src # <<>> /\ src # input
  <2>1. src = <<>> => slen = 0
    BY DEF slen
  <2>2. src = <<>> => N = 0
    BY <1>1, <2>1, CountStart
  <2> QED
    BY <1>3, <2>2 DEF DecodeInv
<1>6. TypeInv'
  <2>1. /\ pc' \in {"encode", "groups", "decode", "chars", "returned"}
        /\ ret' \in {0, TOO_SMALL, INVALID}
    BY <1>4 DEF TypeInv, Return
  <2>2. 0 \in 0 .. Len(src)
    BY LenProperties DEF TypeInv
  <2>3. dlen' \in Nat /\ i' \in 0 .. Len(src) /\ j' \in Int /\ n' \in Nat
    BY <1>2, <1>4, <2>2 DEF TypeInv
  <2> QED
    BY <1>3, <2>1, <2>3 DEF TypeInv
<1>7. BeginInv' /\ EncodeInv'
  BY <1>4 DEF BeginInv, EncodeInv, Return
<1>8. EncodedInv'
  BY <1>3, <1>4, <1>5 DEF EncodedInv, Return, TOO_SMALL, DecodeInv, Encoding
<1>9. DecodeInv'
  <2>1. CASE pc' = "returned"
    BY <2>1 DEF DecodeInv
  <2>2. CASE pc' = "chars"
    <3>1. N # 0 /\ ~ (dlen < PlainDecodeSize(N)) /\ i' = 0 /\ j' = 3 /\ n' = 0
      BY <1>4, <2>2 DEF Return
    <3>2. PlainDecodeSize(CharCount(src, slen)) <= size
      BY <1>1, <1>2, <1>3, <3>1 DEF TypeInv
    <3>3. CharCount(src, 0) = 4 * 0 + 0 /\ Len(dst) <= 3 * 0 /\ 0 \in Nat
      BY <1>3, CountStart
    <3>4. \E g \in Nat : CharCount(src, i)' = 4 * g + n' /\ Len(dst)' <= 3 * g
      BY <1>3, <3>1, <3>3
    <3>5. Scanned(src, slen)
      BY <1>3 DEF DecodeInv
    <3> QED
      BY <1>3, <1>5, <2>2, <3>1, <3>2, <3>4, <3>5 DEF DecodeInv, slen
  <2> QED
    BY <1>4, <2>1, <2>2 DEF Return
<1>10. AskedInv' /\ SizeAskedForSuffices'
  <2>1. Asked' = Asked
    BY <1>3 DEF Asked, Encoding, slen
  <2>2. N # 0 => Asked = PlainDecodeSize(N)
    BY <1>1, <1>5 DEF Asked, Encoding
  <2>3. AskedInv'
    BY <1>4, <2>1, <2>2 DEF AskedInv, Return, TOO_SMALL
  <2>4. SizeAskedForSuffices'
    BY <1>2, <1>3, <1>4, <2>2 DEF SizeAskedForSuffices, AskedInv, Return, TOO_SMALL
  <2> QED
    BY <2>3, <2>4
<1>11. StaysInBuffer'
  BY <1>3 DEF StaysInBuffer
<1> QED
  BY <1>6, <1>7, <1>8, <1>9, <1>10, <1>11

(* The first loop lets only characters of the table through, so that the   *)
(* second one looks nothing up behind its end; x has 24 bits.              *)
LEMMA DecodeCharBits ==
    ASSUME BufferInv, DecodeChar, Byte(i) \notin {CR, LF}
    PROVE  /\ Byte(i) \in Octet /\ Byte(i) <= 127 /\ DecMap[Byte(i)] \in Nat
           /\ x' = (x * 64 + (DecMap[Byte(i)] % 64)) % 2^24
           /\ x' \in Nat /\ x' < 2^24
<1> DEFINE d == DecMap[Byte(i)] % 64
<1>1. /\ pc = "chars" /\ i \in 0 .. slen - 1 /\ i + 1 \in 1 .. slen /\ x \in Nat
      /\ x' = (x * 64 + d) % 2^24
  BY LenProperties DEF BufferInv, TypeInv, slen, DecodeChar
<1>2. Byte(i) \in Octet /\ Byte(i) = src[i + 1]
  BY <1>1, ByteType DEF BufferInv
<1>3. Byte(i) <= 127
  BY <1>1, <1>2 DEF BufferInv, DecodeInv, Scanned, CharsTo
<1>4. DecMap[Byte(i)] \in Nat
  BY <1>2, <1>3, DecMapType
<1>5. d \in Nat
  BY <1>4
<1>6. 2^24 = 16777216
  OBVIOUS
<1>7. x' \in Nat /\ x' < 2^24
  <2> HIDE DEF d
  <2> QED
    BY <1>1, <1>5, <1>6
<1> QED
  BY <1>1, <1>2, <1>3, <1>4, <1>7

(* Every fourth character lets out up to three bytes.                      *)
LEMMA DecodeCharBuffer ==
    ASSUME BufferInv, DecodeChar
    PROVE  BufferInv'
<1> USE DEF BufferInv
<1>1. PICK L \in Nat : L = slen
  BY LenProperties DEF TypeInv, slen
<1>2. /\ pc = "chars" /\ i \in 0 .. L - 1 /\ i \in Nat /\ i' = i + 1
      /\ UNCHANGED <<pc, ret, input, src, size, dlen, retried>>
  BY <1>1 DEF DecodeChar, TypeInv, slen
<1>3. PICK g \in Nat : CharCount(src, i) = 4 * g + n /\ Len(dst) <= 3 * g
  BY <1>2 DEF DecodeInv
<1>4. /\ PlainDecodeSize(CharCount(src, slen)) <= size /\ n < 4 /\ j <= 3
      /\ n \in Nat /\ j \in Int /\ x \in Nat /\ dst \in Seq(Octet) /\ Len(dst) \in Nat
  BY <1>2, LenProperties DEF DecodeInv, TypeInv
<1>5. Byte(i) = src[i + 1]
  BY DEF Byte
<1>6. CharCount(src, i + 1) = CharCount(src, i) + (IF src[i + 1] \in {CR, LF} THEN 0 ELSE 1)
  BY <1>2, CountNext
<1>7. /\ j' \in Int /\ j' <= 3 /\ n' \in Nat /\ n' < 4 /\ x' \in Nat
      /\ dst' \in Seq(Octet)
      /\ \E h \in Nat : CharCount(src, i + 1) = 4 * h + n' /\ Len(dst') <= 3 * h
  <2>1. CASE Byte(i) \in {CR, LF}
    <3>1. UNCHANGED <<j, n, x, dst>>
      BY <2>1 DEF DecodeChar
    <3>2. CharCount(src, i + 1) = 4 * g + n
      BY <1>3, <1>4, <1>5, <1>6, <2>1
    <3> QED
      BY <1>3, <1>4, <3>1, <3>2
  <2>2. CASE Byte(i) \notin {CR, LF}
    <3> DEFINE d == DecMap[Byte(i)] % 64
               three == Three(x')
    <3>1. /\ j' = j - (IF DecMap[Byte(i)] = 64 THEN 1 ELSE 0)
          /\ x' = (x * 64 + d) % 2^24
          /\ n' = (n + 1) % 4
          /\ dst' = IF n' # 0 THEN dst ELSE dst \o SubSeq(three, 1, j')
      BY <2>2 DEF DecodeChar, Three
    <3>2. j' \in Int /\ j' <= 3
      BY <1>4, <3>1
    <3>3. n' = IF n = 3 THEN 0 ELSE n + 1
      BY <1>4, <3>1, NextInGroup
    <3>4. x' \in Nat /\ x' < 2^24
      BY <2>2, DecodeCharBits
    <3>5. CharCount(src, i + 1) = 4 * g + n + 1
      BY <1>3, <1>4, <1>5, <1>6, <2>2
    <3>6. CASE n = 3
      <4>1. /\ SubSeq(three, 1, j') \in Seq(Octet)
            /\ Len(SubSeq(three, 1, j')) = IF 1 <= j' THEN j' ELSE 0
        BY <3>2, <3>4, ThreeBytes
      <4> HIDE DEF three
      <4>2. /\ dst \o SubSeq(three, 1, j') \in Seq(Octet)
            /\ Len(dst \o SubSeq(three, 1, j')) = Len(dst) + Len(SubSeq(three, 1, j'))
        BY <1>4, <4>1, ConcatProperties
      <4>3. dst' \in Seq(Octet) /\ Len(dst') <= 3 * (g + 1)
        BY <1>3, <1>4, <3>1, <3>2, <3>3, <3>6, <4>1, <4>2
      <4>4. CharCount(src, i + 1) = 4 * (g + 1) + n' /\ g + 1 \in Nat
        BY <3>3, <3>5, <3>6
      <4>5. n' = 0 /\ n' \in Nat /\ n' < 4
        BY <3>3, <3>6
      <4>6. \E h \in Nat : CharCount(src, i + 1) = 4 * h + n' /\ Len(dst') <= 3 * h
        BY <4>3, <4>4
      <4> QED
        BY <3>2, <3>4, <4>3, <4>5, <4>6
    <3>7. CASE n # 3
      <4>1. n' = n + 1 /\ n' # 0 /\ n' < 4 /\ n' \in Nat
        BY <1>4, <3>3, <3>7
      <4>2. dst' = dst
        BY <3>1, <4>1
      <4>3. CharCount(src, i + 1) = 4 * g + n'
        BY <3>5, <4>1, <1>4
      <4> QED
        BY <1>3, <1>4, <3>2, <3>4, <4>1, <4>2, <4>3
    <3> QED
      BY <3>6, <3>7
  <2> QED
    BY <2>1, <2>2
<1>8. TypeInv'
  <2>1. i' \in 0 .. Len(src)
    BY <1>1, <1>2 DEF slen
  <2> QED
    BY <1>2, <1>7, <2>1 DEF TypeInv
<1>9. DecodeInv'
  BY <1>2, <1>4, <1>7 DEF DecodeInv, slen
<1>10. BeginInv' /\ EncodeInv' /\ AskedInv' /\ EncodedInv' /\ SizeAskedForSuffices'
  BY <1>2 DEF BeginInv, EncodeInv, AskedInv, EncodedInv, SizeAskedForSuffices
<1>11. StaysInBuffer'
  <2>1. PICK h \in Nat : CharCount(src, i + 1) = 4 * h + n' /\ Len(dst') <= 3 * h
    BY <1>7
  <2>2. PICK N \in Nat : N = CharCount(src, slen) /\ 4 * h + n' <= N
    BY <1>1, <1>2, <2>1, CountMonotone, CountType
  <2>3. 3 * h <= PlainDecodeSize(N) /\ PlainDecodeSize(N) \in Nat
    BY <1>7, <2>2, DecodeSizeOf
  <2>4. PlainDecodeSize(N) <= size /\ size \in Nat /\ Len(dst') \in Nat
    BY <1>4, <1>7, <2>2, LenProperties DEF TypeInv
  <2> QED
    BY <1>2, <2>1, <2>3, <2>4 DEF StaysInBuffer
<1> QED
  BY <1>8, <1>9, <1>10, <1>11

LEMMA DecodeEndsBuffer ==
    ASSUME BufferInv, DecodeEnds
    PROVE  BufferInv'
<1> USE DEF BufferInv, DecodeEnds, Return
<1>1. Len(dst) % Word32 \in Nat /\ slen \in Nat
  <2>1. Len(dst) \in Nat /\ slen \in Nat
    BY LenProperties DEF TypeInv, slen
  <2> QED
    BY <2>1, Base64Assumption
<1>2. TypeInv'
  BY <1>1 DEF TypeInv
<1>3. BeginInv' /\ EncodeInv' /\ DecodeInv' /\ AskedInv' /\ SizeAskedForSuffices'
  BY DEF BeginInv, EncodeInv, DecodeInv, AskedInv, SizeAskedForSuffices, TOO_SMALL
<1>4. EncodedInv'
  BY DEF EncodedInv, DecodeInv, Encoding
<1>5. StaysInBuffer'
  BY DEF StaysInBuffer
<1> QED
  BY <1>2, <1>3, <1>4, <1>5

(* The caller tries again with the size asked for.                         *)
LEMMA RetryBuffer ==
    ASSUME BufferInv, Retry
    PROVE  BufferInv'
<1> USE DEF BufferInv, Retry, Call
<1>1. UNCHANGED <<ret, input, src>> /\ size' = dlen /\ dlen' = dlen /\ dlen = Asked
  BY DEF AskedInv
<1>2. Asked' = Asked
  BY <1>1 DEF Asked, Encoding, slen
<1>3. TypeInv'
  <2>1. dst' \in Seq(Octet) /\ 0 \in 0 .. Len(src)
    BY EmptySeq, LenProperties DEF TypeInv
  <2> QED
    BY <1>1, <2>1 DEF TypeInv
<1>4. BeginInv' /\ EncodeInv'
  BY <1>1 DEF BeginInv, EncodeInv, Encoding
<1>5. DecodeInv'
  BY <1>1, CountStart DEF DecodeInv, Scanned, CharsTo, Encoding
<1>6. AskedInv' /\ EncodedInv' /\ SizeAskedForSuffices'
  BY <1>1, <1>2 DEF AskedInv, EncodedInv, SizeAskedForSuffices
<1>7. StaysInBuffer'
  BY <1>3 DEF StaysInBuffer, TypeInv
<1> QED
  BY <1>3, <1>4, <1>5, <1>6, <1>7

(* The caller decodes what was encoded; the text is longer than its bytes. *)
LEMMA DecodeBackArgument ==
    ASSUME BufferInv, DecodeBack
    PROVE  /\ src' = SubSeq(dst, 1, dlen) /\ src' \in Seq(Octet)
           /\ Len(src') = PlainLength(Len(input))
           /\ \A p \in 1 .. dlen : src'[p] = dst[p]
           /\ dlen = PlainLength(Len(input)) /\ Len(dst) = dlen + 1
           /\ src' # input /\ Len(src') > 0
<1> USE DEF BufferInv, DecodeBack, Call
<1>1. src = input /\ src # <<>> /\ dlen = PlainLength(Len(input)) /\ Len(dst) = dlen + 1
  BY DEF Encoding, EncodedInv, slen
<1>2. PICK L \in Nat : L = Len(input) /\ L # 0
  BY <1>1, LenProperties, EmptySeq DEF TypeInv
<1>3. PlainLength(L) > L
  <2>1. PICK h \in Nat : L = 3 * h \/ L = 3 * h + 1 \/ L = 3 * h + 2
    BY <1>2, Thirds
  <2>2. CASE L = 3 * h
    BY <1>2, <2>2, EncodedLengthOf
  <2>3. CASE L = 3 * h + 1
    BY <2>3, EncodedLengthOf
  <2>4. CASE L = 3 * h + 2
    BY <2>4, EncodedLengthOf
  <2> QED
    BY <2>1, <2>2, <2>3, <2>4
<1>4. dlen \in Nat /\ dlen > L /\ dst \in Seq(Octet)
  BY <1>1, <1>2, <1>3 DEF TypeInv
<1>5. \A p \in 1 .. dlen : dst[p] \in Octet
  BY <1>1, <1>4, ElementOfSeq
<1>6. src' = SubSeq(dst, 1, dlen)
  OBVIOUS
<1>7. src' \in Seq(Octet) /\ Len(src') = dlen /\ \A p \in 1 .. dlen : src'[p] = dst[p]
  BY <1>4, <1>5, <1>6, SubSeqProperties
<1>8. src' # input /\ Len(src') > 0
  BY <1>2, <1>4, <1>7
<1> QED
  BY <1>1, <1>6, <1>7, <1>8

LEMMA DecodeBackBuffer ==
    ASSUME BufferInv, DecodeBack
    PROVE  BufferInv'
<1>1. /\ src' \in Seq(Octet) /\ src' # input
  BY DecodeBackArgument
<1> USE DEF BufferInv, DecodeBack, Call
<1>2. size' \in Nat
  BY Base64Assumption
<1>3. TypeInv'
  <2>1. dst' \in Seq(Octet) /\ 0 \in 0 .. Len(src')
    BY <1>1, EmptySeq, LenProperties DEF TypeInv
  <2>2. /\ pc' = "decode" /\ i' = 0 /\ j' = 0 /\ n' = 0 /\ x' = 0 /\ retried' = FALSE
        /\ dlen' = size' /\ UNCHANGED <<ret, input>>
    OBVIOUS
  <2>3. i' \in 0 .. Len(src') /\ j' \in Int /\ n' \in Nat /\ x' \in Nat /\ dlen' \in Nat
    <3> HIDE DEF BufferInv, DecodeBack, Call
    <3>1. i' \in 0 .. Len(src')
      BY <2>1, <2>2, Zenon
    <3> QED
      BY <1>2, <2>2, <3>1
  <2>4. pc' \in {"encode", "groups", "decode", "chars", "returned"} /\ retried' \in BOOLEAN
    BY <2>2
  <2>5. ret' \in {0, TOO_SMALL, INVALID} /\ input' \in Seq(Octet)
    BY <2>2 DEF TypeInv
  <2> QED
    BY <1>1, <1>2, <2>1, <2>3, <2>4, <2>5, Zenon DEF TypeInv
<1>4. BeginInv' /\ EncodeInv' /\ AskedInv' /\ EncodedInv' /\ SizeAskedForSuffices'
  BY DEF BeginInv, EncodeInv, AskedInv, EncodedInv, SizeAskedForSuffices
<1>5. DecodeInv'
  <2>1. n' = CharCount(src', 0) /\ Scanned(src', 0)
    BY CountStart DEF Scanned, CharsTo
  <2> QED
    BY <1>1, <2>1 DEF DecodeInv
<1>6. StaysInBuffer'
  BY <1>2 DEF StaysInBuffer
<1> QED
  BY <1>3, <1>4, <1>5, <1>6

(* A text that was encoded fits the word if its bytes did.                 *)
LEMMA FitsNext == BufferInv /\ Fits /\ [Next]_vars => Fits'
<1> SUFFICES ASSUME BufferInv, Fits, [Next]_vars PROVE Fits'
  OBVIOUS
<1>1. CASE UNCHANGED <<input, src>>
  BY <1>1 DEF Fits
<1>2. CASE DecodeBack
  <2>1. Len(src') = PlainLength(Len(input)) /\ input' = input
    BY <1>2, DecodeBackArgument DEF DecodeBack
  <2>2. PICK L \in Nat : L = Len(input)
    BY LenProperties DEF BufferInv, TypeInv
  <2>3. 8 * L + 23 < Word32
    BY <2>2 DEF Fits
  <2>4. 6 * PlainLength(L) + 7 < Word32
    BY <2>3, EncodeSizeFits
  <2> QED
    BY <2>1, <2>2, <2>3, <2>4 DEF Fits
<1> QED
  BY <1>1, <1>2 DEF Next, vars, EncodeBegins, EncodeGroup, EncodeEnds, ScanChar, ScanEnds,
                    DecodeChar, DecodeEnds, Retry, Call, Finished

LEMMA BufferNext == BufferInv /\ Fits /\ [Next]_vars => BufferInv'
<1> SUFFICES ASSUME BufferInv, Fits, [Next]_vars PROVE BufferInv'
  OBVIOUS
<1>1. CASE UNCHANGED vars
  BY <1>1 DEF vars, BufferInv, TypeInv, BeginInv, EncodeInv, DecodeInv, AskedInv, EncodedInv,
              StaysInBuffer, SizeAskedForSuffices, Asked, Encoding, slen
<1>2. CASE Finished
  BY <1>1, <1>2 DEF Finished
<1> QED
  BY <1>1, <1>2, EncodeBeginsBuffer, EncodeGroupBuffer, EncodeEndsBuffer, ScanCharBuffer,
     ScanEndsBuffer, DecodeCharBuffer, DecodeEndsBuffer, RetryBuffer, DecodeBackBuffer DEF Next

LEMMA BufferInvariance ==
    ASSUME LengthsFit
    PROVE  Spec => []BufferInv
<1>1. Init => BufferInv /\ Fits
  BY BufferInit, FitsInit
<1> QED
  BY <1>1, BufferNext, FitsNext, PTL DEF Spec

(* Neither function writes behind the buffer it was given: for every input *)
(* and text whose sizes fit an unsigned int, valid or not, and every size  *)
(* offered.  (Beyond that the size test itself wraps.)                     *)
THEOREM NeverBehindBuffer ==
    ASSUME LengthsFit
    PROVE  Spec => []StaysInBuffer
<1>1. BufferInv => StaysInBuffer
  BY DEF BufferInv
<1> QED
  BY <1>1, BufferInvariance, PTL

(* A call with the size a former call asked for does not ask again, where  *)
(* the sizes fit an unsigned int.                                          *)
THEOREM AsksOnlyOnce ==
    ASSUME LengthsFit
    PROVE  Spec => []SizeAskedForSuffices
<1>1. BufferInv => SizeAskedForSuffices
  BY DEF BufferInv
<1> QED
  BY <1>1, BufferInvariance, PTL

-----------------------------------------------------------------------------
(* Texts that are well formed up to position k.                            *)
LetterAt(s, p) == s[p] \notin {CR, LF, PAD}

WellFormedTo(s, k) ==
    /\ \A p \in 1 .. k : s[p] = CR => p < Len(s) /\ s[p + 1] = LF
    /\ \A p \in 1 .. k : LetterAt(s, p) => s[p] \in {EncMap[v] : v \in 0 .. 63}
    /\ \A p, q \in 1 .. k : LetterAt(s, p) /\ s[q] = PAD => p < q
    /\ PadCount(s, k) <= 2

(* The first loop has found the text well formed so far and counted the    *)
(* '='; the second counts them again.  In a text of whole groups only the  *)
(* last one has any, and lets out fewer bytes.                             *)
FormInv ==
    /\ pc = "decode" => j = PadCount(src, i) /\ WellFormedTo(src, i)
    /\ pc = "chars" =>
          /\ WellFormedTo(src, slen)
          /\ j = 3 - PadCount(src, i)
          /\ CharCount(src, slen) % 4 = 0 =>
                \E g \in Nat : /\ CharCount(src, i) = 4 * g + n
                               /\ Len(dst) = 3 * g - (IF n = 0 THEN PadCount(src, i) ELSE 0)
    /\ pc = "returned" /\ ~Encoding =>
          /\ ret # INVALID <=> WellFormedTo(src, slen)
          /\ ret = 0 /\ CharCount(src, slen) % 4 = 0 =>
                Len(dst) = (CharCount(src, slen) \div 4) * 3 - PadCount(src, slen)

LEMMA PadsMonotone ==
    ASSUME NEW s, NEW k \in Nat, NEW l \in Nat, k <= l
    PROVE  PadCount(s, k) <= PadCount(s, l)
<1>1. PadsTo(s, k) \subseteq PadsTo(s, l)
  BY DEF PadsTo
<1> QED
  BY <1>1, CountType, FS_Subset DEF PadCount

(* A text that is well formed is so up to every position.                  *)
LEMMA FormedPrefix ==
    ASSUME NEW s, NEW k \in Nat, NEW l \in Nat, k <= l, WellFormedTo(s, l)
    PROVE  WellFormedTo(s, k)
<1>1. \A p \in 1 .. k : p \in 1 .. l
  OBVIOUS
<1>2. PadCount(s, k) <= 2
  BY PadsMonotone, CountType DEF WellFormedTo
<1> QED
  BY <1>1, <1>2 DEF WellFormedTo

(* What the property says of a text is what the loop finds out.            *)
LEMMA FormedIsWellFormed ==
    ASSUME TypeInv
    PROVE  /\ WellFormed <=> WellFormedTo(src, slen)
           /\ Cardinality(Letters \cup Pads) = CharCount(src, slen)
           /\ Cardinality(Pads) = PadCount(src, slen)
<1>1. DOMAIN src = 1 .. slen /\ slen = Len(src)
  BY LenProperties DEF TypeInv, slen
<1>2. Pads = PadsTo(src, slen)
  BY <1>1 DEF Pads, PadsTo
<1>3. \A p \in 1 .. slen : p \in Letters <=> LetterAt(src, p)
  BY <1>1 DEF Letters, LetterAt
<1>4. \A p \in 1 .. slen : p \in Pads <=> src[p] = PAD
  BY <1>1 DEF Pads
<1>5. Letters \cup Pads = CharsTo(src, slen)
  BY <1>1 DEF Letters, Pads, CharsTo, PAD, CR, LF
<1>6. Letters \subseteq 1 .. slen /\ Pads \subseteq 1 .. slen
  BY <1>1 DEF Letters, Pads
<1>7. WellFormed <=> WellFormedTo(src, slen)
  <2>1. (\A k \in DOMAIN src : src[k] = CR => k < slen /\ src[k + 1] = LF)
        <=> (\A p \in 1 .. slen : src[p] = CR => p < Len(src) /\ src[p + 1] = LF)
    BY <1>1
  <2>2. (\A k \in Letters : src[k] \in {EncMap[v] : v \in 0 .. 63})
        <=> (\A p \in 1 .. slen : LetterAt(src, p) => src[p] \in {EncMap[v] : v \in 0 .. 63})
    BY <1>3, <1>6
  <2>3. (\A k \in Letters, p \in Pads : k < p)
        <=> (\A p, q \in 1 .. slen : LetterAt(src, p) /\ src[q] = PAD => p < q)
    BY <1>3, <1>4, <1>6
  <2> QED
    BY <1>2, <2>1, <2>2, <2>3 DEF WellFormed, WellFormedTo, PadCount
<1> QED
  BY <1>2, <1>5, <1>7 DEF CharCount, PadCount

(* When three characters or more are still to come, there was no '=' yet.  *)
LEMMA PadsComeLast ==
    ASSUME NEW s, NEW k \in Nat, NEW l \in Nat, k <= l, WellFormedTo(s, l),
           CharCount(s, k) + 3 <= CharCount(s, l)
    PROVE  PadCount(s, k) = 0
<1>1. SUFFICES ASSUME NEW q \in PadsTo(s, k) PROVE FALSE
  <2>1. PadsTo(s, k) = {}
    BY <1>1
  <2> QED
    BY <2>1, FS_EmptySet DEF PadCount
<1> DEFINE A == CharsTo(s, l)
           B == CharsTo(s, k)
<1>2. A \ B \subseteq PadsTo(s, l)
  <2> SUFFICES ASSUME NEW p \in A \ B PROVE p \in PadsTo(s, l)
    OBVIOUS
  <2>1. p \in 1 .. l /\ p \notin 1 .. k /\ s[p] \notin {CR, LF}
    BY DEF CharsTo
  <2>2. q \in 1 .. l /\ s[q] = PAD /\ q <= k
    BY DEF PadsTo
  <2>3. ~ (p < q)
    BY <2>1, <2>2
  <2>4. ~ LetterAt(s, p)
    BY <2>1, <2>2, <2>3 DEF WellFormedTo
  <2> QED
    BY <2>1, <2>4 DEF LetterAt, PadsTo
<1>3. IsFiniteSet(A) /\ IsFiniteSet(B) /\ IsFiniteSet(PadsTo(s, l)) /\ B \subseteq A
  <2>1. B \subseteq A
    BY DEF CharsTo
  <2> QED
    BY <2>1, CountType
<1>4. Cardinality(A \ B) <= 2 /\ Cardinality(A \ B) \in Nat
  <2>1. Cardinality(A \ B) <= PadCount(s, l) /\ IsFiniteSet(A \ B)
    BY <1>2, <1>3, FS_Subset DEF PadCount
  <2>2. Cardinality(A \ B) \in Nat /\ PadCount(s, l) \in Nat
    BY <2>1, FS_CardinalityType, CountType
  <2>3. PadCount(s, l) <= 2
    BY DEF WellFormedTo
  <2> QED
    BY <2>1, <2>2, <2>3
<1>5. Cardinality(A \ B) = Cardinality(A) - Cardinality(A \cap B) /\ A \cap B = B
  BY <1>3, FS_Difference
<1>6. Cardinality(A) = CharCount(s, l) /\ Cardinality(B) = CharCount(s, k)
  BY DEF CharCount
<1>7. CharCount(s, l) \in Nat /\ CharCount(s, k) \in Nat
  BY CountType
<1> QED
  BY <1>4, <1>5, <1>6, <1>7

(* The first loop rejects a text exactly if it is not well formed.         *)
LEMMA ScanCharForm ==
    ASSUME BufferInv, FormInv, ScanChar
    PROVE  FormInv'
<1> DEFINE c == src[i + 1]
           Alphabet == {EncMap[v] : v \in 0 .. 63}
<1>1. PICK L \in Nat : L = slen /\ L = Len(src) /\ i < L /\ i \in Nat /\ i + 1 \in 1 .. L
  BY LenProperties DEF BufferInv, TypeInv, slen, ScanChar
<1>2. /\ pc = "decode" /\ j = PadCount(src, i) /\ WellFormedTo(src, i)
      /\ UNCHANGED <<input, src, size, dlen, dst, retried, x>>
  BY DEF FormInv, ScanChar
<1>3. c \in Octet /\ c = Byte(i)
  BY <1>1, ElementOfSeq DEF BufferInv, TypeInv, Byte
<1>4. PadCount(src, i + 1) = PadsNow /\ PadsNow \in Nat
  <2>1. PadCount(src, i) \in Nat
    BY <1>1, CountType
  <2>2. PadCount(src, i + 1) = PadCount(src, i) + (IF c = PAD THEN 1 ELSE 0)
    BY <1>1, CountNext
  <2> QED
    BY <1>2, <1>3, <2>1, <2>2 DEF PadsNow
<1>5. \A p \in 1 .. i + 1 : p \in 1 .. i \/ p = i + 1
  BY <1>1
<1>6. CASE AtLineEnd /\ i' = i + 1 /\ UNCHANGED <<pc, ret, j, n>>
  <2>1. c \in {CR, LF} /\ (c = CR => i + 1 < L /\ src[(i + 1) + 1] = LF)
    BY <1>1, <1>3, <1>6 DEF AtLineEnd, Byte, CR, LF
  <2>2. ~ LetterAt(src, i + 1) /\ c # PAD
    BY <2>1 DEF LetterAt, CR, LF, PAD
  <2>3. PadCount(src, i + 1) = PadCount(src, i)
    BY <1>2, <1>3, <1>4, <1>1, CountType, <2>2 DEF PadsNow
  <2>4. WellFormedTo(src, i + 1)
    BY <1>1, <1>2, <1>5, <2>1, <2>2, <2>3 DEF WellFormedTo
  <2> QED
    BY <1>2, <1>6, <2>3, <2>4 DEF FormInv
<1>7. CASE ~ AtLineEnd /\ AtInvalid /\ Return(INVALID) /\ UNCHANGED <<i, j, n>>
  <2>1. ~ WellFormedTo(src, L)
    <3>1. CASE c = CR
      <4>1. ~ (i + 1 < L /\ src[(i + 1) + 1] = LF)
        BY <1>1, <1>3, <1>7, <3>1 DEF AtLineEnd, Byte
      <4> QED
        BY <1>1, <3>1, <4>1 DEF WellFormedTo
    <3>2. CASE c \notin {CR, LF} /\ (c > 127 \/ DecMap[c] = 127)
      <4>1. c # PAD
        <5>1. PAD <= 127 /\ PAD \in Octet
          BY DEF PAD, Octet
        <5>2. DecMap[PAD] = 64
          BY <5>1, DecMapType
        <5>3. c = PAD => ~ (c > 127) /\ DecMap[c] # 127
          BY <5>1, <5>2 DEF PAD
        <5> QED
          BY <3>2, <5>3
      <4>2. ASSUME NEW v \in 0 .. 63 PROVE c # EncMap[v]
        <5>1. EncMap[v] \in 43 .. 122 /\ DecMap[EncMap[v]] = v
          BY EncMapType, DecMapOfEncMap, SMTT(30)
        <5>2. ~ (EncMap[v] > 127) /\ DecMap[EncMap[v]] # 127
          BY <5>1
        <5> QED
          BY <3>2, <5>2
      <4>3. LetterAt(src, i + 1) /\ c \notin Alphabet
        BY <3>2, <4>1, <4>2 DEF LetterAt
      <4> QED
        BY <1>1, <4>3 DEF WellFormedTo
    <3>3. CASE PadsNow > 2
      <4>1. PadCount(src, i + 1) <= PadCount(src, L) /\ PadCount(src, L) \in Nat
        BY <1>1, PadsMonotone, CountType
      <4>2. ~ (PadCount(src, L) <= 2)
        BY <1>4, <3>3, <4>1
      <4> QED
        BY <4>2 DEF WellFormedTo
    <3>4. CASE c \notin {CR, LF} /\ c <= 127 /\ DecMap[c] < 64 /\ PadsNow # 0
      <4>1. c # PAD
        BY <1>3, <3>4, DecMapType
      <4>2. PadCount(src, i) # 0
        BY <1>1, <1>2, <1>3, <3>4, <4>1, CountType DEF PadsNow
      <4>3. PadsTo(src, i) # {}
        BY <4>2, FS_EmptySet DEF PadCount
      <4>4. PICK q \in PadsTo(src, i) : TRUE
        BY <4>3
      <4>5. q \in 1 .. L /\ src[q] = PAD /\ ~ (i + 1 < q)
        BY <1>1, <4>4 DEF PadsTo
      <4>6. LetterAt(src, i + 1)
        BY <3>4, <4>1 DEF LetterAt
      <4> QED
        BY <1>1, <4>5, <4>6 DEF WellFormedTo
    <3>5. c # LF
      BY <1>3, <1>7 DEF AtLineEnd
    <3> QED
      BY <1>3, <1>7, <3>1, <3>2, <3>3, <3>4, <3>5 DEF AtInvalid, Octet
  <2> QED
    BY <1>1, <1>2, <1>7, <2>1 DEF FormInv, Return, slen, INVALID
<1>8. CASE /\ ~ AtLineEnd /\ ~ AtInvalid
           /\ i' = i + 1 /\ j' = PadsNow /\ n' = n + 1 /\ UNCHANGED <<pc, ret>>
  <2>1. ~ (c > 127) /\ DecMap[c] # 127 /\ ~ (PadsNow > 2) /\ ~ (DecMap[c] < 64 /\ PadsNow # 0)
    BY <1>3, <1>8 DEF AtInvalid
  <2>2. c <= 127
    BY <1>3, <2>1 DEF Octet
  <2>3. c \notin {CR, LF}
    BY <1>3, <2>1, <2>2, DecMapType
  <2>4. LetterAt(src, i + 1) => c \in Alphabet /\ PadsTo(src, i) = {}
    <3> SUFFICES ASSUME c # PAD PROVE c \in Alphabet /\ PadsTo(src, i) = {}
      BY <2>3 DEF LetterAt
    <3>1. DecMap[c] < 64
      BY <1>3, <2>1, <2>2 DEF DecMap, PAD, Octet
    <3>2. c \in Alphabet
      BY <1>3, <2>2, <3>1, SixBitsExactly
    <3>3. Cardinality(PadsTo(src, i)) = 0 /\ IsFiniteSet(PadsTo(src, i))
      BY <1>1, <1>2, <1>3, <2>1, <3>1, CountType DEF PadsNow, PadCount
    <3> QED
      BY <3>2, <3>3, FS_EmptySet
  <2>5. PadCount(src, i + 1) <= 2
    BY <1>4, <2>1
  <2>6. \A p, q \in 1 .. i + 1 : LetterAt(src, p) /\ src[q] = PAD => p < q
    <3> SUFFICES ASSUME NEW p \in 1 .. i + 1, NEW q \in 1 .. i + 1,
                        LetterAt(src, p), src[q] = PAD
                 PROVE  p < q
      OBVIOUS
    <3>1. p # q
      BY DEF LetterAt
    <3>2. CASE p \in 1 .. i /\ q \in 1 .. i
      BY <1>2, <3>2 DEF WellFormedTo
    <3>3. CASE q = i + 1
      BY <1>1, <3>1, <3>3
    <3>4. CASE p = i + 1 /\ q \in 1 .. i
      BY <2>4, <3>4 DEF PadsTo
    <3> QED
      BY <1>5, <3>2, <3>3, <3>4
  <2>7. WellFormedTo(src, i + 1)
    BY <1>2, <1>5, <2>3, <2>4, <2>5, <2>6 DEF WellFormedTo
  <2> QED
    BY <1>2, <1>4, <1>8, <2>7 DEF FormInv
<1> QED
  BY <1>6, <1>7, <1>8, ScanCharCases

LEMMA PadsAreChars ==
    ASSUME NEW s, NEW k \in Nat
    PROVE  PadCount(s, k) <= CharCount(s, k)
<1>1. PadsTo(s, k) \subseteq CharsTo(s, k)
  BY DEF PadsTo, CharsTo, PAD, CR, LF
<1> QED
  BY <1>1, CountType, FS_Subset DEF PadCount, CharCount

LEMMA ScanEndsForm ==
    ASSUME BufferInv, FormInv, ScanEnds
    PROVE  FormInv'
<1>1. PICK N \in Nat : N = n /\ N = CharCount(src, slen)
  BY DEF BufferInv, ScanEnds, DecodeInv, TypeInv
<1>2. /\ pc = "decode" /\ i = slen /\ WellFormedTo(src, slen) /\ slen' = slen /\ dst = <<>>
      /\ UNCHANGED <<input, src, size, dst, retried, x>>
  BY DEF ScanEnds, FormInv, BufferInv, BeginInv, slen
<1>3. slen \in Nat /\ PadCount(src, slen) \in Nat /\ PadCount(src, slen) <= N
  BY <1>1, LenProperties, CountType, PadsAreChars DEF BufferInv, TypeInv, slen
<1>4. CASE N = 0 /\ Return(0)
  <2>1. 0 = (N \div 4) * 3 - PadCount(src, slen)
    BY <1>3, <1>4
  <2>2. Len(dst') = (CharCount(src, slen)' \div 4) * 3 - PadCount(src, slen)'
    BY <1>1, <1>2, <2>1
  <2>3. WellFormedTo(src, slen)'
    BY <1>2
  <2>4. ret' # INVALID /\ pc' = "returned"
    BY <1>4 DEF Return, INVALID
  <2> QED
    BY <2>2, <2>3, <2>4 DEF FormInv
<1>5. CASE Return(TOO_SMALL)
  <2>1. WellFormedTo(src, slen)'
    BY <1>2
  <2>2. ret' # INVALID /\ ret' # 0 /\ pc' = "returned"
    BY <1>5 DEF Return, INVALID, TOO_SMALL
  <2> QED
    BY <2>1, <2>2 DEF FormInv
<1>6. CASE pc' = "chars" /\ i' = 0 /\ j' = 3 /\ n' = 0
  <2>1. WellFormedTo(src, slen)'
    BY <1>2
  <2>2. j' = 3 - PadCount(src', 0) /\ CharCount(src', 0) = 4 * 0 + n'
        /\ Len(dst') = 3 * 0 - PadCount(src', 0) /\ 0 \in Nat
    BY <1>2, <1>6, CountStart
  <2>3. \E g \in Nat : /\ CharCount(src, i)' = 4 * g + n'
                       /\ Len(dst') = 3 * g - (IF n' = 0 THEN PadCount(src, i)' ELSE 0)
    BY <1>6, <2>2
  <2> QED
    BY <1>6, <2>1, <2>2, <2>3 DEF FormInv
<1> QED
  BY <1>1, <1>4, <1>5, <1>6 DEF ScanEnds

(* Only the last group of a text of whole groups can hold '='.             *)
LEMMA DecodeCharForm ==
    ASSUME BufferInv, FormInv, DecodeChar
    PROVE  FormInv'
<1> DEFINE N == CharCount(src, slen)
<1>1. /\ pc = "chars" /\ i \in 0 .. slen - 1 /\ i \in Nat /\ i' = i + 1 /\ slen \in Nat
      /\ UNCHANGED <<pc, ret, input, src, size, dlen, retried>> /\ slen' = slen
  BY LenProperties DEF BufferInv, DecodeChar, TypeInv, slen
<1>2. WellFormedTo(src, slen) /\ j = 3 - PadCount(src, i)
  BY <1>1 DEF FormInv
<1>3. /\ PadCount(src, i) \in Nat /\ PadCount(src, i + 1) \in Nat /\ CharCount(src, i) \in Nat
      /\ N \in Nat /\ CharCount(src, i + 1) <= N /\ n \in Nat /\ n < 4 /\ x \in Nat
      /\ PadCount(src, slen) \in Nat
      /\ PadCount(src, i + 1) <= PadCount(src, slen) /\ dst \in Seq(Octet) /\ Len(dst) \in Nat
  BY <1>1, CountType, CountMonotone, PadsMonotone, LenProperties, SMTT(30) DEF BufferInv, DecodeInv, TypeInv
<1>4. /\ CharCount(src, i + 1) = CharCount(src, i) + (IF src[i + 1] \in {CR, LF} THEN 0 ELSE 1)
      /\ PadCount(src, i + 1) = PadCount(src, i) + (IF src[i + 1] = PAD THEN 1 ELSE 0)
  BY <1>1, CountNext
<1>5. Byte(i) \in Octet /\ Byte(i) = src[i + 1] /\ i + 1 \in 1 .. slen
  BY <1>1, ByteType DEF BufferInv
<1>6. CASE Byte(i) \in {CR, LF}
  <2>1. UNCHANGED <<j, n, x, dst>>
    BY <1>6 DEF DecodeChar
  <2>2. CharCount(src, i + 1) = CharCount(src, i) /\ PadCount(src, i + 1) = PadCount(src, i)
    BY <1>3, <1>4, <1>5, <1>6 DEF PAD, CR, LF
  <2> QED
    BY <1>1, <1>2, <2>1, <2>2 DEF FormInv
<1>7. CASE Byte(i) \notin {CR, LF}
  <2>1. Byte(i) <= 127
    BY <1>1, <1>5, <1>7 DEF BufferInv, DecodeInv, Scanned, CharsTo
  <2>2. DecMap[Byte(i)] = 64 <=> Byte(i) = PAD
    BY <1>5, <2>1, DecMapType
  <2>3. j' = 3 - PadCount(src, i + 1)
    <3>1. j' = j - (IF DecMap[Byte(i)] = 64 THEN 1 ELSE 0)
      BY <1>7 DEF DecodeChar
    <3> QED
      BY <1>2, <1>3, <1>4, <1>5, <2>2, <3>1
  <2>4. ASSUME N % 4 = 0
        PROVE  \E g \in Nat : /\ CharCount(src, i + 1) = 4 * g + n'
                              /\ Len(dst') = 3 * g - (IF n' = 0 THEN PadCount(src, i + 1) ELSE 0)
    <3>1. PICK g \in Nat : /\ CharCount(src, i) = 4 * g + n
                           /\ Len(dst) = 3 * g - (IF n = 0 THEN PadCount(src, i) ELSE 0)
      BY <1>1, <2>4 DEF FormInv
    <3>2. CharCount(src, i + 1) = 4 * g + n + 1
      BY <1>3, <1>4, <1>5, <1>7, <3>1
    <3>3. n = 0 => PadCount(src, i) = 0
      <4>1. n = 0 => CharCount(src, i) + 3 <= N
        <5>1. PICK q \in Nat : N = 4 * q
          BY <1>3, <2>4
        <5> QED
          BY <1>3, <3>1, <3>2, <5>1
      <4> QED
        BY <1>1, <1>2, <4>1, PadsComeLast
    <3>4. Len(dst) = 3 * g
      BY <1>3, <3>1, <3>3
    <3>5. n' = IF n = 3 THEN 0 ELSE n + 1
      BY <1>3, <1>7, NextInGroup DEF DecodeChar
    <3>6. CASE n = 3
      <4>1. n' = 0 /\ CharCount(src, i + 1) = 4 * (g + 1) + n' /\ g + 1 \in Nat
        BY <3>2, <3>5, <3>6
      <4>2. dst' = dst \o SubSeq(Three(x'), 1, j')
        BY <1>7, <4>1 DEF DecodeChar, Three
      <4>3. j' \in Int /\ 1 <= j' /\ j' <= 3
        BY <1>2, <1>3, <2>3 DEF WellFormedTo
      <4>4. x' \in Nat /\ x' < 2^24
        BY <1>5, <1>7, <2>1, DecodeCharBits DEF BufferInv
      <4>5. SubSeq(Three(x'), 1, j') \in Seq(Octet) /\ Len(SubSeq(Three(x'), 1, j')) = j'
        BY <4>3, <4>4, ThreeBytes
      <4>6. Len(dst') = Len(dst) + j'
        BY <1>3, <4>2, <4>5, ConcatProperties
      <4>7. Len(dst') = 3 * (g + 1) - (IF n' = 0 THEN PadCount(src, i + 1) ELSE 0)
        BY <1>3, <2>3, <3>4, <4>1, <4>6
      <4> QED
        BY <4>1, <4>7
    <3>7. CASE n # 3
      <4>1. n' = n + 1 /\ n' # 0
        BY <1>3, <3>5, <3>7
      <4>2. dst' = dst
        BY <1>7, <4>1 DEF DecodeChar
      <4>3. CharCount(src, i + 1) = 4 * g + n'
        BY <1>3, <3>2, <4>1
      <4> QED
        BY <3>4, <4>1, <4>2, <4>3
    <3> QED
      BY <3>6, <3>7
  <2> HIDE DEF N
  <2>5. WellFormedTo(src, slen)' /\ CharCount(src, slen)' = N
    BY <1>1, <1>2 DEF N
  <2> QED
    BY <1>1, <2>3, <2>4, <2>5 DEF FormInv
<1> QED
  BY <1>6, <1>7

LEMMA DecodeEndsForm ==
    ASSUME BufferInv, FormInv, DecodeEnds
    PROVE  FormInv'
<1>1. /\ pc = "chars" /\ i = slen /\ Return(0) /\ UNCHANGED <<input, src, dst>> /\ slen' = slen
  BY DEF DecodeEnds, slen
<1>2. PICK N \in Nat : N = CharCount(src, slen)
  BY LenProperties, CountType DEF BufferInv, TypeInv, slen
<1>3. ASSUME N % 4 = 0 PROVE Len(dst) = (N \div 4) * 3 - PadCount(src, slen)
  <2>1. PICK g \in Nat : /\ N = 4 * g + n
                         /\ Len(dst) = 3 * g - (IF n = 0 THEN PadCount(src, slen) ELSE 0)
    BY <1>1, <1>2, <1>3 DEF FormInv
  <2>2. n \in Nat /\ n < 4
    BY <1>1 DEF BufferInv, DecodeInv, TypeInv
  <2>3. n = 0 /\ N \div 4 = g
    BY <1>3, <2>1, <2>2
  <2> QED
    BY <2>1, <2>3
<1>4. WellFormedTo(src, slen)'
  BY <1>1 DEF FormInv
<1>5. ret' # INVALID /\ pc' = "returned"
  BY <1>1 DEF Return, INVALID
<1>6. CharCount(src, slen)' % 4 = 0 =>
          Len(dst)' = (CharCount(src, slen)' \div 4) * 3 - PadCount(src, slen)'
  BY <1>1, <1>2, <1>3
<1> QED
  BY <1>4, <1>5, <1>6 DEF FormInv

LEMMA FormInit == Init => FormInv
<1> SUFFICES ASSUME Init PROVE FormInv
  OBVIOUS
<1>1. WellFormedTo(src, 0) /\ PadCount(src, 0) = 0
  BY CountStart DEF WellFormedTo
<1> QED
  BY <1>1 DEF Init, FormInv

LEMMA FormNext == BufferInv /\ FormInv /\ [Next]_vars => FormInv'
<1> SUFFICES ASSUME BufferInv, FormInv, [Next]_vars PROVE FormInv'
  OBVIOUS
<1>1. CASE EncodeBegins \/ EncodeGroup \/ EncodeEnds
  <2>1. src' = input' /\ pc' \in {"groups", "returned"}
    BY <1>1 DEF BufferInv, EncodeInv, EncodeBegins, EncodeGroup, EncodeEnds, Return
  <2> QED
    BY <2>1 DEF FormInv, Encoding
<1>2. CASE Retry \/ DecodeBack
  <2>1. pc' \in {"encode", "decode"} /\ i' = 0 /\ j' = 0
    BY <1>2 DEF Retry, DecodeBack, Call
  <2>2. WellFormedTo(src', 0) /\ PadCount(src', 0) = 0
    BY CountStart DEF WellFormedTo
  <2> QED
    BY <2>1, <2>2 DEF FormInv
<1>3. CASE UNCHANGED vars \/ Finished
  BY <1>3 DEF Finished, vars, FormInv, Encoding, slen
<1> QED
  BY <1>1, <1>2, <1>3, ScanCharForm, ScanEndsForm, DecodeCharForm, DecodeEndsForm DEF Next

LEMMA FormInvariance ==
    ASSUME LengthsFit
    PROVE  Spec => []FormInv
BY FormInit, FormNext, BufferInvariance, PTL DEF Spec

(* The decoder rejects exactly the texts that are not well formed, and the *)
(* bytes it lets out of whole groups are those the '=' leave, where the    *)
(* sizes fit an unsigned int.                                              *)
THEOREM RejectsExactlyMalformed ==
    ASSUME LengthsFit
    PROVE  Spec => []DecodesWellFormedOnly
<1>1. BufferInv /\ FormInv => DecodesWellFormedOnly
  <2> SUFFICES ASSUME BufferInv, FormInv, pc = "returned", ~Encoding
               PROVE  /\ ret # INVALID <=> WellFormed
                      /\ ret = 0 /\ Cardinality(Letters \cup Pads) % 4 = 0 =>
                            Len(dst) = (Cardinality(Letters \cup Pads) \div 4) * 3
                                       - Cardinality(Pads)
    BY DEF DecodesWellFormedOnly
  <2>1. TypeInv
    BY DEF BufferInv
  <2>2. /\ ret # INVALID <=> WellFormedTo(src, slen)
        /\ ret = 0 /\ CharCount(src, slen) % 4 = 0 =>
              Len(dst) = (CharCount(src, slen) \div 4) * 3 - PadCount(src, slen)
    BY DEF FormInv
  <2> QED
    BY <2>1, <2>2, FormedIsWellFormed
<1> QED
  BY <1>1, BufferInvariance, FormInvariance, PTL

-----------------------------------------------------------------------------
(* What tretap_base64_encode writes, tretap_base64_decode turns back into  *)
(* the same bytes: for inputs of every length that fits.                   *)

(* The byte at position k, or the zero bits that fill up the last group.   *)
ByteAt(s, k) == IF k <= Len(s) THEN s[k] ELSE 0

(* The four times six bits of group g of the bytes s.                      *)
V1(s, g) == ByteAt(s, 3 * g + 1) \div 4
V2(s, g) == (ByteAt(s, 3 * g + 1) % 4) * 16 + ByteAt(s, 3 * g + 2) \div 16
V3(s, g) == (ByteAt(s, 3 * g + 2) % 16) * 4 + ByteAt(s, 3 * g + 3) \div 64
V4(s, g) == ByteAt(s, 3 * g + 3) % 64

(* Group g of the text t is that of the bytes s.                           *)
GroupOf(t, s, g) ==
    /\ t[4 * g + 1] = EncMap[V1(s, g)]
    /\ t[4 * g + 2] = EncMap[V2(s, g)]
    /\ t[4 * g + 3] = IF 3 * g + 2 <= Len(s) THEN EncMap[V3(s, g)] ELSE PAD
    /\ t[4 * g + 4] = IF 3 * g + 3 <= Len(s) THEN EncMap[V4(s, g)] ELSE PAD

EncodedAs(t, s) ==
    /\ Len(t) = PlainLength(Len(s))
    /\ \A g \in Nat : 3 * g < Len(s) => GroupOf(t, s, g)

(* Six bits behind others, the way the decoder puts them into x, and the   *)
(* lower bits of x.                                                        *)
Join(u, v)    == u * 64 + v
Shifted(y, v) == Join(y, v) % 16777216
Low6(y)       == y % 64
Low12(y)      == y % 4096
Low18(y)      == y % 262144

(* The second loop of the decoder has brought back the groups before g,    *)
(* and holds n times six bits of group g in x.                             *)
DecodedTo(g) ==
    /\ i = 4 * g + n
    /\ n < 3 /\ i < slen => j = 3
    /\ n = 3 => j = IF 3 * g + 2 <= Len(input) THEN 3 ELSE 2
    /\ Len(dst) = IF 3 * g <= Len(input) THEN 3 * g ELSE Len(input)
    /\ \A p \in 1 .. Len(dst) : dst[p] = input[p]
    /\ n = 1 => Low6(x) = V1(input, g)
    /\ n = 2 => Low12(x) = Join(V1(input, g), V2(input, g))
    /\ n = 3 => Low18(x) = Join(Join(V1(input, g), V2(input, g)), V3(input, g))

GroupsInv ==
    /\ pc = "groups" => \A g \in Nat : 3 * g < i => GroupOf(dst, input, g)
    /\ pc = "returned" /\ ret = 0 /\ Encoding /\ src # <<>> =>
          \A g \in Nat : 3 * g < slen => GroupOf(dst, input, g)

(* What is decoded is the text of the input, if there was one.             *)
TextInv ==
    input # <<>> /\ (pc \in {"decode", "chars"} \/ (pc = "returned" /\ ~Encoding)) =>
        EncodedAs(src, input)

BackInv == input # <<>> /\ pc = "chars" => \E g \in Nat : DecodedTo(g)

TripInv == GroupsInv /\ TextInv /\ BackInv /\ RoundTrip

-----------------------------------------------------------------------------
LEMMA ByteAtType ==
    ASSUME NEW s \in Seq(Octet), NEW k \in Nat, k # 0
    PROVE  ByteAt(s, k) \in Octet
<1>1. CASE k <= Len(s)
  <2>1. k \in 1 .. Len(s)
    BY <1>1, LenProperties
  <2> QED
    BY <1>1, <2>1, ElementOfSeq DEF ByteAt
<1>2. CASE ~ (k <= Len(s))
  BY <1>2 DEF ByteAt, Octet
<1> QED
  BY <1>1, <1>2

LEMMA SixBitsType ==
    ASSUME NEW s \in Seq(Octet), NEW g \in Nat
    PROVE  /\ V1(s, g) \in 0 .. 63 /\ V2(s, g) \in 0 .. 63
           /\ V3(s, g) \in 0 .. 63 /\ V4(s, g) \in 0 .. 63
<1>1. /\ ByteAt(s, 3 * g + 1) \in Octet /\ ByteAt(s, 3 * g + 2) \in Octet
      /\ ByteAt(s, 3 * g + 3) \in Octet
  BY ByteAtType
<1> QED
  BY <1>1, SixBits DEF V1, V2, V3, V4

(* The groups of the text and those of the bytes.                          *)
LEMMA GroupsOfLength ==
    ASSUME NEW L \in Nat
    PROVE  \E h \in Nat : /\ PlainLength(L) = 4 * h
                          /\ L <= 3 * h /\ 3 * h < L + 3
<1>1. PICK h \in Nat : L = 3 * h \/ L = 3 * h + 1 \/ L = 3 * h + 2
  BY Thirds
<1>2. CASE L = 3 * h
  BY <1>2, EncodedLengthOf
<1>3. CASE L = 3 * h + 1 \/ L = 3 * h + 2
  <2>1. PlainLength(L) = 4 * (h + 1) /\ L <= 3 * (h + 1) /\ 3 * (h + 1) < L + 3 /\ h + 1 \in Nat
    BY <1>3, EncodedLengthOf
  <2> QED
    BY <2>1
<1> QED
  BY <1>1, <1>2, <1>3

(* Four times six bits are three bytes.                                    *)
LEMMA BitsTogether ==
    ASSUME NEW b \in Octet, NEW c \in Octet, NEW d \in Octet, NEW y \in Nat,
           y = (b \div 4) * 262144 + ((b % 4) * 16 + c \div 16) * 4096
               + ((c % 16) * 4 + d \div 64) * 64 + (d % 64)
    PROVE  Three(y) = <<b, c, d>>
<1>1. y = b * 65536 + c * 256 + d
  <2>1. b = 4 * (b \div 4) + (b % 4) /\ b \div 4 \in Nat /\ b % 4 \in Nat
    BY DEF Octet
  <2>2. c = 16 * (c \div 16) + (c % 16) /\ c \div 16 \in Nat /\ c % 16 \in Nat
    BY DEF Octet
  <2>3. d = 64 * (d \div 64) + (d % 64) /\ d \div 64 \in Nat /\ d % 64 \in Nat
    BY DEF Octet
  <2>4. PICK q1 \in Nat, r1 \in Nat : q1 = b \div 4 /\ r1 = b % 4
    BY <2>1
  <2>5. PICK q2 \in Nat, r2 \in Nat : q2 = c \div 16 /\ r2 = c % 16
    BY <2>2
  <2>6. PICK q3 \in Nat, r3 \in Nat : q3 = d \div 64 /\ r3 = d % 64
    BY <2>3
  <2>7. y = q1 * 262144 + (r1 * 16 + q2) * 4096 + (r2 * 4 + q3) * 64 + r3
    BY <2>4, <2>5, <2>6
  <2>8. b = 4 * q1 + r1 /\ c = 16 * q2 + r2 /\ d = 64 * q3 + r3
    BY <2>1, <2>2, <2>3, <2>4, <2>5, <2>6
  <2> QED
    BY <2>7, <2>8
<1>2. 2^16 = 65536 /\ 2^8 = 256
  OBVIOUS
<1>3. y \div 65536 = b
  BY <1>1 DEF Octet
<1>4. (y \div 256) % 256 = c
  <2>1. y \div 256 = b * 256 + c
    BY <1>1 DEF Octet
  <2> QED
    BY <2>1 DEF Octet
<1>5. y % 256 = d
  BY <1>1 DEF Octet
<1> QED
  BY <1>2, <1>3, <1>4, <1>5 DEF Three

(* Shifting six more bits in.                                              *)
LEMMA BitsShifted ==
    ASSUME NEW y \in Nat, NEW v \in 0 .. 63
    PROVE  /\ Low6(Shifted(y, v)) = v
           /\ Low12(Shifted(y, v)) = Join(Low6(y), v)
           /\ Low18(Shifted(y, v)) = Join(Low12(y), v)
           /\ Shifted(y, v) = Join(Low18(y), v)
           /\ Shifted(y, v) \in Nat
<1> USE DEF Low6, Low12, Low18, Shifted, Join
<1>1. ((y * 64 + v) % 16777216) % 64 = v
  BY SMT
<1>2. ((y * 64 + v) % 16777216) % 4096 = (y % 64) * 64 + v
  BY SMT
<1>3. ((y * 64 + v) % 16777216) % 262144 = (y % 4096) * 64 + v
  BY SMT
<1>4. (y * 64 + v) % 16777216 = (y % 262144) * 64 + v /\ (y * 64 + v) % 16777216 \in Nat
  BY SMT
<1> QED
  BY <1>1, <1>2, <1>3, <1>4, SMT

-----------------------------------------------------------------------------
(* A character of the text brings six bits back; '=' brings zero bits.     *)
Carries(c, v) == c \in Octet /\ c \notin {CR, LF} /\ c <= 127 /\ DecMap[c] % 64 = v

LEMMA LetterCarries ==
    ASSUME NEW v \in 0 .. 63
    PROVE  Carries(EncMap[v], v) /\ EncMap[v] # PAD
<1>1. EncMap[v] \in 43 .. 122 /\ EncMap[v] # PAD /\ DecMap[EncMap[v]] = v
  BY EncMapType, DecMapOfEncMap, SMTT(30)
<1>2. v % 64 = v
  OBVIOUS
<1> QED
  BY <1>1, <1>2 DEF Carries, Octet, CR, LF

LEMMA PadCarries == Carries(PAD, 0)
<1>1. PAD \in Octet /\ PAD <= 127 /\ PAD \notin {CR, LF}
  BY DEF PAD, Octet, CR, LF
<1>2. DecMap[PAD] = 64
  BY <1>1, DecMapType
<1> QED
  BY <1>1, <1>2 DEF Carries

LEMMA EncodedGroup ==
    ASSUME NEW s \in Seq(Octet), NEW t, EncodedAs(t, s), NEW g \in Nat, 3 * g < Len(s)
    PROVE  /\ Carries(t[4 * g + 1], V1(s, g)) /\ t[4 * g + 1] # PAD
           /\ Carries(t[4 * g + 2], V2(s, g)) /\ t[4 * g + 2] # PAD
           /\ Carries(t[4 * g + 3], V3(s, g)) /\ (t[4 * g + 3] = PAD <=> 3 * g + 2 > Len(s))
           /\ Carries(t[4 * g + 4], V4(s, g)) /\ (t[4 * g + 4] = PAD <=> 3 * g + 3 > Len(s))
<1>1. PICK L \in Nat : L = Len(s) /\ 3 * g < L
  BY LenProperties
<1>2. GroupOf(t, s, g)
  BY DEF EncodedAs
<1>3. /\ V1(s, g) \in 0 .. 63 /\ V2(s, g) \in 0 .. 63
      /\ V3(s, g) \in 0 .. 63 /\ V4(s, g) \in 0 .. 63
  BY SixBitsType
<1>4. /\ Carries(t[4 * g + 1], V1(s, g)) /\ t[4 * g + 1] # PAD
      /\ Carries(t[4 * g + 2], V2(s, g)) /\ t[4 * g + 2] # PAD
  BY <1>2, <1>3, LetterCarries DEF GroupOf
<1>5. Carries(t[4 * g + 3], V3(s, g)) /\ (t[4 * g + 3] = PAD <=> 3 * g + 2 > L)
  <2>1. CASE 3 * g + 2 <= L
    <3>1. t[4 * g + 3] = EncMap[V3(s, g)]
      BY <1>1, <1>2, <2>1 DEF GroupOf
    <3>2. Carries(t[4 * g + 3], V3(s, g)) /\ t[4 * g + 3] # PAD
      BY <1>3, <3>1, LetterCarries
    <3>3. ~ (3 * g + 2 > L)
      BY <2>1
    <3> QED
      BY <3>2, <3>3
  <2>2. CASE 3 * g + 2 > L
    <3>1. ByteAt(s, 3 * g + 2) = 0 /\ ByteAt(s, 3 * g + 3) = 0
      BY <1>1, <2>2 DEF ByteAt
    <3>2. V3(s, g) = 0
      BY <3>1 DEF V3
    <3>3. t[4 * g + 3] = PAD
      BY <1>1, <1>2, <2>2 DEF GroupOf
    <3> QED
      BY <2>2, <3>2, <3>3, PadCarries
  <2> QED
    BY <1>1, <2>1, <2>2
<1>6. Carries(t[4 * g + 4], V4(s, g)) /\ (t[4 * g + 4] = PAD <=> 3 * g + 3 > L)
  <2>1. CASE 3 * g + 3 <= L
    <3>1. t[4 * g + 4] = EncMap[V4(s, g)]
      BY <1>1, <1>2, <2>1 DEF GroupOf
    <3>2. Carries(t[4 * g + 4], V4(s, g)) /\ t[4 * g + 4] # PAD
      BY <1>3, <3>1, LetterCarries
    <3>3. ~ (3 * g + 3 > L)
      BY <2>1
    <3> QED
      BY <3>2, <3>3
  <2>2. CASE 3 * g + 3 > L
    <3>1. ByteAt(s, 3 * g + 3) = 0
      BY <1>1, <2>2 DEF ByteAt
    <3>2. V4(s, g) = 0
      BY <3>1 DEF V4
    <3>3. t[4 * g + 4] = PAD
      BY <1>1, <1>2, <2>2 DEF GroupOf
    <3> QED
      BY <2>2, <3>2, <3>3, PadCarries
  <2> QED
    BY <1>1, <2>1, <2>2
<1> QED
  BY <1>1, <1>4, <1>5, <1>6

LEMMA PositionInGroup ==
    ASSUME NEW h \in Nat, NEW p \in 1 .. 4 * h
    PROVE  \E g \in Nat : g < h /\ (\/ p = 4 * g + 1 \/ p = 4 * g + 2
                                  \/ p = 4 * g + 3 \/ p = 4 * g + 4)
<1>1. PICK g \in Nat : g = (p - 1) \div 4
  OBVIOUS
<1>2. g < h /\ (p = 4 * g + 1 \/ p = 4 * g + 2 \/ p = 4 * g + 3 \/ p = 4 * g + 4)
  BY <1>1
<1> QED
  BY <1>2

(* The text of some bytes is well formed: the first loop lets it through.  *)
LEMMA EncodedIsWellFormed ==
    ASSUME NEW s \in Seq(Octet), NEW t, EncodedAs(t, s)
    PROVE  WellFormedTo(t, Len(t))
<1>1. PICK L \in Nat : L = Len(s)
  BY LenProperties
<1>2. PICK h \in Nat : Len(t) = 4 * h /\ L <= 3 * h /\ 3 * h < L + 3
  BY <1>1, GroupsOfLength DEF EncodedAs
<1>3. ASSUME NEW p \in 1 .. 4 * h
      PROVE  /\ t[p] \notin {CR, LF}
             /\ LetterAt(t, p) => t[p] \in {EncMap[v] : v \in 0 .. 63}
             /\ t[p] = PAD => p = 4 * h - 1 \/ p = 4 * h
             /\ t[p] = PAD /\ p = 4 * h - 1 => t[4 * h] = PAD
  <2>1. PICK g \in Nat : g < h /\ (\/ p = 4 * g + 1 \/ p = 4 * g + 2
                                   \/ p = 4 * g + 3 \/ p = 4 * g + 4)
    BY PositionInGroup
  <2>2. 3 * g < L
    BY <1>2, <2>1
  <2>3. /\ Carries(t[4 * g + 1], V1(s, g)) /\ t[4 * g + 1] # PAD
        /\ Carries(t[4 * g + 2], V2(s, g)) /\ t[4 * g + 2] # PAD
        /\ Carries(t[4 * g + 3], V3(s, g)) /\ (t[4 * g + 3] = PAD <=> 3 * g + 2 > L)
        /\ Carries(t[4 * g + 4], V4(s, g)) /\ (t[4 * g + 4] = PAD <=> 3 * g + 3 > L)
    BY <1>1, <2>2, EncodedGroup
  <2>4. t[p] \notin {CR, LF} /\ t[p] \in Octet /\ t[p] <= 127
    BY <2>1, <2>3 DEF Carries
  <2>5. t[p] # PAD => t[p] \in {EncMap[v] : v \in 0 .. 63}
    <3>1. GroupOf(t, s, g)
      BY <1>1, <2>2 DEF EncodedAs
    <3>2. /\ V1(s, g) \in 0 .. 63 /\ V2(s, g) \in 0 .. 63
          /\ V3(s, g) \in 0 .. 63 /\ V4(s, g) \in 0 .. 63
      BY SixBitsType
    <3> QED
      BY <2>1, <3>1, <3>2 DEF GroupOf
  <2>6. t[p] = PAD => (p = 4 * g + 3 \/ p = 4 * g + 4) /\ 3 * g + 3 > L
    BY <1>1, <2>1, <2>3
  <2>7. t[p] = PAD => h = g + 1
    BY <1>2, <2>1, <2>6
  <2>8. t[p] = PAD => p = 4 * h - 1 \/ p = 4 * h
    BY <2>6, <2>7
  <2>9. t[p] = PAD /\ p = 4 * h - 1 => t[4 * h] = PAD
    BY <2>3, <2>6, <2>7
  <2> QED
    BY <2>4, <2>5, <2>8, <2>9 DEF LetterAt
<1>4. \A p, q \in 1 .. 4 * h : LetterAt(t, p) /\ t[q] = PAD => p < q
  <2> SUFFICES ASSUME NEW p \in 1 .. 4 * h, NEW q \in 1 .. 4 * h, t[p] # PAD, t[q] = PAD
               PROVE  p < q
    BY DEF LetterAt
  <2>1. q = 4 * h \/ (q = 4 * h - 1 /\ t[4 * h] = PAD)
    BY <1>3
  <2>2. p # q /\ (q = 4 * h - 1 => p # 4 * h)
    BY <2>1
  <2> QED
    BY <2>1, <2>2
<1>5. PadCount(t, 4 * h) <= 2
  <2>1. PadsTo(t, 4 * h) \subseteq {4 * h - 1, 4 * h}
    BY <1>3 DEF PadsTo
  <2>2. IsFiniteSet({4 * h - 1}) /\ Cardinality({4 * h - 1}) = 1
    BY FS_Singleton
  <2>3. {4 * h - 1, 4 * h} = {4 * h - 1} \cup {4 * h} /\ 4 * h \notin {4 * h - 1}
    OBVIOUS
  <2>4. IsFiniteSet({4 * h - 1, 4 * h}) /\ Cardinality({4 * h - 1, 4 * h}) = 2
    <3>1. IsFiniteSet({4 * h - 1} \cup {4 * h})
          /\ Cardinality({4 * h - 1} \cup {4 * h}) = Cardinality({4 * h - 1}) + 1
      BY <2>2, <2>3, FS_AddElement, ZenonT(60)
    <3>2. 1 + 1 = 2
      OBVIOUS
    <3> QED
      BY <2>2, <2>3, <3>1, <3>2, Zenon
  <2> QED
    BY <2>1, <2>4, FS_Subset, FS_CardinalityType DEF PadCount
<1> QED
  BY <1>2, <1>3, <1>4, <1>5 DEF WellFormedTo

-----------------------------------------------------------------------------
(* Writing behind the groups that are there leaves them as they are.       *)
LEMMA GroupsKept ==
    ASSUME NEW s, NEW t \in Seq(Octet), NEW u \in Seq(Octet), NEW h \in Nat, 4 * h <= Len(t),
           NEW g \in Nat, g < h, GroupOf(t, s, g)
    PROVE  GroupOf(t \o u, s, g)
<1>1. PICK T \in Nat, U \in Nat : T = Len(t) /\ U = Len(u) /\ 4 * h <= T
  BY LenProperties
<1>2. \A p \in 1 .. T + U : p <= T => (t \o u)[p] = t[p]
  BY <1>1, ConcatProperties
<1>3. /\ 4 * g + 1 \in 1 .. T + U /\ 4 * g + 2 \in 1 .. T + U
      /\ 4 * g + 3 \in 1 .. T + U /\ 4 * g + 4 \in 1 .. T + U /\ 4 * g + 4 <= T
  BY <1>1
<1>4. /\ (t \o u)[4 * g + 1] = t[4 * g + 1] /\ (t \o u)[4 * g + 2] = t[4 * g + 2]
      /\ (t \o u)[4 * g + 3] = t[4 * g + 3] /\ (t \o u)[4 * g + 4] = t[4 * g + 4]
  BY <1>2, <1>3, SMTT(30)
<1> QED
  BY <1>4 DEF GroupOf

LEMMA GroupAdded ==
    ASSUME NEW s, NEW t \in Seq(Octet), NEW u \in Seq(Octet), NEW g \in Nat,
           Len(t) = 4 * g, Len(u) = 4,
           u[1] = EncMap[V1(s, g)], u[2] = EncMap[V2(s, g)],
           u[3] = IF 3 * g + 2 <= Len(s) THEN EncMap[V3(s, g)] ELSE PAD,
           u[4] = IF 3 * g + 3 <= Len(s) THEN EncMap[V4(s, g)] ELSE PAD
    PROVE  GroupOf(t \o u, s, g)
<1>1. \A p \in 1 .. 4 * g + 4 : (t \o u)[p] = IF p <= 4 * g THEN t[p] ELSE u[p - 4 * g]
  <2>1. \A p \in 1 .. Len(t) + Len(u) :
            (t \o u)[p] = IF p <= Len(t) THEN t[p] ELSE u[p - Len(t)]
    BY ConcatProperties
  <2>2. PICK T \in Nat, U \in Nat : T = Len(t) /\ U = Len(u) /\ T = 4 * g /\ U = 4
    OBVIOUS
  <2>3. \A p \in 1 .. T + U : (t \o u)[p] = IF p <= T THEN t[p] ELSE u[p - T]
    BY <2>1, <2>2, Zenon
  <2> QED
    BY <2>2, <2>3, Zenon
<1>2. ASSUME NEW k \in 1 .. 4 PROVE (t \o u)[4 * g + k] = u[k]
  <2>1. 4 * g + k \in 1 .. 4 * g + 4 /\ ~ (4 * g + k <= 4 * g) /\ (4 * g + k) - 4 * g = k
    OBVIOUS
  <2> QED
    BY <1>1, <2>1
<1>3. /\ (t \o u)[4 * g + 1] = u[1] /\ (t \o u)[4 * g + 2] = u[2]
      /\ (t \o u)[4 * g + 3] = u[3] /\ (t \o u)[4 * g + 4] = u[4]
  <2>1. 1 \in 1 .. 4 /\ 2 \in 1 .. 4 /\ 3 \in 1 .. 4 /\ 4 \in 1 .. 4
    OBVIOUS
  <2> QED
    BY <1>2, <2>1, Zenon
<1> QED
  BY <1>3 DEF GroupOf

LEMMA EncodeBeginsTrip ==
    ASSUME BufferInv, TripInv, EncodeBegins
    PROVE  TripInv'
<1>1. src' = input' /\ i' = 0 /\ pc' \in {"groups", "returned"} /\ Encoding'
  BY DEF BufferInv, EncodeInv, BeginInv, EncodeBegins, Return, Encoding
<1>2. ASSUME pc' = "returned", ret' = 0 PROVE src' = <<>>
  <2>1. slen = 0 /\ src' = src
    BY <1>2 DEF EncodeBegins, Return, TOO_SMALL
  <2> QED
    BY <2>1, EmptySeq DEF BufferInv, TypeInv, slen
<1>3. \A g \in Nat : ~ (3 * g < 0)
  OBVIOUS
<1> QED
  BY <1>1, <1>2, <1>3 DEF TripInv, GroupsInv, TextInv, BackInv, RoundTrip

LEMMA EncodeGroupTrip ==
    ASSUME BufferInv, TripInv, EncodeGroup
    PROVE  TripInv'
<1> DEFINE four == <<EncMap[Byte(i) \div 4],
                     EncMap[(Byte(i) % 4) * 16 + Byte(i + 1) \div 16],
                     EncMap[(Byte(i + 1) % 16) * 4 + Byte(i + 2) \div 64],
                     EncMap[Byte(i + 2) % 64]>>
<1>1. PICK h \in Nat : i = 3 * h /\ Len(dst) = 4 * h
  BY DEF BufferInv, EncodeInv, EncodeGroup
<1>2. PICK L \in Nat : /\ L = slen /\ L = Len(input) /\ i + 3 <= L
                       /\ src = input /\ pc = "groups" /\ dst \in Seq(Octet)
  BY LenProperties DEF BufferInv, TypeInv, EncodeInv, slen, EncodeGroup
<1>3. /\ dst' = dst \o four /\ i' = 3 * h + 3
      /\ UNCHANGED <<pc, ret, input, src, size, dlen, retried, j, n, x>>
  BY <1>1 DEF EncodeGroup
<1>4. /\ Byte(i) \in Octet /\ Byte(i + 1) \in Octet /\ Byte(i + 2) \in Octet
      /\ Byte(i) = input[3 * h + 1] /\ Byte(i + 1) = input[3 * h + 2]
      /\ Byte(i + 2) = input[3 * h + 3]
  <2>1. i \in 0 .. slen - 1 /\ i + 1 \in 0 .. slen - 1 /\ i + 2 \in 0 .. slen - 1
    BY <1>1, <1>2
  <2>2. (i + 1) + 1 = 3 * h + 2 /\ (i + 2) + 1 = 3 * h + 3 /\ i + 1 = 3 * h + 1
    BY <1>1
  <2> QED
    BY <1>2, <2>1, <2>2, ByteType DEF BufferInv
<1>5. /\ Byte(i) = ByteAt(input, 3 * h + 1) /\ Byte(i + 1) = ByteAt(input, 3 * h + 2)
      /\ Byte(i + 2) = ByteAt(input, 3 * h + 3)
  BY <1>1, <1>2, <1>4 DEF ByteAt
<1>6. four \in Seq(Octet) /\ Len(four) = 4
  <2>1. four[1] \in Octet /\ four[2] \in Octet /\ four[3] \in Octet /\ four[4] \in Octet
    BY <1>4, SixBits, EncMapOctet
  <2> QED
    BY <2>1
<1>7. /\ four[1] = EncMap[V1(input, h)] /\ four[2] = EncMap[V2(input, h)]
      /\ four[3] = EncMap[V3(input, h)] /\ four[4] = EncMap[V4(input, h)]
  BY <1>5 DEF V1, V2, V3, V4
<1> HIDE DEF four
<1>8. GroupOf(dst', input, h)
  <2>1. 3 * h + 2 <= Len(input) /\ 3 * h + 3 <= Len(input)
    BY <1>1, <1>2
  <2> QED
    BY <1>1, <1>2, <1>3, <1>6, <1>7, <2>1, GroupAdded
<1>9. ASSUME NEW g \in Nat, 3 * g < i' PROVE GroupOf(dst', input, g)
  <2>1. g = h \/ (g < h /\ 3 * g < i)
    BY <1>1, <1>3, <1>9
  <2>2. CASE g < h /\ 3 * g < i
    <3>1. GroupOf(dst, input, g) /\ 4 * h <= Len(dst)
      BY <1>1, <1>2, <2>2 DEF TripInv, GroupsInv
    <3> QED
      BY <1>2, <1>3, <1>6, <2>2, <3>1, GroupsKept
  <2> QED
    BY <1>8, <2>1, <2>2
<1> QED
  BY <1>2, <1>3, <1>9 DEF TripInv, GroupsInv, TextInv, BackInv, RoundTrip

LEMMA EncodeEndsTrip ==
    ASSUME BufferInv, TripInv, EncodeEnds
    PROVE  TripInv'
<1> DEFINE C2 == IF i + 1 < slen THEN Byte(i + 1) ELSE 0
           four == <<EncMap[Byte(i) \div 4], EncMap[(Byte(i) % 4) * 16 + C2 \div 16],
                     IF i + 1 < slen THEN EncMap[(C2 % 16) * 4] ELSE PAD, PAD>>
           tail == IF i = slen THEN <<>> ELSE four
<1>1. PICK h \in Nat : i = 3 * h /\ Len(dst) = 4 * h
  BY DEF BufferInv, EncodeInv, EncodeEnds
<1>2. PICK L \in Nat : /\ L = slen /\ L = Len(input) /\ i <= L /\ i + 3 > L
                       /\ src = input /\ pc = "groups" /\ dst \in Seq(Octet)
  BY LenProperties DEF BufferInv, TypeInv, EncodeInv, slen, EncodeEnds
<1>3. dst' = dst \o tail \o <<0>> /\ pc' = "returned" /\ UNCHANGED <<input, src>>
  BY DEF EncodeEnds, Return
<1>4. ASSUME i # slen
      PROVE  /\ four \in Seq(Octet) /\ Len(four) = 4
             /\ GroupOf(dst \o four, input, h)
  <2>1. i \in 0 .. slen - 1 /\ (i + 1 < slen => i + 1 \in 0 .. slen - 1)
    BY <1>1, <1>2, <1>4
  <2>2. i + 1 = 3 * h + 1 /\ (i + 1) + 1 = 3 * h + 2
    BY <1>1
  <2>3. /\ Byte(i) \in Octet /\ Byte(i) = input[3 * h + 1]
        /\ i + 1 < slen => Byte(i + 1) \in Octet /\ Byte(i + 1) = input[3 * h + 2]
    BY <1>2, <2>1, <2>2, ByteType DEF BufferInv
  <2>4. C2 \in Octet
    BY <2>3 DEF Octet
  <2>5. Byte(i) = ByteAt(input, 3 * h + 1)
    BY <1>1, <1>2, <2>1, <2>3 DEF ByteAt
  <2>6. C2 = ByteAt(input, 3 * h + 2)
    BY <1>1, <1>2, <2>3 DEF ByteAt
  <2>7. ByteAt(input, 3 * h + 3) = 0
    BY <1>1, <1>2 DEF ByteAt
  <2>8. i + 1 < slen <=> 3 * h + 2 <= Len(input)
    BY <1>1, <1>2
  <2>9. ~ (3 * h + 3 <= Len(input))
    BY <1>1, <1>2
  <2> HIDE DEF C2
  <2>10. V1(input, h) = Byte(i) \div 4 /\ V2(input, h) = (Byte(i) % 4) * 16 + C2 \div 16
    BY <2>5, <2>6 DEF V1, V2
  <2>11. V3(input, h) = (C2 % 16) * 4
    <3>1. V3(input, h) = (C2 % 16) * 4 + 0 \div 64
      BY <2>6, <2>7 DEF V3
    <3> QED
      BY <2>4, <3>1 DEF Octet
  <2>12. PAD \in Octet
    BY DEF PAD, Octet
  <2>13. four[1] \in Octet /\ four[2] \in Octet /\ four[3] \in Octet /\ four[4] \in Octet
    BY <2>3, <2>4, <2>12, SixBits, EncMapOctet
  <2>14. four \in Seq(Octet) /\ Len(four) = 4
    BY <2>13
  <2>15. /\ four[1] = EncMap[V1(input, h)] /\ four[2] = EncMap[V2(input, h)]
         /\ four[3] = IF 3 * h + 2 <= Len(input) THEN EncMap[V3(input, h)] ELSE PAD
         /\ four[4] = PAD
    BY <2>8, <2>10, <2>11
  <2> HIDE DEF four
  <2> QED
    BY <1>1, <1>2, <2>9, <2>14, <2>15, GroupAdded
<1>5. tail \in Seq(Octet) /\ Len(tail) = IF i = slen THEN 0 ELSE 4
  BY <1>4, EmptySeq
<1> HIDE DEF four
<1>6. dst \o tail \in Seq(Octet) /\ <<0>> \in Seq(Octet)
  BY <1>2, <1>5, ConcatProperties DEF Octet
<1>7. ASSUME NEW g \in Nat, 3 * g < L PROVE GroupOf(dst', input, g)
  <2>1. PICK H \in Nat : Len(dst \o tail) = 4 * H /\ g < H
    <3>1. Len(dst \o tail) = 4 * h + (IF i = slen THEN 0 ELSE 4)
      <4>1. Len(dst \o tail) = Len(dst) + Len(tail)
        BY <1>2, <1>5, ConcatProperties
      <4> QED
        BY <1>1, <1>5, <4>1
    <3>2. CASE i = slen
      BY <1>1, <1>2, <1>7, <3>1, <3>2
    <3>3. CASE i # slen
      <4>1. Len(dst \o tail) = 4 * (h + 1) /\ g < h + 1 /\ h + 1 \in Nat
        BY <1>1, <1>2, <1>7, <3>1, <3>3
      <4> QED
        BY <4>1
    <3> QED
      BY <3>2, <3>3
  <2>2. GroupOf(dst \o tail, input, g)
    <3>1. CASE g < h
      <4>1. GroupOf(dst, input, g) /\ 4 * h <= Len(dst)
        BY <1>1, <1>2, <3>1 DEF TripInv, GroupsInv
      <4> QED
        BY <1>2, <1>5, <3>1, <4>1, GroupsKept
    <3>2. CASE ~ (g < h)
      <4>1. g = h /\ i # slen
        BY <1>1, <1>2, <1>7, <3>2
      <4> QED
        BY <1>4, <4>1
    <3> QED
      BY <3>1, <3>2
  <2>3. 4 * H <= Len(dst \o tail)
    BY <2>1
  <2> QED
    BY <1>3, <1>6, <2>1, <2>2, <2>3, GroupsKept
<1> QED
  BY <1>2, <1>3, <1>7 DEF TripInv, GroupsInv, TextInv, BackInv, RoundTrip, Encoding, slen

-----------------------------------------------------------------------------
(* The caller hands the text without its NUL to the decoder.               *)
LEMMA DecodeBackTrip ==
    ASSUME BufferInv, TripInv, DecodeBack
    PROVE  TripInv'
<1>1. /\ Len(src') = PlainLength(Len(input)) /\ dlen = PlainLength(Len(input))
      /\ \A p \in 1 .. dlen : src'[p] = dst[p]
  BY DecodeBackArgument
<1>2. PICK L \in Nat : L = Len(input) /\ L = slen
  BY LenProperties DEF BufferInv, TypeInv, DecodeBack, Encoding, slen
<1>3. PICK h \in Nat : dlen = 4 * h /\ L <= 3 * h /\ 3 * h < L + 3
  BY <1>1, <1>2, GroupsOfLength
<1>4. ASSUME NEW g \in Nat, 3 * g < L PROVE GroupOf(src', input, g)
  <2>1. GroupOf(dst, input, g)
    BY <1>2, <1>4 DEF DecodeBack, TripInv, GroupsInv
  <2>2. /\ 4 * g + 1 \in 1 .. dlen /\ 4 * g + 2 \in 1 .. dlen
        /\ 4 * g + 3 \in 1 .. dlen /\ 4 * g + 4 \in 1 .. dlen
    BY <1>3, <1>4
  <2>3. /\ src'[4 * g + 1] = dst[4 * g + 1] /\ src'[4 * g + 2] = dst[4 * g + 2]
        /\ src'[4 * g + 3] = dst[4 * g + 3] /\ src'[4 * g + 4] = dst[4 * g + 4]
    BY <1>1, <2>2
  <2> QED
    BY <2>1, <2>3 DEF GroupOf
<1>5. EncodedAs(src', input)
  BY <1>1, <1>2, <1>4 DEF EncodedAs
<1>6. input' = input /\ pc' = "decode"
  BY DEF DecodeBack, Call
<1> QED
  BY <1>5, <1>6 DEF TripInv, GroupsInv, TextInv, BackInv, RoundTrip

LEMMA RetryTrip ==
    ASSUME BufferInv, TripInv, Retry
    PROVE  TripInv'
<1>1. /\ pc = "returned" /\ src' = src /\ input' = input /\ pc' \in {"encode", "decode"}
      /\ pc' = "decode" => ~ Encoding
  BY DEF Retry, Call
<1> QED
  BY <1>1 DEF TripInv, GroupsInv, TextInv, BackInv, RoundTrip

(* The decoder reads a text, not the input.                                *)
LEMMA NotTheInput ==
    ASSUME BufferInv, pc \in {"decode", "chars"}, input # <<>>
    PROVE  ~ Encoding
BY DEF BufferInv, DecodeInv, Encoding

LEMMA ScanCharTrip ==
    ASSUME BufferInv, FormInv', TripInv, ScanChar
    PROVE  TripInv'
<1>1. pc = "decode" /\ UNCHANGED <<input, src, dst>> /\ slen' = slen
  BY DEF ScanChar, slen
<1>2. \/ pc' = "decode"
      \/ pc' = "returned" /\ ret' = INVALID
  BY <1>1, ScanCharCases DEF Return
<1> SUFFICES ASSUME input # <<>> PROVE TripInv'
  BY <1>1, <1>2 DEF TripInv, GroupsInv, TextInv, BackInv, RoundTrip, Encoding, INVALID
<1>3. EncodedAs(src, input) /\ ~ Encoding /\ input \in Seq(Octet)
  BY <1>1, NotTheInput DEF TripInv, TextInv, BufferInv, TypeInv
<1>4. EncodedAs(src, input)' /\ ~ Encoding'
  BY <1>1, <1>3 DEF Encoding
<1>5. WellFormedTo(src, slen)
  BY <1>3, EncodedIsWellFormed DEF slen
<1>6. pc' # "returned"
  <2> SUFFICES ASSUME pc' = "returned", ret' = INVALID PROVE FALSE
    BY <1>2
  <2>1. ~ WellFormedTo(src, slen)'
    BY <1>4 DEF FormInv
  <2> QED
    BY <1>1, <1>5, <2>1
<1> QED
  BY <1>2, <1>4, <1>6 DEF TripInv, GroupsInv, TextInv, BackInv, RoundTrip

LEMMA ScanEndsTrip ==
    ASSUME BufferInv, TripInv, ScanEnds
    PROVE  TripInv'
<1>1. pc = "decode" /\ UNCHANGED <<input, src, dst>> /\ slen' = slen /\ dst = <<>> /\ i = slen
  BY DEF ScanEnds, slen, BufferInv, BeginInv
<1>2. \/ n = 0 /\ pc' = "returned"
      \/ pc' = "returned" /\ ret' = TOO_SMALL
      \/ pc' = "chars" /\ i' = 0 /\ j' = 3 /\ n' = 0
  BY DEF ScanEnds, Return
<1> SUFFICES ASSUME input # <<>> PROVE TripInv'
  <2>1. ASSUME input = <<>> PROVE TripInv'
    <3>1. Encoding' => src' = <<>>
      BY <1>1, <2>1 DEF Encoding
    <3> QED
      BY <1>1, <1>2, <2>1, <3>1 DEF TripInv, GroupsInv, TextInv, BackInv, RoundTrip
  <2> QED
    BY <2>1
<1>3. EncodedAs(src, input) /\ ~ Encoding /\ input \in Seq(Octet)
  BY <1>1, NotTheInput DEF TripInv, TextInv, BufferInv, TypeInv
<1>4. EncodedAs(src, input)' /\ ~ Encoding'
  BY <1>1, <1>3 DEF Encoding
<1>5. PICK L \in Nat : L = Len(input) /\ L # 0
  BY <1>3, EmptySeq
<1>6. n # 0
  <2>1. PICK h \in Nat : slen = 4 * h /\ L <= 3 * h
    BY <1>3, <1>5, GroupsOfLength DEF EncodedAs, slen
  <2>2. src[4 * 0 + 1] \notin {CR, LF}
    BY <1>3, <1>5, EncodedGroup DEF Carries
  <2>3. 1 \in CharsTo(src, slen) /\ slen \in Nat
    BY <1>5, <2>1, <2>2 DEF CharsTo
  <2>4. IsFiniteSet(CharsTo(src, slen)) /\ n = Cardinality(CharsTo(src, slen))
    BY <1>1, <2>3, CountType DEF BufferInv, DecodeInv, CharCount
  <2> QED
    BY <2>3, <2>4, FS_EmptySet
<1>7. ASSUME pc' = "chars", i' = 0, j' = 3, n' = 0 PROVE DecodedTo(0)'
  <2>1. dst' = <<>> /\ input' = input /\ Len(dst') = 0
    BY <1>1
  <2>2. i' = 4 * 0 + n' /\ 3 * 0 <= Len(input') /\ Len(dst') = 3 * 0
    BY <1>5, <1>7, <2>1
  <2>3. \A p \in 1 .. Len(dst') : dst'[p] = input'[p]
    BY <2>1
  <2> QED
    BY <1>7, <2>2, <2>3 DEF DecodedTo
<1>8. pc' = "chars" => \E g \in Nat : DecodedTo(g)'
  <2>1. 0 \in Nat
    OBVIOUS
  <2> QED
    BY <1>2, <1>7, <2>1, Zenon
<1> QED
  BY <1>2, <1>4, <1>6, <1>8 DEF TripInv, GroupsInv, TextInv, BackInv, RoundTrip, TOO_SMALL

(* Four characters together are the bytes of their group.                  *)
LEMMA GroupTogether ==
    ASSUME NEW s \in Seq(Octet), NEW g \in Nat, NEW y \in Nat,
           y = Join(Join(Join(V1(s, g), V2(s, g)), V3(s, g)), V4(s, g))
    PROVE  Three(y) = <<ByteAt(s, 3 * g + 1), ByteAt(s, 3 * g + 2), ByteAt(s, 3 * g + 3)>>
<1>1. PICK b \in Octet, c \in Octet, d \in Octet :
          b = ByteAt(s, 3 * g + 1) /\ c = ByteAt(s, 3 * g + 2) /\ d = ByteAt(s, 3 * g + 3)
  BY ByteAtType
<1>2. PICK v1 \in 0 .. 63, v2 \in 0 .. 63, v3 \in 0 .. 63, v4 \in 0 .. 63 :
          v1 = V1(s, g) /\ v2 = V2(s, g) /\ v3 = V3(s, g) /\ v4 = V4(s, g)
  BY SixBitsType
<1>3. y = v1 * 262144 + v2 * 4096 + v3 * 64 + v4
  <2>1. y = ((v1 * 64 + v2) * 64 + v3) * 64 + v4
    BY <1>2, SMT DEF Join
  <2> QED
    BY <2>1, SMT
<1>4. /\ v1 = b \div 4 /\ v2 = (b % 4) * 16 + c \div 16
      /\ v3 = (c % 16) * 4 + d \div 64 /\ v4 = d % 64
  BY <1>1, <1>2 DEF V1, V2, V3, V4
<1>5. y = (b \div 4) * 262144 + ((b % 4) * 16 + c \div 16) * 4096
          + ((c % 16) * 4 + d \div 64) * 64 + (d % 64)
  BY <1>3, <1>4
<1>6. Three(y) = <<b, c, d>>
  BY <1>5, BitsTogether
<1> QED
  BY <1>1, <1>6

(* One character of group g is put to the bits of x.                       *)
LEMMA DecodeCharTrip ==
    ASSUME BufferInv, TripInv, DecodeChar
    PROVE  TripInv'
<1>1. /\ pc = "chars" /\ i < slen /\ i' = i + 1 /\ slen' = slen
      /\ UNCHANGED <<pc, ret, input, src, size, dlen, retried>>
  BY DEF DecodeChar, slen
<1> SUFFICES ASSUME input # <<>> PROVE TripInv'
  BY <1>1 DEF TripInv, GroupsInv, TextInv, BackInv, RoundTrip
<1>2. EncodedAs(src, input) /\ input \in Seq(Octet) /\ dst \in Seq(Octet)
  BY <1>1 DEF TripInv, TextInv, BufferInv, TypeInv
<1>3. PICK g \in Nat : DecodedTo(g)
  BY <1>1 DEF TripInv, BackInv
<1>4. PICK L \in Nat : L = Len(input)
  BY <1>2, LenProperties
<1>5. PICK h \in Nat : slen = 4 * h /\ L <= 3 * h /\ 3 * h < L + 3
  BY <1>2, <1>4, GroupsOfLength DEF EncodedAs, slen
<1>6. n \in Nat /\ n < 4 /\ i = 4 * g + n /\ x \in Nat
  BY <1>1, <1>3 DEF DecodedTo, BufferInv, TypeInv, DecodeInv
<1>7. g < h /\ 3 * g < L
  BY <1>1, <1>5, <1>6
<1>8. Len(dst) = 3 * g /\ \A p \in 1 .. 3 * g : dst[p] = input[p]
  BY <1>3, <1>4, <1>7 DEF DecodedTo
<1>9. /\ Carries(src[4 * g + 1], V1(input, g)) /\ src[4 * g + 1] # PAD
      /\ Carries(src[4 * g + 2], V2(input, g)) /\ src[4 * g + 2] # PAD
      /\ Carries(src[4 * g + 3], V3(input, g)) /\ (src[4 * g + 3] = PAD <=> 3 * g + 2 > L)
      /\ Carries(src[4 * g + 4], V4(input, g)) /\ (src[4 * g + 4] = PAD <=> 3 * g + 3 > L)
  BY <1>2, <1>4, <1>7, EncodedGroup
<1>10. PICK v1 \in 0 .. 63, v2 \in 0 .. 63, v3 \in 0 .. 63, v4 \in 0 .. 63 :
          /\ v1 = V1(input, g) /\ v2 = V2(input, g)
          /\ v3 = V3(input, g) /\ v4 = V4(input, g)
  BY <1>2, SixBitsType
<1>11. Byte(i) = src[4 * g + n + 1]
  BY <1>6 DEF Byte
(* What the step does with a character that carries the six bits v.        *)
<1>12. ASSUME NEW v \in 0 .. 63, Carries(Byte(i), v)
       PROVE  /\ j' = j - (IF Byte(i) = PAD THEN 1 ELSE 0)
              /\ x' = Shifted(x, v) /\ x' \in Nat /\ x' < 2^24
              /\ n' = IF n = 3 THEN 0 ELSE n + 1
              /\ n = 3 => dst' = dst \o SubSeq(Three(x'), 1, j')
              /\ n # 3 => dst' = dst
  <2>1. Byte(i) \notin {CR, LF} /\ Byte(i) \in Octet /\ Byte(i) <= 127 /\ DecMap[Byte(i)] % 64 = v
    BY <1>12 DEF Carries
  <2>2. DecMap[Byte(i)] = 64 <=> Byte(i) = PAD
    BY <2>1, DecMapType
  <2>3. j' = j - (IF Byte(i) = PAD THEN 1 ELSE 0)
    BY <2>1, <2>2 DEF DecodeChar
  <2>4. x' = Shifted(x, v) /\ x' \in Nat /\ x' < 2^24
    <3>1. x' = (x * 64 + v) % 2^24 /\ x' \in Nat /\ x' < 2^24
      BY <2>1, DecodeCharBits
    <3>2. 2^24 = 16777216
      OBVIOUS
    <3> QED
      BY <3>1, <3>2, SMT DEF Shifted, Join
  <2>6. n' = IF n = 3 THEN 0 ELSE n + 1
    BY <1>6, <2>1, NextInGroup DEF DecodeChar
  <2>7. n = 3 => dst' = dst \o SubSeq(Three(x'), 1, j')
    BY <2>1, <2>6 DEF DecodeChar, Three
  <2>8. n # 3 => dst' = dst
    <3>1. n # 3 => n' # 0
      BY <1>6, <2>6
    <3> QED
      BY <2>1, <3>1 DEF DecodeChar
  <2> QED
    BY <2>3, <2>4, <2>6, <2>7, <2>8
<1>13. n < 3 => j = 3
  BY <1>1, <1>3 DEF DecodedTo
<1>14. n = 3 => j = IF 3 * g + 2 <= L THEN 3 ELSE 2
  BY <1>3, <1>4 DEF DecodedTo
<1>15. CASE n = 0
  <2>1. Byte(i) = src[4 * g + 1]
    BY <1>11, <1>15
  <2>2. Carries(Byte(i), v1) /\ Byte(i) # PAD
    BY <1>9, <1>10, <2>1, Zenon
  <2>3. /\ j' = j - (IF Byte(i) = PAD THEN 1 ELSE 0) /\ x' = Shifted(x, v1)
        /\ n' = (IF n = 3 THEN 0 ELSE n + 1) /\ (n # 3 => dst' = dst)
    BY <1>12, <2>2, Zenon
  <2>4. n' = 1 /\ dst' = dst /\ j' = 3
    BY <1>13, <1>15, <2>2, <2>3, SMT
  <2>6. Low6(x') = v1
    BY <1>6, <2>3, BitsShifted, Zenon
  <2>7. DecodedTo(g)'
    <3>1. i' = 4 * g + n'
      BY <1>1, <1>6, <1>15, <2>4
    <3>2. Len(dst') = (IF 3 * g <= Len(input') THEN 3 * g ELSE Len(input'))
          /\ \A p \in 1 .. Len(dst') : dst'[p] = input'[p]
      BY <1>1, <1>4, <1>7, <1>8, <2>4
    <3>3. (n' < 3 /\ i' < slen' => j' = 3) /\ (n' = 3 => j' = IF 3 * g + 2 <= Len(input') THEN 3 ELSE 2)
      BY <1>1, <1>4, <2>4
    <3>4. n' = 1 => Low6(x') = v1
      BY <2>6
    <3> QED
      BY <1>1, <1>10, <2>4, <3>1, <3>2, <3>3, <3>4 DEF DecodedTo
  <2> QED
    BY <1>1, <1>2, <2>7 DEF TripInv, GroupsInv, TextInv, BackInv, RoundTrip
<1>16. CASE n = 1
  <2>1. Byte(i) = src[4 * g + 2]
    BY <1>11, <1>16
  <2>2. Carries(Byte(i), v2) /\ Byte(i) # PAD
    BY <1>9, <1>10, <2>1, Zenon
  <2>3. /\ j' = j - (IF Byte(i) = PAD THEN 1 ELSE 0) /\ x' = Shifted(x, v2)
        /\ n' = (IF n = 3 THEN 0 ELSE n + 1) /\ (n # 3 => dst' = dst)
    BY <1>12, <2>2, Zenon
  <2>4. n' = 2 /\ dst' = dst /\ j' = 3
    BY <1>13, <1>16, <2>2, <2>3, SMT
  <2>5. Low6(x) = v1
    BY <1>3, <1>10, <1>16 DEF DecodedTo
  <2>6. Low12(x') = Join(v1, v2)
    BY <1>6, <2>5, <2>3, BitsShifted, Zenon
  <2>7. DecodedTo(g)'
    <3>1. i' = 4 * g + n'
      BY <1>1, <1>6, <1>16, <2>4
    <3>2. Len(dst') = (IF 3 * g <= Len(input') THEN 3 * g ELSE Len(input'))
          /\ \A p \in 1 .. Len(dst') : dst'[p] = input'[p]
      BY <1>1, <1>4, <1>7, <1>8, <2>4
    <3>3. (n' < 3 /\ i' < slen' => j' = 3) /\ (n' = 3 => j' = IF 3 * g + 2 <= Len(input') THEN 3 ELSE 2)
      BY <1>1, <1>4, <2>4
    <3>4. n' = 2 => Low12(x') = Join(v1, v2)
      BY <2>6
    <3> QED
      BY <1>1, <1>10, <2>4, <3>1, <3>2, <3>3, <3>4, SMTT(30) DEF DecodedTo
  <2> QED
    BY <1>1, <1>2, <2>7 DEF TripInv, GroupsInv, TextInv, BackInv, RoundTrip
<1>17. CASE n = 2
  <2>1. Byte(i) = src[4 * g + 3]
    BY <1>11, <1>17
  <2>2. Carries(Byte(i), v3) /\ (Byte(i) = PAD <=> 3 * g + 2 > L)
    BY <1>9, <1>10, <2>1, Zenon
  <2>3. /\ j' = j - (IF Byte(i) = PAD THEN 1 ELSE 0) /\ x' = Shifted(x, v3)
        /\ n' = (IF n = 3 THEN 0 ELSE n + 1) /\ (n # 3 => dst' = dst)
    BY <1>12, <2>2, Zenon
  <2>4. n' = 3 /\ dst' = dst /\ j' = (IF 3 * g + 2 <= L THEN 3 ELSE 2)
    BY <1>13, <1>17, <2>2, <2>3, SMT
  <2>5. Low12(x) = Join(v1, v2)
    BY <1>3, <1>10, <1>17 DEF DecodedTo
  <2>6. Low18(x') = Join(Join(v1, v2), v3)
    <3>1. Low18(Shifted(x, v3)) = Join(Low12(x), v3)
      BY <1>6, BitsShifted
    <3> QED
      BY <2>3, <2>5, <3>1, Zenon
  <2>7. DecodedTo(g)'
    <3>1. i' = 4 * g + n'
      BY <1>1, <1>6, <1>17, <2>4
    <3>2. Len(dst') = (IF 3 * g <= Len(input') THEN 3 * g ELSE Len(input'))
          /\ \A p \in 1 .. Len(dst') : dst'[p] = input'[p]
      BY <1>1, <1>4, <1>7, <1>8, <2>4
    <3>3. (n' < 3 /\ i' < slen' => j' = 3) /\ (n' = 3 => j' = IF 3 * g + 2 <= Len(input') THEN 3 ELSE 2)
      BY <1>1, <1>4, <2>4
    <3>4. /\ n' # 1 /\ n' # 2
          /\ Low18(x') = Join(Join(V1(input', g), V2(input', g)), V3(input', g))
      BY <1>1, <1>10, <2>4, <2>6
    <3> QED
      BY <3>1, <3>2, <3>3, <3>4, Zenon DEF DecodedTo
  <2> QED
    BY <1>1, <1>2, <2>7 DEF TripInv, GroupsInv, TextInv, BackInv, RoundTrip
<1>18. CASE n = 3
  <2>1. Byte(i) = src[4 * g + 4]
    BY <1>11, <1>18
  <2>2. Carries(Byte(i), v4) /\ (Byte(i) = PAD <=> 3 * g + 3 > L)
    BY <1>9, <1>10, <2>1, Zenon
  <2>3. /\ j' = j - (IF Byte(i) = PAD THEN 1 ELSE 0)
        /\ x' = Shifted(x, v4) /\ x' \in Nat /\ x' < 2^24
        /\ n' = (IF n = 3 THEN 0 ELSE n + 1)
        /\ n = 3 => dst' = dst \o SubSeq(Three(x'), 1, j')
    BY <1>12, <2>2, Zenon
  <2>4. j' = IF 3 * g + 3 <= L THEN 3 ELSE L - 3 * g
    <3>1. j = IF 3 * g + 2 <= L THEN 3 ELSE 2
      BY <1>14, <1>18
    <3>2. j' = j - (IF Byte(i) = PAD THEN 1 ELSE 0)
      BY <2>3
    <3> QED
      BY <1>7, <2>2, <3>1, <3>2
  <2>5. Low18(x) = Join(Join(v1, v2), v3)
    BY <1>3, <1>10, <1>18 DEF DecodedTo
  <2>6. x' = Join(Join(Join(v1, v2), v3), v4)
    <3>1. Shifted(x, v4) = Join(Low18(x), v4)
      BY <1>6, BitsShifted
    <3> QED
      BY <2>3, <2>5, <3>1, Zenon
  <2>7. Three(x') = <<ByteAt(input, 3 * g + 1), ByteAt(input, 3 * g + 2), ByteAt(input, 3 * g + 3)>>
    BY <1>2, <1>10, <2>3, <2>6, GroupTogether, Zenon
  <2>8. PICK k \in 1 .. 3 : k = j' /\ 3 * g + k <= L
    BY <1>7, <2>4
  <2>9. /\ SubSeq(Three(x'), 1, k) \in Seq(Octet) /\ Len(SubSeq(Three(x'), 1, k)) = k
        /\ \A p \in 1 .. k : SubSeq(Three(x'), 1, k)[p] = Three(x')[p]
    <3>1. x' \in Nat /\ x' < 2^24 /\ k \in Int /\ k <= 3 /\ 1 <= k
      BY <2>3, <2>8, SMTT(30)
    <3> QED
      BY <3>1, ThreeBytes
  <2>10. ASSUME NEW p \in 1 .. k PROVE Three(x')[p] = input[3 * g + p]
    <3>1. p = 1 \/ p = 2 \/ p = 3
      BY <2>8
    <3>2. Three(x')[p] = ByteAt(input, 3 * g + p)
      BY <2>7, <3>1
    <3>3. 3 * g + p <= L
      <4>1. p <= k /\ k \in Nat /\ p \in Nat
        OBVIOUS
      <4>2. 3 * g + k <= L
        BY <2>8, Zenon
      <4> QED
        BY <4>1, <4>2
    <3> QED
      BY <1>4, <3>2, <3>3 DEF ByteAt
  <2>11. Len(dst') = 3 * g + k /\ \A p \in 1 .. 3 * g + k : dst'[p] = input[p]
    <3> DEFINE bytes == SubSeq(Three(x'), 1, k)
    <3>1. bytes \in Seq(Octet) /\ Len(bytes) = k /\ dst' = dst \o bytes
      BY <1>18, <2>3, <2>8, <2>9, Zenon
    <3>2. \A p \in 1 .. k : bytes[p] = input[3 * g + p]
      BY <2>9, <2>10
    <3> HIDE DEF bytes
    <3>3. /\ Len(dst') = Len(dst) + Len(bytes)
          /\ \A p \in 1 .. Len(dst) + Len(bytes) :
                dst'[p] = IF p <= Len(dst) THEN dst[p] ELSE bytes[p - Len(dst)]
      BY <1>2, <3>1, ConcatProperties
    <3>4. PICK D \in Nat, B \in Nat : D = Len(dst) /\ B = Len(bytes) /\ D = 3 * g /\ B = k
      BY <1>8, <3>1
    <3>5. \A p \in 1 .. D + B : dst'[p] = IF p <= D THEN dst[p] ELSE bytes[p - D]
      BY <3>3, <3>4, Zenon
    <3>6. ASSUME NEW p \in 1 .. 3 * g + k PROVE dst'[p] = input[p]
      <4>1. dst'[p] = IF p <= D THEN dst[p] ELSE bytes[p - D]
        BY <3>4, <3>5
      <4>2. CASE p <= D
        BY <1>8, <3>4, <4>1, <4>2
      <4>3. CASE ~ (p <= D)
        <5>1. p - D \in 1 .. k /\ 3 * g + (p - D) = p
          BY <3>4, <4>3
        <5> QED
          BY <3>2, <4>1, <4>3, <5>1
      <4> QED
        BY <4>2, <4>3
    <3> QED
      BY <3>3, <3>4, <3>6
  <2>12. /\ i' = 4 * (g + 1) /\ g + 1 \in Nat
         /\ i' < slen' => j' = 3
         /\ 3 * g + k = IF 3 * (g + 1) <= L THEN 3 * (g + 1) ELSE L
    BY <1>1, <1>5, <1>6, <1>18, <2>4, <2>8
  <2>13. DecodedTo(g + 1)'
    <3>1. n' = 0 /\ i' = 4 * (g + 1) + n'
      BY <1>18, <2>3, <2>12
    <3>2. input' = input /\ Len(dst') = IF 3 * (g + 1) <= Len(input) THEN 3 * (g + 1) ELSE Len(input)
      BY <1>1, <1>4, <2>11, <2>12
    <3>3. \A p \in 1 .. Len(dst') : dst'[p] = input[p]
      BY <2>11
    <3>4. n' # 1 /\ n' # 2 /\ n' # 3
      BY <3>1
    <3> QED
      BY <2>12, <3>1, <3>2, <3>3, <3>4, Zenon DEF DecodedTo
  <2> QED
    BY <1>1, <1>2, <2>12, <2>13 DEF TripInv, GroupsInv, TextInv, BackInv, RoundTrip
<1> QED
  BY <1>6, <1>15, <1>16, <1>17, <1>18

(* Behind the last group all the bytes are back.                           *)
LEMMA DecodeEndsTrip ==
    ASSUME BufferInv, TripInv, DecodeEnds
    PROVE  TripInv'
<1>1. /\ pc = "chars" /\ i = slen /\ pc' = "returned" /\ ret' = 0
      /\ UNCHANGED <<input, src, dst>>
  BY DEF DecodeEnds, Return
<1> SUFFICES ASSUME input # <<>> PROVE TripInv'
  BY <1>1 DEF TripInv, GroupsInv, TextInv, BackInv, RoundTrip, Encoding
<1>2. /\ EncodedAs(src, input) /\ input \in Seq(Octet) /\ dst \in Seq(Octet)
      /\ ~ Encoding
  BY <1>1, NotTheInput DEF TripInv, TextInv, BufferInv, TypeInv
<1>3. PICK g \in Nat : DecodedTo(g)
  BY <1>1 DEF TripInv, BackInv
<1>4. PICK L \in Nat : L = Len(input)
  BY <1>2, LenProperties
<1>5. PICK h \in Nat : slen = 4 * h /\ L <= 3 * h /\ 3 * h < L + 3
  BY <1>2, <1>4, GroupsOfLength DEF EncodedAs, slen
<1>6. n \in Nat /\ n < 4 /\ i = 4 * g + n
  BY <1>1, <1>3 DEF DecodedTo, BufferInv, TypeInv, DecodeInv
<1>7. g = h
  BY <1>1, <1>5, <1>6
<1>8. Len(dst) = L /\ \A p \in 1 .. Len(dst) : dst[p] = input[p]
  BY <1>3, <1>4, <1>5, <1>7 DEF DecodedTo
<1>9. dst = input
  BY <1>2, <1>4, <1>8, SeqEqual
<1> QED
  BY <1>1, <1>2, <1>9 DEF TripInv, GroupsInv, TextInv, BackInv, RoundTrip, Encoding

-----------------------------------------------------------------------------
LEMMA TripInit == Init => TripInv
BY DEF Init, TripInv, GroupsInv, TextInv, BackInv, RoundTrip

LEMMA TripNext == BufferInv /\ FormInv' /\ TripInv /\ [Next]_vars => TripInv'
<1> SUFFICES ASSUME BufferInv, FormInv', TripInv, [Next]_vars PROVE TripInv'
  OBVIOUS
<1>1. CASE UNCHANGED vars \/ Finished
  <2>1. UNCHANGED vars
    BY <1>1 DEF Finished
  <2> QED
    BY <2>1 DEF vars, TripInv, GroupsInv, TextInv, BackInv, RoundTrip, DecodedTo, Encoding, slen
<1> QED
  BY <1>1, EncodeBeginsTrip, EncodeGroupTrip, EncodeEndsTrip, DecodeBackTrip, RetryTrip,
     ScanCharTrip, ScanEndsTrip, DecodeCharTrip, DecodeEndsTrip DEF Next

(* What tretap_base64_encode made of the bytes of any input whose sizes    *)
(* fit an unsigned int, tretap_base64_decode turns back into them,         *)
(* whatever sizes the caller offers on the way.                            *)
THEOREM DecodesBack ==
    ASSUME LengthsFit
    PROVE  Spec => []RoundTrip
<1>1. TripInv => RoundTrip
  BY DEF TripInv
<1> QED
  BY <1>1, TripInit, TripNext, BufferInvariance, FormInvariance, PTL DEF Spec

=============================================================================
