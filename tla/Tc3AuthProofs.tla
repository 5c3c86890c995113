---------------------------- MODULE Tc3AuthProofs ----------------------------
(***************************************************************************)
(* Theorems about Tc3Auth: for every set of configurations, every order of *)
(* the lines, every way to end a line that the readers are made for, every *)
(* length of a day and any number of requests under way.                   *)
(***************************************************************************)
EXTENDS Tc3Auth, FiniteSetTheorems, SequenceTheorems, WellFoundedInduction, TLAPS

(* What both loops over the characters of a line leave behind the value.   *)
Left(rest) == CutAtSemicolon(PopCR(rest))

(* A nonempty set of natural numbers has a least element.                  *)
LEMMA LeastOf ==
    ASSUME NEW S \in SUBSET Nat, S # {}
    PROVE  LET least == CHOOSE k \in S : \A j \in S : k <= j
           IN  least \in S /\ \A j \in S : least <= j
<1> DEFINE R == OpToRel(<, Nat)
<1>1. PICK k \in S : \A j \in S : ~ (<<j, k>> \in R)
  BY WFMin, NatLessThanWellFounded, Zenon
<1>2. \A a, b \in Nat : <<b, a>> \in R <=> b < a
  BY DEF OpToRel
<1> HIDE DEF R
<1>3. \A j \in S : ~ (j < k)
  BY <1>1, <1>2
<1>4. \A j \in S : k <= j
  BY <1>3
<1> QED
  BY <1>1, <1>4, Zenon

(* One '\r' at the end is popped, and a ';' in front stays in front.       *)
LEMMA PopCRProperties ==
    ASSUME NEW rest \in Seq(Character)
    PROVE  /\ PopCR(rest) \in Seq(Character)
           /\ rest # <<>> /\ rest[1] = "semicolon" =>
                 PopCR(rest) # <<>> /\ PopCR(rest)[1] = "semicolon"
<1>1. PICK L \in Nat : L = Len(rest)
  BY LenProperties
<1>2. CASE rest # <<>> /\ rest[Len(rest)] = "CR"
  <2>1. L # 0
    BY <1>1, <1>2, EmptySeq
  <2>2. \A k \in 1 .. (L - 1) : rest[k] \in Character
    BY <1>1, ElementOfSeq
  <2>3. PopCR(rest) = SubSeq(rest, 1, L - 1)
    BY <1>1, <1>2 DEF PopCR
  <2>4. /\ PopCR(rest) \in Seq(Character)
        /\ Len(PopCR(rest)) = L - 1
        /\ \A k \in 1 .. L - 1 : PopCR(rest)[k] = rest[k]
    BY <2>1, <2>2, <2>3, SubSeqProperties
  <2>5. ASSUME rest[1] = "semicolon" PROVE PopCR(rest) # <<>> /\ PopCR(rest)[1] = "semicolon"
    <3>1. L # 1
      BY <1>1, <1>2, <2>5
    <3>2. 1 \in 1 .. L - 1 /\ L - 1 # 0
      BY <2>1, <3>1
    <3> QED
      BY <2>4, <2>5, <3>2
  <2> QED
    BY <2>4, <2>5
<1>3. CASE ~ (rest # <<>> /\ rest[Len(rest)] = "CR")
  BY <1>3 DEF PopCR
<1> QED
  BY <1>2, <1>3

(* What comes behind the first ';' goes, and the ';' with it.              *)
LEMMA CutProperties ==
    ASSUME NEW p \in Seq(Character)
    PROVE  /\ CutAtSemicolon(p) \in Seq(Character \ {"semicolon"})
           /\ p = <<>> \/ p[1] = "semicolon" => CutAtSemicolon(p) = <<>>
<1> DEFINE M == {k \in DOMAIN p : p[k] = "semicolon"}
           least == CHOOSE k \in M : \A j \in M : k <= j
<1>1. PICK L \in Nat : L = Len(p) /\ DOMAIN p = 1 .. L
  BY LenProperties
<1>2. CutAtSemicolon(p) = IF M = {} THEN p ELSE SubSeq(p, 1, least - 1)
  BY Zenon DEF CutAtSemicolon
<1>3. M \in SUBSET Nat /\ M \subseteq 1 .. L
  BY <1>1
<1>4. CASE M = {}
  <2>1. \A k \in 1 .. L : p[k] \in Character \ {"semicolon"}
    BY <1>1, <1>4, ElementOfSeq
  <2>2. p \in [1 .. L -> Character \ {"semicolon"}]
    BY <1>1, <2>1, LenProperties
  <2>3. p \in Seq(Character \ {"semicolon"})
    BY <2>2, SeqDef
  <2>4. p[1] = "semicolon" => p = <<>>
    <3>1. L # 0 => p[1] # "semicolon"
      BY <2>1
    <3> QED
      BY <1>1, <3>1, EmptySeq
  <2> QED
    BY <1>2, <1>4, <2>3, <2>4
<1>5. CASE M # {}
  <2>1. least \in M /\ \A j \in M : least <= j
    BY <1>3, <1>5, LeastOf, Zenon
  <2> HIDE DEF least
  <2>2. least \in 1 .. L
    BY <2>1, <1>3
  <2>3. \A k \in 1 .. (least - 1) : k \in 1 .. L /\ k \notin M
    BY <2>1, <2>2
  <2>4. \A k \in 1 .. (least - 1) : p[k] \in Character \ {"semicolon"}
    BY <1>1, <2>3, ElementOfSeq
  <2>5. SubSeq(p, 1, least - 1) \in Seq(Character \ {"semicolon"})
    BY <2>2, <2>4, SubSeqProperties
  <2>6. p = <<>> \/ p[1] = "semicolon" => SubSeq(p, 1, least - 1) = <<>>
    <3>1. ASSUME p[1] = "semicolon" PROVE least = 1
      <4>1. 1 \in M
        BY <1>1, <2>2, <3>1
      <4> QED
        BY <4>1, <2>1, <2>2
    <3>2. p # <<>>
      BY <2>2, <1>1, EmptySeq
    <3>3. least = 1 => SubSeq(p, 1, least - 1) = <<>>
      BY SubSeqEmpty
    <3> QED
      BY <3>1, <3>2, <3>3
  <2> QED
    BY <1>2, <1>5, <2>5, <2>6
<1> QED
  BY <1>4, <1>5

(* No ';' and nothing foreign is left behind a value.                      *)
LEMMA LeftType ==
    ASSUME NEW rest \in Seq(Character)
    PROVE  Left(rest) \in Seq(Character \ {"semicolon"})
BY PopCRProperties, CutProperties DEF Left

(* However a line ends, nothing is left behind the value.                  *)
LEMMA LeftClean ==
    ASSUME NEW rest \in Rests
    PROVE  Left(rest) = <<>>
<1>1. rest \in Seq(Character)
  BY Tc3AuthAssumption
<1>2. CASE rest \in {<<>>, <<"CR">>}
  <2>1. SubSeq(<<"CR">>, 1, 0) = <<>>
    BY SubSeqEmpty
  <2>2. PopCR(rest) = <<>>
    <3>1. CASE rest = <<>>
      BY <3>1 DEF PopCR
    <3>2. CASE rest = <<"CR">>
      <4>1. rest # <<>> /\ Len(rest) = 1 /\ rest[1] = "CR"
        BY <3>2
      <4> QED
        BY <2>1, <3>2, <4>1 DEF PopCR
    <3> QED
      BY <1>2, <3>1, <3>2
  <2> QED
    BY <1>1, <2>2, PopCRProperties, CutProperties DEF Left
<1>3. CASE rest # <<>> /\ rest[1] = "semicolon"
  BY <1>1, <1>3, PopCRProperties, CutProperties DEF Left
<1> QED
  BY <1>2, <1>3, LinesEndCleanly

-----------------------------------------------------------------------------
(* The file of the settings s when n of its lines are on the disk, and     *)
(* what is read of a key then.                                             *)
Written(s, rest, order, n) == SubSeq(Render(s, rest, order), 1, n)

ValueAt(s, rest, order, n, key) ==
    IF \E k \in 1 .. n : order[k] = key THEN Value(s[key], Left(rest)) ELSE EmptyValue

LineFor(s, rest, key) ==
    [key |-> key, value |-> IF key \in Key THEN s[key] ELSE "", rest |-> rest]

LEMMA LineFields ==
    ASSUME NEW s, NEW rest, NEW key
    PROVE  /\ LineFor(s, rest, key).key = key
           /\ LineFor(s, rest, key).rest = rest
           /\ key \in Key => LineFor(s, rest, key).value = s[key]
BY DEF LineFor

LEMMA WrittenLines ==
    ASSUME NEW s, NEW rest, NEW order \in Orders, NEW n \in 0 .. Len(order)
    PROVE  /\ DOMAIN Written(s, rest, order, n) = 1 .. n
           /\ \A k \in 1 .. n :
                 Written(s, rest, order, n)[k] = LineFor(s, rest, order[k])
<1>1. PICK L \in Nat : L = Len(order) /\ DOMAIN order = 1 .. L
  BY Tc3AuthAssumption, LenProperties
<1> DEFINE r == Render(s, rest, order)
           S == {r[k] : k \in 1 .. L}
<1>2. \A k \in 1 .. L : r[k] = LineFor(s, rest, order[k])
  BY <1>1 DEF Render, LineFor
<1> HIDE DEF r
<1>3. n \in Nat /\ \A k \in 1 .. n : k \in 1 .. L /\ r[k] \in S
  BY <1>1
<1> HIDE DEF S
<1>4. /\ SubSeq(r, 1, n) \in Seq(S)
      /\ Len(SubSeq(r, 1, n)) = n
      /\ \A k \in 1 .. n : SubSeq(r, 1, n)[k] = r[k]
  BY <1>3, SubSeqProperties
<1>5. DOMAIN SubSeq(r, 1, n) = 1 .. n
  BY <1>4, LenProperties
<1> QED
  BY <1>2, <1>3, <1>4, <1>5 DEF Written, r

(* All lines are the file, and there are some.                             *)
LEMMA RenderIsWritten ==
    ASSUME NEW s, NEW rest, NEW order \in Orders
    PROVE  /\ Len(order) \in Nat
           /\ Written(s, rest, order, Len(order)) = Render(s, rest, order)
           /\ Render(s, rest, order) # <<>>
<1>1. PICK L \in Nat : L = Len(order) /\ DOMAIN order = 1 .. L
  BY Tc3AuthAssumption, LenProperties
<1> DEFINE r == Render(s, rest, order)
           S == {r[k] : k \in 1 .. L}
<1>2. r = [k \in 1 .. L |-> r[k]]
  BY <1>1 DEF Render
<1>3. "key" \in Key
  BY DEF Key, SecurityKey
<1>4. L # 0
  BY <1>1, <1>3, Tc3AuthAssumption
<1> HIDE DEF r
<1>5. r \in [1 .. L -> S]
  BY <1>2
<1> HIDE DEF S
<1>6. r \in Seq(S) /\ Len(r) = L
  BY <1>1, <1>5, SeqDef, LenProperties
<1>7. SubSeq(r, 1, L) = r /\ r # <<>>
  BY <1>4, <1>6, SubSeqFull, EmptySeq
<1> QED
  BY <1>1, <1>7 DEF Written, r

(* A nonempty set of numbers up to n has a greatest element.               *)
LEMMA GreatestOf ==
    ASSUME NEW n \in Nat, NEW S \in SUBSET (1 .. n), S # {}
    PROVE  LET last == CHOOSE k \in S : \A j \in S : j <= k IN last \in S
<1> DEFINE T == {n - k : k \in S}
           t == CHOOSE k \in T : \A j \in T : k <= j
<1>1. T \in SUBSET Nat /\ T # {}
  OBVIOUS
<1>2. t \in T /\ \A j \in T : t <= j
  <2> HIDE DEF T
  <2> QED
    BY <1>1, LeastOf, Zenon
<1> HIDE DEF t
<1>3. PICK k \in S : t = n - k
  BY <1>2
<1>4. \A j \in S : n - j \in T
  OBVIOUS
<1>5. ASSUME NEW j \in S PROVE j <= k
  <2>1. j \in Int /\ k \in Int /\ t <= n - j
    BY <1>2, <1>4
  <2> QED
    BY <1>3, <2>1
<1> QED
  BY <1>5, Zenon

(* A reader finds the last of the lines of a key, or none; they all say    *)
(* the same.                                                               *)
LEMMA ReadKeyOfWritten ==
    ASSUME NEW s, NEW rest, NEW order \in Orders, NEW n \in 0 .. Len(order),
           NEW key \in Key
    PROVE  ReadKey(Written(s, rest, order, n), key) = ValueAt(s, rest, order, n, key)
<1>1. PICK w : w = Written(s, rest, order, n)
  OBVIOUS
<1>2. n \in Nat
  BY RenderIsWritten
<1>3. DOMAIN w = 1 .. n /\ \A k \in 1 .. n : w[k] = LineFor(s, rest, order[k])
  BY <1>1, WrittenLines
<1> DEFINE K == {k \in DOMAIN w : w[k].key = key}
           last == CHOOSE k \in K : \A j \in K : j <= k
<1>4. ReadKey(w, key) = IF K = {} THEN EmptyValue ELSE LineValue(w[last])
  BY Zenon DEF ReadKey
<1>5. \A k : k \in K <=> k \in 1 .. n /\ order[k] = key
  BY <1>3, LineFields
<1> HIDE DEF K
<1>6. CASE K = {}
  BY <1>1, <1>4, <1>5, <1>6 DEF ValueAt
<1>7. CASE K # {}
  <2>1. K \in SUBSET (1 .. n)
    BY <1>5
  <2>2. last \in K
    BY <1>2, <1>7, <2>1, GreatestOf, Zenon
  <2> HIDE DEF last
  <2>3. last \in 1 .. n /\ order[last] = key
    BY <1>5, <2>2
  <2>4. w[last].value = s[key] /\ w[last].rest = rest
    BY <1>3, <2>3, LineFields
  <2>5. LineValue(w[last]) = Value(s[key], Left(rest))
    BY <2>4 DEF LineValue, Left
  <2>6. ValueAt(s, rest, order, n, key) = Value(s[key], Left(rest))
    BY <2>3 DEF ValueAt
  <2> QED
    BY <1>1, <1>4, <1>7, <2>5, <2>6
<1> QED
  BY <1>6, <1>7

-----------------------------------------------------------------------------
(* What was read for some keys are values of the settings s, those of the  *)
(* first lines of a file: of all lines if the file was a whole one.        *)
ReadsOf(values, keys, s, all) ==
    \E rest \in Rests, order \in Orders : \E n \in 0 .. Len(order) :
        /\ \A key \in keys : values[key] = ValueAt(s, rest, order, n, key)
        /\ all => n = Len(order)

(* The file holds what is saved in s, or the first lines of it while it is *)
(* being written.                                                          *)
FileOf(f, w, s) ==
    \E rest \in Rests, order \in Orders : \E n \in 0 .. Len(order) :
        /\ f = Written(s, rest, order, n)
        /\ w = <<>> => n = Len(order)
        /\ w # <<>> => w = Render(s, rest, order)

(* What is read is of the type of a value.                                 *)
LEMMA ReadsOfType ==
    ASSUME NEW s \in Settings, NEW values, NEW keys \in SUBSET Key, NEW all,
           ReadsOf(values, keys, s, all)
    PROVE  \A key \in keys : ReadValue(values[key])
<1> SUFFICES ASSUME NEW key \in keys PROVE ReadValue(values[key])
  OBVIOUS
<1>1. PICK rest \in Rests, order \in Orders : \E n \in 0 .. Len(order) :
          values[key] = ValueAt(s, rest, order, n, key)
  BY DEF ReadsOf
<1>2. values[key] \in {Value(s[key], Left(rest)), EmptyValue}
  BY <1>1 DEF ValueAt
<1>3. s[key] \in Text
  <2>1. key \in DOMAIN s
    BY Tc3AuthAssumption
  <2>2. s[key] \in {s[k] : k \in DOMAIN s}
    BY <2>1
  <2> QED
    BY <2>2 DEF Text
<1>4. rest \in Seq(Character)
  BY Tc3AuthAssumption
<1>5. Left(rest) \in Seq(Character \ {"semicolon"}) /\ <<>> \in Seq(Character \ {"semicolon"})
  BY <1>4, LeftType, EmptySeq
<1>6. "" \in Text
  BY DEF Text
<1>7. ReadValue(Value(s[key], Left(rest)))
  BY <1>3, <1>5 DEF Value, ReadValue
<1>8. ReadValue(EmptyValue)
  BY <1>5, <1>6 DEF Value, EmptyValue, ReadValue
<1> QED
  BY <1>2, <1>7, <1>8

(* A reader that found all lines has exactly what was saved.               *)
LEMMA WholeRead ==
    ASSUME NEW s, NEW values, NEW keys \in SUBSET Key, ReadsOf(values, keys, s, TRUE),
           NEW key \in keys
    PROVE  values[key] = Value(s[key], <<>>)
<1>1. PICK rest \in Rests, order \in Orders :
          values[key] = ValueAt(s, rest, order, Len(order), key)
  BY DEF ReadsOf
<1>2. \E k \in 1 .. Len(order) : order[k] = key
  BY Tc3AuthAssumption, LenProperties
<1>3. Left(rest) = <<>>
  BY LeftClean
<1> QED
  BY <1>1, <1>2, <1>3 DEF ValueAt

(* Each reader finds the values of one save in the file as it is.          *)
LEMMA FileRead ==
    ASSUME NEW f, NEW w, NEW s, FileOf(f, w, s), NEW keys \in SUBSET Key,
           NEW values, \A key \in keys : values[key] = ReadKey(f, key)
    PROVE  ReadsOf(values, keys, s, w = <<>>)
<1>1. PICK rest \in Rests, order \in Orders : \E n \in 0 .. Len(order) :
          f = Written(s, rest, order, n) /\ (w = <<>> => n = Len(order))
  BY DEF FileOf
<1>2. PICK n \in 0 .. Len(order) :
          f = Written(s, rest, order, n) /\ (w = <<>> => n = Len(order))
  BY <1>1
<1>3. \A key \in keys : values[key] = ValueAt(s, rest, order, n, key)
  BY <1>2, ReadKeyOfWritten
<1> QED
  BY <1>2, <1>3 DEF ReadsOf

LEMMA ReadsWeaker ==
    ASSUME NEW s, NEW values, NEW keys, NEW a, NEW b, b => a, ReadsOf(values, keys, s, a)
    PROVE  ReadsOf(values, keys, s, b)
BY DEF ReadsOf

-----------------------------------------------------------------------------
(* The file is that of the newest save.                                    *)
FileInv == Len(saves) # 0 /\ FileOf(file, writing, saves[Len(saves)])

(* The names come from one save, the credentials, read second, from the    *)
(* same or a later one.                                                    *)
ConfigRead(i)   == ReadsOf(g_file_config.keys, ConfigKey, saves[i], whole)
SecurityRead(j) == ReadsOf(security, SecurityKey, saves[j], whole)

ReadInv ==
    /\ pc = "start" => g_file_config = NoConfig /\ security = NoSecurity
    /\ pc = "address_check" =>
          security = NoSecurity /\ \E i \in DOMAIN saves : ConfigRead(i)
    /\ pc \in {"ready", "signed"} =>
          \E i, j \in DOMAIN saves : i <= j /\ ConfigRead(i) /\ SecurityRead(j)

(* Between signing and sending the members of the object still belong to   *)
(* the payload, and to one reading of the clock.                           *)
SignedInv ==
    pc = "signed" =>
        /\ sent < MaxRequests
        /\ payload = PayloadOf(payload.action)
        /\ request_time_utc = DateOf(request_timestamp)
        /\ request_authorization =
              Authorization(request_timestamp, request_time_utc, payload)

NetInv == CredentialsNotOlder /\ RequestsAccepted

Inv == /\ TypeOK
       /\ IsFiniteSet(net)
       /\ FileInv
       /\ ReadInv
       /\ SignedInv
       /\ NetInv

-----------------------------------------------------------------------------
(* The day of a time is not behind the time.                               *)
LEMMA DateRange ==
    ASSUME NEW t \in 0 .. MaxClock
    PROVE  DateOf(t) \in 0 .. MaxClock
<1>1. DayLength \in Nat \ {0} /\ MaxClock \in Nat /\ t \in Nat
  BY Tc3AuthAssumption
<1>2. t \div DayLength \in Nat /\ t \div DayLength <= t
  BY <1>1
<1> QED
  BY <1>1, <1>2 DEF DateOf

(* The newest save is one of the saves.                                    *)
LEMMA NewestSave ==
    ASSUME NEW v \in Seq(Settings)
    PROVE  /\ Len(v) \in Nat /\ DOMAIN v = 1 .. Len(v)
           /\ Len(v) # 0 => Len(v) \in DOMAIN v
           /\ \A i \in DOMAIN v : v[i] \in Settings /\ i <= Len(v)
BY LenProperties, ElementOfSeq

ConfigTypeOK ==
    /\ \A key \in ConfigKey : ReadValue(g_file_config.keys[key])
    /\ \A key \in SecurityKey : ReadValue(security[key])

LEMMA ConfigType ==
    saves \in Seq(Settings) /\ pc \in {"start", "address_check", "ready", "signed"} /\ ReadInv
        => ConfigTypeOK
<1> SUFFICES ASSUME saves \in Seq(Settings), ReadInv,
                    pc \in {"start", "address_check", "ready", "signed"}
             PROVE  ConfigTypeOK
  OBVIOUS
<1>1. ReadValue(EmptyValue)
  BY EmptySeq DEF ReadValue, EmptyValue, Value, Text
<1>2. /\ g_file_config = NoConfig => \A key \in ConfigKey : ReadValue(g_file_config.keys[key])
      /\ security = NoSecurity => \A key \in SecurityKey : ReadValue(security[key])
  <2>1. NoConfig.keys = [key \in ConfigKey |-> EmptyValue]
    BY DEF NoConfig
  <2> QED
    BY <1>1, <2>1 DEF NoSecurity
<1>3. ConfigKey \in SUBSET Key /\ SecurityKey \in SUBSET Key
  BY DEF Key
<1>4. \A i \in DOMAIN saves : ConfigRead(i) =>
          \A key \in ConfigKey : ReadValue(g_file_config.keys[key])
  BY <1>3, NewestSave, ReadsOfType DEF ConfigRead
<1>5. \A j \in DOMAIN saves : SecurityRead(j) =>
          \A key \in SecurityKey : ReadValue(security[key])
  BY <1>3, NewestSave, ReadsOfType DEF SecurityRead
<1> QED
  BY <1>2, <1>4, <1>5 DEF ReadInv, ConfigTypeOK

-----------------------------------------------------------------------------
LEMMA InvInit == Init => Inv
<1> SUFFICES ASSUME Init PROVE Inv
  OBVIOUS
<1> USE DEF Init
<1>1. PICK s \in Settings, rest \in Rests, order \in Orders :
          file = Render(s, rest, order) /\ saves = <<s>>
  OBVIOUS
<1>2. saves \in Seq(Settings) /\ Len(saves) = 1 /\ saves[1] = s
  BY <1>1
<1>3. FileInv
  <2>1. file = Written(s, rest, order, Len(order)) /\ Len(order) \in 0 .. Len(order)
    BY <1>1, RenderIsWritten
  <2>2. FileOf(file, writing, s)
    BY <2>1 DEF FileOf
  <2> QED
    BY <1>2, <2>2 DEF FileInv
<1>4. ReadInv /\ SignedInv
  BY DEF ReadInv, SignedInv
<1>5. IsFiniteSet(net) /\ Cardinality(net) = 0
  BY FS_EmptySet
<1>6. TypeOK
  <2>1. MaxClock \in Nat /\ MaxRequests \in Nat /\ MaxInFlight \in Nat
    BY Tc3AuthAssumption
  <2>2. ConfigTypeOK
    BY <1>2, <1>4, ConfigType
  <2>3. clock \in 0 .. MaxClock /\ request_timestamp \in 0 .. MaxClock
        /\ request_time_utc \in 0 .. MaxClock /\ sent \in 0 .. MaxRequests
        /\ Cardinality(net) <= MaxInFlight
    BY <1>5, <2>1
  <2> QED
    BY <1>2, <2>2, <2>3 DEF TypeOK, ConfigTypeOK
<1>7. NetInv
  BY DEF NetInv, CredentialsNotOlder, RequestsAccepted
<1> QED
  BY <1>3, <1>4, <1>5, <1>6, <1>7 DEF Inv

(* The requests under way keep what they were sent with.                   *)
LEMMA NetKept ==
    ASSUME NetInv, net' \subseteq net, DOMAIN saves \subseteq DOMAIN saves',
           \A i \in DOMAIN saves : saves'[i] = saves[i]
    PROVE  NetInv'
<1>1. ASSUME NEW m \in net', m.whole
      PROVE  \E i, j \in DOMAIN saves' :
                 i <= j /\ NamedIn(m, saves'[i]) /\ SignedAs(m, saves'[j])
  BY <1>1 DEF NetInv, CredentialsNotOlder
<1>2. ASSUME NEW m \in net', m.whole PROVE Verifies(m)
  BY <1>2 DEF NetInv, RequestsAccepted
<1> QED
  BY <1>1, <1>2 DEF NetInv, CredentialsNotOlder, RequestsAccepted

(* A step that reads the configuration.                                    *)
LEMMA ReadConfigInv ==
    ASSUME Inv, ReadConfig
    PROVE  Inv'
<1> USE DEF Inv, ReadConfig, env, object
<1>1. FileInv'
  BY DEF FileInv
<1>2. \A key \in ConfigKey : g_file_config'.keys[key] = ReadKey(file, key)
  BY DEF file_config_read
<1>3. ReadInv'
  <2>1. ConfigKey \in SUBSET Key
    BY DEF Key
  <2>2. FileOf(file, writing, saves[Len(saves)]) /\ Len(saves) \in DOMAIN saves
    BY NewestSave DEF FileInv, TypeOK
  <2>3. ReadsOf(g_file_config'.keys, ConfigKey, saves[Len(saves)], writing = <<>>)
    <3>1. PICK values : values = g_file_config'.keys
      OBVIOUS
    <3>2. \A key \in ConfigKey : values[key] = ReadKey(file, key)
      BY <1>2, <3>1
    <3>3. ReadsOf(values, ConfigKey, saves[Len(saves)], writing = <<>>)
      BY <2>1, <2>2, <3>2, FileRead
    <3> QED
      BY <3>1, <3>3
  <2>4. ConfigRead(Len(saves))'
    BY <2>3 DEF ConfigRead
  <2> QED
    BY <2>2, <2>4 DEF ReadInv
<1>4. SignedInv'
  BY DEF SignedInv
<1>5. TypeOK'
  <2>1. (saves \in Seq(Settings))' /\ (pc \in {"start", "address_check", "ready", "signed"})'
    BY DEF TypeOK
  <2>2. ConfigTypeOK'
    BY <1>3, <2>1, ConfigType, PTL
  <2> QED
    BY <2>1, <2>2 DEF TypeOK, ConfigTypeOK
<1>6. NetInv'
  BY NetKept
<1> QED
  BY <1>1, <1>3, <1>4, <1>5, <1>6

(* The constructor reads the file again: that of the newest save, which is *)
(* not older than the one the names come from.                             *)
LEMMA ConstructInv ==
    ASSUME Inv, Construct
    PROVE  Inv'
<1> USE DEF Inv, Construct, env, object
<1>1. FileInv'
  BY DEF FileInv
<1>2. ReadInv'
  <2>1. SecurityKey \in SUBSET Key
    BY DEF Key
  <2>2. FileOf(file, writing, saves[Len(saves)]) /\ Len(saves) \in DOMAIN saves
        /\ \A k \in DOMAIN saves : k <= Len(saves)
    BY NewestSave DEF FileInv, TypeOK
  <2>3. PICK i \in DOMAIN saves : ConfigRead(i)
    BY DEF ReadInv
  <2>4. (whole' => whole) /\ (whole' => writing = <<>>)
    OBVIOUS
  <2>5. ConfigRead(i)'
    BY <2>3, <2>4, ReadsWeaker DEF ConfigRead
  <2>6. \A key \in SecurityKey : security'[key] = ReadKey(file, key)
    BY DEF file_security_config_read
  <2>7. ReadsOf(security', SecurityKey, saves[Len(saves)], writing = <<>>)
    <3>1. PICK values : values = security'
      OBVIOUS
    <3>2. \A key \in SecurityKey : values[key] = ReadKey(file, key)
      BY <2>6, <3>1
    <3>3. ReadsOf(values, SecurityKey, saves[Len(saves)], writing = <<>>)
      BY <2>1, <2>2, <3>2, FileRead
    <3> QED
      BY <3>1, <3>3
  <2>8. SecurityRead(Len(saves))'
    BY <2>4, <2>7, ReadsWeaker DEF SecurityRead
  <2> QED
    BY <2>2, <2>3, <2>5, <2>8 DEF ReadInv
<1>3. SignedInv'
  BY DEF SignedInv
<1>4. TypeOK'
  <2>1. (saves \in Seq(Settings))' /\ (pc \in {"start", "address_check", "ready", "signed"})'
    BY DEF TypeOK
  <2>2. ConfigTypeOK'
    BY <1>2, <2>1, ConfigType, PTL
  <2>3. whole' \in BOOLEAN
    BY DEF TypeOK
  <2> QED
    BY <2>1, <2>2, <2>3 DEF TypeOK, ConfigTypeOK
<1>5. NetInv'
  BY NetKept
<1> QED
  BY <1>1, <1>2, <1>3, <1>4, <1>5

(* Signing takes timestamp and date from one reading of the clock.         *)
LEMMA AuthorizeInv ==
    ASSUME Inv, NEW action, Authorize(action)
    PROVE  Inv'
<1> USE DEF Inv, Authorize, env, object
<1>1. FileInv'
  BY DEF FileInv
<1>2. ReadInv'
  BY DEF ReadInv, ConfigRead, SecurityRead
<1>3. SignedInv'
  <2>1. payload'.action = action
    BY DEF PayloadOf
  <2>2. payload' = PayloadOf(payload.action)'
    BY <2>1 DEF PayloadOf
  <2>3. request_time_utc' = DateOf(request_timestamp)'
    BY DEF DateOf
  <2>4. request_authorization' =
            Authorization(request_timestamp, request_time_utc, payload)'
    BY DEF Authorization
  <2> QED
    BY <2>1, <2>2, <2>3, <2>4 DEF SignedInv
<1>4. TypeOK'
  <2>1. request_time_utc' \in 0 .. MaxClock
    BY DateRange DEF TypeOK
  <2> QED
    BY <2>1 DEF TypeOK
<1>5. NetInv'
  BY NetKept
<1> QED
  BY <1>1, <1>2, <1>3, <1>4, <1>5

(* The process ends.                                                       *)
LEMMA ExitInv ==
    ASSUME Inv, Exit
    PROVE  Inv'
<1> USE DEF Inv, Exit, env, object
<1>1. FileInv'
  BY DEF FileInv
<1>2. ReadInv' /\ SignedInv'
  BY DEF ReadInv, SignedInv
<1>3. TypeOK'
  <2>1. (saves \in Seq(Settings))' /\ (pc \in {"start", "address_check", "ready", "signed"})'
    BY DEF TypeOK
  <2>2. ConfigTypeOK'
    BY <1>2, <2>1, ConfigType, PTL
  <2>3. 0 \in 0 .. MaxClock /\ 0 \in 0 .. MaxRequests
    BY Tc3AuthAssumption
  <2> QED
    BY <2>1, <2>2, <2>3 DEF TypeOK, ConfigTypeOK
<1>4. NetInv'
  BY NetKept
<1> QED
  BY <1>1, <1>2, <1>3, <1>4

(* Somebody saves a file, or time passes: the process keeps what it read,  *)
(* and the saves that came from keep their places.                         *)
LEMMA OutsideInv ==
    ASSUME Inv, saves' \in Seq(Settings), DOMAIN saves \subseteq DOMAIN saves',
           \A i \in DOMAIN saves : saves'[i] = saves[i],
           clock' \in 0 .. MaxClock, FileInv',
           UNCHANGED <<g_file_config, object, whole, payload, sent, pc, net>>
    PROVE  Inv'
<1> USE DEF Inv, object
<1>1. ReadInv'
  <2>1. \A i \in DOMAIN saves : /\ ConfigRead(i)' <=> ConfigRead(i)
                                /\ SecurityRead(i)' <=> SecurityRead(i)
    BY DEF ConfigRead, SecurityRead
  <2> QED
    BY <2>1 DEF ReadInv
<1>2. SignedInv'
  BY DEF SignedInv, PayloadOf, Authorization, DateOf
<1>3. TypeOK'
  BY DEF TypeOK
<1>4. NetInv'
  BY NetKept
<1> QED
  BY <1>1, <1>2, <1>3, <1>4

(* A save is put behind the earlier ones.                                  *)
LEMMA SaveAppends ==
    ASSUME NEW v \in Seq(Settings), NEW s \in Settings
    PROVE  /\ Append(v, s) \in Seq(Settings)
           /\ DOMAIN v \subseteq DOMAIN Append(v, s)
           /\ \A i \in DOMAIN v : Append(v, s)[i] = v[i]
           /\ Len(Append(v, s)) # 0 /\ Append(v, s)[Len(Append(v, s))] = s
<1>1. PICK N \in Nat : N = Len(v) /\ DOMAIN v = 1 .. N
  BY LenProperties
<1>2. PICK w : w = Append(v, s)
  OBVIOUS
<1>3. /\ w \in Seq(Settings) /\ Len(w) = N + 1 /\ w[N + 1] = s
      /\ \A i \in 1 .. N : w[i] = v[i]
  BY <1>1, <1>2, AppendProperties
<1>4. DOMAIN w = 1 .. N + 1
  BY <1>3, LenProperties
<1> QED
  BY <1>1, <1>2, <1>3, <1>4

LEMMA SavesInv ==
    ASSUME Inv, Tick \/ Save \/ SaveBegins \/ SaveEnds
    PROVE  Inv'
<1> USE DEF Inv
<1>0. saves \in Seq(Settings)
  BY DEF TypeOK
<1>1. CASE Tick
  <2>1. FileInv'
    BY <1>1 DEF Tick, FileInv
  <2>2. clock' \in 0 .. MaxClock
    BY <1>1, Tc3AuthAssumption DEF Tick, TypeOK
  <2> QED
    BY <1>0, <1>1, <2>1, <2>2, OutsideInv DEF Tick
<1>2. CASE Save
  <2>1. PICK s \in Settings, rest \in Rests, order \in Orders :
            file' = Render(s, rest, order) /\ saves' = Append(saves, s)
    BY <1>2 DEF Save
  <2>2. /\ saves' \in Seq(Settings) /\ DOMAIN saves \subseteq DOMAIN saves'
        /\ \A i \in DOMAIN saves : saves'[i] = saves[i]
        /\ Len(saves') # 0 /\ saves'[Len(saves')] = s
    BY <1>0, <2>1, SaveAppends
  <2>3. file' = Written(s, rest, order, Len(order)) /\ Len(order) \in 0 .. Len(order)
    BY <2>1, RenderIsWritten
  <2>4. writing' = <<>>
    BY <1>2 DEF Save
  <2>5. FileOf(file', writing', s)
    BY <2>3, <2>4 DEF FileOf
  <2>6. FileInv'
    BY <2>2, <2>5 DEF FileInv
  <2>7. /\ clock' \in 0 .. MaxClock
        /\ UNCHANGED <<g_file_config, object, whole, payload, sent, pc, net>>
    BY <1>2 DEF Save, TypeOK
  <2> QED
    BY <2>2, <2>6, <2>7, OutsideInv
<1>3. CASE SaveBegins
  <2>1. PICK s \in Settings, rest \in Rests, order \in Orders, n \in Cuts :
            /\ n < Len(order)
            /\ writing' = Render(s, rest, order)
            /\ file' = Written(s, rest, order, n)
            /\ saves' = Append(saves, s)
    BY <1>3 DEF SaveBegins, Written
  <2>2. /\ saves' \in Seq(Settings) /\ DOMAIN saves \subseteq DOMAIN saves'
        /\ \A i \in DOMAIN saves : saves'[i] = saves[i]
        /\ Len(saves') # 0 /\ saves'[Len(saves')] = s
    BY <1>0, <2>1, SaveAppends
  <2>3. n \in 0 .. Len(order) /\ writing' # <<>>
    BY <2>1, RenderIsWritten, Tc3AuthAssumption
  <2>4. FileOf(file', writing', s)
    BY <2>1, <2>3 DEF FileOf
  <2>5. FileInv'
    BY <2>2, <2>4 DEF FileInv
  <2>6. /\ clock' \in 0 .. MaxClock
        /\ UNCHANGED <<g_file_config, object, whole, payload, sent, pc, net>>
    BY <1>3 DEF SaveBegins, TypeOK
  <2> QED
    BY <2>2, <2>5, <2>6, OutsideInv
<1>4. CASE SaveEnds
  <2>1. PICK s : s = saves[Len(saves)]
    OBVIOUS
  <2>2. PICK rest \in Rests, order \in Orders : file' = Render(s, rest, order)
    BY <1>4, <2>1 DEF SaveEnds, FileInv, FileOf
  <2>3. file' = Written(s, rest, order, Len(order)) /\ Len(order) \in 0 .. Len(order)
    BY <2>2, RenderIsWritten
  <2>4. FileOf(file', <<>>, s)
    BY <2>3 DEF FileOf
  <2>5. FileInv'
    BY <1>4, <2>1, <2>4 DEF SaveEnds, FileInv
  <2> QED
    BY <1>0, <1>4, <2>5, OutsideInv DEF SaveEnds, TypeOK
<1> QED
  BY <1>1, <1>2, <1>3, <1>4

-----------------------------------------------------------------------------
(* A request about to be sent, of a process that met whole files only, has *)
(* the names of one save and the account of the same or of a later one.    *)
LEMMA SignedByLater ==
    ASSUME Inv, pc = "signed", whole, NEW m, m.payload = payload,
           m.authorization = request_authorization
    PROVE  \E i, j \in DOMAIN saves :
               i <= j /\ NamedIn(m, saves[i]) /\ SignedAs(m, saves[j])
<1>1. PICK i \in DOMAIN saves, j \in DOMAIN saves :
          i <= j /\ ConfigRead(i) /\ SecurityRead(j)
  BY DEF Inv, ReadInv
<1>2. ConfigKey \in SUBSET Key /\ SecurityKey \in SUBSET Key
  BY DEF Key
<1>3. /\ ReadsOf(g_file_config.keys, ConfigKey, saves[i], TRUE)
      /\ ReadsOf(security, SecurityKey, saves[j], TRUE)
  BY <1>1, ReadsWeaker DEF ConfigRead, SecurityRead
<1>4. /\ g_file_config.keys["domain_name"] = Value(saves[i]["domain_name"], <<>>)
      /\ g_file_config.keys["domain_subname"] = Value(saves[i]["domain_subname"], <<>>)
  BY <1>2, <1>3, WholeRead DEF ConfigKey
<1>5. security["keyid"] = Value(saves[j]["keyid"], <<>>)
  BY <1>2, <1>3, WholeRead DEF SecurityKey
<1>6. /\ payload.action # "DescribeDomainList" =>
            payload.domain = g_file_config.keys["domain_name"]
      /\ payload.action \in {"DescribeRecordFilterList", "ModifyRecord"} =>
            payload.sub = g_file_config.keys["domain_subname"]
  BY DEF Inv, SignedInv, PayloadOf
<1>7. request_authorization.id = security["keyid"]
  BY DEF Inv, SignedInv, Authorization
<1>8. NamedIn(m, saves[i]) /\ SignedAs(m, saves[j])
  BY <1>4, <1>5, <1>6, <1>7 DEF NamedIn, SignedAs
<1> QED
  BY <1>1, <1>8

(* Such a request verifies: what was signed is what is sent, with the key  *)
(* that belongs to the id.                                                 *)
LEMMA SignedVerifies ==
    ASSUME Inv, pc = "signed", whole, NEW m,
           m.authorization = request_authorization,
           m.content_type = "application/json",
           m.timestamp = request_timestamp,
           m.payload = payload
    PROVE  Verifies(m)
<1>1. PICK j \in DOMAIN saves : ReadsOf(security, SecurityKey, saves[j], TRUE)
  BY ReadsWeaker DEF Inv, ReadInv, SecurityRead
<1>2. PICK s : s = saves[j]
  OBVIOUS
<1>3. security["key"] = Value(s["key"], <<>>) /\ security["keyid"] = Value(s["keyid"], <<>>)
  <2>1. SecurityKey \in SUBSET Key /\ "key" \in SecurityKey /\ "keyid" \in SecurityKey
    BY DEF SecurityKey, Key
  <2>2. ReadsOf(security, SecurityKey, s, TRUE)
    BY <1>1, <1>2
  <2> QED
    BY <2>1, <2>2, WholeRead
<1>4. s["keyid"] \in DOMAIN Accounts /\ Accounts[s["keyid"]] = s["key"]
  <2>1. s \in Settings
    BY <1>1, <1>2, NewestSave DEF Inv, TypeOK
  <2> QED
    BY <2>1, Tc3AuthAssumption
<1>5. security["keyid"].text = s["keyid"] /\ security["keyid"].extra = <<>>
  BY <1>3 DEF Value
<1>6. /\ request_authorization.id = security["keyid"]
      /\ request_authorization.scope = <<DateOf(request_timestamp), "dnspod">>
      /\ request_authorization.signature =
            Signature(security["key"], DateOf(request_timestamp),
               StringToSign(request_timestamp, DateOf(request_timestamp),
                  Canonical("POST", "application/json", Sha256(payload))))
  BY DEF Inv, SignedInv, Authorization
<1> QED
  BY <1>3, <1>4, <1>5, <1>6 DEF Verifies

LEMMA SendInv ==
    ASSUME Inv, Send
    PROVE  Inv'
<1> DEFINE m == [authorization |-> request_authorization,
                 content_type  |-> "application/json",
                 timestamp     |-> request_timestamp,
                 payload       |-> payload,
                 whole         |-> whole]
<1> USE DEF Inv, Send, env, object
<1>1. FileInv'
  BY DEF FileInv
<1>2. ReadInv' /\ SignedInv'
  BY DEF ReadInv, SignedInv, ConfigRead, SecurityRead
<1>3. IsFiniteSet(net)' /\ Cardinality(net)' <= MaxInFlight
  <2>1. /\ IsFiniteSet(net \cup {m})
        /\ Cardinality(net \cup {m}) = IF m \in net THEN Cardinality(net)
                                                    ELSE Cardinality(net) + 1
    BY FS_AddElement
  <2>2. Cardinality(net) \in Nat /\ MaxInFlight \in Nat
    BY FS_CardinalityType, Tc3AuthAssumption
  <2> QED
    BY <2>1, <2>2
<1>4. TypeOK'
  <2>1. sent' \in 0 .. MaxRequests
    BY Tc3AuthAssumption DEF TypeOK, SignedInv
  <2> QED
    BY <1>3, <2>1 DEF TypeOK
<1>5. NetInv'
  <2>1. /\ m.authorization = request_authorization
        /\ m.content_type = "application/json"
        /\ m.timestamp = request_timestamp
        /\ m.payload = payload
        /\ m.whole = whole
    OBVIOUS
  <2> HIDE DEF m
  <2>2. m.whole => Verifies(m)
    BY <2>1, SignedVerifies
  <2>3. m.whole => \E i, j \in DOMAIN saves :
                       i <= j /\ NamedIn(m, saves[i]) /\ SignedAs(m, saves[j])
    BY <2>1, SignedByLater
  <2>4. net' = net \cup {m} /\ saves' = saves
    BY DEF m
  <2> QED
    BY <2>2, <2>3, <2>4 DEF NetInv, CredentialsNotOlder, RequestsAccepted
<1> QED
  BY <1>1, <1>2, <1>3, <1>4, <1>5

(* A request is handled or lost.                                           *)
LEMMA ReceiveInv ==
    ASSUME Inv, NEW m \in net, Receive(m)
    PROVE  Inv'
<1> USE DEF Inv, Receive, env, object
<1>1. FileInv' /\ ReadInv' /\ SignedInv'
  BY DEF FileInv, ReadInv, ConfigRead, SecurityRead, SignedInv, PayloadOf, Authorization,
         DateOf
<1>2. IsFiniteSet(net)' /\ Cardinality(net)' <= MaxInFlight
  <2>1. IsFiniteSet(net \ {m}) /\ Cardinality(net \ {m}) <= Cardinality(net)
    BY FS_Subset
  <2>2. /\ Cardinality(net) \in Nat /\ Cardinality(net \ {m}) \in Nat
        /\ MaxInFlight \in Nat
    BY <2>1, FS_CardinalityType, Tc3AuthAssumption
  <2> QED
    BY <2>1, <2>2 DEF TypeOK
<1>3. TypeOK'
  BY <1>2 DEF TypeOK
<1>4. NetInv'
  BY NetKept
<1> QED
  BY <1>1, <1>2, <1>3, <1>4

LEMMA InvNext == Inv /\ [Next]_vars => Inv'
<1> SUFFICES ASSUME Inv, [Next]_vars PROVE Inv'
  OBVIOUS
<1>1. CASE Next
  BY <1>1, ReadConfigInv, ConstructInv, AuthorizeInv, SendInv, ExitInv, ReceiveInv, SavesInv
     DEF Next
<1>2. CASE UNCHANGED vars
  <2>1. saves' = saves /\ saves' \in Seq(Settings) /\ clock' \in 0 .. MaxClock
    BY <1>2 DEF vars, Inv, TypeOK
  <2>2. FileInv'
    BY <1>2 DEF vars, Inv, FileInv
  <2> QED
    BY <1>2, <2>1, <2>2, OutsideInv DEF vars, object
<1> QED
  BY <1>1, <1>2

LEMMA Invariance == Spec => []Inv
BY InvInit, InvNext, PTL DEF Spec

-----------------------------------------------------------------------------
(* Every variable keeps its type; what the two readers return is a text    *)
(* somebody configured without a ';' behind it, whatever part of a file    *)
(* is on the disk when they read it, and in whatever order its lines are.  *)
THEOREM TypeCorrect == Spec => []TypeOK
<1>1. Inv => TypeOK
  BY DEF Inv
<1> QED
  BY <1>1, Invariance, PTL

(* A request of a process that met no half-written file names the domain   *)
(* and sub-domain of one save and is signed with the account of the same   *)
(* or of a later one, whatever is saved while the process runs.            *)
THEOREM CredentialsFollowNames == Spec => []CredentialsNotOlder
<1>1. Inv => CredentialsNotOlder
  BY DEF Inv, NetInv
<1> QED
  BY <1>1, Invariance, PTL

(* The service accepts every request of such a process, whenever it looks  *)
(* at it and however the clock went on between signing and sending.        *)
THEOREM AcceptedByService == Spec => []RequestsAccepted
<1>1. Inv => RequestsAccepted
  BY DEF Inv, NetInv
<1> QED
  BY <1>1, Invariance, PTL

=============================================================================
