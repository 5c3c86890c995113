---------------------------- MODULE CJsonProofs ------------------------------
(***************************************************************************)
(* The parser of CJson, as ResponseDecode uses it: for every text, cut off *)
(* anywhere, and whichever malloc fails, it loses no node and no buffer,   *)
(* and a text that was cut off it never takes for a document.              *)
(***************************************************************************)
EXTENDS ResponseTextProofs, FiniteSetTheorems

-----------------------------------------------------------------------------
(* One round of what tretap_CJson_Delete visits, and all of them.          *)
Wider(h, seen) ==
    (seen \cup {h[k].child : k \in seen} \cup {h[k].next : k \in seen}) \ {NoNode}

IsRounds(v, h, c, N) ==
    v = [n \in 0 .. N |-> IF n = 0 THEN {c} \ {NoNode} ELSE Wider(h, v[n - 1])]

Rounds(h, c, N) == CHOOSE v : IsRounds(v, h, c, N)

LEMMA VisitedByRounds ==
    ASSUME NEW h, NEW c
    PROVE  Visited(h, c) = Rounds(h, c, Len(h))[Len(h)]
BY DEF Visited, Rounds, IsRounds, Wider

(* The recursive function of Visited exists: a longest run of rounds that  *)
(* could not be extended would be a least one that does not exist.         *)
LEMMA RoundsExist ==
    ASSUME NEW h, NEW c, NEW N \in Nat
    PROVE  \E v : IsRounds(v, h, c, N)
<1> DEFINE Solved(M) == \E v : IsRounds(v, h, c, M)
           Unsolved == {M \in Nat : ~ Solved(M)}
<1> SUFFICES ASSUME Unsolved # {} PROVE FALSE
  OBVIOUS
<1>1. PICK M \in Unsolved : \A K \in Unsolved : M <= K
  BY LeastNat
<1>2. CASE M = 0
  <2>1. PICK v : v = [n \in 0 .. 0 |-> {c} \ {NoNode}]
    OBVIOUS
  <2>2. v = [n \in 0 .. 0 |-> IF n = 0 THEN {c} \ {NoNode} ELSE Wider(h, v[n - 1])]
    BY <2>1
  <2> QED
    BY <1>1, <1>2, <2>2 DEF IsRounds
<1>3. CASE M # 0
  <2>1. M - 1 \in Nat /\ ~ (M <= M - 1)
    BY <1>1, <1>3
  <2>2. Solved(M - 1)
    BY <1>1, <2>1
  <2>3. PICK v : v = [n \in 0 .. M - 1 |-> IF n = 0 THEN {c} \ {NoNode} ELSE Wider(h, v[n - 1])]
    BY <2>2 DEF IsRounds
  <2> DEFINE w == [n \in 0 .. M |-> IF n = M THEN Wider(h, v[M - 1]) ELSE v[n]]
  <2>4. ASSUME NEW n \in 0 .. M
        PROVE  w[n] = IF n = 0 THEN {c} \ {NoNode} ELSE Wider(h, w[n - 1])
    <3>1. CASE n = 0
      BY <1>1, <1>3, <2>3, <3>1
    <3>2. CASE n # 0
      <4>1. n - 1 \in 0 .. M /\ n - 1 # M /\ n - 1 \in 0 .. M - 1
        BY <1>1, <3>2
      <4>2. w[n - 1] = v[n - 1]
        BY <4>1
      <4>3. CASE n = M
        BY <3>2, <4>2, <4>3
      <4>4. CASE n # M
        <5>1. n \in 0 .. M - 1
          BY <1>1, <4>4
        <5>2. v[n] = Wider(h, v[n - 1])
          BY <2>3, <3>2, <5>1
        <5> QED
          BY <3>2, <4>2, <4>4, <5>2
      <4> QED
        BY <4>3, <4>4
    <3> QED
      BY <3>1, <3>2
  <2>5. w = [n \in 0 .. M |-> IF n = 0 THEN {c} \ {NoNode} ELSE Wider(h, w[n - 1])]
    <3>1. w = [n \in 0 .. M |-> w[n]]
      OBVIOUS
    <3> HIDE DEF w
    <3> QED
      BY <2>4, <3>1
  <2> HIDE DEF w
  <2>6. Solved(M)
    BY <2>5 DEF IsRounds
  <2> QED
    BY <1>1, <2>6
<1> QED
  BY <1>2, <1>3

LEMMA RoundsOf ==
    ASSUME NEW h, NEW c, NEW N \in Nat
    PROVE  /\ Rounds(h, c, N)[0] = {c} \ {NoNode}
           /\ \A n \in 1 .. N : Rounds(h, c, N)[n] = Wider(h, Rounds(h, c, N)[n - 1])
<1>1. \E v : IsRounds(v, h, c, N)
  BY RoundsExist
<1>2. IsRounds(Rounds(h, c, N), h, c, N)
  BY <1>1, Zenon DEF Rounds
<1>3. PICK r : r = Rounds(h, c, N)
  OBVIOUS
<1>4. r = [n \in 0 .. N |-> IF n = 0 THEN {c} \ {NoNode} ELSE Wider(h, r[n - 1])]
  BY <1>2, <1>3 DEF IsRounds
<1>5. r[0] = {c} \ {NoNode}
  BY <1>4
<1>6. ASSUME NEW n \in 1 .. N PROVE r[n] = Wider(h, r[n - 1])
  <2>1. n \in 0 .. N /\ n # 0
    OBVIOUS
  <2> QED
    BY <1>4, <2>1
<1> QED
  BY <1>3, <1>5, <1>6

-----------------------------------------------------------------------------
(* The nodes of a document, and what the parser has built of them: all of  *)
(* them live, each but the root hung up below or behind an older one.      *)
Strs(d) == {Null} \cup {d[k].text : k \in DOMAIN d}

Types == {"False", "NULL", "True", "Number", "String", "Array", "Object"}

Node(d) == [live : BOOLEAN, type : Types, child : Nat, next : Nat, prev : Nat,
            string : Strs(d), valuestring : Strs(d), valueint : Int, valuedouble : Int]

Inside(h) == \A k \in 1 .. Len(h) : h[k].child \in 0 .. Len(h) /\ h[k].next \in 0 .. Len(h)

HungUp(h) == \A k \in 2 .. Len(h) : \E m \in 1 .. k - 1 : h[m].child = k \/ h[m].next = k

BothWays(h) == \A k \in 1 .. Len(h) : h[k].next # NoNode => h[h[k].next].prev = k

AllLive(h) == \A k \in 1 .. Len(h) : h[k].live

Built(h, d) ==
    /\ h \in Seq(Node(d)) /\ Len(h) # 0
    /\ AllLive(h) /\ Inside(h) /\ HungUp(h) /\ BothWays(h)

(* tretap_CJson_Delete of the root reaches all of it.                      *)
LEMMA VisitedAll ==
    ASSUME NEW h, NEW d, Built(h, d)
    PROVE  Visited(h, Root) = 1 .. Len(h) /\ DOMAIN h = 1 .. Len(h)
<1>1. PICK N \in Nat : N = Len(h) /\ N # 0 /\ DOMAIN h = 1 .. N
  BY LenProperties DEF Built
<1>2. PICK v : v = Rounds(h, Root, N)
  OBVIOUS
<1>3. v[0] = {1} /\ \A n \in 1 .. N : v[n] = Wider(h, v[n - 1])
  BY <1>2, RoundsOf DEF Root, NoNode
<1> DEFINE Reached(n) == v[n] \subseteq 1 .. N /\ \A k \in 1 .. N : k <= n + 1 => k \in v[n]
           Missed == {n \in 0 .. N : ~ Reached(n)}
<1>4. Missed = {}
  <2> SUFFICES ASSUME Missed # {} PROVE FALSE
    OBVIOUS
  <2>1. PICK n \in Missed : \A m \in Missed : n <= m
    <3>1. Missed \subseteq Nat
      OBVIOUS
    <3> QED
      BY <3>1, LeastNat
  <2>2. n # 0
    BY <1>1, <1>3, <2>1
  <2>3. n \in 1 .. N /\ n - 1 \in 0 .. N /\ ~ (n <= n - 1)
    BY <2>1, <2>2
  <2>4. Reached(n - 1)
    BY <2>1, <2>3
  <2>5. v[n - 1] \subseteq 1 .. N /\ \A k \in 1 .. N : k <= n => k \in v[n - 1]
    BY <2>3, <2>4
  <2>6. v[n] = (v[n - 1] \cup {h[k].child : k \in v[n - 1]} \cup {h[k].next : k \in v[n - 1]}) \ {0}
    BY <1>3, <2>3 DEF Wider, NoNode
  <2>7. v[n] \subseteq 1 .. N
    <3>1. \A k \in 1 .. N : h[k].child \in 0 .. N /\ h[k].next \in 0 .. N
      BY <1>1 DEF Built, Inside
    <3>2. \A c \in v[n] : c \in 0 .. N /\ c # 0
      BY <2>5, <2>6, <3>1
    <3> QED
      BY <3>2
  <2>8. ASSUME NEW k \in 1 .. N, k <= n + 1 PROVE k \in v[n]
    <3>1. CASE k <= n
      BY <2>5, <2>6, <3>1
    <3>2. CASE ~ (k <= n)
      <4>1. k \in 2 .. N /\ k = n + 1
        BY <2>3, <2>8, <3>2
      <4>2. PICK m \in 1 .. k - 1 : h[m].child = k \/ h[m].next = k
        BY <1>1, <4>1 DEF Built, HungUp
      <4>3. m \in v[n - 1]
        BY <2>3, <2>5, <4>1, <4>2
      <4> QED
        BY <2>6, <4>1, <4>2, <4>3
    <3> QED
      BY <3>1, <3>2
  <2>9. Reached(n)
    BY <2>7, <2>8
  <2> QED
    BY <2>1, <2>9
<1>5. Reached(N)
  BY <1>4
<1>6. v[N] = 1 .. N
  <2>1. v[N] \subseteq 1 .. N /\ \A k \in 1 .. N : k \in v[N]
    BY <1>5
  <2> QED
    BY <2>1
<1> QED
  BY <1>1, <1>2, <1>6, VisitedByRounds

-----------------------------------------------------------------------------
(* A node is filled in, and another one hung up below or behind it.        *)
LEMMA Filled ==
    ASSUME NEW h, NEW d, Built(h, d), NEW t \in 1 .. Len(h), NEW r \in Node(d), r.live,
           r.child = h[t].child, r.next = h[t].next, r.prev = h[t].prev
    PROVE  Built([h EXCEPT ![t] = r], d)
<1>1. PICK N \in Nat : N = Len(h) /\ N # 0 /\ t \in 1 .. N
  BY LenProperties DEF Built
<1>2. PICK g : g = [h EXCEPT ![t] = r]
  OBVIOUS
<1>3. /\ g \in Seq(Node(d)) /\ Len(g) = N
      /\ \A k \in 1 .. N : g[k] = IF k = t THEN r ELSE h[k]
  BY <1>1, <1>2, ExceptSeq DEF Built
<1>4. \A k \in 1 .. N : /\ g[k].child = h[k].child /\ g[k].next = h[k].next
                        /\ g[k].prev = h[k].prev /\ (h[k].live => g[k].live)
  BY <1>3
<1>5. AllLive(g) /\ Inside(g)
  BY <1>1, <1>3, <1>4 DEF Built, AllLive, Inside
<1>6. HungUp(g)
  <2>1. \A k \in 2 .. N : \A m \in 1 .. k - 1 : m \in 1 .. N
    OBVIOUS
  <2> QED
    <3> SUFFICES ASSUME NEW k \in 2 .. N
                 PROVE  \E m \in 1 .. k - 1 : g[m].child = k \/ g[m].next = k
      BY <1>3 DEF HungUp
    <3>1. PICK m \in 1 .. k - 1 : h[m].child = k \/ h[m].next = k
      BY <1>1 DEF Built, HungUp
    <3>2. g[m].child = h[m].child /\ g[m].next = h[m].next
      BY <1>4, <2>1
    <3> QED
      BY <3>1, <3>2
<1>7. BothWays(g)
  <2> SUFFICES ASSUME NEW k \in 1 .. N, g[k].next # NoNode PROVE g[g[k].next].prev = k
    BY <1>3 DEF BothWays
  <2>1. h[k].next # NoNode /\ h[k].next \in 1 .. N /\ h[h[k].next].prev = k
    BY <1>1, <1>4 DEF Built, BothWays, Inside, NoNode
  <2> QED
    BY <1>4, <2>1
<1> QED
  BY <1>1, <1>2, <1>3, <1>5, <1>6, <1>7 DEF Built

LEMMA Hung ==
    ASSUME NEW h, NEW d, Built(h, d), NEW t \in 1 .. Len(h),
           NEW r \in Node(d), NEW s \in Node(d), r.live, s.live,
           s.child = NoNode, s.next = NoNode, r.prev = h[t].prev,
           \/ h[t].child = NoNode /\ r.child = Len(h) + 1 /\ r.next = h[t].next
           \/ h[t].next = NoNode /\ r.next = Len(h) + 1 /\ r.child = h[t].child /\ s.prev = t
    PROVE  Built(Append([h EXCEPT ![t] = r], s), d)
<1>1. PICK N \in Nat : N = Len(h) /\ N # 0 /\ t \in 1 .. N
  BY LenProperties DEF Built
<1>2. PICK f : f = [h EXCEPT ![t] = r]
  OBVIOUS
<1>3. /\ f \in Seq(Node(d)) /\ Len(f) = N
      /\ \A k \in 1 .. N : f[k] = IF k = t THEN r ELSE h[k]
  BY <1>1, <1>2, ExceptSeq DEF Built
<1>4. PICK g : g = Append(f, s)
  OBVIOUS
<1>5. /\ g \in Seq(Node(d)) /\ Len(g) = N + 1 /\ g[N + 1] = s
      /\ \A k \in 1 .. N : g[k] = f[k]
  BY <1>3, <1>4, AppendProperties
<1>6. \A k \in 1 .. N : g[k] = IF k = t THEN r ELSE h[k]
  BY <1>3, <1>5
<1>7. \A k \in 1 .. N + 1 : k \in 1 .. N \/ k = N + 1
  OBVIOUS
<1>8. /\ r.child \in {h[t].child, N + 1} /\ r.next \in {h[t].next, N + 1}
      /\ h[t].child # NoNode => r.child = h[t].child
      /\ h[t].next # NoNode => r.next = h[t].next
      /\ r.child = N + 1 \/ r.next = N + 1
      /\ r.next = N + 1 => s.prev = t \/ r.next = h[t].next
  BY <1>1
<1>9. \A k \in 1 .. N : h[k].child \in 0 .. N /\ h[k].next \in 0 .. N /\ h[k].live
  BY <1>1 DEF Built, Inside, AllLive
<1>10. AllLive(g)
  BY <1>5, <1>6, <1>7, <1>9 DEF AllLive
<1>11. Inside(g)
  <2>1. ASSUME NEW k \in 1 .. N PROVE g[k].child \in 0 .. N + 1 /\ g[k].next \in 0 .. N + 1
    <3>1. CASE k = t
      BY <1>1, <1>6, <1>8, <1>9, <3>1
    <3>2. CASE k # t
      <4>1. g[k] = h[k] /\ h[k].child \in 0 .. N /\ h[k].next \in 0 .. N
        BY <1>6, <1>9, <3>2
      <4>2. 0 .. N \subseteq 0 .. N + 1
        OBVIOUS
      <4> QED
        BY <4>1, <4>2
    <3> QED
      BY <3>1, <3>2
  <2>2. g[N + 1].child \in 0 .. N + 1 /\ g[N + 1].next \in 0 .. N + 1
    BY <1>5 DEF NoNode
  <2> QED
    BY <1>5, <1>7, <2>1, <2>2 DEF Inside
<1>12. HungUp(g)
  <2> SUFFICES ASSUME NEW k \in 2 .. N + 1
               PROVE  \E m \in 1 .. k - 1 : g[m].child = k \/ g[m].next = k
    BY <1>5 DEF HungUp
  <2>1. CASE k = N + 1
    <3>1. t \in 1 .. k - 1 /\ g[t] = r
      BY <1>1, <1>6, <2>1
    <3> QED
      BY <1>8, <2>1, <3>1
  <2>2. CASE k # N + 1
    <3>1. k \in 2 .. N
      BY <2>2
    <3>2. PICK m \in 1 .. k - 1 : h[m].child = k \/ h[m].next = k
      BY <1>1, <3>1 DEF Built, HungUp
    <3>3. m \in 1 .. N /\ k # NoNode
      BY <3>1, <3>2 DEF NoNode
    <3>4. g[m].child = k \/ g[m].next = k
      BY <1>6, <1>8, <3>2, <3>3
    <3> QED
      BY <3>4
  <2> QED
    BY <2>1, <2>2
<1>13. BothWays(g)
  <2> SUFFICES ASSUME NEW k \in 1 .. N + 1, g[k].next # NoNode PROVE g[g[k].next].prev = k
    BY <1>5 DEF BothWays
  <2>1. k \in 1 .. N
    BY <1>5, <1>7
  <2>2. \A m \in 1 .. N : g[m].prev = h[m].prev
    BY <1>6
  <2>3. CASE g[k].next = N + 1
    <3>1. k = t /\ s.prev = t
      BY <1>6, <1>8, <1>9, <2>1, <2>3
    <3> QED
      BY <1>5, <2>3, <3>1
  <2>4. CASE g[k].next # N + 1
    <3>1. g[k].next = h[k].next
      BY <1>6, <1>8, <2>1, <2>4
    <3>2. h[k].next \in 1 .. N /\ h[h[k].next].prev = k
      BY <1>1, <1>9, <2>1, <3>1 DEF Built, BothWays, NoNode
    <3> QED
      BY <2>2, <3>1, <3>2
  <2> QED
    BY <2>3, <2>4
<1> QED
  BY <1>2, <1>4, <1>5, <1>10, <1>11, <1>12, <1>13 DEF Built

-----------------------------------------------------------------------------
(* The buffers of the nodes.                                               *)
ValuesOf(h) == {k \in 1 .. Len(h) : h[k].valuestring # Null}
NamesOf(h)  == {k \in 1 .. Len(h) : h[k].string # Null}
Buffers(h)  == Cardinality(ValuesOf(h)) + Cardinality(NamesOf(h))

LEMMA BuffersType ==
    ASSUME NEW h, Len(h) \in Nat
    PROVE  /\ IsFiniteSet(ValuesOf(h)) /\ IsFiniteSet(NamesOf(h))
           /\ Cardinality(ValuesOf(h)) \in Nat /\ Cardinality(NamesOf(h)) \in Nat
           /\ Buffers(h) = BuffersOf(h, 1 .. Len(h))
<1>1. IsFiniteSet(1 .. Len(h))
  BY FS_Interval
<1>2. ValuesOf(h) \in SUBSET (1 .. Len(h)) /\ NamesOf(h) \in SUBSET (1 .. Len(h))
  BY DEF ValuesOf, NamesOf
<1>3. IsFiniteSet(ValuesOf(h)) /\ IsFiniteSet(NamesOf(h))
  BY <1>1, <1>2, FS_Subset
<1>4. Buffers(h) = BuffersOf(h, 1 .. Len(h))
  BY DEF Buffers, BuffersOf, ValuesOf, NamesOf
<1> QED
  BY <1>3, <1>4, FS_CardinalityType

(* What filling a node in does to them.                                    *)
LEMMA BuffersFilled ==
    ASSUME NEW S, NEW h \in Seq(S), NEW t \in 1 .. Len(h), NEW r \in S
    PROVE  /\ r.valuestring = h[t].valuestring /\ r.string = h[t].string =>
                  Buffers([h EXCEPT ![t] = r]) = Buffers(h)
           /\ h[t].valuestring = Null /\ r.valuestring # Null /\ r.string = h[t].string =>
                  Buffers([h EXCEPT ![t] = r]) = Buffers(h) + 1
           /\ h[t].string = Null /\ r.string # Null /\ r.valuestring = h[t].valuestring =>
                  Buffers([h EXCEPT ![t] = r]) = Buffers(h) + 1
<1>1. PICK N \in Nat : N = Len(h) /\ t \in 1 .. N
  BY LenProperties
<1>2. PICK g : g = [h EXCEPT ![t] = r]
  OBVIOUS
<1>3. Len(g) = N /\ \A k \in 1 .. N : g[k] = IF k = t THEN r ELSE h[k]
  BY <1>1, <1>2, ExceptSeq
<1>4. /\ IsFiniteSet(ValuesOf(h)) /\ IsFiniteSet(NamesOf(h))
      /\ Cardinality(ValuesOf(h)) \in Nat /\ Cardinality(NamesOf(h)) \in Nat
  BY <1>1, BuffersType
<1>5. r.valuestring = h[t].valuestring => ValuesOf(g) = ValuesOf(h)
  BY <1>1, <1>3 DEF ValuesOf
<1>6. r.string = h[t].string => NamesOf(g) = NamesOf(h)
  BY <1>1, <1>3 DEF NamesOf
<1>7. ASSUME h[t].valuestring = Null, r.valuestring # Null
      PROVE  Cardinality(ValuesOf(g)) = Cardinality(ValuesOf(h)) + 1
  <2>1. ValuesOf(g) = ValuesOf(h) \cup {t} /\ t \notin ValuesOf(h)
    BY <1>1, <1>3, <1>7 DEF ValuesOf
  <2> QED
    BY <1>4, <2>1, FS_AddElement
<1>8. ASSUME h[t].string = Null, r.string # Null
      PROVE  Cardinality(NamesOf(g)) = Cardinality(NamesOf(h)) + 1
  <2>1. NamesOf(g) = NamesOf(h) \cup {t} /\ t \notin NamesOf(h)
    BY <1>1, <1>3, <1>8 DEF NamesOf
  <2> QED
    BY <1>4, <2>1, FS_AddElement
<1>9. r.valuestring = h[t].valuestring /\ r.string = h[t].string => Buffers(g) = Buffers(h)
  BY <1>5, <1>6 DEF Buffers
<1>10. h[t].valuestring = Null /\ r.valuestring # Null /\ r.string = h[t].string =>
           Buffers(g) = Buffers(h) + 1
  BY <1>4, <1>6, <1>7 DEF Buffers
<1>11. h[t].string = Null /\ r.string # Null /\ r.valuestring = h[t].valuestring =>
           Buffers(g) = Buffers(h) + 1
  BY <1>4, <1>5, <1>8 DEF Buffers
<1> QED
  BY <1>2, <1>9, <1>10, <1>11

(* The same, one case at a time.                                           *)
LEMMA BuffersKept ==
    ASSUME NEW d, NEW h \in Seq(Node(d)), NEW t \in 1 .. Len(h), NEW r \in Node(d),
           r.valuestring = h[t].valuestring, r.string = h[t].string
    PROVE  Buffers([h EXCEPT ![t] = r]) = Buffers(h)
BY BuffersFilled

LEMMA BuffersValue ==
    ASSUME NEW d, NEW h \in Seq(Node(d)), NEW t \in 1 .. Len(h), NEW r \in Node(d),
           h[t].valuestring = Null, r.valuestring # Null, r.string = h[t].string
    PROVE  Buffers([h EXCEPT ![t] = r]) = Buffers(h) + 1
BY BuffersFilled

LEMMA BuffersName ==
    ASSUME NEW d, NEW h \in Seq(Node(d)), NEW t \in 1 .. Len(h), NEW r \in Node(d),
           h[t].string = Null, r.string # Null, r.valuestring = h[t].valuestring
    PROVE  Buffers([h EXCEPT ![t] = r]) = Buffers(h) + 1
BY BuffersFilled

LEMMA BuffersHung ==
    ASSUME NEW S, NEW h \in Seq(S), NEW s \in S, s.valuestring = Null, s.string = Null
    PROVE  Buffers(Append(h, s)) = Buffers(h)
<1>1. PICK N \in Nat : N = Len(h)
  BY LenProperties
<1>2. PICK g : g = Append(h, s)
  OBVIOUS
<1>3. Len(g) = N + 1 /\ g[N + 1] = s /\ \A k \in 1 .. N : g[k] = h[k]
  BY <1>1, <1>2, AppendProperties
<1>4. \A k \in 1 .. N + 1 : k \in 1 .. N \/ k = N + 1
  OBVIOUS
<1>5. 1 .. N \subseteq 1 .. N + 1
  OBVIOUS
<1>6. ValuesOf(g) = ValuesOf(h) /\ NamesOf(g) = NamesOf(h)
  BY <1>1, <1>3, <1>4, <1>5 DEF ValuesOf, NamesOf
<1> QED
  BY <1>2, <1>6 DEF Buffers

LEMMA BuffersKeptHung ==
    ASSUME NEW d, NEW h \in Seq(Node(d)), NEW t \in 1 .. Len(h),
           NEW r \in Node(d), NEW s \in Node(d),
           r.valuestring = h[t].valuestring, r.string = h[t].string,
           s.valuestring = Null, s.string = Null
    PROVE  Buffers(Append([h EXCEPT ![t] = r], s)) = Buffers(h)
<1>1. Buffers([h EXCEPT ![t] = r]) = Buffers(h)
  BY BuffersKept
<1>2. PICK f : f = [h EXCEPT ![t] = r]
  OBVIOUS
<1>3. f \in Seq(Node(d))
  BY <1>2, ExceptSeq
<1>4. Buffers(Append(f, s)) = Buffers(f)
  BY <1>3, BuffersHung
<1> QED
  BY <1>1, <1>2, <1>4

-----------------------------------------------------------------------------
(* The text: "end" is its last token, so that the parser stays inside.     *)
DocInv ==
    /\ doc \in Seq(Lexemes \cup {Punct("end")})
    /\ pos \in 1 .. Len(doc)
    /\ doc[Len(doc)].kind = "end"
    /\ \A k \in 1 .. Len(doc) : /\ doc[k].kind = "str" => doc[k].text # Null
                               /\ doc[k].num \in Nat

(* The calls of parse_value under way: items of their own, none of which   *)
(* has a next one yet, and below each there is another.                    *)
OnStack(h, st) ==
    /\ st \in Seq(1 .. Len(h)) /\ Len(st) # 0
    /\ \A a, b \in 1 .. Len(st) : st[a] = st[b] => a = b
    /\ \A a \in 1 .. Len(st) : h[st[a]].next = NoNode
    /\ \A a \in 1 .. Len(st) - 1 : h[st[a]].type \in {"Array", "Object"}

(* What the innermost is about to fill in is empty.                        *)
StackInv ==
    pc \in {"value", "name", "return"} =>
        /\ OnStack(heap, stack)
        /\ pc # "return" => heap[Top].child = NoNode /\ heap[Top].valuestring = Null
        /\ pc = "name" => heap[Top].string = Null

(* Nothing is allocated, or the tree stands.                               *)
Nothing == LiveNodes = {} /\ strings = 0
Stands  == Built(heap, doc) /\ strings = Buffers(heap)

HeapInv ==
    /\ Nothing \/ Stands
    /\ pc \in {"value", "name", "return", "tree", "loop"} => Stands
    /\ pc = "parse" => strings = 0

ParserInv == DocInv /\ StackInv /\ HeapInv

(* The innermost call is now that of the new item s, at f.                 *)
Moved(h, st, f, s) == OnStack(h, st) /\ st[Len(st)] = f /\ h[f] = s

LEMMA OnStackIs ==
    ASSUME NEW S, NEW h \in Seq(S), NEW st, OnStack(h, st)
    PROVE  \E N \in Nat, M \in Nat :
               /\ N = Len(h) /\ M = Len(st) /\ M # 0 /\ M \in 1 .. M
               /\ \A a \in 1 .. M : st[a] \in 1 .. N /\ st[a] \in Nat
               /\ \A a \in 1 .. M - 1 : a \in 1 .. M /\ a # M /\ st[a] # st[M]
<1>1. PICK N \in Nat, M \in Nat : N = Len(h) /\ M = Len(st) /\ M # 0 /\ M \in 1 .. M
  BY LenProperties DEF OnStack
<1>2. \A a \in 1 .. M : st[a] \in 1 .. N
  BY <1>1, ElementOfSeq DEF OnStack
<1>3. \A a \in 1 .. M - 1 : a \in 1 .. M /\ a # M
  BY <1>1
<1>4. \A a \in 1 .. M - 1 : st[a] # st[M]
  BY <1>1, <1>3 DEF OnStack
<1>5. \A a \in 1 .. M : st[a] \in Nat
  BY <1>2
<1> QED
  BY <1>1, <1>2, <1>3, <1>4, <1>5, Zenon

(* The item of the innermost call is filled in.                            *)
LEMMA StackFilled ==
    ASSUME NEW S, NEW h \in Seq(S), NEW st, OnStack(h, st), NEW r \in S, r.next = NoNode
    PROVE  OnStack([h EXCEPT ![st[Len(st)]] = r], st)
<1>1. PICK N \in Nat, M \in Nat :
          /\ N = Len(h) /\ M = Len(st) /\ M # 0 /\ M \in 1 .. M
          /\ \A a \in 1 .. M : st[a] \in 1 .. N /\ st[a] \in Nat
          /\ \A a \in 1 .. M - 1 : a \in 1 .. M /\ a # M /\ st[a] # st[M]
  BY OnStackIs
<1>2. PICK g : g = [h EXCEPT ![st[M]] = r]
  OBVIOUS
<1>3. Len(g) = N /\ \A k \in 1 .. N : g[k] = IF k = st[M] THEN r ELSE h[k]
  BY <1>1, <1>2, ExceptSeq
<1>4. \A a \in 1 .. M : g[st[a]].next = NoNode
  BY <1>1, <1>3 DEF OnStack
<1>5. \A a \in 1 .. M - 1 : g[st[a]].type \in {"Array", "Object"}
  BY <1>1, <1>3 DEF OnStack
<1>6. st \in Seq(1 .. Len(g)) /\ \A a, b \in 1 .. Len(st) : st[a] = st[b] => a = b
  BY <1>1, <1>3 DEF OnStack
<1> QED
  BY <1>1, <1>2, <1>4, <1>5, <1>6 DEF OnStack

(* A new item below it, or behind it.                                      *)
LEMMA StackPushed ==
    ASSUME NEW S, NEW h \in Seq(S), NEW st, OnStack(h, st), NEW r \in S, NEW s \in S,
           r.next = NoNode, s.next = NoNode, r.type \in {"Array", "Object"}
    PROVE  Moved(Append([h EXCEPT ![st[Len(st)]] = r], s), Append(st, Len(h) + 1), Len(h) + 1, s)
<1>1. PICK N \in Nat, M \in Nat :
          /\ N = Len(h) /\ M = Len(st) /\ M # 0 /\ M \in 1 .. M
          /\ \A a \in 1 .. M : st[a] \in 1 .. N /\ st[a] \in Nat
          /\ \A a \in 1 .. M - 1 : a \in 1 .. M /\ a # M /\ st[a] # st[M]
  BY OnStackIs
<1>2. PICK f : f = [h EXCEPT ![st[M]] = r]
  OBVIOUS
<1>3. f \in Seq(S) /\ Len(f) = N /\ \A k \in 1 .. N : f[k] = IF k = st[M] THEN r ELSE h[k]
  BY <1>1, <1>2, ExceptSeq
<1>4. PICK g : g = Append(f, s)
  OBVIOUS
<1>5. Len(g) = N + 1 /\ g[N + 1] = s /\ \A k \in 1 .. N : g[k] = f[k]
  BY <1>3, <1>4, AppendProperties
<1>6. PICK up : up = Append(st, N + 1)
  OBVIOUS
<1>7. st \in Seq(1 .. N + 1) /\ N + 1 \in 1 .. N + 1
  <2>1. st \in Seq(1 .. N) /\ 1 .. N \subseteq 1 .. N + 1
    BY <1>1 DEF OnStack
  <2> QED
    BY <2>1, SeqMonotonic
<1>8. /\ up \in Seq(1 .. N + 1) /\ Len(up) = M + 1 /\ up[M + 1] = N + 1
      /\ \A a \in 1 .. M : up[a] = st[a]
  BY <1>1, <1>6, <1>7, AppendProperties
<1>9. \A a \in 1 .. M + 1 : a \in 1 .. M \/ a = M + 1
  OBVIOUS
<1>10. \A a \in 1 .. M : up[a] # N + 1
  BY <1>1, <1>8
<1>11. \A a, b \in 1 .. M + 1 : up[a] = up[b] => a = b
  <2> SUFFICES ASSUME NEW a \in 1 .. M + 1, NEW b \in 1 .. M + 1, up[a] = up[b] PROVE a = b
    OBVIOUS
  <2>1. CASE a \in 1 .. M /\ b \in 1 .. M
    <3>1. st[a] = st[b]
      BY <1>8, <2>1
    <3> QED
      BY <1>1, <2>1, <3>1 DEF OnStack
  <2>2. CASE a = M + 1 \/ b = M + 1
    BY <1>8, <1>9, <1>10, <2>2
  <2> QED
    BY <1>9, <2>1, <2>2
<1>12. \A a \in 1 .. M : g[up[a]] = IF a = M THEN r ELSE h[st[a]]
  <2> SUFFICES ASSUME NEW a \in 1 .. M PROVE g[up[a]] = IF a = M THEN r ELSE h[st[a]]
    OBVIOUS
  <2>1. up[a] = st[a] /\ st[a] \in 1 .. N /\ (a # M => st[a] # st[M])
    BY <1>1, <1>8
  <2> QED
    BY <1>3, <1>5, <2>1
<1>13. \A a \in 1 .. M + 1 : g[up[a]].next = NoNode
  <2> SUFFICES ASSUME NEW a \in 1 .. M + 1 PROVE g[up[a]].next = NoNode
    OBVIOUS
  <2>1. CASE a = M + 1
    BY <1>5, <1>8, <2>1
  <2>2. CASE a \in 1 .. M
    <3>1. h[st[a]].next = NoNode
      BY <1>1, <2>2 DEF OnStack
    <3> QED
      BY <1>12, <2>2, <3>1
  <2> QED
    BY <1>9, <2>1, <2>2
<1>14. \A a \in 1 .. M : g[up[a]].type \in {"Array", "Object"}
  <2> SUFFICES ASSUME NEW a \in 1 .. M PROVE g[up[a]].type \in {"Array", "Object"}
    OBVIOUS
  <2>1. a = M \/ a \in 1 .. M - 1
    OBVIOUS
  <2> QED
    BY <1>1, <1>12, <2>1 DEF OnStack
<1>15. OnStack(g, up)
  <2>1. (M + 1) - 1 = M /\ M + 1 # 0
    OBVIOUS
  <2> QED
    BY <1>5, <1>8, <1>11, <1>13, <1>14, <2>1 DEF OnStack
<1>16. Moved(g, up, N + 1, s)
  BY <1>5, <1>8, <1>15 DEF Moved
<1> QED
  BY <1>1, <1>2, <1>4, <1>6, <1>16

LEMMA StackReplaced ==
    ASSUME NEW S, NEW h \in Seq(S), NEW st, OnStack(h, st), NEW r \in S, NEW s \in S,
           s.next = NoNode
    PROVE  Moved(Append([h EXCEPT ![st[Len(st)]] = r], s), [st EXCEPT ![Len(st)] = Len(h) + 1],
                 Len(h) + 1, s)
<1>1. PICK N \in Nat, M \in Nat :
          /\ N = Len(h) /\ M = Len(st) /\ M # 0 /\ M \in 1 .. M
          /\ \A a \in 1 .. M : st[a] \in 1 .. N /\ st[a] \in Nat
          /\ \A a \in 1 .. M - 1 : a \in 1 .. M /\ a # M /\ st[a] # st[M]
  BY OnStackIs
<1>2. PICK f : f = [h EXCEPT ![st[M]] = r]
  OBVIOUS
<1>3. f \in Seq(S) /\ Len(f) = N /\ \A k \in 1 .. N : f[k] = IF k = st[M] THEN r ELSE h[k]
  BY <1>1, <1>2, ExceptSeq
<1>4. PICK g : g = Append(f, s)
  OBVIOUS
<1>5. Len(g) = N + 1 /\ g[N + 1] = s /\ \A k \in 1 .. N : g[k] = f[k]
  BY <1>3, <1>4, AppendProperties
<1>6. PICK up : up = [st EXCEPT ![M] = N + 1]
  OBVIOUS
<1>7. st \in Seq(1 .. N + 1) /\ N + 1 \in 1 .. N + 1
  <2>1. st \in Seq(1 .. N) /\ 1 .. N \subseteq 1 .. N + 1
    BY <1>1 DEF OnStack
  <2> QED
    BY <2>1, SeqMonotonic
<1>8. /\ up \in Seq(1 .. N + 1) /\ Len(up) = M
      /\ \A a \in 1 .. M : up[a] = IF a = M THEN N + 1 ELSE st[a]
  BY <1>1, <1>6, <1>7, ExceptSeq
<1>9. \A a \in 1 .. M : st[a] # N + 1
  BY <1>1
<1>10. \A a, b \in 1 .. M : up[a] = up[b] => a = b
  BY <1>1, <1>8, <1>9 DEF OnStack
<1>11. \A a \in 1 .. M : g[up[a]] = IF a = M THEN s ELSE h[st[a]]
  <2> SUFFICES ASSUME NEW a \in 1 .. M PROVE g[up[a]] = IF a = M THEN s ELSE h[st[a]]
    OBVIOUS
  <2>1. CASE a = M
    BY <1>5, <1>8, <2>1
  <2>2. CASE a # M
    <3>1. up[a] = st[a] /\ st[a] \in 1 .. N /\ a \in 1 .. M - 1
      BY <1>1, <1>8, <2>2
    <3>2. st[a] # st[M]
      BY <1>1, <3>1
    <3> QED
      BY <1>3, <1>5, <2>2, <3>1, <3>2
  <2> QED
    BY <2>1, <2>2
<1>12. \A a \in 1 .. M : g[up[a]].next = NoNode
  BY <1>1, <1>11 DEF OnStack
<1>13. \A a \in 1 .. M - 1 : g[up[a]].type \in {"Array", "Object"}
  BY <1>1, <1>11 DEF OnStack
<1>14. OnStack(g, up)
  BY <1>1, <1>5, <1>8, <1>10, <1>12, <1>13 DEF OnStack
<1>15. Moved(g, up, N + 1, s)
  BY <1>1, <1>5, <1>8, <1>14 DEF Moved
<1> QED
  BY <1>1, <1>2, <1>4, <1>6, <1>15

(* The call returns to that of its parent.                                 *)
LEMMA StackPopped ==
    ASSUME NEW S, NEW h \in Seq(S), NEW st, OnStack(h, st), Len(st) > 1
    PROVE  OnStack(h, SubSeq(st, 1, Len(st) - 1))
<1>1. PICK N \in Nat, M \in Nat :
          /\ N = Len(h) /\ M = Len(st) /\ M # 0 /\ M \in 1 .. M
          /\ \A a \in 1 .. M : st[a] \in 1 .. N /\ st[a] \in Nat
          /\ \A a \in 1 .. M - 1 : a \in 1 .. M /\ a # M /\ st[a] # st[M]
  BY OnStackIs
<1>2. PICK down : down = SubSeq(st, 1, M - 1)
  OBVIOUS
<1>3. /\ down \in Seq(1 .. N) /\ Len(down) = M - 1
      /\ \A a \in 1 .. M - 1 : down[a] = st[a]
  <2>1. \A a \in 1 .. M - 1 : st[a] \in 1 .. N
    BY <1>1
  <2>2. /\ SubSeq(st, 1, M - 1) \in Seq(1 .. N)
        /\ Len(SubSeq(st, 1, M - 1)) = IF 1 <= M - 1 THEN (M - 1) - 1 + 1 ELSE 0
        /\ \A a \in 1 .. (M - 1) - 1 + 1 : SubSeq(st, 1, M - 1)[a] = st[1 + a - 1]
    BY <1>1, <2>1, SubSeqProperties
  <2>3. M > 1 /\ (M - 1) - 1 + 1 = M - 1 /\ \A a \in 1 .. M - 1 : 1 + a - 1 = a
    BY <1>1
  <2> QED
    BY <1>2, <2>2, <2>3
<1>4. \A a \in 1 .. (M - 1) - 1 : a \in 1 .. M - 1
  BY <1>1
<1>5. M - 1 # 0
  <2>1. M \in Nat /\ M > 1
    BY <1>1
  <2> QED
    BY <2>1
<1>6. \A a, b \in 1 .. M - 1 : down[a] = down[b] => a = b
  <2> SUFFICES ASSUME NEW a \in 1 .. M - 1, NEW b \in 1 .. M - 1, down[a] = down[b] PROVE a = b
    OBVIOUS
  <2>1. a \in 1 .. M /\ b \in 1 .. M /\ st[a] = st[b]
    BY <1>1, <1>3
  <2> QED
    BY <1>1, <2>1 DEF OnStack
<1>7. \A a \in 1 .. M - 1 : h[down[a]].next = NoNode
  BY <1>1, <1>3 DEF OnStack
<1>8. \A a \in 1 .. (M - 1) - 1 : h[down[a]].type \in {"Array", "Object"}
  BY <1>1, <1>3, <1>4 DEF OnStack
<1> QED
  BY <1>1, <1>2, <1>3, <1>5, <1>6, <1>7, <1>8 DEF OnStack

-----------------------------------------------------------------------------
LEMMA NewItem ==
    ASSUME NEW d
    PROVE  /\ New_Item \in Node(d)
           /\ New_Item.live /\ New_Item.child = NoNode /\ New_Item.next = NoNode
           /\ New_Item.string = Null /\ New_Item.valuestring = Null
BY DEF New_Item, Node, Types, Strs, NoNode

(* Behind any token but "end" there is another one.                        *)
LEMMA NextToken ==
    ASSUME DocInv, NEW k \in 1 .. Len(doc), doc[k].kind # "end"
    PROVE  k + 1 \in 1 .. Len(doc)
<1>1. PICK D \in Nat : D = Len(doc) /\ k \in 1 .. D
  BY LenProperties DEF DocInv
<1>2. k # D
  BY <1>1 DEF DocInv
<1> QED
  BY <1>1, <1>2

LEMMA TextIn ==
    ASSUME DocInv, NEW k \in 1 .. Len(doc)
    PROVE  doc[k].text \in Strs(doc) /\ doc[k].num \in Nat
<1>1. DOMAIN doc = 1 .. Len(doc)
  BY LenProperties DEF DocInv
<1> QED
  BY <1>1 DEF DocInv, Strs

LEMMA TopIs ==
    ASSUME HeapInv, StackInv, pc \in {"value", "name", "return"}
    PROVE  /\ Stands /\ heap \in Seq(Node(doc)) /\ OnStack(heap, stack)
           /\ Top = stack[Len(stack)] /\ Top \in 1 .. Len(heap)
           /\ heap[Top] \in Node(doc) /\ heap[Top].live /\ heap[Top].next = NoNode
           /\ Len(heap) \in Nat /\ Fresh = Len(heap) + 1
<1>1. Stands /\ OnStack(heap, stack) /\ heap \in Seq(Node(doc)) /\ AllLive(heap)
  BY DEF HeapInv, StackInv, Stands, Built
<1>2. PICK N \in Nat, M \in Nat :
          /\ N = Len(heap) /\ M = Len(stack) /\ M # 0 /\ M \in 1 .. M
          /\ \A a \in 1 .. M : stack[a] \in 1 .. N /\ stack[a] \in Nat
          /\ \A a \in 1 .. M - 1 : a \in 1 .. M /\ a # M /\ stack[a] # stack[M]
  BY <1>1, OnStackIs
<1>3. Top = stack[M] /\ Top \in 1 .. N /\ heap[Top].next = NoNode
  BY <1>1, <1>2 DEF Top, OnStack
<1>4. heap[Top] \in Node(doc) /\ heap[Top].live
  BY <1>1, <1>2, <1>3, ElementOfSeq DEF AllLive
<1> QED
  BY <1>1, <1>2, <1>3, <1>4 DEF Fresh

(* tretap_CJson_Delete of a tree that stands leaves nothing allocated.     *)
LEMMA Deleted ==
    ASSUME Stands, Delete(heap, Root)
    PROVE  Nothing'
<1>1. /\ Visited(heap, Root) = 1 .. Len(heap) /\ DOMAIN heap = 1 .. Len(heap)
      /\ heap \in Seq(Node(doc)) /\ Len(heap) \in Nat
  BY VisitedAll, LenProperties DEF Stands, Built
<1>2. heap' = [k \in DOMAIN heap |->
                 IF k \in Visited(heap, Root) THEN [heap[k] EXCEPT !.live = FALSE] ELSE heap[k]]
  BY DEF Delete
<1>3. \A k \in 1 .. Len(heap) : [heap[k] EXCEPT !.live = FALSE].live = FALSE
  <2>1. \A k \in 1 .. Len(heap) : heap[k] \in Node(doc)
    BY <1>1, ElementOfSeq
  <2> QED
    BY <2>1 DEF Node
<1>4. LiveNodes' = {}
  BY <1>1, <1>2, <1>3 DEF LiveNodes
<1>5. strings' = strings - BuffersOf(heap, 1 .. Len(heap))
  BY <1>1 DEF Delete
<1>6. strings = BuffersOf(heap, 1 .. Len(heap)) /\ strings \in Nat
  BY <1>1, BuffersType DEF Stands, Buffers
<1>7. strings' = 0
  BY <1>5, <1>6
<1> QED
  BY <1>4, <1>7 DEF Nothing

LEMMA ParseFailsInv ==
    ASSUME DocInv, Stands, ParseFails
    PROVE  ParserInv'
<1>1. Nothing' /\ pc' = "no_tree" /\ UNCHANGED <<doc, pos>>
  BY Deleted DEF ParseFails
<1> QED
  BY <1>1 DEF ParserInv, DocInv, StackInv, HeapInv

(* The root.                                                               *)
LEMMA ParseWithOptsInv ==
    ASSUME ParserInv, ParseWithOpts
    PROVE  ParserInv'
<1>1. pc = "parse" /\ UNCHANGED <<doc, pos, strings>> /\ DocInv' /\ strings' = 0
  BY DEF ParserInv, DocInv, HeapInv, ParseWithOpts
<1>2. CASE heap' = <<>> /\ stack' = <<>> /\ pc' = "no_tree"
  <2>1. LiveNodes' = {}
    BY <1>2 DEF LiveNodes
  <2> QED
    BY <1>1, <1>2, <2>1 DEF ParserInv, StackInv, HeapInv, Nothing
<1>3. CASE heap' = <<New_Item>> /\ stack' = <<Root>> /\ pc' = "value"
  <2>1. /\ heap' \in Seq(Node(doc')) /\ Len(heap') = 1 /\ heap'[1] = New_Item
    BY <1>3, NewItem
  <2>2. \A k \in 1 .. 1 : k = 1
    OBVIOUS
  <2>3. AllLive(heap') /\ Inside(heap') /\ BothWays(heap')
    BY <2>1, <2>2, NewItem DEF AllLive, Inside, BothWays, NoNode
  <2>4. HungUp(heap')
    BY <2>1 DEF HungUp
  <2>5. Buffers(heap') = 0
    <3>1. ValuesOf(heap') = {} /\ NamesOf(heap') = {}
      BY <2>1, <2>2, NewItem DEF ValuesOf, NamesOf
    <3> QED
      BY <3>1, FS_EmptySet DEF Buffers
  <2>6. Stands'
    BY <1>1, <2>1, <2>3, <2>4, <2>5 DEF Stands, Built
  <2>7. stack' \in Seq(1 .. 1) /\ Len(stack') = 1 /\ stack'[1] = 1
    BY <1>3 DEF Root
  <2>8. OnStack(heap', stack')
    BY <2>1, <2>2, <2>7, NewItem DEF OnStack
  <2>9. heap'[Top'] = New_Item
    BY <2>1, <2>7 DEF Top
  <2> QED
    BY <1>1, <1>3, <2>6, <2>8, <2>9, NewItem DEF ParserInv, StackInv, HeapInv
<1> QED
  BY <1>2, <1>3 DEF ParseWithOpts

-----------------------------------------------------------------------------
(* The innermost item is filled in: the parser returns from it, or turns   *)
(* from its name to its value.                                             *)
LEMMA FillInv ==
    ASSUME ParserInv, pc \in {"value", "name"}, NEW r \in Node(doc), r.live,
           r.child = heap[Top].child, r.next = heap[Top].next, r.prev = heap[Top].prev,
           heap' = [heap EXCEPT ![Top] = r], strings' = Buffers(heap'),
           UNCHANGED <<doc, stack>>, pos' \in 1 .. Len(doc),
           pc' = "return" \/ (pc' = "value" /\ r.valuestring = Null)
    PROVE  ParserInv'
<1>1. /\ Stands /\ heap \in Seq(Node(doc)) /\ OnStack(heap, stack)
      /\ Top = stack[Len(stack)] /\ Top \in 1 .. Len(heap) /\ heap[Top].next = NoNode
  BY TopIs DEF ParserInv
<1>2. DocInv'
  BY DEF ParserInv, DocInv
<1>3. Stands'
  BY <1>1, Filled DEF Stands
<1>4. OnStack(heap', stack')
  BY <1>1, StackFilled
<1>5. Top' = Top /\ heap'[Top] = r
  BY <1>1, ExceptSeq DEF Top
<1>6. heap[Top].child = NoNode
  BY DEF ParserInv, StackInv
<1>7. StackInv'
  BY <1>4, <1>5, <1>6 DEF StackInv
<1>8. HeapInv'
  BY <1>3 DEF HeapInv
<1> QED
  BY <1>2, <1>7, <1>8 DEF ParserInv

(* Another one is hung up, and becomes the innermost.                      *)
HangsUp(r, s) ==
    /\ r \in Node(doc) /\ r.live /\ r.prev = heap[Top].prev
    /\ r.valuestring = heap[Top].valuestring /\ r.string = heap[Top].string
    /\ s \in Node(doc) /\ s.live /\ s.child = NoNode /\ s.next = NoNode
    /\ s.valuestring = Null /\ s.string = Null
    /\ heap' = Append([heap EXCEPT ![Top] = r], s)
    /\ \/ /\ heap[Top].child = NoNode /\ r.child = Fresh /\ r.next = heap[Top].next
          /\ r.type \in {"Array", "Object"}
          /\ stack' = Append(stack, Fresh)
       \/ /\ r.next = Fresh /\ r.child = heap[Top].child /\ s.prev = Top
          /\ stack' = [stack EXCEPT ![Len(stack)] = Fresh]

LEMMA HangInv ==
    ASSUME ParserInv, pc \in {"value", "return"}, NEW r, NEW s, HangsUp(r, s),
           UNCHANGED <<strings, doc>>, pos' \in 1 .. Len(doc), pc' \in {"value", "name"}
    PROVE  ParserInv'
<1>1. /\ Stands /\ heap \in Seq(Node(doc)) /\ OnStack(heap, stack)
      /\ Top = stack[Len(stack)] /\ Top \in 1 .. Len(heap) /\ heap[Top].next = NoNode
      /\ Fresh = Len(heap) + 1
  BY TopIs DEF ParserInv
<1>2. DocInv'
  BY DEF ParserInv, DocInv
<1>3. PICK h, d, st, t : h = heap /\ d = doc /\ st = stack /\ t = Top
  OBVIOUS
<1>4. /\ h \in Seq(Node(d)) /\ OnStack(h, st) /\ t = st[Len(st)] /\ t \in 1 .. Len(h)
      /\ r \in Node(d) /\ s \in Node(d) /\ s.next = NoNode /\ s.child = NoNode
      /\ s.valuestring = Null /\ s.string = Null
  BY <1>1, <1>3 DEF HangsUp
<1>5. heap' = Append([h EXCEPT ![t] = r], s)
  BY <1>3 DEF HangsUp
<1>6. Built(heap', doc)
  BY <1>1, Hung DEF Stands, HangsUp
<1>7. Buffers(heap') = Buffers(heap)
  <2>1. r.valuestring = h[t].valuestring /\ r.string = h[t].string
    BY <1>3 DEF HangsUp
  <2>2. Buffers(Append([h EXCEPT ![t] = r], s)) = Buffers(h)
    BY <1>4, <2>1, BuffersKeptHung
  <2> QED
    BY <1>3, <1>5, <2>2
<1>8. Stands'
  BY <1>1, <1>6, <1>7 DEF Stands
<1>9. OnStack(heap', stack') /\ heap'[Top'] = s
  <2>1. CASE /\ r.next = NoNode /\ r.type \in {"Array", "Object"}
             /\ stack' = Append(stack, Fresh)
    <3>1. Moved(Append([h EXCEPT ![st[Len(st)]] = r], s), Append(st, Len(h) + 1), Len(h) + 1, s)
      BY <1>4, <2>1, StackPushed
    <3>2. Moved(heap', stack', Len(h) + 1, s)
      BY <1>1, <1>3, <1>4, <1>5, <2>1, <3>1
    <3> QED
      BY <3>2 DEF Top, Moved
  <2>2. CASE stack' = [stack EXCEPT ![Len(stack)] = Fresh]
    <3>1. Moved(Append([h EXCEPT ![st[Len(st)]] = r], s), [st EXCEPT ![Len(st)] = Len(h) + 1],
                Len(h) + 1, s)
      BY <1>4, StackReplaced
    <3>2. Moved(heap', stack', Len(h) + 1, s)
      BY <1>1, <1>3, <1>4, <1>5, <2>2, <3>1
    <3> QED
      BY <3>2 DEF Top, Moved
  <2> QED
    BY <1>1, <2>1, <2>2 DEF HangsUp
<1>10. StackInv' /\ HeapInv'
  BY <1>8, <1>9 DEF StackInv, HeapInv, HangsUp
<1> QED
  BY <1>2, <1>10 DEF ParserInv

LEMMA ParseScalarInv ==
    ASSUME ParserInv, ParseScalar
    PROVE  ParserInv'
<1>1. /\ Stands /\ heap \in Seq(Node(doc)) /\ Top \in 1 .. Len(heap)
      /\ heap[Top] \in Node(doc) /\ heap[Top].live
  BY TopIs DEF ParserInv, ParseScalar
<1>2. /\ pc = "value" /\ Tok \in {"null", "false", "true", "num"} /\ pc' = "return"
      /\ UNCHANGED <<doc, strings, stack>> /\ pos' = pos + 1
  BY DEF ParseScalar
<1>3. PICK r : r = CASE Tok = "null"  -> [heap[Top] EXCEPT !.type = "NULL"]
                     [] Tok = "false" -> [heap[Top] EXCEPT !.type = "False"]
                     [] Tok = "true"  -> [heap[Top] EXCEPT !.type = "True", !.valueint = 1]
                     [] Tok = "num"   -> [heap[Top] EXCEPT !.type = "Number",
                                                           !.valueint = ToInt(doc[pos].num),
                                                           !.valuedouble = doc[pos].num]
  OBVIOUS
<1>4. heap' = [heap EXCEPT ![Top] = r]
  BY <1>3 DEF ParseScalar
<1>5. doc[pos].num \in Int /\ ToInt(doc[pos].num) \in Int
  BY TextIn, CJsonAssumption DEF ParserInv, DocInv, ToInt
<1>6. /\ r \in Node(doc) /\ r.live
      /\ r.child = heap[Top].child /\ r.next = heap[Top].next /\ r.prev = heap[Top].prev
      /\ r.string = heap[Top].string /\ r.valuestring = heap[Top].valuestring
  <2>1. CASE Tok = "null"
    <3>1. r = [heap[Top] EXCEPT !.type = "NULL"]
      BY <1>3, <2>1
    <3> QED
      BY <1>1, <3>1 DEF Node, Types
  <2>2. CASE Tok = "false"
    <3>1. r = [heap[Top] EXCEPT !.type = "False"]
      BY <1>3, <2>2
    <3> QED
      BY <1>1, <3>1 DEF Node, Types
  <2>3. CASE Tok = "true"
    <3>1. r = [heap[Top] EXCEPT !.type = "True", !.valueint = 1]
      BY <1>3, <2>3
    <3>2. "True" \in Types /\ 1 \in Int
      BY DEF Types
    <3> QED
      BY <1>1, <3>1, <3>2 DEF Node
  <2>4. CASE Tok = "num"
    <3>1. r = [heap[Top] EXCEPT !.type = "Number", !.valueint = ToInt(doc[pos].num),
                                !.valuedouble = doc[pos].num]
      BY <1>3, <2>4
    <3> QED
      BY <1>1, <1>5, <3>1 DEF Node, Types
  <2> QED
    BY <1>2, <2>1, <2>2, <2>3, <2>4
<1>7. strings' = Buffers(heap')
  <2>1. Buffers([heap EXCEPT ![Top] = r]) = Buffers(heap)
    BY <1>1, <1>6, BuffersKept
  <2> QED
    BY <1>1, <1>2, <1>4, <2>1 DEF Stands
<1>8. pos' \in 1 .. Len(doc)
  BY <1>2, NextToken DEF ParserInv, DocInv, Tok
<1> QED
  BY <1>2, <1>4, <1>6, <1>7, <1>8, FillInv

LEMMA ParseStringInv ==
    ASSUME ParserInv, ParseString
    PROVE  ParserInv'
<1>1. /\ Stands /\ heap \in Seq(Node(doc)) /\ Top \in 1 .. Len(heap)
      /\ heap[Top] \in Node(doc) /\ heap[Top].live
  BY TopIs DEF ParserInv, ParseString
<1>2. pc = "value" /\ Tok = "str" /\ heap[Top].valuestring = Null
  BY DEF ParserInv, StackInv, ParseString
<1>3. CASE ParseFails
  BY <1>1, <1>3, ParseFailsInv DEF ParserInv
<1>4. CASE /\ heap' = [heap EXCEPT ![Top] = [@ EXCEPT !.type = "String", !.valuestring = doc[pos].text]]
           /\ strings' = strings + 1 /\ pos' = pos + 1 /\ pc' = "return"
           /\ UNCHANGED <<doc, stack>>
  <2>1. doc[pos].text \in Strs(doc) /\ doc[pos].text # Null
    BY <1>2, TextIn DEF ParserInv, DocInv, Tok
  <2>2. PICK r : r = [heap[Top] EXCEPT !.type = "String", !.valuestring = doc[pos].text]
    OBVIOUS
  <2>3. heap' = [heap EXCEPT ![Top] = r]
    BY <1>4, <2>2
  <2>4. /\ r \in Node(doc) /\ r.live
        /\ r.child = heap[Top].child /\ r.next = heap[Top].next /\ r.prev = heap[Top].prev
        /\ r.string = heap[Top].string /\ r.valuestring # Null
    BY <1>1, <2>1, <2>2 DEF Node, Types
  <2>5. strings' = Buffers(heap')
    <3>1. Buffers([heap EXCEPT ![Top] = r]) = Buffers(heap) + 1
      BY <1>1, <1>2, <2>4, BuffersValue, Zenon
    <3> QED
      BY <1>1, <1>4, <2>3, <3>1 DEF Stands
  <2>6. pos' \in 1 .. Len(doc)
    BY <1>2, <1>4, NextToken DEF ParserInv, DocInv, Tok
  <2> QED
    BY <1>2, <1>4, <2>3, <2>4, <2>5, <2>6, FillInv
<1> QED
  BY <1>3, <1>4 DEF ParseString

LEMMA ParseNameInv ==
    ASSUME ParserInv, ParseName
    PROVE  ParserInv'
<1>1. /\ Stands /\ heap \in Seq(Node(doc)) /\ Top \in 1 .. Len(heap)
      /\ heap[Top] \in Node(doc) /\ heap[Top].live
  BY TopIs DEF ParserInv, ParseName
<1>2. pc = "name" /\ heap[Top].valuestring = Null /\ heap[Top].string = Null
  BY DEF ParserInv, StackInv, ParseName
<1>3. CASE ParseFails
  BY <1>1, <1>3, ParseFailsInv DEF ParserInv
<1>4. CASE /\ Tok = "str" /\ doc[pos + 1].kind = ":"
           /\ heap' = [heap EXCEPT ![Top] = [@ EXCEPT !.string = doc[pos].text]]
           /\ strings' = strings + 1 /\ pos' = pos + 2 /\ pc' = "value"
           /\ UNCHANGED <<doc, stack>>
  <2>1. doc[pos].text \in Strs(doc) /\ doc[pos].text # Null
    BY <1>4, TextIn DEF ParserInv, DocInv, Tok
  <2>2. PICK r : r = [heap[Top] EXCEPT !.string = doc[pos].text]
    OBVIOUS
  <2>3. heap' = [heap EXCEPT ![Top] = r]
    BY <1>4, <2>2
  <2>4. /\ r \in Node(doc) /\ r.live
        /\ r.child = heap[Top].child /\ r.next = heap[Top].next /\ r.prev = heap[Top].prev
        /\ r.valuestring = heap[Top].valuestring /\ r.string # Null
    BY <1>1, <2>1, <2>2 DEF Node
  <2>5. strings' = Buffers(heap')
    <3>1. Buffers([heap EXCEPT ![Top] = r]) = Buffers(heap) + 1
      BY <1>1, <1>2, <2>4, BuffersName, Zenon
    <3> QED
      BY <1>1, <1>4, <2>3, <3>1 DEF Stands
  <2>6. pos' \in 1 .. Len(doc)
    <3>1. pos + 1 \in 1 .. Len(doc)
      BY <1>4, NextToken DEF ParserInv, DocInv, Tok
    <3>2. (pos + 1) + 1 \in 1 .. Len(doc)
      BY <1>4, <3>1, NextToken DEF ParserInv
    <3>3. pos' = (pos + 1) + 1
      BY <1>4 DEF ParserInv, DocInv
    <3> QED
      BY <3>2, <3>3
  <2> QED
    BY <1>2, <1>4, <2>3, <2>4, <2>5, <2>6, FillInv
<1> QED
  BY <1>3, <1>4 DEF ParseName

(* An array or an object: empty, or with a first item below it.            *)
LEMMA OpenEmptyInv ==
    ASSUME ParserInv, pc = "value", NEW shape \in {"Array", "Object"},
           pos + 1 \in 1 .. Len(doc), doc[pos + 1].kind # "end",
           heap' = [heap EXCEPT ![Top] = [@ EXCEPT !.type = shape]],
           pos' = pos + 2, pc' = "return", UNCHANGED <<doc, strings, stack>>
    PROVE  ParserInv'
<1>1. /\ Stands /\ heap \in Seq(Node(doc)) /\ Top \in 1 .. Len(heap)
      /\ heap[Top] \in Node(doc) /\ heap[Top].live
  BY TopIs DEF ParserInv
<1>2. PICK r : r = [heap[Top] EXCEPT !.type = shape]
  OBVIOUS
<1>3. heap' = [heap EXCEPT ![Top] = r]
  BY <1>2
<1>4. /\ r \in Node(doc) /\ r.live
      /\ r.child = heap[Top].child /\ r.next = heap[Top].next /\ r.prev = heap[Top].prev
      /\ r.string = heap[Top].string /\ r.valuestring = heap[Top].valuestring
  BY <1>1, <1>2 DEF Node, Types
<1>5. strings' = Buffers(heap')
  <2>1. PICK h, d, t : h = heap /\ d = doc /\ t = Top
    OBVIOUS
  <2>2. h \in Seq(Node(d)) /\ t \in 1 .. Len(h) /\ r \in Node(d)
    BY <1>1, <1>4, <2>1
  <2>3. r.valuestring = h[t].valuestring /\ r.string = h[t].string
    BY <1>4, <2>1
  <2>4. Buffers([h EXCEPT ![t] = r]) = Buffers(h)
    BY <2>2, <2>3, BuffersKept
  <2> QED
    BY <1>1, <1>3, <2>1, <2>4 DEF Stands
<1>6. pos' \in 1 .. Len(doc)
  <2>1. (pos + 1) + 1 \in 1 .. Len(doc)
    BY NextToken DEF ParserInv
  <2>2. pos' = (pos + 1) + 1
    BY DEF ParserInv, DocInv
  <2> QED
    BY <2>1, <2>2
<1> QED
  BY <1>3, <1>4, <1>5, <1>6, FillInv

LEMMA OpenFirstInv ==
    ASSUME ParserInv, pc = "value", NEW shape \in {"Array", "Object"},
           pos + 1 \in 1 .. Len(doc),
           heap' = Append([heap EXCEPT ![Top] = [@ EXCEPT !.type = shape, !.child = Fresh]],
                          New_Item),
           stack' = Append(stack, Fresh),
           pos' = pos + 1, pc' \in {"value", "name"}, UNCHANGED <<doc, strings>>
    PROVE  ParserInv'
<1>1. /\ Stands /\ heap \in Seq(Node(doc)) /\ Top \in 1 .. Len(heap)
      /\ heap[Top] \in Node(doc) /\ heap[Top].live
      /\ Len(heap) \in Nat /\ Fresh = Len(heap) + 1
  BY TopIs DEF ParserInv
<1>2. heap[Top].child = NoNode
  BY DEF ParserInv, StackInv
<1>3. PICK r : r = [heap[Top] EXCEPT !.type = shape, !.child = Fresh]
  OBVIOUS
<1>4. heap' = Append([heap EXCEPT ![Top] = r], New_Item)
  BY <1>3
<1>5. /\ r \in Node(doc) /\ r.live /\ r.type = shape /\ r.child = Fresh
      /\ r.next = heap[Top].next /\ r.prev = heap[Top].prev
      /\ r.string = heap[Top].string /\ r.valuestring = heap[Top].valuestring
  <2>1. Fresh \in Nat
    BY <1>1
  <2>2. shape \in Types
    BY DEF Types
  <2> QED
    BY <1>1, <1>3, <2>1, <2>2 DEF Node
<1>6. HangsUp(r, New_Item)
  BY <1>2, <1>4, <1>5, NewItem DEF HangsUp
<1> QED
  BY <1>6, HangInv

LEMMA OpenInv ==
    ASSUME ParserInv, OpenArray \/ OpenObject
    PROVE  ParserInv'
<1>1. PICK bracket, shape, next_pc :
          /\ bracket \in {"[", "{"} /\ shape \in {"Array", "Object"}
          /\ next_pc \in {"value", "name"} /\ Open(bracket, shape, next_pc)
  <2>1. CASE OpenArray
    BY <2>1 DEF OpenArray
  <2>2. CASE OpenObject
    BY <2>2 DEF OpenObject
  <2> QED
    BY <2>1, <2>2
<1>2. pc = "value" /\ Tok # "end"
  BY <1>1 DEF Open
<1>3. Stands
  BY <1>2, TopIs DEF ParserInv
<1>4. pos + 1 \in 1 .. Len(doc)
  BY <1>2, NextToken DEF ParserInv, DocInv, Tok
<1>5. CASE ParseFails
  BY <1>3, <1>5, ParseFailsInv DEF ParserInv
<1>6. CASE /\ doc[pos + 1].kind = Closer[shape]
           /\ heap' = [heap EXCEPT ![Top] = [@ EXCEPT !.type = shape]]
           /\ pos' = pos + 2 /\ pc' = "return" /\ UNCHANGED <<doc, strings, stack>>
  <2>1. doc[pos + 1].kind # "end"
    BY <1>1, <1>6 DEF Closer
  <2> QED
    BY <1>1, <1>2, <1>4, <1>6, <2>1, OpenEmptyInv
<1>7. CASE /\ heap' = Append([heap EXCEPT ![Top] = [@ EXCEPT !.type = shape, !.child = Fresh]],
                             New_Item)
           /\ stack' = Append(stack, Fresh)
           /\ pos' = pos + 1 /\ pc' = next_pc /\ UNCHANGED <<doc, strings>>
  BY <1>1, <1>2, <1>4, <1>7, OpenFirstInv
<1> QED
  BY <1>1, <1>5, <1>6, <1>7 DEF Open

(* A comma: another item behind this one.                                  *)
LEMMA NextItemInv ==
    ASSUME ParserInv, NextItem
    PROVE  ParserInv'
<1>1. /\ Stands /\ heap \in Seq(Node(doc)) /\ Top \in 1 .. Len(heap)
      /\ heap[Top] \in Node(doc) /\ heap[Top].live
      /\ Len(heap) \in Nat /\ Fresh = Len(heap) + 1
  BY TopIs DEF ParserInv, NextItem
<1>2. pc = "return" /\ Tok = ","
  BY DEF NextItem
<1>3. pos + 1 \in 1 .. Len(doc)
  BY <1>2, NextToken DEF ParserInv, DocInv, Tok
<1>4. CASE ParseFails
  BY <1>1, <1>4, ParseFailsInv DEF ParserInv
<1>5. CASE /\ heap' = Append([heap EXCEPT ![Top] = [@ EXCEPT !.next = Fresh]],
                             [New_Item EXCEPT !.prev = Top])
           /\ stack' = [stack EXCEPT ![Len(stack)] = Fresh]
           /\ pos' = pos + 1 /\ pc' \in {"value", "name"} /\ UNCHANGED <<doc, strings>>
  <2>1. PICK r, s : r = [heap[Top] EXCEPT !.next = Fresh] /\ s = [New_Item EXCEPT !.prev = Top]
    OBVIOUS
  <2>2. heap' = Append([heap EXCEPT ![Top] = r], s)
    BY <1>5, <2>1
  <2>3. /\ r \in Node(doc) /\ r.live /\ r.next = Fresh
        /\ r.child = heap[Top].child /\ r.prev = heap[Top].prev
        /\ r.string = heap[Top].string /\ r.valuestring = heap[Top].valuestring
    <3>1. Fresh \in Nat
      BY <1>1
    <3> QED
      BY <1>1, <2>1, <3>1 DEF Node
  <2>4. /\ s \in Node(doc) /\ s.live /\ s.child = NoNode /\ s.next = NoNode /\ s.prev = Top
        /\ s.valuestring = Null /\ s.string = Null
    <3>1. Top \in Nat
      BY <1>1
    <3>2. PICK n : n = New_Item
      OBVIOUS
    <3>3. /\ n \in Node(doc) /\ n.live /\ n.child = NoNode /\ n.next = NoNode
          /\ n.valuestring = Null /\ n.string = Null /\ s = [n EXCEPT !.prev = Top]
      BY <2>1, <3>2, NewItem
    <3> QED
      BY <3>1, <3>3 DEF Node
  <2>5. HangsUp(r, s)
    BY <1>5, <2>2, <2>3, <2>4 DEF HangsUp
  <2> QED
    BY <1>2, <1>3, <1>5, <2>5, HangInv
<1> QED
  BY <1>4, <1>5 DEF NextItem

(* The bracket of the parent.                                              *)
LEMMA CloseInv ==
    ASSUME ParserInv, Close
    PROVE  ParserInv'
<1>1. Stands /\ heap \in Seq(Node(doc)) /\ OnStack(heap, stack)
  BY TopIs DEF ParserInv, Close
<1>2. CASE ParseFails
  BY <1>1, <1>2, ParseFailsInv DEF ParserInv
<1>3. CASE /\ Tok = Closer[heap[Parent].type]
           /\ stack' = SubSeq(stack, 1, Len(stack) - 1)
           /\ pos' = pos + 1 /\ UNCHANGED <<doc, heap, strings, pc>>
  <2>1. pc = "return" /\ Len(stack) > 1
    BY DEF Close
  <2>2. PICK M \in Nat : M = Len(stack) /\ M > 1
    BY <1>1, <2>1, LenProperties DEF OnStack
  <2>3. heap[Parent].type \in {"Array", "Object"}
    <3>1. M - 1 \in 1 .. M - 1
      BY <2>2
    <3> QED
      BY <1>1, <2>2, <3>1 DEF OnStack, Parent
  <2>4. pos' \in 1 .. Len(doc)
    <3>1. Tok # "end"
      BY <1>3, <2>3 DEF Closer
    <3> QED
      BY <1>3, <3>1, NextToken DEF ParserInv, DocInv, Tok
  <2>5. OnStack(heap, SubSeq(stack, 1, Len(stack) - 1))
    BY <1>1, <2>1, StackPopped
  <2>6. DocInv'
    BY <1>3, <2>4 DEF ParserInv, DocInv
  <2>7. StackInv'
    BY <1>3, <2>1, <2>5 DEF StackInv
  <2>8. HeapInv'
    <3>1. Stands'
      BY <1>1, <1>3 DEF Stands
    <3> QED
      BY <1>3, <2>1, <3>1 DEF HeapInv
  <2> QED
    BY <2>6, <2>7, <2>8 DEF ParserInv
<1> QED
  BY <1>2, <1>3 DEF Close

LEMMA ParseNextInv ==
    ASSUME ParserInv, ParseNext
    PROVE  ParserInv'
<1>1. CASE ParseBad
  <2>1. Stands /\ ParseFails
    BY <1>1, TopIs DEF ParserInv, ParseBad
  <2> QED
    BY <2>1, ParseFailsInv DEF ParserInv
<1>2. CASE ParseReturns
  <2>1. Stands
    BY <1>2, TopIs DEF ParserInv, ParseReturns
  <2>2. pc' = "tree" /\ UNCHANGED <<doc, pos, heap, strings>>
    BY <1>2 DEF ParseReturns
  <2>3. DocInv' /\ StackInv'
    BY <2>2 DEF ParserInv, DocInv, StackInv
  <2>4. HeapInv'
    BY <2>1, <2>2 DEF HeapInv, Stands
  <2> QED
    BY <2>3, <2>4 DEF ParserInv
<1>3. CASE ReadPastEnd
  <2>1. Stands
    BY <1>3, TopIs DEF ParserInv, ReadPastEnd
  <2>2. pc' = "undefined" /\ UNCHANGED <<doc, pos, heap, strings>>
    BY <1>3 DEF ReadPastEnd, parser
  <2>3. DocInv' /\ StackInv'
    BY <2>2 DEF ParserInv, DocInv, StackInv
  <2>4. HeapInv'
    BY <2>1, <2>2 DEF HeapInv, Stands
  <2> QED
    BY <2>3, <2>4 DEF ParserInv
<1> QED
  BY <1>1, <1>2, <1>3, ParseWithOptsInv, ParseScalarInv, ParseStringInv, OpenInv,
     ParseNameInv, NextItemInv, CloseInv DEF ParseNext

-----------------------------------------------------------------------------
(* The decoders only read the tree, or release it.                         *)
LEMMA ReadsInv ==
    ASSUME ParserInv, UNCHANGED <<doc, pos, heap, strings>>,
           pc' = "done" \/ (Stands /\ pc' = "loop")
    PROVE  ParserInv'
<1>1. DocInv' /\ StackInv'
  BY DEF ParserInv, DocInv, StackInv
<1>2. (Nothing \/ Stands) /\ (Nothing => Nothing') /\ (Stands => Stands')
  BY DEF ParserInv, HeapInv, Nothing, Stands, LiveNodes
<1>3. HeapInv'
  BY <1>2 DEF HeapInv
<1> QED
  BY <1>1, <1>3 DEF ParserInv

LEMMA ReleaseInv ==
    ASSUME ParserInv, Stands, Release, UNCHANGED <<doc, pos>>
    PROVE  ParserInv'
<1>1. Nothing' /\ pc' = "done"
  BY Deleted DEF Release, Returns
<1>2. DocInv' /\ StackInv'
  BY <1>1 DEF ParserInv, DocInv, StackInv
<1>3. HeapInv'
  BY <1>1 DEF HeapInv
<1> QED
  BY <1>2, <1>3 DEF ParserInv

LEMMA DecodeNextInv ==
    ASSUME ParserInv, NoTree \/ FindList \/ DecodeRecord \/ DecodeDomain \/ EndLoop
    PROVE  ParserInv'
<1>1. CASE NoTree
  <2>1. pc' = "done" /\ UNCHANGED <<doc, pos, heap, strings>>
    BY <1>1 DEF NoTree, CheckFails, Returns
  <2> QED
    BY <2>1, ReadsInv
<1>2. CASE FindList
  <2>1. Stands
    BY <1>2 DEF FindList, ParserInv, HeapInv
  <2>2. /\ UNCHANGED <<doc, pos>>
        /\ Release \/ (pc' \in {"done", "loop"} /\ UNCHANGED <<heap, strings>>)
    BY <1>2 DEF FindList, CheckFails, Returns
  <2> QED
    BY <2>1, <2>2, ReadsInv, ReleaseInv
<1>3. CASE DecodeRecord
  <2>1. Stands /\ pc = "loop"
    BY <1>3 DEF DecodeRecord, InLoop, ParserInv, HeapInv
  <2>2. pc' \in {"done", "loop"} /\ UNCHANGED <<doc, pos, heap, strings>>
    BY <1>3, <2>1 DEF DecodeRecord, CheckFails, Crash, Continue, Returns, RecordStep
  <2> QED
    BY <2>1, <2>2, ReadsInv
<1>4. CASE DecodeDomain
  <2>1. Stands /\ pc = "loop"
    BY <1>4 DEF DecodeDomain, InLoop, ParserInv, HeapInv
  <2>2. pc' \in {"done", "loop"} /\ UNCHANGED <<doc, pos, heap, strings>>
    BY <1>4, <2>1 DEF DecodeDomain, CheckFails, Crash, Continue, Returns
  <2> QED
    BY <2>1, <2>2, ReadsInv
<1>5. CASE EndLoop
  <2>1. Stands /\ Release /\ UNCHANGED <<doc, pos>>
    BY <1>5 DEF EndLoop, ParserInv, HeapInv
  <2> QED
    BY <2>1, ReleaseInv
<1> QED
  BY <1>1, <1>2, <1>3, <1>4, <1>5

-----------------------------------------------------------------------------
LEMMA ParserInvInit == Init => ParserInv
<1> SUFFICES ASSUME Init PROVE ParserInv
  OBVIOUS
<1>1. PICK text \in Texts(answer, whole) : doc = Append(text, Punct("end"))
  BY DEF Init
<1>2. text \in Seq(Lexemes)
  BY <1>1, TextsAre DEF Init
<1>3. PICK N \in Nat : N = Len(text) /\ DOMAIN text = 1 .. N
  BY <1>2, LenProperties
<1>4. PICK e : e = Punct("end") /\ e.kind = "end" /\ e.num = 0
  <2>1. Punct("end").kind = "end" /\ Punct("end").num = 0
    BY DEF Punct, Token
  <2> QED
    BY <2>1
<1>5. text \in Seq(Lexemes \cup {e})
  BY <1>2, SeqMonotonic
<1>6. /\ doc \in Seq(Lexemes \cup {e}) /\ Len(doc) = N + 1 /\ doc[N + 1] = e
      /\ \A k \in 1 .. N : doc[k] = text[k]
  BY <1>1, <1>3, <1>4, <1>5, AppendProperties
<1>7. \A k \in 1 .. N : (text[k].kind = "str" => text[k].text # Null) /\ text[k].num \in Nat
  <2>1. \A k \in 1 .. N : text[k] \in Lexemes
    BY <1>2, <1>3, ElementOfSeq
  <2> QED
    BY <2>1, DecodeAssumption DEF Lexemes, Tokens
<1>8. ASSUME NEW k \in 1 .. N + 1
      PROVE  (doc[k].kind = "str" => doc[k].text # Null) /\ doc[k].num \in Nat
  <2>1. CASE k = N + 1
    BY <1>4, <1>6, <2>1
  <2>2. CASE k # N + 1
    <3>1. k \in 1 .. N
      BY <2>2
    <3> QED
      BY <1>6, <1>7, <3>1
  <2> QED
    BY <2>1, <2>2
<1>9. DocInv
  <2>1. pos = 1
    BY DEF Init
  <2>2. 1 \in 1 .. N + 1
    OBVIOUS
  <2> QED
    BY <1>4, <1>6, <1>8, <2>1, <2>2 DEF DocInv
<1>10. StackInv
  BY DEF Init, StackInv
<1>11. HeapInv
  <2>1. heap = <<>>
    BY DEF Init
  <2>2. LiveNodes = {}
    BY <2>1 DEF LiveNodes
  <2> QED
    BY <2>2 DEF Init, HeapInv, Nothing
<1> QED
  BY <1>9, <1>10, <1>11 DEF ParserInv

LEMMA ParserInvNext == ParserInv /\ [Next]_vars => ParserInv'
<1> SUFFICES ASSUME ParserInv, [Next]_vars PROVE ParserInv'
  OBVIOUS
<1>1. CASE UNCHANGED vars
  <2>1. UNCHANGED <<doc, pos, heap, strings, stack, pc>>
    BY <1>1 DEF vars
  <2>2. DocInv' /\ StackInv'
    BY <2>1 DEF ParserInv, DocInv, StackInv, Top
  <2>3. HeapInv'
    BY <2>1 DEF ParserInv, HeapInv, Nothing, Stands, LiveNodes
  <2> QED
    BY <2>2, <2>3 DEF ParserInv
<1> QED
  BY <1>1, ParseNextInv, DecodeNextInv DEF Next, Terminated

LEMMA ParserInvLosesNothing == ParserInv => NothingLost
<1> SUFFICES ASSUME ParserInv PROVE NothingLost
  OBVIOUS
<1>1. CASE Nothing
  <2>1. BuffersOf(heap, {}) = 0
    <3>1. {k \in {} : heap[k].valuestring # Null} = {} /\ {k \in {} : heap[k].string # Null} = {}
      OBVIOUS
    <3> QED
      BY <3>1, FS_EmptySet DEF BuffersOf
  <2> QED
    BY <1>1, <2>1 DEF Nothing, NothingLost
<1>2. CASE Stands
  <2>1. /\ Visited(heap, Root) = 1 .. Len(heap) /\ DOMAIN heap = 1 .. Len(heap)
        /\ Len(heap) \in Nat
    BY <1>2, VisitedAll, LenProperties DEF Stands, Built
  <2>2. LiveNodes = 1 .. Len(heap)
    BY <1>2, <2>1 DEF LiveNodes, Stands, Built, AllLive
  <2>3. strings = BuffersOf(heap, 1 .. Len(heap))
    BY <1>2, <2>1, BuffersType DEF Stands
  <2>4. \A k \in 1 .. Len(heap) : heap[k].next # NoNode => heap[heap[k].next].prev = k
    BY <1>2 DEF Stands, Built, BothWays
  <2> QED
    BY <2>1, <2>2, <2>3, <2>4 DEF NothingLost
<1> QED
  BY <1>1, <1>2 DEF ParserInv, HeapInv

(* The parser never loses a node or a buffer, whatever the text, wherever  *)
(* it is cut off, and whichever call of malloc fails: every node           *)
(* tretap_CJson_New_Item allocated and nobody freed is reached by          *)
(* tretap_CJson_Delete of the root, every buffer of parse_string belongs   *)
(* to one field of such a node, and prev undoes next.                      *)
THEOREM ParserLosesNothing == Spec => []NothingLost
<1> QED
  BY ParserInvInit, ParserInvNext, ParserInvLosesNothing, PTL DEF Spec

-----------------------------------------------------------------------------
(* The calls of parse_value under way are the brackets that are open: one  *)
(* call for the root, and one for each bracket.                            *)
DepthInv ==
    /\ pc = "parse" => pos = 1
    /\ pc = "return" => pos > 1
    /\ pc \in {"value", "name", "return"} =>
          \A f : Depths(doc, f) => f[pos - 1] = Len(stack) - 1

LEMMA DepthStep ==
    ASSUME DocInv, DepthInv, pc \in {"value", "name", "return"}, Len(stack) \in Nat,
           doc' = doc, pos' = pos + 1, pc' \in {"value", "name", "return"},
           Len(stack') = Len(stack) + Delta(doc[pos])
    PROVE  DepthInv'
<1>1. PICK N \in Nat : N = Len(doc) /\ pos \in 1 .. N
  BY LenProperties DEF DocInv
<1>2. pos' > 1 /\ pos' - 1 = pos
  BY <1>1
<1>3. ASSUME NEW f, Depths(doc, f) PROVE f[pos] = Len(stack') - 1
  <2>1. f[pos - 1] = Len(stack) - 1
    BY <1>3 DEF DepthInv
  <2>2. f[pos] = f[pos - 1] + Delta(doc[pos])
    BY <1>1, <1>3 DEF Depths
  <2>3. PICK d \in Int, M \in Nat : d = Delta(doc[pos]) /\ M = Len(stack)
    BY DeltaType
  <2> QED
    BY <2>1, <2>2, <2>3
<1> QED
  BY <1>2, <1>3 DEF DepthInv

LEMMA DepthTwoSteps ==
    ASSUME DocInv, DepthInv, pc \in {"value", "name", "return"}, Len(stack) \in Nat,
           doc' = doc, pos + 1 \in 1 .. Len(doc), pos' = pos + 2,
           pc' \in {"value", "name", "return"}, stack' = stack,
           Delta(doc[pos]) + Delta(doc[pos + 1]) = 0
    PROVE  DepthInv'
<1>1. PICK N \in Nat : N = Len(doc) /\ pos \in 1 .. N /\ pos + 1 \in 1 .. N
  BY LenProperties DEF DocInv
<1>2. pos' > 1 /\ pos' - 1 = pos + 1
  BY <1>1
<1>3. ASSUME NEW f, Depths(doc, f) PROVE f[pos + 1] = Len(stack) - 1
  <2>1. f[pos - 1] = Len(stack) - 1
    BY <1>3 DEF DepthInv
  <2>2. f[pos] = f[pos - 1] + Delta(doc[pos])
    BY <1>1, <1>3 DEF Depths
  <2>3. (pos + 1) - 1 = pos
    BY <1>1
  <2>4. f[pos + 1] = f[pos] + Delta(doc[pos + 1])
    BY <1>1, <1>3, <2>3 DEF Depths
  <2>5. PICK d \in Int, e \in Int, M \in Nat :
            d = Delta(doc[pos]) /\ e = Delta(doc[pos + 1]) /\ M = Len(stack)
    BY DeltaType
  <2>6. d + e = 0
    BY <2>5
  <2>7. f[pos] = (M - 1) + d
    BY <2>1, <2>2, <2>5
  <2>8. f[pos + 1] = ((M - 1) + d) + e
    BY <2>4, <2>5, <2>7
  <2>9. ((M - 1) + d) + e = M - 1
    <3>1. \A m, n, o \in Int : n + o = 0 => ((m - 1) + n) + o = m - 1
      OBVIOUS
    <3>2. M \in Int
      OBVIOUS
    <3> QED
      BY <2>6, <3>1, <3>2
  <2> QED
    BY <2>5, <2>8, <2>9
<1> QED
  BY <1>2, <1>3 DEF DepthInv

LEMMA DepthNext ==
    ASSUME ParserInv, DepthInv, ParseNext
    PROVE  DepthInv'
<1>1. DocInv
  BY DEF ParserInv
<1>2. pc \in {"value", "name", "return"} => Len(stack) \in Nat /\ OnStack(heap, stack)
  BY LenProperties DEF ParserInv, StackInv, OnStack
<1>3. CASE ParseFails
  BY <1>3 DEF ParseFails, DepthInv
<1>4. CASE ParseWithOpts
  <2>1. pc = "parse" /\ pos = 1 /\ UNCHANGED <<doc, pos>>
    BY <1>4 DEF ParseWithOpts, DepthInv
  <2>2. CASE pc' = "no_tree"
    BY <2>2 DEF DepthInv
  <2>3. CASE stack' = <<Root>> /\ pc' = "value"
    <3>1. Len(stack') - 1 = 0 /\ pos' - 1 = 0
      BY <2>1, <2>3
    <3> QED
      BY <2>1, <2>3, <3>1 DEF DepthInv, Depths
  <2> QED
    BY <1>4, <2>2, <2>3 DEF ParseWithOpts
<1>5. CASE ParseScalar
  <2>1. /\ pc = "value" /\ pc' = "return" /\ pos' = pos + 1 /\ doc' = doc /\ stack' = stack
        /\ Delta(doc[pos]) = 0
    BY <1>5 DEF ParseScalar, Tok, Delta
  <2>2. Len(stack') = Len(stack) + Delta(doc[pos])
    BY <1>2, <2>1
  <2> QED
    BY <1>1, <1>2, <2>1, <2>2, DepthStep
<1>6. CASE ParseString /\ ~ ParseFails
  <2>1. /\ pc = "value" /\ pc' = "return" /\ pos' = pos + 1 /\ doc' = doc /\ stack' = stack
        /\ Delta(doc[pos]) = 0
    BY <1>6 DEF ParseString, Tok, Delta
  <2>2. Len(stack') = Len(stack) + Delta(doc[pos])
    BY <1>2, <2>1
  <2> QED
    BY <1>1, <1>2, <2>1, <2>2, DepthStep
<1>7. CASE (OpenArray \/ OpenObject) /\ ~ ParseFails
  <2>1. PICK bracket, shape, next_pc :
            /\ \/ bracket = "[" /\ shape = "Array" /\ next_pc = "value"
               \/ bracket = "{" /\ shape = "Object" /\ next_pc = "name"
            /\ Open(bracket, shape, next_pc)
    <3>1. CASE OpenArray
      BY <3>1 DEF OpenArray
    <3>2. CASE OpenObject
      BY <3>2 DEF OpenObject
    <3> QED
      BY <1>7, <3>1, <3>2
  <2>2. pc = "value" /\ Tok \in {"[", "{"} /\ Closer[shape] \in {"]", "}"}
    BY <2>1 DEF Open, Closer
  <2>3. Delta(doc[pos]) = 1
    BY <2>2 DEF Tok, Delta
  <2>4. pos + 1 \in 1 .. Len(doc)
    BY <1>1, <2>2, NextToken DEF DocInv, Tok
  <2>5. CASE doc[pos + 1].kind = Closer[shape]
    <3>1. /\ pc' = "return" /\ pos' = pos + 2 /\ UNCHANGED <<doc, stack>>
      BY <2>1, <2>5 DEF Open
    <3>2. Delta(doc[pos + 1]) = -1
      BY <2>2, <2>5 DEF Delta
    <3>3. Delta(doc[pos]) + Delta(doc[pos + 1]) = 0
      BY <2>3, <3>2
    <3> QED
      BY <1>1, <1>2, <2>2, <2>4, <3>1, <3>3, DepthTwoSteps
  <2>6. CASE doc[pos + 1].kind # Closer[shape]
    <3>1. pc' \in {"value", "name"} /\ pos' = pos + 1 /\ doc' = doc /\ stack' = Append(stack, Fresh)
      BY <1>7, <2>1, <2>6 DEF Open
    <3>2. Len(stack') = Len(stack) + 1
      <4>1. PICK S : stack \in Seq(S)
        BY <1>2, <2>2 DEF OnStack
      <4>2. PICK n : n = Fresh
        OBVIOUS
      <4>3. stack \in Seq(S \cup {n})
        BY <4>1, SeqMonotonic
      <4>4. Len(Append(stack, n)) = Len(stack) + 1
        BY <4>3, AppendProperties
      <4> QED
        BY <3>1, <4>2, <4>4
    <3>3. Len(stack') = Len(stack) + Delta(doc[pos])
      BY <2>3, <3>2
    <3> QED
      BY <1>1, <1>2, <2>2, <3>1, <3>3, DepthStep
  <2> QED
    BY <2>5, <2>6
<1>8. CASE ParseName /\ ~ ParseFails
  <2>1. /\ pc = "name" /\ pc' = "value" /\ pos' = pos + 2 /\ doc' = doc /\ stack' = stack
        /\ doc[pos].kind = "str" /\ doc[pos + 1].kind = ":"
    BY <1>8 DEF ParseName, Tok
  <2>2. pos + 1 \in 1 .. Len(doc)
    BY <1>1, <2>1, NextToken DEF DocInv
  <2>3. Delta(doc[pos]) = 0 /\ Delta(doc[pos + 1]) = 0
    BY <2>1 DEF Delta
  <2>4. Delta(doc[pos]) + Delta(doc[pos + 1]) = 0
    BY <2>3
  <2> QED
    BY <1>1, <1>2, <2>1, <2>2, <2>4, DepthTwoSteps
<1>9. CASE NextItem /\ ~ ParseFails
  <2>1. /\ pc = "return" /\ pc' \in {"value", "name"} /\ pos' = pos + 1 /\ doc' = doc
        /\ stack' = [stack EXCEPT ![Len(stack)] = Fresh] /\ Delta(doc[pos]) = 0
    BY <1>9 DEF NextItem, Tok, Delta
  <2>2. Len(stack') = Len(stack)
    BY <1>2, <2>1 DEF OnStack
  <2>3. Len(stack') = Len(stack) + Delta(doc[pos])
    BY <1>2, <2>1, <2>2
  <2> QED
    BY <1>1, <1>2, <2>1, <2>3, DepthStep
<1>10. CASE Close /\ ~ ParseFails
  <2>1. /\ pc = "return" /\ pc' = "return" /\ pos' = pos + 1 /\ doc' = doc /\ Len(stack) > 1
        /\ stack' = SubSeq(stack, 1, Len(stack) - 1)
        /\ Tok = Closer[heap[Parent].type]
    BY <1>10 DEF Close
  <2>2. PICK M \in Nat : M = Len(stack) /\ M > 1
    BY <1>2, <2>1
  <2>3. heap[Parent].type \in {"Array", "Object"}
    <3>1. M - 1 \in 1 .. M - 1
      BY <2>2
    <3> QED
      BY <1>2, <2>1, <2>2, <3>1 DEF OnStack, Parent
  <2>4. Delta(doc[pos]) = -1
    <3>1. Tok \in {"]", "}"}
      BY <2>1, <2>3 DEF Closer
    <3> QED
      BY <3>1 DEF Tok, Delta
  <2>5. Len(stack') = M - 1
    <3>1. \A a \in 1 .. M - 1 : stack[a] \in 1 .. Len(heap)
      <4>1. \A a \in 1 .. M - 1 : a \in 1 .. M
        BY <2>2
      <4> QED
        BY <1>2, <2>1, <2>2, <4>1, ElementOfSeq DEF OnStack
    <3>2. Len(SubSeq(stack, 1, M - 1)) = IF 1 <= M - 1 THEN (M - 1) - 1 + 1 ELSE 0
      BY <2>2, <3>1, SubSeqProperties
    <3>3. 1 <= M - 1 /\ (M - 1) - 1 + 1 = M - 1
      BY <2>2
    <3> QED
      BY <2>1, <2>2, <3>2, <3>3
  <2>6. Len(stack') = Len(stack) + Delta(doc[pos])
    BY <2>2, <2>4, <2>5
  <2> QED
    BY <1>1, <1>2, <2>1, <2>6, DepthStep
<1>11. CASE ParseBad
  BY <1>3, <1>11 DEF ParseBad
<1>12. CASE ParseReturns \/ ReadPastEnd
  BY <1>12 DEF ParseReturns, ReadPastEnd, DepthInv
<1> QED
  BY <1>3, <1>4, <1>5, <1>6, <1>7, <1>8, <1>9, <1>10, <1>11, <1>12 DEF ParseNext

-----------------------------------------------------------------------------
(* A text that broke off has a bracket open everywhere behind its start,   *)
(* so that the call for the root never returns with a tree.                *)
StillOpen(d) ==
    \E f : Depths(d, f) /\ \A k \in 1 .. Len(d) - 1 : f[k] # 0

CutInv ==
    ~whole => StillOpen(doc) /\ pc \notin {"tree", "loop"}

LEMMA EndDepths ==
    ASSUME NEW text \in Seq(Lexemes), NEW f, Depths(text, f)
    PROVE  \E g : /\ Depths(Append(text, Punct("end")), g)
                  /\ \A k \in 0 .. Len(text) : g[k] = f[k]
<1>1. PICK N \in Nat : N = Len(text)
  BY LenProperties
<1>2. PICK d, e : d = Append(text, e) /\ e = Punct("end") /\ Delta(e) = 0
  <2>1. Delta(Punct("end")) = 0
    BY DEF Punct, Token, Delta
  <2> QED
    BY <2>1
<1>3. Len(d) = N + 1 /\ d[N + 1] = e /\ \A k \in 1 .. N : d[k] = text[k]
  <2>1. text \in Seq(Lexemes \cup {e})
    BY SeqMonotonic
  <2> QED
    BY <1>1, <1>2, <2>1, AppendProperties
<1>4. PICK g : g = [k \in 0 .. N + 1 |-> IF k = N + 1 THEN f[N] ELSE f[k]]
  OBVIOUS
<1>5. f \in [0 .. N -> Nat] /\ f[0] = 0
  BY <1>1 DEF Depths
<1>6. g \in [0 .. N + 1 -> Nat] /\ g[0] = 0 /\ g[N + 1] = f[N] /\ \A k \in 0 .. N : g[k] = f[k]
  <2>1. \A k \in 0 .. N + 1 : k # N + 1 => k \in 0 .. N
    OBVIOUS
  <2>2. \A k \in 0 .. N : k \in 0 .. N + 1 /\ k # N + 1
    OBVIOUS
  <2>3. N \in 0 .. N /\ N + 1 \in 0 .. N + 1 /\ 0 \in 0 .. N
    OBVIOUS
  <2>4. \A k \in 0 .. N + 1 : g[k] \in Nat
    BY <1>4, <1>5, <2>1, <2>3
  <2> QED
    BY <1>4, <1>5, <2>2, <2>3, <2>4
<1>7. ASSUME NEW k \in 1 .. N + 1 PROVE g[k] = g[k - 1] + Delta(d[k])
  <2>1. CASE k = N + 1
    <3>1. k - 1 = N /\ N \in 0 .. N /\ f[N] \in Nat
      BY <1>5, <2>1
    <3>2. g[k] = f[N] /\ g[k - 1] = f[N] /\ Delta(d[k]) = 0
      BY <1>2, <1>3, <1>6, <2>1, <3>1
    <3> QED
      BY <3>1, <3>2
  <2>2. CASE k # N + 1
    <3>1. k \in 1 .. N /\ k \in 0 .. N /\ k - 1 \in 0 .. N
      BY <2>2
    <3>2. g[k] = f[k] /\ g[k - 1] = f[k - 1] /\ d[k] = text[k]
      BY <1>3, <1>6, <3>1
    <3>3. f[k] = f[k - 1] + Delta(text[k])
      BY <1>1, <3>1 DEF Depths
    <3> QED
      BY <3>2, <3>3
  <2> QED
    BY <2>1, <2>2
<1>8. Depths(d, g)
  BY <1>3, <1>6, <1>7 DEF Depths
<1> QED
  BY <1>1, <1>2, <1>6, <1>8

LEMMA EndBehind ==
    ASSUME NEW text, StaysOpen(text)
    PROVE  StillOpen(Append(text, Punct("end")))
<1>1. PICK f : Depths(text, f) /\ \A k \in 1 .. Len(text) : f[k] # 0
  BY DEF StaysOpen
<1>2. PICK N \in Nat : N = Len(text) /\ text \in Seq(Lexemes)
  BY LenProperties DEF StaysOpen
<1>3. PICK g : /\ Depths(Append(text, Punct("end")), g)
               /\ \A k \in 0 .. Len(text) : g[k] = f[k]
  BY <1>1, <1>2, EndDepths
<1>4. PICK e : e = Punct("end")
  OBVIOUS
<1>5. Len(Append(text, e)) = N + 1
  <2>1. text \in Seq(Lexemes \cup {e})
    BY <1>2, SeqMonotonic
  <2> QED
    BY <1>2, <2>1, AppendProperties
<1>6. ASSUME NEW k \in 1 .. Len(Append(text, e)) - 1 PROVE g[k] # 0
  <2>1. k \in 1 .. N /\ k \in 0 .. N
    BY <1>5
  <2> QED
    BY <1>1, <1>2, <1>3, <2>1
<1> QED
  BY <1>3, <1>4, <1>6 DEF StillOpen

LEMMA CutInvInit == Init => DepthInv /\ CutInv /\ CutNeverDecoded
<1> SUFFICES ASSUME Init PROVE DepthInv /\ CutInv /\ CutNeverDecoded
  OBVIOUS
<1>1. pc = "parse" /\ pos = 1
  BY DEF Init
<1>2. DepthInv
  BY <1>1 DEF DepthInv
<1>3. CutNeverDecoded
  BY DEF Init, CutNeverDecoded
<1>4. ASSUME ~ whole PROVE StillOpen(doc)
  <2>1. PICK text \in Texts(answer, whole) : doc = Append(text, Punct("end"))
    BY DEF Init
  <2>2. StaysOpen(text)
    BY <1>4, <2>1, TextsAre DEF Init
  <2> QED
    BY <2>1, <2>2, EndBehind
<1> QED
  BY <1>1, <1>2, <1>3, <1>4 DEF CutInv

(* The call for the root returns only behind the bracket that closes it.   *)
LEMMA NoReturn ==
    ASSUME ParserInv, DepthInv, CutInv, ~ whole, pc = "return"
    PROVE  Len(stack) # 1
<1>1. PICK N \in Nat : N = Len(doc) /\ pos \in 1 .. N /\ pos > 1
  BY LenProperties DEF ParserInv, DocInv, DepthInv
<1>2. PICK f : Depths(doc, f) /\ \A k \in 1 .. Len(doc) - 1 : f[k] # 0
  BY DEF CutInv, StillOpen
<1>3. pos - 1 \in 1 .. N - 1
  BY <1>1
<1>4. f[pos - 1] = Len(stack) - 1 /\ f[pos - 1] # 0
  BY <1>1, <1>2, <1>3 DEF DepthInv
<1> SUFFICES ASSUME Len(stack) = 1 PROVE FALSE
  OBVIOUS
<1> QED
  BY <1>4

LEMMA CutInvNext ==
    ParserInv /\ DepthInv /\ CutInv /\ CutNeverDecoded /\ [Next]_vars =>
        DepthInv' /\ CutInv' /\ CutNeverDecoded'
<1> SUFFICES ASSUME ParserInv, DepthInv, CutInv, CutNeverDecoded, [Next]_vars
             PROVE  DepthInv' /\ CutInv' /\ CutNeverDecoded'
  OBVIOUS
<1>1. CASE ParseNext /\ UNCHANGED decoder
  <2>1. DepthInv'
    BY <1>1, DepthNext
  <2>2. UNCHANGED <<whole, ret, record, domain>>
    BY <1>1 DEF decoder
  <2>3. doc' = doc
    BY <1>1 DEF ParseNext, ParseWithOpts, ParseScalar, ParseString, OpenArray, OpenObject,
                Open, ParseBad, ParseName, NextItem, Close, ParseReturns, ReadPastEnd,
                ParseFails, parser
  <2>4. pc' = "loop" \/ pc' = "tree" => ParseReturns
    BY <1>1 DEF ParseNext, ParseWithOpts, ParseScalar, ParseString, OpenArray, OpenObject,
                Open, ParseBad, ParseName, NextItem, Close, ReadPastEnd, ParseFails
  <2>5. ~ whole => ~ ParseReturns
    BY NoReturn DEF ParseReturns
  <2>6. CutNeverDecoded'
    BY <2>2 DEF CutNeverDecoded
  <2>7. CutInv'
    BY <2>2, <2>3, <2>4, <2>5 DEF CutInv
  <2> QED
    BY <2>1, <2>6, <2>7
<1>2. CASE NoTree
  <2>1. /\ pc' = "done" /\ ret' = "false" /\ UNCHANGED <<doc, whole, record, domain>>
    BY <1>2 DEF NoTree, CheckFails, Returns
  <2>2. DepthInv' /\ CutInv'
    BY <2>1 DEF DepthInv, CutInv
  <2>3. CutNeverDecoded'
    BY <2>1 DEF CutNeverDecoded
  <2> QED
    BY <2>2, <2>3
<1>3. CASE FindList \/ DecodeRecord \/ DecodeDomain \/ EndLoop
  <2>1. pc \in {"tree", "loop"} /\ whole' = whole
    BY <1>3 DEF FindList, DecodeRecord, DecodeDomain, EndLoop, InLoop
  <2>2. whole'
    BY <2>1 DEF CutInv
  <2>3. pc' \in {"done", "loop"}
    BY <1>3, <2>1 DEF FindList, DecodeRecord, DecodeDomain, EndLoop, Release, CheckFails, Crash,
                      Continue, Returns, RecordStep, InLoop
  <2> QED
    BY <2>2, <2>3 DEF DepthInv, CutInv, CutNeverDecoded
<1>4. CASE UNCHANGED vars
  <2>1. UNCHANGED <<doc, pos, stack, pc, whole, ret, record, domain>>
    BY <1>4 DEF vars
  <2> QED
    BY <2>1 DEF DepthInv, CutInv, CutNeverDecoded
<1> QED
  BY <1>1, <1>2, <1>3, <1>4 DEF Next, Terminated

(* An answer that did not arrive completely is never used, whatever the    *)
(* service answered and wherever the transfer broke off: the call of       *)
(* parse_value for the root would have to return while a bracket of the    *)
(* text is open.                                                           *)
THEOREM CutTextNeverUsed == Spec => []CutNeverDecoded
<1> DEFINE Inv == ParserInv /\ DepthInv /\ CutInv /\ CutNeverDecoded
<1>1. Init => Inv
  BY ParserInvInit, CutInvInit
<1>2. Inv /\ [Next]_vars => Inv'
  BY ParserInvNext, CutInvNext
<1>3. Inv => CutNeverDecoded
  OBVIOUS
<1> QED
  BY <1>1, <1>2, <1>3, PTL DEF Spec

=============================================================================
