---------------------------- MODULE DecodeProofs -----------------------------
(***************************************************************************)
(* The decoders of ResponseDecode: what they put into the object is what   *)
(* the rows of the answer say.  The look-ups in the tree of the text find  *)
(* the members of the rows; the loops keep in the object what the rows     *)
(* they have seen say.                                                     *)
(***************************************************************************)
EXTENDS TreeProofs

(* The first m elements of a function, as a sequence.                      *)
Prefix(kids, m) == [k \in 1 .. m |-> kids[k]]

LEMMA PrefixIs ==
    ASSUME NEW kids, NEW N \in Nat, NEW S, kids \in [1 .. N -> S], NEW m \in 0 .. N
    PROVE  Prefix(kids, m) \in Seq(S) /\ Len(Prefix(kids, m)) = m
BY DEF Prefix

LEMMA PrefixGrows ==
    ASSUME NEW kids, NEW N \in Nat, NEW S, kids \in [1 .. N -> S]
    PROVE  /\ Prefix(kids, 0) = <<>>
           /\ N # 0 => Prefix(kids, 1) = <<kids[1]>>
           /\ \A m \in 1 .. N - 1 : Prefix(kids, m + 1) = Append(Prefix(kids, m), kids[m + 1])
<1>1. Prefix(kids, 0) = <<>>
  BY DEF Prefix
<1>2. ASSUME N # 0 PROVE Prefix(kids, 1) = <<kids[1]>>
  <2>1. \A k \in 1 .. 1 : k = 1
    OBVIOUS
  <2>2. <<kids[1]>> = [k \in 1 .. 1 |-> kids[1]]
    OBVIOUS
  <2> QED
    BY <2>1, <2>2 DEF Prefix
<1>3. ASSUME NEW m \in 1 .. N - 1
      PROVE  Prefix(kids, m + 1) = Append(Prefix(kids, m), kids[m + 1])
  <2>1. PICK s, t, e : s = Prefix(kids, m) /\ t = Prefix(kids, m + 1) /\ e = kids[m + 1]
    OBVIOUS
  <2>2. m \in 0 .. N /\ m + 1 \in 0 .. N /\ m + 1 \in 1 .. N
    OBVIOUS
  <2>3. s \in Seq(S) /\ Len(s) = m /\ t \in Seq(S) /\ Len(t) = m + 1 /\ e \in S
    BY <2>1, <2>2, PrefixIs
  <2>4. /\ Append(s, e) \in Seq(S) /\ Len(Append(s, e)) = m + 1
        /\ Append(s, e)[m + 1] = e /\ \A k \in 1 .. m : Append(s, e)[k] = s[k]
    BY <2>3, AppendProperties
  <2>5. \A k \in 1 .. m + 1 : t[k] = kids[k]
    BY <2>1 DEF Prefix
  <2>6. \A k \in 1 .. m : s[k] = kids[k]
    BY <2>1 DEF Prefix
  <2>7. ASSUME NEW k \in 1 .. m + 1 PROVE Append(s, e)[k] = t[k]
    <3>1. CASE k = m + 1
      BY <2>1, <2>4, <2>5, <3>1
    <3>2. CASE k # m + 1
      <4>1. k \in 1 .. m
        BY <3>2
      <4> QED
        BY <2>4, <2>5, <2>6, <4>1
    <3> QED
      BY <3>1, <3>2
  <2>8. t = Append(s, e)
    BY <2>3, <2>4, <2>7, SeqEqual
  <2> QED
    BY <2>1, <2>8
<1> QED
  BY <1>1, <1>2, <1>3

(* The recursive function of Children.                                     *)
Start(h, c) == IF h[c].child = NoNode THEN <<>> ELSE <<h[c].child>>

Further(h, s) ==
    IF s = <<>> THEN s
    ELSE IF h[s[Len(s)]].next = NoNode THEN s
    ELSE Append(s, h[s[Len(s)]].next)

IsWalk(v, h, c, N) ==
    v = [n \in 0 .. N |-> IF n = 0 THEN Start(h, c) ELSE Further(h, v[n - 1])]

Walk(h, c, N) == CHOOSE v : IsWalk(v, h, c, N)

LEMMA ChildrenByWalk ==
    ASSUME NEW c
    PROVE  Children(c) = Walk(heap, c, Len(heap))[Len(heap)]
BY DEF Children, Walk, IsWalk, Start, Further

(* The items kids are those below item c, one behind the other.            *)
Chained(h, c, kids, N) ==
    /\ kids \in [1 .. N -> 1 .. Len(h)]
    /\ h[c].child = IF N = 0 THEN NoNode ELSE kids[1]
    /\ \A k \in 1 .. N : h[kids[k]].next = IF k = N THEN NoNode ELSE kids[k + 1]

LEMMA WalkStep ==
    ASSUME NEW h, NEW c, NEW kids, NEW N \in Nat, Chained(h, c, kids, N), NEW m \in 1 .. N
    PROVE  Further(h, Prefix(kids, m)) = Prefix(kids, IF m = N THEN N ELSE m + 1)
<1>1. PICK s : s = Prefix(kids, m)
  OBVIOUS
<1>2. kids \in [1 .. N -> 1 .. Len(h)] /\ m \in 0 .. N
  BY DEF Chained
<1>3. s \in Seq(1 .. Len(h)) /\ Len(s) = m /\ s[m] = kids[m] /\ s # <<>>
  <2>1. s \in Seq(1 .. Len(h)) /\ Len(s) = m
    BY <1>1, <1>2, PrefixIs
  <2> QED
    BY <1>1, <2>1 DEF Prefix
<1>4. h[s[Len(s)]].next = IF m = N THEN NoNode ELSE kids[m + 1]
  BY <1>3 DEF Chained
<1>5. CASE m = N
  BY <1>1, <1>4, <1>5, <1>3 DEF Further
<1>6. CASE m # N
  <2>1. m \in 1 .. N - 1 /\ m + 1 \in 1 .. N
    BY <1>6
  <2>2. kids[m + 1] # NoNode
    BY <1>2, <2>1 DEF NoNode
  <2>3. Further(h, s) = Append(s, kids[m + 1])
    BY <1>3, <1>4, <1>6, <2>2 DEF Further
  <2>4. Prefix(kids, m + 1) = Append(Prefix(kids, m), kids[m + 1])
    BY <1>2, <2>1, PrefixGrows
  <2> QED
    BY <1>1, <1>6, <2>3, <2>4
<1> QED
  BY <1>5, <1>6

Reach(n, N) == IF n + 1 <= N THEN n + 1 ELSE N

LEMMA ReachIs ==
    ASSUME NEW N \in Nat, N # 0, NEW n \in Nat
    PROVE  /\ Reach(n, N) \in 1 .. N /\ Reach(0, N) = 1
           /\ n # 0 => Reach(n, N) = IF Reach(n - 1, N) = N THEN N ELSE Reach(n - 1, N) + 1
BY DEF Reach

(* What has been walked after n steps.                                     *)
LEMMA WalkIs ==
    ASSUME NEW h, NEW c, NEW kids, NEW N \in Nat, Chained(h, c, kids, N)
    PROVE  /\ Start(h, c) = Prefix(kids, Reach(0, N))
           /\ \A n \in Nat : n # 0 =>
                 Further(h, Prefix(kids, Reach(n - 1, N))) = Prefix(kids, Reach(n, N))
<1>1. kids \in [1 .. N -> 1 .. Len(h)]
  BY DEF Chained
<1>2. CASE N = 0
  <2>1. \A n \in Nat : Reach(n, N) = 0
    BY <1>2 DEF Reach
  <2>2. Prefix(kids, 0) = <<>>
    BY <1>1, PrefixGrows
  <2>3. Start(h, c) = <<>>
    BY <1>2 DEF Start, Chained
  <2>4. Further(h, <<>>) = <<>>
    BY DEF Further
  <2>5. ASSUME NEW n \in Nat, n # 0
        PROVE  Further(h, Prefix(kids, Reach(n - 1, N))) = Prefix(kids, Reach(n, N))
    <3>1. n - 1 \in Nat
      BY <2>5
    <3>2. Reach(n - 1, N) = 0 /\ Reach(n, N) = 0
      BY <2>1, <3>1
    <3> QED
      BY <2>2, <2>4, <3>2
  <2> QED
    BY <2>1, <2>2, <2>3, <2>5
<1>3. CASE N # 0
  <2>1. Start(h, c) = <<kids[1]>>
    <3>1. 1 \in 1 .. N /\ kids[1] # NoNode
      BY <1>1, <1>3 DEF NoNode
    <3> QED
      BY <1>3, <3>1 DEF Start, Chained
  <2>2. Prefix(kids, 1) = <<kids[1]>> /\ Reach(0, N) = 1
    BY <1>1, <1>3, PrefixGrows, ReachIs
  <2>3. ASSUME NEW n \in Nat, n # 0
        PROVE  Further(h, Prefix(kids, Reach(n - 1, N))) = Prefix(kids, Reach(n, N))
    <3>1. n - 1 \in Nat
      BY <2>3
    <3>2. PICK m : m = Reach(n - 1, N)
      OBVIOUS
    <3>3. m \in 1 .. N
      BY <1>3, <3>1, <3>2, ReachIs
    <3>4. Reach(n, N) = IF m = N THEN N ELSE m + 1
      BY <1>3, <2>3, <3>2, ReachIs
    <3>5. Further(h, Prefix(kids, m)) = Prefix(kids, IF m = N THEN N ELSE m + 1)
      BY <3>3, WalkStep
    <3> QED
      BY <3>2, <3>4, <3>5
  <2> QED
    BY <2>1, <2>2, <2>3
<1> QED
  BY <1>2, <1>3

LEMMA WalkOf ==
    ASSUME NEW h, NEW c, NEW kids, NEW N \in Nat, Chained(h, c, kids, N), NEW L \in Nat
    PROVE  Walk(h, c, L)[L] = Prefix(kids, Reach(L, N))
<1> DEFINE w == [n \in 0 .. L |-> Prefix(kids, Reach(n, N))]
<1>1. ASSUME NEW n \in 0 .. L
      PROVE  w[n] = IF n = 0 THEN Start(h, c) ELSE Further(h, w[n - 1])
  <2>1. w[n] = Prefix(kids, Reach(n, N)) /\ n \in Nat
    OBVIOUS
  <2>2. CASE n = 0
    BY <2>1, <2>2, WalkIs
  <2>3. CASE n # 0
    <3>1. n - 1 \in 0 .. L
      BY <2>3
    <3>2. w[n - 1] = Prefix(kids, Reach(n - 1, N))
      BY <3>1
    <3>3. Further(h, Prefix(kids, Reach(n - 1, N))) = Prefix(kids, Reach(n, N))
      BY <2>1, <2>3, WalkIs
    <3> HIDE DEF w
    <3> QED
      BY <2>1, <2>3, <3>2, <3>3
  <2> QED
    BY <2>2, <2>3
<1>2. w = [n \in 0 .. L |-> w[n]]
  OBVIOUS
<1>3. \A n \in 0 .. L : w[n] = Prefix(kids, Reach(n, N))
  OBVIOUS
<1> HIDE DEF w
<1>4. IsWalk(w, h, c, L)
  BY <1>1, <1>2 DEF IsWalk
<1>5. IsWalk(Walk(h, c, L), h, c, L)
  BY <1>4, Zenon DEF Walk
<1>6. PICK v : v = Walk(h, c, L)
  OBVIOUS
<1>7. \A n \in 0 .. L : v[n] = IF n = 0 THEN Start(h, c) ELSE Further(h, v[n - 1])
  <2>1. v = [n \in 0 .. L |-> IF n = 0 THEN Start(h, c) ELSE Further(h, v[n - 1])]
    BY <1>5, <1>6 DEF IsWalk
  <2> QED
    BY <2>1
<1> DEFINE Off == {n \in 0 .. L : v[n] # w[n]}
<1>8. Off = {}
  <2> SUFFICES ASSUME Off # {} PROVE FALSE
    OBVIOUS
  <2>0. Off \subseteq Nat
    OBVIOUS
  <2>1. PICK n \in Off : \A m \in Off : n <= m
    <3> HIDE DEF Off
    <3> QED
      BY <2>0, LeastNat
  <2>2. n \in 0 .. L /\ v[n] # w[n]
    BY <2>1
  <2>3. CASE n = 0
    BY <1>1, <1>7, <2>2, <2>3
  <2>4. CASE n # 0
    <3>1. n - 1 \in 0 .. L /\ ~ (n <= n - 1)
      BY <2>2, <2>4
    <3>2. v[n - 1] = w[n - 1]
      BY <2>1, <3>1
    <3> HIDE DEF Off
    <3>3. v[n] = Further(h, v[n - 1]) /\ w[n] = Further(h, w[n - 1])
      BY <1>1, <1>7, <2>2, <2>4
    <3> QED
      BY <2>2, <3>2, <3>3
  <2> QED
    BY <2>3, <2>4
<1>9. L \in 0 .. L
  OBVIOUS
<1>10. v[L] = w[L]
  BY <1>8, <1>9
<1> QED
  BY <1>3, <1>6, <1>9, <1>10

LEMMA ChildrenAre ==
    ASSUME NEW c, NEW kids, NEW N \in Nat, Chained(heap, c, kids, N), Len(heap) \in Nat,
           N <= Len(heap)
    PROVE  /\ Len(Children(c)) = N /\ DOMAIN Children(c) = 1 .. N
           /\ \A k \in 1 .. N : Children(c)[k] = kids[k]
<1>1. Children(c) = Prefix(kids, Reach(Len(heap), N))
  BY ChildrenByWalk, WalkOf
<1>2. Reach(Len(heap), N) = N
  BY DEF Reach
<1>3. kids \in [1 .. N -> 1 .. Len(heap)] /\ N \in 0 .. N
  BY DEF Chained
<1>4. Len(Prefix(kids, N)) = N
  BY <1>3, PrefixIs
<1> QED
  BY <1>1, <1>2, <1>4 DEF Prefix

-----------------------------------------------------------------------------
(* The values of a series are those of items, each the next of the one     *)
(* before.                                                                 *)
Sibling(h, at, p, x) == x \in 1 .. Len(h) /\ x # Root /\ at[x] = p

LEMMA SiblingOnce ==
    ASSUME NEW h, NEW at, NEW N \in Nat, N = Len(h), Ordered(at, N), NEW p, NEW x, NEW y,
           Sibling(h, at, p, x), Sibling(h, at, p, y)
    PROVE  x = y
<1>1. x \in 1 .. N /\ y \in 1 .. N /\ at[x] = at[y] /\ at[x] \in Nat /\ x \in Int /\ y \in Int
  BY DEF Sibling, Ordered
<1>2. ~ (x < y) /\ ~ (y < x)
  BY <1>1 DEF Ordered
<1> QED
  BY <1>1, <1>2

LEMMA NextSibling ==
    ASSUME NEW h, NEW d, NEW f, NEW at, Settled(h, d, f, at),
           \A k \in 1 .. Len(h) : h[k].next \in 0 .. Len(h),
           NEW s, NEW e, NEW N \in Nat, Series(d, f, s, e, N),
           NEW k \in 1 .. N, NEW x, Sibling(h, at, s[k], x)
    PROVE  IF k = N THEN h[x].next = NoNode
                    ELSE Sibling(h, at, s[k + 1], h[x].next)
<1>1. x \in 1 .. Len(h) /\ x # Root /\ at[x] = s[k]
  BY DEF Sibling
<1>2. NextIs(h[x], d, f, s[k], at)
  BY <1>1 DEF Settled, Linked
<1>3. PICK q : /\ Ends(f, s[k], q)
               /\ IF Comma(d[q + 1]) THEN h[x].next # NoNode /\ at[h[x].next] = Behind(d, s[k], q)
                                     ELSE h[x].next = NoNode
  BY <1>2 DEF NextIs
<1>4. Ends(f, s[k], e[k]) /\ f[s[k] - 1] \in Int
  BY DEF Series
<1>5. q = e[k]
  BY <1>3, <1>4, EndsOnce
<1>6. CASE k = N
  BY <1>3, <1>5, <1>6 DEF Series
<1>7. CASE k # N
  <2>1. k \in 1 .. N - 1 /\ k + 1 \in 1 .. N
    BY <1>7
  <2>2. Comma(d[e[k] + 1]) /\ s[k + 1] = Behind(d, s[k], e[k])
    BY <2>1 DEF Series, Behind
  <2>3. h[x].next # NoNode /\ at[h[x].next] = s[k + 1]
    BY <1>3, <1>5, <2>2
  <2>4. h[x].next \in 1 .. Len(h)
    <3>1. h[x].next \in 0 .. Len(h)
      BY <1>1
    <3> QED
      BY <2>3, <3>1 DEF NoNode
  <2>5. s[k + 1] >= 2 /\ at[Root] = 1
    BY <2>1 DEF Series, Settled, Ordered
  <2>6. h[x].next # Root
    BY <2>3, <2>5
  <2> QED
    BY <1>7, <2>3, <2>4, <2>6 DEF Sibling
<1> QED
  BY <1>6, <1>7

LEMMA SiblingsExist ==
    ASSUME NEW h, NEW d, NEW f, NEW at, Settled(h, d, f, at),
           \A k \in 1 .. Len(h) : h[k].next \in 0 .. Len(h),
           NEW s, NEW e, NEW N \in Nat, N # 0, Series(d, f, s, e, N),
           NEW x, Sibling(h, at, s[1], x)
    PROVE  \A k \in 1 .. N : \E y : Sibling(h, at, s[k], y)
<1> DEFINE Lost == {k \in 1 .. N : ~ \E y : Sibling(h, at, s[k], y)}
<1> SUFFICES ASSUME Lost # {} PROVE FALSE
  OBVIOUS
<1>1. Lost \subseteq Nat
  OBVIOUS
<1>2. PICK k \in Lost : \A j \in Lost : k <= j
  <2> HIDE DEF Lost
  <2> QED
    BY <1>1, LeastNat
<1>3. k \in 1 .. N /\ ~ \E y : Sibling(h, at, s[k], y)
  BY <1>2
<1>4. k # 1
  BY <1>3
<1>5. k - 1 \in 1 .. N /\ ~ (k <= k - 1) /\ k - 1 # N /\ (k - 1) + 1 = k
  BY <1>3, <1>4
<1>6. PICK y : Sibling(h, at, s[k - 1], y)
  BY <1>2, <1>5
<1> HIDE DEF Lost
<1>7. PICK j : j = k - 1 /\ j \in 1 .. N /\ j # N /\ j + 1 = k
  BY <1>5
<1>8. Sibling(h, at, s[j + 1], h[y].next)
  BY <1>6, <1>7, NextSibling
<1> QED
  BY <1>3, <1>7, <1>8

LEMMA KidsOf ==
    ASSUME NEW h, NEW d, NEW f, NEW at, Settled(h, d, f, at), Inside(h), Len(h) \in Nat,
           NEW s, NEW e, NEW N \in Nat, N # 0, Series(d, f, s, e, N),
           NEW c \in 1 .. Len(h), h[c].child # NoNode, at[h[c].child] = s[1]
    PROVE  \E kids : /\ Chained(h, c, kids, N) /\ N <= Len(h)
                     /\ \A k \in 1 .. N : Sibling(h, at, s[k], kids[k])
<1>1. /\ \A k \in 1 .. Len(h) : h[k].next \in 0 .. Len(h)
      /\ h[c].child \in 0 .. Len(h) /\ 1 \in 1 .. N
  BY DEF Inside
<1>2. /\ Ordered(at, Len(h)) /\ at[Root] = 1 /\ \A k \in 1 .. N : s[k] \in Nat /\ s[k] >= 2
  BY DEF Settled, Ordered, Series
<1>3. Sibling(h, at, s[1], h[c].child)
  <2>1. h[c].child \in 1 .. Len(h)
    BY <1>1 DEF NoNode
  <2> QED
    BY <1>1, <1>2, <2>1 DEF Sibling
<1>4. \A k \in 1 .. N : \E y : Sibling(h, at, s[k], y)
  BY <1>1, <1>3, SiblingsExist
<1> DEFINE kids == [k \in 1 .. N |-> CHOOSE y : Sibling(h, at, s[k], y)]
<1>5. ASSUME NEW k \in 1 .. N PROVE Sibling(h, at, s[k], kids[k])
  <2>1. Sibling(h, at, s[k], CHOOSE y : Sibling(h, at, s[k], y))
    BY <1>4, Zenon
  <2> QED
    BY <2>1
<1>6. kids \in [1 .. N -> 1 .. Len(h)]
  <2>1. \A k \in 1 .. N : kids[k] \in 1 .. Len(h)
    <3> HIDE DEF kids
    <3> QED
      BY <1>5 DEF Sibling
  <2>2. kids = [k \in 1 .. N |-> kids[k]]
    OBVIOUS
  <2> HIDE DEF kids
  <2> QED
    BY <2>1, <2>2
<1> HIDE DEF kids
<1>7. h[c].child = kids[1]
  BY <1>1, <1>2, <1>3, <1>5, SiblingOnce
<1>8. ASSUME NEW k \in 1 .. N
      PROVE  h[kids[k]].next = IF k = N THEN NoNode ELSE kids[k + 1]
  <2>1. IF k = N THEN h[kids[k]].next = NoNode
                 ELSE Sibling(h, at, s[k + 1], h[kids[k]].next)
    BY <1>1, <1>5, NextSibling
  <2>2. CASE k = N
    BY <2>1, <2>2
  <2>3. CASE k # N
    <3>1. k + 1 \in 1 .. N
      BY <2>3
    <3>2. Sibling(h, at, s[k + 1], kids[k + 1]) /\ Sibling(h, at, s[k + 1], h[kids[k]].next)
      BY <1>5, <2>1, <2>3, <3>1
    <3>3. h[kids[k]].next = kids[k + 1]
      BY <1>2, <3>2, SiblingOnce
    <3> QED
      BY <2>3, <3>3
  <2> QED
    BY <2>2, <2>3
<1>9. Chained(h, c, kids, N)
  BY <1>6, <1>7, <1>8 DEF Chained
<1>10. ASSUME NEW k \in 1 .. N - 1 PROVE kids[k] < kids[k + 1]
  <2>1. k \in 1 .. N /\ k + 1 \in 1 .. N
    OBVIOUS
  <2>2. PICK x, y \in 1 .. Len(h) : x = kids[k] /\ y = kids[k + 1]
    BY <1>6, <2>1
  <2>3. at[x] = s[k] /\ at[y] = s[k + 1]
    BY <1>5, <2>1, <2>2 DEF Sibling
  <2>4. s[k] < s[k + 1]
    <3>1. e[k] \in Nat /\ s[k] <= e[k]
      BY <2>1 DEF Series, Ends
    <3>2. s[k + 1] = e[k] + 4 \/ s[k + 1] = e[k] + 2
      BY DEF Series
    <3> QED
      BY <1>2, <2>1, <3>1, <3>2
  <2>5. at[x] \in Nat /\ at[y] \in Nat /\ ~ (y < x) /\ x # y
    BY <1>2, <2>3, <2>4 DEF Ordered
  <2> QED
    BY <2>2, <2>5
<1> DEFINE Small == {k \in 1 .. N : ~ (kids[k] >= k)}
<1>11. Small = {}
  <2> SUFFICES ASSUME Small # {} PROVE FALSE
    OBVIOUS
  <2>1. Small \subseteq Nat
    OBVIOUS
  <2>2. PICK k \in Small : \A j \in Small : k <= j
    <3> HIDE DEF Small
    <3> QED
      BY <2>1, LeastNat
  <2>3. k \in 1 .. N /\ ~ (kids[k] >= k) /\ kids[k] \in 1 .. Len(h)
    BY <1>6, <2>2
  <2>4. k # 1
    BY <2>3
  <2>5. k - 1 \in 1 .. N /\ ~ (k <= k - 1) /\ k - 1 \in 1 .. N - 1 /\ (k - 1) + 1 = k
    BY <2>3, <2>4
  <2>6. kids[k - 1] >= k - 1
    BY <2>2, <2>5
  <2> HIDE DEF Small
  <2>7. PICK j : j = k - 1 /\ j \in 1 .. N - 1 /\ j + 1 = k /\ kids[j] >= j /\ j \in 1 .. N
    BY <2>5, <2>6
  <2>8. kids[j] < kids[j + 1] /\ kids[j] \in 1 .. Len(h)
    BY <1>6, <1>10, <2>7
  <2> QED
    BY <2>3, <2>7, <2>8
<1>12. N <= Len(h)
  <2>1. N \in 1 .. N
    OBVIOUS
  <2>2. kids[N] >= N
    BY <1>11, <2>1
  <2> QED
    BY <1>6, <2>1, <2>2
<1> QED
  BY <1>5, <1>9, <1>12

(* The value of item x is the text s.                                      *)
Sits(f, at, x, s) ==
    /\ Settled(heap, doc, f, at) /\ Depths(doc, f) /\ Built(heap, doc)
    /\ x \in 1 .. Len(heap)
    /\ Placed(doc, at[x] - 1, s)

LEMMA SitsAt ==
    ASSUME NEW f, NEW at, NEW x, NEW s, Sits(f, at, x, s)
    PROVE  /\ Len(heap) \in Nat /\ Inside(heap) /\ Ordered(at, Len(heap)) /\ at[x] \in Nat
           /\ at[x] >= 1 /\ x \in Nat /\ x # NoNode
           /\ ItemOf(heap[x], doc[at[x]]) /\ ChildIs(heap[x], doc, at[x], at)
<1>1. /\ x \in 1 .. Len(heap) /\ Ordered(at, Len(heap)) /\ Inside(heap)
      /\ heap \in Seq(Node(doc))
      /\ ItemOf(heap[x], doc[at[x]]) /\ ChildIs(heap[x], doc, at[x], at)
  BY DEF Sits, Settled, Items, Built
<1>2. Len(heap) \in Nat
  BY <1>1, LenProperties
<1>3. at[x] \in Nat
  BY <1>1 DEF Ordered
<1>4. at[x] - 1 \in Nat
  BY DEF Sits, Placed
<1> QED
  BY <1>1, <1>2, <1>3, <1>4 DEF NoNode

LEMMA KidsByChild ==
    ASSUME NEW f, NEW at, NEW x, NEW text, Sits(f, at, x, text),
           NEW shape \in {"Array", "Object"}, TypeOf(doc[at[x]]) = shape,
           NEW N \in Nat, doc[at[x] + 1].kind = Closer[shape] <=> N = 0,
           NEW s, NEW e, N # 0 => Series(doc, f, s, e, N) /\ s[1] = First(doc, at[x])
    PROVE  /\ heap[x].type = shape
           /\ Len(Children(x)) = N /\ DOMAIN Children(x) = 1 .. N
           /\ \A k \in 1 .. N : Sibling(heap, at, s[k], Children(x)[k])
<1>1. /\ Len(heap) \in Nat /\ Inside(heap) /\ x \in 1 .. Len(heap)
      /\ ItemOf(heap[x], doc[at[x]]) /\ ChildIs(heap[x], doc, at[x], at)
      /\ Settled(heap, doc, f, at)
  BY SitsAt DEF Sits
<1>2. heap[x].type = shape
  BY <1>1 DEF ItemOf
<1>3. Full(doc, at[x]) <=> N # 0
  BY DEF Full
<1>4. CASE N = 0
  <2>1. heap[x].child = NoNode
    BY <1>1, <1>3, <1>4 DEF ChildIs
  <2>2. PICK kids : kids = [k \in 1 .. 0 |-> 1]
    OBVIOUS
  <2>3. Chained(heap, x, kids, N)
    BY <1>4, <2>1, <2>2 DEF Chained
  <2> QED
    BY <1>1, <1>2, <1>4, <2>3, ChildrenAre
<1>5. CASE N # 0
  <2>1. heap[x].child # NoNode /\ at[heap[x].child] = s[1]
    BY <1>1, <1>3, <1>5 DEF ChildIs
  <2>2. PICK kids : /\ Chained(heap, x, kids, N) /\ N <= Len(heap)
                    /\ \A k \in 1 .. N : Sibling(heap, at, s[k], kids[k])
    BY <1>1, <1>5, <2>1, KidsOf
  <2>3. /\ Len(Children(x)) = N /\ DOMAIN Children(x) = 1 .. N
        /\ \A k \in 1 .. N : Children(x)[k] = kids[k]
    BY <1>1, <2>2, ChildrenAre
  <2> QED
    BY <1>2, <2>2, <2>3
<1> QED
  BY <1>4, <1>5

(* The items below that of an array, and below that of an object.          *)
LEMMA ArrayKids ==
    ASSUME NEW f, NEW at, NEW x, NEW parts, NEW N \in Nat, DOMAIN parts = 1 .. N,
           \A k \in 1 .. N : Value(parts[k]), Sits(f, at, x, Array(parts))
    PROVE  /\ heap[x].type = "Array"
           /\ Len(Children(x)) = N /\ DOMAIN Children(x) = 1 .. N
           /\ \A k \in 1 .. N : Sits(f, at, Children(x)[k], parts[k])
<1>1. PICK o : o = at[x] - 1
  OBVIOUS
<1>2. /\ Depths(doc, f) /\ Placed(doc, o, Array(parts)) /\ at[x] \in Nat
      /\ o + 1 = at[x] /\ o + 2 = at[x] + 1
  <2>1. at[x] \in Nat
    BY SitsAt
  <2>2. Depths(doc, f) /\ Placed(doc, o, Array(parts))
    BY <1>1 DEF Sits
  <2> QED
    BY <1>1, <2>1, <2>2
<1>3. /\ o \in Nat /\ TypeOf(doc[o + 1]) = "Array"
      /\ doc[o + 2].kind = Closer["Array"] <=> N = 0
      /\ N # 0 => \E s, e : /\ Series(doc, f, s, e, N) /\ s[1] = o + 2
                            /\ \A k \in 1 .. N : Placed(doc, s[k] - 1, parts[k])
  BY <1>2, ArrayAt
<1>4. PICK s, e : N # 0 => /\ Series(doc, f, s, e, N) /\ s[1] = o + 2
                           /\ \A k \in 1 .. N : Placed(doc, s[k] - 1, parts[k])
  BY <1>3
<1>5. N # 0 => Series(doc, f, s, e, N) /\ s[1] = First(doc, at[x])
  BY <1>2, <1>3, <1>4 DEF First
<1>6. TypeOf(doc[at[x]]) = "Array" /\ (doc[at[x] + 1].kind = Closer["Array"] <=> N = 0)
  BY <1>2, <1>3
<1>7. /\ heap[x].type = "Array"
      /\ Len(Children(x)) = N /\ DOMAIN Children(x) = 1 .. N
      /\ \A k \in 1 .. N : Sibling(heap, at, s[k], Children(x)[k])
  BY <1>5, <1>6, KidsByChild
<1>8. ASSUME NEW k \in 1 .. N PROVE Sits(f, at, Children(x)[k], parts[k])
  <2>1. Sibling(heap, at, s[k], Children(x)[k]) /\ Placed(doc, s[k] - 1, parts[k])
    BY <1>4, <1>7
  <2> QED
    BY <2>1 DEF Sits, Sibling
<1> QED
  BY <1>7, <1>8

HoldsMembers(f, at, x, members, N) ==
    /\ heap[x].type = "Object"
    /\ Len(Children(x)) = N /\ DOMAIN Children(x) = 1 .. N
    /\ \A k \in 1 .. N : /\ Sits(f, at, Children(x)[k], members[k][2])
                         /\ heap[Children(x)[k]].string = members[k][1]

LEMMA ObjectKids ==
    ASSUME NEW f, NEW at, NEW x, NEW members, NEW N \in Nat, DOMAIN members = 1 .. N,
           \A k \in 1 .. N : members[k][1] \in Strings /\ Value(members[k][2]),
           Sits(f, at, x, Object(members))
    PROVE  HoldsMembers(f, at, x, members, N)
<1>1. PICK o : o = at[x] - 1
  OBVIOUS
<1>2. /\ Depths(doc, f) /\ Placed(doc, o, Object(members)) /\ at[x] \in Nat
      /\ o + 1 = at[x] /\ o + 2 = at[x] + 1 /\ o + 4 = at[x] + 3
  <2>1. at[x] \in Nat
    BY SitsAt
  <2>2. Depths(doc, f) /\ Placed(doc, o, Object(members))
    BY <1>1 DEF Sits
  <2> QED
    BY <1>1, <2>1, <2>2
<1>3. /\ o \in Nat /\ TypeOf(doc[o + 1]) = "Object"
      /\ doc[o + 2].kind = Closer["Object"] <=> N = 0
      /\ N # 0 => \E s, e : /\ Series(doc, f, s, e, N) /\ s[1] = o + 4
                            /\ \A k \in 1 .. N :
                                  /\ Placed(doc, s[k] - 1, members[k][2])
                                  /\ doc[s[k] - 1].kind = ":"
                                  /\ doc[s[k] - 2] = Str(members[k][1])
  <2>1. Depths(doc, f) /\ Placed(doc, o, Object(members))
    BY <1>2
  <2>2. Braced(doc, f, o, members, N)
    BY <2>1, ObjectAt
  <2> QED
    BY <2>2 DEF Braced
<1>4. PICK s, e : N # 0 => /\ Series(doc, f, s, e, N) /\ s[1] = o + 4
                           /\ \A k \in 1 .. N :
                                 /\ Placed(doc, s[k] - 1, members[k][2])
                                 /\ doc[s[k] - 1].kind = ":"
                                 /\ doc[s[k] - 2] = Str(members[k][1])
  BY <1>3
<1>5. N # 0 => Series(doc, f, s, e, N) /\ s[1] = First(doc, at[x])
  BY <1>2, <1>3, <1>4 DEF First
<1>6. TypeOf(doc[at[x]]) = "Object" /\ (doc[at[x] + 1].kind = Closer["Object"] <=> N = 0)
  BY <1>2, <1>3
<1>7. /\ heap[x].type = "Object"
      /\ Len(Children(x)) = N /\ DOMAIN Children(x) = 1 .. N
      /\ \A k \in 1 .. N : Sibling(heap, at, s[k], Children(x)[k])
  BY <1>5, <1>6, KidsByChild
<1>8. ASSUME NEW k \in 1 .. N
      PROVE  /\ Sits(f, at, Children(x)[k], members[k][2])
             /\ heap[Children(x)[k]].string = members[k][1]
  <2>1. PICK y : y = Children(x)[k]
    OBVIOUS
  <2>2. /\ Sibling(heap, at, s[k], y) /\ Placed(doc, s[k] - 1, members[k][2])
        /\ doc[s[k] - 1].kind = ":" /\ doc[s[k] - 2] = Str(members[k][1])
    BY <1>4, <1>7, <2>1
  <2>3. y \in 1 .. Len(heap) /\ y # Root /\ at[y] = s[k]
    BY <2>2 DEF Sibling
  <2>4. NameIs(heap[y], doc, at[y])
    BY <2>3 DEF Sits, Settled, Labelled
  <2>5. heap[y].string = Str(members[k][1]).text
    BY <2>2, <2>3, <2>4 DEF NameIs
  <2>6. heap[y].string = members[k][1]
    BY <2>5 DEF Str, Token
  <2>7. Sits(f, at, y, members[k][2])
    BY <2>2, <2>3 DEF Sits
  <2> QED
    BY <2>1, <2>6, <2>7
<1> QED
  BY <1>7, <1>8 DEF HoldsMembers

-----------------------------------------------------------------------------
(* The look-up of a name below an item whose children have these names.    *)
Bears(x, names, N) ==
    /\ DOMAIN Children(x) = 1 .. N
    /\ \A k \in 1 .. N : heap[Children(x)[k]].string = names[k] /\ names[k] # Null

FirstOf(names, name, k) ==
    /\ Lower[names[k]] = Lower[name]
    /\ \A j \in 1 .. k - 1 : Lower[names[j]] # Lower[name]

LEMMA GetFirst ==
    ASSUME NEW x, NEW names, NEW N \in Nat, Bears(x, names, N), NEW name,
           NEW k \in 1 .. N, FirstOf(names, name, k)
    PROVE  Get(x, name) = Children(x)[k]
<1>1. PICK kids : kids = Children(x)
  OBVIOUS
<1> DEFINE Hits == {j \in DOMAIN kids : /\ heap[kids[j]].string # Null
                                        /\ Lower[heap[kids[j]].string] = Lower[name]}
<1>2. Hits = {j \in 1 .. N : Lower[names[j]] = Lower[name]}
  BY <1>1 DEF Bears
<1>3. Get(x, name) = IF Hits = {} THEN NoNode ELSE kids[CHOOSE j \in Hits : \A l \in Hits : j <= l]
  BY <1>1 DEF Get, GetObjectItem
<1> HIDE DEF Hits
<1>4. k \in Hits
  BY <1>2 DEF FirstOf
<1>5. ASSUME NEW j \in Hits PROVE k <= j
  <2>1. j \in 1 .. N /\ Lower[names[j]] = Lower[name]
    BY <1>2
  <2>2. j \notin 1 .. k - 1
    BY <2>1 DEF FirstOf
  <2> QED
    BY <2>1, <2>2
<1>6. \A j \in Hits : j \in Int /\ (\A l \in Hits : j <= l) => j = k
  BY <1>2, <1>4, <1>5
<1>7. (CHOOSE j \in Hits : \A l \in Hits : j <= l) = k
  <2>1. \A j \in Hits : (\A l \in Hits : j <= l) => j = k
    BY <1>2, <1>6
  <2> QED
    BY <1>4, <1>5, <2>1
<1> QED
  BY <1>1, <1>3, <1>4, <1>7

LEMMA GetNone ==
    ASSUME NEW x, NEW names, NEW N \in Nat, Bears(x, names, N), NEW name,
           \A k \in 1 .. N : Lower[names[k]] # Lower[name]
    PROVE  Get(x, name) = NoNode
BY DEF Bears, Get, GetObjectItem

(* The item of a row, as the decoders see it.                              *)
RowIs(x, row) ==
    \A name : IF Has(row, name)
                THEN /\ Get(x, name) # NoNode
                     /\ Field(row, name) \in Scalars
                     /\ ItemOf(heap[Get(x, name)], Field(row, name))
                ELSE Get(x, name) = NoNode

LEMMA FieldIs ==
    ASSUME NEW S, NEW row \in Seq(S), NEW name, Has(row, name)
    PROVE  \E k \in 1 .. Len(row) :
               /\ FirstOf([j \in 1 .. Len(row) |-> row[j][1]], name, k)
               /\ Field(row, name) = row[k][2]
<1>1. PICK N \in Nat : N = Len(row) /\ DOMAIN row = 1 .. N
  BY LenProperties
<1>2. PICK names : names = [j \in 1 .. N |-> row[j][1]]
  OBVIOUS
<1>3. \A j \in 1 .. N : names[j] = row[j][1]
  BY <1>2
<1> DEFINE T == {j \in 1 .. N : Lower[row[j][1]] = Lower[name]}
<1>4. T # {} /\ T \subseteq Nat
  BY <1>1 DEF Has
<1>5. PICK k \in T : \A j \in T : k <= j
  <2> HIDE DEF T
  <2> QED
    BY <1>4, LeastNat
<1>6. k \in 1 .. N /\ Lower[row[k][1]] = Lower[name]
  BY <1>5
<1>7. \A j \in 1 .. k - 1 : j \in 1 .. N /\ ~ (k <= j)
  BY <1>6
<1>8. \A j \in 1 .. k - 1 : Lower[row[j][1]] # Lower[name]
  BY <1>5, <1>7
<1> HIDE DEF T
<1>9. FirstOf(names, name, k)
  BY <1>3, <1>6, <1>7, <1>8 DEF FirstOf
<1> DEFINE P(j) == /\ Lower[row[j][1]] = Lower[name]
                   /\ \A l \in 1 .. j - 1 : Lower[row[l][1]] # Lower[name]
<1>10. ASSUME NEW j \in 1 .. N, P(j) PROVE j = k
  <2>1. ~ (j \in 1 .. k - 1)
    BY <1>8, <1>10
  <2>2. ~ (k \in 1 .. j - 1)
    BY <1>6, <1>10
  <2> QED
    BY <1>6, <2>1, <2>2
<1>11. P(k)
  BY <1>6, <1>8
<1>12. Field(row, name) = row[CHOOSE j \in 1 .. N : P(j)][2]
  BY <1>1 DEF Field
<1>13. (CHOOSE j \in 1 .. N : P(j)) = k
  <2> HIDE DEF P
  <2> QED
    BY <1>6, <1>10, <1>11
<1> QED
  BY <1>1, <1>2, <1>6, <1>9, <1>12, <1>13

LEMMA ScalarValue ==
    ASSUME NEW t \in Scalars
    PROVE  Value(<<t>>)
<1>1. t \in Lexemes /\ Delta(t) = 0
  BY ScalarIs
<1>2. <<t>> \in Seq(Lexemes) /\ Len(<<t>>) = 1 /\ <<t>>[1] = t
  BY <1>1, OneToken
<1> QED
  BY <1>1, <1>2 DEF Value

LEMMA TokenSits ==
    ASSUME NEW f, NEW at, NEW x, NEW t, Sits(f, at, x, <<t>>)
    PROVE  ItemOf(heap[x], t)
<1>1. at[x] \in Nat /\ ItemOf(heap[x], doc[at[x]])
  BY SitsAt
<1>2. Len(<<t>>) = 1 /\ <<t>>[1] = t
  OBVIOUS
<1>3. \A p \in 1 .. Len(<<t>>) : doc[(at[x] - 1) + p] = <<t>>[p]
  BY DEF Sits, Placed
<1>4. doc[(at[x] - 1) + 1] = t
  BY <1>2, <1>3
<1>5. (at[x] - 1) + 1 = at[x]
  BY <1>1
<1> QED
  BY <1>1, <1>4, <1>5

LEMMA RowSits ==
    ASSUME NEW f, NEW at, NEW x, NEW row \in Seq(Strings \X Scalars),
           Sits(f, at, x, RowText(row))
    PROVE  RowIs(x, row)
<1>1. PICK N \in Nat : N = Len(row) /\ DOMAIN row = 1 .. N
  BY LenProperties
<1>2. \A k \in 1 .. N : row[k] \in Strings \X Scalars
  BY <1>1, ElementOfSeq
<1>3. \A k \in 1 .. N : row[k][1] \in Strings /\ row[k][2] \in Scalars
  BY <1>2
<1>4. PICK ms : ms = [k \in 1 .. N |-> <<row[k][1], <<row[k][2]>>>>]
  OBVIOUS
<1>5. /\ DOMAIN ms = 1 .. N
      /\ \A k \in 1 .. N : ms[k][1] = row[k][1] /\ ms[k][2] = <<row[k][2]>>
  BY <1>4
<1>6. Sits(f, at, x, Object(ms))
  BY <1>1, <1>4 DEF RowText
<1>7. \A k \in 1 .. N : ms[k][1] \in Strings /\ Value(ms[k][2])
  BY <1>3, <1>5, ScalarValue
<1>8. /\ DOMAIN Children(x) = 1 .. N
      /\ \A k \in 1 .. N : /\ Sits(f, at, Children(x)[k], ms[k][2])
                           /\ heap[Children(x)[k]].string = ms[k][1]
  <2>1. HoldsMembers(f, at, x, ms, N)
    BY <1>5, <1>6, <1>7, ObjectKids
  <2> QED
    BY <2>1 DEF HoldsMembers
<1>9. PICK names : names = [k \in 1 .. N |-> row[k][1]]
  OBVIOUS
<1>10. \A k \in 1 .. N : names[k] = row[k][1] /\ names[k] # Null
  BY <1>3, <1>9, DecodeAssumption
<1>11. Bears(x, names, N)
  BY <1>5, <1>8, <1>10 DEF Bears
<1>12. ASSUME NEW name, Has(row, name)
       PROVE  /\ Get(x, name) # NoNode
              /\ Field(row, name) \in Scalars
              /\ ItemOf(heap[Get(x, name)], Field(row, name))
  <2>1. PICK k \in 1 .. N : FirstOf(names, name, k) /\ Field(row, name) = row[k][2]
    BY <1>1, <1>9, <1>12, FieldIs
  <2>2. PICK y : y = Children(x)[k] /\ y = Get(x, name)
    BY <1>11, <2>1, GetFirst
  <2>3. Sits(f, at, y, <<row[k][2]>>)
    BY <1>5, <1>8, <2>2
  <2>4. y # NoNode /\ ItemOf(heap[y], row[k][2])
    BY <2>3, SitsAt, TokenSits
  <2> QED
    BY <1>3, <2>1, <2>2, <2>4
<1>13. ASSUME NEW name, ~ Has(row, name) PROVE Get(x, name) = NoNode
  <2>1. \A k \in 1 .. N : Lower[names[k]] # Lower[name]
    BY <1>1, <1>10, <1>13 DEF Has
  <2> QED
    BY <1>11, <2>1, GetNone
<1> QED
  BY <1>12, <1>13 DEF RowIs

(* The same in an object of one or of two members.                         *)
LEMMA GetOne ==
    ASSUME NEW f, NEW at, NEW x, NEW name \in Strings, NEW value, Value(value), NEW key,
           Sits(f, at, x, Object(<< <<name, value>> >>))
    PROVE  /\ heap[x].type = "Object"
           /\ IF Lower[name] = Lower[key] THEN Sits(f, at, Get(x, key), value)
                                         ELSE Get(x, key) = NoNode
<1>1. PICK ms : ms = << <<name, value>> >>
  OBVIOUS
<1>2. DOMAIN ms = 1 .. 1 /\ ms[1][1] = name /\ ms[1][2] = value
  BY <1>1
<1>3. \A k \in 1 .. 1 : k = 1
  OBVIOUS
<1>4. \A k \in 1 .. 1 : ms[k][1] \in Strings /\ Value(ms[k][2])
  BY <1>2, <1>3
<1>5. /\ heap[x].type = "Object" /\ DOMAIN Children(x) = 1 .. 1
      /\ \A k \in 1 .. 1 : /\ Sits(f, at, Children(x)[k], ms[k][2])
                           /\ heap[Children(x)[k]].string = ms[k][1]
  <2>1. Sits(f, at, x, Object(ms)) /\ 1 \in Nat /\ DOMAIN ms = 1 .. 1
    BY <1>1, <1>2
  <2> HIDE <1>1
  <2>2. HoldsMembers(f, at, x, ms, 1)
    BY <1>4, <2>1, ObjectKids
  <2> QED
    BY <2>2 DEF HoldsMembers
<1>6. PICK names : names = [k \in 1 .. 1 |-> name]
  OBVIOUS
<1>7. Bears(x, names, 1) /\ names[1] = name
  BY <1>2, <1>3, <1>5, <1>6, DecodeAssumption DEF Bears
<1>8. CASE Lower[name] = Lower[key]
  <2>1. 1 \in 1 .. 1 /\ FirstOf(names, key, 1)
    BY <1>7, <1>8 DEF FirstOf
  <2>2. Get(x, key) = Children(x)[1]
    BY <1>7, <2>1, GetFirst
  <2> QED
    BY <1>2, <1>5, <1>8, <2>1, <2>2
<1>9. CASE Lower[name] # Lower[key]
  <2>1. \A k \in 1 .. 1 : Lower[names[k]] # Lower[key]
    BY <1>3, <1>7, <1>9
  <2>2. Get(x, key) = NoNode
    BY <1>7, <2>1, GetNone
  <2> QED
    BY <1>5, <1>9, <2>2
<1> QED
  BY <1>8, <1>9

LEMMA GetSecond ==
    ASSUME NEW f, NEW at, NEW x, NEW name \in Strings, NEW value, Value(value),
           NEW other \in Strings, NEW second, Value(second), Lower[name] # Lower[other],
           Sits(f, at, x, Object(<< <<name, value>>, <<other, second>> >>))
    PROVE  Sits(f, at, Get(x, other), second)
<1>1. PICK ms : ms = << <<name, value>>, <<other, second>> >>
  OBVIOUS
<1>2. /\ DOMAIN ms = 1 .. 2 /\ ms[1][1] = name /\ ms[1][2] = value
      /\ ms[2][1] = other /\ ms[2][2] = second
  BY <1>1
<1>3. \A k \in 1 .. 2 : k = 1 \/ k = 2
  OBVIOUS
<1>4. \A k \in 1 .. 2 : ms[k][1] \in Strings /\ Value(ms[k][2])
  BY <1>2, <1>3
<1>5. /\ DOMAIN Children(x) = 1 .. 2
      /\ \A k \in 1 .. 2 : /\ Sits(f, at, Children(x)[k], ms[k][2])
                           /\ heap[Children(x)[k]].string = ms[k][1]
  <2>1. Sits(f, at, x, Object(ms)) /\ 2 \in Nat /\ DOMAIN ms = 1 .. 2
    BY <1>1, <1>2
  <2> HIDE <1>1
  <2>2. HoldsMembers(f, at, x, ms, 2)
    BY <1>4, <2>1, ObjectKids
  <2> QED
    BY <2>2 DEF HoldsMembers
<1>6. PICK names : names = [k \in 1 .. 2 |-> ms[k][1]]
  OBVIOUS
<1>7. \A k \in 1 .. 2 : names[k] = ms[k][1] /\ names[k] # Null
  BY <1>4, <1>6, DecodeAssumption
<1>8. Bears(x, names, 2)
  BY <1>5, <1>7 DEF Bears
<1>9. 2 \in 1 .. 2 /\ 1 \in 1 .. 2 /\ \A j \in 1 .. 2 - 1 : j = 1
  OBVIOUS
<1>10. FirstOf(names, other, 2)
  BY <1>2, <1>7, <1>9 DEF FirstOf
<1>11. Get(x, other) = Children(x)[2]
  BY <1>8, <1>9, <1>10, GetFirst
<1> QED
  BY <1>2, <1>5, <1>9, <1>11

(* The look-ups of FindList in the tree of an answer.                      *)
Rows(c) ==
    /\ c # NoNode /\ Len(Children(c)) = Len(answer.rows)
    /\ \A k \in 1 .. Len(answer.rows) : RowIs(Children(c)[k], answer.rows[k])

LEMMA ListFound ==
    ASSUME answer \in Answers, NEW f, NEW at, Sits(f, at, Root, Document(answer))
    PROVE  LET second == Get(Root, "Response")
               third  == Get(second, ListName(answer.api))
           IN  /\ second # NoNode
               /\ answer.shape = "list" => Rows(third) /\ heap[third].type = "Array"
               /\ answer.shape # "list" => third = NoNode \/ heap[third].type # "Array"
<1>1. PICK a : a = answer /\ a \in Answers
  OBVIOUS
<1>2. /\ a \in Answer
      /\ {"Response", "CountInfo", "Total", "Error", "Code", "AuthFailure",
          "RecordList", "DomainList"} \subseteq Strings
      /\ Lower["CountInfo"] \notin {Lower["RecordList"], Lower["DomainList"]}
  BY <1>1, DecodeAssumption
<1>3. a.rows \in Seq(Seq(Strings \X Scalars)) /\ a.shape \in {"list", "null", "error"}
  BY <1>2 DEF Answer
<1>4. PICK N \in Nat : N = Len(a.rows) /\ DOMAIN a.rows = 1 .. N
  BY <1>3, LenProperties
<1>5. ListName(a.api) \in Strings /\ Lower["CountInfo"] # Lower[ListName(a.api)]
  BY <1>2 DEF ListName
<1> DEFINE total == Object(<< <<"Total", <<Num(Len(a.rows))>>>> >>)
           texts == [k \in 1 .. N |-> RowText(a.rows[k])]
           code  == Object(<< <<"Code", <<Str("AuthFailure")>>>> >>)
<1>6. Nested(total)
  <2>1. Closed(<<Num(Len(a.rows))>>)
    BY <1>4, NumIs
  <2> QED
    BY <1>2, <2>1, NestedOne
<1>7. Nested(code)
  <2>1. Closed(<<Str("AuthFailure")>>)
    BY <1>2, StrIs
  <2> QED
    BY <1>2, <2>1, NestedOne
<1>8. \A k \in 1 .. N : a.rows[k] \in Seq(Strings \X Scalars) /\ texts[k] = RowText(a.rows[k])
  BY <1>3, <1>4, ElementOfSeq
<1>9. DOMAIN texts = 1 .. N /\ \A k \in 1 .. N : Nested(texts[k])
  BY <1>8, NestedRow
<1>10. PICK null : null = <<Punct("null")>>
  OBVIOUS
<1>11. /\ a.shape = "list" =>
            Document(a) = Object(<< <<"Response", Object(<< <<"CountInfo", total>>,
                                                  <<ListName(a.api), Array(texts)>> >>)>> >>)
       /\ a.shape = "null" =>
            Document(a) = Object(<< <<"Response", Object(<< <<"CountInfo", total>>,
                                                  <<ListName(a.api), null>> >>)>> >>)
       /\ a.shape = "error" =>
            Document(a) = Object(<< <<"Response", Object(<< <<"Error", code>> >>)>> >>)
  BY <1>4, <1>10 DEF Document
<1> HIDE DEF total, texts, code
<1>12. Nested(Array(texts))
  BY <1>9, NestedArray, NestedIsClosed
<1>13. PICK n : n = Punct("null") /\ n \in Scalars /\ TypeOf(n) # "Array"
  <2>1. Punct("null") \in Scalars
    BY DEF Scalars
  <2>2. Punct("null").kind = "null"
    BY DEF Punct, Token
  <2>3. TypeOf(Punct("null")) = "NULL"
    BY <2>2, TypeOfScalars
  <2> QED
    BY <2>1, <2>3
<1>14. Value(null)
  BY <1>10, <1>13, ScalarValue
<1>15. Value(total) /\ Value(code) /\ Value(Array(texts))
  BY <1>6, <1>7, <1>12 DEF Value
<1>16. PICK inner :
           /\ Document(a) = Object(<< <<"Response", Object(inner)>> >>) /\ Value(Object(inner))
           /\ \/ /\ a.shape = "list"
                 /\ inner = << <<"CountInfo", total>>, <<ListName(a.api), Array(texts)>> >>
              \/ /\ a.shape = "null"
                 /\ inner = << <<"CountInfo", total>>, <<ListName(a.api), null>> >>
              \/ a.shape = "error" /\ inner = << <<"Error", code>> >>
  <2>1. Closed(total) /\ Closed(code) /\ Closed(Array(texts)) /\ Closed(null)
    BY <1>6, <1>7, <1>12, <1>14, NestedIsClosed, ValueIs
  <2>2. Nested(Object(<< <<"CountInfo", total>>, <<ListName(a.api), Array(texts)>> >>))
    BY <1>2, <1>5, <2>1, NestedTwo
  <2>3. Nested(Object(<< <<"CountInfo", total>>, <<ListName(a.api), null>> >>))
    BY <1>2, <1>5, <2>1, NestedTwo
  <2>4. Nested(Object(<< <<"Error", code>> >>))
    BY <1>2, <2>1, NestedOne
  <2> QED
    BY <1>3, <1>11, <2>2, <2>3, <2>4 DEF Value
<1>17. PICK second : second = Get(Root, "Response") /\ Sits(f, at, second, Object(inner))
  <2>1. Sits(f, at, Root, Object(<< <<"Response", Object(inner)>> >>))
    BY <1>1, <1>16
  <2>2. Sits(f, at, Get(Root, "Response"), Object(inner))
    BY <1>2, <1>16, <2>1, GetOne
  <2> QED
    BY <2>2
<1>18. PICK third : third = Get(second, ListName(a.api))
  OBVIOUS
<1>19. second # NoNode
  BY <1>17, SitsAt
<1>20. ASSUME a.shape = "list" PROVE Rows(third) /\ heap[third].type = "Array"
  <2>1. Sits(f, at, second, Object(<< <<"CountInfo", total>>, <<ListName(a.api), Array(texts)>> >>))
    BY <1>16, <1>17, <1>20
  <2>2. Sits(f, at, third, Array(texts))
    BY <1>2, <1>5, <1>15, <1>18, <2>1, GetSecond
  <2>3. \A k \in 1 .. N : Value(texts[k])
    BY <1>9 DEF Value
  <2>4. /\ heap[third].type = "Array" /\ Len(Children(third)) = N
        /\ \A k \in 1 .. N : Sits(f, at, Children(third)[k], texts[k])
    BY <1>9, <2>2, <2>3, ArrayKids
  <2>5. ASSUME NEW k \in 1 .. N PROVE RowIs(Children(third)[k], a.rows[k])
    BY <1>8, <2>4, RowSits
  <2>6. third # NoNode
    BY <2>2, SitsAt
  <2> QED
    BY <1>1, <1>4, <2>4, <2>5, <2>6 DEF Rows
<1>21. ASSUME a.shape = "null" PROVE heap[third].type # "Array"
  <2>1. Sits(f, at, second, Object(<< <<"CountInfo", total>>, <<ListName(a.api), null>> >>))
    BY <1>16, <1>17, <1>21
  <2>2. Sits(f, at, third, null)
    BY <1>2, <1>5, <1>14, <1>15, <1>18, <2>1, GetSecond
  <2>3. ItemOf(heap[third], n)
    BY <1>10, <1>13, <2>2, TokenSits
  <2> QED
    BY <1>13, <2>3 DEF ItemOf
<1>22. ASSUME a.shape = "error" PROVE third = NoNode \/ heap[third].type # "Array"
  <2>1. Sits(f, at, second, Object(<< <<"Error", code>> >>))
    BY <1>16, <1>17, <1>22
  <2>2. CASE Lower["Error"] # Lower[ListName(a.api)]
    BY <1>2, <1>15, <1>18, <2>1, <2>2, GetOne
  <2>3. CASE Lower["Error"] = Lower[ListName(a.api)]
    <3>1. Sits(f, at, third, code)
      BY <1>2, <1>15, <1>18, <2>1, <2>3, GetOne
    <3>2. Sits(f, at, third, Object(<< <<"Code", <<Str("AuthFailure")>>>> >>))
      BY <3>1 DEF code
    <3>3. Value(<<Str("AuthFailure")>>)
      <4>1. Str("AuthFailure") \in Scalars
        BY <1>2 DEF Scalars
      <4> QED
        BY <4>1, ScalarValue
    <3>4. heap[third].type = "Object"
      BY <1>2, <3>2, <3>3, GetOne
    <3> QED
      BY <3>4
  <2> QED
    BY <2>2, <2>3
<1> QED
  BY <1>1, <1>3, <1>17, <1>18, <1>19, <1>20, <1>21, <1>22

-----------------------------------------------------------------------------
(* The text of a whole answer, and the root of its tree.                   *)
TextInv ==
    answer \in Answers /\ (whole => doc = Append(Document(answer), Punct("end")))

LEMMA TextInvInit == Init => TextInv
<1> SUFFICES ASSUME Init PROVE TextInv
  OBVIOUS
<1>1. answer \in Answers /\ \E text \in Texts(answer, whole) : doc = Append(text, Punct("end"))
  BY DEF Init
<1>2. whole => Texts(answer, whole) = {Document(answer)}
  BY DEF Texts
<1> QED
  BY <1>1, <1>2 DEF TextInv

LEMMA TextInvNext ==
    ASSUME TextInv, [Next]_vars
    PROVE  TextInv'
<1>1. CASE ParseNext /\ UNCHANGED decoder
  <2>1. doc' = doc
    BY <1>1 DEF ParseNext, ParseWithOpts, ParseScalar, ParseString, OpenArray, OpenObject,
                Open, ParseBad, ParseName, NextItem, Close, ParseReturns, ReadPastEnd,
                ParseFails, parser
  <2>2. UNCHANGED <<answer, whole>>
    BY <1>1 DEF decoder
  <2> QED
    BY <2>1, <2>2 DEF TextInv
<1>2. CASE NoTree \/ FindList \/ DecodeRecord \/ DecodeDomain \/ EndLoop
  <2>1. UNCHANGED <<doc, answer, whole>>
    BY <1>2 DEF NoTree, FindList, DecodeRecord, DecodeDomain, EndLoop
  <2> QED
    BY <2>1 DEF TextInv
<1>3. CASE UNCHANGED vars
  <2>1. UNCHANGED <<doc, answer, whole>>
    BY <1>3 DEF vars
  <2> QED
    BY <2>1 DEF TextInv
<1> QED
  BY <1>1, <1>2, <1>3 DEF Next, Terminated

LEMMA RootSits ==
    ASSUME ParserInv, TreeInv, TextInv, whole, pc = "tree"
    PROVE  \E f, at : Sits(f, at, Root, Document(answer))
<1>1. PICK text, e : text = Document(answer) /\ e = Punct("end") /\ doc = Append(text, e)
  BY DEF TextInv
<1>2. text \in Seq(Lexemes) /\ \E f : Depths(text, f)
  BY <1>1, NestedDocument DEF TextInv, Nested
<1>3. PICK f : Depths(doc, f)
  BY <1>1, <1>2, EndDepths
<1>4. PICK at : Settled(heap, doc, f, at)
  BY <1>3 DEF TreeInv
<1>5. Built(heap, doc) /\ heap \in Seq(Node(doc)) /\ Len(heap) # 0
  BY DEF ParserInv, HeapInv, Stands, Built
<1>6. Root \in 1 .. Len(heap)
  BY <1>5, LenProperties DEF Root
<1>7. Placed(doc, 0, text)
  <2>1. PICK N \in Nat : N = Len(text)
    BY <1>2, LenProperties
  <2>2. text \in Seq(Lexemes \cup {e})
    BY <1>2, SeqMonotonic
  <2>3. Len(doc) = N + 1 /\ \A k \in 1 .. N : doc[k] = text[k]
    BY <1>1, <2>1, <2>2, AppendProperties
  <2>4. \A k \in 1 .. N : 0 + k = k
    OBVIOUS
  <2> QED
    BY <2>1, <2>3, <2>4 DEF Placed
<1>8. at[Root] - 1 = 0
  BY <1>4 DEF Settled, Ordered
<1> QED
  BY <1>1, <1>3, <1>4, <1>5, <1>6, <1>7, <1>8 DEF Sits

-----------------------------------------------------------------------------
(* What the decoders read of the members of a row.                         *)
LEMMA ScalarKinds ==
    ASSUME NEW t \in Scalars
    PROVE  /\ t.kind \in {"str", "num", "null", "true", "false"}
           /\ t.kind = "str" => t.text \in Strings /\ t.text # Null
           /\ t.kind # "num" => t.num = 0
           /\ t.kind = "num" => t.num \in 0 .. Word64 - IntMax - 2
           /\ TypeOf(t) = "String" <=> t.kind = "str"
<1>1. Null \notin Strings
  BY DecodeAssumption
<1>2. \/ \E s \in Strings : t = Str(s)
      \/ \E n \in 0 .. Word64 - IntMax - 2 : t = Num(n)
      \/ \E kind \in {"null", "true", "false"} : t = Punct(kind)
  BY DEF Scalars
<1>3. /\ t.kind \in {"str", "num", "null", "true", "false"}
      /\ t.kind = "str" => t.text \in Strings
      /\ t.kind # "num" => t.num = 0
      /\ t.kind = "num" => t.num \in 0 .. Word64 - IntMax - 2
  BY <1>2 DEF Str, Num, Punct, Token
<1>4. TypeOf(t) = "String" <=> t.kind = "str"
  BY <1>3, TypeOfScalars
<1> QED
  BY <1>1, <1>3, <1>4

Seen(x, row, name) ==
    /\ Get(x, name) = NoNode <=> ~ Has(row, name)
    /\ Has(row, name) =>
          LET n == heap[Get(x, name)]
          IN  /\ n.type = "String" <=> IsText(row, name)
              /\ n.valuestring = Null <=> ~ IsText(row, name)
              /\ IsText(row, name) => n.valuestring = Field(row, name).text
              /\ n.valuedouble = Field(row, name).num

LEMMA RowSeen ==
    ASSUME NEW x, NEW row, RowIs(x, row), NEW name
    PROVE  Seen(x, row, name)
<1>1. CASE ~ Has(row, name)
  BY <1>1 DEF Seen, RowIs
<1>2. CASE Has(row, name)
  <2>1. PICK n, t : n = heap[Get(x, name)] /\ t = Field(row, name)
    OBVIOUS
  <2>2. Get(x, name) # NoNode /\ t \in Scalars /\ ItemOf(n, t)
    BY <1>2, <2>1 DEF RowIs
  <2>3. IsText(row, name) <=> t.kind = "str"
    BY <1>2, <2>1 DEF IsText
  <2>4. /\ n.type = TypeOf(t)
        /\ n.valuestring = IF t.kind = "str" THEN t.text ELSE Null
        /\ n.valuedouble = IF t.kind = "num" THEN t.num ELSE 0
    BY <2>2 DEF ItemOf
  <2>5. /\ n.type = "String" <=> IsText(row, name)
        /\ n.valuestring = Null <=> ~ IsText(row, name)
        /\ IsText(row, name) => n.valuestring = t.text
        /\ n.valuedouble = t.num
    BY <2>2, <2>3, <2>4, ScalarKinds
  <2> QED
    BY <1>2, <2>1, <2>2, <2>5 DEF Seen
<1> QED
  BY <1>1, <1>2

LEMMA NameSeen ==
    ASSUME NEW x, NEW row, RowIs(x, row), NEW name, Has(row, "Name")
    PROVE  Named(Get(x, "Name"), name) <=> NamedRow(row, name)
<1>1. Seen(x, row, "Name")
  BY RowSeen
<1> QED
  BY <1>1 DEF Seen, Named, NamedRow

LEMMA StepIs ==
    ASSUME NEW x, NEW row, RowIs(x, row)
    PROVE  /\ RecordStep(x) \in {"fail", "crash", "skip", "push"}
           /\ RecordStep(x) \in {"fail", "crash"} <=> Defective(row)
           /\ RecordStep(x) = "push" =>
                 /\ NamedRow(row, ServedName) /\ Field(row, "Type").text \in {"A", "AAAA"}
                 /\ heap[Get(x, "Type")].valuestring = Field(row, "Type").text
                 /\ [id |-> IdOf(x), value |-> heap[Get(x, "Value")].valuestring] = Sent(row)
           /\ RecordStep(x) = "skip" =>
                 ~ (NamedRow(row, ServedName) /\ Field(row, "Type").text \in {"A", "AAAA"})
<1>1. Get(x, "Name") = NoNode <=> ~ Has(row, "Name")
  <2>1. Seen(x, row, "Name")
    BY RowSeen
  <2> QED
    BY <2>1 DEF Seen
<1>2. Has(row, "Name") => (Named(Get(x, "Name"), ServedName) <=> NamedRow(row, ServedName))
  BY NameSeen
<1>3. NamedRow(row, ServedName) => Has(row, "Name")
  BY DEF NamedRow, IsText
<1>4. /\ Get(x, "Type") = NoNode <=> ~ Has(row, "Type")
      /\ Has(row, "Type") =>
            /\ heap[Get(x, "Type")].valuestring = Null <=> ~ IsText(row, "Type")
            /\ IsText(row, "Type") => heap[Get(x, "Type")].valuestring = Field(row, "Type").text
  <2>1. Seen(x, row, "Type")
    BY RowSeen
  <2> QED
    BY <2>1 DEF Seen
<1>5. /\ Get(x, "Value") = NoNode <=> ~ Has(row, "Value")
      /\ Has(row, "Value") =>
            /\ heap[Get(x, "Value")].valuestring = Null <=> ~ IsText(row, "Value")
            /\ IsText(row, "Value") => heap[Get(x, "Value")].valuestring = Field(row, "Value").text
  <2>1. Seen(x, row, "Value")
    BY RowSeen
  <2> QED
    BY <2>1 DEF Seen
<1>6. /\ Get(x, "RecordId") = NoNode <=> ~ Has(row, "RecordId")
      /\ Has(row, "RecordId") => heap[Get(x, "RecordId")].valuedouble = Field(row, "RecordId").num
  <2>1. Seen(x, row, "RecordId")
    BY RowSeen
  <2> QED
    BY <2>1 DEF Seen
<1>7. IsText(row, "Type") => Has(row, "Type")
  BY DEF IsText
<1>8. IsText(row, "Value") => Has(row, "Value")
  BY DEF IsText
<1>9. RecordStep(x) \in {"fail", "crash", "skip", "push"}
  BY DEF RecordStep
<1>10. RecordStep(x) \in {"fail", "crash"} <=> Defective(row)
  BY <1>1, <1>2, <1>3, <1>4, <1>5, <1>6, <1>7, <1>8 DEF RecordStep, Defective
<1>11. RecordStep(x) = "skip" =>
          ~ (NamedRow(row, ServedName) /\ Field(row, "Type").text \in {"A", "AAAA"})
  BY <1>1, <1>2, <1>3, <1>4, <1>5, <1>6, <1>7, <1>8 DEF RecordStep
<1>12. RecordStep(x) = "push" =>
          /\ NamedRow(row, ServedName) /\ Field(row, "Type").text \in {"A", "AAAA"}
          /\ heap[Get(x, "Type")].valuestring = Field(row, "Type").text
          /\ heap[Get(x, "Value")].valuestring = Field(row, "Value").text
          /\ heap[Get(x, "RecordId")].valuedouble = Field(row, "RecordId").num
  BY <1>1, <1>2, <1>3, <1>4, <1>5, <1>6, <1>7, <1>8 DEF RecordStep
<1> QED
  BY <1>9, <1>10, <1>11, <1>12 DEF IdOf, Sent

-----------------------------------------------------------------------------
(* A vector that holds what the rows in W say, in their order.             *)
Held(r, W, rows) ==
    /\ \E S : r \in Seq(S)
    /\ Len(r) = Cardinality(W)
    /\ \A k \in W : r[Cardinality({j \in W : j <= k})] = Sent(rows[k])

LEMMA HeldNone ==
    ASSUME NEW rows
    PROVE  Held(<<>>, {}, rows)
<1>1. <<>> \in Seq({}) /\ Len(<<>>) = 0 /\ Cardinality({}) = 0
  BY FS_EmptySet
<1> QED
  BY <1>1 DEF Held

LEMMA HeldMore ==
    ASSUME NEW rows, NEW m \in Nat, NEW W, W \subseteq 1 .. m, NEW r, Held(r, W, rows)
    PROVE  Held(Append(r, Sent(rows[m + 1])), W \cup {m + 1}, rows)
<1>1. PICK e, V : e = Sent(rows[m + 1]) /\ V = W \cup {m + 1}
  OBVIOUS
<1>2. PICK S : r \in Seq(S)
  BY DEF Held
<1>3. IsFiniteSet(W) /\ Cardinality(W) \in Nat
  <2>1. IsFiniteSet(1 .. m)
    BY FS_Interval
  <2> QED
    BY <2>1, FS_Subset, FS_CardinalityType
<1>4. PICK N \in Nat : N = Cardinality(W) /\ N = Len(r)
  BY <1>3 DEF Held
<1>5. Cardinality(V) = N + 1
  <2>1. m + 1 \notin W
    OBVIOUS
  <2> QED
    BY <1>1, <1>3, <1>4, <2>1, FS_AddElement
<1>6. PICK q : q = Append(r, e)
  OBVIOUS
<1>7. /\ q \in Seq(S \cup {e}) /\ Len(q) = N + 1 /\ q[N + 1] = e
      /\ \A k \in 1 .. N : q[k] = r[k]
  <2>1. r \in Seq(S \cup {e})
    BY <1>2, SeqMonotonic
  <2> QED
    BY <1>4, <1>6, <2>1, AppendProperties
<1>8. ASSUME NEW k \in V PROVE q[Cardinality({j \in V : j <= k})] = Sent(rows[k])
  <2>1. CASE k = m + 1
    <3>1. {j \in V : j <= k} = V
      <4>1. \A j \in V : j <= m + 1
        BY <1>1
      <4> QED
        BY <2>1, <4>1
    <3> QED
      BY <1>1, <1>5, <1>7, <2>1, <3>1
  <2>2. CASE k # m + 1
    <3>1. k \in W /\ k \in 1 .. m
      BY <1>1, <2>2
    <3>2. PICK U : U = {j \in W : j <= k}
      OBVIOUS
    <3>3. {j \in V : j <= k} = U
      BY <1>1, <3>1, <3>2
    <3>4. U \subseteq W /\ k \in U
      BY <3>1, <3>2
    <3>5. IsFiniteSet(U) /\ Cardinality(U) \in Nat /\ Cardinality(U) <= N
      BY <1>3, <1>4, <3>4, FS_Subset, FS_CardinalityType
    <3>6. Cardinality(U) # 0
      BY <3>4, <3>5, FS_EmptySet
    <3>7. r[Cardinality(U)] = Sent(rows[k])
      BY <3>1, <3>2 DEF Held
    <3>8. Cardinality(U) \in 1 .. N
      BY <3>5, <3>6
    <3> QED
      BY <1>7, <3>3, <3>7, <3>8
  <2> QED
    BY <2>1, <2>2
<1>9. Held(q, V, rows)
  BY <1>5, <1>7, <1>8 DEF Held
<1> QED
  BY <1>1, <1>6, <1>9

(* The rows in front of the first one that stops the decoder.              *)
Wants(rows, f, m) ==
    {k \in 1 .. m : NamedRow(rows[k], ServedName) /\ Field(rows[k], "Type").text = f}

Sound(rows, m) == \A k \in 1 .. m : ~ Defective(rows[k])

(* How the loop over them ended.                                           *)
Stopped(rows, m, value) ==
    \/ m = Len(rows) /\ value = "true"
    \/ m + 1 \in 1 .. Len(rows) /\ Defective(rows[m + 1]) /\ value # "true"

LEMMA StoppedAsSent ==
    ASSUME answer' \in Answers, NEW m \in Nat, Sound(answer'.rows, m),
           Stopped(answer'.rows, m, ret'),
           \A f \in {"A", "AAAA"} : Held(record'[f], Wants(answer'.rows, f, m), answer'.rows)
    PROVE  DecodedAsSent'
<1>1. PICK rows, N : rows = answer'.rows /\ N = Len(rows) /\ N \in Nat /\ DOMAIN rows = 1 .. N
  <2>1. answer'.rows \in Seq(Seq(Strings \X Scalars))
    BY DecodeAssumption DEF Answer
  <2> QED
    BY <2>1, LenProperties
<1>2. Defects' = {k \in 1 .. N : Defective(rows[k])}
  BY <1>1 DEF Defects
<1>3. \A k \in 1 .. m : ~ Defective(rows[k])
  BY <1>1 DEF Sound
<1>4. \/ m = N /\ ret' = "true"
      \/ m + 1 \in 1 .. N /\ Defective(rows[m + 1]) /\ ret' # "true"
  BY <1>1 DEF Stopped
<1>5. ret' = "true" <=> Defects' = {}
  BY <1>2, <1>3, <1>4
<1>6. \A k \in 1 .. N : k \in 1 .. m <=> \A j \in Defects' : k < j
  <2>1. ASSUME NEW k \in 1 .. N, k \in 1 .. m, NEW j \in Defects' PROVE k < j
    <3>1. j \in 1 .. N /\ j \notin 1 .. m
      BY <1>2, <1>3
    <3> QED
      BY <2>1, <3>1
  <2>2. ASSUME NEW k \in 1 .. N, k \notin 1 .. m PROVE \E j \in Defects' : ~ (k < j)
    <3>1. m + 1 \in Defects' /\ ~ (k < m + 1)
      BY <1>2, <1>4, <2>2
    <3> QED
      BY <3>1
  <2> QED
    BY <2>1, <2>2
<1>7. ASSUME NEW f PROVE Wanted(f)' = Wants(rows, f, m)
  <2>1. Wanted(f)' = {k \in 1 .. N : /\ \A j \in Defects' : k < j
                                     /\ NamedRow(rows[k], ServedName)
                                     /\ Field(rows[k], "Type").text = f}
    BY <1>1 DEF Wanted
  <2>2. \A k \in 1 .. m : k \in 1 .. N
    BY <1>1, <1>4
  <2> QED
    BY <1>6, <2>1, <2>2 DEF Wants
<1>8. ASSUME NEW f \in {"A", "AAAA"}
      PROVE  /\ Len(record'[f]) = Cardinality(Wanted(f)')
             /\ \A k \in Wanted(f)' :
                   record'[f][Cardinality({j \in Wanted(f)' : j <= k})] = Sent(answer'.rows[k])
  <2>1. Held(record'[f], Wanted(f)', rows)
    BY <1>1, <1>7
  <2> QED
    BY <1>1, <2>1 DEF Held
<1> QED
  BY <1>5, <1>8 DEF DecodedAsSent

-----------------------------------------------------------------------------
(* The decoders only read: while the heap stays, so does what they find.   *)
GetIn(h, kids, name) ==
    LET Hits == {k \in DOMAIN kids : /\ h[kids[k]].string # Null
                                     /\ Lower[h[kids[k]].string] = Lower[name]}
    IN  IF Hits = {} THEN NoNode
        ELSE kids[CHOOSE k \in Hits : \A j \in Hits : k <= j]

LEMMA GetKept ==
    ASSUME heap' = heap, NEW c
    PROVE  Children(c)' = Children(c) /\ \A name : Get(c, name)' = Get(c, name)
<1>1. Children(c) = Walk(heap, c, Len(heap))[Len(heap)]
  BY ChildrenByWalk
<1>2. Children(c)' = Walk(heap', c, Len(heap'))[Len(heap')]
  BY DEF Children, Walk, IsWalk, Start, Further
<1>3. Children(c)' = Children(c)
  BY <1>1, <1>2
<1>4. \A name : Get(c, name) = GetIn(heap, Children(c), name)
  BY DEF Get, GetObjectItem, GetIn
<1>5. \A name : Get(c, name)' = GetIn(heap', Children(c)', name)
  BY DEF Get, GetObjectItem, GetIn
<1> QED
  BY <1>3, <1>4, <1>5

LEMMA RowsKept ==
    ASSUME UNCHANGED <<heap, answer>>, NEW c, list' = c, Rows(c)
    PROVE  Rows(list)'
<1>1. ASSUME NEW x, NEW row, RowIs(x, row) PROVE RowIs(x, row)'
  <2>1. \A name : Get(x, name)' = Get(x, name)
    BY GetKept
  <2> QED
    BY <1>1, <2>1 DEF RowIs
<1>2. Children(c)' = Children(c)
  BY GetKept
<1>3. Rows(c)'
  BY <1>1, <1>2 DEF Rows
<1> QED
  BY <1>3

(* The domain of the last of these rows.                                   *)
Owns(rows, m) == {k \in 1 .. m : NamedRow(rows[k], domain_name)}

DomainOf(rows, own, d) ==
    IF own = {} THEN d = [id |-> 0, grade |-> ""]
    ELSE \E k \in own :
           LET id == Field(rows[k], "DomainId")
           IN  /\ \A j \in own : j <= k
               /\ id.kind = "num" => (d.id = id.num <=> id.num <= IntMax)
               /\ d.grade = Field(rows[k], "Grade").text

(* What holds of the object while the decoders are at work: in front of    *)
(* the loop nothing is in it, in the loop what the rows so far say.        *)
Untouched ==
    /\ list = NoNode /\ i = 1 /\ ret = "none"
    /\ record = [f \in {"A", "AAAA"} |-> <<>>]
    /\ domain = [id |-> 0, grade |-> ""]

RecordsSoFar ==
    /\ Sound(answer.rows, i - 1)
    /\ DOMAIN record = {"A", "AAAA"}
    /\ \A f \in {"A", "AAAA"} : Held(record[f], Wants(answer.rows, f, i - 1), answer.rows)

LoopInv ==
    /\ Rows(list) /\ i \in 1 .. Len(answer.rows) + 1 /\ ret = "none"
    /\ answer.api = "records" => RecordsSoFar
    /\ answer.api = "domains" => DomainOf(answer.rows, Owns(answer.rows, i - 1), domain)

DecodeInv ==
    /\ pc \notin {"loop", "done"} => Untouched
    /\ pc = "loop" => LoopInv

Results == DecodedAsSent /\ OtherNamesHarmless /\ DomainDecodedAsSent

LEMMA ParseResults ==
    ASSUME DecodeInv, ParseNext, UNCHANGED decoder
    PROVE  DecodeInv' /\ Results'
<1>1. pc \in {"parse", "value", "name", "return"}
  BY DEF ParseNext, ParseWithOpts, ParseScalar, ParseString, OpenArray, OpenObject, Open,
         ParseBad, ParseName, NextItem, Close, ParseReturns, ReadPastEnd
<1>2. pc' \in {"no_tree", "value", "name", "return", "tree", "undefined"}
  BY <1>1 DEF ParseNext, ParseWithOpts, ParseScalar, ParseString, OpenArray, OpenObject, Open,
         ParseBad, ParseName, NextItem, Close, ParseReturns, ReadPastEnd, ParseFails
<1>3. Untouched /\ UNCHANGED <<answer, whole, list, i, record, domain, ret>>
  BY <1>1 DEF DecodeInv, decoder
<1>4. Untouched'
  BY <1>3 DEF Untouched
<1>5. DecodeInv'
  BY <1>2, <1>4 DEF DecodeInv
<1>6. Results'
  BY <1>2, <1>4 DEF Untouched, Results, DecodedAsSent, OtherNamesHarmless, DomainDecodedAsSent
<1> QED
  BY <1>5, <1>6

LEMMA NoTreeResults ==
    ASSUME DecodeInv, NoTree
    PROVE  DecodeInv' /\ Results'
<1>1. Untouched /\ pc' = "done" /\ ret' = "false" /\ list' = list
  BY DEF NoTree, CheckFails, Returns, DecodeInv
<1>2. list' = NoNode
  BY <1>1 DEF Untouched
<1> QED
  BY <1>1, <1>2 DEF DecodeInv, Results, DecodedAsSent, OtherNamesHarmless, DomainDecodedAsSent

LEMMA AnswerIs ==
    ASSUME TextInv
    PROVE  /\ answer.rows \in Seq(Seq(Strings \X Scalars))
           /\ Len(answer.rows) \in Nat /\ DOMAIN answer.rows = 1 .. Len(answer.rows)
           /\ answer.shape # "list" => answer.rows = <<>>
<1>1. answer \in Answer
  BY DecodeAssumption DEF TextInv
<1>2. answer.rows \in Seq(Seq(Strings \X Scalars)) /\ (answer.shape # "list" => answer.rows = <<>>)
  BY <1>1 DEF Answer
<1> QED
  BY <1>2, LenProperties

LEMMA FindListResults ==
    ASSUME ParserInv, TreeInv, TextInv, CutInv, DecodeInv, FindList
    PROVE  DecodeInv' /\ Results'
<1>1. pc = "tree" /\ whole
  BY DEF FindList, CutInv
<1>2. PICK second, third :
          second = Get(Root, "Response") /\ third = Get(second, ListName(answer.api))
  OBVIOUS
<1>3. /\ second # NoNode
      /\ answer.shape = "list" => Rows(third) /\ heap[third].type = "Array"
      /\ answer.shape # "list" => third = NoNode \/ heap[third].type # "Array"
  <2>1. PICK f, at : Sits(f, at, Root, Document(answer))
    BY <1>1, RootSits
  <2> QED
    BY <1>2, <2>1, ListFound DEF TextInv
<1>4. /\ \/ third = NoNode /\ pc' = "done" /\ ret' = "false" /\ list' = list
         \/ /\ third # NoNode /\ heap[third].type # "Array"
            /\ pc' = "done" /\ ret' = "true" /\ list' = list
         \/ /\ third # NoNode /\ heap[third].type = "Array"
            /\ list' = third /\ pc' = "loop" /\ heap' = heap /\ ret' = ret
      /\ UNCHANGED <<answer, i, record, domain>>
  <2>1. (IF second = NoNode THEN NoNode ELSE Get(second, ListName(answer.api))) = third
    BY <1>2, <1>3
  <2> QED
    BY <1>2, <2>1 DEF FindList, CheckFails, Release, Returns
<1>5. Untouched
  BY <1>1 DEF DecodeInv
<1>6. CASE third = NoNode \/ heap[third].type # "Array"
  <2>1. pc' = "done" /\ list' = NoNode
    BY <1>4, <1>5, <1>6 DEF Untouched
  <2>2. answer.rows = <<>> \/ ret' = "false"
    BY <1>3, <1>4, <1>6, AnswerIs DEF Rows
  <2>3. DomainDecodedAsSent'
    <3>1. CASE ret' = "false"
      BY <3>1 DEF DomainDecodedAsSent
    <3>2. CASE answer.rows = <<>>
      <4>1. domain' = [id |-> 0, grade |-> ""]
        BY <1>4, <1>5 DEF Untouched
      <4>2. {k \in DOMAIN answer'.rows : NamedRow(answer'.rows[k], domain_name)} = {}
        BY <1>4, <3>2
      <4> QED
        BY <4>1, <4>2 DEF DomainDecodedAsSent
    <3> QED
      BY <2>2, <3>1, <3>2
  <2> QED
    BY <2>1, <2>3 DEF DecodeInv, Results, DecodedAsSent, OtherNamesHarmless
<1>7. CASE third # NoNode /\ heap[third].type = "Array"
  <2>1. /\ Rows(third) /\ list' = third /\ pc' = "loop" /\ ret' = "none" /\ i' = 1
        /\ UNCHANGED <<heap, answer>>
    BY <1>3, <1>4, <1>5, <1>7 DEF Untouched
  <2>2. Rows(list)'
    BY <2>1, RowsKept
  <2>3. i' \in 1 .. Len(answer'.rows) + 1 /\ i' - 1 = 0
    BY <2>1, AnswerIs
  <2>4. \A f : Wants(answer'.rows, f, i' - 1) = {}
    BY <2>3 DEF Wants
  <2>5. RecordsSoFar'
    <3>1. record' = [f \in {"A", "AAAA"} |-> <<>>]
      BY <1>4, <1>5 DEF Untouched
    <3>2. \A f \in {"A", "AAAA"} : record'[f] = <<>>
      BY <3>1
    <3>3. Sound(answer'.rows, i' - 1)
      BY <2>3 DEF Sound
    <3>4. ASSUME NEW f \in {"A", "AAAA"}
          PROVE  Held(record'[f], Wants(answer'.rows, f, i' - 1), answer'.rows)
      BY <2>4, <3>2, HeldNone
    <3> QED
      BY <3>1, <3>3, <3>4 DEF RecordsSoFar
  <2>6. DomainOf(answer'.rows, Owns(answer'.rows, i' - 1), domain')
    <3>1. Owns(answer'.rows, i' - 1) = {}
      BY <2>3 DEF Owns
    <3>2. domain' = [id |-> 0, grade |-> ""]
      BY <1>4, <1>5 DEF Untouched
    <3> QED
      BY <3>1, <3>2 DEF DomainOf
  <2>7. LoopInv'
    BY <2>1, <2>2, <2>3, <2>5, <2>6 DEF LoopInv
  <2> QED
    BY <2>1, <2>7 DEF DecodeInv, Results, DecodedAsSent, OtherNamesHarmless, DomainDecodedAsSent
<1> QED
  BY <1>6, <1>7

(* The element a loop is at is that of its row.                            *)
LEMMA ElementIs ==
    ASSUME TextInv, DecodeInv, NEW api, InLoop(api)
    PROVE  /\ pc = "loop" /\ answer.api = api /\ LoopInv
           /\ i \in 1 .. Len(answer.rows) /\ RowIs(Element, answer.rows[i])
<1>1. pc = "loop" /\ answer.api = api /\ i <= Len(Children(list))
  BY DEF InLoop
<1>2. LoopInv
  BY <1>1 DEF DecodeInv
<1>3. Len(Children(list)) = Len(answer.rows) /\ i \in 1 .. Len(answer.rows) + 1
  BY <1>2 DEF LoopInv, Rows
<1>4. i \in 1 .. Len(answer.rows)
  BY <1>1, <1>3, AnswerIs
<1>5. RowIs(Element, answer.rows[i])
  BY <1>2, <1>4 DEF LoopInv, Rows, Element
<1> QED
  BY <1>1, <1>2, <1>4, <1>5

(* One more row of a vector, or none.                                      *)
LEMMA WantsMore ==
    ASSUME NEW rows, NEW f, NEW n \in Nat, n # 0
    PROVE  Wants(rows, f, n) =
               IF NamedRow(rows[n], ServedName) /\ Field(rows[n], "Type").text = f
               THEN Wants(rows, f, n - 1) \cup {n} ELSE Wants(rows, f, n - 1)
<1>1. n \in 1 .. n /\ n \notin 1 .. n - 1 /\ \A k : k \in 1 .. n <=> k \in 1 .. n - 1 \/ k = n
  OBVIOUS
<1> QED
  BY <1>1 DEF Wants

LEMMA SoundMore ==
    ASSUME NEW rows, NEW n \in Nat, n # 0, Sound(rows, n - 1), ~ Defective(rows[n])
    PROVE  Sound(rows, n)
<1>1. \A k \in 1 .. n : k \in 1 .. n - 1 \/ k = n
  OBVIOUS
<1> QED
  BY <1>1 DEF Sound

LEMMA DecodeRecordResults ==
    ASSUME TextInv, DecodeInv, DecodeRecord
    PROVE  DecodeInv' /\ Results'
<1>1. /\ pc = "loop" /\ answer.api = "records" /\ LoopInv
      /\ i \in 1 .. Len(answer.rows) /\ RowIs(Element, answer.rows[i])
  BY ElementIs DEF DecodeRecord
<1>2. PICK x, row, rows, n : x = Element /\ rows = answer.rows /\ n = i /\ row = rows[n]
  OBVIOUS
<1>3. /\ n \in 1 .. Len(rows) /\ n \in Nat /\ n # 0 /\ n - 1 \in Nat /\ (n - 1) + 1 = n
      /\ n + 1 \in 1 .. Len(rows) + 1 /\ (n + 1) - 1 = n
  BY <1>1, <1>2, AnswerIs
<1>4. PICK step : step = RecordStep(x)
  OBVIOUS
<1>5. /\ step \in {"fail", "crash", "skip", "push"}
      /\ step \in {"fail", "crash"} <=> Defective(row)
      /\ step = "push" =>
            /\ NamedRow(row, ServedName) /\ Field(row, "Type").text \in {"A", "AAAA"}
            /\ heap[Get(x, "Type")].valuestring = Field(row, "Type").text
            /\ [id |-> IdOf(x), value |-> heap[Get(x, "Value")].valuestring] = Sent(row)
      /\ step = "skip" =>
            ~ (NamedRow(row, ServedName) /\ Field(row, "Type").text \in {"A", "AAAA"})
  BY <1>1, <1>2, <1>4, StepIs
<1>6. /\ UNCHANGED <<answer, list, domain>>
      /\ step \in {"fail", "crash"} => pc' = "done" /\ ret' # "true" /\ i' = i /\ record' = record
      /\ step \in {"skip", "push"} => i' = i + 1 /\ UNCHANGED <<heap, pc, ret>>
      /\ step = "skip" => record' = record
      /\ step = "push" =>
            record' = [record EXCEPT ![heap[Get(x, "Type")].valuestring] =
                         Append(@, [id    |-> IdOf(x),
                                    value |-> heap[Get(x, "Value")].valuestring])]
  BY <1>2, <1>4, <1>5 DEF DecodeRecord, CheckFails, Crash, Returns, Continue
<1>7. /\ Sound(rows, n - 1) /\ DOMAIN record = {"A", "AAAA"}
      /\ \A f \in {"A", "AAAA"} : Held(record[f], Wants(rows, f, n - 1), rows)
  BY <1>1, <1>2 DEF LoopInv, RecordsSoFar
<1>8. CASE step \in {"fail", "crash"}
  <2>1. Defective(row) /\ pc' = "done" /\ ret' # "true" /\ i' = n /\ record' = record
        /\ answer' = answer
    BY <1>2, <1>5, <1>6, <1>8
  <2>2. Stopped(rows, n - 1, ret')
    BY <1>2, <1>3, <2>1 DEF Stopped
  <2>3. DecodedAsSent'
    <3>1. answer' \in Answers /\ Sound(answer'.rows, n - 1) /\ Stopped(answer'.rows, n - 1, ret')
      BY <1>2, <1>7, <2>1, <2>2 DEF TextInv
    <3>2. \A f \in {"A", "AAAA"} : Held(record'[f], Wants(answer'.rows, f, n - 1), answer'.rows)
      BY <1>2, <1>7, <2>1
    <3> QED
      BY <1>3, <3>1, <3>2, StoppedAsSent
  <2>4. OtherNamesHarmless'
    <3>1. ~ Has(row, "Name") \/ NamedRow(row, ServedName)
      BY <2>1 DEF Defective
    <3>2. answer'.rows[i'] = row /\ answer'.api = "records"
      BY <1>1, <1>2, <2>1
    <3> QED
      BY <3>1, <3>2 DEF OtherNamesHarmless
  <2>5. DomainDecodedAsSent'
    BY <2>1 DEF DomainDecodedAsSent
  <2> QED
    BY <2>1, <2>3, <2>4, <2>5 DEF DecodeInv, Results
<1>9. CASE step \in {"skip", "push"}
  <2>1. /\ i' = n + 1 /\ UNCHANGED <<heap, pc, ret, answer, list, domain>> /\ pc' = "loop"
        /\ answer'.rows = rows
    BY <1>1, <1>2, <1>6, <1>9
  <2>2. Rows(list)'
    <3>1. PICK c : c = list /\ list' = c
      BY <2>1
    <3> QED
      BY <1>1, <2>1, <3>1, RowsKept DEF LoopInv
  <2>3. Sound(rows, n)
    BY <1>2, <1>3, <1>5, <1>7, <1>9, SoundMore
  <2>4. ASSUME NEW f \in {"A", "AAAA"} PROVE Held(record'[f], Wants(rows, f, n), rows)
    <3>1. PICK W : W = Wants(rows, f, n - 1)
      OBVIOUS
    <3>2. W \subseteq 1 .. n - 1 /\ Held(record[f], W, rows)
      BY <1>7, <3>1 DEF Wants
    <3>3. Wants(rows, f, n) = IF NamedRow(row, ServedName) /\ Field(row, "Type").text = f
                              THEN W \cup {n} ELSE W
      <4>1. Wants(rows, f, n) =
               IF NamedRow(rows[n], ServedName) /\ Field(rows[n], "Type").text = f
               THEN Wants(rows, f, n - 1) \cup {n} ELSE Wants(rows, f, n - 1)
        BY <1>3, WantsMore
      <4> QED
        BY <1>2, <3>1, <4>1
    <3>4. CASE step = "push" /\ Field(row, "Type").text = f
      <4>1. record'[f] = Append(record[f], Sent(rows[n]))
        BY <1>2, <1>5, <1>6, <1>7, <3>4
      <4>2. Wants(rows, f, n) = W \cup {n}
        BY <1>5, <3>3, <3>4
      <4>3. PICK m : m = n - 1 /\ m \in Nat /\ m + 1 = n
        BY <1>3
      <4>4. Held(Append(record[f], Sent(rows[m + 1])), W \cup {m + 1}, rows)
        BY <3>2, <4>3, HeldMore
      <4> QED
        BY <4>1, <4>2, <4>3, <4>4
    <3>5. CASE step = "push" /\ Field(row, "Type").text # f
      <4>1. record'[f] = record[f]
        BY <1>5, <1>6, <1>7, <3>5
      <4> QED
        BY <3>2, <3>3, <3>5, <4>1
    <3>6. CASE step = "skip"
      <4>1. record' = record /\ ~ (NamedRow(row, ServedName) /\ Field(row, "Type").text = f)
        BY <1>5, <1>6, <3>6
      <4> QED
        BY <3>2, <3>3, <4>1
    <3> QED
      BY <1>9, <3>4, <3>5, <3>6
  <2>5. DOMAIN record' = {"A", "AAAA"}
    BY <1>6, <1>7, <1>9
  <2>6. RecordsSoFar'
    BY <1>3, <2>1, <2>3, <2>4, <2>5 DEF RecordsSoFar
  <2>7. LoopInv'
    BY <1>1, <1>2, <1>3, <2>1, <2>2, <2>6 DEF LoopInv
  <2> QED
    BY <1>1, <2>1, <2>7 DEF DecodeInv, LoopInv, Results, DecodedAsSent, OtherNamesHarmless,
                            DomainDecodedAsSent
<1> QED
  BY <1>5, <1>8, <1>9

LEMMA EndLoopResults ==
    ASSUME TextInv, DecodeInv, EndLoop
    PROVE  DecodeInv' /\ Results'
<1>1. /\ pc = "loop" /\ pc' = "done" /\ ret' = "true" /\ i > Len(Children(list))
      /\ UNCHANGED <<answer, list, record, domain>>
  BY DEF EndLoop, Release, Returns
<1>2. LoopInv
  BY <1>1 DEF DecodeInv
<1>3. PICK rows, N : rows = answer.rows /\ N = Len(rows) /\ N \in Nat /\ DOMAIN rows = 1 .. N
  BY AnswerIs
<1>4. i - 1 = N
  BY <1>1, <1>2, <1>3 DEF LoopInv, Rows
<1>5. answer' = answer /\ answer'.rows = rows
  BY <1>1, <1>3
<1>6. ASSUME answer.api = "records" PROVE DecodedAsSent'
  <2>1. /\ Sound(answer'.rows, N)
        /\ \A f \in {"A", "AAAA"} : Held(record'[f], Wants(answer'.rows, f, N), answer'.rows)
    BY <1>1, <1>2, <1>4, <1>6 DEF LoopInv, RecordsSoFar
  <2>2. answer' \in Answers /\ Stopped(answer'.rows, N, ret')
    BY <1>1, <1>3, <1>5 DEF TextInv, Stopped
  <2> QED
    BY <1>3, <2>1, <2>2, StoppedAsSent
<1>7. ASSUME answer.api # "records" PROVE DecodedAsSent'
  BY <1>5, <1>7 DEF DecodedAsSent
<1>8. DomainDecodedAsSent'
  <2>1. CASE answer.api = "domains"
    <3>1. PICK own : own = Owns(rows, N)
      OBVIOUS
    <3>2. DomainOf(rows, own, domain)
      BY <1>2, <1>3, <1>4, <2>1, <3>1 DEF LoopInv
    <3>3. {k \in DOMAIN answer'.rows : NamedRow(answer'.rows[k], domain_name)} = own
      BY <1>3, <1>5, <3>1 DEF Owns
    <3>4. DomainOf(answer'.rows, own, domain')
      BY <1>1, <1>5, <3>2
    <3> QED
      BY <3>3, <3>4 DEF DomainDecodedAsSent, DomainOf
  <2>2. CASE answer.api # "domains"
    BY <1>5, <2>2 DEF DomainDecodedAsSent
  <2> QED
    BY <2>1, <2>2
<1>9. OtherNamesHarmless'
  BY <1>1 DEF OtherNamesHarmless
<1> QED
  BY <1>1, <1>6, <1>7, <1>8, <1>9 DEF DecodeInv, Results

(* An id survives the way through the int exactly if it fits.              *)
LEMMA IdSurvives ==
    ASSUME NEW n \in 0 .. Word64 - IntMax - 2
    PROVE  Uint64(ToInt(n)) = n <=> n <= IntMax
<1>1. Word64 \in Nat /\ IntMax \in Nat /\ Word64 > IntMax
  BY DecodeAssumption, CJsonAssumption
<1>2. PICK w \in Nat, m \in Nat : w = Word64 /\ m = IntMax /\ w > m
  BY <1>1
<1>3. CASE n <= IntMax
  <2>1. ToInt(n) = n
    BY <1>3 DEF ToInt
  <2>2. n % w = n
    BY <1>2, <1>3
  <2> QED
    BY <1>2, <1>3, <2>1, <2>2 DEF Uint64
<1>4. CASE ~ (n <= IntMax)
  <2>1. ToInt(n) = - m - 1
    BY <1>2, <1>4 DEF ToInt
  <2>2. (- m - 1) % w = w - m - 1
    BY <1>2
  <2>3. w - m - 1 # n
    BY <1>2
  <2> QED
    BY <1>2, <1>4, <2>1, <2>2, <2>3 DEF Uint64
<1> QED
  BY <1>3, <1>4

LEMMA DecodeDomainResults ==
    ASSUME TextInv, DecodeInv, DecodeDomain
    PROVE  DecodeInv' /\ Results'
<1>1. /\ pc = "loop" /\ answer.api = "domains" /\ LoopInv
      /\ i \in 1 .. Len(answer.rows) /\ RowIs(Element, answer.rows[i])
  BY ElementIs DEF DecodeDomain
<1>2. PICK x, row, rows, n : x = Element /\ rows = answer.rows /\ n = i /\ row = rows[n]
  OBVIOUS
<1>3. /\ n \in 1 .. Len(rows) /\ n \in Nat /\ n # 0 /\ n - 1 \in Nat
      /\ n + 1 \in 1 .. Len(rows) + 1 /\ (n + 1) - 1 = n
  BY <1>1, <1>2, AnswerIs
<1>4. /\ Get(x, "Name") = NoNode <=> ~ Has(row, "Name")
      /\ Has(row, "Name") => (Named(Get(x, "Name"), domain_name) <=> NamedRow(row, domain_name))
  <2>1. Seen(x, row, "Name") /\ RowIs(x, row)
    BY <1>1, <1>2, RowSeen
  <2> QED
    BY <2>1, NameSeen DEF Seen
<1>5. PICK id, grade : id = Get(x, "DomainId") /\ grade = Get(x, "Grade")
  OBVIOUS
<1>6. /\ UNCHANGED <<answer, list, record>>
      /\ \/ /\ pc' = "done" /\ ret' # "true" /\ i' = i
            /\ Get(x, "Name") = NoNode \/ Named(Get(x, "Name"), domain_name)
         \/ /\ i' = i + 1 /\ UNCHANGED <<heap, pc, ret>> /\ Get(x, "Name") # NoNode
            /\ \/ ~ Named(Get(x, "Name"), domain_name) /\ domain' = domain
               \/ /\ Named(Get(x, "Name"), domain_name)
                  /\ id # NoNode /\ grade # NoNode /\ heap[grade].valuestring # Null
                  /\ domain' = [id |-> Uint64(heap[id].valueint), grade |-> heap[grade].valuestring]
  BY <1>2, <1>5 DEF DecodeDomain, CheckFails, Crash, Returns, Continue
<1>7. CASE /\ pc' = "done" /\ ret' # "true" /\ i' = i
           /\ Get(x, "Name") = NoNode \/ Named(Get(x, "Name"), domain_name)
  <2>1. ~ Has(row, "Name") \/ NamedRow(row, domain_name)
    BY <1>4, <1>7
  <2>2. answer'.rows[i'] = row /\ answer'.api = "domains"
    BY <1>1, <1>2, <1>6, <1>7
  <2>3. OtherNamesHarmless'
    BY <2>1, <2>2 DEF OtherNamesHarmless
  <2>4. DecodedAsSent' /\ DomainDecodedAsSent'
    BY <1>7, <2>2 DEF DecodedAsSent, DomainDecodedAsSent
  <2> QED
    BY <1>7, <2>3, <2>4 DEF DecodeInv, Results
<1>8. CASE /\ i' = i + 1 /\ UNCHANGED <<heap, pc, ret>> /\ Get(x, "Name") # NoNode
           /\ \/ ~ Named(Get(x, "Name"), domain_name) /\ domain' = domain
              \/ /\ Named(Get(x, "Name"), domain_name)
                 /\ id # NoNode /\ grade # NoNode /\ heap[grade].valuestring # Null
                 /\ domain' = [id |-> Uint64(heap[id].valueint), grade |-> heap[grade].valuestring]
  <2>1. /\ i' = n + 1 /\ UNCHANGED <<heap, pc, ret, answer, list>> /\ pc' = "loop"
        /\ answer'.rows = rows
    BY <1>1, <1>2, <1>6, <1>8
  <2>2. Rows(list)'
    <3>1. PICK c : c = list /\ list' = c
      BY <2>1
    <3> QED
      BY <1>1, <2>1, <3>1, RowsKept DEF LoopInv
  <2>3. PICK own : own = Owns(rows, n - 1)
    OBVIOUS
  <2>4. DomainOf(rows, own, domain) /\ own \subseteq 1 .. n - 1
    BY <1>1, <1>2, <2>3 DEF LoopInv, Owns
  <2>5. Owns(rows, n) = IF NamedRow(row, domain_name) THEN own \cup {n} ELSE own
    <3>1. n \in 1 .. n /\ n \notin 1 .. n - 1 /\ \A k : k \in 1 .. n <=> k \in 1 .. n - 1 \/ k = n
      BY <1>3
    <3> QED
      BY <1>2, <2>3, <3>1 DEF Owns
  <2>6. DomainOf(rows, Owns(rows, n), domain')
    <3>1. CASE ~ NamedRow(row, domain_name)
      BY <1>4, <1>8, <2>4, <2>5, <3>1
    <3>2. CASE NamedRow(row, domain_name)
      <4>1. /\ id # NoNode /\ grade # NoNode /\ heap[grade].valuestring # Null
            /\ domain'.id = Uint64(heap[id].valueint)
            /\ domain'.grade = heap[grade].valuestring
        BY <1>4, <1>8, <3>2
      <4>2. heap[grade].valuestring = Field(row, "Grade").text
        <5>1. Seen(x, row, "Grade")
          BY <1>1, <1>2, RowSeen
        <5> QED
          BY <1>5, <4>1, <5>1 DEF Seen
      <4>3. PICK t : t = Field(row, "DomainId")
        OBVIOUS
      <4>4. t \in Scalars /\ ItemOf(heap[id], t)
        BY <1>1, <1>2, <1>5, <4>1, <4>3 DEF RowIs
      <4>5. t.kind = "num" => (domain'.id = t.num <=> t.num <= IntMax)
        <5> SUFFICES ASSUME t.kind = "num" PROVE domain'.id = t.num <=> t.num <= IntMax
          OBVIOUS
        <5>1. heap[id].valueint = ToInt(t.num) /\ t.num \in 0 .. Word64 - IntMax - 2
          BY <4>4, ScalarKinds DEF ItemOf
        <5> QED
          BY <4>1, <5>1, IdSurvives
      <4>6. \A j \in own \cup {n} : j <= n
        BY <1>3, <2>4
      <4>7. n \in own \cup {n} /\ own \cup {n} # {} /\ Owns(rows, n) = own \cup {n}
        BY <2>5, <3>2
      <4>8. /\ Field(rows[n], "DomainId") = t
            /\ domain'.grade = Field(rows[n], "Grade").text
        BY <1>2, <4>1, <4>2, <4>3
      <4> QED
        BY <4>5, <4>6, <4>7, <4>8 DEF DomainOf
    <3> QED
      BY <3>1, <3>2
  <2>7. DomainOf(answer'.rows, Owns(answer'.rows, i' - 1), domain')
    BY <1>3, <2>1, <2>6
  <2>8. answer'.api # "records" /\ ret' = "none" /\ i' \in 1 .. Len(answer'.rows) + 1
    BY <1>1, <1>3, <2>1 DEF LoopInv
  <2>9. LoopInv'
    BY <2>2, <2>7, <2>8 DEF LoopInv
  <2> QED
    BY <2>1, <2>8, <2>9 DEF DecodeInv, Results, DecodedAsSent, OtherNamesHarmless,
                            DomainDecodedAsSent
<1> QED
  BY <1>6, <1>7, <1>8

-----------------------------------------------------------------------------
(* All of it together: the parser, its tree, the text, and the object.     *)
DecoderInv == ParserInv /\ DepthInv /\ CutInv /\ CutNeverDecoded
              /\ TreeInv /\ TextInv /\ DecodeInv /\ Results

LEMMA DecoderInvInit == Init => DecoderInv
<1> SUFFICES ASSUME Init PROVE DecoderInv
  OBVIOUS
<1>1. ParserInv /\ DepthInv /\ CutInv /\ CutNeverDecoded /\ TreeInv /\ TextInv
  BY ParserInvInit, CutInvInit, TreeInvInit, TextInvInit
<1>2. pc = "parse" /\ Untouched
  BY DEF Init, Untouched
<1>3. DecodeInv /\ Results
  BY <1>2 DEF DecodeInv, Untouched, Results, DecodedAsSent, OtherNamesHarmless,
              DomainDecodedAsSent
<1> QED
  BY <1>1, <1>3 DEF DecoderInv

LEMMA DecoderInvNext == DecoderInv /\ [Next]_vars => DecoderInv'
<1> SUFFICES ASSUME DecoderInv, [Next]_vars PROVE DecoderInv'
  OBVIOUS
<1>1. /\ ParserInv /\ DepthInv /\ CutInv /\ CutNeverDecoded
      /\ TreeInv /\ TextInv /\ DecodeInv /\ Results
  BY DEF DecoderInv
<1>2. ParserInv' /\ DepthInv' /\ CutInv' /\ CutNeverDecoded' /\ TreeInv' /\ TextInv'
  BY <1>1, ParserInvNext, CutInvNext, TreeInvNext, TextInvNext
<1>3. DecodeInv' /\ Results'
  <2>1. CASE ParseNext /\ UNCHANGED decoder
    BY <1>1, <2>1, ParseResults
  <2>2. CASE NoTree
    BY <1>1, <2>2, NoTreeResults
  <2>3. CASE FindList
    BY <1>1, <2>3, FindListResults
  <2>4. CASE DecodeRecord
    BY <1>1, <2>4, DecodeRecordResults
  <2>5. CASE DecodeDomain
    BY <1>1, <2>5, DecodeDomainResults
  <2>6. CASE EndLoop
    BY <1>1, <2>6, EndLoopResults
  <2>7. CASE UNCHANGED vars
    <3>1. UNCHANGED <<heap, pc, answer, list, i, record, domain, ret>>
      BY <2>7 DEF vars
    <3>2. Rows(list) => Rows(list)'
      <4>1. PICK c : c = list /\ list' = c
        BY <3>1
      <4> QED
        BY <3>1, <4>1, RowsKept
    <3>3. DecodeInv'
      BY <1>1, <3>1, <3>2 DEF DecodeInv, LoopInv, Untouched, RecordsSoFar
    <3>4. \A f : Wanted(f)' = Wanted(f)
      BY <3>1 DEF Wanted, Defects
    <3>5. Defects' = Defects
      BY <3>1 DEF Defects
    <3>6. Results'
      BY <1>1, <3>1, <3>4, <3>5 DEF Results, DecodedAsSent, OtherNamesHarmless,
                                    DomainDecodedAsSent
    <3> QED
      BY <3>3, <3>6
  <2> QED
    BY <2>1, <2>2, <2>3, <2>4, <2>5, <2>6, <2>7 DEF Next, Terminated
<1> QED
  BY <1>2, <1>3 DEF DecoderInv

(* tretap_CJson_Parse builds the tree of the answer: when it has returned  *)
(* the root of a text that arrived completely, the text stands in that     *)
(* tree, each item at the token its value begins with, with the type, the  *)
(* value and the name the text gives it, above the first value in its      *)
(* brackets and in front of the value behind its comma.                    *)
TreeOfAnswer ==
    whole /\ pc = "tree" => \E f, at : Sits(f, at, Root, Document(answer))

THEOREM ParserBuildsTree == Spec => []TreeOfAnswer
<1>1. DecoderInv => TreeOfAnswer
  BY RootSits DEF DecoderInv, TreeOfAnswer
<1> QED
  BY <1>1, DecoderInvInit, DecoderInvNext, PTL DEF Spec

(* What tencentcloud_decode_record_list_filter leaves in record_ipv4 and   *)
(* record_ipv6 is what the served A and AAAA rows of RecordList say, in    *)
(* their order, up to the first row that lacks something, whatever the     *)
(* rows, their number, and the order and spelling of their members; and it *)
(* returns TRUE exactly if there is no such row.                           *)
THEOREM RecordsAsSent == Spec => []DecodedAsSent
<1>1. DecoderInv => DecodedAsSent
  BY DEF DecoderInv, Results
<1> QED
  BY <1>1, DecoderInvInit, DecoderInvNext, PTL DEF Spec

(* A row of another name never stops either decoder, unless it has no Name *)
(* at all: neither a check nor a null pointer that a member of such a row  *)
(* would lead to is reached.                                               *)
THEOREM OthersHarmless == Spec => []OtherNamesHarmless
<1>1. DecoderInv => OtherNamesHarmless
  BY DEF DecoderInv, Results
<1> QED
  BY <1>1, DecoderInvInit, DecoderInvNext, PTL DEF Spec

(* What tencentcloud_decode_domain_list leaves in domain_id and            *)
(* domain_grade is what the last row of the domain says, or nothing        *)
(* without one; an id that is a number comes through the 32-bit valueint   *)
(* exactly if it is at most INT_MAX, for every INT_MAX and word size.      *)
THEOREM DomainAsSent == Spec => []DomainDecodedAsSent
<1>1. DecoderInv => DomainDecodedAsSent
  BY DEF DecoderInv, Results
<1> QED
  BY <1>1, DecoderInvInit, DecoderInvNext, PTL DEF Spec

=============================================================================
