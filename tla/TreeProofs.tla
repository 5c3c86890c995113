----------------------------- MODULE TreeProofs ------------------------------
(***************************************************************************)
(* The tree the parser of CJson builds is that of the text: every item     *)
(* carries what its token says, its child is the first value in its        *)
(* brackets, and its next the value behind the comma that follows it.      *)
(***************************************************************************)
EXTENDS CJsonProofs

(* What an item is, when its text is parsed: at[k] is the token at which   *)
(* the value of item k begins.                                             *)
ItemOf(n, t) ==
    /\ n.type = TypeOf(t)
    /\ n.valuestring = IF t.kind = "str" THEN t.text ELSE Null
    /\ n.valuedouble = IF t.kind = "num" THEN t.num ELSE 0
    /\ t.kind = "num" => n.valueint = ToInt(t.num)

NameIs(n, d, p) == d[p - 1].kind = ":" => n.string = d[p - 2].text

(* The token p opens an array or object that is not empty, and where the   *)
(* first value in it begins; the same for the value behind one that        *)
(* extends from p to q.                                                    *)
Full(d, p) == /\ TypeOf(d[p]) \in {"Array", "Object"}
              /\ d[p + 1].kind # Closer[TypeOf(d[p])]

First(d, p) == IF TypeOf(d[p]) = "Array" THEN p + 1 ELSE p + 3

Behind(d, p, q) == IF d[p - 1].kind = ":" THEN q + 4 ELSE q + 2

ChildIs(n, d, p, at) ==
    IF Full(d, p) THEN n.child # NoNode /\ at[n.child] = First(d, p)
                  ELSE n.child = NoNode

NextIs(n, d, f, p, at) ==
    \E q : /\ Ends(f, p, q)
           /\ IF Comma(d[q + 1]) THEN n.next # NoNode /\ at[n.next] = Behind(d, p, q)
                                     ELSE n.next = NoNode

(* The items in S have these facts.                                        *)
Items(h, d, at, S) == \A k \in S : ItemOf(h[k], d[at[k]]) /\ ChildIs(h[k], d, at[k], at)
Labelled(h, d, at, S) == \A k \in S : k # Root => NameIs(h[k], d, at[k])
Linked(h, d, f, at, S) == \A k \in S : k # Root => NextIs(h[k], d, f, at[k], at)

(* The items are numbered in the order of their values.                    *)
Ordered(at, N) ==
    /\ at \in [1 .. N -> Nat] /\ at[Root] = 1
    /\ \A j, k \in 1 .. N : j < k => at[j] < at[k]

OffStack(N, st) == {k \in 1 .. N : \A a \in 1 .. Len(st) : st[a] # k}

(* The values under way around the token p: all of them are still open,    *)
(* and those in objects have a name.                                       *)
UnderWay(h, d, f, at, p, st, w) ==
    /\ st[1] = Root
    /\ \A a \in 1 .. Len(st) - 1 : /\ f[at[st[a]] - 1] = a - 1
                                   /\ \A r \in at[st[a]] .. p - 1 : f[r] > a - 1
    /\ \A a \in 2 .. Len(st) : a # Len(st) \/ w # "name" =>
          (d[at[st[a]] - 1].kind = ":" <=> h[st[a - 1]].type = "Object")

(* The innermost item, by what comes next: its value, its name, or what    *)
(* is behind it.                                                           *)
AtTop(h, f, at, p, st, w) ==
    LET M == Len(st)
    IN  /\ w = "value" => at[st[M]] = p
        /\ w = "name" => at[st[M]] = p + 2 /\ M > 1 /\ h[st[M - 1]].type = "Object"
        /\ w = "return" => Ends(f, at[st[M]], p - 1)
        /\ w # "return" => h[st[M]].valuedouble = 0

Parsed(h, st, w) == {k \in 1 .. Len(h) : w = "return" \/ k # st[Len(st)]}

TreeOf(h, d, f, at, p, st, w) ==
    /\ Ordered(at, Len(h))
    /\ \A k \in Parsed(h, st, w) : at[k] < p
    /\ Items(h, d, at, Parsed(h, st, w))
    /\ Labelled(h, d, at, {k \in 1 .. Len(h) : w # "name" \/ k # st[Len(st)]})
    /\ Linked(h, d, f, at, OffStack(Len(h), st))
    /\ UnderWay(h, d, f, at, p, st, w)
    /\ AtTop(h, f, at, p, st, w)

(* All of them, when the root is parsed.                                   *)
Settled(h, d, f, at) ==
    /\ Ordered(at, Len(h))
    /\ Items(h, d, at, 1 .. Len(h))
    /\ Labelled(h, d, at, 1 .. Len(h))
    /\ Linked(h, d, f, at, 1 .. Len(h))

(* Items that are not touched keep the facts.                              *)
Kept(h, at, g, bt, S, N) ==
    /\ S \subseteq 1 .. N
    /\ \A k \in S : g[k] = h[k] /\ h[k].child \in 0 .. N /\ h[k].next \in 0 .. N
    /\ \A k \in 1 .. N : bt[k] = at[k]

LEMMA ItemsKept ==
    ASSUME NEW h, NEW d, NEW at, NEW g, NEW bt, NEW S, NEW N \in Nat, Kept(h, at, g, bt, S, N)
    PROVE  /\ Items(h, d, at, S) => Items(g, d, bt, S)
           /\ Labelled(h, d, at, S) => Labelled(g, d, bt, S)
<1>1. ASSUME NEW k \in S
      PROVE  /\ g[k] = h[k] /\ bt[k] = at[k]
             /\ h[k].child # NoNode => bt[h[k].child] = at[h[k].child]
  <2>1. k \in 1 .. N /\ h[k].child \in 0 .. N
    BY DEF Kept
  <2>2. h[k].child # NoNode => h[k].child \in 1 .. N
    BY <2>1 DEF NoNode
  <2> QED
    BY <2>1, <2>2 DEF Kept
<1>2. ASSUME NEW k \in S, NEW p, ChildIs(h[k], d, p, at) PROVE ChildIs(h[k], d, p, bt)
  BY <1>1, <1>2 DEF ChildIs
<1> QED
  BY <1>1, <1>2 DEF Items, Labelled

LEMMA LinksKept ==
    ASSUME NEW h, NEW d, NEW f, NEW at, NEW g, NEW bt, NEW S, NEW N \in Nat,
           Kept(h, at, g, bt, S, N), Linked(h, d, f, at, S)
    PROVE  Linked(g, d, f, bt, S)
<1>1. ASSUME NEW k \in S
      PROVE  /\ g[k] = h[k] /\ bt[k] = at[k]
             /\ h[k].next # NoNode => bt[h[k].next] = at[h[k].next]
  <2>1. k \in 1 .. N /\ h[k].next \in 0 .. N
    BY DEF Kept
  <2>2. h[k].next # NoNode => h[k].next \in 1 .. N
    BY <2>1 DEF NoNode
  <2> QED
    BY <2>1, <2>2 DEF Kept
<1>2. ASSUME NEW k \in S, NEW p, NextIs(h[k], d, f, p, at) PROVE NextIs(h[k], d, f, p, bt)
  <2>1. PICK q : /\ Ends(f, p, q)
                 /\ IF Comma(d[q + 1])
                      THEN h[k].next # NoNode /\ at[h[k].next] = Behind(d, p, q)
                      ELSE h[k].next = NoNode
    BY <1>2 DEF NextIs
  <2>2. IF Comma(d[q + 1])
          THEN h[k].next # NoNode /\ bt[h[k].next] = Behind(d, p, q)
          ELSE h[k].next = NoNode
    BY <1>1, <2>1
  <2> QED
    BY <2>1, <2>2, Zenon DEF NextIs
<1> QED
  BY <1>1, <1>2 DEF Linked

-----------------------------------------------------------------------------
(* One lemma for each way in which the parser goes on; Frame is what is    *)
(* known of heap and stack by themselves.                                  *)
Frame(h, st, N, M) ==
    /\ N \in Nat /\ M \in Nat /\ N = Len(h) /\ M = Len(st) /\ M # 0
    /\ \A a \in 1 .. M : st[a] \in 1 .. N
    /\ \A a \in 1 .. M - 1 : st[a] # st[M]
    /\ \A k \in 1 .. N : h[k].child \in 0 .. N /\ h[k].next \in 0 .. N
    /\ h[st[M]].next = NoNode

LEMMA FrameIs ==
    ASSUME NEW h, NEW st, NEW N, NEW M, Frame(h, st, N, M)
    PROVE  /\ st[M] \in 1 .. N /\ M \in 1 .. M /\ N # 0
           /\ \A a \in 1 .. M - 1 : a \in 1 .. M /\ a # M /\ st[a] \in 1 .. N /\ st[a] # st[M]
           /\ OffStack(N, st) \subseteq (1 .. N) \ {st[M]}
<1>1. N \in Nat /\ M \in Nat /\ M # 0 /\ M = Len(st)
  BY DEF Frame
<1>2. M \in 1 .. M /\ \A a \in 1 .. M - 1 : a \in 1 .. M /\ a # M
  BY <1>1
<1>3. st[M] \in 1 .. N /\ \A a \in 1 .. M - 1 : st[a] \in 1 .. N /\ st[a] # st[M]
  BY <1>2 DEF Frame
<1>4. N # 0
  BY <1>1, <1>3
<1> QED
  BY <1>1, <1>2, <1>3, <1>4 DEF OffStack

(* The value of the innermost item is read: a scalar, or an empty array or *)
(* object.                                                                 *)
LEMMA TreeFilled ==
    ASSUME NEW h, NEW d, NEW f, NEW at, NEW p \in Nat, NEW st, NEW N, NEW M,
           Frame(h, st, N, M), TreeOf(h, d, f, at, p, st, "value"),
           NEW g, Len(g) = N, \A k \in 1 .. N : k # st[M] => g[k] = h[k],
           g[st[M]].string = h[st[M]].string,
           ItemOf(g[st[M]], d[p]), g[st[M]].child = NoNode, ~ Full(d, p),
           NEW q \in Nat, q > p, Ends(f, p, q - 1), f[p - 1] = M - 1,
           \A r \in p .. q - 1 : f[r] \in Int
    PROVE  TreeOf(g, d, f, at, q, st, "return")
<1>1. /\ N \in Nat /\ M \in Nat /\ N = Len(h) /\ M = Len(st) /\ M # 0
      /\ \A k \in 1 .. N : h[k].child \in 0 .. N /\ h[k].next \in 0 .. N
  BY DEF Frame
<1>2. /\ st[M] \in 1 .. N /\ M \in 1 .. M
      /\ \A a \in 1 .. M - 1 : a \in 1 .. M /\ a # M /\ st[a] \in 1 .. N /\ st[a] # st[M]
      /\ OffStack(N, st) \subseteq (1 .. N) \ {st[M]}
  BY FrameIs
<1> DEFINE rest == (1 .. N) \ {st[M]}
<1>3. Parsed(h, st, "value") = rest /\ Parsed(g, st, "return") = 1 .. N
  BY <1>1 DEF Parsed
<1>4. /\ Ordered(at, N) /\ (\A k \in rest : at[k] < p) /\ Items(h, d, at, rest)
      /\ Labelled(h, d, at, 1 .. N) /\ Linked(h, d, f, at, OffStack(N, st))
      /\ UnderWay(h, d, f, at, p, st, "value") /\ at[st[M]] = p
  <2>1. \A k \in 1 .. N : k \in {j \in 1 .. Len(h) : "value" # "name" \/ j # st[Len(st)]}
    BY <1>1
  <2>2. Labelled(h, d, at, 1 .. N)
    BY <2>1 DEF TreeOf, Labelled
  <2>3. at[st[M]] = p
    BY <1>1 DEF TreeOf, AtTop
  <2> QED
    BY <1>1, <1>3, <2>2, <2>3 DEF TreeOf
<1>5. /\ Kept(h, at, g, at, rest, N) /\ Kept(h, at, g, at, OffStack(N, st), N)
  BY <1>1, <1>2 DEF Kept
<1>6. Items(g, d, at, 1 .. N)
  <2>1. Items(g, d, at, rest)
    BY <1>1, <1>4, <1>5, ItemsKept
  <2>2. ChildIs(g[st[M]], d, p, at)
    BY DEF ChildIs
  <2> QED
    BY <1>4, <2>1, <2>2 DEF Items
<1>7. \A k \in 1 .. N : at[k] < q
  <2>1. at \in [1 .. N -> Nat]
    BY <1>4 DEF Ordered
  <2>2. ASSUME NEW k \in 1 .. N PROVE at[k] < q
    <3>1. at[k] \in Nat
      BY <2>1
    <3>2. at[k] < p \/ at[k] = p
      BY <1>4
    <3> QED
      BY <3>1, <3>2
  <2> QED
    BY <2>2
<1>8. Labelled(g, d, at, {k \in 1 .. N : "return" # "name" \/ k # st[M]})
  <2>1. \A k \in 1 .. N : g[k].string = h[k].string
    OBVIOUS
  <2> QED
    BY <1>4, <2>1 DEF Labelled, NameIs
<1>9. Linked(g, d, f, at, OffStack(N, st))
  BY <1>1, <1>4, <1>5, LinksKept
<1>10. UnderWay(g, d, f, at, q, st, "return")
  <2>1. ASSUME NEW a \in 1 .. M - 1, NEW r \in at[st[a]] .. q - 1 PROVE f[r] > a - 1
    <3>1. r \in at[st[a]] .. p - 1 => f[r] > a - 1
      BY <1>1, <1>4 DEF UnderWay
    <3>2. at[st[a]] \in Nat
      BY <1>2, <1>4 DEF Ordered
    <3>3. r \in at[st[a]] .. p - 1 \/ r \in p .. (q - 1) - 1 \/ r = q - 1
      BY <3>2
    <3>4. r \in p .. (q - 1) - 1 => f[r] > M - 1
      BY DEF Ends
    <3>5. f[q - 1] = M - 1
      BY DEF Ends
    <3>6. r \in p .. (q - 1) - 1 => f[r] > a - 1
      <4> SUFFICES ASSUME r \in p .. (q - 1) - 1 PROVE f[r] > a - 1
        OBVIOUS
      <4>1. f[r] \in Int /\ f[r] > M - 1
        <5>1. r \in p .. q - 1
          OBVIOUS
        <5> QED
          BY <3>4, <5>1
      <4> QED
        BY <1>1, <4>1
    <3> QED
      BY <1>1, <3>1, <3>3, <3>5, <3>6
  <2>2. ASSUME NEW a \in 2 .. M
        PROVE  d[at[st[a]] - 1].kind = ":" <=> g[st[a - 1]].type = "Object"
    <3>1. a - 1 \in 1 .. M - 1
      BY <1>1
    <3>2. g[st[a - 1]] = h[st[a - 1]]
      BY <1>2, <3>1
    <3>3. "value" # "name"
      OBVIOUS
    <3> QED
      BY <1>1, <1>4, <3>2, <3>3 DEF UnderWay
  <2> QED
    BY <1>1, <1>4, <2>1, <2>2 DEF UnderWay
<1>11. AtTop(g, f, at, q, st, "return")
  BY <1>1, <1>4 DEF AtTop
<1> QED
  BY <1>1, <1>3, <1>4, <1>6, <1>7, <1>8, <1>9, <1>10, <1>11 DEF TreeOf

OneMore(bt, at, N, P) ==
    Ordered(bt, N + 1) /\ bt[N + 1] = P /\ \A k \in 1 .. N : bt[k] = at[k]

LEMMA OrderedMore ==
    ASSUME NEW N \in Nat, N # 0, NEW at, Ordered(at, N), NEW P \in Nat,
           \A k \in 1 .. N : at[k] < P
    PROVE  \E bt : OneMore(bt, at, N, P)
<1> DEFINE bt == [k \in 1 .. N + 1 |-> IF k = N + 1 THEN P ELSE at[k]]
<1>1. \A k \in 1 .. N : k \in 1 .. N + 1 /\ k # N + 1
  OBVIOUS
<1>2. \A k \in 1 .. N + 1 : k \in 1 .. N \/ k = N + 1
  OBVIOUS
<1>3. bt \in [1 .. N + 1 -> Nat]
  BY <1>2 DEF Ordered
<1>4. N + 1 \in 1 .. N + 1 /\ Root \in 1 .. N
  BY DEF Root
<1>5. bt[N + 1] = P /\ \A k \in 1 .. N : bt[k] = at[k]
  BY <1>1, <1>4
<1> HIDE DEF bt
<1>6. ASSUME NEW j \in 1 .. N + 1, NEW k \in 1 .. N + 1, j < k PROVE bt[j] < bt[k]
  <2>1. j \in 1 .. N
    BY <1>6
  <2>2. CASE k \in 1 .. N
    BY <1>5, <1>6, <2>1, <2>2 DEF Ordered
  <2>3. CASE k = N + 1
    BY <1>5, <2>1, <2>3
  <2> QED
    BY <1>2, <2>2, <2>3
<1>7. Ordered(bt, N + 1)
  BY <1>3, <1>4, <1>5, <1>6 DEF Ordered
<1> QED
  BY <1>5, <1>7 DEF OneMore

(* The bracket in front of a first child.                                  *)
HungBelow(h, d, p, st, g, ts, w, N, M) ==
    /\ Len(g) = N + 1 /\ \A k \in 1 .. N : k # st[M] => g[k] = h[k]
    /\ g[st[M]].string = h[st[M]].string /\ g[N + 1].valuedouble = 0
    /\ ItemOf(g[st[M]], d[p]) /\ g[st[M]].child = N + 1 /\ Full(d, p) /\ d[p].kind # ":"
    /\ w = IF TypeOf(d[p]) = "Array" THEN "value" ELSE "name"
    /\ Len(ts) = M + 1 /\ ts[M + 1] = N + 1 /\ \A a \in 1 .. M : ts[a] = st[a]

LEMMA TreeOpened ==
    ASSUME NEW h, NEW d, NEW f, NEW at, NEW p \in Nat, NEW st, NEW N, NEW M,
           Frame(h, st, N, M), TreeOf(h, d, f, at, p, st, "value"),
           NEW g, NEW ts, NEW w, HungBelow(h, d, p, st, g, ts, w, N, M), f[p - 1] = M - 1, f[p] = M
    PROVE  \E bt : TreeOf(g, d, f, bt, p + 1, ts, w)
<1>0. /\ Len(g) = N + 1 /\ \A k \in 1 .. N : k # st[M] => g[k] = h[k]
      /\ g[st[M]].string = h[st[M]].string /\ g[N + 1].valuedouble = 0
      /\ ItemOf(g[st[M]], d[p]) /\ g[st[M]].child = N + 1 /\ Full(d, p) /\ d[p].kind # ":"
      /\ w = IF TypeOf(d[p]) = "Array" THEN "value" ELSE "name"
      /\ Len(ts) = M + 1 /\ ts[M + 1] = N + 1 /\ \A a \in 1 .. M : ts[a] = st[a]
  BY DEF HungBelow
<1> USE <1>0
<1>1. /\ N \in Nat /\ M \in Nat /\ N = Len(h) /\ M = Len(st) /\ M # 0
      /\ \A k \in 1 .. N : h[k].child \in 0 .. N /\ h[k].next \in 0 .. N
  BY DEF Frame
<1>2. /\ st[M] \in 1 .. N /\ M \in 1 .. M /\ N # 0
      /\ \A a \in 1 .. M - 1 : a \in 1 .. M /\ a # M /\ st[a] \in 1 .. N /\ st[a] # st[M]
      /\ OffStack(N, st) \subseteq (1 .. N) \ {st[M]}
  BY FrameIs
<1> DEFINE rest == (1 .. N) \ {st[M]}
<1>3. Parsed(h, st, "value") = rest
  BY <1>1 DEF Parsed
<1>4. /\ Ordered(at, N) /\ (\A k \in rest : at[k] < p) /\ Items(h, d, at, rest)
      /\ Labelled(h, d, at, 1 .. N) /\ Linked(h, d, f, at, OffStack(N, st))
      /\ UnderWay(h, d, f, at, p, st, "value") /\ at[st[M]] = p
  <2>1. \A k \in 1 .. N : k \in {j \in 1 .. Len(h) : "value" # "name" \/ j # st[Len(st)]}
    BY <1>1
  <2>2. Labelled(h, d, at, 1 .. N)
    BY <2>1 DEF TreeOf, Labelled
  <2>3. at[st[M]] = p
    BY <1>1 DEF TreeOf, AtTop
  <2> QED
    BY <1>1, <1>3, <2>2, <2>3 DEF TreeOf
<1>5. \A k \in 1 .. N : at[k] \in Nat /\ at[k] < p + 1
  BY <1>4 DEF Ordered
<1>6. PICK P \in Nat : P = First(d, p) /\ P >= p + 1 /\ (w = "value" => P = p + 1)
                       /\ (w = "name" => P = p + 3)
  BY DEF First
<1>7. \A k \in 1 .. N : at[k] < P
  BY <1>5, <1>6
<1>8. PICK bt : Ordered(bt, N + 1) /\ bt[N + 1] = P /\ \A k \in 1 .. N : bt[k] = at[k]
  <2>1. N \in Nat /\ N # 0 /\ Ordered(at, N) /\ P \in Nat /\ \A k \in 1 .. N : at[k] < P
    BY <1>1, <1>2, <1>4, <1>6, <1>7
  <2>2. PICK bt : OneMore(bt, at, N, P)
    BY <2>1, OrderedMore, Zenon
  <2> QED
    BY <2>2 DEF OneMore
<1>9. Kept(h, at, g, bt, rest, N) /\ Kept(h, at, g, bt, OffStack(N, st), N)
  BY <1>1, <1>2, <1>8 DEF Kept
<1>10. /\ \A k \in 1 .. N + 1 : k \in 1 .. N \/ k = N + 1
       /\ \A k \in 1 .. N : k \in 1 .. N + 1 /\ k # N + 1
       /\ N + 1 \in 1 .. N + 1
  BY <1>1
<1>11. Parsed(g, ts, w) = 1 .. N
  <2>1. w # "return"
    OBVIOUS
  <2> QED
    BY <1>1, <1>10, <2>1 DEF Parsed
<1>12. Items(g, d, bt, 1 .. N)
  <2>1. Items(g, d, bt, rest)
    BY <1>1, <1>4, <1>9, ItemsKept
  <2>2. ChildIs(g[st[M]], d, p, bt)
    BY <1>1, <1>6, <1>8 DEF ChildIs, NoNode
  <2>3. bt[st[M]] = p
    BY <1>2, <1>4, <1>8
  <2> QED
    BY <2>1, <2>2, <2>3 DEF Items
<1>13. Labelled(g, d, bt, {k \in 1 .. N + 1 : w # "name" \/ k # N + 1})
  <2>1. \A k \in 1 .. N : g[k].string = h[k].string /\ bt[k] = at[k]
    BY <1>8
  <2>2. w # "name" => NameIs(g[N + 1], d, bt[N + 1])
    <3>1. w # "name" => bt[N + 1] - 1 = p
      BY <1>6, <1>8
    <3> QED
      BY <3>1 DEF NameIs
  <2>3. \A k \in 1 .. N : k # Root => NameIs(g[k], d, bt[k])
    BY <1>4, <2>1 DEF Labelled, NameIs
  <2> QED
    BY <1>10, <2>2, <2>3 DEF Labelled
<1>14. Linked(g, d, f, bt, OffStack(N + 1, ts))
  <2>1. OffStack(N + 1, ts) \subseteq OffStack(N, st)
    <3>1. M + 1 \in 1 .. M + 1 /\ \A a \in 1 .. M : a \in 1 .. M + 1
      BY <1>1
    <3> QED
      BY <1>1, <1>10, <3>1 DEF OffStack
  <2>2. Linked(g, d, f, bt, OffStack(N, st))
    BY <1>1, <1>4, <1>9, LinksKept
  <2> QED
    BY <2>1, <2>2 DEF Linked
<1>15. UnderWay(g, d, f, bt, p + 1, ts, w)
  <2>0. 1 \in 1 .. M /\ ts[1] = Root
    BY <1>1, <1>4 DEF UnderWay
  <2>1. ASSUME NEW a \in 1 .. M
        PROVE  /\ f[bt[ts[a]] - 1] = a - 1
               /\ \A r \in bt[ts[a]] .. (p + 1) - 1 : f[r] > a - 1
    <3>1. st[a] \in 1 .. N /\ bt[ts[a]] = at[st[a]]
      BY <1>8 DEF Frame
    <3>2. CASE a = M
      <4>1. bt[ts[a]] = p
        BY <1>4, <3>1, <3>2
      <4>2. \A r \in p .. (p + 1) - 1 : r = p
        OBVIOUS
      <4>3. f[p] > M - 1
        BY <1>1
      <4> QED
        BY <3>2, <4>1, <4>2, <4>3
    <3>3. CASE a # M
      <4>1. a \in 1 .. M - 1
        BY <1>1, <3>3
      <4>2. f[at[st[a]] - 1] = a - 1 /\ \A r \in at[st[a]] .. p - 1 : f[r] > a - 1
        BY <1>1, <1>4, <4>1 DEF UnderWay
      <4>3. at[st[a]] \in Nat
        BY <1>5, <3>1
      <4>4. \A r \in at[st[a]] .. (p + 1) - 1 : r \in at[st[a]] .. p - 1 \/ r = p
        BY <4>3
      <4>5. f[p] > a - 1
        BY <1>1, <4>1
      <4> QED
        BY <3>1, <4>2, <4>4, <4>5
    <3> QED
      BY <3>2, <3>3
  <2>2. ASSUME NEW a \in 2 .. M + 1, a # M + 1 \/ w # "name"
        PROVE  d[bt[ts[a]] - 1].kind = ":" <=> g[ts[a - 1]].type = "Object"
    <3>1. CASE a = M + 1
      <4>1. ts[a] = N + 1 /\ a - 1 = M /\ ts[a - 1] = st[M] /\ w = "value"
        BY <1>1, <1>2, <2>2, <3>1
      <4>2. bt[ts[a]] - 1 = p
        BY <1>6, <1>8, <4>1
      <4>3. g[st[M]].type = "Array"
        BY <4>1 DEF ItemOf
      <4> QED
        BY <4>1, <4>2, <4>3
    <3>2. CASE a # M + 1
      <4>1. a \in 2 .. M /\ a \in 1 .. M /\ a - 1 \in 1 .. M - 1 /\ a - 1 \in 1 .. M
        BY <1>1, <3>2
      <4>2. st[a] \in 1 .. N /\ ts[a] = st[a] /\ ts[a - 1] = st[a - 1]
        BY <4>1 DEF Frame
      <4>3. bt[ts[a]] = at[st[a]]
        BY <1>8, <4>2
      <4>4. st[a - 1] \in 1 .. N /\ st[a - 1] # st[M]
        BY <1>2, <4>1
      <4>5. g[ts[a - 1]] = h[st[a - 1]]
        BY <4>2, <4>4
      <4>6. "value" # "name"
        OBVIOUS
      <4>7. d[at[st[a]] - 1].kind = ":" <=> h[st[a - 1]].type = "Object"
        BY <1>1, <1>4, <4>1, <4>6 DEF UnderWay
      <4> QED
        BY <4>3, <4>5, <4>7
    <3> QED
      BY <3>1, <3>2
  <2>3. Len(ts) - 1 = M
    BY <1>1
  <2> QED
    BY <2>0, <2>1, <2>2, <2>3 DEF UnderWay
<1>16. AtTop(g, f, bt, p + 1, ts, w)
  <2>1. w = "name" => (p + 1) + 2 = P /\ M + 1 > 1 /\ g[ts[(M + 1) - 1]].type = "Object"
    <3> SUFFICES ASSUME w = "name"
                 PROVE  (p + 1) + 2 = P /\ M + 1 > 1 /\ g[ts[(M + 1) - 1]].type = "Object"
      OBVIOUS
    <3>1. TypeOf(d[p]) = "Object"
      BY DEF Full
    <3>2. (M + 1) - 1 = M /\ ts[M] = st[M] /\ M + 1 > 1
      BY <1>1, <1>2
    <3>3. g[st[M]].type = "Object"
      BY <3>1 DEF ItemOf
    <3> QED
      BY <1>6, <3>2, <3>3
  <2>2. w # "return"
    OBVIOUS
  <2> QED
    BY <1>6, <1>8, <2>1, <2>2 DEF AtTop
<1>17. \A k \in Parsed(g, ts, w) : bt[k] < p + 1
  BY <1>5, <1>8, <1>11
<1>18. ts[Len(ts)] = N + 1
  OBVIOUS
<1>19. /\ Ordered(bt, Len(g)) /\ Items(g, d, bt, Parsed(g, ts, w))
       /\ Labelled(g, d, bt, {k \in 1 .. Len(g) : w # "name" \/ k # ts[Len(ts)]})
       /\ Linked(g, d, f, bt, OffStack(Len(g), ts))
  BY <1>8, <1>11, <1>12, <1>13, <1>14, <1>18
<1> QED
  BY <1>15, <1>16, <1>17, <1>19, Zenon DEF TreeOf

Filling(h, g, N, t) == Len(g) = N /\ \A k \in 1 .. N : k # t => g[k] = h[k]

(* The name of a member is read.                                           *)
LEMMA TreeNamed ==
    ASSUME NEW h, NEW d, NEW f, NEW at, NEW p \in Nat, NEW st, NEW N, NEW M,
           Frame(h, st, N, M), TreeOf(h, d, f, at, p, st, "name"),
           NEW g, Filling(h, g, N, st[M]),
           g[st[M]].string = d[p].text, g[st[M]].valuedouble = h[st[M]].valuedouble,
           d[p + 1].kind = ":", f[p] = M - 1, f[p + 1] = M - 1
    PROVE  TreeOf(g, d, f, at, p + 2, st, "value")
<1>0. Len(g) = N /\ \A k \in 1 .. N : k # st[M] => g[k] = h[k]
  BY DEF Filling
<1> USE <1>0
<1>1. /\ N \in Nat /\ M \in Nat /\ N = Len(h) /\ M = Len(st) /\ M # 0
      /\ \A k \in 1 .. N : h[k].child \in 0 .. N /\ h[k].next \in 0 .. N
  BY DEF Frame
<1>2. /\ st[M] \in 1 .. N /\ M \in 1 .. M /\ N # 0
      /\ \A a \in 1 .. M - 1 : a \in 1 .. M /\ a # M /\ st[a] \in 1 .. N /\ st[a] # st[M]
      /\ OffStack(N, st) \subseteq (1 .. N) \ {st[M]}
  BY FrameIs
<1> DEFINE rest == (1 .. N) \ {st[M]}
<1>3. Parsed(h, st, "name") = rest /\ Parsed(g, st, "value") = rest
  BY <1>1 DEF Parsed
<1>4. /\ Ordered(at, N) /\ (\A k \in rest : at[k] < p) /\ Items(h, d, at, rest)
      /\ Labelled(h, d, at, rest) /\ Linked(h, d, f, at, OffStack(N, st))
      /\ UnderWay(h, d, f, at, p, st, "name")
      /\ at[st[M]] = p + 2 /\ M > 1 /\ h[st[M - 1]].type = "Object"
      /\ h[st[M]].valuedouble = 0
  <2>1. \A k \in rest : k \in {j \in 1 .. Len(h) : "name" # "name" \/ j # st[Len(st)]}
    BY <1>1
  <2>2. Labelled(h, d, at, rest)
    BY <2>1 DEF TreeOf, Labelled
  <2>3. AtTop(h, f, at, p, st, "name")
    BY DEF TreeOf
  <2>4. "name" # "return"
    OBVIOUS
  <2>5. /\ at[st[M]] = p + 2 /\ M > 1 /\ h[st[M - 1]].type = "Object" /\ h[st[M]].valuedouble = 0
    BY <1>1, <2>3, <2>4 DEF AtTop
  <2> QED
    BY <1>1, <1>3, <2>2, <2>5 DEF TreeOf
<1>5. Kept(h, at, g, at, rest, N) /\ Kept(h, at, g, at, OffStack(N, st), N)
  BY <1>1, <1>2 DEF Kept
<1>6. Items(g, d, at, rest) /\ Labelled(g, d, at, rest) /\ Linked(g, d, f, at, OffStack(N, st))
  BY <1>1, <1>4, <1>5, ItemsKept, LinksKept
<1>7. \A k \in rest : at[k] < p + 2
  <2>1. \A k \in rest : at[k] \in Nat
    BY <1>4 DEF Ordered
  <2> QED
    BY <1>4, <2>1
<1>8. Labelled(g, d, at, {k \in 1 .. N : "value" # "name" \/ k # st[M]})
  <2>1. (p + 2) - 2 = p
    OBVIOUS
  <2>2. NameIs(g[st[M]], d, at[st[M]])
    BY <1>4, <2>1 DEF NameIs
  <2> QED
    BY <1>6, <2>2 DEF Labelled
<1>9. UnderWay(g, d, f, at, p + 2, st, "value")
  <2>1. ASSUME NEW a \in 1 .. M - 1
        PROVE  /\ f[at[st[a]] - 1] = a - 1
               /\ \A r \in at[st[a]] .. (p + 2) - 1 : f[r] > a - 1
    <3>1. f[at[st[a]] - 1] = a - 1 /\ \A r \in at[st[a]] .. p - 1 : f[r] > a - 1
      BY <1>1, <1>4 DEF UnderWay
    <3>2. at[st[a]] \in Nat
      BY <1>2, <1>4 DEF Ordered
    <3>3. \A r \in at[st[a]] .. (p + 2) - 1 : r \in at[st[a]] .. p - 1 \/ r = p \/ r = p + 1
      BY <3>2
    <3>4. M - 1 > a - 1
      BY <1>1
    <3> QED
      BY <3>1, <3>3, <3>4
  <2>2. ASSUME NEW a \in 2 .. M
        PROVE  d[at[st[a]] - 1].kind = ":" <=> g[st[a - 1]].type = "Object"
    <3>1. a - 1 \in 1 .. M - 1
      BY <1>1
    <3>2. g[st[a - 1]] = h[st[a - 1]]
      BY <1>2, <3>1
    <3>3. CASE a = M
      <4>1. (p + 2) - 1 = p + 1
        OBVIOUS
      <4> QED
        BY <1>4, <3>2, <3>3, <4>1
    <3>4. CASE a # M
      BY <1>1, <1>4, <3>2, <3>4 DEF UnderWay
    <3> QED
      BY <3>3, <3>4
  <2> QED
    BY <1>1, <1>4, <2>1, <2>2 DEF UnderWay
<1>10. AtTop(g, f, at, p + 2, st, "value")
  BY <1>1, <1>4 DEF AtTop
<1> QED
  BY <1>1, <1>3, <1>4, <1>6, <1>7, <1>8, <1>9, <1>10 DEF TreeOf

(* The facts when the innermost item is complete.                          *)
LEMMA TreeReturned ==
    ASSUME NEW h, NEW d, NEW f, NEW at, NEW p, NEW st, NEW N, NEW M,
           Frame(h, st, N, M), TreeOf(h, d, f, at, p, st, "return")
    PROVE  /\ Ordered(at, N) /\ (\A k \in 1 .. N : at[k] < p) /\ Items(h, d, at, 1 .. N)
           /\ Labelled(h, d, at, 1 .. N) /\ Linked(h, d, f, at, OffStack(N, st))
           /\ UnderWay(h, d, f, at, p, st, "return") /\ Ends(f, at[st[M]], p - 1)
<1>1. N = Len(h) /\ M = Len(st)
  BY DEF Frame
<1>2. Parsed(h, st, "return") = 1 .. N
  BY <1>1 DEF Parsed
<1>3. \A k \in 1 .. N : k \in {j \in 1 .. Len(h) : "return" # "name" \/ j # st[Len(st)]}
  BY <1>1
<1>4. Labelled(h, d, at, 1 .. N)
  BY <1>3 DEF TreeOf, Labelled
<1>5. Ends(f, at[st[M]], p - 1)
  BY <1>1 DEF TreeOf, AtTop
<1> QED
  BY <1>1, <1>2, <1>4, <1>5 DEF TreeOf

(* A comma behind it.                                                      *)
HungBehind(h, st, g, ts, w, N, M) ==
    /\ Len(g) = N + 1
    /\ \A k \in 1 .. N :
          /\ k # st[M] => g[k] = h[k]
          /\ g[k].type = h[k].type /\ g[k].valuestring = h[k].valuestring
          /\ g[k].valuedouble = h[k].valuedouble /\ g[k].valueint = h[k].valueint
          /\ g[k].child = h[k].child /\ g[k].string = h[k].string
    /\ g[st[M]].next = N + 1 /\ g[N + 1].valuedouble = 0
    /\ M > 1 /\ h[st[M - 1]].type \in {"Array", "Object"}
    /\ w = IF h[st[M - 1]].type = "Array" THEN "value" ELSE "name"
    /\ Len(ts) = M /\ ts[M] = N + 1 /\ \A a \in 1 .. M - 1 : ts[a] = st[a]

LEMMA TreeNext ==
    ASSUME NEW h, NEW d, NEW f, NEW at, NEW p \in Nat, NEW st, NEW N, NEW M,
           Frame(h, st, N, M), TreeOf(h, d, f, at, p, st, "return"),
           NEW g, NEW ts, NEW w, HungBehind(h, st, g, ts, w, N, M), Comma(d[p]), f[p] = M - 1
    PROVE  \E bt : TreeOf(g, d, f, bt, p + 1, ts, w)
<1>0. /\ Len(g) = N + 1
      /\ \A k \in 1 .. N :
            /\ k # st[M] => g[k] = h[k]
            /\ g[k].type = h[k].type /\ g[k].valuestring = h[k].valuestring
            /\ g[k].valuedouble = h[k].valuedouble /\ g[k].valueint = h[k].valueint
            /\ g[k].child = h[k].child /\ g[k].string = h[k].string
      /\ g[st[M]].next = N + 1 /\ g[N + 1].valuedouble = 0
      /\ M > 1 /\ h[st[M - 1]].type \in {"Array", "Object"}
      /\ w = IF h[st[M - 1]].type = "Array" THEN "value" ELSE "name"
      /\ Len(ts) = M /\ ts[M] = N + 1 /\ \A a \in 1 .. M - 1 : ts[a] = st[a]
      /\ d[p].kind # ":"
  <2>1. d[p].kind # ":"
    BY CommaIs, Zenon
  <2> QED
    BY <2>1 DEF HungBehind
<1> USE <1>0
<1>1. /\ N \in Nat /\ M \in Nat /\ N = Len(h) /\ M = Len(st) /\ M # 0
      /\ \A k \in 1 .. N : h[k].child \in 0 .. N /\ h[k].next \in 0 .. N
  BY DEF Frame
<1>2. /\ st[M] \in 1 .. N /\ M \in 1 .. M /\ N # 0
      /\ \A a \in 1 .. M - 1 : a \in 1 .. M /\ a # M /\ st[a] \in 1 .. N /\ st[a] # st[M]
      /\ OffStack(N, st) \subseteq (1 .. N) \ {st[M]}
  BY FrameIs
<1>3. /\ Ordered(at, N) /\ (\A k \in 1 .. N : at[k] < p) /\ Items(h, d, at, 1 .. N)
      /\ Labelled(h, d, at, 1 .. N) /\ Linked(h, d, f, at, OffStack(N, st))
      /\ UnderWay(h, d, f, at, p, st, "return") /\ Ends(f, at[st[M]], p - 1)
  BY TreeReturned
<1>4. \A k \in 1 .. N : at[k] \in Nat
  BY <1>3 DEF Ordered
<1>5. PICK P \in Nat : P >= p + 1 /\ (w = "value" => P = p + 1) /\ (w = "name" => P = p + 3)
  <2>1. p + 1 \in Nat /\ p + 3 \in Nat /\ p + 3 >= p + 1 /\ p + 1 >= p + 1
    OBVIOUS
  <2> QED
    BY <2>1
<1>6. \A k \in 1 .. N : at[k] < P
  BY <1>3, <1>4, <1>5
<1>7. PICK bt : Ordered(bt, N + 1) /\ bt[N + 1] = P /\ \A k \in 1 .. N : bt[k] = at[k]
  <2>1. N \in Nat /\ N # 0 /\ Ordered(at, N) /\ P \in Nat /\ \A k \in 1 .. N : at[k] < P
    BY <1>1, <1>2, <1>3, <1>5, <1>6
  <2>2. PICK bt : OneMore(bt, at, N, P)
    BY <2>1, OrderedMore, Zenon
  <2> QED
    BY <2>2 DEF OneMore
<1>8. /\ \A k \in 1 .. N + 1 : k \in 1 .. N \/ k = N + 1
      /\ \A k \in 1 .. N : k \in 1 .. N + 1 /\ k # N + 1
      /\ N + 1 \in 1 .. N + 1
  BY <1>1
<1>9. Parsed(g, ts, w) = 1 .. N
  <2>1. w # "return"
    OBVIOUS
  <2> QED
    BY <1>1, <1>8, <2>1 DEF Parsed
<1>10. Items(g, d, bt, 1 .. N)
  <2> SUFFICES ASSUME NEW k \in 1 .. N
               PROVE  ItemOf(g[k], d[bt[k]]) /\ ChildIs(g[k], d, bt[k], bt)
    BY DEF Items
  <2>1. ItemOf(h[k], d[at[k]]) /\ ChildIs(h[k], d, at[k], at)
    BY <1>3 DEF Items
  <2>2. ItemOf(g[k], d[at[k]])
    BY <2>1 DEF ItemOf
  <2>3. h[k].child # NoNode => h[k].child \in 1 .. N
    BY <1>1 DEF NoNode
  <2>4. ChildIs(g[k], d, at[k], bt)
    BY <1>7, <2>1, <2>3 DEF ChildIs
  <2> QED
    BY <1>7, <2>2, <2>4
<1>11. Labelled(g, d, bt, {k \in 1 .. N + 1 : w # "name" \/ k # N + 1})
  <2>1. w # "name" => NameIs(g[N + 1], d, bt[N + 1])
    <3>1. w # "name" => bt[N + 1] - 1 = p
      BY <1>5, <1>7
    <3> QED
      BY <3>1 DEF NameIs
  <2>2. \A k \in 1 .. N : k # Root => NameIs(g[k], d, bt[k])
    BY <1>3, <1>7 DEF Labelled, NameIs
  <2> QED
    BY <1>8, <2>1, <2>2 DEF Labelled
<1>12. Linked(g, d, f, bt, OffStack(N + 1, ts))
  <2>1. OffStack(N + 1, ts) \subseteq OffStack(N, st) \cup {st[M]}
    <3> SUFFICES ASSUME NEW k \in OffStack(N + 1, ts), k # st[M] PROVE k \in OffStack(N, st)
      OBVIOUS
    <3>1. k \in 1 .. N + 1 /\ \A a \in 1 .. M : ts[a] # k
      BY DEF OffStack
    <3>2. k \in 1 .. N
      BY <1>2, <1>8, <3>1
    <3>3. \A a \in 1 .. M : a = M \/ a \in 1 .. M - 1
      BY <1>1
    <3>4. \A a \in 1 .. M : st[a] # k
      BY <1>2, <3>1, <3>3
    <3> QED
      BY <1>1, <3>2, <3>4 DEF OffStack
  <2>2. Linked(g, d, f, bt, OffStack(N, st))
    <3>1. Kept(h, at, g, bt, OffStack(N, st), N)
      BY <1>1, <1>2, <1>7 DEF Kept
    <3> QED
      BY <1>1, <1>3, <3>1, LinksKept
  <2>3. NextIs(g[st[M]], d, f, bt[st[M]], bt)
    <3>1. d[at[st[M]] - 1].kind = ":" <=> h[st[M - 1]].type = "Object"
      <4>1. M \in 2 .. M /\ "return" # "name"
        BY <1>1
      <4> QED
        BY <1>1, <1>3, <4>1 DEF UnderWay
    <3>2. (p - 1) + 1 = p /\ (p - 1) + 4 = p + 3 /\ (p - 1) + 2 = p + 1
      OBVIOUS
    <3>3. P = Behind(d, at[st[M]], p - 1)
      BY <1>5, <3>1, <3>2 DEF Behind
    <3>4. g[st[M]].next # NoNode /\ bt[g[st[M]].next] = P /\ bt[st[M]] = at[st[M]]
      <4>1. N + 1 # NoNode
        BY <1>1 DEF NoNode
      <4> QED
        BY <1>2, <1>7, <4>1
    <3>5. Comma(d[(p - 1) + 1])
      BY <3>2
    <3> QED
      BY <1>3, <3>3, <3>4, <3>5 DEF NextIs
  <2> QED
    BY <2>1, <2>2, <2>3 DEF Linked
<1>13. UnderWay(g, d, f, bt, p + 1, ts, w)
  <2>0. 1 \in 1 .. M - 1 /\ ts[1] = Root
    <3>1. 1 \in 1 .. M - 1
      BY <1>1
    <3> QED
      BY <1>3, <3>1 DEF UnderWay
  <2>1. ASSUME NEW a \in 1 .. M - 1
        PROVE  /\ f[bt[ts[a]] - 1] = a - 1
               /\ \A r \in bt[ts[a]] .. (p + 1) - 1 : f[r] > a - 1
    <3>1. st[a] \in 1 .. N /\ bt[ts[a]] = at[st[a]]
      BY <1>2, <1>7
    <3>2. f[at[st[a]] - 1] = a - 1 /\ \A r \in at[st[a]] .. p - 1 : f[r] > a - 1
      BY <1>1, <1>3 DEF UnderWay
    <3>3. at[st[a]] \in Nat
      BY <1>4, <3>1
    <3>4. \A r \in at[st[a]] .. (p + 1) - 1 : r \in at[st[a]] .. p - 1 \/ r = p
      BY <3>3
    <3>5. f[p] > a - 1
      BY <1>1
    <3> QED
      BY <3>1, <3>2, <3>4, <3>5
  <2>2. ASSUME NEW a \in 2 .. M, a # M \/ w # "name"
        PROVE  d[bt[ts[a]] - 1].kind = ":" <=> g[ts[a - 1]].type = "Object"
    <3>0. a - 1 \in 1 .. M - 1
      BY <1>1
    <3>1. ts[a - 1] = st[a - 1] /\ g[st[a - 1]] = h[st[a - 1]]
      BY <1>2, <3>0
    <3>2. CASE a = M
      <4>1. bt[ts[a]] - 1 = p
        BY <1>5, <1>7, <2>2, <3>2
      <4>2. h[st[M - 1]].type = "Array"
        BY <2>2, <3>2
      <4> QED
        BY <3>1, <3>2, <4>1, <4>2
    <3>3. CASE a # M
      <4>1. a \in 1 .. M - 1
        BY <1>1, <3>3
      <4>2. ts[a] = st[a] /\ bt[st[a]] = at[st[a]]
        BY <1>2, <1>7, <4>1
      <4> QED
        BY <1>1, <1>3, <3>1, <3>3, <4>2 DEF UnderWay
    <3> QED
      BY <3>2, <3>3
  <2> QED
    BY <2>0, <2>1, <2>2 DEF UnderWay
<1>14. AtTop(g, f, bt, p + 1, ts, w)
  <2>1. w = "name" => (p + 1) + 2 = P /\ g[ts[M - 1]].type = "Object"
    <3>1. M - 1 \in 1 .. M - 1
      BY <1>1
    <3> QED
      BY <1>2, <1>5, <3>1
  <2>2. w # "return"
    OBVIOUS
  <2> QED
    BY <1>5, <1>7, <2>1, <2>2 DEF AtTop
<1>15. \A k \in 1 .. N : bt[k] < p + 1
  BY <1>3, <1>4, <1>7
<1>16. Len(g) = N + 1 /\ Len(ts) = M /\ ts[M] = N + 1
  OBVIOUS
<1> HIDE <1>0
<1> QED
  BY <1>7, <1>9, <1>10, <1>11, <1>12, <1>13, <1>14, <1>15, <1>16 DEF TreeOf

(* The bracket that closes the value around it.                            *)
LEMMA TreeClosed ==
    ASSUME NEW h, NEW d, NEW f, NEW at, NEW p \in Nat, NEW st, NEW N, NEW M,
           Frame(h, st, N, M), TreeOf(h, d, f, at, p, st, "return"), M > 1, ~ Comma(d[p]),
           NEW ts, Len(ts) = M - 1, \A a \in 1 .. M - 1 : ts[a] = st[a],
           f[p] = M - 2
    PROVE  TreeOf(h, d, f, at, p + 1, ts, "return")
<1>1. /\ N \in Nat /\ M \in Nat /\ N = Len(h) /\ M = Len(st) /\ M # 0
      /\ h[st[M]].next = NoNode
  BY DEF Frame
<1>2. /\ st[M] \in 1 .. N /\ M \in 1 .. M /\ N # 0
      /\ \A a \in 1 .. M - 1 : a \in 1 .. M /\ a # M /\ st[a] \in 1 .. N /\ st[a] # st[M]
      /\ OffStack(N, st) \subseteq (1 .. N) \ {st[M]}
  BY FrameIs
<1>3. /\ Ordered(at, N) /\ (\A k \in 1 .. N : at[k] < p) /\ Items(h, d, at, 1 .. N)
      /\ Labelled(h, d, at, 1 .. N) /\ Linked(h, d, f, at, OffStack(N, st))
      /\ UnderWay(h, d, f, at, p, st, "return") /\ Ends(f, at[st[M]], p - 1)
  BY TreeReturned
<1>4. \A k \in 1 .. N : at[k] \in Nat /\ at[k] < p + 1
  BY <1>3 DEF Ordered
<1>5. Parsed(h, ts, "return") = 1 .. N
  BY <1>1 DEF Parsed
<1>6. Labelled(h, d, at, {k \in 1 .. N : "return" # "name" \/ k # ts[Len(ts)]})
  BY <1>3 DEF Labelled
<1>7. Linked(h, d, f, at, OffStack(N, ts))
  <2>1. OffStack(N, ts) \subseteq OffStack(N, st) \cup {st[M]}
    <3>1. \A a \in 1 .. M : a = M \/ a \in 1 .. M - 1
      BY <1>1
    <3> QED
      BY <1>1, <3>1 DEF OffStack
  <2>2. NextIs(h[st[M]], d, f, at[st[M]], at)
    <3>1. (p - 1) + 1 = p
      OBVIOUS
    <3>2. ~ Comma(d[(p - 1) + 1])
      BY <3>1
    <3> QED
      BY <1>1, <1>3, <3>2 DEF NextIs
  <2> QED
    BY <1>3, <2>1, <2>2 DEF Linked
<1>8. /\ M - 1 \in 1 .. M - 1 /\ 1 \in 1 .. M - 1 /\ Len(ts) = M - 1
      /\ \A a \in 1 .. (M - 1) - 1 : a \in 1 .. M - 1
      /\ \A a \in 2 .. M - 1 : /\ a \in 1 .. M - 1 /\ a - 1 \in 1 .. M - 1
                               /\ a \in 2 .. M /\ a # M
  BY <1>1
<1>9. \A a \in 1 .. M - 1 : /\ f[at[st[a]] - 1] = a - 1
                            /\ \A r \in at[st[a]] .. p - 1 : f[r] > a - 1
  BY <1>1, <1>3 DEF UnderWay
<1>10. UnderWay(h, d, f, at, p + 1, ts, "return")
  <2>1. ASSUME NEW a \in 1 .. (M - 1) - 1
        PROVE  /\ f[at[ts[a]] - 1] = a - 1
               /\ \A r \in at[ts[a]] .. (p + 1) - 1 : f[r] > a - 1
    <3>1. a \in 1 .. M - 1 /\ ts[a] = st[a] /\ at[st[a]] \in Nat
      BY <1>2, <1>4, <1>8
    <3>2. \A r \in at[st[a]] .. (p + 1) - 1 : r \in at[st[a]] .. p - 1 \/ r = p
      BY <3>1
    <3>3. f[p] > a - 1
      BY <1>1
    <3> QED
      BY <1>9, <3>1, <3>2, <3>3
  <2>2. ASSUME NEW a \in 2 .. M - 1
        PROVE  d[at[ts[a]] - 1].kind = ":" <=> h[ts[a - 1]].type = "Object"
    <3>1. ts[a] = st[a] /\ ts[a - 1] = st[a - 1] /\ a \in 2 .. M /\ a # M
      BY <1>8
    <3> QED
      BY <1>1, <1>3, <3>1 DEF UnderWay
  <2>3. ts[1] = Root
    BY <1>3, <1>8 DEF UnderWay
  <2> QED
    BY <1>8, <2>1, <2>2, <2>3 DEF UnderWay
<1>11. Ends(f, at[ts[M - 1]], (p + 1) - 1)
  <2>1. PICK b \in Nat : b = at[ts[M - 1]] /\ b = at[st[M - 1]] /\ b < p
    BY <1>2, <1>3, <1>4, <1>8
  <2>2. f[b - 1] = (M - 1) - 1 /\ \A r \in b .. p - 1 : f[r] > (M - 1) - 1
    BY <1>8, <1>9, <2>1
  <2>3. (p + 1) - 1 = p /\ b <= p /\ (M - 1) - 1 = M - 2
    BY <1>1, <2>1
  <2>4. Ends(f, b, p)
    BY <2>1, <2>2, <2>3 DEF Ends
  <2> QED
    BY <2>1, <2>3, <2>4
<1>12. AtTop(h, f, at, p + 1, ts, "return")
  BY <1>8, <1>11 DEF AtTop
<1> QED
  BY <1>1, <1>3, <1>4, <1>5, <1>6, <1>7, <1>10, <1>12 DEF TreeOf

(* The root is complete.                                                   *)
LEMMA TreeDone ==
    ASSUME NEW h, NEW d, NEW f, NEW at, NEW p, NEW st, NEW N, NEW M,
           Frame(h, st, N, M), TreeOf(h, d, f, at, p, st, "return"), M = 1
    PROVE  Settled(h, d, f, at)
<1>1. N = Len(h) /\ M = Len(st)
  BY DEF Frame
<1>2. /\ Ordered(at, N) /\ Items(h, d, at, 1 .. N)
      /\ Labelled(h, d, at, 1 .. N) /\ Linked(h, d, f, at, OffStack(N, st))
      /\ UnderWay(h, d, f, at, p, st, "return")
  BY TreeReturned
<1>3. \A a \in 1 .. M : st[a] = Root
  BY <1>2 DEF UnderWay
<1>4. \A k \in 1 .. N : k # Root => k \in OffStack(N, st)
  BY <1>1, <1>3 DEF OffStack
<1>5. Linked(h, d, f, at, 1 .. N)
  BY <1>2, <1>4 DEF Linked
<1> QED
  BY <1>1, <1>2, <1>5 DEF Settled

(* The root alone, in front of the text.                                   *)
LEMMA TreeStarted ==
    ASSUME NEW h, NEW d, NEW f, Len(h) = 1, h[1].valuedouble = 0,
           NEW st, Len(st) = 1, st[1] = Root
    PROVE  \E at : TreeOf(h, d, f, at, 1, st, "value")
<1>1. PICK at : at = [k \in 1 .. 1 |-> 1]
  OBVIOUS
<1>2. Ordered(at, 1) /\ at[1] = 1
  BY <1>1 DEF Ordered, Root
<1>3. Parsed(h, st, "value") = {}
  BY DEF Parsed, Root
<1>4. OffStack(1, st) = {} /\ \A k \in 1 .. 1 : k = Root
  BY DEF OffStack, Root
<1>5. UnderWay(h, d, f, at, 1, st, "value")
  <2>1. \A a \in 1 .. 1 - 1 : FALSE
    OBVIOUS
  <2>2. \A a \in 2 .. 1 : FALSE
    OBVIOUS
  <2> QED
    BY <2>1, <2>2 DEF UnderWay
<1>6. AtTop(h, f, at, 1, st, "value")
  BY <1>2 DEF AtTop, Root
<1>7. Labelled(h, d, at, {k \in 1 .. 1 : "value" # "name" \/ k # st[1]})
  BY <1>4 DEF Labelled
<1> QED
  BY <1>2, <1>3, <1>4, <1>5, <1>6, <1>7 DEF TreeOf, Items, Linked

-----------------------------------------------------------------------------
(* The tree under construction is that of the text in front of pos, and    *)
(* the finished one that of the whole text.                                *)
TreeInv ==
    \A f : Depths(doc, f) =>
        /\ pc \in {"value", "name", "return"} =>
              \E at : TreeOf(heap, doc, f, at, pos, stack, pc)
        /\ pc \in {"tree", "loop"} => \E at : Settled(heap, doc, f, at)

LEMMA FrameNow ==
    ASSUME ParserInv, pc \in {"value", "name", "return"}
    PROVE  /\ Frame(heap, stack, Len(heap), Len(stack)) /\ Top = stack[Len(stack)]
           /\ \A a \in 1 .. Len(stack) - 1 : heap[stack[a]].type \in {"Array", "Object"}
           /\ heap \in Seq(Node(doc)) /\ stack \in Seq(1 .. Len(heap))
           /\ Top \in 1 .. Len(heap) /\ heap[Top] \in Node(doc) /\ Fresh = Len(heap) + 1
<1>1. Built(heap, doc) /\ heap \in Seq(Node(doc)) /\ OnStack(heap, stack) /\ Top = stack[Len(stack)]
      /\ Top \in 1 .. Len(heap) /\ heap[Top] \in Node(doc) /\ Fresh = Len(heap) + 1
      /\ heap[Top].next = NoNode
  BY TopIs DEF ParserInv, Stands
<1>2. PICK N \in Nat, M \in Nat :
          /\ N = Len(heap) /\ M = Len(stack) /\ M # 0 /\ M \in 1 .. M
          /\ \A a \in 1 .. M : stack[a] \in 1 .. N /\ stack[a] \in Nat
          /\ \A a \in 1 .. M - 1 : a \in 1 .. M /\ a # M /\ stack[a] # stack[M]
  BY <1>1, OnStackIs
<1>3. \A k \in 1 .. N : heap[k].child \in 0 .. N /\ heap[k].next \in 0 .. N
  BY <1>1, <1>2 DEF Built, Inside
<1>4. Frame(heap, stack, N, M)
  BY <1>1, <1>2, <1>3 DEF Frame
<1> QED
  BY <1>1, <1>2, <1>4 DEF OnStack

LEMMA DepthAt ==
    ASSUME DocInv, NEW f, Depths(doc, f), NEW k \in 1 .. Len(doc)
    PROVE  k - 1 \in Nat /\ f[k - 1] \in Nat /\ f[k] \in Nat /\ f[k] = f[k - 1] + Delta(doc[k])
<1>1. PICK L \in Nat : L = Len(doc)
  BY LenProperties DEF DocInv
<1>2. k - 1 \in 0 .. L /\ k \in 0 .. L /\ k - 1 \in Nat
  BY <1>1
<1> QED
  BY <1>1, <1>2 DEF Depths

(* The value of the innermost item, from pos to the token in front of q.   *)
LEMMA TreeFills ==
    ASSUME ParserInv, pc = "value", NEW f, Depths(doc, f), f[pos - 1] = Len(stack) - 1,
           NEW at, TreeOf(heap, doc, f, at, pos, stack, "value"),
           NEW r \in Node(doc), heap' = [heap EXCEPT ![Top] = r],
           r.string = heap[Top].string, r.child = NoNode,
           ItemOf(r, doc[pos]), ~ Full(doc, pos),
           NEW q \in Nat, q > pos, Ends(f, pos, q - 1), \A k \in pos .. q - 1 : f[k] \in Int
    PROVE  TreeOf(heap', doc, f, at, q, stack, "return")
<1>1. PICK h, g, N, M, t : /\ h = heap /\ g = heap' /\ N = Len(heap) /\ M = Len(stack)
                           /\ t = stack[M] /\ t = Top
  BY FrameNow
<1>2. /\ Frame(h, stack, N, M) /\ h \in Seq(Node(doc)) /\ t \in 1 .. N
  BY <1>1, FrameNow
<1>3. Len(g) = N /\ \A k \in 1 .. N : g[k] = IF k = t THEN r ELSE h[k]
  BY <1>1, <1>2, ExceptSeq
<1>4. \A k \in 1 .. N : k # stack[M] => g[k] = h[k]
  BY <1>1, <1>3
<1>5. g[stack[M]] = r /\ h[stack[M]].string = r.string
  BY <1>1, <1>2, <1>3
<1>6. pos \in Nat
  BY DEF ParserInv, DocInv
<1>7. TreeOf(h, doc, f, at, pos, stack, "value") /\ f[pos - 1] = M - 1
  BY <1>1
<1>8. g[stack[M]].string = h[stack[M]].string /\ ItemOf(g[stack[M]], doc[pos])
      /\ g[stack[M]].child = NoNode
  BY <1>5
<1>9. TreeOf(g, doc, f, at, q, stack, "return")
  <2>1. PICK st, p : st = stack /\ p = pos
    OBVIOUS
  <2>2. p \in Nat /\ Frame(h, st, N, M) /\ TreeOf(h, doc, f, at, p, st, "value")
        /\ Len(g) = N /\ (\A k \in 1 .. N : k # st[M] => g[k] = h[k])
        /\ g[st[M]].string = h[st[M]].string /\ ItemOf(g[st[M]], doc[p])
        /\ g[st[M]].child = NoNode /\ ~ Full(doc, p) /\ q > p /\ Ends(f, p, q - 1)
        /\ f[p - 1] = M - 1 /\ (\A k \in p .. q - 1 : f[k] \in Int)
    BY <1>2, <1>3, <1>4, <1>6, <1>7, <1>8, <2>1
  <2>3. TreeOf(g, doc, f, at, q, st, "return")
    BY <2>2, TreeFilled
  <2> QED
    BY <2>1, <2>3
<1> QED
  BY <1>1, <1>9

LEMMA TypeOfScalars ==
    ASSUME NEW t
    PROVE  /\ t.kind = "null" => TypeOf(t) = "NULL"
           /\ t.kind = "false" => TypeOf(t) = "False"
           /\ t.kind = "true" => TypeOf(t) = "True"
           /\ t.kind = "num" => TypeOf(t) = "Number"
           /\ t.kind = "str" => TypeOf(t) = "String"
BY TypeOfKinds, Zenon

LEMMA TreeScalar ==
    ASSUME ParserInv, ParseScalar \/ (ParseString /\ ~ ParseFails),
           NEW f, Depths(doc, f), f[pos - 1] = Len(stack) - 1,
           NEW at, TreeOf(heap, doc, f, at, pos, stack, "value")
    PROVE  TreeOf(heap', doc, f, at, pos + 1, stack, "return")
<1>1. pc = "value"
  BY DEF ParseScalar, ParseString
<1>2. PICK n, t : n = heap[Top] /\ t = doc[pos]
  OBVIOUS
<1>3. /\ n \in Node(doc) /\ n.child = NoNode /\ n.valuestring = Null /\ n.valuedouble = 0
  <2>1. heap[Top].child = NoNode /\ heap[Top].valuestring = Null
    BY <1>1 DEF ParserInv, StackInv
  <2>2. heap[Top].valuedouble = 0
    <3>1. "value" # "return"
      OBVIOUS
    <3> QED
      BY <1>1, <3>1, FrameNow DEF TreeOf, AtTop
  <2> QED
    BY <1>1, <1>2, <2>1, <2>2, FrameNow
<1>4. pos \in 1 .. Len(doc) /\ DocInv
  BY DEF ParserInv, DocInv
<1>5. t.text \in Strs(doc) /\ t.num \in Nat
  BY <1>2, <1>4, TextIn
<1>6. PICK r \in Node(doc) : /\ heap' = [heap EXCEPT ![Top] = r]
                             /\ r.string = n.string /\ r.child = NoNode
                             /\ ItemOf(r, t) /\ TypeOf(t) \notin {"Array", "Object"}
                             /\ Delta(t) = 0
  <2>1. CASE ParseScalar /\ t.kind # "num"
    <3>1. PICK r : r = CASE t.kind = "null"  -> [n EXCEPT !.type = "NULL"]
                         [] t.kind = "false" -> [n EXCEPT !.type = "False"]
                         [] t.kind = "true"  -> [n EXCEPT !.type = "True", !.valueint = 1]
      OBVIOUS
    <3>2. t.kind \in {"null", "false", "true"} /\ heap' = [heap EXCEPT ![Top] = r]
      BY <1>2, <2>1, <3>1 DEF ParseScalar, Tok
    <3>3. Delta(t) = 0
      BY <3>2, Zenon DEF Delta
    <3>4. TypeOf(t) = CASE t.kind = "null" -> "NULL" [] t.kind = "false" -> "False"
                        [] t.kind = "true" -> "True"
      BY <3>2, TypeOfScalars
    <3>5. CASE t.kind = "null"
      <4>1. r = [n EXCEPT !.type = "NULL"] /\ TypeOf(t) = "NULL"
        BY <3>1, <3>4, <3>5
      <4>2. r \in Node(doc)
        BY <1>3, <4>1 DEF Node, Types
      <4>3. ItemOf(r, t) /\ r.string = n.string /\ r.child = NoNode
        BY <1>3, <3>5, <4>1 DEF Node, ItemOf
      <4> QED
        BY <3>2, <3>3, <4>1, <4>2, <4>3
    <3>6. CASE t.kind = "false"
      <4>1. r = [n EXCEPT !.type = "False"] /\ TypeOf(t) = "False"
        BY <3>1, <3>4, <3>6
      <4>2. r \in Node(doc)
        BY <1>3, <4>1 DEF Node, Types
      <4>3. ItemOf(r, t) /\ r.string = n.string /\ r.child = NoNode
        BY <1>3, <3>6, <4>1 DEF Node, ItemOf
      <4> QED
        BY <3>2, <3>3, <4>1, <4>2, <4>3
    <3>7. CASE t.kind = "true"
      <4>1. r = [n EXCEPT !.type = "True", !.valueint = 1] /\ TypeOf(t) = "True"
        BY <3>1, <3>4, <3>7
      <4>2. r \in Node(doc)
        <5>1. "True" \in Types /\ 1 \in Int
          BY DEF Types
        <5> QED
          BY <1>3, <4>1, <5>1 DEF Node
      <4>3. ItemOf(r, t) /\ r.string = n.string /\ r.child = NoNode
        BY <1>3, <3>7, <4>1 DEF Node, ItemOf
      <4> QED
        BY <3>2, <3>3, <4>1, <4>2, <4>3
    <3> QED
      BY <3>2, <3>5, <3>6, <3>7
  <2>2. CASE ParseScalar /\ t.kind = "num"
    <3>1. PICK r : r = [n EXCEPT !.type = "Number", !.valueint = ToInt(t.num),
                                 !.valuedouble = t.num]
      OBVIOUS
    <3>2. heap' = [heap EXCEPT ![Top] = r]
      BY <1>2, <2>2, <3>1 DEF ParseScalar, Tok
    <3>3. Delta(t) = 0
      BY <2>2, Zenon DEF Delta
    <3>4. TypeOf(t) = "Number"
      BY <2>2, TypeOfScalars
    <3>5. ToInt(t.num) \in Int
      BY <1>5, CJsonAssumption DEF ToInt
    <3>6. r \in Node(doc)
      <4>1. "Number" \in Types /\ t.num \in Int
        BY <1>5 DEF Types
      <4> QED
        BY <1>3, <3>1, <3>5, <4>1 DEF Node
    <3>7. ItemOf(r, t) /\ r.string = n.string /\ r.child = NoNode
      BY <1>3, <2>2, <3>1, <3>4 DEF Node, ItemOf
    <3> QED
      BY <3>2, <3>3, <3>4, <3>6, <3>7
  <2>3. CASE ParseString /\ ~ ParseFails
    <3>1. PICK r : r = [n EXCEPT !.type = "String", !.valuestring = t.text]
      OBVIOUS
    <3>2. heap' = [heap EXCEPT ![Top] = r] /\ t.kind = "str"
      BY <1>2, <2>3, <3>1 DEF ParseString, Tok
    <3>3. Delta(t) = 0
      BY <3>2, Zenon DEF Delta
    <3>4. TypeOf(t) = "String"
      BY <3>2, TypeOfScalars
    <3>5. r \in Node(doc)
      BY <1>3, <1>5, <3>1 DEF Node, Types
    <3>6. ItemOf(r, t) /\ r.string = n.string /\ r.child = NoNode
      BY <1>3, <3>1, <3>2, <3>4 DEF Node, ItemOf
    <3> QED
      BY <3>2, <3>3, <3>4, <3>5, <3>6
  <2> QED
    BY <2>1, <2>2, <2>3
<1>7. ~ Full(doc, pos)
  BY <1>2, <1>6 DEF Full
<1>8. f[pos - 1] \in Nat /\ f[pos] = f[pos - 1]
  BY <1>2, <1>4, <1>6, DepthAt
<1>9. pos \in Nat /\ pos + 1 \in Nat /\ pos + 1 > pos /\ (pos + 1) - 1 = pos
      /\ \A k \in pos .. pos : k = pos
  BY <1>4
<1>10. Ends(f, pos, (pos + 1) - 1)
  <2>1. \A k \in pos .. pos - 1 : FALSE
    BY <1>4
  <2> QED
    BY <1>8, <1>9, <2>1 DEF Ends
<1>11. \A k \in pos .. (pos + 1) - 1 : f[k] \in Int
  BY <1>8, <1>9
<1> QED
  BY <1>1, <1>2, <1>6, <1>7, <1>9, <1>10, <1>11, TreeFills

LEMMA ClosersDelta ==
    ASSUME NEW t, NEW shape \in {"Array", "Object"}, t.kind = Closer[shape]
    PROVE  Delta(t) = -1 /\ t.kind # "end"
<1>1. t.kind = "]" \/ t.kind = "}"
  BY ClosersAre, Zenon
<1>2. t.kind \notin {"[", "{"} /\ t.kind \in {"]", "}"} /\ t.kind # "end"
  BY <1>1, Zenon
<1> QED
  BY <1>2, Zenon DEF Delta

(* What an opening bracket does, the braces out of sight.                  *)
EmptyValue(shape) ==
    /\ doc[pos + 1].kind = Closer[shape]
    /\ heap' = [heap EXCEPT ![Top] = [@ EXCEPT !.type = shape]]
    /\ pos' = pos + 2 /\ pc' = "return" /\ doc' = doc /\ stack' = stack

FirstChild(shape) ==
    /\ doc[pos + 1].kind # Closer[shape]
    /\ heap' = Append([heap EXCEPT ![Top] = [@ EXCEPT !.type = shape, !.child = Fresh]], New_Item)
    /\ stack' = Append(stack, Fresh)
    /\ pos' = pos + 1 /\ doc' = doc
    /\ pc' = IF shape = "Array" THEN "value" ELSE "name"

OpensWith(t, shape) ==
    TypeOf(t) = shape /\ Delta(t) = 1 /\ t.kind \notin {":", "end", "str", "num"}

LEMMA OpenIs ==
    ASSUME OpenArray \/ OpenObject, ~ ParseFails
    PROVE  \E shape \in {"Array", "Object"} :
               /\ pc = "value" /\ OpensWith(doc[pos], shape)
               /\ EmptyValue(shape) \/ FirstChild(shape)
<1>1. CASE OpenArray
  <2>1. pc = "value" /\ doc[pos].kind = "["
    BY <1>1 DEF OpenArray, Open, Tok
  <2>2. doc[pos].kind \in {"[", "{"} /\ doc[pos].kind \notin {":", "end", "str", "num"}
    BY <2>1, Zenon
  <2>3. OpensWith(doc[pos], "Array")
    BY <2>1, <2>2, TypeOfKinds, Zenon DEF OpensWith, Delta
  <2>4. EmptyValue("Array") \/ FirstChild("Array")
    BY <1>1 DEF OpenArray, Open, EmptyValue, FirstChild
  <2> QED
    BY <2>1, <2>3, <2>4
<1>2. CASE OpenObject
  <2>1. pc = "value" /\ doc[pos].kind = "{"
    BY <1>2, Zenon DEF OpenObject, Open, Tok
  <2>2. doc[pos].kind \in {"[", "{"} /\ doc[pos].kind \notin {":", "end", "str", "num"}
    BY <2>1, Zenon
  <2>3. OpensWith(doc[pos], "Object")
    BY <2>1, <2>2, TypeOfKinds, Zenon DEF OpensWith, Delta
  <2>4. EmptyValue("Object") \/ FirstChild("Object")
    <3>1. PICK brace : Open(brace, "Object", "name")
      BY <1>2, Zenon DEF OpenObject
    <3> QED
      BY <3>1 DEF Open, EmptyValue, FirstChild
  <2>5. pc = "value" /\ "Object" \in {"Array", "Object"}
    BY <2>1, Zenon
  <2> QED
    BY <2>3, <2>4, <2>5, Zenon
<1> QED
  BY <1>1, <1>2

LEMMA TreeEmptyValue ==
    ASSUME ParserInv, pc = "value", NEW shape \in {"Array", "Object"},
           OpensWith(doc[pos], shape), EmptyValue(shape),
           NEW f, Depths(doc, f), f[pos - 1] = Len(stack) - 1,
           NEW at, TreeOf(heap, doc, f, at, pos, stack, "value")
    PROVE  TreeOf(heap', doc, f, at, pos + 2, stack, "return")
<1>1. PICK n, t : n = heap[Top] /\ t = doc[pos]
  OBVIOUS
<1>2. /\ n \in Node(doc) /\ n.child = NoNode /\ n.valuestring = Null /\ n.valuedouble = 0
  <2>1. heap[Top].child = NoNode /\ heap[Top].valuestring = Null
    BY DEF ParserInv, StackInv
  <2>2. heap[Top].valuedouble = 0
    <3>1. "value" # "return"
      OBVIOUS
    <3> QED
      BY <3>1, FrameNow DEF TreeOf, AtTop
  <2> QED
    BY <1>1, <2>1, <2>2, FrameNow
<1>3. pos \in 1 .. Len(doc) /\ DocInv /\ pos \in Nat
  BY DEF ParserInv, DocInv
<1>4. PICK r : r = [n EXCEPT !.type = shape]
  OBVIOUS
<1>5. heap' = [heap EXCEPT ![Top] = r]
  BY <1>1, <1>4 DEF EmptyValue
<1>6. r \in Node(doc) /\ r.string = n.string /\ r.child = NoNode /\ r.type = shape
      /\ r.valuestring = Null /\ r.valuedouble = 0
  BY <1>2, <1>4 DEF Node, Types
<1>7. ItemOf(r, t)
  BY <1>1, <1>6 DEF OpensWith, ItemOf
<1>8. ~ Full(doc, pos)
  BY DEF Full, OpensWith, EmptyValue
<1>9. pos + 1 \in 1 .. Len(doc)
  BY <1>3, NextToken DEF OpensWith
<1>10. Delta(doc[pos + 1]) = -1
  BY ClosersDelta DEF EmptyValue
<1>11. (pos + 1) - 1 = pos /\ (pos + 2) - 1 = pos + 1 /\ pos + 2 \in Nat /\ pos + 2 > pos
       /\ \A k \in pos .. (pos + 1) - 1 : k = pos
  BY <1>3
<1>12. f[pos - 1] \in Nat /\ f[pos] = f[pos - 1] + 1 /\ f[pos + 1] = f[pos] + (-1)
  <2>1. f[pos - 1] \in Nat /\ f[pos] = f[pos - 1] + 1
    BY <1>3, DepthAt DEF OpensWith
  <2>2. f[pos + 1] = f[(pos + 1) - 1] + Delta(doc[pos + 1])
    BY <1>3, <1>9, DepthAt
  <2> QED
    BY <1>10, <1>11, <2>1, <2>2
<1>13. Ends(f, pos, pos + 1)
  BY <1>3, <1>11, <1>12 DEF Ends
<1>14. \A k \in pos .. pos + 1 : f[k] \in Int
  <2>1. \A k \in pos .. pos + 1 : k = pos \/ k = pos + 1
    BY <1>3
  <2> QED
    BY <1>12, <2>1
<1>15. Ends(f, pos, (pos + 2) - 1) /\ \A k \in pos .. (pos + 2) - 1 : f[k] \in Int
  BY <1>11, <1>13, <1>14
<1>16. ItemOf(r, doc[pos]) /\ r.string = heap[Top].string
  BY <1>1, <1>6, <1>7
<1> QED
  BY <1>5, <1>6, <1>8, <1>11, <1>15, <1>16, TreeFills

LEMMA TreeFirstChild ==
    ASSUME ParserInv, pc = "value", NEW shape \in {"Array", "Object"},
           OpensWith(doc[pos], shape), FirstChild(shape),
           NEW f, Depths(doc, f), f[pos - 1] = Len(stack) - 1,
           NEW at, TreeOf(heap, doc, f, at, pos, stack, "value")
    PROVE  \E bt : TreeOf(heap', doc, f, bt, pos + 1, stack', pc')
<1>1. PICK n, t, h, g, st, ts, N, M, w :
          /\ n = heap[Top] /\ t = Top /\ h = heap /\ g = heap' /\ st = stack /\ ts = stack'
          /\ N = Len(heap) /\ M = Len(stack) /\ w = pc'
  OBVIOUS
<1>2. /\ n \in Node(doc) /\ n.child = NoNode /\ n.valuestring = Null /\ n.valuedouble = 0
  <2>1. heap[Top].child = NoNode /\ heap[Top].valuestring = Null
    BY DEF ParserInv, StackInv
  <2>2. heap[Top].valuedouble = 0
    <3>1. "value" # "return"
      OBVIOUS
    <3> QED
      BY <3>1, FrameNow DEF TreeOf, AtTop
  <2> QED
    BY <1>1, <2>1, <2>2, FrameNow
<1>3. pos \in 1 .. Len(doc) /\ DocInv /\ pos \in Nat
  BY DEF ParserInv, DocInv
<1>4. /\ Frame(h, st, N, M) /\ h \in Seq(Node(doc)) /\ st \in Seq(1 .. N) /\ t \in 1 .. N
      /\ t = st[M] /\ N \in Nat /\ Fresh = N + 1 /\ M \in Nat
  BY <1>1, FrameNow DEF Frame
<1>5. PICK r, s : r = [n EXCEPT !.type = shape, !.child = N + 1] /\ s = New_Item
  OBVIOUS
<1>6. g = Append([h EXCEPT ![t] = r], s) /\ ts = Append(st, N + 1)
      /\ w = IF shape = "Array" THEN "value" ELSE "name"
  BY <1>1, <1>4, <1>5 DEF FirstChild
<1>7. /\ r \in Node(doc) /\ r.string = n.string /\ r.child = N + 1 /\ r.type = shape
      /\ r.valuestring = Null /\ r.valuedouble = 0
  <2>1. shape \in Types /\ N + 1 \in Nat
    BY <1>4 DEF Types
  <2> QED
    BY <1>2, <1>5, <2>1 DEF Node
<1>8. s \in Node(doc) /\ s.valuedouble = 0
  <2>1. s \in Node(doc)
    BY <1>5, NewItem
  <2> QED
    BY <1>5, <2>1 DEF New_Item
<1>9. /\ Len(g) = N + 1 /\ g[N + 1] = s
      /\ \A k \in 1 .. N : g[k] = IF k = t THEN r ELSE h[k]
  <2>1. PICK m : m = [h EXCEPT ![t] = r]
    OBVIOUS
  <2>2. m \in Seq(Node(doc)) /\ Len(m) = N /\ \A k \in 1 .. N : m[k] = IF k = t THEN r ELSE h[k]
    BY <1>1, <1>4, <1>7, <2>1, ExceptSeq
  <2>3. Len(g) = N + 1 /\ g[N + 1] = s /\ \A k \in 1 .. N : g[k] = m[k]
    BY <1>6, <1>8, <2>1, <2>2, AppendProperties
  <2> QED
    BY <2>2, <2>3
<1>10. Len(ts) = M + 1 /\ ts[M + 1] = N + 1 /\ \A a \in 1 .. M : ts[a] = st[a]
  <2>1. N + 1 \in Nat /\ 1 .. N \subseteq Nat
    BY <1>4
  <2>2. st \in Seq(Nat)
    BY <1>4, <2>1, SeqMonotonic
  <2> QED
    BY <1>1, <1>6, <2>1, <2>2, AppendProperties
<1>11. ItemOf(r, doc[pos]) /\ TypeOf(doc[pos]) = shape /\ doc[pos].kind # ":"
  BY <1>7 DEF OpensWith, ItemOf
<1>12. Full(doc, pos)
  BY DEF Full, OpensWith, FirstChild
<1>13. f[pos - 1] = M - 1 /\ f[pos] = M
  <2>1. f[pos - 1] \in Nat /\ f[pos] = f[pos - 1] + 1
    BY <1>3, DepthAt DEF OpensWith
  <2> QED
    BY <1>1, <1>4, <2>1
<1>14. TreeOf(h, doc, f, at, pos, st, "value")
  BY <1>1
<1>15. /\ \A k \in 1 .. N : k # st[M] => g[k] = h[k]
       /\ g[st[M]].string = h[st[M]].string /\ g[N + 1].valuedouble = 0
       /\ ItemOf(g[st[M]], doc[pos]) /\ g[st[M]].child = N + 1
       /\ w = IF TypeOf(doc[pos]) = "Array" THEN "value" ELSE "name"
  BY <1>1, <1>4, <1>6, <1>7, <1>8, <1>9, <1>11
<1>16. HungBelow(h, doc, pos, st, g, ts, w, N, M)
  BY <1>9, <1>10, <1>11, <1>12, <1>15 DEF HungBelow
<1>17. \E bt : TreeOf(g, doc, f, bt, pos + 1, ts, w)
  BY <1>3, <1>4, <1>13, <1>14, <1>16, TreeOpened
<1> QED
  BY <1>1, <1>17

LEMMA TreeNames ==
    ASSUME ParserInv, ParseName, ~ ParseFails,
           NEW f, Depths(doc, f), f[pos - 1] = Len(stack) - 1,
           NEW at, TreeOf(heap, doc, f, at, pos, stack, "name")
    PROVE  TreeOf(heap', doc, f, at, pos + 2, stack, "value")
<1>0. pc = "name" /\ doc[pos].kind = "str" /\ doc[pos + 1].kind = ":"
      /\ heap' = [heap EXCEPT ![Top] = [@ EXCEPT !.string = doc[pos].text]]
  BY DEF ParseName, Tok
<1>1. PICK n, t, h, g, st, N, M :
          /\ n = heap[Top] /\ t = Top /\ h = heap /\ g = heap' /\ st = stack
          /\ N = Len(heap) /\ M = Len(stack)
  OBVIOUS
<1>2. pos \in 1 .. Len(doc) /\ DocInv /\ pos \in Nat
  BY DEF ParserInv, DocInv
<1>3. /\ Frame(h, st, N, M) /\ h \in Seq(Node(doc)) /\ t \in 1 .. N /\ n = h[t]
      /\ n \in Node(doc) /\ t = st[M] /\ M \in Nat
  BY <1>0, <1>1, FrameNow DEF Frame
<1>4. PICK r : r = [n EXCEPT !.string = doc[pos].text]
  OBVIOUS
<1>5. g = [h EXCEPT ![t] = r]
  BY <1>0, <1>1, <1>4
<1>6. r \in Node(doc) /\ r.string = doc[pos].text /\ r.valuedouble = n.valuedouble
  <2>1. doc[pos].text \in Strs(doc)
    BY <1>2, TextIn
  <2> QED
    BY <1>3, <1>4, <2>1 DEF Node
<1>7. Len(g) = N /\ \A k \in 1 .. N : g[k] = IF k = t THEN r ELSE h[k]
  BY <1>1, <1>3, <1>5, <1>6, ExceptSeq
<1>8. Filling(h, g, N, st[M])
  BY <1>3, <1>7 DEF Filling
<1>9. g[st[M]].string = doc[pos].text /\ g[st[M]].valuedouble = h[st[M]].valuedouble
  BY <1>3, <1>6, <1>7
<1>10. pos + 1 \in 1 .. Len(doc) /\ (pos + 1) - 1 = pos
  BY <1>0, <1>2, NextToken
<1>11. Delta(doc[pos]) = 0 /\ Delta(doc[pos + 1]) = 0
  BY <1>0, Zenon DEF Delta
<1>12. f[pos] = M - 1 /\ f[pos + 1] = M - 1
  <2>1. f[pos - 1] \in Nat /\ f[pos] = f[pos - 1] + 0
    BY <1>2, <1>11, DepthAt
  <2>2. f[pos + 1] = f[(pos + 1) - 1] + Delta(doc[pos + 1])
    BY <1>2, <1>10, DepthAt
  <2> QED
    BY <1>1, <1>3, <1>10, <1>11, <2>1, <2>2
<1>13. TreeOf(h, doc, f, at, pos, st, "name")
  BY <1>1
<1>14. TreeOf(g, doc, f, at, pos + 2, st, "value")
  BY <1>0, <1>2, <1>3, <1>8, <1>9, <1>12, <1>13, TreeNamed
<1> QED
  BY <1>1, <1>14

LEMMA TreeNextItem ==
    ASSUME ParserInv, NextItem, ~ ParseFails,
           NEW f, Depths(doc, f), f[pos - 1] = Len(stack) - 1,
           NEW at, TreeOf(heap, doc, f, at, pos, stack, "return")
    PROVE  \E bt : TreeOf(heap', doc, f, bt, pos + 1, stack', pc')
<1>0. /\ pc = "return" /\ Len(stack) > 1
      /\ heap' = Append([heap EXCEPT ![Top] = [@ EXCEPT !.next = Fresh]],
                        [New_Item EXCEPT !.prev = Top])
      /\ stack' = [stack EXCEPT ![Len(stack)] = Fresh]
      /\ pc' = IF heap[Parent].type = "Array" THEN "value" ELSE "name"
  BY Zenon DEF NextItem
<1>1. Comma(doc[pos]) /\ Delta(doc[pos]) = 0
  <2>1. doc[pos].kind = ","
    BY Zenon DEF NextItem, Tok
  <2> QED
    BY <2>1, Zenon DEF Comma, Delta
<1>2. PICK n, t, h, g, st, ts, N, M, w :
          /\ n = heap[Top] /\ t = Top /\ h = heap /\ g = heap' /\ st = stack /\ ts = stack'
          /\ N = Len(heap) /\ M = Len(stack) /\ w = pc'
  OBVIOUS
<1>3. pos \in 1 .. Len(doc) /\ DocInv /\ pos \in Nat
  BY DEF ParserInv, DocInv
<1>4. /\ Frame(h, st, N, M) /\ h \in Seq(Node(doc)) /\ st \in Seq(1 .. N) /\ t \in 1 .. N
      /\ t = st[M] /\ N \in Nat /\ Fresh = N + 1 /\ M \in Nat /\ n = h[t] /\ n \in Node(doc)
      /\ \A a \in 1 .. M - 1 : h[st[a]].type \in {"Array", "Object"}
  BY <1>0, <1>2, FrameNow DEF Frame
<1>5. PICK r, s : r = [n EXCEPT !.next = N + 1] /\ s = [New_Item EXCEPT !.prev = t]
  OBVIOUS
<1>6. g = Append([h EXCEPT ![t] = r], s) /\ ts = [st EXCEPT ![M] = N + 1]
  BY <1>0, <1>2, <1>4, <1>5
<1>7. /\ r \in Node(doc) /\ r.next = N + 1 /\ r.type = n.type /\ r.valuestring = n.valuestring
      /\ r.valuedouble = n.valuedouble /\ r.valueint = n.valueint /\ r.child = n.child
      /\ r.string = n.string
  <2>1. N + 1 \in Nat
    BY <1>4
  <2> QED
    BY <1>4, <1>5, <2>1 DEF Node
<1>8. s \in Node(doc) /\ s.valuedouble = 0
  <2>1. PICK m : m = New_Item /\ m \in Node(doc) /\ m.valuedouble = 0
    BY NewItem DEF New_Item
  <2>2. t \in Nat /\ s = [m EXCEPT !.prev = t]
    BY <1>4, <1>5, <2>1
  <2> QED
    BY <2>1, <2>2 DEF Node
<1>9. /\ Len(g) = N + 1 /\ g[N + 1] = s
      /\ \A k \in 1 .. N : g[k] = IF k = t THEN r ELSE h[k]
  <2>1. PICK m : m = [h EXCEPT ![t] = r]
    OBVIOUS
  <2>2. m \in Seq(Node(doc)) /\ Len(m) = N /\ \A k \in 1 .. N : m[k] = IF k = t THEN r ELSE h[k]
    BY <1>2, <1>4, <1>7, <2>1, ExceptSeq
  <2>3. Len(g) = N + 1 /\ g[N + 1] = s /\ \A k \in 1 .. N : g[k] = m[k]
    BY <1>6, <1>8, <2>1, <2>2, AppendProperties
  <2> QED
    BY <2>2, <2>3
<1>10. Len(ts) = M /\ ts[M] = N + 1 /\ \A a \in 1 .. M - 1 : ts[a] = st[a]
  <2>1. N + 1 \in Nat /\ 1 .. N \subseteq Nat /\ M \in 1 .. M
        /\ \A a \in 1 .. M - 1 : a \in 1 .. M /\ a # M
    BY <1>0, <1>2, <1>4
  <2>2. st \in Seq(Nat)
    BY <1>4, <2>1, SeqMonotonic
  <2>3. Len(st) = M
    BY <1>2
  <2>4. Len(ts) = M /\ \A a \in 1 .. M : ts[a] = IF a = M THEN N + 1 ELSE st[a]
    <3>1. PICK e : e = N + 1 /\ e \in Nat
      BY <2>1
    <3>2. /\ Len([st EXCEPT ![M] = e]) = M
          /\ \A a \in 1 .. M : [st EXCEPT ![M] = e][a] = IF a = M THEN e ELSE st[a]
      BY <2>1, <2>2, <2>3, <3>1, ExceptSeq
    <3> QED
      BY <1>6, <3>1, <3>2
  <2> QED
    BY <2>1, <2>4
<1>11. M > 1 /\ h[st[M - 1]].type \in {"Array", "Object"}
       /\ w = IF h[st[M - 1]].type = "Array" THEN "value" ELSE "name"
  <2>1. M > 1 /\ M - 1 \in 1 .. M - 1
    BY <1>0, <1>2, <1>4
  <2>2. w = IF h[st[M - 1]].type = "Array" THEN "value" ELSE "name"
    BY <1>0, <1>2 DEF Parent
  <2> QED
    BY <1>4, <2>1, <2>2
<1>12. \A k \in 1 .. N :
          /\ k # st[M] => g[k] = h[k]
          /\ g[k].type = h[k].type /\ g[k].valuestring = h[k].valuestring
          /\ g[k].valuedouble = h[k].valuedouble /\ g[k].valueint = h[k].valueint
          /\ g[k].child = h[k].child /\ g[k].string = h[k].string
  BY <1>4, <1>7, <1>9
<1>13. g[st[M]].next = N + 1 /\ g[N + 1].valuedouble = 0
  BY <1>4, <1>7, <1>8, <1>9
<1>14. HungBehind(h, st, g, ts, w, N, M)
  BY <1>9, <1>10, <1>11, <1>12, <1>13 DEF HungBehind
<1>15. f[pos] = M - 1
  <2>1. f[pos - 1] \in Nat /\ f[pos] = f[pos - 1] + 0
    BY <1>1, <1>3, DepthAt
  <2> QED
    BY <1>2, <2>1
<1>16. TreeOf(h, doc, f, at, pos, st, "return")
  BY <1>2
<1>17. \E bt : TreeOf(g, doc, f, bt, pos + 1, ts, w)
  BY <1>1, <1>3, <1>4, <1>14, <1>15, <1>16, TreeNext
<1> QED
  BY <1>2, <1>17

LEMMA TreeCloses ==
    ASSUME ParserInv, Close, ~ ParseFails,
           NEW f, Depths(doc, f), f[pos - 1] = Len(stack) - 1,
           NEW at, TreeOf(heap, doc, f, at, pos, stack, "return")
    PROVE  TreeOf(heap, doc, f, at, pos + 1, stack', "return")
<1>0. /\ pc = "return" /\ Len(stack) > 1 /\ doc[pos].kind = Closer[heap[Parent].type]
      /\ stack' = SubSeq(stack, 1, Len(stack) - 1) /\ ~ Comma(doc[pos])
  BY Zenon DEF Close, Tok, Comma
<1>1. PICK h, st, ts, N, M :
          /\ h = heap /\ st = stack /\ ts = stack' /\ N = Len(heap) /\ M = Len(stack)
  OBVIOUS
<1>2. pos \in 1 .. Len(doc) /\ DocInv /\ pos \in Nat
  BY DEF ParserInv, DocInv
<1>3. /\ Frame(h, st, N, M) /\ st \in Seq(1 .. N) /\ M \in Nat /\ M > 1
      /\ \A a \in 1 .. M - 1 : h[st[a]].type \in {"Array", "Object"}
  BY <1>0, <1>1, FrameNow DEF Frame
<1>4. Len(ts) = M - 1 /\ \A a \in 1 .. M - 1 : ts[a] = st[a]
  <2>1. \A a \in 1 .. M - 1 : st[a] \in 1 .. N
    <3>1. \A a \in 1 .. M - 1 : a \in 1 .. M
      BY <1>3
    <3> QED
      BY <1>1, <1>3, <3>1, ElementOfSeq
  <2>2. /\ Len(SubSeq(st, 1, M - 1)) = IF 1 <= M - 1 THEN (M - 1) - 1 + 1 ELSE 0
        /\ \A a \in 1 .. (M - 1) - 1 + 1 : SubSeq(st, 1, M - 1)[a] = st[1 + a - 1]
    BY <1>3, <2>1, SubSeqProperties
  <2>3. 1 <= M - 1 /\ (M - 1) - 1 + 1 = M - 1 /\ \A a \in 1 .. M - 1 : 1 + a - 1 = a
    BY <1>3
  <2>4. ts = SubSeq(st, 1, M - 1)
    BY <1>0, <1>1
  <2> QED
    BY <2>2, <2>3, <2>4
<1>5. Delta(doc[pos]) = -1
  <2>1. M - 1 \in 1 .. M - 1
    BY <1>3
  <2>2. heap[Parent].type \in {"Array", "Object"}
    BY <1>1, <1>3, <2>1 DEF Parent
  <2> QED
    BY <1>0, <2>2, ClosersDelta
<1>6. f[pos] = M - 2
  <2>1. f[pos - 1] \in Nat /\ f[pos] = f[pos - 1] + (-1)
    BY <1>2, <1>5, DepthAt
  <2> QED
    BY <1>1, <1>3, <2>1
<1>7. TreeOf(h, doc, f, at, pos + 1, ts, "return")
  <2>1. TreeOf(h, doc, f, at, pos, st, "return")
    BY <1>1
  <2>2. ~ Comma(doc[pos])
    BY <1>0
  <2>3. Frame(h, st, N, M) /\ M > 1 /\ pos \in Nat
    BY <1>2, <1>3
  <2> QED
    BY <1>4, <1>6, <2>1, <2>2, <2>3, TreeClosed
<1> QED
  BY <1>1, <1>7

(* The parser keeps the tree that of the text.                             *)
LEMMA TreeInvParse ==
    ASSUME ParserInv, DepthInv, TreeInv, ParseNext
    PROVE  TreeInv'
<1>0. doc' = doc
  BY DEF ParseNext, ParseWithOpts, ParseScalar, ParseString, OpenArray, OpenObject, Open,
         ParseBad, ParseName, NextItem, Close, ParseReturns, ReadPastEnd, ParseFails, parser
<1> SUFFICES ASSUME NEW f, Depths(doc, f)
             PROVE  /\ pc' \in {"value", "name", "return"} =>
                          \E at : TreeOf(heap', doc, f, at, pos', stack', pc')
                    /\ pc' \in {"tree", "loop"} => \E at : Settled(heap', doc, f, at)
  BY <1>0 DEF TreeInv
<1>1. /\ pc \in {"value", "name", "return"} =>
            /\ \E at : TreeOf(heap, doc, f, at, pos, stack, pc)
            /\ f[pos - 1] = Len(stack) - 1
      /\ pc = "parse" => pos = 1
  BY DEF TreeInv, DepthInv
<1>2. CASE ParseFails
  BY <1>2 DEF ParseFails
<1>3. CASE ParseWithOpts
  <2>1. CASE pc' = "no_tree"
    BY <2>1
  <2>2. CASE heap' = <<New_Item>> /\ stack' = <<Root>> /\ pc' = "value"
    <3>1. pos' = 1
      BY <1>1, <1>3 DEF ParseWithOpts
    <3>2. New_Item.valuedouble = 0
      BY DEF New_Item
    <3>3. PICK s : s = New_Item /\ s.valuedouble = 0
      BY <3>2
    <3>4. Len(heap') = 1 /\ heap'[1].valuedouble = 0
      BY <2>2, <3>3
    <3>5. Len(stack') = 1 /\ stack'[1] = Root
      BY <2>2
    <3> QED
      BY <2>2, <3>1, <3>4, <3>5, TreeStarted
  <2> QED
    BY <1>3, <2>1, <2>2 DEF ParseWithOpts
<1>4. CASE ParseScalar \/ (ParseString /\ ~ ParseFails)
  <2>1. pc = "value" /\ pos' = pos + 1 /\ stack' = stack /\ pc' = "return"
    BY <1>4 DEF ParseScalar, ParseString
  <2>2. PICK at : TreeOf(heap, doc, f, at, pos, stack, "value")
    BY <1>1, <2>1
  <2> QED
    BY <1>1, <1>4, <2>1, <2>2, TreeScalar
<1>5. CASE (OpenArray \/ OpenObject) /\ ~ ParseFails
  <2>1. PICK shape \in {"Array", "Object"} :
            /\ pc = "value" /\ OpensWith(doc[pos], shape)
            /\ EmptyValue(shape) \/ FirstChild(shape)
    BY <1>5, OpenIs
  <2>2. PICK at : TreeOf(heap, doc, f, at, pos, stack, "value")
    BY <1>1, <2>1
  <2>3. CASE EmptyValue(shape)
    <3>1. pos' = pos + 2 /\ stack' = stack /\ pc' = "return"
      BY <2>3 DEF EmptyValue
    <3>2. TreeOf(heap', doc, f, at, pos + 2, stack, "return")
      BY <1>1, <2>1, <2>2, <2>3, TreeEmptyValue
    <3> QED
      BY <3>1, <3>2
  <2>4. CASE FirstChild(shape)
    <3>1. pos' = pos + 1 /\ pc' \in {"value", "name"}
      BY <2>4 DEF FirstChild
    <3>2. \E bt : TreeOf(heap', doc, f, bt, pos + 1, stack', pc')
      BY <1>1, <2>1, <2>2, <2>4, TreeFirstChild
    <3> QED
      BY <3>1, <3>2
  <2> QED
    BY <2>1, <2>3, <2>4
<1>6. CASE ParseName /\ ~ ParseFails
  <2>1. pc = "name" /\ pos' = pos + 2 /\ stack' = stack /\ pc' = "value"
    BY <1>6 DEF ParseName
  <2>2. PICK at : TreeOf(heap, doc, f, at, pos, stack, "name")
    BY <1>1, <2>1
  <2>3. TreeOf(heap', doc, f, at, pos + 2, stack, "value")
    BY <1>1, <1>6, <2>1, <2>2, TreeNames
  <2> QED
    BY <2>1, <2>3
<1>7. CASE NextItem /\ ~ ParseFails
  <2>1. pc = "return" /\ pos' = pos + 1 /\ pc' \in {"value", "name"}
    BY <1>7, Zenon DEF NextItem
  <2>2. PICK at : TreeOf(heap, doc, f, at, pos, stack, "return")
    BY <1>1, <2>1
  <2>3. \E bt : TreeOf(heap', doc, f, bt, pos + 1, stack', pc')
    BY <1>1, <1>7, <2>1, <2>2, TreeNextItem
  <2> QED
    BY <2>1, <2>3
<1>8. CASE Close /\ ~ ParseFails
  <2>1. pc = "return" /\ pos' = pos + 1 /\ pc' = "return" /\ heap' = heap
    BY <1>8, Zenon DEF Close
  <2>2. PICK at : TreeOf(heap, doc, f, at, pos, stack, "return")
    BY <1>1, <2>1
  <2>3. TreeOf(heap, doc, f, at, pos + 1, stack', "return")
    BY <1>1, <1>8, <2>1, <2>2, TreeCloses
  <2> QED
    BY <2>1, <2>3
<1>9. CASE ParseReturns
  <2>1. pc = "return" /\ Len(stack) = 1 /\ pc' = "tree" /\ heap' = heap
    BY <1>9 DEF ParseReturns
  <2>2. PICK at : TreeOf(heap, doc, f, at, pos, stack, "return")
    BY <1>1, <2>1
  <2>3. Frame(heap, stack, Len(heap), Len(stack))
    BY <2>1, FrameNow
  <2>4. Settled(heap, doc, f, at)
    BY <2>1, <2>2, <2>3, TreeDone
  <2> QED
    BY <2>1, <2>4
<1>10. CASE ReadPastEnd
  BY <1>10 DEF ReadPastEnd
<1>11. CASE ParseBad
  <2>1. ParseFails
    BY <1>11, Zenon DEF ParseBad
  <2> QED
    BY <1>2, <2>1
<1> QED
  BY <1>2, <1>3, <1>4, <1>5, <1>6, <1>7, <1>8, <1>9, <1>10, <1>11 DEF ParseNext

LEMMA TreeInvInit == Init => TreeInv
BY DEF Init, TreeInv

LEMMA TreeInvNext ==
    ASSUME ParserInv, DepthInv, TreeInv, [Next]_vars
    PROVE  TreeInv'
<1>1. CASE ParseNext
  BY <1>1, TreeInvParse
<1>2. CASE NoTree
  BY <1>2 DEF NoTree, CheckFails, Returns, TreeInv
<1>3. CASE FindList \/ DecodeRecord \/ DecodeDomain \/ EndLoop
  <2>1. pc \in {"tree", "loop"}
    BY <1>3 DEF FindList, DecodeRecord, DecodeDomain, EndLoop, InLoop
  <2>2. pc' = "done" \/ (pc' = "loop" /\ UNCHANGED <<doc, heap>>)
    BY <1>3, <2>1 DEF FindList, DecodeRecord, DecodeDomain, EndLoop, Release, CheckFails, Crash,
                      Continue, Returns, RecordStep, InLoop
  <2> QED
    BY <2>1, <2>2 DEF TreeInv
<1>4. CASE UNCHANGED vars
  <2>1. UNCHANGED <<doc, pos, heap, stack, pc>>
    BY <1>4 DEF vars
  <2> QED
    BY <2>1 DEF TreeInv
<1> QED
  BY <1>1, <1>2, <1>3, <1>4 DEF Next, Terminated

=============================================================================
