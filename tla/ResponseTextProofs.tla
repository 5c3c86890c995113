------------------------- MODULE ResponseTextProofs --------------------------
(***************************************************************************)
(* The texts of the answers in ResponseDecode: each is one object, so that *)
(* no proper beginning of it closes all the brackets it opens.             *)
(***************************************************************************)
EXTENDS ResponseDecode, SequenceTheorems, WellFoundedInduction, TLAPS

(* Induction over the naturals is done with the least number a property    *)
(* fails for.                                                              *)
LEMMA LeastNat ==
    ASSUME NEW T, T \subseteq Nat, T # {}
    PROVE  \E a \in T : \A b \in T : a <= b
<1>1. IsWellFoundedOn(OpToRel(<, Nat), Nat)
  BY NatLessThanWellFounded
<1>2. PICK a \in T : \A b \in T : ~ (<<b, a>> \in OpToRel(<, Nat))
  BY <1>1, WFMin, Zenon
<1>3. \A b \in T : ~ (b < a)
  BY <1>2 DEF OpToRel
<1> QED
  BY <1>3

-----------------------------------------------------------------------------
(* The tokens of a text: strings are not the null pointer.                 *)
Lexemes == {t \in Tokens : t.kind = "str" => t.text \in Strings}

(* How many brackets are open behind each token.                           *)
Delta(t) == IF t.kind \in {"[", "{"} THEN 1 ELSE IF t.kind \in {"]", "}"} THEN -1 ELSE 0

LEMMA DeltaType ==
    ASSUME NEW t
    PROVE  Delta(t) \in Int
<1>1. 1 \in Int /\ -1 \in Int /\ 0 \in Int
  OBVIOUS
<1>2. Delta(t) = 1 \/ Delta(t) = -1 \/ Delta(t) = 0
  BY DEF Delta
<1> QED
  BY <1>1, <1>2

Depths(s, f) ==
    /\ f \in [0 .. Len(s) -> Nat]
    /\ f[0] = 0
    /\ \A k \in 1 .. Len(s) : f[k] = f[k - 1] + Delta(s[k])

(* A text that closes what it opens; one that does so only at its end; and *)
(* one that never does.                                                    *)
Closed(s) == s \in Seq(Lexemes) /\ \E f : Depths(s, f) /\ f[Len(s)] = 0

Nested(s) ==
    /\ s \in Seq(Lexemes) /\ Len(s) > 1
    /\ \E f : /\ Depths(s, f) /\ f[Len(s)] = 0
              /\ \A k \in 1 .. Len(s) - 1 : f[k] # 0

StaysOpen(s) ==
    s \in Seq(Lexemes) /\ \E f : Depths(s, f) /\ \A k \in 1 .. Len(s) : f[k] # 0

LEMMA NestedIsClosed ==
    ASSUME NEW s, Nested(s)
    PROVE  Closed(s)
BY DEF Nested, Closed

LEMMA ClosedEmpty == Closed(<<>>)
<1>1. PICK f : f = [k \in 0 .. 0 |-> 0]
  OBVIOUS
<1>2. Depths(<<>>, f) /\ f[0] = 0
  BY <1>1 DEF Depths
<1> QED
  BY <1>2 DEF Closed

LEMMA ClosedToken ==
    ASSUME NEW t \in Lexemes, Delta(t) = 0
    PROVE  Closed(<<t>>)
<1>1. PICK f : f = [k \in 0 .. 1 |-> 0]
  OBVIOUS
<1>2. f \in [0 .. 1 -> Nat] /\ f[0] = 0 /\ f[1] = 0
  BY <1>1
<1>3. \A k \in 1 .. 1 : k = 1
  OBVIOUS
<1>4. Depths(<<t>>, f)
  <2>1. f[1] = f[1 - 1] + Delta(t)
    BY <1>2
  <2> QED
    BY <1>2, <1>3, <2>1 DEF Depths
<1> QED
  BY <1>2, <1>4 DEF Closed

LEMMA ClosedPair ==
    ASSUME NEW s \in Lexemes, NEW t \in Lexemes, Delta(s) = 0, Delta(t) = 0
    PROVE  Closed(<<s, t>>)
<1>1. PICK f : f = [k \in 0 .. 2 |-> 0]
  OBVIOUS
<1>2. f \in [0 .. 2 -> Nat] /\ f[0] = 0 /\ f[1] = 0 /\ f[2] = 0
  BY <1>1
<1>3. \A k \in 1 .. 2 : k = 1 \/ k = 2
  OBVIOUS
<1>4. Depths(<<s, t>>, f)
  <2>1. f[1] = f[1 - 1] + Delta(s) /\ f[2] = f[2 - 1] + Delta(t)
    BY <1>2
  <2> QED
    BY <1>2, <1>3, <2>1 DEF Depths
<1> QED
  BY <1>2, <1>4 DEF Closed

LEMMA ClosedConcat ==
    ASSUME NEW s, NEW t, Closed(s), Closed(t)
    PROVE  Closed(s \o t)
<1>1. PICK f : Depths(s, f) /\ f[Len(s)] = 0
  BY DEF Closed
<1>2. PICK g : Depths(t, g) /\ g[Len(t)] = 0
  BY DEF Closed
<1>3. PICK M \in Nat, N \in Nat : M = Len(s) /\ N = Len(t)
  BY LenProperties DEF Closed
<1>4. PICK u : u = s \o t
  OBVIOUS
<1>5. /\ u \in Seq(Lexemes) /\ Len(u) = M + N
      /\ \A k \in 1 .. M + N : u[k] = IF k <= M THEN s[k] ELSE t[k - M]
  BY <1>3, <1>4, ConcatProperties DEF Closed
<1>6. /\ f \in [0 .. M -> Nat] /\ f[0] = 0 /\ f[M] = 0
      /\ \A k \in 1 .. M : f[k] = f[k - 1] + Delta(s[k])
  BY <1>1, <1>3 DEF Depths
<1>7. /\ g \in [0 .. N -> Nat] /\ g[0] = 0 /\ g[N] = 0
      /\ \A k \in 1 .. N : g[k] = g[k - 1] + Delta(t[k])
  BY <1>2, <1>3 DEF Depths
<1> DEFINE h == [k \in 0 .. M + N |-> IF k <= M THEN f[k] ELSE g[k - M]]
<1>8. h \in [0 .. M + N -> Nat]
  <2> SUFFICES ASSUME NEW k \in 0 .. M + N PROVE (IF k <= M THEN f[k] ELSE g[k - M]) \in Nat
    OBVIOUS
  <2>1. CASE k <= M
    <3>1. k \in 0 .. M
      BY <2>1
    <3> QED
      BY <1>6, <2>1, <3>1
  <2>2. CASE ~ (k <= M)
    <3>1. k - M \in 0 .. N
      BY <2>2
    <3> QED
      BY <1>7, <2>2, <3>1
  <2> QED
    BY <2>1, <2>2
<1>9. h[0] = 0
  BY <1>6
<1>10. h[M + N] = 0
  <2>1. M + N \in 0 .. M + N /\ (M + N <= M => N = 0) /\ (M + N) - M = N
    OBVIOUS
  <2> QED
    BY <1>6, <1>7, <2>1
<1>11. ASSUME NEW k \in 1 .. M + N PROVE h[k] = h[k - 1] + Delta(u[k])
  <2>1. k \in 0 .. M + N /\ k - 1 \in 0 .. M + N
    OBVIOUS
  <2>2. CASE k <= M
    <3>1. k \in 1 .. M /\ k - 1 <= M
      BY <2>2
    <3> QED
      BY <1>5, <1>6, <2>1, <2>2, <3>1
  <2>3. CASE k = M + 1
    <3>1. ~ (k <= M) /\ k - 1 = M /\ k - M = 1 /\ 1 \in 1 .. N
      BY <2>3
    <3>2. h[k] = g[1] /\ h[k - 1] = f[M] /\ u[k] = t[1]
      BY <1>5, <2>1, <3>1
    <3>3. g[1] = g[1 - 1] + Delta(t[1]) /\ 1 - 1 = 0
      BY <1>7, <3>1
    <3> QED
      BY <1>6, <1>7, <3>2, <3>3
  <2>4. CASE k > M + 1
    <3>1. ~ (k <= M) /\ ~ (k - 1 <= M) /\ k - M \in 1 .. N /\ (k - M) - 1 = (k - 1) - M
      BY <2>4
    <3>2. h[k] = g[k - M] /\ h[k - 1] = g[(k - M) - 1] /\ u[k] = t[k - M]
      BY <1>5, <2>1, <3>1
    <3> QED
      BY <1>7, <3>1, <3>2
  <2> QED
    BY <2>2, <2>3, <2>4
<1> HIDE DEF h
<1>12. Depths(u, h)
  BY <1>5, <1>8, <1>9, <1>11 DEF Depths
<1> QED
  BY <1>4, <1>5, <1>10, <1>12 DEF Closed

(* Brackets around it.                                                     *)
LEMMA Bracketed ==
    ASSUME NEW s, Closed(s), NEW o \in Lexemes, NEW c \in Lexemes, Delta(o) = 1, Delta(c) = -1
    PROVE  Nested(<<o>> \o s \o <<c>>)
<1>1. PICK f : Depths(s, f) /\ f[Len(s)] = 0
  BY DEF Closed
<1>2. PICK N \in Nat : N = Len(s)
  BY LenProperties DEF Closed
<1>3. PICK p : p = <<o>> \o s
  OBVIOUS
<1>4. /\ p \in Seq(Lexemes) /\ Len(p) = N + 1
      /\ \A k \in 1 .. N + 1 : p[k] = IF k <= 1 THEN <<o>>[k] ELSE s[k - 1]
  <2>1. <<o>> \in Seq(Lexemes) /\ Len(<<o>>) = 1
    OBVIOUS
  <2>2. s \in Seq(Lexemes)
    BY DEF Closed
  <2>3. 1 + N = N + 1
    OBVIOUS
  <2> QED
    BY <1>2, <1>3, <2>1, <2>2, <2>3, ConcatProperties
<1>5. PICK u : u = p \o <<c>>
  OBVIOUS
<1>6. /\ u \in Seq(Lexemes) /\ Len(u) = N + 2
      /\ \A k \in 1 .. N + 2 : u[k] = IF k <= N + 1 THEN p[k] ELSE <<c>>[k - (N + 1)]
  <2>1. <<c>> \in Seq(Lexemes) /\ Len(<<c>>) = 1
    OBVIOUS
  <2>2. (N + 1) + 1 = N + 2
    OBVIOUS
  <2> QED
    BY <1>4, <1>5, <2>1, <2>2, ConcatProperties
<1>7. /\ f \in [0 .. N -> Nat] /\ f[0] = 0 /\ f[N] = 0
      /\ \A k \in 1 .. N : f[k] = f[k - 1] + Delta(s[k])
  BY <1>1, <1>2 DEF Depths
<1>8. u[1] = o
  <2>1. 1 \in 1 .. N + 1 /\ 1 \in 1 .. N + 2 /\ 1 <= N + 1 /\ <<o>>[1] = o
    OBVIOUS
  <2>2. p[1] = <<o>>[1]
    BY <1>4, <2>1
  <2>3. u[1] = p[1]
    BY <1>6, <2>1
  <2> QED
    BY <2>1, <2>2, <2>3
<1>9. u[N + 2] = c
  <2>1. N + 2 \in 1 .. N + 2 /\ ~ (N + 2 <= N + 1) /\ (N + 2) - (N + 1) = 1
    OBVIOUS
  <2> QED
    BY <1>6, <2>1
<1>10. \A k \in 2 .. N + 1 : u[k] = s[k - 1]
  BY <1>4, <1>6
<1> DEFINE h == [k \in 0 .. N + 2 |-> IF k = 0 \/ k = N + 2 THEN 0 ELSE f[k - 1] + 1]
<1>11. \A k \in 1 .. N + 1 : k \in 0 .. N + 2 /\ k # 0 /\ k # N + 2 /\ k - 1 \in 0 .. N
  OBVIOUS
<1>12. \A k \in 1 .. N + 1 : h[k] = f[k - 1] + 1
  BY <1>11
<1>13. h[0] = 0 /\ h[N + 2] = 0
  OBVIOUS
<1>14. h \in [0 .. N + 2 -> Nat]
  <2> SUFFICES ASSUME NEW k \in 0 .. N + 2 PROVE h[k] \in Nat
    OBVIOUS
  <2>1. k = 0 \/ k = N + 2 \/ k \in 1 .. N + 1
    OBVIOUS
  <2> QED
    BY <1>7, <1>11, <1>12, <1>13, <2>1
<1>15. \A k \in 1 .. (N + 2) - 1 : h[k] # 0
  <2>1. (N + 2) - 1 = N + 1
    OBVIOUS
  <2> QED
    BY <1>7, <1>11, <1>12, <2>1
<1>16. ASSUME NEW k \in 1 .. N + 2 PROVE h[k] = h[k - 1] + Delta(u[k])
  <2>1. CASE k = 1
    <3>1. h[1] = f[0] + 1
      <4>1. 1 \in 1 .. N + 1 /\ 1 - 1 = 0
        OBVIOUS
      <4> QED
        BY <1>12, <4>1
    <3> QED
      BY <1>7, <1>8, <1>13, <2>1, <3>1
  <2>2. CASE k = N + 2
    <3>1. h[N + 1] = f[N] + 1
      <4>1. N + 1 \in 1 .. N + 1 /\ (N + 1) - 1 = N
        OBVIOUS
      <4> QED
        BY <1>12, <4>1
    <3>2. k - 1 = N + 1
      BY <2>2
    <3> QED
      BY <1>7, <1>9, <1>13, <2>2, <3>1, <3>2
  <2>3. CASE k # 1 /\ k # N + 2
    <3>1. k \in 1 .. N + 1 /\ k - 1 \in 1 .. N + 1 /\ k \in 2 .. N + 1 /\ k - 1 \in 1 .. N
      BY <2>3
    <3>2. h[k] = f[k - 1] + 1 /\ h[k - 1] = f[(k - 1) - 1] + 1
      BY <1>12, <3>1
    <3>3. f[k - 1] = f[(k - 1) - 1] + Delta(s[k - 1]) /\ u[k] = s[k - 1]
      BY <1>7, <1>10, <3>1
    <3>4. f[(k - 1) - 1] \in Nat /\ Delta(s[k - 1]) \in Int
      <4>1. (k - 1) - 1 \in 0 .. N
        BY <3>1
      <4>2. Delta(s[k - 1]) \in Int
        BY DeltaType
      <4> QED
        BY <1>7, <4>1, <4>2
    <3> QED
      BY <3>2, <3>3, <3>4
  <2> QED
    BY <2>1, <2>2, <2>3
<1> HIDE DEF h
<1>17. Depths(u, h)
  BY <1>6, <1>13, <1>14, <1>16 DEF Depths
<1>18. Len(u) > 1 /\ h[Len(u)] = 0 /\ \A k \in 1 .. Len(u) - 1 : h[k] # 0
  BY <1>6, <1>13, <1>15
<1>19. Nested(u)
  BY <1>6, <1>17, <1>18 DEF Nested
<1> QED
  BY <1>3, <1>5, <1>19

-----------------------------------------------------------------------------
(* FlattenSeq: the sequences up to each one put together.                  *)
IsFlat(v, seqs, N) ==
    v = [n \in 1 .. N |-> IF n = 1 THEN seqs[n] ELSE v[n - 1] \o seqs[n]]

Flat(seqs, N) == CHOOSE v : IsFlat(v, seqs, N)

LEMMA FlattenByFlat ==
    ASSUME NEW seqs
    PROVE  FlattenSeq(seqs) = IF Len(seqs) = 0 THEN seqs ELSE Flat(seqs, Len(seqs))[Len(seqs)]
BY DEF FlattenSeq, Flat, IsFlat

LEMMA FlatExists ==
    ASSUME NEW seqs, NEW N \in Nat
    PROVE  \E v : IsFlat(v, seqs, N)
<1> DEFINE Solved(M) == \E v : IsFlat(v, seqs, M)
           Unsolved == {M \in Nat : ~ Solved(M)}
<1> SUFFICES ASSUME Unsolved # {} PROVE FALSE
  OBVIOUS
<1>1. PICK M \in Unsolved : \A K \in Unsolved : M <= K
  BY LeastNat
<1>2. CASE M = 0
  <2>1. PICK v : v = [n \in 1 .. 0 |-> seqs]
    OBVIOUS
  <2>2. v = [n \in 1 .. 0 |-> IF n = 1 THEN seqs[n] ELSE v[n - 1] \o seqs[n]]
    BY <2>1
  <2> QED
    BY <1>1, <1>2, <2>2 DEF IsFlat
<1>3. CASE M # 0
  <2>1. M - 1 \in Nat /\ ~ (M <= M - 1)
    BY <1>1, <1>3
  <2>2. Solved(M - 1)
    BY <1>1, <2>1
  <2>3. PICK v : v = [n \in 1 .. M - 1 |-> IF n = 1 THEN seqs[n] ELSE v[n - 1] \o seqs[n]]
    BY <2>2 DEF IsFlat
  <2> DEFINE w == [n \in 1 .. M |->
                     IF n # M THEN v[n] ELSE IF n = 1 THEN seqs[n] ELSE v[n - 1] \o seqs[n]]
  <2>4. ASSUME NEW n \in 1 .. M
        PROVE  w[n] = IF n = 1 THEN seqs[n] ELSE w[n - 1] \o seqs[n]
    <3>1. CASE n = 1
      <4>1. CASE M = 1
        BY <3>1, <4>1
      <4>2. CASE M # 1
        <5>1. n \in 1 .. M - 1 /\ n # M
          BY <1>1, <3>1, <4>2
        <5> QED
          BY <2>3, <3>1, <5>1
      <4> QED
        BY <4>1, <4>2
    <3>2. CASE n # 1
      <4>1. n - 1 \in 1 .. M /\ n - 1 # M /\ n - 1 \in 1 .. M - 1
        BY <1>1, <3>2
      <4>2. w[n - 1] = v[n - 1]
        BY <4>1
      <4>3. CASE n = M
        BY <3>2, <4>2, <4>3
      <4>4. CASE n # M
        <5>1. n \in 1 .. M - 1
          BY <1>1, <4>4
        <5>2. v[n] = v[n - 1] \o seqs[n]
          BY <2>3, <3>2, <5>1
        <5> QED
          BY <3>2, <4>2, <4>4, <5>2
      <4> QED
        BY <4>3, <4>4
    <3> QED
      BY <3>1, <3>2
  <2>5. w = [n \in 1 .. M |-> IF n = 1 THEN seqs[n] ELSE w[n - 1] \o seqs[n]]
    <3>1. w = [n \in 1 .. M |-> w[n]]
      OBVIOUS
    <3> HIDE DEF w
    <3> QED
      BY <2>4, <3>1
  <2> HIDE DEF w
  <2>6. Solved(M)
    BY <2>5 DEF IsFlat
  <2> QED
    BY <1>1, <2>6
<1> QED
  BY <1>2, <1>3

LEMMA ClosedFlatten ==
    ASSUME NEW seqs, NEW N \in Nat, seqs = [k \in 1 .. N |-> seqs[k]],
           \A k \in 1 .. N : Closed(seqs[k])
    PROVE  Closed(FlattenSeq(seqs))
<1>1. Len(seqs) = N
  OBVIOUS
<1>2. CASE N = 0
  <2>1. seqs = <<>>
    BY <1>2
  <2> QED
    BY <1>1, <1>2, <2>1, ClosedEmpty, FlattenByFlat
<1>3. CASE N # 0
  <2>1. PICK v : v = Flat(seqs, N)
    OBVIOUS
  <2>2. IsFlat(v, seqs, N)
    <3>1. \E f : IsFlat(f, seqs, N)
      BY FlatExists
    <3> QED
      BY <2>1, <3>1, Zenon DEF Flat
  <2>3. v = [n \in 1 .. N |-> IF n = 1 THEN seqs[n] ELSE v[n - 1] \o seqs[n]]
    BY <2>2 DEF IsFlat
  <2>4. \A n \in 1 .. N : v[n] = IF n = 1 THEN seqs[n] ELSE v[n - 1] \o seqs[n]
    BY <2>3
  <2> DEFINE Broken == {n \in 1 .. N : ~ Closed(v[n])}
  <2>5. Broken = {}
    <3> SUFFICES ASSUME Broken # {} PROVE FALSE
      OBVIOUS
    <3>1. PICK n \in Broken : \A m \in Broken : n <= m
      <4>1. Broken \subseteq Nat
        OBVIOUS
      <4> QED
        BY <4>1, LeastNat
    <3>2. CASE n = 1
      BY <2>4, <3>1, <3>2
    <3>3. CASE n # 1
      <4>1. n \in 1 .. N /\ n - 1 \in 1 .. N /\ ~ (n <= n - 1)
        BY <3>1, <3>3
      <4>2. Closed(v[n - 1]) /\ Closed(seqs[n])
        BY <3>1, <4>1
      <4>3. Closed(v[n - 1] \o seqs[n])
        BY <4>2, ClosedConcat
      <4> QED
        BY <2>4, <3>1, <3>3, <4>1, <4>3
    <3> QED
      BY <3>2, <3>3
  <2>6. Closed(v[N])
    BY <1>3, <2>5
  <2> QED
    BY <1>1, <1>3, <2>1, <2>6, FlattenByFlat
<1> QED
  BY <1>2, <1>3

-----------------------------------------------------------------------------
(* The tokens texts are made of.                                           *)
LEMMA PunctIs ==
    ASSUME NEW k \in Kinds, k # "str"
    PROVE  Punct(k) \in Lexemes /\ Punct(k).kind = k
<1>1. Punct(k) = [kind |-> k, text |-> Null, num |-> 0]
  BY DEF Punct, Token
<1> QED
  BY <1>1 DEF Lexemes, Tokens

LEMMA BracketsAre ==
    /\ Punct("[") \in Lexemes /\ Delta(Punct("[")) = 1
    /\ Punct("]") \in Lexemes /\ Delta(Punct("]")) = -1
    /\ Punct("{") \in Lexemes /\ Delta(Punct("{")) = 1
    /\ Punct("}") \in Lexemes /\ Delta(Punct("}")) = -1
<1>1. Punct("[") \in Lexemes /\ Punct("[").kind = "["
  BY PunctIs DEF Kinds
<1>2. Punct("]") \in Lexemes /\ Punct("]").kind = "]"
  BY PunctIs DEF Kinds
<1>3. Punct("{") \in Lexemes /\ Punct("{").kind = "{"
  BY PunctIs DEF Kinds
<1>4. Punct("}") \in Lexemes /\ Punct("}").kind = "}"
  BY PunctIs DEF Kinds
<1> QED
  BY <1>1, <1>2, <1>3, <1>4 DEF Delta

LEMMA ClosedPunct ==
    ASSUME NEW k \in {",", ":", "null", "true", "false", "bad", "cutesc"}
    PROVE  Punct(k) \in Lexemes /\ Delta(Punct(k)) = 0 /\ Closed(<<Punct(k)>>)
<1>1. k \in Kinds /\ k # "str" /\ k \notin {"[", "{", "]", "}"}
  BY DEF Kinds
<1>2. Punct(k) \in Lexemes /\ Punct(k).kind = k
  BY <1>1, PunctIs
<1>3. Delta(Punct(k)) = 0
  BY <1>1, <1>2 DEF Delta
<1> QED
  BY <1>2, <1>3, ClosedToken

LEMMA StrIs ==
    ASSUME NEW text \in Strings
    PROVE  Str(text) \in Lexemes /\ Delta(Str(text)) = 0 /\ Closed(<<Str(text)>>)
<1>1. Str(text) = [kind |-> "str", text |-> text, num |-> 0]
  BY DEF Str, Token
<1>2. Str(text) \in Tokens /\ Str(text).text = text /\ Str(text).kind = "str"
  <2>1. "str" \in Kinds /\ text \in Strings \cup {Null} /\ 0 \in Nat
    BY DEF Kinds
  <2> QED
    BY <1>1, <2>1 DEF Tokens
<1>3. Str(text) \in Lexemes /\ Delta(Str(text)) = 0
  BY <1>2 DEF Lexemes, Delta
<1> QED
  BY <1>3, ClosedToken

LEMMA NumIs ==
    ASSUME NEW n \in Nat
    PROVE  Num(n) \in Lexemes /\ Delta(Num(n)) = 0 /\ Closed(<<Num(n)>>)
<1>1. Num(n) = [kind |-> "num", text |-> Null, num |-> n]
  BY DEF Num, Token
<1>2. Num(n) \in Tokens /\ Num(n).kind = "num"
  <2>1. "num" \in Kinds /\ Null \in Strings \cup {Null}
    BY DEF Kinds
  <2> QED
    BY <1>1, <2>1 DEF Tokens
<1>3. Num(n) \in Lexemes /\ Delta(Num(n)) = 0
  BY <1>2 DEF Lexemes, Delta
<1> QED
  BY <1>3, ClosedToken

LEMMA ScalarIs ==
    ASSUME NEW t \in Scalars
    PROVE  t \in Lexemes /\ Delta(t) = 0
<1>1. CASE t \in {Str(s) : s \in Strings}
  BY <1>1, StrIs
<1>2. CASE t \in {Num(n) : n \in 0 .. Word64 - IntMax - 2}
  <2>1. PICK n : n \in 0 .. Word64 - IntMax - 2 /\ t = Num(n)
    BY <1>2
  <2>2. n \in Nat
    BY <2>1, DecodeAssumption, CJsonAssumption
  <2> QED
    BY <2>1, <2>2, NumIs
<1>3. CASE t \in {Punct(kind) : kind \in {"null", "true", "false"}}
  BY <1>3, ClosedPunct
<1> QED
  BY <1>1, <1>2, <1>3 DEF Scalars

-----------------------------------------------------------------------------
(* Joined, arrays and objects.                                             *)
LEMMA ClosedJoined ==
    ASSUME NEW parts, NEW N \in Nat, DOMAIN parts = 1 .. N,
           \A k \in 1 .. N : Closed(parts[k])
    PROVE  Closed(Joined(parts))
<1> DEFINE seqs == [k \in 1 .. N |-> IF k = 1 THEN parts[k] ELSE <<Punct(",")>> \o parts[k]]
<1>1. Joined(parts) = FlattenSeq(seqs)
  BY DEF Joined
<1>2. Closed(<<Punct(",")>>)
  BY ClosedPunct
<1>3. ASSUME NEW k \in 1 .. N PROVE Closed(seqs[k])
  <2>1. Closed(<<Punct(",")>> \o parts[k])
    BY <1>2, ClosedConcat
  <2> QED
    BY <2>1
<1>4. seqs = [k \in 1 .. N |-> seqs[k]]
  OBVIOUS
<1> HIDE DEF seqs
<1> QED
  BY <1>1, <1>3, <1>4, ClosedFlatten

LEMMA NestedArray ==
    ASSUME NEW parts, NEW N \in Nat, DOMAIN parts = 1 .. N,
           \A k \in 1 .. N : Closed(parts[k])
    PROVE  Nested(Array(parts))
<1>1. Closed(Joined(parts))
  BY ClosedJoined
<1> QED
  BY <1>1, BracketsAre, Bracketed DEF Array

(* A member of an object.                                                  *)
LEMMA ClosedMember ==
    ASSUME NEW name \in Strings, NEW value, Closed(value)
    PROVE  Closed(<<Str(name), Punct(":")>> \o value)
<1>1. PICK a, b : a = Str(name) /\ b = Punct(":")
  OBVIOUS
<1>2. a \in Lexemes /\ b \in Lexemes /\ Delta(a) = 0 /\ Delta(b) = 0
  BY <1>1, StrIs, ClosedPunct
<1>3. Closed(<<a, b>>)
  BY <1>2, ClosedPair
<1> QED
  BY <1>1, <1>3, ClosedConcat

LEMMA NestedObject ==
    ASSUME NEW members, NEW N \in Nat, DOMAIN members = 1 .. N,
           \A k \in 1 .. N : members[k][1] \in Strings /\ Closed(members[k][2])
    PROVE  Nested(Object(members))
<1> DEFINE parts == [k \in 1 .. N |-> <<Str(members[k][1]), Punct(":")>> \o members[k][2]]
<1>1. \A k \in 1 .. N : Closed(parts[k])
  BY ClosedMember
<1>2. DOMAIN parts = 1 .. N
  OBVIOUS
<1>3. Object(members) = <<Punct("{")>> \o Joined(parts) \o <<Punct("}")>>
  BY DEF Object
<1> HIDE DEF parts
<1>4. Closed(Joined(parts))
  BY <1>1, <1>2, ClosedJoined
<1> QED
  BY <1>3, <1>4, BracketsAre, Bracketed

-----------------------------------------------------------------------------
(* A row, and the whole answer.                                            *)
LEMMA NestedRow ==
    ASSUME NEW row \in Seq(Strings \X Scalars)
    PROVE  Nested(RowText(row))
<1>1. PICK N \in Nat : N = Len(row) /\ DOMAIN row = 1 .. N
  BY LenProperties
<1>2. \A k \in 1 .. N : row[k] \in Strings \X Scalars
  BY <1>1, ElementOfSeq
<1> DEFINE members == [k \in 1 .. N |-> <<row[k][1], <<row[k][2]>>>>]
<1>3. ASSUME NEW k \in 1 .. N PROVE members[k][1] \in Strings /\ Closed(members[k][2])
  <2>1. PICK m : m = row[k] /\ m \in Strings \X Scalars
    BY <1>2
  <2>2. m[1] \in Strings /\ m[2] \in Scalars
    BY <2>1
  <2>3. members[k][1] = m[1] /\ members[k][2] = <<m[2]>>
    BY <2>1
  <2>4. Closed(<<m[2]>>)
    BY <2>2, ScalarIs, ClosedToken
  <2> QED
    BY <2>2, <2>3, <2>4
<1>4. DOMAIN members = 1 .. N /\ RowText(row) = Object(members)
  BY <1>1 DEF RowText
<1> HIDE DEF members
<1> QED
  BY <1>3, <1>4, NestedObject

(* An object of one or of two members.                                     *)
LEMMA NestedOne ==
    ASSUME NEW name \in Strings, NEW value, Closed(value)
    PROVE  Nested(Object(<< <<name, value>> >>))
<1>1. PICK members : members = << <<name, value>> >>
  OBVIOUS
<1>2. DOMAIN members = 1 .. 1 /\ members[1][1] = name /\ members[1][2] = value
  BY <1>1
<1>3. \A k \in 1 .. 1 : k = 1
  OBVIOUS
<1>4. \A k \in 1 .. 1 : members[k][1] \in Strings /\ Closed(members[k][2])
  BY <1>2, <1>3
<1> QED
  BY <1>1, <1>2, <1>4, NestedObject

LEMMA NestedTwo ==
    ASSUME NEW name \in Strings, NEW value, Closed(value),
           NEW other \in Strings, NEW second, Closed(second)
    PROVE  Nested(Object(<< <<name, value>>, <<other, second>> >>))
<1>1. PICK members : members = << <<name, value>>, <<other, second>> >>
  OBVIOUS
<1>2. /\ DOMAIN members = 1 .. 2 /\ members[1][1] = name /\ members[1][2] = value
      /\ members[2][1] = other /\ members[2][2] = second
  BY <1>1
<1>3. \A k \in 1 .. 2 : k = 1 \/ k = 2
  OBVIOUS
<1>4. \A k \in 1 .. 2 : members[k][1] \in Strings /\ Closed(members[k][2])
  BY <1>2, <1>3
<1> QED
  BY <1>1, <1>2, <1>4, NestedObject

LEMMA NestedDocument ==
    ASSUME NEW a \in Answers
    PROVE  Nested(Document(a))
<1>1. /\ a \in Answer
      /\ {"Response", "CountInfo", "Total", "Error", "Code", "AuthFailure",
          "RecordList", "DomainList"} \subseteq Strings
  BY DecodeAssumption
<1>2. a.rows \in Seq(Seq(Strings \X Scalars)) /\ a.shape \in {"list", "null", "error"}
  BY <1>1 DEF Answer
<1>3. PICK N \in Nat : N = Len(a.rows) /\ DOMAIN a.rows = 1 .. N
  BY <1>2, LenProperties
<1>4. ListName(a.api) \in Strings
  BY <1>1 DEF ListName
<1> DEFINE total == Object(<< <<"Total", <<Num(Len(a.rows))>>>> >>)
           texts == [k \in 1 .. N |-> RowText(a.rows[k])]
           code  == Object(<< <<"Code", <<Str("AuthFailure")>>>> >>)
<1>5. Closed(total)
  <2>1. Closed(<<Num(Len(a.rows))>>)
    BY <1>3, NumIs
  <2> QED
    BY <1>1, <2>1, NestedOne, NestedIsClosed
<1>6. Closed(code)
  <2>1. Closed(<<Str("AuthFailure")>>)
    BY <1>1, StrIs
  <2> QED
    BY <1>1, <2>1, NestedOne, NestedIsClosed
<1>7. Closed(Array(texts))
  <2>1. ASSUME NEW k \in 1 .. N PROVE Closed(texts[k])
    <3>1. a.rows[k] \in Seq(Strings \X Scalars)
      BY <1>2, <1>3, ElementOfSeq
    <3> QED
      BY <3>1, NestedRow, NestedIsClosed
  <2>2. DOMAIN texts = 1 .. N
    OBVIOUS
  <2> HIDE DEF texts
  <2> QED
    BY <2>1, <2>2, NestedArray, NestedIsClosed
<1>8. Closed(<<Punct("null")>>)
  BY ClosedPunct
<1>9. PICK null : null = <<Punct("null")>>
  OBVIOUS
<1>10. /\ a.shape = "list" =>
            Document(a) = Object(<< <<"Response", Object(<< <<"CountInfo", total>>,
                                                  <<ListName(a.api), Array(texts)>> >>)>> >>)
       /\ a.shape = "null" =>
            Document(a) = Object(<< <<"Response", Object(<< <<"CountInfo", total>>,
                                                  <<ListName(a.api), null>> >>)>> >>)
       /\ a.shape = "error" =>
            Document(a) = Object(<< <<"Response", Object(<< <<"Error", code>> >>)>> >>)
  BY <1>3, <1>9 DEF Document
<1> HIDE DEF total, texts, code
<1>11. Closed(Object(<< <<"CountInfo", total>>, <<ListName(a.api), Array(texts)>> >>))
  BY <1>1, <1>4, <1>5, <1>7, NestedTwo, NestedIsClosed
<1>12. Closed(Object(<< <<"CountInfo", total>>, <<ListName(a.api), null>> >>))
  BY <1>1, <1>4, <1>5, <1>8, <1>9, NestedTwo, NestedIsClosed
<1>13. Closed(Object(<< <<"Error", code>> >>))
  BY <1>1, <1>6, NestedOne, NestedIsClosed
<1> QED
  BY <1>1, <1>2, <1>10, <1>11, <1>12, <1>13, NestedOne

-----------------------------------------------------------------------------
(* What a cut leaves of a token opens and closes nothing, nor did the      *)
(* token.                                                                  *)
LEMMA StumpIs ==
    ASSUME NEW t \in Lexemes, NEW u \in Stump(t)
    PROVE  u \in Lexemes /\ Delta(u) = 0 /\ Delta(t) = 0
<1>1. CASE t.kind = "str"
  <2>1. t.text \in Strings /\ Delta(t) = 0
    BY <1>1 DEF Lexemes, Delta
  <2>2. u \in {Str(s) : s \in Shorter[t.text]} \cup {Punct("cutesc")}
    BY <1>1 DEF Stump
  <2>3. CASE u = Punct("cutesc")
    BY <2>1, <2>3, ClosedPunct
  <2>4. CASE u # Punct("cutesc")
    <3>1. PICK s \in Shorter[t.text] : u = Str(s)
      BY <2>2, <2>4
    <3>2. s \in Strings
      BY <2>1, <3>1, DecodeAssumption
    <3> QED
      BY <2>1, <3>1, <3>2, StrIs
  <2> QED
    BY <2>3, <2>4
<1>2. CASE t.kind = "num"
  <2>1. u = Num(t.num \div 2)
    BY <1>2 DEF Stump
  <2>2. t.num \in Nat /\ Delta(t) = 0
    BY <1>2 DEF Lexemes, Tokens, Delta
  <2>3. t.num \div 2 \in Nat
    BY <2>2
  <2> QED
    BY <2>1, <2>2, <2>3, NumIs
<1>3. CASE t.kind \in {"null", "true", "false"}
  <2>1. u = Punct("bad") /\ Delta(t) = 0
    BY <1>3 DEF Stump, Delta
  <2> QED
    BY <2>1, ClosedPunct
<1>4. CASE t.kind \notin {"str", "num", "null", "true", "false"}
  BY <1>4 DEF Stump
<1> QED
  BY <1>1, <1>2, <1>3, <1>4

(* A beginning of a text that closes only at its end.                      *)
LEMMA BeginningStaysOpen ==
    ASSUME NEW text, Nested(text), NEW n \in Nat, n < Len(text)
    PROVE  /\ StaysOpen(SubSeq(text, 1, n)) /\ Len(SubSeq(text, 1, n)) = n
<1>1. PICK N \in Nat : N = Len(text) /\ n < N
  BY LenProperties DEF Nested
<1>2. PICK f : Depths(text, f) /\ \A k \in 1 .. N - 1 : f[k] # 0
  BY <1>1 DEF Nested
<1>3. PICK s : s = SubSeq(text, 1, n)
  OBVIOUS
<1>4. s \in Seq(Lexemes) /\ Len(s) = n /\ \A k \in 1 .. n : s[k] = text[k]
  <2>1. \A k \in 1 .. n : k \in 1 .. N /\ text[k] \in Lexemes
    <3>1. \A k \in 1 .. n : k \in 1 .. N
      BY <1>1
    <3> QED
      BY <1>1, <3>1, ElementOfSeq DEF Nested
  <2>2. /\ SubSeq(text, 1, n) \in Seq(Lexemes)
        /\ Len(SubSeq(text, 1, n)) = IF 1 <= n THEN n - 1 + 1 ELSE 0
        /\ \A k \in 1 .. n - 1 + 1 : SubSeq(text, 1, n)[k] = text[1 + k - 1]
    BY <2>1, SubSeqProperties
  <2>3. n - 1 + 1 = n /\ (~ (1 <= n) => n = 0) /\ \A k \in 1 .. n : 1 + k - 1 = k
    OBVIOUS
  <2> QED
    BY <1>3, <2>2, <2>3
<1>5. PICK g : g = [k \in 0 .. n |-> f[k]]
  OBVIOUS
<1>6. \A k \in 0 .. n : k \in 0 .. N /\ g[k] = f[k]
  BY <1>1, <1>5
<1>7. \A k \in 1 .. n : k \in 1 .. N - 1 /\ k \in 1 .. N /\ k \in 0 .. n /\ k - 1 \in 0 .. n
  BY <1>1
<1>8. g \in [0 .. n -> Nat]
  BY <1>1, <1>2, <1>5, <1>6 DEF Depths
<1>9. g[0] = 0
  BY <1>2, <1>6 DEF Depths
<1>10. \A k \in 1 .. n : g[k] = g[k - 1] + Delta(s[k])
  <2> SUFFICES ASSUME NEW k \in 1 .. n PROVE g[k] = g[k - 1] + Delta(s[k])
    OBVIOUS
  <2>1. f[k] = f[k - 1] + Delta(text[k])
    BY <1>1, <1>2, <1>7 DEF Depths
  <2> QED
    BY <1>4, <1>6, <1>7, <2>1
<1>11. Depths(s, g)
  BY <1>4, <1>8, <1>9, <1>10 DEF Depths
<1>12. \A k \in 1 .. n : g[k] # 0
  BY <1>2, <1>6, <1>7
<1>13. StaysOpen(s)
  BY <1>4, <1>11, <1>12 DEF StaysOpen
<1> QED
  BY <1>3, <1>4, <1>13

(* One more token does not close it, if there is something open.           *)
LEMMA StaysOpenBehind ==
    ASSUME NEW s, StaysOpen(s), Len(s) # 0, NEW t \in Lexemes, Delta(t) = 0
    PROVE  StaysOpen(Append(s, t))
<1>1. PICK N \in Nat : N = Len(s) /\ N # 0
  BY LenProperties DEF StaysOpen
<1>2. PICK f : Depths(s, f) /\ \A k \in 1 .. N : f[k] # 0
  BY <1>1 DEF StaysOpen
<1>3. PICK u : u = Append(s, t)
  OBVIOUS
<1>4. /\ u \in Seq(Lexemes) /\ Len(u) = N + 1 /\ u[N + 1] = t
      /\ \A k \in 1 .. N : u[k] = s[k]
  BY <1>1, <1>3, AppendProperties DEF StaysOpen
<1>5. /\ f \in [0 .. N -> Nat] /\ f[0] = 0 /\ f[N] # 0
      /\ \A k \in 1 .. N : f[k] = f[k - 1] + Delta(s[k])
  BY <1>1, <1>2 DEF Depths
<1>6. PICK g : g = [k \in 0 .. N + 1 |-> IF k = N + 1 THEN f[N] ELSE f[k]]
  OBVIOUS
<1>7. \A k \in 0 .. N : k \in 0 .. N + 1 /\ k # N + 1
  OBVIOUS
<1>8. (\A k \in 0 .. N : g[k] = f[k]) /\ g[N + 1] = f[N]
  BY <1>6, <1>7
<1>9. \A k \in 0 .. N + 1 : k \in 0 .. N \/ k = N + 1
  OBVIOUS
<1>10. g \in [0 .. N + 1 -> Nat] /\ g[0] = 0
  <2>1. \A k \in 0 .. N + 1 : g[k] \in Nat
    BY <1>5, <1>8, <1>9
  <2>2. 0 \in 0 .. N
    OBVIOUS
  <2> QED
    BY <1>5, <1>6, <1>8, <2>1, <2>2
<1>11. ASSUME NEW k \in 1 .. N + 1 PROVE g[k] = g[k - 1] + Delta(u[k]) /\ g[k] # 0
  <2>1. CASE k = N + 1
    <3>1. k - 1 = N /\ N \in 0 .. N /\ f[N] \in Nat
      BY <1>5, <2>1
    <3> QED
      BY <1>4, <1>5, <1>8, <2>1, <3>1
  <2>2. CASE k # N + 1
    <3>1. k \in 1 .. N /\ k \in 0 .. N /\ k - 1 \in 0 .. N
      BY <2>2
    <3> QED
      BY <1>2, <1>4, <1>5, <1>8, <3>1
  <2> QED
    BY <2>1, <2>2
<1>12. Depths(u, g)
  BY <1>4, <1>10, <1>11 DEF Depths
<1> QED
  BY <1>3, <1>4, <1>11, <1>12 DEF StaysOpen

(* However a text is cut off, it closes none of what it opened first.      *)
LEMMA CutStaysOpen ==
    ASSUME NEW text, Nested(text), NEW cut \in CutTexts(text)
    PROVE  StaysOpen(cut)
<1>1. PICK N \in Nat : N = Len(text) /\ N > 1 /\ DOMAIN text = 1 .. N
  BY LenProperties DEF Nested
<1>2. CASE \E n \in 0 .. Len(text) - 1 : cut = SubSeq(text, 1, n)
  <2>1. PICK n \in 0 .. N - 1 : cut = SubSeq(text, 1, n)
    BY <1>1, <1>2
  <2>2. n \in Nat /\ n < N
    BY <1>1
  <2> QED
    BY <1>1, <2>1, <2>2, BeginningStaysOpen
<1>3. CASE \E n \in DOMAIN text : \E t \in Stump(text[n]) : cut = Append(SubSeq(text, 1, n - 1), t)
  <2>1. PICK n \in 1 .. N : \E t \in Stump(text[n]) : cut = Append(SubSeq(text, 1, n - 1), t)
    BY <1>1, <1>3
  <2>2. PICK t \in Stump(text[n]) : cut = Append(SubSeq(text, 1, n - 1), t)
    BY <2>1
  <2>3. text[n] \in Lexemes
    BY <1>1, ElementOfSeq DEF Nested
  <2>4. t \in Lexemes /\ Delta(t) = 0 /\ Delta(text[n]) = 0
    BY <2>2, <2>3, StumpIs
  <2>5. n # 1
    <3>1. PICK f : Depths(text, f) /\ \A k \in 1 .. N - 1 : f[k] # 0
      BY <1>1 DEF Nested
    <3>2. 1 \in 1 .. N /\ 1 \in 1 .. N - 1 /\ 1 - 1 = 0
      BY <1>1
    <3>3. f[1] = f[1 - 1] + Delta(text[1]) /\ f[0] = 0 /\ f[1] # 0
      BY <1>1, <3>1, <3>2 DEF Depths
    <3>4. Delta(text[1]) # 0
      BY <3>2, <3>3
    <3> QED
      BY <2>4, <3>4
  <2>6. n - 1 \in Nat /\ n - 1 < N /\ n - 1 # 0
    BY <1>1, <2>5
  <2>7. PICK s : s = SubSeq(text, 1, n - 1)
    OBVIOUS
  <2>8. StaysOpen(s) /\ Len(s) # 0
    BY <1>1, <2>6, <2>7, BeginningStaysOpen
  <2> QED
    BY <2>2, <2>4, <2>7, <2>8, StaysOpenBehind
<1> QED
  BY <1>2, <1>3 DEF CutTexts

-----------------------------------------------------------------------------
(* The texts curl_request may return.                                      *)
LEMMA TextsAre ==
    ASSUME NEW a \in Answers, NEW w \in Whole, NEW text \in Texts(a, w)
    PROVE  text \in Seq(Lexemes) /\ (~ w => StaysOpen(text))
<1>1. Nested(Document(a))
  BY NestedDocument
<1>2. CASE w
  BY <1>1, <1>2 DEF Texts, Nested
<1>3. CASE ~ w
  <2>1. text \in CutTexts(Document(a))
    BY <1>3 DEF Texts
  <2>2. StaysOpen(text)
    BY <1>1, <2>1, CutStaysOpen
  <2> QED
    BY <1>3, <2>2 DEF StaysOpen
<1> QED
  BY <1>2, <1>3

-----------------------------------------------------------------------------
(* The text s stands in the text d, behind its first o tokens.             *)
Placed(d, o, s) ==
    /\ Len(d) \in Nat /\ o \in Nat /\ o + Len(s) <= Len(d)
    /\ \A p \in 1 .. Len(s) : d[o + p] = s[p]

LEMMA OneToken ==
    ASSUME NEW S, NEW x \in S
    PROVE  <<x>> \in Seq(S) /\ Len(<<x>>) = 1 /\ <<x>>[1] = x
OBVIOUS

LEMMA PlacedConcat ==
    ASSUME NEW S, NEW s \in Seq(S), NEW t \in Seq(S), NEW d, NEW o, Placed(d, o, s \o t)
    PROVE  Placed(d, o, s) /\ Placed(d, o + Len(s), t)
<1>1. PICK A \in Nat, B \in Nat, L \in Nat : A = Len(s) /\ B = Len(t) /\ L = Len(d)
  BY LenProperties DEF Placed
<1>2. PICK u : u = s \o t
  OBVIOUS
<1>3. /\ Len(u) = A + B /\ \A p \in 1 .. A : u[p] = s[p]
      /\ \A p \in 1 .. B : u[A + p] = t[p]
  <2>1. Len(s \o t) = Len(s) + Len(t)
    BY ConcatProperties
  <2>2. \A p \in 1 .. Len(s) + Len(t) :
            (s \o t)[p] = IF p <= Len(s) THEN s[p] ELSE t[p - Len(s)]
    BY ConcatProperties
  <2>3. \A p \in 1 .. A : p \in 1 .. A + B /\ p <= A
    BY <1>1
  <2>4. \A p \in 1 .. B : A + p \in 1 .. A + B /\ ~ (A + p <= A) /\ (A + p) - A = p
    BY <1>1
  <2> QED
    BY <1>1, <1>2, <2>1, <2>2, <2>3, <2>4
<1>4. o \in Nat /\ o + (A + B) <= L /\ \A p \in 1 .. A + B : d[o + p] = u[p]
  BY <1>1, <1>2, <1>3 DEF Placed
<1>5. o + A \in Nat /\ o + A <= L /\ (o + A) + B <= L
  BY <1>1, <1>4
<1>6. \A p \in 1 .. A : d[o + p] = s[p]
  <2>1. \A p \in 1 .. A : p \in 1 .. A + B
    BY <1>1
  <2> QED
    BY <1>3, <1>4, <2>1
<1>7. \A p \in 1 .. B : d[(o + A) + p] = t[p]
  <2> SUFFICES ASSUME NEW p \in 1 .. B PROVE d[(o + A) + p] = t[p]
    OBVIOUS
  <2>1. A + p \in 1 .. A + B /\ (o + A) + p = o + (A + p)
    BY <1>1, <1>4
  <2> QED
    BY <1>3, <1>4, <2>1
<1> QED
  BY <1>1, <1>4, <1>5, <1>6, <1>7 DEF Placed

(* The depths inside of it are its own, and those in front of it.          *)
LEMMA PlacedDepths ==
    ASSUME NEW d, NEW f, Depths(d, f), NEW o, NEW s, Placed(d, o, s), NEW g, Depths(s, g),
           Len(s) \in Nat
    PROVE  \A q \in 0 .. Len(s) : o + q \in 0 .. Len(d) /\ f[o + q] = f[o] + g[q]
<1>1. PICK A \in Nat, L \in Nat : A = Len(s) /\ L = Len(d) /\ o \in Nat /\ o + A <= L
  BY DEF Placed
<1>2. \A q \in 0 .. A : o + q \in 0 .. L
  BY <1>1
<1>3. /\ f \in [0 .. L -> Nat] /\ \A k \in 1 .. L : f[k] = f[k - 1] + Delta(d[k])
      /\ g \in [0 .. A -> Nat] /\ g[0] = 0 /\ \A k \in 1 .. A : g[k] = g[k - 1] + Delta(s[k])
  BY <1>1 DEF Depths
<1> DEFINE Wrong == {q \in 0 .. A : f[o + q] # f[o] + g[q]}
<1> SUFFICES ASSUME Wrong # {} PROVE FALSE
  BY <1>1, <1>2
<1>4. PICK q \in Wrong : \A p \in Wrong : q <= p
  <2>1. Wrong \subseteq Nat
    OBVIOUS
  <2> QED
    BY <2>1, LeastNat
<1>5. q # 0
  <2>1. o + 0 = o /\ 0 \in 0 .. A /\ o \in 0 .. L
    BY <1>1
  <2>2. f[o] \in Nat /\ f[o] + g[0] = f[o]
    BY <1>3, <2>1
  <2> QED
    BY <1>4, <2>1, <2>2
<1>6. q - 1 \in 0 .. A /\ q \in 1 .. A /\ ~ (q <= q - 1)
  BY <1>1, <1>4, <1>5
<1>7. f[o + (q - 1)] = f[o] + g[q - 1]
  BY <1>4, <1>6
<1>8. o + q \in 1 .. L /\ (o + q) - 1 = o + (q - 1)
  BY <1>1, <1>6
<1>9. f[o + q] = f[o + (q - 1)] + Delta(d[o + q]) /\ d[o + q] = s[q]
  BY <1>1, <1>3, <1>6, <1>8 DEF Placed
<1>10. g[q] = g[q - 1] + Delta(s[q])
  BY <1>3, <1>6
<1>11. PICK a \in Int, b \in Int, c \in Int : a = f[o] /\ b = g[q - 1] /\ c = Delta(s[q])
  <2>1. o \in 0 .. L
    BY <1>1
  <2> QED
    BY <1>3, <1>6, <2>1, DeltaType
<1>12. f[o + q] = (a + b) + c /\ f[o] + g[q] = a + (b + c)
  BY <1>7, <1>9, <1>10, <1>11
<1>13. (a + b) + c = a + (b + c)
  BY <1>11
<1> QED
  BY <1>4, <1>12, <1>13

-----------------------------------------------------------------------------
(* The value that begins with token p ends with token q.                   *)
Ends(f, p, q) ==
    /\ p \in Nat /\ q \in Nat /\ p <= q /\ f[q] = f[p - 1]
    /\ \A r \in p .. q - 1 : f[r] > f[p - 1]

LEMMA EndsOnce ==
    ASSUME NEW f, NEW p, NEW q, NEW r, Ends(f, p, q), Ends(f, p, r), f[p - 1] \in Int
    PROVE  q = r
<1>1. p \in Nat /\ q \in Nat /\ r \in Nat /\ p <= q /\ p <= r
  BY DEF Ends
<1>2. f[q] = f[p - 1] /\ f[r] = f[p - 1]
  BY DEF Ends
<1>3. ~ (f[p - 1] > f[p - 1])
  OBVIOUS
<1>4. ~ (q < r)
  <2>1. q < r => q \in p .. r - 1
    BY <1>1
  <2> QED
    BY <1>2, <1>3, <2>1 DEF Ends
<1>5. ~ (r < q)
  <2>1. r < q => r \in p .. q - 1
    BY <1>1
  <2> QED
    BY <1>2, <1>3, <2>1 DEF Ends
<1> QED
  BY <1>1, <1>4, <1>5

(* The text of a value: one token, or what stands in a pair of brackets.   *)
Value(s) == Nested(s) \/ (s \in Seq(Lexemes) /\ Len(s) = 1 /\ Delta(s[1]) = 0)

LEMMA ValueIs ==
    ASSUME NEW s, Value(s)
    PROVE  s \in Seq(Lexemes) /\ Len(s) \in Nat /\ Len(s) >= 1 /\ Closed(s)
           /\ s[1].kind \notin {"]", "}"}
<1>1. s \in Seq(Lexemes) /\ Len(s) \in Nat
  BY LenProperties DEF Value, Nested
<1>0. s[1].kind \in {"]", "}"} => Delta(s[1]) = -1
  BY DEF Delta
<1>2. CASE Nested(s)
  <2>1. PICK f : /\ Depths(s, f) /\ f[Len(s)] = 0
                 /\ \A k \in 1 .. Len(s) - 1 : f[k] # 0
    BY <1>2 DEF Nested
  <2>2. Len(s) > 1
    BY <1>2 DEF Nested
  <2>3. 1 \in 1 .. Len(s) /\ 1 \in 1 .. Len(s) - 1 /\ 1 - 1 = 0 /\ 1 \in 0 .. Len(s)
    BY <1>1, <2>2
  <2>4. f[1] = 0 + Delta(s[1]) /\ f[1] \in Nat /\ f[1] # 0
    BY <2>1, <2>3 DEF Depths
  <2>5. Delta(s[1]) # -1
    BY <2>4
  <2>6. s[1].kind \notin {"]", "}"}
    BY <1>0, <2>5
  <2>7. Len(s) >= 1
    BY <1>1, <2>2
  <2>8. Closed(s)
    BY <1>2, NestedIsClosed
  <2> QED
    BY <1>1, <2>6, <2>7, <2>8
<1>3. CASE Len(s) = 1 /\ Delta(s[1]) = 0
  <2>1. s[1] \in Lexemes
    BY <1>1, <1>3, ElementOfSeq
  <2>2. s = <<s[1]>>
    BY <1>1, <1>3
  <2>3. Closed(<<s[1]>>)
    BY <1>3, <2>1, ClosedToken
  <2>4. s[1].kind \notin {"]", "}"}
    <3>1. Delta(s[1]) # -1
      BY <1>3
    <3> QED
      BY <1>0, <3>1
  <2>5. Closed(s)
    BY <2>2, <2>3, Zenon
  <2>6. Len(s) >= 1
    BY <1>3
  <2> QED
    BY <1>1, <2>4, <2>5, <2>6
<1> QED
  BY <1>2, <1>3 DEF Value

LEMMA ValueEnds ==
    ASSUME NEW d, NEW f, Depths(d, f), NEW o, NEW s, Placed(d, o, s), Value(s)
    PROVE  Ends(f, o + 1, o + Len(s)) /\ f[o] \in Nat
<1>1. PICK A \in Nat : A = Len(s) /\ A >= 1
  BY ValueIs
<1>2. PICK g : /\ Depths(s, g) /\ g[A] = 0
               /\ \A k \in 1 .. A - 1 : g[k] # 0
  <2>1. CASE Nested(s)
    BY <1>1, <2>1 DEF Nested
  <2>2. CASE Len(s) = 1
    <3>1. PICK g : Depths(s, g) /\ g[A] = 0
      BY <1>1, ValueIs DEF Closed
    <3>2. \A k \in 1 .. A - 1 : FALSE
      BY <1>1, <2>2
    <3> QED
      BY <3>1, <3>2
  <2> QED
    BY <2>1, <2>2 DEF Value
<1>3. \A q \in 0 .. A : o + q \in 0 .. Len(d) /\ f[o + q] = f[o] + g[q]
  BY <1>1, <1>2, PlacedDepths
<1>4. o \in Nat /\ o + 0 = o /\ (o + 1) - 1 = o /\ 0 \in 0 .. A /\ A \in 0 .. A
  BY <1>1 DEF Placed
<1>5. f[o] \in Nat
  <2>1. o \in 0 .. Len(d)
    BY <1>3, <1>4
  <2> QED
    BY <2>1 DEF Depths
<1>6. f[o + A] = f[o]
  BY <1>2, <1>3, <1>4, <1>5
<1>7. ASSUME NEW r \in o + 1 .. (o + A) - 1 PROVE f[r] > f[o]
  <2>1. r - o \in 1 .. A - 1 /\ r - o \in 0 .. A /\ o + (r - o) = r
    BY <1>1, <1>4
  <2>2. f[r] = f[o] + g[r - o] /\ g[r - o] # 0
    BY <1>2, <1>3, <2>1
  <2>3. g[r - o] \in Nat
    BY <1>1, <1>2, <2>1 DEF Depths
  <2> QED
    BY <1>5, <2>2, <2>3
<1>8. o + 1 \in Nat /\ o + A \in Nat /\ o + 1 <= o + A
  BY <1>1, <1>4
<1> QED
  BY <1>1, <1>4, <1>5, <1>6, <1>7, <1>8 DEF Ends

-----------------------------------------------------------------------------
(* The parts of a joined text, and the commas between them.                *)
PartsAt(d, o, parts, N, off) ==
    /\ off \in [1 .. N -> Nat] /\ off[1] = o
    /\ \A k \in 1 .. N : Placed(d, off[k], parts[k])
    /\ \A k \in 1 .. N - 1 : /\ d[off[k] + Len(parts[k]) + 1] = Punct(",")
                             /\ off[k + 1] = off[k] + Len(parts[k]) + 1
    /\ off[N] + Len(parts[N]) = o + Len(Joined(parts))

LEMMA JoinedNone ==
    ASSUME NEW parts, DOMAIN parts = 1 .. 0
    PROVE  Joined(parts) = <<>>
<1>1. PICK seqs : seqs = [k \in 1 .. 0 |-> IF k = 1 THEN parts[k] ELSE <<Punct(",")>> \o parts[k]]
  OBVIOUS
<1>2. Joined(parts) = FlattenSeq(seqs)
  BY <1>1 DEF Joined
<1>3. seqs = <<>> /\ Len(seqs) = 0
  BY <1>1
<1> QED
  BY <1>2, <1>3, FlattenByFlat

(* The text of the first n parts, for each n.                              *)
LEMMA JoinedByFlat ==
    ASSUME NEW parts, NEW N \in Nat, N # 0, DOMAIN parts = 1 .. N,
           \A k \in 1 .. N : parts[k] \in Seq(Lexemes)
    PROVE  \E v : /\ v[1] = parts[1] /\ v[N] = Joined(parts)
                  /\ \A n \in 1 .. N : v[n] \in Seq(Lexemes)
                  /\ \A n \in 2 .. N : v[n] = v[n - 1] \o (<<Punct(",")>> \o parts[n])
<1> DEFINE seqs == [k \in 1 .. N |-> IF k = 1 THEN parts[k] ELSE <<Punct(",")>> \o parts[k]]
<1>1. Joined(parts) = FlattenSeq(seqs) /\ Len(seqs) = N
  BY DEF Joined
<1>2. PICK v : v = Flat(seqs, N)
  OBVIOUS
<1>3. IsFlat(v, seqs, N)
  <2>1. \E f : IsFlat(f, seqs, N)
    <3> HIDE DEF seqs
    <3> QED
      BY FlatExists
  <2> HIDE DEF seqs
  <2> QED
    BY <1>2, <2>1, Zenon DEF Flat
<1>4. v[N] = Joined(parts)
  <2> HIDE DEF seqs
  <2> QED
    BY <1>1, <1>2, FlattenByFlat
<1>5. \A n \in 1 .. N : v[n] = IF n = 1 THEN seqs[n] ELSE v[n - 1] \o seqs[n]
  <2> HIDE DEF seqs
  <2>1. v = [n \in 1 .. N |-> IF n = 1 THEN seqs[n] ELSE v[n - 1] \o seqs[n]]
    BY <1>3 DEF IsFlat
  <2> QED
    BY <2>1
<1>6. 1 \in 1 .. N /\ \A n \in 2 .. N : n \in 1 .. N /\ n # 1 /\ n - 1 \in 1 .. N /\ ~ (n <= n - 1)
  OBVIOUS
<1>7. seqs[1] = parts[1] /\ \A n \in 2 .. N : seqs[n] = <<Punct(",")>> \o parts[n]
  BY <1>6
<1> HIDE DEF seqs
<1>8. v[1] = parts[1] /\ \A n \in 2 .. N : v[n] = v[n - 1] \o (<<Punct(",")>> \o parts[n])
  BY <1>5, <1>6, <1>7
<1>9. \A n \in 2 .. N : <<Punct(",")>> \o parts[n] \in Seq(Lexemes)
  <2>1. Punct(",") \in Lexemes
    BY ClosedPunct
  <2>2. <<Punct(",")>> \in Seq(Lexemes)
    BY <2>1, OneToken
  <2> QED
    BY <1>6, <2>2, ConcatProperties
<1> DEFINE Odd == {n \in 1 .. N : v[n] \notin Seq(Lexemes)}
<1>10. Odd = {}
  <2> SUFFICES ASSUME Odd # {} PROVE FALSE
    OBVIOUS
  <2>1. PICK n \in Odd : \A m \in Odd : n <= m
    <3>1. Odd \subseteq Nat
      OBVIOUS
    <3> QED
      BY <3>1, LeastNat
  <2>2. n # 1
    BY <1>6, <1>8, <2>1
  <2>3. n \in 2 .. N
    BY <2>1, <2>2
  <2>4. v[n - 1] \in Seq(Lexemes)
    BY <1>6, <2>1, <2>3
  <2>5. v[n - 1] \o (<<Punct(",")>> \o parts[n]) \in Seq(Lexemes)
    BY <1>9, <2>3, <2>4, ConcatProperties
  <2> QED
    BY <1>8, <2>1, <2>3, <2>5
<1> QED
  BY <1>4, <1>8, <1>10

LEMMA JoinedAt ==
    ASSUME NEW parts, NEW N \in Nat, N # 0, DOMAIN parts = 1 .. N,
           \A k \in 1 .. N : parts[k] \in Seq(Lexemes),
           NEW d, NEW o, Placed(d, o, Joined(parts))
    PROVE  \E off : PartsAt(d, o, parts, N, off)
<1>1. PICK v : /\ v[1] = parts[1] /\ v[N] = Joined(parts)
               /\ \A n \in 1 .. N : v[n] \in Seq(Lexemes)
               /\ \A n \in 2 .. N : v[n] = v[n - 1] \o (<<Punct(",")>> \o parts[n])
  BY JoinedByFlat
<1>2. PICK comma : comma = Punct(",") /\ comma \in Lexemes
  BY ClosedPunct
<1>3. /\ <<comma>> \in Seq(Lexemes) /\ Len(<<comma>>) = 1 /\ <<comma>>[1] = comma
  BY <1>2, OneToken
<1>4. ASSUME NEW n \in 2 .. N
      PROVE  /\ n \in 1 .. N /\ n - 1 \in 1 .. N
             /\ <<comma>> \o parts[n] \in Seq(Lexemes)
             /\ Len(v[n - 1]) \in Nat /\ Len(parts[n]) \in Nat
             /\ Len(v[n]) = Len(v[n - 1]) + (1 + Len(parts[n]))
  <2>1. n \in 1 .. N /\ n - 1 \in 1 .. N
    OBVIOUS
  <2>2. v[n - 1] \in Seq(Lexemes) /\ parts[n] \in Seq(Lexemes)
    BY <1>1, <2>1
  <2>3. <<comma>> \o parts[n] \in Seq(Lexemes) /\ Len(<<comma>> \o parts[n]) = 1 + Len(parts[n])
    BY <1>3, <2>2, ConcatProperties
  <2>4. Len(v[n - 1] \o (<<comma>> \o parts[n])) = Len(v[n - 1]) + Len(<<comma>> \o parts[n])
    BY <2>2, <2>3, ConcatProperties
  <2> QED
    BY <1>1, <1>2, <2>1, <2>2, <2>3, <2>4, LenProperties
<1> DEFINE Lost == {j \in 0 .. N - 1 : ~ Placed(d, o, v[N - j])}
<1>5. Lost = {}
  <2> SUFFICES ASSUME Lost # {} PROVE FALSE
    OBVIOUS
  <2>1. PICK j \in Lost : \A m \in Lost : j <= m
    <3>1. Lost \subseteq Nat
      OBVIOUS
    <3> QED
      BY <3>1, LeastNat
  <2>2. j # 0
    <3>1. N - 0 = N
      OBVIOUS
    <3> QED
      BY <1>1, <2>1, <3>1
  <2>3. j - 1 \in 0 .. N - 1 /\ ~ (j <= j - 1) /\ N - (j - 1) \in 2 .. N
        /\ (N - (j - 1)) - 1 = N - j
    BY <2>1, <2>2
  <2>4. PICK n \in 2 .. N : n = N - (j - 1) /\ n - 1 = N - j
    BY <2>3
  <2>5. Placed(d, o, v[n])
    BY <2>1, <2>3, <2>4
  <2>6. v[n - 1] \in Seq(Lexemes) /\ <<comma>> \o parts[n] \in Seq(Lexemes)
    BY <1>1, <1>4
  <2>7. Placed(d, o, v[n - 1] \o (<<comma>> \o parts[n]))
    BY <1>1, <1>2, <2>5
  <2>8. Placed(d, o, v[n - 1])
    BY <2>6, <2>7, PlacedConcat
  <2> QED
    BY <2>1, <2>4, <2>8
<1>6. \A n \in 1 .. N : Placed(d, o, v[n])
  <2> SUFFICES ASSUME NEW n \in 1 .. N PROVE Placed(d, o, v[n])
    OBVIOUS
  <2>1. N - n \in 0 .. N - 1 /\ N - (N - n) = n
    OBVIOUS
  <2> QED
    BY <1>5, <2>1
<1>7. o \in Nat
  BY DEF Placed
<1> DEFINE off == [k \in 1 .. N |-> IF k = 1 THEN o ELSE o + Len(v[k - 1]) + 1]
<1>8. off \in [1 .. N -> Nat] /\ off[1] = o
  <2>1. \A k \in 1 .. N : k # 1 => k \in 2 .. N
    OBVIOUS
  <2>2. \A k \in 2 .. N : o + Len(v[k - 1]) + 1 \in Nat
    BY <1>4, <1>7
  <2> QED
    BY <1>7, <2>1, <2>2
<1>9. ASSUME NEW k \in 2 .. N
      PROVE  /\ Placed(d, off[k], parts[k]) /\ off[k] = (o + Len(v[k - 1])) + 1
             /\ d[(o + Len(v[k - 1])) + 1] = comma
  <2>1. Placed(d, o, v[k - 1] \o (<<comma>> \o parts[k]))
    BY <1>1, <1>2, <1>4, <1>6
  <2>2. v[k - 1] \in Seq(Lexemes) /\ parts[k] \in Seq(Lexemes)
    BY <1>1, <1>4
  <2>3. Placed(d, o + Len(v[k - 1]), <<comma>> \o parts[k])
    BY <1>4, <2>1, <2>2, PlacedConcat
  <2>4. /\ Placed(d, o + Len(v[k - 1]), <<comma>>)
        /\ Placed(d, (o + Len(v[k - 1])) + 1, parts[k])
    <3>1. PICK c, b : c = <<comma>> /\ b = o + Len(v[k - 1])
      OBVIOUS
    <3>2. Placed(d, b, c \o parts[k]) /\ c \in Seq(Lexemes) /\ Len(c) = 1
      BY <1>3, <2>3, <3>1
    <3>3. Placed(d, b, c) /\ Placed(d, b + Len(c), parts[k])
      BY <2>2, <3>2, PlacedConcat
    <3> QED
      BY <3>1, <3>2, <3>3
  <2>5. 1 \in 1 .. 1
    OBVIOUS
  <2>6. d[(o + Len(v[k - 1])) + 1] = comma
    BY <1>3, <2>4, <2>5 DEF Placed
  <2>7. off[k] = (o + Len(v[k - 1])) + 1
    BY <1>4
  <2> QED
    BY <2>4, <2>6, <2>7
<1>10. Placed(d, off[1], parts[1])
  <2>1. 1 \in 1 .. N
    OBVIOUS
  <2> HIDE DEF off
  <2> QED
    BY <1>1, <1>6, <1>8, <2>1
<1>11. \A k \in 1 .. N : off[k] + Len(parts[k]) = o + Len(v[k])
  <2> SUFFICES ASSUME NEW k \in 1 .. N PROVE off[k] + Len(parts[k]) = o + Len(v[k])
    OBVIOUS
  <2>1. CASE k = 1
    BY <1>1, <1>8, <2>1
  <2>2. CASE k # 1
    <3>1. k \in 2 .. N
      BY <2>2
    <3>2. PICK a \in Nat, b \in Nat : a = Len(v[k - 1]) /\ b = Len(parts[k]) /\ Len(v[k]) = a + (1 + b)
      BY <1>4, <3>1
    <3>3. off[k] = (o + a) + 1
      BY <1>9, <3>1, <3>2
    <3>4. ((o + a) + 1) + b = o + (a + (1 + b))
      <4>1. \A l, m, n \in Int : ((l + m) + 1) + n = l + (m + (1 + n))
        OBVIOUS
      <4>2. o \in Int /\ a \in Int /\ b \in Int
        BY <1>7
      <4> QED
        BY <4>1, <4>2
    <3> QED
      BY <3>2, <3>3, <3>4
  <2> QED
    BY <2>1, <2>2
<1>12. ASSUME NEW k \in 1 .. N - 1
       PROVE  /\ d[off[k] + Len(parts[k]) + 1] = comma
              /\ off[k + 1] = off[k] + Len(parts[k]) + 1
  <2>1. k + 1 \in 2 .. N /\ (k + 1) - 1 = k /\ k \in 1 .. N
    OBVIOUS
  <2>2. off[k + 1] = (o + Len(v[k])) + 1 /\ d[(o + Len(v[k])) + 1] = comma
    BY <1>9, <2>1
  <2>3. off[k] + Len(parts[k]) = o + Len(v[k])
    BY <1>11, <2>1
  <2> QED
    BY <2>2, <2>3
<1>13. \A k \in 1 .. N : Placed(d, off[k], parts[k])
  <2>1. \A k \in 1 .. N : k = 1 \/ k \in 2 .. N
    OBVIOUS
  <2> HIDE DEF off
  <2> QED
    BY <1>9, <1>10, <2>1
<1>14. off[N] + Len(parts[N]) = o + Len(Joined(parts))
  <2>1. N \in 1 .. N
    OBVIOUS
  <2> HIDE DEF off
  <2> QED
    BY <1>1, <1>11, <2>1
<1> HIDE DEF off
<1>15. PartsAt(d, o, parts, N, off)
  BY <1>2, <1>8, <1>12, <1>13, <1>14 DEF PartsAt
<1> QED
  BY <1>15

-----------------------------------------------------------------------------
Comma(t) == t.kind = ","

(* The type of the item a token makes, or begins.                          *)
TypeOf(t) ==
    CASE t.kind = "null"  -> "NULL"
      [] t.kind = "false" -> "False"
      [] t.kind = "true"  -> "True"
      [] t.kind = "num"   -> "Number"
      [] t.kind = "str"   -> "String"
      [] t.kind = "["     -> "Array"
      [] t.kind = "{"     -> "Object"
      [] OTHER            -> "none"

LEMMA PunctKinds ==
    /\ Punct("[").kind = "[" /\ Punct("]").kind = "]" /\ Punct("{").kind = "{"
    /\ Punct("}").kind = "}" /\ Punct(",").kind = "," /\ Punct(":").kind = ":"
BY DEF Punct, Token

LEMMA BracketKinds ==
    Punct("[").kind = "[" /\ Punct("]").kind = "]" /\ Punct(":").kind = ":"
BY DEF Punct, Token

LEMMA TypeOfKinds ==
    ASSUME NEW t
    PROVE  /\ t.kind = "null" => TypeOf(t) = "NULL"
           /\ t.kind = "false" => TypeOf(t) = "False"
           /\ t.kind = "true" => TypeOf(t) = "True"
           /\ t.kind = "num" => TypeOf(t) = "Number"
           /\ t.kind = "str" => TypeOf(t) = "String"
           /\ t.kind = "[" => TypeOf(t) = "Array"
           /\ t.kind = "{" => TypeOf(t) = "Object"
BY Zenon DEF TypeOf

LEMMA ClosersAre ==
    /\ Closer["Array"] = "]" /\ Closer["Object"] = "}"
    /\ Closer["Object"] \notin {",", "str", ":"}
BY Zenon DEF Closer

LEMMA ClosersTwo == Closer["Array"] = "]" /\ Closer["Object"] \notin {"str", ":"}
BY ClosersAre, Zenon

LEMMA CommaIs ==
    ASSUME NEW t
    PROVE  /\ t = Punct(",") => Comma(t)
           /\ Comma(t) => t.kind # ":"
           /\ t.kind = Closer["Object"] \/ t.kind = Closer["Array"] => ~ Comma(t)
<1>1. Punct(",").kind = ","
  BY PunctKinds, Zenon
<1> QED
  BY <1>1, ClosersAre, Zenon DEF Comma

(* The pair of braces, by what matters of it.                              *)
LEMMA BracesAre ==
    \E a, b : /\ a \in Lexemes /\ b \in Lexemes
              /\ TypeOf(a) = "Object" /\ b.kind = Closer["Object"]
              /\ \A members : Object(members) =
                    <<a>>
                    \o Joined([k \in DOMAIN members |->
                                  <<Str(members[k][1]), Punct(":")>> \o members[k][2]])
                    \o <<b>>
<1>1. Punct("{") \in Lexemes /\ Punct("}") \in Lexemes
  BY BracketsAre, Zenon
<1>2. Punct("{").kind = "{" /\ Punct("}").kind = "}"
  BY PunctKinds, Zenon
<1>3. TypeOf(Punct("{")) = "Object"
  BY <1>2, TypeOfKinds, Zenon
<1>4. Punct("}").kind = Closer["Object"]
  BY <1>2, ClosersAre, Zenon
<1> QED
  BY <1>1, <1>3, <1>4, Zenon DEF Object

-----------------------------------------------------------------------------
(* The values in a pair of brackets: where each begins and ends, and the   *)
(* commas between them.                                                    *)
Series(d, f, s, e, N) ==
    /\ s \in [1 .. N -> Nat] /\ e \in [1 .. N -> Nat]
    /\ \A k \in 1 .. N : s[k] >= 2 /\ Ends(f, s[k], e[k]) /\ f[s[k] - 1] \in Nat
    /\ \A k \in 1 .. N - 1 :
          /\ Comma(d[e[k] + 1])
          /\ s[k + 1] = IF d[s[k] - 1].kind = ":" THEN e[k] + 4 ELSE e[k] + 2
    /\ ~ Comma(d[e[N] + 1])

Around(d, o, a, s, b) ==
    /\ o \in Nat /\ d[o + 1] = a /\ Placed(d, o + 1, s)
    /\ d[((o + 1) + Len(s)) + 1] = b

LEMMA BracketsAt ==
    ASSUME NEW d, NEW o, NEW a \in Lexemes, NEW b \in Lexemes, NEW s \in Seq(Lexemes),
           Placed(d, o, <<a>> \o s \o <<b>>)
    PROVE  Around(d, o, a, s, b)
<1>1. <<a>> \in Seq(Lexemes) /\ Len(<<a>>) = 1 /\ <<a>>[1] = a
  BY OneToken
<1>2. <<b>> \in Seq(Lexemes) /\ Len(<<b>>) = 1 /\ <<b>>[1] = b
  BY OneToken
<1>3. <<a>> \o s \in Seq(Lexemes) /\ Len(<<a>> \o s) = 1 + Len(s)
  BY <1>1, ConcatProperties
<1>4. Placed(d, o, <<a>> \o s) /\ Placed(d, o + (1 + Len(s)), <<b>>)
  BY <1>2, <1>3, PlacedConcat
<1>5. Placed(d, o, <<a>>) /\ Placed(d, o + 1, s)
  BY <1>1, <1>4, PlacedConcat
<1>6. 1 \in 1 .. 1
  OBVIOUS
<1>7. d[o + 1] = a /\ o \in Nat
  BY <1>1, <1>5, <1>6 DEF Placed
<1>8. d[(o + (1 + Len(s))) + 1] = b
  BY <1>2, <1>4, <1>6 DEF Placed
<1>9. o + (1 + Len(s)) = (o + 1) + Len(s)
  <2>1. Len(s) \in Nat
    BY LenProperties
  <2> QED
    BY <1>7, <2>1
<1> QED
  BY <1>5, <1>7, <1>8, <1>9 DEF Around

LEMMA ArrayAt ==
    ASSUME NEW d, NEW f, Depths(d, f), NEW o, NEW parts, NEW N \in Nat, DOMAIN parts = 1 .. N,
           \A k \in 1 .. N : Value(parts[k]), Placed(d, o, Array(parts))
    PROVE  /\ o \in Nat /\ TypeOf(d[o + 1]) = "Array"
           /\ d[o + 2].kind = Closer["Array"] <=> N = 0
           /\ N # 0 => \E s, e : /\ Series(d, f, s, e, N) /\ s[1] = o + 2
                                 /\ \A k \in 1 .. N : Placed(d, s[k] - 1, parts[k])
<1>1. \A k \in 1 .. N : parts[k] \in Seq(Lexemes) /\ Len(parts[k]) \in Nat /\ Len(parts[k]) >= 1
                        /\ Closed(parts[k]) /\ parts[k][1].kind \notin {"]", "}"}
  BY ValueIs
<1>2. PICK J : J = Joined(parts) /\ J \in Seq(Lexemes) /\ Len(J) \in Nat
  <2>1. Closed(Joined(parts))
    BY <1>1, ClosedJoined
  <2> QED
    BY <2>1, LenProperties DEF Closed
<1>3. /\ o \in Nat /\ d[o + 1] = Punct("[") /\ Placed(d, o + 1, J)
      /\ d[((o + 1) + Len(J)) + 1] = Punct("]")
  <2>1. PICK a, b : a = Punct("[") /\ b = Punct("]") /\ a \in Lexemes /\ b \in Lexemes
    BY BracketsAre
  <2>2. Placed(d, o, <<a>> \o J \o <<b>>)
    BY <1>2, <2>1 DEF Array
  <2>3. Around(d, o, a, J, b)
    BY <1>2, <2>1, <2>2, BracketsAt, Zenon
  <2> QED
    BY <2>1, <2>3 DEF Around
<1>0. TypeOf(d[o + 1]) = "Array" /\ Closer["Array"] = "]"
  <2>1. Punct("[").kind = "["
    BY PunctKinds, Zenon
  <2>2. d[o + 1] = Punct("[")
    BY <1>3
  <2> QED
    BY <2>1, <2>2, TypeOfKinds, ClosersAre, Zenon
<1>4. CASE N = 0
  <2>1. J = <<>>
    BY <1>2, <1>4, JoinedNone
  <2>2. Len(J) = 0 /\ ((o + 1) + 0) + 1 = o + 2
    BY <1>3, <2>1
  <2> QED
    BY <1>0, <1>3, <1>4, <2>2, BracketKinds
<1>5. CASE N # 0
  <2>1. PICK off : PartsAt(d, o + 1, parts, N, off)
    BY <1>1, <1>2, <1>3, <1>5, JoinedAt
  <2>2. 1 \in 1 .. N /\ N \in 1 .. N
    BY <1>5
  <2>3. ASSUME NEW k \in 1 .. N
        PROVE  /\ off[k] \in Nat /\ off[k] >= 1 /\ Len(parts[k]) \in Nat
               /\ (off[k] + 1) - 1 = off[k] /\ Placed(d, off[k], parts[k])
               /\ Ends(f, off[k] + 1, off[k] + Len(parts[k])) /\ f[off[k]] \in Nat
    <3>1. off[k] \in Nat /\ Placed(d, off[k], parts[k])
      BY <2>1 DEF PartsAt
    <3>2. off[k] >= 1
      <4>1. CASE k = 1
        <5>1. off[1] = o + 1
          BY <2>1 DEF PartsAt
        <5> QED
          BY <1>3, <4>1, <5>1
      <4>2. CASE k # 1
        <5>1. k - 1 \in 1 .. N - 1 /\ (k - 1) + 1 = k /\ k - 1 \in 1 .. N
          BY <4>2
        <5>2. off[k] = off[k - 1] + Len(parts[k - 1]) + 1 /\ off[k - 1] \in Nat
              /\ Len(parts[k - 1]) \in Nat
          BY <1>1, <2>1, <5>1 DEF PartsAt
        <5> QED
          BY <5>2
      <4> QED
        BY <4>1, <4>2
    <3>3. Ends(f, off[k] + 1, off[k] + Len(parts[k])) /\ f[off[k]] \in Nat
      BY <3>1, ValueEnds
    <3>4. (off[k] + 1) - 1 = off[k]
      BY <3>1
    <3> QED
      BY <1>1, <3>1, <3>2, <3>3, <3>4
  <2>4. d[o + 2].kind # "]"
    <3>1. Placed(d, o + 1, parts[1])
      BY <2>1, <2>2 DEF PartsAt
    <3>2. 1 \in 1 .. Len(parts[1])
      <4>1. Len(parts[1]) \in Nat /\ Len(parts[1]) >= 1
        BY <1>1, <2>2
      <4> QED
        BY <4>1
    <3>3. d[(o + 1) + 1] = parts[1][1]
      BY <3>1, <3>2 DEF Placed
    <3>4. (o + 1) + 1 = o + 2
      BY <1>3
    <3> QED
      BY <1>1, <2>2, <3>3, <3>4
  <2> DEFINE s == [k \in 1 .. N |-> off[k] + 1]
             e == [k \in 1 .. N |-> off[k] + Len(parts[k])]
  <2>5. s \in [1 .. N -> Nat] /\ e \in [1 .. N -> Nat]
    BY <2>3
  <2>6. \A k \in 1 .. N : s[k] >= 2 /\ Ends(f, s[k], e[k]) /\ f[s[k] - 1] \in Nat
    <3> SUFFICES ASSUME NEW k \in 1 .. N
                 PROVE  s[k] >= 2 /\ Ends(f, s[k], e[k]) /\ f[s[k] - 1] \in Nat
      OBVIOUS
    <3>1. s[k] = off[k] + 1 /\ e[k] = off[k] + Len(parts[k])
      OBVIOUS
    <3>2. off[k] + 1 >= 2
      BY <2>3
    <3> HIDE DEF s, e
    <3> QED
      BY <2>3, <3>1, <3>2
  <2>7. ASSUME NEW k \in 1 .. N - 1
        PROVE  /\ Comma(d[e[k] + 1])
               /\ s[k + 1] = IF d[s[k] - 1].kind = ":" THEN e[k] + 4 ELSE e[k] + 2
    <3>1. k \in 1 .. N /\ k + 1 \in 1 .. N
      OBVIOUS
    <3>2. /\ d[off[k] + Len(parts[k]) + 1] = Punct(",")
          /\ off[k + 1] = off[k] + Len(parts[k]) + 1
      BY <2>1 DEF PartsAt
    <3>3. s[k] - 1 = off[k] /\ e[k] = off[k] + Len(parts[k]) /\ s[k + 1] = off[k + 1] + 1
      BY <2>3, <3>1
    <3>4. d[off[k]].kind # ":"
      <4>1. CASE k = 1
        <5>1. off[1] = o + 1
          BY <2>1 DEF PartsAt
        <5> QED
          BY <1>3, <4>1, <5>1, BracketKinds
      <4>2. CASE k # 1
        <5>1. k - 1 \in 1 .. N - 1 /\ (k - 1) + 1 = k
          BY <4>2
        <5>2. d[off[k]] = Punct(",")
          BY <2>1, <5>1 DEF PartsAt
        <5> QED
          BY <5>2, CommaIs, Zenon
      <4> QED
        BY <4>1, <4>2
    <3>5. s[k + 1] = e[k] + 2
      <4>1. PICK a \in Nat, b \in Nat : a = off[k] /\ b = Len(parts[k])
        BY <2>3, <3>1
      <4>2. s[k + 1] = ((a + b) + 1) + 1 /\ e[k] = a + b
        BY <3>2, <3>3, <4>1
      <4> HIDE DEF s, e
      <4> QED
        BY <4>1, <4>2
    <3> HIDE DEF s, e
    <3>6. Comma(d[off[k] + Len(parts[k]) + 1])
      BY <3>2, CommaIs, Zenon
    <3>7. Comma(d[e[k] + 1])
      BY <3>3, <3>6, Zenon
    <3> QED
      BY <3>3, <3>4, <3>5, <3>7
  <2>8. ~ Comma(d[e[N] + 1])
    <3>1. e[N] = (o + 1) + Len(J)
      BY <1>2, <2>1, <2>2 DEF PartsAt
    <3>2. Punct("]").kind = Closer["Array"]
      BY BracketKinds, ClosersTwo, Zenon
    <3>3. d[e[N] + 1].kind = Closer["Array"]
      BY <1>3, <3>1, <3>2
    <3> QED
      BY <3>3, CommaIs, Zenon
  <2>9. s[1] = o + 2
    <3>1. off[1] = o + 1
      BY <2>1 DEF PartsAt
    <3> QED
      BY <1>3, <2>2, <3>1
  <2>10. \A k \in 1 .. N : Placed(d, s[k] - 1, parts[k])
    <3>1. \A k \in 1 .. N : s[k] - 1 = off[k]
      BY <2>3
    <3> HIDE DEF s, e
    <3> QED
      BY <2>3, <3>1
  <2> HIDE DEF s, e
  <2>11. Series(d, f, s, e, N)
    BY <2>5, <2>6, <2>7, <2>8 DEF Series
  <2> QED
    BY <1>0, <1>3, <1>5, <2>4, <2>9, <2>10, <2>11
<1> QED
  BY <1>4, <1>5

(* A member in the text: its name, a colon, its value.                     *)
Member(d, f, o, name, value, A) ==
    /\ A = Len(value) /\ Len(<<Str(name), Punct(":")>> \o value) = 2 + A
    /\ o \in Nat /\ d[o + 1] = Str(name) /\ d[o + 2] = Punct(":")
    /\ Placed(d, o + 2, value)
    /\ Ends(f, o + 3, (o + 2) + A) /\ f[o + 2] \in Nat

LEMMA MemberAt ==
    ASSUME NEW d, NEW f, Depths(d, f), NEW o, NEW name \in Strings, NEW value, Value(value),
           Placed(d, o, <<Str(name), Punct(":")>> \o value)
    PROVE  \E A \in Nat : Member(d, f, o, name, value, A)
<1>1. PICK A \in Nat : A = Len(value) /\ value \in Seq(Lexemes)
  BY ValueIs
<1>2. PICK a, b : a = Str(name) /\ b = Punct(":") /\ a \in Lexemes /\ b \in Lexemes
  BY StrIs, ClosedPunct
<1>3. <<a, b>> \in Seq(Lexemes) /\ Len(<<a, b>>) = 2 /\ <<a, b>>[1] = a /\ <<a, b>>[2] = b
  BY <1>2
<1>4. Placed(d, o, <<a, b>>) /\ Placed(d, o + Len(<<a, b>>), value)
  <2>1. Placed(d, o, <<a, b>> \o value)
    BY <1>2
  <2> QED
    BY <1>1, <1>3, <2>1, PlacedConcat
<1>5. 1 \in 1 .. Len(<<a, b>>) /\ 2 \in 1 .. Len(<<a, b>>)
  BY <1>3
<1>6. o \in Nat /\ d[o + 1] = a /\ d[o + 2] = b
  BY <1>3, <1>4, <1>5 DEF Placed
<1>7. Placed(d, o + 2, value)
  BY <1>3, <1>4
<1>8. Ends(f, (o + 2) + 1, (o + 2) + A) /\ f[o + 2] \in Nat
  BY <1>1, <1>7, ValueEnds
<1>9. (o + 2) + 1 = o + 3
  BY <1>6
<1>10. Ends(f, o + 3, (o + 2) + A)
  BY <1>8, <1>9, Zenon
<1>11. Len(<<a, b>> \o value) = Len(<<a, b>>) + Len(value)
  BY <1>1, <1>3, ConcatProperties
<1>12. Len(<<a, b>> \o value) = 2 + A
  BY <1>1, <1>3, <1>11
<1> QED
  BY <1>1, <1>2, <1>6, <1>7, <1>8, <1>10, <1>12 DEF Member

(* An object in the text: its bracket, and the names and values in it.     *)
Braced(d, f, o, members, N) ==
    /\ o \in Nat /\ TypeOf(d[o + 1]) = "Object"
    /\ d[o + 2].kind = Closer["Object"] <=> N = 0
    /\ N # 0 => \E s, e : /\ Series(d, f, s, e, N) /\ s[1] = o + 4
                          /\ \A k \in 1 .. N :
                                /\ Placed(d, s[k] - 1, members[k][2])
                                /\ d[s[k] - 1].kind = ":"
                                /\ d[s[k] - 2] = Str(members[k][1])

LEMMA ObjectAt ==
    ASSUME NEW d, NEW f, Depths(d, f), NEW o, NEW members, NEW N \in Nat,
           DOMAIN members = 1 .. N,
           \A k \in 1 .. N : members[k][1] \in Strings /\ Value(members[k][2]),
           Placed(d, o, Object(members))
    PROVE  Braced(d, f, o, members, N)
<1> SUFFICES
           /\ o \in Nat /\ TypeOf(d[o + 1]) = "Object"
           /\ d[o + 2].kind = Closer["Object"] <=> N = 0
           /\ N # 0 => \E s, e : /\ Series(d, f, s, e, N) /\ s[1] = o + 4
                                 /\ \A k \in 1 .. N :
                                       /\ Placed(d, s[k] - 1, members[k][2])
                                       /\ d[s[k] - 1].kind = ":"
                                       /\ d[s[k] - 2] = Str(members[k][1])
  BY DEF Braced
<1> DEFINE parts == [k \in 1 .. N |-> <<Str(members[k][1]), Punct(":")>> \o members[k][2]]
<1>0. parts = [k \in DOMAIN members |-> <<Str(members[k][1]), Punct(":")>> \o members[k][2]]
      /\ DOMAIN parts = 1 .. N
      /\ \A k \in 1 .. N : parts[k] = <<Str(members[k][1]), Punct(":")>> \o members[k][2]
  OBVIOUS
<1> HIDE DEF parts
<1>1. \A k \in 1 .. N : parts[k] \in Seq(Lexemes) /\ Closed(parts[k])
  <2> SUFFICES ASSUME NEW k \in 1 .. N PROVE Closed(parts[k])
    BY DEF Closed
  <2>1. Closed(members[k][2])
    BY ValueIs
  <2>2. Closed(<<Str(members[k][1]), Punct(":")>> \o members[k][2])
    BY <2>1, ClosedMember
  <2> QED
    BY <1>0, <2>2
<1>2. PICK J : J = Joined(parts) /\ J \in Seq(Lexemes) /\ Len(J) \in Nat
  <2>1. Closed(Joined(parts))
    BY <1>0, <1>1, ClosedJoined
  <2> QED
    BY <2>1, LenProperties DEF Closed
<1>3. /\ o \in Nat /\ TypeOf(d[o + 1]) = "Object" /\ Placed(d, o + 1, J)
      /\ d[((o + 1) + Len(J)) + 1].kind = Closer["Object"]
  <2>1. PICK a, b : /\ a \in Lexemes /\ b \in Lexemes
                    /\ TypeOf(a) = "Object" /\ b.kind = Closer["Object"]
                    /\ \A m : Object(m) =
                          <<a>>
                          \o Joined([k \in DOMAIN m |-> <<Str(m[k][1]), Punct(":")>> \o m[k][2]])
                          \o <<b>>
    BY BracesAre, Zenon
  <2>2. Placed(d, o, <<a>> \o J \o <<b>>)
    BY <1>0, <1>2, <2>1
  <2>3. Around(d, o, a, J, b)
    BY <1>2, <2>1, <2>2, BracketsAt, Zenon
  <2> QED
    BY <2>1, <2>3 DEF Around
<1>4. CASE N = 0
  <2>1. J = <<>>
    BY <1>0, <1>2, <1>4, JoinedNone
  <2>2. Len(J) = 0 /\ ((o + 1) + 0) + 1 = o + 2
    BY <1>3, <2>1
  <2> QED
    BY <1>3, <1>4, <2>2
<1>5. CASE N # 0
  <2>1. PICK off : PartsAt(d, o + 1, parts, N, off)
    BY <1>0, <1>1, <1>2, <1>3, <1>5, JoinedAt
  <2>2. 1 \in 1 .. N /\ N \in 1 .. N
    BY <1>5
  <2>3. ASSUME NEW k \in 1 .. N
        PROVE  \E A \in Nat : /\ Len(parts[k]) = 2 + A /\ off[k] \in Nat
                              /\ d[off[k] + 1] = Str(members[k][1])
                              /\ d[off[k] + 2] = Punct(":")
                              /\ Placed(d, off[k] + 2, members[k][2])
                              /\ Ends(f, off[k] + 3, (off[k] + 2) + A) /\ f[off[k] + 2] \in Nat
    <3>1. Placed(d, off[k], <<Str(members[k][1]), Punct(":")>> \o members[k][2])
      BY <1>0, <2>1 DEF PartsAt
    <3>2. members[k][1] \in Strings /\ Value(members[k][2])
      OBVIOUS
    <3>3. PICK A \in Nat : Member(d, f, off[k], members[k][1], members[k][2], A)
      BY <3>1, <3>2, MemberAt, Zenon
    <3>4. Len(parts[k]) = 2 + A
      BY <1>0, <3>3 DEF Member
    <3> QED
      BY <3>3, <3>4 DEF Member
  <2>4. d[o + 2].kind # Closer["Object"]
    <3>1. d[off[1] + 1] = Str(members[1][1]) /\ off[1] = o + 1
      BY <2>1, <2>2, <2>3 DEF PartsAt
    <3>2. (o + 1) + 1 = o + 2
      BY <1>3
    <3>3. d[o + 2] = Str(members[1][1])
      BY <3>1, <3>2
    <3>4. Str(members[1][1]).kind = "str"
      BY DEF Str, Token
    <3> QED
      BY <3>3, <3>4, ClosersTwo
  <2> DEFINE s == [k \in 1 .. N |-> off[k] + 3]
             e == [k \in 1 .. N |-> off[k] + Len(parts[k])]
  <2>5. ASSUME NEW k \in 1 .. N
        PROVE  /\ s[k] \in Nat /\ e[k] \in Nat /\ s[k] >= 2
               /\ s[k] = off[k] + 3 /\ e[k] = off[k] + Len(parts[k])
               /\ s[k] - 1 = off[k] + 2 /\ s[k] - 2 = off[k] + 1
               /\ Ends(f, s[k], e[k]) /\ f[s[k] - 1] \in Nat
               /\ d[s[k] - 1] = Punct(":") /\ d[s[k] - 2] = Str(members[k][1])
               /\ Placed(d, s[k] - 1, members[k][2])
    <3>1. PICK A \in Nat : /\ Len(parts[k]) = 2 + A /\ off[k] \in Nat
                           /\ d[off[k] + 1] = Str(members[k][1])
                           /\ d[off[k] + 2] = Punct(":")
                           /\ Placed(d, off[k] + 2, members[k][2])
                           /\ Ends(f, off[k] + 3, (off[k] + 2) + A) /\ f[off[k] + 2] \in Nat
      BY <2>3
    <3>2. s[k] = off[k] + 3 /\ e[k] = off[k] + Len(parts[k])
      OBVIOUS
    <3> HIDE DEF s, e
    <3>3. PICK a \in Nat : a = off[k]
      BY <3>1
    <3>4. a + (2 + A) = (a + 2) + A
      <4>1. \A l, m \in Nat : l + (2 + m) = (l + 2) + m
        OBVIOUS
      <4> QED
        BY <4>1
    <3>5. e[k] = (off[k] + 2) + A
      BY <3>1, <3>2, <3>3, <3>4
    <3>6. s[k] - 1 = off[k] + 2 /\ s[k] - 2 = off[k] + 1 /\ s[k] \in Nat /\ s[k] >= 2
      <4>1. \A l \in Nat : (l + 3) - 1 = l + 2 /\ (l + 3) - 2 = l + 1 /\ l + 3 \in Nat /\ l + 3 >= 2
        OBVIOUS
      <4> QED
        BY <3>2, <3>3, <4>1
    <3>7. Ends(f, s[k], e[k])
      BY <3>1, <3>2, <3>5, Zenon
    <3>8. e[k] \in Nat
      BY <3>7 DEF Ends
    <3> QED
      BY <3>1, <3>2, <3>6, <3>7, <3>8
  <2>6. s \in [1 .. N -> Nat] /\ e \in [1 .. N -> Nat]
    BY <2>5
  <2>7. ASSUME NEW k \in 1 .. N - 1
        PROVE  /\ Comma(d[e[k] + 1])
               /\ s[k + 1] = IF d[s[k] - 1].kind = ":" THEN e[k] + 4 ELSE e[k] + 2
    <3>1. k \in 1 .. N /\ k + 1 \in 1 .. N
      OBVIOUS
    <3>2. /\ d[off[k] + Len(parts[k]) + 1] = Punct(",")
          /\ off[k + 1] = off[k] + Len(parts[k]) + 1
      BY <2>1 DEF PartsAt
    <3> HIDE DEF s, e
    <3>3. PICK n \in Nat : n = e[k] /\ n = off[k] + Len(parts[k]) /\ s[k + 1] = off[k + 1] + 3
      BY <2>5, <3>1
    <3>4. s[k + 1] = (n + 1) + 3
      BY <3>2, <3>3
    <3>5. (n + 1) + 3 = n + 4
      BY <3>3
    <3>6. Comma(d[off[k] + Len(parts[k]) + 1])
      BY <3>2, CommaIs, Zenon
    <3>7. Comma(d[e[k] + 1])
      BY <3>3, <3>6, Zenon
    <3> QED
      BY <2>5, <3>1, <3>3, <3>4, <3>5, <3>7, BracketKinds
  <2>8. ~ Comma(d[e[N] + 1])
    <3>1. e[N] = (o + 1) + Len(J)
      BY <1>2, <2>1, <2>2 DEF PartsAt
    <3>2. d[e[N] + 1].kind = Closer["Object"]
      BY <1>3, <3>1
    <3> QED
      BY <3>2, CommaIs, Zenon
  <2>9. s[1] = o + 4
    <3>1. off[1] = o + 1
      BY <2>1 DEF PartsAt
    <3> QED
      BY <1>3, <2>2, <3>1
  <2> HIDE DEF s, e
  <2>10. Series(d, f, s, e, N)
    BY <2>5, <2>6, <2>7, <2>8 DEF Series
  <2> QED
    BY <1>3, <1>5, <2>4, <2>5, <2>9, <2>10, BracketKinds
<1> QED
  BY <1>4, <1>5

=============================================================================
