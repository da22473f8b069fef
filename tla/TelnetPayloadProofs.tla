------------------------- MODULE TelnetPayloadProofs -------------------------
(***************************************************************************)
(* What the subnegotiation parsers make of a payload, of any length over   *)
(* any alphabet: the loops of _environ_telnet, _mssp_telnet, _zmp_telnet   *)
(* and _ttype_telnet, some of which write in the very buffer they read,    *)
(* give what a reading of the payload by its marks gives (SubIsMeant), but *)
(* for the two kinds of payload that Excepted names.                       *)
(***************************************************************************)
EXTENDS TelnetExchange, LoopLemmas, SequenceTheorems, FiniteSetTheorems
LOCAL INSTANCE SequencesExt

-----------------------------------------------------------------------------
(* Sequences and their concatenation under names that can be left folded:  *)
(* where only the laws of concatenation count.                             *)
Str(A) == Seq(A)
Cat(x, y) == x \o y

LEMMA CatIn == \A A : \A x, y \in Str(A) : Cat(x, y) \in Str(A)
  BY ConcatProperties DEF Str, Cat

LEMMA CatAssoc == \A A : \A x, y, z \in Str(A) : Cat(Cat(x, y), z) = Cat(x, Cat(y, z))
  BY ConcatAssociative DEF Str, Cat

LEMMA CatCancel == \A A : \A x, y, z \in Str(A) : Cat(x, y) = Cat(x, z) => y = z
  BY ConcatSimplifications DEF Str, Cat

-----------------------------------------------------------------------------
(* The concatenation of a list of sequences.                               *)
LEMMA FlattenIs ==
    ASSUME NEW n \in Nat, n # 0, NEW seqs, Len(seqs) = n
    PROVE  \E f : /\ f = [k \in 1..n |-> IF k = 1 THEN seqs[k] ELSE f[k - 1] \o seqs[k]]
                  /\ FlattenSeq(seqs) = f[n]
  <1> DEFINE Is(f, m) == f = [k \in 1..m |-> IF k = 1 THEN seqs[k] ELSE f[k - 1] \o seqs[k]]
             S == {m \in Nat : \E f : Is(f, m)}
  <1>1. 0 \in S
    <2>1. Is([k \in 1..0 |-> 0], 0)
      OBVIOUS
    <2> QED
      BY <2>1
  <1>2. ASSUME NEW m \in Nat, m \in S PROVE m + 1 \in S
    <2>1. PICK f : Is(f, m)
      BY <1>2
    <2> DEFINE g == [k \in 1..m + 1 |-> IF k <= m THEN f[k]
                                        ELSE IF k = 1 THEN seqs[k] ELSE f[m] \o seqs[k]]
    <2>2. ASSUME NEW k \in 1..m + 1
          PROVE  g[k] = IF k = 1 THEN seqs[k] ELSE g[k - 1] \o seqs[k]
      <3>1. CASE k = 1
        <4>1. CASE m = 0
          BY <3>1, <4>1
        <4>2. CASE m # 0
          <5>1. k \in 1..m /\ k <= m /\ f[k] = seqs[k]
            BY <2>1, <3>1, <4>2
          <5> QED
            BY <3>1, <5>1
        <4> QED
          BY <4>1, <4>2
      <3>2. CASE k # 1 /\ k <= m
        <4>1. k \in 1..m /\ k - 1 \in 1..m + 1 /\ k - 1 <= m
          BY <3>2
        <4>2. f[k] = f[k - 1] \o seqs[k]
          BY <2>1, <3>2, <4>1
        <4> QED
          BY <3>2, <4>1, <4>2
      <3>3. CASE k # 1 /\ k = m + 1
        <4>1. k - 1 = m /\ m \in 1..m + 1 /\ ~(k <= m) /\ m <= m
          BY <3>3
        <4> QED
          BY <3>3, <4>1
      <3> QED
        BY <3>1, <3>2, <3>3
    <2>3. Is(g, m + 1)
      <3>1. g = [k \in 1..m + 1 |-> g[k]]
        OBVIOUS
      <3> HIDE DEF g
      <3> QED
        BY <2>2, <3>1
    <2> HIDE DEF g, Is
    <2> QED
      BY <2>3
  <1>3. n \in S
    <2> HIDE DEF S
    <2> QED
      BY <1>1, <1>2, Induction
  <1> DEFINE c == CHOOSE f : Is(f, n)
  <1>4. Is(c, n)
    <2>1. \E f : Is(f, n)
      BY <1>3
    <2> HIDE DEF Is
    <2> QED
      BY <2>1
  <1>5. FlattenSeq(seqs) = c[n]
    BY DEF FlattenSeq
  <1> HIDE DEF c
  <1> QED
    BY <1>4, <1>5


(* Its prefixes, piece by piece. *)
Lists(A) == Seq(Seq(A))
Pieces(A, seqs, n, f) ==
    /\ f \in [0..n -> Seq(A)]
    /\ f[0] = <<>> /\ FlattenSeq(seqs) = f[n]
    /\ \A k \in 1..n : f[k] = f[k - 1] \o seqs[k]

LEMMA FlattenTo ==
    ASSUME NEW A, NEW seqs \in Lists(A), NEW n \in Nat, n = Len(seqs)
    PROVE  \E f : Pieces(A, seqs, n, f)
  <1>0. /\ n \in Nat /\ <<>> \in Seq(A) /\ \A k \in 1..n : seqs[k] \in Seq(A)
        /\ n = 0 => seqs = <<>>
    BY LenProperties, EmptySeq, ElementOfSeq DEF Lists
  <1>1. CASE n = 0
    <2>1. FlattenSeq(seqs) = <<>>
      BY <1>0, <1>1 DEF FlattenSeq
    <2> DEFINE f == [k \in 0..n |-> <<>>]
    <2>2. f \in [0..n -> Seq(A)] /\ f[0] = <<>> /\ f[n] = <<>>
      BY <1>0
    <2> HIDE DEF f
    <2>3. Pieces(A, seqs, n, f)
      BY <1>1, <2>1, <2>2 DEF Pieces
    <2> QED
      BY <2>3
  <1>2. CASE n # 0
    <2>1. PICK g : /\ g = [k \in 1..n |-> IF k = 1 THEN seqs[k] ELSE g[k - 1] \o seqs[k]]
                   /\ FlattenSeq(seqs) = g[n]
      BY <1>0, <1>2, FlattenIs
    <2>2. \A k \in 1..n : g[k] = IF k = 1 THEN seqs[k] ELSE g[k - 1] \o seqs[k]
      BY <2>1
    <2> DEFINE f == [k \in 0..n |-> IF k = 0 THEN <<>> ELSE g[k]]
    <2>3. f[0] = <<>> /\ f[n] = g[n] /\ DOMAIN f = 0..n /\ f = [k \in 0..n |-> f[k]]
          /\ \A k \in 1..n : f[k] = g[k]
      BY <1>0, <1>2
    <2> DEFINE S == {k \in 0..n : f[k] \in Seq(A)}
    <2> HIDE DEF f
    <2>4. ASSUME NEW k \in 1..n PROVE f[k] = f[k - 1] \o seqs[k]
      <3>1. CASE k = 1
        <4>1. f[k] = seqs[k] /\ f[k - 1] = <<>>
          BY <2>2, <2>3, <3>1
        <4>2. seqs[k] \in Seq(A)
          BY <1>0
        <4> QED
          BY <4>1, <4>2, ConcatEmptySeq
      <3>2. CASE k # 1
        <4>1. k - 1 \in 1..n
          BY <3>2
        <4>2. f[k] = g[k] /\ f[k - 1] = g[k - 1]
          BY <2>3, <4>1
        <4> QED
          BY <2>2, <3>2, <4>2
      <3> QED
        BY <3>1, <3>2
    <2>5. 0 \in S
      BY <1>0, <2>3
    <2>6. ASSUME NEW k \in 1..n, k - 1 \in S PROVE k \in S
      <3>1. f[k - 1] \in Seq(A) /\ seqs[k] \in Seq(A) /\ k \in 0..n
        BY <1>0, <2>6
      <3>2. f[k - 1] \o seqs[k] \in Seq(A)
        BY <3>1, ConcatProperties
      <3> QED
        BY <2>4, <3>1, <3>2
    <2>7. 0..n \subseteq S
      <3> HIDE DEF S
      <3> QED
        BY <1>0, <2>5, <2>6, InductionUpTo
    <2>8. f \in [0..n -> Seq(A)]
      BY <2>3, <2>7
    <2>9. Pieces(A, seqs, n, f)
      BY <2>1, <2>3, <2>4, <2>8 DEF Pieces
    <2> QED
      BY <2>9
  <1> QED
    BY <1>1, <1>2

(* Two lists side by side: what holds of two empty sequences and is kept   *)
(* by each pair of pieces holds of the two concatenations.                 *)
LEMMA FlattenPairs ==
    ASSUME NEW A, NEW B, NEW ws \in Lists(A), NEW xs \in Lists(B),
           NEW n \in Nat, n = Len(ws), n = Len(xs),
           NEW Z, <<<<>>, <<>>>> \in Z,
           \A k \in 1..n : \A w \in Seq(A), x \in Seq(B) :
               <<w, x>> \in Z => <<w \o ws[k], x \o xs[k]>> \in Z
    PROVE  <<FlattenSeq(ws), FlattenSeq(xs)>> \in Z /\ FlattenSeq(ws) \in Seq(A)
  <1>1. PICK f : Pieces(A, ws, n, f)
    BY FlattenTo
  <1>2. PICK g : Pieces(B, xs, n, g)
    BY FlattenTo
  <1> DEFINE S == {k \in 0..n : <<f[k], g[k]>> \in Z}
  <1>3. 0 \in 0..n /\ n \in 0..n
    OBVIOUS
  <1>4. 0 \in S
    BY <1>1, <1>2, <1>3 DEF Pieces
  <1>5. ASSUME NEW k \in 1..n, k - 1 \in S PROVE k \in S
    <2>1. k - 1 \in 0..n /\ k \in 0..n
      OBVIOUS
    <2>2. f[k - 1] \in Seq(A) /\ g[k - 1] \in Seq(B)
      BY <1>1, <1>2, <2>1 DEF Pieces
    <2>3. <<f[k - 1] \o ws[k], g[k - 1] \o xs[k]>> \in Z
      BY <1>5, <2>2
    <2> QED
      BY <1>1, <1>2, <2>1, <2>3 DEF Pieces
  <1>6. 0..n \subseteq S
    <2> HIDE DEF S
    <2> QED
      BY <1>4, <1>5, InductionUpTo
  <1> QED
    BY <1>1, <1>2, <1>3, <1>6 DEF Pieces

LEMMA IsList ==
    ASSUME NEW A, NEW n \in Nat, NEW ws, DOMAIN ws = 1..n, ws = [k \in 1..n |-> ws[k]],
           \A k \in 1..n : ws[k] \in Seq(A)
    PROVE  ws \in Lists(A) /\ Len(ws) = n
  <1>1. ws \in [1..n -> Seq(A)]
    OBVIOUS
  <1>2. ws \in Lists(A)
    BY <1>1, SeqDef DEF Lists
  <1>3. DOMAIN ws = 1..Len(ws) /\ Len(ws) \in Nat
    BY <1>2, LenProperties DEF Lists
  <1> QED
    BY <1>2, <1>3

LEMMA ListLen ==
    ASSUME NEW A, NEW ws \in Lists(A)
    PROVE  /\ Len(ws) \in Nat /\ \A k \in 1..Len(ws) : ws[k] \in Seq(A)
           /\ DOMAIN ws = 1..Len(ws) /\ ws = [k \in 1..Len(ws) |-> ws[k]]
  BY LenProperties, ElementOfSeq DEF Lists

LEMMA FlattenIn ==
    ASSUME NEW A, NEW ws \in Lists(A)
    PROVE  FlattenSeq(ws) \in Seq(A)
  <1> DEFINE n == Len(ws)
  <1>1. n \in Nat
    BY ListLen
  <1> HIDE DEF n
  <1>2. PICK f : Pieces(A, ws, n, f)
    BY <1>1, FlattenTo DEF n
  <1> QED
    BY <1>1, <1>2 DEF Pieces

LEMMA FlattenNone == FlattenSeq(<<>>) = <<>>
  BY EmptySeq DEF FlattenSeq

LEMMA FlattenOne ==
    ASSUME NEW A, NEW w \in Seq(A)
    PROVE  FlattenSeq(<<w>>) = w
  <1>1. <<w>> \in Lists(A) /\ Len(<<w>>) = 1 /\ <<w>>[1] = w
    BY DEF Lists
  <1>2. PICK f : Pieces(A, <<w>>, 1, f)
    BY <1>1, FlattenTo
  <1>3. 1 \in 1..1 /\ 1 - 1 = 0
    OBVIOUS
  <1>4. f[1] = <<>> \o w
    BY <1>1, <1>2, <1>3 DEF Pieces
  <1> QED
    BY <1>2, <1>4, ConcatEmptySeq DEF Pieces

LEMMA ListConcat ==
    ASSUME NEW A, NEW u \in Lists(A), NEW v \in Lists(A)
    PROVE  /\ u \o v \in Lists(A) /\ Len(u \o v) = Len(u) + Len(v)
           /\ \A k \in 1..Len(u) + Len(v) : (u \o v)[k] = IF k <= Len(u) THEN u[k] ELSE v[k - Len(u)]
  BY ConcatProperties DEF Lists

(* The list of the two together. *)
LEMMA FlattenConcat ==
    ASSUME NEW A, NEW ws \in Lists(A), NEW xs \in Lists(A)
    PROVE  /\ ws \o xs \in Lists(A)
           /\ FlattenSeq(ws \o xs) = FlattenSeq(ws) \o FlattenSeq(xs)
  <1> DEFINE m == Len(ws)
             n == Len(xs)
             all == ws \o xs
  <1>1. /\ m \in Nat /\ n \in Nat /\ all \in Lists(A) /\ m + n = Len(all)
        /\ \A k \in 1..m + n : all[k] = IF k <= m THEN ws[k] ELSE xs[k - m]
    BY ListConcat, ListLen
  <1>0. \A k \in 1..n : xs[k] \in Seq(A)
    BY ListLen
  <1> HIDE DEF m, n, all
  <1>2. PICK f : Pieces(A, ws, m, f)
    BY <1>1, FlattenTo DEF m
  <1>3. PICK g : Pieces(A, xs, n, g)
    BY <1>1, FlattenTo DEF n
  <1>4. PICK h : Pieces(A, all, m + n, h)
    BY <1>1, FlattenTo
  <1> DEFINE S == {k \in 0..m : h[k] = f[k]}
             T == {k \in 0..n : h[m + k] = f[m] \o g[k]}
  <1>5. 0 \in S
    BY <1>1, <1>2, <1>4 DEF Pieces
  <1>6. ASSUME NEW k \in 1..m, k - 1 \in S PROVE k \in S
    <2>1. k \in 0..m /\ k \in 1..m + n /\ k <= m
      BY <1>1
    <2>2. h[k] = h[k - 1] \o all[k] /\ f[k] = f[k - 1] \o ws[k] /\ all[k] = ws[k]
      BY <1>1, <1>2, <1>4, <2>1 DEF Pieces
    <2> QED
      BY <1>6, <2>1, <2>2
  <1>7. 0..m \subseteq S
    <2> HIDE DEF S
    <2> QED
      BY <1>1, <1>5, <1>6, InductionUpTo
  <1>8. h[m] = f[m] /\ f[m] \in Seq(A)
    BY <1>1, <1>2, <1>7 DEF Pieces
  <1>9. 0 \in T
    <2>1. g[0] = <<>> /\ m + 0 = m
      BY <1>1, <1>3 DEF Pieces
    <2>2. h[m + 0] = f[m] \o g[0]
      BY <1>8, <2>1, ConcatEmptySeq
    <2>3. 0 \in 0..n
      BY <1>1
    <2> QED
      BY <2>2, <2>3
  <1>10. ASSUME NEW k \in 1..n, k - 1 \in T PROVE k \in T
    <2>1. k \in 0..n /\ k - 1 \in 0..n /\ m + k \in 1..m + n /\ ~(m + k <= m)
          /\ (m + k) - m = k /\ (m + k) - 1 = m + (k - 1)
      BY <1>1
    <2>2. h[m + k] = h[m + (k - 1)] \o xs[k]
      BY <1>1, <1>4, <2>1 DEF Pieces
    <2>3. g[k] = g[k - 1] \o xs[k] /\ g[k - 1] \in Seq(A) /\ xs[k] \in Seq(A)
      BY <1>0, <1>3, <2>1 DEF Pieces
    <2>4. h[m + (k - 1)] = f[m] \o g[k - 1]
      BY <1>10
    <2> DEFINE u == f[m]
               v == g[k - 1]
               w == xs[k]
    <2>5. (u \o v) \o w = u \o (v \o w)
      <3>1. u \in Seq(A) /\ v \in Seq(A) /\ w \in Seq(A)
        BY <1>8, <2>3
      <3> HIDE DEF u, v, w
      <3> QED
        BY <3>1, ConcatAssociative
    <2>6. h[m + k] = f[m] \o g[k]
      BY <2>2, <2>3, <2>4, <2>5
    <2> QED
      BY <2>1, <2>6
  <1>11. 0..n \subseteq T
    <2> HIDE DEF T
    <2> QED
      BY <1>1, <1>9, <1>10, InductionUpTo
  <1>12. h[m + n] = f[m] \o g[n]
    <2>1. n \in 0..n
      BY <1>1
    <2> QED
      BY <1>11, <2>1
  <1> QED
    BY <1>1, <1>2, <1>3, <1>4, <1>12 DEF Pieces, all

(* Pieces of one element each. *)
LEMMA FlattenOnes ==
    ASSUME NEW A, NEW s \in Seq(A), NEW ws, ws = [k \in DOMAIN s |-> <<s[k]>>]
    PROVE  ws \in Lists(A) /\ FlattenSeq(ws) = s
  <1> DEFINE n == Len(s)
  <1>1. n \in Nat /\ DOMAIN s = 1..n
    BY LenProperties
  <1>2. \A k \in 1..n : s[k] \in A
    BY ElementOfSeq
  <1> HIDE DEF n
  <1>3. /\ DOMAIN ws = 1..n /\ ws = [k \in 1..n |-> ws[k]]
        /\ \A k \in 1..n : ws[k] = <<s[k]>> /\ ws[k] \in Seq(A)
    BY <1>1, <1>2
  <1>4. ws \in Lists(A) /\ Len(ws) = n
    BY <1>1, <1>3, IsList
  <1>5. PICK f : Pieces(A, ws, n, f)
    BY <1>1, <1>4, FlattenTo
  <1> DEFINE S == {k \in 0..n : f[k] = SubSeq(s, 1, k)}
  <1>6. 0 \in S
    BY <1>1, <1>5, SubSeqEmpty DEF Pieces
  <1>7. ASSUME NEW k \in 1..n, k - 1 \in S PROVE k \in S
    <2>1. k \in 0..n /\ 1 \in 1..n /\ k \in 1..n
      BY <1>1
    <2>2. SubSeq(s, 1, k) = SubSeq(s, 1, k - 1) \o <<s[k]>>
      BY <2>1, SubSeqRecursiveSecond DEF n
    <2>3. f[k] = f[k - 1] \o <<s[k]>>
      BY <1>3, <1>5 DEF Pieces
    <2> QED
      BY <1>7, <2>1, <2>2, <2>3
  <1>8. 0..n \subseteq S
    <2> HIDE DEF S
    <2> QED
      BY <1>1, <1>6, <1>7, InductionUpTo
  <1>9. f[n] = SubSeq(s, 1, n)
    BY <1>1, <1>8
  <1> QED
    BY <1>4, <1>5, <1>9, SubSeqFull DEF Pieces, n

-----------------------------------------------------------------------------
(* The next mark, the elements at some places, and what C sees.            *)
LEMMA MinIs ==
    ASSUME NEW S, S \subseteq Nat, S # {}
    PROVE  Min(S) \in S /\ \A y \in S : Min(S) <= y
  <1>1. \E x \in S : \A y \in S : x <= y
    BY LeastIs
  <1> QED
    BY <1>1 DEF Min

LEMMA MaxIs ==
    ASSUME NEW n \in Nat, NEW S, S \subseteq 0..n, S # {}
    PROVE  Max(S) \in S /\ \A y \in S : y <= Max(S)
  <1>1. \E x \in S : \A y \in S : x >= y
    BY GreatestIs
  <1> QED
    BY <1>1 DEF Max

LEMMA FollowingIs ==
    ASSUME NEW p, NEW n \in Nat, n = Len(p), NEW marks, marks \subseteq 1..n, NEW k \in 0..n,
           NEW f, f = Following(marks, k, p)
    PROVE  /\ f \in Nat /\ k < f /\ f <= n + 1
           /\ f <= n => f \in marks
           /\ \A l \in k + 1..f - 1 : l \notin marks
  <1> DEFINE S == {l \in marks : l > k} \cup {n + 1}
  <1>1. f = Min(S)
    BY DEF Following
  <1>2. f \in S /\ \A y \in S : f <= y
    <2>1. ASSUME NEW l \in S PROVE l \in Nat
      OBVIOUS
    <2>2. n + 1 \in S
      OBVIOUS
    <2> HIDE DEF S
    <2>3. S # {}
      BY <2>2
    <2> QED
      BY <1>1, <2>1, <2>3, MinIs
  <1>3. f \in k + 1..n + 1 /\ (f <= n => f \in marks)
    BY <1>2
  <1>4. ASSUME NEW l \in k + 1..f - 1, l \in marks PROVE FALSE
    BY <1>2, <1>3, <1>4
  <1> QED
    BY <1>3, <1>4

LEMMA FunctionIsSeq ==
    ASSUME NEW A, NEW n \in Nat, NEW s \in [1..n -> A]
    PROVE  s \in Seq(A) /\ Len(s) = n
  <1>1. s \in Seq(A)
    BY SeqDef
  <1>2. DOMAIN s = 1..Len(s) /\ Len(s) \in Nat
    BY <1>1, LenProperties
  <1> QED
    BY <1>1, <1>2

(* Picking, element by element. *)
Picks(A, s, P, n, f) ==
    /\ f \in [0..n -> Seq(A)]
    /\ f[0] = <<>> /\ Picked(s, P) = f[n]
    /\ \A k \in 1..n : f[k] = IF k \in P THEN Append(f[k - 1], s[k]) ELSE f[k - 1]

LEMMA PickedTo ==
    ASSUME NEW A, NEW s \in Seq(A), NEW P, NEW n \in Nat, n = Len(s)
    PROVE  \E f : Picks(A, s, P, n, f)
  <1> DEFINE ws == [k \in DOMAIN s |-> IF k \in P THEN <<s[k]>> ELSE <<>>]
  <1>1. DOMAIN s = 1..n /\ \A k \in 1..n : s[k] \in A
    BY LenProperties, ElementOfSeq
  <1>2. /\ DOMAIN ws = 1..n /\ ws = [k \in 1..n |-> ws[k]]
        /\ \A k \in 1..n : ws[k] = (IF k \in P THEN <<s[k]>> ELSE <<>>) /\ ws[k] \in Seq(A)
    BY <1>1
  <1>3. FlattenSeq(ws) = Picked(s, P)
    BY DEF Picked
  <1> HIDE DEF ws
  <1>4. ws \in Lists(A) /\ Len(ws) = n
    BY <1>2, IsList
  <1>5. PICK f : Pieces(A, ws, n, f)
    BY <1>4, FlattenTo
  <1>6. ASSUME NEW k \in 1..n
        PROVE  f[k] = IF k \in P THEN Append(f[k - 1], s[k]) ELSE f[k - 1]
    <2>1. k - 1 \in 0..n
      OBVIOUS
    <2>2. f[k] = f[k - 1] \o ws[k] /\ f[k - 1] \in Seq(A)
      BY <1>5, <2>1 DEF Pieces
    <2>3. CASE k \in P
      <3>1. f[k - 1] \o <<s[k]>> = Append(f[k - 1], s[k])
        BY <1>1, <2>2, AppendIsConcat
      <3> QED
        BY <1>2, <2>2, <2>3, <3>1
    <2>4. CASE k \notin P
      BY <1>2, <2>2, <2>4, ConcatEmptySeq
    <2> QED
      BY <2>3, <2>4
  <1>7. Picks(A, s, P, n, f)
    BY <1>3, <1>5, <1>6 DEF Picks, Pieces
  <1> QED
    BY <1>7
Gap(P, n, a, b) == n \in Nat /\ a \in 0..n /\ b \in a..n /\ \A k \in a + 1..b : k \notin P

LEMMA PicksStay ==
    ASSUME NEW A, NEW s, NEW P, NEW n, NEW f, Picks(A, s, P, n, f), NEW a, NEW b, Gap(P, n, a, b)
    PROVE  f[b] = f[a]
  <1>0. n \in Nat /\ a \in 0..n /\ b \in a..n /\ \A k \in a + 1..b : k \notin P
    BY DEF Gap
  <1> DEFINE S == {d \in 0..b - a : f[a + d] = f[a]}
  <1>1. b - a \in Nat /\ a + (b - a) = b /\ a + 0 = a
    BY <1>0
  <1>2. 0 \in S
    BY <1>0, <1>1
  <1>3. ASSUME NEW d \in 1..b - a, d - 1 \in S PROVE d \in S
    <2>1. /\ a + d \in 1..n /\ a + d \in a + 1..b /\ (a + d) - 1 = a + (d - 1) /\ d \in 0..b - a
      BY <1>0, <1>1
    <2>2. f[a + d] = f[a + (d - 1)]
      BY <1>0, <2>1 DEF Picks
    <2> QED
      BY <1>3, <2>1, <2>2
  <1>4. 0..b - a \subseteq S
    <2> HIDE DEF S
    <2> QED
      BY <1>1, <1>2, <1>3, InductionUpTo
  <1> QED
    BY <1>0, <1>1, <1>4

LEMMA PicksGrow ==
    ASSUME NEW A, NEW s \in Seq(A), NEW P, NEW n \in Nat, n = Len(s), NEW f, Picks(A, s, P, n, f),
           NEW a \in 0..n
    PROVE  Len(f[a]) \in Nat /\ Len(f[n]) \in Nat /\ Len(f[a]) <= Len(f[n])
  <1> DEFINE L(k) == Len(f[k])
             S == {d \in 0..n - a : L(a) <= L(a + d)}
  <1>1. n - a \in Nat /\ a + (n - a) = n /\ a + 0 = a /\ 0 \in 0..n - a /\ n - a \in 0..n - a
        /\ n \in 0..n
    OBVIOUS
  <1>2. ASSUME NEW k \in 0..n PROVE L(k) \in Nat
    <2>1. f[k] \in Seq(A)
      BY DEF Picks
    <2> QED
      BY <2>1, LenProperties
  <1>3. ASSUME NEW k \in 1..n PROVE L(k) = L(k - 1) \/ L(k) = L(k - 1) + 1
    <2>1. k - 1 \in 0..n
      OBVIOUS
    <2>2. s[k] \in A /\ f[k - 1] \in Seq(A)
      BY <2>1, ElementOfSeq DEF Picks
    <2>3. Len(Append(f[k - 1], s[k])) = Len(f[k - 1]) + 1
      BY <2>2, AppendProperties
    <2>4. f[k] = IF k \in P THEN Append(f[k - 1], s[k]) ELSE f[k - 1]
      BY DEF Picks
    <2> QED
      BY <2>3, <2>4
  <1> HIDE DEF L
  <1>4. 0 \in S
    BY <1>1, <1>2
  <1>5. ASSUME NEW d \in 1..n - a, d - 1 \in S PROVE d \in S
    <2>1. a + d \in 1..n /\ a + d \in 0..n /\ a + d - 1 \in 0..n /\ a + d - 1 = a + (d - 1)
          /\ d \in 0..n - a
      BY <1>1
    <2>2. L(a + d) \in Nat /\ L(a + (d - 1)) \in Nat /\ L(a) \in Nat
      BY <1>2, <2>1
    <2>3. L(a + d) = L(a + (d - 1)) \/ L(a + d) = L(a + (d - 1)) + 1
      BY <1>3, <2>1
    <2> QED
      BY <1>5, <2>1, <2>2, <2>3
  <1>6. 0..n - a \subseteq S
    <2> HIDE DEF S
    <2> QED
      BY <1>1, <1>4, <1>5, InductionUpTo
  <1>7. L(a) <= L(n) /\ L(a) \in Nat /\ L(n) \in Nat
    BY <1>1, <1>2, <1>6
  <1> QED
    BY <1>7 DEF L

(* Nothing is picked before the places. *)
LEMMA PicksBefore ==
    ASSUME NEW A, NEW s, NEW P, NEW n \in Nat, NEW f, Picks(A, s, P, n, f),
           NEW a \in 0..n, \A k \in P : a < k
    PROVE  f[a] = <<>>
  <1>1. Gap(P, n, 0, a)
    BY DEF Gap
  <1>2. f[a] = f[0]
    BY <1>1, PicksStay
  <1> QED
    BY <1>2 DEF Picks

(* A string of C. *)
LEMMA UpToNulIs ==
    ASSUME NEW x \in Seq(Bytes)
    PROVE  \E e \in 1..Len(x) + 1 :
               /\ UpToNul(x) = SubSeq(x, 1, e - 1)
               /\ e <= Len(x) => x[e] = "NUL"
               /\ \A k \in 1..e - 1 : x[k] # "NUL"
  <1> DEFINE S == {k \in DOMAIN x : x[k] = "NUL"} \cup {Len(x) + 1}
             e == Min(S)
  <1>1. Len(x) \in Nat /\ DOMAIN x = 1..Len(x)
    BY LenProperties
  <1>2. e \in S /\ \A y \in S : e <= y
    <2>1. ASSUME NEW l \in S PROVE l \in Nat
      BY <1>1
    <2>2. Len(x) + 1 \in S
      OBVIOUS
    <2> HIDE DEF S
    <2>3. S # {}
      BY <2>2
    <2> QED
      BY <2>1, <2>3, MinIs
  <1>3. UpToNul(x) = SubSeq(x, 1, e - 1)
    BY DEF UpToNul
  <1> HIDE DEF e
  <1>4. e \in 1..Len(x) + 1 /\ (e <= Len(x) => x[e] = "NUL")
    BY <1>1, <1>2
  <1>5. ASSUME NEW k \in 1..e - 1 PROVE x[k] # "NUL"
    BY <1>1, <1>2, <1>4
  <1> QED
    BY <1>3, <1>4, <1>5

(* The string x stands at q, its terminator at e. *)
StringAt(m, q, e, x) ==
    /\ x \in Seq(Bytes) /\ q \in Nat \ {0} /\ e = q + Len(x)
    /\ m[e] = "NUL" /\ \A j \in 1..Len(x) : m[(q + j) - 1] = x[j]

LEMMA CStringIs ==
    ASSUME NEW m \in Seq(Bytes), NEW q, NEW x, NEW e \in 1..Len(m), StringAt(m, q, e, x)
    PROVE  CString(m, q) = UpToNul(x)
  <1>0. /\ Len(x) \in Nat /\ Len(m) \in Nat /\ DOMAIN x = 1..Len(x) /\ DOMAIN m = 1..Len(m)
        /\ q \in Nat \ {0} /\ e = q + Len(x) /\ x \in Seq(Bytes)
        /\ m[e] = "NUL" /\ \A j \in 1..Len(x) : m[(q + j) - 1] = x[j]
    BY LenProperties DEF StringAt
  <1>1. PICK u \in 1..Len(x) + 1 :
               /\ UpToNul(x) = SubSeq(x, 1, u - 1)
               /\ u <= Len(x) => x[u] = "NUL"
               /\ \A k \in 1..u - 1 : x[k] # "NUL"
    BY <1>0, UpToNulIs
  <1> DEFINE v == (q + u) - 1
  <1>2. v \in q..e /\ v \in q..Len(m) /\ u \in Nat
    BY <1>0
  <1>3. m[v] = "NUL"
    <2>1. CASE u <= Len(x)
      BY <1>0, <1>1, <2>1
    <2>2. CASE u = Len(x) + 1
      <3>1. v = e
        BY <1>0, <2>2
      <3> QED
        BY <1>0, <3>1
    <2> QED
      BY <1>0, <1>2, <2>1, <2>2
  <1>4. ASSUME NEW l \in q..v - 1 PROVE m[l] # "NUL"
    <2> DEFINE j == (l - q) + 1
    <2>1. j \in 1..Len(x) /\ j \in 1..u - 1 /\ (q + j) - 1 = l
      BY <1>0, <1>2
    <2> QED
      BY <1>0, <1>1, <2>1
  <1> DEFINE Ends(k) == m[k] = "NUL" /\ \A l \in q..k - 1 : m[l] # "NUL"
             w == CHOOSE k \in q..Len(m) : Ends(k)
  <1>5. w \in q..Len(m) /\ Ends(w)
    <2>1. Ends(v)
      BY <1>3, <1>4
    <2> HIDE DEF Ends, v
    <2> QED
      BY <1>2, <2>1
  <1>6. CString(m, q) = SubSeq(m, q, w - 1)
    BY DEF CString
  <1> HIDE DEF w
  <1>7. w = v
    <2>1. CASE w < v
      <3>1. w \in q..v - 1
        BY <1>0, <1>2, <1>5, <2>1
      <3> QED
        BY <1>4, <1>5, <3>1
    <2>2. CASE v < w
      <3>1. v \in q..w - 1
        BY <1>0, <1>2, <1>5, <2>2
      <3> QED
        BY <1>3, <1>5, <3>1
    <2> QED
      BY <1>0, <1>2, <1>5, <2>1, <2>2
  <1>8. SubSeq(m, q, v - 1) = SubSeq(x, 1, u - 1)
    <2> DEFINE s == SubSeq(m, q, v - 1)
               t == SubSeq(x, 1, u - 1)
    <2>1. /\ q \in Int /\ v - 1 \in Int /\ u - 1 \in Nat /\ 1 \in Int
          /\ ((v - 1) - q) + 1 = u - 1 /\ ((u - 1) - 1) + 1 = u - 1
          /\ u - 1 = (IF q <= v - 1 THEN ((v - 1) - q) + 1 ELSE 0)
          /\ u - 1 = (IF 1 <= u - 1 THEN ((u - 1) - 1) + 1 ELSE 0)
          /\ \A ix \in q..v - 1 : ix \in 1..Len(m)
          /\ \A ix \in 1..u - 1 : ix \in 1..Len(x) /\ (1 + ix) - 1 = ix
      BY <1>0, <1>2
    <2>2. \A ix \in q..v - 1 : m[ix] \in Bytes
      BY <2>1, ElementOfSeq
    <2>3. \A ix \in 1..u - 1 : x[ix] \in Bytes
      BY <1>0, <2>1, ElementOfSeq
    <2>4. s \in Seq(Bytes) /\ Len(s) = u - 1 /\ \A j \in 1..u - 1 : s[j] = m[(q + j) - 1]
      BY <2>1, <2>2, SubSeqProperties
    <2>5. t \in Seq(Bytes) /\ Len(t) = u - 1 /\ \A j \in 1..u - 1 : t[j] = x[(1 + j) - 1]
      BY <2>1, <2>3, SubSeqProperties
    <2>6. \A j \in 1..u - 1 : s[j] = t[j]
      BY <1>0, <2>1, <2>4, <2>5
    <2> HIDE DEF s, t, v
    <2>7. s = t
      BY <2>4, <2>5, <2>6, SeqEqual
    <2> QED
      BY <2>7 DEF s, t
  <1> QED
    BY <1>1, <1>6, <1>7, <1>8

-----------------------------------------------------------------------------
(* A byte is escaped if the one before it is an ESC that is not.           *)
LEMMA EscapedNext ==
    ASSUME NEW p \in Seq(Bytes), NEW n \in Nat, n = Len(p)
    PROVE  /\ Escaped(p) \subseteq 3..n
           /\ \A k \in 2..n - 1 : k + 1 \in Escaped(p) <=> p[k] = ENVIRON_ESC /\ k \notin Escaped(p)
  <1> DEFINE Others(k) == {1} \cup {l \in 2..k - 1 : p[l] # ENVIRON_ESC}
             M(k) == Max(Others(k))
  <1>1. ASSUME NEW k \in 2..n PROVE M(k) \in Others(k) /\ \A y \in Others(k) : y <= M(k)
    <2>1. k \in Nat /\ Others(k) \subseteq 0..k
      OBVIOUS
    <2>2. 1 \in Others(k)
      OBVIOUS
    <2> HIDE DEF Others
    <2>3. Others(k) # {}
      BY <2>2
    <2> QED
      BY <2>1, <2>3, MaxIs
  <1>2. \A k \in 2..n : k \in Escaped(p) <=> (k - M(k)) % 2 = 0
    BY DEF Escaped
  <1> HIDE DEF M
  <1>3. 2 \notin Escaped(p)
    <2>1. CASE n < 2
      BY <2>1 DEF Escaped
    <2>2. CASE ~(n < 2)
      <3>1. 2 \in 2..n
        BY <2>2
      <3>2. M(2) = 1
        BY <1>1, <3>1
      <3> QED
        BY <1>2, <3>1, <3>2
    <2> QED
      BY <2>1, <2>2
  <1>4. ASSUME NEW k \in 2..n - 1
        PROVE  k + 1 \in Escaped(p) <=> p[k] = ENVIRON_ESC /\ k \notin Escaped(p)
    <2>1. k \in 2..n /\ k + 1 \in 2..n /\ (k + 1) - 1 = k
      OBVIOUS
    <2>2. M(k) \in 1..k - 1 /\ M(k + 1) \in 1..k
      BY <1>1, <2>1
    <2>3. CASE p[k] = ENVIRON_ESC
      <3>1. Others(k + 1) = Others(k)
        BY <2>1, <2>3
      <3>2. M(k + 1) = M(k)
        BY <3>1 DEF M
      <3>3. \A a \in Nat : \A b \in 1..a : ((a + 1) - b) % 2 = 0 <=> ~((a - b) % 2 = 0)
        OBVIOUS
      <3> QED
        BY <1>2, <2>1, <2>2, <2>3, <3>2, <3>3
    <2>4. CASE p[k] # ENVIRON_ESC
      <3>1. k \in Others(k + 1)
        BY <2>1, <2>4
      <3>2. M(k + 1) = k
        BY <1>1, <2>1, <2>2, <3>1
      <3>3. (k + 1) - k = 1 /\ 1 % 2 = 1
        OBVIOUS
      <3> QED
        BY <1>2, <2>1, <2>4, <3>2, <3>3
    <2> QED
      BY <2>3, <2>4
  <1>5. Escaped(p) \subseteq 2..n
    BY DEF Escaped
  <1> QED
    BY <1>3, <1>4, <1>5

-----------------------------------------------------------------------------
(* Moving a string (Move).  From a to b the payload p has no marker but    *)
(* escaped ones; X are the places of the escaped bytes, K those of the     *)
(* bytes that are kept.                                                    *)
Span(p, n, markers, X, K, a, b) ==
    /\ a \in 1..n + 1 /\ b \in a..n + 1
    /\ a \notin X /\ b \notin X /\ (b <= n => p[b] \in markers)
    /\ \A k \in a..b - 1 : k \notin X =>
           /\ p[k] \notin markers
           /\ IF p[k] = ENVIRON_ESC
              THEN k + 1 <= n /\ k + 1 \in X /\ k + 2 \notin X /\ k \notin K /\ k + 1 \in K
              ELSE k + 1 \notin X /\ k \in K

(* The memory when c is the next byte to be read: behind it p is still     *)
(* there, before `from' the old memory, and x between.                     *)
Shifted(m, old, p, n, c, from, out, x) ==
    /\ m \in Seq(Bytes) /\ Len(m) = n /\ x \in Seq(Bytes)
    /\ out = from + Len(x) /\ from \in 1..n /\ out < c
    /\ \A k \in c..n : m[k] = p[k]
    /\ \A k \in 1..from - 1 : m[k] = old[k]
    /\ \A j \in 1..Len(x) : m[(from + j) - 1] = x[j]

LEMMA MovedOn ==
    ASSUME NEW m, NEW old, NEW p \in Seq(Bytes), NEW n \in Nat, n = Len(p),
           NEW c \in 1..n, NEW from, NEW out, NEW x, Shifted(m, old, p, n, c, from, out, x),
           NEW l \in c..n
    PROVE  Shifted([m EXCEPT ![out] = m[l]], old, p, n, l + 1, from, out + 1, Append(x, p[l]))
  <1> DEFINE w == [m EXCEPT ![out] = m[l]]
             y == Append(x, p[l])
  <1>1. /\ m \in Seq(Bytes) /\ Len(m) = n /\ x \in Seq(Bytes) /\ Len(x) \in Nat
        /\ out = from + Len(x) /\ from \in 1..n /\ out < c
        /\ \A k \in c..n : m[k] = p[k]
        /\ \A k \in 1..from - 1 : m[k] = old[k]
        /\ \A j \in 1..Len(x) : m[(from + j) - 1] = x[j]
    BY LenProperties DEF Shifted
  <1>2. m[l] = p[l] /\ p[l] \in Bytes /\ DOMAIN m = 1..n
    BY <1>1, ElementOfSeq, LenProperties
  <1>3. w \in Seq(Bytes) /\ Len(w) = n
    BY <1>1, <1>2, ExceptSeq
  <1>4. /\ y \in Seq(Bytes) /\ Len(y) = Len(x) + 1
        /\ \A j \in 1..Len(x) : y[j] = x[j]
        /\ y[Len(x) + 1] = p[l]
    BY <1>1, <1>2, AppendProperties
  <1>5. \A k \in 1..n : w[k] = IF k = out THEN p[l] ELSE m[k]
    BY <1>2
  <1> HIDE DEF w, y
  <1>6. out + 1 = from + Len(y) /\ out + 1 < l + 1
    BY <1>1, <1>4
  <1>7. \A k \in l + 1..n : w[k] = p[k]
    BY <1>1, <1>5
  <1>8. \A k \in 1..from - 1 : w[k] = old[k]
    BY <1>1, <1>5
  <1>9. ASSUME NEW j \in 1..Len(y) PROVE w[(from + j) - 1] = y[j]
    <2>1. (from + j) - 1 \in 1..n
      BY <1>1, <1>4
    <2>2. CASE j = Len(x) + 1
      BY <1>1, <1>4, <1>5, <2>1, <2>2
    <2>3. CASE j \in 1..Len(x)
      <3>1. (from + j) - 1 # out
        BY <1>1, <2>3
      <3> QED
        BY <1>1, <1>4, <1>5, <2>1, <2>3, <3>1
    <2> QED
      BY <1>1, <1>4, <2>2, <2>3
  <1>10. Shifted(w, old, p, n, l + 1, from, out + 1, y)
    BY <1>1, <1>3, <1>4, <1>6, <1>7, <1>8, <1>9 DEF Shifted
  <1> QED
    BY <1>10 DEF w, y

(* What one turn of Move does. *)
MoveTurn(markers) ==
    [t \in Place |->
        IF t.c > Len(t.mem) \/ t.mem[t.c] \in markers
        THEN t
        ELSE LET from == IF t.mem[t.c] = ENVIRON_ESC THEN t.c + 1 ELSE t.c
             IN  [mem |-> [t.mem EXCEPT ![t.out] = t.mem[from]],
                  c |-> from + 1, out |-> t.out + 1]]

LEMMA MoveLoop == \A s, markers : Move(s, markers) = Loop(MoveTurn(markers), s, Len(s.mem))
  BY DEF Move, MoveTurn

LEMMA MoveIs ==
    ASSUME NEW s \in Place, NEW p \in Seq(Bytes), NEW n \in Nat, n = Len(p), Len(s.mem) = n,
           NEW markers, NEW X, NEW K, NEW b, Span(p, n, markers, X, K, s.c, b),
           s.out \in 1..n, s.out < s.c, \A k \in s.c..n : s.mem[k] = p[k]
    PROVE  LET m == Move(s, markers)
           IN  /\ m \in Place /\ m.c = b
               /\ Shifted(m.mem, s.mem, p, n, b, s.out, m.out, Picked(p, K \cap s.c..b - 1))
  <1> DEFINE a == s.c
             P == K \cap a..b - 1
             turn == MoveTurn(markers)
  <1>1. PICK f : Picks(Bytes, p, P, n, f)
    BY PickedTo
  <1>2. a \in 1..n + 1 /\ b \in a..n + 1 /\ b \notin X /\ a \notin X /\ (b <= n => p[b] \in markers)
    BY DEF Span
  <1>3. f[a - 1] = <<>> /\ f[b - 1] = Picked(p, P)
    <2> DEFINE y == a - 1
               z == b - 1
    <2>1. y \in 0..n /\ z \in 0..n /\ n \in Nat
      BY <1>2
    <2>4. \A k \in P : y < k
      BY <1>2
    <2>5. \A k \in P : k <= z
      BY <1>2
    <2> HIDE DEF P, a, y, z
    <2>2. f[y] = <<>>
      BY ONLY <1>1, <2>1, <2>4, PicksBefore
    <2>3. f[z] = Picked(p, P)
      <3>1. Gap(P, n, z, n)
        BY <2>1, <2>5 DEF Gap
      <3>2. f[n] = f[z]
        BY ONLY <1>1, <3>1, PicksStay
      <3>3. Picked(p, P) = f[n]
        BY <1>1 DEF Picks
      <3> QED
        BY <3>2, <3>3
    <2> QED
      BY <2>2, <2>3 DEF y, z
  <1> DEFINE Good(t) == t.c \in a..b /\ t.c \notin X
                        /\ Shifted(t.mem, s.mem, p, n, t.c, s.out, t.out, f[t.c - 1])
             Y == [k \in 0..n |-> {t \in Place : Good(t) /\ (t.c >= a + k \/ t.c = b)}]
  <1>4. Y[0] = {t \in Place : Good(t) /\ (t.c >= a + 0 \/ t.c = b)}
        /\ Y[n] = {t \in Place : Good(t) /\ (t.c >= a + n \/ t.c = b)}
        /\ \A k \in 1..n : /\ Y[k] = {t \in Place : Good(t) /\ (t.c >= a + k \/ t.c = b)}
                           /\ Y[k - 1] = {t \in Place : Good(t) /\ (t.c >= a + (k - 1) \/ t.c = b)}
    OBVIOUS
  <1> HIDE DEF Y
  <1>5. s \in Y[0]
    <2>1. s.mem \in Seq(Bytes) /\ a \in Nat /\ s.out \in Nat
      BY DEF Place
    <2>2. Shifted(s.mem, s.mem, p, n, a, s.out, s.out, <<>>)
      BY <2>1 DEF Shifted
    <2>3. Good(s) /\ s.c >= a + 0
      BY <1>2, <1>3, <2>1, <2>2
    <2> HIDE DEF Good
    <2> QED
      BY <1>4, <2>3
  <1>6. ASSUME NEW t \in Place, Good(t), NEW k \in 1..n, t.c >= a + (k - 1) \/ t.c = b
        PROVE  turn[t] \in Place /\ Good(turn[t]) /\ (turn[t].c >= a + k \/ turn[t].c = b)
    <2>1. /\ t.c \in a..b /\ t.c \notin X /\ t.mem \in Seq(Bytes) /\ Len(t.mem) = n
          /\ \A l \in t.c..n : t.mem[l] = p[l]
          /\ t.out \in Nat
      BY <1>6 DEF Shifted, Place
    <2>2. CASE t.c = b
      <3>1. t.c > Len(t.mem) \/ t.mem[t.c] \in markers
        BY <1>2, <2>1, <2>2
      <3>2. turn[t] = t
        BY <3>1 DEF MoveTurn
      <3> HIDE DEF turn
      <3> QED
        BY <1>6, <2>2, <3>2
    <2>3. CASE t.c # b
      <3> DEFINE c == t.c
                 from == IF p[c] = ENVIRON_ESC THEN c + 1 ELSE c
                 u == [mem |-> [t.mem EXCEPT ![t.out] = t.mem[from]], c |-> from + 1, out |-> t.out + 1]
      <3>1. c \in a..b - 1 /\ c \in 1..n
        BY <1>2, <2>1, <2>3
      <3>2. /\ p[c] \notin markers /\ from \in c..n /\ from + 1 <= b /\ from + 1 \notin X
            /\ f[from] = Append(f[c - 1], p[from])
        <4>1. c \notin X
          BY <2>1
        <4>2. \A q \in 1..n : f[q] = IF q \in P THEN Append(f[q - 1], p[q]) ELSE f[q - 1]
          BY <1>1 DEF Picks
        <4> HIDE DEF c, a, P
        <4>3. /\ p[c] \notin markers
              /\ IF p[c] = ENVIRON_ESC
                 THEN c + 1 <= n /\ c + 1 \in X /\ c + 2 \notin X /\ c \notin K /\ c + 1 \in K
                 ELSE c + 1 \notin X /\ c \in K
          BY <3>1, <4>1 DEF Span, a
        <4>4. CASE p[c] = ENVIRON_ESC
          <5>1. c + 1 # b
            BY <1>2, <4>3, <4>4
          <5>2. c + 1 \in 1..n /\ c + 1 \in a..b - 1 /\ (c + 1) - 1 = c /\ (c + 1) + 1 = c + 2
            BY <1>2, <3>1, <4>3, <4>4, <5>1
          <5>3. c \notin P /\ c + 1 \in P
            BY <4>3, <4>4, <5>2 DEF P
          <5>4. f[c + 1] = Append(f[c - 1], p[c + 1])
            BY <3>1, <4>2, <5>2, <5>3
          <5>5. from = c + 1
            BY <4>4
          <5>6. p[c] \notin markers /\ from \in c..n /\ from + 1 <= b
            BY <1>2, <3>1, <4>3, <5>2, <5>5
          <5>7. from + 1 \notin X
            BY <4>3, <4>4, <5>2, <5>5
          <5> HIDE DEF from
          <5> QED
            BY <5>4, <5>5, <5>6, <5>7
        <4>5. CASE p[c] # ENVIRON_ESC
          <5>1. c \in P
            BY <3>1, <4>3, <4>5 DEF P
          <5>2. f[c] = Append(f[c - 1], p[c])
            BY <3>1, <4>2, <5>1
          <5>3. from = c /\ from \in c..n /\ from + 1 <= b
            BY <1>2, <3>1, <4>5
          <5> HIDE DEF from
          <5> QED
            BY <4>3, <4>5, <5>2, <5>3
        <4> QED
          BY <4>4, <4>5
      <3>3. t.mem[c] = p[c] /\ ~(c > Len(t.mem))
        BY <2>1, <3>1
      <3>4. turn[t] = u
        BY <3>2, <3>3 DEF MoveTurn
      <3> HIDE DEF from, turn
      <3>5. Shifted(u.mem, s.mem, p, n, from + 1, s.out, t.out + 1, Append(f[c - 1], p[from]))
        BY <1>6, <3>1, <3>2, MovedOn
      <3>6. (from + 1) - 1 = from /\ from + 1 \in a..b /\ from + 1 \in Nat /\ t.out + 1 \in Nat
        <4>1. a \in 1..n + 1 /\ b \in a..n + 1 /\ n \in Nat /\ t.out \in Nat
          BY <1>2, <2>1
        <4> HIDE DEF a, c
        <4> QED
          BY ONLY <3>1, <3>2, <4>1
      <3>7. u.c = from + 1 /\ u.out = t.out + 1 /\ u \in Place
        BY <3>5, <3>6 DEF Place, Shifted
      <3>8. Good(u)
        BY <3>2, <3>5, <3>6, <3>7
      <3>9. u.c >= a + k
        BY <1>2, <1>6, <2>3, <3>1, <3>2, <3>7
      <3> HIDE DEF Good, u
      <3> QED
        BY <3>4, <3>7, <3>8, <3>9
    <2> QED
      BY <2>2, <2>3
  <1> HIDE DEF turn, Good
  <1>7. \A k \in 1..n : \A t \in Y[k - 1] : turn[t] \in Y[k]
    <2> TAKE k \in 1..n
    <2> TAKE t \in Y[k - 1]
    <2>1. t \in Place /\ Good(t) /\ (t.c >= a + (k - 1) \/ t.c = b)
      BY <1>4
    <2>2. turn[t] \in Place /\ Good(turn[t]) /\ (turn[t].c >= a + k \/ turn[t].c = b)
      BY <1>6, <2>1
    <2> QED
      BY <1>4, <2>2
  <1>8. Loop(turn, s, n) \in Y[n]
    BY <1>5, <1>7, LoopKeeps
  <1> DEFINE m == Move(s, markers)
  <1>9. m \in Y[n]
    BY <1>8, MoveLoop DEF turn
  <1> HIDE DEF m
  <1>10. m \in Place /\ Good(m) /\ (m.c >= a + n \/ m.c = b)
    BY <1>4, <1>9
  <1>11. m.c = b
    BY <1>2, <1>10 DEF Good
  <1>12. Shifted(m.mem, s.mem, p, n, b, s.out, m.out, Picked(p, P))
    BY <1>3, <1>10, <1>11 DEF Good
  <1> QED
    BY <1>10, <1>11, <1>12 DEF m

(* The string has been moved to `from', and what is read next is at c. *)
Stored(r, old, p, n, c, from, x) ==
    /\ r \in Place /\ r.c = c /\ Len(r.mem) = n
    /\ r.out \in 2..c /\ from < r.out /\ StringAt(r.mem, from, r.out - 1, x)
    /\ \A k \in c..n : r.mem[k] = p[k]
    /\ \A k \in 1..from - 1 : r.mem[k] = old[k]

LEMMA MoveStringIs ==
    ASSUME NEW s \in Place, NEW p \in Seq(Bytes), NEW n \in Nat, n = Len(p), Len(s.mem) = n,
           NEW markers, NEW X, NEW K, NEW b, Span(p, n, markers, X, K, s.c, b),
           s.out \in 1..n, s.out < s.c, \A k \in s.c..n : s.mem[k] = p[k]
    PROVE  Stored(MoveString(s, markers), s.mem, p, n, b, s.out, Picked(p, K \cap s.c..b - 1))
  <1> DEFINE m == Move(s, markers)
             x == Picked(p, K \cap s.c..b - 1)
             r == [m EXCEPT !.mem[m.out] = "NUL", !.out = m.out + 1]
             old == s.mem
             from == s.out
  <1>1. m \in Place /\ m.c = b /\ Shifted(m.mem, old, p, n, b, from, m.out, x)
    BY MoveIs
  <1>2. b \in 1..n + 1
    BY DEF Span
  <1>3. MoveString(s, markers) = r
    BY DEF MoveString
  <1> HIDE DEF m, x
  <1>4. /\ m.mem \in Seq(Bytes) /\ Len(m.mem) = n /\ x \in Seq(Bytes) /\ Len(x) \in Nat
        /\ m.out = from + Len(x) /\ from \in 1..n /\ m.out < b /\ m.out \in Nat
    BY <1>1, LenProperties DEF Shifted, Place
  <1>5. /\ \A k \in b..n : m.mem[k] = p[k]
        /\ \A k \in 1..from - 1 : m.mem[k] = old[k]
        /\ \A j \in 1..Len(x) : m.mem[(from + j) - 1] = x[j]
    BY <1>1 DEF Shifted
  <1> HIDE DEF old, from
  <1> DEFINE w == [m.mem EXCEPT ![m.out] = "NUL"]
  <1>6. m.out \in 1..n /\ "NUL" \in Bytes
    BY <1>2, <1>4, BytesAssumption
  <1>7. /\ w \in Seq(Bytes) /\ Len(w) = n
        /\ \A k \in 1..n : w[k] = IF k = m.out THEN "NUL" ELSE m.mem[k]
    BY <1>4, <1>6, ExceptSeq
  <1>8. r = [mem |-> w, c |-> b, out |-> m.out + 1]
    <2>1. m = [mem |-> m.mem, c |-> b, out |-> m.out]
      BY <1>1 DEF Place
    <2>2. r = [[m EXCEPT !.mem = w] EXCEPT !.out = m.out + 1]
      BY Zenon
    <2> HIDE DEF w, r
    <2> DEFINE o == m.out
               u == m.mem
    <2>3. m = [mem |-> u, c |-> b, out |-> o] /\ r = [[m EXCEPT !.mem = w] EXCEPT !.out = o + 1]
      BY <2>1, <2>2
    <2>4. r = [mem |-> w, c |-> b, out |-> o + 1]
      <3> HIDE DEF u, o
      <3> QED
        BY ONLY <2>3
    <2> QED
      BY <2>4
  <1> HIDE DEF w, r
  <1>9. r.mem = w /\ r.c = b /\ r.out = m.out + 1
    BY <1>8
  <1>10. r \in Place
    BY <1>2, <1>4, <1>7, <1>8 DEF Place
  <1>11. StringAt(w, from, m.out, x)
    <2>1. w[m.out] = "NUL"
      BY <1>6, <1>7
    <2>2. ASSUME NEW j \in 1..Len(x) PROVE w[(from + j) - 1] = x[j]
      <3>1. (from + j) - 1 \in 1..n /\ (from + j) - 1 # m.out
        BY <1>4, <1>6
      <3> QED
        BY <1>5, <1>7, <3>1
    <2> QED
      BY <1>4, <2>1, <2>2 DEF StringAt
  <1>12. \A k \in b..n : w[k] = p[k]
    BY <1>2, <1>4, <1>5, <1>6, <1>7
  <1>13. \A k \in 1..from - 1 : w[k] = old[k]
    BY <1>4, <1>5, <1>6, <1>7
  <1>14. (m.out + 1) - 1 = m.out /\ m.out + 1 \in 2..b /\ from < m.out + 1
    BY <1>2, <1>4, <1>6
  <1>15. Stored(r, old, p, n, b, from, x)
    BY <1>7, <1>9, <1>10, <1>11, <1>12, <1>13, <1>14 DEF Stored
  <1> QED
    BY <1>3, <1>15 DEF r, old, from, x

(* Below out the string w is kept at q: what is written later does not     *)
(* touch it.                                                               *)
Kept(m, out, q, w) ==
    \E x, z : StringAt(m, q, z, x) /\ z \in 1..out - 1 /\ UpToNul(x) = w

LEMMA KeptOn ==
    ASSUME NEW m, NEW out \in Nat, NEW q, NEW w, Kept(m, out, q, w),
           NEW r, NEW later \in Nat, out <= later, \A k \in 1..out - 1 : r[k] = m[k]
    PROVE  Kept(r, later, q, w)
  <1>1. PICK x, z : StringAt(m, q, z, x) /\ z \in 1..out - 1 /\ UpToNul(x) = w
    BY DEF Kept
  <1>2. /\ x \in Seq(Bytes) /\ Len(x) \in Nat /\ q \in Nat \ {0} /\ z = q + Len(x)
        /\ m[z] = "NUL" /\ \A j \in 1..Len(x) : m[(q + j) - 1] = x[j]
    BY <1>1, LenProperties DEF StringAt
  <1>3. r[z] = "NUL"
    BY <1>1, <1>2
  <1>4. ASSUME NEW j \in 1..Len(x) PROVE r[(q + j) - 1] = x[j]
    <2>1. (q + j) - 1 \in 1..out - 1
      BY <1>1, <1>2
    <2> QED
      BY <1>2, <2>1
  <1>5. StringAt(r, q, z, x)
    BY <1>2, <1>3, <1>4 DEF StringAt
  <1>6. z \in 1..later - 1
    BY <1>1
  <1> QED
    BY <1>1, <1>5, <1>6 DEF Kept

LEMMA KeptIs ==
    ASSUME NEW m \in Seq(Bytes), NEW out \in 1..Len(m) + 1, NEW q, NEW w, Kept(m, out, q, w)
    PROVE  CString(m, q) = w
  <1>1. PICK x, z : StringAt(m, q, z, x) /\ z \in 1..out - 1 /\ UpToNul(x) = w
    BY DEF Kept
  <1>2. z \in 1..Len(m)
    BY <1>1, LenProperties
  <1> QED
    BY <1>1, <1>2, CStringIs

LEMMA StoredIsKept ==
    ASSUME NEW r, NEW old, NEW p, NEW n \in Nat, NEW c \in Nat, NEW from, NEW x,
           Stored(r, old, p, n, c, from, x)
    PROVE  Kept(r.mem, r.out, from, UpToNul(x))
  <1>1. StringAt(r.mem, from, r.out - 1, x) /\ r.out \in 2..c
    BY DEF Stored
  <1>2. r.out - 1 \in 1..r.out - 1
    BY <1>1
  <1> QED
    BY <1>1, <1>2 DEF Kept

-----------------------------------------------------------------------------
(* ENVIRON: between two marks there is none but escaped ones.              *)
KeptBytes(p) == {k \in 1..Len(p) : p[k] # ENVIRON_ESC \/ k \in Escaped(p)}

LEMMA LiteralIs ==
    ASSUME NEW p \in Seq(Bytes), NEW n \in Nat, n = Len(p), NEW a \in 1..n + 2, NEW b \in 0..n + 1
    PROVE  Literal(p, a..b - 1) = UpToNul(Picked(p, KeptBytes(p) \cap a..b - 1))
  <1>1. {k \in a..b - 1 : p[k] # ENVIRON_ESC \/ k \in Escaped(p)} = KeptBytes(p) \cap a..b - 1
    BY DEF KeptBytes
  <1> QED
    BY <1>1 DEF Literal

LEMMA EnvironSpan ==
    ASSUME NEW p \in Seq(Bytes), NEW n \in Nat, n = Len(p), p[n] # ENVIRON_ESC,
           NEW codes, ENVIRON_ESC \notin codes,
           NEW k \in 2..n, p[k] # ENVIRON_ESC,
           NEW b, b = Following(Marks(p, codes), k, p)
    PROVE  /\ Span(p, n, codes, Escaped(p), KeptBytes(p), k + 1, b) /\ b \in k + 1..n + 1
           /\ b <= n => b \in Marks(p, codes)
           /\ \A l \in k + 1..b - 1 : l \notin Marks(p, codes)
  <1> DEFINE X == Escaped(p)
             marks == Marks(p, codes)
             K == KeptBytes(p)
  <1>1. /\ X \subseteq 3..n
        /\ \A l \in 2..n - 1 : l + 1 \in X <=> p[l] = ENVIRON_ESC /\ l \notin X
    BY EscapedNext
  <1>2. /\ b \in k + 1..n + 1
        /\ b <= n => b \in marks
        /\ \A l \in k + 1..b - 1 : l \notin marks
    <2>1. marks \subseteq 1..n /\ k \in 0..n
      BY DEF Marks
    <2>2. b = Following(marks, k, p)
      OBVIOUS
    <2> HIDE DEF marks
    <2>3. b \in Nat /\ k < b /\ b <= n + 1
      BY <2>1, <2>2, FollowingIs
    <2>4. b <= n => b \in marks
      BY <2>1, <2>2, FollowingIs
    <2>5. \A l \in k + 1..b - 1 : l \notin marks
      BY <2>1, <2>2, FollowingIs
    <2> QED
      BY <2>3, <2>4, <2>5
  <1>3. \A l \in 2..n : l \in marks <=> p[l] \in codes /\ l \notin X
    BY DEF Marks
  <1>4. \A l \in 1..n : l \in K <=> p[l] # ENVIRON_ESC \/ l \in X
    BY DEF KeptBytes
  <1> HIDE DEF X, marks, K
  <1>5. k + 1 \notin X
    BY <1>1
  <1>6. b \notin X /\ (b <= n => p[b] \in codes)
    BY <1>1, <1>2, <1>3
  <1>7. ASSUME NEW l \in k + 1..b - 1, l \notin X
        PROVE  /\ p[l] \notin codes
               /\ IF p[l] = ENVIRON_ESC
                  THEN l + 1 <= n /\ l + 1 \in X /\ l + 2 \notin X /\ l \notin K /\ l + 1 \in K
                  ELSE l + 1 \notin X /\ l \in K
    <2>1. l \in 2..n /\ l \in 1..n /\ p[l] \notin codes
      BY <1>2, <1>3, <1>7
    <2>2. CASE p[l] = ENVIRON_ESC
      <3>1. l # n /\ l \in 2..n - 1 /\ l + 1 \in 1..n
        BY <2>1, <2>2
      <3>2. l + 1 \in X /\ l \notin K /\ l + 1 \in K
        BY <1>1, <1>4, <1>7, <2>1, <2>2, <3>1
      <3>3. l + 2 \notin X
        <4>1. CASE l + 1 = n
          BY <1>1, <4>1
        <4>2. CASE l + 1 # n
          <5>1. l + 1 \in 2..n - 1 /\ (l + 1) + 1 = l + 2
            BY <3>1, <4>2
          <5> QED
            BY <1>1, <3>2, <5>1
        <4> QED
          BY <4>1, <4>2
      <3> QED
        BY <2>1, <2>2, <3>1, <3>2, <3>3
    <2>3. CASE p[l] # ENVIRON_ESC
      <3>1. l + 1 \notin X
        BY <1>1, <2>1, <2>3
      <3> QED
        BY <1>4, <2>1, <2>3, <3>1
    <2> QED
      BY <2>2, <2>3
  <1>8. k + 1 \in 1..n + 1
    OBVIOUS
  <1>9. Span(p, n, codes, X, K, k + 1, b)
    BY <1>2, <1>5, <1>6, <1>7, <1>8 DEF Span
  <1> QED
    BY <1>2, <1>9 DEF X, marks, K
LEMMA NoLiteral ==
    ASSUME NEW p \in Seq(Bytes), NEW places, places = {}
    PROVE  Literal(p, places) = <<>>
  <1> DEFINE P == {k \in places : p[k] # ENVIRON_ESC \/ k \in Escaped(p)}
             n == Len(p)
  <1>1. n \in Nat
    BY LenProperties
  <1>2. Gap(P, n, 0, n)
    BY <1>1 DEF Gap
  <1> HIDE DEF P, n
  <1>3. PICK f : Picks(Bytes, p, P, n, f)
    BY <1>1, PickedTo DEF n
  <1>5. f[n] = f[0]
    BY <1>2, <1>3, PicksStay
  <1>6. Picked(p, P) = <<>>
    BY <1>3, <1>5 DEF Picks
  <1>7. <<>> \in Seq(Bytes) /\ Len(<<>>) = 0
    BY EmptySeq
  <1>8. PICK e \in 1..Len(<<>>) + 1 : UpToNul(<<>>) = SubSeq(<<>>, 1, e - 1)
    BY <1>7, UpToNulIs
  <1>9. e = 1 /\ SubSeq(<<>>, 1, 0) = <<>>
    BY <1>7, SubSeqEmpty
  <1> QED
    BY <1>6, <1>8, <1>9 DEF Literal, P

STARTS == {ENVIRON_VAR, ENVIRON_USERVAR}
NAMES == {ENVIRON_VAR, ENVIRON_VALUE, ENVIRON_USERVAR}

(* A payload that is taken apart. *)
EnvironPayload(p, n) ==
    p \in Seq(Bytes) /\ n \in Nat /\ n = Len(p) /\ n > 1 /\ p[n] # ENVIRON_ESC /\ 2 \in Marks(p, STARTS)

(* Where the parts of the entry at k end. *)
LEMMA EntryParts ==
    ASSUME NEW p, NEW n, EnvironPayload(p, n), NEW k \in Marks(p, STARTS),
           NEW v, v = Following(Marks(p, NAMES), k, p),
           NEW z, z = Following(Marks(p, STARTS), k, p)
    PROVE  /\ k \in 2..n /\ Span(p, n, NAMES, Escaped(p), KeptBytes(p), k + 1, v)
           /\ v \in Nat /\ k < v /\ v <= n + 1
           /\ z \in Nat /\ k < z /\ z <= n + 1
           /\ v <= n /\ p[v] = ENVIRON_VALUE =>
                  v < z /\ Span(p, n, STARTS, Escaped(p), KeptBytes(p), v + 1, z)
           /\ ~(v <= n /\ p[v] = ENVIRON_VALUE) => z = v
  <1>0. p \in Seq(Bytes) /\ n \in Nat /\ n = Len(p) /\ n > 1 /\ p[n] # ENVIRON_ESC
    BY DEF EnvironPayload
  <1>1. ENVIRON_ESC \notin NAMES /\ ENVIRON_ESC \notin STARTS
    BY DEF NAMES, STARTS, ENVIRON_ESC, ENVIRON_VAR, ENVIRON_VALUE, ENVIRON_USERVAR
  <1>2. \A l, codes : l \in Marks(p, codes) <=> l \in 2..n /\ l \notin Escaped(p) /\ p[l] \in codes
    BY <1>0 DEF Marks
  <1>3. k \in 2..n /\ p[k] # ENVIRON_ESC
    BY <1>1, <1>2
  <1> HIDE DEF NAMES, STARTS
  <1>4. Span(p, n, NAMES, Escaped(p), KeptBytes(p), k + 1, v) /\ v \in k + 1..n + 1
    BY <1>0, <1>1, <1>3, EnvironSpan
  <1>5. v <= n => v \in Marks(p, NAMES)
    BY <1>0, <1>1, <1>3, EnvironSpan
  <1>6. \A l \in k + 1..v - 1 : l \notin Marks(p, NAMES)
    BY <1>0, <1>1, <1>3, EnvironSpan
  <1>7. z \in k + 1..n + 1 /\ (z <= n => z \in Marks(p, STARTS))
    BY <1>0, <1>1, <1>3, EnvironSpan
  <1>8. \A l \in k + 1..z - 1 : l \notin Marks(p, STARTS)
    BY <1>0, <1>1, <1>3, EnvironSpan
  <1>9. \A l : l \in Marks(p, STARTS) <=> l \in Marks(p, NAMES) /\ p[l] # ENVIRON_VALUE
    BY <1>2 DEF NAMES, STARTS, ENVIRON_VAR, ENVIRON_VALUE, ENVIRON_USERVAR
  <1>10. CASE v <= n /\ p[v] = ENVIRON_VALUE
    <2>1. v \in Marks(p, NAMES) /\ v \notin Marks(p, STARTS) /\ v \in 2..n /\ p[v] # ENVIRON_ESC
      BY <1>1, <1>2, <1>3, <1>4, <1>5, <1>9, <1>10
    <2>2. v < z
      <3> SUFFICES ASSUME z <= v PROVE FALSE
        BY <1>4, <1>7
      <3>1. z # v /\ z <= n
        BY <1>0, <1>4, <1>7, <1>10, <2>1
      <3>2. z \in k + 1..v - 1
        BY <1>3, <1>4, <1>7, <3>1
      <3> QED
        BY <1>6, <1>7, <1>9, <3>1, <3>2
    <2> DEFINE y == Following(Marks(p, STARTS), v, p)
    <2>3. Span(p, n, STARTS, Escaped(p), KeptBytes(p), v + 1, y) /\ y \in v + 1..n + 1
      BY <1>0, <1>1, <2>1, EnvironSpan
    <2>4. y <= n => y \in Marks(p, STARTS)
      BY <1>0, <1>1, <2>1, EnvironSpan
    <2>5. \A l \in v + 1..y - 1 : l \notin Marks(p, STARTS)
      BY <1>0, <1>1, <2>1, EnvironSpan
    <2> HIDE DEF y
    <2>6. ASSUME y < z PROVE FALSE
      <3>1. y \in k + 1..z - 1 /\ y <= n
        BY <1>0, <1>3, <1>4, <1>7, <2>3, <2>6
      <3> QED
        BY <1>8, <2>4, <3>1
    <2>7. ASSUME z < y PROVE FALSE
      <3>1. z \in v + 1..y - 1 /\ z <= n
        BY <1>0, <1>3, <1>4, <1>7, <2>2, <2>3, <2>7
      <3> QED
        BY <1>7, <2>5, <3>1
    <2>8. y = z
      BY <1>7, <2>3, <2>6, <2>7
    <2> QED
      BY <1>3, <1>4, <1>7, <1>10, <2>2, <2>3, <2>8
  <1>11. CASE ~(v <= n /\ p[v] = ENVIRON_VALUE)
    <2>1. v <= n => v \in Marks(p, STARTS)
      BY <1>5, <1>9, <1>11
    <2>2. ASSUME v < z PROVE FALSE
      <3>1. v \in k + 1..z - 1 /\ v <= n
        BY <1>0, <1>3, <1>4, <1>7, <2>2
      <3> QED
        BY <1>8, <2>1, <3>1
    <2>3. ASSUME z < v PROVE FALSE
      <3>1. z \in k + 1..v - 1 /\ z <= n
        BY <1>0, <1>3, <1>4, <1>7, <2>3
      <3> QED
        BY <1>6, <1>7, <1>9, <3>1
    <2> QED
      BY <1>3, <1>4, <1>7, <1>11, <2>2, <2>3
  <1> QED
    BY <1>10, <1>11

(* Reading at c with what lies ahead intact, and the entries read so far.  *)
Reading(s, p, n) ==
    /\ s \in Place /\ Len(s.mem) = n /\ s.c \in 1..n + 1 /\ s.out \in 1..s.c
    /\ \A k \in s.c..n : s.mem[k] = p[k]

EntryAt(m, out, e, w) ==
    /\ e \in Entry /\ e.type = w[1] /\ Kept(m, out, e.var, w[2])
    /\ IF e.value = 0 THEN w[3] = <<>> ELSE Kept(m, out, e.value, w[3])

LEMMA SkipIs ==
    ASSUME NEW s \in Place
    PROVE  Skip(s) \in Place /\ Skip(s).mem = s.mem /\ Skip(s).c = s.c + 1 /\ Skip(s).out = s.out
  BY DEF Skip, Place

(* One turn of the loop in _environ_telnet. *)
VariableAt(s) ==
    LET name == MoveString(Skip(s), {ENVIRON_VAR, ENVIRON_VALUE, ENVIRON_USERVAR})
        given == name.c <= Len(name.mem) /\ name.mem[name.c] = ENVIRON_VALUE
    IN  [at |-> IF given THEN MoveString(Skip(name), {ENVIRON_VAR, ENVIRON_USERVAR}) ELSE name,
         entry |-> [type |-> s.mem[s.c], var |-> s.out, value |-> IF given THEN name.out ELSE 0]]

LEMMA VariableIsRead ==
    ASSUME NEW p, NEW n, EnvironPayload(p, n), NEW s, Reading(s, p, n), s.c \in Marks(p, STARTS),
           NEW v, v = VariableAt(s)
    PROVE  /\ Reading(v.at, p, n) /\ v.at.c = Following(Marks(p, STARTS), s.c, p)
           /\ s.out < v.at.out /\ \A k \in 1..s.out - 1 : v.at.mem[k] = s.mem[k]
           /\ EntryAt(v.at.mem, v.at.out, v.entry, EnvironEntry(p, s.c))
  <1> DEFINE k == s.c
             a == Following(Marks(p, NAMES), k, p)
             z == Following(Marks(p, STARTS), k, p)
             K == KeptBytes(p)
             x == Picked(p, K \cap k + 1..a - 1)
             name == MoveString(Skip(s), NAMES)
             given == name.c <= Len(name.mem) /\ name.mem[name.c] = ENVIRON_VALUE
  <1>0. p \in Seq(Bytes) /\ n \in Nat /\ n = Len(p) /\ n > 1
    BY DEF EnvironPayload
  <1>1. /\ s \in Place /\ Len(s.mem) = n /\ k \in 1..n + 1 /\ s.out \in 1..k
        /\ \A l \in k..n : s.mem[l] = p[l]
    BY DEF Reading
  <1>2. /\ k \in 2..n /\ Span(p, n, NAMES, Escaped(p), K, k + 1, a)
        /\ a \in Nat /\ k < a /\ a <= n + 1
        /\ z \in Nat /\ k < z /\ z <= n + 1
    BY EntryParts
  <1>3. a <= n /\ p[a] = ENVIRON_VALUE => a < z /\ Span(p, n, STARTS, Escaped(p), K, a + 1, z)
    BY EntryParts
  <1>4. ~(a <= n /\ p[a] = ENVIRON_VALUE) => z = a
    BY EntryParts
  <1>5. EnvironEntry(p, k) = <<p[k], Literal(p, k + 1..a - 1), Literal(p, a + 1..z - 1)>>
    BY DEF EnvironEntry, NAMES, STARTS
  <1>6. /\ v.at = (IF given THEN MoveString(Skip(name), STARTS) ELSE name)
        /\ v.entry = [type |-> s.mem[k], var |-> s.out, value |-> IF given THEN name.out ELSE 0]
    BY DEF VariableAt, NAMES, STARTS
  <1>7. s.mem[k] = p[k] /\ p[k] \in Bytes
    BY <1>0, <1>1, <1>2, ElementOfSeq
  <1> HIDE DEF k, a, z, K
  <1>8. Literal(p, k + 1..a - 1) = UpToNul(x)
    BY <1>0, <1>2, LiteralIs DEF K
  <1>9. Stored(name, s.mem, p, n, a, s.out, x)
    <2> DEFINE u == Skip(s)
    <2>1. u \in Place /\ u.mem = s.mem /\ u.c = k + 1 /\ u.out = s.out
      BY <1>1, SkipIs DEF k
    <2>2. /\ s.out \in 1..n /\ s.out < k + 1 /\ \A l \in k + 1..n : s.mem[l] = p[l]
      BY <1>1, <1>2
    <2> HIDE DEF u, x
    <2>3. Stored(MoveString(u, NAMES), u.mem, p, n, a, u.out, Picked(p, K \cap u.c..a - 1))
      BY <1>0, <1>1, <1>2, <2>1, <2>2, MoveStringIs
    <2> QED
      BY <2>1, <2>3 DEF u, x
  <1> HIDE DEF name, x
  <1>10. /\ name \in Place /\ name.c = a /\ Len(name.mem) = n
         /\ name.out \in 2..a /\ s.out < name.out
         /\ \A l \in a..n : name.mem[l] = p[l]
         /\ \A l \in 1..s.out - 1 : name.mem[l] = s.mem[l]
    BY <1>9 DEF Stored
  <1>11. Kept(name.mem, name.out, s.out, UpToNul(x))
    BY <1>0, <1>2, <1>9, StoredIsKept
  <1>12. given <=> a <= n /\ p[a] = ENVIRON_VALUE
    BY <1>0, <1>2, <1>10
  <1> HIDE DEF given
  <1>13. name.out \in Nat /\ s.out \in Nat /\ s.out # 0 /\ name.out # 0
    BY <1>1, <1>10
  <1>14. v.entry \in Entry /\ v.entry.type = p[k] /\ v.entry.var = s.out
         /\ v.entry.value = (IF given THEN name.out ELSE 0)
    BY <1>6, <1>7, <1>13 DEF Entry
  <1>15. CASE given
    <2> DEFINE r == MoveString(Skip(name), STARTS)
               y == Picked(p, K \cap a + 1..z - 1)
    <2>1. v.at = r /\ v.entry.value = name.out
      BY <1>6, <1>14, <1>15
    <2>2. a <= n /\ a < z /\ Span(p, n, STARTS, Escaped(p), K, a + 1, z)
      BY <1>3, <1>12, <1>15
    <2>3. Literal(p, a + 1..z - 1) = UpToNul(y)
      BY <1>0, <1>2, <2>2, LiteralIs DEF K
    <2>4. Stored(r, name.mem, p, n, z, name.out, y)
      <3> DEFINE u == Skip(name)
      <3>1. u \in Place /\ u.mem = name.mem /\ u.c = a + 1 /\ u.out = name.out
        BY <1>10, SkipIs
      <3>2. /\ name.out \in 1..n /\ name.out < a + 1 /\ \A l \in a + 1..n : name.mem[l] = p[l]
        BY <1>0, <1>2, <1>10, <2>2
      <3> HIDE DEF u, y
      <3>3. Stored(MoveString(u, STARTS), u.mem, p, n, z, u.out, Picked(p, K \cap u.c..z - 1))
        BY <1>0, <1>10, <2>2, <3>1, <3>2, MoveStringIs
      <3> QED
        BY <3>1, <3>3 DEF u, y
    <2> HIDE DEF r, y
    <2>5. /\ r \in Place /\ r.c = z /\ Len(r.mem) = n
          /\ r.out \in 2..z /\ name.out < r.out
          /\ \A l \in z..n : r.mem[l] = p[l]
          /\ \A l \in 1..name.out - 1 : r.mem[l] = name.mem[l]
      BY <2>4 DEF Stored
    <2>6. Kept(r.mem, r.out, name.out, UpToNul(y))
      BY <1>0, <1>2, <2>4, StoredIsKept
    <2>7. Kept(r.mem, r.out, s.out, UpToNul(x))
      <3>1. name.out \in Nat /\ r.out \in Nat /\ name.out <= r.out
        BY <1>2, <1>10, <2>5
      <3> QED
        BY <1>11, <2>5, <3>1, KeptOn
    <2>8. Reading(r, p, n)
      BY <1>0, <1>2, <2>5 DEF Reading
    <2>9. s.out < r.out /\ \A l \in 1..s.out - 1 : r.mem[l] = s.mem[l]
      BY <1>1, <1>2, <1>10, <2>5
    <2>10. EntryAt(r.mem, r.out, v.entry, EnvironEntry(p, k))
      BY <1>5, <1>8, <1>13, <1>14, <2>1, <2>3, <2>6, <2>7 DEF EntryAt
    <2> QED
      BY <2>1, <2>5, <2>8, <2>9, <2>10 DEF k, z
  <1>16. CASE ~given
    <2>1. v.at = name /\ v.entry.value = 0
      BY <1>6, <1>14, <1>16
    <2>2. z = a
      BY <1>4, <1>12, <1>16
    <2>3. Literal(p, a + 1..z - 1) = <<>>
      <3>1. a + 1..z - 1 = {}
        BY <1>2, <2>2
      <3> QED
        BY <1>0, <3>1, NoLiteral
    <2>4. Reading(name, p, n)
      BY <1>0, <1>2, <1>10 DEF Reading
    <2>5. EntryAt(name.mem, name.out, v.entry, EnvironEntry(p, k))
      BY <1>5, <1>8, <1>11, <1>14, <2>1, <2>3 DEF EntryAt
    <2> QED
      BY <1>10, <2>1, <2>2, <2>4, <2>5 DEF k, z
  <1> QED
    BY <1>15, <1>16

(* The count is the number of entries. *)
CountTurn(buffer) ==
    [t \in [c : Nat, count : Nat] |->
        IF t.c > Len(buffer) THEN t
        ELSE IF buffer[t.c] \in {ENVIRON_VAR, ENVIRON_USERVAR}
             THEN [c |-> t.c + 1, count |-> t.count + 1]
             ELSE [t EXCEPT !.c = IF buffer[t.c] = ENVIRON_ESC THEN @ + 2 ELSE @ + 1]]

LEMMA CountLoop ==
    \A buffer : Count(buffer) = Loop(CountTurn(buffer), [c |-> 2, count |-> 0], Len(buffer)).count
  BY DEF Count, CountTurn

LEMMA CountIs ==
    ASSUME NEW p, NEW n, EnvironPayload(p, n), NEW A, NEW s \in Seq(A), n = Len(s),
           NEW g, Picks(A, s, Marks(p, STARTS), n, g)
    PROVE  Count(p) = Len(g[n])
  <1> DEFINE X == Escaped(p)
             marks == Marks(p, STARTS)
             L(k) == Len(g[k])
             turn == CountTurn(p)
             T == [c : Nat, count : Nat]
             Good(t) == t.c \in 2..n + 1 /\ t.c \notin X /\ t.count = L(t.c - 1)
             Y == [k \in 0..n |-> {t \in T : Good(t) /\ (t.c >= 2 + k \/ t.c = n + 1)}]
             first == [c |-> 2, count |-> 0]
  <1>0. p \in Seq(Bytes) /\ n \in Nat /\ n = Len(p) /\ n > 1 /\ p[n] # ENVIRON_ESC
    BY DEF EnvironPayload
  <1>1. /\ X \subseteq 3..n
        /\ \A l \in 2..n - 1 : l + 1 \in X <=> p[l] = ENVIRON_ESC /\ l \notin X
    BY <1>0, EscapedNext
  <1>2. \A l : l \in marks <=> l \in 2..n /\ l \notin X /\ p[l] \in STARTS
    BY <1>0 DEF Marks
  <1>3. \A k \in 1..n : g[k] = IF k \in marks THEN Append(g[k - 1], s[k]) ELSE g[k - 1]
    BY DEF Picks
  <1>4. ASSUME NEW k \in 0..n PROVE g[k] \in Seq(A) /\ L(k) \in Nat
    <2>1. g[k] \in Seq(A)
      BY DEF Picks
    <2> QED
      BY <2>1, LenProperties
  <1>5. ASSUME NEW k \in 1..n PROVE L(k) = IF k \in marks THEN L(k - 1) + 1 ELSE L(k - 1)
    <2>1. CASE k \in marks
      <3>1. k - 1 \in 0..n /\ s[k] \in A
        BY ElementOfSeq
      <3>2. Len(Append(g[k - 1], s[k])) = Len(g[k - 1]) + 1
        BY <1>4, <3>1, AppendProperties
      <3> QED
        BY <1>3, <2>1, <3>2
    <2> QED
      BY <1>3, <2>1
  <1>6. L(1) = 0
    <2>1. g[0] = <<>> /\ 1 \notin marks /\ 1 \in 1..n
      BY <1>0, <1>2 DEF Picks
    <2>2. g[1] = <<>>
      BY <1>3, <2>1
    <2> QED
      BY <2>2, EmptySeq
  <1>7. ENVIRON_ESC \notin STARTS
    BY DEF STARTS, ENVIRON_ESC, ENVIRON_VAR, ENVIRON_USERVAR
  <1>8. Y[0] = {t \in T : Good(t) /\ (t.c >= 2 + 0 \/ t.c = n + 1)}
        /\ Y[n] = {t \in T : Good(t) /\ (t.c >= 2 + n \/ t.c = n + 1)}
        /\ \A k \in 1..n : /\ Y[k] = {t \in T : Good(t) /\ (t.c >= 2 + k \/ t.c = n + 1)}
                           /\ Y[k - 1] = {t \in T : Good(t) /\ (t.c >= 2 + (k - 1) \/ t.c = n + 1)}
    BY <1>0
  <1> HIDE DEF X, marks, L, Y
  <1>9. first \in Y[0]
    <2>1. first \in T /\ first.c = 2 /\ first.count = 0
      OBVIOUS
    <2>2. Good(first)
      BY <1>0, <1>1, <1>6, <2>1
    <2> HIDE DEF first, T, Good
    <2> QED
      BY <1>8, <2>1, <2>2
  <1>10. ASSUME NEW t \in T, Good(t), NEW k \in 1..n, t.c >= 2 + (k - 1) \/ t.c = n + 1
         PROVE  turn[t] \in T /\ Good(turn[t]) /\ (turn[t].c >= 2 + k \/ turn[t].c = n + 1)
    <2> DEFINE c == t.c
               u == turn[t]
    <2>1. c \in 2..n + 1 /\ c \notin X /\ t.count = L(c - 1) /\ t.count \in Nat /\ c \in Nat
          /\ t = [c |-> c, count |-> t.count]
      BY <1>10
    <2>2. CASE c = n + 1
      <3>1. turn[t] = t
        BY <1>0, <2>2 DEF CountTurn
      <3> HIDE DEF turn, Good, T
      <3> QED
        BY <1>10, <2>2, <3>1
    <2>3. CASE c # n + 1 /\ p[c] \in STARTS
      <3>1. c \in 2..n /\ c \in 1..n /\ (c + 1) - 1 = c /\ c \in marks /\ p[c] # ENVIRON_ESC
        BY <1>0, <1>2, <1>7, <2>1, <2>3
      <3>2. turn[t] = [c |-> c + 1, count |-> t.count + 1]
        BY <1>0, <2>1, <2>3, <3>1 DEF CountTurn, STARTS
      <3>3. c + 1 \notin X
        BY <1>0, <1>1, <3>1
      <3>4. L(c) = t.count + 1
        BY <1>5, <2>1, <3>1
      <3> HIDE DEF turn, c
      <3>5. u.c = c + 1 /\ u.count = t.count + 1 /\ u \in T
        BY <2>1, <3>2
      <3>6. Good(u)
        BY <2>1, <3>1, <3>3, <3>4, <3>5
      <3> QED
        BY <1>10, <2>1, <2>3, <3>5, <3>6 DEF c
    <2>4. CASE c # n + 1 /\ p[c] = ENVIRON_ESC
      <3>1. c \in 2..n /\ c # n
        BY <1>0, <2>1, <2>4
      <3>2. c \in 2..n - 1 /\ c \in 1..n /\ c + 1 \in 1..n /\ (c + 1) - 1 = c /\ (c + 2) - 1 = c + 1
            /\ c + 2 \in 2..n + 1
        BY <1>0, <3>1
      <3>3. c + 1 \in X
        BY <1>1, <2>1, <2>4, <3>2
      <3>4. c + 2 \notin X
        <4>1. CASE c + 1 = n
          BY <1>1, <4>1
        <4>2. CASE c + 1 # n
          <5>1. c + 1 \in 2..n - 1 /\ (c + 1) + 1 = c + 2
            BY <3>2, <4>2
          <5> QED
            BY <1>1, <3>3, <5>1
        <4> QED
          BY <4>1, <4>2
      <3>5. c \notin marks /\ c + 1 \notin marks
        BY <1>2, <1>7, <2>4, <3>3
      <3>6. L(c + 1) = t.count
        BY <1>5, <2>1, <3>2, <3>5
      <3>7. turn[t] = [c |-> c + 2, count |-> t.count]
        <4>1. turn[t] = [t EXCEPT !.c = c + 2]
          BY <1>0, <1>7, <2>1, <2>4, <3>1 DEF CountTurn, STARTS
        <4> HIDE DEF turn, c
        <4> QED
          BY <2>1, <4>1
      <3> HIDE DEF turn, c
      <3>8. u.c = c + 2 /\ u.count = t.count /\ u \in T
        BY <2>1, <3>7
      <3>9. Good(u)
        BY <3>2, <3>4, <3>6, <3>8
      <3> QED
        BY <1>10, <2>1, <2>4, <3>8, <3>9 DEF c
    <2>5. CASE c # n + 1 /\ p[c] \notin STARTS /\ p[c] # ENVIRON_ESC
      <3>1. c \in 2..n /\ c \in 1..n /\ (c + 1) - 1 = c /\ c \notin marks
        BY <1>0, <1>2, <2>1, <2>5
      <3>2. turn[t] = [c |-> c + 1, count |-> t.count]
        <4>1. turn[t] = [t EXCEPT !.c = c + 1]
          BY <1>0, <2>1, <2>5, <3>1 DEF CountTurn, STARTS
        <4> HIDE DEF turn, c
        <4> QED
          BY <2>1, <4>1
      <3>3. c + 1 \notin X
        BY <1>0, <1>1, <2>5, <3>1
      <3>4. L(c) = t.count
        BY <1>5, <2>1, <3>1
      <3> HIDE DEF turn, c
      <3>5. u.c = c + 1 /\ u.count = t.count /\ u \in T
        BY <2>1, <3>2
      <3>6. Good(u)
        BY <2>1, <3>1, <3>3, <3>4, <3>5
      <3> QED
        BY <1>10, <2>1, <2>5, <3>5, <3>6 DEF c
    <2> QED
      BY <2>2, <2>3, <2>4, <2>5
  <1> HIDE DEF turn, Good, T, first
  <1>11. \A k \in 1..n : \A t \in Y[k - 1] : turn[t] \in Y[k]
    BY <1>8, <1>10
  <1>12. Loop(turn, first, n) \in Y[n]
    BY <1>0, <1>9, <1>11, LoopKeeps
  <1> DEFINE r == Loop(turn, first, n)
  <1>13. Count(p) = r.count
    BY <1>0, CountLoop DEF turn, first
  <1> HIDE DEF r
  <1>14. Good(r) /\ (r.c >= 2 + n \/ r.c = n + 1)
    BY <1>8, <1>12 DEF r
  <1>15. r.count = L((n + 1) - 1)
    BY <1>0, <1>14 DEF Good
  <1>16. (n + 1) - 1 = n
    BY <1>0
  <1> QED
    BY <1>13, <1>15, <1>16 DEF L

(* The loop in _environ_telnet reads all entries. *)
VariablesTurn ==
    [t \in [at : Place, values : Seq(Entry)] |->
        [at |-> VariableAt(t.at).at, values |-> Append(t.values, VariableAt(t.at).entry)]]

LEMMA VariablesLoop ==
    \A buffer, count :
        Variables(buffer, count) =
            Loop(VariablesTurn, [at |-> [mem |-> buffer, c |-> 2, out |-> 1], values |-> <<>>], count)
  BY DEF Variables, VariablesTurn, VariableAt

EnvironEntries(p) == [k \in DOMAIN p |-> EnvironEntry(p, k)]

(* The entries of values are what ws has. *)
EntriesAre(pl, values, ws) ==
    /\ values \in Seq(Entry) /\ Len(values) = Len(ws)
    /\ \A ix \in 1..Len(ws) : EntryAt(pl.mem, pl.out, values[ix], ws[ix])

LEMMA EntryOn ==
    ASSUME NEW m, NEW out \in Nat, NEW e, NEW w, EntryAt(m, out, e, w),
           NEW r, NEW later \in Nat, out <= later, \A k \in 1..out - 1 : r[k] = m[k]
    PROVE  EntryAt(r, later, e, w)
  <1>1. /\ e \in Entry /\ e.type = w[1] /\ Kept(m, out, e.var, w[2])
        /\ IF e.value = 0 THEN w[3] = <<>> ELSE Kept(m, out, e.value, w[3])
    BY DEF EntryAt
  <1>2. \A q, x : Kept(m, out, q, x) => Kept(r, later, q, x)
    BY KeptOn
  <1> QED
    BY <1>1, <1>2 DEF EntryAt

LEMMA EntriesOn ==
    ASSUME NEW p, NEW n, NEW s, Reading(s, p, n), NEW pl, Reading(pl, p, n), s.out < pl.out,
           \A k \in 1..s.out - 1 : pl.mem[k] = s.mem[k],
           NEW values, NEW A, NEW ws \in Seq(A), EntriesAre(s, values, ws),
           NEW e, NEW w \in A, EntryAt(pl.mem, pl.out, e, w)
    PROVE  EntriesAre(pl, Append(values, e), Append(ws, w))
  <1> DEFINE vs == Append(values, e)
             us == Append(ws, w)
             l == Len(ws)
  <1>1. /\ values \in Seq(Entry) /\ Len(values) = l /\ l \in Nat /\ e \in Entry
        /\ \A ix \in 1..l : EntryAt(s.mem, s.out, values[ix], ws[ix])
    BY LenProperties DEF EntriesAre, EntryAt
  <1>2. /\ vs \in Seq(Entry) /\ Len(vs) = l + 1
        /\ vs[l + 1] = e /\ \A ix \in 1..l : vs[ix] = values[ix]
    BY <1>1, AppendProperties
  <1>3. /\ Len(us) = l + 1 /\ us[l + 1] = w /\ \A ix \in 1..l : us[ix] = ws[ix]
    BY AppendProperties
  <1>4. s.out \in Nat /\ pl.out \in Nat /\ s.out <= pl.out
    BY DEF Reading, Place
  <1> HIDE DEF vs, us, l
  <1>5. ASSUME NEW ix \in 1..l PROVE EntryAt(pl.mem, pl.out, values[ix], ws[ix])
    BY <1>1, <1>4, EntryOn
  <1>6. \A ix \in 1..l + 1 : ix = l + 1 \/ ix \in 1..l
    BY <1>1
  <1>7. ASSUME NEW ix \in 1..l + 1 PROVE EntryAt(pl.mem, pl.out, vs[ix], us[ix])
    BY <1>2, <1>3, <1>5, <1>6
  <1> QED
    BY <1>2, <1>3, <1>7 DEF EntriesAre, vs, us

LEMMA VariablesAre ==
    ASSUME NEW p, NEW n, EnvironPayload(p, n),
           NEW m, m = Len(Picked(EnvironEntries(p), Marks(p, STARTS))),
           NEW v, v = Variables(p, m)
    PROVE  /\ m = Count(p) /\ Reading(v.at, p, n)
           /\ EntriesAre(v.at, v.values, Picked(EnvironEntries(p), Marks(p, STARTS)))
  <1> DEFINE s == EnvironEntries(p)
             A == {EnvironEntry(p, k) : k \in 1..n}
             starts == Marks(p, STARTS)
             ws == Picked(s, starts)
             turn == VariablesTurn
             T == [at : Place, values : Seq(Entry)]
             first == [at |-> [mem |-> p, c |-> 2, out |-> 1], values |-> <<>>]
  <1>0. p \in Seq(Bytes) /\ n \in Nat /\ n = Len(p) /\ n > 1 /\ 2 \in starts
    BY DEF EnvironPayload
  <1>1. s \in Seq(A) /\ Len(s) = n /\ \A k \in 1..n : s[k] = EnvironEntry(p, k) /\ s[k] \in A
    <2>1. DOMAIN p = 1..n
      BY <1>0, LenProperties
    <2>2. s = [k \in 1..n |-> EnvironEntry(p, k)]
      BY <2>1 DEF EnvironEntries
    <2>3. \A k \in 1..n : s[k] = EnvironEntry(p, k) /\ s[k] \in A
      BY <2>2
    <2>4. s \in [1..n -> A]
      BY <2>2
    <2> HIDE DEF s, A
    <2>5. s \in Seq(A) /\ Len(s) = n
      BY <1>0, <2>4, FunctionIsSeq
    <2> QED
      BY <2>3, <2>5
  <1> HIDE DEF s, A, starts
  <1>2. PICK g : Picks(A, s, starts, n, g)
    BY <1>0, <1>1, PickedTo
  <1>3. /\ \A k \in 0..n : g[k] \in Seq(A)
        /\ g[0] = <<>> /\ ws = g[n] /\ m = Len(g[n])
        /\ \A k \in 1..n : g[k] = IF k \in starts THEN Append(g[k - 1], s[k]) ELSE g[k - 1]
    BY <1>2 DEF Picks, s, starts
  <1>4. m = Count(p)
    <2>1. Count(p) = Len(g[n])
      BY <1>1, <1>2, CountIs DEF starts
    <2> QED
      BY <1>3, <2>1
  <1>5. \A l : l \in starts => l \in 2..n
    BY <1>0 DEF starts, Marks
  <1>6. g[1] = <<>>
    <2>1. 1 \in 1..n /\ 1 \notin starts
      BY <1>0, <1>5
    <2> QED
      BY <1>3, <2>1
  <1>7. m \in Nat
    <2>1. n \in 0..n
      BY <1>0
    <2>2. g[n] \in Seq(A)
      BY <1>3, <2>1
    <2> QED
      BY <1>3, <2>2, LenProperties
  <1> DEFINE Good(t) == /\ Reading(t.at, p, n) /\ t.at.c \in 2..n + 1
                        /\ t.at.c <= n => t.at.c \in starts
                        /\ EntriesAre(t.at, t.values, g[t.at.c - 1])
             Y == [k \in 0..m |-> {t \in T : Good(t) /\ Len(t.values) = k}]
  <1>8. Y[0] = {t \in T : Good(t) /\ Len(t.values) = 0}
        /\ Y[m] = {t \in T : Good(t) /\ Len(t.values) = m}
        /\ \A k \in 1..m : /\ Y[k] = {t \in T : Good(t) /\ Len(t.values) = k}
                           /\ Y[k - 1] = {t \in T : Good(t) /\ Len(t.values) = k - 1}
    BY <1>7
  <1> HIDE DEF Y
  <1>9. first \in Y[0]
    <2> DEFINE pl == [mem |-> p, c |-> 2, out |-> 1]
    <2>1. pl \in Place /\ pl.c = 2 /\ pl.out = 1 /\ pl.mem = p
      BY <1>0 DEF Place
    <2>2. <<>> \in Seq(Entry) /\ Len(<<>>) = 0
      BY EmptySeq
    <2>3. first \in T /\ first.at = pl /\ first.values = <<>>
      BY <2>1, <2>2
    <2> HIDE DEF pl
    <2>4. Reading(pl, p, n)
      BY <1>0, <2>1 DEF Reading
    <2>5. EntriesAre(pl, <<>>, <<>>)
      BY <2>2 DEF EntriesAre
    <2>6. Good(first)
      BY <1>0, <1>6, <2>1, <2>3, <2>4, <2>5
    <2> HIDE DEF Good, first, T
    <2> QED
      BY <1>8, <2>2, <2>3, <2>6
  <1>10. ASSUME NEW t \in T, Good(t), NEW k \in 1..m, Len(t.values) = k - 1
         PROVE  turn[t] \in T /\ Good(turn[t]) /\ Len(turn[t].values) = k
    <2> DEFINE c == t.at.c
               v1 == VariableAt(t.at)
               z == Following(starts, c, p)
               ws1 == g[c - 1]
    <2>1. /\ Reading(t.at, p, n) /\ c \in 2..n + 1 /\ (c <= n => c \in starts)
          /\ EntriesAre(t.at, t.values, ws1) /\ t.values \in Seq(Entry)
      BY <1>10
    <2>2. c # n + 1
      <3> SUFFICES ASSUME c = n + 1 PROVE FALSE
        OBVIOUS
      <3>1. c - 1 = n
        BY <1>0
      <3>2. Len(t.values) = m
        BY <1>3, <2>1, <3>1 DEF EntriesAre
      <3> QED
        BY <1>7, <1>10, <3>2
    <2>3. c \in starts /\ c \in 2..n /\ c \in 1..n /\ c - 1 \in 0..n
      BY <1>0, <2>1, <2>2
    <2>4. /\ Reading(v1.at, p, n) /\ v1.at.c = z
          /\ t.at.out < v1.at.out /\ \A l \in 1..t.at.out - 1 : v1.at.mem[l] = t.at.mem[l]
          /\ EntryAt(v1.at.mem, v1.at.out, v1.entry, EnvironEntry(p, c))
      BY <2>1, <2>3, VariableIsRead DEF starts
    <2>16. starts \subseteq 1..n /\ c \in 0..n /\ z = Following(starts, c, p)
      BY <1>5, <2>3
    <2> HIDE DEF z, c
    <2>17. z \in Nat /\ c < z /\ z <= n + 1
      BY <2>3, <2>16, EntryParts DEF starts
    <2>18. z <= n => z \in starts
      BY <1>0, <2>16, FollowingIs
    <2>5. z \in Nat /\ c < z /\ z <= n + 1 /\ (z <= n => z \in starts)
      BY <2>17, <2>18
    <2>6. \A l \in c + 1..z - 1 : l \notin starts
      BY <1>0, <2>16, FollowingIs
    <2>7. ws1 \in Seq(A) /\ g[c] = Append(ws1, EnvironEntry(p, c)) /\ EnvironEntry(p, c) \in A
      BY <1>1, <1>3, <2>3
    <2>8. turn[t] = [at |-> v1.at, values |-> Append(t.values, v1.entry)]
      BY <1>10 DEF VariablesTurn
    <2> HIDE DEF v1, ws1
    <2>9. g[z - 1] = g[c]
      <3> DEFINE y == z - 1
      <3>1. Gap(starts, n, c, y)
        BY <1>0, <2>3, <2>5, <2>6 DEF Gap
      <3> HIDE DEF y
      <3>2. g[y] = g[c]
        BY <1>2, <3>1, PicksStay
      <3> QED
        BY <3>2 DEF y
    <2>10. EntriesAre(v1.at, Append(t.values, v1.entry), g[z - 1])
      BY <2>1, <2>4, <2>7, <2>9, EntriesOn
    <2>11. v1.at \in Place /\ v1.entry \in Entry
      BY <2>4 DEF Reading, EntryAt
    <2>12. Append(t.values, v1.entry) \in Seq(Entry) /\ Len(Append(t.values, v1.entry)) = k
      <3>1. Len(Append(t.values, v1.entry)) = Len(t.values) + 1
        BY <2>1, <2>11, AppendProperties
      <3> QED
        BY <1>10, <2>1, <2>11, <3>1, AppendProperties
    <2> DEFINE u == turn[t]
    <2> HIDE DEF turn
    <2>13. u.at = v1.at /\ u.values = Append(t.values, v1.entry) /\ u \in T
      BY <2>8, <2>11, <2>12
    <2>14. z \in 2..n + 1
      BY <1>0, <2>3, <2>5
    <2> HIDE DEF u
    <2>15. Good(u)
      BY <2>4, <2>5, <2>10, <2>13, <2>14
    <2> HIDE DEF Good, T
    <2> QED
      BY <2>12, <2>13, <2>15 DEF u
  <1> HIDE DEF turn, T, Good, first
  <1>11. \A k \in 1..m : \A t \in Y[k - 1] : turn[t] \in Y[k]
    <2> TAKE k \in 1..m
    <2> TAKE t \in Y[k - 1]
    <2>1. t \in T /\ Good(t) /\ Len(t.values) = k - 1
      BY <1>8
    <2>2. turn[t] \in T /\ Good(turn[t]) /\ Len(turn[t].values) = k
      BY <1>10, <2>1
    <2> QED
      BY <1>8, <2>2
  <1>12. Loop(turn, first, m) \in Y[m]
    BY <1>7, <1>9, <1>11, LoopKeeps
  <1>13. v \in Y[m]
    BY <1>12, VariablesLoop DEF turn, first
  <1>14. Good(v) /\ Len(v.values) = m
    BY <1>8, <1>13
  <1>15. /\ Reading(v.at, p, n) /\ v.at.c \in 2..n + 1 /\ (v.at.c <= n => v.at.c \in starts)
         /\ EntriesAre(v.at, v.values, g[v.at.c - 1])
    BY <1>14 DEF Good
  <1>16. v.at.c = n + 1
    <2> SUFFICES ASSUME v.at.c # n + 1 PROVE FALSE
      OBVIOUS
    <2> DEFINE c == v.at.c
    <2>1. c \in starts /\ c \in 1..n /\ c \in 0..n /\ c - 1 \in 0..n
      BY <1>0, <1>15
    <2> HIDE DEF c
    <2>2. g[c] = Append(g[c - 1], s[c]) /\ g[c - 1] \in Seq(A) /\ s[c] \in A
      BY <1>1, <1>3, <2>1
    <2>3. Len(g[c]) = Len(g[c - 1]) + 1
      BY <2>2, AppendProperties
    <2>4. Len(g[c - 1]) = m
      BY <1>14, <1>15 DEF EntriesAre, c
    <2>5. Len(g[c]) <= Len(g[n])
      BY <1>0, <1>1, <1>2, <2>1, PicksGrow
    <2> QED
      BY <1>3, <1>7, <2>3, <2>4, <2>5
  <1>17. EntriesAre(v.at, v.values, ws)
    <2>1. (n + 1) - 1 = n
      BY <1>0
    <2> QED
      BY <1>3, <1>15, <1>16, <2>1
  <1> QED
    BY <1>4, <1>15, <1>17 DEF s, starts

(* Without places nothing is picked. *)
LEMMA PickedNone ==
    ASSUME NEW A, NEW s \in Seq(A), NEW P, P \cap 1..Len(s) = {}
    PROVE  Picked(s, P) = <<>>
  <1> DEFINE n == Len(s)
  <1>1. n \in Nat
    BY LenProperties
  <1>2. Gap(P, n, 0, n)
    BY <1>1 DEF Gap
  <1> HIDE DEF n
  <1>3. PICK f : Picks(A, s, P, n, f)
    BY <1>1, PickedTo DEF n
  <1>5. f[n] = f[0]
    BY <1>2, <1>3, PicksStay
  <1> QED
    BY <1>3, <1>5 DEF Picks

(* What the event of _environ_telnet has for the pointers of an entry. *)
EntryText(m, e) == <<e.type, CString(m, e.var), IF e.value = 0 THEN <<>> ELSE CString(m, e.value)>>

LEMMA EntryTextIs ==
    ASSUME NEW m \in Seq(Bytes), NEW out \in 1..Len(m) + 1, NEW e, NEW p, NEW k,
           EntryAt(m, out, e, EnvironEntry(p, k))
    PROVE  EntryText(m, e) = EnvironEntry(p, k)
  <1> DEFINE w == EnvironEntry(p, k)
  <1>1. w = <<w[1], w[2], w[3]>>
    BY DEF EnvironEntry
  <1> HIDE DEF w
  <1>2. /\ e.type = w[1] /\ Kept(m, out, e.var, w[2])
        /\ IF e.value = 0 THEN w[3] = <<>> ELSE Kept(m, out, e.value, w[3])
    BY DEF EntryAt, w
  <1>3. CString(m, e.var) = w[2]
    BY <1>2, KeptIs
  <1>4. (IF e.value = 0 THEN <<>> ELSE CString(m, e.value)) = w[3]
    BY <1>2, KeptIs
  <1>5. EntryText(m, e) = <<w[1], w[2], w[3]>>
    BY <1>2, <1>3, <1>4 DEF EntryText
  <1> QED
    BY <1>1, <1>5 DEF w

LEMMA EnvironReads ==
    ASSUME NEW p, NEW n, EnvironPayload(p, n), NEW v, v = Variables(p, Count(p))
    PROVE  [k \in DOMAIN v.values |-> EntryText(v.at.mem, v.values[k])] =
               Picked(EnvironEntries(p), Marks(p, STARTS))
  <1> DEFINE s == EnvironEntries(p)
             starts == Marks(p, STARTS)
             ws == Picked(s, starts)
             m == Len(ws)
             A == {EnvironEntry(p, k) : k \in 1..n}
             mem1 == v.at.mem
             out1 == v.at.out
  <1>0. p \in Seq(Bytes) /\ n \in Nat /\ n = Len(p)
    BY DEF EnvironPayload
  <1>1. m = Count(p)
    BY VariablesAre
  <1>2. Reading(v.at, p, n) /\ EntriesAre(v.at, v.values, ws)
    BY <1>1, VariablesAre
  <1>3. ws \in Seq(A)
    <2>1. DOMAIN p = 1..n
      BY <1>0, LenProperties
    <2>2. s = [k \in 1..n |-> EnvironEntry(p, k)]
      BY <2>1 DEF EnvironEntries
    <2>3. s \in [1..n -> A]
      BY <2>2
    <2> HIDE DEF s, A, starts
    <2>4. s \in Seq(A) /\ Len(s) = n
      BY <1>0, <2>3, FunctionIsSeq
    <2>5. PICK f : Picks(A, s, starts, n, f)
      BY <1>0, <2>4, PickedTo
    <2>6. n \in 0..n
      BY <1>0
    <2> QED
      BY <2>5, <2>6 DEF Picks
  <1>4. /\ mem1 \in Seq(Bytes) /\ out1 \in 1..Len(mem1) + 1
    BY <1>0, <1>2 DEF Reading, Place
  <1> HIDE DEF s, starts, ws, mem1, out1
  <1>5. /\ v.values \in Seq(Entry) /\ Len(v.values) = m /\ m \in Nat
        /\ \A ix \in 1..m : EntryAt(mem1, out1, v.values[ix], ws[ix])
    BY <1>2, <1>3, LenProperties DEF EntriesAre, mem1, out1
  <1>6. DOMAIN v.values = 1..m /\ DOMAIN ws = 1..m /\ ws = [ix \in 1..m |-> ws[ix]]
    BY <1>3, <1>5, LenProperties
  <1>7. ASSUME NEW ix \in 1..m PROVE EntryText(mem1, v.values[ix]) = ws[ix]
    <2>1. ws[ix] \in A
      BY <1>3, ElementOfSeq
    <2>2. PICK k : ws[ix] = EnvironEntry(p, k)
      BY <2>1
    <2>3. EntryAt(mem1, out1, v.values[ix], EnvironEntry(p, k))
      BY <1>5, <2>2
    <2> QED
      BY <1>4, <2>2, <2>3, EntryTextIs
  <1> HIDE DEF m
  <1>8. [k \in DOMAIN v.values |-> EntryText(mem1, v.values[k])] = ws
    BY <1>6, <1>7
  <1> QED
    BY <1>8 DEF mem1, ws, s, starts

(* _environ_telnet tells what the payload means. *)
LEMMA EnvironMeaning ==
    ASSUME NEW p \in Seq(Bytes), ~Excepted("ENVIRON", p)
    PROVE  environ_telnet(p) = EnvironMeans(p)
  <1> DEFINE n == Len(p)
             v == Variables(p, Count(p))
             ws == Picked(EnvironEntries(p), Marks(p, STARTS))
             cmds == {ENVIRON_IS, ENVIRON_SEND, ENVIRON_INFO}
             bad == p[1] \notin cmds
             worse == n > 1 /\ (2 \notin Marks(p, STARTS) \/ (p[n] = ENVIRON_ESC /\ n \notin Escaped(p)))
             texts == [k \in DOMAIN v.values |-> EntryText(v.at.mem, v.values[k])]
  <1>1. n \in Nat /\ (n = 0 <=> p = <<>>) /\ n # 0 => p[1] \in Bytes
    BY LenProperties, EmptySeq, ElementOfSeq
  <1>2. EnvironMeans(p) = IF p = <<>> THEN <<>>
                          ELSE IF bad \/ worse THEN <<Error("protocol")>>
                          ELSE <<Environ(p[1], ws)>>
    BY DEF EnvironMeans, EnvironEntries, STARTS
  <1>3. environ_telnet(p) =
            CASE n = 0 -> <<>>
              [] n > 0 /\ bad -> <<Error("protocol")>>
              [] n = 1 /\ ~bad -> <<Environ(p[1], <<>>)>>
              [] OTHER -> IF p[2] \notin STARTS \/ p[n] = ENVIRON_ESC
                          THEN <<Error("protocol")>>
                          ELSE <<Environ(p[1], texts)>>
    BY DEF environ_telnet, EntryText, STARTS
  <1>4. n > 1 => (2 \in Marks(p, STARTS) <=> p[2] \in STARTS)
    <2>1. 2 \notin Escaped(p)
      BY <1>1, EscapedNext
    <2>2. n > 1 => 2 \in 2..n
      BY <1>1
    <2> QED
      BY <2>1, <2>2 DEF Marks
  <1>5. CASE n = 0
    BY <1>1, <1>2, <1>3, <1>5
  <1>6. CASE n > 0 /\ bad
    BY <1>1, <1>2, <1>3, <1>6
  <1>7. CASE n = 1 /\ ~bad
    <2>1. ws = <<>>
      <3> DEFINE s == EnvironEntries(p)
                 A == {EnvironEntry(p, k) : k \in 1..n}
      <3>1. DOMAIN p = 1..n
        BY LenProperties
      <3>2. s \in [1..n -> A]
        BY <3>1 DEF EnvironEntries
      <3> HIDE DEF s, A
      <3>3. s \in Seq(A) /\ Len(s) = n
        BY <1>1, <3>2, FunctionIsSeq
      <3>4. Marks(p, STARTS) \cap 1..Len(s) = {}
        BY <1>7, <3>3 DEF Marks
      <3> QED
        BY <3>3, <3>4, PickedNone DEF s
    <2>2. ~worse
      BY <1>7
    <2>3. p # <<>>
      BY <1>1, <1>7
    <2> HIDE DEF ws, worse, texts
    <2>4. environ_telnet(p) = <<Environ(p[1], <<>>)>>
      BY <1>3, <1>7
    <2>5. EnvironMeans(p) = <<Environ(p[1], ws)>>
      BY <1>2, <1>7, <2>2, <2>3
    <2> QED
      BY <2>1, <2>4, <2>5
  <1>8. CASE n > 1 /\ ~bad /\ (p[2] \notin STARTS \/ p[n] = ENVIRON_ESC)
    <2>1. worse
      BY <1>4, <1>8 DEF Excepted
    <2>2. p # <<>>
      BY <1>1, <1>8
    <2> HIDE DEF ws, worse, texts
    <2>3. environ_telnet(p) = <<Error("protocol")>>
      BY <1>1, <1>3, <1>8
    <2>4. EnvironMeans(p) = <<Error("protocol")>>
      BY <1>2, <2>1, <2>2
    <2> QED
      BY <2>3, <2>4
  <1>9. CASE n > 1 /\ ~bad /\ p[2] \in STARTS /\ p[n] # ENVIRON_ESC
    <2>1. ~worse
      BY <1>4, <1>9
    <2>2. p # <<>>
      BY <1>1, <1>9
    <2>3. EnvironPayload(p, n)
      BY <1>1, <1>4, <1>9 DEF EnvironPayload
    <2>4. texts = ws
      BY <2>3, EnvironReads
    <2> HIDE DEF ws, worse, texts
    <2>5. environ_telnet(p) = <<Environ(p[1], texts)>>
      BY <1>1, <1>3, <1>9
    <2>6. EnvironMeans(p) = <<Environ(p[1], ws)>>
      BY <1>2, <1>9, <2>1, <2>2
    <2> QED
      BY <2>4, <2>5, <2>6
  <1>10. n = 0 \/ (n > 0 /\ bad) \/ (n = 1 /\ ~bad) \/ (n > 1 /\ ~bad)
    BY <1>1
  <1> QED
    BY <1>5, <1>6, <1>7, <1>8, <1>9, <1>10

(***************************************************************************)
(* ZMP and the terminal type: strings that are read where they are.        *)
(***************************************************************************)
LEMMA UpToNulWhole ==
    ASSUME NEW x \in Seq(Bytes), \A k \in 1..Len(x) : x[k] # "NUL"
    PROVE  UpToNul(x) = x
  <1>1. PICK e \in 1..Len(x) + 1 : UpToNul(x) = SubSeq(x, 1, e - 1) /\ (e <= Len(x) => x[e] = "NUL")
    BY UpToNulIs
  <1>2. Len(x) \in Nat
    BY LenProperties
  <1>3. e = Len(x) + 1
    BY <1>1, <1>2
  <1>4. SubSeq(x, 1, Len(x)) = x
    BY SubSeqFull
  <1> QED
    BY <1>1, <1>2, <1>3, <1>4

(* A string within p that ends where its terminator stands. *)
LEMMA CStringWithin ==
    ASSUME NEW p \in Seq(Bytes), NEW n \in Nat, n = Len(p), NEW c \in 1..n, NEW e \in c..n,
           p[e] = "NUL", \A l \in c..e - 1 : p[l] # "NUL"
    PROVE  CString(p, c) = SubSeq(p, c, e - 1) /\ Len(SubSeq(p, c, e - 1)) = e - c
  <1> DEFINE x == SubSeq(p, c, e - 1)
  <1>1. x \in Seq(Bytes) /\ Len(x) = e - c /\ \A j \in 1..e - c : x[j] = p[(c + j) - 1]
    <2>1. c \in 1..n + 1 /\ e - 1 \in c - 1..n
      OBVIOUS
    <2>2. (e - 1) - c + 1 = e - c
      OBVIOUS
    <2>3. \A j \in 1..e - c : (c + j) - 1 = c + j - 1
      OBVIOUS
    <2> QED
      BY <2>1, <2>2, <2>3, SubSeqProperties, Z3
  <1>2. \A j \in 1..e - c : (c + j) - 1 \in c..e - 1
    OBVIOUS
  <1> HIDE DEF x
  <1>3. \A k \in 1..Len(x) : x[k] # "NUL"
    BY <1>1, <1>2
  <1>4. StringAt(p, c, e, x)
    <2>1. c \in Nat \ {0} /\ e = c + Len(x)
      BY <1>1
    <2> QED
      BY <1>1, <2>1 DEF StringAt
  <1>5. e \in 1..Len(p)
    OBVIOUS
  <1>6. CString(p, c) = UpToNul(x)
    BY <1>4, <1>5, CStringIs
  <1>7. CString(p, c) = x
    BY <1>1, <1>3, <1>6, UpToNulWhole
  <1> QED
    BY <1>1, <1>7 DEF x

(* _ttype_telnet tells what the payload means. *)
LEMMA TtypeMeaning == \A p \in Seq(Bytes) : ttype_telnet(p) = TtypeMeans(p)
  <1> SUFFICES ASSUME NEW p \in Seq(Bytes) PROVE ttype_telnet(p) = TtypeMeans(p)
    OBVIOUS
  <1>1. CASE p = <<>>
    BY <1>1 DEF ttype_telnet, TtypeMeans
  <1>2. CASE p # <<>>
    <2> DEFINE x == Tail(p)
               m == Append(x, "NUL")
    <2>1. x \in Seq(Bytes) /\ "NUL" \in Bytes
      BY <1>2, HeadTailProperties, BytesAssumption
    <2> HIDE DEF x
    <2>2. Len(x) \in Nat
      BY <2>1, LenProperties
    <2>3. m \in Seq(Bytes) /\ Len(m) = Len(x) + 1 /\ m[Len(x) + 1] = "NUL"
          /\ \A j \in 1..Len(x) : m[j] = x[j]
      BY <2>1, AppendProperties
    <2>4. StringAt(m, 1, Len(x) + 1, x)
      <3>1. \A j \in 1..Len(x) : (1 + j) - 1 = j
        OBVIOUS
      <3> QED
        BY <2>1, <2>2, <2>3, <3>1 DEF StringAt
    <2>5. CString(m, 1) = UpToNul(x)
      <3> DEFINE e == Len(x) + 1
      <3>1. e \in 1..Len(m) /\ StringAt(m, 1, e, x) /\ m \in Seq(Bytes)
        BY <2>2, <2>3, <2>4
      <3> HIDE DEF e, m
      <3> QED
        BY <3>1, CStringIs
    <2>6. CString(Append(Tail(p), "NUL"), 1) = UpToNul(Tail(p))
      BY <2>5 DEF x
    <2> QED
      BY <1>2, <2>6 DEF ttype_telnet, TtypeMeans, TTYPE_IS, TTYPE_SEND
  <1> QED
    BY <1>1, <1>2

(* The loop of _zmp_telnet. *)
ArgumentsTurn(buffer) ==
    [t \in [c : Nat, argv : Seq(Seq(Bytes))] |->
        IF t.c > Len(buffer) THEN t
        ELSE LET arg == CString(buffer, t.c)
             IN  [c |-> t.c + Len(arg) + 1, argv |-> Append(t.argv, arg)]]

LEMMA ArgumentsLoop ==
    \A buffer : Arguments(buffer) = Loop(ArgumentsTurn(buffer), [c |-> 1, argv |-> <<>>], Len(buffer)).argv
  BY DEF Arguments, ArgumentsTurn

Ends(p) == {k \in DOMAIN p : p[k] = "NUL"}
ZmpPart(p, k) == SubSeq(p, Max({0} \cup {l \in Ends(p) : l < k}) + 1, k - 1)

(* The part that ends at e begins behind the end before it. *)
LEMMA ZmpPartIs ==
    ASSUME NEW p \in Seq(Bytes), NEW n \in Nat, n = Len(p), NEW c \in 1..n, NEW e \in c..n,
           c > 1 => c - 1 \in Ends(p), \A l \in c..e - 1 : l \notin Ends(p)
    PROVE  ZmpPart(p, e) = SubSeq(p, c, e - 1)
  <1> DEFINE S == {0} \cup {l \in Ends(p) : l < e}
             m == Max(S)
  <1>0. DOMAIN p = 1..n
    BY LenProperties
  <1>1. S \subseteq 0..n
    BY <1>0 DEF Ends
  <1>2. m \in S /\ \A y \in S : y <= m
    <2>1. S # {}
      <3>1. 0 \in S
        OBVIOUS
      <3> QED
        BY <3>1
    <2> HIDE DEF S
    <2> QED
      BY <1>1, <2>1, MaxIs
  <1>3. c - 1 \in S
    OBVIOUS
  <1>4. m \in 0..n
    BY <1>1, <1>2
  <1> HIDE DEF m
  <1>5. m >= c - 1
    BY <1>2, <1>3
  <1>6. ~(m >= c)
    <2> SUFFICES ASSUME m >= c PROVE FALSE
      OBVIOUS
    <2>1. m \in Ends(p) /\ m < e
      BY <1>2
    <2>2. m \in c..e - 1
      BY <1>4, <2>1
    <2> QED
      BY <2>1, <2>2
  <1>7. m + 1 = c
    BY <1>4, <1>5, <1>6
  <1> QED
    BY <1>7 DEF ZmpPart, m

(* _zmp_telnet reads all parts. *)
LEMMA ArgumentsAre ==
    ASSUME NEW p \in Seq(Bytes), NEW n \in Nat, n = Len(p), n \in Ends(p)
    PROVE  Arguments(p) = Picked([k \in DOMAIN p |-> ZmpPart(p, k)], Ends(p))
  <1> DEFINE A == Seq(Bytes)
             P == Ends(p)
             s == [k \in DOMAIN p |-> ZmpPart(p, k)]
  <1>0. DOMAIN p = 1..n /\ P \subseteq 1..n
    BY LenProperties DEF Ends
  <1>00. n \in Nat /\ n = Len(p) /\ p \in Seq(Bytes)
    OBVIOUS
  <1>1. s \in Seq(A) /\ Len(s) = n /\ \A k \in 1..n : s[k] = ZmpPart(p, k)
    <2>1. ASSUME NEW k \in 1..n PROVE ZmpPart(p, k) \in A
      <3> DEFINE S == {0} \cup {l \in Ends(p) : l < k}
      <3>1. S \subseteq 0..n
        BY <1>0
      <3>2. 0 \in S /\ S # {}
        OBVIOUS
      <3>3. Max(S) \in S
        <4> HIDE DEF S
        <4> QED
          BY <3>1, <3>2, MaxIs
      <3>4. Max(S) + 1 \in 1..k /\ k - 1 \in Nat /\ k - 1 <= n
        BY <3>1, <3>3
      <3>5. \A a \in 1..k : SubSeq(p, a, k - 1) \in Seq(Bytes)
        BY <1>0
      <3> QED
        BY <3>4, <3>5 DEF ZmpPart
    <2>2. s \in [1..n -> A] /\ \A k \in 1..n : s[k] = ZmpPart(p, k)
      BY <1>0, <2>1
    <2> HIDE DEF s, A
    <2> QED
      BY <2>2, FunctionIsSeq
  <1> HIDE DEF s, A, P
  <1>2. PICK g : Picks(A, s, P, n, g)
    BY <1>1, PickedTo
  <1>3. g \in [0..n -> Seq(A)] /\ g[0] = <<>> /\ Picked(s, P) = g[n]
        /\ \A k \in 1..n : g[k] = IF k \in P THEN Append(g[k - 1], s[k]) ELSE g[k - 1]
    BY <1>2 DEF Picks
  <1> DEFINE T == [c : Nat, argv : Seq(Seq(Bytes))]
             Y == [j \in 0..n |-> {t \in T :
                      /\ t.c \in 1..n + 1 /\ j < t.c
                      /\ t.c > 1 => t.c - 1 \in P
                      /\ t.argv = g[t.c - 1]}]
             turn == ArgumentsTurn(p)
             s0 == [c |-> 1, argv |-> <<>>]
  <1>4. s0 \in Y[0]
    BY <1>3
  <1>5. ASSUME NEW j \in 1..n, NEW t \in Y[j - 1]
        PROVE  turn[t] \in Y[j]
    <2>0. j - 1 \in 0..n
      OBVIOUS
    <2>1. t \in T /\ t.c \in 1..n + 1 /\ j - 1 < t.c /\ (t.c > 1 => t.c - 1 \in P) /\ t.argv = g[t.c - 1]
      BY <2>0
    <2> DEFINE c == t.c
               arg == CString(p, c)
    <2>1a. turn[t] = IF c > n THEN t ELSE [c |-> c + Len(arg) + 1, argv |-> Append(t.argv, arg)]
      <3> HIDE DEF Y
      <3> QED
        BY <2>1 DEF ArgumentsTurn
    <2> HIDE DEF T, Y, turn, arg
    <2>2. CASE c > n
      <3>1. turn[t] = t
        BY <2>1a, <2>2
      <3>2. j < t.c
        BY <2>1, <2>2
      <3> QED
        BY <2>1, <3>1, <3>2 DEF Y
    <2>3. CASE c <= n
      <3> DEFINE k == c - 1
                 e == Following(P, k, p)
      <3>0. c \in 1..n + 1 /\ j - 1 < c /\ (c > 1 => c - 1 \in P) /\ t.argv = g[c - 1]
        BY <2>1
      <3> HIDE DEF c
      <3>1. k \in 0..n /\ c \in 1..n /\ k + 1 = c
        BY <2>3, <3>0
      <3>2. e \in Nat /\ k < e /\ e <= n + 1 /\ (e <= n => e \in P) /\ \A l \in k + 1..e - 1 : l \notin P
        <4>1. P \subseteq 1..n /\ k \in 0..n
          BY <1>0, <3>1
        <4>2. e = Following(P, k, p)
          OBVIOUS
        <4> HIDE DEF k, e
        <4>3. e \in Nat /\ k < e /\ e <= n + 1
          BY ONLY <1>00, <4>1, <4>2, FollowingIs
        <4>4. e <= n => e \in P
          BY ONLY <1>00, <4>1, <4>2, FollowingIs
        <4>5. \A l \in k + 1..e - 1 : l \notin P
          BY ONLY <1>00, <4>1, <4>2, FollowingIs
        <4> QED
          BY <4>3, <4>4, <4>5
      <3> HIDE DEF e, k
      <3>3. e # n + 1
        <4> SUFFICES ASSUME e = n + 1 PROVE FALSE
          OBVIOUS
        <4>1. n \in k + 1..e - 1
          BY <3>1
        <4>2. n \in P
          BY DEF P
        <4> QED
          BY <3>2, <4>1, <4>2
      <3>4. e \in c..n /\ e \in P /\ \A l \in c..e - 1 : l \notin P
        BY <3>1, <3>2, <3>3
      <3>5. CString(p, c) = SubSeq(p, c, e - 1) /\ Len(SubSeq(p, c, e - 1)) = e - c
        <4>1. p[e] = "NUL"
          BY <3>4 DEF P, Ends
        <4>2. ASSUME NEW l \in c..e - 1 PROVE p[l] # "NUL"
          <5>1. l \in 1..n
            BY <3>1, <3>4
          <5> QED
            BY <1>0, <3>4, <5>1 DEF P, Ends
        <4> QED
          BY ONLY <1>00, <3>1, <3>4, <4>1, <4>2, CStringWithin
      <3>6. s[e] = SubSeq(p, c, e - 1)
        <4>1. c > 1 => c - 1 \in Ends(p)
          BY <3>0 DEF P
        <4>2. \A l \in c..e - 1 : l \notin Ends(p)
          BY <3>4 DEF P
        <4>3. s[e] = ZmpPart(p, e)
          BY <1>1, <3>1, <3>4
        <4>4. ZmpPart(p, e) = SubSeq(p, c, e - 1)
          BY ONLY <1>00, <3>1, <3>4, <4>1, <4>2, ZmpPartIs
        <4> QED
          BY <4>3, <4>4
      <3>7. g[e - 1] = g[c - 1]
        <4> DEFINE a == c - 1
                   b == e - 1
        <4>1. Gap(P, n, a, b)
          BY <3>1, <3>4 DEF Gap
        <4> HIDE DEF a, b
        <4>3. g[b] = g[a]
          BY <1>2, <4>1, PicksStay
        <4> QED
          BY <4>3 DEF a, b
      <3>8. g[e] = Append(g[c - 1], SubSeq(p, c, e - 1))
        <4>1. e \in 1..n
          BY <3>1, <3>4
        <4> QED
          BY <1>3, <3>4, <3>6, <3>7, <4>1
      <3>9. turn[t] = [c |-> e + 1, argv |-> g[e]]
        <4>1. turn[t] = [c |-> c + Len(arg) + 1, argv |-> Append(t.argv, arg)]
          BY <2>1a, <2>3, <3>1
        <4>2. Len(arg) = e - c /\ Append(t.argv, arg) = g[e]
          BY <3>0, <3>5, <3>8 DEF arg
        <4>3. c + (e - c) + 1 = e + 1
          BY <3>1, <3>4
        <4> QED
          BY <4>1, <4>2, <4>3
      <3>10. e + 1 \in 1..n + 1 /\ j < e + 1 /\ (e + 1) - 1 = e
        BY <3>0, <3>1, <3>4
      <3>11. g[e] \in Seq(Seq(Bytes))
        <4>1. e \in 0..n
          BY <3>1, <3>4
        <4> QED
          BY <1>3, <4>1 DEF A
      <3>12. turn[t] \in T
        BY <3>9, <3>10, <3>11 DEF T
      <3> QED
        BY <3>4, <3>9, <3>10, <3>12 DEF Y
    <2> QED
      BY <2>1, <2>2, <2>3
  <1> HIDE DEF Y, turn, s0
  <1>6. Loop(turn, s0, n) \in Y[n]
    BY <1>4, <1>5, LoopKeeps
  <1>7. Loop(turn, s0, n).argv = g[n]
    <2> DEFINE t == Loop(turn, s0, n)
    <2> HIDE DEF t
    <2>1. t \in Y[n]
      BY <1>6 DEF t
    <2>2. t.c \in 1..n + 1 /\ n < t.c /\ t.argv = g[t.c - 1]
      BY <2>1 DEF Y
    <2>3. t.c - 1 = n
      BY <2>2
    <2> QED
      BY <2>2, <2>3 DEF t
  <1> QED
    BY <1>3, <1>7, ArgumentsLoop DEF turn, s0, s, P

(* _zmp_telnet tells what the payload means. *)
LEMMA ZmpMeaning == \A p \in Seq(Bytes) : zmp_telnet(p) = ZmpMeans(p)
  <1> SUFFICES ASSUME NEW p \in Seq(Bytes) PROVE zmp_telnet(p) = ZmpMeans(p)
    OBVIOUS
  <1> DEFINE n == Len(p)
  <1>1. n \in Nat /\ DOMAIN p = 1..n /\ (n = 0 <=> p = <<>>)
    BY LenProperties, EmptySeq
  <1>2. ZmpMeans(p) = IF n \notin Ends(p) THEN <<Error("protocol")>>
                      ELSE <<Zmp(Picked([k \in DOMAIN p |-> ZmpPart(p, k)], Ends(p)))>>
    BY DEF ZmpMeans, ZmpPart, Ends
  <1>3. zmp_telnet(p) = IF p = <<>> THEN <<Error("protocol")>>
                        ELSE IF p[n] # "NUL" THEN <<Error("protocol")>>
                        ELSE <<Zmp(Arguments(p))>>
    BY DEF zmp_telnet, Last
  <1>4. n \in Ends(p) <=> p # <<>> /\ p[n] = "NUL"
    BY <1>1 DEF Ends
  <1>5. n \in Ends(p) => Arguments(p) = Picked([k \in DOMAIN p |-> ZmpPart(p, k)], Ends(p))
    BY <1>1, ArgumentsAre
  <1> QED
    BY <1>2, <1>3, <1>4, <1>5

(***************************************************************************)
(* MSSP: names and values are moved as those of ENVIRON are, but nothing   *)
(* is escaped.                                                             *)
(***************************************************************************)
MsspMarks(p) == {m \in DOMAIN p : p[m] \in {MSSP_VAR, MSSP_VAL}}
MsspText(p, l) == UpToNul(Picked(p, l + 1..Following(MsspMarks(p), l, p) - 1))
Owner(p, k) == Max({1} \cup {l \in 2..k - 1 : p[l] = MSSP_VAR})

LEMMA MsspEntryIs ==
    \A p, k : MsspEntry(p, k) = <<MsspText(p, Owner(p, k)), MsspText(p, k)>>
  BY DEF MsspEntry, MsspText, MsspMarks, Owner

(* Reading behind the mark at q, with what lies ahead intact. *)
AtMark(s, p, n, q) ==
    /\ s \in Place /\ Len(s.mem) = n /\ q \in 1..n + 1 /\ s.c = q + 1 /\ s.out \in 1..q
    /\ \A k \in q + 1..n : s.mem[k] = p[k]
    /\ q <= n => q \in MsspMarks(p)

MsspPayload(p, n) == p \in Seq(Bytes) /\ n \in Nat /\ n = Len(p) /\ n > 0 /\ p[1] = MSSP_VAR

LEMMA MarkFollows ==
    ASSUME NEW p, NEW n, MsspPayload(p, n), NEW q \in 0..n,
           NEW b, b = Following(MsspMarks(p), q, p)
    PROVE  /\ b \in Nat /\ q < b /\ b <= n + 1
           /\ b <= n => b \in MsspMarks(p)
           /\ \A l \in q + 1..b - 1 : l \notin MsspMarks(p)
  <1> DEFINE marks == MsspMarks(p)
  <1>1. n \in Nat /\ n = Len(p) /\ marks \subseteq 1..n
    BY LenProperties DEF MsspPayload, MsspMarks
  <1> HIDE DEF marks
  <1>2. b = Following(marks, q, p)
    BY DEF marks
  <1>3. b \in Nat /\ q < b /\ b <= n + 1
    BY <1>1, <1>2, FollowingIs
  <1>4. b <= n => b \in marks
    BY <1>1, <1>2, FollowingIs
  <1>5. \A l \in q + 1..b - 1 : l \notin marks
    BY <1>1, <1>2, FollowingIs
  <1> QED
    BY <1>3, <1>4, <1>5 DEF marks

(* The owner changes where a name begins. *)
LEMMA OwnerNext ==
    ASSUME NEW p, NEW n, MsspPayload(p, n), NEW q \in Nat, 0 < q, q < n,
           NEW b, b = Following(MsspMarks(p), q, p)
    PROVE  Owner(p, b) = IF p[q] = MSSP_VAR THEN q ELSE Owner(p, q)
  <1> DEFINE S == {1} \cup {l \in 2..b - 1 : p[l] = MSSP_VAR}
             R == {1} \cup {l \in 2..q - 1 : p[l] = MSSP_VAR}
  <1>0. p \in Seq(Bytes) /\ n \in Nat /\ n = Len(p) /\ DOMAIN p = 1..n
    BY LenProperties DEF MsspPayload
  <1>00. b \in Nat /\ q < b /\ b <= n + 1 /\ \A l \in q + 1..b - 1 : l \notin MsspMarks(p)
    <2>1. q \in 0..n
      BY <1>0
    <2>2. b \in Nat /\ q < b /\ b <= n + 1
      BY <2>1, MarkFollows
    <2>4. \A l \in q + 1..b - 1 : l \notin MsspMarks(p)
      BY <2>1, MarkFollows
    <2> QED
      BY <2>2, <2>4
  <1>1. S \subseteq 0..n /\ 1 \in S
    BY <1>0, <1>00
  <1>2. \A l \in q + 1..b - 1 : l \in 1..n
    BY <1>0, <1>00
  <1>3. \A l \in q + 1..b - 1 : p[l] # MSSP_VAR
    BY <1>0, <1>00, <1>2 DEF MsspMarks
  <1>4. ASSUME NEW l \in S PROVE l <= q
    <2> SUFFICES ASSUME ~(l <= q) PROVE FALSE
      OBVIOUS
    <2>1. l \in q + 1..b - 1 /\ p[l] = MSSP_VAR
      BY <1>00
    <2> QED
      BY <1>3, <2>1
  <1>5. CASE p[q] = MSSP_VAR
    <2>1. q \in S
      BY <1>00, <1>5
    <2>2. Max(S) \in S /\ \A y \in S : y <= Max(S)
      <3>1. S # {}
        BY <1>1
      <3> HIDE DEF S
      <3> QED
        BY <1>0, <1>1, <3>1, MaxIs
    <2>3. Max(S) \in Nat /\ Max(S) <= q /\ q <= Max(S)
      <3> DEFINE m == Max(S)
      <3>1. m \in S /\ q <= m
        BY <2>1, <2>2
      <3> HIDE DEF m
      <3>2. m \in 0..n /\ m <= q
        BY <1>1, <1>4, <3>1
      <3> QED
        BY <1>0, <3>1, <3>2 DEF m
    <2>4. Max(S) = q
      BY <2>3
    <2> QED
      BY <1>5, <2>4 DEF Owner
  <1>6. CASE p[q] # MSSP_VAR
    <2>1. S = R
      <3>1. ASSUME NEW l \in S PROVE l \in R
        <4>1. l = 1 \/ (l \in 2..b - 1 /\ p[l] = MSSP_VAR /\ l <= q /\ l # q)
          BY <1>4, <1>6
        <4> QED
          BY <4>1
      <3>2. ASSUME NEW l \in R PROVE l \in S
        BY <1>00
      <3> QED
        BY <3>1, <3>2
    <2> QED
      BY <1>6, <2>1 DEF Owner
  <1> QED
    BY <1>5, <1>6

(* One string is moved: from s to r, whose mark is at b. *)
TextMoved(s, r, p, n, q, b) ==
    /\ AtMark(Skip(r), p, n, b) /\ r.c = b /\ (b <= n => r.mem[b] = p[b])
    /\ s.out < Skip(r).out /\ \A k \in 1..s.out - 1 : Skip(r).mem[k] = s.mem[k]
    /\ Kept(Skip(r).mem, Skip(r).out, s.out, MsspText(p, q))

LEMMA TextIsMoved ==
    ASSUME NEW p, NEW n, MsspPayload(p, n), NEW q \in Nat, 0 < q, q < n, NEW s, AtMark(s, p, n, q),
           NEW b, b = Following(MsspMarks(p), q, p),
           NEW r, r = MoveString(s, {MSSP_VAR, MSSP_VAL})
    PROVE  TextMoved(s, r, p, n, q, b)
  <1> DEFINE M == {MSSP_VAR, MSSP_VAL}
             K == 1..n
             a == q + 1
             x == Picked(p, K \cap a..b - 1)
  <1>1. p \in Seq(Bytes) /\ n \in Nat /\ n = Len(p) /\ DOMAIN p = 1..n
    BY LenProperties DEF MsspPayload
  <1>2. b \in Nat /\ q < b /\ b <= n + 1 /\ (b <= n => b \in MsspMarks(p))
        /\ \A l \in q + 1..b - 1 : l \notin MsspMarks(p)
    <2>1. q \in 0..n
      BY <1>1
    <2>2. b \in Nat /\ q < b /\ b <= n + 1
      BY <2>1, MarkFollows
    <2>3. b <= n => b \in MsspMarks(p)
      BY <2>1, MarkFollows
    <2>4. \A l \in q + 1..b - 1 : l \notin MsspMarks(p)
      BY <2>1, MarkFollows
    <2> QED
      BY <2>2, <2>3, <2>4
  <1>3. /\ s \in Place /\ Len(s.mem) = n /\ s.c = a /\ s.out \in 1..q /\ \A k \in a..n : s.mem[k] = p[k]
    BY DEF AtMark
  <1>4. Span(p, n, M, {}, K, a, b)
    <2>1. a \in 1..n + 1 /\ b \in a..n + 1
      BY <1>1, <1>2
    <2>2. b <= n => p[b] \in M
      BY <1>2 DEF MsspMarks
    <2>3. ASSUME NEW k \in a..b - 1 PROVE p[k] \notin M /\ p[k] # ENVIRON_ESC /\ k \in K
      <3>1. k \in 1..n
        BY <1>1, <1>2
      <3>2. k \notin MsspMarks(p)
        BY <1>2
      <3> QED
        BY <1>1, <3>1, <3>2 DEF MsspMarks, MSSP_VAL, ENVIRON_ESC
    <2> HIDE DEF M, K, a
    <2> QED
      BY <2>1, <2>2, <2>3 DEF Span
  <1>5. s.out \in 1..n /\ s.out < s.c
    BY <1>1, <1>3
  <1>6. Stored(r, s.mem, p, n, b, s.out, x)
    <2> HIDE DEF M, K
    <2>1. Span(p, n, M, {}, K, s.c, b) /\ \A k \in s.c..n : s.mem[k] = p[k]
      BY <1>3, <1>4
    <2>2. Stored(MoveString(s, M), s.mem, p, n, b, s.out, Picked(p, K \cap s.c..b - 1))
      BY <1>1, <1>3, <1>5, <2>1, MoveStringIs
    <2> QED
      BY <1>3, <2>2 DEF M
  <1>7. UpToNul(x) = MsspText(p, q)
    <2>1. K \cap a..b - 1 = q + 1..b - 1
      BY <1>1, <1>2
    <2> QED
      BY <2>1 DEF MsspText
  <1> HIDE DEF x, K, M
  <1>8. Kept(r.mem, r.out, s.out, MsspText(p, q))
    <2> DEFINE old == s.mem
               from == s.out
    <2>1. n \in Nat /\ b \in Nat /\ Stored(r, old, p, n, b, from, x)
      BY <1>1, <1>2, <1>6
    <2> HIDE DEF old, from
    <2>2. Kept(r.mem, r.out, from, UpToNul(x))
      BY ONLY <2>1, StoredIsKept
    <2> QED
      BY <1>7, <2>2 DEF from
  <1>9. /\ r \in Place /\ r.c = b /\ Len(r.mem) = n /\ r.out \in 2..b /\ s.out < r.out
        /\ \A k \in b..n : r.mem[k] = p[k]
        /\ \A k \in 1..s.out - 1 : r.mem[k] = s.mem[k]
    BY <1>6 DEF Stored
  <1>10. Skip(r) \in Place /\ Skip(r).mem = r.mem /\ Skip(r).c = b + 1 /\ Skip(r).out = r.out
    BY <1>9, SkipIs
  <1>11. AtMark(Skip(r), p, n, b)
    <2>1. b \in 1..n + 1 /\ r.out \in 1..b /\ \A k \in b + 1..n : k \in b..n
      BY <1>1, <1>2, <1>9
    <2> QED
      BY <1>2, <1>9, <1>10, <2>1 DEF AtMark
  <1>12. ASSUME b <= n PROVE r.mem[b] = p[b]
    <2>1. b \in b..n
      BY <1>1, <1>2, <1>12
    <2> QED
      BY <1>9, <2>1
  <1> QED
    BY <1>8, <1>9, <1>10, <1>11, <1>12 DEF TextMoved

(* The pairs of pointers are what ws has. *)
Pair == [var : Nat, value : Nat]
PairAt(m, out, e, w) == Kept(m, out, e.var, w[1]) /\ Kept(m, out, e.value, w[2])
PairsAre(s, values, ws) ==
    /\ values \in Seq(Pair) /\ Len(values) = Len(ws)
    /\ \A ix \in 1..Len(ws) : PairAt(s.mem, s.out, values[ix], ws[ix])

LEMMA PairsStay ==
    ASSUME NEW s, NEW pl, s.out \in Nat, pl.out \in Nat, s.out <= pl.out,
           \A k \in 1..s.out - 1 : pl.mem[k] = s.mem[k],
           NEW values, NEW A, NEW ws \in Seq(A), PairsAre(s, values, ws)
    PROVE  PairsAre(pl, values, ws)
  <1>1. ASSUME NEW ix \in 1..Len(ws) PROVE PairAt(pl.mem, pl.out, values[ix], ws[ix])
    <2>1. Kept(s.mem, s.out, values[ix].var, ws[ix][1]) /\ Kept(s.mem, s.out, values[ix].value, ws[ix][2])
      BY DEF PairsAre, PairAt
    <2>2. Kept(pl.mem, pl.out, values[ix].var, ws[ix][1])
      BY <2>1, KeptOn
    <2>3. Kept(pl.mem, pl.out, values[ix].value, ws[ix][2])
      BY <2>1, KeptOn
    <2> QED
      BY <2>2, <2>3 DEF PairAt
  <1> QED
    BY <1>1 DEF PairsAre

LEMMA PairsGrow ==
    ASSUME NEW s, NEW values, NEW A, NEW ws \in Seq(A), PairsAre(s, values, ws),
           NEW e \in Pair, NEW w \in A, PairAt(s.mem, s.out, e, w)
    PROVE  PairsAre(s, Append(values, e), Append(ws, w))
  <1> DEFINE vs == Append(values, e)
             us == Append(ws, w)
             l == Len(ws)
  <1>1. /\ values \in Seq(Pair) /\ Len(values) = l /\ l \in Nat
        /\ \A ix \in 1..l : PairAt(s.mem, s.out, values[ix], ws[ix])
    BY LenProperties DEF PairsAre
  <1>2. /\ vs \in Seq(Pair) /\ Len(vs) = l + 1
        /\ vs[l + 1] = e /\ \A ix \in 1..l : vs[ix] = values[ix]
    BY <1>1, AppendProperties
  <1>3. /\ Len(us) = l + 1 /\ us[l + 1] = w /\ \A ix \in 1..l : us[ix] = ws[ix]
    BY AppendProperties
  <1> HIDE DEF vs, us, l
  <1>4. \A ix \in 1..l + 1 : ix = l + 1 \/ ix \in 1..l
    BY <1>1
  <1>5. ASSUME NEW ix \in 1..l + 1 PROVE PairAt(s.mem, s.out, vs[ix], us[ix])
    BY <1>1, <1>2, <1>3, <1>4
  <1> QED
    BY <1>2, <1>3, <1>5 DEF PairsAre, vs, us

(* The loop of _mssp_telnet. *)
Parting == [at : Place, next_type : Bytes \cup {NULL}, var : Nat, values : Seq(Pair)]
PartsTurn(buffer) ==
    [t \in Parting |->
        LET s == MoveString(t.at, {MSSP_VAR, MSSP_VAL})
            named == t.next_type = MSSP_VAR
        IN  IF t.at.c > Len(buffer)
            THEN t
            ELSE [at |-> Skip(s),
                  next_type |-> IF s.c > Len(buffer) THEN NULL ELSE s.mem[s.c],
                  var |-> IF named THEN t.at.out ELSE t.var,
                  values |-> IF named THEN t.values
                             ELSE Append(t.values, [var |-> t.var, value |-> t.at.out])]]

LEMMA PartsLoop ==
    \A buffer : Parts(buffer) =
        Loop(PartsTurn(buffer),
             [at |-> [mem |-> buffer, c |-> 2, out |-> 1], next_type |-> MSSP_VAR,
              var |-> 0, values |-> <<>>], Len(buffer))
  BY DEF Parts, PartsTurn, Parting, Pair

(* Behind the mark at q, ws has been read. *)
PartsAt(t, p, n, q, ws) ==
    /\ t \in Parting /\ AtMark(t.at, p, n, q)
    /\ t.next_type = IF q <= n THEN p[q] ELSE NULL
    /\ q > 1 => Kept(t.at.mem, t.at.out, t.var, MsspText(p, Owner(p, q)))
    /\ PairsAre(t.at, t.values, ws)

LEMMA PartIsRead ==
    ASSUME NEW p, NEW n, MsspPayload(p, n), NEW q \in Nat, 0 < q, q < n,
           NEW A, NEW ws \in Seq(A), MsspEntry(p, q) \in A, NEW t, PartsAt(t, p, n, q, ws),
           NEW b, b = Following(MsspMarks(p), q, p)
    PROVE  PartsAt(PartsTurn(p)[t], p, n, b,
                   IF p[q] = MSSP_VAL THEN Append(ws, MsspEntry(p, q)) ELSE ws)
  <1> DEFINE r == MoveString(t.at, {MSSP_VAR, MSSP_VAL})
             pl == Skip(r)
             u == PartsTurn(p)[t]
             w == MsspEntry(p, q)
             named == p[q] = MSSP_VAR
  <1>1. p \in Seq(Bytes) /\ n \in Nat /\ n = Len(p) /\ DOMAIN p = 1..n /\ p[1] = MSSP_VAR
    BY LenProperties DEF MsspPayload
  <1>2. b \in Nat /\ q < b /\ b <= n + 1 /\ (b <= n => b \in MsspMarks(p))
        /\ \A l \in q + 1..b - 1 : l \notin MsspMarks(p)
    <2>1. q \in 0..n
      BY <1>1
    <2>2. b \in Nat /\ q < b /\ b <= n + 1
      BY <2>1, MarkFollows
    <2>3. b <= n => b \in MsspMarks(p)
      BY <2>1, MarkFollows
    <2>4. \A l \in q + 1..b - 1 : l \notin MsspMarks(p)
      BY <2>1, MarkFollows
    <2> QED
      BY <2>2, <2>3, <2>4
  <1>3. /\ t \in Parting /\ AtMark(t.at, p, n, q) /\ PairsAre(t.at, t.values, ws)
        /\ t.next_type = p[q]
        /\ q > 1 => Kept(t.at.mem, t.at.out, t.var, MsspText(p, Owner(p, q)))
    BY <1>1 DEF PartsAt
  <1>4. /\ t.at \in Place /\ t.at.c = q + 1 /\ t.at.out \in 1..q /\ t.at.out \in Nat /\ q \in MsspMarks(p)
        /\ t.var \in Nat /\ t.values \in Seq(Pair)
    BY <1>1, <1>3 DEF AtMark, Parting
  <1>5. /\ AtMark(pl, p, n, b) /\ r.c = b /\ (b <= n => r.mem[b] = p[b])
        /\ t.at.out < pl.out /\ \A k \in 1..t.at.out - 1 : pl.mem[k] = t.at.mem[k]
        /\ Kept(pl.mem, pl.out, t.at.out, MsspText(p, q))
    <2> DEFINE s == t.at
    <2>1. /\ MsspPayload(p, n) /\ q \in Nat /\ 0 < q /\ q < n /\ AtMark(s, p, n, q)
          /\ b = Following(MsspMarks(p), q, p) /\ r = MoveString(s, {MSSP_VAR, MSSP_VAL})
      BY <1>3
    <2> HIDE DEF s, r
    <2>2. TextMoved(s, r, p, n, q, b)
      BY ONLY <2>1, TextIsMoved
    <2> QED
      BY <2>2 DEF s, TextMoved
  <1>6. pl \in Place /\ pl.out \in Nat
    BY <1>5 DEF AtMark, Place
  <1> HIDE DEF pl, r
  <1>7. u = [at |-> pl, next_type |-> IF b > n THEN NULL ELSE p[b],
             var |-> IF named THEN t.at.out ELSE t.var,
             values |-> IF named THEN t.values
                        ELSE Append(t.values, [var |-> t.var, value |-> t.at.out])]
    <2>1. ~(t.at.c > Len(p))
      BY <1>1, <1>4
    <2>2. u = [at |-> Skip(r), next_type |-> IF r.c > Len(p) THEN NULL ELSE r.mem[r.c],
               var |-> IF named THEN t.at.out ELSE t.var,
               values |-> IF named THEN t.values
                          ELSE Append(t.values, [var |-> t.var, value |-> t.at.out])]
      BY <1>3, <2>1 DEF PartsTurn, r
    <2>3. (IF r.c > Len(p) THEN NULL ELSE r.mem[r.c]) = IF b > n THEN NULL ELSE p[b]
      BY <1>1, <1>2, <1>5
    <2> QED
      BY <2>2, <2>3 DEF pl
  <1>8. (IF b > n THEN NULL ELSE p[b]) \in Bytes \cup {NULL}
    BY <1>1, <1>2, ElementOfSeq
  <1>9. (IF b > n THEN NULL ELSE p[b]) = IF b <= n THEN p[b] ELSE NULL
    BY <1>1, <1>2
  <1>10. PairsAre(pl, t.values, ws)
    <2> DEFINE s == t.at
               vs == t.values
    <2>1. /\ s.out \in Nat /\ pl.out \in Nat /\ s.out <= pl.out
          /\ \A k \in 1..s.out - 1 : pl.mem[k] = s.mem[k]
          /\ ws \in Seq(A) /\ PairsAre(s, vs, ws)
      BY <1>3, <1>4, <1>5, <1>6
    <2> HIDE DEF s, vs
    <2>2. PairsAre(pl, vs, ws)
      BY ONLY <2>1, PairsStay
    <2> QED
      BY <2>2 DEF vs
  <1>11. Owner(p, b) = IF named THEN q ELSE Owner(p, q)
    BY OwnerNext
  <1>12. CASE named
    <2>1. p[q] # MSSP_VAL
      BY <1>12 DEF MSSP_VAR, MSSP_VAL
    <2>2. u = [at |-> pl, next_type |-> IF b <= n THEN p[b] ELSE NULL, var |-> t.at.out, values |-> t.values]
      BY <1>7, <1>9, <1>12
    <2>3. u \in Parting
      BY <1>4, <1>6, <1>8, <1>9, <2>2 DEF Parting
    <2>4. Kept(pl.mem, pl.out, t.at.out, MsspText(p, Owner(p, b)))
      BY <1>5, <1>11, <1>12
    <2> HIDE DEF u
    <2>5. PartsAt(u, p, n, b, ws)
      BY <1>5, <1>10, <2>2, <2>3, <2>4 DEF PartsAt
    <2> QED
      BY <2>1, <2>5 DEF u
  <1>13. CASE ~named
    <2> DEFINE e == [var |-> t.var, value |-> t.at.out]
    <2>1. p[q] = MSSP_VAL
      BY <1>4, <1>13 DEF MsspMarks
    <2>2. u = [at |-> pl, next_type |-> IF b <= n THEN p[b] ELSE NULL, var |-> t.var,
               values |-> Append(t.values, e)]
      BY <1>7, <1>9, <1>13
    <2>3. q > 1
      BY <1>1, <1>13
    <2>4. Kept(pl.mem, pl.out, t.var, MsspText(p, Owner(p, q)))
      <3> DEFINE m0 == t.at.mem
                 o0 == t.at.out
                 z == MsspText(p, Owner(p, q))
                 q0 == t.var
                 m1 == pl.mem
                 o1 == pl.out
      <3>1. /\ o0 \in Nat /\ Kept(m0, o0, q0, z) /\ o1 \in Nat /\ o0 <= o1
            /\ \A k \in 1..o0 - 1 : m1[k] = m0[k]
        BY <1>3, <1>4, <1>5, <1>6, <2>3
      <3> HIDE DEF m0, o0, z, q0, m1, o1
      <3>2. Kept(m1, o1, q0, z)
        BY ONLY <3>1, KeptOn
      <3> QED
        BY <3>2 DEF m1, o1, q0, z
    <2>5. w = <<MsspText(p, Owner(p, q)), MsspText(p, q)>>
      BY MsspEntryIs
    <2>6. e \in Pair /\ PairAt(pl.mem, pl.out, e, w)
      BY <1>4, <1>5, <2>4, <2>5 DEF Pair, PairAt
    <2> HIDE DEF e, w
    <2>7. w \in A
      BY DEF w
    <2>8. PairsAre(pl, Append(t.values, e), Append(ws, w))
      BY <1>10, <2>6, <2>7, PairsGrow
    <2>9. Append(t.values, e) \in Seq(Pair)
      BY <2>8 DEF PairsAre
    <2>10. u \in Parting
      BY <1>4, <1>6, <1>8, <1>9, <2>2, <2>9 DEF Parting
    <2>11. Kept(pl.mem, pl.out, t.var, MsspText(p, Owner(p, b)))
      BY <1>11, <1>13, <2>4
    <2> HIDE DEF u
    <2>12. PartsAt(u, p, n, b, Append(ws, w))
      BY <1>5, <2>2, <2>8, <2>10, <2>11 DEF PartsAt
    <2> QED
      BY <2>1, <2>12 DEF u, w
  <1> QED
    BY <1>12, <1>13

MsspEntries(p) == [k \in DOMAIN p |-> MsspEntry(p, k)]
Values(p) == {k \in DOMAIN p : p[k] = MSSP_VAL}

(* The loop reads all parts but one that has nothing behind its mark. *)
LEMMA PartsAre ==
    ASSUME NEW p, NEW n, MsspPayload(p, n), NEW A,
           NEW g, Picks(A, MsspEntries(p), Values(p), n, g), \A k \in 1..n : MsspEntry(p, k) \in A
    PROVE  \E q \in Nat : q >= n /\ q <= n + 1 /\ PartsAt(Parts(p), p, n, q, g[q - 1])
  <1> DEFINE P == Values(p)
             s == MsspEntries(p)
             turn == PartsTurn(p)
             first == [at |-> [mem |-> p, c |-> 2, out |-> 1], next_type |-> MSSP_VAR,
                       var |-> 0, values |-> <<>>]
             Good(t, j) == \E q \in 1..n + 1 : PartsAt(t, p, n, q, g[q - 1]) /\ (q >= n \/ j < q)
             Y == [j \in 0..n |-> {t \in Parting : Good(t, j)}]
  <1>1. p \in Seq(Bytes) /\ n \in Nat /\ n = Len(p) /\ DOMAIN p = 1..n /\ n > 0 /\ p[1] = MSSP_VAR
    BY LenProperties DEF MsspPayload
  <1>2. /\ g \in [0..n -> Seq(A)] /\ g[0] = <<>>
        /\ \A k \in 1..n : g[k] = IF p[k] = MSSP_VAL THEN Append(g[k - 1], MsspEntry(p, k)) ELSE g[k - 1]
    BY <1>1 DEF Picks, Values, MsspEntries
  <1>3. ASSUME NEW a, NEW b, Gap(P, n, a, b) PROVE g[b] = g[a]
    BY <1>3, PicksStay
  <1>4. PartsAt(first, p, n, 1, <<>>)
    <2>1. first.at = [mem |-> p, c |-> 2, out |-> 1] /\ first.next_type = MSSP_VAR
          /\ first.var = 0 /\ first.values = <<>>
      OBVIOUS
    <2>2. MSSP_VAR \in Bytes /\ first \in Parting
      BY <1>1, BytesAssumption, EmptySeq DEF Parting, Place, MSSP_VAR
    <2>3. AtMark(first.at, p, n, 1)
      BY <1>1, <2>1 DEF AtMark, MsspMarks, Place
    <2>4. PairsAre(first.at, first.values, <<>>)
      BY <2>1, EmptySeq DEF PairsAre
    <2> HIDE DEF first
    <2> QED
      BY <1>1, <2>1, <2>2, <2>3, <2>4 DEF PartsAt
  <1>5. first \in Y[0]
    <2>1. 1 \in 1..n + 1 /\ 1 - 1 = 0 /\ 0 < 1 /\ 0 \in 0..n
      BY <1>1
    <2>2. first \in Parting
      BY <1>4 DEF PartsAt
    <2> HIDE DEF first
    <2>3. Good(first, 0)
      BY <1>2, <1>4, <2>1
    <2> HIDE DEF Good
    <2> QED
      BY <2>1, <2>2, <2>3
  <1> HIDE DEF first
  <1>6. ASSUME NEW j \in 1..n, NEW t, NEW q \in 1..n + 1, PartsAt(t, p, n, q, g[q - 1]), q >= n \/ j - 1 < q
        PROVE  turn[t] \in Parting /\ Good(turn[t], j)
    <2>1. t \in Parting /\ t.at.c = q + 1
      BY <1>6 DEF PartsAt, AtMark
    <2>2. CASE q >= n
      <3>1. t.at.c > Len(p)
        BY <1>1, <2>1, <2>2
      <3>2. turn[t] = t
        BY <2>1, <3>1 DEF PartsTurn
      <3> HIDE DEF turn
      <3> QED
        BY <1>6, <2>1, <2>2, <3>2
    <2>3. CASE q < n
      <3> DEFINE b == Following(MsspMarks(p), q, p)
                 ws == g[q - 1]
                 e == MsspEntry(p, q)
      <3>1. q \in Nat /\ 0 < q /\ q < n /\ q - 1 \in 0..n /\ q \in 1..n /\ q \in 0..n
        BY <1>1, <2>3
      <3>2. ws \in Seq(A) /\ e \in A
        BY <1>2, <3>1
      <3>3. b \in Nat /\ q < b /\ b <= n + 1
        BY <3>1, MarkFollows
      <3>4. \A l \in q + 1..b - 1 : l \notin MsspMarks(p)
        BY <3>1, MarkFollows
      <3> HIDE DEF b, ws
      <3>5. g[q] = IF p[q] = MSSP_VAL THEN Append(ws, e) ELSE ws
        BY <1>2, <3>1 DEF ws
      <3> HIDE DEF e
      <3>6. PartsAt(turn[t], p, n, b, IF p[q] = MSSP_VAL THEN Append(ws, e) ELSE ws)
        <4>1. PartsAt(t, p, n, q, ws) /\ b = Following(MsspMarks(p), q, p) /\ e = MsspEntry(p, q)
          BY <1>6 DEF b, ws, e
        <4> QED
          BY <3>1, <3>2, <4>1, PartIsRead
      <3>7. g[b - 1] = g[q]
        <4> DEFINE z == b - 1
        <4>1. z \in q..n
          BY <1>1, <3>1, <3>3
        <4>2. ASSUME NEW l \in q + 1..z PROVE l \notin P
          BY <3>4 DEF Values, MsspMarks
        <4> HIDE DEF z, P
        <4>3. Gap(P, n, q, z)
          BY <1>1, <3>1, <4>1, <4>2 DEF Gap
        <4>4. g[z] = g[q]
          BY <1>3, <4>3
        <4> QED
          BY <4>4 DEF z
      <3>8. PartsAt(turn[t], p, n, b, g[b - 1])
        BY <3>5, <3>6, <3>7
      <3>9. b \in 1..n + 1 /\ j < b
        BY <1>1, <1>6, <2>3, <3>1, <3>3
      <3> HIDE DEF turn
      <3>10. turn[t] \in Parting
        BY <3>8 DEF PartsAt
      <3> QED
        BY <3>8, <3>9, <3>10
    <2> QED
      BY <1>1, <2>2, <2>3
  <1>7. \A k \in 1..n : \A t \in Y[k - 1] : turn[t] \in Y[k]
    <2> TAKE k \in 1..n
    <2>1. k \in 0..n /\ k - 1 \in 0..n
      BY <1>1
    <2> HIDE DEF turn
    <2>2. ASSUME NEW t \in Y[k - 1] PROVE turn[t] \in Y[k]
      <3>1. Good(t, k - 1)
        BY <2>1
      <3>2. PICK q \in 1..n + 1 : PartsAt(t, p, n, q, g[q - 1]) /\ (q >= n \/ k - 1 < q)
        BY <3>1
      <3> HIDE DEF Good
      <3>3. turn[t] \in Parting /\ Good(turn[t], k)
        BY <1>6, <3>2
      <3> QED
        BY <2>1, <3>3
    <2> QED
      BY <2>2
  <1> HIDE DEF Y, turn
  <1>8. Loop(turn, first, n) \in Y[n]
    BY <1>1, <1>5, <1>7, LoopKeeps
  <1>9. Parts(p) \in Y[n]
    BY <1>1, <1>8, PartsLoop DEF turn, first
  <1>10. n \in 0..n
    BY <1>1
  <1>11. Good(Parts(p), n)
    <2> HIDE DEF Good
    <2> QED
      BY <1>9, <1>10 DEF Y
  <1>12. PICK q \in 1..n + 1 : PartsAt(Parts(p), p, n, q, g[q - 1]) /\ (q >= n \/ n < q)
    BY <1>11
  <1>13. q \in Nat /\ q >= n /\ q <= n + 1
    BY <1>1, <1>12
  <1> QED
    BY <1>12, <1>13

(* As many are picked as there are places. *)
PlacesIn(P, A, s, n) == s \in Seq(A) /\ n \in Nat /\ n = Len(s) /\ P \subseteq 1..n

LEMMA PicksCount ==
    ASSUME NEW A, NEW s, NEW n, NEW P, PlacesIn(P, A, s, n), NEW g, Picks(A, s, P, n, g)
    PROVE  Cardinality(P) = Len(g[n])
  <1>0. s \in Seq(A) /\ n \in Nat /\ n = Len(s) /\ P \subseteq 1..n
    BY DEF PlacesIn
  <1> DEFINE C(k) == P \cap 1..k
             S == {k \in 0..n : IsFiniteSet(C(k)) /\ Cardinality(C(k)) = Len(g[k])}
  <1>1. /\ g \in [0..n -> Seq(A)] /\ g[0] = <<>>
        /\ \A k \in 1..n : g[k] = IF k \in P THEN Append(g[k - 1], s[k]) ELSE g[k - 1]
    BY DEF Picks
  <1>2. 0 \in S
    <2>1. C(0) = {} /\ 0 \in 0..n
      BY <1>0
    <2>2. Len(g[0]) = 0
      BY <1>1, EmptySeq
    <2> HIDE DEF C
    <2> QED
      BY <2>1, <2>2, FS_EmptySet
  <1>3. ASSUME NEW k \in 1..n, k - 1 \in S PROVE k \in S
    <2>1. k - 1 \in 0..n /\ k \in 0..n /\ IsFiniteSet(C(k - 1)) /\ Cardinality(C(k - 1)) = Len(g[k - 1])
      BY <1>0, <1>3
    <2>2. CASE k \in P
      <3>1. C(k) = C(k - 1) \cup {k} /\ k \notin C(k - 1)
        BY <1>0, <2>2
      <3>2. g[k - 1] \in Seq(A) /\ s[k] \in A /\ g[k] = Append(g[k - 1], s[k])
        BY <1>0, <1>1, <2>1, <2>2, ElementOfSeq
      <3>3. Len(g[k]) = Len(g[k - 1]) + 1
        BY <3>2, AppendProperties
      <3> HIDE DEF C
      <3>4. IsFiniteSet(C(k - 1) \cup {k}) /\ Cardinality(C(k - 1) \cup {k}) = Cardinality(C(k - 1)) + 1
        BY <2>1, <3>1, FS_AddElement
      <3> QED
        BY <2>1, <3>1, <3>3, <3>4
    <2>3. CASE k \notin P
      <3>1. C(k) = C(k - 1)
        BY <1>0, <2>3
      <3>2. g[k] = g[k - 1]
        BY <1>1, <2>3
      <3> HIDE DEF C
      <3> QED
        BY <2>1, <3>1, <3>2
    <2> QED
      BY <2>2, <2>3
  <1> HIDE DEF S
  <1>4. 0..n \subseteq S
    BY <1>0, <1>2, <1>3, InductionUpTo
  <1>5. C(n) = P
    BY <1>0
  <1>6. n \in S
    BY <1>0, <1>4
  <1> QED
    BY <1>5, <1>6 DEF S

(* What the event of _mssp_telnet has for the pointers. *)
PairText(m, e) == <<CString(m, e.var), CString(m, e.value)>>

LEMMA MsspReads ==
    ASSUME NEW p, NEW n, MsspPayload(p, n), p[n] # MSSP_VAL, NEW v, v = Parts(p)
    PROVE  [k \in 1..Cardinality(Values(p)) |->
               IF k \notin DOMAIN v.values THEN <<NULL, NULL>> ELSE PairText(v.at.mem, v.values[k])] =
           Picked(MsspEntries(p), Values(p))
  <1> DEFINE A == {MsspEntry(p, k) : k \in 1..n}
             s == MsspEntries(p)
             P == Values(p)
             ws == Picked(s, P)
  <1>1. p \in Seq(Bytes) /\ n \in Nat /\ n = Len(p) /\ DOMAIN p = 1..n
    BY LenProperties DEF MsspPayload
  <1>2. s \in Seq(A) /\ Len(s) = n
    <2>1. s \in [1..n -> A]
      BY <1>1 DEF MsspEntries
    <2> HIDE DEF s, A
    <2> QED
      BY <1>1, <2>1, FunctionIsSeq
  <1>3. \A k \in 1..n : MsspEntry(p, k) \in A
    OBVIOUS
  <1>4. P \subseteq 1..n /\ n \notin P
    BY <1>1 DEF Values
  <1> HIDE DEF s, P, A
  <1>5. PICK g : Picks(A, s, P, n, g)
    BY <1>1, <1>2, PickedTo
  <1>6. /\ g \in [0..n -> Seq(A)] /\ ws = g[n] /\ n \in 0..n
        /\ \A k \in 1..n : g[k] = IF k \in P THEN Append(g[k - 1], s[k]) ELSE g[k - 1]
    BY <1>1, <1>5 DEF Picks
  <1>7. Cardinality(P) = Len(ws)
    <2>1. PlacesIn(P, A, s, n)
      BY <1>1, <1>2, <1>4 DEF PlacesIn
    <2>2. Cardinality(P) = Len(g[n])
      BY ONLY <1>5, <2>1, PicksCount
    <2> QED
      BY <1>6, <2>2
  <1>8. PICK q \in Nat : q >= n /\ q <= n + 1 /\ PartsAt(v, p, n, q, g[q - 1])
    BY <1>3, <1>5, PartsAre DEF s, P
  <1> DEFINE us == g[q - 1]
             m == Len(us)
             l == Len(ws)
  <1>9. us \in Seq(A) /\ ws \in Seq(A)
    <2>1. q - 1 \in 0..n
      <3>1. n > 0
        BY DEF MsspPayload
      <3> QED
        BY <1>1, <1>8, <3>1
    <2> QED
      BY <1>6, <2>1
  <1>10. m \in Nat /\ l \in Nat /\ DOMAIN ws = 1..l /\ ws = [k \in 1..l |-> ws[k]]
    BY <1>9, LenProperties
  <1>11. /\ v.values \in Seq(Pair) /\ Len(v.values) = m /\ DOMAIN v.values = 1..m
         /\ \A ix \in 1..m : PairAt(v.at.mem, v.at.out, v.values[ix], us[ix])
         /\ v.at.mem \in Seq(Bytes) /\ v.at.out \in 1..Len(v.at.mem) + 1
    <2>1. PairsAre(v.at, v.values, us) /\ AtMark(v.at, p, n, q)
      BY <1>8 DEF PartsAt
    <2>2. v.at.out \in 1..q /\ v.at.mem \in Seq(Bytes) /\ Len(v.at.mem) = n
      BY <2>1 DEF AtMark, Place
    <2>3. v.at.out \in 1..n + 1
      BY <1>1, <1>8, <2>2
    <2>4. v.values \in Seq(Pair) /\ Len(v.values) = m
          /\ \A ix \in 1..m : PairAt(v.at.mem, v.at.out, v.values[ix], us[ix])
      BY <2>1 DEF PairsAre
    <2> QED
      BY <2>2, <2>3, <2>4, LenProperties
  <1>12. us = ws
    <2>1. CASE q = n + 1
      <3>1. q - 1 = n
        BY <1>1, <2>1
      <3> QED
        BY <1>6, <3>1
    <2>2. CASE q = n
      <3>1. n \in 1..n
        BY <1>1, <1>8 DEF MsspPayload
      <3> QED
        BY <1>4, <1>6, <2>2, <3>1
    <2> QED
      BY <1>1, <1>8, <2>1, <2>2
  <1> DEFINE text(k) == IF k \notin DOMAIN v.values THEN <<NULL, NULL>>
                        ELSE PairText(v.at.mem, v.values[k])
  <1>13. ASSUME NEW k \in 1..m PROVE PairText(v.at.mem, v.values[k]) = us[k]
    <2>1. PairAt(v.at.mem, v.at.out, v.values[k], us[k])
      BY <1>11
    <2>2. CString(v.at.mem, v.values[k].var) = us[k][1]
      <3> DEFINE m0 == v.at.mem
                 o0 == v.at.out
                 q0 == v.values[k].var
                 w == us[k][1]
      <3>1. m0 \in Seq(Bytes) /\ o0 \in 1..Len(m0) + 1 /\ Kept(m0, o0, q0, w)
        BY <1>11, <2>1 DEF PairAt
      <3> HIDE DEF m0, o0, q0, w
      <3>2. CString(m0, q0) = w
        BY ONLY <3>1, KeptIs
      <3> QED
        BY <3>2 DEF m0, q0, w
    <2>3. CString(v.at.mem, v.values[k].value) = us[k][2]
      <3> DEFINE m0 == v.at.mem
                 o0 == v.at.out
                 q0 == v.values[k].value
                 w == us[k][2]
      <3>1. m0 \in Seq(Bytes) /\ o0 \in 1..Len(m0) + 1 /\ Kept(m0, o0, q0, w)
        BY <1>11, <2>1 DEF PairAt
      <3> HIDE DEF m0, o0, q0, w
      <3>2. CString(m0, q0) = w
        BY ONLY <3>1, KeptIs
      <3> QED
        BY <3>2 DEF m0, q0, w
    <2>4. us[k] = <<us[k][1], us[k][2]>>
      <3>1. us[k] \in A
        BY <1>9, ElementOfSeq
      <3>2. PICK j : us[k] = MsspEntry(p, j)
        BY <3>1 DEF A
      <3> HIDE DEF us
      <3> QED
        BY <3>2, MsspEntryIs
    <2> QED
      BY <2>2, <2>3, <2>4 DEF PairText
  <1>14. ASSUME NEW k \in 1..l PROVE text(k) = ws[k]
    <2>1. k \in 1..m
      BY <1>12
    <2> QED
      BY <1>11, <1>12, <1>13, <2>1
  <1> HIDE DEF text, l, m, us
  <1>15. [k \in 1..l |-> text(k)] = ws
    BY <1>10, <1>14
  <1> QED
    BY <1>7, <1>15 DEF text, l, ws, P, s

(* _mssp_telnet tells what the payload means. *)
LEMMA MsspMeaning ==
    ASSUME NEW p \in Seq(Bytes), ~Excepted("MSSP", p)
    PROVE  mssp_telnet(p) = MsspMeans(p)
  <1> DEFINE v == Parts(p)
             texts == [k \in 1..Cardinality(Values(p)) |->
                          IF k \notin DOMAIN v.values THEN <<NULL, NULL>>
                          ELSE PairText(v.at.mem, v.values[k])]
             ws == Picked(MsspEntries(p), Values(p))
  <1>1. Len(p) \in Nat /\ (p # <<>> => Len(p) > 0)
    BY LenProperties, EmptySeq
  <1>2. MsspMeans(p) = IF p = <<>> THEN <<>>
                       ELSE IF p[1] # MSSP_VAR THEN <<Error("protocol")>>
                       ELSE <<Mssp(ws)>>
    BY DEF MsspMeans, MsspEntries, Values
  <1>3. mssp_telnet(p) = CASE p = <<>> -> <<>>
                           [] p # <<>> /\ p[1] # MSSP_VAR -> <<Error("protocol")>>
                           [] OTHER -> <<Mssp(texts)>>
    BY DEF mssp_telnet, Values, PairText
  <1>4. p # <<>> /\ p[1] = MSSP_VAR => texts = ws
    BY <1>1, MsspReads DEF MsspPayload, Excepted
  <1> HIDE DEF texts, ws
  <1> QED
    BY <1>2, <1>3, <1>4

(* What every subnegotiation is taken for is what it means: the loops of   *)
(* _environ_telnet, _mssp_telnet and _zmp_telnet, which write names and    *)
(* values over the bytes they read them from, and _ttype_telnet return     *)
(* what splitting the payload at its marks gives, for every payload but    *)
(* two kinds: an MSSP that ends with a value mark, where the code leaves   *)
(* NULL for the empty string, and a NEW-ENVIRON that ends with an escaped  *)
(* ESC, which the code refuses.                                            *)
THEOREM SubIsMeant ==
    \A o : \A p \in Seq(Bytes) : ~Excepted(o, p) => subnegotiate(o, p) = SubMeans(o, p)
  BY EnvironMeaning, MsspMeaning, ZmpMeaning, TtypeMeaning DEF subnegotiate, SubMeans

(***************************************************************************)
(* The payloads the typed calls send are taken apart into what they were   *)
(* called with: first one entry more, as it is appended.                   *)
(***************************************************************************)
(* q begins with p. *)
Begins(p, n, q, m) ==
    /\ p \in Seq(Bytes) /\ n \in Nat /\ n = Len(p)
    /\ q \in Seq(Bytes) /\ m \in Nat /\ m = Len(q) /\ n <= m
    /\ \A k \in 1..n : q[k] = p[k]

LEMMA BeginsConcat ==
    ASSUME NEW p \in Seq(Bytes), NEW u \in Seq(Bytes)
    PROVE  Begins(p, Len(p), p \o u, Len(p) + Len(u))
  <1>1. Len(p) \in Nat /\ Len(u) \in Nat
    BY LenProperties
  <1>2. /\ p \o u \in Seq(Bytes) /\ Len(p \o u) = Len(p) + Len(u)
        /\ \A k \in 1..Len(p) + Len(u) : (p \o u)[k] = IF k <= Len(p) THEN p[k] ELSE u[k - Len(p)]
    BY ConcatProperties
  <1>3. \A k \in 1..Len(p) : (p \o u)[k] = p[k]
    BY <1>1, <1>2
  <1> QED
    BY <1>1, <1>2, <1>3 DEF Begins

LEMMA PartOfBegin ==
    ASSUME NEW p, NEW n, NEW q, NEW m, Begins(p, n, q, m), NEW a \in Nat \ {0}, NEW b \in 0..n
    PROVE  SubSeq(q, a, b) = SubSeq(p, a, b)
  <1>1. \A k \in a..b : k \in 1..n
    BY DEF Begins
  <1>2. \A k \in a..b : p[k] \in Bytes /\ q[k] \in Bytes /\ q[k] = p[k]
    BY <1>1, ElementOfSeq DEF Begins
  <1>3. a \in Int /\ b \in Int
    OBVIOUS
  <1> DEFINE x == SubSeq(q, a, b)
             y == SubSeq(p, a, b)
             l == IF a <= b THEN b - a + 1 ELSE 0
  <1>4. x \in Seq(Bytes) /\ Len(x) = l /\ \A k \in 1..b - a + 1 : x[k] = q[a + k - 1]
    BY <1>2, <1>3, SubSeqProperties
  <1>5. y \in Seq(Bytes) /\ Len(y) = l /\ \A k \in 1..b - a + 1 : y[k] = p[a + k - 1]
    BY <1>2, <1>3, SubSeqProperties
  <1>6. ASSUME NEW k \in 1..l PROVE k \in 1..b - a + 1 /\ a + k - 1 \in a..b
    OBVIOUS
  <1> HIDE DEF x, y, l
  <1>7. \A k \in 1..Len(x) : x[k] = y[k]
    BY <1>2, <1>4, <1>5, <1>6
  <1> QED
    BY <1>4, <1>5, <1>7, SeqEqual DEF x, y

(* Behind what is picked from s, r has one place more. *)
OneMore(A, s, P, n, r, Q, m, e) ==
    /\ s \in Seq(A) /\ n \in Nat /\ n = Len(s) /\ r \in Seq(A) /\ m \in Nat /\ m = Len(r)
    /\ e \in n + 1..m /\ e \in Q
    /\ \A k \in 1..n : (k \in Q <=> k \in P) /\ (k \in P => r[k] = s[k])
    /\ \A k \in n + 1..m : k \in Q => k = e

LEMMA PickedMore ==
    ASSUME NEW A, NEW s, NEW P, NEW n, NEW r, NEW Q, NEW m, NEW e, OneMore(A, s, P, n, r, Q, m, e)
    PROVE  Picked(r, Q) = Append(Picked(s, P), r[e])
  <1>1. /\ s \in Seq(A) /\ n \in Nat /\ n = Len(s) /\ r \in Seq(A) /\ m \in Nat /\ m = Len(r)
        /\ e \in n + 1..m /\ e \in Q
        /\ \A k \in 1..n : (k \in Q <=> k \in P) /\ (k \in P => r[k] = s[k])
        /\ \A k \in n + 1..m : k \in Q => k = e
    BY DEF OneMore
  <1>2. PICK f : Picks(A, s, P, n, f)
    BY <1>1, PickedTo
  <1>3. PICK g : Picks(A, r, Q, m, g)
    BY <1>1, PickedTo
  <1> DEFINE S == {k \in 0..n : g[k] = f[k]}
  <1>4. f[0] = <<>> /\ Picked(s, P) = f[n]
        /\ \A k \in 1..n : f[k] = IF k \in P THEN Append(f[k - 1], s[k]) ELSE f[k - 1]
    BY <1>2 DEF Picks
  <1>5. g[0] = <<>> /\ Picked(r, Q) = g[m]
        /\ \A k \in 1..m : g[k] = IF k \in Q THEN Append(g[k - 1], r[k]) ELSE g[k - 1]
    BY <1>3 DEF Picks
  <1>6. 0 \in S
    BY <1>1, <1>4, <1>5
  <1>7. ASSUME NEW k \in 1..n, k - 1 \in S PROVE k \in S
    <2>1. k \in 1..m /\ k \in 0..n
      BY <1>1
    <2> QED
      BY <1>1, <1>4, <1>5, <1>7, <2>1
  <1> HIDE DEF S
  <1>8. 0..n \subseteq S
    BY <1>1, <1>6, <1>7, InductionUpTo
  <1>9. g[n] = f[n]
    BY <1>1, <1>8 DEF S
  <1> DEFINE d == e - 1
  <1>10. Gap(Q, m, n, d) /\ Gap(Q, m, e, m)
    BY <1>1 DEF Gap
  <1>11. e \in 1..m
    BY <1>1
  <1>12. g[e] = Append(g[d], r[e])
    BY <1>1, <1>5, <1>11
  <1> HIDE DEF d
  <1>13. g[d] = g[n]
    BY <1>3, <1>10, PicksStay
  <1>14. g[m] = g[e]
    BY <1>3, <1>10, PicksStay
  <1> QED
    BY <1>4, <1>5, <1>9, <1>12, <1>13, <1>14

(* ZMP: one argument more. *)
ZmpParts(p) == [k \in DOMAIN p |-> ZmpPart(p, k)]

LEMMA ZmpPartIn ==
    ASSUME NEW p \in Seq(Bytes), NEW n \in Nat, n = Len(p)
    PROVE  ZmpParts(p) \in Seq(Seq(Bytes)) /\ Len(ZmpParts(p)) = n
           /\ \A k \in 1..n : ZmpParts(p)[k] = ZmpPart(p, k)
  <1> DEFINE A == Seq(Bytes)
             s == ZmpParts(p)
  <1>0. DOMAIN p = 1..n /\ Ends(p) \subseteq 1..n
    BY LenProperties DEF Ends
  <1>1. ASSUME NEW k \in 1..n PROVE ZmpPart(p, k) \in A
    <2> DEFINE S == {0} \cup {l \in Ends(p) : l < k}
    <2>1. S \subseteq 0..n
      BY <1>0
    <2>2. 0 \in S /\ S # {}
      OBVIOUS
    <2>3. Max(S) \in S
      <3> HIDE DEF S
      <3> QED
        BY <2>1, <2>2, MaxIs
    <2>4. Max(S) + 1 \in 1..k /\ k - 1 \in Nat /\ k - 1 <= n
      BY <2>1, <2>3
    <2>5. \A a \in 1..k : SubSeq(p, a, k - 1) \in Seq(Bytes)
      BY <1>0
    <2> QED
      BY <2>4, <2>5 DEF ZmpPart
  <1>2. s \in [1..n -> A] /\ \A k \in 1..n : s[k] = ZmpPart(p, k)
    BY <1>0, <1>1 DEF ZmpParts
  <1> HIDE DEF s, A
  <1>3. s \in Seq(A) /\ Len(s) = n
    BY <1>2, FunctionIsSeq
  <1> QED
    BY <1>2, <1>3 DEF s, A

(* w is what the arguments x are sent as. *)
ZmpSent(w, x) ==
    /\ w \in Seq(Bytes) /\ (w = <<>> \/ Len(w) \in Ends(w))
    /\ Picked(ZmpParts(w), Ends(w)) = x

LEMMA ZmpStep ==
    ASSUME NEW w, NEW x, ZmpSent(w, x), NEW a \in Strings
    PROVE  ZmpSent(w \o Append(a, "NUL"), Append(x, a))
  <1> DEFINE n == Len(w)
             u == Append(a, "NUL")
             p == w \o u
             j == Len(a)
             m == n + (j + 1)
  <1>1. w \in Seq(Bytes) /\ n \in Nat /\ (n > 0 => n \in Ends(w)) /\ DOMAIN w = 1..n
        /\ Picked(ZmpParts(w), Ends(w)) = x
    BY LenProperties, EmptySeq DEF ZmpSent
  <1>2. a \in Seq(Bytes) /\ j \in Nat /\ \A k \in 1..j : a[k] # "NUL"
    <2>1. a \in Seq(Bytes \ {"NUL"})
      BY DEF Strings
    <2>2. \A k \in 1..Len(a) : a[k] \in Bytes \ {"NUL"}
      BY <2>1, ElementOfSeq
    <2>3. a \in Seq(Bytes) /\ Len(a) \in Nat
      BY <2>1, SeqMonotonic, LenProperties
    <2> QED
      BY <2>2, <2>3
  <1>3. u \in Seq(Bytes) /\ Len(u) = j + 1 /\ u[j + 1] = "NUL" /\ \A k \in 1..j : u[k] = a[k]
    <2>1. "NUL" \in Bytes
      BY BytesAssumption
    <2> QED
      BY <1>2, <2>1, AppendProperties
  <1> HIDE DEF u
  <1>4. Begins(w, n, p, m)
    BY <1>1, <1>3, BeginsConcat
  <1>5. /\ p \in Seq(Bytes) /\ Len(p) = m /\ m \in Nat /\ DOMAIN p = 1..m
        /\ \A k \in 1..n : p[k] = w[k]
    BY <1>4, LenProperties DEF Begins
  <1>6. \A k \in 1..j + 1 : p[n + k] = u[k]
    <2>1. \A k \in 1..n + (j + 1) : p[k] = IF k <= n THEN w[k] ELSE u[k - n]
      BY <1>1, <1>3, ConcatProperties
    <2>2. \A k \in 1..j + 1 : n + k \in 1..n + (j + 1) /\ ~(n + k <= n) /\ (n + k) - n = k
      BY <1>1, <1>2
    <2> QED
      BY <2>1, <2>2
  <1> HIDE DEF n, p, j
  <1>7. m \in Ends(p) /\ m = n + (j + 1) /\ n + 1 <= m
    BY <1>1, <1>2, <1>3, <1>5, <1>6 DEF Ends
  <1>8. \A k \in 1..n : k \in Ends(p) <=> k \in Ends(w)
    BY <1>1, <1>5, <1>7 DEF Ends
  <1>9. \A k \in n + 1..m - 1 : k \notin Ends(p)
    <2> SUFFICES ASSUME NEW k \in n + 1..m - 1 PROVE p[k] # "NUL"
      BY DEF Ends
    <2>1. k - n \in 1..j /\ k - n \in 1..j + 1 /\ n + (k - n) = k
      BY <1>1, <1>2
    <2>2. p[k] = u[k - n]
      BY <1>6, <2>1
    <2> QED
      BY <1>2, <1>3, <2>1, <2>2
  <1> HIDE DEF m
  <1>10. ASSUME NEW k \in 1..n PROVE ZmpPart(p, k) = ZmpPart(w, k)
    <2> DEFINE S == {0} \cup {l \in Ends(w) : l < k}
               b == k - 1
    <2>1. S = {0} \cup {l \in Ends(p) : l < k}
      <3>1. \A l \in Ends(w) : l \in 1..n
        BY <1>1 DEF Ends
      <3>2. \A l \in Ends(p) : l \in 1..m
        BY <1>5 DEF Ends
      <3>3. \A l \in 1..m : l < k => l \in 1..n
        BY <1>1
      <3> QED
        BY <1>8, <3>1, <3>2, <3>3
    <2>2. Max(S) \in Nat
      <3>1. S \subseteq 0..n /\ 0 \in S
        BY <1>1 DEF Ends
      <3>2. S # {}
        BY <3>1
      <3>3. n \in Nat
        BY <1>1
      <3> HIDE DEF S
      <3>4. Max(S) \in S
        BY ONLY <3>1, <3>2, <3>3, MaxIs
      <3> DEFINE y == Max(S)
      <3>5. y \in S
        BY <3>4
      <3> HIDE DEF y
      <3>6. y \in Nat
        BY ONLY <3>1, <3>3, <3>5
      <3> QED
        BY <3>6 DEF y
    <2> DEFINE c == Max(S) + 1
    <2>3. c \in Nat \ {0} /\ b \in 0..n
      BY <1>1, <2>2
    <2> HIDE DEF b, c
    <2>4. SubSeq(p, c, b) = SubSeq(w, c, b)
      BY ONLY <1>4, <2>3, PartOfBegin
    <2> QED
      BY <2>1, <2>4 DEF ZmpPart, c, b
  <1>11. ZmpPart(p, m) = a
    <2> DEFINE c == n + 1
               b == m - 1
    <2>1. c \in 1..m /\ m \in c..m /\ (c > 1 => c - 1 \in Ends(p)) /\ \A l \in c..m - 1 : l \notin Ends(p)
      BY <1>1, <1>5, <1>7, <1>8, <1>9
    <2>2. ZmpPart(p, m) = SubSeq(p, c, b)
      <3> HIDE DEF c
      <3> QED
        BY <1>5, <2>1, ZmpPartIs
    <2>3. b - c + 1 = j /\ c \in Int /\ b \in Int /\ (c <= b <=> j > 0) /\ \A k \in 1..j : c + k - 1 = n + k
      BY <1>1, <1>2, <1>7
    <2>4. \A k \in c..b : p[k] \in Bytes
      <3>1. \A k \in c..b : k \in 1..Len(p)
        BY <1>1, <1>5
      <3> QED
        BY <1>5, <3>1, ElementOfSeq
    <2> DEFINE y == SubSeq(p, c, b)
    <2> HIDE DEF b, c
    <2>5. y \in Seq(Bytes) /\ Len(y) = (IF c <= b THEN b - c + 1 ELSE 0)
          /\ \A k \in 1..b - c + 1 : y[k] = p[c + k - 1]
      BY <2>3, <2>4, SubSeqProperties
    <2>6. Len(y) = j /\ \A k \in 1..j : y[k] = a[k]
      <3>1. Len(y) = j
        BY <1>2, <2>3, <2>5
      <3>2. ASSUME NEW k \in 1..j PROVE y[k] = a[k]
        <4>1. k \in 1..j + 1
          BY <1>2
        <4>2. y[k] = p[n + k]
          BY <2>3, <2>5
        <4> QED
          BY <1>3, <1>6, <4>1, <4>2
      <3> QED
        BY <3>1, <3>2
    <2> HIDE DEF y
    <2>7. y = a
      BY <1>2, <2>5, <2>6, SeqEqual DEF j
    <2> QED
      BY <2>2, <2>7 DEF y
  <1> DEFINE s == ZmpParts(w)
             r == ZmpParts(p)
             A == Seq(Bytes)
  <1>12. s \in Seq(A) /\ Len(s) = n /\ \A k \in 1..n : s[k] = ZmpPart(w, k)
    BY <1>1, ZmpPartIn DEF n
  <1>13. r \in Seq(A) /\ Len(r) = m /\ \A k \in 1..m : r[k] = ZmpPart(p, k)
    BY <1>5, ZmpPartIn
  <1>14. r[m] = a
    BY <1>1, <1>5, <1>7, <1>11, <1>13
  <1> HIDE DEF s, r, A
  <1>15. OneMore(A, s, Ends(w), n, r, Ends(p), m, m)
    <2>1. \A k \in 1..n : k \in 1..m /\ (k \in Ends(w) => r[k] = s[k])
      BY <1>1, <1>5, <1>7, <1>10, <1>12, <1>13
    <2>2. \A k \in n + 1..m : k \in Ends(p) => k = m
      BY <1>1, <1>5, <1>9
    <2>3. m \in n + 1..m
      BY <1>1, <1>5, <1>7
    <2> QED
      BY <1>1, <1>5, <1>7, <1>8, <1>12, <1>13, <2>1, <2>2, <2>3 DEF OneMore
  <1>16. Picked(r, Ends(p)) = Append(Picked(s, Ends(w)), r[m])
    BY <1>15, PickedMore
  <1>17. Picked(ZmpParts(p), Ends(p)) = Append(x, a)
    BY <1>1, <1>14, <1>16 DEF s, r
  <1>18. ZmpSent(p, Append(x, a))
    BY <1>5, <1>7, <1>17 DEF ZmpSent
  <1> QED
    BY <1>18 DEF p, u

(* telnet_send_zmp. *)
LEMMA ZmpIsRead ==
    ASSUME NEW argv \in Seq(Strings) \ {<<>>},
           NEW p, p = FlattenSeq([k \in DOMAIN argv |-> Append(argv[k], "NUL")])
    PROVE  p \in Seq(Bytes) /\ ZmpMeans(p) = <<Zmp(argv)>>
  <1> DEFINE n == Len(argv)
             ws == [k \in DOMAIN argv |-> Append(argv[k], "NUL")]
             xs == [k \in DOMAIN argv |-> <<argv[k]>>]
             Z == {z \in Seq(Bytes) \X Seq(Strings) : ZmpSent(z[1], z[2])}
  <1>1. n \in Nat /\ n > 0 /\ DOMAIN argv = 1..n /\ \A k \in 1..n : argv[k] \in Strings
    BY LenProperties, EmptySeq, ElementOfSeq
  <1>2. \A a \in Strings : Append(a, "NUL") \in Seq(Bytes)
    <2> TAKE a \in Strings
    <2>1. a \in Seq(Bytes \ {"NUL"}) /\ "NUL" \in Bytes
      BY BytesAssumption DEF Strings
    <2>2. a \in Seq(Bytes)
      BY <2>1, SeqMonotonic
    <2> QED
      BY <2>1, <2>2, AppendProperties
  <1>3. ws \in Lists(Bytes) /\ Len(ws) = n
    <2>1. DOMAIN ws = 1..n /\ ws = [k \in 1..n |-> ws[k]] /\ \A k \in 1..n : ws[k] \in Seq(Bytes)
      BY <1>1, <1>2
    <2> HIDE DEF ws
    <2> QED
      BY <1>1, <2>1, IsList
  <1>4. xs \in Lists(Strings) /\ FlattenSeq(xs) = argv
    BY FlattenOnes
  <1>5. Len(xs) = n
    <2>1. DOMAIN xs = 1..n /\ xs = [k \in 1..n |-> xs[k]] /\ \A k \in 1..n : xs[k] \in Seq(Strings)
      BY <1>1
    <2> HIDE DEF xs
    <2> QED
      BY <1>1, <2>1, IsList
  <1>6. <<<<>>, <<>>>> \in Z
    <2>1. <<>> \in Seq(Bytes) /\ <<>> \in Seq(Strings) /\ Len(<<>>) = 0
      BY EmptySeq
    <2>2. ZmpParts(<<>>) \in Seq(Seq(Bytes)) /\ Len(ZmpParts(<<>>)) = 0
      BY <2>1, ZmpPartIn
    <2>3. Ends(<<>>) \cap 1..Len(ZmpParts(<<>>)) = {}
      BY <2>2
    <2>4. Picked(ZmpParts(<<>>), Ends(<<>>)) = <<>>
      BY <2>2, <2>3, PickedNone
    <2>5. ZmpSent(<<>>, <<>>)
      BY <2>1, <2>4 DEF ZmpSent
    <2> QED
      BY <2>1, <2>5
  <1>7. \A k \in 1..n : \A w \in Seq(Bytes), x \in Seq(Strings) :
            <<w, x>> \in Z => <<w \o ws[k], x \o xs[k]>> \in Z
    <2> TAKE k \in 1..n
    <2> TAKE w \in Seq(Bytes), x \in Seq(Strings)
    <2> HAVE <<w, x>> \in Z
    <2> DEFINE a == argv[k]
               u == w \o Append(a, "NUL")
    <2>1. ZmpSent(w, x) /\ a \in Strings /\ ws[k] = Append(a, "NUL") /\ xs[k] = <<a>>
      BY <1>1
    <2>2. x \o <<a>> = Append(x, a) /\ Append(x, a) \in Seq(Strings)
      BY <2>1, AppendIsConcat, AppendProperties
    <2> HIDE DEF a
    <2>3. ZmpSent(u, Append(x, a))
      BY <2>1, ZmpStep
    <2>4. u \in Seq(Bytes)
      BY <2>3 DEF ZmpSent
    <2> HIDE DEF u
    <2>5. <<u, Append(x, a)>> \in Z
      BY <2>2, <2>3, <2>4
    <2> HIDE DEF Z, ws, xs
    <2> QED
      BY <2>1, <2>2, <2>5 DEF u
  <1> HIDE DEF ws, xs, Z
  <1>8. <<FlattenSeq(ws), FlattenSeq(xs)>> \in Z /\ FlattenSeq(ws) \in Seq(Bytes)
    BY <1>1, <1>3, <1>4, <1>5, <1>6, <1>7, FlattenPairs
  <1>9. <<p, argv>> \in Z /\ p \in Seq(Bytes)
    BY <1>4, <1>8 DEF ws
  <1>10. ZmpSent(p, argv)
    BY <1>9 DEF Z
  <1>11. p # <<>>
    <2> SUFFICES ASSUME p = <<>> PROVE FALSE
      OBVIOUS
    <2>1. <<>> \in Seq(Bytes) /\ Len(<<>>) = 0
      BY EmptySeq
    <2>2. ZmpParts(<<>>) \in Seq(Seq(Bytes)) /\ Len(ZmpParts(<<>>)) = 0
      BY <2>1, ZmpPartIn
    <2>3. Ends(<<>>) \cap 1..Len(ZmpParts(<<>>)) = {}
      BY <2>2
    <2>4. Picked(ZmpParts(<<>>), Ends(<<>>)) = <<>>
      BY <2>2, <2>3, PickedNone
    <2> QED
      BY <1>10, <2>4 DEF ZmpSent
  <1>12. ZmpMeans(p) = IF Len(p) \notin Ends(p) THEN <<Error("protocol")>>
                       ELSE <<Zmp(Picked(ZmpParts(p), Ends(p)))>>
    BY DEF ZmpMeans, ZmpPart, ZmpParts, Ends
  <1> QED
    BY <1>9, <1>10, <1>11, <1>12 DEF ZmpSent

(* telnet_ttype_is and telnet_ttype_send. *)
LEMMA TtypeIsRead ==
    /\ TtypeMeans(<<TTYPE_SEND>>) = <<Ttype(TTYPE_SEND, NULL)>>
    /\ \A name \in Seq(Bytes \ {"IAC", "NUL"}) :
           /\ <<TTYPE_IS>> \o name \in Seq(Bytes)
           /\ TtypeMeans(<<TTYPE_IS>> \o name) = <<Ttype(TTYPE_IS, name)>>
  <1>1. TtypeMeans(<<TTYPE_SEND>>) = <<Ttype(TTYPE_SEND, NULL)>>
    BY DEF TtypeMeans
  <1>2. ASSUME NEW name \in Seq(Bytes \ {"IAC", "NUL"})
        PROVE  /\ <<TTYPE_IS>> \o name \in Seq(Bytes)
               /\ TtypeMeans(<<TTYPE_IS>> \o name) = <<Ttype(TTYPE_IS, name)>>
    <2> DEFINE p == <<TTYPE_IS>> \o name
               j == Len(name)
    <2>1. name \in Seq(Bytes) /\ j \in Nat /\ \A k \in 1..j : name[k] # "NUL"
      <3>1. \A k \in 1..Len(name) : name[k] \in Bytes \ {"IAC", "NUL"}
        BY ElementOfSeq
      <3>2. name \in Seq(Bytes) /\ Len(name) \in Nat
        BY SeqMonotonic, LenProperties
      <3> QED
        BY <3>1, <3>2
    <2>2. TTYPE_IS \in Bytes
      BY BytesAssumption DEF TTYPE_IS
    <2>3. <<TTYPE_IS>> \in Seq(Bytes) /\ Len(<<TTYPE_IS>>) = 1 /\ <<TTYPE_IS>>[1] = TTYPE_IS
      BY <2>2
    <2>4. p \in Seq(Bytes) /\ Len(p) = 1 + j /\ \A k \in 1..1 + j : p[k] = IF k <= 1 THEN <<TTYPE_IS>>[k] ELSE name[k - 1]
      <3> DEFINE one == <<TTYPE_IS>>
      <3>1. one \in Seq(Bytes) /\ Len(one) = 1 /\ p = one \o name
        BY <2>3
      <3> HIDE DEF one
      <3>2. one \o name \in Seq(Bytes) /\ Len(one \o name) = 1 + j
            /\ \A k \in 1..1 + j : (one \o name)[k] = IF k <= 1 THEN one[k] ELSE name[k - 1]
        BY <2>1, <3>1, ConcatProperties
      <3> QED
        BY <3>1, <3>2 DEF one
    <2>5. p[1] = TTYPE_IS /\ \A k \in 1..j : p[k + 1] = name[k]
      <3>1. 1 \in 1..1 + j /\ \A k \in 1..j : k + 1 \in 1..1 + j /\ ~(k + 1 <= 1) /\ (k + 1) - 1 = k
        BY <2>1
      <3> QED
        BY <2>3, <2>4, <3>1
    <2> HIDE DEF p
    <2>6. p # <<>>
      BY <2>1, <2>4, EmptySeq
    <2>7. Tail(p) = name
      <3> DEFINE t == Tail(p)
      <3>1. t \in Seq(Bytes) /\ Len(t) = j /\ \A k \in 1..Len(t) : t[k] = p[k + 1]
        BY <2>1, <2>4, <2>6, HeadTailProperties
      <3> HIDE DEF t
      <3>2. t = name
        BY <2>1, <2>5, <3>1, SeqEqual
      <3> QED
        BY <3>2 DEF t
    <2>8. UpToNul(name) = name
      BY <2>1, UpToNulWhole
    <2>9. TtypeMeans(p) = <<Ttype(TTYPE_IS, name)>>
      BY <2>5, <2>6, <2>7, <2>8 DEF TtypeMeans, TTYPE_IS, TTYPE_SEND
    <2> QED
      BY <2>4, <2>9 DEF p
  <1> QED
    BY <1>1, <1>2

(* NEW-ENVIRON.  What is sent has no ESC behind the command. *)
Plain(p, n) ==
    /\ p \in Seq(Bytes) /\ n \in Nat /\ n = Len(p) /\ n > 0
    /\ \A k \in 2..n : p[k] # ENVIRON_ESC

LEMMA PlainEscaped ==
    ASSUME NEW p, NEW n, Plain(p, n)
    PROVE  Escaped(p) = {} /\ \A codes : Marks(p, codes) = {k \in 2..n : p[k] \in codes}
  <1>1. p \in Seq(Bytes) /\ n \in Nat /\ n = Len(p) /\ \A k \in 2..n : p[k] # ENVIRON_ESC
    BY DEF Plain
  <1> DEFINE X == Escaped(p)
  <1>2. X \subseteq 3..n /\ \A k \in 2..n - 1 : k + 1 \in X <=> p[k] = ENVIRON_ESC /\ k \notin X
    BY <1>1, EscapedNext
  <1> HIDE DEF X
  <1>3. ASSUME NEW k \in X PROVE FALSE
    <2>1. k - 1 \in 2..n - 1 /\ k - 1 \in 2..n /\ (k - 1) + 1 = k
      BY <1>1, <1>2
    <2>2. p[k - 1] = ENVIRON_ESC
      BY <1>2, <2>1
    <2> QED
      BY <1>1, <2>1, <2>2
  <1>4. Escaped(p) = {}
    BY <1>3 DEF X
  <1> QED
    BY <1>1, <1>4 DEF Marks

(* What lies between two places. *)
LEMMA PickedRange ==
    ASSUME NEW p \in Seq(Bytes), NEW n \in Nat, n = Len(p), NEW a \in 1..n + 1, NEW b \in a - 1..n
    PROVE  Picked(p, a..b) = SubSeq(p, a, b)
  <1> DEFINE P == a..b
  <1>1. PICK f : Picks(Bytes, p, P, n, f)
    BY PickedTo
  <1>2. f[0] = <<>> /\ Picked(p, P) = f[n]
        /\ \A k \in 1..n : f[k] = IF k \in P THEN Append(f[k - 1], p[k]) ELSE f[k - 1]
    BY <1>1 DEF Picks
  <1> DEFINE T == {k \in 0..n : IF k < a THEN f[k] = <<>> ELSE k <= b => f[k] = SubSeq(p, a, k)}
  <1>3. 0 \in T
    BY <1>2
  <1>4. ASSUME NEW k \in 1..n, k - 1 \in T PROVE k \in T
    <2>1. CASE k < a
      <3>1. k \notin P /\ k - 1 < a /\ k \in 0..n
        BY <2>1
      <3> QED
        BY <1>2, <1>4, <2>1, <3>1
    <2>2. CASE k >= a /\ k <= b
      <3>1. k \in P /\ a \in 1..n /\ k \in a..n /\ k \in 0..n
        BY <2>2
      <3>2. SubSeq(p, a, k) = SubSeq(p, a, k - 1) \o <<p[k]>>
        BY <3>1, SubSeqRecursiveSecond
      <3>3. f[k] = Append(f[k - 1], p[k])
        BY <1>2, <3>1
      <3>4. f[k - 1] = SubSeq(p, a, k - 1)
        <4>1. CASE k = a
          <5>1. f[k - 1] = <<>>
            BY <1>4, <4>1
          <5>2. SubSeq(p, a, k - 1) = <<>>
            <6>1. a \in Int /\ k - 1 \in Int /\ k - 1 < a
              BY <4>1
            <6> QED
              BY <6>1, SubSeqEmpty
          <5> QED
            BY <5>1, <5>2
        <4>2. CASE k > a
          BY <1>4, <2>2, <4>2
        <4> QED
          BY <2>2, <4>1, <4>2
      <3>5. SubSeq(p, a, k - 1) \in Seq(Bytes) /\ p[k] \in Bytes
        <4>1. \A ix \in a..k - 1 : ix \in 1..n
          BY <3>1
        <4>2. \A ix \in a..k - 1 : p[ix] \in Bytes
          BY <4>1, ElementOfSeq
        <4> QED
          BY <4>2, SubSeqProperties, ElementOfSeq
      <3>6. Append(SubSeq(p, a, k - 1), p[k]) = SubSeq(p, a, k - 1) \o <<p[k]>>
        BY <3>5, AppendIsConcat
      <3>7. f[k] = SubSeq(p, a, k)
        BY <3>2, <3>3, <3>4, <3>6
      <3> QED
        BY <2>2, <3>1, <3>7
    <2>3. CASE k > b /\ k >= a
      BY <2>3
    <2> QED
      BY <2>1, <2>2, <2>3
  <1> HIDE DEF T, P
  <1>5. 0..n \subseteq T
    BY <1>3, <1>4, InductionUpTo
  <1>6. b \in 0..n
    OBVIOUS
  <1>7. f[b] = SubSeq(p, a, b)
    <2>1. b \in T
      BY <1>5, <1>6
    <2>2. CASE b < a
      <3>1. f[b] = <<>>
        BY <2>1, <2>2 DEF T
      <3>2. SubSeq(p, a, b) = <<>>
        BY <2>2, SubSeqEmpty
      <3> QED
        BY <3>1, <3>2
    <2>3. CASE ~(b < a)
      BY <2>1, <2>3 DEF T
    <2> QED
      BY <2>2, <2>3
  <1>8. Gap(P, n, b, n)
    BY DEF Gap, P
  <1>9. f[n] = f[b]
    BY <1>1, <1>8, PicksStay
  <1> QED
    BY <1>2, <1>7, <1>9 DEF P

LEMMA PlainLiteral ==
    ASSUME NEW p, NEW n, Plain(p, n), NEW a \in 2..n + 1, NEW b \in a - 1..n
    PROVE  Literal(p, a..b) = UpToNul(SubSeq(p, a, b))
  <1>1. p \in Seq(Bytes) /\ n \in Nat /\ n = Len(p) /\ \A k \in 2..n : p[k] # ENVIRON_ESC
    BY DEF Plain
  <1>2. {k \in a..b : p[k] # ENVIRON_ESC \/ k \in Escaped(p)} = a..b
    <2>1. \A k \in a..b : k \in 2..n
      BY <1>1
    <2> QED
      BY <1>1, <2>1
  <1>3. a \in 1..n + 1
    BY <1>1
  <1>4. Picked(p, a..b) = SubSeq(p, a, b)
    BY <1>1, <1>3, PickedRange
  <1> QED
    BY <1>2, <1>4 DEF Literal

(* The same marks and bytes, the same part. *)
LEMMA SamePart ==
    ASSUME NEW p, NEW n, Plain(p, n), NEW q, NEW m, Plain(q, m), Begins(p, n, q, m),
           NEW a \in Nat, a > 1, NEW b \in 0..n
    PROVE  Literal(q, a..b) = Literal(p, a..b)
  <1>1. /\ p \in Seq(Bytes) /\ n \in Nat /\ n = Len(p) /\ q \in Seq(Bytes) /\ m \in Nat /\ m = Len(q) /\ n <= m
    BY DEF Begins
  <1>2. CASE a > b
    <2>1. a..b = {}
      BY <1>1, <1>2
    <2> DEFINE P == a..b
    <2> HIDE DEF P
    <2>2. P = {}
      BY <2>1 DEF P
    <2>3. Literal(q, P) = <<>> /\ Literal(p, P) = <<>>
      BY <1>1, <2>2, NoLiteral
    <2> QED
      BY <2>3 DEF P
  <1>3. CASE ~(a > b)
    <2>1. a \in 2..n + 1 /\ b \in a - 1..n /\ a \in 2..m + 1 /\ b \in a - 1..m /\ a \in Nat \ {0}
      BY <1>1, <1>3
    <2>2. Literal(p, a..b) = UpToNul(SubSeq(p, a, b))
      BY <2>1, PlainLiteral
    <2>3. Literal(q, a..b) = UpToNul(SubSeq(q, a, b))
      BY <2>1, PlainLiteral
    <2>4. SubSeq(q, a, b) = SubSeq(p, a, b)
      BY <2>1, PartOfBegin
    <2> QED
      BY <2>2, <2>3, <2>4
  <1> QED
    BY <1>2, <1>3

(* The mark that follows is the only place like it. *)
NextMark(marks, k, n, f) ==
    /\ k \in Nat /\ n \in Nat /\ f \in Nat /\ k < f /\ f <= n + 1
    /\ f <= n => f \in marks
    /\ \A l \in k + 1..f - 1 : l \notin marks

LEMMA NextIs ==
    ASSUME NEW p, NEW n \in Nat, n = Len(p), NEW marks, marks \subseteq 1..n, NEW k \in 0..n
    PROVE  NextMark(marks, k, n, Following(marks, k, p))
  <1> DEFINE f == Following(marks, k, p)
  <1>1. n \in Nat /\ k \in 0..n /\ f = Following(marks, k, p)
    OBVIOUS
  <1> HIDE DEF f
  <1>2. f \in Nat /\ k < f /\ f <= n + 1
    BY <1>1, FollowingIs
  <1>3. f <= n => f \in marks
    BY <1>1, FollowingIs
  <1>4. \A l \in k + 1..f - 1 : l \notin marks
    BY <1>1, FollowingIs
  <1>5. NextMark(marks, k, n, f)
    BY <1>1, <1>2, <1>3, <1>4 DEF NextMark
  <1> QED
    BY <1>5 DEF f

LEMMA NextOnly ==
    ASSUME NEW marks, NEW k, NEW n, NEW f, NEW g, NextMark(marks, k, n, f), NextMark(marks, k, n, g)
    PROVE  f = g
  <1>1. k \in Nat /\ n \in Nat /\ f \in Nat /\ g \in Nat /\ k < f /\ k < g /\ f <= n + 1 /\ g <= n + 1
    BY DEF NextMark
  <1>2. ~(f < g)
    <2> SUFFICES ASSUME f < g PROVE FALSE
      OBVIOUS
    <2>1. f <= n /\ f \in k + 1..g - 1
      BY <1>1
    <2> QED
      BY <2>1 DEF NextMark
  <1>3. ~(g < f)
    <2> SUFFICES ASSUME g < f PROVE FALSE
      OBVIOUS
    <2>1. g <= n /\ g \in k + 1..f - 1
      BY <1>1
    <2> QED
      BY <2>1 DEF NextMark
  <1> QED
    BY <1>1, <1>2, <1>3

(* One variable more: p and behind it a type, a name and perhaps a value,  *)
(* whose mark stands at m.                                                 *)
Joined(x, a, y, b, z, c) ==
    /\ Begins(x, a, z, c) /\ y \in Seq(Bytes) /\ b \in Nat /\ b = Len(y) /\ c = a + b
    /\ SubSeq(z, a + 1, c) = y
    /\ \A k \in a + 1..c : z[k] = y[k - a]

LEMMA JoinIs ==
    ASSUME NEW x \in Seq(Bytes), NEW a \in Nat, a = Len(x), NEW y \in Seq(Bytes), NEW b \in Nat, b = Len(y)
    PROVE  Joined(x, a, y, b, x \o y, a + b)
  <1> DEFINE z == x \o y
             c == a + b
             s == SubSeq(z, a + 1, c)
  <1>1. Begins(x, a, z, c)
    BY BeginsConcat
  <1>2. z \in Seq(Bytes) /\ Len(z) = c /\ c \in Nat
    BY <1>1 DEF Begins
  <1>3. \A k \in 1..a + b : z[k] = IF k <= a THEN x[k] ELSE y[k - a]
    BY ConcatProperties
  <1> HIDE DEF z
  <1>4. \A k \in a + 1..c : k \in 1..a + b /\ k \in 1..c /\ ~(k <= a)
    OBVIOUS
  <1>5. \A k \in a + 1..c : z[k] = y[k - a] /\ z[k] \in Bytes
    BY <1>2, <1>3, <1>4, ElementOfSeq
  <1>6. s \in Seq(Bytes) /\ Len(s) = (IF a + 1 <= c THEN c - (a + 1) + 1 ELSE 0)
        /\ \A k \in 1..c - (a + 1) + 1 : s[k] = z[a + 1 + k - 1]
    <2>1. a + 1 \in Int /\ c \in Int
      BY <1>2
    <2> HIDE DEF c
    <2> QED
      BY <1>5, <2>1, SubSeqProperties
  <1> HIDE DEF s
  <1>7. Len(s) = b
    BY <1>6
  <1>8. ASSUME NEW k \in 1..b PROVE s[k] = y[k]
    <2>1. k \in 1..c - (a + 1) + 1 /\ a + 1 + k - 1 = a + k /\ a + k \in a + 1..c /\ (a + k) - a = k
      OBVIOUS
    <2> HIDE DEF c
    <2> QED
      BY <1>5, <1>6, <2>1
  <1>9. s = y
    BY <1>6, <1>7, <1>8, SeqEqual
  <1> QED
    BY <1>1, <1>5, <1>9 DEF Joined, z, s

Appended(p, n, q, m, t, name, value, e) ==
    /\ Plain(p, n) /\ Plain(q, m) /\ Begins(p, n, q, m)
    /\ t \in STARTS /\ q[n + 1] = t
    /\ e \in Nat /\ n + 1 < e /\ e <= m + 1
    /\ SubSeq(q, n + 2, e - 1) = name /\ UpToNul(name) = name /\ UpToNul(value) = value
    /\ value = <<>> => e = m + 1
    /\ value # <<>> => e <= m /\ q[e] = ENVIRON_VALUE /\ SubSeq(q, e + 1, m) = value
    /\ \A k \in n + 2..m : k # e => q[k] \notin NAMES

VariableBytes(v) == <<v[1]>> \o v[2] \o IF v[3] = <<>> THEN <<>> ELSE <<ENVIRON_VALUE>> \o v[3]

LEMMA EnvironString ==
    ASSUME NEW s \in EnvironStrings
    PROVE  s \in Seq(Bytes) /\ UpToNul(s) = s /\ \A k \in 1..Len(s) : s[k] \notin NAMES \cup {ENVIRON_ESC}
  <1>1. \A k \in 1..Len(s) : s[k] \in Bytes \ {ENVIRON_VAR, ENVIRON_VALUE, ENVIRON_ESC, ENVIRON_USERVAR}
    BY ElementOfSeq DEF EnvironStrings
  <1>2. s \in Seq(Bytes)
    BY SeqMonotonic DEF EnvironStrings
  <1>3. \A k \in 1..Len(s) : s[k] # "NUL"
    BY <1>1 DEF ENVIRON_VAR
  <1>4. UpToNul(s) = s
    BY <1>2, <1>3, UpToNulWhole
  <1> QED
    BY <1>1, <1>2, <1>4 DEF NAMES

LEMMA CatFour ==
    ASSUME NEW A, NEW x \in Str(A), NEW y \in Str(A), NEW z \in Str(A), NEW u \in Str(A), NEW w \in Str(A)
    PROVE  /\ Cat(x, Cat(y, z)) = Cat(Cat(x, y), z)
           /\ Cat(x, Cat(Cat(y, z), Cat(u, w))) = Cat(Cat(Cat(Cat(x, y), z), u), w)
  <1>1. Cat(x, Cat(y, z)) = Cat(Cat(x, y), z)
    BY CatAssoc
  <1>2. Cat(y, z) \in Str(A) /\ Cat(u, w) \in Str(A) /\ Cat(Cat(x, y), z) \in Str(A)
    BY CatIn
  <1>3. Cat(x, Cat(Cat(y, z), Cat(u, w))) = Cat(Cat(x, Cat(y, z)), Cat(u, w))
    BY <1>2, CatAssoc
  <1>4. Cat(Cat(Cat(x, y), z), Cat(u, w)) = Cat(Cat(Cat(Cat(x, y), z), u), w)
    BY <1>2, CatAssoc
  <1> QED
    BY <1>1, <1>3, <1>4

LEMMA VariableAppended ==
    ASSUME NEW p, NEW n, Plain(p, n), NEW t \in STARTS, NEW name \in EnvironStrings, NEW value \in EnvironStrings,
           NEW q, q = p \o VariableBytes(<<t, name, value>>), NEW m, m = Len(q)
    PROVE  \E e : Appended(p, n, q, m, t, name, value, e)
  <1>0. p \in Seq(Bytes) /\ n \in Nat /\ n = Len(p) /\ n > 0 /\ \A k \in 2..n : p[k] # ENVIRON_ESC
    BY DEF Plain
  <1>1. t \in Bytes /\ ENVIRON_VALUE \in Bytes /\ t # ENVIRON_ESC /\ ENVIRON_VALUE # ENVIRON_ESC /\ ENVIRON_VALUE \notin STARTS
    BY BytesAssumption DEF STARTS, ENVIRON_VAR, ENVIRON_USERVAR, ENVIRON_VALUE, ENVIRON_ESC
  <1>2. /\ name \in Seq(Bytes) /\ UpToNul(name) = name
        /\ \A k \in 1..Len(name) : name[k] \notin NAMES \cup {ENVIRON_ESC}
    BY EnvironString
  <1>3. /\ value \in Seq(Bytes) /\ UpToNul(value) = value
        /\ \A k \in 1..Len(value) : value[k] \notin NAMES \cup {ENVIRON_ESC}
    BY EnvironString
  <1> DEFINE one == <<t>>
             mark == <<ENVIRON_VALUE>>
             j == Len(name)
             l == Len(value)
             p1 == p \o one
             n1 == n + 1
             p2 == p1 \o name
             n2 == n1 + j
             p3 == p2 \o mark
             n3 == n2 + 1
             p4 == p3 \o value
             n4 == n3 + l
  <1>4. one \in Seq(Bytes) /\ Len(one) = 1 /\ one[1] = t /\ mark \in Seq(Bytes) /\ Len(mark) = 1 /\ mark[1] = ENVIRON_VALUE
    BY <1>1
  <1>5. j \in Nat /\ l \in Nat
    BY <1>2, <1>3, LenProperties
  <1> HIDE DEF one, mark, j, l
  <1>6. Joined(p, n, one, 1, p1, n1)
    BY <1>0, <1>4, JoinIs
  <1>7. p1 \in Seq(Bytes) /\ n1 \in Nat /\ n1 = Len(p1)
    BY <1>6 DEF Joined, Begins
  <1> HIDE DEF p1, n1
  <1>8. Joined(p1, n1, name, j, p2, n2)
    BY <1>2, <1>5, <1>7, JoinIs DEF j
  <1>9. p2 \in Seq(Bytes) /\ n2 \in Nat /\ n2 = Len(p2)
    BY <1>8 DEF Joined, Begins
  <1> HIDE DEF p2, n2
  <1>10. Joined(p2, n2, mark, 1, p3, n3)
    BY <1>4, <1>9, JoinIs
  <1>11. p3 \in Seq(Bytes) /\ n3 \in Nat /\ n3 = Len(p3)
    BY <1>10 DEF Joined, Begins
  <1> HIDE DEF p3, n3
  <1>12. Joined(p3, n3, value, l, p4, n4)
    BY <1>3, <1>5, <1>11, JoinIs DEF l
  <1>13. p4 \in Seq(Bytes) /\ n4 \in Nat /\ n4 = Len(p4)
    BY <1>12 DEF Joined, Begins
  <1> HIDE DEF p4, n4
  <1>14. n1 = n + 1 /\ n2 = n1 + j /\ n3 = n2 + 1 /\ n4 = n3 + l
    BY DEF n1, n2, n3, n4
  <1>15. p1[n1] = t /\ \A k \in 1..n : p1[k] = p[k]
    <2>1. n1 \in n + 1..n1 /\ n1 - n = 1
      BY <1>0, <1>14
    <2> QED
      BY <1>4, <1>6, <2>1 DEF Joined, Begins
  <1>16. Plain(p1, n1)
    <2>1. \A k \in 2..n1 : k = n1 \/ (k \in 2..n /\ k \in 1..n)
      BY <1>0, <1>14
    <2>2. \A k \in 2..n1 : p1[k] # ENVIRON_ESC
      BY <1>0, <1>1, <1>15, <2>1
    <2>3. n1 > 0
      BY <1>0, <1>14
    <2> QED
      BY <1>7, <2>2, <2>3 DEF Plain
  <1>17. /\ \A k \in 1..n1 : p2[k] = p1[k]
         /\ \A k \in n1 + 1..n2 : p2[k] \notin NAMES \cup {ENVIRON_ESC}
         /\ SubSeq(p2, n1 + 1, n2) = name
    <2>1. \A k \in n1 + 1..n2 : k - n1 \in 1..j
      BY ONLY <1>0, <1>5, <1>7, <1>9, <1>14
    <2>2. \A k \in n1 + 1..n2 : p2[k] = name[k - n1]
      BY <1>8 DEF Joined
    <2> QED
      BY <1>2, <1>8, <2>1, <2>2 DEF Joined, Begins, j
  <1>18. Plain(p2, n2)
    <2>1. \A k \in 2..n2 : (k \in 2..n1 /\ k \in 1..n1) \/ k \in n1 + 1..n2
      BY <1>5, <1>7, <1>9
    <2>2. \A k \in 2..n2 : p2[k] # ENVIRON_ESC
      BY <1>16, <1>17, <2>1 DEF Plain
    <2>3. n2 > 0
      BY <1>0, <1>5, <1>14
    <2> QED
      BY <1>9, <2>2, <2>3 DEF Plain
  <1>19. Begins(p, n, p2, n2) /\ p2[n + 1] = t
    <2>1. \A k \in 1..n : k \in 1..n1
      BY <1>0, <1>14
    <2>2. n1 \in 1..n1 /\ n1 = n + 1 /\ n <= n2
      BY <1>0, <1>5, <1>14
    <2> QED
      BY <1>0, <1>9, <1>15, <1>17, <2>1, <2>2 DEF Begins
  <1>20. /\ p \o (one \o name) = p \o one \o name
         /\ p \o ((one \o name) \o (mark \o value)) = p \o one \o name \o mark \o value
    <2>1. p \in Str(Bytes) /\ one \in Str(Bytes) /\ name \in Str(Bytes) /\ mark \in Str(Bytes) /\ value \in Str(Bytes)
      BY <1>0, <1>2, <1>3, <1>4 DEF Str
    <2>2. /\ Cat(p, Cat(one, name)) = Cat(Cat(p, one), name)
          /\ Cat(p, Cat(Cat(one, name), Cat(mark, value))) = Cat(Cat(Cat(Cat(p, one), name), mark), value)
      BY ONLY <2>1, CatFour
    <2> QED
      BY ONLY <2>2, Zenon DEF Cat
  <1>21. CASE value = <<>>
    <2>1. VariableBytes(<<t, name, value>>) = one \o name \o <<>>
      BY <1>21 DEF VariableBytes, one
    <2>2. one \o name \o <<>> = one \o name
      <3>1. one \o name \in Seq(Bytes)
        BY <1>2, <1>4, ConcatProperties
      <3> QED
        BY <3>1, ConcatEmptySeq
    <2>3. q = p2
      BY <1>20, <2>1, <2>2 DEF p1, p2
    <2>4. m = n2 /\ n2 + 1 \in Nat /\ n + 1 < n2 + 1 /\ n2 + 1 <= m + 1 /\ n + 2 = n1 + 1 /\ (n2 + 1) - 1 = n2
      <3>1. m = n2
        BY <1>9, <2>3
      <3> QED
        BY ONLY <1>0, <1>5, <1>9, <1>14, <3>1
    <2>5. Appended(p, n, q, m, t, name, value, n2 + 1)
      BY <1>2, <1>3, <1>17, <1>18, <1>19, <1>21, <2>3, <2>4 DEF Appended
    <2> QED
      BY <2>5
  <1>22. CASE value # <<>>
    <2>1. VariableBytes(<<t, name, value>>) = one \o name \o (mark \o value)
      BY <1>22 DEF VariableBytes, one, mark
    <2>2. q = p4
      BY <1>20, <2>1 DEF p1, p2, p3, p4
    <2>3. m = n4
      BY <1>13, <2>2
    <2>4. p3[n3] = ENVIRON_VALUE /\ \A k \in 1..n2 : p3[k] = p2[k]
      <3>1. n3 \in n2 + 1..n3 /\ n3 - n2 = 1
        BY <1>9, <1>14
      <3> QED
        BY <1>4, <1>10, <3>1 DEF Joined, Begins
    <2>5. /\ \A k \in 1..n3 : p4[k] = p3[k]
          /\ \A k \in n3 + 1..n4 : p4[k] \notin NAMES \cup {ENVIRON_ESC}
          /\ SubSeq(p4, n3 + 1, n4) = value
      <3>1. \A k \in n3 + 1..n4 : k - n3 \in 1..l
        BY ONLY <1>0, <1>5, <1>11, <1>13, <1>14
      <3>2. \A k \in n3 + 1..n4 : p4[k] = value[k - n3]
        BY <1>12 DEF Joined
      <3> QED
        BY <1>3, <1>12, <3>1, <3>2 DEF Joined, Begins, l
    <2>6. Begins(p2, n2, p4, n4) /\ p4[n3] = ENVIRON_VALUE
      <3>1. \A k \in 1..n2 : k \in 1..n3
        BY <1>9, <1>14
      <3>2. n2 <= n4 /\ n3 \in 1..n3
        BY <1>5, <1>9, <1>14
      <3> QED
        BY <1>9, <1>13, <2>4, <2>5, <3>1, <3>2 DEF Begins
    <2>7. Begins(p, n, p4, n4) /\ p4[n + 1] = t
      <3>1. n <= n4 /\ n + 1 \in 1..n2 /\ \A k \in 1..n : k \in 1..n2
        BY <1>0, <1>5, <1>14
      <3> QED
        BY <1>13, <1>19, <2>6, <3>1 DEF Begins
    <2>8. \A k \in 1..n2 : p4[k] = p2[k]
      BY <2>6 DEF Begins
    <2>9. \A k \in n + 2..n4 : k \in n1 + 1..n2 \/ k = n3 \/ k \in n3 + 1..n4
      BY <1>0, <1>5, <1>14
    <2>10. \A k \in n1 + 1..n2 : k \in 1..n2
      BY <1>7
    <2>11. \A k \in n + 2..n4 : p4[k] # ENVIRON_ESC /\ (k # n3 => p4[k] \notin NAMES)
      BY <1>1, <1>17, <2>5, <2>6, <2>8, <2>9, <2>10
    <2>12. Plain(p4, n4)
      <3>1. \A k \in 2..n4 : k \in n + 2..n4 \/ (k \in 2..n2 /\ k \in 1..n2)
        BY <1>0, <1>5, <1>14
      <3>2. \A k \in 2..n4 : p4[k] # ENVIRON_ESC
        BY <1>18, <2>8, <2>11, <3>1 DEF Plain
      <3>3. n4 > 0
        BY <1>0, <1>5, <1>14
      <3> QED
        BY <1>13, <3>2, <3>3 DEF Plain
    <2>13. SubSeq(p4, n1 + 1, n2) = name
      <3>1. n1 + 1 \in Nat \ {0} /\ n2 \in 0..n2
        BY <1>7, <1>9
      <3>2. SubSeq(p4, n1 + 1, n2) = SubSeq(p2, n1 + 1, n2)
        <4> DEFINE a == n1 + 1
        <4>1. a \in Nat \ {0} /\ n2 \in 0..n2
          BY <3>1
        <4> HIDE DEF a
        <4>2. SubSeq(p4, a, n2) = SubSeq(p2, a, n2)
          BY ONLY <2>6, <4>1, PartOfBegin
        <4> QED
          BY <4>2 DEF a
      <3> QED
        BY <1>17, <3>2
    <2>14. n3 \in Nat /\ n + 1 < n3 /\ n3 <= m + 1 /\ n3 <= m /\ n + 2 = n1 + 1 /\ n3 - 1 = n2
      BY <1>0, <1>5, <1>14, <2>3
    <2>15. Appended(p, n, q, m, t, name, value, n3)
      BY <1>2, <1>3, <1>22, <2>2, <2>3, <2>5, <2>6, <2>7, <2>11, <2>12, <2>13, <2>14 DEF Appended
    <2> QED
      BY <2>15
  <1> QED
    BY <1>21, <1>22

(* The entries before stay what they were. *)
LEMMA EntryStays ==
    ASSUME NEW p, NEW n, NEW q, NEW m, NEW t, NEW name, NEW value, NEW e,
           Appended(p, n, q, m, t, name, value, e), NEW k \in Marks(p, STARTS)
    PROVE  EnvironEntry(q, k) = EnvironEntry(p, k)
  <1>1. /\ Plain(p, n) /\ Plain(q, m) /\ Begins(p, n, q, m) /\ q[n + 1] = t /\ t \in STARTS
        /\ n + 1 < e /\ e <= m + 1 /\ e \in Nat
    BY DEF Appended
  <1>2. /\ p \in Seq(Bytes) /\ n \in Nat /\ n = Len(p) /\ n > 0
        /\ q \in Seq(Bytes) /\ m \in Nat /\ m = Len(q) /\ \A l \in 1..n : q[l] = p[l]
    BY <1>1 DEF Plain, Begins
  <1>3. /\ \A codes : Marks(p, codes) = {l \in 2..n : p[l] \in codes}
        /\ \A codes : Marks(q, codes) = {l \in 2..m : q[l] \in codes}
    BY <1>1, PlainEscaped
  <1>4. k \in 2..n /\ q[k] = p[k]
    BY <1>2, <1>3
  <1>5. ASSUME NEW codes, STARTS \subseteq codes
        PROVE  /\ Following(Marks(q, codes), k, q) = Following(Marks(p, codes), k, p)
               /\ Following(Marks(p, codes), k, p) \in k + 1..n + 1
    <2> DEFINE P == Marks(p, codes)
               Q == Marks(q, codes)
               f == Following(P, k, p)
               g == Following(Q, k, q)
    <2>1. P = {l \in 2..n : p[l] \in codes} /\ Q = {l \in 2..m : q[l] \in codes}
      BY <1>3
    <2>2. NextMark(P, k, n, f)
      <3>1. P \subseteq 1..n /\ k \in 0..n
        BY <1>4, <2>1
      <3> HIDE DEF P
      <3> QED
        BY <1>2, <3>1, NextIs
    <2>3. NextMark(Q, k, m, g)
      <3>1. Q \subseteq 1..m /\ k \in 0..m
        BY <1>1, <1>2, <1>4, <2>1
      <3> HIDE DEF Q
      <3> QED
        BY <1>2, <3>1, NextIs
    <2> HIDE DEF P, Q, f, g
    <2>4. /\ k \in Nat /\ f \in Nat /\ k < f /\ f <= n + 1 /\ (f <= n => f \in P)
          /\ \A l \in k + 1..f - 1 : l \notin P
      BY <2>2 DEF NextMark
    <2>5. ASSUME f <= m PROVE f \in Q
      <3>1. CASE f <= n
        <4>1. f \in P /\ f \in 1..n /\ f \in 2..m
          BY <1>1, <1>2, <1>4, <2>4, <2>5, <3>1
        <4> QED
          BY <1>2, <2>1, <4>1
      <3>2. CASE f = n + 1
        <4>1. f \in 2..m
          BY <1>2, <1>4, <2>4, <2>5
        <4> QED
          BY <1>1, <1>5, <2>1, <3>2, <4>1
      <3> QED
        BY <1>2, <2>4, <3>1, <3>2
    <2>6. ASSUME NEW l \in k + 1..f - 1 PROVE l \notin Q
      <3>1. l \in 1..n /\ l \in 2..n
        BY <1>2, <1>4, <2>4
      <3> QED
        BY <1>2, <2>1, <2>4, <3>1
    <2>7. f <= m + 1
      BY <1>1, <1>2, <2>4
    <2>8. NextMark(Q, k, m, f)
      BY <1>2, <2>4, <2>5, <2>6, <2>7 DEF NextMark
    <2>9. g = f
      BY <2>3, <2>8, NextOnly
    <2>10. f \in k + 1..n + 1
      BY <1>2, <2>4
    <2> QED
      BY <2>9, <2>10 DEF f, g, P, Q
  <1> DEFINE v == Following(Marks(p, NAMES), k, p)
             z == Following(Marks(p, STARTS), k, p)
  <1>6. v \in k + 1..n + 1 /\ Following(Marks(q, NAMES), k, q) = v
    BY <1>5 DEF STARTS, NAMES
  <1>7. z \in k + 1..n + 1 /\ Following(Marks(q, STARTS), k, q) = z
    BY <1>5 DEF STARTS, NAMES
  <1>8. EnvironEntry(p, k) = <<p[k], Literal(p, k + 1..v - 1), Literal(p, v + 1..z - 1)>>
    BY DEF EnvironEntry, STARTS, NAMES
  <1>9. EnvironEntry(q, k) = <<q[k], Literal(q, k + 1..v - 1), Literal(q, v + 1..z - 1)>>
    BY <1>6, <1>7 DEF EnvironEntry, STARTS, NAMES
  <1> HIDE DEF v, z
  <1>10. ASSUME NEW a \in Nat, a > 1, NEW b \in 0..n PROVE Literal(q, a..b) = Literal(p, a..b)
    BY <1>1, <1>10, SamePart
  <1>11. k + 1 \in Nat /\ k + 1 > 1 /\ v - 1 \in 0..n /\ v + 1 \in Nat /\ v + 1 > 1 /\ z - 1 \in 0..n
    BY <1>2, <1>4, <1>6, <1>7
  <1> QED
    BY <1>4, <1>8, <1>9, <1>10, <1>11

LEMMA EntryComes ==
    ASSUME NEW p, NEW n, NEW q, NEW m, NEW t, NEW name, NEW value, NEW e,
           Appended(p, n, q, m, t, name, value, e)
    PROVE  EnvironEntry(q, n + 1) = <<t, name, value>>
  <1>1. /\ Plain(p, n) /\ Plain(q, m) /\ q[n + 1] = t /\ t \in STARTS
        /\ e \in Nat /\ n + 1 < e /\ e <= m + 1
        /\ SubSeq(q, n + 2, e - 1) = name /\ UpToNul(name) = name /\ UpToNul(value) = value
        /\ value = <<>> => e = m + 1
        /\ value # <<>> => e <= m /\ q[e] = ENVIRON_VALUE /\ SubSeq(q, e + 1, m) = value
        /\ \A k \in n + 2..m : k # e => q[k] \notin NAMES
    BY DEF Appended
  <1>2. n \in Nat /\ n > 0 /\ q \in Seq(Bytes) /\ m \in Nat /\ m = Len(q)
    BY <1>1 DEF Plain
  <1>3. \A codes : Marks(q, codes) = {l \in 2..m : q[l] \in codes}
    BY <1>1, PlainEscaped
  <1> DEFINE k == n + 1
  <1>4. k = n + 1 /\ k + 1 = n + 2 /\ k \in Nat /\ k \in 0..m
    BY <1>1, <1>2
  <1> HIDE DEF k
  <1>5. Following(Marks(q, NAMES), k, q) = e
    <2> DEFINE Q == Marks(q, NAMES)
               g == Following(Q, k, q)
    <2>1. Q = {l \in 2..m : q[l] \in NAMES}
      BY <1>3
    <2>2. NextMark(Q, k, m, g)
      <3>1. Q \subseteq 1..m
        BY <1>2, <2>1
      <3> HIDE DEF Q
      <3> QED
        BY <1>2, <1>4, <3>1, NextIs
    <2> HIDE DEF Q, g
    <2>3. ASSUME e <= m PROVE e \in Q
      <3>1. value # <<>>
        BY <1>1, <1>2, <2>3
      <3>2. e \in 2..m
        BY <1>1, <1>2, <2>3
      <3> QED
        BY <1>1, <2>1, <3>1, <3>2 DEF NAMES
    <2>4. ASSUME NEW l \in k + 1..e - 1 PROVE l \notin Q
      <3>1. l \in n + 2..m /\ l # e
        BY <1>1, <1>2, <1>4
      <3> QED
        BY <1>1, <2>1, <3>1
    <2>5. k < e
      BY <1>1, <1>4
    <2>6. NextMark(Q, k, m, e)
      BY <1>1, <1>2, <1>4, <2>3, <2>4, <2>5 DEF NextMark
    <2> QED
      BY <2>2, <2>6, NextOnly DEF g, Q
  <1>6. Following(Marks(q, STARTS), k, q) = m + 1
    <2> DEFINE Q == Marks(q, STARTS)
               g == Following(Q, k, q)
               f == m + 1
    <2>1. Q = {l \in 2..m : q[l] \in STARTS}
      BY <1>3
    <2>2. NextMark(Q, k, m, g)
      <3>1. Q \subseteq 1..m
        BY <1>2, <2>1
      <3> HIDE DEF Q
      <3> QED
        BY <1>2, <1>4, <3>1, NextIs
    <2> HIDE DEF Q, g
    <2>3. ~(f <= m) /\ f \in Nat /\ k < f /\ f <= m + 1
      BY <1>1, <1>2, <1>4
    <2>4. ASSUME NEW l \in k + 1..f - 1 PROVE l \notin Q
      <3>1. l \in n + 2..m
        BY <1>1, <1>2, <1>4
      <3>2. CASE l = e
        <4>1. value # <<>>
          BY <1>1, <1>2, <3>1, <3>2
        <4>2. q[l] = ENVIRON_VALUE
          BY <1>1, <3>2, <4>1
        <4> QED
          BY <2>1, <4>2 DEF STARTS, ENVIRON_VALUE, ENVIRON_VAR, ENVIRON_USERVAR
      <3>3. CASE l # e
        BY <1>1, <2>1, <3>1, <3>3 DEF STARTS, NAMES
      <3> QED
        BY <3>2, <3>3
    <2> HIDE DEF f
    <2>5. NextMark(Q, k, m, f)
      BY <1>1, <1>2, <1>4, <2>3, <2>4 DEF NextMark
    <2> QED
      BY <2>2, <2>5, NextOnly DEF f, g, Q
  <1>7. EnvironEntry(q, k) = <<q[k], Literal(q, k + 1..e - 1), Literal(q, e + 1..m)>>
    <2> DEFINE v == Following(Marks(q, NAMES), k, q)
               z == Following(Marks(q, STARTS), k, q)
    <2>1. EnvironEntry(q, k) = <<q[k], Literal(q, k + 1..v - 1), Literal(q, v + 1..z - 1)>>
      BY DEF EnvironEntry, STARTS, NAMES
    <2>2. v = e /\ z - 1 = m
      BY <1>2, <1>5, <1>6
    <2> HIDE DEF v, z
    <2> DEFINE b == z - 1
    <2>3. EnvironEntry(q, k) = <<q[k], Literal(q, k + 1..v - 1), Literal(q, v + 1..b)>>
      BY <2>1
    <2>4. b = m
      BY <2>2
    <2> HIDE DEF b
    <2> QED
      BY ONLY <2>2, <2>3, <2>4
  <1>8. Literal(q, k + 1..e - 1) = name
    <2> DEFINE a == k + 1
               b == e - 1
    <2>1. a \in 2..m + 1 /\ b \in a - 1..m
      BY <1>1, <1>2, <1>4
    <2>2. SubSeq(q, a, b) = name
      BY <1>1, <1>4
    <2> HIDE DEF a, b
    <2>3. Literal(q, a..b) = UpToNul(SubSeq(q, a, b))
      BY <1>1, <2>1, PlainLiteral
    <2> QED
      BY <1>1, <2>2, <2>3 DEF a, b
  <1>9. Literal(q, e + 1..m) = value
    <2>1. CASE value = <<>>
      <3> DEFINE P == e + 1..m
      <3>1. P = {}
        BY <1>1, <1>2, <2>1
      <3> HIDE DEF P
      <3>2. Literal(q, P) = <<>>
        BY <1>2, <3>1, NoLiteral
      <3> QED
        BY <2>1, <3>2 DEF P
    <2>2. CASE value # <<>>
      <3> DEFINE a == e + 1
      <3>1. a \in 2..m + 1 /\ m \in a - 1..m
        BY <1>1, <1>2, <2>2
      <3>2. SubSeq(q, a, m) = value
        BY <1>1, <2>2
      <3> HIDE DEF a
      <3>3. Literal(q, a..m) = UpToNul(SubSeq(q, a, m))
        BY <1>1, <3>1, PlainLiteral
      <3> QED
        BY <1>1, <3>2, <3>3 DEF a
    <2> QED
      BY <2>1, <2>2
  <1>10. q[k] = t
    BY <1>1, <1>4
  <1>11. EnvironEntry(q, k) = <<t, name, value>>
    BY <1>7, <1>8, <1>9, <1>10
  <1> QED
    BY <1>4, <1>11

(* w is what the variables x are sent as. *)
EnvironSent(cmd, w, x) ==
    LET p == <<cmd>> \o w
    IN  /\ Plain(p, Len(p)) /\ (Len(p) > 1 => p[2] \in STARTS)
        /\ Picked(EnvironEntries(p), Marks(p, STARTS)) = x

LEMMA EnvironStep ==
    ASSUME NEW cmd \in Bytes, NEW w \in Seq(Bytes), NEW x, EnvironSent(cmd, w, x),
           NEW t \in STARTS, NEW name \in EnvironStrings, NEW value \in EnvironStrings,
           NEW u, u = VariableBytes(<<t, name, value>>), u \in Seq(Bytes)
    PROVE  EnvironSent(cmd, w \o u, Append(x, <<t, name, value>>))
  <1> DEFINE one == <<cmd>>
             p == one \o w
             n == Len(p)
             q == p \o u
             m == Len(q)
  <1>1. one \in Seq(Bytes) /\ one = <<cmd>>
    OBVIOUS
  <1>2. Plain(p, n) /\ (n > 1 => p[2] \in STARTS) /\ Picked(EnvironEntries(p), Marks(p, STARTS)) = x
    BY DEF EnvironSent
  <1> HIDE DEF one
  <1>3. <<cmd>> \o (w \o u) = q
    <2>1. one \in Str(Bytes) /\ w \in Str(Bytes) /\ u \in Str(Bytes)
      BY <1>1 DEF Str
    <2>2. Cat(one, Cat(w, u)) = Cat(Cat(one, w), u)
      BY ONLY <2>1, CatFour
    <2>3. one \o (w \o u) = one \o w \o u
      BY ONLY <2>2, Zenon DEF Cat
    <2> QED
      BY <1>1, <2>3
  <1>4. PICK e : Appended(p, n, q, m, t, name, value, e)
    <2> HIDE DEF p, n, m
    <2> QED
      BY <1>2, VariableAppended DEF m
  <1> HIDE DEF p, n, q, m
  <1>5. /\ Plain(q, m) /\ Begins(p, n, q, m) /\ q[n + 1] = t /\ e \in Nat /\ n + 1 < e /\ e <= m + 1
        /\ value # <<>> => q[e] = ENVIRON_VALUE
        /\ value = <<>> => e = m + 1
        /\ \A k \in n + 2..m : k # e => q[k] \notin NAMES
    BY <1>4 DEF Appended
  <1>6. /\ p \in Seq(Bytes) /\ n \in Nat /\ n = Len(p) /\ n > 0
        /\ q \in Seq(Bytes) /\ m \in Nat /\ m = Len(q) /\ \A k \in 1..n : q[k] = p[k]
    BY <1>2, <1>5 DEF Plain, Begins
  <1>7. /\ \A codes : Marks(p, codes) = {l \in 2..n : p[l] \in codes}
        /\ \A codes : Marks(q, codes) = {l \in 2..m : q[l] \in codes}
    BY <1>2, <1>5, PlainEscaped
  <1>8. EnvironEntry(q, n + 1) = <<t, name, value>>
    BY <1>4, EntryComes
  <1>9. \A k \in Marks(p, STARTS) : EnvironEntry(q, k) = EnvironEntry(p, k)
    BY <1>4, EntryStays
  <1> DEFINE s == EnvironEntries(p)
             r == EnvironEntries(q)
             P == Marks(p, STARTS)
             Q == Marks(q, STARTS)
             A == {EnvironEntry(p, k) : k \in 1..n} \cup {EnvironEntry(q, k) : k \in 1..m}
  <1>10. s \in [1..n -> A] /\ \A k \in 1..n : s[k] = EnvironEntry(p, k)
    <2>1. DOMAIN p = 1..n
      BY <1>6, LenProperties
    <2> QED
      BY <2>1 DEF EnvironEntries
  <1>11. r \in [1..m -> A] /\ \A k \in 1..m : r[k] = EnvironEntry(q, k)
    <2>1. DOMAIN q = 1..m
      BY <1>6, LenProperties
    <2> QED
      BY <2>1 DEF EnvironEntries
  <1>12. P = {l \in 2..n : p[l] \in STARTS} /\ Q = {l \in 2..m : q[l] \in STARTS}
    BY <1>7
  <1> HIDE DEF s, r, A, P, Q
  <1>13. s \in Seq(A) /\ Len(s) = n /\ r \in Seq(A) /\ Len(r) = m
    BY <1>6, <1>10, <1>11, FunctionIsSeq
  <1>14. n + 1 \in 2..m /\ n + 1 \in n + 1..m
    <2>1. n + 1 <= m
      BY <1>5, <1>6
    <2> QED
      BY <1>6, <2>1
  <1>15. OneMore(A, s, P, n, r, Q, m, n + 1)
    <2>1. n + 1 \in Q
      BY <1>5, <1>12, <1>14
    <2>2. ASSUME NEW k \in 1..n PROVE (k \in Q <=> k \in P) /\ (k \in P => r[k] = s[k])
      <3>1. k \in 1..m /\ (k \in 2..m <=> k \in 2..n)
        BY <1>6, <1>14
      <3>2. k \in Q <=> k \in P
        BY <1>6, <1>12, <3>1
      <3>3. k \in P => EnvironEntry(q, k) = EnvironEntry(p, k)
        BY <1>9 DEF P
      <3> QED
        BY <1>10, <1>11, <3>1, <3>2, <3>3
    <2>3. ASSUME NEW k \in n + 1..m, k \in Q PROVE k = n + 1
      <3> SUFFICES ASSUME k # n + 1 PROVE FALSE
        OBVIOUS
      <3>1. k \in n + 2..m
        BY <1>6
      <3>2. CASE k = e
        <4>1. value # <<>>
          BY <1>5, <1>6, <3>1, <3>2
        <4>2. q[k] = ENVIRON_VALUE
          BY <1>5, <3>2, <4>1
        <4> QED
          BY <1>12, <2>3, <4>2 DEF STARTS, ENVIRON_VALUE, ENVIRON_VAR, ENVIRON_USERVAR
      <3>3. CASE k # e
        BY <1>5, <1>12, <2>3, <3>1, <3>3 DEF STARTS, NAMES
      <3> QED
        BY <3>2, <3>3
    <2> QED
      BY <1>6, <1>13, <1>14, <2>1, <2>2, <2>3 DEF OneMore
  <1>16. Picked(r, Q) = Append(Picked(s, P), r[n + 1])
    <2> DEFINE ix == n + 1
    <2>1. OneMore(A, s, P, n, r, Q, m, ix)
      BY <1>15
    <2> HIDE DEF ix
    <2>2. Picked(r, Q) = Append(Picked(s, P), r[ix])
      BY ONLY <2>1, PickedMore
    <2> QED
      BY <2>2 DEF ix
  <1>17. r[n + 1] = <<t, name, value>>
    BY <1>6, <1>8, <1>11, <1>14
  <1>18. m > 1 /\ q[2] \in STARTS
    <2>1. m > 1
      BY <1>6, <1>14
    <2>2. CASE n = 1
      BY <1>5, <2>1, <2>2
    <2>3. CASE n > 1
      <3>1. 2 \in 1..n
        BY <1>6, <2>3
      <3> QED
        BY <1>2, <1>6, <2>1, <2>3, <3>1
    <2> QED
      BY <1>6, <2>1, <2>2, <2>3
  <1>19. Picked(r, Q) = Append(x, <<t, name, value>>)
    BY <1>2, <1>16, <1>17 DEF s, P
  <1> DEFINE y == Append(x, <<t, name, value>>)
             p2 == <<cmd>> \o (w \o u)
  <1>20. p2 = q /\ Len(p2) = m
    BY <1>3, <1>6
  <1> HIDE DEF y
  <1>21. Plain(p2, Len(p2)) /\ (Len(p2) > 1 => p2[2] \in STARTS) /\ Picked(EnvironEntries(p2), Marks(p2, STARTS)) = y
    BY <1>5, <1>18, <1>19, <1>20 DEF r, Q, y
  <1>22. EnvironSent(cmd, w \o u, y)
    BY ONLY <1>21 DEF EnvironSent
  <1> QED
    BY <1>22 DEF y

EnvironTriples == STARTS \X EnvironStrings \X EnvironStrings

LEMMA VariableBytesIn ==
    ASSUME NEW v \in EnvironTriples
    PROVE  VariableBytes(v) \in Seq(Bytes)
  <1> DEFINE one == <<v[1]>>
             mark == <<ENVIRON_VALUE>>
             name == v[2]
             value == v[3]
  <1>1. v[1] \in Bytes /\ ENVIRON_VALUE \in Bytes
    BY BytesAssumption DEF EnvironTriples, STARTS, ENVIRON_VAR, ENVIRON_USERVAR, ENVIRON_VALUE
  <1>2. name \in EnvironStrings /\ value \in EnvironStrings
    BY DEF EnvironTriples
  <1>3. one \in Seq(Bytes) /\ mark \in Seq(Bytes)
    BY <1>1
  <1>4. VariableBytes(v) = one \o name \o IF value = <<>> THEN <<>> ELSE mark \o value
    BY DEF VariableBytes
  <1> HIDE DEF one, mark, name, value
  <1>5. name \in Seq(Bytes) /\ value \in Seq(Bytes)
    BY <1>2, EnvironString
  <1> DEFINE x == one \o name
             y == mark \o value
  <1>6. x \in Seq(Bytes) /\ y \in Seq(Bytes)
    BY <1>3, <1>5, ConcatProperties
  <1> HIDE DEF x, y
  <1>7. VariableBytes(v) = x \o <<>> \/ VariableBytes(v) = x \o y
    BY <1>4 DEF x, y
  <1>8. <<>> \in Seq(Bytes)
    BY EmptySeq
  <1>9. x \o <<>> \in Seq(Bytes) /\ x \o y \in Seq(Bytes)
    BY <1>6, <1>8, ConcatProperties
  <1> QED
    BY <1>7, <1>9

(* telnet_newenviron. *)
LEMMA EnvironIsRead ==
    ASSUME NEW cmd \in {ENVIRON_IS, ENVIRON_SEND, ENVIRON_INFO}, NEW values \in Seq(EnvironTriples),
           NEW w, w = FlattenSeq([k \in DOMAIN values |-> VariableBytes(values[k])])
    PROVE  w \in Seq(Bytes) /\ EnvironMeans(<<cmd>> \o w) = <<Environ(cmd, values)>>
  <1> DEFINE n == Len(values)
             ws == [k \in DOMAIN values |-> VariableBytes(values[k])]
             xs == [k \in DOMAIN values |-> <<values[k]>>]
             Z == {z \in Seq(Bytes) \X Seq(EnvironTriples) : EnvironSent(cmd, z[1], z[2])}
  <1>0. cmd \in Bytes
    BY BytesAssumption DEF ENVIRON_IS, ENVIRON_SEND, ENVIRON_INFO
  <1>1. n \in Nat /\ DOMAIN values = 1..n /\ \A k \in 1..n : values[k] \in EnvironTriples
    BY LenProperties, ElementOfSeq
  <1>2. \A v \in EnvironTriples : VariableBytes(v) \in Seq(Bytes)
    BY VariableBytesIn
  <1>3. ws \in Lists(Bytes) /\ Len(ws) = n
    <2>1. DOMAIN ws = 1..n /\ ws = [k \in 1..n |-> ws[k]] /\ \A k \in 1..n : ws[k] \in Seq(Bytes)
      BY <1>1, <1>2
    <2> HIDE DEF ws
    <2> QED
      BY <1>1, <2>1, IsList
  <1>4. xs \in Lists(EnvironTriples) /\ FlattenSeq(xs) = values
    BY FlattenOnes
  <1>5. Len(xs) = n
    <2>1. DOMAIN xs = 1..n /\ xs = [k \in 1..n |-> xs[k]] /\ \A k \in 1..n : xs[k] \in Seq(EnvironTriples)
      BY <1>1
    <2> HIDE DEF xs
    <2> QED
      BY <1>1, <2>1, IsList
  <1>6. <<<<>>, <<>>>> \in Z
    <2> DEFINE p == <<cmd>> \o <<>>
               P == Marks(p, STARTS)
               s == EnvironEntries(p)
               A == {EnvironEntry(p, k) : k \in 1..1}
    <2>1. <<>> \in Seq(Bytes) /\ <<>> \in Seq(EnvironTriples)
      BY EmptySeq
    <2>2. p \in Seq(Bytes) /\ Len(p) = 1
      <3> DEFINE one == <<cmd>>
      <3>1. one \in Seq(Bytes) /\ Len(one) = 1
        BY <1>0
      <3> HIDE DEF one
      <3>2. one \o <<>> = one
        BY <3>1, ConcatEmptySeq
      <3> QED
        BY <3>1, <3>2 DEF one
    <2> HIDE DEF p
    <2>3. Plain(p, 1)
      BY <2>2 DEF Plain
    <2>4. P = {}
      BY <2>3, PlainEscaped
    <2>5. s \in [1..1 -> A]
      <3>1. DOMAIN p = 1..1
        BY <2>2, LenProperties
      <3> QED
        BY <3>1 DEF EnvironEntries
    <2> HIDE DEF s, P, A
    <2>6. s \in Seq(A) /\ Len(s) = 1
      BY <2>5, FunctionIsSeq
    <2>7. Picked(s, P) = <<>>
      <3>1. P \cap 1..Len(s) = {}
        BY <2>4
      <3> QED
        BY <2>6, <3>1, PickedNone
    <2>8. EnvironSent(cmd, <<>>, <<>>)
      BY <2>2, <2>3, <2>7 DEF EnvironSent, s, P, p
    <2> QED
      BY <2>1, <2>8
  <1>7. \A k \in 1..n : \A b \in Seq(Bytes), x \in Seq(EnvironTriples) :
            <<b, x>> \in Z => <<b \o ws[k], x \o xs[k]>> \in Z
    <2> TAKE k \in 1..n
    <2> TAKE b \in Seq(Bytes), x \in Seq(EnvironTriples)
    <2> HAVE <<b, x>> \in Z
    <2> DEFINE v == values[k]
               u == VariableBytes(v)
               c == b \o u
               t == v[1]
               name == v[2]
               value == v[3]
    <2>1. EnvironSent(cmd, b, x) /\ v \in EnvironTriples /\ ws[k] = u /\ xs[k] = <<v>> /\ u \in Seq(Bytes)
      BY <1>1, <1>2
    <2>2. t \in STARTS /\ name \in EnvironStrings /\ value \in EnvironStrings /\ v = <<t, name, value>>
      BY <2>1 DEF EnvironTriples
    <2>3. x \o <<v>> = Append(x, v) /\ Append(x, v) \in Seq(EnvironTriples)
      BY <2>1, AppendIsConcat, AppendProperties
    <2>4. u = VariableBytes(<<t, name, value>>)
      BY <2>2
    <2> HIDE DEF t, name, value, u, v
    <2>5. EnvironSent(cmd, c, Append(x, <<t, name, value>>))
      BY <1>0, <2>1, <2>2, <2>4, EnvironStep
    <2>6. c \in Seq(Bytes)
      BY <2>1, ConcatProperties
    <2> HIDE DEF c
    <2>7. <<c, Append(x, v)>> \in Z
      BY <2>2, <2>3, <2>5, <2>6
    <2> HIDE DEF Z, ws, xs
    <2> QED
      BY <2>1, <2>3, <2>7 DEF c
  <1> HIDE DEF ws, xs, Z
  <1>8. <<FlattenSeq(ws), FlattenSeq(xs)>> \in Z /\ FlattenSeq(ws) \in Seq(Bytes)
    BY <1>1, <1>3, <1>4, <1>5, <1>6, <1>7, FlattenPairs
  <1>9. <<w, values>> \in Z /\ w \in Seq(Bytes)
    BY <1>4, <1>8 DEF ws
  <1>10. EnvironSent(cmd, w, values)
    BY <1>9 DEF Z
  <1> DEFINE p == <<cmd>> \o w
             m == Len(p)
  <1>11. Plain(p, m) /\ (m > 1 => p[2] \in STARTS) /\ Picked(EnvironEntries(p), Marks(p, STARTS)) = values
    BY <1>10 DEF EnvironSent
  <1>12. p[1] = cmd
    <2> DEFINE one == <<cmd>>
    <2>1. one \in Seq(Bytes) /\ Len(one) = 1 /\ one[1] = cmd
      BY <1>0
    <2> HIDE DEF one
    <2>2. Begins(one, Len(one), one \o w, Len(one) + Len(w))
      BY <1>9, <2>1, BeginsConcat
    <2> QED
      BY <2>1, <2>2 DEF Begins, one
  <1> HIDE DEF p, m
  <1>13. p \in Seq(Bytes) /\ m \in Nat /\ m = Len(p) /\ m > 0 /\ \A k \in 2..m : p[k] # ENVIRON_ESC
    BY <1>11 DEF Plain
  <1>14. p # <<>>
    BY <1>13, EmptySeq
  <1>15. m > 1 => 2 \in Marks(p, STARTS) /\ p[m] # ENVIRON_ESC
    <2>1. Marks(p, STARTS) = {k \in 2..m : p[k] \in STARTS}
      BY <1>11, PlainEscaped
    <2> QED
      BY <1>11, <1>13, <2>1
  <1>16. EnvironMeans(p) = <<Environ(p[1], Picked(EnvironEntries(p), Marks(p, STARTS)))>>
    BY <1>12, <1>13, <1>14, <1>15 DEF EnvironMeans, EnvironEntries, STARTS
  <1> QED
    BY <1>9, <1>11, <1>12, <1>16 DEF p
=============================================================================
