-------------------------- MODULE ClientListProofs --------------------------
(***************************************************************************)
(* Theorems about ClientList, for any clients and any finite heap: up to   *)
(* the first write through a freed `previous', the pointers are a list     *)
(* without leak or dangling end (CellsAreExact), nothing but that write    *)
(* and a full heap ends the process (CrashHasCause), and the operations    *)
(* are those of ClientRoster (ListImplementsRoster).                       *)
(***************************************************************************)
EXTENDS ClientList, SequenceTheorems, FunctionTheorems, FiniteSetTheorems,
        WellFoundedInduction, TLAPS

Cells == Nodes \cup {Null}
Size == Cardinality(Nodes)

-----------------------------------------------------------------------------
(* Induction over the natural numbers, for a set of them: the theorem of   *)
(* the library is about an operator.                                       *)
LEMMA InductionInSet ==
    ASSUME NEW S, 0 \in S, \A n \in Nat : n \in S => n + 1 \in S
    PROVE  Nat \subseteq S
  <1> SUFFICES ASSUME Nat \ S # {} PROVE FALSE
    OBVIOUS
  <1>1. PICK x \in Nat \ S : \A z \in Nat \ S : ~ (<<z, x>> \in OpToRel(<, Nat))
    BY NatLessThanWellFounded, WFMin
  <1>2. x # 0 /\ x - 1 \in Nat /\ x - 1 < x /\ (x - 1) + 1 = x
    OBVIOUS
  <1>3. <<x - 1, x>> \in OpToRel(<, Nat)
    BY <1>2 DEF OpToRel
  <1> QED
    BY <1>1, <1>2, <1>3

-----------------------------------------------------------------------------
(* The walk of PathTo, with any amount of fuel. *)
Onward(walk, fuel, m, stop) ==
    IF fuel = 0 \/ m \in {Null, stop} THEN <<>> ELSE <<m>> \o walk[fuel - 1][next[m]]

IsWalk(walk, k, stop) ==
    walk = [fuel \in 0..k |-> [m \in Cells |-> Onward(walk, fuel, m, stop)]]

(* The recursive definition defines something: a walk with one more unit   *)
(* of fuel is built from the one before.                                   *)
LEMMA WalkExists ==
    ASSUME NEW stop
    PROVE  \A k \in Nat : \E walk : IsWalk(walk, k, stop)
  <1> DEFINE S == {k \in Nat : \E walk : IsWalk(walk, k, stop)}
  <1>1. 0 \in S
    <2> DEFINE f == [fuel \in 0..0 |-> [m \in Cells |-> <<>>]]
    <2>1. \A fuel \in 0..0 : [m \in Cells |-> Onward(f, fuel, m, stop)] = [m \in Cells |-> <<>>]
      BY DEF Onward
    <2>2. IsWalk(f, 0, stop)
      BY <2>1 DEF IsWalk
    <2> QED
      BY <2>2
  <1>2. ASSUME NEW k \in Nat, k \in S PROVE k + 1 \in S
    <2>1. PICK f : IsWalk(f, k, stop)
      BY <1>2
    <2> DEFINE g == [fuel \in 0..k + 1 |-> [m \in Cells |-> Onward(f, fuel, m, stop)]]
    <2>2. \A fuel \in 0..k : f[fuel] = [m \in Cells |-> Onward(f, fuel, m, stop)]
      BY <2>1 DEF IsWalk
    <2>3. \A fuel \in 0..k : g[fuel] = f[fuel]
      BY <2>2
    <2> HIDE DEF g
    <2>4. \A fuel \in 0..k + 1 : fuel = 0 \/ g[fuel - 1] = f[fuel - 1]
      BY <2>3
    <2>5. \A fuel \in 0..k + 1, m \in Cells : Onward(f, fuel, m, stop) = Onward(g, fuel, m, stop)
      BY <2>4 DEF Onward
    <2>6. IsWalk(g, k + 1, stop)
      BY <2>5 DEF IsWalk, g
    <2> QED
      BY <2>6
  <1> QED
    BY <1>1, <1>2, InductionInSet

(* A sequence of cells whose `next' (f) leads from each to the following  *)
(* one, and from the last one to stop.                                     *)
First(p, stop) == IF p = <<>> THEN stop ELSE p[1]
Links(f, p, stop) == \A i \in DOMAIN p : f[p[i]] = IF i = Len(p) THEN stop ELSE p[i + 1]

NoRepeats(s) == \A i, j \in DOMAIN s : s[i] = s[j] => i = j

(* The two that follow are about bare functions: with sequences in sight   *)
(* the provers lose themselves in the arithmetic of lengths.               *)
LEMMA LedFromSecond ==
    ASSUME NEW m \in Nat \ {0}, NEW f, NEW p, NEW t, NEW stop,
           \A i \in 1..m : f[p[i]] = IF i = m THEN stop ELSE p[i + 1],
           \A i \in 1..m - 1 : t[i] = p[i + 1]
    PROVE  /\ \A i \in 1..m - 1 : f[t[i]] = IF i = m - 1 THEN stop ELSE t[i + 1]
           /\ f[p[1]] = IF m = 1 THEN stop ELSE t[1]
  <1>1. ASSUME NEW i \in 1..m - 1
        PROVE  f[t[i]] = IF i = m - 1 THEN stop ELSE t[i + 1]
    <2>1. i + 1 \in 1..m /\ (i + 1 = m <=> i = m - 1) /\ (i # m - 1 => i + 1 \in 1..m - 1)
      OBVIOUS
    <2> QED
      BY <2>1
  <1>2. 1 \in 1..m /\ (m # 1 => 1 \in 1..m - 1)
    OBVIOUS
  <1> QED
    BY <1>1, <1>2

LEMMA LedToOneMore ==
    ASSUME NEW m \in Nat, NEW f, NEW s, NEW a, NEW e, NEW stop,
           \A i \in 1..m : f[s[i]] = IF i = m THEN e ELSE s[i + 1],
           \A i \in 1..m : a[i] = s[i],
           a[m + 1] = e, f[e] = stop
    PROVE  \A i \in 1..m + 1 : f[a[i]] = IF i = m + 1 THEN stop ELSE a[i + 1]
  <1> SUFFICES ASSUME NEW i \in 1..m, i # m + 1 PROVE f[a[i]] = a[i + 1]
    OBVIOUS
  <1>1. i # m => i + 1 \in 1..m
    OBVIOUS
  <1> QED
    BY <1>1

LEMMA TailCells ==
    ASSUME NEW p \in Seq(Nodes), p # <<>>
    PROVE  /\ Len(p) \in Nat \ {0} /\ DOMAIN p = 1..Len(p) /\ p[1] \in Nodes
           /\ Tail(p) \in Seq(Nodes) /\ Len(Tail(p)) = Len(p) - 1 /\ DOMAIN Tail(p) = 1..Len(p) - 1
           /\ \A i \in 1..Len(p) - 1 : Tail(p)[i] = p[i + 1]
  BY HeadTailProperties, LenProperties, EmptySeq, ElementOfSeq

LEMMA EmptyIff ==
    ASSUME NEW p \in Seq(Nodes)
    PROVE  p = <<>> <=> Len(p) = 0
  BY EmptySeq

LEMMA TailOfLinks ==
    ASSUME NEW f, NEW p \in Seq(Nodes), p # <<>>, NEW stop, Links(f, p, stop)
    PROVE  f[p[1]] = First(Tail(p), stop) /\ Links(f, Tail(p), stop)
  <1> DEFINE t == Tail(p) m == Len(p)
  <1>1. /\ m \in Nat \ {0} /\ DOMAIN p = 1..m
        /\ Len(t) = m - 1 /\ DOMAIN t = 1..m - 1
        /\ \A i \in 1..m - 1 : t[i] = p[i + 1]
        /\ t \in Seq(Nodes)
    BY TailCells, ZenonT(20)
  <1>2. \A i \in 1..m : f[p[i]] = IF i = m THEN stop ELSE p[i + 1]
    BY <1>1 DEF Links
  <1>3. t = <<>> <=> m = 1
    <2>1. t = <<>> <=> Len(t) = 0
      BY <1>1, EmptyIff
    <2> HIDE DEF t, m
    <2> QED
      BY <1>1, <2>1
  <1> HIDE DEF t, m
  <1>4. /\ \A i \in 1..m - 1 : f[t[i]] = IF i = m - 1 THEN stop ELSE t[i + 1]
        /\ f[p[1]] = IF m = 1 THEN stop ELSE t[1]
    BY <1>1, <1>2, LedFromSecond
  <1>5. Links(f, t, stop)
    BY <1>1, <1>4 DEF Links
  <1>6. f[p[1]] = First(t, stop)
    BY <1>3, <1>4 DEF First
  <1> QED
    BY <1>5, <1>6 DEF t

LEMMA FirstThenTail ==
    ASSUME NEW p \in Seq(Nodes), p # <<>>
    PROVE  p = <<p[1]>> \o Tail(p)
  <1> DEFINE t == Tail(p) m == Len(p) h == <<p[1]>> c == h \o t
  <1>1. /\ m \in Nat \ {0} /\ p[1] \in Nodes
        /\ t \in Seq(Nodes) /\ Len(t) = m - 1
        /\ \A i \in 1..m - 1 : t[i] = p[i + 1]
    BY TailCells
  <1>2. h \in Seq(Nodes) /\ Len(h) = 1 /\ h[1] = p[1]
    BY <1>1
  <1> HIDE DEF t, h
  <1>3. /\ c \in Seq(Nodes) /\ Len(c) = 1 + (m - 1)
        /\ \A i \in 1..1 + (m - 1) : c[i] = IF i <= 1 THEN h[i] ELSE t[i - 1]
    <2>1. /\ c \in Seq(Nodes) /\ Len(c) = Len(h) + Len(t)
          /\ \A i \in 1..Len(h) + Len(t) : c[i] = IF i <= Len(h) THEN h[i] ELSE t[i - Len(h)]
      BY <1>1, <1>2, ConcatProperties, ZenonT(20)
    <2> QED
      BY <1>1, <1>2, <2>1
  <1>4. Len(c) = m /\ \A i \in 1..m : c[i] = p[i]
    <2> HIDE DEF m, c
    <2>1. 1 + (m - 1) = m
      BY <1>1
    <2>2. ASSUME NEW i \in 1..m, i # 1 PROVE c[i] = p[i]
      <3>1. i - 1 \in 1..m - 1 /\ (i - 1) + 1 = i /\ ~(i <= 1)
        BY <1>1, <2>2
      <3> QED
        BY <1>1, <1>3, <2>1, <3>1
    <2>3. 1 \in 1..m /\ 1 <= 1
      BY <1>1
    <2> QED
      BY <1>2, <1>3, <2>1, <2>2, <2>3
  <1> HIDE DEF c
  <1>5. p = c
    BY <1>3, <1>4, SeqEqual
  <1> QED
    BY <1>5 DEF c, h, t

(* With enough fuel the walk finds the cells up to stop. *)
LEMMA WalkFollows ==
    ASSUME NEW stop, NEW k \in Nat, NEW walk, IsWalk(walk, k, stop)
    PROVE  \A j \in 0..k : \A p \in Seq(Nodes) :
               Len(p) <= j /\ Links(next, p, stop) /\ stop \in Cells /\ stop \notin Elems(p)
                   => walk[j][First(p, stop)] = p
  <1> DEFINE Good(j) ==
          \A p \in Seq(Nodes) :
               Len(p) <= j /\ Links(next, p, stop) /\ stop \in Cells /\ stop \notin Elems(p)
                   => walk[j][First(p, stop)] = p
      S == {j \in Nat : j <= k => Good(j)}
  <1>1. \A j \in 0..k, m \in Cells : walk[j][m] = Onward(walk, j, m, stop)
    BY DEF IsWalk
  <1>2. ASSUME NEW j \in 0..k, NEW p \in Seq(Nodes), p = <<>>, stop \in Cells
        PROVE  walk[j][First(p, stop)] = p
    BY <1>1, <1>2 DEF First, Onward
  <1>3. 0 \in S
    <2>1. \A p \in Seq(Nodes) : Len(p) <= 0 => p = <<>>
      BY EmptySeq, LenProperties
    <2> QED
      BY <1>2, <2>1
  <1>4. ASSUME NEW j \in Nat, j \in S PROVE j + 1 \in S
    <2> SUFFICES ASSUME j + 1 <= k, NEW p \in Seq(Nodes), Len(p) <= j + 1, Links(next, p, stop),
                        stop \in Cells, stop \notin Elems(p), p # <<>>
                 PROVE  walk[j + 1][First(p, stop)] = p
      BY <1>2
    <2>1. Good(j) /\ j \in 0..k /\ j + 1 \in 0..k /\ (j + 1) - 1 = j
      BY <1>4
    <2>2. /\ p[1] \in Nodes /\ next[p[1]] = First(Tail(p), stop)
          /\ Tail(p) \in Seq(Nodes) /\ Len(Tail(p)) = Len(p) - 1 /\ Links(next, Tail(p), stop)
          /\ \A i \in DOMAIN Tail(p) : i + 1 \in DOMAIN p /\ Tail(p)[i] = p[i + 1]
          /\ p = <<p[1]>> \o Tail(p)
      <3>1. next[p[1]] = First(Tail(p), stop) /\ Links(next, Tail(p), stop)
        BY TailOfLinks
      <3>2. \A i \in DOMAIN Tail(p) : i + 1 \in DOMAIN p /\ Tail(p)[i] = p[i + 1]
        BY TailCells
      <3> QED
        BY <3>1, <3>2, TailCells, FirstThenTail
    <2>3. Len(p) \in Nat /\ 1 \in DOMAIN p
      BY LenProperties, EmptySeq
    <2>4. stop \notin Elems(Tail(p)) /\ p[1] # stop
      BY <2>2, <2>3 DEF Elems
    <2>5. Len(Tail(p)) <= j
      BY <2>2, <2>3
    <2>6. walk[j][First(Tail(p), stop)] = Tail(p)
      BY <2>1, <2>2, <2>4, <2>5
    <2>7. p[1] \in Cells /\ p[1] # Null
      BY <2>2, NullAssumption DEF Cells
    <2>8. walk[j + 1][p[1]] = <<p[1]>> \o walk[j][next[p[1]]]
      <3>1. walk[j + 1][p[1]] = Onward(walk, j + 1, p[1], stop)
        BY <1>1, <2>1, <2>7
      <3>2. j + 1 # 0 /\ p[1] \notin {Null, stop}
        BY <2>4, <2>7
      <3> QED
        BY <2>1, <3>1, <3>2 DEF Onward
    <2> QED
      BY <2>2, <2>6, <2>8 DEF First
  <1>5. Nat \subseteq S
    <2> HIDE DEF S
    <2> QED
      BY <1>3, <1>4, InductionInSet
  <1> QED
    BY <1>5

LEMMA NoMoreThanCells ==
    ASSUME NEW p \in Seq(Nodes), NoRepeats(p)
    PROVE  Len(p) <= Size /\ Size \in Nat
  <1>1. Len(p) \in Nat /\ DOMAIN p = 1..Len(p) /\ p \in [1..Len(p) -> Nodes]
    BY LenProperties
  <1>2. p \in Injection(1..Len(p), Nodes)
    BY <1>1, Fun_IsInj DEF NoRepeats
  <1>3. Cardinality(1..Len(p)) <= Cardinality(Nodes)
    BY <1>2, FS_Injection, HeapAssumption
  <1>4. Cardinality(1..Len(p)) = Len(p)
    BY <1>1, FS_Interval, SMTT(20)
  <1> QED
    BY <1>3, <1>4, FS_CardinalityType, HeapAssumption DEF Size

LEMMA PathIs ==
    ASSUME NEW p \in Seq(Nodes), NoRepeats(p), NEW stop \in Cells, Links(next, p, stop), stop \notin Elems(p)
    PROVE  PathTo(First(p, stop), stop) = p
  <1>1. Len(p) <= Size /\ Size \in Nat
    BY NoMoreThanCells
  <1> DEFINE walk == CHOOSE w : IsWalk(w, Size, stop)
  <1>2. IsWalk(walk, Size, stop)
    BY <1>1, WalkExists
  <1>3. PathTo(First(p, stop), stop) = walk[Size][First(p, stop)]
    BY DEF PathTo, IsWalk, Onward, Cells, Size
  <1> HIDE DEF walk
  <1>4. Size \in 0..Size
    BY <1>1
  <1> QED
    BY <1>1, <1>2, <1>3, <1>4, WalkFollows

-----------------------------------------------------------------------------
(* What a cell more at the end, and one less at the front, does.           *)
LEMMA AppendCell ==
    ASSUME NEW s \in Seq(Nodes), NEW e \in Nodes
    PROVE  /\ Append(s, e) \in Seq(Nodes) /\ Append(s, e) # <<>>
           /\ Len(Append(s, e)) = Len(s) + 1 /\ Len(s) \in Nat
           /\ DOMAIN Append(s, e) = 1..Len(s) + 1 /\ DOMAIN s = 1..Len(s)
           /\ \A i \in 1..Len(s) : Append(s, e)[i] = s[i]
           /\ Append(s, e)[Len(s) + 1] = e
           /\ Elems(Append(s, e)) = Elems(s) \cup {e}
           /\ NoRepeats(s) /\ e \notin Elems(s) => NoRepeats(Append(s, e))
  <1> DEFINE a == Append(s, e)
  <1>1. /\ a \in Seq(Nodes) /\ Len(a) = Len(s) + 1 /\ Len(s) \in Nat
        /\ DOMAIN a = 1..Len(s) + 1 /\ DOMAIN s = 1..Len(s)
        /\ \A i \in 1..Len(s) : a[i] = s[i]
        /\ a[Len(s) + 1] = e
    BY LenProperties
  <1> HIDE DEF a
  <1>2. 1..Len(s) + 1 = (1..Len(s)) \cup {Len(s) + 1}
    BY <1>1
  <1>3. Elems(a) = Elems(s) \cup {e}
    BY <1>1, <1>2 DEF Elems
  <1>4. NoRepeats(s) /\ e \notin Elems(s) => NoRepeats(a)
    BY <1>1, <1>2 DEF Elems, NoRepeats
  <1>5. a # <<>>
    BY <1>1, EmptySeq
  <1> QED
    BY <1>1, <1>3, <1>4, <1>5 DEF a

LEMMA FirstAndRest ==
    ASSUME NEW t \in Seq(Nodes), t # <<>>
    PROVE  /\ Elems(t) = {t[1]} \cup Elems(Tail(t))
           /\ NoRepeats(t) => NoRepeats(Tail(t)) /\ t[1] \notin Elems(Tail(t))
  <1> DEFINE r == Tail(t)
  <1>1. /\ Len(t) \in Nat \ {0} /\ DOMAIN t = 1..Len(t)
        /\ DOMAIN r = 1..Len(t) - 1
        /\ \A i \in 1..Len(t) - 1 : r[i] = t[i + 1]
    BY HeadTailProperties, LenProperties, EmptySeq
  <1> HIDE DEF r
  <1>2. /\ \A i \in 1..Len(t) - 1 : i + 1 \in 1..Len(t) /\ i + 1 # 1
        /\ \A i \in 1..Len(t) : i # 1 => i - 1 \in 1..Len(t) - 1 /\ (i - 1) + 1 = i
        /\ 1 \in 1..Len(t)
    BY <1>1
  <1>3. Elems(t) = {t[1]} \cup Elems(r)
    <2>1. ASSUME NEW x \in Elems(t) PROVE x \in {t[1]} \cup Elems(r)
      <3>1. PICK i \in 1..Len(t) : x = t[i]
        BY <1>1 DEF Elems
      <3>2. CASE i = 1
        BY <3>1, <3>2
      <3>3. CASE i # 1
        <4>1. i - 1 \in DOMAIN r /\ r[i - 1] = x
          BY <1>1, <1>2, <3>1, <3>3
        <4> QED
          BY <4>1 DEF Elems
      <3> QED
        BY <3>2, <3>3
    <2>2. ASSUME NEW x \in {t[1]} \cup Elems(r) PROVE x \in Elems(t)
      BY <1>1, <1>2 DEF Elems
    <2> QED
      BY <2>1, <2>2
  <1>4. ASSUME NoRepeats(t) PROVE NoRepeats(r)
    <2> SUFFICES ASSUME NEW i \in 1..Len(t) - 1, NEW j \in 1..Len(t) - 1, r[i] = r[j] PROVE i = j
      BY <1>1 DEF NoRepeats
    <2>1. i + 1 = j + 1
      BY <1>1, <1>2, <1>4 DEF NoRepeats
    <2> QED
      BY <2>1
  <1>5. ASSUME NoRepeats(t) PROVE t[1] \notin Elems(r)
    BY <1>1, <1>2, <1>5 DEF NoRepeats, Elems
  <1> QED
    BY <1>3, <1>4, <1>5 DEF r

LEMMA EmptyCells == Elems(<<>>) = {} /\ NoRepeats(<<>>) /\ <<>> \in Seq(Nodes)
  BY DEF Elems, NoRepeats

LEMMA FirstIsElem ==
    ASSUME NEW p \in Seq(Nodes), NEW stop
    PROVE  /\ p # <<>> => First(p, stop) \in Elems(p) /\ First(p, stop) \in Nodes
           /\ p = <<>> => First(p, stop) = stop
  <1>1. p # <<>> => 1 \in DOMAIN p
    BY LenProperties, EmptySeq
  <1> QED
    BY <1>1, ElementOfSeq, LenProperties DEF First, Elems

LEMMA LinksAppend ==
    ASSUME NEW f, NEW s \in Seq(Nodes), NEW e \in Nodes, NEW stop,
           Links(f, s, e), f[e] = stop
    PROVE  /\ Links(f, Append(s, e), stop)
           /\ First(Append(s, e), stop) = First(s, e)
  <1> DEFINE a == Append(s, e) m == Len(s)
  <1>1. /\ Len(a) = m + 1 /\ m \in Nat
        /\ DOMAIN a = 1..m + 1 /\ DOMAIN s = 1..m
        /\ \A i \in 1..m : a[i] = s[i]
        /\ a[m + 1] = e /\ a # <<>>
    BY AppendCell, ZenonT(20)
  <1>2. \A i \in 1..m : f[s[i]] = IF i = m THEN e ELSE s[i + 1]
    BY <1>1 DEF Links
  <1>3. s = <<>> <=> m = 0
    BY EmptyIff
  <1> HIDE DEF a, m
  <1>4. \A i \in 1..m + 1 : f[a[i]] = IF i = m + 1 THEN stop ELSE a[i + 1]
    BY <1>1, <1>2, LedToOneMore
  <1>5. Links(f, a, stop)
    BY <1>1, <1>4 DEF Links
  <1>6. First(a, stop) = First(s, e)
    <2>1. m # 0 => 1 \in 1..m
      BY <1>1
    <2> QED
      BY <1>1, <1>3, <2>1 DEF First
  <1> QED
    BY <1>5, <1>6 DEF a

(* A sequence that no write disturbs stays linked. *)
LEMMA LinksElsewhere ==
    ASSUME NEW f, NEW g, NEW p \in Seq(Nodes), NEW stop, Links(f, p, stop),
           \A x \in Elems(p) : g[x] = f[x]
    PROVE  Links(g, p, stop)
  BY DEF Links, Elems

(* The last cell may be led elsewhere. *)
LEMMA LinksRedirect ==
    ASSUME NEW f, NEW g, NEW p \in Seq(Nodes), p # <<>>, NEW old, NEW new, Links(f, p, old),
           NoRepeats(p), g[p[Len(p)]] = new,
           \A x \in Elems(p) \ {p[Len(p)]} : g[x] = f[x]
    PROVE  Links(g, p, new)
  <1>1. Len(p) \in DOMAIN p
    BY EmptySeq, LenProperties
  <1> SUFFICES ASSUME NEW i \in DOMAIN p
               PROVE  g[p[i]] = IF i = Len(p) THEN new ELSE p[i + 1]
    BY DEF Links
  <1>2. CASE i = Len(p)
    BY <1>2
  <1>3. CASE i # Len(p)
    <2>1. p[i] # p[Len(p)] /\ p[i] \in Elems(p)
      BY <1>1, <1>3 DEF NoRepeats, Elems
    <2> QED
      BY <1>3, <2>1 DEF Links
  <1> QED
    BY <1>2, <1>3

-----------------------------------------------------------------------------
(* The invariant: the allocated cells form two linked sequences, s behind  *)
(* and t before the pass that runs, and the cursor and `previous' stand    *)
(* where the pass is.  ListExact alone is not inductive: it does not say   *)
(* which cell `previous' is.                                               *)
Core(s, t) ==
    /\ s \in Seq(Nodes) /\ t \in Seq(Nodes)
    /\ NoRepeats(s) /\ NoRepeats(t)
    /\ Elems(s) \cap Elems(t) = {}
    /\ Elems(s) \cup Elems(t) = live
    /\ Links(next, s, First(t, Null))
    /\ Links(next, t, Null)

Position(s, t) ==
    /\ pass = NoPass => t = <<>>
    /\ pass # NoPass => cur = First(t, Null)
    /\ pass = "final" => s = <<>>
    /\ pass # "final" => head = First(s, First(t, Null))
    /\ pass = "recv" /\ prev \in live => s # <<>> /\ prev = s[Len(s)]

Shape(s, t) == Core(s, t) /\ Position(s, t)

(* Every cell has a client of its own, which is still connected. *)
Apart ==
    /\ \A m, n \in live : holds[m] = holds[n] => m = n
    /\ \A n \in live : holds[n] \notin closed

ListInv ==
    /\ TypeOK
    /\ intact => Apart /\ \E s, t : Shape(s, t)
    /\ CrashNeedsCause

LEMMA CellKinds == Null \notin Nodes /\ Null \notin Clients
  BY NullAssumption

(* What SeenNodes and TodoNodes compute is the two sequences. *)
NodesFact ==
    \A s, t : TypeOK /\ Shape(s, t) => SeenNodes = s /\ TodoNodes = t

LEMMA NodesAre == NodesFact
  <1> SUFFICES ASSUME NEW s, NEW t, TypeOK, Shape(s, t)
               PROVE  SeenNodes = s /\ TodoNodes = t
    BY DEF NodesFact
  <1>1. /\ Core(s, t) /\ Position(s, t) /\ s \in Seq(Nodes) /\ t \in Seq(Nodes)
        /\ Null \in Cells /\ Null \notin Elems(s) /\ Null \notin Elems(t)
    <2>1. Core(s, t) /\ Position(s, t)
      BY DEF Shape
    <2>2. s \in Seq(Nodes) /\ t \in Seq(Nodes) /\ Elems(s) \cup Elems(t) = live /\ live \subseteq Nodes
      BY <2>1 DEF Core, TypeOK
    <2> QED
      BY <2>1, <2>2, CellKinds DEF Cells
  <1>2. PathTo(First(t, Null), Null) = t
    BY <1>1, PathIs DEF Core
  <1>3. First(t, Null) \in Cells /\ First(t, Null) \notin Elems(s)
    BY <1>1, FirstIsElem DEF Core, Cells
  <1>4. PathTo(First(s, First(t, Null)), First(t, Null)) = s
    BY <1>1, <1>3, PathIs DEF Core
  <1>5. CASE pass = NoPass
    <2>1. t = <<>> /\ First(t, Null) = Null /\ head = First(s, Null)
      BY <1>1, <1>5 DEF Position, First, NoPass
    <2> QED
      BY <1>4, <1>5, <2>1 DEF SeenNodes, TodoNodes, Path, NoPass
  <1>6. CASE pass = "final"
    BY <1>1, <1>2, <1>6 DEF Position, SeenNodes, TodoNodes, NoPass
  <1>7. CASE pass # NoPass /\ pass # "final"
    <2>1. head = First(s, First(t, Null)) /\ cur = First(t, Null)
      BY <1>1, <1>7 DEF Position
    <2> QED
      BY <1>2, <1>4, <1>7, <2>1 DEF SeenNodes, TodoNodes
  <1> QED
    BY <1>5, <1>6, <1>7

LEMMA NodesAreNext ==
    ASSUME TypeOK', NEW s, NEW t, Shape(s, t)'
    PROVE  SeenNodes' = s /\ TodoNodes' = t
  <1>1. NodesFact'
    BY NodesAre, PTL
  <1> QED
    BY <1>1 DEF NodesFact

-----------------------------------------------------------------------------
(* How each operation moves the two sequences. *)
LEMMA CursorAtFirst ==
    ASSUME TypeOK, NEW s, NEW t, Shape(s, t), pass # NoPass
    PROVE  /\ cur # Null => t # <<>> /\ cur = t[1]
           /\ cur = Null => t = <<>>
  <1>1. t \in Seq(Nodes) /\ cur = First(t, Null)
    BY DEF Shape, Core, Position
  <1> QED
    BY <1>1, FirstIsElem, CellKinds DEF First

LEMMA TailOfCore ==
    ASSUME NEW s, NEW t, Core(s, t), t # <<>>
    PROVE  /\ t[1] \in Nodes /\ next[t[1]] = First(Tail(t), Null)
           /\ Tail(t) \in Seq(Nodes) /\ Links(next, Tail(t), Null)
  <1>1. t \in Seq(Nodes) /\ Links(next, t, Null)
    BY DEF Core
  <1>2. next[t[1]] = First(Tail(t), Null) /\ Links(next, Tail(t), Null)
    BY <1>1, TailOfLinks
  <1> QED
    BY <1>1, <1>2, TailCells

LEMMA ShapeAddNew ==
    ASSUME TypeOK, NEW s, NEW t, Shape(s, t), pass = NoPass, NEW n \in Nodes \ live,
           Link(n), live' = live \cup {n}, UNCHANGED <<pass, cur, prev>>
    PROVE  t = <<>> /\ Shape(Append(s, n), <<>>)'
  <1> DEFINE a == Append(s, n)
  <1>1. /\ t = <<>> /\ head = First(s, Null)
        /\ s \in Seq(Nodes) /\ NoRepeats(s) /\ Elems(s) = live /\ Links(next, s, Null)
    BY EmptyCells DEF Shape, Core, Position, First, NoPass
  <1>2. SeenNodes = s
    BY NodesAre DEF NodesFact
  <1>3. Path = s
    BY <1>2 DEF SeenNodes, NoPass
  <1>4. /\ a \in Seq(Nodes) /\ a # <<>> /\ Len(a) = Len(s) + 1 /\ Len(s) \in Nat
        /\ Elems(a) = live' /\ NoRepeats(a)
    BY <1>1, AppendCell
  <1>5. s # <<>> => s[Len(s)] \in Elems(s) /\ s[Len(s)] \in Nodes /\ head # Null
    <2>1. s # <<>> => Len(s) \in DOMAIN s
      BY <1>1, LenProperties, EmptySeq
    <2> QED
      BY <1>1, <2>1, FirstIsElem, CellKinds DEF Elems, TypeOK
  <1>6. s = <<>> => head = Null
    BY <1>1 DEF First
  <1>7. Links(next', s, n) /\ next'[n] = Null
    <2>1. CASE s = <<>>
      BY <1>6, <2>1 DEF Link, Links, TypeOK
    <2>2. CASE s # <<>>
      <3>1. next' = [next EXCEPT ![s[Len(s)]] = n, ![n] = Null]
        BY <1>3, <1>5, <2>2 DEF Link
      <3>2. s[Len(s)] # n /\ n \notin Elems(s)
        BY <1>1, <1>5, <2>2
      <3>3. next'[s[Len(s)]] = n /\ next'[n] = Null /\ \A x \in Elems(s) \ {s[Len(s)]} : next'[x] = next[x]
        BY <1>1, <1>5, <2>2, <3>1, <3>2 DEF TypeOK
      <3> QED
        BY <1>1, <2>2, <3>3, LinksRedirect
    <2> QED
      BY <2>1, <2>2
  <1>8. Links(next', a, Null) /\ First(a, Null) = First(s, n)
    BY <1>1, <1>7, LinksAppend
  <1>9. head' = First(s, n)
    BY <1>1, <1>5, <1>6 DEF Link, First
  <1> HIDE DEF a
  <1>10. Core(a, <<>>)'
    BY <1>4, <1>8, EmptyCells DEF Core, First, Links
  <1>11. Position(a, <<>>)'
    BY <1>8, <1>9 DEF Position, First, NoPass
  <1> QED
    BY <1>1, <1>10, <1>11 DEF Shape, a

LEMMA ShapeForward ==
    ASSUME TypeOK, NEW s, NEW t, Shape(s, t), pass \in {"send", "recv"}, cur # Null,
           UNCHANGED <<head, next, live, pass>>, cur' = next[cur],
           pass = "recv" => prev' = cur
    PROVE  t # <<>> /\ Shape(Append(s, t[1]), Tail(t))'
  <1> DEFINE a == Append(s, t[1]) r == Tail(t)
  <1>1. t # <<>> /\ cur = t[1]
    BY CursorAtFirst DEF NoPass
  <1>2. Core(s, t) /\ Position(s, t) /\ s \in Seq(Nodes) /\ t \in Seq(Nodes) /\ First(t, Null) = t[1]
    BY <1>1 DEF Shape, Core, First
  <1>3. /\ t[1] \in Nodes /\ next[t[1]] = First(r, Null) /\ r \in Seq(Nodes)
        /\ Links(next, r, Null)
    BY <1>1, <1>2, TailOfCore
  <1>4. Elems(t) = {t[1]} \cup Elems(r) /\ NoRepeats(r) /\ t[1] \notin Elems(r)
    BY <1>1, <1>2, FirstAndRest DEF Core
  <1>5. t[1] \notin Elems(s)
    BY <1>2, <1>4 DEF Core
  <1>6. /\ a \in Seq(Nodes) /\ Elems(a) = Elems(s) \cup {t[1]} /\ NoRepeats(a)
        /\ a # <<>> /\ a[Len(a)] = t[1]
    BY <1>2, <1>3, <1>5, AppendCell DEF Core
  <1>7. Links(next, a, First(r, Null)) /\ First(a, First(r, Null)) = First(s, t[1])
    BY <1>2, <1>3, LinksAppend DEF Core
  <1> HIDE DEF a, r
  <1>8. Core(a, r)'
    <2>1. Elems(a) \cap Elems(r) = {} /\ Elems(a) \cup Elems(r) = live'
      BY <1>2, <1>4, <1>6 DEF Core
    <2> QED
      BY <1>3, <1>4, <1>6, <1>7, <2>1 DEF Core
  <1>9. Position(a, r)'
    BY <1>1, <1>2, <1>3, <1>6, <1>7 DEF Position, NoPass
  <1> QED
    BY <1>1, <1>8, <1>9 DEF Shape, a, r

LEMMA ShapeDrop ==
    ASSUME TypeOK, NEW s, NEW t, Shape(s, t), RecvDrop, intact'
    PROVE  t # <<>> /\ cur = t[1] /\ Shape(s, Tail(t))'
  <1> DEFINE r == Tail(t)
  <1>0. cur \in Nodes /\ cur # Null
    BY CellKinds DEF RecvDrop, TypeOK
  <1>1. t # <<>> /\ cur = t[1]
    BY <1>0, CursorAtFirst DEF NoPass, RecvDrop
  <1>2. Core(s, t) /\ Position(s, t) /\ s \in Seq(Nodes) /\ t \in Seq(Nodes) /\ First(t, Null) = t[1]
    BY <1>1 DEF Shape, Core, First
  <1>3. next[cur] = First(r, Null) /\ r \in Seq(Nodes) /\ Links(next, r, Null)
    BY <1>1, <1>2, TailOfCore
  <1>4. Elems(t) = {cur} \cup Elems(r) /\ NoRepeats(r) /\ cur \notin Elems(r)
    BY <1>1, <1>2, FirstAndRest DEF Core
  <1>5. cur \notin Elems(s) /\ Elems(s) \cap Elems(r) = {} /\ Elems(s) \cup Elems(r) = live'
    BY <1>2, <1>4 DEF Core, RecvDrop
  <1>6. head = First(s, cur) /\ pass = "recv" /\ pass' = "recv"
    BY <1>1, <1>2 DEF Position, RecvDrop
  <1> HIDE DEF r
  <1>7. /\ Links(next', s, First(r, Null)) /\ Links(next', r, Null)
        /\ head' = First(s, First(r, Null)) /\ cur' = First(r, Null)
    <2>1. CASE s = <<>>
      <3>1. cur = head /\ head' = next[cur] /\ next' = next
        BY <1>6, <2>1 DEF First, RecvDrop, Unlink
      <3>2. Links(next', s, First(r, Null))
        BY <2>1 DEF Links
      <3> QED
        BY <1>3, <2>1, <3>1, <3>2 DEF First, RecvDrop
    <2>2. CASE s # <<>>
      <3>1. cur # head /\ head = s[1]
        BY <1>2, <1>5, <1>6, <2>2, FirstIsElem DEF First
      <3>2. prev \in live
        BY <3>1 DEF RecvDrop, WritesFreedCell
      <3>3. prev = s[Len(s)]
        BY <1>2, <1>6, <3>2 DEF Position
      <3>4. prev \in Elems(s)
        <4>1. Len(s) \in DOMAIN s
          BY <1>2, <2>2, LenProperties, EmptySeq
        <4> QED
          BY <3>3, <4>1 DEF Elems
      <3>5. next' = [next EXCEPT ![prev] = First(r, Null)] /\ head' = head /\ cur' = next'[cur]
        BY <1>3, <3>1 DEF RecvDrop, Unlink
      <3>6. prev \in Nodes /\ DOMAIN next = Nodes /\ Elems(s) \subseteq Nodes /\ Elems(r) \subseteq Nodes
        BY <1>5, <3>2 DEF TypeOK, RecvDrop
      <3>7. /\ next'[prev] = First(r, Null) /\ next'[cur] = next[cur]
            /\ \A x \in Elems(s) \ {prev} : next'[x] = next[x]
            /\ \A x \in Elems(r) : next'[x] = next[x]
        BY <1>0, <1>5, <3>4, <3>5, <3>6
      <3>8. Links(next', s, First(r, Null))
        BY <1>2, <2>2, <3>3, <3>7, LinksRedirect DEF Core
      <3>9. Links(next', r, Null)
        BY <1>3, <3>7, LinksElsewhere
      <3> QED
        BY <1>3, <2>2, <3>1, <3>5, <3>7, <3>8, <3>9 DEF First
    <2> QED
      BY <2>1, <2>2
  <1>8. Core(s, r)'
    BY <1>2, <1>3, <1>4, <1>5, <1>7 DEF Core
  <1>9. prev' \notin live'
    BY DEF RecvDrop
  <1>10. Position(s, r)'
    BY <1>6, <1>7, <1>9 DEF Position, NoPass
  <1> QED
    BY <1>1, <1>8, <1>10 DEF Shape, r

LEMMA ShapeFinal ==
    ASSUME TypeOK, NEW s, NEW t, Shape(s, t), FinalVisit
    PROVE  s = <<>> /\ t # <<>> /\ cur = t[1] /\ Shape(<<>>, Tail(t))'
  <1> DEFINE r == Tail(t)
  <1>1. t # <<>> /\ cur = t[1]
    BY CursorAtFirst, CellKinds DEF NoPass, FinalVisit, TypeOK
  <1>2. Core(s, t) /\ Position(s, t) /\ s = <<>> /\ t \in Seq(Nodes)
    BY <1>1 DEF Shape, Core, Position, FinalVisit
  <1>3. next[cur] = First(r, Null) /\ r \in Seq(Nodes) /\ Links(next, r, Null)
    BY <1>1, <1>2, TailOfCore
  <1>4. Elems(t) = {cur} \cup Elems(r) /\ NoRepeats(r) /\ cur \notin Elems(r)
    BY <1>1, <1>2, FirstAndRest DEF Core
  <1> HIDE DEF r
  <1>5. Elems(r) = live'
    BY <1>2, <1>4, EmptyCells DEF Core, FinalVisit
  <1>6. Core(<<>>, r)'
    BY <1>3, <1>4, <1>5, EmptyCells DEF Core, Links, FinalVisit
  <1>7. Position(<<>>, r)'
    BY <1>3 DEF Position, NoPass, FinalVisit
  <1> QED
    BY <1>1, <1>2, <1>6, <1>7 DEF Shape, r

LEMMA ShapeBegin ==
    ASSUME TypeOK, NEW s, NEW t, Shape(s, t), NEW p \in {"send", "recv", "final"}, Begin(p)
    PROVE  t = <<>> /\ Shape(<<>>, s)'
  <1>1. t = <<>> /\ Core(s, t) /\ head = First(s, Null) /\ Elems(s) = live
    BY EmptyCells DEF Shape, Core, Position, Begin, NoPass, First
  <1>2. Core(<<>>, s)'
    BY <1>1, EmptyCells DEF Core, Links, Begin, First
  <1>3. Position(<<>>, s)'
    BY <1>1, CellKinds DEF Position, Begin, NoPass, First, TypeOK
  <1> QED
    BY <1>1, <1>2, <1>3 DEF Shape

LEMMA ShapeEnd ==
    ASSUME TypeOK, NEW s, NEW t, Shape(s, t), End
    PROVE  t = <<>> /\ Shape(s, <<>>)'
  <1>1. t = <<>>
    BY CursorAtFirst DEF End
  <1>2. Core(s, <<>>)'
    BY <1>1 DEF Shape, Core, End, Links, First
  <1>3. Position(s, <<>>)'
    BY <1>1 DEF Shape, Position, End, NoPass, First
  <1> QED
    BY <1>1, <1>2, <1>3 DEF Shape

-----------------------------------------------------------------------------
LEMMA TypeStep ==
    ASSUME TypeOK, [Next]_vars
    PROVE  TypeOK'
  <1> USE DEF TypeOK
  <1>1. ASSUME NEW c \in Clients, AddNew(c) PROVE TypeOK'
    <2>1. CASE UNCHANGED listVars
      BY <1>1, <2>1 DEF AddNew, listVars
    <2>2. ASSUME NEW n \in Nodes \ live, Link(n), live' = live \cup {n},
                 holds' = [holds EXCEPT ![n] = c], UNCHANGED crashed
          PROVE  TypeOK'
      <3>1. head' \in Nodes \cup {Null} /\ next' \in [Nodes -> Nodes \cup {Null}]
        BY <2>2 DEF Link
      <3>2. live' \subseteq Nodes /\ holds' \in [Nodes -> Clients \cup {Null}]
        BY <2>2
      <3>3. \A m \in live' : holds'[m] # Null
        BY <2>2, CellKinds
      <3> QED
        BY <1>1, <2>2, <3>1, <3>2, <3>3 DEF AddNew
    <2> QED
      BY <1>1, <2>1, <2>2 DEF AddNew
  <1>2. ASSUME NEW c \in Clients, HangUp(c) PROVE TypeOK'
    BY <1>2 DEF HangUp
  <1>3. ASSUME NEW p \in {"send", "recv", "final"}, Begin(p) PROVE TypeOK'
    BY <1>3 DEF Begin
  <1>4. CASE SendVisit
    BY <1>4 DEF SendVisit
  <1>5. CASE RecvKeep
    BY <1>5 DEF RecvKeep
  <1>6. CASE RecvDrop
    <2>1. cur \in Nodes /\ next[cur] \in Nodes \cup {Null} /\ holds[cur] \in Clients
      BY <1>6 DEF RecvDrop
    <2>2. head' \in Nodes \cup {Null} /\ next' \in [Nodes -> Nodes \cup {Null}]
      BY <1>6, <2>1 DEF RecvDrop, Unlink
    <2>3. cur' \in Nodes \cup {Null} /\ prev' \in Nodes \cup {Null}
      BY <1>6, <2>1, <2>2 DEF RecvDrop
    <2>4. intact' \in BOOLEAN
      BY <1>6, Zenon DEF RecvDrop
    <2> QED
      BY <1>6, <2>1, <2>2, <2>3, <2>4 DEF RecvDrop
  <1>7. CASE VisitFreed
    BY <1>7 DEF VisitFreed
  <1>8. CASE FinalVisit
    BY <1>8 DEF FinalVisit
  <1>9. CASE End
    BY <1>9 DEF End, NoPass
  <1>10. CASE UNCHANGED vars
    BY <1>10 DEF vars
  <1> QED
    BY <1>1, <1>2, <1>3, <1>4, <1>5, <1>6, <1>7, <1>8, <1>9, <1>10 DEF Next

(* An operation that writes none of them leaves the sequences alone. *)
LEMMA ShapeStays ==
    ASSUME NEW s, NEW t, Shape(s, t), UNCHANGED <<head, next, live, pass, cur, prev>>
    PROVE  Shape(s, t)'
  BY DEF Shape, Core, Position

(* Up to the first stray write the cells behind and before the pass stay   *)
(* linked.                                                                 *)
LEMMA ShapeStep ==
    ASSUME TypeOK, NEW s, NEW t, Shape(s, t), [Next]_vars, intact'
    PROVE  \E u, v : Shape(u, v)'
  <1>1. ASSUME NEW c \in Clients, AddNew(c) PROVE \E u, v : Shape(u, v)'
    <2>1. CASE UNCHANGED listVars
      BY <1>1, <2>1, ShapeStays DEF AddNew, listVars
    <2>2. ASSUME NEW n \in Nodes \ live, Link(n), live' = live \cup {n}
          PROVE  \E u, v : Shape(u, v)'
      <3>1. Shape(Append(s, n), <<>>)'
        BY <1>1, <2>2, ShapeAddNew DEF AddNew
      <3> QED
        BY <3>1
    <2> QED
      BY <1>1, <2>1, <2>2 DEF AddNew
  <1>2. ASSUME NEW c \in Clients, HangUp(c) PROVE \E u, v : Shape(u, v)'
    BY <1>2, ShapeStays DEF HangUp
  <1>3. ASSUME NEW p \in {"send", "recv", "final"}, Begin(p) PROVE \E u, v : Shape(u, v)'
    <2>1. Shape(<<>>, s)'
      BY <1>3, ShapeBegin
    <2> QED
      BY <2>1
  <1>4. CASE SendVisit
    <2>1. Shape(Append(s, t[1]), Tail(t))'
      BY <1>4, ShapeForward DEF SendVisit
    <2> QED
      BY <2>1
  <1>5. CASE RecvKeep
    <2>1. Shape(Append(s, t[1]), Tail(t))'
      BY <1>5, ShapeForward, CellKinds DEF RecvKeep, TypeOK
    <2> QED
      BY <2>1
  <1>6. CASE RecvDrop
    <2>1. Shape(s, Tail(t))'
      BY <1>6, ShapeDrop
    <2> QED
      BY <2>1
  <1>7. CASE VisitFreed
    BY <1>7, ShapeStays DEF VisitFreed
  <1>8. CASE FinalVisit
    <2>1. Shape(<<>>, Tail(t))'
      BY <1>8, ShapeFinal
    <2> QED
      BY <2>1
  <1>9. CASE End
    <2>1. Shape(s, <<>>)'
      BY <1>9, ShapeEnd
    <2> QED
      BY <2>1
  <1>10. CASE UNCHANGED vars
    BY <1>10, ShapeStays DEF vars
  <1> QED
    BY <1>1, <1>2, <1>3, <1>4, <1>5, <1>6, <1>7, <1>8, <1>9, <1>10 DEF Next

LEMMA ApartStep ==
    ASSUME TypeOK, Apart, [Next]_vars
    PROVE  Apart'
  <1>1. ASSUME NEW c \in Clients, AddNew(c) PROVE Apart'
    <2>1. CASE UNCHANGED listVars
      BY <1>1, <2>1 DEF AddNew, listVars, Apart
    <2>2. ASSUME NEW n \in Nodes \ live, live' = live \cup {n}, holds' = [holds EXCEPT ![n] = c]
          PROVE  Apart'
      <3>1. holds'[n] = c /\ \A m \in live : holds'[m] = holds[m] /\ holds[m] # c
        BY <1>1, <2>2 DEF AddNew, Held, TypeOK
      <3>2. closed' = closed /\ c \notin closed
        BY <1>1 DEF AddNew
      <3> QED
        BY <2>2, <3>1, <3>2 DEF Apart
    <2> QED
      BY <1>1, <2>1, <2>2 DEF AddNew
  <1>2. CASE RecvDrop \/ FinalVisit
    <2>1. /\ cur \in live /\ closed' = closed \cup {holds[cur]}
          /\ live' = live \ {cur} /\ holds' = holds
      BY <1>2 DEF RecvDrop, FinalVisit
    <2> QED
      BY <2>1 DEF Apart
  <1>3. CASE UNCHANGED <<live, holds, closed>>
    BY <1>3 DEF Apart
  <1> QED
    BY <1>1, <1>2, <1>3
    DEF Next, HangUp, Begin, SendVisit, RecvKeep, VisitFreed, End, vars

LEMMA CrashStep ==
    ASSUME ListInv, [Next]_vars
    PROVE  CrashNeedsCause'
  <1> USE DEF ListInv, CrashNeedsCause
  <1>1. ASSUME NEW c \in Clients, AddNew(c) PROVE CrashNeedsCause'
    BY <1>1 DEF AddNew, listVars
  <1>2. CASE VisitFreed
    <2>1. ~intact
      <3> SUFFICES ASSUME intact PROVE FALSE
        OBVIOUS
      <3>1. PICK s, t : Shape(s, t)
        OBVIOUS
      <3>2. t # <<>> /\ cur = t[1]
        BY <1>2, <3>1, CursorAtFirst DEF VisitFreed, NoPass
      <3>3. t \in Seq(Nodes) /\ Elems(t) \subseteq live /\ cur = First(t, Null)
        BY <3>1, <3>2 DEF Shape, Core, First
      <3> QED
        BY <1>2, <3>2, <3>3, FirstIsElem DEF VisitFreed
    <2> QED
      BY <1>2, <2>1 DEF VisitFreed
  <1>3. CASE UNCHANGED crashed /\ (crashed => UNCHANGED vars)
    BY <1>3 DEF vars
  <1> QED
    BY <1>1, <1>2, <1>3
    DEF Next, HangUp, Begin, SendVisit, RecvKeep, RecvDrop, FinalVisit, End, vars

LEMMA ListInvHolds == Spec => []ListInv
  <1>1. Init => ListInv
    <2> SUFFICES ASSUME Init PROVE ListInv
      OBVIOUS
    <2>1. TypeOK /\ CrashNeedsCause /\ Apart
      BY DEF Init, TypeOK, CrashNeedsCause, Apart, NoPass
    <2>2. Shape(<<>>, <<>>)
      BY EmptyCells, CellKinds DEF Init, Shape, Core, Position, Links, First, NoPass
    <2> QED
      BY <2>1, <2>2 DEF ListInv
  <1>2. ListInv /\ [Next]_vars => ListInv'
    <2> SUFFICES ASSUME ListInv, [Next]_vars PROVE ListInv'
      OBVIOUS
    <2>1. TypeOK' /\ CrashNeedsCause'
      BY TypeStep, CrashStep DEF ListInv
    <2>2. ASSUME intact' PROVE Apart' /\ \E u, v : Shape(u, v)'
      <3>1. intact
        BY <2>2 DEF Next, AddNew, HangUp, Begin, SendVisit, RecvKeep, RecvDrop, VisitFreed,
                    FinalVisit, End, vars
      <3> QED
        BY <2>2, <3>1, ApartStep, ShapeStep DEF ListInv
    <2> QED
      BY <2>1, <2>2 DEF ListInv
  <1> QED
    BY <1>1, <1>2, PTL DEF Spec

-----------------------------------------------------------------------------
(* Sequences without repetition count what is in them. *)
LEMMA ElemsOfConcat ==
    ASSUME NEW s \in Seq(Nodes), NEW t \in Seq(Nodes)
    PROVE  /\ Elems(s \o t) = Elems(s) \cup Elems(t)
           /\ NoRepeats(s) /\ NoRepeats(t) /\ Elems(s) \cap Elems(t) = {} => NoRepeats(s \o t)
  <1> DEFINE c == s \o t
  <1>1. /\ c \in Seq(Nodes) /\ Len(c) = Len(s) + Len(t) /\ Len(s) \in Nat /\ Len(t) \in Nat
        /\ DOMAIN s = 1..Len(s) /\ DOMAIN t = 1..Len(t) /\ DOMAIN c = 1..Len(s) + Len(t)
        /\ \A i \in 1..Len(s) + Len(t) : c[i] = IF i <= Len(s) THEN s[i] ELSE t[i - Len(s)]
    <2>1. /\ c \in Seq(Nodes) /\ Len(c) = Len(s) + Len(t)
          /\ \A i \in 1..Len(s) + Len(t) : c[i] = IF i <= Len(s) THEN s[i] ELSE t[i - Len(s)]
      BY ConcatProperties
    <2>2. /\ Len(s) \in Nat /\ Len(t) \in Nat
          /\ DOMAIN s = 1..Len(s) /\ DOMAIN t = 1..Len(t) /\ DOMAIN c = 1..Len(c)
      BY <2>1, LenProperties
    <2> QED
      BY <2>1, <2>2
  <1> HIDE DEF c
  <1> DEFINE m == Len(s) n == Len(t)
  <1>2. m \in Nat /\ n \in Nat
    BY <1>1
  <1>3. /\ \A i \in 1..m : i \in 1..m + n /\ i <= m
        /\ \A i \in 1..n : m + i \in 1..m + n /\ ~(m + i <= m) /\ (m + i) - m = i
        /\ \A i \in 1..m + n : i <= m => i \in 1..m
        /\ \A i \in 1..m + n : ~(i <= m) => i - m \in 1..n
        /\ \A i, j \in 1..m + n : i - m = j - m => i = j
    BY <1>2
  <1>4. /\ DOMAIN s = 1..m /\ DOMAIN t = 1..n /\ DOMAIN c = 1..m + n
        /\ \A i \in 1..m + n : c[i] = IF i <= m THEN s[i] ELSE t[i - m]
    BY <1>1
  <1> HIDE DEF m, n
  <1>5. \A i \in DOMAIN c : c[i] \in Elems(s) \cup Elems(t)
    BY <1>3, <1>4 DEF Elems
  <1>6. \A x \in Elems(s) \cup Elems(t) : x \in Elems(c)
    <2>1. \A i \in 1..m : c[i] = s[i] /\ i \in 1..m + n
      BY <1>3, <1>4
    <2>2. \A i \in 1..n : c[m + i] = t[i] /\ m + i \in 1..m + n
      BY <1>3, <1>4
    <2> QED
      BY <1>4, <2>1, <2>2 DEF Elems
  <1>7. Elems(c) = Elems(s) \cup Elems(t)
    BY <1>5, <1>6 DEF Elems
  <1>8. ASSUME NoRepeats(s), NoRepeats(t), Elems(s) \cap Elems(t) = {}
        PROVE  NoRepeats(c)
    <2>1. SUFFICES ASSUME NEW i \in 1..m + n, NEW j \in 1..m + n, c[i] = c[j] PROVE i = j
      BY <1>4 DEF NoRepeats
    <2>2. CASE i <= m /\ j <= m
      BY <1>3, <1>4, <1>8, <2>1, <2>2 DEF NoRepeats
    <2>3. CASE ~(i <= m) /\ ~(j <= m)
      <3>1. i - m \in 1..n /\ j - m \in 1..n /\ t[i - m] = t[j - m]
        BY <1>3, <1>4, <2>1, <2>3
      <3>2. i - m = j - m
        BY <1>4, <1>8, <3>1 DEF NoRepeats
      <3> QED
        BY <1>3, <3>2
    <2>4. \A k \in 1..m + n : (k <= m => c[k] \in Elems(s)) /\ (~(k <= m) => c[k] \in Elems(t))
      BY <1>3, <1>4 DEF Elems
    <2> QED
      BY <1>8, <2>1, <2>2, <2>3, <2>4
  <1> QED
    BY <1>7, <1>8 DEF c

LEMMA CountOfElems ==
    ASSUME NEW p \in Seq(Nodes), NoRepeats(p)
    PROVE  Cardinality(Elems(p)) = Len(p)
  <1>1. Len(p) \in Nat /\ DOMAIN p = 1..Len(p) /\ p \in [1..Len(p) -> Nodes]
    BY LenProperties
  <1>2. p \in [1..Len(p) -> Elems(p)]
    BY <1>1 DEF Elems
  <1>3. p \in Bijection(1..Len(p), Elems(p))
    <2>1. p \in Injection(1..Len(p), Elems(p))
      BY <1>1, <1>2, Fun_IsInj DEF NoRepeats
    <2>2. p \in Surjection(1..Len(p), Elems(p))
      BY <1>1, <1>2, Fun_IsSurj DEF Elems
    <2> QED
      BY <2>1, <2>2 DEF Bijection
  <1>4. ExistsBijection(1..Len(p), Elems(p))
    BY <1>3 DEF ExistsBijection
  <1> QED
    BY <1>1, <1>4, FS_CountingElements

LEMMA HeldCount ==
    ASSUME TypeOK, Apart
    PROVE  Cardinality(Held) = Cardinality(live)
  <1> DEFINE h == [n \in live |-> holds[n]]
  <1>1. h \in [live -> Held]
    BY DEF Held
  <1>2. h \in Injection(live, Held)
    BY <1>1, Fun_IsInj DEF Apart
  <1>3. h \in Surjection(live, Held)
    BY <1>1, Fun_IsSurj DEF Held
  <1>4. ExistsBijection(live, Held)
    BY <1>2, <1>3 DEF Bijection, ExistsBijection
  <1>5. IsFiniteSet(live)
    BY HeapAssumption, FS_Subset DEF TypeOK
  <1> QED
    BY <1>4, <1>5, FS_Bijection

(* Every variable keeps its type. *)
THEOREM ListTypeOK == Spec => []TypeOK
  BY ListInvHolds, PTL DEF ListInv

(* The process dies in the list code only when a cell could not be         *)
(* allocated, or after batchRecv wrote through a freed `previous': no      *)
(* other order of passes, hang-ups and registrations dereferences NULL or  *)
(* frees a cell twice.                                                     *)
THEOREM CrashHasCause == Spec => []CrashNeedsCause
  BY ListInvHolds, PTL DEF ListInv

(* Until that write, the list reaches every allocated cell once and no     *)
(* other one, and no two cells have the same client or a closed one.       *)
THEOREM CellsAreExact == Spec => []ListExact
  <1>1. ListInv => ListExact
    <2> SUFFICES ASSUME ListInv, intact PROVE ListExact
      BY DEF ListExact
    <2>1. PICK s, t : Shape(s, t)
      BY DEF ListInv
    <2>2. /\ SeenNodes = s /\ TodoNodes = t /\ s \in Seq(Nodes) /\ t \in Seq(Nodes)
          /\ NoRepeats(s) /\ NoRepeats(t) /\ Elems(s) \cap Elems(t) = {}
          /\ Elems(s) \cup Elems(t) = live
      BY <2>1, NodesAre DEF NodesFact, ListInv, Shape, Core
    <2>3. s \o t \in Seq(Nodes) /\ Elems(s \o t) = live /\ NoRepeats(s \o t)
      <3>1. s \o t \in Seq(Nodes)
        BY <2>2, ConcatProperties
      <3> QED
        BY <2>2, <3>1, ElemsOfConcat
    <2>4. Len(s \o t) = Cardinality(live)
      BY <2>3, CountOfElems
    <2>5. Cardinality(Held) = Cardinality(live) /\ Held \cap closed = {}
      BY HeldCount DEF ListInv, Apart, Held
    <2> QED
      BY <2>2, <2>3, <2>4, <2>5 DEF ListExact
  <1> QED
    BY <1>1, ListInvHolds, PTL

-----------------------------------------------------------------------------
(* The clients of a sequence of cells, for any assignment h. *)
ClientsOf(h, p) == [i \in DOMAIN p |-> h[p[i]]]
Holding == [Nodes -> Clients \cup {Null}]

LEMMA ClientsAppend ==
    ASSUME NEW h \in Holding, NEW s \in Seq(Nodes), NEW e \in Nodes
    PROVE  /\ ClientsOf(h, Append(s, e)) = Append(ClientsOf(h, s), h[e])
           /\ ClientsOf(h, s) \in Seq(Clients \cup {Null})
  <1> DEFINE a == Append(s, e) T == Clients \cup {Null} cs == ClientsOf(h, s)
  <1>1. /\ Len(s) \in Nat /\ DOMAIN s = 1..Len(s) /\ DOMAIN a = 1..Len(s) + 1
        /\ \A i \in 1..Len(s) : a[i] = s[i] /\ s[i] \in Nodes
        /\ a[Len(s) + 1] = e
    BY AppendCell, ElementOfSeq
  <1>2. cs \in Seq(T) /\ Len(cs) = Len(s) /\ \A i \in 1..Len(s) : cs[i] = h[s[i]]
    BY <1>1 DEF ClientsOf, Holding
  <1> HIDE DEF a, cs
  <1>3. /\ DOMAIN Append(cs, h[e]) = 1..Len(s) + 1
        /\ \A i \in 1..Len(s) : Append(cs, h[e])[i] = h[s[i]]
        /\ Append(cs, h[e])[Len(s) + 1] = h[e]
        /\ Append(cs, h[e]) = [i \in 1..Len(s) + 1 |-> Append(cs, h[e])[i]]
    BY <1>1, <1>2 DEF Holding
  <1>4. \A i \in 1..Len(s) + 1 : h[a[i]] = Append(cs, h[e])[i]
    <2>1. \A i \in 1..Len(s) + 1 : i \in 1..Len(s) \/ i = Len(s) + 1
      BY <1>1
    <2> QED
      BY <1>1, <1>3, <2>1
  <1>5. ClientsOf(h, a) = [i \in 1..Len(s) + 1 |-> h[a[i]]]
    BY <1>1 DEF ClientsOf
  <1>6. ClientsOf(h, a) = Append(cs, h[e])
    BY <1>3, <1>4, <1>5
  <1> QED
    BY <1>2, <1>6 DEF a, cs

LEMMA ClientsTail ==
    ASSUME NEW h \in Holding, NEW t \in Seq(Nodes), t # <<>>
    PROVE  /\ ClientsOf(h, Tail(t)) = Tail(ClientsOf(h, t))
           /\ Head(ClientsOf(h, t)) = h[t[1]]
           /\ ClientsOf(h, t) # <<>>
           /\ ClientsOf(h, t) \in Seq(Clients \cup {Null})
  <1> DEFINE r == Tail(t) T == Clients \cup {Null} ct == ClientsOf(h, t)
  <1>1. /\ Len(t) \in Nat \ {0} /\ DOMAIN t = 1..Len(t) /\ DOMAIN r = 1..Len(t) - 1
        /\ \A i \in 1..Len(t) - 1 : r[i] = t[i + 1]
        /\ \A i \in 1..Len(t) : t[i] \in Nodes
    BY HeadTailProperties, LenProperties, EmptySeq, ElementOfSeq
  <1>2. ct \in Seq(T) /\ Len(ct) = Len(t) /\ \A i \in 1..Len(t) : ct[i] = h[t[i]]
    BY <1>1 DEF ClientsOf, Holding
  <1> HIDE DEF r, ct
  <1>3. ct # <<>> /\ Head(ct) = h[t[1]]
    BY <1>1, <1>2, EmptySeq
  <1>4. /\ Tail(ct) \in Seq(T) /\ Len(Tail(ct)) = Len(t) - 1
        /\ \A i \in 1..Len(t) - 1 : Tail(ct)[i] = ct[i + 1]
    BY <1>2, <1>3, HeadTailProperties
  <1>5. \A i \in 1..Len(t) - 1 : Tail(ct)[i] = h[r[i]]
    <2>1. \A i \in 1..Len(t) - 1 : i + 1 \in 1..Len(t)
      BY <1>1
    <2> QED
      BY <1>1, <1>2, <1>4, <2>1
  <1>6. Tail(ct) = [i \in 1..Len(t) - 1 |-> Tail(ct)[i]]
    BY <1>4, LenProperties
  <1>7. ClientsOf(h, r) = Tail(ct)
    BY <1>1, <1>5, <1>6 DEF ClientsOf
  <1> QED
    BY <1>2, <1>3, <1>7 DEF r, ct

LEMMA ClientsElsewhere ==
    ASSUME NEW h, NEW g, NEW p \in Seq(Nodes), \A x \in Elems(p) : g[x] = h[x]
    PROVE  ClientsOf(g, p) = ClientsOf(h, p)
  BY DEF ClientsOf, Elems

LEMMA ClientsOfNone == \A h : ClientsOf(h, <<>>) = <<>>
  BY DEF ClientsOf

(* Under the refinement mapping, the two sequences are those of the roster. *)
LEMMA Mapped ==
    ASSUME TypeOK, NEW s, NEW t, Shape(s, t)
    PROVE  HeldBy(SeenNodes) = ClientsOf(holds, s) /\ HeldBy(TodoNodes) = ClientsOf(holds, t)
  BY NodesAre DEF NodesFact, HeldBy, ClientsOf

LEMMA MappedNext ==
    ASSUME TypeOK', NEW s, NEW t, Shape(s, t)'
    PROVE  HeldBy(SeenNodes)' = ClientsOf(holds', s) /\ HeldBy(TodoNodes)' = ClientsOf(holds', t)
  BY NodesAreNext DEF HeldBy, ClientsOf

Seen == HeldBy(SeenNodes)
Todo == HeldBy(TodoNodes)

LEMMA RosterAddNew ==
    ASSUME TypeOK, TypeOK', NEW s, NEW t, Shape(s, t), NEW c \in Clients, AddNew(c)
    PROVE  Roster!Register(c) \/ UNCHANGED Roster!vars
  <1>1. CASE UNCHANGED listVars
    <2>1. Shape(s, t)'
      BY <1>1, ShapeStays DEF AddNew, listVars
    <2> QED
      BY <1>1, <2>1, Mapped, MappedNext DEF AddNew, listVars, Roster!vars
  <1>2. ASSUME NEW n \in Nodes \ live, Link(n), live' = live \cup {n},
               holds' = [holds EXCEPT ![n] = c]
        PROVE  Roster!Register(c)
    <2>1. t = <<>> /\ Shape(Append(s, n), <<>>)'
      BY <1>1, <1>2, ShapeAddNew DEF AddNew
    <2>2. s \in Seq(Nodes) /\ Elems(s) = live /\ holds \in Holding /\ holds' \in Holding
      BY <2>1, EmptyCells DEF Shape, Core, TypeOK, Holding
    <2>3. holds'[n] = c /\ \A x \in Elems(s) : holds'[x] = holds[x]
      BY <1>2, <2>2 DEF TypeOK
    <2>4. ClientsOf(holds', Append(s, n)) = Append(ClientsOf(holds, s), c)
      BY <2>2, <2>3, ClientsAppend, ClientsElsewhere
    <2>5. /\ Seen = ClientsOf(holds, s) /\ Todo = <<>>
          /\ Seen' = Append(Seen, c) /\ Todo' = <<>>
      BY <2>1, <2>4, Mapped, MappedNext, ClientsOfNone DEF Seen, Todo
    <2>6. Seen \o Todo = Seen
      BY <2>2, <2>5, ClientsAppend, ConcatEmptySeq
    <2>7. c \notin Roster!Elems(Seen)
      <3>1. \A i \in DOMAIN s : holds[s[i]] # c
        BY <1>2, <2>2 DEF AddNew, Held, Elems
      <3> QED
        BY <2>5, <3>1 DEF Roster!Elems, ClientsOf
    <2> QED
      BY <1>2, <2>5, <2>6, <2>7 DEF AddNew, NoPass, Seen, Todo, Roster!Register, Roster!Roster
  <1> QED
    BY <1>1, <1>2 DEF AddNew

LEMMA RosterForward ==
    ASSUME TypeOK, TypeOK', NEW s, NEW t, Shape(s, t), SendVisit \/ RecvKeep
    PROVE  Roster!Keep
  <1>1. t # <<>> /\ cur = t[1] /\ Shape(Append(s, t[1]), Tail(t))'
    BY ShapeForward, CursorAtFirst, CellKinds DEF SendVisit, RecvKeep, NoPass, TypeOK
  <1>2. s \in Seq(Nodes) /\ t \in Seq(Nodes) /\ t[1] \in Nodes /\ holds \in Holding
    BY <1>1, TailOfCore DEF Shape, Core, TypeOK, Holding
  <1>3. holds' = holds
    BY DEF SendVisit, RecvKeep
  <1>4. /\ Seen = ClientsOf(holds, s) /\ Todo = ClientsOf(holds, t)
        /\ Seen' = ClientsOf(holds, Append(s, t[1])) /\ Todo' = ClientsOf(holds, Tail(t))
    BY <1>1, <1>3, Mapped, MappedNext DEF Seen, Todo
  <1>5. Seen' = Append(Seen, holds[t[1]])
    BY <1>2, <1>4, ClientsAppend
  <1>6. Todo # <<>> /\ Head(Todo) = holds[t[1]] /\ Todo' = Tail(Todo)
    BY <1>1, <1>2, <1>4, ClientsTail
  <1> QED
    BY <1>1, <1>5, <1>6 DEF SendVisit, RecvKeep, Seen, Todo, Roster!Keep

LEMMA RosterDrop ==
    ASSUME TypeOK, TypeOK', NEW s, NEW t, Shape(s, t), RecvDrop \/ FinalVisit, intact'
    PROVE  Roster!Drop
  <1>1. t # <<>> /\ cur = t[1] /\ Shape(s, Tail(t))'
    BY ShapeDrop, ShapeFinal
  <1>2. s \in Seq(Nodes) /\ t \in Seq(Nodes) /\ t[1] \in Nodes /\ holds \in Holding
    BY <1>1, TailOfCore DEF Shape, Core, TypeOK, Holding
  <1>3. holds' = holds
    BY DEF RecvDrop, FinalVisit
  <1>4. /\ Seen = ClientsOf(holds, s) /\ Todo = ClientsOf(holds, t)
        /\ Seen' = ClientsOf(holds, s) /\ Todo' = ClientsOf(holds, Tail(t))
    BY <1>1, <1>3, Mapped, MappedNext DEF Seen, Todo
  <1>5. Todo # <<>> /\ Head(Todo) = holds[t[1]] /\ Todo' = Tail(Todo)
    BY <1>1, <1>2, <1>4, ClientsTail
  <1> QED
    BY <1>1, <1>4, <1>5 DEF RecvDrop, FinalVisit, Seen, Todo, Roster!Drop

LEMMA RosterBeginEnd ==
    ASSUME TypeOK, TypeOK', NEW s, NEW t, Shape(s, t)
    PROVE  /\ \A p \in {"send", "recv", "final"} : Begin(p) => Roster!Begin(p)
           /\ End => Roster!End
  <1>1. ASSUME NEW p \in {"send", "recv", "final"}, Begin(p) PROVE Roster!Begin(p)
    <2>1. t = <<>> /\ Shape(<<>>, s)'
      BY <1>1, ShapeBegin
    <2>2. /\ Seen = ClientsOf(holds, s) /\ Seen' = <<>> /\ Todo' = ClientsOf(holds, s)
      BY <1>1, <2>1, Mapped, MappedNext, ClientsOfNone DEF Seen, Todo, Begin
    <2> QED
      BY <1>1, <2>2 DEF Begin, NoPass, Seen, Todo, Roster!Begin
  <1>2. ASSUME End PROVE Roster!End
    <2>1. t = <<>> /\ Shape(s, <<>>)'
      BY <1>2, ShapeEnd
    <2>2. Seen' = Seen /\ Todo = <<>> /\ Todo' = <<>>
      BY <1>2, <2>1, Mapped, MappedNext, ClientsOfNone DEF Seen, Todo, End
    <2> QED
      BY <1>2, <2>2 DEF End, NoPass, Seen, Todo, Roster!End
  <1> QED
    BY <1>1, <1>2

LEMMA RosterStays ==
    ASSUME TypeOK, TypeOK', NEW s, NEW t, Shape(s, t),
           UNCHANGED <<head, next, holds, live, pass, cur, prev>>
    PROVE  UNCHANGED <<Seen, Todo>>
  <1>1. Shape(s, t)'
    BY ShapeStays
  <1> QED
    BY <1>1, Mapped, MappedNext DEF Seen, Todo

(* The pointers implement the sequence of ClientRoster, step by step: a    *)
(* registration goes to its end, a pass visits every client of it once and *)
(* in order, and exactly the clients found broken are closed and leave it  *)
(* - up to the first write through a freed `previous'.                     *)
THEOREM ListImplementsRoster == Spec => ImplementsRoster
  <1>1. Init => Roster!Init
    <2> SUFFICES ASSUME Init PROVE Roster!Init
      OBVIOUS
    <2>1. TypeOK
      BY DEF Init, TypeOK, NoPass
    <2>2. Shape(<<>>, <<>>)
      BY EmptyCells, CellKinds DEF Init, Shape, Core, Position, Links, First, NoPass
    <2> QED
      BY <2>1, <2>2, Mapped, ClientsOfNone DEF Init, NoPass, Roster!Init
  <1>2. ListInv /\ ListInv' /\ [Next]_vars =>
            [intact' => (Roster!Next \/ UNCHANGED Roster!vars)]_vars
    <2> SUFFICES ASSUME ListInv, ListInv', Next, intact'
                 PROVE  Roster!Next \/ UNCHANGED Roster!vars
      BY DEF vars
    <2>1. intact /\ TypeOK /\ TypeOK'
      BY DEF ListInv, Next, AddNew, HangUp, Begin, SendVisit, RecvKeep, RecvDrop, VisitFreed,
             FinalVisit, End
    <2>2. PICK s, t : Shape(s, t)
      BY <2>1 DEF ListInv
    <2>3. ASSUME NEW c \in Clients, AddNew(c) PROVE Roster!Next \/ UNCHANGED Roster!vars
      BY <2>1, <2>2, <2>3, RosterAddNew DEF Roster!Next
    <2>4. ASSUME NEW c \in Clients, HangUp(c) PROVE Roster!Next
      <3>1. UNCHANGED <<Seen, Todo>>
        BY <2>1, <2>2, <2>4, RosterStays DEF HangUp
      <3> QED
        BY <2>4, <3>1 DEF HangUp, Seen, Todo, Roster!HangUp, Roster!Next
    <2>5. CASE VisitFreed
      <3>1. UNCHANGED <<Seen, Todo>>
        BY <2>1, <2>2, <2>5, RosterStays DEF VisitFreed
      <3> QED
        BY <2>5, <3>1 DEF VisitFreed, Seen, Todo, Roster!vars
    <2>6. CASE SendVisit \/ RecvKeep
      BY <2>1, <2>2, <2>6, RosterForward DEF Roster!Next
    <2>7. CASE RecvDrop \/ FinalVisit
      BY <2>1, <2>2, <2>7, RosterDrop DEF Roster!Next
    <2>8. CASE End \/ \E p \in {"send", "recv", "final"} : Begin(p)
      BY <2>1, <2>2, <2>8, RosterBeginEnd DEF Roster!Next
    <2> QED
      BY <2>3, <2>4, <2>5, <2>6, <2>7, <2>8 DEF Next
  <1> QED
    BY <1>1, <1>2, ListInvHolds, PTL DEF Spec, ImplementsRoster
=============================================================================
