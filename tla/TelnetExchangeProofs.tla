------------------------ MODULE TelnetExchangeProofs -------------------------
(***************************************************************************)
(* Theorems about TelnetExchange, for any script of the sender's calls,    *)
(* alphabet, cutting of the stream and sizes of the buffers: what is told  *)
(* is what the calls stand for (RoundTrip), and what is returned is a part *)
(* of the data in it, in order (ReturnedInOrder).  Scripts that send one   *)
(* of the two payloads of Excepted are left out.                           *)
(***************************************************************************)
EXTENDS TelnetReceiveProofs, TelnetPayloadProofs
LOCAL INSTANCE SequencesExt

-----------------------------------------------------------------------------
(* What the application hears: of each event of the parser the same, or    *)
(* the one event a subnegotiation is taken apart to, or nothing.           *)
Events == Items \cup {subnegotiate(o, p)[1] : o \in Bytes \cup {"NUL"}, p \in Seq(Bytes)}

LEMMA SubIsOne ==
    ASSUME NEW o, NEW p
    PROVE  subnegotiate(o, p) = <<>> \/ \E x : subnegotiate(o, p) = <<x>>
  <1>1. zmp_telnet(p) = <<>> \/ \E x : zmp_telnet(p) = <<x>>
    BY DEF zmp_telnet
  <1>2. ttype_telnet(p) = <<>> \/ \E x : ttype_telnet(p) = <<x>>
    <2>1. CASE p = <<>>
      BY <2>1 DEF ttype_telnet
    <2>2. CASE p # <<>>
      BY <2>2 DEF ttype_telnet
    <2> QED
      BY <2>1, <2>2
  <1>3. environ_telnet(p) = <<>> \/ \E x : environ_telnet(p) = <<x>>
    <2> DEFINE n == Len(p)
               cmds == {ENVIRON_SEND, ENVIRON_IS, ENVIRON_INFO}
    <2>1. CASE n = 0
      BY <2>1 DEF environ_telnet
    <2>2. CASE ~(n = 0) /\ n > 0 /\ p[1] \notin cmds
      BY <2>2 DEF environ_telnet
    <2>3. CASE n = 1 /\ p[1] \in cmds
      BY <2>3 DEF environ_telnet
    <2>4. CASE ~(n = 0) /\ ~(n > 0 /\ p[1] \notin cmds) /\ ~(n = 1 /\ p[1] \in cmds)
      BY <2>4, Zenon DEF environ_telnet
    <2> QED
      BY <2>1, <2>2, <2>3, <2>4
  <1>4. mssp_telnet(p) = <<>> \/ \E x : mssp_telnet(p) = <<x>>
    BY DEF mssp_telnet
  <1>5. o \notin {"ZMP", "TTYPE", "ENVIRON", "MSSP"} => subnegotiate(o, p) = <<Sub(o, p)>>
    BY DEF subnegotiate
  <1>6. /\ o = "ZMP" => subnegotiate(o, p) = zmp_telnet(p)
        /\ o = "TTYPE" => subnegotiate(o, p) = ttype_telnet(p)
        /\ o = "ENVIRON" => subnegotiate(o, p) = environ_telnet(p)
        /\ o = "MSSP" => subnegotiate(o, p) = mssp_telnet(p)
    BY DEF subnegotiate
  <1> QED
    BY <1>1, <1>2, <1>3, <1>4, <1>5, <1>6, Zenon

LEMMA SubEvents ==
    ASSUME NEW o \in Bytes \cup {"NUL"}, NEW p \in Seq(Bytes)
    PROVE  subnegotiate(o, p) \in Seq(Events)
  <1>1. CASE subnegotiate(o, p) = <<>>
    BY <1>1, EmptySeq
  <1>2. ASSUME NEW x, subnegotiate(o, p) = <<x>> PROVE subnegotiate(o, p) \in Seq(Events)
    <2>1. subnegotiate(o, p)[1] = x
      BY <1>2
    <2>2. x \in Events
      BY <2>1 DEF Events
    <2> QED
      BY <1>2, <2>2
  <1> QED
    BY <1>1, <1>2, SubIsOne

LEMMA HearsEvents ==
    ASSUME NEW item \in Items
    PROVE  Hears(item) \in Seq(Events) /\ (item[1] # "sub" => Hears(item) = <<item>>)
  <1>1. CASE item[1] = "sub"
    <2>0. /\ \A b : Data(b)[1] # "sub" /\ Iac(b)[1] # "sub" /\ Error(b)[1] # "sub"
          /\ \A v, b : Neg(v, b)[1] # "sub"
          /\ Wrapped[1] # "sub"
      BY DEF Data, Iac, Neg, Error, Wrapped
    <2>1. PICK o \in Bytes \cup {"NUL"}, p \in Seq(Bytes) : item = Sub(o, p)
      BY <1>1, <2>0 DEF Items
    <2>2. item[2] = o /\ item[3] = p
      BY <2>1 DEF Sub
    <2> QED
      BY <1>1, <2>2, SubEvents DEF Hears
  <1>2. CASE item[1] # "sub"
    <2>1. Hears(item) = <<item>> /\ item \in Events
      BY <1>2 DEF Hears, Events
    <2> QED
      BY <2>1
  <1> QED
    BY <1>1, <1>2

HeardList(items) == [k \in DOMAIN items |-> Hears(items[k])]

LEMMA HeardIs ==
    ASSUME NEW items \in Seq(Items)
    PROVE  /\ HeardList(items) \in Lists(Events) /\ Len(HeardList(items)) = Len(items)
           /\ Heard(items) = FlattenSeq(HeardList(items)) /\ Heard(items) \in Seq(Events)
  <1> DEFINE n == Len(items)
             ws == HeardList(items)
  <1>1. n \in Nat /\ DOMAIN items = 1..n /\ \A k \in 1..n : items[k] \in Items
    BY LenProperties, ElementOfSeq
  <1>2. Heard(items) = FlattenSeq(ws)
    BY DEF Heard, HeardList
  <1>3. DOMAIN ws = 1..n /\ ws = [k \in 1..n |-> ws[k]] /\ \A k \in 1..n : ws[k] \in Seq(Events)
    BY <1>1, HearsEvents DEF HeardList
  <1> HIDE DEF n, ws
  <1>4. ws \in Lists(Events) /\ Len(ws) = n
    BY <1>1, <1>3, IsList
  <1> QED
    BY <1>2, <1>4, FlattenIn DEF n, ws

LEMMA HeardNone == Heard(<<>>) = <<>>
  <1>1. [k \in DOMAIN <<>> |-> Hears(<<>>[k])] = <<>>
    OBVIOUS
  <1> QED
    BY <1>1, FlattenNone DEF Heard

LEMMA HeardOne ==
    ASSUME NEW item \in Items
    PROVE  Heard(<<item>>) = Hears(item)
  <1>1. [k \in DOMAIN <<item>> |-> Hears(<<item>>[k])] = <<Hears(item)>>
    OBVIOUS
  <1>2. FlattenSeq(<<Hears(item)>>) = Hears(item)
    BY HearsEvents, FlattenOne
  <1> QED
    BY <1>1, <1>2 DEF Heard

LEMMA HeardConcat ==
    ASSUME NEW x \in Seq(Items), NEW y \in Seq(Items)
    PROVE  Heard(x \o y) = Heard(x) \o Heard(y)
  <1> DEFINE z == x \o y
  <1>1. z \in Seq(Items) /\ Len(z) = Len(x) + Len(y) /\ Len(x) \in Nat /\ Len(y) \in Nat
        /\ DOMAIN z = 1..Len(x) + Len(y) /\ DOMAIN x = 1..Len(x) /\ DOMAIN y = 1..Len(y)
        /\ \A k \in 1..Len(x) + Len(y) : z[k] = IF k <= Len(x) THEN x[k] ELSE y[k - Len(x)]
    BY ConcatProperties, LenProperties
  <1> HIDE DEF z
  <1>2. HeardList(x) \in Lists(Events) /\ HeardList(y) \in Lists(Events) /\ HeardList(z) \in Lists(Events)
        /\ Len(HeardList(x)) = Len(x) /\ Len(HeardList(y)) = Len(y) /\ Len(HeardList(z)) = Len(z)
    BY <1>1, HeardIs
  <1>3. HeardList(z) = HeardList(x) \o HeardList(y)
    <2> DEFINE u == HeardList(x)
               v == HeardList(y)
               w == HeardList(z)
    <2>0. u \in Lists(Events) /\ v \in Lists(Events) /\ Len(u) = Len(x) /\ Len(v) = Len(y)
      BY <1>2
    <2>1. u \o v \in Lists(Events) /\ Len(u \o v) = Len(x) + Len(y)
          /\ \A k \in 1..Len(x) + Len(y) : (u \o v)[k] = IF k <= Len(x) THEN u[k] ELSE v[k - Len(x)]
      <3> HIDE DEF u, v, w
      <3>1. Len(u \o v) = Len(u) + Len(v) /\ u \o v \in Lists(Events)
            /\ \A k \in 1..Len(u) + Len(v) : (u \o v)[k] = IF k <= Len(u) THEN u[k] ELSE v[k - Len(u)]
        BY <2>0, ListConcat
      <3> QED
        BY <2>0, <3>1
    <2>2. ASSUME NEW k \in 1..Len(x) + Len(y) PROVE w[k] = (u \o v)[k]
      <3>1. w[k] = Hears(z[k])
        BY <1>1 DEF HeardList
      <3>2. CASE k <= Len(x)
        <4>1. k \in 1..Len(x)
          BY <1>1, <3>2
        <4>2. u[k] = Hears(x[k])
          BY <1>1, <4>1 DEF HeardList
        <4> QED
          BY <1>1, <2>1, <3>1, <3>2, <4>2
      <3>3. CASE ~(k <= Len(x))
        <4>1. k - Len(x) \in 1..Len(y)
          BY <1>1, <3>3
        <4>2. v[k - Len(x)] = Hears(y[k - Len(x)])
          BY <1>1, <4>1 DEF HeardList
        <4> QED
          BY <1>1, <2>1, <3>1, <3>3, <4>2
      <3> QED
        BY <3>2, <3>3
    <2>3. w \in Lists(Events) /\ Len(w) = Len(u \o v)
      BY <1>1, <1>2, <2>1
    <2> HIDE DEF u, v, w
    <2>4. w = u \o v
      <3>1. w \in Seq(Seq(Events)) /\ u \o v \in Seq(Seq(Events))
        BY <2>1, <2>3 DEF Lists
      <3>2. Len(w) = Len(x) + Len(y)
        BY <2>1, <2>3
      <3> QED
        BY <2>2, <2>3, <3>1, <3>2, SeqEqual
    <2> QED
      BY <2>4 DEF u, v, w
  <1>4. FlattenSeq(HeardList(z)) = FlattenSeq(HeardList(x)) \o FlattenSeq(HeardList(y))
    BY <1>2, <1>3, FlattenConcat
  <1>5. Heard(z) = FlattenSeq(HeardList(z)) /\ Heard(x) = FlattenSeq(HeardList(x))
        /\ Heard(y) = FlattenSeq(HeardList(y))
    BY <1>1, HeardIs
  <1> QED
    BY <1>4, <1>5 DEF z

(* Data is heard as it is told. *)
LEMMA HeardData ==
    ASSUME NEW items \in Seq(Items), AllData(items)
    PROVE  Heard(items) = items
  <1>1. DOMAIN items = 1..Len(items) /\ \A k \in 1..Len(items) : items[k] \in Items
    BY LenProperties, ElementOfSeq
  <1>2. \A k \in DOMAIN items : Hears(items[k]) = <<items[k]>>
    BY <1>1, HearsEvents DEF AllData
  <1>3. [k \in DOMAIN items |-> Hears(items[k])] = [k \in DOMAIN items |-> <<items[k]>>]
    BY <1>2
  <1> QED
    BY <1>3, FlattenOnes DEF Heard

-----------------------------------------------------------------------------
(* The decoder of TelnetStream as a function, with the events as they are  *)
(* heard.  There are no line ends, and memory does not run out.  In the    *)
(* skip of an MCCPv1 sequence it stops: no script leads there.             *)
Modes == (States \ {"EOL"}) \cup {"SKIP"}
Decoders == [mode : Modes, opt : Bytes \cup {"NUL"}, sub : Seq(Bytes), log : Seq(Events)]

Stores(d, b) ==
    \/ d.mode = "SB_DATA" /\ b # "IAC" /\ ~(d.opt = "COMPRESS" /\ b = "WILL")
    \/ d.mode = "SB_DATA_IAC" /\ b = "IAC"

Says(d, b) ==
    CASE d.mode = "DATA" /\ b # "IAC"           -> <<Data(b)>>
      [] d.mode = "IAC"                         -> Told(b)
      [] d.mode \in Verbs                       -> <<Neg(d.mode, b)>>
      [] Stores(d, b) /\ Len(d.sub) = Limit     -> <<Error("overflow")>>
      [] d.mode = "SB_DATA_IAC" /\ b = "SE"     -> <<Sub(d.opt, d.sub)>>
      [] d.mode = "SB_DATA_IAC" /\ b \notin {"IAC", "SE"} ->
             <<Error("protocol"), Sub(d.opt, d.sub)>> \o Told(b)
      [] OTHER                                  -> <<>>

Turns(d, b) ==
    CASE Stores(d, b)                           -> IF Len(d.sub) = Limit THEN "DATA" ELSE "SB_DATA"
      [] d.mode \in {"DATA", "SB_DATA"} /\ b = "IAC" ->
             IF d.mode = "DATA" THEN "IAC" ELSE "SB_DATA_IAC"
      [] d.mode = "IAC"                         -> Follows(b)
      [] d.mode = "SB_DATA_IAC" /\ b \notin {"IAC", "SE"} -> Follows(b)
      [] d.mode = "SB"                          -> "SB_DATA"
      [] d.mode = "SKIP" \/ (d.mode = "SB_DATA" /\ d.opt = "COMPRESS" /\ b = "WILL") -> "SKIP"
      [] OTHER                                  -> "DATA"

After(d, b) ==
    [mode |-> Turns(d, b),
     opt |-> IF d.mode = "SB" THEN b ELSE d.opt,
     sub |-> IF d.mode = "SB" THEN <<>>
             ELSE IF Stores(d, b) /\ Len(d.sub) # Limit THEN Append(d.sub, b) ELSE d.sub,
     log |-> d.log \o Heard(Says(d, b))]

LEMMA SaysItems ==
    ASSUME NEW d \in Decoders, NEW b \in Bytes
    PROVE  Says(d, b) \in Seq(Items)
  <1>1. d.opt \in Bytes \cup {"NUL"} /\ d.sub \in Seq(Bytes)
    BY DEF Decoders
  <1>2. /\ Data(b) \in Items /\ Error("overflow") \in Items /\ Error("protocol") \in Items
        /\ Sub(d.opt, d.sub) \in Items /\ (d.mode \in Verbs => Neg(d.mode, b) \in Items)
    <2>1. Data(b) \in Items
      BY DEF Items
    <2>2. Error("overflow") \in Items /\ Error("protocol") \in Items
      BY DEF Items, Codes
    <2>3. Sub(d.opt, d.sub) \in Items
      BY <1>1 DEF Items
    <2>4. d.mode \in Verbs => Neg(d.mode, b) \in Items
      BY DEF Items
    <2> QED
      BY <2>1, <2>2, <2>3, <2>4
  <1>3. <<Data(b)>> \in Seq(Items) /\ <<Error("overflow")>> \in Seq(Items)
        /\ <<Sub(d.opt, d.sub)>> \in Seq(Items) /\ <<>> \in Seq(Items)
        /\ (d.mode \in Verbs => <<Neg(d.mode, b)>> \in Seq(Items))
    BY <1>2
  <1>4. <<Error("protocol"), Sub(d.opt, d.sub)>> \in Seq(Items)
    BY <1>2
  <1>5. Told(b) \in Seq(Items)
    BY ToldItems
  <1>6. <<Error("protocol"), Sub(d.opt, d.sub)>> \o Told(b) \in Seq(Items)
    BY <1>4, <1>5, ConcatProperties
  <1> QED
    BY <1>3, <1>5, <1>6, Zenon DEF Says

LEMMA TurnsModes ==
    ASSUME NEW d, NEW b
    PROVE  Turns(d, b) \in Modes
  <1>1. Follows(b) \in Modes
    BY DEF Follows, Modes, States, Verbs
  <1>2. {"DATA", "IAC", "SB_DATA", "SB_DATA_IAC", "SKIP"} \subseteq Modes
    BY DEF Modes, States, Verbs
  <1> QED
    BY <1>1, <1>2 DEF Turns

LEMMA AfterIs ==
    ASSUME NEW d \in Decoders, NEW b \in Bytes
    PROVE  After(d, b) \in Decoders /\ Heard(Says(d, b)) \in Seq(Events)
  <1>1. Heard(Says(d, b)) \in Seq(Events)
    BY SaysItems, HeardIs
  <1>2. d.log \in Seq(Events) /\ d.sub \in Seq(Bytes) /\ d.opt \in Bytes \cup {"NUL"}
    BY DEF Decoders
  <1>3. d.log \o Heard(Says(d, b)) \in Seq(Events)
    BY <1>1, <1>2, ConcatProperties
  <1>4. Append(d.sub, b) \in Seq(Bytes) /\ <<>> \in Seq(Bytes)
    BY <1>2, AppendProperties, EmptySeq
  <1> QED
    BY <1>1, <1>2, <1>3, <1>4, TurnsModes DEF After, Decoders

-----------------------------------------------------------------------------
(* From d, the bytes w lead to e. *)
Trace(d, w, t) == t[0] = d /\ \A k \in 1..Len(w) : t[k] = After(t[k - 1], w[k])
Leads(d, w, e) == \E t : Trace(d, w, t) /\ t[Len(w)] = e

LEMMA LeadsNone == \A d, e : Leads(d, <<>>, e) <=> d = e
  <1>1. Len(<<>>) = 0
    BY EmptySeq
  <1>2. ASSUME NEW d PROVE Leads(d, <<>>, d)
    <2>1. Trace(d, <<>>, [k \in {0} |-> d]) /\ [k \in {0} |-> d][0] = d
      BY <1>1 DEF Trace
    <2> QED
      BY <1>1, <2>1 DEF Leads
  <1>3. ASSUME NEW d, NEW e, Leads(d, <<>>, e) PROVE d = e
    BY <1>1, <1>3 DEF Leads, Trace
  <1> QED
    BY <1>2, <1>3

LEMMA LeadsOne == ASSUME NEW d, NEW b PROVE Leads(d, <<b>>, After(d, b))
  <1> DEFINE t == [k \in 0..1 |-> IF k = 0 THEN d ELSE After(d, b)]
             w == <<b>>
  <1>1. Len(w) = 1 /\ w[1] = b
    OBVIOUS
  <1>2. t[0] = d /\ t[1] = After(d, b)
    OBVIOUS
  <1> HIDE DEF t, w
  <1>3. Trace(d, w, t)
    <2>1. \A k \in 1..1 : k = 1 /\ k - 1 = 0
      OBVIOUS
    <2> QED
      BY <1>1, <1>2, <2>1 DEF Trace
  <1>4. Leads(d, w, After(d, b))
    BY <1>1, <1>2, <1>3 DEF Leads
  <1> QED
    BY <1>4 DEF w

LEMMA LeadsConcat ==
    ASSUME NEW d, NEW e, NEW f, NEW v \in Seq(Bytes), NEW w \in Seq(Bytes),
           Leads(d, v, e), Leads(e, w, f)
    PROVE  Leads(d, v \o w, f)
  <1> DEFINE m == Len(v)
             n == Len(w)
             all == v \o w
  <1>1. m \in Nat /\ n \in Nat /\ Len(all) = m + n
        /\ \A k \in 1..m + n : all[k] = IF k <= m THEN v[k] ELSE w[k - m]
    BY ConcatProperties, LenProperties
  <1> HIDE DEF m, n, all
  <1>2. PICK s : s[0] = d /\ s[m] = e /\ \A k \in 1..m : s[k] = After(s[k - 1], v[k])
    BY DEF Leads, Trace, m
  <1>3. PICK t : t[0] = e /\ t[n] = f /\ \A k \in 1..n : t[k] = After(t[k - 1], w[k])
    BY DEF Leads, Trace, n
  <1> DEFINE u == [k \in 0..m + n |-> IF k <= m THEN s[k] ELSE t[k - m]]
  <1>4. u[0] = d /\ u[m + n] = f
    <2>1. 0 \in 0..m + n /\ m + n \in 0..m + n /\ (m + n) - m = n
      BY <1>1
    <2>2. CASE n = 0
      BY <1>1, <1>2, <1>3, <2>1, <2>2
    <2>3. CASE n # 0
      BY <1>1, <1>2, <1>3, <2>1, <2>3
    <2> QED
      BY <2>2, <2>3
  <1>5. ASSUME NEW k \in 1..m + n PROVE u[k] = After(u[k - 1], all[k])
    <2>1. CASE k <= m
      <3>1. k \in 1..m /\ k - 1 <= m /\ k \in 0..m + n /\ k - 1 \in 0..m + n
        BY <1>1, <2>1
      <3>2. u[k] = s[k] /\ u[k - 1] = s[k - 1] /\ all[k] = v[k]
        BY <1>1, <3>1
      <3> QED
        BY <1>2, <3>1, <3>2
    <2>2. CASE k = m + 1
      <3>1. k - m = 1 /\ 1 \in 1..n /\ k - 1 = m /\ ~(k <= m) /\ k \in 0..m + n /\ m \in 0..m + n /\ m <= m
            /\ 1 - 1 = 0
        BY <1>1, <2>2
      <3>2. u[k] = t[1] /\ u[k - 1] = t[0] /\ all[k] = w[1]
        BY <1>1, <1>2, <1>3, <3>1
      <3> QED
        BY <1>3, <3>1, <3>2
    <2>3. CASE k > m + 1
      <3>1. k - m \in 1..n /\ ~(k <= m) /\ ~(k - 1 <= m) /\ k \in 0..m + n /\ k - 1 \in 0..m + n
            /\ (k - 1) - m = (k - m) - 1
        BY <1>1, <2>3
      <3>2. u[k] = t[k - m] /\ u[k - 1] = t[(k - m) - 1] /\ all[k] = w[k - m]
        BY <1>1, <3>1
      <3> QED
        BY <1>3, <3>1, <3>2
    <2> QED
      BY <1>1, <2>1, <2>2, <2>3
  <1> HIDE DEF u
  <1>6. Trace(d, all, u) /\ u[Len(all)] = f
    BY <1>1, <1>4, <1>5 DEF Trace
  <1> QED
    BY <1>6 DEF Leads, all

(* The first byte first. *)
LEMMA LeadsOn ==
    ASSUME NEW d, NEW b, NEW e, NEW v \in Seq(Bytes), NEW w \in Seq(Bytes),
           Len(v) = Len(w) + 1, v[1] = b, \A k \in 1..Len(w) : v[k + 1] = w[k],
           Leads(d, v, e)
    PROVE  Leads(After(d, b), w, e)
  <1> DEFINE n == Len(w)
  <1>1. n \in Nat /\ Len(v) = n + 1
    BY LenProperties
  <1>2. \A k \in 1..n : v[k + 1] = w[k]
    OBVIOUS
  <1> HIDE DEF n
  <1>3. PICK t : t[0] = d /\ t[n + 1] = e /\ \A k \in 1..n + 1 : t[k] = After(t[k - 1], v[k])
    BY <1>1 DEF Leads, Trace
  <1> DEFINE u == [k \in 0..n |-> t[k + 1]]
  <1>4. u[0] = After(d, b) /\ u[n] = e
    <2>1. 1 \in 1..n + 1 /\ 1 - 1 = 0 /\ 0 + 1 = 1
      BY <1>1
    <2> QED
      BY <1>1, <1>3, <2>1
  <1>5. ASSUME NEW k \in 1..n PROVE u[k] = After(u[k - 1], w[k])
    <2>1. k + 1 \in 1..n + 1 /\ (k + 1) - 1 = k /\ (k - 1) + 1 = k /\ k \in 0..n /\ k - 1 \in 0..n
      BY <1>1
    <2>2. u[k] = t[k + 1] /\ u[k - 1] = t[k]
      BY <2>1
    <2> QED
      BY <1>2, <1>3, <2>1, <2>2
  <1> HIDE DEF u
  <1>6. Trace(After(d, b), w, u) /\ u[Len(w)] = e
    BY <1>4, <1>5 DEF Trace, n
  <1> QED
    BY <1>6 DEF Leads

(* The log only gets longer. *)
LEMMA LeadsLonger ==
    ASSUME NEW d \in Decoders, NEW w \in Seq(Bytes), NEW e, Leads(d, w, e)
    PROVE  e \in Decoders /\ \E x \in Seq(Events) : e.log = d.log \o x
  <1> DEFINE n == Len(w)
  <1>1. n \in Nat /\ \A k \in 1..n : w[k] \in Bytes
    BY LenProperties, ElementOfSeq
  <1> HIDE DEF n
  <1>2. PICK t : t[0] = d /\ t[n] = e /\ \A k \in 1..n : t[k] = After(t[k - 1], w[k])
    BY DEF Leads, Trace, n
  <1> DEFINE Fine(x) == x \in Decoders /\ \E y \in Seq(Events) : x.log = d.log \o y
             S == {k \in 0..n : Fine(t[k])}
  <1>3. d.log \in Seq(Events)
    BY DEF Decoders
  <1>4. Fine(d)
    BY <1>3, EmptySeq, ConcatEmptySeq
  <1>5. ASSUME NEW x, NEW b \in Bytes, Fine(x) PROVE Fine(After(x, b))
    <2>1. PICK y \in Seq(Events) : x.log = d.log \o y
      BY <1>5
    <2> DEFINE z == Heard(Says(x, b))
    <2>2. z \in Seq(Events) /\ After(x, b) \in Decoders
      BY <1>5, AfterIs
    <2>3. After(x, b).log = x.log \o z
      BY DEF After
    <2> HIDE DEF z
    <2>4. (d.log \o y) \o z = d.log \o (y \o z) /\ y \o z \in Seq(Events)
      <3> DEFINE l == d.log
      <3>1. l \in Seq(Events)
        BY <1>3
      <3> HIDE DEF l
      <3>2. (l \o y) \o z = l \o (y \o z) /\ y \o z \in Seq(Events)
        BY <2>2, <3>1, ConcatAssociative, ConcatProperties
      <3> QED
        BY <3>2 DEF l
    <2> QED
      BY <2>1, <2>2, <2>3, <2>4
  <1>6. 0 \in S /\ \A k \in 1..n : k - 1 \in S => k \in S
    <2> HIDE DEF Fine
    <2>1. 0 \in S
      BY <1>1, <1>2, <1>4
    <2>2. ASSUME NEW k \in 1..n, k - 1 \in S PROVE k \in S
      BY <1>1, <1>2, <1>5, <2>2
    <2> QED
      BY <2>1, <2>2
  <1>7. n \in S
    <2> HIDE DEF S
    <2>1. n \in 0..n
      BY <1>1
    <2> QED
      BY <1>1, <1>6, <2>1, InductionUpTo
  <1> QED
    BY <1>2, <1>7

(* A decoder that stopped does not go on. *)
LEMMA SkipStays ==
    ASSUME NEW d, NEW w \in Seq(Bytes), NEW e, Leads(d, w, e), d.mode = "SKIP"
    PROVE  e.mode = "SKIP"
  <1> DEFINE n == Len(w)
  <1>1. n \in Nat
    BY LenProperties
  <1> HIDE DEF n
  <1>2. PICK t : t[0] = d /\ t[n] = e /\ \A k \in 1..n : t[k] = After(t[k - 1], w[k])
    BY DEF Leads, Trace, n
  <1> DEFINE S == {k \in 0..n : t[k].mode = "SKIP"}
  <1>3. ASSUME NEW x, NEW b, x.mode = "SKIP" PROVE After(x, b).mode = "SKIP"
    <2>1. Turns(x, b) = "SKIP"
      BY <1>3 DEF Turns, Stores
    <2> QED
      BY <2>1 DEF After
  <1>4. 0 \in S
    BY <1>1, <1>2
  <1>5. ASSUME NEW k \in 1..n, k - 1 \in S PROVE k \in S
    BY <1>1, <1>2, <1>3, <1>5
  <1> HIDE DEF S
  <1>6. 0..n \subseteq S
    BY <1>1, <1>4, <1>5, InductionUpTo
  <1>7. n \in S
    BY <1>1, <1>6
  <1> QED
    BY <1>2, <1>7 DEF S

-----------------------------------------------------------------------------
(* The parser, with what the application has heard of it and what it has   *)
(* not been told yet, is such a decoder.                                   *)
Decoder == [mode |-> Mode, opt |-> sb_telopt, sub |-> sub, log |-> told \o Held]

LEMMA DecoderTurns ==
    ASSUME LogInv, state # "EOL", ~Skipping, NEW b \in Bytes, Stream!Byte(b)
    PROVE  /\ Stream!Tell(Says(Decoder, b)) /\ Mode' = Turns(Decoder, b)
           /\ sb_telopt' = After(Decoder, b).opt /\ sub' = After(Decoder, b).sub
  <1> DEFINE d == Decoder
             e == After(d, b)
  <1>0. /\ d.mode = Mode /\ d.opt = sb_telopt /\ d.sub = sub
        /\ e.opt = (IF Mode = "SB" THEN b ELSE sb_telopt)
        /\ e.sub = IF Mode = "SB" THEN <<>>
                   ELSE IF Stores(d, b) /\ Len(sub) # Limit THEN Append(sub, b) ELSE sub
    BY DEF Decoder, After
  <1>1. Mode # "EOL" /\ Mode # "SKIP" /\ ~NvtEol /\ ~MayFail
    <2>1. state # "SKIP"
      BY DEF LogInv, TypeOK, States, Verbs
    <2> QED
      BY <2>1, NvtEolIsOff, MemoryAssumption DEF Mode
  <1> HIDE DEF d, e
  <1>2. CASE Stream!Plain(b)
    <2>1. Mode = "DATA" /\ UNCHANGED <<sb_telopt, sub>> /\ ~Stream!EndOfLine(b)
      BY <1>1, <1>2 DEF Stream!Plain, Stream!Same, Mode, Stream!EndOfLine
    <2>2. CASE b = "IAC"
      <3>1. Mode' = "IAC" /\ Stream!Tell(<<>>)
        BY <1>1, <1>2, <2>1, <2>2 DEF Stream!Plain, Stream!Goto, Mode
      <3>2. Says(d, b) = <<>> /\ Turns(d, b) = "IAC" /\ ~Stores(d, b)
        BY <1>0, <2>1, <2>2 DEF Says, Turns, Stores, Verbs
      <3> QED
        BY <1>0, <2>1, <3>1, <3>2 DEF d, e
    <2>3. CASE b # "IAC"
      <3>1. Mode' = "DATA" /\ Stream!Tell(<<Data(b)>>)
        BY <1>2, <2>1, <2>3, SameEvents DEF Stream!Plain, Stream!Goto, Mode
      <3>2. Says(d, b) = <<Data(b)>> /\ Turns(d, b) = "DATA" /\ ~Stores(d, b)
        BY <1>0, <2>1, <2>3 DEF Says, Turns, Stores, Verbs
      <3> QED
        BY <1>0, <2>1, <3>1, <3>2 DEF d, e
    <2> QED
      BY <2>2, <2>3
  <1>3. CASE Stream!Command(b)
    <2>1. Mode = "IAC" /\ UNCHANGED <<sb_telopt, sub>> /\ Mode' = Follows(b) /\ Stream!Tell(Told(b))
      BY <1>3, SameEvents DEF Stream!Command, Stream!Same, Stream!Goto, Mode
    <2>2. Says(d, b) = Told(b) /\ Turns(d, b) = Follows(b) /\ ~Stores(d, b)
      BY <1>0, <2>1 DEF Says, Turns, Stores, Verbs
    <2> QED
      BY <1>0, <2>1, <2>2 DEF d, e
  <1>4. CASE Stream!Negotiation(b)
    <2>1. Mode \in Verbs /\ UNCHANGED <<sb_telopt, sub>> /\ Mode' = "DATA" /\ Stream!Tell(<<Neg(Mode, b)>>)
      BY <1>4, SameEvents DEF Stream!Negotiation, Stream!Goto, Mode
    <2>2. Says(d, b) = <<Neg(Mode, b)>> /\ Turns(d, b) = "DATA" /\ ~Stores(d, b) /\ Mode # "SB"
      BY <1>0, <2>1 DEF Says, Turns, Stores, Verbs
    <2> QED
      BY <1>0, <2>1, <2>2 DEF d, e
  <1>5. CASE Stream!SubOption(b)
    <2>1. Mode = "SB" /\ sb_telopt' = b /\ sub' = <<>> /\ Mode' = "SB_DATA" /\ Stream!Tell(<<>>)
      BY <1>5 DEF Stream!SubOption, Stream!Goto, Mode
    <2>2. Says(d, b) = <<>> /\ Turns(d, b) = "SB_DATA"
      BY <1>0, <2>1 DEF Says, Turns, Stores, Verbs
    <2> QED
      BY <1>0, <2>1, <2>2 DEF d, e
  <1>6. ASSUME Stores(d, b), Stream!Store(b), sb_telopt' = sb_telopt, Mode \in {"SB_DATA", "SB_DATA_IAC"}
        PROVE  /\ Stream!Tell(Says(d, b)) /\ Mode' = Turns(d, b)
               /\ sb_telopt' = e.opt /\ sub' = e.sub
    <2>1. CASE Len(sub) = Limit
      <3>1. Mode' = "DATA" /\ Stream!Tell(<<Error("overflow")>>) /\ sub' = sub
        BY <1>1, <1>6, <2>1, SizesAreBounded, SameEvents DEF Stream!Store, Stream!Goto, Mode, LogInv, TypeOK
      <3>2. Says(d, b) = <<Error("overflow")>> /\ Turns(d, b) = "DATA"
        BY <1>0, <1>6, <2>1 DEF Says, Turns, Verbs, Stores
      <3> QED
        BY <1>0, <1>6, <2>1, <3>1, <3>2
    <2>2. CASE Len(sub) # Limit
      <3>1. Mode' = "SB_DATA" /\ Stream!Tell(<<>>) /\ sub' = Append(sub, b)
        BY <1>1, <1>6, <2>2 DEF Stream!Store, Stream!Goto, Mode
      <3>2. Says(d, b) = <<>> /\ Turns(d, b) = "SB_DATA"
        BY <1>0, <1>6, <2>2 DEF Says, Turns, Verbs, Stores
      <3> QED
        BY <1>0, <1>6, <2>2, <3>1, <3>2
    <2> QED
      BY <2>1, <2>2
  <1>7. CASE Stream!SubByte(b)
    <2>1. Mode = "SB_DATA" /\ UNCHANGED sb_telopt
      BY <1>7 DEF Stream!SubByte, Mode
    <2>2. ASSUME b = "IAC" PROVE Stream!Tell(<<>>) /\ Mode' = "SB_DATA_IAC" /\ sub' = sub
      BY <1>7, <2>2 DEF Stream!SubByte, Stream!Goto, Mode, Stream!OldCompress
    <2>3. ASSUME b = "IAC" PROVE Says(d, b) = <<>> /\ Turns(d, b) = "SB_DATA_IAC" /\ ~Stores(d, b)
      BY <1>0, <2>1, <2>3 DEF Says, Turns, Verbs, Stores
    <2>4. ASSUME sb_telopt = "COMPRESS" /\ b = "WILL"
          PROVE  Stream!Tell(<<>>) /\ Mode' = "SKIP" /\ sub' = sub
      BY <1>7, <2>4 DEF Stream!SubByte, Stream!Goto, Mode, Stream!OldCompress
    <2>5. ASSUME sb_telopt = "COMPRESS" /\ b = "WILL"
          PROVE  Says(d, b) = <<>> /\ Turns(d, b) = "SKIP" /\ ~Stores(d, b)
      BY <1>0, <2>1, <2>5 DEF Says, Turns, Verbs, Stores
    <2>6. ASSUME b # "IAC", ~(sb_telopt = "COMPRESS" /\ b = "WILL")
          PROVE  Stores(d, b) /\ Stream!Store(b)
      BY <1>0, <1>7, <2>1, <2>6 DEF Stores, Stream!SubByte, Stream!OldCompress
    <2>7. CASE b = "IAC"
      BY <1>0, <2>1, <2>2, <2>3, <2>7 DEF d, e
    <2>8. CASE sb_telopt = "COMPRESS" /\ b = "WILL"
      BY <1>0, <2>1, <2>4, <2>5, <2>8 DEF d, e
    <2>9. CASE b # "IAC" /\ ~(sb_telopt = "COMPRESS" /\ b = "WILL")
      BY <1>6, <2>1, <2>6, <2>9 DEF d, e
    <2> QED
      BY <2>7, <2>8, <2>9
  <1>8. CASE Stream!SubCommand(b)
    <2>1. Mode = "SB_DATA_IAC" /\ UNCHANGED sb_telopt
      BY <1>8 DEF Stream!SubCommand, Mode
    <2>2. CASE b = "IAC"
      <3>1. Stores(d, b) /\ Stream!Store(b)
        BY <1>0, <1>8, <2>1, <2>2 DEF Stores, Stream!SubCommand
      <3> QED
        BY <1>6, <2>1, <3>1 DEF d, e
    <2>3. CASE b = "SE"
      <3>1. Mode' = "DATA" /\ Stream!Tell(<<Sub(sb_telopt, sub)>>) /\ sub' = sub
        BY <1>8, <2>3, SameEvents DEF Stream!SubCommand, Stream!Goto, Mode
      <3>2. Says(d, b) = <<Sub(sb_telopt, sub)>> /\ Turns(d, b) = "DATA" /\ ~Stores(d, b)
        BY <1>0, <2>1, <2>3 DEF Says, Turns, Verbs, Stores
      <3> QED
        BY <1>0, <2>1, <3>1, <3>2 DEF d, e
    <2>4. CASE b \notin {"IAC", "SE"}
      <3>1. /\ Mode' = Follows(b) /\ sub' = sub
            /\ Stream!Tell(<<Error("protocol"), Sub(sb_telopt, sub)>> \o Told(b))
        BY <1>8, <2>4, SameEvents DEF Stream!SubCommand, Stream!Goto, Mode
      <3>2. /\ Says(d, b) = <<Error("protocol"), Sub(sb_telopt, sub)>> \o Told(b)
            /\ Turns(d, b) = Follows(b) /\ ~Stores(d, b)
        BY <1>0, <2>1, <2>4 DEF Says, Turns, Verbs, Stores
      <3> QED
        BY <1>0, <2>1, <3>1, <3>2 DEF d, e
    <2> QED
      BY <2>2, <2>3, <2>4
  <1>9. ~Stream!Skipped
    BY <1>1 DEF Stream!Skipped, Mode
  <1>10. ~Stream!LineEnd(b)
    BY <1>1 DEF Stream!LineEnd, Mode
  <1> QED
    BY <1>2, <1>3, <1>4, <1>5, <1>7, <1>8, <1>9, <1>10 DEF Stream!Byte

LEMMA ItemsAreEvents == Seq(Items) \subseteq Seq(Events)
  <1>1. Items \subseteq Events
    BY DEF Events
  <1> QED
    BY <1>1, SeqMonotonic

LEMMA HeardOn ==
    ASSUME NEW log \in Str(Items), NEW new \in Str(Items), NEW says \in Str(Items),
           NEW old \in Str(Items), NEW held \in Str(Items), AllData(old), AllData(held),
           Cat(Cat(log, new), held) = Cat(Cat(log, old), says),
           NEW t \in Str(Events)
    PROVE  Cat(Cat(t, Heard(new)), held) = Cat(Cat(t, old), Heard(says))
  <1>1. Cat(new, held) \in Str(Items) /\ Cat(old, says) \in Str(Items)
    BY CatIn
  <1>2. Cat(new, held) = Cat(old, says)
    BY <1>1, CatAssoc, CatCancel
  <1>3. Heard(Cat(new, held)) = Cat(Heard(new), Heard(held))
    BY HeardConcat DEF Cat, Str
  <1>4. Heard(Cat(old, says)) = Cat(Heard(old), Heard(says))
    BY HeardConcat DEF Cat, Str
  <1>5. Heard(held) = held /\ Heard(old) = old
    BY HeardData DEF Str
  <1>6. Heard(new) \in Str(Events) /\ Heard(says) \in Str(Events)
        /\ held \in Str(Events) /\ old \in Str(Events)
    BY HeardIs, ItemsAreEvents DEF Str
  <1>7. Cat(Heard(new), held) = Cat(old, Heard(says))
    BY <1>2, <1>3, <1>4, <1>5
  <1> QED
    BY <1>6, <1>7, CatAssoc

LEMMA DecoderIs ==
    ASSUME LogInv, state # "EOL", told \in Seq(Events)
    PROVE  Decoder \in Decoders
  <1>1. Held \in Seq(Events)
    BY LogIsSeq, ItemsAreEvents
  <1>2. told \o Held \in Seq(Events)
    BY <1>1, ConcatProperties
  <1>3. Mode \in Modes /\ sb_telopt \in Bytes \cup {"NUL"} /\ sub \in Seq(Bytes)
    BY DEF LogInv, TypeOK, Mode, Modes
  <1> QED
    BY <1>2, <1>3 DEF Decoder, Decoders

LEMMA ByteReads ==
    ASSUME LogInv, ~Skipping, NEW b \in Bytes, ReadByte(b)
    PROVE  Reads(b) /\ LogInv'
  <1>0. TypeOK' /\ PosInv'
    BY PosStep DEF LogInv, Next
  <1>1. Reads(b)
    BY <1>0, InDataReads, InEolReads, InIacReads, InVerbReads, InSbReads, InSbDataReads,
       InSbDataIacReads DEF ReadByte, Wraps
  <1> QED
    BY <1>0, <1>1 DEF Reads, LogInv

(* A byte that is read makes it the decoder behind this byte. *)
LEMMA DecoderReads ==
    ASSUME LogInv, state # "EOL", ~Skipping, told \in Seq(Events), NEW b \in Bytes, ReadByte(b),
           told' = told \o Heard(NewItems)
    PROVE  Decoder' = After(Decoder, b) /\ told' \in Seq(Events)
  <1>1. Reads(b) /\ LogInv' /\ Decoder \in Decoders
    BY ByteReads, DecoderIs
  <1> DEFINE says == Says(Decoder, b)
  <1>2. /\ Stream!Tell(says) /\ Mode' = Turns(Decoder, b)
        /\ sb_telopt' = After(Decoder, b).opt /\ sub' = After(Decoder, b).sub
    BY <1>1, DecoderTurns DEF Reads
  <1>3. says \in Seq(Items)
    BY <1>1, SaysItems
  <1>4. PICK new : new \in Seq(Items) /\ Deliver(new)
    BY ByteTells DEF Tells
  <1>5. NewItems = new
    BY <1>4, NewAre
  <1>6. Log \in Seq(Items) /\ Held \in Seq(Items) /\ AllData(Held)
    BY LogIsSeq, HeldIsShort
  <1>7. Held' \in Seq(Items) /\ AllData(Held')
    <2>1. (LogInv => Held \in Seq(Items) /\ AllData(Held))'
      BY LogIsSeq, HeldIsShort, PTL
    <2>2. (LogInv => Held \in Seq(Items) /\ AllData(Held))' <=> (LogInv' => Held' \in Seq(Items) /\ AllData(Held'))
      BY DEF AllData
    <2> QED
      BY <1>1, <2>1, <2>2
  <1>8. (Log \o new) \o Held' = (Log \o Held) \o says
    <2>1. delivered' = Log \o new
      BY <1>4 DEF Deliver, Log
    <2>2. delivered' \o Held' = (IF buf # <<>> THEN delivered \o Held ELSE <<>>) \o says
      BY <1>2 DEF Stream!Tell
    <2>3. CASE buf # <<>>
      BY <2>1, <2>2, <2>3 DEF Log
    <2>4. CASE buf = <<>>
      <3>1. start = 0 /\ i = 0
        BY <2>4, EmptySeq DEF LogInv, PosInv, i
      <3>2. Held = <<>>
        BY <3>1, HeldNothing DEF LogInv
      <3>3. Log \o Held = <<>>
        BY <2>4, <3>2, EmptySeq, ConcatEmptySeq DEF Log
      <3> QED
        BY <2>1, <2>2, <2>4, <3>3
    <2> QED
      BY <2>3, <2>4
  <1> HIDE DEF says
  <1>9. (told \o Heard(new)) \o Held' = (told \o Held) \o Heard(says)
    <2>1. Cat(Cat(Log, new), Held') = Cat(Cat(Log, Held), says)
      BY <1>8 DEF Cat
    <2>2. Log \in Str(Items) /\ Held \in Str(Items) /\ Held' \in Str(Items)
          /\ new \in Str(Items) /\ says \in Str(Items) /\ told \in Str(Events)
      BY <1>3, <1>4, <1>6, <1>7 DEF Str
    <2>3. Cat(Cat(told, Heard(new)), Held') = Cat(Cat(told, Held), Heard(says))
      BY <1>6, <1>7, <2>1, <2>2, HeardOn
    <2> QED
      BY <2>3 DEF Cat
  <1>10. Decoder'.log = After(Decoder, b).log
    BY <1>5, <1>9 DEF Decoder, After, says
  <1>11. told' \in Seq(Events)
    BY <1>4, <1>5, HeardIs, ConcatProperties
  <1>12. Decoder' = [mode |-> Mode', opt |-> sb_telopt', sub |-> sub', log |-> Decoder'.log]
    BY DEF Decoder
  <1>13. After(Decoder, b) = [mode |-> Turns(Decoder, b), opt |-> After(Decoder, b).opt,
                              sub |-> After(Decoder, b).sub, log |-> After(Decoder, b).log]
    BY DEF After
  <1> QED
    BY <1>2, <1>10, <1>11, <1>12, <1>13

-----------------------------------------------------------------------------
(* The inductive invariant: reading on from here, through what recv has    *)
(* read and what it has not, ends between two commands and with what was   *)
(* meant as what was told.                                                 *)
Ahead == (IF at = "parse" THEN SubSeq(raw, i + 1, Len(raw)) ELSE <<>>) \o wire

LeadsToMeant == \E e : Leads(Decoder, Ahead, e) /\ e.mode = "DATA" /\ e.log = meant

ExInv == RecvInv /\ DiscardsOldCompress /\ told \in Seq(Events) /\ LeadsToMeant

LEMMA AheadIs ==
    ASSUME RecvInv
    PROVE  /\ Ahead \in Seq(Bytes)
           /\ at # "parse" => Ahead = wire
           /\ at = "parse" /\ i = Len(raw) => Ahead = wire
  <1>1. wire \in Seq(Bytes) /\ raw \in Seq(Bytes) /\ i \in Nat /\ Len(raw) \in Nat
    BY NoItemsAreShort, LenProperties DEF RecvInv, ReadInv
  <1>2. \A k \in i + 1..Len(raw) : raw[k] \in Bytes
    BY <1>1, ElementOfSeq
  <1>3. SubSeq(raw, i + 1, Len(raw)) \in Seq(Bytes) /\ <<>> \in Seq(Bytes)
    BY <1>1, <1>2, SubSeqProperties, EmptySeq
  <1>4. i = Len(raw) => SubSeq(raw, i + 1, Len(raw)) = <<>>
    BY <1>1, SubSeqEmpty
  <1> QED
    BY <1>1, <1>3, <1>4, ConcatProperties, ConcatEmptySeq DEF Ahead

(* Nothing waits to be passed on between two calls of telnet_recv. *)
LEMMA NothingHeld ==
    ASSUME LogInv, buf = <<>>
    PROVE  Held = <<>> /\ Mode = state
  <1>1. start = 0 /\ i = 0
    BY EmptySeq DEF LogInv, PosInv, i
  <1> QED
    BY <1>1, HeldNothing, ModeIs DEF LogInv

(* No script leads to the skip of an MCCPv1 sequence. *)
LEMMA NeverSkipping ==
    ASSUME ExInv
    PROVE  ~Skipping /\ Passed = Held /\ ~WrapTold
  <1>1. PICK e : Leads(Decoder, Ahead, e) /\ e.mode = "DATA"
    BY DEF ExInv, LeadsToMeant
  <1>2. Ahead \in Seq(Bytes)
    BY AheadIs DEF ExInv
  <1>3. Decoder.mode # "SKIP"
    BY <1>1, <1>2, SkipStays
  <1>4. ~Skipping
    BY <1>3 DEF Decoder, Mode
  <1> QED
    BY <1>4 DEF Passed, ExInv, DiscardsOldCompress, WrapTold

(* Then what is told has no event of wrapped size in it. *)
LEMMA NoneWraps ==
    ASSUME LogInv, DiscardsOldCompress, NEW items \in Seq(Items), Deliver(items),
           AllData(items) \/ NoData(items)
    PROVE  DiscardsOldCompress'
  <1> DEFINE all == Log \o items
  <1>1. delivered' = all /\ Log \in Seq(Items)
    BY LogIsSeq DEF Deliver, Log
  <1>2. /\ Len(Log) \in Nat /\ DOMAIN Log = 1..Len(Log) /\ DOMAIN all = 1..Len(Log) + Len(items)
        /\ \A k \in 1..Len(Log) : all[k] = Log[k]
        /\ \A k \in 1..Len(Log) + Len(items) :
               k \in 1..Len(Log) \/ (k - Len(Log) \in 1..Len(items) /\ all[k] = items[k - Len(Log)])
    BY <1>1, LogLonger
  <1> HIDE DEF all
  <1>3. \A k \in DOMAIN Log : Log[k] # Wrapped
    BY EmptySeq DEF Log, DiscardsOldCompress
  <1>4. \A k \in 1..Len(items) : items[k] # Wrapped
    BY DEF AllData, NoData, Dataless, Wrapped
  <1>5. \A k \in DOMAIN all : all[k] # Wrapped
    BY <1>2, <1>3, <1>4
  <1> QED
    BY <1>1, <1>5 DEF DiscardsOldCompress

(* What was told is a beginning of what the calls mean. *)
LEMMA ToldIsMeant ==
    ASSUME ExInv
    PROVE  meant \in Seq(Events) /\ Len(told) <= Len(meant) /\ \A k \in 1..Len(told) : meant[k] = told[k]
  <1>1. PICK e : Leads(Decoder, Ahead, e) /\ e.mode = "DATA" /\ e.log = meant
    BY DEF ExInv, LeadsToMeant
  <1>2. LogInv /\ Decoder \in Decoders /\ Ahead \in Seq(Bytes) /\ told \in Seq(Events)
    BY DecoderIs, AheadIs DEF ExInv, RecvInv, ReadInv
  <1>3. PICK x \in Seq(Events) : meant = Decoder.log \o x
    BY <1>1, <1>2, LeadsLonger
  <1>4. Held \in Seq(Events)
    BY <1>2, LogIsSeq, ItemsAreEvents
  <1> DEFINE y == Held \o x
  <1>5. meant = told \o y /\ y \in Seq(Events)
    <2>1. Decoder.log = told \o Held
      BY DEF Decoder
    <2>2. Held \o x \in Seq(Events)
      BY <1>4, ConcatProperties
    <2>3. Cat(Cat(told, Held), x) = Cat(told, Cat(Held, x))
      BY <1>2, <1>4, CatAssoc DEF Str
    <2> QED
      BY <1>3, <2>1, <2>2, <2>3 DEF Cat
  <1> HIDE DEF y
  <1>6. Len(told) \in Nat /\ Len(y) \in Nat /\ Len(meant) = Len(told) + Len(y)
        /\ \A k \in 1..Len(told) : meant[k] = told[k]
    BY <1>2, <1>5, ConcatProperties, LenProperties
  <1> QED
    BY <1>2, <1>5, <1>6, ConcatProperties

LEMMA InvIsRoundTrip == ExInv => ToldAsMeant
  <1> SUFFICES ASSUME ExInv PROVE ToldAsMeant
    OBVIOUS
  <1>1. PICK e : Leads(Decoder, Ahead, e) /\ e.mode = "DATA" /\ e.log = meant
    BY DEF ExInv, LeadsToMeant
  <1>2. LogInv /\ Decoder \in Decoders /\ Ahead \in Seq(Bytes) /\ told \in Seq(Events)
    BY DecoderIs, AheadIs DEF ExInv, RecvInv, ReadInv
  <1>5. IsPrefix(told, meant)
    BY <1>2, ToldIsMeant, LenProperties DEF IsPrefix
  <1>6. ASSUME wire = <<>>, at # "parse" PROVE told = meant
    <2>1. buf = <<>> /\ Ahead = <<>>
      BY <1>6, AheadIs DEF ExInv, RecvInv, ReadInv
    <2>2. Held = <<>>
      BY <1>2, <2>1, NothingHeld
    <2>3. e = Decoder
      BY <1>1, <2>1, LeadsNone
    <2>4. meant = told \o <<>>
      BY <1>1, <2>2, <2>3 DEF Decoder
    <2> QED
      BY <1>2, <2>4, ConcatEmptySeq
  <1> QED
    BY <1>5, <1>6 DEF ToldAsMeant

LEMMA ParseLeads ==
    ASSUME ExInv, Parse, told' = told \o Heard(NewItems), UNCHANGED meant
    PROVE  told' \in Seq(Events) /\ LeadsToMeant' /\ DiscardsOldCompress'
  <1> DEFINE b == mem[i + 1]
  <1>1. RecvInv /\ LogInv /\ state # "EOL" /\ at = "parse" /\ i < Len(raw) /\ ReadByte(b)
        /\ UNCHANGED <<raw, wire, at>> /\ at' = "parse" /\ told \in Seq(Events)
    BY DEF ExInv, RecvInv, ReadInv, Parse
  <1>0. ~Skipping /\ ~WrapTold
    BY NeverSkipping
  <1>2. b \in Bytes /\ b = raw[i + 1]
    <2>1. i + 1 \in DOMAIN raw /\ ~(i + 1 <= i)
      BY <1>1, NoItemsAreShort, LenProperties DEF RecvInv, ReadInv
    <2>2. raw[i + 1] = mem[i + 1]
      BY <1>0, <1>1, <2>1 DEF RecvInv, UnreadIntact
    <2> QED
      BY <1>1, <2>2, NextByte
  <1>3. i \in Nat /\ i' = i + 1
    BY <1>1, <1>2, BufGrows, NoItemsAreShort DEF ReadByte, LogInv
  <1>4. RecvInv'
    <2>1. [RecvNext]_<<vars, reader, wire>>
      BY DEF RecvNext
    <2> QED
      BY <1>1, <2>1, RecvStep
  <1> HIDE DEF b
  <1>5. Decoder' = After(Decoder, b) /\ told' \in Seq(Events)
    BY <1>0, <1>1, <1>2, DecoderReads
  <1>6. PICK e : Leads(Decoder, Ahead, e) /\ e.mode = "DATA" /\ e.log = meant
    BY DEF ExInv, LeadsToMeant
  <1>7. Ahead \in Seq(Bytes) /\ Ahead' \in Seq(Bytes)
    <2>1. (RecvInv => Ahead \in Seq(Bytes))'
      BY AheadIs, PTL
    <2> QED
      BY <1>1, <1>4, <2>1, AheadIs
  <1>8. Len(Ahead) = Len(Ahead') + 1 /\ Ahead[1] = b /\ \A k \in 1..Len(Ahead') : Ahead[k + 1] = Ahead'[k]
    <2> DEFINE x == SubSeq(raw, i + 1, Len(raw))
               y == SubSeq(raw, (i + 1) + 1, Len(raw))
    <2>1. wire \in Seq(Bytes) /\ raw \in Seq(Bytes) /\ Len(raw) \in Nat
      BY <1>1, LenProperties DEF RecvInv, ReadInv
    <2>2. Ahead = x \o wire /\ Ahead' = y \o wire
      <3> DEFINE j == i
      <3>1. Ahead = SubSeq(raw, j + 1, Len(raw)) \o wire
        BY <1>1 DEF Ahead
      <3>2. Ahead' = SubSeq(raw, j' + 1, Len(raw)) \o wire
        BY <1>1 DEF Ahead
      <3>3. j' = j + 1
        BY <1>3
      <3> HIDE DEF j
      <3>4. Ahead' = SubSeq(raw, (j + 1) + 1, Len(raw)) \o wire
        BY <3>2, <3>3
      <3> USE DEF j
      <3> QED
        BY ONLY <3>1, <3>4
    <2>3. \A k \in 1..Len(raw) : raw[k] \in Bytes
      BY <2>1, ElementOfSeq
    <2>4. /\ x \in Seq(Bytes) /\ Len(x) = Len(raw) - i
          /\ \A k \in 1..Len(raw) - i : x[k] = raw[i + k]
      BY <1>1, <1>3, <2>1, <2>3, SubSeqProperties
    <2>5. /\ y \in Seq(Bytes) /\ Len(y) = Len(raw) - (i + 1)
          /\ \A k \in 1..Len(raw) - (i + 1) : y[k] = raw[(i + 1) + k]
      BY <1>1, <1>3, <2>1, <2>3, SubSeqProperties
    <2> DEFINE m == Len(raw) - i
               n == Len(wire)
    <2>6. m \in Nat /\ m > 0 /\ n \in Nat
      BY <1>1, <1>3, <2>1, LenProperties
    <2> HIDE DEF x, y
    <2>7. Len(Ahead) = m + n /\ \A k \in 1..m + n : Ahead[k] = IF k <= m THEN x[k] ELSE wire[k - m]
      BY <2>1, <2>2, <2>4, ConcatProperties
    <2> DEFINE z == Ahead'
    <2>8. Len(z) = (m - 1) + n
          /\ \A k \in 1..(m - 1) + n : z[k] = IF k <= m - 1 THEN y[k] ELSE wire[k - (m - 1)]
      <3>1. z = y \o wire
        BY <2>2
      <3> HIDE DEF z
      <3>2. /\ Len(z) = Len(y) + n
            /\ \A k \in 1..Len(y) + n : z[k] = IF k <= Len(y) THEN y[k] ELSE wire[k - Len(y)]
        BY <2>1, <2>5, <3>1, ConcatProperties
      <3>3. Len(y) = m - 1
        BY <1>1, <1>3, <2>1, <2>5
      <3> QED
        BY <3>2, <3>3
    <2>9. Ahead[1] = b
      <3>1. 1 \in 1..m + n /\ 1 <= m /\ 1 \in 1..Len(raw) - i
        BY <1>1, <1>3, <2>1, <2>6
      <3>2. Ahead[1] = x[1] /\ x[1] = raw[i + 1]
        BY <2>4, <2>7, <3>1
      <3> QED
        BY <1>2, <3>2
    <2>10. ASSUME NEW k \in 1..(m - 1) + n PROVE Ahead[k + 1] = Ahead'[k]
      <3>1. CASE k <= m - 1
        <4>1. k + 1 \in 1..m + n /\ k + 1 <= m /\ k + 1 \in 1..m /\ k \in 1..Len(raw) - (i + 1)
              /\ i + (k + 1) = (i + 1) + k
          BY <1>3, <2>1, <2>6, <3>1
        <4>2. Ahead[k + 1] = x[k + 1] /\ Ahead'[k] = y[k]
          BY <2>7, <2>8, <3>1, <4>1
        <4>3. x[k + 1] = raw[i + (k + 1)] /\ y[k] = raw[(i + 1) + k]
          BY <2>4, <2>5, <4>1
        <4> QED
          BY <4>1, <4>2, <4>3
      <3>2. CASE ~(k <= m - 1)
        <4>1. k + 1 \in 1..m + n /\ ~(k + 1 <= m) /\ (k + 1) - m = k - (m - 1)
          BY <1>3, <2>1, <2>6, <3>2
        <4> QED
          BY <2>7, <2>8, <3>2, <4>1
      <3> QED
        BY <3>1, <3>2
    <2> QED
      BY <2>6, <2>7, <2>8, <2>9, <2>10
  <1>9. Leads(After(Decoder, b), Ahead', e)
    BY <1>6, <1>7, <1>8, LeadsOn
  <1>10. DiscardsOldCompress'
    <2>1. PICK items : Tells(items)
      BY <1>1, <1>2, ByteTells
    <2>2. items \in Seq(Items) /\ Deliver(items) /\ (AllData(items) \/ NoData(items))
      BY <1>0, <2>1 DEF Tells, Fits
    <2> QED
      BY <1>1, <2>2, NoneWraps DEF ExInv
  <1> QED
    BY <1>5, <1>6, <1>9, <1>10 DEF LeadsToMeant

LEMMA FinishLeads ==
    ASSUME ExInv, Finish, told' = told \o Heard(NewItems), UNCHANGED meant
    PROVE  told' \in Seq(Events) /\ LeadsToMeant' /\ DiscardsOldCompress'
  <1>1. RecvInv /\ LogInv /\ at = "parse" /\ i = Len(raw) /\ EndCall /\ at' # "parse" /\ UNCHANGED wire
        /\ told \in Seq(Events)
    BY DEF ExInv, RecvInv, Finish
  <1>2. RecvInv' /\ LogInv'
    <2>1. [RecvNext]_<<vars, reader, wire>>
      BY DEF RecvNext
    <2> QED
      BY <1>1, <2>1, RecvStep DEF RecvInv
  <1>3. Ahead = wire /\ Ahead' = wire
    <2>1. (RecvInv => (at # "parse" => Ahead = wire))'
      BY AheadIs, PTL
    <2> QED
      BY <1>1, <1>2, <2>1, AheadIs
  <1>0. ~Skipping /\ Passed = Held
    BY NeverSkipping
  <1>4. Held \in Seq(Items) /\ AllData(Held) /\ Deliver(Held)
    BY <1>0, <1>1, LogIsSeq, HeldIsShort DEF EndCall
  <1>5. NewItems = Held /\ Heard(Held) = Held
    BY <1>1, <1>4, NewAre, HeardData
  <1>6. Held' = <<>> /\ Mode' = state'
    <2>1. (LogInv => (buf = <<>> => Held = <<>> /\ Mode = state))'
      BY NothingHeld, PTL
    <2> QED
      BY <1>1, <1>2, <2>1 DEF EndCall
  <1>7. Mode = state /\ UNCHANGED <<state, sb_telopt, sub>>
    BY <1>0, <1>1 DEF EndCall, Mode
  <1>8. told' = told \o Held /\ told' \in Seq(Events)
    BY <1>1, <1>4, <1>5, ItemsAreEvents, ConcatProperties
  <1>9. Decoder' = Decoder
    BY <1>6, <1>7, <1>8, ConcatEmptySeq DEF Decoder
  <1>10. DiscardsOldCompress'
    BY <1>1, <1>4, NoneWraps DEF ExInv
  <1> QED
    BY <1>3, <1>8, <1>9, <1>10 DEF ExInv, LeadsToMeant

LEMMA OtherLeads ==
    ASSUME ExInv, Enter \/ Receive \/ WouldBlock, UNCHANGED <<told, meant>>
    PROVE  LeadsToMeant' /\ DiscardsOldCompress'
  <1>1. RecvInv /\ LogInv /\ at # "parse" /\ UNCHANGED vars
    BY DEF ExInv, RecvInv, Enter, Receive, WouldBlock
  <1>2. RecvInv'
    <2>1. [RecvNext]_<<vars, reader, wire>>
      BY DEF RecvNext
    <2> QED
      BY <1>1, <2>1, RecvStep
  <1>3. Decoder' = Decoder /\ DiscardsOldCompress'
    BY <1>1 DEF ExInv, DiscardsOldCompress, vars, Decoder, Mode, Skipping, Held, Run, i
  <1>4. Ahead = wire
    BY <1>1, AheadIs
  <1>5. Ahead' = wire
    <2>1. CASE Receive
      <3>1. PICK k \in 1..BufSize :
              /\ k <= Len(wire)
              /\ raw' = SubSeq(wire, 1, k) /\ wire' = SubSeq(wire, k + 1, Len(wire))
        BY <2>1 DEF Receive
      <3>2. buf = <<>> /\ wire \in Seq(Bytes) /\ BufSize \in Nat
        BY <1>1, FlagsAssumption DEF RecvInv, ReadInv, BufSize
      <3>3. Len(wire) \in Nat /\ k \in 1..Len(wire) /\ 1 \in 1..Len(wire) + 1
            /\ k \in 1 - 1..Len(wire) /\ Len(wire) \in k..Len(wire)
        BY <3>1, <3>2, LenProperties
      <3>4. wire = SubSeq(wire, 1, k) \o SubSeq(wire, k + 1, Len(wire))
        BY <3>2, <3>3, ConcatAdjacentSubSeq, SubSeqFull
      <3>5. raw' \in Seq(Bytes) /\ SubSeq(raw', 1, Len(raw')) = raw'
        BY <3>1, <3>2, <3>3, PrefixIs, SubSeqFull
      <3>6. i' = 0 /\ at' = "parse"
        BY <1>1, <2>1, <3>2, EmptySeq DEF vars, i, Receive
      <3>7. Ahead' = SubSeq(raw', 1, Len(raw')) \o wire'
        BY <3>6 DEF Ahead
      <3> QED
        BY <3>1, <3>4, <3>5, <3>7
    <2>2. CASE Enter \/ WouldBlock
      <3>1. at' # "parse" /\ wire' = wire
        BY <2>2 DEF Enter, WouldBlock
      <3>2. (RecvInv => (at # "parse" => Ahead = wire))'
        BY AheadIs, PTL
      <3> QED
        BY <1>2, <3>1, <3>2
    <2> QED
      BY <2>1, <2>2
  <1> QED
    BY <1>3, <1>4, <1>5 DEF ExInv, LeadsToMeant

LEMMA ExStep ==
    ASSUME ExInv, [ExchangeNext]_exchange
    PROVE  ExInv'
  <1>1. [RecvNext]_<<vars, reader, wire>>
    BY DEF ExchangeNext, RecvNext, exchange
  <1>2. RecvInv'
    BY <1>1, RecvStep DEF ExInv
  <1>3. CASE UNCHANGED exchange
    <2>1. UNCHANGED <<vars, reader, wire, meant, told>>
      BY <1>3 DEF exchange
    <2>2. Decoder' = Decoder /\ Ahead' = Ahead
      BY <2>1 DEF vars, reader, Decoder, Mode, Skipping, Held, Run, i, Ahead
    <2> QED
      BY <1>2, <2>1, <2>2 DEF ExInv, LeadsToMeant, DiscardsOldCompress, vars
  <1>4. CASE ExchangeNext
    BY <1>2, <1>4, ParseLeads, FinishLeads, OtherLeads DEF ExchangeNext, ExInv
  <1> QED
    BY <1>3, <1>4

-----------------------------------------------------------------------------
(* The turns of the decoder that the senders rely on.                      *)
LEMMA AfterLog ==
    ASSUME NEW d \in Decoders, NEW b \in Bytes
    PROVE  /\ After(d, b) \in Decoders /\ After(d, b).mode = Turns(d, b)
           /\ After(d, b).opt = (IF d.mode = "SB" THEN b ELSE d.opt)
           /\ After(d, b).sub = (IF d.mode = "SB" THEN <<>>
                                 ELSE IF Stores(d, b) /\ Len(d.sub) # Limit THEN Append(d.sub, b) ELSE d.sub)
           /\ Says(d, b) = <<>> => After(d, b).log = d.log
           /\ \A item \in Items : Says(d, b) = <<item>> => After(d, b).log = Cat(d.log, Hears(item))
  <1>1. d.log \in Seq(Events) /\ After(d, b).log = d.log \o Heard(Says(d, b))
    BY DEF Decoders, After
  <1>2. Says(d, b) = <<>> => After(d, b).log = d.log
    BY <1>1, HeardNone, ConcatEmptySeq
  <1>3. \A item \in Items : Says(d, b) = <<item>> => After(d, b).log = Cat(d.log, Hears(item))
    BY <1>1, HeardOne DEF Cat
  <1> QED
    BY <1>2, <1>3, AfterIs DEF After

LEMMA AfterData ==
    ASSUME NEW d \in Decoders, d.mode = "DATA", NEW b \in Bytes
    PROVE  /\ b = "IAC" => After(d, b).mode = "IAC" /\ After(d, b).log = d.log
           /\ b # "IAC" => After(d, b).mode = "DATA" /\ After(d, b).log = Cat(d.log, <<Data(b)>>)
  <1>1. ~Stores(d, b) /\ "DATA" \notin Verbs
    BY DEF Stores, Verbs
  <1>2. CASE b = "IAC"
    <2>1. Says(d, b) = <<>> /\ Turns(d, b) = "IAC"
      BY <1>1, <1>2 DEF Says, Turns
    <2> QED
      BY <1>2, <2>1, AfterLog
  <1>3. CASE b # "IAC"
    <2>1. Says(d, b) = <<Data(b)>> /\ Turns(d, b) = "DATA"
      BY <1>1, <1>3 DEF Says, Turns
    <2>2. Data(b) \in Items /\ Hears(Data(b)) = <<Data(b)>>
      BY DEF Items, Hears, Data
    <2> QED
      BY <1>3, <2>1, <2>2, AfterLog
  <1> QED
    BY <1>2, <1>3

LEMMA AfterIac ==
    ASSUME NEW d \in Decoders, d.mode = "IAC", NEW b \in Bytes
    PROVE  After(d, b).mode = Follows(b) /\ After(d, b).log = Cat(d.log, Told(b))
  <1>1. ~Stores(d, b) /\ "IAC" \notin Verbs
    BY DEF Stores, Verbs
  <1>2. Says(d, b) = Told(b) /\ Turns(d, b) = Follows(b)
    BY <1>1 DEF Says, Turns
  <1>3. Data("IAC") \in Items /\ Hears(Data("IAC")) = <<Data("IAC")>>
    BY BytesAssumption DEF Items, Hears, Data
  <1>4. Iac(b) \in Items /\ Hears(Iac(b)) = <<Iac(b)>>
    BY DEF Items, Hears, Iac
  <1>5. Told(b) \in {<<>>, <<Data("IAC")>>, <<Iac(b)>>}
    BY DEF Told
  <1>6. Cat(d.log, <<>>) = d.log
    BY ConcatEmptySeq DEF Decoders, Cat
  <1> QED
    BY <1>2, <1>3, <1>4, <1>5, <1>6, AfterLog

LEMMA AfterVerb ==
    ASSUME NEW d \in Decoders, d.mode \in Verbs, NEW b \in Bytes
    PROVE  After(d, b).mode = "DATA" /\ After(d, b).log = Cat(d.log, <<Neg(d.mode, b)>>)
  <1>1. ~Stores(d, b) /\ d.mode \notin {"DATA", "IAC", "SB", "SB_DATA", "SB_DATA_IAC", "SKIP"}
    BY DEF Stores, Verbs
  <1>2. Says(d, b) = <<Neg(d.mode, b)>> /\ Turns(d, b) = "DATA"
    BY <1>1 DEF Says, Turns
  <1>3. Neg(d.mode, b) \in Items /\ Hears(Neg(d.mode, b)) = <<Neg(d.mode, b)>>
    BY DEF Items, Hears, Neg
  <1> QED
    BY <1>2, <1>3, AfterLog

LEMMA AfterSb ==
    ASSUME NEW d \in Decoders, d.mode = "SB", NEW b \in Bytes
    PROVE  /\ After(d, b).mode = "SB_DATA" /\ After(d, b).opt = b
           /\ After(d, b).sub = <<>> /\ After(d, b).log = d.log
  <1>1. ~Stores(d, b) /\ "SB" \notin Verbs
    BY DEF Stores, Verbs
  <1>2. Says(d, b) = <<>> /\ Turns(d, b) = "SB_DATA"
    BY <1>1 DEF Says, Turns
  <1> QED
    BY <1>2, AfterLog

LEMMA AfterSbData ==
    ASSUME NEW d \in Decoders, d.mode = "SB_DATA", d.opt # "COMPRESS", NEW b \in Bytes
    PROVE  /\ (After(d, b).opt = d.opt /\ After(d, b).log = d.log) \/ Len(d.sub) = Limit
           /\ b = "IAC" => After(d, b).mode = "SB_DATA_IAC" /\ After(d, b).sub = d.sub
                           /\ After(d, b).opt = d.opt /\ After(d, b).log = d.log
           /\ b # "IAC" /\ Len(d.sub) # Limit =>
                  After(d, b).mode = "SB_DATA" /\ After(d, b).sub = Append(d.sub, b)
  <1>1. (Stores(d, b) <=> b # "IAC") /\ "SB_DATA" \notin Verbs
    BY DEF Stores, Verbs
  <1>2. CASE b = "IAC"
    <2>1. Says(d, b) = <<>> /\ Turns(d, b) = "SB_DATA_IAC"
      BY <1>1, <1>2 DEF Says, Turns
    <2> QED
      BY <1>1, <1>2, <2>1, AfterLog
  <1>3. CASE b # "IAC" /\ Len(d.sub) # Limit
    <2>1. Says(d, b) = <<>> /\ Turns(d, b) = "SB_DATA"
      BY <1>1, <1>3 DEF Says, Turns
    <2> QED
      BY <1>1, <1>3, <2>1, AfterLog
  <1> QED
    BY <1>2, <1>3

LEMMA AfterSbDataIac ==
    ASSUME NEW d \in Decoders, d.mode = "SB_DATA_IAC", NEW b \in Bytes
    PROVE  /\ b = "IAC" /\ Len(d.sub) # Limit =>
                  /\ After(d, b).mode = "SB_DATA" /\ After(d, b).sub = Append(d.sub, b)
                  /\ After(d, b).opt = d.opt /\ After(d, b).log = d.log
           /\ b = "SE" => /\ After(d, b).mode = "DATA"
                          /\ After(d, b).log = Cat(d.log, subnegotiate(d.opt, d.sub))
  <1>1. (Stores(d, b) <=> b = "IAC") /\ "SB_DATA_IAC" \notin Verbs
    BY DEF Stores, Verbs
  <1>2. CASE b = "IAC" /\ Len(d.sub) # Limit
    <2>1. Says(d, b) = <<>> /\ Turns(d, b) = "SB_DATA"
      BY <1>1, <1>2 DEF Says, Turns
    <2> QED
      BY <1>1, <1>2, <2>1, AfterLog
  <1>3. CASE b = "SE"
    <2>1. Says(d, b) = <<Sub(d.opt, d.sub)>> /\ Turns(d, b) = "DATA"
      BY <1>1, <1>3 DEF Says, Turns
    <2>2. Sub(d.opt, d.sub) \in Items /\ Hears(Sub(d.opt, d.sub)) = subnegotiate(d.opt, d.sub)
      BY DEF Items, Hears, Sub, Decoders
    <2> QED
      BY <1>3, <2>1, <2>2, AfterLog
  <1> QED
    BY <1>2, <1>3

-----------------------------------------------------------------------------
(* Between two commands, the bytes w tell x and nothing else.              *)
Yields(w, x) ==
    /\ w \in Seq(Bytes) /\ x \in Seq(Events)
    /\ \A d \in Decoders :
           d.mode = "DATA" => \E e : Leads(d, w, e) /\ e.mode = "DATA" /\ e.log = Cat(d.log, x)

LEMMA YieldsNone == Yields(<<>>, <<>>)
  <1>1. <<>> \in Seq(Bytes) /\ <<>> \in Seq(Events)
    BY EmptySeq
  <1>2. \A d \in Decoders : Leads(d, <<>>, d) /\ d.log = Cat(d.log, <<>>)
    BY LeadsNone, ConcatEmptySeq DEF Decoders, Cat
  <1> QED
    BY <1>1, <1>2 DEF Yields

LEMMA YieldsConcat ==
    ASSUME NEW v, NEW w, NEW x, NEW y, Yields(v, x), Yields(w, y)
    PROVE  Yields(v \o w, x \o y)
  <1>1. v \in Seq(Bytes) /\ w \in Seq(Bytes) /\ x \in Seq(Events) /\ y \in Seq(Events)
    BY DEF Yields
  <1>2. v \o w \in Seq(Bytes) /\ x \o y \in Seq(Events)
    BY <1>1, ConcatProperties
  <1>3. ASSUME NEW d \in Decoders, d.mode = "DATA"
        PROVE  \E e : Leads(d, v \o w, e) /\ e.mode = "DATA" /\ e.log = Cat(d.log, x \o y)
    <2>1. PICK e : Leads(d, v, e) /\ e.mode = "DATA" /\ e.log = Cat(d.log, x)
      BY <1>3 DEF Yields
    <2>2. e \in Decoders
      BY <1>1, <2>1, LeadsLonger
    <2>3. PICK f : Leads(e, w, f) /\ f.mode = "DATA" /\ f.log = Cat(e.log, y)
      BY <2>1, <2>2 DEF Yields
    <2>4. Leads(d, v \o w, f)
      BY <1>1, <2>1, <2>3, LeadsConcat
    <2>5. d.log \in Str(Events) /\ x \in Str(Events) /\ y \in Str(Events)
      BY <1>1 DEF Decoders, Str
    <2>6. f.log = Cat(d.log, Cat(x, y))
      BY <2>1, <2>3, <2>5, CatAssoc
    <2>7. Cat(x, y) = x \o y
      BY DEF Cat
    <2> QED
      BY <2>3, <2>4, <2>6, <2>7
  <1> QED
    BY <1>2, <1>3 DEF Yields

LEMMA YieldsFlatten ==
    ASSUME NEW ws \in Lists(Bytes), NEW xs \in Lists(Events), NEW n \in Nat,
           n = Len(ws), n = Len(xs), \A k \in 1..n : Yields(ws[k], xs[k])
    PROVE  Yields(FlattenSeq(ws), FlattenSeq(xs))
  <1> DEFINE Z == {p \in Seq(Bytes) \X Seq(Events) : Yields(p[1], p[2])}
  <1>1. <<<<>>, <<>>>> \in Z
    BY YieldsNone, EmptySeq
  <1>2. \A k \in 1..n : \A w \in Seq(Bytes), x \in Seq(Events) :
            <<w, x>> \in Z => <<w \o ws[k], x \o xs[k]>> \in Z
    <2>1. ASSUME NEW k \in 1..n, NEW w \in Seq(Bytes), NEW x \in Seq(Events), Yields(w, x)
          PROVE  Yields(w \o ws[k], x \o xs[k])
      BY <2>1, YieldsConcat
    <2>2. \A u, y : Yields(u, y) => u \in Seq(Bytes) /\ y \in Seq(Events)
      BY DEF Yields
    <2> QED
      BY <2>1, <2>2
  <1>3. <<FlattenSeq(ws), FlattenSeq(xs)>> \in Z
    <2> HIDE DEF Z
    <2> QED
      BY <1>1, <1>2, FlattenPairs
  <1> QED
    BY <1>3

LEMMA LeadsTwo ==
    ASSUME NEW d, NEW a \in Bytes, NEW b \in Bytes
    PROVE  Leads(d, <<a, b>>, After(After(d, a), b)) /\ <<a, b>> \in Seq(Bytes)
  <1> DEFINE w == <<a, b>>
             t == [k \in 0..2 |-> CASE k = 0 -> d [] k = 1 -> After(d, a)
                                    [] k = 2 -> After(After(d, a), b)]
  <1>1. w \in Seq(Bytes) /\ Len(w) = 2 /\ w[1] = a /\ w[2] = b
    OBVIOUS
  <1>2. t[0] = d /\ t[1] = After(d, a) /\ t[2] = After(After(d, a), b)
    OBVIOUS
  <1> HIDE DEF w, t
  <1>3. \A k \in 1..2 : t[k] = After(t[k - 1], w[k])
    <2>1. \A k \in 1..2 : k = 1 \/ k = 2
      OBVIOUS
    <2>2. t[1] = After(t[1 - 1], w[1]) /\ t[2] = After(t[2 - 1], w[2])
      BY <1>1, <1>2
    <2> QED
      BY <2>1, <2>2
  <1>4. Leads(d, w, t[2])
    BY <1>1, <1>2, <1>3 DEF Leads, Trace
  <1> QED
    BY <1>1, <1>2, <1>4 DEF w

LEMMA LeadsThree ==
    ASSUME NEW d, NEW a \in Bytes, NEW b \in Bytes, NEW c \in Bytes
    PROVE  Leads(d, <<a, b, c>>, After(After(After(d, a), b), c)) /\ <<a, b, c>> \in Seq(Bytes)
  <1> DEFINE w == <<a, b, c>>
             t == [k \in 0..3 |-> CASE k = 0 -> d [] k = 1 -> After(d, a)
                                    [] k = 2 -> After(After(d, a), b)
                                    [] k = 3 -> After(After(After(d, a), b), c)]
  <1>1. w \in Seq(Bytes) /\ Len(w) = 3 /\ w[1] = a /\ w[2] = b /\ w[3] = c
    OBVIOUS
  <1>2. t[0] = d /\ t[1] = After(d, a) /\ t[2] = After(After(d, a), b)
        /\ t[3] = After(After(After(d, a), b), c)
    OBVIOUS
  <1> HIDE DEF w, t
  <1>3. \A k \in 1..3 : t[k] = After(t[k - 1], w[k])
    <2>1. \A k \in 1..3 : k = 1 \/ k = 2 \/ k = 3
      OBVIOUS
    <2>2. t[1] = After(t[1 - 1], w[1]) /\ t[2] = After(t[2 - 1], w[2]) /\ t[3] = After(t[3 - 1], w[3])
      BY <1>1, <1>2
    <2> QED
      BY <2>1, <2>2
  <1>4. Leads(d, w, t[3])
    BY <1>1, <1>2, <1>3 DEF Leads, Trace
  <1> QED
    BY <1>1, <1>2, <1>4 DEF w

LEMMA YieldsData ==
    ASSUME NEW b \in Bytes
    PROVE  Yields(IF b = "IAC" THEN <<"IAC", "IAC">> ELSE <<b>>, <<Data(b)>>)
  <1>1. Data(b) \in Events /\ <<Data(b)>> \in Seq(Events) /\ <<b>> \in Seq(Bytes)
        /\ <<"IAC", "IAC">> \in Seq(Bytes) /\ "IAC" \in Bytes
    BY BytesAssumption DEF Events, Items
  <1>2. ASSUME b # "IAC", NEW d \in Decoders, d.mode = "DATA"
        PROVE  Leads(d, <<b>>, After(d, b)) /\ After(d, b).mode = "DATA"
               /\ After(d, b).log = Cat(d.log, <<Data(b)>>)
    BY <1>2, LeadsOne, AfterData
  <1>3. ASSUME b = "IAC", NEW d \in Decoders, d.mode = "DATA"
        PROVE  LET e == After(After(d, "IAC"), "IAC")
               IN  Leads(d, <<"IAC", "IAC">>, e) /\ e.mode = "DATA" /\ e.log = Cat(d.log, <<Data(b)>>)
    <2> DEFINE e == After(d, "IAC")
    <2>1. e.mode = "IAC" /\ e.log = d.log /\ e \in Decoders
      BY <1>1, <1>3, AfterData, AfterIs
    <2>2. After(e, "IAC").mode = "DATA" /\ After(e, "IAC").log = Cat(d.log, <<Data(b)>>)
      <3>1. Told("IAC") = <<Data(b)>> /\ Follows("IAC") = "DATA"
        BY <1>3 DEF Told, Follows, Verbs
      <3> HIDE DEF e
      <3> QED
        BY <1>1, <2>1, <3>1, AfterIac
    <2> QED
      BY <1>1, <2>2, LeadsTwo
  <1> QED
    BY <1>1, <1>2, <1>3 DEF Yields

LEMMA YieldsIac ==
    ASSUME NEW b \in Bytes \ (Verbs \cup {"SB", "IAC"})
    PROVE  Yields(<<"IAC", b>>, <<Iac(b)>>)
  <1>1. Iac(b) \in Events /\ <<Iac(b)>> \in Seq(Events) /\ <<"IAC", b>> \in Seq(Bytes) /\ "IAC" \in Bytes
    BY BytesAssumption DEF Events, Items
  <1>2. ASSUME NEW d \in Decoders, d.mode = "DATA"
        PROVE  LET e == After(After(d, "IAC"), b)
               IN  Leads(d, <<"IAC", b>>, e) /\ e.mode = "DATA" /\ e.log = Cat(d.log, <<Iac(b)>>)
    <2> DEFINE e == After(d, "IAC")
    <2>1. e.mode = "IAC" /\ e.log = d.log /\ e \in Decoders
      BY <1>1, <1>2, AfterData, AfterIs
    <2>2. After(e, b).mode = "DATA" /\ After(e, b).log = Cat(d.log, <<Iac(b)>>)
      <3>1. Told(b) = <<Iac(b)>> /\ Follows(b) = "DATA"
        BY DEF Told, Follows
      <3> HIDE DEF e
      <3> QED
        BY <1>1, <2>1, <3>1, AfterIac
    <2> QED
      BY <1>1, <2>2, LeadsTwo
  <1> QED
    BY <1>1, <1>2 DEF Yields

LEMMA YieldsNeg ==
    ASSUME NEW v \in Verbs \cap Bytes, NEW o \in Bytes
    PROVE  Yields(<<"IAC", v, o>>, <<Neg(v, o)>>)
  <1>1. Neg(v, o) \in Events /\ <<Neg(v, o)>> \in Seq(Events) /\ <<"IAC", v, o>> \in Seq(Bytes) /\ "IAC" \in Bytes
    BY BytesAssumption DEF Events, Items
  <1>2. ASSUME NEW d \in Decoders, d.mode = "DATA"
        PROVE  LET e == After(After(After(d, "IAC"), v), o)
               IN  Leads(d, <<"IAC", v, o>>, e) /\ e.mode = "DATA" /\ e.log = Cat(d.log, <<Neg(v, o)>>)
    <2> DEFINE e == After(d, "IAC")
               f == After(e, v)
    <2>1. e.mode = "IAC" /\ e.log = d.log /\ e \in Decoders
      BY <1>1, <1>2, AfterData, AfterIs
    <2>2. f.mode = v /\ f.log = d.log /\ f \in Decoders
      <3>1. Told(v) = <<>> /\ Follows(v) = v
        BY DEF Told, Follows, Verbs
      <3>2. Cat(d.log, <<>>) = d.log
        BY ConcatEmptySeq DEF Decoders, Cat
      <3> HIDE DEF e
      <3> QED
        BY <1>1, <2>1, <3>1, <3>2, AfterIac, AfterIs
    <2>3. After(f, o).mode = "DATA" /\ After(f, o).log = Cat(d.log, <<Neg(v, o)>>)
      <3> HIDE DEF f
      <3> QED
        BY <1>1, <2>2, AfterVerb
    <2> QED
      BY <1>1, <2>3, LeadsThree
  <1> QED
    BY <1>1, <1>2 DEF Yields

-----------------------------------------------------------------------------
LEMMA LimitIsNat == Limit \in Nat
  <1>1. Len(Sizes) \in Nat /\ Len(Sizes) # 0
    BY SizesAssumption, LenProperties, EmptySeq
  <1> QED
    BY <1>1, SizesAssumption, ElementOfSeq DEF Limit

(* Inside a subnegotiation, the bytes w add p to what was received of it.  *)
Carries(w, p) ==
    /\ w \in Seq(Bytes) /\ p \in Seq(Bytes)
    /\ \A d \in Decoders :
           d.mode = "SB_DATA" /\ d.opt # "COMPRESS" /\ Len(d.sub) + Len(p) <= Limit =>
               \E e : /\ Leads(d, w, e) /\ e.mode = "SB_DATA" /\ e.opt = d.opt
                      /\ e.sub = Cat(d.sub, p) /\ e.log = d.log

LEMMA CarriesNone == Carries(<<>>, <<>>)
  <1>1. <<>> \in Seq(Bytes)
    BY EmptySeq
  <1>2. \A d \in Decoders : Leads(d, <<>>, d) /\ d.sub = Cat(d.sub, <<>>)
    BY LeadsNone, ConcatEmptySeq DEF Decoders, Cat
  <1> QED
    BY <1>1, <1>2 DEF Carries

LEMMA CarriesConcat ==
    ASSUME NEW v, NEW w, NEW p, NEW q, Carries(v, p), Carries(w, q)
    PROVE  Carries(v \o w, p \o q)
  <1>1. v \in Seq(Bytes) /\ w \in Seq(Bytes) /\ p \in Seq(Bytes) /\ q \in Seq(Bytes)
    BY DEF Carries
  <1> DEFINE pq == p \o q
  <1>2. v \o w \in Seq(Bytes) /\ pq \in Seq(Bytes)
    BY <1>1, ConcatProperties
  <1>5. Len(pq) = Len(p) + Len(q) /\ Len(p) \in Nat /\ Len(q) \in Nat
    BY <1>1, ConcatProperties, LenProperties
  <1>3. Cat(p, q) = pq
    BY DEF Cat
  <1> HIDE DEF pq
  <1>6. \A a, b, c, l \in Nat : a + (b + c) <= l => a + b <= l /\ (a + b) + c <= l
    OBVIOUS
  <1>4. ASSUME NEW d \in Decoders, d.mode = "SB_DATA", d.opt # "COMPRESS", Len(d.sub) + Len(pq) <= Limit
        PROVE  \E e : /\ Leads(d, v \o w, e) /\ e.mode = "SB_DATA" /\ e.opt = d.opt
                      /\ e.sub = Cat(d.sub, pq) /\ e.log = d.log
    <2>1. d.sub \in Str(Bytes) /\ p \in Str(Bytes) /\ q \in Str(Bytes) /\ Len(d.sub) \in Nat
      BY <1>1, LenProperties DEF Decoders, Str
    <2>2. Len(d.sub) + Len(p) <= Limit
      BY <1>4, <1>5, <1>6, <2>1, LimitIsNat
    <2>3. PICK e : /\ Leads(d, v, e) /\ e.mode = "SB_DATA" /\ e.opt = d.opt
                   /\ e.sub = Cat(d.sub, p) /\ e.log = d.log
      BY <1>4, <2>2 DEF Carries
    <2>4. e \in Decoders
      BY <1>1, <2>3, LeadsLonger
    <2>5. Len(e.sub) = Len(d.sub) + Len(p)
      <3>1. e.sub = d.sub \o p /\ d.sub \in Seq(Bytes)
        BY <2>1, <2>3 DEF Cat, Str
      <3> QED
        BY <1>1, <3>1, ConcatProperties
    <2>6. Len(e.sub) + Len(q) <= Limit
      BY <1>4, <1>5, <1>6, <2>1, <2>5, LimitIsNat
    <2>7. PICK f : /\ Leads(e, w, f) /\ f.mode = "SB_DATA" /\ f.opt = e.opt
                   /\ f.sub = Cat(e.sub, q) /\ f.log = e.log
      BY <1>4, <2>3, <2>4, <2>6 DEF Carries
    <2>8. Leads(d, v \o w, f)
      BY <1>1, <2>3, <2>7, LeadsConcat
    <2>9. f.sub = Cat(d.sub, Cat(p, q))
      BY <2>1, <2>3, <2>7, CatAssoc
    <2> QED
      BY <1>3, <2>3, <2>7, <2>8, <2>9
  <1> QED
    BY <1>2, <1>4 DEF Carries, pq

LEMMA CarriesFlatten ==
    ASSUME NEW ws \in Lists(Bytes), NEW ps \in Lists(Bytes), NEW n \in Nat,
           n = Len(ws), n = Len(ps), \A k \in 1..n : Carries(ws[k], ps[k])
    PROVE  Carries(FlattenSeq(ws), FlattenSeq(ps))
  <1> DEFINE Z == {z \in Seq(Bytes) \X Seq(Bytes) : Carries(z[1], z[2])}
  <1>1. <<<<>>, <<>>>> \in Z
    BY CarriesNone, EmptySeq
  <1>2. \A k \in 1..n : \A w \in Seq(Bytes), p \in Seq(Bytes) :
            <<w, p>> \in Z => <<w \o ws[k], p \o ps[k]>> \in Z
    <2>1. ASSUME NEW k \in 1..n, NEW w \in Seq(Bytes), NEW p \in Seq(Bytes), Carries(w, p)
          PROVE  Carries(w \o ws[k], p \o ps[k])
      BY <2>1, CarriesConcat
    <2>2. \A u, p : Carries(u, p) => u \in Seq(Bytes) /\ p \in Seq(Bytes)
      BY DEF Carries
    <2> QED
      BY <2>1, <2>2
  <1>3. <<FlattenSeq(ws), FlattenSeq(ps)>> \in Z
    <2> HIDE DEF Z
    <2> QED
      BY <1>1, <1>2, FlattenPairs
  <1> QED
    BY <1>3

LEMMA CarriesByte ==
    ASSUME NEW b \in Bytes
    PROVE  Carries(IF b = "IAC" THEN <<"IAC", "IAC">> ELSE <<b>>, <<b>>)
  <1>1. <<b>> \in Seq(Bytes) /\ <<"IAC", "IAC">> \in Seq(Bytes) /\ "IAC" \in Bytes /\ Len(<<b>>) = 1
    BY BytesAssumption
  <1>2. ASSUME NEW d \in Decoders, Len(d.sub) + Len(<<b>>) <= Limit
        PROVE  Len(d.sub) # Limit /\ Append(d.sub, b) = Cat(d.sub, <<b>>)
    <2>1. d.sub \in Seq(Bytes) /\ Len(d.sub) \in Nat
      BY LenProperties DEF Decoders
    <2>2. Append(d.sub, b) = d.sub \o <<b>>
      BY <2>1, AppendIsConcat
    <2>3. Len(d.sub) # Limit
      BY <1>1, <1>2, <2>1, LimitIsNat
    <2> QED
      BY <2>2, <2>3 DEF Cat
  <1>3. ASSUME b # "IAC", NEW d \in Decoders, d.mode = "SB_DATA", d.opt # "COMPRESS",
               Len(d.sub) + Len(<<b>>) <= Limit
        PROVE  LET e == After(d, b)
               IN  /\ Leads(d, <<b>>, e) /\ e.mode = "SB_DATA" /\ e.opt = d.opt
                   /\ e.sub = Cat(d.sub, <<b>>) /\ e.log = d.log
    BY <1>2, <1>3, LeadsOne, AfterSbData
  <1>4. ASSUME b = "IAC", NEW d \in Decoders, d.mode = "SB_DATA", d.opt # "COMPRESS",
               Len(d.sub) + Len(<<b>>) <= Limit
        PROVE  LET e == After(After(d, "IAC"), "IAC")
               IN  /\ Leads(d, <<"IAC", "IAC">>, e) /\ e.mode = "SB_DATA" /\ e.opt = d.opt
                   /\ e.sub = Cat(d.sub, <<b>>) /\ e.log = d.log
    <2> DEFINE e == After(d, "IAC")
    <2>1. e.mode = "SB_DATA_IAC" /\ e.log = d.log /\ e.opt = d.opt /\ e.sub = d.sub /\ e \in Decoders
      BY <1>1, <1>4, AfterSbData, AfterIs
    <2>2. /\ After(e, "IAC").mode = "SB_DATA" /\ After(e, "IAC").opt = d.opt
          /\ After(e, "IAC").sub = Cat(d.sub, <<b>>) /\ After(e, "IAC").log = d.log
      <3> HIDE DEF e
      <3>1. Len(e.sub) # Limit /\ Append(e.sub, "IAC") = Cat(d.sub, <<b>>)
        BY <1>2, <1>4, <2>1
      <3> QED
        BY <1>1, <2>1, <3>1, AfterSbDataIac
    <2> QED
      BY <1>1, <2>2, LeadsTwo
  <1> QED
    BY <1>1, <1>3, <1>4 DEF Carries

(* A whole subnegotiation. *)
LEMMA YieldsSub ==
    ASSUME NEW o \in Bytes \ {"COMPRESS"}, NEW w, NEW p, Carries(w, p), Len(p) <= Limit
    PROVE  Yields(Cat(Cat(<<"IAC", "SB", o>>, w), <<"IAC", "SE">>), subnegotiate(o, p))
  <1>1. {"IAC", "SB", "SE"} \subseteq Bytes /\ w \in Seq(Bytes) /\ p \in Seq(Bytes)
    BY BytesAssumption DEF Carries
  <1> DEFINE u == <<"IAC", "SB", o>>
             v == <<"IAC", "SE">>
  <1>2. u \in Seq(Bytes) /\ v \in Seq(Bytes)
    BY <1>1
  <1>3. \A d : Leads(d, u, After(After(After(d, "IAC"), "SB"), o)) /\ Leads(d, v, After(After(d, "IAC"), "SE"))
    BY <1>1, LeadsTwo, LeadsThree
  <1> HIDE DEF u, v
  <1>4. Cat(Cat(u, w), v) \in Seq(Bytes) /\ Cat(u, w) \in Seq(Bytes)
    BY <1>1, <1>2, CatIn DEF Str
  <1>5. subnegotiate(o, p) \in Seq(Events)
    BY <1>1, SubEvents
  <1>6. ASSUME NEW d \in Decoders, d.mode = "DATA"
        PROVE  \E e : /\ Leads(d, Cat(Cat(u, w), v), e)
                      /\ e.mode = "DATA" /\ e.log = Cat(d.log, subnegotiate(o, p))
    <2> DEFINE e1 == After(d, "IAC")
               e2 == After(e1, "SB")
               e3 == After(e2, o)
    <2>1. e1.mode = "IAC" /\ e1.log = d.log /\ e1 \in Decoders
      BY <1>1, <1>6, AfterData, AfterIs
    <2> HIDE DEF e1
    <2>2. e2.mode = "SB" /\ e2.log = d.log /\ e2 \in Decoders
      <3>1. Told("SB") = <<>> /\ Follows("SB") = "SB"
        BY DEF Told, Follows, Verbs
      <3>2. Cat(d.log, <<>>) = d.log
        BY ConcatEmptySeq DEF Decoders, Cat
      <3> QED
        BY <1>1, <2>1, <3>1, <3>2, AfterIac, AfterIs
    <2> HIDE DEF e2
    <2>3. e3.mode = "SB_DATA" /\ e3.opt = o /\ e3.sub = <<>> /\ e3.log = d.log /\ e3 \in Decoders
      BY <2>2, AfterSb, AfterIs
    <2>4. Leads(d, u, e3)
      BY <1>3 DEF e1, e2
    <2> HIDE DEF e3
    <2>5. Len(e3.sub) + Len(p) <= Limit
      <3>1. Len(p) \in Nat /\ Len(e3.sub) = 0
        BY <1>1, <2>3, LenProperties, EmptySeq
      <3> QED
        BY <3>1, LimitIsNat
    <2>6. PICK f : /\ Leads(e3, w, f) /\ f.mode = "SB_DATA" /\ f.opt = o
                   /\ f.sub = Cat(e3.sub, p) /\ f.log = d.log
      BY <2>3, <2>5 DEF Carries
    <2>7. f \in Decoders /\ f.sub = p
      <3>1. Cat(<<>>, p) = p
        BY <1>1, ConcatEmptySeq DEF Cat
      <3> QED
        BY <1>1, <2>3, <2>6, <3>1, LeadsLonger
    <2> DEFINE g1 == After(f, "IAC")
               g == After(g1, "SE")
    <2>8. g1.mode = "SB_DATA_IAC" /\ g1.sub = p /\ g1.opt = o /\ g1.log = d.log /\ g1 \in Decoders
      BY <1>1, <2>6, <2>7, AfterSbData, AfterIs
    <2> HIDE DEF g1
    <2>9. g.mode = "DATA" /\ g.log = Cat(d.log, subnegotiate(o, p))
      BY <1>1, <2>8, AfterSbDataIac
    <2>10. Leads(f, v, g)
      BY <1>3 DEF g1
    <2> HIDE DEF g
    <2>11. Leads(d, Cat(u, w), f)
      BY <1>1, <1>2, <2>4, <2>6, LeadsConcat DEF Cat
    <2>12. Leads(d, Cat(Cat(u, w), v), g)
      <3> DEFINE uw == Cat(u, w)
      <3>1. uw \in Seq(Bytes) /\ Leads(d, uw, f)
        BY <1>4, <2>11
      <3> HIDE DEF uw
      <3>2. Leads(d, uw \o v, g)
        BY <1>2, <2>10, <3>1, LeadsConcat
      <3> QED
        BY <3>2 DEF Cat, uw
    <2> QED
      BY <2>9, <2>12
  <1> QED
    BY <1>4, <1>5, <1>6 DEF Yields, u, v

-----------------------------------------------------------------------------
(* The senders' loop sends every byte or what stands in its place.         *)
Sent(buffer, special) ==
    [k \in DOMAIN buffer |-> IF buffer[k] \in special THEN Instead(buffer[k]) ELSE <<buffer[k]>>]

LEMMA InsteadIs ==
    /\ Instead("IAC") = <<"IAC", "IAC">> /\ Instead("CR") = <<"CR", "NUL">> /\ Instead("LF") = <<"CR", "LF">>
    /\ \A b \in {"IAC", "CR", "LF"} : Instead(b) \in Seq(Bytes)
  <1>1. Instead("IAC") = <<"IAC", "IAC">> /\ Instead("CR") = <<"CR", "NUL">> /\ Instead("LF") = <<"CR", "LF">>
    BY DEF Instead, telnet_iac
  <1>2. <<"IAC", "IAC">> \in Seq(Bytes) /\ <<"CR", "NUL">> \in Seq(Bytes) /\ <<"CR", "LF">> \in Seq(Bytes)
    BY BytesAssumption
  <1> QED
    BY <1>1, <1>2

LEMMA SentIs ==
    ASSUME NEW buffer \in Seq(Bytes), NEW special \in SUBSET {"IAC", "CR", "LF"}
    PROVE  /\ Sent(buffer, special) \in Lists(Bytes)
           /\ Len(Sent(buffer, special)) = Len(buffer) /\ Len(buffer) \in Nat
           /\ \A k \in 1..Len(buffer) : /\ buffer[k] \in Bytes
                                        /\ Sent(buffer, special)[k] =
                                              IF buffer[k] \in special THEN Instead(buffer[k]) ELSE <<buffer[k]>>
  <1> DEFINE n == Len(buffer)
             ws == Sent(buffer, special)
  <1>1. n \in Nat /\ DOMAIN buffer = 1..n /\ \A k \in 1..n : buffer[k] \in Bytes
    BY LenProperties, ElementOfSeq
  <1>2. DOMAIN ws = 1..n /\ ws = [k \in 1..n |-> ws[k]]
        /\ \A k \in 1..n : ws[k] = IF buffer[k] \in special THEN Instead(buffer[k]) ELSE <<buffer[k]>>
    BY <1>1 DEF Sent
  <1>3. \A k \in 1..n : ws[k] \in Seq(Bytes)
    <2> HIDE DEF ws, n
    <2>1. \A b \in Bytes : <<b>> \in Seq(Bytes)
      OBVIOUS
    <2> QED
      BY <1>1, <1>2, <2>1, InsteadIs
  <1> HIDE DEF ws, n
  <1>4. ws \in Lists(Bytes) /\ Len(ws) = n
    BY <1>1, <1>2, <1>3, IsList
  <1> QED
    BY <1>1, <1>2, <1>4 DEF ws, n

LEMMA RunsAre ==
    ASSUME NEW buffer \in Seq(Bytes), NEW special \in SUBSET {"IAC", "CR", "LF"}
    PROVE  Runs(buffer, special) = FlattenSeq(Sent(buffer, special))
  <1> DEFINE n == Len(buffer)
             ws == Sent(buffer, special)
             T == [i : Nat, l : Nat, out : Seq(Bytes)]
             turn == [t \in T |->
                IF buffer[t.i] \in special
                THEN [i |-> t.i + 1, l |-> t.i,
                      out |-> t.out \o SubSeq(buffer, t.l + 1, t.i - 1) \o Instead(buffer[t.i])]
                ELSE [t EXCEPT !.i = @ + 1]]
             s == [i |-> 1, l |-> 0, out |-> <<>>]
             r == Loop(turn, s, n)
             part(l, k) == SubSeq(buffer, l + 1, k)
  <1>1. /\ n \in Nat /\ ws \in Lists(Bytes) /\ Len(ws) = n
        /\ \A k \in 1..n : /\ buffer[k] \in Bytes
                           /\ ws[k] = IF buffer[k] \in special THEN Instead(buffer[k]) ELSE <<buffer[k]>>
    BY SentIs
  <1>2. Runs(buffer, special) = Cat(r.out, part(r.l, n))
    BY DEF Runs, Cat
  <1> HIDE DEF ws
  <1>3. PICK f : Pieces(Bytes, ws, n, f)
    <2> HIDE DEF n
    <2> QED
      BY <1>1, FlattenTo
  <1>4. f[0] = <<>> /\ FlattenSeq(ws) = f[n] /\ \A k \in 1..n : f[k] = Cat(f[k - 1], ws[k])
    BY <1>3 DEF Pieces, Cat
  <1>5. \A k \in 0..n : f[k] \in Str(Bytes)
    BY <1>3 DEF Pieces, Str
  <1>6. \A l \in 0..n : part(l, l) = <<>>
    BY <1>1, SubSeqEmpty
  <1>7. \A k \in 1..n : \A l \in 0..k - 1 : part(l, k) = Cat(part(l, k - 1), <<buffer[k]>>) /\ part(l, k - 1) \in Str(Bytes)
    <2>1. ASSUME NEW k \in 1..n, NEW l \in 0..k - 1
          PROVE  part(l, k) = part(l, k - 1) \o <<buffer[k]>> /\ part(l, k - 1) \in Seq(Bytes)
      <3>1. l + 1 \in 1..Len(buffer) /\ k \in l + 1..Len(buffer) /\ k - 1 \in Int
            /\ \A j \in l + 1..k - 1 : buffer[j] \in Bytes
        BY <1>1
      <3> QED
        BY <3>1, SubSeqRecursiveSecond, SubSeqProperties
    <2> QED
      BY <2>1 DEF Cat, Str
  <1> HIDE DEF part
  <1> DEFINE Y == [k \in 0..n |-> {t \in T : t.i = k + 1 /\ t.l \in 0..k /\ Cat(t.out, part(t.l, k)) = f[k]}]
  <1>8. s \in Y[0]
    <2>1. Cat(<<>>, part(0, 0)) = f[0] /\ 0 \in 0..n
      BY <1>1, <1>4, <1>6, ConcatEmptySeq, EmptySeq DEF Cat
    <2>2. <<>> \in Seq(Bytes)
      BY EmptySeq
    <2> QED
      BY <2>1, <2>2
  <1>9. ASSUME NEW k \in 1..n, NEW x \in Y[k - 1]
        PROVE  turn[x] \in Y[k]
    <2>0. k - 1 \in 0..n /\ k \in 0..n /\ k - 1 + 1 = k
      BY <1>1
    <2>1. x \in T /\ x.i = k /\ x.l \in 0..k - 1 /\ Cat(x.out, part(x.l, k - 1)) = f[k - 1]
          /\ k \in Nat /\ x.l \in Nat /\ k + 1 \in Nat
      BY <1>1, <2>0
    <2>2. x.out \in Str(Bytes) /\ part(x.l, k - 1) \in Str(Bytes)
      BY <1>7, <2>1 DEF Str
    <2>3. CASE buffer[k] \in special
      <3> DEFINE o == Cat(Cat(x.out, part(x.l, k - 1)), Instead(buffer[k]))
      <3>1. turn[x] = [i |-> k + 1, l |-> k, out |-> o]
        BY <2>1, <2>3 DEF Cat, part
      <3>2. o = f[k]
        BY <1>1, <1>4, <2>1, <2>3
      <3>3. Cat(o, part(k, k)) = f[k] /\ o \in Seq(Bytes)
        BY <1>5, <1>6, <2>0, <3>2, ConcatEmptySeq DEF Cat, Str
      <3> HIDE DEF o, turn
      <3>4. [i |-> k + 1, l |-> k, out |-> o] \in T /\ k \in 0..k
        BY <2>1, <3>3
      <3> QED
        BY <2>0, <3>1, <3>3, <3>4
    <2>4. CASE buffer[k] \notin special
      <3>1. turn[x] = [x EXCEPT !.i = k + 1]
        BY <2>1, <2>4
      <3>2. turn[x] \in T /\ turn[x].i = k + 1 /\ turn[x].l = x.l /\ turn[x].out = x.out
        BY <2>1, <3>1
      <3>3. <<buffer[k]>> \in Str(Bytes)
        BY <1>1 DEF Str
      <3>4. Cat(x.out, part(x.l, k)) = f[k]
        <4>1. part(x.l, k) = Cat(part(x.l, k - 1), <<buffer[k]>>)
          BY <1>7, <2>1
        <4>2. f[k] = Cat(f[k - 1], <<buffer[k]>>)
          BY <1>1, <1>4, <2>4
        <4>3. Cat(Cat(x.out, part(x.l, k - 1)), <<buffer[k]>>) = Cat(x.out, part(x.l, k))
          BY <2>2, <3>3, <4>1, CatAssoc
        <4> QED
          BY <2>1, <4>2, <4>3
      <3> HIDE DEF turn
      <3>5. turn[x].l \in 0..k
        BY <2>1, <3>2
      <3> QED
        BY <2>0, <3>2, <3>4, <3>5
    <2> QED
      BY <2>3, <2>4
  <1>10. r \in Y[n]
    <2> HIDE DEF turn, s, Y, n
    <2> QED
      BY <1>1, <1>8, <1>9, LoopKeeps
  <1> HIDE DEF r
  <1>11. Cat(r.out, part(r.l, n)) = f[n]
    <2>1. n \in 0..n
      BY <1>1
    <2> QED
      BY <1>10, <2>1
  <1> QED
    BY <1>2, <1>4, <1>11 DEF ws

(* A list of one-element sequences. *)
Ones(s) == [k \in DOMAIN s |-> <<s[k]>>]

LEMMA OnesAre ==
    ASSUME NEW A, NEW s \in Seq(A), NEW n \in Nat, n = Len(s)
    PROVE  /\ Ones(s) \in Lists(A) /\ Len(Ones(s)) = n /\ FlattenSeq(Ones(s)) = s
           /\ \A k \in 1..n : Ones(s)[k] = <<s[k]>> /\ s[k] \in A
  <1> DEFINE ones == [k \in DOMAIN s |-> <<s[k]>>]
  <1>1. DOMAIN s = 1..n /\ \A k \in 1..n : s[k] \in A
    BY LenProperties, ElementOfSeq
  <1>2. ones \in Lists(A) /\ FlattenSeq(ones) = s
    BY FlattenOnes
  <1>3. DOMAIN ones = 1..n /\ \A k \in 1..n : ones[k] = <<s[k]>>
    BY <1>1
  <1> HIDE DEF ones
  <1>4. DOMAIN ones = 1..Len(ones) /\ Len(ones) \in Nat
    BY <1>2, ListLen
  <1>5. Len(ones) = n
    BY <1>3, <1>4
  <1> QED
    BY <1>1, <1>2, <1>3, <1>5 DEF ones, Ones

LEMMA SendCarries ==
    ASSUME NEW p \in Seq(Bytes)
    PROVE  Carries(telnet_send(p), p)
  <1> DEFINE n == Len(p)
             ws == Sent(p, {"IAC"})
             ones == Ones(p)
  <1>1. n \in Nat /\ ws \in Lists(Bytes) /\ Len(ws) = n
        /\ \A k \in 1..n : p[k] \in Bytes /\ ws[k] = IF p[k] \in {"IAC"} THEN Instead(p[k]) ELSE <<p[k]>>
    BY SentIs
  <1>2. ones \in Lists(Bytes) /\ Len(ones) = n /\ FlattenSeq(ones) = p /\ \A k \in 1..n : ones[k] = <<p[k]>>
    BY <1>1, OnesAre
  <1>3. telnet_send(p) = FlattenSeq(ws)
    BY RunsAre DEF telnet_send
  <1> HIDE DEF n, ws, ones
  <1>4. \A k \in 1..n : ws[k] = IF p[k] = "IAC" THEN <<"IAC", "IAC">> ELSE <<p[k]>>
    BY <1>1, InsteadIs
  <1>5. \A k \in 1..n : Carries(ws[k], ones[k])
    BY <1>1, <1>2, <1>4, CarriesByte
  <1>6. Carries(FlattenSeq(ws), FlattenSeq(ones))
    BY <1>1, <1>2, <1>5, CarriesFlatten
  <1> QED
    BY <1>2, <1>3, <1>6

LEMMA PlainCarries ==
    ASSUME NEW p \in Seq(Bytes \ {"IAC"})
    PROVE  Carries(p, p)
  <1> DEFINE n == Len(p)
             ones == Ones(p)
  <1>1. n \in Nat /\ p \in Seq(Bytes)
    BY LenProperties, SeqDef
  <1>2. ones \in Lists(Bytes) /\ Len(ones) = n /\ FlattenSeq(ones) = p /\ \A k \in 1..n : ones[k] = <<p[k]>>
    BY <1>1, OnesAre
  <1>3. \A k \in 1..n : p[k] \in Bytes /\ p[k] # "IAC"
    BY ElementOfSeq
  <1> HIDE DEF n, ones
  <1>4. \A k \in 1..n : Carries(ones[k], ones[k])
    BY <1>2, <1>3, CarriesByte
  <1>5. Carries(FlattenSeq(ones), FlattenSeq(ones))
    BY <1>1, <1>2, <1>4, CarriesFlatten
  <1> QED
    BY <1>2, <1>5

LEMMA DataIs ==
    ASSUME NEW s \in Seq(Bytes), NEW n \in Nat, n = Len(s)
    PROVE  /\ DataOf(s) \in Seq(Events) /\ Len(DataOf(s)) = n
           /\ \A k \in 1..n : DataOf(s)[k] = Data(s[k]) /\ s[k] \in Bytes
  <1>1. DOMAIN s = 1..n /\ \A k \in 1..n : s[k] \in Bytes
    BY LenProperties, ElementOfSeq
  <1>2. \A b \in Bytes : Data(b) \in Events
    BY DEF Events, Items
  <1>3. DataOf(s) = [k \in 1..n |-> Data(s[k])]
    BY <1>1 DEF DataOf
  <1>4. DataOf(s) \in [1..n -> Events]
    BY <1>1, <1>2, <1>3
  <1>5. DataOf(s) \in Seq(Events)
    BY <1>4, SeqDef
  <1>6. DOMAIN DataOf(s) = 1..Len(DataOf(s)) /\ Len(DataOf(s)) \in Nat
    BY <1>5, LenProperties
  <1> QED
    BY <1>1, <1>3, <1>4, <1>5, <1>6

LEMMA DataConcat ==
    ASSUME NEW x \in Seq(Bytes), NEW y \in Seq(Bytes)
    PROVE  DataOf(x \o y) = DataOf(x) \o DataOf(y)
  <1> DEFINE m == Len(x)
             n == Len(y)
             z == x \o y
             u == DataOf(x)
             v == DataOf(y)
             w == u \o v
             t == DataOf(z)
  <1>1. m \in Nat /\ n \in Nat /\ z \in Seq(Bytes) /\ Len(z) = m + n
        /\ \A k \in 1..m + n : z[k] = IF k <= m THEN x[k] ELSE y[k - m]
    BY ConcatProperties, LenProperties
  <1>2. /\ u \in Seq(Events) /\ Len(u) = m /\ \A k \in 1..m : u[k] = Data(x[k])
        /\ v \in Seq(Events) /\ Len(v) = n /\ \A k \in 1..n : v[k] = Data(y[k])
    BY <1>1, DataIs
  <1> HIDE DEF z
  <1>3. t \in Seq(Events) /\ Len(t) = m + n /\ \A k \in 1..m + n : t[k] = Data(z[k])
    BY <1>1, DataIs
  <1> HIDE DEF u, v, t
  <1>4. w \in Seq(Events) /\ Len(w) = m + n /\ \A k \in 1..m + n : w[k] = IF k <= m THEN u[k] ELSE v[k - m]
    <2>1. u \in Seq(Events) /\ v \in Seq(Events)
      BY <1>2
    <2>2. /\ u \o v \in Seq(Events) /\ Len(u \o v) = Len(u) + Len(v)
          /\ \A k \in 1..Len(u) + Len(v) : (u \o v)[k] = IF k <= Len(u) THEN u[k] ELSE v[k - Len(u)]
      BY <2>1, ConcatProperties
    <2>3. Len(u) = m /\ Len(v) = n
      BY <1>2
    <2> QED
      BY <2>2, <2>3
  <1> HIDE DEF w, m, n
  <1>5. ASSUME NEW k \in 1..m + n PROVE t[k] = w[k]
    <2>1. CASE k <= m
      <3>1. k \in 1..m
        BY <1>1, <2>1
      <3> QED
        BY <1>1, <1>2, <1>3, <1>4, <2>1, <3>1
    <2>2. CASE ~(k <= m)
      <3>1. k - m \in 1..n
        BY <1>1, <2>2
      <3> QED
        BY <1>1, <1>2, <1>3, <1>4, <2>2, <3>1
    <2> QED
      BY <2>1, <2>2
  <1>6. t = w
    BY <1>1, <1>3, <1>4, <1>5, SeqEqual
  <1> QED
    BY <1>6 DEF t, w, u, v, z

LEMMA SendYields ==
    ASSUME NEW p \in Seq(Bytes)
    PROVE  Yields(telnet_send(p), DataOf(p))
  <1> DEFINE n == Len(p)
             ws == Sent(p, {"IAC"})
             data == DataOf(p)
             ones == Ones(data)
  <1>1. n \in Nat /\ ws \in Lists(Bytes) /\ Len(ws) = n
        /\ \A k \in 1..n : p[k] \in Bytes /\ ws[k] = IF p[k] \in {"IAC"} THEN Instead(p[k]) ELSE <<p[k]>>
    BY SentIs
  <1>2. data \in Seq(Events) /\ Len(data) = n /\ \A k \in 1..n : data[k] = Data(p[k])
    BY <1>1, DataIs
  <1>3. telnet_send(p) = FlattenSeq(ws)
    BY RunsAre DEF telnet_send
  <1> HIDE DEF n, ws, data
  <1>4. ones \in Lists(Events) /\ Len(ones) = n /\ FlattenSeq(ones) = data /\ \A k \in 1..n : ones[k] = <<data[k]>>
    <2>1. data \in Seq(Events) /\ n \in Nat /\ n = Len(data)
      BY <1>1, <1>2
    <2> QED
      BY <2>1, OnesAre
  <1> HIDE DEF ones
  <1>5. \A k \in 1..n : ws[k] = IF p[k] = "IAC" THEN <<"IAC", "IAC">> ELSE <<p[k]>>
    BY <1>1, InsteadIs
  <1>6. \A k \in 1..n : Yields(ws[k], ones[k])
    BY <1>1, <1>2, <1>4, <1>5, YieldsData
  <1>7. Yields(FlattenSeq(ws), FlattenSeq(ones))
    BY <1>1, <1>4, <1>6, YieldsFlatten
  <1> QED
    BY <1>3, <1>4, <1>7 DEF data
LEMMA PlainYields ==
    ASSUME NEW p \in Seq(Bytes \ {"IAC"})
    PROVE  Yields(p, DataOf(p)) /\ p \in Seq(Bytes)
  <1> DEFINE n == Len(p)
             ws == Ones(p)
             data == DataOf(p)
             ones == Ones(data)
  <1>1. n \in Nat /\ p \in Seq(Bytes)
    BY LenProperties, SeqDef
  <1>2. data \in Seq(Events) /\ Len(data) = n /\ \A k \in 1..n : data[k] = Data(p[k])
    BY <1>1, DataIs
  <1>3. ws \in Lists(Bytes) /\ Len(ws) = n /\ FlattenSeq(ws) = p /\ \A k \in 1..n : ws[k] = <<p[k]>>
    BY <1>1, OnesAre
  <1>4. \A k \in 1..n : p[k] \in Bytes /\ p[k] # "IAC"
    BY ElementOfSeq
  <1> HIDE DEF n, ws, data
  <1>5. ones \in Lists(Events) /\ Len(ones) = n /\ FlattenSeq(ones) = data /\ \A k \in 1..n : ones[k] = <<data[k]>>
    <2>1. data \in Seq(Events) /\ n \in Nat /\ n = Len(data)
      BY <1>1, <1>2
    <2> QED
      BY <2>1, OnesAre
  <1> HIDE DEF ones
  <1>6. \A k \in 1..n : Yields(ws[k], ones[k])
    BY <1>2, <1>3, <1>4, <1>5, YieldsData
  <1>7. Yields(FlattenSeq(ws), FlattenSeq(ones))
    BY <1>1, <1>3, <1>5, <1>6, YieldsFlatten
  <1> QED
    BY <1>1, <1>3, <1>5, <1>7 DEF data

(* The data of a list of texts. *)
LEMMA DataFlatten ==
    ASSUME NEW ws \in Lists(Bytes), NEW xs \in Lists(Events), NEW n \in Nat, n = Len(ws), n = Len(xs),
           \A k \in 1..n : xs[k] = DataOf(ws[k])
    PROVE  DataOf(FlattenSeq(ws)) = FlattenSeq(xs)
  <1> DEFINE Z == {z \in Seq(Bytes) \X Seq(Events) : DataOf(z[1]) = z[2]}
  <1>1. <<<<>>, <<>>>> \in Z
    <2>1. DataOf(<<>>) = <<>> /\ <<>> \in Seq(Bytes) /\ <<>> \in Seq(Events)
      BY DEF DataOf
    <2> QED
      BY <2>1
  <1>2. \A k \in 1..n : \A w \in Seq(Bytes), x \in Seq(Events) :
            <<w, x>> \in Z => <<w \o ws[k], x \o xs[k]>> \in Z
    <2>1. ASSUME NEW k \in 1..n, NEW w \in Seq(Bytes), NEW x \in Seq(Events), DataOf(w) = x
          PROVE  DataOf(w \o ws[k]) = x \o xs[k] /\ w \o ws[k] \in Seq(Bytes) /\ x \o xs[k] \in Seq(Events)
      <3> DEFINE v == ws[k]
                 y == xs[k]
      <3>1. v \in Seq(Bytes) /\ y \in Seq(Events)
        BY ListLen
      <3>2. y = DataOf(v)
        BY <2>1
      <3> HIDE DEF v, y
      <3>3. DataOf(w \o v) = DataOf(w) \o DataOf(v)
        BY <3>1, DataConcat
      <3>4. w \o v \in Seq(Bytes) /\ x \o y \in Seq(Events)
        BY <3>1, ConcatProperties
      <3> QED
        BY <2>1, <3>2, <3>3, <3>4 DEF v, y
    <2> QED
      BY <2>1
  <1>3. <<FlattenSeq(ws), FlattenSeq(xs)>> \in Z
    <2> HIDE DEF Z
    <2> QED
      BY <1>1, <1>2, FlattenPairs
  <1> QED
    BY <1>3

LEMMA TextYields ==
    ASSUME NEW p \in Seq(Bytes)
    PROVE  Yields(telnet_vprintf(p), DataOf(NvtText(p)))
  <1> DEFINE n == Len(p)
             ws == Sent(p, {"IAC", "CR", "LF"})
             ts == [k \in DOMAIN p |-> CASE p[k] = "CR" -> <<"CR", "NUL">>
                                         [] p[k] = "LF" -> <<"CR", "LF">>
                                         [] OTHER       -> <<p[k]>>]
             xs == [k \in 1..n |-> DataOf(ts[k])]
  <1>1. n \in Nat /\ ws \in Lists(Bytes) /\ Len(ws) = n /\ DOMAIN p = 1..n
        /\ \A k \in 1..n : /\ p[k] \in Bytes
                           /\ ws[k] = IF p[k] \in {"IAC", "CR", "LF"} THEN Instead(p[k]) ELSE <<p[k]>>
    BY SentIs, LenProperties
  <1>2. telnet_vprintf(p) = FlattenSeq(ws) /\ NvtText(p) = FlattenSeq(ts)
    BY RunsAre DEF telnet_vprintf, NvtText
  <1>3. DOMAIN ts = 1..n /\ ts = [k \in 1..n |-> ts[k]]
        /\ \A k \in 1..n : ts[k] = CASE p[k] = "CR" -> <<"CR", "NUL">>
                                     [] p[k] = "LF" -> <<"CR", "LF">>
                                     [] OTHER       -> <<p[k]>>
    BY <1>1
  <1> HIDE DEF n, ws, ts
  <1>4. ASSUME NEW k \in 1..n
        PROVE  ts[k] \in Seq(Bytes) /\ Yields(ws[k], DataOf(ts[k])) /\ DataOf(ts[k]) \in Seq(Events)
    <2>1. CASE p[k] = "IAC"
      <3>1. ts[k] = <<"IAC">> /\ ws[k] = <<"IAC", "IAC">>
        BY <1>1, <1>3, <2>1, InsteadIs
      <3>2. DataOf(<<"IAC">>) = <<Data("IAC")>>
        BY DEF DataOf
      <3>3. Yields(<<"IAC", "IAC">>, <<Data("IAC")>>) /\ <<"IAC">> \in Seq(Bytes)
        <4>1. p[k] \in Bytes /\ Yields(IF p[k] = "IAC" THEN <<"IAC", "IAC">> ELSE <<p[k]>>, <<Data(p[k])>>)
          BY <1>1, YieldsData
        <4>2. <<"IAC">> \in Seq(Bytes)
          BY BytesAssumption
        <4> QED
          BY <2>1, <4>1, <4>2
      <3> QED
        BY <3>1, <3>2, <3>3 DEF Yields
    <2>2. CASE p[k] # "IAC"
      <3>1. ts[k] = ws[k]
        BY <1>1, <1>3, <2>2, InsteadIs
      <3>2. <<"CR", "NUL">> \in Seq(Bytes \ {"IAC"}) /\ <<"CR", "LF">> \in Seq(Bytes \ {"IAC"})
            /\ <<p[k]>> \in Seq(Bytes \ {"IAC"})
        BY <1>1, <2>2, BytesAssumption
      <3>3. ts[k] \in Seq(Bytes \ {"IAC"})
        BY <1>3, <3>2
      <3> QED
        BY <3>1, <3>3, PlainYields DEF Yields
    <2> QED
      BY <2>1, <2>2
  <1>5. ts \in Lists(Bytes) /\ Len(ts) = n
    BY <1>1, <1>3, <1>4, IsList
  <1>6. DOMAIN xs = 1..n /\ xs = [k \in 1..n |-> xs[k]] /\ \A k \in 1..n : xs[k] = DataOf(ts[k])
    OBVIOUS
  <1> HIDE DEF xs
  <1>7. xs \in Lists(Events) /\ Len(xs) = n
    <2>1. \A k \in 1..n : xs[k] \in Seq(Events)
      BY <1>4, <1>6
    <2> QED
      BY <1>1, <1>6, <2>1, IsList
  <1>8. DataOf(FlattenSeq(ts)) = FlattenSeq(xs)
    BY <1>1, <1>5, <1>6, <1>7, DataFlatten
  <1>9. Yields(FlattenSeq(ws), FlattenSeq(xs))
    BY <1>1, <1>4, <1>6, <1>7, YieldsFlatten
  <1> QED
    BY <1>2, <1>8, <1>9

-----------------------------------------------------------------------------
(* The first of a list and the others. *)
Others(ws) == [k \in 1..Len(ws) - 1 |-> ws[k + 1]]

LEMMA FlattenFirst ==
    ASSUME NEW A, NEW ws \in Lists(A), NEW n \in Nat, n # 0, n = Len(ws)
    PROVE  /\ Others(ws) \in Lists(A) /\ Len(Others(ws)) = n - 1
           /\ \A k \in 1..n - 1 : Others(ws)[k] = ws[k + 1]
           /\ ws[1] \in Seq(A) /\ FlattenSeq(ws) = Cat(ws[1], FlattenSeq(Others(ws)))
  <1> DEFINE u == <<ws[1]>>
             rest == Others(ws)
  <1>1. \A k \in 1..n : ws[k] \in Seq(A)
    BY ListLen
  <1>2. ws[1] \in Seq(A)
    BY <1>1
  <1>3. u \in Lists(A) /\ Len(u) = 1 /\ u[1] = ws[1] /\ FlattenSeq(u) = ws[1]
    BY <1>2, FlattenOne DEF Lists
  <1> HIDE DEF u
  <1> DEFINE m == n - 1
  <1>0. rest = [k \in 1..m |-> ws[k + 1]]
    BY DEF Others
  <1> HIDE DEF rest
  <1>4. DOMAIN rest = 1..m /\ rest = [k \in 1..m |-> rest[k]] /\ m \in Nat
        /\ \A k \in 1..m : rest[k] = ws[k + 1] /\ rest[k] \in Seq(A)
    <2>1. \A k \in 1..n - 1 : k + 1 \in 1..n
      OBVIOUS
    <2> QED
      BY <1>0, <1>1, <2>1
  <1>5. rest \in Lists(A) /\ Len(rest) = m
    <2>1. DOMAIN rest = 1..m /\ rest = [k \in 1..m |-> rest[k]] /\ m \in Nat
          /\ \A k \in 1..m : rest[k] \in Seq(A)
      BY <1>4
    <2> HIDE DEF m
    <2> QED
      BY ONLY <2>1, IsList
  <1>6. /\ u \o rest \in Lists(A) /\ Len(u \o rest) = Len(u) + Len(rest)
        /\ \A k \in 1..Len(u) + Len(rest) : (u \o rest)[k] = IF k <= Len(u) THEN u[k] ELSE rest[k - Len(u)]
    BY <1>3, <1>5, ListConcat
  <1> DEFINE all == u \o rest
  <1>7. all \in Seq(Seq(A)) /\ Len(all) = n /\ \A k \in 1..n : all[k] = IF k <= 1 THEN u[k] ELSE rest[k - 1]
    <2>1. /\ all \in Lists(A) /\ Len(all) = Len(u) + Len(rest)
          /\ \A k \in 1..Len(u) + Len(rest) : all[k] = IF k <= Len(u) THEN u[k] ELSE rest[k - Len(u)]
      BY <1>6
    <2>2. Len(u) = 1 /\ Len(rest) = n - 1
      BY <1>3, <1>5
    <2> HIDE DEF all
    <2> QED
      BY <2>1, <2>2 DEF Lists
  <1>8. FlattenSeq(all) = FlattenSeq(u) \o FlattenSeq(rest)
    BY <1>3, <1>5, FlattenConcat
  <1> HIDE DEF all
  <1>9. ASSUME NEW k \in 1..n PROVE all[k] = ws[k]
    <2>1. CASE k = 1
      BY <1>3, <1>7, <2>1
    <2>2. CASE k # 1
      <3>1. k - 1 \in 1..n - 1 /\ (k - 1) + 1 = k /\ ~(k <= 1)
        BY <2>2
      <3> QED
        BY <1>4, <1>7, <3>1
    <2> QED
      BY <2>1, <2>2
  <1>10. all = ws
    BY <1>7, <1>9, SeqEqual DEF Lists
  <1> QED
    BY <1>2, <1>3, <1>4, <1>5, <1>8, <1>10 DEF Cat, rest

(* A subnegotiation, put together as the senders do it. *)
LEMMA SubIsRead ==
    ASSUME NEW o \in Bytes \ {"COMPRESS"}, NEW w, NEW p, Carries(w, p), Len(p) <= Limit
    PROVE  Yields(telnet_begin_sb(o) \o w \o telnet_finish_sb, subnegotiate(o, p))
  BY YieldsSub DEF telnet_begin_sb, telnet_finish_sb, telnet_iac, Cat

LEMMA SubIsReadTwo ==
    ASSUME NEW o \in Bytes \ {"COMPRESS"}, NEW v, NEW w, NEW p, NEW q, Carries(v, p), Carries(w, q),
           Len(p \o q) <= Limit
    PROVE  Yields(telnet_begin_sb(o) \o v \o w \o telnet_finish_sb, subnegotiate(o, p \o q))
  <1> DEFINE a == telnet_begin_sb(o)
             z == telnet_finish_sb
  <1>1. a \in Str(Bytes)
    BY BytesAssumption DEF telnet_begin_sb, Str
  <1>2. v \in Str(Bytes) /\ w \in Str(Bytes)
    BY DEF Carries, Str
  <1>3. Carries(Cat(v, w), p \o q)
    BY CarriesConcat DEF Cat
  <1>4. Yields(Cat(Cat(a, Cat(v, w)), z), subnegotiate(o, p \o q))
    BY <1>3, SubIsRead DEF Cat
  <1> HIDE DEF a, z
  <1>5. Cat(a, Cat(v, w)) = Cat(Cat(a, v), w)
    BY <1>1, <1>2, CatAssoc
  <1>6. Cat(Cat(Cat(a, v), w), z) = a \o v \o w \o z
    BY DEF Cat
  <1> QED
    BY <1>4, <1>5, <1>6 DEF a, z

-----------------------------------------------------------------------------
(* The bytes of each call, read back.                                      *)
Codes3 == {"NUL", "ONE", "TWO", "THREE"}

LEMMA CodesAre ==
    /\ \A c \in Codes3 : c \in Bytes \ {"IAC"} /\ <<c>> \in Seq(Bytes \ {"IAC"})
    /\ {ENVIRON_IS, ENVIRON_SEND, ENVIRON_INFO, ENVIRON_VAR, ENVIRON_VALUE, ENVIRON_USERVAR,
        TTYPE_IS, TTYPE_SEND} \subseteq Codes3
    /\ {"ENVIRON", "TTYPE", "ZMP"} \subseteq Bytes \ {"COMPRESS"}
  BY BytesAssumption
  DEF Codes3, ENVIRON_IS, ENVIRON_SEND, ENVIRON_INFO, ENVIRON_VAR, ENVIRON_VALUE, ENVIRON_USERVAR,
      TTYPE_IS, TTYPE_SEND

LEMMA CarriesIn == \A w, p : Carries(w, p) => w \in Seq(Bytes) /\ p \in Seq(Bytes)
  BY DEF Carries

LEMMA VariableCarries ==
    ASSUME NEW v, v[1] \in Codes3, v[2] \in Seq(Bytes), v[3] \in Seq(Bytes)
    PROVE  Carries(Variable(v), VariableBytes(v))
  <1>1. ASSUME NEW c \in Codes3, NEW s \in Seq(Bytes)
        PROVE  Carries(telnet_newenviron_value(c, s), <<c>> \o s)
    <2>1. <<c>> \in Seq(Bytes)
      BY CodesAre
    <2>2. Carries(telnet_send(<<c>>), <<c>>) /\ Carries(telnet_send(s), s)
      BY <2>1, SendCarries
    <2> QED
      BY <2>2, CarriesConcat DEF telnet_newenviron_value
  <1> DEFINE w == IF v[3] = <<>> THEN <<>> ELSE telnet_newenviron_value(ENVIRON_VALUE, v[3])
             p == IF v[3] = <<>> THEN <<>> ELSE <<ENVIRON_VALUE>> \o v[3]
  <1>2. Carries(w, p)
    BY <1>1, CodesAre, CarriesNone
  <1>3. Carries(telnet_newenviron_value(v[1], v[2]), <<v[1]>> \o v[2])
    BY <1>1
  <1>4. Variable(v) = telnet_newenviron_value(v[1], v[2]) \o w
    BY DEF Variable
  <1>5. VariableBytes(v) = (<<v[1]>> \o v[2]) \o p
    BY DEF VariableBytes
  <1> HIDE DEF w, p
  <1> QED
    BY <1>2, <1>3, <1>4, <1>5, CarriesConcat

LEMMA EnvironIsSent ==
    ASSUME NEW cmd \in {ENVIRON_IS, ENVIRON_SEND, ENVIRON_INFO}, NEW values \in Seq(EnvironTriples),
           NEW p, p = <<cmd>> \o FlattenSeq([k \in DOMAIN values |-> VariableBytes(values[k])]),
           Len(p) <= Limit
    PROVE  Yields(SendEnviron(cmd, values), subnegotiate("ENVIRON", p))
  <1> DEFINE n == Len(values)
             ws == [k \in DOMAIN values |-> Variable(values[k])]
             ps == [k \in DOMAIN values |-> VariableBytes(values[k])]
  <1>1. n \in Nat /\ DOMAIN values = 1..n /\ \A k \in 1..n : values[k] \in EnvironTriples
    BY LenProperties, ElementOfSeq
  <1>2. \A k \in 1..n : Carries(Variable(values[k]), VariableBytes(values[k]))
    <2>1. EnvironStrings \subseteq Seq(Bytes)
      BY SeqDef DEF EnvironStrings
    <2>2. \A v \in EnvironTriples : v[1] \in Codes3 /\ v[2] \in Seq(Bytes) /\ v[3] \in Seq(Bytes)
      BY <2>1, CodesAre DEF EnvironTriples, STARTS
    <2> QED
      BY <1>1, <2>2, VariableCarries
  <1>3. DOMAIN ws = 1..n /\ ws = [k \in 1..n |-> ws[k]] /\ DOMAIN ps = 1..n /\ ps = [k \in 1..n |-> ps[k]]
        /\ \A k \in 1..n : ws[k] = Variable(values[k]) /\ ps[k] = VariableBytes(values[k])
    BY <1>1
  <1>4. SendEnviron(cmd, values) =
            telnet_begin_sb("ENVIRON") \o telnet_send(<<cmd>>) \o FlattenSeq(ws) \o telnet_finish_sb
    BY DEF SendEnviron, telnet_begin_newenviron
  <1>5. p = <<cmd>> \o FlattenSeq(ps)
    OBVIOUS
  <1> HIDE DEF n, ws, ps
  <1>6. \A k \in 1..n : ws[k] \in Seq(Bytes) /\ ps[k] \in Seq(Bytes) /\ Carries(ws[k], ps[k])
    BY ONLY <1>2, <1>3, CarriesIn
  <1>7. ws \in Lists(Bytes) /\ Len(ws) = n
    BY ONLY <1>1, <1>3, <1>6, IsList
  <1>8. ps \in Lists(Bytes) /\ Len(ps) = n
    BY ONLY <1>1, <1>3, <1>6, IsList
  <1>9. Carries(FlattenSeq(ws), FlattenSeq(ps))
    BY ONLY <1>1, <1>6, <1>7, <1>8, CarriesFlatten
  <1>10. Carries(telnet_send(<<cmd>>), <<cmd>>)
    <2>1. <<cmd>> \in Seq(Bytes)
      BY CodesAre
    <2> QED
      BY <2>1, SendCarries
  <1>11. "ENVIRON" \in Bytes \ {"COMPRESS"}
    BY CodesAre
  <1> DEFINE f == FlattenSeq(ws)
             g == FlattenSeq(ps)
  <1> HIDE DEF f, g
  <1>12. Carries(f, g) /\ Len(<<cmd>> \o g) <= Limit /\ p = <<cmd>> \o g
    BY <1>5, <1>9 DEF f, g
  <1>13. Yields(telnet_begin_sb("ENVIRON") \o telnet_send(<<cmd>>) \o f \o telnet_finish_sb,
                subnegotiate("ENVIRON", <<cmd>> \o g))
    BY ONLY <1>10, <1>11, <1>12, SubIsReadTwo
  <1> QED
    BY <1>4, <1>12, <1>13 DEF f

LEMMA ZmpIsSent ==
    ASSUME NEW argv \in Seq(Strings), argv # <<>>,
           NEW p, p = FlattenSeq([k \in DOMAIN argv |-> Append(argv[k], "NUL")]), Len(p) <= Limit
    PROVE  Yields(telnet_send_zmp(argv), subnegotiate("ZMP", p))
  <1> DEFINE n == Len(argv)
             ps == [k \in DOMAIN argv |-> Append(argv[k], "NUL")]
             qs == Others(ps)
             ws == [k \in 1..n - 1 |-> telnet_zmp_arg(argv[k + 1])]
  <1>1. n \in Nat /\ n # 0 /\ DOMAIN argv = 1..n /\ \A k \in 1..n : argv[k] \in Strings
    BY LenProperties, ElementOfSeq, EmptySeq
  <1>2. \A k \in 1..n : Append(argv[k], "NUL") \in Seq(Bytes)
                        /\ Carries(telnet_zmp_arg(argv[k]), Append(argv[k], "NUL"))
    <2>1. \A s \in Strings : s \in Seq(Bytes)
      BY SeqDef DEF Strings
    <2>2. \A s \in Strings : Append(s, "NUL") \in Seq(Bytes)
      BY <2>1, AppendProperties, BytesAssumption
    <2> QED
      BY <1>1, <2>2, SendCarries DEF telnet_zmp_arg
  <1>3. DOMAIN ps = 1..n /\ ps = [k \in 1..n |-> ps[k]] /\ \A k \in 1..n : ps[k] = Append(argv[k], "NUL")
    BY <1>1
  <1>4. p = FlattenSeq(ps)
    OBVIOUS
  <1>5. telnet_send_zmp(argv) = telnet_begin_sb("ZMP") \o telnet_zmp_arg(argv[1]) \o FlattenSeq(ws) \o telnet_finish_sb
    BY DEF telnet_send_zmp, telnet_begin_zmp
  <1> HIDE DEF n, ps
  <1>6. \A k \in 1..n : ps[k] \in Seq(Bytes)
    BY <1>2, <1>3
  <1>7. ps \in Lists(Bytes) /\ Len(ps) = n
    BY ONLY <1>1, <1>3, <1>6, IsList
  <1> DEFINE m == n - 1
  <1>18. DOMAIN ws = 1..m /\ ws = [k \in 1..m |-> ws[k]] /\ \A k \in 1..m : ws[k] = telnet_zmp_arg(argv[k + 1])
    OBVIOUS
  <1> HIDE DEF ws
  <1>8. qs \in Lists(Bytes) /\ Len(qs) = m /\ (\A k \in 1..m : qs[k] = ps[k + 1])
        /\ FlattenSeq(ps) = Cat(ps[1], FlattenSeq(qs))
    <2>1. n \in Nat /\ n # 0 /\ ps \in Lists(Bytes) /\ n = Len(ps)
      BY ONLY <1>1, <1>7
    <2> QED
      BY ONLY <2>1, FlattenFirst
  <1> HIDE DEF qs
  <1>9. m \in Nat /\ DOMAIN ws = 1..m /\ ws = [k \in 1..m |-> ws[k]]
        /\ \A k \in 1..m : Carries(ws[k], qs[k])
    <2>1. m \in Nat /\ \A k \in 1..m : k + 1 \in 1..n
      BY ONLY <1>1
    <2>2. \A k \in 1..m : Carries(telnet_zmp_arg(argv[k + 1]), ps[k + 1])
      BY ONLY <1>2, <1>3, <2>1
    <2> QED
      BY ONLY <1>8, <1>18, <2>1, <2>2
  <1> HIDE DEF m
  <1>10. \A k \in 1..m : ws[k] \in Seq(Bytes)
    BY ONLY <1>9, CarriesIn
  <1>11. ws \in Lists(Bytes) /\ Len(ws) = m
    BY ONLY <1>9, <1>10, IsList
  <1>12. Carries(FlattenSeq(ws), FlattenSeq(qs))
    BY ONLY <1>8, <1>9, <1>11, CarriesFlatten
  <1>13. Carries(telnet_zmp_arg(argv[1]), ps[1])
    <2>1. 1 \in 1..n
      BY ONLY <1>1
    <2> QED
      BY ONLY <1>2, <1>3, <2>1
  <1>14. "ZMP" \in Bytes \ {"COMPRESS"}
    BY CodesAre
  <1> DEFINE f == FlattenSeq(ws)
             g == FlattenSeq(qs)
             h == ps[1]
  <1> HIDE DEF f, g, h
  <1>15. Carries(f, g) /\ Len(h \o g) <= Limit /\ p = h \o g /\ Carries(telnet_zmp_arg(argv[1]), h)
    BY <1>4, <1>8, <1>12, <1>13 DEF f, g, h, Cat
  <1>16. Yields(telnet_begin_sb("ZMP") \o telnet_zmp_arg(argv[1]) \o f \o telnet_finish_sb,
                subnegotiate("ZMP", h \o g))
    BY ONLY <1>14, <1>15, SubIsReadTwo
  <1> QED
    BY <1>5, <1>15, <1>16 DEF f

(* What is read of a call: a subnegotiation is still to be taken apart. *)
Read(call) == IF call[1] \in Subnegotiations THEN subnegotiate(Option(call), Payload(call)) ELSE Means(call)

LEMMA DataCallIsRead ==
    ASSUME NEW f \in {"telnet_send", "telnet_send_text", "telnet_vprintf", "telnet_raw_vprintf"},
           NEW p \in Seq(Bytes)
    PROVE  Yields(Wire(<<f, p>>), Read(<<f, p>>))
  <1> DEFINE call == <<f, p>>
  <1>1. Read(call) = Means(call)
    BY DEF Read, Subnegotiations
  <1>2. CASE f = "telnet_send"
    BY <1>1, <1>2, SendYields DEF Wire, Means
  <1>3. CASE f = "telnet_raw_vprintf"
    BY <1>1, <1>3, SendYields DEF Wire, Means, telnet_raw_vprintf
  <1>4. CASE f = "telnet_vprintf"
    BY <1>1, <1>4, TextYields DEF Wire, Means
  <1>5. CASE f = "telnet_send_text"
    <2>1. Wire(call) = telnet_send_text(p, TransmitBinary)
          /\ Means(call) = DataOf(IF TransmitBinary THEN p ELSE NvtText(p))
      BY <1>5 DEF Wire, Means
    <2>2. telnet_send_text(p, TransmitBinary) = IF TransmitBinary THEN telnet_send(p) ELSE telnet_vprintf(p)
      BY DEF telnet_send_text, telnet_send, telnet_vprintf
    <2> QED
      BY <1>1, <2>1, <2>2, SendYields, TextYields
  <1> QED
    BY <1>2, <1>3, <1>4, <1>5

LEMMA IacCallIsRead ==
    ASSUME NEW cmd \in Bytes \ (Verbs \cup {"SB", "IAC"})
    PROVE  Yields(Wire(<<"telnet_iac", cmd>>), Read(<<"telnet_iac", cmd>>))
  BY YieldsIac DEF Wire, Read, Means, Subnegotiations, telnet_iac

LEMMA NegCallIsRead ==
    ASSUME NEW v \in Verbs \cap Bytes, NEW o \in Bytes
    PROVE  Yields(Wire(<<"_send_negotiate", v, o>>), Read(<<"_send_negotiate", v, o>>))
  BY YieldsNeg DEF Wire, Read, Means, Subnegotiations

LEMMA SubCallIsRead ==
    ASSUME NEW o \in Bytes \ {"COMPRESS"}, NEW p \in Seq(Bytes), Len(p) <= Limit
    PROVE  Yields(Wire(<<"telnet_subnegotiation", o, p>>), Read(<<"telnet_subnegotiation", o, p>>))
  <1>1. Carries(telnet_send(p), p)
    BY SendCarries
  <1>2. Yields(telnet_begin_sb(o) \o telnet_send(p) \o telnet_finish_sb, subnegotiate(o, p))
    BY <1>1, SubIsRead
  <1> QED
    BY <1>2 DEF Wire, Read, Subnegotiations, Option, Payload, telnet_subnegotiation

LEMMA EnvironCallIsRead ==
    ASSUME NEW cmd \in {ENVIRON_IS, ENVIRON_SEND, ENVIRON_INFO}, NEW values \in Seq(EnvironTriples),
           Len(Payload(<<"telnet_newenviron", cmd, values>>)) <= Limit
    PROVE  Yields(Wire(<<"telnet_newenviron", cmd, values>>), Read(<<"telnet_newenviron", cmd, values>>))
  <1> DEFINE call == <<"telnet_newenviron", cmd, values>>
             p == Payload(call)
  <1>1. p = <<cmd>> \o FlattenSeq([k \in DOMAIN values |-> VariableBytes(values[k])])
    BY DEF Payload, VariableBytes
  <1>2. Wire(call) = SendEnviron(cmd, values) /\ Read(call) = subnegotiate("ENVIRON", p)
    BY DEF Wire, Read, Subnegotiations, Option
  <1> HIDE DEF p
  <1>3. Yields(SendEnviron(cmd, values), subnegotiate("ENVIRON", p))
    BY <1>1, EnvironIsSent DEF p
  <1> QED
    BY <1>2, <1>3

LEMMA TtypeSendIsRead ==
    ASSUME Len(Payload(<<"telnet_ttype_send">>)) <= Limit
    PROVE  Yields(Wire(<<"telnet_ttype_send">>), Read(<<"telnet_ttype_send">>))
  <1>1. Carries(<<TTYPE_SEND>>, <<TTYPE_SEND>>) /\ "TTYPE" \in Bytes \ {"COMPRESS"}
    BY CodesAre, PlainCarries
  <1>2. Payload(<<"telnet_ttype_send">>) = <<TTYPE_SEND>> /\ Option(<<"telnet_ttype_send">>) = "TTYPE"
    BY DEF Payload, Option
  <1>3. Yields(telnet_begin_sb("TTYPE") \o <<TTYPE_SEND>> \o telnet_finish_sb, subnegotiate("TTYPE", <<TTYPE_SEND>>))
    BY <1>1, <1>2, SubIsRead
  <1>4. Wire(<<"telnet_ttype_send">>) = telnet_begin_sb("TTYPE") \o <<TTYPE_SEND>> \o telnet_finish_sb
    BY DEF Wire, telnet_ttype_send
  <1>5. Read(<<"telnet_ttype_send">>) = subnegotiate("TTYPE", <<TTYPE_SEND>>)
    BY <1>2 DEF Read, Subnegotiations
  <1> QED
    BY <1>3, <1>4, <1>5

LEMMA TtypeIsIsRead ==
    ASSUME NEW s \in Seq(Bytes \ {"IAC", "NUL"}), Len(Payload(<<"telnet_ttype_is", s>>)) <= Limit
    PROVE  Yields(Wire(<<"telnet_ttype_is", s>>), Read(<<"telnet_ttype_is", s>>))
  <1> DEFINE call == <<"telnet_ttype_is", s>>
  <1>1. Carries(<<TTYPE_IS>>, <<TTYPE_IS>>) /\ "TTYPE" \in Bytes \ {"COMPRESS"}
    BY CodesAre, PlainCarries
  <1>2. Carries(s, s)
    <2>1. s \in Seq(Bytes \ {"IAC"})
      BY SeqDef
    <2> QED
      BY <2>1, PlainCarries
  <1>3. Payload(call) = <<TTYPE_IS>> \o s /\ Option(call) = "TTYPE"
    BY DEF Payload, Option
  <1>4. Yields(telnet_begin_sb("TTYPE") \o <<TTYPE_IS>> \o s \o telnet_finish_sb,
               subnegotiate("TTYPE", <<TTYPE_IS>> \o s))
    BY <1>1, <1>2, <1>3, SubIsReadTwo
  <1>5. Wire(call) = telnet_begin_sb("TTYPE") \o <<TTYPE_IS>> \o s \o telnet_finish_sb
    BY DEF Wire, telnet_ttype_is
  <1>6. Read(call) = subnegotiate("TTYPE", <<TTYPE_IS>> \o s)
    BY <1>3 DEF Read, Subnegotiations
  <1> QED
    BY <1>4, <1>5, <1>6

LEMMA ZmpCallIsRead ==
    ASSUME NEW argv \in Seq(Strings) \ {<<>>}, Len(Payload(<<"telnet_send_zmp", argv>>)) <= Limit
    PROVE  Yields(Wire(<<"telnet_send_zmp", argv>>), Read(<<"telnet_send_zmp", argv>>))
  <1> DEFINE call == <<"telnet_send_zmp", argv>>
             p == Payload(call)
  <1>1. p = FlattenSeq([k \in DOMAIN argv |-> Append(argv[k], "NUL")])
    BY DEF Payload
  <1>2. Wire(call) = telnet_send_zmp(argv) /\ Read(call) = subnegotiate("ZMP", p)
    BY DEF Wire, Read, Subnegotiations, Option
  <1> HIDE DEF p
  <1>3. Yields(telnet_send_zmp(argv), subnegotiate("ZMP", p))
    BY <1>1, ZmpIsSent DEF p
  <1> QED
    BY <1>2, <1>3

LEMMA CallIsRead ==
    ASSUME NEW call \in Calls, call[1] \in Subnegotiations => Len(Payload(call)) <= Limit
    PROVE  Yields(Wire(call), Read(call))
  <1>1. CASE call \in {"telnet_send", "telnet_send_text", "telnet_vprintf", "telnet_raw_vprintf"} \X Seq(Bytes)
    BY <1>1, DataCallIsRead
  <1>2. CASE call \in {"telnet_iac"} \X (Bytes \ (Verbs \cup {"SB", "IAC"}))
    BY <1>2, IacCallIsRead
  <1>3. CASE call \in {"_send_negotiate"} \X (Verbs \cap Bytes) \X Bytes
    BY <1>3, NegCallIsRead
  <1>4. CASE call \in {"telnet_subnegotiation"} \X (Bytes \ {"COMPRESS"}) \X Seq(Bytes)
    <2>1. PICK o \in Bytes \ {"COMPRESS"}, p \in Seq(Bytes) : call = <<"telnet_subnegotiation", o, p>>
      BY <1>4
    <2>2. Len(p) <= Limit
      BY <2>1 DEF Subnegotiations, Payload
    <2> QED
      BY <2>1, <2>2, SubCallIsRead
  <1>5. CASE call \in {"telnet_newenviron"} \X {ENVIRON_IS, ENVIRON_SEND, ENVIRON_INFO} \X Seq(EnvironTriples)
    <2>1. PICK cmd \in {ENVIRON_IS, ENVIRON_SEND, ENVIRON_INFO}, values \in Seq(EnvironTriples) :
              call = <<"telnet_newenviron", cmd, values>>
      BY <1>5
    <2>2. Len(Payload(call)) <= Limit
      BY <2>1 DEF Subnegotiations
    <2> QED
      BY <2>1, <2>2, EnvironCallIsRead
  <1>6. CASE call = <<"telnet_ttype_send">>
    <2>1. Len(Payload(call)) <= Limit
      BY <1>6 DEF Subnegotiations
    <2> QED
      BY <1>6, <2>1, TtypeSendIsRead
  <1>7. CASE call \in {"telnet_ttype_is"} \X Seq(Bytes \ {"IAC", "NUL"})
    <2>1. PICK s \in Seq(Bytes \ {"IAC", "NUL"}) : call = <<"telnet_ttype_is", s>>
      BY <1>7
    <2>2. Len(Payload(call)) <= Limit
      BY <2>1 DEF Subnegotiations
    <2> QED
      BY <2>1, <2>2, TtypeIsIsRead
  <1>8. CASE call \in {"telnet_send_zmp"} \X (Seq(Strings) \ {<<>>})
    <2>1. PICK argv \in Seq(Strings) \ {<<>>} : call = <<"telnet_send_zmp", argv>>
      BY <1>8
    <2>2. Len(Payload(call)) <= Limit
      BY <2>1 DEF Subnegotiations
    <2> QED
      BY <2>1, <2>2, ZmpCallIsRead
  <1>9. \/ call \in {"telnet_send", "telnet_send_text", "telnet_vprintf", "telnet_raw_vprintf"} \X Seq(Bytes)
        \/ call \in {"telnet_iac"} \X (Bytes \ (Verbs \cup {"SB", "IAC"}))
        \/ call \in {"_send_negotiate"} \X (Verbs \cap Bytes) \X Bytes
        \/ call \in {"telnet_subnegotiation"} \X (Bytes \ {"COMPRESS"}) \X Seq(Bytes)
        \/ call \in {"telnet_newenviron"} \X {ENVIRON_IS, ENVIRON_SEND, ENVIRON_INFO} \X Seq(EnvironTriples)
        \/ call = <<"telnet_ttype_send">>
        \/ call \in {"telnet_ttype_is"} \X Seq(Bytes \ {"IAC", "NUL"})
        \/ call \in {"telnet_send_zmp"} \X (Seq(Strings) \ {<<>>})
    BY Zenon DEF Calls, EnvironTriples, STARTS
  <1> QED
    BY <1>1, <1>2, <1>3, <1>4, <1>5, <1>6, <1>7, <1>8, <1>9

-----------------------------------------------------------------------------
(* The code that takes a payload apart finds in it what the call was made  *)
(* with.                                                                   *)
LEMMA ReadIsMeant ==
    ASSUME NEW call \in Calls,
           call[1] \in Subnegotiations => ~Excepted(Option(call), Payload(call))
    PROVE  Read(call) = Means(call)
  <1>1. CASE call[1] \notin Subnegotiations
    BY <1>1 DEF Read
  <1>4. CASE call \in {"telnet_subnegotiation"} \X (Bytes \ {"COMPRESS"}) \X Seq(Bytes)
    <2>1. PICK o \in Bytes \ {"COMPRESS"}, p \in Seq(Bytes) : call = <<"telnet_subnegotiation", o, p>>
      BY <1>4
    <2>2. Read(call) = subnegotiate(o, p) /\ Means(call) = SubMeans(o, p) /\ ~Excepted(o, p)
      BY <2>1 DEF Read, Means, Subnegotiations, Option, Payload
    <2> QED
      BY <2>2, SubIsMeant
  <1>5. CASE call \in {"telnet_newenviron"} \X {ENVIRON_IS, ENVIRON_SEND, ENVIRON_INFO} \X Seq(EnvironTriples)
    <2>1. PICK cmd \in {ENVIRON_IS, ENVIRON_SEND, ENVIRON_INFO}, values \in Seq(EnvironTriples) :
              call = <<"telnet_newenviron", cmd, values>>
      BY <1>5
    <2> DEFINE w == FlattenSeq([k \in DOMAIN values |-> VariableBytes(values[k])])
               p == <<cmd>> \o w
    <2>2. Read(call) = subnegotiate("ENVIRON", p) /\ Means(call) = <<Environ(cmd, values)>>
          /\ ~Excepted("ENVIRON", p)
      BY <2>1 DEF Read, Means, Subnegotiations, Option, Payload, VariableBytes
    <2>3. w \in Seq(Bytes) /\ EnvironMeans(p) = <<Environ(cmd, values)>>
      BY EnvironIsRead
    <2>4. p \in Seq(Bytes)
      <3>1. <<cmd>> \in Seq(Bytes)
        BY CodesAre
      <3> HIDE DEF w
      <3> QED
        BY <2>3, <3>1, ConcatProperties
    <2> HIDE DEF p
    <2>5. subnegotiate("ENVIRON", p) = SubMeans("ENVIRON", p)
      BY <2>2, <2>4, SubIsMeant
    <2> QED
      BY <2>2, <2>3, <2>5 DEF SubMeans
  <1>6. CASE call = <<"telnet_ttype_send">>
    <2>1. Read(call) = subnegotiate("TTYPE", <<TTYPE_SEND>>) /\ Means(call) = <<Ttype(TTYPE_SEND, NULL)>>
      BY <1>6 DEF Read, Means, Subnegotiations, Option, Payload
    <2>2. <<TTYPE_SEND>> \in Seq(Bytes)
      BY CodesAre
    <2>3. subnegotiate("TTYPE", <<TTYPE_SEND>>) = SubMeans("TTYPE", <<TTYPE_SEND>>)
      BY <2>2, SubIsMeant DEF Excepted
    <2> QED
      BY <2>1, <2>3, TtypeIsRead DEF SubMeans
  <1>7. CASE call \in {"telnet_ttype_is"} \X Seq(Bytes \ {"IAC", "NUL"})
    <2>1. PICK s \in Seq(Bytes \ {"IAC", "NUL"}) : call = <<"telnet_ttype_is", s>>
      BY <1>7
    <2> DEFINE p == <<TTYPE_IS>> \o s
    <2>2. Read(call) = subnegotiate("TTYPE", p) /\ Means(call) = <<Ttype(TTYPE_IS, s)>>
      BY <2>1 DEF Read, Means, Subnegotiations, Option, Payload
    <2>3. p \in Seq(Bytes) /\ TtypeMeans(p) = <<Ttype(TTYPE_IS, s)>>
      BY TtypeIsRead
    <2> HIDE DEF p
    <2>4. subnegotiate("TTYPE", p) = SubMeans("TTYPE", p)
      BY <2>3, SubIsMeant DEF Excepted
    <2> QED
      BY <2>2, <2>3, <2>4 DEF SubMeans
  <1>8. CASE call \in {"telnet_send_zmp"} \X (Seq(Strings) \ {<<>>})
    <2>1. PICK argv \in Seq(Strings) \ {<<>>} : call = <<"telnet_send_zmp", argv>>
      BY <1>8
    <2> DEFINE p == FlattenSeq([k \in DOMAIN argv |-> Append(argv[k], "NUL")])
    <2>2. Read(call) = subnegotiate("ZMP", p) /\ Means(call) = <<Zmp(argv)>>
      BY <2>1 DEF Read, Means, Subnegotiations, Option, Payload
    <2>3. p \in Seq(Bytes) /\ ZmpMeans(p) = <<Zmp(argv)>>
      BY ZmpIsRead
    <2> HIDE DEF p
    <2>4. subnegotiate("ZMP", p) = SubMeans("ZMP", p)
      BY <2>3, SubIsMeant DEF Excepted
    <2> QED
      BY <2>2, <2>3, <2>4 DEF SubMeans
  <1>9. \/ call[1] \notin Subnegotiations
        \/ call \in {"telnet_subnegotiation"} \X (Bytes \ {"COMPRESS"}) \X Seq(Bytes)
        \/ call \in {"telnet_newenviron"} \X {ENVIRON_IS, ENVIRON_SEND, ENVIRON_INFO} \X Seq(EnvironTriples)
        \/ call = <<"telnet_ttype_send">>
        \/ call \in {"telnet_ttype_is"} \X Seq(Bytes \ {"IAC", "NUL"})
        \/ call \in {"telnet_send_zmp"} \X (Seq(Strings) \ {<<>>})
    <2>1. \/ call \in {"telnet_send", "telnet_send_text", "telnet_vprintf", "telnet_raw_vprintf"} \X Seq(Bytes)
          \/ call \in {"telnet_iac"} \X (Bytes \ (Verbs \cup {"SB", "IAC"}))
          \/ call \in {"_send_negotiate"} \X (Verbs \cap Bytes) \X Bytes
          \/ call \in {"telnet_subnegotiation"} \X (Bytes \ {"COMPRESS"}) \X Seq(Bytes)
          \/ call \in {"telnet_newenviron"} \X {ENVIRON_IS, ENVIRON_SEND, ENVIRON_INFO} \X Seq(EnvironTriples)
          \/ call = <<"telnet_ttype_send">>
          \/ call \in {"telnet_ttype_is"} \X Seq(Bytes \ {"IAC", "NUL"})
          \/ call \in {"telnet_send_zmp"} \X (Seq(Strings) \ {<<>>})
      BY Zenon DEF Calls, EnvironTriples, STARTS
    <2> QED
      BY <2>1 DEF Subnegotiations
  <1> QED
    BY <1>1, <1>4, <1>5, <1>6, <1>7, <1>8, <1>9

LEMMA ScriptIsRead ==
    ASSUME NEW script \in Scripts
    PROVE  Yields(FlattenSeq([k \in DOMAIN script |-> Wire(script[k])]),
                  FlattenSeq([k \in DOMAIN script |-> Read(script[k])]))
  <1> DEFINE n == Len(script)
             ws == [k \in DOMAIN script |-> Wire(script[k])]
             xs == [k \in DOMAIN script |-> Read(script[k])]
  <1>1. n \in Nat /\ DOMAIN script = 1..n /\ \A k \in 1..n : script[k] \in Calls
    BY ScriptsAssumption, LenProperties, ElementOfSeq
  <1>2. ASSUME NEW k \in 1..n PROVE Yields(Wire(script[k]), Read(script[k]))
    <2>1. script[k] \in Calls /\ k \in DOMAIN script
      BY <1>1
    <2>2. script[k][1] \in Subnegotiations => Len(Payload(script[k])) <= Limit
      BY <2>1, ScriptsAssumption
    <2> QED
      BY <2>1, <2>2, CallIsRead
  <1>3. DOMAIN ws = 1..n /\ ws = [k \in 1..n |-> ws[k]] /\ DOMAIN xs = 1..n /\ xs = [k \in 1..n |-> xs[k]]
        /\ \A k \in 1..n : Yields(ws[k], xs[k])
    BY <1>1, <1>2
  <1> HIDE DEF n, ws, xs
  <1>4. \A w, x : Yields(w, x) => w \in Seq(Bytes) /\ x \in Seq(Events)
    BY DEF Yields
  <1>5. \A k \in 1..n : ws[k] \in Seq(Bytes) /\ xs[k] \in Seq(Events)
    BY ONLY <1>3, <1>4
  <1>6. ws \in Lists(Bytes) /\ Len(ws) = n
    BY ONLY <1>1, <1>3, <1>5, IsList
  <1>7. xs \in Lists(Events) /\ Len(xs) = n
    BY ONLY <1>1, <1>3, <1>5, IsList
  <1>8. Yields(FlattenSeq(ws), FlattenSeq(xs))
    BY ONLY <1>1, <1>3, <1>6, <1>7, YieldsFlatten
  <1> QED
    BY <1>8 DEF ws, xs

LEMMA ScriptIsMeant ==
    ASSUME NoneExcepted, NEW script \in Scripts
    PROVE  Yields(FlattenSeq([k \in DOMAIN script |-> Wire(script[k])]),
                  FlattenSeq([k \in DOMAIN script |-> Means(script[k])]))
  <1>1. ASSUME NEW k \in DOMAIN script PROVE Read(script[k]) = Means(script[k])
    <2>1. script[k] \in Calls
      BY ScriptsAssumption, LenProperties, ElementOfSeq
    <2>2. script[k][1] \in Subnegotiations => ~Excepted(Option(script[k]), Payload(script[k]))
      BY DEF NoneExcepted
    <2> QED
      BY <2>1, <2>2, ReadIsMeant
  <1>2. [k \in DOMAIN script |-> Read(script[k])] = [k \in DOMAIN script |-> Means(script[k])]
    BY <1>1
  <1> QED
    BY <1>2, ScriptIsRead

LEMMA ExStart ==
    ASSUME NoneExcepted, ExchangeInit
    PROVE  ExInv /\ meant \in Seq(Events)
  <1>1. Init /\ ReaderInit /\ told = <<>> /\ Yields(wire, meant)
    BY ScriptIsMeant DEF ExchangeInit
  <1>2. RecvInit /\ meant \in Seq(Events)
    BY <1>1 DEF RecvInit, Yields
  <1>3. RecvInv
    BY <1>2, RecvStart
  <1>4. told \in Seq(Events) /\ Ahead = wire
    <2>1. at = "out"
      BY <1>1 DEF ReaderInit
    <2> QED
      BY <1>1, <1>3, <2>1, AheadIs, EmptySeq
  <1>5. Decoder \in Decoders /\ Decoder.mode = "DATA" /\ Decoder.log = <<>>
    <2>1. LogInv /\ buf = <<>> /\ state = "DATA"
      BY <1>1, <1>3 DEF RecvInv, Init
    <2>2. Held = <<>> /\ Mode = "DATA"
      BY <2>1, NothingHeld
    <2>3. Decoder \in Decoders
      BY <1>4, <2>1, DecoderIs
    <2>4. told \o Held = <<>>
      BY <1>1, <2>2, ConcatEmptySeq, EmptySeq
    <2> QED
      BY <2>2, <2>3, <2>4 DEF Decoder
  <1>6. PICK e : Leads(Decoder, wire, e) /\ e.mode = "DATA" /\ e.log = Cat(Decoder.log, meant)
    BY <1>1, <1>5 DEF Yields
  <1>7. Cat(<<>>, meant) = meant
    BY <1>2, ConcatEmptySeq DEF Cat
  <1>8. DiscardsOldCompress
    BY <1>1 DEF Init, DiscardsOldCompress
  <1> QED
    BY <1>2, <1>3, <1>4, <1>5, <1>6, <1>7, <1>8 DEF ExInv, LeadsToMeant

LEMMA ExHolds == ASSUME NoneExcepted PROVE ExchangeSpec => []ExInv
  <1>1. ExInv /\ [ExchangeNext]_exchange => ExInv'
    BY ExStep
  <1>2. ExchangeInit => ExInv
    BY ExStart
  <1> QED
    BY <1>1, <1>2, PTL DEF ExchangeSpec

(* The receiving end of an exchange is the receiver of TelnetReceive: all  *)
(* that is proved of _TBP_recv for any stream holds of what it receives.   *)
THEOREM ExchangeReceives == ExchangeSpec => RecvSpec
  <1>1. ExchangeInit => RecvInit
    <2> SUFFICES ASSUME ExchangeInit PROVE RecvInit
      OBVIOUS
    <2>1. wire \in Seq(Bytes)
      BY ScriptIsRead DEF ExchangeInit, Yields
    <2> QED
      BY <2>1 DEF ExchangeInit, RecvInit
  <1>2. [ExchangeNext]_exchange => [RecvNext]_<<vars, reader, wire>>
    BY DEF ExchangeNext, RecvNext, exchange
  <1> QED
    BY <1>1, <1>2, PTL DEF ExchangeSpec, RecvSpec

(* The application of the receiving end is told what the sender's calls    *)
(* stand for, in that order, and all of it once the wire is empty and no   *)
(* call of telnet_recv is open: telnet_send, telnet_subnegotiation and the *)
(* calls built on them against _process and the parsers of _subnegotiate.  *)
(* The scripts send none of the two payloads that mean something else to   *)
(* the code (Excepted).  The condition of RoundTrip is always met.         *)
THEOREM RoundTripHolds ==
    ASSUME NoneExcepted PROVE ExchangeSpec => [](RoundTrip /\ ToldAsMeant)
  <1>1. ExInv => RoundTrip /\ ToldAsMeant
    BY InvIsRoundTrip DEF RoundTrip
  <1> QED
    BY <1>1, ExHolds, PTL

-----------------------------------------------------------------------------
(* The senders never lead the parser into the skip of an MCCPv1 sequence:  *)
(* between two ends of this library no event of wrapped size is told, and  *)
(* what is proved of _TBP_recv up to such an event holds throughout.       *)
THEOREM NeverWraps == ASSUME NoneExcepted PROVE ExchangeSpec => []DiscardsOldCompress
  <1>1. ExInv => DiscardsOldCompress
    BY DEF ExInv
  <1> QED
    BY <1>1, ExHolds, PTL

-----------------------------------------------------------------------------
(* What is returned, among what was told.                                  *)

(* r begins with s; behind what is picked from s the places a to b follow. *)
Takes(A, s, P, n, r, Q, m, a, b) ==
    /\ s \in Seq(A) /\ n \in Nat /\ n = Len(s) /\ r \in Seq(A) /\ m \in Nat /\ m = Len(r)
    /\ n <= m /\ a \in n + 1..m + 1 /\ b \in a - 1..m
    /\ \A k \in 1..n : (k \in Q <=> k \in P) /\ r[k] = s[k]
    /\ \A k \in n + 1..m : k \in Q <=> k \in a..b

LEMMA PickedOn ==
    ASSUME NEW A, NEW s, NEW P, NEW n, NEW r, NEW Q, NEW m, NEW a, NEW b,
           Takes(A, s, P, n, r, Q, m, a, b)
    PROVE  Picked(r, Q) = Cat(Picked(s, P), SubSeq(r, a, b))
  <1>1. /\ s \in Seq(A) /\ n \in Nat /\ n = Len(s) /\ r \in Seq(A) /\ m \in Nat /\ m = Len(r)
        /\ n <= m /\ a \in n + 1..m + 1 /\ b \in a - 1..m
        /\ \A k \in 1..n : (k \in Q <=> k \in P) /\ r[k] = s[k]
        /\ \A k \in n + 1..m : k \in Q <=> k \in a..b
    BY DEF Takes
  <1>2. PICK f : Picks(A, s, P, n, f)
    BY <1>1, PickedTo
  <1>3. PICK g : Picks(A, r, Q, m, g)
    BY <1>1, PickedTo
  <1> DEFINE S == {k \in 0..n : g[k] = f[k]}
  <1>4. f[0] = <<>> /\ Picked(s, P) = f[n] /\ f[n] \in Seq(A)
        /\ \A k \in 1..n : f[k] = IF k \in P THEN Append(f[k - 1], s[k]) ELSE f[k - 1]
    BY <1>1, <1>2 DEF Picks
  <1>5. g[0] = <<>> /\ Picked(r, Q) = g[m]
        /\ \A k \in 1..m : g[k] = IF k \in Q THEN Append(g[k - 1], r[k]) ELSE g[k - 1]
    BY <1>3 DEF Picks
  <1>6. 0 \in S
    BY <1>1, <1>4, <1>5
  <1>7. ASSUME NEW k \in 1..n, k - 1 \in S PROVE k \in S
    <2>1. k \in 1..m /\ k \in 0..n
      BY <1>1
    <2> QED
      BY <1>1, <1>4, <1>5, <1>7, <2>1
  <1> HIDE DEF S
  <1>8. 0..n \subseteq S
    BY <1>1, <1>6, <1>7, InductionUpTo
  <1> DEFINE x == f[n]
             c == a - 1
             l == b - c
  <1>9. g[n] = x
    BY <1>1, <1>8 DEF S
  <1>10. a \in Nat /\ b \in Nat /\ c \in Nat /\ l \in Nat /\ c + l = b /\ c + 1 = a /\ c \in n..m /\ c + 0 = c
    BY <1>1
  <1> HIDE DEF x, c, l
  <1>11. Gap(Q, m, n, c) /\ Gap(Q, m, b, m)
    <2>1. \A k \in n + 1..c : k \in n + 1..m /\ k \notin a..b
      BY <1>1, <1>10
    <2>2. \A k \in b + 1..m : k \in n + 1..m /\ k \notin a..b
      BY <1>1, <1>10
    <2>3. n \in 0..m /\ c \in n..m /\ b \in 0..m /\ m \in b..m
      BY <1>1, <1>10
    <2> QED
      BY <1>1, <2>1, <2>2, <2>3 DEF Gap
  <1>12. g[c] = x
    BY <1>3, <1>9, <1>11, PicksStay
  <1>13. g[m] = g[b]
    BY <1>3, <1>11, PicksStay
  <1> DEFINE D == {j \in 0..l : g[c + j] = x \o SubSeq(r, a, c + j)}
  <1>14. 0 \in D
    <2>1. a \in Int /\ c \in Int /\ c < a
      BY <1>10
    <2>2. SubSeq(r, a, c) = <<>>
      BY <2>1, SubSeqEmpty
    <2>3. x \o <<>> = x
      BY <1>4, ConcatEmptySeq DEF x
    <2> DEFINE h == c + 0
    <2>4. h = c /\ 0 \in 0..l
      BY <1>10
    <2> HIDE DEF h
    <2>5. g[h] = x \o SubSeq(r, a, h)
      BY <1>12, <2>2, <2>3, <2>4
    <2> QED
      BY <2>4, <2>5 DEF h
  <1>15. ASSUME NEW j \in 1..l, j - 1 \in D PROVE j \in D
    <2> DEFINE k == c + j
               d == c + (j - 1)
               y == SubSeq(r, a, d)
               e == r[k]
    <2>1. k \in 1..m /\ k \in n + 1..m /\ k \in a..b /\ k \in a..m /\ a \in 1..m /\ d = k - 1 /\ j \in 0..l
          /\ k \in Nat /\ d \in Nat /\ a \in 1..Len(r) /\ k \in a..Len(r)
      BY <1>1, <1>10
    <2>2. g[d] = x \o y
      BY <1>15
    <2> HIDE DEF d, k
    <2>3. k \in Q /\ g[k] = Append(g[d], e)
      BY <1>1, <1>5, <2>1
    <2>4. SubSeq(r, a, k) = y \o <<e>>
      <3>1. SubSeq(r, a, k) = SubSeq(r, a, k - 1) \o <<r[k]>>
        BY <1>1, <2>1, SubSeqRecursiveSecond
      <3> QED
        BY <2>1, <3>1
    <2>5. e \in A
      BY <1>1, <2>1, ElementOfSeq
    <2>6. y \in Seq(A)
      <3>1. \A q \in a..d : q \in 1..m
        BY <1>1, <1>10, <2>1
      <3>2. \A q \in a..d : r[q] \in A
        BY <1>1, <3>1, ElementOfSeq
      <3>3. a \in Int /\ d \in Int
        BY <2>1
      <3> QED
        BY <3>2, <3>3, SubSeqProperties
    <2> HIDE DEF y, e
    <2>7. Append(x \o y, e) = x \o (y \o <<e>>)
      <3> DEFINE u == <<e>>
      <3>1. x \in Str(A) /\ y \in Str(A) /\ u \in Str(A)
        BY <1>4, <2>5, <2>6 DEF Str, x
      <3>2. Cat(Cat(x, y), u) = Cat(x, Cat(y, u))
        BY <3>1, CatAssoc
      <3>3. Cat(x, y) \in Seq(A)
        BY <3>1, CatIn DEF Str
      <3>4. Append(Cat(x, y), e) = Cat(Cat(x, y), u)
        BY <2>5, <3>3, AppendIsConcat DEF Cat
      <3>5. Append(Cat(x, y), e) = Cat(x, Cat(y, u))
        BY <3>2, <3>4
      <3> QED
        BY <3>5 DEF Cat
    <2>8. g[k] = x \o SubSeq(r, a, k)
      BY <2>2, <2>3, <2>4, <2>7
    <2> QED
      BY <2>1, <2>8 DEF k
  <1> HIDE DEF D
  <1>16. 0..l \subseteq D
    BY <1>10, <1>14, <1>15, InductionUpTo
  <1>17. l \in D
    BY <1>10, <1>16
  <1>18. g[b] = x \o SubSeq(r, a, b)
    BY <1>10, <1>17 DEF D
  <1> QED
    BY <1>4, <1>5, <1>13, <1>18 DEF x, Cat

(* The bytes r stand in the log t, as data and in their order. *)
DataPlaces(t) == {k \in DOMAIN t : t[k][1] = "data"}
FoundIn(r, t) == \E P \in SUBSET DataPlaces(t) : DataOf(r) = Picked(t, P)

LEMMA FoundNone == ASSUME NEW t \in Seq(Events) PROVE FoundIn(<<>>, t)
  <1>1. Picked(t, {}) = <<>>
    <2>1. {} \cap 1..Len(t) = {}
      OBVIOUS
    <2> QED
      BY <2>1, PickedNone
  <1>2. DataOf(<<>>) = <<>>
    BY DEF DataOf
  <1> QED
    BY <1>1, <1>2 DEF FoundIn

(* A log that goes on has them, too. *)
LEMMA FoundLonger ==
    ASSUME NEW t \in Seq(Events), NEW u \in Seq(Events), NEW n, n = Len(t), n <= Len(u),
           \A k \in 1..n : u[k] = t[k], NEW r, FoundIn(r, t)
    PROVE  FoundIn(r, u)
  <1> DEFINE m == Len(u)
  <1>1. PICK P \in SUBSET DataPlaces(t) : DataOf(r) = Picked(t, P)
    BY DEF FoundIn
  <1>2. n \in Nat /\ m \in Nat /\ DOMAIN t = 1..n /\ DOMAIN u = 1..m /\ m = Len(u) /\ n <= m
    BY LenProperties
  <1> HIDE DEF m
  <1>3. \A k \in P : k \in 1..n /\ k \in 1..m /\ t[k][1] = "data"
    BY <1>2 DEF DataPlaces
  <1> DEFINE a == n + 1
  <1>4. Takes(Events, t, P, n, u, P, m, a, n)
    <2>1. \A k \in n + 1..m : k \notin P /\ k \notin a..n
      BY <1>2, <1>3
    <2>2. a \in n + 1..m + 1 /\ n \in a - 1..m
      BY <1>2
    <2> HIDE DEF a
    <2> QED
      BY <1>2, <2>1, <2>2 DEF Takes
  <1>5. SubSeq(u, a, n) = <<>>
    <2>1. a \in Int /\ n \in Int /\ n < a
      BY <1>2
    <2> HIDE DEF a
    <2> QED
      BY <2>1, SubSeqEmpty
  <1> HIDE DEF a
  <1>6. Picked(u, P) = Cat(Picked(t, P), SubSeq(u, a, n))
    BY ONLY <1>4, PickedOn
  <1>7. Picked(t, P) \in Seq(Events)
    <2>1. PICK f : Picks(Events, t, P, n, f)
      BY <1>2, PickedTo
    <2> QED
      BY <1>2, <2>1 DEF Picks
  <1>8. Picked(u, P) = Picked(t, P)
    BY <1>5, <1>6, <1>7, ConcatEmptySeq DEF Cat
  <1>9. P \in SUBSET DataPlaces(u)
    BY <1>2, <1>3 DEF DataPlaces
  <1> QED
    BY <1>1, <1>8, <1>9 DEF FoundIn

LEMMA FoundConcat ==
    ASSUME NEW t \in Seq(Events), NEW x \in Seq(Events), NEW r, FoundIn(r, t)
    PROVE  FoundIn(r, t \o x)
  <1> DEFINE u == t \o x
             n == Len(t)
  <1>1. n \in Nat /\ Len(x) \in Nat /\ u \in Seq(Events) /\ Len(u) = n + Len(x)
        /\ \A k \in 1..n + Len(x) : u[k] = IF k <= n THEN t[k] ELSE x[k - n]
    BY ConcatProperties, LenProperties
  <1> HIDE DEF u
  <1>2. n <= Len(u) /\ \A k \in 1..n : u[k] = t[k]
    BY <1>1
  <1>3. FoundIn(r, u)
    BY <1>1, <1>2, FoundLonger
  <1> QED
    BY <1>3 DEF u

(* The first n bytes of f were told one after the other. *)
ToldRun(log, f, n) == \E k \in 0..Len(log) - n : \A j \in 1..n : log[k + j] = Data(f[j])

(* What is returned last is found behind what was returned before. *)
LEMMA FoundMore ==
    ASSUME NEW t \in Seq(Events), NEW x \in Seq(Events), NEW r \in Seq(Bytes), FoundIn(r, t),
           NEW d \in Seq(Bytes), NEW l, l = Len(d), ToldRun(x, d, l)
    PROVE  FoundIn(r \o d, t \o x)
  <1> DEFINE n == Len(t)
             h == Len(x)
             u == t \o x
             m == n + h
  <1>1. PICK P \in SUBSET DataPlaces(t) : DataOf(r) = Picked(t, P)
    BY DEF FoundIn
  <1>2. PICK k \in 0..h - l : \A j \in 1..l : x[k + j] = Data(d[j])
    BY DEF ToldRun
  <1>3. n \in Nat /\ h \in Nat /\ l \in Nat /\ m \in Nat /\ DOMAIN t = 1..n
    BY LenProperties
  <1>4. u \in Seq(Events) /\ Len(u) = m /\ \A q \in 1..m : u[q] = IF q <= n THEN t[q] ELSE x[q - n]
    BY ConcatProperties
  <1> HIDE DEF n, h, u
  <1>5. DOMAIN u = 1..m
    BY <1>4, LenProperties
  <1> DEFINE a == n + k + 1
             b == n + k + l
             Q == P \cup a..b
  <1>6. m = n + h /\ a = n + k + 1 /\ b = n + k + l
    OBVIOUS
  <1> HIDE DEF m, a, b
  <1>7. k \in Nat /\ a \in n + 1..m + 1 /\ b \in a - 1..m /\ n <= m /\ a \in Nat /\ b \in Nat /\ b - a + 1 = l
    BY <1>3, <1>6
  <1>8. \A q \in P : q \in 1..n /\ t[q][1] = "data"
    BY <1>3 DEF DataPlaces
  <1>9. Takes(Events, t, P, n, u, Q, m, a, b)
    <2>1. \A q \in n + 1..m : q \in Q <=> q \in a..b
      <3>1. \A q \in n + 1..m : q \notin 1..n
        BY <1>3
      <3> QED
        BY <1>8, <3>1
    <2>2. \A q \in 1..n : (q \in Q <=> q \in P) /\ u[q] = t[q]
      <3>1. \A q \in 1..n : q \notin a..b /\ q \in 1..m /\ q <= n
        BY <1>3, <1>7
      <3> QED
        BY <1>4, <3>1
    <2> HIDE DEF Q
    <2>3. t \in Seq(Events) /\ n = Len(t)
      BY DEF n
    <2> QED
      BY ONLY <1>3, <1>4, <1>7, <2>1, <2>2, <2>3 DEF Takes
  <1>10. \A j \in 1..l : u[a + j - 1] = Data(d[j]) /\ a + j - 1 \in a..b
    <2> SUFFICES ASSUME NEW j \in 1..l PROVE u[a + j - 1] = Data(d[j]) /\ a + j - 1 \in a..b
      OBVIOUS
    <2> DEFINE q == a + j - 1
    <2>1. q \in 1..m /\ ~(q <= n) /\ q - n = k + j /\ q \in a..b
      BY <1>3, <1>6, <1>7
    <2> HIDE DEF q
    <2>2. u[q] = x[k + j]
      BY <1>4, <2>1
    <2> QED
      BY <1>2, <2>1, <2>2 DEF q
  <1>11. \A q \in a..b : u[q] \in Events /\ u[q][1] = "data"
    <2> SUFFICES ASSUME NEW q \in a..b PROVE u[q] \in Events /\ u[q][1] = "data"
      OBVIOUS
    <2> DEFINE j == q - a + 1
    <2>1. j \in 1..l /\ a + j - 1 = q /\ q \in 1..m
      BY <1>3, <1>6, <1>7
    <2> HIDE DEF j
    <2>2. u[q] = Data(d[j])
      BY <1>10, <2>1
    <2>3. u[q] \in Events
      BY <1>4, <2>1, ElementOfSeq
    <2> QED
      BY <2>2, <2>3 DEF Data
  <1>12. SubSeq(u, a, b) = DataOf(d)
    <2> DEFINE v == SubSeq(u, a, b)
               w == DataOf(d)
    <2>1. a \in Int /\ b \in Int /\ (IF a <= b THEN b - a + 1 ELSE 0) = l
      BY <1>3, <1>7
    <2>2. v \in Seq(Events) /\ Len(v) = (IF a <= b THEN b - a + 1 ELSE 0)
          /\ \A j \in 1..b - a + 1 : v[j] = u[a + j - 1]
      BY <1>11, <2>1, SubSeqProperties
    <2>3. w \in Seq(Events) /\ Len(w) = l /\ \A j \in 1..l : w[j] = Data(d[j])
      BY <1>3, DataIs
    <2> HIDE DEF v, w
    <2>4. Len(v) = l /\ \A j \in 1..l : v[j] = w[j]
      BY <1>7, <1>10, <2>1, <2>2, <2>3
    <2>5. v = w
      BY <2>2, <2>3, <2>4, SeqEqual
    <2> QED
      BY <2>5 DEF v, w
  <1>13. Picked(u, Q) = Cat(Picked(t, P), SubSeq(u, a, b))
    <2> HIDE DEF Q
    <2> QED
      BY ONLY <1>9, PickedOn
  <1>14. Picked(u, Q) = DataOf(r \o d)
    BY <1>1, <1>12, <1>13, DataConcat DEF Cat
  <1>15. Q \in SUBSET DataPlaces(u)
    <2>1. ASSUME NEW q \in P PROVE q \in DataPlaces(u)
      <3>1. q \in 1..n /\ q \in 1..m /\ q <= n
        BY <1>3, <1>7, <1>8
      <3> QED
        BY <1>4, <1>5, <1>8, <3>1 DEF DataPlaces
    <2>2. ASSUME NEW q \in a..b PROVE q \in DataPlaces(u)
      <3>1. q \in 1..m
        BY <1>3, <1>7
      <3> QED
        BY <1>5, <1>11, <3>1 DEF DataPlaces
    <2> QED
      BY <2>1, <2>2
  <1>16. FoundIn(r \o d, u)
    BY <1>14, <1>15 DEF FoundIn
  <1> QED
    BY <1>16 DEF u

(* What is in front of the buffer was told in this telnet_recv, behind all *)
(* that was returned before.                                               *)
OrderInv ==
    /\ at # "parse" => FoundIn(returned, told)
    /\ at = "parse" =>
           \E base, since \in Seq(Events) :
               /\ told = base \o since /\ FoundIn(returned, base)
               /\ flag => recvBytes # 0 /\ ToldRun(since, mem, recvBytes)

LEMMA RunStays ==
    ASSUME NEW log \in Seq(Events), NEW x \in Seq(Events), NEW f, NEW n \in Nat, ToldRun(log, f, n)
    PROVE  ToldRun(log \o x, f, n)
  <1> DEFINE all == log \o x
  <1>1. /\ Len(log) \in Nat /\ Len(x) \in Nat /\ Len(all) = Len(log) + Len(x)
        /\ \A k \in 1..Len(log) + Len(x) : all[k] = IF k <= Len(log) THEN log[k] ELSE x[k - Len(log)]
    BY ConcatProperties, LenProperties
  <1> HIDE DEF all
  <1>2. PICK k \in 0..Len(log) - n : \A j \in 1..n : log[k + j] = Data(f[j])
    BY DEF ToldRun
  <1>3. \A j \in 1..n : k + j \in 1..Len(log) + Len(x) /\ k + j <= Len(log)
    BY <1>1
  <1>4. \A j \in 1..n : all[k + j] = Data(f[j])
    BY <1>1, <1>2, <1>3
  <1>5. k \in 0..Len(all) - n
    BY <1>1
  <1> QED
    BY <1>4, <1>5 DEF ToldRun, all

LEMMA RunComes ==
    ASSUME NEW log \in Seq(Events), NEW x \in Seq(Events), NEW f, NEW n, n = Len(x),
           \A k \in 1..n : x[k] = Data(f[k])
    PROVE  ToldRun(log \o x, f, n)
  <1> DEFINE all == log \o x
             l == Len(log)
  <1>1. /\ l \in Nat /\ n \in Nat /\ Len(all) = l + n
        /\ \A k \in 1..l + n : all[k] = IF k <= l THEN log[k] ELSE x[k - l]
    BY ConcatProperties, LenProperties
  <1> HIDE DEF all, l
  <1>2. \A j \in 1..n : l + j \in 1..l + n /\ ~(l + j <= l) /\ (l + j) - l = j
    BY <1>1
  <1>3. \A j \in 1..n : all[l + j] = Data(f[j])
    BY <1>1, <1>2
  <1>4. l \in 0..Len(all) - n
    BY <1>1
  <1> QED
    BY <1>3, <1>4 DEF ToldRun, all

LEMMA NotWrapped == \A items : AllData(items) \/ NoData(items) => items # <<Wrapped>>
  <1>1. Len(<<Wrapped>>) = 1 /\ <<Wrapped>>[1] = Wrapped /\ Wrapped[1] = "wrapped"
    BY DEF Wrapped
  <1> QED
    BY <1>1 DEF AllData, NoData, Dataless

(* A turn of the parser and the handler. *)
LEMMA RunStep ==
    ASSUME RecvInv, telnetEvtHandler, NEW items \in Seq(Items), Deliver(items),
           items # <<Wrapped>>, NoData(items) \/ (AllData(items) /\ Len(items) <= BufSize),
           NEW since \in Seq(Events), flag => recvBytes # 0 /\ ToldRun(since, mem, recvBytes)
    PROVE  /\ Heard(NewItems) \in Seq(Events) /\ recvBytes' \in 0..BufSize
           /\ DataSeen => recvBytes' # 0 /\ ToldRun(since \o Heard(NewItems), mem', recvBytes')
  <1>1. LogInv /\ ReadInv /\ BufSize \in Nat
    BY FlagsAssumption DEF RecvInv, BufSize
  <1>2. NewItems = items /\ Heard(items) \in Seq(Events)
    BY <1>1, NewAre, HeardIs
  <1>3. flag \in BOOLEAN /\ recvBytes \in Nat /\ DataSeen \in BOOLEAN
    BY <1>1 DEF ReadInv, DataSeen
  <1>4. /\ recvBytes' \in 0..BufSize
        /\ NoData(items) => UNCHANGED <<mem, recvBytes>> /\ (DataSeen <=> flag)
        /\ ~NoData(items) => /\ DataSeen /\ Len(items) \in 1..BufSize
                             /\ recvBytes' = Len(items)
                             /\ \A k \in 1..Len(items) : items[k] = Data(mem'[k])
    <2>1. /\ recvBytes' \in 0..BufSize
          /\ NoData(items) => UNCHANGED <<mem, recvBytes>> /\ (DataSeen <=> flag)
          /\ items = <<Wrapped>> => DataSeen /\ recvBytes' = BufSize
          /\ ~NoData(items) /\ items # <<Wrapped>> =>
                /\ DataSeen /\ Len(items) \in 1..BufSize
                /\ recvBytes' = Len(items)
                /\ \A k \in 1..Len(items) : items[k] = Data(mem'[k])
      BY <1>1, HandlerMoves
    <2> QED
      BY ONLY <2>1, items # <<Wrapped>>
  <1>5. CASE NoData(items)
    <2>1. mem' = mem /\ recvBytes' = recvBytes /\ DataSeen = flag
      BY <1>3, <1>4, <1>5
    <2>2. flag => recvBytes # 0 /\ ToldRun(since \o Heard(items), mem, recvBytes)
      BY <1>2, <1>3, RunStays
    <2> QED
      BY <1>2, <1>4, <2>1, <2>2
  <1>6. CASE ~NoData(items)
    <2>1. Heard(items) = items
      BY <1>6, HeardData
    <2>2. recvBytes' = Len(items) /\ recvBytes' # 0 /\ \A k \in 1..Len(items) : items[k] = Data(mem'[k])
      BY <1>1, <1>4, <1>6
    <2>3. items \in Seq(Events)
      BY <1>2, <2>1
    <2>4. ToldRun(since \o items, mem', Len(items))
      BY <2>2, <2>3, RunComes
    <2> QED
      BY <1>2, <1>4, <2>1, <2>2, <2>4
  <1> QED
    BY <1>5, <1>6

LEMMA FinishOrders ==
    ASSUME ExInv, FrontInv, OrderInv, Finish, told' = told \o Heard(NewItems)
    PROVE  OrderInv'
  <1>1. RecvInv /\ LogInv /\ at = "parse" /\ told \in Seq(Events) /\ returned \in Seq(Bytes) /\ BufSize \in Nat
    BY FlagsAssumption DEF ExInv, RecvInv, FrontInv, Finish, BufSize
  <1>2. /\ telnetEvtHandler /\ Deliver(Held)
        /\ IF DataSeen THEN returned' = returned \o SubSeq(mem', 1, recvBytes') /\ at' = "out"
           ELSE at' = "recv" /\ UNCHANGED returned
    BY NeverSkipping DEF Finish, EndCall
  <1>3. Held \in Seq(Items) /\ Held # <<Wrapped>> /\ AllData(Held) /\ Len(Held) <= BufSize
    <2>1. i <= BufSize /\ i \in Nat
      BY <1>1, NoItemsAreShort DEF LogInv, TypeOK, BufSize
    <2> QED
      BY <1>1, <2>1, HeldIsShort, NotWrapped
  <1>4. PICK base \in Seq(Events), since \in Seq(Events) :
           /\ told = base \o since /\ FoundIn(returned, base)
           /\ flag => recvBytes # 0 /\ ToldRun(since, mem, recvBytes)
    BY <1>1 DEF OrderInv
  <1> DEFINE heard == Heard(NewItems)
             x == since \o heard
  <1>5. /\ heard \in Seq(Events) /\ recvBytes' \in 0..BufSize
        /\ DataSeen => recvBytes' # 0 /\ ToldRun(x, mem', recvBytes')
    BY <1>1, <1>2, <1>3, <1>4, RunStep
  <1> HIDE DEF heard
  <1>6. x \in Seq(Events) /\ told' = base \o x
    <2>1. base \in Str(Events) /\ since \in Str(Events) /\ heard \in Str(Events)
      BY <1>4, <1>5 DEF Str
    <2>2. Cat(Cat(base, since), heard) = Cat(base, Cat(since, heard)) /\ Cat(since, heard) \in Str(Events)
      BY <2>1, CatAssoc, CatIn
    <2>3. told' = Cat(Cat(base, since), heard)
      BY <1>4 DEF Cat, heard
    <2>4. told' = Cat(base, Cat(since, heard))
      BY <2>2, <2>3
    <2> QED
      BY <2>2, <2>4 DEF Cat, Str
  <1> HIDE DEF x
  <1>7. CASE DataSeen
    <2> DEFINE n == recvBytes'
               d == SubSeq(mem', 1, n)
    <2>1. n # 0 /\ n \in 0..BufSize /\ ToldRun(x, mem', n)
      BY <1>5, <1>7
    <2>2. d \in Seq(Bytes) /\ Len(d) = n /\ \A j \in 1..n : d[j] = mem'[j]
      <3>1. mem' \in [1..BufSize -> Bytes]
        BY <1>1, RecvStep DEF Finish, RecvNext, RecvInv, ReadInv
      <3> QED
        BY <2>1, <3>1, FrontIs
    <2>3. returned' = returned \o d /\ at' = "out"
      BY <1>2, <1>7
    <2> HIDE DEF d, n
    <2>4. ToldRun(x, d, n)
      BY <2>1, <2>2 DEF ToldRun
    <2>5. FoundIn(returned \o d, base \o x)
      BY <1>1, <1>4, <1>6, <2>2, <2>4, FoundMore
    <2> QED
      BY <1>6, <2>3, <2>5 DEF OrderInv
  <1>8. CASE ~DataSeen
    <2>1. at' = "recv" /\ returned' = returned
      BY <1>2, <1>8
    <2>2. FoundIn(returned, base \o x)
      BY <1>4, <1>6, FoundConcat
    <2> QED
      BY <1>6, <2>1, <2>2 DEF OrderInv
  <1> QED
    BY <1>7, <1>8

LEMMA ParseOrders ==
    ASSUME ExInv, FrontInv, OrderInv, Parse, told' = told \o Heard(NewItems)
    PROVE  OrderInv'
  <1>1. RecvInv /\ LogInv /\ ReadInv /\ told \in Seq(Events) /\ BufSize \in Nat
    BY FlagsAssumption DEF ExInv, RecvInv, BufSize
  <1>2. /\ at = "parse" /\ at' = "parse" /\ i < Len(raw) /\ ReadByte(mem[i + 1])
        /\ telnetEvtHandler /\ flag' = DataSeen /\ UNCHANGED returned
    BY DEF Parse
  <1>3. mem[i + 1] \in Bytes /\ state # "EOL"
    BY <1>1, <1>2, NextByte DEF ReadInv
  <1>4. PICK items : Tells(items)
    BY <1>1, <1>2, <1>3, ByteTells
  <1>5. items \in Seq(Items) /\ Deliver(items) /\ items # <<Wrapped>>
        /\ (NoData(items) \/ (AllData(items) /\ Len(items) <= BufSize))
    <2>3. ~Skipping
      BY NeverSkipping
    <2>1. Fits(items) /\ items \in Seq(Items) /\ Deliver(items) /\ Len(items) \in Nat
      BY <1>4, LenProperties DEF Tells
    <2>2. i + 1 <= BufSize /\ i \in Nat
      BY <1>1, <1>2, NoItemsAreShort, LenProperties DEF ReadInv
    <2> QED
      BY <1>1, <2>1, <2>2, <2>3, NotWrapped DEF Fits, Short, AllData, Dataless
  <1>6. PICK base \in Seq(Events), since \in Seq(Events) :
           /\ told = base \o since /\ FoundIn(returned, base)
           /\ flag => recvBytes # 0 /\ ToldRun(since, mem, recvBytes)
    BY <1>2 DEF OrderInv
  <1> DEFINE heard == Heard(NewItems)
             x == since \o heard
  <1>7. /\ heard \in Seq(Events)
        /\ DataSeen => recvBytes' # 0 /\ ToldRun(x, mem', recvBytes')
    BY <1>1, <1>2, <1>5, <1>6, RunStep
  <1> HIDE DEF heard
  <1>8. x \in Seq(Events) /\ told' = base \o x
    <2>1. base \in Str(Events) /\ since \in Str(Events) /\ heard \in Str(Events)
      BY <1>6, <1>7 DEF Str
    <2>2. Cat(Cat(base, since), heard) = Cat(base, Cat(since, heard)) /\ Cat(since, heard) \in Str(Events)
      BY <2>1, CatAssoc, CatIn
    <2>3. told' = Cat(Cat(base, since), heard)
      BY <1>6 DEF Cat, heard
    <2>4. told' = Cat(base, Cat(since, heard))
      BY <2>2, <2>3
    <2> QED
      BY <2>2, <2>4 DEF Cat, Str
  <1> HIDE DEF x
  <1>9. FoundIn(returned', base) /\ (flag' => recvBytes' # 0 /\ ToldRun(x, mem', recvBytes'))
    BY <1>2, <1>6, <1>7
  <1> QED
    BY <1>2, <1>6, <1>8, <1>9 DEF OrderInv

LEMMA OtherOrders ==
    ASSUME ExInv, FrontInv, OrderInv, Enter \/ Receive \/ WouldBlock, UNCHANGED told
    PROVE  OrderInv'
  <1>1. told \in Seq(Events)
    BY DEF ExInv
  <1>2. CASE Receive
    <2>1. at = "recv" /\ at' = "parse" /\ UNCHANGED <<flag, returned>> /\ ~flag /\ FoundIn(returned, told)
      BY <1>2 DEF Receive, FrontInv, OrderInv
    <2>2. told = told \o <<>> /\ <<>> \in Seq(Events)
      BY <1>1, ConcatEmptySeq, EmptySeq
    <2>3. told' = told \o <<>> /\ FoundIn(returned', told) /\ ~flag'
      BY <2>1, <2>2
    <2> QED
      BY <1>1, <2>1, <2>2, <2>3 DEF OrderInv
  <1>3. CASE Enter \/ WouldBlock
    <2>1. at # "parse" /\ at' # "parse" /\ UNCHANGED returned
      BY <1>3 DEF Enter, WouldBlock
    <2> QED
      BY <2>1 DEF OrderInv
  <1> QED
    BY <1>2, <1>3

LEMMA OrderStep ==
    ASSUME ExInv, FrontInv, OrderInv, [ExchangeNext]_exchange
    PROVE  FrontInv' /\ OrderInv'
  <1>1. FrontInv'
    <2>1. [RecvNext]_<<vars, reader, wire>>
      BY DEF ExchangeNext, RecvNext, exchange
    <2> QED
      BY <2>1, ReturnStep DEF ExInv
  <1>2. CASE UNCHANGED exchange
    <2>1. UNCHANGED <<vars, reader, wire, meant, told>>
      BY <1>2 DEF exchange
    <2> QED
      BY <1>1, <2>1 DEF vars, reader, OrderInv, FoundIn, ToldRun
  <1>3. CASE ExchangeNext
    BY <1>1, <1>3, ParseOrders, FinishOrders, OtherOrders DEF ExchangeNext
  <1> QED
    BY <1>2, <1>3

LEMMA OrderStart ==
    ASSUME ExchangeInit
    PROVE  FrontInv /\ OrderInv
  <1>1. returned = <<>> /\ at = "out" /\ told = <<>> /\ flag = FALSE
    BY DEF ExchangeInit, ReaderInit
  <1>2. FrontInv
    BY <1>1, EmptySeq DEF FrontInv
  <1>3. FoundIn(<<>>, <<>>)
    BY EmptySeq, FoundNone
  <1> QED
    BY <1>1, <1>2, <1>3 DEF OrderInv

(* What was told is the beginning of what was meant. *)
LEMMA InvIsInOrder ==
    ASSUME ExInv, OrderInv, FrontInv
    PROVE  DataInOrder
  <1>1. told \in Seq(Events) /\ at \in {"out", "recv", "parse"}
    BY DEF ExInv, RecvInv, ReadInv
  <1>2. FoundIn(returned, told)
    <2>1. CASE at # "parse"
      BY <2>1 DEF OrderInv
    <2>2. CASE at = "parse"
      <3>1. PICK base \in Seq(Events), since \in Seq(Events) : told = base \o since /\ FoundIn(returned, base)
        BY <2>2 DEF OrderInv
      <3> QED
        BY <3>1, FoundConcat
    <2> QED
      BY <2>1, <2>2
  <1>3. FoundIn(returned, meant)
    BY <1>1, <1>2, ToldIsMeant, FoundLonger
  <1> QED
    BY <1>3 DEF FoundIn, DataPlaces, DataInOrder

(* What _TBP_recv hands to its caller was sent as data, in that order: it  *)
(* may lose what another run overwrote in recvBuf (see NothingTypedIsLost) *)
(* but it never invents, repeats or reorders a byte.  Here too the         *)
(* condition of ReturnedInOrder is always met.                             *)
THEOREM ReturnedInOrderHolds ==
    ASSUME NoneExcepted PROVE ExchangeSpec => [](ReturnedInOrder /\ DataInOrder)
  <1>1. ExchangeInit => FrontInv /\ OrderInv
    BY OrderStart
  <1>2. ExInv /\ FrontInv /\ OrderInv /\ [ExchangeNext]_exchange => FrontInv' /\ OrderInv'
    BY OrderStep
  <1>3. ExInv /\ OrderInv /\ FrontInv => ReturnedInOrder /\ DataInOrder
    BY InvIsInOrder DEF ReturnedInOrder
  <1> QED
    BY <1>1, <1>2, <1>3, ExHolds, PTL DEF ExchangeSpec
==============================================================================
