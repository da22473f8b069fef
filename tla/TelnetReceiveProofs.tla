------------------------- MODULE TelnetReceiveProofs -------------------------
(***************************************************************************)
(* Theorems about TelnetParser and, behind them, TelnetReceive, for any    *)
(* stream, alphabet, sizes of the buffers, flags and length of calls.  Of  *)
(* the parser: types (ParserTypeOK), the position of the pending data      *)
(* (StartStaysInBuffer), and that cutting the stream into calls makes no   *)
(* difference to what the application is told (ParserImplementsStream).    *)
(* Of the loop of _TBP_recv around it: it is safe that the handler moves   *)
(* data to the front of the very buffer the parser is reading              *)
(* (BufferIsSafe), what is told inside the loop is what the bytes say one  *)
(* by one (ReceiveImplementsStream), and what is returned is the end of    *)
(* the data that was told (LastRunIsReturned).  All but the first two      *)
(* except the event of wrapped size, which an MCCPv1 sequence cut behind   *)
(* its WILL brings about: what they say up to it and from it on, and what  *)
(* they do not say of it, is with each.                                    *)
(***************************************************************************)
EXTENDS TelnetReceive, SequenceTheorems, TLAPS

-----------------------------------------------------------------------------
(* _buffer_sizes: the last one is the largest, and there is a larger one   *)
(* behind every other.                                                     *)
IsSize(s) == s \in {Sizes[k] : k \in DOMAIN Sizes}

LEMMA SizesAreBounded ==
    ASSUME NEW s, IsSize(s)
    PROVE  s \in Nat /\ Limit \in Nat /\ s <= Limit
  <1>1. DOMAIN Sizes = 1..Len(Sizes) /\ Len(Sizes) \in Nat /\ Len(Sizes) > 1
        /\ \A k \in 1..Len(Sizes) : Sizes[k] \in Nat
    BY SizesAssumption, LenProperties, ElementOfSeq
  <1>2. PICK k \in 1..Len(Sizes) : s = Sizes[k]
    BY <1>1 DEF IsSize
  <1>3. CASE k = Len(Sizes)
    BY <1>1, <1>2, <1>3 DEF Limit
  <1>4. CASE k < Len(Sizes)
    <2>1. Sizes[k] < Sizes[Len(Sizes)]
      BY <1>1, <1>4, SizesAssumption
    <2> QED
      BY <1>1, <1>2, <2>1 DEF Limit
  <1>5. k = Len(Sizes) \/ k < Len(Sizes)
    <2>1. Len(Sizes) \in Nat
      BY <1>1
    <2> QED
      BY <2>1
  <1> QED
    BY <1>3, <1>4, <1>5

LEMMA GrownIsLarger ==
    ASSUME NEW s, IsSize(s), s # Limit
    PROVE  IsSize(Grown(s)) /\ Grown(s) \in Nat /\ s < Grown(s)
  <1>1. DOMAIN Sizes = 1..Len(Sizes) /\ Len(Sizes) \in Nat /\ Len(Sizes) > 1
        /\ \A k \in 1..Len(Sizes) : Sizes[k] \in Nat
    BY SizesAssumption, LenProperties, ElementOfSeq
  <1> DEFINE P(k) == Sizes[k] = s
             c == CHOOSE k \in 1..Len(Sizes) - 1 : P(k)
  <1>2. \E k \in 1..Len(Sizes) - 1 : P(k)
    BY <1>1 DEF IsSize, Limit
  <1>3. c \in 1..Len(Sizes) - 1 /\ P(c)
    BY <1>2
  <1>4. Grown(s) = Sizes[1 + c]
    BY DEF Grown
  <1> HIDE DEF c
  <1>5. c \in DOMAIN Sizes /\ 1 + c \in DOMAIN Sizes /\ c < 1 + c
    BY <1>1, <1>3
  <1>6. Sizes[c] < Sizes[1 + c]
    BY <1>5, SizesAssumption
  <1> QED
    BY <1>1, <1>3, <1>4, <1>5, <1>6 DEF IsSize

-----------------------------------------------------------------------------
(* The inductive invariant: types, where start may be, and that a call     *)
(* begins with it at 0.                                                    *)
PosInv ==
    /\ StartInBuffer
    /\ buf = <<>> => start = 0

LEMMA PosInit == Init => TypeOK /\ PosInv
  <1> SUFFICES ASSUME Init PROVE TypeOK /\ PosInv
    OBVIOUS
  <1>1. sub \in Seq(Bytes) /\ Len(sub) = 0 /\ buf \in Seq(Bytes) /\ i = 0
    BY EmptySeq DEF Init, i
  <1>2. 0 = Sizes[1] /\ 1 \in DOMAIN Sizes
    BY SizesAssumption, LenProperties
  <1>3. size \in {Sizes[k] : k \in DOMAIN Sizes}
    BY <1>2 DEF Init
  <1>4. state = "DATA" /\ sb_telopt = "NUL" /\ size = 0 /\ binary = FALSE /\ start = 0
    BY DEF Init
  <1>5. TypeOK
    <2>1. Len(sub) <= size /\ i <= MaxCall
      BY <1>1, <1>4, FlagsAssumption
    <2>2. state \in States /\ sb_telopt \in Bytes \cup {"NUL"} /\ binary \in BOOLEAN
          /\ start \in Nat
      BY <1>4 DEF States
    <2> QED
      BY <1>1, <1>3, <2>1, <2>2 DEF TypeOK
  <1>6. PosInv
    BY <1>1, <1>4 DEF PosInv, StartInBuffer
  <1> QED
    BY <1>5, <1>6

(* One byte more. *)
LEMMA BufGrows ==
    ASSUME TypeOK, NEW b \in Bytes, i < MaxCall, buf' = Append(buf, b)
    PROVE  /\ buf' \in Seq(Bytes) /\ i' = i + 1 /\ i' <= MaxCall /\ i \in Nat
           /\ buf' # <<>>
           /\ buf'[i + 1] = b /\ \A k \in 1..i : buf'[k] = buf[k]
  BY AppendProperties, LenProperties, FlagsAssumption DEF TypeOK, i

LEMMA BufferByteKeeps ==
    ASSUME TypeOK, NEW b \in Bytes, BufferByte(b)
    PROVE  /\ state' \in {"DATA", "SB_DATA"}
           /\ sub' \in Seq(Bytes)
           /\ size' \in {Sizes[k] : k \in DOMAIN Sizes}
           /\ Len(sub') <= size'
           /\ start' = i + 1 \/ (start' = start /\ state' = "SB_DATA")
  <1>1. Len(sub) \in Nat /\ IsSize(size) /\ size \in Nat /\ Len(sub) <= size
    BY LenProperties, SizesAreBounded DEF TypeOK, IsSize
  <1>2. CASE /\ Full => size # Limit
             /\ sub' = Append(sub, b)
             /\ size' = IF Full THEN Grown(size) ELSE size
             /\ Goto("SB_DATA") /\ UNCHANGED start
    <2>1. sub' \in Seq(Bytes) /\ Len(sub') = Len(sub) + 1
      BY <1>2, AppendProperties DEF TypeOK
    <2>2. CASE Full
      BY <1>1, <1>2, <2>1, <2>2, GrownIsLarger DEF Goto, IsSize, Full
    <2>3. CASE ~Full
      BY <1>1, <1>2, <2>1, <2>3 DEF Goto, IsSize, Full
    <2> QED
      BY <2>2, <2>3
  <1>3. CASE Goto("DATA") /\ start' = i + 1 /\ UNCHANGED <<sub, size>>
    BY <1>1, <1>3 DEF Goto, TypeOK
  <1> QED
    BY <1>2, <1>3 DEF BufferByte

LEMMA ReadBytePos ==
    ASSUME TypeOK, PosInv, NEW b \in Bytes, ReadByte(b)
    PROVE  TypeOK' /\ PosInv'
  <1>0. buf' = Append(buf, b) /\ i < MaxCall
    BY DEF ReadByte
  <1>1. buf' \in Seq(Bytes) /\ i' = i + 1 /\ i' <= MaxCall /\ i \in Nat /\ buf' # <<>>
    BY <1>0, BufGrows
  <1> DEFINE Fine == /\ state' \in States
                     /\ sb_telopt' \in Bytes \cup {"NUL"}
                     /\ sub' \in Seq(Bytes)
                     /\ size' \in {Sizes[k] : k \in DOMAIN Sizes}
                     /\ Len(sub') <= size'
                     /\ binary' \in BOOLEAN
                     /\ start' \in Nat /\ start' <= i + 2
                     /\ start' > i + 1 => state' = "DATA" /\ sb_telopt' = "COMPRESS"
  <1>2. ASSUME Fine PROVE TypeOK' /\ PosInv'
    <2>1. TypeOK'
      BY <1>0, <1>1, <1>2 DEF TypeOK
    <2>2. StartInBuffer'
      BY <1>1, <1>2 DEF StartInBuffer
    <2> QED
      BY <1>1, <2>1, <2>2 DEF PosInv
  <1> USE DEF Goto, KeepSub
  <1>3. ASSUME InData(b) PROVE Fine
    BY <1>1, <1>3 DEF InData, TypeOK, PosInv, StartInBuffer, States
  <1>4. ASSUME InEol(b) PROVE Fine
    BY <1>1, <1>4 DEF InEol, TypeOK, PosInv, StartInBuffer, States
  <1>5. ASSUME InIac(b) PROVE Fine
    BY <1>1, <1>5 DEF InIac, Follows, TypeOK, PosInv, StartInBuffer, States
  <1>6. ASSUME InVerb(b) PROVE Fine
    BY <1>1, <1>6 DEF InVerb, Verbs, TypeOK, PosInv, StartInBuffer, States
  <1>7. ASSUME InSb(b) PROVE Fine
    <2>1. sub' = <<>> /\ sub' \in Seq(Bytes) /\ Len(sub') = 0
      BY <1>7, EmptySeq DEF InSb
    <2>2. size \in Nat
      BY SizesAreBounded DEF TypeOK, IsSize
    <2> QED
      BY <1>1, <1>7, <2>1, <2>2 DEF InSb, TypeOK, PosInv, StartInBuffer, States
  <1>8. ASSUME InSbData(b) PROVE Fine
    <2>1. CASE BufferByte(b)
      BY <1>1, <1>8, <2>1, BufferByteKeeps DEF InSbData, TypeOK, PosInv, StartInBuffer, States
    <2>2. CASE ~BufferByte(b)
      BY <1>1, <1>8, <2>2 DEF InSbData, OldCompress, TypeOK, PosInv, StartInBuffer, States
    <2> QED
      BY <2>1, <2>2
  <1>9. ASSUME InSbDataIac(b) PROVE Fine
    <2>1. CASE BufferByte(b)
      BY <1>1, <1>9, <2>1, BufferByteKeeps DEF InSbDataIac, TypeOK, PosInv, StartInBuffer, States
    <2>2. CASE ~BufferByte(b)
      BY <1>1, <1>9, <2>2 DEF InSbDataIac, Follows, Verbs, TypeOK, PosInv, StartInBuffer, States
    <2> QED
      BY <2>1, <2>2
  <1> QED
    BY <1>2, <1>3, <1>4, <1>5, <1>6, <1>7, <1>8, <1>9 DEF ReadByte

LEMMA PosStep == TypeOK /\ PosInv /\ [Next]_vars => TypeOK' /\ PosInv'
  <1> SUFFICES ASSUME TypeOK, PosInv, [Next]_vars PROVE TypeOK' /\ PosInv'
    OBVIOUS
  <1>1. CASE EndCall
    <2>1. buf' = <<>> /\ buf' \in Seq(Bytes) /\ i' = 0
      BY <1>1, EmptySeq DEF EndCall, i
    <2> QED
      BY <1>1, <2>1, FlagsAssumption DEF EndCall, TypeOK, PosInv, StartInBuffer
  <1>2. CASE UNCHANGED vars
    BY <1>2 DEF vars, TypeOK, PosInv, StartInBuffer, i
  <1> QED
    BY <1>1, <1>2, ReadBytePos DEF Next

LEMMA PosHolds == Spec => [](TypeOK /\ PosInv)
  BY PosInit, PosStep, PTL DEF Spec

(* The parser's state keeps its type: above all, the bytes of a            *)
(* subnegotiation always fit the buffer, whose size is one of the table's. *)
THEOREM ParserTypeOK == Spec => []TypeOK
  BY PosHolds, PTL

(* The start of the pending data is in the buffer of the call, or one byte *)
(* behind what was read after the WILL of an MCCPv1 sequence.              *)
THEOREM StartStaysInBuffer == Spec => []StartInBuffer
  BY PosHolds, PTL DEF PosInv

-----------------------------------------------------------------------------
(* What the refinement is about: the events there are, the log that a step *)
(* of the running call goes on from, and what TelnetStream calls out.      *)
Codes == {"overflow", "nomem", "protocol"}
Items ==
    {Data(b) : b \in Bytes \cup {"CR", "IAC"}} \cup {Iac(b) : b \in Bytes}
    \cup {Neg(v, b) : v \in Verbs, b \in Bytes}
    \cup {Sub(o, s) : o \in Bytes \cup {"NUL"}, s \in Seq(Bytes)}
    \cup {Error(c) : c \in Codes} \cup {Wrapped}

Log == IF buf = <<>> THEN <<>> ELSE delivered
Out == delivered \o Held

LogInv == TypeOK /\ PosInv /\ delivered \in Seq(Items)

LEMMA ToldItems == ASSUME NEW b \in Bytes PROVE Told(b) \in Seq(Items)
  <1>1. Data("IAC") \in Items /\ Iac(b) \in Items
    BY DEF Items
  <1>2. <<>> \in Seq(Items) /\ <<Data("IAC")>> \in Seq(Items) /\ <<Iac(b)>> \in Seq(Items)
    BY <1>1
  <1>3. Told(b) = <<>> \/ Told(b) = <<Data("IAC")>> \/ Told(b) = <<Iac(b)>>
    BY DEF Told
  <1> QED
    BY <1>2, <1>3

(* The pending data is a sequence of events, and a byte of data makes it   *)
(* one longer.                                                             *)
LEMMA RunIsSeq ==
    ASSUME TypeOK, start <= i
    PROVE  /\ Run \in Seq(Items) /\ Len(Run) = i - start
           /\ \A k \in 1..(i - start) : Run[k] = Data(buf[start + k])
  <1>1. i \in Nat /\ start \in Nat /\ i - start \in Nat
    BY LenProperties DEF TypeOK, i
  <1>2. ASSUME NEW k \in 1..(i - start) PROVE Data(buf[start + k]) \in Items
    <2>1. start + k \in 1..Len(buf)
      BY <1>1 DEF i
    <2>2. buf[start + k] \in Bytes
      BY <2>1, ElementOfSeq DEF TypeOK
    <2> QED
      BY <2>2 DEF Items
  <1>3. Run \in [1..(i - start) -> Items]
    BY <1>2 DEF Run
  <1>4. Run \in Seq(Items)
    BY <1>1, <1>3, SeqDef
  <1> QED
    BY <1>1, <1>3, <1>4, LenProperties DEF Run

LEMMA HeldIsSeq == ASSUME TypeOK PROVE Held \in Seq(Items)
  <1>1. CASE state = "DATA" /\ start < i
    <2>1. start <= i
      BY <1>1, LenProperties DEF TypeOK, i
    <2> QED
      BY <1>1, <2>1, RunIsSeq DEF Held
  <1>2. CASE ~(state = "DATA" /\ start < i)
    BY <1>2 DEF Held
  <1> QED
    BY <1>1, <1>2

LEMMA HeldNothing ==
    ASSUME TypeOK, state # "DATA" \/ start >= i
    PROVE  Held = <<>>
  <1>1. i \in Nat /\ start \in Nat
    BY LenProperties DEF TypeOK, i
  <1> QED
    BY <1>1 DEF Held

LEMMA LastIndex ==
    ASSUME NEW n \in Nat, NEW s \in Nat, s <= n, NEW k \in 1..(n + 1 - s)
    PROVE  /\ k = n + 1 - s => s + k = n + 1 /\ (n - s) + 1 = k
           /\ k # n + 1 - s => k \in 1..(n - s) /\ s + k \in 1..n
  OBVIOUS

LEMMA HeldGrows ==
    ASSUME TypeOK, TypeOK', NEW b \in Bytes, i < MaxCall, buf' = Append(buf, b),
           state' = "DATA", start' \in Nat, start' <= i,
           start' = i \/ (state = "DATA" /\ start' = start)
    PROVE  Held' = (IF start' = i THEN <<>> ELSE Held) \o <<Data(b)>>
  <1>1. i' = i + 1 /\ i \in Nat /\ buf'[i + 1] = b /\ \A k \in 1..i : buf'[k] = buf[k]
    BY BufGrows
  <1>2. Held' = Run' /\ start' <= i'
    BY <1>1 DEF Held
  <1>3. Run' \in Seq(Items) /\ Len(Run') = i' - start'
        /\ \A k \in 1..(i' - start') : Run'[k] = Data(buf'[start' + k])
    <2>1. (TypeOK /\ start <= i => /\ Run \in Seq(Items) /\ Len(Run) = i - start
                                  /\ \A k \in 1..(i - start) : Run[k] = Data(buf[start + k]))'
      BY RunIsSeq, PTL
    <2> QED
      BY <1>2, <2>1
  <1>4. Data(b) \in Items
    BY DEF Items
  <1> DEFINE old == IF start' = i THEN <<>> ELSE Held
  <1>5. old \in Seq(Items) /\ Len(old) = i - start'
        /\ \A k \in 1..(i - start') : old[k] = Data(buf[start' + k])
    <2>1. CASE start' = i
      BY <1>1, <2>1
    <2>2. CASE start' # i
      <3>1. state = "DATA" /\ start' = start /\ start < i /\ start <= i
        BY <1>1, <2>2
      <3> QED
        BY <2>2, <3>1, RunIsSeq DEF Held
    <2> QED
      BY <2>1, <2>2
  <1> HIDE DEF old
  <1>6. /\ Append(old, Data(b)) \in Seq(Items)
        /\ Len(Append(old, Data(b))) = Len(old) + 1
        /\ \A k \in 1..Len(old) : Append(old, Data(b))[k] = old[k]
        /\ Append(old, Data(b))[Len(old) + 1] = Data(b)
    BY <1>4, <1>5, AppendProperties
  <1>7. ASSUME NEW k \in 1..Len(Run') PROVE Run'[k] = Append(old, Data(b))[k]
    <2>0. i' = i + 1 /\ i \in Nat /\ Len(Run') = i' - start'
      BY <1>1, <1>3
    <2>2. k \in 1..(i + 1 - start')
      <3>1. Len(Run') = i + 1 - start'
        BY <2>0
      <3> QED
        BY <3>1, Zenon
    <2>1. Run'[k] = Data(buf'[start' + k])
      BY <1>3, <2>0
    <2>3. /\ k = i + 1 - start' => start' + k = i + 1 /\ (i - start') + 1 = k
          /\ k # i + 1 - start' => k \in 1..(i - start') /\ start' + k \in 1..i
      BY <2>0, <2>2, LastIndex
    <2>4. CASE k = i + 1 - start'
      <3>1. Append(old, Data(b))[k] = Data(b)
        BY <1>5, <1>6, <2>3, <2>4
      <3> QED
        BY <1>1, <2>1, <2>3, <2>4, <3>1
    <2>5. CASE k # i + 1 - start'
      <3>1. Append(old, Data(b))[k] = Data(buf[start' + k])
        BY <1>5, <1>6, <2>3, <2>5
      <3> QED
        BY <1>1, <2>1, <2>3, <2>5, <3>1
    <2> QED
      BY <2>4, <2>5
  <1>8. Len(Run') = Len(Append(old, Data(b)))
    BY <1>1, <1>3, <1>5, <1>6
  <1>9. Run' = Append(old, Data(b))
    BY <1>3, <1>6, <1>7, <1>8, SeqEqual
  <1>10. Append(old, Data(b)) = old \o <<Data(b)>>
    BY <1>4, <1>5, AppendIsConcat
  <1> QED
    BY <1>2, <1>9, <1>10 DEF old

-----------------------------------------------------------------------------
(* TelnetStream's Tell, in the parser's terms. *)
LEMMA TellIs ==
    ASSUME LogInv, NEW b \in Bytes, ReadByte(b), NEW items \in Seq(Items),
           Out' = (Log \o Held) \o items
    PROVE  Stream!Tell(items)
  <1>1. CASE buf = <<>>
    <2>1. start = 0 /\ i = 0
      BY <1>1, EmptySeq DEF LogInv, PosInv, i
    <2>2. Held = <<>>
      BY <2>1, HeldNothing DEF LogInv
    <2>3. Log \o Held = <<>>
      BY <1>1, <2>2, EmptySeq, ConcatEmptySeq DEF Log
    <2> QED
      BY <1>1, <2>3 DEF Stream!Tell, Out
  <1>2. CASE buf # <<>>
    BY <1>2 DEF Stream!Tell, Out, Log
  <1> QED
    BY <1>1, <1>2

LEMMA PassedIsSeq == ASSUME TypeOK PROVE Passed \in Seq(Items) /\ <<Wrapped>> \in Seq(Items)
  <1>1. Wrapped \in Items
    BY DEF Items
  <1>2. <<Wrapped>> \in Seq(Items)
    BY <1>1
  <1> QED
    BY <1>2, HeldIsSeq DEF Passed

LEMMA LogIsSeq == ASSUME LogInv PROVE Log \in Seq(Items) /\ Held \in Seq(Items)
  BY EmptySeq, HeldIsSeq DEF LogInv, Log

(* The three ways a byte is told: the pending data goes out and nothing is *)
(* pending; events are told while nothing was and nothing is pending; the  *)
(* byte joins the pending data, behind events if there was none.           *)
LEMMA TellsHeld ==
    ASSUME LogInv, NEW b \in Bytes, ReadByte(b), Deliver(Held), Held' = <<>>
    PROVE  Stream!Tell(<<>>) /\ delivered' \in Seq(Items)
  <1>1. Log \in Seq(Items) /\ Held \in Seq(Items) /\ <<>> \in Seq(Items)
    BY LogIsSeq, EmptySeq
  <1>2. delivered' = Log \o Held
    BY DEF Deliver, Log
  <1>3. Out' = (Log \o Held) \o <<>>
    BY <1>2 DEF Out
  <1> QED
    BY <1>1, <1>2, <1>3, TellIs, ConcatProperties

LEMMA TellsEvents ==
    ASSUME LogInv, NEW b \in Bytes, ReadByte(b), NEW items \in Seq(Items),
           Deliver(items), Held = <<>>, Held' = <<>>
    PROVE  Stream!Tell(items) /\ delivered' \in Seq(Items)
  <1>1. Log \in Seq(Items) /\ Log \o items \in Seq(Items)
    BY LogIsSeq, ConcatProperties
  <1>2. delivered' = Log \o items
    BY DEF Deliver, Log
  <1>3. Out' = Log \o items /\ Log \o Held = Log
    BY <1>1, <1>2, ConcatEmptySeq DEF Out
  <1> QED
    BY <1>1, <1>2, <1>3, TellIs

LEMMA AssocItems ==
    ASSUME NEW x \in Seq(Items), NEW y \in Seq(Items), NEW z \in Seq(Items)
    PROVE  (x \o y) \o z = x \o (y \o z)
  BY ConcatAssociative

LEMMA TellsByte ==
    ASSUME LogInv, NEW b \in Bytes, ReadByte(b), NEW last \in Seq(Items),
           Deliver(<<>>), Held' = Held \o last
    PROVE  Stream!Tell(last) /\ delivered' \in Seq(Items)
  <1>1. Log \in Seq(Items) /\ Held \in Seq(Items)
    BY LogIsSeq
  <1>2. delivered' = Log
    BY <1>1, ConcatEmptySeq DEF Deliver, Log
  <1>3. Out' = Log \o (Held \o last)
    BY <1>2 DEF Out
  <1>4. (Log \o Held) \o last = Log \o (Held \o last)
    BY <1>1, AssocItems
  <1> QED
    BY <1>1, <1>2, <1>3, <1>4, TellIs

LEMMA TellsLine ==
    ASSUME LogInv, NEW b \in Bytes, ReadByte(b), NEW items \in Seq(Items), NEW last \in Seq(Items),
           Held = <<>>, Deliver(items), Held' = last
    PROVE  Stream!Tell(items \o last) /\ delivered' \in Seq(Items)
  <1>1. Log \in Seq(Items) /\ Log \o items \in Seq(Items) /\ items \o last \in Seq(Items)
    BY LogIsSeq, ConcatProperties
  <1>2. delivered' = Log \o items
    BY DEF Deliver, Log
  <1>3. Out' = (Log \o items) \o last
    BY <1>2 DEF Out
  <1>4. (Log \o items) \o last = Log \o (items \o last)
    BY <1>1, AssocItems
  <1>5. Log \o Held = Log
    BY <1>1, ConcatEmptySeq
  <1> QED
    BY <1>1, <1>2, <1>3, <1>4, <1>5, TellIs

-----------------------------------------------------------------------------
(* Where a byte is read, and where it leaves the parser, in the stream's   *)
(* terms.                                                                  *)
Mode == IF Skipping THEN "SKIP" ELSE state

LEMMA ModeIs ==
    ASSUME TypeOK
    PROVE  /\ state # "DATA" \/ start <= i => Mode = state
           /\ state = "DATA" /\ start > i => Mode = "SKIP"
           /\ state # "DATA" \/ start <= i => ~Skipping /\ Passed = Held
  <1>1. i \in Nat /\ start \in Nat
    BY LenProperties DEF TypeOK, i
  <1> QED
    BY <1>1 DEF Mode, Skipping, Passed

LEMMA ByteIn ==
    ASSUME LogInv, TypeOK', NEW b \in Bytes, ReadByte(b)
    PROVE  /\ i \in Nat /\ start \in Nat /\ start <= i + 1 /\ i' = i + 1
           /\ buf' = Append(buf, b) /\ buf' # <<>> /\ i < MaxCall
           /\ state # "DATA" => start <= i /\ Mode = state /\ Held = <<>>
           /\ state' # "DATA" \/ start' = i + 1 => Mode' = state' /\ Held' = <<>>
           /\ Sub(sb_telopt, sub) \in Items /\ Data("CR") \in Items /\ Data(b) \in Items
  <1>1. buf' = Append(buf, b) /\ i < MaxCall
    BY DEF ReadByte
  <1>2. i \in Nat /\ i' = i + 1 /\ buf' # <<>>
    BY <1>1, BufGrows DEF LogInv
  <1>3. start \in Nat /\ start <= i + 1 /\ (state # "DATA" => start <= i)
    BY <1>2 DEF LogInv, TypeOK, PosInv, StartInBuffer
  <1>4. state # "DATA" => Mode = state /\ Held = <<>>
    BY ModeIs, HeldNothing DEF LogInv
  <1>5. ASSUME state' # "DATA" \/ start' = i + 1 PROVE Mode' = state' /\ Held' = <<>>
    <2>1. (TypeOK => (state # "DATA" \/ start <= i => Mode = state))'
      BY ModeIs, PTL
    <2>2. (TypeOK => (state # "DATA" \/ start >= i => Held = <<>>))'
      BY HeldNothing, PTL
    <2>3. state' # "DATA" \/ (start' <= i' /\ start' >= i')
      BY <1>2, <1>5
    <2> QED
      BY <2>1, <2>2, <2>3
  <1>6. Sub(sb_telopt, sub) \in Items /\ Data("CR") \in Items /\ Data(b) \in Items
    <2>1. sub \in Seq(Bytes) /\ sb_telopt \in Bytes \cup {"NUL"}
      BY DEF LogInv, TypeOK
    <2>2. Sub(sb_telopt, sub) \in Items
      BY <2>1 DEF Items
    <2>3. Data("CR") \in Items /\ Data(b) \in Items
      BY DEF Items
    <2> QED
      BY <2>2, <2>3
  <1> QED
    BY <1>1, <1>2, <1>3, <1>4, <1>5, <1>6

-----------------------------------------------------------------------------
(* Each state of the parser reads a byte as the stream's decoder does. *)
Reads(b) == Stream!Byte(b) /\ delivered' \in Seq(Items)

LEMMA Refines ==
    ASSUME LogInv, TypeOK', NEW b \in Bytes, ReadByte(b),
           \/ Stream!Plain(b) \/ Stream!LineEnd(b) \/ Stream!Command(b) \/ Stream!Negotiation(b)
           \/ Stream!SubOption(b) \/ Stream!SubByte(b) \/ Stream!SubCommand(b) \/ Stream!Skipped,
           delivered' \in Seq(Items)
    PROVE  Reads(b)
  <1>1. (buf # <<>>)' = TRUE
    BY ByteIn
  <1> QED
    BY <1>1 DEF Reads, Stream!Byte

LEMMA NoItems == <<>> \in Seq(Items)
  BY EmptySeq

LEMMA OneItem == ASSUME NEW d \in Items PROVE <<d>> \in Seq(Items) /\ <<>> \o <<d>> = <<d>>
  <1>1. <<d>> \in Seq(Items)
    OBVIOUS
  <1> QED
    BY <1>1, ConcatEmptySeq

LEMMA TwoItems == \A x, y : <<x>> \o <<y>> = <<x, y>>
  <1> TAKE x, y
  <1>1. /\ <<x>> \in Seq({x, y}) /\ <<y>> \in Seq({x, y}) /\ <<x, y>> \in Seq({x, y})
        /\ Len(<<x>>) = 1 /\ Len(<<y>>) = 1 /\ Len(<<x, y>>) = 2
    OBVIOUS
  <1> DEFINE s == <<x>> \o <<y>>
  <1>2. s \in Seq({x, y}) /\ Len(s) = 2
        /\ \A k \in 1..2 : s[k] = IF k <= 1 THEN <<x>>[k] ELSE <<y>>[k - 1]
    BY <1>1, ConcatProperties
  <1> HIDE DEF s
  <1>3. s[1] = x /\ s[2] = y
    BY <1>2
  <1>4. \A k \in 1..Len(s) : s[k] = <<x, y>>[k]
    BY <1>2, <1>3
  <1>5. s = <<x, y>>
    BY <1>1, <1>2, <1>4, SeqEqual
  <1> QED
    BY <1>5 DEF s

(* The events have the same names in both modules. *)
LEMMA SameEvents ==
    /\ \A b : Stream!Data(b) = Data(b)
    /\ \A v, b : Stream!Neg(v, b) = Neg(v, b)
    /\ \A o, x : Stream!Sub(o, x) = Sub(o, x)
    /\ \A c : Stream!Error(c) = Error(c)
    /\ \A b : Stream!Told(b) = Told(b) /\ Stream!Follows(b) = Follows(b)
    /\ Stream!Verbs = Verbs
  BY DEF Stream!Data, Data, Stream!Neg, Neg, Stream!Sub, Sub, Stream!Error, Error,
         Stream!Told, Told, Stream!Follows, Follows, Stream!Verbs, Verbs, Stream!Iac, Iac

LEMMA InDataReads ==
    ASSUME LogInv, TypeOK', NEW b \in Bytes, ReadByte(b), InData(b)
    PROVE  Reads(b) \/ (Wraps /\ delivered' \in Seq(Items))
  <1>0. state = "DATA" /\ UNCHANGED <<sb_telopt, sub, size, start, binary>>
    BY DEF InData, KeepSub
  <1>1. /\ i \in Nat /\ start \in Nat /\ start <= i + 1 /\ i' = i + 1
        /\ state' # "DATA" \/ start' = i + 1 => Mode' = state' /\ Held' = <<>>
    BY ByteIn
  <1>2. ASSUME b = "IAC" \/ EndOfLine(b), start <= i, state' = (IF b = "IAC" THEN "IAC" ELSE "EOL"),
               Deliver(Passed)
        PROVE  Reads(b)
    <2>1. Mode = "DATA" /\ Mode' = state' /\ Held' = <<>> /\ Passed = Held
      BY <1>0, <1>1, <1>2, ModeIs DEF LogInv
    <2>2. Stream!Tell(<<>>) /\ delivered' \in Seq(Items)
      BY <1>2, <2>1, TellsHeld
    <2>3. Stream!Plain(b)
      BY <1>0, <1>2, <2>1, <2>2 DEF Stream!Plain, Stream!Same, Stream!Goto, Stream!EndOfLine, EndOfLine, Mode
    <2> QED
      BY <2>2, <2>3, Refines
  <1>3. ASSUME b # "IAC", ~EndOfLine(b), state' = "DATA", Deliver(<<>>), start <= i
        PROVE  Reads(b)
    <2>1. Mode = "DATA"
      BY <1>0, <1>3, ModeIs DEF LogInv
    <2>2. Held' = (IF start' = i THEN <<>> ELSE Held) \o <<Data(b)>>
      BY <1>0, <1>1, <1>3, ByteIn, HeldGrows DEF LogInv
    <2>3. start' = i => Held = <<>>
      BY <1>0, <1>1, HeldNothing DEF LogInv
    <2>4. Held' = Held \o <<Data(b)>>
      BY <2>2, <2>3
    <2>5. <<Data(b)>> \in Seq(Items)
      BY ByteIn, OneItem
    <2>6. Stream!Tell(<<Data(b)>>) /\ delivered' \in Seq(Items)
      BY <1>3, <2>4, <2>5, TellsByte
    <2>7. Mode' = "DATA"
      <3>1. start' <= i'
        BY <1>0, <1>1, <1>3
      <3>2. (TypeOK => (state # "DATA" \/ start <= i => Mode = state))'
        BY ModeIs, PTL
      <3> QED
        BY <1>3, <3>1, <3>2
    <2>8. Stream!Plain(b)
      BY <1>0, <1>3, <2>1, <2>6, <2>7, SameEvents DEF Stream!Plain, Stream!Same, Stream!Goto, Stream!EndOfLine, EndOfLine, Mode
    <2> QED
      BY <2>6, <2>8, Refines
  <1>4. ASSUME state' = "DATA", Deliver(<<>>), ~(start <= i)
        PROVE  Reads(b)
    <2>1. start = i + 1 /\ start > i
      BY <1>1, <1>4
    <2>2. Mode = "SKIP" /\ Held = <<>> /\ Mode' = "DATA" /\ Held' = <<>>
      BY <1>0, <1>1, <1>4, <2>1, ModeIs, HeldNothing DEF LogInv
    <2>3. Stream!Tell(<<>>) /\ delivered' \in Seq(Items)
      BY <1>4, <2>2, NoItems, TellsEvents
    <2>4. Stream!Skipped
      BY <1>0, <2>2, <2>3 DEF Stream!Skipped, Stream!Same, Stream!Goto, Mode
    <2> QED
      BY <2>3, <2>4, Refines
  <1>5. ASSUME Deliver(Passed), ~(start <= i)
        PROVE  Wraps /\ delivered' \in Seq(Items)
    <2>1. Skipping /\ Passed = <<Wrapped>>
      BY <1>0, <1>1, <1>5 DEF Skipping, Passed
    <2>2. delivered' = Log \o <<Wrapped>> /\ Log \in Seq(Items) /\ <<Wrapped>> \in Seq(Items)
      BY <1>5, <2>1, LogIsSeq, PassedIsSeq DEF Deliver, Log, LogInv
    <2> QED
      BY <1>0, <1>5, <2>1, <2>2, ConcatProperties DEF Wraps
  <1>6. \/ /\ b = "IAC" \/ EndOfLine(b)
           /\ state' = (IF b = "IAC" THEN "IAC" ELSE "EOL") /\ Deliver(Passed)
        \/ b # "IAC" /\ ~EndOfLine(b) /\ state' = "DATA" /\ Deliver(<<>>)
    BY DEF InData, EndOfLine, Goto
  <1> QED
    BY <1>2, <1>3, <1>4, <1>5, <1>6

LEMMA InEolReads ==
    ASSUME LogInv, TypeOK', NEW b \in Bytes, ReadByte(b), InEol(b)
    PROVE  Reads(b)
  <1>0. state = "EOL" /\ state' = "DATA" /\ UNCHANGED <<sb_telopt, sub, size, binary>>
        /\ Deliver(IF b = "LF" THEN <<>> ELSE <<Data("CR")>>)
        /\ start' = IF b = "NUL" THEN i + 1 ELSE i
    BY DEF InEol, KeepSub, Goto
  <1>1. /\ i \in Nat /\ start \in Nat /\ i' = i + 1 /\ Mode = state /\ Held = <<>>
        /\ state' # "DATA" \/ start' = i + 1 => Mode' = state' /\ Held' = <<>>
        /\ buf' = Append(buf, b) /\ i < MaxCall
        /\ Data("CR") \in Items /\ Data(b) \in Items
    BY <1>0, ByteIn
  <1>2. <<Data("CR")>> \in Seq(Items) /\ <<Data(b)>> \in Seq(Items) /\ <<>> \o <<Data(b)>> = <<Data(b)>>
    BY <1>1, OneItem
  <1>3. CASE b = "NUL"
    <2>1. Stream!Tell(<<Data("CR")>>) /\ delivered' \in Seq(Items) /\ Mode' = "DATA"
      BY <1>0, <1>1, <1>2, <1>3, TellsEvents
    <2>2. Stream!LineEnd(b)
      BY <1>0, <1>1, <1>3, <2>1, SameEvents DEF Stream!LineEnd, Stream!Same, Stream!Goto, Mode
    <2> QED
      BY <2>1, <2>2, Refines
  <1>4. ASSUME b # "NUL" PROVE Held' = <<Data(b)>> /\ Mode' = "DATA"
    <2>1. start' = i /\ start' \in Nat /\ start' <= i /\ start' <= i'
      BY <1>0, <1>1, <1>4
    <2>2. Held' = <<>> \o <<Data(b)>>
      BY <1>0, <1>1, <2>1, HeldGrows DEF LogInv
    <2>3. (TypeOK => (state # "DATA" \/ start <= i => Mode = state))'
      BY ModeIs, PTL
    <2> QED
      BY <1>0, <1>2, <2>1, <2>2, <2>3
  <1>5. CASE b = "LF"
    <2>1. Deliver(<<>>) /\ Held' = <<Data(b)>>
      BY <1>0, <1>4, <1>5
    <2>2. Stream!Tell(<<>> \o <<Data(b)>>) /\ delivered' \in Seq(Items)
      BY <1>1, <1>2, <2>1, NoItems, TellsLine
    <2>3. Stream!LineEnd(b)
      BY <1>0, <1>1, <1>2, <1>4, <1>5, <2>2, SameEvents DEF Stream!LineEnd, Stream!Same, Stream!Goto, Mode
    <2> QED
      BY <2>2, <2>3, Refines
  <1>6. CASE b # "LF" /\ b # "NUL"
    <2>1. Deliver(<<Data("CR")>>) /\ Held' = <<Data(b)>>
      BY <1>0, <1>4, <1>6
    <2>2. Stream!Tell(<<Data("CR")>> \o <<Data(b)>>) /\ delivered' \in Seq(Items)
      BY <1>1, <1>2, <2>1, TellsLine
    <2>3. <<Data("CR")>> \o <<Data(b)>> = <<Data("CR"), Data(b)>>
      BY TwoItems, Zenon
    <2>4. Stream!LineEnd(b)
      BY <1>0, <1>1, <1>4, <1>6, <2>2, <2>3, SameEvents DEF Stream!LineEnd, Stream!Same, Stream!Goto, Mode
    <2> QED
      BY <2>2, <2>4, Refines
  <1> QED
    BY <1>3, <1>5, <1>6

(* In the other states nothing is pending, before nor after the byte. *)
LEMMA TellsAlone ==
    ASSUME LogInv, TypeOK', NEW b \in Bytes, ReadByte(b), state # "DATA",
           state' # "DATA" \/ start' = i + 1,
           NEW items \in Seq(Items), Deliver(items)
    PROVE  /\ Stream!Tell(items) /\ delivered' \in Seq(Items)
           /\ Mode = state /\ Mode' = state'
  <1>1. Mode = state /\ Held = <<>> /\ Mode' = state' /\ Held' = <<>>
    BY ByteIn
  <1> QED
    BY <1>1, TellsEvents

LEMMA FollowsIs == ASSUME NEW b PROVE Follows(b) \in {"DATA", "SB"} \cup Verbs
  BY DEF Follows

LEMMA InIacReads ==
    ASSUME LogInv, TypeOK', NEW b \in Bytes, ReadByte(b), InIac(b)
    PROVE  Reads(b)
  <1>0. state = "IAC" /\ state' = Follows(b) /\ UNCHANGED <<sb_telopt, sub, size, binary>>
        /\ Deliver(Told(b)) /\ (state' # "DATA" \/ start' = i + 1)
    BY DEF InIac, KeepSub, Goto
  <1>1. Stream!Tell(Told(b)) /\ delivered' \in Seq(Items) /\ Mode = "IAC" /\ Mode' = Follows(b)
    BY <1>0, ToldItems, TellsAlone
  <1>2. Stream!Command(b)
    BY <1>0, <1>1, SameEvents DEF Stream!Command, Stream!Same, Stream!Goto, Mode
  <1> QED
    BY <1>1, <1>2, Refines

LEMMA InVerbReads ==
    ASSUME LogInv, TypeOK', NEW b \in Bytes, ReadByte(b), InVerb(b)
    PROVE  Reads(b)
  <1>0. state \in Verbs /\ state' = "DATA" /\ start' = i + 1 /\ UNCHANGED <<sb_telopt, sub, size>>
        /\ Deliver(<<Neg(state, b)>>) /\ binary' \in IF b = "NUL" THEN BOOLEAN ELSE {binary}
    BY DEF InVerb, KeepSub, Goto
  <1>1. <<Neg(state, b)>> \in Seq(Items) /\ state # "DATA"
    BY <1>0, OneItem DEF Items, Verbs
  <1>2. Stream!Tell(<<Neg(state, b)>>) /\ delivered' \in Seq(Items) /\ Mode = state /\ Mode' = "DATA"
    BY <1>0, <1>1, TellsAlone
  <1>3. Stream!Negotiation(b)
    BY <1>0, <1>2, SameEvents DEF Stream!Negotiation, Stream!Goto, Mode
  <1> QED
    BY <1>2, <1>3, Refines

LEMMA InSbReads ==
    ASSUME LogInv, TypeOK', NEW b \in Bytes, ReadByte(b), InSb(b)
    PROVE  Reads(b)
  <1>0. state = "SB" /\ state' = "SB_DATA" /\ sb_telopt' = b /\ sub' = <<>> /\ UNCHANGED binary
        /\ Deliver(<<>>)
    BY DEF InSb, Goto
  <1>1. Stream!Tell(<<>>) /\ delivered' \in Seq(Items) /\ Mode = "SB" /\ Mode' = "SB_DATA"
    BY <1>0, NoItems, TellsAlone
  <1>2. Stream!SubOption(b)
    BY <1>0, <1>1 DEF Stream!SubOption, Stream!Goto, Mode
  <1> QED
    BY <1>1, <1>2, Refines

(* The buffer's sizes do not show: there is room for a byte exactly while  *)
(* the subnegotiation is shorter than the largest of them.                 *)
LEMMA StoresByte ==
    ASSUME LogInv, TypeOK', NEW b \in Bytes, ReadByte(b), state \in {"SB_DATA", "SB_DATA_IAC"},
           BufferByte(b)
    PROVE  /\ Stream!Store(b) /\ delivered' \in Seq(Items)
           /\ Mode = state
  <1>0. state # "DATA"
    OBVIOUS
  <1>1. Len(sub) \in Nat /\ size \in Nat /\ Limit \in Nat /\ Len(sub) <= size /\ size <= Limit
    BY LenProperties, SizesAreBounded DEF LogInv, TypeOK, IsSize
  <1>2. CASE /\ Full => size # Limit
             /\ sub' = Append(sub, b)
             /\ state' = "SB_DATA" /\ Deliver(<<>>)
    <2>1. Len(sub) < Limit
      BY <1>1, <1>2 DEF Full
    <2>2. Stream!Tell(<<>>) /\ delivered' \in Seq(Items) /\ Mode = state /\ Mode' = "SB_DATA"
      BY <1>0, <1>2, NoItems, TellsAlone
    <2> QED
      BY <1>2, <2>1, <2>2 DEF Stream!Store, Stream!Goto, Mode
  <1>3. ASSUME Full, size = Limit \/ MayFail,
               Deliver(<<Error(IF size = Limit THEN "overflow" ELSE "nomem")>>),
               state' = "DATA", start' = i + 1, UNCHANGED <<sub, size>>
        PROVE  /\ Stream!Store(b) /\ delivered' \in Seq(Items)
               /\ Mode = state
    <2>1. size = Len(sub)
      BY <1>3 DEF Full
    <2>2. <<Error(IF size = Limit THEN "overflow" ELSE "nomem")>> \in Seq(Items)
      BY OneItem DEF Items, Codes
    <2>3. Stream!Tell(<<Error(IF size = Limit THEN "overflow" ELSE "nomem")>>)
          /\ delivered' \in Seq(Items) /\ Mode = state /\ Mode' = "DATA"
      BY <1>0, <1>3, <2>2, TellsAlone
    <2> QED
      BY <1>3, <2>1, <2>3, SameEvents DEF Stream!Store, Stream!Goto, Mode
  <1> QED
    BY <1>2, <1>3 DEF BufferByte, Goto

LEMMA InSbDataReads ==
    ASSUME LogInv, TypeOK', NEW b \in Bytes, ReadByte(b), InSbData(b)
    PROVE  Reads(b)
  <1>0. state = "SB_DATA" /\ UNCHANGED <<sb_telopt, binary>> /\ i \in Nat
    BY ByteIn DEF InSbData
  <1>1. ASSUME b = "IAC", state' = "SB_DATA_IAC", Deliver(<<>>), UNCHANGED sub
        PROVE  Reads(b)
    <2>1. Stream!Tell(<<>>) /\ delivered' \in Seq(Items) /\ Mode = "SB_DATA" /\ Mode' = "SB_DATA_IAC"
      BY <1>0, <1>1, NoItems, TellsAlone
    <2>2. Stream!SubByte(b)
      BY <1>0, <1>1, <2>1 DEF Stream!SubByte, Stream!Goto, Mode
    <2> QED
      BY <2>1, <2>2, Refines
  <1>2. ASSUME OldCompress(b), state' = "DATA", start' = i + 2, Deliver(<<>>), UNCHANGED sub
        PROVE  Reads(b)
    <2>1. i' = i + 1 /\ Mode = "SB_DATA" /\ Held = <<>>
      BY <1>0, ByteIn
    <2>2. start' > i' /\ start' >= i'
      BY <1>0, <1>2, <2>1
    <2>3. (TypeOK => (state = "DATA" /\ start > i => Mode = "SKIP"))'
      BY ModeIs, PTL
    <2>4. (TypeOK => (state # "DATA" \/ start >= i => Held = <<>>))'
      BY HeldNothing, PTL
    <2>5. Mode' = "SKIP" /\ Held' = <<>>
      BY <1>2, <2>2, <2>3, <2>4
    <2>6. Stream!Tell(<<>>) /\ delivered' \in Seq(Items)
      BY <1>2, <2>1, <2>5, NoItems, TellsEvents
    <2>7. Stream!SubByte(b)
      BY <1>0, <1>2, <2>1, <2>5, <2>6 DEF Stream!SubByte, Stream!Goto, Stream!OldCompress, OldCompress, Mode
    <2> QED
      BY <2>6, <2>7, Refines
  <1>3. ASSUME b # "IAC", ~OldCompress(b), BufferByte(b) PROVE Reads(b)
    <2>1. Stream!Store(b) /\ delivered' \in Seq(Items) /\ Mode = "SB_DATA"
      BY <1>0, <1>3, StoresByte
    <2>2. Stream!SubByte(b)
      BY <1>0, <1>3, <2>1 DEF Stream!SubByte, Stream!OldCompress, OldCompress, Mode
    <2> QED
      BY <2>1, <2>2, Refines
  <1> QED
    BY <1>1, <1>2, <1>3 DEF InSbData, Goto

LEMMA InSbDataIacReads ==
    ASSUME LogInv, TypeOK', NEW b \in Bytes, ReadByte(b), InSbDataIac(b)
    PROVE  Reads(b)
  <1>0. state = "SB_DATA_IAC" /\ UNCHANGED <<sb_telopt, binary>>
    BY DEF InSbDataIac
  <1>1. ASSUME b = "IAC", BufferByte(b) PROVE Reads(b)
    <2>1. Stream!Store(b) /\ delivered' \in Seq(Items) /\ Mode = "SB_DATA_IAC"
      BY <1>0, <1>1, StoresByte
    <2>2. Stream!SubCommand(b)
      BY <1>0, <1>1, <2>1 DEF Stream!SubCommand, Mode
    <2> QED
      BY <2>1, <2>2, Refines
  <1>2. Sub(sb_telopt, sub) \in Items /\ Error("protocol") \in Items
    BY ByteIn DEF Items, Codes
  <1>3. ASSUME b = "SE", state' = "DATA", Deliver(<<Sub(sb_telopt, sub)>>), start' = i + 1, UNCHANGED sub
        PROVE  Reads(b)
    <2>1. Stream!Tell(<<Sub(sb_telopt, sub)>>) /\ delivered' \in Seq(Items)
          /\ Mode = "SB_DATA_IAC" /\ Mode' = "DATA"
      BY <1>0, <1>2, <1>3, OneItem, TellsAlone
    <2>2. Stream!SubCommand(b)
      BY <1>0, <1>3, <2>1, SameEvents DEF Stream!SubCommand, Stream!Goto, Mode
    <2> QED
      BY <2>1, <2>2, Refines
  <1>4. ASSUME b \notin {"IAC", "SE"}, state' = Follows(b), start' = i + 1, UNCHANGED sub,
               Deliver(<<Error("protocol"), Sub(sb_telopt, sub)>> \o Told(b))
        PROVE  Reads(b)
    <2>1. <<Error("protocol"), Sub(sb_telopt, sub)>> \in Seq(Items)
      BY <1>2
    <2>2. <<Error("protocol"), Sub(sb_telopt, sub)>> \o Told(b) \in Seq(Items)
      BY <2>1, ToldItems, ConcatProperties
    <2>3. Stream!Tell(<<Error("protocol"), Sub(sb_telopt, sub)>> \o Told(b)) /\ delivered' \in Seq(Items)
          /\ Mode = "SB_DATA_IAC" /\ Mode' = Follows(b)
      BY <1>0, <1>4, <2>2, TellsAlone
    <2>4. Stream!SubCommand(b)
      BY <1>0, <1>4, <2>3, SameEvents DEF Stream!SubCommand, Stream!Goto, Mode
    <2> QED
      BY <2>3, <2>4, Refines
  <1> QED
    BY <1>1, <1>3, <1>4 DEF InSbDataIac, Goto

-----------------------------------------------------------------------------
(* The end of a call, and what does not concern the stream. *)
LEMMA EndCallEnds ==
    ASSUME LogInv, TypeOK', EndCall, ~Skipping
    PROVE  Stream!EndCall /\ delivered' \in Seq(Items)
  <1>0. Passed = Held
    BY DEF Passed
  <1>1. Log = delivered /\ Log \in Seq(Items) /\ Held \in Seq(Items) /\ delivered' = delivered \o Held
    BY <1>0, LogIsSeq DEF EndCall, Deliver, Log
  <1>2. delivered' \in Seq(Items)
    BY <1>1, ConcatProperties
  <1>3. i' = 0 /\ start' = 0
    BY EmptySeq DEF EndCall, i
  <1>4. (TypeOK => (state # "DATA" \/ start <= i => Mode = state))'
    BY ModeIs, PTL
  <1>5. (TypeOK => (state # "DATA" \/ start >= i => Held = <<>>))'
    BY HeldNothing, PTL
  <1>6. Mode' = state' /\ Held' = <<>>
    BY <1>3, <1>4, <1>5
  <1>7. Mode = state /\ state' = state
    BY DEF EndCall, Mode
  <1>8. Out' = Out
    BY <1>1, <1>2, <1>6, ConcatEmptySeq DEF Out
  <1>9. (buf # <<>>) /\ (buf # <<>>)' = FALSE /\ UNCHANGED <<sb_telopt, sub, binary>>
    BY DEF EndCall
  <1> QED
    BY <1>2, <1>6, <1>7, <1>8, <1>9 DEF Stream!EndCall, Mode, Out

LEMMA EndCallWraps ==
    ASSUME LogInv, EndCall, Skipping
    PROVE  Wraps /\ delivered' \in Seq(Items)
  <1>1. Passed = <<Wrapped>> /\ Deliver(Passed) /\ UNCHANGED <<sb_telopt, sub, binary>>
    BY DEF EndCall, Passed
  <1>2. delivered' = Log \o <<Wrapped>> /\ Log \in Seq(Items) /\ <<Wrapped>> \in Seq(Items)
    BY <1>1, LogIsSeq, PassedIsSeq DEF Deliver, Log, LogInv
  <1> QED
    BY <1>1, <1>2, ConcatProperties DEF Wraps

LEMMA StreamStep ==
    ASSUME LogInv, [Next]_vars
    PROVE  [Stream!Next \/ Wraps]_(Stream!vars) /\ LogInv'
  <1>0. TypeOK' /\ PosInv'
    BY PosStep DEF LogInv
  <1>1. ASSUME NEW b \in Bytes, ReadByte(b)
        PROVE  (Stream!Next \/ Wraps) /\ delivered' \in Seq(Items)
    <2>1. Reads(b) \/ (Wraps /\ delivered' \in Seq(Items))
      BY <1>0, <1>1, InDataReads, InEolReads, InIacReads, InVerbReads, InSbReads, InSbDataReads,
         InSbDataIacReads DEF ReadByte
    <2> QED
      BY <2>1 DEF Reads, Stream!Next
  <1>2. CASE EndCall
    BY <1>0, <1>2, EndCallEnds, EndCallWraps DEF Stream!Next, LogInv
  <1>3. CASE UNCHANGED vars
    <2>1. UNCHANGED <<state, sb_telopt, sub, size, binary, buf, start, delivered>>
      BY <1>3 DEF vars
    <2>2. UNCHANGED Stream!vars
      BY <2>1 DEF Stream!vars, Skipping, Held, Run, i
    <2> QED
      BY <1>0, <2>1, <2>2 DEF LogInv
  <1> QED
    BY <1>0, <1>1, <1>2, <1>3 DEF Next, LogInv

LEMMA StreamInit == Init => Stream!Init /\ LogInv
  <1> SUFFICES ASSUME Init PROVE Stream!Init /\ LogInv
    OBVIOUS
  <1>1. TypeOK /\ PosInv
    BY PosInit
  <1>2. start = 0 /\ i = 0
    BY EmptySeq DEF Init, i
  <1>3. Held = <<>> /\ Mode = "DATA"
    BY <1>1, <1>2, ModeIs, HeldNothing DEF Init
  <1>4. <<>> \o <<>> = <<>> /\ <<>> \in Seq(Items)
    BY EmptySeq, ConcatEmptySeq
  <1> QED
    BY <1>1, <1>3, <1>4 DEF Init, Stream!Init, LogInv, Mode

(* Whatever the bytes, the sizes of the buffer, the flags and the places   *)
(* where the stream is cut into calls: what telnet_recv tells the          *)
(* application is what the bytes say one by one, in every step but the one *)
(* that passes on an event of wrapped size, because the call ends, or IAC  *)
(* or a line end comes, right behind the WILL of an MCCPv1 sequence.       *)
THEOREM ParserImplementsStream == Spec => ImplementsStream
  BY StreamInit, StreamStep, PTL DEF Spec, ImplementsStream

-----------------------------------------------------------------------------
(* The inductive invariant: the parser's own, the read in progress, and    *)
(* the state of line ends, which is never entered.                         *)
ReadInv ==
    /\ raw \in Seq(Bytes) /\ Len(raw) <= BufSize
    /\ wire \in Seq(Bytes)
    /\ mem \in [1..BufSize -> Bytes]
    /\ flag \in BOOLEAN /\ recvBytes \in 0..BufSize
    /\ at \in {"out", "recv", "parse"}
    /\ at = "parse" => i <= Len(raw)
    /\ at # "parse" => buf = <<>>
    /\ state # "EOL"

RecvInv == LogInv /\ ReadInv /\ UnreadIntact

-----------------------------------------------------------------------------
(* What reading a byte tells, and where the pending data starts then: it   *)
(* is all data, and then no more than was read, or there is none in it, or *)
(* it is the event of wrapped size.                                        *)
NoData(items) == \A k \in 1..Len(items) : Dataless(items[k])
AllData(items) == \A k \in 1..Len(items) : items[k][1] = "data"
Short(items) == Len(items) <= i + 1 \/ (Len(items) >= 1 /\ Dataless(items[1]))
Fits(items) ==
    \/ Short(items) /\ (AllData(items) \/ NoData(items))
    \/ Skipping /\ items = <<Wrapped>>
Pending(items) ==
    state' = "DATA" => start' >= i + 1 \/ (items = <<>> /\ start' = start /\ state = "DATA")
Tells(items) ==
    /\ items \in Seq(Items) /\ Deliver(items)
    /\ Fits(items) /\ Pending(items) /\ state' # "EOL"

LEMMA NoItemsAreShort ==
    ASSUME LogInv
    PROVE  <<>> \in Seq(Items) /\ Fits(<<>>) /\ i \in Nat /\ start \in Nat
  BY EmptySeq, LenProperties DEF Fits, Short, NoData, AllData, LogInv, TypeOK, i

LEMMA OneIsShort ==
    ASSUME LogInv, NEW d \in Items, d[1] = "data" \/ Dataless(d)
    PROVE  <<d>> \in Seq(Items) /\ Fits(<<d>>)
  <1>1. i \in Nat
    BY NoItemsAreShort
  <1>2. <<d>> \in Seq(Items) /\ Len(<<d>>) = 1
    OBVIOUS
  <1> QED
    BY <1>1, <1>2 DEF Fits, Short, NoData, AllData

LEMMA HeldIsShort ==
    ASSUME LogInv
    PROVE  Held \in Seq(Items) /\ Len(Held) \in Nat /\ Len(Held) <= i /\ AllData(Held) /\ Fits(Held)
  <1>1. i \in Nat /\ start \in Nat /\ Held \in Seq(Items)
    BY NoItemsAreShort, HeldIsSeq DEF LogInv
  <1>2. CASE state = "DATA" /\ start < i
    <2>1. Len(Held) = i - start /\ \A k \in 1..(i - start) : Held[k] = Data(buf[start + k])
      BY <1>1, <1>2, RunIsSeq DEF Held, LogInv
    <2>2. AllData(Held)
      BY <2>1 DEF AllData, Data
    <2> QED
      BY <1>1, <1>2, <2>1, <2>2 DEF Fits, Short
  <1>3. CASE ~(state = "DATA" /\ start < i)
    <2>1. Held = <<>>
      BY <1>3 DEF Held
    <2> QED
      BY <1>1, <2>1, NoItemsAreShort, EmptySeq DEF AllData
  <1> QED
    BY <1>2, <1>3

LEMMA PassedFits ==
    ASSUME LogInv
    PROVE  /\ Passed \in Seq(Items) /\ Fits(Passed)
           /\ Passed = <<Wrapped>> \/ (AllData(Passed) /\ Len(Passed) <= i)
  BY HeldIsShort, PassedIsSeq DEF Passed, Fits, LogInv

(* The events of a command, of a negotiation and of a subnegotiation, and  *)
(* errors, are no data; bytes are.                                         *)
LEMMA EventKinds ==
    /\ \A b : Data(b)[1] = "data" /\ Dataless(Iac(b))
    /\ \A v, b : Dataless(Neg(v, b))
    /\ \A o, x : Dataless(Sub(o, x))
    /\ \A c : Dataless(Error(c))
    /\ Wrapped[1] = "wrapped"
  BY DEF Dataless, Data, Iac, Neg, Sub, Error, Wrapped

(* An error in front: this is no data. *)
LEMMA ErrorFirst ==
    ASSUME LogInv, NEW e \in Items, Dataless(e), NEW items \in Seq(Items), NoData(items)
    PROVE  <<e>> \o items \in Seq(Items) /\ Fits(<<e>> \o items)
  <1>1. <<e>> \in Seq(Items) /\ Len(<<e>>) = 1 /\ <<e>>[1] = e
    OBVIOUS
  <1>2. (<<e>> \o items) \in Seq(Items)
    BY <1>1, ConcatProperties
  <1>3. Len(<<e>> \o items) = 1 + Len(items) /\ (<<e>> \o items)[1] = e /\ Len(items) \in Nat
        /\ \A k \in 1..Len(items) : (<<e>> \o items)[k + 1] = items[k]
    BY <1>1, ConcatProperties, LenProperties
  <1>4. NoData(<<e>> \o items)
    <2> SUFFICES ASSUME NEW k \in 1..1 + Len(items), k # 1 PROVE Dataless((<<e>> \o items)[k])
      BY <1>3 DEF NoData
    <2>1. k - 1 \in 1..Len(items) /\ (k - 1) + 1 = k
      BY <1>3
    <2> QED
      BY <1>3, <2>1 DEF NoData
  <1> QED
    BY <1>2, <1>3, <1>4 DEF Fits, Short

LEMMA TwoWithoutData ==
    ASSUME NEW x, NEW y, Dataless(x), Dataless(y)
    PROVE  NoData(<<x, y>>)
  <1>1. Len(<<x, y>>) = 2 /\ <<x, y>>[1] = x /\ <<x, y>>[2] = y
    OBVIOUS
  <1>2. \A k \in 1..2 : k = 1 \/ k = 2
    OBVIOUS
  <1> QED
    BY <1>1, <1>2 DEF NoData

LEMMA BufferByteTells ==
    ASSUME LogInv, NEW b \in Bytes, BufferByte(b)
    PROVE  \E items : Tells(items)
  <1>1. CASE Deliver(<<>>) /\ Goto("SB_DATA")
    BY <1>1, NoItemsAreShort DEF Tells, Goto, Pending
  <1>2. CASE /\ Deliver(<<Error(IF size = Limit THEN "overflow" ELSE "nomem")>>)
             /\ Goto("DATA") /\ start' = i + 1
    <2>1. PICK c \in Codes : Deliver(<<Error(c)>>)
      BY <1>2 DEF Codes
    <2>2. Error(c) \in Items
      BY DEF Items
    <2>3. start' >= i + 1
      BY <1>2, NoItemsAreShort
    <2>4. state' = "DATA"
      BY <1>2 DEF Goto
    <2> QED
      BY <2>1, <2>2, <2>3, <2>4, OneIsShort, EventKinds DEF Tells, Pending
  <1> QED
    BY <1>1, <1>2 DEF BufferByte

LEMMA ByteTells ==
    ASSUME LogInv, state # "EOL", NEW b \in Bytes, ReadByte(b)
    PROVE  \E items : Tells(items)
  <1>0. i \in Nat /\ start \in Nat /\ <<>> \in Seq(Items) /\ Fits(<<>>)
    BY NoItemsAreShort
  <1>1. CASE InData(b)
    <2>1. CASE b = "IAC"
      <3>1. Deliver(Passed) /\ state' = "IAC"
        BY <1>1, <2>1, NvtEolIsOff DEF InData, EndOfLine, Goto
      <3> QED
        BY <3>1, PassedFits DEF Tells, Pending
    <2>2. CASE b # "IAC"
      <3>1. Deliver(<<>>) /\ state' = "DATA" /\ start' = start /\ state = "DATA"
        BY <1>1, <2>2, NvtEolIsOff DEF InData, EndOfLine, Goto
      <3> QED
        BY <1>0, <3>1 DEF Tells, Pending
    <2> QED
      BY <2>1, <2>2
  <1>2. CASE InIac(b)
    <2>1. Deliver(Told(b)) /\ Told(b) \in Seq(Items) /\ state' = Follows(b)
          /\ start' = IF Follows(b) = "DATA" THEN i + 1 ELSE start
      BY <1>2, ToldItems DEF InIac, Goto
    <2>2. Told(b) = <<>> \/ Told(b) = <<Data("IAC")>> \/ Told(b) = <<Iac(b)>>
      BY DEF Told
    <2>3. Data("IAC") \in Items /\ Iac(b) \in Items
      BY DEF Items
    <2>4. Fits(Told(b))
      BY <1>0, <2>2, <2>3, OneIsShort, EventKinds
    <2>5. state' # "EOL" /\ (state' = "DATA" => start' >= i + 1)
      BY <1>0, <2>1, FollowsIs DEF Verbs
    <2> QED
      BY <2>1, <2>4, <2>5 DEF Tells, Pending
  <1>3. CASE InVerb(b)
    <2>1. Deliver(<<Neg(state, b)>>) /\ state' = "DATA" /\ start' = i + 1 /\ Neg(state, b) \in Items
      BY <1>3 DEF InVerb, Goto, Items
    <2>2. <<Neg(state, b)>> \in Seq(Items) /\ Fits(<<Neg(state, b)>>)
      BY <2>1, OneIsShort, EventKinds
    <2>3. start' >= i + 1 /\ state' # "EOL"
      BY <1>0, <2>1
    <2> QED
      BY <2>1, <2>2, <2>3 DEF Tells, Pending
  <1>4. CASE InSb(b)
    <2>1. Deliver(<<>>) /\ state' = "SB_DATA"
      BY <1>4 DEF InSb, Goto
    <2> QED
      BY <1>0, <2>1 DEF Tells, Pending
  <1>5. CASE InSbData(b)
    <2>1. CASE b = "IAC"
      BY <1>0, <1>5, <2>1 DEF InSbData, OldCompress, Goto, Tells, Pending
    <2>2. CASE OldCompress(b)
      <3>1. Deliver(<<>>) /\ state' = "DATA" /\ start' >= i + 1
        BY <1>0, <1>5, <2>2 DEF InSbData, OldCompress, Goto
      <3> QED
        BY <1>0, <3>1 DEF Tells, Pending
    <2>3. CASE b # "IAC" /\ ~OldCompress(b)
      BY <1>5, <2>3, BufferByteTells DEF InSbData
    <2> QED
      BY <2>1, <2>2, <2>3
  <1>6. CASE InSbDataIac(b)
    <2>1. CASE b = "IAC"
      BY <1>6, <2>1, BufferByteTells DEF InSbDataIac
    <2>2. sub \in Seq(Bytes) /\ sb_telopt \in Bytes \cup {"NUL"}
      BY DEF LogInv, TypeOK
    <2>3. Sub(sb_telopt, sub) \in Items /\ Error("protocol") \in Items
      BY <2>2 DEF Items, Codes
    <2>4. CASE b = "SE"
      <3>1. Deliver(<<Sub(sb_telopt, sub)>>) /\ state' = "DATA" /\ start' = i + 1
        BY <1>6, <2>4 DEF InSbDataIac, Goto
      <3>2. <<Sub(sb_telopt, sub)>> \in Seq(Items) /\ Fits(<<Sub(sb_telopt, sub)>>)
        BY <2>3, OneIsShort, EventKinds
      <3>3. start' >= i + 1 /\ state' # "EOL"
        BY <1>0, <3>1
      <3> QED
        BY <3>1, <3>2, <3>3 DEF Tells, Pending
    <2>5. CASE b \notin {"IAC", "SE"}
      <3> DEFINE rest == <<Sub(sb_telopt, sub)>> \o Told(b)
                 all == <<Error("protocol"), Sub(sb_telopt, sub)>> \o Told(b)
      <3>1. Deliver(all) /\ state' = Follows(b) /\ start' = i + 1
        BY <1>6, <2>5 DEF InSbDataIac, Goto
      <3>2. Told(b) \in Seq(Items) /\ <<Sub(sb_telopt, sub)>> \in Seq(Items)
            /\ <<Error("protocol")>> \in Seq(Items)
        BY <2>3, ToldItems
      <3>3. rest \in Seq(Items)
        BY <3>2, ConcatProperties
      <3>4. all = <<Error("protocol")>> \o rest
        <4>1. <<Error("protocol"), Sub(sb_telopt, sub)>>
              = <<Error("protocol")>> \o <<Sub(sb_telopt, sub)>>
          BY TwoItems
        <4> QED
          BY <3>2, <4>1, AssocItems
      <3>5. Dataless(Error("protocol")) /\ NoData(rest)
        <4>1. Dataless(Sub(sb_telopt, sub)) /\ Dataless(Error("protocol"))
          BY EventKinds
        <4>2. Told(b) = <<>> \/ Told(b) = <<Iac(b)>>
          BY <2>5 DEF Told
        <4>3. Dataless(Iac(b)) /\ Iac(b) \in Items
          BY EventKinds DEF Items
        <4>4. CASE Told(b) = <<>>
          <5>1. rest = <<Sub(sb_telopt, sub)>>
            BY <3>2, <4>4, ConcatEmptySeq
          <5> QED
            BY <4>1, <5>1 DEF NoData
        <4>5. CASE Told(b) = <<Iac(b)>>
          <5>1. rest = <<Sub(sb_telopt, sub), Iac(b)>>
            BY <4>5, TwoItems
          <5> HIDE DEF rest
          <5> QED
            BY <4>1, <4>3, <5>1, TwoWithoutData
        <4> QED
          BY <4>1, <4>2, <4>4, <4>5
      <3>6. all \in Seq(Items) /\ Fits(all)
        BY <2>3, <3>3, <3>4, <3>5, ErrorFirst
      <3>7. state' # "EOL" /\ start' >= i + 1
        BY <1>0, <3>1, FollowsIs DEF Verbs
      <3> QED
        BY <3>1, <3>6, <3>7 DEF Tells, Pending
    <2> QED
      BY <2>1, <2>4, <2>5
  <1>7. ~InEol(b)
    BY DEF InEol
  <1> QED
    BY <1>1, <1>2, <1>3, <1>4, <1>5, <1>6, <1>7 DEF ReadByte

-----------------------------------------------------------------------------
LEMMA LogLonger ==
    ASSUME NEW log \in Seq(Items), NEW items \in Seq(Items)
    PROVE  LET all == log \o items IN
           /\ Len(log) \in Nat /\ Len(items) \in Nat /\ DOMAIN log = 1..Len(log)
           /\ Len(all) = Len(log) + Len(items) /\ DOMAIN all = 1..Len(log) + Len(items)
           /\ \A k \in 1..Len(log) : all[k] = log[k]
           /\ \A k \in 1..Len(items) : all[Len(log) + k] = items[k]
           /\ \A k \in 1..Len(log) + Len(items) :
                  k \in 1..Len(log) \/ (k - Len(log) \in 1..Len(items) /\ all[k] = items[k - Len(log)])
  <1> DEFINE all == log \o items
  <1>1. /\ Len(log) \in Nat /\ Len(items) \in Nat /\ DOMAIN log = 1..Len(log)
        /\ Len(all) = Len(log) + Len(items) /\ DOMAIN all = 1..Len(log) + Len(items)
        /\ \A k \in 1..Len(log) : all[k] = log[k]
        /\ \A k \in 1..Len(items) : all[Len(log) + k] = items[k]
    BY ConcatProperties, LenProperties
  <1> HIDE DEF all
  <1>2. ASSUME NEW k \in 1..Len(log) + Len(items), k \notin 1..Len(log)
        PROVE  k - Len(log) \in 1..Len(items) /\ all[k] = items[k - Len(log)]
    <2>1. k - Len(log) \in 1..Len(items) /\ Len(log) + (k - Len(log)) = k
      BY <1>1, <1>2
    <2> QED
      BY <1>1, <2>1
  <1> QED
    BY <1>1, <1>2 DEF all

LEMMA TailOfConcat ==
    ASSUME NEW S, NEW s \in Seq(S), NEW t \in Seq(S)
    PROVE  SubSeq(s \o t, Len(s) + 1, Len(s \o t)) = t
  <1>1. s \o t \in Seq(S) /\ Len(s \o t) = Len(s) + Len(t) /\ Len(s) \in Nat /\ Len(t) \in Nat
    BY ConcatProperties, LenProperties
  <1>2. CASE Len(t) = 0
    <2>1. t = <<>>
      BY <1>2, EmptySeq
    <2> QED
      BY <1>1, <1>2, <2>1, SubSeqEmpty
  <1>3. CASE Len(t) > 0
    <2>1. Len(s) + 1 \in Len(s) + 1..Len(s) + Len(t) /\ Len(s) + Len(t) \in Len(s) + 1..Len(s) + Len(t)
      BY <1>1, <1>3
    <2>2. SubSeq(s \o t, Len(s) + 1, Len(s) + Len(t)) = SubSeq(t, (Len(s) + 1) - Len(s), (Len(s) + Len(t)) - Len(s))
      BY <2>1, SubSeqOfConcat2
    <2>3. (Len(s) + 1) - Len(s) = 1 /\ (Len(s) + Len(t)) - Len(s) = Len(t)
      BY <1>1
    <2> QED
      BY <1>1, <2>2, <2>3, SubSeqFull
  <1> QED
    BY <1>1, <1>2, <1>3

LEMMA DataHasByte ==
    ASSUME NEW items \in Seq(Items), NEW k \in 1..Len(items), items[k][1] = "data"
    PROVE  items[k][2] \in Bytes /\ items[k] = Data(items[k][2])
  <1>1. items[k] \in Items
    BY ElementOfSeq
  <1>2. \E b \in Bytes \cup {"CR", "IAC"} : items[k] = Data(b)
    BY <1>1 DEF Items, Iac, Neg, Sub, Error, Wrapped
  <1> QED
    BY <1>2, NamedBytes DEF Data

LEMMA NewAre ==
    ASSUME LogInv, NEW items \in Seq(Items), Deliver(items)
    PROVE  NewItems = items
  <1>1. CASE buf = <<>>
    <2>1. delivered' = items
      BY <1>1, ConcatEmptySeq DEF Deliver
    <2> QED
      BY <1>1, <2>1 DEF NewItems
  <1>2. CASE buf # <<>>
    <2>1. delivered' = delivered \o items /\ delivered \in Seq(Items)
      BY <1>2 DEF Deliver, LogInv
    <2>2. NewItems = SubSeq(delivered \o items, Len(delivered) + 1, Len(delivered \o items))
      BY <1>2, <2>1 DEF NewItems
    <2>3. SubSeq(delivered \o items, Len(delivered) + 1, Len(delivered \o items)) = items
      BY <2>1, TailOfConcat
    <2> QED
      BY <2>2, <2>3
  <1> QED
    BY <1>1, <1>2

(* The handler gets just these items.  If they are data it puts them to    *)
(* the front of the buffer and touches nothing behind them.                *)
LEMMA HandlerMoves ==
    ASSUME LogInv, ReadInv, NEW items \in Seq(Items), Deliver(items), telnetEvtHandler,
           NEW n \in Nat, n <= BufSize,
           items = <<Wrapped>> \/ NoData(items) \/ (AllData(items) /\ Len(items) <= n)
    PROVE  /\ mem' \in [1..BufSize -> Bytes]
           /\ recvBytes' \in 0..BufSize
           /\ items # <<Wrapped>> => \A k \in n + 1..BufSize : mem'[k] = mem[k]
           /\ NoData(items) => UNCHANGED <<mem, recvBytes>> /\ (DataSeen <=> flag)
           /\ items = <<Wrapped>> => DataSeen /\ recvBytes' = BufSize
           /\ ~NoData(items) /\ items # <<Wrapped>> =>
                 /\ DataSeen /\ Len(items) \in 1..BufSize
                 /\ recvBytes' = Len(items)
                 /\ \A k \in 1..Len(items) : items[k] = Data(mem'[k])
  <1>1. NewItems = items /\ DOMAIN items = 1..Len(items) /\ Len(items) \in Nat /\ BufSize \in Nat
    BY NewAre, LenProperties, FlagsAssumption DEF BufSize
  <1>0. ASSUME items = <<Wrapped>> PROVE ~NoData(items) /\ EventData = <<>>
    <2>1. Len(items) = 1 /\ items[1] = Wrapped
      BY <1>0
    <2> QED
      BY <1>1, <2>1, EventKinds DEF NoData, Dataless, EventData
  <1>4. CASE items = <<Wrapped>>
    <2>1. PICK beyond \in [1..start -> Beyond] :
            mem' = [k \in 1..BufSize |-> IF start + k <= BufSize THEN mem[start + k]
                                         ELSE beyond[start + k - BufSize]]
      BY <1>1, <1>4, <1>0 DEF telnetEvtHandler, MovedWrapped
    <2>2. start \in Nat /\ mem \in [1..BufSize -> Bytes]
      BY NoItemsAreShort DEF ReadInv
    <2>3. ASSUME NEW k \in 1..BufSize
          PROVE  (IF start + k <= BufSize THEN mem[start + k] ELSE beyond[start + k - BufSize]) \in Bytes
      <3>1. CASE start + k <= BufSize
        <4>1. start + k \in 1..BufSize
          BY <1>1, <2>2, <3>1
        <4> QED
          BY <2>2, <3>1, <4>1
      <3>2. CASE ~(start + k <= BufSize)
        <4>1. start + k - BufSize \in 1..start
          BY <1>1, <2>2, <3>2
        <4> QED
          BY <3>2, <4>1, BeyondAssumption
      <3> QED
        BY <3>1, <3>2
    <2>4. mem' \in [1..BufSize -> Bytes]
      BY <2>1, <2>3
    <2>5. recvBytes' = BufSize /\ BufSize \in 0..BufSize /\ DataSeen
      BY <1>1, <1>4, <1>0 DEF telnetEvtHandler, DataSeen
    <2> QED
      BY <1>4, <1>0, <2>4, <2>5
  <1>2. CASE NoData(items)
    <2>1. EventData = <<>>
      <3>1. CASE Len(items) = 0
        <4>1. items = <<>>
          BY <3>1, EmptySeq
        <4> QED
          BY <1>1, <4>1 DEF EventData
      <3>2. CASE Len(items) # 0
        <4>1. 1 \in DOMAIN items /\ items[1][1] # "data"
          BY <1>1, <1>2, <3>2 DEF NoData, Dataless
        <4> QED
          BY <1>1, <4>1 DEF EventData
      <3> QED
        BY <3>1, <3>2
    <2> QED
      BY <1>1, <1>2, <1>0, <2>1 DEF telnetEvtHandler, DataSeen, ReadInv
  <1>3. CASE ~NoData(items) /\ items # <<Wrapped>>
    <2>1. AllData(items) /\ Len(items) <= n
      BY <1>3
    <2>2. Len(items) \in 1..BufSize
      <3>1. \E k \in 1..Len(items) : TRUE
        BY <1>3 DEF NoData
      <3> QED
        BY <1>1, <2>1, <3>1
    <2>3. EventData = [k \in 1..Len(items) |-> items[k][2]]
      BY <1>1, <2>1 DEF EventData, AllData
    <2>4. DOMAIN EventData = 1..Len(items) /\ Len(EventData) = Len(items) /\ EventData # <<>>
      <3>1. DOMAIN EventData = 1..Len(items) /\ Len(EventData) = Len(items)
        BY <1>1, <2>3
      <3>2. Len(items) # 0
        BY <2>2
      <3> QED
        BY <3>1, <3>2
    <2>5. mem' = Moved(EventData) /\ recvBytes' = Len(items) /\ DataSeen
      <3>1. Clamped(Len(EventData)) = Len(items)
        <4>1. Len(EventData) = Len(items) /\ ~(Len(items) > BufSize)
          BY <1>1, <2>2, <2>4
        <4> QED
          BY <4>1 DEF Clamped
      <3> QED
        BY <1>1, <1>3, <2>4, <3>1 DEF telnetEvtHandler, DataSeen
    <2>6. \A k \in 1..Len(items) :
            EventData[k] \in Bytes /\ items[k] = Data(EventData[k])
      BY <2>1, <2>3, DataHasByte DEF AllData
    <2>7. \A k \in 1..BufSize : mem'[k] = IF k \in 1..Len(items) THEN EventData[k] ELSE mem[k]
      BY <2>4, <2>5 DEF Moved
    <2>8. mem' \in [1..BufSize -> Bytes]
      BY <2>4, <2>5, <2>6 DEF Moved, ReadInv
    <2>9. \A k \in n + 1..BufSize : mem'[k] = mem[k]
      BY <1>1, <2>1, <2>7
    <2>10. \A k \in 1..Len(items) : items[k] = Data(mem'[k])
      BY <1>1, <2>2, <2>6, <2>7
    <2> QED
      <3>1. recvBytes' \in 0..BufSize
        BY <1>1, <2>2, <2>5
      <3> QED
        BY <1>3, <2>2, <2>5, <2>8, <2>9, <2>10, <3>1
  <1> QED
    BY <1>2, <1>3, <1>4

LEMMA PrefixIs ==
    ASSUME NEW S, NEW s \in Seq(S), NEW k \in 1..Len(s)
    PROVE  /\ SubSeq(s, 1, k) \in Seq(S) /\ Len(SubSeq(s, 1, k)) = k
           /\ \A j \in 1..k : SubSeq(s, 1, k)[j] = s[j]
  OBVIOUS

LEMMA RestIs ==
    ASSUME NEW S, NEW s \in Seq(S), NEW k \in 1..Len(s)
    PROVE  SubSeq(s, k + 1, Len(s)) \in Seq(S)
  OBVIOUS

-----------------------------------------------------------------------------
(* Every step of the loop is a step of the parser or leaves it alone.      *)
LEMMA NextByte ==
    ASSUME RecvInv, at = "parse", i < Len(raw)
    PROVE  mem[i + 1] \in Bytes
  <1>1. i \in Nat /\ Len(raw) \in Nat /\ BufSize \in Nat /\ Len(raw) <= BufSize
    BY NoItemsAreShort, LenProperties, FlagsAssumption DEF RecvInv, ReadInv, BufSize
  <1>2. i + 1 \in 1..BufSize
    BY <1>1
  <1> QED
    BY <1>2 DEF RecvInv, ReadInv

(* Until a wrapped event is told, none has been. *)
LEMMA WrapStaysTold ==
    ASSUME LogInv, NEW items \in Seq(Items), Deliver(items), buf' # <<>>, ~WrapTold'
    PROVE  ~WrapTold /\ items # <<Wrapped>>
  <1>1. delivered' = Log \o items /\ Log \in Seq(Items)
    BY LogIsSeq DEF Deliver, Log
  <1>2. \A k \in DOMAIN (Log \o items) : (Log \o items)[k] # Wrapped
    BY <1>1 DEF WrapTold
  <1> DEFINE all == Log \o items
  <1>3. /\ Len(Log) \in Nat /\ Len(items) \in Nat /\ DOMAIN Log = 1..Len(Log)
        /\ DOMAIN all = 1..Len(Log) + Len(items)
        /\ \A k \in 1..Len(Log) : all[k] = Log[k]
        /\ \A k \in 1..Len(items) : all[Len(Log) + k] = items[k]
    BY <1>1, LogLonger
  <1>4. \A k \in DOMAIN all : all[k] # Wrapped
    BY <1>2
  <1> HIDE DEF all
  <1>5. \A k \in DOMAIN Log : Log[k] # Wrapped
    <2> SUFFICES ASSUME NEW k \in DOMAIN Log PROVE Log[k] # Wrapped
      OBVIOUS
    <2>1. k \in DOMAIN all
      BY <1>3
    <2> QED
      BY <1>3, <1>4, <2>1
  <1>6. ~WrapTold
    BY <1>5 DEF WrapTold, Log
  <1>7. items # <<Wrapped>>
    <2> SUFFICES ASSUME items = <<Wrapped>> PROVE FALSE
      OBVIOUS
    <2>1. Len(items) = 1 /\ items[1] = Wrapped
      OBVIOUS
    <2>2. Len(Log) + 1 \in DOMAIN all /\ all[Len(Log) + 1] = Wrapped
      BY <1>3, <2>1
    <2> QED
      BY <1>4, <2>2
  <1> QED
    BY <1>6, <1>7

LEMMA ParserMoves ==
    ASSUME RecvInv, [RecvNext]_<<vars, reader, wire>>
    PROVE  [Next]_vars
  <1>1. CASE Parse
    <2>1. mem[i + 1] \in Bytes /\ ReadByte(mem[i + 1])
      BY <1>1, NextByte DEF Parse
    <2> QED
      BY <2>1 DEF Next
  <1>2. CASE Finish
    BY <1>2 DEF Finish, Next
  <1>3. CASE Enter \/ Receive \/ WouldBlock \/ UNCHANGED <<vars, reader, wire>>
    BY <1>3 DEF Enter, Receive, WouldBlock
  <1> QED
    BY <1>1, <1>2, <1>3 DEF RecvNext

LEMMA ParseKeeps ==
    ASSUME RecvInv, Parse
    PROVE  ReadInv' /\ UnreadIntact'
  <1> DEFINE b == mem[i + 1]
  <1>0. LogInv /\ ReadInv /\ UnreadIntact
    BY DEF RecvInv
  <1>1. b \in Bytes /\ ReadByte(b) /\ at = "parse" /\ i < Len(raw)
        /\ telnetEvtHandler /\ flag' = DataSeen /\ UNCHANGED <<wire, raw, at, returned>>
    BY NextByte DEF Parse
  <1>2. i \in Nat /\ start \in Nat /\ Len(raw) \in Nat /\ BufSize \in Nat /\ Len(raw) <= BufSize
    BY <1>0, NoItemsAreShort, LenProperties, FlagsAssumption DEF ReadInv, BufSize
  <1>3. i' = i + 1 /\ buf' # <<>> /\ buf'[i + 1] = b /\ \A k \in 1..i : buf'[k] = buf[k]
    <2>1. i < MaxCall /\ buf' = Append(buf, b)
      BY <1>1 DEF ReadByte
    <2>2. TypeOK
      BY <1>0 DEF LogInv
    <2> QED
      BY <1>1, <2>1, <2>2, BufGrows
  <1>4. PICK items : Tells(items)
    <2>1. state # "EOL"
      BY <1>0 DEF ReadInv
    <2> QED
      BY <1>0, <1>1, <2>1, ByteTells
  <1>5. /\ mem' \in [1..BufSize -> Bytes]
        /\ flag' \in BOOLEAN /\ recvBytes' \in 0..BufSize
        /\ items # <<Wrapped>> => \A k \in i + 2..BufSize : mem'[k] = mem[k]
        /\ items = <<>> => mem' = mem
    <2>1. i + 1 \in Nat /\ i + 1 <= BufSize /\ (i + 1) + 1 = i + 2
      BY <1>1, <1>2
    <2>2. items \in Seq(Items) /\ Deliver(items) /\ Len(items) \in Nat
          /\ (items = <<Wrapped>> \/ NoData(items) \/ (AllData(items) /\ Len(items) <= i + 1))
      <3>1. Fits(items) /\ items \in Seq(Items) /\ Deliver(items) /\ Len(items) \in Nat
        BY <1>4, LenProperties DEF Tells
      <3> QED
        BY <3>1 DEF Fits, Short, AllData, Dataless
    <2>3. items = <<>> => NoData(items)
      BY DEF NoData
    <2>4. flag' \in BOOLEAN
      BY <1>1 DEF DataSeen
    <2> QED
      BY <1>0, <1>1, <2>1, <2>2, <2>3, <2>4, HandlerMoves
  <1>6. ReadInv'
    BY <1>0, <1>1, <1>2, <1>3, <1>4, <1>5 DEF ReadInv, Tells, BufSize
  <1>7. ASSUME ~WrapTold', NEW k \in DOMAIN raw
        PROVE  raw[k] = IF k <= i + 1 THEN buf'[k] ELSE mem'[k]
    <2>1. ~WrapTold /\ items # <<Wrapped>>
      BY <1>0, <1>3, <1>4, <1>7, WrapStaysTold DEF Tells
    <2>2. raw[k] = IF k <= i THEN buf[k] ELSE mem[k]
      BY <1>0, <1>1, <1>7, <2>1 DEF UnreadIntact
    <2>3. k \in Nat /\ k >= 1 /\ k <= BufSize
      BY <1>0, <1>2, <1>7 DEF ReadInv
    <2>4. CASE k <= i
      BY <1>2, <1>3, <2>2, <2>3, <2>4
    <2>5. CASE k = i + 1
      BY <1>2, <1>3, <2>2, <2>5
    <2>6. CASE k > i + 1
      <3>1. k \in i + 2..BufSize /\ ~(k <= i) /\ ~(k <= i + 1)
        BY <1>2, <2>3, <2>6
      <3> QED
        BY <1>5, <2>1, <2>2, <3>1
    <2> QED
      BY <1>2, <2>3, <2>4, <2>5, <2>6
  <1>8. ASSUME state' = "DATA", NEW k \in start' + 1..i + 1
        PROVE  mem'[k] = buf'[k]
    <2>1. CASE start' >= i + 1
      <3>1. start' \in Nat
        <4>1. TypeOK'
          BY <1>1, PosStep DEF Next, LogInv, RecvInv
        <4> QED
          BY <4>1 DEF TypeOK
      <3> QED
        BY <1>2, <1>8, <2>1, <3>1
    <2>2. CASE items = <<>> /\ start' = start /\ state = "DATA"
      <3>1. mem'[k] = mem[k]
        BY <1>5, <2>2
      <3>2. (k \in start + 1..i /\ k \in 1..i) \/ k = i + 1
        BY <1>2, <1>8, <2>2
      <3>3. mem[k] = buf'[k]
        BY <1>0, <1>1, <1>3, <2>2, <3>2 DEF UnreadIntact
      <3> QED
        BY <3>1, <3>3
    <2> QED
      BY <1>4, <1>8, <2>1, <2>2 DEF Tells, Pending
  <1>9. UnreadIntact'
    <2>1. ~WrapTold' => \A k \in DOMAIN raw' : raw'[k] = IF k <= i' THEN buf'[k] ELSE mem'[k]
      BY <1>1, <1>3, <1>7
    <2>2. state' = "DATA" => \A k \in start' + 1..i' : mem'[k] = buf'[k]
      BY <1>1, <1>3, <1>8
    <2> QED
      BY <2>1, <2>2 DEF UnreadIntact
  <1> QED
    BY <1>6, <1>9

LEMMA ReceiveKeeps ==
    ASSUME RecvInv, Receive
    PROVE  ReadInv' /\ UnreadIntact'
  <1>1. PICK k \in 1..BufSize :
          /\ k <= Len(wire)
          /\ raw' = SubSeq(wire, 1, k) /\ wire' = SubSeq(wire, k + 1, Len(wire))
          /\ mem' = [j \in 1..BufSize |-> IF j <= k THEN wire[j] ELSE mem[j]]
    BY DEF Receive
  <1>2. ReadInv /\ at = "recv" /\ at' = "parse" /\ UNCHANGED <<vars, flag, recvBytes, returned>>
    BY DEF Receive, RecvInv
  <1>3. buf = <<>> /\ buf' = <<>> /\ i = 0 /\ i' = 0 /\ state' = state
    BY <1>2, EmptySeq DEF ReadInv, vars, i
  <1>4. wire \in Seq(Bytes) /\ Len(wire) \in Nat /\ BufSize \in Nat
    BY <1>2, LenProperties, FlagsAssumption DEF ReadInv, BufSize
  <1>5. raw' \in Seq(Bytes) /\ Len(raw') = k /\ \A j \in 1..k : raw'[j] = wire[j]
    <2>1. \A j \in 1..k : wire[j] \in Bytes
      BY <1>1, <1>4, ElementOfSeq
    <2> QED
      BY <1>1, <1>4, <2>1, PrefixIs
  <1>6. wire' \in Seq(Bytes)
    BY <1>1, <1>4, RestIs
  <1>7. \A j \in 1..k : wire[j] \in Bytes
    BY <1>1, <1>4, ElementOfSeq
  <1>8. mem' \in [1..BufSize -> Bytes]
    BY <1>1, <1>2, <1>4, <1>7 DEF ReadInv
  <1>9. ReadInv'
    BY <1>1, <1>2, <1>3, <1>4, <1>5, <1>6, <1>8 DEF ReadInv, BufSize
  <1>10. DOMAIN raw' = 1..k /\ \A j \in 1..k : ~(j <= 0) /\ mem'[j] = raw'[j]
    BY <1>1, <1>4, <1>5
  <1>11. start' = 0
    BY <1>2, <1>3 DEF vars, RecvInv, LogInv, PosInv
  <1> QED
    BY <1>2, <1>3, <1>4, <1>5, <1>9, <1>10, <1>11 DEF UnreadIntact

LEMMA RecvStep ==
    ASSUME RecvInv, [RecvNext]_<<vars, reader, wire>>
    PROVE  RecvInv'
  <1>0. LogInv'
    BY ParserMoves, StreamStep DEF RecvInv
  <1>1. LogInv /\ ReadInv /\ UnreadIntact
    BY DEF RecvInv
  <1>2. CASE Parse
    BY <1>0, <1>2, ParseKeeps DEF RecvInv
  <1>3. CASE Receive
    BY <1>0, <1>3, ReceiveKeeps DEF RecvInv
  <1>4. CASE Finish
    <2>1. EndCall /\ telnetEvtHandler /\ flag' = FALSE /\ at' \in {"out", "recv"} /\ UNCHANGED <<wire, raw>>
      BY <1>4 DEF Finish
    <2>2. buf' = <<>> /\ state' = state /\ buf # <<>> /\ Deliver(Passed)
      BY <2>1 DEF EndCall
    <2>3. i \in Nat /\ Passed \in Seq(Items)
          /\ (Passed = <<Wrapped>> \/ (AllData(Passed) /\ Len(Passed) <= i))
      BY <1>1, NoItemsAreShort, PassedFits
    <2>4. recvBytes' \in 0..BufSize /\ mem' \in [1..BufSize -> Bytes]
      <3>1. i <= BufSize
        BY <1>1 DEF LogInv, TypeOK, BufSize
      <3> QED
        BY <1>1, <2>1, <2>2, <2>3, <3>1, HandlerMoves
    <2>5. ReadInv'
      BY <1>1, <2>1, <2>2, <2>4 DEF ReadInv, BufSize
    <2> QED
      BY <1>0, <2>1, <2>5 DEF RecvInv, UnreadIntact
  <1>5. CASE Enter \/ WouldBlock
    <2>1. /\ at' \in {"out", "recv"} /\ at # "parse" /\ flag' \in BOOLEAN
          /\ UNCHANGED <<vars, wire, mem, raw, recvBytes>>
      BY <1>1, <1>5 DEF Enter, WouldBlock, ReadInv
    <2>2. ReadInv'
      BY <1>1, <2>1 DEF ReadInv, vars, BufSize
    <2> QED
      BY <1>0, <2>1, <2>2 DEF RecvInv, UnreadIntact
  <1>6. CASE UNCHANGED <<vars, reader, wire>>
    <2>1. ReadInv' /\ UnreadIntact'
      BY <1>1, <1>6 DEF reader, ReadInv, UnreadIntact, WrapTold, vars, BufSize, i
    <2> QED
      BY <1>0, <2>1 DEF RecvInv
  <1> QED
    BY <1>2, <1>3, <1>4, <1>5, <1>6 DEF RecvNext

LEMMA RecvStart == RecvInit => RecvInv
  <1> SUFFICES ASSUME RecvInit PROVE RecvInv
    OBVIOUS
  <1>1. LogInv
    BY StreamInit DEF RecvInit
  <1>2. state = "DATA" /\ buf = <<>> /\ at = "out" /\ raw = <<>> /\ wire \in Seq(Bytes)
        /\ flag = FALSE /\ recvBytes = 0 /\ mem = [k \in 1..BufSize |-> "NUL"]
    BY DEF RecvInit, Init, ReaderInit
  <1>3. raw \in Seq(Bytes) /\ Len(raw) = 0 /\ BufSize \in Nat
    BY <1>2, EmptySeq, FlagsAssumption DEF BufSize
  <1>4. mem \in [1..BufSize -> Bytes]
    BY <1>2, NamedBytes
  <1>5. recvBytes = 0 /\ Len(raw) = 0 /\ recvBytes \in 0..BufSize /\ Len(raw) <= BufSize
    <2>1. recvBytes = 0
      BY DEF RecvInit, ReaderInit
    <2> HIDE <1>2
    <2> QED
      BY <1>3, <2>1
  <1>6. flag \in BOOLEAN /\ at \in {"out", "recv", "parse"} /\ at # "parse" /\ state # "EOL"
    BY <1>2
  <1>7. ReadInv
    BY <1>2, <1>3, <1>4, <1>5, <1>6 DEF ReadInv
  <1> QED
    BY <1>1, <1>2, <1>7 DEF RecvInv, UnreadIntact

LEMMA RecvHolds == RecvSpec => []RecvInv
  <1>1. RecvInv /\ [RecvNext]_<<vars, reader, wire>> => RecvInv'
    BY RecvStep
  <1> QED
    BY <1>1, RecvStart, PTL DEF RecvSpec

(* Types: whatever is received, recvBytes and the bytes written stay       *)
(* within the caller's buffer.  (This says nothing of what is read: for an *)
(* event of wrapped size the handler reads behind it.)                     *)
THEOREM ReceiveTypeOK == RecvSpec => []RecvTypeOK
  <1>1. RecvInv => RecvTypeOK
    BY DEF RecvInv, LogInv, ReadInv, RecvTypeOK
  <1> QED
    BY <1>1, RecvHolds, PTL

(* The in-place reading of _TBP_recv is safe up to the first event of      *)
(* wrapped size in a telnet_recv: for a buffer of any size and any bytes,  *)
(* the handler has overwritten only bytes that were read and told.  Bytes  *)
(* that wait to be passed on are never overwritten.                        *)
THEOREM BufferIsSafe == RecvSpec => []UnreadIntact
  <1>1. RecvInv => UnreadIntact
    BY DEF RecvInv
  <1> QED
    BY <1>1, RecvHolds, PTL

(* So what the application is told during any number of calls of _TBP_recv *)
(* is what a decoder without buffers tells of the bytes the parser reads,  *)
(* in every step but one that tells the wrapped event.                     *)
THEOREM ReceiveImplementsStream == RecvSpec => ImplementsStream
  <1>1. RecvInv /\ [RecvNext]_<<vars, reader, wire>> => [Next]_vars
    BY ParserMoves
  <1>2. RecvInit => Init
    BY DEF RecvInit
  <1>3. RecvSpec => Spec
    BY <1>1, <1>2, RecvHolds, PTL DEF RecvSpec, Spec
  <1> QED
    BY <1>3, ParserImplementsStream, PTL

-----------------------------------------------------------------------------
(* What is in front of the buffer while telnet_recv runs: once data was    *)
(* told, the end of it.                                                    *)
EndsIn(items, f, n) ==
    \E k \in 0..Len(items) - n :
        /\ \A j \in 1..n : items[k + j] = Data(f[j])
        /\ \A m \in k + n + 1..Len(items) : Dataless(items[m])

AtFront(log, f, n, seen) ==
    IF seen THEN n # 0 /\ (EndsIn(log, f, n) \/ EndsWrapped(log)) ELSE TellsNo(log)

FrontInv ==
    /\ returned \in Seq(Bytes)
    /\ at = "recv" => ~flag
    /\ at = "parse" => AtFront(Log, mem, recvBytes, flag)

(* Events that are no data leave the front what it was. *)
LEMMA FrontStays ==
    ASSUME NEW log \in Seq(Items), NEW items \in Seq(Items), NoData(items),
           NEW f, NEW n \in Nat, NEW seen \in BOOLEAN, AtFront(log, f, n, seen)
    PROVE  AtFront(log \o items, f, n, seen)
  <1> DEFINE all == log \o items
  <1>1. /\ Len(log) \in Nat /\ Len(items) \in Nat /\ DOMAIN log = 1..Len(log)
        /\ Len(all) = Len(log) + Len(items) /\ DOMAIN all = 1..Len(log) + Len(items)
        /\ \A k \in 1..Len(log) : all[k] = log[k]
        /\ \A k \in 1..Len(log) + Len(items) :
               k \in 1..Len(log) \/ (k - Len(log) \in 1..Len(items) /\ all[k] = items[k - Len(log)])
    BY LogLonger
  <1> HIDE DEF all
  <1>4. CASE seen /\ EndsWrapped(log)
    <2>1. PICK k \in 1..Len(log) :
             log[k] = Wrapped /\ \A m \in k + 1..Len(log) : Dataless(log[m])
      BY <1>1, <1>4 DEF EndsWrapped
    <2>2. k \in DOMAIN all /\ all[k] = Wrapped
      BY <1>1, <2>1
    <2>3. \A m \in k + 1..Len(all) : Dataless(all[m])
      <3> SUFFICES ASSUME NEW m \in k + 1..Len(all) PROVE Dataless(all[m])
        OBVIOUS
      <3>1. m \in 1..Len(log) + Len(items) /\ (m \in 1..Len(log) => m \in k + 1..Len(log))
        BY <1>1
      <3> QED
        BY <1>1, <2>1, <3>1 DEF NoData
    <2>4. EndsWrapped(all)
      BY <2>2, <2>3 DEF EndsWrapped
    <2> QED
      BY <1>4, <2>4 DEF AtFront, all
  <1>2. CASE seen /\ EndsIn(log, f, n)
    <2>1. PICK k \in 0..Len(log) - n :
             /\ \A j \in 1..n : log[k + j] = Data(f[j])
             /\ \A m \in k + n + 1..Len(log) : Dataless(log[m])
      BY <1>2 DEF EndsIn
    <2>2. \A j \in 1..n : all[k + j] = Data(f[j])
      <3> SUFFICES ASSUME NEW j \in 1..n PROVE all[k + j] = Data(f[j])
        OBVIOUS
      <3>1. k + j \in 1..Len(log)
        BY <1>1
      <3> QED
        BY <1>1, <2>1, <3>1
    <2>3. \A m \in k + n + 1..Len(all) : Dataless(all[m])
      <3> SUFFICES ASSUME NEW m \in k + n + 1..Len(all) PROVE Dataless(all[m])
        OBVIOUS
      <3>1. m \in 1..Len(log) + Len(items) /\ (m \in 1..Len(log) => m \in k + n + 1..Len(log))
        BY <1>1
      <3> QED
        BY <1>1, <2>1, <3>1 DEF NoData
    <2>4. k \in 0..Len(all) - n
      BY <1>1
    <2> QED
      BY <1>2, <2>2, <2>3, <2>4 DEF AtFront, EndsIn, all
  <1>3. CASE ~seen
    BY <1>1, <1>3 DEF AtFront, TellsNo, NoData, all
  <1> QED
    BY <1>2, <1>3, <1>4 DEF AtFront

(* New data becomes the front. *)
LEMMA FrontMoves ==
    ASSUME NEW log \in Seq(Items), NEW items \in Seq(Items), NEW f,
           Len(items) # 0, \A k \in 1..Len(items) : items[k] = Data(f[k])
    PROVE  AtFront(log \o items, f, Len(items), TRUE)
  <1> DEFINE all == log \o items
  <1>1. /\ Len(log) \in Nat /\ Len(items) \in Nat
        /\ Len(all) = Len(log) + Len(items)
        /\ \A k \in 1..Len(items) : all[Len(log) + k] = items[k]
    BY LogLonger
  <1> HIDE DEF all
  <1>2. Len(log) \in 0..Len(all) - Len(items)
    BY <1>1
  <1>3. \A m \in Len(log) + Len(items) + 1..Len(all) : Dataless(all[m])
    BY <1>1
  <1> QED
    BY <1>1, <1>2, <1>3 DEF AtFront, EndsIn, all

LEMMA FrontWraps ==
    ASSUME NEW log \in Seq(Items), NEW f, NEW n, n # 0
    PROVE  AtFront(log \o <<Wrapped>>, f, n, TRUE)
  <1> DEFINE items == <<Wrapped>>
             all == log \o items
  <1>1. items \in Seq(Items) /\ Len(items) = 1 /\ items[1] = Wrapped
    BY DEF Items
  <1> HIDE DEF items
  <1>2. /\ Len(log) \in Nat /\ Len(all) = Len(log) + 1 /\ DOMAIN all = 1..Len(log) + 1
        /\ \A k \in 1..Len(items) : all[Len(log) + k] = items[k]
    BY <1>1, LogLonger
  <1> HIDE DEF all
  <1>3. Len(all) \in DOMAIN all /\ all[Len(all)] = Wrapped
    BY <1>1, <1>2
  <1>4. \A m \in Len(all) + 1..Len(all) : Dataless(all[m])
    BY <1>2
  <1>5. EndsWrapped(all)
    BY <1>3, <1>4 DEF EndsWrapped
  <1> QED
    BY <1>5 DEF AtFront, all, items

(* A turn of the parser and the handler. *)
LEMMA FrontStep ==
    ASSUME RecvInv, at = "parse", FrontInv, telnetEvtHandler,
           NEW items \in Seq(Items), Deliver(items),
           items = <<Wrapped>> \/ NoData(items) \/ (AllData(items) /\ Len(items) <= BufSize),
           BufSize # 0
    PROVE  AtFront(delivered', mem', recvBytes', DataSeen) /\ recvBytes' \in 0..BufSize
  <1>1. LogInv /\ ReadInv /\ BufSize \in Nat
    BY FlagsAssumption DEF RecvInv, BufSize
  <1>2. Log \in Seq(Items) /\ delivered' = Log \o items /\ AtFront(Log, mem, recvBytes, flag)
    BY <1>1, EmptySeq DEF Deliver, Log, LogInv, FrontInv
  <1>3. flag \in BOOLEAN /\ recvBytes \in Nat /\ DataSeen \in BOOLEAN
    BY <1>1 DEF ReadInv, DataSeen
  <1>4. /\ recvBytes' \in 0..BufSize
        /\ NoData(items) => UNCHANGED <<mem, recvBytes>> /\ (DataSeen <=> flag)
        /\ items = <<Wrapped>> => DataSeen /\ recvBytes' = BufSize
        /\ ~NoData(items) /\ items # <<Wrapped>> =>
              /\ DataSeen /\ Len(items) \in 1..BufSize
              /\ recvBytes' = Len(items)
              /\ \A k \in 1..Len(items) : items[k] = Data(mem'[k])
    BY <1>1, HandlerMoves
  <1>5. CASE NoData(items)
    <2>1. AtFront(Log \o items, mem, recvBytes, flag)
      BY <1>2, <1>3, <1>5, FrontStays
    <2>2. mem' = mem /\ recvBytes' = recvBytes /\ DataSeen = flag
      BY <1>3, <1>4, <1>5
    <2> QED
      BY <1>2, <1>4, <2>1, <2>2
  <1>7. CASE items = <<Wrapped>>
    <2>1. recvBytes' = BufSize /\ DataSeen = TRUE
      BY <1>3, <1>4, <1>7
    <2>2. AtFront(Log \o items, mem', recvBytes', TRUE)
      BY <1>2, <1>7, <2>1, FrontWraps
    <2> QED
      BY <1>2, <1>4, <2>1, <2>2
  <1>6. CASE ~NoData(items) /\ items # <<Wrapped>>
    <2>1. Len(items) # 0 /\ recvBytes' = Len(items) /\ DataSeen = TRUE
          /\ \A k \in 1..Len(items) : items[k] = Data(mem'[k])
      BY <1>3, <1>4, <1>6
    <2>2. AtFront(Log \o items, mem', Len(items), TRUE)
      BY <1>2, <2>1, FrontMoves
    <2> QED
      BY <1>2, <1>4, <2>1, <2>2
  <1> QED
    BY <1>5, <1>6, <1>7

LEMMA FrontIs ==
    ASSUME NEW f \in [1..BufSize -> Bytes], NEW n \in 0..BufSize, n # 0
    PROVE  /\ SubSeq(f, 1, n) \in Seq(Bytes) /\ Len(SubSeq(f, 1, n)) = n
           /\ \A j \in 1..n : SubSeq(f, 1, n)[j] = f[j]
  <1>1. BufSize \in Nat /\ f \in Seq(Bytes) /\ Len(f) = BufSize
    BY FlagsAssumption DEF BufSize
  <1>2. n \in 1..Len(f)
    BY <1>1
  <1> QED
    BY <1>1, <1>2, PrefixIs

LEMMA FrontEnds ==
    ASSUME NEW items, NEW f \in [1..BufSize -> Bytes], NEW n \in 0..BufSize, n # 0, EndsIn(items, f, n)
    PROVE  EndsWith(items, SubSeq(f, 1, n))
  <1> DEFINE data == SubSeq(f, 1, n)
  <1>1. Len(data) = n /\ \A j \in 1..n : data[j] = f[j]
    BY FrontIs
  <1> HIDE DEF data
  <1>2. EndsWith(items, data)
    BY <1>1 DEF EndsIn, EndsWith
  <1> QED
    BY <1>2 DEF data

(* The end of telnet_recv. *)
LEMMA FinishReturns ==
    ASSUME RecvInv, FrontInv, Finish
    PROVE  FrontInv' /\ ReturnsLast
  <1>1. LogInv /\ ReadInv /\ BufSize \in Nat /\ returned \in Seq(Bytes)
    BY FlagsAssumption DEF RecvInv, BufSize, FrontInv
  <1>2. /\ at = "parse" /\ telnetEvtHandler /\ flag' = FALSE /\ Deliver(Passed)
        /\ buf # <<>>
        /\ IF DataSeen THEN returned' = returned \o SubSeq(mem', 1, recvBytes') /\ at' = "out"
           ELSE at' = "recv" /\ UNCHANGED returned
    BY DEF Finish, EndCall
  <1>3. /\ Passed \in Seq(Items) /\ BufSize # 0
        /\ Passed = <<Wrapped>> \/ (AllData(Passed) /\ Len(Passed) <= BufSize)
    <2>1. i <= BufSize /\ i \in Nat
      BY <1>1, NoItemsAreShort DEF LogInv, TypeOK, BufSize
    <2>2. i # 0
      BY <1>1, <1>2, EmptySeq DEF LogInv, TypeOK, i
    <2>3. AllData(Passed) /\ Len(Passed) <= i => Len(Passed) <= BufSize
      <3>1. Passed \in Seq(Items) /\ Len(Passed) \in Nat
        BY <1>1, PassedFits, LenProperties
      <3> QED
        BY <1>1, <2>1, <3>1
    <2> QED
      BY <1>1, <2>1, <2>2, <2>3, PassedFits
  <1>4. AtFront(delivered', mem', recvBytes', DataSeen) /\ recvBytes' \in 0..BufSize
    BY <1>2, <1>3, FrontStep
  <1>5. mem' \in [1..BufSize -> Bytes]
    BY RecvStep DEF Finish, RecvNext, RecvInv, ReadInv
  <1>6. CASE DataSeen
    <2> DEFINE data == SubSeq(mem', 1, recvBytes')
    <2>1. recvBytes' # 0 /\ (EndsIn(delivered', mem', recvBytes') \/ EndsWrapped(delivered'))
      BY <1>4, <1>6 DEF AtFront
    <2>2. data \in Seq(Bytes) /\ Len(data) = recvBytes'
          /\ (EndsWith(delivered', data) \/ EndsWrapped(delivered'))
      BY <1>4, <1>5, <2>1, FrontIs, FrontEnds
    <2>3. returned' = returned \o data /\ at' = "out"
      BY <1>2, <1>6
    <2> HIDE DEF data
    <2>4. SubSeq(returned', Len(returned) + 1, Len(returned')) = data
      BY <1>1, <2>2, <2>3, TailOfConcat
    <2>5. data # <<>>
      BY <2>1, <2>2
    <2>6. returned' \in Seq(Bytes)
      BY <1>1, <2>2, <2>3, ConcatProperties
    <2>7. ReturnsLast
      BY <1>2, <2>2, <2>3, <2>4, <2>5 DEF ReturnsLast
    <2>8. FrontInv'
      BY <2>3, <2>6 DEF FrontInv
    <2> QED
      BY <2>7, <2>8
  <1>7. CASE ~DataSeen
    <2>1. TellsNo(delivered') /\ at' = "recv" /\ returned' = returned
      BY <1>2, <1>4, <1>7 DEF AtFront
    <2> QED
      BY <1>1, <1>2, <2>1 DEF ReturnsLast, FrontInv
  <1> QED
    BY <1>6, <1>7

LEMMA ReturnStep ==
    ASSUME RecvInv, FrontInv, [RecvNext]_<<vars, reader, wire>>
    PROVE  FrontInv' /\ [ReturnsLast]_<<vars, reader, wire>>
  <1>0. LogInv /\ ReadInv /\ BufSize \in Nat /\ returned \in Seq(Bytes)
    BY FlagsAssumption DEF RecvInv, BufSize, FrontInv
  <1>1. CASE Finish
    BY <1>1, FinishReturns
  <1>2. CASE Parse
    <2>1. /\ at = "parse" /\ at' = "parse" /\ i < Len(raw) /\ ReadByte(mem[i + 1])
          /\ telnetEvtHandler /\ flag' = DataSeen /\ UNCHANGED returned
      BY <1>2 DEF Parse
    <2>2. mem[i + 1] \in Bytes /\ state # "EOL"
      BY <1>0, <2>1, NextByte DEF ReadInv
    <2>3. PICK items : Tells(items)
      BY <1>0, <2>1, <2>2, ByteTells
    <2>4. items \in Seq(Items) /\ Deliver(items)
          /\ (items = <<Wrapped>> \/ NoData(items) \/ (AllData(items) /\ Len(items) <= BufSize))
          /\ BufSize # 0
      <3>1. Fits(items) /\ items \in Seq(Items) /\ Deliver(items) /\ Len(items) \in Nat
        BY <2>3, LenProperties DEF Tells
      <3>2. i + 1 <= BufSize /\ i \in Nat
        BY <1>0, <2>1, NoItemsAreShort, LenProperties DEF ReadInv
      <3> QED
        BY <1>0, <3>1, <3>2 DEF Fits, Short, AllData, Dataless
    <2>5. AtFront(delivered', mem', recvBytes', DataSeen)
      BY <2>1, <2>4, FrontStep
    <2>6. buf' # <<>>
      <3>1. buf' = Append(buf, mem[i + 1]) /\ buf \in Seq(Bytes)
        BY <1>0, <2>1 DEF ReadByte, LogInv, TypeOK
      <3> QED
        BY <2>2, <3>1, AppendProperties
    <2>7. FrontInv'
      BY <1>0, <2>1, <2>5, <2>6 DEF FrontInv, Log
    <2>8. ReturnsLast
      BY <2>1 DEF ReturnsLast
    <2> QED
      BY <2>7, <2>8
  <1>3. CASE Receive
    <2>1. at = "recv" /\ at' = "parse" /\ UNCHANGED <<vars, flag, recvBytes, returned>> /\ buf = <<>> /\ ~flag
      BY <1>0, <1>3 DEF Receive, FrontInv, ReadInv
    <2>2. Log' = <<>> /\ ~flag'
      BY <2>1 DEF Log, vars
    <2>3. AtFront(Log, mem, recvBytes, flag)'
      BY <2>2 DEF AtFront, TellsNo
    <2> QED
      BY <1>0, <2>1, <2>3 DEF FrontInv, ReturnsLast
  <1>4. CASE Enter \/ WouldBlock
    BY <1>0, <1>4 DEF Enter, WouldBlock, FrontInv, ReturnsLast
  <1>5. CASE UNCHANGED <<vars, reader, wire>>
    BY <1>5 DEF vars, reader, FrontInv, AtFront, EndsIn, EndsWrapped, TellsNo, Log
  <1> QED
    BY <1>1, <1>2, <1>3, <1>4, <1>5 DEF RecvNext

(* For a buffer of any size and any stream, what _TBP_recv returns is the  *)
(* end of the data that this very telnet_recv told, unless its last data   *)
(* had a size that wrapped: nothing of an earlier read, of a command or of *)
(* a subnegotiation is returned then.  A call that told data never goes    *)
(* back to recv, and one that told none always does.                       *)
THEOREM LastRunIsReturned == RecvSpec => LastRunReturned
  <1>1. RecvInit => FrontInv
    BY EmptySeq DEF RecvInit, ReaderInit, FrontInv
  <1>2. RecvInv /\ FrontInv /\ [RecvNext]_<<vars, reader, wire>>
          => FrontInv' /\ [ReturnsLast]_<<vars, reader, wire>>
    BY ReturnStep
  <1> QED
    BY <1>1, <1>2, RecvHolds, PTL DEF RecvSpec, LastRunReturned
==============================================================================
