---------------------- MODULE TelnetNegotiationProofs -----------------------
(* Theorems of TelnetNegotiation, for any telopts table and any number of  *)
(* requests and of stray commands.                                         *)
EXTENDS TelnetNegotiation, SequenceTheorems, TLAPS

-----------------------------------------------------------------------------
(* The rows of the tables stay among the states, and tell the application  *)
(* what changes.                                                           *)
Rows == [next : QStates, send : {"none", "yes", "no"}, view : {"keep", "on", "off"}, err : BOOLEAN]

RowTells(state, row) ==
    /\ row \in Rows
    /\ row.view = "keep" => (row.next \in On <=> state \in On)
    /\ row.view # "keep" => (row.next \in On <=> row.view = "on")

LEMMA RowsTell ==
    ASSUME NEW state \in QStates, NEW supported \in BOOLEAN
    PROVE  /\ RowTells(state, OnAskYes(state))
           /\ RowTells(state, OnAskNo(state))
           /\ RowTells(state, OnYes(state, supported))
           /\ RowTells(state, OnNo(state))
  BY DEF RowTells, Rows, OnAskYes, OnAskNo, OnYes, OnNo, Row, Nothing, QStates, On

LEMMA PartnerType ==
    ASSUME NEW s \in Sides
    PROVE  Partner(s) \in Sides /\ Partner(s) # s /\ Partner(Partner(s)) = s
  BY DEF Sides, Ends, Halves, Partner, Other, Opposite

LEMMA SentType ==
    ASSUME NEW s \in Sides, NEW sense, NEW w \in [Sides -> Seq(BOOLEAN)]
    PROVE  Sent(s, w, sense) \in [Sides -> Seq(BOOLEAN)]
  <1>1. Partner(s) \in Sides
    BY PartnerType
  <1>2. Append(w[Partner(s)], sense = "yes") \in Seq(BOOLEAN)
    BY <1>1
  <1> QED
    BY <1>1, <1>2 DEF Sent

(* What Apply does to the variables that Ask and Receive share. *)
LEMMA ApplyKeeps ==
    ASSUME TypeOK, AppKnows, NEW s \in Sides, NEW row, RowTells(q[s], row), Apply(s, row)
    PROVE  /\ q' \in [Sides -> QStates]
           /\ q'[s] = row.next
           /\ \A t \in Sides : t # s => q'[t] = q[t]
           /\ app' \in [Sides -> BOOLEAN]
           /\ tracked' \subseteq Ends
           /\ binary' \subseteq Sides
           /\ error' \in BOOLEAN
           /\ AppKnows'
  <1> USE DEF TypeOK, RowTells, Rows
  <1>1. q' = [q EXCEPT ![s] = row.next]
    BY DEF Apply, Save
  <1>2. q' \in [Sides -> QStates] /\ q'[s] = row.next /\ \A t \in Sides : t # s => q'[t] = q[t]
    BY <1>1
  <1>3. tracked' \subseteq Ends /\ binary' \subseteq Sides
    BY DEF Apply, Save, Sides
  <1>4. app' = [app EXCEPT ![s] = IF row.view = "keep" THEN @ ELSE row.view = "on"]
    BY DEF Apply
  <1>5. app' \in [Sides -> BOOLEAN]
    BY <1>4
  <1>6. error' \in BOOLEAN
    BY DEF Apply
  <1>7. ASSUME NEW t \in Sides PROVE app'[t] <=> q'[t] \in On
    <2>1. CASE t = s
      <3>1. app'[s] = IF row.view = "keep" THEN app[s] ELSE row.view = "on"
        BY <1>4
      <3>2. app[s] <=> q[s] \in On
        BY DEF AppKnows
      <3> QED
        BY <2>1, <3>1, <3>2, <1>2
    <2>2. CASE t # s
      BY <2>2, <1>2, <1>4 DEF AppKnows
    <2> QED
      BY <2>1, <2>2
  <1> QED
    BY <1>2, <1>3, <1>5, <1>6, <1>7 DEF AppKnows

-----------------------------------------------------------------------------
(* The two invariants that hold whatever the peer sends. *)
LEMMA TypeAndView == Spec => [](TypeOK /\ AppKnows)
  <1>1. Init => TypeOK /\ AppKnows
    <2> SUFFICES ASSUME Init PROVE TypeOK /\ AppKnows
      OBVIOUS
    <2>1. TypeOK
      <3>1. wire \in [Sides -> Seq(BOOLEAN)]
        BY EmptySeq DEF Init
      <3>2. q \in [Sides -> QStates] /\ app \in [Sides -> BOOLEAN]
        BY DEF Init, QStates
      <3>3. asks \in 0..MaxAsks /\ strays \in 0..MaxStrays
        BY BoundsAssumption DEF Init
      <3> QED
        BY <3>1, <3>2, <3>3 DEF Init, TypeOK
    <2>2. AppKnows
      <3> SUFFICES ASSUME NEW s \in Sides PROVE app[s] <=> q[s] \in On
        BY DEF AppKnows
      <3>1. q[s] = "NO" /\ app[s] = FALSE
        BY DEF Init
      <3> QED
        BY <3>1 DEF On
    <2> QED
      BY <2>1, <2>2
  <1>2. TypeOK /\ AppKnows /\ [Next]_vars => (TypeOK /\ AppKnows)'
    <2> SUFFICES ASSUME TypeOK, AppKnows, [Next]_vars
                 PROVE  (TypeOK /\ AppKnows)'
      OBVIOUS
    <2>1. ASSUME NEW s \in Sides, Receive(s)
          PROVE  (TypeOK /\ AppKnows)'
      <3> DEFINE row == IF Head(wire[s]) THEN OnYes(q[s], s \in Supports) ELSE OnNo(q[s])
      <3>1. q[s] \in QStates
        BY DEF TypeOK
      <3>2. RowTells(q[s], row)
        <4>1. RowTells(q[s], OnNo(q[s]))
          BY <3>1, RowsTell
        <4>2. RowTells(q[s], OnYes(q[s], s \in Supports))
          BY <3>1, RowsTell, (s \in Supports) \in BOOLEAN
        <4> QED
          BY <4>1, <4>2
      <3>3. Apply(s, row) /\ wire' = Sent(s, [wire EXCEPT ![s] = Tail(@)], row.send)
        BY <2>1 DEF Receive
      <3>4. [wire EXCEPT ![s] = Tail(@)] \in [Sides -> Seq(BOOLEAN)]
        <4>1. wire[s] \in Seq(BOOLEAN) /\ wire[s] # <<>>
          BY <2>1 DEF Receive, TypeOK
        <4>2. Tail(wire[s]) \in Seq(BOOLEAN)
          BY <4>1, HeadTailProperties
        <4> QED
          BY <4>2 DEF TypeOK
      <3>5. wire' \in [Sides -> Seq(BOOLEAN)]
        BY <3>3, <3>4, SentType
      <3> HIDE DEF row
      <3> QED
        BY <2>1, <3>2, <3>3, <3>5, ApplyKeeps DEF Receive, TypeOK
    <2>2. ASSUME NEW s \in Sides, NEW yes \in BOOLEAN, Ask(s, yes)
          PROVE  (TypeOK /\ AppKnows)'
      <3> DEFINE row == IF yes THEN OnAskYes(q[s]) ELSE OnAskNo(q[s])
      <3>1. q[s] \in QStates
        BY DEF TypeOK
      <3>2. RowTells(q[s], row)
        BY <3>1, RowsTell
      <3>3. Apply(s, row) /\ wire' = Sent(s, wire, row.send)
        BY <2>2 DEF Ask
      <3>4. wire' \in [Sides -> Seq(BOOLEAN)]
        BY <3>3, SentType DEF TypeOK
      <3>5. asks' \in 0..MaxAsks /\ strays' = strays
        BY <2>2, BoundsAssumption DEF Ask, TypeOK
      <3> HIDE DEF row
      <3> QED
        BY <3>2, <3>3, <3>4, <3>5, ApplyKeeps DEF TypeOK
    <2>3. ASSUME NEW s \in Sides, NEW yes \in BOOLEAN, Stray(s, yes)
          PROVE  (TypeOK /\ AppKnows)'
      BY <2>3, BoundsAssumption DEF Stray, TypeOK, AppKnows
    <2>4. CASE UNCHANGED vars
      BY <2>4 DEF vars, TypeOK, AppKnows
    <2> QED
      BY <2>1, <2>2, <2>3, <2>4 DEF Next
  <1> QED
    BY <1>1, <1>2, PTL DEF Spec

(* The tables of _negotiate and telnet_negotiate keep the state of every   *)
(* option, the wires and the mode flags well formed.                       *)
THEOREM NegotiationTypeOK == Spec => []TypeOK
  BY TypeAndView, PTL

(* The application always knows the state of an option: its view from the  *)
(* events agrees with the table, whatever the peer sends.                  *)
THEOREM ApplicationKnows == Spec => []AppKnows
  BY TypeAndView, PTL

-----------------------------------------------------------------------------
(* Two ends of libtelnet.                                                  *)

LEMMA LinkedSymmetric ==
    ASSUME NEW x, NEW y, NEW out, NEW in, Linked(x, y, out, in)
    PROVE  Linked(y, x, in, out)
  BY DEF Linked

(* The sequences that occur: of one command and of two. *)
LEMMA OneCommand ==
    ASSUME NEW a
    PROVE  /\ Append(<<>>, a) = <<a>>
           /\ <<a>> # <<>> /\ Head(<<a>>) = a /\ Tail(<<a>>) = <<>>
  <1>1. Append(<<>>, a) = <<a>>
    OBVIOUS
  <1>2. <<a>> # <<>> /\ Head(<<a>>) = a /\ Tail(<<a>>) = <<>>
    OBVIOUS
  <1> QED
    BY <1>1, <1>2

LEMMA TwoCommands ==
    ASSUME NEW a \in BOOLEAN, NEW b \in BOOLEAN
    PROVE  /\ Append(<<a>>, b) = <<a, b>>
           /\ <<a, b>> # <<>> /\ Head(<<a, b>>) = a /\ Tail(<<a, b>>) = <<b>>
  <1>1. <<a>> \in Seq(BOOLEAN) /\ Len(<<a>>) = 1
    OBVIOUS
  <1>2. <<a, b>> \in Seq(BOOLEAN) /\ Len(<<a, b>>) = 2 /\ <<a, b>>[1] = a /\ <<a, b>>[2] = b
    OBVIOUS
  <1>3. Append(<<a>>, b) \in Seq(BOOLEAN) /\ Len(Append(<<a>>, b)) = 2
    BY <1>1
  <1>4. Append(<<a>>, b)[1] = a /\ Append(<<a>>, b)[2] = b
    BY <1>1
  <1>5. Append(<<a>>, b) = <<a, b>>
    BY <1>2, <1>3, <1>4, SeqEqual, 1..2 = {1, 2}
  <1>6. <<a, b>> # <<>> /\ Head(<<a, b>>) = a /\ Tail(<<a, b>>) = <<b>>
    OBVIOUS
  <1> QED
    BY <1>5, <1>6

(* The queue of commands w after a row's answer. *)
Added(w, sense) == IF sense = "none" THEN w ELSE Append(w, sense = "yes")

LEMMA AddedIs ==
    ASSUME NEW w
    PROVE  /\ Added(w, "none") = w
           /\ Added(w, "yes") = Append(w, TRUE)
           /\ Added(w, "no") = Append(w, FALSE)
  <1>1. ("yes" = "yes") = TRUE /\ ("no" = "yes") = FALSE
    OBVIOUS
  <1> QED
    BY <1>1 DEF Added

(* A request: nothing is sent while an answer is due, and the state stays  *)
(* among those that wait for the same answer.                              *)
LEMMA AskRows ==
    ASSUME NEW x \in QStates, NEW row, row = OnAskYes(x) \/ row = OnAskNo(x)
    PROVE  /\ row.err = FALSE
           /\ \/ row.send = "none" /\ row.next = x
              \/ row.send = "none" /\ row.next \in WantNo /\ x \in WantNo
              \/ row.send = "none" /\ row.next \in WantYes /\ x \in WantYes
              \/ row.send = "yes" /\ x = "NO" /\ row.next = "WANTYES"
              \/ row.send = "no" /\ x = "YES" /\ row.next = "WANTNO"
  BY DEF OnAskYes, OnAskNo, Row, Nothing, WantNo, WantYes, QStates

LEMMA AskKeepsLinked ==
    ASSUME NEW x \in QStates, NEW y \in QStates, NEW out, NEW in, Linked(x, y, out, in),
           NEW row, row = OnAskYes(x) \/ row = OnAskNo(x)
    PROVE  row.err = FALSE /\ Linked(row.next, y, Added(out, row.send), in)
  <1>0. /\ row.err = FALSE
        /\ \/ row.send = "none" /\ row.next = x
           \/ row.send = "none" /\ row.next \in WantNo /\ x \in WantNo
           \/ row.send = "none" /\ row.next \in WantYes /\ x \in WantYes
           \/ row.send = "yes" /\ x = "NO" /\ row.next = "WANTYES"
           \/ row.send = "no" /\ x = "YES" /\ row.next = "WANTNO"
    BY AskRows
  <1> USE DEF Want, WantNo, WantYes
  <1>1. CASE row.send = "none"
    <2>1. Added(out, row.send) = out
      BY <1>1 DEF Added
    <2>2. \/ row.next = x
          \/ row.next \in WantNo /\ x \in WantNo
          \/ row.next \in WantYes /\ x \in WantYes
      BY <1>1, <1>0
    <2>3. Linked(row.next, y, out, in)
      <3>1. CASE row.next = x
        BY <3>1
      <3>2. CASE row.next \in WantNo /\ x \in WantNo
        BY <3>2 DEF Linked, Answering
      <3>3. CASE row.next \in WantYes /\ x \in WantYes
        BY <3>3 DEF Linked, Answering
      <3> QED
        BY <2>2, <3>1, <3>2, <3>3
    <2> QED
      BY <1>0, <2>1, <2>3
  <1>2. CASE row.send = "yes"
    <2>0. x = "NO" /\ row.next = "WANTYES"
      BY <1>0, <1>2
    <2>1. x = "NO" /\ row.next = "WANTYES" /\ Added(out, row.send) = Append(out, TRUE)
      BY <1>2, <2>0, AddedIs
    <2>2. \/ out = <<>> /\ in = <<>> /\ y = "NO"
          \/ out = <<>> /\ in = <<TRUE>> /\ y \in WantYes
          \/ in = <<>> /\ out = <<FALSE>> /\ y \in Want
      BY <2>1 DEF Linked, Answering
    <2>3. Append(<<>>, TRUE) = <<TRUE>> /\ Append(<<FALSE>>, TRUE) = <<FALSE, TRUE>>
      BY OneCommand, TwoCommands
    <2> QED
      BY <1>0, <2>1, <2>2, <2>3 DEF Linked, Answering
  <1>3. CASE row.send = "no"
    <2>0. x = "YES" /\ row.next = "WANTNO"
      BY <1>0, <1>3
    <2>1. x = "YES" /\ row.next = "WANTNO" /\ Added(out, row.send) = Append(out, FALSE)
      BY <1>3, <2>0, AddedIs
    <2>2. \/ out = <<>> /\ in = <<>> /\ y = "YES"
          \/ out = <<>> /\ in = <<FALSE>> /\ y \in WantNo
          \/ in = <<>> /\ out = <<TRUE>> /\ y \in WantYes
      BY <2>1 DEF Linked, Answering
    <2>3. Append(<<>>, FALSE) = <<FALSE>> /\ Append(<<TRUE>>, FALSE) = <<TRUE, FALSE>>
      BY OneCommand, TwoCommands
    <2> QED
      BY <1>0, <2>1, <2>2, <2>3 DEF Linked, Answering
  <1>4. row.send \in {"none", "yes", "no"}
    BY <1>0
  <1> QED
    BY <1>1, <1>2, <1>3, <1>4

(* The rows of _negotiate for a refusal, state by state. *)
LEMMA OnNoRows ==
    ASSUME NEW x \in QStates, NEW row, row = OnNo(x)
    PROVE  /\ row.err = FALSE
           /\ x = "NO" => row.next = "NO" /\ row.send = "none"
           /\ x = "YES" => row.next = "NO" /\ row.send = "no"
           /\ x = "WANTNO_OP" => row.next = "WANTYES" /\ row.send = "yes"
           /\ x \in {"WANTNO", "WANTYES", "WANTYES_OP"} => row.next = "NO" /\ row.send = "none"
  BY DEF OnNo, Row, Nothing, QStates

(* The row of the tables that a received command selects. *)
Received(x, supported, yes) == IF yes THEN OnYes(x, supported) ELSE OnNo(x)

LEMMA RowKeepsLinked ==
    ASSUME NEW x \in QStates, NEW y \in QStates, NEW out, NEW in, Linked(x, y, out, in),
           in # <<>>, NEW supported \in BOOLEAN,
           NEW row, row = Received(x, supported, Head(in))
    PROVE  row.err = FALSE /\ Linked(row.next, y, Added(out, row.send), Tail(in))
  <1> DEFINE Goal == row.err = FALSE /\ Linked(row.next, y, Added(out, row.send), Tail(in))
  <1> USE DEF Want, WantNo, WantYes
  <1>0. /\ Append(<<>>, TRUE) = <<TRUE>> /\ Append(<<>>, FALSE) = <<FALSE>>
        /\ Append(<<FALSE>>, TRUE) = <<FALSE, TRUE>> /\ Append(<<TRUE>>, FALSE) = <<TRUE, FALSE>>
    BY OneCommand, TwoCommands
  <1>1. Head(<<TRUE>>) = TRUE /\ Tail(<<TRUE>>) = <<>> /\ Head(<<FALSE>>) = FALSE /\ Tail(<<FALSE>>) = <<>>
    BY OneCommand
  <1>2. /\ Head(<<FALSE, TRUE>>) = FALSE /\ Tail(<<FALSE, TRUE>>) = <<TRUE>>
        /\ Head(<<TRUE, FALSE>>) = TRUE /\ Tail(<<TRUE, FALSE>>) = <<FALSE>>
    BY TwoCommands
  <1> HIDE DEF Goal
  <1>3. CASE out = <<>> /\ in = <<FALSE>> /\ x \in Want /\ y = "NO"
    <2>1. row = OnNo(x) /\ Tail(in) = <<>>
      BY <1>1, <1>3 DEF Received
    <2>2. CASE x = "WANTNO_OP"
      <3>0. row.err = FALSE /\ row.next = "WANTYES" /\ row.send = "yes"
        BY <2>1, <2>2, OnNoRows
      <3>1. row.err = FALSE /\ row.next = "WANTYES" /\ Added(out, row.send) = <<TRUE>>
        BY <1>0, <1>3, <3>0, AddedIs
      <3> QED
        BY <1>3, <2>1, <3>1 DEF Goal, Linked, Answering
    <2>3. CASE x # "WANTNO_OP"
      <3>2. x \in {"WANTNO", "WANTYES", "WANTYES_OP"}
        BY <1>3, <2>3
      <3>0. row.err = FALSE /\ row.next = "NO" /\ row.send = "none"
        BY <2>1, <3>2, OnNoRows
      <3>1. row.err = FALSE /\ row.next = "NO" /\ Added(out, row.send) = <<>>
        BY <1>0, <1>3, <3>0, AddedIs
      <3> QED
        BY <1>3, <2>1, <3>1 DEF Goal, Linked, Answering
    <2> QED
      BY <2>2, <2>3
  <1>4. CASE out = <<>> /\ in = <<FALSE>> /\ x = "YES" /\ y \in WantNo
    <2>0. row = OnNo(x)
      BY <1>1, <1>4 DEF Received
    <2>2. row.err = FALSE /\ row.next = "NO" /\ row.send = "no"
      BY <1>4, <2>0, OnNoRows
    <2>1. row.err = FALSE /\ row.next = "NO" /\ Added(out, row.send) = <<FALSE>>
      BY <1>0, <1>4, <2>2, AddedIs
    <2> QED
      BY <1>1, <1>4, <2>1 DEF Goal, Linked, Answering
  <1>5. CASE out = <<>> /\ in = <<TRUE>> /\ x = "NO" /\ y \in WantYes
    <2>1. row = OnYes(x, supported) /\ Tail(in) = <<>>
      BY <1>1, <1>5 DEF Received
    <2>0. x = "NO"
      BY <1>5
    <2>2. CASE supported
      <3>1. OnYes("NO", TRUE) = Row("YES", "yes", "on", FALSE)
        BY DEF OnYes
      <3>2. supported = TRUE
        BY <2>2
      <3>3. row = Row("YES", "yes", "on", FALSE)
        BY <2>0, <2>1, <3>1, <3>2
      <3>4. row.err = FALSE /\ row.next = "YES" /\ row.send = "yes"
        BY <3>3 DEF Row
      <3>5. row.err = FALSE /\ row.next = "YES" /\ Added(out, row.send) = <<TRUE>>
        BY <1>0, <1>5, <3>4, AddedIs
      <3> QED
        BY <1>5, <2>1, <3>5 DEF Goal, Linked, Answering
    <2>3. CASE ~supported
      <3>1. OnYes("NO", FALSE) = Row("NO", "no", "keep", FALSE)
        BY DEF OnYes
      <3>2. supported = FALSE
        BY <2>3
      <3>3. row = Row("NO", "no", "keep", FALSE)
        BY <2>0, <2>1, <3>1, <3>2
      <3>4. row.err = FALSE /\ row.next = "NO" /\ row.send = "no"
        BY <3>3 DEF Row
      <3>5. row.err = FALSE /\ row.next = "NO" /\ Added(out, row.send) = <<FALSE>>
        BY <1>0, <1>5, <3>4, AddedIs
      <3> QED
        BY <1>5, <2>1, <3>5 DEF Goal, Linked, Answering
    <2> QED
      BY <2>2, <2>3
  <1>6. CASE out = <<>> /\ in = <<TRUE>> /\ x \in WantYes /\ y = "YES"
    <2>1. row = OnYes(x, supported) /\ Tail(in) = <<>>
      BY <1>1, <1>6 DEF Received
    <2>2. CASE x = "WANTYES"
      <3>0. row.err = FALSE /\ row.next = "YES" /\ row.send = "none"
        BY <2>1, <2>2 DEF OnYes, Row, Nothing
      <3>1. row.err = FALSE /\ row.next = "YES" /\ Added(out, row.send) = <<>>
        BY <1>0, <1>6, <3>0, AddedIs
      <3> QED
        BY <1>6, <2>1, <3>1 DEF Goal, Linked, Answering
    <2>3. CASE x = "WANTYES_OP"
      <3>0. row.err = FALSE /\ row.next = "WANTNO" /\ row.send = "no"
        BY <2>1, <2>3 DEF OnYes, Row, Nothing
      <3>1. row.err = FALSE /\ row.next = "WANTNO" /\ Added(out, row.send) = <<FALSE>>
        BY <1>0, <1>6, <3>0, AddedIs
      <3> QED
        BY <1>6, <2>1, <3>1 DEF Goal, Linked, Answering
    <2> QED
      BY <1>6, <2>2, <2>3
  <1>7. CASE out = <<>> /\ in = <<FALSE, TRUE>> /\ x \in Want /\ y \in WantYes
    <2>1. row = OnNo(x) /\ Tail(in) = <<TRUE>>
      BY <1>2, <1>7 DEF Received
    <2>2. CASE x = "WANTNO_OP"
      <3>0. row.err = FALSE /\ row.next = "WANTYES" /\ row.send = "yes"
        BY <2>1, <2>2, OnNoRows
      <3>1. row.err = FALSE /\ row.next = "WANTYES" /\ Added(out, row.send) = <<TRUE>>
        BY <1>0, <1>7, <3>0, AddedIs
      <3> QED
        BY <1>7, <2>1, <3>1 DEF Goal, Linked, Answering
    <2>3. CASE x # "WANTNO_OP"
      <3>2. x \in {"WANTNO", "WANTYES", "WANTYES_OP"}
        BY <1>7, <2>3
      <3>0. row.err = FALSE /\ row.next = "NO" /\ row.send = "none"
        BY <2>1, <3>2, OnNoRows
      <3>1. row.err = FALSE /\ row.next = "NO" /\ Added(out, row.send) = <<>>
        BY <1>0, <1>7, <3>0, AddedIs
      <3> QED
        BY <1>7, <2>1, <3>1 DEF Goal, Linked, Answering
    <2> QED
      BY <2>2, <2>3
  <1>8. CASE out = <<>> /\ in = <<TRUE, FALSE>> /\ x \in WantYes /\ y \in WantNo
    <2>1. row = OnYes(x, supported) /\ Tail(in) = <<FALSE>>
      BY <1>2, <1>8 DEF Received
    <2>2. CASE x = "WANTYES"
      <3>0. row.err = FALSE /\ row.next = "YES" /\ row.send = "none"
        BY <2>1, <2>2 DEF OnYes, Row, Nothing
      <3>1. row.err = FALSE /\ row.next = "YES" /\ Added(out, row.send) = <<>>
        BY <1>0, <1>8, <3>0, AddedIs
      <3> QED
        BY <1>8, <2>1, <3>1 DEF Goal, Linked, Answering
    <2>3. CASE x = "WANTYES_OP"
      <3>0. row.err = FALSE /\ row.next = "WANTNO" /\ row.send = "no"
        BY <2>1, <2>3 DEF OnYes, Row, Nothing
      <3>1. row.err = FALSE /\ row.next = "WANTNO" /\ Added(out, row.send) = <<FALSE>>
        BY <1>0, <1>8, <3>0, AddedIs
      <3> QED
        BY <1>8, <2>1, <3>1 DEF Goal, Linked, Answering
    <2> QED
      BY <1>8, <2>2, <2>3
  <1>9. CASE out = <<FALSE>> /\ in = <<FALSE>> /\ x \in WantNo /\ y \in WantNo
    <2>1. row = OnNo(x) /\ Tail(in) = <<>>
      BY <1>1, <1>9 DEF Received
    <2>2. CASE x = "WANTNO"
      <3>0. row.err = FALSE /\ row.next = "NO" /\ row.send = "none"
        BY <2>1, <2>2, OnNoRows
      <3>1. row.err = FALSE /\ row.next = "NO" /\ Added(out, row.send) = <<FALSE>>
        BY <1>0, <1>9, <3>0, AddedIs
      <3> QED
        BY <1>9, <2>1, <3>1 DEF Goal, Linked, Answering
    <2>3. CASE x = "WANTNO_OP"
      <3>0. row.err = FALSE /\ row.next = "WANTYES" /\ row.send = "yes"
        BY <2>1, <2>3, OnNoRows
      <3>1. row.err = FALSE /\ row.next = "WANTYES" /\ Added(out, row.send) = <<FALSE, TRUE>>
        BY <1>0, <1>9, <3>0, AddedIs
      <3> QED
        BY <1>9, <2>1, <3>1 DEF Goal, Linked, Answering
    <2> QED
      BY <1>9, <2>2, <2>3
  <1>10. CASE out = <<TRUE>> /\ in = <<TRUE>> /\ x \in WantYes /\ y \in WantYes
    <2>1. row = OnYes(x, supported) /\ Tail(in) = <<>>
      BY <1>1, <1>10 DEF Received
    <2>2. CASE x = "WANTYES"
      <3>0. row.err = FALSE /\ row.next = "YES" /\ row.send = "none"
        BY <2>1, <2>2 DEF OnYes, Row, Nothing
      <3>1. row.err = FALSE /\ row.next = "YES" /\ Added(out, row.send) = <<TRUE>>
        BY <1>0, <1>10, <3>0, AddedIs
      <3> QED
        BY <1>10, <2>1, <3>1 DEF Goal, Linked, Answering
    <2>3. CASE x = "WANTYES_OP"
      <3>0. row.err = FALSE /\ row.next = "WANTNO" /\ row.send = "no"
        BY <2>1, <2>3 DEF OnYes, Row, Nothing
      <3>1. row.err = FALSE /\ row.next = "WANTNO" /\ Added(out, row.send) = <<TRUE, FALSE>>
        BY <1>0, <1>10, <3>0, AddedIs
      <3> QED
        BY <1>10, <2>1, <3>1 DEF Goal, Linked, Answering
    <2> QED
      BY <1>10, <2>2, <2>3
  <1>11. \/ out = <<>> /\ in = <<FALSE>> /\ x \in Want /\ y = "NO"
         \/ out = <<>> /\ in = <<FALSE>> /\ x = "YES" /\ y \in WantNo
         \/ out = <<>> /\ in = <<TRUE>> /\ x = "NO" /\ y \in WantYes
         \/ out = <<>> /\ in = <<TRUE>> /\ x \in WantYes /\ y = "YES"
         \/ out = <<>> /\ in = <<FALSE, TRUE>> /\ x \in Want /\ y \in WantYes
         \/ out = <<>> /\ in = <<TRUE, FALSE>> /\ x \in WantYes /\ y \in WantNo
         \/ out = <<FALSE>> /\ in = <<FALSE>> /\ x \in WantNo /\ y \in WantNo
         \/ out = <<TRUE>> /\ in = <<TRUE>> /\ x \in WantYes /\ y \in WantYes
    BY DEF Linked, Answering
  <1> QED
    BY <1>3, <1>4, <1>5, <1>6, <1>7, <1>8, <1>9, <1>10, <1>11 DEF Goal

KeepsLinked(row, x, y, out, in) == row.err = FALSE /\ Linked(row.next, y, Added(out, row.send), Tail(in))

LEMMA ReceiveKeepsLinked ==
    \A x, y \in QStates : \A out, in : \A supported \in BOOLEAN :
        Linked(x, y, out, in) /\ in # <<>>
          => KeepsLinked(Received(x, supported, Head(in)), x, y, out, in)
  <1> SUFFICES ASSUME NEW x \in QStates, NEW y \in QStates, NEW out, NEW in,
                      NEW supported \in BOOLEAN, Linked(x, y, out, in), in # <<>>,
                      NEW row, row = Received(x, supported, Head(in))
               PROVE  KeepsLinked(row, x, y, out, in)
    OBVIOUS
  <1> QED
    BY RowKeepsLinked DEF KeepsLinked

-----------------------------------------------------------------------------
(* A step of one side changes its own state, the commands it reads and     *)
(* those it sends to its partner; the other pair of sides stays as it is.  *)
LinkedAt(s) == Linked(q[s], q[Partner(s)], wire[Partner(s)], wire[s])
LinkInv == strays = 0 => error = FALSE /\ \A s \in Sides : LinkedAt(s)

LEMMA PartnerOfOthers ==
    ASSUME NEW s \in Sides, NEW t \in Sides, t # s, t # Partner(s)
    PROVE  Partner(t) # s /\ Partner(t) # Partner(s)
  BY DEF Sides, Ends, Halves, Partner, Other, Opposite

LEMMA OnePairMoves ==
    ASSUME NEW s \in Sides,
           \A t \in Sides : LinkedAt(t),
           LinkedAt(s)',
           \A t \in Sides : t # s => q'[t] = q[t],
           \A t \in Sides : t # s /\ t # Partner(s) => wire'[t] = wire[t]
    PROVE  \A t \in Sides : LinkedAt(t)'
  <1> SUFFICES ASSUME NEW t \in Sides PROVE LinkedAt(t)'
    OBVIOUS
  <1>1. CASE t = s
    BY <1>1
  <1>2. CASE t = Partner(s)
    <2>1. Partner(t) = s
      BY <1>2, PartnerType
    <2>2. Linked(q'[s], q'[t], wire'[t], wire'[s])
      BY <1>2 DEF LinkedAt
    <2>3. Linked(q'[t], q'[s], wire'[s], wire'[t])
      BY <2>2, LinkedSymmetric
    <2> QED
      BY <2>1, <2>3 DEF LinkedAt
  <1>3. CASE t # s /\ t # Partner(s)
    <2>1. Partner(t) \in Sides /\ Partner(t) # s /\ Partner(t) # Partner(s)
      BY <1>3, PartnerOfOthers, PartnerType
    <2>2. /\ q'[t] = q[t] /\ q'[Partner(t)] = q[Partner(t)]
          /\ wire'[t] = wire[t] /\ wire'[Partner(t)] = wire[Partner(t)]
      BY <1>3, <2>1
    <2> QED
      BY <2>2 DEF LinkedAt
  <1> QED
    BY <1>1, <1>2, <1>3

(* What Apply and Sent do, in the words of OnePairMoves. *)
LEMMA MovesOnePair ==
    ASSUME TypeOK, NEW s \in Sides, NEW row, RowTells(q[s], row), Apply(s, row),
           row.err = FALSE, error = FALSE,
           \A t \in Sides : LinkedAt(t),
           NEW w \in [Sides -> Seq(BOOLEAN)], w[Partner(s)] = wire[Partner(s)],
           \A t \in Sides : t # s => w[t] = wire[t],
           wire' = Sent(s, w, row.send),
           Linked(row.next, q[Partner(s)], Added(wire[Partner(s)], row.send), w[s])
    PROVE  error' = FALSE /\ \A t \in Sides : LinkedAt(t)'
  <1>1. Partner(s) \in Sides /\ Partner(s) # s
    BY PartnerType
  <1>2. q' = [q EXCEPT ![s] = row.next]
    BY DEF Apply, Save, TypeOK, RowTells, Rows
  <1>3. q'[s] = row.next /\ \A t \in Sides : t # s => q'[t] = q[t]
    BY <1>2 DEF TypeOK
  <1>4. wire'[Partner(s)] = Added(wire[Partner(s)], row.send)
    BY <1>1 DEF Sent, Added
  <1>5. \A t \in Sides : t # Partner(s) => wire'[t] = w[t]
    BY <1>1 DEF Sent
  <1>6. LinkedAt(s)'
    <2>1. wire'[s] = w[s] /\ q'[Partner(s)] = q[Partner(s)]
      BY <1>1, <1>3, <1>5
    <2> QED
      BY <2>1, <1>3, <1>4 DEF LinkedAt
  <1>7. \A t \in Sides : t # s /\ t # Partner(s) => wire'[t] = wire[t]
    BY <1>5
  <1>8. error' = FALSE
    BY DEF Apply
  <1> QED
    BY <1>3, <1>6, <1>7, <1>8, OnePairMoves

LEMMA LinkInvInductive ==
    TypeOK /\ LinkInv /\ [Next]_vars => LinkInv'
  <1> SUFFICES ASSUME TypeOK, LinkInv, [Next]_vars
               PROVE  LinkInv'
    OBVIOUS
  <1>1. ASSUME NEW s \in Sides, Receive(s), strays' = 0
        PROVE  error' = FALSE /\ \A t \in Sides : LinkedAt(t)'
    <2> DEFINE row == IF Head(wire[s]) THEN OnYes(q[s], s \in Supports) ELSE OnNo(q[s])
    <2> DEFINE w == [wire EXCEPT ![s] = Tail(@)]
    <2>1. strays = 0 /\ wire[s] # <<>> /\ Apply(s, row) /\ wire' = Sent(s, w, row.send)
      BY <1>1 DEF Receive
    <2>2. error = FALSE /\ \A t \in Sides : LinkedAt(t)
      BY <2>1 DEF LinkInv
    <2>3. Partner(s) \in Sides /\ Partner(s) # s
      BY PartnerType
    <2>4. q[s] \in QStates /\ q[Partner(s)] \in QStates /\ wire[s] \in Seq(BOOLEAN)
      BY <2>3 DEF TypeOK
    <2>5. Linked(q[s], q[Partner(s)], wire[Partner(s)], wire[s])
      BY <2>2 DEF LinkedAt
    <2>6. RowTells(q[s], row)
      <3>1. RowTells(q[s], OnNo(q[s]))
        BY <2>4, RowsTell
      <3>2. RowTells(q[s], OnYes(q[s], s \in Supports))
        BY <2>4, RowsTell, (s \in Supports) \in BOOLEAN
      <3> QED
        BY <3>1, <3>2
    <2>7. row.err = FALSE /\ Linked(row.next, q[Partner(s)], Added(wire[Partner(s)], row.send), Tail(wire[s]))
      <3>1. (s \in Supports) \in BOOLEAN
        OBVIOUS
      <3>2. PICK supported \in BOOLEAN : supported = (s \in Supports)
        BY <3>1
      <3>3. row = Received(q[s], supported, Head(wire[s]))
        BY <3>2 DEF Received
      <3> HIDE DEF row, w
      <3>4. wire[s] # <<>> /\ supported \in BOOLEAN
        BY <2>1
      <3>5. KeepsLinked(Received(q[s], supported, Head(wire[s])),
                        q[s], q[Partner(s)], wire[Partner(s)], wire[s])
        BY <2>4, <2>5, <3>4, ReceiveKeepsLinked
      <3> QED
        BY <3>3, <3>5 DEF KeepsLinked
    <2>8. Tail(wire[s]) \in Seq(BOOLEAN)
      BY <2>1, <2>4, HeadTailProperties
    <2>9. /\ w \in [Sides -> Seq(BOOLEAN)] /\ w[s] = Tail(wire[s])
          /\ \A t \in Sides : t # s => w[t] = wire[t]
      BY <2>8 DEF TypeOK
    <2> HIDE DEF row, w
    <2> QED
      BY <2>1, <2>2, <2>3, <2>6, <2>7, <2>9, MovesOnePair
  <1>2. ASSUME NEW s \in Sides, NEW yes \in BOOLEAN, Ask(s, yes), strays' = 0
        PROVE  error' = FALSE /\ \A t \in Sides : LinkedAt(t)'
    <2> DEFINE row == IF yes THEN OnAskYes(q[s]) ELSE OnAskNo(q[s])
    <2>1. strays = 0 /\ Apply(s, row) /\ wire' = Sent(s, wire, row.send)
      BY <1>2 DEF Ask
    <2>2. error = FALSE /\ \A t \in Sides : LinkedAt(t)
      BY <2>1 DEF LinkInv
    <2>3. Partner(s) \in Sides
      BY PartnerType
    <2>4. q[s] \in QStates /\ q[Partner(s)] \in QStates
      BY <2>3 DEF TypeOK
    <2>5. Linked(q[s], q[Partner(s)], wire[Partner(s)], wire[s])
      BY <2>2 DEF LinkedAt
    <2>6. RowTells(q[s], row)
      BY <2>4, RowsTell
    <2>7. row = OnAskYes(q[s]) \/ row = OnAskNo(q[s])
      OBVIOUS
    <2> HIDE DEF row
    <2>8. row.err = FALSE /\ Linked(row.next, q[Partner(s)], Added(wire[Partner(s)], row.send), wire[s])
      BY <2>4, <2>5, <2>7, AskKeepsLinked
    <2>9. wire \in [Sides -> Seq(BOOLEAN)]
      BY DEF TypeOK
    <2> QED
      BY <2>1, <2>2, <2>3, <2>6, <2>8, <2>9, MovesOnePair
  <1>3. ASSUME NEW s \in Sides, NEW yes \in BOOLEAN, Stray(s, yes)
        PROVE  strays' # 0
    BY <1>3 DEF Stray, TypeOK
  <1>4. CASE UNCHANGED vars
    BY <1>4 DEF vars, LinkInv, LinkedAt
  <1> QED
    BY <1>1, <1>2, <1>3, <1>4 DEF Next, LinkInv

LEMMA LinkInvHolds == Spec => [](TypeOK /\ LinkInv)
  <1>1. Init => LinkInv
    <2> SUFFICES ASSUME Init, NEW s \in Sides PROVE error = FALSE /\ LinkedAt(s)
      BY DEF LinkInv, Init
    <2>1. Partner(s) \in Sides
      BY PartnerType
    <2>2. q[s] = "NO" /\ q[Partner(s)] = "NO" /\ wire[s] = <<>> /\ wire[Partner(s)] = <<>>
      BY <2>1 DEF Init
    <2> QED
      BY <2>2 DEF Init, LinkedAt, Linked
  <1> QED
    BY <1>1, LinkInvInductive, NegotiationTypeOK, PTL DEF Spec

(* Between two ends that run this code, whose requests may cross in any    *)
(* way, every pair of sides is in one of the situations of Linked: never   *)
(* are more than two commands of a pair on the wire.                       *)
THEOREM AlwaysLinked == Spec => []AllLinked
  <1>1. LinkInv => AllLinked
    BY DEF LinkInv, LinkedAt, AllLinked
  <1> QED
    BY <1>1, LinkInvHolds, PTL

(* Neither of them ever takes a branch of _negotiate that reports a        *)
(* protocol error.                                                         *)
THEOREM NeverErrs == Spec => []NoProtocolError
  <1>1. LinkInv => NoProtocolError
    BY DEF LinkInv, NoProtocolError
  <1> QED
    BY <1>1, LinkInvHolds, PTL

(* When nothing is on the wire between them they agree on the option.      *)
THEOREM EndsAgree == Spec => []Agreement
  <1>1. TypeOK /\ LinkInv => Agreement
    <2> SUFFICES ASSUME TypeOK, LinkInv, Quiet, strays = 0, NEW s \in Sides
                 PROVE  q[s] \in {"NO", "YES"} /\ q[s] = q[Partner(s)]
      BY DEF Agreement
    <2>1. Partner(s) \in Sides
      BY PartnerType
    <2>2. wire[s] = <<>> /\ wire[Partner(s)] = <<>>
      BY <2>1 DEF Quiet
    <2>3. Linked(q[s], q[Partner(s)], <<>>, <<>>)
      BY <2>2 DEF LinkInv, LinkedAt
    <2> QED
      BY <2>3, OneCommand, TwoCommands DEF Linked, Answering
  <1> QED
    BY <1>1, LinkInvHolds, PTL
-----------------------------------------------------------------------------
(* What makes BinaryOnlyWhenOn inductive: a flag is only ever set next to   *)
(* an entry of the table, so that whatever changes the state of its side    *)
(* brings the flags up to date.                                             *)
FlagsTracked == \A s \in binary : s[1] \in tracked
FlagInv == binary \subseteq Sides /\ FlagsTracked /\ BinaryOnlyWhenOn

LEMMA ApplyKeepsFlags ==
    ASSUME FlagInv, q \in [Sides -> QStates], NEW s \in Sides, NEW row, Apply(s, row)
    PROVE  FlagInv'
  <1>1. CASE row.next = q[s]
    <2>1. UNCHANGED <<q, tracked, binary>>
      BY <1>1 DEF Apply
    <2> QED
      BY <2>1 DEF FlagInv, FlagsTracked, BinaryOnlyWhenOn
  <1>2. CASE row.next # q[s]
    <2>1. Save(s, row.next)
      BY <1>2 DEF Apply
    <2>2. \A t \in Sides : t # s => q'[t] = q[t]
      BY <2>1 DEF Save
    <2>3. tracked' = tracked \cup {s[1]}
      BY <2>1 DEF Save
    <2>4. CASE s[1] \in tracked
      <3>1. binary' = {t \in Sides : IF t[1] = s[1] THEN q'[t] = "YES" ELSE t \in binary}
        BY <2>1, <2>4 DEF Save
      <3>2. ASSUME NEW t \in binary' PROVE t[1] \in tracked' /\ q'[t] = "YES"
        <4>1. CASE t[1] = s[1]
          BY <3>1, <3>2, <4>1, <2>3
        <4>2. CASE t[1] # s[1]
          <5>1. t \in binary /\ t \in Sides /\ t # s
            BY <3>1, <3>2, <4>2
          <5> QED
            BY <5>1, <2>2, <2>3 DEF FlagInv, FlagsTracked, BinaryOnlyWhenOn
        <4> QED
          BY <4>1, <4>2
      <3> QED
        BY <3>1, <3>2 DEF FlagInv, FlagsTracked, BinaryOnlyWhenOn
    <2>5. CASE s[1] \notin tracked
      <3>1. binary' = binary
        BY <2>1, <2>5 DEF Save
      <3>2. s \notin binary
        BY <2>5 DEF FlagInv, FlagsTracked
      <3>3. ASSUME NEW t \in binary PROVE t[1] \in tracked' /\ q'[t] = "YES"
        <4>1. t \in Sides /\ t # s
          BY <3>2 DEF FlagInv
        <4> QED
          BY <4>1, <2>2, <2>3 DEF FlagInv, FlagsTracked, BinaryOnlyWhenOn
      <3> QED
        BY <3>1, <3>3 DEF FlagInv, FlagsTracked, BinaryOnlyWhenOn
    <2> QED
      BY <2>4, <2>5
  <1> QED
    BY <1>1, <1>2

(* No flag of BINARY outlives the agreement it stands for, whatever the     *)
(* peer sends, and whenever _set_rfc1143 misses to set one.                 *)
THEOREM FlagsAreHonest == Spec => []BinaryOnlyWhenOn
  <1>1. Init => FlagInv
    BY DEF Init, FlagInv, FlagsTracked, BinaryOnlyWhenOn
  <1>2. TypeOK /\ FlagInv /\ [Next]_vars => FlagInv'
    <2> SUFFICES ASSUME TypeOK, FlagInv, [Next]_vars PROVE FlagInv'
      OBVIOUS
    <2>1. q \in [Sides -> QStates]
      BY DEF TypeOK
    <2>2. ASSUME NEW s \in Sides, Receive(s) PROVE FlagInv'
      <3>1. PICK row : Apply(s, row)
        BY <2>2 DEF Receive
      <3> QED
        BY <2>1, <3>1, ApplyKeepsFlags
    <2>3. ASSUME NEW s \in Sides, NEW yes \in BOOLEAN, Ask(s, yes) PROVE FlagInv'
      <3>1. PICK row : Apply(s, row)
        BY <2>3 DEF Ask
      <3> QED
        BY <2>1, <3>1, ApplyKeepsFlags
    <2>4. ASSUME NEW s \in Sides, NEW yes \in BOOLEAN, Stray(s, yes) PROVE FlagInv'
      BY <2>4 DEF Stray, FlagInv, FlagsTracked, BinaryOnlyWhenOn
    <2>5. CASE UNCHANGED vars
      BY <2>5 DEF vars, FlagInv, FlagsTracked, BinaryOnlyWhenOn
    <2> QED
      BY <2>2, <2>3, <2>4, <2>5 DEF Next
  <1>3. FlagInv => BinaryOnlyWhenOn
    BY DEF FlagInv
  <1>4. Spec => [](TypeOK /\ AppKnows)
    BY TypeAndView
  <1> QED
    BY <1>1, <1>2, <1>3, <1>4, PTL DEF Spec
=============================================================================
