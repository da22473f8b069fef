-------------------------- MODULE TelnetSubnegotiation --------------------------
(***************************************************************************)
(* What libtelnet.c makes of the bytes of a subnegotiation: _subnegotiate, *)
(* _environ_telnet, _mssp_telnet, _zmp_telnet and _ttype_telnet.           *)
(*                                                                         *)
(* ENVIRON and MSSP are read in place: the strings are written, without    *)
(* their escapes and with a NUL behind each, over the bytes that were read *)
(* already, and the event holds pointers into the buffer.  So the buffer   *)
(* is part of the state here: c is the byte read next, out the place       *)
(* written next, both counted from 1.                                      *)
(***************************************************************************)
EXTENDS TelnetEvents, FiniteSets
LOCAL INSTANCE SequencesExt

(* The codes; the same byte means different things in different places. *)
TTYPE_IS == "NUL"
TTYPE_SEND == "ONE"
ENVIRON_IS == "NUL"
ENVIRON_SEND == "ONE"
ENVIRON_INFO == "TWO"
ENVIRON_VAR == "NUL"
ENVIRON_VALUE == "ONE"
ENVIRON_ESC == "TWO"
ENVIRON_USERVAR == "THREE"
MSSP_VAR == "ONE"
MSSP_VAL == "TWO"

(* The events. *)
Environ(cmd, values) == <<"environ", cmd, values>>
Mssp(values) == <<"mssp", values>>
Zmp(argv) == <<"zmp", argv>>
Ttype(cmd, name) == <<"ttype", cmd, name>>

(* The string a pointer into the buffer stands for. *)
CString(mem, p) ==
    LET end == CHOOSE k \in p..Len(mem) :
                   mem[k] = "NUL" /\ \A l \in p..k - 1 : mem[l] # "NUL"
    IN  SubSeq(mem, p, end - 1)

-----------------------------------------------------------------------------
(* Bytes are moved from c to out up to a marker or the end; ESC is left    *)
(* out.  (In MSSP it has the code of a marker and is never met here.)      *)
Place == [mem : Seq(Bytes), c : Nat, out : Nat]

Move(s, markers) ==
    LET turn == [t \in Place |->
            IF t.c > Len(t.mem) \/ t.mem[t.c] \in markers
            THEN t
            ELSE LET from == IF t.mem[t.c] = ENVIRON_ESC THEN t.c + 1 ELSE t.c
                 IN  [mem |-> [t.mem EXCEPT ![t.out] = t.mem[from]],
                      c |-> from + 1, out |-> t.out + 1]]
    IN  Loop(turn, s, Len(s.mem))

MoveString(s, markers) ==
    LET m == Move(s, markers)
    IN  [m EXCEPT !.mem[m.out] = "NUL", !.out = m.out + 1]

Skip(s) == [s EXCEPT !.c = s.c + 1]

(* The variables are counted before they are read. *)
Count(buffer) ==
    LET turn == [t \in [c : Nat, count : Nat] |->
            IF t.c > Len(buffer) THEN t
            ELSE IF buffer[t.c] \in {ENVIRON_VAR, ENVIRON_USERVAR}
                 THEN [c |-> t.c + 1, count |-> t.count + 1]
                 ELSE [t EXCEPT !.c = IF buffer[t.c] = ENVIRON_ESC THEN @ + 2 ELSE @ + 1]]
    IN  Loop(turn, [c |-> 2, count |-> 0], Len(buffer)).count

(* `count' entries, as pointers; a value of 0 is the literal "". *)
Entry == [type : Bytes, var : Nat, value : Nat]

Variables(buffer, count) ==
    LET turn == [t \in [at : Place, values : Seq(Entry)] |->
            LET s == t.at
                name == MoveString(Skip(s), {ENVIRON_VAR, ENVIRON_VALUE, ENVIRON_USERVAR})
                given == name.c <= Len(name.mem) /\ name.mem[name.c] = ENVIRON_VALUE
            IN  [at |-> IF given THEN MoveString(Skip(name), {ENVIRON_VAR, ENVIRON_USERVAR})
                        ELSE name,
                 values |-> Append(t.values, [type |-> s.mem[s.c], var |-> s.out,
                                              value |-> IF given THEN name.out ELSE 0])]]
    IN  Loop(turn, [at |-> [mem |-> buffer, c |-> 2, out |-> 1], values |-> <<>>], count)

environ_telnet(buffer) ==
    LET size == Len(buffer)
        v == Variables(buffer, Count(buffer))
        text(p) == CString(v.at.mem, p)
    IN  CASE size = 0 -> <<>>
          [] size > 0 /\ buffer[1] \notin {ENVIRON_SEND, ENVIRON_IS, ENVIRON_INFO}
                 -> <<Error("protocol")>>
          [] size = 1 /\ buffer[1] \in {ENVIRON_SEND, ENVIRON_IS, ENVIRON_INFO}
                 -> <<Environ(buffer[1], <<>>)>>
          [] OTHER ->
             IF buffer[2] \notin {ENVIRON_VAR, ENVIRON_USERVAR} \/ buffer[size] = ENVIRON_ESC
             THEN <<Error("protocol")>>
             ELSE <<Environ(buffer[1], [k \in DOMAIN v.values |->
                      LET e == v.values[k]
                      IN  <<e.type, text(e.var), IF e.value = 0 THEN <<>> ELSE text(e.value)>>])>>

-----------------------------------------------------------------------------
(* An entry of the array that was never filled. *)
NULL == "NULL"

(* Names and values in turn; a value belongs to the name last read.  The   *)
(* marker behind the last string is read one byte behind the buffer, and   *)
(* not used.                                                               *)
Parts(buffer) ==
    LET turn == [t \in [at : Place, next_type : Bytes \cup {NULL}, var : Nat,
                        values : Seq([var : Nat, value : Nat])] |->
            LET s == MoveString(t.at, {MSSP_VAR, MSSP_VAL})
                named == t.next_type = MSSP_VAR
            IN  IF t.at.c > Len(buffer)
                THEN t
                ELSE [at |-> Skip(s),
                      next_type |-> IF s.c > Len(buffer) THEN NULL ELSE s.mem[s.c],
                      var |-> IF named THEN t.at.out ELSE t.var,
                      values |-> IF named THEN t.values
                                 ELSE Append(t.values, [var |-> t.var, value |-> t.at.out])]]
    IN  Loop(turn, [at |-> [mem |-> buffer, c |-> 2, out |-> 1], next_type |-> MSSP_VAR,
                    var |-> 0, values |-> <<>>], Len(buffer))

mssp_telnet(buffer) ==
    LET count == Cardinality({k \in DOMAIN buffer : buffer[k] = MSSP_VAL})
        v == Parts(buffer)
        text(p) == CString(v.at.mem, p)
    IN  CASE buffer = <<>> -> <<>>
          [] buffer # <<>> /\ buffer[1] # MSSP_VAR -> <<Error("protocol")>>
          [] OTHER -> <<Mssp([k \in 1..count |->
                 IF k \notin DOMAIN v.values THEN <<NULL, NULL>>
                 ELSE <<text(v.values[k].var), text(v.values[k].value)>>])>>

-----------------------------------------------------------------------------
(* ZMP: strings, each with its NUL; nothing is written. *)
Arguments(buffer) ==
    LET turn == [t \in [c : Nat, argv : Seq(Seq(Bytes))] |->
            IF t.c > Len(buffer) THEN t
            ELSE LET arg == CString(buffer, t.c)
                 IN  [c |-> t.c + Len(arg) + 1, argv |-> Append(t.argv, arg)]]
    IN  Loop(turn, [c |-> 1, argv |-> <<>>], Len(buffer)).argv

zmp_telnet(buffer) ==
    IF buffer = <<>> THEN <<Error("protocol")>>
    ELSE IF Last(buffer) # "NUL" THEN <<Error("protocol")>>
    ELSE <<Zmp(Arguments(buffer))>>

(* TERMINAL-TYPE: the name is copied and gets a NUL. *)
ttype_telnet(buffer) ==
    CASE buffer = <<>> -> <<Error("protocol")>>
      [] buffer # <<>> /\ buffer[1] = TTYPE_IS ->
             <<Ttype(TTYPE_IS, CString(Append(Tail(buffer), "NUL"), 1))>>
      [] buffer # <<>> /\ buffer[1] = TTYPE_SEND -> <<Ttype(TTYPE_SEND, NULL)>>
      [] OTHER -> <<Error("protocol")>>

(* _subnegotiate, without the plain event in front, which has the bytes as *)
(* they came, where another event follows.                                 *)
subnegotiate(telopt, buffer) ==
    CASE telopt = "ZMP"     -> zmp_telnet(buffer)
      [] telopt = "TTYPE"   -> ttype_telnet(buffer)
      [] telopt = "ENVIRON" -> environ_telnet(buffer)
      [] telopt = "MSSP"    -> mssp_telnet(buffer)
      [] OTHER              -> <<Sub(telopt, buffer)>>
=============================================================================
