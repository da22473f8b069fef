------------------------------- MODULE TelnetExchange -------------------------------
(***************************************************************************)
(* The peer makes a list of calls of the senders (TelnetSender), TCP       *)
(* carries the bytes and may cut them anywhere, and this end receives them *)
(* with _TBP_recv (TelnetReceive) and takes subnegotiations apart          *)
(* (TelnetSubnegotiation).  The calls are all made before the start: bytes *)
(* on the wire that recv does not see yet are bytes not sent yet.          *)
(*                                                                         *)
(* `meant' is what the calls stand for and `told' what the parser has told *)
(* so far, both as lists of events.                                        *)
(***************************************************************************)
EXTENDS TelnetReceive, TelnetSender
LOCAL INSTANCE SequencesExt

CONSTANTS
    Scripts,            \* the lists of calls that may be made
    TransmitBinary      \* TELNET_FLAG_TRANSMIT_BINARY of the sending end

VARIABLES meant, told

exchange == <<vars, reader, wire, meant, told>>

(* The bytes of a call <<function, arguments...>>. *)
Wire(call) ==
    LET f == call[1]
    IN  CASE f = "telnet_send"           -> telnet_send(call[2])
          [] f = "telnet_send_text"      -> telnet_send_text(call[2], TransmitBinary)
          [] f = "telnet_vprintf"        -> telnet_vprintf(call[2])
          [] f = "telnet_raw_vprintf"    -> telnet_raw_vprintf(call[2])
          [] f = "telnet_iac"            -> telnet_iac(call[2])
          [] f = "_send_negotiate"       -> <<"IAC", call[2], call[3]>>
          [] f = "telnet_subnegotiation" -> telnet_subnegotiation(call[2], call[3])
          [] f = "telnet_newenviron"     -> SendEnviron(call[2], call[3])
          [] f = "telnet_ttype_send"     -> telnet_ttype_send
          [] f = "telnet_ttype_is"       -> telnet_ttype_is(call[2])
          [] f = "telnet_send_zmp"       -> telnet_send_zmp(call[2])

-----------------------------------------------------------------------------
(* The calls a program may make.  telnet_iac is for the commands without an *)
(* argument; what is not escaped by the senders must not need it: neither  *)
(* markers nor ESC in NEW-ENVIRON, no IAC in a terminal type, and no NUL   *)
(* in a string.  MCCPv1 cannot be sent as a subnegotiation at all.         *)
Strings == Seq(Bytes \ {"NUL"})
EnvironStrings == Seq(Bytes \ {ENVIRON_VAR, ENVIRON_VALUE, ENVIRON_ESC, ENVIRON_USERVAR})

Calls ==
    {"telnet_send", "telnet_send_text", "telnet_vprintf", "telnet_raw_vprintf"} \X Seq(Bytes)
    \cup {"telnet_iac"} \X (Bytes \ (Verbs \cup {"SB", "IAC"}))
    \cup {"_send_negotiate"} \X (Verbs \cap Bytes) \X Bytes
    \cup {"telnet_subnegotiation"} \X (Bytes \ {"COMPRESS"}) \X Seq(Bytes)
    \cup {"telnet_newenviron"} \X {ENVIRON_IS, ENVIRON_SEND, ENVIRON_INFO}
            \X Seq({ENVIRON_VAR, ENVIRON_USERVAR} \X EnvironStrings \X EnvironStrings)
    \cup {<<"telnet_ttype_send">>}
    \cup {"telnet_ttype_is"} \X Seq(Bytes \ {"IAC", "NUL"})
    \cup {"telnet_send_zmp"} \X (Seq(Strings) \ {<<>>})

(* The option and the bytes of a call that sends a subnegotiation, as the  *)
(* receiving end should have them.                                         *)
Subnegotiations ==
    {"telnet_subnegotiation", "telnet_newenviron", "telnet_ttype_send", "telnet_ttype_is",
     "telnet_send_zmp"}

Option(call) ==
    LET f == call[1]
    IN  CASE f = "telnet_subnegotiation" -> call[2]
          [] f = "telnet_newenviron"     -> "ENVIRON"
          [] f = "telnet_send_zmp"       -> "ZMP"
          [] OTHER                       -> "TTYPE"

Payload(call) ==
    LET f == call[1]
        variable(v) == <<v[1]>> \o v[2] \o IF v[3] = <<>> THEN <<>> ELSE <<ENVIRON_VALUE>> \o v[3]
    IN  CASE f = "telnet_subnegotiation" -> call[3]
          [] f = "telnet_newenviron"     ->
                 <<call[2]>> \o FlattenSeq([k \in DOMAIN call[3] |-> variable(call[3][k])])
          [] f = "telnet_ttype_send"     -> <<TTYPE_SEND>>
          [] f = "telnet_ttype_is"       -> <<TTYPE_IS>> \o call[2]
          [] f = "telnet_send_zmp"       ->
                 FlattenSeq([k \in DOMAIN call[2] |-> Append(call[2][k], "NUL")])

ASSUME ScriptsAssumption ==
    /\ Scripts \subseteq Seq(Calls)
    /\ \A script \in Scripts : \A k \in DOMAIN script :
           script[k][1] \in Subnegotiations => Len(Payload(script[k])) <= Limit
ASSUME BytesAssumption ==
    {"IAC", "SB", "SE", "NUL", "CR", "LF", "ONE", "TWO", "THREE", "ENVIRON", "TTYPE", "ZMP"}
        \subseteq Bytes
ASSUME MemoryAssumption == ~MayFail /\ TransmitBinary \in BOOLEAN

-----------------------------------------------------------------------------
(* What a call stands for.  This is the meaning the protocols give to the  *)
(* bytes (RFC 854, 1091, 1408, MSSP, ZMP), written without the loops of    *)
(* the code: the marks of a payload say where its parts are, and each part *)
(* is unescaped by itself.  A value that is not there is the empty string  *)
(* (libtelnet.h:231).                                                      *)
DataOf(bytes) == [k \in DOMAIN bytes |-> Data(bytes[k])]

NvtText(bytes) ==
    FlattenSeq([k \in DOMAIN bytes |->
        CASE bytes[k] = "CR" -> <<"CR", "NUL">>
          [] bytes[k] = "LF" -> <<"CR", "LF">>
          [] OTHER           -> <<bytes[k]>>])

(* The elements of s at the places P, in their order. *)
Picked(s, P) == FlattenSeq([k \in DOMAIN s |-> IF k \in P THEN <<s[k]>> ELSE <<>>])

(* What C sees of the bytes. *)
UpToNul(p) == SubSeq(p, 1, Min({k \in DOMAIN p : p[k] = "NUL"} \cup {Len(p) + 1}) - 1)

(* The next of the marks behind k, or the end. *)
Following(marks, k, p) == Min({l \in marks : l > k} \cup {Len(p) + 1})

(* Bytes with an odd number of ESC right before them are meant literally. *)
Escaped(p) ==
    {k \in 2..Len(p) : (k - Max({1} \cup {l \in 2..k - 1 : p[l] # ENVIRON_ESC})) % 2 = 0}
Marks(p, codes) == {k \in 2..Len(p) \ Escaped(p) : p[k] \in codes}
Literal(p, places) == UpToNul(Picked(p, {k \in places : p[k] # ENVIRON_ESC \/ k \in Escaped(p)}))

EnvironEntry(p, k) ==
    LET v == Following(Marks(p, {ENVIRON_VAR, ENVIRON_VALUE, ENVIRON_USERVAR}), k, p)
        end == Following(Marks(p, {ENVIRON_VAR, ENVIRON_USERVAR}), k, p)
    IN  <<p[k], Literal(p, k + 1..v - 1), Literal(p, v + 1..end - 1)>>

EnvironMeans(p) ==
    LET n == Len(p)
        starts == Marks(p, {ENVIRON_VAR, ENVIRON_USERVAR})
    IN  IF p = <<>> THEN <<>>
        ELSE IF \/ p[1] \notin {ENVIRON_IS, ENVIRON_SEND, ENVIRON_INFO}
                \/ n > 1 /\ (2 \notin starts \/ (p[n] = ENVIRON_ESC /\ n \notin Escaped(p)))
             THEN <<Error("protocol")>>
             ELSE <<Environ(p[1], Picked([k \in DOMAIN p |-> EnvironEntry(p, k)], starts))>>

MsspEntry(p, k) ==
    LET text(l) == UpToNul(Picked(p, l + 1..Following({m \in DOMAIN p : p[m] \in {MSSP_VAR, MSSP_VAL}}, l, p) - 1))
        owner == Max({1} \cup {l \in 2..k - 1 : p[l] = MSSP_VAR})
    IN  <<text(owner), text(k)>>

MsspMeans(p) ==
    IF p = <<>> THEN <<>>
    ELSE IF p[1] # MSSP_VAR THEN <<Error("protocol")>>
    ELSE <<Mssp(Picked([k \in DOMAIN p |-> MsspEntry(p, k)], {k \in DOMAIN p : p[k] = MSSP_VAL}))>>

ZmpMeans(p) ==
    LET ends == {k \in DOMAIN p : p[k] = "NUL"}
        from(k) == Max({0} \cup {l \in ends : l < k}) + 1
    IN  IF Len(p) \notin ends THEN <<Error("protocol")>>
        ELSE <<Zmp(Picked([k \in DOMAIN p |-> SubSeq(p, from(k), k - 1)], ends))>>

TtypeMeans(p) ==
    IF p = <<>> \/ (p # <<>> => p[1] \notin {TTYPE_IS, TTYPE_SEND}) THEN <<Error("protocol")>>
    ELSE IF p[1] = TTYPE_SEND THEN <<Ttype(TTYPE_SEND, NULL)>>
    ELSE <<Ttype(TTYPE_IS, UpToNul(Tail(p)))>>

SubMeans(telopt, p) ==
    CASE telopt = "ENVIRON" -> EnvironMeans(p)
      [] telopt = "MSSP"    -> MsspMeans(p)
      [] telopt = "ZMP"     -> ZmpMeans(p)
      [] telopt = "TTYPE"   -> TtypeMeans(p)
      [] OTHER              -> <<Sub(telopt, p)>>

(* Two payloads mean something else to the code: a NEW-ENVIRON that ends    *)
(* with an escaped ESC is refused, because its last byte is ESC, and an    *)
(* MSSP value that is missing at the very end leaves its entry unset.      *)
Excepted(telopt, p) ==
    \/ telopt = "ENVIRON" /\ Len(p) \in Escaped(p) /\ p[Len(p)] = ENVIRON_ESC
    \/ telopt = "MSSP" /\ p # <<>> /\ p[1] = MSSP_VAR /\ p[Len(p)] = MSSP_VAL

NoneExcepted ==
    \A script \in Scripts : \A k \in DOMAIN script :
        script[k][1] \in Subnegotiations => ~Excepted(Option(script[k]), Payload(script[k]))

Means(call) ==
    LET f == call[1]
    IN  CASE f \in {"telnet_send", "telnet_raw_vprintf"} -> DataOf(call[2])
          [] f = "telnet_send_text" ->
                 DataOf(IF TransmitBinary THEN call[2] ELSE NvtText(call[2]))
          [] f = "telnet_vprintf"        -> DataOf(NvtText(call[2]))
          [] f = "telnet_iac"            -> <<Iac(call[2])>>
          [] f = "_send_negotiate"       -> <<Neg(call[2], call[3])>>
          [] f = "telnet_subnegotiation" -> SubMeans(call[2], call[3])
          [] f = "telnet_newenviron"     -> <<Environ(call[2], call[3])>>
          [] f = "telnet_ttype_send"     -> <<Ttype(TTYPE_SEND, NULL)>>
          [] f = "telnet_ttype_is"       -> <<Ttype(TTYPE_IS, call[2])>>
          [] f = "telnet_send_zmp"       -> <<Zmp(call[2])>>

-----------------------------------------------------------------------------
ExchangeInit ==
    \E script \in Scripts :
        /\ Init /\ ReaderInit
        /\ wire = FlattenSeq([k \in DOMAIN script |-> Wire(script[k])])
        /\ meant = FlattenSeq([k \in DOMAIN script |-> Means(script[k])])
        /\ told = <<>>

(* What the application hears of the parser's events. *)
Hears(item) == IF item[1] = "sub" THEN subnegotiate(item[2], item[3]) ELSE <<item>>
Heard(items) == FlattenSeq([k \in DOMAIN items |-> Hears(items[k])])

ExchangeNext ==
    /\ \/ (Enter \/ Receive \/ WouldBlock) /\ UNCHANGED told
       \/ (Parse \/ Finish) /\ told' = told \o Heard(NewItems)
    /\ UNCHANGED meant

ExchangeSpec == ExchangeInit /\ [][ExchangeNext]_exchange

-----------------------------------------------------------------------------
(* A peer that is not this library may send an MCCPv1 sequence; the calls   *)
(* above cannot, so with them no event of wrapped size is ever told.       *)
NothingWrapped == \A k \in DOMAIN told : told[k] # Wrapped

(* What the peer's calls stand for is what the application is told, in     *)
(* order, once, and nothing else, however TCP cuts the stream: escapes,    *)
(* line ends, names and values survive both directions of the code, and    *)
(* whatever has arrived has been told when the loop goes back to recv.     *)
(* (For scripts without the two payloads of Excepted.)                     *)
ToldAsMeant ==
    /\ IsPrefix(told, meant)
    /\ wire = <<>> /\ at # "parse" => told = meant
RoundTrip == NothingWrapped => ToldAsMeant

(* _TBP_recv returns nothing but bytes the peer sent as data, none of them *)
(* twice and in their order: no byte of a command or of a subnegotiation,  *)
(* no byte an earlier run or an earlier read has left in the buffer.       *)
DataInOrder ==
    \E P \in SUBSET {k \in DOMAIN meant : meant[k][1] = "data"} :
        DataOf(returned) = Picked(meant, P)
ReturnedInOrder == NothingWrapped => DataInOrder

(* "To get the client's actual message one has to use _TBP_recv"           *)
(* (clientchannel.c:16): all data that was told has been returned.         *)
NothingTypedIsLost ==
    at = "out" => DataOf(returned) = Picked(told, {k \in DOMAIN told : told[k][1] = "data"})

(* "value of variable being set; empty string if no value"                 *)
(* (libtelnet.h:231): every value of an MSSP event is a string.            *)
MissingValueIsEmpty ==
    \A k \in DOMAIN told : told[k][1] = "mssp" =>
        \A m \in DOMAIN told[k][2] : told[k][2][m][2] \in Seq(Bytes)
=============================================================================
