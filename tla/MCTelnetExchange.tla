---------------------------- MODULE MCTelnetExchange ----------------------------
(* Instance of TelnetExchange. *)
EXTENDS TelnetExchange
LOCAL INSTANCE SequencesExt

MCBytes == {"x", "IAC", "SB", "SE", "WILL", "NOP", "CR", "LF", "NUL", "ONE", "TWO",
            "THREE", "ENVIRON", "MSSP", "TTYPE", "ZMP", "COMPRESS"}
MCSizes == <<0, 2, 8>>

Text(letters, n) == BoundedSeq(letters, n) \ {<<>>}

Names == Text({"x", "IAC"}, 1)

(* Data: what has to be escaped or translated, and what has not.  Payloads: *)
(* every one, well formed or not, up to a length where two variables, or    *)
(* one with its value, or an escape and what follows it, fit.               *)
Candidates ==
    {<<f, text>> : f \in {"telnet_send", "telnet_send_text"}, text \in Text({"x", "IAC", "CR"}, 2)}
    \cup {<<"telnet_vprintf", <<"LF", "x">>>>, <<"telnet_raw_vprintf", <<"IAC", "LF">>>>,
          <<"telnet_iac", "NOP">>, <<"_send_negotiate", "WILL", "TTYPE">>}
    \cup {<<"telnet_subnegotiation", "ENVIRON", p>> :
             p \in BoundedSeq({"x", "NUL", "ONE", "TWO", "THREE"}, 5)}
    \cup {<<"telnet_subnegotiation", "MSSP", p>> : p \in BoundedSeq({"x", "NUL", "ONE", "TWO"}, 4)}
    \cup {<<"telnet_subnegotiation", "ZMP", p>> : p \in BoundedSeq({"x", "NUL"}, 3)}
    \cup {<<"telnet_subnegotiation", "TTYPE", p>> : p \in BoundedSeq({"x", "NUL", "ONE"}, 2)}
    \cup {<<"telnet_subnegotiation", "x", p>> : p \in BoundedSeq({"x", "IAC", "SE"}, 2)}
    \cup {<<"telnet_newenviron", ENVIRON_INFO, values>> :
             values \in BoundedSeq({ENVIRON_VAR, ENVIRON_USERVAR} \X Names \X {<<>>, <<"x">>}, 1)}
    \cup {<<"telnet_ttype_is", <<"x">>>>, <<"telnet_ttype_send">>}
    \cup {<<"telnet_send_zmp", argv>> : argv \in Text(Names \cup {<<>>}, 2)}

MCCalls ==
    {call \in Candidates :
        call[1] \in Subnegotiations => ~Excepted(Option(call), Payload(call))}

(* Every call alone; the short ones also next to and between data. *)
Some == {<<"telnet_send", <<"x">>>>, <<"telnet_send", <<"x", "IAC">>>>, <<"telnet_vprintf", <<"CR">>>>}
Short == {call \in MCCalls : Len(Wire(call)) <= 7}

MCScripts ==
    {<<call>> : call \in MCCalls}
    \cup {<<a, call>> : a \in Some, call \in Short}
    \cup {<<call, b>> : call \in Short, b \in Some}
    \cup {<<a, call, b>> : a \in Some, call \in Short, b \in Some}

(* Or the peer is not this library and sends an MCCPv1 sequence between     *)
(* data, which stands for nothing, or one that a command cuts short.       *)
OldCompressInit ==
    /\ Init /\ ReaderInit /\ told = <<>>
    /\ \E a, b \in {<<>>, <<"x">>, <<"x", "CR">>} :
         /\ meant = DataOf(a \o b)
         /\ \/ wire = a \o <<"IAC", "SB", "COMPRESS", "WILL", "SE">> \o b
            \/ wire = a \o <<"IAC", "SB", "COMPRESS", "WILL", "IAC", "NOP">> \o b

MCExchangeSpec == (ExchangeInit \/ OldCompressInit) /\ [][ExchangeNext]_exchange

(* What stands behind the buffer. *)
MCBeyond == {"x", "IAC"}

(* Data, a command, data: enough to lose a run. *)
Typing == {<< <<"telnet_send", <<"x">>>>, <<"telnet_iac", "NOP">>, <<"telnet_send", <<"x">>>> >>}

(* A name, a value, a name, and a value that is not there. *)
NoValue ==
    {<< <<"telnet_subnegotiation", "MSSP", <<MSSP_VAR, "x", MSSP_VAL, "x", MSSP_VAR, "x", MSSP_VAL>> >> >>}
=============================================================================
