------------------------------- MODULE TelnetSender -------------------------------
(***************************************************************************)
(* The sending half of libtelnet.c: the bytes each call hands to the event *)
(* handler.  Only the concatenation matters here; the handler sends piece  *)
(* by piece on a stream.  telnet_begin_compress2 sends nothing in a build  *)
(* without zlib.                                                           *)
(***************************************************************************)
EXTENDS TelnetSubnegotiation
LOCAL INSTANCE SequencesExt

(* telnet_iac *)
telnet_iac(cmd) == <<"IAC", cmd>>

(* What is sent in place of a byte that cannot be sent as it is. *)
Instead(b) == CASE b = "IAC" -> telnet_iac("IAC")
                [] b = "CR"  -> <<"CR", "NUL">>
                [] b = "LF"  -> <<"CR", "LF">>

(* Wrong variant: the run that ends at a special byte is not sent. *)
RunsDropped(buffer, special) ==
    LET turn == [t \in [i : Nat, l : Nat, out : Seq(Bytes)] |->
            IF buffer[t.i] \in special
            THEN [i |-> t.i + 1, l |-> t.i, out |-> t.out \o Instead(buffer[t.i])]
            ELSE [t EXCEPT !.i = @ + 1]]
        r == Loop(turn, [i |-> 1, l |-> 0, out |-> <<>>], Len(buffer))
    IN  r.out \o SubSeq(buffer, r.l + 1, Len(buffer))

(* The loop the senders share: what lies between special bytes goes out in *)
(* runs buffer[l..i), the last one behind the loop.                        *)
Runs(buffer, special) ==
    LET turn == [t \in [i : Nat, l : Nat, out : Seq(Bytes)] |->
            IF buffer[t.i] \in special
            THEN [i |-> t.i + 1, l |-> t.i,
                  out |-> t.out \o SubSeq(buffer, t.l + 1, t.i - 1) \o Instead(buffer[t.i])]
            ELSE [t EXCEPT !.i = @ + 1]]
        r == Loop(turn, [i |-> 1, l |-> 0, out |-> <<>>], Len(buffer))
    IN  r.out \o SubSeq(buffer, r.l + 1, Len(buffer))

telnet_send(buffer) == Runs(buffer, {"IAC"})

telnet_send_text(buffer, transmitBinary) ==
    Runs(buffer, IF transmitBinary THEN {"IAC"} ELSE {"IAC", "CR", "LF"})

(* Line ends are translated whatever the mode. *)
telnet_vprintf(output) == Runs(output, {"IAC", "CR", "LF"})

telnet_raw_vprintf(output) == telnet_send(output)

-----------------------------------------------------------------------------
telnet_begin_sb(telopt) == <<"IAC", "SB", telopt>>
telnet_finish_sb == telnet_iac("SE")

telnet_subnegotiation(telopt, buffer) ==
    telnet_begin_sb(telopt) \o telnet_send(buffer) \o telnet_finish_sb

(* NEW-ENVIRON: variables are triples of type, name and value, a value is  *)
(* sent when there is one.  The strings get no ENVIRON ESC.                *)
telnet_begin_newenviron(cmd) == telnet_begin_sb("ENVIRON") \o telnet_send(<<cmd>>)
telnet_newenviron_value(type, string) == telnet_send(<<type>>) \o telnet_send(string)

Variable(v) ==
    telnet_newenviron_value(v[1], v[2])
        \o IF v[3] = <<>> THEN <<>> ELSE telnet_newenviron_value(ENVIRON_VALUE, v[3])

SendEnviron(cmd, values) ==
    telnet_begin_newenviron(cmd)
        \o FlattenSeq([k \in DOMAIN values |-> Variable(values[k])]) \o telnet_finish_sb

(* TERMINAL-TYPE; the name is not escaped at all. *)
telnet_ttype_send == telnet_begin_sb("TTYPE") \o <<TTYPE_SEND>> \o telnet_finish_sb
telnet_ttype_is(ttype) ==
    telnet_begin_sb("TTYPE") \o <<TTYPE_IS>> \o ttype \o telnet_finish_sb

(* ZMP: every argument goes out with its NUL. *)
telnet_zmp_arg(arg) == telnet_send(Append(arg, "NUL"))

telnet_begin_zmp(cmd) == telnet_begin_sb("ZMP") \o telnet_zmp_arg(cmd)

telnet_send_zmp(argv) ==
    telnet_begin_zmp(argv[1])
        \o FlattenSeq([k \in 1..Len(argv) - 1 |-> telnet_zmp_arg(argv[k + 1])])
        \o telnet_finish_sb
=============================================================================
