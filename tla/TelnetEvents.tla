------------------------------ MODULE TelnetEvents ------------------------------
(* The bytes with a meaning for telnet, what the parser of libtelnet.c     *)
(* tells its application, and what all its loops have in common.           *)
EXTENDS Naturals, Sequences

CONSTANT Bytes          \* the alphabet; the bytes with a meaning are named

Verbs == {"WILL", "WONT", "DO", "DONT"}

(* EV_DATA is one entry per byte; negotiations are what _negotiate is      *)
(* called with, subnegotiations what _subnegotiate starts from; an error   *)
(* of the peer is a warning, which the handler of clientchannel.c ignores. *)
(* Wrapped is EV_DATA with a size that went below 0.                       *)
Data(b) == <<"data", b>>
Iac(cmd) == <<"iac", cmd>>
Neg(verb, telopt) == <<"neg", verb, telopt>>
Sub(telopt, bytes) == <<"sub", telopt, bytes>>
Error(code) == <<"error", code>>
Wrapped == <<"wrapped">>

(* The byte after IAC: what the byte behind it is, and what is told.       *)
Follows(b) == IF b \in Verbs \cup {"SB"} THEN b ELSE "DATA"
Told(b) == CASE b \in Verbs \cup {"SB"} -> <<>>
             [] b = "IAC"               -> <<Data("IAC")>>
             [] OTHER                   -> <<Iac(b)>>

(* What `rounds' turns of a loop make of its variables s. *)
Loop(turn, s, rounds) ==
    LET after[k \in 0..rounds] == IF k = 0 THEN s ELSE turn[after[k - 1]]
    IN  after[rounds]
=============================================================================
