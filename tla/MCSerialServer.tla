--------------------------- MODULE MCSerialServer ---------------------------
(* SerialServer with two SSH clients, of whom one has no password, and a   *)
(* telnet client; and, for liveness, with one client of each kind.         *)
EXTENDS SerialServer

CONSTANTS s1, s2, t1

MCSsh == {s1, s2}
MCTelnet == {t1}
MCLegit == {s1, t1}
MCOneSsh == {s1}
Blockers == {"slow_reader", "chatter", "device_stuck"}
NoMishaps == {}
(* What goes wrong without holding the main routine; the liveness instance  *)
(* has the mishaps that do, in Blockers.                                   *)
Failures == {"start_fails", "accept_error", "full_buffer", "sigpipe"}
=============================================================================
