---------------------------- MODULE MCTelnetLogin ----------------------------
(* TelnetLogin with buffers of five bytes: a name with and without a       *)
(* line end, another one, an empty one and one that fills the buffer;      *)
(* every password of up to four characters, so that one with space behind  *)
(* it can follow a longer one, some with a NUL, and one that fills it.     *)
EXTENDS TelnetLogin

MCSpaces == {"_"}
MCUser == <<"u">>
MCPass == <<"p", "q">>
MCNames == {<<"u">>, <<"u", "_">>, <<"q">>, <<"_", "_">>, <<"u", "u", "u", "u", "u">>}
MCPasswords == UNION {[1..n -> {"p", "q", "_"}] : n \in 1..4}
               \cup {<<"p", "q", "0">>, <<"p", "0", "q">>, <<"p", "q", "_", "_", "_">>}
=============================================================================
