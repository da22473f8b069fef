------------------------ MODULE MCTelnetNegotiation -------------------------
(* The client accepts and offers the option, the server only performs it   *)
(* when asked; enough requests for a request, its opposite and the first   *)
(* one again to cross with the peer's.                                     *)
EXTENDS TelnetNegotiation

MCSupports == {<<"server", "us">>, <<"client", "him">>, <<"client", "us">>}
=============================================================================
