---------------------------- MODULE MCClientList ----------------------------
(* ClientList with one cell less than there are clients, so that cells are *)
(* reused after free and malloc fails once.                                *)
EXTENDS ClientList, TLC

CONSTANTS c1, c2, c3, c4, n1, n2, n3

MCClients == {c1, c2, c3, c4}
MCNodes == {n1, n2, n3}
Symmetry == Permutations(MCClients) \cup Permutations(MCNodes)
=============================================================================
