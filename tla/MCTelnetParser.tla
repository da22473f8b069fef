---------------------------- MODULE MCTelnetParser ----------------------------
(* Instance of TelnetParser: one byte of each kind, and one verb.          *)
EXTENDS TelnetParser

MCBytes == {"x", "IAC", "SB", "SE", "WILL", "CR", "LF", "NUL", "COMPRESS"}
MCSizes == <<0, 1, 2>>
=============================================================================
