------------------------------ MODULE TelnetStream ------------------------------
(***************************************************************************)
(* What the byte parser of libtelnet.c promises: the events of one call of *)
(* telnet_recv are those of its bytes, read one by one.  Nothing depends   *)
(* on where the stream is cut into calls except where a call's events end: *)
(* this decoder has no buffer and no positions in it, and EndCall changes  *)
(* nothing of what was told.                                               *)
(***************************************************************************)
EXTENDS TelnetEvents

CONSTANTS
    Limit,              \* most bytes of one subnegotiation
    NvtEol,             \* TELNET_FLAG_NVT_EOL
    MayFail             \* whether memory may run out

VARIABLES
    mode,               \* what the next byte is
    opt, sub,           \* the option and the bytes of a subnegotiation
    binary,             \* TELNET_FLAG_RECEIVE_BINARY
    out,                \* what the current call, or the last one, told
    open                \* a call is running

vars == <<mode, opt, sub, binary, out, open>>

Init ==
    /\ mode = "DATA" /\ opt = "NUL" /\ sub = <<>>
    /\ binary = FALSE
    /\ out = <<>> /\ open = FALSE

-----------------------------------------------------------------------------
Tell(items) == out' = (IF open THEN out ELSE <<>>) \o items
Goto(m) == mode' = m
Same == UNCHANGED <<opt, sub, binary>>

EndOfLine(b) == b = "CR" /\ NvtEol /\ ~binary

Plain(b) ==
    /\ mode = "DATA"
    /\ Same
    /\ \/ b = "IAC"      /\ Goto("IAC")  /\ Tell(<<>>)
       \/ EndOfLine(b)   /\ Goto("EOL")  /\ Tell(<<>>)
       \/ b # "IAC" /\ ~EndOfLine(b) /\ Goto("DATA") /\ Tell(<<Data(b)>>)

(* After CR: LF ends the line, NUL leaves the CR, all else is passed on. *)
LineEnd(b) ==
    /\ mode = "EOL"
    /\ Goto("DATA") /\ Same
    /\ Tell(CASE b = "LF"  -> <<Data("LF")>>
              [] b = "NUL" -> <<Data("CR")>>
              [] OTHER     -> <<Data("CR"), Data(b)>>)

Command(b) ==
    /\ mode = "IAC"
    /\ Goto(Follows(b)) /\ Tell(Told(b)) /\ Same

(* A negotiation of BINARY may change how line ends are treated. *)
Negotiation(b) ==
    /\ mode \in Verbs
    /\ Goto("DATA") /\ Tell(<<Neg(mode, b)>>)
    /\ binary' \in IF b = "NUL" THEN BOOLEAN ELSE {binary}
    /\ UNCHANGED <<opt, sub>>

SubOption(b) ==
    /\ mode = "SB"
    /\ Goto("SB_DATA") /\ Tell(<<>>)
    /\ opt' = b /\ sub' = <<>>
    /\ UNCHANGED binary

(* One byte more of a subnegotiation, or its end for lack of room. *)
Store(b) ==
    \/ /\ Len(sub) < Limit
       /\ sub' = Append(sub, b)
       /\ Goto("SB_DATA") /\ Tell(<<>>)
    \/ /\ Len(sub) = Limit \/ MayFail
       /\ Tell(<<Error(IF Len(sub) = Limit THEN "overflow" ELSE "nomem")>>)
       /\ Goto("DATA") /\ UNCHANGED sub

OldCompress(b) == opt = "COMPRESS" /\ b = "WILL"

SubByte(b) ==
    /\ mode = "SB_DATA"
    /\ \/ b = "IAC" /\ Goto("SB_DATA_IAC") /\ Tell(<<>>) /\ UNCHANGED sub
       \/ OldCompress(b) /\ Goto("SKIP") /\ Tell(<<>>) /\ UNCHANGED sub
       \/ b # "IAC" /\ ~OldCompress(b) /\ Store(b)
    /\ UNCHANGED <<opt, binary>>

SubCommand(b) ==
    /\ mode = "SB_DATA_IAC"
    /\ \/ b = "IAC" /\ Store(b)
       \/ b = "SE" /\ Goto("DATA") /\ Tell(<<Sub(opt, sub)>>) /\ UNCHANGED sub
       \/ /\ b \notin {"IAC", "SE"}
          /\ Goto(Follows(b))
          /\ Tell(<<Error("protocol"), Sub(opt, sub)>> \o Told(b))
          /\ UNCHANGED sub
    /\ UNCHANGED <<opt, binary>>

(* The SE of the MCCPv1 sequence IAC SB 85 WILL SE. *)
Skipped ==
    /\ mode = "SKIP"
    /\ Goto("DATA") /\ Tell(<<>>) /\ Same

Byte(b) ==
    /\ open' = TRUE
    /\ \/ Plain(b) \/ LineEnd(b) \/ Command(b) \/ Negotiation(b)
       \/ SubOption(b) \/ SubByte(b) \/ SubCommand(b) \/ Skipped

EndCall == open /\ open' = FALSE /\ UNCHANGED <<mode, opt, sub, binary, out>>

Next == EndCall \/ \E b \in Bytes : Byte(b)
Spec == Init /\ [][Next]_vars
=============================================================================
