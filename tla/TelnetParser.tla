------------------------------ MODULE TelnetParser ------------------------------
(***************************************************************************)
(* The byte parser of libtelnet.c: telnet_recv, _process and _buffer_byte, *)
(* without zlib, which the makefile does not enable.                       *)
(*                                                                         *)
(* A call gets a buffer and walks over it; `buf' is the part it has read,  *)
(* so Len(buf) is the index i of the byte it reads next.  Data is passed   *)
(* on in runs buffer[start..i), when something else begins or at the end   *)
(* of the buffer.  An event is logged in `delivered' as in TelnetStream,   *)
(* data byte by byte.  Negotiations and subnegotiations are one event      *)
(* each; TelnetNegotiation has the inside of the former.                   *)
(***************************************************************************)
EXTENDS TelnetEvents

CONSTANTS
    Sizes,              \* _buffer_sizes
    NvtEol,             \* TELNET_FLAG_NVT_EOL, given to telnet_init
    MayFail,            \* whether realloc may fail
    MaxCall             \* bound: bytes of one call

ASSUME SizesAssumption ==
    /\ Sizes \in Seq(Nat) /\ Len(Sizes) > 1 /\ Sizes[1] = 0
    /\ \A k, l \in DOMAIN Sizes : k < l => Sizes[k] < Sizes[l]
ASSUME FlagsAssumption == NvtEol \in BOOLEAN /\ MayFail \in BOOLEAN /\ MaxCall \in Nat

VARIABLES
    state,              \* telnet->state
    sb_telopt,          \* option of the running subnegotiation
    sub, size,          \* buffer[0..buffer_pos), buffer_size
    binary,             \* TELNET_FLAG_RECEIVE_BINARY
    buf, start,         \* of the running call
    delivered           \* events of the running, or the last, call

vars == <<state, sb_telopt, sub, size, binary, buf, start, delivered>>

States == {"DATA", "EOL", "IAC", "SB", "SB_DATA", "SB_DATA_IAC"} \cup Verbs
Limit == Sizes[Len(Sizes)]
i == Len(buf)

TypeOK ==
    /\ state \in States
    /\ sb_telopt \in Bytes \cup {"NUL"}
    /\ sub \in Seq(Bytes)
    /\ size \in {Sizes[k] : k \in DOMAIN Sizes}
    /\ Len(sub) <= size
    /\ binary \in BOOLEAN
    /\ buf \in Seq(Bytes) /\ i <= MaxCall
    /\ start \in Nat

(* telnet_init *)
Init ==
    /\ state = "DATA" /\ sb_telopt = "NUL"
    /\ sub = <<>> /\ size = 0
    /\ binary = FALSE
    /\ buf = <<>> /\ start = 0
    /\ delivered = <<>>

-----------------------------------------------------------------------------
(* The bytes of data that wait to be passed on. *)
Run == [k \in 1..(i - start) |-> Data(buf[start + k])]
Held == IF state = "DATA" /\ start < i THEN Run ELSE <<>>

(* Behind the WILL of an MCCPv1 sequence start is ahead of i; if data ends *)
(* there, the size i - start of what is passed on wraps.                   *)
Skipping == state = "DATA" /\ start > i
Passed == IF Skipping THEN <<Wrapped>> ELSE Held

(* A new call starts a new log. *)
Deliver(items) == delivered' = (IF buf = <<>> THEN <<>> ELSE delivered) \o items

Goto(s) == state' = s
KeepSub == UNCHANGED <<sb_telopt, sub, size>>

(* TELNET_STATE_DATA.  The bytes before IAC, or before the CR of a line    *)
(* end, are passed on.                                                     *)
EndOfLine(b) == b = "CR" /\ NvtEol /\ ~binary

InData(b) ==
    /\ state = "DATA"
    /\ \/ b = "IAC"    /\ Goto("IAC") /\ Deliver(Passed)
       \/ EndOfLine(b) /\ Goto("EOL") /\ Deliver(Passed)
       \/ b # "IAC" /\ ~EndOfLine(b) /\ Goto("DATA") /\ Deliver(<<>>)
    /\ KeepSub /\ UNCHANGED <<start, binary>>

(* Wrong variant: the byte behind CR NUL is left out, too. *)
InEolSkips(b) ==
    /\ state = "EOL"
    /\ Deliver(IF b = "LF" THEN <<>> ELSE <<Data("CR")>>)
    /\ start' = IF b = "NUL" THEN i + 2 ELSE i
    /\ Goto("DATA")
    /\ KeepSub /\ UNCHANGED binary

(* TELNET_STATE_EOL *)
InEol(b) ==
    /\ state = "EOL"
    /\ Deliver(IF b = "LF" THEN <<>> ELSE <<Data("CR")>>)
    /\ start' = IF b = "NUL" THEN i + 1 ELSE i
    /\ Goto("DATA")
    /\ KeepSub /\ UNCHANGED binary

(* TELNET_STATE_IAC *)
InIac(b) ==
    /\ state = "IAC"
    /\ Goto(Follows(b))
    /\ Deliver(Told(b))
    /\ start' = IF Follows(b) = "DATA" THEN i + 1 ELSE start
    /\ KeepSub /\ UNCHANGED binary

(* TELNET_STATE_WILL and the others: _negotiate, which for BINARY may      *)
(* change the mode flag.                                                   *)
InVerb(b) ==
    /\ state \in Verbs
    /\ Deliver(<<Neg(state, b)>>)
    /\ binary' \in IF b = "NUL" THEN BOOLEAN ELSE {binary}
    /\ start' = i + 1
    /\ Goto("DATA")
    /\ KeepSub

(* Wrong variant: buffer_pos is not set back. *)
InSbKeepsBytes(b) ==
    /\ state = "SB"
    /\ sb_telopt' = b
    /\ Goto("SB_DATA") /\ Deliver(<<>>)
    /\ UNCHANGED <<sub, size, binary, start>>

(* TELNET_STATE_SB *)
InSb(b) ==
    /\ state = "SB"
    /\ sb_telopt' = b /\ sub' = <<>>
    /\ Goto("SB_DATA") /\ Deliver(<<>>)
    /\ UNCHANGED <<size, binary, start>>

(* Wrong variant: the buffer is taken to have grown when it has not. *)
GrownTooLate(s) == s

(* The next of _buffer_sizes. *)
Grown(s) == Sizes[1 + CHOOSE k \in 1..Len(Sizes) - 1 : Sizes[k] = s]

(* _buffer_byte: the byte is stored, in a larger buffer if need be, or the *)
(* subnegotiation is given up and its rest will be read as data.           *)
Full == Len(sub) = size

BufferByte(b) ==
    \/ /\ Full => size # Limit
       /\ sub' = Append(sub, b)
       /\ size' = IF Full THEN Grown(size) ELSE size
       /\ Goto("SB_DATA") /\ Deliver(<<>>) /\ UNCHANGED start
    \/ /\ Full /\ (size = Limit \/ MayFail)
       /\ Deliver(<<Error(IF size = Limit THEN "overflow" ELSE "nomem")>>)
       /\ Goto("DATA") /\ start' = i + 1
       /\ UNCHANGED <<sub, size>>

(* TELNET_STATE_SB_DATA.  The MCCPv1 sequence IAC SB 85 WILL SE is left    *)
(* out by moving start behind the byte that should be SE.                  *)
OldCompress(b) == sb_telopt = "COMPRESS" /\ b = "WILL"

InSbData(b) ==
    /\ state = "SB_DATA"
    /\ \/ /\ b = "IAC" /\ Goto("SB_DATA_IAC")
          /\ Deliver(<<>>) /\ UNCHANGED <<sub, size, start>>
       \/ /\ OldCompress(b) /\ Goto("DATA") /\ start' = i + 2
          /\ Deliver(<<>>) /\ UNCHANGED <<sub, size>>
       \/ b # "IAC" /\ ~OldCompress(b) /\ BufferByte(b)
    /\ UNCHANGED <<sb_telopt, binary>>

(* TELNET_STATE_SB_DATA_IAC, with _subnegotiate.  A byte that is neither   *)
(* SE nor IAC ends the subnegotiation with an error, and _process calls    *)
(* itself to read it as a command.                                         *)
InSbDataIac(b) ==
    /\ state = "SB_DATA_IAC"
    /\ \/ b = "IAC" /\ BufferByte(b)
       \/ /\ b = "SE" /\ Goto("DATA")
          /\ Deliver(<<Sub(sb_telopt, sub)>>)
          /\ start' = i + 1 /\ UNCHANGED <<sub, size>>
       \/ /\ b \notin {"IAC", "SE"} /\ Goto(Follows(b))
          /\ Deliver(<<Error("protocol"), Sub(sb_telopt, sub)>> \o Told(b))
          /\ start' = i + 1 /\ UNCHANGED <<sub, size>>
    /\ UNCHANGED <<sb_telopt, binary>>

(* One turn of the loop of _process. *)
ReadByte(b) ==
    /\ i < MaxCall
    /\ buf' = Append(buf, b)
    /\ \/ InData(b) \/ InEol(b) \/ InIac(b) \/ InVerb(b)
       \/ InSb(b) \/ InSbData(b) \/ InSbDataIac(b)

(* The end of the buffer.  Where the next call goes on is the same in any  *)
(* case: what is left of an MCCPv1 sequence will be data then.             *)
EndCall ==
    /\ buf # <<>>
    /\ Deliver(Passed)
    /\ buf' = <<>> /\ start' = 0
    /\ UNCHANGED <<state, sb_telopt, sub, size, binary>>

Next == EndCall \/ \E b \in Bytes : ReadByte(b)
Spec == Init /\ [][Next]_vars

-----------------------------------------------------------------------------
(* The start of the pending data is never behind the bytes of the call     *)
(* but after the WILL of an MCCPv1 sequence, and then by one byte.         *)
StartInBuffer ==
    /\ start <= i + 1
    /\ start > i => state = "DATA" /\ sb_telopt = "COMPRESS"

(* What a call tells the application is what a decoder without buffers     *)
(* makes of its bytes, however the stream is cut into calls: no byte is    *)
(* told twice, lost or kept back for another call, and no state is left    *)
(* over from an earlier subnegotiation.  Every step but one is a step of   *)
(* that decoder: the one that tells the wrapped event, because the call    *)
(* ends, or IAC or a line end comes, right behind the WILL of an MCCPv1    *)
(* sequence.  The decoder would leave the next byte out there; the parser  *)
(* goes on with that byte, and from there it is the decoder again.         *)
Stream == INSTANCE TelnetStream WITH
    mode <- IF Skipping THEN "SKIP" ELSE state,
    opt <- sb_telopt,
    out <- delivered \o Held,
    open <- buf # <<>>

Wraps == Skipping /\ Deliver(<<Wrapped>>) /\ UNCHANGED <<sb_telopt, sub, binary>>
ImplementsStream == Stream!Init /\ [][Stream!Next \/ Wraps]_Stream!vars

(* "libtelnet for now just captures and discards MCCPv1 sequences"         *)
(* (libtelnet.c:1089): skipping one passes nothing on.                     *)
DiscardsOldCompress == \A k \in DOMAIN delivered : delivered[k] # Wrapped
=============================================================================
