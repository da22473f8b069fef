------------------------------- MODULE TelnetReceive -------------------------------
(***************************************************************************)
(* _TBP_recv of clientchannel.c: a loop of recv and telnet_recv, and       *)
(* _telnetEvtHandler, which the parser of TelnetParser calls back.         *)
(*                                                                         *)
(* All three work on the caller's buffer: recv fills it, the parser reads  *)
(* it, and the handler moves every run of data to its front while the      *)
(* parser is still reading.  `mem' is that buffer and `raw' what recv had  *)
(* put there.  The bound MaxCall of the parser is the buffer's size here.  *)
(***************************************************************************)
EXTENDS TelnetParser

CONSTANT Beyond         \* what may stand in memory behind the caller's buffer

BufSize == MaxCall      \* nbytes

(* The tracker is made without TELNET_FLAG_NVT_EOL (clientchannel.c:113).   *)
(* With it the parser would read a byte of the buffer once more behind the *)
(* handler's back (libtelnet.c:1007).                                      *)
ASSUME NvtEolIsOff == ~NvtEol
ASSUME NamedBytes == {"CR", "IAC", "NUL"} \subseteq Bytes
ASSUME BeyondAssumption == Beyond \subseteq Bytes /\ Beyond # {}

VARIABLES
    wire,               \* what was sent and not received, in order
    mem, raw,           \* tempRecvBuf; what the last recv put there
    flag,               \* tempDataTypeFlag
    recvBytes,          \* tempRecvBytes
    at,                 \* where _TBP_recv is: "out", "recv" or "parse"
    returned            \* the bytes all calls returned, one after the other

reader == <<mem, raw, flag, recvBytes, at, returned>>

ReaderInit ==
    /\ mem = [k \in 1..BufSize |-> "NUL"] /\ raw = <<>>
    /\ flag = FALSE /\ recvBytes = 0
    /\ at = "out" /\ returned = <<>>

RecvInit == Init /\ ReaderInit /\ wire \in Seq(Bytes)

RecvTypeOK ==
    /\ TypeOK
    /\ wire \in Seq(Bytes)
    /\ mem \in [1..BufSize -> Bytes]
    /\ raw \in Seq(Bytes) /\ Len(raw) <= BufSize
    /\ flag \in BOOLEAN /\ recvBytes \in 0..BufSize
    /\ at \in {"out", "recv", "parse"}

-----------------------------------------------------------------------------
(* What the parser tells in this step.  Data comes alone, as one event. *)
NewItems ==
    IF buf = <<>> THEN delivered'
    ELSE SubSeq(delivered', Len(delivered) + 1, Len(delivered'))

EventData ==
    IF \A k \in DOMAIN NewItems : NewItems[k][1] = "data"
    THEN [k \in DOMAIN NewItems |-> NewItems[k][2]] ELSE <<>>

(* Wrong variant: tempRecvBufSize bytes are moved, whatever the size. *)
MovedWhole(data) ==
    [k \in 1..BufSize |-> IF k \in DOMAIN data THEN data[k]
                          ELSE IF start + k <= BufSize THEN mem[start + k] ELSE mem[k]]

(* The buffer with `data' moved to its front. *)
Moved(data) == [k \in 1..BufSize |-> IF k \in DOMAIN data THEN data[k] ELSE mem[k]]

(* actualRecvByte: no more than tempRecvBufSize. *)
Clamped(n) == IF n > BufSize THEN BufSize ELSE n

(* An event of wrapped size is clamped to the whole buffer.  That many     *)
(* bytes are moved from buffer + start on, the last of them from behind    *)
(* the buffer's end.                                                       *)
MovedWrapped ==
    \E beyond \in [1..start -> Beyond] :
        mem' = [k \in 1..BufSize |-> IF start + k <= BufSize THEN mem[start + k]
                                     ELSE beyond[start + k - BufSize]]

(* _telnetEvtHandler: what it does to the buffer; events other than data   *)
(* change nothing here.                                                    *)
telnetEvtHandler ==
    \/ NewItems = <<Wrapped>> /\ MovedWrapped /\ recvBytes' = BufSize
    \/ /\ EventData # <<>>
       /\ mem' = Moved(EventData) /\ recvBytes' = Clamped(Len(EventData))
    \/ /\ NewItems # <<Wrapped>> /\ EventData = <<>>
       /\ UNCHANGED <<mem, recvBytes>>

(* Wrong variant: every event sets tempDataTypeFlag. *)
AnyEventSeen == flag \/ NewItems # <<>>

(* tempDataTypeFlag after the handler's call. *)
DataSeen == flag \/ EventData # <<>> \/ NewItems = <<Wrapped>>

(* The call, up to its first recv. *)
Enter ==
    /\ at = "out" /\ at' = "recv"
    /\ flag' = FALSE
    /\ UNCHANGED <<vars, wire, mem, raw, recvBytes, returned>>

(* Wrong variant: recv is not told how long the buffer is. *)
ReceiveUnbounded ==
    /\ at = "recv" /\ at' = "parse"
    /\ \E k \in 1..Len(wire) :
         /\ raw' = SubSeq(wire, 1, k) /\ wire' = SubSeq(wire, k + 1, Len(wire))
         /\ mem' = [j \in 1..BufSize |-> IF j <= k THEN wire[j] ELSE mem[j]]
    /\ UNCHANGED <<vars, flag, recvBytes, returned>>

(* recv returns what has arrived of the stream, up to the buffer's size... *)
Receive ==
    /\ at = "recv" /\ at' = "parse"
    /\ \E k \in 1..BufSize :
         /\ k <= Len(wire)
         /\ raw' = SubSeq(wire, 1, k) /\ wire' = SubSeq(wire, k + 1, Len(wire))
         /\ mem' = [j \in 1..BufSize |-> IF j <= k THEN wire[j] ELSE mem[j]]
    /\ UNCHANGED <<vars, flag, recvBytes, returned>>

(* ... or that there is nothing yet, and the call ends with nothing. *)
WouldBlock ==
    /\ at = "recv" /\ at' = "out"
    /\ UNCHANGED <<vars, wire, mem, raw, flag, recvBytes, returned>>

(* A turn of _process. *)
Parse ==
    /\ at = "parse" /\ i < Len(raw)
    /\ ReadByte(mem[i + 1])
    /\ telnetEvtHandler /\ flag' = DataSeen
    /\ UNCHANGED <<wire, raw, at, returned>>

(* Wrong variant: as many bytes are returned as recv had read. *)
FinishReturnsRaw ==
    /\ at = "parse" /\ i = Len(raw)
    /\ EndCall
    /\ telnetEvtHandler /\ flag' = FALSE
    /\ IF DataSeen
       THEN /\ returned' = returned \o SubSeq(mem', 1, Len(raw))
            /\ at' = "out"
       ELSE at' = "recv" /\ UNCHANGED returned
    /\ UNCHANGED <<wire, raw>>

(* The end of telnet_recv: what is in front of the buffer is returned, or, *)
(* if there was no data, the next recv is tried.                           *)
Finish ==
    /\ at = "parse" /\ i = Len(raw)
    /\ EndCall
    /\ telnetEvtHandler /\ flag' = FALSE
    /\ IF DataSeen
       THEN /\ returned' = returned \o SubSeq(mem', 1, recvBytes')
            /\ at' = "out"
       ELSE at' = "recv" /\ UNCHANGED returned
    /\ UNCHANGED <<wire, raw>>

RecvNext == Enter \/ Receive \/ WouldBlock \/ Parse \/ Finish
RecvSpec == RecvInit /\ [][RecvNext]_<<vars, reader, wire>>

-----------------------------------------------------------------------------
(* A wrapped event was told in the running telnet_recv. *)
WrapTold == buf # <<>> /\ \E k \in DOMAIN delivered : delivered[k] = Wrapped

(* While the parser works, moving data to the front of the buffer it reads *)
(* (clientchannel.c:68-69) never touches what it has not read: until an    *)
(* event of wrapped size is told, the parser reads what recv had received, *)
(* byte by byte.  The bytes that wait to be passed on are not touched even *)
(* after such an event: they are told as they were read.                   *)
UnreadIntact ==
    at = "parse" =>
        /\ ~WrapTold => \A k \in DOMAIN raw : raw[k] = IF k <= i THEN buf[k] ELSE mem[k]
        /\ state = "DATA" => \A k \in start + 1..i : mem[k] = buf[k]

(* Events without data; events whose data ends with `data', all of it told *)
(* in one run; and events whose last data had a size that wrapped.         *)
Dataless(item) == item[1] \notin {"data", "wrapped"}
TellsNo(items) == \A m \in DOMAIN items : Dataless(items[m])
EndsWith(items, data) ==
    \E k \in 0..Len(items) - Len(data) :
        /\ \A j \in 1..Len(data) : items[k + j] = Data(data[j])
        /\ \A m \in k + Len(data) + 1..Len(items) : Dataless(items[m])
EndsWrapped(items) ==
    \E k \in DOMAIN items :
        items[k] = Wrapped /\ \A m \in k + 1..Len(items) : Dataless(items[m])

ReturnsLast ==
    LET data == SubSeq(returned', Len(returned) + 1, Len(returned'))
    IN  IF at = "parse" /\ at' = "out"
        THEN /\ returned' = returned \o data /\ data # <<>>
             /\ EndsWith(delivered', data) \/ EndsWrapped(delivered')
        ELSE returned' = returned /\ (at = "parse" /\ at' = "recv" => TellsNo(delivered'))

(* A telnet_recv that told data makes _TBP_recv return the end of it: a run *)
(* of bytes told one after the other, up to the last byte of data, with no *)
(* byte of an earlier read or of an event that followed.  (If its last     *)
(* data had a size that wrapped, what is returned is whatever was moved to *)
(* the front.)  One that told no data makes it go back to recv, and        *)
(* nothing else is ever returned.                                          *)
LastRunReturned == [][ReturnsLast]_<<vars, reader, wire>>
=============================================================================
