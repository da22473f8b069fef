# ladua: a TLA+ verification project

`serialserver` (this repository) shares one serial device among many remote
users.  A user logs in over SSH or telnet; from then on everything the device
prints goes to every user, and everything any user types goes to the device.
This directory holds TLA+ models of the parts where its difficulty lies, the
TLC configurations that check them, and TLAPS proofs.

Run a model with `tlc -config <cfg> <module>`, a proof with `tlapm <module>.tla`.

## 1. Inventory

| component | code | state | operations | talks to |
|---|---|---|---|---|
| main routine | `mainrun.c` `main`, `sigintHandlerToStop` | `mainStopFlag`, the device, the client list | start, relay loop, shutdown | every other part |
| SSH acceptor (thread) | `mainrun.c` `trSshAcceptor` | the session of this turn, `authenticated`, `chanNewb`, `shellRequested` | accept, key exchange, login, channel, shell, register; cancellation | libssh, client list under `mutex_cclist` |
| telnet acceptor (thread) | `mainrun.c` `trTelnetAcceptor` | the socket of this turn | accept, login, register; cancellation | TelnetBackpack, client list under `mutex_cclist` |
| client list | `clientchannel.c` `CCList_*` | a singly linked list of heap cells | add, batchSend, batchRecv (removes broken clients), finalize | client channels |
| client channel | `clientchannel.c` `ClientChannel_*` | the SSH session and channel, or the TelnetBackpack | recv, send, close | libssh, sockets |
| TelnetBackpack | `clientchannel.c` `TelnetBackpack_newWithAuth`, `_TBP_recv`, `_telnetEvtHandler` | socket, tracker, receive buffer handed to the event handler; while logging in two C strings | login, `_TBP_recv`, event handler | libtelnet (callbacks) |
| target device channel | `tdevchannel.c` | a file descriptor | init, recv with a time-out, send, finalize | the serial driver |
| libtelnet: negotiation | `libtelnet.c` `_negotiate`, `telnet_negotiate` | per option and half an RFC 1143 state; BINARY flags | request, receive a command | the peer, event handler |
| libtelnet: parser | `libtelnet.c` `_process`, `telnet_recv` | parser state, subnegotiation buffer | receive bytes | negotiation, event handler |
| libtelnet: subnegotiations | `libtelnet.c` `_environ_telnet`, `_mssp_telnet`, `_zmp_telnet`, `_ttype_telnet` | none of their own | parse a buffer | event handler |
| libtelnet: senders | `libtelnet.c` `telnet_send*`, `telnet_vprintf`, `telnet_begin_*`, `telnet_ttype_*`, `telnet_*zmp*` | none of their own | escape and send | event handler (EV_SEND) |
| libtelnet: zlib | `libtelnet.c`, `HAVE_ZLIB` | a z_stream | compress | not compiled by the makefile |
| globaltool | `globaltool.c` | none | log, dump, rtrim, read a password | - |

What is hard, and what each component must get right:

* *Three threads, one list.*  The main routine walks the list while two
  acceptors append to it.  The semaphore `mutex_cclist` must exclude them, be
  released on every path, and survive `pthread_cancel`.
* *Peers do what they like.*  A client can hang up in the middle of its login
  or of a pass over the list, or keep the connection and stop reading, or send
  nothing but telnet commands, without end.  Every connection must have one
  owner at any time, and be closed once.
* *Logins are loops with flags.*  Nobody may get on the list who did not give
  the password on this very connection.
* *Removal while iterating.*  `CCList_batchRecv` frees cells of the list it
  walks.
* *Shutdown.*  SIGINT or the loss of the device must end the process, in an
  order in which nothing is left open and nothing is used after it was freed.
* *Negotiation.*  Requests of the two ends cross on the wire; both ends must
  come to the same view, without an endless exchange, and tell the application.
* *A byte stream cut anywhere.*  The parser gets what one socket read returned:
  a command, an escape or a subnegotiation can begin in one call and end in
  another, and data is passed on in runs that are found by index arithmetic.
* *Callbacks and buffers.*  One socket read can hold several runs of data and
  several commands; each of them is an event whose handler writes to the very
  buffer the parser is still reading.
* *Strings that outlive a turn.*  The login keeps two C strings from attempt to
  attempt, writes over their front, and trims and terminates them in an order
  that matters.
* *Escapes, both ways.*  The senders cut a buffer into runs at the bytes that
  need escaping; the ENVIRON and MSSP parsers take escapes out in place.

`PROJECT.json` lists these hazards one by one, with the line where each bites
and the property that covers it, or the reason why none does.

## 2. The modules

| module | models | composed of |
|---|---|---|
| `ClientRoster` | what the client list promises: a sequence of clients, and passes over it that nothing interleaves with | - |
| `ClientList` | the linked list, cell by cell | implements `ClientRoster` |
| `SerialServer` | the three threads, the semaphore, the peers, the device, the signal | implements `ClientRoster` |
| `Rfc1143` | the tables of `_negotiate` and `telnet_negotiate` | - |
| `TelnetNegotiation` | negotiation between two ends that run this code | `Rfc1143` |
| `TelnetLogin` | `TelnetBackpack_newWithAuth`, `rtrim`, `isAccountValid` on C strings, and ECHO | `Rfc1143` |
| `TelnetEvents` | the commands, what the parser tells its application, and `Loop`, the turns of a loop | - |
| `TelnetStream` | what the byte parser promises: a decoder that reads bytes one by one and has no buffer | `TelnetEvents` |
| `TelnetParser` | `telnet_recv`, `_process`, `_buffer_byte` | `TelnetEvents`; implements `TelnetStream` |
| `TelnetReceive` | `_TBP_recv` and `_telnetEvtHandler` in one buffer | `TelnetParser`; implements `TelnetStream` |
| `TelnetSubnegotiation` | `_subnegotiate` and the four parsers behind it | `TelnetEvents` |
| `TelnetSender` | the calls that send | `TelnetSubnegotiation` (codes) |
| `TelnetExchange` | a peer that sends, TCP, and this end that receives | `TelnetSender`, `TelnetReceive`, `TelnetSubnegotiation` |
| `SerialServerProofs`, `ClientListProofs`, `TelnetNegotiationProofs`, `TelnetLoginProofs` | theorems and proofs about the module of that name | |
| `TelnetReceiveProofs` | theorems and proofs about `TelnetParser` and `TelnetReceive` | |
| `LoopLemmas` | induction, stated about a set of numbers, and what a `Loop` keeps | |
| `TelnetPayloadProofs` | what the subnegotiation parsers return | `LoopLemmas` |
| `TelnetExchangeProofs` | theorems and proofs about `TelnetExchange` | `TelnetReceiveProofs`, `TelnetPayloadProofs` |
| `MC*` | instances for TLC | |

**ClientRoster.**  The list is `seen \o todo`: during a pass, `seen` are the
clients already visited and kept, `todo` those still to visit.  `Register`
appends, `Begin` / `Keep` / `Drop` / `End` are a pass of `batchSend`,
`batchRecv` or `finalize`.

**ClientList.**  `head`, `next`, `holds` are the memory; `live` are the
allocated cells.  One action per iteration of each loop: `SendVisit`,
`RecvKeep`, `RecvDrop`, `FinalVisit`.  `RecvDrop` keeps the code's order (close,
unlink through `previous`, free, then `previous = current; current =
current->next` on the freed cell).  A freed cell keeps its `next` and loses its
`type` (glibc overwrites the first 16 bytes of a freed chunk of this size), so
visiting it goes to the `default:` branches, and `VisitFreed` is the abort of
the second `free`.  `intact` is a history variable: it turns FALSE when
`previous->next` is written in a freed cell.  Up to then the list implements
`ClientRoster` (`ImplementsRoster`); what happens afterwards is the finding of
section 5.  Cells are only reused by the list itself.

**SerialServer.**  One program counter per thread, one action per blocking call
or critical step.  `stage` is how far each connection got, `sess` the state of
`sessionNewb` (`"freed"`: freed and still used), `bind` and `lsock` the
listening objects.  Passes over the list are the sequence of `ClientRoster`;
that `ClientList` implements it too is what justifies leaving the pointers out
here.  A visit of `batchRecv` either finds nothing (`RecvKeep`), or hands what
was typed to the device within the pass (`RecvTyped`, `WriteDevice`), or drops a
broken client (`DropVisit`); none of the three is enabled for a telnet peer that
sends commands and nothing else, on and on (`chatty`), as long as it is there,
because the loop of
`_TBP_recv` does not return then.  Login data is reduced to "the client knows
the account or not" (`Legit`), the device's output to numbered chunks.  `joined`
is a history variable: the number of chunks whose broadcast was over when a client was
registered.  `close` of the telnet socket does not end an `accept` that is
blocked on it, so the socket may be `"held"` for that one connection.  `Mishaps`
says which failures the instance allows: `start_fails`, `accept_error`
(`ssh_bind_accept` returns SSH_ERROR; the turn then goes on with the freed
session, since `continue` leaves only the `do { } while (0)` of
`pthread_cleanup_push`), `slow_reader` (an SSH peer stops reading for good),
`chatter` (a telnet peer sends commands only, for good), `device_stuck` (the
device takes no more data), `full_buffer` (a telnet socket takes nothing),
`sigpipe`.  `died` means that a signal killed the process.
libssh, the sockets, the scheduler and the peers are modelled from how the code
uses them.

**Rfc1143, TelnetNegotiation.**  A *side* is an end and a half (`us`, `him`).
The four switch statements of `_negotiate` and of `telnet_negotiate` are two
pairs of copies that differ in the command bytes only, so each pair is one table
(`OnYes`, `OnNo`, `OnAskYes`, `OnAskNo`), and a command is its sense.  `app` is
the application's view, from the events it received.  The wire keeps order among
the commands for one side, which admits more than the real connection does.
PROXY mode, which this program does not use, is left out.  `Save` has the two
BINARY mode flags as the code keeps them: brought up to date only for an entry
that is in the table already.

**TelnetLogin.**  An array of C is a function of its indexes; `NameOf` and
`PassOf` are the code's three calls on it, in their two different orders.
`RTrim` takes spaces off the end of the string and leaves what stands behind its
terminator, which a later `strncpy` can bring back into the string.
`Names` and `Passwords` are what one return of `_TBP_recv` may hold at either
prompt.  A chunk of the full size of the buffer is `Overrun`: the terminator is
written behind the array, and everything after that is undefined.  At every
prompt the login asks for ECHO or takes it back, by the tables of `Rfc1143`,
without waiting; the terminal answers as libtelnet would, when it likes, and the
server reads commands only within `_TBP_recv`.  `named`, `right`, `longest` and
`shadowed` are history: what the user has typed, by a definition (`Means`) that
is independent of the two strings.

**TelnetParser.**  One action per state of `_process` and byte; `buf` is the part
of the call's buffer that was read, so its length is the index `i`.  Data is
passed on as the code does it, in runs `buffer[start..i)` at the next command or
at the end of the buffer; `delivered` logs the events of one call, data byte by
byte.  The bytes of a stream are chosen as they are read, which is the same
since the code never looks ahead.  `Sizes` is `_buffer_sizes`; `MayFail` lets
`realloc` fail.  A negotiation and a subnegotiation are one event each; the
negotiation of BINARY may change the mode flag, and with it how CR is read.
The MCCPv1 sequence moves `start` ahead of `i` (`Skipping`); when the call ends
there, or IAC or a line end comes, the data event has a size below zero, which
wraps: it is told as `Wrapped`, and the parser goes on.
**TelnetStream** is the same without `buf`, `start` and buffer sizes: it may fail
for lack of memory at any byte of a subnegotiation, must fail at `Limit`, and its
`EndCall` changes nothing of what was told.  It leaves out the byte behind the
WILL of an MCCPv1 sequence wherever the calls are cut (mode `"SKIP"`); the step of
the parser that tells `Wrapped` instead (`Wraps`) is the one that
`ImplementsStream` excepts.

**TelnetReceive.**  `mem` is the caller's buffer.  `Receive` (recv) fills its
front, `Parse` is one turn of the parser's loop on `mem[i + 1]`, and when that
turn raises EV_DATA the handler moves the data to the front of `mem` and sets
`flag` (`DataSeen`) and `recvBytes`, all within the step, as the callback does.
`Finish` is the end of `telnet_recv`, whose last events may still be data, the
test of `tempDataTypeFlag`, and its reset.  `raw` remembers what
recv had put there, which is what the parser should have seen.  The buffer's
size is the parser's `MaxCall` (`BufSize`), to which the handler cuts the size of
the event (`Clamped`).  For an event of wrapped size that makes it a move of
`BufSize` bytes from `start` on, the last ones from behind the caller's buffer
(`MovedWrapped`; `Beyond` are the bytes that may stand there); those bytes are
counted as received.  `NVT_EOL` is off, as
`telnet_init(..., 0, ...)` has it (`NvtEolIsOff`).

**TelnetSubnegotiation.**  The buffer is part of the state of `Move` and
`MoveString`: ENVIRON and MSSP strings are written over the bytes that were read,
an event holds pointers into it, and `CString` reads them after everything was
written.  **TelnetSender** gives the bytes of each call; `Runs` is the loop the
senders share, with its run `buffer[l..i)`.  All these loops are a turn, a function
of the loop's variables, and as many turns (`Loop`) as the loop can take at most;
a turn that finds the loop over changes nothing.

**TelnetExchange.**  `Scripts` are the lists of calls the peer may make.  All
bytes are on the wire from the start, and each recv takes as many as it likes:
bytes recv does not see yet are bytes not sent yet.  `meant` is what the calls
stand for (`Means`), defined without the code's loops: the marks of a payload say
where its parts are, a byte with an odd number of ESC in front is no mark, and
each part is unescaped by itself.  `told` is what the application hears.  `Means`
follows the protocol and `libtelnet.h`, not the parsers: a value that is missing
is the empty string (`libtelnet.h:231`).  Two payloads mean something else to the
code, and the scripts of the passing run, and the theorems, do without them
(`Excepted`): an MSSP value that is missing at the very end, which the code leaves
NULL (run `MCMissingValue`), and an ENVIRON payload that ends with an escaped ESC,
which the code refuses as if it were not escaped (libtelnet says nothing of it).
The raw event that `_subnegotiate`
sends first is left out where a parsed one follows.

`Calls` says which calls a script may hold, and each restriction is one of the
code: `telnet_iac` sends the byte it is given, so not one that begins a longer
command; the ENVIRON calls add no ESC, so strings have no markers and no ESC;
`telnet_ttype_is` does not escape, so a name has no IAC; a C string has no NUL;
nothing is a COMPRESS subnegotiation, which the parser cuts short; and a payload
fits the largest size of the buffer (a longer one is `Error("overflow")`, which
`MCTelnetParser` covers).

## 3. What TLC checks

| run | instance and bounds | properties |
|---|---|---|
| `MCClientList` | 4 clients, 3 cells, symmetric: cells are reused, and `malloc` fails once all three are in use | `TypeOK`, `ListExact`, `CrashNeedsCause`, `ImplementsRoster` |
| `MCSerialServer` | 2 SSH clients (one knows the account), 1 telnet client, 2 login attempts, 2 chunks; failing starts and accepts, full buffers, SIGPIPE (what can hold the main routine is in the next row) | `TypeOK`, `MutualExclusion`, `ListedAreAuthorised`, `OneOwner`, `DeviceStream`, `ImplementsRoster` |
| `MCSerialServerLive` | 1 SSH and 1 telnet client, 1 attempt, 1 chunk, under fairness; the SSH peer may stop reading, the telnet peer may send nothing but commands, the device may stop taking data | `StopEndsUnlessHeld`, `BrokenIsRemoved`, `LoginIsServed` |
| `MCTelnetNegotiation` | 5 requests, 1 stray command, one side that does not support the option | `TypeOK`, `AppKnows`, `AllLinked`, `Agreement`, `NoProtocolError`, `BinaryOnlyWhenOn`, `Settles` |
| `MCTelnetLogin` | arrays of 5 bytes, the code's 5 turns, 5 names, 123 passwords (all of up to 4 characters, with NUL, full buffer), a terminal that accepts ECHO or not | `TypeOK`, `OnlyAccountGetsIn`, `RefusedOnlyAfterLonger`, `PasswordHidden` |
| `MCTelnetParser` | one byte of each kind and one verb, calls of at most 2 bytes, buffer sizes 0, 1, 2, NVT_EOL set, `realloc` may fail; the stream is as long as it likes | `TypeOK`, `StartInBuffer`, `ImplementsStream` |
| `MCTelnetExchange` | buffer of 5 bytes; every call alone and, if short, between data: data of up to 2 bytes, every ENVIRON payload of up to 5 bytes, MSSP up to 4, ZMP up to 3, but for those of `Excepted`; or a peer that is not libtelnet and sends an MCCPv1 sequence, whole or cut short by a command, between data | `RecvTypeOK`, `UnreadIntact`, `RoundTrip`, `ReturnedInOrder`, `LastRunReturned` |
| `MCDanglingCell`, `MCLateRegistration`, `MCOldCompress`, `MCMissingValue`, `MCLostInput` | smallest instances of the findings in section 5 | one each, violated |

What the properties say that a test would hardly reach:

* `OneOwner` and `ListedAreAuthorised` hold through every way a login can fail,
  cancellation, and the turn that goes on with a freed session.
* `StopEndsUnlessHeld` with `LoginIsServed` and `BrokenIsRemoved`: the only three
  things that can hold the server are under the semaphore (`Held`): the blocking
  write to an SSH peer that stopped reading, the loop of `_TBP_recv` over a telnet
  peer that sends commands only, and the write to a device that takes no data.
* `DeviceStream`: a listed SSH client that did not hang up has exactly the chunks
  from its registration on, up to the one it is due now; a telnet client may miss
  some (section 5), but has the others in order.
* `OnlyAccountGetsIn` and `RefusedOnlyAfterLonger`: what an earlier turn left in
  the two strings never lets anybody in, and keeps the right user out only if an
  earlier password was longer.
* `PasswordHidden`: every prompt of the login may pass before the terminal answers
  the first request for ECHO; once nothing is on the way any more the terminal
  hides what is typed exactly at the password prompt.
* `UnreadIntact`: `memmove` into the buffer that is being parsed is safe, because
  a run of data is never longer than what was read before it.  After an event of
  wrapped size only the bytes that wait to be passed on are safe.
* `ImplementsStream`: however the stream is cut, the parser tells what a decoder
  without buffers tells, and goes on as one also after the one event that is wrong.
* `RoundTrip`: senders, stream, parser and subnegotiation parsers together are
  the identity on what they stand for.  `ReturnedInOrder` is what is left of it
  for `_TBP_recv`, which loses runs (section 5).  `LastRunReturned` says what
  is left: bytes told in a row, up to the last byte of data of this
  `telnet_recv`, without one of an earlier read, and at least one if there is any.

*Why the bounds are enough.*  Three cells are the least with a cell before two
neighbours that break in one pass; the fourth client makes a cell be reused.
Three clients let both acceptors hold a connection while a third is on the
list, and let one client without a password follow one with it on the same
thread (the stale-flag case).  Two chunks show order and gaps.  MAX_TRY is 5 in
the code; 2 has a first and a last attempt's branch in `MCSerialServer`, and
`MCTelnetLogin` has all five: what stands behind a terminator can come back two
turns later.  Five requests
are what it takes to have a request, its opposite and the first one again
cross with the peer's; `AllLinked` shows that never more than two commands are
on the wire between two sides, and it is proved for any number of requests.
`MCTelnetLogin`'s passwords have the right one, with any space behind it, after
any string that is longer, shorter, or equal in front; the two theorems hold for
any size.

In `MCTelnetParser` only the length of one call is bounded, not the stream: the
log is that of one call.  Calls of two bytes put `start` before, at and behind
`i`, and cut every sequence at every place, since a longer call differs from two
shorter ones only in not resetting `start`; two growing steps of the buffer make
it full below and at its limit.  `MCTelnetExchange` needs five bytes so that a
move that is too long would reach bytes not parsed yet (data, a command of two
bytes, data); ENVIRON payloads of five hold a command, two variables, or one
with its value, or an escape with what follows it in either.  `RoundTrip` and
`ReturnedInOrder` are proved for any bytes, calls and sizes.

*Deadlock* is checked in `MCTelnetExchange`, where a call can always be made.  It
is not checked elsewhere: the server stops at its end, the login when it is over,
the negotiation when no command is left and the bound of requests is used up.

*Fairness* (`SerialServer!Fairness`).  Every thread that can run does (weak
fairness of the main routine's steps, and of the acceptors' `ssh_new` and
registrations; nothing asks that a login ends).  A thread that waits for the
semaphore gets it if it is free again and again (strong fairness): the main
routine releases it between passes and then spends up to 0.1 s in the read of
the device (VTIME, `tdevchannel.c`), so that a waiter finds it free; a futex
wakes it.  A pending cancellation is acted on (strong fairness, since the
thread is in the critical section now and then).  Nothing is assumed of peers,
of the device or of the user: they may stay silent for ever, stop reading, stop
taking data, or send nothing but commands.  The last three can hold the main
routine inside the critical section; its step is then not enabled, and the
liveness properties say `Held` for exactly that.

`TelnetNegotiation!FairSpec`: both ends read what has arrived.  The bounds on
requests and strays are what makes "they stop asking" true.

Every property has a mutant: a wrong variant of an operator (it stands just
above the right one, marked *Wrong variant*), with which TLC finds the property
violated.

## 4. What is proved

`TelnetNegotiationProofs`, for every set of supported sides and any number of
requests and strays:

* `NegotiationTypeOK`, `ApplicationKnows`: `Spec => []TypeOK` and
  `Spec => []AppKnows`.  `AppKnows` is inductive given `TypeOK`: lemma `RowsTell`
  goes through the four tables and shows that each row that changes the state
  across the border between "on" and "off" carries the matching event.
* `AlwaysLinked`, `NeverErrs`, `EndsAgree`: `Spec => []AllLinked`,
  `Spec => []NoProtocolError` and `Spec => []Agreement`, all three from the
  invariant `LinkInv`.  `Agreement` by itself is not inductive: it says nothing
  while commands are on the wire.  The invariant is built on `Linked`, the list
  of the situations two partner sides can be in: quiet; one of them waiting for
  an answer, with what is on the wire; both requests crossing.  `AskKeepsLinked`
  and `ReceiveKeepsLinked` show that a request and the receipt of a command lead
  from one of these situations to another, `MovesOnePair` that a step of one side
  leaves the other pair alone.
* `FlagsAreHonest`: `Spec => []BinaryOnlyWhenOn`.  The invariant adds
  `FlagsTracked`: a flag is only ever set for an end whose table has the entry,
  so that the same end's next change brings it up to date.

`SerialServerProofs`, for any sets of clients, any number of attempts and chunks,
and any set of mishaps:

* `ListIsExclusive`: `Spec => []MutualExclusion`.  The value of the semaphore
  is tied to the program counters, so all it needs to be inductive is
  `NotStarted`: main starts each acceptor only once, and none before its turn.
* `ServerTypeOK`: `Spec => []TypeOK`.  The invariant `Typed` groups the
  variables by their owner and adds that an acceptor past accept holds a client
  of its kind and that a chunk was read before it is sent; `KeptTypes` disposes
  of what a step leaves alone.  The semaphore's type is not in it: that
  follows from `ListIsExclusive`.
* `OnlyAuthorised`, `OwnersAreUnique`: `Spec => []ListedAreAuthorised` and
  `Spec => []OneOwner`.  The invariant `OwnerInv` ties `stage` to the places of the
  two acceptors (at "chan" the client is authenticated and `chanNewb` is reset,
  and so on): that is where a flag that is not reset would break the proof.
  `ListInv` says that `seen` and `todo` repeat nothing and share nothing; the count
  of `OneOwner` follows by `CountsElements`.
* `ServerImplementsRoster`: `Spec => ImplementsRoster`.  Each step is a step of
  `ClientRoster` or a stutter; that no registration falls into a pass is mutual
  exclusion.
* `StreamIsWhole`: `Spec => []DeviceStream`.  A listed SSH client that did
  not hang up has received exactly the chunks from `joined` on.  The property
  says nothing of a
  client that is not listed yet, nor of the last chunk while a broadcast is
  under way, so no step preserves it alone.  The invariant `StreamInv` counts for
  each client the chunks the broadcasts have brought as far as its place in the
  list (`Limit`: one less than were read, as long as the client is behind the
  running broadcast); a listed SSH client's stream is whole from its registration
  up to there, any client's rises within these bounds, and a client that is in
  the hands of an acceptor
  has received nothing.  `StreamKept` disposes of every step that sends nothing;
  what is left are a client's turn (`VisitStream`) and the end of a broadcast
  (`EndStream`), where everyone listed is among the seen.  That nobody is added
  in the middle of a broadcast is mutual exclusion.

`ClientListProofs`, for any clients and any finite heap:

* `CellsAreExact`: `Spec => []ListExact`.  `ListExact` is not inductive: in the
  middle of a pass it does not say where `previous` and the cursor stand, and it
  counts cells instead of naming them.  The invariant `ListInv` says that there
  are two sequences of cells, `s` behind the pass and `t` before it, which
  together are the allocated cells, each once, whose `next` lead from one to the
  following and at the end to NULL, with the cursor on the first of `t` and
  `previous`, where it is still allocated, on the last of `s` (`Shape`); and that
  no two cells have the same client, or a closed one (`Apart`).  One lemma per
  iteration of a loop rebuilds the two sequences: `RecvDrop`, which unlinks,
  frees and then reads the freed cell, is the long one.
* `CrashHasCause`, `ListTypeOK`: `Spec => []CrashNeedsCause`, `Spec => []TypeOK`.
* `ListImplementsRoster`: `Spec => ImplementsRoster`.  `NodesAre` shows that the
  refinement mapping, a walk along `next` with as much fuel as there are cells,
  returns `s` and `t`; with that each iteration of a loop is a step of
  `ClientRoster`.  The walk (`PathTo`) is a recursive function over memory; that
  it is defined at all, and what it returns, is induction on the fuel
  (`WalkExists`, `WalkFollows`), which `InductionInSet` provides for a set of
  numbers, from the library's well-foundedness of `<`.

`TelnetReceiveProofs`, first of the parser, for any alphabet, any table of buffer
sizes and calls of any length:

* `ParserTypeOK`, `StartStaysInBuffer`: the buffer never holds more than its size
  and `start` is at most one ahead of `i`, and that only in the MCCPv1 case.
* `ParserImplementsStream`: `Spec => ImplementsStream`, the steps `Wraps` excepted
  as its definition says.  The refinement mapping
  hides `buf` and `start`: what was told is `delivered` and the run that is held
  back.  One lemma per state of the parser shows that reading a byte changes this
  as the decoder without buffers does; `EndCall` is a stutter up to the new log.

and then of `_TBP_recv` around it, for a buffer of any size and any stream:

* `ReceiveTypeOK`, `BufferIsSafe`: `RecvSpec => []RecvTypeOK` and
  `RecvSpec => []UnreadIntact`.  The first is about what is written and counted; an
  event of wrapped size reads behind the caller's buffer, and the second says
  what is safe before it and after it.  The argument: what one step of the parser tells
  as data is no longer than the bytes read so far (`Short`), and after it the
  pending data starts behind them (`Pending`); so the move ends before whatever
  is still needed.
* `ReceiveImplementsStream`: `RecvSpec => ImplementsStream`.  Every step of the
  receiver is a step of the parser on a byte of the alphabet, or leaves it alone.
* `LastRunIsReturned`: `RecvSpec => LastRunReturned`.  Its invariant `FrontInv`
  says that, once `flag` is set, the first `recvBytes` bytes of `mem` are the end
  of the data told by this `telnet_recv`, and that nothing was told as data while
  it is not set.  It rests on a step of the parser telling either data only or
  none, and never more of it than was read (`HandlerMoves`); where the size of the
  last data wrapped, the property only says that something is returned.

`TelnetPayloadProofs`, for payloads of any length over any alphabet:

* `SubIsMeant`: `subnegotiate(o, p) = SubMeans(o, p)`, unless `Excepted(o, p)`.  The
  loops of the code,
  which read and write one buffer through pointers, return what splitting the
  payload at its marks gives.  One invariant per loop, about its variables after
  `k` turns (`LoopLemmas` turns it into a statement about the result).  For a move
  it says that the writer is behind the reader (`out < c`), that from the reader
  on the memory is as it came, and that behind the place the string began at
  stand the bytes picked so far (`Shifted`); whether a byte is escaped is carried
  by the parity of the ESCs in front.  For `Variables` and `Parts`, each entry
  read so far points at a string with its terminator, all of it in front of the
  writer (`EntriesAre`, `PairsAre`): so a later move never damages it, and
  `CString` finds it when the event is read, after all was written.
* `EnvironIsRead`, `ZmpIsRead` and `TtypeIsRead`: for the payloads the typed calls
  send, that meaning is the list they were called with.

`TelnetExchangeProofs`, for any list of calls, any cutting of the stream, and
buffers of any size:

* `ExchangeReceives`: `ExchangeSpec => RecvSpec`, so what is proved of `_TBP_recv`
  for any stream holds of an exchange.
* `RoundTripHolds`: `ExchangeSpec => []RoundTrip`, if no script has an `Excepted`
  payload (`NoneExcepted`; the same for the next two).  `RoundTrip` and
  `ReturnedInOrder` have a condition, that no event of wrapped size was told,
  which matters in the run's peers that send MCCPv1; for scripts the theorems state
  what stands behind it as well (`ToldAsMeant`, `DataInOrder`).  The invariant
  `ExInv` looks
  ahead: a decoder that starts in the parser's state, with what the application
  has heard and what is held back for it as its log, and reads what recv has read
  and what it has not, ends between two commands with `meant` as its log
  (`LeadsToMeant`).  A step of the parser is one step of that decoder
  (`DecoderTurns`, from `Says` and `Turns`, which say what each byte does in each
  state); every other step leaves all of it alone.  That it holds in the initial
  states is the round trip itself: the bytes of each call, read from between two
  commands, tell what the call means and lead back there (`Yields`, `CallIsRead`,
  `ReadIsMeant`), where inside a subnegotiation bytes add up to a payload
  (`Carries`), the runs of `Runs` are what escaping byte by byte gives
  (`RunsAre`), and payloads are read as `SubIsMeant` has it.
* `NeverWraps`: `ExchangeSpec => []DiscardsOldCompress`.  It is a part of `ExInv`: the
  decoder that looks ahead stops where an MCCPv1 sequence would be skipped, and as
  it comes to its end, the calls of the senders never lead there.  So between two
  ends of this library `UnreadIntact` and `LastRunReturned` hold without their
  exceptions.
* `ReturnedInOrderHolds`: `ExchangeSpec => []ReturnedInOrder`.  Its invariant
  `OrderInv` splits `told` into what was told before this `telnet_recv`, where all
  that was returned is to be found in order, and what was told since, where the
  front of the buffer is; `FrontInv` and `LastRunIsReturned`'s lemmas say what
  that front is, and `ToldIsMeant` (from `ExInv`) takes it from `told` to `meant`.

`ExInv` and `OrderInv` quantify over runs of a decoder and over all sequences of
events, which TLC cannot enumerate; what it checks is the properties they imply.

`TelnetLoginProofs`, for arrays of any size, any account and any chunks:

* `OnlyTheAccount`, `AccountGetsIn`: `Spec => []OnlyAccountGetsIn` and
  `Spec => []RefusedOnlyAfterLonger`.  The string lemmas say what `strncpy` leaves
  (`CopiedByStrNCpy`), and that an array equals a string of the account after
  `rtrim` exactly if the user meant it, provided a terminator stood right behind
  the chunk (`TrimmedMeans`).  For the name that is always so; for the password,
  `TailIsOld` says where it can fail: behind the longest password there is
  nothing but terminators.
* `PasswordHides`: `Spec => []PasswordHidden`, for any number of prompts and any
  delay of the answers.  The property speaks only of the moments when nothing is
  on the way.  Its invariant `EchoInv` has the situations the two ends can be in
  on the way there (`EchoLink`: at rest, or one request out and its answer not
  back; what the prompts ask for in the meantime waits in the server's state),
  and what the server is heading for at each prompt (`EchoAim`).
* `LoginTypeOK`: `Spec => []TypeOK`.

The assumptions are the named ASSUMEs of the modules (sizes and bounds are
positive numbers, the heap is finite and NULL is neither a cell nor a client,
chunks fit the buffer, a sorted table of sizes, the account has no NUL and no
space at its end; for the exchange, the calls of `Calls`, payloads that fit, an
alphabet that has the bytes with a meaning and those in `Beyond`, and memory that does not run out); TLC
evaluates them on every instance.
An account that ended with a space could not log in over telnet at all.

Loops and lists are defined as recursive functions and folds, and what they return
for every input is proved by induction: `Induction` (`LoopLemmas`) takes a set of
numbers, not a predicate, from the library's well-foundedness of `<`, and each
use defines the set of the lengths, or turns, for which its claim holds.

*Only model-checked*: the liveness properties (the prover does not handle
fairness or ENABLED).  Every safety property that a passing run checks is a
theorem.

## 5. Findings

Each is a run in which TLC finds the quoted statement violated; `PROJECT.json`
quotes the lines.

1. **A freed cell stays on the client list** (`MCDanglingCell`,
   `clientchannel.c:340`).  After removing a broken client, `batchRecv` keeps the
   freed cell as `previous`.  If the next client is broken too, the unlinking
   is written into freed memory, and the list goes on pointing at the second
   freed cell; the next pass frees it again.
2. **A client registered during shutdown is never closed**
   (`MCLateRegistration`, `mainrun.c:444`).  The list is finalized before the
   acceptors are stopped.
3. **Input is lost when a command splits it** (`MCLostInput`,
   `clientchannel.c:69`): of several runs of data in one recv only the last is
   returned.
4. **The skip of an MCCPv1 sequence can tell data of a wrapped size**
   (`MCOldCompress`, `libtelnet.c:1092`): `start` is put behind a byte that may not
   be in this call, or may be an IAC.
5. **A missing MSSP value is NULL** (`MCMissingValue`, `libtelnet.c:728`): the entry
   announced by the last byte of the subnegotiation is never filled in.

Others are written into the conditions of properties that hold, which say exactly
how far they go:

* **Whoever holds the main routine stops the server** (`Held`).  An SSH client that
  stops reading (`clientchannel.c:224`, a blocking write), a telnet client that
  sends only commands (`clientchannel.c:43`, where `_TBP_recv` goes back to `recv`
  as long as it read no data) and a device that takes no data
  (`tdevchannel.c:73`) do so under the semaphore, and SIGINT does not end the
  program then, as `mainrun.c:51` says it does.  `StopEndsUnlessHeld`,
  `BrokenIsRemoved` and `LoginIsServed`: nothing else does.
* **The right password can be refused** (`clientchannel.c:142`): `rtrim` runs before
  the terminator is set, meets the tail of a longer password of an earlier turn
  and leaves the line end in place.  `RefusedOnlyAfterLonger`: only then.
* **A telnet client can miss what the device printed** (`clientchannel.c:229`): `send`
  on a full non-blocking socket takes a part or nothing, and its result is
  ignored.  `DeviceStream`: what it gets is in order, and SSH clients miss nothing.
* **A NEW-ENVIRON payload that ends with an escaped ESC is refused** (`Excepted`).

## 6. Not modelled

* zlib: not compiled by the makefile; without it `telnet_begin_compress2` does
  nothing.
* Logging, option parsing and the password prompt: sequential, and before any
  thread exists.
* The termios settings, but for what they make `read` and `write` do.
* The texts of the prompts, and the formatting inside `telnet_vprintf`; the
  varargs variants of the ZMP calls, which send what the others send; a null
  name of `telnet_ttype_is`, which is sent as "NVT".
* Failures of `malloc` and `calloc` in libtelnet other than the subnegotiation
  buffer's: each is a warning in place of the event, and nothing else changes; in
  `_set_rfc1143` the state is not saved, a hazard without a property.
* PROXY mode, which the program never sets, and NVT_EOL in `TelnetReceive`, which
  it does not set either (`TelnetParser` has it).
* Descriptors as numbers, so a number closed twice and reused in between is not
  seen; memory behind libssh sessions and TelnetBackpacks is not counted.
* What is beyond the point where the code's behaviour is undefined: the second
  `free` of a cell, `Overrun`, a freed session (which may also go on).

Nothing more of the code holds state that other parts depend on, and every safety
property of a passing run is proved for all sizes (with the exceptions named in
section 4), so what is left for this project are the
hazards without a property, each with its reason in `PROJECT.json`.
