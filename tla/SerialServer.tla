---------------------------- MODULE SerialServer ----------------------------
(***************************************************************************)
(* The three threads of mainrun.c: the main routine (start, relay loop,    *)
(* shutdown), the SSH acceptor and the telnet acceptor.  They share the    *)
(* client list under the semaphore mutex_cclist, and without any lock the  *)
(* stop flag, sshBind and telnetListenSock.  Peers connect, log in, hang   *)
(* up and stop reading; the device is unplugged; SIGINT arrives.           *)
(*                                                                         *)
(* One action per blocking call or per critical step of a thread.  Data is *)
(* reduced to what matters here: a client has the right password or not,   *)
(* and the device's output is a sequence of numbered chunks, one per       *)
(* successful TdevChannel_recv.  The list is the sequence `seen \o todo'   *)
(* of ClientRoster; ClientList shows what its pointers do with it.         *)
(***************************************************************************)
EXTENDS Naturals, Sequences, FiniteSets

CONSTANTS
    SshClients, TelnetClients,
    Legit,              \* the clients whose user knows the account
    MaxTry,             \* MAX_TRY of TelnetBackpack_newWithAuth
    MaxChunks,          \* bound: chunks the device sends
    Mishaps,            \* the environment failures this instance allows
    NoClient

Clients == SshClients \cup TelnetClients

ASSUME ClientsAssumption ==
    /\ SshClients \cap TelnetClients = {}
    /\ NoClient \notin Clients
    /\ Legit \subseteq Clients
ASSUME BoundsAssumption == MaxTry \in Nat \ {0} /\ MaxChunks \in Nat
ASSUME MishapsAssumption ==
    Mishaps \subseteq {"start_fails", "accept_error", "slow_reader", "device_stuck", "chatter",
                "full_buffer", "sigpipe"}

VARIABLES
    mainPc, stop,               \* main(): where it is, mainStopFlag
    chunk, dev,                 \* last chunk read, the device file
    sem,                        \* mutex_cclist
    seen, todo,                 \* cclist, split at the running pass
    bind, lsock,                \* sshBind, telnetListenSock
    sshPc, sshCli, sess,        \* trSshAcceptor: where it is, its client, sessionNewb
    authenticated, chanNewb, shellRequested,
    telPc, telCli, try,         \* trTelnetAcceptor and TelnetBackpack_newWithAuth
    cancelled,                  \* threads pthread_cancel was called on
    stage,                      \* how far each connection got
    got,                        \* chunks each client received
    joined,                     \* history: chunks broadcast before its registration
    gone, stalled,              \* peers that hung up, SSH peers that stopped reading
    chatty,                     \* telnet peers that send commands and nothing else, on and on
    died                        \* the process was killed by a signal

mainVars == <<mainPc, stop, chunk, dev>>
listVars == <<seen, todo>>
sockVars == <<bind, lsock>>
turn == <<authenticated, chanNewb, shellRequested>>
sshVars == <<sshPc, sshCli, sess, turn>>
telVars == <<telPc, telCli, try>>
envVars == <<gone, stalled, chatty, died>>
vars == <<mainVars, sem, listVars, sockVars, sshVars, telVars, cancelled, stage, got, joined, envVars>>

-----------------------------------------------------------------------------
Passes == {"send", "recv", "write", "final"}
Starting == {"listen_ssh", "listen_tel", "open_dev", "start_ssh", "start_tel"}
Running == {"loop", "read", "send_wait", "send", "recv_wait", "recv", "write"}
Stopping == {"close_dev", "final_wait", "final", "free_ssh", "close_tel",
             "cancel_ssh", "join_ssh", "cancel_tel", "join_tel"}
Ended == {"done", "failed"}         \* return 0, return 1

Up == ~died /\ mainPc \notin Ended
At(pc) == ~died /\ mainPc = pc

Elems(s) == {s[i] : i \in DOMAIN s}
Listed == Elems(seen) \cup Elems(todo)
Closed == {c \in Clients : stage[c] = "closed"}

(* The stages a connection goes through in the hands of an acceptor. *)
Open == {"accepted", "keyed", "authed", "opened", "shell"}

TypeOK ==
    /\ mainPc \in Starting \cup Running \cup Stopping \cup Ended
    /\ stop \in BOOLEAN
    /\ chunk \in 0..MaxChunks
    /\ dev \in {"none", "open", "stuck", "unplugged", "closed"}
    /\ sem \in {0, 1}
    /\ seen \in Seq(Clients) /\ todo \in Seq(Clients)
    /\ bind \in {"none", "listening", "freed"}
    /\ lsock \in {"none", "listening", "failed", "held", "closed"}
    /\ sshPc \in {"none", "new", "accept", "kex", "auth", "chan", "shell", "wait", "reg", "cancelled"}
    /\ sshCli \in SshClients \cup {NoClient}
    /\ sess \in {"none", "blank", "bound", "freed"}    \* freed: pointer kept and used again
    /\ authenticated \in BOOLEAN /\ chanNewb \in BOOLEAN /\ shellRequested \in BOOLEAN
    /\ telPc \in {"none", "accept", "auth", "wait", "reg", "cancelled"}
    /\ telCli \in TelnetClients \cup {NoClient}
    /\ try \in 0..MaxTry
    /\ cancelled \subseteq {"ssh", "tel"}
    /\ stage \in [Clients -> Open \cup {"idle", "queued", "refused", "closed", "abandoned"}]
    /\ got \in [Clients -> Seq(1..MaxChunks)]
    /\ gone \subseteq Clients
    /\ joined \in [Clients -> 0..MaxChunks]
    /\ stalled \subseteq SshClients
    /\ chatty \subseteq TelnetClients
    /\ died \in BOOLEAN

Init ==
    /\ mainPc = "listen_ssh" /\ stop = FALSE /\ chunk = 0 /\ dev = "none"
    /\ sem = 1
    /\ seen = <<>> /\ todo = <<>>
    /\ bind = "none" /\ lsock = "none"
    /\ sshPc = "none" /\ sshCli = NoClient /\ sess = "none"
    /\ authenticated = FALSE /\ chanNewb = FALSE /\ shellRequested = FALSE
    /\ telPc = "none" /\ telCli = NoClient /\ try = 0
    /\ cancelled = {}
    /\ stage = [c \in Clients |-> "idle"]
    /\ got = [c \in Clients |-> <<>>]
    /\ joined = [c \in Clients |-> 0]
    /\ gone = {} /\ stalled = {} /\ chatty = {} /\ died = FALSE

-----------------------------------------------------------------------------
(* main: start.  Every failure ends the program except the telnet port's,  *)
(* which is only logged.                                                   *)
ListenSsh ==
    /\ At("listen_ssh")
    /\ \/ mainPc' = "listen_tel" /\ bind' = "listening"
       \/ "start_fails" \in Mishaps /\ mainPc' = "failed" /\ UNCHANGED bind
    /\ UNCHANGED <<stop, chunk, dev, sem, listVars, lsock, sshVars, telVars, cancelled, stage, got, joined, envVars>>

ListenTelnet ==
    /\ At("listen_tel")
    /\ mainPc' = "open_dev"
    /\ \/ lsock' = "listening"
       \/ "start_fails" \in Mishaps /\ lsock' = "failed"
    /\ UNCHANGED <<stop, chunk, dev, sem, listVars, bind, sshVars, telVars, cancelled, stage, got, joined, envVars>>

OpenDevice ==
    /\ At("open_dev")
    /\ \/ mainPc' = "start_ssh" /\ dev' = "open"
       \/ "start_fails" \in Mishaps /\ mainPc' = "failed" /\ UNCHANGED dev
    /\ UNCHANGED <<stop, chunk, sem, listVars, sockVars, sshVars, telVars, cancelled, stage, got, joined, envVars>>

(* CCList_init, sem_init and pthread_create of both threads. *)
StartSsh ==
    /\ At("start_ssh")
    /\ \/ mainPc' = "start_tel" /\ sshPc' = "new"
       \/ "start_fails" \in Mishaps /\ mainPc' = "failed" /\ UNCHANGED sshPc
    /\ UNCHANGED <<stop, chunk, dev, sem, listVars, sockVars, sshCli, sess, turn, telVars, cancelled, stage, got, joined, envVars>>

StartTelnet ==
    /\ At("start_tel")
    /\ \/ mainPc' = "loop" /\ telPc' = "accept"
       \/ "start_fails" \in Mishaps /\ mainPc' = "failed" /\ UNCHANGED telPc
    /\ UNCHANGED <<stop, chunk, dev, sem, listVars, sockVars, sshVars, telCli, try, cancelled, stage, got, joined, envVars>>

-----------------------------------------------------------------------------
(* Wrong variant: the loop never looks at mainStopFlag. *)
LoopTestIgnoresStop ==
    /\ At("loop")
    /\ mainPc' = "read"
    /\ UNCHANGED <<stop, chunk, dev, sem, listVars, sockVars, sshVars, telVars, cancelled, stage, got, joined, envVars>>

(* main: the relay loop. *)
LoopTest ==
    /\ At("loop")
    /\ mainPc' = IF stop THEN "close_dev" ELSE "read"
    /\ UNCHANGED <<stop, chunk, dev, sem, listVars, sockVars, sshVars, telVars, cancelled, stage, got, joined, envVars>>

(* Wrong variant: a quiet device skips the clients' turn. *)
ReadDeviceSkipsClients ==
    /\ At("read") /\ dev = "open"
    /\ \/ chunk < MaxChunks /\ chunk' = chunk + 1 /\ mainPc' = "send_wait"
       \/ mainPc' = "loop" /\ UNCHANGED chunk
    /\ UNCHANGED <<stop, dev, sem, listVars, sockVars, sshVars, telVars, cancelled, stage, got, joined, envVars>>

(* TdevChannel_recv: data, nothing within VTIME, or a device that is gone. *)
ReadDevice ==
    /\ At("read")
    /\ \/ /\ dev \in {"open", "stuck"} /\ chunk < MaxChunks
          /\ chunk' = chunk + 1
          /\ mainPc' = "send_wait"
          /\ UNCHANGED stop
       \/ /\ dev \in {"open", "stuck"}
          /\ mainPc' = "recv_wait"
          /\ UNCHANGED <<chunk, stop>>
       \/ /\ dev = "unplugged"
          /\ stop' = TRUE
          /\ mainPc' = "close_dev"
          /\ UNCHANGED chunk
    /\ UNCHANGED <<dev, sem, listVars, sockVars, sshVars, telVars, cancelled, stage, got, joined, envVars>>

(* sem_wait, then a batch operation starts at the head of the list. *)
LockAndBegin(pc, p) ==
    /\ At(pc)
    /\ sem = 1
    /\ sem' = 0
    /\ mainPc' = p
    /\ seen' = <<>>
    /\ todo' = seen
    /\ UNCHANGED <<stop, chunk, dev, sockVars, sshVars, telVars, cancelled, stage, got, joined, envVars>>

(* Wrong variant: the broadcast ends at the first client whose send fails. *)
SendVisitStopsAtError ==
    /\ At("send") /\ todo # <<>>
    /\ Head(todo) \notin stalled
    /\ IF Head(todo) \in gone
       THEN seen' = seen \o todo /\ todo' = <<>> /\ UNCHANGED got
       ELSE /\ got' = [got EXCEPT ![Head(todo)] = Append(@, chunk)]
            /\ seen' = Append(seen, Head(todo)) /\ todo' = Tail(todo)
    /\ UNCHANGED <<mainVars, sem, sockVars, sshVars, telVars, cancelled, stage, joined, envVars>>

(* ClientChannel_send: ssh_channel_write waits for a peer that stopped     *)
(* reading; a telnet socket is non-blocking and drops what does not fit.   *)
SendVisit ==
    /\ At("send") /\ todo # <<>>
    /\ LET c == Head(todo) IN
       /\ c \notin stalled
       /\ \/ got' = [got EXCEPT ![c] = Append(@, chunk)]
          \/ /\ c \in gone \/ (c \in TelnetClients /\ "full_buffer" \in Mishaps)
             /\ UNCHANGED got
       /\ seen' = Append(seen, c)
       /\ todo' = Tail(todo)
    /\ UNCHANGED <<mainVars, sem, sockVars, sshVars, telVars, cancelled, stage, joined, envVars>>

(* batchRecv on a channel that is whole: nothing was typed, or it goes to  *)
(* the device before the next client's turn.  _TBP_recv asks the socket    *)
(* again as long as it finds commands only: with a peer that sends nothing *)
(* else, and never stops, it does not return.                              *)
RecvKeep ==
    /\ At("recv") /\ todo # <<>>
    /\ Head(todo) \notin gone \cup chatty
    /\ seen' = Append(seen, Head(todo))
    /\ todo' = Tail(todo)
    /\ UNCHANGED <<mainVars, sem, sockVars, sshVars, telVars, cancelled, stage, got, joined, envVars>>

RecvTyped ==
    /\ At("recv") /\ todo # <<>>
    /\ Head(todo) \notin gone \cup chatty
    /\ seen' = Append(seen, Head(todo))
    /\ todo' = Tail(todo)
    /\ mainPc' = "write"
    /\ UNCHANGED <<stop, chunk, dev, sem, sockVars, sshVars, telVars, cancelled, stage, got, joined, envVars>>

(* TdevChannel_send: a write to the terminal, which waits for a device     *)
(* that takes nothing.  An error is ignored.                               *)
WriteDevice ==
    /\ At("write") /\ dev # "stuck"
    /\ mainPc' = "recv"
    /\ UNCHANGED <<stop, chunk, dev, sem, listVars, sockVars, sshVars, telVars, cancelled, stage, got, joined, envVars>>

(* batchRecv on a broken channel, finalize on any: ClientChannel_close. *)
DropVisit ==
    /\ todo # <<>>
    /\ \/ At("recv") /\ Head(todo) \in gone
       \/ At("final")
    /\ stage' = [stage EXCEPT ![Head(todo)] = "closed"]
    /\ todo' = Tail(todo)
    /\ UNCHANGED <<mainVars, sem, seen, sockVars, sshVars, telVars, cancelled, got, joined, envVars>>

(* Wrong variant: sem_post is missing after batchSend. *)
EndKeepsLock ==
    /\ ~died /\ mainPc \in Passes \ {"write"} /\ todo = <<>>
    /\ sem' = IF mainPc = "send" THEN sem ELSE sem + 1
    /\ mainPc' = CASE mainPc = "send"  -> "recv_wait"
                   [] mainPc = "recv"  -> "loop"
                   [] mainPc = "final" -> "free_ssh"
    /\ UNCHANGED <<stop, chunk, dev, listVars, sockVars, sshVars, telVars, cancelled, stage, got, joined, envVars>>

(* The pass is over: sem_post. *)
EndAndUnlock ==
    /\ ~died /\ mainPc \in Passes \ {"write"} /\ todo = <<>>
    /\ sem' = sem + 1
    /\ mainPc' = CASE mainPc = "send"  -> "recv_wait"
                   [] mainPc = "recv"  -> "loop"
                   [] mainPc = "final" -> "free_ssh"
    /\ UNCHANGED <<stop, chunk, dev, listVars, sockVars, sshVars, telVars, cancelled, stage, got, joined, envVars>>

-----------------------------------------------------------------------------
(* main: shutdown, in the order of the code. *)
CloseDevice ==
    /\ At("close_dev")
    /\ mainPc' = "final_wait"
    /\ dev' = "closed"
    /\ UNCHANGED <<stop, chunk, sem, listVars, sockVars, sshVars, telVars, cancelled, stage, got, joined, envVars>>

FinalizeSshAcception ==
    /\ At("free_ssh")
    /\ mainPc' = "close_tel"
    /\ bind' = "freed"
    /\ UNCHANGED <<stop, chunk, dev, sem, listVars, lsock, sshVars, telVars, cancelled, stage, got, joined, envVars>>

(* close() does not end an accept that is blocked on the socket: the kernel *)
(* keeps it for that one call.                                             *)
FinalizeTelnetAcception ==
    /\ At("close_tel")
    /\ mainPc' = "cancel_ssh"
    /\ \/ lsock' = "closed"
       \/ lsock = "listening" /\ telPc = "accept" /\ lsock' = "held"
    /\ UNCHANGED <<stop, chunk, dev, sem, listVars, bind, sshVars, telVars, cancelled, stage, got, joined, envVars>>

Cancel(pc, thread, nextPc) ==
    /\ At(pc)
    /\ mainPc' = nextPc
    /\ cancelled' = cancelled \cup {thread}
    /\ UNCHANGED <<stop, chunk, dev, sem, listVars, sockVars, sshVars, telVars, stage, got, joined, envVars>>

Join(pc, threadPc, nextPc) ==
    /\ At(pc)
    /\ threadPc = "cancelled"
    /\ mainPc' = nextPc
    /\ UNCHANGED <<stop, chunk, dev, sem, listVars, sockVars, sshVars, telVars, cancelled, stage, got, joined, envVars>>

MainStart == ListenSsh \/ ListenTelnet \/ OpenDevice \/ StartSsh \/ StartTelnet
MainLock ==
    \/ LockAndBegin("send_wait", "send")
    \/ LockAndBegin("recv_wait", "recv")
    \/ LockAndBegin("final_wait", "final")
MainStep ==
    \/ LoopTest \/ ReadDevice
    \/ SendVisit \/ RecvKeep \/ RecvTyped \/ WriteDevice \/ DropVisit \/ EndAndUnlock
    \/ CloseDevice \/ FinalizeSshAcception \/ FinalizeTelnetAcception
    \/ Cancel("cancel_ssh", "ssh", "join_ssh") \/ Join("join_ssh", sshPc, "cancel_tel")
    \/ Cancel("cancel_tel", "tel", "join_tel") \/ Join("join_tel", telPc, "done")

-----------------------------------------------------------------------------
(* trSshAcceptor *)
SshUnchanged == UNCHANGED <<mainVars, sem, listVars, sockVars, telVars, cancelled, got, joined, envVars>>

(* ssh_new; the cleanup handler that frees the session is pushed. *)
SshNew ==
    /\ Up /\ sshPc = "new"
    /\ sshPc' = "accept"
    /\ sess' = "blank"
    /\ sshCli' = NoClient
    /\ UNCHANGED <<turn, stage>> /\ SshUnchanged

SshAccept(c) ==
    /\ Up /\ sshPc = "accept" /\ bind = "listening"
    /\ stage[c] = "queued"
    /\ sshPc' = "kex"
    /\ sess' = "bound"
    /\ sshCli' = c
    /\ stage' = [stage EXCEPT ![c] = "accepted"]
    /\ UNCHANGED turn /\ SshUnchanged

(* ssh_bind_accept fails, as it may on a bind object that was freed.  The  *)
(* `continue' stands inside pthread_cleanup_push, a do-while(0), and only  *)
(* leaves that: the freed session goes on to the key exchange.             *)
SshAcceptError ==
    /\ Up /\ sshPc = "accept"
    /\ "accept_error" \in Mishaps \/ bind = "freed"
    /\ sshPc' = "kex"
    /\ sess' = "freed"
    /\ UNCHANGED <<sshCli, turn, stage>> /\ SshUnchanged

(* Wrong variant: authenticated is not reset at the start of the turn. *)
SshKexOkKeepsFlag ==
    /\ Up /\ sshPc = "kex" /\ sess = "bound" /\ sshCli \notin gone
    /\ sshPc' = "auth"
    /\ stage' = [stage EXCEPT ![sshCli] = "keyed"]
    /\ UNCHANGED <<sshCli, sess, turn>> /\ SshUnchanged

(* ssh_handle_key_exchange *)
SshKexOk ==
    /\ Up /\ sshPc = "kex" /\ sess = "bound" /\ sshCli \notin gone
    /\ sshPc' = "auth"
    /\ authenticated' = FALSE
    /\ stage' = [stage EXCEPT ![sshCli] = "keyed"]
    /\ UNCHANGED <<sshCli, sess, chanNewb, shellRequested>> /\ SshUnchanged

(* ssh_disconnect, ssh_free, continue: the next turn. *)
SshRefuse ==
    /\ sshPc' = "new"
    /\ sess' = "none"
    /\ stage' = [stage EXCEPT ![sshCli] = "refused"]
    /\ UNCHANGED sshCli

SshKexFail ==
    /\ Up /\ sshPc = "kex" /\ sess = "bound"
    /\ SshRefuse
    /\ UNCHANGED turn /\ SshUnchanged

(* Key exchange, ssh_disconnect and ssh_free with the freed session: the   *)
(* process dies, or the thread gets to its next turn.                      *)
SshUseFreedSession ==
    /\ Up /\ sshPc = "kex" /\ sess = "freed"
    /\ \/ died' = TRUE /\ UNCHANGED <<sshPc, sess>>
       \/ sshPc' = "new" /\ sess' = "none" /\ UNCHANGED died
    /\ UNCHANGED <<sshCli, turn, stage, mainVars>>
    /\ UNCHANGED <<sem, listVars, sockVars, telVars, cancelled, got, joined, gone, stalled, chatty>>

(* ssh_bind_accept with the freed bind object may also kill the process. *)
SshUseFreedBind ==
    /\ Up /\ sshPc = "accept" /\ bind = "freed"
    /\ died' = TRUE
    /\ UNCHANGED <<mainVars, sem, listVars, sockVars, sshVars, telVars, cancelled, stage, got, joined, gone, stalled, chatty>>

(* One message of the authentication loop.  Only a valid password sets the *)
(* flag; the loop goes on while it is not set.                             *)
SshAuthMessage ==
    /\ Up /\ sshPc = "auth"
    /\ sshCli \notin gone
    /\ \E valid \in BOOLEAN :
        /\ valid => sshCli \in Legit
        /\ authenticated' = (authenticated \/ valid)
        /\ stage' = IF valid THEN [stage EXCEPT ![sshCli] = "authed"] ELSE stage
    /\ sshPc' = IF authenticated' THEN "chan" ELSE "auth"
    /\ chanNewb' = IF authenticated' THEN FALSE ELSE chanNewb
    /\ UNCHANGED <<sshCli, sess, shellRequested>> /\ SshUnchanged

(* One message of the loop that waits for a session channel. *)
SshChanMessage ==
    /\ Up /\ sshPc = "chan"
    /\ sshCli \notin gone
    /\ \E opens \in BOOLEAN :
        /\ chanNewb' = (chanNewb \/ opens)
        /\ stage' = IF opens /\ stage[sshCli] = "authed"
                    THEN [stage EXCEPT ![sshCli] = "opened"] ELSE stage
    /\ sshPc' = IF chanNewb' THEN "shell" ELSE "chan"
    /\ shellRequested' = IF chanNewb' THEN FALSE ELSE shellRequested
    /\ UNCHANGED <<sshCli, sess, authenticated>> /\ SshUnchanged

(* One message of the loop that waits for the shell request. *)
SshShellMessage ==
    /\ Up /\ sshPc = "shell"
    /\ sshCli \notin gone
    /\ \E asks \in BOOLEAN :
        /\ shellRequested' = (shellRequested \/ asks)
        /\ stage' = IF asks /\ stage[sshCli] = "opened"
                    THEN [stage EXCEPT ![sshCli] = "shell"] ELSE stage
    /\ sshPc' = IF shellRequested' THEN "wait" ELSE "shell"
    /\ UNCHANGED <<sshCli, sess, authenticated, chanNewb>> /\ SshUnchanged

(* ssh_message_get returns NULL: the loop breaks with its flag still unset. *)
SshNoMessage ==
    /\ Up /\ sshPc \in {"auth", "chan", "shell"}
    /\ SshRefuse
    /\ UNCHANGED turn /\ SshUnchanged

(* sem_wait, then CCList_addNewFromSSH and sem_post. *)
SshLock ==
    /\ Up /\ sshPc = "wait"
    /\ sem = 1
    /\ sem' = 0
    /\ sshPc' = "reg"
    /\ UNCHANGED <<sshCli, sess, turn, stage>>
    /\ UNCHANGED <<mainVars, listVars, sockVars, telVars, cancelled, got, joined, envVars>>

(* The chunks whose broadcast is over. *)
Broadcast == IF mainPc \in {"send_wait", "send"} THEN chunk - 1 ELSE chunk

(* A new client goes to the end of the list, whatever runs over it. *)
AddToList(c) ==
    /\ IF mainPc \in Passes
       THEN todo' = Append(todo, c) /\ UNCHANGED seen
       ELSE seen' = Append(seen, c) /\ UNCHANGED todo
    /\ joined' = [joined EXCEPT ![c] = Broadcast]

SshRegister ==
    /\ Up /\ sshPc = "reg"
    /\ AddToList(sshCli)
    /\ sem' = sem + 1
    /\ sshPc' = "new"
    /\ UNCHANGED <<sshCli, sess, turn, stage>>
    /\ UNCHANGED <<mainVars, sockVars, telVars, cancelled, got, envVars>>

(* Wrong variant: asynchronous cancellation, also inside the critical section. *)
SshCancelledAnywhere ==
    /\ Up /\ "ssh" \in cancelled
    /\ sshPc \in {"accept", "kex", "auth", "chan", "shell", "wait", "reg"}
    /\ sshPc' = "cancelled"
    /\ sess' = IF sshPc = "accept" THEN "none" ELSE sess
    /\ stage' = IF sess = "bound" THEN [stage EXCEPT ![sshCli] = "abandoned"] ELSE stage
    /\ UNCHANGED <<sshCli, turn>> /\ SshUnchanged

(* The thread acts on pthread_cancel in a blocking call.  Within           *)
(* ssh_bind_accept the cleanup handler frees the blank session; later the  *)
(* connection is left behind.  Between sem_wait and sem_post nothing       *)
(* blocks, so the semaphore is never lost.                                 *)
SshCancelled ==
    /\ Up /\ "ssh" \in cancelled
    /\ sshPc \in {"accept", "kex", "auth", "chan", "shell", "wait"}
    /\ sshPc' = "cancelled"
    /\ sess' = IF sshPc = "accept" THEN "none" ELSE sess
    /\ stage' = IF sess = "bound" THEN [stage EXCEPT ![sshCli] = "abandoned"] ELSE stage
    /\ UNCHANGED <<sshCli, turn>> /\ SshUnchanged

SshStep ==
    \/ SshNew \/ SshAcceptError \/ SshKexOk \/ SshKexFail
    \/ SshUseFreedSession \/ SshUseFreedBind
    \/ SshAuthMessage \/ SshChanMessage \/ SshShellMessage \/ SshNoMessage
    \/ SshLock \/ SshRegister \/ SshCancelled
    \/ \E c \in SshClients : SshAccept(c)

-----------------------------------------------------------------------------
(* trTelnetAcceptor.  An accept that fails is tried again at once and      *)
(* changes nothing.                                                        *)
TelUnchanged == UNCHANGED <<mainVars, sockVars, sshVars, cancelled, got, envVars>>

TelAccept(c) ==
    /\ Up /\ telPc = "accept" /\ lsock \in {"listening", "held"}
    /\ lsock' = IF lsock = "held" THEN "closed" ELSE lsock
    /\ stage[c] = "queued"
    /\ telPc' = "auth"
    /\ telCli' = c
    /\ try' = 0
    /\ stage' = [stage EXCEPT ![c] = "accepted"]
    /\ UNCHANGED <<mainVars, sem, listVars, bind, sshVars, cancelled, got, joined, envVars>>

(* Wrong variant: the login loop does not count its turns. *)
TelTryForever ==
    /\ Up /\ telPc = "auth" /\ telCli \notin gone
    /\ \/ /\ telCli \in Legit
          /\ telPc' = "wait"
          /\ stage' = [stage EXCEPT ![telCli] = "shell"]
          /\ UNCHANGED try
       \/ try' = try + 1 /\ UNCHANGED <<telPc, stage>>
    /\ UNCHANGED <<telCli, sem, listVars, joined>> /\ TelUnchanged

(* One turn of the login loop that ends in isAccountValid or in an empty   *)
(* name; the client is not kept after MAX_TRY failures.                    *)
TelTry ==
    /\ Up /\ telPc = "auth" /\ telCli \notin gone
    /\ \/ /\ telCli \in Legit
          /\ telPc' = "wait"
          /\ stage' = [stage EXCEPT ![telCli] = "shell"]
          /\ UNCHANGED <<telCli, try>>
       \/ /\ try + 1 < MaxTry
          /\ try' = try + 1
          /\ UNCHANGED <<telPc, telCli, stage>>
       \/ /\ try + 1 = MaxTry
          /\ telPc' = "accept" /\ telCli' = NoClient /\ try' = 0
          /\ stage' = [stage EXCEPT ![telCli] = "refused"]
    /\ UNCHANGED <<sem, listVars, joined>> /\ TelUnchanged

(* Wrong variant: the acceptor forgets close(clientsockNewb). *)
TelPeerLostLeaks ==
    /\ Up /\ telPc = "auth" /\ telCli \in gone
    /\ telPc' = "accept" /\ telCli' = NoClient /\ try' = 0
    /\ UNCHANGED <<stage, sem, listVars, joined>> /\ TelUnchanged

(* _TBP_recv returns 0 or less: the login ends, close(clientsockNewb). *)
TelPeerLost ==
    /\ Up /\ telPc = "auth" /\ telCli \in gone
    /\ telPc' = "accept" /\ telCli' = NoClient /\ try' = 0
    /\ stage' = [stage EXCEPT ![telCli] = "refused"]
    /\ UNCHANGED <<sem, listVars, joined>> /\ TelUnchanged

(* Wrong variant: no sem_wait before the registration. *)
TelLockUnguarded ==
    /\ Up /\ telPc = "wait"
    /\ sem' = 0
    /\ telPc' = "reg"
    /\ UNCHANGED <<telCli, try, stage, listVars, joined>> /\ TelUnchanged

(* sem_wait, then CCList_addNewFromTelnet and sem_post. *)
TelLock ==
    /\ Up /\ telPc = "wait"
    /\ sem = 1
    /\ sem' = 0
    /\ telPc' = "reg"
    /\ UNCHANGED <<telCli, try, stage, listVars, joined>> /\ TelUnchanged

TelRegister ==
    /\ Up /\ telPc = "reg"
    /\ AddToList(telCli)
    /\ sem' = sem + 1
    /\ telPc' = "accept" /\ telCli' = NoClient /\ try' = 0
    /\ UNCHANGED stage /\ TelUnchanged

TelCancelled ==
    /\ Up /\ "tel" \in cancelled
    /\ telPc \in {"accept", "auth", "wait"}
    /\ telPc' = "cancelled"
    /\ stage' = IF telPc = "accept" THEN stage ELSE [stage EXCEPT ![telCli] = "abandoned"]
    /\ UNCHANGED <<telCli, try, sem, listVars, joined>> /\ TelUnchanged

TelStep ==
    \/ TelTry \/ TelPeerLost \/ TelLock \/ TelRegister \/ TelCancelled
    \/ \E c \in TelnetClients : TelAccept(c)

-----------------------------------------------------------------------------
(* The environment.  A listening socket completes connections by itself.   *)
Connect(c) ==
    /\ Up /\ stage[c] = "idle"
    /\ IF c \in SshClients THEN bind = "listening" ELSE lsock \in {"listening", "held"}
    /\ stage' = [stage EXCEPT ![c] = "queued"]
    /\ UNCHANGED <<mainVars, sem, listVars, sockVars, sshVars, telVars, cancelled, got, joined, envVars>>

HangUp(c) ==
    /\ Up /\ stage[c] \in Open
    /\ gone' = gone \cup {c}
    /\ stalled' = stalled \ {c} /\ chatty' = chatty \ {c}
    /\ UNCHANGED <<mainVars, sem, listVars, sockVars, sshVars, telVars, cancelled, stage, got, joined, died>>

(* An SSH peer stops reading for good: its window fills and                *)
(* ssh_channel_write waits for it.                                         *)
Stall(c) ==
    /\ Up /\ "slow_reader" \in Mishaps /\ c \in Listed \ gone
    /\ stalled' = stalled \cup {c}
    /\ UNCHANGED <<mainVars, sem, listVars, sockVars, sshVars, telVars, cancelled, stage, got, joined, gone, chatty, died>>

(* A telnet peer sends commands only, and faster than they are read, for   *)
(* good.                                                                   *)
Chatter(c) ==
    /\ Up /\ "chatter" \in Mishaps /\ c \in Listed \ gone
    /\ chatty' = chatty \cup {c}
    /\ UNCHANGED <<mainVars, sem, listVars, sockVars, sshVars, telVars, cancelled, stage, got, joined, gone, stalled, died>>

(* The device takes no more of what is written to it (flow control), for   *)
(* good; it may go on sending.                                             *)
DeviceSticks ==
    /\ Up /\ "device_stuck" \in Mishaps /\ dev = "open"
    /\ dev' = "stuck"
    /\ UNCHANGED <<mainPc, stop, chunk, sem, listVars, sockVars, sshVars, telVars, cancelled, stage, got, joined, envVars>>

Unplug ==
    /\ Up /\ dev \in {"open", "stuck"}
    /\ dev' = "unplugged"
    /\ UNCHANGED <<mainPc, stop, chunk, sem, listVars, sockVars, sshVars, telVars, cancelled, stage, got, joined, envVars>>

(* sigintHandlerToStop is installed just before the loop is entered; until *)
(* then SIGINT kills the process.                                          *)
Sigint ==
    /\ Up
    /\ IF mainPc \in Starting
       THEN died' = TRUE /\ UNCHANGED stop
       ELSE stop' = TRUE /\ UNCHANGED died
    /\ UNCHANGED <<mainPc, chunk, dev, sem, listVars, sockVars, sshVars, telVars, cancelled, stage, got, joined, gone, stalled, chatty>>

(* send() to a telnet peer that reset the connection raises SIGPIPE, which *)
(* nothing handles.                                                        *)
Sigpipe ==
    /\ Up /\ "sigpipe" \in Mishaps
    /\ \/ telPc = "auth" /\ telCli \in gone
       \/ mainPc = "send" /\ todo # <<>> /\ Head(todo) \in TelnetClients \cap gone
    /\ died' = TRUE
    /\ UNCHANGED <<mainVars, sem, listVars, sockVars, sshVars, telVars, cancelled, stage, got, joined, gone, stalled, chatty>>

Environment ==
    \/ \E c \in Clients : Connect(c) \/ HangUp(c)
    \/ \E c \in SshClients : Stall(c)
    \/ \E c \in TelnetClients : Chatter(c)
    \/ DeviceSticks \/ Unplug \/ Sigint \/ Sigpipe

Next == MainStart \/ MainLock \/ MainStep \/ SshStep \/ TelStep \/ Environment

(* The scheduler lets every runnable thread run.  A semaphore is given to  *)
(* a waiter that finds it free again and again: between two passes of the  *)
(* main routine lies the read of the device, which waits up to VTIME       *)
(* outside the critical section.  A pending cancellation is acted on in    *)
(* the next blocking call.  Peers, the device and the user owe nothing.    *)
Fairness ==
    /\ WF_vars(MainStart \/ MainStep) /\ SF_vars(MainLock)
    /\ WF_vars(SshNew \/ SshRegister) /\ SF_vars(SshLock) /\ SF_vars(SshCancelled)
    /\ WF_vars(TelRegister) /\ SF_vars(TelLock) /\ SF_vars(TelCancelled)

Spec == Init /\ [][Next]_vars
FairSpec == Spec /\ Fairness

-----------------------------------------------------------------------------
(* Threads inside the critical sections of mutex_cclist. *)
MainInside == mainPc \in Passes
SshInside == sshPc = "reg"
TelInside == telPc = "reg"

(* No two threads touch the client list at once, and the semaphore is free *)
(* exactly when no thread is inside: no sem_post is missing or doubled,    *)
(* also when a thread is cancelled while it waits.                         *)
MutualExclusion ==
    /\ ~(MainInside /\ SshInside) /\ ~(MainInside /\ TelInside) /\ ~(SshInside /\ TelInside)
    /\ sem = IF MainInside \/ SshInside \/ TelInside THEN 0 ELSE 1

(* Only a client that gave the right account, and over SSH then opened a   *)
(* session channel and asked for a shell on this very connection, gets on  *)
(* the list: the acceptors' locals never carry over from an earlier turn.  *)
ListedAreAuthorised == \A c \in Listed : c \in Legit /\ stage[c] = "shell"

SshHolds(c) == sshPc \in {"kex", "auth", "chan", "shell", "wait", "reg"} /\ sess = "bound" /\ sshCli = c
TelHolds(c) == telPc \in {"auth", "wait", "reg"} /\ telCli = c

(* Every accepted connection that is open has exactly one owner, an        *)
(* acceptor or one place in the list, so none is leaked and none is closed *)
(* twice; only cancelling an acceptor leaves a connection without owner.   *)
OneOwner ==
    /\ Len(seen) + Len(todo) = Cardinality(Listed)
    /\ \A c \in Clients :
        /\ stage[c] \in Open <=> (SshHolds(c) \/ TelHolds(c) \/ c \in Listed)
        /\ c \in Listed => ~SshHolds(c) /\ ~TelHolds(c)
        /\ stage[c] = "abandoned" => cancelled # {}

(* The chunks a listed client should have by now: in the middle of a       *)
(* broadcast, who had its turn is one ahead.                               *)
Due(c) == IF mainPc = "send" /\ c \in Elems(seen) THEN chunk ELSE Broadcast
FromRegistration(c) == [k \in 1..Due(c) - joined[c] |-> joined[c] + k]

(* An SSH client has received every chunk the device sent from its         *)
(* registration on, none earlier, none twice and in order, unless it hung  *)
(* up; any other client has some of these, in order.                       *)
DeviceStream ==
    \A c \in Listed :
        LET s == got[c] IN
        /\ \A i \in DOMAIN s : joined[c] < s[i] /\ s[i] <= Due(c)
        /\ \A i, j \in DOMAIN s : i < j => s[i] < s[j]
        /\ c \in SshClients \ gone => s = FromRegistration(c)

Roster == INSTANCE ClientRoster WITH
    pass <- IF mainPc = "write" THEN "recv" ELSE IF MainInside THEN mainPc ELSE "none",
    closed <- Closed

(* Under the semaphore, registrations and passes follow one another as in  *)
(* ClientRoster: no client is added in the middle of a pass.               *)
ImplementsRoster == Roster!Spec

(* A peer or the device holds the main routine inside the critical         *)
(* section: a client that stopped reading in ssh_channel_write, a telnet   *)
(* peer that sends commands only in _TBP_recv, a device that takes no more *)
(* data in write.                                                          *)
HeldByPeer == mainPc = "send" /\ todo # <<>> /\ Head(todo) \in stalled
HeldByDevice == mainPc = "write" /\ dev = "stuck"
HeldByChatter == mainPc = "recv" /\ todo # <<>> /\ Head(todo) \in chatty
Held == HeldByPeer \/ HeldByChatter \/ HeldByDevice

(* SIGINT, or the loss of the device, ends the process, unless one of these *)
(* three holds it.                                                         *)
StopEndsUnlessHeld == stop ~> (~Up \/ Held)

(* A listed client whose peer hung up is removed, unless the process ends  *)
(* or is held.                                                             *)
BrokenIsRemoved ==
    \A c \in Clients : (c \in Listed /\ c \in gone) ~> (c \notin Listed \/ ~Up \/ Held)

(* A client that passed its login is registered, or the shutdown takes it: *)
(* the semaphore is lost to nobody but one who is held.                    *)
LoginIsServed ==
    /\ (sshPc = "wait") ~> (sshPc \in {"reg", "cancelled"} \/ ~Up \/ Held)
    /\ (telPc = "wait") ~> (telPc \in {"reg", "cancelled"} \/ ~Up \/ Held)

(* What main prints and does at its end: all client channels are closed. *)
AllClosedAtExit == mainPc = "done" => Listed = {}
=============================================================================
