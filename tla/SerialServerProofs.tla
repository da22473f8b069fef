------------------------- MODULE SerialServerProofs --------------------------
(***************************************************************************)
(* Theorems about SerialServer, for any clients, attempts, chunks and      *)
(* mishaps: the semaphore excludes (ListIsExclusive), every variable keeps *)
(* its type (ServerTypeOK), whoever is listed was authorised               *)
(* (OnlyAuthorised), every open connection has one owner (OwnersAreUnique),*)
(* the list is a ClientRoster (ServerImplementsRoster), and every listed   *)
(* SSH client that did not hang up gets each chunk of the device from its  *)
(* registration on, once and in order (StreamIsWhole).                     *)
(***************************************************************************)
EXTENDS SerialServer, SequenceTheorems, FunctionTheorems, FiniteSetTheorems, TLAPS

-----------------------------------------------------------------------------
(* Mutual exclusion is inductive, for the semaphore's value is tied to the *)
(* program counters, once it is known that main starts each acceptor only  *)
(* once.                                                                   *)
NotStarted ==
    /\ mainPc \in {"listen_ssh", "listen_tel", "open_dev", "start_ssh"} => sshPc = "none"
    /\ mainPc \in Starting => telPc = "none"

Exclusion == MutualExclusion /\ NotStarted

LEMMA ExclusionInit == Init => Exclusion
  BY DEF Init, Exclusion, NotStarted, MutualExclusion, MainInside, SshInside, TelInside, Passes

LEMMA ExclusionStep == Exclusion /\ [Next]_vars => Exclusion'
  <1> SUFFICES ASSUME Exclusion, [Next]_vars PROVE Exclusion'
    OBVIOUS
  <1> USE DEF Exclusion, NotStarted, Starting, MutualExclusion, MainInside, SshInside, TelInside, Passes
  <1>1. CASE MainStart
    <2> USE DEF At, sshVars, telVars
    <2>1. CASE ListenSsh
      BY <2>1 DEF ListenSsh
    <2>2. CASE ListenTelnet
      BY <2>2 DEF ListenTelnet
    <2>3. CASE OpenDevice
      BY <2>3 DEF OpenDevice
    <2>4. CASE StartSsh
      BY <2>4 DEF StartSsh
    <2>5. CASE StartTelnet
      BY <2>5 DEF StartTelnet
    <2> QED
      BY <1>1, <2>1, <2>2, <2>3, <2>4, <2>5 DEF MainStart
  <1>2. CASE MainLock
    BY <1>2 DEF MainLock, LockAndBegin, At, sshVars, telVars
  <1>3. CASE MainStep
    <2>1. CASE LoopTest \/ ReadDevice
      BY <2>1 DEF LoopTest, ReadDevice, At, sshVars, telVars
    <2>2. CASE SendVisit \/ RecvKeep \/ RecvTyped \/ WriteDevice \/ DropVisit
      BY <2>2 DEF SendVisit, RecvKeep, RecvTyped, WriteDevice, DropVisit, At, mainVars, sshVars, telVars
    <2>3. CASE EndAndUnlock
      BY <2>3 DEF EndAndUnlock, sshVars, telVars
    <2>4. CASE CloseDevice \/ FinalizeSshAcception \/ FinalizeTelnetAcception
      BY <2>4 DEF CloseDevice, FinalizeSshAcception, FinalizeTelnetAcception, At, sshVars, telVars
    <2>5. CASE Cancel("cancel_ssh", "ssh", "join_ssh") \/ Cancel("cancel_tel", "tel", "join_tel")
      BY <2>5 DEF Cancel, At, sshVars, telVars
    <2>6. CASE Join("join_ssh", sshPc, "cancel_tel") \/ Join("join_tel", telPc, "done")
      BY <2>6 DEF Join, At, sshVars, telVars
    <2> QED
      BY <1>3, <2>1, <2>2, <2>3, <2>4, <2>5, <2>6 DEF MainStep
  <1>4. CASE SshStep
    <2> USE DEF mainVars, telVars, SshUnchanged
    <2>1. CASE SshNew \/ SshAcceptError \/ SshKexOk \/ SshKexFail \/ SshNoMessage
      BY <2>1 DEF SshNew, SshAcceptError, SshKexOk, SshKexFail, SshNoMessage, SshRefuse
    <2>2. CASE SshUseFreedSession \/ SshUseFreedBind
      BY <2>2 DEF SshUseFreedSession, SshUseFreedBind, sshVars
    <2>3. CASE SshAuthMessage \/ SshChanMessage \/ SshShellMessage
      BY <2>3 DEF SshAuthMessage, SshChanMessage, SshShellMessage
    <2>4. CASE SshLock
      BY <2>4 DEF SshLock
    <2>5. CASE SshRegister
      BY <2>5 DEF SshRegister
    <2>6. CASE SshCancelled
      BY <2>6 DEF SshCancelled
    <2>7. ASSUME NEW c \in SshClients, SshAccept(c) PROVE Exclusion'
      BY <2>7 DEF SshAccept
    <2> QED
      BY <1>4, <2>1, <2>2, <2>3, <2>4, <2>5, <2>6, <2>7 DEF SshStep
  <1>5. CASE TelStep
    <2> USE DEF mainVars, sshVars, TelUnchanged
    <2>1. CASE TelTry \/ TelPeerLost
      BY <2>1 DEF TelTry, TelPeerLost
    <2>2. CASE TelLock
      BY <2>2 DEF TelLock
    <2>3. CASE TelRegister
      BY <2>3 DEF TelRegister
    <2>4. CASE TelCancelled
      BY <2>4 DEF TelCancelled
    <2>5. ASSUME NEW c \in TelnetClients, TelAccept(c) PROVE Exclusion'
      BY <2>5 DEF TelAccept
    <2> QED
      BY <1>5, <2>1, <2>2, <2>3, <2>4, <2>5 DEF TelStep
  <1>6. CASE Environment
    <2> USE DEF mainVars, sshVars, telVars
    <2>1. ASSUME NEW c, Connect(c) \/ HangUp(c) \/ Stall(c) \/ Chatter(c) PROVE Exclusion'
      BY <2>1 DEF Connect, HangUp, Stall, Chatter
    <2>2. CASE DeviceSticks \/ Unplug \/ Sigint \/ Sigpipe
      BY <2>2 DEF DeviceSticks, Unplug, Sigint, Sigpipe
    <2> QED
      BY <1>6, <2>1, <2>2 DEF Environment
  <1>7. CASE UNCHANGED vars
    BY <1>7 DEF vars, mainVars, sshVars, telVars
  <1> QED
    BY <1>1, <1>2, <1>3, <1>4, <1>5, <1>6, <1>7 DEF Next

(* mutex_cclist: no two of the three threads are in a critical section     *)
(* together, and the semaphore is free exactly when none is, also while    *)
(* the acceptors are cancelled.                                            *)
THEOREM ListIsExclusive == Spec => []MutualExclusion
  <1>1. Exclusion => MutualExclusion
    BY DEF Exclusion
  <1> QED
    BY <1>1, ExclusionInit, ExclusionStep, PTL DEF Spec

-----------------------------------------------------------------------------
(* Types, by the part of the program that owns the variables.  They are    *)
(* inductive with two facts more: an acceptor that is past accept holds a  *)
(* client of its kind, and a chunk was read before it is sent.  The        *)
(* semaphore's type follows from mutual exclusion.                         *)
MainTyped ==
    /\ mainPc \in Starting \cup Running \cup Stopping \cup Ended
    /\ stop \in BOOLEAN
    /\ chunk \in 0..MaxChunks
    /\ dev \in {"none", "open", "stuck", "unplugged", "closed"}
    /\ mainPc \in {"send_wait", "send"} => chunk # 0

ListTyped == seen \in Seq(Clients) /\ todo \in Seq(Clients)

SockTyped ==
    /\ bind \in {"none", "listening", "freed"}
    /\ lsock \in {"none", "listening", "failed", "held", "closed"}

SshTyped ==
    /\ sshPc \in {"none", "new", "accept", "kex", "auth", "chan", "shell", "wait", "reg", "cancelled"}
    /\ sshCli \in SshClients \cup {NoClient}
    /\ sess \in {"none", "blank", "bound", "freed"}
    /\ authenticated \in BOOLEAN /\ chanNewb \in BOOLEAN /\ shellRequested \in BOOLEAN
    /\ sess = "bound" => sshCli \in SshClients
    /\ sshPc \in {"auth", "chan", "shell", "wait", "reg"} => sess = "bound"

TelTyped ==
    /\ telPc \in {"none", "accept", "auth", "wait", "reg", "cancelled"}
    /\ telCli \in TelnetClients \cup {NoClient}
    /\ try \in 0..MaxTry
    /\ telPc \in {"auth", "wait", "reg"} => telCli \in TelnetClients

Stages == Open \cup {"idle", "queued", "refused", "closed", "abandoned"}
StageTyped == stage \in [Clients -> Stages]

GotTyped ==
    /\ got \in [Clients -> Seq(1..MaxChunks)]
    /\ joined \in [Clients -> 0..MaxChunks]

EnvTyped ==
    /\ gone \subseteq Clients
    /\ stalled \subseteq SshClients
    /\ chatty \subseteq TelnetClients
    /\ died \in BOOLEAN

CancelledTyped == cancelled \subseteq {"ssh", "tel"}

Typed ==
    /\ MainTyped /\ ListTyped /\ SockTyped /\ SshTyped /\ TelTyped
    /\ StageTyped /\ GotTyped /\ EnvTyped /\ CancelledTyped

LEMMA TypedGivesTypeOK == Typed /\ MutualExclusion => TypeOK
  <1> SUFFICES ASSUME Typed, MutualExclusion PROVE TypeOK
    OBVIOUS
  <1>1. sem \in {0, 1}
    BY DEF MutualExclusion
  <1> QED
    BY <1>1 DEF Typed, MainTyped, ListTyped, SockTyped, SshTyped, TelTyped, StageTyped, Stages,
                GotTyped, EnvTyped, CancelledTyped, TypeOK

LEMMA TypedInit == Init => Typed
  <1> SUFFICES ASSUME Init PROVE Typed
    OBVIOUS
  <1>1. MainTyped
    <2>1. MaxChunks \in Nat /\ 0 \in 0..MaxChunks
      BY BoundsAssumption
    <2>2. mainPc = "listen_ssh" /\ stop = FALSE /\ chunk = 0 /\ dev = "none"
      BY DEF Init
    <2> QED
      BY <2>1, <2>2 DEF MainTyped, Starting
  <1>2. ListTyped
    BY EmptySeq DEF Init, ListTyped
  <1>3. SockTyped /\ EnvTyped /\ CancelledTyped
    BY DEF Init, SockTyped, EnvTyped, CancelledTyped
  <1>4. SshTyped
    BY DEF Init, SshTyped
  <1>5. TelTyped
    BY BoundsAssumption DEF Init, TelTyped
  <1>6. StageTyped
    BY DEF Init, StageTyped, Stages
  <1>7. GotTyped
    <2>1. <<>> \in Seq(1..MaxChunks) /\ 0 \in 0..MaxChunks
      BY EmptySeq, BoundsAssumption
    <2> QED
      BY <2>1 DEF Init, GotTyped
  <1> QED
    BY <1>1, <1>2, <1>3, <1>4, <1>5, <1>6, <1>7 DEF Typed

(* What a step leaves alone keeps its type. *)
LEMMA KeptTypes ==
    ASSUME Typed
    PROVE  /\ UNCHANGED mainVars => MainTyped'
           /\ UNCHANGED listVars => ListTyped'
           /\ UNCHANGED sockVars => SockTyped'
           /\ UNCHANGED sshVars => SshTyped'
           /\ UNCHANGED telVars => TelTyped'
           /\ UNCHANGED stage => StageTyped'
           /\ UNCHANGED <<got, joined>> => GotTyped'
           /\ UNCHANGED envVars => EnvTyped'
           /\ UNCHANGED cancelled => CancelledTyped'
  <1> USE DEF Typed
  <1>1. UNCHANGED mainVars => MainTyped'
    BY DEF mainVars, MainTyped
  <1>2. UNCHANGED listVars => ListTyped'
    BY DEF listVars, ListTyped
  <1>3. UNCHANGED sockVars => SockTyped'
    BY DEF sockVars, SockTyped
  <1>4. UNCHANGED sshVars => SshTyped'
    BY DEF sshVars, turn, SshTyped
  <1>5. UNCHANGED telVars => TelTyped'
    BY DEF telVars, TelTyped
  <1>6. UNCHANGED stage => StageTyped'
    BY DEF StageTyped
  <1>7. UNCHANGED <<got, joined>> => GotTyped'
    BY DEF GotTyped
  <1>8. UNCHANGED envVars => EnvTyped'
    BY DEF envVars, EnvTyped
  <1>9. UNCHANGED cancelled => CancelledTyped'
    BY DEF CancelledTyped
  <1> QED
    BY <1>1, <1>2, <1>3, <1>4, <1>5, <1>6, <1>7, <1>8, <1>9

(* The data that steps change: a stage, a place in the list. *)
LEMMA StageSet ==
    ASSUME Typed, NEW c, NEW v \in Stages, stage' = [stage EXCEPT ![c] = v]
    PROVE  StageTyped'
  BY DEF Typed, StageTyped

LEMMA HeadOfTodo ==
    ASSUME Typed, todo # <<>>
    PROVE  Head(todo) \in Clients /\ Tail(todo) \in Seq(Clients)
  BY HeadTailProperties DEF Typed, ListTyped

LEMMA ListGrows ==
    ASSUME Typed, NEW c \in Clients, AddToList(c)
    PROVE  ListTyped' /\ (UNCHANGED got => GotTyped')
  <1>1. Append(seen, c) \in Seq(Clients) /\ Append(todo, c) \in Seq(Clients)
    BY AppendProperties DEF Typed, ListTyped
  <1>2. ListTyped'
    <2>1. CASE mainPc \in Passes
      BY <1>1, <2>1 DEF AddToList, Typed, ListTyped
    <2>2. CASE mainPc \notin Passes
      BY <1>1, <2>2 DEF AddToList, Typed, ListTyped
    <2> QED
      BY <2>1, <2>2
  <1>3. Broadcast \in 0..MaxChunks
    BY BoundsAssumption DEF Broadcast, Typed, MainTyped
  <1>4. joined' \in [Clients -> 0..MaxChunks]
    BY <1>3 DEF AddToList, Typed, GotTyped
  <1> QED
    BY <1>2, <1>4 DEF Typed, GotTyped

-----------------------------------------------------------------------------
(* main *)
LEMMA MainStartTyped == Typed /\ MainStart => Typed'
  <1> SUFFICES ASSUME Typed, MainStart PROVE Typed'
    OBVIOUS
  <1> USE DEF At
  <1>1. CASE ListenSsh
    <2>1. MainTyped' /\ SockTyped'
      BY <1>1 DEF ListenSsh, Typed, MainTyped, SockTyped, Starting, Ended
    <2> QED
      BY <1>1, <2>1, KeptTypes DEF ListenSsh, Typed
  <1>2. CASE ListenTelnet
    <2>1. MainTyped' /\ SockTyped'
      BY <1>2 DEF ListenTelnet, Typed, MainTyped, SockTyped, Starting
    <2> QED
      BY <1>2, <2>1, KeptTypes DEF ListenTelnet, Typed
  <1>3. CASE OpenDevice
    <2>1. MainTyped'
      BY <1>3 DEF OpenDevice, Typed, MainTyped, Starting, Ended
    <2> QED
      BY <1>3, <2>1, KeptTypes DEF OpenDevice, Typed
  <1>4. CASE StartSsh
    <2>1. MainTyped' /\ SshTyped'
      BY <1>4 DEF StartSsh, turn, Typed, MainTyped, SshTyped, Starting, Ended
    <2> QED
      BY <1>4, <2>1, KeptTypes DEF StartSsh, Typed
  <1>5. CASE StartTelnet
    <2>1. MainTyped' /\ TelTyped'
      BY <1>5 DEF StartTelnet, Typed, MainTyped, TelTyped, Running, Ended
    <2> QED
      BY <1>5, <2>1, KeptTypes DEF StartTelnet, Typed
  <1> QED
    BY <1>1, <1>2, <1>3, <1>4, <1>5 DEF MainStart

(* A step of main that changes only mainPc, to a place that sends nothing. *)
LEMMA MainMovesTyped ==
    ASSUME Typed, NEW pc \in Running \cup Stopping \cup Ended, mainPc' = pc,
           pc \notin {"send_wait", "send"}, stop' \in BOOLEAN,
           dev' \in {"none", "open", "stuck", "unplugged", "closed"}, UNCHANGED chunk
    PROVE  MainTyped'
  BY DEF Typed, MainTyped

LEMMA MainLockTyped == Typed /\ MainLock => Typed'
  <1> SUFFICES ASSUME Typed,
                      NEW pc, NEW p,
                      \/ pc = "send_wait" /\ p = "send"
                      \/ pc = "recv_wait" /\ p = "recv"
                      \/ pc = "final_wait" /\ p = "final",
                      LockAndBegin(pc, p)
               PROVE  Typed'
    BY DEF MainLock
  <1>1. MainTyped'
    BY DEF LockAndBegin, At, Typed, MainTyped, Running, Stopping
  <1>2. ListTyped'
    BY EmptySeq DEF LockAndBegin, Typed, ListTyped
  <1> QED
    BY <1>1, <1>2, KeptTypes DEF LockAndBegin, Typed

LEMMA RelayTyped ==
    ASSUME Typed, \/ LoopTest \/ ReadDevice \/ SendVisit \/ RecvKeep \/ RecvTyped \/ WriteDevice
                  \/ DropVisit \/ EndAndUnlock
    PROVE  Typed'
  <1>1. CASE LoopTest
    <2>1. MainTyped'
      BY <1>1 DEF LoopTest, At, Typed, MainTyped, Running, Stopping
    <2> QED
      BY <1>1, <2>1, KeptTypes DEF LoopTest, Typed
  <1>2. CASE ReadDevice
    <2>1. ASSUME chunk' = chunk + 1, chunk < MaxChunks, mainPc' = "send_wait", stop' = stop, dev' = dev
          PROVE  MainTyped'
      <3>1. chunk' \in 0..MaxChunks /\ chunk' # 0
        BY <2>1, BoundsAssumption DEF Typed, MainTyped
      <3> QED
        BY <2>1, <3>1 DEF Typed, MainTyped, Running
    <2>2. ASSUME chunk' = chunk, dev' = dev, stop' \in BOOLEAN, mainPc' \in {"recv_wait", "close_dev"}
          PROVE  MainTyped'
      BY <2>2, MainMovesTyped DEF Typed, MainTyped, Running, Stopping
    <2>3. MainTyped'
      BY <1>2, <2>1, <2>2 DEF ReadDevice, At, Typed, MainTyped
    <2> QED
      BY <1>2, <2>3, KeptTypes DEF ReadDevice, Typed
  <1>3. CASE SendVisit
    <2>1. Head(todo) \in Clients /\ Tail(todo) \in Seq(Clients)
      BY <1>3, HeadOfTodo DEF SendVisit
    <2>2. chunk \in 1..MaxChunks
      BY <1>3, BoundsAssumption DEF SendVisit, At, Typed, MainTyped
    <2>3. Append(got[Head(todo)], chunk) \in Seq(1..MaxChunks)
      BY <2>1, <2>2, AppendProperties DEF Typed, GotTyped
    <2>4. got' = [got EXCEPT ![Head(todo)] = Append(@, chunk)] \/ UNCHANGED got
      BY <1>3 DEF SendVisit
    <2>5. GotTyped'
      BY <1>3, <2>3, <2>4 DEF SendVisit, Typed, GotTyped
    <2>6. ListTyped'
      BY <1>3, <2>1, AppendProperties DEF SendVisit, Typed, ListTyped
    <2> QED
      BY <1>3, <2>5, <2>6, KeptTypes DEF SendVisit, Typed
  <1>4. CASE RecvKeep
    <2>1. Head(todo) \in Clients /\ Tail(todo) \in Seq(Clients)
      BY <1>4, HeadOfTodo DEF RecvKeep
    <2>2. ListTyped'
      BY <1>4, <2>1, AppendProperties DEF RecvKeep, Typed, ListTyped
    <2> QED
      BY <1>4, <2>2, KeptTypes DEF RecvKeep, Typed
  <1>5. CASE RecvTyped
    <2>1. Head(todo) \in Clients /\ Tail(todo) \in Seq(Clients)
      BY <1>5, HeadOfTodo DEF RecvTyped
    <2>2. ListTyped'
      BY <1>5, <2>1, AppendProperties DEF RecvTyped, Typed, ListTyped
    <2>3. MainTyped'
      BY <1>5 DEF RecvTyped, Typed, MainTyped, Running
    <2> QED
      BY <1>5, <2>2, <2>3, KeptTypes DEF RecvTyped, Typed
  <1>6. CASE WriteDevice
    <2>1. MainTyped'
      BY <1>6 DEF WriteDevice, Typed, MainTyped, Running
    <2> QED
      BY <1>6, <2>1, KeptTypes DEF WriteDevice, Typed
  <1>7. CASE DropVisit
    <2>1. Tail(todo) \in Seq(Clients)
      BY <1>7, HeadOfTodo DEF DropVisit
    <2>2. ListTyped'
      BY <1>7, <2>1 DEF DropVisit, Typed, ListTyped
    <2>3. StageTyped'
      BY <1>7, StageSet DEF DropVisit, Stages
    <2> QED
      BY <1>7, <2>2, <2>3, KeptTypes DEF DropVisit, Typed
  <1>8. CASE EndAndUnlock
    <2>1. mainPc' \in {"recv_wait", "loop", "free_ssh"}
      BY <1>8 DEF EndAndUnlock, Passes
    <2>2. MainTyped'
      BY <1>8, <2>1 DEF EndAndUnlock, Typed, MainTyped, Running, Stopping
    <2> QED
      BY <1>8, <2>2, KeptTypes DEF EndAndUnlock, Typed
  <1> QED
    BY <1>1, <1>2, <1>3, <1>4, <1>5, <1>6, <1>7, <1>8

LEMMA ShutdownTyped ==
    ASSUME Typed,
           \/ CloseDevice \/ FinalizeSshAcception \/ FinalizeTelnetAcception
           \/ Cancel("cancel_ssh", "ssh", "join_ssh") \/ Join("join_ssh", sshPc, "cancel_tel")
           \/ Cancel("cancel_tel", "tel", "join_tel") \/ Join("join_tel", telPc, "done")
    PROVE  Typed'
  <1>1. CASE CloseDevice
    <2>1. MainTyped'
      BY <1>1 DEF CloseDevice, Typed, MainTyped, Stopping
    <2> QED
      BY <1>1, <2>1, KeptTypes DEF CloseDevice, Typed
  <1>2. CASE FinalizeSshAcception
    <2>1. MainTyped' /\ SockTyped'
      BY <1>2 DEF FinalizeSshAcception, Typed, MainTyped, SockTyped, Stopping
    <2> QED
      BY <1>2, <2>1, KeptTypes DEF FinalizeSshAcception, Typed
  <1>3. CASE FinalizeTelnetAcception
    <2>1. MainTyped' /\ SockTyped'
      BY <1>3 DEF FinalizeTelnetAcception, Typed, MainTyped, SockTyped, Stopping
    <2> QED
      BY <1>3, <2>1, KeptTypes DEF FinalizeTelnetAcception, Typed
  <1>4. ASSUME NEW pc, NEW thread \in {"ssh", "tel"}, NEW nextPc \in {"join_ssh", "join_tel"},
               Cancel(pc, thread, nextPc)
        PROVE  Typed'
    <2>1. MainTyped'
      BY <1>4 DEF Cancel, Typed, MainTyped, Stopping
    <2>2. CancelledTyped'
      BY <1>4 DEF Cancel, Typed, CancelledTyped
    <2> QED
      BY <1>4, <2>1, <2>2, KeptTypes DEF Cancel, Typed
  <1>5. ASSUME NEW pc, NEW threadPc, NEW nextPc \in {"cancel_tel", "done"}, Join(pc, threadPc, nextPc)
        PROVE  Typed'
    <2>1. MainTyped'
      BY <1>5 DEF Join, Typed, MainTyped, Stopping, Ended
    <2> QED
      BY <1>5, <2>1, KeptTypes DEF Join, Typed
  <1>6. CASE Cancel("cancel_ssh", "ssh", "join_ssh") \/ Cancel("cancel_tel", "tel", "join_tel")
    BY <1>4, <1>6
  <1>7. CASE Join("join_ssh", sshPc, "cancel_tel") \/ Join("join_tel", telPc, "done")
    BY <1>5, <1>7
  <1> QED
    BY <1>1, <1>2, <1>3, <1>6, <1>7

-----------------------------------------------------------------------------
(* The acceptors *)
LEMMA SshStepTyped == Typed /\ SshStep => Typed'
  <1> SUFFICES ASSUME Typed, SshStep PROVE Typed'
    OBVIOUS
  <1>1. CASE SshNew
    <2>1. SshTyped'
      BY <1>1 DEF SshNew, turn, Typed, SshTyped
    <2> QED
      BY <1>1, <2>1, KeptTypes DEF SshNew, SshUnchanged, Typed
  <1>2. ASSUME NEW c \in SshClients, SshAccept(c) PROVE Typed'
    <2>1. SshTyped'
      BY <1>2 DEF SshAccept, turn, Typed, SshTyped
    <2>2. StageTyped'
      BY <1>2, StageSet DEF SshAccept, Stages, Open
    <2> QED
      BY <1>2, <2>1, <2>2, KeptTypes DEF SshAccept, SshUnchanged, Typed
  <1>3. CASE SshAcceptError
    <2>1. SshTyped'
      BY <1>3 DEF SshAcceptError, turn, Typed, SshTyped
    <2> QED
      BY <1>3, <2>1, KeptTypes DEF SshAcceptError, SshUnchanged, Typed
  <1>4. CASE SshKexOk
    <2>1. SshTyped'
      BY <1>4 DEF SshKexOk, Typed, SshTyped
    <2>2. StageTyped'
      BY <1>4, StageSet DEF SshKexOk, Stages, Open
    <2> QED
      BY <1>4, <2>1, <2>2, KeptTypes DEF SshKexOk, SshUnchanged, Typed
  <1>5. CASE SshKexFail \/ SshNoMessage
    <2>1. SshRefuse /\ UNCHANGED turn /\ SshUnchanged
      BY <1>5 DEF SshKexFail, SshNoMessage
    <2>2. SshTyped'
      BY <2>1 DEF SshRefuse, turn, Typed, SshTyped
    <2>3. StageTyped'
      BY <2>1, StageSet DEF SshRefuse, Stages
    <2> QED
      BY <2>1, <2>2, <2>3, KeptTypes DEF SshUnchanged, Typed
  <1>6. CASE SshUseFreedSession
    <2>1. SshTyped'
      BY <1>6 DEF SshUseFreedSession, turn, Typed, SshTyped
    <2>2. EnvTyped'
      BY <1>6 DEF SshUseFreedSession, Typed, EnvTyped
    <2> QED
      BY <1>6, <2>1, <2>2, KeptTypes DEF SshUseFreedSession, Typed
  <1>7. CASE SshUseFreedBind
    <2>1. EnvTyped'
      BY <1>7 DEF SshUseFreedBind, Typed, EnvTyped
    <2> QED
      BY <1>7, <2>1, KeptTypes DEF SshUseFreedBind, Typed
  <1>8. CASE SshAuthMessage
    <2>1. SshTyped'
      BY <1>8 DEF SshAuthMessage, Typed, SshTyped
    <2>2. StageTyped'
      BY <1>8, StageSet, KeptTypes DEF SshAuthMessage, Stages, Open
    <2> QED
      BY <1>8, <2>1, <2>2, KeptTypes DEF SshAuthMessage, SshUnchanged, Typed
  <1>9. CASE SshChanMessage
    <2>1. SshTyped'
      BY <1>9 DEF SshChanMessage, Typed, SshTyped
    <2>2. StageTyped'
      BY <1>9, StageSet, KeptTypes DEF SshChanMessage, Stages, Open
    <2> QED
      BY <1>9, <2>1, <2>2, KeptTypes DEF SshChanMessage, SshUnchanged, Typed
  <1>10. CASE SshShellMessage
    <2>1. SshTyped'
      BY <1>10 DEF SshShellMessage, Typed, SshTyped
    <2>2. StageTyped'
      BY <1>10, StageSet, KeptTypes DEF SshShellMessage, Stages, Open
    <2> QED
      BY <1>10, <2>1, <2>2, KeptTypes DEF SshShellMessage, SshUnchanged, Typed
  <1>11. CASE SshLock
    <2>1. SshTyped'
      BY <1>11 DEF SshLock, turn, Typed, SshTyped
    <2> QED
      BY <1>11, <2>1, KeptTypes DEF SshLock, Typed
  <1>12. CASE SshRegister
    <2>1. sshCli \in Clients
      BY <1>12 DEF SshRegister, Typed, SshTyped, Clients
    <2>2. ListTyped' /\ GotTyped'
      BY <1>12, <2>1, ListGrows DEF SshRegister
    <2>3. SshTyped'
      BY <1>12 DEF SshRegister, turn, Typed, SshTyped
    <2> QED
      BY <1>12, <2>2, <2>3, KeptTypes DEF SshRegister, Typed
  <1>13. CASE SshCancelled
    <2>1. SshTyped'
      BY <1>13 DEF SshCancelled, turn, Typed, SshTyped
    <2>2. StageTyped'
      BY <1>13, StageSet, KeptTypes DEF SshCancelled, Stages
    <2> QED
      BY <1>13, <2>1, <2>2, KeptTypes DEF SshCancelled, SshUnchanged, Typed
  <1> QED
    BY <1>1, <1>2, <1>3, <1>4, <1>5, <1>6, <1>7, <1>8, <1>9, <1>10, <1>11, <1>12, <1>13 DEF SshStep

LEMMA TelStepTyped == Typed /\ TelStep => Typed'
  <1> SUFFICES ASSUME Typed, TelStep PROVE Typed'
    OBVIOUS
  <1>0. MaxTry \in Nat \ {0} /\ 0 \in 0..MaxTry
    BY BoundsAssumption
  <1>1. ASSUME NEW c \in TelnetClients, TelAccept(c) PROVE Typed'
    <2>1. TelTyped' /\ SockTyped'
      BY <1>0, <1>1 DEF TelAccept, Typed, TelTyped, SockTyped
    <2>2. StageTyped'
      BY <1>1, StageSet DEF TelAccept, Stages, Open
    <2> QED
      BY <1>1, <2>1, <2>2, KeptTypes DEF TelAccept, Typed
  <1>2. CASE TelTry
    <2>1. ASSUME telPc' = "wait", telPc = "auth", telCli' = telCli, try' = try
          PROVE  TelTyped'
      BY <2>1 DEF Typed, TelTyped
    <2>2. ASSUME try + 1 < MaxTry, try' = try + 1, telPc' = telPc, telCli' = telCli
          PROVE  TelTyped'
      <3>1. try' \in 0..MaxTry
        BY <1>0, <2>2 DEF Typed, TelTyped
      <3> QED
        BY <2>2, <3>1 DEF Typed, TelTyped
    <2>3. ASSUME telPc' = "accept", telCli' = NoClient, try' = 0
          PROVE  TelTyped'
      BY <1>0, <2>3 DEF Typed, TelTyped
    <2>4. TelTyped'
      BY <1>2, <2>1, <2>2, <2>3 DEF TelTry
    <2>5. StageTyped'
      BY <1>2, StageSet, KeptTypes DEF TelTry, Stages, Open
    <2> QED
      BY <1>2, <2>4, <2>5, KeptTypes DEF TelTry, TelUnchanged, Typed
  <1>3. CASE TelPeerLost
    <2>1. TelTyped'
      BY <1>0, <1>3 DEF TelPeerLost, Typed, TelTyped
    <2>2. StageTyped'
      BY <1>3, StageSet DEF TelPeerLost, Stages
    <2> QED
      BY <1>3, <2>1, <2>2, KeptTypes DEF TelPeerLost, TelUnchanged, Typed
  <1>4. CASE TelLock
    <2>1. TelTyped'
      BY <1>4 DEF TelLock, Typed, TelTyped
    <2> QED
      BY <1>4, <2>1, KeptTypes DEF TelLock, TelUnchanged, Typed
  <1>5. CASE TelRegister
    <2>1. telCli \in Clients
      BY <1>5 DEF TelRegister, Typed, TelTyped, Clients
    <2>2. ListTyped' /\ GotTyped'
      BY <1>5, <2>1, ListGrows DEF TelRegister, TelUnchanged
    <2>3. TelTyped'
      BY <1>0, <1>5 DEF TelRegister, Typed, TelTyped
    <2> QED
      BY <1>5, <2>2, <2>3, KeptTypes DEF TelRegister, TelUnchanged, Typed
  <1>6. CASE TelCancelled
    <2>1. TelTyped'
      BY <1>6 DEF TelCancelled, Typed, TelTyped
    <2>2. StageTyped'
      BY <1>6, StageSet, KeptTypes DEF TelCancelled, Stages
    <2> QED
      BY <1>6, <2>1, <2>2, KeptTypes DEF TelCancelled, TelUnchanged, Typed
  <1> QED
    BY <1>1, <1>2, <1>3, <1>4, <1>5, <1>6 DEF TelStep

-----------------------------------------------------------------------------
LEMMA EnvironmentTyped == Typed /\ Environment => Typed'
  <1> SUFFICES ASSUME Typed, Environment PROVE Typed'
    OBVIOUS
  <1>1. ASSUME NEW c \in Clients, Connect(c) PROVE Typed'
    <2>1. StageTyped'
      BY <1>1, StageSet DEF Connect, Stages
    <2> QED
      BY <1>1, <2>1, KeptTypes DEF Connect, Typed
  <1>2. ASSUME NEW c \in Clients, HangUp(c) PROVE Typed'
    <2>1. EnvTyped'
      BY <1>2 DEF HangUp, Typed, EnvTyped
    <2> QED
      BY <1>2, <2>1, KeptTypes DEF HangUp, Typed
  <1>3. ASSUME NEW c \in SshClients, Stall(c) PROVE Typed'
    <2>1. EnvTyped'
      BY <1>3 DEF Stall, Typed, EnvTyped
    <2> QED
      BY <1>3, <2>1, KeptTypes DEF Stall, Typed
  <1>4. CASE Unplug
    <2>1. MainTyped'
      BY <1>4 DEF Unplug, Typed, MainTyped
    <2> QED
      BY <1>4, <2>1, KeptTypes DEF Unplug, Typed
  <1>5. CASE DeviceSticks
    <2>1. MainTyped'
      BY <1>5 DEF DeviceSticks, Typed, MainTyped
    <2> QED
      BY <1>5, <2>1, KeptTypes DEF DeviceSticks, Typed
  <1>6. CASE Sigint
    <2>1. MainTyped' /\ EnvTyped'
      BY <1>6 DEF Sigint, Typed, MainTyped, EnvTyped
    <2> QED
      BY <1>6, <2>1, KeptTypes DEF Sigint, Typed
  <1>7. CASE Sigpipe
    <2>1. EnvTyped'
      BY <1>7 DEF Sigpipe, Typed, EnvTyped
    <2> QED
      BY <1>7, <2>1, KeptTypes DEF Sigpipe, Typed
  <1>8. ASSUME NEW c \in TelnetClients, Chatter(c) PROVE Typed'
    <2>1. EnvTyped'
      BY <1>8 DEF Chatter, Typed, EnvTyped
    <2> QED
      BY <1>8, <2>1, KeptTypes DEF Chatter, Typed
  <1> QED
    BY <1>1, <1>2, <1>3, <1>4, <1>5, <1>6, <1>7, <1>8 DEF Environment

LEMMA TypedStep == Typed /\ [Next]_vars => Typed'
  <1> SUFFICES ASSUME Typed, [Next]_vars PROVE Typed'
    OBVIOUS
  <1>1. CASE MainStep
    BY <1>1, RelayTyped, ShutdownTyped DEF MainStep
  <1>2. CASE UNCHANGED vars
    BY <1>2, KeptTypes DEF vars, Typed
  <1> QED
    BY <1>1, <1>2, MainStartTyped, MainLockTyped, SshStepTyped, TelStepTyped, EnvironmentTyped DEF Next

(* Every variable keeps its type, whatever the clients, the device and the *)
(* user do: above all, an acceptor that registers has a client, chunks are *)
(* numbered within bounds, and the semaphore is 0 or 1 - sem_post is never *)
(* called on a free semaphore.                                             *)
THEOREM ServerTypeOK == Spec => []TypeOK
  BY TypedInit, TypedStep, TypedGivesTypeOK, ListIsExclusive, PTL DEF Spec

-----------------------------------------------------------------------------
(* Sequences without repetition. *)
NoRepeats(s) == \A i, j \in DOMAIN s : s[i] = s[j] => i = j

LEMMA ElemsOfAppend ==
    ASSUME NEW S, NEW s \in Seq(S), NEW c \in S
    PROVE  /\ Elems(Append(s, c)) = Elems(s) \cup {c}
           /\ NoRepeats(s) /\ c \notin Elems(s) => NoRepeats(Append(s, c))
  <1> DEFINE t == Append(s, c)
  <1>1. /\ Len(s) \in Nat /\ DOMAIN s = 1..Len(s)
        /\ DOMAIN t = 1..Len(s) + 1
        /\ t[Len(s) + 1] = c
        /\ \A i \in 1..Len(s) : t[i] = s[i]
    BY AppendProperties, LenProperties
  <1> HIDE DEF t
  <1>2. \A i \in DOMAIN t : i \in DOMAIN s \/ i = Len(s) + 1
    BY <1>1
  <1>3. \A i \in DOMAIN s : i \in DOMAIN t /\ i # Len(s) + 1
    BY <1>1
  <1>4. Len(s) + 1 \in DOMAIN t
    BY <1>1
  <1>5. Elems(t) = Elems(s) \cup {c}
    BY <1>1, <1>2, <1>3, <1>4 DEF Elems
  <1>6. NoRepeats(s) /\ c \notin Elems(s) => NoRepeats(t)
    BY <1>1, <1>2 DEF NoRepeats, Elems
  <1> QED
    BY <1>5, <1>6 DEF t

LEMMA ElemsOfTail ==
    ASSUME NEW S, NEW s \in Seq(S), s # <<>>
    PROVE  /\ Elems(s) = {Head(s)} \cup Elems(Tail(s))
           /\ NoRepeats(s) => NoRepeats(Tail(s)) /\ Head(s) \notin Elems(Tail(s))
  <1> DEFINE t == Tail(s)
  <1>1. /\ Len(s) \in Nat \ {0} /\ DOMAIN s = 1..Len(s)
        /\ DOMAIN t = 1..Len(s) - 1
        /\ \A i \in 1..Len(s) - 1 : t[i] = s[i + 1]
        /\ Head(s) = s[1]
    BY HeadTailProperties, LenProperties, EmptySeq
  <1> HIDE DEF t
  <1>2. \A i \in DOMAIN s : i = 1 \/ (i - 1 \in DOMAIN t /\ s[i] = t[i - 1])
    BY <1>1
  <1>3. \A i \in DOMAIN t : i + 1 \in DOMAIN s /\ t[i] = s[i + 1] /\ i + 1 # 1
    BY <1>1
  <1>4. 1 \in DOMAIN s
    BY <1>1
  <1>5. Elems(s) = {Head(s)} \cup Elems(t)
    BY <1>1, <1>2, <1>3, <1>4 DEF Elems
  <1>6. ASSUME NoRepeats(s) PROVE NoRepeats(t) /\ Head(s) \notin Elems(t)
    <2>1. NoRepeats(t)
      <3> SUFFICES ASSUME NEW i \in DOMAIN t, NEW j \in DOMAIN t, t[i] = t[j] PROVE i = j
        BY DEF NoRepeats
      <3>1. i + 1 = j + 1
        BY <1>3, <1>6 DEF NoRepeats
      <3> QED
        BY <1>1, <3>1
    <2>2. Head(s) \notin Elems(t)
      BY <1>1, <1>3, <1>4, <1>6 DEF NoRepeats, Elems
    <2> QED
      BY <2>1, <2>2
  <1> QED
    BY <1>5, <1>6 DEF t

(* As many entries as elements, split anywhere. *)
LEMMA CountsElements ==
    ASSUME NEW S, NEW s \in Seq(S), NEW t \in Seq(S),
           NoRepeats(s), NoRepeats(t), Elems(s) \cap Elems(t) = {}
    PROVE  Len(s) + Len(t) = Cardinality(Elems(s) \cup Elems(t))
  <1> DEFINE n == Len(s) + Len(t)  E == Elems(s) \cup Elems(t)
             u == [i \in 1..n |-> IF i <= Len(s) THEN s[i] ELSE t[i - Len(s)]]
  <1>1. /\ Len(s) \in Nat /\ DOMAIN s = 1..Len(s)
        /\ Len(t) \in Nat /\ DOMAIN t = 1..Len(t)
        /\ \A i \in 1..n : u[i] = IF i <= Len(s) THEN s[i] ELSE t[i - Len(s)]
    BY LenProperties
  <1>2. \A i \in 1..n : IF i <= Len(s) THEN i \in DOMAIN s ELSE i - Len(s) \in DOMAIN t
    BY <1>1
  <1>3. u \in [1..n -> E]
    <2>1. \A i \in 1..n : u[i] \in E
      BY <1>1, <1>2 DEF Elems
    <2> QED
      BY <2>1
  <1> HIDE DEF u
  <1>4. ASSUME NEW e \in E PROVE \E i \in 1..n : u[i] = e
    <2>1. CASE e \in Elems(s)
      <3>1. PICK i \in DOMAIN s : e = s[i]
        BY <2>1 DEF Elems
      <3> QED
        BY <1>1, <3>1
    <2>2. CASE e \in Elems(t)
      <3>1. PICK i \in DOMAIN t : e = t[i]
        BY <2>2 DEF Elems
      <3>2. Len(s) + i \in 1..n /\ ~(Len(s) + i <= Len(s)) /\ (Len(s) + i) - Len(s) = i
        BY <1>1, <3>1
      <3> QED
        BY <1>1, <3>1, <3>2
    <2> QED
      BY <2>1, <2>2
  <1>5. ASSUME NEW i \in 1..n, NEW j \in 1..n, u[i] = u[j] PROVE i = j
    <2>1. CASE i <= Len(s) /\ j <= Len(s)
      BY <1>1, <1>2, <1>5, <2>1 DEF NoRepeats
    <2>2. CASE ~(i <= Len(s)) /\ ~(j <= Len(s))
      <3>1. i - Len(s) = j - Len(s)
        BY <1>1, <1>2, <1>5, <2>2 DEF NoRepeats
      <3> QED
        BY <1>1, <3>1
    <2>3. CASE i <= Len(s) /\ ~(j <= Len(s))
      BY <1>1, <1>2, <1>5, <2>3 DEF Elems
    <2>4. CASE ~(i <= Len(s)) /\ j <= Len(s)
      BY <1>1, <1>2, <1>5, <2>4 DEF Elems
    <2> QED
      BY <2>1, <2>2, <2>3, <2>4
  <1> HIDE DEF E
  <1>6. u \in Bijection(1..n, E)
    BY <1>3, <1>4, <1>5, Fun_IsBij
  <1>7. ExistsBijection(1..n, E)
    BY <1>6 DEF ExistsBijection
  <1>8. n \in Nat
    BY <1>1
  <1>9. Cardinality(E) = n
    BY <1>7, <1>8, FS_CountingElements
  <1> QED
    BY <1>9 DEF E

-----------------------------------------------------------------------------
(* The inductive invariant: how far the client of an acceptor got, by the   *)
(* place of its thread; that what was reset stays reset until it is set for *)
(* this client; that a listed client has everything, and no other owner;    *)
(* and that no connection is open without one.                              *)
SshStage ==
    /\ sshPc = "accept" => sess # "bound"
    /\ sshPc = "kex" /\ sess = "bound" => stage[sshCli] = "accepted"
    /\ sshPc = "auth" => stage[sshCli] = "keyed" /\ ~authenticated
    /\ sshPc = "chan" => stage[sshCli] = "authed" /\ sshCli \in Legit /\ ~chanNewb
    /\ sshPc = "shell" => stage[sshCli] = "opened" /\ sshCli \in Legit /\ ~shellRequested
    /\ sshPc \in {"wait", "reg"} => stage[sshCli] = "shell" /\ sshCli \in Legit

TelStage ==
    /\ telPc = "auth" => stage[telCli] = "accepted"
    /\ telPc \in {"wait", "reg"} => stage[telCli] = "shell" /\ telCli \in Legit

ListStage ==
    \A c \in Listed : c \in Legit /\ stage[c] = "shell" /\ ~SshHolds(c) /\ ~TelHolds(c)

Owned == \A c \in Clients : stage[c] \in Open => SshHolds(c) \/ TelHolds(c) \/ c \in Listed

Abandoned == \A c \in Clients : stage[c] = "abandoned" => cancelled # {}

Distinct == NoRepeats(seen) /\ NoRepeats(todo) /\ Elems(seen) \cap Elems(todo) = {}

Between == mainPc \notin Passes => todo = <<>>

OwnerInv == SshStage /\ TelStage /\ ListStage /\ Owned /\ Abandoned
ListInv == Distinct /\ Between

(* What the invariant needs of the types. *)
Bound ==
    /\ stage \in [Clients -> Stages]
    /\ sess = "bound" => sshCli \in SshClients
    /\ sshPc \in {"auth", "chan", "shell", "wait", "reg"} => sess = "bound"
    /\ telPc \in {"auth", "wait", "reg"} => telCli \in TelnetClients
    /\ SshClients \subseteq Clients /\ TelnetClients \subseteq Clients
    /\ SshClients \cap TelnetClients = {}
    /\ Listed \subseteq Clients

LEMMA TypedBound == Typed => Bound
  <1> SUFFICES ASSUME Typed PROVE Bound
    OBVIOUS
  <1>1. Listed \subseteq Clients
    BY LenProperties, ElementOfSeq DEF Typed, ListTyped, Listed, Elems
  <1> QED
    BY <1>1, ClientsAssumption DEF Typed, StageTyped, SshTyped, TelTyped, Bound, Clients

LEMMA SshStepOwns ==
    ASSUME Bound, OwnerInv, SshStep, ~SshRegister
    PROVE  OwnerInv'
  <1> USE DEF Bound, OwnerInv, SshStage, TelStage, ListStage, Owned, Abandoned,
              SshHolds, TelHolds, Open, SshUnchanged, telVars
  <1>0. UNCHANGED listVars => Listed' = Listed
    BY DEF Listed, Elems, listVars
  <1>1. CASE SshNew
    BY <1>0, <1>1 DEF SshNew
  <1>2. ASSUME NEW c \in SshClients, SshAccept(c) PROVE OwnerInv'
    BY <1>0, <1>2 DEF SshAccept
  <1>3. CASE SshAcceptError
    BY <1>0, <1>3 DEF SshAcceptError
  <1>4. CASE SshKexOk
    BY <1>0, <1>4 DEF SshKexOk
  <1>5. CASE SshKexFail
    BY <1>0, <1>5 DEF SshKexFail, SshRefuse
  <1>6. CASE SshNoMessage
    BY <1>0, <1>6 DEF SshNoMessage, SshRefuse
  <1>7. CASE SshUseFreedSession
    BY <1>0, <1>7 DEF SshUseFreedSession
  <1>8. CASE SshUseFreedBind
    BY <1>0, <1>8 DEF SshUseFreedBind, sshVars
  <1>9. CASE SshAuthMessage
    BY <1>0, <1>9 DEF SshAuthMessage
  <1>10. CASE SshChanMessage
    BY <1>0, <1>10 DEF SshChanMessage
  <1>11. CASE SshShellMessage
    BY <1>0, <1>11 DEF SshShellMessage
  <1>12. CASE SshLock
    BY <1>0, <1>12 DEF SshLock
  <1>13. CASE SshCancelled
    <2>0. Listed' = Listed /\ UNCHANGED <<telPc, telCli, cancelled, sshCli, seen, todo>> /\ sshPc' = "cancelled"
      BY <1>0, <1>13 DEF SshCancelled, listVars
    <2>1. ASSUME sess = "bound" PROVE OwnerInv'
      <3>1. sshPc \in {"kex", "auth", "chan", "shell", "wait"} /\ SshHolds(sshCli) /\ sshCli \in Clients
            /\ stage[sshCli] \in Open
        BY <1>13, <2>1 DEF SshCancelled
      <3>2. stage' = [stage EXCEPT ![sshCli] = "abandoned"] /\ "ssh" \in cancelled
        BY <1>13, <2>1 DEF SshCancelled
      <3>3. sshCli \notin Listed /\ ~TelHolds(sshCli)
        BY <2>1, <3>1
      <3>4. TelStage'
        BY <2>0, <3>2, <3>3
      <3>5. ListStage'
        BY <2>0, <3>2, <3>3
      <3>6. Owned' /\ Abandoned' /\ SshStage'
        BY <2>0, <3>2, <3>3
      <3> QED
        BY <3>4, <3>5, <3>6
    <2>2. ASSUME sess # "bound" PROVE OwnerInv'
      BY <1>13, <2>0, <2>2 DEF SshCancelled
    <2> QED
      BY <2>1, <2>2
  <1> QED
    BY <1>1, <1>2, <1>3, <1>4, <1>5, <1>6, <1>7, <1>8, <1>9, <1>10, <1>11, <1>12, <1>13 DEF SshStep

LEMMA TelStepOwns ==
    ASSUME Bound, OwnerInv, TelStep, ~TelRegister
    PROVE  OwnerInv'
  <1> USE DEF Bound, OwnerInv, SshStage, TelStage, ListStage, Owned, Abandoned,
              SshHolds, TelHolds, Open, TelUnchanged, sshVars, turn
  <1>0. UNCHANGED listVars => Listed' = Listed
    BY DEF Listed, Elems, listVars
  <1>1. ASSUME NEW c \in TelnetClients, TelAccept(c) PROVE OwnerInv'
    BY <1>0, <1>1 DEF TelAccept
  <1>2. CASE TelTry
    BY <1>0, <1>2 DEF TelTry
  <1>3. CASE TelPeerLost
    BY <1>0, <1>3 DEF TelPeerLost
  <1>4. CASE TelLock
    BY <1>0, <1>4 DEF TelLock
  <1>5. CASE TelCancelled
    BY <1>0, <1>5 DEF TelCancelled
  <1> QED
    BY <1>1, <1>2, <1>3, <1>4, <1>5 DEF TelStep

-----------------------------------------------------------------------------
(* What the operations do to the list: a registration between two passes,  *)
(* the start of a pass, a visit that keeps the client, one that drops it.  *)
LEMMA RegistrationLists ==
    ASSUME Typed, ListInv, mainPc \notin Passes, NEW c \in Clients, c \notin Listed, AddToList(c)
    PROVE  /\ Listed' = Listed \cup {c}
           /\ Distinct' /\ todo' = <<>>
           /\ seen' = Append(seen, c)
  <1>1. seen' = Append(seen, c) /\ todo' = todo /\ todo = <<>>
    BY DEF AddToList, ListInv, Between
  <1>2. Elems(seen') = Elems(seen) \cup {c} /\ NoRepeats(seen')
    BY <1>1, ElemsOfAppend DEF Typed, ListTyped, ListInv, Distinct, Listed
  <1> QED
    BY <1>1, <1>2 DEF ListInv, Distinct, Listed

LEMMA ElemsOfEmpty == Elems(<<>>) = {} /\ NoRepeats(<<>>)
  BY DEF Elems, NoRepeats

LEMMA PassBeginLists ==
    ASSUME ListInv, todo = <<>>, seen' = <<>>, todo' = seen
    PROVE  Listed' = Listed /\ Distinct'
  BY ElemsOfEmpty DEF ListInv, Distinct, Listed

LEMMA KeepLists ==
    ASSUME Typed, ListInv, todo # <<>>, seen' = Append(seen, Head(todo)), todo' = Tail(todo)
    PROVE  Listed' = Listed /\ Distinct'
  <1>1. Head(todo) \in Clients
    BY HeadOfTodo
  <1>2. Elems(todo) = {Head(todo)} \cup Elems(Tail(todo))
        /\ NoRepeats(Tail(todo)) /\ Head(todo) \notin Elems(Tail(todo))
    BY ElemsOfTail DEF Typed, ListTyped, ListInv, Distinct
  <1>3. Head(todo) \notin Elems(seen)
    BY <1>2 DEF ListInv, Distinct
  <1>4. Elems(seen') = Elems(seen) \cup {Head(todo)} /\ NoRepeats(seen')
    BY <1>1, <1>3, ElemsOfAppend DEF Typed, ListTyped, ListInv, Distinct
  <1> QED
    BY <1>2, <1>4 DEF ListInv, Distinct, Listed

LEMMA DropLists ==
    ASSUME Typed, ListInv, todo # <<>>, seen' = seen, todo' = Tail(todo)
    PROVE  Listed' = Listed \ {Head(todo)} /\ Head(todo) \in Listed /\ Distinct'
  <1>1. Elems(todo) = {Head(todo)} \cup Elems(Tail(todo))
        /\ NoRepeats(Tail(todo)) /\ Head(todo) \notin Elems(Tail(todo))
    BY ElemsOfTail DEF Typed, ListTyped, ListInv, Distinct
  <1> QED
    BY <1>1 DEF ListInv, Distinct, Listed

-----------------------------------------------------------------------------
(* The whole invariant, and the steps of the three threads and of the      *)
(* environment.                                                            *)
IInv == Typed /\ Exclusion /\ OwnerInv /\ ListInv

(* A step that moves no connection between owners. *)
LEMMA OwnersKept ==
    ASSUME OwnerInv, Listed' = Listed, UNCHANGED <<sshVars, telVars, stage>>,
           cancelled \subseteq cancelled'
    PROVE  OwnerInv'
  BY DEF OwnerInv, SshStage, TelStage, ListStage, Owned, Abandoned, SshHolds, TelHolds,
         sshVars, turn, telVars

LEMMA SameList ==
    ASSUME UNCHANGED listVars
    PROVE  Listed' = Listed /\ (Distinct => Distinct')
  BY DEF listVars, Listed, Distinct

LEMMA OwnerInit == Init => OwnerInv /\ ListInv
  <1> SUFFICES ASSUME Init PROVE OwnerInv /\ ListInv
    OBVIOUS
  <1>1. Listed = {} /\ Distinct
    BY ElemsOfEmpty DEF Init, Listed, Distinct
  <1> QED
    BY <1>1 DEF Init, OwnerInv, SshStage, TelStage, ListStage, Owned, Abandoned, Open,
                ListInv, Between

LEMMA MainStartOwns == IInv /\ MainStart => OwnerInv' /\ ListInv'
  <1> SUFFICES ASSUME IInv, MainStart PROVE OwnerInv' /\ ListInv'
    OBVIOUS
  <1>1. UNCHANGED listVars
    BY DEF MainStart, ListenSsh, ListenTelnet, OpenDevice, StartSsh, StartTelnet
  <1>2. Listed' = Listed /\ Distinct'
    BY <1>1, SameList DEF IInv, ListInv
  <1>3. mainPc \notin Passes
    BY DEF MainStart, ListenSsh, ListenTelnet, OpenDevice, StartSsh, StartTelnet, At, Passes
  <1>4. ListInv'
    BY <1>1, <1>2, <1>3 DEF IInv, ListInv, Between, listVars
  <1>5. CASE ListenSsh \/ ListenTelnet \/ OpenDevice
    BY <1>2, <1>4, <1>5, OwnersKept DEF IInv, ListenSsh, ListenTelnet, OpenDevice
  <1>6. CASE StartSsh
    <2>1. sshPc = "none" /\ sshPc' \in {"none", "new"} /\ UNCHANGED <<sshCli, sess, turn, telVars, stage, cancelled>>
      BY <1>6 DEF StartSsh, At, IInv, Exclusion, NotStarted
    <2> QED
      BY <1>2, <1>4, <2>1 DEF IInv, OwnerInv, SshStage, TelStage, ListStage, Owned, Abandoned,
         SshHolds, TelHolds, telVars
  <1>7. CASE StartTelnet
    <2>1. telPc = "none" /\ telPc' \in {"none", "accept"} /\ UNCHANGED <<telCli, try, sshVars, stage, cancelled>>
      BY <1>7 DEF StartTelnet, At, IInv, Exclusion, NotStarted, Starting
    <2> QED
      BY <1>2, <1>4, <2>1 DEF IInv, OwnerInv, SshStage, TelStage, ListStage, Owned, Abandoned,
         SshHolds, TelHolds, sshVars, turn
  <1> QED
    BY <1>5, <1>6, <1>7 DEF MainStart

LEMMA MainLockOwns == IInv /\ MainLock => OwnerInv' /\ ListInv'
  <1> SUFFICES ASSUME IInv,
                      NEW pc, NEW p,
                      \/ pc = "send_wait" /\ p = "send"
                      \/ pc = "recv_wait" /\ p = "recv"
                      \/ pc = "final_wait" /\ p = "final",
                      LockAndBegin(pc, p)
               PROVE  OwnerInv' /\ ListInv'
    BY DEF MainLock
  <1>1. todo = <<>>
    BY DEF LockAndBegin, At, IInv, ListInv, Between, Passes
  <1>2. Listed' = Listed /\ Distinct'
    BY <1>1, PassBeginLists DEF LockAndBegin, IInv
  <1>3. mainPc' \in Passes
    BY DEF LockAndBegin, Passes
  <1> QED
    BY <1>2, <1>3, OwnersKept DEF LockAndBegin, IInv, ListInv, Between

LEMMA DropOwns == IInv /\ DropVisit => OwnerInv' /\ ListInv'
  <1> SUFFICES ASSUME IInv, DropVisit PROVE OwnerInv' /\ ListInv'
    OBVIOUS
  <1> DEFINE c == Head(todo)
  <1>1. Listed' = Listed \ {c} /\ c \in Listed /\ Distinct'
    BY DropLists DEF DropVisit, IInv
  <1>2. mainPc \in Passes /\ mainPc' = mainPc
    BY DEF DropVisit, At, Passes, mainVars
  <1>3. ~SshHolds(c) /\ ~TelHolds(c)
    BY <1>1 DEF IInv, OwnerInv, ListStage
  <1>4. stage' = [stage EXCEPT ![c] = "closed"] /\ UNCHANGED <<sshVars, telVars, cancelled>>
    BY DEF DropVisit
  <1>5. Bound
    BY TypedBound DEF IInv
  <1> HIDE DEF c
  <1>6. SshStage'
    BY <1>3, <1>4, <1>5 DEF IInv, OwnerInv, SshStage, SshHolds, Bound, sshVars, turn
  <1>7. TelStage'
    BY <1>3, <1>4, <1>5 DEF IInv, OwnerInv, TelStage, TelHolds, Bound, telVars
  <1>8. ListStage' /\ Owned' /\ Abandoned'
    BY <1>1, <1>4, <1>5 DEF IInv, OwnerInv, ListStage, Owned, Abandoned, SshHolds, TelHolds, Open,
                            Bound, sshVars, turn, telVars
  <1>9. ListInv'
    BY <1>1, <1>2 DEF ListInv, Between
  <1> QED
    BY <1>6, <1>7, <1>8, <1>9 DEF OwnerInv

LEMMA MainStepOwns == IInv /\ MainStep => OwnerInv' /\ ListInv'
  <1> SUFFICES ASSUME IInv, MainStep PROVE OwnerInv' /\ ListInv'
    OBVIOUS
  <1>1. CASE SendVisit \/ RecvKeep \/ RecvTyped
    <2>1. Listed' = Listed /\ Distinct'
      BY <1>1, KeepLists DEF SendVisit, RecvKeep, RecvTyped, IInv
    <2>2. mainPc' \in Passes
      BY <1>1 DEF SendVisit, RecvKeep, RecvTyped, At, Passes, mainVars
    <2>3. OwnerInv'
      BY <1>1, <2>1, OwnersKept DEF SendVisit, RecvKeep, RecvTyped, IInv
    <2> QED
      BY <2>1, <2>2, <2>3 DEF ListInv, Between
  <1>2. CASE WriteDevice \/ EndAndUnlock
    <2>1. Listed' = Listed /\ Distinct'
      BY <1>2, SameList DEF WriteDevice, EndAndUnlock, IInv, ListInv
    <2>2. Between'
      BY <1>2 DEF WriteDevice, EndAndUnlock, At, Between, Passes, listVars
    <2>3. OwnerInv'
      BY <1>2, <2>1, OwnersKept DEF WriteDevice, EndAndUnlock, IInv
    <2> QED
      BY <2>1, <2>2, <2>3 DEF ListInv
  <1>3. ASSUME UNCHANGED <<listVars, sshVars, telVars, stage>>, cancelled \subseteq cancelled',
               mainPc \notin Passes
        PROVE  OwnerInv' /\ ListInv'
    <2>1. Listed' = Listed /\ Distinct'
      BY <1>3, SameList DEF IInv, ListInv
    <2> QED
      BY <1>3, <2>1, OwnersKept DEF IInv, ListInv, Between, listVars
  <1>4. CASE LoopTest \/ ReadDevice \/ CloseDevice \/ FinalizeSshAcception \/ FinalizeTelnetAcception
    BY <1>3, <1>4 DEF LoopTest, ReadDevice, CloseDevice, FinalizeSshAcception, FinalizeTelnetAcception,
                      At, Passes
  <1>5. CASE Cancel("cancel_ssh", "ssh", "join_ssh") \/ Cancel("cancel_tel", "tel", "join_tel")
    BY <1>3, <1>5 DEF Cancel, At, Passes
  <1>6. CASE Join("join_ssh", sshPc, "cancel_tel") \/ Join("join_tel", telPc, "done")
    BY <1>3, <1>6 DEF Join, At, Passes
  <1> QED
    BY <1>1, <1>2, <1>4, <1>5, <1>6, DropOwns DEF MainStep

(* A registration hands the client from the acceptor to the list. *)
LEMMA SshStepOwnsAll == IInv /\ SshStep => OwnerInv' /\ ListInv'
  <1> SUFFICES ASSUME IInv, SshStep PROVE OwnerInv' /\ ListInv'
    OBVIOUS
  <1>0. Bound
    BY TypedBound DEF IInv
  <1>1. CASE SshRegister
    <2>1. sess = "bound" /\ sshCli \in SshClients /\ sshCli \in Clients /\ SshHolds(sshCli)
      BY <1>0, <1>1 DEF SshRegister, Bound, SshHolds
    <2>2. sshCli \notin Listed /\ sshCli \in Legit /\ stage[sshCli] = "shell" /\ ~TelHolds(sshCli)
      BY <1>0, <1>1, <2>1 DEF SshRegister, IInv, OwnerInv, SshStage, ListStage, Bound, TelHolds
    <2>3. mainPc \notin Passes /\ UNCHANGED mainPc
      BY <1>1 DEF SshRegister, IInv, Exclusion, MutualExclusion, SshInside, MainInside, mainVars
    <2>4. Listed' = Listed \cup {sshCli} /\ Distinct' /\ todo' = <<>>
      BY <1>1, <2>1, <2>2, <2>3, RegistrationLists DEF SshRegister, IInv
    <2>5. sshPc' = "new" /\ UNCHANGED <<sshCli, sess, turn, stage, telVars, cancelled>>
      BY <1>1 DEF SshRegister
    <2>6. OwnerInv'
      BY <2>1, <2>2, <2>4, <2>5 DEF IInv, OwnerInv, SshStage, TelStage, ListStage, Owned, Abandoned,
         SshHolds, TelHolds, telVars
    <2> QED
      BY <2>4, <2>6 DEF ListInv, Between
  <1>2. CASE ~SshRegister
    <2>1. UNCHANGED <<listVars, mainPc>>
      BY <1>2 DEF SshStep, SshNew, SshAccept, SshAcceptError, SshKexOk, SshKexFail, SshUseFreedSession,
         SshUseFreedBind, SshAuthMessage, SshChanMessage, SshShellMessage, SshNoMessage, SshLock,
         SshCancelled, SshUnchanged, mainVars
    <2>2. ListInv'
      BY <2>1, SameList DEF IInv, ListInv, Between, listVars
    <2> QED
      BY <1>0, <1>2, <2>2, SshStepOwns DEF IInv
  <1> QED
    BY <1>1, <1>2

LEMMA TelStepOwnsAll == IInv /\ TelStep => OwnerInv' /\ ListInv'
  <1> SUFFICES ASSUME IInv, TelStep PROVE OwnerInv' /\ ListInv'
    OBVIOUS
  <1>0. Bound
    BY TypedBound DEF IInv
  <1>1. CASE TelRegister
    <2>1. telCli \in TelnetClients /\ telCli \in Clients /\ TelHolds(telCli)
      BY <1>0, <1>1 DEF TelRegister, Bound, TelHolds
    <2>2. telCli \notin Listed /\ telCli \in Legit /\ stage[telCli] = "shell" /\ ~SshHolds(telCli)
      BY <1>0, <1>1, <2>1 DEF TelRegister, IInv, OwnerInv, TelStage, ListStage, Bound, SshHolds
    <2>3. mainPc \notin Passes /\ UNCHANGED mainPc
      BY <1>1 DEF TelRegister, IInv, Exclusion, MutualExclusion, TelInside, MainInside, TelUnchanged, mainVars
    <2>4. Listed' = Listed \cup {telCli} /\ Distinct' /\ todo' = <<>>
      BY <1>1, <2>1, <2>2, <2>3, RegistrationLists DEF TelRegister, IInv
    <2>5. telPc' = "accept" /\ UNCHANGED <<sshVars, stage, cancelled>>
      BY <1>1 DEF TelRegister, TelUnchanged
    <2>6. OwnerInv'
      BY <2>1, <2>2, <2>4, <2>5 DEF IInv, OwnerInv, SshStage, TelStage, ListStage, Owned, Abandoned,
         SshHolds, TelHolds, sshVars, turn
    <2> QED
      BY <2>4, <2>6 DEF ListInv, Between
  <1>2. CASE ~TelRegister
    <2>1. UNCHANGED <<listVars, mainPc>>
      BY <1>2 DEF TelStep, TelAccept, TelTry, TelPeerLost, TelLock, TelCancelled, TelUnchanged, mainVars
    <2>2. ListInv'
      BY <2>1, SameList DEF IInv, ListInv, Between, listVars
    <2> QED
      BY <1>0, <1>2, <2>2, TelStepOwns DEF IInv
  <1> QED
    BY <1>1, <1>2

LEMMA EnvironmentOwns == IInv /\ Environment => OwnerInv' /\ ListInv'
  <1> SUFFICES ASSUME IInv, Environment PROVE OwnerInv' /\ ListInv'
    OBVIOUS
  <1>1. UNCHANGED <<listVars, mainPc, sshVars, telVars, cancelled>>
    BY DEF Environment, Connect, HangUp, Stall, Chatter, DeviceSticks, Unplug, Sigint, Sigpipe, mainVars
  <1>2. Listed' = Listed /\ ListInv'
    BY <1>1, SameList DEF IInv, ListInv, Between, listVars
  <1>3. ASSUME NEW c \in Clients, Connect(c) PROVE OwnerInv'
    <2>1. stage[c] = "idle" /\ stage' = [stage EXCEPT ![c] = "queued"]
      BY <1>3 DEF Connect
    <2>2. Bound
      BY TypedBound DEF IInv
    <2> QED
      BY <1>1, <1>2, <2>1, <2>2 DEF IInv, OwnerInv, SshStage, TelStage, ListStage, Owned, Abandoned,
         SshHolds, TelHolds, Open, Bound, sshVars, turn, telVars
  <1>4. CASE UNCHANGED stage
    BY <1>1, <1>2, <1>4, OwnersKept DEF IInv
  <1> QED
    BY <1>2, <1>3, <1>4 DEF Environment, HangUp, Stall, Chatter, DeviceSticks, Unplug, Sigint, Sigpipe

LEMMA IInvInit == Init => IInv
  BY TypedInit, ExclusionInit, OwnerInit DEF IInv

LEMMA IInvStep == IInv /\ [Next]_vars => IInv'
  <1> SUFFICES ASSUME IInv, [Next]_vars PROVE OwnerInv' /\ ListInv'
    BY TypedStep, ExclusionStep DEF IInv
  <1>1. CASE UNCHANGED vars
    <2>1. UNCHANGED <<listVars, mainPc, sshVars, telVars, stage, cancelled>>
      BY <1>1 DEF vars, mainVars
    <2>2. Listed' = Listed /\ ListInv'
      BY <2>1, SameList DEF IInv, ListInv, Between, listVars
    <2> QED
      BY <2>1, <2>2, OwnersKept DEF IInv
  <1> QED
    BY <1>1, MainStartOwns, MainLockOwns, MainStepOwns, SshStepOwnsAll, TelStepOwnsAll, EnvironmentOwns DEF Next

LEMMA IInvHolds == Spec => []IInv
  BY IInvInit, IInvStep, PTL DEF Spec

-----------------------------------------------------------------------------
(* Nobody gets on the list who did not give the right account on this very *)
(* connection and, over SSH, open a channel and ask for a shell: neither   *)
(* the acceptors' locals, nor a freed session, nor the shutdown, lets one  *)
(* through.                                                                *)
THEOREM OnlyAuthorised == Spec => []ListedAreAuthorised
  <1>1. IInv => ListedAreAuthorised
    BY DEF IInv, OwnerInv, ListStage, ListedAreAuthorised
  <1> QED
    BY <1>1, IInvHolds, PTL

(* An open connection is either in the hands of the acceptor that took it, *)
(* or once on the list; one without owner means an acceptor was cancelled. *)
THEOREM OwnersAreUnique == Spec => []OneOwner
  <1>1. ASSUME IInv PROVE OneOwner
    <2>0. Bound
      BY <1>1, TypedBound DEF IInv
    <2>1. Len(seen) + Len(todo) = Cardinality(Listed)
      BY <1>1, CountsElements DEF IInv, Typed, ListTyped, ListInv, Distinct, Listed
    <2>2. ASSUME NEW c \in Clients PROVE stage[c] \in Open <=> (SshHolds(c) \/ TelHolds(c) \/ c \in Listed)
      BY <1>1, <2>0 DEF IInv, OwnerInv, SshStage, TelStage, ListStage, Owned, SshHolds, TelHolds, Open
    <2>3. ASSUME NEW c \in Clients
          PROVE  /\ c \in Listed => ~SshHolds(c) /\ ~TelHolds(c)
                 /\ stage[c] = "abandoned" => cancelled # {}
      BY <1>1 DEF IInv, OwnerInv, ListStage, Abandoned
    <2> QED
      BY <2>1, <2>2, <2>3 DEF OneOwner
  <1> QED
    BY <1>1, IInvHolds, PTL

-----------------------------------------------------------------------------
(* The list under the semaphore is a ClientRoster.  In its terms the       *)
(* server's passes are the stretches between sem_wait and sem_post of      *)
(* main, and every other step than the list's own is a stutter.            *)
PassNow == IF mainPc = "write" THEN "recv" ELSE IF MainInside THEN mainPc ELSE "none"

LEMMA RosterStutter ==
    ASSUME UNCHANGED <<listVars, gone>>, PassNow' = PassNow, Closed' = Closed
    PROVE  UNCHANGED Roster!vars
  BY DEF Roster!vars, PassNow, listVars

LEMMA ClosedKept ==
    ASSUME Bound, NEW c, NEW v, v # "closed", stage[c] # "closed",
           UNCHANGED stage \/ stage' = [stage EXCEPT ![c] = v]
    PROVE  Closed' = Closed
  BY DEF Closed, Bound

LEMMA SamePass ==
    ASSUME UNCHANGED mainPc
    PROVE  PassNow' = PassNow
  BY DEF PassNow, MainInside

LEMMA SshStepRoster ==
    ASSUME IInv, SshStep, ~SshRegister
    PROVE  UNCHANGED Roster!vars
  <1>0. Bound
    BY TypedBound DEF IInv
  <1>1. UNCHANGED <<listVars, mainPc, gone>>
    BY DEF SshStep, SshNew, SshAccept, SshAcceptError, SshKexOk, SshKexFail, SshUseFreedSession,
           SshUseFreedBind, SshAuthMessage, SshChanMessage, SshShellMessage, SshNoMessage, SshLock,
           SshCancelled, SshRefuse, SshUnchanged, mainVars, envVars
  <1>2. CASE UNCHANGED stage
    BY <1>0, <1>1, <1>2, SamePass, RosterStutter DEF Closed
  <1>3. ASSUME NEW c \in SshClients, SshAccept(c) PROVE Closed' = Closed
    BY <1>0, <1>3, ClosedKept DEF SshAccept
  <1>4. ASSUME ~UNCHANGED stage, ~\E c \in SshClients : SshAccept(c) PROVE Closed' = Closed
    <2>1. \E v \in Stages \ {"closed"} : stage' = [stage EXCEPT ![sshCli] = v]
      BY <1>4 DEF SshStep, SshNew, SshAcceptError, SshKexOk, SshKexFail, SshUseFreedSession,
           SshUseFreedBind, SshAuthMessage, SshChanMessage, SshShellMessage, SshNoMessage, SshLock,
           SshCancelled, SshRefuse, Stages, Open
    <2>2. sess = "bound" /\ sshPc \in {"kex", "auth", "chan", "shell", "wait", "reg"}
      BY <1>0, <1>4 DEF IInv, OwnerInv, SshStage, Bound, SshStep, SshNew, SshAcceptError, SshKexOk,
           SshKexFail, SshUseFreedSession, SshUseFreedBind, SshAuthMessage, SshChanMessage,
           SshShellMessage, SshNoMessage, SshLock, SshCancelled
    <2>3. stage[sshCli] # "closed"
      BY <2>2 DEF IInv, OwnerInv, SshStage
    <2> QED
      BY <1>0, <2>1, <2>3, ClosedKept
  <1> QED
    BY <1>1, <1>2, <1>3, <1>4, SamePass, RosterStutter

LEMMA TelStepRoster ==
    ASSUME IInv, TelStep, ~TelRegister
    PROVE  UNCHANGED Roster!vars
  <1>0. Bound
    BY TypedBound DEF IInv
  <1>1. UNCHANGED <<listVars, mainPc, gone>>
    BY DEF TelStep, TelAccept, TelTry, TelPeerLost, TelLock, TelCancelled, TelUnchanged, mainVars, envVars
  <1>2. CASE UNCHANGED stage
    BY <1>0, <1>1, <1>2, SamePass, RosterStutter DEF Closed
  <1>3. ASSUME NEW c \in TelnetClients, TelAccept(c) PROVE Closed' = Closed
    BY <1>0, <1>3, ClosedKept DEF TelAccept
  <1>4. ASSUME ~UNCHANGED stage, ~\E c \in TelnetClients : TelAccept(c) PROVE Closed' = Closed
    <2>1. \E v \in Stages \ {"closed"} : stage' = [stage EXCEPT ![telCli] = v]
      BY <1>4 DEF TelStep, TelTry, TelPeerLost, TelLock, TelCancelled, Stages, Open
    <2>2. telPc \in {"auth", "wait", "reg"}
      BY <1>4 DEF TelStep, TelTry, TelPeerLost, TelLock, TelCancelled
    <2>3. stage[telCli] # "closed"
      BY <2>2 DEF IInv, OwnerInv, TelStage
    <2> QED
      BY <1>0, <2>1, <2>3, ClosedKept
  <1> QED
    BY <1>1, <1>2, <1>3, <1>4, SamePass, RosterStutter

(* What ClientRoster asks of a newcomer. *)
LEMMA RegistersInRoster ==
    ASSUME IInv, NEW c \in Clients, c \notin Listed, stage[c] = "shell", mainPc \notin Passes,
           AddToList(c), UNCHANGED <<mainPc, stage, gone>>
    PROVE  Roster!Register(c)
  <1>1. todo = <<>> /\ seen' = Append(seen, c) /\ todo' = <<>>
    BY RegistrationLists DEF IInv, ListInv, Between
  <1>2. seen \o todo = seen
    BY <1>1, ConcatEmptySeq DEF IInv, Typed, ListTyped
  <1>3. c \notin Roster!Elems(Roster!Roster)
    BY <1>2 DEF Roster!Elems, Roster!Roster, Listed, Elems
  <1>4. c \notin Closed /\ Closed' = Closed
    BY DEF Closed
  <1>5. PassNow = "none" /\ PassNow' = "none"
    BY DEF PassNow, MainInside, Passes
  <1> QED
    BY <1>1, <1>3, <1>4, <1>5 DEF Roster!Register, PassNow

LEMMA RegistrationRoster ==
    ASSUME IInv, SshRegister \/ TelRegister
    PROVE  \E c \in Clients : Roster!Register(c)
  <1>0. Bound
    BY TypedBound DEF IInv
  <1>1. CASE SshRegister
    <2>1. sshCli \in Clients /\ sshCli \notin Listed /\ stage[sshCli] = "shell"
      BY <1>0, <1>1 DEF SshRegister, IInv, OwnerInv, SshStage, ListStage, Bound, SshHolds
    <2>2. mainPc \notin Passes /\ AddToList(sshCli) /\ UNCHANGED <<mainPc, stage, gone>>
      BY <1>1 DEF SshRegister, IInv, Exclusion, MutualExclusion, SshInside, MainInside, mainVars, envVars
    <2> QED
      BY <2>1, <2>2, RegistersInRoster
  <1>2. CASE TelRegister
    <2>1. telCli \in Clients /\ telCli \notin Listed /\ stage[telCli] = "shell"
      BY <1>0, <1>2 DEF TelRegister, IInv, OwnerInv, TelStage, ListStage, Bound, TelHolds
    <2>2. mainPc \notin Passes /\ AddToList(telCli) /\ UNCHANGED <<mainPc, stage, gone>>
      BY <1>2 DEF TelRegister, TelUnchanged, IInv, Exclusion, MutualExclusion, TelInside, MainInside,
                  mainVars, envVars
    <2> QED
      BY <2>1, <2>2, RegistersInRoster
  <1> QED
    BY <1>1, <1>2

LEMMA MainRoster ==
    ASSUME IInv, MainStart \/ MainLock \/ MainStep
    PROVE  Roster!Next \/ UNCHANGED Roster!vars
  <1>1. ASSUME NEW pc, NEW p,
               \/ pc = "send_wait" /\ p = "send"
               \/ pc = "recv_wait" /\ p = "recv"
               \/ pc = "final_wait" /\ p = "final",
               LockAndBegin(pc, p)
        PROVE  Roster!Next
    <2>1. PassNow = "none" /\ PassNow' = p /\ UNCHANGED <<gone, Closed>>
      BY <1>1 DEF LockAndBegin, At, PassNow, MainInside, Passes, Closed, envVars
    <2>2. Roster!Begin(p)
      BY <1>1, <2>1 DEF LockAndBegin, Roster!Begin, PassNow
    <2> QED
      BY <1>1, <2>2 DEF Roster!Next
  <1>2. CASE SendVisit \/ RecvKeep \/ RecvTyped
    <2>1. PassNow \in {"send", "recv"} /\ PassNow' = PassNow /\ UNCHANGED <<gone, Closed>>
      BY <1>2 DEF SendVisit, RecvKeep, RecvTyped, At, PassNow, MainInside, Passes, Closed, mainVars, envVars
    <2>2. PassNow = "recv" => Head(todo) \notin gone
      BY <1>2 DEF SendVisit, RecvKeep, RecvTyped, At, PassNow, MainInside, Passes
    <2>3. Roster!Keep
      BY <1>2, <2>1, <2>2 DEF SendVisit, RecvKeep, RecvTyped, Roster!Keep, PassNow
    <2> QED
      BY <2>3 DEF Roster!Next
  <1>3. CASE DropVisit
    <2>1. PassNow' = PassNow /\ UNCHANGED gone
      BY <1>3, SamePass DEF DropVisit, mainVars, envVars
    <2>2. \/ PassNow = "recv" /\ Head(todo) \in gone
          \/ PassNow = "final"
      BY <1>3 DEF DropVisit, At, PassNow, MainInside, Passes
    <2>3. Head(todo) \in Clients
      BY <1>3, HeadOfTodo DEF DropVisit, IInv
    <2>4. Closed' = Closed \cup {Head(todo)}
      BY <1>3, <2>3 DEF DropVisit, Closed, IInv, Typed, StageTyped
    <2>5. Roster!Drop
      BY <1>3, <2>1, <2>2, <2>4 DEF DropVisit, Roster!Drop, PassNow
    <2> QED
      BY <2>5 DEF Roster!Next
  <1>4. CASE EndAndUnlock
    <2>1. PassNow # "none" /\ PassNow' = "none" /\ UNCHANGED <<listVars, gone, Closed>>
      BY <1>4 DEF EndAndUnlock, PassNow, MainInside, Passes, Closed, envVars
    <2>2. Roster!End
      BY <1>4, <2>1 DEF EndAndUnlock, Roster!End, PassNow, listVars
    <2> QED
      BY <2>2 DEF Roster!Next
  <1>5. ASSUME UNCHANGED <<listVars, stage, gone>>, PassNow' = PassNow
        PROVE  UNCHANGED Roster!vars
    BY <1>5, RosterStutter DEF Closed
  <1>6. CASE WriteDevice \/ LoopTest \/ ReadDevice \/ CloseDevice \/ FinalizeSshAcception \/ FinalizeTelnetAcception
    BY <1>5, <1>6 DEF WriteDevice, LoopTest, ReadDevice, CloseDevice, FinalizeSshAcception,
                      FinalizeTelnetAcception, At, PassNow, MainInside, Passes, envVars
  <1>7. CASE MainStart
    BY <1>5, <1>7 DEF MainStart, ListenSsh, ListenTelnet, OpenDevice, StartSsh, StartTelnet, At,
                      PassNow, MainInside, Passes, envVars
  <1>8. CASE Cancel("cancel_ssh", "ssh", "join_ssh") \/ Cancel("cancel_tel", "tel", "join_tel")
    BY <1>5, <1>8 DEF Cancel, At, PassNow, MainInside, Passes, envVars
  <1>9. CASE Join("join_ssh", sshPc, "cancel_tel") \/ Join("join_tel", telPc, "done")
    BY <1>5, <1>9 DEF Join, At, PassNow, MainInside, Passes, envVars
  <1> QED
    BY <1>1, <1>2, <1>3, <1>4, <1>6, <1>7, <1>8, <1>9 DEF MainLock, MainStep

LEMMA EnvironmentRoster ==
    ASSUME IInv, Environment
    PROVE  Roster!Next \/ UNCHANGED Roster!vars
  <1>1. UNCHANGED <<listVars, mainPc>>
    BY DEF Environment, Connect, HangUp, Stall, Chatter, DeviceSticks, Unplug, Sigint, Sigpipe, mainVars
  <1>2. PassNow' = PassNow
    BY <1>1, SamePass
  <1>3. ASSUME NEW c \in Clients, Connect(c) PROVE UNCHANGED Roster!vars
    <2>1. Closed' = Closed
      BY <1>3, TypedBound, ClosedKept DEF Connect, IInv
    <2> QED
      BY <1>1, <1>2, <1>3, <2>1, RosterStutter DEF Connect, envVars
  <1>4. ASSUME NEW c \in Clients, HangUp(c) PROVE Roster!Next
    <2>1. Roster!HangUp(c)
      BY <1>1, <1>2, <1>4 DEF HangUp, Roster!HangUp, PassNow, Closed, listVars
    <2> QED
      BY <2>1 DEF Roster!Next
  <1>5. CASE (\E c \in SshClients : Stall(c)) \/ (\E c \in TelnetClients : Chatter(c)) \/ DeviceSticks \/ Unplug \/ Sigint \/ Sigpipe
    <2>1. UNCHANGED <<stage, gone>>
      BY <1>5 DEF Stall, Chatter, DeviceSticks, Unplug, Sigint, Sigpipe, envVars
    <2> QED
      BY <1>1, <1>2, <2>1, RosterStutter DEF Closed
  <1> QED
    BY <1>3, <1>4, <1>5 DEF Environment

LEMMA RosterInit == Init => Roster!Init
  BY DEF Init, Roster!Init, MainInside, Passes, Closed

LEMMA RosterStep == IInv /\ [Next]_vars => [Roster!Next]_Roster!vars
  <1> SUFFICES ASSUME IInv, [Next]_vars PROVE Roster!Next \/ UNCHANGED Roster!vars
    OBVIOUS
  <1>1. CASE UNCHANGED vars
    BY <1>1, SamePass, RosterStutter DEF vars, mainVars, envVars, Closed
  <1>2. CASE SshStep \/ TelStep
    BY <1>2, SshStepRoster, TelStepRoster, RegistrationRoster DEF Roster!Next
  <1> QED
    BY <1>1, <1>2, MainRoster, EnvironmentRoster DEF Next

(* The semaphore makes the shared list what ClientRoster says it is: every *)
(* broadcast, reception and shutdown is one pass that no registration cuts *)
(* into, and nobody is listed twice or after being closed.                 *)
THEOREM ServerImplementsRoster == Spec => ImplementsRoster
  BY RosterInit, RosterStep, IInvHolds, PTL DEF Spec, ImplementsRoster, Roster!Spec

-----------------------------------------------------------------------------
(* DeviceStream speaks of listed clients only, so no step preserves it by  *)
(* itself: a client that gets on the list must have received nothing so    *)
(* far, and its registration must not be ahead of the broadcasts.          *)
Rising(s, low, limit) ==
    /\ \A i \in DOMAIN s : low < s[i] /\ s[i] <= limit
    /\ \A i, j \in DOMAIN s : i < j => s[i] < s[j]

Whole(s, low, limit) == s = [k \in 1..limit - low |-> low + k]

(* A client that was not on the list so far. *)
New(c) == SshHolds(c) \/ TelHolds(c) \/ stage[c] \in {"idle", "queued"}

Receives ==
    /\ \A c \in Clients : joined[c] <= Due(c)
    /\ \A c \in Listed : Rising(got[c], joined[c], Due(c))
    /\ \A c \in (Listed \cap SshClients) \ gone : Whole(got[c], joined[c], Due(c))

Fresh == \A c \in Clients : New(c) => got[c] = <<>>

StreamInv == Receives /\ Fresh

LEMMA EmptyStream == \A n \in Int : Rising(<<>>, n, n) /\ Whole(<<>>, n, n)
  <1> SUFFICES ASSUME NEW n \in Int PROVE Rising(<<>>, n, n) /\ Whole(<<>>, n, n)
    OBVIOUS
  <1>1. 1..n - n = {}
    OBVIOUS
  <1>2. <<>> = [k \in {} |-> n + k]
    OBVIOUS
  <1> QED
    BY <1>1, <1>2 DEF Rising, Whole

LEMMA RisingLonger ==
    ASSUME NEW s \in Seq(Int), NEW low \in Int, NEW m \in Int, NEW n \in Int, m <= n, Rising(s, low, m)
    PROVE  Rising(s, low, n)
  <1>1. \A i \in DOMAIN s : s[i] \in Int
    BY ElementOfSeq, LenProperties
  <1> QED
    BY <1>1 DEF Rising

(* The next chunk at the end of a stream. *)
LEMMA NextChunk ==
    ASSUME NEW s \in Seq(Int), NEW low \in Int, NEW n \in Int, low <= n - 1
    PROVE  /\ Rising(s, low, n - 1) => Rising(Append(s, n), low, n)
           /\ Whole(s, low, n - 1) => Whole(Append(s, n), low, n)
  <1> DEFINE t == Append(s, n)
  <1>1. /\ Len(s) \in Nat /\ DOMAIN s = 1..Len(s)
        /\ t \in Seq(Int) /\ Len(t) = Len(s) + 1 /\ DOMAIN t = 1..Len(s) + 1
        /\ t[Len(s) + 1] = n
        /\ \A i \in 1..Len(s) : t[i] = s[i]
    BY AppendProperties, LenProperties
  <1>2. \A i \in DOMAIN s : s[i] \in Int
    BY ElementOfSeq, LenProperties
  <1> HIDE DEF t
  <1>3. \A i \in 1..Len(s) + 1 : i \in 1..Len(s) \/ i = Len(s) + 1
    BY <1>1
  <1>4. ASSUME Rising(s, low, n - 1) PROVE Rising(t, low, n)
    <2>1. ASSUME NEW i \in DOMAIN t, NEW j \in DOMAIN t, i < j PROVE t[i] < t[j]
      <3>1. i \in 1..Len(s)
        BY <1>1, <2>1
      <3>2. CASE j \in 1..Len(s)
        BY <1>1, <1>4, <2>1, <3>1, <3>2 DEF Rising
      <3>3. CASE j = Len(s) + 1
        BY <1>1, <1>2, <1>4, <3>1, <3>3 DEF Rising
      <3> QED
        BY <1>1, <1>3, <3>2, <3>3
    <2>2. ASSUME NEW i \in DOMAIN t PROVE low < t[i] /\ t[i] <= n
      BY <1>1, <1>2, <1>3, <1>4 DEF Rising
    <2> QED
      BY <2>1, <2>2 DEF Rising
  <1>5. ASSUME Whole(s, low, n - 1) PROVE Whole(t, low, n)
    <2>1. DOMAIN s = 1..(n - 1) - low /\ \A k \in 1..(n - 1) - low : s[k] = low + k
      BY <1>5 DEF Whole
    <2>2. Len(s) = (n - 1) - low
      <3>1. (n - 1) - low \in Nat
        OBVIOUS
      <3> QED
        BY <1>1, <2>1, <3>1
    <2>3. DOMAIN t = 1..n - low
      BY <1>1, <2>2
    <2>4. ASSUME NEW k \in 1..n - low PROVE t[k] = low + k
      <3>1. CASE k \in 1..Len(s)
        BY <1>1, <2>1, <2>2, <3>1
      <3>2. CASE k = Len(s) + 1
        BY <1>1, <2>2, <3>2
      <3> QED
        BY <1>1, <1>3, <2>3, <3>1, <3>2
    <2>5. t = [k \in DOMAIN t |-> t[k]]
      BY <1>1
    <2> QED
      BY <2>3, <2>4, <2>5 DEF Whole
  <1> QED
    BY <1>4, <1>5 DEF t

(* The types of the numbers. *)
LEMMA ChunkTypes ==
    ASSUME Typed
    PROVE  /\ chunk \in Int
           /\ \A c \in Clients : got[c] \in Seq(Int) /\ joined[c] \in Int /\ Due(c) \in Int
  <1>1. chunk \in Int
    BY DEF Typed, MainTyped
  <1>2. ASSUME NEW c \in Clients PROVE got[c] \in Seq(Int) /\ joined[c] \in Int
    <2>1. got[c] \in Seq(1..MaxChunks) /\ joined[c] \in 0..MaxChunks
      BY DEF Typed, GotTyped
    <2>2. 1..MaxChunks \subseteq Int /\ 0..MaxChunks \subseteq Int
      BY BoundsAssumption
    <2> QED
      BY <2>1, <2>2, SeqMonotonic
  <1> QED
    BY <1>1, <1>2 DEF Due, Broadcast

-----------------------------------------------------------------------------
(* A step that sends nothing and registers nobody: nobody's place against  *)
(* the broadcasts moves.                                                   *)
LEMMA StreamKept ==
    ASSUME StreamInv,
           UNCHANGED <<got, joined>>,
           \A c \in Clients : Due(c)' = Due(c),
           gone \subseteq gone',
           Listed' \subseteq Listed, Listed \subseteq Clients,
           \A c \in Clients : New(c)' => New(c)
    PROVE  StreamInv'
  <1>1. \A c \in Clients : joined'[c] <= Due(c)'
    BY DEF StreamInv, Receives
  <1>2. \A c \in Listed' : Rising(got[c], joined[c], Due(c))'
    BY DEF StreamInv, Receives, Rising
  <1>3. \A c \in (Listed' \cap SshClients) \ gone' : Whole(got[c], joined[c], Due(c))'
    BY DEF StreamInv, Receives, Whole
  <1>4. Fresh'
    BY DEF StreamInv, Fresh
  <1> QED
    BY <1>1, <1>2, <1>3, <1>4 DEF StreamInv, Receives

(* A registration, between two passes: the newcomer has received nothing,  *)
(* and nothing is due to it.                                               *)
LEMMA StreamJoins ==
    ASSUME IInv, StreamInv,
           NEW d \in Clients, New(d), mainPc \notin Passes,
           UNCHANGED <<mainPc, chunk, got, gone>>,
           joined' = [joined EXCEPT ![d] = Broadcast],
           Listed' = Listed \cup {d}, Listed \subseteq Clients,
           \A c \in Clients : New(c)' => New(c)
    PROVE  StreamInv'
  <1>1. \A c \in Clients : Due(c)' = Due(c) /\ Due(c) = Broadcast
    BY DEF Due, Broadcast, Passes
  <1>2. /\ joined'[d] = Due(d) /\ \A c \in Clients \ {d} : joined'[c] = joined[c]
        /\ Due(d) \in Int
    BY <1>1, ChunkTypes DEF IInv, Typed, GotTyped
  <1>3. got[d] = <<>>
    BY DEF StreamInv, Fresh
  <1>4. \A c \in Clients : joined'[c] <= Due(c)'
    BY <1>1, <1>2 DEF StreamInv, Receives
  <1>5. Rising(got[d], joined[d], Due(d))' /\ Whole(got[d], joined[d], Due(d))'
    BY <1>1, <1>2, <1>3, EmptyStream DEF Rising, Whole
  <1>6. \A c \in Listed' : Rising(got[c], joined[c], Due(c))'
    BY <1>1, <1>2, <1>5 DEF StreamInv, Receives, Rising
  <1>7. \A c \in (Listed' \cap SshClients) \ gone' : Whole(got[c], joined[c], Due(c))'
    BY <1>1, <1>2, <1>5 DEF StreamInv, Receives, Whole
  <1>8. Fresh'
    BY DEF StreamInv, Fresh
  <1> QED
    BY <1>4, <1>6, <1>7, <1>8 DEF StreamInv, Receives

(* The list is read by Due only while a broadcast is under way. *)
LEMMA DueKept ==
    ASSUME UNCHANGED <<mainPc, chunk>>, mainPc # "send" \/ UNCHANGED seen
    PROVE  \A c \in Clients : Due(c)' = Due(c)
  BY DEF Due, Broadcast

LEMMA DueElsewhere ==
    ASSUME UNCHANGED chunk, mainPc \notin {"send_wait", "send"}, mainPc' \notin {"send_wait", "send"}
    PROVE  \A c \in Clients : Due(c)' = Due(c)
  BY DEF Due, Broadcast

LEMMA NewKept ==
    ASSUME UNCHANGED <<sshVars, telVars, stage>>
    PROVE  \A c \in Clients : New(c)' => New(c)
  BY DEF New, SshHolds, TelHolds, sshVars, telVars

LEMMA StreamInit == Init => StreamInv
  <1> SUFFICES ASSUME Init PROVE StreamInv
    OBVIOUS
  <1>1. \A c \in Clients : got[c] = <<>> /\ joined[c] = 0 /\ Due(c) = 0
    BY DEF Init, Due, Broadcast
  <1> QED
    BY <1>1, EmptyStream, TypedInit, TypedBound DEF StreamInv, Receives, Fresh, Bound

LEMMA MainStartStream == IInv /\ StreamInv /\ MainStart => StreamInv'
  <1> SUFFICES ASSUME IInv, StreamInv, MainStart PROVE StreamInv'
    OBVIOUS
  <1>1. UNCHANGED <<listVars, chunk, got, joined, gone, stage>>
        /\ mainPc \notin {"send_wait", "send"} /\ mainPc' \notin {"send_wait", "send"}
    BY DEF MainStart, ListenSsh, ListenTelnet, OpenDevice, StartSsh, StartTelnet, At, envVars
  <1>2. \A c \in Clients : New(c)' => New(c)
    BY DEF MainStart, ListenSsh, ListenTelnet, OpenDevice, StartSsh, StartTelnet,
           New, SshHolds, TelHolds, sshVars, telVars
  <1>3. Listed' = Listed /\ Listed \subseteq Clients
    BY <1>1, SameList, TypedBound DEF IInv, Bound
  <1> QED
    BY <1>1, <1>2, <1>3, DueElsewhere, StreamKept

LEMMA MainLockStream == IInv /\ StreamInv /\ MainLock => StreamInv'
  <1> SUFFICES ASSUME IInv, StreamInv,
                      NEW pc, NEW p,
                      \/ pc = "send_wait" /\ p = "send"
                      \/ pc = "recv_wait" /\ p = "recv"
                      \/ pc = "final_wait" /\ p = "final",
                      LockAndBegin(pc, p)
               PROVE  StreamInv'
    BY DEF MainLock
  <1>1. todo = <<>> /\ Listed \subseteq Clients
    BY TypedBound DEF LockAndBegin, At, IInv, ListInv, Between, Passes, Bound
  <1>2. Listed' = Listed
    BY <1>1, PassBeginLists DEF LockAndBegin, IInv
  <1>3. \A c \in Clients : Due(c)' = Due(c)
    BY ElemsOfEmpty DEF LockAndBegin, At, Due, Broadcast
  <1> QED
    BY <1>1, <1>2, <1>3, NewKept, StreamKept DEF LockAndBegin, envVars

-----------------------------------------------------------------------------
(* One client's turn of a broadcast.  It is on the list and not among the  *)
(* seen, so it is one chunk behind, and afterwards it is not.              *)
LEMMA VisitStream == IInv /\ StreamInv /\ SendVisit => StreamInv'
  <1> SUFFICES ASSUME IInv, StreamInv, SendVisit PROVE StreamInv'
    OBVIOUS
  <1>0. PICK d \in Clients : d = Head(todo)
    BY HeadOfTodo DEF SendVisit, IInv
  <1>1. Elems(todo) = {d} \cup Elems(Tail(todo))
    BY <1>0, ElemsOfTail DEF SendVisit, IInv, Typed, ListTyped
  <1>2. d \in Listed /\ d \notin Elems(seen)
    BY <1>1 DEF IInv, ListInv, Distinct, Listed
  <1>3. Elems(seen') = Elems(seen) \cup {d}
    BY <1>0, ElemsOfAppend DEF SendVisit, IInv, Typed, ListTyped
  <1>4. Listed' = Listed /\ Listed \subseteq Clients
    BY KeepLists, TypedBound DEF SendVisit, IInv, Bound
  <1>5. /\ mainPc = "send" /\ mainPc' = "send" /\ UNCHANGED <<chunk, joined, gone, sshVars, telVars, stage>>
        /\ \/ got' = [got EXCEPT ![d] = Append(@, chunk)]
           \/ (d \in gone \/ d \in TelnetClients) /\ got' = got
    BY <1>0 DEF SendVisit, At, mainVars, envVars
  <1>6. Due(d) = chunk - 1 /\ Due(d)' = chunk
    BY <1>2, <1>3, <1>5 DEF Due, Broadcast
  <1>7. \A c \in Clients \ {d} : Due(c)' = Due(c)
    BY <1>3, <1>5 DEF Due, Broadcast
  <1>8. got \in [Clients -> Seq(1..MaxChunks)]
    BY DEF IInv, Typed, GotTyped
  <1>9. \A c \in Clients \ {d} : got'[c] = got[c]
    BY <1>5, <1>8
  <1>10. chunk \in Int /\ got[d] \in Seq(Int) /\ joined[d] \in Int
    BY ChunkTypes DEF IInv
  <1>11. Rising(got'[d], joined[d], chunk) /\ (d \in SshClients \ gone => Whole(got'[d], joined[d], chunk))
    <2>1. /\ Rising(got[d], joined[d], chunk - 1)
          /\ d \in SshClients \ gone => Whole(got[d], joined[d], chunk - 1)
          /\ joined[d] <= chunk - 1
      BY <1>2, <1>6 DEF StreamInv, Receives
    <2>2. CASE got' = [got EXCEPT ![d] = Append(@, chunk)]
      <3>1. got'[d] = Append(got[d], chunk)
        BY <1>8, <2>2
      <3> QED
        BY <1>10, <2>1, <3>1, NextChunk
    <2>3. CASE (d \in gone \/ d \in TelnetClients) /\ got' = got
      <3>1. d \notin SshClients \ gone
        BY <2>3, ClientsAssumption
      <3> QED
        BY <1>10, <2>1, <2>3, <3>1, RisingLonger
    <2> QED
      BY <1>5, <2>2, <2>3
  <1>12. Receives'
    <2>1. ASSUME NEW c \in Listed PROVE Rising(got'[c], joined[c], Due(c)')
      BY <1>4, <1>6, <1>7, <1>9, <1>11 DEF StreamInv, Receives
    <2>2. ASSUME NEW c \in Listed, c \in SshClients \ gone PROVE Whole(got'[c], joined[c], Due(c)')
      BY <1>4, <1>6, <1>7, <1>9, <1>11, <2>2 DEF StreamInv, Receives
    <2>3. ASSUME NEW c \in Clients PROVE joined[c] <= Due(c)'
      <3>1. joined[c] \in Int /\ Due(c) \in Int /\ joined[c] <= Due(c)
        BY ChunkTypes DEF IInv, StreamInv, Receives
      <3> QED
        BY <1>6, <1>7, <1>10, <3>1
    <2> QED
      BY <1>4, <1>5, <2>1, <2>2, <2>3 DEF Receives, Rising, Whole
  <1>13. Fresh'
    <2>1. ~New(d)
      BY <1>2 DEF IInv, OwnerInv, ListStage, New
    <2> QED
      BY <1>5, <1>9, <2>1, NewKept DEF StreamInv, Fresh
  <1> QED
    BY <1>12, <1>13 DEF StreamInv

(* The end of a broadcast: everybody on the list is among the seen.        *)
LEMMA EndStream == IInv /\ StreamInv /\ EndAndUnlock => StreamInv'
  <1> SUFFICES ASSUME IInv, StreamInv, EndAndUnlock PROVE StreamInv'
    OBVIOUS
  <1>1. /\ todo = <<>> /\ mainPc \in {"send", "recv", "final"}
        /\ mainPc' \notin {"send_wait", "send"}
        /\ UNCHANGED <<listVars, chunk, got, joined, gone, sshVars, telVars, stage>>
    BY DEF EndAndUnlock, Passes, envVars
  <1>2. Listed' = Listed /\ Listed \subseteq Clients /\ Listed = Elems(seen)
    BY <1>1, SameList, ElemsOfEmpty, TypedBound DEF IInv, Bound, Listed
  <1>3. \A c \in Clients : Due(c)' = chunk /\ Due(c) \in {chunk - 1, chunk}
                           /\ (c \in Listed => Due(c) = chunk)
    BY <1>1, <1>2 DEF Due, Broadcast
  <1>4. ASSUME NEW c \in Clients PROVE joined[c] <= chunk
    <2>1. joined[c] <= Due(c) /\ joined[c] \in Int /\ Due(c) \in Int /\ chunk \in Int
      BY ChunkTypes DEF StreamInv, Receives, IInv
    <2> QED
      BY <1>3, <2>1
  <1>5. \A c \in Listed : Rising(got[c], joined[c], chunk)
    BY <1>2, <1>3 DEF StreamInv, Receives
  <1>6. Receives'
    <2>1. \A c \in (Listed \cap SshClients) \ gone : Whole(got[c], joined[c], chunk)
      BY <1>2, <1>3 DEF StreamInv, Receives
    <2> QED
      BY <1>1, <1>2, <1>3, <1>4, <1>5, <2>1 DEF Receives, Rising, Whole
  <1>7. Fresh'
    BY <1>1, NewKept DEF StreamInv, Fresh
  <1> QED
    BY <1>6, <1>7 DEF StreamInv

LEMMA MainStepStream == IInv /\ StreamInv /\ MainStep => StreamInv'
  <1> SUFFICES ASSUME IInv, StreamInv, MainStep PROVE StreamInv'
    OBVIOUS
  <1>0. Listed \subseteq Clients
    BY TypedBound DEF IInv, Bound
  <1>1. CASE RecvKeep \/ RecvTyped
    <2>1. Listed' = Listed
      BY <1>1, KeepLists DEF RecvKeep, RecvTyped, IInv
    <2> QED
      BY <1>0, <1>1, <2>1, DueElsewhere, NewKept, StreamKept DEF RecvKeep, RecvTyped, At, mainVars, envVars
  <1>2. CASE DropVisit
    <2>1. Listed' \subseteq Listed
      BY <1>2, DropLists DEF DropVisit, IInv
    <2>2. \A c \in Clients : New(c)' => New(c)
      BY <1>2, TypedBound DEF DropVisit, New, SshHolds, TelHolds, sshVars, telVars, IInv, Bound
    <2> QED
      BY <1>0, <1>2, <2>1, <2>2, DueElsewhere, StreamKept DEF DropVisit, At, mainVars, envVars
  <1>3. ASSUME UNCHANGED <<listVars, sshVars, telVars, stage, got, joined, gone>>,
               \A c \in Clients : Due(c)' = Due(c)
        PROVE  StreamInv'
    <2>1. Listed' = Listed
      BY <1>3, SameList
    <2> QED
      BY <1>0, <1>3, <2>1, NewKept, StreamKept
  <1>4. CASE ReadDevice
    <2>1. \A c \in Clients : Due(c)' = Due(c)
      BY <1>4, ChunkTypes DEF ReadDevice, At, Due, Broadcast, IInv
    <2> QED
      BY <1>3, <1>4, <2>1 DEF ReadDevice, envVars
  <1>5. CASE LoopTest \/ WriteDevice \/ CloseDevice \/ FinalizeSshAcception \/ FinalizeTelnetAcception
    BY <1>3, <1>5, DueElsewhere DEF LoopTest, WriteDevice, CloseDevice, FinalizeSshAcception,
       FinalizeTelnetAcception, At, envVars
  <1>6. CASE Cancel("cancel_ssh", "ssh", "join_ssh") \/ Cancel("cancel_tel", "tel", "join_tel")
    BY <1>3, <1>6, DueElsewhere DEF Cancel, At, envVars
  <1>7. CASE Join("join_ssh", sshPc, "cancel_tel") \/ Join("join_tel", telPc, "done")
    BY <1>3, <1>7, DueElsewhere DEF Join, At, envVars
  <1> QED
    BY <1>1, <1>2, <1>4, <1>5, <1>6, <1>7, VisitStream, EndStream DEF MainStep

-----------------------------------------------------------------------------
(* The acceptors and the environment.  A client is added between two       *)
(* passes and with nothing received.                                       *)
LEMMA SshStepStream == IInv /\ StreamInv /\ SshStep => StreamInv'
  <1> SUFFICES ASSUME IInv, StreamInv, SshStep PROVE StreamInv'
    OBVIOUS
  <1>0. Bound
    BY TypedBound DEF IInv
  <1>1. UNCHANGED <<mainVars, telVars, got, gone>>
    BY DEF SshStep, SshNew, SshAccept, SshAcceptError, SshKexOk, SshKexFail, SshUseFreedSession,
       SshUseFreedBind, SshAuthMessage, SshChanMessage, SshShellMessage, SshNoMessage, SshLock,
       SshRegister, SshCancelled, SshUnchanged, envVars
  <1>2. \A c \in Clients : New(c)' => New(c)
    <2> USE <1>0, <1>1 DEF New, SshHolds, TelHolds, telVars, Bound
    <2>1. CASE SshNew \/ SshAcceptError \/ SshNoMessage \/ SshKexFail
      BY <2>1 DEF SshNew, SshAcceptError, SshNoMessage, SshKexFail, SshRefuse
    <2>2. CASE SshKexOk
      BY <2>2 DEF SshKexOk
    <2>3. CASE SshUseFreedSession \/ SshUseFreedBind \/ SshLock \/ SshRegister
      BY <2>3 DEF SshUseFreedSession, SshUseFreedBind, SshLock, SshRegister, sshVars
    <2>4. CASE SshAuthMessage
      BY <2>4 DEF SshAuthMessage
    <2>5. CASE SshChanMessage \/ SshShellMessage
      BY <2>5 DEF SshChanMessage, SshShellMessage
    <2>6. CASE SshCancelled
      BY <2>6 DEF SshCancelled
    <2>7. ASSUME NEW d \in SshClients, SshAccept(d) PROVE \A c \in Clients : New(c)' => New(c)
      BY <2>7 DEF SshAccept
    <2> QED
      BY <2>1, <2>2, <2>3, <2>4, <2>5, <2>6, <2>7 DEF SshStep
  <1>3. CASE SshRegister
    <2>1. sshCli \in Clients /\ SshHolds(sshCli)
      BY <1>0, <1>3 DEF SshRegister, Bound, SshHolds
    <2>2. sshCli \notin Listed
      BY <2>1 DEF IInv, OwnerInv, ListStage
    <2>3. mainPc \notin Passes
      BY <1>3 DEF SshRegister, IInv, Exclusion, MutualExclusion, SshInside, MainInside
    <2>4. Listed' = Listed \cup {sshCli}
      BY <1>3, <2>1, <2>2, <2>3, RegistrationLists DEF SshRegister, IInv
    <2>5. joined' = [joined EXCEPT ![sshCli] = Broadcast]
      BY <1>3 DEF SshRegister, AddToList
    <2> QED
      BY <1>0, <1>1, <1>2, <2>1, <2>3, <2>4, <2>5, StreamJoins DEF Bound, New, mainVars
  <1>4. CASE ~SshRegister
    <2>1. UNCHANGED <<listVars, joined>>
      BY <1>4 DEF SshStep, SshNew, SshAccept, SshAcceptError, SshKexOk, SshKexFail, SshUseFreedSession,
         SshUseFreedBind, SshAuthMessage, SshChanMessage, SshShellMessage, SshNoMessage, SshLock,
         SshCancelled, SshUnchanged
    <2>2. Listed' = Listed /\ UNCHANGED seen
      BY <2>1, SameList DEF listVars
    <2> QED
      BY <1>0, <1>1, <1>2, <2>1, <2>2, DueKept, StreamKept DEF Bound, mainVars
  <1> QED
    BY <1>3, <1>4

LEMMA TelStepStream == IInv /\ StreamInv /\ TelStep => StreamInv'
  <1> SUFFICES ASSUME IInv, StreamInv, TelStep PROVE StreamInv'
    OBVIOUS
  <1>0. Bound
    BY TypedBound DEF IInv
  <1>1. UNCHANGED <<mainVars, sshVars, got, gone>>
    BY DEF TelStep, TelAccept, TelTry, TelPeerLost, TelLock, TelRegister, TelCancelled, TelUnchanged,
       envVars
  <1>2. \A c \in Clients : New(c)' => New(c)
    <2> USE <1>0, <1>1 DEF New, SshHolds, TelHolds, sshVars, turn, Bound
    <2>1. CASE TelTry
      BY <2>1 DEF TelTry
    <2>2. CASE TelPeerLost
      BY <2>2 DEF TelPeerLost
    <2>3. CASE TelLock \/ TelRegister
      BY <2>3 DEF TelLock, TelRegister
    <2>4. CASE TelCancelled
      BY <2>4 DEF TelCancelled
    <2>5. ASSUME NEW d \in TelnetClients, TelAccept(d) PROVE \A c \in Clients : New(c)' => New(c)
      BY <2>5 DEF TelAccept
    <2> QED
      BY <2>1, <2>2, <2>3, <2>4, <2>5 DEF TelStep
  <1>3. CASE TelRegister
    <2>1. telCli \in Clients /\ TelHolds(telCli)
      BY <1>0, <1>3 DEF TelRegister, Bound, TelHolds
    <2>2. telCli \notin Listed
      BY <2>1 DEF IInv, OwnerInv, ListStage
    <2>3. mainPc \notin Passes
      BY <1>3 DEF TelRegister, IInv, Exclusion, MutualExclusion, TelInside, MainInside
    <2>4. Listed' = Listed \cup {telCli}
      BY <1>3, <2>1, <2>2, <2>3, RegistrationLists DEF TelRegister, IInv
    <2>5. joined' = [joined EXCEPT ![telCli] = Broadcast]
      BY <1>3 DEF TelRegister, AddToList
    <2> QED
      BY <1>0, <1>1, <1>2, <2>1, <2>3, <2>4, <2>5, StreamJoins DEF Bound, New, mainVars
  <1>4. CASE ~TelRegister
    <2>1. UNCHANGED <<listVars, joined>>
      BY <1>4 DEF TelStep, TelAccept, TelTry, TelPeerLost, TelLock, TelCancelled
    <2>2. Listed' = Listed /\ UNCHANGED seen
      BY <2>1, SameList DEF listVars
    <2> QED
      BY <1>0, <1>1, <1>2, <2>1, <2>2, DueKept, StreamKept DEF Bound, mainVars
  <1> QED
    BY <1>3, <1>4

LEMMA EnvironmentStream == IInv /\ StreamInv /\ Environment => StreamInv'
  <1> SUFFICES ASSUME IInv, StreamInv, Environment PROVE StreamInv'
    OBVIOUS
  <1>1. UNCHANGED <<listVars, mainPc, chunk, sshVars, telVars, got, joined>> /\ gone \subseteq gone'
    BY DEF Environment, Connect, HangUp, Stall, Chatter, DeviceSticks, Unplug, Sigint, Sigpipe, mainVars, envVars
  <1>2. Listed' = Listed /\ Listed \subseteq Clients /\ UNCHANGED seen
    BY <1>1, SameList, TypedBound DEF IInv, Bound, listVars
  <1>3. \A c \in Clients : New(c)' => New(c)
    <2>1. ASSUME NEW d \in Clients, Connect(d) PROVE \A c \in Clients : New(c)' => New(c)
      BY <1>1, <2>1, TypedBound DEF Connect, New, SshHolds, TelHolds, sshVars, telVars, IInv, Bound
    <2>2. CASE UNCHANGED stage
      BY <1>1, <2>2, NewKept
    <2> QED
      BY <2>1, <2>2 DEF Environment, HangUp, Stall, Chatter, DeviceSticks, Unplug, Sigint, Sigpipe
  <1> QED
    BY <1>1, <1>2, <1>3, DueKept, StreamKept

LEMMA StreamStep == IInv /\ StreamInv /\ [Next]_vars => StreamInv'
  <1> SUFFICES ASSUME IInv, StreamInv, UNCHANGED vars PROVE StreamInv'
    BY MainStartStream, MainLockStream, MainStepStream, SshStepStream, TelStepStream, EnvironmentStream
       DEF Next
  <1>1. UNCHANGED <<listVars, mainPc, chunk, sshVars, telVars, stage, got, joined, gone>>
    BY DEF vars, mainVars, envVars
  <1>2. Listed' = Listed /\ Listed \subseteq Clients /\ UNCHANGED seen
    BY <1>1, SameList, TypedBound DEF IInv, Bound, listVars
  <1> QED
    BY <1>1, <1>2, DueKept, NewKept, StreamKept

(* Batch send brings each chunk of the device to every listed SSH client   *)
(* that did not hang up, from the first broadcast after its registration,  *)
(* none earlier, none twice, none missing and in order, whatever clients   *)
(* come, go and fail in between; a telnet client, whose socket drops what  *)
(* does not fit, gets some of them in order.                               *)
THEOREM StreamIsWhole == Spec => []DeviceStream
  <1>1. IInv /\ StreamInv => DeviceStream
    BY DEF StreamInv, Receives, Rising, Whole, DeviceStream, FromRegistration
  <1>2. IInv /\ StreamInv /\ [Next]_vars => (IInv /\ StreamInv)'
    BY IInvStep, StreamStep
  <1> QED
    BY <1>1, <1>2, IInvInit, StreamInit, PTL DEF Spec
==============================================================================
