------------------------------ MODULE TelnetLogin ------------------------------
(***************************************************************************)
(* The login of one telnet client: TelnetBackpack_newWithAuth of           *)
(* clientchannel.c with strncpy, rtrim and isAccountValid, on its C        *)
(* strings, and the negotiation of ECHO that is to hide the password.      *)
(*                                                                         *)
(* The peer is a terminal that answers as libtelnet would; what its user   *)
(* types arrives in chunks, one per return of _TBP_recv, which also reads  *)
(* the negotiation.  An array is a function of its indexes 0..N-1.         *)
(***************************************************************************)
EXTENDS Integers, Sequences, Rfc1143

CONSTANTS
    N,                  \* size of recvBuf, loginName and loginPass
    NUL, Spaces,        \* the terminator, what rtrim takes off
    Names, Passwords,   \* bound: the chunks typed at either prompt
    User, Pass,         \* accountUsername, accountPassword
    MaxTry              \* MAX_TRY

Chunks == Names \cup Passwords

ASSUME SizesAssumption == N \in Nat \ {0} /\ MaxTry \in Nat \ {0}
ASSUME ChunksAssumption == \A c \in Chunks : Len(c) \in 1..N /\ DOMAIN c = 1..Len(c)
ASSUME AccountAssumption ==
    /\ NUL \notin Spaces
    /\ \A s \in {User, Pass} :
        /\ Len(s) \in Nat /\ DOMAIN s = 1..Len(s)
        /\ \A j \in DOMAIN s : s[j] # NUL
        /\ s # <<>> => s[Len(s)] \notin Spaces

VARIABLES
    pc, try,
    loginName, loginPass,
    echo,               \* RFC 1143 state of ECHO in the server
    term, accepts,      \* its state in the terminal, which may refuse it
    toTerm, toServ,     \* WILL and WONT, DO and DONT on their way
    named, right,       \* history: the name typed last, and both, are the account's
    longest, shadowed   \* history: length of the longest password so far, and
                        \* whether one before the last was longer than it

strings == <<loginName, loginPass>>
option == <<echo, term, accepts, toTerm, toServ>>
history == <<named, right, longest, shadowed>>
vars == <<pc, try, strings, option, history>>

Index == 0..N - 1
Chars == {NUL} \cup Spaces \cup UNION {{s[j] : j \in DOMAIN s} : s \in Chunks \cup {User, Pass}}

Entered == {"welcome", "in"}
Waiting == {"name", "pass", "in"}

TypeOK ==
    /\ pc \in {"start", "ask_name", "name", "ask_pass", "pass", "failed", "undefined"} \cup Entered
    /\ try \in 0..MaxTry - 1
    /\ loginName \in [Index -> Chars] /\ loginPass \in [Index -> Chars]
    /\ echo \in QStates /\ term \in QStates
    /\ accepts \in BOOLEAN
    /\ toTerm \in Seq(BOOLEAN) /\ toServ \in Seq(BOOLEAN)
    /\ named \in BOOLEAN /\ right \in BOOLEAN /\ shadowed \in BOOLEAN
    /\ longest \in 0..N - 1

Init ==
    /\ pc = "start" /\ try = 0
    /\ loginName = [j \in Index |-> NUL] /\ loginPass = [j \in Index |-> NUL]
    /\ echo = "NO" /\ term = "NO" /\ accepts \in BOOLEAN
    /\ toTerm = <<>> /\ toServ = <<>>
    /\ named = FALSE /\ right = FALSE /\ longest = 0 /\ shadowed = FALSE

-----------------------------------------------------------------------------
(* C strings. *)
InString(a, j) == \A k \in 0..j : a[k] # NUL

(* strncpy(a, c, Len(c)): behind a terminator in c it writes terminators,   *)
(* behind the end of c nothing.                                             *)
StrNCpy(a, c) ==
    [j \in Index |-> IF j >= Len(c) THEN a[j]
                     ELSE IF \E k \in 1..j + 1 : c[k] = NUL THEN NUL ELSE c[j + 1]]

Terminate(a, n) == [a EXCEPT ![n] = NUL]

(* Only the string loses the space at its end: what is behind its terminator *)
(* stays as it was.                                                         *)
RTrim(a) ==
    [j \in Index |->
        IF InString(a, j) /\ \A k \in j..N - 1 : InString(a, k) => a[k] \in Spaces THEN NUL ELSE a[j]]

(* strcmp(a, s) == 0 *)
Equal(a, s) ==
    /\ Len(s) < N
    /\ \A j \in 1..Len(s) : a[j - 1] = s[j]
    /\ a[Len(s)] = NUL

(* What a user means by a chunk: its text up to a terminator and without   *)
(* the space behind it.                                                    *)
Means(c, s) ==
    /\ Len(s) <= Len(c)
    /\ \A j \in 1..Len(s) : c[j] = s[j]
    /\ \A k \in Len(s) + 1..Len(c) :
        (\A m \in Len(s) + 1..k : c[m] # NUL) => c[k] \in Spaces

-----------------------------------------------------------------------------
(* The strings the login keeps.  The name is terminated, then trimmed; the *)
(* password the other way round.                                           *)
NameOf(a, c) == RTrim(Terminate(StrNCpy(a, c), Len(c)))

(* Wrong variant: the password is not terminated. *)
PassOfOpen(a, c) == RTrim(StrNCpy(a, c))

(* Wrong variant: the password is not trimmed. *)
PassOfUntrimmed(a, c) == Terminate(StrNCpy(a, c), Len(c))

PassOf(a, c) == Terminate(RTrim(StrNCpy(a, c)), Len(c))

(* telnet_negotiate(WILL or WONT, ECHO) *)
Negotiate(yes) ==
    LET row == IF yes THEN OnAskYes(echo) ELSE OnAskNo(echo) IN
    /\ echo' = row.next
    /\ toTerm' = IF row.send = "none" THEN toTerm ELSE Append(toTerm, row.send = "yes")
    /\ UNCHANGED <<term, accepts, toServ>>

Start ==
    /\ pc = "start" /\ pc' = "ask_name"
    /\ Negotiate(TRUE)
    /\ UNCHANGED <<try, strings, history>>

AskName ==
    /\ pc = "ask_name" /\ pc' = "name"
    /\ Negotiate(FALSE)
    /\ UNCHANGED <<try, strings, history>>

(* Wrong variant: one turn too many. *)
NextTryOnceMore ==
    IF try < MaxTry THEN try' = try + 1 /\ pc' = "ask_name"
                    ELSE UNCHANGED try /\ pc' = "failed"

(* The next turn of the login loop, or its end. *)
NextTry ==
    IF try + 1 < MaxTry THEN try' = try + 1 /\ pc' = "ask_name"
                        ELSE UNCHANGED try /\ pc' = "failed"

(* A chunk that fills the buffer is terminated one byte behind the array,  *)
(* and loginPass then may have no terminator at all: undefined.            *)
Overrun(c) ==
    /\ pc \in {"name", "pass"} /\ Len(c) = N
    /\ c \in IF pc = "name" THEN Names ELSE Passwords
    /\ pc' = "undefined"
    /\ UNCHANGED <<try, strings, option, history>>

ReadName(c) ==
    /\ pc = "name" /\ Len(c) < N
    /\ loginName' = NameOf(loginName, c)
    /\ IF loginName'[0] = NUL THEN NextTry ELSE pc' = "ask_pass" /\ UNCHANGED try
    /\ named' = Means(c, User) /\ right' = FALSE
    /\ UNCHANGED <<loginPass, option, longest, shadowed>>

AskPass ==
    /\ pc = "ask_pass" /\ pc' = "pass"
    /\ Negotiate(TRUE)
    /\ UNCHANGED <<try, strings, history>>

IsAccountValid(name, pass) == Equal(name, User) /\ Equal(pass, Pass)

ReadPass(c) ==
    /\ pc = "pass" /\ Len(c) < N
    /\ loginPass' = PassOf(loginPass, c)
    /\ IF IsAccountValid(loginName, loginPass') THEN pc' = "welcome" /\ UNCHANGED try ELSE NextTry
    /\ right' = (named /\ Means(c, Pass))
    /\ shadowed' = (longest > Len(c))
    /\ longest' = IF longest > Len(c) THEN longest ELSE Len(c)
    /\ UNCHANGED <<loginName, option, named>>

Welcome ==
    /\ pc = "welcome" /\ pc' = "in"
    /\ Negotiate(FALSE)
    /\ UNCHANGED <<try, strings, history>>

(* _TBP_recv returns 0 or less. *)
PeerLost ==
    /\ pc \in {"name", "pass"} /\ pc' = "failed"
    /\ UNCHANGED <<try, strings, option, history>>

(* _negotiate in the server, whose telopts do not list ECHO: within a      *)
(* _TBP_recv of the login, or later of ClientChannel_recv.                 *)
ServerReceives ==
    LET row == IF Head(toServ) THEN OnYes(echo, FALSE) ELSE OnNo(echo) IN
    /\ pc \in Waiting /\ toServ # <<>>
    /\ echo' = row.next
    /\ toServ' = Tail(toServ)
    /\ toTerm' = IF row.send = "none" THEN toTerm ELSE Append(toTerm, row.send = "yes")
    /\ UNCHANGED <<pc, try, strings, term, accepts, history>>

TerminalReceives ==
    LET row == IF Head(toTerm) THEN OnYes(term, accepts) ELSE OnNo(term) IN
    /\ toTerm # <<>>
    /\ term' = row.next
    /\ toTerm' = Tail(toTerm)
    /\ toServ' = IF row.send = "none" THEN toServ ELSE Append(toServ, row.send = "yes")
    /\ UNCHANGED <<pc, try, strings, echo, accepts, history>>

Next ==
    \/ Start \/ AskName \/ AskPass \/ Welcome \/ PeerLost
    \/ \E c \in Names : ReadName(c)
    \/ \E c \in Passwords : ReadPass(c)
    \/ \E c \in Chunks : Overrun(c)
    \/ ServerReceives \/ TerminalReceives

Spec == Init /\ [][Next]_vars

-----------------------------------------------------------------------------
(* Nobody gets in who did not give, in this very turn of the login loop,   *)
(* the name and the password of the account: nothing an earlier turn left  *)
(* in the two arrays completes what was typed.                             *)
OnlyAccountGetsIn == pc \in Entered => right

(* Who gives them is turned away only if an earlier password of this       *)
(* connection was longer than the right one is as typed: else what is left *)
(* in loginPass cannot spoil it.                                           *)
RefusedOnlyAfterLonger == right /\ pc \notin Entered => shadowed

Quiet == toTerm = <<>> /\ toServ = <<>>

(* Once the exchange of commands has come to rest the terminal hides what  *)
(* is typed exactly at the password prompt, if it accepts ECHO at all, and *)
(* both ends know it - however fast the prompts followed one another and   *)
(* whatever the terminal had not answered yet.                             *)
PasswordHidden ==
    pc \in Waiting /\ Quiet =>
        LET state == IF pc = "pass" /\ accepts THEN "YES" ELSE "NO"
        IN echo = state /\ term = state
=============================================================================
