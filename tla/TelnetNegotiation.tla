------------------------- MODULE TelnetNegotiation --------------------------
(***************************************************************************)
(* Option negotiation of libtelnet.c: _negotiate (a WILL, WONT, DO or DONT *)
(* arrives) and telnet_negotiate (the application asks for one), after     *)
(* RFC 1143, for one option between two ends that both run this code over  *)
(* a connection that keeps the order of bytes.                             *)
(*                                                                         *)
(* Each end has two halves: `us', what it does itself (WILL/WONT sent,     *)
(* DO/DONT received), and `him', what it asks of its peer (DO/DONT sent,   *)
(* WILL/WONT received).  The code of the two halves is the same but for    *)
(* the command bytes, so a side is a pair of an end and a half, a command  *)
(* is only its sense, and the tables are those of Rfc1143.  `us' of an end *)
(* talks to `him' of the other.  The connection keeps the order of all     *)
(* bytes; the model keeps it only among the commands for one side, which   *)
(* admits every real behaviour and more.                                   *)
(*                                                                         *)
(* The option is BINARY: for it _set_rfc1143 also keeps two mode flags.    *)
(***************************************************************************)
EXTENDS Naturals, Sequences, FiniteSets, Rfc1143

CONSTANTS
    Supports,           \* the sides telopts has WILL or DO for
    MaxAsks,            \* bound: calls of telnet_negotiate
    MaxStrays           \* bound: commands that come from no libtelnet end

Ends == {"server", "client"}
Halves == {"us", "him"}
Sides == Ends \X Halves

ASSUME SupportsAssumption == Supports \subseteq Sides
ASSUME BoundsAssumption == MaxAsks \in Nat /\ MaxStrays \in Nat

VARIABLES
    q,                  \* RFC 1143 state of each side
    app,                \* the application's view, from the EV_* events it got
    tracked,            \* ends whose table telnet->q has an entry for the option
    binary,             \* sides with TELNET_FLAG_TRANSMIT_ / RECEIVE_BINARY set
    wire,               \* commands on their way to each side
    asks, strays,       \* how many of each there were
    error               \* an end reported TELNET_EPROTOCOL

vars == <<q, app, tracked, binary, wire, asks, strays, error>>

Other(e) == IF e = "server" THEN "client" ELSE "server"
Opposite(h) == IF h = "us" THEN "him" ELSE "us"

(* WILL and WONT go from `us' to the peer's `him', DO and DONT back. *)
Partner(s) == <<Other(s[1]), Opposite(s[2])>>

TypeOK ==
    /\ q \in [Sides -> QStates]
    /\ app \in [Sides -> BOOLEAN]
    /\ tracked \subseteq Ends
    /\ binary \subseteq Sides
    /\ wire \in [Sides -> Seq(BOOLEAN)]
    /\ asks \in 0..MaxAsks
    /\ strays \in 0..MaxStrays
    /\ error \in BOOLEAN

Init ==
    /\ q = [s \in Sides |-> "NO"]
    /\ app = [s \in Sides |-> FALSE]
    /\ tracked = {}
    /\ binary = {}
    /\ wire = [s \in Sides |-> <<>>]
    /\ asks = 0 /\ strays = 0
    /\ error = FALSE

-----------------------------------------------------------------------------
(* Wrong variant: an entry per half instead of one per option. *)
SavePerHalf(s, next) ==
    /\ q' = [q EXCEPT ![s] = next]
    /\ tracked' = tracked \cup {s}
    /\ binary' = IF s \in tracked
                 THEN {t \in Sides : IF t[1] = s[1] THEN q'[t] = "YES" ELSE t \in binary}
                 ELSE binary

(* Wrong variant: the flags are not cleared before they are set. *)
SaveNeverClears(s, next) ==
    /\ q' = [q EXCEPT ![s] = next]
    /\ tracked' = tracked \cup {s[1]}
    /\ binary' = IF s[1] \in tracked
                 THEN binary \cup {t \in Sides : t[1] = s[1] /\ q'[t] = "YES"}
                 ELSE binary

(* _set_rfc1143: the mode flags are brought up to date only for an entry   *)
(* that is already in the table; a new entry is appended without them.     *)
Save(s, next) ==
    /\ q' = [q EXCEPT ![s] = next]
    /\ tracked' = tracked \cup {s[1]}
    /\ binary' = IF s[1] \in tracked
                 THEN {t \in Sides : IF t[1] = s[1] THEN q'[t] = "YES" ELSE t \in binary}
                 ELSE binary

(* _send_negotiate, on the wire w. *)
Sent(s, w, sense) ==
    IF sense = "none" THEN w
    ELSE [w EXCEPT ![Partner(s)] = Append(@, sense = "yes")]

Apply(s, row) ==
    /\ IF row.next = q[s] THEN UNCHANGED <<q, tracked, binary>> ELSE Save(s, row.next)
    /\ app' = [app EXCEPT ![s] = IF row.view = "keep" THEN @ ELSE row.view = "on"]
    /\ error' = (error \/ row.err)

(* telnet_negotiate *)
Ask(s, yes) ==
    LET row == IF yes THEN OnAskYes(q[s]) ELSE OnAskNo(q[s]) IN
    /\ asks < MaxAsks
    /\ asks' = asks + 1
    /\ Apply(s, row)
    /\ wire' = Sent(s, wire, row.send)
    /\ UNCHANGED strays

(* _negotiate *)
Receive(s) ==
    LET row == IF Head(wire[s]) THEN OnYes(q[s], s \in Supports) ELSE OnNo(q[s]) IN
    /\ wire[s] # <<>>
    /\ Apply(s, row)
    /\ wire' = Sent(s, [wire EXCEPT ![s] = Tail(@)], row.send)
    /\ UNCHANGED <<asks, strays>>

(* A peer that is not libtelnet sends whatever it likes. *)
Stray(s, yes) ==
    /\ strays < MaxStrays
    /\ strays' = strays + 1
    /\ wire' = [wire EXCEPT ![s] = Append(@, yes)]
    /\ UNCHANGED <<q, app, tracked, binary, asks, error>>

Next ==
    \E s \in Sides :
        \/ Receive(s)
        \/ \E yes \in BOOLEAN : Ask(s, yes) \/ Stray(s, yes)

Spec == Init /\ [][Next]_vars

(* Both ends read what has arrived. *)
FairSpec == Spec /\ \A s \in Sides : WF_vars(Receive(s))

-----------------------------------------------------------------------------
(* The application knows: after every event the view it has from EV_WILL,  *)
(* EV_WONT, EV_DO and EV_DONT is what the table says, an option counting   *)
(* as on until its end is agreed - whatever the peer sends.                *)
AppKnows == \A s \in Sides : app[s] <=> q[s] \in On

Quiet == \A s \in Sides : wire[s] = <<>>

(* Two ends that run this code agree: when nothing is on the wire no side  *)
(* waits for an answer, and one end does the option exactly if the other   *)
(* believes that it does.                                                  *)
Agreement ==
    Quiet /\ strays = 0 =>
        \A s \in Sides : q[s] \in {"NO", "YES"} /\ q[s] = q[Partner(s)]

(* What is on the wire between a side in state x and its partner in state  *)
(* y: `out' goes from x to y, `in' from y to x.                            *)
WantNo == {"WANTNO", "WANTNO_OP"}
WantYes == {"WANTYES", "WANTYES_OP"}
Want == WantNo \cup WantYes

Answering(x, y, in) ==
    \/ in = <<FALSE>>       /\ ((x \in Want /\ y = "NO") \/ (x = "YES" /\ y \in WantNo))
    \/ in = <<TRUE>>        /\ ((x = "NO" /\ y \in WantYes) \/ (x \in WantYes /\ y = "YES"))
    \/ in = <<FALSE, TRUE>> /\ x \in Want /\ y \in WantYes
    \/ in = <<TRUE, FALSE>> /\ x \in WantYes /\ y \in WantNo

Linked(x, y, out, in) ==
    \/ out = <<>> /\ in = <<>> /\ x = y /\ x \in {"NO", "YES"}
    \/ out = <<>> /\ Answering(x, y, in)
    \/ in = <<>> /\ Answering(y, x, out)
    \/ out = <<FALSE>> /\ in = <<FALSE>> /\ x \in WantNo /\ y \in WantNo
    \/ out = <<TRUE>> /\ in = <<TRUE>> /\ x \in WantYes /\ y \in WantYes

(* Every side and its partner are in one of the situations above: at most  *)
(* two commands are on the wire between them, and each of them is a        *)
(* request or the answer the other side waits for.                         *)
AllLinked ==
    strays = 0 => \A s \in Sides : Linked(q[s], q[Partner(s)], wire[Partner(s)], wire[s])

(* Between two such ends the "DONT answered by WILL" and "WONT answered by *)
(* DO" branches are never taken, however their requests cross.             *)
NoProtocolError == strays = 0 => ~error

(* Negotiation comes to an end once the applications stop asking: no       *)
(* command is answered for ever, also after stray commands.                *)
Settles == <>[]Quiet

(* The translation of line ends, which telnet_send_text and telnet_recv    *)
(* leave out "in BINARY mode", comes back with the end of the option: its  *)
(* mode flags are never left over from an agreement that was revoked or    *)
(* that is being revoked.  (They may be missing: a new entry is saved      *)
(* without them.)                                                          *)
BinaryOnlyWhenOn == \A s \in binary : q[s] = "YES"
=============================================================================
