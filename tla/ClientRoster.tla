---------------------------- MODULE ClientRoster ----------------------------
(***************************************************************************)
(* What the client list of clientchannel.c promises to the rest of the     *)
(* server, with the pointers left out: the listed clients form a sequence  *)
(* in order of registration, and every batch operation is one pass over    *)
(* it that nothing else interleaves with.                                  *)
(*                                                                         *)
(* During a pass the sequence is split: `seen' holds the clients already   *)
(* visited and kept, `todo' those still to visit.  Outside a pass all of   *)
(* them are in `seen'.                                                     *)
(***************************************************************************)
EXTENDS Sequences, FiniteSets

CONSTANT Clients        \* the connections that may ever be registered

VARIABLES
    pass,               \* the batch operation that runs, "none" between two
    seen,               \* listed clients this pass is done with
    todo,               \* listed clients this pass has still to visit
    gone,               \* clients whose peer has hung up and whose data is all read
    closed              \* clients ClientChannel_close was called on

vars == <<pass, seen, todo, gone, closed>>

-----------------------------------------------------------------------------
(* The listed clients, in list order. *)
Roster == seen \o todo

Elems(s) == {s[i] : i \in DOMAIN s}

TypeOK ==
    /\ pass \in {"none", "send", "recv", "final"}
    /\ seen \in Seq(Clients)
    /\ todo \in Seq(Clients)
    /\ gone \subseteq Clients
    /\ closed \subseteq Clients

-----------------------------------------------------------------------------
(* CCList_init *)
Init ==
    /\ pass = "none"
    /\ seen = <<>>
    /\ todo = <<>>
    /\ gone = {}
    /\ closed = {}

(* CCList_addNewFromSSH and CCList_addNewFromTelnet: a connection that was *)
(* never registered before goes to the end.                                *)
Register(c) ==
    /\ pass = "none"
    /\ c \notin Elems(Roster) \cup closed
    /\ seen' = Append(seen, c)
    /\ UNCHANGED <<pass, todo, gone, closed>>

(* CCList_batchSend, CCList_batchRecv or CCList_finalize starts at head. *)
Begin(p) ==
    /\ pass = "none"
    /\ pass' = p
    /\ seen' = <<>>
    /\ todo' = seen
    /\ UNCHANGED <<gone, closed>>

(* One turn of batchSend, or one of batchRecv that finds the channel whole. *)
Keep ==
    /\ todo # <<>>
    /\ \/ pass = "send"
       \/ pass = "recv" /\ Head(todo) \notin gone
    /\ seen' = Append(seen, Head(todo))
    /\ todo' = Tail(todo)
    /\ UNCHANGED <<pass, gone, closed>>

(* One turn of batchRecv on a broken channel, or one of finalize: the      *)
(* client is closed and leaves the list.                                   *)
Drop ==
    /\ todo # <<>>
    /\ \/ pass = "recv" /\ Head(todo) \in gone
       \/ pass = "final"
    /\ closed' = closed \cup {Head(todo)}
    /\ todo' = Tail(todo)
    /\ UNCHANGED <<pass, seen, gone>>

(* current = NULL: the loop ends. *)
End ==
    /\ pass # "none"
    /\ todo = <<>>
    /\ pass' = "none"
    /\ UNCHANGED <<seen, todo, gone, closed>>

(* The peer of c hangs up, at any moment. *)
HangUp(c) ==
    /\ gone' = gone \cup {c}
    /\ UNCHANGED <<pass, seen, todo, closed>>

Next ==
    \/ \E c \in Clients : Register(c) \/ HangUp(c)
    \/ \E p \in {"send", "recv", "final"} : Begin(p)
    \/ Keep
    \/ Drop
    \/ End

Spec == Init /\ [][Next]_vars
=============================================================================
