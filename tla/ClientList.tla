----------------------------- MODULE ClientList -----------------------------
(***************************************************************************)
(* The singly linked list of clientchannel.c, node by node: malloc, the    *)
(* `next' pointers, the cursor and the `previous' pointer of the batch     *)
(* operations, and free.  The operations run one at a time (mainrun.c      *)
(* calls each of them under mutex_cclist, which SerialServer models), but  *)
(* peers hang up at any moment, also in the middle of a pass.              *)
(*                                                                         *)
(* A freed node keeps its `next' (glibc overwrites only the first 16 bytes *)
(* of a freed chunk of this size) and loses its `type', so ClientChannel_* *)
(* run on it find an unexpected type.                                      *)
(***************************************************************************)
EXTENDS Sequences, FiniteSets, Naturals

CONSTANTS
    Clients,            \* the connections that may ever be registered
    Nodes,              \* the heap cells malloc can return
    Null                \* NULL

ASSUME NullAssumption == Null \notin Nodes \cup Clients
ASSUME HeapAssumption == IsFiniteSet(Nodes)

VARIABLES
    head,               \* ClientChannelList.head
    next,               \* ClientChannel.next of every cell, live or freed
    holds,              \* the client a live cell was initialised with
    live,               \* cells that are allocated
    pass,               \* the batch operation that runs, "none" between two
    cur,                \* its `current'
    prev,               \* batchRecv's `previous'
    gone,               \* clients whose peer hung up and whose data is all read
    closed,             \* clients ClientChannel_close was called on
    intact,             \* FALSE once `previous->next' was written in a freed cell
    crashed             \* the process died: NULL dereference or double free

listVars == <<head, next, holds, live>>
passVars == <<pass, cur, prev>>
vars == <<head, next, holds, live, pass, cur, prev, gone, closed, intact, crashed>>

NoPass == "none"

-----------------------------------------------------------------------------
(* The cells from n on, up to `stop' or the end; fuel, because a corrupted *)
(* list may be cyclic.                                                     *)
PathTo(n, stop) ==
    LET walk[fuel \in 0..Cardinality(Nodes)] ==
            [m \in Nodes \cup {Null} |->
                IF fuel = 0 \/ m \in {Null, stop} THEN <<>>
                ELSE <<m>> \o walk[fuel - 1][next[m]]]
    IN walk[Cardinality(Nodes)][n]

Elems(s) == {s[i] : i \in DOMAIN s}
Path == PathTo(head, Null)
EndsInNull(p) == \A i \in DOMAIN p : i = Len(p) => next[p[i]] = Null

(* Cells the running operation has behind and before it (CCList_finalize   *)
(* frees the cells behind it and resets head only at its end).             *)
SeenNodes ==
    CASE pass = NoPass  -> Path
      [] pass = "final" -> <<>>
      [] OTHER          -> PathTo(head, cur)
TodoNodes == IF pass = NoPass THEN <<>> ELSE PathTo(cur, Null)

HeldBy(p) == [i \in DOMAIN p |-> holds[p[i]]]
Held == {holds[n] : n \in live}

TypeOK ==
    /\ head \in Nodes \cup {Null}
    /\ next \in [Nodes -> Nodes \cup {Null}]
    /\ holds \in [Nodes -> Clients \cup {Null}]
    /\ live \subseteq Nodes
    /\ \A n \in live : holds[n] # Null         \* initialised
    /\ pass \in {NoPass, "send", "recv", "final"}
    /\ cur \in Nodes \cup {Null}
    /\ prev \in Nodes \cup {Null}
    /\ gone \subseteq Clients
    /\ closed \subseteq Clients
    /\ intact \in BOOLEAN
    /\ crashed \in BOOLEAN

-----------------------------------------------------------------------------
(* CCList_init; the heap holds no client yet. *)
Init ==
    /\ head = Null
    /\ next = [n \in Nodes |-> Null]
    /\ holds = [n \in Nodes |-> Null]
    /\ live = {}
    /\ pass = NoPass /\ cur = Null /\ prev = Null
    /\ gone = {}
    /\ closed = {}
    /\ intact = TRUE
    /\ crashed = FALSE

(* _createNodeAndAdd links a new cell n behind the last one. *)
Link(n) ==
    IF head = Null
    THEN /\ head' = n
         /\ next' = [next EXCEPT ![n] = Null]
    ELSE /\ next' = [next EXCEPT ![Path[Len(Path)]] = n, ![n] = Null]
         /\ UNCHANGED head

(* Wrong variant: the caller does not initialise the new cell. *)
AddNewUninitialised(c) ==
    /\ ~crashed /\ pass = NoPass
    /\ c \notin Held \cup closed
    /\ EndsInNull(Path)
    /\ \E n \in Nodes \ live :
        /\ Link(n)
        /\ live' = live \cup {n}
    /\ UNCHANGED <<holds, crashed, pass, cur, prev, gone, closed, intact>>

(* CCList_addNewFromSSH, CCList_addNewFromTelnet.  On a cyclic list the    *)
(* walk to the last cell never returns.                                    *)
AddNew(c) ==
    /\ ~crashed /\ pass = NoPass
    /\ c \notin Held \cup closed
    /\ EndsInNull(Path)
    /\ \/ \E n \in Nodes \ live :
            /\ Link(n)
            /\ live' = live \cup {n}
            /\ holds' = [holds EXCEPT ![n] = c]
            /\ UNCHANGED crashed
       \/ /\ live = Nodes               \* malloc fails; `current->next = NULL' on NULL
          /\ crashed' = TRUE
          /\ UNCHANGED listVars
    /\ UNCHANGED <<pass, cur, prev, gone, closed, intact>>

(* current = l->head, at the start of each batch operation. *)
Begin(p) ==
    /\ ~crashed /\ pass = NoPass
    /\ pass' = p
    /\ cur' = head
    /\ prev' = Null
    /\ UNCHANGED <<head, next, holds, live, gone, closed, intact, crashed>>

(* batchSend: ClientChannel_send, whose result is ignored, on any cell. *)
SendVisit ==
    /\ ~crashed /\ pass = "send" /\ cur # Null
    /\ cur' = next[cur]
    /\ UNCHANGED <<head, next, holds, live, pass, prev, gone, closed, intact, crashed>>

(* batchRecv finds data, or none: the cell stays. *)
RecvKeep ==
    /\ ~crashed /\ pass = "recv" /\ cur \in live
    /\ holds[cur] \notin gone
    /\ prev' = cur
    /\ cur' = next[cur]
    /\ UNCHANGED <<head, next, holds, live, pass, gone, closed, intact, crashed>>

(* Wrong variant: the case of the first cell is left out. *)
UnlinkNeverMovesHead ==
    /\ next' = IF prev = Null THEN next ELSE [next EXCEPT ![prev] = next[cur]]
    /\ UNCHANGED head

(* if(current == l->head) l->head = ...; else previous->next = ...; *)
Unlink ==
    IF cur = head
    THEN /\ head' = next[cur]
         /\ UNCHANGED next
    ELSE /\ next' = [next EXCEPT ![prev] = next[cur]]
         /\ UNCHANGED head

WritesFreedCell == cur # head /\ prev \notin live

(* batchRecv finds a broken channel: close, unlink, free, and then         *)
(* `previous = current; current = current->next' on the freed cell.        *)
RecvDrop ==
    /\ ~crashed /\ pass = "recv" /\ cur \in live
    /\ holds[cur] \in gone
    /\ closed' = closed \cup {holds[cur]}
    /\ Unlink
    /\ live' = live \ {cur}
    /\ intact' = (intact /\ ~WritesFreedCell)
    /\ prev' = cur
    /\ cur' = next'[cur]
    /\ UNCHANGED <<holds, pass, gone, crashed>>

(* batchRecv or finalize on a freed cell: an unexpected type is closed     *)
(* without effect, then the second free of the cell aborts the process.    *)
VisitFreed ==
    /\ ~crashed /\ pass \in {"recv", "final"}
    /\ cur \notin live \cup {Null}
    /\ crashed' = TRUE
    /\ UNCHANGED <<head, next, holds, live, pass, cur, prev, gone, closed, intact>>

(* Wrong variant: finalize closes the clients and keeps their cells. *)
FinalSkipsFree ==
    /\ ~crashed /\ pass = "final" /\ cur \in live
    /\ closed' = closed \cup {holds[cur]}
    /\ cur' = next[cur]
    /\ UNCHANGED <<head, next, holds, live, pass, prev, gone, intact, crashed>>

(* CCList_finalize: next = current->next, close, free. *)
FinalVisit ==
    /\ ~crashed /\ pass = "final" /\ cur \in live
    /\ closed' = closed \cup {holds[cur]}
    /\ live' = live \ {cur}
    /\ cur' = next[cur]
    /\ UNCHANGED <<head, next, holds, pass, prev, gone, intact, crashed>>

(* Wrong variant: finalize leaves head at a freed cell. *)
EndKeepsHead ==
    /\ ~crashed /\ pass # NoPass /\ cur = Null
    /\ pass' = NoPass
    /\ prev' = Null
    /\ UNCHANGED <<head, next, holds, live, cur, gone, closed, intact, crashed>>

(* The loop ends; CCList_finalize also resets head. *)
End ==
    /\ ~crashed /\ pass # NoPass /\ cur = Null
    /\ pass' = NoPass
    /\ head' = IF pass = "final" THEN Null ELSE head
    /\ prev' = Null
    /\ UNCHANGED <<next, holds, live, cur, gone, closed, intact, crashed>>

HangUp(c) ==
    /\ ~crashed
    /\ gone' = gone \cup {c}
    /\ UNCHANGED <<head, next, holds, live, pass, cur, prev, closed, intact, crashed>>

Next ==
    \/ \E c \in Clients : AddNew(c) \/ HangUp(c)
    \/ \E p \in {"send", "recv", "final"} : Begin(p)
    \/ SendVisit
    \/ RecvKeep
    \/ RecvDrop
    \/ VisitFreed
    \/ FinalVisit
    \/ End

Spec == Init /\ [][Next]_vars

-----------------------------------------------------------------------------
(* As long as no pass has written through a freed `previous', the cells    *)
(* reachable from the list are exactly the allocated ones, each once and   *)
(* each with a client of its own that was not closed: nothing leaks and    *)
(* nothing dangles (_createNodeAndAdd, batchRecv's unlinking, finalize).   *)
ListExact ==
    intact =>
        LET nodes == SeenNodes \o TodoNodes IN
        /\ Elems(nodes) = live
        /\ Len(nodes) = Cardinality(live)
        /\ Cardinality(Held) = Cardinality(live)
        /\ Held \cap closed = {}

(* The process dies in the list code only if a cell could not be allocated *)
(* or if an earlier pass wrote through a freed `previous'.                 *)
CrashNeedsCause == crashed => ~intact \/ live = Nodes

Roster == INSTANCE ClientRoster WITH seen <- HeldBy(SeenNodes), todo <- HeldBy(TodoNodes)

(* The pointer manipulation implements the sequence of ClientRoster: every *)
(* pass visits every listed client once and in order, and batchRecv closes *)
(* and removes exactly the broken ones (clientchannel.h: "closes and       *)
(* removes it if the connection is broken") - up to the first write        *)
(* through a freed `previous'.                                             *)
ImplementsRoster ==
    /\ Roster!Init
    /\ [][intact' => (Roster!Next \/ UNCHANGED Roster!vars)]_vars

(* What clientchannel.h says of CCList_batchRecv without reserve: a client *)
(* that was removed is off the list, so between two passes every cell on   *)
(* the list is allocated.                                                  *)
RemovedForGood == pass = NoPass => Elems(Path) \subseteq live
=============================================================================
