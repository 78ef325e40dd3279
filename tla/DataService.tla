---------------------------- MODULE DataService ----------------------------
(***************************************************************************)
(* What kraken promises to a client of its request threads, whatever the   *)
(* maintenance thread is doing in the meantime: the server behaves as an   *)
(* atomic register holding one dataset.  A publication replaces the        *)
(* register; a request reads it exactly once, between its arrival and its  *)
(* answer, and everything in the answer (planner results, data, the        *)
(* publication date) comes from that single read.                          *)
(***************************************************************************)
EXTENDS Naturals

CONSTANT Workers        \* the request threads

VARIABLES
    version,            \* number of the dataset in service; later ones are larger
    ready,              \* is that dataset loaded?
    phase,              \* phase[w] : where thread w is in its request
    view,               \* view[w]  : the dataset its request reads, 0 before the read
    reply               \* reply[w] : what it answers

vars == <<version, ready, phase, view, reply>>

Phase == {"idle", "asked", "reading", "answered"}

NoReply == [kind |-> "none", planner |-> 0, data |-> 0, date |-> 0]

\* The answers a request that read dataset v (loaded or not) may get.
Replies(v, loaded) ==
    LET date == IF loaded THEN v ELSE 0
    IN  {[kind |-> "error",       planner |-> 0, data |-> 0, date |-> date],
         [kind |-> "status",      planner |-> 0, data |-> v, date |-> date]}
        \cup (IF loaded
              THEN {[kind |-> "result", planner |-> v, data |-> v, date |-> v]}
              ELSE {[kind |-> "unavailable", planner |-> 0, data |-> 0, date |-> 0]})

Init ==
    /\ version = 1
    /\ ready = FALSE
    /\ phase = [w \in Workers |-> "idle"]
    /\ view = [w \in Workers |-> [version |-> 0, ready |-> FALSE]]
    /\ reply = [w \in Workers |-> NoReply]

Publish ==
    /\ version' > version
    /\ ready => ready'
    /\ UNCHANGED <<phase, view, reply>>

Ask(w) ==
    /\ phase[w] = "idle"
    /\ phase' = [phase EXCEPT ![w] = "asked"]
    /\ UNCHANGED <<version, ready, view, reply>>

Read(w) ==
    /\ phase[w] = "asked"
    /\ phase' = [phase EXCEPT ![w] = "reading"]
    /\ view' = [view EXCEPT ![w] = [version |-> version, ready |-> ready]]
    /\ UNCHANGED <<version, ready, reply>>

Answer(w) ==
    /\ phase[w] = "reading"
    /\ phase' = [phase EXCEPT ![w] = "answered"]
    /\ \E r \in Replies(view[w].version, view[w].ready) :
          reply' = [reply EXCEPT ![w] = r]
    /\ UNCHANGED <<version, ready, view>>

Done(w) ==
    /\ phase[w] = "answered"
    /\ phase' = [phase EXCEPT ![w] = "idle"]
    /\ view' = [view EXCEPT ![w] = [version |-> 0, ready |-> FALSE]]
    /\ reply' = [reply EXCEPT ![w] = NoReply]
    /\ UNCHANGED <<version, ready>>

Next ==
    \/ Publish
    \/ \E w \in Workers : Ask(w) \/ Read(w) \/ Answer(w) \/ Done(w)

Spec == Init /\ [][Next]_vars

=============================================================================
