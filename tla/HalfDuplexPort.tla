---------------------------- MODULE HalfDuplexPort ----------------------------
(***************************************************************************)
(* What the AT command queue promises about the data port of a modem: the  *)
(* port carries one command at a time, a command goes out once at most,    *)
(* and the commands of one task go out in the order they were given.       *)
(* Everything else (priorities, flags, counters) is the queue's business.  *)
(***************************************************************************)
EXTENDS Naturals

CONSTANTS
    Ref,        \* names of commands: [id |-> task, no |-> place in its task]
    NoCmd       \* no command

VARIABLES
    inflight,   \* the command the modem is working on, or NoCmd
    sent        \* the commands written to the port so far

vars == <<inflight, sent>>

Init == inflight = NoCmd /\ sent = {}

(* A command is written only when the modem is idle, never twice, and       *)
(* never after a later command of the same task.                            *)
Send(c) ==
    /\ inflight = NoCmd
    /\ \A s \in sent : s.id = c.id => s.no < c.no
    /\ inflight' = c
    /\ sent' = sent \cup {c}

(* The modem gives its final result, or the port is closed.                 *)
Finish ==
    /\ inflight # NoCmd
    /\ inflight' = NoCmd
    /\ UNCHANGED sent

Next == Finish \/ \E c \in Ref : Send(c)

Spec == Init /\ [][Next]_vars
=============================================================================
