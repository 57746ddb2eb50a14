------------------------------- MODULE AtQueue -------------------------------
(***************************************************************************)
(* The AT command queue of one modem (at_queue.c) and the monitor thread   *)
(* that drives it (chan_dongle.c, do_monitor_phone).  A task is a list of  *)
(* commands that are written one by one: the next one goes out when the    *)
(* result of the one before it has arrived.  The modem is the environment. *)
(* Each call into at_queue.c is one step.                                   *)
(***************************************************************************)
EXTENDS Integers, Sequences

CONSTANTS
    Cpvt,           \* call descriptors (struct cpvt)
    SysChan,        \* &pvt->sys_chan, the owner of tasks that belong to no call
    Script,         \* the command lists a task may be made of
    InitScript,     \* the list at_enque_initialization() queues
    Ping,           \* the list at_enque_ping() queues
    MaxCmds,        \* bound: commands in a list
    MaxTasks,       \* bound: tasks created in a behaviour
    NoCmd

Res == {"OK", "ERROR", "PROMPT", "CMGR"}

(* at_queue_cmd_t: the result the command waits for, ATQ_CMD_FLAG_IGNORE,   *)
(* and whether it is CMD_USER.                                              *)
Command == [res : Res, ign : BOOLEAN, user : BOOLEAN]

ASSUME SysAssumption == SysChan \notin Cpvt
ASSUME BoundAssumption == MaxTasks \in Nat /\ MaxCmds \in Nat
ASSUME NoCmdAssumption == NoCmd \notin [id : 1..MaxTasks, no : 1..MaxCmds]
ASSUME ScriptAssumption ==
    /\ \A s \in Script : s \in Seq(Command) /\ Len(s) \in 1..MaxCmds
    /\ InitScript \in Script
    /\ Ping \in Script

VARIABLES
    q,          \* [list, at_tasks, at_cmds]: pvt->at_queue and its counters in pvt->state
    nextId,     \* names the next task
    live,       \* call descriptors in pvt->chans
    mon,        \* where the monitor thread is
    port,       \* commands the modem has received and not answered, in order
    sent,       \* history: commands written to the port
    refused     \* history: tasks whose insertion was reported as failed

vars == <<q, nextId, live, mon, port, sent, refused>>

Id == 1..MaxTasks
Owner == Cpvt \cup {SysChan}
Ref == [id : Id, no : 1..MaxCmds]

(* at_queue_task_t.  "cindex" commands are done; "written" holds the places *)
(* of those whose length at_queue_free_data() has set to 0.                 *)
Task == [id : Id, cpvt : Owner, cmds : Script, cindex : Nat, written : SUBSET Nat]

-----------------------------------------------------------------------------
(* The list and its counters *)

HeadTask(r) == Head(r.list)
HeadNo(r) == HeadTask(r).cindex + 1
HeadCmd(r) == HeadTask(r).cmds[HeadNo(r)]
HeadRef(r) == [id |-> HeadTask(r).id, no |-> HeadNo(r)]
HeadWritten(r) == HeadNo(r) \in HeadTask(r).written

NewTask(cpvt, cmds) ==
    [id |-> nextId, cpvt |-> cpvt, cmds |-> cmds, cindex |-> 0, written |-> {}]

(* Mutant: an urgent task goes in front of the head.                        *)
AddedAtFront(r, t, prio) ==
    [list     |-> IF prio THEN <<t>> \o r.list ELSE Append(r.list, t),
     at_tasks |-> r.at_tasks + 1,
     at_cmds  |-> r.at_cmds + Len(t.cmds)]

(* at_queue_add: an urgent task goes behind the head, which is under way.   *)
Added(r, t, prio) ==
    [list     |-> IF prio /\ r.list # <<>>
                    THEN <<Head(r.list), t>> \o Tail(r.list)
                    ELSE Append(r.list, t),
     at_tasks |-> r.at_tasks + 1,
     at_cmds  |-> r.at_cmds + Len(t.cmds)]

(* Mutant: the commands that were never sent stay in the count.             *)
RemovedKeepsCount(r) ==
    [r EXCEPT !.list = Tail(@), !.at_tasks = @ - 1]

(* at_queue_remove *)
Removed(r) ==
    [list     |-> Tail(r.list),
     at_tasks |-> r.at_tasks - 1,
     at_cmds  |-> r.at_cmds - (Len(HeadTask(r).cmds) - HeadTask(r).cindex)]

(* The head task with its current command done.                             *)
Advanced(r) ==
    [list     |-> [r.list EXCEPT ![1].cindex = @ + 1],
     at_tasks |-> r.at_tasks,
     at_cmds  |-> r.at_cmds - 1]

(* Mutant: the end of the task is missed by one.                            *)
CmdRemovedLate(r, res) ==
    IF \/ HeadNo(r) > Len(HeadTask(r).cmds)
       \/ HeadCmd(r).res # res /\ ~HeadCmd(r).ign
      THEN Removed(Advanced(r))
      ELSE Advanced(r)

(* at_queue_remove_cmd: a wrong result ends the task unless the command     *)
(* has ATQ_CMD_FLAG_IGNORE.                                                 *)
CmdRemoved(r, res) ==
    IF \/ HeadNo(r) >= Len(HeadTask(r).cmds)
       \/ HeadCmd(r).res # res /\ ~HeadCmd(r).ign
      THEN Removed(Advanced(r))
      ELSE Advanced(r)

(* Commands still to be done in the tasks of a list.                        *)
CmdsLeft(list) ==
    LET left[i \in 0..Len(list)] ==
            IF i = 0 THEN 0 ELSE left[i - 1] + Len(list[i].cmds) - list[i].cindex
    IN  left[Len(list)]

(* at_queue_flush: at_queue_remove until the list is empty.                 *)
Flushed(r) ==
    [list     |-> <<>>,
     at_tasks |-> r.at_tasks - Len(r.list),
     at_cmds  |-> r.at_cmds - CmdsLeft(r.list)]

(* Mutant: the command keeps its length after it is written.                *)
NotMarked(r) == r

(* at_queue_free_data on the head command: "mark as written".               *)
MarkWritten(r) ==
    [list     |-> [r.list EXCEPT ![1].written = @ \cup {HeadNo(r)}],
     at_tasks |-> r.at_tasks,
     at_cmds  |-> r.at_cmds]

(* at_queue_run on the queue r: writes the head command if that is still to *)
(* be done.  A failed write counts as a result other than the expected one. *)
RunIdle(r) ==
    /\ r.list # <<>> => HeadWritten(r)
    /\ q' = r
    /\ UNCHANGED <<port, sent>>

RunWrite(r) ==
    /\ r.list # <<>> /\ ~HeadWritten(r)
    /\ q' = MarkWritten(r)
    /\ port' = Append(port, HeadRef(r))
    /\ sent' = sent \cup {HeadRef(r)}

RunFail(r) ==
    /\ r.list # <<>> /\ ~HeadWritten(r)
    /\ q' = CmdRemoved(r, "WRITE_FAILED")
    /\ UNCHANGED <<port, sent>>

(* at_queue_insert, at_queue_insert_const, at_queue_insert_task: add, then  *)
(* run.  A failure of either is reported to the caller; when memory for the *)
(* task runs out the queue is run all the same.                             *)
Inserted(cpvt, cmds, prio) ==
    /\ nextId <= MaxTasks
    /\ nextId' = nextId + 1
    /\ LET r == Added(q, NewTask(cpvt, cmds), prio)
       IN  \/ (RunIdle(r) \/ RunWrite(r)) /\ UNCHANGED refused
           \/ RunFail(r) /\ refused' = refused \cup {nextId}

InsertNoMemory ==
    /\ nextId <= MaxTasks
    /\ nextId' = nextId + 1
    /\ refused' = refused \cup {nextId}
    /\ RunIdle(q) \/ RunWrite(q) \/ RunFail(q)

-----------------------------------------------------------------------------
(* The threads that use the queue *)

(* The channel driver, CLI and manager threads, and response handlers.  The *)
(* modem is connected, even while the monitor sleeps before a clean-up.     *)
Insert(cpvt, cmds, prio) ==
    /\ mon # "stopped"
    /\ Inserted(cpvt, cmds, prio)
    /\ UNCHANGED <<live, mon>>

InsertFails ==
    /\ mon # "stopped"
    /\ InsertNoMemory
    /\ UNCHANGED <<live, mon>>

(* cpvt_alloc *)
Alloc(c) ==
    /\ mon # "stopped"
    /\ c \notin live
    /\ live' = live \cup {c}
    /\ UNCHANGED <<q, nextId, mon, port, sent, refused>>

(* Mutants: tasks keep the pointer; tasks get a null pointer.               *)
NotRelinked(list, c) == list

RelinkedToNull(list, c) ==
    [i \in DOMAIN list |->
        IF list[i].cpvt = c THEN [list[i] EXCEPT !.cpvt = NoCmd] ELSE list[i]]

(* cpvt_free: queued tasks of the call go to sys_chan.                      *)
Relinked(list, c) ==
    [i \in DOMAIN list |->
        IF list[i].cpvt = c THEN [list[i] EXCEPT !.cpvt = SysChan] ELSE list[i]]

Free(c) ==
    /\ c \in live
    /\ live' = live \ {c}
    /\ q' = [q EXCEPT !.list = Relinked(@, c)]
    /\ UNCHANGED <<nextId, mon, port, sent, refused>>

-----------------------------------------------------------------------------
(* The monitor thread *)

(* at_response_ok, _error, _sms_prompt and _cmgr take a result for the head *)
(* command only if the command can end that way.                            *)
Accepts(cmd, res) ==
    CASE res = "OK"     -> cmd.res \in {"OK", "CMGR"}
      [] res = "ERROR"  -> cmd.res \in {"OK", "CMGR", "PROMPT"}
      [] res = "PROMPT" -> cmd.res = "PROMPT"
      [] res = "CMGR"   -> cmd.res = "CMGR" \/ cmd.user

(* The modem ends its oldest command; the monitor credits the head of the   *)
(* queue with the result (at_queue_handle_result).  ERROR ends the          *)
(* connection if the command is a critical one.                             *)
Response(res) ==
    /\ mon = "idle"
    /\ port # <<>>
    /\ q.list # <<>>
    /\ Accepts(HeadCmd(q), res)
    /\ port' = Tail(port)
    /\ q' = CmdRemoved(q, res)
    /\ mon' \in IF res = "ERROR" THEN {"run", "broken"} ELSE {"run"}
    /\ UNCHANGED <<nextId, live, sent, refused>>

(* An unsolicited line, or a result no command waits for.                   *)
Unsolicited ==
    /\ mon = "idle"
    /\ mon' = "run"
    /\ UNCHANGED <<q, nextId, live, port, sent, refused>>

(* After every line the monitor runs the queue; an error means clean-up.    *)
MonitorRun ==
    /\ mon = "run"
    /\ \/ (RunIdle(q) \/ RunWrite(q)) /\ mon' = "idle"
       \/ RunFail(q) /\ mon' = "broken"
    /\ UNCHANGED <<nextId, live, refused>>

(* Mutant: only a command that could not be written is given up.            *)
TimeoutUnwritten ==
    /\ mon = "idle"
    /\ q.list # <<>> /\ ~HeadWritten(q)
    /\ mon' = "broken"
    /\ UNCHANGED <<q, nextId, live, port, sent, refused>>

(* Nothing arrived in time.  With a command in the queue the connection is  *)
(* given up, otherwise a ping is queued (its failure is ignored).           *)
TimeoutBusy ==
    /\ mon = "idle"
    /\ q.list # <<>>
    /\ mon' = "broken"
    /\ UNCHANGED <<q, nextId, live, port, sent, refused>>

TimeoutPing ==
    /\ mon = "idle"
    /\ q.list = <<>>
    /\ Inserted(SysChan, Ping, TRUE)
    /\ UNCHANGED <<live, mon>>

(* The port is lost, a critical command ended in ERROR, or the thread is    *)
(* asked to terminate.                                                      *)
Lost ==
    /\ mon = "idle"
    /\ mon' = "broken"
    /\ UNCHANGED <<q, nextId, live, port, sent, refused>>

(* disconnect_dongle: calls are released, at_queue_flush, the port closed.  *)
Cleanup ==
    /\ mon = "broken"
    /\ mon' = "stopped"
    /\ live' = {}
    /\ q' = Flushed(q)
    /\ port' = <<>>
    /\ UNCHANGED <<nextId, sent, refused>>

(* A new monitor thread queues the initialization commands.                 *)
Start ==
    /\ mon = "stopped"
    /\ Inserted(SysChan, InitScript, FALSE)
    /\ mon' = IF refused' = refused THEN "idle" ELSE "broken"
    /\ UNCHANGED live
-----------------------------------------------------------------------------

Init ==
    /\ q = [list |-> <<>>, at_tasks |-> 0, at_cmds |-> 0]
    /\ nextId = 1
    /\ live = {}
    /\ mon = "stopped"
    /\ port = <<>>
    /\ sent = {}
    /\ refused = {}

Users ==
    \/ \E c \in live \cup {SysChan}, s \in Script, prio \in BOOLEAN : Insert(c, s, prio)
    \/ InsertFails
    \/ \E c \in Cpvt : Alloc(c) \/ Free(c)

Monitor ==
    \/ \E res \in Res : Response(res)
    \/ Unsolicited \/ MonitorRun \/ TimeoutBusy \/ TimeoutPing \/ Lost
    \/ Cleanup \/ Start

Next == Users \/ Monitor

Spec == Init /\ [][Next]_vars

(* The monitor loop never blocks for ever: at_wait() has a timeout, which   *)
(* fires unless something arrives first.  Nothing makes the modem answer.   *)
FairSpec ==
    /\ Spec
    /\ WF_vars(MonitorRun)
    /\ WF_vars(Cleanup)
    /\ WF_vars(TimeoutBusy \/ TimeoutPing)

-----------------------------------------------------------------------------
(* Properties *)

(* The variables have their types; at_cmds is covered by CountersMatch.     *)
TypeOK ==
    /\ q = [list |-> q.list, at_tasks |-> q.at_tasks, at_cmds |-> q.at_cmds]
    /\ q.list \in Seq(Task)
    /\ nextId \in 1..(MaxTasks + 1)
    /\ live \subseteq Cpvt
    /\ mon \in {"idle", "run", "broken", "stopped"}
    /\ port \in Seq(Ref)
    /\ sent \subseteq Ref
    /\ refused \subseteq Id

(* pvt->state.at_tasks and at_cmds, which the CLI shows, count what is in   *)
(* the list: no path through a failed write, a wrong result, an ignored     *)
(* result or a flush loses a command or counts it twice.                    *)
CountersMatch ==
    /\ q.at_tasks = Len(q.list)
    /\ q.at_cmds = CmdsLeft(q.list)

(* Commands are written strictly one after another: nothing behind the head *)
(* of the queue, and nothing behind the head's current command, is written. *)
OnlyHeadWritten ==
    \A i \in 1..Len(q.list) :
        LET t == q.list[i]
        IN  /\ t.cindex < Len(t.cmds)
            /\ t.written \subseteq 1..(IF i = 1 THEN t.cindex + 1 ELSE 0)

(* The modem holds at most one unanswered command, and it is the one the    *)
(* monitor credits the next result to (at_queue_head_cmd).  With urgent     *)
(* insertions, failed writes and skipped commands in between, a result is   *)
(* never taken for another command's.                                       *)
PortMatchesHead ==
    port = IF q.list # <<>> /\ HeadWritten(q) THEN <<HeadRef(q)>> ELSE <<>>

(* Tasks never point to a call descriptor that cpvt_free() has released:    *)
(* response handlers dereference task->cpvt.                                *)
OwnersLive == \A i \in 1..Len(q.list) : q.list[i].cpvt \in live \cup {SysChan}

(* A task that has reached the head keeps its place until it leaves the     *)
(* queue: an urgent insertion never interrupts a command exchange.          *)
HeadStays ==
    [][q.list # <<>> /\ q'.list # <<>> /\ HeadTask(q').id # HeadTask(q).id
        => \A i \in 1..Len(q'.list) : q'.list[i].id # HeadTask(q).id]_vars

(* The queue drives the port as a half-duplex line.                         *)
HDP == INSTANCE HalfDuplexPort
         WITH inflight <- IF port = <<>> THEN NoCmd ELSE Head(port)

HalfDuplex == HDP!Spec

(* helpers.c reports "Error adding SMS commands to queue" for an insertion  *)
(* that at_queue_insert_task() says has failed: its commands should then    *)
(* not be waiting in the queue.                                             *)
RefusedNotQueued ==
    mon = "idle" => \A i \in 1..Len(q.list) : q.list[i].id \notin refused

InQueue(id) == \E i \in 1..Len(q.list) : q.list[i].id = id

(* Every task leaves the queue, answered or given up, provided the modem    *)
(* does not send unsolicited lines for ever.                                *)
QueueDrains ==
    (<>[][~Unsolicited]_vars) => \A id \in Id : InQueue(id) ~> ~InQueue(id)

(* at_queue.h: a command has a "timeout value, started at time when command *)
(* actually written on device".  So every task should leave the queue even  *)
(* if the modem never answers but keeps sending unsolicited lines.          *)
TimeoutsExpire == \A id \in Id : InQueue(id) ~> ~InQueue(id)

=============================================================================
