-------------------------------- MODULE Calls --------------------------------
(***************************************************************************)
(* The calls of one modem: call descriptors (cpvt.c), the Asterisk         *)
(* channels that belong to them (channel.c), the commands that are queued  *)
(* for them (at_command.c) and the reactions to what the modem says        *)
(* (at_response.c).  The AT queue is taken as AtQueue and its proofs leave *)
(* it: the first command of the first task is with the modem, and the next *)
(* result belongs to it.  Every command about calls is an urgent one.      *)
(*                                                                         *)
(* The monitor thread handles a line without pvt->lock, and the lines of a *)
(* +CLCC answer one by one, so the channel threads may act in between.     *)
(* Commands without influence on calls (CLIR, DDSETEX, CLVL) and media are *)
(* left out, and ALERTING, which is treated like DIALING, is not told from *)
(* it.                                                                     *)
(***************************************************************************)
EXTENDS Integers, Sequences, FiniteSets

CONSTANTS
    Cpvt,           \* call descriptors; each is used once, and so is its channel
    SysChan,        \* &pvt->sys_chan
    NULL,
    MaxIdx,         \* bound: call numbers of the modem
    MaxIncoming,    \* bound: calls that arrive
    MaxLine,        \* bound: lines on their way when the modem speaks unasked
    MaxDrops,       \* bound: times the connection is lost
    Group295,       \* CONF_SHARED(pvt, group) = 295: answered calls are dropped
    MayFail         \* whether insertions may fail and commands be refused

ASSUME CpvtAssumption ==
    /\ IsFiniteSet(Cpvt)
    /\ SysChan \notin Cpvt /\ NULL \notin Cpvt /\ SysChan # NULL
ASSUME BoundAssumption ==
    /\ MaxIdx \in Nat \ {0} /\ MaxIncoming \in Nat /\ MaxLine \in Nat /\ MaxDrops \in Nat
    /\ Group295 \in BOOLEAN /\ MayFail \in BOOLEAN

VARIABLES
    st,         \* cpvt->state, or "unused" or "freed"
    idx,        \* cpvt->call_idx
    dir,        \* cpvt->dir
    hold,       \* CALL_FLAG_HOLD_OTHER
    need,       \* CALL_FLAG_NEED_HANGUP
    chan,       \* cpvt->channel is not NULL
    phase,      \* what Asterisk has done with the channel
    tech,       \* the channel's tech_pvt is not NULL
    asked,      \* ast_queue_hangup() was called for the channel
    bits,       \* the bits dialing, ring and cwaiting of struct pvt that are set
    last,       \* pvt->last_dialed_cpvt
    count,      \* PVT_STATE(pvt, chan_count)
    selectbusy,
    up,         \* connected and initialized
    drops,
    tasks,      \* pvt->at_queue: [cpvt, cmds], the commands still to be done
    todo,       \* lines of a +CLCC answer the monitor is working through
    call,       \* the modem: state of each call number
    whose,      \* the modem: the descriptor whose ATD made the call, NULL if it came in
    incoming,   \* the modem: calls that have arrived
    line,       \* what the modem has said and the monitor has not read
    stale       \* history: channel_hangup() used a descriptor that was freed

desc   == <<st, idx, dir, hold, need, chan>>
astvars == <<phase, tech, asked>>
driver == <<bits, last, count, selectbusy, up, drops>>
modem  == <<call, whose, incoming>>
vars   == <<desc, astvars, driver, tasks, todo, modem, line, stale>>

CallState == {"ACTIVE", "ONHOLD", "DIALING", "INCOMING", "WAITING", "INIT"}
Idx == 1..MaxIdx
Live == {c \in Cpvt : st[c] \in CallState}          \* pvt->chans
In(S) == {c \in Live : st[c] \in S}

-----------------------------------------------------------------------------
(* The queue *)

Cmd(name, i) == [cmd |-> name, idx |-> i]
CLCC == Cmd("CLCC", 0)
CHUP == Cmd("CHUP", 0)
Task(c, cmds) == [cpvt |-> c, cmds |-> cmds]

(* at_queue_add with prio 1, see AtQueue.                                   *)
Urgent(list, t) ==
    IF list = <<>> THEN <<t>> ELSE <<Head(list), t>> \o Tail(list)

HeadTask == Head(tasks)
HeadCmd == Head(HeadTask.cmds)

(* at_queue_remove_cmd: of the commands here ATD has ATQ_CMD_FLAG_IGNORE.   *)
CmdDone(ok) ==
    IF Len(HeadTask.cmds) = 1 \/ (~ok /\ HeadCmd.cmd # "D")
      THEN Tail(tasks)
      ELSE <<Task(HeadTask.cpvt, Tail(HeadTask.cmds))>> \o Tail(tasks)

(* request_clcc *)
WithClcc(list) == Urgent(list, Task(SysChan, <<CLCC>>))

(* The urgent task is queued, or its insertion fails.                       *)
Enqueue(c, cmds) ==
    \/ tasks' = Urgent(tasks, Task(c, cmds))
    \/ MayFail /\ UNCHANGED tasks

-----------------------------------------------------------------------------
(* Call descriptors: cpvt.c and change_channel_state() *)

(* cpvt_alloc, as new_channel() calls it, with the channel that goes with   *)
(* it in the given phase.                                                   *)
NewChannel(c, i, d, s, flag, ph) ==
    /\ st' = [st EXCEPT ![c] = s]
    /\ idx' = [idx EXCEPT ![c] = i]
    /\ dir' = [dir EXCEPT ![c] = d]
    /\ need' = [need EXCEPT ![c] = flag]
    /\ chan' = [chan EXCEPT ![c] = TRUE]
    /\ phase' = [phase EXCEPT ![c] = ph]
    /\ tech' = [tech EXCEPT ![c] = TRUE]
    /\ count' = [count EXCEPT ![s] = @ + 1]

(* The bit that stands for a call in this state.                            *)
BitOf(s) ==
    CASE s \in {"INIT", "DIALING"} -> "dialing"
      [] s = "INCOMING" -> "ring"
      [] s = "WAITING" -> "cwaiting"
      [] OTHER -> "none"

(* "update bits of devstate cache", for a call that is answered or over.    *)
BitsAfter(c, b) == b \ {BitOf(st[c])}

(* Mutant: a new state is written without moving the count.                 *)
ChangedUncounted(c, s) ==
    /\ st' = [st EXCEPT ![c] = s]
    /\ UNCHANGED count

(* change_channel_state, for a state other than RELEASED.                   *)
Changed(c, s) ==
    /\ st' = [st EXCEPT ![c] = s]
    /\ count' = [count EXCEPT ![st[c]] = @ - 1, ![s] = @ + 1]

(* cpvt_free: "relink task to sys_chan".                                    *)
Relinked(list, c) ==
    [i \in DOMAIN list |->
        IF list[i].cpvt = c THEN Task(SysChan, list[i].cmds) ELSE list[i]]

(* What freed memory held is of no interest.                                *)
Forgotten(S) ==
    /\ idx' = [c \in Cpvt |-> IF c \in S THEN 0 ELSE idx[c]]
    /\ dir' = [c \in Cpvt |-> IF c \in S THEN "out" ELSE dir[c]]
    /\ hold' = [c \in Cpvt |-> IF c \in S THEN FALSE ELSE hold[c]]

(* Mutant: last_dialed_cpvt is kept.                                        *)
ReleasedKeepsLast(c, b, list) ==
    /\ st' = [st EXCEPT ![c] = "freed"]
    /\ need' = [need EXCEPT ![c] = FALSE]
    /\ chan' = [chan EXCEPT ![c] = FALSE]
    /\ tech' = [tech EXCEPT ![c] = @ /\ ~chan[c]]
    /\ asked' = [asked EXCEPT ![c] = @ \/ chan[c]]
    /\ bits' = BitsAfter(c, b)
    /\ count' = [count EXCEPT ![st[c]] = @ - 1]
    /\ tasks' = Relinked(list, c)
    /\ Forgotten({c})
    /\ UNCHANGED <<phase, last>>

(* Mutant: the channel is not asked to hang up.                             *)
ReleasedSilently(c, b, list) ==
    /\ st' = [st EXCEPT ![c] = "freed"]
    /\ need' = [need EXCEPT ![c] = FALSE]
    /\ chan' = [chan EXCEPT ![c] = FALSE]
    /\ tech' = [tech EXCEPT ![c] = @ /\ ~chan[c]]
    /\ bits' = BitsAfter(c, b)
    /\ last' = IF last = c THEN NULL ELSE last
    /\ count' = [count EXCEPT ![st[c]] = @ - 1]
    /\ tasks' = Relinked(list, c)
    /\ Forgotten({c})
    /\ UNCHANGED <<phase, asked>>

(* change_channel_state to RELEASED, after NEED_HANGUP was reset: a live    *)
(* channel loses its reference and is asked to hang up, and cpvt_free() is  *)
(* called in any case.                                                      *)
Released(c, b, list) ==
    /\ st' = [st EXCEPT ![c] = "freed"]
    /\ need' = [need EXCEPT ![c] = FALSE]
    /\ chan' = [chan EXCEPT ![c] = FALSE]
    /\ tech' = [tech EXCEPT ![c] = @ /\ ~chan[c]]
    /\ asked' = [asked EXCEPT ![c] = @ \/ chan[c]]
    /\ bits' = BitsAfter(c, b)
    /\ last' = IF last = c THEN NULL ELSE last
    /\ count' = [count EXCEPT ![st[c]] = @ - 1]
    /\ tasks' = Relinked(list, c)
    /\ Forgotten({c})
    /\ UNCHANGED phase

(* Mutant: the number of another descriptor is taken.                       *)
PseudoIdxTaken == 1

(* pvt_get_pseudo_call_idx: the smallest number no descriptor has, or 0.    *)
PseudoIdx ==
    LET free == Idx \ {idx[c] : c \in Live}
    IN  IF free = {} THEN 0 ELSE CHOOSE i \in free : \A j \in free : i <= j

(* pvt_find_cpvt; the list's order is not kept.                             *)
WithIdx(i) == {c \in Live : idx[c] = i}

-----------------------------------------------------------------------------
(* Channel threads *)

(* is_dial_possible2 for a call with option h, leaving descriptor x out.    *)
DialPossible(h, x) ==
    /\ bits = {}
    /\ In({"INIT"}) \subseteq {x}
    /\ In({"DIALING", "INCOMING", "WAITING"}) = {}
    /\ In({"ACTIVE", "ONHOLD"}) # {} => h
    /\ In({"ACTIVE"}) = {} \/ In({"ONHOLD"}) = {}

(* Mutant: a device another thread has reserved is ready.                   *)
ReadyUnreserved(h, x) == up /\ DialPossible(h, x)

(* ready4voice_call *)
Ready(h, x) == up /\ ~selectbusy /\ DialPossible(h, x)

(* pvt_select_found: the device is reserved for a call.                     *)
Select(c, h) ==
    /\ phase[c] = "none"
    /\ Ready(h, NULL)
    /\ phase' = [phase EXCEPT ![c] = "selected"]
    /\ hold' = [hold EXCEPT ![c] = h]
    /\ selectbusy' = TRUE
    /\ UNCHANGED <<st, idx, dir, need, chan, tech, asked, bits, last, count, up, drops>>
    /\ UNCHANGED <<tasks, todo, modem, line, stale>>

(* channel_request: the rest of it, on the device that was selected.        *)
Request(c) ==
    /\ phase[c] = "selected"
    /\ NewChannel(c, PseudoIdx, "out", "INIT", FALSE, "down")
    /\ selectbusy' = FALSE
    /\ UNCHANGED <<hold, asked, bits, last, up, drops>>
    /\ UNCHANGED <<tasks, todo, modem, line, stale>>

(* channel_call and at_enque_dial *)
DialCmds(c) ==
    (IF count["ACTIVE"] > 0 /\ hold[c] THEN <<Cmd("CHLD_2", 0)>> ELSE <<>>)
        \o <<Cmd("D", 0), CLCC>>

Call(c) ==
    /\ phase[c] = "down" /\ tech[c] /\ chan[c]
    /\ Ready(hold[c], c)
    /\ phase' = [phase EXCEPT ![c] = "called"]
    /\ \/ /\ tasks' = Urgent(tasks, Task(c, DialCmds(c)))
          /\ need' = [need EXCEPT ![c] = TRUE]
       \/ MayFail /\ UNCHANGED <<tasks, need>>
    /\ UNCHANGED <<st, idx, dir, hold, chan, tech, asked>>
    /\ UNCHANGED <<driver, todo, modem, line, stale>>

CallRefused(c) ==
    /\ phase[c] = "down"
    /\ ~(tech[c] /\ chan[c] /\ Ready(hold[c], c))
    /\ phase' = [phase EXCEPT ![c] = "called"]
    /\ UNCHANGED <<desc, tech, asked, driver, tasks, todo, modem, line, stale>>

(* channel_answer and at_enque_answer *)
Answer(c) ==
    /\ phase[c] = "ring"
    /\ phase' = [phase EXCEPT ![c] = "called"]
    /\ CASE ~tech[c] \/ st[c] \notin {"INCOMING", "WAITING"} -> UNCHANGED tasks
         [] tech[c] /\ st[c] = "INCOMING" -> Enqueue(c, <<Cmd("A", idx[c])>>)
         [] tech[c] /\ st[c] = "WAITING" -> Enqueue(c, <<Cmd("CHLD_2x", idx[c])>>)
    /\ UNCHANGED <<desc, tech, asked, driver, todo, modem, line, stale>>

(* channel_func_write: a call on hold is made active (at_enque_activate).   *)
Activate(c) ==
    /\ phase[c] = "called" /\ tech[c]
    /\ st[c] = "ONHOLD"
    /\ \A t \in {tasks[k] : k \in DOMAIN tasks} : t.cpvt # c
    /\ Enqueue(c, <<Cmd("CHLD_2x", idx[c]), CLCC>>)
    /\ UNCHANGED <<desc, astvars, driver, todo, modem, line, stale>>

(* channel_hangup: the descriptor is looked at before pvt->lock is taken,   *)
HangupLooks(c) ==
    /\ phase[c] \in {"down", "called", "ring"}
    /\ IF tech[c] /\ chan[c]
         THEN /\ phase' = [phase EXCEPT ![c] = "hanging"]
              /\ UNCHANGED tech
         ELSE /\ phase' = [phase EXCEPT ![c] = "gone"]
              /\ tech' = [tech EXCEPT ![c] = FALSE]
    /\ UNCHANGED <<desc, asked, driver, tasks, todo, modem, line, stale>>

(* and used when it is held.  The memory of a descriptor that was freed     *)
(* meanwhile still says that no hangup is needed.                           *)
HangupActs(c) ==
    /\ phase[c] = "hanging"
    /\ phase' = [phase EXCEPT ![c] = "gone"]
    /\ tech' = [tech EXCEPT ![c] = FALSE]
    /\ stale' = (stale \/ c \notin Live)
    /\ IF c \in Live /\ need[c]
         THEN /\ last' = IF st[c] = "INIT" THEN NULL ELSE last
              /\ \/ /\ tasks' = Urgent(tasks, Task(c, <<CHUP, CLCC>>))
                    /\ need' = [need EXCEPT ![c] = FALSE]
                 \/ MayFail /\ UNCHANGED <<tasks, need>>
         ELSE UNCHANGED <<need, last, tasks>>
    /\ chan' = [chan EXCEPT ![c] = FALSE]
    /\ UNCHANGED <<st, idx, dir, hold, asked, bits, count, selectbusy, up, drops>>
    /\ UNCHANGED <<todo, modem, line>>

-----------------------------------------------------------------------------
(* The monitor thread: at_response() for one line, then at_queue_run().     *)

Event == Head(line)
Reads(ev) ==
    /\ up /\ todo = <<>> /\ line # <<>> /\ Event.ev = ev
    /\ line' = Tail(line)

(* Mutant: last_dialed_cpvt is set to sys_chan, too.                        *)
HandleOkSys ==
    /\ Reads("OK") /\ tasks # <<>>
    /\ need' = [need EXCEPT ![HeadTask.cpvt] = HeadCmd.cmd \in {"D", "A", "CHLD_2x"}]
    /\ bits' = IF HeadCmd.cmd = "D" THEN bits \cup {"dialing"} ELSE bits
    /\ last' = IF HeadCmd.cmd = "D" THEN HeadTask.cpvt ELSE last
    /\ tasks' = CmdDone(TRUE)
    /\ UNCHANGED <<st, idx, dir, hold, chan, astvars, count, selectbusy, up, drops>>
    /\ UNCHANGED <<todo, modem, stale>>

(* at_response_ok.  CMD_AT_CHUP clears the flag that the others set.        *)
HandleOk ==
    /\ Reads("OK") /\ tasks # <<>>
    /\ LET c == HeadTask.cpvt
       IN  /\ need' = [x \in Cpvt |->
                         IF x # c THEN need[x]
                         ELSE CASE HeadCmd.cmd \in {"D", "A", "CHLD_2x"} -> TRUE
                                [] HeadCmd.cmd = "CHUP" -> FALSE
                                [] OTHER -> need[x]]
           /\ bits' = IF HeadCmd.cmd = "D" THEN bits \cup {"dialing"} ELSE bits
           /\ last' = IF HeadCmd.cmd = "D" /\ c # SysChan THEN c ELSE last
    /\ tasks' = CmdDone(TRUE)
    /\ UNCHANGED <<st, idx, dir, hold, chan, astvars, count, selectbusy, up, drops>>
    /\ UNCHANGED <<todo, modem, stale>>

(* at_response_error: a failed answer ends the call's channel; a failed     *)
(* dial only tells it "congestion".                                         *)
HandleError ==
    /\ Reads("ERROR") /\ tasks # <<>>
    /\ asked' = [c \in Cpvt |->
                   asked[c] \/ (/\ c = HeadTask.cpvt /\ chan[c]
                                /\ HeadCmd.cmd \in {"A", "CHLD_2x"})]
    /\ tasks' = CmdDone(FALSE)
    /\ UNCHANGED <<desc, phase, tech, driver, todo, modem, stale>>

(* at_response_orig: the call that was dialed last has this number.         *)
HandleOrig ==
    /\ Reads("ORIG")
    /\ last' = NULL
    /\ IF last = NULL
         THEN UNCHANGED <<st, idx, count, tasks>>
         ELSE /\ idx' = [idx EXCEPT ![last] = Event.idx]
              /\ Changed(last, "DIALING")
              /\ tasks' = WithClcc(tasks)
    /\ UNCHANGED <<dir, hold, need, chan, astvars, bits, selectbusy, up, drops>>
    /\ UNCHANGED <<todo, modem, stale>>

(* at_response_conn *)
HandleConn ==
    /\ Reads("CONN")
    /\ bits' = {}
    /\ \/ \E c \in WithIdx(Event.idx) :
            /\ Changed(c, "ACTIVE")
            /\ tasks' = IF Group295 /\ dir[c] = "out"
                          THEN Urgent(tasks, Task(c, <<CHUP, CLCC>>))
                          ELSE WithClcc(tasks)
       \/ /\ WithIdx(Event.idx) = {}
          /\ tasks' = Urgent(tasks, Task(SysChan, <<CHUP, CLCC>>))
          /\ UNCHANGED <<st, count>>
    /\ UNCHANGED <<idx, dir, hold, need, chan, astvars, last, selectbusy, up, drops>>
    /\ UNCHANGED <<todo, modem, stale>>

(* at_response_cend *)
HandleCend ==
    /\ Reads("CEND")
    /\ \/ \E c \in WithIdx(Event.idx) : Released(c, bits, WithClcc(tasks))
       \/ /\ WithIdx(Event.idx) = {}
          /\ tasks' = WithClcc(tasks)
          /\ UNCHANGED <<desc, astvars, bits, last, count>>
    /\ UNCHANGED <<selectbusy, up, drops, todo, modem, stale>>

(* Mutant: no +CLCC is asked for, so the caller is never looked at.         *)
HandleRingSilently ==
    /\ Reads("RING")
    /\ bits' = {"ring"}
    /\ UNCHANGED <<desc, astvars, last, count, selectbusy, up, drops>>
    /\ UNCHANGED <<tasks, todo, modem, stale>>

(* at_response_ring *)
HandleRing ==
    /\ Reads("RING")
    /\ bits' = {"ring"}
    /\ tasks' = WithClcc(tasks)
    /\ UNCHANGED <<desc, astvars, last, count, selectbusy, up, drops>>
    /\ UNCHANGED <<todo, modem, stale>>

(* at_response_ccwa, the unsolicited form.                                  *)
HandleCcwa ==
    /\ Reads("CCWA")
    /\ bits' = bits \cup {"cwaiting"}
    /\ tasks' = WithClcc(tasks)
    /\ UNCHANGED <<desc, astvars, last, count, selectbusy, up, drops>>
    /\ UNCHANGED <<todo, modem, stale>>

(* at_response_clcc is left after the last line: what follows the loop      *)
(* (unhold, "dead cpvt only here") is never reached.                        *)
HandleClcc ==
    /\ Reads("CLCC")
    /\ todo' = Event.calls
    /\ UNCHANGED <<desc, astvars, driver, tasks, modem, stale>>

ClccBits(s, b) ==
    CASE s = "WAITING" -> {"cwaiting"}
      [] s = "DIALING" -> {"dialing"}
      [] s = "INCOMING" -> {"ring"}
      [] OTHER -> b

NoneLeft == \A c \in Cpvt : phase[c] # "none"

(* One line of the answer: for a call that is known, *)
ClccKnown(c) ==
    /\ up /\ todo # <<>> /\ c \in WithIdx(Head(todo).idx)
    /\ IF dir[c] = Head(todo).dir /\ st[c] # Head(todo).state
         THEN /\ Changed(c, Head(todo).state)
              /\ bits' = ClccBits(Head(todo).state,
                            IF Head(todo).state = "ACTIVE" THEN BitsAfter(c, bits) ELSE bits)
         ELSE /\ bits' = ClccBits(Head(todo).state, bits)
              /\ UNCHANGED <<st, count>>
    /\ todo' = Tail(todo)
    /\ UNCHANGED <<idx, dir, hold, need, chan, astvars, last, selectbusy, up, drops>>
    /\ UNCHANGED <<tasks, modem, line, stale>>

(* for a call that arrives: a channel is made and a pbx started on it,      *)
ClccArrives(c) ==
    /\ up /\ todo # <<>> /\ WithIdx(Head(todo).idx) = {}
    /\ Head(todo).dir = "in" /\ Head(todo).state \in {"INCOMING", "WAITING"}
    /\ phase[c] = "none"
    /\ NewChannel(c, Head(todo).idx, "in", Head(todo).state, TRUE, "ring")
    /\ bits' = ClccBits(Head(todo).state, bits)
    /\ todo' = Tail(todo)
    /\ UNCHANGED <<hold, asked, last, selectbusy, up, drops>>
    /\ UNCHANGED <<tasks, modem, line, stale>>

(* for one that nothing can be done about: it is not new, or there is no    *)
(* channel for it (the modem is told to hang up) or no pbx (it is not).     *)
ClccSkipped ==
    /\ up /\ todo # <<>> /\ WithIdx(Head(todo).idx) = {}
    /\ bits' = ClccBits(Head(todo).state, bits)
    /\ todo' = Tail(todo)
    /\ IF Head(todo).dir = "in" /\ Head(todo).state \in {"INCOMING", "WAITING"}
         THEN /\ MayFail \/ NoneLeft
              /\ \/ tasks' = Urgent(tasks, Task(SysChan, <<CHUP, CLCC>>))
                 \/ UNCHANGED tasks
         ELSE UNCHANGED tasks
    /\ UNCHANGED <<desc, astvars, last, count, selectbusy, up, drops>>
    /\ UNCHANGED <<modem, line, stale>>

(* disconnect_dongle, when the port is lost, a command has timed out or     *)
(* +CLCC has ended in ERROR.  Calls may outlive the connection.             *)
Drop ==
    /\ up /\ drops < MaxDrops
    /\ drops' = drops + 1
    /\ up' = FALSE /\ selectbusy' = FALSE
    /\ st' = [c \in Cpvt |-> IF c \in Live THEN "freed" ELSE st[c]]
    /\ need' = [c \in Cpvt |-> FALSE]
    /\ chan' = [c \in Cpvt |-> FALSE]
    /\ tech' = [c \in Cpvt |-> tech[c] /\ ~chan[c]]
    /\ asked' = [c \in Cpvt |-> asked[c] \/ chan[c]]
    /\ bits' = {} /\ last' = NULL
    /\ count' = [s \in CallState |-> 0]
    /\ tasks' = <<>> /\ todo' = <<>> /\ line' = <<>>
    /\ \E S \in SUBSET Idx :
         call' = [i \in Idx |-> IF i \in S THEN call[i] ELSE "none"]
    /\ Forgotten(Live)
    /\ UNCHANGED <<phase, whose, incoming, stale>>

(* A new monitor, after the initialization commands.                        *)
Connect ==
    /\ ~up
    /\ up' = TRUE
    /\ UNCHANGED <<desc, astvars, bits, last, count, selectbusy, drops>>
    /\ UNCHANGED <<tasks, todo, modem, line, stale>>

-----------------------------------------------------------------------------
(* The modem.  It works on the first command; calls change on their own.    *)

Foreground == {i \in Idx : call[i] \in {"calling", "DIALING", "ACTIVE", "INCOMING"}}
Unused == {i \in Idx : call[i] = "none"}
Ev(name, i) == [ev |-> name, idx |-> i]
OK == Ev("OK", 0)
Answered == \E k \in DOMAIN line : line[k].ev \in {"OK", "ERROR"}
Says(lines) == line' = line \o lines

(* The calls a +CLCC answer tells of, and the line for one of them.         *)
Told == {i \in Idx : call[i] \notin {"none", "calling"}}
LineOf(i) ==
    [idx |-> i, state |-> call[i], dir |-> IF whose[i] = NULL THEN "in" ELSE "out"]

Works(cmd) ==
    /\ up /\ tasks # <<>> /\ ~Answered /\ HeadCmd.cmd = cmd
    /\ UNCHANGED <<desc, astvars, driver, tasks, todo, incoming, stale>>

(* A command may be refused, apart from +CLCC (see Drop).                   *)
Refuse ==
    /\ MayFail
    /\ \E cmd \in {"CHLD_2", "D", "A", "CHLD_2x", "CHUP"} : Works(cmd)
    /\ Says(<<Ev("ERROR", 0)>>)
    /\ UNCHANGED <<call, whose>>

DoDial ==
    /\ Works("D")
    /\ Foreground = {}
    /\ \E i \in Unused :
         /\ \A j \in Unused : i <= j
         /\ call' = [call EXCEPT ![i] = "calling"]
         /\ whose' = [whose EXCEPT ![i] = HeadTask.cpvt]
    /\ Says(<<OK>>)

DoList ==
    /\ Works("CLCC")
    /\ \E f \in [1..Cardinality(Told) -> Told] :
          /\ \A j, k \in DOMAIN f : j < k => f[j] < f[k]
          /\ Says((IF Told = {} THEN <<>>
                   ELSE <<[ev |-> "CLCC", calls |-> [k \in DOMAIN f |-> LineOf(f[k])]]>>)
                  \o <<OK>>)
    /\ UNCHANGED <<call, whose>>

(* AT+CHLD=2 swaps the active calls and those on hold.                      *)
DoSwap ==
    /\ Works("CHLD_2")
    /\ call' = [i \in Idx |-> CASE call[i] = "ACTIVE" -> "ONHOLD"
                                [] call[i] = "ONHOLD" -> "ACTIVE"
                                [] OTHER -> call[i]]
    /\ Says(<<OK>>)
    /\ UNCHANGED whose

(* ATA, and AT+CHLD=2x for call x.                                          *)
DoAnswer ==
    /\ \/ /\ Works("A")
          /\ \E i \in Idx :
               /\ call[i] = "INCOMING"
               /\ call' = [call EXCEPT ![i] = "ACTIVE"]
               /\ Says(<<Ev("CONN", i), OK>>)
       \/ /\ Works("CHLD_2x")
          /\ LET i == HeadCmd.idx
             IN  /\ i \in Idx /\ call[i] \in {"ONHOLD", "WAITING"}
                 /\ call' = [j \in Idx |-> CASE j = i -> "ACTIVE"
                                             [] j # i /\ call[j] = "ACTIVE" -> "ONHOLD"
                                             [] OTHER -> call[j]]
                 /\ Says(IF call[i] = "WAITING" THEN <<Ev("CONN", i), OK>> ELSE <<OK>>)
    /\ UNCHANGED whose

(* AT+CHUP ends the call that is not on hold or waiting.  "early AT+CHUP    *)
(* before ^ORIG for outgoing call may not get ^CEND in future".             *)
DoHangup ==
    /\ Works("CHUP")
    /\ \/ /\ Foreground = {}
          /\ Says(<<OK>>) /\ UNCHANGED call
       \/ \E i \in Foreground :
            /\ call' = [call EXCEPT ![i] = "none"]
            /\ \/ Says(<<OK, Ev("CEND", i)>>)
               \/ call[i] = "calling" /\ Says(<<OK>>)
    /\ UNCHANGED whose

Unasked ==
    /\ Len(line) < MaxLine
    /\ UNCHANGED <<desc, astvars, driver, tasks, todo, stale>>

(* What is said while nobody listens is discarded (clean_read_data).        *)
Tells(lines) == IF up THEN Says(lines) ELSE UNCHANGED line

Originates(i) ==
    /\ Unasked /\ call[i] = "calling"
    /\ call' = [call EXCEPT ![i] = "DIALING"]
    /\ Tells(<<Ev("ORIG", i)>>)
    /\ UNCHANGED <<whose, incoming>>

RemoteAnswers(i) ==
    /\ Unasked /\ call[i] = "DIALING"
    /\ call' = [call EXCEPT ![i] = "ACTIVE"]
    /\ Tells(<<Ev("CONN", i)>>)
    /\ UNCHANGED <<whose, incoming>>

RemoteEnds(i) ==
    /\ Unasked /\ call[i] \notin {"none", "calling"}
    /\ call' = [call EXCEPT ![i] = "none"]
    /\ Tells(<<Ev("CEND", i)>>)
    /\ UNCHANGED <<whose, incoming>>

Arrives(i) ==
    /\ Unasked /\ incoming < MaxIncoming
    /\ call[i] = "none"
    /\ incoming' = incoming + 1
    /\ whose' = [whose EXCEPT ![i] = NULL]
    /\ IF Unused = Idx
         THEN call' = [call EXCEPT ![i] = "INCOMING"] /\ Tells(<<Ev("RING", i)>>)
         ELSE call' = [call EXCEPT ![i] = "WAITING"] /\ Tells(<<Ev("CCWA", i)>>)

(* It keeps ringing; a waiting call rings when there is no other.           *)
Rings(i) ==
    /\ Unasked /\ line = <<>> /\ tasks = <<>>
    /\ call[i] = "INCOMING" \/ (call[i] = "WAITING" /\ Foreground = {})
    /\ call' = [call EXCEPT ![i] = "INCOMING"]
    /\ Tells(<<Ev("RING", i)>>)
    /\ UNCHANGED <<whose, incoming>>

-----------------------------------------------------------------------------

Init ==
    /\ st = [c \in Cpvt |-> "unused"]
    /\ idx = [c \in Cpvt |-> 0]
    /\ dir = [c \in Cpvt |-> "out"]
    /\ hold = [c \in Cpvt |-> FALSE]
    /\ need = [c \in Cpvt |-> FALSE]
    /\ chan = [c \in Cpvt |-> FALSE]
    /\ phase = [c \in Cpvt |-> "none"]
    /\ tech = [c \in Cpvt |-> FALSE]
    /\ asked = [c \in Cpvt |-> FALSE]
    /\ bits = {} /\ last = NULL
    /\ count = [s \in CallState |-> 0]
    /\ selectbusy = FALSE /\ up = TRUE /\ drops = 0
    /\ tasks = <<>> /\ todo = <<>> /\ line = <<>>
    /\ call = [i \in Idx |-> "none"]
    /\ whose = [i \in Idx |-> NULL]
    /\ incoming = 0
    /\ stale = FALSE

Channels ==
    \E c \in Cpvt :
        \/ \E h \in BOOLEAN : Select(c, h)
        \/ Request(c) \/ Call(c) \/ CallRefused(c) \/ Answer(c) \/ Activate(c)
        \/ HangupLooks(c) \/ HangupActs(c)

MonitorReads ==
    \/ HandleOk \/ HandleError \/ HandleOrig \/ HandleConn \/ HandleCend
    \/ HandleRing \/ HandleCcwa \/ HandleClcc
    \/ \E c \in Cpvt : ClccKnown(c) \/ ClccArrives(c)
    \/ ClccSkipped

ModemWorks == Refuse \/ DoDial \/ DoList \/ DoSwap \/ DoAnswer \/ DoHangup

ModemSpeaks ==
    \E i \in Idx : Originates(i) \/ RemoteAnswers(i) \/ RemoteEnds(i)
                       \/ Arrives(i) \/ Rings(i)

Next == Channels \/ MonitorReads \/ Drop \/ Connect \/ ModemWorks \/ ModemSpeaks

Spec == Init /\ [][Next]_vars

(* The monitor reads what there is; a modem that is connected answers, and  *)
(* keeps ringing; a channel that is being hung up gets pvt->lock.           *)
FairSpec ==
    /\ Spec
    /\ WF_vars(MonitorReads) /\ WF_vars(ModemWorks) /\ WF_vars(Connect)
    /\ WF_vars(\E i \in Idx : Rings(i)) /\ WF_vars(\E i \in Idx : Originates(i))
    /\ \A c \in Cpvt : WF_vars(HangupActs(c))

-----------------------------------------------------------------------------
(* Properties *)

Phase == {"none", "selected", "down", "called", "ring", "hanging", "gone"}
Line == [idx : Idx, state : CallState, dir : {"in", "out"}]
Commands == {"D", "A", "CHLD_2", "CHLD_2x", "CHUP", "CLCC"}
Event0 == [ev : {"OK", "ERROR", "ORIG", "CONN", "CEND", "RING", "CCWA"}, idx : 0..MaxIdx]

(* The variables have their types.                                          *)
TypeOK ==
    /\ st \in [Cpvt -> CallState \cup {"unused", "freed"}]
    /\ idx \in [Cpvt -> 0..MaxIdx]
    /\ dir \in [Cpvt -> {"in", "out"}]
    /\ hold \in [Cpvt -> BOOLEAN] /\ need \in [Cpvt -> BOOLEAN]
    /\ chan \in [Cpvt -> BOOLEAN]
    /\ phase \in [Cpvt -> Phase]
    /\ tech \in [Cpvt -> BOOLEAN] /\ asked \in [Cpvt -> BOOLEAN]
    /\ bits \subseteq {"dialing", "ring", "cwaiting"}
    /\ last \in Cpvt \cup {NULL}
    /\ count \in [CallState -> Int]
    /\ selectbusy \in BOOLEAN /\ up \in BOOLEAN /\ stale \in BOOLEAN
    /\ drops \in 0..MaxDrops /\ incoming \in 0..MaxIncoming
    /\ tasks \in Seq([cpvt : Cpvt \cup {SysChan}, cmds : Seq([cmd : Commands, idx : 0..MaxIdx])])
    /\ todo \in Seq(Line)
    /\ call \in [Idx -> (CallState \ {"INIT"}) \cup {"none", "calling"}]
    /\ whose \in [Idx -> Cpvt \cup {SysChan, NULL}]
    /\ line \in Seq(Event0 \cup [ev : {"CLCC"}, calls : Seq(Line)])

(* PVT_STATE(pvt, chan_count), by which at_enque_dial() decides to put the  *)
(* active call on hold, counts the descriptors in every state.              *)
CountsMatch == \A s \in CallState : count[s] = Cardinality(In({s}))

(* Descriptors and channels point to each other or not at all: whatever the *)
(* order of hangup, ^CEND and disconnection, cpvt->channel is a channel     *)
(* Asterisk has not destroyed and tech_pvt a descriptor that is not freed.  *)
LinksMatch ==
    \A c \in Cpvt :
        /\ chan[c] => c \in Live /\ phase[c] \in {"down", "called", "ring", "hanging"}
        /\ tech[c] <=> chan[c]

(* pvt->last_dialed_cpvt, which ^ORIG dereferences, is never a descriptor   *)
(* that was freed, and the call it stands for is one we made.               *)
LastDialedLive == last # NULL => last \in Live /\ dir[last] = "out"

(* The owners of queued tasks are live: response handlers set their flags.  *)
OwnersLive == \A k \in 1..Len(tasks) : tasks[k].cpvt \in Live \cup {SysChan}

(* No pointer outlives what it points to, in whatever order a call is hung  *)
(* up, ended by the modem or lost with the connection.                      *)
NothingDangles == LinksMatch /\ LastDialedLive /\ OwnersLive

(* The descriptors a call is being set up for.                              *)
SettingUp == {c \in Cpvt : \/ phase[c] = "selected"
                           \/ (dir[c] = "out" /\ c \in In({"INIT", "DIALING"}))}

(* No two calls are being set up at once: the reservation made by one       *)
(* thread is not overtaken by another's.  As long as the connection holds   *)
(* and no call has come in (see OneSetupAmongCallers).                      *)
OneSetup == drops = 0 /\ incoming = 0 => \A c, d \in SettingUp : c = d

(* A call that is over never leaves its channel behind.                     *)
ReleaseTold ==
    [][\A c \in Cpvt : chan[c] /\ c \in Live /\ st'[c] = "freed" => asked'[c]]_vars

(* Once a descriptor is past INIT, its call_idx is the modem's number for   *)
(* the very call it was made for, until the modem says that this call is    *)
(* over: the next +CLCC or ^CEND does not hit another party.  As long as    *)
(* the connection holds, which calls may outlive, and no call has come in   *)
(* (see EndsRightCall).                                                     *)
NumberedRight ==
    \A c \in Live :
        (/\ up /\ drops = 0 /\ incoming = 0 /\ st[c] # "INIT" /\ call[idx[c]] # "none"
         /\ \A k \in 1..Len(line) : line[k] # Ev("CEND", idx[c]))
            => whose[idx[c]] = IF dir[c] = "in" THEN NULL ELSE c

(* A call that keeps ringing comes to have a descriptor, unless the memory  *)
(* for descriptors is exhausted.                                            *)
IncomingSeen ==
    \A i \in Idx :
        call[i] = "INCOMING" ~> (call[i] # "INCOMING" \/ WithIdx(i) # {} \/ NoneLeft)

Quiet == up /\ line = <<>> /\ tasks = <<>> /\ todo = <<>>

(* chan_dongle.h: ring is "true if has incoming call from first RING until  *)
(* CEND or CONN".                                                           *)
RingUntilEnd == Quiet /\ "ring" \in bits => \E i \in Idx : call[i] = "INCOMING"

(* A channel that was hung up leaves no call of its own on the network.     *)
NoGhostCall ==
    \A c \in Cpvt, i \in Idx : Quiet /\ phase[c] = "gone" => ~(whose[i] = c /\ call[i] = "ACTIVE")

(* channel_hangup() does not use a descriptor that was freed.               *)
NoStaleHangup == ~stale

(* at_response_clcc(): "dead cpvt only here".  A descriptor whose channel   *)
(* is gone and that stands for no call of the modem is released.            *)
DeadReleased ==
    \A c \in Cpvt :
        (c \in Live /\ phase[c] = "gone" /\ up)
            ~> (c \notin Live \/ \E i \in Idx : idx[c] = i /\ call[i] # "none")

(* AT+CHUP for a call ends this call.                                       *)
HangupEndsOwn ==
    [][\A i \in Idx :
         (/\ tasks # <<>> /\ HeadCmd.cmd = "CHUP" /\ HeadTask.cpvt \in Cpvt
          /\ ~Answered /\ Answered' /\ call[i] # "none" /\ call'[i] = "none")
             => idx[HeadTask.cpvt] = i]_vars

(* The same as OneSetup when calls come in.  A descriptor whose call was not *)
(* dialled yet goes with the ^CEND of a caller that has its number; the call *)
(* is dialled all the same, and +CLCC takes it for that of the descriptor    *)
(* which gets the number next, so that this one is active before it dials.   *)
OneSetupAmongCallers == drops = 0 => \A c, d \in SettingUp : c = d

(* ^CEND releases the descriptor of the call that has ended.                *)
EndsRightCall ==
    [][\A c \in Cpvt : 
         (/\ c \in Live /\ st'[c] = "freed" /\ up')
             => whose[idx[c]] = IF dir[c] = "in" THEN NULL ELSE c]_vars

=============================================================================
