------------------------------- MODULE Session -------------------------------
(***************************************************************************)
(* A connection to the modem, calls aside: the commands that find out what *)
(* the modem and its SIM card are and set them up (at_command.c), the      *)
(* answers to them (at_response.c), and the short messages and USSD codes  *)
(* that other threads send meanwhile (helpers.c) or that arrive.           *)
(*                                                                         *)
(* The AT queue is taken as AtQueue and its proofs leave it: the first     *)
(* command of the first task is with the modem.  Texts, numbers and the    *)
(* other data of an answer are left out where nothing depends on them.     *)
(***************************************************************************)
EXTENDS Integers, Sequences, FiniteSets

CONSTANTS
    Sender,         \* threads of the CLI, the manager and the dial plan
    Requests,       \* what they may ask for: a subset of Kinds
    SimModes,       \* what the modem may answer to AT+CFUN?
    SimStates,      \* what it may say of its SIM card in ^SYSINFO
    Refused,        \* commands it may refuse
    EmptySlot,      \* whether the message +CMTI tells of may be gone when it is read
    Multiband,      \* whether its model is called MULTIBAND...
    SmsAsPdu,       \* smsaspdu of dongle.conf
    AutoDelete,     \* autodeletesms of dongle.conf
    MayFail,        \* whether insertions into the queue may fail
    Noise,          \* whether it says things the driver does not know
    CutOff,         \* whether a connection may be given up while the modem stays on
    MaxRequests,    \* bound: requests of the senders
    MaxNews,        \* bound: lines the modem says unasked
    MaxDrops        \* bound: times the connection is lost or given up

Kinds == {"sms", "ussd", "user", "ccwa", "reset"}

ASSUME SenderAssumption == IsFiniteSet(Sender) /\ Requests \subseteq Kinds
ASSUME ModemAssumption ==
    /\ SimModes \subseteq 0..9 /\ SimStates \subseteq 0..255 /\ IsFiniteSet(Refused)
    /\ {EmptySlot, Multiband, SmsAsPdu, AutoDelete, MayFail, Noise, CutOff} \subseteq BOOLEAN
    /\ {MaxRequests, MaxNews, MaxDrops} \subseteq Nat

VARIABLES
    mon,        \* the monitor thread: "none", "new", "loop" or "sleep"
    up,         \* pvt->connected
    tasks,      \* pvt->at_queue, without the commands that are done
    ready,      \* pvt->initialized
    sms,        \* pvt->outgoing_sms
    ussd,       \* pvt->outgoing_ussd
    insms,      \* pvt->incoming_sms
    set,        \* what answers have set: [pdu, ucs2, hassms, reg, nosim, pin, imsi],
                \* imsi 0 if not known, 1 if the card's, 2 if it is something else
    cfun,       \* pvt->cfun, -1 if not known
    simst,      \* pvt->simst, -1 if not known
    simReady,   \* pvt->sim_ready
    simStart,   \* pvt->sim_start
    sync,       \* pvt->volume_sync_step
    pc,         \* where each sender is: "idle", "found" or "marked"
    job,        \* what it sends
    wait,       \* the command the modem has not answered yet, "none", or "unsent"
    prompt,     \* the modem: it takes what comes for the text of a message
    pduMode,    \* the modem: it expects AT+CMGS in the form of a PDU
    out,        \* what it has said and the monitor has not read
    requests, news, drops,
    strayed     \* history: a sender went on after the connection it found was lost

sim    == <<cfun, simst, simReady, simStart>>
flags  == <<sms, ussd, insms>>
modem  == <<wait, prompt, pduMode>>
bounds == <<requests, news, drops>>
vars   == <<mon, up, tasks, ready, flags, set, sim, sync, pc, job, modem, out, bounds, strayed>>

------------------------------------------------------------------------------
(* The commands.                                                           *)

Startup == <<"AT", "E", "CGMI", "CGMM", "CGMR", "CMEE", "CGSN", "CFUN_V">>

SimInitE == <<"SN", "ICCID", "SPN", "CIMI", "FREQLOCK", "COPS_INIT", "CREG_INIT", "CREG",
              "CNUM", "CSSN", "CMGF", "CSCS", "CNMI", "CSQ", "CSNR">>

SimInitMB == <<"CIMI", "CREG_INIT", "CREG", "CSSN", "CMGF", "CNMI", "CSQ", "CSNR">>

SimInit == IF Multiband THEN SimInitMB ELSE SimInitE

(* What at_enque_cmd_proc() and at_enque_user_cmd() queue is a CMD_USER.   *)
UserCmds == {"cops", "sn", "iccid", "cfun?", "cpin?", "cfun1", "cfun5", "cfun6", "user"}

Pdu  == <<"CMGS_PDU", "SMSTEXT">>
Text == <<"CMGS_TEXT", "SMSTEXT">>

Retrieve == IF AutoDelete THEN <<"CMGR", "CMGD">> ELSE <<"CMGR">>

Volsync == <<"CLVL", "CLVL">>

Ignored == {"CREG_INIT", "CSCS", "CCWA_SET", "CCWA_STATUS"}

Expected(c) == CASE c \in {"CMGS_PDU", "CMGS_TEXT"} -> "PROMPT"
                 [] c = "CMGR" -> "CMGR"
                 [] OTHER -> "OK"

(* A bug: without the number of the subscriber the connection is kept, but *)
(* not gone on with.                                                       *)
CriticalLess == {"AT", "E", "CGMI", "CGMM", "CGMR", "CMEE", "SN", "ICCID", "CREG_INIT", "CSSN",
                 "CNMI"}

(* Errors of these end the connection.                                     *)
Critical == {"AT", "E", "CGMI", "CGMM", "CGMR", "CMEE", "SN", "ICCID", "CREG_INIT", "CNUM",
             "CSSN", "CNMI"}

------------------------------------------------------------------------------
(* The queue.                                                              *)

Queued(cs) == \E t \in 1..Len(tasks) : \E i \in 1..Len(tasks[t]) : tasks[t][i] \in cs

Left(c) == Cardinality({p \in (1..Len(tasks)) \X (1..15) :
                            p[2] \in 1..Len(tasks[p[1]]) /\ tasks[p[1]][p[2]] = c})

Fallible(q, r) == IF MayFail THEN {q, r} ELSE {r}

(* at_queue_add() at the end, and behind the first task.                   *)
Append1(q, t) == Fallible(q, Append(q, t))
Urgent(q, t)  == Fallible(q, IF q = <<>> THEN <<t>> ELSE <<q[1], t>> \o Tail(q))

Append2(q, t, u) == UNION {Append1(r, u) : r \in Append1(q, t)}

(* at_queue_remove_cmd() with the result res.                              *)
Removed(q, res) ==
    IF Len(q[1]) = 1 \/ (Expected(q[1][1]) # res /\ q[1][1] \notin Ignored)
    THEN Tail(q) ELSE <<Tail(q[1])>> \o Tail(q)

First(q) == IF q = <<>> THEN "none" ELSE q[1][1]

(* The queue becomes q, and at_queue_run() writes a command that has come  *)
(* to its front.                                                           *)
Insert(q) ==
    /\ tasks' = q
    /\ wait' = (IF tasks = <<>> \/ wait = "unsent" THEN First(q) ELSE wait)

Advance(q) == tasks' = q /\ wait' = First(q)

------------------------------------------------------------------------------
Reset == [pdu |-> FALSE, ucs2 |-> FALSE, hassms |-> FALSE, reg |-> FALSE, nosim |-> FALSE,
          pin |-> 0, imsi |-> 0]

Init ==
    /\ mon = "none" /\ up = FALSE /\ tasks = <<>> /\ ready = FALSE
    /\ sms = FALSE /\ ussd = FALSE /\ insms = FALSE /\ set = Reset
    /\ cfun = -1 /\ simst = -1 /\ simReady = FALSE /\ simStart = FALSE /\ sync = 0
    /\ pc = [s \in Sender |-> "idle"] /\ job = [s \in Sender |-> <<>>]
    /\ wait = "none" /\ prompt = FALSE /\ pduMode = FALSE /\ out = <<>>
    /\ requests = 0 /\ news = 0 /\ drops = 0 /\ strayed = FALSE

(* disconnect_dongle(): what was queued is thrown away, what was known of  *)
(* the modem is forgotten.                                                 *)
Disconnect ==
    /\ mon' = "none" /\ up' = FALSE /\ tasks' = <<>> /\ ready' = FALSE
    /\ sms' = FALSE /\ ussd' = FALSE /\ insms' = FALSE /\ set' = Reset
    /\ cfun' = -1 /\ simst' = -1 /\ simReady' = FALSE /\ simStart' = FALSE /\ sync' = 0
    /\ wait' = "none" /\ out' = <<>>
    /\ strayed' = (strayed \/ \E s \in Sender : pc[s] # "idle")
    /\ UNCHANGED <<pc, job, requests, news>>

(* The discovery thread opens the port and starts the monitor thread.      *)
Connect ==
    /\ mon = "none"
    /\ mon' = "new" /\ up' = TRUE
    /\ UNCHANGED <<tasks, ready, flags, set, sim, sync, pc, job, modem, out, bounds, strayed>>

(* do_monitor_phone() up to its loop: what the modem had to say is dropped *)
(* and the first commands are queued.                                      *)
StartMonitor ==
    /\ mon = "new"
    /\ \/ /\ mon' = "loop" /\ out' = <<>>
          /\ cfun' = -1 /\ simst' = -1 /\ simReady' = FALSE /\ simStart' = FALSE
          /\ set' = [set EXCEPT !.pin = 0]
          /\ Insert(Append(tasks, Startup))
          /\ UNCHANGED <<up, ready, flags, sync, pc, job, prompt, pduMode, bounds, strayed>>
       \/ MayFail /\ Disconnect /\ UNCHANGED <<prompt, pduMode, drops>>

(* The port is gone: the modem was unplugged and starts anew.              *)
Lost ==
    /\ mon = "loop" /\ drops < MaxDrops
    /\ drops' = drops + 1 /\ prompt' = FALSE /\ pduMode' = FALSE
    /\ Disconnect

(* A stop is asked for, or an answer takes too long, which it does when    *)
(* none will come any more.                                                *)
Mute == wait = "none" \/ (prompt /\ wait # "SMSTEXT")

GiveUp ==
    /\ mon = "loop"
    /\ \/ CutOff /\ drops < MaxDrops /\ drops' = drops + 1
       \/ tasks # <<>> /\ out = <<>> /\ Mute /\ UNCHANGED drops
    /\ Disconnect /\ UNCHANGED <<prompt, pduMode>>

(* Two minutes after an answer that cannot be put up with.                 *)
Awake ==
    /\ mon = "sleep" /\ Disconnect /\ UNCHANGED <<prompt, pduMode, drops>>

(* Nothing was said for a while and nothing is waited for.                 *)
Ping ==
    /\ mon = "loop" /\ out = <<>> /\ tasks = <<>>
    /\ \E q \in Urgent(tasks, <<"AT">>) : Insert(q)
    /\ UNCHANGED <<mon, up, ready, flags, set, sim, sync, pc, job, prompt, pduMode, out, bounds,
                   strayed>>

------------------------------------------------------------------------------
(* The modem.  A line is [res, val]: the prefix it is known by (at_res_t)  *)
(* and a number in it.                                                     *)

Line(r, v) == [res |-> r, val |-> v]
Ok         == Line("OK", 0)

Answers(c) ==
    (IF c \in Refused THEN {<<Line("ERROR", 0)>>} ELSE {}) \cup
    (CASE c \in {"CFUN_V", "cfun?", "cfun6"} -> {<<Line("CFUN", n), Ok>> : n \in SimModes}
       [] c = "cfun1" -> {<<Line("CFUN", 1), Ok>>}
       [] c = "cfun5" -> {<<Line("CFUN", 5), Ok>>}
       [] c = "CSNR"  -> {<<Line("SYSINFO", n), Ok>> : n \in SimStates}
       [] c = "cpin?" -> {<<Line("CPIN", n), Ok>> : n \in {0, 1, 2}}
       [] c = "CREG"  -> {<<Line("CREG", 1), Ok>>}
       [] c \in {"ICCID", "iccid"} -> {<<Line("ICCID", 0), Ok>>}
       [] c \in {"CMGS_PDU", "CMGS_TEXT"} -> {<<Line("PROMPT", 0)>>}
       [] c = "CMGR"  -> {<<Line("CMGR", 0)>>} \cup (IF EmptySlot THEN {<<Ok>>} ELSE {})
       [] c = "CIMI"  -> {<<Line("DATA", 1), Ok>>}
       [] c = "CSQ"   -> {<<Line("CSQ", 0), Ok>>}
       [] c = "user"  -> {<<Ok>>, <<Line("CMGR", 0)>>}
       [] OTHER -> {<<Ok>>})

(* Whatever is written after the prompt is the text of the message, and    *)
(* only the text is followed by the character that ends it.                *)
Reply ==
    /\ up /\ wait \notin {"none", "unsent"} /\ (prompt => wait = "SMSTEXT")
    /\ \E a \in Answers(wait) :
          /\ out' = out \o a
          /\ prompt' = (a[1].res = "PROMPT")
          /\ pduMode' = (pduMode \/ (wait = "CMGF" /\ a = <<Ok>>))
    /\ wait' = "none"
    /\ UNCHANGED <<mon, up, tasks, ready, flags, set, sim, sync, pc, job, bounds, strayed>>

(* A message arrives, the cell changes, a call that was dialled begins.    *)
(* The modem is told to say so when its card is set up (AT+CREG=2,         *)
(* AT+CNMI=1,1,0,1,0).  Behind others unread it could as well come later.  *)
News ==
    /\ ready /\ news < MaxNews /\ out = <<>>
    /\ \E l \in {Line("CMTI", 0), Line("CREG", IF set.reg THEN 0 ELSE 1),
               Line("ORIG", 1)} :
          /\ out' = Append(out, l)
    /\ news' = news + 1
    /\ UNCHANGED <<mon, up, tasks, ready, flags, set, sim, sync, pc, job, modem, requests, drops,
                   strayed>>

(* A line without a prefix of its own, as the answer to AT+CIMI has none,  *)
(* or, to the first command, the prompt of an earlier connection.  Without *)
(* a command that waits for its answer nothing comes of it.                *)
Hum ==
    /\ Noise /\ mon = "loop" /\ news < MaxNews /\ out = <<>>
    /\ \/ First(tasks) = "AT" /\ ~simStart /\ out' = <<Line("PROMPT", 0)>>
       \/ wait \notin {"none", "AT"} /\ out' = <<Line("DATA", 2)>>
    /\ news' = news + 1
    /\ UNCHANGED <<mon, up, tasks, ready, flags, set, sim, sync, pc, job, modem, requests, drops,
                   strayed>>
------------------------------------------------------------------------------
(* at_response(): the monitor handles a line.                              *)

Said(r) == mon = "loop" /\ out # <<>> /\ Head(out).res = r /\ out' = Tail(out)

Same == UNCHANGED <<up, pc, job, prompt, pduMode, bounds, strayed>>

(* A handler returns -1: the next command is not written, and after a      *)
(* while the connection is given up.                                       *)
Fail(q) == mon' = "sleep" /\ tasks' = q /\ wait' = (IF q = <<>> THEN "none" ELSE "unsent")

Expects(rs) == tasks # <<>> /\ Expected(tasks[1][1]) \in rs

(* A result nobody waits for, or another one is waited for.                *)
Unexpected ==
    /\ \/ Said("OK") /\ ~Expects({"OK", "CMGR"})
       \/ Said("ERROR") /\ tasks = <<>>
       \/ Said("PROMPT") /\ ~Expects({"PROMPT"})
       \/ Said("CMGR") /\ ~(Expects({"CMGR"}) \/ First(tasks) \in UserCmds)
    /\ UNCHANGED <<mon, tasks, wait, ready, flags, set, sim, sync>> /\ Same

(* A bug: the step goes past the last one.                                 *)
StepOnly(n) == n + 1

(* VOLUME_SYNC_DONE is 3.                                                  *)
Stepped(n) == IF n + 1 = 3 THEN 0 ELSE n + 1

(* at_response_ok()                                                        *)
ReadOk ==
    /\ Said("OK") /\ Expects({"OK", "CMGR"})
    /\ LET c == tasks[1][1] IN
          /\ ready' = (ready \/ c = "CNMI")
          /\ sms'   = (sms /\ c # "SMSTEXT")
          /\ ussd'  = (ussd /\ c # "CUSD")
          /\ set'   = [set EXCEPT !.hassms = @ \/ c = "CNMI",
                                  !.pdu = IF c = "CMGF" THEN SmsAsPdu ELSE @,
                                  !.ucs2 = @ \/ c = "CSCS"]
          /\ sync'  = IF c = "CLVL" THEN Stepped(sync) ELSE sync
    /\ Advance(Removed(tasks, "OK"))
    /\ UNCHANGED <<mon, insms, sim>> /\ Same

(* Bugs: an error of one of the two commands is forgotten.                 *)
UnsentText   == {"SMSTEXT"}
UnsentPrompt == {"CMGS_PDU", "CMGS_TEXT"}

(* Errors of these say that a message was not sent.                        *)
Unsent == {"CMGS_PDU", "CMGS_TEXT", "SMSTEXT"}

(* at_response_error(): has_voice is never set, so an error of +CNMI does  *)
(* not get as far as to go on without short messages.                      *)
ReadError ==
    /\ Said("ERROR") /\ tasks # <<>>
    /\ LET c == tasks[1][1]
           q == Removed(tasks, "ERROR")
       IN /\ IF c \in Critical
             THEN Fail(q)
             ELSE /\ mon' = mon
                  /\ IF c = "CGSN"
                     THEN \E r \in Append1(tasks, <<"cfun1">>) : Advance(Removed(r, "ERROR"))
                     ELSE Advance(q)
          /\ sms'   = (sms /\ c \notin Unsent)
          /\ ussd'  = (ussd /\ c # "CUSD")
          /\ insms' = (insms /\ c \notin {"CMGR", "CMGD"})
          /\ set'   = [set EXCEPT !.hassms = @ /\ c # "CNMI", !.ucs2 = @ /\ c # "CSCS",
                                  !.nosim = @ \/ c = "ICCID"]
          /\ sync'  = IF c = "CLVL" THEN 0 ELSE sync
    /\ UNCHANGED <<ready, sim>> /\ Same

(* at_response_sms_prompt()                                                *)
ReadPrompt ==
    /\ Said("PROMPT") /\ Expects({"PROMPT"})
    /\ Advance(Removed(tasks, "PROMPT"))
    /\ UNCHANGED <<mon, ready, flags, set, sim, sync>> /\ Same

(* at_response_cmgr(): the message is in the line, and so is the OK.       *)
ReadCmgr ==
    /\ Said("CMGR") /\ (Expects({"CMGR"}) \/ First(tasks) \in UserCmds)
    /\ insms' = FALSE
    /\ Advance(Removed(tasks, "CMGR"))
    /\ UNCHANGED <<mon, ready, sms, ussd, set, sim, sync>> /\ Same

(* at_response_cmti()                                                      *)
ReadCmti ==
    /\ Said("CMTI")
    /\ \/ /\ Insert(Append(tasks, Retrieve))
          /\ insms' = TRUE /\ UNCHANGED mon
       \/ MayFail /\ mon' = "sleep" /\ UNCHANGED <<tasks, wait, insms>>
    /\ UNCHANGED <<ready, sms, ussd, set, sim, sync>> /\ Same

(* at_response_creg(), which asks for the name of the operator.            *)
ReadCreg ==
    /\ Said("CREG")
    /\ \E q \in Append1(tasks, <<"cops">>) : Insert(q)
    /\ set' = [set EXCEPT !.reg = (Head(out).val = 1)]
    /\ UNCHANGED <<mon, ready, flags, sim, sync>> /\ Same

(* at_response_sysinfo()                                                   *)
ReadSysinfo ==
    /\ Said("SYSINFO")
    /\ simst' = Head(out).val
    /\ \E q \in Append1(tasks, <<"cfun?">>) : Insert(q)
    /\ UNCHANGED <<mon, ready, flags, set, cfun, simReady, simStart, sync>> /\ Same

(* at_response_cfun_v(): the card is set up when the modem is found to be  *)
(* on line, once for a connection.                                         *)
Usable       == simst \in {1, 3, 4}
(* A bug: the card is set up each time the modem is found on line.         *)
SetsUpAlways(n) == n = 1

SetsUpSim(n) == n = 1 /\ ~simStart

ReadCfun ==
    /\ Said("CFUN")
    /\ LET n    == Head(out).val
           ask  == IF n = 1 /\ simst = 255 THEN Append1(tasks, <<"cfun5">>)
                   ELSE IF n = 1 /\ Usable /\ ~simReady THEN Append1(tasks, <<"cpin?">>)
                   ELSE IF n = 4 THEN Append1(tasks, <<"cfun6">>)
                   ELSE {tasks}
       IN /\ cfun' = n
          /\ simReady' = (simReady \/ (n \in {1, 5} /\ Usable))
          /\ simStart' = (simStart \/ n = 1)
          /\ set' = [set EXCEPT !.nosim = @ \/ (n = 1 /\ simst = 255)]
          /\ \E q \in ask : \E r \in IF SetsUpSim(n) THEN Append1(q, SimInit) ELSE {q} :
                Insert(r)
    /\ UNCHANGED <<mon, ready, flags, simst, sync>> /\ Same

(* at_response_cpin()                                                      *)
ReadCpin ==
    /\ Said("CPIN")
    /\ LET n == Head(out).val IN
          /\ set' = [set EXCEPT !.pin = n]
          /\ simStart' = (simStart \/ (n = 0 /\ cfun = 1))
          /\ \E q \in IF n = 0 /\ cfun = 1 /\ ~simStart THEN Append1(tasks, SimInit)
                      ELSE IF n = 0 /\ cfun = 5 THEN Append2(tasks, <<"sn">>, <<"iccid">>)
                      ELSE IF n # 0 THEN Append1(tasks, <<"iccid">>) ELSE {tasks} : Insert(q)
    /\ UNCHANGED <<mon, ready, flags, cfun, simst, simReady, sync>> /\ Same

(* at_response_iccid()                                                     *)
ReadIccid ==
    /\ Said("ICCID")
    /\ set' = [set EXCEPT !.nosim = FALSE]
    /\ UNCHANGED <<mon, tasks, wait, ready, flags, sim, sync>> /\ Same

(* at_response_orig(), as far as the volume goes: the first call makes the *)
(* modem's volume right.                                                   *)
ReadOrig ==
    /\ Said("ORIG")
    /\ IF sync # 0 THEN UNCHANGED <<tasks, wait, sync>>
       ELSE \E q \in Urgent(tasks, Volsync) : Insert(q) /\ sync' = (IF q = tasks THEN 0 ELSE 1)
    /\ UNCHANGED <<mon, ready, flags, set, sim>> /\ Same

(* What at_response() does not know it takes for what the command it waits *)
(* for was to find out: to AT+CIMI, at_response_cimi().                    *)
ReadData ==
    /\ Said("DATA")
    /\ set' = IF First(tasks) = "CIMI" THEN [set EXCEPT !.imsi = Head(out).val] ELSE set
    /\ UNCHANGED <<mon, tasks, wait, ready, flags, sim, sync>> /\ Same

(* at_response_csq() and the like keep what they are told and do no more.  *)
ReadCsq ==
    /\ Said("CSQ")
    /\ UNCHANGED <<mon, tasks, wait, ready, flags, set, sim, sync>> /\ Same

Read ==
    \/ ReadData \/ ReadCsq \/ Unexpected \/ ReadOk \/ ReadError \/ ReadPrompt \/ ReadCmgr \/ ReadCmti
    \/ ReadCreg \/ ReadSysinfo \/ ReadCfun \/ ReadCpin \/ ReadIccid \/ ReadOrig
------------------------------------------------------------------------------
(* send2(): another thread finds the device, and goes on without its lock. *)

(* A bug: messages are taken before the device is ready.                   *)
OnlineNever == {}

Online == {"sms", "ussd", "ccwa"}

Find(s) ==
    /\ pc[s] = "idle" /\ requests < MaxRequests /\ up
    /\ \E k \in Requests :
          /\ k \in Online => ready /\ set.reg
          /\ job' = [job EXCEPT ![s] = <<k>>]
    /\ pc' = [pc EXCEPT ![s] = "found"] /\ requests' = requests + 1
    /\ UNCHANGED <<mon, up, tasks, ready, flags, set, sim, sync, modem, out, news, drops, strayed>>

(* The commands are made up, and the flag is set before they are queued.   *)
Commands(k) ==
    CASE k = "sms"   -> IF set.pdu THEN Pdu ELSE Text
      [] k = "ussd"  -> <<"CUSD">>
      [] k = "user"  -> <<"user">>
      [] k = "ccwa"  -> <<"CCWA_SET", "CCWA_STATUS">>
      [] k = "reset" -> <<"CFUN">>

Mark(s) ==
    /\ pc[s] = "found"
    /\ LET k == job[s][1] IN
          /\ sms'  = (sms \/ k = "sms")
          /\ ussd' = (ussd \/ k = "ussd")
          /\ job'  = [job EXCEPT ![s] = Commands(k)]
    /\ pc' = [pc EXCEPT ![s] = "marked"]
    /\ UNCHANGED <<mon, up, tasks, ready, insms, set, sim, sync, modem, out, bounds, strayed>>

(* at_queue_insert_task(): without a port the command that is written next *)
(* is thrown away again.                                                   *)
Put(s) ==
    /\ pc[s] = "marked"
    /\ IF ~up THEN UNCHANGED <<tasks, wait>>
       ELSE \E q \in IF job[s] = <<"user">> THEN Urgent(tasks, job[s])
                     ELSE Append1(tasks, job[s]) : Insert(q)
    /\ pc' = [pc EXCEPT ![s] = "idle"] /\ job' = [job EXCEPT ![s] = <<>>]
    /\ UNCHANGED <<mon, up, ready, flags, set, sim, sync, prompt, pduMode, out, bounds, strayed>>
------------------------------------------------------------------------------
Next ==
    \/ Connect \/ StartMonitor \/ Lost \/ GiveUp \/ Awake \/ Ping
    \/ Reply \/ News \/ Hum \/ Read
    \/ \E s \in Sender : Find(s) \/ Mark(s) \/ Put(s)

(* The threads run, and the modem answers what it takes for a command.     *)
Fairness ==
    /\ WF_vars(Connect) /\ WF_vars(StartMonitor) /\ WF_vars(GiveUp /\ UNCHANGED drops)
    /\ WF_vars(Awake) /\ WF_vars(Reply) /\ WF_vars(Read)
    /\ \A s \in Sender : WF_vars(Mark(s)) /\ WF_vars(Put(s))

Spec == Init /\ [][Next]_vars /\ Fairness
------------------------------------------------------------------------------
Commanded == {Startup[i] : i \in 1..Len(Startup)} \cup {SimInitE[i] : i \in 1..Len(SimInitE)}
             \cup UserCmds \cup {"CMGS_PDU", "CMGS_TEXT", "SMSTEXT", "CUSD", "CMGR", "CMGD",
                                 "CLVL", "CCWA_SET", "CCWA_STATUS", "CFUN"}

TypeOK ==
    /\ mon \in {"none", "new", "loop", "sleep"} /\ up = (mon # "none")
    /\ tasks \in Seq(Seq(Commanded)) /\ \A t \in 1..Len(tasks) : tasks[t] # <<>>
    /\ {ready, sms, ussd, insms, simReady, simStart, prompt, pduMode, strayed} \subseteq BOOLEAN
    /\ set \in [pdu : BOOLEAN, ucs2 : BOOLEAN, hassms : BOOLEAN, reg : BOOLEAN,
                nosim : BOOLEAN, pin : 0..2, imsi : 0..2]
    /\ cfun \in -1..9 /\ simst \in -1..255 /\ sync \in 0..2
    /\ pc \in [Sender -> {"idle", "found", "marked"}]
    /\ wait \in Commanded \cup {"none", "unsent"}
    /\ wait \notin {"none", "unsent"} => tasks # <<>> /\ tasks[1][1] = wait
    /\ requests \in 0..MaxRequests /\ news \in 0..MaxNews /\ drops \in 0..MaxDrops

(* The set-up of the SIM card is under way from the time it is marked as   *)
(* begun until the device is ready, and it is never queued twice: the      *)
(* answers to AT+CFUN? and AT+CPIN? can both begin it, and each comes more *)
(* than once (sim_start, at_response_cfun_v() and at_response_cpin()).     *)
SetUpOnce ==
    mon = "loop" =>
        Left("CNMI") = (IF simStart /\ ~ready THEN 1 ELSE 0)

(* A flag that keeps calls and restarts away stands for something that     *)
(* will clear it: a message or code on its way to the queue or in it       *)
(* (outgoing_sms, outgoing_ussd, incoming_sms).  Not so once a sender has  *)
(* gone on with a connection that was lost.                                *)
Sending(cs) == \E s \in Sender : pc[s] = "marked" /\ job[s][1] \in cs

FlagsBacked ==
    ~strayed =>
        /\ sms => Queued({"SMSTEXT"}) \/ Sending({"CMGS_PDU", "CMGS_TEXT"})
        /\ ussd => Queued({"CUSD"}) \/ Sending({"CUSD"})
        /\ insms => Queued({"CMGR"})

(* What is written while the modem waits for the text of a message is that *)
(* text, whatever urgent commands come in between (at_queue_add() puts     *)
(* them behind the first task, and a task is a message).                   *)
TextAwaited    == prompt /\ wait # "none" => wait = "SMSTEXT"
PromptOnlyText == ~strayed => TextAwaited

(* A message goes out in the form the modem was told to expect: the form   *)
(* is chosen when the message is queued (use_pdu, at_enque_sms()), the     *)
(* modem was told when its card was set up (AT+CMGF=0).                    *)
FormatAgrees ==
    ~strayed => /\ wait = "CMGS_PDU" => pduMode
                /\ wait = "CMGS_TEXT" => ~pduMode

(* volume_sync_step says how much of the volume is still to be set: the    *)
(* next call sets it again only after both commands are done.              *)
SyncMatches == sync = (IF Left("CLVL") = 0 THEN 0 ELSE 3 - Left("CLVL"))

(* What the driver believes to be under way is in the queue, through errors *)
(* and losses of the connection.                                            *)
Backed == FlagsBacked /\ SyncMatches

(* A message reaches the modem in one piece and in the form it expects.    *)
MessagesWhole == PromptOnlyText /\ FormatAgrees

(* A command whose result is to be ignored does not end the connection     *)
(* (ATQ_CMD_FLAG_IGNORE).                                                  *)
IgnoredGoesOn ==
    [][Said("ERROR") /\ First(tasks) \in Ignored => mon' # "sleep"]_vars

(* The number of the card under which its calls are counted and its files  *)
(* are kept is what the card said (pvt->imsi).                             *)
ImsiRight == set.imsi # 2

(* A modem that is on line and refuses nothing but what is critical or may *)
(* be ignored gets ready, or the connection to it is given up.             *)
ComesUp == (mon = "new") ~> (ready \/ mon \in {"none", "sleep"})

(* A device that is to be restarted when it is convenient gets there: the  *)
(* flags do not stay up for ever (pvt_time4restate()).                     *)
Convenient == ~sms /\ ~ussd /\ ~insms
GetsConvenient == []<>(Convenient \/ strayed)
=============================================================================
