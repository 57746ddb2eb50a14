------------------------------- MODULE Billing -------------------------------
(* Limits, statistics and billing of a SIM over the life of its calls        *)
(* (stat.c, limits.c, and their callers in at_response.c, channel.c and      *)
(* select.c).  The numbers live in memory and in files; a handler reads the  *)
(* files, changes the numbers and writes them back.  Three threads do this   *)
(* to one SIM: the monitor under the lock of the device, and, without it,    *)
(* the thread of a channel that reads sound and the threads of CLI and       *)
(* dialplan.  A read or a write of a group of files is one step.             *)
EXTENDS Integers, SequencesExt

CONSTANTS Limits,      \* numbers of limits; 0 is the one a device falls back to
          Opening,     \* seconds every limit starts with
          Every,       \* a running call is charged when more seconds have passed
          MaxClock, MaxCalls

ASSUME BillingAssumption ==
    /\ Limits \subseteq Nat /\ 0 \in Limits
    /\ Opening \in Nat /\ Every \in Nat /\ MaxClock \in Nat /\ MaxCalls \in Nat

Slots == {"main", "second"}
Items == {"out_calls", "answered", "duration", "iatt", "satt", "in_answered", "in_duration"}
Payers == {"direction", "system"}

VARIABLES
    clock,
    limit, limitFile,            \* seconds left: in the device, on disk
    limitnum, hard, billing,     \* chosen for the call: limit, type - or _, who pays
    sf, connected, saved,        \* call is charged; when answered; charged until
    stat, statFile,              \* statistics: in the device, on disk
    billed,                      \* seconds billed today, on disk, for all SIMs
    state, dir, answered,        \* calls of the device
    cut,                         \* calls hung up because a limit is spent
    pc, job, seconds,            \* monitor in the middle of an end of call
    reader,                      \* thread of a channel in the middle of a charge
    since, num, log, others, apart  \* history, see Properties

device == <<limitnum, hard, billing, sf, connected, saved>>
calls  == <<state, dir, answered, since, num>>
vars   == <<clock, limit, limitFile, device, stat, statFile, billed, calls, cut, pc, job,
            seconds, reader, log, others, apart>>

Live(s) == state[s] # "none"
NoCalls == \A s \in Slots : ~Live(s)

Apart(alone) == apart' = (apart /\ alone)

ReadLimits  == limit' = limitFile
WriteLimits == limitFile' = limit'
ReadInfo    == stat' = statFile
WriteInfo   == statFile' = stat'
-----------------------------------------------------------------------------
(* Start of a call.                                                          *)

\* v_stat_call_start().
CallStart == sf' = 0 /\ connected' = 0 /\ saved' = 0

NewCall(s, d) ==
    /\ state' = [state EXCEPT ![s] = "setup"] /\ dir' = [dir EXCEPT ![s] = d]
    /\ answered' = [answered EXCEPT ![s] = FALSE] /\ since' = [since EXCEPT ![s] = 0]

\* pvt_select_stat() takes over what the request asks for, channel_call()
\* starts the call.  A second call may be dialled while another is on hold.
Dial(s, n, h, b) ==
    /\ pc = "idle" /\ ~Live(s) /\ (s = "second" => state["main"] = "active")
    /\ Len(log) < MaxCalls
    /\ limitnum' = n /\ hard' = h /\ billing' = b
    /\ CallStart /\ NewCall(s, "out") /\ num' = [num EXCEPT ![s] = n]
    /\ Apart(NoCalls /\ reader = "idle")
    /\ UNCHANGED <<clock, limit, limitFile, stat, statFile, billed, cut, pc, job, seconds, reader,
                   log, others>>

\* +CLCC names a call the device does not know: incoming, or waiting, which
\* does not start the statistics.
Ring(s) ==
    /\ pc = "idle" /\ ~Live(s) /\ (s = "second" => Live("main"))
    /\ Len(log) < MaxCalls
    /\ IF s = "main" THEN CallStart ELSE UNCHANGED <<sf, connected, saved>>
    /\ NewCall(s, "in") /\ num' = [num EXCEPT ![s] = limitnum]
    /\ Apart(NoCalls /\ reader = "idle")
    /\ UNCHANGED <<clock, limit, limitFile, limitnum, hard, billing, stat, statFile, billed, cut,
                   pc, job, seconds, reader, log, others>>

\* ^CONN, or a +CLCC that comes before it, makes the call active; only ^CONN
\* sets the flag answered.  v_stat_call_connected().
Connect(s, conn) ==
    /\ pc = "idle" /\ Live(s)
    /\ \/ state[s] = "setup"
       \/ conn /\ ~answered[s]
    /\ answered' = [answered EXCEPT ![s] = @ \/ conn]
    /\ state' = [state EXCEPT ![s] = "active"]
    /\ IF state[s] = "setup"
       THEN /\ sf' = 1 /\ connected' = clock /\ saved' = clock
            /\ since' = [since EXCEPT ![s] = clock]
       ELSE UNCHANGED <<sf, connected, saved, since>>
    /\ UNCHANGED <<clock, limit, limitFile, limitnum, hard, billing, stat, statFile, billed, dir,
                   cut, pc, job, seconds, reader, num, log, others, apart>>
-----------------------------------------------------------------------------
(* The thread of a channel: v_stat_call_process() at every read of sound,    *)
(* before the lock is taken, and limits_temp().                              *)

Frame ==
    /\ reader = "idle" /\ ~NoCalls
    /\ sf = 1 /\ saved > 0 /\ clock - saved > Every
    /\ ReadLimits /\ reader' = "charge"
    /\ Apart(pc = "idle")
    /\ UNCHANGED <<clock, limitFile, device, stat, statFile, billed, calls, cut, pc, job, seconds,
                   log, others>>

Charge ==
    /\ reader = "charge" /\ reader' = "write"
    /\ limit' = [limit EXCEPT ![limitnum] = @ - (clock - saved)]
    /\ saved' = clock
    /\ Apart(pc = "idle")
    /\ UNCHANGED <<clock, limitFile, limitnum, hard, billing, sf, connected, stat, statFile, billed,
                   calls, cut, pc, job, seconds, log, others>>

\* The clock is looked at once more.  A spent limit hangs up what goes out.
Charged ==
    /\ reader = "write" /\ reader' = "idle"
    /\ limit' = limit /\ WriteLimits /\ saved' = clock
    /\ cut' = IF hard /\ limit[limitnum] <= 0
              THEN cut \union {s \in Slots : Live(s) /\ dir[s] = "out"} ELSE cut
    /\ Apart(pc = "idle")
    /\ UNCHANGED <<clock, limitnum, hard, billing, sf, connected, stat, statFile, billed, calls,
                   pc, job, seconds, log, others>>
-----------------------------------------------------------------------------
(* ^CEND: at_response_cend() with v_stat_call_end() in it.                   *)

\* What the modem reports: the seconds since the answer, by its own clock.
Durations(s) == IF since[s] = 0 THEN {0} ELSE {clock - since[s], clock - since[s] + 1}

Entry(s, d) == [dir |-> dir[s], num |-> num[s], charge |-> d, answered |-> answered[s],
                payer |-> billing]

End(s, d) ==
    /\ pc = "idle" /\ Live(s) /\ pc' = "limits"
    /\ job' = [call |-> s, duration |-> d]
    /\ stat' = IF dir[s] = "out"
               THEN [statFile EXCEPT !["duration"] = @ + d, !["out_calls"] = @ + 1] ELSE stat
    /\ sf' = 0 /\ ReadLimits
    /\ log' = Append(log, Entry(s, d))
    /\ Apart(reader = "idle")
    /\ UNCHANGED <<clock, limitFile, limitnum, hard, billing, connected, saved, statFile, billed,
                   calls, cut, seconds, reader, others>>

\* Mutant: the charges on the way are not given back.
SettleKept ==
    /\ pc = "limits" /\ pc' = "billing"
    /\ limit' = [limit EXCEPT ![limitnum] = @ - job.duration]
    /\ WriteLimits /\ limitnum' = 0
    /\ saved' = connected + job.duration
    /\ Apart(reader = "idle")
    /\ UNCHANGED <<clock, hard, billing, sf, connected, stat, statFile, billed, calls, cut, job,
                   seconds, reader, log, others>>

\* limits_final(): what was charged on the way is given back, the duration
\* taken, and the device forgets which limit the call was for.
Settle ==
    /\ pc = "limits" /\ pc' = "billing"
    /\ limit' = [limit EXCEPT ![limitnum] = @ + (saved - connected) - job.duration]
    /\ WriteLimits /\ limitnum' = 0
    /\ saved' = connected + job.duration
    /\ Apart(reader = "idle")
    /\ UNCHANGED <<clock, hard, billing, sf, connected, stat, statFile, billed, calls, cut, job,
                   seconds, reader, log, others>>

\* billing_save(): the day's seconds are read ...
Bills(d) == d > 0 /\ d < 2000

Look ==
    /\ pc = "billing" /\ pc' = "bill"
    /\ seconds' = billed[billing]
    /\ UNCHANGED <<clock, limit, limitFile, device, stat, statFile, billed, calls, cut, job,
                   reader, log, others, apart>>

\* ... and written.
Bill ==
    /\ pc = "bill" /\ pc' = "count"
    /\ billed' = IF Bills(job.duration) THEN [billed EXCEPT ![billing] = seconds + job.duration]
                 ELSE billed
    /\ UNCHANGED <<clock, limit, limitFile, device, stat, statFile, calls, cut, job, seconds,
                   reader, log, others, apart>>

Counted(s, d) ==
    IF dir[s] = "in"
    THEN [statFile EXCEPT !["iatt"] = 0, !["in_duration"] = @ + d, !["in_answered"] = @ + 1]
    ELSE IF answered[s]
    THEN [stat EXCEPT !["answered"] = @ + 1, !["iatt"] = @ + 1, !["satt"] = @ + 1]
    ELSE stat

\* The rest of the statistics; writepvtinfo(); the call is released.
Count ==
    /\ pc = "count" /\ pc' = "idle"
    /\ stat' = Counted(job.call, job.duration) /\ WriteInfo
    /\ state' = [state EXCEPT ![job.call] = "none"] /\ cut' = cut \ {job.call}
    /\ UNCHANGED <<clock, limit, limitFile, device, billed, dir, answered, since, num, job,
                   seconds, reader, log, others, apart>>

\* The device is lost: its calls are released and no ^CEND comes for them.
\* When it is back, +CIMI reads and writes statistics and limits.
Lost ==
    /\ pc = "idle" /\ ~NoCalls
    /\ state' = [s \in Slots |-> "none"] /\ cut' = {}
    /\ stat' = statFile /\ limit' = limitFile
    /\ log' = Append(log, [dir |-> "lost", num |-> limitnum, answered |-> FALSE,
                           charge |-> IF sf = 1 THEN saved - connected ELSE 0,
                           payer |-> billing])
    /\ Apart(reader = "idle")
    /\ UNCHANGED <<clock, limitFile, device, statFile, billed, dir, answered, since, num, pc, job,
                   seconds, reader, others>>
-----------------------------------------------------------------------------
(* Others, without the lock of the device.                                   *)

\* The CLI shows the devices: it reads everything again from disk.
Show ==
    /\ ReadInfo /\ ReadLimits
    /\ Apart(pc = "idle" /\ reader = "idle")
    /\ UNCHANGED <<clock, limitFile, device, statFile, billed, calls, cut, pc, job, seconds, reader,
                   log, others>>

\* send2(): a message goes out.
Sms ==
    /\ Len(log) < MaxCalls
    /\ stat' = [statFile EXCEPT !["satt"] = 0] /\ WriteInfo
    /\ log' = Append(log, [dir |-> "sms", num |-> 0, charge |-> 0, answered |-> FALSE,
                           payer |-> billing])
    /\ Apart(pc = "idle")
    /\ UNCHANGED <<clock, limit, limitFile, device, billed, calls, cut, pc, job, seconds, reader,
                   others>>

\* A call of another device ends: its monitor bills the same day.
OtherBills ==
    /\ others = 0 /\ others' = 1
    /\ billed' = [billed EXCEPT !["system"] = @ + 1]
    /\ Apart(pc # "bill")
    /\ UNCHANGED <<clock, limit, limitFile, device, stat, statFile, calls, cut, pc, job, seconds,
                   reader, log>>

Tick ==
    /\ clock < MaxClock /\ clock' = clock + 1
    /\ Apart(reader # "write")
    /\ UNCHANGED <<limit, limitFile, device, stat, statFile, billed, calls, cut, pc, job, seconds,
                   reader, log, others>>
-----------------------------------------------------------------------------
Init ==
    /\ clock = 1
    /\ limit = [n \in Limits |-> Opening] /\ limitFile = limit
    /\ limitnum = 0 /\ hard = FALSE /\ billing = "system"
    /\ sf = 0 /\ connected = 0 /\ saved = 0
    /\ stat = [i \in Items |-> 0] /\ statFile = stat
    /\ billed = [p \in Payers |-> 0]
    /\ state = [s \in Slots |-> "none"] /\ dir = [s \in Slots |-> "in"]
    /\ answered = [s \in Slots |-> FALSE] /\ since = [s \in Slots |-> 0]
    /\ num = [s \in Slots |-> 0]
    /\ cut = {} /\ pc = "idle" /\ job = [call |-> "main", duration |-> 0] /\ seconds = 0
    /\ reader = "idle" /\ log = <<>> /\ others = 0 /\ apart = TRUE

Next ==
    \/ \E s \in Slots :
         \/ \E n \in Limits, h \in BOOLEAN, b \in Payers : Dial(s, n, h, b)
         \/ Ring(s)
         \/ \E conn \in BOOLEAN : Connect(s, conn)
         \/ \E d \in Durations(s) : End(s, d)
    \/ Frame \/ Charge \/ Charged
    \/ Settle \/ Look \/ Bill \/ Count \/ Lost
    \/ Show \/ Sms \/ OtherBills \/ Tick

Spec == Init /\ [][Next]_vars
-----------------------------------------------------------------------------
(* Properties.  "log" holds every call that ended, was lost, and every       *)
(* message, in order; "num" the limit a call was started for; "since" when   *)
(* it was answered.  "apart" is TRUE while every handler has read, changed   *)
(* and written without another one in between, the clock stood still while   *)
(* a charge was written, and no two calls were on the device at once.  When  *)
(* it is FALSE each of the parts below can fail: see README.                 *)

Logged(Test(_)) == SelectSeq(log, Test)
Seconds(Test(_)) == FoldLeft(LAMBDA sum, e : sum + e.charge, 0, Logged(Test))
Outgoing == Len(Logged(LAMBDA e : e.dir = "out"))
AnsweredSince(d) ==
    LET last == {i \in DOMAIN log : log[i].dir = d}
    IN  Len(SelectSeq(SubSeq(log, 1 + FoldLeft(LAMBDA m, i : IF i \in last THEN i ELSE m, 0,
                                               [i \in DOMAIN log |-> i]), Len(log)),
                      LAMBDA e : e.dir = "out" /\ e.answered))

\* On disk every limit has lost the seconds of the calls that were made on it
\* and what the running call was charged so far, and nothing else.
LimitRight ==
    \A n \in Limits :
        limitFile[n] = Opening - Seconds(LAMBDA e : e.num = n)
                       - (IF sf = 1 /\ ~NoCalls /\ n = limitnum THEN saved - connected ELSE 0)

\* A call that goes out on a hard limit has been hung up if and only if it was
\* charged and its limit is spent.
CutRight ==
    \A s \in Slots : Live(s) /\ dir[s] = "out" =>
        (s \in cut <=> hard /\ sf = 1 /\ saved > connected /\ limitFile[limitnum] <= 0)

\* The statistics on disk are those of the calls and messages there were.
CountsRight ==
    /\ statFile["out_calls"] = Outgoing
    /\ statFile["answered"] = Len(Logged(LAMBDA e : e.dir = "out" /\ e.answered))
    /\ statFile["duration"] = Seconds(LAMBDA e : e.dir = "out")
    /\ statFile["in_answered"] = Len(Logged(LAMBDA e : e.dir = "in"))
    /\ statFile["in_duration"] = Seconds(LAMBDA e : e.dir = "in")
    /\ statFile["iatt"] = AnsweredSince("in")
    /\ statFile["satt"] = AnsweredSince("sms")

\* Every second of a call that ended is billed once, to the one who pays.
BilledRight ==
    \A p \in Payers :
        billed[p] = Seconds(LAMBDA e : e.payer = p /\ e.dir \in {"in", "out"} /\ Bills(e.charge))
                    + (IF p = "system" THEN others ELSE 0)

\* Whenever no handler is at work: the books of the SIM agree with its calls.
BooksRight ==
    apart /\ pc = "idle" /\ reader = "idle" => LimitRight /\ CutRight /\ CountsRight /\ BilledRight
=============================================================================
