------------------------------ MODULE Selection ------------------------------
(***************************************************************************)
(* Which device makes a call: select.c.  A thread that dials makes a list  *)
(* of the devices that might, takes out those that a rule excludes, one    *)
(* rule after the other, shuffles and sorts what is left, and reserves the *)
(* first that is still free.  One step is one turn of one of these loops.  *)
(*                                                                         *)
(* Settings do not change meanwhile; whether a device is free and whether  *)
(* its lock is held does.  That is looked at while the list is made and    *)
(* while a device is chosen, so the other threads act only in the latter.  *)
(***************************************************************************)
EXTENDS Integers, Sequences, FiniteSets

CONSTANTS
    Dev,            \* devices; a device is its SIM, too: strcmp() of IMSIs is =
    None,           \* NULL, and the IMSI of no device
    Order,          \* the list of devices, a sequence of Dev
    Profiles,       \* what the settings of a device may be
    Variables,      \* what the channel that asks may have as variables
    MaxFlips,       \* bound: changes other threads make
    MaxCalls,       \* bound: calls that are dialled
    MaxImb,         \* IMB_count stops at this number of entries
    MaxSoupri,      \* MAXDONGLEDEVICES*2
    MayFail         \* whether memory may run out

ASSUME OrderAssumption ==
    /\ Order \in Seq(Dev)
    /\ \A i, j \in DOMAIN Order : Order[i] = Order[j] => i = j
    /\ None \notin Dev
ASSUME BoundAssumption ==
    /\ MaxFlips \in Nat /\ MaxCalls \in Nat /\ MaxImb \in Nat /\ MaxSoupri \in Nat \ {0}
    /\ MayFail \in BOOLEAN
(* What candidates are compared by is made of integers of the configuration *)
(* and of the request.  From a penalty of -100 on the factor 1 - p/(100+p)  *)
(* is not positive: the model covers the others.                            *)
ASSUME SettingsAssumption ==
    /\ \A a \in Profiles :
          /\ {a.priority, a.out_calls, a.idle} \subseteq Int
          /\ {a.diff_min.any, a.diff_min.goo, a.diff_min.nor,
               a.diff_min.sout, a.diff_min.imode} \subseteq Int
          /\ \A v \in Variables : a.limit[v.limitnum] \in Int
    /\ Variables # {}
    /\ \A v \in Variables :
          /\ {"limitnum", "penalty", "imb", "any", "qos", "pay"} \subseteq DOMAIN v
          /\ v.penalty \in Int /\ v.penalty > -100
          /\ Len(v.imb) \in Nat /\ DOMAIN v.imb = 1..Len(v.imb)

VARIABLES
    attr,       \* settings and statistics of each device
    call,       \* whether a device has a call: "free", "talking" or "busy"
    held,       \* devices whose lock somebody holds
    selectbusy, \* devices that are reserved
    soupri,     \* pvt->soupri of each device: [imsi, start]
    cr,         \* the call request
    pass,       \* where the thread is
    list,       \* pvt_select, up to pvt_select_count
    heap,       \* devices an entry is allocated for
    num,        \* the i of a loop
    other,      \* the j of the sort
    usa,        \* the order that the sort goes by
    found,      \* what find_device_by_resource_ex() will return
    passed,     \* history: devices pvt_select_create() put into the list
    flips, calls,   \* bounds
    overrun,    \* history: soupri was written behind its end
    failed      \* history: memory ran out

devices == <<attr, call, held, selectbusy, soupri>>
loop == <<list, heap, num, other, usa>>
vars == <<devices, cr, pass, loop, found, passed, flips, calls, overrun, failed>>

-----------------------------------------------------------------------------
(* The request: call_request_create() *)

(* get_cr_qos.  Names it does not know, and none, are like NOS.             *)
QosNames == {"NOS", "GOO", "BAD", "NOR", "NEW", "NE0", "NEC", "NEM", "SOU", "IMO", "SYS",
             "VIP", "ROB", "BLO"}
Qos(str) == IF str \in QosNames \ {"SYS"} THEN str ELSE "NOS"
Pay(str) == str \notin {"SOU", "SYS"}

(* parse_cr_im: "any" stands for 999999999999999.  What follows the last    *)
(* entry that there is room for is not looked at.                           *)
Parsed(imb) ==
    {i \in DOMAIN imb : Cardinality({j \in 1..i-1 : imb[j] # "any"}) < MaxImb}
ImbSims(imb) ==
    LET sims == {i \in Parsed(imb) : imb[i] # "any"}
    IN  [k \in 1..Cardinality(sims) |->
            imb[CHOOSE i \in sims : Cardinality({j \in sims : j <= i}) = k]]
ImbAny(imb) == \E i \in Parsed(imb) : imb[i] = "any"

(* get_cr_group, for a resource that names a group or one that names a      *)
(* device, is part of the variables: fields group, limitnum and limited or  *)
(* the field resource.                                                      *)
CallRequest(v) ==
    [v EXCEPT !.qos = Qos(v.qos),
              !.any = Qos(v.qos) = "NOS" \/ ImbAny(v.imb),
              !.imb = ImbSims(v.imb),
              !.pay = Pay(v.qos)]

-----------------------------------------------------------------------------
(* What is looked at when a device is examined *)

(* is_dial_possible2 and ready4voice_call                                   *)
Ready(d) ==
    /\ d \notin selectbusy
    /\ call[d] = "free" \/ (call[d] = "talking" /\ cr.hold)

(* can_dial                                                                 *)
CanDial(d) == ~(cr.hold /\ cr.requestor = d) /\ Ready(d)

Alg(d) == attr[d].alg[cr.limitnum]
Limit(d) == attr[d].limit[cr.limitnum]

(* procmp: the call's provider begins with the modem's, and both are there. *)
ProMatch(d) == attr[d].pro \in cr.pros

(* IMB_pos and IMB_type: how many entries there are in front of the first   *)
(* that is d.                                                               *)
ImbPos(d) ==
    IF cr.qos = "SOU" THEN Len(cr.imb)
    ELSE Cardinality({i \in DOMAIN cr.imb : \A j \in 1..i : cr.imb[j] # d})
ImbType(d) ==
    CASE cr.qos = "SOU" -> "N"
      [] cr.qos # "SOU" /\ ImbPos(d) < Len(cr.imb) -> IF ImbPos(d) = 0 THEN "B" ELSE "C"
      [] OTHER -> IF ~cr.any THEN "E" ELSE IF cr.imb = <<>> THEN "N" ELSE "D"
Known(d) == ImbType(d) \in {"B", "C"}

(* pvt_select_create: the group and the limit                               *)
MayDial(d) == attr[d].group = cr.group /\ (Limit(d) > 0 \/ ~cr.limited)

(* pvt_select_im                                                            *)
KeepIm(d) ==
    IF cr.qos = "SOU" THEN d # cr.souimsito
    ELSE \/ ImbType(d) \in attr[d].im
         \/ ImbType(d) = "E" /\ Alg(d) \in {"A", "B", "a", "b"}

(* pvt_select_qos                                                           *)
KeepQos(d) ==
    \/ Known(d) /\ cr.qos \notin {"ROB", "BLO"}
    \/ cr.qos \in attr[d].qos
    \/ Alg(d) \in {"Q", "d"} /\ cr.qos \notin {"ROB", "BLO"}
    \/ cr.qos = "SOU" /\ attr[d].can_sout
    \/ Alg(d) \in {"p", "v"} /\ ProMatch(d)

(* pvt_select_cappro                                                        *)
KeepCapPro(d) ==
    \/ cr.qos = "SOU"
    \/ Known(d)
    \/ cr.cap \in attr[d].cap /\ (Alg(d) \in {"P", "v"} => ProMatch(d))

(* pvt_select_work: minutes at which a SIM wakes and sleeps on a day, and   *)
(* whether it is awake.                                                     *)
WakeMinute(d) == ((((attr[d].imsi3 * 17) + (cr.now.day * 19)) * 17) % 30) * 2
SleepMinute(d) == ((((attr[d].imsi3 * 17) + (cr.now.day * 29)) * 17) % 30) * 2
KeepWork(d) ==
    LET t == IF cr.now.holiday THEN attr[d].holiday ELSE attr[d].work
        h == cr.now.hour
    IN  \/ Known(d)
        \/ /\ t.wake >= 0 =>
                ~(h < t.wake \/ (h = t.wake /\ cr.now.minute < WakeMinute(d)))
           /\ t.sleep >= 0 =>
                ~(h > t.sleep \/ (h = t.sleep /\ cr.now.minute < SleepMinute(d)))

(* pvt_select_diff.  The factors 1 - p/(100 + p) are 100/(100 + p).         *)
AlgPenalty(d) ==
    CASE Alg(d) \in {"A", "a", "X"} -> -10
      [] Alg(d) \in {"B", "b", "Z"} -> -20
      [] OTHER -> 0
DayAtMost(n) == IF n > 86400 THEN 86400 ELSE n
Rested(d) ==
    (DayAtMost(attr[d].idle) * 10000) \div ((100 + cr.penalty) * (100 + AlgPenalty(d)))
DiffMin(d) ==
    LET min == attr[d].diff_min
    IN  CASE cr.qos = "SOU" -> min.sout
          [] cr.qos # "SOU" /\ cr.limitnum # 0 /\ attr[d].nodiff[cr.limitnum] -> min.goo
          [] cr.qos # "SOU" /\ ~(cr.limitnum # 0 /\ attr[d].nodiff[cr.limitnum]) ->
                IF Known(d) THEN min.imode
                ELSE IF cr.qos = "GOO" THEN min.goo
                ELSE IF cr.qos = "NOR" THEN min.nor ELSE min.any
Diff(d) == Rested(d) - DiffMin(d)

Keep(p, d) ==
    CASE p = "im" -> KeepIm(d)
      [] p = "qos" -> KeepQos(d)
      [] p = "cappro" -> KeepCapPro(d)
      [] p = "work" -> KeepWork(d)
      [] p = "diff" -> Diff(d) >= 0

(* The order of the rules; the shuffle follows the last.                    *)
Rules == {"im", "qos", "cappro", "work", "diff"}
Before(p) ==
    CASE p = "im" -> {}
      [] p = "qos" -> {"im"}
      [] p = "cappro" -> {"im", "qos"}
      [] p = "work" -> {"im", "qos", "cappro"}
      [] p = "diff" -> {"im", "qos", "cappro", "work"}
      [] OTHER -> Rules
After(p) ==
    CASE p = "im" -> "qos"
      [] p = "qos" -> "cappro"
      [] p = "cappro" -> "work"
      [] p = "work" -> "diff"
      [] p = "diff" -> "shuffle"

-----------------------------------------------------------------------------
(* The list of candidates *)

Init ==
    /\ attr \in [Dev -> Profiles]
    /\ call = [d \in Dev |-> "free"]
    /\ held = {}
    /\ selectbusy = {}
    /\ soupri = [d \in Dev |-> <<>>]
    /\ cr = CallRequest(CHOOSE v \in Variables : TRUE)
    /\ pass = "idle"
    /\ list = <<>> /\ heap = {} /\ num = 1 /\ other = 1 /\ usa = "diff"
    /\ found = None
    /\ passed = {}
    /\ flips = 0 /\ calls = 0
    /\ overrun = FALSE /\ failed = FALSE

(* plain_dial: the device that has the name is looked at, tried and         *)
(* reserved like those pvt_select_found() goes through.                     *)
PlainDial ==
    /\ pass' = "found"
    /\ list' = IF \E i \in DOMAIN Order : Order[i] = cr'.resource
                 THEN <<cr'.resource>> ELSE <<>>

(* call_request_create, and the branch on dial_type.                        *)
Begin ==
    /\ pass = "idle" /\ calls < MaxCalls
    /\ calls' = calls + 1
    /\ cr' \in {CallRequest(v) : v \in Variables}
    /\ num' = 1
    /\ passed' = {}
    /\ found' = None
    /\ IF cr'.resource = None
         THEN pass' = "create" /\ list' = <<>>
         ELSE PlainDial
    /\ UNCHANGED <<devices, heap, other, usa, flips, overrun, failed>>

(* pvt_select_create: one device of all.                                    *)
Create ==
    /\ pass = "create" /\ num <= Len(Order)
    /\ LET d == Order[num]
       IN  IF CanDial(d) /\ MayDial(d)
             THEN /\ list' = Append(list, d)
                  /\ heap' = heap \union {d}
                  /\ passed' = passed \union {d}
             ELSE UNCHANGED <<list, heap, passed>>
    /\ num' = num + 1
    /\ UNCHANGED <<devices, cr, pass, other, usa, found, flips, calls, overrun, failed>>

Created ==
    /\ pass = "create" /\ num > Len(Order)
    /\ pass' = "im" /\ num' = 1
    /\ UNCHANGED <<devices, cr, list, heap, other, usa, found, passed, flips, calls, overrun, failed>>

(* No memory for an entry: the count stays 0, and nothing is freed.         *)
CreateFails ==
    /\ MayFail
    /\ pass = "create" /\ num <= Len(Order)
    /\ CanDial(Order[num]) /\ MayDial(Order[num])
    /\ list' = <<>> /\ passed' = {}
    /\ pass' = "im" /\ num' = 1
    /\ failed' = TRUE
    /\ UNCHANGED <<devices, cr, heap, other, usa, found, flips, calls, overrun>>

(* Mutants: the entry is not freed; the loop goes on behind the one moved.   *)
RemovedUnfreed ==
    /\ list' = [i \in 1..Len(list) - 1 |-> IF i = num THEN list[Len(list)] ELSE list[i]]
    /\ UNCHANGED <<heap, num>>

RemovedSkips ==
    /\ heap' = heap \ {list[num]}
    /\ list' = [i \in 1..Len(list) - 1 |-> IF i = num THEN list[Len(list)] ELSE list[i]]
    /\ num' = num + 1

(* pvt_select_remove: the last entry takes the place of the one that is     *)
(* freed; num-- undoes the i++ of the loop.                                 *)
Removed ==
    /\ heap' = heap \ {list[num]}
    /\ list' = [i \in 1..Len(list) - 1 |-> IF i = num THEN list[Len(list)] ELSE list[i]]
    /\ UNCHANGED num

(* One turn of the loop of pvt_select_im, qos, cappro, work or diff.        *)
Examine ==
    /\ pass \in Rules /\ num <= Len(list)
    /\ IF Keep(pass, list[num]) THEN num' = num + 1 /\ UNCHANGED <<list, heap>>
                                ELSE Removed
    /\ UNCHANGED <<devices, cr, pass, other, usa, found, passed, flips, calls, overrun, failed>>

NextRule ==
    /\ pass \in Rules /\ num > Len(list)
    /\ pass' = After(pass) /\ num' = 1
    /\ UNCHANGED <<devices, cr, list, heap, other, usa, found, passed, flips, calls, overrun, failed>>

-----------------------------------------------------------------------------
(* The order of candidates *)

Swapped(i, j) == [list EXCEPT ![i] = list[j], ![j] = list[i]]

(* pvt_select_shuffle                                                       *)
Shuffle ==
    /\ pass = "shuffle" /\ num < Len(list)
    /\ \E r \in num..Len(list) : list' = Swapped(num, r)
    /\ num' = num + 1
    /\ UNCHANGED <<devices, cr, pass, heap, other, usa, found, passed, flips, calls, overrun, failed>>

(* The order the third key goes by is that of the device that is at the     *)
(* place when its turn comes.                                               *)
Usa(d) ==
    CASE Alg(d) \in {"<", "a", "b"} -> "out_calls"
      [] Alg(d) \in {"A", "B", "v", "P", "p"} -> "limit"
      [] OTHER -> "diff"

Third(u, d) ==
    CASE u = "out_calls" -> attr[d].out_calls
      [] u = "limit" -> Limit(d)
      [] u = "diff" -> Diff(d)

(* When this SIM last called the one the call is for; 0 for never.          *)
Sou(d) ==
    LET at == {k \in DOMAIN soupri[d] : soupri[d][k].imsi = cr.souimsito}
    IN  IF at = {} THEN 0 ELSE soupri[d][CHOOSE k \in at : \A q \in at : q <= k].start

(* Mutant: devices of a lower priority come first.                          *)
LowerFirst(u, d, e) ==
    IF cr.qos = "SOU" THEN Sou(d) > Sou(e) \/ Sou(d) = 0
    ELSE \/ ImbPos(d) > ImbPos(e)
         \/ /\ ImbPos(d) = ImbPos(e)
            /\ \/ attr[d].priority > attr[e].priority
               \/ attr[d].priority = attr[e].priority /\ Third(u, d) < Third(u, e)

(* Whether d, which is in front of e, changes places with it.               *)
Behind(u, d, e) ==
    IF cr.qos = "SOU" THEN Sou(d) > Sou(e) \/ Sou(d) = 0
    ELSE \/ ImbPos(d) > ImbPos(e)
         \/ /\ ImbPos(d) = ImbPos(e)
            /\ \/ attr[d].priority < attr[e].priority
               \/ attr[d].priority = attr[e].priority /\ Third(u, d) < Third(u, e)

Shuffled ==
    /\ pass = "shuffle" /\ num >= Len(list)
    /\ num' = 1 /\ other' = 2
    /\ pass' = IF Len(list) > 1 THEN "sort" ELSE "found"
    /\ usa' = IF Len(list) > 1 THEN Usa(list[1]) ELSE usa
    /\ UNCHANGED <<devices, cr, list, heap, found, passed, flips, calls, overrun, failed>>

(* pvt_select_sort: one comparison, and on to the next.                     *)
Sort ==
    /\ pass = "sort"
    /\ list' = IF Behind(usa, list[num], list[other]) THEN Swapped(num, other) ELSE list
    /\ CASE other < Len(list) -> other' = other + 1 /\ UNCHANGED <<num, usa, pass>>
         [] other = Len(list) /\ num + 1 < Len(list) ->
                /\ num' = num + 1 /\ other' = num + 2
                /\ usa' = Usa(list'[num + 1])
                /\ UNCHANGED pass
         [] other = Len(list) /\ num + 1 = Len(list) ->
                pass' = "found" /\ num' = 1 /\ UNCHANGED <<other, usa>>
    /\ UNCHANGED <<devices, cr, heap, found, passed, flips, calls, overrun, failed>>

-----------------------------------------------------------------------------
(* The choice: pvt_select_found() and plain_dial() *)

(* can_dial() without the lock                                              *)
Look ==
    /\ pass = "found" /\ num <= Len(list)
    /\ IF CanDial(list[num]) THEN pass' = "try" /\ UNCHANGED num
                             ELSE num' = num + 1 /\ UNCHANGED pass
    /\ UNCHANGED <<devices, cr, list, heap, other, usa, found, passed, flips, calls, overrun, failed>>

(* ast_mutex_trylock_pvt(), can_dial() again, selectbusy, and unlocked.     *)
Try ==
    /\ pass = "try"
    /\ LET d == list[num]
       IN  IF d \notin held /\ CanDial(d)
             THEN /\ selectbusy' = selectbusy \union {d}
                  /\ found' = d
                  /\ pass' = "stat"
                  /\ UNCHANGED num
             ELSE num' = num + 1 /\ pass' = "found" /\ UNCHANGED <<selectbusy, found>>
    /\ UNCHANGED <<attr, call, held, soupri, cr, list, heap, other, usa, passed, flips, calls>>
    /\ UNCHANGED <<overrun, failed>>

(* Nothing was found: the entries are freed.                                *)
NotFound ==
    /\ pass = "found" /\ num > Len(list)
    /\ heap' = heap \ {list[i] : i \in DOMAIN list}
    /\ list' = <<>>
    /\ pass' = "idle"
    /\ UNCHANGED <<devices, cr, num, other, usa, found, passed, flips, calls, overrun, failed>>

(* pvt_select_stat: the time of the call for a SIM is kept with the device. *)
(* The clock is the number of calls.                                        *)
SoupriAt(d) ==
    LET at == {k \in DOMAIN soupri[d] : soupri[d][k].imsi = cr.souimsito}
    IN  IF at = {} THEN Len(soupri[d]) + 1 ELSE CHOOSE k \in at : \A q \in at : k <= q

Stat ==
    /\ pass = "stat"
    /\ IF cr.qos = "SOU"
         THEN LET k == SoupriAt(found)
              IN  /\ overrun' = (overrun \/ k > MaxSoupri)
                  /\ soupri' = IF k > MaxSoupri THEN soupri
                       ELSE [soupri EXCEPT ![found] =
                                [i \in 1..(IF k > Len(@) THEN k ELSE Len(@)) |->
                                    IF i = k THEN [imsi |-> cr.souimsito, start |-> calls]
                                             ELSE @[i]]]
         ELSE UNCHANGED <<soupri, overrun>>
    /\ heap' = heap \ {list[i] : i \in DOMAIN list}
    /\ list' = <<>>
    /\ pass' = "request"
    /\ UNCHANGED <<attr, call, held, selectbusy, cr, num, other, usa, found, passed, flips, calls>>
    /\ UNCHANGED failed

(* channel_request, with the device that was found: the call begins and the *)
(* reservation is given back.                                               *)
Request ==
    /\ pass = "request"
    /\ call' = [call EXCEPT ![found] = "busy"]
    /\ selectbusy' = selectbusy \ {found}
    /\ pass' = "idle"
    /\ UNCHANGED <<attr, held, soupri, cr, loop, found, passed, flips, calls, overrun, failed>>

(* Other threads and calls that begin and end.                              *)
Flip ==
    /\ pass \in {"idle", "found", "try"} /\ flips < MaxFlips
    /\ flips' = flips + 1
    /\ \E d \in Dev :
          \/ /\ \E c \in {"free", "talking", "busy"} \ {call[d]} : call' = [call EXCEPT ![d] = c]
             /\ UNCHANGED held
          \/ /\ held' = IF d \in held THEN held \ {d} ELSE held \union {d}
             /\ UNCHANGED call
    /\ UNCHANGED <<attr, selectbusy, soupri, cr, pass, loop, found, passed, calls, overrun, failed>>

Next ==
    \/ Begin \/ Create \/ Created \/ CreateFails \/ Examine \/ NextRule
    \/ Shuffle \/ Shuffled \/ Sort
    \/ Look \/ Try \/ NotFound \/ Stat \/ Request
    \/ Flip

Spec == Init /\ [][Next]_vars

-----------------------------------------------------------------------------
(* Properties *)

Listed == {list[i] : i \in DOMAIN list}

(* When all rules were applied, the candidates are exactly the devices that *)
(* could dial when they were looked at and that every rule lets pass: the   *)
(* loops take entries out of the array they run over (pvt_select_remove).   *)
SelectedRight ==
    pass \in {"shuffle", "sort", "found", "try"} /\ cr.resource = None =>
        Listed = {d \in passed : \A p \in Rules : Keep(p, d)}

(* Candidates are tried in the order of the numbers the SIMs were called    *)
(* from, then of priority, then of the third key, if all go by the same.    *)
(* The key is chosen anew for each place of the sort in pvt_select_sort.    *)
SortedRight ==
    pass \in {"found", "try"} /\ cr.resource = None /\ cr.qos # "SOU" =>
        \A i, j \in DOMAIN list : i < j =>
            /\ ImbPos(list[i]) <= ImbPos(list[j])
            /\ ImbPos(list[i]) = ImbPos(list[j]) =>
                  attr[list[i]].priority >= attr[list[j]].priority
            /\ /\ ImbPos(list[i]) = ImbPos(list[j])
               /\ attr[list[i]].priority = attr[list[j]].priority
               /\ \A k \in DOMAIN list : Usa(list[k]) = Usa(list[1])
               => Third(Usa(list[1]), list[i]) >= Third(Usa(list[1]), list[j])

(* An entry is allocated for each device in the list and for no other, none *)
(* is listed twice, and when the thread is done all are freed, unless       *)
(* memory ran out in pvt_select_create.                                     *)
EntriesFreed ==
    ~failed =>
        /\ pass = "idle" => heap = {}
        /\ cr.resource = None /\ pass # "idle" =>
              heap = Listed /\ Cardinality(heap) = Len(list)

(* And if it did, too.                                                      *)
NothingLost == pass = "idle" => heap = {}

(* A SIM that was never called comes always first or always last.           *)
SoutOrdered ==
    pass \in {"found", "try"} /\ cr.resource = None /\ cr.qos = "SOU" =>
        \A i, j \in DOMAIN list : Sou(list[i]) # 0 /\ Sou(list[j]) = 0 => i < j

(* The table of calls to SIMs is not written behind its end.                *)
SoupriInside == ~overrun
=============================================================================
