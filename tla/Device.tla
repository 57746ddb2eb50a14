------------------------------- MODULE Device -------------------------------
(***************************************************************************)
(* The life of a device: it is found on the USB bus, listed, started,      *)
(* asked to stop, restart or go away, lost, and freed (chan_dongle.c and   *)
(* simnode/adiscovery_core.c).                                             *)
(*                                                                         *)
(* The discovery thread goes round a loop: scan the bus, visit every       *)
(* listed device that is not locked, free those marked for removal.  Each  *)
(* started device has a monitor thread.  Requests of users and reloads     *)
(* come from other threads, for the most part without the device's lock,   *)
(* and unloading ends it all.                                              *)
(*                                                                         *)
(* One modem is plugged in and out of the bus; it may come back under      *)
(* another name or at another place.  "later" stands for the two restart   *)
(* times gracefully and convenient, which this part of the code treats     *)
(* alike.  The code between two operations on locks or threads is one      *)
(* step, except where two stores without a lock follow each other.         *)
(***************************************************************************)
EXTENDS Naturals, Sequences, FiniteSets, SequencesExt

CONSTANTS
    Dev,          \* the objects struct pvt that may be allocated
    Tty,          \* names a port may get, /dev/ttyUSB*
    Place,        \* places on the bus (devfile)
    NULL,
    MaxPlugs,     \* how often a modem is plugged in
    MaxRequests,  \* how many stops, restarts, removals and reloads are asked for
    MaxReloads,   \* how many of them may be reloads
    MaxWork,      \* how many calls and messages are begun
    MaxFails,     \* how many failures of a modem or of starting a thread
    MayUnload     \* whether the module is unloaded at some time

ASSUME BoundsAssumption ==
    /\ {MaxPlugs, MaxRequests, MaxReloads, MaxWork, MaxFails} \subseteq Nat
    /\ MayUnload \in BOOLEAN

ASSUME NULLAssumption == NULL \notin Dev \cup Tty \cup {"discovery", "monitor"}

State == {"stopped", "restarted", "removed", "started"}

\* What may be asked for: dongle start is always "now".
Request == {r \in [state : State, when : {"now", "later"}] :
               r.state = "started" => r.when = "now"}

Work == {"call", "sms_out", "ussd", "sms_in"}

\* The monitor thread: no thread; waiting for the lock; in its loop; waking
\* discovery; releasing the calls, waking discovery from there, closing the
\* port, clearing the state; ended and not joined.
Monitor == {"none", "created", "running", "waking", "releasing", "wakingLate",
            "closing", "clearing", "ended"}

VARIABLES
    dev,      \* the fields of every struct pvt
    list,     \* gpublic->devices
    freed,    \* objects that were freed
    locked,   \* per name, the device whose lock file exists, or NULL
    node,     \* the modem on the bus: its name and place, or NULL
    known,    \* usbdevs: what the last scan knew
    at,       \* where the discovery thread is in its loop
    pos,      \* the element of list it visits
    doing,    \* the desired state it is acting on
    req,      \* a request whose restart time is not stored yet, or NULL
    reload,   \* [stage, todo, when]: how far a reload is
    unload,   \* how far unloading is
    victim,   \* the device that unloading destroys
    gate,     \* TRUE while unloading holds discovery_lock
    used      \* how often the bounded events happened

vars == <<dev, list, freed, locked, node, known, at, pos, doing, req, reload,
          unload, victim, gate, used>>

disc == <<at, pos, doing>>
bus == <<node, known>>
unloading == <<unload, victim, gate>>

Count(what) == [used EXCEPT ![what] = @ + 1]

Listed == ToSet(list)

Fresh == Dev \ (Listed \cup freed \cup {victim})

\* What pvt_create() leaves in a struct pvt.
Created(t) ==
    [tty |-> t, desired |-> "started", when |-> "now", current |-> "stopped",
     connected |-> FALSE, must |-> FALSE, terminate |-> FALSE,
     thread |-> "none", fd |-> "closed", owner |-> NULL, work |-> {}]

----------------------------------------------------------------------------
(* Requests for a change of state *)

TimeToRestate(p) ==
    /\ p.desired # p.current
    /\ p.when = "now" \/ p.work = {}

\* pvt_try_restate() up to the waking of the discovery thread.
Restated(p) == IF TimeToRestate(p) THEN [p EXCEPT !.when = "now"] ELSE p

\* find_device(): the first connected device of that name.
Find(t) ==
    {list[i] : i \in {j \in DOMAIN list :
        /\ dev[list[j]].tty = t
        /\ dev[list[j]].connected
        /\ \A k \in 1..(j - 1) :
              ~(dev[list[k]].tty = t /\ dev[list[k]].connected)}}

\* schedule_restart_event() stores what is wanted, and then when.
RequestState ==
    /\ req = NULL
    /\ unload = "no"
    /\ used.requests + used.reloads < MaxRequests
    /\ \E t \in Tty, r \in Request : \E d \in Find(t) :
          /\ dev' = [dev EXCEPT ![d].desired = r.state]
          /\ req' = [dev |-> d, when |-> r.when]
    /\ used' = Count("requests")
    /\ UNCHANGED <<list, freed, locked, bus, disc, reload, unloading>>

RequestTime ==
    /\ req # NULL
    /\ dev' = IF req.dev \in freed
              THEN dev
              ELSE [dev EXCEPT ![req.dev] = Restated([@ EXCEPT !.when = req.when])]
    /\ req' = NULL
    /\ UNCHANGED <<list, freed, locked, bus, disc, reload, unloading, used>>

\* reload_config(): it marks every device, reads no device from the file,
\* and schedules the removal of those still marked.
ReloadBegins ==
    /\ reload.stage = "no"
    /\ unload = "no"
    /\ used.requests + used.reloads < MaxRequests
    /\ used.reloads < MaxReloads
    /\ \E w \in {"now", "later"} :
          reload' = [stage |-> "mark", todo |-> Listed, when |-> w]
    /\ used' = Count("reloads")
    /\ UNCHANGED <<dev, list, freed, locked, bus, disc, req, unloading>>

ReloadMarks(d) ==
    /\ reload.stage = "mark"
    /\ d \in reload.todo \ freed
    /\ dev[d].owner = NULL
    /\ dev' = [dev EXCEPT ![d].must = TRUE]
    /\ reload' = [reload EXCEPT !.todo = @ \ {d}]
    /\ UNCHANGED <<list, freed, locked, bus, disc, req, unloading, used>>

ReloadSchedules(d) ==
    /\ reload.stage = "schedule"
    /\ d \in reload.todo \ freed
    /\ dev[d].owner = NULL
    /\ LET p == [dev[d] EXCEPT !.desired = "removed"]
       IN  dev' = IF ~dev[d].must THEN dev
                  ELSE [dev EXCEPT ![d] =
                          IF TimeToRestate(p) THEN [p EXCEPT !.when = "now"]
                          ELSE [p EXCEPT !.when = reload.when]]
    /\ reload' = [reload EXCEPT !.todo = @ \ {d}]
    /\ UNCHANGED <<list, freed, locked, bus, disc, req, unloading, used>>

ReloadGoesOn ==
    /\ reload.stage # "no"
    /\ reload.todo \subseteq freed
    /\ reload' = IF reload.stage = "mark"
                 THEN [reload EXCEPT !.stage = "schedule", !.todo = Listed]
                 ELSE [reload EXCEPT !.stage = "no", !.todo = {}]
    /\ UNCHANGED <<dev, list, freed, locked, bus, disc, req, unloading, used>>

----------------------------------------------------------------------------
(* The USB bus *)

\* The kernel keeps a name as long as somebody has the port open.
Held(t) == \E d \in Dev : dev[d].tty = t /\ dev[d].fd # "closed"

Plug ==
    /\ node = NULL
    /\ used.plugs < MaxPlugs
    /\ \E t \in {s \in Tty : ~Held(s)}, b \in Place :
          node' = [tty |-> t, place |-> b]
    /\ used' = Count("plugs")
    /\ UNCHANGED <<dev, list, freed, locked, known, disc, req, reload, unloading>>

Unplug ==
    /\ node # NULL
    /\ node' = NULL
    /\ dev' = [d \in Dev |->
                 IF dev[d].fd = "open" THEN [dev[d] EXCEPT !.fd = "dead"] ELSE dev[d]]
    /\ UNCHANGED <<list, freed, locked, known, disc, req, reload, unloading, used>>

----------------------------------------------------------------------------
(* The discovery thread: one round *)

\* Mutant: one visit too many.
NextPast == IF pos <= Len(list) THEN at' = "visit" /\ pos' = pos + 1
                               ELSE at' = "reap" /\ pos' = 0

\* On to the next device of the list, or to the reaping.
GoOn == IF pos < Len(list) THEN at' = "visit" /\ pos' = pos + 1
                            ELSE at' = "reap" /\ pos' = 0

\* Mutant: only a device with a monitor is condemned.
CondemnedConnected(t) ==
    [d \in Dev |-> IF d \in Listed /\ dev[d].tty = t /\ dev[d].connected
                   THEN [dev[d] EXCEPT !.desired = "removed"] ELSE dev[d]]

\* usbdev_lost() condemns every device of a name; it leaves restart_time.
Condemned(t) ==
    [d \in Dev |-> IF d \in Listed /\ dev[d].tty = t
                   THEN [dev[d] EXCEPT !.desired = "removed"] ELSE dev[d]]

\* usbdevs_find(): what is not as it was is lost, what is not known is found.
Scan ==
    /\ at = "scan"
    /\ unload = "no"
    /\ LET lost  == known # NULL /\ known # node
           found == node # NULL /\ known # node
           cond  == IF lost THEN Condemned(known.tty) ELSE dev
       IN  /\ found => reload.stage = "no"
           /\ \/ /\ found
                 /\ \E d \in Fresh :
                       /\ dev' = [cond EXCEPT ![d] = Created(node.tty)]
                       /\ list' = Append(list, d)
              \/ /\ ~found
                 /\ dev' = cond
                 /\ UNCHANGED list
    /\ known' = node
    /\ IF list' = <<>> THEN at' = "reap" /\ pos' = 0 ELSE at' = "visit" /\ pos' = 1
    /\ UNCHANGED <<freed, locked, node, doing, req, reload, unloading, used>>

\* Another thread has the lock: trylock fails and the device is left out.
VisitBusy ==
    /\ at = "visit"
    /\ dev[list[pos]].owner # NULL
    /\ GoOn
    /\ UNCHANGED <<dev, list, freed, locked, bus, doing, req, reload, unloading, used>>

\* pvt_stop() with a thread: tell it and wait without the lock.
Stopping(p) == [p EXCEPT !.must = FALSE, !.terminate = TRUE]

Visit ==
    /\ at = "visit"
    /\ dev[list[pos]].owner = NULL
    /\ LET d == list[pos]
           p == dev[d]
       IN  IF p.when = "now" /\ p.desired # p.current
                /\ ~(p.desired = "started" /\ p.connected)
           THEN /\ doing' = p.desired
                /\ IF p.thread = "none"
                   THEN /\ dev' = [dev EXCEPT ![d].must = FALSE, ![d].owner = "discovery"]
                        /\ at' = "act"
                   ELSE /\ dev' = [dev EXCEPT ![d] = Stopping(p)]
                        /\ at' = "join"
                /\ UNCHANGED pos
           ELSE /\ dev' = [dev EXCEPT ![d].must = FALSE]
                /\ GoOn
                /\ UNCHANGED doing
    /\ UNCHANGED <<list, freed, locked, bus, req, reload, unloading, used>>

\* Mutant: it goes on without waiting for the thread.
JoinedEarly ==
    /\ at = "join"
    /\ LET d == list[pos]
       IN  /\ dev[d].owner = NULL
           /\ dev' = [dev EXCEPT ![d].terminate = FALSE, ![d].owner = "discovery"]
    /\ at' = "act"
    /\ UNCHANGED <<list, freed, locked, bus, pos, doing, req, reload, unloading, used>>

\* Mutant: the wish to terminate outlives the thread.
JoinedTerminating ==
    /\ at = "join"
    /\ LET d == list[pos]
       IN  /\ dev[d].thread = "ended"
           /\ dev[d].owner = NULL
           /\ dev' = [dev EXCEPT ![d].thread = "none", ![d].owner = "discovery"]
    /\ at' = "act"
    /\ UNCHANGED <<list, freed, locked, bus, pos, doing, req, reload, unloading, used>>

\* pthread_join() and the lock again.
Joined ==
    /\ at = "join"
    /\ LET d == list[pos]
       IN  /\ dev[d].thread = "ended"
           /\ dev[d].owner = NULL
           /\ dev' = [dev EXCEPT ![d].terminate = FALSE, ![d].thread = "none",
                                 ![d].owner = "discovery"]
    /\ at' = "act"
    /\ UNCHANGED <<list, freed, locked, bus, pos, doing, req, reload, unloading, used>>

Unlocked(p) == [p EXCEPT !.owner = NULL]

ActStop ==
    /\ at = "act"
    /\ doing = "stopped"
    /\ dev' = [dev EXCEPT ![list[pos]] = Unlocked(@)]
    /\ GoOn
    /\ UNCHANGED <<list, freed, locked, bus, doing, req, reload, unloading, used>>

ActRemove ==
    /\ at = "act"
    /\ doing = "removed"
    /\ dev' = [dev EXCEPT ![list[pos]] = Unlocked([@ EXCEPT !.must = TRUE])]
    /\ GoOn
    /\ UNCHANGED <<list, freed, locked, bus, doing, req, reload, unloading, used>>

\* A restart wants the device started, whatever was asked for meanwhile.
Wanting(p) == IF doing = "restarted" THEN [p EXCEPT !.desired = "started"] ELSE p

\* lock_try(): no lock file, or one of this process for a port that is gone.
LockTry(t) == IF locked[t] = NULL THEN TRUE ELSE dev[locked[t]].fd # "open"

Starting == at = "act" /\ doing \in {"started", "restarted"}

\* pvt_adiscovery(): the last scan knew a port of that name.
Scanned(t) == IF known = NULL THEN FALSE ELSE known.tty = t

Present(t) == IF node = NULL THEN FALSE ELSE node.tty = t

\* pvt_start() gives up: no such port, a lock of somebody else, or the port
\* cannot be opened, or no thread be started, and the lock file goes again.
StartFails ==
    /\ Starting
    /\ LET t == dev[list[pos]].tty
       IN  \/ /\ ~(Scanned(t) /\ LockTry(t))
              /\ UNCHANGED <<locked, used>>
           \/ /\ Scanned(t) /\ LockTry(t)
              /\ \/ ~Present(t) /\ UNCHANGED used
                 \/ Present(t) /\ used.fails < MaxFails /\ used' = Count("fails")
              /\ locked' = [locked EXCEPT ![t] = NULL]
    /\ dev' = [dev EXCEPT ![list[pos]] = Unlocked(Wanting(@))]
    /\ GoOn
    /\ UNCHANGED <<list, freed, bus, doing, req, reload, unloading>>

Start ==
    /\ Starting
    /\ LET d == list[pos]
           t == dev[d].tty
       IN  /\ Scanned(t) /\ LockTry(t) /\ Present(t)
           /\ dev' = [dev EXCEPT ![d] = Unlocked([Wanting(@) EXCEPT
                        !.fd = "open", !.thread = "created",
                        !.connected = TRUE, !.current = "started"])]
           /\ locked' = [locked EXCEPT ![t] = d]
    /\ GoOn
    /\ UNCHANGED <<list, freed, bus, doing, req, reload, unloading, used>>

\* Marked devices leave the list and are freed, without looking at their lock.
Reap ==
    /\ at = "reap"
    /\ LET marked == {d \in Listed : dev[d].must}
           kept   == {i \in DOMAIN list : list[i] \notin marked}
       IN  /\ \E f \in [1..Cardinality(kept) -> kept] :
                 /\ \A i, j \in DOMAIN f : i < j => f[i] < f[j]
                 /\ list' = [i \in DOMAIN f |-> list[f[i]]]
           /\ freed' = freed \cup marked
    /\ at' = "scan"
    /\ UNCHANGED <<dev, locked, bus, pos, doing, req, reload, unloading, used>>

\* do_discovery() returns.
DiscoveryEnds ==
    /\ at = "scan"
    /\ unload # "no"
    /\ at' = "ended"
    /\ UNCHANGED <<dev, list, freed, locked, bus, pos, doing, req, reload, unloading, used>>

----------------------------------------------------------------------------
(* The monitor thread of device d *)

Thread(d, from, to) ==
    /\ dev[d].thread = from
    /\ dev' = [dev EXCEPT ![d].thread = to]

other == <<list, freed, locked, bus, disc, req, reload, unloading>>

\* It starts when it gets the lock, and gives it back once initialisation is
\* queued.
MonitorStarts(d) ==
    /\ dev[d].owner = NULL
    /\ Thread(d, "created", "running")
    /\ UNCHANGED <<other, used>>

\* Clean-up that nobody asked for clears the wish to terminate; "keeps" is
\* whether the thread has the lock by then.
GivesUp(d, keeps) ==
    dev' = [dev EXCEPT ![d].thread = "releasing", ![d].terminate = FALSE,
                       ![d].owner = IF keeps THEN "monitor" ELSE @]

\* Initialisation cannot be queued.
MonitorCannotStart(d) ==
    /\ dev[d].thread = "created"
    /\ dev[d].owner = NULL
    /\ used.fails < MaxFails
    /\ GivesUp(d, TRUE)
    /\ used' = Count("fails")
    /\ UNCHANGED other

\* The port is gone.
MonitorLoses(d) ==
    /\ dev[d].thread = "running"
    /\ dev[d].fd # "open"
    /\ GivesUp(d, FALSE)
    /\ UNCHANGED <<other, used>>

\* It was told to terminate.
MonitorTold(d) ==
    /\ dev[d].fd = "open"
    /\ dev[d].terminate
    /\ Thread(d, "running", "releasing")
    /\ UNCHANGED <<other, used>>

\* A response cannot be handled, or a command not be written.
MonitorFails(d) ==
    /\ dev[d].thread = "running"
    /\ used.fails < MaxFails
    /\ GivesUp(d, FALSE)
    /\ used' = Count("fails")
    /\ UNCHANGED other

\* A command is not answered, and nobody has the lock.
MonitorTimesOut(d) ==
    /\ dev[d].thread = "running"
    /\ dev[d].owner = NULL
    /\ used.fails < MaxFails
    /\ GivesUp(d, TRUE)
    /\ used' = Count("fails")
    /\ UNCHANGED other

WorkBegins(d) ==
    /\ dev[d].thread = "running"
    /\ used.work < MaxWork
    /\ \E w \in Work \ dev[d].work : dev' = [dev EXCEPT ![d].work = @ \cup {w}]
    /\ used' = Count("work")
    /\ UNCHANGED other

\* The end of a call or a message looks whether a request waited for it; that
\* of a USSD does not.
WorkEnds(d) ==
    /\ dev[d].thread = "running"
    /\ \E w \in dev[d].work :
          LET p == [dev[d] EXCEPT !.work = @ \ {w}]
          IN  dev' = [dev EXCEPT ![d] =
                        IF w = "ussd" \/ ~TimeToRestate(p) THEN p
                        ELSE [Restated(p) EXCEPT !.thread = "waking"]]
    /\ UNCHANGED <<other, used>>

\* discovery_restart() takes discovery_lock for a moment.
Wakes(d) ==
    /\ ~gate
    /\ \/ Thread(d, "waking", "running")
       \/ Thread(d, "wakingLate", "closing")
    /\ UNCHANGED <<other, used>>

\* disconnect_dongle(): first the calls,
Releases(d) ==
    /\ dev[d].thread = "releasing"
    /\ LET p == [dev[d] EXCEPT !.work = @ \ {"call"}]
       IN  dev' = [dev EXCEPT ![d] =
                     IF "call" \in dev[d].work /\ TimeToRestate(p)
                     THEN [Restated(p) EXCEPT !.thread = "wakingLate"]
                     ELSE [p EXCEPT !.thread = "closing"]]
    /\ UNCHANGED <<other, used>>

\* then the port and its lock file,
Closes(d) ==
    /\ dev[d].thread = "closing"
    /\ dev' = [dev EXCEPT ![d].thread = "clearing", ![d].fd = "closed",
                          ![d].connected = FALSE]
    /\ locked' = [locked EXCEPT ![dev[d].tty] = NULL]
    /\ UNCHANGED <<list, freed, bus, disc, req, reload, unloading, used>>

\* Mutant: the device still counts as started.
EndsStarted(d) ==
    /\ dev[d].thread = "clearing"
    /\ dev' = [dev EXCEPT ![d].thread = "ended", ![d].work = {},
                          ![d].owner = IF @ = "monitor" THEN NULL ELSE @]
    /\ UNCHANGED <<other, used>>

\* Mutant: a thread that took the lock ends with it.
EndsLocked(d) ==
    /\ dev[d].thread = "clearing"
    /\ dev' = [dev EXCEPT ![d].thread = "ended", ![d].current = "stopped",
                          ![d].work = {}]
    /\ UNCHANGED <<other, used>>

\* then the rest; the lock goes if the thread has it.
Ends(d) ==
    /\ dev[d].thread = "clearing"
    /\ dev' = [dev EXCEPT ![d].thread = "ended", ![d].current = "stopped",
                          ![d].work = {},
                          ![d].owner = IF @ = "monitor" THEN NULL ELSE @]
    /\ UNCHANGED <<other, used>>

----------------------------------------------------------------------------
(* Unloading: the discovery thread is joined, then every device destroyed *)

UnloadBegins ==
    /\ MayUnload
    /\ unload = "no"
    /\ unload' = "joining"
    /\ gate' = TRUE
    /\ UNCHANGED <<dev, list, freed, locked, bus, disc, req, reload, victim, used>>

UnloadJoins ==
    /\ unload = "joining"
    /\ at = "ended"
    /\ unload' = "destroying"
    /\ gate' = FALSE
    /\ UNCHANGED <<dev, list, freed, locked, bus, disc, req, reload, victim, used>>

Destroys ==
    /\ unload = "destroying"
    /\ victim = NULL
    /\ list # <<>>
    /\ dev[Head(list)].owner = NULL
    /\ victim' = Head(list)
    /\ list' = Tail(list)
    /\ dev' = IF dev[victim'].thread = "none" THEN dev
              ELSE [dev EXCEPT ![victim'].terminate = TRUE]
    /\ UNCHANGED <<freed, locked, bus, disc, req, reload, unload, gate, used>>

Destroyed ==
    /\ victim # NULL
    /\ dev[victim].thread \in {"none", "ended"}
    /\ dev[victim].owner = NULL
    /\ dev' = [dev EXCEPT ![victim].terminate = FALSE, ![victim].thread = "none"]
    /\ freed' = freed \cup {victim}
    /\ victim' = NULL
    /\ UNCHANGED <<list, locked, bus, disc, req, reload, unload, gate, used>>

Unloaded ==
    /\ unload = "destroying"
    /\ victim = NULL
    /\ list = <<>>
    /\ unload' = "done"
    /\ UNCHANGED <<dev, list, freed, locked, bus, disc, req, reload, victim, gate, used>>

----------------------------------------------------------------------------
(* Specification *)

Init ==
    /\ dev = [d \in Dev |-> Created(NULL)]
    /\ list = <<>>
    /\ freed = {}
    /\ locked = [t \in Tty |-> NULL]
    /\ node = NULL /\ known = NULL
    /\ at = "scan" /\ pos = 0 /\ doing = "stopped"
    /\ req = NULL
    /\ reload = [stage |-> "no", todo |-> {}, when |-> "now"]
    /\ unload = "no" /\ victim = NULL /\ gate = FALSE
    /\ used = [plugs |-> 0, requests |-> 0, reloads |-> 0, work |-> 0, fails |-> 0]

Discovery ==
    \/ Scan \/ VisitBusy \/ Visit \/ Joined
    \/ ActStop \/ ActRemove \/ StartFails \/ Start
    \/ Reap \/ DiscoveryEnds

MonitorGoesOn(d) ==
    \/ MonitorStarts(d) \/ MonitorLoses(d) \/ MonitorTold(d)
    \/ Wakes(d) \/ Releases(d) \/ Closes(d) \/ Ends(d)

MonitorMay(d) ==
    \/ MonitorCannotStart(d) \/ MonitorFails(d) \/ MonitorTimesOut(d)
    \/ WorkBegins(d) \/ WorkEnds(d)

Reloading ==
    \/ ReloadBegins \/ ReloadGoesOn
    \/ \E d \in Dev : ReloadMarks(d) \/ ReloadSchedules(d)

Unloading == UnloadJoins \/ Destroys \/ Destroyed \/ Unloaded

Next ==
    \/ Discovery
    \/ \E d \in Dev : MonitorGoesOn(d) \/ MonitorMay(d)
    \/ RequestState \/ RequestTime
    \/ Reloading
    \/ Plug \/ Unplug
    \/ UnloadBegins \/ Unloading

Spec == Init /\ [][Next]_vars

\* Threads that can go on do so; nobody has to ask for anything, and a modem
\* need not be plugged in, work or fail.
Fairness ==
    /\ WF_vars(Discovery)
    /\ WF_vars(RequestTime)
    /\ WF_vars(Unloading)
    /\ WF_vars(ReloadGoesOn)
    /\ \A d \in Dev :
          /\ WF_vars(MonitorGoesOn(d))
          /\ WF_vars(WorkEnds(d))
          /\ WF_vars(ReloadMarks(d) \/ ReloadSchedules(d))

FairSpec == Spec /\ Fairness

----------------------------------------------------------------------------
(* Properties *)

\* Type invariant: every variable of the life cycle has its type.
TypeOK ==
    /\ dev \in [Dev ->
         [tty : Tty \cup {NULL}, desired : State, when : {"now", "later"},
          current : {"stopped", "started"}, connected : BOOLEAN, must : BOOLEAN,
          terminate : BOOLEAN, thread : Monitor, fd : {"closed", "open", "dead"},
          owner : {NULL, "discovery", "monitor"}, work : SUBSET Work]]
    /\ list \in Seq(Dev) /\ IsInjective(list)
    /\ freed \subseteq Dev
    /\ locked \in [Tty -> Dev \cup {NULL}]
    /\ {node, known} \subseteq [tty : Tty, place : Place] \cup {NULL}
    /\ at \in {"scan", "visit", "join", "act", "reap", "ended"}
    /\ at \in {"visit", "join", "act"} => pos \in DOMAIN list
    /\ doing \in State
    /\ req \in [dev : Dev, when : {"now", "later"}] \cup {NULL}
    /\ reload \in [stage : {"no", "mark", "schedule"}, todo : SUBSET Dev,
                   when : {"now", "later"}]
    /\ unload \in {"no", "joining", "destroying", "done"}
    /\ victim \in Dev \cup {NULL}
    /\ gate \in BOOLEAN

\* Threads that use the port of their device.
HasPort == {"created", "running", "waking", "releasing", "wakingLate", "closing"}

\* What other threads read of a device agrees with its monitor thread: it is
\* connected, with a port that is not closed, exactly while a monitor works on
\* the port, and counts as started until that monitor is done.
StartedMonitored ==
    \A d \in Dev :
        /\ dev[d].connected <=> dev[d].thread \in HasPort
        /\ dev[d].fd # "closed" <=> dev[d].thread \in HasPort
        /\ dev[d].current = "started" <=> dev[d].thread \in HasPort \cup {"clearing"}

\* No device is freed while its monitor thread, which uses it all the time,
\* still runs, as long as the configuration is not reloaded.
StoppedBeforeFreed ==
    used.reloads = 0 =>
        \A d \in freed : dev[d].thread \in {"none", "ended"} /\ dev[d].fd = "closed"

\* The same with reloads: a mark that a reload sets between the visit and the
\* reaping has the device freed though pvt_stop() was never called.
FreedStopped == \A d \in freed : dev[d].thread \in {"none", "ended"}

\* Two devices never have the same port open, though the list may hold a lost
\* device and its successor of the same name.
PortExclusive ==
    \A d, e \in Dev :
        dev[d].fd = "open" /\ dev[e].fd = "open" /\ dev[d].tty = dev[e].tty => d = e

\* Nobody leaves a thread the wish to terminate: it is there only while
\* somebody waits for that thread, so that no new monitor ends at once.
TerminateAwaited ==
    \A d \in Dev : dev[d].terminate =>
        \/ at = "join" /\ list[pos] = d
        \/ victim = d

\* A lock is held only by a thread that will give it back: by discovery while
\* it acts on the device, by a monitor on its way out.
LocksGivenBack ==
    \A d \in Dev :
        /\ dev[d].owner = "discovery" => at = "act" /\ list[pos] = d
        /\ dev[d].owner = "monitor" =>
              dev[d].thread \in {"releasing", "wakingLate", "closing", "clearing"}

\* A monitor ends alone and for good: what others read of it agrees with what
\* it does (disconnect_dongle(), pvt_stop()).
MonitorsAgree == StartedMonitored /\ TerminateAwaited

\* Ports and locks have one user at a time, and every lock is given back
\* (opentty(), closetty(), ast_mutex_lock_pvt()).
LocksRight == PortExclusive /\ LocksGivenBack

\* A modem that is gone for good has no device in the list for ever.
LostGone == <>[](node = NULL) => <>[](list = <<>> \/ unload # "no")

\* A modem that stays is started in the end, whatever failed or was plugged
\* before.
FoundStarts ==
    <>[](node # NULL) =>
        <>[](\/ unload # "no"
             \/ /\ node # NULL
                /\ \E d \in Listed : /\ dev[d].tty = node.tty
                                     /\ dev[d].fd = "open"
                                     /\ dev[d].current = "started")

\* Unloading comes to its end (if no call or message ends meanwhile).
UnloadEnds == unload # "no" ~> unload = "done"

\* What find_device() is said to do: the device it returned is locked, so
\* that nobody frees it while schedule_restart_event() stores into it.
RequestHoldsDevice == req # NULL => req.dev \notin freed

\* A stop that was granted is not replaced by discovery going on with a restart.
RequestKept ==
    [][at = "act" /\ at' # "act" /\ dev[list[pos]].desired = "stopped"
          => dev'[list[pos]].desired = "stopped"]_vars

\* A request to wait for calls and messages is carried out when there are none.
GracefulHappens ==
    \A d \in Dev :
        (dev[d].thread = "running" /\ dev[d].desired = "restarted" /\ dev[d].work = {})
            ~> (dev[d].thread # "running" \/ dev[d].desired # "restarted"
                \/ dev[d].work # {})
=============================================================================
