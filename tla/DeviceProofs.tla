---------------------------- MODULE DeviceProofs ----------------------------
(***************************************************************************)
(* What holds of devices, ports and locks at all times, for any number of  *)
(* devices, names and places, of requests, reloads and failures.           *)
(***************************************************************************)
EXTENDS Device, FiniteSetTheorems, TLAPS

Pvt == [tty : Tty \cup {NULL}, desired : State, when : {"now", "later"},
        current : {"stopped", "started"}, connected : BOOLEAN, must : BOOLEAN,
        terminate : BOOLEAN, thread : Monitor, fd : {"closed", "open", "dead"},
        owner : {NULL, "discovery", "monitor"}, work : SUBSET Work]

Leaving == {"releasing", "wakingLate", "closing", "clearing"}

UsedOK == used \in [plugs : Nat, requests : Nat, reloads : Nat, work : Nat, fails : Nat]

\* What the fields of one device say of each other.
Fits(p) ==
    /\ p.connected <=> p.thread \in HasPort
    /\ p.fd # "closed" <=> p.thread \in HasPort
    /\ p.current = "started" <=> p.thread \in HasPort \cup {"clearing"}
    /\ p.owner = "monitor" => p.thread \in Leaving

\* An object is in the list, freed or being destroyed; and the list is taken
\* apart only when discovery is over.
OnePlace ==
    /\ Listed \cap freed = {}
    /\ victim # NULL => victim \notin Listed \cup freed
    /\ unload \in {"destroying", "done"} => at = "ended"
    /\ victim # NULL => at = "ended"

\* While discovery acts on a device it holds its lock, and no monitor runs.
ActsAlone ==
    /\ at = "act" => /\ dev[list[pos]].thread = "none"
                     /\ dev[list[pos]].owner = "discovery"
    /\ \A d \in Dev : dev[d].owner = "discovery" => at = "act" /\ list[pos] = d

\* An open port is that of the modem on the bus, and the lock file for it is
\* its own; no port of a modem that went has the name of the one that came.
PortsHeld ==
    \A d \in Dev :
        /\ dev[d].fd = "open" => /\ node # NULL
                                 /\ node.tty = dev[d].tty
                                 /\ locked[dev[d].tty] = d
        /\ dev[d].fd = "dead" /\ node # NULL => node.tty # dev[d].tty

\* Without reloads only a device without monitor is marked, and discovery
\* unmarks a device before it starts it.
MarkedStopped ==
    /\ reload.stage # "no" => used.reloads > 0
    /\ used.reloads = 0 =>
         /\ \A d \in Dev : dev[d].must => dev[d].thread = "none"
         /\ at \in {"join", "act"} => ~dev[list[pos]].must

IInv ==
    /\ TypeOK /\ UsedOK
    /\ \A d \in Dev : Fits(dev[d])
    /\ TerminateAwaited
    /\ OnePlace
    /\ ActsAlone
    /\ PortsHeld
    /\ MarkedStopped
    /\ StoppedBeforeFreed

----------------------------------------------------------------------------
(* Steps that change one device *)

LEMMA InitFits == Init => IInv
<1> SUFFICES ASSUME Init PROVE IInv
  OBVIOUS
<1>1. \A d \in Dev : dev[d] = Created(NULL)
  BY DEF Init
<1>2. Created(NULL) \in Pvt
  BY DEF Created, Pvt, State, Monitor
<1>3. /\ Fits(Created(NULL)) /\ ~Created(NULL).terminate /\ ~Created(NULL).must
      /\ Created(NULL).owner = NULL /\ Created(NULL).fd = "closed"
  BY NULLAssumption DEF Created, Fits, HasPort, Leaving
<1>4. dev \in [Dev -> Pvt]
  BY <1>1, <1>2 DEF Init
<1>5. list = <<>> /\ list \in Seq(Dev) /\ Listed = {} /\ IsInjective(list)
  BY DEF Init, Listed, ToSet, IsInjective
<1>6. TypeOK
  BY <1>4, <1>5 DEF Init, TypeOK, Pvt, State
<1>7. UsedOK /\ used.reloads = 0 /\ reload.stage = "no"
  BY DEF Init, UsedOK
<1>8. OnePlace /\ ActsAlone /\ MarkedStopped
  BY <1>1, <1>3, <1>5, <1>7, NULLAssumption DEF Init, OnePlace, ActsAlone, MarkedStopped
<1>9. TerminateAwaited /\ PortsHeld /\ StoppedBeforeFreed
  BY <1>1, <1>3 DEF Init, TerminateAwaited, PortsHeld, StoppedBeforeFreed
<1> QED  BY <1>1, <1>3, <1>6, <1>7, <1>8, <1>9 DEF IInv

LEMMA Facts ==
  ASSUME IInv
  PROVE  /\ dev \in [Dev -> Pvt]
         /\ list \in Seq(Dev)
         /\ \A i, j \in DOMAIN list : list[i] = list[j] => i = j
         /\ Listed = {list[i] : i \in DOMAIN list}
         /\ freed \subseteq Dev
         /\ locked \in [Tty -> Dev \cup {NULL}]
         /\ at \in {"visit", "join", "act"} => pos \in DOMAIN list /\ list[pos] \in Dev
         /\ victim \in Dev \cup {NULL}
BY DEF IInv, TypeOK, Pvt, IsInjective, Listed, ToSet

LEMMA OneSet ==
  ASSUME dev \in [Dev -> Pvt], NEW d \in Dev, NEW p \in Pvt, dev' = [dev EXCEPT ![d] = p]
  PROVE  /\ dev' \in [Dev -> Pvt] /\ dev'[d] = p
         /\ \A e \in Dev \ {d} : dev'[e] = dev[e]
OBVIOUS

(* What keeps the invariant when one device changes, and discovery and      *)
(* unloading stay where they are.                                           *)
LEMMA DeviceStep ==
  ASSUME IInv, NEW d \in Dev, NEW p \in Pvt, dev' = [dev EXCEPT ![d] = p],
         UNCHANGED <<list, freed, locked, node, at, pos, unload, victim>>,
         TypeOK', UsedOK', MarkedStopped',
         used'.reloads = 0 => used.reloads = 0,
         Fits(p), p.tty = dev[d].tty, p.fd = dev[d].fd,
         p.terminate => dev[d].terminate,
         p.owner = "discovery" <=> dev[d].owner = "discovery",
         p.thread = dev[d].thread \/ dev[d].thread \notin {"none", "ended"}
  PROVE  IInv'
<1>1. /\ dev' \in [Dev -> Pvt] /\ dev'[d] = p /\ \A e \in Dev \ {d} : dev'[e] = dev[e]
  BY Facts, OneSet
<1>2. \A e \in Dev : Fits(dev'[e])
  BY <1>1 DEF IInv
<1>3. TerminateAwaited'
  BY <1>1 DEF IInv, TerminateAwaited
<1>4. OnePlace'
  BY DEF IInv, OnePlace, Listed
<1>5. ActsAlone'
  BY <1>1, Facts DEF IInv, ActsAlone
<1>6. PortsHeld'
  <2>1. ASSUME NEW e \in Dev PROVE dev'[e].tty = dev[e].tty /\ dev'[e].fd = dev[e].fd
    BY <1>1
  <2> QED  BY <2>1 DEF IInv, PortsHeld
<1>7. StoppedBeforeFreed'
  BY <1>1, Facts DEF IInv, StoppedBeforeFreed
<1> QED  BY <1>2, <1>3, <1>4, <1>5, <1>6, <1>7 DEF IInv

LEMMA Counted ==
  ASSUME UsedOK
  PROVE  /\ \A w \in {"plugs", "requests", "work", "fails"} :
               used' = Count(w) => UsedOK' /\ used'.reloads = used.reloads
         /\ used' = Count("reloads") => UsedOK' /\ used'.reloads > 0
         /\ UNCHANGED used => UsedOK' /\ used'.reloads = used.reloads
<1>1. ASSUME used' = Count("plugs") PROVE UsedOK' /\ used'.reloads = used.reloads
  BY <1>1 DEF Count, UsedOK
<1>2. ASSUME used' = Count("requests") PROVE UsedOK' /\ used'.reloads = used.reloads
  BY <1>2 DEF Count, UsedOK
<1>3. ASSUME used' = Count("work") PROVE UsedOK' /\ used'.reloads = used.reloads
  BY <1>3 DEF Count, UsedOK
<1>4. ASSUME used' = Count("fails") PROVE UsedOK' /\ used'.reloads = used.reloads
  BY <1>4 DEF Count, UsedOK
<1>5. ASSUME used' = Count("reloads") PROVE UsedOK' /\ used'.reloads > 0
  BY <1>5 DEF Count, UsedOK
<1>6. ASSUME UNCHANGED used PROVE UsedOK' /\ used'.reloads = used.reloads
  BY <1>6 DEF UsedOK
<1> QED  BY <1>1, <1>2, <1>3, <1>4, <1>5, <1>6

----------------------------------------------------------------------------
(* The monitor thread *)

(* Any step of the monitor of d that leaves the port alone.                 *)
LEMMA MonitorStep ==
  ASSUME IInv, NEW d \in Dev, NEW p \in Pvt, dev' = [dev EXCEPT ![d] = p],
         UNCHANGED other, UsedOK', used'.reloads = used.reloads,
         Fits(p), p.tty = dev[d].tty, p.fd = dev[d].fd, p.must = dev[d].must,
         p.terminate => dev[d].terminate,
         p.owner = "discovery" <=> dev[d].owner = "discovery",
         dev[d].thread \notin {"none", "ended"}
  PROVE  IInv'
<1>1. UNCHANGED <<list, freed, locked, node, known, at, pos, doing, req, reload, unload,
                  victim, gate>>
  BY DEF other, bus, disc, unloading
<1>2. /\ dev' \in [Dev -> Pvt] /\ dev'[d] = p /\ \A e \in Dev \ {d} : dev'[e] = dev[e]
  BY Facts, OneSet
<1>3. TypeOK'
  BY <1>1, <1>2 DEF IInv, TypeOK, Pvt
<1>4. MarkedStopped'
  BY <1>1, <1>2, Facts DEF IInv, MarkedStopped
<1> QED  BY <1>1, <1>3, <1>4, DeviceStep

LEMMA ThreadSteps ==
  ASSUME IInv, NEW d \in Dev, NEW from \in Monitor \ {"none", "ended"}, NEW to \in Monitor,
         Thread(d, from, to), UNCHANGED <<other, used>>,
         from \in HasPort <=> to \in HasPort,
         from \in HasPort \cup {"clearing"} <=> to \in HasPort \cup {"clearing"},
         dev[d].owner = "monitor" => to \in Leaving
  PROVE  IInv'
<1> DEFINE p == [dev[d] EXCEPT !.thread = to]
<1>1. dev[d] \in Pvt /\ Fits(dev[d]) /\ UsedOK
  BY Facts DEF IInv
<1>2. p \in Pvt
  BY <1>1 DEF Pvt
<1>3. /\ p.thread = to /\ p.tty = dev[d].tty /\ p.fd = dev[d].fd /\ p.must = dev[d].must
      /\ p.terminate = dev[d].terminate /\ p.owner = dev[d].owner
      /\ p.connected = dev[d].connected /\ p.current = dev[d].current
  BY <1>1 DEF Pvt
<1>4. dev' = [dev EXCEPT ![d] = p] /\ dev[d].thread = from
  BY DEF Thread
<1>5. Fits(p)
  BY <1>1, <1>3, <1>4 DEF Fits
<1>6. UsedOK' /\ used'.reloads = used.reloads
  BY <1>1, Counted
<1> HIDE DEF p
<1> QED  BY <1>2, <1>3, <1>4, <1>5, <1>6, MonitorStep

LEMMA GivesUpStep ==
  ASSUME IInv, NEW d \in Dev, NEW keeps \in BOOLEAN, GivesUp(d, keeps),
         UNCHANGED other, UNCHANGED used \/ used' = Count("fails"),
         dev[d].thread \in {"created", "running"}, keeps => dev[d].owner = NULL
  PROVE  IInv'
<1> DEFINE o == IF keeps THEN "monitor" ELSE dev[d].owner
           p == [dev[d] EXCEPT !.thread = "releasing", !.terminate = FALSE, !.owner = o]
<1>1. dev[d] \in Pvt /\ Fits(dev[d]) /\ UsedOK
  BY Facts DEF IInv
<1>2. o \in {NULL, "discovery", "monitor"}
  BY <1>1 DEF Pvt
<1>3. o = "discovery" <=> dev[d].owner = "discovery"
  BY <1>1, NULLAssumption
<1> HIDE DEF o
<1>4. p \in Pvt
  BY <1>1, <1>2 DEF Pvt, Monitor
<1>5. /\ p.thread = "releasing" /\ p.tty = dev[d].tty /\ p.fd = dev[d].fd
      /\ p.must = dev[d].must /\ ~p.terminate /\ p.owner = o
      /\ p.connected = dev[d].connected /\ p.current = dev[d].current
  BY <1>1 DEF Pvt
<1>6. dev' = [dev EXCEPT ![d] = p]
  BY DEF GivesUp, o
<1>7. Fits(p)
  BY <1>1, <1>5 DEF Fits, HasPort, Leaving
<1>8. UsedOK' /\ used'.reloads = used.reloads
  BY <1>1, Counted
<1> HIDE DEF p
<1> QED  BY <1>3, <1>4, <1>5, <1>6, <1>7, <1>8, MonitorStep

LEMMA RestatedKeeps ==
  ASSUME NEW p \in Pvt
  PROVE  /\ Restated(p) \in Pvt
         /\ Restated(p).tty = p.tty /\ Restated(p).fd = p.fd /\ Restated(p).must = p.must
         /\ Restated(p).terminate = p.terminate /\ Restated(p).owner = p.owner
         /\ Restated(p).connected = p.connected /\ Restated(p).current = p.current
         /\ Restated(p).thread = p.thread
<1>1. CASE TimeToRestate(p)
  <2> DEFINE q == [p EXCEPT !.when = "now"]
  <2>1. Restated(p) = q
    BY <1>1 DEF Restated
  <2>2. q \in Pvt
    BY DEF Pvt
  <2>3. /\ q.tty = p.tty /\ q.fd = p.fd /\ q.must = p.must /\ q.terminate = p.terminate
        /\ q.owner = p.owner /\ q.connected = p.connected /\ q.current = p.current
        /\ q.thread = p.thread
    BY DEF Pvt
  <2> QED  BY <2>1, <2>2, <2>3
<1>2. CASE ~TimeToRestate(p)
  BY <1>2 DEF Restated
<1> QED  BY <1>1, <1>2

(* Work that ends, with or without a change of the thread.                  *)
LEMMA WorkStep ==
  ASSUME IInv, NEW d \in Dev, NEW W \in SUBSET Work, NEW to \in Monitor, NEW again \in BOOLEAN,
         dev' = [dev EXCEPT ![d] =
                   IF again THEN [Restated([dev[d] EXCEPT !.work = W]) EXCEPT !.thread = to]
                            ELSE [[dev[d] EXCEPT !.work = W] EXCEPT !.thread = to]],
         UNCHANGED other, UsedOK', used'.reloads = used.reloads,
         dev[d].thread \in HasPort, to \in HasPort,
         dev[d].owner = "monitor" => to \in Leaving
  PROVE  IInv'
<1> DEFINE q == [dev[d] EXCEPT !.work = W]
           r == IF again THEN Restated(q) ELSE q
           p == [r EXCEPT !.thread = to]
<1>1. dev[d] \in Pvt /\ Fits(dev[d])
  BY Facts DEF IInv
<1>2. q \in Pvt
  BY <1>1 DEF Pvt
<1>3. /\ q.tty = dev[d].tty /\ q.fd = dev[d].fd /\ q.must = dev[d].must
      /\ q.terminate = dev[d].terminate /\ q.owner = dev[d].owner
      /\ q.connected = dev[d].connected /\ q.current = dev[d].current
  BY <1>1 DEF Pvt
<1>4. dev' = [dev EXCEPT ![d] = p]
  OBVIOUS
<1> HIDE DEF q
<1>5. /\ r \in Pvt /\ r.tty = q.tty /\ r.fd = q.fd /\ r.must = q.must
      /\ r.terminate = q.terminate /\ r.owner = q.owner
      /\ r.connected = q.connected /\ r.current = q.current
  BY <1>2, RestatedKeeps
<1> HIDE DEF r
<1>6. p \in Pvt
  BY <1>5 DEF Pvt
<1>7. /\ p.thread = to /\ p.tty = r.tty /\ p.fd = r.fd /\ p.must = r.must
      /\ p.terminate = r.terminate /\ p.owner = r.owner
      /\ p.connected = r.connected /\ p.current = r.current
  BY <1>5 DEF Pvt
<1> HIDE DEF p
<1>8. Fits(p)
  BY <1>1, <1>3, <1>5, <1>7 DEF Fits
<1>9. dev[d].thread \notin {"none", "ended"}
  BY DEF HasPort
<1>10. /\ p.tty = dev[d].tty /\ p.fd = dev[d].fd /\ p.must = dev[d].must
       /\ p.terminate = dev[d].terminate /\ p.owner = dev[d].owner
  BY <1>3, <1>5, <1>7
<1> QED  BY <1>4, <1>6, <1>8, <1>9, <1>10, MonitorStep

LEMMA MonitorWorks ==
  ASSUME IInv, NEW d \in Dev, WorkBegins(d) \/ WorkEnds(d) \/ Releases(d)
  PROVE  IInv'
<1>1. dev[d] \in Pvt /\ Fits(dev[d]) /\ UsedOK /\ dev[d].work \subseteq Work
  BY Facts DEF IInv, Pvt
<1>2. CASE WorkBegins(d)
  <2>1. PICK w \in Work \ dev[d].work : dev' = [dev EXCEPT ![d].work = @ \cup {w}]
    BY <1>2 DEF WorkBegins
  <2> DEFINE W == dev[d].work \cup {w}
             p == [dev[d] EXCEPT !.work = W]
  <2>2. p = [p EXCEPT !.thread = "running"]
    BY <1>1, <1>2 DEF WorkBegins, Pvt
  <2>3. dev' = [dev EXCEPT ![d] = IF FALSE THEN [Restated(p) EXCEPT !.thread = "running"]
                                           ELSE [p EXCEPT !.thread = "running"]]
    <3>1. dev' = [dev EXCEPT ![d] = p]
      BY <2>1
    <3> HIDE DEF p
    <3> QED  BY <2>2, <3>1
  <2>4. UsedOK' /\ used'.reloads = used.reloads /\ UNCHANGED other
    BY <1>1, <1>2, Counted DEF WorkBegins
  <2>5. dev[d].thread = "running" /\ dev[d].owner # "monitor"
    BY <1>1, <1>2 DEF WorkBegins, Fits, Leaving
  <2>6. "running" \in HasPort /\ "running" \in Monitor /\ W \in SUBSET Work
    BY <1>1 DEF HasPort, Monitor
  <2> HIDE DEF W
  <2> QED  BY <2>3, <2>4, <2>5, <2>6, WorkStep
<1>3. CASE WorkEnds(d)
  <2>1. PICK w \in dev[d].work :
          LET p == [dev[d] EXCEPT !.work = @ \ {w}]
          IN  dev' = [dev EXCEPT ![d] =
                        IF w = "ussd" \/ ~TimeToRestate(p) THEN p
                        ELSE [Restated(p) EXCEPT !.thread = "waking"]]
    BY <1>3 DEF WorkEnds
  <2> DEFINE W == dev[d].work \ {w}
             p == [dev[d] EXCEPT !.work = W]
             again == ~(w = "ussd" \/ ~TimeToRestate(p))
             to == IF again THEN "waking" ELSE "running"
  <2>2. ~again => p = [p EXCEPT !.thread = to]
    BY <1>1, <1>3 DEF WorkEnds, Pvt
  <2>3. dev' = [dev EXCEPT ![d] = IF again THEN [Restated(p) EXCEPT !.thread = to]
                                           ELSE [p EXCEPT !.thread = to]]
    BY <2>1, <2>2
  <2>4. UsedOK' /\ used'.reloads = used.reloads /\ UNCHANGED other
    BY <1>1, <1>3, Counted DEF WorkEnds
  <2>5. dev[d].thread = "running" /\ dev[d].owner # "monitor"
    BY <1>1, <1>3 DEF WorkEnds, Fits, Leaving
  <2>6. /\ dev[d].thread \in HasPort /\ to \in HasPort /\ to \in Monitor
        /\ W \in SUBSET Work /\ again \in BOOLEAN
    BY <1>1, <2>5 DEF HasPort, Monitor
  <2> HIDE DEF W, again, to
  <2> QED  BY <2>3, <2>4, <2>5, <2>6, WorkStep
<1>4. CASE Releases(d)
  <2> DEFINE W == dev[d].work \ {"call"}
             p == [dev[d] EXCEPT !.work = W]
             again == "call" \in dev[d].work /\ TimeToRestate(p)
             to == IF again THEN "wakingLate" ELSE "closing"
  <2>3. dev' = [dev EXCEPT ![d] = IF again THEN [Restated(p) EXCEPT !.thread = to]
                                           ELSE [p EXCEPT !.thread = to]]
    BY <1>4 DEF Releases
  <2>4. UsedOK' /\ used'.reloads = used.reloads /\ UNCHANGED other
    BY <1>1, <1>4, Counted DEF Releases
  <2>5. dev[d].thread = "releasing"
    BY <1>4 DEF Releases
  <2>6. /\ dev[d].thread \in HasPort /\ to \in HasPort /\ to \in Monitor /\ to \in Leaving
        /\ W \in SUBSET Work /\ again \in BOOLEAN
    BY <1>1, <2>5 DEF HasPort, Monitor, Leaving
  <2> HIDE DEF W, again, to
  <2> QED  BY <2>3, <2>4, <2>5, <2>6, WorkStep
<1> QED  BY <1>2, <1>3, <1>4

LEMMA MonitorCloses ==
  ASSUME IInv, NEW d \in Dev, Closes(d)
  PROVE  IInv'
<1> DEFINE p == [dev[d] EXCEPT !.thread = "clearing", !.fd = "closed", !.connected = FALSE]
<1>1. dev[d] \in Pvt /\ Fits(dev[d]) /\ dev[d].thread = "closing"
  BY Facts DEF IInv, Closes
<1>2. p \in Pvt
  BY <1>1 DEF Pvt, Monitor
<1>3. /\ p.thread = "clearing" /\ p.tty = dev[d].tty /\ p.fd = "closed" /\ p.must = dev[d].must
      /\ p.terminate = dev[d].terminate /\ p.owner = dev[d].owner
      /\ ~p.connected /\ p.current = dev[d].current
  BY <1>1 DEF Pvt
<1>4. dev' = [dev EXCEPT ![d] = p]
  BY DEF Closes
<1>5. Fits(p)
  BY <1>1, <1>3 DEF Fits, HasPort, Leaving
<1> HIDE DEF p
<1>6. UNCHANGED <<list, freed, node, known, at, pos, doing, req, reload, unload,
                  victim, gate, used>>
  BY DEF Closes, bus, disc, unloading
<1>7. /\ dev' \in [Dev -> Pvt] /\ dev'[d] = p /\ \A e \in Dev \ {d} : dev'[e] = dev[e]
  BY <1>2, <1>4, Facts, OneSet
<1>8. /\ locked' \in [Tty -> Dev \cup {NULL}]
      /\ \A t \in Tty : t # dev[d].tty => locked'[t] = locked[t]
  BY Facts DEF Closes
<1>9. TypeOK'
  BY <1>6, <1>7, <1>8 DEF IInv, TypeOK, Pvt
<1>10. UsedOK' /\ \A e \in Dev : Fits(dev'[e])
  BY <1>5, <1>6, <1>7 DEF IInv, UsedOK
<1>11. TerminateAwaited' /\ OnePlace'
  BY <1>3, <1>6, <1>7 DEF IInv, TerminateAwaited, OnePlace, Listed
<1>12. ActsAlone' /\ MarkedStopped' /\ StoppedBeforeFreed'
  BY <1>1, <1>3, <1>6, <1>7, Facts DEF IInv, ActsAlone, MarkedStopped, StoppedBeforeFreed
\* The name of a port that is still open is another's: that of d, if it were
\* open, would have its own lock, and if it were dead, would not be there.
<1>13. PortsHeld'
  <2>1. dev[d].fd \in {"open", "dead"}
    BY <1>1 DEF Fits, HasPort, Pvt
  <2>2. ASSUME NEW e \in Dev, e # d, dev[e].fd = "open" PROVE dev[e].tty # dev[d].tty
    BY <2>1, <2>2 DEF IInv, PortsHeld
  <2>3. ASSUME NEW e \in Dev, dev[e].fd = "open" PROVE dev[e].tty \in Tty
    BY <2>3, NULLAssumption DEF IInv, PortsHeld, TypeOK
  <2> QED  BY <1>3, <1>6, <1>7, <1>8, <2>2, <2>3 DEF IInv, PortsHeld
<1> QED  BY <1>9, <1>10, <1>11, <1>12, <1>13 DEF IInv

LEMMA MonitorEnds ==
  ASSUME IInv, NEW d \in Dev, Ends(d)
  PROVE  IInv'
<1> DEFINE o == IF dev[d].owner = "monitor" THEN NULL ELSE dev[d].owner
           p == [dev[d] EXCEPT !.thread = "ended", !.current = "stopped", !.work = {},
                               !.owner = o]
<1>1. dev[d] \in Pvt /\ Fits(dev[d]) /\ UsedOK /\ dev[d].thread = "clearing"
  BY Facts DEF IInv, Ends
<1>2. /\ o \in {NULL, "discovery", "monitor"} /\ o # "monitor"
      /\ o = "discovery" <=> dev[d].owner = "discovery"
  BY <1>1, NULLAssumption DEF Pvt
<1>3. dev' = [dev EXCEPT ![d] = p]
  BY DEF Ends
<1> HIDE DEF o
<1>4. p \in Pvt
  BY <1>1, <1>2 DEF Pvt, Monitor
<1>5. /\ p.thread = "ended" /\ p.tty = dev[d].tty /\ p.fd = dev[d].fd /\ p.must = dev[d].must
      /\ p.terminate = dev[d].terminate /\ p.owner = o
      /\ p.connected = dev[d].connected /\ p.current = "stopped"
  BY <1>1 DEF Pvt
<1>6. Fits(p)
  BY <1>1, <1>2, <1>5 DEF Fits, HasPort, Leaving
<1>7. UsedOK' /\ used'.reloads = used.reloads /\ UNCHANGED other
  BY <1>1, Counted DEF Ends
<1> HIDE DEF p
<1> QED  BY <1>1, <1>2, <1>3, <1>4, <1>5, <1>6, <1>7, MonitorStep

LEMMA MonitorNext ==
  ASSUME IInv, NEW d \in Dev, MonitorGoesOn(d) \/ MonitorMay(d)
  PROVE  IInv'
<1>1. Fits(dev[d])
  BY DEF IInv
<1>2. CASE MonitorStarts(d)
  <2>1. Thread(d, "created", "running") /\ dev[d].owner = NULL /\ UNCHANGED <<other, used>>
    BY <1>2 DEF MonitorStarts
  <2> QED  BY <2>1, ThreadSteps, NULLAssumption DEF HasPort, Monitor
<1>3. CASE MonitorLoses(d)
  BY <1>3, GivesUpStep DEF MonitorLoses
<1>4. CASE MonitorTold(d)
  BY <1>4, ThreadSteps DEF MonitorTold, HasPort, Monitor, Leaving
<1>5. CASE Wakes(d)
  <2>1. CASE Thread(d, "waking", "running")
    BY <1>1, <1>5, <2>1, ThreadSteps DEF Wakes, Thread, HasPort, Monitor, Leaving, Fits
  <2>2. CASE Thread(d, "wakingLate", "closing")
    BY <1>5, <2>2, ThreadSteps DEF Wakes, HasPort, Monitor, Leaving
  <2> QED  BY <1>5, <2>1, <2>2 DEF Wakes
<1>6. CASE MonitorCannotStart(d)
  BY <1>6, GivesUpStep DEF MonitorCannotStart
<1>7. CASE MonitorFails(d)
  BY <1>7, GivesUpStep DEF MonitorFails
<1>8. CASE MonitorTimesOut(d)
  BY <1>8, GivesUpStep DEF MonitorTimesOut
<1>9. CASE WorkBegins(d) \/ WorkEnds(d) \/ Releases(d)
  BY <1>9, MonitorWorks
<1>10. CASE Closes(d) \/ Ends(d)
  BY <1>10, MonitorCloses, MonitorEnds
<1> QED  BY <1>2, <1>3, <1>4, <1>5, <1>6, <1>7, <1>8, <1>9, <1>10
         DEF MonitorGoesOn, MonitorMay

----------------------------------------------------------------------------
(* Requests and reloads *)

(* What other threads change without looking at discovery or the monitor:   *)
(* what is wanted, when, and, in a reload, the mark.                        *)
LEMMA AskedStep ==
  ASSUME IInv, NEW d \in Dev, NEW p \in Pvt, dev' = [dev EXCEPT ![d] = p],
         UNCHANGED <<list, freed, locked, bus, disc, unloading>>,
         req' \in [dev : Dev, when : {"now", "later"}] \cup {NULL},
         reload' \in [stage : {"no", "mark", "schedule"}, todo : SUBSET Dev,
                      when : {"now", "later"}],
         reload'.stage # "no" => used'.reloads > 0,
         UsedOK', used'.reloads = 0 => used.reloads = 0,
         p.thread = dev[d].thread, p.tty = dev[d].tty, p.fd = dev[d].fd,
         p.owner = dev[d].owner, p.terminate = dev[d].terminate,
         p.connected = dev[d].connected, p.current = dev[d].current,
         p.must = dev[d].must \/ used'.reloads > 0
  PROVE  IInv'
<1>1. UNCHANGED <<list, freed, locked, node, known, at, pos, doing, unload, victim, gate>>
  BY DEF bus, disc, unloading
<1>2. /\ dev' \in [Dev -> Pvt] /\ dev'[d] = p /\ \A e \in Dev \ {d} : dev'[e] = dev[e]
  BY Facts, OneSet
<1>3. TypeOK'
  BY <1>1, <1>2 DEF IInv, TypeOK, Pvt
<1>4. MarkedStopped'
  <2> SUFFICES ASSUME used'.reloads = 0
               PROVE  /\ \A e \in Dev : dev'[e].must => dev'[e].thread = "none"
                      /\ at' \in {"join", "act"} => ~dev'[list'[pos']].must
    BY DEF MarkedStopped
  <2>1. /\ \A e \in Dev : dev[e].must => dev[e].thread = "none"
        /\ at \in {"join", "act"} => ~dev[list[pos]].must
    BY DEF IInv, MarkedStopped
  <2>2. \A e \in Dev : dev'[e].must = dev[e].must /\ dev'[e].thread = dev[e].thread
    BY <1>2
  <2> QED  BY <1>1, <2>1, <2>2, Facts
<1>5. Fits(p)
  BY DEF IInv, Fits
<1> QED  BY <1>1, <1>3, <1>4, <1>5, DeviceStep

LEMMA IdleStep ==
  ASSUME IInv, UNCHANGED <<dev, list, freed, locked, bus, disc, unloading>>,
         req' \in [dev : Dev, when : {"now", "later"}] \cup {NULL},
         reload' \in [stage : {"no", "mark", "schedule"}, todo : SUBSET Dev,
                      when : {"now", "later"}],
         reload'.stage # "no" => used'.reloads > 0,
         UsedOK', used'.reloads = 0 => used.reloads = 0
  PROVE  IInv'
<1>1. UNCHANGED <<node, known, at, pos, doing, unload, victim, gate>>
  BY DEF bus, disc, unloading
<1>2. TypeOK'
  BY <1>1 DEF IInv, TypeOK
<1>3. MarkedStopped' /\ OnePlace' /\ StoppedBeforeFreed'
  BY <1>1 DEF IInv, MarkedStopped, OnePlace, Listed, StoppedBeforeFreed
<1>4. TerminateAwaited' /\ ActsAlone' /\ PortsHeld' /\ \A d \in Dev : Fits(dev'[d])
  BY <1>1 DEF IInv, TerminateAwaited, ActsAlone, PortsHeld
<1> QED  BY <1>2, <1>3, <1>4 DEF IInv

LEMMA RequestNext ==
  ASSUME IInv, RequestState \/ RequestTime
  PROVE  IInv'
<1>1. /\ UsedOK /\ (reload.stage # "no" => used.reloads > 0)
      /\ req \in [dev : Dev, when : {"now", "later"}] \cup {NULL}
      /\ reload \in [stage : {"no", "mark", "schedule"}, todo : SUBSET Dev,
                     when : {"now", "later"}]
  BY DEF IInv, MarkedStopped, TypeOK
<1>2. CASE RequestState
  <2>1. PICK t \in Tty, r \in Request : \E d \in Find(t) :
          /\ dev' = [dev EXCEPT ![d].desired = r.state]
          /\ req' = [dev |-> d, when |-> r.when]
    BY <1>2 DEF RequestState
  <2>2. PICK d \in Find(t) : /\ dev' = [dev EXCEPT ![d].desired = r.state]
                             /\ req' = [dev |-> d, when |-> r.when]
    BY <2>1
  <2>3. d \in Dev /\ dev[d] \in Pvt /\ r.state \in State /\ r.when \in {"now", "later"}
    BY Facts DEF Find, Request
  <2> DEFINE p == [dev[d] EXCEPT !.desired = r.state]
  <2>4. p \in Pvt
    BY <2>3 DEF Pvt
  <2>5. /\ p.thread = dev[d].thread /\ p.tty = dev[d].tty /\ p.fd = dev[d].fd
        /\ p.owner = dev[d].owner /\ p.terminate = dev[d].terminate
        /\ p.connected = dev[d].connected /\ p.current = dev[d].current
        /\ p.must = dev[d].must
    BY <2>3 DEF Pvt
  <2>6. dev' = [dev EXCEPT ![d] = p]
    BY <2>2
  <2> HIDE DEF p
  <2>7. req' \in [dev : Dev, when : {"now", "later"}] \cup {NULL}
    BY <2>2, <2>3
  <2>8. /\ UsedOK' /\ used'.reloads = used.reloads /\ reload' = reload
        /\ UNCHANGED <<list, freed, locked, bus, disc, unloading>>
    BY <1>1, <1>2, Counted DEF RequestState
  <2> QED  BY <1>1, <2>3, <2>4, <2>5, <2>6, <2>7, <2>8, AskedStep
<1>3. CASE RequestTime
  <2>1. /\ UsedOK' /\ used'.reloads = used.reloads /\ reload' = reload /\ req' = NULL
        /\ UNCHANGED <<list, freed, locked, bus, disc, unloading>>
    BY <1>1, <1>3, Counted DEF RequestTime
  <2>2. CASE req.dev \in freed
    <3>1. dev' = dev
      BY <1>3, <2>2 DEF RequestTime
    <3> QED  BY <1>1, <2>1, <3>1, IdleStep
  <2>3. CASE req.dev \notin freed
    <3> DEFINE d == req.dev
               q == [dev[d] EXCEPT !.when = req.when]
    <3>1. d \in Dev /\ req.when \in {"now", "later"}
      BY <1>1, <1>3 DEF RequestTime
    <3>2. dev' = [dev EXCEPT ![d] = Restated(q)]
      BY <1>3, <2>3 DEF RequestTime
    <3> HIDE DEF d
    <3>3. dev[d] \in Pvt
      BY <3>1, Facts
    <3>4. q \in Pvt
      BY <3>1, <3>3 DEF Pvt
    <3>5. /\ q.thread = dev[d].thread /\ q.tty = dev[d].tty /\ q.fd = dev[d].fd
          /\ q.owner = dev[d].owner /\ q.terminate = dev[d].terminate
          /\ q.connected = dev[d].connected /\ q.current = dev[d].current
          /\ q.must = dev[d].must
      BY <3>3 DEF Pvt
    <3> HIDE DEF q
    <3> QED  BY <1>1, <2>1, <3>1, <3>2, <3>4, <3>5, RestatedKeeps, AskedStep
  <2> QED  BY <2>2, <2>3
<1> QED  BY <1>2, <1>3

LEMMA ReloadNext ==
  ASSUME IInv, Reloading
  PROVE  IInv'
<1>1. /\ UsedOK /\ (reload.stage # "no" => used.reloads > 0)
      /\ req \in [dev : Dev, when : {"now", "later"}] \cup {NULL}
      /\ reload \in [stage : {"no", "mark", "schedule"}, todo : SUBSET Dev,
                     when : {"now", "later"}]
      /\ Listed \subseteq Dev
  BY Facts DEF IInv, MarkedStopped, TypeOK
<1>2. CASE ReloadBegins
  <2>1. PICK w \in {"now", "later"} :
          reload' = [stage |-> "mark", todo |-> Listed, when |-> w]
    BY <1>2 DEF ReloadBegins
  <2>2. /\ UsedOK' /\ used'.reloads > 0 /\ req' = req
        /\ UNCHANGED <<dev, list, freed, locked, bus, disc, unloading>>
    BY <1>1, <1>2, Counted DEF ReloadBegins
  <2> QED  BY <1>1, <2>1, <2>2, IdleStep
<1>3. CASE ReloadGoesOn
  <2>1. /\ reload' \in [stage : {"no", "mark", "schedule"}, todo : SUBSET Dev,
                        when : {"now", "later"}]
        /\ used.reloads > 0
    BY <1>1, <1>3 DEF ReloadGoesOn
  <2>2. /\ UsedOK' /\ used'.reloads = used.reloads /\ req' = req
        /\ UNCHANGED <<dev, list, freed, locked, bus, disc, unloading>>
    BY <1>1, <1>3, Counted DEF ReloadGoesOn
  <2> QED  BY <1>1, <2>1, <2>2, IdleStep
<1>4. ASSUME NEW d \in Dev, NEW p \in Pvt, dev' = [dev EXCEPT ![d] = p],
             ReloadMarks(d) \/ ReloadSchedules(d),
             p.thread = dev[d].thread, p.tty = dev[d].tty, p.fd = dev[d].fd,
             p.owner = dev[d].owner, p.terminate = dev[d].terminate,
             p.connected = dev[d].connected, p.current = dev[d].current
      PROVE  IInv'
  <2>1. /\ reload' = [reload EXCEPT !.todo = @ \ {d}] /\ reload.stage # "no" /\ req' = req
        /\ UNCHANGED <<list, freed, locked, bus, disc, unloading, used>>
    BY <1>4 DEF ReloadMarks, ReloadSchedules
  <2>2. UsedOK' /\ used'.reloads = used.reloads /\ used'.reloads > 0
    BY <1>1, <2>1, Counted
  <2>3. reload' \in [stage : {"no", "mark", "schedule"}, todo : SUBSET Dev,
                     when : {"now", "later"}]
    BY <1>1, <2>1
  <2> QED  BY <1>1, <1>4, <2>1, <2>2, <2>3, AskedStep
<1>5. ASSUME NEW d \in Dev, ReloadMarks(d) PROVE IInv'
  <2> DEFINE p == [dev[d] EXCEPT !.must = TRUE]
  <2>1. dev[d] \in Pvt
    BY Facts
  <2>2. p \in Pvt /\ dev' = [dev EXCEPT ![d] = p]
    BY <1>5, <2>1 DEF Pvt, ReloadMarks
  <2>3. /\ p.thread = dev[d].thread /\ p.tty = dev[d].tty /\ p.fd = dev[d].fd
        /\ p.owner = dev[d].owner /\ p.terminate = dev[d].terminate
        /\ p.connected = dev[d].connected /\ p.current = dev[d].current
    BY <2>1 DEF Pvt
  <2> HIDE DEF p
  <2> QED  BY <1>4, <1>5, <2>2, <2>3
<1>6. ASSUME NEW d \in Dev, ReloadSchedules(d) PROVE IInv'
  <2> DEFINE q == [dev[d] EXCEPT !.desired = "removed"]
             w == IF TimeToRestate(q) THEN "now" ELSE reload.when
             p == [q EXCEPT !.when = w]
  <2>1. dev[d] \in Pvt /\ reload.when \in {"now", "later"}
    BY <1>1, Facts
  <2>2. w \in {"now", "later"}
    BY <2>1
  <2>3. CASE dev[d].must
    <3>1. dev' = [dev EXCEPT ![d] = p]
      BY <1>6, <2>3 DEF ReloadSchedules
    <3>2. q \in Pvt
      BY <2>1 DEF Pvt, State
    <3>3. /\ q.thread = dev[d].thread /\ q.tty = dev[d].tty /\ q.fd = dev[d].fd
          /\ q.owner = dev[d].owner /\ q.terminate = dev[d].terminate
          /\ q.connected = dev[d].connected /\ q.current = dev[d].current
      BY <2>1 DEF Pvt
    <3> HIDE DEF q, w
    <3>4. p \in Pvt
      BY <2>2, <3>2 DEF Pvt
    <3>5. /\ p.thread = q.thread /\ p.tty = q.tty /\ p.fd = q.fd
          /\ p.owner = q.owner /\ p.terminate = q.terminate
          /\ p.connected = q.connected /\ p.current = q.current
      BY <3>2 DEF Pvt
    <3> HIDE DEF p
    <3> QED  BY <1>4, <1>6, <3>1, <3>3, <3>4, <3>5
  <2>4. CASE ~dev[d].must
    <3>1. dev' = [dev EXCEPT ![d] = dev[d]]
      BY <1>6, <2>4, Facts DEF ReloadSchedules
    <3> QED  BY <1>4, <1>6, <2>1, <3>1
  <2> QED  BY <2>3, <2>4
<1> QED  BY <1>2, <1>3, <1>5, <1>6 DEF Reloading

----------------------------------------------------------------------------
(* The bus *)

LEMMA PlugNext ==
  ASSUME IInv, Plug
  PROVE  IInv'
<1>1. PICK t \in {s \in Tty : ~Held(s)}, b \in Place : node' = [tty |-> t, place |-> b]
  BY DEF Plug
<1>2. node = NULL /\ node'.tty = t /\ used' = Count("plugs")
  BY <1>1 DEF Plug
<1>3. UNCHANGED <<dev, list, freed, locked, known, at, pos, doing, req, reload, unload, victim,
                  gate>>
  BY DEF Plug, disc, unloading
<1>4. UsedOK' /\ used'.reloads = used.reloads
  BY <1>2, Counted DEF IInv
<1>5. TypeOK'
  BY <1>1, <1>3 DEF IInv, TypeOK
<1>6. MarkedStopped' /\ OnePlace' /\ StoppedBeforeFreed'
  BY <1>3, <1>4 DEF IInv, MarkedStopped, OnePlace, Listed, StoppedBeforeFreed
<1>7. TerminateAwaited' /\ ActsAlone' /\ \A d \in Dev : Fits(dev'[d])
  BY <1>3 DEF IInv, TerminateAwaited, ActsAlone
\* No port was open when there was no modem, and none that died has the name.
<1>8. PortsHeld'
  BY <1>1, <1>2, <1>3 DEF IInv, PortsHeld, Held
<1> QED  BY <1>4, <1>5, <1>6, <1>7, <1>8 DEF IInv

LEMMA UnplugNext ==
  ASSUME IInv, Unplug
  PROVE  IInv'
<1>1. UNCHANGED <<list, freed, locked, known, at, pos, doing, req, reload, unload, victim,
                  gate, used>>
  BY DEF Unplug, disc, unloading
<1>2. ASSUME NEW d \in Dev
      PROVE  /\ dev'[d] \in Pvt
             /\ dev'[d].thread = dev[d].thread /\ dev'[d].tty = dev[d].tty
             /\ dev'[d].fd = (IF dev[d].fd = "open" THEN "dead" ELSE dev[d].fd)
             /\ dev'[d].owner = dev[d].owner /\ dev'[d].terminate = dev[d].terminate
             /\ dev'[d].connected = dev[d].connected /\ dev'[d].current = dev[d].current
             /\ dev'[d].must = dev[d].must
  <2> DEFINE p == [dev[d] EXCEPT !.fd = "dead"]
  <2>1. dev[d] \in Pvt /\ dev'[d] = IF dev[d].fd = "open" THEN p ELSE dev[d]
    BY Facts DEF Unplug
  <2>2. /\ p \in Pvt /\ p.thread = dev[d].thread /\ p.tty = dev[d].tty /\ p.fd = "dead"
        /\ p.owner = dev[d].owner /\ p.terminate = dev[d].terminate
        /\ p.connected = dev[d].connected /\ p.current = dev[d].current
        /\ p.must = dev[d].must
    BY <2>1 DEF Pvt
  <2> HIDE DEF p
  <2> QED  BY <2>1, <2>2
<1>3. dev' \in [Dev -> Pvt]
  BY <1>2 DEF Unplug
<1>4. node' = NULL
  BY DEF Unplug
<1>5. TypeOK'
  BY <1>1, <1>3, <1>4 DEF IInv, TypeOK, Pvt
<1>6. \A d \in Dev : Fits(dev'[d])
  BY <1>2 DEF IInv, Fits
<1>7. UsedOK' /\ OnePlace' /\ MarkedStopped' /\ StoppedBeforeFreed'
  BY <1>1, <1>2, Facts DEF IInv, UsedOK, OnePlace, Listed, MarkedStopped, StoppedBeforeFreed
<1>8. TerminateAwaited' /\ ActsAlone' /\ PortsHeld'
  BY <1>1, <1>2, <1>4, Facts DEF IInv, TerminateAwaited, ActsAlone, PortsHeld
<1> QED  BY <1>5, <1>6, <1>7, <1>8 DEF IInv

----------------------------------------------------------------------------
(* Discovery *)

LEMMA GoesOn ==
  ASSUME IInv, at \in {"visit", "act"}, GoOn, UNCHANGED list
  PROVE  /\ at' \in {"visit", "reap"}
         /\ at' = "visit" => pos' \in DOMAIN list' /\ list[pos'] # list[pos]
<1>1. /\ list \in Seq(Dev) /\ pos \in 1..Len(list)
      /\ \A i, j \in DOMAIN list : list[i] = list[j] => i = j
  BY Facts
<1>2. pos < Len(list) => pos + 1 \in DOMAIN list /\ pos + 1 # pos
  BY <1>1
<1> QED  BY <1>1, <1>2 DEF GoOn

(* What keeps the invariant when discovery changes the device it is at.     *)
LEMMA VisitStep ==
  ASSUME IInv, at \in {"visit", "join", "act"}, NEW p \in Pvt,
         dev' = [dev EXCEPT ![list[pos]] = p],
         UNCHANGED <<list, freed, bus, req, reload, unloading>>,
         locked' \in [Tty -> Dev \cup {NULL}], PortsHeld',
         UsedOK', used'.reloads = used.reloads,
         doing' \in State, Fits(p),
         p.owner # "discovery" \/ (at' = "act" /\ pos' = pos),
         p.terminate => (at' = "join" /\ pos' = pos),
         used.reloads = 0 => (p.must => p.thread = "none" /\ at' \notin {"join", "act"}),
         \/ at' \in {"join", "act"} /\ pos' = pos
         \/ at' = "visit" /\ pos' \in DOMAIN list /\ list[pos'] # list[pos]
         \/ at' = "reap",
         at' = "act" => p.thread = "none" /\ p.owner = "discovery"
  PROVE  IInv'
<1> DEFINE d == list[pos]
<1>1. UNCHANGED <<node, known, unload, victim, gate>>
  BY DEF bus, unloading
<1>2. d \in Dev /\ d \notin freed /\ pos \in DOMAIN list
  BY Facts DEF IInv, OnePlace
<1>3. /\ dev' \in [Dev -> Pvt] /\ dev'[d] = p /\ \A e \in Dev \ {d} : dev'[e] = dev[e]
  BY <1>2, Facts, OneSet
<1>4. TypeOK'
  BY <1>1, <1>2, <1>3 DEF IInv, TypeOK, Pvt
<1>5. \A e \in Dev : Fits(dev'[e])
  BY <1>3 DEF IInv
<1>6. /\ at' \in {"visit", "join", "act", "reap"}
      /\ unload \notin {"destroying", "done"} /\ victim = NULL
  BY DEF IInv, OnePlace
<1>7. OnePlace'
  BY <1>1, <1>6 DEF IInv, OnePlace, Listed
<1>8. TerminateAwaited'
  BY <1>1, <1>2, <1>3, <1>6, NULLAssumption DEF IInv, TerminateAwaited
<1>9. ActsAlone'
  <2>1. \A e \in Dev \ {d} : dev[e].owner # "discovery"
    BY DEF IInv, ActsAlone
  <2> QED  BY <1>2, <1>3, <2>1 DEF ActsAlone
<1>10. MarkedStopped'
  BY <1>2, <1>3 DEF IInv, MarkedStopped
<1>11. StoppedBeforeFreed'
  BY <1>2, <1>3, Facts DEF IInv, StoppedBeforeFreed
<1> QED  BY <1>4, <1>5, <1>7, <1>8, <1>9, <1>10, <1>11 DEF IInv

LEMMA PortsKept ==
  ASSUME IInv, NEW d \in Dev, NEW p \in Pvt, dev' = [dev EXCEPT ![d] = p],
         UNCHANGED <<locked, bus>>, p.tty = dev[d].tty, p.fd = dev[d].fd
  PROVE  locked' \in [Tty -> Dev \cup {NULL}] /\ PortsHeld'
<1>1. ASSUME NEW e \in Dev PROVE dev'[e].tty = dev[e].tty /\ dev'[e].fd = dev[e].fd
  BY Facts, OneSet
<1>2. node' = node
  BY DEF bus
<1> QED  BY <1>1, <1>2, Facts DEF IInv, PortsHeld

LEMMA Visits ==
  ASSUME IInv, VisitBusy \/ Visit
  PROVE  IInv'
<1> DEFINE d == list[pos]
<1>1. /\ at = "visit" /\ d \in Dev /\ dev[d] \in Pvt /\ Fits(dev[d])
      /\ dev[d].owner # "discovery" /\ ~dev[d].terminate
      /\ used.reloads = 0 => (dev[d].must => dev[d].thread = "none")
      /\ UsedOK /\ doing \in State /\ dev[d].desired \in State
  <2>1. at = "visit" /\ d \in Dev
    BY Facts DEF VisitBusy, Visit
  <2>2. dev[d].owner # "discovery"
    BY <2>1 DEF IInv, ActsAlone
  <2>3. ~dev[d].terminate
    BY <2>1, NULLAssumption DEF IInv, TerminateAwaited, OnePlace
  <2>4. used.reloads = 0 => (dev[d].must => dev[d].thread = "none")
    BY <2>1 DEF IInv, MarkedStopped
  <2> QED  BY <2>1, <2>2, <2>3, <2>4, Facts DEF IInv, TypeOK, Pvt
<1>2. /\ UNCHANGED <<list, freed, locked, bus, req, reload, unloading>>
      /\ UsedOK' /\ used'.reloads = used.reloads
  BY <1>1, Counted DEF VisitBusy, Visit
<1>3. GoOn => /\ at' \in {"visit", "reap"}
              /\ at' = "visit" => pos' \in DOMAIN list /\ list[pos'] # list[pos]
  BY <1>1, <1>2, GoesOn
<1>4. CASE VisitBusy
  <2>1. dev' = [dev EXCEPT ![d] = dev[d]] /\ GoOn /\ doing' = doing
    BY <1>1, <1>4, Facts DEF VisitBusy
  <2>2. locked' \in [Tty -> Dev \cup {NULL}] /\ PortsHeld'
    BY <1>1, <1>2, <2>1, PortsKept
  <2> QED  BY <1>1, <1>2, <1>3, <2>1, <2>2, VisitStep
<1>5. CASE Visit
  <2>1. dev[d].owner = NULL
    BY <1>5 DEF Visit
  <2>2. CASE doing' = dev[d].desired /\ dev[d].thread = "none"
             /\ dev' = [dev EXCEPT ![d].must = FALSE, ![d].owner = "discovery"]
             /\ at' = "act" /\ pos' = pos
    <3> DEFINE p == [dev[d] EXCEPT !.must = FALSE, !.owner = "discovery"]
    <3>1. p \in Pvt /\ dev' = [dev EXCEPT ![d] = p]
      BY <1>1, <2>2 DEF Pvt
    <3>2. /\ p.thread = dev[d].thread /\ p.tty = dev[d].tty /\ p.fd = dev[d].fd
          /\ p.owner = "discovery" /\ p.terminate = dev[d].terminate
          /\ p.connected = dev[d].connected /\ p.current = dev[d].current /\ ~p.must
      BY <1>1 DEF Pvt
    <3> HIDE DEF p
    <3>3. Fits(p)
      BY <1>1, <2>2, <3>2 DEF Fits
    <3>4. locked' \in [Tty -> Dev \cup {NULL}] /\ PortsHeld'
      BY <1>1, <1>2, <3>1, <3>2, PortsKept
    <3> QED  BY <1>1, <1>2, <2>2, <3>1, <3>2, <3>3, <3>4, VisitStep
  <2>3. CASE doing' = dev[d].desired
             /\ dev' = [dev EXCEPT ![d] = Stopping(dev[d])] /\ at' = "join" /\ pos' = pos
    <3> DEFINE p == Stopping(dev[d])
    <3>1. p \in Pvt
      BY <1>1 DEF Pvt, Stopping
    <3>2. /\ p.thread = dev[d].thread /\ p.tty = dev[d].tty /\ p.fd = dev[d].fd
          /\ p.owner = dev[d].owner /\ p.connected = dev[d].connected
          /\ p.current = dev[d].current /\ ~p.must
      BY <1>1 DEF Pvt, Stopping
    <3> HIDE DEF p
    <3>3. Fits(p)
      BY <1>1, <3>2 DEF Fits
    <3>4. locked' \in [Tty -> Dev \cup {NULL}] /\ PortsHeld'
      BY <1>1, <1>2, <2>3, <3>1, <3>2, PortsKept DEF p
    <3>5. dev' = [dev EXCEPT ![d] = p]
      BY <2>3 DEF p
    <3> QED  BY <1>1, <1>2, <2>3, <3>1, <3>2, <3>3, <3>4, <3>5, VisitStep
  <2>4. CASE dev' = [dev EXCEPT ![d].must = FALSE] /\ GoOn /\ doing' = doing
    <3> DEFINE p == [dev[d] EXCEPT !.must = FALSE]
    <3>1. p \in Pvt /\ dev' = [dev EXCEPT ![d] = p]
      BY <1>1, <2>4 DEF Pvt
    <3>2. /\ p.thread = dev[d].thread /\ p.tty = dev[d].tty /\ p.fd = dev[d].fd
          /\ p.owner = dev[d].owner /\ p.terminate = dev[d].terminate
          /\ p.connected = dev[d].connected /\ p.current = dev[d].current /\ ~p.must
      BY <1>1 DEF Pvt
    <3> HIDE DEF p
    <3>3. Fits(p)
      BY <1>1, <3>2 DEF Fits
    <3>4. locked' \in [Tty -> Dev \cup {NULL}] /\ PortsHeld'
      BY <1>1, <1>2, <3>1, <3>2, PortsKept
    <3> QED  BY <1>1, <1>2, <1>3, <2>4, <3>1, <3>2, <3>3, <3>4, VisitStep
  <2> QED  BY <1>5, <2>2, <2>3, <2>4 DEF Visit
<1> QED  BY <1>4, <1>5

LEMMA Joins ==
  ASSUME IInv, Joined
  PROVE  IInv'
<1> DEFINE d == list[pos]
           p == [dev[d] EXCEPT !.terminate = FALSE, !.thread = "none", !.owner = "discovery"]
<1>1. /\ at = "join" /\ d \in Dev /\ dev[d] \in Pvt /\ Fits(dev[d]) /\ dev[d].thread = "ended"
      /\ used.reloads = 0 => ~dev[d].must
      /\ UsedOK /\ doing \in State
  BY Facts DEF IInv, Joined, MarkedStopped, TypeOK
<1>2. dev' = [dev EXCEPT ![d] = p]
  BY DEF Joined
<1>3. p \in Pvt
  BY <1>1 DEF Pvt, Monitor
<1>4. /\ p.thread = "none" /\ p.tty = dev[d].tty /\ p.fd = dev[d].fd /\ p.must = dev[d].must
      /\ p.owner = "discovery" /\ ~p.terminate
      /\ p.connected = dev[d].connected /\ p.current = dev[d].current
  BY <1>1 DEF Pvt
<1> HIDE DEF p
<1>5. Fits(p)
  BY <1>1, <1>4 DEF Fits, HasPort
<1>6. /\ UNCHANGED <<list, freed, locked, bus, req, reload, unloading>>
      /\ UsedOK' /\ used'.reloads = used.reloads /\ doing' = doing /\ at' = "act" /\ pos' = pos
  BY <1>1, Counted DEF Joined
<1>7. locked' \in [Tty -> Dev \cup {NULL}] /\ PortsHeld'
  BY <1>1, <1>2, <1>3, <1>4, <1>6, PortsKept
<1> QED  BY <1>1, <1>2, <1>3, <1>4, <1>5, <1>6, <1>7, VisitStep

LEMMA WantingKeeps ==
  ASSUME NEW p \in Pvt
  PROVE  /\ Wanting(p) \in Pvt
         /\ Wanting(p).tty = p.tty /\ Wanting(p).fd = p.fd /\ Wanting(p).must = p.must
         /\ Wanting(p).terminate = p.terminate /\ Wanting(p).owner = p.owner
         /\ Wanting(p).connected = p.connected /\ Wanting(p).current = p.current
         /\ Wanting(p).thread = p.thread
<1> DEFINE q == [p EXCEPT !.desired = "started"]
<1>1. Wanting(p) = IF doing = "restarted" THEN q ELSE p
  BY DEF Wanting
<1>2. q \in Pvt
  BY DEF Pvt, State
<1>3. /\ q.tty = p.tty /\ q.fd = p.fd /\ q.must = p.must /\ q.terminate = p.terminate
      /\ q.owner = p.owner /\ q.connected = p.connected /\ q.current = p.current
      /\ q.thread = p.thread
  BY DEF Pvt
<1> HIDE DEF q
<1> QED  BY <1>1, <1>2, <1>3

(* What the discovery thread knows of the device it acts on.                *)
LEMMA ActFacts ==
  ASSUME IInv, at = "act"
  PROVE  /\ list[pos] \in Dev /\ dev[list[pos]] \in Pvt /\ Fits(dev[list[pos]])
         /\ dev[list[pos]].thread = "none" /\ dev[list[pos]].owner = "discovery"
         /\ dev[list[pos]].fd = "closed" /\ ~dev[list[pos]].terminate
         /\ used.reloads = 0 => ~dev[list[pos]].must
         /\ UsedOK /\ doing \in State
<1>1. list[pos] \in Dev /\ dev[list[pos]] \in Pvt
  BY Facts
<1>2. Fits(dev[list[pos]]) /\ dev[list[pos]].thread = "none" /\ dev[list[pos]].owner = "discovery"
  BY <1>1 DEF IInv, ActsAlone
<1>3. dev[list[pos]].fd = "closed"
  BY <1>1, <1>2 DEF Fits, HasPort, Pvt
<1>4. ~dev[list[pos]].terminate
  BY <1>1, NULLAssumption DEF IInv, TerminateAwaited, OnePlace
<1> QED  BY <1>1, <1>2, <1>3, <1>4 DEF IInv, MarkedStopped, TypeOK

LEMMA Acts ==
  ASSUME IInv, ActStop \/ ActRemove \/ StartFails
  PROVE  IInv'
<1> DEFINE d == list[pos]
<1>1. /\ at = "act" /\ d \in Dev /\ dev[d] \in Pvt /\ Fits(dev[d])
      /\ dev[d].thread = "none" /\ ~dev[d].terminate /\ dev[d].fd = "closed"
      /\ used.reloads = 0 => ~dev[d].must
      /\ UsedOK /\ doing \in State
  BY ActFacts DEF ActStop, ActRemove, StartFails, Starting
<1>2. /\ UNCHANGED <<list, freed, bus, req, reload, unloading>> /\ doing' = doing /\ GoOn
      /\ UsedOK' /\ used'.reloads = used.reloads
  BY <1>1, Counted DEF ActStop, ActRemove, StartFails
<1>3. /\ at' \in {"visit", "reap"}
      /\ at' = "visit" => pos' \in DOMAIN list /\ list[pos'] # list[pos]
  BY <1>1, <1>2, GoesOn
\* A device that is unlocked: with q what it was but for mark and wish.
<1>4. ASSUME NEW q \in Pvt, q.thread = dev[d].thread, q.tty = dev[d].tty, q.fd = dev[d].fd,
             q.terminate = dev[d].terminate, q.connected = dev[d].connected,
             q.current = dev[d].current, dev' = [dev EXCEPT ![d] = Unlocked(q)],
             locked' \in [Tty -> Dev \cup {NULL}],
             \A e \in Dev : dev[e].fd = "open" => locked'[dev[e].tty] = locked[dev[e].tty]
      PROVE  IInv'
  <2> DEFINE p == [q EXCEPT !.owner = NULL]
  <2>1. dev' = [dev EXCEPT ![d] = p]
    BY <1>4 DEF Unlocked
  <2>2. /\ p \in Pvt
        /\ p.thread = q.thread /\ p.tty = q.tty /\ p.fd = q.fd
        /\ p.owner = NULL /\ p.terminate = q.terminate
        /\ p.connected = q.connected /\ p.current = q.current
    BY <1>4 DEF Pvt
  <2> HIDE DEF p
  <2>3. Fits(p)
    BY <1>1, <1>4, <2>2, NULLAssumption DEF Fits
  <2>4. PortsHeld'
    <3>1. ASSUME NEW e \in Dev PROVE dev'[e].tty = dev[e].tty /\ dev'[e].fd = dev[e].fd
      BY <1>1, <1>4, <2>1, <2>2, Facts, OneSet
    <3>2. node' = node
      BY <1>2 DEF bus
    <3> QED  BY <1>4, <3>1, <3>2 DEF IInv, PortsHeld
  <2> QED  BY <1>1, <1>2, <1>3, <1>4, <2>1, <2>2, <2>3, <2>4, NULLAssumption, VisitStep
<1>5. CASE ActStop
  BY <1>1, <1>4, <1>5, Facts DEF ActStop
<1>6. CASE ActRemove
  <2> DEFINE q == [dev[d] EXCEPT !.must = TRUE]
  <2>1. dev' = [dev EXCEPT ![d] = Unlocked(q)] /\ locked' = locked
    BY <1>6 DEF ActRemove
  <2>2. /\ q \in Pvt
        /\ q.thread = dev[d].thread /\ q.tty = dev[d].tty /\ q.fd = dev[d].fd
        /\ q.terminate = dev[d].terminate
        /\ q.connected = dev[d].connected /\ q.current = dev[d].current
    BY <1>1 DEF Pvt
  <2> HIDE DEF q
  <2> QED  BY <1>4, <2>1, <2>2, Facts
<1>7. CASE StartFails
  <2> DEFINE t == dev[d].tty
  <2>1. \/ locked' = locked
        \/ LockTry(t) /\ locked' = [locked EXCEPT ![t] = NULL]
    BY <1>7 DEF StartFails
  \* A lock file that is taken away is nobody's whose port is open.
  <2>2. \A e \in Dev : dev[e].fd = "open" => locked'[dev[e].tty] = locked[dev[e].tty]
    <3>1. ASSUME NEW e \in Dev, dev[e].fd = "open", LockTry(t) PROVE dev[e].tty # t
      <4>1. locked[dev[e].tty] = e
        BY <3>1 DEF IInv, PortsHeld
      <4> QED  BY <3>1, <4>1, NULLAssumption DEF LockTry
    <3>2. ASSUME NEW e \in Dev, dev[e].fd = "open" PROVE dev[e].tty \in Tty
      BY <3>2, NULLAssumption DEF IInv, PortsHeld, TypeOK
    <3> QED  BY <2>1, <3>1, <3>2, Facts
  <2>3. locked' \in [Tty -> Dev \cup {NULL}]
    BY <2>1, Facts
  <2>4. dev' = [dev EXCEPT ![d] = Unlocked(Wanting(dev[d]))]
    BY <1>7 DEF StartFails
  <2> QED  BY <1>1, <1>4, <2>2, <2>3, <2>4, WantingKeeps
<1> QED  BY <1>5, <1>6, <1>7

LEMMA Starts ==
  ASSUME IInv, Start
  PROVE  IInv'
<1> DEFINE d == list[pos]
           t == dev[d].tty
           w == Wanting(dev[d])
           q == [w EXCEPT !.fd = "open", !.thread = "created", !.connected = TRUE,
                          !.current = "started"]
           p == [q EXCEPT !.owner = NULL]
<1>1. /\ at = "act" /\ d \in Dev /\ dev[d] \in Pvt /\ Fits(dev[d])
      /\ dev[d].thread = "none" /\ ~dev[d].terminate /\ dev[d].fd = "closed"
      /\ used.reloads = 0 => ~dev[d].must
      /\ UsedOK /\ doing \in State
  BY ActFacts DEF Start, Starting
<1>2. /\ UNCHANGED <<list, freed, bus, req, reload, unloading>> /\ doing' = doing /\ GoOn
      /\ UsedOK' /\ used'.reloads = used.reloads
  BY <1>1, Counted DEF Start
<1>3. /\ at' \in {"visit", "reap"}
      /\ at' = "visit" => pos' \in DOMAIN list /\ list[pos'] # list[pos]
  BY <1>1, <1>2, GoesOn
<1>4. /\ LockTry(t) /\ Present(t) /\ locked' = [locked EXCEPT ![t] = d]
      /\ dev' = [dev EXCEPT ![d] = p]
  BY DEF Start, Unlocked
<1>5. w \in Pvt /\ w.tty = t /\ w.must = dev[d].must /\ ~w.terminate
  BY <1>1, WantingKeeps
<1> HIDE DEF w
<1>6. /\ q \in Pvt /\ q.tty = t /\ q.must = dev[d].must /\ ~q.terminate
      /\ q.fd = "open" /\ q.thread = "created" /\ q.connected /\ q.current = "started"
  BY <1>5 DEF Pvt, Monitor
<1> HIDE DEF q
<1>7. /\ p \in Pvt /\ p.tty = t /\ p.must = dev[d].must /\ ~p.terminate
      /\ p.fd = "open" /\ p.thread = "created" /\ p.connected /\ p.current = "started"
      /\ p.owner = NULL
  BY <1>6 DEF Pvt
<1> HIDE DEF p
<1>8. Fits(p)
  BY <1>7, NULLAssumption DEF Fits, HasPort
<1>9. /\ dev' \in [Dev -> Pvt] /\ dev'[d] = p /\ \A e \in Dev \ {d} : dev'[e] = dev[e]
  BY <1>1, <1>4, <1>7, Facts, OneSet
<1>10. node # NULL /\ node.tty = t /\ t \in Tty
  BY <1>4 DEF Present, IInv, TypeOK
\* Whose port is open has the name of the modem and the lock of that name.
<1>11. \A e \in Dev : dev[e].fd # "open"
  <2> SUFFICES ASSUME NEW e \in Dev, dev[e].fd = "open" PROVE FALSE
    OBVIOUS
  <2>1. dev[e].tty = t /\ locked[t] = e
    BY <1>10 DEF IInv, PortsHeld
  <2> QED  BY <1>4, <2>1, NULLAssumption DEF LockTry
<1>12. locked' \in [Tty -> Dev \cup {NULL}] /\ locked'[t] = d
  BY <1>1, <1>4, <1>10, Facts
<1>13. PortsHeld'
  <2>1. node' = node
    BY <1>2 DEF bus
  <2> QED  BY <1>7, <1>9, <1>10, <1>11, <1>12, <2>1 DEF IInv, PortsHeld
<1> QED  BY <1>1, <1>2, <1>3, <1>4, <1>7, <1>8, <1>12, <1>13, NULLAssumption, VisitStep

LEMMA Scans ==
  ASSUME IInv, Scan
  PROVE  IInv'
<1> DEFINE lost  == known # NULL /\ known # node
           found == node # NULL /\ known # node
           cond  == IF lost THEN Condemned(known.tty) ELSE dev
<1>1. /\ at = "scan" /\ unload = "no" /\ victim = NULL
      /\ UNCHANGED <<freed, locked, node, doing, req, reload, unload, victim, gate, used>>
      /\ known' = node
  BY NULLAssumption DEF Scan, unloading, IInv, OnePlace
<1>2. /\ dev \in [Dev -> Pvt] /\ list \in Seq(Dev) /\ IsInjective(list)
      /\ \A e \in Dev : Fits(dev[e]) /\ dev[e].owner # "discovery" /\ ~dev[e].terminate
  <2>1. \A e \in Dev : dev[e].owner # "discovery"
    BY <1>1 DEF IInv, ActsAlone
  <2>2. \A e \in Dev : ~dev[e].terminate
    BY <1>1, NULLAssumption DEF IInv, TerminateAwaited
  <2> QED  BY <2>1, <2>2, Facts DEF IInv, TypeOK
<1>3. ASSUME NEW e \in Dev
      PROVE  /\ cond[e] \in Pvt
             /\ cond[e].thread = dev[e].thread /\ cond[e].tty = dev[e].tty
             /\ cond[e].fd = dev[e].fd
             /\ cond[e].owner = dev[e].owner /\ cond[e].terminate = dev[e].terminate
             /\ cond[e].connected = dev[e].connected /\ cond[e].current = dev[e].current
             /\ cond[e].must = dev[e].must
  <2> DEFINE q == [dev[e] EXCEPT !.desired = "removed"]
  <2>1. dev[e] \in Pvt /\ cond[e] \in {q, dev[e]}
    BY <1>2 DEF Condemned
  <2>2. /\ q \in Pvt
        /\ q.thread = dev[e].thread /\ q.tty = dev[e].tty /\ q.fd = dev[e].fd
        /\ q.owner = dev[e].owner /\ q.terminate = dev[e].terminate
        /\ q.connected = dev[e].connected /\ q.current = dev[e].current
        /\ q.must = dev[e].must
    BY <2>1 DEF Pvt, State
  <2> HIDE DEF q, cond
  <2> QED  BY <2>1, <2>2
<1>4. cond \in [Dev -> Pvt]
  BY <1>2, <1>3 DEF Condemned
<1>c. ASSUME NEW e \in Dev PROVE Fits(cond[e])
  <2>1. Fits(dev[e])
    BY <1>2
  <2> QED  BY <1>3, <2>1 DEF Fits
<1>5. \/ dev' = cond /\ list' = list
      \/ \E d \in Fresh : dev' = [cond EXCEPT ![d] = Created(node.tty)]
                          /\ list' = Append(list, d) /\ node # NULL
  BY DEF Scan
<1> HIDE DEF cond
\* Each device is as it was, but for what is wanted of it, or new.
<1> DEFINE AsBefore(e) ==
             /\ Fits(dev'[e]) /\ dev'[e].owner # "discovery" /\ ~dev'[e].terminate
             /\ \/ /\ dev'[e].thread = dev[e].thread /\ dev'[e].fd = dev[e].fd
                   /\ dev'[e].tty = dev[e].tty /\ dev'[e].must = dev[e].must
                \/ /\ dev'[e].thread = "none" /\ dev'[e].fd = "closed" /\ ~dev'[e].must
                   /\ e \notin freed
           Apart == /\ list' \in Seq(Dev) /\ IsInjective(list')
                    /\ \A i \in DOMAIN list' : list'[i] \notin freed
<1>6. dev' \in [Dev -> Pvt] /\ \A e \in Dev : AsBefore(e)
  <2>1. CASE dev' = cond
    BY <1>2, <1>3, <1>4, <1>c, <2>1
  <2>2. ASSUME NEW d \in Fresh, dev' = [cond EXCEPT ![d] = Created(node.tty)], node # NULL
        PROVE  dev' \in [Dev -> Pvt] /\ \A e \in Dev : AsBefore(e)
    <3>1. node.tty \in Tty /\ d \in Dev /\ d \notin freed
      BY <2>2 DEF IInv, TypeOK, Fresh
    <3> DEFINE n == Created(node.tty)
    <3>2. /\ n \in Pvt /\ n.thread = "none" /\ n.fd = "closed" /\ ~n.must /\ ~n.terminate
          /\ n.owner = NULL /\ ~n.connected /\ n.current = "stopped"
      BY <3>1 DEF Pvt, Created, State, Monitor
    <3> HIDE DEF n
    <3>3. Fits(n)
      BY <3>2, NULLAssumption DEF Fits, HasPort
    <3>5. dev' = [cond EXCEPT ![d] = n]
      BY <2>2 DEF n
    <3>6. /\ dev' \in [Dev -> Pvt] /\ dev'[d] = n
          /\ \A e \in Dev \ {d} : dev'[e] = cond[e]
      BY <1>4, <3>1, <3>2, <3>5
    <3>7. AsBefore(d)
      BY <3>1, <3>2, <3>3, <3>6, NULLAssumption
    <3>8. ASSUME NEW e \in Dev \ {d} PROVE AsBefore(e)
      <4>1. dev'[e] = cond[e]
        BY <3>6
      <4> QED  BY <1>2, <1>3, <1>c, <4>1
    <3> HIDE DEF AsBefore
    <3> QED  BY <3>6, <3>7, <3>8
  <2> QED  BY <1>5, <2>1, <2>2
<1>7. Apart
  <2>1. \A i \in DOMAIN list : list[i] \notin freed
    BY Facts DEF IInv, OnePlace
  <2>2. ASSUME NEW d \in Fresh, list' = Append(list, d) PROVE Apart
    <3>1. d \in Dev /\ d \notin freed /\ \A i \in DOMAIN list : list[i] # d
      BY Facts DEF Fresh
    <3>2. /\ list' \in Seq(Dev) /\ Len(list') = Len(list) + 1 /\ DOMAIN list' = 1..Len(list')
          /\ \A i \in 1..Len(list') : list'[i] = IF i <= Len(list) THEN list[i] ELSE d
      BY <1>2, <2>2, <3>1
    <3>3. DOMAIN list = 1..Len(list) /\ Len(list) \in Nat
      BY <1>2
    <3>4. \A i \in DOMAIN list' : i \in DOMAIN list \/ i = Len(list')
      BY <3>2, <3>3
    <3>5. IsInjective(list')
      BY <1>2, <3>1, <3>2, <3>3, <3>4 DEF IsInjective
    <3> QED  BY <2>1, <3>1, <3>2, <3>3, <3>5
  <2> QED  BY <1>2, <1>5, <2>1, <2>2
<1>8. at' \in {"reap", "visit"} /\ (at' = "visit" => pos' \in DOMAIN list')
  BY <1>7 DEF Scan
<1>9. TypeOK'
  BY <1>1, <1>6, <1>7, <1>8 DEF IInv, TypeOK, Pvt
<1>10. UsedOK' /\ OnePlace' /\ MarkedStopped'
  BY <1>1, <1>6, <1>7, <1>8, NULLAssumption
     DEF IInv, UsedOK, OnePlace, MarkedStopped, Listed, ToSet
<1>11. TerminateAwaited' /\ ActsAlone'
  <2>1. \A e \in Dev : dev'[e].owner # "discovery" /\ ~dev'[e].terminate
    BY <1>6
  <2> QED  BY <1>8, <2>1 DEF TerminateAwaited, ActsAlone
<1>12. PortsHeld' /\ StoppedBeforeFreed'
  <2>1. ASSUME NEW e \in Dev
        PROVE  \/ /\ dev'[e].thread = dev[e].thread /\ dev'[e].fd = dev[e].fd
                  /\ dev'[e].tty = dev[e].tty
               \/ dev'[e].thread = "none" /\ dev'[e].fd = "closed"
    BY <1>6
  <2> HIDE DEF AsBefore
  <2>2. PortsHeld'
    BY <1>1, <2>1 DEF IInv, PortsHeld
  <2>3. StoppedBeforeFreed'
    BY <1>1, <2>1, Facts DEF IInv, StoppedBeforeFreed
  <2> QED  BY <2>2, <2>3
<1> QED  BY <1>6, <1>9, <1>10, <1>11, <1>12 DEF IInv

(* The list that reaping leaves.                                            *)
LEMMA Reaped ==
  ASSUME IInv, Reap
  PROVE  /\ list' \in Seq(Dev) /\ IsInjective(list')
         /\ \A i \in DOMAIN list' : list'[i] \in Listed /\ ~dev[list'[i]].must
<1> DEFINE marked == {d \in Listed : dev[d].must}
           kept   == {i \in DOMAIN list : list[i] \notin marked}
           n      == Cardinality(kept)
<1>1. /\ list \in Seq(Dev) /\ Listed = {list[i] : i \in DOMAIN list}
      /\ \A i, j \in DOMAIN list : list[i] = list[j] => i = j
  BY Facts
<1>2. n \in Nat
  <2>1. DOMAIN list = 1..Len(list) /\ Len(list) \in Nat /\ kept \subseteq 1..Len(list)
    BY <1>1
  <2>2. IsFiniteSet(1..Len(list))
    BY <2>1, FS_Interval
  <2> HIDE DEF kept
  <2> QED  BY <2>1, <2>2, FS_Subset, FS_CardinalityType
<1>3. PICK f \in [1..n -> kept] :
        /\ \A i, j \in DOMAIN f : i < j => f[i] < f[j]
        /\ list' = [i \in DOMAIN f |-> list[f[i]]]
  BY DEF Reap
<1> HIDE DEF n
<1>4. \A i \in 1..n : f[i] \in DOMAIN list /\ list[f[i]] \in Listed /\ ~dev[list[f[i]]].must
  BY <1>1, <1>3
<1>5. list' = [i \in 1..n |-> list[f[i]]]
  BY <1>3
<1>6. \A i, j \in 1..n : i # j => f[i] # f[j]
  <2> SUFFICES ASSUME NEW i \in 1..n, NEW j \in 1..n, i # j PROVE f[i] # f[j]
    OBVIOUS
  <2>1. i \in Nat /\ j \in Nat /\ f[i] \in Nat /\ f[j] \in Nat
    BY <1>1, <1>2, <1>4
  <2>2. (i < j => f[i] < f[j]) /\ (j < i => f[j] < f[i])
    BY <1>3
  <2> QED  BY <2>1, <2>2
<1>7. \A i \in 1..n : list[f[i]] \in Dev
  BY <1>1, <1>4
<1>8. list' \in Seq(Dev)
  BY <1>2, <1>5, <1>7
<1>9. IsInjective(list')
  BY <1>1, <1>4, <1>5, <1>6 DEF IsInjective
<1> QED  BY <1>4, <1>5, <1>8, <1>9

LEMMA Reaps ==
  ASSUME IInv, Reap \/ DiscoveryEnds
  PROVE  IInv'
<1>1. /\ at \in {"reap", "scan"} /\ at' \in {"scan", "ended"}
      /\ UNCHANGED <<dev, locked, node, known, pos, doing, req, reload, unload, victim, gate,
                     used>>
      /\ unload \in {"no", "joining"} \/ at' = "ended"
      /\ victim = NULL
  BY DEF Reap, DiscoveryEnds, bus, unloading, IInv, OnePlace, TypeOK
<1>2. \A e \in Dev : dev[e].owner # "discovery" /\ ~dev[e].terminate
  BY <1>1, NULLAssumption DEF IInv, ActsAlone, TerminateAwaited
<1>3. /\ list' \in Seq(Dev) /\ IsInjective(list') /\ freed' \subseteq Dev
      /\ freed \subseteq freed'
      /\ \A i \in DOMAIN list' : list'[i] \notin freed'
      /\ \A d \in freed' \ freed : d \in Dev /\ dev[d].must
  <2>1. CASE Reap
    <3>1. freed' = freed \cup {d \in Listed : dev[d].must}
      BY <2>1 DEF Reap
    <3>2. Listed \subseteq Dev /\ freed \subseteq Dev /\ Listed \cap freed = {}
      BY Facts DEF IInv, OnePlace
    <3> QED  BY <2>1, <3>1, <3>2, Reaped
  <2>2. CASE DiscoveryEnds
    <3>1. list' = list /\ freed' = freed
      BY <2>2 DEF DiscoveryEnds
    <3> QED  BY <3>1, Facts DEF IInv, OnePlace, TypeOK
  <2> QED  BY <2>1, <2>2
<1>4. TypeOK'
  BY <1>1, <1>3 DEF IInv, TypeOK
<1>5. UsedOK' /\ OnePlace' /\ MarkedStopped'
  BY <1>1, <1>3, NULLAssumption DEF IInv, UsedOK, OnePlace, MarkedStopped, Listed, ToSet
<1>6. TerminateAwaited' /\ ActsAlone' /\ PortsHeld' /\ \A d \in Dev : Fits(dev'[d])
  BY <1>1, <1>2 DEF IInv, TerminateAwaited, ActsAlone, PortsHeld
\* A device that is freed was marked, and so had no monitor.
<1>7. StoppedBeforeFreed'
  <2> SUFFICES ASSUME used.reloads = 0, NEW d \in freed'
               PROVE  dev[d].thread \in {"none", "ended"} /\ dev[d].fd = "closed"
    BY <1>1 DEF StoppedBeforeFreed
  <2>1. CASE d \in freed
    BY <2>1 DEF IInv, StoppedBeforeFreed
  <2>2. CASE d \notin freed
    <3>1. d \in Dev /\ dev[d].thread = "none"
      BY <1>3, <2>2 DEF IInv, MarkedStopped
    <3> QED  BY <3>1, Facts DEF IInv, Fits, HasPort, Pvt
  <2> QED  BY <2>1, <2>2
<1> QED  BY <1>4, <1>5, <1>6, <1>7 DEF IInv

LEMMA DiscoveryNext ==
  ASSUME IInv, Discovery
  PROVE  IInv'
BY Scans, Visits, Joins, Acts, Starts, Reaps DEF Discovery

----------------------------------------------------------------------------
(* Unloading *)

LEMMA UnloadWaits ==
  ASSUME IInv, UnloadBegins \/ UnloadJoins \/ Unloaded
  PROVE  IInv'
<1>1. /\ UNCHANGED <<dev, list, freed, locked, node, known, at, pos, doing, req, reload, victim,
                     used>>
      /\ unload' = "joining" \/ (unload' \in {"destroying", "done"} /\ at = "ended")
      /\ gate' \in BOOLEAN
  BY DEF UnloadBegins, UnloadJoins, Unloaded, bus, disc, IInv, OnePlace, TypeOK
<1>2. TypeOK'
  BY <1>1 DEF IInv, TypeOK
<1>3. UsedOK' /\ OnePlace' /\ MarkedStopped' /\ StoppedBeforeFreed'
  BY <1>1 DEF IInv, UsedOK, OnePlace, MarkedStopped, Listed, StoppedBeforeFreed
<1>4. TerminateAwaited' /\ ActsAlone' /\ PortsHeld' /\ \A d \in Dev : Fits(dev'[d])
  BY <1>1 DEF IInv, TerminateAwaited, ActsAlone, PortsHeld
<1> QED  BY <1>2, <1>3, <1>4 DEF IInv

(* What keeps the invariant when unloading changes a device.                *)
LEMMA DestroyStep ==
  ASSUME IInv, NEW d \in Dev, NEW p \in Pvt, dev' = [dev EXCEPT ![d] = p],
         UNCHANGED <<locked, bus, disc, req, reload, unload, gate, used>>, at = "ended",
         list' \in Seq(Dev), IsInjective(list'), freed' \subseteq Dev, victim' \in Dev \cup {NULL},
         \A i \in DOMAIN list' : list'[i] \notin freed' /\ list'[i] # victim',
         victim' # NULL => victim' \notin freed',
         Fits(p), p.tty = dev[d].tty, p.fd = dev[d].fd, p.must = dev[d].must,
         p.owner = dev[d].owner, p.thread = dev[d].thread \/ p.thread = "none",
         p.terminate => victim' = d,
         \A e \in Dev \ {d} : victim # e \/ victim' = e,
         freed' \in {freed, freed \cup {d}},
         d \in freed' => dev[d].thread \in {"none", "ended"} \/ d \in freed
  PROVE  IInv'
<1>1. UNCHANGED <<locked, node, known, at, pos, doing, req, reload, unload, gate, used>>
  BY DEF bus, disc
<1>2. /\ dev' \in [Dev -> Pvt] /\ dev'[d] = p /\ \A e \in Dev \ {d} : dev'[e] = dev[e]
  BY Facts, OneSet
<1>3. TypeOK'
  BY <1>1, <1>2 DEF IInv, TypeOK, Pvt
<1>4. \A e \in Dev : Fits(dev'[e])
  BY <1>2 DEF IInv
<1>5. OnePlace'
  BY <1>1 DEF IInv, OnePlace, Listed, ToSet
<1>6. TerminateAwaited' /\ ActsAlone'
  BY <1>1, <1>2 DEF IInv, TerminateAwaited, ActsAlone
<1>7. PortsHeld'
  <2>1. ASSUME NEW e \in Dev PROVE dev'[e].tty = dev[e].tty /\ dev'[e].fd = dev[e].fd
    BY <1>2
  <2> QED  BY <1>1, <2>1 DEF IInv, PortsHeld
<1>8. MarkedStopped'
  BY <1>1, <1>2 DEF IInv, MarkedStopped
<1>9. StoppedBeforeFreed'
  <2>1. dev[d].thread \in {"none", "ended"} => dev[d].fd = "closed"
    BY Facts DEF IInv, Fits, HasPort, Pvt
  <2> QED  BY <1>1, <1>2, <2>1 DEF IInv, StoppedBeforeFreed
<1> QED  BY <1>1, <1>3, <1>4, <1>5, <1>6, <1>7, <1>8, <1>9 DEF IInv, UsedOK

LEMMA Destroying ==
  ASSUME IInv, Destroys \/ Destroyed
  PROVE  IInv'
<1>1. CASE Destroys
  <2> DEFINE d == Head(list)
             p == [dev[d] EXCEPT !.terminate = TRUE]
             r == IF dev[d].thread = "none" THEN dev[d] ELSE p
  <2>1. /\ list \in Seq(Dev) /\ list # <<>> /\ victim = NULL /\ at = "ended"
        /\ list' = Tail(list) /\ victim' = d
        /\ UNCHANGED <<freed, locked, bus, disc, req, reload, unload, gate, used>>
    BY <1>1, Facts DEF Destroys, IInv, OnePlace
  <2>2. /\ Len(list) \in Nat \ {0} /\ d = list[1] /\ 1 \in DOMAIN list /\ d \in Dev
        /\ Tail(list) \in Seq(Dev) /\ Len(Tail(list)) = Len(list) - 1
        /\ \A i \in 1..(Len(list) - 1) : Tail(list)[i] = list[i + 1] /\ i + 1 \in DOMAIN list
    BY <2>1
  <2>3. /\ \A i, j \in DOMAIN list : list[i] = list[j] => i = j
        /\ \A i \in DOMAIN list : list[i] \notin freed
    BY Facts DEF IInv, OnePlace
  <2>4. /\ IsInjective(list') /\ list' \in Seq(Dev)
        /\ \A i \in DOMAIN list' : list'[i] \notin freed /\ list'[i] # d
    <3>1. DOMAIN list' = 1..(Len(list) - 1)
      BY <2>1, <2>2
    <3>2. \A i \in DOMAIN list' : i \in Nat /\ i + 1 # 1 /\ list'[i] = list[i + 1]
                                  /\ i + 1 \in DOMAIN list
      BY <2>1, <2>2, <3>1
    <3>3. ASSUME NEW i \in DOMAIN list', NEW j \in DOMAIN list', list'[i] = list'[j] PROVE i = j
      <4>1. i + 1 = j + 1
        BY <2>3, <3>2, <3>3
      <4> QED  BY <3>2, <4>1
    <3>4. IsInjective(list')
      BY <3>3 DEF IsInjective
    <3> QED  BY <2>1, <2>2, <2>3, <3>2, <3>4
  <2>5. dev[d] \in Pvt /\ Fits(dev[d])
    BY <2>2, Facts DEF IInv
  <2>6. d \notin freed
    BY <2>2, <2>3
  <2>7. ~dev[d].terminate
    BY <2>1, <2>2, NULLAssumption DEF IInv, TerminateAwaited
  <2>8. /\ p \in Pvt /\ p.tty = dev[d].tty /\ p.fd = dev[d].fd /\ p.must = dev[d].must
        /\ p.owner = dev[d].owner /\ p.thread = dev[d].thread
        /\ p.connected = dev[d].connected /\ p.current = dev[d].current
    BY <2>5 DEF Pvt
  <2>9. Fits(p)
    BY <2>5, <2>8 DEF Fits
  <2>10. dev' = [dev EXCEPT ![d] = r]
    BY <1>1, <2>1, <2>2, Facts DEF Destroys
  <2> HIDE DEF p
  <2>11. /\ r \in Pvt /\ Fits(r) /\ r.tty = dev[d].tty /\ r.fd = dev[d].fd
         /\ r.must = dev[d].must /\ r.owner = dev[d].owner /\ r.thread = dev[d].thread
    BY <2>5, <2>8, <2>9
  <2> HIDE DEF r, d
  <2> QED  BY <2>1, <2>2, <2>4, <2>6, <2>10, <2>11, NULLAssumption, Facts, DestroyStep
<1>2. CASE Destroyed
  <2> DEFINE d == victim
             p == [dev[d] EXCEPT !.terminate = FALSE, !.thread = "none"]
  <2>1. /\ d \in Dev /\ d # NULL /\ at = "ended" /\ d \notin Listed /\ d \notin freed
        /\ dev[d].thread \in {"none", "ended"} /\ dev[d].owner = NULL
        /\ dev' = [dev EXCEPT ![d] = p] /\ freed' = freed \cup {d} /\ victim' = NULL
        /\ UNCHANGED <<list, locked, bus, disc, req, reload, unload, gate, used>>
    BY <1>2, Facts DEF Destroyed, IInv, OnePlace
  <2>2. dev[d] \in Pvt /\ Fits(dev[d])
    BY <2>1, Facts DEF IInv
  <2>3. /\ p \in Pvt /\ p.tty = dev[d].tty /\ p.fd = dev[d].fd /\ p.must = dev[d].must
        /\ p.owner = dev[d].owner /\ p.thread = "none" /\ ~p.terminate
        /\ p.connected = dev[d].connected /\ p.current = dev[d].current
    BY <2>2 DEF Pvt, Monitor
  <2> HIDE DEF p
  <2>4. Fits(p)
    BY <2>1, <2>2, <2>3, NULLAssumption DEF Fits, HasPort
  <2>5. /\ list' \in Seq(Dev) /\ IsInjective(list') /\ freed' \subseteq Dev
        /\ \A i \in DOMAIN list' : list'[i] \notin freed' /\ list'[i] # NULL
    BY <2>1, NULLAssumption, Facts DEF IInv, TypeOK, OnePlace
  <2> QED  BY <2>1, <2>3, <2>4, <2>5, DestroyStep
<1> QED  BY <1>1, <1>2

----------------------------------------------------------------------------
(* The theorems *)

LEMMA IInvNext == IInv /\ [Next]_vars => IInv'
<1> SUFFICES ASSUME IInv, [Next]_vars PROVE IInv'
  OBVIOUS
<1>1. CASE UNCHANGED vars
  <2>1. /\ req \in [dev : Dev, when : {"now", "later"}] \cup {NULL}
        /\ reload \in [stage : {"no", "mark", "schedule"}, todo : SUBSET Dev,
                       when : {"now", "later"}]
        /\ reload.stage # "no" => used.reloads > 0
        /\ UsedOK
    BY DEF IInv, TypeOK, MarkedStopped
  <2>2. UNCHANGED <<dev, list, freed, locked, bus, disc, unloading, req, reload, used>>
    BY <1>1 DEF vars, bus, disc, unloading
  <2> QED  BY <2>1, <2>2, Counted, IdleStep
<1>2. CASE Discovery
  BY <1>2, DiscoveryNext
<1>3. ASSUME NEW d \in Dev, MonitorGoesOn(d) \/ MonitorMay(d) PROVE IInv'
  BY <1>3, MonitorNext
<1>4. CASE RequestState \/ RequestTime
  BY <1>4, RequestNext
<1>5. CASE Reloading
  BY <1>5, ReloadNext
<1>6. CASE Plug \/ Unplug
  BY <1>6, PlugNext, UnplugNext
<1>7. CASE UnloadBegins \/ Unloading
  BY <1>7, UnloadWaits, Destroying DEF Unloading
<1> QED  BY <1>1, <1>2, <1>3, <1>4, <1>5, <1>6, <1>7 DEF Next

LEMMA Invariant == Spec => []IInv
BY InitFits, IInvNext, PTL DEF Spec

(* Every variable of the life cycle has its type; the list never holds an   *)
(* object twice, and discovery is never behind its end.                     *)
THEOREM DeviceTypeCorrect == Spec => []TypeOK
<1>1. IInv => TypeOK
  BY DEF IInv
<1> QED  BY <1>1, Invariant, PTL

(* However many devices are found, lost, asked for and reloaded: what other *)
(* threads read of a device agrees with its monitor thread, and none is     *)
(* left the wish to terminate (disconnect_dongle(), pvt_stop()).            *)
THEOREM DeviceMonitorsAgree == Spec => []MonitorsAgree
<1>1. IInv => MonitorsAgree
  BY DEF IInv, Fits, MonitorsAgree, StartedMonitored
<1> QED  BY <1>1, Invariant, PTL

(* Two devices never have the same port open, whatever names modems get     *)
(* when they come back, and only a thread that gives it back has a lock     *)
(* (opentty(), lock_try(), closetty(), ast_mutex_lock_pvt()).               *)
THEOREM DeviceLocksRight == Spec => []LocksRight
<1>1. IInv => PortExclusive
  BY DEF IInv, PortsHeld, PortExclusive
<1>2. IInv => LocksGivenBack
  BY DEF IInv, ActsAlone, Fits, Leaving, LocksGivenBack
<1> QED  BY <1>1, <1>2, Invariant, PTL DEF LocksRight

(* As long as the configuration is not reloaded, no device is freed while   *)
(* its monitor thread runs (do_discovery(), pvt_destroy()).                 *)
THEOREM DeviceStoppedBeforeFreed == Spec => []StoppedBeforeFreed
<1>1. IInv => StoppedBeforeFreed
  BY DEF IInv
<1> QED  BY <1>1, Invariant, PTL
=============================================================================
