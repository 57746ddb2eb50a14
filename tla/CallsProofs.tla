----------------------------- MODULE CallsProofs -----------------------------
(***************************************************************************)
(* Proofs about Calls, for any descriptors and any number of calls:        *)
(* nothing points to what is gone, the descriptors are counted right, no   *)
(* channel is left behind, and, as long as no call comes in and the        *)
(* connection holds, one call at a time is set up and every descriptor has *)
(* the number of its own call.                                             *)
(***************************************************************************)
EXTENDS Calls, SequenceTheorems, FiniteSetTheorems, WellFoundedInduction, TLAPS

-----------------------------------------------------------------------------
(* Sets of numbers and sequences *)

(* A set of numbers has a least one.                                        *)
LEMMA LeastExists ==
    ASSUME NEW n \in Nat, NEW S \in SUBSET (1..n), S # {}
    PROVE  \E i \in S : \A j \in S : i <= j
<1> DEFINE B == 1..n
           Below(i) == {j \in S : j < i}
           T == {Below(i) : i \in S}
<1>1. IsFiniteSet(B)
  BY FS_Interval
<1>2. FiniteSubsetsOf(B) = SUBSET B
  <2> HIDE DEF B
  <2> QED
    BY <1>1, FS_FiniteSubsetsOfFinite
<1>3. T \subseteq FiniteSubsetsOf(B) /\ T # {}
  <2>1. \A i \in S : Below(i) \in SUBSET B
    OBVIOUS
  <2>2. T \subseteq SUBSET B /\ T # {}
    <3> HIDE DEF B, Below
    <3> QED
      BY <2>1
  <2> HIDE DEF B, T
  <2> QED
    BY <1>2, <2>2
<1>4. IsWellFoundedOn(StrictSubsetOrdering(B), FiniteSubsetsOf(B))
  BY FS_StrictSubsetOrderingWellFounded
<1>5. PICK x \in T : \A y \in T : <<y, x>> \notin StrictSubsetOrdering(B)
  <2> HIDE DEF T, B
  <2> QED
    BY <1>3, <1>4, WFMin
<1>6. PICK i \in S : x = Below(i)
  BY <1>5
<1>7. ASSUME NEW j \in S, j < i
      PROVE  FALSE
  <2>1. Below(j) \subseteq Below(i) /\ j \in Below(i) /\ j \notin Below(j)
    <3>1. \A k \in S : k \in Int
      OBVIOUS
    <3>2. \A k \in S : k < j => k < i
      BY <1>7, <3>1
    <3>3. ~(j < j)
      BY <3>1
    <3> QED
      BY <1>7, <3>2, <3>3
  <2>2. <<Below(j), Below(i)>> \in StrictSubsetOrdering(B)
    <3>1. Below(i) \in SUBSET B /\ Below(j) \in SUBSET B
      OBVIOUS
    <3> HIDE DEF Below, B
    <3> QED
      BY <2>1, <3>1 DEF StrictSubsetOrdering
  <2> QED
    BY <2>2, <1>5, <1>6
<1> QED
  BY <1>7

(* An urgent task is behind the first.                                      *)
LEMMA UrgentTyped ==
    ASSUME NEW T, NEW s \in Seq(T), NEW t \in T
    PROVE  Urgent(s, t) \in Seq(T)
  BY DEF Urgent

LEMMA SeqOfElements ==
    ASSUME NEW T, NEW n \in Nat, NEW f, f = [i \in 1..n |-> f[i]],
           \A i \in 1..n : f[i] \in T
    PROVE  f \in Seq(T)
<1>1. f \in [1..n -> T]
  OBVIOUS
<1> QED
  BY <1>1

LEMMA TailOf ==
    ASSUME NEW T, NEW q \in Seq(T), q # <<>>, Len(q) # 1
    PROVE  /\ Tail(q) \in Seq(T) /\ Tail(q) # <<>>
           /\ \A j \in DOMAIN Tail(q) : j + 1 \in DOMAIN q /\ Tail(q)[j] = q[j + 1]
<1>1. Len(q) \in Nat /\ Len(q) > 1
  <2>1. Len(q) \in Nat \ {0}
    BY EmptySeq, Zenon
  <2>2. \A n \in Nat \ {0} : n # 1 => n > 1
    OBVIOUS
  <2> QED
    BY <2>1, <2>2, Zenon
<1>2. Tail(q) \in Seq(T) /\ Len(Tail(q)) = Len(q) - 1
  BY <1>1
<1>3. \A j \in 1..(Len(q) - 1) : Tail(q)[j] = q[j + 1]
  BY <1>1
<1>4. DOMAIN q = 1..Len(q) /\ DOMAIN Tail(q) = 1..(Len(q) - 1)
  BY <1>1, <1>2
<1> QED
  BY <1>1, <1>2, <1>3, <1>4

LEMMA SeqMonotone ==
    ASSUME NEW S, NEW T, S \subseteq T, NEW s \in Seq(S)
    PROVE  s \in Seq(T)
  OBVIOUS

-----------------------------------------------------------------------------
(* The inductive invariant *)

CmdSet == [cmd : Commands, idx : 0..MaxIdx]
TaskSet == [cpvt : Cpvt \union {SysChan}, cmds : Seq(CmdSet)]
Heard == Event0 \cup [ev : {"CLCC"}, calls : Seq(Line)]

(* The types of what the driver keeps, and of what the modem does.          *)
DriverTyped ==
    /\ st \in [Cpvt -> CallState \cup {"unused", "freed"}]
    /\ idx \in [Cpvt -> 0..MaxIdx]
    /\ dir \in [Cpvt -> {"in", "out"}]
    /\ hold \in [Cpvt -> BOOLEAN] /\ need \in [Cpvt -> BOOLEAN]
    /\ chan \in [Cpvt -> BOOLEAN]
    /\ phase \in [Cpvt -> Phase]
    /\ tech \in [Cpvt -> BOOLEAN] /\ asked \in [Cpvt -> BOOLEAN]
    /\ bits \subseteq {"dialing", "ring", "cwaiting"}
    /\ last \in Cpvt \cup {NULL}
    /\ count \in [CallState -> Int]
    /\ selectbusy \in BOOLEAN /\ up \in BOOLEAN /\ stale \in BOOLEAN
    /\ drops \in 0..MaxDrops
ModemTyped ==
    /\ incoming \in 0..MaxIncoming
    /\ todo \in Seq(Line)
    /\ call \in [Idx -> (CallState \ {"INIT"}) \cup {"none", "calling"}]
    /\ whose \in [Idx -> Cpvt \cup {SysChan, NULL}]
    /\ line \in Seq(Heard)

(* A task has commands left, its owner is live, and it dials only for an    *)
(* outgoing call.                                                           *)
Dials(t) == \E j \in DOMAIN t.cmds : t.cmds[j].cmd = "D"
Right ==
    {t \in TaskSet : /\ t.cmds # <<>>
                     /\ t.cpvt \in Live \union {SysChan}
                     /\ Dials(t) /\ t.cpvt # SysChan => dir[t.cpvt] = "out"}
QueueRight == tasks \in Seq(Right)

(* Before it is requested a channel has no descriptor; one that is to be    *)
(* called is outgoing.                                                      *)
PhasesRight ==
    \A c \in Cpvt : /\ phase[c] \in {"none", "selected"} => st[c] = "unused"
                    /\ phase[c] = "down" => dir[c] = "out"

Core == PhasesRight /\ LinksMatch /\ LastDialedLive /\ QueueRight /\ CountsMatch

IInv == DriverTyped /\ ModemTyped /\ Core

LEMMA InvariantImplies == IInv => TypeOK /\ NothingDangles
<1> SUFFICES ASSUME IInv PROVE TypeOK /\ NothingDangles
  OBVIOUS
<1>1. tasks \in Seq(TaskSet)
  BY SeqMonotone DEF IInv, Core, QueueRight, Right
<1>2. TypeOK
  BY <1>1 DEF IInv, DriverTyped, ModemTyped, TypeOK, TaskSet, CmdSet, Heard
<1>3. OwnersLive
  <2>1. \A k \in 1..Len(tasks) : tasks[k] \in Right
    BY DEF IInv, Core, QueueRight
  <2> QED
    BY <2>1 DEF Right, OwnersLive
<1> QED
  BY <1>2, <1>3 DEF IInv, Core, NothingDangles

LEMMA InitHolds == Init => IInv
<1> SUFFICES ASSUME Init PROVE IInv
  OBVIOUS
<1>1. DriverTyped
  <2>1. 0 \in 0..MaxIdx /\ 0 \in 0..MaxDrops /\ 0 \in Int
    BY BoundAssumption
  <2> QED
    BY <2>1 DEF Init, DriverTyped, Phase
<1>5. ModemTyped
  BY BoundAssumption DEF Init, ModemTyped, Idx
<1>2. Live = {} /\ tasks = <<>> /\ last = NULL
  BY DEF Init, Live, CallState
<1>3. PhasesRight /\ LinksMatch /\ LastDialedLive /\ QueueRight
  BY <1>2 DEF Init, PhasesRight, LinksMatch, LastDialedLive, QueueRight
<1>4. CountsMatch
  BY <1>2, FS_EmptySet DEF Init, CountsMatch, In
<1> QED
  BY <1>1, <1>3, <1>4, <1>5 DEF IInv, Core

-----------------------------------------------------------------------------
(* Tasks *)

LEMMA CommandsTyped ==
    /\ \A name \in Commands : \A i \in 0..MaxIdx : Cmd(name, i) \in CmdSet
    /\ CLCC \in CmdSet /\ CHUP \in CmdSet
    /\ CLCC.cmd = "CLCC" /\ CHUP.cmd = "CHUP"
<1>1. \A name \in Commands : \A i \in 0..MaxIdx : Cmd(name, i) \in CmdSet
  BY DEF Cmd, CmdSet
<1>2. 0 \in 0..MaxIdx
  BY BoundAssumption
<1>3. "CLCC" \in Commands /\ "CHUP" \in Commands
  BY DEF Commands
<1> QED
  BY <1>1, <1>2, <1>3 DEF CLCC, CHUP, Cmd

(* A task of nobody in particular, and one of a live descriptor.            *)
LEMMA SysTask ==
    ASSUME NEW cmds \in Seq(CmdSet), cmds # <<>>
    PROVE  Task(SysChan, cmds) \in Right
  BY DEF Task, Right, TaskSet

LEMMA OwnTask ==
    ASSUME NEW c \in Live, NEW cmds \in Seq(CmdSet), cmds # <<>>,
           dir[c] = "out" \/ \A j \in DOMAIN cmds : cmds[j].cmd # "D"
    PROVE  Task(c, cmds) \in Right
  BY DEF Task, Right, TaskSet, Dials, Live

LEMMA WithClccRight ==
    ASSUME NEW list \in Seq(Right)
    PROVE  WithClcc(list) \in Seq(Right)
<1>1. <<CLCC>> \in Seq(CmdSet) /\ <<CLCC>> # <<>>
  BY CommandsTyped
<1> QED
  BY <1>1, SysTask, UrgentTyped DEF WithClcc

-----------------------------------------------------------------------------
(* Steps of the modem *)

LEMMA RightStays ==
    ASSUME UNCHANGED <<st, dir>>
    PROVE  Live' = Live /\ Right' = Right /\ \A S : In(S)' = In(S)
<1>1. Live' = Live
  BY DEF Live
<1>2. Right' = Right
  BY <1>1 DEF Right
<1> QED
  BY <1>1, <1>2 DEF In

LEMMA CoreStays ==
    ASSUME Core, UNCHANGED <<st, dir, chan, phase, tech, last, count, tasks>>
    PROVE  Core'
<1>1. Live' = Live /\ Right' = Right /\ \A S : In(S)' = In(S)
  BY RightStays
<1>2. PhasesRight' /\ LinksMatch' /\ LastDialedLive'
  BY <1>1 DEF Core, PhasesRight, LinksMatch, LastDialedLive
<1>3. QueueRight' /\ CountsMatch'
  BY <1>1 DEF Core, QueueRight, CountsMatch
<1> QED
  BY <1>2, <1>3 DEF Core

LEMMA DriverStays ==
    ASSUME DriverTyped, UNCHANGED <<desc, astvars, driver, stale>>
    PROVE  DriverTyped'
  BY DEF DriverTyped, desc, astvars, driver

(* What the modem does leaves the driver as it is.                          *)
LEMMA ModemStep ==
    ASSUME IInv, UNCHANGED <<desc, astvars, driver, tasks, stale>>, ModemTyped'
    PROVE  IInv'
<1>1. UNCHANGED <<st, dir, chan, phase, tech, last, count, tasks>>
  BY DEF desc, astvars, driver
<1> QED
  BY <1>1, CoreStays, DriverStays DEF IInv

LEMMA EventsTyped ==
    /\ \A name \in {"OK", "ERROR", "ORIG", "CONN", "CEND", "RING", "CCWA"} :
          \A i \in 0..MaxIdx : Ev(name, i) \in Heard
    /\ OK \in Heard
    /\ \A i \in Idx : i \in 0..MaxIdx
<1>1. \A name \in {"OK", "ERROR", "ORIG", "CONN", "CEND", "RING", "CCWA"} :
          \A i \in 0..MaxIdx : Ev(name, i) \in Heard
  BY DEF Ev, Heard, Event0
<1>2. 0 \in 0..MaxIdx /\ \A i \in Idx : i \in 0..MaxIdx
  BY BoundAssumption DEF Idx
<1> QED
  BY <1>1, <1>2 DEF OK

(* An answer to AT+CLCC.                                                    *)
LEMMA ListTyped ==
    ASSUME ModemTyped, NEW f \in [1..Cardinality(Told) -> Told]
    PROVE  [ev |-> "CLCC", calls |-> [k \in DOMAIN f |-> LineOf(f[k])]] \in Heard
<1>1. \A i \in Told : LineOf(i) \in Line
  <2>1. \A i \in Told : i \in Idx /\ call[i] \in CallState
    BY DEF Told, ModemTyped
  <2> QED
    BY <2>1 DEF LineOf, Line
<1>2. Cardinality(Told) \in Nat
  <2>1. Told \subseteq 1..MaxIdx /\ IsFiniteSet(1..MaxIdx)
    BY BoundAssumption, FS_Interval DEF Told, Idx
  <2> QED
    BY <2>1, FS_Subset, FS_CardinalityType
<1>3. [k \in DOMAIN f |-> LineOf(f[k])] \in Seq(Line)
  BY <1>1, <1>2
<1> QED
  BY <1>3 DEF Heard

LEMMA WorksKeeps == IInv /\ ModemWorks => IInv'
<1> SUFFICES ASSUME IInv, ModemWorks PROVE IInv'
  OBVIOUS
<1> USE DEF IInv
<1>1. /\ UNCHANGED <<desc, astvars, driver, tasks, todo, incoming, stale>>
      /\ tasks # <<>>
  BY DEF ModemWorks, Refuse, DoDial, DoList, DoSwap, DoAnswer, DoHangup, Works
<1>2. \A name \in {"OK", "ERROR", "ORIG", "CONN", "CEND", "RING", "CCWA"} :
          \A i \in Idx : <<Ev(name, i)>> \in Seq(Heard)
  BY EventsTyped
<1>3. ASSUME NEW a \in Seq(Heard), line' = line \o a,
             call' \in [Idx -> (CallState \ {"INIT"}) \cup {"none", "calling"}],
             whose' \in [Idx -> Cpvt \cup {SysChan, NULL}]
      PROVE  IInv'
  <2>1. line' \in Seq(Heard)
    BY <1>3 DEF ModemTyped
  <2>2. ModemTyped'
    BY <1>1, <1>3, <2>1 DEF ModemTyped
  <2> QED
    BY <1>1, <2>2, ModemStep
<1>4. HeadTask.cpvt \in Cpvt \union {SysChan}
  <2>1. HeadTask \in Right
    BY <1>1 DEF Core, QueueRight, HeadTask
  <2> QED
    BY <2>1 DEF Right, TaskSet
<1>5. call \in [Idx -> (CallState \ {"INIT"}) \cup {"none", "calling"}]
      /\ whose \in [Idx -> Cpvt \cup {SysChan, NULL}]
  BY DEF ModemTyped
<1>6. <<OK>> \in Seq(Heard)
  BY EventsTyped
<1>7. CASE Refuse
  <2>1. UNCHANGED <<call, whose>> /\ line' = line \o <<Ev("ERROR", 0)>>
    BY <1>7 DEF Refuse, Says
  <2>2. <<Ev("ERROR", 0)>> \in Seq(Heard)
    BY EventsTyped, BoundAssumption
  <2> QED
    BY <1>3, <1>5, <2>1, <2>2
<1>8. CASE DoDial
  <2>1. PICK i \in Unused : /\ call' = [call EXCEPT ![i] = "calling"]
                            /\ whose' = [whose EXCEPT ![i] = HeadTask.cpvt]
    BY <1>8 DEF DoDial
  <2>2. line' = line \o <<OK>>
    BY <1>8 DEF DoDial, Says
  <2>3. call' \in [Idx -> (CallState \ {"INIT"}) \cup {"none", "calling"}]
        /\ whose' \in [Idx -> Cpvt \cup {SysChan, NULL}]
    BY <1>4, <1>5, <2>1
  <2> QED
    BY <1>3, <1>6, <2>2, <2>3
<1>9. CASE DoList
  <2>1. PICK f \in [1..Cardinality(Told) -> Told] :
            line' = line \o ((IF Told = {} THEN <<>>
                   ELSE <<[ev |-> "CLCC", calls |-> [k \in DOMAIN f |-> LineOf(f[k])]]>>) \o <<OK>>)
    BY <1>9 DEF DoList, Says
  <2>2. [ev |-> "CLCC", calls |-> [k \in DOMAIN f |-> LineOf(f[k])]] \in Heard
    BY ListTyped
  <2> DEFINE e == [ev |-> "CLCC", calls |-> [k \in DOMAIN f |-> LineOf(f[k])]]
             a == (IF Told = {} THEN <<>> ELSE <<e>>) \o <<OK>>
  <2>3. a \in Seq(Heard)
    <3>1. e \in Heard
      BY <2>2
    <3> HIDE DEF e
    <3>2. (IF Told = {} THEN <<>> ELSE <<e>>) \in Seq(Heard)
      BY <3>1
    <3> QED
      BY <3>2, <1>6
  <2>4. UNCHANGED <<call, whose>>
    BY <1>9 DEF DoList
  <2>5. line' = line \o a
    BY <2>1
  <2> HIDE DEF a
  <2> QED
    BY <1>3, <1>5, <2>3, <2>4, <2>5
<1>10. CASE DoSwap
  <2>1. /\ call' = [i \in Idx |-> CASE call[i] = "ACTIVE" -> "ONHOLD"
                                    [] call[i] = "ONHOLD" -> "ACTIVE"
                                    [] OTHER -> call[i]]
        /\ line' = line \o <<OK>> /\ whose' = whose
    BY <1>10 DEF DoSwap, Says
  <2>2. call' \in [Idx -> (CallState \ {"INIT"}) \cup {"none", "calling"}]
    BY <1>5, <2>1 DEF CallState
  <2> QED
    BY <1>3, <1>5, <1>6, <2>1, <2>2
<1>11. CASE DoAnswer
  <2>1. whose' = whose
    BY <1>11 DEF DoAnswer
  <2>2. \/ \E i \in Idx : /\ call' = [call EXCEPT ![i] = "ACTIVE"]
                          /\ line' = line \o <<Ev("CONN", i), OK>>
        \/ \E i \in Idx :
              /\ call' = [j \in Idx |-> CASE j = i -> "ACTIVE"
                                          [] j # i /\ call[j] = "ACTIVE" -> "ONHOLD"
                                          [] OTHER -> call[j]]
              /\ line' = line \o (IF call[i] = "WAITING" THEN <<Ev("CONN", i), OK>> ELSE <<OK>>)
    BY <1>11, Zenon DEF DoAnswer, Says
  <2>3. \A i \in Idx : <<Ev("CONN", i), OK>> \in Seq(Heard)
    BY EventsTyped
  <2>4. call' \in [Idx -> (CallState \ {"INIT"}) \cup {"none", "calling"}]
    BY <1>5, <2>2 DEF CallState
  <2>5. \E a \in Seq(Heard) : line' = line \o a
    BY <1>6, <2>2, <2>3
  <2> QED
    BY <1>3, <1>5, <2>1, <2>4, <2>5
<1>12. CASE DoHangup
  <2>1. whose' = whose
    BY <1>12 DEF DoHangup
  <2>2. \/ line' = line \o <<OK>>
        \/ \E i \in Idx : line' = line \o <<OK, Ev("CEND", i)>>
    BY <1>12 DEF DoHangup, Says, Foreground
  <2>3. call' = call \/ \E i \in Idx : call' = [call EXCEPT ![i] = "none"]
    BY <1>12 DEF DoHangup, Foreground
  <2>4. \A i \in Idx : <<OK, Ev("CEND", i)>> \in Seq(Heard)
    BY EventsTyped
  <2>5. \E a \in Seq(Heard) : line' = line \o a
    BY <1>6, <2>2, <2>4
  <2>6. call' \in [Idx -> (CallState \ {"INIT"}) \cup {"none", "calling"}]
    BY <1>5, <2>3
  <2> QED
    BY <1>3, <1>5, <2>1, <2>5, <2>6
<1> QED
  BY <1>7, <1>8, <1>9, <1>10, <1>11, <1>12 DEF ModemWorks

LEMMA SpeaksKeeps == IInv /\ ModemSpeaks => IInv'
<1> SUFFICES ASSUME IInv, NEW i \in Idx,
                    Originates(i) \/ RemoteAnswers(i) \/ RemoteEnds(i) \/ Arrives(i) \/ Rings(i)
             PROVE  IInv'
  BY DEF ModemSpeaks
<1> USE DEF IInv
<1>1. UNCHANGED <<desc, astvars, driver, tasks, todo, stale>>
  BY DEF Originates, RemoteAnswers, RemoteEnds, Arrives, Rings, Unasked
<1>2. \/ call' = [call EXCEPT ![i] = "DIALING"]
      \/ call' = [call EXCEPT ![i] = "ACTIVE"]
      \/ call' = [call EXCEPT ![i] = "none"]
      \/ call' = [call EXCEPT ![i] = "INCOMING"]
      \/ call' = [call EXCEPT ![i] = "WAITING"]
  BY DEF Originates, RemoteAnswers, RemoteEnds, Arrives, Rings
<1>3. line' = line \/ \E name \in {"ORIG", "CONN", "CEND", "RING", "CCWA"} :
                          line' = line \o <<Ev(name, i)>>
  BY DEF Originates, RemoteAnswers, RemoteEnds, Arrives, Rings, Tells, Says
<1>4. whose' = whose \/ whose' = [whose EXCEPT ![i] = NULL]
  BY DEF Originates, RemoteAnswers, RemoteEnds, Arrives, Rings
<1>5. incoming' = incoming \/ (incoming < MaxIncoming /\ incoming' = incoming + 1)
  BY DEF Originates, RemoteAnswers, RemoteEnds, Arrives, Rings
<1>6. call' \in [Idx -> (CallState \ {"INIT"}) \cup {"none", "calling"}]
  BY <1>2 DEF ModemTyped, CallState
<1>7. line' \in Seq(Heard)
  <2>2. line \in Seq(Heard)
    BY DEF ModemTyped
  <2>1. \A name \in {"ORIG", "CONN", "CEND", "RING", "CCWA"} : <<Ev(name, i)>> \in Seq(Heard)
    BY EventsTyped
  <2>3. \A s, t \in Seq(Heard) : s \o t \in Seq(Heard)
    BY ConcatProperties
  <2> QED
    BY <1>3, <2>1, <2>2, <2>3, Zenon
<1>8. whose' \in [Idx -> Cpvt \cup {SysChan, NULL}] /\ incoming' \in 0..MaxIncoming
  BY <1>4, <1>5, BoundAssumption DEF ModemTyped
<1>9. ModemTyped'
  BY <1>1, <1>6, <1>7, <1>8 DEF ModemTyped
<1> QED
  BY <1>1, <1>9, ModemStep

-----------------------------------------------------------------------------
(* Descriptors *)

(* A descriptor that goes from one state to another takes its count along.  *)
LEMMA CountMoves ==
    ASSUME DriverTyped, CountsMatch, NEW c \in Cpvt, NEW s \in CallState \union {"freed"},
           st' = [st EXCEPT ![c] = s],
           \A x \in CallState : count'[x] = count[x] - (IF st[c] = x THEN 1 ELSE 0)
                                                     + (IF s = x THEN 1 ELSE 0)
    PROVE  CountsMatch'
<1> SUFFICES ASSUME NEW x \in CallState
             PROVE  count'[x] = Cardinality(In({x}))'
  BY DEF CountsMatch
<1> DEFINE A == In({x})
           B == A \ {c}
<1>1. A = {d \in Cpvt : st[d] = x}
  BY DEF In, Live
<1>2. In({x})' = {d \in Cpvt : st'[d] = x}
  BY DEF In, Live
<1>3. In({x})' = IF s = x THEN B \union {c} ELSE B
  <2>1. \A d \in Cpvt : st'[d] = IF d = c THEN s ELSE st[d]
    BY DEF DriverTyped
  <2>2. c \in Cpvt
    OBVIOUS
  <2>3. In({x})' = {d \in Cpvt : (IF d = c THEN s ELSE st[d]) = x}
    BY <1>2, <2>1
  <2>4. \A d : d \in In({x})' <=> d \in Cpvt /\ (IF d = c THEN s = x ELSE st[d] = x)
    BY <2>3
  <2>5. \A d : d \in B <=> d \in Cpvt /\ d # c /\ st[d] = x
    BY <1>1
  <2> HIDE DEF B
  <2>6. CASE s = x
    BY <2>2, <2>4, <2>5, <2>6
  <2>7. CASE s # x
    BY <2>2, <2>4, <2>5, <2>7
  <2> QED
    BY <2>6, <2>7
<1>4. st[c] = x <=> c \in A
  BY <1>1
<1>5. IsFiniteSet(A) /\ IsFiniteSet(B)
  BY <1>1, CpvtAssumption, FS_Subset
<1>6. count[x] = Cardinality(A) /\ Cardinality(A) \in Nat /\ Cardinality(B) \in Nat
  BY <1>5, FS_CardinalityType DEF CountsMatch
<1>7. Cardinality(B) = Cardinality(A) - (IF st[c] = x THEN 1 ELSE 0)
  <2>1. CASE c \in A
    <3>1. Cardinality(B) = Cardinality(A) - 1
      <4> HIDE DEF A
      <4> QED
        BY <1>5, <2>1, FS_RemoveElement
    <3> HIDE DEF A, B
    <3> QED
      BY <1>4, <2>1, <3>1
  <2>2. CASE c \notin A
    <3>1. B = A
      BY <2>2
    <3> HIDE DEF A, B
    <3> QED
      BY <1>4, <1>6, <2>2, <3>1
  <2> QED
    BY <2>1, <2>2
<1>8. Cardinality(B \union {c}) = Cardinality(B) + 1
  <2>1. c \notin B
    OBVIOUS
  <2> HIDE DEF B
  <2> QED
    BY <1>5, <2>1, FS_AddElement
<1> HIDE DEF A, B
<1> QED
  BY <1>3, <1>6, <1>7, <1>8

LEMMA LiveMoves ==
    ASSUME DriverTyped, NEW c \in Cpvt, NEW s, st' = [st EXCEPT ![c] = s]
    PROVE  Live' = IF s \in CallState THEN Live \union {c} ELSE Live \ {c}
  BY DEF DriverTyped, Live

(* Tasks stay right while their owners live and call out.                   *)
LEMMA RightGrows ==
    ASSUME Live \subseteq Live', \A c \in Live : dir'[c] = dir[c]
    PROVE  Right \subseteq Right'
  BY DEF Right

LEMMA ChangedKeeps ==
    ASSUME IInv, NEW c \in Live, NEW s \in CallState, Changed(c, s),
           UNCHANGED <<dir, chan, phase, tech>>, last' \in {last, NULL},
           tasks' \in Seq(Right)
    PROVE  /\ st' \in [Cpvt -> CallState \cup {"unused", "freed"}]
           /\ count' \in [CallState -> Int]
           /\ Core'
<1> USE DEF IInv, Core
<1>1. c \in Cpvt /\ st[c] \in CallState
  BY DEF Live
<1>2. st' = [st EXCEPT ![c] = s] /\ count' = [count EXCEPT ![st[c]] = @ - 1, ![s] = @ + 1]
  BY DEF Changed
<1>3. st' \in [Cpvt -> CallState \cup {"unused", "freed"}] /\ count' \in [CallState -> Int]
  BY <1>1, <1>2 DEF DriverTyped
<1>4. \A x \in CallState : count'[x] = count[x] - (IF st[c] = x THEN 1 ELSE 0)
                                                + (IF s = x THEN 1 ELSE 0)
  BY <1>1, <1>2 DEF DriverTyped
<1>5. CountsMatch'
  <2>1. s \in CallState \union {"freed"} /\ DriverTyped /\ CountsMatch
    OBVIOUS
  <2> QED
    BY <1>1, <1>2, <1>4, <2>1, CountMoves
<1>6. Live' = Live
  BY <1>1, <1>2, LiveMoves
<1>7. QueueRight'
  BY <1>6, RightGrows, SeqMonotone DEF QueueRight
<1>8. PhasesRight'
  BY <1>1, <1>2 DEF PhasesRight, DriverTyped, CallState
<1>9. LinksMatch' /\ LastDialedLive'
  BY <1>6 DEF LinksMatch, LastDialedLive
<1> QED
  BY <1>3, <1>5, <1>7, <1>8, <1>9

LEMMA NewChannelKeeps ==
    ASSUME IInv, NEW c \in Cpvt, NEW i \in 0..MaxIdx, NEW d \in {"in", "out"},
           NEW s \in CallState, NEW flag \in BOOLEAN, NEW ph \in {"down", "ring"},
           NewChannel(c, i, d, s, flag, ph),
           phase[c] \in {"none", "selected"}, ph = "down" => d = "out",
           UNCHANGED <<hold, asked, last, up, drops, stale, tasks>>,
           bits' \subseteq {"dialing", "ring", "cwaiting"}, selectbusy' \in BOOLEAN
    PROVE  DriverTyped' /\ Core'
<1> USE DEF IInv, Core
<1>1. /\ st' = [st EXCEPT ![c] = s] /\ idx' = [idx EXCEPT ![c] = i]
      /\ dir' = [dir EXCEPT ![c] = d] /\ need' = [need EXCEPT ![c] = flag]
      /\ chan' = [chan EXCEPT ![c] = TRUE] /\ phase' = [phase EXCEPT ![c] = ph]
      /\ tech' = [tech EXCEPT ![c] = TRUE] /\ count' = [count EXCEPT ![s] = @ + 1]
  BY DEF NewChannel
<1>2. DriverTyped'
  BY <1>1 DEF DriverTyped, Phase
<1>3. st[c] = "unused" /\ c \notin Live
  BY DEF PhasesRight, Live, CallState
<1>4. \A x \in CallState : count'[x] = count[x] - (IF st[c] = x THEN 1 ELSE 0)
                                                + (IF s = x THEN 1 ELSE 0)
  BY <1>1, <1>3 DEF DriverTyped, CallState
<1>5. CountsMatch'
  <2>1. s \in CallState \union {"freed"} /\ DriverTyped /\ CountsMatch
    OBVIOUS
  <2> QED
    BY <1>1, <1>4, <2>1, CountMoves
<1>6. Live' = Live \union {c}
  BY <1>1, LiveMoves
<1>7. QueueRight'
  <2>1. \A x \in Live : dir'[x] = dir[x]
    BY <1>1, <1>3 DEF DriverTyped, Live
  <2> QED
    BY <1>6, <2>1, RightGrows, SeqMonotone DEF QueueRight
<1>8. PhasesRight' /\ LinksMatch'
  BY <1>1, <1>6 DEF PhasesRight, LinksMatch, DriverTyped
<1>9. LastDialedLive'
  BY <1>1, <1>3, <1>6 DEF LastDialedLive, DriverTyped
<1> QED
  BY <1>2, <1>5, <1>7, <1>8, <1>9

(* The number of a new descriptor is one of the modem's, or 0.              *)
LEMMA PseudoIdxTyped == PseudoIdx \in 0..MaxIdx
<1> DEFINE free == Idx \ {idx[c] : c \in Live}
<1>1. CASE free = {}
  BY <1>1, BoundAssumption DEF PseudoIdx
<1>2. CASE free # {}
  <2>1. free \in SUBSET (1..MaxIdx) /\ MaxIdx \in Nat
    BY BoundAssumption DEF Idx
  <2>2. \E i \in free : \A j \in free : i <= j
    <3> HIDE DEF free
    <3> QED
      BY <1>2, <2>1, LeastExists
  <2>3. PseudoIdx = CHOOSE i \in free : \A j \in free : i <= j
    BY <1>2 DEF PseudoIdx
  <2>4. PseudoIdx \in free
    <3> HIDE DEF free
    <3> QED
      BY <2>2, <2>3
  <2> QED
    BY <2>1, <2>4
<1> QED
  BY <1>1, <1>2

(* The tasks of a descriptor that is freed go to sys_chan.                  *)
LEMMA RelinkedRight ==
    ASSUME NEW c \in Live, NEW list \in Seq(Right), Live' = Live \ {c},
           \A x \in Live \ {c} : dir'[x] = dir[x]
    PROVE  Relinked(list, c) \in Seq(Right')
<1>1. \A t \in Right : t.cpvt # c => t \in Right'
  BY DEF Right
<1>2. \A t \in Right : Task(SysChan, t.cmds) \in Right'
  BY DEF Right, Task, TaskSet
<1>3. \A i \in DOMAIN list : list[i] \in Right
  OBVIOUS
<1>4. \A i \in DOMAIN list : Relinked(list, c)[i] \in Right'
  BY <1>1, <1>2, <1>3 DEF Relinked
<1>5. DOMAIN list = 1..Len(list) /\ Len(list) \in Nat
  OBVIOUS
<1>6. Relinked(list, c) = [i \in 1..Len(list) |-> Relinked(list, c)[i]]
  BY <1>5 DEF Relinked
<1> QED
  BY <1>4, <1>5, <1>6, SeqOfElements

LEMMA ReleasedKeeps ==
    ASSUME IInv, NEW c \in Live, NEW list \in Seq(Right), Released(c, bits, list),
           UNCHANGED <<selectbusy, up, drops, stale>>
    PROVE  DriverTyped' /\ Core'
<1> USE DEF IInv, Core
<1>1. /\ st' = [st EXCEPT ![c] = "freed"] /\ need' = [need EXCEPT ![c] = FALSE]
      /\ chan' = [chan EXCEPT ![c] = FALSE]
      /\ tech' = [tech EXCEPT ![c] = @ /\ ~chan[c]]
      /\ asked' = [asked EXCEPT ![c] = @ \/ chan[c]]
      /\ last' = IF last = c THEN NULL ELSE last
      /\ count' = [count EXCEPT ![st[c]] = @ - 1]
      /\ tasks' = Relinked(list, c) /\ phase' = phase
  BY DEF Released
<1>2. /\ idx' = [x \in Cpvt |-> IF x = c THEN 0 ELSE idx[x]]
      /\ dir' = [x \in Cpvt |-> IF x = c THEN "out" ELSE dir[x]]
      /\ hold' = [x \in Cpvt |-> IF x = c THEN FALSE ELSE hold[x]]
  BY DEF Released, Forgotten
<1>3. c \in Cpvt /\ st[c] \in CallState /\ c # NULL
  BY CpvtAssumption DEF Live
<1>4. bits' \subseteq bits
  BY DEF Released, BitsAfter
<1>5. DriverTyped'
  <2>1. idx' \in [Cpvt -> 0..MaxIdx]
    BY <1>2, BoundAssumption DEF DriverTyped
  <2>2. tech' \in [Cpvt -> BOOLEAN] /\ asked' \in [Cpvt -> BOOLEAN]
    BY <1>1, <1>3, Zenon DEF DriverTyped
  <2>3. st' \in [Cpvt -> CallState \cup {"unused", "freed"}]
    BY <1>1, <1>3 DEF DriverTyped
  <2>4. count' \in [CallState -> Int]
    BY <1>1, <1>3 DEF DriverTyped
  <2>5. dir' \in [Cpvt -> {"in", "out"}] /\ hold' \in [Cpvt -> BOOLEAN]
        /\ need' \in [Cpvt -> BOOLEAN] /\ chan' \in [Cpvt -> BOOLEAN]
    BY <1>1, <1>2, <1>3 DEF DriverTyped
  <2> QED
    BY <1>1, <1>4, <2>1, <2>2, <2>3, <2>4, <2>5 DEF DriverTyped
<1>6. \A x \in CallState : count'[x] = count[x] - (IF st[c] = x THEN 1 ELSE 0)
                                                + (IF "freed" = x THEN 1 ELSE 0)
  BY <1>1, <1>3 DEF DriverTyped, CallState
<1>7. CountsMatch'
  <2>1. "freed" \in CallState \union {"freed"} /\ DriverTyped /\ CountsMatch
    OBVIOUS
  <2> QED
    BY <1>1, <1>3, <1>6, <2>1, CountMoves
<1>8. Live' = Live \ {c}
  BY <1>1, <1>3, LiveMoves DEF CallState
<1>9. \A x \in Cpvt \ {c} : dir'[x] = dir[x]
  BY <1>2
<1>10. QueueRight'
  <2>1. \A x \in Live \ {c} : dir'[x] = dir[x]
    BY <1>9 DEF Live
  <2> QED
    BY <1>1, <1>8, <2>1, RelinkedRight DEF QueueRight
<1>11. PhasesRight'
  <2>1. phase[c] \notin {"none", "selected"}
    BY <1>3 DEF PhasesRight, CallState
  <2>2. \A x \in Cpvt \ {c} : st'[x] = st[x]
    BY <1>1 DEF DriverTyped
  <2>3. dir'[c] = "out"
    BY <1>2, <1>3
  <2> QED
    BY <1>1, <1>9, <2>1, <2>2, <2>3 DEF PhasesRight
<1>12. LinksMatch'
  <2>1. \A x \in Cpvt \ {c} : chan'[x] = chan[x] /\ tech'[x] = tech[x]
    BY <1>1 DEF DriverTyped
  <2>2. ~chan'[c] /\ ~tech'[c]
    BY <1>1, <1>3 DEF LinksMatch, DriverTyped
  <2> QED
    BY <1>1, <1>8, <2>1, <2>2 DEF LinksMatch
<1>13. LastDialedLive'
  <2>1. ASSUME last' # NULL
        PROVE  last' \in Live' /\ dir'[last'] = "out"
    <3>1. last' = last /\ last # c
      BY <1>1, <2>1
    <3>2. last \in Live /\ dir[last] = "out"
      BY <2>1, <3>1 DEF LastDialedLive
    <3> QED
      BY <1>8, <1>9, <3>1, <3>2 DEF Live
  <2> QED
    BY <2>1 DEF LastDialedLive
<1> QED
  BY <1>5, <1>7, <1>10, <1>11, <1>12, <1>13

-----------------------------------------------------------------------------
(* Steps of the channel threads *)

(* What a step that leaves states and directions keeps.                     *)
LEMMA SameCalls ==
    ASSUME IInv, UNCHANGED <<st, dir, count>>, tasks' \in Seq(Right)
    PROVE  QueueRight' /\ CountsMatch' /\ Live' = Live
<1>1. Live' = Live /\ Right' = Right /\ \A S : In(S)' = In(S)
  BY RightStays
<1> QED
  BY <1>1 DEF IInv, Core, QueueRight, CountsMatch

LEMMA UrgentRight ==
    ASSUME IInv, NEW t \in Right
    PROVE  Urgent(tasks, t) \in Seq(Right)
  BY UrgentTyped DEF IInv, Core, QueueRight

LEMMA ModemStays ==
    ASSUME ModemTyped, UNCHANGED <<todo, modem, line>>
    PROVE  ModemTyped'
  BY DEF ModemTyped, modem

(* The commands of a dial, an answer, an activation and a hangup.           *)
LEMMA DialTyped ==
    ASSUME NEW c
    PROVE  DialCmds(c) \in Seq(CmdSet) /\ DialCmds(c) # <<>>
<1>1. Cmd("CHLD_2", 0) \in CmdSet /\ Cmd("D", 0) \in CmdSet /\ CLCC \in CmdSet
  BY CommandsTyped, BoundAssumption DEF Commands
<1>2. (IF count["ACTIVE"] > 0 /\ hold[c] THEN <<Cmd("CHLD_2", 0)>> ELSE <<>>) \in Seq(CmdSet)
  BY <1>1
<1>3. <<Cmd("D", 0), CLCC>> \in Seq(CmdSet) /\ Len(<<Cmd("D", 0), CLCC>>) = 2
  BY <1>1
<1> QED
  BY <1>2, <1>3 DEF DialCmds

LEMMA AnswerTyped ==
    ASSUME NEW i \in 0..MaxIdx, NEW c \in Live
    PROVE  /\ Task(c, <<Cmd("A", i)>>) \in Right
           /\ Task(c, <<Cmd("CHLD_2x", i)>>) \in Right
           /\ Task(c, <<Cmd("CHLD_2x", i), CLCC>>) \in Right
           /\ Task(c, <<CHUP, CLCC>>) \in Right
<1>1. Cmd("A", i) \in CmdSet /\ Cmd("CHLD_2x", i) \in CmdSet /\ CLCC \in CmdSet /\ CHUP \in CmdSet
  BY CommandsTyped DEF Commands
<1>2. Cmd("A", i).cmd # "D" /\ Cmd("CHLD_2x", i).cmd # "D" /\ CLCC.cmd # "D" /\ CHUP.cmd # "D"
  BY DEF Cmd, CLCC, CHUP
<1>3. \A x \in CmdSet : x.cmd # "D" => Task(c, <<x>>) \in Right
  <2> SUFFICES ASSUME NEW x \in CmdSet, x.cmd # "D" PROVE Task(c, <<x>>) \in Right
    OBVIOUS
  <2>1. \A j \in DOMAIN <<x>> : <<x>>[j].cmd # "D"
    OBVIOUS
  <2>2. <<x>> \in Seq(CmdSet) /\ <<x>> # <<>>
    OBVIOUS
  <2> QED
    BY <2>1, <2>2, OwnTask
<1>4. \A x, y \in CmdSet : x.cmd # "D" /\ y.cmd # "D" => Task(c, <<x, y>>) \in Right
  <2> SUFFICES ASSUME NEW x \in CmdSet, NEW y \in CmdSet, x.cmd # "D", y.cmd # "D"
               PROVE  Task(c, <<x, y>>) \in Right
    OBVIOUS
  <2>1. \A j \in DOMAIN <<x, y>> : <<x, y>>[j].cmd # "D"
    OBVIOUS
  <2> QED
    BY <2>1, OwnTask
<1> QED
  BY <1>1, <1>2, <1>3, <1>4

(* Steps that only touch one channel and the queue: what changes of links,  *)
(* phases and the call that was dialed last is the step's own affair.       *)
LEMMA ChannelStep ==
    ASSUME IInv, UNCHANGED <<st, dir, count, todo, modem, line>>, tasks' \in Seq(Right),
           DriverTyped', PhasesRight', LinksMatch', LastDialedLive'
    PROVE  IInv'
<1>1. QueueRight' /\ CountsMatch'
  BY SameCalls
<1>2. ModemTyped'
  BY ModemStays DEF IInv
<1> QED
  BY <1>1, <1>2 DEF IInv, Core

LEMMA SetupKeeps ==
    ASSUME IInv, NEW c \in Cpvt,
           \/ \E h \in BOOLEAN : Select(c, h)
           \/ Request(c) \/ Call(c) \/ CallRefused(c)
    PROVE  IInv'
<1> USE DEF IInv, Core
<1>0. tasks \in Seq(Right)
  BY DEF QueueRight
<1>1. ASSUME NEW h \in BOOLEAN, Select(c, h)
      PROVE  IInv'
  <2>1. UNCHANGED <<st, idx, dir, need, chan, tech, asked, bits, last, count, up, drops>>
        /\ UNCHANGED <<tasks, todo, modem, line, stale>>
    BY <1>1 DEF Select
  <2>2. phase[c] = "none" /\ phase' = [phase EXCEPT ![c] = "selected"]
        /\ hold' = [hold EXCEPT ![c] = h] /\ selectbusy' = TRUE
    BY <1>1 DEF Select
  <2>3. DriverTyped'
    BY <2>1, <2>2 DEF DriverTyped, Phase
  <2>4. PhasesRight' /\ LinksMatch'
    BY <2>1, <2>2, RightStays DEF PhasesRight, LinksMatch, DriverTyped
  <2>5. LastDialedLive'
    BY <2>1, RightStays DEF LastDialedLive
  <2> QED
    BY <1>0, <2>1, <2>3, <2>4, <2>5, ChannelStep
<1>2. CASE Request(c)
  <2>1. NewChannel(c, PseudoIdx, "out", "INIT", FALSE, "down")
        /\ phase[c] = "selected" /\ selectbusy' = FALSE
        /\ UNCHANGED <<hold, asked, bits, last, up, drops>>
        /\ UNCHANGED <<tasks, todo, modem, line, stale>>
    BY <1>2 DEF Request
  <2>2. PseudoIdx \in 0..MaxIdx /\ "INIT" \in CallState /\ "out" \in {"in", "out"}
        /\ "down" \in {"down", "ring"} /\ FALSE \in BOOLEAN
    BY PseudoIdxTyped DEF CallState
  <2>3. bits' \subseteq {"dialing", "ring", "cwaiting"} /\ selectbusy' \in BOOLEAN
    BY <2>1 DEF DriverTyped
  <2>4. DriverTyped' /\ Core'
    BY <2>1, <2>2, <2>3, NewChannelKeeps
  <2> QED
    BY <2>1, <2>4, ModemStays
<1>3. CASE Call(c)
  <2>1. /\ phase[c] = "down" /\ tech[c] /\ chan[c]
        /\ phase' = [phase EXCEPT ![c] = "called"]
        /\ UNCHANGED <<st, idx, dir, hold, chan, tech, asked>>
        /\ UNCHANGED <<driver, todo, modem, line, stale>>
    BY <1>3 DEF Call
  <2>2. \/ tasks' = Urgent(tasks, Task(c, DialCmds(c))) /\ need' = [need EXCEPT ![c] = TRUE]
        \/ UNCHANGED <<tasks, need>>
    BY <1>3 DEF Call
  <2>3. c \in Live /\ dir[c] = "out"
    BY <2>1 DEF LinksMatch, PhasesRight
  <2>4. Task(c, DialCmds(c)) \in Right
    BY <2>3, DialTyped, OwnTask
  <2>5. tasks' \in Seq(Right)
    BY <1>0, <2>2, <2>4, UrgentRight
  <2>6. DriverTyped'
    BY <2>1, <2>2 DEF DriverTyped, Phase, driver
  <2>7. PhasesRight' /\ LinksMatch'
    BY <2>1, RightStays DEF PhasesRight, LinksMatch, DriverTyped
  <2>8. LastDialedLive' /\ UNCHANGED count
    BY <2>1, RightStays DEF LastDialedLive, driver
  <2> QED
    BY <2>1, <2>5, <2>6, <2>7, <2>8, ChannelStep
<1>4. CASE CallRefused(c)
  <2>1. phase[c] = "down" /\ phase' = [phase EXCEPT ![c] = "called"]
        /\ UNCHANGED <<desc, tech, asked, driver, tasks, todo, modem, line, stale>>
    BY <1>4 DEF CallRefused
  <2>2. UNCHANGED <<st, dir, chan, last, count, tasks>>
    BY <2>1 DEF desc, driver
  <2>3. DriverTyped'
    BY <2>1 DEF DriverTyped, Phase, driver, desc
  <2>4. PhasesRight' /\ LinksMatch'
    BY <2>1, <2>2, RightStays DEF PhasesRight, LinksMatch, DriverTyped
  <2>5. LastDialedLive'
    BY <2>2, RightStays DEF LastDialedLive
  <2> QED
    BY <1>0, <2>1, <2>2, <2>3, <2>4, <2>5, ChannelStep
<1> QED
  BY <1>1, <1>2, <1>3, <1>4

LEMMA ChannelKeeps ==
    ASSUME IInv, NEW c \in Cpvt,
           Answer(c) \/ Activate(c) \/ HangupLooks(c) \/ HangupActs(c)
    PROVE  IInv'
<1> USE DEF IInv, Core
<1>0. tasks \in Seq(Right) /\ idx[c] \in 0..MaxIdx
  BY DEF QueueRight, DriverTyped
<1>1. CASE Answer(c)
  <2>1. phase[c] = "ring" /\ phase' = [phase EXCEPT ![c] = "called"]
        /\ UNCHANGED <<desc, tech, asked, driver, todo, modem, line, stale>>
    BY <1>1 DEF Answer
  <2>2. UNCHANGED <<st, dir, chan, last, count>>
    BY <2>1 DEF desc, driver
  <2>3. tasks' \in Seq(Right)
    <3>1. \/ UNCHANGED tasks
          \/ c \in Live /\ tasks' = Urgent(tasks, Task(c, <<Cmd("A", idx[c])>>))
          \/ c \in Live /\ tasks' = Urgent(tasks, Task(c, <<Cmd("CHLD_2x", idx[c])>>))
      <4>1. CASE ~tech[c] \/ st[c] \notin {"INCOMING", "WAITING"}
        <5>1. ~(tech[c] /\ st[c] = "INCOMING") /\ ~(tech[c] /\ st[c] = "WAITING")
          BY <4>1
        <5> QED
          BY <1>1, <4>1, <5>1, Zenon DEF Answer
      <4>2. CASE tech[c] /\ st[c] = "INCOMING"
        <5>1. c \in Live
          BY <4>2 DEF Live, CallState
        <5>2. ~(~tech[c] \/ st[c] \notin {"INCOMING", "WAITING"}) /\ st[c] # "WAITING"
          BY <4>2
        <5>3. Enqueue(c, <<Cmd("A", idx[c])>>)
          BY <1>1, <4>2, <5>2, Zenon DEF Answer
        <5> QED
          BY <5>1, <5>3 DEF Enqueue
      <4>3. CASE tech[c] /\ st[c] = "WAITING"
        <5>1. c \in Live
          BY <4>3 DEF Live, CallState
        <5>2. ~(~tech[c] \/ st[c] \notin {"INCOMING", "WAITING"}) /\ st[c] # "INCOMING"
          BY <4>3
        <5>3. Enqueue(c, <<Cmd("CHLD_2x", idx[c])>>)
          BY <1>1, <4>3, <5>2, Zenon DEF Answer
        <5> QED
          BY <5>1, <5>3 DEF Enqueue
      <4> QED
        BY <4>1, <4>2, <4>3
    <3> QED
      BY <1>0, <3>1, AnswerTyped, UrgentRight
  <2>4. DriverTyped'
    BY <2>1 DEF DriverTyped, Phase, driver, desc
  <2>5. PhasesRight' /\ LinksMatch'
    BY <2>1, <2>2, RightStays DEF PhasesRight, LinksMatch, DriverTyped
  <2>6. LastDialedLive'
    BY <2>2, RightStays DEF LastDialedLive
  <2> QED
    BY <2>1, <2>2, <2>3, <2>4, <2>5, <2>6, ChannelStep
<1>2. CASE Activate(c)
  <2>1. st[c] = "ONHOLD" /\ Enqueue(c, <<Cmd("CHLD_2x", idx[c]), CLCC>>)
        /\ UNCHANGED <<desc, astvars, driver, todo, modem, line, stale>>
    BY <1>2 DEF Activate
  <2>2. UNCHANGED <<st, dir, chan, phase, tech, last, count>>
    BY <2>1 DEF desc, driver, astvars
  <2>3. c \in Live
    BY <2>1 DEF Live, CallState
  <2>4. tasks' \in Seq(Right)
    BY <1>0, <2>1, <2>3, AnswerTyped, UrgentRight DEF Enqueue
  <2>5. DriverTyped' /\ PhasesRight' /\ LinksMatch' /\ LastDialedLive'
    BY <2>1, <2>2, RightStays, DriverStays DEF PhasesRight, LinksMatch, LastDialedLive
  <2> QED
    BY <2>1, <2>2, <2>4, <2>5, ChannelStep
<1>3. CASE HangupLooks(c)
  <2>1. phase[c] \in {"down", "called", "ring"}
        /\ UNCHANGED <<desc, asked, driver, tasks, todo, modem, line, stale>>
    BY <1>3 DEF HangupLooks
  <2>2. \/ phase' = [phase EXCEPT ![c] = "hanging"] /\ UNCHANGED tech
        \/ /\ ~tech[c] \/ ~chan[c]
           /\ phase' = [phase EXCEPT ![c] = "gone"] /\ tech' = [tech EXCEPT ![c] = FALSE]
    BY <1>3 DEF HangupLooks
  <2>3. UNCHANGED <<st, dir, chan, last, count>>
    BY <2>1 DEF desc, driver
  <2>4. DriverTyped'
    BY <2>1, <2>2 DEF DriverTyped, Phase, driver, desc
  <2>5. PhasesRight'
    BY <2>1, <2>2, <2>3 DEF PhasesRight, DriverTyped
  <2>6. LinksMatch'
    <3>1. CASE phase' = [phase EXCEPT ![c] = "hanging"] /\ UNCHANGED tech
      BY <2>1, <2>3, <3>1, RightStays DEF LinksMatch, DriverTyped
    <3>2. CASE /\ ~tech[c] \/ ~chan[c]
               /\ phase' = [phase EXCEPT ![c] = "gone"] /\ tech' = [tech EXCEPT ![c] = FALSE]
      BY <2>1, <2>3, <3>2, RightStays DEF LinksMatch, DriverTyped
    <3> QED
      BY <2>2, <3>1, <3>2
  <2>7. LastDialedLive'
    BY <2>3, RightStays DEF LastDialedLive
  <2> QED
    BY <1>0, <2>1, <2>3, <2>4, <2>5, <2>6, <2>7, ChannelStep
<1>4. CASE HangupActs(c)
  <2>1. /\ phase[c] = "hanging"
        /\ phase' = [phase EXCEPT ![c] = "gone"]
        /\ tech' = [tech EXCEPT ![c] = FALSE] /\ chan' = [chan EXCEPT ![c] = FALSE]
        /\ stale' = (stale \/ c \notin Live)
        /\ UNCHANGED <<st, idx, dir, hold, asked, bits, count, selectbusy, up, drops>>
        /\ UNCHANGED <<todo, modem, line>>
    BY <1>4 DEF HangupActs
  <2>2. \/ UNCHANGED tasks
        \/ c \in Live /\ tasks' = Urgent(tasks, Task(c, <<CHUP, CLCC>>))
    BY <1>4 DEF HangupActs
  <2>3. need' = need \/ need' = [need EXCEPT ![c] = FALSE]
    BY <1>4 DEF HangupActs
  <2>4. last' = last \/ last' = NULL
    BY <1>4 DEF HangupActs
  <2>5. tasks' \in Seq(Right)
    BY <1>0, <2>2, AnswerTyped, UrgentRight
  <2>6. DriverTyped'
    <3>1. stale' \in BOOLEAN
      BY <2>1 DEF DriverTyped
    <3> QED
      BY <2>1, <2>3, <2>4, <3>1 DEF DriverTyped, Phase
  <2>7. PhasesRight' /\ LinksMatch'
    BY <2>1, RightStays DEF PhasesRight, LinksMatch, DriverTyped
  <2>8. LastDialedLive'
    BY <2>1, <2>4, RightStays DEF LastDialedLive
  <2> QED
    BY <2>1, <2>5, <2>6, <2>7, <2>8, ChannelStep
<1> QED
  BY <1>1, <1>2, <1>3, <1>4

-----------------------------------------------------------------------------
(* Steps of the monitor *)

LEMMA CmdDoneRight ==
    ASSUME IInv, tasks # <<>>, NEW ok \in BOOLEAN
    PROVE  CmdDone(ok) \in Seq(Right)
<1>1. tasks \in Seq(Right) /\ HeadTask \in Right /\ Tail(tasks) \in Seq(Right)
  BY DEF IInv, Core, QueueRight, HeadTask
<1>2. HeadTask.cmds \in Seq(CmdSet) /\ HeadTask.cmds # <<>>
      /\ HeadTask.cpvt \in Live \union {SysChan}
      /\ (Dials(HeadTask) /\ HeadTask.cpvt # SysChan => dir[HeadTask.cpvt] = "out")
  BY <1>1 DEF Right, TaskSet
<1>3. ASSUME Len(HeadTask.cmds) # 1
      PROVE  Task(HeadTask.cpvt, Tail(HeadTask.cmds)) \in Right
  <2>1. Tail(HeadTask.cmds) \in Seq(CmdSet) /\ Tail(HeadTask.cmds) # <<>>
        /\ \A j \in DOMAIN Tail(HeadTask.cmds) :
              j + 1 \in DOMAIN HeadTask.cmds
              /\ Tail(HeadTask.cmds)[j] = HeadTask.cmds[j + 1]
    BY <1>2, <1>3, TailOf
  <2>2. CASE HeadTask.cpvt = SysChan
    BY <2>1, <2>2, SysTask
  <2>3. CASE HeadTask.cpvt # SysChan
    <3>1. dir[HeadTask.cpvt] = "out"
          \/ \A j \in DOMAIN Tail(HeadTask.cmds) : Tail(HeadTask.cmds)[j].cmd # "D"
      BY <1>2, <2>1, <2>3 DEF Dials
    <3> QED
      BY <1>2, <2>1, <2>3, <3>1, OwnTask
  <2> QED
    BY <2>2, <2>3
<1>4. CASE Len(HeadTask.cmds) = 1 \/ (~ok /\ HeadCmd.cmd # "D")
  BY <1>1, <1>4 DEF CmdDone
<1>5. CASE ~(Len(HeadTask.cmds) = 1 \/ (~ok /\ HeadCmd.cmd # "D"))
  <2> DEFINE t == Task(HeadTask.cpvt, Tail(HeadTask.cmds))
  <2>1. t \in Right
    BY <1>3, <1>5
  <2>2. CmdDone(ok) = <<t>> \o Tail(tasks)
    BY <1>5 DEF CmdDone
  <2> HIDE DEF t
  <2> QED
    BY <1>1, <2>1, <2>2
<1> QED
  BY <1>4, <1>5

(* Reading a line takes it from the modem's.                                *)
LEMMA ReadsStays ==
    ASSUME ModemTyped, NEW ev, Reads(ev), UNCHANGED <<todo, modem>>
    PROVE  ModemTyped'
<1>1. line' \in Seq(Heard)
  BY DEF Reads, ModemTyped
<1> QED
  BY <1>1 DEF ModemTyped, modem

LEMMA EventTyped ==
    ASSUME ModemTyped, NEW ev \in {"OK", "ERROR", "ORIG", "CONN", "CEND", "RING", "CCWA"}, Reads(ev)
    PROVE  Event.idx \in 0..MaxIdx
<1>1. Event \in Heard /\ Event.ev = ev
  BY DEF Reads, Event, ModemTyped
<1> QED
  BY <1>1 DEF Heard, Event0

LEMMA CalmKeeps ==
    ASSUME IInv, HandleOk \/ HandleError \/ HandleRing \/ HandleCcwa \/ HandleClcc
    PROVE  IInv'
<1> USE DEF IInv, Core
<1>0. tasks \in Seq(Right)
  BY DEF QueueRight
<1>1. ASSUME UNCHANGED <<st, dir, chan, phase, tech, last, count>>, tasks' \in Seq(Right),
             DriverTyped', ModemTyped'
      PROVE  IInv'
  <2>1. QueueRight' /\ CountsMatch'
    BY <1>1, SameCalls
  <2>2. PhasesRight' /\ LinksMatch' /\ LastDialedLive'
    BY <1>1, RightStays DEF PhasesRight, LinksMatch, LastDialedLive
  <2> QED
    BY <1>1, <2>1, <2>2
<1>2. CASE HandleOk
  <2>1. /\ Reads("OK") /\ tasks # <<>> /\ tasks' = CmdDone(TRUE)
        /\ UNCHANGED <<st, idx, dir, hold, chan, astvars, count, selectbusy, up, drops>>
        /\ UNCHANGED <<todo, modem, stale>>
        /\ bits' = IF HeadCmd.cmd = "D" THEN bits \cup {"dialing"} ELSE bits
        /\ last' = IF HeadCmd.cmd = "D" /\ HeadTask.cpvt # SysChan THEN HeadTask.cpvt ELSE last
    BY <1>2 DEF HandleOk
  <2>2. need' \in [Cpvt -> BOOLEAN]
    <3>1. need' = [x \in Cpvt |->
                     IF x # HeadTask.cpvt THEN need[x]
                     ELSE CASE HeadCmd.cmd \in {"D", "A", "CHLD_2x"} -> TRUE
                            [] HeadCmd.cmd = "CHUP" -> FALSE
                            [] OTHER -> need[x]]
      BY <1>2 DEF HandleOk
    <3> QED
      BY <3>1 DEF DriverTyped
  <2>3. tasks' \in Seq(Right)
    BY <2>1, CmdDoneRight
  <2>4. last' # last => last' \in Live /\ dir[last'] = "out"
    <3>1. HeadTask \in Right
      BY <1>0, <2>1 DEF HeadTask
    <3>2. HeadTask.cmds # <<>> /\ HeadTask.cmds \in Seq(CmdSet)
          /\ HeadTask.cpvt \in Live \union {SysChan}
          /\ (Dials(HeadTask) /\ HeadTask.cpvt # SysChan => dir[HeadTask.cpvt] = "out")
      BY <3>1 DEF Right, TaskSet
    <3>3. HeadCmd.cmd = "D" => Dials(HeadTask)
      BY <3>2 DEF HeadCmd, Dials
    <3> QED
      BY <2>1, <3>2, <3>3
  <2>5. last' \in Cpvt \union {NULL}
    BY <2>4 DEF DriverTyped, Live
  <2>6. DriverTyped'
    BY <2>1, <2>2, <2>5 DEF DriverTyped, astvars
  <2>7. ModemTyped'
    BY <2>1, ReadsStays
  <2>8. UNCHANGED <<phase, tech>>
    BY <2>1 DEF astvars
  <2>9. QueueRight' /\ CountsMatch'
    BY <2>1, <2>3, SameCalls
  <2>10. PhasesRight' /\ LinksMatch' /\ LastDialedLive'
    BY <2>1, <2>4, <2>8, RightStays DEF PhasesRight, LinksMatch, LastDialedLive
  <2> QED
    BY <2>6, <2>7, <2>9, <2>10
<1>3. CASE HandleError
  <2>1. /\ Reads("ERROR") /\ tasks # <<>> /\ tasks' = CmdDone(FALSE)
        /\ UNCHANGED <<desc, phase, tech, driver, todo, modem, stale>>
    BY <1>3 DEF HandleError
  <2>2. asked' \in [Cpvt -> BOOLEAN]
    <3>1. \A c \in Cpvt : chan[c] \in BOOLEAN /\ asked[c] \in BOOLEAN
      BY DEF DriverTyped
    <3>2. asked' = [c \in Cpvt |->
                      asked[c] \/ (/\ c = HeadTask.cpvt /\ chan[c]
                                   /\ HeadCmd.cmd \in {"A", "CHLD_2x"})]
      BY <1>3 DEF HandleError
    <3> QED
      BY <3>1, <3>2
  <2>3. UNCHANGED <<st, dir, chan, last, count>>
    BY <2>1 DEF desc, driver
  <2>4. DriverTyped'
    BY <2>1, <2>2 DEF DriverTyped, desc, driver
  <2> QED
    BY <1>1, <2>1, <2>3, <2>4, CmdDoneRight, ReadsStays
<1>4. CASE HandleRing
  <2>1. Reads("RING") /\ bits' = {"ring"} /\ tasks' = WithClcc(tasks)
        /\ UNCHANGED <<desc, astvars, last, count, selectbusy, up, drops>>
        /\ UNCHANGED <<todo, modem, stale>>
    BY <1>4 DEF HandleRing
  <2>2. DriverTyped' /\ UNCHANGED <<st, dir, chan, phase, tech>>
    BY <2>1 DEF DriverTyped, desc, astvars
  <2> QED
    BY <1>0, <1>1, <2>1, <2>2, WithClccRight, ReadsStays
<1>5. CASE HandleCcwa
  <2>1. Reads("CCWA") /\ bits' = bits \union {"cwaiting"} /\ tasks' = WithClcc(tasks)
        /\ UNCHANGED <<desc, astvars, last, count, selectbusy, up, drops>>
        /\ UNCHANGED <<todo, modem, stale>>
    BY <1>5 DEF HandleCcwa
  <2>2. DriverTyped' /\ UNCHANGED <<st, dir, chan, phase, tech>>
    BY <2>1 DEF DriverTyped, desc, astvars
  <2> QED
    BY <1>0, <1>1, <2>1, <2>2, WithClccRight, ReadsStays
<1>6. CASE HandleClcc
  <2>1. Reads("CLCC") /\ todo' = Event.calls
        /\ UNCHANGED <<desc, astvars, driver, tasks, modem, stale>>
    BY <1>6 DEF HandleClcc
  <2>2. Event \in Heard /\ Event.ev = "CLCC" /\ line' \in Seq(Heard)
    BY <2>1 DEF Reads, Event, ModemTyped
  <2>3. Event.calls \in Seq(Line)
    BY <2>2 DEF Heard, Event0
  <2>4. ModemTyped'
    BY <2>1, <2>2, <2>3 DEF ModemTyped, modem
  <2>5. DriverTyped'
    BY <2>1, DriverStays
  <2>6. UNCHANGED <<st, dir, chan, phase, tech, last, count, tasks>>
    BY <2>1 DEF desc, astvars, driver
  <2> QED
    BY <1>0, <1>1, <2>4, <2>5, <2>6
<1> QED
  BY <1>2, <1>3, <1>4, <1>5, <1>6

LEMMA WithIdxLive == \A i : WithIdx(i) \subseteq Live
  BY DEF WithIdx

(* The types of what changes when one descriptor's state does.              *)
LEMMA CallsKeeps ==
    ASSUME IInv, HandleOrig \/ HandleConn \/ HandleCend
    PROVE  IInv'
<1> USE DEF IInv, Core
<1>0. tasks \in Seq(Right)
  BY DEF QueueRight
<1>1. CASE HandleOrig
  <2>1. /\ Reads("ORIG") /\ last' = NULL
        /\ UNCHANGED <<dir, hold, need, chan, astvars, bits, selectbusy, up, drops>>
        /\ UNCHANGED <<todo, modem, stale>>
    BY <1>1 DEF HandleOrig
  <2>2. ModemTyped' /\ Event.idx \in 0..MaxIdx
    BY <2>1, ReadsStays, EventTyped
  <2>3. CASE last = NULL
    <3>1. UNCHANGED <<st, idx, count, tasks>>
      BY <1>1, <2>3 DEF HandleOrig
    <3>2. DriverTyped'
      BY <2>1, <3>1 DEF DriverTyped, astvars
    <3>3. UNCHANGED <<phase, tech, last>>
      BY <2>1, <2>3 DEF astvars
    <3> QED
      BY <2>1, <2>2, <3>1, <3>2, <3>3, CoreStays
  <2>4. CASE last # NULL
    <3>1. idx' = [idx EXCEPT ![last] = Event.idx] /\ Changed(last, "DIALING")
          /\ tasks' = WithClcc(tasks)
      BY <1>1, <2>4 DEF HandleOrig
    <3>2. last \in Live /\ "DIALING" \in CallState /\ UNCHANGED <<phase, tech>>
      BY <2>1, <2>4 DEF LastDialedLive, CallState, astvars
    <3>3. tasks' \in Seq(Right) /\ last' \in {last, NULL}
      BY <1>0, <2>1, <3>1, WithClccRight
    <3>4. /\ st' \in [Cpvt -> CallState \cup {"unused", "freed"}]
          /\ count' \in [CallState -> Int]
          /\ Core'
      BY <2>1, <3>1, <3>2, <3>3, ChangedKeeps
    <3>5. DriverTyped'
      BY <2>1, <2>2, <3>1, <3>4 DEF DriverTyped, astvars
    <3> QED
      BY <2>2, <3>4, <3>5
  <2> QED
    BY <2>3, <2>4
<1>2. CASE HandleConn
  <2>1. /\ Reads("CONN") /\ bits' = {}
        /\ UNCHANGED <<idx, dir, hold, need, chan, astvars, last, selectbusy, up, drops>>
        /\ UNCHANGED <<todo, modem, stale>>
    BY <1>2 DEF HandleConn
  <2>2. ModemTyped' /\ UNCHANGED <<phase, tech>>
    BY <2>1, ReadsStays DEF astvars
  <2>3. ASSUME NEW c \in WithIdx(Event.idx), Changed(c, "ACTIVE"),
               tasks' = IF Group295 /\ dir[c] = "out"
                          THEN Urgent(tasks, Task(c, <<CHUP, CLCC>>))
                          ELSE WithClcc(tasks)
        PROVE  IInv'
    <3>1. c \in Live /\ "ACTIVE" \in CallState /\ idx[c] \in 0..MaxIdx
      BY WithIdxLive DEF CallState, DriverTyped, Live
    <3>2. tasks' \in Seq(Right)
      BY <1>0, <2>3, <3>1, AnswerTyped, UrgentRight, WithClccRight
    <3>3. /\ st' \in [Cpvt -> CallState \cup {"unused", "freed"}]
          /\ count' \in [CallState -> Int]
          /\ Core'
      BY <2>1, <2>2, <2>3, <3>1, <3>2, ChangedKeeps
    <3>4. DriverTyped'
      BY <2>1, <3>3 DEF DriverTyped, astvars
    <3> QED
      BY <2>2, <3>3, <3>4
  <2>4. CASE tasks' = Urgent(tasks, Task(SysChan, <<CHUP, CLCC>>)) /\ UNCHANGED <<st, count>>
    <3>1. <<CHUP, CLCC>> \in Seq(CmdSet) /\ <<CHUP, CLCC>> # <<>>
      BY CommandsTyped
    <3>2. tasks' \in Seq(Right)
      BY <2>4, <3>1, SysTask, UrgentRight
    <3>3. DriverTyped'
      BY <2>1, <2>4 DEF DriverTyped, astvars
    <3>4. QueueRight' /\ CountsMatch' /\ PhasesRight' /\ LinksMatch' /\ LastDialedLive'
      BY <2>1, <2>2, <2>4, <3>2, SameCalls, RightStays DEF PhasesRight, LinksMatch, LastDialedLive
    <3> QED
      BY <2>2, <3>3, <3>4
  <2> QED
    BY <1>2, <2>3, <2>4 DEF HandleConn
<1>3. CASE HandleCend
  <2>1. Reads("CEND") /\ UNCHANGED <<selectbusy, up, drops, todo, modem, stale>>
    BY <1>3 DEF HandleCend
  <2>2. ModemTyped' /\ WithClcc(tasks) \in Seq(Right)
    BY <1>0, <2>1, ReadsStays, WithClccRight
  <2>3. ASSUME NEW c \in WithIdx(Event.idx), Released(c, bits, WithClcc(tasks))
        PROVE  IInv'
    <3>1. c \in Live
      BY WithIdxLive
    <3>2. DriverTyped' /\ Core'
      BY <2>1, <2>2, <2>3, <3>1, ReleasedKeeps
    <3> QED
      BY <2>2, <3>2
  <2>4. CASE tasks' = WithClcc(tasks) /\ UNCHANGED <<desc, astvars, bits, last, count>>
    <3>1. UNCHANGED <<st, dir, chan, phase, tech, last, count>>
      BY <2>4 DEF desc, astvars
    <3>2. DriverTyped'
      BY <2>1, <2>4 DEF DriverTyped, desc, astvars
    <3>3. QueueRight' /\ CountsMatch' /\ PhasesRight' /\ LinksMatch' /\ LastDialedLive'
      BY <2>2, <2>4, <3>1, SameCalls, RightStays DEF PhasesRight, LinksMatch, LastDialedLive
    <3> QED
      BY <2>2, <3>2, <3>3
  <2> QED
    BY <1>3, <2>3, <2>4 DEF HandleCend
<1> QED
  BY <1>1, <1>2, <1>3

LEMMA LinesTyped ==
    ASSUME ModemTyped, todo # <<>>, todo' = Tail(todo), UNCHANGED <<modem, line>>
    PROVE  ModemTyped' /\ Head(todo) \in Line
<1>1. todo \in Seq(Line)
  BY DEF ModemTyped
<1>2. Tail(todo) \in Seq(Line) /\ Head(todo) \in Line
  BY <1>1
<1> QED
  BY <1>2 DEF ModemTyped, modem

LEMMA BitsTyped ==
    ASSUME NEW b \in SUBSET {"dialing", "ring", "cwaiting"}, NEW s, NEW c
    PROVE  /\ ClccBits(s, b) \in SUBSET {"dialing", "ring", "cwaiting"}
           /\ BitsAfter(c, b) \in SUBSET {"dialing", "ring", "cwaiting"}
  BY DEF ClccBits, BitsAfter

LEMMA ListKeeps ==
    ASSUME IInv, ClccSkipped \/ \E c \in Cpvt : ClccKnown(c) \/ ClccArrives(c)
    PROVE  IInv'
<1> USE DEF IInv, Core
<1>0. tasks \in Seq(Right) /\ bits \in SUBSET {"dialing", "ring", "cwaiting"}
  BY DEF QueueRight, DriverTyped
<1>1. ASSUME NEW c \in Cpvt, ClccKnown(c)
      PROVE  IInv'
  <2>1. /\ todo # <<>> /\ c \in WithIdx(Head(todo).idx) /\ todo' = Tail(todo)
        /\ UNCHANGED <<idx, dir, hold, need, chan, astvars, last, selectbusy, up, drops>>
        /\ UNCHANGED <<tasks, modem, line, stale>>
    BY <1>1 DEF ClccKnown
  <2>2. ModemTyped' /\ Head(todo) \in Line /\ c \in Live
    BY <2>1, LinesTyped, WithIdxLive
  <2>3. Head(todo).state \in CallState /\ UNCHANGED <<phase, tech>>
    BY <2>1, <2>2 DEF Line, astvars
  <2>4. bits' \subseteq {"dialing", "ring", "cwaiting"}
    <3>1. bits' \in {ClccBits(Head(todo).state, bits),
                     ClccBits(Head(todo).state, BitsAfter(c, bits))}
      BY <1>1 DEF ClccKnown
    <3> QED
      BY <1>0, <3>1, BitsTyped
  <2>5. CASE Changed(c, Head(todo).state)
    <3>1. /\ st' \in [Cpvt -> CallState \cup {"unused", "freed"}]
          /\ count' \in [CallState -> Int]
          /\ Core'
      BY <1>0, <2>1, <2>2, <2>3, <2>5, ChangedKeeps
    <3>2. DriverTyped'
      BY <2>1, <2>4, <3>1 DEF DriverTyped, astvars
    <3> QED
      BY <2>2, <3>1, <3>2
  <2>6. CASE UNCHANGED <<st, count>>
    <3>1. DriverTyped'
      BY <2>1, <2>4, <2>6 DEF DriverTyped, astvars
    <3> QED
      BY <2>1, <2>2, <2>3, <2>6, <3>1, CoreStays
  <2> QED
    BY <1>1, <2>5, <2>6 DEF ClccKnown
<1>2. ASSUME NEW c \in Cpvt, ClccArrives(c)
      PROVE  IInv'
  <2>1. /\ todo # <<>> /\ todo' = Tail(todo) /\ phase[c] = "none"
        /\ NewChannel(c, Head(todo).idx, "in", Head(todo).state, TRUE, "ring")
        /\ bits' = ClccBits(Head(todo).state, bits)
        /\ UNCHANGED <<hold, asked, last, selectbusy, up, drops>>
        /\ UNCHANGED <<tasks, modem, line, stale>>
    BY <1>2 DEF ClccArrives
  <2>2. ModemTyped' /\ Head(todo) \in Line
    BY <2>1, LinesTyped
  <2>3. Head(todo).idx \in 0..MaxIdx /\ Head(todo).state \in CallState
        /\ "in" \in {"in", "out"} /\ TRUE \in BOOLEAN /\ "ring" \in {"down", "ring"}
    BY <2>2, BoundAssumption DEF Line, Idx
  <2>4. bits' \subseteq {"dialing", "ring", "cwaiting"} /\ selectbusy' \in BOOLEAN
    BY <1>0, <2>1, BitsTyped DEF DriverTyped
  <2>5. phase[c] \in {"none", "selected"} /\ ("ring" = "down" => "in" = "out")
    BY <2>1
  <2>6. DriverTyped' /\ Core'
    BY <2>1, <2>3, <2>4, <2>5, NewChannelKeeps
  <2> QED
    BY <2>2, <2>6
<1>3. CASE ClccSkipped
  <2>1. /\ todo # <<>> /\ todo' = Tail(todo)
        /\ bits' = ClccBits(Head(todo).state, bits)
        /\ UNCHANGED <<desc, astvars, last, count, selectbusy, up, drops>>
        /\ UNCHANGED <<modem, line, stale>>
    BY <1>3 DEF ClccSkipped
  <2>2. ModemTyped' /\ bits' \subseteq {"dialing", "ring", "cwaiting"}
    BY <1>0, <2>1, LinesTyped, BitsTyped
  <2>3. tasks' \in Seq(Right)
    <3>1. <<CHUP, CLCC>> \in Seq(CmdSet) /\ <<CHUP, CLCC>> # <<>>
      BY CommandsTyped
    <3>2. UNCHANGED tasks \/ tasks' = Urgent(tasks, Task(SysChan, <<CHUP, CLCC>>))
      BY <1>3 DEF ClccSkipped
    <3> QED
      BY <1>0, <3>1, <3>2, SysTask, UrgentRight
  <2>4. DriverTyped'
    BY <2>1, <2>2 DEF DriverTyped, desc, astvars
  <2>5. UNCHANGED <<st, dir, chan, phase, tech, last, count>>
    BY <2>1 DEF desc, astvars
  <2>6. QueueRight' /\ CountsMatch' /\ PhasesRight' /\ LinksMatch' /\ LastDialedLive'
    BY <2>3, <2>5, SameCalls, RightStays DEF PhasesRight, LinksMatch, LastDialedLive
  <2> QED
    BY <2>2, <2>4, <2>6
<1> QED
  BY <1>1, <1>2, <1>3

(* When the connection is lost every descriptor is freed.                   *)
LEMMA DropKeeps == IInv /\ Drop => IInv'
<1> SUFFICES ASSUME IInv, Drop PROVE IInv'
  OBVIOUS
<1> USE DEF IInv, Core
<1>1. /\ drops < MaxDrops /\ drops' = drops + 1
      /\ up' = FALSE /\ selectbusy' = FALSE
      /\ st' = [c \in Cpvt |-> IF c \in Live THEN "freed" ELSE st[c]]
      /\ need' = [c \in Cpvt |-> FALSE]
      /\ chan' = [c \in Cpvt |-> FALSE]
      /\ tech' = [c \in Cpvt |-> tech[c] /\ ~chan[c]]
      /\ asked' = [c \in Cpvt |-> asked[c] \/ chan[c]]
      /\ bits' = {} /\ last' = NULL
      /\ count' = [s \in CallState |-> 0]
      /\ tasks' = <<>> /\ todo' = <<>> /\ line' = <<>>
      /\ phase' = phase /\ whose' = whose /\ incoming' = incoming /\ stale' = stale
  BY DEF Drop
<1>2. /\ idx' = [c \in Cpvt |-> IF c \in Live THEN 0 ELSE idx[c]]
      /\ dir' = [c \in Cpvt |-> IF c \in Live THEN "out" ELSE dir[c]]
      /\ hold' = [c \in Cpvt |-> IF c \in Live THEN FALSE ELSE hold[c]]
  BY DEF Drop, Forgotten
<1>3. PICK S \in SUBSET Idx : call' = [i \in Idx |-> IF i \in S THEN call[i] ELSE "none"]
  BY DEF Drop
<1>4. ModemTyped'
  <2>1. call' \in [Idx -> (CallState \ {"INIT"}) \cup {"none", "calling"}]
    BY <1>3 DEF ModemTyped
  <2> QED
    BY <1>1, <2>1 DEF ModemTyped
<1>5. DriverTyped'
  <2>1. idx' \in [Cpvt -> 0..MaxIdx]
    BY <1>2, BoundAssumption DEF DriverTyped
  <2>2. drops' \in 0..MaxDrops
    BY <1>1, BoundAssumption DEF DriverTyped
  <2>3. tech' \in [Cpvt -> BOOLEAN] /\ asked' \in [Cpvt -> BOOLEAN]
    <3>1. \A c \in Cpvt : tech[c] \in BOOLEAN /\ asked[c] \in BOOLEAN /\ chan[c] \in BOOLEAN
      BY DEF DriverTyped
    <3> QED
      BY <1>1, <3>1
  <2>4. st' \in [Cpvt -> CallState \cup {"unused", "freed"}]
        /\ need' \in [Cpvt -> BOOLEAN] /\ chan' \in [Cpvt -> BOOLEAN]
        /\ count' \in [CallState -> Int]
    BY <1>1 DEF DriverTyped
  <2>5. dir' \in [Cpvt -> {"in", "out"}] /\ hold' \in [Cpvt -> BOOLEAN]
    BY <1>2 DEF DriverTyped
  <2> QED
    BY <1>1, <2>1, <2>2, <2>3, <2>4, <2>5 DEF DriverTyped
<1>6. Live' = {}
  BY <1>1 DEF Live, CallState
<1>7. PhasesRight'
  <2>1. \A c \in Live : phase[c] \notin {"none", "selected"}
    BY DEF Live, PhasesRight, CallState
  <2> QED
    BY <1>1, <1>2, <2>1 DEF PhasesRight
<1>8. LinksMatch'
  <2>1. \A c \in Cpvt : ~chan'[c] /\ ~tech'[c]
    BY <1>1 DEF LinksMatch
  <2> QED
    BY <2>1 DEF LinksMatch
<1>9. LastDialedLive' /\ QueueRight'
  BY <1>1 DEF LastDialedLive, QueueRight
<1>10. CountsMatch'
  <2>1. \A s \in CallState : In({s})' = {}
    BY <1>6 DEF In
  <2> QED
    BY <1>1, <2>1, FS_EmptySet DEF CountsMatch
<1> QED
  BY <1>4, <1>5, <1>7, <1>8, <1>9, <1>10

LEMMA ConnectKeeps == IInv /\ Connect => IInv'
<1> SUFFICES ASSUME IInv, Connect PROVE IInv'
  OBVIOUS
<1>1. /\ UNCHANGED <<desc, astvars, bits, last, count, selectbusy, drops>>
      /\ UNCHANGED <<tasks, todo, modem, line, stale>> /\ up' = TRUE
  BY DEF Connect
<1>2. DriverTyped' /\ ModemTyped'
  BY <1>1, ModemStays DEF IInv, DriverTyped, desc, astvars
<1>3. UNCHANGED <<st, dir, chan, phase, tech, last, count, tasks>>
  BY <1>1 DEF desc, astvars
<1> QED
  BY <1>2, <1>3, CoreStays DEF IInv

-----------------------------------------------------------------------------
(* The theorems *)

LEMMA NextKeeps == IInv /\ [Next]_vars => IInv'
<1> SUFFICES ASSUME IInv, [Next]_vars PROVE IInv'
  OBVIOUS
<1>1. ASSUME NEW c \in Cpvt, \E h \in BOOLEAN : Select(c, h)
      PROVE  IInv'
  BY <1>1, SetupKeeps
<1>2. ASSUME NEW c \in Cpvt, Request(c) \/ Call(c) \/ CallRefused(c)
      PROVE  IInv'
  BY <1>2, SetupKeeps
<1>3. ASSUME NEW c \in Cpvt, Answer(c) \/ Activate(c) \/ HangupLooks(c) \/ HangupActs(c)
      PROVE  IInv'
  BY <1>3, ChannelKeeps
<1>4. CASE MonitorReads
  BY <1>4, CalmKeeps, CallsKeeps, ListKeeps DEF MonitorReads
<1>5. CASE UNCHANGED vars
  <2>1. UNCHANGED <<desc, astvars, driver, tasks, todo, modem, line, stale>>
    BY <1>5 DEF vars
  <2> QED
    BY <2>1, ModemStays, ModemStep DEF IInv
<1> QED
  BY <1>1, <1>2, <1>3, <1>4, <1>5, DropKeeps, ConnectKeeps, WorksKeeps, SpeaksKeeps
  DEF Next, Channels

LEMMA InvariantHolds == Spec => []IInv
<1>1. Init => IInv
  BY InitHolds
<1>2. IInv /\ [Next]_vars => IInv'
  BY NextKeeps
<1> QED
  BY <1>1, <1>2, PTL DEF Spec

(* The variables of calls and of their modem have their types.              *)
THEOREM CallsTypeCorrect == Spec => []TypeOK
<1>1. IInv => TypeOK
  BY InvariantImplies
<1> QED
  BY <1>1, InvariantHolds, PTL

(* Channels, descriptors, last_dialed_cpvt and the owners of tasks point to *)
(* what exists, for any descriptors and calls and however often the         *)
(* connection is lost: every free of cpvt_free() takes its pointers along.  *)
THEOREM CallsNothingDangles == Spec => []NothingDangles
<1>1. IInv => NothingDangles
  BY InvariantImplies
<1> QED
  BY <1>1, InvariantHolds, PTL

(* chan_count, which decides whether a dial puts an active call on hold,    *)
(* counts the descriptors in every state.                                   *)
THEOREM CallsCountsMatch == Spec => []CountsMatch
<1>1. IInv => CountsMatch
  BY DEF IInv, Core
<1> QED
  BY <1>1, InvariantHolds, PTL

(* A descriptor is only freed together with telling its channel.            *)
LEMMA FreedTold ==
    ASSUME IInv, [Next]_vars, NEW c \in Live, chan[c], st'[c] = "freed"
    PROVE  asked'[c]
<1>0. c \in Cpvt /\ st[c] \in CallState /\ st[c] # "freed"
  BY DEF Live, CallState
<1>1. st' # st
  BY <1>0
<1>2. ASSUME NEW d \in Live, NEW s \in CallState, Changed(d, s)
      PROVE  FALSE
  BY <1>0, <1>2 DEF Changed, IInv, DriverTyped, CallState
<1>3. ASSUME NEW d \in Cpvt, NEW i, NEW e, NEW s \in CallState, NEW f, NEW ph,
             NewChannel(d, i, e, s, f, ph)
      PROVE  FALSE
  BY <1>0, <1>3 DEF NewChannel, IInv, DriverTyped, CallState
<1>4. CASE Drop
  BY <1>0, <1>4 DEF Drop
<1>5. CASE HandleCend
  <2>1. PICK d \in WithIdx(Event.idx) : Released(d, bits, WithClcc(tasks))
    BY <1>1, <1>5 DEF HandleCend, desc
  <2>2. st' = [st EXCEPT ![d] = "freed"] /\ asked' = [asked EXCEPT ![d] = @ \/ chan[d]]
    BY <2>1 DEF Released
  <2>3. d = c
    BY <1>0, <2>2 DEF IInv, DriverTyped
  <2> QED
    BY <1>0, <2>2, <2>3 DEF IInv, DriverTyped
<1>6. CASE HandleOrig
  BY <1>1, <1>2, <1>6 DEF HandleOrig, IInv, Core, LastDialedLive, CallState
<1>7. CASE HandleConn
  BY <1>1, <1>2, <1>7, WithIdxLive DEF HandleConn, CallState
<1>8. ASSUME NEW d \in Cpvt, ClccKnown(d)
      PROVE  FALSE
  <2>1. Changed(d, Head(todo).state) /\ d \in Live
    BY <1>1, <1>8, WithIdxLive DEF ClccKnown
  <2>2. Head(todo).state \in CallState
    BY <1>8, LinesTyped DEF ClccKnown, IInv, ModemTyped, Line
  <2> QED
    BY <1>2, <2>1, <2>2
<1>9. ASSUME NEW d \in Cpvt, ClccArrives(d)
      PROVE  FALSE
  BY <1>3, <1>9 DEF ClccArrives, CallState
<1>10. ASSUME NEW d \in Cpvt, Request(d)
       PROVE  FALSE
  BY <1>3, <1>10 DEF Request, CallState
<1>11. CASE UNCHANGED st
  BY <1>1, <1>11
<1> QED
  BY <1>4, <1>5, <1>6, <1>7, <1>8, <1>9, <1>10, <1>11
  DEF Next, Channels, MonitorReads, ModemWorks, ModemSpeaks, vars, desc,
      Select, Call, CallRefused, Answer, Activate, HangupLooks, HangupActs,
      HandleOk, HandleError, HandleRing, HandleCcwa, HandleClcc, ClccSkipped, Connect,
      Refuse, DoDial, DoList, DoSwap, DoAnswer, DoHangup, Works,
      Originates, RemoteAnswers, RemoteEnds, Arrives, Rings, Unasked

(* Whoever ends a call, its channel is asked to hang up.                    *)
THEOREM CallsReleaseTold == Spec => ReleaseTold
<1>1. IInv /\ [Next]_vars =>
        [\A c \in Cpvt : chan[c] /\ c \in Live /\ st'[c] = "freed" => asked'[c]]_vars
  BY FreedTold
<1> QED
  BY <1>1, InvariantHolds, PTL DEF Spec, ReleaseTold

-----------------------------------------------------------------------------
(* One call at a time.                                                      *)
(*                                                                          *)
(* A descriptor is set by what the modem said, which the monitor reads late: *)
(* the list it works through (position 0) and the lines that are on their   *)
(* way (positions 1, 2, ...) still speak of calls as they were, and of two  *)
(* calls with the same number, one of which is over.  Behind the last line  *)
(* stands what the modem would say now.  The invariant says how the things  *)
(* said of a number follow each other, and what they have to do with the    *)
(* descriptors, as long as no call came in and the connection holds.        *)

Alone == drops = 0 /\ incoming = 0

(* How far a call is: dialled, ringing at the other party, answered.        *)
Stage(s) == IF s = "DIALING" THEN 1 ELSE IF s \in {"ACTIVE", "ONHOLD"} THEN 2 ELSE 0

ListAt(k) ==
    IF k = 0 THEN todo
    ELSE IF k \in 1..Len(line) /\ line[k].ev = "CLCC" THEN line[k].calls ELSE <<>>
Listed(i, k, s) ==
    \E n \in 1..Len(ListAt(k)) : ListAt(k)[n].idx = i /\ ListAt(k)[n].state = s
Hears(k, e) == k \in 1..Len(line) /\ line[k] = e
Okay(k) == k \in 1..Len(line) /\ line[k].ev = "OK"
Ends(i, k) == Hears(k, Ev("CEND", i))
Starts(i, k) == Hears(k, Ev("ORIG", i))

(* What is said at position k takes the call with number i from stage b     *)
(* to a.                                                                    *)
Shows(i, k, b, a) ==
    \/ Starts(i, k) /\ b = 0 /\ a = 1
    \/ Hears(k, Ev("CONN", i)) /\ b = 1 /\ a = 2
    \/ \E s \in CallState : Listed(i, k, s) /\ b = Stage(s) /\ a = Stage(s)
    \/ k > Len(line) /\ b = Stage(call[i]) /\ a = Stage(call[i])

(* There is word of number i at position k.                                 *)
Speaks(i, k) ==
    \/ Starts(i, k) \/ Hears(k, Ev("CONN", i)) \/ Ends(i, k)
    \/ \E s \in CallState : Listed(i, k, s)
    \/ k > Len(line) /\ call[i] # "none"

Begun(c) == phase[c] \notin {"none", "selected", "down"}
Dialling(c) == c \in Live /\ st[c] = "INIT"
Known(c) == c \in Live /\ st[c] # "INIT"

(* A number belongs to a descriptor that has it from the modem, or to the   *)
(* call of a descriptor that was not told its number yet.                   *)
OfOne(i) == \E d \in Cpvt : Known(d) /\ idx[d] = i
OfCaller(i) == whose[i] \in Cpvt /\ Dialling(whose[i])

(* Every call is one of ours, and is listed once.                           *)
OursListed(k) ==
    \A n \in 1..Len(ListAt(k)) :
        /\ ListAt(k)[n].dir = "out"
        /\ ListAt(k)[n].state \in {"DIALING", "ACTIVE", "ONHOLD"}
        /\ \A m \in 1..Len(ListAt(k)) : ListAt(k)[n].idx = ListAt(k)[m].idx => n = m
Numbered(k) ==
    k \in 1..Len(line) /\ line[k].ev \in {"ORIG", "CONN", "CEND"} => line[k].idx \in Idx
OutOnly ==
    /\ up
    /\ \A c \in Cpvt : /\ dir[c] = "out" /\ phase[c] # "ring"
                       /\ st[c] \notin {"INCOMING", "WAITING"}
    /\ \A i \in Idx : /\ call[i] \in {"none", "calling", "DIALING", "ACTIVE", "ONHOLD"}
                      /\ whose[i] \in Cpvt \cup {NULL}
                      /\ call[i] # "none" => whose[i] # NULL
    /\ \A k \in Nat : OursListed(k) /\ Numbered(k)

(* Only one is being set up, and the one a device is reserved for reserves  *)
(* it.                                                                      *)
OneAtATime ==
    /\ \A c \in Cpvt : phase[c] = "selected" => selectbusy
    /\ \A c, d \in SettingUp : c = d

(* No number is used twice.                                                 *)
Numbers ==
    /\ \A c, d \in Live : idx[c] = idx[d] /\ idx[c] # 0 => c = d
    /\ \A c \in Cpvt : Known(c) => idx[c] \in Idx

(* A number the modem gave is that of the descriptor's own call, or this    *)
(* call is over.                                                            *)
Owned == \A c \in Cpvt : Known(c) => whose[idx[c]] = c \/ \E l \in Nat : Ends(idx[c], l)

(* What is said of a call does not go back behind its descriptor, and not   *)
(* behind what was said before, unless the call has ended in between.       *)
Front ==
    \A c \in Cpvt, k \in Nat, b, a \in 0..2 :
        Known(c) /\ Shows(idx[c], k, b, a) /\ b < Stage(st[c])
            => \E l \in Nat : l < k /\ Ends(idx[c], l)
Ordered ==
    \A i \in Idx, j, k \in Nat, b, a, bb, aa \in 0..2 :
        j < k /\ Shows(i, j, b, a) /\ Shows(i, k, bb, aa) /\ bb < a
            => \E l \in Nat : j < l /\ l < k /\ Ends(i, l)

(* After its end a number is first heard of when the next call starts.      *)
Restarts ==
    \A i \in Idx, j, k \in Nat, b, a \in 0..2 :
        Ends(i, j) /\ Shows(i, k, b, a) /\ b > 0 /\ j < k
            => \E m \in Nat : j < m /\ m < k /\ Starts(i, m)

(* Nothing is said of a call that is nobody's.                              *)
Accounted == \A i \in Idx, k \in Nat : Speaks(i, k) => OfOne(i) \/ OfCaller(i)

(* There is word of two calls with the same number only if one is over and  *)
(* the other has no number yet.                                             *)
Twice ==
    \A i \in Idx, j, k \in Nat :
        Ends(i, j) /\ Speaks(i, k) /\ j < k
            => OfOne(i) /\ OfCaller(i) /\ \A l \in Nat : l < j => ~Ends(i, l)

(* A call that starts belongs to a descriptor without a number.             *)
Caller ==
    \A i \in Idx, k \in Nat, a \in 0..2 : Shows(i, k, 0, a) /\ Speaks(i, k) => OfCaller(i)

(* Every descriptor makes one call, once its channel was called.            *)
OneCall ==
    /\ \A i, j \in Idx : whose[i] = whose[j] /\ whose[i] # NULL => i = j
    /\ \A i \in Idx : whose[i] # NULL => Begun(whose[i])
    /\ \A c \in Live : phase[c] = "down" => Dialling(c)

(* There is one task that dials; it is that of the descriptor without a     *)
(* number, and the modem has dialled for it only if it said so.             *)
DialAt(k) == k \in 1..Len(tasks) /\ Dials(tasks[k])
DialTasks ==
    /\ \A k, l \in Nat : DialAt(k) /\ DialAt(l) => k = l
    /\ \A k \in Nat : DialAt(k) =>
          /\ tasks[k].cpvt \in Cpvt /\ Dialling(tasks[k].cpvt) /\ Begun(tasks[k].cpvt)
          /\ \A i \in Idx : whose[i] = tasks[k].cpvt
                => k = 1 /\ HeadCmd.cmd = "D" /\ \E m \in Nat : Okay(m)
          /\ \A m, n \in DOMAIN tasks[k].cmds :
                tasks[k].cmds[m].cmd = "D" /\ tasks[k].cmds[n].cmd = "D" => m = n

LastDialled == last # NULL => Dialling(last) /\ Begun(last)

(* The modem has dialled, and its OK was not read or what comes next has    *)
(* not been.                                                                *)
Dialled(r) == tasks # <<>> /\ HeadCmd.cmd = "D" /\ whose[r] = HeadTask.cpvt
Unread ==
    \A r \in Idx, m \in Nat : Dialled(r) /\ Okay(m) =>
        /\ \A k \in Nat : k < m /\ Speaks(r, k) => OfOne(r)
        /\ \A i \in Idx, j, k \in Nat : Ends(i, j) /\ Speaks(i, k) /\ j < k => m < k
Fresh ==
    \A i \in Idx, k \in Nat, b, a \in 0..2 :
        (Dialled(i) \/ (last # NULL /\ whose[i] = last)) /\ Shows(i, k, b, a) /\ b > 0
            => OfOne(i) \/ \E m \in Nat : m < k /\ Starts(i, m)

Said == Ordered /\ Restarts
Told0 == Numbers /\ Owned /\ Front /\ Accounted /\ Twice /\ Caller
Setup ==
    /\ OutOnly /\ OneAtATime /\ Said /\ Told0
    /\ OneCall /\ DialTasks /\ LastDialled /\ Unread /\ Fresh
SInv == Alone => Setup

-----------------------------------------------------------------------------

LEMMA StageRange == \A s : Stage(s) \in 0..2
  BY DEF Stage

LEMMA HeardAt ==
    ASSUME ModemTyped
    PROVE  /\ Len(line) \in Nat /\ Len(todo) \in Nat
           /\ \A k \in 1..Len(line) : line[k] \in Heard
           /\ \A k \in 1..Len(line) : line[k].ev = "CLCC" => line[k].calls \in Seq(Line)
           /\ \A k \in 1..Len(line) : line[k].ev # "CLCC" => line[k] = Ev(line[k].ev, line[k].idx)
<1>1. line \in Seq(Heard) /\ todo \in Seq(Line)
  BY DEF ModemTyped
<1>2. \A k \in 1..Len(line) : line[k] \in Heard
  BY <1>1
<1> QED
  BY <1>1, <1>2 DEF Heard, Event0, Ev

(* Behind the last line is what the modem would say now.                    *)
LEMMA Behind ==
    ASSUME ModemTyped, NEW i, NEW k \in Nat, k > Len(line)
    PROVE  /\ ~Ends(i, k) /\ ~Starts(i, k) /\ ~Okay(k)
           /\ \A b, a : Shows(i, k, b, a) <=> b = Stage(call[i]) /\ a = Stage(call[i])
           /\ Speaks(i, k) <=> call[i] # "none"
<1>1. k # 0 /\ k \notin 1..Len(line)
  BY HeardAt
<1>2. ListAt(k) = <<>> /\ Len(<<>>) = 0
  BY <1>1 DEF ListAt
<1>3. \A s : ~Listed(i, k, s)
  BY <1>2 DEF Listed
<1>4. \A e : ~Hears(k, e)
  BY <1>1 DEF Hears
<1> QED
  BY <1>1, <1>3, <1>4 DEF Ends, Starts, Okay, Shows, Speaks

LEMMA EndsAt ==
    ASSUME ModemTyped, NEW i, NEW k \in Nat, Ends(i, k)
    PROVE  /\ k > 0 /\ k <= Len(line)
           /\ ~Okay(k) /\ Speaks(i, k)
           /\ \A j : Ends(j, k) => i = j
           /\ \A j, b, a : ~Shows(j, k, b, a)
<1>1. k \in 1..Len(line) /\ line[k] = Ev("CEND", i)
  BY DEF Ends, Hears
<1>2. k # 0 /\ k > 0 /\ k <= Len(line) /\ ~(k > Len(line))
  BY <1>1, HeardAt
<1>3. line[k].ev = "CEND" /\ line[k].idx = i
  BY <1>1 DEF Ev
<1>4. ListAt(k) = <<>> /\ Len(<<>>) = 0
  BY <1>2, <1>3 DEF ListAt
<1>5. \A j, s : ~Listed(j, k, s)
  BY <1>4 DEF Listed
<1>6. \A j : ~Hears(k, Ev("ORIG", j)) /\ ~Hears(k, Ev("CONN", j))
  BY <1>3 DEF Hears, Ev
<1>7. \A j : Ends(j, k) => i = j
  BY <1>3 DEF Ends, Hears, Ev
<1>8. \A j, b, a : ~Shows(j, k, b, a)
  BY <1>2, <1>5, <1>6 DEF Shows, Starts
<1> QED
  BY <1>2, <1>3, <1>7, <1>8 DEF Okay, Speaks

LEMMA ShowsSpeaks ==
    ASSUME ModemTyped, NEW i \in Idx, NEW k \in Nat, NEW b, NEW a, Shows(i, k, b, a),
           b # 0 \/ a # 0 \/ k <= Len(line)
    PROVE  Speaks(i, k)
<1>1. Stage("none") = 0
  BY DEF Stage
<1>2. CASE k > Len(line)
  BY <1>1, <1>2, Behind, HeardAt
<1>3. CASE ~(k > Len(line))
  BY <1>3 DEF Shows, Speaks
<1> QED
  BY <1>2, <1>3

LEMMA ShowsRange ==
    ASSUME NEW i, NEW k, NEW b, NEW a, Shows(i, k, b, a)
    PROVE  b \in 0..2 /\ a \in 0..2
  BY StageRange DEF Shows

-----------------------------------------------------------------------------
(* The monitor reads on.                                                    *)

(* What stood at position k + d stands at k.                                *)
Moved(d) ==
    /\ \A i \in Idx, k \in Nat, b, a \in 0..2 : Shows(i, k, b, a)' => Shows(i, k + d, b, a)
    /\ \A i \in Idx, k \in Nat : /\ Speaks(i, k)' => Speaks(i, k + d)
                                 /\ Ends(i, k)' => Ends(i, k + d)
                                 /\ Ends(i, k + d) /\ k > 0 => Ends(i, k)'
                                 /\ Starts(i, k + d) /\ k > 0 => Starts(i, k)'
    /\ \A k \in Nat : (Okay(k)' => Okay(k + d)) /\ (Okay(k + d) /\ k > 0 => Okay(k)')

LEMMA ReadsMove ==
    ASSUME ModemTyped, NEW ev, Reads(ev), UNCHANGED modem, 
           todo' = todo \/ (ev = "CLCC" /\ todo' = Event.calls)
    PROVE  /\ Moved(1)
           /\ todo' = todo => \A i \in Idx : ~Speaks(i, 0)' /\ \A b, a : ~Shows(i, 0, b, a)'
           /\ line # <<>> /\ line[1] = Event /\ Event.ev = ev /\ 1 \in 1..Len(line)
<1>1. line \in Seq(Heard) /\ line # <<>> /\ line' = Tail(line) /\ todo = <<>> /\ Event.ev = ev
      /\ call' = call
  BY DEF ModemTyped, Reads, modem
<1>2. Len(line) \in Nat /\ Len(line) > 0 /\ Event = line[1] /\ Len(line') = Len(line) - 1
      /\ \A k \in 1..Len(line') : line'[k] = line[k + 1]
  BY <1>1 DEF Event
<1>3. \A k \in Nat : k > 0 => (k \in 1..Len(line') <=> k + 1 \in 1..Len(line))
  BY <1>2
<1>4. \A k \in Nat : k > Len(line') <=> k + 1 > Len(line)
  BY <1>2
<1>5. \A k \in Nat : \A e : /\ Hears(k, e)' => Hears(k + 1, e)
                            /\ Hears(k + 1, e) /\ k > 0 => Hears(k, e)'
  <2>1. \A k \in Nat : k \in 1..Len(line') => k + 1 \in 1..Len(line) /\ line'[k] = line[k + 1]
    BY <1>2
  <2>2. \A k \in Nat : k + 1 \in 1..Len(line) /\ k > 0 => k \in 1..Len(line')
    BY <1>2
  <2> QED
    BY <2>1, <2>2 DEF Hears
<1>6. \A k \in Nat : k > 0 => ListAt(k)' = ListAt(k + 1)
  <2> SUFFICES ASSUME NEW k \in Nat, k > 0 PROVE ListAt(k)' = ListAt(k + 1)
    OBVIOUS
  <2>1. k # 0 /\ k + 1 # 0
    OBVIOUS
  <2>2. k \in 1..Len(line') <=> k + 1 \in 1..Len(line)
    BY <1>3
  <2>3. k \in 1..Len(line') => line'[k] = line[k + 1]
    BY <1>2
  <2> QED
    BY <2>1, <2>2, <2>3 DEF ListAt
<1>7. Len(<<>>) = 0 /\ 1..0 = {}
  OBVIOUS
<1>8. ASSUME todo' = todo
      PROVE  \A i, s : ~Listed(i, 0, s)'
  BY <1>1, <1>7, <1>8 DEF Listed, ListAt
<1>9. \A i, s : Listed(i, 0, s)' => Listed(i, 1, s)
  <2>1. CASE todo' = todo
    BY <1>8, <2>1
  <2>2. CASE ev = "CLCC" /\ todo' = Event.calls
    <3>1. ListAt(0)' = ListAt(1)
      BY <1>1, <1>2, <2>2 DEF ListAt
    <3> QED
      BY <3>1 DEF Listed
  <2> QED
    BY <2>1, <2>2
<1>10. \A i, k, s : k \in Nat /\ Listed(i, k, s)' => Listed(i, k + 1, s)
  <2> SUFFICES ASSUME NEW i, NEW k \in Nat, NEW s, Listed(i, k, s)'
               PROVE  Listed(i, k + 1, s)
    OBVIOUS
  <2>1. CASE k = 0
    BY <1>9, <2>1
  <2>2. CASE k > 0
    BY <1>6, <2>2 DEF Listed
  <2> QED
    BY <2>1, <2>2
<1>11. \A i \in Idx, k \in Nat, b, a \in 0..2 : Shows(i, k, b, a)' => Shows(i, k + 1, b, a)
  <2> SUFFICES ASSUME NEW i \in Idx, NEW k \in Nat, NEW b \in 0..2, NEW a \in 0..2,
                      Shows(i, k, b, a)'
               PROVE  Shows(i, k + 1, b, a)
    OBVIOUS
  <2>1. Hears(k, Ev("ORIG", i))' => Hears(k + 1, Ev("ORIG", i))
    BY <1>5
  <2>2. Hears(k, Ev("CONN", i))' => Hears(k + 1, Ev("CONN", i))
    BY <1>5
  <2>3. \A s \in CallState : Listed(i, k, s)' => Listed(i, k + 1, s)
    BY <1>10
  <2>4. (k > Len(line))' => k + 1 > Len(line) /\ call'[i] = call[i]
    BY <1>1, <1>4
  <2> QED
    BY <2>1, <2>2, <2>3, <2>4 DEF Shows, Starts
<1>12. \A i \in Idx, k \in Nat : Speaks(i, k)' => Speaks(i, k + 1)
  BY <1>1, <1>4, <1>5, <1>10 DEF Speaks, Starts, Ends
<1>13. \A k \in Nat : (Okay(k)' => Okay(k + 1)) /\ (Okay(k + 1) /\ k > 0 => Okay(k)')
  <2>1. \A k \in Nat : k \in 1..Len(line') => k + 1 \in 1..Len(line) /\ line'[k] = line[k + 1]
    BY <1>2
  <2>2. \A k \in Nat : k + 1 \in 1..Len(line) /\ k > 0 => k \in 1..Len(line')
    BY <1>2
  <2> QED
    BY <2>1, <2>2 DEF Okay
<1>14. Moved(1)
  BY <1>5, <1>11, <1>12, <1>13 DEF Moved, Ends, Starts
<1>15. ~(0 > Len(line')) /\ 0 \notin 1..Len(line')
  BY <1>2
<1>16. \A e : ~Hears(0, e)'
  BY <1>15 DEF Hears
<1>17. todo' = todo => \A i \in Idx : ~Speaks(i, 0)' /\ \A b, a : ~Shows(i, 0, b, a)'
  BY <1>8, <1>15, <1>16 DEF Speaks, Shows, Starts, Ends
<1>18. line # <<>> /\ line[1] = Event /\ Event.ev = ev /\ 1 \in 1..Len(line)
  BY <1>1, <1>2
<1> QED
  BY <1>14, <1>17, <1>18

(* The next call of a list.                                                 *)
LEMMA ListMoves ==
    ASSUME ModemTyped, OursListed(0), todo # <<>>, todo' = Tail(todo), UNCHANGED <<modem, line>>
    PROVE  /\ Moved(0) /\ Head(todo) \in Line
           /\ Listed(Head(todo).idx, 0, Head(todo).state)
           /\ Head(todo).state \in {"DIALING", "ACTIVE", "ONHOLD"} /\ Head(todo).dir = "out"
           /\ \A i : i = Head(todo).idx => \A b, a : ~Shows(i, 0, b, a)'
<1>1. todo \in Seq(Line) /\ Len(todo) \in Nat /\ Len(todo) > 0 /\ Head(todo) = todo[1]
      /\ Head(todo) \in Line /\ Len(todo') = Len(todo) - 1
      /\ (\A n \in 1..Len(todo') : n + 1 \in 1..Len(todo) /\ todo'[n] = todo[n + 1])
      /\ 1 \in 1..Len(todo)
  BY DEF ModemTyped
<1>2. call' = call /\ line' = line /\ ListAt(0) = todo /\ ListAt(0)' = todo'
  BY DEF modem, ListAt
<1>3. \A k \in Nat : k > 0 => ListAt(k)' = ListAt(k)
  BY <1>2 DEF ListAt
<1>4. \A k, e : Hears(k, e)' <=> Hears(k, e)
  BY <1>2 DEF Hears
<1>5. \A i, s : Listed(i, 0, s)' => Listed(i, 0, s)
  BY <1>1, <1>2 DEF Listed
<1>6. \A i, k, s : k \in Nat /\ Listed(i, k, s)' => Listed(i, k, s)
  <2> SUFFICES ASSUME NEW i, NEW k \in Nat, NEW s, Listed(i, k, s)' PROVE Listed(i, k, s)
    OBVIOUS
  <2>1. CASE k = 0
    BY <1>5, <2>1
  <2>2. CASE k > 0
    BY <1>3, <2>2 DEF Listed
  <2> QED
    BY <2>1, <2>2
<1>7. \A k \in Nat : k + 0 = k
  OBVIOUS
<1>8. \A k : Okay(k)' <=> Okay(k)
  BY <1>2 DEF Okay
<1>9. \A i \in Idx, k \in Nat, b, a \in 0..2 : Shows(i, k, b, a)' => Shows(i, k, b, a)
  <2> SUFFICES ASSUME NEW i \in Idx, NEW k \in Nat, NEW b \in 0..2, NEW a \in 0..2,
                      Shows(i, k, b, a)'
               PROVE  Shows(i, k, b, a)
    OBVIOUS
  <2>1. \A s \in CallState : Listed(i, k, s)' => Listed(i, k, s)
    BY <1>6
  <2> QED
    BY <1>2, <1>4, <2>1 DEF Shows, Starts
<1>10. \A i \in Idx, k \in Nat : Speaks(i, k)' => Speaks(i, k)
  BY <1>2, <1>4, <1>6 DEF Speaks, Starts, Ends
<1>11. Moved(0)
  BY <1>4, <1>7, <1>8, <1>9, <1>10 DEF Moved, Ends, Starts
<1>12. Head(todo).dir = "out" /\ Head(todo).state \in {"DIALING", "ACTIVE", "ONHOLD"}
       /\ \A m \in 1..Len(todo) : todo[1].idx = todo[m].idx => 1 = m
  BY <1>1, <1>2 DEF OursListed
<1>13. Listed(Head(todo).idx, 0, Head(todo).state)
  BY <1>1, <1>2 DEF Listed
<1>14. ASSUME NEW i, i = Head(todo).idx
       PROVE  \A s : ~Listed(i, 0, s)'
  <2> SUFFICES ASSUME NEW n \in 1..Len(todo'), todo'[n].idx = i PROVE FALSE
    BY <1>2 DEF Listed
  <2>1. n + 1 \in 1..Len(todo) /\ todo[1].idx = todo[n + 1].idx
    BY <1>1, <1>14
  <2>2. 1 = n + 1
    BY <1>12, <2>1
  <2> QED
    BY <2>2
<1>15. ~(0 > Len(line')) /\ \A e : ~Hears(0, e)'
  <2>1. ~(0 > Len(line')) /\ 0 \notin 1..Len(line')
    BY <1>2, HeardAt
  <2> QED
    BY <2>1 DEF Hears
<1>16. ASSUME NEW i, i = Head(todo).idx, NEW b, NEW a
       PROVE  ~Shows(i, 0, b, a)'
  <2>1. \A s : ~Listed(i, 0, s)'
    BY <1>14, <1>16
  <2>2. ~Hears(0, Ev("ORIG", i))' /\ ~Hears(0, Ev("CONN", i))'
    BY <1>15
  <2> QED
    BY <1>15, <2>1, <2>2 DEF Shows, Starts
<1> QED
  BY <1>1, <1>11, <1>12, <1>13, <1>16

(* What ends or starts at a later position does so after the step.          *)
LEMMA MovedBack ==
    ASSUME NEW d \in {0, 1}, Moved(d), NEW i \in Idx, NEW l \in Nat, l > d
    PROVE  /\ l - d \in Nat
           /\ Ends(i, l) => Ends(i, l - d)'
           /\ Starts(i, l) => Starts(i, l - d)'
           /\ Okay(l) => Okay(l - d)'
<1>1. l - d \in Nat /\ l - d > 0 /\ (l - d) + d = l
  OBVIOUS
<1> DEFINE k == l - d
<1>2. k \in Nat /\ k > 0 /\ k + d = l
  BY <1>1
<1> HIDE DEF k
<1>3. (Ends(i, k + d) => Ends(i, k)') /\ (Starts(i, k + d) => Starts(i, k)')
      /\ (Okay(k + d) => Okay(k)')
  BY <1>2 DEF Moved
<1>4. (Ends(i, l) => Ends(i, k)') /\ (Starts(i, l) => Starts(i, k)') /\ (Okay(l) => Okay(k)')
  BY <1>2, <1>3
<1> QED
  BY <1>1, <1>4 DEF k

LEMMA NothingAtZero ==
    ASSUME ModemTyped, NEW i
    PROVE  ~Ends(i, 0) /\ ~Starts(i, 0) /\ ~Okay(0)
<1>1. 0 \notin 1..Len(line)
  BY HeardAt
<1> QED
  BY <1>1 DEF Ends, Starts, Okay, Hears

(* What was said is in the same order when the monitor has read on.         *)
LEMMA SaidMoves ==
    ASSUME ModemTyped', NEW d \in {0, 1}, Moved(d), Said
    PROVE  Said'
<1>1. ASSUME NEW i \in Idx, NEW j \in Nat, NEW k \in Nat, NEW b \in 0..2, NEW a \in 0..2,
             NEW bb \in 0..2, NEW aa \in 0..2,
             j < k, Shows(i, j, b, a)', Shows(i, k, bb, aa)', bb < a
      PROVE  \E l \in Nat : j < l /\ l < k /\ Ends(i, l)'
  <2>1. Shows(i, j + d, b, a) /\ Shows(i, k + d, bb, aa) /\ j + d \in Nat /\ k + d \in Nat
        /\ j + d < k + d
    BY <1>1 DEF Moved
  <2>2. PICK l \in Nat : j + d < l /\ l < k + d /\ Ends(i, l)
    BY <1>1, <2>1 DEF Said, Ordered
  <2>3. l > d /\ l - d \in Nat /\ j < l - d /\ l - d < k
    BY <2>2
  <2>4. Ends(i, l - d)'
    BY <2>2, <2>3, MovedBack
  <2> QED
    BY <2>3, <2>4
<1>2. ASSUME NEW i \in Idx, NEW j \in Nat, NEW k \in Nat, NEW b \in 0..2, NEW a \in 0..2,
             Ends(i, j)', Shows(i, k, b, a)', b > 0, j < k
      PROVE  \E m \in Nat : j < m /\ m < k /\ Starts(i, m)'
  <2>1. Ends(i, j + d) /\ Shows(i, k + d, b, a) /\ j + d \in Nat /\ k + d \in Nat
        /\ j + d < k + d
    BY <1>2 DEF Moved
  <2>2. PICK l \in Nat : j + d < l /\ l < k + d /\ Starts(i, l)
    BY <1>2, <2>1 DEF Said, Restarts
  <2>3. l > d /\ l - d \in Nat /\ j < l - d /\ l - d < k
    BY <2>2
  <2>4. Starts(i, l - d)'
    BY <2>2, <2>3, MovedBack
  <2> QED
    BY <2>3, <2>4
<1> QED
  BY <1>1, <1>2 DEF Said, Ordered, Restarts

(* Nothing that concerns a descriptor was read.                             *)
LEMMA CalmTold ==
    ASSUME DriverTyped, ModemTyped, NEW d \in {0, 1}, Moved(d), Told0,
           UNCHANGED <<st, idx, whose>>, \A c \in Live : ~Ends(idx[c], d)
    PROVE  Told0'
<1>1. Live' = Live /\ \A c : (Known(c)' <=> Known(c)) /\ (Dialling(c)' <=> Dialling(c))
  BY DEF Live, Known, Dialling
<1>2. \A i \in Idx : (OfOne(i)' <=> OfOne(i)) /\ (OfCaller(i)' <=> OfCaller(i))
  BY <1>1 DEF OfOne, OfCaller
<1>3. Numbers'
  BY <1>1 DEF Told0, Numbers
<1>4. \A c \in Cpvt : Known(c) => c \in Live /\ idx[c] \in Idx
  BY DEF Told0, Numbers, Known
<1>5. ASSUME NEW c \in Cpvt, Known(c), NEW l \in Nat, Ends(idx[c], l)
      PROVE  l > d /\ l - d \in Nat /\ Ends(idx[c], l - d)'
  <2>1. l # 0 /\ l # d
    BY <1>4, <1>5, NothingAtZero
  <2>2. l > d
    BY <2>1
  <2>3. PICK i \in Idx : i = idx[c]
    BY <1>4, <1>5
  <2>4. idx'[c] = i
    BY <2>3
  <2>5. l - d \in Nat /\ Ends(i, l - d)'
    BY <1>5, <2>2, <2>3, MovedBack
  <2> QED
    BY <2>2, <2>3, <2>4, <2>5
<1>6. Owned'
  <2> SUFFICES ASSUME NEW c \in Cpvt, Known(c), whose[idx[c]] # c
               PROVE  \E l \in Nat : Ends(idx[c], l)'
    BY <1>1 DEF Owned
  <2>1. PICK l \in Nat : Ends(idx[c], l)
    BY DEF Told0, Owned
  <2> QED
    BY <1>5, <2>1
<1>7. Front'
  <2> SUFFICES ASSUME NEW c \in Cpvt, NEW k \in Nat, NEW b \in 0..2, NEW a \in 0..2,
                      Known(c), Shows(idx[c], k, b, a)', b < Stage(st[c])
               PROVE  \E l \in Nat : l < k /\ Ends(idx[c], l)'
    BY <1>1 DEF Front
  <2>1. Shows(idx[c], k + d, b, a) /\ k + d \in Nat
    BY <1>4 DEF Moved
  <2>2. PICK l \in Nat : l < k + d /\ Ends(idx[c], l)
    BY <2>1 DEF Told0, Front
  <2>3. l - d \in Nat /\ l - d < k /\ Ends(idx[c], l - d)'
    BY <1>5, <2>2
  <2> QED
    BY <2>3
<1>8. Accounted'
  BY <1>2 DEF Told0, Accounted, Moved
<1>9. Twice'
  <2> SUFFICES ASSUME NEW i \in Idx, NEW j \in Nat, NEW k \in Nat,
                      Ends(i, j)', Speaks(i, k)', j < k
               PROVE  OfOne(i) /\ OfCaller(i) /\ \A l \in Nat : l < j => ~Ends(i, l)'
    BY <1>2 DEF Twice
  <2>1. Ends(i, j + d) /\ Speaks(i, k + d) /\ j + d < k + d /\ j + d \in Nat /\ k + d \in Nat
    BY DEF Moved
  <2>2. OfOne(i) /\ OfCaller(i) /\ \A l \in Nat : l < j + d => ~Ends(i, l)
    BY <2>1 DEF Told0, Twice
  <2>3. \A l \in Nat : l < j => ~Ends(i, l)'
    BY <2>2 DEF Moved
  <2> QED
    BY <2>2, <2>3
<1>10. Caller'
  BY <1>2 DEF Told0, Caller, Moved
<1> QED
  BY <1>3, <1>6, <1>7, <1>8, <1>9, <1>10 DEF Told0

(* The descriptor c learns from what is said of number i that its call has  *)
(* come to state s: the number is its own already, or c is the descriptor   *)
(* that waits for it.                                                       *)
Concerns(c, i) ==
    /\ c \in Live /\ i \in Idx
    /\ \/ Known(c) /\ idx[c] = i
       \/ /\ Dialling(c) /\ whose[i] = c
          /\ \A e \in Live : idx[e] = i => e = c

OnlyDialler == \A c, e \in Cpvt : Dialling(c) /\ Dialling(e) => c = e

LEMMA NamedTold ==
    ASSUME DriverTyped, ModemTyped, ModemTyped', NEW d \in {0, 1}, Moved(d), Told0, Said,
           OnlyDialler, OneCall,
           NEW c \in Cpvt, NEW i \in Idx, Concerns(c, i),
           NEW s \in {"DIALING", "ACTIVE", "ONHOLD"},
           st' = [st EXCEPT ![c] = s], idx' = [idx EXCEPT ![c] = i], whose' = whose,
           NEW b \in 0..2, Shows(i, d, b, Stage(s)),
           \A j \in Idx : ~Ends(j, d), \A bb, aa : ~Shows(i, 0, bb, aa)'
    PROVE  /\ Told0'
           /\ \A r \in Idx : OfOne(r) => OfOne(r)'
           /\ OfOne(i)'
           /\ Dialling(c) => ~OfOne(i)
<1>1. c \in Live /\ st'[c] = s /\ idx'[c] = i
      /\ \A e \in Cpvt : e # c => st'[e] = st[e] /\ idx'[e] = idx[e]
  BY DEF DriverTyped, Concerns
<1>2. Live' = Live
  BY <1>1 DEF Live, CallState
<1>3. \A e \in Cpvt : /\ Known(e)' <=> (e = c \/ Known(e))
                      /\ Dialling(e)' <=> (e # c /\ Dialling(e))
  BY <1>1, <1>2 DEF Known, Dialling
<1>4. \A e : ~(Known(e) /\ Dialling(e))
  BY DEF Known, Dialling
<1>5. Dialling(c) => ~OfOne(i) /\ whose[i] = c
  BY <1>4 DEF OfOne, Known, Concerns
<1>6. ~Dialling(c) => Known(c) /\ idx[c] = i
  BY DEF Concerns
<1>7. \A r \in Idx : OfOne(r) => OfOne(r)'
  <2> SUFFICES ASSUME NEW r \in Idx, NEW e \in Cpvt, Known(e), idx[e] = r
               PROVE  OfOne(r)'
    BY DEF OfOne
  <2>1. idx'[e] = r
    BY <1>1, <1>4, <1>6
  <2> QED
    BY <1>3, <2>1 DEF OfOne
<1>8. OfOne(i)'
  BY <1>1, <1>3 DEF OfOne
(* Where a number belongs to a caller that is not c, it still does.         *)
<1>9. \A r \in Idx : OfCaller(r) => OfCaller(r)' \/ (r = i /\ Dialling(c))
  <2> SUFFICES ASSUME NEW r \in Idx, OfCaller(r)
               PROVE  OfCaller(r)' \/ (r = i /\ Dialling(c))
    OBVIOUS
  <2>1. CASE whose[r] = c
    <3>1. Dialling(c) /\ whose[i] = c
      BY <1>5, <2>1 DEF OfCaller
    <3>2. whose[r] = whose[i] /\ whose[r] # NULL
      BY <2>1, <3>1, CpvtAssumption
    <3> QED
      BY <3>1, <3>2 DEF OneCall
  <2>2. CASE whose[r] # c
    BY <1>3, <2>2 DEF OfCaller
  <2> QED
    BY <2>1, <2>2
<1>10. \A e \in Cpvt : Known(e) => e \in Live /\ idx[e] \in Idx
  BY DEF Told0, Numbers, Known
<1>11. ASSUME NEW r \in Idx, NEW l \in Nat, Ends(r, l)
       PROVE  l > d /\ l - d \in Nat /\ Ends(r, l - d)'
  <2>1. l # 0 /\ l # d
    BY <1>11, NothingAtZero
  <2>2. l > d
    BY <2>1
  <2> QED
    BY <1>11, <2>2, MovedBack
<1>12. Numbers'
  <2>1. \A e \in Live : e # c => idx[e] # i
    BY <1>1, <1>6 DEF Told0, Numbers, Concerns, Idx
  <2>2. \A e, f \in Live : idx'[e] = idx'[f] /\ idx'[e] # 0 => e = f
    BY <1>1, <2>1 DEF Told0, Numbers, Live
  <2>3. \A e \in Cpvt : Known(e)' => idx'[e] \in Idx
    BY <1>1, <1>3, <1>10
  <2> QED
    BY <1>2, <2>2, <2>3 DEF Numbers
<1>13. Owned'
  <2> SUFFICES ASSUME NEW e \in Cpvt, Known(e)', whose[idx'[e]] # e
               PROVE  \E l \in Nat : Ends(idx[e], l)'
    BY DEF Owned
  <2>1. Known(e) /\ idx'[e] = idx[e]
    BY <1>1, <1>3, <1>5, <1>6
  <2>2. PICK l \in Nat : Ends(idx[e], l)
    BY <2>1 DEF Told0, Owned
  <2>3. PICK r \in Idx : r = idx[e]
    BY <1>10, <2>1
  <2>4. l - d \in Nat /\ Ends(r, l - d)'
    BY <1>11, <2>2, <2>3
  <2>5. idx'[e] = r
    BY <2>1, <2>3
  <2> QED
    BY <2>4, <2>5
<1>14. Front'
  <2> SUFFICES ASSUME NEW e \in Cpvt, Known(e)', NEW k \in Nat, NEW bb \in 0..2, NEW aa \in 0..2,
                      Shows(idx[e], k, bb, aa)', bb < Stage(st'[e])
               PROVE  \E l \in Nat : l < k /\ Ends(idx[e], l)'
    BY DEF Front
  <2>1. PICK r \in Idx : r = idx'[e]
    BY <1>1, <1>3, <1>10
  <2>2. Shows(r, k, bb, aa)'
    BY <2>1
  <2>3. Shows(r, k + d, bb, aa) /\ k + d \in Nat
    BY <2>2 DEF Moved
  <2>4. \E l \in Nat : l < k + d /\ Ends(r, l)
    <3>1. CASE e = c
      <4>1. k # 0
        BY <1>1, <2>1, <2>2, <3>1
      <4>2. d < k + d /\ Stage(s) \in 0..2
        BY <4>1, StageRange
      <4>3. bb < Stage(s) /\ r = i
        BY <1>1, <2>1, <3>1
      <4> QED
        BY <2>3, <4>2, <4>3 DEF Said, Ordered
    <3>2. CASE e # c
      <4>1. Known(e) /\ idx[e] = r /\ st'[e] = st[e]
        BY <1>1, <1>3, <2>1, <3>2
      <4> QED
        BY <2>3, <4>1 DEF Told0, Front
    <3> QED
      BY <3>1, <3>2
  <2>5. PICK l \in Nat : l < k + d /\ Ends(r, l)
    BY <2>4
  <2>6. l - d \in Nat /\ l - d < k /\ Ends(r, l - d)'
    BY <1>11, <2>5
  <2> QED
    BY <2>1, <2>6
<1>15. Accounted'
  <2> SUFFICES ASSUME NEW r \in Idx, NEW k \in Nat, Speaks(r, k)'
               PROVE  OfOne(r)' \/ OfCaller(r)'
    BY DEF Accounted
  <2>1. Speaks(r, k + d) /\ k + d \in Nat
    BY DEF Moved
  <2>2. OfOne(r) \/ OfCaller(r)
    BY <2>1 DEF Told0, Accounted
  <2> QED
    BY <1>7, <1>8, <1>9, <2>2
<1>16. Twice'
  <2> SUFFICES ASSUME NEW r \in Idx, NEW j \in Nat, NEW k \in Nat,
                      Ends(r, j)', Speaks(r, k)', j < k
               PROVE  OfOne(r)' /\ OfCaller(r)' /\ \A l \in Nat : l < j => ~Ends(r, l)'
    BY DEF Twice
  <2>1. Ends(r, j + d) /\ Speaks(r, k + d) /\ j + d < k + d /\ j + d \in Nat /\ k + d \in Nat
    BY DEF Moved
  <2>2. OfOne(r) /\ OfCaller(r) /\ \A l \in Nat : l < j + d => ~Ends(r, l)
    BY <2>1 DEF Told0, Twice
  <2>3. \A l \in Nat : l < j => ~Ends(r, l)'
    BY <2>2 DEF Moved
  <2> QED
    BY <1>5, <1>7, <1>9, <2>2, <2>3
<1>17. Caller'
  <2> SUFFICES ASSUME NEW r \in Idx, NEW k \in Nat, NEW a \in 0..2,
                      Shows(r, k, 0, a)', Speaks(r, k)'
               PROVE  OfCaller(r)'
    BY DEF Caller
  <2>1. Shows(r, k + d, 0, a) /\ Speaks(r, k + d) /\ k + d \in Nat
    BY DEF Moved
  <2>2. OfCaller(r)
    BY <2>1 DEF Told0, Caller
  <2>3. ASSUME r = i, Dialling(c) PROVE FALSE
    <3>1. k # 0
      BY <2>3
    <3>2. d < k + d /\ Stage(s) \in 0..2 /\ 0 < Stage(s)
      BY <3>1 DEF Stage
    <3>3. PICK l \in Nat : d < l /\ l < k + d /\ Ends(i, l)
      BY <2>1, <2>3, <3>2 DEF Said, Ordered
    <3>4. OfOne(i)
      BY <2>1, <2>3, <3>3 DEF Told0, Twice
    <3> QED
      BY <1>5, <2>3, <3>4
  <2> QED
    BY <1>9, <2>2, <2>3
<1> QED
  BY <1>5, <1>7, <1>8, <1>12, <1>13, <1>14, <1>15, <1>16, <1>17 DEF Told0

(* The call of descriptor c is over, as was read: c is gone.                *)
LEMMA EndedTold ==
    ASSUME DriverTyped, ModemTyped, ModemTyped', Moved(1), Told0, OnlyDialler, OneCall,
           NEW c \in Live, NEW i \in Idx, idx[c] = i, Ends(i, 1),
           st' = [st EXCEPT ![c] = "freed"],
           \A e \in Cpvt : e # c => idx'[e] = idx[e], whose' = whose,
           \A r \in Idx : ~Speaks(r, 0)' /\ \A b, a : ~Shows(r, 0, b, a)'
    PROVE  /\ Told0'
           /\ \A r \in Idx : OfOne(r) => OfOne(r)' \/ r = i
           /\ Dialling(c) => whose[i] = c /\ ~OfOne(i)
<1>1. c \in Cpvt /\ st'[c] = "freed" /\ \A e \in Cpvt : e # c => st'[e] = st[e]
  BY DEF DriverTyped, Live
<1>2. Live' = Live \ {c}
  BY <1>1 DEF Live, CallState
<1>3. \A e \in Cpvt : /\ Known(e)' <=> (e # c /\ Known(e))
                      /\ Dialling(e)' <=> (e # c /\ Dialling(e))
  BY <1>1, <1>2 DEF Known, Dialling
<1>4. \A e \in Cpvt : ~(Known(e) /\ Dialling(e))
  BY DEF Known, Dialling
<1>5. \A e \in Cpvt : Known(e) => e \in Live /\ idx[e] \in Idx
  BY DEF Told0, Numbers, Known
<1>6. \A e \in Live : idx[e] = i => e = c
  <2>1. i # 0
    BY DEF Idx
  <2> QED
    BY <2>1 DEF Told0, Numbers
<1>7. OfOne(i) => Known(c)
  BY <1>5, <1>6 DEF OfOne
<1>8. \A r \in Idx : OfOne(r) => OfOne(r)' \/ r = i
  <2> SUFFICES ASSUME NEW r \in Idx, NEW e \in Cpvt, Known(e), idx[e] = r, r # i
               PROVE  OfOne(r)'
    BY DEF OfOne
  <2>1. e # c /\ idx'[e] = r
    OBVIOUS
  <2> QED
    BY <1>3, <2>1 DEF OfOne
<1>9. Speaks(i, 1)
  BY EndsAt
<1>10. Dialling(c) => whose[i] = c /\ ~OfOne(i)
  <2> SUFFICES ASSUME Dialling(c) PROVE whose[i] = c /\ ~OfOne(i)
    OBVIOUS
  <2>1. ~OfOne(i)
    BY <1>1, <1>4, <1>7
  <2>2. OfCaller(i)
    BY <1>9, <2>1 DEF Told0, Accounted
  <2> QED
    BY <1>1, <2>1, <2>2 DEF OfCaller, OnlyDialler
<1>11. \A r \in Idx : OfCaller(r) => OfCaller(r)' \/ (r = i /\ ~OfOne(i))
  <2> SUFFICES ASSUME NEW r \in Idx, OfCaller(r)
               PROVE  OfCaller(r)' \/ (r = i /\ ~OfOne(i))
    OBVIOUS
  <2>1. CASE whose[r] = c
    <3>1. Dialling(c)
      BY <2>1 DEF OfCaller
    <3>2. whose[r] = whose[i] /\ whose[r] # NULL /\ ~OfOne(i)
      BY <1>1, <1>10, <2>1, <3>1, CpvtAssumption
    <3> QED
      BY <3>2 DEF OneCall
  <2>2. CASE whose[r] # c
    BY <1>3, <2>2 DEF OfCaller
  <2> QED
    BY <2>1, <2>2
(* What is still said of the number concerns the call of another.           *)
<1>12. \A k \in Nat : Speaks(i, k)' => OfOne(i) /\ OfCaller(i)'
  <2> SUFFICES ASSUME NEW k \in Nat, Speaks(i, k)'
               PROVE  OfOne(i) /\ OfCaller(i)'
    OBVIOUS
  <2>1. k # 0 /\ Speaks(i, k + 1)
    BY DEF Moved
  <2>2. 1 < k + 1 /\ k + 1 \in Nat
    BY <2>1
  <2>3. OfOne(i) /\ OfCaller(i)
    BY <2>1, <2>2 DEF Told0, Twice
  <2> QED
    BY <1>11, <2>3
<1>13. ASSUME NEW r \in Idx, NEW l \in Nat, Ends(r, l), r # i
       PROVE  l > 1 /\ l - 1 \in Nat /\ Ends(r, l - 1)'
  <2>1. l # 0 /\ l # 1
    BY <1>13, NothingAtZero, EndsAt
  <2>2. l > 1
    BY <2>1
  <2> QED
    BY <1>13, <2>2, MovedBack
<1>14. \A e \in Cpvt : Known(e)' => /\ Known(e) /\ e # c /\ idx'[e] = idx[e] /\ st'[e] = st[e]
                                    /\ idx[e] \in Idx /\ idx[e] # i
  BY <1>1, <1>3, <1>5, <1>6
<1>15. Numbers'
  <2>1. \A e, f \in Live : e # c /\ f # c /\ idx'[e] = idx'[f] /\ idx'[e] # 0 => e = f
    BY DEF Told0, Numbers, Live
  <2>2. \A e \in Cpvt : Known(e)' => idx'[e] \in Idx
    BY <1>14
  <2> QED
    BY <1>2, <2>1, <2>2 DEF Numbers
<1>16. Owned'
  <2> SUFFICES ASSUME NEW e \in Cpvt, Known(e)', whose[idx'[e]] # e
               PROVE  \E l \in Nat : Ends(idx[e], l)'
    BY DEF Owned
  <2>1. PICK l \in Nat : Ends(idx[e], l)
    BY <1>14 DEF Told0, Owned
  <2>2. PICK r \in Idx : r = idx[e] /\ r # i /\ idx'[e] = r
    BY <1>14
  <2>3. l - 1 \in Nat /\ Ends(r, l - 1)'
    BY <1>13, <2>1, <2>2
  <2> QED
    BY <2>2, <2>3
<1>17. Front'
  <2> SUFFICES ASSUME NEW e \in Cpvt, Known(e)', NEW k \in Nat, NEW bb \in 0..2, NEW aa \in 0..2,
                      Shows(idx[e], k, bb, aa)', bb < Stage(st'[e])
               PROVE  \E l \in Nat : l < k /\ Ends(idx[e], l)'
    BY DEF Front
  <2>1. PICK r \in Idx : r = idx[e] /\ r # i /\ idx'[e] = r
    BY <1>14
  <2>2. Shows(r, k, bb, aa)'
    BY <2>1
  <2>3. Shows(r, k + 1, bb, aa) /\ k + 1 \in Nat
    BY <2>2 DEF Moved
  <2>4. PICK l \in Nat : l < k + 1 /\ Ends(r, l)
    BY <1>14, <2>1, <2>3 DEF Told0, Front
  <2>5. l - 1 \in Nat /\ l - 1 < k /\ Ends(r, l - 1)'
    BY <1>13, <2>1, <2>4
  <2> QED
    BY <2>1, <2>5
<1>18. Accounted'
  <2> SUFFICES ASSUME NEW r \in Idx, NEW k \in Nat, Speaks(r, k)', r # i
               PROVE  OfOne(r)' \/ OfCaller(r)'
    BY <1>12 DEF Accounted
  <2>1. Speaks(r, k + 1) /\ k + 1 \in Nat
    BY DEF Moved
  <2>2. OfOne(r) \/ OfCaller(r)
    BY <2>1 DEF Told0, Accounted
  <2> QED
    BY <1>8, <1>11, <2>2
<1>19. Twice'
  <2> SUFFICES ASSUME NEW r \in Idx, NEW j \in Nat, NEW k \in Nat,
                      Ends(r, j)', Speaks(r, k)', j < k
               PROVE  OfOne(r)' /\ OfCaller(r)' /\ \A l \in Nat : l < j => ~Ends(r, l)'
    BY DEF Twice
  <2>1. Ends(r, j + 1) /\ Speaks(r, k + 1) /\ j + 1 < k + 1 /\ j + 1 \in Nat /\ k + 1 \in Nat
    BY DEF Moved
  <2>2. OfOne(r) /\ OfCaller(r) /\ \A l \in Nat : l < j + 1 => ~Ends(r, l)
    BY <2>1 DEF Told0, Twice
  <2>3. \A l \in Nat : l < j => ~Ends(r, l)'
    BY <2>2 DEF Moved
  <2>4. j # 0
    BY DEF Speaks
  <2>5. 1 < j + 1
    BY <2>4
  <2>6. r # i
    BY <2>2, <2>5
  <2> QED
    BY <1>8, <1>11, <2>2, <2>3, <2>6
<1>20. Caller'
  <2> SUFFICES ASSUME NEW r \in Idx, NEW k \in Nat, NEW a \in 0..2,
                      Shows(r, k, 0, a)', Speaks(r, k)', r # i
               PROVE  OfCaller(r)'
    BY <1>12 DEF Caller
  <2>1. Shows(r, k + 1, 0, a) /\ Speaks(r, k + 1) /\ k + 1 \in Nat
    BY DEF Moved
  <2> QED
    BY <1>11, <2>1 DEF Told0, Caller
<1> QED
  BY <1>8, <1>10, <1>15, <1>16, <1>17, <1>18, <1>19, <1>20 DEF Told0

-----------------------------------------------------------------------------
(* The tasks *)

(* No task that dials was added, and none went to the head.                 *)
KeptTasks ==
    /\ \A k, l \in Nat : DialAt(k)' /\ DialAt(l)' => k = l
    /\ \A k \in Nat : DialAt(k)' =>
          \E l \in Nat : /\ DialAt(l) /\ tasks'[k] = tasks[l]
                         /\ l = 1 => k = 1 /\ HeadCmd' = HeadCmd
    /\ \A r \in Idx : Dialled(r)' => Dialled(r)

Tasks == OneCall /\ DialTasks /\ LastDialled /\ Unread /\ Fresh

(* What a step leaves of the descriptors: the one that dials, that with a   *)
(* number, unless its call is over, and that which is being called.         *)
KeptCalls(d) ==
    /\ \A o \in Cpvt : Dialling(o) /\ (\E k \in Nat : DialAt(k) /\ tasks[k].cpvt = o)
          => Dialling(o)'
    /\ \A c \in Cpvt : Begun(c) => Begun(c)'
    /\ \A c \in Cpvt : c \in Live' /\ phase'[c] = "down" => Dialling(c)'
    /\ last' # NULL => last' = last /\ \A o \in Cpvt : o = last => Dialling(o)'
    /\ \A r \in Idx : OfOne(r) => OfOne(r)' \/ Ends(r, d)
    /\ \A r \in Idx : Starts(r, d) /\ (Dialled(r) \/ (last' # NULL /\ whose[r] = last'))
          => OfOne(r)'

LEMMA TasksMove ==
    ASSUME DriverTyped, ModemTyped, NEW d \in {0, 1}, Moved(d), KeptTasks, KeptCalls(d),
           Tasks, Said, whose' = whose, ~Okay(d), OutOnly,
           \A r \in Idx : Ends(r, d) =>
               \A q \in Idx : ~Speaks(q, 0)' /\ \A b, a : ~Shows(q, 0, b, a)'
    PROVE  Tasks'
<1>1. OneCall'
  <2>1. \A i, j \in Idx : whose'[i] = whose'[j] /\ whose'[i] # NULL => i = j
    BY DEF Tasks, OneCall
  <2>2. ASSUME NEW i \in Idx, whose'[i] # NULL
        PROVE  Begun(whose[i])'
    <3>1. PICK c \in Cpvt : c = whose[i]
      BY <2>2 DEF OutOnly
    <3>2. Begun(c) /\ c = whose'[i]
      BY <2>2, <3>1 DEF Tasks, OneCall
    <3>3. Begun(c)'
      BY <3>2 DEF KeptCalls
    <3> QED
      BY <3>2, <3>3
  <2>3. \A c \in Live' : phase'[c] = "down" => Dialling(c)'
    BY DEF KeptCalls, Live
  <2> QED
    BY <2>1, <2>2, <2>3 DEF OneCall
<1>2. \A m \in Nat : Okay(m) => m > d /\ m - d \in Nat /\ Okay(m - d)'
  <2> SUFFICES ASSUME NEW m \in Nat, Okay(m)
               PROVE  m > d /\ m - d \in Nat /\ Okay(m - d)'
    OBVIOUS
  <2>1. m # 0 /\ m # d /\ 1 \in Idx
    BY NothingAtZero, BoundAssumption DEF Idx
  <2>2. m > d
    BY <2>1
  <2> QED
    BY <2>1, <2>2, MovedBack
<1>3. DialTasks'
  <2> SUFFICES ASSUME NEW k \in Nat, DialAt(k)'
               PROVE  /\ tasks'[k].cpvt \in Cpvt /\ Dialling(tasks[k].cpvt)' /\ Begun(tasks[k].cpvt)'
                      /\ \A i \in Idx : whose'[i] = tasks'[k].cpvt
                           => k = 1 /\ HeadCmd'.cmd = "D" /\ \E m \in Nat : Okay(m)'
                      /\ \A m, n \in DOMAIN tasks'[k].cmds :
                            tasks'[k].cmds[m].cmd = "D" /\ tasks'[k].cmds[n].cmd = "D" => m = n
    BY DEF DialTasks, KeptTasks
  <2>1. PICK l \in Nat : /\ DialAt(l) /\ tasks'[k] = tasks[l]
                         /\ l = 1 => k = 1 /\ HeadCmd' = HeadCmd
    BY DEF KeptTasks
  <2>2. PICK o \in Cpvt : o = tasks[l].cpvt
    BY <2>1 DEF Tasks, DialTasks
  <2>3. Dialling(o) /\ Begun(o) /\ o = tasks'[k].cpvt
    BY <2>1, <2>2 DEF Tasks, DialTasks
  <2>4. Dialling(o)' /\ Begun(o)'
    BY <2>1, <2>2, <2>3 DEF KeptCalls
  <2>5. ASSUME NEW i \in Idx, whose'[i] = tasks'[k].cpvt
        PROVE  k = 1 /\ HeadCmd'.cmd = "D" /\ \E m \in Nat : Okay(m)'
    <3>1. whose[i] = tasks[l].cpvt
      BY <2>1, <2>5
    <3>2. l = 1 /\ HeadCmd.cmd = "D" /\ \E m \in Nat : Okay(m)
      BY <2>1, <3>1 DEF Tasks, DialTasks
    <3> QED
      BY <1>2, <2>1, <3>2
  <2>6. \A m, n \in DOMAIN tasks[l].cmds :
            tasks[l].cmds[m].cmd = "D" /\ tasks[l].cmds[n].cmd = "D" => m = n
    BY <2>1 DEF Tasks, DialTasks
  <2> QED
    BY <2>1, <2>3, <2>4, <2>5, <2>6
<1>4. LastDialled'
  <2> SUFFICES ASSUME last' # NULL PROVE Dialling(last)' /\ Begun(last)'
    BY DEF LastDialled
  <2>1. PICK o \in Cpvt : o = last /\ last' = o
    BY DEF KeptCalls, DriverTyped
  <2>2. Dialling(o)' /\ Begun(o)
    BY <2>1 DEF KeptCalls, Tasks, LastDialled
  <2>3. Begun(o)'
    BY <2>2 DEF KeptCalls
  <2> QED
    BY <2>1, <2>2, <2>3
<1>5. Unread'
  <2> SUFFICES ASSUME NEW r \in Idx, NEW m \in Nat, Dialled(r)', Okay(m)'
               PROVE  /\ \A k \in Nat : k < m /\ Speaks(r, k)' => OfOne(r)'
                      /\ \A i \in Idx, j, k \in Nat : Ends(i, j)' /\ Speaks(i, k)' /\ j < k => m < k
    BY DEF Unread
  <2>1. Dialled(r) /\ Okay(m + d) /\ m + d \in Nat
    BY DEF KeptTasks, Moved
  <2>2. \A i \in Idx, j, k \in Nat : Ends(i, j) /\ Speaks(i, k) /\ j < k => m + d < k
    BY <2>1 DEF Tasks, Unread
  <2>3. ASSUME NEW k \in Nat, k < m, Speaks(r, k)'
        PROVE  OfOne(r)'
    <3>1. Speaks(r, k + d) /\ k + d \in Nat /\ k + d < m + d
      BY <2>3 DEF Moved
    <3>2. OfOne(r)
      BY <2>1, <3>1 DEF Tasks, Unread
    <3>3. ASSUME Ends(r, d) PROVE FALSE
      <4>1. k # 0
        BY <2>3, <3>3
      <4>2. d < k + d
        BY <4>1
      <4>3. m + d < k + d
        BY <2>2, <3>1, <3>3, <4>2
      <4> QED
        BY <2>3, <4>3
    <3> QED
      BY <3>2, <3>3 DEF KeptCalls
  <2>4. ASSUME NEW i \in Idx, NEW j \in Nat, NEW k \in Nat, Ends(i, j)', Speaks(i, k)', j < k
        PROVE  m < k
    <3>1. Ends(i, j + d) /\ Speaks(i, k + d) /\ j + d < k + d /\ j + d \in Nat /\ k + d \in Nat
      BY <2>4 DEF Moved
    <3>2. m + d < k + d
      BY <2>2, <3>1
    <3> QED
      BY <3>2
  <2> QED
    BY <2>3, <2>4
<1>6. Fresh'
  <2> SUFFICES ASSUME NEW r \in Idx, NEW k \in Nat, NEW b \in 0..2, NEW a \in 0..2,
                      Dialled(r)' \/ (last' # NULL /\ whose'[r] = last'),
                      Shows(r, k, b, a)', b > 0
               PROVE  OfOne(r)' \/ \E m \in Nat : m < k /\ Starts(r, m)'
    BY DEF Fresh
  <2>1. Dialled(r) \/ (last' # NULL /\ whose[r] = last')
    BY DEF KeptTasks
  <2>2. Dialled(r) \/ (last # NULL /\ whose[r] = last)
    BY <2>1 DEF KeptCalls
  <2>3. Shows(r, k + d, b, a) /\ k + d \in Nat
    BY DEF Moved
  <2>4. OfOne(r) \/ \E m \in Nat : m < k + d /\ Starts(r, m)
    BY <2>2, <2>3 DEF Tasks, Fresh
  <2>5. ASSUME NEW m \in Nat, m < k + d, Starts(r, m), m > d
        PROVE  \E l \in Nat : l < k /\ Starts(r, l)'
    <3>1. m - d \in Nat /\ m - d < k /\ Starts(r, m - d)'
      BY <2>5, MovedBack
    <3> QED
      BY <3>1
  <2>6. CASE OfOne(r)
    <3>1. CASE Ends(r, d)
      <4>1. k # 0
        BY <3>1
      <4>2. d < k + d
        BY <4>1
      <4>3. PICK m \in Nat : d < m /\ m < k + d /\ Starts(r, m)
        BY <2>3, <3>1, <4>2 DEF Said, Restarts
      <4> QED
        BY <2>5, <4>3
    <3>2. CASE ~Ends(r, d)
      BY <2>6, <3>2 DEF KeptCalls
    <3> QED
      BY <3>1, <3>2
  <2>7. CASE \E m \in Nat : m < k + d /\ Starts(r, m)
    <3>1. PICK m \in Nat : m < k + d /\ Starts(r, m)
      BY <2>7
    <3>2. m # 0
      BY <3>1, NothingAtZero
    <3>3. m = d \/ m > d
      BY <3>2
    <3>4. CASE m = d
      BY <2>1, <3>1, <3>4 DEF KeptCalls
    <3>5. CASE m > d
      BY <2>5, <3>1, <3>5
    <3> QED
      BY <3>3, <3>4, <3>5
  <2> QED
    BY <2>4, <2>6, <2>7
<1> QED
  BY <1>1, <1>3, <1>4, <1>5, <1>6 DEF Tasks

(* An urgent task goes behind the first, the rest moves by one.             *)
LEMMA UrgentAt ==
    ASSUME NEW T, NEW s \in Seq(T), NEW t \in T
    PROVE  /\ Urgent(s, t) \in Seq(T) /\ Len(Urgent(s, t)) = Len(s) + 1
           /\ s = <<>> => Urgent(s, t)[1] = t
           /\ s # <<>> => /\ Urgent(s, t)[1] = s[1] /\ Urgent(s, t)[2] = t
                          /\ \A k \in 3..(Len(s) + 1) : Urgent(s, t)[k] = s[k - 1]
<1>1. CASE s = <<>>
  BY <1>1 DEF Urgent
<1>2. CASE s # <<>>
  <2> DEFINE u == <<Head(s), t>>
             v == Tail(s)
  <2>1. Len(s) \in Nat /\ Len(s) > 0 /\ Head(s) = s[1] /\ Head(s) \in T
    BY <1>2
  <2>2. u \in Seq(T) /\ Len(u) = 2 /\ u[1] = s[1] /\ u[2] = t
    BY <2>1
  <2>3. v \in Seq(T) /\ Len(v) = Len(s) - 1 /\ \A k \in 1..(Len(s) - 1) : v[k] = s[k + 1]
    BY <1>2, <2>1
  <2>4. Urgent(s, t) = u \o v
    BY <1>2 DEF Urgent
  <2> HIDE DEF u, v
  <2>0. /\ u \o v \in Seq(T) /\ Len(u \o v) = Len(u) + Len(v)
        /\ \A k \in 1..(Len(u) + Len(v)) : (u \o v)[k] = IF k <= Len(u) THEN u[k] ELSE v[k - Len(u)]
    BY <2>2, <2>3, ConcatProperties
  <2>5. u \o v \in Seq(T) /\ Len(u \o v) = Len(s) + 1
    BY <2>0, <2>1, <2>2, <2>3
  <2>6. (u \o v)[1] = s[1] /\ (u \o v)[2] = t
    <3>1. 1 \in 1..(Len(u) + Len(v)) /\ 2 \in 1..(Len(u) + Len(v))
      BY <2>1, <2>2, <2>3
    <3> QED
      BY <2>0, <2>2, <3>1
  <2>7. ASSUME NEW k \in 3..(Len(s) + 1)
        PROVE  (u \o v)[k] = s[k - 1]
    <3>1. k > Len(u) /\ k - 2 \in 1..(Len(s) - 1) /\ k \in 1..(Len(u) + Len(v))
      BY <2>1, <2>2, <2>3
    <3>2. (u \o v)[k] = v[k - 2]
      BY <2>0, <2>2, <2>3, <3>1
    <3>3. v[k - 2] = s[(k - 2) + 1] /\ (k - 2) + 1 = k - 1
      BY <2>1, <2>3, <3>1
    <3> QED
      BY <3>2, <3>3
  <2> QED
    BY <1>2, <2>4, <2>5, <2>6, <2>7
<1> QED
  BY <1>1, <1>2

(* A task that does not dial is added, or none; and the tasks of a          *)
(* descriptor that has none that dials may go to sys_chan.                  *)
LEMMA UrgentKept ==
    ASSUME QueueRight, NEW t \in TaskSet, t.cmds # <<>>, ~Dials(t), OutOnly, DialTasks,
           whose' = whose, NEW list, list = Urgent(tasks, t) \/ list = tasks,
           tasks' = list \/ \E c \in Cpvt : /\ \A k \in Nat : DialAt(k) => tasks[k].cpvt # c
                                            /\ tasks' = Relinked(list, c)
    PROVE  KeptTasks
<1>1. tasks \in Seq(TaskSet)
  BY SeqMonotone DEF QueueRight, Right
<1>2. Len(tasks) \in Nat /\ (tasks # <<>> => Len(tasks) > 0) /\ (tasks = <<>> => Len(tasks) = 0)
  BY <1>1
<1> DEFINE u == Urgent(tasks, t)
<1>0. /\ u \in Seq(TaskSet) /\ Len(u) = Len(tasks) + 1
      /\ tasks = <<>> => u[1] = t
      /\ tasks # <<>> => /\ u[1] = tasks[1] /\ u[2] = t
                         /\ \A k \in 3..(Len(tasks) + 1) : u[k] = tasks[k - 1]
  BY <1>1, UrgentAt
<1>00. list = u \/ list = tasks
  OBVIOUS
<1> HIDE DEF u
<1>3. list \in Seq(TaskSet) /\ Len(list) \in Nat /\ DOMAIN list = 1..Len(list)
  BY <1>0, <1>00, <1>1
<1>4. ASSUME NEW k \in 1..Len(list), Dials(list[k])
      PROVE  \E l \in Nat : /\ DialAt(l) /\ list[k] = tasks[l] /\ (l = 1 => k = 1)
                            /\ (list = tasks => k = l)
                            /\ (list # tasks => l = IF k = 1 THEN 1 ELSE k - 1)
                            /\ (list # tasks => k # 2)
  <2>1. CASE list = tasks
    <3>1. k \in Nat /\ DialAt(k)
      BY <1>2, <1>4, <2>1 DEF DialAt
    <3> QED
      BY <2>1, <3>1
  <2>2. CASE list # tasks /\ tasks = <<>>
    <3>0. list = u
      BY <1>00, <2>2
    <3>2. Len(list) = 1 /\ list[1] = t
      BY <1>0, <1>2, <2>2, <3>0
    <3>1. k = 1 /\ list[1] = t
      BY <3>2
    <3> QED
      BY <1>4, <3>1
  <2>3. CASE list # tasks /\ tasks # <<>>
    <3>0. list = u
      BY <1>00, <2>3
    <3>1. /\ Len(list) = Len(tasks) + 1 /\ list[1] = tasks[1] /\ list[2] = t
          /\ \A n \in 3..(Len(tasks) + 1) : list[n] = tasks[n - 1]
      BY <1>0, <2>3, <3>0
    <3>2. k # 2
      BY <1>4, <3>1
    <3>3. CASE k = 1
      <4>1. DialAt(1) /\ list[k] = tasks[1]
        BY <1>2, <1>4, <2>3, <3>1, <3>3 DEF DialAt
      <4> QED
        BY <2>3, <3>3, <4>1
    <3>4. CASE k # 1
      <4>1. k \in 3..(Len(tasks) + 1) /\ k - 1 \in 1..Len(tasks) /\ k - 1 \in Nat /\ k - 1 # 1
        BY <1>2, <3>1, <3>2, <3>4
      <4>2. list[k] = tasks[k - 1]
        BY <3>1, <4>1
      <4>3. DialAt(k - 1)
        BY <1>4, <4>1, <4>2 DEF DialAt
      <4> QED
        BY <2>3, <3>2, <3>4, <4>1, <4>2, <4>3
    <3> QED
      BY <3>3, <3>4
  <2> QED
    BY <2>1, <2>2, <2>3
<1>5. \A k, l \in 1..Len(list) : Dials(list[k]) /\ Dials(list[l]) => k = l
  <2> SUFFICES ASSUME NEW k \in 1..Len(list), NEW l \in 1..Len(list),
                      Dials(list[k]), Dials(list[l])
               PROVE  k = l
    OBVIOUS
  <2>1. PICK p \in Nat : /\ DialAt(p)
                         /\ (list = tasks => k = p)
                         /\ (list # tasks => p = IF k = 1 THEN 1 ELSE k - 1)
                         /\ (list # tasks => k # 2)
    BY <1>4
  <2>2. PICK q \in Nat : /\ DialAt(q)
                         /\ (list = tasks => l = q)
                         /\ (list # tasks => q = IF l = 1 THEN 1 ELSE l - 1)
                         /\ (list # tasks => l # 2)
    BY <1>4
  <2>3. p = q
    BY <2>1, <2>2 DEF DialTasks
  <2> QED
    BY <2>1, <2>2, <2>3
<1>6. ASSUME NEW k \in 1..Len(list), Dials(list[k])
      PROVE  \E l \in Nat : DialAt(l) /\ list[k] = tasks[l] /\ (l = 1 => k = 1)
  BY <1>4, <1>6
(* The tasks of the step are those of the list, but for their owners.       *)
<1>7. /\ Len(tasks') = Len(list) /\ tasks' \in Seq(TaskSet)
      /\ \A k \in 1..Len(list) : /\ tasks'[k].cmds = list[k].cmds
                                 /\ tasks'[k].cpvt # SysChan => tasks'[k] = list[k]
                                 /\ Dials(list[k]) => tasks'[k] = list[k]
  <2>1. CASE tasks' = list
    BY <1>3, <2>1
  <2>2. CASE \E c \in Cpvt : /\ \A k \in Nat : DialAt(k) => tasks[k].cpvt # c
                             /\ tasks' = Relinked(list, c)
    <3>1. PICK c \in Cpvt : /\ \A k \in Nat : DialAt(k) => tasks[k].cpvt # c
                            /\ tasks' = Relinked(list, c)
      BY <2>2
    <3>2. tasks' = [k \in 1..Len(list) |-> IF list[k].cpvt = c THEN Task(SysChan, list[k].cmds)
                                          ELSE list[k]]
      BY <1>3, <3>1 DEF Relinked
    <3>3. \A k \in 1..Len(list) : list[k] \in TaskSet
      BY <1>3
    <3>4. \A k \in 1..Len(list) : tasks'[k] = IF list[k].cpvt = c THEN Task(SysChan, list[k].cmds)
                                              ELSE list[k]
      BY <3>2
    <3>5. \A x \in TaskSet : /\ Task(SysChan, x.cmds) \in TaskSet
                             /\ Task(SysChan, x.cmds).cmds = x.cmds
                             /\ Task(SysChan, x.cmds).cpvt = SysChan
      BY DEF Task, TaskSet
    <3>10. \A k \in 1..Len(list) : tasks'[k] \in TaskSet
      BY <3>3, <3>4, <3>5
    <3>6. tasks' = [k \in 1..Len(list) |-> tasks'[k]]
      BY <3>2
    <3>7. tasks' \in Seq(TaskSet) /\ Len(tasks') = Len(list)
      BY <1>3, <3>2, <3>10, SeqOfElements
    <3>8. \A k \in 1..Len(list) : /\ tasks'[k].cmds = list[k].cmds
                                  /\ tasks'[k].cpvt # SysChan => tasks'[k] = list[k]
      BY <3>3, <3>4, <3>5
    <3>9. \A k \in 1..Len(list) : Dials(list[k]) => tasks'[k] = list[k]
      BY <1>6, <3>1, <3>4
    <3> QED
      BY <3>7, <3>8, <3>9
  <2> QED
    BY <2>1, <2>2
<1>8. \A k \in Nat : DialAt(k)' => k \in 1..Len(list) /\ Dials(list[k]) /\ tasks'[k] = list[k]
  BY <1>7 DEF DialAt, Dials
<1>9. tasks # <<>> /\ 1 \in 1..Len(list) => list[1] = tasks[1]
  BY <1>0, <1>00
<1>10. tasks' # <<>> => HeadTask' = tasks'[1] /\ 1 \in 1..Len(list)
  BY <1>3, <1>7 DEF HeadTask
<1>11. tasks # <<>> => HeadTask = tasks[1]
  BY <1>1 DEF HeadTask
<1>12. ASSUME NEW k \in Nat, DialAt(k)'
       PROVE  \E l \in Nat : /\ DialAt(l) /\ tasks'[k] = tasks[l]
                             /\ l = 1 => k = 1 /\ HeadCmd' = HeadCmd
  <2>1. PICK l \in Nat : DialAt(l) /\ list[k] = tasks[l] /\ (l = 1 => k = 1)
    BY <1>6, <1>8, <1>12
  <2>2. tasks'[k] = tasks[l]
    BY <1>8, <1>12, <2>1
  <2>3. l = 1 => HeadTask' = HeadTask
    <3> SUFFICES ASSUME l = 1 PROVE HeadTask' = HeadTask
      OBVIOUS
    <3>1. tasks # <<>> /\ tasks' # <<>>
      BY <1>2, <1>3, <1>7, <1>8, <1>12, <2>1 DEF DialAt
    <3> QED
      BY <1>10, <1>11, <2>1, <2>2, <3>1
  <2> QED
    BY <2>1, <2>2, <2>3 DEF HeadCmd
<1>13. ASSUME NEW r \in Idx, Dialled(r)'
       PROVE  Dialled(r)
  <2>1. tasks' # <<>> /\ HeadCmd'.cmd = "D" /\ whose[r] = HeadTask'.cpvt
    BY <1>13 DEF Dialled
  <2>2. whose[r] # SysChan
    BY CpvtAssumption DEF OutOnly
  <2>3. HeadTask' = list[1] /\ 1 \in 1..Len(list)
    BY <1>7, <1>10, <2>1, <2>2
  <2>4. tasks # <<>>
    <3> SUFFICES ASSUME tasks = <<>> PROVE FALSE
      OBVIOUS
    <3>1. list[1] = t
      BY <1>0, <1>00, <1>2, <2>3
    <3>2. t.cmds \in Seq(CmdSet) /\ Head(t.cmds) = t.cmds[1] /\ 1 \in DOMAIN t.cmds
      BY DEF TaskSet
    <3>3. HeadCmd' = t.cmds[1]
      BY <2>3, <3>1, <3>2 DEF HeadCmd
    <3> QED
      BY <2>1, <3>2, <3>3 DEF Dials
  <2>5. HeadTask' = HeadTask
    BY <1>9, <1>11, <2>3, <2>4
  <2> QED
    BY <2>1, <2>4, <2>5 DEF Dialled, HeadCmd
<1>14. \A k, l \in Nat : DialAt(k)' /\ DialAt(l)' => k = l
  BY <1>5, <1>8
<1> QED
  BY <1>12, <1>13, <1>14 DEF KeptTasks

(* A command is done: the one that dials is gone when it was its turn.      *)
LEMMA DoneKept ==
    ASSUME QueueRight, tasks # <<>>, NEW ok, tasks' = CmdDone(ok), DialTasks
    PROVE  /\ \A k, l \in Nat : DialAt(k)' /\ DialAt(l)' => k = l
           /\ HeadCmd.cmd = "D" => \A k \in Nat : ~DialAt(k)'
           /\ \A k \in Nat : DialAt(k)' =>
                 /\ \E l \in Nat : DialAt(l) /\ tasks'[k].cpvt = tasks[l].cpvt
                 /\ \A m, n \in DOMAIN tasks'[k].cmds :
                       tasks'[k].cmds[m].cmd = "D" /\ tasks'[k].cmds[n].cmd = "D" => m = n
           /\ tasks' # <<>> /\ HeadCmd'.cmd = "D" => DialAt(1)' /\ HeadTask' = tasks'[1]
           /\ HeadCmd.cmd = "D" => DialAt(1) /\ HeadTask = tasks[1]
<1>1. tasks \in Seq(TaskSet)
  BY SeqMonotone DEF QueueRight, Right
<1>2. /\ Len(tasks) \in Nat /\ Len(tasks) > 0 /\ HeadTask = tasks[1] /\ 1 \in 1..Len(tasks)
      /\ \A k \in 1..Len(tasks) : tasks[k] \in Right
  BY <1>1 DEF HeadTask, QueueRight
<1>3. /\ HeadTask \in TaskSet /\ HeadTask.cmds \in Seq(CmdSet) /\ HeadTask.cmds # <<>>
      /\ Len(HeadTask.cmds) \in Nat /\ Len(HeadTask.cmds) > 0 /\ HeadCmd = HeadTask.cmds[1]
      /\ 1 \in DOMAIN HeadTask.cmds
  <2>1. HeadTask \in TaskSet /\ HeadTask.cmds \in Seq(CmdSet) /\ HeadTask.cmds # <<>>
    BY <1>2 DEF Right, TaskSet
  <2> QED
    BY <2>1 DEF HeadCmd
<1>4. HeadCmd.cmd = "D" => DialAt(1)
  BY <1>2, <1>3 DEF DialAt, Dials
<1> DEFINE rest == Tail(tasks)
           same == <<Task(HeadTask.cpvt, Tail(HeadTask.cmds))>> \o Tail(tasks)
<1>5. /\ rest \in Seq(TaskSet) /\ Len(rest) = Len(tasks) - 1
      /\ \A k \in 1..Len(rest) : rest[k] = tasks[k + 1]
  BY <1>1, HeadTailProperties
<1>6. CASE tasks' = rest
  <2>1. \A k \in Nat : DialAt(k)' => DialAt(k + 1) /\ tasks'[k] = tasks[k + 1]
    <3> SUFFICES ASSUME NEW k \in Nat, DialAt(k)'
                 PROVE  DialAt(k + 1) /\ tasks'[k] = tasks[k + 1]
      OBVIOUS
    <3> HIDE DEF rest
    <3>1. k \in 1..Len(rest) /\ Dials(rest[k])
      BY <1>6 DEF DialAt, Dials
    <3>2. rest[k] = tasks[k + 1] /\ k + 1 \in 1..Len(tasks)
      BY <1>2, <1>5, <3>1
    <3> QED
      BY <1>6, <3>1, <3>2 DEF DialAt
  <2>2. \A k, l \in Nat : DialAt(k)' /\ DialAt(l)' => k = l
    <3> SUFFICES ASSUME NEW k \in Nat, NEW l \in Nat, DialAt(k)', DialAt(l)' PROVE k = l
      OBVIOUS
    <3>1. k + 1 = l + 1
      BY <2>1 DEF DialTasks
    <3> QED
      BY <3>1
  <2>3. HeadCmd.cmd = "D" => \A k \in Nat : ~DialAt(k)'
    <3> SUFFICES ASSUME HeadCmd.cmd = "D", NEW k \in Nat, DialAt(k)' PROVE FALSE
      OBVIOUS
    <3>1. k + 1 = 1 /\ k \in 1..Len(tasks')
      BY <1>4, <2>1 DEF DialTasks, DialAt
    <3> QED
      BY <3>1
  <2>4. \A k \in Nat : DialAt(k)' =>
           /\ \E l \in Nat : DialAt(l) /\ tasks'[k].cpvt = tasks[l].cpvt
           /\ \A m, n \in DOMAIN tasks'[k].cmds :
                 tasks'[k].cmds[m].cmd = "D" /\ tasks'[k].cmds[n].cmd = "D" => m = n
    <3> SUFFICES ASSUME NEW k \in Nat, DialAt(k)'
                 PROVE  /\ \E l \in Nat : DialAt(l) /\ tasks'[k].cpvt = tasks[l].cpvt
                        /\ \A m, n \in DOMAIN tasks'[k].cmds :
                              tasks'[k].cmds[m].cmd = "D" /\ tasks'[k].cmds[n].cmd = "D" => m = n
      OBVIOUS
    <3>1. k + 1 \in Nat /\ DialAt(k + 1) /\ tasks'[k] = tasks[k + 1]
      BY <2>1
    <3>2. \A m, n \in DOMAIN tasks[k + 1].cmds :
              tasks[k + 1].cmds[m].cmd = "D" /\ tasks[k + 1].cmds[n].cmd = "D" => m = n
      BY <3>1 DEF DialTasks
    <3> QED
      BY <3>1, <3>2
  <2>5. tasks' # <<>> /\ HeadCmd'.cmd = "D" => DialAt(1)' /\ HeadTask' = tasks'[1]
    <3> SUFFICES ASSUME tasks' # <<>>, HeadCmd'.cmd = "D"
                 PROVE  DialAt(1)' /\ HeadTask' = tasks'[1]
      OBVIOUS
    <3>1. 1 \in 1..Len(tasks') /\ HeadTask' = tasks'[1]
      BY <1>5, <1>6 DEF HeadTask
    <3>2. tasks'[1] = tasks[2] /\ 2 \in 1..Len(tasks)
      BY <1>2, <1>5, <1>6, <3>1
    <3>3. tasks[2].cmds \in Seq(CmdSet) /\ tasks[2].cmds # <<>>
      BY <1>2, <3>2 DEF Right, TaskSet
    <3>4. Head(tasks[2].cmds) = tasks[2].cmds[1] /\ 1 \in DOMAIN tasks[2].cmds
      BY <3>3
    <3>5. HeadCmd' = tasks[2].cmds[1]
      BY <3>1, <3>2, <3>4 DEF HeadCmd
    <3>6. Dials(tasks'[1])
      BY <3>2, <3>4, <3>5 DEF Dials
    <3> QED
      BY <3>1, <3>6 DEF DialAt, Dials
  <2> QED
    BY <1>2, <1>4, <2>2, <2>3, <2>4, <2>5
<1>7. CASE tasks' # rest
  <2> DEFINE t == Task(HeadTask.cpvt, Tail(HeadTask.cmds))
  <2>1. tasks' = same /\ Len(HeadTask.cmds) # 1
    BY <1>7 DEF CmdDone
  <2>2. /\ Tail(HeadTask.cmds) \in Seq(CmdSet) /\ Tail(HeadTask.cmds) # <<>>
        /\ \A j \in DOMAIN Tail(HeadTask.cmds) :
              j + 1 \in DOMAIN HeadTask.cmds /\ Tail(HeadTask.cmds)[j] = HeadTask.cmds[j + 1]
        /\ \A j \in DOMAIN Tail(HeadTask.cmds) : j \in Nat /\ j > 0
        /\ 1 \in DOMAIN Tail(HeadTask.cmds)
        /\ Head(Tail(HeadTask.cmds)) = Tail(HeadTask.cmds)[1]
    <3>1. /\ Tail(HeadTask.cmds) \in Seq(CmdSet) /\ Tail(HeadTask.cmds) # <<>>
          /\ \A j \in DOMAIN Tail(HeadTask.cmds) :
                j + 1 \in DOMAIN HeadTask.cmds /\ Tail(HeadTask.cmds)[j] = HeadTask.cmds[j + 1]
      BY <1>3, <2>1, TailOf
    <3> DEFINE q == Tail(HeadTask.cmds)
    <3>2. q \in Seq(CmdSet) /\ q # <<>>
      BY <3>1
    <3> HIDE DEF q
    <3>3. (\A j \in DOMAIN q : j \in Nat /\ j > 0) /\ 1 \in DOMAIN q /\ Head(q) = q[1]
      BY <3>2
    <3> QED
      BY <3>1, <3>3 DEF q
  <2>3. t.cpvt = HeadTask.cpvt /\ t.cmds = Tail(HeadTask.cmds) /\ t \in TaskSet
    BY <1>3, <2>2 DEF Task, TaskSet
  <2> HIDE DEF t
  <2>4. /\ Len(tasks') = Len(tasks) /\ tasks'[1] = t
        /\ \A k \in 2..Len(tasks) : tasks'[k] = tasks[k]
    <3>1. <<t>> \in Seq(TaskSet) /\ Len(<<t>>) = 1 /\ <<t>>[1] = t
      BY <2>3
    <3> DEFINE w == <<t>>
    <3>2. tasks' = w \o rest /\ w \in Seq(TaskSet) /\ Len(w) = 1 /\ w[1] = t
      BY <2>1, <3>1 DEF t
    <3> HIDE DEF w, rest
    <3>3. /\ Len(w \o rest) = Len(w) + Len(rest)
          /\ \A k \in 1..(Len(w) + Len(rest)) : (w \o rest)[k] = IF k <= Len(w) THEN w[k] ELSE rest[k - Len(w)]
      <4>1. rest \in Seq(TaskSet) /\ w \in Seq(TaskSet)
        BY <1>5, <3>2
      <4> QED
        BY <4>1, ConcatProperties
    <3>4. Len(tasks') = Len(tasks)
      <4>1. Len(rest) = Len(tasks) - 1 /\ Len(tasks') = Len(w) + Len(rest) /\ Len(w) = 1
        BY <1>5, <3>2, <3>3, Zenon
      <4>2. Len(tasks) \in Nat
        BY <1>2
      <4> HIDE DEF rest
      <4> QED
        BY <4>1, <4>2
    <3>5. tasks'[1] = t
      <4>1. 1 \in 1..(Len(w) + Len(rest)) /\ 1 <= Len(w)
        BY <1>2, <1>5, <3>2
      <4>2. (w \o rest)[1] = w[1]
        BY <3>3, <4>1
      <4> QED
        BY <3>2, <4>2
    <3>6. ASSUME NEW k \in 2..Len(tasks) PROVE tasks'[k] = tasks[k]
      <4>1. k \in 1..(Len(w) + Len(rest)) /\ ~(k <= Len(w)) /\ k - 1 \in 1..Len(rest) /\ (k - 1) + 1 = k
        BY <1>2, <1>5, <3>2
      <4>2. tasks'[k] = rest[k - 1]
        BY <3>2, <3>3, <4>1
      <4>3. rest[k - 1] = tasks[(k - 1) + 1]
        BY <1>5, <4>1
      <4> QED
        BY <4>1, <4>2, <4>3
    <3> QED
      BY <3>4, <3>5, <3>6
  <2>5. Dials(t) => DialAt(1) /\ HeadCmd.cmd # "D"
    <3> SUFFICES ASSUME NEW j \in DOMAIN Tail(HeadTask.cmds), Tail(HeadTask.cmds)[j].cmd = "D"
                 PROVE  DialAt(1) /\ HeadCmd.cmd # "D"
      BY <2>3 DEF Dials
    <3>1. j + 1 \in DOMAIN HeadTask.cmds /\ HeadTask.cmds[j + 1].cmd = "D" /\ j + 1 # 1
      BY <2>2
    <3>2. DialAt(1)
      BY <1>2, <3>1 DEF DialAt, Dials
    <3>3. HeadCmd.cmd # "D"
      BY <1>2, <1>3, <3>1, <3>2 DEF DialTasks
    <3> QED
      BY <3>2, <3>3
  <2>6. \A k \in Nat : DialAt(k)' => DialAt(k) /\ tasks'[k].cpvt = tasks[k].cpvt
                                     /\ (k = 1 => Dials(t)) /\ (k # 1 => tasks'[k] = tasks[k])
    <3> SUFFICES ASSUME NEW k \in Nat, DialAt(k)'
                 PROVE  DialAt(k) /\ tasks'[k].cpvt = tasks[k].cpvt
                        /\ (k = 1 => Dials(t)) /\ (k # 1 => tasks'[k] = tasks[k])
      OBVIOUS
    <3>1. k \in 1..Len(tasks) /\ Dials(tasks'[k])
      BY <2>4 DEF DialAt, Dials
    <3>2. CASE k = 1
      BY <1>2, <2>3, <2>4, <2>5, <3>1, <3>2
    <3>3. CASE k # 1
      <4>1. k \in 2..Len(tasks)
        BY <1>2, <3>1, <3>3
      <4>2. tasks'[k] = tasks[k]
        BY <2>4, <4>1
      <4> QED
        BY <3>1, <3>3, <4>2 DEF DialAt
    <3> QED
      BY <3>2, <3>3
  <2>7. \A k, l \in Nat : DialAt(k)' /\ DialAt(l)' => k = l
    BY <2>6 DEF DialTasks
  <2>8. HeadCmd.cmd = "D" => \A k \in Nat : ~DialAt(k)'
    <3> SUFFICES ASSUME HeadCmd.cmd = "D", NEW k \in Nat, DialAt(k)' PROVE FALSE
      OBVIOUS
    <3>1. k = 1
      BY <1>4, <2>6 DEF DialTasks
    <3> QED
      BY <2>5, <2>6, <3>1
  <2>9. \A k \in Nat : DialAt(k)' =>
           /\ \E l \in Nat : DialAt(l) /\ tasks'[k].cpvt = tasks[l].cpvt
           /\ \A m, n \in DOMAIN tasks'[k].cmds :
                 tasks'[k].cmds[m].cmd = "D" /\ tasks'[k].cmds[n].cmd = "D" => m = n
    <3> SUFFICES ASSUME NEW k \in Nat, DialAt(k)'
                 PROVE  \A m, n \in DOMAIN tasks'[k].cmds :
                           tasks'[k].cmds[m].cmd = "D" /\ tasks'[k].cmds[n].cmd = "D" => m = n
      BY <2>6
    <3>1. DialAt(k)
      BY <2>6
    <3>2. \A m, n \in DOMAIN tasks[k].cmds :
              tasks[k].cmds[m].cmd = "D" /\ tasks[k].cmds[n].cmd = "D" => m = n
      BY <3>1 DEF DialTasks
    <3>3. CASE k # 1
      BY <2>6, <3>2, <3>3
    <3>4. CASE k = 1
      <4> SUFFICES ASSUME NEW m \in DOMAIN Tail(HeadTask.cmds), NEW n \in DOMAIN Tail(HeadTask.cmds),
                          Tail(HeadTask.cmds)[m].cmd = "D", Tail(HeadTask.cmds)[n].cmd = "D"
                   PROVE  m = n
        BY <2>3, <2>4, <3>4
      <4>1. m + 1 = n + 1
        BY <1>2, <2>2, <3>2, <3>4
      <4> QED
        BY <2>2, <4>1
    <3> QED
      BY <3>3, <3>4
  <2>10. tasks' # <<>> /\ HeadCmd'.cmd = "D" => DialAt(1)' /\ HeadTask' = tasks'[1]
    <3> SUFFICES ASSUME HeadCmd'.cmd = "D"
                 PROVE  DialAt(1)' /\ HeadTask' = tasks'[1]
      OBVIOUS
    <3>1. HeadTask' = t /\ 1 \in 1..Len(tasks')
      <4>1. same = <<t>> \o Tail(tasks) /\ tasks' = same
        BY <2>1 DEF t
      <4>2. <<t>> \in Seq(TaskSet) /\ Tail(tasks) \in Seq(TaskSet)
        BY <1>5, <2>3
      <4>3. tasks' \in Seq(TaskSet)
        BY <4>1, <4>2, ConcatProperties
      <4>4. Head(tasks') = tasks'[1] /\ 1 \in 1..Len(tasks')
        BY <1>2, <2>4, <4>3
      <4> QED
        BY <2>4, <4>4 DEF HeadTask
    <3>2. HeadCmd' = Tail(HeadTask.cmds)[1]
      BY <2>2, <2>3, <3>1 DEF HeadCmd
    <3>3. Dials(t)
      BY <2>2, <2>3, <3>2 DEF Dials
    <3>4. DialAt(1)'
      BY <2>4, <3>1, <3>3 DEF DialAt, Dials
    <3> QED
      BY <2>4, <3>1, <3>4
  <2> QED
    BY <1>2, <1>4, <2>7, <2>8, <2>9, <2>10
<1> QED
  BY <1>6, <1>7

LEMMA DoneTasks ==
    ASSUME DriverTyped, ModemTyped, Moved(1), QueueRight, tasks # <<>>,
           NEW ok, tasks' = CmdDone(ok), Tasks, UNCHANGED <<st, idx, whose, phase>>, OutOnly,
           \A r \in Idx : ~Ends(r, 1) /\ ~Starts(r, 1),
           last' = last \/ (HeadCmd.cmd = "D" /\ last' = HeadTask.cpvt)
    PROVE  Tasks'
<1>1. Live' = Live /\ \A c : /\ Known(c)' <=> Known(c)
                             /\ Dialling(c)' <=> Dialling(c)
                             /\ Begun(c)' <=> Begun(c)
  BY DEF Live, Known, Dialling, Begun
<1>2. \A r \in Idx : OfOne(r)' <=> OfOne(r)
  BY <1>1 DEF OfOne
<1>3. /\ \A k, l \in Nat : DialAt(k)' /\ DialAt(l)' => k = l
      /\ HeadCmd.cmd = "D" => \A k \in Nat : ~DialAt(k)'
      /\ \A k \in Nat : DialAt(k)' =>
            /\ \E l \in Nat : DialAt(l) /\ tasks'[k].cpvt = tasks[l].cpvt
            /\ \A m, n \in DOMAIN tasks'[k].cmds :
                  tasks'[k].cmds[m].cmd = "D" /\ tasks'[k].cmds[n].cmd = "D" => m = n
      /\ tasks' # <<>> /\ HeadCmd'.cmd = "D" => DialAt(1)' /\ HeadTask' = tasks'[1]
      /\ HeadCmd.cmd = "D" => DialAt(1) /\ HeadTask = tasks[1]
  BY DoneKept DEF Tasks
<1>4. OneCall'
  <2>1. ASSUME NEW i \in Idx, whose'[i] # NULL
        PROVE  Begun(whose[i])'
    <3>1. PICK c \in Cpvt : c = whose[i]
      BY <2>1 DEF OutOnly
    <3>2. Begun(c)' /\ c = whose'[i]
      BY <1>1, <2>1, <3>1 DEF Tasks, OneCall
    <3> QED
      BY <3>2
  <2>2. \A c \in Live' : phase'[c] = "down" => Dialling(c)'
    BY <1>1 DEF Tasks, OneCall
  <2> QED
    BY <2>1, <2>2 DEF Tasks, OneCall
(* The owner of a task that dials has no call yet.                          *)
<1>5. ASSUME NEW k \in Nat, DialAt(k)'
      PROVE  \E o \in Cpvt : /\ o = tasks'[k].cpvt /\ Dialling(o) /\ Begun(o)
                             /\ \A i \in Idx : whose[i] # o
  <2>1. PICK l \in Nat : DialAt(l) /\ tasks'[k].cpvt = tasks[l].cpvt
    BY <1>3, <1>5
  <2>2. PICK o \in Cpvt : o = tasks[l].cpvt
    BY <2>1 DEF Tasks, DialTasks
  <2>3. Dialling(o) /\ Begun(o) /\ \A i \in Idx : whose[i] = o => HeadCmd.cmd = "D"
    BY <2>1, <2>2 DEF Tasks, DialTasks
  <2> QED
    BY <1>3, <1>5, <2>1, <2>2, <2>3
<1>6. DialTasks'
  <2> SUFFICES ASSUME NEW k \in Nat, DialAt(k)'
               PROVE  /\ tasks'[k].cpvt \in Cpvt /\ Dialling(tasks[k].cpvt)' /\ Begun(tasks[k].cpvt)'
                      /\ \A i \in Idx : whose'[i] # tasks'[k].cpvt
    BY <1>3 DEF DialTasks
  <2>1. PICK o \in Cpvt : /\ o = tasks'[k].cpvt /\ Dialling(o) /\ Begun(o)
                          /\ \A i \in Idx : whose[i] # o
    BY <1>5
  <2>2. Dialling(o)' /\ Begun(o)'
    BY <1>1, <2>1
  <2> QED
    BY <2>1, <2>2
<1>7. \A r \in Idx : ~Dialled(r)'
  <2> SUFFICES ASSUME NEW r \in Idx, tasks' # <<>>, HeadCmd'.cmd = "D", whose'[r] = HeadTask'.cpvt
               PROVE  FALSE
    BY DEF Dialled
  <2>1. DialAt(1)' /\ HeadTask' = tasks'[1]
    BY <1>3
  <2> QED
    BY <1>5, <2>1
<1>8. LastDialled'
  <2> SUFFICES ASSUME last' # NULL PROVE Dialling(last)' /\ Begun(last)'
    BY DEF LastDialled
  <2>1. \E o \in Cpvt : o = last' /\ Dialling(o) /\ Begun(o)
    <3>1. CASE last' = last
      BY <3>1 DEF Tasks, LastDialled, DriverTyped
    <3>2. CASE HeadCmd.cmd = "D" /\ last' = HeadTask.cpvt
      BY <1>3, <3>2 DEF Tasks, DialTasks
    <3> QED
      BY <3>1, <3>2
  <2>2. PICK o \in Cpvt : o = last' /\ Dialling(o) /\ Begun(o)
    BY <2>1
  <2>3. Dialling(o)' /\ Begun(o)'
    BY <1>1, <2>2
  <2> QED
    BY <2>2, <2>3
<1>9. Unread'
  BY <1>7 DEF Unread
<1>10. Fresh'
  <2> SUFFICES ASSUME NEW r \in Idx, NEW k \in Nat, NEW b \in 0..2, NEW a \in 0..2,
                      last' # NULL, whose'[r] = last', Shows(r, k, b, a)', b > 0
               PROVE  OfOne(r)' \/ \E m \in Nat : m < k /\ Starts(r, m)'
    BY <1>7 DEF Fresh
  <2>1. Dialled(r) \/ (last # NULL /\ whose[r] = last)
    BY DEF Dialled
  <2>2. Shows(r, k + 1, b, a) /\ k + 1 \in Nat
    BY DEF Moved
  <2>3. OfOne(r) \/ \E m \in Nat : m < k + 1 /\ Starts(r, m)
    BY <2>1, <2>2 DEF Tasks, Fresh
  <2>4. CASE \E m \in Nat : m < k + 1 /\ Starts(r, m)
    <3>1. PICK m \in Nat : m < k + 1 /\ Starts(r, m)
      BY <2>4
    <3>2. m # 0 /\ m # 1
      BY <3>1, NothingAtZero
    <3>3. m > 1 /\ m - 1 \in Nat /\ m - 1 < k
      BY <3>1, <3>2
    <3>4. Starts(r, m - 1)'
      BY <3>1, <3>3, MovedBack
    <3> QED
      BY <3>3, <3>4
  <2> QED
    BY <1>2, <2>3, <2>4
<1> QED
  BY <1>4, <1>6, <1>8, <1>9, <1>10 DEF Tasks

-----------------------------------------------------------------------------
(* What the monitor does, line by line                                      *)

LEMMA ReadsOurs ==
    ASSUME ModemTyped, NEW ev, Reads(ev),
           todo' = todo \/ (ev = "CLCC" /\ todo' = Event.calls),
           \A k \in Nat : OursListed(k) /\ Numbered(k)
    PROVE  \A k \in Nat : OursListed(k)' /\ Numbered(k)'
<1>1. line \in Seq(Heard) /\ line # <<>> /\ line' = Tail(line) /\ todo = <<>> /\ Event.ev = ev
  BY DEF ModemTyped, Reads
<1>2. Len(line) \in Nat /\ Len(line) > 0 /\ Event = line[1] /\ Len(line') = Len(line) - 1
      /\ (\A k \in 1..Len(line') : line'[k] = line[k + 1]) /\ 1 \in 1..Len(line)
  BY <1>1 DEF Event
<1>3. ASSUME NEW k \in Nat, k > 0
      PROVE  ListAt(k)' = ListAt(k + 1)
  <2>1. k # 0 /\ k + 1 # 0
    BY <1>3
  <2>2. k \in 1..Len(line') <=> k + 1 \in 1..Len(line)
    BY <1>2, <1>3
  <2>3. k \in 1..Len(line') => line'[k] = line[k + 1]
    BY <1>2
  <2> QED
    BY <2>1, <2>2, <2>3 DEF ListAt
<1>4. \A k \in Nat : k > 0 => OursListed(k)'
  <2> SUFFICES ASSUME NEW k \in Nat, k > 0 PROVE OursListed(k)'
    OBVIOUS
  <2>1. OursListed(k + 1)
    OBVIOUS
  <2> QED
    BY <1>3, <2>1 DEF OursListed
<1>5. OursListed(0)'
  <2>1. CASE todo' = todo
    <3>1. ListAt(0)' = <<>> /\ Len(<<>>) = 0
      BY <1>1, <2>1 DEF ListAt
    <3> QED
      BY <3>1 DEF OursListed
  <2>2. CASE ev = "CLCC" /\ todo' = Event.calls
    <3>1. ListAt(0)' = ListAt(1)
      BY <1>1, <1>2, <2>2 DEF ListAt
    <3>2. OursListed(1)
      OBVIOUS
    <3> QED
      BY <3>1, <3>2 DEF OursListed
  <2> QED
    BY <2>1, <2>2
<1>6. ASSUME NEW k \in Nat
      PROVE  Numbered(k)'
  <2>1. k \in 1..Len(line') => k + 1 \in 1..Len(line) /\ line'[k] = line[k + 1]
    BY <1>2
  <2>2. Numbered(k + 1)
    OBVIOUS
  <2> QED
    BY <2>1, <2>2 DEF Numbered
<1> QED
  BY <1>4, <1>5, <1>6

LEMMA ListOurs ==
    ASSUME ModemTyped, todo # <<>>, todo' = Tail(todo), line' = line, 
           \A k \in Nat : OursListed(k) /\ Numbered(k)
    PROVE  \A k \in Nat : OursListed(k)' /\ Numbered(k)'
<1>1. \A k \in Nat : k # 0 => OursListed(k)'
  <2> SUFFICES ASSUME NEW k \in Nat, k # 0 PROVE OursListed(k)'
    OBVIOUS
  <2>1. ListAt(k)' = ListAt(k) /\ OursListed(k)
    BY DEF ListAt
  <2> QED
    BY <2>1 DEF OursListed
<1>2. OursListed(0)'
  <2>1. todo \in Seq(Line) /\ Len(todo) \in Nat /\ Len(todo) > 0 /\ Len(todo') = Len(todo) - 1
        /\ (\A n \in 1..Len(todo') : n + 1 \in 1..Len(todo) /\ todo'[n] = todo[n + 1])
    BY DEF ModemTyped
  <2>2. ListAt(0) = todo /\ ListAt(0)' = todo' /\ OursListed(0)
    BY DEF ListAt
  <2>3. \A n \in 1..Len(todo') : todo'[n].dir = "out" /\ todo'[n].state \in {"DIALING", "ACTIVE", "ONHOLD"}
    BY <2>1, <2>2 DEF OursListed
  <2>4. ASSUME NEW n \in 1..Len(todo'), NEW m \in 1..Len(todo'), todo'[n].idx = todo'[m].idx
        PROVE  n = m
    <3>1. n + 1 = m + 1
      BY <2>1, <2>2, <2>4 DEF OursListed
    <3> QED
      BY <3>1
  <2> QED
    BY <2>2, <2>3, <2>4 DEF OursListed
<1>3. \A k \in Nat : Numbered(k)'
  BY DEF Numbered
<1> QED
  BY <1>1, <1>2, <1>3

LEMMA OnlyOneDials ==
    ASSUME OutOnly, OneAtATime
    PROVE  OnlyDialler
<1>1. \A c \in Cpvt : Dialling(c) => c \in SettingUp
  BY DEF Dialling, SettingUp, In, OutOnly
<1> QED
  BY <1>1 DEF OnlyDialler, OneAtATime

(* A task that has dialled is the first, and its OK is on its way.          *)
LEMMA DialledFirst ==
    ASSUME QueueRight, DialTasks, NEW r \in Idx, Dialled(r)
    PROVE  DialAt(1) /\ tasks[1].cpvt = whose[r] /\ \E m \in Nat : Okay(m)
<1>1. tasks \in Seq(TaskSet) /\ tasks # <<>>
  BY SeqMonotone DEF QueueRight, Right, Dialled
<1>2. 1 \in 1..Len(tasks) /\ HeadTask = tasks[1] /\ tasks[1] \in Right
  BY <1>1 DEF HeadTask, QueueRight
<1>3. tasks[1].cmds \in Seq(CmdSet) /\ tasks[1].cmds # <<>>
  BY <1>2 DEF Right, TaskSet
<1>4. 1 \in DOMAIN tasks[1].cmds /\ Head(tasks[1].cmds) = tasks[1].cmds[1]
  BY <1>3
<1>5. DialAt(1)
  BY <1>2, <1>4 DEF DialAt, Dials, Dialled, HeadCmd
<1> QED
  BY <1>2, <1>5 DEF Dialled, DialTasks

(* A number that starts before the OK was read belongs to two calls.        *)
LEMMA StartsOne ==
    ASSUME ModemTyped, QueueRight, DialTasks, Unread, NEW r \in Idx, Dialled(r), Starts(r, 1)
    PROVE  OfOne(r)
<1>1. PICK m \in Nat : Okay(m)
  BY DialledFirst
<1>2. m # 0 /\ m # 1
  <2>1. line[1].ev = "ORIG"
    BY DEF Starts, Hears, Ev
  <2> QED
    BY <1>1, <2>1, NothingAtZero DEF Okay
<1>3. 1 < m
  BY <1>2
<1>4. Speaks(r, 1)
  BY DEF Speaks
<1> QED
  BY <1>1, <1>3, <1>4 DEF Unread

LEMMA OutStays ==
    ASSUME OutOnly, UNCHANGED <<up, dir, call, whose>>, \A k \in Nat : OursListed(k)' /\ Numbered(k)',
           \A c \in Cpvt : /\ phase'[c] = "ring" => phase[c] = "ring"
                           /\ st'[c] \in {"INCOMING", "WAITING"} => st'[c] = st[c]
    PROVE  OutOnly'
  BY DEF OutOnly

LEMMA SetupStays ==
    ASSUME OneAtATime, selectbusy' = selectbusy, dir' = dir,
           \A c \in Cpvt : phase'[c] = "selected" => phase[c] = "selected",
           \A c \in Cpvt : c \in Live' /\ st'[c] \in {"INIT", "DIALING"} /\ dir[c] = "out"
                              => c \in SettingUp
    PROVE  OneAtATime'
<1>1. SettingUp' \subseteq SettingUp
  BY DEF SettingUp, In
<1>2. \A c, e \in SettingUp' : c = e
  BY <1>1 DEF OneAtATime
<1> QED
  BY <1>2 DEF OneAtATime

(* A channel goes its way after it was called.                              *)
PhaseMoves ==
    \A c \in Cpvt : \/ phase'[c] = phase[c]
                    \/ /\ phase'[c] \in {"called", "hanging", "gone"}
                       /\ phase[c] \notin {"none", "selected"}

(* A step at which no descriptor changes.                                   *)
LEMMA CalmMoves ==
    ASSUME IInv, ModemTyped', Setup, NEW d \in {0, 1}, Moved(d), KeptTasks, PhaseMoves,
           UNCHANGED <<st, idx, dir, selectbusy, up, call, whose>>, last' \in {last, NULL},
           \A c \in Live : ~Ends(idx[c], d),
           ~Okay(d), \A k \in Nat : OursListed(k)' /\ Numbered(k)',
           \A r \in Idx : Starts(r, d) => last' = NULL,
           \A r \in Idx : Ends(r, d) =>
               \A q \in Idx : ~Speaks(q, 0)' /\ \A b, a : ~Shows(q, 0, b, a)'
    PROVE  Setup'
<1>1. DriverTyped /\ ModemTyped /\ QueueRight
  BY DEF IInv, Core
<1>2. Live' = Live /\ \A c : /\ Known(c)' <=> Known(c)
                             /\ Dialling(c)' <=> Dialling(c)
  BY DEF Live, Known, Dialling
<1>3. \A r \in Idx : OfOne(r)' <=> OfOne(r)
  BY <1>2 DEF OfOne
<1>4. OutOnly'
  BY OutStays DEF Setup, PhaseMoves
<1>5. OneAtATime'
  <2>1. \A c \in Cpvt : phase'[c] = "selected" => phase[c] = "selected"
    BY DEF PhaseMoves
  <2>2. \A c \in Cpvt : c \in Live' /\ st'[c] \in {"INIT", "DIALING"} /\ dir[c] = "out"
           => c \in SettingUp
    BY <1>2 DEF SettingUp, In
  <2> QED
    BY <2>1, <2>2, SetupStays DEF Setup
<1>6. Said' /\ Told0'
  BY <1>1, SaidMoves, CalmTold DEF Setup
<1>7. KeptCalls(d)
  <2>1. \A c \in Cpvt : Begun(c) => Begun(c)'
    BY DEF PhaseMoves, Begun
  <2>2. ASSUME NEW c \in Cpvt, c \in Live', phase'[c] = "down"
        PROVE  Dialling(c)'
    <3>1. phase[c] = "down" /\ c \in Live
      BY <1>2, <2>2 DEF PhaseMoves
    <3> QED
      BY <1>2, <3>1 DEF Setup, OneCall
  <2>3. last' # NULL => last' = last /\ \A o \in Cpvt : o = last => Dialling(o)'
    BY <1>2 DEF Setup, LastDialled
  <2>4. ASSUME NEW r \in Idx, Starts(r, d), Dialled(r) \/ (last' # NULL /\ whose[r] = last')
        PROVE  OfOne(r)
    <3>1. d = 1
      BY <1>1, <2>4, NothingAtZero
    <3>2. Dialled(r)
      BY <2>4
    <3> QED
      BY <1>1, <2>4, <3>1, <3>2, StartsOne DEF Setup
  <2> QED
    BY <1>2, <1>3, <2>1, <2>2, <2>3, <2>4 DEF KeptCalls
<1>8. Tasks'
  BY <1>1, <1>7, TasksMove DEF Setup, Tasks
<1> QED
  BY <1>4, <1>5, <1>6, <1>8 DEF Setup, Tasks

(* A step at which descriptor c learns of its call.                         *)
LEMMA NamedMoves ==
    ASSUME IInv, ModemTyped', Setup, NEW d \in {0, 1}, Moved(d), KeptTasks,
           NEW c \in Cpvt, NEW i \in Idx, Concerns(c, i),
           NEW s \in {"DIALING", "ACTIVE", "ONHOLD"},
           st' = [st EXCEPT ![c] = s], idx' = [idx EXCEPT ![c] = i],
           UNCHANGED <<dir, phase, selectbusy, up, call, whose>>, last' \in {last, NULL},
           NEW b \in 0..2, Shows(i, d, b, Stage(s)), b > 0 \/ last' = NULL,
           \A j \in Idx : ~Ends(j, d), \A bb, aa : ~Shows(i, 0, bb, aa)',
           ~Okay(d), \A k \in Nat : OursListed(k)' /\ Numbered(k)',
           \A r \in Idx : Starts(r, d) => r = i
    PROVE  Setup'
<1>1. DriverTyped /\ ModemTyped /\ QueueRight
  BY DEF IInv, Core
<1>2. OnlyDialler
  BY OnlyOneDials DEF Setup
<1>3. /\ Told0'
      /\ \A r \in Idx : OfOne(r) => OfOne(r)'
      /\ OfOne(i)'
      /\ Dialling(c) => ~OfOne(i)
  BY <1>1, <1>2, NamedTold DEF Setup
<1>4. Said'
  BY <1>1, SaidMoves DEF Setup
<1>5. c \in Live /\ st'[c] = s /\ \A e \in Cpvt : e # c => st'[e] = st[e]
  BY <1>1 DEF DriverTyped, Concerns
<1>6. Live' = Live
  BY <1>5 DEF Live, CallState
<1>7. \A e \in Cpvt : Dialling(e)' <=> (e # c /\ Dialling(e))
  BY <1>5, <1>6 DEF Dialling
<1>8. OutOnly'
  BY <1>5, OutStays DEF Setup
<1>9. OneAtATime'
  <2>1. ASSUME NEW e \in Cpvt, e \in Live', st'[e] \in {"INIT", "DIALING"}, dir[e] = "out"
        PROVE  e \in SettingUp
    <3>1. CASE e # c
      BY <1>5, <1>6, <2>1, <3>1 DEF SettingUp, In
    <3>2. CASE e = c /\ Dialling(c)
      BY <2>1, <3>2 DEF SettingUp, In, Dialling
    <3>3. CASE e = c /\ ~Dialling(c)
      <4>1. Known(c) /\ idx[c] = i /\ s = "DIALING"
        BY <1>5, <2>1, <3>3 DEF Concerns
      <4>2. Shows(idx[c], d, b, 1) /\ b <= 1
        <5>1. Shows(i, d, b, 1) /\ Stage("DIALING") = 1
          BY <4>1 DEF Stage
        <5>2. b <= 1
          BY <5>1 DEF Shows
        <5> QED
          BY <4>1, <5>1, <5>2
      <4>3. st[c] = "DIALING"
        <5> SUFFICES ASSUME st[c] # "DIALING" PROVE FALSE
          OBVIOUS
        <5>1. st[c] \in {"ACTIVE", "ONHOLD"}
          BY <4>1 DEF Known, Live, CallState, Setup, OutOnly
        <5>2. Stage(st[c]) = 2
          BY <5>1 DEF Stage
        <5>3. PICK l \in Nat : l < d /\ Ends(idx[c], l)
          BY <4>1, <4>2, <5>2 DEF Setup, Told0, Front
        <5>4. l = 0
          BY <5>3
        <5> QED
          BY <1>1, <4>1, <5>3, <5>4, NothingAtZero
      <4> QED
        BY <1>5, <2>1, <3>3, <4>3 DEF SettingUp, In
    <3> QED
      BY <3>1, <3>2, <3>3
  <2> QED
    BY <2>1, SetupStays DEF Setup
<1>10. Speaks(i, d) /\ Stage(s) # 0
  <2>1. Stage(s) # 0
    BY DEF Stage
  <2> QED
    BY <1>1, <2>1, ShowsSpeaks
(* The descriptor that learns has no task that dials left.                  *)
<1>11. ASSUME NEW k \in Nat, DialAt(k), tasks[k].cpvt = c, Dialling(c)
       PROVE  FALSE
  <2>1. whose[i] = c
    BY <1>11 DEF Concerns, Known, Dialling
  <2>2. k = 1 /\ HeadCmd.cmd = "D" /\ \E m \in Nat : Okay(m)
    BY <1>11, <2>1 DEF Setup, DialTasks
  <2>3. PICK m \in Nat : Okay(m)
    BY <2>2
  <2>4. HeadTask = tasks[1] /\ tasks # <<>>
    <3>1. tasks \in Seq(Right) /\ 1 \in 1..Len(tasks)
      BY <1>1, <1>11, <2>2 DEF QueueRight, DialAt
    <3> QED
      BY <3>1 DEF HeadTask
  <2>5. Dialled(i)
    BY <1>11, <2>1, <2>2, <2>4 DEF Dialled
  <2>6. m # 0 /\ m # d
    BY <1>1, <2>3, NothingAtZero
  <2>7. d < m
    BY <2>6
  <2>8. OfOne(i)
    BY <1>10, <2>3, <2>5, <2>7 DEF Setup, Unread
  <2> QED
    BY <1>3, <1>11, <2>8
<1>12. last' # NULL => last' = last /\ last # c
  <2> SUFFICES ASSUME last' = last, last # NULL, last = c PROVE FALSE
    BY CpvtAssumption
  <2>1. Dialling(c) /\ whose[i] = c /\ b > 0
    BY DEF Setup, LastDialled, Concerns, Known, Dialling
  <2>2. OfOne(i) \/ \E m \in Nat : m < d /\ Starts(i, m)
    BY <2>1, StageRange DEF Setup, Fresh
  <2>3. ASSUME NEW m \in Nat, m < d, Starts(i, m) PROVE FALSE
    <3>1. m = 0
      BY <2>3
    <3> QED
      BY <1>1, <2>3, <3>1, NothingAtZero
  <2> QED
    BY <1>3, <2>1, <2>2, <2>3
<1>13. KeptCalls(d)
  <2>1. \A e \in Cpvt : Begun(e) => Begun(e)'
    BY DEF Begun
  <2>2. ASSUME NEW e \in Cpvt, e \in Live', phase'[e] = "down"
        PROVE  Dialling(e)'
    <3>1. Dialling(e)
      BY <1>6, <2>2 DEF Setup, OneCall
    <3>2. e # c
      <4> SUFFICES ASSUME e = c PROVE FALSE
        OBVIOUS
      <4>1. whose[i] = c /\ whose[i] # NULL
        BY <3>1, CpvtAssumption DEF Concerns, Known, Dialling
      <4>2. Begun(whose[i])
        BY <4>1 DEF Setup, OneCall
      <4> QED
        BY <2>2, <4>1, <4>2 DEF Begun
    <3> QED
      BY <1>7, <3>1, <3>2
  <2>3. last' # NULL => last' = last /\ \A o \in Cpvt : o = last => Dialling(o)'
    BY <1>7, <1>12 DEF Setup, LastDialled
  <2>4. \A o \in Cpvt : Dialling(o) /\ (\E k \in Nat : DialAt(k) /\ tasks[k].cpvt = o)
           => Dialling(o)'
    BY <1>7, <1>11
  <2> QED
    BY <1>3, <2>1, <2>2, <2>3, <2>4 DEF KeptCalls
<1>14. Tasks'
  BY <1>1, <1>13, TasksMove DEF Setup, Tasks
<1> QED
  BY <1>3, <1>4, <1>8, <1>9, <1>14 DEF Setup, Tasks

(* A step at which descriptor c is released.                                *)
LEMMA EndedMoves ==
    ASSUME IInv, ModemTyped', Setup, Moved(1), KeptTasks,
           NEW c \in Live, NEW i \in Idx, idx[c] = i, Ends(i, 1),
           st' = [st EXCEPT ![c] = "freed"], \A e \in Cpvt : e # c => idx'[e] = idx[e],
           UNCHANGED <<dir, phase, selectbusy, up, call, whose>>,
           last' = IF last = c THEN NULL ELSE last,
           \A r \in Idx : ~Speaks(r, 0)' /\ \A b, a : ~Shows(r, 0, b, a)',
           \A k \in Nat : OursListed(k)' /\ Numbered(k)'
    PROVE  Setup'
<1>1. DriverTyped /\ ModemTyped /\ QueueRight /\ c \in Cpvt
  BY DEF IInv, Core, Live
<1>2. OnlyDialler
  BY OnlyOneDials DEF Setup
<1>3. /\ Told0'
      /\ \A r \in Idx : OfOne(r) => OfOne(r)' \/ r = i
      /\ Dialling(c) => whose[i] = c /\ ~OfOne(i)
  BY <1>1, <1>2, EndedTold DEF Setup
<1>4. Said'
  BY <1>1, SaidMoves DEF Setup
<1>5. st'[c] = "freed" /\ \A e \in Cpvt : e # c => st'[e] = st[e]
  BY <1>1 DEF DriverTyped
<1>6. Live' = Live \ {c}
  BY <1>5 DEF Live, CallState
<1>7. \A e \in Cpvt : Dialling(e)' <=> (e # c /\ Dialling(e))
  BY <1>5, <1>6 DEF Dialling
<1>8. OutOnly'
  BY <1>5, OutStays DEF Setup
<1>9. OneAtATime'
  <2>1. \A e \in Cpvt : e \in Live' /\ st'[e] \in {"INIT", "DIALING"} /\ dir[e] = "out"
           => e \in SettingUp
    BY <1>5, <1>6 DEF SettingUp, In
  <2> QED
    BY <2>1, SetupStays DEF Setup
<1>10. Speaks(i, 1) /\ ~Okay(1) /\ \A r \in Idx : ~Starts(r, 1)
  <2>1. \A r \in Idx : ~Starts(r, 1)
    BY DEF Starts, Ends, Hears, Ev
  <2> QED
    BY <1>1, <2>1, EndsAt
<1>11. ASSUME NEW k \in Nat, DialAt(k), tasks[k].cpvt = c, Dialling(c)
       PROVE  FALSE
  <2>1. whose[i] = c
    BY <1>3, <1>11
  <2>2. k = 1 /\ HeadCmd.cmd = "D" /\ \E m \in Nat : Okay(m)
    BY <1>11, <2>1 DEF Setup, DialTasks
  <2>3. PICK m \in Nat : Okay(m)
    BY <2>2
  <2>4. HeadTask = tasks[1] /\ tasks # <<>>
    <3>1. tasks \in Seq(Right) /\ 1 \in 1..Len(tasks)
      BY <1>1, <1>11, <2>2 DEF QueueRight, DialAt
    <3> QED
      BY <3>1 DEF HeadTask
  <2>5. Dialled(i)
    BY <1>11, <2>1, <2>2, <2>4 DEF Dialled
  <2>6. m # 0 /\ m # 1
    BY <1>1, <1>10, <2>3, NothingAtZero
  <2>7. 1 < m
    BY <2>6
  <2>8. OfOne(i)
    BY <1>10, <2>3, <2>5, <2>7 DEF Setup, Unread
  <2> QED
    BY <1>3, <1>11, <2>8
<1>12. KeptCalls(1)
  <2>1. \A e \in Cpvt : Begun(e) => Begun(e)'
    BY DEF Begun
  <2>2. \A e \in Cpvt : e \in Live' /\ phase'[e] = "down" => Dialling(e)'
    BY <1>6, <1>7 DEF Setup, OneCall
  <2>3. last' # NULL => last' = last /\ \A o \in Cpvt : o = last => Dialling(o)'
    BY <1>7 DEF Setup, LastDialled
  <2>4. \A o \in Cpvt : Dialling(o) /\ (\E k \in Nat : DialAt(k) /\ tasks[k].cpvt = o)
           => Dialling(o)'
    BY <1>7, <1>11
  <2>5. \A r \in Idx : OfOne(r) => OfOne(r)' \/ Ends(r, 1)
    BY <1>3
  <2> QED
    BY <1>10, <2>1, <2>2, <2>3, <2>4, <2>5 DEF KeptCalls
<1>13. Tasks'
  BY <1>1, <1>10, <1>12, TasksMove DEF Setup, Tasks
<1> QED
  BY <1>3, <1>4, <1>8, <1>9, <1>13 DEF Setup, Tasks

LEMMA QuietTasks ==
    ASSUME NEW o \in Cpvt \cup {SysChan}
    PROVE  /\ \A t \in {Task(o, <<CLCC>>), Task(o, <<CHUP, CLCC>>)} :
                 t \in TaskSet /\ t.cmds # <<>> /\ ~Dials(t)
           /\ \A i \in 0..MaxIdx : \A t \in {Task(o, <<Cmd("A", i)>>), Task(o, <<Cmd("CHLD_2x", i)>>),
                                             Task(o, <<Cmd("CHLD_2x", i), CLCC>>)} :
                 t \in TaskSet /\ t.cmds # <<>> /\ ~Dials(t)
<1>1. CLCC \in CmdSet /\ CHUP \in CmdSet /\ CLCC.cmd = "CLCC" /\ CHUP.cmd = "CHUP"
      /\ \A i \in 0..MaxIdx : /\ Cmd("A", i) \in CmdSet /\ Cmd("A", i).cmd = "A"
                              /\ Cmd("CHLD_2x", i) \in CmdSet /\ Cmd("CHLD_2x", i).cmd = "CHLD_2x"
  BY BoundAssumption DEF CLCC, CHUP, Cmd, CmdSet, Commands
<1>2. ASSUME NEW x \in CmdSet, x.cmd # "D"
      PROVE  Task(o, <<x>>) \in TaskSet /\ Task(o, <<x>>).cmds # <<>> /\ ~Dials(Task(o, <<x>>))
  BY <1>2 DEF Task, TaskSet, Dials
<1>3. ASSUME NEW x \in CmdSet, x.cmd # "D", NEW y \in CmdSet, y.cmd # "D"
      PROVE  Task(o, <<x, y>>) \in TaskSet /\ Task(o, <<x, y>>).cmds # <<>> /\ ~Dials(Task(o, <<x, y>>))
  BY <1>3 DEF Task, TaskSet, Dials
<1> QED
  BY <1>1, <1>2, <1>3

(* What is read is at the first position.                                   *)
LEMMA ReadAt ==
    ASSUME ModemTyped, NEW ev, Reads(ev)
    PROVE  /\ line[1] = Event /\ Event.ev = ev /\ 1 \in 1..Len(line)
           /\ ev # "OK" => ~Okay(1)
           /\ ev # "CEND" => \A i : ~Ends(i, 1)
           /\ ev # "ORIG" => \A i : ~Starts(i, 1)
           /\ ev = "ORIG" => \A i : Starts(i, 1) <=> i = Event.idx
           /\ ev = "CEND" => \A i : Ends(i, 1) <=> i = Event.idx
           /\ ev = "CONN" => Hears(1, Ev("CONN", Event.idx))
<1>1. line \in Seq(Heard) /\ line # <<>> /\ Event.ev = ev
  BY DEF ModemTyped, Reads
<1>2. line[1] = Event /\ 1 \in 1..Len(line)
  BY <1>1 DEF Event
<1>3. ev # "CLCC" => Event = Ev(ev, Event.idx)
  BY <1>1, <1>2, HeardAt
<1> QED
  BY <1>1, <1>2, <1>3 DEF Okay, Ends, Starts, Hears, Ev

LEMMA ResultKeeps ==
    ASSUME IInv, IInv', Setup, HandleOk \/ HandleError
    PROVE  Setup'
<1>1. DriverTyped /\ ModemTyped /\ QueueRight /\ ModemTyped'
  BY DEF IInv, Core
<1>2. PICK ev \in {"OK", "ERROR"} : Reads(ev)
  BY DEF HandleOk, HandleError
<1>3. /\ UNCHANGED <<st, idx, dir, phase, selectbusy, up, todo, modem>> /\ tasks # <<>>
      /\ \E ok \in BOOLEAN : tasks' = CmdDone(ok)
      /\ last' = last \/ (HeadCmd.cmd = "D" /\ last' = HeadTask.cpvt)
  BY DEF HandleOk, HandleError, desc, driver, astvars
<1>4. Moved(1) /\ \A k \in Nat : OursListed(k)' /\ Numbered(k)'
  BY <1>1, <1>2, <1>3, ReadsMove, ReadsOurs DEF Setup, OutOnly
<1>5. \A r : ~Ends(r, 1) /\ ~Starts(r, 1)
  BY <1>1, <1>2, ReadAt
<1>6. Said' /\ Told0'
  BY <1>1, <1>3, <1>4, <1>5, SaidMoves, CalmTold DEF Setup, modem
<1>7. OutOnly'
  BY <1>3, <1>4, OutStays DEF Setup, modem
<1>8. OneAtATime'
  <2>1. \A c \in Cpvt : c \in Live' /\ st'[c] \in {"INIT", "DIALING"} /\ dir[c] = "out"
           => c \in SettingUp
    BY <1>3 DEF SettingUp, In, Live
  <2> QED
    BY <1>3, <2>1, SetupStays DEF Setup
<1>9. Tasks'
  BY <1>1, <1>3, <1>4, <1>5, <1>7, DoneTasks DEF Setup, Tasks, modem
<1> QED
  BY <1>6, <1>7, <1>8, <1>9 DEF Setup, Tasks

LEMMA OrigKeeps ==
    ASSUME IInv, IInv', Setup, HandleOrig
    PROVE  Setup'
<1>1. DriverTyped /\ ModemTyped /\ QueueRight /\ ModemTyped'
  BY DEF IInv, Core
<1>2. /\ Reads("ORIG") /\ last' = NULL
      /\ UNCHANGED <<dir, phase, selectbusy, up, todo, modem>>
  BY DEF HandleOrig, astvars
<1>3. /\ Moved(1) /\ \A k \in Nat : OursListed(k)' /\ Numbered(k)'
      /\ \A i \in Idx : ~Speaks(i, 0)' /\ \A b, a : ~Shows(i, 0, b, a)'
  BY <1>1, <1>2, ReadsMove, ReadsOurs DEF Setup, OutOnly
<1>4. /\ ~Okay(1) /\ \A r : ~Ends(r, 1)
      /\ \A r : Starts(r, 1) <=> r = Event.idx
  BY <1>1, <1>2, ReadAt
<1>5. Task(SysChan, <<CLCC>>) \in TaskSet /\ Task(SysChan, <<CLCC>>).cmds # <<>>
      /\ ~Dials(Task(SysChan, <<CLCC>>))
  BY QuietTasks
<1>6. CASE last = NULL
  <2>1. UNCHANGED <<st, idx, tasks>>
    BY <1>6 DEF HandleOrig
  <2>2. KeptTasks
    BY <1>1, <1>2, <1>5, <2>1, UrgentKept DEF Setup, modem
  <2>3. PhaseMoves
    BY <1>2 DEF PhaseMoves
  <2> QED
    BY <1>1, <1>2, <1>3, <1>4, <2>1, <2>2, <2>3, CalmMoves DEF modem
<1>7. CASE last # NULL
  <2>0. PICK c \in Cpvt : c = last
    BY <1>1, <1>7 DEF DriverTyped
  <2>1. c \in Cpvt /\ Dialling(c) /\ c \in Live
    BY <1>7, <2>0 DEF Setup, LastDialled, Dialling
  <2>4. PICK i \in Idx : i = Event.idx
    <3>1. Numbered(1) /\ line[1] = Event /\ Event.ev = "ORIG" /\ 1 \in 1..Len(line)
      BY <1>1, <1>2, ReadAt DEF Setup, OutOnly
    <3> QED
      BY <3>1 DEF Numbered
  <2>2. /\ idx' = [idx EXCEPT ![c] = i] /\ st' = [st EXCEPT ![c] = "DIALING"]
        /\ tasks' = Urgent(tasks, Task(SysChan, <<CLCC>>))
    BY <1>7, <2>0, <2>4 DEF HandleOrig, Changed, WithClcc
  <2>3. Starts(i, 1) /\ Shows(i, 1, 0, 1) /\ Speaks(i, 1)
    BY <1>4, <2>4 DEF Shows, Speaks
  <2>5. OnlyDialler
    BY OnlyOneDials DEF Setup
  <2>6. whose[i] = c
    BY <2>1, <2>3, <2>4, <2>5 DEF Setup, Told0, Caller, OfCaller, OnlyDialler
  <2>7. ASSUME NEW e \in Live, idx[e] = i
        PROVE  e = c
    <3>1. CASE Known(e)
      <4>1. st[e] \in {"DIALING", "ACTIVE", "ONHOLD"} /\ e \in Cpvt
        BY <3>1 DEF Known, Live, CallState, Setup, OutOnly
      <4>2. Stage(st[e]) \in 0..2 /\ 0 < Stage(st[e])
        BY <4>1 DEF Stage
      <4>3. Shows(idx[e], 1, 0, 1)
        BY <2>3, <2>7
      <4>4. PICK l \in Nat : l < 1 /\ Ends(idx[e], l)
        BY <3>1, <4>1, <4>2, <4>3 DEF Setup, Told0, Front
      <4>5. l = 0
        BY <4>4
      <4> QED
        BY <1>1, <4>4, <4>5, NothingAtZero
    <3>2. CASE ~Known(e)
      BY <2>1, <2>5, <3>2 DEF Known, Dialling, OnlyDialler, Live
    <3> QED
      BY <3>1, <3>2
  <2>8. Concerns(c, i)
    BY <2>1, <2>4, <2>6, <2>7 DEF Concerns
  <2>9. KeptTasks
    BY <1>1, <1>2, <1>5, <2>2, UrgentKept DEF Setup, modem
  <2>10. Stage("DIALING") = 1
    BY DEF Stage
  <2>11. /\ UNCHANGED <<dir, phase, selectbusy, up, call, whose>> /\ last' \in {last, NULL}
         /\ \A j \in Idx : ~Ends(j, 1)
         /\ \A bb, aa : ~Shows(i, 0, bb, aa)'
         /\ \A r \in Idx : Starts(r, 1) => r = i
    BY <1>2, <1>3, <1>4, <2>4 DEF modem
  <2>12. /\ Shows(i, 1, 0, Stage("DIALING")) /\ 0 \in 0..2 /\ 1 \in {0, 1}
         /\ "DIALING" \in {"DIALING", "ACTIVE", "ONHOLD"}
    BY <2>3, <2>10
  <2> QED
    BY <1>1, <1>2, <1>3, <1>4, <2>2, <2>8, <2>9, <2>11, <2>12, NamedMoves
<1> QED
  BY <1>6, <1>7

(* What is said of the number of a descriptor concerns it.                  *)
LEMMA ConcernsOf ==
    ASSUME Setup, NEW c \in Live, NEW i \in Idx, idx[c] = i, NEW k \in Nat, Speaks(i, k)
    PROVE  Concerns(c, i)
<1>1. c \in Cpvt /\ i # 0
  BY DEF Live, Idx
<1>2. \A e \in Live : idx[e] = i => e = c
  BY <1>1 DEF Setup, Told0, Numbers
<1>3. CASE Known(c)
  BY <1>3 DEF Concerns
<1>4. CASE ~Known(c)
  <2>1. Dialling(c)
    BY <1>4 DEF Known, Dialling
  <2>2. ~OfOne(i)
    BY <1>2, <1>4 DEF OfOne, Known
  <2>3. OfCaller(i)
    BY <2>2 DEF Setup, Told0, Accounted
  <2>4. whose[i] = c
    BY <1>1, <2>1, <2>3, OnlyOneDials DEF Setup, OfCaller, OnlyDialler
  <2> QED
    BY <1>2, <2>1, <2>4 DEF Concerns
<1> QED
  BY <1>3, <1>4

LEMMA ConnKeeps ==
    ASSUME IInv, IInv', Setup, HandleConn
    PROVE  Setup'
<1>1. DriverTyped /\ ModemTyped /\ QueueRight /\ ModemTyped'
  BY DEF IInv, Core
<1>2. /\ Reads("CONN")
      /\ UNCHANGED <<idx, dir, phase, last, selectbusy, up, todo, modem>>
  BY DEF HandleConn, astvars
<1>3. /\ Moved(1) /\ \A k \in Nat : OursListed(k)' /\ Numbered(k)'
      /\ \A r \in Idx : ~Speaks(r, 0)' /\ \A b, a : ~Shows(r, 0, b, a)'
  BY <1>1, <1>2, ReadsMove, ReadsOurs DEF Setup, OutOnly
<1>4. /\ ~Okay(1) /\ (\A r : ~Ends(r, 1)) /\ \A r : ~Starts(r, 1)
      /\ Hears(1, Ev("CONN", Event.idx))
  BY <1>1, <1>2, ReadAt
<1>5. CASE WithIdx(Event.idx) = {}
  <2>1. st' = st /\ tasks' = Urgent(tasks, Task(SysChan, <<CHUP, CLCC>>))
    BY <1>5 DEF HandleConn
  <2>2. KeptTasks
    <3>1. Task(SysChan, <<CHUP, CLCC>>) \in TaskSet /\ Task(SysChan, <<CHUP, CLCC>>).cmds # <<>>
          /\ ~Dials(Task(SysChan, <<CHUP, CLCC>>))
      BY QuietTasks
    <3> QED
      BY <1>1, <1>2, <2>1, <3>1, UrgentKept DEF Setup, modem
  <2>3. PhaseMoves
    BY <1>2 DEF PhaseMoves
  <2> QED
    BY <1>1, <1>2, <1>3, <1>4, <2>1, <2>2, <2>3, CalmMoves DEF modem
<1>6. CASE WithIdx(Event.idx) # {}
  <2>1. PICK c \in WithIdx(Event.idx) :
            /\ Changed(c, "ACTIVE")
            /\ tasks' = IF Group295 /\ dir[c] = "out"
                          THEN Urgent(tasks, Task(c, <<CHUP, CLCC>>))
                          ELSE WithClcc(tasks)
    BY <1>6 DEF HandleConn
  <2>2. PICK i \in Idx : i = Event.idx
    <3>1. Numbered(1) /\ line[1] = Event /\ Event.ev = "CONN" /\ 1 \in 1..Len(line)
      BY <1>1, <1>2, ReadAt DEF Setup, OutOnly
    <3> QED
      BY <3>1 DEF Numbered
  <2>3. c \in Live /\ c \in Cpvt /\ idx[c] = i
    BY <2>1, <2>2 DEF WithIdx, Live
  <2>4. Speaks(i, 1) /\ Shows(i, 1, 1, 2) /\ Stage("ACTIVE") = 2
    BY <1>4, <2>2 DEF Speaks, Shows, Stage
  <2>5. Concerns(c, i)
    BY <2>3, <2>4, ConcernsOf
  <2>6. PICK t \in {Task(SysChan, <<CLCC>>), Task(c, <<CHUP, CLCC>>)} : tasks' = Urgent(tasks, t)
    BY <2>1 DEF WithClcc
  <2>7. t \in TaskSet /\ t.cmds # <<>> /\ ~Dials(t)
    BY <2>3, QuietTasks
  <2>8. KeptTasks
    BY <1>1, <1>2, <2>6, <2>7, UrgentKept DEF Setup, modem
  <2>9. /\ st' = [st EXCEPT ![c] = "ACTIVE"] /\ idx' = [idx EXCEPT ![c] = i]
        /\ UNCHANGED <<dir, phase, selectbusy, up, call, whose>> /\ last' \in {last, NULL}
    BY <1>1, <1>2, <2>1, <2>3 DEF Changed, DriverTyped, modem
  <2>10. /\ Shows(i, 1, 1, Stage("ACTIVE")) /\ 1 \in 0..2 /\ 1 \in {0, 1} /\ 1 > 0
         /\ "ACTIVE" \in {"DIALING", "ACTIVE", "ONHOLD"}
    BY <2>4
  <2> QED
    BY <1>1, <1>2, <1>3, <1>4, <2>3, <2>5, <2>8, <2>9, <2>10, NamedMoves
<1> QED
  BY <1>5, <1>6

LEMMA CendKeeps ==
    ASSUME IInv, IInv', Setup, HandleCend
    PROVE  Setup'
<1>1. DriverTyped /\ ModemTyped /\ QueueRight /\ ModemTyped'
  BY DEF IInv, Core
<1>2. /\ Reads("CEND")
      /\ UNCHANGED <<selectbusy, up, todo, modem>>
  BY DEF HandleCend
<1>3. /\ Moved(1) /\ \A k \in Nat : OursListed(k)' /\ Numbered(k)'
      /\ \A r \in Idx : ~Speaks(r, 0)' /\ \A b, a : ~Shows(r, 0, b, a)'
  BY <1>1, <1>2, ReadsMove, ReadsOurs DEF Setup, OutOnly
<1>4. /\ ~Okay(1) /\ (\A r : ~Starts(r, 1))
      /\ \A r : Ends(r, 1) <=> r = Event.idx
  BY <1>1, <1>2, ReadAt
<1>5. Task(SysChan, <<CLCC>>) \in TaskSet /\ Task(SysChan, <<CLCC>>).cmds # <<>>
      /\ ~Dials(Task(SysChan, <<CLCC>>))
  BY QuietTasks
<1>6. CASE WithIdx(Event.idx) = {}
  <2>1. /\ UNCHANGED <<st, idx, dir, phase, last>>
        /\ tasks' = Urgent(tasks, Task(SysChan, <<CLCC>>))
    BY <1>6 DEF HandleCend, desc, astvars, WithClcc
  <2>2. KeptTasks
    BY <1>1, <1>2, <1>5, <2>1, UrgentKept DEF Setup, modem
  <2>3. PhaseMoves
    BY <2>1 DEF PhaseMoves
  <2>4. \A c \in Live : ~Ends(idx[c], 1)
    BY <1>4, <1>6 DEF WithIdx
  <2> QED
    BY <1>1, <1>2, <1>3, <1>4, <2>1, <2>2, <2>3, <2>4, CalmMoves DEF modem
<1>7. CASE WithIdx(Event.idx) # {}
  <2>1. PICK c \in WithIdx(Event.idx) : Released(c, bits, WithClcc(tasks))
    BY <1>7 DEF HandleCend
  <2>2. PICK i \in Idx : i = Event.idx
    <3>1. Numbered(1) /\ line[1] = Event /\ Event.ev = "CEND" /\ 1 \in 1..Len(line)
      BY <1>1, <1>2, ReadAt DEF Setup, OutOnly
    <3> QED
      BY <3>1 DEF Numbered
  <2>3. c \in Live /\ c \in Cpvt /\ idx[c] = i /\ Ends(i, 1)
    BY <1>4, <2>1, <2>2 DEF WithIdx, Live
  <2>4. /\ st' = [st EXCEPT ![c] = "freed"] /\ phase' = phase
        /\ \A e \in Cpvt : e # c => idx'[e] = idx[e]
        /\ last' = IF last = c THEN NULL ELSE last
        /\ tasks' = Relinked(Urgent(tasks, Task(SysChan, <<CLCC>>)), c)
    BY <2>1 DEF Released, Forgotten, WithClcc
  <2>5. dir' = dir
    BY <1>1, <2>1 DEF Released, Forgotten, DriverTyped, Setup, OutOnly
(* A task that dials is not that of c, whose call is known to have ended.   *)
  <2>6. Concerns(c, i)
    BY <2>3, EndsAt, <1>1, ConcernsOf
  <2>7. \A k \in Nat : DialAt(k) => tasks[k].cpvt # c
    <3> SUFFICES ASSUME NEW k \in Nat, DialAt(k), tasks[k].cpvt = c PROVE FALSE
      OBVIOUS
    <3>1. Dialling(c) /\ whose[i] = c
      BY <2>6 DEF Setup, DialTasks, Concerns, Known, Dialling
    <3>2. k = 1 /\ HeadCmd.cmd = "D" /\ \E m \in Nat : Okay(m)
      BY <3>1 DEF Setup, DialTasks
    <3>3. PICK m \in Nat : Okay(m)
      BY <3>2
    <3>4. HeadTask = tasks[1] /\ tasks # <<>>
      <4>1. tasks \in Seq(Right) /\ 1 \in 1..Len(tasks)
        BY <1>1, <3>2 DEF QueueRight, DialAt
      <4> QED
        BY <4>1 DEF HeadTask
    <3>5. Dialled(i)
      BY <3>1, <3>2, <3>4 DEF Dialled
    <3>6. m # 0 /\ m # 1
      BY <1>1, <1>4, <3>3, NothingAtZero
    <3>7. 1 < m /\ Speaks(i, 1)
      BY <1>1, <2>3, <3>6, EndsAt
    <3>8. OfOne(i)
      BY <3>3, <3>5, <3>7 DEF Setup, Unread
    <3> QED
      BY <2>3, <3>1, <3>8 DEF OfOne, Setup, Told0, Numbers, Known, Dialling, Idx
  <2>8. KeptTasks
    <3>1. whose' = whose /\ OutOnly /\ DialTasks
      BY <1>2 DEF modem, Setup
    <3> QED
      BY <1>1, <1>5, <2>3, <2>4, <2>7, <3>1, UrgentKept
  <2>9. UNCHANGED <<dir, phase, selectbusy, up, call, whose>>
    BY <1>2, <2>4, <2>5 DEF modem
  <2> QED
    BY <1>1, <1>3, <2>3, <2>4, <2>8, <2>9, EndedMoves
<1> QED
  BY <1>6, <1>7

LEMMA OtherLinesKeep ==
    ASSUME IInv, IInv', Setup, HandleRing \/ HandleCcwa \/ HandleClcc
    PROVE  Setup'
<1>1. DriverTyped /\ ModemTyped /\ QueueRight /\ ModemTyped'
  BY DEF IInv, Core
<1>2. PICK ev \in {"RING", "CCWA", "CLCC"} :
          /\ Reads(ev) /\ (todo' = todo \/ (ev = "CLCC" /\ todo' = Event.calls))
          /\ tasks' = tasks \/ tasks' = Urgent(tasks, Task(SysChan, <<CLCC>>))
  BY DEF HandleRing, HandleCcwa, HandleClcc, WithClcc
<1>3. /\ UNCHANGED <<st, idx, dir, phase, last, selectbusy, up, modem>>
  BY DEF HandleRing, HandleCcwa, HandleClcc, desc, astvars, driver
<1>4. Moved(1) /\ \A k \in Nat : OursListed(k)' /\ Numbered(k)'
  BY <1>1, <1>2, <1>3, ReadsMove, ReadsOurs DEF Setup, OutOnly
<1>5. ~Okay(1) /\ \A r : ~Ends(r, 1) /\ ~Starts(r, 1)
  BY <1>1, <1>2, ReadAt
<1>6. KeptTasks
  <2>1. Task(SysChan, <<CLCC>>) \in TaskSet /\ Task(SysChan, <<CLCC>>).cmds # <<>>
        /\ ~Dials(Task(SysChan, <<CLCC>>))
    BY QuietTasks
  <2>2. OutOnly /\ DialTasks /\ whose' = whose
    BY <1>3 DEF Setup, modem
  <2> QED
    BY <1>1, <1>2, <2>1, <2>2, UrgentKept
<1>7. PhaseMoves
  BY <1>3 DEF PhaseMoves
<1>8. /\ UNCHANGED <<st, idx, dir, selectbusy, up, call, whose>> /\ last' \in {last, NULL}
      /\ \A c \in Live : ~Ends(idx[c], 1)
      /\ \A r \in Idx : Starts(r, 1) => last' = NULL
      /\ \A r \in Idx : Ends(r, 1) =>
            \A q \in Idx : ~Speaks(q, 0)' /\ \A b, a : ~Shows(q, 0, b, a)'
  BY <1>3, <1>5 DEF modem
<1> QED
  BY <1>1, <1>4, <1>5, <1>6, <1>7, <1>8, CalmMoves

(* A line of the list, for a call whose descriptor is not up to date.       *)
LEMMA ListKeepsSetup ==
    ASSUME IInv, IInv', Setup,
           ClccSkipped \/ \E c \in Cpvt : ClccKnown(c) \/ ClccArrives(c)
    PROVE  Setup'
<1>1. DriverTyped /\ ModemTyped /\ QueueRight /\ ModemTyped'
  BY DEF IInv, Core
<1>2. /\ todo # <<>> /\ todo' = Tail(todo)
      /\ UNCHANGED <<modem, line, selectbusy, up>>
  BY DEF ClccSkipped, ClccKnown, ClccArrives
<1>3. OursListed(0)
  BY DEF Setup, OutOnly
<1>4. /\ Moved(0) /\ Head(todo) \in Line
      /\ Listed(Head(todo).idx, 0, Head(todo).state)
      /\ Head(todo).state \in {"DIALING", "ACTIVE", "ONHOLD"} /\ Head(todo).dir = "out"
      /\ \A i : i = Head(todo).idx => \A b, a : ~Shows(i, 0, b, a)'
  BY <1>1, <1>2, <1>3, ListMoves
<1>5. \A k \in Nat : OursListed(k)' /\ Numbered(k)'
  BY <1>1, <1>2, ListOurs DEF Setup, OutOnly
<1>6. \A i : ~Ends(i, 0) /\ ~Starts(i, 0) /\ ~Okay(0)
  BY <1>1, NothingAtZero
<1>7. UNCHANGED <<phase, dir, last, tasks, idx>>
  BY <1>4 DEF ClccSkipped, ClccKnown, ClccArrives, desc, astvars
<1>8. KeptTasks
  <2>1. OutOnly /\ DialTasks /\ whose' = whose
    BY <1>2 DEF Setup, modem
  <2>2. Task(SysChan, <<CLCC>>) \in TaskSet /\ Task(SysChan, <<CLCC>>).cmds # <<>>
        /\ ~Dials(Task(SysChan, <<CLCC>>))
    BY QuietTasks
  <2> QED
    BY <1>1, <1>7, <2>1, <2>2, UrgentKept
<1>9. CASE st' = st
  <2>1. PhaseMoves
    BY <1>7 DEF PhaseMoves
  <2>2. /\ UNCHANGED <<st, idx, dir, selectbusy, up, call, whose>> /\ last' \in {last, NULL}
        /\ \A c \in Live : ~Ends(idx[c], 0)
        /\ \A r \in Idx : Starts(r, 0) => last' = NULL
        /\ \A r \in Idx : Ends(r, 0) =>
              \A q \in Idx : ~Speaks(q, 0)' /\ \A b, a : ~Shows(q, 0, b, a)'
        /\ ~Okay(0)
    BY <1>2, <1>6, <1>7, <1>9 DEF modem
  <2> QED
    BY <1>1, <1>4, <1>5, <1>8, <2>1, <2>2, CalmMoves
<1>10. CASE st' # st
  <2>1. PICK c \in Cpvt : ClccKnown(c) /\ Changed(c, Head(todo).state)
    BY <1>4, <1>10 DEF ClccSkipped, ClccKnown, ClccArrives, desc
  <2>2. PICK i \in Idx : i = Head(todo).idx
    BY <1>4 DEF Line
  <2>3. PICK s \in {"DIALING", "ACTIVE", "ONHOLD"} : s = Head(todo).state
    BY <1>4
  <2>4. c \in Live /\ idx[c] = i /\ st' = [st EXCEPT ![c] = s]
    BY <2>1, <2>2, <2>3 DEF ClccKnown, WithIdx, Changed
  <2>5. Listed(i, 0, s) /\ s \in CallState
    BY <1>4, <2>2, <2>3 DEF CallState
  <2>6. Speaks(i, 0) /\ Shows(i, 0, Stage(s), Stage(s))
    BY <2>5 DEF Speaks, Shows
  <2>7. Concerns(c, i)
    BY <2>4, <2>6, ConcernsOf
  <2>8. Stage(s) \in 0..2 /\ Stage(s) > 0
    BY DEF Stage
  <2>9. /\ idx' = [idx EXCEPT ![c] = i]
        /\ UNCHANGED <<dir, phase, selectbusy, up, call, whose>> /\ last' \in {last, NULL}
        /\ \A bb, aa : ~Shows(i, 0, bb, aa)'
        /\ \A r \in Idx : Starts(r, 0) => r = i
    BY <1>1, <1>2, <1>4, <1>6, <1>7, <2>2, <2>4 DEF DriverTyped, modem
  <2> QED
    BY <1>1, <1>4, <1>5, <1>6, <1>8, <2>4, <2>6, <2>7, <2>8, <2>9, NamedMoves
<1> QED
  BY <1>9, <1>10

-----------------------------------------------------------------------------
(* What the channels' threads do                                            *)

LEMMA NothingSaid ==
    ASSUME UNCHANGED <<todo, modem, line>>
    PROVE  /\ \A i, k, b, a : Shows(i, k, b, a)' <=> Shows(i, k, b, a)
           /\ \A i, k : /\ Speaks(i, k)' <=> Speaks(i, k)
                        /\ Ends(i, k)' <=> Ends(i, k)
                        /\ Starts(i, k)' <=> Starts(i, k)
           /\ \A k : /\ Okay(k)' <=> Okay(k)
                     /\ OursListed(k)' <=> OursListed(k)
                     /\ Numbered(k)' <=> Numbered(k)
           /\ Moved(0)
<1>1. line' = line /\ call' = call /\ \A k : ListAt(k)' = ListAt(k)
  BY DEF modem, ListAt
<1>2. \A i, k, s : Listed(i, k, s)' <=> Listed(i, k, s)
  BY <1>1 DEF Listed
<1>3. \A k, e : Hears(k, e)' <=> Hears(k, e)
  BY <1>1 DEF Hears
<1>4. \A i, k : /\ Ends(i, k)' <=> Ends(i, k)
                /\ Starts(i, k)' <=> Starts(i, k)
  BY <1>3 DEF Ends, Starts
<1>5. \A i, k, b, a : Shows(i, k, b, a)' <=> Shows(i, k, b, a)
  BY <1>1, <1>2, <1>3, <1>4 DEF Shows
<1>6. \A i, k : Speaks(i, k)' <=> Speaks(i, k)
  BY <1>1, <1>2, <1>3, <1>4 DEF Speaks
<1>7. \A k : /\ Okay(k)' <=> Okay(k)
             /\ OursListed(k)' <=> OursListed(k)
             /\ Numbered(k)' <=> Numbered(k)
  BY <1>1 DEF Okay, OursListed, Numbered
<1>8. \A k \in Nat : k + 0 = k
  OBVIOUS
<1>9. Moved(0)
  BY <1>4, <1>5, <1>6, <1>7, <1>8 DEF Moved
<1> QED
  BY <1>4, <1>5, <1>6, <1>7, <1>9

(* A thread whose channel was called, or is hung up.                        *)
LEMMA CalledKeeps ==
    ASSUME IInv, IInv', Setup, NEW c \in Cpvt,
           CallRefused(c) \/ Answer(c) \/ Activate(c) \/ HangupLooks(c) \/ HangupActs(c)
    PROVE  Setup'
<1>1. DriverTyped /\ ModemTyped /\ QueueRight /\ ModemTyped'
  BY DEF IInv, Core
<1>2. phase[c] # "ring"
  BY DEF Setup, OutOnly
<1>3. UNCHANGED <<st, idx, dir, selectbusy, up, todo, modem, line>> /\ last' \in {last, NULL}
  BY <1>2 DEF CallRefused, Answer, Activate, HangupLooks, HangupActs, desc, driver, astvars
<1>4. PhaseMoves
  <2>1. \/ phase' = phase
        \/ \E p \in {"called", "hanging", "gone"} : /\ phase' = [phase EXCEPT ![c] = p]
                                                    /\ phase[c] \notin {"none", "selected"}
    BY <1>2 DEF CallRefused, Answer, Activate, HangupLooks, HangupActs, astvars
  <2> QED
    BY <1>1, <2>1 DEF PhaseMoves, DriverTyped
<1>5. idx[c] \in 0..MaxIdx
  BY <1>1 DEF DriverTyped
<1>6. PICK t \in {Task(c, <<Cmd("CHLD_2x", idx[c]), CLCC>>), Task(c, <<CHUP, CLCC>>)} :
          tasks' = tasks \/ tasks' = Urgent(tasks, t)
  BY <1>2 DEF CallRefused, Answer, Activate, HangupLooks, HangupActs, Enqueue
<1>7. t \in TaskSet /\ t.cmds # <<>> /\ ~Dials(t)
  BY <1>5, <1>6, QuietTasks
<1>8. KeptTasks
  <2>1. OutOnly /\ DialTasks /\ whose' = whose
    BY <1>3 DEF Setup, modem
  <2> QED
    BY <1>1, <1>6, <1>7, <2>1, UrgentKept
<1>9. Moved(0) /\ \A k \in Nat : OursListed(k)' /\ Numbered(k)'
  BY <1>3, NothingSaid DEF Setup, OutOnly
<1>10. \A i : ~Ends(i, 0) /\ ~Starts(i, 0) /\ ~Okay(0)
  BY <1>1, NothingAtZero
<1>11. /\ UNCHANGED <<st, idx, dir, selectbusy, up, call, whose>>
       /\ \A e \in Live : ~Ends(idx[e], 0)
       /\ \A r \in Idx : Starts(r, 0) => last' = NULL
       /\ \A r \in Idx : Ends(r, 0) =>
             \A q \in Idx : ~Speaks(q, 0)' /\ \A b, a : ~Shows(q, 0, b, a)'
       /\ ~Okay(0)
  BY <1>3, <1>10 DEF modem
<1> QED
  BY <1>1, <1>3, <1>4, <1>8, <1>9, <1>11, CalmMoves

LEMMA SelectKeeps ==
    ASSUME IInv, IInv', Setup, NEW c \in Cpvt, NEW h \in BOOLEAN, Select(c, h)
    PROVE  Setup'
<1>1. DriverTyped /\ ModemTyped /\ QueueRight /\ ModemTyped'
  BY DEF IInv, Core
<1>2. /\ UNCHANGED <<st, idx, dir, last, tasks, up, todo, modem, line>> /\ selectbusy' = TRUE
      /\ phase' = [phase EXCEPT ![c] = "selected"] /\ phase[c] = "none" /\ Ready(h, NULL)
  BY DEF Select
<1>3. phase'[c] = "selected" /\ \A e \in Cpvt : e # c => phase'[e] = phase[e]
  BY <1>1, <1>2 DEF DriverTyped
<1>4. Live' = Live /\ \A e : (Known(e)' <=> Known(e)) /\ (Dialling(e)' <=> Dialling(e))
  BY <1>2 DEF Live, Known, Dialling
<1>5. \A r \in Idx : OfOne(r)' <=> OfOne(r)
  BY <1>2, <1>4 DEF OfOne
<1>6. Moved(0) /\ \A k \in Nat : OursListed(k)' /\ Numbered(k)'
  BY <1>2, NothingSaid DEF Setup, OutOnly
<1>7. \A i : ~Ends(i, 0) /\ ~Starts(i, 0) /\ ~Okay(0)
  BY <1>1, NothingAtZero
<1>8. Said' /\ Told0'
  <2>1. 0 \in {0, 1} /\ UNCHANGED <<st, idx, whose>> /\ \A e \in Live : ~Ends(idx[e], 0)
    BY <1>2, <1>7 DEF modem
  <2> QED
    BY <1>1, <1>6, <2>1, SaidMoves, CalmTold DEF Setup
<1>9. OutOnly'
  BY <1>2, <1>3, <1>6, OutStays DEF Setup, modem
<1>10. OneAtATime'
  <2>1. SettingUp = {}
    <3>1. \A e \in Cpvt : phase[e] # "selected"
      BY <1>2 DEF Ready, Setup, OneAtATime
    <3>2. In({"INIT"}) = {} /\ In({"DIALING"}) = {}
      BY <1>2, CpvtAssumption DEF Ready, DialPossible, In, Live
    <3> QED
      BY <3>1, <3>2 DEF SettingUp, In
  <2>2. SettingUp' \subseteq {c}
    <3> SUFFICES ASSUME NEW e \in SettingUp', e # c PROVE FALSE
      OBVIOUS
    <3>1. e \in SettingUp
      BY <1>2, <1>3, <1>4 DEF SettingUp, In
    <3> QED
      BY <2>1, <3>1
  <2> QED
    BY <1>2, <2>2 DEF OneAtATime
<1>11. KeptTasks
  <2>1. Task(SysChan, <<CLCC>>) \in TaskSet /\ Task(SysChan, <<CLCC>>).cmds # <<>>
        /\ ~Dials(Task(SysChan, <<CLCC>>))
    BY QuietTasks
  <2>2. OutOnly /\ DialTasks /\ whose' = whose
    BY <1>2 DEF Setup, modem
  <2> QED
    BY <1>1, <1>2, <2>1, <2>2, UrgentKept
<1>12. KeptCalls(0)
  <2>1. \A e \in Cpvt : Begun(e) => Begun(e)'
    BY <1>2, <1>3 DEF Begun
  <2>2. \A e \in Cpvt : e \in Live' /\ phase'[e] = "down" => Dialling(e)'
    BY <1>3, <1>4 DEF Setup, OneCall
  <2>3. last' # NULL => last' = last /\ \A o \in Cpvt : o = last => Dialling(o)'
    BY <1>2, <1>4 DEF Setup, LastDialled
  <2> QED
    BY <1>4, <1>5, <1>7, <2>1, <2>2, <2>3 DEF KeptCalls
<1>13. Tasks'
  <2>1. 0 \in {0, 1} /\ whose' = whose /\ ~Okay(0)
        /\ \A r \in Idx : Ends(r, 0) =>
              \A q \in Idx : ~Speaks(q, 0)' /\ \A b, a : ~Shows(q, 0, b, a)'
    BY <1>2, <1>7 DEF modem
  <2> QED
    BY <1>1, <1>6, <1>11, <1>12, <2>1, TasksMove DEF Setup, Tasks
<1> QED
  BY <1>8, <1>9, <1>10, <1>13 DEF Setup, Tasks

LEMMA PseudoIdxFree == \A e \in Live : idx[e] # 0 => idx[e] # PseudoIdx
<1> DEFINE free == Idx \ {idx[c] : c \in Live}
<1>1. CASE free = {}
  BY <1>1 DEF PseudoIdx
<1>2. CASE free # {}
  <2>1. free \in SUBSET (1..MaxIdx) /\ MaxIdx \in Nat
    BY BoundAssumption DEF Idx
  <2>2. \E i \in free : \A j \in free : i <= j
    <3> HIDE DEF free
    <3> QED
      BY <1>2, <2>1, LeastExists
  <2>3. PseudoIdx = CHOOSE i \in free : \A j \in free : i <= j
    BY <1>2 DEF PseudoIdx
  <2>4. PseudoIdx \in free
    <3> HIDE DEF free
    <3> QED
      BY <2>2, <2>3
  <2> QED
    BY <2>4
<1> QED
  BY <1>1, <1>2

LEMMA RequestKeeps ==
    ASSUME IInv, IInv', Setup, NEW c \in Cpvt, Request(c)
    PROVE  Setup'
<1>1. DriverTyped /\ ModemTyped /\ QueueRight /\ ModemTyped' /\ PhasesRight
  BY DEF IInv, Core
<1>2. /\ UNCHANGED <<last, tasks, up, todo, modem, line>> /\ selectbusy' = FALSE
      /\ phase[c] = "selected" /\ phase' = [phase EXCEPT ![c] = "down"]
      /\ st' = [st EXCEPT ![c] = "INIT"] /\ idx' = [idx EXCEPT ![c] = PseudoIdx]
      /\ dir' = [dir EXCEPT ![c] = "out"]
  BY DEF Request, NewChannel
<1>3. /\ phase'[c] = "down" /\ st'[c] = "INIT" /\ idx'[c] = PseudoIdx
      /\ \A e \in Cpvt : e # c => phase'[e] = phase[e] /\ st'[e] = st[e] /\ idx'[e] = idx[e]
      /\ dir' = dir
  BY <1>1, <1>2 DEF DriverTyped, Setup, OutOnly
<1>4. c \notin Live /\ Live' = Live \cup {c}
  BY <1>1, <1>2, <1>3 DEF PhasesRight, Live, CallState
<1>5. \A e \in Cpvt : /\ Known(e)' <=> Known(e)
                      /\ Known(e) => e # c
                      /\ Dialling(e) => Dialling(e)' /\ e # c
  BY <1>3, <1>4 DEF Known, Dialling
<1>6. \A r \in Idx : (OfOne(r)' <=> OfOne(r)) /\ (OfCaller(r) => OfCaller(r)')
  <2>1. \A r \in Idx : OfOne(r)' <=> OfOne(r)
    BY <1>3, <1>5 DEF OfOne
  <2>2. \A r \in Idx : OfCaller(r) => OfCaller(r)'
    BY <1>2, <1>5 DEF OfCaller, modem
  <2> QED
    BY <2>1, <2>2
<1>7. /\ \A i, k, b, a : Shows(i, k, b, a)' <=> Shows(i, k, b, a)
      /\ \A i, k : /\ Speaks(i, k)' <=> Speaks(i, k)
                   /\ Ends(i, k)' <=> Ends(i, k)
                   /\ Starts(i, k)' <=> Starts(i, k)
      /\ Moved(0) /\ \A k \in Nat : OursListed(k)' /\ Numbered(k)'
  BY <1>2, NothingSaid DEF Setup, OutOnly
<1>8. \A i : ~Ends(i, 0) /\ ~Starts(i, 0) /\ ~Okay(0)
  BY <1>1, NothingAtZero
<1>9. Said'
  <2>1. 0 \in {0, 1}
    OBVIOUS
  <2> QED
    BY <1>1, <1>7, <2>1, SaidMoves DEF Setup
<1>10. Numbers'
  <2>1. \A e \in Live : idx[e] # 0 => idx[e] # PseudoIdx
    BY PseudoIdxFree
  <2>2. \A e, f \in Live' : idx'[e] = idx'[f] /\ idx'[e] # 0 => e = f
    BY <1>3, <1>4, <2>1 DEF Setup, Told0, Numbers, Live
  <2>3. \A e \in Cpvt : Known(e)' => idx'[e] \in Idx
    BY <1>3, <1>5 DEF Setup, Told0, Numbers
  <2> QED
    BY <2>2, <2>3 DEF Numbers
<1>11. \A e \in Cpvt : Known(e)' => Known(e) /\ idx'[e] = idx[e] /\ st'[e] = st[e] /\ idx[e] \in Idx
  BY <1>3, <1>5 DEF Setup, Told0, Numbers
<1>12. Owned'
  <2> SUFFICES ASSUME NEW e \in Cpvt, Known(e)', whose'[idx'[e]] # e
               PROVE  \E l \in Nat : Ends(idx[e], l)'
    BY DEF Owned
  <2>1. PICK r \in Idx : r = idx[e] /\ r = idx'[e]
    BY <1>11
  <2>2. PICK l \in Nat : Ends(r, l)
    BY <1>2, <1>11, <2>1 DEF Setup, Told0, Owned, modem
  <2>3. Ends(r, l)'
    BY <1>7, <2>2
  <2> QED
    BY <2>1, <2>3
<1>13. Front'
  <2> SUFFICES ASSUME NEW e \in Cpvt, Known(e)', NEW k \in Nat, NEW b \in 0..2, NEW a \in 0..2,
                      Shows(idx[e], k, b, a)', b < Stage(st'[e])
               PROVE  \E l \in Nat : l < k /\ Ends(idx[e], l)'
    BY DEF Front
  <2>1. PICK r \in Idx : r = idx[e] /\ r = idx'[e]
    BY <1>11
  <2>2. Shows(r, k, b, a)'
    BY <2>1
  <2>3. Shows(r, k, b, a)
    BY <1>7, <2>2
  <2>4. PICK l \in Nat : l < k /\ Ends(r, l)
    BY <1>11, <2>1, <2>3 DEF Setup, Told0, Front
  <2>5. Ends(r, l)'
    BY <1>7, <2>4
  <2> QED
    BY <2>1, <2>4, <2>5
<1>14. Accounted' /\ Twice' /\ Caller'
  <2>1. Accounted'
    BY <1>6, <1>7 DEF Setup, Told0, Accounted
  <2>2. Twice'
    BY <1>6, <1>7 DEF Setup, Told0, Twice
  <2>3. Caller'
    BY <1>6, <1>7 DEF Setup, Told0, Caller
  <2> QED
    BY <2>1, <2>2, <2>3
<1>15. OutOnly'
  <2>1. \A e \in Cpvt : /\ phase'[e] = "ring" => phase[e] = "ring"
                        /\ st'[e] \in {"INCOMING", "WAITING"} => st'[e] = st[e]
    BY <1>3
  <2> QED
    BY <1>2, <1>3, <1>7, <2>1, OutStays DEF Setup, modem
<1>16. OneAtATime'
  <2>1. SettingUp' \subseteq SettingUp
    BY <1>2, <1>3, <1>4 DEF SettingUp, In
  <2>2. \A e \in Cpvt : phase'[e] # "selected"
    <3> SUFFICES ASSUME NEW e \in Cpvt, phase'[e] = "selected" PROVE FALSE
      OBVIOUS
    <3>1. e # c /\ phase[e] = "selected"
      BY <1>3
    <3>2. e \in SettingUp /\ c \in SettingUp
      BY <1>2, <3>1 DEF SettingUp
    <3> QED
      BY <3>1, <3>2 DEF Setup, OneAtATime
  <2> QED
    BY <2>1, <2>2 DEF Setup, OneAtATime
<1>17. KeptTasks
  <2>1. Task(SysChan, <<CLCC>>) \in TaskSet /\ Task(SysChan, <<CLCC>>).cmds # <<>>
        /\ ~Dials(Task(SysChan, <<CLCC>>))
    BY QuietTasks
  <2>2. OutOnly /\ DialTasks /\ whose' = whose
    BY <1>2 DEF Setup, modem
  <2> QED
    BY <1>1, <1>2, <2>1, <2>2, UrgentKept
<1>18. KeptCalls(0)
  <2>1. \A e \in Cpvt : Begun(e) => Begun(e)'
    BY <1>2, <1>3 DEF Begun
  <2>2. \A e \in Cpvt : e \in Live' /\ phase'[e] = "down" => Dialling(e)'
    <3>1. Dialling(c)'
      BY <1>3, <1>4 DEF Dialling
    <3>2. ASSUME NEW e \in Cpvt, e # c, e \in Live', phase'[e] = "down"
          PROVE  Dialling(e)'
      BY <1>3, <1>4, <1>5, <3>2 DEF Setup, OneCall
    <3> QED
      BY <3>1, <3>2
  <2>3. last' # NULL => last' = last /\ \A o \in Cpvt : o = last => Dialling(o)'
    BY <1>2, <1>5 DEF Setup, LastDialled
  <2> QED
    BY <1>5, <1>6, <1>8, <2>1, <2>2, <2>3 DEF KeptCalls
<1>19. Tasks'
  <2>1. 0 \in {0, 1} /\ whose' = whose /\ ~Okay(0)
        /\ \A r \in Idx : Ends(r, 0) =>
              \A q \in Idx : ~Speaks(q, 0)' /\ \A b, a : ~Shows(q, 0, b, a)'
    BY <1>2, <1>8 DEF modem
  <2> QED
    BY <1>1, <1>7, <1>17, <1>18, <2>1, TasksMove DEF Setup, Tasks
<1> QED
  BY <1>9, <1>10, <1>12, <1>13, <1>14, <1>15, <1>16, <1>19 DEF Setup, Told0, Tasks

LEMMA DialOnce ==
    ASSUME NEW c \in Cpvt
    PROVE  /\ Task(c, DialCmds(c)) \in TaskSet
           /\ Task(c, DialCmds(c)).cpvt = c /\ Task(c, DialCmds(c)).cmds = DialCmds(c)
           /\ \A m, n \in DOMAIN DialCmds(c) :
                 DialCmds(c)[m].cmd = "D" /\ DialCmds(c)[n].cmd = "D" => m = n
<1>1. DialCmds(c) \in Seq(CmdSet)
  BY DialTyped
<1>2. /\ Task(c, DialCmds(c)) \in TaskSet
      /\ Task(c, DialCmds(c)).cpvt = c /\ Task(c, DialCmds(c)).cmds = DialCmds(c)
  BY <1>1 DEF Task, TaskSet
<1> DEFINE x == Cmd("CHLD_2", 0)
           y == Cmd("D", 0)
<1>3. x.cmd = "CHLD_2" /\ y.cmd = "D" /\ CLCC.cmd = "CLCC"
  BY DEF Cmd, CLCC
<1> HIDE DEF x, y
<1>4. DialCmds(c) = <<x>> \o <<y, CLCC>> \/ DialCmds(c) = <<>> \o <<y, CLCC>>
  BY DEF DialCmds, x, y
<1> DEFINE z == CLCC
<1> HIDE DEF z
<1>5. /\ Len(<<x>> \o <<y, z>>) = 3 /\ (<<x>> \o <<y, z>>)[1] = x
      /\ (<<x>> \o <<y, z>>)[2] = y /\ (<<x>> \o <<y, z>>)[3] = z
      /\ <<>> \o <<y, z>> = <<y, z>>
  OBVIOUS
<1>6. CASE DialCmds(c) = <<x>> \o <<y, z>>
  <2>1. DOMAIN DialCmds(c) = 1..Len(DialCmds(c)) /\ Len(DialCmds(c)) = 3
        /\ DialCmds(c)[1] = x /\ DialCmds(c)[3] = z
    BY <1>1, <1>5, <1>6
  <2>2. \A m \in DOMAIN DialCmds(c) : DialCmds(c)[m].cmd = "D" => m = 2
    <3> SUFFICES ASSUME NEW m \in 1..3, m # 2, DialCmds(c)[m].cmd = "D" PROVE FALSE
      BY <2>1
    <3>1. m = 1 \/ m = 3
      OBVIOUS
    <3> QED
      BY <1>3, <2>1, <3>1 DEF z
  <2> QED
    BY <1>2, <2>2
<1>7. CASE DialCmds(c) = <<>> \o <<y, z>>
  <2>1. DOMAIN DialCmds(c) = {1, 2} /\ DialCmds(c)[2] = z
    BY <1>5, <1>7
  <2>2. \A m \in DOMAIN DialCmds(c) : DialCmds(c)[m].cmd = "D" => m = 1
    BY <1>3, <2>1 DEF z
  <2> QED
    BY <1>2, <2>2
<1> QED
  BY <1>4, <1>6, <1>7 DEF z

LEMMA CallKeeps ==
    ASSUME IInv, IInv', Setup, NEW c \in Cpvt, Call(c)
    PROVE  Setup'
<1>1. DriverTyped /\ ModemTyped /\ QueueRight /\ ModemTyped' /\ LinksMatch
  BY DEF IInv, Core
<1>2. /\ UNCHANGED <<st, idx, dir, last, selectbusy, up, todo, modem, line>>
      /\ phase[c] = "down" /\ chan[c] /\ phase' = [phase EXCEPT ![c] = "called"]
      /\ tasks' = tasks \/ tasks' = Urgent(tasks, Task(c, DialCmds(c)))
  BY DEF Call, driver
<1>3. phase'[c] = "called" /\ \A e \in Cpvt : e # c => phase'[e] = phase[e]
  BY <1>1, <1>2 DEF DriverTyped
<1>4. PhaseMoves
  BY <1>2, <1>3 DEF PhaseMoves
<1>5. Live' = Live /\ \A e : (Known(e)' <=> Known(e)) /\ (Dialling(e)' <=> Dialling(e))
  BY <1>2 DEF Live, Known, Dialling
<1>6. \A r \in Idx : OfOne(r)' <=> OfOne(r)
  BY <1>2, <1>5 DEF OfOne
<1>7. Moved(0) /\ \A k \in Nat : OursListed(k)' /\ Numbered(k)'
  BY <1>2, NothingSaid DEF Setup, OutOnly
<1>8. \A i : ~Ends(i, 0) /\ ~Starts(i, 0) /\ ~Okay(0)
  BY <1>1, NothingAtZero
<1>9. CASE tasks' = tasks
  <2>1. KeptTasks
    <3>1. Task(SysChan, <<CLCC>>) \in TaskSet /\ Task(SysChan, <<CLCC>>).cmds # <<>>
          /\ ~Dials(Task(SysChan, <<CLCC>>))
      BY QuietTasks
    <3>2. OutOnly /\ DialTasks /\ whose' = whose
      BY <1>2 DEF Setup, modem
    <3> QED
      BY <1>1, <1>9, <3>1, <3>2, UrgentKept
  <2>2. /\ UNCHANGED <<st, idx, dir, selectbusy, up, call, whose>> /\ last' \in {last, NULL}
        /\ \A e \in Live : ~Ends(idx[e], 0)
        /\ \A r \in Idx : Starts(r, 0) => last' = NULL
        /\ \A r \in Idx : Ends(r, 0) =>
              \A q \in Idx : ~Speaks(q, 0)' /\ \A b, a : ~Shows(q, 0, b, a)'
        /\ ~Okay(0)
    BY <1>2, <1>8 DEF modem
  <2> QED
    BY <1>1, <1>4, <1>7, <2>1, <2>2, CalmMoves
<1>10. CASE tasks' = Urgent(tasks, Task(c, DialCmds(c)))
  <2>1. Said' /\ Told0'
    <3>1. 0 \in {0, 1} /\ UNCHANGED <<st, idx, whose>> /\ \A e \in Live : ~Ends(idx[e], 0)
      BY <1>2, <1>8 DEF modem
    <3> QED
      BY <1>1, <1>7, <3>1, SaidMoves, CalmTold DEF Setup
  <2>2. OutOnly'
    BY <1>2, <1>3, <1>7, OutStays DEF Setup, modem
  <2>3. OneAtATime'
    <3>1. \A e \in Cpvt : phase'[e] = "selected" => phase[e] = "selected"
      BY <1>2, <1>3
    <3>2. \A e \in Cpvt : e \in Live' /\ st'[e] \in {"INIT", "DIALING"} /\ dir[e] = "out"
             => e \in SettingUp
      BY <1>2, <1>5 DEF SettingUp, In
    <3> QED
      BY <1>2, <3>1, <3>2, SetupStays DEF Setup
(* Nothing was dialled for c, and nothing for anybody else.                 *)
  <2>4. Dialling(c) /\ ~Begun(c) /\ c # NULL
    <3>1. c \in Live /\ ~Begun(c)
      BY <1>1, <1>2 DEF LinksMatch, Begun
    <3> QED
      BY <1>2, <3>1, CpvtAssumption DEF Setup, OneCall
  <2>5. OnlyDialler
    BY OnlyOneDials DEF Setup
  <2>6. \A k \in Nat : ~DialAt(k)
    BY <2>4, <2>5 DEF Setup, DialTasks, OnlyDialler
  <2>7. last = NULL
    BY <1>1, <2>4, <2>5 DEF Setup, LastDialled, OnlyDialler, DriverTyped
  <2>8. \A i \in Idx : whose[i] # c
    BY <2>4 DEF Setup, OneCall
  <2> DEFINE t == Task(c, DialCmds(c))
  <2>9. /\ t \in TaskSet /\ t.cpvt = c /\ t.cmds = DialCmds(c)
        /\ \A m, n \in DOMAIN DialCmds(c) :
              DialCmds(c)[m].cmd = "D" /\ DialCmds(c)[n].cmd = "D" => m = n
    BY DialOnce
  <2> HIDE DEF t
  <2>10. tasks \in Seq(TaskSet) /\ tasks' = Urgent(tasks, t)
    BY <1>1, <1>10, SeqMonotone DEF QueueRight, Right, t
  <2>11. /\ tasks' \in Seq(TaskSet) /\ Len(tasks') = Len(tasks) + 1
         /\ tasks = <<>> => tasks'[1] = t
         /\ tasks # <<>> => /\ tasks'[1] = tasks[1] /\ tasks'[2] = t
                            /\ \A k \in 3..(Len(tasks) + 1) : tasks'[k] = tasks[k - 1]
    <3>1. t \in TaskSet /\ tasks \in Seq(TaskSet)
      BY <2>9, <2>10
    <3>2. /\ Urgent(tasks, t) \in Seq(TaskSet) /\ Len(Urgent(tasks, t)) = Len(tasks) + 1
          /\ tasks = <<>> => Urgent(tasks, t)[1] = t
          /\ tasks # <<>> =>
                /\ Urgent(tasks, t)[1] = tasks[1] /\ Urgent(tasks, t)[2] = t
                /\ \A k \in 3..(Len(tasks) + 1) : Urgent(tasks, t)[k] = tasks[k - 1]
      BY <3>1, UrgentAt
    <3> QED
      BY <2>10, <3>2
  <2>12. Len(tasks) \in Nat /\ (tasks = <<>> => Len(tasks) = 0) /\ (tasks # <<>> => Len(tasks) > 0)
    BY <2>10
  <2>13. \A k \in 1..Len(tasks) : ~Dials(tasks[k])
    BY <2>6 DEF DialAt
  <2>14. ASSUME NEW k \in Nat, DialAt(k)'
         PROVE  tasks'[k] = t /\ k = IF tasks = <<>> THEN 1 ELSE 2
    <3>1. k \in 1..(Len(tasks) + 1) /\ Dials(tasks'[k])
      BY <2>11, <2>14 DEF DialAt, Dials
    <3>2. CASE tasks = <<>>
      <4>1. k = 1
        BY <2>12, <3>1, <3>2
      <4> QED
        BY <2>11, <3>2, <4>1
    <3>3. CASE tasks # <<>>
      <4>1. k # 1
        <5>1. 1 \in 1..Len(tasks) /\ tasks'[1] = tasks[1]
          BY <2>11, <2>12, <3>3
        <5> QED
          BY <2>13, <3>1, <5>1
      <4>2. ASSUME k # 2 PROVE FALSE
        <5>1. k \in 3..(Len(tasks) + 1) /\ k - 1 \in 1..Len(tasks)
          BY <2>12, <3>1, <4>1, <4>2
        <5>2. tasks'[k] = tasks[k - 1]
          BY <2>11, <3>3, <5>1
        <5> QED
          BY <2>13, <3>1, <5>1, <5>2
      <4> QED
        BY <2>11, <3>3, <4>2
    <3> QED
      BY <3>2, <3>3
  <2>15. Dialling(c)' /\ Begun(c)'
    BY <1>3, <1>5, <2>4 DEF Begun
  <2>16. DialTasks'
    <3>1. \A k, l \in Nat : DialAt(k)' /\ DialAt(l)' => k = l
      BY <2>14
    <3>2. ASSUME NEW k \in Nat, DialAt(k)'
          PROVE  /\ tasks'[k].cpvt \in Cpvt /\ Dialling(tasks[k].cpvt)' /\ Begun(tasks[k].cpvt)'
                 /\ \A i \in Idx : whose'[i] # tasks'[k].cpvt
                 /\ \A m, n \in DOMAIN tasks'[k].cmds :
                       tasks'[k].cmds[m].cmd = "D" /\ tasks'[k].cmds[n].cmd = "D" => m = n
      <4>1. tasks'[k] = t /\ tasks'[k].cpvt = c
        BY <2>9, <2>14, <3>2
      <4>2. \A i \in Idx : whose'[i] # c
        BY <1>2, <2>8 DEF modem
      <4> QED
        BY <2>9, <2>15, <4>1, <4>2
    <3> QED
      BY <3>1, <3>2 DEF DialTasks
  <2>17. \A r \in Idx : ~Dialled(r)'
    <3> SUFFICES ASSUME NEW r \in Idx, HeadCmd'.cmd = "D", whose'[r] = HeadTask'.cpvt
                 PROVE  FALSE
      BY DEF Dialled
    <3>1. HeadTask' = tasks'[1] /\ 1 \in 1..Len(tasks')
      BY <2>11, <2>12 DEF HeadTask
    <3>2. CASE tasks = <<>>
      BY <1>2, <2>8, <2>9, <2>11, <3>1, <3>2 DEF modem
    <3>3. CASE tasks # <<>>
      <4>1. 1 \in 1..Len(tasks) /\ HeadTask' = tasks[1]
        BY <2>11, <2>12, <3>1, <3>3
      <4>2. tasks[1] \in Right
        BY <1>1, <4>1 DEF QueueRight
      <4>3. tasks[1].cmds \in Seq(CmdSet) /\ tasks[1].cmds # <<>>
        BY <4>2 DEF Right, TaskSet
      <4>4. 1 \in DOMAIN tasks[1].cmds /\ HeadCmd' = tasks[1].cmds[1]
        BY <4>1, <4>3 DEF HeadCmd
      <4> QED
        BY <2>13, <4>1, <4>4 DEF Dials
    <3> QED
      BY <3>2, <3>3
  <2>18. OneCall'
    <3>1. ASSUME NEW i \in Idx, whose'[i] # NULL
          PROVE  Begun(whose[i])'
      <4>1. PICK e \in Cpvt : e = whose[i] /\ e = whose'[i]
        BY <1>2, <3>1 DEF Setup, OutOnly, modem
      <4>2. Begun(e) /\ e # c
        BY <2>4, <3>1, <4>1 DEF Setup, OneCall
      <4>3. Begun(e)'
        BY <1>3, <4>2 DEF Begun
      <4> QED
        BY <4>1, <4>3
    <3>2. \A e \in Live' : phase'[e] = "down" => Dialling(e)'
      BY <1>3, <1>5 DEF Setup, OneCall, Live
    <3>3. \A i, j \in Idx : whose'[i] = whose'[j] /\ whose'[i] # NULL => i = j
      BY <1>2 DEF Setup, OneCall, modem
    <3> QED
      BY <3>1, <3>2, <3>3 DEF OneCall
  <2>19. LastDialled' /\ Unread' /\ Fresh'
    BY <1>2, <2>7, <2>17 DEF LastDialled, Unread, Fresh
  <2> QED
    BY <2>1, <2>2, <2>3, <2>16, <2>18, <2>19 DEF Setup
<1> QED
  BY <1>2, <1>9, <1>10

-----------------------------------------------------------------------------
(* The modem goes on.                                                       *)

(* What was said stays where it is.                                         *)
SaidStays ==
    /\ Len(line') \in Nat /\ Len(line') >= Len(line)
    /\ \A k \in Nat : k <= Len(line) =>
          /\ \A i, b, a : Shows(i, k, b, a)' <=> Shows(i, k, b, a)
          /\ \A i : /\ Speaks(i, k)' <=> Speaks(i, k)
                    /\ Ends(i, k)' <=> Ends(i, k)
                    /\ Starts(i, k)' <=> Starts(i, k)
          /\ (Okay(k)' <=> Okay(k)) /\ (OursListed(k)' <=> OursListed(k))
          /\ (Numbered(k)' <=> Numbered(k))

LEMMA SaysMore ==
    ASSUME ModemTyped, todo' = todo, NEW lines \in Seq(Heard), Says(lines)
    PROVE  /\ SaidStays
           /\ Len(line') = Len(line) + Len(lines)
           /\ \A k \in 1..Len(lines) : line'[Len(line) + k] = lines[k]
<1>1. /\ line \in Seq(Heard) /\ Len(line) \in Nat /\ Len(lines) \in Nat
      /\ line' = line \o lines /\ Len(line') = Len(line) + Len(lines)
      /\ \A k \in 1..Len(line) : line'[k] = line[k]
      /\ \A k \in 1..Len(lines) : line'[Len(line) + k] = lines[k]
  BY DEF ModemTyped, Says
<1>2. Len(line') \in Nat /\ Len(line') >= Len(line)
  BY <1>1
<1>3. ASSUME NEW k \in Nat, k <= Len(line)
      PROVE  /\ ~(k > Len(line)) /\ ~(k > Len(line'))
             /\ k \in 1..Len(line) <=> k \in 1..Len(line')
             /\ k \in 1..Len(line) => line'[k] = line[k]
             /\ ListAt(k)' = ListAt(k)
  <2>1. /\ ~(k > Len(line)) /\ ~(k > Len(line'))
        /\ k \in 1..Len(line) <=> k \in 1..Len(line')
    BY <1>1, <1>3
  <2>2. k \in 1..Len(line) => line'[k] = line[k]
    BY <1>1
  <2>3. ListAt(k)' = ListAt(k)
    BY <2>1, <2>2 DEF ListAt
  <2> QED
    BY <2>1, <2>2, <2>3
<1>4. ASSUME NEW k \in Nat, k <= Len(line)
      PROVE  /\ \A i, b, a : Shows(i, k, b, a)' <=> Shows(i, k, b, a)
             /\ \A i : /\ Speaks(i, k)' <=> Speaks(i, k)
                       /\ Ends(i, k)' <=> Ends(i, k)
                       /\ Starts(i, k)' <=> Starts(i, k)
             /\ (Okay(k)' <=> Okay(k)) /\ (OursListed(k)' <=> OursListed(k))
             /\ (Numbered(k)' <=> Numbered(k))
  <2>1. /\ ~(k > Len(line)) /\ ~(k > Len(line'))
        /\ k \in 1..Len(line) <=> k \in 1..Len(line')
        /\ k \in 1..Len(line) => line'[k] = line[k]
        /\ ListAt(k)' = ListAt(k)
    BY <1>3, <1>4
  <2>2. \A e : Hears(k, e)' <=> Hears(k, e)
    BY <2>1 DEF Hears
  <2>3. \A i, s : Listed(i, k, s)' <=> Listed(i, k, s)
    BY <2>1 DEF Listed
  <2>4. \A i : (Ends(i, k)' <=> Ends(i, k)) /\ (Starts(i, k)' <=> Starts(i, k))
    BY <2>2 DEF Ends, Starts
  <2>5. \A i, b, a : Shows(i, k, b, a)' <=> Shows(i, k, b, a)
    BY <2>1, <2>2, <2>3, <2>4 DEF Shows
  <2>6. \A i : Speaks(i, k)' <=> Speaks(i, k)
    BY <2>1, <2>2, <2>3, <2>4 DEF Speaks
  <2>7. (Okay(k)' <=> Okay(k)) /\ (OursListed(k)' <=> OursListed(k))
        /\ (Numbered(k)' <=> Numbered(k))
    BY <2>1 DEF Okay, OursListed, Numbered
  <2> QED
    BY <2>4, <2>5, <2>6, <2>7
<1> QED
  BY <1>1, <1>2, <1>4 DEF SaidStays

(* What is new follows from how the calls were, as the modem would have     *)
(* told.                                                                    *)
Follows ==
    LET n == Len(line)
    IN  /\ \A i \in Idx, k \in Nat, b, a \in 0..2 :
             k > n /\ Shows(i, k, b, a)' /\ b < Stage(call[i])
                 => \E l \in Nat : n < l /\ l < k /\ Ends(i, l)'
        /\ \A i \in Idx, j, k \in Nat, b, a, bb, aa \in 0..2 :
             n < j /\ j < k /\ Shows(i, j, b, a)' /\ Shows(i, k, bb, aa)' => ~(bb < a)
        /\ \A i \in Idx, k \in Nat : k > n /\ Speaks(i, k)' => call[i] # "none"
        /\ \A i \in Idx, j, k \in Nat : n < j /\ j < k /\ Ends(i, j)' =>
             ~Speaks(i, k)' /\ \A b, a \in 0..2 : Shows(i, k, b, a)' => b = 0
        /\ \A i \in Idx, k \in Nat, a \in 0..2 :
             k > n /\ Shows(i, k, 0, a)' /\ Speaks(i, k)' => call[i] = "calling"
        /\ \A i \in Idx, k \in Nat, b, a \in 0..2 :
             k > n /\ Shows(i, k, b, a)' /\ b > 0 =>
                 Stage(call[i]) > 0 \/ \E m \in Nat : n < m /\ m < k /\ Starts(i, m)'
        /\ \A m \in Nat : m > n /\ Okay(m)' => HeadCmd.cmd # "D"
        /\ \A k \in Nat : k > n => OursListed(k)' /\ Numbered(k)'
        /\ \A i \in Idx : call'[i] \in {"none", "calling", "DIALING", "ACTIVE", "ONHOLD"}
                          /\ (call'[i] # "none" => call[i] # "none")

LEMMA FollowsKeeps ==
    ASSUME IInv, Setup, SaidStays, Follows, 
           UNCHANGED <<desc, astvars, driver, tasks, todo, incoming, stale, whose>>
    PROVE  Setup'
<1>1. ModemTyped /\ Len(line) \in Nat
  BY HeardAt DEF IInv
<1>2. UNCHANGED <<st, idx, dir, phase, last, selectbusy, up, tasks, whose>>
  BY DEF desc, astvars, driver
<1> DEFINE n == Len(line)
<1>3. n \in Nat /\ n + 1 \in Nat /\ n + 1 > n
  BY <1>1
<1>4. \A i \in Idx : /\ Shows(i, n + 1, Stage(call[i]), Stage(call[i]))
                     /\ Speaks(i, n + 1) <=> call[i] # "none"
  BY <1>1, <1>3, Behind
<1>5. \A i \in Idx, k \in Nat : k <= n =>
         /\ \A b, a : Shows(i, k, b, a)' <=> Shows(i, k, b, a)
         /\ Speaks(i, k)' <=> Speaks(i, k)
  BY DEF SaidStays
<1>6. \A i \in Idx, k \in Nat : /\ k <= n => (Ends(i, k)' <=> Ends(i, k))
                                /\ k <= n => (Starts(i, k)' <=> Starts(i, k))
                                /\ Ends(i, k) => k <= n /\ Ends(i, k)'
                                /\ Starts(i, k) => k <= n /\ Starts(i, k)'
  <2> SUFFICES ASSUME NEW i \in Idx, NEW k \in Nat
               PROVE  /\ k <= n => (Ends(i, k)' <=> Ends(i, k)) /\ (Starts(i, k)' <=> Starts(i, k))
                      /\ ~(k <= n) => ~Ends(i, k) /\ ~Starts(i, k)
    OBVIOUS
  <2>1. ~(k <= n) => k > n
    BY <1>3
  <2> QED
    BY <1>1, <2>1, Behind DEF SaidStays
<1>7. \A k \in Nat : Okay(k) => k <= n /\ Okay(k)'
  <2> SUFFICES ASSUME NEW k \in Nat, Okay(k) PROVE k <= n /\ Okay(k)'
    OBVIOUS
  <2>1. k <= n
    BY <1>3 DEF Okay
  <2> QED
    BY <2>1 DEF SaidStays
<1>8. /\ Live' = Live
      /\ \A c : (Known(c)' <=> Known(c)) /\ (Dialling(c)' <=> Dialling(c))
                /\ (Begun(c)' <=> Begun(c))
  BY <1>2 DEF Live, Known, Dialling, Begun
<1>9. \A i \in Idx : (OfOne(i)' <=> OfOne(i)) /\ (OfCaller(i)' <=> OfCaller(i))
                     /\ (Dialled(i)' <=> Dialled(i))
  BY <1>2, <1>8 DEF OfOne, OfCaller, Dialled, HeadCmd, HeadTask
<1> HIDE DEF n
<1>10. /\ \A i \in Idx, k \in Nat, b, a \in 0..2 :
             k > n /\ Shows(i, k, b, a)' /\ b < Stage(call[i])
                 => \E l \in Nat : n < l /\ l < k /\ Ends(i, l)'
       /\ \A i \in Idx, j, k \in Nat, b, a, bb, aa \in 0..2 :
             n < j /\ j < k /\ Shows(i, j, b, a)' /\ Shows(i, k, bb, aa)' => ~(bb < a)
       /\ \A i \in Idx, k \in Nat : k > n /\ Speaks(i, k)' => call[i] # "none"
       /\ \A i \in Idx, j, k \in Nat : n < j /\ j < k /\ Ends(i, j)' =>
             ~Speaks(i, k)' /\ \A b, a \in 0..2 : Shows(i, k, b, a)' => b = 0
       /\ \A i \in Idx, k \in Nat, a \in 0..2 :
             k > n /\ Shows(i, k, 0, a)' /\ Speaks(i, k)' => call[i] = "calling"
       /\ \A i \in Idx, k \in Nat, b, a \in 0..2 :
             k > n /\ Shows(i, k, b, a)' /\ b > 0 =>
                 Stage(call[i]) > 0 \/ \E m \in Nat : n < m /\ m < k /\ Starts(i, m)'
       /\ \A m \in Nat : m > n /\ Okay(m)' => HeadCmd.cmd # "D"
       /\ \A k \in Nat : k > n => OursListed(k)' /\ Numbered(k)'
       /\ \A i \in Idx : call'[i] \in {"none", "calling", "DIALING", "ACTIVE", "ONHOLD"}
                         /\ (call'[i] # "none" => call[i] # "none")
  BY DEF Follows, n
<1>11. \A k \in Nat : k > n \/ k <= n
  BY <1>3
<1>12. \A i : Stage(call[i]) \in 0..2
  BY StageRange
<1>13. Ordered'
  <2> SUFFICES ASSUME NEW i \in Idx, NEW j \in Nat, NEW k \in Nat, NEW b \in 0..2, NEW a \in 0..2,
                      NEW bb \in 0..2, NEW aa \in 0..2,
                      j < k, Shows(i, j, b, a)', Shows(i, k, bb, aa)', bb < a
               PROVE  \E l \in Nat : j < l /\ l < k /\ Ends(i, l)'
    BY DEF Ordered
  <2>1. CASE k <= n
    <3>1. j <= n
      BY <1>3, <2>1
    <3>2. PICK l \in Nat : j < l /\ l < k /\ Ends(i, l)
      BY <1>5, <2>1, <3>1 DEF Setup, Said, Ordered
    <3> QED
      BY <1>6, <3>2
  <2>2. CASE k > n /\ j <= n
    <3>1. CASE bb < Stage(call[i])
      <4>1. PICK l \in Nat : n < l /\ l < k /\ Ends(i, l)'
        BY <1>10, <2>2, <3>1
      <4>2. j < l
        BY <1>3, <2>2, <4>1
      <4> QED
        BY <4>1, <4>2
    <3>2. CASE ~(bb < Stage(call[i]))
      <4>1. Stage(call[i]) < a /\ j < n + 1
        BY <1>3, <1>12, <2>2, <3>2
      <4>2. Shows(i, j, b, a) /\ Shows(i, n + 1, Stage(call[i]), Stage(call[i]))
        BY <1>4, <1>5, <2>2
      <4>3. PICK l \in Nat : j < l /\ l < n + 1 /\ Ends(i, l)
        BY <1>3, <1>12, <4>1, <4>2 DEF Setup, Said, Ordered
      <4>4. l < k /\ Ends(i, l)'
        BY <1>3, <1>6, <2>2, <4>3
      <4> QED
        BY <4>3, <4>4
    <3> QED
      BY <3>1, <3>2
  <2>3. CASE j > n
    BY <1>10, <2>3
  <2> QED
    BY <1>11, <2>1, <2>2, <2>3
<1>14. Restarts'
  <2> SUFFICES ASSUME NEW i \in Idx, NEW j \in Nat, NEW k \in Nat, NEW b \in 0..2, NEW a \in 0..2,
                      Ends(i, j)', Shows(i, k, b, a)', b > 0, j < k
               PROVE  \E m \in Nat : j < m /\ m < k /\ Starts(i, m)'
    BY DEF Restarts
  <2>1. CASE k <= n
    <3>1. j <= n
      BY <1>3, <2>1
    <3>2. PICK l \in Nat : j < l /\ l < k /\ Starts(i, l)
      BY <1>5, <1>6, <2>1, <3>1 DEF Setup, Said, Restarts
    <3> QED
      BY <1>6, <3>2
  <2>2. CASE k > n /\ j <= n
    <3>1. CASE Stage(call[i]) > 0
      <4>1. Ends(i, j) /\ j < n + 1 /\ Shows(i, n + 1, Stage(call[i]), Stage(call[i]))
        BY <1>3, <1>4, <1>6, <2>2
      <4>2. PICK m \in Nat : j < m /\ m < n + 1 /\ Starts(i, m)
        BY <1>3, <1>12, <3>1, <4>1 DEF Setup, Said, Restarts
      <4>3. m < k /\ Starts(i, m)'
        BY <1>3, <1>6, <2>2, <4>2
      <4> QED
        BY <4>2, <4>3
    <3>2. CASE \E m \in Nat : n < m /\ m < k /\ Starts(i, m)'
      <4>1. PICK m \in Nat : n < m /\ m < k /\ Starts(i, m)'
        BY <3>2
      <4>2. j < m
        BY <1>3, <2>2, <4>1
      <4> QED
        BY <4>1, <4>2
    <3> QED
      BY <1>10, <2>2, <3>1, <3>2
  <2>3. CASE j > n
    <3>1. b = 0
      BY <1>10, <2>3
    <3> QED
      BY <3>1
  <2> QED
    BY <1>11, <2>1, <2>2, <2>3
<1>15. Numbers' /\ Owned' /\ Front'
  <2>1. Numbers'
    BY <1>2, <1>8 DEF Setup, Told0, Numbers
  <2>2. \A c \in Cpvt : Known(c) => idx[c] \in Idx
    BY DEF Setup, Told0, Numbers
  <2>3. ASSUME NEW c \in Cpvt, Known(c), whose[idx[c]] # c
        PROVE  \E l \in Nat : Ends(idx[c], l)'
    <3>1. PICK i \in Idx : i = idx[c]
      BY <2>2, <2>3
    <3>2. PICK l \in Nat : Ends(i, l)
      BY <2>3, <3>1 DEF Setup, Told0, Owned
    <3>3. Ends(i, l)' /\ idx'[c] = i
      BY <1>2, <1>6, <3>1, <3>2
    <3> QED
      BY <3>3
  <2>4. ASSUME NEW c \in Cpvt, NEW k \in Nat, NEW b \in 0..2, NEW a \in 0..2,
               Known(c), Shows(idx[c], k, b, a)', b < Stage(st[c])
        PROVE  \E l \in Nat : l < k /\ Ends(idx[c], l)'
    <3>1. PICK i \in Idx : i = idx[c] /\ idx'[c] = i
      BY <1>2, <2>2, <2>4
    <3>2. Shows(i, k, b, a)'
      BY <2>4, <3>1
    <3>3. ASSUME NEW l \in Nat, l < k, Ends(i, l)'
          PROVE  \E ll \in Nat : ll < k /\ Ends(idx[c], ll)'
      BY <3>1, <3>3
    <3>4. CASE k <= n
      <4>1. PICK l \in Nat : l < k /\ Ends(i, l)
        BY <1>5, <2>4, <3>1, <3>2, <3>4 DEF Setup, Told0, Front
      <4> QED
        BY <1>6, <3>3, <4>1
    <3>5. CASE k > n
      <4>1. CASE b < Stage(call[i])
        <5>1. PICK l \in Nat : n < l /\ l < k /\ Ends(i, l)'
          BY <1>10, <3>2, <3>5, <4>1
        <5> QED
          BY <3>3, <5>1
      <4>2. CASE ~(b < Stage(call[i]))
        <5>1. Stage(call[i]) < Stage(st[c])
          BY <1>12, <2>4, <4>2, StageRange
        <5>2. PICK l \in Nat : l < n + 1 /\ Ends(i, l)
          BY <1>3, <1>4, <1>12, <2>4, <3>1, <5>1 DEF Setup, Told0, Front
        <5>3. l < k /\ Ends(i, l)'
          BY <1>3, <1>6, <3>5, <5>2
        <5> QED
          BY <3>3, <5>3
      <4> QED
        BY <4>1, <4>2
    <3> QED
      BY <1>11, <3>4, <3>5
  <2>5. Owned'
    BY <1>2, <1>8, <2>3 DEF Owned
  <2>6. Front'
    BY <1>2, <1>8, <2>4 DEF Front
  <2> QED
    BY <2>1, <2>5, <2>6
<1>16. Accounted'
  <2> SUFFICES ASSUME NEW i \in Idx, NEW k \in Nat, Speaks(i, k)'
               PROVE  OfOne(i) \/ OfCaller(i)
    BY <1>9 DEF Accounted
  <2>1. k <= n => Speaks(i, k)
    BY <1>5
  <2>2. k > n => Speaks(i, n + 1)
    BY <1>4, <1>10
  <2> QED
    BY <1>3, <1>11, <2>1, <2>2 DEF Setup, Told0, Accounted
<1>17. Twice'
  <2> SUFFICES ASSUME NEW i \in Idx, NEW j \in Nat, NEW k \in Nat,
                      Ends(i, j)', Speaks(i, k)', j < k
               PROVE  OfOne(i) /\ OfCaller(i) /\ \A l \in Nat : l < j => ~Ends(i, l)'
    BY <1>9 DEF Twice
  <2>1. j <= n
    BY <1>10, <1>11
  <2>2. Ends(i, j)
    BY <1>6, <2>1
  <2>3. \E m \in Nat : j < m /\ Speaks(i, m)
    <3>1. k <= n => Speaks(i, k)
      BY <1>5
    <3>2. k > n => Speaks(i, n + 1) /\ j < n + 1
      BY <1>3, <1>4, <1>10, <2>1
    <3> QED
      BY <1>3, <1>11, <3>1, <3>2
  <2>4. OfOne(i) /\ OfCaller(i) /\ \A l \in Nat : l < j => ~Ends(i, l)
    BY <2>2, <2>3 DEF Setup, Told0, Twice
  <2>5. \A l \in Nat : l < j => l <= n
    BY <1>3, <2>1
  <2> QED
    BY <1>6, <2>4, <2>5
<1>18. Caller'
  <2> SUFFICES ASSUME NEW i \in Idx, NEW k \in Nat, NEW a \in 0..2,
                      Shows(i, k, 0, a)', Speaks(i, k)'
               PROVE  OfCaller(i)
    BY <1>9 DEF Caller
  <2>1. CASE k <= n
    BY <1>5, <2>1 DEF Setup, Told0, Caller
  <2>2. CASE k > n
    <3>1. call[i] = "calling" /\ Stage("calling") = 0
      BY <1>10, <2>2 DEF Stage
    <3>2. Shows(i, n + 1, 0, 0) /\ Speaks(i, n + 1)
      <4>1. Shows(i, n + 1, Stage(call[i]), Stage(call[i])) /\ Speaks(i, n + 1)
        BY <1>4, <3>1
      <4> QED
        BY <3>1, <4>1
    <3> QED
      BY <1>3, <3>2 DEF Setup, Told0, Caller
  <2> QED
    BY <1>11, <2>1, <2>2
<1>19. OneCall' /\ LastDialled'
  <2>1. OneCall'
    BY <1>2, <1>8 DEF Setup, OneCall
  <2>2. LastDialled'
    BY <1>2, <1>8 DEF Setup, LastDialled
  <2> QED
    BY <2>1, <2>2
<1>20. DialTasks'
  <2>1. /\ \A k : DialAt(k)' <=> DialAt(k)
        /\ HeadCmd' = HeadCmd
    BY <1>2 DEF DialAt, HeadCmd, HeadTask
  <2>2. (\E m \in Nat : Okay(m)) => \E m \in Nat : Okay(m)'
    BY <1>7
  <2> QED
    BY <1>2, <1>8, <2>1, <2>2 DEF Setup, DialTasks
<1>21. Unread'
  <2> SUFFICES ASSUME NEW r \in Idx, NEW m \in Nat, Dialled(r), Okay(m)'
               PROVE  /\ \A k \in Nat : k < m /\ Speaks(r, k)' => OfOne(r)
                      /\ \A i \in Idx, j, k \in Nat : Ends(i, j)' /\ Speaks(i, k)' /\ j < k => m < k
    BY <1>9 DEF Unread
  <2>1. m <= n
    BY <1>10, <1>11 DEF Dialled
  <2>2. Okay(m)
    BY <2>1 DEF SaidStays, n
  <2>3. ASSUME NEW k \in Nat, k < m, Speaks(r, k)'
        PROVE  OfOne(r)
    <3>1. k <= n
      BY <1>3, <2>1, <2>3
    <3> QED
      BY <1>5, <2>2, <2>3, <3>1 DEF Setup, Unread
  <2>4. ASSUME NEW i \in Idx, NEW j \in Nat, NEW k \in Nat, Ends(i, j)', Speaks(i, k)', j < k
        PROVE  m < k
    <3>1. CASE k <= n
      <4>1. j <= n
        BY <1>3, <2>4, <3>1
      <4> QED
        BY <1>5, <1>6, <2>2, <2>4, <3>1, <4>1 DEF Setup, Unread
    <3>2. CASE k > n
      BY <1>3, <2>1, <3>2
    <3> QED
      BY <1>11, <3>1, <3>2
  <2> QED
    BY <2>3, <2>4
<1>22. Fresh'
  <2> SUFFICES ASSUME NEW i \in Idx, NEW k \in Nat, NEW b \in 0..2, NEW a \in 0..2,
                      Dialled(i) \/ (last # NULL /\ whose[i] = last), Shows(i, k, b, a)', b > 0
               PROVE  OfOne(i) \/ \E m \in Nat : m < k /\ Starts(i, m)'
    BY <1>2, <1>9 DEF Fresh
  <2>1. CASE k <= n
    <3>1. OfOne(i) \/ \E m \in Nat : m < k /\ Starts(i, m)
      BY <1>5, <2>1 DEF Setup, Fresh
    <3> QED
      BY <1>6, <3>1
  <2>2. CASE k > n
    <3>1. CASE Stage(call[i]) > 0
      <4>1. OfOne(i) \/ \E m \in Nat : m < n + 1 /\ Starts(i, m)
        BY <1>3, <1>4, <1>12, <3>1 DEF Setup, Fresh
      <4>2. \A m \in Nat : m < n + 1 => m < k
        BY <1>3, <2>2
      <4> QED
        BY <1>6, <4>1, <4>2
    <3>2. CASE ~(Stage(call[i]) > 0)
      BY <1>10, <2>2, <3>2
    <3> QED
      BY <3>1, <3>2
  <2> QED
    BY <1>11, <2>1, <2>2
<1>23. OutOnly'
  <2>1. \A k \in Nat : OursListed(k)' /\ Numbered(k)'
    <3> SUFFICES ASSUME NEW k \in Nat PROVE OursListed(k)' /\ Numbered(k)'
      OBVIOUS
    <3>1. CASE k <= n
      BY <3>1 DEF SaidStays, Setup, OutOnly, n
    <3> QED
      BY <1>10, <1>11, <3>1
  <2> QED
    BY <1>2, <1>10, <2>1 DEF Setup, OutOnly
<1>24. OneAtATime'
  <2>1. SettingUp' = SettingUp
    BY <1>2, <1>8 DEF SettingUp, In
  <2> QED
    BY <1>2, <2>1 DEF Setup, OneAtATime
<1> QED
  BY <1>13, <1>14, <1>15, <1>16, <1>17, <1>18, <1>19, <1>20, <1>21, <1>22, <1>23, <1>24
     DEF Setup, Said, Told0

(* What stands at a new position, and behind the last line.                 *)
LEMMA NewList ==
    ASSUME NEW k \in Nat, k > 0
    PROVE  ListAt(k)' # <<>> => k \in 1..Len(line') /\ line'[k].ev = "CLCC"
<1>1. k # 0
  OBVIOUS
<1> QED
  BY <1>1 DEF ListAt

LEMMA NewLines ==
    ASSUME NEW i, NEW k \in Nat, Len(line') \in Nat, k > 0
    PROVE  /\ \A b, a : Shows(i, k, b, a)' =>
                 \/ k \in 1..Len(line') /\ line'[k] = Ev("ORIG", i) /\ b = 0 /\ a = 1
                 \/ k \in 1..Len(line') /\ line'[k] = Ev("CONN", i) /\ b = 1 /\ a = 2
                 \/ \E s \in CallState : Listed(i, k, s)' /\ b = Stage(s) /\ a = Stage(s)
                 \/ k > Len(line') /\ b = Stage(call'[i]) /\ a = Stage(call'[i])
           /\ Speaks(i, k)' =>
                 \/ k \in 1..Len(line') /\ line'[k] \in {Ev("ORIG", i), Ev("CONN", i), Ev("CEND", i)}
                 \/ \E s \in CallState : Listed(i, k, s)'
                 \/ k > Len(line') /\ call'[i] # "none"
           /\ Ends(i, k)' <=> k \in 1..Len(line') /\ line'[k] = Ev("CEND", i)
           /\ Starts(i, k)' <=> k \in 1..Len(line') /\ line'[k] = Ev("ORIG", i)
           /\ \A s : Listed(i, k, s)' => k \in 1..Len(line') /\ line'[k].ev = "CLCC"
<1>2. ListAt(k)' # <<>> => k \in 1..Len(line') /\ line'[k].ev = "CLCC"
  BY NewList
<1>3. \A s : Listed(i, k, s)' => k \in 1..Len(line') /\ line'[k].ev = "CLCC"
  <2>1. Len(<<>>) = 0 /\ 1..0 = {}
    OBVIOUS
  <2> QED
    BY <1>2, <2>1 DEF Listed
<1> QED
  BY <1>3 DEF Shows, Speaks, Ends, Starts, Hears

(* Only results and a list of the calls are said, and no call goes on.      *)
LEMMA QuietFollows ==
    ASSUME ModemTyped, OutOnly, SaidStays,
           \A k \in 1..Len(line') : k > Len(line) =>
               /\ line'[k].ev \in {"OK", "ERROR", "CLCC"}
               /\ line'[k].ev = "OK" => HeadCmd.cmd # "D"
               /\ OursListed(k)'
               /\ \A i, s : Listed(i, k, s)' => call[i] = s,
           \A i \in Idx : \/ call'[i] = call[i]
                          \/ {call[i], call'[i]} = {"ACTIVE", "ONHOLD"}
                          \/ call[i] = "calling" /\ call'[i] = "none"
    PROVE  Follows
<1> DEFINE n == Len(line)
<1>1. n \in Nat /\ Len(line') \in Nat /\ Len(line') >= n
  BY HeardAt DEF SaidStays
<1>2. \A i \in Idx : call[i] \in {"none", "calling", "DIALING", "ACTIVE", "ONHOLD"}
  BY DEF OutOnly
<1>3. \A i \in Idx : /\ Stage(call'[i]) = Stage(call[i])
                     /\ call'[i] \in {"none", "calling", "DIALING", "ACTIVE", "ONHOLD"}
                     /\ call'[i] # "none" => call[i] # "none"
  <2> SUFFICES ASSUME NEW i \in Idx
               PROVE  /\ Stage(call'[i]) = Stage(call[i])
                      /\ call'[i] \in {"none", "calling", "DIALING", "ACTIVE", "ONHOLD"}
                      /\ call'[i] # "none" => call[i] # "none"
    OBVIOUS
  <2>1. CASE call'[i] = call[i]
    BY <1>2, <2>1
  <2>2. CASE {call[i], call'[i]} = {"ACTIVE", "ONHOLD"}
    <3>1. call[i] \in {"ACTIVE", "ONHOLD"} /\ call'[i] \in {"ACTIVE", "ONHOLD"}
      BY <2>2
    <3> QED
      BY <3>1 DEF Stage
  <2>3. CASE call[i] = "calling" /\ call'[i] = "none"
    BY <2>3 DEF Stage
  <2> QED
    BY <2>1, <2>2, <2>3
<1>4. ASSUME NEW k \in 1..Len(line'), k > n
      PROVE  /\ \A i : line'[k] \notin {Ev("ORIG", i), Ev("CONN", i), Ev("CEND", i)}
             /\ line'[k].ev \notin {"ORIG", "CONN", "CEND"}
  <2>1. line'[k].ev \in {"OK", "ERROR", "CLCC"}
    BY <1>4
  <2> QED
    BY <2>1 DEF Ev
<1>5. ASSUME NEW i \in Idx, NEW k \in Nat, k > n
      PROVE  /\ \A b, a : Shows(i, k, b, a)' => b = Stage(call[i]) /\ a = Stage(call[i])
             /\ Speaks(i, k)' => call[i] # "none"
             /\ ~Ends(i, k)'
  <2>1. k > 0
    BY <1>1, <1>5
  <2>2. \A s \in CallState : Listed(i, k, s)' => call[i] = s
    <3> SUFFICES ASSUME NEW s \in CallState, Listed(i, k, s)' PROVE call[i] = s
      OBVIOUS
    <3>1. k \in 1..Len(line')
      BY <1>1, <2>1, NewLines
    <3> QED
      BY <1>5, <3>1
  <2>3. "none" \notin CallState
    BY DEF CallState
  <2>4. k \in 1..Len(line') => line'[k] \notin {Ev("ORIG", i), Ev("CONN", i), Ev("CEND", i)}
    BY <1>4, <1>5
  <2>5. \A b, a : Shows(i, k, b, a)' => b = Stage(call[i]) /\ a = Stage(call[i])
    <3> SUFFICES ASSUME NEW b, NEW a, Shows(i, k, b, a)'
                 PROVE  b = Stage(call[i]) /\ a = Stage(call[i])
      OBVIOUS
    <3>1. \/ k \in 1..Len(line') /\ line'[k] = Ev("ORIG", i) /\ b = 0 /\ a = 1
          \/ k \in 1..Len(line') /\ line'[k] = Ev("CONN", i) /\ b = 1 /\ a = 2
          \/ \E s \in CallState : Listed(i, k, s)' /\ b = Stage(s) /\ a = Stage(s)
          \/ k > Len(line') /\ b = Stage(call'[i]) /\ a = Stage(call'[i])
      BY <2>1 DEF Shows, Starts, Hears
    <3> QED
      BY <1>3, <2>2, <2>4, <3>1
  <2>6. Speaks(i, k)' => call[i] # "none"
    BY <1>1, <1>3, <2>1, <2>2, <2>3, <2>4, NewLines
  <2>7. ~Ends(i, k)'
    BY <1>1, <2>1, <2>4, NewLines
  <2> QED
    BY <2>5, <2>6, <2>7
<1>6. ASSUME NEW k \in Nat, k > n
      PROVE  /\ OursListed(k)' /\ Numbered(k)'
             /\ Okay(k)' => HeadCmd.cmd # "D"
  <2>1. CASE k \in 1..Len(line')
    BY <1>4, <1>6, <2>1 DEF Numbered, Okay
  <2>2. CASE k \notin 1..Len(line')
    <3>1. k > 0
      BY <1>1, <1>6
    <3>2. ListAt(k)' = <<>> /\ Len(<<>>) = 0 /\ 1..0 = {}
      BY <2>2, <3>1, NewList
    <3>3. OursListed(k)'
      BY <3>2 DEF OursListed
    <3> QED
      BY <2>2, <3>3 DEF Numbered, Okay
  <2> QED
    BY <2>1, <2>2
<1>7. \A i \in Idx, k \in Nat, a \in 0..2 :
          k > n /\ Shows(i, k, 0, a)' /\ Speaks(i, k)' => call[i] = "calling"
  <2> SUFFICES ASSUME NEW i \in Idx, NEW k \in Nat, NEW a \in 0..2,
                      k > n, Shows(i, k, 0, a)', Speaks(i, k)'
               PROVE  call[i] = "calling"
    OBVIOUS
  <2>1. 0 = Stage(call[i]) /\ call[i] # "none"
    BY <1>5
  <2> QED
    BY <1>2, <2>1 DEF Stage
<1>8. \A i : Stage(call[i]) \in 0..2
  BY StageRange
<1>9. \A i \in Idx, k \in Nat, b, a \in 0..2 :
          k > n /\ Shows(i, k, b, a)' => ~(b < Stage(call[i])) /\ (b > 0 => Stage(call[i]) > 0)
  BY <1>5, <1>8
<1>10. \A i \in Idx, j, k \in Nat, b, a, bb, aa \in 0..2 :
          n < j /\ j < k /\ Shows(i, j, b, a)' /\ Shows(i, k, bb, aa)' => ~(bb < a)
  <2> SUFFICES ASSUME NEW i \in Idx, NEW j \in Nat, NEW k \in Nat, NEW b \in 0..2, NEW a \in 0..2,
                      NEW bb \in 0..2, NEW aa \in 0..2,
                      n < j, j < k, Shows(i, j, b, a)', Shows(i, k, bb, aa)'
               PROVE  ~(bb < a)
    OBVIOUS
  <2>1. j > n /\ k > n
    BY <1>1
  <2>2. a = Stage(call[i]) /\ bb = Stage(call[i])
    BY <1>5, <2>1
  <2> QED
    BY <1>8, <2>2
<1>11. \A i \in Idx, j \in Nat : n < j => ~Ends(i, j)'
  <2> SUFFICES ASSUME NEW i \in Idx, NEW j \in Nat, n < j PROVE ~Ends(i, j)'
    OBVIOUS
  <2>1. j > n
    BY <1>1
  <2> QED
    BY <1>5, <2>1
<1> QED
  BY <1>3, <1>5, <1>6, <1>7, <1>9, <1>10, <1>11 DEF Follows

(* The call with number r goes on, and the modem says so.                   *)
LEMMA EventFollows ==
    ASSUME ModemTyped, OutOnly, SaidStays,
           NEW r \in Idx, NEW p \in 1..Len(line'), p > Len(line),
           NEW name, line'[p] = Ev(name, r),
           \A k \in 1..Len(line') :
               k > Len(line) /\ k # p => line'[k].ev = "OK" /\ HeadCmd.cmd # "D",
           \A i \in Idx : i # r => call'[i] = call[i],
           \/ name = "ORIG" /\ call[r] = "calling" /\ call'[r] = "DIALING"
           \/ name = "CONN" /\ call[r] = "DIALING" /\ call'[r] = "ACTIVE"
           \/ name = "CEND" /\ call[r] # "none" /\ call'[r] = "none"
    PROVE  Follows
<1> DEFINE n == Len(line)
<1>1. n \in Nat /\ Len(line') \in Nat /\ Len(line') >= n /\ p \in Nat /\ p > n
  BY HeardAt DEF SaidStays
<1>2. \A i \in Idx : call[i] \in {"none", "calling", "DIALING", "ACTIVE", "ONHOLD"}
  BY DEF OutOnly
<1>3. Stage("none") = 0 /\ Stage("calling") = 0 /\ Stage("DIALING") = 1 /\ Stage("ACTIVE") = 2
      /\ Stage("ONHOLD") = 2
  BY DEF Stage
<1>4. ASSUME NEW k \in 1..Len(line'), k > n
      PROVE  /\ line'[k].ev # "CLCC"
             /\ line'[k].ev = "OK" => HeadCmd.cmd # "D"
             /\ line'[k].ev \in {"ORIG", "CONN", "CEND"} => k = p /\ line'[k].idx = r
  <2>1. line'[p].ev = name /\ line'[p].idx = r
    BY DEF Ev
  <2> QED
    BY <1>4, <2>1
<1>5. ASSUME NEW k \in Nat, k > n
      PROVE  /\ ListAt(k)' = <<>>
             /\ \A i, s : ~Listed(i, k, s)'
             /\ OursListed(k)' /\ Numbered(k)'
             /\ Okay(k)' => HeadCmd.cmd # "D"
  <2>1. k > 0
    BY <1>1, <1>5
  <2>2. ListAt(k)' = <<>>
    BY <1>4, <1>5, <2>1, NewList
  <2>3. Len(<<>>) = 0 /\ 1..0 = {}
    OBVIOUS
  <2>4. OursListed(k)' /\ \A i, s : ~Listed(i, k, s)'
    BY <2>2, <2>3 DEF OursListed, Listed
  <2>5. Numbered(k)' /\ (Okay(k)' => HeadCmd.cmd # "D")
    BY <1>4, <1>5 DEF Numbered, Okay
  <2> QED
    BY <2>2, <2>4, <2>5
<1>6. ASSUME NEW i \in Idx, NEW k \in Nat, k > n, NEW e \in {"ORIG", "CONN", "CEND"},
             Hears(k, Ev(e, i))'
      PROVE  i = r /\ k = p /\ name = e
  <2>1. k \in 1..Len(line') /\ line'[k] = Ev(e, i)
    BY <1>6 DEF Hears
  <2>2. line'[k].ev = e /\ line'[k].idx = i
    BY <2>1 DEF Ev
  <2>3. k = p /\ i = r
    BY <1>4, <1>6, <2>1, <2>2
  <2> QED
    BY <2>2, <2>3 DEF Ev
<1>7. ASSUME NEW i \in Idx, NEW k \in Nat, k > n, NEW b, NEW a, Shows(i, k, b, a)'
      PROVE  \/ i = r /\ k = p /\ name = "ORIG" /\ b = 0 /\ a = 1
             \/ i = r /\ k = p /\ name = "CONN" /\ b = 1 /\ a = 2
             \/ k > Len(line') /\ b = Stage(call'[i]) /\ a = Stage(call'[i])
  <2>1. \/ Hears(k, Ev("ORIG", i))' /\ b = 0 /\ a = 1
        \/ Hears(k, Ev("CONN", i))' /\ b = 1 /\ a = 2
        \/ k > Len(line') /\ b = Stage(call'[i]) /\ a = Stage(call'[i])
    BY <1>5, <1>7 DEF Shows, Starts
  <2> QED
    BY <1>6, <1>7, <2>1
<1>8. ASSUME NEW i \in Idx, NEW k \in Nat, k > n, Speaks(i, k)'
      PROVE  (i = r /\ k = p) \/ (k > Len(line') /\ call'[i] # "none")
  <2>1. \/ Hears(k, Ev("ORIG", i))' \/ Hears(k, Ev("CONN", i))' \/ Hears(k, Ev("CEND", i))'
        \/ k > Len(line') /\ call'[i] # "none"
    BY <1>5, <1>8 DEF Speaks, Starts, Ends
  <2> QED
    BY <1>6, <1>8, <2>1
<1>9. \A k \in Nat : k > Len(line') => k > p /\ k > n
  BY <1>1
<1>10. ASSUME NEW i \in Idx, NEW k \in Nat, NEW b \in 0..2, NEW a \in 0..2,
              k > n, Shows(i, k, b, a)', b < Stage(call[i])
       PROVE  \E l \in Nat : n < l /\ l < k /\ Ends(i, l)'
  <2>1. i = r /\ name = "CEND" /\ k > Len(line')
    <3>1. CASE i # r
      <4>1. b = Stage(call[i])
        BY <1>7, <1>10, <3>1
      <4> QED
        BY <1>10, <4>1
    <3>2. CASE i = r
      BY <1>3, <1>7, <1>10, <3>2
    <3> QED
      BY <3>1, <3>2
  <2>2. Ends(i, p)'
    BY <2>1 DEF Ends, Hears
  <2>3. n < p /\ p < k
    BY <1>1, <1>9, <2>1
  <2> QED
    BY <1>1, <2>2, <2>3
<1>11. ASSUME NEW i \in Idx, NEW j \in Nat, NEW k \in Nat, NEW b \in 0..2, NEW a \in 0..2,
              NEW bb \in 0..2, NEW aa \in 0..2,
              n < j, j < k, Shows(i, j, b, a)', Shows(i, k, bb, aa)'
       PROVE  ~(bb < a)
  <2>1. j > n /\ k > n
    BY <1>1, <1>11
  <2>2. \/ i = r /\ j = p /\ name = "ORIG" /\ b = 0 /\ a = 1
        \/ i = r /\ j = p /\ name = "CONN" /\ b = 1 /\ a = 2
        \/ j > Len(line') /\ b = Stage(call'[i]) /\ a = Stage(call'[i])
    BY <1>7, <1>11, <2>1
  <2>3. \/ i = r /\ k = p /\ name = "ORIG" /\ bb = 0 /\ aa = 1
        \/ i = r /\ k = p /\ name = "CONN" /\ bb = 1 /\ aa = 2
        \/ k > Len(line') /\ bb = Stage(call'[i]) /\ aa = Stage(call'[i])
    BY <1>7, <1>11, <2>1
  <2>4. CASE j > Len(line')
    <3>1. j # p /\ k # p
      BY <1>1, <1>9, <1>11, <2>4
    <3> QED
      BY <2>2, <2>3, <3>1
  <2>5. CASE ~(j > Len(line'))
    <3>1. j = p /\ k # p
      BY <1>11, <2>2, <2>5
    <3> QED
      BY <1>3, <2>2, <2>3, <2>5, <3>1
  <2> QED
    BY <2>4, <2>5
<1>12. ASSUME NEW i \in Idx, NEW k \in Nat, k > n, Speaks(i, k)'
       PROVE  call[i] # "none"
  <2>1. CASE i = r
    BY <2>1
  <2>2. CASE i # r
    BY <1>8, <1>12, <2>2
  <2> QED
    BY <2>1, <2>2
<1>13. ASSUME NEW i \in Idx, NEW j \in Nat, NEW k \in Nat, n < j, j < k, Ends(i, j)'
       PROVE  ~Speaks(i, k)' /\ \A b, a \in 0..2 : Shows(i, k, b, a)' => b = 0
  <2>1. j > n /\ k > n
    BY <1>1, <1>13
  <2>2. i = r /\ j = p /\ name = "CEND"
    BY <1>6, <1>13, <2>1 DEF Ends
  <2>3. k # p /\ call'[i] = "none"
    BY <1>1, <1>13, <2>2
  <2>4. ~Speaks(i, k)'
    BY <1>8, <2>1, <2>3
  <2>5. \A b, a \in 0..2 : Shows(i, k, b, a)' => b = 0
    BY <1>3, <1>7, <2>1, <2>3
  <2> QED
    BY <2>4, <2>5
<1>14. ASSUME NEW i \in Idx, NEW k \in Nat, NEW a \in 0..2,
              k > n, Shows(i, k, 0, a)', Speaks(i, k)'
       PROVE  call[i] = "calling"
  <2>1. CASE i # r
    <3>1. Stage(call[i]) = 0 /\ call[i] # "none"
      BY <1>7, <1>8, <1>14, <2>1
    <3> QED
      BY <1>2, <1>3, <3>1
  <2>2. CASE i = r
    <3>1. \/ k = p /\ name = "ORIG"
          \/ k > Len(line') /\ 0 = Stage(call'[i])
      BY <1>7, <1>14, <2>2
    <3>2. CASE name = "ORIG"
      BY <2>2, <3>2
    <3>3. CASE name # "ORIG"
      <4>1. k > Len(line') /\ call'[i] = "none"
        BY <1>3, <2>2, <3>1, <3>3
      <4>2. k # p
        BY <1>1, <1>9, <4>1
      <4> QED
        BY <1>8, <1>14, <4>1, <4>2
    <3> QED
      BY <3>2, <3>3
  <2> QED
    BY <2>1, <2>2
<1>15. ASSUME NEW i \in Idx, NEW k \in Nat, NEW b \in 0..2, NEW a \in 0..2,
              k > n, Shows(i, k, b, a)', b > 0
       PROVE  Stage(call[i]) > 0 \/ \E m \in Nat : n < m /\ m < k /\ Starts(i, m)'
  <2>1. CASE i # r
    <3>1. b = Stage(call[i])
      BY <1>7, <1>15, <2>1
    <3> QED
      BY <1>15, <3>1
  <2>2. CASE i = r /\ name = "ORIG"
    <3>1. k > Len(line')
      BY <1>7, <1>15, <2>2
    <3>2. n < p /\ p < k /\ Starts(i, p)'
      BY <1>1, <1>9, <2>2, <3>1 DEF Starts, Hears
    <3> QED
      BY <1>1, <3>2
  <2>3. CASE i = r /\ name = "CONN"
    BY <1>3, <2>3
  <2>4. CASE i = r /\ name = "CEND"
    BY <1>3, <1>7, <1>15, <2>4
  <2> QED
    BY <2>1, <2>2, <2>3, <2>4
<1>16. \A i \in Idx : /\ call'[i] \in {"none", "calling", "DIALING", "ACTIVE", "ONHOLD"}
                      /\ call'[i] # "none" => call[i] # "none"
  <2> SUFFICES ASSUME NEW i \in Idx
               PROVE  /\ call'[i] \in {"none", "calling", "DIALING", "ACTIVE", "ONHOLD"}
                      /\ call'[i] # "none" => call[i] # "none"
    OBVIOUS
  <2>1. CASE i = r
    BY <2>1
  <2>2. CASE i # r
    BY <1>2, <2>2
  <2> QED
    BY <2>1, <2>2
<1> QED
  BY <1>5, <1>10, <1>11, <1>12, <1>13, <1>14, <1>15, <1>16 DEF Follows

LEMMA SaysOne ==
    ASSUME ModemTyped, todo' = todo, NEW e \in Heard, Says(<<e>>)
    PROVE  /\ SaidStays
           /\ Len(line') = Len(line) + 1 /\ Len(line) + 1 \in 1..Len(line')
           /\ line'[Len(line) + 1] = e
           /\ \A k \in 1..Len(line') : k > Len(line) => k = Len(line) + 1
<1>1. <<e>> \in Seq(Heard) /\ Len(<<e>>) = 1 /\ <<e>>[1] = e /\ 1 \in 1..1
  OBVIOUS
<1> DEFINE a == <<e>>
<1>2. a \in Seq(Heard) /\ Says(a)
  BY <1>1
<1>3. Len(a) = 1 /\ a[1] = e /\ 1 \in 1..Len(a)
  BY <1>1
<1> HIDE DEF a
<1>4. /\ SaidStays
      /\ Len(line') = Len(line) + Len(a)
      /\ \A k \in 1..Len(a) : line'[Len(line) + k] = a[k]
  BY <1>2, SaysMore
<1>5. Len(line) \in Nat
  BY HeardAt
<1> QED
  BY <1>3, <1>4, <1>5

LEMMA SaysTwo ==
    ASSUME ModemTyped, todo' = todo, NEW a \in Seq(Heard), Len(a) = 2, Says(a)
    PROVE  /\ SaidStays
           /\ Len(line') = Len(line) + 2
           /\ Len(line) + 1 \in 1..Len(line') /\ Len(line) + 2 \in 1..Len(line')
           /\ line'[Len(line) + 1] = a[1] /\ line'[Len(line) + 2] = a[2]
           /\ \A k \in 1..Len(line') : k > Len(line) => k = Len(line) + 1 \/ k = Len(line) + 2
<1>1. /\ SaidStays
      /\ Len(line') = Len(line) + Len(a)
      /\ \A k \in 1..Len(a) : line'[Len(line) + k] = a[k]
  BY SaysMore
<1>2. Len(line) \in Nat
  BY HeardAt
<1> QED
  BY <1>1, <1>2

(* The modem speaks unasked.                                                *)
LEMMA GoesOn ==
    ASSUME IInv, Setup, NEW i \in Idx,
           Originates(i) \/ RemoteAnswers(i) \/ RemoteEnds(i) \/ Rings(i)
    PROVE  Setup'
<1>1. ModemTyped /\ OutOnly /\ up /\ Len(line) \in Nat
  BY HeardAt DEF IInv, Setup, OutOnly
<1>2. /\ UNCHANGED <<desc, astvars, driver, tasks, todo, incoming, stale, whose>>
      /\ todo' = todo
  BY DEF Originates, RemoteAnswers, RemoteEnds, Rings, Unasked
<1>3. ~Rings(i)
  BY <1>1 DEF Rings, OutOnly
<1>4. PICK name \in {"ORIG", "CONN", "CEND"} :
         /\ Says(<<Ev(name, i)>>)
         /\ \/ name = "ORIG" /\ call[i] = "calling" /\ call' = [call EXCEPT ![i] = "DIALING"]
            \/ name = "CONN" /\ call[i] = "DIALING" /\ call' = [call EXCEPT ![i] = "ACTIVE"]
            \/ name = "CEND" /\ call[i] # "none" /\ call' = [call EXCEPT ![i] = "none"]
  BY <1>1, <1>3 DEF Originates, RemoteAnswers, RemoteEnds, Tells
<1>5. Ev(name, i) \in Heard
  BY EventsTyped
<1>6. /\ SaidStays
      /\ Len(line) + 1 \in 1..Len(line') /\ line'[Len(line) + 1] = Ev(name, i)
      /\ \A k \in 1..Len(line') : k > Len(line) => k = Len(line) + 1
  BY <1>1, <1>2, <1>4, <1>5, SaysOne
<1>7. Len(line) + 1 > Len(line)
  BY <1>1
<1>8. /\ \A j \in Idx : j # i => call'[j] = call[j]
      /\ \/ name = "ORIG" /\ call[i] = "calling" /\ call'[i] = "DIALING"
         \/ name = "CONN" /\ call[i] = "DIALING" /\ call'[i] = "ACTIVE"
         \/ name = "CEND" /\ call[i] # "none" /\ call'[i] = "none"
  BY <1>1, <1>4 DEF ModemTyped
<1>9. \A k \in 1..Len(line') : k > Len(line) /\ k # Len(line) + 1
                                  => line'[k].ev = "OK" /\ HeadCmd.cmd # "D"
  BY <1>6
<1>10. Follows
  BY <1>1, <1>6, <1>7, <1>8, <1>9, EventFollows
<1> QED
  BY <1>2, <1>6, <1>10, FollowsKeeps

(* The modem has worked on a command, and only a result is said.            *)
LEMMA SaysResult ==
    ASSUME IInv, Setup, UNCHANGED <<desc, astvars, driver, tasks, todo, incoming, stale, whose>>,
           NEW e \in {OK, Ev("ERROR", 0)}, Says(<<e>>), HeadCmd.cmd # "D" \/ e.ev # "OK",
           \A i \in Idx : \/ call'[i] = call[i]
                          \/ {call[i], call'[i]} = {"ACTIVE", "ONHOLD"}
                          \/ call[i] = "calling" /\ call'[i] = "none"
    PROVE  Setup'
<1>1. ModemTyped /\ OutOnly /\ Len(line) \in Nat
  BY HeardAt DEF IInv, Setup
<1>2. e \in Heard /\ e.ev \in {"OK", "ERROR"}
  BY EventsTyped, BoundAssumption DEF OK, Ev
<1>3. /\ SaidStays
      /\ Len(line) + 1 \in 1..Len(line') /\ line'[Len(line) + 1] = e
      /\ \A k \in 1..Len(line') : k > Len(line) => k = Len(line) + 1
  BY <1>1, <1>2, SaysOne
<1>4. ASSUME NEW k \in 1..Len(line'), k > Len(line)
      PROVE  /\ line'[k].ev \in {"OK", "ERROR", "CLCC"}
             /\ line'[k].ev = "OK" => HeadCmd.cmd # "D"
             /\ OursListed(k)'
             /\ \A i, s : Listed(i, k, s)' => call[i] = s
  <2>1. line'[k] = e /\ k \in Nat /\ k > 0
    BY <1>3, <1>4
  <2>2. ListAt(k)' = <<>>
    BY <1>2, <2>1, NewList
  <2>3. Len(<<>>) = 0 /\ 1..0 = {}
    OBVIOUS
  <2>4. OursListed(k)' /\ \A i, s : ~Listed(i, k, s)'
    BY <2>2, <2>3 DEF OursListed, Listed
  <2> QED
    BY <1>2, <2>1, <2>4
<1>5. Follows
  BY <1>1, <1>3, <1>4, QuietFollows
<1> QED
  BY <1>3, <1>5, FollowsKeeps

LEMMA HangupSwapKeep ==
    ASSUME IInv, Setup, Refuse \/ DoSwap \/ DoAnswer \/ DoHangup
    PROVE  Setup'
<1>1. ModemTyped /\ OutOnly /\ Len(line) \in Nat
  BY HeardAt DEF IInv, Setup
<1>2. UNCHANGED <<desc, astvars, driver, tasks, todo, incoming, stale, whose>>
  BY DEF Refuse, DoSwap, DoAnswer, DoHangup, Works
<1>3. \A i \in Idx : call[i] \in {"none", "calling", "DIALING", "ACTIVE", "ONHOLD"}
  BY <1>1 DEF OutOnly
<1>4. OK.ev = "OK" /\ Ev("ERROR", 0).ev = "ERROR"
  BY DEF OK, Ev
<1>5. CASE Refuse
  <2>1. Says(<<Ev("ERROR", 0)>>) /\ call' = call
    BY <1>5 DEF Refuse
  <2> QED
    BY <1>2, <1>4, <2>1, SaysResult
<1>6. CASE DoSwap
  <2>1. Says(<<OK>>) /\ HeadCmd.cmd # "D"
        /\ call' = [i \in Idx |-> CASE call[i] = "ACTIVE" -> "ONHOLD"
                                    [] call[i] = "ONHOLD" -> "ACTIVE"
                                    [] OTHER -> call[i]]
    BY <1>6 DEF DoSwap, Works
  <2>2. \A i \in Idx : call'[i] = call[i] \/ {call[i], call'[i]} = {"ACTIVE", "ONHOLD"}
    BY <2>1
  <2> QED
    BY <1>2, <2>1, <2>2, SaysResult
<1>7. CASE DoAnswer
  <2>1. PICK i \in Idx :
           /\ HeadCmd.cmd = "CHLD_2x"
           /\ call[i] \in {"ONHOLD", "WAITING"}
           /\ call' = [j \in Idx |-> CASE j = i -> "ACTIVE"
                                       [] j # i /\ call[j] = "ACTIVE" -> "ONHOLD"
                                       [] OTHER -> call[j]]
           /\ Says(IF call[i] = "WAITING" THEN <<Ev("CONN", i), OK>> ELSE <<OK>>)
    <3>1. ~\E i \in Idx : call[i] = "INCOMING"
      BY <1>3
    <3> QED
      BY <1>7, <3>1, Zenon DEF DoAnswer, Works
  <2>2. call[i] = "ONHOLD" /\ Says(<<OK>>)
    BY <1>3, <2>1
  <2>3. \A j \in Idx : call'[j] = call[j] \/ {call[j], call'[j]} = {"ACTIVE", "ONHOLD"}
    BY <2>1, <2>2
  <2>4. HeadCmd.cmd # "D"
    BY <2>1
  <2> QED
    BY <1>2, <2>2, <2>3, <2>4, SaysResult
<1>8. CASE DoHangup
  <2>1. HeadCmd.cmd # "D"
    BY <1>8 DEF DoHangup, Works
  <2>2. CASE Foreground = {} /\ Says(<<OK>>) /\ UNCHANGED call
    BY <1>2, <2>1, <2>2, SaysResult
  <2>3. ASSUME NEW i \in Foreground, call' = [call EXCEPT ![i] = "none"],
               call[i] = "calling", Says(<<OK>>)
        PROVE  Setup'
    <3>1. \A j \in Idx : call'[j] = call[j] \/ (call[j] = "calling" /\ call'[j] = "none")
      BY <1>1, <2>3 DEF ModemTyped, Foreground
    <3> QED
      BY <1>2, <2>1, <2>3, <3>1, SaysResult
  <2>4. ASSUME NEW i \in Foreground, call' = [call EXCEPT ![i] = "none"],
               Says(<<OK, Ev("CEND", i)>>)
        PROVE  Setup'
    <3>1. i \in Idx /\ call[i] # "none"
      BY <2>4 DEF Foreground
    <3>2. OK \in Heard /\ Ev("CEND", i) \in Heard
      BY <3>1, EventsTyped
    <3> DEFINE a == <<OK, Ev("CEND", i)>>
    <3>3. a \in Seq(Heard) /\ Len(a) = 2 /\ a[1] = OK /\ a[2] = Ev("CEND", i) /\ Says(a)
      BY <2>4, <3>2
    <3> HIDE DEF a
    <3> DEFINE p == Len(line) + 2
    <3>4. /\ SaidStays
          /\ p \in 1..Len(line')
          /\ line'[Len(line) + 1] = a[1] /\ line'[p] = a[2]
          /\ \A k \in 1..Len(line') : k > Len(line) => k = Len(line) + 1 \/ k = p
      BY <1>1, <1>2, <3>3, SaysTwo
    <3>5. p > Len(line)
      BY <1>1
    <3> HIDE DEF p
    <3>6. \A k \in 1..Len(line') : k > Len(line) /\ k # p => line'[k].ev = "OK" /\ HeadCmd.cmd # "D"
      BY <1>4, <2>1, <3>3, <3>4
    <3>7. /\ \A j \in Idx : j # i => call'[j] = call[j]
          /\ call'[i] = "none"
      BY <1>1, <2>4, <3>1 DEF ModemTyped
    <3>8. line'[p] = Ev("CEND", i)
      BY <3>3, <3>4
    <3> DEFINE name == "CEND"
    <3>9. /\ line'[p] = Ev(name, i)
          /\ \/ name = "ORIG" /\ call[i] = "calling" /\ call'[i] = "DIALING"
             \/ name = "CONN" /\ call[i] = "DIALING" /\ call'[i] = "ACTIVE"
             \/ name = "CEND" /\ call[i] # "none" /\ call'[i] = "none"
      BY <3>1, <3>7, <3>8
    <3> HIDE DEF name
    <3>10. Follows
      BY <1>1, <3>1, <3>4, <3>5, <3>6, <3>7, <3>9, EventFollows
    <3> QED
      BY <1>2, <3>4, <3>10, FollowsKeeps
  <2> QED
    BY <1>8, <2>2, <2>3, <2>4 DEF DoHangup
<1> QED
  BY <1>5, <1>6, <1>7, <1>8

(* The answer to AT+CLCC lists each call once, as it is.                    *)
LEMMA DoListKeeps ==
    ASSUME IInv, Setup, DoList
    PROVE  Setup'
<1>1. ModemTyped /\ OutOnly /\ Len(line) \in Nat
  BY HeardAt DEF IInv, Setup
<1>2. UNCHANGED <<desc, astvars, driver, tasks, todo, incoming, stale, whose>> /\ call' = call
      /\ HeadCmd.cmd # "D"
  BY DEF DoList, Works
<1>3. PICK f \in [1..Cardinality(Told) -> Told] :
          /\ \A j, k \in DOMAIN f : j < k => f[j] < f[k]
          /\ Says((IF Told = {} THEN <<>>
                   ELSE <<[ev |-> "CLCC", calls |-> [k \in DOMAIN f |-> LineOf(f[k])]]>>) \o <<OK>>)
  BY DEF DoList
<1> DEFINE e == [ev |-> "CLCC", calls |-> [k \in DOMAIN f |-> LineOf(f[k])]]
<1>4. e \in Heard /\ OK \in Heard
  BY <1>1, ListTyped, EventsTyped
<1>5. e.ev = "CLCC" /\ OK.ev = "OK" /\ e.calls = [k \in DOMAIN f |-> LineOf(f[k])]
  BY DEF OK, Ev
<1> HIDE DEF e
<1>6. CASE Told = {}
  <2>1. Says(<<OK>>)
    <3>1. <<>> \o <<OK>> = <<OK>>
      BY <1>4
    <3> QED
      BY <1>3, <1>6, <3>1
  <2> QED
    BY <1>2, <2>1, SaysResult
<1>7. CASE Told # {}
  <2> DEFINE a == <<e>> \o <<OK>>
  <2>1. a \in Seq(Heard) /\ Len(a) = 2 /\ a[1] = e /\ a[2] = OK
    BY <1>4
  <2>2. Says(a)
    BY <1>3, <1>7 DEF e
  <2> HIDE DEF a
  <2>3. /\ SaidStays
        /\ Len(line) + 1 \in 1..Len(line')
        /\ line'[Len(line) + 1] = e /\ line'[Len(line) + 2] = OK
        /\ \A k \in 1..Len(line') : k > Len(line) => k = Len(line) + 1 \/ k = Len(line) + 2
    BY <1>1, <1>2, <2>1, <2>2, SaysTwo
  <2>4. Cardinality(Told) \in Nat
    <3>1. Told \subseteq 1..MaxIdx /\ IsFiniteSet(1..MaxIdx)
      BY BoundAssumption, FS_Interval DEF Told, Idx
    <3> QED
      BY <3>1, FS_Subset, FS_CardinalityType
  <2> DEFINE list == [k \in DOMAIN f |-> LineOf(f[k])]
             m == Cardinality(Told)
  <2>5. /\ Len(list) = m
        /\ \A k \in 1..m : list[k] = LineOf(f[k]) /\ f[k] \in Told
    BY <2>4
  <2>6. \A k \in 1..m : /\ list[k].idx = f[k] /\ list[k].state = call[f[k]]
                        /\ list[k].dir = "out" /\ f[k] \in Idx
                        /\ call[f[k]] \in {"DIALING", "ACTIVE", "ONHOLD"}
    <3> SUFFICES ASSUME NEW k \in 1..m
                 PROVE  /\ list[k].idx = f[k] /\ list[k].state = call[f[k]]
                        /\ list[k].dir = "out" /\ f[k] \in Idx
                        /\ call[f[k]] \in {"DIALING", "ACTIVE", "ONHOLD"}
      OBVIOUS
    <3>1. PICK i \in Told : i = f[k]
      BY <2>5
    <3>2. i \in Idx /\ call[i] \in {"DIALING", "ACTIVE", "ONHOLD"}
      BY <1>1 DEF Told, OutOnly
    <3>3. whose[i] # NULL
      BY <1>1, <3>2 DEF OutOnly
    <3>4. list[k] = LineOf(i)
      BY <2>5, <3>1
    <3> QED
      BY <3>1, <3>2, <3>3, <3>4 DEF LineOf
  <2>7. \A j, k \in 1..m : f[j] = f[k] => j = k
    <3> SUFFICES ASSUME NEW j \in 1..m, NEW k \in 1..m, f[j] = f[k], j # k PROVE FALSE
      OBVIOUS
    <3>1. f[j] \in Nat /\ f[k] \in Nat
      BY <2>6, BoundAssumption DEF Idx
    <3>2. j < k \/ k < j
      BY <2>4
    <3>3. f[j] < f[k] \/ f[k] < f[j]
      BY <1>3, <3>2
    <3> QED
      BY <3>1, <3>3
  <2> HIDE DEF list, m
  <2>8. ASSUME NEW k \in 1..Len(line'), k > Len(line)
        PROVE  /\ line'[k].ev \in {"OK", "ERROR", "CLCC"}
               /\ line'[k].ev = "OK" => HeadCmd.cmd # "D"
               /\ OursListed(k)'
               /\ \A i, s : Listed(i, k, s)' => call[i] = s
    <3>1. k \in Nat /\ k > 0 /\ k # 0
      BY <1>1, <2>8
    <3>2. CASE k = Len(line) + 1
      <4>1. ListAt(k)' = list
        BY <1>5, <2>3, <2>8, <3>1, <3>2 DEF ListAt, list
      <4>2. OursListed(k)'
        BY <2>5, <2>6, <2>7, <4>1 DEF OursListed
      <4>3. \A i, s : Listed(i, k, s)' => call[i] = s
        BY <2>5, <2>6, <4>1 DEF Listed
      <4> QED
        BY <1>2, <1>5, <2>3, <3>2, <4>2, <4>3
    <3>3. CASE k = Len(line) + 2
      <4>1. line'[k].ev = "OK"
        BY <1>5, <2>3, <3>3
      <4>2. ListAt(k)' = <<>>
        BY <3>1, <4>1, NewList
      <4>3. Len(<<>>) = 0 /\ 1..0 = {}
        OBVIOUS
      <4>4. OursListed(k)' /\ \A i, s : ~Listed(i, k, s)'
        BY <4>2, <4>3 DEF OursListed, Listed
      <4> QED
        BY <1>2, <4>1, <4>4
    <3> QED
      BY <2>3, <2>8, <3>2, <3>3
  <2>9. Follows
    <3>1. \A i \in Idx : call'[i] = call[i]
      BY <1>2
    <3> QED
      BY <1>1, <2>3, <2>8, <3>1, QuietFollows
  <2> QED
    BY <1>2, <2>3, <2>9, FollowsKeeps
<1> QED
  BY <1>6, <1>7

(* The modem dials.  What is said of any number is over or has its          *)
(* descriptor, so that the new call is the one without.                     *)
LEMMA DoDialKeeps ==
    ASSUME IInv, Setup, DoDial
    PROVE  Setup'
<1>1. ModemTyped /\ QueueRight /\ OutOnly /\ Len(line) \in Nat
  BY HeardAt DEF IInv, Core, Setup
<1>2. /\ UNCHANGED <<st, idx, dir, phase, last, selectbusy, up, tasks, todo>>
      /\ tasks # <<>> /\ ~Answered /\ HeadCmd.cmd = "D"
  BY DEF DoDial, Works, desc, astvars, driver
<1>3. PICK i \in Unused : /\ call' = [call EXCEPT ![i] = "calling"]
                          /\ whose' = [whose EXCEPT ![i] = HeadTask.cpvt]
                          /\ Says(<<OK>>)
  BY DEF DoDial
<1>4. i \in Idx /\ call[i] = "none"
  BY <1>3 DEF Unused
<1> DEFINE n == Len(line)
<1>5. /\ SaidStays /\ n + 1 \in 1..Len(line') /\ line'[n + 1] = OK /\ Len(line') = n + 1
  <2>1. OK \in Heard
    BY EventsTyped
  <2> QED
    BY <1>1, <1>2, <1>3, <2>1, SaysOne
<1>6. n \in Nat /\ n + 1 \in Nat /\ n + 1 > n /\ \A k \in Nat : k > n \/ k <= n
  BY <1>1
<1>7. \A r \in Idx : /\ Shows(r, n + 1, Stage(call[r]), Stage(call[r]))
                     /\ Speaks(r, n + 1) <=> call[r] # "none"
  BY <1>1, <1>6, Behind
(* What was said stays.                                                     *)
<1>8. \A r \in Idx, k \in Nat : k <= n =>
         /\ \A b, a : Shows(r, k, b, a)' <=> Shows(r, k, b, a)
         /\ Speaks(r, k)' <=> Speaks(r, k)
  BY <1>5 DEF SaidStays
<1>9. \A k \in Nat : ~Okay(k)
  BY <1>2 DEF Okay, Answered
(* Nothing is new but the result and the call.                              *)
<1>10. ASSUME NEW k \in Nat, k > n
       PROVE  /\ ListAt(k)' = <<>>
              /\ \A r, s : ~Listed(r, k, s)'
              /\ OursListed(k)' /\ Numbered(k)'
              /\ \A e, r : e \in {"ORIG", "CONN", "CEND"} => ~Hears(k, Ev(e, r))'
              /\ Okay(k)' => k = n + 1
  <2>1. k > 0
    BY <1>6, <1>10
  <2>2. k \in 1..Len(line') => k = n + 1 /\ line'[k].ev = "OK"
    BY <1>5, <1>6, <1>10 DEF OK, Ev
  <2>3. ListAt(k)' = <<>>
    BY <2>1, <2>2, NewList
  <2>4. Len(<<>>) = 0 /\ 1..0 = {}
    OBVIOUS
  <2>5. OursListed(k)' /\ \A r, s : ~Listed(r, k, s)'
    BY <2>3, <2>4 DEF OursListed, Listed
  <2>6. Numbered(k)' /\ \A e, r : e \in {"ORIG", "CONN", "CEND"} => ~Hears(k, Ev(e, r))'
    BY <2>2 DEF Numbered, Hears, Ev
  <2>7. Okay(k)' => k = n + 1
    BY <2>2 DEF Okay
  <2> QED
    BY <2>3, <2>5, <2>6, <2>7
<1>11. /\ call'[i] = "calling" /\ \A r \in Idx : r # i => call'[r] = call[r]
       /\ whose'[i] = HeadTask.cpvt /\ \A r \in Idx : r # i => whose'[r] = whose[r]
  BY <1>1, <1>3, <1>4 DEF ModemTyped
<1>12. \A r \in Idx : Stage(call'[r]) = Stage(call[r])
  BY <1>4, <1>11 DEF Stage
<1>13. ASSUME NEW r \in Idx, NEW k \in Nat, k > n
       PROVE  /\ \A b, a : Shows(r, k, b, a)'
                    => b = Stage(call[r]) /\ a = Stage(call[r]) /\ Shows(r, n + 1, b, a)
              /\ Speaks(r, k)' => k > n + 1 /\ (r = i \/ Speaks(r, n + 1))
              /\ ~Ends(r, k) /\ ~Ends(r, k)' /\ ~Starts(r, k) /\ ~Starts(r, k)'
  <2>1. \A b, a : Shows(r, k, b, a)' => b = Stage(call'[r]) /\ a = Stage(call'[r])
    BY <1>10, <1>13 DEF Shows, Starts
  <2>2. Speaks(r, k)' => k > n + 1 /\ call'[r] # "none"
    BY <1>5, <1>10, <1>13 DEF Speaks, Starts, Ends
  <2>3. ~Ends(r, k)' /\ ~Starts(r, k)'
    BY <1>10, <1>13 DEF Ends, Starts
  <2>4. ~Ends(r, k) /\ ~Starts(r, k)
    BY <1>1, <1>13, Behind
  <2> QED
    BY <1>7, <1>11, <1>12, <2>1, <2>2, <2>3, <2>4
<1>14. \A r \in Idx, k \in Nat : /\ Ends(r, k)' <=> Ends(r, k)
                                 /\ Starts(r, k)' <=> Starts(r, k)
                                 /\ Ends(r, k) => k <= n
  BY <1>5, <1>6, <1>13 DEF SaidStays
<1> HIDE DEF n
<1>15. \A r : Stage(call[r]) \in 0..2
  BY StageRange
(* The descriptor that is dialled for.                                      *)
<1>16. /\ Live' = Live
       /\ \A c : /\ Known(c)' <=> Known(c)
                 /\ Dialling(c)' <=> Dialling(c)
                 /\ Begun(c)' <=> Begun(c)
       /\ HeadTask' = HeadTask /\ HeadCmd' = HeadCmd
       /\ \A k : DialAt(k)' <=> DialAt(k)
  BY <1>2 DEF Live, Known, Dialling, Begun, DialAt, HeadTask, HeadCmd
<1>17. \A r \in Idx : OfOne(r)' <=> OfOne(r)
  BY <1>2, <1>16 DEF OfOne
<1>18. DialAt(1) /\ HeadTask = tasks[1]
  <2>1. 1 \in 1..Len(tasks) /\ HeadTask = tasks[1] /\ tasks[1] \in Right
    BY <1>1, <1>2 DEF QueueRight, HeadTask
  <2>2. tasks[1].cmds \in Seq(CmdSet) /\ tasks[1].cmds # <<>>
    BY <2>1 DEF Right, TaskSet
  <2>3. 1 \in DOMAIN tasks[1].cmds /\ HeadCmd = tasks[1].cmds[1]
    BY <2>1, <2>2 DEF HeadCmd
  <2> QED
    BY <1>2, <2>1, <2>3 DEF DialAt, Dials
<1>19. PICK o \in Cpvt : /\ o = HeadTask.cpvt /\ Dialling(o) /\ Begun(o)
                         /\ \A r \in Idx : whose[r] # o
  <2>1. /\ tasks[1].cpvt \in Cpvt /\ Dialling(tasks[1].cpvt) /\ Begun(tasks[1].cpvt)
        /\ \A r \in Idx : whose[r] # tasks[1].cpvt
    BY <1>9, <1>18 DEF Setup, DialTasks
  <2> QED
    BY <1>18, <2>1
<1>20. OnlyDialler
  BY OnlyOneDials DEF Setup
<1>21. /\ \A r \in Idx : ~OfCaller(r)
       /\ OfCaller(i)'
  BY <1>11, <1>16, <1>19, <1>20 DEF OfCaller, OnlyDialler
<1>22. \A r \in Idx, k \in Nat : Speaks(r, k) => OfOne(r)
  BY <1>21 DEF Setup, Told0, Accounted
<1>23. \A r \in Idx, j, k \in Nat : ~(Ends(r, j) /\ Speaks(r, k) /\ j < k)
  BY <1>21 DEF Setup, Told0, Twice
<1>24. \A r \in Idx, k \in Nat, a \in 0..2 : ~(Shows(r, k, 0, a) /\ Speaks(r, k))
  BY <1>21 DEF Setup, Told0, Caller
<1>25. Ordered'
  <2> SUFFICES ASSUME NEW r \in Idx, NEW j \in Nat, NEW k \in Nat, NEW b \in 0..2, NEW a \in 0..2,
                      NEW bb \in 0..2, NEW aa \in 0..2,
                      j < k, Shows(r, j, b, a)', Shows(r, k, bb, aa)', bb < a
               PROVE  \E l \in Nat : j < l /\ l < k /\ Ends(r, l)'
    BY DEF Ordered
  <2>1. CASE k <= n
    <3>1. j <= n
      BY <1>6, <2>1
    <3> QED
      BY <1>8, <1>14, <2>1, <3>1 DEF Setup, Said, Ordered
  <2>2. CASE k > n /\ j <= n
    <3>1. Shows(r, j, b, a) /\ Shows(r, n + 1, bb, aa) /\ j < n + 1
      BY <1>6, <1>8, <1>13, <2>2
    <3>2. PICK l \in Nat : j < l /\ l < n + 1 /\ Ends(r, l)
      BY <1>6, <3>1 DEF Setup, Said, Ordered
    <3>3. l < k
      BY <1>6, <2>2, <3>2
    <3> QED
      BY <1>14, <3>2, <3>3
  <2>3. CASE j > n
    <3>1. k > n
      BY <1>6, <2>3
    <3>2. a = Stage(call[r]) /\ bb = Stage(call[r])
      BY <1>13, <2>3, <3>1
    <3> QED
      BY <1>15, <3>2
  <2> QED
    BY <1>6, <2>1, <2>2, <2>3
<1>26. Restarts'
  <2> SUFFICES ASSUME NEW r \in Idx, NEW j \in Nat, NEW k \in Nat, NEW b \in 0..2, NEW a \in 0..2,
                      Ends(r, j)', Shows(r, k, b, a)', b > 0, j < k
               PROVE  \E m \in Nat : j < m /\ m < k /\ Starts(r, m)'
    BY DEF Restarts
  <2>1. Ends(r, j) /\ j <= n
    BY <1>14
  <2>2. CASE k <= n
    BY <1>8, <1>14, <2>1, <2>2 DEF Setup, Said, Restarts
  <2>3. CASE k > n
    <3>1. Shows(r, n + 1, b, a) /\ j < n + 1
      BY <1>6, <1>13, <2>1, <2>3
    <3>2. PICK m \in Nat : j < m /\ m < n + 1 /\ Starts(r, m)
      BY <1>6, <2>1, <3>1 DEF Setup, Said, Restarts
    <3>3. m < k
      BY <1>6, <2>3, <3>2
    <3> QED
      BY <1>14, <3>2, <3>3
  <2> QED
    BY <1>6, <2>2, <2>3
<1>27. Numbers'
  BY <1>2, <1>16 DEF Setup, Told0, Numbers
<1>28. \A c \in Cpvt : Known(c) => idx[c] \in Idx /\ idx'[c] = idx[c]
  BY <1>2 DEF Setup, Told0, Numbers
<1>29. Owned'
  <2> SUFFICES ASSUME NEW c \in Cpvt, Known(c), whose'[idx[c]] # c
               PROVE  \E l \in Nat : Ends(idx[c], l)'
    BY <1>2, <1>16 DEF Owned
  <2>1. PICK r \in Idx : r = idx[c] /\ idx'[c] = r
    BY <1>28
  <2>2. \E l \in Nat : Ends(r, l)
    <3>1. CASE r = i
      <4>1. Stage(st[c]) > 0
        <5>1. st[c] \in {"DIALING", "ACTIVE", "ONHOLD"}
          BY <1>1 DEF Known, Live, OutOnly, CallState
        <5> QED
          BY <5>1 DEF Stage
      <4>2. Shows(r, n + 1, 0, 0)
        <5>1. Stage(call[r]) = 0
          BY <1>4, <3>1 DEF Stage
        <5>2. Shows(r, n + 1, Stage(call[r]), Stage(call[r]))
          BY <1>7
        <5> QED
          BY <5>1, <5>2
      <4>3. 0 < Stage(st[c])
        BY <4>1, StageRange
      <4> QED
        BY <1>6, <2>1, <4>2, <4>3 DEF Setup, Told0, Front
    <3>2. CASE r # i
      BY <1>11, <2>1, <3>2 DEF Setup, Told0, Owned
    <3> QED
      BY <3>1, <3>2
  <2>3. \E l \in Nat : Ends(r, l)'
    BY <1>14, <2>2
  <2> QED
    BY <2>1, <2>3
<1>30. Front'
  <2> SUFFICES ASSUME NEW c \in Cpvt, NEW k \in Nat, NEW b \in 0..2, NEW a \in 0..2,
                      Known(c), Shows(idx[c], k, b, a)', b < Stage(st[c])
               PROVE  \E l \in Nat : l < k /\ Ends(idx[c], l)'
    BY <1>2, <1>16 DEF Front
  <2>1. PICK r \in Idx : r = idx[c] /\ idx'[c] = r
    BY <1>28
  <2>2. Shows(r, k, b, a)'
    BY <2>1
  <2>3. \E l \in Nat : l < k /\ Ends(r, l)
    <3>1. CASE k <= n
      BY <1>8, <2>1, <2>2, <3>1 DEF Setup, Told0, Front
    <3>2. CASE k > n
      <4>1. Shows(r, n + 1, b, a)
        BY <1>13, <2>2, <3>2
      <4>2. PICK l \in Nat : l < n + 1 /\ Ends(r, l)
        BY <1>6, <2>1, <4>1 DEF Setup, Told0, Front
      <4>3. l < k
        BY <1>6, <3>2, <4>2
      <4> QED
        BY <4>2, <4>3
    <3> QED
      BY <1>6, <3>1, <3>2
  <2>4. \E l \in Nat : l < k /\ Ends(r, l)'
    BY <1>14, <2>3
  <2> QED
    BY <2>1, <2>4
<1>31. \A r \in Idx, k \in Nat : Speaks(r, k)' => OfOne(r) \/ (r = i /\ k > n + 1)
  <2> SUFFICES ASSUME NEW r \in Idx, NEW k \in Nat, Speaks(r, k)'
               PROVE  OfOne(r) \/ (r = i /\ k > n + 1)
    OBVIOUS
  <2>1. k <= n => Speaks(r, k)
    BY <1>8
  <2>2. k > n => k > n + 1 /\ (r = i \/ Speaks(r, n + 1))
    BY <1>13
  <2> QED
    BY <1>6, <1>22, <2>1, <2>2
<1>32. \A r \in Idx, j, k \in Nat :
          Ends(r, j)' /\ Speaks(r, k)' /\ j < k => r = i /\ k > n + 1 /\ Ends(r, j)
  <2> SUFFICES ASSUME NEW r \in Idx, NEW j \in Nat, NEW k \in Nat,
                      Ends(r, j)', Speaks(r, k)', j < k
               PROVE  r = i /\ k > n + 1 /\ Ends(r, j)
    OBVIOUS
  <2>1. Ends(r, j) /\ j <= n
    BY <1>14
  <2>2. k > n
    BY <1>6, <1>8, <1>23, <2>1
  <2>3. k > n + 1 /\ (r = i \/ Speaks(r, n + 1))
    BY <1>13, <2>2
  <2>4. j < n + 1
    BY <1>6, <2>1
  <2> QED
    BY <1>6, <1>23, <2>1, <2>3, <2>4
<1>33. Accounted'
  BY <1>17, <1>21, <1>31 DEF Accounted
<1>34. Twice'
  <2> SUFFICES ASSUME NEW r \in Idx, NEW j \in Nat, NEW k \in Nat,
                      Ends(r, j)', Speaks(r, k)', j < k
               PROVE  OfOne(r)' /\ OfCaller(r)' /\ \A l \in Nat : l < j => ~Ends(r, l)'
    BY DEF Twice
  <2>1. r = i /\ Ends(r, j)
    BY <1>32
  <2>2. Speaks(r, j)
    BY <2>1 DEF Speaks
  <2>3. \A l \in Nat : l < j => ~Ends(r, l)'
    BY <1>14, <1>23, <2>2
  <2> QED
    BY <1>17, <1>21, <1>22, <2>1, <2>2, <2>3
<1>35. Caller'
  <2> SUFFICES ASSUME NEW r \in Idx, NEW k \in Nat, NEW a \in 0..2,
                      Shows(r, k, 0, a)', Speaks(r, k)', r # i
               PROVE  FALSE
    BY <1>21 DEF Caller
  <2>1. k > n
    BY <1>6, <1>8, <1>24
  <2>2. Shows(r, n + 1, 0, a) /\ Speaks(r, n + 1)
    BY <1>13, <2>1
  <2> QED
    BY <1>6, <1>24, <2>2
<1>36. OneCall'
  <2>1. \A j, r \in Idx : whose'[j] = whose'[r] /\ whose'[j] # NULL => j = r
    BY <1>11, <1>19 DEF Setup, OneCall
  <2>2. ASSUME NEW r \in Idx, whose'[r] # NULL
        PROVE  Begun(whose[r])'
    <3>1. CASE r = i
      BY <1>11, <1>16, <1>19, <3>1
    <3>2. CASE r # i
      <4>1. PICK c \in Cpvt : c = whose[r] /\ c = whose'[r]
        BY <1>1, <1>11, <2>2, <3>2 DEF OutOnly
      <4>2. Begun(c)'
        BY <1>16, <2>2, <4>1 DEF Setup, OneCall
      <4> QED
        BY <4>1, <4>2
    <3> QED
      BY <3>1, <3>2
  <2>3. \A c \in Live' : phase'[c] = "down" => Dialling(c)'
    BY <1>2, <1>16 DEF Setup, OneCall
  <2> QED
    BY <2>1, <2>2, <2>3 DEF OneCall
<1>37. DialTasks'
  <2>1. \E m \in Nat : Okay(m)'
    <3>1. PICK m \in Nat : m = n + 1
      BY <1>6
    <3>2. m \in 1..Len(line') /\ line'[m] = OK
      BY <1>5, <3>1 DEF n
    <3>3. Okay(m)'
      BY <3>2 DEF Okay, OK, Ev
    <3> QED
      BY <3>3
  <2>2. \A k \in Nat : DialAt(k) => k = 1
    BY <1>18 DEF Setup, DialTasks
  <2>3. ASSUME NEW k \in Nat, DialAt(k)'
        PROVE  /\ tasks'[k].cpvt \in Cpvt /\ Dialling(tasks[k].cpvt)' /\ Begun(tasks[k].cpvt)'
               /\ \A r \in Idx : whose'[r] = tasks'[k].cpvt
                     => k = 1 /\ HeadCmd'.cmd = "D" /\ \E m \in Nat : Okay(m)'
               /\ \A m, l \in DOMAIN tasks'[k].cmds :
                     tasks'[k].cmds[m].cmd = "D" /\ tasks'[k].cmds[l].cmd = "D" => m = l
    <3>1. DialAt(k) /\ k = 1 /\ tasks'[k] = tasks[k]
      BY <1>2, <1>16, <2>2, <2>3
    <3>2. \A m, l \in DOMAIN tasks[k].cmds :
              tasks[k].cmds[m].cmd = "D" /\ tasks[k].cmds[l].cmd = "D" => m = l
      BY <3>1 DEF Setup, DialTasks
    <3>3. o = tasks[k].cpvt /\ o = tasks'[k].cpvt
      BY <1>18, <1>19, <3>1
    <3>4. Dialling(o)' /\ Begun(o)'
      BY <1>16, <1>19
    <3>5. Dialling(tasks[k].cpvt)' /\ Begun(tasks[k].cpvt)'
      BY <3>3, <3>4
    <3>6. k = 1 /\ HeadCmd'.cmd = "D"
      BY <1>2, <1>16, <3>1
    <3> QED
      BY <2>1, <3>1, <3>2, <3>3, <3>5, <3>6
  <2>4. \A k, l \in Nat : DialAt(k)' /\ DialAt(l)' => k = l
    BY <1>16, <2>2
  <2> QED
    BY <2>3, <2>4 DEF DialTasks
<1>38. LastDialled'
  BY <1>2, <1>16 DEF Setup, LastDialled
<1>39. Unread'
  <2> SUFFICES ASSUME NEW r \in Idx, NEW m \in Nat, Dialled(r)', Okay(m)'
               PROVE  /\ \A k \in Nat : k < m /\ Speaks(r, k)' => OfOne(r)
                      /\ \A q \in Idx, j, k \in Nat : Ends(q, j)' /\ Speaks(q, k)' /\ j < k => m < k
    BY <1>17 DEF Unread
  <2>1. m = n + 1
    <3>1. m > n
      BY <1>5, <1>6, <1>9 DEF SaidStays, n
    <3> QED
      BY <1>10, <3>1 DEF n
  <2> QED
    BY <1>6, <1>31, <1>32, <2>1
<1>40. Fresh'
  <2> SUFFICES ASSUME NEW r \in Idx, NEW k \in Nat, NEW b \in 0..2, NEW a \in 0..2,
                      Shows(r, k, b, a)', b > 0
               PROVE  OfOne(r)
    BY <1>17 DEF Fresh
  <2>1. b # 0
    OBVIOUS
  <2>2. \E l \in Nat : Shows(r, l, b, a)
    <3>1. CASE k <= n
      BY <1>8, <3>1
    <3>2. CASE k > n
      BY <1>6, <1>13, <3>2
    <3> QED
      BY <1>6, <3>1, <3>2
  <2>3. \E l \in Nat : Speaks(r, l)
    BY <1>1, <2>1, <2>2, ShowsSpeaks
  <2> QED
    BY <1>22, <2>3
<1>41. OutOnly'
  <2>1. \A k \in Nat : OursListed(k)' /\ Numbered(k)'
    <3> SUFFICES ASSUME NEW k \in Nat PROVE OursListed(k)' /\ Numbered(k)'
      OBVIOUS
    <3>1. CASE k <= n
      BY <1>1, <1>5, <3>1 DEF SaidStays, OutOnly, n
    <3>2. CASE k > n
      BY <1>10, <3>2 DEF n
    <3> QED
      BY <1>6, <3>1, <3>2
  <2>2. o # NULL
    BY CpvtAssumption
  <2>3. \A r \in Idx : /\ call'[r] \in {"none", "calling", "DIALING", "ACTIVE", "ONHOLD"}
                       /\ whose'[r] \in Cpvt \cup {NULL}
                       /\ call'[r] # "none" => whose'[r] # NULL
    BY <1>1, <1>11, <1>19, <2>2 DEF OutOnly
  <2> QED
    BY <1>1, <1>2, <2>1, <2>3 DEF OutOnly
<1>42. OneAtATime'
  <2>1. SettingUp' = SettingUp
    BY <1>2, <1>16 DEF SettingUp, In
  <2> QED
    BY <1>2, <2>1 DEF Setup, OneAtATime
<1> QED
  BY <1>25, <1>26, <1>27, <1>29, <1>30, <1>33, <1>34, <1>35, <1>36, <1>37, <1>38, <1>39,
     <1>40, <1>41, <1>42 DEF Setup, Said, Told0

-----------------------------------------------------------------------------

LEMMA StillSetup ==
    ASSUME IInv, IInv', Setup, UNCHANGED vars
    PROVE  Setup'
<1>1. DriverTyped /\ ModemTyped /\ QueueRight /\ ModemTyped'
  BY DEF IInv, Core
<1>2. UNCHANGED <<st, idx, dir, phase, last, selectbusy, up, tasks, call, whose, todo, modem, line>>
  BY DEF vars, desc, astvars, driver, modem
<1>3. Moved(0) /\ \A k \in Nat : OursListed(k)' /\ Numbered(k)'
  BY <1>2, NothingSaid DEF Setup, OutOnly
<1>4. \A i : ~Ends(i, 0) /\ ~Starts(i, 0) /\ ~Okay(0)
  BY <1>1, NothingAtZero
<1>5. KeptTasks
  <2>1. Task(SysChan, <<CLCC>>) \in TaskSet /\ Task(SysChan, <<CLCC>>).cmds # <<>>
        /\ ~Dials(Task(SysChan, <<CLCC>>))
    BY QuietTasks
  <2>2. OutOnly /\ DialTasks /\ whose' = whose
    BY <1>2 DEF Setup
  <2> QED
    BY <1>1, <1>2, <2>1, <2>2, UrgentKept
<1>6. PhaseMoves
  BY <1>2 DEF PhaseMoves
<1>7. /\ UNCHANGED <<st, idx, dir, selectbusy, up, call, whose>> /\ last' \in {last, NULL}
      /\ \A e \in Live : ~Ends(idx[e], 0)
      /\ \A r \in Idx : Starts(r, 0) => last' = NULL
      /\ \A r \in Idx : Ends(r, 0) =>
            \A q \in Idx : ~Speaks(q, 0)' /\ \A b, a : ~Shows(q, 0, b, a)'
      /\ ~Okay(0)
  BY <1>2, <1>4
<1> QED
  BY <1>1, <1>3, <1>5, <1>6, <1>7, CalmMoves

LEMMA InitSetup == Init => Setup
<1> SUFFICES ASSUME Init PROVE Setup
  OBVIOUS
<1>1. /\ \A c \in Cpvt : st[c] = "unused" /\ dir[c] = "out" /\ phase[c] = "none"
      /\ last = NULL /\ up
      /\ tasks = <<>> /\ todo = <<>> /\ line = <<>>
      /\ \A i \in Idx : call[i] = "none" /\ whose[i] = NULL
  BY DEF Init
<1>2. Len(<<>>) = 0 /\ 1..0 = {}
  OBVIOUS
<1>3. Live = {}
  BY <1>1 DEF Live, CallState
<1>4. \A k : ListAt(k) = <<>>
  BY <1>1, <1>2 DEF ListAt
<1>5. /\ \A i, k, s : ~Listed(i, k, s)
      /\ \A k, e : ~Hears(k, e)
      /\ \A k : ~Okay(k)
  BY <1>1, <1>2, <1>4 DEF Listed, Hears, Okay
<1>6. \A i \in Idx : \A k, b, a : Shows(i, k, b, a) => b = 0 /\ a = 0
  BY <1>1, <1>5 DEF Shows, Starts, Stage
<1>7. \A i \in Idx : \A k : ~Speaks(i, k)
  BY <1>1, <1>5 DEF Speaks, Starts, Ends
<1>8. \A i, k : ~Ends(i, k) /\ ~Starts(i, k)
  BY <1>5 DEF Ends, Starts
<1>9. \A c : ~Known(c) /\ ~Dialling(c)
  BY <1>3 DEF Known, Dialling
<1>10. \A k \in Nat : ~DialAt(k)
  BY <1>1, <1>2 DEF DialAt
<1>11. OutOnly
  <2>1. \A k \in Nat : OursListed(k) /\ Numbered(k)
    BY <1>1, <1>2, <1>4 DEF OursListed, Numbered
  <2> QED
    BY <1>1, <2>1 DEF OutOnly
<1>12. OneAtATime
  BY <1>1, <1>3 DEF OneAtATime, SettingUp, In
<1>13. Said
  <2>1. Ordered
    <3> SUFFICES ASSUME NEW i \in Idx, NEW j \in Nat, NEW k \in Nat, NEW b \in 0..2, NEW a \in 0..2,
                        NEW bb \in 0..2, NEW aa \in 0..2,
                        Shows(i, j, b, a), Shows(i, k, bb, aa), bb < a
                 PROVE  FALSE
      BY DEF Ordered
    <3>1. a = 0
      BY <1>6
    <3> QED
      BY <3>1
  <2>2. Restarts
    BY <1>8 DEF Restarts
  <2> QED
    BY <2>1, <2>2 DEF Said
<1>14. Told0
  BY <1>3, <1>7, <1>8, <1>9 DEF Told0, Numbers, Owned, Front, Accounted, Twice, Caller
<1>15. OneCall /\ DialTasks /\ LastDialled
  BY <1>1, <1>3, <1>10 DEF OneCall, DialTasks, LastDialled
<1>16. Unread
  BY <1>5 DEF Unread
<1>17. Fresh
  <2> SUFFICES ASSUME NEW i \in Idx, NEW k \in Nat, NEW b \in 0..2, NEW a \in 0..2,
                      Shows(i, k, b, a), b > 0
               PROVE  FALSE
    BY DEF Fresh
  <2>1. b = 0
    BY <1>6
  <2> QED
    BY <2>1
<1> QED
  BY <1>11, <1>12, <1>13, <1>14, <1>15, <1>16, <1>17 DEF Setup

(* A connection that is lost stays counted, and a call that came in too.    *)
LEMMA SetupKept == IInv /\ IInv' /\ SInv /\ [Next]_vars => SInv'
<1> SUFFICES ASSUME IInv, IInv', SInv, [Next]_vars, Alone'
             PROVE  Setup'
  BY DEF SInv
<1>1. drops \in Nat /\ incoming \in Nat
  BY BoundAssumption DEF IInv, DriverTyped, ModemTyped
<1>2. ASSUME UNCHANGED <<drops, incoming>>
      PROVE  Setup
  BY <1>2 DEF SInv, Alone
<1>3. CASE Channels
  <2>1. PICK c \in Cpvt :
           \/ \E h \in BOOLEAN : Select(c, h)
           \/ Request(c) \/ Call(c)
           \/ CallRefused(c) \/ Answer(c) \/ Activate(c) \/ HangupLooks(c) \/ HangupActs(c)
    BY <1>3 DEF Channels
  <2>2. UNCHANGED <<drops, incoming>>
    BY <2>1 DEF Select, Request, Call, CallRefused, Answer, Activate, HangupLooks, HangupActs,
                driver, modem
  <2> QED
    BY <1>2, <2>1, <2>2, SelectKeeps, RequestKeeps, CallKeeps, CalledKeeps
<1>4. CASE MonitorReads
  <2>1. UNCHANGED <<drops, incoming>>
    BY <1>4 DEF MonitorReads, HandleOk, HandleError, HandleOrig, HandleConn, HandleCend,
                HandleRing, HandleCcwa, HandleClcc, ClccKnown, ClccArrives, ClccSkipped,
                driver, modem
  <2>2. Setup
    BY <1>2, <2>1
  <2>3. HandleOk \/ HandleError => Setup'
    BY <2>2, ResultKeeps
  <2>4. HandleOrig \/ HandleConn \/ HandleCend => Setup'
    BY <2>2, OrigKeeps, ConnKeeps, CendKeeps
  <2>5. HandleRing \/ HandleCcwa \/ HandleClcc => Setup'
    BY <2>2, OtherLinesKeep
  <2>6. (ClccSkipped \/ \E c \in Cpvt : ClccKnown(c) \/ ClccArrives(c)) => Setup'
    BY <2>2, ListKeepsSetup
  <2> QED
    BY <1>4, <2>3, <2>4, <2>5, <2>6 DEF MonitorReads
<1>5. CASE ModemWorks
  <2>1. UNCHANGED <<drops, incoming>>
    BY <1>5 DEF ModemWorks, Refuse, DoDial, DoList, DoSwap, DoAnswer, DoHangup, Works, driver
  <2>2. Setup
    BY <1>2, <2>1
  <2> QED
    BY <1>5, <2>2, DoDialKeeps, DoListKeeps, HangupSwapKeep DEF ModemWorks
<1>6. CASE ModemSpeaks
  <2>1. PICK i \in Idx : \/ Originates(i) \/ RemoteAnswers(i) \/ RemoteEnds(i) \/ Rings(i)
                         \/ Arrives(i)
    BY <1>6 DEF ModemSpeaks
  <2>2. CASE Originates(i) \/ RemoteAnswers(i) \/ RemoteEnds(i) \/ Rings(i)
    <3>1. UNCHANGED <<drops, incoming>>
      BY <2>2 DEF Originates, RemoteAnswers, RemoteEnds, Rings, Unasked, driver
    <3>2. Setup
      BY <1>2, <3>1
    <3> QED
      BY <2>2, <3>2, GoesOn
  <2>3. CASE Arrives(i)
    <3>1. incoming' = incoming + 1
      BY <2>3 DEF Arrives
    <3> QED
      BY <1>1, <3>1 DEF Alone
  <2> QED
    BY <2>1, <2>2, <2>3
<1>7. CASE Drop
  <2>1. drops' = drops + 1
    BY <1>7 DEF Drop
  <2> QED
    BY <1>1, <2>1 DEF Alone
<1>8. CASE Connect
  <2>1. UNCHANGED <<drops, incoming>> /\ ~up
    BY <1>8 DEF Connect, modem
  <2>2. up
    BY <1>2, <2>1 DEF Setup, OutOnly
  <2> QED
    BY <2>1, <2>2
<1>9. CASE UNCHANGED vars
  <2>1. Setup
    BY <1>2, <1>9 DEF vars, driver, modem
  <2> QED
    BY <1>9, <2>1, StillSetup
<1> QED
  BY <1>3, <1>4, <1>5, <1>6, <1>7, <1>8, <1>9 DEF Next

LEMMA SetupHolds == Spec => []SInv
<1>1. Init => SInv
  BY InitSetup DEF SInv
<1>2. IInv /\ IInv' /\ SInv /\ [Next]_vars => SInv'
  BY SetupKept
<1> QED
  BY <1>1, <1>2, InvariantHolds, PTL DEF Spec

(* As long as no call came in and the connection holds, one descriptor at   *)
(* most reserves a device or waits for its call to be answered.             *)
THEOREM CallsOneSetup == Spec => []OneSetup
<1>1. SInv => OneSetup
  BY DEF SInv, Alone, Setup, OneAtATime, OneSetup
<1> QED
  BY <1>1, SetupHolds, PTL

(* As long as no call came in and the connection holds, a descriptor's      *)
(* number is that of its own call until the modem says that this is over.   *)
THEOREM CallsNumberedRight == Spec => []NumberedRight
<1>1. IInv /\ SInv => NumberedRight
  <2> SUFFICES ASSUME IInv, SInv, NEW c \in Live,
                      up, drops = 0, incoming = 0, st[c] # "INIT", call[idx[c]] # "none",
                      \A k \in 1..Len(line) : line[k] # Ev("CEND", idx[c])
               PROVE  whose[idx[c]] = IF dir[c] = "in" THEN NULL ELSE c
    BY DEF NumberedRight
  <2>1. Setup /\ c \in Cpvt
    BY DEF SInv, Alone, Live
  <2>2. Known(c) /\ dir[c] = "out"
    BY <2>1 DEF Known, Setup, OutOnly
  <2>3. whose[idx[c]] = c \/ \E l \in Nat : Ends(idx[c], l)
    BY <2>1, <2>2 DEF Setup, Told0, Owned
  <2>4. \A l \in Nat : ~Ends(idx[c], l)
    BY DEF Ends, Hears
  <2> QED
    BY <2>2, <2>3, <2>4
<1> QED
  BY <1>1, SetupHolds, InvariantHolds, PTL
=============================================================================
