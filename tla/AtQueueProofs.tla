---------------------------- MODULE AtQueueProofs ----------------------------
(***************************************************************************)
(* The AT command queue keeps the port half-duplex, for every number of    *)
(* tasks, scripts and call descriptors.  The argument is one inductive     *)
(* invariant, IInv, whose part about the queue is stated for any list of   *)
(* tasks l (Good), so that it can be carried through the two halves of an  *)
(* insertion: add the task, then run the queue.                            *)
(***************************************************************************)
EXTENDS AtQueue, FiniteSetTheorems, WellFoundedInduction, TLAPS

(* What holds of a list of tasks l with the port p, the sent commands S,    *)
(* the next task name n and the call descriptors L.                         *)
HeadFirst(l) ==
    \A i \in 1..Len(l) :
        /\ l[i].cindex < Len(l[i].cmds)
        /\ l[i].written \subseteq 1..(IF i = 1 THEN l[i].cindex + 1 ELSE 0)

PortIs(l, p) ==
    /\ l # <<>> /\ l[1].cindex + 1 \in l[1].written
           => p = <<[id |-> l[1].id, no |-> l[1].cindex + 1]>>
    /\ ~(l # <<>> /\ l[1].cindex + 1 \in l[1].written) => p = <<>>

(* Names are given once, and only the head task has sent commands: those    *)
(* marked as written.                                                       *)
NamesFresh(l, n) ==
    /\ \A i \in 1..Len(l) : l[i].id < n
    /\ \A i, j \in 1..Len(l) : l[i].id = l[j].id => i = j

SentByHead(l, S, n) ==
    \A s \in S :
        /\ s.id \in 1..(n - 1)
        /\ \A i \in 1..Len(l) : s.id = l[i].id => i = 1 /\ s.no \in l[i].written

Owned(l, L) == \A i \in 1..Len(l) : l[i].cpvt \in L \cup {SysChan}

Good(l, p, S, n, L) ==
    /\ l \in Seq(Task)
    /\ HeadFirst(l)
    /\ PortIs(l, p)
    /\ NamesFresh(l, n)
    /\ SentByHead(l, S, n)
    /\ Owned(l, L)

(* The queue is a record of the list and its two counters.                  *)
Queue(r) ==
    /\ r = [list |-> r.list, at_tasks |-> r.at_tasks, at_cmds |-> r.at_cmds]
    /\ r.at_tasks = Len(r.list)

IInv ==
    /\ Good(q.list, port, sent, nextId, live)
    /\ Queue(q)
    /\ nextId \in 1..(MaxTasks + 1)
    /\ live \subseteq Cpvt
    /\ mon \in {"idle", "run", "broken", "stopped"}
    /\ sent \subseteq Ref
    /\ refused \subseteq Id

-----------------------------------------------------------------------------
(* Lists of tasks *)

(* What the type says of a task: a list of commands is never empty.         *)
LEMMA TaskFacts ==
    ASSUME NEW t \in Task
    PROVE  /\ t.id \in Nat \ {0} /\ t.id <= MaxTasks
           /\ t.cindex \in Nat
           /\ t.cmds \in Script /\ Len(t.cmds) \in Nat /\ Len(t.cmds) <= MaxCmds
           /\ t.written \subseteq Nat
<1>1. /\ t.id \in 1..MaxTasks /\ t.cindex \in Nat /\ t.cmds \in Script
      /\ t.written \in SUBSET Nat
  BY DEF Task, Id
<1>2. Len(t.cmds) \in 1..MaxCmds
  BY <1>1, ScriptAssumption
<1> QED
  BY <1>1, <1>2, BoundAssumption

(* The head of a good queue is at a command of its script, and that command *)
(* has a name.                                                              *)
LEMMA HeadFacts ==
    ASSUME NEW l \in Seq(Task), HeadFirst(l), l # <<>>
    PROVE  /\ Len(l) \in Nat \ {0}
           /\ Head(l) = l[1]
           /\ l[1] \in Task
           /\ l[1].cindex + 1 \in 1..Len(l[1].cmds)
           /\ [id |-> l[1].id, no |-> l[1].cindex + 1] \in Ref
<1>1. Len(l) \in Nat \ {0} /\ Head(l) = l[1] /\ l[1] \in Task
  OBVIOUS
<1>2. l[1].cindex < Len(l[1].cmds)
  BY <1>1 DEF HeadFirst
<1>3. l[1].cindex + 1 \in 1..Len(l[1].cmds)
  BY <1>1, <1>2, TaskFacts
<1>4. l[1].id \in 1..MaxTasks /\ l[1].cindex + 1 \in 1..MaxCmds
  BY <1>1, <1>2, TaskFacts, BoundAssumption
<1> QED
  BY <1>1, <1>3, <1>4 DEF Ref, Id

(* A sequence with an element put behind its first one.                     *)
LEMMA BehindHead ==
    ASSUME NEW T, NEW s \in Seq(T), s # <<>>, NEW e \in T,
           NEW z, z = <<Head(s), e>> \o Tail(s)
    PROVE  /\ z \in Seq(T)
           /\ Len(z) = Len(s) + 1
           /\ z[1] = s[1]
           /\ z[2] = e
           /\ \A i \in 3..Len(z) : z[i] = s[i - 1]
<1>1. /\ Head(s) \in T /\ Head(s) = s[1]
      /\ Tail(s) \in Seq(T)
      /\ Len(s) \in Nat \ {0}
      /\ Len(Tail(s)) = Len(s) - 1
      /\ \A i \in 1..Len(Tail(s)) : Tail(s)[i] = s[i + 1]
  OBVIOUS
<1>2. <<Head(s), e>> \in Seq(T) /\ Len(<<Head(s), e>>) = 2
  BY <1>1
<1>3. z \in Seq(T) /\ Len(z) = Len(s) + 1
  BY <1>1, <1>2
<1>4. z[1] = s[1] /\ z[2] = e
  BY <1>1, <1>2
<1>5. ASSUME NEW i \in 3..Len(z) PROVE z[i] = s[i - 1]
  <2>1. z[i] = Tail(s)[i - 2]
    BY <1>1, <1>2, <1>3
  <2>2. i - 2 \in 1..Len(Tail(s)) /\ (i - 2) + 1 = i - 1
    BY <1>1, <1>3
  <2> QED
    BY <1>1, <2>1, <2>2
<1> QED
  BY <1>3, <1>4, <1>5

(* A new task t at place k keeps the list good if it displaces no head.     *)
LEMMA SplicedGood ==
    ASSUME NEW l, NEW p, NEW S, NEW L, NEW n \in Nat, Good(l, p, S, n, L),
           NEW t \in Task, t.id = n, t.cpvt \in L \cup {SysChan},
           t.cindex = 0, t.written = {}, 0 < Len(t.cmds),
           NEW m \in Seq(Task), Len(m) = Len(l) + 1,
           NEW k \in 1..Len(m), k = 1 => l = <<>>,
           m[k] = t,
           \A i \in 1..(k - 1) : m[i] = l[i],
           \A i \in (k + 1)..Len(m) : m[i] = l[i - 1]
    PROVE  Good(m, p, S, n + 1, L)
<1>1. /\ l \in Seq(Task) /\ HeadFirst(l) /\ PortIs(l, p) /\ NamesFresh(l, n)
      /\ SentByHead(l, S, n) /\ Owned(l, L)
  BY DEF Good
<1>2. Len(l) \in Nat
  BY <1>1
<1>3. ASSUME NEW i \in 1..Len(m)
      PROVE  \/ i = k /\ m[i] = t
             \/ i < k /\ i \in 1..Len(l) /\ m[i] = l[i]
             \/ i > k /\ i > 2 /\ i - 1 \in 2..Len(l) /\ m[i] = l[i - 1]
  <2>1. CASE i < k
    BY <1>2, <2>1
  <2>2. CASE i > k
    <3>1. k # 1
      BY <1>2, <2>2
    <3> QED
      BY <1>2, <2>2, <3>1
  <2> QED
    BY <2>1, <2>2
<1>4. HeadFirst(m)
  <2> SUFFICES ASSUME NEW i \in 1..Len(m)
               PROVE  /\ m[i].cindex < Len(m[i].cmds)
                      /\ m[i].written \subseteq 1..(IF i = 1 THEN m[i].cindex + 1 ELSE 0)
    BY DEF HeadFirst
  <2>1. CASE i = k /\ m[i] = t
    BY <2>1
  <2>2. CASE i < k /\ i \in 1..Len(l) /\ m[i] = l[i]
    BY <1>1, <2>2 DEF HeadFirst
  <2>3. CASE i > k /\ i > 2 /\ i - 1 \in 2..Len(l) /\ m[i] = l[i - 1]
    BY <1>1, <2>3 DEF HeadFirst
  <2> QED
    BY <1>3, <2>1, <2>2, <2>3
<1>5. PortIs(m, p)
  <2>1. CASE k = 1
    <3>1. m # <<>> /\ m[1] = t /\ p = <<>>
      BY <1>1, <2>1, SMTT(30) DEF PortIs
    <3> QED
      BY <3>1 DEF PortIs
  <2>2. CASE k > 1
    <3>1. l # <<>> /\ m # <<>> /\ m[1] = l[1]
      BY <1>2, <2>2
    <3> QED
      BY <1>1, <3>1 DEF PortIs
  <2> QED
    BY <2>1, <2>2
<1>6. NamesFresh(m, n + 1)
  <2>1. ASSUME NEW i \in 1..Len(l) PROVE l[i].id \in Nat /\ l[i].id < n
    <3>1. l[i] \in Task /\ l[i].id < n
      BY <1>1 DEF NamesFresh
    <3> QED
      BY <3>1, TaskFacts
  <2>2. ASSUME NEW i \in 1..Len(m)
        PROVE  /\ m[i].id \in Nat
               /\ i = k => m[i].id = n
               /\ i # k => m[i].id < n
    <3>1. CASE i = k /\ m[i] = t
      BY <3>1
    <3>2. CASE i < k /\ i \in 1..Len(l) /\ m[i] = l[i]
      BY <2>1, <3>2
    <3>3. CASE i > k /\ i > 2 /\ i - 1 \in 2..Len(l) /\ m[i] = l[i - 1]
      BY <2>1, <3>3
    <3> QED
      BY <1>3, <3>1, <3>2, <3>3
  <2>3. \A i, j \in 1..Len(l) : l[i].id = l[j].id => i = j
    BY <1>1 DEF NamesFresh
  <2>4. ASSUME NEW i \in 1..Len(m), NEW j \in 1..Len(m), m[i].id = m[j].id
        PROVE  i = j
    <3>1. CASE i = k \/ j = k
      BY <2>2, <2>4, <3>1
    <3>2. CASE i < k /\ j < k
      BY <1>3, <2>3, <2>4, <3>2
    <3>3. CASE i > k /\ j > k
      <4>1. /\ i - 1 \in 1..Len(l) /\ m[i] = l[i - 1]
            /\ j - 1 \in 1..Len(l) /\ m[j] = l[j - 1]
        BY <1>3, <3>3
      <4>2. i - 1 = j - 1
        BY <2>3, <2>4, <4>1, SMTT(30)
      <4>3. i \in Int /\ j \in Int
        OBVIOUS
      <4> QED
        BY <4>2, <4>3
    <3>4. CASE i < k /\ j > k
      <4>1. /\ i \in 1..Len(l) /\ m[i] = l[i]
            /\ j - 1 \in 1..Len(l) /\ m[j] = l[j - 1]
        BY <1>3, <3>4
      <4>2. i = j - 1
        BY <2>3, <2>4, <4>1
      <4> QED
        BY <3>4, <4>2
    <3>5. CASE i > k /\ j < k
      <4>1. /\ i - 1 \in 1..Len(l) /\ m[i] = l[i - 1]
            /\ j \in 1..Len(l) /\ m[j] = l[j]
        BY <1>3, <3>5
      <4>2. i - 1 = j
        BY <2>3, <2>4, <4>1
      <4> QED
        BY <3>5, <4>2
    <3> QED
      BY <3>1, <3>2, <3>3, <3>4, <3>5
  <2>5. \A i \in 1..Len(m) : m[i].id < n + 1
    BY <2>2, SMTT(30)
  <2> QED
    BY <2>4, <2>5 DEF NamesFresh
<1>7. SentByHead(m, S, n + 1)
  <2> SUFFICES ASSUME NEW x \in S
               PROVE  /\ x.id \in 1..((n + 1) - 1)
                      /\ \A i \in 1..Len(m) :
                            x.id = m[i].id => i = 1 /\ x.no \in m[i].written
    BY DEF SentByHead
  <2>1. /\ x.id \in 1..(n - 1)
        /\ \A i \in 1..Len(l) :
              x.id = l[i].id => i = 1 /\ x.no \in l[i].written
    BY <1>1 DEF SentByHead
  <2>2. ASSUME NEW i \in 1..Len(m), x.id = m[i].id
        PROVE  i = 1 /\ x.no \in m[i].written
    <3>1. CASE i = k /\ m[i] = t
      <4>1. x.id = n /\ x.id \in 1..(n - 1)
        BY <2>1, <2>2, <3>1
      <4> QED
        BY <4>1
    <3>2. CASE i < k /\ i \in 1..Len(l) /\ m[i] = l[i]
      BY <2>1, <2>2, <3>2
    <3>3. CASE i > k /\ i > 2 /\ i - 1 \in 2..Len(l) /\ m[i] = l[i - 1]
      BY <2>1, <2>2, <3>3
    <3> QED
      BY <1>3, <3>1, <3>2, <3>3
  <2>3. x.id \in 1..((n + 1) - 1)
    BY <2>1
  <2> QED
    BY <2>2, <2>3
<1>8. Owned(m, L)
  BY <1>1, <1>3 DEF Owned
<1> QED
  BY <1>4, <1>5, <1>6, <1>7, <1>8 DEF Good

(* at_queue_add keeps the list good.                                        *)
LEMMA AddedGood ==
    ASSUME NEW l, NEW p, NEW S, NEW L, NEW n \in Id, Good(l, p, S, n, L),
           NEW t \in Task, t.id = n, t.cpvt \in L \cup {SysChan},
           t.cindex = 0, t.written = {},
           NEW front \in BOOLEAN, front => l # <<>>,
           NEW m, front => m = <<Head(l), t>> \o Tail(l), ~front => m = Append(l, t)
    PROVE  Good(m, p, S, n + 1, L)
<1>1. l \in Seq(Task) /\ Len(l) \in Nat
  BY DEF Good
<1>2. n \in Nat
  BY BoundAssumption DEF Id
<1>3. 0 < Len(t.cmds)
  BY ScriptAssumption, BoundAssumption DEF Task
<1>4. CASE front
  <2>1. /\ m \in Seq(Task)
        /\ Len(m) = Len(l) + 1
        /\ m[1] = l[1]
        /\ m[2] = t
        /\ \A i \in 3..Len(m) : m[i] = l[i - 1]
    <3>1. m = <<Head(l), t>> \o Tail(l) /\ l # <<>>
      BY <1>4
    <3> HIDE <1>4
    <3> QED
      BY <1>1, <3>1, BehindHead
  <2>2. 2 \in 1..Len(m) /\ 2 # 1
    BY <1>1, <1>4, <2>1
  <2>3. /\ \A i \in 1..(2 - 1) : m[i] = l[i]
        /\ \A i \in (2 + 1)..Len(m) : m[i] = l[i - 1]
    BY <1>1, <2>1
  <2> QED
    BY <1>2, <1>3, <2>1, <2>2, <2>3, SplicedGood, SMTT(60)
<1>5. CASE ~front
  <2>1. /\ m \in Seq(Task)
        /\ Len(m) = Len(l) + 1
        /\ m[Len(m)] = t
        /\ \A i \in 1..Len(l) : m[i] = l[i]
    BY <1>1, <1>5, SMTT(30)
  <2>2. /\ \A i \in 1..(Len(m) - 1) : m[i] = l[i]
        /\ \A i \in (Len(m) + 1)..Len(m) : m[i] = l[i - 1]
    BY <1>1, <2>1
  <2>3. Len(m) \in 1..Len(m) /\ (Len(m) = 1 => l = <<>>)
    BY <1>1, <2>1
  <2> QED
    BY <1>2, <1>3, <2>1, <2>2, <2>3, SplicedGood, SMTT(60)
<1> QED
  BY <1>4, <1>5

(* The head task with another cindex or other marks.                        *)
LEMMA HeadChanged ==
    ASSUME NEW l \in Seq(Task), l # <<>>, NEW t \in Task,
           NEW m, m = [l EXCEPT ![1] = t]
    PROVE  /\ m \in Seq(Task) /\ Len(m) = Len(l) /\ m # <<>>
           /\ m[1] = t
           /\ \A i \in 2..Len(l) : m[i] = l[i]
<1>1. Len(l) \in Nat \ {0}
  OBVIOUS
<1>2. m \in Seq(Task) /\ Len(m) = Len(l)
  OBVIOUS
<1>3. m[1] = t /\ \A i \in 2..Len(l) : m[i] = l[i]
  BY <1>1
<1> QED
  BY <1>1, <1>2, <1>3

(* Marking the head command as written, and writing it, keeps the list      *)
(* good.                                                                    *)
LEMMA WrittenGood ==
    ASSUME NEW l, NEW p, NEW S, NEW L, NEW n \in Nat, Good(l, p, S, n, L),
           l # <<>>, l[1].cindex + 1 \notin l[1].written,
           NEW t \in Task, t.id = l[1].id, t.cpvt = l[1].cpvt, t.cmds = l[1].cmds,
           t.cindex = l[1].cindex, t.written = l[1].written \cup {l[1].cindex + 1},
           NEW m, m = [l EXCEPT ![1] = t],
           NEW c, c = [id |-> l[1].id, no |-> l[1].cindex + 1]
    PROVE  Good(m, <<c>>, S \cup {c}, n, L)
<1>1. /\ l \in Seq(Task) /\ HeadFirst(l) /\ PortIs(l, p) /\ NamesFresh(l, n)
      /\ SentByHead(l, S, n) /\ Owned(l, L)
  BY DEF Good
<1>2. Len(l) \in Nat \ {0} /\ l[1] \in Task /\ l[1].cindex \in Nat
  BY <1>1, HeadFacts, TaskFacts
<1>3. /\ t.id = l[1].id /\ t.cpvt = l[1].cpvt /\ t.cmds = l[1].cmds
      /\ t.cindex = l[1].cindex /\ t.written = l[1].written \cup {l[1].cindex + 1}
  OBVIOUS
<1>4. /\ m \in Seq(Task) /\ Len(m) = Len(l) /\ m # <<>>
      /\ m[1] = t
      /\ \A i \in 2..Len(l) : m[i] = l[i]
  BY <1>1, HeadChanged
<1>5. ASSUME NEW i \in 1..Len(l)
      PROVE  m[i].id = l[i].id /\ m[i].cpvt = l[i].cpvt
  BY <1>2, <1>3, <1>4
<1>7. HeadFirst(m)
  <2>1. t.cindex < Len(t.cmds) /\ t.written \subseteq 1..(t.cindex + 1)
    BY <1>1, <1>2, <1>3 DEF HeadFirst
  <2>2. ASSUME NEW i \in 2..Len(l)
        PROVE  l[i].cindex < Len(l[i].cmds) /\ l[i].written \subseteq 1..0
    BY <1>1, <1>2 DEF HeadFirst
  <2> QED
    BY <1>2, <1>4, <2>1, <2>2 DEF HeadFirst
<1>8. PortIs(m, <<c>>)
  BY <1>3, <1>4 DEF PortIs
<1>9. NamesFresh(m, n)
  BY <1>1, <1>4, <1>5 DEF NamesFresh
<1>10. SentByHead(m, S \cup {c}, n)
  <2>1. c.id = l[1].id /\ c.no = l[1].cindex + 1 /\ c.id \in Nat \ {0} /\ c.id < n
    BY <1>1, <1>2, TaskFacts DEF NamesFresh
  <2>2. ASSUME NEW i \in 1..Len(m), c.id = m[i].id
        PROVE  i = 1 /\ c.no \in m[i].written
    BY <1>1, <1>2, <1>3, <1>4, <1>5, <2>1, <2>2 DEF NamesFresh
  <2>3. ASSUME NEW x \in S, NEW i \in 1..Len(m), x.id = m[i].id
        PROVE  i = 1 /\ x.no \in m[i].written
    BY <1>1, <1>3, <1>4, <1>5, <2>3 DEF SentByHead
  <2>4. \A x \in S : x.id \in 1..(n - 1)
    BY <1>1 DEF SentByHead
  <2> QED
    BY <2>1, <2>2, <2>3, <2>4, SMTT(30) DEF SentByHead
<1>11. Owned(m, L)
  BY <1>1, <1>4, <1>5 DEF Owned
<1> QED
  BY <1>4, <1>7, <1>8, <1>9, <1>10, <1>11 DEF Good

(* Going on to the next command of the head task.                           *)
LEMMA AdvancedGood ==
    ASSUME NEW l, NEW p, NEW S, NEW L, NEW n \in Nat, Good(l, p, S, n, L),
           l # <<>>, l[1].cindex + 1 < Len(l[1].cmds),
           NEW t \in Task, t.id = l[1].id, t.cpvt = l[1].cpvt, t.cmds = l[1].cmds,
           t.cindex = l[1].cindex + 1, t.written = l[1].written,
           NEW m, m = [l EXCEPT ![1] = t]
    PROVE  Good(m, <<>>, S, n, L)
<1>1. /\ l \in Seq(Task) /\ HeadFirst(l) /\ NamesFresh(l, n)
      /\ SentByHead(l, S, n) /\ Owned(l, L)
  BY DEF Good
<1>2. Len(l) \in Nat \ {0} /\ l[1] \in Task /\ l[1].cindex \in Nat
  BY <1>1, HeadFacts, TaskFacts
<1>3. /\ t.id = l[1].id /\ t.cpvt = l[1].cpvt /\ t.cmds = l[1].cmds
      /\ t.cindex = l[1].cindex + 1 /\ t.written = l[1].written
  OBVIOUS
<1>4. /\ m \in Seq(Task) /\ Len(m) = Len(l) /\ m # <<>>
      /\ m[1] = t
      /\ \A i \in 2..Len(l) : m[i] = l[i]
  BY <1>1, HeadChanged
<1>5. ASSUME NEW i \in 1..Len(l)
      PROVE  m[i].id = l[i].id /\ m[i].cpvt = l[i].cpvt /\ m[i].written = l[i].written
  BY <1>2, <1>3, <1>4
<1>6. l[1].written \subseteq 1..(l[1].cindex + 1)
  BY <1>1, <1>2 DEF HeadFirst
<1>7. HeadFirst(m)
  <2>1. t.cindex < Len(t.cmds) /\ t.written \subseteq 1..(t.cindex + 1)
    BY <1>2, <1>3, <1>6
  <2>2. ASSUME NEW i \in 2..Len(l)
        PROVE  l[i].cindex < Len(l[i].cmds) /\ l[i].written \subseteq 1..0
    BY <1>1, <1>2 DEF HeadFirst
  <2> QED
    BY <1>2, <1>4, <2>1, <2>2 DEF HeadFirst
<1>8. PortIs(m, <<>>)
  <2>1. t.cindex + 1 \notin t.written
    BY <1>2, <1>3, <1>6
  <2> QED
    BY <1>4, <2>1 DEF PortIs
<1>9. NamesFresh(m, n)
  BY <1>1, <1>4, <1>5 DEF NamesFresh
<1>10. SentByHead(m, S, n)
  BY <1>1, <1>4, <1>5 DEF SentByHead
<1>11. Owned(m, L)
  BY <1>1, <1>4, <1>5 DEF Owned
<1> QED
  BY <1>4, <1>7, <1>8, <1>9, <1>10, <1>11 DEF Good

(* Going on to the next task.                                               *)
LEMMA TailGood ==
    ASSUME NEW l, NEW p, NEW S, NEW L, NEW n \in Nat, Good(l, p, S, n, L), l # <<>>,
           NEW m \in Seq(Task), Len(m) = Len(l) - 1, \A i \in 1..Len(m) : m[i] = l[i + 1]
    PROVE  Good(m, <<>>, S, n, L)
<1>1. /\ l \in Seq(Task) /\ HeadFirst(l) /\ NamesFresh(l, n)
      /\ SentByHead(l, S, n) /\ Owned(l, L)
  BY DEF Good
<1>2. Len(l) \in Nat \ {0}
  BY <1>1
<1>3. ASSUME NEW i \in 1..Len(m)
      PROVE  i + 1 \in 2..Len(l) /\ i + 1 \in 1..Len(l) /\ m[i] = l[i + 1]
  BY <1>1, <1>2
<1>4. ASSUME NEW i \in 1..Len(m)
      PROVE  m[i].cindex < Len(m[i].cmds) /\ m[i].written = {}
  <2>1. l[i + 1].cindex < Len(l[i + 1].cmds) /\ l[i + 1].written \subseteq 1..0
    BY <1>1, <1>3 DEF HeadFirst
  <2> QED
    BY <1>3, <2>1
<1>5. HeadFirst(m)
  BY <1>4 DEF HeadFirst
<1>6. PortIs(m, <<>>)
  BY <1>2, <1>4 DEF PortIs
<1>7. NamesFresh(m, n)
  <2>1. \A i \in 1..Len(m) : m[i].id < n
    BY <1>1, <1>3 DEF NamesFresh
  <2>2. ASSUME NEW i \in 1..Len(m), NEW j \in 1..Len(m), m[i].id = m[j].id
        PROVE  i = j
    <3>1. i + 1 \in 1..Len(l) /\ j + 1 \in 1..Len(l)
      BY <1>3
    <3>2. l[i + 1].id = l[j + 1].id
      BY <1>3, <2>2
    <3>3. \A a, b \in 1..Len(l) : l[a].id = l[b].id => a = b
      BY <1>1 DEF NamesFresh
    <3>4. i + 1 = j + 1
      BY <3>1, <3>2, <3>3
    <3> QED
      BY <3>4
  <2> QED
    BY <2>1, <2>2 DEF NamesFresh
<1>8. SentByHead(m, S, n)
  <2>1. ASSUME NEW x \in S, NEW i \in 1..Len(m), x.id = m[i].id
        PROVE  FALSE
    <3>1. i + 1 = 1
      BY <1>1, <1>3, <2>1 DEF SentByHead
    <3> QED
      BY <1>2, <3>1
  <2>2. \A x \in S : x.id \in 1..(n - 1)
    BY <1>1 DEF SentByHead
  <2> QED
    BY <2>1, <2>2 DEF SentByHead
<1>9. Owned(m, L)
  BY <1>1, <1>3 DEF Owned
<1> QED
  BY <1>2, <1>5, <1>6, <1>7, <1>8, <1>9 DEF Good

(* Giving the tasks of a call to sys_chan, and releasing the call.          *)
LEMMA RelinkedGood ==
    ASSUME NEW l, NEW p, NEW S, NEW L, NEW n, Good(l, p, S, n, L), L \subseteq Cpvt,
           NEW c \in L, NEW m, m = Relinked(l, c)
    PROVE  Good(m, p, S, n, L \ {c})
<1>1. /\ l \in Seq(Task) /\ HeadFirst(l) /\ PortIs(l, p) /\ NamesFresh(l, n)
      /\ SentByHead(l, S, n) /\ Owned(l, L)
  BY DEF Good
<1>2. DOMAIN l = 1..Len(l) /\ Len(l) \in Nat
  BY <1>1
<1>3. ASSUME NEW i \in 1..Len(l)
      PROVE  /\ m[i] \in Task
             /\ m[i].id = l[i].id /\ m[i].cmds = l[i].cmds
             /\ m[i].cindex = l[i].cindex /\ m[i].written = l[i].written
             /\ m[i].cpvt \in (L \ {c}) \cup {SysChan}
  <2>1. l[i] \in Task /\ l[i].cpvt \in L \cup {SysChan}
    BY <1>1, <1>2 DEF Owned
  <2>2. CASE l[i].cpvt = c
    <3>1. m[i] = [l[i] EXCEPT !.cpvt = SysChan]
      BY <1>2, <2>2 DEF Relinked
    <3> QED
      BY <2>1, <3>1, SysAssumption DEF Task, Owner
  <2>3. CASE l[i].cpvt # c
    <3>1. m[i] = l[i]
      BY <1>2, <2>3 DEF Relinked
    <3> QED
      BY <2>1, <2>3, <3>1
  <2> QED
    BY <2>2, <2>3
<1>4. m \in Seq(Task) /\ Len(m) = Len(l)
  <2>1. m = [i \in 1..Len(l) |-> m[i]]
    BY <1>2 DEF Relinked
  <2> QED
    BY <1>2, <1>3, <2>1
<1>5. m # <<>> <=> l # <<>>
  BY <1>1, <1>4
<1>6. l # <<>> => 1 \in 1..Len(l)
  BY <1>1
<1>7. HeadFirst(m)
  BY <1>1, <1>3, <1>4 DEF HeadFirst
<1>8. PortIs(m, p)
  BY <1>1, <1>3, <1>5, <1>6 DEF PortIs
<1>9. NamesFresh(m, n)
  BY <1>1, <1>3, <1>4 DEF NamesFresh
<1>10. SentByHead(m, S, n)
  BY <1>1, <1>3, <1>4 DEF SentByHead
<1>11. Owned(m, L \ {c})
  BY <1>3, <1>4 DEF Owned
<1> QED
  BY <1>4, <1>7, <1>8, <1>9, <1>10, <1>11 DEF Good

(* The empty list: the initial queue, and the flushed one.                  *)
LEMMA EmptyGood ==
    ASSUME NEW S, NEW L, NEW n \in Nat, \A x \in S : x.id \in 1..(n - 1)
    PROVE  Good(<<>>, <<>>, S, n, L)
<1>1. Len(<<>>) = 0 /\ <<>> \in Seq(Task)
  OBVIOUS
<1> QED
  BY <1>1 DEF Good, HeadFirst, PortIs, NamesFresh, SentByHead, Owned

-----------------------------------------------------------------------------
(* The operators of the queue *)

(* An update of a field of the head, as an update of the head.              *)
LEMMA UpdateInside ==
    ASSUME NEW l
    PROVE  [l EXCEPT ![1].cindex = @ + 1]
              = [l EXCEPT ![1] = [l[1] EXCEPT !.cindex = @ + 1]]
  OBVIOUS

(* A task that goes on to its next command is a task.                       *)
LEMMA NextIndex ==
    ASSUME NEW u \in Task
    PROVE  LET t == [u EXCEPT !.cindex = @ + 1]
           IN  /\ t \in Task
               /\ t.id = u.id /\ t.cpvt = u.cpvt /\ t.cmds = u.cmds
               /\ t.cindex = u.cindex + 1 /\ t.written = u.written
  BY DEF Task

(* Going on to the next command, as an update of the list.                  *)
LEMMA AdvancedIs ==
    ASSUME NEW r, Queue(r), r.list \in Seq(Task), r.list # <<>>
    PROVE  \E t \in Task :
              /\ t.id = r.list[1].id /\ t.cpvt = r.list[1].cpvt
              /\ t.cmds = r.list[1].cmds /\ t.cindex = r.list[1].cindex + 1
              /\ t.written = r.list[1].written
              /\ Advanced(r) = [list     |-> [r.list EXCEPT ![1] = t],
                                at_tasks |-> r.at_tasks,
                                at_cmds  |-> r.at_cmds - 1]
<1> DEFINE l == r.list
           t == [l[1] EXCEPT !.cindex = @ + 1]
<1>1. l[1] \in Task /\ l[1].cindex \in Nat
  BY TaskFacts
<1>2. /\ t \in Task
      /\ t.id = l[1].id /\ t.cpvt = l[1].cpvt /\ t.cmds = l[1].cmds
      /\ t.cindex = l[1].cindex + 1 /\ t.written = l[1].written
  BY ONLY <1>1, NextIndex
<1>3. [l EXCEPT ![1].cindex = @ + 1] = [l EXCEPT ![1] = t]
  BY ONLY UpdateInside
<1>4. Advanced(r) = [list     |-> [l EXCEPT ![1].cindex = @ + 1],
                     at_tasks |-> r.at_tasks,
                     at_cmds  |-> r.at_cmds - 1]
  BY DEF Advanced
<1> QED
  BY <1>2, <1>3, <1>4

(* at_queue_remove_cmd leaves a good queue whose head is not written.       *)
LEMMA CmdRemovedGood ==
    ASSUME NEW r, NEW p, NEW S, NEW L, NEW n \in Nat, Good(r.list, p, S, n, L),
           Queue(r), r.list # <<>>, NEW res
    PROVE  Queue(CmdRemoved(r, res)) /\ Good(CmdRemoved(r, res).list, <<>>, S, n, L)
<1> DEFINE l == r.list
<1>1. l \in Seq(Task) /\ HeadFirst(l) /\ Len(l) \in Nat \ {0}
  BY DEF Good
<1>2. r.at_tasks = Len(l)
  BY DEF Queue
<1>3. PICK t \in Task :
        /\ t.id = l[1].id /\ t.cpvt = l[1].cpvt
        /\ t.cmds = l[1].cmds /\ t.cindex = l[1].cindex + 1
        /\ t.written = l[1].written
        /\ Advanced(r) = [list     |-> [l EXCEPT ![1] = t],
                          at_tasks |-> r.at_tasks,
                          at_cmds  |-> r.at_cmds - 1]
  BY <1>1, AdvancedIs
<1> DEFINE a == [l EXCEPT ![1] = t]
<1>4. /\ a \in Seq(Task) /\ Len(a) = Len(l) /\ a # <<>>
      /\ \A i \in 2..Len(l) : a[i] = l[i]
  BY <1>1, HeadChanged
<1>5. Queue(Advanced(r)) /\ Advanced(r).list = a
  BY <1>2, <1>3, <1>4 DEF Queue
<1>6. /\ Tail(a) \in Seq(Task) /\ Len(Tail(a)) = Len(l) - 1
      /\ \A i \in 1..Len(Tail(a)) : Tail(a)[i] = l[i + 1]
  BY <1>1, <1>4
<1>7. Queue(Removed(Advanced(r))) /\ Removed(Advanced(r)).list = Tail(a)
  BY <1>1, <1>2, <1>3, <1>5, <1>6 DEF Queue, Removed
<1>8. Good(Tail(a), <<>>, S, n, L)
  <2> HIDE DEF a
  <2> QED
    BY <1>1, <1>6, TailGood
<1>9. l[1].cindex + 1 < Len(l[1].cmds) => Good(a, <<>>, S, n, L)
  <2> SUFFICES ASSUME l[1].cindex + 1 < Len(l[1].cmds)
               PROVE  Good(a, <<>>, S, n, L)
    OBVIOUS
  <2>1. a = [l EXCEPT ![1] = t]
    OBVIOUS
  <2>2. Good(l, p, S, n, L) /\ l # <<>>
    OBVIOUS
  <2> HIDE DEF a, l
  <2> QED
    BY <1>3, <2>1, <2>2, AdvancedGood
<1>10. CASE CmdRemoved(r, res) = Removed(Advanced(r))
  BY <1>7, <1>8, <1>10
<1>11. CASE HeadNo(r) < Len(HeadTask(r).cmds) /\ CmdRemoved(r, res) = Advanced(r)
  <2>1. l[1].cindex + 1 < Len(l[1].cmds)
    BY <1>1, <1>11 DEF HeadNo, HeadTask
  <2> QED
    BY <1>5, <1>9, <1>11, <2>1
<1>12. HeadNo(r) \in Nat /\ Len(HeadTask(r).cmds) \in Nat
  BY <1>1, HeadFacts, TaskFacts DEF HeadNo, HeadTask
<1> QED
  BY <1>10, <1>11, <1>12 DEF CmdRemoved

(* Marking the head command as written, as an update of the list.           *)
LEMMA MarkWrittenIs ==
    ASSUME NEW r, r.list \in Seq(Task), r.list # <<>>
    PROVE  \E t \in Task :
              /\ t.id = r.list[1].id /\ t.cpvt = r.list[1].cpvt
              /\ t.cmds = r.list[1].cmds /\ t.cindex = r.list[1].cindex
              /\ t.written = r.list[1].written \cup {r.list[1].cindex + 1}
              /\ MarkWritten(r) = [list     |-> [r.list EXCEPT ![1] = t],
                                   at_tasks |-> r.at_tasks,
                                   at_cmds  |-> r.at_cmds]
<1> DEFINE l == r.list
           t == [l[1] EXCEPT !.written = @ \cup {l[1].cindex + 1}]
<1>1. l[1] \in Task /\ l[1].cindex \in Nat /\ Head(l) = l[1]
  BY TaskFacts
<1>2. /\ t \in Task
      /\ t.id = l[1].id /\ t.cpvt = l[1].cpvt /\ t.cmds = l[1].cmds
      /\ t.cindex = l[1].cindex /\ t.written = l[1].written \cup {l[1].cindex + 1}
  BY <1>1 DEF Task
<1>3. HeadNo(r) = l[1].cindex + 1
  BY <1>1 DEF HeadNo, HeadTask
<1>4. [l EXCEPT ![1].written = @ \cup {HeadNo(r)}] = [l EXCEPT ![1] = t]
  BY <1>3
<1>5. MarkWritten(r) = [list     |-> [l EXCEPT ![1].written = @ \cup {HeadNo(r)}],
                        at_tasks |-> r.at_tasks,
                        at_cmds  |-> r.at_cmds]
  BY DEF MarkWritten
<1> QED
  BY <1>2, <1>4, <1>5

(* at_queue_run keeps the queue good, whichever way it goes.                *)
LEMMA RunGood ==
    ASSUME NEW r, Queue(r), NEW n \in Nat, NEW L,
           Good(r.list, port, sent, n, L), sent \subseteq Ref,
           RunIdle(r) \/ RunWrite(r) \/ RunFail(r)
    PROVE  Queue(q') /\ Good(q'.list, port', sent', n, L) /\ sent' \subseteq Ref
<1> DEFINE l == r.list
<1>1. l \in Seq(Task) /\ HeadFirst(l) /\ PortIs(l, port)
  BY DEF Good
<1>2. l # <<>> => /\ HeadNo(r) = l[1].cindex + 1
                  /\ HeadRef(r) = [id |-> l[1].id, no |-> l[1].cindex + 1]
                  /\ HeadRef(r) \in Ref
                  /\ HeadWritten(r) <=> l[1].cindex + 1 \in l[1].written
  BY <1>1, HeadFacts DEF HeadNo, HeadTask, HeadRef, HeadWritten
<1>3. CASE RunIdle(r)
  BY <1>3 DEF RunIdle
<1>4. CASE RunWrite(r)
  <2>1. /\ l # <<>> /\ l[1].cindex + 1 \notin l[1].written
        /\ q' = MarkWritten(r)
        /\ port' = Append(port, HeadRef(r)) /\ sent' = sent \cup {HeadRef(r)}
    BY <1>2, <1>4 DEF RunWrite
  <2>2. PICK t \in Task :
          /\ t.id = l[1].id /\ t.cpvt = l[1].cpvt
          /\ t.cmds = l[1].cmds /\ t.cindex = l[1].cindex
          /\ t.written = l[1].written \cup {l[1].cindex + 1}
          /\ MarkWritten(r) = [list     |-> [l EXCEPT ![1] = t],
                               at_tasks |-> r.at_tasks,
                               at_cmds  |-> r.at_cmds]
    BY <1>1, <2>1, MarkWrittenIs
  <2> DEFINE m == [l EXCEPT ![1] = t]
             c == HeadRef(r)
  <2>3. Len(m) = Len(l)
    BY <1>1
  <2>4. Queue(q') /\ q'.list = m
    BY <2>1, <2>2, <2>3 DEF Queue
  <2>5. port = <<>> /\ Good(m, <<c>>, sent \cup {c}, n, L)
    <3>1. c = [id |-> l[1].id, no |-> l[1].cindex + 1] /\ m = [l EXCEPT ![1] = t]
      BY <1>2, <2>1
    <3>2. Good(l, port, sent, n, L)
      OBVIOUS
    <3>3. l # <<>> /\ l[1].cindex + 1 \notin l[1].written
      BY <2>1
    <3>4. /\ t.id = l[1].id /\ t.cpvt = l[1].cpvt
          /\ t.cmds = l[1].cmds /\ t.cindex = l[1].cindex
          /\ t.written = l[1].written \cup {l[1].cindex + 1}
      BY <2>2
    <3>5. port = <<>>
      BY <1>1, <3>3 DEF PortIs
    <3> HIDE DEF c, m, l
    <3>6. Good(m, <<c>>, sent \cup {c}, n, L)
      BY <3>1, <3>2, <3>3, <3>4, WrittenGood
    <3> QED
      BY <3>5, <3>6
  <2>6. port' = <<c>> /\ sent' = sent \cup {c}
    BY <2>1, <2>5
  <2>7. sent' \subseteq Ref
    BY <1>2, <2>1
  <2> QED
    BY <2>4, <2>5, <2>6, <2>7
<1>5. CASE RunFail(r)
  <2>1. /\ l # <<>> /\ port = <<>> /\ q' = CmdRemoved(r, "WRITE_FAILED")
        /\ port' = port /\ sent' = sent
    BY <1>1, <1>2, <1>5 DEF RunFail, PortIs
  <2>2. Queue(q') /\ Good(q'.list, <<>>, sent, n, L)
    BY <2>1, CmdRemovedGood
  <2> QED
    BY <2>1, <2>2
<1> QED
  BY <1>3, <1>4, <1>5

-----------------------------------------------------------------------------
(* The steps of the system *)

(* Creating a task and running the queue: what at_queue_insert, a ping and  *)
(* the start of a connection have in common.                                *)
LEMMA InsertedGood ==
    ASSUME IInv, NEW c \in live \cup {SysChan}, NEW s \in Script, NEW prio \in BOOLEAN,
           Inserted(c, s, prio)
    PROVE  /\ Queue(q') /\ Good(q'.list, port', sent', nextId', live)
           /\ nextId' \in 1..(MaxTasks + 1) /\ sent' \subseteq Ref /\ refused' \subseteq Id
<1> DEFINE t == NewTask(c, s)
           r == Added(q, t, prio)
           front == prio /\ q.list # <<>>
<1>1. /\ Good(q.list, port, sent, nextId, live) /\ Queue(q)
      /\ sent \subseteq Ref /\ refused \subseteq Id /\ live \subseteq Cpvt
  BY DEF IInv
<1>2. nextId \in Id /\ nextId' = nextId + 1 /\ nextId' \in 1..(MaxTasks + 1) /\ nextId' \in Nat
  BY BoundAssumption DEF IInv, Inserted, Id
<1>3. /\ t \in Task /\ t.id = nextId /\ t.cpvt \in live \cup {SysChan}
      /\ t.cindex = 0 /\ t.written = {}
  BY <1>1, <1>2 DEF NewTask, Task, Owner
<1>4. /\ front => r.list = <<Head(q.list), t>> \o Tail(q.list)
      /\ ~front => r.list = Append(q.list, t)
      /\ r = [list |-> r.list, at_tasks |-> r.at_tasks, at_cmds |-> r.at_cmds]
      /\ r.at_tasks = q.at_tasks + 1
  BY DEF Added
<1>5. front \in BOOLEAN /\ (front => q.list # <<>>)
  OBVIOUS
<1>6. (RunIdle(r) \/ RunWrite(r) \/ RunFail(r)) /\ refused' \subseteq Id
  <2>1. \/ (RunIdle(r) \/ RunWrite(r)) /\ refused' = refused
        \/ RunFail(r) /\ refused' = refused \cup {nextId}
    BY DEF Inserted
  <2> QED
    BY <1>1, <1>2, <2>1
<1> HIDE DEF t, r, front
<1>7. Good(r.list, port, sent, nextId + 1, live)
  BY <1>1, <1>2, <1>3, <1>4, <1>5, AddedGood
<1>8. Queue(r)
  <2>1. Len(r.list) = Len(q.list) + 1
    <3>1. q.list \in Seq(Task)
      BY <1>1 DEF Good
    <3>2. CASE front
      BY <1>3, <1>4, <1>5, <3>1, <3>2, BehindHead
    <3>3. CASE ~front
      BY <1>3, <1>4, <3>1, <3>3
    <3> QED
      BY <3>2, <3>3
  <2>2. q.at_tasks = Len(q.list)
    BY <1>1 DEF Queue
  <2> QED
    BY <1>4, <2>1, <2>2 DEF Queue
<1>9. Good(r.list, port, sent, nextId', live)
  BY <1>2, <1>7
<1> QED
  BY <1>1, <1>2, <1>6, <1>8, <1>9, RunGood

(* A name that is used up without a task.                                   *)
LEMMA NameSkipped ==
    ASSUME NEW l, NEW p, NEW S, NEW L, NEW n \in Nat, Good(l, p, S, n, L)
    PROVE  Good(l, p, S, n + 1, L)
<1>1. NamesFresh(l, n) /\ SentByHead(l, S, n) /\ l \in Seq(Task)
  BY DEF Good
<1>2. ASSUME NEW i \in 1..Len(l) PROVE l[i].id < n + 1
  <2>1. l[i].id < n /\ l[i] \in Task
    BY <1>1 DEF NamesFresh
  <2> QED
    BY <2>1, TaskFacts
<1>3. NamesFresh(l, n + 1)
  BY <1>1, <1>2 DEF NamesFresh
<1>4. \A x \in S : x.id \in 1..((n + 1) - 1)
  BY <1>1 DEF SentByHead
<1>5. SentByHead(l, S, n + 1)
  BY <1>1, <1>4 DEF SentByHead
<1> QED
  BY <1>3, <1>5 DEF Good

(* The empty queue is good.                                                 *)
LEMMA InitIInv == ASSUME Init PROVE IInv
<1>1. /\ q = [list |-> <<>>, at_tasks |-> 0, at_cmds |-> 0]
      /\ nextId = 1 /\ live = {} /\ mon = "stopped"
      /\ port = <<>> /\ sent = {} /\ refused = {}
  BY DEF Init
<1>2. Queue(q) /\ q.list = <<>>
  BY <1>1 DEF Queue
<1>3. Good(<<>>, <<>>, {}, 1, {})
  BY EmptyGood
<1> QED
  BY <1>1, <1>2, <1>3, BoundAssumption DEF IInv

(* Every step keeps IInv.                                                   *)
LEMMA NextIInv == ASSUME IInv, [Next]_vars PROVE IInv'
<1>1. /\ Good(q.list, port, sent, nextId, live) /\ Queue(q)
      /\ nextId \in 1..(MaxTasks + 1) /\ live \subseteq Cpvt
      /\ mon \in {"idle", "run", "broken", "stopped"}
      /\ sent \subseteq Ref /\ refused \subseteq Id
  BY DEF IInv
<1>2. nextId \in Nat
  BY <1>1, BoundAssumption
<1>3. CASE UNCHANGED vars
  BY <1>1, <1>3 DEF vars, IInv
<1>4. ASSUME NEW c \in live \cup {SysChan}, NEW s \in Script, NEW prio \in BOOLEAN,
             Insert(c, s, prio)
      PROVE  IInv'
  <2>1. Inserted(c, s, prio) /\ live' = live /\ mon' = mon
    BY <1>4 DEF Insert
  <2> QED
    BY <1>1, <2>1, InsertedGood DEF IInv
<1>5. CASE InsertFails
  <2>1. /\ nextId <= MaxTasks /\ nextId' = nextId + 1 /\ refused' = refused \cup {nextId}
        /\ live' = live /\ mon' = mon
        /\ RunIdle(q) \/ RunWrite(q) \/ RunFail(q)
    BY <1>5 DEF InsertFails, InsertNoMemory
  <2>2. Good(q.list, port, sent, nextId', live) /\ nextId' \in Nat
    BY <1>1, <1>2, <2>1, NameSkipped
  <2>3. Queue(q') /\ Good(q'.list, port', sent', nextId', live) /\ sent' \subseteq Ref
    BY <1>1, <2>1, <2>2, RunGood
  <2>4. nextId' \in 1..(MaxTasks + 1) /\ refused' \subseteq Id
    BY <1>1, <2>1, BoundAssumption DEF Id
  <2> QED
    BY <1>1, <2>1, <2>3, <2>4 DEF IInv
<1>6. ASSUME NEW c \in Cpvt, Alloc(c) PROVE IInv'
  <2>1. /\ live' = live \cup {c}
        /\ UNCHANGED <<q, nextId, mon, port, sent, refused>>
    BY <1>6 DEF Alloc
  <2>2. Good(q.list, port, sent, nextId, live')
    BY <1>1, <2>1 DEF Good, Owned
  <2> QED
    BY <1>1, <2>1, <2>2 DEF IInv
<1>7. ASSUME NEW c \in Cpvt, Free(c) PROVE IInv'
  <2>1. /\ c \in live /\ live' = live \ {c}
        /\ q' = [q EXCEPT !.list = Relinked(q.list, c)]
        /\ UNCHANGED <<nextId, mon, port, sent, refused>>
    BY <1>7 DEF Free
  <2>2. q.list \in Seq(Task) /\ q.at_tasks = Len(q.list)
    BY <1>1 DEF Good, Queue
  <2>3. PICK z, x, y : q = [list |-> z, at_tasks |-> x, at_cmds |-> y]
    BY <1>1 DEF Queue
  <2>4. /\ q' = [list |-> Relinked(q.list, c), at_tasks |-> x, at_cmds |-> y]
        /\ q'.list = Relinked(q.list, c) /\ q'.at_tasks = q.at_tasks
    BY <2>1, <2>3
  <2>5. Len(Relinked(q.list, c)) = Len(q.list)
    BY <2>2 DEF Relinked
  <2>6. Queue(q')
    BY <2>2, <2>4, <2>5 DEF Queue
  <2>7. Good(q'.list, port, sent, nextId, live')
    BY <1>1, <2>1, <2>4, RelinkedGood
  <2> QED
    BY <1>1, <2>1, <2>6, <2>7 DEF IInv
<1>8. ASSUME NEW res \in Res, Response(res) PROVE IInv'
  <2>1. /\ port # <<>> /\ q.list # <<>> /\ port' = Tail(port)
        /\ q' = CmdRemoved(q, res)
        /\ mon' \in {"run", "broken"}
        /\ UNCHANGED <<nextId, live, sent, refused>>
    BY <1>8 DEF Response
  <2>2. port' = <<>>
    <3>1. PICK x : port = <<x>>
      BY <1>1, <2>1 DEF Good, PortIs
    <3> QED
      BY <2>1, <3>1
  <2>3. Queue(q') /\ Good(q'.list, <<>>, sent, nextId, live)
    BY <1>1, <1>2, <2>1, CmdRemovedGood
  <2> QED
    BY <1>1, <2>1, <2>2, <2>3 DEF IInv
<1>9. CASE MonitorRun
  <2>1. /\ RunIdle(q) \/ RunWrite(q) \/ RunFail(q)
        /\ mon' \in {"idle", "broken"}
        /\ UNCHANGED <<nextId, live, refused>>
    BY <1>9 DEF MonitorRun
  <2>2. Queue(q') /\ Good(q'.list, port', sent', nextId, live) /\ sent' \subseteq Ref
    BY <1>1, <1>2, <2>1, RunGood
  <2> QED
    BY <1>1, <2>1, <2>2 DEF IInv
<1>10. CASE Unsolicited \/ TimeoutBusy \/ Lost
  BY <1>1, <1>10 DEF Unsolicited, TimeoutBusy, Lost, IInv
<1>11. CASE TimeoutPing
  <2>1. Inserted(SysChan, Ping, TRUE) /\ live' = live /\ mon' = mon
    BY <1>11 DEF TimeoutPing
  <2> QED
    BY <1>1, <2>1, ScriptAssumption, InsertedGood DEF IInv
<1>12. CASE Cleanup
  <2>1. /\ mon' = "stopped" /\ live' = {} /\ q' = Flushed(q) /\ port' = <<>>
        /\ UNCHANGED <<nextId, sent, refused>>
    BY <1>12 DEF Cleanup
  <2>2. q.list \in Seq(Task) /\ q.at_tasks = Len(q.list)
    BY <1>1 DEF Good, Queue
  <2>3. /\ q' = [list |-> q'.list, at_tasks |-> q'.at_tasks, at_cmds |-> q'.at_cmds]
        /\ q'.list = <<>> /\ q'.at_tasks = 0
    BY <2>1, <2>2 DEF Flushed
  <2>4. \A x \in sent : x.id \in 1..(nextId - 1)
    BY <1>1 DEF Good, SentByHead
  <2>5. Queue(q') /\ Good(q'.list, <<>>, sent, nextId, {})
    BY <1>2, <2>3, <2>4, EmptyGood DEF Queue
  <2> QED
    BY <1>1, <2>1, <2>5 DEF IInv
<1>13. CASE Start
  <2>1. Inserted(SysChan, InitScript, FALSE) /\ live' = live /\ mon' \in {"idle", "broken"}
    BY <1>13 DEF Start
  <2> QED
    BY <1>1, <2>1, ScriptAssumption, InsertedGood DEF IInv
<1> QED
  BY <1>3, <1>4, <1>5, <1>6, <1>7, <1>8, <1>9, <1>10, <1>11, <1>12, <1>13
  DEF Next, Users, Monitor

-----------------------------------------------------------------------------
(* What IInv says of the properties *)

LEMMA IInvTypeOK == ASSUME IInv PROVE TypeOK
<1>1. /\ q.list \in Seq(Task) /\ PortIs(q.list, port) /\ HeadFirst(q.list)
      /\ q = [list |-> q.list, at_tasks |-> q.at_tasks, at_cmds |-> q.at_cmds]
  BY DEF IInv, Good, Queue
<1>2. port \in Seq(Ref)
  <2>1. CASE q.list # <<>> /\ q.list[1].cindex + 1 \in q.list[1].written
    <3> DEFINE c == [id |-> q.list[1].id, no |-> q.list[1].cindex + 1]
    <3>1. c \in Ref
      BY <1>1, <2>1, HeadFacts
    <3>2. port = <<c>>
      BY <1>1, <2>1 DEF PortIs
    <3> HIDE DEF c
    <3> QED
      BY <3>1, <3>2
  <2>2. CASE ~(q.list # <<>> /\ q.list[1].cindex + 1 \in q.list[1].written)
    BY <1>1, <2>2 DEF PortIs
  <2> QED
    BY <2>1, <2>2
<1> QED
  BY <1>1, <1>2 DEF IInv, TypeOK

LEMMA IInvSafety == ASSUME IInv PROVE OnlyHeadWritten /\ PortMatchesHead /\ OwnersLive
<1>1. /\ q.list \in Seq(Task) /\ PortIs(q.list, port) /\ HeadFirst(q.list)
      /\ Owned(q.list, live)
  BY DEF IInv, Good
<1>2. OnlyHeadWritten
  BY <1>1 DEF HeadFirst, OnlyHeadWritten
<1>3. OwnersLive
  BY <1>1 DEF Owned, OwnersLive
<1>4. PortMatchesHead
  <2>1. q.list # <<>> => Head(q.list) = q.list[1]
    BY <1>1
  <2> QED
    BY <1>1, <2>1 DEF PortIs, PortMatchesHead, HeadWritten, HeadRef, HeadNo, HeadTask
<1> QED
  BY <1>2, <1>3, <1>4

LEMMA Invariance == Spec => []IInv
<1>1. Init => IInv
  BY InitIInv
<1>2. IInv /\ [Next]_vars => IInv'
  BY NextIInv
<1> QED
  BY <1>1, <1>2, PTL DEF Spec

(* The variables have their types, whatever the threads and the modem do.   *)
THEOREM TypeCorrect == Spec => []TypeOK
<1>1. IInv => TypeOK
  BY IInvTypeOK
<1> QED
  BY <1>1, Invariance, PTL

(* Commands are written strictly one after another.                         *)
THEOREM OneAfterAnother == Spec => []OnlyHeadWritten
<1>1. IInv => OnlyHeadWritten
  BY IInvSafety
<1> QED
  BY <1>1, Invariance, PTL

(* The monitor credits a result to the command the modem has answered.      *)
THEOREM ResultsMatch == Spec => []PortMatchesHead
<1>1. IInv => PortMatchesHead
  BY IInvSafety
<1> QED
  BY <1>1, Invariance, PTL

(* No queued task points to a call descriptor that has been released.       *)
THEOREM NoDanglingOwner == Spec => []OwnersLive
<1>1. IInv => OwnersLive
  BY IInvSafety
<1> QED
  BY <1>1, Invariance, PTL

-----------------------------------------------------------------------------
(* The queue implements a half-duplex port *)

(* at_queue_run sends the next command of the head task, or nothing.        *)
LEMMA RunRefines ==
    ASSUME NEW r, NEW n \in Nat, NEW L, Good(r.list, port, sent, n, L),
           RunIdle(r) \/ RunWrite(r) \/ RunFail(r)
    PROVE  HDP!Next \/ UNCHANGED <<port, sent>>
<1> DEFINE l == r.list
<1>1. l \in Seq(Task) /\ HeadFirst(l) /\ PortIs(l, port) /\ SentByHead(l, sent, n)
  BY DEF Good
<1>2. CASE RunWrite(r)
  <2> DEFINE c == HeadRef(r)
  <2>1. /\ l # <<>> /\ ~HeadWritten(r)
        /\ port' = Append(port, c) /\ sent' = sent \cup {c}
    BY <1>2 DEF RunWrite
  <2>2. Len(l) \in Nat \ {0} /\ l[1] \in Task /\ l[1].cindex \in Nat
    BY <1>1, <2>1, HeadFacts, TaskFacts
  <2>3. /\ c = [id |-> l[1].id, no |-> l[1].cindex + 1]
        /\ c \in Ref
        /\ l[1].cindex + 1 \notin l[1].written
    BY <1>1, <2>1, HeadFacts DEF HeadNo, HeadTask, HeadRef, HeadWritten
  <2>4. port = <<>>
    BY <1>1, <2>3 DEF PortIs
  <2>5. ASSUME NEW x \in sent, x.id = c.id PROVE x.no < c.no
    <3>1. x.no \in l[1].written
      BY <1>1, <2>2, <2>3, <2>5 DEF SentByHead
    <3>2. l[1].written \subseteq 1..(l[1].cindex + 1)
      BY <1>1, <2>2 DEF HeadFirst
    <3> QED
      BY <2>2, <2>3, <3>1, <3>2
  <2>6. port' = <<c>> /\ port' # <<>> /\ Head(port') = c
    BY <2>1, <2>4
  <2> HIDE DEF c
  <2>7. HDP!Send(c)
    BY <2>1, <2>4, <2>5, <2>6 DEF HDP!Send
  <2> QED
    BY <2>3, <2>7 DEF HDP!Next
<1>3. CASE RunIdle(r) \/ RunFail(r)
  BY <1>3 DEF RunIdle, RunFail
<1> QED
  BY <1>2, <1>3

(* The same, for a task that has just been added.                           *)
LEMMA InsertedRefines ==
    ASSUME IInv, NEW c \in live \cup {SysChan}, NEW s \in Script, NEW prio \in BOOLEAN,
           Inserted(c, s, prio)
    PROVE  HDP!Next \/ UNCHANGED <<port, sent>>
<1> DEFINE t == NewTask(c, s)
           r == Added(q, t, prio)
           front == prio /\ q.list # <<>>
<1>1. Good(q.list, port, sent, nextId, live) /\ live \subseteq Cpvt
  BY DEF IInv
<1>2. nextId \in Id /\ nextId + 1 \in Nat
  BY BoundAssumption DEF IInv, Inserted, Id
<1>3. /\ t \in Task /\ t.id = nextId /\ t.cpvt \in live \cup {SysChan}
      /\ t.cindex = 0 /\ t.written = {}
  BY <1>1, <1>2 DEF NewTask, Task, Owner
<1>4. /\ front => r.list = <<Head(q.list), t>> \o Tail(q.list)
      /\ ~front => r.list = Append(q.list, t)
  BY DEF Added
<1>5. front \in BOOLEAN /\ (front => q.list # <<>>)
  OBVIOUS
<1>6. RunIdle(r) \/ RunWrite(r) \/ RunFail(r)
  BY DEF Inserted
<1> HIDE DEF t, r, front
<1>7. Good(r.list, port, sent, nextId + 1, live)
  BY <1>1, <1>2, <1>3, <1>4, <1>5, AddedGood
<1> QED
  BY <1>2, <1>6, <1>7, RunRefines

(* Taking a result from the port, or closing it, ends the exchange.         *)
LEMMA EmptiedRefines ==
    ASSUME IInv, port' = <<>>, sent' = sent
    PROVE  HDP!Next \/ UNCHANGED <<port, sent>>
<1>1. port \in Seq(Ref)
  BY IInvTypeOK DEF TypeOK
<1>2. CASE port # <<>>
  <2>1. Head(port) \in Ref
    BY <1>1, <1>2
  <2>2. Head(port) # NoCmd
    BY <2>1, NoCmdAssumption DEF Ref, Id
  <2> QED
    BY <1>2, <2>2 DEF HDP!Next, HDP!Finish
<1> QED
  BY <1>2

LEMMA NextRefines == ASSUME IInv, [Next]_vars PROVE HDP!Next \/ UNCHANGED <<port, sent>>
<1>1. Good(q.list, port, sent, nextId, live) /\ nextId \in Nat
  BY BoundAssumption DEF IInv
<1>2. CASE UNCHANGED vars
  BY <1>2 DEF vars
<1>3. ASSUME NEW c \in live \cup {SysChan}, NEW s \in Script, NEW prio \in BOOLEAN,
             Insert(c, s, prio)
      PROVE  HDP!Next \/ UNCHANGED <<port, sent>>
  BY <1>3, InsertedRefines DEF Insert
<1>4. CASE InsertFails
  BY <1>1, <1>4, RunRefines DEF InsertFails, InsertNoMemory
<1>5. ASSUME NEW c \in Cpvt, Alloc(c) \/ Free(c) PROVE UNCHANGED <<port, sent>>
  BY <1>5 DEF Alloc, Free
<1>6. ASSUME NEW res \in Res, Response(res)
      PROVE  HDP!Next \/ UNCHANGED <<port, sent>>
  <2>1. port # <<>> /\ port' = Tail(port) /\ sent' = sent
    BY <1>6 DEF Response
  <2>2. PICK x : port = <<x>>
    BY <1>1, <2>1 DEF Good, PortIs
  <2>3. port' = <<>>
    BY <2>1, <2>2
  <2> QED
    BY <2>1, <2>3, EmptiedRefines
<1>7. CASE MonitorRun
  BY <1>1, <1>7, RunRefines DEF MonitorRun
<1>8. CASE Unsolicited \/ TimeoutBusy \/ Lost
  BY <1>8 DEF Unsolicited, TimeoutBusy, Lost
<1>9. CASE TimeoutPing
  BY <1>9, ScriptAssumption, InsertedRefines DEF TimeoutPing
<1>10. CASE Cleanup
  BY <1>10, EmptiedRefines DEF Cleanup
<1>11. CASE Start
  BY <1>11, ScriptAssumption, InsertedRefines DEF Start
<1> QED
  BY <1>2, <1>3, <1>4, <1>5, <1>6, <1>7, <1>8, <1>9, <1>10, <1>11
  DEF Next, Users, Monitor

(* The queue drives the port as a half-duplex line: one command at a time,  *)
(* none twice, and those of a task in their order.                          *)
THEOREM QueueRefinesPort == Spec => HalfDuplex
<1>1. Init => HDP!Init
  BY DEF Init, HDP!Init
<1>2. IInv /\ [Next]_vars => [HDP!Next]_(HDP!vars)
  <2> SUFFICES ASSUME IInv, [Next]_vars PROVE [HDP!Next]_(HDP!vars)
    OBVIOUS
  <2>1. HDP!Next \/ UNCHANGED <<port, sent>>
    BY NextRefines
  <2>2. UNCHANGED <<port, sent>> => UNCHANGED HDP!vars
    BY DEF HDP!vars
  <2> QED
    BY <2>1, <2>2
<1> QED
  BY <1>1, <1>2, Invariance, PTL DEF Spec, HalfDuplex, HDP!Spec

-----------------------------------------------------------------------------
(* A command exchange is not interrupted *)

(* If the head of the list l is not the head of m, it is not in m at all.   *)
KeepsHead(l, m) ==
    l # <<>> /\ m # <<>> /\ m[1].id # l[1].id
        => \A i \in 1..Len(m) : m[i].id # l[1].id

(* A queue that goes on to the next command keeps its head or drops it.     *)
LEMMA CmdRemovedKeepsHead ==
    ASSUME NEW r, NEW p, NEW S, NEW L, NEW n \in Nat, Good(r.list, p, S, n, L),
           Queue(r), r.list # <<>>, NEW res
    PROVE  KeepsHead(r.list, CmdRemoved(r, res).list)
<1> DEFINE l == r.list
<1>1. l \in Seq(Task) /\ NamesFresh(l, n) /\ Len(l) \in Nat \ {0}
  BY DEF Good
<1>2. PICK t \in Task :
        /\ t.id = l[1].id
        /\ Advanced(r) = [list     |-> [l EXCEPT ![1] = t],
                          at_tasks |-> r.at_tasks,
                          at_cmds  |-> r.at_cmds - 1]
  BY <1>1, AdvancedIs
<1> DEFINE a == [l EXCEPT ![1] = t]
<1>3. /\ a \in Seq(Task) /\ Len(a) = Len(l) /\ a # <<>>
      /\ a[1] = t
      /\ \A i \in 2..Len(l) : a[i] = l[i]
  BY <1>1, HeadChanged
<1>4. KeepsHead(l, a)
  BY <1>2, <1>3 DEF KeepsHead
<1>5. /\ Len(Tail(a)) = Len(l) - 1
      /\ \A i \in 1..Len(Tail(a)) : Tail(a)[i] = l[i + 1]
  BY <1>1, <1>3
<1>6. KeepsHead(l, Tail(a))
  <2>1. ASSUME NEW i \in 1..Len(Tail(a)) PROVE Tail(a)[i].id # l[1].id
    <3>1. i + 1 \in 1..Len(l) /\ 1 \in 1..Len(l) /\ i + 1 # 1
      BY <1>1, <1>5
    <3>2. l[i + 1].id # l[1].id
      BY <1>1, <3>1 DEF NamesFresh
    <3> QED
      BY <1>5, <3>2
  <2> QED
    BY <2>1 DEF KeepsHead
<1>7. Advanced(r).list = a /\ Removed(Advanced(r)).list = Tail(a)
  BY <1>2 DEF Removed
<1> QED
  BY <1>4, <1>6, <1>7 DEF CmdRemoved

(* So does a queue that is run.                                             *)
LEMMA RunKeepsHead ==
    ASSUME NEW r, Queue(r), NEW n \in Nat, NEW L, Good(r.list, port, sent, n, L),
           RunIdle(r) \/ RunWrite(r) \/ RunFail(r)
    PROVE  KeepsHead(r.list, q'.list)
<1> DEFINE l == r.list
<1>1. l \in Seq(Task)
  BY DEF Good
<1>2. CASE RunIdle(r)
  BY <1>2 DEF RunIdle, KeepsHead
<1>3. CASE RunWrite(r)
  <2>1. l # <<>> /\ q' = MarkWritten(r)
    BY <1>3 DEF RunWrite
  <2>2. PICK t \in Task :
          /\ t.id = l[1].id
          /\ MarkWritten(r) = [list     |-> [l EXCEPT ![1] = t],
                               at_tasks |-> r.at_tasks,
                               at_cmds  |-> r.at_cmds]
    BY <1>1, <2>1, MarkWrittenIs
  <2>3. q'.list = [l EXCEPT ![1] = t]
    BY <2>1, <2>2
  <2>4. q'.list[1] = t
    BY <1>1, <2>1, <2>3, HeadChanged
  <2> QED
    BY <2>2, <2>4 DEF KeepsHead
<1>4. CASE RunFail(r)
  BY <1>4, CmdRemovedKeepsHead DEF RunFail
<1> QED
  BY <1>2, <1>3, <1>4

(* And one to which a task is added first.                                  *)
LEMMA InsertedKeepsHead ==
    ASSUME IInv, NEW c \in live \cup {SysChan}, NEW s \in Script, NEW prio \in BOOLEAN,
           Inserted(c, s, prio)
    PROVE  KeepsHead(q.list, q'.list)
<1> DEFINE t == NewTask(c, s)
           r == Added(q, t, prio)
           front == prio /\ q.list # <<>>
<1>1. /\ Good(q.list, port, sent, nextId, live) /\ live \subseteq Cpvt
      /\ q.list \in Seq(Task) /\ q.at_tasks = Len(q.list)
  BY DEF IInv, Good, Queue
<1>2. nextId \in Id /\ nextId + 1 \in Nat
  BY BoundAssumption DEF IInv, Inserted, Id
<1>3. /\ t \in Task /\ t.id = nextId /\ t.cpvt \in live \cup {SysChan}
      /\ t.cindex = 0 /\ t.written = {}
  BY <1>1, <1>2 DEF NewTask, Task, Owner
<1>4. /\ front => r.list = <<Head(q.list), t>> \o Tail(q.list)
      /\ ~front => r.list = Append(q.list, t)
      /\ r = [list |-> r.list, at_tasks |-> r.at_tasks, at_cmds |-> r.at_cmds]
      /\ r.at_tasks = q.at_tasks + 1
  BY DEF Added
<1>5. front \in BOOLEAN /\ (front => q.list # <<>>)
  OBVIOUS
<1>6. RunIdle(r) \/ RunWrite(r) \/ RunFail(r)
  BY DEF Inserted
<1> HIDE DEF t, r, front
<1>7. Good(r.list, port, sent, nextId + 1, live)
  BY <1>1, <1>2, <1>3, <1>4, <1>5, AddedGood
<1>8. Len(r.list) = Len(q.list) + 1 /\ (q.list # <<>> => r.list[1] = q.list[1])
  <2>1. CASE front
    BY <1>1, <1>3, <1>4, <1>5, <2>1, BehindHead
  <2>2. CASE ~front
    BY <1>1, <1>3, <1>4, <2>2
  <2> QED
    BY <2>1, <2>2
<1>9. Queue(r)
  BY <1>1, <1>4, <1>8 DEF Queue
<1>10. KeepsHead(r.list, q'.list)
  BY <1>2, <1>6, <1>7, <1>9, RunKeepsHead
<1>11. q.list # <<>> => r.list # <<>>
  BY <1>1, <1>8
<1> QED
  BY <1>8, <1>10, <1>11 DEF KeepsHead

LEMMA NextKeepsHead == ASSUME IInv, [Next]_vars PROVE KeepsHead(q.list, q'.list)
<1>1. /\ Good(q.list, port, sent, nextId, live) /\ nextId \in Nat /\ Queue(q)
      /\ q.list \in Seq(Task) /\ live \subseteq Cpvt
  BY BoundAssumption DEF IInv, Good
<1>2. CASE q' = q
  BY <1>2 DEF KeepsHead
<1>3. ASSUME NEW c \in live \cup {SysChan}, NEW s \in Script, NEW prio \in BOOLEAN,
             Inserted(c, s, prio)
      PROVE  KeepsHead(q.list, q'.list)
  BY <1>3, InsertedKeepsHead
<1>4. CASE RunIdle(q) \/ RunWrite(q) \/ RunFail(q)
  BY <1>1, <1>4, RunKeepsHead
<1>5. ASSUME NEW c \in Cpvt, Free(c) PROVE KeepsHead(q.list, q'.list)
  <2>1. q' = [q EXCEPT !.list = Relinked(q.list, c)] /\ c \in live
    BY <1>5 DEF Free
  <2>2. PICK z, x, y : q = [list |-> z, at_tasks |-> x, at_cmds |-> y]
    BY <1>1 DEF Queue
  <2>3. q'.list = Relinked(q.list, c)
    BY <2>1, <2>2
  <2>4. ASSUME q.list # <<>> PROVE q'.list[1].id = q.list[1].id
    <3>1. 1 \in DOMAIN q.list /\ q.list[1] \in Task
      BY <1>1, <2>4
    <3>2. q'.list[1] = q.list[1] \/ q'.list[1] = [q.list[1] EXCEPT !.cpvt = SysChan]
      BY <2>3, <3>1 DEF Relinked
    <3> QED
      BY <3>1, <3>2 DEF Task
  <2> QED
    BY <2>4 DEF KeepsHead
<1>6. ASSUME NEW res \in Res, Response(res) PROVE KeepsHead(q.list, q'.list)
  BY <1>1, <1>6, CmdRemovedKeepsHead DEF Response
<1>7. CASE Cleanup
  BY <1>7 DEF Cleanup, Flushed, KeepsHead
<1>8. /\ (InsertFails \/ MonitorRun) => RunIdle(q) \/ RunWrite(q) \/ RunFail(q)
      /\ \A c \in Cpvt : Alloc(c) => q' = q
      /\ (Unsolicited \/ TimeoutBusy \/ Lost \/ UNCHANGED vars) => q' = q
      /\ TimeoutPing => Inserted(SysChan, Ping, TRUE)
      /\ Start => Inserted(SysChan, InitScript, FALSE)
      /\ \A c, s, prio : Insert(c, s, prio) => Inserted(c, s, prio)
  BY DEF InsertFails, InsertNoMemory, MonitorRun, Alloc, Unsolicited, TimeoutBusy,
         Lost, vars, TimeoutPing, Start, Insert
<1> QED
  BY <1>2, <1>3, <1>4, <1>5, <1>6, <1>7, <1>8, ScriptAssumption
  DEF Next, Users, Monitor

(* A task that has reached the head keeps its place until it leaves.        *)
THEOREM HeadNotInterrupted == Spec => HeadStays
<1> DEFINE A == q.list # <<>> /\ q'.list # <<>> /\ HeadTask(q').id # HeadTask(q).id
                  => \A i \in 1..Len(q'.list) : q'.list[i].id # HeadTask(q).id
<1>1. IInv /\ [Next]_vars => [A]_vars
  <2> SUFFICES ASSUME IInv, [Next]_vars PROVE A
    OBVIOUS
  <2>1. KeepsHead(q.list, q'.list)
    BY NextKeepsHead
  <2>2. IInv'
    BY NextIInv
  <2>3. q.list \in Seq(Task) /\ q'.list \in Seq(Task)
    BY <2>2 DEF IInv, Good
  <2>4. /\ q.list # <<>> => HeadTask(q) = q.list[1]
        /\ q'.list # <<>> => HeadTask(q') = q'.list[1]
    BY <2>3 DEF HeadTask
  <2> QED
    BY <2>1, <2>4 DEF KeepsHead
<1> QED
  BY <1>1, Invariance, PTL DEF Spec, HeadStays
-----------------------------------------------------------------------------
(* The counters.  f adds up what is left to do of the tasks of l.           *)

Todo(t) == Len(t.cmds) - t.cindex

Adds(f, l) ==
    /\ f \in [0..Len(l) -> Int]
    /\ f[0] = 0
    /\ \A i \in 1..Len(l) : f[i] = f[i - 1] + Todo(l[i])

SumIs(l, n) == \E f : Adds(f, l) /\ f[Len(l)] = n

LEMMA TodoInt == \A t \in Task : Todo(t) \in Int
  BY TaskFacts DEF Todo

LEMMA SumEmpty == SumIs(<<>>, 0)
<1> DEFINE f == [i \in 0..0 |-> 0]
<1>1. Len(<<>>) = 0
  OBVIOUS
<1>2. Adds(f, <<>>) /\ f[Len(<<>>)] = 0
  BY <1>1 DEF Adds
<1> QED
  BY <1>2 DEF SumIs

(* A task e at place k of l makes the list m.                               *)
LEMMA SumSpliced ==
    ASSUME NEW l \in Seq(Task), NEW m \in Seq(Task), NEW n \in Int, SumIs(l, n),
           NEW e \in Task, NEW k \in 1..(Len(l) + 1),
           Len(m) = Len(l) + 1, m[k] = e,
           \A i \in 1..(k - 1) : m[i] = l[i],
           \A i \in (k + 1)..Len(m) : m[i] = l[i - 1]
    PROVE  SumIs(m, n + Todo(e))
<1>1. PICK f : Adds(f, l) /\ f[Len(l)] = n
  BY DEF SumIs
<1>2. f \in [0..Len(l) -> Int] /\ f[0] = 0 /\ \A i \in 1..Len(l) : f[i] = f[i - 1] + Todo(l[i])
  BY <1>1 DEF Adds
<1> DEFINE g == [i \in 0..Len(m) |-> IF i < k THEN f[i] ELSE f[i - 1] + Todo(e)]
<1>3. Len(l) \in Nat /\ Len(m) \in Nat /\ k \in Nat /\ k <= Len(m) /\ 0 < k /\ Todo(e) \in Int
  BY TodoInt
<1>4. \A i \in 0..Len(m) : g[i] = IF i < k THEN f[i] ELSE f[i - 1] + Todo(e)
  OBVIOUS
<1>5. \A i \in 0..Len(m) : /\ i < k => i \in 0..Len(l)
                           /\ ~(i < k) => i - 1 \in 0..Len(l)
  BY <1>3
<1>6. g \in [0..Len(m) -> Int]
  BY <1>2, <1>3, <1>5
<1>7. g[0] = 0 /\ g[Len(m)] = n + Todo(e)
  <2>1. ~(Len(m) < k) /\ Len(m) - 1 = Len(l) /\ Len(m) \in 0..Len(m) /\ 0 \in 0..Len(m)
    BY <1>3
  <2> HIDE DEF g
  <2> QED
    BY <1>1, <1>2, <1>3, <1>4, <2>1
<1>8. ASSUME NEW i \in 1..Len(m)
      PROVE  g[i] = g[i - 1] + Todo(m[i])
  <2>1. i \in 0..Len(m) /\ i - 1 \in 0..Len(m) /\ i \in Nat /\ 0 < i
    BY <1>3
  <2>2. CASE i < k
    <3>1. i - 1 < k /\ i \in 1..Len(l) /\ m[i] = l[i]
      BY <1>3, <2>1, <2>2
    <3>2. g[i] = f[i] /\ g[i - 1] = f[i - 1]
      BY <1>4, <2>1, <2>2, <3>1
    <3> HIDE DEF g
    <3> QED
      BY <1>2, <3>1, <3>2
  <2>3. CASE i = k
    <3>1. i - 1 < k /\ ~(i < k)
      BY <1>3, <2>1, <2>3
    <3>2. g[i] = f[i - 1] + Todo(e) /\ g[i - 1] = f[i - 1]
      BY <1>4, <2>1, <3>1
    <3> HIDE DEF g
    <3> QED
      BY <2>3, <3>2
  <2>4. CASE k < i
    <3>1. ~(i < k) /\ ~(i - 1 < k) /\ i \in (k + 1)..Len(m) /\ i - 1 \in 1..Len(l)
      BY <1>3, <2>1, <2>4
    <3>2. g[i] = f[i - 1] + Todo(e) /\ g[i - 1] = f[(i - 1) - 1] + Todo(e)
      BY <1>4, <2>1, <3>1
    <3>3. f[i - 1] = f[(i - 1) - 1] + Todo(l[i - 1]) /\ m[i] = l[i - 1]
      BY <1>2, <3>1
    <3>4. f[(i - 1) - 1] \in Int /\ Todo(l[i - 1]) \in Int
      <4>1. (i - 1) - 1 \in 0..Len(l) /\ l[i - 1] \in Task
        BY <1>3, <3>1
      <4> QED
        BY <1>2, <4>1, TodoInt
    <3> HIDE DEF g
    <3> QED
      BY <1>3, <3>2, <3>3, <3>4
  <2> QED
    BY <1>3, <2>1, <2>2, <2>3, <2>4
<1> HIDE DEF g
<1> QED
  BY <1>6, <1>7, <1>8 DEF SumIs, Adds

(* Another task at the head.                                                *)
LEMMA SumHead ==
    ASSUME NEW l \in Seq(Task), l # <<>>, NEW m \in Seq(Task), NEW n \in Int, SumIs(l, n),
           NEW t \in Task, Len(m) = Len(l), m[1] = t, \A i \in 2..Len(l) : m[i] = l[i]
    PROVE  SumIs(m, n + Todo(t) - Todo(l[1]))
<1>1. PICK f : Adds(f, l) /\ f[Len(l)] = n
  BY DEF SumIs
<1>2. f \in [0..Len(l) -> Int] /\ f[0] = 0 /\ \A i \in 1..Len(l) : f[i] = f[i - 1] + Todo(l[i])
  BY <1>1 DEF Adds
<1>3. Len(l) \in Nat \ {0} /\ l[1] \in Task
  OBVIOUS
<1>4. Todo(t) \in Int /\ Todo(l[1]) \in Int
  BY <1>3, TodoInt
<1> DEFINE d == Todo(t) - Todo(l[1])
           g == [i \in 0..Len(m) |-> IF i = 0 THEN 0 ELSE f[i] + d]
<1>5. d \in Int
  BY <1>4
<1>6. \A i \in 0..Len(l) : f[i] \in Int
  BY <1>2
<1>7. g \in [0..Len(m) -> Int] /\ g[0] = 0 /\ g[Len(m)] = n + d
  <2> HIDE DEF d
  <2> QED
    BY <1>1, <1>3, <1>5, <1>6
<1>8. ASSUME NEW i \in 1..Len(m)
      PROVE  g[i] = g[i - 1] + Todo(m[i])
  <2>1. i \in 1..Len(l) /\ i - 1 \in 0..Len(l) /\ i \in 0..Len(l)
    BY <1>3
  <2>2. g[i] = f[i] + d /\ g[i - 1] = IF i = 1 THEN 0 ELSE f[i - 1] + d
    <3> HIDE DEF d
    <3> QED
      BY <2>1
  <2>3. f[i] = f[i - 1] + Todo(l[i]) /\ Todo(l[i]) \in Int /\ f[i - 1] \in Int
    <3>1. l[i] \in Task
      BY <2>1
    <3> QED
      BY <1>2, <2>1, <3>1, TodoInt
  <2>4. CASE i = 1
    <3>1. f[1] = Todo(l[1])
      BY <1>2, <2>3, <2>4
    <3> HIDE DEF g
    <3> QED
      BY <1>4, <2>2, <2>4, <3>1
  <2>5. CASE i # 1
    <3>1. m[i] = l[i]
      BY <2>1, <2>5
    <3> HIDE DEF g, d
    <3> QED
      BY <1>5, <2>2, <2>3, <2>5, <3>1
  <2> QED
    BY <2>4, <2>5
<1>9. n + d = n + Todo(t) - Todo(l[1])
  BY <1>4
<1> HIDE DEF g, d
<1> QED
  BY <1>7, <1>8, <1>9 DEF SumIs, Adds

(* The list without its head.                                               *)
LEMMA SumTail ==
    ASSUME NEW l \in Seq(Task), l # <<>>, NEW m \in Seq(Task), NEW n \in Int, SumIs(l, n),
           Len(m) = Len(l) - 1, \A i \in 1..Len(m) : m[i] = l[i + 1]
    PROVE  SumIs(m, n - Todo(l[1]))
<1>1. PICK f : Adds(f, l) /\ f[Len(l)] = n
  BY DEF SumIs
<1>2. f \in [0..Len(l) -> Int] /\ f[0] = 0 /\ \A i \in 1..Len(l) : f[i] = f[i - 1] + Todo(l[i])
  BY <1>1 DEF Adds
<1>3. Len(l) \in Nat \ {0} /\ l[1] \in Task /\ Len(m) \in Nat
  OBVIOUS
<1> DEFINE d == Todo(l[1])
           g == [i \in 0..Len(m) |-> f[i + 1] - d]
<1>4. d \in Int
  BY <1>3, TodoInt
<1>5. \A i \in 0..Len(l) : f[i] \in Int
  BY <1>2
<1>6. f[1] = d
  BY <1>2, <1>3, <1>4
<1>7. g \in [0..Len(m) -> Int] /\ g[0] = 0 /\ g[Len(m)] = n - d
  <2>1. \A i \in 0..Len(m) : i + 1 \in 0..Len(l)
    BY <1>3
  <2> HIDE DEF d
  <2> QED
    BY <1>1, <1>3, <1>4, <1>5, <1>6, <2>1
<1>8. ASSUME NEW i \in 1..Len(m)
      PROVE  g[i] = g[i - 1] + Todo(m[i])
  <2>1. i + 1 \in 1..Len(l) /\ i \in 0..Len(l) /\ (i + 1) - 1 = i /\ (i - 1) + 1 = i
        /\ i \in 0..Len(m) /\ i - 1 \in 0..Len(m)
    BY <1>3
  <2>2. g[i] = f[i + 1] - d /\ g[i - 1] = f[i] - d
    <3> HIDE DEF d
    <3> QED
      BY <2>1
  <2>3. f[i + 1] = f[i] + Todo(l[i + 1]) /\ Todo(l[i + 1]) \in Int /\ f[i] \in Int
    <3>1. l[i + 1] \in Task
      BY <2>1
    <3> QED
      BY <1>2, <2>1, <3>1, TodoInt
  <2> HIDE DEF g, d
  <2> QED
    BY <1>4, <2>2, <2>3
<1>9. n - d = n - Todo(l[1])
  OBVIOUS
<1> HIDE DEF g, d
<1> QED
  BY <1>7, <1>8, <1>9 DEF SumIs, Adds

(* A list with as much to do in each place.                                 *)
LEMMA SumSame ==
    ASSUME NEW l, NEW m, NEW n, SumIs(l, n), Len(m) = Len(l),
           \A i \in 1..Len(l) : Todo(m[i]) = Todo(l[i])
    PROVE  SumIs(m, n)
<1>1. PICK f : Adds(f, l) /\ f[Len(l)] = n
  BY DEF SumIs
<1>2. Adds(f, m) /\ f[Len(m)] = n
  BY <1>1 DEF Adds
<1> QED
  BY <1>2 DEF SumIs

(* A set of numbers has a least one.                                        *)
LEMMA LeastExists ==
    ASSUME NEW n \in Nat, NEW S \in SUBSET (1..n), S # {}
    PROVE  \E i \in S : \A j \in S : i <= j
<1> DEFINE B == 1..n
           Below(i) == {j \in S : j < i}
           T == {Below(i) : i \in S}
<1>1. IsFiniteSet(B)
  BY FS_Interval
<1>2. FiniteSubsetsOf(B) = SUBSET B
  <2> HIDE DEF B
  <2> QED
    BY <1>1, FS_FiniteSubsetsOfFinite
<1>3. T \subseteq FiniteSubsetsOf(B) /\ T # {}
  <2>1. \A i \in S : Below(i) \in SUBSET B
    OBVIOUS
  <2>2. T \subseteq SUBSET B /\ T # {}
    <3> HIDE DEF B, Below
    <3> QED
      BY <2>1
  <2> HIDE DEF B, T
  <2> QED
    BY <1>2, <2>2
<1>4. IsWellFoundedOn(StrictSubsetOrdering(B), FiniteSubsetsOf(B))
  BY FS_StrictSubsetOrderingWellFounded
<1>5. PICK x \in T : \A y \in T : <<y, x>> \notin StrictSubsetOrdering(B)
  <2> HIDE DEF T, B
  <2> QED
    BY <1>3, <1>4, WFMin
<1>6. PICK i \in S : x = Below(i)
  BY <1>5
<1>7. ASSUME NEW j \in S, j < i
      PROVE  FALSE
  <2>1. Below(j) \subseteq Below(i) /\ j \in Below(i) /\ j \notin Below(j)
    <3>1. \A k \in S : k \in Int
      OBVIOUS
    <3>2. \A k \in S : k < j => k < i
      BY <1>7, <3>1
    <3>3. ~(j < j)
      BY <3>1
    <3> QED
      BY <1>7, <3>2, <3>3
  <2>2. <<Below(j), Below(i)>> \in StrictSubsetOrdering(B)
    <3>1. Below(i) \in SUBSET B /\ Below(j) \in SUBSET B
      OBVIOUS
    <3> HIDE DEF Below, B
    <3> QED
      BY <2>1, <3>1 DEF StrictSubsetOrdering
  <2> QED
    BY <2>2, <1>5, <1>6
<1> QED
  BY <1>7

(* What at_queue_remove would count off adds up to what is left to do.       *)
LEMMA CmdsLeftIs ==
    ASSUME NEW l \in Seq(Task), NEW n \in Int, SumIs(l, n)
    PROVE  CmdsLeft(l) = n
<1>1. PICK f : Adds(f, l) /\ f[Len(l)] = n
  BY DEF SumIs
<1>2. f \in [0..Len(l) -> Int] /\ f[0] = 0 /\ \A i \in 1..Len(l) : f[i] = f[i - 1] + Todo(l[i])
  BY <1>1 DEF Adds
<1>3. Len(l) \in Nat
  OBVIOUS
<1> DEFINE Rec(h) == [i \in 0..Len(l) |->
                        IF i = 0 THEN 0 ELSE h[i - 1] + Len(l[i].cmds) - l[i].cindex]
           g == CHOOSE h : h = Rec(h)
<1>4. ASSUME NEW h, NEW i \in 1..Len(l), h[i - 1] = f[i - 1]
      PROVE  h[i - 1] + Len(l[i].cmds) - l[i].cindex = f[i]
  <2>1. l[i] \in Task /\ i - 1 \in 0..Len(l)
    BY <1>3
  <2>2. Len(l[i].cmds) \in Int /\ l[i].cindex \in Int /\ f[i - 1] \in Int
    BY <1>2, <2>1, TaskFacts
  <2> QED
    BY <1>2, <1>4, <2>2 DEF Todo
<1>5. f = Rec(f)
  <2>1. \A i \in 0..Len(l) : f[i] = IF i = 0 THEN 0 ELSE f[i - 1] + Len(l[i].cmds) - l[i].cindex
    <3>1. \A i \in 0..Len(l) : i = 0 \/ i \in 1..Len(l)
      BY <1>3
    <3> QED
      BY <1>2, <1>4, <3>1
  <2> QED
    BY <1>2, <2>1
<1>6. g = Rec(g)
  <2> HIDE DEF Rec
  <2> QED
    BY <1>5
<1>7. CmdsLeft(l) = g[Len(l)]
  BY DEF CmdsLeft
<1>8. \A i \in 0..Len(l) : g[i] = IF i = 0 THEN 0 ELSE g[i - 1] + Len(l[i].cmds) - l[i].cindex
  <2> HIDE DEF g
  <2> QED
    BY <1>6
<1> DEFINE S == {i \in 1..Len(l) : g[i] # f[i]}
<1>9. g[0] = f[0]
  <2> HIDE DEF g
  <2> QED
    BY <1>2, <1>3, <1>8
<1> HIDE DEF g
<1>10. S = {}
  <2> SUFFICES ASSUME S # {} PROVE FALSE
    OBVIOUS
  <2>1. S \in SUBSET (1..Len(l))
    OBVIOUS
  <2>2. PICK i \in S : \A j \in S : i <= j
    <3> HIDE DEF S
    <3> QED
      BY <1>3, <2>1, LeastExists
  <2>3. i \in 1..Len(l) /\ g[i] # f[i]
    OBVIOUS
  <2>4. g[i - 1] = f[i - 1]
    <3>1. CASE i = 1
      BY <1>9, <3>1
    <3>2. CASE i # 1
      <4>1. i - 1 \in 1..Len(l) /\ ~(i <= i - 1)
        BY <1>3, <2>3, <3>2
      <4> QED
        BY <2>2, <4>1
    <3> QED
      BY <3>1, <3>2
  <2>5. g[i] = g[i - 1] + Len(l[i].cmds) - l[i].cindex
    <3>1. i \in 0..Len(l) /\ i # 0
      BY <1>3, <2>3
    <3> QED
      BY <1>8, <3>1
  <2> QED
    BY <1>4, <2>3, <2>4, <2>5
<1>11. g[Len(l)] = f[Len(l)]
  BY <1>3, <1>9, <1>10
<1> QED
  BY <1>1, <1>7, <1>11

Counted(r) == r.at_cmds \in Int /\ SumIs(r.list, r.at_cmds)

(* Adding a task, behind the head or at the end.                            *)
LEMMA AddedCounted ==
    ASSUME NEW r, r.list \in Seq(Task), Counted(r), NEW t \in Task, t.cindex = 0,
           NEW prio \in BOOLEAN
    PROVE  Counted(Added(r, t, prio)) /\ Added(r, t, prio).list \in Seq(Task)
<1> DEFINE l == r.list
           m == Added(r, t, prio).list
<1>1. Todo(t) = Len(t.cmds) /\ Todo(t) \in Int
  BY TaskFacts DEF Todo
<1>2. Added(r, t, prio).at_cmds = r.at_cmds + Todo(t)
  BY <1>1 DEF Added
<1>3. CASE prio /\ l # <<>>
  <2>1. m = <<Head(l), t>> \o Tail(l)
    BY <1>3 DEF Added
  <2>2. /\ m \in Seq(Task) /\ Len(m) = Len(l) + 1 /\ m[1] = l[1] /\ m[2] = t
        /\ \A i \in 3..Len(m) : m[i] = l[i - 1]
    <3> HIDE DEF m
    <3> QED
      BY <1>3, <2>1, BehindHead
  <2>3. 2 \in 1..(Len(l) + 1) /\ \A i \in 1..(2 - 1) : m[i] = l[i]
    <3>1. Len(l) \in Nat \ {0} /\ \A i \in 1..(2 - 1) : i = 1
      BY <1>3
    <3> HIDE DEF m
    <3> QED
      BY <2>2, <3>1
  <2>4. \A i \in (2 + 1)..Len(m) : m[i] = l[i - 1]
    BY <2>2
  <2>5. SumIs(m, r.at_cmds + Todo(t))
    <3> HIDE DEF m
    <3> QED
      BY <2>2, <2>3, <2>4, SumSpliced DEF Counted
  <2> QED
    BY <1>1, <1>2, <2>2, <2>5 DEF Counted
<1>4. CASE ~(prio /\ l # <<>>)
  <2>1. m = Append(l, t)
    BY <1>4 DEF Added
  <2>2. /\ m \in Seq(Task) /\ Len(m) = Len(l) + 1 /\ m[Len(l) + 1] = t
        /\ \A i \in 1..((Len(l) + 1) - 1) : m[i] = l[i]
        /\ \A i \in ((Len(l) + 1) + 1)..Len(m) : m[i] = l[i - 1]
        /\ Len(l) + 1 \in 1..(Len(l) + 1)
    BY <2>1
  <2>3. SumIs(m, r.at_cmds + Todo(t))
    <3> HIDE DEF m
    <3> QED
      BY <2>2, SumSpliced DEF Counted
  <2> QED
    BY <1>1, <1>2, <2>2, <2>3 DEF Counted
<1> QED
  BY <1>3, <1>4

(* The end of a command, with or without the rest of its task.              *)
LEMMA CmdRemovedCounted ==
    ASSUME NEW r, Queue(r), r.list \in Seq(Task), r.list # <<>>, Counted(r), NEW res
    PROVE  Counted(CmdRemoved(r, res))
<1> DEFINE l == r.list
<1>1. PICK t \in Task :
        /\ t.id = l[1].id /\ t.cpvt = l[1].cpvt
        /\ t.cmds = l[1].cmds /\ t.cindex = l[1].cindex + 1
        /\ t.written = l[1].written
        /\ Advanced(r) = [list     |-> [l EXCEPT ![1] = t],
                          at_tasks |-> r.at_tasks,
                          at_cmds  |-> r.at_cmds - 1]
  BY AdvancedIs
<1> DEFINE a == [l EXCEPT ![1] = t]
<1>2. /\ a \in Seq(Task) /\ Len(a) = Len(l) /\ a # <<>> /\ a[1] = t
      /\ \A i \in 2..Len(l) : a[i] = l[i]
  BY HeadChanged
<1>3. r.at_cmds \in Int /\ SumIs(l, r.at_cmds) /\ l[1] \in Task /\ Len(l) \in Nat \ {0}
  BY DEF Counted
<1>4. Todo(t) \in Int /\ Todo(l[1]) \in Int /\ Todo(t) = Todo(l[1]) - 1
  <2>1. Len(l[1].cmds) \in Int /\ l[1].cindex \in Int
    BY <1>3, TaskFacts
  <2> QED
    BY <1>1, <2>1 DEF Todo
<1>5. SumIs(a, r.at_cmds - 1)
  <2>1. SumIs(a, r.at_cmds + Todo(t) - Todo(l[1]))
    <3> HIDE DEF a
    <3> QED
      BY <1>2, <1>3, SumHead
  <2>2. r.at_cmds + Todo(t) - Todo(l[1]) = r.at_cmds - 1
    BY <1>3, <1>4
  <2> QED
    BY <2>1, <2>2
<1>6. Counted(Advanced(r))
  BY <1>1, <1>3, <1>5 DEF Counted
<1>7. Counted(Removed(Advanced(r)))
  <2>1. /\ Tail(a) \in Seq(Task) /\ Len(Tail(a)) = Len(a) - 1
        /\ \A i \in 1..Len(Tail(a)) : Tail(a)[i] = a[i + 1]
    <3> HIDE DEF a
    <3> QED
      BY <1>2
  <2>2. SumIs(Tail(a), (r.at_cmds - 1) - Todo(t))
    <3>1. r.at_cmds - 1 \in Int
      BY <1>3
    <3> HIDE DEF a
    <3> QED
      BY <1>2, <1>5, <2>1, <3>1, SumTail
  <2>3. Head(a) = t
    <3> HIDE DEF a
    <3> QED
      BY <1>2
  <2>4. /\ Removed(Advanced(r)).list = Tail(a)
        /\ Removed(Advanced(r)).at_cmds = (r.at_cmds - 1) - Todo(t)
    <3> HIDE DEF a
    <3> QED
      BY <1>1, <2>3 DEF Removed, HeadTask, Todo, a
  <2>5. (r.at_cmds - 1) - Todo(t) \in Int
    BY <1>3, <1>4
  <2> QED
    BY <2>2, <2>4, <2>5 DEF Counted
<1> QED
  BY <1>6, <1>7 DEF CmdRemoved

(* at_queue_run, whichever way it goes.                                     *)
LEMMA RunCounted ==
    ASSUME NEW r, Queue(r), r.list \in Seq(Task), Counted(r),
           RunIdle(r) \/ RunWrite(r) \/ RunFail(r)
    PROVE  Counted(q')
<1>1. CASE RunIdle(r)
  BY <1>1 DEF RunIdle
<1>2. CASE RunWrite(r)
  <2>1. r.list # <<>> /\ q' = MarkWritten(r)
    BY <1>2 DEF RunWrite
  <2>2. PICK t \in Task :
          /\ t.cmds = r.list[1].cmds /\ t.cindex = r.list[1].cindex
          /\ MarkWritten(r) = [list     |-> [r.list EXCEPT ![1] = t],
                               at_tasks |-> r.at_tasks,
                               at_cmds  |-> r.at_cmds]
    BY <2>1, MarkWrittenIs
  <2> DEFINE a == [r.list EXCEPT ![1] = t]
  <2>3. Len(a) = Len(r.list) /\ a[1] = t /\ \A i \in 2..Len(r.list) : a[i] = r.list[i]
    BY <2>1, HeadChanged
  <2>4. \A i \in 1..Len(r.list) : Todo(a[i]) = Todo(r.list[i])
    <3>1. Todo(t) = Todo(r.list[1])
      BY <2>2 DEF Todo
    <3>2. \A i \in 1..Len(r.list) : i = 1 \/ i \in 2..Len(r.list)
      OBVIOUS
    <3> HIDE DEF a
    <3> QED
      BY <2>3, <3>1, <3>2
  <2>5. SumIs(a, r.at_cmds)
    <3> HIDE DEF a
    <3> QED
      BY <2>3, <2>4, SumSame DEF Counted
  <2> QED
    BY <2>1, <2>2, <2>5 DEF Counted
<1>3. CASE RunFail(r)
  BY <1>3, CmdRemovedCounted DEF RunFail
<1> QED
  BY <1>1, <1>2, <1>3

LEMMA InsertedCounted ==
    ASSUME IInv, Counted(q), NEW c \in live \cup {SysChan}, NEW s \in Script,
           NEW prio \in BOOLEAN, Inserted(c, s, prio)
    PROVE  Counted(q')
<1> DEFINE t == NewTask(c, s)
           r == Added(q, t, prio)
<1>1. q.list \in Seq(Task) /\ Queue(q) /\ nextId \in Id /\ live \subseteq Cpvt
  BY BoundAssumption DEF IInv, Good, Inserted, Id
<1>2. t \in Task /\ t.cindex = 0
  BY <1>1 DEF NewTask, Task, Owner
<1>3. Counted(r) /\ r.list \in Seq(Task)
  <2> HIDE DEF t
  <2> QED
    BY <1>1, <1>2, AddedCounted
<1>4. RunIdle(r) \/ RunWrite(r) \/ RunFail(r)
  BY DEF Inserted
<1>5. Queue(r)
  <2>1. q.at_tasks = Len(q.list)
    BY <1>1 DEF Queue
  <2>2. Len(r.list) = Len(q.list) + 1
    <3> HIDE DEF t
    <3>1. CASE prio /\ q.list # <<>>
      <4>1. r.list = <<Head(q.list), t>> \o Tail(q.list)
        BY <3>1 DEF Added
      <4> HIDE DEF r
      <4> QED
        BY <1>1, <1>2, <3>1, <4>1, BehindHead
    <3>2. CASE ~(prio /\ q.list # <<>>)
      BY <1>1, <1>2, <3>2 DEF Added
    <3> QED
      BY <3>1, <3>2
  <2> HIDE DEF t
  <2> QED
    BY <2>1, <2>2 DEF Added, Queue
<1> HIDE DEF r
<1> QED
  BY <1>3, <1>4, <1>5, RunCounted

LEMMA NextCounted == ASSUME IInv, Counted(q), [Next]_vars PROVE Counted(q')
<1>1. q.list \in Seq(Task) /\ Queue(q)
  BY DEF IInv, Good
<1>2. ASSUME NEW c \in live \cup {SysChan}, NEW s \in Script, NEW prio \in BOOLEAN,
             Insert(c, s, prio)
      PROVE  Counted(q')
  BY <1>2, InsertedCounted DEF Insert
<1>3. CASE InsertFails
  BY <1>1, <1>3, RunCounted DEF InsertFails, InsertNoMemory
<1>4. ASSUME NEW c \in Cpvt, Free(c)
      PROVE  Counted(q')
  <2>1. q' = [q EXCEPT !.list = Relinked(q.list, c)]
    BY <1>4 DEF Free
  <2>2. PICK z, x, y : q = [list |-> z, at_tasks |-> x, at_cmds |-> y]
    BY <1>1 DEF Queue
  <2>3. q'.list = Relinked(q.list, c) /\ q'.at_cmds = q.at_cmds
    BY <2>1, <2>2
  <2>4. Len(Relinked(q.list, c)) = Len(q.list)
    BY <1>1 DEF Relinked
  <2>5. \A i \in 1..Len(q.list) : Todo(Relinked(q.list, c)[i]) = Todo(q.list[i])
    <3>1. \A t \in Task : LET u == [t EXCEPT !.cpvt = SysChan]
                          IN  u.cmds = t.cmds /\ u.cindex = t.cindex
      BY DEF Task
    <3>2. \A i \in 1..Len(q.list) :
            /\ q.list[i] \in Task
            /\ \/ Relinked(q.list, c)[i] = q.list[i]
               \/ Relinked(q.list, c)[i] = [q.list[i] EXCEPT !.cpvt = SysChan]
      BY <1>1 DEF Relinked
    <3> QED
      BY <3>1, <3>2 DEF Todo
  <2> QED
    BY <2>3, <2>4, <2>5, SumSame DEF Counted
<1>5. ASSUME NEW res \in Res, Response(res)
      PROVE  Counted(q')
  BY <1>1, <1>5, CmdRemovedCounted DEF Response
<1>6. CASE MonitorRun
  BY <1>1, <1>6, RunCounted DEF MonitorRun
<1>7. CASE TimeoutPing
  BY <1>7, ScriptAssumption, InsertedCounted DEF TimeoutPing
<1>8. CASE Cleanup
  <2>1. q' = Flushed(q)
    BY <1>8 DEF Cleanup
  <2>2. CmdsLeft(q.list) = q.at_cmds /\ q.at_cmds \in Int
    BY <1>1, CmdsLeftIs DEF Counted
  <2>3. q'.list = <<>> /\ q'.at_cmds = 0
    BY <2>1, <2>2 DEF Flushed
  <2> QED
    BY <2>3, SumEmpty DEF Counted
<1>9. CASE Start
  BY <1>9, ScriptAssumption, InsertedCounted DEF Start
<1>10. CASE UNCHANGED q
  BY <1>10
<1> QED
  BY <1>2, <1>3, <1>4, <1>5, <1>6, <1>7, <1>8, <1>9, <1>10
  DEF Next, Users, Monitor, Alloc, Unsolicited, TimeoutBusy, Lost, vars

(* The counters of the queue agree with the list: whatever ends a command,  *)
(* a result, a wrong one, a failed write or a flush, counts off exactly     *)
(* what leaves the queue (pvt->state.at_tasks, at_cmds).                    *)
THEOREM CountersRight == Spec => []CountersMatch
<1>1. Init => Counted(q)
  BY SumEmpty DEF Init, Counted
<1>2. IInv /\ Counted(q) /\ [Next]_vars => Counted(q')
  BY NextCounted
<1>3. IInv /\ Counted(q) => CountersMatch
  BY CmdsLeftIs DEF IInv, Good, Queue, Counted, CountersMatch
<1>4. Counted(q)' <=> Counted(q')
  BY DEF Counted
<1> QED
  BY <1>1, <1>2, <1>3, <1>4, Invariance, PTL DEF Spec
====
