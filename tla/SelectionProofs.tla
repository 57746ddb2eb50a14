--------------------------- MODULE SelectionProofs ---------------------------
(***************************************************************************)
(* Proofs about Selection, for any devices, settings and requests: the     *)
(* candidates are those the rules let pass, every entry that was allocated *)
(* is freed, and the sort leaves the candidates in order.                  *)
(***************************************************************************)
EXTENDS Selection, FiniteSetTheorems, TLAPS

-----------------------------------------------------------------------------
(* Arrays of devices, in which none is twice *)

Elements(s) == {s[i] : i \in DOMAIN s}
Distinct(s) == \A i, j \in DOMAIN s : s[i] = s[j] => i = j

(* A new device at the end.                                                 *)
LEMMA AppendKeeps ==
    ASSUME NEW s \in Seq(Dev), Distinct(s), NEW d \in Dev, d \notin Elements(s)
    PROVE  /\ Append(s, d) \in Seq(Dev)
           /\ Distinct(Append(s, d))
           /\ Elements(Append(s, d)) = Elements(s) \union {d}
<1> DEFINE t == Append(s, d)
<1>1. t \in Seq(Dev) /\ Len(t) = Len(s) + 1
  OBVIOUS
<1>2. \A i \in 1..Len(s) : t[i] = s[i]
  OBVIOUS
<1>3. t[Len(s) + 1] = d /\ DOMAIN t = 1..Len(s) + 1 /\ DOMAIN s = 1..Len(s) /\ Len(s) \in Nat
  OBVIOUS
<1> HIDE DEF t
<1>4. Distinct(t)
  BY <1>2, <1>3 DEF Distinct, Elements
<1>5. Elements(t) = Elements(s) \union {d}
  BY <1>2, <1>3 DEF Elements
<1> QED
  BY <1>1, <1>4, <1>5 DEF t

(* The last takes the place of the one that is taken out.                   *)
LEMMA RemoveKeeps ==
    ASSUME NEW s \in Seq(Dev), Distinct(s), NEW n \in 1..Len(s)
    PROVE  LET t == [i \in 1..Len(s) - 1 |-> IF i = n THEN s[Len(s)] ELSE s[i]]
           IN  /\ t \in Seq(Dev)
               /\ Len(t) = Len(s) - 1
               /\ \A i \in DOMAIN t : i < n => t[i] = s[i]
               /\ Distinct(t)
               /\ Elements(t) = Elements(s) \ {s[n]}
<1> DEFINE t == [i \in 1..Len(s) - 1 |-> IF i = n THEN s[Len(s)] ELSE s[i]]
<1>1. Len(s) \in Nat /\ DOMAIN s = 1..Len(s) /\ \A i \in 1..Len(s) : s[i] \in Dev
  OBVIOUS
<1>2. t \in Seq(Dev) /\ Len(t) = Len(s) - 1 /\ DOMAIN t = 1..Len(s) - 1
  BY <1>1
<1>3. \A i \in 1..Len(s) - 1 : t[i] = IF i = n THEN s[Len(s)] ELSE s[i]
  OBVIOUS
<1> HIDE DEF t
<1>4. \A i \in DOMAIN t : i < n => t[i] = s[i]
  BY <1>1, <1>2, <1>3
<1>5. Distinct(t)
  BY <1>1, <1>2, <1>3 DEF Distinct
<1>6. ASSUME NEW d \in Elements(t)
      PROVE  d \in Elements(s) \ {s[n]}
  BY <1>1, <1>2, <1>3, <1>6 DEF Elements, Distinct
<1>7. ASSUME NEW d \in Elements(s) \ {s[n]}
      PROVE  d \in Elements(t)
  <2>1. PICK i \in 1..Len(s) : d = s[i]
    BY <1>1 DEF Elements
  <2>2. i # n
    BY <2>1
  <2>3. CASE i = Len(s)
    <3>1. n \in 1..Len(s) - 1 /\ t[n] = d
      BY <2>1, <2>2, <2>3, <1>1, <1>3
    <3> QED
      BY <3>1, <1>2 DEF Elements
  <2>4. CASE i # Len(s)
    <3>1. i \in 1..Len(s) - 1 /\ t[i] = d
      BY <2>1, <2>2, <2>4, <1>1, <1>3
    <3> QED
      BY <3>1, <1>2 DEF Elements
  <2> QED
    BY <2>3, <2>4
<1>8. Elements(t) = Elements(s) \ {s[n]}
  BY <1>6, <1>7
<1> QED
  BY <1>2, <1>4, <1>5, <1>8 DEF t

(* Two change places.                                                       *)
LEMMA SwapKeeps ==
    ASSUME list \in Seq(Dev), Distinct(list), NEW m \in 1..Len(list), NEW n \in 1..Len(list)
    PROVE  /\ Swapped(m, n) \in Seq(Dev)
           /\ Len(Swapped(m, n)) = Len(list)
           /\ \A i \in 1..Len(list) : Swapped(m, n)[i] =
                  IF i = n THEN list[m] ELSE IF i = m THEN list[n] ELSE list[i]
           /\ Distinct(Swapped(m, n))
           /\ Elements(Swapped(m, n)) = Elements(list)
<1> DEFINE t == Swapped(m, n)
<1>1. Len(list) \in Nat /\ DOMAIN list = 1..Len(list) /\ \A i \in 1..Len(list) : list[i] \in Dev
  OBVIOUS
<1>2. t \in Seq(Dev) /\ Len(t) = Len(list) /\ DOMAIN t = 1..Len(list)
  BY <1>1 DEF Swapped
<1>3. \A i \in 1..Len(list) :
          t[i] = IF i = n THEN list[m] ELSE IF i = m THEN list[n] ELSE list[i]
  BY <1>1 DEF Swapped
<1> HIDE DEF t
<1>4. Distinct(t)
  BY <1>1, <1>2, <1>3 DEF Distinct
<1>5. Elements(t) \subseteq Elements(list)
  BY <1>1, <1>2, <1>3 DEF Elements
<1>6. ASSUME NEW i \in 1..Len(list)
      PROVE  list[i] \in Elements(t)
  <2>1. /\ i = m => t[n] = list[i]
        /\ i = n => t[m] = list[i]
        /\ i # m /\ i # n => t[i] = list[i]
    BY <1>3
  <2> QED
    BY <2>1, <1>2 DEF Elements
<1>7. Elements(t) = Elements(list)
  BY <1>5, <1>6, <1>1 DEF Elements
<1> QED
  BY <1>2, <1>3, <1>4, <1>7 DEF t

(* There are as many devices as places.                                     *)
LEMMA DistinctCount ==
    ASSUME NEW s \in Seq(Dev), Distinct(s)
    PROVE  Cardinality(Elements(s)) = Len(s)
<1>1. Len(s) \in Nat /\ DOMAIN s = 1..Len(s)
  OBVIOUS
<1>2. s \in Bijection(1..Len(s), Elements(s))
  BY <1>1 DEF Bijection, Injection, Surjection, IsInjective, Distinct, Elements
<1>3. IsFiniteSet(1..Len(s)) /\ Cardinality(1..Len(s)) = Len(s)
  BY <1>1, FS_Interval
<1> QED
  BY <1>2, <1>3, FS_Bijection DEF ExistsBijection

-----------------------------------------------------------------------------
(* Neither a rule nor the third key depends on what the passes change.      *)

LEMMA PositionStays ==
    ASSUME UNCHANGED <<cr, attr>>, NEW d
    PROVE  ImbPos(d)' = ImbPos(d) /\ ImbType(d)' = ImbType(d)
<1>1. ImbPos(d)' = ImbPos(d)
  BY DEF ImbPos
<1> QED
  BY <1>1 DEF ImbType

LEMMA KeepStays ==
    ASSUME UNCHANGED <<cr, attr>>, NEW d, NEW p
    PROVE  Keep(p, d)' = Keep(p, d)
<1>1. ImbType(d)' = ImbType(d)
  BY PositionStays
<1>2. KeepIm(d)' = KeepIm(d)
  BY <1>1 DEF KeepIm, Alg
<1>3. KeepQos(d)' = KeepQos(d)
  BY <1>1 DEF KeepQos, Alg, Known, ProMatch
<1>4. KeepCapPro(d)' = KeepCapPro(d)
  BY <1>1 DEF KeepCapPro, Alg, Known, ProMatch
<1>5. KeepWork(d)' = KeepWork(d)
  BY <1>1 DEF KeepWork, Known, WakeMinute, SleepMinute
<1>6. Diff(d)' = Diff(d)
  BY <1>1 DEF Diff, DiffMin, Rested, Known, AlgPenalty, Alg, DayAtMost
<1> QED
  BY <1>2, <1>3, <1>4, <1>5, <1>6 DEF Keep

(* The devices that could dial and that the rules R let pass.               *)
Passing(R) == {d \in passed : \A p \in R : Keep(p, d)}

LEMMA PassingStays ==
    ASSUME UNCHANGED <<cr, attr, passed>>, NEW R
    PROVE  Passing(R)' = Passing(R)
  BY KeepStays DEF Passing

(* The rules are applied in this order.                                     *)
LEMMA RulesInOrder ==
    /\ Before("im") = {}
    /\ \A p \in Rules : After(p) \in Rules \union {"shuffle"} /\ After(p) # p
    /\ \A p \in Rules : After(p) \in Rules => Before(After(p)) = Before(p) \union {p}
    /\ \A p \in Rules : After(p) = "shuffle" => Rules = Before(p) \union {p}
  BY DEF Rules, Before, After

-----------------------------------------------------------------------------
(* The inductive invariant *)

Passes == {"idle", "create", "shuffle", "sort", "found", "try", "stat", "request"} \union Rules

ListOK ==
    /\ list \in Seq(Dev)
    /\ Distinct(list)
    /\ num \in Nat \ {0}
    /\ pass \in Passes

(* Only the paths with a list know more than one candidate.                 *)
PathOK == pass \in Rules \union {"create", "shuffle", "sort"} => cr.resource = None

(* While it is made, the list holds devices in front of the next one.       *)
CreateOK ==
    pass = "create" =>
        /\ num <= Len(Order) + 1
        /\ \A i \in DOMAIN list : \E j \in 1..num - 1 : list[i] = Order[j]
        /\ Listed = passed

(* While a rule is applied, those in front of the index pass it, and what   *)
(* was taken out fails it or one before.                                    *)
Examined == {list[i] : i \in {j \in DOMAIN list : j < num}}
RuleOK ==
    \A p \in Rules : pass = p =>
        /\ Listed \subseteq Passing(Before(p))
        /\ Passing(Before(p) \union {p}) \subseteq Listed
        /\ \A d \in Examined : Keep(p, d)

SortOK == pass = "sort" => num < other /\ other <= Len(list) /\ other \in Nat
TryOK == pass = "try" => num <= Len(list)

Emptied == pass \in {"idle", "request"} => list = <<>>
HeapOK ==
    ~failed => heap = IF pass # "idle" /\ cr.resource = None THEN Listed ELSE {}

IInv ==
    /\ ListOK /\ PathOK /\ CreateOK /\ RuleOK /\ SortOK /\ TryOK
    /\ Emptied /\ HeapOK /\ SelectedRight

LEMMA InitHolds == Init => IInv
  BY DEF Init, IInv, ListOK, PathOK, CreateOK, RuleOK, SortOK, TryOK, Emptied, HeapOK,
         SelectedRight, Distinct, Passes, Rules

LEMMA BeginKeeps == IInv /\ Begin => IInv'
<1> SUFFICES ASSUME IInv, Begin PROVE IInv'
  OBVIOUS
<1>1. /\ list' \in Seq(Dev) /\ Distinct(list') /\ num' = 1
      /\ pass' = IF cr'.resource = None THEN "create" ELSE "found"
      /\ cr'.resource = None => list' = <<>>
  <2>1. CASE cr'.resource = None
    BY <2>1 DEF Begin, Distinct
  <2>2. CASE cr'.resource # None
    <3>1. list' = (IF \E i \in DOMAIN Order : Order[i] = cr'.resource
                     THEN <<cr'.resource>> ELSE <<>>)
          /\ pass' = "found" /\ num' = 1
      BY <2>2 DEF Begin, PlainDial
    <3>2. CASE \E i \in DOMAIN Order : Order[i] = cr'.resource
      <4>1. cr'.resource \in Dev
        BY <3>2, OrderAssumption
      <4> QED
        BY <3>1, <3>2, <4>1, <2>2 DEF Distinct
    <3> QED
      BY <3>1, <3>2, <2>2 DEF Distinct
  <2> QED
    BY <2>1, <2>2
<1>2. passed' = {} /\ heap' = heap /\ failed' = failed /\ pass = "idle"
  BY DEF Begin
<1>3. Listed' = Elements(list')
  BY DEF Listed, Elements
<1>4. ListOK' /\ PathOK'
  BY <1>1 DEF ListOK, PathOK, Passes, Rules
<1>5. CreateOK'
  BY <1>1, <1>2, OrderAssumption DEF CreateOK, Listed
<1>6. RuleOK' /\ SortOK' /\ TryOK' /\ Emptied'
  BY <1>1 DEF RuleOK, SortOK, TryOK, Emptied, Rules
<1>7. HeapOK'
  BY <1>1, <1>2 DEF IInv, HeapOK, Listed
<1>8. SelectedRight'
  BY <1>1 DEF SelectedRight, Listed
<1> QED
  BY <1>4, <1>5, <1>6, <1>7, <1>8 DEF IInv

LEMMA CreateKeeps == IInv /\ (Create \/ Created \/ CreateFails) => IInv'
<1> SUFFICES ASSUME IInv, Create \/ Created \/ CreateFails PROVE IInv'
  OBVIOUS
<1> USE DEF IInv
<1>1. /\ pass = "create" /\ cr' = cr /\ attr' = attr
      /\ cr.resource = None
      /\ Listed = passed /\ num \in 1..Len(Order) + 1
      /\ DOMAIN Order = 1..Len(Order) /\ Len(Order) \in Nat
  BY OrderAssumption DEF Create, Created, CreateFails, PathOK, CreateOK, ListOK, devices
<1>2. CASE Create
  <2> DEFINE d == Order[num]
  <2>1. /\ pass' = "create" /\ num' = num + 1 /\ num <= Len(Order)
        /\ failed' = failed
    BY <1>2, <1>1 DEF Create
  <2>2. d \in Dev /\ d \notin Elements(list)
    BY <2>1, <1>1, OrderAssumption DEF CreateOK, Elements
  <2>3. CASE CanDial(d) /\ MayDial(d)
    <3>1. list' = Append(list, d) /\ heap' = heap \union {d} /\ passed' = passed \union {d}
      BY <2>3, <1>2 DEF Create
    <3>2. list' \in Seq(Dev) /\ Distinct(list') /\ Elements(list') = Elements(list) \union {d}
      BY <3>1, <2>2, AppendKeeps DEF ListOK
    <3>3. Listed' = Listed \union {d}
      BY <3>2 DEF Listed, Elements
    <3>4. \A i \in DOMAIN list' : \E j \in 1..num : list'[i] = Order[j]
      <4>1. \A e \in Elements(list) : \E j \in 1..num - 1 : e = Order[j]
        BY <1>1 DEF CreateOK, Elements
      <4>2. \A e \in Elements(list') : \E j \in 1..num : e = Order[j]
        BY <4>1, <3>2, <1>1, <2>1
      <4> QED
        BY <4>2 DEF Elements
    <3> QED
      BY <1>1, <2>1, <3>1, <3>2, <3>3, <3>4
      DEF ListOK, PathOK, CreateOK, RuleOK, SortOK, TryOK, Emptied, HeapOK, SelectedRight, Rules
  <2>4. CASE ~(CanDial(d) /\ MayDial(d))
    <3>1. list' = list /\ heap' = heap /\ passed' = passed
      BY <2>4, <1>2 DEF Create
    <3>2. Listed' = Listed
      BY <3>1 DEF Listed
    <3> QED
      BY <1>1, <2>1, <3>1, <3>2
      DEF ListOK, PathOK, CreateOK, RuleOK, SortOK, TryOK, Emptied, HeapOK, SelectedRight, Rules
  <2> QED
    BY <2>3, <2>4
<1>3. CASE Created \/ CreateFails
  <2>1. /\ pass' = "im" /\ num' = 1
        /\ Listed' = passed'
        /\ list' \in Seq(Dev) /\ Distinct(list')
    <3>1. CASE Created
      BY <1>1, <3>1 DEF Created, Listed, ListOK, Distinct
    <3>2. CASE CreateFails
      BY <3>2 DEF CreateFails, Listed, Distinct
    <3> QED
      BY <1>3, <3>1, <3>2
  <2>2. RuleOK'
    <3>1. Before("im") = {} /\ Examined' = {}
      BY <2>1 DEF Before, Examined, ListOK
    <3>2. Listed' \subseteq Passing({})' /\ Passing({"im"})' \subseteq Listed'
      BY <2>1 DEF Passing
    <3> QED
      BY <3>1, <3>2, <2>1 DEF RuleOK
  <2>3. HeapOK'
    BY <1>1, <1>3, <2>1 DEF HeapOK, Created, CreateFails, Listed
  <2> QED
    BY <1>1, <2>1, <2>2, <2>3
    DEF ListOK, PathOK, CreateOK, SortOK, TryOK, Emptied, SelectedRight, Passes, Rules
<1> QED
  BY <1>2, <1>3

(* What a rule takes out fails it, and what it passes by does not.          *)
LEMMA RuleGoesOn ==
    ASSUME NEW p \in Rules, pass = p, pass' = p, RuleOK,
           UNCHANGED <<cr, attr, passed>>,
           Examined \subseteq Listed, Listed \subseteq Dev,
           NEW d, d \in Listed,
           \/ Keep(p, d) /\ Listed' = Listed /\ Examined' = Examined \union {d}
           \/ ~Keep(p, d) /\ Listed' = Listed \ {d} /\ Examined' \subseteq Examined
    PROVE  RuleOK'
<1>1. /\ Passing(Before(p))' = Passing(Before(p))
      /\ Passing(Before(p) \union {p})' = Passing(Before(p) \union {p})
  BY PassingStays
<1>2. /\ Listed \subseteq Passing(Before(p))
      /\ Passing(Before(p) \union {p}) \subseteq Listed
      /\ \A e \in Examined : Keep(p, e)
  BY DEF RuleOK
<1>3. /\ Listed' \subseteq Passing(Before(p))'
      /\ Passing(Before(p) \union {p})' \subseteq Listed'
  <2>1. d \in Passing(Before(p) \union {p}) => Keep(p, d)
    BY DEF Passing
  <2> QED
    BY <1>1, <1>2, <2>1
<1>4. ASSUME NEW e \in Examined'
      PROVE  Keep(p, e)'
  <2>1. Keep(p, e)
    BY <1>2, <1>4
  <2>2. Keep(p, e)' = Keep(p, e)
    BY KeepStays
  <2> QED
    BY <2>1, <2>2
<1>5. ASSUME NEW q \in Rules, pass' = q
      PROVE  /\ Listed' \subseteq Passing(Before(q))'
             /\ Passing(Before(q) \union {q})' \subseteq Listed'
             /\ \A e \in Examined' : Keep(q, e)'
  <2>1. q = p
    BY <1>5
  <2> QED
    BY <2>1, <1>3, <1>4
<1> QED
  BY <1>5 DEF RuleOK

LEMMA ExamineKeeps == IInv /\ Examine => IInv'
<1> SUFFICES ASSUME IInv, Examine PROVE IInv'
  OBVIOUS
<1> USE DEF IInv
<1>1. PICK p \in Rules : pass = p
  BY DEF Examine
<1> DEFINE d == list[num]
<1>2. /\ num \in 1..Len(list) /\ DOMAIN list = 1..Len(list) /\ Len(list) \in Nat
      /\ d \in Listed
      /\ pass' = p /\ cr' = cr /\ attr' = attr /\ passed' = passed /\ failed' = failed
      /\ cr.resource = None
  BY <1>1 DEF Examine, ListOK, PathOK, Listed, devices
<1>3. Examined \subseteq Listed /\ Listed \subseteq Dev /\ RuleOK
  BY DEF Examined, Listed, ListOK
<1>4. CASE Keep(p, d)
  <2>1. num' = num + 1 /\ list' = list /\ heap' = heap
    BY <1>1, <1>4 DEF Examine
  <2>2. Listed' = Listed /\ Examined' = Examined \union {d}
    BY <2>1, <1>2 DEF Listed, Examined
  <2>3. RuleOK'
    BY <1>1, <1>2, <1>3, <1>4, <2>2, RuleGoesOn
  <2> QED
    BY <1>1, <1>2, <2>1, <2>2, <2>3
    DEF ListOK, PathOK, CreateOK, SortOK, TryOK, Emptied, HeapOK, SelectedRight, Rules
<1>5. CASE ~Keep(p, d)
  <2>1. /\ num' = num /\ heap' = heap \ {d}
        /\ list' = [i \in 1..Len(list) - 1 |-> IF i = num THEN list[Len(list)] ELSE list[i]]
    BY <1>1, <1>5 DEF Examine, Removed
  <2>2. /\ list' \in Seq(Dev) /\ Distinct(list')
        /\ \A i \in DOMAIN list' : i < num => list'[i] = list[i]
        /\ Len(list') = Len(list) - 1
        /\ Elements(list') = Elements(list) \ {d}
    <3> DEFINE t == [i \in 1..Len(list) - 1 |-> IF i = num THEN list[Len(list)] ELSE list[i]]
    <3>1. list \in Seq(Dev) /\ Distinct(list)
      BY DEF ListOK
    <3>2. num \in 1..Len(list)
      BY <1>2
    <3>3. /\ t \in Seq(Dev) /\ Distinct(t)
          /\ \A i \in DOMAIN t : i < num => t[i] = list[i]
          /\ Len(t) = Len(list) - 1
          /\ Elements(t) = Elements(list) \ {d}
      BY <3>1, <3>2, RemoveKeeps
    <3> QED
      BY <2>1, <3>3
  <2>3. Listed' = Listed \ {d}
    BY <2>2 DEF Listed, Elements
  <2>4. Examined' \subseteq Examined
    <3>1. DOMAIN list' = 1..Len(list) - 1
      BY <2>2, <1>2
    <3> QED
      BY <2>1, <2>2, <1>2, <3>1 DEF Examined
  <2>5. RuleOK'
    BY <1>1, <1>2, <1>3, <1>5, <2>3, <2>4, RuleGoesOn
  <2> QED
    BY <1>1, <1>2, <2>1, <2>2, <2>3, <2>5
    DEF ListOK, PathOK, CreateOK, SortOK, TryOK, Emptied, HeapOK, SelectedRight, Rules
<1> QED
  BY <1>4, <1>5

LEMMA NextRuleKeeps == IInv /\ NextRule => IInv'
<1> SUFFICES ASSUME IInv, NextRule PROVE IInv'
  OBVIOUS
<1> USE DEF IInv
<1>1. PICK p \in Rules : pass = p
  BY DEF NextRule
<1>2. /\ DOMAIN list = 1..Len(list) /\ Len(list) \in Nat /\ num > Len(list)
      /\ pass' = After(p) /\ num' = 1
      /\ cr' = cr /\ attr' = attr /\ passed' = passed /\ failed' = failed
      /\ list' = list /\ heap' = heap
      /\ cr.resource = None
  BY <1>1 DEF NextRule, ListOK, PathOK, devices
<1>3. \A R : Passing(R)' = Passing(R)
  BY <1>2, PassingStays
<1>4. Listed = Passing(Before(p) \union {p})
  <2>1. Examined = Listed
    BY <1>2 DEF Examined, Listed, ListOK
  <2> QED
    BY <2>1, <1>1 DEF RuleOK, Passing
<1>5. Listed' = Listed /\ Examined' = {}
  BY <1>2 DEF Listed, Examined
<1>6. RuleOK'
  <2>1. ASSUME NEW q \in Rules, pass' = q
        PROVE  /\ Listed' \subseteq Passing(Before(q))'
               /\ Passing(Before(q) \union {q})' \subseteq Listed'
    BY <2>1, <1>2, <1>3, <1>4, <1>5, RulesInOrder DEF Passing
  <2> QED
    BY <2>1, <1>5 DEF RuleOK
<1>7. SelectedRight'
  <2>1. pass' = "shuffle" => Listed' = Passing(Rules)'
    BY <1>1, <1>2, <1>3, <1>4, <1>5, RulesInOrder
  <2>2. pass' \in Rules \union {"shuffle"}
    BY <1>2, RulesInOrder
  <2> QED
    BY <2>1, <2>2 DEF SelectedRight, Passing, Rules
<1>8. pass' \in Rules \union {"shuffle"}
  BY <1>2, RulesInOrder
<1> QED
  BY <1>1, <1>2, <1>5, <1>6, <1>7, <1>8
  DEF ListOK, PathOK, CreateOK, SortOK, TryOK, Emptied, HeapOK, Passes, Rules

(* From the shuffle on nobody is added or taken out.                        *)
LEMMA SameDevices ==
    ASSUME IInv, UNCHANGED <<cr, attr, passed, heap, failed>>,
           pass \in {"shuffle", "sort", "found", "try"},
           pass' \in {"shuffle", "sort", "found", "try"},
           pass' \in {"shuffle", "sort"} => pass \in {"shuffle", "sort"},
           list' \in Seq(Dev), Distinct(list'), Elements(list') = Elements(list),
           num' \in Nat \ {0}, SortOK', TryOK'
    PROVE  IInv'
<1> USE DEF IInv
<1>1. Listed' = Listed
  BY DEF Listed, Elements
<1>2. ListOK' /\ PathOK' /\ CreateOK' /\ RuleOK' /\ Emptied' /\ HeapOK'
  BY <1>1 DEF ListOK, PathOK, CreateOK, RuleOK, Emptied, HeapOK, Passes, Rules
<1>3. SelectedRight'
  <2>1. Passing(Rules)' = Passing(Rules)
    BY PassingStays
  <2> QED
    BY <2>1, <1>1 DEF SelectedRight, Passing
<1> QED
  BY <1>2, <1>3

LEMMA OrderKeeps == IInv /\ (Shuffle \/ Shuffled \/ Sort) => IInv'
<1> SUFFICES ASSUME IInv, Shuffle \/ Shuffled \/ Sort PROVE IInv'
  OBVIOUS
<1>1. /\ UNCHANGED <<cr, attr, passed, heap, failed>>
      /\ pass \in {"shuffle", "sort"}
      /\ list \in Seq(Dev) /\ Distinct(list) /\ Len(list) \in Nat /\ num \in Nat \ {0}
  <2>1. UNCHANGED <<cr, attr, passed, heap, failed>> /\ pass \in {"shuffle", "sort"}
    <3>1. CASE Shuffle \/ Shuffled
      BY <3>1 DEF Shuffle, Shuffled, devices
    <3>2. CASE Sort
      BY <3>2 DEF Sort, devices
    <3> QED
      BY <3>1, <3>2
  <2> QED
    BY <2>1 DEF IInv, ListOK
<1>2. CASE Shuffle
  <2>1. PICK r \in num..Len(list) : list' = Swapped(num, r)
    BY <1>2 DEF Shuffle
  <2>2. num \in 1..Len(list) /\ r \in 1..Len(list)
    BY <1>1, <1>2, <2>1 DEF Shuffle
  <2>3. list' \in Seq(Dev) /\ Distinct(list') /\ Elements(list') = Elements(list)
    BY <1>1, <2>1, <2>2, SwapKeeps
  <2>4. pass' = "shuffle" /\ num' \in Nat \ {0}
    BY <1>1, <1>2 DEF Shuffle
  <2> QED
    BY <1>1, <2>3, <2>4, SameDevices DEF SortOK, TryOK
<1>3. CASE Shuffled
  <2>1. /\ list' = list /\ num' = 1 /\ other' = 2
        /\ pass' = IF Len(list) > 1 THEN "sort" ELSE "found"
    BY <1>3 DEF Shuffled
  <2>2. SortOK' /\ TryOK'
    BY <1>1, <2>1 DEF SortOK, TryOK
  <2>3. pass' \in {"sort", "found"}
    BY <2>1
  <2> QED
    BY <1>1, <2>1, <2>2, <2>3, SameDevices
<1>4. CASE Sort
  <2>1. /\ pass = "sort" /\ num < other /\ other <= Len(list) /\ other \in Nat
        /\ num \in 1..Len(list) /\ other \in 1..Len(list)
    BY <1>1, <1>4 DEF IInv, SortOK, Sort
  <2>2. list' = list \/ list' = Swapped(num, other)
    BY <1>4 DEF Sort
  <2>3. /\ list' \in Seq(Dev) /\ Distinct(list') /\ Elements(list') = Elements(list)
        /\ Len(list') = Len(list)
    BY <1>1, <2>1, <2>2, SwapKeeps
  <2>4. \/ pass' = "sort" /\ num' = num /\ other' = other + 1 /\ other < Len(list)
        \/ pass' = "sort" /\ num' = num + 1 /\ other' = num + 2 /\ num + 1 < Len(list)
        \/ pass' = "found" /\ num' = 1
    <3>1. CASE other < Len(list)
      BY <1>4, <2>1, <3>1 DEF Sort
    <3>2. CASE other = Len(list) /\ num + 1 < Len(list)
      BY <1>4, <2>1, <3>2 DEF Sort
    <3>3. CASE other = Len(list) /\ num + 1 = Len(list)
      BY <1>4, <2>1, <3>3 DEF Sort
    <3> QED
      BY <1>1, <2>1, <3>1, <3>2, <3>3
  <2>5. SortOK' /\ TryOK' /\ num' \in Nat \ {0} /\ pass' \in {"sort", "found"}
    BY <1>1, <2>1, <2>3, <2>4 DEF SortOK, TryOK
  <2> QED
    BY <1>1, <2>1, <2>3, <2>5, SameDevices
<1> QED
  BY <1>2, <1>3, <1>4

(* Between the passes only the list and the entries matter.                 *)
LEMMA Elsewhere ==
    ASSUME pass' \in {"idle", "stat", "request"}, ListOK', Emptied', HeapOK'
    PROVE  IInv'
  BY DEF IInv, PathOK, CreateOK, RuleOK, SortOK, TryOK, SelectedRight, Rules

LEMMA ChoiceKeeps == IInv /\ (Look \/ Try \/ NotFound \/ Stat \/ Request \/ Flip) => IInv'
<1> SUFFICES ASSUME IInv, Look \/ Try \/ NotFound \/ Stat \/ Request \/ Flip PROVE IInv'
  OBVIOUS
<1>1. UNCHANGED <<cr, attr, passed, failed>>
  <2>1. CASE Look \/ Try \/ NotFound
    BY <2>1 DEF Look, Try, NotFound, devices
  <2>2. CASE Stat \/ Request \/ Flip
    BY <2>2 DEF Stat, Request, Flip
  <2> QED
    BY <2>1, <2>2
<1>2. list \in Seq(Dev) /\ Distinct(list) /\ Len(list) \in Nat /\ num \in Nat \ {0}
  BY DEF IInv, ListOK
<1>3. CASE Look
  <2>1. /\ pass = "found" /\ num <= Len(list) /\ list' = list /\ heap' = heap
        /\ \/ pass' = "try" /\ num' = num
           \/ pass' = "found" /\ num' = num + 1
    BY <1>3 DEF Look
  <2>2. SortOK' /\ TryOK' /\ num' \in Nat \ {0}
    BY <1>2, <2>1 DEF SortOK, TryOK
  <2> QED
    BY <1>1, <1>2, <2>1, <2>2, SameDevices
<1>4. CASE Try
  <2>1. /\ pass = "try" /\ list' = list /\ heap' = heap
        /\ \/ pass' = "stat" /\ num' = num
           \/ pass' = "found" /\ num' = num + 1
    BY <1>4 DEF Try
  <2>2. CASE pass' = "stat"
    <3>1. Listed' = Listed
      BY <2>1 DEF Listed
    <3> QED
      BY <1>1, <1>2, <2>1, <2>2, <3>1, Elsewhere DEF IInv, ListOK, Emptied, HeapOK, Passes
  <2>3. CASE pass' = "found" /\ num' = num + 1
    <3>1. SortOK' /\ TryOK' /\ num' \in Nat \ {0}
      BY <1>2, <2>3 DEF SortOK, TryOK
    <3> QED
      BY <1>1, <1>2, <2>1, <2>3, <3>1, SameDevices
  <2> QED
    BY <2>1, <2>2, <2>3
<1>5. CASE NotFound \/ Stat
  <2>1. /\ heap' = heap \ Listed /\ list' = <<>> /\ num' = num
        /\ pass \in {"found", "stat"} /\ pass' \in {"idle", "request"}
    BY <1>5 DEF NotFound, Stat, Listed
  <2>2. Listed' = {} /\ Distinct(list')
    BY <2>1 DEF Listed, Distinct
  <2>3. ~failed => heap' = {}
    BY <2>1 DEF IInv, HeapOK
  <2> QED
    BY <1>1, <1>2, <2>1, <2>2, <2>3, Elsewhere DEF ListOK, Emptied, HeapOK, Passes
<1>6. CASE Request
  <2>1. /\ heap' = heap /\ list' = list /\ num' = num /\ pass = "request" /\ pass' = "idle"
    BY <1>6 DEF Request, loop
  <2>2. Listed = {}
    BY <2>1 DEF Listed, IInv, Emptied
  <2> QED
    BY <1>1, <1>2, <2>1, <2>2, Elsewhere DEF IInv, ListOK, Emptied, HeapOK, Passes
<1>7. CASE Flip
  <2>1. UNCHANGED <<heap, list, num, other, pass>> /\ pass \in {"idle", "found", "try"}
    BY <1>7 DEF Flip, loop
  <2>2. CASE pass = "idle"
    BY <1>1, <1>2, <2>1, <2>2, Elsewhere DEF IInv, ListOK, Emptied, HeapOK, Passes
  <2>3. CASE pass \in {"found", "try"}
    <3>1. SortOK' /\ TryOK'
      BY <2>1, <2>3 DEF IInv, SortOK, TryOK
    <3> QED
      BY <1>1, <1>2, <2>1, <2>3, <3>1, SameDevices
  <2> QED
    BY <2>1, <2>2, <2>3
<1> QED
  BY <1>3, <1>4, <1>5, <1>6, <1>7

LEMMA StutterKeeps == IInv /\ UNCHANGED vars => IInv'
<1> SUFFICES ASSUME IInv, UNCHANGED vars PROVE IInv'
  OBVIOUS
<1>1. UNCHANGED <<cr, attr, passed, failed, heap, list, num, other, pass>>
  BY DEF vars, devices, loop
<1>2. Passing(Rules)' = Passing(Rules)
  BY <1>1, PassingStays
<1>3. Listed' = Listed /\ Examined' = Examined
  BY <1>1 DEF Listed, Examined
<1>4. SelectedRight'
  BY <1>1, <1>2, <1>3 DEF IInv, SelectedRight, Passing
<1>5. RuleOK'
  <2>1. \A p \in Rules : Passing(Before(p))' = Passing(Before(p))
    BY <1>1, PassingStays
  <2>2. \A p \in Rules : Passing(Before(p) \union {p})' = Passing(Before(p) \union {p})
    BY <1>1, PassingStays
  <2>3. \A p \in Rules : \A d \in Examined : Keep(p, d)' = Keep(p, d)
    BY <1>1, KeepStays
  <2>4. ASSUME NEW p \in Rules, pass' = p
        PROVE  /\ Listed' \subseteq Passing(Before(p))'
               /\ Passing(Before(p) \union {p})' \subseteq Listed'
               /\ \A d \in Examined' : Keep(p, d)'
    BY <1>1, <1>3, <2>1, <2>2, <2>3, <2>4 DEF IInv, RuleOK
  <2> QED
    BY <2>4 DEF RuleOK
<1> QED
  BY <1>1, <1>3, <1>4, <1>5 DEF IInv, ListOK, PathOK, CreateOK, SortOK, TryOK, Emptied, HeapOK

LEMMA SelectionInvariant == Spec => []IInv
<1>1. Init => IInv
  BY InitHolds
<1>2. IInv /\ [Next]_vars => IInv'
  BY BeginKeeps, CreateKeeps, ExamineKeeps, NextRuleKeeps, OrderKeeps, ChoiceKeeps, StutterKeeps
  DEF Next
<1> QED
  BY <1>1, <1>2, PTL DEF Spec

-----------------------------------------------------------------------------
(* The theorems *)

(* When all rules of pvt_select() were applied, the candidates are exactly  *)
(* the devices that could dial when they were looked at and that every rule *)
(* lets pass, however many devices there are.                               *)
THEOREM SelectionSelectedRight == Spec => []SelectedRight
<1>1. IInv => SelectedRight
  BY DEF IInv
<1> QED
  BY <1>1, SelectionInvariant, PTL

(* The entries that are allocated are those of the list, one for each       *)
(* place, and none is left when the thread is done, unless memory ran out.  *)
THEOREM SelectionEntriesFreed == Spec => []EntriesFreed
<1>1. ASSUME IInv PROVE EntriesFreed
  <2>1. Listed = Elements(list)
    BY DEF Listed, Elements
  <2>2. Cardinality(Listed) = Len(list)
    BY <1>1, <2>1, DistinctCount DEF IInv, ListOK
  <2> QED
    BY <1>1, <2>2 DEF IInv, HeapOK, EntriesFreed
<1> QED
  BY <1>1, SelectionInvariant, PTL

-----------------------------------------------------------------------------
(* The order of the candidates *)

Keys == {"out_calls", "limit", "diff"}

Typed == attr \in [Dev -> Profiles] /\ cr \in {CallRequest(v) : v \in Variables}

(* What candidates are compared by are integers.                            *)
LEMMA CountIsNatural ==
    ASSUME NEW n \in Nat, NEW S, S \subseteq 1..n
    PROVE  Cardinality(S) \in Nat
<1>1. IsFiniteSet(1..n)
  BY FS_Interval
<1>2. IsFiniteSet(S)
  BY <1>1, FS_Subset
<1> QED
  BY <1>2, FS_CardinalityType

LEMMA PositionIsInteger ==
    ASSUME Typed, NEW d
    PROVE  ImbPos(d) \in Int
<1>1. PICK v \in Variables : cr = CallRequest(v)
  BY DEF Typed
<1> DEFINE sims == {i \in Parsed(v.imb) : v.imb[i] # "any"}
           places == {i \in DOMAIN cr.imb : \A j \in 1..i : cr.imb[j] # d}
<1>2. cr.imb = ImbSims(v.imb)
  BY <1>1, SettingsAssumption DEF CallRequest
<1>3. Cardinality(sims) \in Nat
  <2>1. sims \subseteq 1..Len(v.imb) /\ Len(v.imb) \in Nat
    BY SettingsAssumption DEF Parsed
  <2> QED
    BY <2>1, CountIsNatural
<1>4. DOMAIN cr.imb = 1..Cardinality(sims)
  BY <1>2 DEF ImbSims
<1>5. Cardinality(places) \in Nat
  <2>1. places \subseteq 1..Cardinality(sims)
    BY <1>4
  <2> HIDE DEF places, sims
  <2> QED
    BY <1>3, <2>1, CountIsNatural
<1>6. Len(cr.imb) \in Nat
  BY <1>3, <1>4
<1> QED
  BY <1>5, <1>6 DEF ImbPos

LEMMA KeysAreIntegers ==
    ASSUME Typed, NEW d \in Dev
    PROVE  /\ attr[d].priority \in Int
           /\ Usa(d) \in Keys
           /\ \A u \in Keys : Third(u, d) \in Int
<1>1. PICK v \in Variables : cr = CallRequest(v)
  BY DEF Typed
<1>2. attr[d] \in Profiles
  BY DEF Typed
<1>3. cr.penalty = v.penalty /\ cr.limitnum = v.limitnum
  BY <1>1, SettingsAssumption DEF CallRequest
<1>4. Limit(d) \in Int /\ attr[d].priority \in Int /\ attr[d].out_calls \in Int
  BY <1>2, <1>3, SettingsAssumption DEF Limit
<1>5. Diff(d) \in Int
  <2>1. AlgPenalty(d) \in {-10, -20, 0}
    BY DEF AlgPenalty
  <2>2. cr.penalty \in Int /\ 100 + cr.penalty > 0
    BY <1>3, SettingsAssumption
  <2> DEFINE by == (100 + cr.penalty) * (100 + AlgPenalty(d))
  <2>3. by \in Nat \ {0}
    <3>1. by \in {(100 + cr.penalty) * 90, (100 + cr.penalty) * 80, (100 + cr.penalty) * 100}
      BY <2>1
    <3> HIDE DEF by
    <3> QED
      BY <3>1, <2>2
  <2>4. DayAtMost(attr[d].idle) * 10000 \in Int
    BY <1>2, SettingsAssumption DEF DayAtMost
  <2>5. Rested(d) \in Int
    <3> DEFINE rest == DayAtMost(attr[d].idle) * 10000
    <3>1. Rested(d) = rest \div by
      BY DEF Rested
    <3> HIDE DEF rest, by
    <3> QED
      BY <3>1, <2>3, <2>4 DEF rest
  <2>6. DiffMin(d) \in Int
    <3>1. /\ attr[d].diff_min.any \in Int /\ attr[d].diff_min.goo \in Int
          /\ attr[d].diff_min.nor \in Int /\ attr[d].diff_min.sout \in Int
          /\ attr[d].diff_min.imode \in Int
      BY <1>2, SettingsAssumption
    <3> DEFINE nodiff == cr.limitnum # 0 /\ attr[d].nodiff[cr.limitnum]
    <3>2. CASE cr.qos = "SOU"
      BY <3>1, <3>2 DEF DiffMin
    <3>3. CASE cr.qos # "SOU" /\ nodiff
      BY <3>1, <3>3 DEF DiffMin
    <3>4. CASE cr.qos # "SOU" /\ ~nodiff
      BY <3>1, <3>4 DEF DiffMin
    <3> QED
      BY <3>2, <3>3, <3>4
  <2> QED
    BY <2>5, <2>6 DEF Diff
<1>6. Usa(d) \in Keys
  BY DEF Usa, Keys
<1>7. \A u \in Keys : Third(u, d) \in Int
  BY <1>4, <1>5 DEF Third, Keys
<1> QED
  BY <1>4, <1>6, <1>7

(* The pairs that stand right, by the first two keys and by all three.      *)
Ahead2 ==
    {p \in Dev \X Dev :
        \/ ImbPos(p[1]) < ImbPos(p[2])
        \/ ImbPos(p[1]) = ImbPos(p[2]) /\ attr[p[1]].priority >= attr[p[2]].priority}
Ahead3(u) ==
    {p \in Dev \X Dev :
        \/ ImbPos(p[1]) < ImbPos(p[2])
        \/ /\ ImbPos(p[1]) = ImbPos(p[2])
           /\ \/ attr[p[1]].priority > attr[p[2]].priority
              \/ /\ attr[p[1]].priority = attr[p[2]].priority
                 /\ Third(u, p[1]) >= Third(u, p[2])}

Transitive(R) == \A d, e, f \in Dev : <<d, e>> \in R /\ <<e, f>> \in R => <<d, f>> \in R

LEMMA AheadTransitive ==
    ASSUME Typed
    PROVE  Transitive(Ahead2) /\ \A u \in Keys : Transitive(Ahead3(u))
<1>1. \A d \in Dev : ImbPos(d) \in Int /\ attr[d].priority \in Int
  BY PositionIsInteger, KeysAreIntegers
<1>2. \A d \in Dev : \A u \in Keys : Third(u, d) \in Int
  BY KeysAreIntegers
<1>3. Transitive(Ahead2)
  BY <1>1 DEF Transitive, Ahead2
<1>4. ASSUME NEW u \in Keys
      PROVE  Transitive(Ahead3(u))
  BY <1>1, <1>2 DEF Transitive, Ahead3
<1> QED
  BY <1>3, <1>4

(* The comparison of pvt_select_sort() is the order's.                      *)
LEMMA BehindIsOrder ==
    ASSUME Typed, cr.qos # "SOU", NEW u \in Keys, NEW d \in Dev, NEW e \in Dev
    PROVE  /\ Behind(u, d, e) => <<e, d>> \in Ahead3(u) \intersect Ahead2
           /\ ~Behind(u, d, e) => <<d, e>> \in Ahead3(u) \intersect Ahead2
<1>1. /\ ImbPos(d) \in Int /\ attr[d].priority \in Int /\ Third(u, d) \in Int
      /\ ImbPos(e) \in Int /\ attr[e].priority \in Int /\ Third(u, e) \in Int
  BY PositionIsInteger, KeysAreIntegers
<1> QED
  BY <1>1 DEF Behind, Ahead2, Ahead3

(* Places i < j of s are settled when the sort is at (m, n).                *)
Settled(s, R, m, n) ==
    \A i, j \in DOMAIN s : i < j /\ (i < m \/ (i = m /\ j < n)) => <<s[i], s[j]>> \in R

(* One comparison settles one more pair.                                    *)
LEMMA ComparisonSettles ==
    ASSUME list \in Seq(Dev), NEW m \in 1..Len(list), NEW n \in 1..Len(list), m < n,
           NEW R, Transitive(R), Settled(list, R, m, n),
           NEW t,
           \/ t = list /\ <<list[m], list[n]>> \in R
           \/ t = Swapped(m, n) /\ <<list[n], list[m]>> \in R
    PROVE  Settled(t, R, m, n + 1)
<1>1. Len(list) \in Nat /\ DOMAIN list = 1..Len(list) /\ \A i \in 1..Len(list) : list[i] \in Dev
  OBVIOUS
<1>2. CASE t = list /\ <<list[m], list[n]>> \in R
  <2>1. \A j \in DOMAIN list : j < n + 1 => j < n \/ j = n
    BY <1>1
  <2> QED
    BY <1>1, <1>2, <2>1 DEF Settled
<1>3. CASE t = Swapped(m, n) /\ <<list[n], list[m]>> \in R
  <2>1. DOMAIN t = 1..Len(list)
    BY <1>1, <1>3 DEF Swapped
  <2>2. \A i \in 1..Len(list) :
            t[i] = IF i = n THEN list[m] ELSE IF i = m THEN list[n] ELSE list[i]
    BY <1>1, <1>3 DEF Swapped
  <2>3. ASSUME NEW i \in 1..Len(list), NEW j \in 1..Len(list), i < j, i < m
        PROVE  <<t[i], t[j]>> \in R
    <3>1. t[i] = list[i]
      BY <2>2, <2>3
    <3>2. PICK k \in 1..Len(list) : t[j] = list[k] /\ i < k
      BY <2>2, <2>3
    <3> QED
      BY <1>1, <2>3, <3>1, <3>2 DEF Settled
  <2>4. ASSUME NEW j \in 1..Len(list), m < j, j < n
        PROVE  <<t[m], t[j]>> \in R
    <3>1. t[m] = list[n] /\ t[j] = list[j]
      BY <2>2, <2>4
    <3>2. <<list[m], list[j]>> \in R
      BY <1>1, <2>4 DEF Settled
    <3> QED
      BY <1>1, <1>3, <3>1, <3>2 DEF Transitive
  <2>5. <<t[m], t[n]>> \in R
    BY <1>3, <2>2
  <2>6. ASSUME NEW i \in 1..Len(list), NEW j \in 1..Len(list),
               i < j, i < m \/ (i = m /\ j < n + 1)
        PROVE  <<t[i], t[j]>> \in R
    <3>1. CASE i < m
      BY <2>3, <2>6, <3>1
    <3>2. CASE i = m /\ j < n
      BY <2>4, <2>6, <3>2
    <3>3. CASE i = m /\ j = n
      BY <2>5, <3>3
    <3> QED
      BY <1>1, <2>6, <3>1, <3>2, <3>3
  <2> QED
    BY <2>1, <2>6 DEF Settled
<1> QED
  BY <1>2, <1>3

(* The candidates all go by this key.                                       *)
AllBy(u) == \A d \in Listed : Usa(d) = u

(* All pairs in front of (m, n) stand right.                                *)
SettledAll(m, n) ==
    /\ Settled(list, Ahead2, m, n)
    /\ \A u \in Keys : AllBy(u) => Settled(list, Ahead3(u), m, n)

SortInv ==
    cr.resource = None /\ cr.qos # "SOU" =>
        /\ pass = "sort" =>
              /\ usa \in Keys
              /\ \A u \in Keys : AllBy(u) => usa = u
              /\ SettledAll(num, other)
        /\ pass \in {"found", "try"} => SettledAll(Len(list), 0)

LEMMA OrderStays ==
    ASSUME UNCHANGED <<cr, attr>>
    PROVE  /\ Ahead2' = Ahead2
           /\ \A u \in Keys : Ahead3(u)' = Ahead3(u)
           /\ \A d \in Dev : Usa(d)' = Usa(d)
<1>1. \A d \in Dev : ImbPos(d)' = ImbPos(d) /\ ImbType(d)' = ImbType(d)
  BY PositionStays
<1>2. \A d \in Dev : Diff(d)' = Diff(d)
  BY <1>1 DEF Diff, DiffMin, Rested, Known, AlgPenalty, Alg, DayAtMost
<1>3. \A u \in Keys : \A d \in Dev : Third(u, d)' = Third(u, d)
  BY <1>2 DEF Third, Limit
<1>4. Ahead2' = Ahead2
  BY <1>1 DEF Ahead2
<1>5. \A u \in Keys : Ahead3(u)' = Ahead3(u)
  BY <1>1, <1>3 DEF Ahead3
<1>6. \A d \in Dev : Usa(d)' = Usa(d)
  BY DEF Usa, Alg
<1> QED
  BY <1>4, <1>5, <1>6

LEMMA AllByStays ==
    ASSUME UNCHANGED <<cr, attr>>, Listed \subseteq Dev, Listed' = Listed, NEW u \in Keys
    PROVE  AllBy(u)' = AllBy(u)
<1>1. \A d \in Listed : Usa(d)' = Usa(d)
  BY OrderStays
<1> QED
  BY <1>1 DEF AllBy

(* The places that the sort goes on to have nothing new to settle.          *)
LEMMA NextPlaceSettled ==
    ASSUME NEW s \in Seq(Dev), NEW R, NEW m \in 1..Len(s)
    PROVE  /\ Settled(s, R, m, Len(s) + 1) => Settled(s, R, m + 1, m + 2)
           /\ m + 1 = Len(s) /\ Settled(s, R, m, Len(s) + 1) => Settled(s, R, Len(s), 0)
<1>1. Len(s) \in Nat /\ DOMAIN s = 1..Len(s)
  OBVIOUS
<1>2. ASSUME Settled(s, R, m, Len(s) + 1), NEW i \in 1..Len(s), NEW j \in 1..Len(s),
             i < j, i < m + 1 \/ (i = m + 1 /\ j < m + 2)
      PROVE  <<s[i], s[j]>> \in R
  <2>1. i < m \/ i = m
    BY <1>1, <1>2
  <2>2. j < Len(s) + 1
    BY <1>1, <1>2
  <2> QED
    BY <1>1, <1>2, <2>1, <2>2 DEF Settled
<1>3. ASSUME m + 1 = Len(s), Settled(s, R, m, Len(s) + 1),
             NEW i \in 1..Len(s), NEW j \in 1..Len(s), i < j, i < Len(s)
      PROVE  <<s[i], s[j]>> \in R
  BY <1>1, <1>2, <1>3
<1>4. Settled(s, R, m, Len(s) + 1) => Settled(s, R, m + 1, m + 2)
  BY <1>1, <1>2 DEF Settled
<1>5. m + 1 = Len(s) /\ Settled(s, R, m, Len(s) + 1) => Settled(s, R, Len(s), 0)
  <2> SUFFICES ASSUME m + 1 = Len(s), Settled(s, R, m, Len(s) + 1),
                      NEW i \in 1..Len(s), NEW j \in 1..Len(s), i < j
               PROVE  <<s[i], s[j]>> \in R
    BY <1>1 DEF Settled
  <2>1. i < Len(s)
    BY <1>1
  <2> QED
    BY <1>3, <2>1
<1> QED
  BY <1>4, <1>5

(* The first place has nothing to settle, nor has a list of one.            *)
LEMMA NothingToSettle ==
    ASSUME NEW s \in Seq(Dev), NEW R
    PROVE  /\ Settled(s, R, 1, 2)
           /\ Len(s) <= 1 => Settled(s, R, Len(s), 0)
<1>1. Len(s) \in Nat /\ DOMAIN s = 1..Len(s)
  OBVIOUS
<1>2. Settled(s, R, 1, 2)
  <2> SUFFICES ASSUME NEW i \in 1..Len(s), NEW j \in 1..Len(s), i < j, i < 1 \/ (i = 1 /\ j < 2)
               PROVE  FALSE
    BY <1>1 DEF Settled
  <2> QED
    BY <1>1
<1>3. ASSUME Len(s) <= 1
      PROVE  Settled(s, R, Len(s), 0)
  <2> SUFFICES ASSUME NEW i \in 1..Len(s), NEW j \in 1..Len(s), i < j
               PROVE  FALSE
    BY <1>1 DEF Settled
  <2> QED
    BY <1>1, <1>3
<1> QED
  BY <1>2, <1>3

(* The relation does not change when the list does not.                     *)
LEMMA SettledStays ==
    ASSUME UNCHANGED <<cr, attr, list>>, Listed \subseteq Dev, NEW m, NEW n, SettledAll(m, n)
    PROVE  SettledAll(m, n)'
<1>1. Listed' = Listed
  BY DEF Listed
<1>2. \A u \in Keys : AllBy(u)' = AllBy(u)
  BY <1>1, AllByStays
<1>3. Settled(list, Ahead2, m, n)'
  BY OrderStays DEF SettledAll, Settled
<1>4. ASSUME NEW u \in Keys, AllBy(u)'
      PROVE  Settled(list, Ahead3(u), m, n)'
  BY <1>2, <1>4, OrderStays DEF SettledAll, Settled
<1> QED
  BY <1>3, <1>4 DEF SettledAll

LEMMA ComparisonKeeps ==
    IInv /\ Typed /\ SortInv /\ Sort => SortInv'
<1> SUFFICES ASSUME IInv, Typed, SortInv, Sort, cr.resource = None, cr.qos # "SOU"
             PROVE  SortInv'
  <2>1. Sort => cr' = cr
    BY DEF Sort
  <2> QED
    BY <2>1 DEF SortInv
<1>1. /\ UNCHANGED <<cr, attr>> /\ pass = "sort"
      /\ list \in Seq(Dev) /\ Distinct(list) /\ Len(list) \in Nat /\ num \in Nat \ {0}
  <2>1. UNCHANGED <<cr, attr>> /\ pass = "sort"
    BY DEF Sort, devices
  <2> QED
    BY <2>1 DEF IInv, ListOK
<1>2. /\ num < other /\ other <= Len(list) /\ other \in Nat
      /\ num \in 1..Len(list) /\ other \in 1..Len(list)
  BY <1>1 DEF IInv, SortOK
<1>3. usa \in Keys /\ SettledAll(num, other) /\ \A u \in Keys : AllBy(u) => usa = u
  BY <1>1 DEF SortInv
<1>4. list' = IF Behind(usa, list[num], list[other]) THEN Swapped(num, other) ELSE list
  BY DEF Sort
<1>5. /\ list' \in Seq(Dev) /\ Len(list') = Len(list)
      /\ Elements(list') = Elements(list)
  BY <1>1, <1>2, <1>4, SwapKeeps
<1>6. Listed' = Listed /\ Listed \subseteq Dev /\ Listed = Elements(list')
  <2>1. Listed = Elements(list) /\ Listed' = Elements(list')
    BY DEF Listed, Elements
  <2>2. Listed \subseteq Dev
    BY <1>1 DEF Listed
  <2> QED
    BY <2>1, <2>2, <1>5
<1>7. /\ Settled(list', Ahead2, num, other + 1)
      /\ \A u \in Keys : AllBy(u) => Settled(list', Ahead3(u), num, other + 1)
  <2>1. /\ list[num] \in Dev /\ list[other] \in Dev
        /\ Transitive(Ahead2) /\ \A u \in Keys : Transitive(Ahead3(u))
    BY <1>1, <1>2, AheadTransitive
  <2>2. \/ list' = list /\ <<list[num], list[other]>> \in Ahead3(usa) \intersect Ahead2
        \/ list' = Swapped(num, other) /\ <<list[other], list[num]>> \in Ahead3(usa) \intersect Ahead2
    BY <1>3, <1>4, <2>1, BehindIsOrder
  <2>3. Settled(list', Ahead2, num, other + 1)
    BY <1>1, <1>2, <1>3, <2>1, <2>2, ComparisonSettles DEF SettledAll
  <2>4. ASSUME NEW u \in Keys, AllBy(u)
        PROVE  Settled(list', Ahead3(u), num, other + 1)
    <3>1. usa = u /\ Settled(list, Ahead3(u), num, other)
      BY <1>3, <2>4 DEF SettledAll
    <3>2. \/ list' = list /\ <<list[num], list[other]>> \in Ahead3(u)
          \/ list' = Swapped(num, other) /\ <<list[other], list[num]>> \in Ahead3(u)
      BY <2>2, <3>1
    <3> QED
      BY <1>1, <1>2, <2>1, <3>1, <3>2, ComparisonSettles
  <2> QED
    BY <2>3, <2>4
<1>8. /\ \A u \in Keys : AllBy(u)' = AllBy(u) /\ Ahead3(u)' = Ahead3(u)
      /\ Ahead2' = Ahead2
  BY <1>1, <1>6, AllByStays, OrderStays
<1>9. CASE other < Len(list)
  <2>1. pass' = "sort" /\ num' = num /\ other' = other + 1 /\ usa' = usa
    <3>1. other # Len(list)
      BY <1>1, <1>2, <1>9
    <3> QED
      BY <1>1, <1>9, <3>1 DEF Sort
  <2>2. SettledAll(num, other)'
    BY <1>7, <1>8, <2>1 DEF SettledAll
  <2> QED
    BY <2>1, <2>2, <1>3, <1>8 DEF SortInv
<1>10. CASE other = Len(list) /\ num + 1 < Len(list)
  <2>1. pass' = "sort" /\ num' = num + 1 /\ other' = num + 2 /\ usa' = Usa(list'[num + 1])
    <3>1. (CASE other < Len(list) -> other' = other + 1 /\ UNCHANGED <<num, usa, pass>>
            [] other = Len(list) /\ num + 1 < Len(list) ->
                /\ num' = num + 1 /\ other' = num + 2
                /\ usa' = Usa(list'[num + 1])
                /\ UNCHANGED pass
            [] other = Len(list) /\ num + 1 = Len(list) ->
                pass' = "found" /\ num' = 1 /\ UNCHANGED <<other, usa>>)
      BY DEF Sort
    <3>2. ~(other < Len(list)) /\ ~(num + 1 = Len(list))
      BY <1>1, <1>2, <1>10
    <3> QED
      BY <1>1, <1>10, <3>1, <3>2
  <2>2. list'[num + 1] \in Listed
    BY <1>2, <1>5, <1>6, <1>10 DEF Elements
  <2>3. usa' \in Keys /\ \A u \in Keys : AllBy(u) => usa' = u
    BY <1>6, <2>1, <2>2, KeysAreIntegers DEF AllBy
  <2>4. SettledAll(num, other)'
    BY <1>2, <1>5, <1>7, <1>8, <1>10, <2>1, NextPlaceSettled DEF SettledAll
  <2> QED
    BY <2>1, <2>3, <2>4, <1>8 DEF SortInv
<1>11. CASE other = Len(list) /\ num + 1 = Len(list)
  <2>1. pass' = "found"
    BY <1>1, <1>2, <1>11 DEF Sort
  <2>2. SettledAll(Len(list), 0)'
    BY <1>2, <1>5, <1>7, <1>8, <1>11, NextPlaceSettled DEF SettledAll
  <2> QED
    BY <2>1, <2>2 DEF SortInv
<1> QED
  BY <1>2, <1>9, <1>10, <1>11

LEMMA SortInvHolds == Init => Typed /\ SortInv
<1> SUFFICES ASSUME Init PROVE Typed /\ SortInv
  OBVIOUS
<1>1. (CHOOSE v \in Variables : TRUE) \in Variables
  BY SettingsAssumption
<1>2. Typed
  BY <1>1 DEF Init, Typed
<1>3. SortInv
  BY DEF Init, SortInv
<1> QED
  BY <1>2, <1>3

LEMMA TypedKeeps == Typed /\ [Next]_vars => Typed'
<1> SUFFICES ASSUME Typed, [Next]_vars PROVE Typed'
  OBVIOUS
<1>1. attr' = attr
  <2>1. CASE Begin \/ Create \/ Created \/ CreateFails \/ Examine \/ NextRule
    BY <2>1 DEF Begin, Create, Created, CreateFails, Examine, NextRule, devices
  <2>2. CASE Shuffle \/ Shuffled \/ Look \/ NotFound
    BY <2>2 DEF Shuffle, Shuffled, Look, NotFound, devices
  <2>3. CASE Sort
    BY <2>3 DEF Sort, devices
  <2>4. CASE Try \/ Stat \/ Request \/ Flip
    BY <2>4 DEF Try, Stat, Request, Flip
  <2>5. CASE UNCHANGED vars
    BY <2>5 DEF vars, devices
  <2> QED
    BY <2>1, <2>2, <2>3, <2>4, <2>5 DEF Next
<1>2. cr' = cr \/ cr' \in {CallRequest(v) : v \in Variables}
  <2>1. CASE Begin
    BY <2>1 DEF Begin
  <2>2. CASE Create \/ Created \/ CreateFails \/ Examine \/ NextRule
    BY <2>2 DEF Create, Created, CreateFails, Examine, NextRule
  <2>3. CASE Shuffle \/ Shuffled \/ Look \/ NotFound
    BY <2>3 DEF Shuffle, Shuffled, Look, NotFound
  <2>4. CASE Sort
    BY <2>4 DEF Sort
  <2>5. CASE Try \/ Stat \/ Request \/ Flip
    BY <2>5 DEF Try, Stat, Request, Flip
  <2>6. CASE UNCHANGED vars
    BY <2>6 DEF vars
  <2> QED
    BY <2>1, <2>2, <2>3, <2>4, <2>5, <2>6 DEF Next
<1> QED
  BY <1>1, <1>2 DEF Typed

(* The sort begins at the first two places; one candidate needs none.       *)
LEMMA ShuffledKeeps == IInv /\ Typed /\ Shuffled => SortInv'
<1> SUFFICES ASSUME IInv, Typed, Shuffled PROVE SortInv'
  OBVIOUS
<1>1. /\ UNCHANGED <<cr, attr, list>>
      /\ num' = 1 /\ other' = 2
      /\ pass' = IF Len(list) > 1 THEN "sort" ELSE "found"
      /\ usa' = IF Len(list) > 1 THEN Usa(list[1]) ELSE usa
  BY DEF Shuffled, devices
<1>2. list \in Seq(Dev) /\ Len(list) \in Nat /\ DOMAIN list = 1..Len(list)
  BY DEF IInv, ListOK
<1>3. Listed \subseteq Dev /\ Listed' = Listed
  BY <1>1, <1>2 DEF Listed
<1>4. \A u \in Keys : AllBy(u)' = AllBy(u)
  BY <1>1, <1>3, AllByStays
<1>5. CASE Len(list) > 1
  <2>1. list[1] \in Listed
    BY <1>2, <1>5 DEF Listed
  <2>2. usa' \in Keys /\ \A u \in Keys : AllBy(u) => usa' = u
    BY <1>1, <1>3, <1>5, <2>1, KeysAreIntegers DEF AllBy
  <2>3. SettledAll(1, 2)
    BY <1>2, NothingToSettle DEF SettledAll
  <2>4. SettledAll(1, 2)'
    BY <1>1, <1>3, <2>3, SettledStays
  <2>5. pass' = "sort"
    BY <1>1, <1>5
  <2> QED
    BY <1>1, <1>4, <2>2, <2>4, <2>5 DEF SortInv, SettledAll
<1>6. CASE ~(Len(list) > 1)
  <2>1. SettledAll(Len(list), 0)
    BY <1>2, <1>6, NothingToSettle DEF SettledAll
  <2>2. SettledAll(Len(list), 0)'
    <3> DEFINE n == Len(list)
    <3>1. SettledAll(n, 0)
      BY <2>1
    <3>2. n' = n
      BY <1>1
    <3> QED
      BY <1>1, <1>3, <1>4, <2>1, OrderStays DEF SettledAll, Settled
  <2>3. pass' = "found"
    BY <1>1, <1>6
  <2> QED
    BY <2>2, <2>3 DEF SortInv
<1> QED
  BY <1>5, <1>6

(* While a device is chosen the order stays as it is.                       *)
LEMMA OrderedStays ==
    ASSUME IInv, SortInv, UNCHANGED <<cr, attr, list>>, UNCHANGED <<num, other, usa>>,
           pass' = pass
    PROVE  SortInv'
<1>1. Listed \subseteq Dev /\ Listed' = Listed
  BY DEF IInv, ListOK, Listed
<1>2. \A u \in Keys : AllBy(u)' = AllBy(u) /\ Ahead3(u)' = Ahead3(u)
  BY <1>1, AllByStays, OrderStays
<1>3. Ahead2' = Ahead2
  BY OrderStays
<1> QED
  BY <1>2, <1>3 DEF SortInv, SettledAll, Settled

LEMMA ChosenStays ==
    ASSUME IInv, SortInv, UNCHANGED <<cr, attr, list>>,
           pass \in {"found", "try"}, pass' \in {"found", "try"}
    PROVE  SortInv'
<1>1. Listed \subseteq Dev /\ Listed' = Listed
  BY DEF IInv, ListOK, Listed
<1>2. \A u \in Keys : AllBy(u)' = AllBy(u) /\ Ahead3(u)' = Ahead3(u)
  BY <1>1, AllByStays, OrderStays
<1>3. Ahead2' = Ahead2
  BY OrderStays
<1> QED
  BY <1>2, <1>3 DEF SortInv, SettledAll, Settled

LEMMA SortInvKeeps == IInv /\ Typed /\ SortInv /\ [Next]_vars => SortInv'
<1> SUFFICES ASSUME IInv, Typed, SortInv, [Next]_vars PROVE SortInv'
  OBVIOUS
<1>1. CASE Begin
  <2>1. pass' = (IF cr'.resource = None THEN "create" ELSE "found")
    BY <1>1 DEF Begin, PlainDial
  <2> QED
    BY <2>1 DEF SortInv
<1>2. CASE Create \/ Created \/ CreateFails \/ Examine \/ NextRule \/ Shuffle \/ NotFound \/ Stat
           \/ Request
  <2>1. CASE Create \/ Created \/ CreateFails \/ Shuffle \/ NotFound \/ Stat \/ Request
    BY <2>1 DEF Create, Created, CreateFails, Shuffle, NotFound, Stat, Request, SortInv
  <2>2. CASE Examine
    BY <2>2 DEF Examine, SortInv, Rules
  <2>3. CASE NextRule
    <3>1. pass' \in Rules \union {"shuffle"}
      BY <2>3, RulesInOrder DEF NextRule
    <3> QED
      BY <3>1 DEF SortInv, Rules
  <2> QED
    BY <1>2, <2>1, <2>2, <2>3
<1>3. CASE Shuffled
  BY <1>3, ShuffledKeeps
<1>4. CASE Sort
  BY <1>4, ComparisonKeeps
<1>5. CASE Look
  <2>1. UNCHANGED <<cr, attr, list>> /\ pass = "found" /\ pass' \in {"found", "try"}
    BY <1>5 DEF Look, devices
  <2> QED
    BY <2>1, ChosenStays
<1>6. CASE Try
  <2>1. UNCHANGED <<cr, attr, list>> /\ pass = "try" /\ pass' \in {"found", "stat"}
    BY <1>6 DEF Try
  <2>2. CASE pass' = "found"
    BY <2>1, <2>2, ChosenStays
  <2>3. CASE pass' = "stat"
    BY <2>3 DEF SortInv
  <2> QED
    BY <2>1, <2>2, <2>3
<1>7. CASE Flip
  <2>1. UNCHANGED <<cr, attr, list>> /\ UNCHANGED <<num, other, usa>> /\ pass' = pass
    BY <1>7 DEF Flip, loop
  <2> QED
    BY <2>1, OrderedStays
<1>8. CASE UNCHANGED vars
  <2>1. UNCHANGED <<cr, attr, list>> /\ UNCHANGED <<num, other, usa>> /\ pass' = pass
    BY <1>8 DEF vars, loop, devices
  <2> QED
    BY <2>1, OrderedStays
<1> QED
  BY <1>1, <1>2, <1>3, <1>4, <1>5, <1>6, <1>7, <1>8 DEF Next

(* Candidates are tried in the order of the numbers the SIMs were called    *)
(* from, then of priority, then of the third key if all go by the same, as  *)
(* pvt_select_sort() leaves them, whatever the shuffle did before.          *)
THEOREM SelectionSortedRight == Spec => []SortedRight
<1>1. Init => IInv /\ Typed /\ SortInv
  BY InitHolds, SortInvHolds
<1>2. IInv /\ Typed /\ SortInv /\ [Next]_vars => (IInv /\ Typed /\ SortInv)'
  BY BeginKeeps, CreateKeeps, ExamineKeeps, NextRuleKeeps, OrderKeeps, ChoiceKeeps, StutterKeeps,
     TypedKeeps, SortInvKeeps
  DEF Next
<1>3. IInv /\ Typed /\ SortInv => SortedRight
  <2> SUFFICES ASSUME IInv, Typed, SortInv, pass \in {"found", "try"},
                      cr.resource = None, cr.qos # "SOU",
                      NEW i \in DOMAIN list, NEW j \in DOMAIN list, i < j
               PROVE  /\ ImbPos(list[i]) <= ImbPos(list[j])
                      /\ ImbPos(list[i]) = ImbPos(list[j]) =>
                            attr[list[i]].priority >= attr[list[j]].priority
                      /\ /\ ImbPos(list[i]) = ImbPos(list[j])
                         /\ attr[list[i]].priority = attr[list[j]].priority
                         /\ \A k \in DOMAIN list : Usa(list[k]) = Usa(list[1])
                         => Third(Usa(list[1]), list[i]) >= Third(Usa(list[1]), list[j])
    BY DEF SortedRight
  <2> DEFINE d == list[i]
             e == list[j]
             u == Usa(list[1])
  <2>1. list \in Seq(Dev) /\ Len(list) \in Nat /\ DOMAIN list = 1..Len(list)
    BY DEF IInv, ListOK
  <2>2. d \in Dev /\ e \in Dev /\ list[1] \in Dev /\ i < Len(list)
    BY <2>1
  <2>3. SettledAll(Len(list), 0)
    BY DEF SortInv
  <2>4. <<d, e>> \in Ahead2
    BY <2>2, <2>3 DEF SettledAll, Settled
  <2>5. u \in Keys /\ ImbPos(d) \in Int /\ ImbPos(e) \in Int
        /\ attr[d].priority \in Int /\ attr[e].priority \in Int
    BY <2>2, KeysAreIntegers, PositionIsInteger
  <2>6. /\ ImbPos(d) <= ImbPos(e)
        /\ ImbPos(d) = ImbPos(e) => attr[d].priority >= attr[e].priority
    <3> HIDE DEF d, e
    <3> QED
      BY <2>4, <2>5 DEF Ahead2
  <2>7. ASSUME ImbPos(d) = ImbPos(e), attr[d].priority = attr[e].priority,
               \A k \in DOMAIN list : Usa(list[k]) = u
        PROVE  Third(u, d) >= Third(u, e)
    <3>1. AllBy(u)
      BY <2>7 DEF AllBy, Listed
    <3>2. <<d, e>> \in Ahead3(u)
      BY <2>2, <2>3, <2>5, <3>1 DEF SettledAll, Settled
    <3> HIDE DEF d, e, u
    <3> QED
      BY <2>5, <2>7, <3>2 DEF Ahead3
  <2> QED
    BY <2>6, <2>7
<1> QED
  BY <1>1, <1>2, <1>3, PTL DEF Spec
=============================================================================
