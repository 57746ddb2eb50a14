---------------------------- MODULE SessionProofs ----------------------------
(***************************************************************************)
(* A session with the modem, for every number of senders, whatever the     *)
(* modem answers.  All that is ever in the queue is the rest of one of the *)
(* scripts of at_command.c (Right); what is known of the scripts carries   *)
(* over to the queue.  Each theorem has an invariant of its own that rests *)
(* on the one about types and lines, Typed /\ OutRight.                    *)
(***************************************************************************)
EXTENDS Session, FiniteSetTheorems, SequenceTheorems, TLAPS

------------------------------------------------------------------------------
(* Commands and tasks *)

StartSet == {"AT", "E", "CGMI", "CGMM", "CGMR", "CMEE", "CGSN", "CFUN_V"}
SimSet == {"SN", "ICCID", "SPN", "CIMI", "FREQLOCK", "COPS_INIT", "CREG_INIT", "CREG", "CNUM",
           "CSSN", "CMGF", "CSCS", "CNMI", "CSQ", "CSNR"}
OtherSet == {"CMGS_PDU", "CMGS_TEXT", "SMSTEXT", "CUSD", "CMGR", "CMGD", "CLVL", "CCWA_SET",
             "CCWA_STATUS", "CFUN"}
Names == StartSet \cup SimSet \cup UserCmds \cup OtherSet

(* What is left of the script s when the k-th command is the next.          *)
From(s, k) == [i \in 1..(Len(s) - k + 1) |-> s[i + k - 1]]
Rest(s) == {From(s, k) : k \in 1..Len(s)}

Forward == <<"CCWA_SET", "CCWA_STATUS">>
Pairs   == {Pdu, Text, Volsync, Forward}
Singles == {<<c>> : c \in UserCmds \cup {"AT", "CUSD", "CFUN", "SMSTEXT", "CMGD", "CLVL",
                                         "CCWA_STATUS"}}
Right   == Rest(Startup) \cup Rest(SimInit) \cup Pairs \cup {Retrieve} \cup Singles

Has(t, c) == \E i \in 1..Len(t) : t[i] = c
Rng(q)    == {q[i] : i \in 1..Len(q)}
Any(q, c) == \E u \in Rng(q) : Has(u, c)

(* At most one task of q has the command c.                                 *)
One(q, c) == \A i, j \in 1..Len(q) : Has(q[i], c) /\ Has(q[j], c) => i = j

LEMMA StartupIs == Startup \in Seq(StartSet) /\ Len(Startup) = 8
  BY DEF Startup, StartSet

LEMMA SimInitEIs == SimInitE \in Seq(SimSet) /\ Len(SimInitE) = 15
  BY DEF SimInitE, SimSet

LEMMA CommandedIs == Commanded = Names
<1>1. {Startup[i] : i \in 1..Len(Startup)} = StartSet
  <2>1. Len(Startup) = 8 /\ 1..8 = {1, 2, 3, 4, 5, 6, 7, 8}
    BY DEF Startup
  <2>2. /\ Startup[1] = "AT" /\ Startup[2] = "E" /\ Startup[3] = "CGMI" /\ Startup[4] = "CGMM"
        /\ Startup[5] = "CGMR" /\ Startup[6] = "CMEE" /\ Startup[7] = "CGSN"
        /\ Startup[8] = "CFUN_V"
    BY DEF Startup
  <2> QED
    BY <2>1, <2>2 DEF StartSet
<1>2. {SimInitE[i] : i \in 1..Len(SimInitE)} = SimSet
  <2>1. Len(SimInitE) = 15 /\ 1..15 = {1, 2, 3, 4, 5, 6, 7, 8, 9, 10, 11, 12, 13, 14, 15}
    BY DEF SimInitE
  <2>2. /\ SimInitE[1] = "SN" /\ SimInitE[2] = "ICCID" /\ SimInitE[3] = "SPN"
        /\ SimInitE[4] = "CIMI" /\ SimInitE[5] = "FREQLOCK" /\ SimInitE[6] = "COPS_INIT"
        /\ SimInitE[7] = "CREG_INIT" /\ SimInitE[8] = "CREG" /\ SimInitE[9] = "CNUM"
        /\ SimInitE[10] = "CSSN" /\ SimInitE[11] = "CMGF" /\ SimInitE[12] = "CSCS"
        /\ SimInitE[13] = "CNMI" /\ SimInitE[14] = "CSQ" /\ SimInitE[15] = "CSNR"
    BY DEF SimInitE
  <2> QED
    BY <2>1, <2>2 DEF SimSet
<1> QED
  BY <1>1, <1>2 DEF Commanded, Names, OtherSet

(* What the proofs need to know of the set-up script of either modem.       *)
LEMMA SimInitIs ==
    /\ SimInit \in Seq(SimSet) /\ Len(SimInit) \in 1..15
    /\ \E n, m \in 1..Len(SimInit) :
          /\ m < n /\ SimInit[m] = "CMGF"
          /\ \A i \in 1..Len(SimInit) :
                /\ SimInit[i] = "CNMI" <=> i = n
                /\ SimInit[i] = "CMGF" <=> i = m
                /\ SimInit[i] \in {"SN", "ICCID", "CREG_INIT", "CNUM", "CSSN"} => i < n
<1>1. CASE Multiband
  <2> DEFINE s == <<"CIMI", "CREG_INIT", "CREG", "CSSN", "CMGF", "CNMI", "CSQ", "CSNR">>
  <2>1. SimInit = s
    BY <1>1 DEF SimInit, SimInitMB
  <2>2. s \in Seq(SimSet) /\ Len(s) = 8 /\ 1..8 = {1, 2, 3, 4, 5, 6, 7, 8}
    BY DEF SimSet
  <2>3. /\ s[1] = "CIMI" /\ s[2] = "CREG_INIT" /\ s[3] = "CREG" /\ s[4] = "CSSN"
        /\ s[5] = "CMGF" /\ s[6] = "CNMI" /\ s[7] = "CSQ" /\ s[8] = "CSNR"
    OBVIOUS
  <2> HIDE DEF s
  <2>4. \A i \in 1..8 : /\ s[i] = "CNMI" <=> i = 6
                        /\ s[i] = "CMGF" <=> i = 5
                        /\ s[i] \in {"SN", "ICCID", "CREG_INIT", "CNUM", "CSSN"} => i < 6
    BY <2>2, <2>3
  <2> QED
    BY <2>1, <2>2, <2>3, <2>4
<1>2. CASE ~Multiband
  <2>1. SimInit = SimInitE
    BY <1>2 DEF SimInit
  <2>2. Len(SimInitE) = 15 /\ 1..15 = {1, 2, 3, 4, 5, 6, 7, 8, 9, 10, 11, 12, 13, 14, 15}
    BY DEF SimInitE
  <2>3. /\ SimInitE[1] = "SN" /\ SimInitE[2] = "ICCID" /\ SimInitE[3] = "SPN"
        /\ SimInitE[4] = "CIMI" /\ SimInitE[5] = "FREQLOCK" /\ SimInitE[6] = "COPS_INIT"
        /\ SimInitE[7] = "CREG_INIT" /\ SimInitE[8] = "CREG" /\ SimInitE[9] = "CNUM"
        /\ SimInitE[10] = "CSSN" /\ SimInitE[11] = "CMGF" /\ SimInitE[12] = "CSCS"
        /\ SimInitE[13] = "CNMI" /\ SimInitE[14] = "CSQ" /\ SimInitE[15] = "CSNR"
    BY DEF SimInitE
  <2>4. \A i \in 1..15 : /\ SimInitE[i] = "CNMI" <=> i = 13
                         /\ SimInitE[i] = "CMGF" <=> i = 11
                         /\ SimInitE[i] \in {"SN", "ICCID", "CREG_INIT", "CNUM", "CSSN"} => i < 13
    BY <2>2, <2>3
  <2> QED
    BY <2>1, <2>2, <2>3, <2>4, SimInitEIs
<1> QED
  BY <1>1, <1>2

LEMMA SeqWithin ==
    ASSUME NEW S, NEW T, S \subseteq T, NEW s \in Seq(S)
    PROVE  s \in Seq(T)
<1>1. \A i \in 1..Len(s) : s[i] \in T
  BY ElementOfSeq
<1>2. Len(s) \in Nat /\ s = [i \in 1..Len(s) |-> s[i]]
  BY LenProperties
<1> QED
  BY <1>1, <1>2, SeqDef

LEMMA RestIs ==
    ASSUME NEW S, NEW s \in Seq(S), NEW t \in Rest(s)
    PROVE  /\ t \in Seq(S) /\ t # <<>> /\ Len(t) \in 1..Len(s)
           /\ Len(t) > 1 => Tail(t) \in Rest(s)
<1>1. PICK k \in 1..Len(s) : t = From(s, k)
  BY DEF Rest
<1> DEFINE n == Len(s) - k + 1
<1>2. n \in 1..Len(s) /\ Len(s) \in Nat
  BY <1>1
<1>3. t = [i \in 1..n |-> s[i + k - 1]]
  BY <1>1 DEF From
<1>4. \A i \in 1..n : i + k - 1 \in 1..Len(s) /\ s[i + k - 1] \in S
  <2>1. \A j \in 1..Len(s) : s[j] \in S
    BY ElementOfSeq
  <2>2. \A i \in 1..n : i + k - 1 \in 1..Len(s)
    BY <1>2
  <2> QED
    BY <2>1, <2>2
<1> HIDE DEF n
<1>5. t \in Seq(S) /\ Len(t) = n /\ t # <<>>
  <2>1. t \in [1..n -> S]
    BY <1>3, <1>4
  <2>2. n \in Nat /\ n # 0
    BY <1>2
  <2>3. t \in Seq(S)
    BY <2>1, <2>2, SeqDef
  <2>4. Len(t) = n
    BY <2>1, <2>2, <2>3, LenProperties
  <2> QED
    BY <2>2, <2>3, <2>4, EmptySeq
<1>6. ASSUME Len(t) > 1 PROVE Tail(t) \in Rest(s)
  <2>1. k + 1 \in 1..Len(s) /\ n - 1 = Len(s) - (k + 1) + 1
    BY <1>2, <1>5, <1>6 DEF n
  <2>2. Tail(t) = [i \in 1..(n - 1) |-> t[i + 1]]
    <3>1. /\ Tail(t) \in Seq(S) /\ Len(Tail(t)) = n - 1
          /\ \A i \in 1..(n - 1) : Tail(t)[i] = t[i + 1]
      BY <1>5, HeadTailProperties
    <3>2. Tail(t) = [i \in 1..Len(Tail(t)) |-> Tail(t)[i]]
      BY <3>1, LenProperties
    <3> QED
      BY <3>1, <3>2
  <2>3. \A i \in 1..(n - 1) : i + 1 \in 1..n /\ (i + 1) + k - 1 = i + (k + 1) - 1
    BY <1>2
  <2>4. \A i \in 1..(n - 1) : t[i + 1] = s[i + (k + 1) - 1]
    BY <1>3, <2>3
  <2>5. Tail(t) = From(s, k + 1)
    BY <2>1, <2>2, <2>4 DEF From
  <2> QED
    BY <2>1, <2>5 DEF Rest
<1> QED
  BY <1>2, <1>5, <1>6

LEMMA SinglesAre ==
    ASSUME NEW t \in Singles
    PROVE  /\ t \in Seq(Names) /\ Len(t) = 1
           /\ t[1] \in UserCmds \cup {"AT", "CUSD", "CFUN", "SMSTEXT", "CMGD", "CLVL",
                                      "CCWA_STATUS"}
<1>1. PICK c \in UserCmds \cup {"AT", "CUSD", "CFUN", "SMSTEXT", "CMGD", "CLVL", "CCWA_STATUS"} :
           t = <<c>>
  BY DEF Singles
<1>2. c \in Names
  BY DEF Names, StartSet, OtherSet
<1> QED
  BY <1>1, <1>2

LEMMA PairsAre ==
    ASSUME NEW t \in Pairs
    PROVE  /\ t \in Seq(Names) /\ Len(t) = 2 /\ Tail(t) \in Singles
           /\ t[1] \in {"CMGS_PDU", "CMGS_TEXT", "CLVL", "CCWA_SET"}
           /\ t[2] \in {"SMSTEXT", "CLVL", "CCWA_STATUS"}
<1>1. CASE t = Pdu
  BY <1>1 DEF Pdu, Names, OtherSet, Singles
<1>2. CASE t = Text
  BY <1>2 DEF Text, Names, OtherSet, Singles
<1>3. CASE t = Volsync
  BY <1>3 DEF Volsync, Names, OtherSet, Singles
<1>4. CASE t = Forward
  BY <1>4 DEF Forward, Names, OtherSet, Singles
<1> QED
  BY <1>1, <1>2, <1>3, <1>4 DEF Pairs

LEMMA RetrieveIs ==
    /\ Retrieve \in Seq(Names) /\ Len(Retrieve) \in 1..2 /\ Retrieve[1] = "CMGR"
    /\ Len(Retrieve) > 1 => Retrieve[2] = "CMGD" /\ Tail(Retrieve) \in Singles
<1>1. CASE AutoDelete
  BY <1>1 DEF Retrieve, Names, OtherSet, Singles
<1>2. CASE ~AutoDelete
  BY <1>2 DEF Retrieve, Names, OtherSet
<1> QED
  BY <1>1, <1>2

LEMMA RightIs ==
    ASSUME NEW t \in Right
    PROVE  /\ t \in Seq(Names) /\ t # <<>> /\ Len(t) \in 1..15
           /\ Len(t) > 1 => Tail(t) \in Right
<1>1. StartSet \subseteq Names /\ SimSet \subseteq Names
  BY DEF Names
<1>2. CASE t \in Rest(Startup)
  <2>1. t \in Seq(StartSet) /\ t # <<>> /\ Len(t) \in 1..8 /\ (Len(t) > 1 => Tail(t) \in Rest(Startup))
    BY <1>2, StartupIs, RestIs
  <2>2. t \in Seq(Names)
    BY <1>1, <2>1, SeqWithin
  <2> QED
    BY <2>1, <2>2 DEF Right
<1>3. CASE t \in Rest(SimInit)
  <2>0. SimInit \in Seq(SimSet) /\ Len(SimInit) \in 1..15
    BY SimInitIs
  <2>1. /\ t \in Seq(SimSet) /\ t # <<>> /\ Len(t) \in 1..Len(SimInit)
        /\ Len(t) > 1 => Tail(t) \in Rest(SimInit)
    BY <1>3, <2>0, RestIs
  <2>2. t \in Seq(Names)
    BY <1>1, <2>1, SeqWithin
  <2>3. Len(t) \in 1..15
    <3>1. \A a, b : b \in 1..15 /\ a \in 1..b => a \in 1..15
      OBVIOUS
    <3> QED
      BY <2>0, <2>1, <3>1, Zenon
  <2>4. Len(t) > 1 => Tail(t) \in Right
    BY <2>1 DEF Right
  <2> QED
    BY <2>1, <2>2, <2>3, <2>4
<1>4. CASE t \in Pairs
  BY <1>4, PairsAre DEF Right
<1>5. CASE t = Retrieve
  BY <1>5, RetrieveIs DEF Right
<1>6. CASE t \in Singles
  <2>1. t \in Seq(Names) /\ Len(t) = 1
    BY <1>6, SinglesAre
  <2>2. t # <<>>
    BY <2>1
  <2> QED
    BY <2>1, <2>2
<1> QED
  BY <1>2, <1>3, <1>4, <1>5, <1>6 DEF Right

LEMMA HasTail ==
    ASSUME NEW t \in Right
    PROVE  /\ Len(t) > 1 => \A c : Has(t, c) <=> t[1] = c \/ Has(Tail(t), c)
           /\ Len(t) = 1 => \A c : Has(t, c) <=> t[1] = c
           /\ Has(t, t[1])
<1>1. t \in Seq(Names) /\ t # <<>> /\ Len(t) \in 1..15
  BY RightIs
<1>2. Len(Tail(t)) = Len(t) - 1 /\ \A i \in 1..(Len(t) - 1) : Tail(t)[i] = t[i + 1]
  BY <1>1, HeadTailProperties
<1>3. \A i \in 1..Len(t) : i = 1 \/ (i - 1 \in 1..(Len(t) - 1) /\ (i - 1) + 1 = i)
  BY <1>1
<1>4. \A i \in 1..(Len(t) - 1) : i + 1 \in 1..Len(t)
  BY <1>1
<1>5. 1 \in 1..Len(t)
  BY <1>1
<1>6. ASSUME NEW c, Has(t, c) PROVE t[1] = c \/ Has(Tail(t), c)
  <2>1. PICK i \in 1..Len(t) : t[i] = c
    BY <1>6 DEF Has
  <2>2. CASE i = 1
    BY <2>1, <2>2
  <2>3. CASE i # 1
    BY <1>2, <1>3, <2>1, <2>3 DEF Has
  <2> QED
    BY <2>2, <2>3
<1>7. ASSUME NEW c, t[1] = c \/ Has(Tail(t), c) PROVE Has(t, c)
  BY <1>2, <1>4, <1>5, <1>7 DEF Has
<1>8. ASSUME Len(t) = 1, NEW c, Has(t, c) PROVE t[1] = c
  BY <1>8 DEF Has
<1> QED
  BY <1>5, <1>6, <1>7, <1>8 DEF Has

(* The commands that matter are in few tasks.                               *)
LEMMA PairHas ==
    ASSUME NEW t \in Pairs, NEW c
    PROVE  Has(t, c) <=> c = t[1] \/ c = t[2]
<1>1. Len(t) = 2
  BY PairsAre
<1> QED
  BY <1>1 DEF Has

LEMMA SingleHas ==
    ASSUME NEW t \in Singles, NEW c
    PROVE  Has(t, c) <=> c = t[1]
<1>1. Len(t) = 1
  BY SinglesAre
<1> QED
  BY <1>1 DEF Has

LEMMA RetrieveHas ==
    ASSUME NEW c, Has(Retrieve, c)
    PROVE  c \in {"CMGR", "CMGD"}
<1>1. PICK i \in 1..Len(Retrieve) : Retrieve[i] = c
  BY DEF Has
<1>2. i = 1 \/ (i = 2 /\ Len(Retrieve) > 1)
  BY <1>1, RetrieveIs
<1> QED
  BY <1>1, <1>2, RetrieveIs

LEMMA RestHas ==
    ASSUME NEW S, NEW s \in Seq(S), NEW t \in Rest(s), NEW c, Has(t, c)
    PROVE  c \in S
<1>1. t \in Seq(S)
  BY RestIs
<1> QED
  BY <1>1, ElementOfSeq DEF Has

LEMMA OthersHave ==
    ASSUME NEW t \in Right, NEW c \in OtherSet \cup {"user"}, Has(t, c)
    PROVE  t \in Pairs \cup {Retrieve} \cup Singles
<1>1. t \notin Rest(Startup)
  BY StartupIs, RestHas DEF StartSet, OtherSet
<1>2. t \notin Rest(SimInit)
  BY SimInitIs, RestHas DEF SimSet, OtherSet
<1> QED
  BY <1>1, <1>2 DEF Right

LEMMA TasksWith ==
    ASSUME NEW t \in Right
    PROVE  /\ Has(t, "CLVL") => t = Volsync \/ t = <<"CLVL">>
           /\ Has(t, "SMSTEXT") => t = Pdu \/ t = Text \/ t = <<"SMSTEXT">>
           /\ Has(t, "CMGS_PDU") => t = Pdu
           /\ Has(t, "CMGS_TEXT") => t = Text
           /\ Has(t, "CUSD") => t = <<"CUSD">>
           /\ Has(t, "CMGR") => t = Retrieve
<1>1. CASE t \in Pairs
  <2>1. \A c : Has(t, c) <=> c = t[1] \/ c = t[2]
    BY <1>1, PairHas
  <2>2. /\ Pdu[1] = "CMGS_PDU" /\ Pdu[2] = "SMSTEXT" /\ Text[1] = "CMGS_TEXT"
        /\ Text[2] = "SMSTEXT" /\ Volsync[1] = "CLVL" /\ Volsync[2] = "CLVL"
        /\ Forward[1] = "CCWA_SET" /\ Forward[2] = "CCWA_STATUS"
    BY DEF Pdu, Text, Volsync, Forward
  <2>3. t = Pdu \/ t = Text \/ t = Volsync \/ t = Forward
    BY <1>1 DEF Pairs
  <2> QED
    BY <2>1, <2>2, <2>3
<1>2. CASE t = Retrieve
  BY <1>2, RetrieveHas
<1>3. CASE t \in Singles
  <2>1. PICK d \in UserCmds \cup {"AT", "CUSD", "CFUN", "SMSTEXT", "CMGD", "CLVL", "CCWA_STATUS"} :
             t = <<d>>
    BY <1>3 DEF Singles
  <2>2. \A c : Has(t, c) <=> c = d
    BY <1>3, <2>1, SingleHas
  <2>3. d \notin {"CMGS_PDU", "CMGS_TEXT", "CMGR"}
    BY DEF UserCmds
  <2> QED
    BY <2>1, <2>2, <2>3
<1> QED
  BY <1>1, <1>2, <1>3, OthersHave DEF OtherSet

LEMMA HeadsWith ==
    /\ \A t \in Right : t[1] \in {"CMGS_PDU", "CMGS_TEXT"} => t \in {Pdu, Text}
    /\ \A t \in Right : t[1] = "CUSD" => t = <<"CUSD">>
    /\ \A t \in Right : t[1] = "SMSTEXT" => t = <<"SMSTEXT">>
    /\ \A t \in Right : t[1] = "CMGR" => t = Retrieve
    /\ \A t \in Right : t[1] = "CLVL" => t = Volsync \/ t = <<"CLVL">>
<1>1. \A t \in Right : Has(t, t[1])
  BY HasTail
<1>2. Pdu[1] # "SMSTEXT" /\ Text[1] # "SMSTEXT"
  BY DEF Pdu, Text
<1> QED
  BY <1>1, <1>2, TasksWith

LateCritical == {"SN", "ICCID", "CREG_INIT", "CNUM", "CSSN", "CNMI"}

LEMMA SetUpHas ==
    ASSUME NEW t \in Rest(SimInit)
    PROVE  /\ t[1] \in {SimInit[i] : i \in 1..Len(SimInit)}
           /\ t[1] = "CNMI" => /\ ~Has(t, "CMGF")
                               /\ Len(t) > 1 => ~Has(Tail(t), "CNMI")
           /\ t[1] \in LateCritical => Has(t, "CNMI")
<1>1. PICK k \in 1..Len(SimInit) : t = From(SimInit, k)
  BY DEF Rest
<1>2. SimInit \in Seq(SimSet) /\ Len(SimInit) \in Nat
  BY SimInitIs
<1> DEFINE l == Len(SimInit)
<1>3. PICK n \in 1..l, m \in 1..l :
          /\ m < n /\ SimInit[m] = "CMGF"
          /\ \A i \in 1..l :
                /\ SimInit[i] = "CNMI" <=> i = n
                /\ SimInit[i] = "CMGF" <=> i = m
                /\ SimInit[i] \in {"SN", "ICCID", "CREG_INIT", "CNUM", "CSSN"} => i < n
  BY SimInitIs
<1>4. t \in Seq(SimSet) /\ Len(t) = l - k + 1 /\ \A i \in 1..(l - k + 1) : t[i] = SimInit[i + k - 1]
  <2>1. t \in Seq(SimSet) /\ Len(t) \in Nat
    BY <1>2, RestIs
  <2>2. DOMAIN t = 1..Len(t) /\ DOMAIN t = 1..(l - k + 1) /\ l - k + 1 \in Nat
    BY <1>1, <1>2, <2>1, LenProperties DEF From
  <2>3. Len(t) = l - k + 1
    <3>1. \A a, b \in Nat : 1..a = 1..b => a = b
      OBVIOUS
    <3> QED
      BY <2>1, <2>2, <3>1
  <2> QED
    BY <1>1, <2>1, <2>3 DEF From
<1> HIDE DEF l
<1>5. l \in Nat
  BY <1>2 DEF l
<1>6. t[1] = SimInit[k] /\ k \in 1..l
  BY <1>1, <1>4, <1>5 DEF l
<1>7. \A i \in 1..(l - k + 1) : i + k - 1 \in 1..l /\ (i > 1 => i + k - 1 > k)
  BY <1>5, <1>6
<1>8. ASSUME t[1] = "CNMI" PROVE ~Has(t, "CMGF") /\ (Len(t) > 1 => ~Has(Tail(t), "CNMI"))
  <2>1. k = n
    BY <1>3, <1>6, <1>8 
  <2>2. \A i \in 1..(l - k + 1) : t[i] # "CMGF" /\ (i > 1 => t[i] # "CNMI")
    <3> TAKE i \in 1..(l - k + 1)
    <3>1. /\ i + k - 1 \in 1..l /\ i + k - 1 # m
          /\ i > 1 => i + k - 1 # n
      BY <1>3, <1>5, <1>6, <1>7, <2>1
    <3>2. t[i] = SimInit[i + k - 1]
      BY <1>4
    <3> QED
      BY <1>3, <3>1, <3>2
  <2>3. ~Has(t, "CMGF")
    BY <1>4, <2>2 DEF Has
  <2>4. ASSUME Len(t) > 1, Has(Tail(t), "CNMI") PROVE FALSE
    <3>1. PICK i \in 1..Len(Tail(t)) : Tail(t)[i] = "CNMI"
      BY <2>4 DEF Has
    <3>2. t # <<>> /\ Len(Tail(t)) = Len(t) - 1 /\ Tail(t)[i] = t[i + 1]
      BY <1>4, <2>4, <3>1, HeadTailProperties
    <3>3. i + 1 \in 1..(l - k + 1) /\ i + 1 > 1
      BY <1>4, <1>5, <3>1, <3>2
    <3> QED
      BY <2>2, <3>1, <3>2, <3>3
  <2> QED
    BY <2>3, <2>4
<1>9. ASSUME t[1] \in LateCritical PROVE Has(t, "CNMI")
  <2>1. k <= n /\ SimInit[n] = "CNMI"
    BY <1>3, <1>5, <1>6, <1>9 DEF LateCritical
  <2>2. n - k + 1 \in 1..(l - k + 1) /\ (n - k + 1) + k - 1 = n
    BY <1>3, <1>5, <1>6, <2>1
  <2>3. t[n - k + 1] = "CNMI"
    BY <1>4, <2>1, <2>2
  <2> QED
    BY <1>4, <2>2, <2>3 DEF Has
<1> QED
  BY <1>6, <1>8, <1>9 DEF l

LEMMA SetUpScript ==
    SimInit \in Right /\ Has(SimInit, "CNMI") /\ Has(SimInit, "CMGF")
<1>1. Len(SimInit) \in 1..15 /\ SimInit \in Seq(SimSet)
  BY SimInitIs
<1>2. SimInit = From(SimInit, 1)
  <2>1. Len(SimInit) - 1 + 1 = Len(SimInit) /\ \A i \in 1..Len(SimInit) : i + 1 - 1 = i
    BY <1>1
  <2>2. SimInit = [i \in 1..Len(SimInit) |-> SimInit[i]]
    BY <1>1, LenProperties
  <2> QED
    BY <2>1, <2>2 DEF From
<1>3. \E n, m \in 1..Len(SimInit) : SimInit[n] = "CNMI" /\ SimInit[m] = "CMGF"
  BY SimInitIs
<1> QED
  BY <1>1, <1>2, <1>3 DEF Right, Rest, Has

LEMMA StartupScript == Startup \in Rest(Startup) /\ Startup \in Right
<1>1. Len(Startup) = 8 /\ Startup \in Seq(StartSet)
  BY StartupIs
<1>2. Startup = From(Startup, 1)
  <2>1. Len(Startup) - 1 + 1 = Len(Startup) /\ \A i \in 1..Len(Startup) : i + 1 - 1 = i
    BY <1>1
  <2>2. Startup = [i \in 1..Len(Startup) |-> Startup[i]]
    BY <1>1, LenProperties
  <2> QED
    BY <2>1, <2>2 DEF From
<1> QED
  BY <1>1, <1>2 DEF Right, Rest

LEMMA LateInSetUp ==
    ASSUME NEW t \in Right, t[1] \in LateCritical
    PROVE  Has(t, "CNMI")
<1>0. Has(t, t[1])
  BY HasTail
<1>1. t \notin Rest(Startup)
  BY <1>0, StartupIs, RestHas DEF StartSet, LateCritical
<1>2. t \notin Pairs
  BY PairsAre DEF LateCritical
<1>3. t \notin Singles
  BY SinglesAre DEF LateCritical, UserCmds
<1>4. t # Retrieve
  BY RetrieveIs DEF LateCritical
<1>5. t \in Rest(SimInit)
  BY <1>1, <1>2, <1>3, <1>4 DEF Right
<1> QED
  BY <1>5, SetUpHas

LEMMA SetUpTasks ==
    ASSUME NEW t \in Right, Has(t, "CNMI")
    PROVE  t \in Rest(SimInit)
<1>1. t \notin Rest(Startup)
  BY StartupIs, RestHas DEF StartSet
<1>2. t \notin Pairs
  BY PairsAre, PairHas
<1>3. t \notin Singles
  BY SinglesAre, SingleHas DEF UserCmds
<1>4. t # Retrieve
  BY RetrieveHas
<1> QED
  BY <1>1, <1>2, <1>3, <1>4 DEF Right

(* Commands that the invariants follow through the queue; a quiet task has  *)
(* none of them.                                                            *)
Marks == {"CNMI", "CLVL", "SMSTEXT", "CMGS_PDU", "CMGS_TEXT", "CUSD", "CMGR"}

Quiet(t)  == \A c \in Marks : ~Has(t, c)
Marked(q) == {u \in Rng(q) : ~Quiet(u)}

QuietSet == {<<c>> : c \in UserCmds \cup {"AT", "CFUN"}} \cup {Startup, Forward}

LEMMA QuietTasks ==
    ASSUME NEW t \in QuietSet
    PROVE  t \in Right /\ Quiet(t)
<1>1. CASE t = Startup
  BY <1>1, StartupScript, StartupIs, RestHas DEF Quiet, Marks, StartSet, Right
<1>2. CASE t = Forward
  <2>1. t \in Pairs /\ t[1] = "CCWA_SET" /\ t[2] = "CCWA_STATUS"
    BY <1>2 DEF Pairs, Forward
  <2> QED
    BY <2>1, PairHas DEF Quiet, Marks, Right
<1>3. CASE t # Startup /\ t # Forward
  <2>1. PICK c \in UserCmds \cup {"AT", "CFUN"} : t = <<c>>
    BY <1>3 DEF QuietSet
  <2>2. t \in Singles
    BY <2>1 DEF Singles
  <2>3. c \notin Marks
    BY DEF Marks, UserCmds
  <2>4. \A d : Has(t, d) <=> d = c
    BY <2>1, <2>2, SingleHas
  <2> QED
    BY <2>2, <2>3, <2>4 DEF Quiet, Right
<1> QED
  BY <1>1, <1>2, <1>3

------------------------------------------------------------------------------
(* The queue *)

(* t is added at the end, or behind the first task.                         *)
Joined(q, t) == {Append(q, t), IF q = <<>> THEN <<t>> ELSE <<q[1], t>> \o Tail(q)}

Spliced(q, t, r, k) ==
    /\ k \in 1..Len(r) /\ r[k] = t /\ (q # <<>> => k > 1)
    /\ \A i \in 1..(k - 1) : r[i] = q[i]
    /\ \A i \in (k + 1)..Len(r) : r[i] = q[i - 1]

LEMMA JoinedIs ==
    ASSUME NEW S, NEW q \in Seq(S), NEW t \in S, NEW r \in Joined(q, t)
    PROVE  r \in Seq(S) /\ Len(r) = Len(q) + 1 /\ \E k : Spliced(q, t, r, k)
<1>0. Len(q) \in Nat /\ (q # <<>> => Len(q) > 0)
  <2>1. Len(q) \in Nat /\ (q # <<>> => Len(q) \in Nat \ {0})
    BY EmptySeq, LenProperties, Zenon
  <2> QED
    BY <2>1
<1>1. CASE r = Append(q, t)
  <2>1. /\ r \in Seq(S) /\ Len(r) = Len(q) + 1 /\ r[Len(q) + 1] = t
        /\ \A i \in 1..Len(q) : r[i] = q[i]
    BY <1>1, AppendProperties
  <2>2. Spliced(q, t, r, Len(q) + 1)
    BY <1>0, <2>1 DEF Spliced
  <2> QED
    BY <2>1, <2>2
<1>2. CASE q = <<>> /\ r = <<t>>
  <2>1. r \in Seq(S) /\ Len(r) = Len(q) + 1 /\ r[1] = t /\ Len(r) = 1
    BY <1>2
  <2>2. Spliced(q, t, r, 1)
    BY <1>2, <2>1 DEF Spliced
  <2> QED
    BY <2>1, <2>2
<1>3. CASE q # <<>> /\ r = <<q[1], t>> \o Tail(q)
  <2>1. /\ q[1] \in S /\ Tail(q) \in Seq(S) /\ Len(Tail(q)) = Len(q) - 1
        /\ \A i \in 1..(Len(q) - 1) : Tail(q)[i] = q[i + 1]
    BY <1>0, <1>3, HeadTailProperties
  <2> DEFINE p == <<q[1], t>>
  <2>2. p \in Seq(S) /\ Len(p) = 2 /\ p[1] = q[1] /\ p[2] = t
    BY <2>1
  <2> HIDE DEF p
  <2>3. /\ r \in Seq(S) /\ Len(r) = Len(q) + 1
        /\ \A i \in 1..Len(r) : r[i] = IF i <= 2 THEN p[i] ELSE Tail(q)[i - 2]
    <3>1. r = p \o Tail(q)
      BY <1>3 DEF p
    <3>2. r \in Seq(S) /\ Len(r) = Len(p) + Len(Tail(q))
      BY <2>1, <2>2, <3>1, ConcatProperties
    <3>3. \A i \in 1..(Len(p) + Len(Tail(q))) :
             r[i] = IF i <= Len(p) THEN p[i] ELSE Tail(q)[i - Len(p)]
      BY <2>1, <2>2, <3>1, ConcatProperties
    <3> QED
      BY <1>0, <2>1, <2>2, <3>2, <3>3
  <2>4. \A i \in 1..Len(r) : i > 2 => i - 2 \in 1..(Len(q) - 1) /\ (i - 2) + 1 = i - 1
    BY <1>0, <2>3
  <2>5. r[1] = q[1] /\ r[2] = t /\ \A i \in 3..Len(r) : r[i] = q[i - 1]
    BY <1>0, <1>3, <2>1, <2>2, <2>3, <2>4
  <2>6. Spliced(q, t, r, 2)
    BY <1>0, <1>3, <2>3, <2>5 DEF Spliced
  <2> QED
    BY <2>3, <2>6
<1> QED
  BY <1>1, <1>2, <1>3 DEF Joined

(* What an insertion does to the tasks of the queue.                        *)
LEMMA JoinedHolds ==
    ASSUME NEW q \in Seq(Right), NEW t \in Right, NEW r \in Joined(q, t)
    PROVE  /\ r \in Seq(Right) /\ r # <<>> /\ r # q
           /\ First(r) = IF q = <<>> THEN t[1] ELSE First(q)
           /\ Rng(r) = Rng(q) \cup {t}
           /\ \A c : One(q, c) /\ ~(Has(t, c) /\ Any(q, c)) => One(r, c)
<1>1. r \in Seq(Right) /\ Len(r) = Len(q) + 1 /\ \E k : Spliced(q, t, r, k)
  BY JoinedIs
<1>2. PICK k : Spliced(q, t, r, k)
  BY <1>1
<1>3. Len(q) \in Nat /\ (q = <<>> => Len(q) = 0) /\ (q # <<>> => Len(q) \in Nat \ {0})
  BY EmptySeq, LenProperties, Zenon
<1>4. /\ k \in 1..(Len(q) + 1) /\ r[k] = t /\ (q # <<>> => k > 1)
      /\ \A i \in 1..(k - 1) : r[i] = q[i]
      /\ \A i \in (k + 1)..(Len(q) + 1) : r[i] = q[i - 1]
  BY <1>1, <1>2 DEF Spliced
<1>5. \A i \in 1..(Len(q) + 1) : \/ i = k
                                 \/ i \in 1..(k - 1) /\ i \in 1..Len(q)
                                 \/ i \in (k + 1)..(Len(q) + 1) /\ i - 1 \in 1..Len(q)
  BY <1>3, <1>4
<1>6. \A i \in 1..Len(q) : \/ i \in 1..(k - 1) /\ i \in 1..(Len(q) + 1)
                           \/ i + 1 \in (k + 1)..(Len(q) + 1) /\ (i + 1) - 1 = i
  BY <1>3, <1>4
<1>7. Rng(r) = Rng(q) \cup {t}
  <2>1. \A i \in 1..(Len(q) + 1) : r[i] \in Rng(q) \cup {t}
    BY <1>4, <1>5 DEF Rng
  <2>2. \A i \in 1..Len(q) : \E j \in 1..(Len(q) + 1) : r[j] = q[i]
    <3> TAKE i \in 1..Len(q)
    <3>1. CASE i \in 1..(k - 1) /\ i \in 1..(Len(q) + 1)
      BY <1>4, <3>1
    <3>2. CASE i + 1 \in (k + 1)..(Len(q) + 1) /\ (i + 1) - 1 = i
      <4>1. r[i + 1] = q[i] /\ i + 1 \in 1..(Len(q) + 1)
        BY <1>3, <1>4, <3>2
      <4> QED
        BY <4>1
    <3> QED
      BY <1>6, <3>1, <3>2
  <2>3. k \in 1..Len(r)
    BY <1>1, <1>4
  <2>4. Rng(r) \subseteq Rng(q) \cup {t}
    BY <1>1, <2>1 DEF Rng
  <2>5. Rng(q) \cup {t} \subseteq Rng(r)
    BY <1>1, <1>4, <2>2, <2>3 DEF Rng
  <2> QED
    BY <2>4, <2>5
<1>8. r # <<>> /\ r # q
  <2>1. Len(r) # 0 /\ Len(r) # Len(q)
    BY <1>1, <1>3
  <2> QED
    BY <2>1, EmptySeq
<1>9. First(r) = IF q = <<>> THEN t[1] ELSE First(q)
  <2>1. CASE q = <<>>
    <3>1. k = 1
      BY <1>3, <1>4, <2>1
    <3> QED
      BY <1>4, <1>8, <2>1, <3>1 DEF First
  <2>2. CASE q # <<>>
    <3>1. 1 \in 1..(k - 1)
      BY <1>4, <2>2
    <3> QED
      BY <1>4, <1>8, <2>2, <3>1 DEF First
  <2> QED
    BY <2>1, <2>2
<1>10. ASSUME NEW c, One(q, c), ~(Has(t, c) /\ Any(q, c)) PROVE One(r, c)
  <2> SUFFICES ASSUME NEW i \in 1..(Len(q) + 1), NEW j \in 1..(Len(q) + 1), Has(r[i], c), Has(r[j], c)
               PROVE  i = j
    BY <1>1 DEF One
  <2>1. CASE Has(t, c)
    <3>1. \A n \in 1..Len(q) : ~Has(q[n], c)
      BY <1>10, <2>1 DEF Any, Rng
    <3>2. i = k /\ j = k
      BY <1>4, <1>5, <3>1
    <3> QED
      BY <3>2
  <2>2. CASE ~Has(t, c)
    <3>1. i # k /\ j # k
      BY <1>4, <2>2
    <3>2. CASE i < k /\ j < k
      <4>1. r[i] = q[i] /\ r[j] = q[j] /\ i \in 1..Len(q) /\ j \in 1..Len(q)
        BY <1>3, <1>4, <3>2
      <4> QED
        BY <1>10, <4>1 DEF One
    <3>3. CASE i > k /\ j > k
      <4>1. r[i] = q[i - 1] /\ r[j] = q[j - 1] /\ i - 1 \in 1..Len(q) /\ j - 1 \in 1..Len(q)
        BY <1>3, <1>4, <3>3
      <4>2. i - 1 = j - 1
        BY <1>10, <4>1 DEF One
      <4> QED
        BY <4>2
    <3>4. CASE i < k /\ j > k
      <4>1. r[i] = q[i] /\ r[j] = q[j - 1] /\ i \in 1..Len(q) /\ j - 1 \in 1..Len(q)
        BY <1>3, <1>4, <3>4
      <4>2. i = j - 1
        BY <1>10, <4>1 DEF One
      <4> QED
        BY <1>4, <3>4, <4>2
    <3>5. CASE i > k /\ j < k
      <4>1. r[i] = q[i - 1] /\ r[j] = q[j] /\ i - 1 \in 1..Len(q) /\ j \in 1..Len(q)
        BY <1>3, <1>4, <3>5
      <4>2. i - 1 = j
        BY <1>10, <4>1 DEF One
      <4> QED
        BY <1>4, <3>5, <4>2
    <3> QED
      BY <1>4, <3>1, <3>2, <3>3, <3>4, <3>5
  <2> QED
    BY <2>1, <2>2
<1> QED
  BY <1>1, <1>7, <1>8, <1>9, <1>10

(* What it does that the first task is done with, or one of its commands.   *)
LEMMA TailHolds ==
    ASSUME NEW q \in Seq(Right), q # <<>>
    PROVE  /\ Tail(q) \in Seq(Right) /\ q[1] \in Right /\ q[1] \in Rng(q)
           /\ Rng(q) = Rng(Tail(q)) \cup {q[1]}
           /\ \A c : One(q, c) => One(Tail(q), c) /\ ~(Has(q[1], c) /\ Any(Tail(q), c))
<1>1. Len(q) \in Nat \ {0}
  BY EmptySeq, Zenon
<1>2. /\ Tail(q) \in Seq(Right) /\ q[1] \in Right /\ Len(Tail(q)) = Len(q) - 1
      /\ \A i \in 1..(Len(q) - 1) : Tail(q)[i] = q[i + 1]
  BY <1>1, HeadTailProperties
<1>3. \A i \in 1..(Len(q) - 1) : i + 1 \in 1..Len(q) /\ i + 1 # 1
  BY <1>1
<1>4. \A i \in 1..Len(q) : i = 1 \/ (i - 1 \in 1..(Len(q) - 1) /\ (i - 1) + 1 = i)
  BY <1>1
<1>5. 1 \in 1..Len(q)
  BY <1>1
<1>6. Rng(q) = Rng(Tail(q)) \cup {q[1]}
  <2>1. \A i \in 1..Len(q) : q[i] \in Rng(Tail(q)) \cup {q[1]}
    BY <1>2, <1>4 DEF Rng
  <2>2. \A i \in 1..(Len(q) - 1) : Tail(q)[i] \in Rng(q)
    BY <1>2, <1>3 DEF Rng
  <2> QED
    BY <1>2, <1>5, <2>1, <2>2 DEF Rng
<1>7. ASSUME NEW c, One(q, c) PROVE One(Tail(q), c)
  <2> SUFFICES ASSUME NEW i \in 1..(Len(q) - 1), NEW j \in 1..(Len(q) - 1),
                      Has(Tail(q)[i], c), Has(Tail(q)[j], c)
               PROVE  i = j
    BY <1>2 DEF One
  <2>1. i + 1 = j + 1
    BY <1>2, <1>3, <1>7 DEF One
  <2> QED
    BY <2>1
<1>8. ASSUME NEW c, One(q, c), Has(q[1], c), Any(Tail(q), c) PROVE FALSE
  <2>1. PICK i \in 1..(Len(q) - 1) : Has(Tail(q)[i], c)
    BY <1>2, <1>8 DEF Any, Rng
  <2> QED
    BY <1>2, <1>3, <1>5, <1>8, <2>1 DEF One
<1> QED
  BY <1>2, <1>5, <1>6, <1>7, <1>8 DEF Rng

LEMMA StepHolds ==
    ASSUME NEW q \in Seq(Right), q # <<>>, NEW t \in Right, Len(q[1]) > 1, t = Tail(q[1]),
           NEW r, r = <<t>> \o Tail(q)
    PROVE  /\ r \in Seq(Right) /\ r # <<>> /\ r[1] = t
           /\ Rng(r) = Rng(Tail(q)) \cup {t}
           /\ \A c : One(q, c) => One(r, c)
<1>1. /\ Tail(q) \in Seq(Right) /\ Len(Tail(q)) = Len(q) - 1 /\ Len(q) \in Nat \ {0}
      /\ \A i \in 1..(Len(q) - 1) : Tail(q)[i] = q[i + 1]
  <2>1. Len(q) \in Nat \ {0}
    BY EmptySeq, Zenon
  <2> QED
    BY <2>1, HeadTailProperties
<1> DEFINE p == <<t>>
<1>2. p \in Seq(Right) /\ Len(p) = 1 /\ p[1] = t
  OBVIOUS
<1> HIDE DEF p
<1>3. r \in Seq(Right) /\ Len(r) = Len(q)
  BY <1>1, <1>2, ConcatProperties DEF p
<1>4. \A i \in 1..(1 + (Len(q) - 1)) : r[i] = IF i <= 1 THEN p[i] ELSE Tail(q)[i - 1]
  BY <1>1, <1>2, ConcatProperties DEF p
<1>5. \A i \in 2..Len(q) : i - 1 \in 1..(Len(q) - 1) /\ (i - 1) + 1 = i
  BY <1>1
<1>6. r[1] = t /\ \A i \in 2..Len(q) : r[i] = Tail(q)[i - 1] /\ r[i] = q[i]
  BY <1>1, <1>2, <1>4, <1>5
<1>7. r # <<>>
  BY <1>1, <1>3, EmptySeq
<1>8. \A i \in 1..Len(q) : i = 1 \/ i \in 2..Len(q)
  BY <1>1
<1>9. Rng(r) = Rng(Tail(q)) \cup {t}
  <2>1. \A i \in 1..Len(q) : r[i] \in Rng(Tail(q)) \cup {t}
    BY <1>1, <1>5, <1>6, <1>8 DEF Rng
  <2>2. \A i \in 1..(Len(q) - 1) : i + 1 \in 2..Len(q) /\ i + 1 \in 1..Len(q) /\ (i + 1) - 1 = i
    BY <1>1
  <2>3. \A i \in 1..(Len(q) - 1) : Tail(q)[i] \in Rng(r)
    BY <1>3, <1>6, <2>2 DEF Rng
  <2>4. 1 \in 1..Len(q)
    BY <1>1
  <2>5. Rng(r) \subseteq Rng(Tail(q)) \cup {t}
    BY <1>3, <2>1 DEF Rng
  <2>6. t \in Rng(r)
    BY <1>3, <1>6, <2>4 DEF Rng
  <2>7. Rng(Tail(q)) \subseteq Rng(r)
    BY <1>1, <2>3 DEF Rng
  <2> QED
    BY <2>5, <2>6, <2>7
<1>10. \A c : Has(t, c) => Has(q[1], c)
  <2>1. q[1] \in Right
    BY TailHolds
  <2> QED
    BY <2>1, HasTail
<1>11. \A c : \A i \in 1..Len(q) : Has(r[i], c) => Has(q[i], c)
  BY <1>6, <1>8, <1>10
<1> QED
  BY <1>3, <1>6, <1>7, <1>9, <1>11 DEF One

(* Insertions, of which some may fail, leave the first task the first; quiet *)
(* ones leave alone what the invariants are about.                           *)
Grown(q, r) ==
    /\ r \in Seq(Right)
    /\ q # <<>> => r # <<>> /\ First(r) = First(q)

QuietGrown(q, r) ==
    /\ Grown(q, r) /\ Marked(r) = Marked(q)
    /\ \A c \in Marks : One(q, c) => One(r, c)

LEMMA FallibleIs ==
    ASSUME NEW q, NEW t, NEW r \in Append1(q, t) \cup Urgent(q, t)
    PROVE  r = q \/ r \in Joined(q, t)
  BY DEF Append1, Urgent, Fallible, Joined

LEMMA Infallible ==
    ASSUME ~MayFail, NEW q, NEW t, NEW r \in Append1(q, t) \cup Urgent(q, t)
    PROVE  r \in Joined(q, t)
  BY DEF Append1, Urgent, Fallible, Joined

LEMMA GrownIs ==
    ASSUME NEW q \in Seq(Right), NEW t \in Right, NEW r, r = q \/ r \in Joined(q, t)
    PROVE  Grown(q, r)
<1>1. CASE r = q
  BY <1>1 DEF Grown
<1>2. CASE r \in Joined(q, t)
  BY <1>2, JoinedHolds DEF Grown
<1> QED
  BY <1>1, <1>2

LEMMA QuietGrownIs ==
    ASSUME NEW q \in Seq(Right), NEW t \in QuietSet, NEW r, r = q \/ r \in Joined(q, t)
    PROVE  QuietGrown(q, r)
<1>1. t \in Right /\ Quiet(t)
  BY QuietTasks
<1>2. Grown(q, r)
  BY <1>1, GrownIs
<1>3. CASE r = q
  BY <1>2, <1>3 DEF QuietGrown
<1>4. CASE r \in Joined(q, t)
  <2>1. Rng(r) = Rng(q) \cup {t} /\ \A c : One(q, c) /\ ~(Has(t, c) /\ Any(q, c)) => One(r, c)
    BY <1>1, <1>4, JoinedHolds
  <2>2. Marked(r) = Marked(q)
    BY <1>1, <2>1 DEF Marked
  <2>3. \A c \in Marks : ~Has(t, c)
    BY <1>1 DEF Quiet
  <2> QED
    BY <1>2, <2>1, <2>2, <2>3 DEF QuietGrown
<1> QED
  BY <1>3, <1>4

LEMMA QuietTwice ==
    ASSUME NEW q, NEW r, NEW s, QuietGrown(q, r), QuietGrown(r, s)
    PROVE  QuietGrown(q, s)
  BY DEF QuietGrown, Grown

LEMMA QuietKeeps ==
    ASSUME NEW q, NEW r, QuietGrown(q, r)
    PROVE  /\ \A c \in Marks : Any(r, c) <=> Any(q, c)
           /\ \A c \in Marks : One(q, c) => One(r, c)
           /\ \A u : ~Quiet(u) => (u \in Rng(r) <=> u \in Rng(q))
<1>1. Marked(r) = Marked(q)
  BY DEF QuietGrown
<1>2. \A u : \A c \in Marks : Has(u, c) => ~Quiet(u)
  BY DEF Quiet
<1>3. \A c \in Marks : Any(r, c) <=> Any(q, c)
  BY <1>1, <1>2 DEF Any, Marked
<1> QED
  BY <1>1, <1>3 DEF QuietGrown, Marked

(* What the modem has not answered is the first command.                    *)
WaitRight(w, q) ==
    /\ w \in Names \cup {"none", "unsent"}
    /\ w \notin {"none", "unsent"} => q # <<>> /\ q[1][1] = w

LEMMA FirstIs ==
    ASSUME NEW q \in Seq(Right)
    PROVE  First(q) \in Names \cup {"none"} /\ WaitRight(First(q), q)
<1>1. q # <<>> => q[1] \in Right
  BY TailHolds
<1>2. q # <<>> => First(q) = q[1][1] /\ q[1][1] \in Names
  <2> SUFFICES ASSUME q # <<>> PROVE q[1][1] \in Names
    BY DEF First
  <2>1. q[1] \in Seq(Names) /\ 1 \in 1..Len(q[1])
    BY <1>1, RightIs
  <2> QED
    BY <2>1, ElementOfSeq
<1>3. q = <<>> => First(q) = "none"
  BY DEF First
<1> QED
  BY <1>2, <1>3 DEF WaitRight

(* at_queue_remove_cmd()                                                    *)
LEMMA RemovedIs ==
    ASSUME NEW q \in Seq(Right), q # <<>>, NEW res, NEW r, r = Removed(q, res)
    PROVE  /\ \/ r = Tail(q)
              \/ /\ Len(q[1]) > 1 /\ Tail(q[1]) \in Right
                 /\ r = <<Tail(q[1])>> \o Tail(q)
           /\ (Expected(q[1][1]) = res \/ q[1][1] \in Ignored) /\ Len(q[1]) > 1
                 => r = <<Tail(q[1])>> \o Tail(q)
           /\ Len(q[1]) = 1 => r = Tail(q)
           /\ Expected(q[1][1]) # res /\ q[1][1] \notin Ignored => r = Tail(q)
<1>1. q[1] \in Right
  BY TailHolds
<1>2. Len(q[1]) \in 1..15 /\ (Len(q[1]) > 1 => Tail(q[1]) \in Right)
  BY <1>1, RightIs
<1> DEFINE n == Len(q[1])
           passed == Expected(q[1][1]) = res \/ q[1][1] \in Ignored
           step == <<Tail(q[1])>> \o Tail(q)
<1>3. r = IF n = 1 \/ ~passed THEN Tail(q) ELSE step
  BY DEF Removed
<1>4. n \in 1..15 /\ (n > 1 => Tail(q[1]) \in Right)
  BY <1>2
<1>5. (Expected(q[1][1]) # res /\ q[1][1] \notin Ignored) <=> ~passed
  OBVIOUS
<1> HIDE DEF n, passed, step
<1>6. /\ r = Tail(q) \/ (n > 1 /\ Tail(q[1]) \in Right /\ r = step)
      /\ passed /\ n > 1 => r = step
      /\ n = 1 => r = Tail(q)
      /\ ~passed => r = Tail(q)
  BY <1>3, <1>4
<1> QED
  BY <1>5, <1>6 DEF n, passed, step

LEMMA RemovedEither ==
    ASSUME NEW q \in Seq(Right), q # <<>>, NEW res
    PROVE  \/ Removed(q, res) = Tail(q)
           \/ /\ Len(q[1]) > 1 /\ Tail(q[1]) \in Right
              /\ Removed(q, res) = <<Tail(q[1])>> \o Tail(q)
<1> DEFINE r == Removed(q, res)
<1>1. r = Tail(q) \/ r = <<Tail(q[1])>> \o Tail(q)
  BY DEF Removed
<1>2. Len(q[1]) = 1 => r = Tail(q)
  BY DEF Removed
<1>3. q[1] \in Right
  BY TailHolds
<1>4. Len(q[1]) > 1 => Tail(q[1]) \in Right
  BY <1>3, RightIs
<1>5. Len(q[1]) = 1 \/ Len(q[1]) > 1
  <2>1. \A n \in 1..15 : n = 1 \/ n > 1
    OBVIOUS
  <2> QED
    BY <1>3, <2>1, RightIs, Zenon
<1> QED
  BY <1>1, <1>2, <1>4, <1>5, Zenon

LEMMA RemovedHolds ==
    ASSUME NEW q \in Seq(Right), q # <<>>, NEW res, NEW r, r = Removed(q, res)
    PROVE  /\ r \in Seq(Right)
           /\ \A c : One(q, c) => One(r, c)
           /\ \A c : Any(r, c) => Any(q, c)
           /\ \A c : ~Has(q[1], c) => (Any(r, c) <=> Any(q, c))
           /\ Expected(q[1][1]) = res \/ q[1][1] \in Ignored
                 => \A c : c # q[1][1] => (Any(r, c) <=> Any(q, c))
           /\ \A u \in Rng(r) : u \in Rng(q) \/ (Len(q[1]) > 1 /\ u = Tail(q[1]))
<1>1. /\ Tail(q) \in Seq(Right) /\ q[1] \in Right /\ q[1] \in Rng(q)
      /\ Rng(q) = Rng(Tail(q)) \cup {q[1]}
      /\ \A c : One(q, c) => One(Tail(q), c) /\ ~(Has(q[1], c) /\ Any(Tail(q), c))
  BY TailHolds
<1>2. Len(q[1]) = 1 \/ Len(q[1]) > 1
  <2>1. \A n \in 1..15 : n = 1 \/ n > 1
    OBVIOUS
  <2> QED
    BY <1>1, <2>1, RightIs, Zenon
<1>3. \A c : Any(q, c) <=> Has(q[1], c) \/ Any(Tail(q), c)
  BY <1>1 DEF Any
<1>4. CASE r = Tail(q)
  <2>1. ASSUME Expected(q[1][1]) = res \/ q[1][1] \in Ignored,
               NEW c, c # q[1][1]
        PROVE  Any(r, c) <=> Any(q, c)
    <3>1. CASE Len(q[1]) = 1
      BY <1>1, <1>3, <1>4, <2>1, <3>1, HasTail
    <3>2. CASE Len(q[1]) > 1
      <4>1. r = <<Tail(q[1])>> \o Tail(q) /\ Tail(q[1]) \in Right
        <5>1. r = <<Tail(q[1])>> \o Tail(q)
          BY <2>1, <3>2, RemovedIs
        <5>2. Tail(q[1]) \in Right
          BY <1>1, <3>2, RightIs
        <5> QED
          BY <5>1, <5>2
      <4>2. Rng(r) = Rng(Tail(q)) \cup {Tail(q[1])}
        BY <3>2, <4>1, StepHolds
      <4>3. Any(r, c) <=> Has(Tail(q[1]), c) \/ Any(Tail(q), c)
        BY <4>2 DEF Any
      <4>4. Has(q[1], c) <=> q[1][1] = c \/ Has(Tail(q[1]), c)
        BY <1>1, <3>2, HasTail
      <4> QED
        BY <1>3, <2>1, <4>3, <4>4
    <3> QED
      BY <1>2, <3>1, <3>2
  <2> QED
    BY <1>1, <1>3, <1>4, <2>1
<1>5. CASE Len(q[1]) > 1 /\ Tail(q[1]) \in Right /\ r = <<Tail(q[1])>> \o Tail(q)
  <2>1. /\ r \in Seq(Right) /\ Rng(r) = Rng(Tail(q)) \cup {Tail(q[1])}
        /\ \A c : One(q, c) => One(r, c)
    BY <1>5, StepHolds
  <2>2. \A c : Any(r, c) <=> Has(Tail(q[1]), c) \/ Any(Tail(q), c)
    BY <2>1 DEF Any
  <2>3. \A c : Has(q[1], c) <=> q[1][1] = c \/ Has(Tail(q[1]), c)
    BY <1>1, <1>5, HasTail
  <2>4. \A u \in Rng(r) : u \in Rng(q) \/ (Len(q[1]) > 1 /\ u = Tail(q[1]))
    BY <1>1, <1>5, <2>1
  <2> QED
    BY <1>3, <2>1, <2>2, <2>3, <2>4
<1>6. r = Tail(q) \/ (Len(q[1]) > 1 /\ Tail(q[1]) \in Right /\ r = <<Tail(q[1])>> \o Tail(q))
  BY RemovedEither
<1> QED
  BY <1>4, <1>5, <1>6

------------------------------------------------------------------------------
(* Types, and the lines the modem has said *)

LineNames == {"OK", "ERROR", "PROMPT", "CMGR", "CMTI", "CREG", "SYSINFO", "CFUN", "CPIN", "ICCID",
              "DATA", "CSQ", "ORIG"}
Lines == {l \in [res : LineNames, val : 0..255] :
             /\ l.res = "CFUN" => l.val \in 0..9
             /\ l.res = "CPIN" => l.val \in 0..2
             /\ l.res = "DATA" => l.val \in 1..2}

Jobs   == {Pdu, Text, <<"CUSD">>, <<"user">>, Forward, <<"CFUN">>}
Asked  == {<<k>> : k \in Kinds}
Known  == [pdu : BOOLEAN, ucs2 : BOOLEAN, hassms : BOOLEAN, reg : BOOLEAN, nosim : BOOLEAN,
           pin : 0..2, imsi : 0..2]

QueueTyped == tasks \in Seq(Right) /\ WaitRight(wait, tasks)

FlagsTyped ==
    /\ mon \in {"none", "new", "loop", "sleep"} /\ up = (mon # "none")
    /\ ready \in BOOLEAN /\ sms \in BOOLEAN /\ ussd \in BOOLEAN /\ insms \in BOOLEAN
    /\ simReady \in BOOLEAN /\ simStart \in BOOLEAN /\ prompt \in BOOLEAN /\ pduMode \in BOOLEAN
    /\ strayed \in BOOLEAN

DataTyped == set \in Known /\ cfun \in -1..9 /\ simst \in -1..255 /\ sync \in 0..2

SendersTyped ==
    /\ pc \in [Sender -> {"idle", "found", "marked"}]
    /\ job \in [Sender -> {<<>>} \cup Asked \cup Jobs]
    /\ \A s \in Sender : /\ pc[s] = "found" => job[s] \in Asked
                         /\ pc[s] = "marked" => job[s] \in Jobs

OutTyped    == out \in Seq(Lines)
BoundsTyped == requests \in 0..MaxRequests /\ news \in 0..MaxNews /\ drops \in 0..MaxDrops

Typed == QueueTyped /\ FlagsTyped /\ DataTyped /\ SendersTyped /\ OutTyped /\ BoundsTyped

(* A result that was not read yet is the last line, it is the result of the *)
(* first command, and nothing else is with the modem: l is one of the lines *)
(* when the modem has w unanswered, the queue is q and pduMode is p.        *)
ResultRight(l, last, w, q, p) ==
    /\ l.res \in {"OK", "ERROR", "CMGR"} => last /\ w = "none" /\ q # <<>>
    /\ l.res = "ERROR" => First(q) \in Refused
    /\ l.res = "CMGR" => First(q) \in {"CMGR", "user"}
    /\ l.res = "OK" => /\ First(q) = "CMGR" => EmptySlot
                       /\ First(q) = "CMGF" => p
    /\ l.res = "PROMPT" =>
          /\ q # <<>>
          /\ \/ First(q) = "AT"
             \/ last /\ w = "none" /\ First(q) \in {"CMGS_PDU", "CMGS_TEXT"}

OutRight == \A i \in 1..Len(out) : ResultRight(out[i], i = Len(out), wait, tasks, pduMode)

SyncInv ==
    /\ One(tasks, "CLVL")
    /\ sync = 0 => ~Any(tasks, "CLVL")
    /\ sync = 1 => Volsync \in Rng(tasks)
    /\ sync = 2 => <<"CLVL">> \in Rng(tasks)

SetUpInv ==
    /\ One(tasks, "CNMI")
    /\ mon \in {"none", "new"} => ~ready /\ ~Any(tasks, "CNMI")
    /\ mon = "loop" => (Any(tasks, "CNMI") => simStart /\ ~ready) /\ (ready => simStart)

SetUpGoesOn == mon = "loop" /\ simStart /\ ~ready => Any(tasks, "CNMI")

Pending(js) == \E s \in Sender : pc[s] = "marked" /\ job[s] \in js

SendersUp  == \A s \in Sender : pc[s] # "idle" => up
SmsRight   == sms => Any(tasks, "SMSTEXT") \/ Pending({Pdu, Text})
UssdRight  == ussd => Any(tasks, "CUSD") \/ Pending({<<"CUSD">>})
InsmsRight == insms => Any(tasks, "CMGR")

UpInv    == ~strayed => SendersUp
FlagsInv == ~strayed => SmsRight /\ UssdRight /\ InsmsRight

PromptRight ==
    prompt => \/ wait = "SMSTEXT"
              \/ /\ out # <<>> /\ out[Len(out)].res = "PROMPT" /\ wait = "none"
                 /\ First(tasks) \in {"CMGS_PDU", "CMGS_TEXT"}

FormInv ==
    /\ mon = "sleep" => ~ready
    /\ set.pdu => pduMode
    /\ ready => set.pdu
    /\ \A u \in Rng(tasks) : Has(u, "CNMI") /\ ~Has(u, "CMGF") => set.pdu

MessageInv ==
    ~strayed =>
        /\ \A s \in Sender : pc[s] = "found" /\ job[s] = <<"sms">> => ready
        /\ \A s \in Sender : pc[s] = "marked" => job[s] # Text /\ (job[s] = Pdu => ready)
        /\ ~Any(tasks, "CMGS_TEXT")
        /\ Any(tasks, "CMGS_PDU") \/ Any(tasks, "SMSTEXT") => ready
        /\ PromptRight

LEMMA GrownInserted ==
    ASSUME Typed, NEW q, Grown(tasks, q), Insert(q)
    PROVE  /\ tasks' = q /\ tasks' \in Seq(Right) /\ WaitRight(wait', tasks')
           /\ tasks # <<>> => tasks' # <<>> /\ First(tasks') = First(tasks)
           /\ tasks # <<>> /\ wait # "unsent" => wait' = wait
<1>1. tasks' = q /\ q \in Seq(Right) /\ (tasks # <<>> => q # <<>> /\ First(q) = First(tasks))
  BY DEF Insert, Grown
<1>2. tasks # <<>> /\ wait # "unsent" => wait' = wait
  BY DEF Insert
<1>3. WaitRight(wait', q)
  <2>1. CASE tasks = <<>> \/ wait = "unsent"
    BY <1>1, <2>1, FirstIs DEF Insert
  <2>2. CASE tasks # <<>> /\ wait # "unsent"
    <3>1. WaitRight(wait, tasks) /\ First(tasks) = tasks[1][1] /\ First(q) = q[1][1]
      BY <1>1, <2>2 DEF Typed, QueueTyped, First
    <3> QED
      BY <1>1, <1>2, <2>2, <3>1 DEF WaitRight
  <2> QED
    BY <2>1, <2>2
<1> QED
  BY <1>1, <1>2, <1>3

LEMMA Advanced ==
    ASSUME NEW q \in Seq(Right), Advance(q)
    PROVE  tasks' = q /\ tasks' \in Seq(Right) /\ WaitRight(wait', tasks')
  BY FirstIs DEF Advance

LEMMA SaidIs ==
    ASSUME Typed, NEW r, Said(r)
    PROVE  /\ mon = "loop" /\ out # <<>> /\ Head(out) = out[1] /\ out[1] \in Lines /\ out[1].res = r
           /\ out' = Tail(out) /\ out' \in Seq(Lines)
           /\ Len(out) \in Nat \ {0} /\ Len(out') = Len(out) - 1
           /\ \A i \in 1..(Len(out) - 1) : out'[i] = out[i + 1]
<1>1. out \in Seq(Lines) /\ out # <<>>
  BY DEF Typed, OutTyped, Said
<1>2. Len(out) \in Nat \ {0} /\ Head(out) = out[1] /\ out[1] \in Lines
  <2>1. Len(out) \in Nat \ {0}
    BY <1>1, EmptySeq, Zenon
  <2>2. 1 \in 1..Len(out)
    BY <2>1
  <2> QED
    BY <1>1, <2>1, <2>2, ElementOfSeq
<1> QED
  BY <1>1, <1>2, HeadTailProperties DEF Said

LEMMA InitTyped == Init => Typed
<1> SUFFICES ASSUME Init PROVE Typed
  OBVIOUS
<1>1. <<>> \in Seq(Right) /\ <<>> \in Seq(Lines) /\ WaitRight("none", <<>>)
  BY EmptySeq DEF WaitRight
<1>2. Reset \in Known
  BY DEF Reset, Known
<1>3. /\ pc \in [Sender -> {"idle", "found", "marked"}] /\ \A s \in Sender : pc[s] = "idle"
      /\ job \in [Sender -> {<<>>} \cup Asked \cup Jobs]
  BY DEF Init
<1>4. 0 \in 0..MaxRequests /\ 0 \in 0..MaxNews /\ 0 \in 0..MaxDrops
  BY ModemAssumption
<1>5. QueueTyped /\ OutTyped
  BY <1>1 DEF Init, QueueTyped, OutTyped
<1>6. FlagsTyped
  BY DEF Init, FlagsTyped
<1>7. DataTyped
  BY <1>2 DEF Init, DataTyped
<1>8. SendersTyped
  BY <1>3 DEF SendersTyped
<1>9. BoundsTyped
  BY <1>4 DEF Init, BoundsTyped
<1> QED
  BY <1>5, <1>6, <1>7, <1>8, <1>9 DEF Typed

(* The handlers change the queue by an insertion, or take something out.    *)
LEMMA CfunGrows ==
    ASSUME Typed, ReadCfun
    PROVE  \E q, r : /\ QuietGrown(tasks, q) /\ q \in Seq(Right)
                     /\ \/ SetsUpSim(Head(out).val) /\ r \in Append1(q, SimInit)
                        \/ ~SetsUpSim(Head(out).val) /\ r = q
                     /\ Grown(tasks, r) /\ Insert(r)
<1> DEFINE n == Head(out).val
           ask == IF n = 1 /\ simst = 255 THEN Append1(tasks, <<"cfun5">>)
                  ELSE IF n = 1 /\ Usable /\ ~simReady THEN Append1(tasks, <<"cpin?">>)
                  ELSE IF n = 4 THEN Append1(tasks, <<"cfun6">>)
                  ELSE {tasks}
<1>1. PICK q \in ask : \E r \in IF SetsUpSim(n) THEN Append1(q, SimInit) ELSE {q} : Insert(r)
  BY DEF ReadCfun
<1>2. PICK r \in IF SetsUpSim(n) THEN Append1(q, SimInit) ELSE {q} : Insert(r)
  BY <1>1
<1>3. tasks \in Seq(Right)
  BY DEF Typed, QueueTyped
<1>4. <<"cfun5">> \in QuietSet /\ <<"cpin?">> \in QuietSet /\ <<"cfun6">> \in QuietSet
  BY DEF QuietSet, UserCmds
<1>5. \E t \in QuietSet : q \in Append1(tasks, t) \/ q = tasks
  BY <1>1, <1>4
<1>6. QuietGrown(tasks, q) /\ q \in Seq(Right)
  <2>1. QuietGrown(tasks, q)
    BY <1>3, <1>5, FallibleIs, QuietGrownIs
  <2> QED
    BY <2>1 DEF QuietGrown, Grown
<1>7. Grown(q, r)
  <2>1. SimInit \in Right
    BY SetUpScript
  <2>2. r = q \/ r \in Joined(q, SimInit)
    BY <1>2, FallibleIs
  <2> QED
    BY <1>6, <2>1, <2>2, GrownIs
<1>8. Grown(tasks, r)
  BY <1>6, <1>7 DEF QuietGrown, Grown
<1> QED
  BY <1>2, <1>6, <1>8

LEMMA CpinGrows ==
    ASSUME Typed, ReadCpin
    PROVE  \E r : /\ \/ /\ Head(out).val = 0 /\ cfun = 1 /\ ~simStart
                        /\ r \in Append1(tasks, SimInit)
                     \/ /\ ~(Head(out).val = 0 /\ cfun = 1 /\ ~simStart)
                        /\ QuietGrown(tasks, r)
                  /\ Grown(tasks, r) /\ Insert(r)
<1> DEFINE n == Head(out).val
<1>1. PICK r \in IF n = 0 /\ cfun = 1 /\ ~simStart THEN Append1(tasks, SimInit)
                 ELSE IF n = 0 /\ cfun = 5 THEN Append2(tasks, <<"sn">>, <<"iccid">>)
                 ELSE IF n # 0 THEN Append1(tasks, <<"iccid">>) ELSE {tasks} : Insert(r)
  BY DEF ReadCpin
<1>2. tasks \in Seq(Right)
  BY DEF Typed, QueueTyped
<1>3. <<"sn">> \in QuietSet /\ <<"iccid">> \in QuietSet
  BY DEF QuietSet, UserCmds
<1>4. CASE n = 0 /\ cfun = 1 /\ ~simStart
  <2>1. r \in Append1(tasks, SimInit)
    BY <1>1, <1>4
  <2>2. Grown(tasks, r)
    BY <1>2, <2>1, SetUpScript, FallibleIs, GrownIs
  <2> QED
    BY <1>1, <1>4, <2>1, <2>2
<1>5. CASE ~(n = 0 /\ cfun = 1 /\ ~simStart)
  <2>1. QuietGrown(tasks, tasks)
    BY <1>2, <1>3, QuietGrownIs
  <2>2. \A q : q \in Append1(tasks, <<"iccid">>) => QuietGrown(tasks, q)
    BY <1>2, <1>3, FallibleIs, QuietGrownIs
  <2>3. ASSUME NEW q \in Append2(tasks, <<"sn">>, <<"iccid">>) PROVE QuietGrown(tasks, q)
    <3>1. PICK p \in Append1(tasks, <<"sn">>) : q \in Append1(p, <<"iccid">>)
      BY <2>3 DEF Append2
    <3>2. QuietGrown(tasks, p) /\ p \in Seq(Right)
      <4>1. QuietGrown(tasks, p)
        BY <1>2, <1>3, <3>1, FallibleIs, QuietGrownIs
      <4> QED
        BY <4>1 DEF QuietGrown, Grown
    <3>3. QuietGrown(p, q)
      BY <1>3, <3>1, <3>2, FallibleIs, QuietGrownIs
    <3> QED
      BY <3>2, <3>3, QuietTwice
  <2>4. QuietGrown(tasks, r)
    BY <1>1, <1>5, <2>1, <2>2, <2>3
  <2> QED
    BY <1>1, <1>5, <2>4 DEF QuietGrown
<1> QED
  BY <1>4, <1>5

LEMMA OthersGrow ==
    ASSUME Typed
    PROVE  /\ ReadCreg \/ ReadSysinfo \/ Ping => \E q : QuietGrown(tasks, q) /\ Insert(q)
           /\ StartMonitor /\ mon' = "loop" => \E q : QuietGrown(tasks, q) /\ Insert(q)
           /\ ReadOrig => \/ UNCHANGED <<tasks, wait, sync>>
                          \/ /\ sync = 0 /\ sync' = (IF tasks' = tasks THEN 0 ELSE 1)
                             /\ \E q : /\ q = tasks \/ q \in Joined(tasks, Volsync)
                                       /\ Grown(tasks, q) /\ Insert(q)
           /\ ReadCmti => \/ MayFail /\ mon' = "sleep" /\ UNCHANGED <<tasks, wait, insms>>
                          \/ /\ UNCHANGED mon
                             /\ \E q \in Joined(tasks, Retrieve) : Grown(tasks, q) /\ Insert(q)
<1>1. tasks \in Seq(Right)
  BY DEF Typed, QueueTyped
<1>2. /\ <<"cops">> \in QuietSet /\ <<"cfun?">> \in QuietSet /\ <<"AT">> \in QuietSet
      /\ Startup \in QuietSet
  BY DEF QuietSet, UserCmds
<1>3. ASSUME NEW t \in QuietSet, NEW q \in Append1(tasks, t) \cup Urgent(tasks, t)
      PROVE  QuietGrown(tasks, q)
  BY <1>1, <1>3, FallibleIs, QuietGrownIs
<1>4. ASSUME ReadCreg PROVE \E q : QuietGrown(tasks, q) /\ Insert(q)
  <2>1. PICK q \in Append1(tasks, <<"cops">>) : Insert(q)
    BY <1>4 DEF ReadCreg
  <2>2. QuietGrown(tasks, q)
    BY <1>2, <1>3, <2>1
  <2> QED
    BY <2>1, <2>2
<1>5. ASSUME ReadSysinfo PROVE \E q : QuietGrown(tasks, q) /\ Insert(q)
  <2>1. PICK q \in Append1(tasks, <<"cfun?">>) : Insert(q)
    BY <1>5 DEF ReadSysinfo
  <2>2. QuietGrown(tasks, q)
    BY <1>2, <1>3, <2>1
  <2> QED
    BY <2>1, <2>2
<1>6. ASSUME Ping PROVE \E q : QuietGrown(tasks, q) /\ Insert(q)
  <2>1. PICK q \in Urgent(tasks, <<"AT">>) : Insert(q)
    BY <1>6 DEF Ping
  <2>2. QuietGrown(tasks, q)
    BY <1>2, <1>3, <2>1
  <2> QED
    BY <2>1, <2>2
<1>7. ASSUME StartMonitor, mon' = "loop" PROVE \E q : QuietGrown(tasks, q) /\ Insert(q)
  <2>1. Insert(Append(tasks, Startup))
    BY <1>7 DEF StartMonitor, Disconnect
  <2>2. Append(tasks, Startup) \in Joined(tasks, Startup)
    BY DEF Joined
  <2>3. QuietGrown(tasks, Append(tasks, Startup))
    BY <1>1, <1>2, <2>2, QuietGrownIs
  <2> QED
    BY <2>1, <2>3
<1>8. ASSUME ReadOrig, ~UNCHANGED <<tasks, wait, sync>>
      PROVE  /\ sync = 0 /\ sync' = (IF tasks' = tasks THEN 0 ELSE 1)
             /\ \E q : /\ q = tasks \/ q \in Joined(tasks, Volsync)
                       /\ Grown(tasks, q) /\ Insert(q)
  <2>1. sync = 0
    BY <1>8 DEF ReadOrig
  <2>2. PICK q \in Urgent(tasks, Volsync) : Insert(q) /\ sync' = (IF q = tasks THEN 0 ELSE 1)
    BY <1>8, <2>1 DEF ReadOrig
  <2>3. q = tasks \/ q \in Joined(tasks, Volsync)
    BY <2>2, FallibleIs
  <2>4. Volsync \in Right
    BY DEF Right, Pairs
  <2>5. Grown(tasks, q)
    BY <1>1, <2>3, <2>4, GrownIs
  <2>6. tasks' = q
    BY <2>2 DEF Insert
  <2> QED
    BY <2>1, <2>2, <2>3, <2>5, <2>6
<1>9. ASSUME ReadCmti
      PROVE  \/ MayFail /\ mon' = "sleep" /\ UNCHANGED <<tasks, wait, insms>>
             \/ /\ UNCHANGED mon
                /\ \E q \in Joined(tasks, Retrieve) : Grown(tasks, q) /\ Insert(q)
  <2>1. Append(tasks, Retrieve) \in Joined(tasks, Retrieve) /\ Retrieve \in Right
    BY DEF Joined, Right
  <2>2. Grown(tasks, Append(tasks, Retrieve))
    BY <1>1, <2>1, GrownIs
  <2> QED
    BY <1>9, <2>1, <2>2 DEF ReadCmti
<1> QED
  BY <1>4, <1>5, <1>6, <1>7, <1>8, <1>9

LEMMA JobsRight == Jobs \subseteq Right
  BY DEF Jobs, Right, Pairs, Singles, UserCmds

LEMMA PutGrows ==
    ASSUME Typed, NEW s \in Sender, Put(s)
    PROVE  \/ ~up /\ UNCHANGED <<tasks, wait>>
           \/ /\ up /\ job[s] \in Jobs
              /\ \E q : /\ q = tasks \/ q \in Joined(tasks, job[s])
                        /\ ~MayFail => q \in Joined(tasks, job[s])
                        /\ Grown(tasks, q) /\ Insert(q)
<1>1. job[s] \in Jobs /\ tasks \in Seq(Right)
  BY DEF Put, Typed, SendersTyped, QueueTyped
<1>2. ASSUME up
      PROVE  \E q : /\ q = tasks \/ q \in Joined(tasks, job[s])
                    /\ ~MayFail => q \in Joined(tasks, job[s])
                    /\ Grown(tasks, q) /\ Insert(q)
  <2>1. PICK q \in Append1(tasks, job[s]) \cup Urgent(tasks, job[s]) : Insert(q)
    BY <1>2 DEF Put
  <2>2. /\ q = tasks \/ q \in Joined(tasks, job[s])
        /\ ~MayFail => q \in Joined(tasks, job[s])
    BY <2>1, FallibleIs, Infallible
  <2>3. job[s] \in Right
    BY <1>1, JobsRight
  <2>4. Grown(tasks, q)
    BY <1>1, <2>2, <2>3, GrownIs
  <2> QED
    BY <2>1, <2>2, <2>4
<1> QED
  BY <1>1, <1>2 DEF Put

------------------------------------------------------------------------------
(* Every step keeps the types *)

LEMMA DisconnectTyped == Typed /\ Disconnect /\ drops' \in 0..MaxDrops /\ prompt' \in BOOLEAN
                              /\ pduMode' \in BOOLEAN => Typed'
<1> SUFFICES ASSUME Typed, Disconnect, drops' \in 0..MaxDrops, prompt' \in BOOLEAN,
                    pduMode' \in BOOLEAN
             PROVE  Typed'
  OBVIOUS
<1>1. <<>> \in Seq(Right) /\ <<>> \in Seq(Lines) /\ WaitRight("none", <<>>)
  BY EmptySeq DEF WaitRight
<1>2. Reset \in Known
  BY DEF Reset, Known
<1>3. QueueTyped' /\ OutTyped'
  BY <1>1 DEF Disconnect, QueueTyped, OutTyped
<1>4. FlagsTyped'
  <2>1. strayed' \in BOOLEAN
    BY DEF Disconnect, Typed, FlagsTyped
  <2> QED
    BY <2>1 DEF Disconnect, FlagsTyped
<1>5. DataTyped'
  BY <1>2 DEF Disconnect, DataTyped
<1>6. SendersTyped'
  BY DEF Disconnect, Typed, SendersTyped
<1>7. BoundsTyped'
  BY DEF Disconnect, Typed, BoundsTyped
<1> QED
  BY <1>3, <1>4, <1>5, <1>6, <1>7 DEF Typed

LEMMA MonitorTyped ==
    Typed /\ (Connect \/ StartMonitor \/ Lost \/ GiveUp \/ Awake \/ Ping) => Typed'
<1> SUFFICES ASSUME Typed, Connect \/ StartMonitor \/ Lost \/ GiveUp \/ Awake \/ Ping PROVE Typed'
  OBVIOUS
<1>0. /\ drops \in 0..MaxDrops /\ prompt \in BOOLEAN /\ pduMode \in BOOLEAN /\ MaxDrops \in Nat
      /\ drops < MaxDrops => drops + 1 \in 0..MaxDrops
  BY ModemAssumption DEF Typed, BoundsTyped, FlagsTyped
<1>1. CASE Connect
  BY <1>1 DEF Connect, Typed, QueueTyped, FlagsTyped, DataTyped, SendersTyped, OutTyped, BoundsTyped,
              flags, sim, modem, bounds
<1>2. CASE StartMonitor
  <2>1. CASE MayFail /\ Disconnect /\ UNCHANGED <<prompt, pduMode, drops>>
    BY <1>0, <2>1, DisconnectTyped
  <2>2. CASE ~(MayFail /\ Disconnect /\ UNCHANGED <<prompt, pduMode, drops>>)
    <3>1. /\ mon' = "loop" /\ out' = <<>> /\ mon = "new"
          /\ cfun' = -1 /\ simst' = -1 /\ simReady' = FALSE /\ simStart' = FALSE
          /\ set' = [set EXCEPT !.pin = 0]
          /\ UNCHANGED <<up, ready, flags, sync, pc, job, prompt, pduMode, bounds, strayed>>
      BY <1>2, <2>2 DEF StartMonitor
    <3>2. PICK q : QuietGrown(tasks, q) /\ Insert(q)
      BY <1>2, <3>1, OthersGrow
    <3>3. QueueTyped'
      BY <3>2, GrownInserted DEF QuietGrown, QueueTyped
    <3>4. OutTyped' /\ FlagsTyped' /\ SendersTyped' /\ BoundsTyped'
      BY <3>1, EmptySeq DEF OutTyped, Typed, FlagsTyped, SendersTyped, BoundsTyped, flags, bounds
    <3>5. set' \in Known
      BY <3>1 DEF Typed, DataTyped, Known
    <3>6. DataTyped'
      BY <3>1, <3>5 DEF Typed, DataTyped
    <3> QED
      BY <3>3, <3>4, <3>6 DEF Typed
  <2> QED
    BY <2>1, <2>2
<1>3. CASE Lost
  BY <1>0, <1>3, DisconnectTyped DEF Lost
<1>4. CASE GiveUp
  BY <1>0, <1>4, DisconnectTyped DEF GiveUp
<1>5. CASE Awake
  BY <1>0, <1>5, DisconnectTyped DEF Awake
<1>6. CASE Ping
  <2>1. PICK q : QuietGrown(tasks, q) /\ Insert(q)
    BY <1>6, OthersGrow
  <2>2. QueueTyped'
    BY <2>1, GrownInserted DEF QuietGrown, QueueTyped
  <2> QED
    BY <1>6, <2>2 DEF Ping, Typed, FlagsTyped, DataTyped, SendersTyped, OutTyped, BoundsTyped, flags,
                      sim, bounds
<1> QED
  BY <1>1, <1>2, <1>3, <1>4, <1>5, <1>6

LEMMA AnswersTyped ==
    ASSUME NEW c \in Names, NEW a \in Answers(c)
    PROVE  a \in Seq(Lines) /\ Len(a) \in 1..2
<1>1. /\ Ok \in Lines /\ Line("ERROR", 0) \in Lines /\ Line("ICCID", 0) \in Lines
      /\ Line("PROMPT", 0) \in Lines /\ Line("CMGR", 0) \in Lines /\ Line("CSQ", 0) \in Lines
      /\ Line("DATA", 1) \in Lines /\ Line("CREG", 1) \in Lines
  BY DEF Ok, Line, Lines, LineNames
<1>2. /\ \A n \in SimModes \cup {1, 5} : Line("CFUN", n) \in Lines
      /\ \A n \in SimStates : Line("SYSINFO", n) \in Lines
      /\ \A n \in {0, 1, 2} : Line("CPIN", n) \in Lines
  BY ModemAssumption DEF Line, Lines, LineNames
<1>3. \A l \in Lines : <<l>> \in Seq(Lines) /\ Len(<<l>>) \in 1..2
  OBVIOUS
<1>4. \A l, m \in Lines : <<l, m>> \in Seq(Lines) /\ Len(<<l, m>>) \in 1..2
  OBVIOUS
<1> DEFINE Good(b) == b \in Seq(Lines) /\ Len(b) \in 1..2
<1>5. /\ \A l \in Lines : Good(<<l>>)
      /\ \A l, m \in Lines : Good(<<l, m>>)
  BY <1>3, <1>4
<1> HIDE DEF Good
<1>6. Good(a)
  BY <1>1, <1>2, <1>5 DEF Answers
<1> QED
  BY <1>6 DEF Good

LEMMA ModemTyped ==
    Typed /\ (Reply \/ News \/ Hum) => Typed'
<1> SUFFICES ASSUME Typed, Reply \/ News \/ Hum PROVE Typed'
  OBVIOUS
<1>0. out \in Seq(Lines) /\ news \in 0..MaxNews /\ MaxNews \in Nat
  BY ModemAssumption DEF Typed, OutTyped, BoundsTyped
<1>1. CASE Reply
  <2>1. PICK a \in Answers(wait) :
             /\ out' = out \o a
             /\ prompt' = (a[1].res = "PROMPT")
             /\ pduMode' = (pduMode \/ (wait = "CMGF" /\ a = <<Ok>>))
    BY <1>1 DEF Reply
  <2>2. wait \in Names
    BY <1>1 DEF Reply, Typed, QueueTyped, WaitRight
  <2>3. a \in Seq(Lines)
    BY <2>2, AnswersTyped
  <2>4. OutTyped'
    BY <1>0, <2>1, <2>3, ConcatProperties DEF OutTyped
  <2>5. QueueTyped'
    BY <1>1 DEF Reply, Typed, QueueTyped, WaitRight
  <2>6. FlagsTyped'
    <3>1. prompt' \in BOOLEAN /\ pduMode' \in BOOLEAN
      BY <2>1
    <3> QED
      BY <1>1, <3>1 DEF Reply, Typed, FlagsTyped, flags, sim
  <2> QED
    BY <1>1, <2>4, <2>5, <2>6 DEF Reply, Typed, DataTyped, SendersTyped, BoundsTyped, sim, bounds
<1>2. ASSUME NEW l \in Lines, out' = Append(out, l) \/ out' = <<l>>, news < MaxNews, news' = news + 1,
             UNCHANGED <<mon, up, tasks, ready, flags, set, sim, sync, pc, job, modem, requests,
                         drops, strayed>>
      PROVE  Typed'
  <2>1. OutTyped'
    <3>1. <<l>> \in Seq(Lines) /\ Append(out, l) \in Seq(Lines)
      BY <1>0, AppendProperties
    <3> QED
      BY <1>2, <3>1 DEF OutTyped
  <2>2. BoundsTyped'
    BY <1>0, <1>2 DEF Typed, BoundsTyped
  <2> QED
    BY <1>2, <2>1, <2>2
    DEF Typed, QueueTyped, FlagsTyped, DataTyped, SendersTyped, flags, sim, modem
<1>3. CASE News
  <2>1. PICK l \in {Line("CMTI", 0), Line("CREG", IF set.reg THEN 0 ELSE 1), Line("ORIG", 1)} :
             out' = Append(out, l)
    BY <1>3 DEF News
  <2>2. l \in Lines
    BY DEF Line, Lines, LineNames
  <2> QED
    BY <1>2, <1>3, <2>1, <2>2 DEF News
<1>4. CASE Hum
  <2>1. Line("PROMPT", 0) \in Lines /\ Line("DATA", 2) \in Lines
    BY DEF Line, Lines, LineNames
  <2> QED
    BY <1>2, <1>4, <2>1 DEF Hum
<1> QED
  BY <1>1, <1>3, <1>4

LEMMA SendersTypedToo ==
    ASSUME Typed, NEW s \in Sender, Find(s) \/ Mark(s) \/ Put(s)
    PROVE  Typed'
<1>0. /\ pc \in [Sender -> {"idle", "found", "marked"}]
      /\ job \in [Sender -> {<<>>} \cup Asked \cup Jobs]
      /\ \A x \in Sender : pc[x] = "found" => job[x] \in Asked
      /\ \A x \in Sender : pc[x] = "marked" => job[x] \in Jobs
  BY DEF Typed, SendersTyped
<1>1. ASSUME NEW j \in {<<>>} \cup Asked \cup Jobs, NEW p \in {"idle", "found", "marked"},
             p = "found" => j \in Asked, p = "marked" => j \in Jobs,
             job' = [job EXCEPT ![s] = j], pc' = [pc EXCEPT ![s] = p]
      PROVE  SendersTyped'
  <2>1. /\ pc' \in [Sender -> {"idle", "found", "marked"}] /\ pc'[s] = p
        /\ \A x \in Sender : x # s => pc'[x] = pc[x]
    BY <1>0, <1>1
  <2>2. /\ job' \in [Sender -> {<<>>} \cup Asked \cup Jobs] /\ job'[s] = j
        /\ \A x \in Sender : x # s => job'[x] = job[x]
    BY <1>0, <1>1
  <2> QED
    BY <1>0, <1>1, <2>1, <2>2 DEF SendersTyped
<1>2. CASE Find(s)
  <2>1. PICK k \in Requests : job' = [job EXCEPT ![s] = <<k>>]
    BY <1>2 DEF Find
  <2>2. <<k>> \in Asked
    BY SenderAssumption DEF Asked
  <2>3. SendersTyped'
    BY <1>1, <1>2, <2>1, <2>2 DEF Find
  <2>4. BoundsTyped'
    <3>1. requests \in 0..MaxRequests /\ MaxRequests \in Nat /\ requests < MaxRequests
      BY <1>2, ModemAssumption DEF Typed, BoundsTyped, Find
    <3> QED
      BY <1>2, <3>1 DEF Find, Typed, BoundsTyped
  <2> QED
    BY <1>2, <2>3, <2>4
    DEF Find, Typed, QueueTyped, FlagsTyped, DataTyped, OutTyped, flags, sim, modem
<1>3. CASE Mark(s)
  <2> DEFINE k == job[s][1]
             j == Commands(k)
  <2>1. k \in Kinds
    <3>1. PICK x \in Kinds : job[s] = <<x>>
      BY <1>0, <1>3 DEF Mark, Asked
    <3> QED
      BY <3>1
  <2>2. j \in Jobs
    BY <2>1 DEF Commands, Kinds, Jobs, Forward
  <2>3. job' = [job EXCEPT ![s] = j] /\ pc' = [pc EXCEPT ![s] = "marked"]
    BY <1>3 DEF Mark
  <2> HIDE DEF j
  <2>4. SendersTyped'
    BY <1>1, <2>2, <2>3
  <2>5. FlagsTyped'
    <3>1. sms' \in BOOLEAN /\ ussd' \in BOOLEAN
      BY <1>3 DEF Mark
    <3> QED
      BY <1>3, <3>1 DEF Mark, Typed, FlagsTyped, sim, modem
  <2> QED
    BY <1>3, <2>4, <2>5 DEF Mark, Typed, QueueTyped, DataTyped, OutTyped, BoundsTyped, sim, modem,
                            bounds
<1>4. CASE Put(s)
  <2>1. QueueTyped'
    <3>1. CASE ~up /\ UNCHANGED <<tasks, wait>>
      BY <3>1 DEF Typed, QueueTyped
    <3>2. CASE \E q : Grown(tasks, q) /\ Insert(q)
      BY <3>2, GrownInserted DEF QueueTyped
    <3> QED
      BY <1>4, <3>1, <3>2, PutGrows
  <2>2. SendersTyped'
    BY <1>1, <1>4 DEF Put
  <2> QED
    BY <1>4, <2>1, <2>2 DEF Put, Typed, FlagsTyped, DataTyped, OutTyped, BoundsTyped, flags, sim, bounds
<1> QED
  BY <1>2, <1>3, <1>4

(* The handlers *)
LEMMA AnsweredTyped ==
    Typed /\ (Unexpected \/ ReadOk \/ ReadPrompt \/ ReadCmgr) => Typed'
<1> SUFFICES ASSUME Typed, Unexpected \/ ReadOk \/ ReadPrompt \/ ReadCmgr PROVE Typed'
  OBVIOUS
<1>0. OutTyped'
  BY SaidIs DEF Unexpected, ReadOk, ReadPrompt, ReadCmgr, OutTyped
<1>1. ASSUME NEW res, tasks # <<>>, Advance(Removed(tasks, res)) PROVE QueueTyped'
  <2>1. Removed(tasks, res) \in Seq(Right)
    BY <1>1, RemovedHolds DEF Typed, QueueTyped
  <2> QED
    BY <1>1, <2>1, Advanced DEF QueueTyped
<1>2. CASE Unexpected
  BY <1>0, <1>2 DEF Unexpected, Same, Typed, QueueTyped, FlagsTyped, DataTyped, SendersTyped,
                    BoundsTyped, flags, sim, bounds
<1>3. CASE ReadOk
  <2>1. QueueTyped'
    BY <1>1, <1>3 DEF ReadOk, Expects
  <2>2. FlagsTyped'
    <3>1. ready' \in BOOLEAN /\ sms' \in BOOLEAN /\ ussd' \in BOOLEAN
      BY <1>3 DEF ReadOk
    <3> QED
      BY <1>3, <3>1 DEF ReadOk, Same, Typed, FlagsTyped, sim
  <2>3. DataTyped'
    <3>1. set' \in Known
      <4>1. SmsAsPdu \in BOOLEAN /\ set \in Known
        BY ModemAssumption DEF Typed, DataTyped
      <4> QED
        BY <1>3, <4>1 DEF ReadOk, Known
    <3>2. sync' \in 0..2
      BY <1>3 DEF ReadOk, Typed, DataTyped, Stepped
    <3> QED
      BY <1>3, <3>1, <3>2 DEF ReadOk, Typed, DataTyped, sim
  <2> QED
    BY <1>0, <1>3, <2>1, <2>2, <2>3 DEF ReadOk, Same, Typed, SendersTyped, BoundsTyped, bounds
<1>4. CASE ReadPrompt
  <2>1. QueueTyped'
    BY <1>1, <1>4 DEF ReadPrompt, Expects
  <2> QED
    BY <1>0, <1>4, <2>1 DEF ReadPrompt, Same, Typed, FlagsTyped, DataTyped, SendersTyped,
                            BoundsTyped, flags, sim, bounds
<1>5. CASE ReadCmgr
  <2>1. tasks # <<>>
    BY <1>5 DEF ReadCmgr, Expects, First, UserCmds
  <2>2. QueueTyped'
    BY <1>1, <1>5, <2>1 DEF ReadCmgr
  <2> QED
    BY <1>0, <1>5, <2>2 DEF ReadCmgr, Same, Typed, FlagsTyped, DataTyped, SendersTyped,
                            BoundsTyped, sim, bounds
<1> QED
  BY <1>2, <1>3, <1>4, <1>5

LEMMA FailedTyped ==
    ASSUME NEW q \in Seq(Right), Fail(q)
    PROVE  QueueTyped'
  BY DEF Fail, QueueTyped, WaitRight

LEMMA ErrorEffect ==
    ASSUME Typed, ReadError
    PROVE  \E r : /\ r = tasks \/ r \in Joined(tasks, <<"cfun1">>)
                  /\ r \in Seq(Right) /\ r # <<>> /\ r[1] = tasks[1]
                  /\ tasks[1][1] # "CGSN" => r = tasks
                  /\ \/ tasks[1][1] \in Critical /\ r = tasks /\ Fail(Removed(r, "ERROR"))
                     \/ /\ tasks[1][1] \notin Critical /\ mon' = mon
                        /\ Advance(Removed(r, "ERROR"))
<1>1. tasks \in Seq(Right) /\ tasks # <<>>
  BY DEF Typed, QueueTyped, ReadError
<1>2. CASE tasks[1][1] \in Critical
  BY <1>1, <1>2 DEF ReadError, Critical
<1>3. CASE tasks[1][1] \notin Critical /\ tasks[1][1] # "CGSN"
  BY <1>1, <1>3 DEF ReadError
<1>4. CASE tasks[1][1] = "CGSN"
  <2>1. "CGSN" \notin Critical
    BY DEF Critical
  <2>2. PICK r \in Append1(tasks, <<"cfun1">>) : Advance(Removed(r, "ERROR")) /\ mon' = mon
    BY <1>4, <2>1 DEF ReadError
  <2>3. <<"cfun1">> \in Right
    BY QuietTasks DEF QuietSet, UserCmds
  <2>4. r = tasks \/ r \in Joined(tasks, <<"cfun1">>)
    BY <2>2, FallibleIs
  <2>5. Grown(tasks, r)
    BY <1>1, <2>3, <2>4, GrownIs
  <2>6. r \in Seq(Right) /\ r # <<>>
    BY <1>1, <2>5 DEF Grown
  <2>7. r[1] = tasks[1]
    <3>1. CASE r = tasks
      BY <3>1
    <3>2. CASE r \in Joined(tasks, <<"cfun1">>)
      <4>1. Len(tasks) \in Nat \ {0} /\ Len(r) = Len(tasks) + 1
        <5>1. Len(tasks) \in Nat \ {0}
          BY <1>1, EmptySeq, Zenon
        <5>2. Len(r) = Len(tasks) + 1
          BY <1>1, <2>3, <3>2, JoinedIs
        <5> QED
          BY <5>1, <5>2
      <4>2. PICK k : Spliced(tasks, <<"cfun1">>, r, k)
        BY <1>1, <2>3, <3>2, JoinedIs
      <4>3. 1 \in 1..(k - 1)
        BY <1>1, <4>1, <4>2 DEF Spliced
      <4> QED
        BY <4>2, <4>3 DEF Spliced
    <3> QED
      BY <2>4, <3>1, <3>2
  <2> QED
    BY <1>4, <2>1, <2>2, <2>4, <2>6, <2>7
<1> QED
  BY <1>2, <1>3, <1>4

LEMMA ErrorTyped == Typed /\ ReadError => Typed'
<1> SUFFICES ASSUME Typed, ReadError PROVE Typed'
  OBVIOUS
<1>1. OutTyped'
  BY SaidIs DEF ReadError, OutTyped
<1>2. PICK r : /\ r \in Seq(Right) /\ r # <<>>
               /\ \/ Fail(Removed(r, "ERROR")) \/ (mon' = mon /\ Advance(Removed(r, "ERROR")))
  BY ErrorEffect
<1>3. Removed(r, "ERROR") \in Seq(Right)
  BY <1>2, RemovedHolds
<1>4. QueueTyped'
  BY <1>2, <1>3, FailedTyped, Advanced DEF QueueTyped
<1>5. FlagsTyped'
  <2>1. sms' \in BOOLEAN /\ ussd' \in BOOLEAN /\ insms' \in BOOLEAN
    BY DEF ReadError
  <2>2. mon' \in {mon, "sleep"} /\ up' = up /\ mon = "loop"
    BY <1>2 DEF ReadError, Fail, Same, Said
  <2> QED
    BY <2>1, <2>2 DEF ReadError, Same, Typed, FlagsTyped, sim
<1>6. DataTyped'
  <2>1. set' \in Known
    BY DEF ReadError, Typed, DataTyped, Known
  <2>2. sync' \in 0..2
    BY DEF ReadError, Typed, DataTyped
  <2> QED
    BY <2>1, <2>2 DEF ReadError, Typed, DataTyped, sim
<1> QED
  BY <1>1, <1>4, <1>5, <1>6 DEF ReadError, Same, Typed, SendersTyped, BoundsTyped, bounds

LEMMA ToldTyped ==
    Typed /\ (ReadCmti \/ ReadCreg \/ ReadSysinfo \/ ReadCfun \/ ReadCpin \/ ReadIccid \/ ReadOrig
                \/ ReadData \/ ReadCsq) => Typed'
<1> SUFFICES ASSUME Typed, ReadCmti \/ ReadCreg \/ ReadSysinfo \/ ReadCfun \/ ReadCpin \/ ReadIccid
                              \/ ReadOrig \/ ReadData \/ ReadCsq
             PROVE  Typed'
  OBVIOUS
<1>0. OutTyped'
  BY SaidIs DEF ReadCmti, ReadCreg, ReadSysinfo, ReadCfun, ReadCpin, ReadIccid, ReadOrig, ReadData,
                ReadCsq, OutTyped
<1>1. ASSUME NEW q, Grown(tasks, q), Insert(q) PROVE QueueTyped'
  BY <1>1, GrownInserted DEF QueueTyped
<1>2. ASSUME NEW q, QuietGrown(tasks, q), Insert(q) PROVE QueueTyped'
  BY <1>1, <1>2 DEF QuietGrown
<1>3. CASE ReadCmti
  <2>1. QueueTyped' /\ mon' \in {mon, "sleep"} /\ mon = "loop"
    <3>1. CASE MayFail /\ mon' = "sleep" /\ UNCHANGED <<tasks, wait, insms>>
      BY <1>3, <3>1 DEF Typed, QueueTyped, ReadCmti, Said
    <3>2. CASE UNCHANGED mon /\ \E q \in Joined(tasks, Retrieve) : Grown(tasks, q) /\ Insert(q)
      BY <1>1, <1>3, <3>2 DEF ReadCmti, Said
    <3> QED
      BY <1>3, <3>1, <3>2, OthersGrow
  <2>2. insms' \in BOOLEAN
    BY <1>3 DEF ReadCmti, Typed, FlagsTyped
  <2>3. FlagsTyped'
    BY <1>3, <2>1, <2>2 DEF ReadCmti, Same, Typed, FlagsTyped, sim
  <2> QED
    BY <1>0, <1>3, <2>1, <2>3 DEF ReadCmti, Same, Typed, DataTyped, SendersTyped, BoundsTyped, sim,
                                  bounds
<1>4. CASE ReadCreg
  <2>1. QueueTyped'
    BY <1>2, <1>4, OthersGrow
  <2>2. set' \in Known
    BY <1>4 DEF ReadCreg, Typed, DataTyped, Known
  <2> QED
    BY <1>0, <1>4, <2>1, <2>2 DEF ReadCreg, Same, Typed, FlagsTyped, DataTyped, SendersTyped,
                                  BoundsTyped, flags, sim, bounds
<1>5. CASE ReadSysinfo
  <2>1. QueueTyped'
    BY <1>2, <1>5, OthersGrow
  <2>2. simst' \in -1..255
    <3>1. Head(out) \in Lines
      BY <1>5, SaidIs DEF ReadSysinfo
    <3> QED
      BY <1>5, <3>1 DEF ReadSysinfo, Lines
  <2> QED
    BY <1>0, <1>5, <2>1, <2>2 DEF ReadSysinfo, Same, Typed, FlagsTyped, DataTyped, SendersTyped,
                                  BoundsTyped, flags, bounds
<1>6. CASE ReadCfun
  <2>1. QueueTyped'
    BY <1>1, <1>6, CfunGrows
  <2>2. set' \in Known
    BY <1>6 DEF ReadCfun, Typed, DataTyped, Known
  <2>3. Head(out) \in Lines /\ Head(out).res = "CFUN"
    BY <1>6, SaidIs DEF ReadCfun
  <2>4. cfun' \in -1..9
    BY <1>6, <2>3 DEF ReadCfun, Lines
  <2>5. simReady' \in BOOLEAN /\ simStart' \in BOOLEAN
    BY <1>6 DEF ReadCfun
  <2> QED
    BY <1>0, <1>6, <2>1, <2>2, <2>4, <2>5 DEF ReadCfun, Same, Typed, FlagsTyped, DataTyped,
                                  SendersTyped, BoundsTyped, flags, bounds
<1>7. CASE ReadCpin
  <2>1. QueueTyped'
    BY <1>1, <1>7, CpinGrows
  <2>2. Head(out) \in Lines /\ Head(out).res = "CPIN"
    BY <1>7, SaidIs DEF ReadCpin
  <2>3. Head(out).val \in 0..2
    BY <2>2 DEF Lines
  <2>4. set' \in Known
    BY <1>7, <2>3 DEF ReadCpin, Typed, DataTyped, Known
  <2>5. simStart' \in BOOLEAN
    BY <1>7 DEF ReadCpin
  <2> QED
    BY <1>0, <1>7, <2>1, <2>4, <2>5 DEF ReadCpin, Same, Typed, FlagsTyped, DataTyped,
                                  SendersTyped, BoundsTyped, flags, bounds
<1>8. CASE ReadOrig
  <2>1. QueueTyped' /\ sync' \in 0..2
    <3>1. CASE UNCHANGED <<tasks, wait, sync>>
      BY <3>1 DEF Typed, QueueTyped, DataTyped
    <3>2. CASE sync' = (IF tasks' = tasks THEN 0 ELSE 1) /\ \E q : Grown(tasks, q) /\ Insert(q)
      BY <1>1, <3>2
    <3> QED
      BY <1>8, <3>1, <3>2, OthersGrow
  <2> QED
    BY <1>0, <1>8, <2>1 DEF ReadOrig, Same, Typed, FlagsTyped, DataTyped, SendersTyped, BoundsTyped,
                            flags, sim, bounds
<1>9. CASE ReadIccid
  <2>1. set' \in Known
    BY <1>9 DEF ReadIccid, Typed, DataTyped, Known
  <2> QED
    BY <1>0, <1>9, <2>1 DEF ReadIccid, Same, Typed, QueueTyped, FlagsTyped, DataTyped, SendersTyped,
                            BoundsTyped, flags, sim, bounds
<1>10. CASE ReadData
  <2>1. Head(out) \in Lines /\ Head(out).res = "DATA"
    BY <1>10, SaidIs DEF ReadData
  <2>2. Head(out).val \in 0..2
    BY <2>1 DEF Lines
  <2>3. set' \in Known
    BY <1>10, <2>2 DEF ReadData, Typed, DataTyped, Known
  <2> QED
    BY <1>0, <1>10, <2>3 DEF ReadData, Same, Typed, QueueTyped, FlagsTyped, DataTyped, SendersTyped,
                             BoundsTyped, flags, sim, bounds
<1>11. CASE ReadCsq
  BY <1>0, <1>11 DEF ReadCsq, Same, Typed, QueueTyped, FlagsTyped, DataTyped, SendersTyped,
                     BoundsTyped, flags, sim, bounds
<1> QED
  BY <1>3, <1>4, <1>5, <1>6, <1>7, <1>8, <1>9, <1>10, <1>11

LEMMA StepTyped == Typed /\ [Next]_vars => Typed'
<1> SUFFICES ASSUME Typed, [Next]_vars PROVE Typed'
  OBVIOUS
<1>1. CASE UNCHANGED vars
  BY <1>1 DEF vars, Typed, QueueTyped, FlagsTyped, DataTyped, SendersTyped, OutTyped, BoundsTyped,
              flags, sim, modem, bounds
<1>2. CASE Read
  BY <1>2, AnsweredTyped, ErrorTyped, ToldTyped DEF Read
<1> QED
  BY <1>1, <1>2, MonitorTyped, ModemTyped, SendersTypedToo DEF Next

LEMMA TypedAlways == Spec => []Typed
<1> QED
  BY InitTyped, StepTyped, PTL DEF Spec

(* Type correctness: whatever fails and whatever the modem says, the queue  *)
(* consists of commands the driver has, the command that is with the modem  *)
(* is the first of the first task, and the counters stay in their ranges.   *)
THEOREM SessionTypeCorrect == Spec => []TypeOK
<1>1. Typed => TypeOK
  <2> SUFFICES ASSUME Typed PROVE TypeOK
    OBVIOUS
  <2>1. tasks \in Seq(Seq(Commanded)) /\ \A t \in 1..Len(tasks) : tasks[t] # <<>>
    <3>1. tasks \in Seq(Right) /\ Right \subseteq Seq(Commanded)
      BY RightIs, CommandedIs DEF Typed, QueueTyped
    <3>2. tasks \in Seq(Seq(Commanded))
      BY <3>1, SeqWithin
    <3>3. \A t \in 1..Len(tasks) : tasks[t] \in Right
      BY <3>1, ElementOfSeq
    <3> QED
      BY <3>2, <3>3, RightIs
  <2>2. wait \in Commanded \cup {"none", "unsent"}
    BY CommandedIs DEF Typed, QueueTyped, WaitRight
  <2>3. wait \notin {"none", "unsent"} => tasks # <<>> /\ tasks[1][1] = wait
    BY DEF Typed, QueueTyped, WaitRight
  <2> QED
    BY <2>1, <2>2, <2>3 DEF Typed, FlagsTyped, DataTyped, SendersTyped, BoundsTyped, Known, TypeOK
<1> QED
  BY <1>1, TypedAlways, PTL

------------------------------------------------------------------------------
(* What a step does to the tasks with a command *)

Keeps(q, r, c) ==
    /\ One(q, c) => One(r, c)
    /\ \A u : Has(u, c) => (u \in Rng(r) <=> u \in Rng(q))

LEMMA KeptAny ==
    ASSUME NEW q, NEW r, NEW c, Keeps(q, r, c)
    PROVE  Any(r, c) <=> Any(q, c)
  BY DEF Keeps, Any

LEMMA QuietKept ==
    ASSUME NEW q, NEW r, QuietGrown(q, r), NEW c \in Marks
    PROVE  Keeps(q, r, c)
  BY QuietKeeps DEF Keeps, Quiet

LEMMA JoinedKept ==
    ASSUME NEW q \in Seq(Right), NEW t \in Right, NEW c, ~Has(t, c),
           NEW r, r = q \/ r \in Joined(q, t)
    PROVE  Keeps(q, r, c)
<1>1. CASE r = q
  BY <1>1 DEF Keeps
<1>2. CASE r \in Joined(q, t)
  <2>1. Rng(r) = Rng(q) \cup {t} /\ (One(q, c) => One(r, c))
    BY <1>2, JoinedHolds
  <2> QED
    BY <2>1 DEF Keeps
<1> QED
  BY <1>1, <1>2

LEMMA RemovedKept ==
    ASSUME NEW q \in Seq(Right), q # <<>>, NEW res, NEW c, ~Has(q[1], c)
    PROVE  Keeps(q, Removed(q, res), c)
<1> DEFINE r == Removed(q, res)
<1>1. /\ Tail(q) \in Seq(Right) /\ q[1] \in Right
      /\ Rng(q) = Rng(Tail(q)) \cup {q[1]}
  BY TailHolds
<1>2. One(q, c) => One(r, c)
  BY RemovedHolds
<1>3. CASE r = Tail(q)
  BY <1>1, <1>2, <1>3 DEF Keeps
<1>4. CASE Len(q[1]) > 1 /\ Tail(q[1]) \in Right /\ r = <<Tail(q[1])>> \o Tail(q)
  <2>1. Rng(r) = Rng(Tail(q)) \cup {Tail(q[1])}
    BY <1>4, StepHolds
  <2>2. ~Has(Tail(q[1]), c)
    BY <1>1, <1>4, HasTail
  <2> QED
    BY <1>1, <1>2, <2>1, <2>2 DEF Keeps
<1> QED
  BY <1>3, <1>4, RemovedEither

(* Steps that end a command with a result.                                  *)
Answered == ReadOk \/ ReadError \/ ReadPrompt \/ ReadCmgr

LEMMA AnsweredKeeps ==
    ASSUME Typed, Answered, NEW c \in Marks, ~Has(tasks[1], c)
    PROVE  Keeps(tasks, tasks', c)
<1>1. tasks \in Seq(Right) /\ tasks # <<>>
  BY DEF Typed, QueueTyped, Answered, ReadOk, ReadError, ReadPrompt, ReadCmgr, Expects, First, UserCmds
<1>2. ASSUME NEW res, tasks' = Removed(tasks, res) PROVE Keeps(tasks, tasks', c)
  BY <1>1, <1>2, RemovedKept
<1>3. CASE ReadOk
  BY <1>2, <1>3 DEF ReadOk, Advance
<1>4. CASE ReadPrompt
  BY <1>2, <1>4 DEF ReadPrompt, Advance
<1>5. CASE ReadCmgr
  BY <1>2, <1>5 DEF ReadCmgr, Advance
<1>6. CASE ReadError
  <2>1. PICK r : /\ r = tasks \/ r \in Joined(tasks, <<"cfun1">>)
                 /\ r \in Seq(Right) /\ r # <<>> /\ r[1] = tasks[1]
                 /\ tasks' = Removed(r, "ERROR")
    BY <1>6, ErrorEffect DEF Fail, Advance
  <2>2. <<"cfun1">> \in QuietSet
    BY DEF QuietSet, UserCmds
  <2>3. Keeps(tasks, r, c)
    BY <1>1, <2>1, <2>2, QuietGrownIs, QuietKept
  <2>4. Keeps(r, tasks', c)
    BY <2>1, RemovedKept
  <2> QED
    BY <2>3, <2>4 DEF Keeps
<1> QED
  BY <1>3, <1>4, <1>5, <1>6 DEF Answered

LEMMA QueueKeeps ==
    ASSUME Typed, [Next]_vars, NEW c \in Marks,
           ~Disconnect, ~(Answered /\ Has(tasks[1], c)),
           ~(ReadOrig /\ c = "CLVL"), ~(ReadCmti /\ c = "CMGR"),
           ~((ReadCfun \/ ReadCpin) /\ c = "CNMI"),
           ~\E s \in Sender : Put(s) /\ Has(job[s], c)
    PROVE  Keeps(tasks, tasks', c)
<1>0. tasks \in Seq(Right)
  BY DEF Typed, QueueTyped
<1>1. ASSUME UNCHANGED tasks PROVE Keeps(tasks, tasks', c)
  BY <1>1 DEF Keeps
<1>2. ASSUME NEW q, QuietGrown(tasks, q), Insert(q) PROVE Keeps(tasks, tasks', c)
  BY <1>2, QuietKept DEF Insert
<1>3. ASSUME NEW q, NEW t \in Right, ~Has(t, c), q = tasks \/ q \in Joined(tasks, t), Insert(q)
      PROVE  Keeps(tasks, tasks', c)
  BY <1>0, <1>3, JoinedKept DEF Insert
<1>4. CASE StartMonitor
  <2>1. mon' = "loop"
    BY <1>4 DEF StartMonitor
  <2> QED
    BY <1>2, <1>4, <2>1, OthersGrow
<1>5. CASE ReadCreg \/ ReadSysinfo \/ Ping
  BY <1>2, <1>5, OthersGrow
<1>6. CASE ReadOrig
  <2>1. Volsync \in Right /\ ~Has(Volsync, c)
    <3>1. Volsync \in Pairs /\ Volsync[1] = "CLVL" /\ Volsync[2] = "CLVL"
      BY DEF Pairs, Volsync
    <3> QED
      BY <1>6, <3>1, PairHas DEF Right
  <2> QED
    BY <1>1, <1>3, <1>6, <2>1, OthersGrow
<1>7. CASE ReadCmti
  <2>1. Retrieve \in Right /\ ~Has(Retrieve, c)
    BY <1>7, RetrieveHas DEF Right, Marks
  <2> QED
    BY <1>1, <1>3, <1>7, <2>1, OthersGrow
<1>8. ASSUME c # "CNMI" PROVE ~Has(SimInit, c)
  <2>1. \A d : Has(SimInit, d) => d \in SimSet
    <3>1. SimInit \in Rest(SimInit)
      BY SetUpScript, SetUpTasks
    <3> QED
      BY <3>1, SimInitIs, RestHas
  <2> QED
    BY <1>8, <2>1 DEF Marks, SimSet
<1>9. CASE ReadCfun
  <2>1. PICK q, r : /\ QuietGrown(tasks, q) /\ q \in Seq(Right)
                    /\ r = q \/ r \in Append1(q, SimInit)
                    /\ Insert(r)
    BY <1>9, CfunGrows
  <2>2. Keeps(tasks, q, c)
    BY <2>1, QuietKept
  <2>3. Keeps(q, r, c)
    BY <1>8, <1>9, <2>1, SetUpScript, FallibleIs, JoinedKept
  <2>4. tasks' = r
    BY <2>1 DEF Insert
  <2> QED
    BY <2>2, <2>3, <2>4 DEF Keeps
<1>10. CASE ReadCpin
  <2>1. PICK r : /\ r \in Append1(tasks, SimInit) \/ QuietGrown(tasks, r)
                 /\ Insert(r)
    BY <1>10, CpinGrows
  <2>2. CASE QuietGrown(tasks, r)
    BY <1>2, <2>1, <2>2
  <2>3. CASE r \in Append1(tasks, SimInit)
    BY <1>3, <1>8, <1>10, <2>1, <2>3, SetUpScript, FallibleIs
  <2> QED
    BY <2>1, <2>2, <2>3
<1>11. ASSUME NEW s \in Sender, Put(s) PROVE Keeps(tasks, tasks', c)
  <2>1. CASE up /\ job[s] \in Jobs
    BY <1>1, <1>3, <1>11, <2>1, PutGrows, JobsRight
  <2>2. CASE UNCHANGED tasks
    BY <1>1, <2>2
  <2> QED
    BY <1>11, <2>1, <2>2, PutGrows
<1>12. CASE Answered
  BY <1>12, AnsweredKeeps
<1>13. CASE Lost \/ GiveUp \/ Awake
  BY <1>13 DEF Lost, GiveUp, Awake
<1>14. CASE Connect \/ Reply \/ News \/ Hum
  BY <1>1, <1>14 DEF Connect, Reply, News, Hum
<1>15. CASE Unexpected \/ ReadIccid \/ ReadData \/ ReadCsq
  BY <1>1, <1>15 DEF Unexpected, ReadIccid, ReadData, ReadCsq
<1>16. ASSUME NEW s \in Sender, Find(s) \/ Mark(s) PROVE Keeps(tasks, tasks', c)
  BY <1>1, <1>16 DEF Find, Mark
<1>17. CASE UNCHANGED vars
  BY <1>1, <1>17 DEF vars
<1> QED
  BY <1>4, <1>5, <1>6, <1>7, <1>9, <1>10, <1>11, <1>12, <1>13, <1>14, <1>15, <1>16, <1>17
  DEF Next, Read, Answered

------------------------------------------------------------------------------
(* The volume *)

LEMMA EmptyHas == \A c : ~Any(<<>>, c) /\ One(<<>>, c) /\ Rng(<<>>) = {}
<1>1. Len(<<>>) = 0 /\ 1..0 = {}
  OBVIOUS
<1> QED
  BY <1>1 DEF Any, One, Rng

LEMMA VolsyncIs ==
    /\ Volsync \in Right /\ <<"CLVL">> \in Right /\ Has(Volsync, "CLVL") /\ Has(<<"CLVL">>, "CLVL")
    /\ Len(Volsync) = 2 /\ Tail(Volsync) = <<"CLVL">> /\ Volsync[1] = "CLVL"
    /\ Len(<<"CLVL">>) = 1
<1>1. Volsync \in Pairs /\ Volsync[1] = "CLVL" /\ Len(Volsync) = 2 /\ Tail(Volsync) = <<"CLVL">>
  BY DEF Pairs, Volsync
<1>2. <<"CLVL">> \in Singles
  BY DEF Singles
<1> QED
  BY <1>1, <1>2, PairHas, SingleHas DEF Right

LEMMA SyncStays ==
    Typed /\ [Next]_vars => Disconnect \/ ReadOrig \/ ReadOk \/ ReadError \/ sync' = sync
<1> SUFFICES ASSUME Typed, [Next]_vars, ~Disconnect, ~ReadOrig, ~ReadOk, ~ReadError PROVE sync' = sync
  OBVIOUS
<1>1. CASE Read
  BY <1>1 DEF Read, ReadData, ReadCsq, Unexpected, ReadPrompt, ReadCmgr, ReadCmti, ReadCreg,
              ReadSysinfo, ReadCfun, ReadCpin, ReadIccid
<1>2. CASE Connect \/ StartMonitor \/ Lost \/ GiveUp \/ Awake \/ Ping \/ Reply \/ News \/ Hum
  BY <1>2 DEF Connect, StartMonitor, Lost, GiveUp, Awake, Ping, Reply, News, Hum
<1>3. ASSUME NEW s \in Sender, Find(s) \/ Mark(s) \/ Put(s) PROVE sync' = sync
  BY <1>3 DEF Find, Mark, Put
<1>4. CASE UNCHANGED vars
  BY <1>4 DEF vars
<1> QED
  BY <1>1, <1>2, <1>3, <1>4 DEF Next

LEMMA SyncStep == Typed /\ SyncInv /\ [Next]_vars => SyncInv'
<1> SUFFICES ASSUME Typed, SyncInv, [Next]_vars PROVE SyncInv'
  OBVIOUS
<1>0. tasks \in Seq(Right) /\ sync \in 0..2
  BY DEF Typed, QueueTyped, DataTyped
<1> DEFINE one == <<"CLVL">>
<1>1. CASE Disconnect
  BY <1>1, EmptyHas DEF Disconnect, SyncInv
<1>2. ASSUME Keeps(tasks, tasks', "CLVL"), sync' = sync PROVE SyncInv'
  <2>1. One(tasks', "CLVL") /\ (Any(tasks', "CLVL") <=> Any(tasks, "CLVL"))
    BY <1>2, KeptAny DEF SyncInv, Keeps
  <2>2. \A u \in {Volsync, one} : u \in Rng(tasks') <=> u \in Rng(tasks)
    BY <1>2, VolsyncIs DEF Keeps
  <2> QED
    BY <1>2, <2>1, <2>2 DEF SyncInv
<1>3. CASE ReadOrig
  <2>1. CASE UNCHANGED <<tasks, wait, sync>>
    BY <2>1 DEF SyncInv
  <2>2. CASE ~UNCHANGED <<tasks, wait, sync>>
    <3>1. PICK q : /\ sync = 0 /\ sync' = (IF tasks' = tasks THEN 0 ELSE 1)
                   /\ q = tasks \/ q \in Joined(tasks, Volsync)
                   /\ Insert(q)
      BY <1>3, <2>2, OthersGrow
    <3>2. tasks' = q /\ One(tasks, "CLVL") /\ ~Any(tasks, "CLVL")
      BY <3>1 DEF Insert, SyncInv
    <3>3. CASE q = tasks
      BY <3>1, <3>2, <3>3 DEF SyncInv
    <3>4. CASE q \in Joined(tasks, Volsync)
      <4>1. q # tasks /\ Rng(q) = Rng(tasks) \cup {Volsync} /\ One(q, "CLVL")
        BY <1>0, <3>2, <3>4, VolsyncIs, JoinedHolds
      <4> QED
        BY <3>1, <3>2, <4>1 DEF SyncInv
    <3> QED
      BY <3>1, <3>3, <3>4
  <2> QED
    BY <2>1, <2>2
(* An answer to a command that has to do with the volume.                   *)
<1>4. ASSUME Answered, Has(tasks[1], "CLVL"), tasks # <<>> PROVE SyncInv'
  <2>1. /\ tasks[1] \in Right /\ tasks[1] \in Rng(tasks)
        /\ Rng(tasks) = Rng(Tail(tasks)) \cup {tasks[1]}
        /\ One(Tail(tasks), "CLVL") /\ ~Any(Tail(tasks), "CLVL")
    BY <1>0, <1>4, TailHolds DEF SyncInv
  <2>2. tasks[1] = Volsync \/ tasks[1] = one
    BY <1>4, <2>1, TasksWith
  <2>3. tasks[1][1] = "CLVL" /\ Expected("CLVL") = "OK" /\ First(tasks) = "CLVL"
    BY <1>4, <2>2, VolsyncIs DEF Expected, First
  <2>4. CASE ReadError
    <3>1. tasks' = Removed(tasks, "ERROR") /\ sync' = 0
      BY <2>3, <2>4, ErrorEffect DEF ReadError, Fail, Advance
    <3>2. tasks' = Tail(tasks)
      <4>1. Expected(tasks[1][1]) # "ERROR" /\ tasks[1][1] \notin Ignored
        BY <2>3 DEF Ignored
      <4> QED
        BY <3>1, <4>1 DEF Removed
    <3>3. sync' = 0
      BY <3>1
    <3> QED
      BY <2>1, <3>2, <3>3 DEF SyncInv
  <2>5. CASE ReadOk
    <3>1. tasks' = Removed(tasks, "OK") /\ sync' = Stepped(sync)
      BY <2>3, <2>5 DEF ReadOk, Advance
    <3>2. CASE tasks[1] = Volsync
      <4>1. sync = 1
        <5>1. sync # 0
          BY <1>4, <2>1 DEF SyncInv, Any
        <5>2. sync # 2
          <6>1. ASSUME sync = 2 PROVE FALSE
            <7>1. one \in Rng(Tail(tasks))
              <8>1. one # Volsync
                BY VolsyncIs
              <8>2. one \in Rng(tasks)
                BY <6>1 DEF SyncInv
              <8> QED
                BY <2>1, <3>2, <8>1, <8>2
            <7> QED
              BY <2>1, <7>1, VolsyncIs DEF Any
          <6> QED
            BY <6>1
        <5> QED
          BY <1>0, <5>1, <5>2
      <4>2. tasks' = <<Tail(tasks[1])>> \o Tail(tasks) /\ Tail(tasks[1]) = one
        <5>1. Len(tasks[1]) > 1
          BY <3>2, VolsyncIs
        <5> QED
          BY <1>0, <1>4, <2>3, <3>1, <3>2, <5>1, RemovedIs, VolsyncIs
      <4>3. Rng(tasks') = Rng(Tail(tasks)) \cup {one} /\ One(tasks', "CLVL")
        <5>1. Len(tasks[1]) > 1
          BY <3>2, VolsyncIs
        <5>2. One(tasks, "CLVL") /\ one \in Right
          BY VolsyncIs DEF SyncInv
        <5>3. tasks' = <<one>> \o Tail(tasks) /\ one = Tail(tasks[1])
          BY <4>2
        <5> HIDE DEF one
        <5>4. \A r : r = <<one>> \o Tail(tasks)
                       => Rng(r) = Rng(Tail(tasks)) \cup {one} /\ One(r, "CLVL")
          BY <1>0, <1>4, <5>1, <5>2, <5>3, StepHolds
        <5> QED
          BY <5>3, <5>4
      <4>4. sync' = 2
        BY <3>1, <4>1 DEF Stepped
      <4> QED
        BY <4>3, <4>4 DEF SyncInv
    <3>3. CASE tasks[1] = one
      <4>1. sync = 2
        <5>1. sync # 0
          BY <1>4, <2>1 DEF SyncInv, Any
        <5>2. sync # 1
          <6>1. ASSUME sync = 1 PROVE FALSE
            <7>1. Volsync \in Rng(Tail(tasks))
              <8>1. one # Volsync
                BY VolsyncIs
              <8>2. Volsync \in Rng(tasks)
                BY <6>1 DEF SyncInv
              <8> QED
                BY <2>1, <3>3, <8>1, <8>2
            <7> QED
              BY <2>1, <7>1, VolsyncIs DEF Any
          <6> QED
            BY <6>1
        <5> QED
          BY <1>0, <5>1, <5>2
      <4>2. tasks' = Tail(tasks)
        BY <1>0, <1>4, <3>1, <3>3, RemovedIs, VolsyncIs
      <4>3. sync' = 0
        BY <3>1, <4>1 DEF Stepped
      <4> QED
        BY <2>1, <4>2, <4>3 DEF SyncInv
    <3> QED
      BY <2>2, <3>2, <3>3
  <2>6. ~ReadPrompt /\ ~ReadCmgr
    BY <2>3 DEF ReadPrompt, ReadCmgr, Expects, UserCmds
  <2> QED
    BY <1>4, <2>4, <2>5, <2>6 DEF Answered
<1>5. ASSUME Answered, ~Has(tasks[1], "CLVL"), tasks # <<>> PROVE SyncInv'
  <2>1. Keeps(tasks, tasks', "CLVL")
    BY <1>5, AnsweredKeeps DEF Marks
  <2>2. sync' = sync
    <3>1. tasks[1][1] # "CLVL"
      <4>1. tasks[1] \in Right
        BY <1>0, <1>5, TailHolds
      <4> QED
        BY <1>5, <4>1, HasTail
    <3> QED
      BY <1>5, <3>1 DEF Answered, ReadOk, ReadError, ReadPrompt, ReadCmgr
  <2> QED
    BY <1>2, <2>1, <2>2
<1>6. ASSUME Answered PROVE tasks # <<>>
  BY <1>6 DEF Answered, ReadOk, ReadError, ReadPrompt, ReadCmgr, Expects, First, UserCmds
<1>7. CASE ~Disconnect /\ ~ReadOrig /\ ~Answered
  <2>1. ~\E s \in Sender : Put(s) /\ Has(job[s], "CLVL")
    <3> SUFFICES ASSUME NEW s \in Sender, Put(s), Has(job[s], "CLVL") PROVE FALSE
      OBVIOUS
    <3>1. job[s] \in Jobs
      BY DEF Typed, SendersTyped, Put
    <3>2. Jobs \cap {Volsync, one} = {}
      BY DEF Jobs, Pdu, Text, Forward, Volsync
    <3> QED
      BY <3>1, <3>2, JobsRight, TasksWith
  <2>2. Keeps(tasks, tasks', "CLVL")
    BY <1>7, <2>1, QueueKeeps DEF Marks
  <2> QED
    BY <1>2, <1>7, <2>2, SyncStays DEF Answered
<1> QED
  BY <1>1, <1>3, <1>4, <1>5, <1>6, <1>7

------------------------------------------------------------------------------
(* Every step keeps the results right *)

LEMMA AnswerForms ==
    ASSUME NEW c \in Names, NEW a \in Answers(c)
    PROVE  \/ a = <<Line("ERROR", 0)>> /\ c \in Refused
           \/ a = <<Ok>> /\ (c = "CMGR" => EmptySlot)
           \/ /\ \E l : /\ a = <<l, Ok>>
                        /\ l.res \in {"CFUN", "SYSINFO", "CPIN", "CREG", "ICCID", "DATA", "CSQ"}
              /\ c \notin {"CMGR", "CMGF"}
           \/ a = <<Line("PROMPT", 0)>> /\ c \in {"CMGS_PDU", "CMGS_TEXT"}
           \/ a = <<Line("CMGR", 0)>> /\ c \in {"CMGR", "user"}
<1> DEFINE Long(b) == \E l : /\ b = <<l, Ok>>
                             /\ l.res \in {"CFUN", "SYSINFO", "CPIN", "CREG", "ICCID", "DATA", "CSQ"}
<1>1. \A n : \A r \in {"CFUN", "SYSINFO", "CPIN", "CREG", "ICCID", "DATA", "CSQ"} :
         Long(<<Line(r, n), Ok>>)
  <2> TAKE n
  <2> TAKE r \in {"CFUN", "SYSINFO", "CPIN", "CREG", "ICCID", "DATA", "CSQ"}
  <2>1. Line(r, n).res = r
    BY DEF Line
  <2> QED
    BY <2>1
<1> HIDE DEF Long
<1>2. \/ a = <<Line("ERROR", 0)>> /\ c \in Refused
      \/ a = <<Ok>> /\ (c = "CMGR" => EmptySlot)
      \/ Long(a) /\ c \notin {"CMGR", "CMGF"}
      \/ a = <<Line("PROMPT", 0)>> /\ c \in {"CMGS_PDU", "CMGS_TEXT"}
      \/ a = <<Line("CMGR", 0)>> /\ c \in {"CMGR", "user"}
  BY <1>1 DEF Answers
<1> QED
  BY <1>2 DEF Long

LEMMA AnswersRight ==
    ASSUME NEW c \in Names, NEW a \in Answers(c), NEW q, q # <<>>, First(q) = c,
           NEW p, c = "CMGF" /\ a = <<Ok>> => p, NEW j \in 1..Len(a)
    PROVE  ResultRight(a[j], j = Len(a), "none", q, p)
<1>1. Ok.res = "OK" /\ Line("ERROR", 0).res = "ERROR" /\ Line("PROMPT", 0).res = "PROMPT"
      /\ Line("CMGR", 0).res = "CMGR"
  BY DEF Ok, Line
<1>2. ASSUME NEW l, a = <<l>> PROVE a[j] = l /\ j = Len(a)
  BY <1>2
<1>3. ASSUME NEW l, a = <<l, Ok>> PROVE (a[j] = l \/ a[j] = Ok) /\ (a[j] # l => j = Len(a))
  BY <1>3
<1>4. CASE a = <<Line("ERROR", 0)>> /\ c \in Refused
  BY <1>1, <1>2, <1>4 DEF ResultRight
<1>5. CASE a = <<Ok>> /\ (c = "CMGR" => EmptySlot)
  BY <1>1, <1>2, <1>5 DEF ResultRight
<1>6. CASE /\ \E l : /\ a = <<l, Ok>>
                     /\ l.res \in {"CFUN", "SYSINFO", "CPIN", "CREG", "ICCID", "DATA", "CSQ"}
           /\ c \notin {"CMGR", "CMGF"}
  <2>1. PICK l : /\ a = <<l, Ok>>
                 /\ l.res \in {"CFUN", "SYSINFO", "CPIN", "CREG", "ICCID", "DATA", "CSQ"}
    BY <1>6
  <2>2. CASE a[j] = l
    BY <2>1, <2>2 DEF ResultRight
  <2>3. CASE a[j] = Ok /\ j = Len(a)
    BY <1>1, <1>6, <2>3 DEF ResultRight
  <2> QED
    BY <1>3, <2>1, <2>2, <2>3
<1>7. CASE a = <<Line("PROMPT", 0)>> /\ c \in {"CMGS_PDU", "CMGS_TEXT"}
  BY <1>1, <1>2, <1>7 DEF ResultRight
<1>8. CASE a = <<Line("CMGR", 0)>> /\ c \in {"CMGR", "user"}
  BY <1>1, <1>2, <1>8 DEF ResultRight
<1> QED
  BY <1>4, <1>5, <1>6, <1>7, <1>8, AnswerForms

(* The queue may grow, and the modem be told, without a result going wrong. *)
LEMMA ResultStays ==
    ASSUME tasks # <<>> => tasks' # <<>> /\ First(tasks') = First(tasks),
           tasks # <<>> /\ wait = "none" => wait' = "none",
           pduMode' = pduMode,
           NEW l, NEW last, ResultRight(l, last, wait, tasks, pduMode)
    PROVE  ResultRight(l, last, wait', tasks', pduMode')
  BY DEF ResultRight

LEMMA OutEmpty == out' = <<>> => OutRight'
  BY DEF OutRight

LEMMA OutStays ==
    ASSUME OutRight,
           tasks # <<>> => tasks' # <<>> /\ First(tasks') = First(tasks),
           tasks # <<>> /\ wait = "none" => wait' = "none",
           pduMode' = pduMode, out' = out
    PROVE  OutRight'
  BY ResultStays DEF OutRight

LEMMA OutRead ==
    ASSUME Typed, OutRight, NEW r, Said(r),
           tasks # <<>> => tasks' # <<>> /\ First(tasks') = First(tasks),
           tasks # <<>> /\ wait = "none" => wait' = "none",
           pduMode' = pduMode
    PROVE  OutRight'
<1> SUFFICES ASSUME NEW i \in 1..Len(out')
             PROVE  ResultRight(out'[i], i = Len(out'), wait', tasks', pduMode')
  BY DEF OutRight
<1>1. /\ Len(out) \in Nat \ {0} /\ Len(out') = Len(out) - 1
      /\ \A k \in 1..(Len(out) - 1) : out'[k] = out[k + 1]
  BY SaidIs
<1>2. out'[i] = out[i + 1] /\ i + 1 \in 1..Len(out) /\ (i = Len(out')) = (i + 1 = Len(out))
  BY <1>1
<1>3. ResultRight(out'[i], i = Len(out'), wait, tasks, pduMode)
  BY <1>2 DEF OutRight
<1> QED
  BY <1>3, ResultStays

(* A result is the last line.                                               *)
LEMMA ResultLast ==
    ASSUME Typed, OutRight,
           \/ Said("OK") \/ Said("ERROR") \/ Said("CMGR")
           \/ Said("PROMPT") /\ First(tasks) # "AT"
    PROVE  out' = <<>> /\ Len(out) = 1 /\ ResultRight(out[1], TRUE, wait, tasks, pduMode)
<1>1. PICK r \in {"OK", "ERROR", "CMGR", "PROMPT"} : Said(r) /\ (r = "PROMPT" => First(tasks) # "AT")
  OBVIOUS
<1>2. /\ Len(out) \in Nat \ {0} /\ Len(out') = Len(out) - 1 /\ out' \in Seq(Lines) /\ out[1].res = r
  BY <1>1, SaidIs
<1>3. ResultRight(out[1], 1 = Len(out), wait, tasks, pduMode)
  BY <1>2 DEF OutRight
<1>4. Len(out) = 1
  BY <1>1, <1>2, <1>3 DEF ResultRight
<1>5. out' = <<>>
  <2>1. Len(out') = 0
    BY <1>2, <1>4
  <2> QED
    BY <1>2, <2>1, EmptySeq
<1>6. (1 = Len(out)) = TRUE
  BY <1>4
<1> QED
  BY <1>3, <1>4, <1>5, <1>6

LEMMA ReplyRight == Typed /\ OutRight /\ Reply => OutRight'
<1> SUFFICES ASSUME Typed, OutRight, Reply PROVE OutRight'
  OBVIOUS
<1>1. PICK a \in Answers(wait) :
           /\ out' = out \o a
           /\ pduMode' = (pduMode \/ (wait = "CMGF" /\ a = <<Ok>>))
  BY DEF Reply
<1>2. wait \in Names /\ wait \notin {"none", "unsent"} /\ tasks # <<>> /\ First(tasks) = wait
  BY DEF Reply, Typed, QueueTyped, WaitRight, First
<1>3. a \in Seq(Lines) /\ Len(a) \in 1..2 /\ out \in Seq(Lines)
  BY <1>2, AnswersTyped DEF Typed, OutTyped
<1>4. wait' = "none" /\ tasks' = tasks
  BY DEF Reply
<1>5. Len(out) \in Nat /\ Len(a) \in Nat /\ Len(a) > 0 /\ Len(out') = Len(out) + Len(a)
  BY <1>1, <1>3, ConcatProperties, LenProperties
<1>6. \A i \in 1..(Len(out) + Len(a)) :
         out'[i] = IF i <= Len(out) THEN out[i] ELSE a[i - Len(out)]
  BY <1>1, <1>3, ConcatProperties
<1> SUFFICES ASSUME NEW i \in 1..(Len(out) + Len(a))
             PROVE  ResultRight(out'[i], i = Len(out'), "none", tasks, pduMode')
  BY <1>4, <1>5 DEF OutRight
<1>7. CASE i <= Len(out)
  <2>1. i \in 1..Len(out) /\ out'[i] = out[i] /\ i # Len(out')
    BY <1>5, <1>6, <1>7
  <2>2. ResultRight(out[i], i = Len(out), wait, tasks, pduMode)
    BY <2>1 DEF OutRight
  <2> QED
    BY <1>2, <2>1, <2>2 DEF ResultRight
<1>8. CASE ~(i <= Len(out))
  <2> DEFINE j == i - Len(out)
  <2>1. j \in 1..Len(a) /\ out'[i] = a[j] /\ (i = Len(out')) = (j = Len(a))
    BY <1>5, <1>6, <1>8
  <2>2. wait = "CMGF" /\ a = <<Ok>> => pduMode'
    BY <1>1
  <2> HIDE DEF j
  <2>3. ResultRight(a[j], j = Len(a), "none", tasks, pduMode')
    BY <1>2, <2>1, <2>2, AnswersRight
  <2> QED
    BY <2>1, <2>3
<1> QED
  BY <1>7, <1>8

LEMMA OutStep == Typed /\ OutRight /\ [Next]_vars => OutRight'
<1> SUFFICES ASSUME Typed, OutRight, [Next]_vars PROVE OutRight'
  OBVIOUS
<1>1. CASE Disconnect
  BY <1>1, OutEmpty DEF Disconnect
<1>2. CASE StartMonitor
  BY <1>2, OutEmpty DEF StartMonitor, Disconnect
<1>3. CASE Lost \/ GiveUp \/ Awake
  BY <1>1, <1>3 DEF Lost, GiveUp, Awake
<1>4. CASE Ping
  BY <1>4, OutEmpty DEF Ping
<1>5. CASE Reply
  BY <1>5, ReplyRight
<1>6. ASSUME News \/ Hum PROVE OutRight'
  <2>1. PICK l : /\ out' = <<l>> /\ l.res \notin {"OK", "ERROR", "CMGR"}
                 /\ l.res = "PROMPT" => First(tasks) = "AT"
    <3>1. \A l : Append(<<>>, l) = <<l>>
      OBVIOUS
    <3>2. \A r, v : Line(r, v).res = r
      BY DEF Line
    <3>3. CASE News
      BY <3>1, <3>2, <3>3 DEF News
    <3>4. CASE Hum
      BY <3>2, <3>4 DEF Hum
    <3> QED
      BY <1>6, <3>3, <3>4
  <2>2. tasks' = tasks /\ Len(out') = 1 /\ out'[1] = l
    BY <1>6, <2>1 DEF News, Hum
  <2>3. First(tasks) = "AT" => tasks # <<>>
    BY DEF First
  <2> QED
    BY <2>1, <2>2, <2>3 DEF OutRight, ResultRight
<1>7. CASE ReadOk \/ ReadError \/ ReadCmgr
  BY <1>7, ResultLast, OutEmpty DEF ReadOk, ReadError, ReadCmgr
<1>8. CASE ReadPrompt
  <2>1. First(tasks) # "AT"
    BY <1>8 DEF ReadPrompt, Expects, Expected, First
  <2> QED
    BY <1>8, <2>1, ResultLast, OutEmpty DEF ReadPrompt
<1>9. ASSUME NEW q, Grown(tasks, q), Insert(q)
      PROVE  /\ tasks # <<>> => tasks' # <<>> /\ First(tasks') = First(tasks)
             /\ tasks # <<>> /\ wait = "none" => wait' = "none"
  BY <1>9, GrownInserted
<1>10. ASSUME NEW q, QuietGrown(tasks, q), Insert(q)
       PROVE  /\ tasks # <<>> => tasks' # <<>> /\ First(tasks') = First(tasks)
              /\ tasks # <<>> /\ wait = "none" => wait' = "none"
  BY <1>9, <1>10 DEF QuietGrown
<1>11. CASE ReadCreg \/ ReadSysinfo
  <2>1. PICK q : QuietGrown(tasks, q) /\ Insert(q)
    BY <1>11, OthersGrow
  <2>2. pduMode' = pduMode /\ \E r : Said(r)
    BY <1>11 DEF ReadCreg, ReadSysinfo, Same
  <2> QED
    BY <1>10, <2>1, <2>2, OutRead
<1>12. CASE ReadCmti \/ ReadOrig \/ ReadCfun \/ ReadCpin
  <2>1. UNCHANGED <<tasks, wait>> \/ \E q : Grown(tasks, q) /\ Insert(q)
    BY <1>12, OthersGrow, CfunGrows, CpinGrows
  <2>2. pduMode' = pduMode /\ \E r : Said(r)
    BY <1>12 DEF ReadCmti, ReadOrig, ReadCfun, ReadCpin, Same
  <2> QED
    BY <1>9, <2>1, <2>2, OutRead
<1>13. CASE Unexpected \/ ReadIccid \/ ReadData \/ ReadCsq
  <2>1. UNCHANGED <<tasks, wait, pduMode>> /\ \E r : Said(r)
    BY <1>13 DEF Unexpected, ReadIccid, ReadData, ReadCsq, Same
  <2> QED
    BY <2>1, OutRead
<1>14. ASSUME NEW s \in Sender, Put(s) PROVE OutRight'
  <2>1. UNCHANGED <<tasks, wait>> \/ \E q : Grown(tasks, q) /\ Insert(q)
    BY <1>14, PutGrows
  <2>2. pduMode' = pduMode /\ out' = out
    BY <1>14 DEF Put
  <2> QED
    BY <1>9, <2>1, <2>2, OutStays
<1>15. CASE Connect \/ (\E s \in Sender : Find(s) \/ Mark(s)) \/ UNCHANGED vars
  <2>1. UNCHANGED <<tasks, wait, pduMode, out>>
    BY <1>15 DEF Connect, Find, Mark, vars, modem
  <2> QED
    BY <2>1, OutStays
<1> QED
  BY <1>2, <1>3, <1>4, <1>5, <1>6, <1>7, <1>8, <1>11, <1>12, <1>13, <1>14, <1>15 DEF Next, Read

------------------------------------------------------------------------------
(* The set-up of the card *)

(* Nothing is lost on the way into the queue, and of the commands that set   *)
(* up the card the modem refuses only what ends the connection or what may   *)
(* be ignored.                                                               *)
SetUpMayFail == MayFail \/ ~(Refused \cap {SimInit[i] : i \in 1..Len(SimInit)}
                               \subseteq Critical \cup Ignored)

LEMMA HeadInSetUp ==
    ASSUME Typed, tasks # <<>>, Has(tasks[1], "CNMI")
    PROVE  /\ tasks[1] \in Rest(SimInit)
           /\ tasks[1][1] \in SimSet \cap {SimInit[i] : i \in 1..Len(SimInit)}
           /\ First(tasks) = tasks[1][1]
<1>1. tasks[1] \in Right
  BY TailHolds DEF Typed, QueueTyped
<1>2. tasks[1] \in Rest(SimInit)
  BY <1>1, SetUpTasks
<1>3. tasks[1][1] \in {SimInit[i] : i \in 1..Len(SimInit)}
  BY <1>2, SetUpHas
<1>4. \A i \in 1..Len(SimInit) : SimInit[i] \in SimSet
  BY SimInitIs, ElementOfSeq
<1> QED
  BY <1>2, <1>3, <1>4 DEF First

LEMMA AnsweredIs ==
    ASSUME Typed, Answered
    PROVE  /\ tasks \in Seq(Right) /\ tasks # <<>> /\ tasks[1] \in Right
           /\ mon = "loop" /\ mon' \in {"loop", "sleep"}
           /\ UNCHANGED <<simStart, simReady, pc, job, up, strayed>>
           /\ First(tasks) = tasks[1][1]
<1>1. tasks # <<>> /\ tasks \in Seq(Right)
  BY DEF Typed, QueueTyped, Answered, ReadOk, ReadError, ReadPrompt, ReadCmgr, Expects, First, UserCmds
<1>2. tasks[1] \in Right
  BY <1>1, TailHolds
<1>3. mon = "loop"
  BY DEF Answered, ReadOk, ReadError, ReadPrompt, ReadCmgr, Said
<1>4. mon' \in {"loop", "sleep"}
  <2>1. CASE ReadError
    BY <1>3, <2>1, ErrorEffect DEF Fail
  <2>2. CASE ~ReadError
    BY <1>3, <2>2 DEF Answered, ReadOk, ReadPrompt, ReadCmgr
  <2> QED
    BY <2>1, <2>2
<1>5. UNCHANGED <<simStart, simReady, pc, job, up, strayed>>
  BY DEF Answered, ReadOk, ReadError, ReadPrompt, ReadCmgr, Same, sim
<1> QED
  BY <1>1, <1>2, <1>3, <1>4, <1>5 DEF First

LEMMA SetUpStays ==
    Typed /\ [Next]_vars =>
        \/ Disconnect \/ StartMonitor \/ Answered \/ ReadCfun \/ ReadCpin
        \/ /\ ready' = ready /\ simStart' = simStart
           /\ \/ mon' = mon
              \/ mon = "none" /\ mon' = "new"
              \/ mon = "loop" /\ mon' = "sleep" /\ MayFail
<1> SUFFICES ASSUME Typed, [Next]_vars, ~Disconnect, ~StartMonitor, ~Answered, ~ReadCfun, ~ReadCpin
             PROVE  /\ ready' = ready /\ simStart' = simStart
                    /\ \/ mon' = mon
                       \/ mon = "none" /\ mon' = "new"
                       \/ mon = "loop" /\ mon' = "sleep" /\ MayFail
  OBVIOUS
<1>1. CASE Read
  BY <1>1 DEF Read, ReadData, ReadCsq, Unexpected, ReadCmti, ReadCreg, ReadSysinfo, ReadIccid,
              ReadOrig, Answered, Said, sim
<1>2. CASE Connect \/ Lost \/ GiveUp \/ Awake \/ Ping \/ Reply \/ News \/ Hum
  BY <1>2 DEF Connect, Lost, GiveUp, Awake, Ping, Reply, News, Hum, sim
<1>3. CASE \E s \in Sender : Find(s) \/ Mark(s) \/ Put(s)
  BY <1>3 DEF Find, Mark, Put, sim
<1>4. CASE UNCHANGED vars
  BY <1>4 DEF vars, sim
<1> QED
  BY <1>1, <1>2, <1>3, <1>4 DEF Next

LEMMA JobsWithout ==
    ASSUME Typed, NEW s \in Sender, Put(s)
    PROVE  job[s] \in Jobs /\ ~Has(job[s], "CNMI") /\ ~Has(job[s], "CMGR")
<1>1. job[s] \in Jobs /\ job[s] \in Right
  BY JobsRight DEF Typed, SendersTyped, Put
<1>2. \A t \in Jobs : t[1] \notin SimSet \cup {"CMGR"}
  BY DEF Jobs, Pdu, Text, Forward, SimSet
<1>3. ~Has(job[s], "CNMI")
  <2>1. ASSUME Has(job[s], "CNMI") PROVE job[s][1] \in SimSet
    <3>1. job[s][1] \in {SimInit[i] : i \in 1..Len(SimInit)}
      BY <1>1, <2>1, SetUpTasks, SetUpHas
    <3> QED
      BY <3>1, SimInitIs, ElementOfSeq
  <2> QED
    BY <1>1, <1>2, <2>1
<1>4. ~Has(job[s], "CMGR")
  BY <1>1, <1>2, TasksWith, RetrieveIs
<1> QED
  BY <1>1, <1>3, <1>4

(* What an answer to a command of the set-up leaves of it.                  *)
LEMMA SetUpAnswered ==
    ASSUME Typed, Answered, Has(tasks[1], "CNMI"), One(tasks, "CNMI"), NEW c, c = tasks[1][1]
    PROVE  /\ One(tasks', "CNMI") /\ (ReadOk \/ ReadError) /\ c \in SimSet
           /\ ReadOk => /\ mon' = "loop" /\ ready' = (ready \/ c = "CNMI")
                        /\ Any(tasks', "CNMI") <=> c # "CNMI"
           /\ ReadError => /\ ready' = ready
                           /\ c \in Critical => mon' = "sleep"
                           /\ c \in Ignored => Any(tasks', "CNMI")
<1>1. /\ tasks \in Seq(Right) /\ tasks # <<>> /\ mon = "loop" /\ mon' \in {"loop", "sleep"}
      /\ tasks[1] \in Right
  BY AnsweredIs
<1>2. /\ tasks[1] \in Rest(SimInit) /\ c \in SimSet
      /\ c \in {SimInit[i] : i \in 1..Len(SimInit)} /\ First(tasks) = c
  BY <1>1, HeadInSetUp
<1>3. c \notin {"CMGS_PDU", "CMGS_TEXT", "CMGR", "CGSN"} \cup UserCmds /\ Expected(c) = "OK"
  BY <1>2 DEF SimSet, UserCmds, Expected
<1>4. ~ReadPrompt /\ ~ReadCmgr
  BY <1>2, <1>3 DEF ReadPrompt, ReadCmgr, Expects
<1>5. Any(tasks, "CNMI")
  BY <1>1, TailHolds DEF Any
<1>6. ASSUME ReadOk
      PROVE  /\ One(tasks', "CNMI") /\ mon' = "loop" /\ ready' = (ready \/ c = "CNMI")
             /\ Any(tasks', "CNMI") <=> c # "CNMI"
  <2>1. tasks' = Removed(tasks, "OK") /\ mon' = mon /\ ready' = (ready \/ c = "CNMI")
    BY <1>6 DEF ReadOk, Advance
  <2>2. One(tasks', "CNMI") /\ \A d : d # c => (Any(tasks', d) <=> Any(tasks, d))
    <3>1. Expected(tasks[1][1]) = "OK"
      BY <1>3
    <3>2. \A r : r = Removed(tasks, "OK")
                   => /\ One(tasks, "CNMI") => One(r, "CNMI")
                      /\ \A d : d # tasks[1][1] => (Any(r, d) <=> Any(tasks, d))
      BY <1>1, <3>1, RemovedHolds
    <3> QED
      BY <2>1, <3>2
  <2>3. ASSUME c = "CNMI" PROVE ~Any(tasks', "CNMI")
    <3>1. ~Any(Tail(tasks), "CNMI")
      BY <1>1, TailHolds
    <3>2. Len(tasks[1]) > 1 => ~Has(Tail(tasks[1]), "CNMI")
      BY <1>2, <2>3, SetUpHas
    <3>3. CASE tasks' = Tail(tasks)
      BY <3>1, <3>3
    <3>4. CASE Len(tasks[1]) > 1 /\ Tail(tasks[1]) \in Right
               /\ tasks' = <<Tail(tasks[1])>> \o Tail(tasks)
      <4>1. \A t, r : t = Tail(tasks[1]) /\ r = <<t>> \o Tail(tasks) /\ t \in Right
                         => Rng(r) = Rng(Tail(tasks)) \cup {t}
        BY <1>1, <3>4, StepHolds
      <4>2. Rng(tasks') = Rng(Tail(tasks)) \cup {Tail(tasks[1])}
        BY <3>4, <4>1
      <4> QED
        BY <3>1, <3>2, <3>4, <4>2 DEF Any
    <3> QED
      BY <1>1, <2>1, <3>3, <3>4, RemovedEither
  <2> QED
    BY <1>1, <1>5, <2>1, <2>2, <2>3
<1>7. ASSUME ReadError
      PROVE  /\ One(tasks', "CNMI") /\ ready' = ready
             /\ c \in Critical => mon' = "sleep"
             /\ c \in Ignored => Any(tasks', "CNMI")
  <2>1. ready' = ready /\ tasks' = Removed(tasks, "ERROR")
    BY <1>3, <1>7, ErrorEffect DEF ReadError, Fail, Advance
  <2>2. One(tasks', "CNMI")
    BY <1>1, <2>1, RemovedHolds
  <2>3. c \in Critical => mon' = "sleep"
    BY <1>7, ErrorEffect DEF Fail
  <2>4. ASSUME c \in Ignored PROVE Any(tasks', "CNMI")
    <3>1. c # "CNMI"
      BY <2>4 DEF Ignored
    <3>2. Any(tasks', "CNMI") <=> Any(tasks, "CNMI")
      BY <1>1, <2>1, <2>4, <3>1, RemovedHolds
    <3> QED
      BY <1>5, <3>2
  <2> QED
    BY <2>1, <2>2, <2>3, <2>4
<1> QED
  BY <1>2, <1>4, <1>6, <1>7 DEF Answered

LEMMA OthersReady ==
    ASSUME Typed, Answered, ~Has(tasks[1], "CNMI")
    PROVE  ready' = ready
<1>1. tasks[1][1] # "CNMI"
  BY AnsweredIs, HasTail
<1>2. ready \in BOOLEAN
  BY DEF Typed, FlagsTyped
<1>3. CASE ReadOk
  BY <1>1, <1>2, <1>3 DEF ReadOk
<1>4. CASE ~ReadOk
  BY <1>4 DEF Answered, ReadError, ReadPrompt, ReadCmgr
<1> QED
  BY <1>3, <1>4

LEMMA CfunKeeps ==
    ASSUME ReadCfun \/ ReadCpin
    PROVE  mon = "loop" /\ mon' = mon /\ ready' = ready
  BY DEF ReadCfun, ReadCpin, Said

LEMMA CfunSetsUp ==
    ASSUME Typed, ReadCfun
    PROVE  /\ mon = "loop" /\ mon' = mon /\ ready' = ready
           /\ \E q : /\ q \in Seq(Right) /\ Keeps(tasks, q, "CNMI")
                     /\ \/ /\ ~simStart /\ simStart'
                           /\ tasks' \in Joined(q, SimInit) \/ (MayFail /\ tasks' = q)
                        \/ simStart' = simStart /\ tasks' = q
<1>1. PICK q, r : /\ QuietGrown(tasks, q) /\ q \in Seq(Right)
                  /\ \/ SetsUpSim(Head(out).val) /\ r \in Append1(q, SimInit)
                     \/ ~SetsUpSim(Head(out).val) /\ r = q
                  /\ Insert(r)
  BY CfunGrows
<1>2. Keeps(tasks, q, "CNMI") /\ tasks' = r
  BY <1>1, QuietKept DEF Marks, Insert
<1>3. simStart' = (simStart \/ Head(out).val = 1)
  BY DEF ReadCfun
<1>4. CASE SetsUpSim(Head(out).val)
  <2>1. ~simStart /\ simStart'
    BY <1>3, <1>4 DEF SetsUpSim
  <2>2. r = q \/ r \in Joined(q, SimInit)
    BY <1>1, <1>4, FallibleIs
  <2>3. ~MayFail => r \in Joined(q, SimInit)
    BY <1>1, <1>4, Infallible
  <2> QED
    BY <1>1, <1>2, <2>1, <2>2, <2>3, CfunKeeps
<1>5. CASE ~SetsUpSim(Head(out).val)
  <2>1. simStart' = simStart
    BY <1>3, <1>5 DEF SetsUpSim, Typed, FlagsTyped
  <2> QED
    BY <1>1, <1>2, <1>5, <2>1, CfunKeeps
<1> QED
  BY <1>4, <1>5

LEMMA CpinSetsUp ==
    ASSUME Typed, ReadCpin
    PROVE  /\ mon = "loop" /\ mon' = mon /\ ready' = ready
           /\ \E q : /\ q \in Seq(Right) /\ Keeps(tasks, q, "CNMI")
                     /\ \/ /\ ~simStart /\ simStart'
                           /\ tasks' \in Joined(q, SimInit) \/ (MayFail /\ tasks' = q)
                        \/ simStart' = simStart /\ tasks' = q
<1> DEFINE begins == Head(out).val = 0 /\ cfun = 1 /\ ~simStart
<1>1. PICK r : /\ \/ begins /\ r \in Append1(tasks, SimInit)
                  \/ ~begins /\ QuietGrown(tasks, r)
               /\ Insert(r)
  BY CpinGrows
<1>2. tasks' = r /\ simStart' = (simStart \/ (Head(out).val = 0 /\ cfun = 1))
  BY <1>1 DEF Insert, ReadCpin
<1>3. CASE begins
  <2>1. r = tasks \/ r \in Joined(tasks, SimInit)
    BY <1>1, <1>3, FallibleIs
  <2>2. ~MayFail => r \in Joined(tasks, SimInit)
    BY <1>1, <1>3, Infallible
  <2>3. tasks \in Seq(Right) /\ Keeps(tasks, tasks, "CNMI")
    BY DEF Keeps, Typed, QueueTyped
  <2>4. ~simStart /\ simStart'
    BY <1>2, <1>3
  <2> QED
    BY <1>2, <2>1, <2>2, <2>3, <2>4, CfunKeeps
<1>4. CASE ~begins
  <2>1. r \in Seq(Right) /\ Keeps(tasks, r, "CNMI")
    BY <1>1, <1>4, QuietKept DEF Marks, QuietGrown, Grown
  <2>2. simStart' = simStart
    BY <1>2, <1>4 DEF Typed, FlagsTyped
  <2> QED
    BY <1>2, <2>1, <2>2, CfunKeeps
<1> QED
  BY <1>3, <1>4

(* The set-up is queued when it is marked as begun, and not again.          *)
LEMMA SetUpStep ==
    ASSUME Typed, SetUpInv, [Next]_vars
    PROVE  SetUpInv'
<1>1. CASE Disconnect
  BY <1>1, EmptyHas DEF Disconnect, SetUpInv
<1>2. ASSUME Keeps(tasks, tasks', "CNMI"), ready' = ready, simStart => simStart',
             \/ mon' = mon
             \/ mon = "none" /\ mon' = "new"
             \/ mon = "loop" /\ mon' = "sleep"
      PROVE  SetUpInv'
  <2>1. One(tasks', "CNMI") /\ (Any(tasks', "CNMI") <=> Any(tasks, "CNMI"))
    BY <1>2, KeptAny DEF SetUpInv, Keeps
  <2> QED
    BY <1>2, <2>1 DEF SetUpInv
<1>3. CASE StartMonitor /\ ~Disconnect
  <2>1. mon = "new" /\ mon' = "loop" /\ ready' = ready
    BY <1>3 DEF StartMonitor
  <2>2. Keeps(tasks, tasks', "CNMI")
    <3>1. PICK q : QuietGrown(tasks, q) /\ Insert(q)
      BY <1>3, <2>1, OthersGrow
    <3> QED
      BY <3>1, QuietKept DEF Marks, Insert
  <2>3. One(tasks', "CNMI") /\ ~Any(tasks', "CNMI")
    BY <2>1, <2>2, KeptAny DEF SetUpInv, Keeps
  <2> QED
    BY <2>1, <2>3 DEF SetUpInv
<1>4. CASE Answered
  <2>0. mon = "loop" /\ mon' \in {"loop", "sleep"} /\ simStart' = simStart /\ tasks[1] \in Right
        /\ tasks \in Seq(Right) /\ tasks # <<>>
    BY <1>4, AnsweredIs
  <2>1. CASE Has(tasks[1], "CNMI")
    <3>1. Any(tasks, "CNMI") /\ One(tasks, "CNMI")
      BY <2>0, <2>1, TailHolds DEF SetUpInv, Any
    <3> DEFINE c == tasks[1][1]
    <3>2. /\ One(tasks', "CNMI")
          /\ \/ ready' = (ready \/ c = "CNMI") /\ (Any(tasks', "CNMI") <=> c # "CNMI")
             \/ ready' = ready
      BY <1>4, <2>1, <3>1, SetUpAnswered
    <3>3. simStart /\ ~ready
      BY <2>0, <3>1 DEF SetUpInv
    <3> HIDE DEF c
    <3>4. ready' => ~Any(tasks', "CNMI")
      BY <3>2, <3>3
    <3> QED
      BY <2>0, <3>2, <3>3, <3>4 DEF SetUpInv
  <2>2. CASE ~Has(tasks[1], "CNMI")
    <3>1. Keeps(tasks, tasks', "CNMI")
      BY <1>4, <2>2, AnsweredKeeps DEF Marks
    <3>2. ready' = ready
      BY <1>4, <2>2, OthersReady
    <3> QED
      BY <1>2, <2>0, <3>1, <3>2
  <2> QED
    BY <2>1, <2>2
<1>5. CASE ReadCfun \/ ReadCpin
  <2>1. mon = "loop" /\ mon' = mon /\ ready' = ready
    BY <1>5, CfunSetsUp, CpinSetsUp
  <2>2. PICK q : /\ q \in Seq(Right) /\ Keeps(tasks, q, "CNMI")
                 /\ \/ /\ ~simStart /\ simStart'
                       /\ tasks' \in Joined(q, SimInit) \/ (MayFail /\ tasks' = q)
                    \/ simStart' = simStart /\ tasks' = q
    BY <1>5, CfunSetsUp, CpinSetsUp
  <2>3. CASE tasks' = q
    BY <1>2, <2>1, <2>2, <2>3
  <2>4. CASE tasks' \in Joined(q, SimInit) /\ ~simStart /\ simStart'
    <3>1. ~ready /\ ~Any(tasks, "CNMI") /\ One(tasks, "CNMI")
      BY <2>1, <2>4 DEF SetUpInv
    <3>2. ~Any(q, "CNMI") /\ One(q, "CNMI")
      BY <2>2, <3>1, KeptAny DEF Keeps
    <3>3. \A r \in Joined(q, SimInit) : One(r, "CNMI")
      BY <2>2, <3>2, SetUpScript, JoinedHolds
    <3> QED
      BY <2>1, <2>4, <3>1, <3>3 DEF SetUpInv
  <2> QED
    BY <2>2, <2>3, <2>4
<1>6. CASE ~Disconnect /\ ~StartMonitor /\ ~Answered /\ ~ReadCfun /\ ~ReadCpin
  <2>1. Keeps(tasks, tasks', "CNMI")
    <3>1. ~\E s \in Sender : Put(s) /\ Has(job[s], "CNMI")
      BY JobsWithout
    <3> QED
      BY <1>6, <3>1, QueueKeeps DEF Marks
  <2> QED
    BY <1>2, <1>6, <2>1, SetUpStays
<1> QED
  BY <1>1, <1>3, <1>4, <1>5, <1>6

(* And it is not lost on the way.                                           *)
LEMMA GoesOnStep ==
    ASSUME ~SetUpMayFail, Typed, OutRight, SetUpInv, SetUpGoesOn, [Next]_vars
    PROVE  SetUpGoesOn'
<1> SUFFICES ASSUME mon' = "loop", simStart', ~ready' PROVE Any(tasks', "CNMI")
  BY DEF SetUpGoesOn
<1>1. ~Disconnect /\ ~StartMonitor
  BY DEF Disconnect, StartMonitor
<1>2. ASSUME Keeps(tasks, tasks', "CNMI"), mon = "loop", simStart, ~ready PROVE Any(tasks', "CNMI")
  BY <1>2, KeptAny DEF SetUpGoesOn
<1>3. CASE Answered
  <2>0. mon = "loop" /\ simStart' = simStart /\ tasks[1] \in Right
        /\ tasks \in Seq(Right) /\ tasks # <<>>
    BY <1>3, AnsweredIs
  <2>1. CASE Has(tasks[1], "CNMI")
    <3> DEFINE c == tasks[1][1]
    <3>1. /\ ReadOk \/ ReadError
          /\ ReadOk => ready' = (ready \/ c = "CNMI") /\ (Any(tasks', "CNMI") <=> c # "CNMI")
          /\ ReadError => /\ c \in Critical => mon' = "sleep"
                          /\ c \in Ignored => Any(tasks', "CNMI")
      BY <1>3, <2>1, SetUpAnswered DEF SetUpInv
    <3>2. CASE ReadOk
      BY <3>1, <3>2
    <3>3. CASE ReadError
      <4>1. Said("ERROR")
        BY <3>3 DEF ReadError
      <4>2. out[1].res = "ERROR" /\ ResultRight(out[1], TRUE, wait, tasks, pduMode)
        BY <4>1, ResultLast, SaidIs
      <4>3. c \in Refused /\ c \in {SimInit[i] : i \in 1..Len(SimInit)}
        BY <2>0, <2>1, <4>2, HeadInSetUp DEF ResultRight
      <4> QED
        BY <3>1, <3>3, <4>3 DEF SetUpMayFail
    <3> QED
      BY <3>1, <3>2, <3>3
  <2>2. CASE ~Has(tasks[1], "CNMI")
    BY <1>2, <1>3, <2>0, <2>2, AnsweredKeeps, OthersReady DEF Marks
  <2> QED
    BY <2>1, <2>2
<1>4. CASE ReadCfun \/ ReadCpin
  <2>1. mon = "loop" /\ ready' = ready /\ ~MayFail
    BY <1>4, CfunSetsUp, CpinSetsUp DEF SetUpMayFail
  <2>2. PICK q : /\ q \in Seq(Right) /\ Keeps(tasks, q, "CNMI")
                 /\ \/ tasks' \in Joined(q, SimInit)
                    \/ simStart' = simStart /\ tasks' = q
    BY <1>4, <2>1, CfunSetsUp, CpinSetsUp
  <2>3. CASE tasks' \in Joined(q, SimInit)
    <3>1. \A r \in Joined(q, SimInit) : Rng(r) = Rng(q) \cup {SimInit}
      BY <2>2, SetUpScript, JoinedHolds
    <3> QED
      BY <2>3, <3>1, SetUpScript DEF Any
  <2> QED
    BY <1>2, <2>1, <2>2, <2>3
<1>5. CASE ~Answered /\ ~ReadCfun /\ ~ReadCpin
  <2>1. Keeps(tasks, tasks', "CNMI")
    <3>1. ~\E s \in Sender : Put(s) /\ Has(job[s], "CNMI")
      BY JobsWithout
    <3> QED
      BY <1>1, <1>5, <3>1, QueueKeeps DEF Marks
  <2> QED
    BY <1>1, <1>2, <1>5, <2>1, SetUpStays
<1> QED
  BY <1>3, <1>4, <1>5

------------------------------------------------------------------------------
(* Counting the commands that are left *)

Places(c) == {p \in (1..Len(tasks)) \X (1..15) :
                  p[2] \in 1..Len(tasks[p[1]]) /\ tasks[p[1]][p[2]] = c}

LEMMA PlacesIs ==
    ASSUME Typed, NEW c, NEW i \in 1..Len(tasks), One(tasks, c), Has(tasks[i], c)
    PROVE  /\ tasks[i] \in Right
           /\ Places(c) = {<<i, j>> : j \in {k \in 1..Len(tasks[i]) : tasks[i][k] = c}}
<1>1. tasks[i] \in Right
  BY ElementOfSeq DEF Typed, QueueTyped
<1>2. \A k \in 1..Len(tasks[i]) : k \in 1..15
  <2>1. Len(tasks[i]) \in 1..15
    BY <1>1, RightIs
  <2>2. \A n \in 1..15 : \A k \in 1..n : k \in 1..15
    OBVIOUS
  <2> QED
    BY <2>1, <2>2, Zenon
<1> DEFINE js == {k \in 1..Len(tasks[i]) : tasks[i][k] = c}
<1>3. ASSUME NEW p \in Places(c) PROVE p = <<i, p[2]>> /\ p[2] \in js
  <2>1. p[1] \in 1..Len(tasks) /\ p[2] \in 1..Len(tasks[p[1]]) /\ tasks[p[1]][p[2]] = c
    BY DEF Places
  <2>2. p = <<p[1], p[2]>>
    BY DEF Places
  <2>3. Has(tasks[p[1]], c)
    BY <2>1 DEF Has
  <2>4. p[1] = i
    BY <2>1, <2>3 DEF One
  <2> QED
    BY <2>1, <2>2, <2>4
<1>4. ASSUME NEW j \in js PROVE <<i, j>> \in Places(c)
  BY <1>2, <1>4 DEF Places
<1>5. Places(c) = {<<i, j>> : j \in js}
  <2> HIDE DEF js
  <2> QED
    BY <1>3, <1>4
<1> QED
  BY <1>1, <1>5

LEMMA NoneLeft ==
    ASSUME Typed, NEW c, ~Any(tasks, c)
    PROVE  Left(c) = 0
<1>1. Places(c) = {}
  BY DEF Places, Any, Rng, Has
<1> QED
  BY <1>1, FS_EmptySet DEF Left, Places

LEMMA OneLeft ==
    ASSUME Typed, NEW c, NEW i \in 1..Len(tasks), One(tasks, c), NEW k \in 1..Len(tasks[i]),
           tasks[i][k] = c, \A j \in 1..Len(tasks[i]) : tasks[i][j] = c => j = k
    PROVE  Left(c) = 1
<1>1. Has(tasks[i], c)
  BY DEF Has
<1>2. Places(c) = {<<i, k>>}
  BY <1>1, PlacesIs
<1>3. Cardinality(Places(c)) = 1
  BY <1>2, FS_Singleton
<1> QED
  BY <1>3 DEF Left, Places

LEMMA TwoLeft ==
    ASSUME Typed, NEW c, NEW i \in 1..Len(tasks), One(tasks, c), Len(tasks[i]) = 2,
           tasks[i][1] = c, tasks[i][2] = c
    PROVE  Left(c) = 2
<1>1. Has(tasks[i], c)
  BY DEF Has
<1>2. Places(c) = {<<i, 1>>} \cup {<<i, 2>>}
  <2>1. Places(c) = {<<i, j>> : j \in {k \in 1..Len(tasks[i]) : tasks[i][k] = c}}
    BY <1>1, PlacesIs
  <2>2. {k \in 1..Len(tasks[i]) : tasks[i][k] = c} = {1, 2}
    OBVIOUS
  <2> QED
    BY <2>1, <2>2
<1>3. <<i, 2>> \notin {<<i, 1>>}
  OBVIOUS
<1>4. Cardinality(Places(c)) = 2
  <2> DEFINE one == {<<i, 1>>}
             new == <<i, 2>>
  <2>1. IsFiniteSet(one) /\ Cardinality(one) = 1
    BY FS_Singleton, Zenon
  <2>2. Places(c) = one \cup {new} /\ new \notin one
    BY <1>2, <1>3
  <2> HIDE DEF one, new
  <2>3. Cardinality(one \cup {new}) = Cardinality(one) + 1
    BY <2>1, <2>2, FS_AddElement
  <2> QED
    BY <2>1, <2>2, <2>3
<1> QED
  BY <1>4 DEF Left, Places

(* A task has the command that makes the device ready at most once.         *)
LEMMA PlaceInSetUp ==
    ASSUME NEW t \in Rest(SimInit), NEW i \in 1..Len(t), NEW j \in 1..Len(t),
           t[i] = "CNMI", t[j] = "CNMI"
    PROVE  i = j
<1>1. PICK k \in 1..Len(SimInit) : t = From(SimInit, k)
  BY DEF Rest
<1> DEFINE l == Len(SimInit)
<1>2. SimInit \in Seq(SimSet) /\ l \in Nat
  BY SimInitIs
<1>3. PICK n \in 1..l : \A m \in 1..l : SimInit[m] = "CNMI" <=> m = n
  BY SimInitIs
<1>4. t \in Seq(SimSet) /\ DOMAIN t = 1..Len(t) /\ DOMAIN t = 1..(l - k + 1)
  <2>1. t \in Seq(SimSet)
    BY <1>2, RestIs
  <2> QED
    BY <1>1, <2>1, LenProperties DEF From
<1>5. i \in 1..(l - k + 1) /\ j \in 1..(l - k + 1)
  BY <1>4
<1>6. t[i] = SimInit[i + k - 1] /\ t[j] = SimInit[j + k - 1]
  BY <1>1, <1>5 DEF From
<1> HIDE DEF l
<1>7. i + k - 1 \in 1..l /\ j + k - 1 \in 1..l
  <2>1. k \in 1..l
    BY DEF l
  <2> QED
    BY <1>2, <1>5, <2>1
<1>8. i + k - 1 = j + k - 1
  BY <1>3, <1>6, <1>7
<1> QED
  BY <1>5, <1>8

LEMMA SetUpCount ==
    ASSUME Typed, One(tasks, "CNMI")
    PROVE  Left("CNMI") = IF Any(tasks, "CNMI") THEN 1 ELSE 0
<1>1. CASE Any(tasks, "CNMI")
  <2>1. PICK i \in 1..Len(tasks) : Has(tasks[i], "CNMI")
    BY <1>1 DEF Any, Rng
  <2>2. PICK k \in 1..Len(tasks[i]) : tasks[i][k] = "CNMI"
    BY <2>1 DEF Has
  <2>3. tasks[i] \in Rest(SimInit)
    BY <2>1, PlacesIs, SetUpTasks
  <2>4. \A j \in 1..Len(tasks[i]) : tasks[i][j] = "CNMI" => j = k
    BY <2>2, <2>3, PlaceInSetUp
  <2> QED
    BY <1>1, <2>2, <2>4, OneLeft
<1>2. CASE ~Any(tasks, "CNMI")
  BY <1>2, NoneLeft
<1> QED
  BY <1>1, <1>2

LEMMA SyncCount == Typed /\ SyncInv => SyncMatches
<1> SUFFICES ASSUME Typed, SyncInv PROVE SyncMatches
  OBVIOUS
<1>0. sync \in 0..2
  BY DEF Typed, DataTyped
<1>1. CASE sync = 0
  BY <1>1, NoneLeft DEF SyncInv, SyncMatches
<1>2. CASE sync = 1
  <2>1. PICK i \in 1..Len(tasks) : tasks[i] = Volsync
    BY <1>2 DEF SyncInv, Rng
  <2>2. Len(Volsync) = 2 /\ Volsync[1] = "CLVL" /\ Volsync[2] = "CLVL"
    BY DEF Volsync
  <2>3. Left("CLVL") = 2
    BY <2>1, <2>2, TwoLeft DEF SyncInv
  <2> QED
    BY <1>2, <2>3 DEF SyncMatches
<1>3. CASE sync = 2
  <2>1. PICK i \in 1..Len(tasks) : tasks[i] = <<"CLVL">>
    BY <1>3 DEF SyncInv, Rng
  <2>2. 1 \in 1..Len(tasks[i]) /\ tasks[i][1] = "CLVL" /\ \A j \in 1..Len(tasks[i]) : j = 1
    BY <2>1
  <2>3. Left("CLVL") = 1
    BY <2>2, OneLeft DEF SyncInv
  <2> QED
    BY <1>3, <2>3 DEF SyncMatches
<1> QED
  BY <1>0, <1>1, <1>2, <1>3

------------------------------------------------------------------------------
LEMMA ResultsAlways == Spec => [](Typed /\ OutRight)
<1>1. Init => OutRight
  <2>1. \A i \in 1..Len(<<>>) : FALSE
    OBVIOUS
  <2> QED
    BY <2>1 DEF Init, OutRight
<1> QED
  BY <1>1, InitTyped, StepTyped, OutStep, PTL DEF Spec

LEMMA SyncAlways == Spec => []SyncInv
<1>1. Init => SyncInv
  BY EmptyHas DEF Init, SyncInv
<1> QED
  BY <1>1, SyncStep, TypedAlways, PTL DEF Spec

LEMMA SetUpAlways == Spec => []SetUpInv
<1>1. Init => SetUpInv
  BY EmptyHas DEF Init, SetUpInv
<1> QED
  BY <1>1, SetUpStep, TypedAlways, PTL DEF Spec

(* The set-up of the SIM card is queued exactly once and is under way until *)
(* the device is ready, whichever answers to AT+CFUN? and AT+CPIN? begin it, *)
(* whatever else is asked for meanwhile: as long as memory lasts and the    *)
(* modem refuses, of the commands that set up the card, none that the       *)
(* driver neither ignores nor takes for the end of the connection.          *)
THEOREM SetUpRunsOnce ==
    ASSUME ~SetUpMayFail
    PROVE  Spec => []SetUpOnce
<1>1. Init => SetUpGoesOn
  BY DEF Init, SetUpGoesOn
<1>2. Typed /\ OutRight /\ SetUpInv /\ SetUpGoesOn /\ [Next]_vars => SetUpGoesOn'
  BY GoesOnStep
<1>3. Typed /\ SetUpInv /\ SetUpGoesOn => SetUpOnce
  BY SetUpCount DEF SetUpInv, SetUpGoesOn, SetUpOnce
<1> QED
  BY <1>1, <1>2, <1>3, ResultsAlways, SetUpAlways, PTL DEF Spec

------------------------------------------------------------------------------
(* The flags *)

LEMMA SendersStay ==
    Typed /\ [Next]_vars =>
        \/ Disconnect \/ \E s \in Sender : Find(s) \/ Mark(s) \/ Put(s)
        \/ UNCHANGED <<pc, job, strayed>> /\ (up' = up \/ up')
<1> SUFFICES ASSUME Typed, [Next]_vars, ~Disconnect,
                    ~\E s \in Sender : Find(s) \/ Mark(s) \/ Put(s)
             PROVE  UNCHANGED <<pc, job, strayed>> /\ (up' = up \/ up')
  OBVIOUS
<1>1. CASE Read
  BY <1>1 DEF Read, ReadData, ReadCsq, Unexpected, ReadCmti, ReadCreg, ReadSysinfo, ReadIccid,
              ReadOrig, ReadOk, ReadError, ReadPrompt, ReadCmgr, ReadCfun, ReadCpin, Same
<1>2. CASE Connect \/ StartMonitor \/ Lost \/ GiveUp \/ Awake \/ Ping \/ Reply \/ News \/ Hum
  BY <1>2 DEF Connect, StartMonitor, Lost, GiveUp, Awake, Ping, Reply, News, Hum
<1>3. CASE UNCHANGED vars
  BY <1>3 DEF vars
<1> QED
  BY <1>1, <1>2, <1>3 DEF Next

LEMMA FlagsStay ==
    Typed /\ [Next]_vars =>
        \/ Disconnect \/ Answered \/ ReadCmti \/ \E s \in Sender : Mark(s)
        \/ sms' = sms /\ ussd' = ussd /\ insms' = insms
<1> SUFFICES ASSUME Typed, [Next]_vars, ~Disconnect, ~Answered, ~ReadCmti,
                    ~\E s \in Sender : Mark(s)
             PROVE  sms' = sms /\ ussd' = ussd /\ insms' = insms
  OBVIOUS
<1>1. CASE Read
  BY <1>1 DEF Read, ReadData, ReadCsq, Unexpected, ReadCreg, ReadSysinfo, ReadIccid,
              ReadOrig, Answered, ReadCfun, ReadCpin, flags
<1>2. CASE Connect \/ StartMonitor \/ Lost \/ GiveUp \/ Awake \/ Ping \/ Reply \/ News \/ Hum
  BY <1>2 DEF Connect, StartMonitor, Lost, GiveUp, Awake, Ping, Reply, News, Hum, flags
<1>3. CASE \E s \in Sender : Find(s) \/ Put(s)
  BY <1>3 DEF Find, Put, flags
<1>4. CASE UNCHANGED vars
  BY <1>4 DEF vars, flags
<1> QED
  BY <1>1, <1>2, <1>3, <1>4 DEF Next

LEMMA ReadsDiffer ==
    ~(ReadOk /\ ReadError) /\ ~(ReadOk /\ ReadCmgr) /\ ~(ReadError /\ ReadCmgr)
<1>1. /\ ReadOk => Head(out).res = "OK"
      /\ ReadError => Head(out).res = "ERROR"
      /\ ReadCmgr => Head(out).res = "CMGR"
  BY DEF ReadOk, ReadError, ReadCmgr, Said
<1> QED
  BY <1>1

(* Whatever ends a command of a message, a code or a message that arrived   *)
(* clears the flag, except the prompt, after which the text is left.        *)
LEMMA SmsAnswered ==
    ASSUME Typed, Answered, sms'
    PROVE  sms /\ (Any(tasks, "SMSTEXT") => Any(tasks', "SMSTEXT"))
<1> DEFINE c == tasks[1][1]
<1>1. tasks \in Seq(Right) /\ tasks # <<>> /\ tasks[1] \in Right /\ First(tasks) = c
  BY AnsweredIs
<1>2. sms /\ (ReadOk => c # "SMSTEXT") /\ (ReadError => c \notin Unsent)
  <2>1. sms \in BOOLEAN
    BY DEF Typed, FlagsTyped
  <2> HIDE DEF c
  <2>2. CASE ReadOk
    <3>1. sms' = (sms /\ c # "SMSTEXT")
      BY <2>2 DEF ReadOk, c
    <3> QED
      BY <2>1, <2>2, <3>1, ReadsDiffer
  <2>3. CASE ReadError
    <3>1. sms' = (sms /\ c \notin Unsent)
      BY <2>3 DEF ReadError, c
    <3> QED
      BY <2>1, <2>3, <3>1, ReadsDiffer
  <2>4. CASE ~ReadOk /\ ~ReadError
    BY <2>4 DEF Answered, ReadPrompt, ReadCmgr, flags
  <2> QED
    BY <2>2, <2>3, <2>4
<1>3. CASE Has(tasks[1], "SMSTEXT")
  <2>1. c \in {"CMGS_PDU", "CMGS_TEXT", "SMSTEXT"}
    <3>1. tasks[1] = Pdu \/ tasks[1] = Text \/ tasks[1] = <<"SMSTEXT">>
      BY <1>1, <1>3, TasksWith
    <3> QED
      BY <3>1 DEF Pdu, Text
  <2>2. Expected(c) = (IF c = "SMSTEXT" THEN "OK" ELSE "PROMPT")
    BY <2>1 DEF Expected
  <2>3. ~ReadCmgr
    <3>1. c \notin UserCmds
      BY <2>1 DEF UserCmds
    <3> QED
      BY <1>1, <2>2, <3>1 DEF ReadCmgr, Expects
  <2>4. ~ReadOk
    BY <1>2, <2>1, <2>2 DEF ReadOk, Expects
  <2>5. ~ReadError
    BY <1>2, <2>1 DEF Unsent
  <2>6. Expected(tasks[1][1]) = "PROMPT" /\ c # "SMSTEXT" /\ tasks' = Removed(tasks, "PROMPT")
    BY <2>2, <2>3, <2>4, <2>5 DEF Answered, ReadPrompt, Expects, Advance
  <2>7. \A r : r = Removed(tasks, "PROMPT") => (Any(r, "SMSTEXT") <=> Any(tasks, "SMSTEXT"))
    BY <1>1, <2>6, RemovedHolds
  <2> QED
    BY <1>2, <2>6, <2>7
<1>4. CASE ~Has(tasks[1], "SMSTEXT")
  <2>1. Keeps(tasks, tasks', "SMSTEXT")
    BY <1>4, AnsweredKeeps DEF Marks
  <2> QED
    BY <1>2, <2>1, KeptAny
<1> QED
  BY <1>3, <1>4

LEMMA UssdAnswered ==
    ASSUME Typed, Answered, ussd'
    PROVE  ussd /\ (Any(tasks, "CUSD") => Any(tasks', "CUSD"))
<1> DEFINE c == tasks[1][1]
<1>1. tasks \in Seq(Right) /\ tasks # <<>> /\ tasks[1] \in Right /\ First(tasks) = c
  BY AnsweredIs
<1>2. ussd /\ (ReadOk \/ ReadError => c # "CUSD")
  <2>1. ussd \in BOOLEAN
    BY DEF Typed, FlagsTyped
  <2> HIDE DEF c
  <2>2. CASE ReadOk
    <3>1. ussd' = (ussd /\ c # "CUSD")
      BY <2>2 DEF ReadOk, c
    <3> QED
      BY <2>1, <3>1
  <2>3. CASE ReadError
    <3>1. ussd' = (ussd /\ c # "CUSD")
      BY <2>3 DEF ReadError, c
    <3> QED
      BY <2>1, <3>1
  <2>4. CASE ~ReadOk /\ ~ReadError
    BY <2>4 DEF Answered, ReadPrompt, ReadCmgr, flags
  <2> QED
    BY <2>2, <2>3, <2>4
<1>3. ~Has(tasks[1], "CUSD")
  <2> SUFFICES ASSUME Has(tasks[1], "CUSD") PROVE FALSE
    OBVIOUS
  <2>1. tasks[1] = <<"CUSD">>
    BY <1>1, TasksWith
  <2>2. c = "CUSD" /\ Expected(c) = "OK"
    BY <2>1 DEF Expected
  <2>3. ~ReadPrompt /\ ~ReadCmgr
    <3>1. c \notin UserCmds
      BY <2>2 DEF UserCmds
    <3> QED
      BY <1>1, <2>2, <3>1 DEF ReadPrompt, ReadCmgr, Expects
  <2> QED
    BY <1>2, <2>2, <2>3 DEF Answered
<1>4. Keeps(tasks, tasks', "CUSD")
  BY <1>3, AnsweredKeeps DEF Marks
<1> QED
  BY <1>2, <1>4, KeptAny

LEMMA InsmsAnswered ==
    ASSUME ~EmptySlot, Typed, OutRight, Answered, insms'
    PROVE  insms /\ (Any(tasks, "CMGR") => Any(tasks', "CMGR"))
<1> DEFINE c == tasks[1][1]
<1>1. tasks \in Seq(Right) /\ tasks # <<>> /\ tasks[1] \in Right /\ First(tasks) = c
  BY AnsweredIs
<1>2. insms /\ ~ReadCmgr /\ (ReadError => c # "CMGR")
  <2>1. insms \in BOOLEAN
    BY DEF Typed, FlagsTyped
  <2> HIDE DEF c
  <2>1a. ~ReadCmgr
    BY DEF ReadCmgr
  <2>2. CASE ReadOk
    <3>1. insms' = insms
      BY <2>2 DEF ReadOk
    <3> QED
      BY <2>1a, <2>2, <3>1, ReadsDiffer
  <2>3. CASE ReadError
    <3>1. insms' = (insms /\ c \notin {"CMGR", "CMGD"})
      BY <2>3 DEF ReadError, c
    <3> QED
      BY <2>1, <2>1a, <3>1
  <2>4. CASE ~ReadOk /\ ~ReadError
    BY <2>1a, <2>4 DEF Answered, ReadPrompt, flags
  <2> QED
    BY <2>2, <2>3, <2>4
<1>3. ~Has(tasks[1], "CMGR")
  <2> SUFFICES ASSUME Has(tasks[1], "CMGR") PROVE FALSE
    OBVIOUS
  <2>1. c = "CMGR" /\ Expected(c) = "CMGR"
    <3>1. tasks[1] = Retrieve
      BY <1>1, TasksWith
    <3>2. c = "CMGR"
      BY <3>1, RetrieveIs
    <3> QED
      BY <3>2 DEF Expected
  <2>2. ~ReadPrompt
    BY <2>1 DEF ReadPrompt, Expects
  <2>3. Said("OK")
    BY <1>2, <2>1, <2>2 DEF Answered, ReadOk
  <2>4. out[1].res = "OK" /\ ResultRight(out[1], TRUE, wait, tasks, pduMode)
    BY <2>3, ResultLast, SaidIs
  <2> QED
    BY <1>1, <2>1, <2>4 DEF ResultRight
<1>4. Keeps(tasks, tasks', "CMGR")
  BY <1>3, AnsweredKeeps DEF Marks
<1> QED
  BY <1>2, <1>4, KeptAny

LEMMA JobsHave ==
    /\ \A t \in {Pdu, Text} : t \in Right /\ Has(t, "SMSTEXT") /\ ~Has(t, "CUSD")
    /\ <<"CUSD">> \in Right /\ Has(<<"CUSD">>, "CUSD") /\ ~Has(<<"CUSD">>, "SMSTEXT")
    /\ \A t \in Jobs : Has(t, "SMSTEXT") => t \in {Pdu, Text}
    /\ \A t \in Jobs : Has(t, "CUSD") => t = <<"CUSD">>
<1>1. /\ Pdu \in Pairs /\ Pdu[1] = "CMGS_PDU" /\ Pdu[2] = "SMSTEXT"
      /\ Text \in Pairs /\ Text[1] = "CMGS_TEXT" /\ Text[2] = "SMSTEXT"
  BY DEF Pairs, Pdu, Text
<1>2. \A t \in {Pdu, Text} : t \in Right /\ Has(t, "SMSTEXT") /\ ~Has(t, "CUSD")
  BY <1>1, PairHas DEF Right
<1>3. <<"CUSD">> \in Singles
  BY DEF Singles
<1>4. <<"CUSD">> \in Right /\ Has(<<"CUSD">>, "CUSD") /\ ~Has(<<"CUSD">>, "SMSTEXT")
  BY <1>3, SingleHas DEF Right
<1>5. <<"SMSTEXT">> \notin Jobs
  BY DEF Jobs, Pdu, Text, Forward
<1> QED
  BY <1>2, <1>4, <1>5, JobsRight, TasksWith

LEMMA StrayedStays ==
    ASSUME Typed, [Next]_vars, ~Disconnect
    PROVE  strayed' = strayed
<1>1. ASSUME NEW s \in Sender, Find(s) \/ Mark(s) \/ Put(s) PROVE strayed' = strayed
  BY <1>1 DEF Find, Mark, Put
<1> QED
  BY <1>1, SendersStay

(* A sender that has found the device finds it connected, unless the        *)
(* connection was lost meanwhile.                                           *)
LEMMA UpStep ==
    ASSUME Typed, UpInv, [Next]_vars
    PROVE  UpInv'
<1> SUFFICES ASSUME ~strayed' PROVE SendersUp'
  BY DEF UpInv
<1>0. pc \in [Sender -> {"idle", "found", "marked"}]
  BY DEF Typed, SendersTyped
<1>1. CASE Disconnect
  <2>1. pc' = pc /\ \A s \in Sender : pc[s] = "idle"
    BY <1>1 DEF Disconnect
  <2> QED
    BY <2>1 DEF SendersUp
<1>2. ASSUME ~Disconnect PROVE SendersUp
  BY <1>2, StrayedStays DEF UpInv
<1>3. CASE ~Disconnect /\ ~\E s \in Sender : Find(s) \/ Mark(s) \/ Put(s)
  <2>1. pc' = pc /\ (up' = up \/ up')
    BY <1>3, SendersStay
  <2> QED
    BY <1>2, <1>3, <2>1 DEF SendersUp
<1>4. ASSUME NEW s \in Sender, Find(s) \/ Mark(s) \/ Put(s), ~Disconnect PROVE SendersUp'
  <2>1. /\ up' = up /\ (pc[s] = "idle" => up \/ pc'[s] = "idle")
        /\ \A z \in Sender : z # s => pc'[z] = pc[z]
    BY <1>0, <1>4 DEF Find, Mark, Put
  <2> QED
    BY <1>2, <1>4, <2>1 DEF SendersUp
<1> QED
  BY <1>1, <1>3, <1>4

LEMMA UpAlways == Spec => []UpInv
<1>1. Init => UpInv
  BY DEF Init, UpInv, SendersUp
<1> QED
  BY <1>1, UpStep, TypedAlways, PTL DEF Spec

LEMMA FlagsStep ==
    ASSUME ~MayFail, ~EmptySlot, Typed, OutRight, UpInv, FlagsInv, [Next]_vars
    PROVE  FlagsInv'
<1> SUFFICES ASSUME ~strayed' PROVE (SmsRight /\ UssdRight /\ InsmsRight)'
  BY DEF FlagsInv
<1>0. tasks \in Seq(Right) /\ pc \in [Sender -> {"idle", "found", "marked"}]
      /\ job \in [Sender -> {<<>>} \cup Asked \cup Jobs]
  BY DEF Typed, QueueTyped, SendersTyped
<1>1. CASE Disconnect
  <2>1. /\ pc' = pc /\ \A s \in Sender : pc[s] = "idle"
        /\ ~sms' /\ ~ussd' /\ ~insms'
    BY <1>1 DEF Disconnect
  <2> QED
    BY <2>1 DEF SmsRight, UssdRight, InsmsRight
<1>2. ASSUME ~Disconnect PROVE ~strayed /\ SendersUp /\ SmsRight /\ UssdRight /\ InsmsRight
  BY <1>2, StrayedStays DEF UpInv, FlagsInv
(* Steps of the monitor and the modem.                                      *)
<1>3. CASE ~Disconnect /\ ~\E s \in Sender : Find(s) \/ Mark(s) \/ Put(s)
  <2>1. UNCHANGED <<pc, job>> /\ (up' = up \/ up')
    BY <1>3, SendersStay
  <2>3. ASSUME ~Answered, ~ReadCmti, NEW c \in {"SMSTEXT", "CUSD", "CMGR"}
        PROVE  (Any(tasks', c) <=> Any(tasks, c)) /\ sms' = sms /\ ussd' = ussd /\ insms' = insms
    <3>1. Keeps(tasks, tasks', c)
      BY <1>3, <2>3, QueueKeeps DEF Marks
    <3> QED
      BY <1>3, <2>3, <3>1, KeptAny, FlagsStay
  <2>4. ASSUME ReadCmti
        PROVE  /\ sms' = sms /\ ussd' = ussd /\ Any(tasks', "CMGR")
               /\ \A c \in {"SMSTEXT", "CUSD"} : Any(tasks, c) => Any(tasks', c)
    <3>1. PICK q \in Joined(tasks, Retrieve) : Insert(q)
      BY <2>4, OthersGrow
    <3>2. Retrieve \in Right /\ Has(Retrieve, "CMGR")
      <4>1. 1 \in 1..Len(Retrieve) /\ Retrieve[1] = "CMGR"
        BY RetrieveIs
      <4> QED
        BY <4>1 DEF Right, Has
    <3>3. tasks' = q /\ Rng(q) = Rng(tasks) \cup {Retrieve}
      BY <1>0, <3>1, <3>2, JoinedHolds DEF Insert
    <3>4. sms' = sms /\ ussd' = ussd
      BY <2>4 DEF ReadCmti
    <3> QED
      BY <3>2, <3>3, <3>4 DEF Any
  <2>5. sms' => sms /\ (Any(tasks, "SMSTEXT") => Any(tasks', "SMSTEXT"))
    BY <2>3, <2>4, SmsAnswered
  <2>6. ussd' => ussd /\ (Any(tasks, "CUSD") => Any(tasks', "CUSD"))
    BY <2>3, <2>4, UssdAnswered
  <2>7. insms' => Any(tasks', "CMGR")
    BY <1>2, <1>3, <2>3, <2>4, InsmsAnswered DEF InsmsRight
  <2>8. SmsRight' /\ UssdRight'
    BY <1>2, <1>3, <2>1, <2>5, <2>6 DEF SmsRight, UssdRight, Pending
  <2> QED
    BY <2>7, <2>8 DEF InsmsRight
(* Steps of the senders.                                                    *)
<1>4. ASSUME NEW s \in Sender, Find(s), ~Disconnect
      PROVE  (SmsRight /\ UssdRight /\ InsmsRight)'
  <2>1. /\ up /\ up' = up /\ tasks' = tasks /\ sms' = sms /\ ussd' = ussd /\ insms' = insms
        /\ pc[s] = "idle"
        /\ \A z \in Sender : z # s => pc'[z] = pc[z] /\ job'[z] = job[z]
    BY <1>0, <1>4 DEF Find, flags
  <2>2. ASSUME NEW js, Pending(js)
        PROVE  \E z \in Sender : pc'[z] = "marked" /\ job'[z] \in js
    BY <2>1, <2>2 DEF Pending
  <2>4. SmsRight' /\ UssdRight'
    BY <1>2, <1>4, <2>1, <2>2 DEF SmsRight, UssdRight, Pending
  <2> QED
    BY <1>2, <1>4, <2>1, <2>4 DEF InsmsRight
<1>5. ASSUME NEW s \in Sender, Mark(s), ~Disconnect
      PROVE  (SmsRight /\ UssdRight /\ InsmsRight)'
  <2> DEFINE k == job[s][1]
  <2>1. /\ up' = up /\ tasks' = tasks /\ insms' = insms /\ pc[s] = "found"
        /\ sms' = (sms \/ k = "sms") /\ ussd' = (ussd \/ k = "ussd")
        /\ pc'[s] = "marked" /\ job'[s] = Commands(k)
        /\ \A z \in Sender : z # s => pc'[z] = pc[z] /\ job'[z] = job[z]
    BY <1>0, <1>5 DEF Mark
  <2>2. ASSUME NEW js, Pending(js)
        PROVE  \E z \in Sender : pc'[z] = "marked" /\ job'[z] \in js
    BY <2>1, <2>2 DEF Pending
  <2>3. k = "sms" => job'[s] \in {Pdu, Text}
    BY <2>1 DEF Commands
  <2>4. k = "ussd" => job'[s] \in {<<"CUSD">>}
    BY <2>1 DEF Commands
  <2> HIDE DEF k
  <2>6. SmsRight'
    <3>1. CASE sms
      BY <1>2, <1>5, <2>1, <2>2, <3>1 DEF SmsRight, Pending
    <3>2. CASE ~sms
      BY <2>1, <2>3, <3>2 DEF SmsRight, Pending
    <3> QED
      BY <3>1, <3>2
  <2>7. UssdRight'
    <3>1. CASE ussd
      BY <1>2, <1>5, <2>1, <2>2, <3>1 DEF UssdRight, Pending
    <3>2. CASE ~ussd
      BY <2>1, <2>4, <3>2 DEF UssdRight, Pending
    <3> QED
      BY <3>1, <3>2
  <2> QED
    BY <1>2, <1>5, <2>1, <2>6, <2>7 DEF InsmsRight
<1>6. ASSUME NEW s \in Sender, Put(s), ~Disconnect
      PROVE  (SmsRight /\ UssdRight /\ InsmsRight)'
  <2>1. /\ up' = up /\ sms' = sms /\ ussd' = ussd /\ insms' = insms /\ pc[s] = "marked"
        /\ pc'[s] = "idle"
        /\ \A z \in Sender : z # s => pc'[z] = pc[z] /\ job'[z] = job[z]
    BY <1>0, <1>6 DEF Put, flags
  <2>2. up /\ job[s] \in Jobs
    <3>1. up
      BY <1>2, <1>6, <2>1 DEF SendersUp
    <3> QED
      BY <1>6, <3>1, PutGrows
  <2>3. PICK q : q \in Joined(tasks, job[s]) /\ Insert(q)
    BY <1>6, <2>2, PutGrows
  <2>4. tasks' = q /\ Rng(q) = Rng(tasks) \cup {job[s]}
    BY <1>0, <2>2, <2>3, JobsRight, JoinedHolds DEF Insert
  <2>5. \A c : Any(tasks', c) <=> Any(tasks, c) \/ Has(job[s], c)
    BY <2>4 DEF Any
  <2>6. ASSUME NEW js, Pending(js)
        PROVE  job[s] \in js \/ \E z \in Sender : pc'[z] = "marked" /\ job'[z] \in js
    BY <2>1, <2>6 DEF Pending
  <2>8. SmsRight'
    BY <1>2, <1>6, <2>1, <2>5, <2>6, JobsHave DEF SmsRight, Pending
  <2>9. UssdRight'
    BY <1>2, <1>6, <2>1, <2>5, <2>6, JobsHave DEF UssdRight, Pending
  <2> QED
    BY <1>2, <1>6, <2>1, <2>5, <2>8, <2>9 DEF InsmsRight
<1> QED
  BY <1>1, <1>3, <1>4, <1>5, <1>6

LEMMA FlagsBackedBy == Typed /\ FlagsInv => FlagsBacked
<1> SUFFICES ASSUME Typed, FlagsInv, ~strayed
             PROVE  /\ sms => Queued({"SMSTEXT"}) \/ Sending({"CMGS_PDU", "CMGS_TEXT"})
                    /\ ussd => Queued({"CUSD"}) \/ Sending({"CUSD"})
                    /\ insms => Queued({"CMGR"})
  BY DEF FlagsBacked
<1>1. \A c : Any(tasks, c) => Queued({c})
  BY DEF Any, Rng, Has, Queued
<1>2. Pdu[1] = "CMGS_PDU" /\ Text[1] = "CMGS_TEXT"
  BY DEF Pdu, Text
<1>3. Pending({Pdu, Text}) => Sending({"CMGS_PDU", "CMGS_TEXT"})
  BY <1>2 DEF Pending, Sending
<1>4. Pending({<<"CUSD">>}) => Sending({"CUSD"})
  BY DEF Pending, Sending
<1> QED
  BY <1>1, <1>3, <1>4 DEF FlagsInv, SmsRight, UssdRight, InsmsRight

(* What the driver believes to be under way is in the queue or on its way   *)
(* to it (outgoing_sms, outgoing_ussd, incoming_sms, volume_sync_step), as  *)
(* long as memory lasts and the slot +CMTI names is not empty, and until a  *)
(* sender has gone on with a connection that was lost.                      *)
THEOREM FlagsAreBacked ==
    ASSUME ~MayFail, ~EmptySlot
    PROVE  Spec => []Backed
<1>1. Init => FlagsInv
  BY DEF Init, FlagsInv, SmsRight, UssdRight, InsmsRight
<1>2. Typed /\ OutRight /\ UpInv /\ FlagsInv /\ [Next]_vars => FlagsInv'
  BY FlagsStep
<1>3. Typed /\ FlagsInv /\ SyncInv => Backed
  BY FlagsBackedBy, SyncCount DEF Backed
<1> QED
  BY <1>1, <1>2, <1>3, ResultsAlways, SyncAlways, UpAlways, PTL DEF Spec

------------------------------------------------------------------------------
(* The form of a message *)

(* Nothing of a connection is left with a modem that stays on: it answers    *)
(* what it is told, and refuses no command whose refusal ends a connection   *)
(* that was ready.                                                           *)
StartRefused == Refused \cap {"AT", "E", "CGMI", "CGMM", "CGMR", "CMEE"} # {}

LEMMA HeadStays ==
    ASSUME Typed, [Next]_vars, ~Disconnect, ~Answered, ~Reply, tasks # <<>>, wait # "unsent"
    PROVE  tasks' # <<>> /\ First(tasks') = First(tasks) /\ wait' = wait
<1>1. ASSUME NEW q, Grown(tasks, q) \/ QuietGrown(tasks, q), Insert(q)
      PROVE  tasks' # <<>> /\ First(tasks') = First(tasks) /\ wait' = wait
  BY <1>1, GrownInserted DEF QuietGrown
<1>2. ASSUME UNCHANGED <<tasks, wait>>
      PROVE  tasks' # <<>> /\ First(tasks') = First(tasks) /\ wait' = wait
  BY <1>2
<1>3. CASE StartMonitor
  <2>1. mon' = "loop"
    BY <1>3 DEF StartMonitor
  <2> QED
    BY <1>1, <1>3, <2>1, OthersGrow
<1>4. CASE Ping \/ ReadCreg \/ ReadSysinfo \/ ReadCmti \/ ReadOrig \/ ReadCfun \/ ReadCpin
  BY <1>1, <1>2, <1>4, OthersGrow, CfunGrows, CpinGrows
<1>5. CASE \E s \in Sender : Put(s)
  BY <1>1, <1>2, <1>5, PutGrows
<1>6. CASE Unexpected \/ ReadIccid \/ ReadData \/ ReadCsq
  BY <1>2, <1>6 DEF Unexpected, ReadIccid, ReadData, ReadCsq
<1>7. CASE Connect \/ News \/ Hum \/ (\E s \in Sender : Find(s) \/ Mark(s)) \/ UNCHANGED vars
  BY <1>2, <1>7 DEF Connect, News, Hum, Find, Mark, vars, modem
<1>8. CASE Lost \/ GiveUp \/ Awake
  BY <1>8 DEF Lost, GiveUp, Awake
<1> QED
  BY <1>3, <1>4, <1>5, <1>6, <1>7, <1>8 DEF Next, Read, Answered

LEMMA AnsweredTasks ==
    ASSUME Typed, Answered, NEW c \in Marks, NEW u \in Rng(tasks'), Has(u, c)
    PROVE  u \in Rng(tasks) \/ (Len(tasks[1]) > 1 /\ u = Tail(tasks[1]))
<1>1. tasks \in Seq(Right) /\ tasks # <<>> /\ tasks[1] \in Right
  BY AnsweredIs
<1>2. ASSUME NEW q \in Seq(Right), q # <<>>, q[1] = tasks[1], NEW res, tasks' = Removed(q, res)
      PROVE  u \in Rng(q) \/ (Len(tasks[1]) > 1 /\ u = Tail(tasks[1]))
  <2>1. \A r : r = Removed(q, res) => \A v \in Rng(r) : v \in Rng(q) \/ (Len(q[1]) > 1 /\ v = Tail(q[1]))
    BY <1>2, RemovedHolds
  <2> QED
    BY <1>2, <2>1
<1>3. CASE ReadOk
  BY <1>1, <1>2, <1>3 DEF ReadOk, Advance
<1>4. CASE ReadPrompt
  BY <1>1, <1>2, <1>4 DEF ReadPrompt, Advance
<1>5. CASE ReadCmgr
  BY <1>1, <1>2, <1>5 DEF ReadCmgr, Advance
<1>6. CASE ReadError
  <2>1. PICK r : /\ r = tasks \/ r \in Joined(tasks, <<"cfun1">>)
                 /\ r \in Seq(Right) /\ r # <<>> /\ r[1] = tasks[1]
                 /\ tasks' = Removed(r, "ERROR")
    BY <1>6, ErrorEffect DEF Fail, Advance
  <2>2. <<"cfun1">> \in QuietSet
    BY DEF QuietSet, UserCmds
  <2>3. Keeps(tasks, r, c)
    BY <1>1, <2>1, <2>2, QuietGrownIs, QuietKept
  <2>4. u \in Rng(r) \/ (Len(tasks[1]) > 1 /\ u = Tail(tasks[1]))
    BY <1>2, <2>1
  <2> QED
    BY <2>3, <2>4 DEF Keeps
<1> QED
  BY <1>3, <1>4, <1>5, <1>6 DEF Answered

LEMMA SetStays ==
    Typed /\ [Next]_vars =>
        \/ Disconnect
        \/ ReadOk
        \/ ~ReadOk /\ set'.pdu = set.pdu
<1> SUFFICES ASSUME Typed, [Next]_vars, ~Disconnect, ~ReadOk PROVE set'.pdu = set.pdu
  OBVIOUS
<1>0. set \in Known
  BY DEF Typed, DataTyped
<1>1. CASE ReadError \/ ReadCreg \/ ReadIccid \/ ReadCfun \/ ReadCpin \/ ReadData
  BY <1>0, <1>1 DEF ReadError, ReadCreg, ReadIccid, ReadCfun, ReadCpin, ReadData, Known
<1>2. CASE Unexpected \/ ReadCsq \/ ReadCmti \/ ReadSysinfo \/ ReadOrig \/ ReadPrompt \/ ReadCmgr
  BY <1>2 DEF Unexpected, ReadCsq, ReadCmti, ReadSysinfo, ReadOrig, ReadPrompt, ReadCmgr
<1>3. CASE StartMonitor
  BY <1>0, <1>3 DEF StartMonitor, Known
<1>4. CASE Connect \/ Lost \/ GiveUp \/ Awake \/ Ping \/ Reply \/ News \/ Hum
  BY <1>4 DEF Connect, Lost, GiveUp, Awake, Ping, Reply, News, Hum
<1>5. CASE \E s \in Sender : Find(s) \/ Mark(s) \/ Put(s)
  BY <1>5 DEF Find, Mark, Put
<1>6. CASE UNCHANGED vars
  BY <1>6 DEF vars
<1> QED
  BY <1>1, <1>2, <1>3, <1>4, <1>5, <1>6 DEF Next, Read

LEMMA ModemStays ==
    Typed /\ [Next]_vars =>
        \/ Lost
        \/ Reply
        \/ ~Reply /\ ~Lost /\ pduMode' = pduMode /\ prompt' = prompt
<1> SUFFICES ASSUME Typed, [Next]_vars, ~Lost, ~Reply PROVE pduMode' = pduMode /\ prompt' = prompt
  OBVIOUS
<1>1. CASE Read
  BY <1>1 DEF Read, ReadData, ReadCsq, Unexpected, ReadCmti, ReadCreg, ReadSysinfo, ReadIccid,
              ReadOrig, ReadOk, ReadError, ReadPrompt, ReadCmgr, ReadCfun, ReadCpin, Same
<1>2. CASE Connect \/ StartMonitor \/ GiveUp \/ Awake \/ Ping \/ News \/ Hum
  BY <1>2 DEF Connect, StartMonitor, GiveUp, Awake, Ping, News, Hum, modem
<1>3. CASE \E s \in Sender : Find(s) \/ Mark(s) \/ Put(s)
  BY <1>3 DEF Find, Mark, Put, modem
<1>4. CASE UNCHANGED vars
  BY <1>4 DEF vars, modem
<1> QED
  BY <1>1, <1>2, <1>3, <1>4 DEF Next

(* An error that ends the connection ends one that is not ready yet.        *)
LEMMA CriticalEarly ==
    ASSUME ~StartRefused, Typed, OutRight, SetUpInv, ReadError, tasks[1][1] \in Critical
    PROVE  ~ready
<1>1. /\ tasks \in Seq(Right) /\ tasks # <<>> /\ mon = "loop" /\ tasks[1] \in Right
      /\ First(tasks) = tasks[1][1]
  BY AnsweredIs DEF Answered
<1>2. Said("ERROR")
  BY DEF ReadError
<1>3. out[1].res = "ERROR" /\ ResultRight(out[1], TRUE, wait, tasks, pduMode)
  BY <1>2, ResultLast, SaidIs
<1>4. tasks[1][1] \in Refused
  BY <1>1, <1>3 DEF ResultRight
<1>5. tasks[1][1] \in LateCritical
  BY <1>4 DEF StartRefused, Critical, LateCritical
<1>6. Has(tasks[1], "CNMI")
  BY <1>1, <1>5, LateInSetUp
<1>7. Any(tasks, "CNMI")
  BY <1>1, <1>6, TailHolds DEF Any
<1> QED
  BY <1>1, <1>7 DEF SetUpInv

LEMMA ReadyStays ==
    ASSUME Typed, [Next]_vars, ~Disconnect
    PROVE  ready' => ready \/ (ReadOk /\ tasks[1][1] = "CNMI")
<1>1. CASE Answered
  BY <1>1 DEF Answered, ReadOk, ReadError, ReadPrompt, ReadCmgr
<1>2. CASE StartMonitor \/ ReadCfun \/ ReadCpin
  BY <1>2 DEF StartMonitor, ReadCfun, ReadCpin
<1> QED
  BY <1>1, <1>2, SetUpStays

LEMMA ReadyGrows ==
    ASSUME Typed, [Next]_vars, ~Disconnect
    PROVE  ready => ready'
<1>1. CASE Answered
  BY <1>1 DEF Answered, ReadOk, ReadError, ReadPrompt, ReadCmgr
<1>2. CASE StartMonitor \/ ReadCfun \/ ReadCpin
  BY <1>2 DEF StartMonitor, ReadCfun, ReadCpin
<1> QED
  BY <1>1, <1>2, SetUpStays

(* The device is ready only after AT+CMGF=0 was answered.                   *)
LEMMA FormStep ==
    ASSUME ~MayFail, SmsAsPdu, ~StartRefused,
           Typed, OutRight, SetUpInv, FormInv, [Next]_vars
    PROVE  FormInv'
<1>0. /\ tasks \in Seq(Right) /\ ready \in BOOLEAN /\ pduMode \in BOOLEAN /\ set \in Known
      /\ set.pdu \in BOOLEAN
  BY DEF Typed, QueueTyped, FlagsTyped, DataTyped, Known
<1>1. CASE Disconnect
  <2>1. mon' = "none" /\ ~ready' /\ ~set'.pdu /\ tasks' = <<>>
    BY <1>1 DEF Disconnect, Reset
  <2> QED
    BY <2>1, EmptyHas DEF FormInv
<1>2. ASSUME ReadOk
      PROVE  /\ tasks' = Removed(tasks, "OK") /\ tasks # <<>> /\ pduMode' = pduMode
             /\ set'.pdu = (IF tasks[1][1] = "CMGF" THEN TRUE ELSE set.pdu)
             /\ tasks[1][1] = "CMGF" => pduMode
             /\ ready' = (ready \/ tasks[1][1] = "CNMI")
  <2>1. tasks' = Removed(tasks, "OK") /\ tasks # <<>> /\ pduMode' = pduMode
    BY <1>2 DEF ReadOk, Advance, Expects, Same
  <2>2. set'.pdu = (IF tasks[1][1] = "CMGF" THEN TRUE ELSE set.pdu)
    BY <1>0, <1>2 DEF ReadOk, Known
  <2>3. out[1].res = "OK" /\ ResultRight(out[1], TRUE, wait, tasks, pduMode)
    BY <1>2, ResultLast, SaidIs DEF ReadOk
  <2>4. tasks[1][1] = "CMGF" => pduMode
    BY <2>1, <2>3 DEF ResultRight, First
  <2>5. ready' = (ready \/ tasks[1][1] = "CNMI")
    BY <1>2 DEF ReadOk
  <2> QED
    BY <2>1, <2>2, <2>4, <2>5
<1>3. ASSUME ~Disconnect PROVE set.pdu => set'.pdu
  BY <1>2, <1>3, SetStays
<1>4. ASSUME ~Disconnect, mon' = "sleep" PROVE ~ready'
  <2>1. CASE ReadError
    <3>1. mon' = mon \/ tasks[1][1] \in Critical
      BY <2>1, ErrorEffect
    <3>2. mon = "loop" /\ ready' = ready
      BY <2>1 DEF ReadError, Said
    <3> QED
      BY <1>4, <2>1, <3>1, <3>2, CriticalEarly
  <2>2. CASE ReadOk \/ ReadPrompt \/ ReadCmgr \/ ReadCfun \/ ReadCpin
    BY <1>4, <2>2 DEF ReadOk, ReadPrompt, ReadCmgr, ReadCfun, ReadCpin, Said
  <2>3. CASE StartMonitor
    BY <1>4, <2>3 DEF StartMonitor
  <2> QED
    BY <1>4, <2>1, <2>2, <2>3, SetUpStays DEF Answered, FormInv
<1>5. ASSUME ~Disconnect, set'.pdu PROVE pduMode'
  <2>1. CASE ReadOk
    BY <1>0, <1>2, <1>5, <2>1 DEF FormInv
  <2>2. CASE ~ReadOk
    <3>1. pduMode
      BY <1>5, <2>2, SetStays DEF FormInv
    <3>2. Reply => pduMode'
      BY <3>1 DEF Reply
    <3>3. ~Lost
      BY <1>5 DEF Lost
    <3> QED
      BY <3>1, <3>2, <3>3, ModemStays
  <2> QED
    BY <2>1, <2>2
<1>6. ASSUME ~Disconnect, ready' PROVE set'.pdu
  <2>1. CASE ready
    BY <1>3, <1>6, <2>1 DEF FormInv
  <2>2. CASE ReadOk /\ tasks[1][1] = "CNMI"
    <3>1. tasks[1] \in Right /\ tasks[1] \in Rng(tasks)
      BY <1>0, <1>2, <2>2, TailHolds
    <3>2. Has(tasks[1], "CNMI") /\ ~Has(tasks[1], "CMGF")
      BY <2>2, <3>1, HasTail, SetUpTasks, SetUpHas
    <3> QED
      BY <1>3, <1>6, <3>1, <3>2 DEF FormInv
  <2> QED
    BY <1>6, <2>1, <2>2, ReadyStays
<1>7. ASSUME ~Disconnect, NEW u \in Rng(tasks'), Has(u, "CNMI"), ~Has(u, "CMGF")
      PROVE  set'.pdu
  <2>1. CASE u \in Rng(tasks)
    BY <1>3, <1>7, <2>1 DEF FormInv
  <2>2. CASE Answered
    <3>1. /\ tasks # <<>> /\ tasks[1] \in Right /\ tasks[1] \in Rng(tasks)
          /\ First(tasks) = tasks[1][1]
      BY <1>0, <2>2, AnsweredIs, TailHolds
    <3> SUFFICES ASSUME Len(tasks[1]) > 1, u = Tail(tasks[1]) PROVE set'.pdu
      BY <1>7, <2>1, <2>2, AnsweredTasks DEF Marks
    <3>2. /\ Has(tasks[1], "CNMI")
          /\ Has(tasks[1], "CMGF") => tasks[1][1] = "CMGF"
      BY <1>7, <3>1, HasTail
    <3>3. CASE Has(tasks[1], "CMGF")
      <4>1. tasks[1][1] = "CMGF" /\ Expected(tasks[1][1]) = "OK"
        BY <3>2, <3>3 DEF Expected
      <4>2. ~ReadPrompt /\ ~ReadCmgr
        BY <3>1, <4>1 DEF ReadPrompt, ReadCmgr, Expects, UserCmds
      <4>3. CASE ReadOk
        BY <1>2, <4>1, <4>3
      <4>4. CASE ReadError
        <5>1. tasks' = Removed(tasks, "ERROR")
          BY <4>1, <4>4, ErrorEffect DEF Fail, Advance
        <5>2. Removed(tasks, "ERROR") = Tail(tasks)
          BY <4>1 DEF Removed, Ignored
        <5>3. u \in Rng(tasks)
          BY <1>0, <1>7, <3>1, <5>1, <5>2, TailHolds
        <5> QED
          BY <2>1, <5>3
      <4> QED
        BY <2>2, <4>2, <4>3, <4>4 DEF Answered
    <3>4. CASE ~Has(tasks[1], "CMGF")
      BY <1>3, <1>7, <3>1, <3>2, <3>4 DEF FormInv
    <3> QED
      BY <3>3, <3>4
  <2>3. CASE ReadCfun \/ ReadCpin
    <3>1. PICK q, r : /\ QuietGrown(tasks, q)
                      /\ r = q \/ r \in Joined(q, SimInit)
                      /\ Insert(r)
      <4>1. CASE ReadCfun
        BY <4>1, CfunGrows, FallibleIs
      <4>2. CASE ReadCpin
        <5>1. PICK r : /\ r \in Append1(tasks, SimInit) \/ QuietGrown(tasks, r)
                       /\ Insert(r)
          BY <4>2, CpinGrows
        <5>2. QuietGrown(tasks, tasks)
          BY <1>0 DEF QuietGrown, Grown
        <5> QED
          BY <5>1, <5>2, FallibleIs
      <4> QED
        BY <2>3, <4>1, <4>2
    <3>2. tasks' = r /\ q \in Seq(Right)
      BY <3>1 DEF Insert, QuietGrown, Grown
    <3>3. u \in Rng(q) \cup {SimInit}
      <4>1. r \in Joined(q, SimInit) => Rng(r) = Rng(q) \cup {SimInit}
        BY <3>2, SetUpScript, JoinedHolds
      <4> QED
        BY <1>7, <3>1, <3>2, <4>1
    <3>4. u \in Rng(tasks)
      <4>1. u # SimInit
        BY <1>7, SetUpScript
      <4>2. Keeps(tasks, q, "CNMI")
        BY <3>1, QuietKept DEF Marks
      <4> QED
        BY <1>7, <3>3, <4>1, <4>2 DEF Keeps
    <3> QED
      BY <2>1, <3>4
  <2>4. CASE ~Answered /\ ~ReadCfun /\ ~ReadCpin
    <3>1. Keeps(tasks, tasks', "CNMI")
      BY <1>7, <2>4, QueueKeeps, JobsWithout DEF Marks
    <3> QED
      BY <1>7, <2>1, <3>1 DEF Keeps
  <2> QED
    BY <2>2, <2>3, <2>4
<1> QED
  BY <1>1, <1>4, <1>5, <1>6, <1>7 DEF FormInv

(* What waits for the text of a message is ready.                           *)
LEMMA PromptReady ==
    ASSUME Typed, SetUpInv, FormInv, MessageInv, ~strayed, prompt
    PROVE  /\ ready /\ mon = "loop" /\ tasks # <<>> /\ wait # "unsent"
           /\ First(tasks) \in {"CMGS_PDU", "CMGS_TEXT", "SMSTEXT"}
<1>1. /\ \/ wait = "SMSTEXT"
         \/ /\ out # <<>> /\ out[Len(out)].res = "PROMPT" /\ wait = "none"
            /\ First(tasks) \in {"CMGS_PDU", "CMGS_TEXT"}
      /\ ~Any(tasks, "CMGS_TEXT")
      /\ Any(tasks, "CMGS_PDU") \/ Any(tasks, "SMSTEXT") => ready
  BY DEF MessageInv, PromptRight
<1>2. /\ tasks # <<>> /\ wait # "unsent"
      /\ First(tasks) \in {"CMGS_PDU", "CMGS_TEXT", "SMSTEXT"} /\ First(tasks) = tasks[1][1]
  BY <1>1 DEF Typed, QueueTyped, WaitRight, First
<1>3. Any(tasks, tasks[1][1])
  <2>1. tasks[1] \in Right /\ tasks[1] \in Rng(tasks)
    BY <1>2, TailHolds DEF Typed, QueueTyped
  <2> QED
    BY <2>1, HasTail DEF Any
<1>4. ready
  BY <1>1, <1>2, <1>3
<1>5. mon \in {"none", "new", "loop", "sleep"}
  BY DEF Typed, FlagsTyped
<1> QED
  BY <1>2, <1>4, <1>5 DEF SetUpInv, FormInv

LEMMA AnsweredAny ==
    ASSUME Typed, Answered, NEW c \in Marks, Any(tasks', c)
    PROVE  Any(tasks, c)
<1>1. tasks \in Seq(Right) /\ tasks # <<>> /\ tasks[1] \in Right /\ tasks[1] \in Rng(tasks)
  BY AnsweredIs, TailHolds
<1>2. PICK u \in Rng(tasks') : Has(u, c)
  BY DEF Any
<1>3. u \in Rng(tasks) \/ (Len(tasks[1]) > 1 /\ u = Tail(tasks[1]))
  BY <1>2, AnsweredTasks
<1> QED
  BY <1>1, <1>2, <1>3, HasTail DEF Any

(* A modem that stays on is not left waiting for a text.                    *)
LEMMA DisconnectPrompt ==
    ASSUME ~MayFail, ~CutOff, Typed, SetUpInv, FormInv, MessageInv, ~strayed,
           [Next]_vars, Disconnect
    PROVE  ~prompt'
<1> SUFFICES ASSUME prompt' PROVE FALSE
  OBVIOUS
<1>1. CASE Lost
  BY <1>1 DEF Lost
<1>2. CASE Reply
  <2>1. mon # "none" /\ mon' = mon
    BY <1>2 DEF Reply, Typed, FlagsTyped
  <2> QED
    BY <2>1 DEF Disconnect
<1>3. CASE ~Lost /\ ~Reply
  <2>1. prompt
    BY <1>3, ModemStays
  <2>2. ready /\ mon = "loop" /\ tasks # <<>>
    BY <2>1, PromptReady
  <2>3. CASE GiveUp
    <3>1. out = <<>> /\ Mute
      BY <2>3 DEF GiveUp
    <3>2. wait = "SMSTEXT"
      BY <2>1, <3>1 DEF MessageInv, PromptRight
    <3> QED
      BY <3>1, <3>2 DEF Mute
  <2>4. CASE ~GiveUp
    <3>1. ~Awake /\ ~StartMonitor /\ ~Connect
      BY <2>2 DEF Awake, StartMonitor, Connect
    <3>2. mon' = "none"
      BY DEF Disconnect
    <3>3. CASE ReadError
      <4>1. mon' \in {mon, "sleep"}
        BY <3>3, ErrorEffect DEF Fail
      <4> QED
        BY <2>2, <3>2, <4>1
    <3>4. CASE Read /\ ~ReadError
      BY <2>2, <3>2, <3>4 DEF Read, ReadData, ReadCsq, Unexpected, ReadOk, ReadPrompt, ReadCmgr,
         ReadCmti, ReadCreg, ReadSysinfo, ReadCfun, ReadCpin, ReadIccid, ReadOrig
    <3>5. CASE Ping \/ News \/ Hum
      BY <2>2, <3>2, <3>5 DEF Ping, News, Hum
    <3>6. CASE \E s \in Sender : Find(s) \/ Mark(s) \/ Put(s)
      BY <2>2, <3>2, <3>6 DEF Find, Mark, Put
    <3>7. CASE UNCHANGED vars
      BY <2>2, <3>2, <3>7 DEF vars
    <3> QED
      BY <1>3, <2>4, <3>1, <3>3, <3>4, <3>5, <3>6, <3>7 DEF Next
  <2> QED
    BY <2>3, <2>4
<1> QED
  BY <1>1, <1>2, <1>3

(* The modem asks for the text of the message whose command is the first.   *)
LEMMA ReplyPrompt ==
    ASSUME Typed, Reply
    PROVE  PromptRight'
<1> SUFFICES ASSUME prompt' PROVE PromptRight'
  BY DEF PromptRight
<1>1. PICK a \in Answers(wait) : out' = out \o a /\ prompt' = (a[1].res = "PROMPT")
  BY DEF Reply
<1>2. wait \in Names /\ wait \notin {"none", "unsent"} /\ tasks # <<>> /\ First(tasks) = wait
  BY DEF Reply, Typed, QueueTyped, WaitRight, First
<1>3. /\ Ok.res = "OK" /\ Line("ERROR", 0).res = "ERROR" /\ Line("PROMPT", 0).res = "PROMPT"
      /\ Line("CMGR", 0).res = "CMGR"
  BY DEF Ok, Line
<1>4. a[1].res = "PROMPT"
  BY <1>1
<1>5. a = <<Line("PROMPT", 0)>> /\ wait \in {"CMGS_PDU", "CMGS_TEXT"}
  BY <1>2, <1>3, <1>4, AnswerForms
<1>6. out \in Seq(Lines) /\ Line("PROMPT", 0) \in Lines
  BY DEF Typed, OutTyped, Line, Lines, LineNames
<1>7. out' = Append(out, Line("PROMPT", 0))
  BY <1>1, <1>5, <1>6
<1>8. /\ out' # <<>> /\ out'[Len(out')] = Line("PROMPT", 0)
  BY <1>6, <1>7, AppendProperties, EmptySeq
<1>9. wait' = "none" /\ tasks' = tasks
  BY DEF Reply
<1> QED
  BY <1>2, <1>3, <1>5, <1>8, <1>9 DEF PromptRight

LEMMA OutMoves ==
    ASSUME Typed, [Next]_vars, ~Disconnect, ~Reply, mon = "loop"
    PROVE  out' = out \/ out = <<>> \/ \E r : Said(r)
<1>1. CASE Read
  BY <1>1 DEF Read, ReadData, ReadCsq, Unexpected, ReadOk, ReadError, ReadPrompt, ReadCmgr,
         ReadCmti, ReadCreg, ReadSysinfo, ReadCfun, ReadCpin, ReadIccid, ReadOrig
<1>2. CASE Connect \/ StartMonitor \/ Lost \/ GiveUp \/ Awake \/ Ping \/ News \/ Hum
  BY <1>2 DEF Connect, StartMonitor, Lost, GiveUp, Awake, Ping, News, Hum
<1>3. CASE \E s \in Sender : Find(s) \/ Mark(s) \/ Put(s)
  BY <1>3 DEF Find, Mark, Put
<1>4. CASE UNCHANGED vars
  BY <1>4 DEF vars
<1> QED
  BY <1>1, <1>2, <1>3, <1>4 DEF Next

(* While the modem waits for the text, or the prompt is on its way, no      *)
(* other command is written.                                                *)
LEMMA PromptStays ==
    ASSUME Typed, OutRight, SetUpInv, FormInv, MessageInv, ~strayed,
           [Next]_vars, ~Disconnect, ~Reply
    PROVE  PromptRight'
<1> SUFFICES ASSUME prompt' PROVE PromptRight'
  BY DEF PromptRight
<1>1. prompt
  <2>1. ~Lost
    BY DEF Lost
  <2> QED
    BY <2>1, ModemStays
<1>2. /\ mon = "loop" /\ tasks # <<>> /\ wait # "unsent" /\ tasks \in Seq(Right)
      /\ First(tasks) \in {"CMGS_PDU", "CMGS_TEXT", "SMSTEXT"} /\ First(tasks) = tasks[1][1]
  BY <1>1, PromptReady DEF First, Typed, QueueTyped
<1>3. ASSUME wait # "none" PROVE wait = "SMSTEXT" /\ First(tasks) = "SMSTEXT"
  BY <1>1, <1>2, <1>3 DEF MessageInv, PromptRight, Typed, QueueTyped, WaitRight, First
<1>4. ASSUME wait = "none"
      PROVE  /\ out # <<>> /\ out[Len(out)].res = "PROMPT"
             /\ First(tasks) \in {"CMGS_PDU", "CMGS_TEXT"}
  BY <1>1, <1>4 DEF MessageInv, PromptRight
<1>5. CASE Answered
  <2>1. /\ First(tasks) # "AT"
        /\ \/ Said("OK") \/ Said("ERROR") \/ Said("CMGR") \/ Said("PROMPT")
    BY <1>2, <1>5 DEF Answered, ReadOk, ReadError, ReadPrompt, ReadCmgr
  <2>2. Len(out) = 1 /\ ResultRight(out[1], TRUE, wait, tasks, pduMode) /\ out[1] \in Lines
    BY <2>1, ResultLast, SaidIs
  <2>3. out[1].res \in {"OK", "ERROR", "CMGR", "PROMPT"}
    BY <2>1, SaidIs
  <2>4. wait = "none"
    BY <2>1, <2>2, <2>3 DEF ResultRight
  <2>5. out[1].res = "PROMPT" /\ First(tasks) \in {"CMGS_PDU", "CMGS_TEXT"}
    BY <1>4, <2>2, <2>4
  <2>6. ReadPrompt
    <3>1. ~Said("OK") /\ ~Said("ERROR") /\ ~Said("CMGR")
      BY <2>5, SaidIs
    <3> QED
      BY <1>5, <3>1 DEF Answered, ReadOk, ReadError, ReadCmgr
  <2>7. tasks[1] \in {Pdu, Text}
    BY <1>2, <2>5, TailHolds, HeadsWith
  <2>8. Len(tasks[1]) = 2 /\ Tail(tasks[1]) = <<"SMSTEXT">>
    <3>1. /\ Len(Pdu) = 2 /\ Tail(Pdu) = <<"SMSTEXT">>
          /\ Len(Text) = 2 /\ Tail(Text) = <<"SMSTEXT">>
      BY DEF Pdu, Text
    <3> QED
      BY <2>7, <3>1
  <2>9. Expected(tasks[1][1]) = "PROMPT"
    BY <1>2, <2>5 DEF Expected
  <2>10. tasks' = <<Tail(tasks[1])>> \o Tail(tasks) /\ wait' = First(tasks')
    <3>1. tasks' = Removed(tasks, "PROMPT") /\ wait' = First(tasks')
      BY <2>6 DEF ReadPrompt, Advance
    <3>2. Removed(tasks, "PROMPT") = <<Tail(tasks[1])>> \o Tail(tasks)
      BY <2>8, <2>9 DEF Removed
    <3> QED
      BY <3>1, <3>2
  <2>11. First(tasks') = "SMSTEXT"
    <3> DEFINE one == <<"SMSTEXT">>
    <3>1. one \in Right
      BY DEF Right, Singles
    <3>2. tasks' = <<one>> \o Tail(tasks) /\ one = Tail(tasks[1]) /\ one[1] = "SMSTEXT"
      BY <2>8, <2>10
    <3>3. Len(tasks[1]) > 1
      BY <2>8
    <3> HIDE DEF one
    <3>4. \A r : r = <<one>> \o Tail(tasks) => r # <<>> /\ r[1] = one
      BY <1>2, <3>1, <3>2, <3>3, StepHolds
    <3> QED
      BY <3>2, <3>4 DEF First
  <2> QED
    BY <2>10, <2>11 DEF PromptRight
<1>6. CASE ~Answered
  <2>1. tasks' # <<>> /\ First(tasks') = First(tasks) /\ wait' = wait
    BY <1>2, <1>6, HeadStays
  <2>2. CASE wait # "none"
    BY <1>3, <2>1, <2>2 DEF PromptRight
  <2>3. CASE wait = "none"
    <3>1. out # <<>> /\ out[Len(out)].res = "PROMPT" /\ First(tasks) \in {"CMGS_PDU", "CMGS_TEXT"}
      BY <1>4, <2>3
    <3>2. out' # <<>> /\ out'[Len(out')].res = "PROMPT"
      <4>1. CASE out' = out
        BY <3>1, <4>1
      <4>2. ASSUME NEW r, Said(r) PROVE out' # <<>> /\ out'[Len(out')].res = "PROMPT"
        <5>1. /\ Len(out) \in Nat \ {0} /\ Len(out') = Len(out) - 1 /\ out[1].res = r
              /\ \A i \in 1..(Len(out) - 1) : out'[i] = out[i + 1]
              /\ out' \in Seq(Lines)
          BY <4>2, SaidIs
        <5>2. Len(out) # 1
          <6> SUFFICES ASSUME Len(out) = 1 PROVE FALSE
            OBVIOUS
          <6>1. Said("PROMPT")
            BY <3>1, <4>2, <5>1
          <6>2. Expects({"PROMPT"})
            BY <1>2, <3>1 DEF Expects, Expected
          <6>3. ~Unexpected /\ ~ReadPrompt
            <7>1. out[1].res = "PROMPT"
              BY <6>1, SaidIs
            <7>2. ~Said("OK") /\ ~Said("ERROR") /\ ~Said("CMGR")
              BY <7>1, SaidIs
            <7> QED
              BY <1>6, <6>2, <7>2 DEF Unexpected, Answered
          <6>4. out' # out /\ out # <<>>
            <7>1. Len(out') # Len(out)
              BY <5>1
            <7> QED
              BY <3>1, <7>1
          <6>5. \A x : Said(x) => x = "PROMPT"
            BY <6>1, SaidIs
          <6>6. ~Read
            BY <1>6, <6>3, <6>5 DEF Read, ReadData, ReadCsq, ReadCmti, ReadCreg, ReadSysinfo,
               ReadCfun, ReadCpin, ReadIccid, ReadOrig, Answered
          <6>7. ~(Connect \/ StartMonitor \/ Lost \/ GiveUp \/ Awake \/ Ping \/ News \/ Hum)
            BY <1>2, <6>4 DEF Connect, StartMonitor, Lost, GiveUp, Awake, Ping, News, Hum
          <6>8. ~\E s \in Sender : Find(s) \/ Mark(s) \/ Put(s)
            BY <6>4 DEF Find, Mark, Put
          <6>9. ~UNCHANGED vars
            BY <6>4 DEF vars
          <6> QED
            BY <6>6, <6>7, <6>8, <6>9 DEF Next
        <5>3. Len(out') \in 1..(Len(out) - 1) /\ Len(out') + 1 = Len(out)
          BY <5>1, <5>2
        <5>4. out'[Len(out')] = out[Len(out)]
          BY <5>1, <5>3
        <5>5. out' # <<>>
          BY <5>1, <5>3, EmptySeq
        <5> QED
          BY <3>1, <5>4, <5>5
      <4> QED
        BY <1>2, <3>1, <4>1, <4>2, OutMoves
    <3> QED
      BY <2>1, <2>3, <3>1, <3>2 DEF PromptRight
  <2> QED
    BY <2>2, <2>3
<1> QED
  BY <1>5, <1>6

LEMMA MessageStep ==
    ASSUME ~MayFail, ~CutOff, SmsAsPdu, ~StartRefused,
           Typed, OutRight, SetUpInv, FormInv, UpInv, MessageInv, [Next]_vars
    PROVE  MessageInv'
<1> SUFFICES ASSUME ~strayed' PROVE MessageInv'
  BY DEF MessageInv
<1>0. /\ tasks \in Seq(Right) /\ pc \in [Sender -> {"idle", "found", "marked"}]
      /\ job \in [Sender -> {<<>>} \cup Asked \cup Jobs]
  BY DEF Typed, QueueTyped, SendersTyped
<1>1. CASE Disconnect
  <2>1. /\ pc' = pc /\ ~strayed /\ tasks' = <<>>
        /\ \A s \in Sender : pc[s] = "idle"
    BY <1>1 DEF Disconnect
  <2>2. ~prompt'
    BY <1>1, <2>1, DisconnectPrompt
  <2> QED
    BY <2>1, <2>2, EmptyHas DEF MessageInv, PromptRight
<1>2. CASE ~Disconnect
  <2>1. ~strayed /\ SendersUp
    BY <1>2, StrayedStays DEF UpInv
  <2>2. PromptRight'
    <3>1. CASE Reply
      BY <3>1, ReplyPrompt
    <3>2. CASE ~Reply
      BY <1>2, <2>1, <3>2, PromptStays
    <3> QED
      BY <3>1, <3>2
  <2>3. ready => ready'
    BY <1>2, ReadyGrows
  <2>4. ASSUME NEW c \in {"CMGS_PDU", "CMGS_TEXT", "SMSTEXT"}, Any(tasks', c)
        PROVE  Any(tasks, c) \/ \E s \in Sender : Put(s) /\ up /\ Has(job[s], c)
    <3>1. CASE Answered
      BY <2>4, <3>1, AnsweredAny DEF Marks
    <3>2. CASE \E s \in Sender : Put(s)
      <4>1. PICK s \in Sender : Put(s)
        BY <3>2
      <4>2. up => \E q \in Joined(tasks, job[s]) : tasks' = q
        BY <4>1, PutGrows DEF Insert
      <4>3. job[s] \in Right
        BY <4>1, JobsWithout, JobsRight
      <4>4. up => Rng(tasks') = Rng(tasks) \cup {job[s]}
        BY <1>0, <4>2, <4>3, JoinedHolds
      <4>5. ~up => tasks' = tasks
        BY <4>1 DEF Put
      <4> QED
        BY <2>4, <4>1, <4>4, <4>5 DEF Any
    <3>3. CASE ~Answered /\ ~\E s \in Sender : Put(s)
      <4>1. Keeps(tasks, tasks', c)
        BY <1>2, <3>3, QueueKeeps DEF Marks
      <4> QED
        BY <2>4, <4>1, KeptAny
    <3> QED
      BY <3>1, <3>2, <3>3
  <2>5. ASSUME NEW s \in Sender, Put(s)
        PROVE  /\ ~Has(job[s], "CMGS_TEXT")
               /\ Has(job[s], "CMGS_PDU") \/ Has(job[s], "SMSTEXT") => ready
    <3>1. job[s] \in Jobs /\ job[s] # Text /\ (job[s] = Pdu => ready)
      BY <2>1, <2>5, JobsWithout DEF MessageInv, Put
    <3>2. job[s] \in Right
      BY <3>1, JobsRight
    <3> QED
      BY <3>1, <3>2, TasksWith, JobsHave
  <2>6. ~Any(tasks', "CMGS_TEXT")
    BY <2>1, <2>4, <2>5 DEF MessageInv
  <2>7. Any(tasks', "CMGS_PDU") \/ Any(tasks', "SMSTEXT") => ready'
    BY <2>1, <2>3, <2>4, <2>5 DEF MessageInv
  <2>8. ASSUME NEW z \in Sender
        PROVE  /\ pc'[z] = "found" /\ job'[z] = <<"sms">> => ready'
               /\ pc'[z] = "marked" => job'[z] # Text /\ (job'[z] = Pdu => ready')
    <3>1. CASE pc'[z] = pc[z] /\ job'[z] = job[z]
      BY <2>1, <2>3, <3>1 DEF MessageInv
    <3>2. CASE Find(z)
      <4>1. PICK k \in Requests : (k \in Online => ready) /\ job'[z] = <<k>> /\ pc'[z] = "found"
        BY <1>0, <3>2 DEF Find
      <4>2. "sms" \in Online
        BY DEF Online
      <4> QED
        BY <2>3, <4>1, <4>2
    <3>3. CASE Mark(z)
      <4>1. pc[z] = "found" /\ job[z] \in Asked /\ pc'[z] = "marked" /\ job'[z] = Commands(job[z][1])
        BY <1>0, <3>3 DEF Mark, Typed, SendersTyped
      <4>2. PICK k \in Kinds : job[z] = <<k>>
        BY <4>1 DEF Asked
      <4>3. job'[z] = Commands(k)
        BY <4>1, <4>2
      <4>4. CASE k = "sms"
        <5>1. ready
          BY <2>1, <4>1, <4>2, <4>4 DEF MessageInv
        <5>2. job'[z] = Pdu
          BY <4>3, <4>4, <5>1 DEF Commands, FormInv
        <5>3. Pdu # Text
          BY DEF Pdu, Text
        <5> QED
          BY <2>3, <4>1, <5>1, <5>2, <5>3
      <4>5. CASE k # "sms"
        <5>1. job'[z] \in {<<"CUSD">>, <<"user">>, <<"CCWA_SET", "CCWA_STATUS">>, <<"CFUN">>}
          BY <4>3, <4>5 DEF Commands, Kinds
        <5>2. job'[z] # Pdu /\ job'[z] # Text
          BY <5>1 DEF Pdu, Text
        <5> QED
          BY <4>1, <5>2
      <4> QED
        BY <4>4, <4>5
    <3>4. CASE Put(z)
      BY <1>0, <3>4 DEF Put
    <3>5. CASE ~Find(z) /\ ~Mark(z) /\ ~Put(z)
      <4>1. CASE \E s \in Sender : Find(s) \/ Mark(s) \/ Put(s)
        <5>1. PICK s \in Sender : Find(s) \/ Mark(s) \/ Put(s)
          BY <4>1
        <5>2. s # z
          BY <3>5, <5>1
        <5> QED
          BY <1>0, <3>1, <5>1, <5>2 DEF Find, Mark, Put
      <4>2. CASE ~\E s \in Sender : Find(s) \/ Mark(s) \/ Put(s)
        BY <1>2, <3>1, <4>2, SendersStay
      <4> QED
        BY <4>1, <4>2
    <3> QED
      BY <3>2, <3>3, <3>4, <3>5
  <2> QED
    BY <2>2, <2>6, <2>7, <2>8 DEF MessageInv
<1> QED
  BY <1>1, <1>2

LEMMA WholeBy == Typed /\ FormInv /\ MessageInv => MessagesWhole
<1> SUFFICES ASSUME Typed, FormInv, MessageInv, ~strayed PROVE TextAwaited /\ FormatAgrees
  BY DEF MessagesWhole, PromptOnlyText, FormatAgrees
<1>1. TextAwaited
  BY DEF MessageInv, PromptRight, TextAwaited
<1>2. wait \in {"CMGS_PDU", "CMGS_TEXT"} => Any(tasks, wait)
  <2> SUFFICES ASSUME wait \in {"CMGS_PDU", "CMGS_TEXT"} PROVE Any(tasks, wait)
    OBVIOUS
  <2>1. tasks \in Seq(Right) /\ tasks # <<>> /\ tasks[1][1] = wait
    BY DEF Typed, QueueTyped, WaitRight
  <2>2. tasks[1] \in Right /\ tasks[1] \in Rng(tasks)
    BY <2>1, TailHolds
  <2> QED
    BY <2>1, <2>2, HasTail DEF Any
<1>3. (wait = "CMGS_PDU" => pduMode) /\ wait # "CMGS_TEXT"
  BY <1>2 DEF MessageInv, FormInv
<1> QED
  BY <1>1, <1>3 DEF FormatAgrees

(* A message reaches the modem in one piece and in the form it expects,     *)
(* whatever other threads queue in between and whatever is refused: no      *)
(* command is written in place of the text the modem waits for, and the     *)
(* driver chooses the form of a PDU (use_pdu) only after AT+CMGF=0 was      *)
(* answered by this modem.  As long as memory lasts, messages are sent as   *)
(* PDUs, no connection is cut off while the modem stays on (CutOff) and the *)
(* first commands are not refused; and until a sender has gone on with a    *)
(* connection that was lost.                                                *)
THEOREM MessagesGoOutWhole ==
    ASSUME ~MayFail, ~CutOff, SmsAsPdu, ~StartRefused
    PROVE  Spec => []MessagesWhole
<1>1. Init => FormInv /\ MessageInv
  BY EmptyHas DEF Init, FormInv, MessageInv, PromptRight, Reset
<1>2. Typed /\ OutRight /\ UpInv /\ SetUpInv /\ FormInv /\ MessageInv /\ [Next]_vars
         => FormInv' /\ MessageInv'
  BY FormStep, MessageStep
<1> QED
  BY <1>1, <1>2, WholeBy, ResultsAlways, UpAlways, SetUpAlways, PTL DEF Spec
=============================================================================
