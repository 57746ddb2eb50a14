----------------------------- MODULE AudioProofs -----------------------------
(***************************************************************************)
(* The channels use the mix buffer as it expects, if the modem has a port  *)
(* for audio: whatever calls are set up, held, mixed and dropped, a stream *)
(* is linked once, unlinked before its descriptor is freed, and written    *)
(* while it is linked.  So ring and positions stay in step.                *)
(***************************************************************************)
EXTENDS Audio, MixBufferProofs

States == {"NONE", "SETUP", "DIALING", "ACTIVE", "ONHOLD"}

RoutingTypeOK ==
    /\ state \in [Cpvt -> States]
    /\ chans \subseteq Cpvt /\ activated \subseteq Cpvt
    /\ master \subseteq Cpvt /\ timed \subseteq Cpvt
    /\ fd0 \in [Cpvt -> {"none", "audio", "pipe"}]
    /\ timer \in BOOLEAN

AInv ==
    /\ RoutingTypeOK
    /\ StreamsLinked
    /\ MasterPlays
    /\ master \subseteq activated

\* A step of the mix buffer, or none.
MixStep == [MixNext]_mixVars

\* What activating or disactivating a call keeps, but for the call itself.
Routed(S) ==
    /\ attached' = activated'
    /\ activated' \subseteq Cpvt /\ master' \subseteq activated'
    /\ fd0' \in [Cpvt -> {"none", "audio", "pipe"}]
    /\ \A d \in master' : fd0'[d] = "audio"
    /\ timed' = IF timer THEN master' ELSE {}
    /\ activated \ S \subseteq activated' /\ activated' \subseteq activated \cup S

LEMMA Activates ==
  ASSUME AudioOpen, AInv, NEW c \in chans, ActivateCall(c)
  PROVE  MixStep /\ Routed({c}) /\ c \in activated'
<1>i. /\ c \in Cpvt /\ attached = activated /\ activated \subseteq chans
      /\ chans \subseteq Cpvt /\ master \subseteq activated
      /\ fd0 \in [Cpvt -> {"none", "audio", "pipe"}]
      /\ \A d \in master : fd0[d] = "audio"
      /\ timed = IF timer THEN master ELSE {}
  BY DEF AInv, RoutingTypeOK, StreamsLinked, MasterPlays
<1>1. CASE c \in master
  <2>1. UNCHANGED <<mixVars, routing>>
    BY <1>1 DEF ActivateCall
  <2>2. /\ attached' = attached /\ activated' = activated /\ master' = master
        /\ fd0' = fd0 /\ timed' = timed /\ UNCHANGED mixVars
    BY <2>1 DEF mixVars, routing
  <2> QED  BY <1>1, <1>i, <2>2 DEF Routed, MixStep
<1>2. CASE c \notin master
  <2>1. /\ IF c \in activated THEN UNCHANGED mixVars ELSE Attach(c)
        /\ activated' = activated \cup {c}
        /\ master' = {c}
        /\ fd0' = [OthersFd0(c) EXCEPT ![c] = "audio"]
        /\ timed' = IF timer THEN OthersTimed(c) \cup {c} ELSE OthersTimed(c)
    BY <1>2 DEF ActivateCall
  <2>2. OthersTimed(c) = {}
    BY <1>2, <1>i DEF OthersTimed
  <2>3. OthersFd0(c) \in [Cpvt -> {"none", "audio", "pipe"}]
    BY <1>i DEF OthersFd0
  <2>4. fd0' \in [Cpvt -> {"none", "audio", "pipe"}] /\ fd0'[c] = "audio"
    BY <1>i, <2>1, <2>3
  <2>5. MixStep /\ attached' = activated'
    <3>1. CASE c \in activated
      BY <1>i, <2>1, <3>1 DEF MixStep, mixVars
    <3>2. CASE c \notin activated
      <4>1. Attach(c) /\ c \in Stream \ attached
        BY <1>i, <2>1, <3>2 DEF Cpvt
      <4>2. attached' = attached \cup {c}
        BY <4>1 DEF Attach
      <4> QED  BY <1>i, <2>1, <4>1, <4>2 DEF MixStep, MixNext
    <3> QED  BY <3>1, <3>2
  <2> QED  BY <1>i, <2>1, <2>2, <2>4, <2>5 DEF Routed
<1> QED  BY <1>1, <1>2

LEMMA Disactivates ==
  ASSUME AInv, NEW c \in chans, DisactivateCall(c)
  PROVE  MixStep /\ Routed({c}) /\ c \notin activated'
<1>i. /\ c \in Cpvt /\ attached = activated /\ activated \subseteq chans
      /\ chans \subseteq Cpvt /\ master \subseteq activated
      /\ fd0 \in [Cpvt -> {"none", "audio", "pipe"}]
      /\ \A d \in master : fd0[d] = "audio"
      /\ timed = IF timer THEN master ELSE {}
  BY DEF AInv, RoutingTypeOK, StreamsLinked, MasterPlays
<1>1. CASE c \in activated
  <2>1. /\ Detach(c) /\ activated' = activated \ {c} /\ master' = master \ {c}
        /\ fd0' = [fd0 EXCEPT ![c] = "none"] /\ timed' = timed \ {c}
    BY <1>1 DEF DisactivateCall
  <2>2. attached' = attached \ {c} /\ c \in attached
    BY <1>1, <1>i, <2>1 DEF Detach
  <2>3. MixStep
    BY <2>1, <2>2 DEF MixStep, MixNext
  <2> QED  BY <1>i, <2>1, <2>2, <2>3 DEF Routed
<1>2. CASE c \notin activated
  <2>1. UNCHANGED <<mixVars, routing>>
    BY <1>2 DEF DisactivateCall
  <2>2. /\ attached' = attached /\ activated' = activated /\ master' = master
        /\ fd0' = fd0 /\ timed' = timed /\ UNCHANGED mixVars
    BY <2>1 DEF mixVars, routing
  <2> QED  BY <1>2, <1>i, <2>2 DEF Routed, MixStep
<1> QED  BY <1>1, <1>2

LEMMA AudioInit == Init => MixInit /\ AInv
  BY DEF Init, AInv, RoutingTypeOK, StreamsLinked, MasterPlays, MixInit, Live, Cpvt, States

LEMMA AudioNext ==
  ASSUME AudioOpen, AInv, [Next]_vars
  PROVE  MixStep /\ AInv'
<1>i. /\ state \in [Cpvt -> States]
      /\ chans \subseteq Cpvt /\ activated \subseteq Cpvt
      /\ master \subseteq activated /\ timed \subseteq Cpvt
      /\ fd0 \in [Cpvt -> {"none", "audio", "pipe"}] /\ timer \in BOOLEAN
      /\ attached = activated /\ activated \subseteq chans
      /\ \A d \in activated : state[d] # "NONE"
      /\ \A d \in chans : state[d] = "ACTIVE" => d \in activated
      /\ \A d \in master : fd0[d] = "audio"
      /\ timed = IF timer THEN master ELSE {}
  BY DEF AInv, RoutingTypeOK, StreamsLinked, MasterPlays, Live
\* What is left of the invariant when a step has routed the sound of c anew.
<1>q. ASSUME NEW c \in Cpvt, Routed({c}),
             state' \in [Cpvt -> States], chans' \subseteq chans,
             \A d \in Cpvt \ {c} : state'[d] = state[d] /\ (d \in chans => d \in chans'),
             timer' \in BOOLEAN, timer' # timer => master' = {},
             c \in activated' => c \in chans' /\ state'[c] # "NONE",
             c \in chans' /\ state'[c] = "ACTIVE" => c \in activated'
      PROVE  AInv'
  <2>1. RoutingTypeOK'
    BY <1>i, <1>q DEF RoutingTypeOK, Routed
  <2>2. StreamsLinked'
    BY <1>i, <1>q DEF StreamsLinked, Live, Routed
  <2>3. MasterPlays'
    BY <1>i, <1>q DEF MasterPlays, Routed
  <2> QED  BY <2>1, <2>2, <2>3, <1>q DEF AInv, Routed
<1>1. ASSUME NEW c \in Cpvt, NewChannel(c) PROVE MixStep /\ AInv'
  <2>1. /\ state[c] = "NONE" /\ state' = [state EXCEPT ![c] = "SETUP"]
        /\ chans' = chans \cup {c} /\ fd0' = [fd0 EXCEPT ![c] = "none"]
        /\ activated' = activated /\ master' = master /\ timed' = timed
        /\ IF Live = {} THEN MixbInit /\ timer' \in {timer, TRUE}
                        ELSE UNCHANGED mixVars /\ timer' = timer
    BY <1>1 DEF NewChannel
  <2>2. c \notin activated
    BY <1>i, <2>1
  <2>3. /\ MixStep /\ attached' = attached
        /\ timer' \in BOOLEAN /\ (timer' # timer => activated = {})
    <3>1. CASE Live = {}
      <4>1. activated = {}
        BY <1>i, <3>1 DEF Live
      <4>2. MixbInit /\ timer' \in {timer, TRUE}
        BY <2>1, <3>1
      <4> QED  BY <1>i, <4>1, <4>2 DEF MixStep, MixNext, MixbInit
    <3>2. CASE Live # {}
      BY <1>i, <2>1, <3>2 DEF MixStep, mixVars
    <3> QED  BY <3>1, <3>2
  <2>4. RoutingTypeOK'
    BY <1>i, <2>1, <2>3 DEF RoutingTypeOK, States
  <2>5. StreamsLinked'
    BY <1>i, <2>1, <2>2, <2>3 DEF StreamsLinked, Live
  <2>6. MasterPlays'
    BY <1>i, <2>1, <2>2, <2>3 DEF MasterPlays
  <2> QED  BY <1>i, <2>1, <2>3, <2>4, <2>5, <2>6 DEF AInv
<1>2. ASSUME NEW c \in Cpvt, NEW s \in {"DIALING", "ACTIVE", "ONHOLD"}, ChangeState(c, s)
      PROVE  MixStep /\ AInv'
  <2>1. /\ state' = [state EXCEPT ![c] = s] /\ chans' = chans /\ timer' = timer
        /\ IF c \notin chans THEN UNCHANGED <<mixVars, routing>>
           ELSE IF s = "ONHOLD" THEN DisactivateCall(c) ELSE ActivateCall(c)
    BY <1>2 DEF ChangeState
  <2>2. state' \in [Cpvt -> States] /\ state'[c] = s /\ s # "NONE"
    BY <1>i, <2>1 DEF States
  <2>3. MixStep /\ Routed({c}) /\ (c \in activated' <=> c \in chans /\ s # "ONHOLD")
    <3>1. CASE c \notin chans
      <4>1. /\ attached' = attached /\ activated' = activated /\ master' = master
            /\ fd0' = fd0 /\ timed' = timed /\ UNCHANGED mixVars
        BY <2>1, <3>1 DEF mixVars, routing
      <4> QED  BY <1>i, <3>1, <4>1 DEF Routed, MixStep
    <3>2. CASE c \in chans /\ s = "ONHOLD"
      BY <2>1, <3>2, Disactivates
    <3>3. CASE c \in chans /\ s # "ONHOLD"
      BY <2>1, <3>3, Activates
    <3> QED  BY <3>1, <3>2, <3>3
  <2>4. \A d \in Cpvt \ {c} : state'[d] = state[d]
    BY <1>i, <2>1
  <2> QED  BY <1>i, <1>q, <2>1, <2>2, <2>3, <2>4
<1>3. ASSUME NEW c \in Cpvt, Released(c) PROVE MixStep /\ AInv'
  <2>1. /\ state' = [state EXCEPT ![c] = "NONE"] /\ chans' = chans \ {c}
        /\ timer' = (timer /\ Live # {c})
        /\ IF c \in chans THEN DisactivateCall(c) ELSE UNCHANGED <<mixVars, routing>>
    BY <1>3 DEF Released
  <2>2. state' \in [Cpvt -> States] /\ state'[c] = "NONE" /\ timer' \in BOOLEAN
    BY <1>i, <2>1 DEF States
  <2>3. MixStep /\ Routed({c}) /\ c \notin activated'
    <3>1. CASE c \notin chans
      <4>1. /\ attached' = attached /\ activated' = activated /\ master' = master
            /\ fd0' = fd0 /\ timed' = timed /\ UNCHANGED mixVars
        BY <2>1, <3>1 DEF mixVars, routing
      <4> QED  BY <1>i, <3>1, <4>1 DEF Routed, MixStep
    <3>2. CASE c \in chans
      BY <2>1, <3>2, Disactivates
    <3> QED  BY <3>1, <3>2
  <2>4. timer' # timer => master' = {}
    <3>1. activated \subseteq Live
      BY <1>i DEF Live
    <3> QED  BY <1>i, <2>1, <2>3, <3>1 DEF Routed
  <2>5. \A d \in Cpvt \ {c} : state'[d] = state[d]
    BY <1>i, <2>1
  <2> QED  BY <1>i, <1>q, <2>1, <2>2, <2>3, <2>4, <2>5
<1>4. ASSUME NEW c \in Cpvt, ChannelHangup(c) PROVE MixStep /\ AInv'
  <2>1. /\ c \in chans /\ DisactivateCall(c) /\ chans' = chans \ {c}
        /\ state' = state /\ timer' = timer
    BY <1>4 DEF ChannelHangup
  <2>2. MixStep /\ Routed({c}) /\ c \notin activated'
    BY <2>1, Disactivates
  <2> QED  BY <1>i, <1>q, <2>1, <2>2
<1>5. ASSUME UNCHANGED <<routing, callVars>>, attached' = attached PROVE AInv'
  BY <1>5 DEF AInv, routing, callVars, RoutingTypeOK, StreamsLinked, MasterPlays, Live
<1>6. ASSUME NEW c \in Cpvt, NEW f \in Frames, ChannelWrite(c, f) PROVE MixStep /\ AInv'
  <2>1. c \in attached /\ Write(c, f)
    BY <1>i, <1>6 DEF ChannelWrite
  <2>2. MixStep
    BY <2>1 DEF MixStep, MixNext
  <2>3. attached' = attached /\ UNCHANGED <<routing, callVars>>
    BY <1>6 DEF ChannelWrite, Write
  <2> QED  BY <1>5, <2>2, <2>3
<1>7. ASSUME NEW c \in Cpvt, TimingWrite(c) PROVE MixStep /\ AInv'
  <2>1. Play /\ UNCHANGED <<routing, callVars>>
    BY <1>7 DEF TimingWrite
  <2>2. MixStep /\ attached' = attached
    BY <2>1 DEF MixStep, MixNext, Play, mixVars
  <2> QED  BY <1>5, <2>1, <2>2
<1>8. CASE UNCHANGED vars
  <2>1. UNCHANGED <<routing, callVars>> /\ UNCHANGED mixVars /\ attached' = attached
    BY <1>8 DEF vars, mixVars
  <2> QED  BY <1>5, <2>1 DEF MixStep
<1> QED  BY <1>1, <1>2, <1>3, <1>4, <1>6, <1>7, <1>8 DEF Next

LEMMA AudioInvariant ==
  ASSUME AudioOpen PROVE Spec => []AInv
<1>1. AInv /\ [Next]_vars => AInv'
  BY AudioNext
<1> QED  BY <1>1, AudioInit, PTL DEF Spec

LEMMA AudioMixes ==
  ASSUME AudioOpen PROVE Spec => MixSpec
<1>1. AInv /\ [Next]_vars => [MixNext]_mixVars
  BY AudioNext DEF MixStep
<1> QED  BY <1>1, AudioInvariant, AudioInit, PTL DEF Spec, MixSpec

(* The list of streams is always that of the activated calls, each of which *)
(* has a channel and a descriptor, for every number of calls                *)
(* (activate_call(), disactivate_call()).                                   *)
THEOREM AudioLinked ==
  ASSUME AudioOpen PROVE Spec => []StreamsLinked
<1>1. AInv => StreamsLinked
  BY DEF AInv
<1> QED  BY <1>1, AudioInvariant, PTL

(* The master, and no other call, reads from the port and has the timer     *)
(* (activate_call(), disactivate_call(), channel_timing_write()).           *)
THEOREM AudioMasterPlays ==
  ASSUME AudioOpen PROVE Spec => []MasterPlays
<1>1. AInv => MasterPlays
  BY DEF AInv
<1> QED  BY <1>1, AudioInvariant, PTL

(* Calls, descriptors, ring and positions have their types.                 *)
THEOREM AudioTypeCorrect ==
  ASSUME AudioOpen PROVE Spec => []TypeOK
<1>1. AInv /\ MixTypeOK => TypeOK
  BY DEF AInv, RoutingTypeOK, TypeOK, States
<1> QED  BY <1>1, AudioInvariant, AudioMixes, MixInStep, PTL

(* What the calls do to the mix buffer is what it expects of its users, so  *)
(* ring and positions are in step for every size of the buffer, set of      *)
(* calls, of frames and of samples.                                         *)
THEOREM AudioInStep ==
  ASSUME AudioOpen PROVE Spec => []InStep
BY AudioMixes, MixInStep, PTL

(* What the calls say is played as the queue of sums says: added up for the *)
(* same moment, in order, nothing twice and nothing stale, whichever calls  *)
(* come, go, and take over from each other (channel_write(),                *)
(* channel_timing_write(), activate_call(), disactivate_call()).            *)
THEOREM AudioPlaysSums ==
  ASSUME AudioOpen PROVE Spec => QueueOfSums
BY AudioMixes, MixIsQueueOfSums, PTL
=============================================================================
