-------------------------------- MODULE Audio --------------------------------
(***************************************************************************)
(* The sound of the calls of one modem (channel.c): which calls are linked *)
(* to the mix buffer, which one is the master, and what the file           *)
(* descriptors of the Asterisk channels are.  The monitor thread changes   *)
(* states of calls, channel threads hang up, write and serve the timer,    *)
(* all with the lock of the device.                                        *)
(*                                                                         *)
(* INIT, INCOMING and WAITING are one state here, SETUP, and so are        *)
(* DIALING and ALERTING: a call that is DIALING may change to DIALING.     *)
(***************************************************************************)
EXTENDS MixBuffer

CONSTANT AudioOpen    \* pvt->audio_fd >= 0: the modem has a port for audio

ASSUME AudioAssumption == AudioOpen \in BOOLEAN

VARIABLES
    state,      \* cpvt->state, "NONE" if there is no descriptor
    chans,      \* the descriptors with cpvt->channel
    activated,  \* CALL_FLAG_ACTIVATED
    master,     \* CALL_FLAG_MASTER
    fd0,        \* fd 0 of the channel: the audio port, the pipe of the call or none
    timed,      \* the channels whose fd 1 is the timer
    timer       \* pvt->a_timer is not NULL

routing == <<activated, master, fd0, timed>>
callVars == <<state, chans, timer>>
vars == <<mixVars, routing, callVars>>

Cpvt == Stream
Live == {c \in Cpvt : state[c] # "NONE"}             \* pvt->chans
SoundSource == {c \in Live : state[c] \in {"DIALING", "ACTIVE"}}

----------------------------------------------------------------------------
\* Mutant: the timer stays with the channel that had it.
OthersTimedKept(c) == timed

\* activate_call(): the other channels that keep the timer as fd 1.
OthersTimed(c) == timed \ (chans \ {c})

\* activate_call(), "any set pipe for actives": the test is on cpvt, the call
\* that is activated, not on the other one.
OthersFd0(c) ==
    [d \in Cpvt |-> IF d \in chans \ {c} /\ c \in activated THEN "pipe" ELSE fd0[d]]

\* activate_call() for a call with a channel.
ActivateCall(c) ==
    IF c \in master THEN UNCHANGED <<mixVars, routing>>
    ELSE /\ IF c \in activated THEN UNCHANGED mixVars ELSE Attach(c)
         /\ IF AudioOpen
            THEN /\ activated' = activated \cup {c}
                 /\ master' = {c}
                 /\ fd0' = [OthersFd0(c) EXCEPT ![c] = "audio"]
                 /\ timed' = IF timer THEN OthersTimed(c) \cup {c} ELSE OthersTimed(c)
            ELSE /\ master' = {}
                 /\ fd0' = OthersFd0(c)
                 /\ timed' = OthersTimed(c)
                 /\ UNCHANGED activated

\* Mutant: only the master is taken off the list.
DisactivateMaster(c) ==
    /\ IF c \in master THEN Detach(c) ELSE UNCHANGED mixVars
    /\ activated' = activated \ {c}
    /\ master' = master \ {c}
    /\ fd0' = [fd0 EXCEPT ![c] = "none"]
    /\ timed' = timed \ {c}

\* disactivate_call() for a call with a channel.
DisactivateCall(c) ==
    IF c \in activated
    THEN /\ Detach(c)
         /\ activated' = activated \ {c}
         /\ master' = master \ {c}
         /\ fd0' = [fd0 EXCEPT ![c] = "none"]
         /\ timed' = timed \ {c}
    ELSE UNCHANGED <<mixVars, routing>>

----------------------------------------------------------------------------
\* new_channel(): cpvt_alloc() and, for the first call, the reset of the mix
\* buffer and the timer, which may fail (pvt_on_create_1st_channel()).
NewChannel(c) ==
    /\ state[c] = "NONE"
    /\ state' = [state EXCEPT ![c] = "SETUP"]
    /\ chans' = chans \cup {c}
    /\ fd0' = [fd0 EXCEPT ![c] = "none"]
    /\ IF Live = {}
       THEN /\ MixbInit
            /\ timer' \in {timer, TRUE}
       ELSE UNCHANGED <<mixVars, timer>>
    /\ UNCHANGED <<activated, master, timed>>

\* The states in which the modem reports another one.
Before(s) ==
    CASE s = "DIALING" -> {"SETUP", "DIALING"}
      [] s = "ACTIVE"  -> {"SETUP", "DIALING", "ONHOLD"}
      [] s = "ONHOLD"  -> {"ACTIVE"}

\* change_channel_state(), for a state other than RELEASED.  One call is
\* dialled at a time (is_dial_possible2(), see OneSetup of Calls).
ChangeState(c, s) ==
    /\ state[c] \in Before(s)
    /\ s = "DIALING" => \A d \in Cpvt \ {c} : state[d] # "DIALING"
    /\ state' = [state EXCEPT ![c] = s]
    /\ IF c \notin chans THEN UNCHANGED <<mixVars, routing>>
       ELSE IF s = "ONHOLD" THEN DisactivateCall(c)
       ELSE ActivateCall(c)
    /\ UNCHANGED <<chans, timer>>

\* change_channel_state(RELEASED): the descriptor is freed, and with the last
\* one the timer closed (pvt_on_remove_last_channel()).
Released(c) ==
    /\ c \in Live
    /\ IF c \in chans THEN DisactivateCall(c) ELSE UNCHANGED <<mixVars, routing>>
    /\ state' = [state EXCEPT ![c] = "NONE"]
    /\ chans' = chans \ {c}
    /\ timer' = (timer /\ Live # {c})

\* channel_hangup(): the call goes on without a channel until it is released.
ChannelHangup(c) ==
    /\ c \in chans
    /\ DisactivateCall(c)
    /\ chans' = chans \ {c}
    /\ UNCHANGED <<state, timer>>

\* channel_write(), with the timer; without it the mix buffer is passed by.
ChannelWrite(c, f) ==
    /\ c \in chans
    /\ state[c] = "ACTIVE"
    /\ AudioOpen /\ timer
    /\ Write(c, f)
    /\ UNCHANGED <<routing, callVars>>

\* channel_read() of the channel that has the timer, timing_write().
TimingWrite(c) ==
    /\ c \in timed \cap chans \cap SoundSource
    /\ AudioOpen /\ timer
    /\ Play
    /\ UNCHANGED <<routing, callVars>>

Init ==
    /\ MixInit
    /\ state = [c \in Cpvt |-> "NONE"]
    /\ chans = {} /\ activated = {} /\ master = {} /\ timed = {}
    /\ fd0 = [c \in Cpvt |-> "none"]
    /\ timer = FALSE

Next ==
    \E c \in Cpvt :
        \/ NewChannel(c)
        \/ \E s \in {"DIALING", "ACTIVE", "ONHOLD"} : ChangeState(c, s)
        \/ Released(c)
        \/ ChannelHangup(c)
        \/ \E f \in Frames : ChannelWrite(c, f)
        \/ TimingWrite(c)

Spec == Init /\ [][Next]_vars

----------------------------------------------------------------------------
(* Properties *)

\* Type invariant of the routing and, by MixTypeOK, of the mix buffer.
TypeOK ==
    /\ MixTypeOK
    /\ state \in [Cpvt -> {"NONE", "SETUP", "DIALING", "ACTIVE", "ONHOLD"}]
    /\ chans \subseteq Cpvt /\ activated \subseteq Cpvt
    /\ master \subseteq Cpvt /\ timed \subseteq Cpvt
    /\ fd0 \in [Cpvt -> {"none", "audio", "pipe"}]
    /\ timer \in BOOLEAN

\* The list of streams holds the calls that are activated, each once: it has
\* no stream of a descriptor that was freed or has lost its channel (whoever
\* walks the list would use it), and whoever may write is in it.
StreamsLinked ==
    /\ attached = activated
    /\ activated \subseteq chans \cap Live
    /\ {c \in chans : state[c] = "ACTIVE"} \subseteq attached

\* CALL_FLAG_MASTER (cpvt.h): "channel fd[0] is pvt->audio_fd and fd[1] is
\* timer fd", and nobody else has the timer: two would play twice as fast.
MasterPlays ==
    /\ \A c \in master : fd0[c] = "audio"
    /\ timed = IF timer THEN master ELSE {}

\* Without a port for audio the list is not kept in order: the flag that tells
\* that a call is linked is set only if the port is open (activate_call()), so
\* a descriptor is freed while its stream is in the list.
NoDangling == attached \subseteq Live

\* Only the master reads from the audio port: "drop any other from MASTER,
\* any set pipe for actives" (activate_call()).  The code does not keep this.
OthersReadPipe ==
    \A c \in activated \ master : fd0[c] = "pipe"

\* The calls that are active have somebody who plays what they say.  The code
\* does not keep this: nobody follows a master that ends or is put on hold.
ActivePlayed ==
    (\E c \in chans : state[c] = "ACTIVE") /\ timer => timed # {}
=============================================================================
