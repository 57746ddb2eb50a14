------------------------------ MODULE MixBuffer ------------------------------
(***************************************************************************)
(* The mix buffer of mixbuffer.c: streams write frames into one ring, each *)
(* at a position of its own, and what they say for the same moment is      *)
(* added up.  One action per use that channel.c makes of it; Audio says    *)
(* when they happen.  A cell is a sample of two bytes: frames are whole    *)
(* samples.                                                                *)
(***************************************************************************)
EXTENDS RingBuffer

CONSTANTS
    Stream,     \* the mixstream of every call descriptor
    Frames,     \* the frames Asterisk may write
    Sum,        \* ast_slinear_saturated_add()
    FrameSize   \* samples the timer plays at once

ASSUME FramesAssumption ==
    /\ Frames \subseteq Seq(Cell)
    /\ \A f \in Frames : Len(f) \in 1..Size
    /\ FrameSize \in 1..Size

ASSUME SumAssumption == Sum \in [Cell \X Cell -> Cell]

VARIABLES
    rb,         \* the ring buffer below
    attached,   \* the list of streams
    used,       \* per stream, how many samples it wrote that are not played
    write       \* per stream, where it goes on writing

mixVars == <<rb, attached, used, write>>

Copy == [p \in Cell \X Cell |-> p[2]]

\* mixb_init(): the list is made empty, the cells stay.
MixbInit ==
    /\ rb' = Empty(rb.buffer)
    /\ attached' = {}
    /\ UNCHANGED <<used, write>>

\* mixb_attach(): from the first sample that is not played.
Attach(s) ==
    /\ attached' = attached \cup {s}
    /\ used' = [used EXCEPT ![s] = 0]
    /\ write' = [write EXCEPT ![s] = rb.read]
    /\ UNCHANGED rb

\* mixb_detach(): what it said stays.  Its positions are not read any more
\* before mixb_attach() sets them: they are zero meanwhile.
Detach(s) ==
    /\ attached' = attached \ {s}
    /\ used' = [used EXCEPT ![s] = 0]
    /\ write' = [write EXCEPT ![s] = 0]
    /\ UNCHANGED rb

\* mixb_read_upd() on the ring and on every attached stream.
UsedAfter(n) ==
    [s \in Stream |-> IF s \notin attached THEN used[s]
                      ELSE IF used[s] > n THEN used[s] - n ELSE 0]

\* Mutant: a stream keeps its position when samples are played.
WriteAfterKept(n) == write

WriteAfter(n) ==
    [s \in Stream |-> IF s \notin attached THEN write[s]
                      ELSE Wrap(ReadUpd(rb, n).read + UsedAfter(n)[s])]

\* mixb_mix_write(): the ring is written as if it ended where the stream does.
MixWrite(r, u, w, data) ==
    LET local == [buffer |-> r.buffer, used |-> u, read |-> r.read, write |-> w]
        m     == WriteCore(local, data, Sum)
    IN  [ring |-> [buffer |-> m.buffer, used |-> r.used, read |-> r.read, write |-> r.write],
         used |-> m.used, write |-> m.write]

\* Mutant: what goes beyond the others is added to stale samples.
MixbWriteMixes(r, u, w, data) ==
    LET n == Least(Len(data), Size - u)
        m == MixWrite(r, u, w, SubSeq(data, 1, n))
    IN  IF n > r.used - u
        THEN [m EXCEPT !.ring.used = m.used, !.ring.write = m.write]
        ELSE m

\* mixb_write(): mix with what others wrote already, then add to the end.
MixbWrite(r, u, w, data) ==
    LET n    == Least(Len(data), Size - u)
        both == r.used - u
        m    == MixWrite(r, u, w, SubSeq(data, 1, both))
        tail == WriteCore(m.ring, SubSeq(data, both + 1, n), Copy)
    IN  IF n > both
        THEN [ring |-> tail, used |-> tail.used, write |-> tail.write]
        ELSE MixWrite(r, u, w, SubSeq(data, 1, n))

\* The end of channel_write(): what must be dropped to make room for a frame.
Overflow(s, f) ==
    LET free == Size - used[s] IN IF free < Len(f) THEN Len(f) - free ELSE 0

\* mixb_read_upd() is called if something is dropped, then mixb_write().
Write(s, f) ==
    /\ LET n == Overflow(s, f)
           r == IF n = 0 THEN rb ELSE ReadUpd(rb, n)
           u == IF n = 0 THEN used ELSE UsedAfter(n)
           w == IF n = 0 THEN write ELSE WriteAfter(n)
           m == MixbWrite(r, u[s], w[s], f)
       IN  /\ rb' = m.ring
           /\ used' = [u EXCEPT ![s] = m.used]
           /\ write' = [w EXCEPT ![s] = m.write]
    /\ UNCHANGED attached

\* timing_write(): a frame is played, or what there is and silence.
Play ==
    LET n == Least(FrameSize, rb.used)
    IN  IF n > 0
        THEN /\ rb' = ReadUpd(rb, n)
             /\ used' = UsedAfter(n)
             /\ write' = WriteAfter(n)
             /\ UNCHANGED attached
        ELSE UNCHANGED mixVars

\* pvt_create() has cleared the memory of the device.
MixInit ==
    /\ \E c \in Cell : rb = Empty([i \in Place |-> c])
    /\ attached = {}
    /\ used = [s \in Stream |-> 0]
    /\ write = [s \in Stream |-> 0]

\* What the functions expect of their callers.
MixNext ==
    \/ attached = {} /\ MixbInit
    \/ \E s \in Stream \ attached : Attach(s)
    \/ \E s \in attached : Detach(s) \/ \E f \in Frames : Write(s, f)
    \/ Play

MixSpec == MixInit /\ [][MixNext]_mixVars

----------------------------------------------------------------------------
(* Properties *)

\* Type invariant: ring, list and positions have their types.
MixTypeOK ==
    /\ rb \in Ring
    /\ attached \subseteq Stream
    /\ used \in [Stream -> 0..Size]
    /\ write \in [Stream -> Place]

\* The positions, which six functions move one by one, agree: no stream is
\* ahead of the ring, and each writes as far from the read position as it has
\* samples to be played.
InStep ==
    /\ rb.write = Wrap(rb.read + rb.used)
    /\ \A s \in attached : /\ used[s] <= rb.used
                           /\ write[s] = Wrap(rb.read + used[s])

\* What is played is the sum of what was said for the same moment: no sample
\* is lost, doubled, mixed with stale ones or played out of order.
Queue == INSTANCE MixQueue WITH
    Speaker <- Stream, Sample <- Cell, Limit <- Size, Frame <- FrameSize,
    pending <- ReadAll(rb),
    ahead <- [s \in Stream |-> IF s \in attached THEN used[s] ELSE -1]

QueueOfSums == Queue!Spec
=============================================================================
