------------------------------ MODULE MixQueue ------------------------------
(***************************************************************************)
(* What a mix buffer promises: a queue of sums.  Every speaker has got as  *)
(* far ahead of the player as it has spoken since it joined; what it says  *)
(* is added to what the others said for the same moment.  A speaker that   *)
(* is a whole buffer ahead makes everybody skip the oldest samples.        *)
(***************************************************************************)
EXTENDS Integers, Sequences

CONSTANTS
    Speaker,   \* who may speak
    Sample,    \* what is said and played
    Sum,       \* [Sample \X Sample -> Sample], the saturated sum
    Frames,    \* what may be said at once
    Limit,     \* how far ahead a speaker may be
    Frame      \* how much is played at once

VARIABLES
    pending,   \* the samples to be played, in order
    ahead      \* how far ahead each speaker is, -1 if it does not take part

vars == <<pending, ahead>>

Skipped(n) == SubSeq(pending, n + 1, Len(pending))

Behind(n) == [s \in Speaker |->
                IF ahead[s] < 0 THEN -1 ELSE IF ahead[s] > n THEN ahead[s] - n ELSE 0]

\* The samples of f are added from place a + 1 on.
Mixed(q, a, f) ==
    [k \in 1..(IF a + Len(f) > Len(q) THEN a + Len(f) ELSE Len(q)) |->
        IF k <= a \/ k > a + Len(f) THEN q[k]
        ELSE IF k <= Len(q) THEN Sum[<<q[k], f[k - a]>>]
        ELSE f[k - a]]

Join(s) ==
    /\ ahead[s] < 0
    /\ ahead' = [ahead EXCEPT ![s] = 0]
    /\ UNCHANGED pending

Leave(s) ==
    /\ ahead[s] >= 0
    /\ ahead' = [ahead EXCEPT ![s] = -1]
    /\ UNCHANGED pending

Speak(s, f) ==
    /\ ahead[s] >= 0
    /\ LET over == ahead[s] + Len(f) - Limit
           n    == IF over > 0 THEN over ELSE 0
       IN  /\ pending' = Mixed(Skipped(n), Behind(n)[s], f)
           /\ ahead' = [Behind(n) EXCEPT ![s] = @ + Len(f)]

Play ==
    LET n == IF Len(pending) < Frame THEN Len(pending) ELSE Frame
    IN  /\ pending' = Skipped(n)
        /\ ahead' = Behind(n)

\* With nobody taking part everything may be forgotten.
Clear ==
    /\ \A s \in Speaker : ahead[s] < 0
    /\ pending' = <<>>
    /\ UNCHANGED ahead

Init ==
    /\ pending = <<>>
    /\ ahead = [s \in Speaker |-> -1]

Next ==
    \/ \E s \in Speaker : Join(s) \/ Leave(s) \/ \E f \in Frames : Speak(s, f)
    \/ Play
    \/ Clear

Spec == Init /\ [][Next]_vars
=============================================================================
