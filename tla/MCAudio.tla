------------------------------- MODULE MCAudio -------------------------------
(* An instance of Audio for TLC: samples of a narrow width that saturate.   *)
EXTENDS Audio

MCCell == {-2, 0, 1}

\* The sum, cut to what a sample may be.
MCSum == [p \in MCCell \X MCCell |->
            IF p[1] + p[2] < 0 THEN -2 ELSE IF p[1] + p[2] > 0 THEN 1 ELSE 0]

MCFrames == {<<1>>, <<-2, 0>>, <<1, 1, 0>>}

=============================================================================
