----------------------------- MODULE MCReading -----------------------------
(* The reader of results with two messages of the modem, and the texts,    *)
(* numbers and fields in them.                                             *)
EXTENDS ResultReader, Pdu, AtParse

\* Short texts, and long ones up to all the limits, in 7 bit and in UCS-2.
SomeTexts ==
    UNION {[1..n -> {1, 85, 127}] : n \in 0..3}
      \cup {[i \in 1..n |-> IF i % 3 = 0 THEN 127 ELSE ((7 * i) % 127) + 1]
             : n \in 4..17 \cup {159, 160, 161, 183}}
      \cup {[i \in 1..n |-> 1024 + i] : n \in {1, 2, 3, 70, 80, 81}}

SomePhones == {<<"1", "1", "2">>, <<"+", "7", "9", "0", "3">>, <<"*", "1", "0", "0", "#">>,
               <<"8", "9", "0", "3", "1", "2">>}

\* Every text and field is read as it was written: the network reads what the driver
\* sends, the driver reads what the network delivers, and nothing if it is cut off;
\* and of the modem's lines it takes the fields their descriptions name.  This does
\* not depend on the state, and is looked at before anything is said.
TextsRight ==
    sent = <<>> => SubmitsRight /\ DeliversRight /\ UssdRight /\ FieldsRight /\ CregRight
=============================================================================
