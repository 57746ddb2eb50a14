---------------------------- MODULE ResultReader ----------------------------
(***************************************************************************)
(* The monitor thread cuts what the modem says into results (at_read.c):   *)
(* the bytes arrive in pieces of any length, go through a ring buffer, and *)
(* a result is known by how it begins and how it ends.                     *)
(*                                                                         *)
(* A cell stands for a byte, or for a piece of text that need not be told  *)
(* apart; what a result begins with is two cells, so that it may arrive in *)
(* two pieces.  Lengths the code counts in bytes are scaled to that.       *)
(***************************************************************************)
EXTENDS Integers, SequencesExt

CONSTANTS
    RingSize,      \* bytes of the buffer
    Kinds,         \* what the modem may say: a subset of AllKinds
    MaxMessages    \* bound: messages of the modem

CR == "\r"
LF == "\n"
CRLF == <<CR, LF>>

Cells == {CR, LF, "O", "K", "+", "CMGR:", "CLCC:", "CMGS:", "CSSI:", "CSSU:", "CDS:",
          ">", " ", "A", "v", "p"}

R == INSTANCE RingBuffer WITH Size <- RingSize, Cell <- Cells

VARIABLES
    wire,          \* bytes on the line, not read yet
    rb,            \* the buffer of do_monitor_phone()
    readResult,    \* its read_result: 1 within a result
    pc,            \* "wait" in at_wait(), "read", or "gone": connection given up
    results,       \* the results handed to at_response(): [class, text]
    sent           \* history: what the modem said

vars == <<wire, rb, readResult, pc, results, sent>>

------------------------------------------------------------------------------
(* What the modem says, and what should be understood.                     *)

Begins(class) ==
    CASE class = "OK"     -> <<"O", "K", CR>>
      [] class = "PROMPT" -> <<">", " ">>
      [] class = "CMGR"   -> <<"+", "CMGR:">>
      [] class = "CLCC"   -> <<"+", "CLCC:">>
      [] class = "CMGS"   -> <<"+", "CMGS:">>
      [] class = "CSSI"   -> <<"+", "CSSI:">>
      [] class = "CSSU"   -> <<"+", "CSSU:">>
      [] class = "CDS"    -> <<"+", "CDS:">>

Classes == {"OK", "PROMPT", "CMGR", "CLCC", "CMGS", "CSSI", "CSSU", "CDS"}

Line(text) == CRLF \o text \o CRLF

EndOfList == <<LF, CR, LF, "O", "K", CR, LF>>

Said(kind) ==
    CASE kind = "ok"       -> Line(<<"O", "K">>)
      [] kind = "prompt"   -> CRLF \o <<">", " ">>
      [] kind = "message"  -> CRLF \o Begins("CMGR") \o <<"v", CR, LF, "p", CR>> \o EndOfList
      [] kind = "calls"    -> CRLF \o Begins("CLCC") \o <<"v", CR>> \o EndOfList
      [] kind = "accepted" -> CRLF \o Line(Begins("CMGS") \o <<"v">>)
      [] kind = "services" -> Line(Begins("CSSI") \o <<"v">>) \o Line(Begins("CSSU") \o <<"v">>)
      [] kind = "report"   -> Line(Begins("CDS") \o <<"v", CR, LF, "p", "p">>)
      [] kind = "lines"    -> Line(<<"v", CR, LF, "v", "v">>)
      [] kind = "echo"     -> <<"A", "v", CR>>
      [] kind = "endless"  -> CRLF \o [i \in 1..(RingSize + 1) |-> "v"]

AllKinds == {"ok", "prompt", "message", "calls", "accepted", "services", "report", "lines",
             "echo", "endless"}

ASSUME RingAssumption == RingSize \in Nat /\ RingSize >= Len(Said("message")) - 2
ASSUME KindsAssumption == Kinds \subseteq AllKinds /\ MaxMessages \in Nat

Result(class, text) == [class |-> class, text |-> text]

Understood(kind) ==
    CASE kind = "ok"       -> <<Result("OK", <<"O", "K">>)>>
      [] kind = "prompt"   -> <<Result("PROMPT", <<">">>)>>
      [] kind = "message"  -> <<Result("CMGR", Begins("CMGR") \o <<"v", CR, LF, "p">>)>>
      [] kind = "calls"    -> <<Result("CLCC", Begins("CLCC") \o <<"v">>),
                                Result("OK", <<"O", "K">>)>>
      [] kind = "accepted" -> <<Result("CMGS", Begins("CMGS") \o <<"v">>)>>
      [] kind = "services" -> <<Result("CSSI", Begins("CSSI")),
                                Result("CSSU", Begins("CSSU") \o <<"v">>)>>
      [] kind = "report"   -> <<Result("CDS", Begins("CDS") \o <<"v", CR, LF, "p">>)>>
      [] kind = "lines"    -> <<Result("UNKNOWN", <<"v">>)>>
      [] kind \in {"echo", "endless"} -> <<>>

Expected == FlattenSeq([i \in 1..Len(sent) |-> Understood(sent[i])])

\* The results the modem spoke of: with the OK that ends a stored message, which
\* belongs to its result.
Spoken ==
    FlattenSeq([i \in 1..Len(sent) |->
        IF sent[i] = "message" THEN Append(Understood("message"), Result("OK", <<"O", "K">>))
        ELSE Understood(sent[i])])

------------------------------------------------------------------------------
(* at_read_result_iov() and at_read_result_classification().               *)

\* at_read_result_classification(): the first known beginning, UNKNOWN if none.
Classify(r) ==
    IF \E c \in Classes : R!MemCmp(r, Begins(c)) = 0
    THEN CHOOSE c \in Classes : R!MemCmp(r, Begins(c)) = 0
    ELSE "UNKNOWN"

\* What +CSSI: and its value take: 8 bytes.
CssiLen == 3

\* How much of the head of a report is skipped before its end is looked for.
CdsSkip == 5

\* Mutant: OK is left in the buffer after a message.
ConsumedLess(class, n) ==
    CASE class = "PROMPT" -> 2
      [] class = "CSSI"   -> CssiLen
      [] OTHER            -> n + 1

Consumed(class, n) ==
    CASE class = "PROMPT" -> 2
      [] class = "CMGR"   -> n + 7
      [] class = "CSSI"   -> CssiLen
      [] OTHER            -> n + 1

\* A result of n cells goes to at_response(), which leaves out the last one.
Deliver(n) ==
    LET class == Classify(rb)
    IN  /\ results' = Append(results, Result(class, SubSeq(R!ReadAll(rb), 1, n - 1)))
        /\ rb' = R!ReadUpd(rb, Consumed(class, n))
        /\ readResult' = 0
        /\ UNCHANGED pc

Drop(n) == rb' = R!ReadUpd(rb, n) /\ UNCHANGED <<pc, results>>

Wait == pc' = "wait" /\ UNCHANGED <<rb, readResult, results>>

Outside == pc = "read" /\ rb.used > 0 /\ readResult = 0 /\ UNCHANGED <<wire, sent>>
Inside  == pc = "read" /\ rb.used > 0 /\ readResult = 1 /\ UNCHANGED <<wire, sent>>

Is(mem) == R!MemCmp(rb, mem) = 0

Open == Outside /\ Is(CRLF) /\ Drop(2) /\ readResult' = 1

\* The rest of an answer of several lines, or an echo.
NextLine ==
    /\ Outside /\ R!MemCmp(rb, CRLF) > 0 /\ Is(<<LF>>)
    /\ Drop(1) /\ UNCHANGED readResult

Skip ==
    /\ Outside /\ R!MemCmp(rb, CRLF) > 0 /\ ~Is(<<LF>>)
    /\ LET n == R!UntilChar(rb, CR) IN Drop(IF n >= 0 THEN n + 1 ELSE rb.used)
    /\ UNCHANGED readResult

TooShort == Outside /\ R!MemCmp(rb, CRLF) < 0 /\ Wait

Nothing == pc = "read" /\ rb.used = 0 /\ Wait /\ UNCHANGED <<wire, sent>>

Service ==
    /\ Inside /\ Is(Begins("CSSI"))
    /\ IF rb.used >= CssiLen THEN Deliver(CssiLen) ELSE Wait

\* A line end before one of these is not an empty line.
OpenAgain ==
    /\ Inside /\ (Is(CRLF \o Begins("CSSU")) \/ Is(CRLF \o Begins("CMGS")))
    /\ Drop(2) /\ UNCHANGED readResult

Prompt == Inside /\ Is(Begins("PROMPT")) /\ Deliver(2)

Listing ==
    /\ Inside /\ (Is(Begins("CMGR")) \/ Is(Begins("CLCC")))
    /\ LET n == R!UntilMem(rb, EndOfList) IN IF n >= 0 THEN Deliver(n) ELSE Wait

\* The state is left before the end of the report is known to be there.
Report ==
    /\ Inside /\ Is(Begins("CDS"))
    /\ \E n \in R!UntilCharAfter(rb, CR, CdsSkip) :
          IF n >= 0 THEN Deliver(n)
          ELSE readResult' = 0 /\ pc' = "wait" /\ UNCHANGED <<rb, results>>

Other ==
    /\ Inside
    /\ \A c \in {"CSSI", "PROMPT", "CMGR", "CLCC", "CDS"} : ~Is(Begins(c))
    /\ ~Is(CRLF \o Begins("CSSU")) /\ ~Is(CRLF \o Begins("CMGS"))
    /\ LET n == R!UntilMem(rb, CRLF) IN IF n >= 0 THEN Deliver(n + 1) ELSE Wait

------------------------------------------------------------------------------

Init ==
    /\ wire = <<>> /\ rb = R!Empty([i \in R!Place |-> "v"])
    /\ readResult = 0 /\ pc = "wait" /\ results = <<>> /\ sent = <<>>

\* The modem says something.
Say(kind) ==
    /\ Len(sent) < MaxMessages
    /\ sent' = Append(sent, kind)
    /\ wire' = wire \o Said(kind)
    /\ UNCHANGED <<rb, readResult, pc, results>>

\* at_read(): as much as is there and fits.
Read(n) ==
    /\ pc = "wait" /\ n <= Len(wire) /\ n <= R!Free(rb)
    /\ rb' = R!ReadIn(rb, SubSeq(wire, 1, n))
    /\ wire' = SubSeq(wire, n + 1, Len(wire))
    /\ pc' = "read"
    /\ UNCHANGED <<readResult, results, sent>>

\* The buffer is full and holds no result.
Overflow ==
    /\ pc = "wait" /\ wire # <<>> /\ R!Free(rb) = 0
    /\ pc' = "gone"
    /\ UNCHANGED <<wire, rb, readResult, results, sent>>

Next ==
    \/ \E kind \in Kinds : Say(kind)
    \/ \E n \in 1..RingSize : Read(n)
    \/ Overflow
    \/ Open \/ NextLine \/ Skip \/ TooShort \/ Nothing
    \/ Service \/ OpenAgain \/ Prompt \/ Listing \/ Report \/ Other

Spec == Init /\ [][Next]_vars

------------------------------------------------------------------------------

\* The results that have a class; of a report the text is left out, which the
\* reader may take from behind the bytes it has.
Known(s) ==
    LET known == SelectSeq(s, LAMBDA r : r.class # "UNKNOWN")
    IN  [i \in 1..Len(known) |->
            IF known[i].class = "CDS" THEN Result("CDS", <<>>) ELSE known[i]]

\* s is t with some elements left out.
SomeOf(s, t) ==
    \E D \in SUBSET (1..Len(t)) :
        LET kept == SetToSortSeq(D, <)
        IN  s = [i \in 1..Len(kept) |-> t[kept[i]]]

\* The reader may miss a result, but makes none up: every one it knows was said,
\* in that order, whatever pieces the bytes came in.
NoneMadeUp == SomeOf(Known(results), Known(Spoken))

\* What must arrive in one piece to be understood.
Fragile == {"accepted", "services", "report", "lines"}

\* Nothing is missed or out of order as long as nothing fragile has been said,
\* and when all has been read all was understood.
NoneMissed ==
    (\A i \in 1..Len(sent) : sent[i] \notin Fragile)
      => /\ IsPrefix(results, Expected)
         /\ pc = "wait" /\ wire = <<>> => results = Expected

\* at_read.c: the modem's lines are cut where they end, whatever pieces they
\* arrive in and wherever they lie in the ring buffer.
LinesRight == NoneMadeUp /\ NoneMissed

------------------------------------------------------------------------------

\* What the modem has said and the reader has not taken yet.
Pending == R!ReadAll(rb) \o wire

\* at_read.c: what the modem says is taken in the order it was said, whatever pieces
\* it arrives in: it only grows at its end and is only taken from its beginning, from
\* what has arrived; and the text of a result is the beginning of what is taken with
\* it, so that no byte is in two results.
BytesInOrder ==
    [][\/ \E kind \in Kinds : Pending' = Pending \o Said(kind) /\ UNCHANGED <<rb, results>>
       \/ \E n \in 0..rb.used :
             /\ Pending' = SubSeq(Pending, n + 1, Len(Pending))
             /\ n > 0 => UNCHANGED wire
             /\ \/ UNCHANGED results
                \/ \E class \in Classes \cup {"UNKNOWN"}, m \in 0..n :
                      results' = Append(results, Result(class, SubSeq(Pending, 1, m)))]_vars
=============================================================================
