------------------------------ MODULE AtParse ------------------------------
(***************************************************************************)
(* What at_parse.c finds in the lines of the modem.  A line is a sequence  *)
(* of cells: a delimiter, a blank, or a field, of which only what it is    *)
(* matters.                                                                *)
(***************************************************************************)
EXTENDS Integers, Sequences

Quote == "\""
Blank == " "

\* A field sscanf() takes for a number.
Numbers == {"0", "1", "2", "3", "4", "5", "15", "145"}

\* mark_line(): where the delimiters are, each looked for behind the one before;
\* 0 from the first that is not found.
Marks(line, delimiters) ==
    LET m[k \in 0..Len(delimiters)] ==
            IF k = 0 THEN 0
            ELSE LET S == {i \in (m[k - 1] + 1)..Len(line) : line[i] = delimiters[k]}
                 IN  IF (k > 1 /\ m[k - 1] = 0) \/ S = {} THEN 0
                     ELSE CHOOSE i \in S : \A j \in S : i <= j
    IN  [k \in 1..Len(delimiters) |-> m[k]]

Marked(marks) == marks[Len(marks)] > 0

\* The field between two marks, without its quotes.
Unquoted(line, from, to) ==
    LET first == IF line[from + 1] = Quote THEN from + 2 ELSE from + 1
        last  == IF line[to - 1] = Quote THEN to - 2 ELSE to - 1
    IN  SubSeq(line, first, last)

\* The number behind a mark, "" if there is none.
NumberAfter(line, i) ==
    LET j == IF i < Len(line) /\ line[i + 1] = Blank THEN i + 2 ELSE i + 1
    IN  IF j <= Len(line) /\ line[j] \in Numbers THEN line[j] ELSE ""

Failed == <<"failed">>

\* at_parse_cnum(): +CNUM: <name>,<number>,<type>
Cnum(line) ==
    LET m == Marks(line, <<":", ",", ",">>)
    IN  IF Marked(m) THEN Unquoted(line, m[2], m[3]) ELSE Failed

\* at_parse_cops(): +COPS: <mode>[,<format>,<oper>,<?>]
Cops(line) ==
    LET m == Marks(line, <<":", ",", ",", ",">>)
    IN  IF Marked(m) THEN Unquoted(line, m[3], m[4]) ELSE Failed

\* at_parse_spn(): all behind the second comma.
Spn(line) ==
    LET m == Marks(line, <<":", ",", ",">>)
    IN  IF Marked(m) THEN SubSeq(line, m[3] + 1, Len(line)) ELSE Failed

\* at_parse_csca(): +CSCA: <SCA>,<TOSCA>
Csca(line) ==
    LET m == Marks(line, <<Quote, Quote>>)
    IN  IF Marked(m) THEN SubSeq(line, m[1] + 1, m[2] - 1) ELSE Failed

\* at_parse_cmti(): +CMTI: <mem>,<index>
Cmti(line) ==
    LET m == Marks(line, <<":", ",">>)
    IN  IF Marked(m) THEN NumberAfter(line, m[2]) ELSE ""

\* at_parse_ccwa(): the class of +CCWA: <number>,<type>,<class>
Ccwa(line) ==
    LET m == Marks(line, <<":", ",", ",">>)
    IN  IF Marked(m) THEN NumberAfter(line, m[3]) ELSE ""

\* at_parse_clcc(): +CLCC: <id>,<dir>,<stat>,<mode>,<mpty>,<number>,<type>
Clcc(line) ==
    LET m == Marks(line, <<":", ",", ",", ",", ",", ",", ",">>)
        n(k) == NumberAfter(line, m[k])
    IN  IF Marked(m) /\ \A k \in {1, 2, 3, 4, 5, 7} : n(k) # ""
        THEN [idx |-> n(1), dir |-> n(2), state |-> n(3), mode |-> n(4), mpty |-> n(5),
              number |-> Unquoted(line, m[6], m[7]), toa |-> n(7)]
        ELSE [idx |-> "", dir |-> "", state |-> "", mode |-> "", mpty |-> "",
              number |-> Failed, toa |-> ""]

\* at_parse_cusd(): +CUSD: <m>[,<str>[,<dcs>]]
Cusd(line) ==
    LET m   == Marks(line, <<":", ",", ",">>)
        end == Len(line)
    IN  IF m[1] = 0 \/ NumberAfter(line, m[1]) = ""
        THEN [type |-> "", text |-> Failed, dcs |-> ""]
        ELSE [type |-> NumberAfter(line, m[1]),
              text |-> IF m[2] = 0 THEN <<>>
                       ELSE IF m[3] > 0 THEN Unquoted(line, m[2], m[3])
                       ELSE LET first == IF m[2] < end /\ line[m[2] + 1] = Quote
                                         THEN m[2] + 2 ELSE m[2] + 1
                            IN  SubSeq(line, first,
                                       IF line[end] = Quote /\ first <= end THEN end - 1 ELSE end),
              dcs  |-> IF m[2] > 0 /\ m[3] > 0 THEN NumberAfter(line, m[3]) ELSE ""]

\* at_parse_cmgr() in text form: +CMGR: "<status>","<number>",,<time><CR><LF><text>
CmgrText(line) ==
    LET m == Marks(line, <<",", ",", ",", "\n">>)
    IN  IF Marked(m)
        THEN [oa |-> Unquoted(line, m[1], m[2]), text |-> SubSeq(line, m[4] + 1, Len(line))]
        ELSE [oa |-> Failed, text |-> Failed]

\* In PDU form: +CMGR: <status>,[<address>],<length><CR><LF><PDU>
CmgrPdu(line) ==
    LET m == Marks(line, <<",", ",", "\n">>)
    IN  IF Marked(m) /\ NumberAfter(line, m[2]) \notin {"", "0"} /\ line[m[3] - 1] = "\r"
        THEN SubSeq(line, m[3] + 1, Len(line)) ELSE Failed

\* at_parse_cds(): +CDS: <length><CR><LF><PDU>
Cds(line) ==
    LET m == Marks(line, <<":", "\n">>)
    IN  IF Marked(m) /\ NumberAfter(line, m[1]) \notin {"", "0"} /\ line[m[2] - 1] = "\r"
        THEN SubSeq(line, m[2] + 1, Len(line)) ELSE Failed

\* at_parse_creg(): +CREG: [<p1>,]<p2>[,<p3>,<p4>], told apart by how many fields
\* there are.
CregFields(line) ==
    LET m     == Marks(line, <<":", ",", ",", ",">>)
        End(k) == IF k < 4 /\ m[k + 1] > 0 THEN m[k + 1] - 1 ELSE Len(line)
        Field(k) == SelectSeq(SubSeq(line, m[k] + 1, End(k)), LAMBDA c : c \notin {",", Blank})
    IN  SelectSeq([k \in 1..4 |-> IF m[k] = 0 THEN <<>> ELSE Field(k)], LAMBDA f : f # <<>>)

Creg(line) ==
    LET f == CregFields(line)
        n == Len(f)
        status == IF n \in {2, 4} THEN f[2] ELSE f[1]
    IN  IF n = 0 THEN [status |-> Failed, registered |-> FALSE, lac |-> <<>>, ci |-> <<>>]
        ELSE [status |-> status, registered |-> status \in {<<"1">>, <<"5">>},
              lac |-> IF n = 3 THEN f[2] ELSE IF n = 4 THEN f[3] ELSE <<>>,
              ci  |-> IF n = 3 THEN f[3] ELSE IF n = 4 THEN f[4] ELSE <<>>]


------------------------------------------------------------------------------

Quoted(f) == <<Quote>> \o f \o <<Quote>>

\* What a line may hold for a field: nothing, or something with or without quotes.
Shown(f) == IF f = <<>> THEN {f, Quoted(f)} ELSE {Quoted(f), f}

\* at_parse.c: a field is found where the comment on its parser says it is, with or
\* without quotes, empty or not, with what follows it or without.
FieldsRight ==
    \A f \in {<<>>, <<"tele">>, <<"1">>}, n \in Numbers : \A shown \in Shown(f) :
        /\ Cnum(<<"+CNUM", ":", Blank, "name", ",">> \o shown \o <<",", "145">>) = f
        /\ Cops(<<"+COPS", ":", Blank, n, ",", "0", ",">> \o shown \o <<",", "0">>) = f
        /\ Cops(<<"+COPS", ":", Blank, n>>) = Failed
        /\ Spn(<<"^SPN", ":", n, ",", "0", ",">> \o f) = f
        /\ Csca(<<"+CSCA", ":", Blank>> \o Quoted(f) \o <<",", "145">>) = f
        /\ Cmti(<<"+CMTI", ":", Blank, Quote, "SM", Quote, ",", n>>) = n
        /\ Ccwa(<<"+CCWA", ":", Blank>> \o shown \o <<",", "145", ",", n>>) = n
        /\ LET c == Clcc(<<"+CLCC", ":", Blank, n, ",", "1", ",", "4", ",", "0", ",", "0", ",">>
                          \o shown \o <<",", "145">>)
           IN  c.idx = n /\ c.state = "4" /\ c.number = f /\ c.toa = "145"
        /\ Cusd(<<"+CUSD", ":", Blank, n>>) = [type |-> n, text |-> <<>>, dcs |-> ""]
        /\ Cusd(<<"+CUSD", ":", Blank, n, ",">> \o shown) = [type |-> n, text |-> f, dcs |-> ""]
        /\ Cusd(<<"+CUSD", ":", Blank, n, ",">> \o shown \o <<",", "15">>)
             = [type |-> n, text |-> f, dcs |-> "15"]
        /\ CmgrText(<<Quote, "READ", Quote, ",">> \o shown \o <<",", ",", "time", "\r", "\n", "text">>)
             = [oa |-> f, text |-> <<"text">>]
        /\ CmgrPdu(<<"1", ",", ",", "15", "\r", "\n", "pdu">>) = <<"pdu">>
        /\ Cds(<<"+CDS", ":", Blank, "15", "\r", "\n", "pdu">>) = <<"pdu">>

\* The four forms of +CREG are told apart: what is read or said unasked, with the
\* place or without.
CregRight ==
    \A st \in {"0", "1", "2", "3", "4", "5"}, mode \in {<<>>, <<"2", ",">>}, place \in BOOLEAN :
        LET c == Creg(<<"+CREG", ":", Blank>> \o mode \o <<st>>
                      \o (IF place THEN <<",", "lac", ",", "ci">> ELSE <<>>))
        IN  c = [status |-> <<st>>, registered |-> st \in {"1", "5"},
                 lac |-> IF place THEN <<"lac">> ELSE <<>>, ci |-> IF place THEN <<"ci">> ELSE <<>>]
=============================================================================
