-------------------------------- MODULE Pdu --------------------------------
(***************************************************************************)
(* Short messages and USSD codes as they go to the modem and come from it: *)
(* char_conv.c packs and unpacks texts, pdu.c builds and takes apart PDUs. *)
(*                                                                         *)
(* A PDU is a sequence of octets, two hexadecimal digits in the program.   *)
(* A text is a sequence of characters by number; those the program takes   *)
(* for ASCII are below 128.                                                *)
(***************************************************************************)
EXTENDS Integers, SequencesExt

CONSTANTS
    Texts,      \* texts of messages and USSD codes
    Phones      \* numbers of telephones: sequences of digits

Octet == 0..255

\* A C string ends at the first 0.
CString(t) == SubSeq(t, 1, IF \E i \in 1..Len(t) : t[i] = 0
                           THEN (CHOOSE i \in 1..Len(t) : t[i] = 0 /\ \A j \in 1..(i - 1) : t[j] # 0) - 1
                           ELSE Len(t))

------------------------------------------------------------------------------
(* char_conv.c                                                             *)

\* char_to_hexstr_7bit(): an octet for every character but each eighth, which is in
\* the one before; the last character gets one in any case.
Pack7(t) ==
    LET n    == Len(t)
        kept == SelectSeq([i \in 1..n |-> i], LAMBDA i : i = n \/ i % 8 # 0)
        s(i) == (i - 1) % 8
    IN  [k \in 1..Len(kept) |->
            LET i == kept[k]
            IN  IF i = n THEN t[i] \div 2^s(i)
                ELSE (t[i] \div 2^s(i) + t[i + 1] * 2^(7 - s(i))) % 256]

\* Mutant: the bits of an octet that belong to the next character are not forgotten
\* after the eighth character.
Unpack7Carry(o) ==
    LET s(i) == ((i - 1) % 7) + 1
        b(i) == IF i = 1 THEN 0 ELSE o[i - 1] \div 2^(8 - s(i - 1))
        c(i) == (((o[i] * 2^s(i)) % 256) \div 2) + b(i)
    IN  FlattenSeq([i \in 1..Len(o) |->
            IF s(i) = 7 THEN <<c(i), o[i] \div 2>> ELSE <<c(i)>>])

\* hexstr_7bit_to_char(): after seven octets an eighth character is complete.
Unpack7(o) ==
    LET s(i) == ((i - 1) % 7) + 1
        b(i) == IF s(i) = 1 THEN 0 ELSE o[i - 1] \div 2^(8 - s(i - 1))
        c(i) == (((o[i] * 2^s(i)) % 256) \div 2) + b(i)
    IN  FlattenSeq([i \in 1..Len(o) |->
            IF s(i) = 7 THEN <<c(i), o[i] \div 2>> ELSE <<c(i)>>])

\* iconv() between UTF-8 and UCS-2BE, for characters of two octets.
PackUcs2(t) == FlattenSeq([i \in 1..Len(t) |-> <<t[i] \div 256, t[i] % 256>>])

UnpackUcs2(o) == [i \in 1..(Len(o) \div 2) |-> 256 * o[2 * i - 1] + o[2 * i]]

Encodings == {"7BIT", "8BIT", "UCS2"}

\* str_recode(RECODE_ENCODE, ...): what pdu_build() uses of it.
Encode(enc, t) == IF enc = "UCS2" THEN PackUcs2(t) ELSE Pack7(t)

\* str_recode(RECODE_DECODE, ...) fails on half a character.
CanDecode(enc, o) == enc = "UCS2" => Len(o) % 2 = 0

Decode(enc, o) ==
    CASE enc = "7BIT" -> Unpack7(o)
      [] enc = "8BIT" -> o
      [] enc = "UCS2" -> UnpackUcs2(o)

\* get_encoding(RECODE_ENCODE, ...) and check_encoding()
EncodingOf(t) == IF \E i \in 1..Len(t) : t[i] >= 128 THEN "UCS2" ELSE "7BIT"

------------------------------------------------------------------------------
(* pdu.c: numbers                                                          *)

Digits == <<"0", "1", "2", "3", "4", "5", "6", "7", "8", "9", "*", "#", "A", "B", "C">>

\* pdu_digit2code()
Digit2Code(d) == (CHOOSE i \in 1..Len(Digits) : Digits[i] = d) - 1

\* pdu_code2digit() and pdu_parse_number(): what is no digit ends the string.
Code2Digit(c) == IF c < Len(Digits) THEN Digits[c + 1] ELSE ""

\* pdu_store_number(): the first digit of a pair is in the low half of the octet.
StoreNumber(number) ==
    LET n == Len(number)
        Code(i) == IF i <= n THEN Digit2Code(number[i]) ELSE 15
    IN  [k \in 1..((n + 1) \div 2) |-> 16 * Code(2 * k) + Code(2 * k - 1)]

International == 145
NetworkShort  == 177
UnknownType   == 129

\* pdu_parse_number(): the digits of the octets, up to the first that is none.
ParseNumber(toa, octets) ==
    LET codes  == FlattenSeq([k \in 1..Len(octets) |-> <<octets[k] % 16, octets[k] \div 16>>])
        digits == [i \in 1..Len(codes) |-> Code2Digit(codes[i])]
        all    == IF toa = International THEN <<"+">> \o digits ELSE digits
        ends   == {i \in 1..Len(all) : all[i] = ""}
    IN  IF ends = {} THEN all
        ELSE SubSeq(all, 1, (CHOOSE i \in ends : \A j \in ends : i <= j) - 1)

------------------------------------------------------------------------------
(* pdu.c: messages to be sent                                              *)

MaxData == 160   \* octets of the text
MaxTpdu == 178   \* octets of the PDU without the address of the service centre

\* pdu_relative_validity() is not called: the longest period is asked for.
Validity == 255

TypeSubmit == 1 + 2 * 8 + 32   \* SMS-SUBMIT, relative validity, report requested

TooBig == <<>>

\* pdu_build() without an address of the service centre, which is how it is called.
PduBuild(dst, text) ==
    LET plus   == dst # <<>> /\ dst[1] = "+"
        number == IF plus THEN Tail(dst) ELSE dst
        toa    == IF plus THEN International
                  ELSE IF Len(number) < 6 THEN NetworkShort ELSE UnknownType
        enc    == EncodingOf(text)
        data   == Encode(enc, text)
        tpdu   == <<TypeSubmit, 0, Len(number), toa>> \o StoreNumber(number)
                   \o <<0, IF enc = "UCS2" THEN 8 ELSE 0, Validity,
                        IF enc = "UCS2" THEN Len(data) ELSE Len(text)>>
                   \o data
    IN  IF Len(data) > MaxData \/ Len(tpdu) > MaxTpdu THEN TooBig ELSE <<0>> \o tpdu

------------------------------------------------------------------------------
(* pdu.c: messages received                                                *)

\* pdu_parse_byte()
At(p, i) == IF i <= Len(p) THEN p[i] ELSE -1

From(p, i) == SubSeq(p, i, Len(p))

\* pdu_parse_sca(): where the PDU begins, 0 if it does not.
AfterSca(p) == IF At(p, 1) >= 0 /\ At(p, 1) <= Len(p) - 1 THEN 2 + At(p, 1) ELSE 0

\* Where the number that begins with its length at i ends; Len(p) + 2 if it is cut off.
AfterNumber(p, i) ==
    LET next == i + 2 + (At(p, i) + 1) \div 2
    IN  IF next <= Len(p) + 1 THEN next ELSE Len(p) + 2

NumberAt(p, i) == ParseNumber(At(p, i + 1), SubSeq(p, i + 2, AfterNumber(p, i) - 1))

\* Only 7 bit, 8 bit and UCS-2, not compressed.
DcsSupported(dcs) == dcs < 32 /\ (dcs \div 4) % 4 \in {0, 1, 2}

\* pdu_dcs_alpabet2encoding()
DcsEncoding(dcs) ==
    CASE (dcs \div 4) % 4 = 0 -> "7BIT"
      [] (dcs \div 4) % 4 = 1 -> "8BIT"
      [] OTHER -> "UCS2"

\* How many octets the length in the PDU means.
UdOctets(dcs, udl) == IF DcsEncoding(dcs) = "7BIT" THEN ((udl + 1) * 7) \div 8 ELSE udl

\* pdu_parse(): the first thing wrong with a received PDU, "" if there is none.
PduError(p) ==
    LET a == AfterSca(p)
        b == AfterNumber(p, a + 1)
        dcs == At(p, b + 1)
        ud == From(p, b + 10)
    IN  IF a = 0 THEN "SCA"
        ELSE IF At(p, a) < 0 THEN "PDU type"
        ELSE IF At(p, a) % 4 # 0 THEN "MTI"
        ELSE IF At(p, a + 1) <= 0 THEN "length of OA"
        ELSE IF At(p, a + 2) < 0 \/ b > Len(p) + 1 THEN "OA"
        ELSE IF At(p, b) # 0 THEN "PID"
        ELSE IF dcs < 0 \/ ~DcsSupported(dcs) THEN "DCS"
        ELSE IF Len(p) < b + 8 THEN "timestamp"
        ELSE IF At(p, b + 9) < 0 THEN "UDL"
        ELSE IF UdOctets(dcs, At(p, b + 9)) # Len(ud) THEN "UDL not match with UD length"
        ELSE IF (At(p, a) \div 64) % 2 = 1 /\ (ud = <<>> \/ ud[1] > Len(ud) - 1) THEN "UDH"
        ELSE ""

\* The text begins behind the header, if there is one.
PduText(p) ==
    LET a  == AfterSca(p)
        ud == From(p, AfterNumber(p, a + 1) + 10)
    IN  IF (At(p, a) \div 64) % 2 = 1 THEN From(ud, ud[1] + 2) ELSE ud

PduEncoding(p) == DcsEncoding(At(p, AfterNumber(p, AfterSca(p) + 1) + 1))

NoMessage == [from |-> <<>>, text |-> <<>>, got |-> FALSE]

\* at_response_cmgr() with the message of a +CMGR in PDU form: nothing is told of one
\* that is wrong or cannot be decoded.
Received(p) ==
    IF PduError(p) # "" \/ ~CanDecode(PduEncoding(p), PduText(p)) THEN NoMessage
    ELSE [from |-> NumberAt(p, AfterSca(p) + 1),
          text |-> CString(Decode(PduEncoding(p), PduText(p))), got |-> TRUE]

\* pdu_parse_cds() and at_response_cds(): of a report only the number is told.
Reported(p) ==
    LET a == AfterSca(p)
    IN  IF a = 0 \/ At(p, a) < 0 \/ At(p, a) % 4 # 2 \/ At(p, a + 2) <= 0 THEN NoMessage
        ELSE [from |-> IF AfterNumber(p, a + 2) > Len(p) + 1 \/ At(p, a + 3) < 0 THEN <<>>
                       ELSE NumberAt(p, a + 2),
              text |-> <<>>, got |-> TRUE]

------------------------------------------------------------------------------
(* USSD                                                                    *)

SevenBitModems == {"E1550", "E1750", "E160X", "E150", "E173", "E1552", "E171", "E153"}

\* at_response_cgmm() and at_enque_ussd(); behind an equals sign the code is sent as it
\* is.
UssdRequest(model, ucs2, code) ==
    IF code # <<>> /\ code[1] = 61 THEN Tail(code)
    ELSE IF model \in SevenBitModems THEN Pack7(code)
    ELSE IF ucs2 THEN PackUcs2(code)
    ELSE code

\* at_response_cusd(): what cannot be decoded is told as it came.
UssdText(model, dcs, octets) ==
    LET enc == IF dcs \in {0, 1, 15} /\ model \in SevenBitModems THEN "7BIT" ELSE "UCS2"
    IN  IF CanDecode(enc, octets) THEN CString(Decode(enc, octets)) ELSE octets


------------------------------------------------------------------------------
(* What GSM 03.38 and 03.40 say, bit by bit.                               *)

BitsOf(width, t, k) == (t[k \div width + 1] \div 2^(k % width)) % 2

\* n numbers of so many bits, out of the bits of t.
Regroup(t, width, n, newWidth) ==
    LET Bit(k) == IF k \div width < Len(t) THEN BitsOf(width, t, k) ELSE 0
    IN  [i \in 1..n |->
            SumSet({Bit((i - 1) * newWidth + b) * 2^b : b \in 0..(newWidth - 1)})]

Septets(t) == Regroup(t, 7, (7 * Len(t) + 7) \div 8, 8)

ReadSeptets(o, n) == Regroup(o, 8, n, 7)

\* A message as the network delivers it; header is in front of the text.
Delivered(phone, enc, header, text) ==
    LET data == header \o (CASE enc = "7BIT" -> Septets(text)
                             [] enc = "8BIT" -> text
                             [] enc = "UCS2" -> PackUcs2(text))
        dcs  == CASE enc = "7BIT" -> 0 [] enc = "8BIT" -> 4 [] enc = "UCS2" -> 8
        plus == phone[1] = "+"
        number == IF plus THEN Tail(phone) ELSE phone
    IN  <<1, 145, IF header = <<>> THEN 4 ELSE 68, Len(number),
          IF plus THEN International ELSE UnknownType>>
        \o StoreNumber(number) \o <<0, dcs, 1, 2, 3, 4, 5, 6, 7,
                                    IF enc = "7BIT" THEN Len(text) ELSE Len(data)>> \o data

Ascii == {t \in Texts : EncodingOf(t) = "7BIT"}

\* The network reads from a PDU the number and the text it was built from.
SubmitsRight ==
    \A phone \in Phones, text \in Texts :
        LET p      == PduBuild(phone, text)
            after  == 6 + (p[4] + 1) \div 2
            udl    == p[after + 3]
            data   == From(p, after + 4)
        IN  p # TooBig =>
              /\ ParseNumber(p[5], SubSeq(p, 6, after - 1)) = phone
              /\ IF p[after + 1] = 8 THEN udl = Len(data) /\ UnpackUcs2(data) = text
                 ELSE ReadSeptets(data, udl) = text

\* What the network delivers is told as it was sent; whatever is cut off its end,
\* nothing else is told instead.
DeliversRight ==
    \A phone \in Phones, text \in Texts, enc \in Encodings, header \in {<<>>, <<3, 0, 2, 1>>} :
        LET p == Delivered(phone, enc, header, text)
        IN  (text \in Ascii \/ enc = "UCS2") /\ (enc = "7BIT" => header = <<>>) =>
              /\ Received(p) = [from |-> phone, text |-> text, got |-> TRUE]
              /\ \A n \in 0..(Len(p) - 1) : ~Received(SubSeq(p, 1, n)).got

\* Codes go out and texts come in as the model wants them.
UssdRight ==
    \A text \in Texts, model \in {"E1550", "K3715"}, dcs \in {15, 72} :
        IF model = "E1550" /\ dcs = 15
        THEN text \in Ascii =>
               /\ ReadSeptets(UssdRequest(model, TRUE, text), Len(text)) = text
               /\ UssdText(model, dcs, Septets(text)) = text
        ELSE UssdText(model, dcs, PackUcs2(text)) = text
=============================================================================
